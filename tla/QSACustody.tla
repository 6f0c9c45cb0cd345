----------------------------- MODULE QSACustody -----------------------------
(***************************************************************************)
(* What the physical backing of QSA HiSparse promises, whatever the code   *)
(* that keeps the promise looks like: a backing slot (one host slab, one   *)
(* hot buffer and one C4 ring) has at most one holder, the single raw      *)
(* prefill lane belongs to at most one holder, a holder's identity is      *)
(* never issued twice, and a slot goes back only when nothing uses it.     *)
(*                                                                         *)
(* The slot table (QSASlots) and the runtime that drives it (QSALifecycle) *)
(* are both shown to implement this module, with different readings of     *)
(* "using": what the table believes, and what device work and logical      *)
(* pages there really are.                                                 *)
(***************************************************************************)
CONSTANTS
    Slots,      \* the backing slots
    Leases,     \* the identities a slot can be held under
    NoLease     \* the value that stands for "nobody"; no lease

VARIABLES
    holder,     \* slot -> the lease that holds it
    lane,       \* the lease that owns the raw prefill staging area
    spent,      \* the leases that can never be issued again
    using       \* the leases whose backing is still in use

vars == <<holder, lane, spent, using>>

Held == {holder[s] : s \in Slots} \ {NoLease}

Init ==
    /\ holder = [s \in Slots |-> NoLease]
    /\ lane = NoLease
    /\ spent = {}
    /\ using = {}

\* A fresh lease takes a free slot and the lane with it.
Take(s, l) ==
    /\ holder[s] = NoLease
    /\ lane = NoLease
    /\ l \in Leases \ spent
    /\ holder' = [holder EXCEPT ![s] = l]
    /\ lane' = l
    /\ spent \cup {l} \subseteq spent'
    /\ using' = using \cup {l}

\* The lane is handed on; its owner keeps its slot.
LeaveLane ==
    /\ lane' = NoLease
    /\ using' \subseteq Held
    /\ UNCHANGED <<holder, spent>>

\* Holders start and stop using what they hold.
Use ==
    /\ using' \subseteq Held
    /\ UNCHANGED <<holder, lane, spent>>

\* Slots go back together; none of their holders uses them or the lane.
GiveBack(S) ==
    /\ \A s \in S : holder[s] # NoLease /\ holder[s] # lane /\ holder[s] \notin using
    /\ holder' = [s \in Slots |-> IF s \in S THEN NoLease ELSE holder[s]]
    /\ UNCHANGED <<lane, spent, using>>

Next ==
    \/ \E s \in Slots, l \in Leases : Take(s, l)
    \/ LeaveLane
    \/ Use
    \/ \E S \in SUBSET Slots : GiveBack(S)

Spec == Init /\ [][Next]_vars

=============================================================================
