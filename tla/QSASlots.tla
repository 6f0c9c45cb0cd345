------------------------------ MODULE QSASlots ------------------------------
(***************************************************************************)
(* hisparse/slots.py: the table of request-scoped leases on physical       *)
(* backing. One prefill at a time owns the raw staging lane; up to         *)
(* max_requests leases each own a slot (a five-row C4 ring, a hot buffer   *)
(* and a host slab) from prefill to the end of their release.              *)
(*                                                                         *)
(* Every method is one action. A call whose guard fails raises before it   *)
(* assigns anything, so it is no step. Leases are presented by their       *)
(* callers (the runtime, the coordinator's queue, the release path), which *)
(* may still hold a lease of an earlier occupancy: the actions quantify    *)
(* over every lease value and the code's require decides.                  *)
(***************************************************************************)
EXTENDS Integers

CONSTANTS
    Rows,           \* the request-pool rows; row 0 is the pool's dummy row
    Generations,    \* the values of ReqToTokenPool.req_generation in use
    Rids,           \* the request IDs
    MaxRequests,    \* max_requests: the leases the backing has room for
    PageSize,       \* page_size of the raw pool
    StagingTokens,  \* staging_tokens: the raw rows of the prefill lane
    NoLease         \* dict.get's None for a row without a lease

\* QSAHiSparseSlots.__init__ raises on any other geometry.
ASSUME GeometryAssumption ==
    /\ PageSize \in Nat /\ PageSize >= 4 /\ PageSize % 4 = 0
    /\ StagingTokens \in Nat /\ StagingTokens > 0 /\ StagingTokens % PageSize = 0
    /\ MaxRequests \in 1..8

\* acquire refuses row 0, generation 0 and an empty request ID.
ASSUME IdentityAssumption ==
    /\ Rows \subseteq Nat \ {0}
    /\ Generations \subseteq Nat \ {0}

Slots == 0..(MaxRequests - 1)

\* QSAHiSparseLease, a frozen dataclass compared by value.
Leases == [req_pool_idx : Rows, generation : Generations, rid : Rids, slot : Slots]

ASSUME NoLeaseAssumption == NoLease \notin Leases

\* "releasing" is what an interrupted drain leaves behind.
Phases == {"prefill", "copying", "host_ready", "decode",
           "releasing", "failed", "drained", "logical_flushed"}

VARIABLES
    active,             \* row -> its lease, or NoLease
    phases,             \* row -> the phase of its lease, or "none"
    last_generation,    \* row -> the largest generation it was leased under
    free_slots,         \* slot -> how often the sorted free list holds it
    prefill_owner       \* the lease that owns the staging lane, or NoLease

slotVars == <<active, phases, last_generation, free_slots, prefill_owner>>

SlotsTypeOK ==
    /\ active \in [Rows -> Leases \cup {NoLease}]
    /\ phases \in [Rows -> Phases \cup {"none"}]
    /\ last_generation \in [Rows -> Nat]
    /\ free_slots \in [Slots -> Nat]
    /\ prefill_owner \in Leases \cup {NoLease}

----------------------------------------------------------------------------
(* Physical addresses: raw pool rows [0, RawPoolSize + PageSize).          *)

RawPoolSize == StagingTokens + 5 * MaxRequests

StagingSlice(start, stop) == (PageSize + start)..(PageSize + stop - 1)

\* Mutant: a stride of the four members, without the padding row.
RingStartPacked(slot) == PageSize + StagingTokens + 4 * slot

RingStart(slot) == PageSize + StagingTokens + 5 * slot

RingSlice(slot) == RingStart(slot)..(RingStart(slot) + 4)

RingWriteLocation(slot, seq_len) == RingStart(slot) + 1 + ((seq_len - 1) % 4)

----------------------------------------------------------------------------
(* The methods.                                                            *)

SlotsInit ==
    /\ active = [r \in Rows |-> NoLease]
    /\ phases = [r \in Rows |-> "none"]
    /\ last_generation = [r \in Rows |-> 0]
    /\ free_slots = [s \in Slots |-> 1]
    /\ prefill_owner = NoLease

Require(lease, allowed) ==
    /\ active[lease.req_pool_idx] = lease
    /\ phases[lease.req_pool_idx] \in allowed

SetPhase(lease, phase) == phases' = [phases EXCEPT ![lease.req_pool_idx] = phase]

\* pop(0) of the sorted list, which raises when the list is empty.
FirstFree(slot) ==
    /\ free_slots[slot] > 0
    /\ \A s \in Slots : free_slots[s] > 0 => slot <= s

\* Mutant: the generation is compared with < instead of <=.
AcquireSameGeneration(row, generation, rid) ==
    /\ active[row] = NoLease
    /\ generation >= last_generation[row]
    /\ prefill_owner = NoLease
    /\ \E slot \in Slots :
          /\ FirstFree(slot)
          /\ LET lease == [req_pool_idx |-> row, generation |-> generation,
                           rid |-> rid, slot |-> slot]
             IN  /\ active' = [active EXCEPT ![row] = lease]
                 /\ prefill_owner' = lease
          /\ free_slots' = [free_slots EXCEPT ![slot] = @ - 1]
    /\ last_generation' = [last_generation EXCEPT ![row] = generation]
    /\ phases' = [phases EXCEPT ![row] = "prefill"]

Acquire(row, generation, rid) ==
    /\ active[row] = NoLease
    /\ generation > last_generation[row]
    /\ prefill_owner = NoLease
    /\ \E slot \in Slots :
          /\ FirstFree(slot)
          /\ LET lease == [req_pool_idx |-> row, generation |-> generation,
                           rid |-> rid, slot |-> slot]
             IN  /\ active' = [active EXCEPT ![row] = lease]
                 /\ prefill_owner' = lease
          /\ free_slots' = [free_slots EXCEPT ![slot] = @ - 1]
    /\ last_generation' = [last_generation EXCEPT ![row] = generation]
    /\ phases' = [phases EXCEPT ![row] = "prefill"]

BeginHandoff(lease) ==
    /\ Require(lease, {"prefill"})
    /\ prefill_owner = lease
    /\ SetPhase(lease, "copying")
    /\ UNCHANGED <<active, last_generation, free_slots, prefill_owner>>

\* done is what completion_event.query() answers.
FinishHandoff(lease, done) ==
    /\ Require(lease, {"copying"})
    /\ done
    /\ prefill_owner = lease
    /\ SetPhase(lease, "host_ready")
    /\ prefill_owner' = NoLease
    /\ UNCHANGED <<active, last_generation, free_slots>>

AdmitDecode(lease) ==
    /\ Require(lease, {"host_ready"})
    /\ SetPhase(lease, "decode")
    /\ UNCHANGED <<active, last_generation, free_slots, prefill_owner>>

Drainable == {"prefill", "copying", "host_ready", "decode", "failed"}

\* Mutant: the drain already returns the slot that commit_release returns.
DrainFreesSlot(lease) ==
    /\ Require(lease, Drainable)
    /\ SetPhase(lease, "drained")
    /\ prefill_owner' = IF prefill_owner = lease THEN NoLease ELSE prefill_owner
    /\ free_slots' = [free_slots EXCEPT ![lease.slot] = @ + 1]
    /\ UNCHANGED <<active, last_generation>>

\* Mutant: the lane is not released, as if handoff had always done it.
DrainKeepsLane(lease) ==
    /\ Require(lease, Drainable)
    /\ SetPhase(lease, "drained")
    /\ UNCHANGED <<active, last_generation, free_slots, prefill_owner>>

\* Every event synchronised: the lane is released and the lease is quiet.
Drain(lease) ==
    /\ Require(lease, Drainable)
    /\ SetPhase(lease, "drained")
    /\ prefill_owner' = IF prefill_owner = lease THEN NoLease ELSE prefill_owner
    /\ UNCHANGED <<active, last_generation, free_slots>>

\* An event raised: an Exception leaves the lease failed, an interruption
\* that is no Exception (a signal) leaves it releasing. Both keep everything.
DrainRaises(lease, left) ==
    /\ Require(lease, Drainable)
    /\ left \in {"failed", "releasing"}
    /\ SetPhase(lease, left)
    /\ UNCHANGED <<active, last_generation, free_slots, prefill_owner>>

\* The runtime's own assignment to phases when a handoff or a graph replay
\* fails (runtime.handoff, runtime.fail_graph_replay).
MarkFailed(lease) ==
    /\ Require(lease, {"prefill", "copying", "host_ready", "decode"})
    /\ SetPhase(lease, "failed")
    /\ UNCHANGED <<active, last_generation, free_slots, prefill_owner>>

LogicalFlushed(lease, group_open) ==
    /\ Require(lease, {"drained"})
    /\ ~group_open
    /\ SetPhase(lease, "logical_flushed")
    /\ UNCHANGED <<active, last_generation, free_slots, prefill_owner>>

\* Mutant: the phase is overwritten instead of deleted.
CommitReleaseKeepsPhase(lease) ==
    /\ Require(lease, {"logical_flushed"})
    /\ active' = [active EXCEPT ![lease.req_pool_idx] = NoLease]
    /\ SetPhase(lease, "released")
    /\ free_slots' = [free_slots EXCEPT ![lease.slot] = @ + 1]
    /\ UNCHANGED <<last_generation, prefill_owner>>

\* Mutant: a drained lease is committed without waiting for the logical flush.
CommitReleaseUnflushed(lease) ==
    /\ Require(lease, {"drained", "logical_flushed"})
    /\ active' = [active EXCEPT ![lease.req_pool_idx] = NoLease]
    /\ phases' = [phases EXCEPT ![lease.req_pool_idx] = "none"]
    /\ free_slots' = [free_slots EXCEPT ![lease.slot] = @ + 1]
    /\ UNCHANGED <<last_generation, prefill_owner>>

CommitRelease(lease) ==
    /\ Require(lease, {"logical_flushed"})
    /\ active' = [active EXCEPT ![lease.req_pool_idx] = NoLease]
    /\ phases' = [phases EXCEPT ![lease.req_pool_idx] = "none"]
    /\ free_slots' = [free_slots EXCEPT ![lease.slot] = @ + 1]
    /\ UNCHANGED <<last_generation, prefill_owner>>

SlotsNext ==
    \/ \E row \in Rows, generation \in Generations, rid \in Rids :
          Acquire(row, generation, rid)
    \/ \E lease \in Leases :
          \/ BeginHandoff(lease)
          \/ \E done \in BOOLEAN : FinishHandoff(lease, done)
          \/ AdmitDecode(lease)
          \/ Drain(lease)
          \/ \E left \in {"failed", "releasing"} : DrainRaises(lease, left)
          \/ MarkFailed(lease)
          \/ \E group_open \in BOOLEAN : LogicalFlushed(lease, group_open)
          \/ CommitRelease(lease)

SlotsSpec == SlotsInit /\ [][SlotsNext]_slotVars

----------------------------------------------------------------------------
(* What the table keeps true.                                              *)

Active == {active[r] : r \in Rows} \ {NoLease}

\* A slot is either once in the free list or the slot of exactly one active
\* lease: acquire and commit_release neither lose a slot nor hand it out
\* twice, whatever stale or repeated callbacks reach the table.
SlotConservation ==
    /\ \A s \in Slots :
          free_slots[s] =
             IF \E r \in Rows : active[r] # NoLease /\ active[r].slot = s THEN 0 ELSE 1
    /\ \A q, r \in Rows :
          (q # r /\ active[q] # NoLease /\ active[r] # NoLease)
             => active[q].slot # active[r].slot

\* A lease sits in its own row, under the last generation of that row, and
\* has a phase exactly while it is there.
LeaseIdentity ==
    \A r \in Rows :
       /\ (active[r] = NoLease) <=> (phases[r] = "none")
       /\ active[r] # NoLease =>
             /\ active[r].req_pool_idx = r
             /\ active[r].generation = last_generation[r]

\* The staging lane has one owner. Whoever fills it or copies from it owns
\* it, and the owner is an active lease that is not past its drain.
LaneExclusive ==
    /\ prefill_owner # NoLease =>
          /\ active[prefill_owner.req_pool_idx] = prefill_owner
          /\ phases[prefill_owner.req_pool_idx]
                \in {"prefill", "copying", "failed", "releasing"}
    /\ \A r \in Rows :
          phases[r] \in {"prefill", "copying"} => prefill_owner = active[r]

\* No call, valid, stale or repeated, breaks the table: slots are conserved,
\* leases identified, the lane has one owner, and the types are kept. The four
\* parts need each other (a commit conserves slots only because no two active
\* leases share one; a finished handoff frees the lane only because no other
\* row may be copying).
SlotsInv == SlotsTypeOK /\ SlotConservation /\ LeaseIdentity /\ LaneExclusive

\* Two active leases never share a raw row: their rings are disjoint, no
\* ring reaches into the staging lane or past the pool, and a decode write
\* of any length falls inside the ring of its own lease, never on its
\* padding row.
BackingDisjoint ==
    \A q \in Rows : active[q] # NoLease =>
       LET ring == RingSlice(active[q].slot) IN
       /\ ring \cap StagingSlice(0, StagingTokens) = {}
       /\ ring \subseteq 0..(RawPoolSize + PageSize - 1)
       /\ \A r \in Rows \ {q} : active[r] # NoLease =>
             ring \cap RingSlice(active[r].slot) = {}
       /\ \A seq_len \in 1..StagingTokens :
             RingWriteLocation(active[q].slot, seq_len) \in ring \ {RingStart(active[q].slot)}

\* A lease that ended, or that a newer generation of its row overtook, never
\* comes back: a stale callback can never address a later occupancy.
RetiredForever ==
    [][\A l \in Leases :
          (l.generation <= last_generation[l.req_pool_idx] /\ l \notin Active)
             => l \notin Active']_slotVars

\* The table implements the custody of the backing, reading "in use" as
\* every active lease that the release has not declared flushed.
HolderOf(s) ==
    IF \E l \in Active : l.slot = s THEN CHOOSE l \in Active : l.slot = s ELSE NoLease

Custody == INSTANCE QSACustody WITH
    holder <- [s \in Slots |-> HolderOf(s)],
    lane <- prefill_owner,
    spent <- {l \in Leases : l.generation <= last_generation[l.req_pool_idx]},
    using <- {l \in Active : phases[l.req_pool_idx] # "logical_flushed"}

ImplementsCustody == Custody!Spec

=============================================================================
