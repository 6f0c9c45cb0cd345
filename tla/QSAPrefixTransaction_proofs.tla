------------------- MODULE QSAPrefixTransaction_proofs -------------------
(***************************************************************************)
(* The allocation of a chunk as a transaction, proved for any number of    *)
(* requests, rows, slots and pages, any page size and chunks, and any      *)
(* number of steps that raise. However often a rollback raises and is      *)
(* called again, no page is lost or freed twice, what a restore writes     *)
(* stays its request's, every reader has its match, and every lease is in  *)
(* a record to be rolled back again or with a request in prefill.          *)
(*                                                                         *)
(* The invariant says of each record how far its transaction came and how  *)
(* much of it was undone: RecordExact of the pages and the row, LeaseKept  *)
(* of the lease, which is looked up once because the row may be another    *)
(* request's when the rollback is repeated.                                *)
(***************************************************************************)
EXTENDS QSAPrefixTransaction, QSASlots_proofs, SequenceTheorems, FiniteSetTheorems

Inside == {"extend", "rollback", "undo", "drained", "unpaged", "freed"}

Records ==
    [reader : BOOLEAN, fresh : BOOLEAN, previous : Nat, length : Nat,
     prefix : Seq(Pages), suffix : Seq(Pages), read : BOOLEAN, stream : BOOLEAN,
     noted : BOOLEAN, lease : Leases \cup {NoLease}, drained : BOOLEAN]

TypeOK ==
    /\ generation \in [Rows -> Generations \cup {0}]
    /\ stage \in [Rids -> {"waiting", "prefill", "done", "lost"}]
    /\ row \in [Rids -> Rows \cup {0}]
    /\ allocated \in [Rids -> Nat] /\ table \in [Rids -> Seq(Pages)]
    /\ requests \in [Rows -> Leases \cup {NoLease}]
    /\ restoring \in [Rids -> Records \cup {NoRecord}]
    /\ restores \subseteq Leases
    /\ matches \subseteq Rids /\ IsFiniteSet(matches)

\* A request without a record holds what it was given, or nothing.
Settled(q) ==
    /\ stage[q] = "prefill" => row[q] # 0 /\ allocated[q] > 0 /\ q \notin matches
    /\ restoring[q] = NoRecord =>
          /\ \A op \in Inside : call # At(op, q)
          /\ stage[q] \in {"waiting", "done"} => row[q] = 0 /\ allocated[q] = 0
          /\ Len(table[q]) = PagesFor(allocated[q])
    /\ call = At("forward", q) => restoring[q] = NoRecord /\ stage[q] = "prefill"

\* A rollback freed the pages; one that raised behind that left the row.
Unbacked(q) ==
    /\ restoring[q].fresh /\ restoring[q].drained
    /\ table[q] = <<>> /\ restoring[q].prefix = <<>>

\* A record says how far the transaction came, and what was undone of it.
RecordExact(q) ==
    LET record == restoring[q] IN
    record # NoRecord =>
       /\ stage[q] \in IF record.fresh THEN {"waiting", "done"} ELSE {"prefill"}
       /\ record.reader => record.fresh /\ q \in matches /\ record.length > Hit
       /\ record.fresh <=> record.previous = 0
       /\ record.length > record.previous
       /\ allocated[q] \in {record.previous, record.length}
       /\ Len(table[q]) = PagesFor(allocated[q]) \/ Unbacked(q)
       /\ allocated[q] # 0 => row[q] # 0
       /\ record.prefix # <<>> => record.reader /\ Len(record.prefix) = Hit \div PageTokens
       /\ record.reader /\ row[q] # 0 => record.prefix # <<>> \/ Unbacked(q)
       /\ record.reader /\ allocated[q] # 0 =>
             \A i \in 1..Len(record.prefix) : table[q][i] = record.prefix[i]
       /\ record.suffix = IF record.read THEN Suffix(q) ELSE <<>>
       /\ record.stream => record.reader /\ ~record.read /\ allocated[q] # 0
       /\ record.noted => record.fresh /\ record.read
       /\ record.drained => record.noted
       /\ call = At("extend", q) => ~record.read /\ (q \in matches => record.reader)
       /\ call = At("undo", q) => record.read
       /\ call \in {At("drained", q), At("unpaged", q), At("freed", q)} => record.drained
       /\ call \in {At("unpaged", q), At("freed", q)} => Unbacked(q)
       /\ call = At("freed", q) => row[q] = 0 /\ allocated[q] = 0

\* Whoever will return an active lease knows it: the request that prefills
\* with it, or the record of its allocation.
LeaseKept(r) ==
    active[r] # NoLease =>
       LET q == active[r].rid
           record == restoring[q]
       IN  IF record = NoRecord \/ ~record.fresh
             THEN stage[q] = "prefill" /\ row[q] = r /\ requests[r] = active[r]
             ELSE IF record.noted
               THEN /\ record.lease = active[r]
                    /\ record.drained => phases[r] \in {"drained", "logical_flushed"}
               ELSE /\ row[q] = r
                    /\ call = At("extend", q) => record.stream /\ requests[r] = active[r]

\* A restore writes through a lease of its request's row, and the record, as
\* long as there is one, remembers to wait for it.
RestoreKept(lease) ==
    LET q == lease.rid IN
    /\ Require(lease, {"prefill"})
    /\ row[q] = lease.req_pool_idx
    /\ restoring[q] # NoRecord /\ restoring[q].fresh => restoring[q].stream

RowsApart == \A p, q \in Rids : row[p] = row[q] /\ row[p] # 0 => p = q

\* The pages of a request are its own, each once.
PagesApart ==
    /\ \A q \in Rids : IsInjective(table[q])
    /\ \A q \in Rids : restoring[q] # NoRecord => IsInjective(restoring[q].prefix)
    /\ \A p, q \in Rids : p # q => PagesHeld(p) \cap PagesHeld(q) = {}
    /\ free = [x \in Pages |-> IF \E q \in Rids : x \in PagesHeld(q) THEN 0 ELSE 1]

\* The pages that were free when the chunk was admitted are still free.
Enough ==
    \A q \in Rids :
       call = At("extend", q) /\ allocated[q] = restoring[q].previous =>
          PagesFor(restoring[q].length) - Len(table[q]) - Len(restoring[q].prefix)
             <= Cardinality(FreePages)

Custodied ==
    /\ \A q \in Rids : Settled(q) /\ RecordExact(q)
    /\ \A r \in Rows : LeaseKept(r)
    /\ \A lease \in restores : RestoreKept(lease)
    /\ RowsApart
    /\ readers = Cardinality(matches)

Cached == \A r \in Rows : requests[r] \in {NoLease, active[r]}

IInv == SlotsInv /\ TypeOK /\ Custodied /\ Cached /\ PagesApart /\ Enough

----------------------------------------------------------------------------
(* Calls, records and pages.                                               *)

\* Two calls are the same if they are at the same step of the same request.
LEMMA AtIs ==
    \A o, q, p, r : /\ At(o, q) # Idle
                    /\ At(o, q) = At(p, r) => o = p /\ q = r
<1> SUFFICES ASSUME NEW o, NEW q, NEW p, NEW r
             PROVE  At(o, q) # Idle /\ (At(o, q) = At(p, r) => o = p /\ q = r)
  OBVIOUS
<1>1. "q" \in DOMAIN At(o, q) /\ "q" \notin DOMAIN Idle
  BY DEF At, Idle
<1>2. At(o, q).op = o /\ At(o, q).q = q /\ At(p, r).op = p /\ At(p, r).q = r
  BY DEF At
<1> QED
  BY <1>1, <1>2

\* A record is not NoRecord, and its fields have their types.
LEMMA RecordIs ==
    /\ ~NoRecord.reader
    /\ \A R \in Records :
          /\ R # NoRecord
          /\ R.reader \in BOOLEAN /\ R.fresh \in BOOLEAN /\ R.previous \in Nat
          /\ R.length \in Nat /\ R.prefix \in Seq(Pages) /\ R.suffix \in Seq(Pages)
          /\ R.read \in BOOLEAN /\ R.stream \in BOOLEAN /\ R.noted \in BOOLEAN
          /\ R.lease \in Leases \cup {NoLease} /\ R.drained \in BOOLEAN
<1>1. ASSUME NEW R \in Records PROVE R # NoRecord
  <2>1. "fresh" \in DOMAIN R /\ "fresh" \notin DOMAIN NoRecord
    BY DEF Records, NoRecord
  <2> QED
    BY <2>1
<1>2. ~NoRecord.reader
  BY DEF NoRecord
<1> QED
  BY <1>1, <1>2 DEF Records

\* Whole pages: none for no token, more for more tokens, and one more than
\* the full ones if there is a partial one.
LEMMA PagesForIs ==
    /\ \A n \in Nat : PagesFor(n) \in Nat /\ (PagesFor(n) = 0 <=> n = 0)
    /\ \A m, n \in Nat : m <= n => PagesFor(m) <= PagesFor(n)
    /\ \A n \in Nat : PagesFor(n) = IF n % PageTokens = 0 THEN n \div PageTokens
                                                          ELSE n \div PageTokens + 1
    /\ Hit \in Nat /\ Hit \div PageTokens \in Nat \ {0} /\ PagesFor(Hit) = Hit \div PageTokens
<1>1. PageTokens \in Nat \ {0} /\ Hit \in Nat \ {0} /\ Hit % PageTokens = 0
  BY PagesAssumption
<1>2. ASSUME NEW n \in Nat
      PROVE  PagesFor(n) = IF n % PageTokens = 0 THEN n \div PageTokens ELSE n \div PageTokens + 1
  BY <1>1 DEF PagesFor
<1>3. ASSUME NEW n \in Nat PROVE PagesFor(n) \in Nat /\ (PagesFor(n) = 0 <=> n = 0)
  BY <1>1 DEF PagesFor
<1>4. ASSUME NEW m \in Nat, NEW n \in Nat, m <= n PROVE PagesFor(m) <= PagesFor(n)
  BY <1>1, <1>4 DEF PagesFor
<1>5. Hit \div PageTokens \in Nat \ {0} /\ PagesFor(Hit) = Hit \div PageTokens
  BY <1>1, <1>2, <1>3
<1> QED
  BY <1>1, <1>2, <1>3, <1>4, <1>5

\* No page for no token.
LEMMA PagesForNat ==
    ASSUME NEW n \in Nat
    PROVE  PagesFor(n) \in Nat /\ (PagesFor(n) = 0 <=> n = 0)
BY PagesForIs, Zenon

\* More tokens never take fewer pages.
LEMMA PagesForGrows ==
    ASSUME NEW m \in Nat, NEW n \in Nat, m <= n
    PROVE  PagesFor(m) <= PagesFor(n)
BY PagesForIs, Zenon

\* The allocator gives different free pages, as many as are asked for.
LEMMA TakenIs ==
    ASSUME NEW n \in Nat, n <= Cardinality(FreePages)
    PROVE  /\ Taken(n) \in Seq(Pages) /\ Len(Taken(n)) = n
           /\ IsInjective(Taken(n)) /\ ToSet(Taken(n)) \subseteq FreePages
<1>1. IsFiniteSet(FreePages)
  BY PagesAssumption, FS_Subset DEF FreePages
<1> DEFINE c == Cardinality(FreePages)
<1>2. c \in Nat /\ ExistsBijection(1..c, FreePages)
  BY <1>1, FS_CardinalityType
<1>3. PICK f \in [1..c -> FreePages] : IsInjective(f)
  BY <1>2 DEF ExistsBijection, Bijection, Injection
<1> DEFINE g == [i \in 1..n |-> f[i]]
<1>4. g \in [1..n -> FreePages] /\ IsInjective(g)
  BY <1>2, <1>3 DEF IsInjective
<1>5. Taken(n) \in [1..n -> FreePages] /\ IsInjective(Taken(n))
  <2> HIDE DEF g
  <2>1. \E pages \in [1..n -> FreePages] : IsInjective(pages)
    BY <1>4
  <2> QED
    BY <2>1, Zenon DEF Taken
<1>6. FreePages \subseteq Pages
  BY DEF FreePages
<1>7. Taken(n) \in [1..n -> Pages]
  BY <1>5, <1>6
<1>8. Taken(n) \in Seq(Pages) /\ Len(Taken(n)) = n /\ DOMAIN Taken(n) = 1..n
  BY <1>7
<1> QED
  BY <1>5, <1>8 DEF ToSet

----------------------------------------------------------------------------
(* The start, and what a step for one request leaves to the others.        *)

\* Everything begins empty, and every page free.
LEMMA TransactionInit == Init => IInv
<1> SUFFICES ASSUME Init PROVE IInv
  OBVIOUS
<1> USE DEF Init
<1>1. SlotsInv
  BY InitInv
<1>2. TypeOK
  BY FS_EmptySet, EmptySeq DEF TypeOK
<1>3. Custodied
  <2>1. ASSUME NEW q \in Rids PROVE Settled(q) /\ RecordExact(q)
    BY AtIs, PagesForIs, EmptySeq DEF Settled, RecordExact
  <2>2. ASSUME NEW r \in Rows PROVE LeaseKept(r)
    BY DEF LeaseKept, SlotsInit
  <2> QED
    BY <2>1, <2>2, FS_EmptySet DEF Custodied, RowsApart
<1>4. PagesApart
  <2>1. \A q \in Rids : PagesHeld(q) = {}
    BY DEF PagesHeld, ToSet
  <2> QED
    BY <2>1 DEF PagesApart, IsInjective
<1>5. Enough
  BY AtIs DEF Enough
<1>6. Cached
  BY DEF Cached
<1> QED
  BY <1>1, <1>2, <1>3, <1>4, <1>5, <1>6 DEF IInv

\* A step leaves what a request holds.
Quiet(q) ==
    /\ stage'[q] = stage[q] /\ row'[q] = row[q] /\ allocated'[q] = allocated[q]
    /\ table'[q] = table[q] /\ restoring'[q] = restoring[q]
    /\ q \in matches' <=> q \in matches

\* A request that a step leaves alone, and that no call is for, stays settled.
LEMMA LocalStays ==
    ASSUME NEW q \in Rids, Settled(q), RecordExact(q), Quiet(q),
           \A op \in Inside \cup {"forward"} : call' # At(op, q)
    PROVE  Settled(q)' /\ RecordExact(q)'
<1>1. Settled(q)'
  BY DEF Settled, Quiet, Inside, PagesFor
<1>2. Suffix(q)' = Suffix(q)
  BY DEF Suffix, Quiet
<1>3. RecordExact(q)'
  BY <1>2 DEF RecordExact, Unbacked, Quiet, Inside, PagesFor
<1> QED
  BY <1>1, <1>3

\* A step for q need only be looked at where q, its lease and its restore are.
LEMMA Frame ==
    ASSUME IInv, NEW q \in Rids,
           call' = Idle \/ \E op \in Inside \cup {"forward"} : call' = At(op, q),
           \A p \in Rids \ {q} : Quiet(p),
           Settled(q)', RecordExact(q)',
           \A r \in Rows :
              \/ LeaseKept(r)'
              \/ /\ active'[r] = active[r] /\ phases'[r] = phases[r]
                 /\ requests'[r] = requests[r]
                 /\ active[r] # NoLease => active[r].rid # q,
           \A lease \in restores' :
              \/ RestoreKept(lease)'
              \/ /\ lease \in restores /\ lease.rid # q
                 /\ active'[lease.req_pool_idx] = active[lease.req_pool_idx]
                 /\ phases'[lease.req_pool_idx] = phases[lease.req_pool_idx],
           row'[q] \in {row[q], 0} \/ \A p \in Rids : row[p] # row'[q],
           readers' = Cardinality(matches')
    PROVE  Custodied'
<1>1. ASSUME NEW p \in Rids PROVE Settled(p)' /\ RecordExact(p)'
  <2>1. CASE p = q
    BY <2>1
  <2>2. CASE p # q
    <3>1. \A op \in Inside \cup {"forward"} : call' # At(op, p)
      BY <2>2, AtIs
    <3>2. Settled(p) /\ RecordExact(p)
      BY DEF IInv, Custodied
    <3> QED
      BY <2>2, <3>1, <3>2, LocalStays
  <2> QED
    BY <2>1, <2>2
<1>2. ASSUME NEW r \in Rows PROVE LeaseKept(r)'
  <2> SUFFICES ASSUME active'[r] = active[r], phases'[r] = phases[r],
                      requests'[r] = requests[r], active[r] # NoLease, active[r].rid # q
               PROVE  LeaseKept(r)'
    BY DEF LeaseKept
  <2> DEFINE p == active[r].rid
  <2>1. p \in Rids \ {q}
    BY DEF IInv, SlotsInv, SlotsTypeOK, Leases
  <2>2. Quiet(p) /\ call' # At("extend", p)
    BY <2>1, AtIs
  <2>3. LeaseKept(r)
    BY DEF IInv, Custodied
  <2> QED
    BY <2>2, <2>3 DEF LeaseKept, Quiet
<1>3. ASSUME NEW lease \in restores' PROVE RestoreKept(lease)'
  <2> SUFFICES ASSUME lease \in restores, lease.rid # q,
                      active'[lease.req_pool_idx] = active[lease.req_pool_idx],
                      phases'[lease.req_pool_idx] = phases[lease.req_pool_idx]
               PROVE  RestoreKept(lease)'
    BY <1>3
  <2>1. lease.rid \in Rids \ {q}
    BY DEF IInv, TypeOK, Leases
  <2>2. Quiet(lease.rid) /\ RestoreKept(lease)
    BY <2>1 DEF IInv, Custodied
  <2> QED
    BY <2>2 DEF RestoreKept, Quiet, Require
<1>4. RowsApart'
  BY DEF RowsApart, Quiet, IInv, Custodied
<1> QED
  BY <1>1, <1>2, <1>3, <1>4 DEF Custodied

\* What is known of a request.
LEMMA Here ==
    ASSUME IInv, NEW q \in Rids
    PROVE  /\ Settled(q) /\ RecordExact(q)
           /\ stage[q] \in {"waiting", "prefill", "done", "lost"}
           /\ row[q] \in Rows \cup {0} /\ Rows \subseteq Nat \ {0}
           /\ allocated[q] \in Nat /\ table[q] \in Seq(Pages)
           /\ restoring[q] \in Records \cup {NoRecord}
           /\ restoring[q] # NoRecord => restoring[q] \in Records
           /\ matches \subseteq Rids /\ IsFiniteSet(matches) /\ readers = Cardinality(matches)
BY IdentityAssumption DEF IInv, Custodied, TypeOK

\* What is known of an active lease.
LEMMA ActiveHere ==
    ASSUME IInv, NEW r \in Rows, active[r] # NoLease
    PROVE  /\ active[r] \in Leases /\ active[r].rid \in Rids /\ active[r].req_pool_idx = r
           /\ phases[r] # "none" /\ LeaseKept(r)
BY DEF IInv, Custodied, SlotsInv, SlotsTypeOK, LeaseIdentity, Leases

\* What is known of a lease that is being restored into.
LEMMA RestoreHere ==
    ASSUME IInv, NEW lease \in restores
    PROVE  /\ lease \in Leases /\ lease.rid \in Rids /\ lease.req_pool_idx \in Rows
           /\ lease # NoLease /\ RestoreKept(lease)
BY LeaseFields DEF IInv, Custodied, TypeOK, Leases

\* A table that nobody touches keeps its invariant.
LEMMA TableQuiet == SlotsInv /\ UNCHANGED slotVars => SlotsInv'
BY StepInv

\* Closing a match closes its reader.
LEMMA CloseIs ==
    ASSUME IInv, NEW q \in Rids, Close(q)
    PROVE  /\ matches' \subseteq Rids /\ IsFiniteSet(matches')
           /\ readers' = Cardinality(matches') /\ q \notin matches'
           /\ \A p \in Rids \ {q} : p \in matches' <=> p \in matches
<1>1. matches \subseteq Rids /\ IsFiniteSet(matches) /\ readers = Cardinality(matches)
  BY Here
<1>2. IsFiniteSet(matches \ {q})
      /\ Cardinality(matches \ {q}) = IF q \in matches THEN Cardinality(matches) - 1
                                                       ELSE Cardinality(matches)
  BY <1>1, FS_RemoveElement
<1> QED
  BY <1>1, <1>2 DEF Close

----------------------------------------------------------------------------
(* Matching, abort and flush.                                              *)

\* A match is for a request without a record, which holds nothing.
LEMMA MatchStep ==
    ASSUME IInv, NEW q \in Rids, NEW hit \in BOOLEAN, Match(q, hit)
    PROVE  SlotsInv' /\ TypeOK' /\ Custodied'
<1> USE DEF Match
<1>1. Settled(q) /\ stage[q] = "waiting" /\ restoring[q] = NoRecord /\ call = Idle
  BY Here
<1>2. SlotsInv'
  BY TableQuiet DEF IInv
<1>3. /\ matches' \subseteq Rids /\ IsFiniteSet(matches') /\ readers' = Cardinality(matches')
      /\ \A p \in Rids \ {q} : p \in matches' <=> p \in matches
  <2>1. matches \subseteq Rids /\ IsFiniteSet(matches) /\ readers = Cardinality(matches)
    BY Here
  <2>2. /\ IsFiniteSet(matches \ {q})
        /\ Cardinality(matches \ {q}) = IF q \in matches THEN Cardinality(matches) - 1
                                                         ELSE Cardinality(matches)
    BY <2>1, FS_RemoveElement
  <2>3. /\ IsFiniteSet(matches \cup {q})
        /\ Cardinality(matches \cup {q}) = IF q \in matches THEN Cardinality(matches)
                                                            ELSE Cardinality(matches) + 1
    BY <2>1, FS_AddElement
  <2>4. Cardinality({q} \cap matches) = IF q \in matches THEN 1 ELSE 0
    <3>1. {q} \cap matches = IF q \in matches THEN {q} ELSE {}
      OBVIOUS
    <3> QED
      BY <3>1, FS_Singleton, FS_EmptySet
  <2>5. Cardinality(matches) \in Nat
    BY <2>1, FS_CardinalityType
  <2>6. readers' = readers - Cardinality({q} \cap matches) + (IF hit THEN 1 ELSE 0)
    OBVIOUS
  <2>7. CASE hit
    BY <2>1, <2>3, <2>4, <2>5, <2>6, <2>7
  <2>8. CASE ~hit
    BY <2>1, <2>2, <2>4, <2>5, <2>6, <2>8
  <2> QED
    BY <2>7, <2>8
<1>4. TypeOK'
  BY <1>3 DEF IInv, TypeOK, reqVars, hostVars
<1>5. Custodied'
  <2>1. \A p \in Rids \ {q} : Quiet(p)
    BY <1>3 DEF Quiet, reqVars
  <2>2. Settled(q)' /\ RecordExact(q)'
    BY <1>1, AtIs DEF Settled, RecordExact, reqVars, PagesFor
  <2>3. \A r \in Rows : LeaseKept(r)'
    BY DEF IInv, Custodied, LeaseKept, reqVars, slotVars
  <2>4. \A lease \in restores' : RestoreKept(lease)'
    BY DEF IInv, Custodied, RestoreKept, Require, reqVars, slotVars
  <2> QED
    BY <1>3, <2>1, <2>2, <2>3, <2>4, Frame DEF reqVars
<1> QED
  BY <1>2, <1>4, <1>5

\* An abort keeps the reader of a record that a rollback retained.
LEMMA AbortStep ==
    ASSUME IInv, NEW q \in Rids, Abort(q)
    PROVE  SlotsInv' /\ TypeOK' /\ Custodied'
<1> USE DEF Abort
<1>1. Settled(q) /\ RecordExact(q) /\ stage[q] = "waiting" /\ call = Idle
  BY Here
<1>2. SlotsInv'
  BY TableQuiet DEF IInv
<1>3. /\ matches' \subseteq Rids /\ IsFiniteSet(matches') /\ readers' = Cardinality(matches')
      /\ \A p \in Rids \ {q} : p \in matches' <=> p \in matches
      /\ restoring[q] # NoRecord => matches' = matches
  BY CloseIs, Here
<1>4. TypeOK'
  BY <1>3 DEF IInv, TypeOK
<1>5. stage' = [stage EXCEPT ![q] = "done"] /\ stage \in [Rids -> {"waiting", "prefill", "done", "lost"}]
  BY DEF IInv, TypeOK
<1>6. Custodied'
  <2>1. \A p \in Rids \ {q} : Quiet(p)
    BY <1>3, <1>5 DEF Quiet
  <2>2. Settled(q)' /\ RecordExact(q)'
    <3>1. Settled(q)'
      BY <1>1, <1>5, AtIs DEF Settled, PagesFor
    <3>2. Suffix(q)' = Suffix(q)
      BY DEF Suffix
    <3>3. RecordExact(q)'
      BY <1>1, <1>3, <1>5, <3>2, AtIs DEF RecordExact, Unbacked, PagesFor
    <3> QED
      BY <3>1, <3>3
  <2>3. \A r \in Rows : LeaseKept(r)'
    <3> SUFFICES ASSUME NEW r \in Rows, active[r] # NoLease PROVE LeaseKept(r)'
      BY DEF LeaseKept, slotVars
    <3>1. LeaseKept(r) /\ active[r].rid \in Rids
      BY ActiveHere
    <3> QED
      BY <1>1, <1>5, <3>1 DEF LeaseKept, slotVars
  <2>4. \A lease \in restores' : RestoreKept(lease)'
    BY DEF IInv, Custodied, RestoreKept, Require, slotVars
  <2> QED
    BY <1>1, <1>3, <2>1, <2>2, <2>3, <2>4, Frame
<1> QED
  BY <1>2, <1>4, <1>6

\* A flush closes every match, and finds no record.
LEMMA FlushStep ==
    ASSUME IInv, Flush
    PROVE  SlotsInv' /\ TypeOK' /\ Custodied'
<1> USE DEF Flush
<1>1. SlotsInv'
  BY TableQuiet DEF IInv
<1>2. TypeOK'
  BY FS_EmptySet DEF IInv, TypeOK, reqVars
<1>3. Custodied'
  <2>1. ASSUME NEW q \in Rids PROVE Settled(q)' /\ RecordExact(q)'
    <3>1. Settled(q)
      BY Here
    <3> QED
      BY <3>1 DEF Settled, RecordExact, reqVars, PagesFor
  <2>2. \A r \in Rows : LeaseKept(r)'
    BY DEF IInv, Custodied, LeaseKept, reqVars, slotVars
  <2>3. \A lease \in restores' : RestoreKept(lease)'
    BY DEF IInv, Custodied, RestoreKept, Require, reqVars, slotVars
  <2>4. readers' = 0
    <3>1. IsFiniteSet(matches) /\ readers = Cardinality(matches)
      BY DEF IInv, TypeOK, Custodied
    <3>2. Cardinality(matches) \in Nat
      BY <3>1, FS_CardinalityType
    <3> QED
      BY <3>1, <3>2
  <2>5. RowsApart'
    BY DEF IInv, Custodied, RowsApart, reqVars
  <2> QED
    BY <2>1, <2>2, <2>3, <2>4, <2>5, FS_EmptySet DEF Custodied
<1> QED
  BY <1>1, <1>2, <1>3

----------------------------------------------------------------------------
(* The transaction.                                                        *)

\* A chunk begins with a record of what its request holds.
LEMMA PrepareStep ==
    ASSUME IInv, NEW q \in Rids, NEW length \in Ends, Prepare(q, length)
    PROVE  SlotsInv' /\ TypeOK' /\ Custodied'
<1> USE DEF Prepare
<1>1. /\ Settled(q) /\ restoring[q] = NoRecord /\ call = Idle
      /\ allocated[q] \in Nat /\ row[q] \in Rows \cup {0}
      /\ stage[q] \in {"waiting", "prefill"}
  BY Here DEF Admitted
<1> DEFINE new == [reader |-> q \in matches, fresh |-> allocated[q] = 0,
                   previous |-> allocated[q], length |-> length, prefix |-> <<>>,
                   suffix |-> <<>>, read |-> FALSE, stream |-> FALSE, noted |-> FALSE,
                   lease |-> NoLease, drained |-> FALSE]
<1>2. restoring' = [restoring EXCEPT ![q] = new] /\ restoring \in [Rids -> Records \cup {NoRecord}]
  BY DEF IInv, TypeOK
<1>3. length \in Nat
  BY PagesAssumption
<1>4. new \in Records
  BY <1>1, <1>3, EmptySeq DEF Records
<1>5. /\ new.reader = (q \in matches) /\ new.fresh = (allocated[q] = 0)
      /\ new.previous = allocated[q] /\ new.length = length /\ new.prefix = <<>>
      /\ new.suffix = <<>> /\ ~new.read /\ ~new.stream /\ ~new.noted /\ ~new.drained
  OBVIOUS
<1> HIDE DEF new
<1>6. restoring'[q] = new /\ \A p \in Rids \ {q} : restoring'[p] = restoring[p]
  BY <1>2
<1>7. SlotsInv'
  BY TableQuiet DEF IInv
<1>8. TypeOK'
  <2>1. restoring' \in [Rids -> Records \cup {NoRecord}]
    BY <1>2, <1>4
  <2> HIDE DEF Prepare
  <2>2. UNCHANGED <<generation, stage, row, allocated, table, requests, matches, restores>>
    BY DEF Prepare, reqVars, hostVars
  <2> QED
    BY <2>1, <2>2 DEF IInv, TypeOK
<1>9. stage[q] = "waiting" <=> allocated[q] = 0
  BY <1>1 DEF Settled
<1>10. Custodied'
  <2>1. \A p \in Rids \ {q} : Quiet(p)
    BY <1>6 DEF Quiet, reqVars, hostVars
  <2>2. restoring'[q] # NoRecord
    BY <1>4, <1>6, RecordIs
  <2>3. Settled(q)'
    BY <1>1, <2>2, AtIs DEF Settled, reqVars, hostVars
  <2>4. RecordExact(q)'
    <3>1. q \in matches => allocated[q] = 0 /\ length > Hit
      BY <1>1, <1>9 DEF Settled, Admitted
    <3>2. length > allocated[q]
      OBVIOUS
    <3>3. allocated[q] # 0 => row[q] # 0
      BY <1>1, <1>9 DEF Settled
    <3>4. Len(table[q]) = PagesFor(allocated[q])
      BY <1>1 DEF Settled
    <3>5. q \in matches => row[q] = 0
      BY <1>1, <1>9, <3>1 DEF Settled
    <3>6. /\ stage' = stage /\ row' = row /\ allocated' = allocated /\ table' = table
          /\ matches' = matches /\ call' = At("extend", q)
      BY DEF reqVars, hostVars
    <3>7. \A op \in {"undo", "drained", "unpaged", "freed"} : call' # At(op, q)
      BY <3>6, AtIs
    <3>8. PagesFor(allocated[q])' = PagesFor(allocated[q])
      BY <3>6 DEF PagesFor
    <3> HIDE DEF Prepare
    <3> QED
      BY <1>1, <1>5, <1>6, <1>9, <3>1, <3>2, <3>3, <3>4, <3>5, <3>6, <3>7, <3>8 DEF RecordExact
  <2>5. \A r \in Rows : LeaseKept(r)'
    <3> SUFFICES ASSUME NEW r \in Rows, active[r] # NoLease PROVE LeaseKept(r)'
      BY DEF LeaseKept, slotVars
    <3>1. LeaseKept(r) /\ active[r].rid \in Rids
      BY ActiveHere
    <3>2. CASE active[r].rid = q
      <4>1. stage[q] = "prefill" /\ row[q] = r /\ requests[r] = active[r]
        BY <1>1, <3>1, <3>2 DEF LeaseKept
      <4>2. ~new.fresh
        BY <1>5, <1>9, <4>1
      <4> QED
        BY <1>6, <3>2, <4>1, <4>2 DEF LeaseKept, slotVars, reqVars
    <3>3. CASE active[r].rid # q
      BY <1>6, <3>1, <3>3, AtIs DEF LeaseKept, slotVars, reqVars
    <3> QED
      BY <3>2, <3>3
  <2>6. \A lease \in restores' : RestoreKept(lease)'
    <3> SUFFICES ASSUME NEW lease \in restores PROVE RestoreKept(lease)'
      OBVIOUS
    <3>1. RestoreKept(lease) /\ lease.rid \in Rids /\ lease.req_pool_idx \in Rows /\ lease # NoLease
      BY RestoreHere
    <3>2. CASE lease.rid = q
      <4>1. active[lease.req_pool_idx] = lease
        BY <3>1 DEF RestoreKept, Require
      <4>2. stage[q] = "prefill"
        BY <1>1, <3>1, <3>2, <4>1, ActiveHere DEF LeaseKept
      <4>3. ~new.fresh
        BY <1>5, <1>9, <4>2
      <4> QED
        BY <1>6, <3>1, <3>2, <4>3 DEF RestoreKept, Require, slotVars, reqVars
    <3>3. CASE lease.rid # q
      BY <1>6, <3>1, <3>3 DEF RestoreKept, Require, slotVars, reqVars
    <3> QED
      BY <3>2, <3>3
  <2>7. readers' = Cardinality(matches')
    BY Here DEF hostVars
  <2> QED
    BY <2>1, <2>3, <2>4, <2>5, <2>6, <2>7, Frame DEF Inside, reqVars
<1> QED
  BY <1>7, <1>8, <1>10

\* The other requests' calls, seen from a call for q.
LEMMA CallsAre ==
    ASSUME NEW q, NEW op
    PROVE  /\ Idle # At(op, q)
           /\ \A o : At(o, q) = At(op, q) => o = op
           /\ \A o, p : p # q => At(o, q) # At(op, p)
BY AtIs

\* Leases and restores do not mind what a step does to the pages of a record,
\* nor that the call goes on to its rollback.
LEMMA LeasesQuiet ==
    ASSUME IInv, NEW q \in Rids,
           UNCHANGED <<slotVars, stage, row, requests, restores>>,
           \A p \in Rids \ {q} : restoring'[p] = restoring[p],
           restoring[q] \in Records, restoring'[q] \in Records,
           restoring'[q].fresh = restoring[q].fresh,
           restoring'[q].noted = restoring[q].noted,
           restoring'[q].lease = restoring[q].lease,
           restoring'[q].drained = restoring[q].drained,
           \/ restoring[q].stream => restoring'[q].stream
           \/ call' # At("extend", q) /\ \A lease \in restores : lease.rid # q,
           call' = At("extend", q) => call = At("extend", q),
           \A p \in Rids \ {q} : call' # At("extend", p)
    PROVE  /\ \A r \in Rows : LeaseKept(r)'
           /\ \A lease \in restores' : RestoreKept(lease)'
<1>1. restoring[q] # NoRecord /\ restoring'[q] # NoRecord
  BY RecordIs
<1>2. ASSUME NEW r \in Rows PROVE LeaseKept(r)'
  <2> SUFFICES ASSUME active[r] # NoLease PROVE LeaseKept(r)'
    BY DEF LeaseKept, slotVars
  <2>1. LeaseKept(r) /\ active[r].rid \in Rids /\ active' = active /\ phases' = phases
    BY ActiveHere DEF slotVars
  <2>2. CASE active[r].rid = q
    BY <1>1, <2>1, <2>2 DEF LeaseKept
  <2>3. CASE active[r].rid # q
    <3>1. restoring'[active[r].rid] = restoring[active[r].rid]
          /\ call' # At("extend", active[r].rid)
      BY <2>1, <2>3
    <3> QED
      BY <3>1, <2>1, <2>3 DEF LeaseKept
  <2> QED
    BY <2>2, <2>3
<1>3. ASSUME NEW lease \in restores' PROVE RestoreKept(lease)'
  <2>1. RestoreKept(lease) /\ lease.rid \in Rids /\ active' = active /\ phases' = phases
    BY RestoreHere DEF slotVars
  <2>2. CASE lease.rid = q
    BY <1>1, <2>1, <2>2 DEF RestoreKept, Require
  <2>3. CASE lease.rid # q
    BY <2>1, <2>3 DEF RestoreKept, Require
  <2> QED
    BY <2>2, <2>3
<1> QED
  BY <1>2, <1>3

\* What is known in the middle of an allocation.
LEMMA ExtendHere ==
    ASSUME IInv, NEW q \in Rids, Extending(q)
    PROVE  /\ restoring[q] \in Records
           /\ ~restoring[q].read /\ ~restoring[q].noted /\ ~restoring[q].drained
           /\ restoring[q].suffix = <<>>
           /\ \A op \in {"rollback", "undo", "drained", "unpaged", "freed", "forward"} : call # At(op, q)
<1>1. call = At("extend", q)
  BY DEF Extending
<1>2. restoring[q] # NoRecord
  BY <1>1, Here DEF Settled, Inside
<1>3. restoring[q] \in Records
  BY <1>2, Here
<1> QED
  BY <1>1, <1>2, <1>3, Here, CallsAre, RecordIs DEF RecordExact

\* The prefix pages are free pages, as many as the checkpoint has.
LEMMA AllocPrefixStep ==
    ASSUME IInv, NEW q \in Rids, AllocPrefix(q)
    PROVE  /\ SlotsInv' /\ TypeOK' /\ Custodied'
           /\ restoring[q] \in Records /\ restoring[q].prefix = <<>>
           /\ \E pages \in Seq(Pages) :
                 /\ restoring' = [restoring EXCEPT ![q].prefix = pages]
                 /\ TakePages(pages)
                 /\ IsInjective(pages) /\ ToSet(pages) \subseteq FreePages
<1> DEFINE old == restoring[q]
           pages == Taken(Hit \div PageTokens)
<1>1. Extending(q) /\ call' = call /\ old.reader /\ old.prefix = <<>>
      /\ UNCHANGED <<slotVars, generation, stage, row, allocated, table, requests, present,
                     readers, matches, restores>>
      /\ restoring' = [restoring EXCEPT ![q].prefix = pages] /\ TakePages(pages)
  BY DEF AllocPrefix, reqVars, hostVars
<1>2. old \in Records /\ ~old.read /\ ~old.noted /\ ~old.drained /\ old.suffix = <<>>
  BY <1>1, ExtendHere
<1>3. Settled(q) /\ RecordExact(q) /\ old # NoRecord /\ call = At("extend", q)
  BY <1>1, <1>2, Here, RecordIs DEF Extending
<1>4. old.fresh /\ old.previous = 0 /\ old.length > Hit /\ allocated[q] = 0 /\ table[q] = <<>>
  <2>1. old.fresh /\ old.previous = 0 /\ old.length > Hit
    BY <1>1, <1>3 DEF RecordExact
  <2>2. allocated[q] = 0
    BY <1>1, <1>3 DEF RecordExact, Unbacked
  <2>3. Len(table[q]) = 0 /\ table[q] \in Seq(Pages)
    BY <1>3, <2>2, PagesForIs, Here DEF RecordExact, Unbacked
  <2> QED
    BY <2>1, <2>2, <2>3, EmptySeq
<1>5. Hit \div PageTokens \in Nat \ {0} /\ Hit \div PageTokens <= Cardinality(FreePages)
  <2>1. PagesFor(old.length) - Len(table[q]) - Len(old.prefix) <= Cardinality(FreePages)
    BY <1>3, <1>4 DEF IInv, Enough
  <2>2. Len(table[q]) = 0 /\ Len(old.prefix) = 0
    BY <1>1, <1>4, EmptySeq
  <2>3. PagesFor(Hit) <= PagesFor(old.length) /\ PagesFor(old.length) \in Nat
    BY <1>2, <1>4, PagesForIs, RecordIs
  <2>4. IsFiniteSet(FreePages)
    BY PagesAssumption, FS_Subset DEF FreePages
  <2>5. Cardinality(FreePages) \in Nat
    BY <2>4, FS_CardinalityType
  <2> QED
    BY <2>1, <2>2, <2>3, <2>5, PagesForIs
<1>6. /\ pages \in Seq(Pages) /\ Len(pages) = Hit \div PageTokens
      /\ IsInjective(pages) /\ ToSet(pages) \subseteq FreePages
  BY <1>5, TakenIs
<1> HIDE DEF pages
<1>7. restoring'[q] = [old EXCEPT !.prefix = pages]
      /\ \A p \in Rids \ {q} : restoring'[p] = restoring[p]
  BY <1>1 DEF IInv, TypeOK
<1>8. /\ restoring'[q] \in Records /\ restoring'[q].prefix = pages
      /\ restoring'[q].reader = old.reader /\ restoring'[q].fresh = old.fresh
      /\ restoring'[q].previous = old.previous /\ restoring'[q].length = old.length
      /\ restoring'[q].suffix = old.suffix /\ restoring'[q].read = old.read
      /\ restoring'[q].stream = old.stream /\ restoring'[q].noted = old.noted
      /\ restoring'[q].lease = old.lease /\ restoring'[q].drained = old.drained
  BY <1>2, <1>6, <1>7 DEF Records
<1>9. SlotsInv'
  BY <1>1, TableQuiet DEF IInv
<1>10. TypeOK'
  <2>1. restoring' \in [Rids -> Records \cup {NoRecord}]
    BY <1>1, <1>7, <1>8 DEF IInv, TypeOK
  <2> QED
    BY <1>1, <2>1 DEF IInv, TypeOK
<1>11. Custodied'
  <2>1. \A p \in Rids \ {q} : Quiet(p)
    BY <1>1, <1>7 DEF Quiet
  <2>2. restoring'[q] # NoRecord
    BY <1>8, RecordIs
  <2>3. Settled(q)'
    BY <1>1, <1>3, <2>2, CallsAre DEF Settled
  <2>4. RecordExact(q)'
    <3>1. \A op \in {"undo", "drained", "unpaged", "freed"} : call' # At(op, q)
      BY <1>1, <1>3, CallsAre
    <3>2. PagesFor(allocated[q])' = PagesFor(allocated[q])
      BY <1>1 DEF PagesFor
    <3> QED
      BY <1>1, <1>2, <1>3, <1>4, <1>6, <1>8, <3>1, <3>2 DEF RecordExact, Unbacked
  <2>5. /\ \A r \in Rows : LeaseKept(r)'
        /\ \A lease \in restores' : RestoreKept(lease)'
    BY <1>1, <1>2, <1>3, <1>7, <1>8, LeasesQuiet, CallsAre
  <2> QED
    BY <1>1, <1>3, <2>1, <2>3, <2>4, <2>5, Here, Frame DEF Inside
<1> QED
  BY <1>1, <1>2, <1>6, <1>9, <1>10, <1>11

\* A row is taken that is no other request's; no lease of the request's own
\* is active, for it would sit in a row of the request.
LEMMA AllocRowStep ==
    ASSUME IInv, NEW q \in Rids, NEW r \in Rows, AllocRow(q, r)
    PROVE  SlotsInv' /\ TypeOK' /\ Custodied'
<1>1. /\ Extending(q) /\ row[q] = 0 /\ \A p \in Rids : row[p] # r
      /\ generation[r] + 1 \in Generations
      /\ restoring[q].reader => restoring[q].prefix # <<>>
      /\ row' = [row EXCEPT ![q] = r] /\ generation' = [generation EXCEPT ![r] = @ + 1]
      /\ UNCHANGED <<slotVars, stage, allocated, table, free, requests, present, readers, matches,
                     restoring, restores, call>>
  BY DEF AllocRow, hostVars
<1>2. /\ restoring[q] \in Records /\ ~restoring[q].read /\ ~restoring[q].noted
      /\ restoring[q].suffix = <<>>
      /\ \A op \in {"rollback", "undo", "drained", "unpaged", "freed", "forward"} : call # At(op, q)
  BY <1>1, ExtendHere
<1>3. Settled(q) /\ RecordExact(q) /\ restoring[q] # NoRecord /\ call = At("extend", q)
  BY <1>1, <1>2, Here, RecordIs DEF Extending
<1>4. r # 0 /\ row'[q] = r /\ \A p \in Rids \ {q} : row'[p] = row[p]
  BY <1>1, IdentityAssumption DEF IInv, TypeOK
<1>5. SlotsInv'
  BY <1>1, TableQuiet DEF IInv
<1>6. TypeOK'
  BY <1>1 DEF IInv, TypeOK
<1>7. Custodied'
  <2>1. \A p \in Rids \ {q} : Quiet(p)
    BY <1>1, <1>4 DEF Quiet
  <2>2. Settled(q)'
    BY <1>1, <1>2, <1>3, <1>4 DEF Settled, Inside, PagesFor
  <2>3. RecordExact(q)'
    <3>1. PagesFor(allocated[q])' = PagesFor(allocated[q])
      BY <1>1 DEF PagesFor
    <3> QED
      BY <1>1, <1>2, <1>3, <1>4, <3>1 DEF RecordExact, Unbacked
  <2>4. ASSUME NEW s \in Rows PROVE LeaseKept(s)'
    <3> SUFFICES ASSUME active[s] # NoLease PROVE LeaseKept(s)'
      BY <1>1 DEF LeaseKept, slotVars
    <3>1. LeaseKept(s) /\ active[s].rid \in Rids
      BY ActiveHere
    <3>2. active[s].rid # q
      BY <1>1, <1>2, <1>3, <3>1, IdentityAssumption DEF LeaseKept
    <3> QED
      BY <1>1, <1>4, <3>1, <3>2 DEF LeaseKept, slotVars
  <2>5. ASSUME NEW lease \in restores' PROVE RestoreKept(lease)'
    <3>1. RestoreKept(lease) /\ lease.rid \in Rids /\ lease.req_pool_idx \in Rows
      BY <1>1, RestoreHere
    <3>2. lease.rid # q
      BY <1>1, <3>1, IdentityAssumption DEF RestoreKept
    <3> QED
      BY <1>1, <1>4, <3>1, <3>2 DEF RestoreKept, Require, slotVars
  <2> QED
    BY <1>1, <1>3, <1>4, <2>1, <2>2, <2>3, <2>4, <2>5, Here, Frame DEF Inside
<1> QED
  BY <1>5, <1>6, <1>7

\* Writing the row gives the request the pages it needs for the chunk.
LEMMA WriteRowStep ==
    ASSUME IInv, NEW q \in Rids, WriteRow(q)
    PROVE  /\ SlotsInv' /\ TypeOK' /\ Custodied'
           /\ restoring[q] \in Records
           /\ allocated[q] = restoring[q].previous
           /\ \E suffix \in Seq(Pages) :
                 /\ table' = [table EXCEPT ![q] = (table[q] \o restoring[q].prefix) \o suffix]
                 /\ TakePages(suffix)
                 /\ IsInjective(suffix) /\ ToSet(suffix) \subseteq FreePages
<1> DEFINE record == restoring[q]
           own == table[q] \o record.prefix
           n == PagesFor(record.length) - Len(own)
           suffix == Taken(n)
<1>1. /\ Extending(q) /\ row[q] # 0 /\ allocated[q] = record.previous
      /\ table' = [table EXCEPT ![q] = own \o suffix] /\ TakePages(suffix)
      /\ allocated' = [allocated EXCEPT ![q] = record.length]
      /\ UNCHANGED <<slotVars, generation, stage, row, requests, present, readers, matches,
                     restoring, restores, call>>
  BY DEF WriteRow, hostVars
<1>2. /\ record \in Records /\ ~record.read /\ ~record.noted /\ record.suffix = <<>>
      /\ \A op \in {"rollback", "undo", "drained", "unpaged", "freed", "forward"} : call # At(op, q)
  BY <1>1, ExtendHere
<1>3. Settled(q) /\ RecordExact(q) /\ record # NoRecord /\ call = At("extend", q)
  BY <1>1, <1>2, Here, RecordIs DEF Extending
<1>4. /\ record.previous \in Nat /\ record.length \in Nat /\ record.prefix \in Seq(Pages)
      /\ record.length > record.previous /\ table[q] \in Seq(Pages)
  BY <1>2, <1>3, RecordIs, Here DEF RecordExact
<1>5. own \in Seq(Pages) /\ Len(own) = Len(table[q]) + Len(record.prefix)
  BY <1>4, ConcatProperties
<1>6. n \in Nat /\ n <= Cardinality(FreePages)
  <2>1. Len(table[q]) = PagesFor(record.previous)
    BY <1>1, <1>3 DEF RecordExact, Unbacked
  <2>2. PagesFor(record.previous) \in Nat /\ PagesFor(record.length) \in Nat
        /\ PagesFor(record.previous) <= PagesFor(record.length)
    <3>1. PICK m, l : m = record.previous /\ l = record.length
      OBVIOUS
    <3>2. m \in Nat /\ l \in Nat /\ m <= l
      BY <1>4, <3>1
    <3>3. PagesFor(m) \in Nat /\ PagesFor(l) \in Nat
      BY <3>2, PagesForNat
    <3>4. PagesFor(m) <= PagesFor(l)
      BY <3>2, PagesForGrows
    <3> QED
      BY <3>1, <3>3, <3>4
  <2>3. Len(own) <= PagesFor(record.length)
    <3>1. CASE record.prefix = <<>>
      BY <1>5, <2>1, <2>2, <3>1, EmptySeq
    <3>2. CASE record.prefix # <<>>
      <4>1. record.previous = 0 /\ Len(record.prefix) = PagesFor(Hit) /\ record.length > Hit
        <5>1. PagesFor(Hit) = Hit \div PageTokens
          BY PagesForIs
        <5>2. /\ record.prefix # <<>> => record.reader /\ Len(record.prefix) = Hit \div PageTokens
              /\ record.reader => record.fresh /\ record.length > Hit
              /\ record.fresh => record.previous = 0
          BY <1>3 DEF RecordExact
        <5> QED
          BY <3>2, <5>1, <5>2
      <4>2. Hit \in Nat /\ Hit <= record.length
        <5>1. PICK h, l : h = Hit /\ l = record.length
          OBVIOUS
        <5>2. h \in Nat
          BY <5>1, PagesAssumption
        <5>3. l \in Nat /\ l > h
          BY <1>4, <4>1, <5>1
        <5>4. h <= l
          BY <5>2, <5>3
        <5> QED
          BY <5>1, <5>2, <5>4
      <4>3. PagesFor(Hit) <= PagesFor(record.length) /\ PagesFor(0) = 0
        <5>1. PagesFor(Hit) <= PagesFor(record.length)
          BY <1>4, <4>2, PagesForGrows
        <5> QED
          BY <5>1, PagesForNat
      <4>4. PagesFor(Hit) \in Nat
        BY <4>2, PagesForNat
      <4> HIDE DEF own
      <4> QED
        BY <1>5, <2>1, <2>2, <4>1, <4>3, <4>4
    <3> QED
      BY <3>1, <3>2
  <2>4. PagesFor(record.length) - Len(table[q]) - Len(record.prefix) <= Cardinality(FreePages)
    BY <1>1, <1>3 DEF IInv, Enough
  <2>5. Len(own) \in Nat /\ Len(table[q]) \in Nat /\ Len(record.prefix) \in Nat
    BY <1>4, <1>5, LenProperties
  <2>6. Cardinality(FreePages) \in Nat
    BY PagesAssumption, FS_Subset, FS_CardinalityType DEF FreePages
  <2> DEFINE all == PagesFor(record.length)
             a == Len(table[q])
             b == Len(record.prefix)
             c == Len(own)
             most == Cardinality(FreePages)
  <2>7. /\ all \in Nat /\ a \in Nat /\ b \in Nat /\ c \in Nat /\ most \in Nat
        /\ c = a + b /\ c <= all /\ all - a - b <= most
    BY <1>5, <2>2, <2>3, <2>4, <2>5, <2>6
  <2>8. n = all - c
    OBVIOUS
  <2> HIDE DEF all, a, b, c, most, n
  <2>9. n \in Nat /\ n <= most
    BY <2>7, <2>8
  <2> QED
    BY <2>9 DEF most
<1>7. suffix \in Seq(Pages) /\ Len(suffix) = n /\ IsInjective(suffix) /\ ToSet(suffix) \subseteq FreePages
  BY <1>6, TakenIs
<1> HIDE DEF suffix
<1>8. /\ own \o suffix \in Seq(Pages) /\ Len(own \o suffix) = PagesFor(record.length)
      /\ \A i \in 1..Len(own) : (own \o suffix)[i] = own[i]
  <2>1. Len(own) \in Nat /\ n = PagesFor(record.length) - Len(own) /\ PagesFor(record.length) \in Nat
    <3>1. Len(own) \in Nat
      BY <1>5, LenProperties
    <3>2. PagesFor(record.length) \in Nat
      BY <1>4, PagesForNat
    <3> QED
      BY <3>1, <3>2
  <2> HIDE DEF own, n
  <2>2. /\ own \o suffix \in Seq(Pages) /\ Len(own \o suffix) = Len(own) + Len(suffix)
        /\ \A i \in 1..(Len(own) + Len(suffix)) :
              (own \o suffix)[i] = IF i <= Len(own) THEN own[i] ELSE suffix[i - Len(own)]
    <3>1. own \in Seq(Pages) /\ suffix \in Seq(Pages)
      BY <1>5, <1>7
    <3> QED
      BY <3>1, ConcatProperties
  <2> QED
    BY <1>6, <1>7, <2>1, <2>2
<1>9. /\ table'[q] = own \o suffix /\ allocated'[q] = record.length
      /\ \A p \in Rids \ {q} : table'[p] = table[p] /\ allocated'[p] = allocated[p]
  BY <1>1 DEF IInv, TypeOK
<1>10. SlotsInv'
  BY <1>1, TableQuiet DEF IInv
<1>11. TypeOK'
  BY <1>1, <1>4, <1>8 DEF IInv, TypeOK
<1>12. Custodied'
  <2>1. \A p \in Rids \ {q} : Quiet(p)
    BY <1>1, <1>9 DEF Quiet
  <2>2. Settled(q)'
    BY <1>1, <1>2, <1>3, <1>4, <1>9 DEF Settled
  <2>3. record.reader => \A i \in 1..Len(record.prefix) : table'[q][i] = record.prefix[i]
    <3> SUFFICES ASSUME record.reader PROVE \A i \in 1..Len(record.prefix) : table'[q][i] = record.prefix[i]
      OBVIOUS
    <3>1. record.previous = 0 /\ Len(table[q]) = 0
      BY <1>1, <1>3, PagesForIs DEF RecordExact, Unbacked
    <3>2. table[q] = <<>>
      BY <1>4, <3>1, EmptySeq
    <3>3. own = record.prefix
      BY <1>4, <3>2, ConcatEmptySeq
    <3> QED
      BY <1>8, <1>9, <3>3
  <2>4. RecordExact(q)'
    <3>1. PagesFor(allocated[q])' = PagesFor(record.length)
      BY <1>9 DEF PagesFor
    <3>2. allocated'[q] # 0
      BY <1>4, <1>9
    <3>3. Len(table[q])' = PagesFor(record.length)
      BY <1>8, <1>9
    <3>4. UNCHANGED <<stage, row, matches, restoring, call>> /\ row[q] # 0
      BY <1>1
    <3>5. allocated'[q] = record.length /\ ~record.read /\ record.suffix = <<>>
          /\ \A op \in {"undo", "drained", "unpaged", "freed"} : call # At(op, q)
      BY <1>2, <1>9
    <3> HIDE DEF own, n, suffix
    <3> QED
      BY <1>3, <2>3, <3>1, <3>2, <3>3, <3>4, <3>5 DEF RecordExact, Unbacked
  <2>5. /\ \A r \in Rows : LeaseKept(r)'
        /\ \A lease \in restores' : RestoreKept(lease)'
    <3>1. \A p \in Rids \ {q} : call' # At("extend", p)
      BY <1>1, <1>3, AtIs
    <3> QED
      BY <1>1, <1>2, <1>3, <3>1, LeasesQuiet
  <2> QED
    BY <1>1, <1>3, <2>1, <2>2, <2>4, <2>5, Here, Frame DEF Inside
<1> QED
  BY <1>1, <1>2, <1>7, <1>10, <1>11, <1>12

\* Once the row is written the request holds the whole chunk, in a row.
LEMMA WrittenHere ==
    ASSUME IInv, NEW q \in Rids, Written(q)
    PROVE  /\ Extending(q) /\ restoring[q] \in Records
           /\ allocated[q] = restoring[q].length /\ allocated[q] # 0 /\ row[q] \in Rows
           /\ Len(table[q]) = PagesFor(allocated[q])
<1>1. Extending(q) /\ restoring[q] \in Records
  BY ExtendHere DEF Written
<1>2. allocated[q] = restoring[q].length /\ allocated[q] > restoring[q].previous
      /\ restoring[q].previous \in Nat /\ Len(table[q]) = PagesFor(allocated[q])
  <2>1. RecordExact(q) /\ ~restoring[q].drained /\ restoring[q] # NoRecord
    BY <1>1, Here, RecordIs DEF RecordExact, Extending
  <2> QED
    BY <1>1, <2>1, RecordIs, Here DEF RecordExact, Unbacked, Written
<1>3. allocated[q] # 0
  BY <1>2, Here
<1> QED
  BY <1>1, <1>2, <1>3, Here, RecordIs DEF RecordExact

\* A chunk without a hit keeps its pages and drops the record. A lease of the
\* request is one it prefills with.
LEMMA HandMissStep ==
    ASSUME IInv, NEW q \in Rids, HandMiss(q)
    PROVE  SlotsInv' /\ TypeOK' /\ Custodied'
<1>1. /\ Written(q) /\ ~restoring[q].reader
      /\ restoring' = [restoring EXCEPT ![q] = NoRecord]
      /\ stage' = [stage EXCEPT ![q] = "prefill"] /\ call' = At("forward", q)
      /\ UNCHANGED <<slotVars, generation, row, allocated, table, free, requests, present,
                     readers, matches, restores>>
  BY DEF HandMiss, hostVars
<1>2. /\ Extending(q) /\ restoring[q] \in Records /\ ~restoring[q].noted
      /\ allocated[q] # 0 /\ row[q] \in Rows /\ Len(table[q]) = PagesFor(allocated[q])
  BY <1>1, WrittenHere, ExtendHere
<1>3. Settled(q) /\ RecordExact(q) /\ restoring[q] # NoRecord /\ call = At("extend", q)
  BY <1>2, Here, RecordIs DEF Extending
<1>4. /\ restoring'[q] = NoRecord /\ stage'[q] = "prefill"
      /\ \A p \in Rids \ {q} : restoring'[p] = restoring[p] /\ stage'[p] = stage[p]
  BY <1>1 DEF IInv, TypeOK
<1>5. q \notin matches
  BY <1>1, <1>3 DEF RecordExact
<1>6. SlotsInv'
  BY <1>1, TableQuiet DEF IInv
<1>7. TypeOK'
  BY <1>1 DEF IInv, TypeOK
<1>8. Custodied'
  <2>1. \A p \in Rids \ {q} : Quiet(p)
    BY <1>1, <1>4 DEF Quiet
  <2>2. Settled(q)'
    <3>1. \A op \in Inside : call' # At(op, q)
      BY <1>1, AtIs DEF Inside
    <3>2. row[q] # 0 /\ allocated[q] > 0
      BY <1>2, Here
    <3> QED
      BY <1>1, <1>2, <1>4, <1>5, <3>1, <3>2 DEF Settled, PagesFor
  <2>3. RecordExact(q)'
    BY <1>4 DEF RecordExact
  <2>4. ASSUME NEW r \in Rows PROVE LeaseKept(r)'
    <3> SUFFICES ASSUME active[r] # NoLease PROVE LeaseKept(r)'
      BY <1>1 DEF LeaseKept, slotVars
    <3>1. LeaseKept(r) /\ active[r].rid \in Rids
      BY ActiveHere
    <3>2. CASE active[r].rid = q
      <4>1. ~restoring[q].stream
        BY <1>1, <1>3 DEF RecordExact
      <4>2. ~restoring[q].fresh
        BY <1>2, <1>3, <3>1, <3>2, <4>1 DEF LeaseKept
      <4> QED
        BY <1>1, <1>3, <1>4, <3>1, <3>2, <4>2 DEF LeaseKept, slotVars
    <3>3. CASE active[r].rid # q
      BY <1>1, <1>4, <3>1, <3>3, AtIs DEF LeaseKept, slotVars
    <3> QED
      BY <3>2, <3>3
  <2>5. ASSUME NEW lease \in restores' PROVE RestoreKept(lease)'
    <3>1. RestoreKept(lease) /\ lease.rid \in Rids
      BY <1>1, RestoreHere
    <3> QED
      BY <1>1, <1>4, <3>1 DEF RestoreKept, Require, slotVars
  <2> QED
    BY <1>1, <2>1, <2>2, <2>3, <2>4, <2>5, Here, Frame
<1> QED
  BY <1>6, <1>7, <1>8

\* When the copies are submitted, the request has the lease it restores into.
LEMMA RestoreDoneStep ==
    ASSUME IInv, NEW q \in Rids, RestoreDone(q)
    PROVE  SlotsInv' /\ TypeOK' /\ Custodied'
<1>1. /\ Extending(q) /\ restoring[q].stream /\ Close(q)
      /\ restoring' = [restoring EXCEPT ![q] = NoRecord]
      /\ stage' = [stage EXCEPT ![q] = "prefill"] /\ call' = At("forward", q)
      /\ UNCHANGED <<slotVars, generation, row, allocated, table, free, requests, present,
                     restores>>
  BY DEF RestoreDone
<1>2. restoring[q] \in Records /\ ~restoring[q].noted
  BY <1>1, ExtendHere
<1>3. Settled(q) /\ RecordExact(q) /\ restoring[q] # NoRecord /\ call = At("extend", q)
  BY <1>1, <1>2, Here, RecordIs DEF Extending
<1>4. /\ restoring'[q] = NoRecord /\ stage'[q] = "prefill"
      /\ \A p \in Rids \ {q} : restoring'[p] = restoring[p] /\ stage'[p] = stage[p]
  BY <1>1 DEF IInv, TypeOK
<1>5. /\ matches' \subseteq Rids /\ IsFiniteSet(matches') /\ q \notin matches'
      /\ readers' = Cardinality(matches')
      /\ \A p \in Rids \ {q} : p \in matches' <=> p \in matches
  BY <1>1, CloseIs
<1>6. SlotsInv'
  BY <1>1, TableQuiet DEF IInv
<1>7. TypeOK'
  BY <1>1, <1>5 DEF IInv, TypeOK
<1>8. Custodied'
  <2>1. \A p \in Rids \ {q} : Quiet(p)
    BY <1>1, <1>4, <1>5 DEF Quiet
  <2>2. Settled(q)'
    <3>1. \A op \in Inside : call' # At(op, q)
      BY <1>1, AtIs DEF Inside
    <3>2. /\ allocated[q] # 0 /\ row[q] # 0 /\ Len(table[q]) = PagesFor(allocated[q])
          /\ allocated[q] > 0
      BY <1>1, <1>3, Here DEF RecordExact, Unbacked
    <3> QED
      BY <1>1, <1>4, <1>5, <3>1, <3>2 DEF Settled, PagesFor
  <2>3. RecordExact(q)'
    BY <1>4 DEF RecordExact
  <2>4. ASSUME NEW r \in Rows PROVE LeaseKept(r)'
    <3> SUFFICES ASSUME active[r] # NoLease PROVE LeaseKept(r)'
      BY <1>1 DEF LeaseKept, slotVars
    <3>1. LeaseKept(r) /\ active[r].rid \in Rids
      BY ActiveHere
    <3>2. CASE active[r].rid = q
      BY <1>1, <1>2, <1>3, <1>4, <3>1, <3>2 DEF LeaseKept, slotVars
    <3>3. CASE active[r].rid # q
      BY <1>1, <1>4, <3>1, <3>3, AtIs DEF LeaseKept, slotVars
    <3> QED
      BY <3>2, <3>3
  <2>5. ASSUME NEW lease \in restores' PROVE RestoreKept(lease)'
    <3>1. RestoreKept(lease) /\ lease.rid \in Rids
      BY <1>1, RestoreHere
    <3> QED
      BY <1>1, <1>4, <3>1 DEF RestoreKept, Require, slotVars
  <2> QED
    BY <1>1, <1>5, <2>1, <2>2, <2>3, <2>4, <2>5, Frame
<1> QED
  BY <1>6, <1>7, <1>8

\* An allocation that raises goes to its rollback; so does a retry. A rollback
\* that raises where it noted nothing leaves.
LEMMA ToRollback ==
    ASSUME IInv, NEW q \in Rids, restoring[q] # NoRecord,
           call' = Idle \/ call' = At("rollback", q),
           UNCHANGED <<slotVars, generation, stage, row, allocated, table, requests, readers,
                       matches, restoring, restores>>
    PROVE  SlotsInv' /\ TypeOK' /\ Custodied'
<1>1. Settled(q) /\ RecordExact(q) /\ restoring[q] \in Records
  BY Here
<1>2. SlotsInv'
  BY TableQuiet DEF IInv
<1>3. TypeOK'
  BY DEF IInv, TypeOK
<1>4. Custodied'
  <2>1. \A op \in {"extend", "undo", "drained", "unpaged", "freed", "forward"} : call' # At(op, q)
    BY CallsAre
  <2>2. \A p \in Rids \ {q} : Quiet(p)
    BY DEF Quiet
  <2>3. Settled(q)'
    BY <1>1, <2>1 DEF Settled
  <2>4. Suffix(q)' = Suffix(q) /\ PagesFor(allocated[q])' = PagesFor(allocated[q])
    BY DEF Suffix, PagesFor
  <2>5. RecordExact(q)'
    BY <1>1, <2>1, <2>4 DEF RecordExact, Unbacked
  <2>6. \A p \in Rids : call' # At("extend", p)
    BY AtIs
  <2>7. /\ \A r \in Rows : LeaseKept(r)'
        /\ \A lease \in restores' : RestoreKept(lease)'
    BY <1>1, <2>6, LeasesQuiet
  <2> QED
    BY <2>2, <2>3, <2>5, <2>7, Here, Frame DEF Inside
<1> QED
  BY <1>2, <1>3, <1>4

\* A lease is taken on a row that has none.
LEMMA AcquireIs ==
    ASSUME IInv, NEW r \in Rows, NEW q \in Rids, Acquire(r, generation[r], q)
    PROVE  /\ SlotsInv' /\ active[r] = NoLease
           /\ prefill_owner' \in Leases /\ prefill_owner'.rid = q
           /\ prefill_owner'.req_pool_idx = r /\ prefill_owner' # NoLease
           /\ active'[r] = prefill_owner' /\ phases'[r] = "prefill"
           /\ \A s \in Rows \ {r} : active'[s] = active[s] /\ phases'[s] = phases[s]
<1>1. generation[r] \in Generations
  BY DEF IInv, TypeOK, SlotsInv, SlotsTypeOK, Acquire
<1>2. SlotsInv'
  BY <1>1, AcquireStep DEF IInv
<1>3. PICK slot \in Slots :
         LET lease == [req_pool_idx |-> r, generation |-> generation[r],
                       rid |-> q, slot |-> slot]
         IN  active' = [active EXCEPT ![r] = lease] /\ prefill_owner' = lease
  BY DEF Acquire
<1>4. active[r] = NoLease /\ phases' = [phases EXCEPT ![r] = "prefill"]
  BY DEF Acquire
<1>5. prefill_owner' \in Leases /\ prefill_owner'.rid = q /\ prefill_owner'.req_pool_idx = r
  BY <1>1, <1>3 DEF Leases
<1> QED
  BY <1>2, <1>3, <1>4, <1>5, LeaseFields DEF IInv, SlotsInv, SlotsTypeOK

\* A restore takes a lease, and with the cache of the request starts to copy.
LEMMA RestoreStep ==
    ASSUME IInv, NEW q \in Rids, NEW cached \in BOOLEAN, Restore(q, cached)
    PROVE  SlotsInv' /\ TypeOK' /\ Custodied'
<1> DEFINE record == restoring[q]
           r == row[q]
           new == prefill_owner'
<1>1. /\ Written(q) /\ record.reader /\ ~record.stream /\ requests[r] = NoLease
      /\ Acquire(r, generation[r], q)
      /\ restoring' = [restoring EXCEPT ![q].stream = TRUE]
      /\ cached => /\ requests' = [requests EXCEPT ![r] = new]
                   /\ restores' = restores \cup {new} /\ call' = call
      /\ ~cached => requests' = requests /\ restores' = restores /\ call' = At("rollback", q)
      /\ UNCHANGED <<generation, stage, row, allocated, table, free, present, readers, matches>>
  BY DEF Restore, reqVars, hostVars
<1>2. /\ Extending(q) /\ record \in Records /\ ~record.read /\ ~record.noted /\ record.suffix = <<>>
      /\ allocated[q] # 0 /\ r \in Rows
  BY <1>1, WrittenHere, ExtendHere
<1>3. Settled(q) /\ RecordExact(q) /\ record # NoRecord /\ call = At("extend", q)
  BY <1>2, Here, RecordIs DEF Extending
<1>4. /\ SlotsInv' /\ active[r] = NoLease
      /\ new \in Leases /\ new.rid = q /\ new.req_pool_idx = r /\ new # NoLease
      /\ active'[r] = new /\ phases'[r] = "prefill"
      /\ \A s \in Rows \ {r} : active'[s] = active[s] /\ phases'[s] = phases[s]
  BY <1>1, <1>2, AcquireIs
<1> HIDE DEF new
<1>5. restoring'[q] = [record EXCEPT !.stream = TRUE]
      /\ \A p \in Rids \ {q} : restoring'[p] = restoring[p]
  BY <1>1 DEF IInv, TypeOK
<1>6. /\ restoring'[q] \in Records /\ restoring'[q].stream
      /\ restoring'[q].prefix = record.prefix
      /\ restoring'[q].reader = record.reader /\ restoring'[q].fresh = record.fresh
      /\ restoring'[q].previous = record.previous /\ restoring'[q].length = record.length
      /\ restoring'[q].suffix = record.suffix /\ restoring'[q].read = record.read
      /\ restoring'[q].noted = record.noted
      /\ restoring'[q].lease = record.lease /\ restoring'[q].drained = record.drained
  BY <1>2, <1>5 DEF Records
<1>7. record.fresh /\ restoring'[q] # NoRecord
  BY <1>1, <1>3, <1>6, RecordIs DEF RecordExact
<1>8. TypeOK'
  <2>1. restoring' \in [Rids -> Records \cup {NoRecord}]
    BY <1>1, <1>6 DEF IInv, TypeOK
  <2>2. requests' \in [Rows -> Leases \cup {NoLease}] /\ restores' \subseteq Leases
    BY <1>1, <1>2, <1>4 DEF IInv, TypeOK
  <2> QED
    BY <1>1, <2>1, <2>2 DEF IInv, TypeOK
<1>9. call' \in {At("extend", q), At("rollback", q)}
  BY <1>1, <1>3
<1>10. Custodied'
  <2>1. \A p \in Rids \ {q} : Quiet(p)
    BY <1>1, <1>5 DEF Quiet
  <2>2. \A op \in {"undo", "drained", "unpaged", "freed", "forward"} : call' # At(op, q)
    BY <1>9, AtIs
  <2>3. Settled(q)'
    BY <1>1, <1>3, <1>7, <2>2 DEF Settled
  <2>4. RecordExact(q)'
    <3>1. PagesFor(allocated[q])' = PagesFor(allocated[q])
      BY <1>1 DEF PagesFor
    <3> QED
      BY <1>1, <1>2, <1>3, <1>6, <2>2, <3>1 DEF RecordExact, Unbacked
  <2>5. ASSUME NEW s \in Rows
        PROVE  \/ LeaseKept(s)'
               \/ /\ active'[s] = active[s] /\ phases'[s] = phases[s]
                  /\ requests'[s] = requests[s]
                  /\ active[s] # NoLease => active[s].rid # q
    <3>1. CASE s = r
      <4>1. active'[s] = new /\ row'[q] = s
        BY <1>1, <1>4, <3>1
      <4>2. call' = At("extend", q) => requests'[s] = new
        <5>1. CASE cached
          BY <1>1, <1>2, <3>1, <5>1 DEF IInv, TypeOK
        <5>2. CASE ~cached
          BY <1>1, <5>2, CallsAre
        <5> QED
          BY <5>1, <5>2
      <4> QED
        BY <1>2, <1>4, <1>6, <1>7, <4>1, <4>2 DEF LeaseKept
    <3>2. CASE s # r
      <4>1. active'[s] = active[s] /\ phases'[s] = phases[s] /\ requests'[s] = requests[s]
        BY <1>1, <1>4, <3>2 DEF IInv, TypeOK
      <4>2. active[s] # NoLease => active[s].rid # q
        BY <1>2, <1>3, <1>7, <3>2, ActiveHere DEF LeaseKept
      <4> QED
        BY <4>1, <4>2
    <3> QED
      BY <3>1, <3>2
  <2>6. ASSUME NEW lease \in restores'
        PROVE  \/ RestoreKept(lease)'
               \/ /\ lease \in restores /\ lease.rid # q
                  /\ active'[lease.req_pool_idx] = active[lease.req_pool_idx]
                  /\ phases'[lease.req_pool_idx] = phases[lease.req_pool_idx]
    <3>1. CASE lease = new
      BY <1>1, <1>4, <1>6, <3>1 DEF RestoreKept, Require
    <3>2. CASE lease \in restores
      <4>1. /\ active[lease.req_pool_idx] = lease /\ lease # NoLease
            /\ row[lease.rid] = lease.req_pool_idx /\ lease.req_pool_idx \in Rows
        BY <3>2, RestoreHere DEF RestoreKept, Require
      <4>2. lease.req_pool_idx # r
        BY <1>4, <4>1
      <4> QED
        BY <1>4, <3>2, <4>1, <4>2
    <3> QED
      BY <1>1, <3>1, <3>2
  <2> QED
    BY <1>1, <1>9, <2>1, <2>3, <2>4, <2>5, <2>6, Here, Frame DEF Inside
<1> QED
  BY <1>4, <1>8, <1>10

----------------------------------------------------------------------------
(* The rollback.                                                           *)

\* What is known in the middle of a rollback.
LEMMA RollbackHere ==
    ASSUME IInv, NEW q \in Rids,
           NEW op \in {"rollback", "undo", "drained", "unpaged", "freed"}, call = At(op, q)
    PROVE  /\ Settled(q) /\ RecordExact(q)
           /\ restoring[q] # NoRecord /\ restoring[q] \in Records
           /\ \A o : At(o, q) = call => o = op
<1>1. restoring[q] # NoRecord
  BY Here DEF Settled, Inside
<1> QED
  BY <1>1, Here, CallsAre

\* The suffix that a rollback reads is of pages.
LEMMA SuffixIs ==
    ASSUME IInv, NEW q \in Rids, restoring[q] # NoRecord
    PROVE  Suffix(q) \in Seq(Pages)
<1>1. table[q] \in Seq(Pages) /\ restoring[q].previous \in Nat /\ Hit \in Nat
      /\ PageTokens \in Nat \ {0}
  BY Here, RecordIs, PagesForIs, PagesAssumption
<1>2. \A start \in Nat : start \div PageTokens + 1 \in Int
  BY <1>1
<1>3. \A start \in Nat : SubSeq(table[q], start \div PageTokens + 1, Len(table[q])) \in Seq(Pages)
  <2> TAKE start \in Nat
  <2>1. start \div PageTokens \in Nat
    BY <1>1
  <2>2. Len(table[q]) \in Nat /\ \A i \in (start \div PageTokens + 1)..Len(table[q]) : table[q][i] \in Pages
    BY <1>1, <2>1, LenProperties, ElementOfSeq
  <2> QED
    BY <1>1, <2>1, <2>2, SubSeqProperties
<1> QED
  BY <1>1, <1>3, EmptySeq DEF Suffix

\* When the restore stream is drained no restore of the request is under way.
LEMMA SyncStep ==
    ASSUME IInv, NEW q \in Rids, Sync(q)
    PROVE  SlotsInv' /\ TypeOK' /\ Custodied'
<1> DEFINE old == restoring[q]
           read == IF old.read THEN old.suffix ELSE Suffix(q)
<1>1. /\ call = At("rollback", q) /\ call' = At("undo", q)
      /\ old.stream => \A lease \in restores : lease.rid # q
      /\ restoring' = [restoring EXCEPT ![q].stream = FALSE, ![q].read = TRUE, ![q].suffix = read]
      /\ UNCHANGED <<slotVars, generation, stage, row, allocated, table, free, requests, present,
                     readers, matches, restores>>
  BY DEF Sync, reqVars, hostVars
<1>2. Settled(q) /\ RecordExact(q) /\ old # NoRecord /\ old \in Records
  BY <1>1, RollbackHere
<1>3. read = Suffix(q) /\ read \in Seq(Pages)
  BY <1>2, SuffixIs DEF RecordExact
<1> HIDE DEF read
<1>4. restoring'[q] = [old EXCEPT !.stream = FALSE, !.read = TRUE, !.suffix = read]
      /\ \A p \in Rids \ {q} : restoring'[p] = restoring[p]
  BY <1>1 DEF IInv, TypeOK
<1>5. /\ restoring'[q] \in Records /\ ~restoring'[q].stream /\ restoring'[q].read
      /\ restoring'[q].suffix = read
      /\ restoring'[q].prefix = old.prefix
      /\ restoring'[q].reader = old.reader /\ restoring'[q].fresh = old.fresh
      /\ restoring'[q].previous = old.previous /\ restoring'[q].length = old.length
      /\ restoring'[q].noted = old.noted
      /\ restoring'[q].lease = old.lease /\ restoring'[q].drained = old.drained
  BY <1>2, <1>3, <1>4 DEF Records
<1>6. restoring'[q] # NoRecord
  BY <1>5, RecordIs
<1>7. SlotsInv'
  BY <1>1, TableQuiet DEF IInv
<1>8. TypeOK'
  <2>1. restoring' \in [Rids -> Records \cup {NoRecord}]
    BY <1>1, <1>5 DEF IInv, TypeOK
  <2> QED
    BY <1>1, <2>1 DEF IInv, TypeOK
<1>9. Custodied'
  <2>1. \A p \in Rids \ {q} : Quiet(p)
    BY <1>1, <1>4 DEF Quiet
  <2>2. \A op \in {"extend", "rollback", "drained", "unpaged", "freed", "forward"} : call' # At(op, q)
    BY <1>1, CallsAre
  <2>3. Settled(q)'
    BY <1>1, <1>2, <1>6, <2>2 DEF Settled
  <2>4. Suffix(q)' = Suffix(q) /\ PagesFor(allocated[q])' = PagesFor(allocated[q])
    BY <1>1, <1>5 DEF Suffix, PagesFor
  <2>5. RecordExact(q)'
    <3>1. UNCHANGED <<stage, row, allocated, table, matches>>
      BY <1>1
    <3> QED
      BY <1>2, <1>3, <1>5, <2>2, <2>4, <3>1 DEF RecordExact, Unbacked
  <2>6. \A p \in Rids : call' # At("extend", p)
    BY <1>1, AtIs
  <2>7. /\ \A r \in Rows : LeaseKept(r)'
        /\ \A lease \in restores' : RestoreKept(lease)'
    BY <1>1, <1>2, <1>4, <1>5, <2>6, LeasesQuiet
  <2> QED
    BY <1>1, <2>1, <2>3, <2>5, <2>7, Here, Frame DEF Inside
<1> QED
  BY <1>7, <1>8, <1>9

\* The pages that stay are those of the chunks before.
LEMMA UndoChunkStep ==
    ASSUME IInv, NEW q \in Rids, UndoChunk(q)
    PROVE  SlotsInv' /\ TypeOK' /\ Custodied'
<1> DEFINE old == restoring[q]
           kept == SubSeq(table[q], 1, PagesFor(old.previous))
<1>1. /\ call = At("undo", q) /\ call' = Idle /\ ~old.fresh /\ Close(q)
      /\ restoring' = [restoring EXCEPT ![q] = NoRecord]
      /\ allocated' = [allocated EXCEPT ![q] = old.previous]
      /\ table' = [table EXCEPT ![q] = kept]
      /\ UNCHANGED <<slotVars, generation, stage, row, requests, present, restores>>
  <2>1. old.fresh = FALSE
    BY DEF UndoChunk, Undoing
  <2> QED
    BY <2>1, Zenon DEF UndoChunk, Undoing
<1>2. Settled(q) /\ RecordExact(q) /\ old # NoRecord /\ old \in Records
  BY <1>1, RollbackHere
<1>3. /\ stage[q] = "prefill" /\ old.previous \in Nat \ {0} /\ row[q] # 0
      /\ Len(table[q]) = PagesFor(allocated[q]) /\ old.previous <= allocated[q]
  BY <1>1, <1>2, RecordIs DEF RecordExact, Unbacked, Settled
<1>4. kept \in Seq(Pages) /\ Len(kept) = PagesFor(old.previous)
  <2>1. PagesFor(old.previous) \in Nat /\ PagesFor(old.previous) <= Len(table[q])
    <3>1. PICK m, l : m = old.previous /\ l = allocated[q]
      OBVIOUS
    <3>2. m \in Nat /\ l \in Nat /\ m <= l
      BY <1>3, <3>1, Here
    <3>3. PagesFor(m) \in Nat /\ PagesFor(m) <= PagesFor(l)
      BY <3>2, PagesForNat, PagesForGrows
    <3> QED
      BY <1>3, <3>1, <3>3
  <2>2. table[q] \in Seq(Pages) /\ \A i \in 1..PagesFor(old.previous) : table[q][i] \in Pages
    BY <2>1, Here, ElementOfSeq
  <2> QED
    BY <2>1, <2>2, SubSeqProperties
<1> HIDE DEF kept
<1>5. /\ restoring'[q] = NoRecord /\ table'[q] = kept /\ allocated'[q] = old.previous
      /\ \A p \in Rids \ {q} : /\ restoring'[p] = restoring[p] /\ table'[p] = table[p]
                               /\ allocated'[p] = allocated[p]
  BY <1>1 DEF IInv, TypeOK
<1>6. /\ matches' \subseteq Rids /\ IsFiniteSet(matches') /\ q \notin matches'
      /\ readers' = Cardinality(matches')
      /\ \A p \in Rids \ {q} : p \in matches' <=> p \in matches
  BY <1>1, CloseIs
<1>7. SlotsInv'
  BY <1>1, TableQuiet DEF IInv
<1>8. TypeOK'
  BY <1>1, <1>3, <1>4, <1>6 DEF IInv, TypeOK
<1>9. Custodied'
  <2>1. \A p \in Rids \ {q} : Quiet(p)
    BY <1>1, <1>5, <1>6 DEF Quiet
  <2>2. \A op, p : call' # At(op, p)
    BY <1>1, AtIs
  <2>3. Settled(q)'
    BY <1>1, <1>3, <1>4, <1>5, <1>6, <2>2 DEF Settled, PagesFor
  <2>4. RecordExact(q)'
    BY <1>5 DEF RecordExact
  <2>5. ASSUME NEW r \in Rows PROVE LeaseKept(r)'
    <3> SUFFICES ASSUME active[r] # NoLease PROVE LeaseKept(r)'
      BY <1>1 DEF LeaseKept, slotVars
    <3>1. LeaseKept(r) /\ active[r].rid \in Rids
      BY ActiveHere
    <3>2. CASE active[r].rid = q
      BY <1>1, <1>2, <1>5, <3>1, <3>2 DEF LeaseKept, slotVars
    <3>3. CASE active[r].rid # q
      BY <1>1, <1>5, <2>2, <3>1, <3>3 DEF LeaseKept, slotVars
    <3> QED
      BY <3>2, <3>3
  <2>6. ASSUME NEW lease \in restores' PROVE RestoreKept(lease)'
    <3>1. RestoreKept(lease) /\ lease.rid \in Rids
      BY <1>1, RestoreHere
    <3> QED
      BY <1>1, <1>5, <3>1 DEF RestoreKept, Require, slotVars
  <2> QED
    BY <1>1, <1>6, <2>1, <2>3, <2>4, <2>5, <2>6, Frame
<1> QED
  BY <1>7, <1>8, <1>9

\* The lease that the first undo notes is the only one the request can have.
LEMMA NotedIs ==
    ASSUME IInv, NEW q \in Rids, Undoing(q, TRUE)
    PROVE  /\ call = At("undo", q) /\ restoring[q] \in Records /\ restoring[q].fresh
           /\ restoring[q].read /\ ~restoring[q].stream
           /\ Noted(q) \in Records /\ Noted(q).noted
           /\ \A r \in Rows : active[r] # NoLease /\ active[r].rid = q => Noted(q).lease = active[r]
           /\ restoring[q].noted => Noted(q) = restoring[q]
           /\ Noted(q).reader = restoring[q].reader /\ Noted(q).fresh = restoring[q].fresh
           /\ Noted(q).previous = restoring[q].previous /\ Noted(q).length = restoring[q].length
           /\ Noted(q).prefix = restoring[q].prefix /\ Noted(q).suffix = restoring[q].suffix
           /\ Noted(q).read = restoring[q].read /\ Noted(q).stream = restoring[q].stream
           /\ Noted(q).drained = restoring[q].drained
<1> DEFINE old == restoring[q]
           lease == IF row[q] = 0 THEN NoLease ELSE active[row[q]]
<1>1. call = At("undo", q) /\ old.fresh = TRUE
  BY DEF Undoing
<1>2. RecordExact(q) /\ old # NoRecord /\ old \in Records
  BY <1>1, RollbackHere
<1>3. old.read /\ ~old.stream
  BY <1>1, <1>2, RecordIs DEF RecordExact
<1>4. lease \in Leases \cup {NoLease}
  BY Here DEF IInv, SlotsInv, SlotsTypeOK
<1>5. ASSUME NEW r \in Rows, active[r] # NoLease, active[r].rid = q
      PROVE  IF old.noted THEN old.lease = active[r] ELSE lease = active[r]
  <2>1. LeaseKept(r) /\ r # 0
    BY <1>5, ActiveHere, Here
  <2> QED
    BY <1>1, <1>2, <1>5, <2>1 DEF LeaseKept
<1>6. CASE old.noted
  BY <1>1, <1>2, <1>3, <1>5, <1>6 DEF Noted
<1>7. CASE ~old.noted
  <2>1. Noted(q) = [old EXCEPT !.noted = TRUE, !.lease = lease]
    BY <1>7 DEF Noted
  <2> HIDE DEF lease
  <2>2. Noted(q) \in Records /\ Noted(q).noted /\ Noted(q).lease = lease
    BY <1>2, <1>4, <2>1 DEF Records
  <2>3. /\ Noted(q).reader = old.reader /\ Noted(q).fresh = old.fresh
        /\ Noted(q).previous = old.previous /\ Noted(q).length = old.length
        /\ Noted(q).prefix = old.prefix /\ Noted(q).suffix = old.suffix
        /\ Noted(q).read = old.read /\ Noted(q).stream = old.stream
        /\ Noted(q).drained = old.drained
    BY <1>2, <2>1 DEF Records
  <2> QED
    BY <1>1, <1>2, <1>3, <1>5, <1>7, <2>2, <2>3
<1> QED
  BY <1>6, <1>7

\* An undo that notes the lease and moves no phase but its own.
LEMMA NotedStep ==
    ASSUME IInv, SlotsInv', NEW q \in Rids, Undoing(q, TRUE), NEW new \in Records,
           restoring' = [restoring EXCEPT ![q] = new],
           new.noted, new.lease = Noted(q).lease,
           new.reader = restoring[q].reader, new.fresh = restoring[q].fresh,
           new.previous = restoring[q].previous, new.length = restoring[q].length,
           new.prefix = restoring[q].prefix, new.suffix = restoring[q].suffix,
           new.read = restoring[q].read, new.stream = restoring[q].stream,
           restoring[q].drained => new.drained,
           call' = Idle \/ (call' = At("drained", q) /\ new.drained),
           \A r \in Rows : phases'[r] = phases[r] \/ (active[r] # NoLease /\ active[r].rid = q),
           new.drained => \A r \in Rows : active[r] # NoLease /\ active[r].rid = q =>
                             phases'[r] \in {"drained", "logical_flushed"},
           UNCHANGED <<active, generation, stage, row, allocated, table, requests, readers,
                       matches, restores>>
    PROVE  TypeOK' /\ Custodied'
<1> DEFINE old == restoring[q]
<1>1. /\ call = At("undo", q) /\ old \in Records /\ old.fresh /\ old.read /\ ~old.stream
      /\ \A r \in Rows : active[r] # NoLease /\ active[r].rid = q => new.lease = active[r]
  BY NotedIs
<1>2. Settled(q) /\ RecordExact(q) /\ old # NoRecord
  BY <1>1, RollbackHere
<1>3. restoring'[q] = new /\ \A p \in Rids \ {q} : restoring'[p] = restoring[p]
  BY DEF IInv, TypeOK
<1>4. new # NoRecord /\ new.fresh /\ new.read /\ ~new.stream /\ new.noted
  BY <1>1, RecordIs
<1>5. TypeOK'
  BY DEF IInv, TypeOK
<1>6. Custodied'
  <2>1. \A p \in Rids \ {q} : Quiet(p)
    BY <1>3 DEF Quiet
  <2>2. \A op \in {"extend", "rollback", "undo", "unpaged", "freed", "forward"} : call' # At(op, q)
    BY CallsAre
  <2>3. Settled(q)'
    BY <1>2, <1>3, <1>4, <2>2 DEF Settled
  <2>4. Suffix(q)' = Suffix(q) /\ PagesFor(allocated[q])' = PagesFor(allocated[q])
    BY <1>3 DEF Suffix, PagesFor
  <2>5. RecordExact(q)'
    <3>1. call' = At("drained", q) => new.drained
      BY CallsAre
    <3> QED
      BY <1>1, <1>2, <1>3, <1>4, <2>2, <2>4, <3>1 DEF RecordExact, Unbacked
  <2>6. ASSUME NEW r \in Rows
        PROVE  \/ LeaseKept(r)'
               \/ /\ active'[r] = active[r] /\ phases'[r] = phases[r]
                  /\ requests'[r] = requests[r]
                  /\ active[r] # NoLease => active[r].rid # q
    <3>1. CASE active[r] # NoLease /\ active[r].rid = q
      <4>1. /\ active'[r] = active[r] /\ restoring'[q] = new /\ new.lease = active[r]
            /\ new.drained => phases'[r] \in {"drained", "logical_flushed"}
        BY <1>1, <1>3, <3>1
      <4> QED
        BY <1>4, <3>1, <4>1 DEF LeaseKept
    <3>2. CASE ~(active[r] # NoLease /\ active[r].rid = q)
      BY <3>2
    <3> QED
      BY <3>1, <3>2
  <2>7. ASSUME NEW lease \in restores'
        PROVE  /\ lease \in restores /\ lease.rid # q
               /\ active'[lease.req_pool_idx] = active[lease.req_pool_idx]
               /\ phases'[lease.req_pool_idx] = phases[lease.req_pool_idx]
    <3>1. /\ RestoreKept(lease) /\ lease \in restores /\ lease.req_pool_idx \in Rows
          /\ active[lease.req_pool_idx] = lease
      BY RestoreHere DEF RestoreKept, Require
    <3>2. lease.rid # q
      BY <1>1, <1>2, <3>1 DEF RestoreKept
    <3> QED
      BY <3>1, <3>2
  <2> QED
    BY <2>1, <2>3, <2>5, <2>6, <2>7, Here, Frame DEF Inside
<1> QED
  BY <1>5, <1>6

\* The drain quiets the request's own lease, or finds it quiet.
LEMMA UndoDrainStep ==
    ASSUME IInv, NEW q \in Rids, UndoDrain(q)
    PROVE  SlotsInv' /\ TypeOK' /\ Custodied'
<1> DEFINE lease == Noted(q).lease
           new == [Noted(q) EXCEPT !.drained = TRUE]
<1>1. /\ Undoing(q, TRUE) /\ restoring' = [restoring EXCEPT ![q] = new]
      /\ IF lease = NoLease \/ AlreadyDrained(q) THEN UNCHANGED slotVars
                                                 ELSE Known(q, lease) /\ Drain(lease)
      /\ call' = At("drained", q)
      /\ UNCHANGED <<generation, stage, row, allocated, table, free, requests, present,
                     readers, matches, restores>>
  BY DEF UndoDrain, reqVars, hostVars
<1>2. /\ restoring[q] \in Records /\ Noted(q) \in Records /\ Noted(q).noted
      /\ restoring[q].fresh /\ restoring[q].noted => Noted(q) = restoring[q]
      /\ \A r \in Rows : active[r] # NoLease /\ active[r].rid = q => lease = active[r]
  BY <1>1, NotedIs
<1>3. /\ new \in Records /\ new.drained /\ new.noted /\ new.lease = Noted(q).lease
      /\ new.reader = Noted(q).reader /\ new.fresh = Noted(q).fresh
      /\ new.previous = Noted(q).previous /\ new.length = Noted(q).length
      /\ new.prefix = Noted(q).prefix /\ new.suffix = Noted(q).suffix
      /\ new.read = Noted(q).read /\ new.stream = Noted(q).stream
  BY <1>2 DEF Records
<1> HIDE DEF new
<1>4. /\ SlotsInv' /\ UNCHANGED active
      /\ \A r \in Rows : phases'[r] = phases[r] \/ (active[r] # NoLease /\ active[r].rid = q)
      /\ \A r \in Rows : active[r] # NoLease /\ active[r].rid = q =>
            phases'[r] \in {"drained", "logical_flushed"}
  <2>1. CASE lease = NoLease \/ AlreadyDrained(q)
    <3>1. SlotsInv' /\ UNCHANGED <<active, phases>>
      BY <1>1, <2>1, TableQuiet DEF IInv, slotVars
    <3>2. ASSUME NEW r \in Rows, active[r] # NoLease, active[r].rid = q
          PROVE  phases[r] \in {"drained", "logical_flushed"}
      <4>1. lease = active[r] /\ lease # NoLease /\ lease.req_pool_idx = r /\ LeaseKept(r)
        BY <1>2, <3>2, ActiveHere
      <4>2. CASE restoring[q].drained
        <5>1. RecordExact(q) /\ restoring[q] # NoRecord
          BY <1>2, Here, RecordIs
        <5> QED
          BY <1>2, <3>2, <4>1, <4>2, <5>1 DEF LeaseKept, RecordExact
      <4>3. CASE Require(lease, {"drained", "logical_flushed"})
        BY <4>1, <4>3 DEF Require
      <4> QED
        BY <2>1, <4>1, <4>2, <4>3 DEF AlreadyDrained
    <3> QED
      BY <3>1, <3>2
  <2>2. CASE ~(lease = NoLease \/ AlreadyDrained(q))
    <3>1. Known(q, lease) /\ Drain(lease) /\ lease \in Leases
      BY <1>1, <1>2, <2>2, RecordIs
    <3>2. /\ SlotsInv' /\ UNCHANGED active /\ active[lease.req_pool_idx] = lease
          /\ lease.req_pool_idx \in Rows /\ lease # NoLease /\ lease.rid = q
          /\ phases' = [phases EXCEPT ![lease.req_pool_idx] = "drained"]
      BY <3>1, DrainStep, LeaseFields DEF IInv, Drain, Require, SetPhase, Known
    <3>3. phases \in [Rows -> Phases \cup {"none"}]
      BY DEF IInv, SlotsInv, SlotsTypeOK
    <3>4. ASSUME NEW r \in Rows, active[r] # NoLease, active[r].rid = q
          PROVE  r = lease.req_pool_idx
      BY <1>2, <3>4, ActiveHere
    <3> QED
      BY <3>2, <3>3, <3>4
  <2> QED
    BY <2>1, <2>2
<1>5. /\ Noted(q).reader = restoring[q].reader /\ Noted(q).fresh = restoring[q].fresh
      /\ Noted(q).previous = restoring[q].previous /\ Noted(q).length = restoring[q].length
      /\ Noted(q).prefix = restoring[q].prefix /\ Noted(q).suffix = restoring[q].suffix
      /\ Noted(q).read = restoring[q].read /\ Noted(q).stream = restoring[q].stream
  BY <1>1, NotedIs
<1>6. /\ new.reader = restoring[q].reader /\ new.fresh = restoring[q].fresh
      /\ new.previous = restoring[q].previous /\ new.length = restoring[q].length
      /\ new.prefix = restoring[q].prefix /\ new.suffix = restoring[q].suffix
      /\ new.read = restoring[q].read /\ new.stream = restoring[q].stream
  BY <1>3, <1>5
<1>7. /\ UNCHANGED <<active, generation, stage, row, allocated, table, requests, readers,
                     matches, restores>>
      /\ call' = Idle \/ (call' = At("drained", q) /\ new.drained)
      /\ Undoing(q, TRUE) /\ restoring' = [restoring EXCEPT ![q] = new]
  BY <1>1, <1>3, <1>4
<1>8. new \in Records /\ new.noted /\ new.drained /\ new.lease = Noted(q).lease
  BY <1>3
<1>9. TypeOK' /\ Custodied'
  BY <1>4, <1>6, <1>7, <1>8, NotedStep
<1> QED
  BY <1>4, <1>9

\* A drain that raises leaves the lease with its record.
LEMMA DrainFailsStep ==
    ASSUME IInv, NEW q \in Rids, DrainFails(q)
    PROVE  SlotsInv' /\ TypeOK' /\ Custodied'
<1> DEFINE lease == Noted(q).lease
<1>1. /\ Undoing(q, TRUE) /\ restoring' = [restoring EXCEPT ![q] = Noted(q)]
      /\ ~AlreadyDrained(q) /\ lease # NoLease /\ call' = Idle
      /\ \/ Known(q, lease) /\ Drain(lease)
         \/ /\ Known(q, lease)
            /\ \E left \in {"failed", "releasing"} : DrainRaises(lease, left)
         \/ UNCHANGED slotVars
      /\ UNCHANGED <<generation, stage, row, allocated, table, free, requests, present,
                     readers, matches, restores>>
  BY DEF DrainFails, reqVars, hostVars
<1>2. /\ restoring[q] \in Records /\ Noted(q) \in Records /\ Noted(q).noted
      /\ Noted(q).reader = restoring[q].reader /\ Noted(q).fresh = restoring[q].fresh
      /\ Noted(q).previous = restoring[q].previous /\ Noted(q).length = restoring[q].length
      /\ Noted(q).prefix = restoring[q].prefix /\ Noted(q).suffix = restoring[q].suffix
      /\ Noted(q).read = restoring[q].read /\ Noted(q).stream = restoring[q].stream
      /\ Noted(q).drained = restoring[q].drained
  BY <1>1, NotedIs
<1>3. lease \in Leases /\ lease.req_pool_idx \in Rows /\ ~Noted(q).drained
  BY <1>1, <1>2, RecordIs, LeaseFields DEF AlreadyDrained
<1>4. phases \in [Rows -> Phases \cup {"none"}] /\ SlotsInv
  BY DEF IInv, SlotsInv, SlotsTypeOK
<1>5. /\ SlotsInv' /\ UNCHANGED active
      /\ \A r \in Rows : phases'[r] = phases[r] \/ (active[r] # NoLease /\ active[r].rid = q)
  <2>1. CASE Known(q, lease) /\ Drain(lease)
    <3>1. SlotsInv'
      BY <1>3, <1>4, <2>1, DrainStep
    <3> QED
      BY <1>1, <1>3, <1>4, <2>1, <3>1 DEF Drain, Require, SetPhase, Known
  <2>2. ASSUME Known(q, lease), NEW left \in {"failed", "releasing"}, DrainRaises(lease, left)
        PROVE  /\ SlotsInv' /\ UNCHANGED active
               /\ \A r \in Rows : phases'[r] = phases[r] \/ (active[r] # NoLease /\ active[r].rid = q)
    <3>1. SlotsInv'
      BY <1>3, <1>4, <2>2, StepInv DEF SlotsNext
    <3> QED
      BY <1>1, <1>3, <1>4, <2>2, <3>1 DEF DrainRaises, Require, SetPhase, Known
  <2>3. CASE UNCHANGED slotVars
    BY <1>4, <2>3, TableQuiet DEF slotVars
  <2> QED
    BY <1>1, <2>1, <2>2, <2>3
<1>6. TypeOK' /\ Custodied'
  BY <1>1, <1>2, <1>3, <1>5, NotedStep
<1> QED
  BY <1>5, <1>6

\* A rollback that raises keeps its record, and the lease it noted.
LEMMA UndoRaisesStep ==
    ASSUME IInv, NEW q \in Rids, UndoRaises(q)
    PROVE  SlotsInv' /\ TypeOK' /\ Custodied'
<1>1. /\ \E op \in {"rollback", "undo", "drained", "unpaged", "freed"} : call = At(op, q)
      /\ call' = Idle
      /\ restoring' = IF Undoing(q, TRUE) THEN [restoring EXCEPT ![q] = Noted(q)] ELSE restoring
      /\ UNCHANGED <<slotVars, generation, stage, row, allocated, table, free, requests, present,
                     readers, matches, restores>>
  BY DEF UndoRaises, reqVars, hostVars
<1>2. restoring[q] # NoRecord /\ restoring[q] \in Records /\ RecordExact(q)
  BY <1>1, RollbackHere
<1>3. CASE Undoing(q, TRUE)
  <2>1. /\ Noted(q) \in Records /\ Noted(q).noted /\ restoring[q].fresh
        /\ Noted(q).reader = restoring[q].reader /\ Noted(q).fresh = restoring[q].fresh
        /\ Noted(q).previous = restoring[q].previous /\ Noted(q).length = restoring[q].length
        /\ Noted(q).prefix = restoring[q].prefix /\ Noted(q).suffix = restoring[q].suffix
        /\ Noted(q).read = restoring[q].read /\ Noted(q).stream = restoring[q].stream
        /\ Noted(q).drained = restoring[q].drained
    BY <1>3, NotedIs
  <2>2. SlotsInv' /\ active' = active /\ phases' = phases
    BY <1>1, TableQuiet DEF IInv, slotVars
  <2>3. ASSUME Noted(q).drained, NEW r \in Rows, active[r] # NoLease, active[r].rid = q
        PROVE  phases'[r] \in {"drained", "logical_flushed"}
    <3>1. restoring[q].drained /\ restoring[q].noted
      BY <1>2, <2>1, <2>3 DEF RecordExact
    <3>2. LeaseKept(r)
      BY <2>3, ActiveHere
    <3> QED
      BY <1>2, <2>1, <2>2, <2>3, <3>1, <3>2 DEF LeaseKept
  <2>4. TypeOK' /\ Custodied'
    BY <1>1, <1>3, <2>1, <2>2, <2>3, NotedStep
  <2> QED
    BY <2>2, <2>4
<1>4. CASE ~Undoing(q, TRUE)
  BY <1>1, <1>2, <1>4, ToRollback
<1> QED
  BY <1>3, <1>4

\* A table without pages has none behind any place.
LEMMA NoSuffix ==
    ASSUME NEW start \in Nat
    PROVE  SubSeq(<<>>, start \div PageTokens + 1, Len(<<>>)) = <<>>
<1>1. start \div PageTokens \in Nat
  BY PagesAssumption
<1> DEFINE n == start \div PageTokens
<1>2. n \in Nat /\ Len(<<>>) = 0
  BY <1>1
<1> HIDE DEF n
<1>3. SubSeq(<<>>, n + 1, 0) = <<>>
  BY <1>2
<1> QED
  BY <1>2, <1>3 DEF n

\* The pages the request held are freed; the record still knows the lease.
LEMMA UndoFreeStep ==
    ASSUME IInv, NEW q \in Rids, UndoFree(q)
    PROVE  SlotsInv' /\ TypeOK' /\ Custodied'
<1> DEFINE old == restoring[q]
<1>1. /\ call = At("drained", q) /\ call' = At("unpaged", q)
      /\ restoring' = [restoring EXCEPT ![q].prefix = <<>>, ![q].suffix = <<>>]
      /\ table' = [table EXCEPT ![q] = <<>>]
      /\ UNCHANGED <<slotVars, generation, stage, row, allocated, requests, present, readers,
                     matches, restores>>
  BY DEF UndoFree, hostVars
<1>2. Settled(q) /\ RecordExact(q) /\ old # NoRecord /\ old \in Records
  BY <1>1, RollbackHere
<1>3. /\ old.drained /\ old.noted /\ old.fresh /\ old.read /\ ~old.stream /\ old.previous = 0
      /\ stage[q] \in {"waiting", "done"}
  BY <1>1, <1>2, RecordIs DEF RecordExact
<1>4. /\ restoring'[q] = [old EXCEPT !.prefix = <<>>, !.suffix = <<>>]
      /\ table'[q] = <<>>
      /\ \A p \in Rids \ {q} : restoring'[p] = restoring[p] /\ table'[p] = table[p]
  BY <1>1 DEF IInv, TypeOK
<1>5. /\ restoring'[q] \in Records /\ restoring'[q].prefix = <<>> /\ restoring'[q].suffix = <<>>
      /\ restoring'[q].reader = old.reader /\ restoring'[q].fresh = old.fresh
      /\ restoring'[q].previous = old.previous /\ restoring'[q].length = old.length
      /\ restoring'[q].read = old.read /\ restoring'[q].stream = old.stream
      /\ restoring'[q].noted = old.noted
      /\ restoring'[q].lease = old.lease /\ restoring'[q].drained = old.drained
  <2>1. PICK x : x = restoring[q]
    OBVIOUS
  <2>2. PICK y : y = restoring'[q]
    OBVIOUS
  <2>3. x \in Records /\ y = [x EXCEPT !.prefix = <<>>, !.suffix = <<>>] /\ <<>> \in Seq(Pages)
    BY <1>2, <1>4, <2>1, <2>2, EmptySeq
  <2>4. y \in Records
    BY <2>3 DEF Records
  <2>5. /\ y.prefix = <<>> /\ y.suffix = <<>> /\ y.reader = x.reader /\ y.fresh = x.fresh
        /\ y.previous = x.previous /\ y.length = x.length /\ y.read = x.read
        /\ y.stream = x.stream /\ y.noted = x.noted /\ y.lease = x.lease /\ y.drained = x.drained
    BY <2>3 DEF Records
  <2> QED
    BY <2>1, <2>2, <2>4, <2>5
<1>6. restoring'[q] # NoRecord
  BY <1>5, RecordIs
<1>7. SlotsInv'
  BY <1>1, TableQuiet DEF IInv
<1>8. TypeOK'
  <2>1. restoring' \in [Rids -> Records \cup {NoRecord}]
    BY <1>1, <1>4, <1>5 DEF IInv, TypeOK
  <2> QED
    BY <1>1, <2>1, EmptySeq DEF IInv, TypeOK
<1>9. Custodied'
  <2>1. \A p \in Rids \ {q} : Quiet(p)
    BY <1>1, <1>4 DEF Quiet
  <2>2. \A op \in {"extend", "rollback", "undo", "drained", "freed", "forward"} : call' # At(op, q)
    BY <1>1, CallsAre
  <2>3. Settled(q)'
    BY <1>1, <1>3, <1>6, <2>2 DEF Settled
  <2>4. Suffix(q)' = <<>> /\ Unbacked(q)'
    <3>1. Suffix(q)' = <<>>
      BY <1>3, <1>4, <1>5, NoSuffix DEF Suffix
    <3> QED
      BY <1>3, <1>4, <1>5, <3>1 DEF Unbacked
  <2>5. RecordExact(q)'
    BY <1>1, <1>2, <1>3, <1>4, <1>5, <2>2, <2>4 DEF RecordExact
  <2>6. ASSUME NEW r \in Rows PROVE LeaseKept(r)'
    <3> SUFFICES ASSUME active[r] # NoLease PROVE LeaseKept(r)'
      BY <1>1 DEF LeaseKept, slotVars
    <3>1. LeaseKept(r) /\ active[r].rid \in Rids
      BY ActiveHere
    <3>2. CASE active[r].rid = q
      BY <1>1, <1>2, <1>3, <1>5, <1>6, <3>1, <3>2 DEF LeaseKept, slotVars
    <3>3. CASE active[r].rid # q
      <4>1. call' # At("extend", active[r].rid)
        BY <1>1, AtIs
      <4>2. /\ active'[r] = active[r] /\ phases'[r] = phases[r] /\ requests'[r] = requests[r]
            /\ restoring'[active[r].rid] = restoring[active[r].rid]
            /\ row'[active[r].rid] = row[active[r].rid] /\ stage' = stage
        BY <1>1, <1>4, <3>1, <3>3 DEF slotVars
      <4> QED
        BY <3>1, <4>1, <4>2 DEF LeaseKept
    <3> QED
      BY <3>2, <3>3
  <2>7. ASSUME NEW lease \in restores' PROVE RestoreKept(lease)'
    <3>1. RestoreKept(lease) /\ lease.rid \in Rids
      BY <1>1, RestoreHere
    <3>2. lease.rid # q
      BY <1>2, <1>3, <3>1 DEF RestoreKept
    <3> QED
      BY <1>1, <1>4, <3>1, <3>2 DEF RestoreKept, Require, slotVars
  <2> QED
    BY <1>1, <1>4, <2>1, <2>3, <2>5, <2>6, <2>7, Here, Frame DEF Inside
<1> QED
  BY <1>7, <1>8, <1>9

\* Then the row is; a rollback that raised in between finds no pages again.
LEMMA UndoRowStep ==
    ASSUME IInv, NEW q \in Rids, UndoRow(q)
    PROVE  SlotsInv' /\ TypeOK' /\ Custodied'
<1> DEFINE old == restoring[q]
<1>1. /\ call = At("unpaged", q) /\ call' = At("freed", q)
      /\ row' = [row EXCEPT ![q] = 0] /\ allocated' = [allocated EXCEPT ![q] = 0]
      /\ UNCHANGED <<slotVars, generation, stage, table, requests, present, readers, matches,
                     restoring, restores>>
  BY DEF UndoRow, hostVars
<1>2. Settled(q) /\ RecordExact(q) /\ old # NoRecord /\ old \in Records
  BY <1>1, RollbackHere
<1>3. /\ old.drained /\ old.noted /\ old.fresh /\ old.read /\ ~old.stream /\ old.previous = 0
      /\ stage[q] \in {"waiting", "done"} /\ Unbacked(q) /\ old.suffix = Suffix(q)
  BY <1>1, <1>2, RecordIs DEF RecordExact
<1>4. /\ row'[q] = 0 /\ allocated'[q] = 0
      /\ \A p \in Rids \ {q} : allocated'[p] = allocated[p] /\ row'[p] = row[p]
  BY <1>1 DEF IInv, TypeOK
<1>5. old.suffix = <<>>
  BY <1>2, <1>3, RecordIs, NoSuffix DEF Suffix, Unbacked
<1>6. SlotsInv'
  BY <1>1, TableQuiet DEF IInv
<1>7. TypeOK'
  BY <1>1 DEF IInv, TypeOK
<1>8. Custodied'
  <2>1. \A p \in Rids \ {q} : Quiet(p)
    BY <1>1, <1>4 DEF Quiet
  <2>2. \A op \in {"extend", "rollback", "undo", "drained", "unpaged", "forward"} : call' # At(op, q)
    BY <1>1, CallsAre
  <2>3. Settled(q)'
    BY <1>1, <1>2, <1>3, <2>2 DEF Settled
  <2>4. Suffix(q)' = <<>> /\ Unbacked(q)'
    BY <1>1, <1>3, <1>4 DEF Suffix, Unbacked
  <2>5. RecordExact(q)'
    BY <1>1, <1>2, <1>3, <1>4, <1>5, <2>2, <2>4 DEF RecordExact
  <2>6. ASSUME NEW r \in Rows PROVE LeaseKept(r)'
    <3> SUFFICES ASSUME active[r] # NoLease PROVE LeaseKept(r)'
      BY <1>1 DEF LeaseKept, slotVars
    <3>1. LeaseKept(r) /\ active[r].rid \in Rids
      BY ActiveHere
    <3>2. CASE active[r].rid = q
      BY <1>1, <1>2, <1>3, <3>1, <3>2 DEF LeaseKept, slotVars
    <3>3. CASE active[r].rid # q
      <4>1. call' # At("extend", active[r].rid)
        BY <1>1, AtIs
      <4>2. /\ active'[r] = active[r] /\ phases'[r] = phases[r] /\ requests'[r] = requests[r]
            /\ restoring' = restoring
            /\ row'[active[r].rid] = row[active[r].rid] /\ stage' = stage
        BY <1>1, <1>4, <3>1, <3>3 DEF slotVars
      <4> QED
        BY <3>1, <4>1, <4>2 DEF LeaseKept
    <3> QED
      BY <3>2, <3>3
  <2>7. ASSUME NEW lease \in restores' PROVE RestoreKept(lease)'
    <3>1. RestoreKept(lease) /\ lease.rid \in Rids
      BY <1>1, RestoreHere
    <3>2. lease.rid # q
      BY <1>2, <1>3, <3>1 DEF RestoreKept
    <3> QED
      BY <1>1, <1>4, <3>1, <3>2 DEF RestoreKept, Require, slotVars
  <2> QED
    BY <1>1, <1>4, <2>1, <2>3, <2>5, <2>6, <2>7, Here, Frame DEF Inside
<1> QED
  BY <1>6, <1>7, <1>8

\* A lease is returned: its slot goes back to the free list, and the lane with
\* it if it was its.
LEMMA ReturnStep ==
    ASSUME SlotsInv, NEW lease \in Leases, NEW r \in Rows, r = lease.req_pool_idx,
           active[r] = lease,
           active' = [active EXCEPT ![r] = NoLease],
           phases' = [phases EXCEPT ![r] = "none"],
           free_slots' = [free_slots EXCEPT ![lease.slot] = @ + 1],
           prefill_owner' = IF prefill_owner = lease THEN NoLease ELSE prefill_owner,
           last_generation' = last_generation
    PROVE  SlotsInv'
<1>1. lease.slot \in Slots /\ lease # NoLease
  BY LeaseFields
<1>2. SlotsTypeOK'
  BY <1>1 DEF SlotsInv, SlotsTypeOK
<1>3. SlotConservation'
  <2>1. \A s \in Rows \ {r} : active[s] # NoLease => active[s].slot # lease.slot
    BY <1>1 DEF SlotsInv, SlotConservation
  <2>2. ASSUME NEW s \in Slots
        PROVE  free_slots'[s] =
                  IF \E t \in Rows : active'[t] # NoLease /\ active'[t].slot = s THEN 0 ELSE 1
    <3>1. CASE s = lease.slot
      <4>1. free_slots[s] = 0
        BY <1>1, <3>1 DEF SlotsInv, SlotConservation
      <4>2. ~\E t \in Rows : active'[t] # NoLease /\ active'[t].slot = s
        BY <1>1, <2>1, <3>1 DEF SlotsInv, SlotsTypeOK
      <4> QED
        BY <1>1, <3>1, <4>1, <4>2 DEF SlotsInv, SlotsTypeOK
    <3>2. CASE s # lease.slot
      <4>1. (\E t \in Rows : active'[t] # NoLease /\ active'[t].slot = s)
               <=> (\E t \in Rows : active[t] # NoLease /\ active[t].slot = s)
        BY <1>1, <3>2 DEF SlotsInv, SlotsTypeOK
      <4>2. free_slots'[s] = free_slots[s]
        BY <1>1, <3>2 DEF SlotsInv, SlotsTypeOK
      <4> QED
        BY <4>1, <4>2 DEF SlotsInv, SlotConservation
    <3> QED
      BY <3>1, <3>2
  <2>3. ASSUME NEW s \in Rows, NEW t \in Rows,
               s # t, active'[s] # NoLease, active'[t] # NoLease
        PROVE  active'[s].slot # active'[t].slot
    BY <1>1, <2>3 DEF SlotsInv, SlotsTypeOK, SlotConservation
  <2> QED
    BY <2>2, <2>3 DEF SlotConservation
<1>4. LeaseIdentity'
  BY <1>1 DEF SlotsInv, SlotsTypeOK, LeaseIdentity
<1>5. LaneExclusive'
  <2>1. ASSUME NEW s \in Rows, phases'[s] \in {"prefill", "copying"}
        PROVE  prefill_owner' = active'[s]
    <3>1. s # r /\ phases[s] = phases'[s] /\ active'[s] = active[s]
      BY <2>1 DEF SlotsInv, SlotsTypeOK
    <3>2. prefill_owner = active[s]
      BY <2>1, <3>1 DEF SlotsInv, LaneExclusive
    <3>3. active[s] # NoLease
      BY <2>1, <3>1 DEF SlotsInv, LeaseIdentity
    <3>4. active[s] # lease
      BY <3>1, <3>3 DEF SlotsInv, LeaseIdentity
    <3> QED
      BY <3>1, <3>2, <3>4
  <2>2. ASSUME prefill_owner' # NoLease
        PROVE  /\ active'[prefill_owner'.req_pool_idx] = prefill_owner'
               /\ phases'[prefill_owner'.req_pool_idx]
                     \in {"prefill", "copying", "failed", "releasing"}
    <3>1. prefill_owner' = prefill_owner /\ prefill_owner # lease /\ prefill_owner # NoLease
      BY <2>2
    <3>2. /\ active[prefill_owner.req_pool_idx] = prefill_owner
          /\ phases[prefill_owner.req_pool_idx]
                \in {"prefill", "copying", "failed", "releasing"}
          /\ prefill_owner.req_pool_idx \in Rows
      BY <3>1, LeaseFields DEF SlotsInv, SlotsTypeOK, LaneExclusive
    <3>3. prefill_owner.req_pool_idx # r
      BY <3>1, <3>2
    <3> QED
      BY <3>1, <3>2, <3>3 DEF SlotsInv, SlotsTypeOK
  <2> QED
    BY <2>1, <2>2 DEF LaneExclusive
<1> QED
  BY <1>2, <1>3, <1>4, <1>5 DEF SlotsInv

\* The end of a rollback returns the lease it drained, if nobody did before.
LEMMA UndoEndStep ==
    ASSUME IInv, NEW q \in Rids, UndoEnd(q)
    PROVE  SlotsInv' /\ TypeOK' /\ Custodied'
<1> DEFINE old == restoring[q]
           lease == old.lease
           quiet == lease # NoLease /\ Require(lease, {"drained", "logical_flushed"})
<1>1. /\ call = At("freed", q) /\ call' = Idle /\ Committed(lease) /\ Close(q)
      /\ restoring' = [restoring EXCEPT ![q] = NoRecord]
      /\ UNCHANGED <<generation, stage, row, allocated, table, free, present, restores>>
  BY DEF UndoEnd, reqVars
<1>2. Settled(q) /\ RecordExact(q) /\ old # NoRecord /\ old \in Records
  BY <1>1, RollbackHere
<1>3. /\ old.drained /\ old.noted /\ old.fresh /\ old.read /\ ~old.stream
      /\ stage[q] \in {"waiting", "done"} /\ row[q] = 0 /\ allocated[q] = 0
      /\ Len(table[q]) = PagesFor(allocated[q]) /\ lease \in Leases \cup {NoLease}
  <2>1. table[q] = <<>> /\ row[q] = 0 /\ allocated[q] = 0
    BY <1>1, <1>2 DEF RecordExact, Unbacked
  <2>2. Len(table[q]) = PagesFor(allocated[q])
    BY <2>1, PagesForIs, EmptySeq
  <2> QED
    BY <1>1, <1>2, <2>1, <2>2, RecordIs DEF RecordExact
<1>4. /\ SlotsInv' /\ requests' \in [Rows -> Leases \cup {NoLease}]
      /\ \A r \in Rows :
            IF quiet /\ r = lease.req_pool_idx
              THEN active[r] = lease /\ active'[r] = NoLease
                   /\ phases[r] \in {"drained", "logical_flushed"}
              ELSE /\ active'[r] = active[r] /\ phases'[r] = phases[r]
                   /\ requests'[r] = requests[r]
  <2>1. SlotsInv /\ SlotsTypeOK /\ requests \in [Rows -> Leases \cup {NoLease}]
    BY DEF IInv, TypeOK, SlotsInv
  <2>2. CASE quiet
    <3>1. /\ active' = [active EXCEPT ![lease.req_pool_idx] = NoLease]
          /\ phases' = [phases EXCEPT ![lease.req_pool_idx] = "none"]
          /\ free_slots' = [free_slots EXCEPT ![lease.slot] = @ + 1]
          /\ requests' = [requests EXCEPT ![lease.req_pool_idx] = NoLease]
          /\ last_generation' = last_generation /\ prefill_owner' = prefill_owner
      BY <1>1, <2>2 DEF Committed
    <3>2. /\ lease \in Leases /\ lease.req_pool_idx \in Rows
          /\ active[lease.req_pool_idx] = lease
          /\ phases[lease.req_pool_idx] \in {"drained", "logical_flushed"}
      BY <1>3, <2>2, LeaseFields DEF Require
    <3>3. prefill_owner # lease
      BY <2>1, <2>2, <3>2 DEF SlotsInv, LaneExclusive
    <3>4. SlotsInv'
      BY <2>1, <3>1, <3>2, <3>3, ReturnStep
    <3> QED
      BY <2>1, <2>2, <3>1, <3>2, <3>4 DEF SlotsTypeOK
  <2>3. CASE ~quiet
    <3>1. UNCHANGED <<slotVars, requests>>
      BY <1>1, <2>3 DEF Committed
    <3> QED
      BY <2>1, <2>3, <3>1, TableQuiet DEF slotVars
  <2> QED
    BY <2>2, <2>3
<1>5. restoring'[q] = NoRecord /\ \A p \in Rids \ {q} : restoring'[p] = restoring[p]
  BY <1>1 DEF IInv, TypeOK
<1>6. /\ matches' \subseteq Rids /\ IsFiniteSet(matches') /\ q \notin matches'
      /\ readers' = Cardinality(matches')
      /\ \A p \in Rids \ {q} : p \in matches' <=> p \in matches
  BY <1>1, CloseIs
<1>7. TypeOK'
  BY <1>1, <1>4, <1>6 DEF IInv, TypeOK
<1>8. Custodied'
  <2>1. \A p \in Rids \ {q} : Quiet(p)
    BY <1>1, <1>5, <1>6 DEF Quiet
  <2>2. Settled(q)'
    <3>1. \A op : call' # At(op, q)
      BY <1>1, AtIs
    <3> QED
      BY <1>1, <1>3, <3>1 DEF Settled, PagesFor
  <2>3. RecordExact(q)'
    BY <1>5 DEF RecordExact
  <2>4. ASSUME NEW r \in Rows
        PROVE  \/ LeaseKept(r)'
               \/ /\ active'[r] = active[r] /\ phases'[r] = phases[r]
                  /\ requests'[r] = requests[r]
                  /\ active[r] # NoLease => active[r].rid # q
    <3>1. CASE active[r] # NoLease /\ active[r].rid = q
      <4>1. LeaseKept(r) /\ active[r].req_pool_idx = r
        BY <3>1, ActiveHere
      <4>2. lease = active[r] /\ phases[r] \in {"drained", "logical_flushed"}
        BY <1>2, <1>3, <3>1, <4>1 DEF LeaseKept
      <4>3. quiet /\ r = lease.req_pool_idx
        BY <3>1, <4>1, <4>2 DEF Require
      <4> QED
        BY <1>4, <4>3 DEF LeaseKept
    <3>2. CASE ~(active[r] # NoLease /\ active[r].rid = q)
      BY <1>4, <3>2 DEF LeaseKept
    <3> QED
      BY <3>1, <3>2, Zenon
  <2>5. ASSUME NEW other \in restores'
        PROVE  /\ other \in restores /\ other.rid # q
               /\ active'[other.req_pool_idx] = active[other.req_pool_idx]
               /\ phases'[other.req_pool_idx] = phases[other.req_pool_idx]
    <3>1. /\ RestoreKept(other) /\ other \in restores /\ other.req_pool_idx \in Rows
          /\ phases[other.req_pool_idx] = "prefill"
      BY <1>1, RestoreHere DEF RestoreKept, Require
    <3>2. other.rid # q
      BY <1>2, <1>3, <3>1 DEF RestoreKept
    <3>3. ~(quiet /\ other.req_pool_idx = lease.req_pool_idx)
      BY <1>4, <3>1
    <3> QED
      BY <1>4, <3>1, <3>2, <3>3
  <2> QED
    BY <1>1, <1>6, <2>1, <2>2, <2>3, <2>4, <2>5, Frame
<1> QED
  BY <1>4, <1>7, <1>8

----------------------------------------------------------------------------
(* The forward and the release.                                            *)

\* A cold start takes its lease in the request's row.
LEMMA ForwardStep ==
    ASSUME IInv, NEW q \in Rids, Forward(q)
    PROVE  SlotsInv' /\ TypeOK' /\ Custodied'
<1> DEFINE r == row[q]
           new == prefill_owner'
<1>1. /\ call = At("forward", q) /\ call' = Idle
      /\ \/ requests[r] # NoLease /\ UNCHANGED <<slotVars, requests>>
         \/ /\ requests[r] = NoLease /\ Acquire(r, generation[r], q)
            /\ requests' = [requests EXCEPT ![r] = new]
      /\ UNCHANGED <<generation, stage, row, allocated, table, free, readers, matches, restoring,
                     restores>>
  BY DEF Forward, reqVars
<1>2. Settled(q) /\ restoring[q] = NoRecord /\ stage[q] = "prefill" /\ r \in Rows
  BY <1>1, Here DEF Settled
<1>3. \A op, p : call' # At(op, p)
  BY <1>1, AtIs
<1>4. Settled(q)' /\ RecordExact(q)' /\ \A p \in Rids : Quiet(p)
  BY <1>1, <1>2, <1>3 DEF Settled, RecordExact, Quiet, PagesFor
<1>5. CASE UNCHANGED <<slotVars, requests>>
  <2>1. SlotsInv'
    BY <1>5, TableQuiet DEF IInv
  <2>2. TypeOK'
    BY <1>1, <1>5 DEF IInv, TypeOK
  <2>3. ASSUME NEW s \in Rows PROVE LeaseKept(s)'
    <3> SUFFICES ASSUME active[s] # NoLease PROVE LeaseKept(s)'
      BY <1>5 DEF LeaseKept, slotVars
    <3>1. LeaseKept(s)
      BY ActiveHere
    <3> QED
      BY <1>1, <1>3, <1>5, <3>1 DEF LeaseKept, slotVars
  <2>4. ASSUME NEW lease \in restores' PROVE RestoreKept(lease)'
    <3>1. RestoreKept(lease)
      BY <1>1, RestoreHere
    <3> QED
      BY <1>1, <1>5, <3>1 DEF RestoreKept, Require, slotVars
  <2>5. Custodied'
    BY <1>1, <1>4, <2>3, <2>4, Here, Frame
  <2> QED
    BY <2>1, <2>2, <2>5
<1>6. CASE Acquire(r, generation[r], q) /\ requests' = [requests EXCEPT ![r] = new]
  <2>1. /\ SlotsInv' /\ active[r] = NoLease
        /\ new \in Leases /\ new.rid = q /\ new.req_pool_idx = r /\ new # NoLease
        /\ active'[r] = new /\ phases'[r] = "prefill"
        /\ \A s \in Rows \ {r} : active'[s] = active[s] /\ phases'[s] = phases[s]
    BY <1>2, <1>6, AcquireIs
  <2> HIDE DEF new
  <2>2. /\ requests' \in [Rows -> Leases \cup {NoLease}] /\ requests'[r] = new
        /\ \A s \in Rows \ {r} : requests'[s] = requests[s]
    BY <1>2, <1>6, <2>1 DEF IInv, TypeOK
  <2>3. TypeOK'
    BY <1>1, <2>2 DEF IInv, TypeOK
  <2>4. ASSUME NEW s \in Rows
        PROVE  \/ LeaseKept(s)'
               \/ /\ active'[s] = active[s] /\ phases'[s] = phases[s]
                  /\ requests'[s] = requests[s]
                  /\ active[s] # NoLease => active[s].rid # q
    <3>1. CASE s = r
      BY <1>1, <1>2, <2>1, <2>2, <3>1 DEF LeaseKept
    <3>2. CASE s # r
      <4>1. active[s] # NoLease => active[s].rid # q
        BY <1>2, <3>2, ActiveHere DEF LeaseKept
      <4> QED
        BY <2>1, <2>2, <3>2, <4>1
    <3> QED
      BY <3>1, <3>2
  <2>5. ASSUME NEW lease \in restores'
        PROVE  /\ lease \in restores /\ lease.rid # q
               /\ active'[lease.req_pool_idx] = active[lease.req_pool_idx]
               /\ phases'[lease.req_pool_idx] = phases[lease.req_pool_idx]
    <3>1. /\ active[lease.req_pool_idx] = lease /\ lease # NoLease /\ lease \in restores
          /\ row[lease.rid] = lease.req_pool_idx /\ lease.req_pool_idx \in Rows
      BY <1>1, RestoreHere DEF RestoreKept, Require
    <3>2. lease.req_pool_idx # r
      BY <2>1, <3>1
    <3> QED
      BY <2>1, <3>1, <3>2
  <2>6. Custodied'
    BY <1>1, <1>4, <2>4, <2>5, Here, Frame
  <2> QED
    BY <2>1, <2>3, <2>6
<1> QED
  BY <1>1, <1>5, <1>6

\* A forward that finds another's lease in the row has none of its own.
LEMMA ForwardRaisesStep ==
    ASSUME IInv, NEW q \in Rids, ForwardRaises(q)
    PROVE  SlotsInv' /\ TypeOK' /\ Custodied'
<1>1. /\ call = At("forward", q) /\ call' = Idle /\ active[row[q]].rid # q
      /\ stage' = [stage EXCEPT ![q] = "lost"]
      /\ UNCHANGED <<slotVars, generation, row, allocated, table, free, requests, present, readers,
                     matches, restoring, restores>>
  BY DEF ForwardRaises, hostVars
<1>2. Settled(q) /\ restoring[q] = NoRecord /\ stage[q] = "prefill"
  BY <1>1, Here DEF Settled
<1>3. stage'[q] = "lost" /\ \A p \in Rids \ {q} : stage'[p] = stage[p]
  BY <1>1 DEF IInv, TypeOK
<1>4. SlotsInv'
  BY <1>1, TableQuiet DEF IInv
<1>5. TypeOK'
  BY <1>1 DEF IInv, TypeOK
<1>6. Custodied'
  <2>1. \A p \in Rids \ {q} : Quiet(p)
    BY <1>1, <1>3 DEF Quiet
  <2>2. \A op, p : call' # At(op, p)
    BY <1>1, AtIs
  <2>3. Settled(q)' /\ RecordExact(q)'
    BY <1>1, <1>2, <1>3, <2>2 DEF Settled, RecordExact, PagesFor
  <2>4. ASSUME NEW s \in Rows, active[s] # NoLease PROVE active[s].rid # q
    <3>1. LeaseKept(s)
      BY <2>4, ActiveHere
    <3> QED
      BY <1>1, <1>2, <2>4, <3>1 DEF LeaseKept
  <2>5. ASSUME NEW lease \in restores PROVE lease.rid # q
    <3>1. /\ active[lease.req_pool_idx] = lease /\ lease # NoLease /\ lease.req_pool_idx \in Rows
      BY RestoreHere DEF RestoreKept, Require
    <3> QED
      BY <2>4, <3>1
  <2> QED
    BY <1>1, <2>1, <2>3, <2>4, <2>5, Here, Frame DEF slotVars
<1> QED
  BY <1>4, <1>5, <1>6

\* A release returns the lease of the request's row, which is the request's.
LEMMA ReleaseStep ==
    ASSUME IInv, NEW q \in Rids, Release(q)
    PROVE  SlotsInv' /\ TypeOK' /\ Custodied'
<1> DEFINE r == row[q]
           lease == requests[r]
<1>1. /\ call = Idle /\ call' = Idle /\ stage[q] = "prefill" /\ restoring[q] = NoRecord
      /\ lease # NoLease /\ lease \notin restores
      /\ active' = [active EXCEPT ![r] = NoLease]
      /\ phases' = [phases EXCEPT ![r] = "none"]
      /\ free_slots' = [free_slots EXCEPT ![lease.slot] = @ + 1]
      /\ prefill_owner' = IF prefill_owner = lease THEN NoLease ELSE prefill_owner
      /\ requests' = [requests EXCEPT ![r] = NoLease]
      /\ stage' = [stage EXCEPT ![q] = "done"] /\ row' = [row EXCEPT ![q] = 0]
      /\ table' = [table EXCEPT ![q] = <<>>] /\ allocated' = [allocated EXCEPT ![q] = 0]
      /\ Close(q)
      /\ UNCHANGED <<last_generation, generation, present, restoring, restores>>
  BY DEF Release
<1>2. Settled(q) /\ r \in Rows
  BY <1>1, Here DEF Settled
<1>3. active[r] = lease /\ lease \in Leases /\ lease.req_pool_idx = r
  BY <1>1, <1>2, ActiveHere DEF IInv, Cached
<1>4. SlotsInv'
  BY <1>1, <1>2, <1>3, ReturnStep DEF IInv
<1>5. /\ active'[r] = NoLease
      /\ \A s \in Rows \ {r} : active'[s] = active[s] /\ phases'[s] = phases[s]
                               /\ requests'[s] = requests[s]
  BY <1>1, <1>2 DEF IInv, TypeOK, SlotsInv, SlotsTypeOK
<1>6. /\ stage'[q] = "done" /\ row'[q] = 0 /\ table'[q] = <<>> /\ allocated'[q] = 0
      /\ \A p \in Rids \ {q} : /\ stage'[p] = stage[p] /\ row'[p] = row[p]
                               /\ table'[p] = table[p] /\ allocated'[p] = allocated[p]
  BY <1>1 DEF IInv, TypeOK
<1>7. /\ matches' \subseteq Rids /\ IsFiniteSet(matches') /\ q \notin matches'
      /\ readers' = Cardinality(matches')
      /\ \A p \in Rids \ {q} : p \in matches' <=> p \in matches
  BY <1>1, CloseIs
<1>8. TypeOK'
  BY <1>1, <1>2, <1>7, EmptySeq DEF IInv, TypeOK
<1>9. Custodied'
  <2>1. \A p \in Rids \ {q} : Quiet(p)
    BY <1>1, <1>6, <1>7 DEF Quiet
  <2>2. \A op, p : call' # At(op, p)
    BY <1>1, AtIs
  <2>3. Settled(q)'
    <3>1. PagesFor(allocated[q])' = PagesFor(0)
      BY <1>6 DEF PagesFor
    <3>2. Len(table[q])' = PagesFor(allocated[q])'
      BY <1>6, <3>1, PagesForIs, EmptySeq
    <3> QED
      BY <1>6, <2>2, <3>2 DEF Settled
  <2>4. RecordExact(q)'
    BY <1>1 DEF RecordExact
  <2>5. ASSUME NEW s \in Rows
        PROVE  \/ LeaseKept(s)'
               \/ /\ active'[s] = active[s] /\ phases'[s] = phases[s]
                  /\ requests'[s] = requests[s]
                  /\ active[s] # NoLease => active[s].rid # q
    <3>1. CASE s = r
      BY <1>5, <3>1 DEF LeaseKept
    <3>2. CASE s # r
      <4>1. active[s] # NoLease => active[s].rid # q
        BY <1>1, <3>2, ActiveHere DEF LeaseKept
      <4> QED
        BY <1>5, <3>2, <4>1
    <3> QED
      BY <3>1, <3>2
  <2>6. ASSUME NEW other \in restores'
        PROVE  /\ other \in restores /\ other.rid # q
               /\ active'[other.req_pool_idx] = active[other.req_pool_idx]
               /\ phases'[other.req_pool_idx] = phases[other.req_pool_idx]
    <3>1. /\ active[other.req_pool_idx] = other /\ other \in restores
          /\ row[other.rid] = other.req_pool_idx /\ other.req_pool_idx \in Rows
      BY <1>1, RestoreHere DEF RestoreKept, Require
    <3>2. other.req_pool_idx # r
      BY <1>1, <1>3, <3>1
    <3> QED
      BY <1>5, <3>1, <3>2
  <2> QED
    BY <1>1, <1>6, <1>7, <2>1, <2>3, <2>4, <2>5, <2>6, Frame
<1> QED
  BY <1>4, <1>8, <1>9

\* The device ends a restore, and nothing else.
LEMMA RestoredStep ==
    ASSUME IInv, NEW lease \in restores, Restored(lease)
    PROVE  SlotsInv' /\ TypeOK' /\ Custodied'
<1>1. /\ restores' = restores \ {lease}
      /\ UNCHANGED <<slotVars, generation, stage, row, allocated, table, free, requests, present,
                     readers, matches, restoring, call>>
  BY DEF Restored, reqVars, hostVars
<1>2. SlotsInv'
  BY <1>1, TableQuiet DEF IInv
<1>3. TypeOK'
  BY <1>1 DEF IInv, TypeOK
<1>4. Custodied'
  <2>1. ASSUME NEW q \in Rids PROVE Settled(q)' /\ RecordExact(q)'
    <3>1. Settled(q) /\ RecordExact(q)
      BY Here
    <3>2. Suffix(q)' = Suffix(q) /\ PagesFor(allocated[q])' = PagesFor(allocated[q])
      BY <1>1 DEF Suffix, PagesFor
    <3> QED
      BY <1>1, <3>1, <3>2 DEF Settled, RecordExact, Unbacked
  <2>2. \A r \in Rows : LeaseKept(r)'
    BY <1>1 DEF IInv, Custodied, LeaseKept, slotVars
  <2>3. \A other \in restores' : RestoreKept(other)'
    BY <1>1 DEF IInv, Custodied, RestoreKept, Require, slotVars
  <2>4. RowsApart' /\ readers' = Cardinality(matches')
    BY <1>1 DEF IInv, Custodied, RowsApart
  <2> QED
    BY <2>1, <2>2, <2>3, <2>4 DEF Custodied
<1> QED
  BY <1>2, <1>3, <1>4

----------------------------------------------------------------------------
(* The pages.                                                              *)

\* The pages of a sequence, and how often an injective one has a page.
LEMMA RangeIs ==
    ASSUME NEW pages \in Seq(Pages)
    PROVE  /\ ToSet(pages) = {pages[i] : i \in 1..Len(pages)}
           /\ ToSet(<<>>) = {} /\ IsInjective(<<>>)
           /\ IsInjective(pages) => \A p : Cardinality({i \in DOMAIN pages : pages[i] = p})
                                              = IF p \in ToSet(pages) THEN 1 ELSE 0
<1>1. DOMAIN pages = 1..Len(pages)
  BY LenProperties
<1>2. ASSUME IsInjective(pages), NEW p
      PROVE  Cardinality({i \in DOMAIN pages : pages[i] = p}) = IF p \in ToSet(pages) THEN 1 ELSE 0
  <2>1. CASE p \in ToSet(pages)
    <3>1. PICK i \in DOMAIN pages : pages[i] = p
      BY <2>1 DEF ToSet
    <3>2. {j \in DOMAIN pages : pages[j] = p} = {i}
      BY <1>2, <3>1 DEF IsInjective
    <3> QED
      BY <2>1, <3>2, FS_Singleton
  <2>2. CASE p \notin ToSet(pages)
    <3>1. {j \in DOMAIN pages : pages[j] = p} = {}
      BY <2>2 DEF ToSet
    <3> QED
      BY <2>2, <3>1, FS_EmptySet
  <2> QED
    BY <2>1, <2>2
<1>3. ToSet(<<>>) = {} /\ IsInjective(<<>>)
  BY DEF ToSet, IsInjective
<1> QED
  BY <1>1, <1>2, <1>3 DEF ToSet

\* What is known of the pages.
LEMMA PagesHere ==
    ASSUME IInv
    PROVE  /\ \A q \in Rids : IsInjective(table[q]) /\ PagesHeld(q) \subseteq Pages
           /\ \A q \in Rids : restoring[q] # NoRecord => IsInjective(restoring[q].prefix)
           /\ \A p, q \in Rids : p # q => PagesHeld(p) \cap PagesHeld(q) = {}
           /\ free = [x \in Pages |-> IF \E q \in Rids : x \in PagesHeld(q) THEN 0 ELSE 1]
           /\ FreePages = {x \in Pages : \A q \in Rids : x \notin PagesHeld(q)}
<1>1. PagesApart
  BY DEF IInv
<1>2. ASSUME NEW q \in Rids PROVE PagesHeld(q) \subseteq Pages
  <2>1. table[q] \in Seq(Pages) /\ ToSet(table[q]) \subseteq Pages
    BY Here, RangeIs, ElementOfSeq
  <2>2. CASE restoring[q] # NoRecord
    <3>1. restoring[q].prefix \in Seq(Pages) /\ restoring[q].suffix \in Seq(Pages)
      BY <2>2, Here, RecordIs
    <3>2. ToSet(restoring[q].prefix) \subseteq Pages /\ ToSet(restoring[q].suffix) \subseteq Pages
      BY <3>1, RangeIs, ElementOfSeq
    <3> QED
      BY <2>1, <3>2 DEF PagesHeld
  <2>3. CASE restoring[q] = NoRecord
    BY <2>1, <2>3 DEF PagesHeld
  <2> QED
    BY <2>2, <2>3
<1>3. free = [x \in Pages |-> IF \E q \in Rids : x \in PagesHeld(q) THEN 0 ELSE 1]
  BY <1>1 DEF PagesApart
<1>4. FreePages = {x \in Pages : \A q \in Rids : x \notin PagesHeld(q)}
  BY <1>3 DEF FreePages
<1> QED
  BY <1>1, <1>2, <1>3, <1>4 DEF PagesApart

\* A step for q leaves the pages of the others.
Others(q) ==
    \A p \in Rids \ {q} : table'[p] = table[p] /\ restoring'[p] = restoring[p]

LEMMA OthersHold ==
    ASSUME NEW q \in Rids, Others(q)
    PROVE  \A p \in Rids \ {q} : PagesHeld(p)' = PagesHeld(p)
BY DEF Others, PagesHeld

\* Nothing is allocated or freed, and the request holds the same pages.
LEMMA PagesStay ==
    ASSUME IInv, NEW q \in Rids, Others(q), UNCHANGED <<free, table>>,
           PagesHeld(q)' = PagesHeld(q),
           restoring'[q] # NoRecord => IsInjective(restoring'[q].prefix)
    PROVE  PagesApart'
BY PagesHere, OthersHold DEF PagesApart, Others

\* What is allocated to the request was free.
LEMMA TakeKeeps ==
    ASSUME IInv, NEW q \in Rids, Others(q), NEW pages \in Seq(Pages),
           ToSet(pages) \subseteq FreePages, TakePages(pages),
           PagesHeld(q)' = PagesHeld(q) \cup ToSet(pages),
           IsInjective(table'[q]),
           restoring'[q] # NoRecord => IsInjective(restoring'[q].prefix)
    PROVE  PagesApart' /\ FreePages' = FreePages \ ToSet(pages)
<1> DEFINE taken == ToSet(pages)
<1>1. /\ \A p \in Rids : IsInjective(table[p]) /\ PagesHeld(p) \subseteq Pages
      /\ \A p \in Rids : restoring[p] # NoRecord => IsInjective(restoring[p].prefix)
      /\ \A p, r \in Rids : p # r => PagesHeld(p) \cap PagesHeld(r) = {}
      /\ free = [x \in Pages |-> IF \E p \in Rids : x \in PagesHeld(p) THEN 0 ELSE 1]
      /\ FreePages = {x \in Pages : \A p \in Rids : x \notin PagesHeld(p)}
  BY PagesHere
<1>2. \A p \in Rids \ {q} : PagesHeld(p)' = PagesHeld(p)
  BY OthersHold
<1>3. \A x : Contains(pages, x) <=> x \in taken
  BY RangeIs DEF Contains
<1>4. free' = [x \in Pages |-> IF x \in taken THEN free[x] - 1 ELSE free[x]]
  BY <1>3 DEF TakePages
<1> HIDE DEF taken
<1>5. free' = [x \in Pages |-> IF \E p \in Rids : x \in PagesHeld(p)' THEN 0 ELSE 1]
  <2>1. ASSUME NEW x \in Pages
        PROVE  (IF x \in taken THEN free[x] - 1 ELSE free[x])
                  = IF \E p \in Rids : x \in PagesHeld(p)' THEN 0 ELSE 1
    <3>1. free[x] = IF \E p \in Rids : x \in PagesHeld(p) THEN 0 ELSE 1
      BY <1>1
    <3>2. (\E p \in Rids : x \in PagesHeld(p)') <=> (x \in taken \/ \E p \in Rids : x \in PagesHeld(p))
      BY <1>2 DEF taken
    <3>3. x \in taken => ~\E p \in Rids : x \in PagesHeld(p)
      BY <1>1 DEF taken
    <3> QED
      BY <3>1, <3>2, <3>3
  <2> QED
    BY <1>4, <2>1
<1>6. \A p, r \in Rids : p # r => PagesHeld(p)' \cap PagesHeld(r)' = {}
  BY <1>1, <1>2 DEF taken
<1>7. FreePages' = FreePages \ taken
  <2>1. FreePages' = {x \in Pages : \A p \in Rids : x \notin PagesHeld(p)'}
    BY <1>5 DEF FreePages
  <2> QED
    BY <1>1, <1>2, <2>1 DEF taken
<1>8. PagesApart'
  BY <1>1, <1>5, <1>6 DEF PagesApart, Others
<1> QED
  BY <1>7, <1>8 DEF taken

\* What the request frees it held, each page once.
LEMMA FreeKeeps ==
    ASSUME IInv, NEW q \in Rids, Others(q), NEW pages \in Seq(Pages),
           IsInjective(pages), ToSet(pages) \subseteq PagesHeld(q), FreeAll(pages),
           PagesHeld(q)' = PagesHeld(q) \ ToSet(pages),
           IsInjective(table'[q]),
           restoring'[q] # NoRecord => IsInjective(restoring'[q].prefix)
    PROVE  PagesApart'
<1> DEFINE given == ToSet(pages)
<1>1. /\ \A p \in Rids : IsInjective(table[p]) /\ PagesHeld(p) \subseteq Pages
      /\ \A p \in Rids : restoring[p] # NoRecord => IsInjective(restoring[p].prefix)
      /\ \A p, r \in Rids : p # r => PagesHeld(p) \cap PagesHeld(r) = {}
      /\ free = [x \in Pages |-> IF \E p \in Rids : x \in PagesHeld(p) THEN 0 ELSE 1]
  BY PagesHere
<1>2. \A p \in Rids \ {q} : PagesHeld(p)' = PagesHeld(p)
  BY OthersHold
<1>3. free' = [x \in Pages |-> free[x] + (IF x \in given THEN 1 ELSE 0)]
  <2>1. \A x : Cardinality({i \in DOMAIN pages : pages[i] = x}) = IF x \in given THEN 1 ELSE 0
    BY RangeIs
  <2> QED
    BY <2>1 DEF FreeAll
<1> HIDE DEF given
<1>4. free' = [x \in Pages |-> IF \E p \in Rids : x \in PagesHeld(p)' THEN 0 ELSE 1]
  <2>1. ASSUME NEW x \in Pages
        PROVE  free[x] + (IF x \in given THEN 1 ELSE 0)
                  = IF \E p \in Rids : x \in PagesHeld(p)' THEN 0 ELSE 1
    <3>1. free[x] = IF \E p \in Rids : x \in PagesHeld(p) THEN 0 ELSE 1
      BY <1>1
    <3>2. CASE x \in given
      <4>1. x \in PagesHeld(q) /\ \A p \in Rids \ {q} : x \notin PagesHeld(p)
        BY <1>1, <3>2 DEF given
      <4>2. ~\E p \in Rids : x \in PagesHeld(p)'
        BY <1>2, <3>2, <4>1 DEF given
      <4> QED
        BY <3>1, <3>2, <4>1, <4>2
    <3>3. CASE x \notin given
      <4>1. (\E p \in Rids : x \in PagesHeld(p)') <=> (\E p \in Rids : x \in PagesHeld(p))
        BY <1>2, <3>3 DEF given
      <4> QED
        BY <3>1, <3>3, <4>1
    <3> QED
      BY <3>2, <3>3
  <2> QED
    BY <1>3, <2>1
<1>5. \A p, r \in Rids : p # r => PagesHeld(p)' \cap PagesHeld(r)' = {}
  BY <1>1, <1>2
<1> QED
  BY <1>1, <1>4, <1>5 DEF PagesApart, Others

\* A sequence of different pages, cut in two.
LEMMA CutIs ==
    ASSUME NEW s \in Seq(Pages), IsInjective(s), NEW k \in Nat
    PROVE  /\ SubSeq(s, k + 1, Len(s)) \in Seq(Pages)
           /\ ToSet(SubSeq(s, k + 1, Len(s))) \subseteq ToSet(s)
           /\ IsInjective(SubSeq(s, k + 1, Len(s)))
           /\ k <= Len(s) =>
                 /\ Len(SubSeq(s, k + 1, Len(s))) = Len(s) - k
                 /\ \A i \in 1..(Len(s) - k) : SubSeq(s, k + 1, Len(s))[i] = s[k + i]
                 /\ SubSeq(s, 1, k) \in Seq(Pages) /\ IsInjective(SubSeq(s, 1, k))
                 /\ ToSet(SubSeq(s, 1, k)) = ToSet(s) \ ToSet(SubSeq(s, k + 1, Len(s)))
<1> DEFINE n == Len(s)
           rest == SubSeq(s, k + 1, n)
           first == SubSeq(s, 1, k)
<1>1. n \in Nat /\ \A i \in 1..n : s[i] \in Pages
  BY LenProperties, ElementOfSeq
<1>2. \A i, j \in 1..n : s[i] = s[j] => i = j
  BY LenProperties DEF IsInjective
<1> HIDE DEF n
<1>3. /\ rest \in Seq(Pages) /\ Len(rest) = IF k + 1 <= n THEN n - k ELSE 0
      /\ \A i \in 1..(n - k) : rest[i] = s[k + i]
  <2>1. \A i \in (k + 1)..n : s[i] \in Pages
    BY <1>1
  <2>2. /\ rest \in Seq(Pages)
        /\ Len(rest) = IF k + 1 <= n THEN n - (k + 1) + 1 ELSE 0
        /\ \A i \in 1..(n - (k + 1) + 1) : rest[i] = s[(k + 1) + i - 1]
    BY <1>1, <2>1, SubSeqProperties
  <2>3. n - (k + 1) + 1 = n - k /\ \A i \in Int : (k + 1) + i - 1 = k + i
    BY <1>1
  <2>4. ASSUME NEW i \in 1..(n - k) PROVE rest[i] = s[k + i]
    <3>1. rest[i] = s[(k + 1) + i - 1]
      BY <1>1, <2>2, <2>3
    <3>2. (k + 1) + i - 1 = k + i
      BY <1>1
    <3> QED
      BY <3>1, <3>2
  <2> QED
    BY <2>2, <2>3, <2>4
<1>4. ToSet(rest) = {rest[i] : i \in 1..Len(rest)} /\ ToSet(s) = {s[i] : i \in 1..n}
      /\ DOMAIN rest = 1..Len(rest)
  BY <1>3, RangeIs, LenProperties DEF n
<1> HIDE DEF rest
<1>5. ToSet(rest) \subseteq ToSet(s)
  <2>1. ASSUME NEW i \in 1..Len(rest) PROVE rest[i] = s[k + i] /\ k + i \in 1..n
    BY <1>1, <1>3
  <2> QED
    BY <1>4, <2>1
<1>6. IsInjective(rest)
  <2>1. ASSUME NEW i \in 1..Len(rest), NEW j \in 1..Len(rest), rest[i] = rest[j] PROVE i = j
    <3>1. s[k + i] = s[k + j] /\ k + i \in 1..n /\ k + j \in 1..n
      BY <1>1, <1>3, <2>1
    <3>2. k + i = k + j
      BY <1>2, <3>1
    <3> QED
      BY <3>2
  <2> QED
    BY <1>4, <2>1 DEF IsInjective
<1>7. ASSUME k <= n
      PROVE  /\ Len(rest) = n - k
             /\ first \in Seq(Pages) /\ IsInjective(first)
             /\ ToSet(first) = ToSet(s) \ ToSet(rest)
  <2>1. Len(rest) = n - k
    BY <1>1, <1>3, <1>7
  <2>2. first \in Seq(Pages) /\ Len(first) = k /\ \A i \in 1..k : first[i] = s[i]
    <3>1. \A i \in 1..k : s[i] \in Pages
      BY <1>1, <1>7
    <3>2. /\ first \in Seq(Pages) /\ Len(first) = IF 1 <= k THEN k - 1 + 1 ELSE 0
          /\ \A i \in 1..(k - 1 + 1) : first[i] = s[1 + i - 1]
      BY <3>1, SubSeqProperties
    <3>3. k - 1 + 1 = k /\ \A i \in Int : 1 + i - 1 = i
      OBVIOUS
    <3> HIDE DEF first
    <3> QED
      BY <3>2, <3>3
  <2>3. ToSet(first) = {first[i] : i \in 1..k} /\ DOMAIN first = 1..k
    BY <2>2, RangeIs, LenProperties
  <2> HIDE DEF first
  <2>4. ToSet(first) = {s[i] : i \in 1..k}
    BY <2>2, <2>3
  <2>5. ToSet(rest) = {s[i] : i \in (k + 1)..n}
    <3>1. \A i \in 1..(n - k) : k + i \in (k + 1)..n
      BY <1>1
    <3>2. \A j \in (k + 1)..n : j - k \in 1..(n - k) /\ k + (j - k) = j
      BY <1>1
    <3>3. ToSet(rest) = {s[k + i] : i \in 1..(n - k)}
      BY <1>3, <1>4, <2>1
    <3> QED
      BY <3>1, <3>2, <3>3
  <2>6. ToSet(first) = ToSet(s) \ ToSet(rest)
    <3>1. \A i \in 1..n : i \in 1..k \/ i \in (k + 1)..n
      BY <1>1
    <3>2. \A i \in 1..k : i \in 1..n /\ i \notin (k + 1)..n
      BY <1>1, <1>7
    <3>3. \A i \in (k + 1)..n : i \in 1..n
      BY <1>1
    <3>4. ASSUME NEW x \in ToSet(s), x \notin ToSet(rest) PROVE x \in ToSet(first)
      BY <1>4, <2>4, <2>5, <3>1, <3>4
    <3>5. ASSUME NEW x \in ToSet(first) PROVE x \in ToSet(s) /\ x \notin ToSet(rest)
      <4>1. PICK i \in 1..k : x = s[i]
        BY <2>4
      <4>2. i \in 1..n /\ \A j \in (k + 1)..n : j # i
        BY <3>2
      <4> QED
        BY <1>2, <1>4, <2>5, <3>3, <4>1, <4>2
    <3> QED
      BY <3>4, <3>5
  <2>7. IsInjective(first)
    BY <1>1, <1>2, <1>7, <2>2, <2>3 DEF IsInjective
  <2> QED
    BY <2>1, <2>2, <2>6, <2>7
<1> QED
  BY <1>3, <1>5, <1>6, <1>7 DEF n, rest

\* A record's suffix is of pages in the row, and so is its prefix once they
\* are written there.
LEMMA RecordHolds ==
    ASSUME IInv, NEW q \in Rids, restoring[q] # NoRecord
    PROVE  /\ ToSet(Suffix(q)) \subseteq ToSet(table[q])
           /\ ToSet(restoring[q].suffix) \subseteq ToSet(table[q])
           /\ restoring[q].reader /\ allocated[q] # 0 =>
                 ToSet(restoring[q].prefix) \subseteq ToSet(table[q])
<1> DEFINE record == restoring[q]
<1>1. /\ RecordExact(q) /\ record \in Records /\ table[q] \in Seq(Pages)
      /\ IsInjective(table[q])
      /\ record.prefix # <<>> => Len(table[q]) = PagesFor(allocated[q])
      /\ record.previous \in Nat /\ record.prefix \in Seq(Pages) /\ allocated[q] \in Nat
  BY Here, PagesHere, RecordIs DEF RecordExact, Unbacked
<1>2. ToSet(<<>>) = {}
  BY <1>1, RangeIs
<1>3. ToSet(Suffix(q)) \subseteq ToSet(table[q])
  <2>1. \A start \in Nat : start \div PageTokens \in Nat
    BY PagesAssumption
  <2>2. \A start \in Nat :
           ToSet(SubSeq(table[q], start \div PageTokens + 1, Len(table[q]))) \subseteq ToSet(table[q])
    BY <1>1, <2>1, CutIs
  <2>3. Hit \in Nat
    BY PagesForIs
  <2> QED
    BY <1>1, <1>2, <2>2, <2>3 DEF Suffix
<1>4. record.suffix \in {Suffix(q), <<>>}
  BY <1>1 DEF RecordExact
<1>5. ASSUME record.reader, allocated[q] # 0 PROVE ToSet(record.prefix) \subseteq ToSet(table[q])
  <2>1. \A i \in 1..Len(record.prefix) : table[q][i] = record.prefix[i]
    BY <1>1, <1>5 DEF RecordExact
  <2>2. Len(record.prefix) <= Len(table[q]) /\ Len(record.prefix) \in Nat /\ Len(table[q]) \in Nat
    <3>1. Len(record.prefix) \in Nat /\ Len(table[q]) \in Nat
      BY <1>1, LenProperties
    <3>2. CASE record.prefix = <<>>
      BY <3>1, <3>2, EmptySeq
    <3>3. CASE record.prefix # <<>>
      <4>1. /\ Len(record.prefix) = PagesFor(Hit) /\ record.length > Hit
            /\ record.length = allocated[q]
        <5>1. Len(record.prefix) = Hit \div PageTokens /\ record.length > Hit
              /\ record.previous = 0
          BY <1>1, <3>3 DEF RecordExact
        <5> QED
          BY <1>1, <1>5, <5>1, PagesForIs DEF RecordExact
      <4>2. Hit <= allocated[q] /\ Hit \in Nat
        BY <1>1, <4>1, PagesForIs
      <4>3. PagesFor(Hit) <= PagesFor(allocated[q])
        BY <1>1, <4>2, PagesForGrows
      <4> QED
        BY <1>1, <3>1, <3>3, <4>1, <4>3
    <3> QED
      BY <3>2, <3>3
  <2>3. \A i \in 1..Len(record.prefix) : i \in 1..Len(table[q])
    BY <2>2
  <2>4. /\ ToSet(record.prefix) = {record.prefix[i] : i \in 1..Len(record.prefix)}
        /\ ToSet(table[q]) = {table[q][i] : i \in 1..Len(table[q])}
    BY <1>1, RangeIs
  <2> QED
    BY <2>1, <2>3, <2>4
<1> QED
  BY <1>2, <1>3, <1>4, <1>5

\* A step that keeps the prefix of the record, or drops the record of pages
\* that are all in the row, keeps the pages.
LEMMA PagesKept ==
    ASSUME IInv, NEW q \in Rids, Others(q), UNCHANGED <<free, table>>, restoring[q] # NoRecord,
           \/ /\ restoring'[q] # NoRecord /\ restoring'[q].prefix = restoring[q].prefix
              /\ ToSet(restoring'[q].suffix) \subseteq ToSet(table[q])
           \/ restoring'[q] = NoRecord /\ ToSet(restoring[q].prefix) \subseteq ToSet(table[q])
    PROVE  PagesApart'
<1>1. PagesHeld(q) = ToSet(table[q]) \cup ToSet(restoring[q].prefix)
  BY RecordHolds DEF PagesHeld
<1>2. PagesHeld(q)' = PagesHeld(q)
  BY <1>1 DEF PagesHeld
<1> QED
  BY <1>2, PagesHere, PagesStay

\* The steps that neither take pages nor free any.
LEMMA PagesQuietly ==
    ASSUME IInv, NEW q \in Rids,
           \/ \E length \in Ends : Prepare(q, length)
           \/ HandMiss(q) \/ RestoreDone(q) \/ Sync(q) \/ UndoDrain(q) \/ UndoEnd(q)
           \/ \E cached \in BOOLEAN : Restore(q, cached)
           \/ UndoRaises(q) \/ DrainFails(q)
    PROVE  PagesApart'
<1>1. restoring \in [Rids -> Records \cup {NoRecord}]
  BY DEF IInv, TypeOK
<1>2. ToSet(<<>>) = {} /\ IsInjective(<<>>) /\ <<>> \in Seq(Pages)
  BY EmptySeq, RangeIs
<1>3. ASSUME NEW length \in Ends, Prepare(q, length) PROVE PagesApart'
  <2>1. /\ UNCHANGED <<free, table>> /\ restoring[q] = NoRecord
        /\ restoring' = [restoring EXCEPT ![q] =
              [reader |-> q \in matches, fresh |-> allocated[q] = 0, previous |-> allocated[q],
               length |-> length, prefix |-> <<>>, suffix |-> <<>>, read |-> FALSE,
               stream |-> FALSE, noted |-> FALSE, lease |-> NoLease, drained |-> FALSE]]
    BY <1>3 DEF Prepare, reqVars
  <2>2. Others(q) /\ restoring'[q].prefix = <<>> /\ restoring'[q].suffix = <<>>
    BY <1>1, <2>1 DEF Others
  <2>3. PagesHeld(q)' = PagesHeld(q)
    BY <1>2, <2>1, <2>2 DEF PagesHeld
  <2> QED
    BY <1>2, <2>1, <2>2, <2>3, PagesStay
<1>4. CASE HandMiss(q)
  <2>1. Written(q) /\ ~restoring[q].reader /\ UNCHANGED <<free, table>>
        /\ restoring' = [restoring EXCEPT ![q] = NoRecord]
    BY <1>4 DEF HandMiss
  <2>2. Others(q) /\ restoring'[q] = NoRecord /\ restoring[q] # NoRecord /\ RecordExact(q)
    BY <1>1, <2>1, WrittenHere, RecordIs, Here DEF Others
  <2>3. restoring[q].prefix = <<>>
    BY <2>1, <2>2 DEF RecordExact
  <2> QED
    BY <1>2, <2>1, <2>2, <2>3, PagesKept
<1>5. CASE RestoreDone(q)
  <2>1. Extending(q) /\ restoring[q].stream /\ UNCHANGED <<free, table>>
        /\ restoring' = [restoring EXCEPT ![q] = NoRecord]
    BY <1>5 DEF RestoreDone
  <2>2. Others(q) /\ restoring'[q] = NoRecord /\ restoring[q] # NoRecord /\ RecordExact(q)
    BY <1>1, <2>1, ExtendHere, RecordIs, Here DEF Others
  <2>3. ToSet(restoring[q].prefix) \subseteq ToSet(table[q])
    BY <2>1, <2>2, RecordHolds DEF RecordExact
  <2> QED
    BY <2>1, <2>2, <2>3, PagesKept
<1>6. CASE Sync(q)
  <2>1. /\ call = At("rollback", q) /\ UNCHANGED <<free, table>>
        /\ restoring' = [restoring EXCEPT ![q].stream = FALSE, ![q].read = TRUE,
              ![q].suffix = IF restoring[q].read THEN restoring[q].suffix ELSE Suffix(q)]
    BY <1>6 DEF Sync, reqVars
  <2>2. restoring[q] # NoRecord /\ restoring[q] \in Records
    BY <2>1, RollbackHere
  <2>3. /\ Others(q) /\ restoring'[q].prefix = restoring[q].prefix
        /\ restoring'[q].suffix \in {restoring[q].suffix, Suffix(q)}
    BY <1>1, <2>1, <2>2 DEF Others, Records
  <2>4. restoring'[q] # NoRecord
    <3>1. "prefix" \in DOMAIN restoring'[q] /\ "prefix" \notin DOMAIN NoRecord
      BY <1>1, <2>1, <2>2 DEF Records, NoRecord
    <3> QED
      BY <3>1
  <2> QED
    BY <2>1, <2>2, <2>3, <2>4, RecordHolds, PagesKept
<1>7. CASE UndoEnd(q)
  <2>1. /\ call = At("freed", q) /\ UNCHANGED <<free, table>>
        /\ restoring' = [restoring EXCEPT ![q] = NoRecord]
    BY <1>7 DEF UndoEnd, reqVars
  <2>2. restoring[q] # NoRecord /\ RecordExact(q)
    BY <2>1, RollbackHere
  <2>3. Others(q) /\ restoring'[q] = NoRecord /\ restoring[q].prefix = <<>>
    BY <1>1, <2>1, <2>2 DEF Others, RecordExact, Unbacked
  <2> QED
    BY <1>2, <2>1, <2>2, <2>3, PagesKept
<1>8. ASSUME NEW cached \in BOOLEAN, Restore(q, cached) PROVE PagesApart'
  <2>1. /\ Written(q) /\ UNCHANGED <<free, table>>
        /\ restoring' = [restoring EXCEPT ![q].stream = TRUE]
    BY <1>8 DEF Restore, reqVars
  <2>2. restoring[q] # NoRecord /\ restoring[q] \in Records
    BY <2>1, WrittenHere, RecordIs
  <2>3. /\ Others(q) /\ restoring'[q].prefix = restoring[q].prefix
        /\ restoring'[q].suffix = restoring[q].suffix
    BY <1>1, <2>1, <2>2 DEF Others, Records
  <2>4. restoring'[q] # NoRecord
    <3>1. "prefix" \in DOMAIN restoring'[q] /\ "prefix" \notin DOMAIN NoRecord
      BY <1>1, <2>1, <2>2 DEF Records, NoRecord
    <3> QED
      BY <3>1
  <2> QED
    BY <2>1, <2>2, <2>3, <2>4, RecordHolds, PagesKept
<1>9. ASSUME Undoing(q, TRUE), UNCHANGED <<free, table>>,
             NEW new, new.prefix = Noted(q).prefix, new.suffix = Noted(q).suffix, new # NoRecord,
             restoring' = [restoring EXCEPT ![q] = new]
      PROVE  PagesApart'
  <2>1. /\ restoring[q] # NoRecord
        /\ Noted(q).prefix = restoring[q].prefix /\ Noted(q).suffix = restoring[q].suffix
    BY <1>9, NotedIs, RecordIs
  <2>2. Others(q) /\ restoring'[q] = new
    BY <1>1, <1>9 DEF Others
  <2> QED
    BY <1>9, <2>1, <2>2, RecordHolds, PagesKept
<1>10. CASE UndoDrain(q)
  <2>1. /\ Undoing(q, TRUE) /\ UNCHANGED <<free, table>>
        /\ restoring' = [restoring EXCEPT ![q] = [Noted(q) EXCEPT !.drained = TRUE]]
    BY <1>10 DEF UndoDrain, reqVars
  <2> DEFINE new == [Noted(q) EXCEPT !.drained = TRUE]
  <2>2. Noted(q) \in Records
    BY <2>1, NotedIs
  <2>3. new \in Records /\ new.prefix = Noted(q).prefix /\ new.suffix = Noted(q).suffix
    BY <2>2 DEF Records
  <2> HIDE DEF new
  <2> QED
    BY <1>9, <2>1, <2>3, RecordIs DEF new
<1>11. CASE DrainFails(q)
  <2>1. /\ Undoing(q, TRUE) /\ UNCHANGED <<free, table>>
        /\ restoring' = [restoring EXCEPT ![q] = Noted(q)]
    BY <1>11 DEF DrainFails, reqVars
  <2> QED
    BY <1>9, <2>1, NotedIs, RecordIs
<1>12. CASE UndoRaises(q)
  <2>1. /\ UNCHANGED <<free, table>>
        /\ restoring' = IF Undoing(q, TRUE) THEN [restoring EXCEPT ![q] = Noted(q)] ELSE restoring
    BY <1>12 DEF UndoRaises, reqVars
  <2>2. CASE Undoing(q, TRUE)
    BY <1>9, <2>1, <2>2, NotedIs, RecordIs
  <2>3. CASE ~Undoing(q, TRUE)
    <3>1. Others(q) /\ PagesHeld(q)' = PagesHeld(q) /\ restoring'[q] = restoring[q]
      BY <2>1, <2>3 DEF Others, PagesHeld
    <3> QED
      BY <2>1, <3>1, PagesHere, PagesStay
  <2> QED
    BY <2>2, <2>3
<1> QED
  BY <1>3, <1>4, <1>5, <1>6, <1>7, <1>8, <1>10, <1>11, <1>12

\* Two sequences of different pages, none in both, joined.
LEMMA JoinIs ==
    ASSUME NEW s \in Seq(Pages), NEW t \in Seq(Pages), IsInjective(s), IsInjective(t),
           ToSet(s) \cap ToSet(t) = {}
    PROVE  /\ s \o t \in Seq(Pages) /\ IsInjective(s \o t)
           /\ ToSet(s \o t) = ToSet(s) \cup ToSet(t)
<1> DEFINE m == Len(s)
           n == Len(t)
           join == s \o t
<1>1. m \in Nat /\ n \in Nat
  BY LenProperties
<1>2. /\ join \in Seq(Pages) /\ Len(join) = m + n
      /\ \A i \in 1..(m + n) : join[i] = IF i <= m THEN s[i] ELSE t[i - m]
  BY ConcatProperties
<1>3. /\ DOMAIN join = 1..(m + n) /\ DOMAIN s = 1..m /\ DOMAIN t = 1..n
      /\ ToSet(join) = {join[i] : i \in 1..(m + n)}
      /\ ToSet(s) = {s[i] : i \in 1..m} /\ ToSet(t) = {t[i] : i \in 1..n}
  BY <1>2, RangeIs, LenProperties
<1> HIDE DEF m, n, join
<1>4. \A i \in 1..m : join[i] = s[i] /\ i \in 1..(m + n)
  BY <1>1, <1>2
<1>5. \A i \in 1..n : join[m + i] = t[i] /\ m + i \in 1..(m + n)
  <2> TAKE i \in 1..n
  <2>1. m + i \in 1..(m + n) /\ ~(m + i <= m) /\ (m + i) - m = i
    BY <1>1
  <2> QED
    BY <1>2, <2>1
<1>6. \A i \in 1..(m + n) : i \in 1..m \/ \E j \in 1..n : i = m + j
  <2> TAKE i \in 1..(m + n)
  <2>1. CASE i <= m
    BY <1>1, <2>1
  <2>2. CASE ~(i <= m)
    <3>1. i - m \in 1..n /\ i = m + (i - m)
      BY <1>1, <2>2
    <3> QED
      BY <3>1
  <2> QED
    BY <2>1, <2>2
<1>7. ToSet(join) = ToSet(s) \cup ToSet(t)
  <2>1. ASSUME NEW x \in ToSet(join) PROVE x \in ToSet(s) \cup ToSet(t)
    BY <1>3, <1>4, <1>5, <1>6
  <2>2. ASSUME NEW x \in ToSet(s) \cup ToSet(t) PROVE x \in ToSet(join)
    <3>1. CASE x \in ToSet(s)
      BY <1>3, <1>4, <3>1
    <3>2. CASE x \in ToSet(t)
      BY <1>3, <1>5, <3>2
    <3> QED
      BY <3>1, <3>2
  <2> QED
    BY <2>1, <2>2
<1>8. IsInjective(join)
  <2> SUFFICES ASSUME NEW a \in 1..(m + n), NEW b \in 1..(m + n), join[a] = join[b] PROVE a = b
    BY <1>3 DEF IsInjective
  <2>1. CASE a \in 1..m /\ b \in 1..m
    BY <1>3, <1>4, <2>1 DEF IsInjective
  <2>2. ASSUME NEW i \in 1..n, a = m + i, b \in 1..m PROVE FALSE
    <3>1. t[i] = s[b]
      BY <1>4, <1>5, <2>2
    <3>2. t[i] \in ToSet(t) /\ s[b] \in ToSet(s)
      BY <1>3, <2>2
    <3> QED
      BY <3>1, <3>2
  <2>3. ASSUME NEW i \in 1..n, b = m + i, a \in 1..m PROVE FALSE
    <3>1. t[i] = s[a]
      BY <1>4, <1>5, <2>3
    <3>2. t[i] \in ToSet(t) /\ s[a] \in ToSet(s)
      BY <1>3, <2>3
    <3> QED
      BY <3>1, <3>2
  <2>4. ASSUME NEW i \in 1..n, NEW j \in 1..n, a = m + i, b = m + j PROVE a = b
    <3>1. t[i] = t[j]
      BY <1>5, <2>4
    <3> QED
      BY <1>3, <2>4, <3>1 DEF IsInjective
  <2> QED
    BY <1>6, <2>1, <2>2, <2>3, <2>4
<1> QED
  BY <1>2, <1>7, <1>8 DEF join

\* What is allocated for the prefix was free, and is as many pages.
LEMMA AllocPrefixPages ==
    ASSUME IInv, NEW q \in Rids, AllocPrefix(q)
    PROVE  PagesApart' /\ Enough'
<1>1. PICK pages \in Seq(Pages) :
         /\ restoring' = [restoring EXCEPT ![q].prefix = pages]
         /\ TakePages(pages) /\ IsInjective(pages) /\ ToSet(pages) \subseteq FreePages
  BY AllocPrefixStep
<1>2. /\ restoring[q] \in Records /\ restoring[q].prefix = <<>> /\ restoring[q].suffix = <<>>
      /\ UNCHANGED <<table, allocated, call>> /\ call = At("extend", q)
  BY AllocPrefixStep, ExtendHere DEF AllocPrefix, reqVars, Extending
<1>3. /\ Others(q) /\ restoring'[q].prefix = pages
      /\ restoring'[q].suffix = restoring[q].suffix
      /\ restoring'[q].length = restoring[q].length
      /\ restoring'[q].previous = restoring[q].previous
  BY <1>1, <1>2 DEF IInv, TypeOK, Others, Records
<1>4. restoring'[q] # NoRecord /\ restoring[q] # NoRecord
  <2>1. "prefix" \in DOMAIN restoring'[q] /\ "prefix" \notin DOMAIN NoRecord
    BY <1>1, <1>2 DEF IInv, TypeOK, Records, NoRecord
  <2> QED
    BY <1>2, <2>1, RecordIs
<1>5. PagesHeld(q)' = PagesHeld(q) \cup ToSet(pages)
  <2>1. ToSet(<<>>) = {}
    BY <1>1, RangeIs
  <2> QED
    BY <1>2, <1>3, <1>4, <2>1 DEF PagesHeld
<1>6. PagesApart' /\ FreePages' = FreePages \ ToSet(pages)
  BY <1>1, <1>2, <1>3, <1>5, PagesHere, TakeKeeps
<1>7. Enough'
  <2> SUFFICES ASSUME NEW p \in Rids, call' = At("extend", p), allocated'[p] = restoring'[p].previous
               PROVE  PagesFor(restoring'[p].length) - Len(table'[p]) - Len(restoring'[p].prefix)
                         <= Cardinality(FreePages')
    BY DEF Enough, PagesFor
  <2>1. p = q
    BY <1>2, AtIs
  <2>2. PagesFor(restoring[q].length) - Len(table[q]) - Len(restoring[q].prefix)
           <= Cardinality(FreePages)
    BY <1>2, <1>3, <2>1 DEF IInv, Enough
  <2>3. IsFiniteSet(FreePages)
    BY PagesAssumption, FS_Subset DEF FreePages
  <2>4. Cardinality(ToSet(pages)) <= Len(pages) /\ IsFiniteSet(ToSet(pages))
    <3>1. Len(pages) \in Nat /\ DOMAIN pages = 1..Len(pages)
      BY LenProperties
    <3>2. pages \in Surjection(1..Len(pages), ToSet(pages))
      BY <3>1, RangeIs DEF Surjection
    <3>3. ExistsSurjection(1..Len(pages), ToSet(pages))
      BY <3>2 DEF ExistsSurjection
    <3> QED
      BY <2>3, <3>1, <3>3, <1>1, FS_SurjCardinalityBound, FS_Subset
  <2>5. Cardinality(FreePages') = Cardinality(FreePages) - Cardinality(ToSet(pages))
    <3>1. FreePages \cap ToSet(pages) = ToSet(pages)
      BY <1>1
    <3>2. PICK F, T : F = FreePages /\ T = ToSet(pages)
      OBVIOUS
    <3>3. IsFiniteSet(F)
      BY <2>3, <3>2
    <3>4. Cardinality(F \ T) = Cardinality(F) - Cardinality(F \cap T)
      BY <3>3, FS_Difference
    <3> QED
      BY <1>6, <3>1, <3>2, <3>4
  <2>6. /\ Cardinality(FreePages) \in Nat /\ Cardinality(ToSet(pages)) \in Nat
        /\ Len(pages) \in Nat /\ Len(table[q]) \in Nat /\ PagesFor(restoring[q].length) \in Nat
        /\ Len(restoring[q].prefix) = 0
    BY <1>2, <2>3, <2>4, FS_CardinalityType, LenProperties, EmptySeq, Here, PagesForIs, RecordIs
  <2> DEFINE all == PagesFor(restoring[q].length)
             a == Len(table[q])
             b == Len(restoring[q].prefix)
             c == Len(pages)
             f == Cardinality(FreePages)
             g == Cardinality(FreePages')
             h == Cardinality(ToSet(pages))
  <2>7. /\ all \in Nat /\ a \in Nat /\ b = 0 /\ c \in Nat /\ f \in Nat /\ h \in Nat
        /\ all - a - b <= f /\ h <= c /\ g = f - h
    BY <2>2, <2>4, <2>5, <2>6
  <2>8. /\ PagesFor(restoring'[p].length) = all /\ Len(table'[p]) = a
        /\ Len(restoring'[p].prefix) = c
    BY <1>2, <1>3, <2>1
  <2> HIDE DEF all, a, b, c, f, g, h
  <2> QED
    BY <2>7, <2>8 DEF g
<1> QED
  BY <1>6, <1>7

\* What is allocated behind the prefix was free.
LEMMA WriteRowPages ==
    ASSUME IInv, NEW q \in Rids, WriteRow(q)
    PROVE  PagesApart'
<1> DEFINE record == restoring[q]
           own == table[q] \o record.prefix
<1>1. PICK suffix \in Seq(Pages) :
         /\ table' = [table EXCEPT ![q] = own \o suffix]
         /\ TakePages(suffix) /\ IsInjective(suffix) /\ ToSet(suffix) \subseteq FreePages
  BY WriteRowStep
<1>2. /\ record \in Records /\ allocated[q] = record.previous /\ record.suffix = <<>>
      /\ restoring' = restoring
  BY WriteRowStep, ExtendHere DEF WriteRow
<1>3. /\ RecordExact(q) /\ record # NoRecord /\ record.prefix \in Seq(Pages)
      /\ table[q] \in Seq(Pages) /\ IsInjective(table[q]) /\ IsInjective(record.prefix)
  BY <1>2, Here, RecordIs, PagesHere
<1>4. Others(q) /\ table'[q] = own \o suffix
  BY <1>1, <1>2 DEF IInv, TypeOK, Others
<1>5. ToSet(<<>>) = {}
  BY <1>1, RangeIs
<1>6. PagesHeld(q) = ToSet(table[q]) \cup ToSet(record.prefix)
      /\ PagesHeld(q)' = ToSet(table[q])' \cup ToSet(record.prefix)
  BY <1>2, <1>3, <1>5 DEF PagesHeld
<1>7. ToSet(table[q]) \cap ToSet(record.prefix) = {}
  <2>1. CASE record.prefix = <<>>
    BY <1>5, <2>1
  <2>2. CASE record.prefix # <<>>
    <3>1. record.previous = 0
      BY <1>3, <2>2 DEF RecordExact
    <3>2. Len(table[q]) = 0
      BY <1>2, <1>3, <3>1, PagesForIs DEF RecordExact, Unbacked
    <3>3. table[q] = <<>>
      BY <1>3, <3>2, EmptySeq
    <3> QED
      BY <1>5, <3>3
  <2> QED
    BY <2>1, <2>2
<1>8. own \in Seq(Pages) /\ IsInjective(own) /\ ToSet(own) = PagesHeld(q)
  BY <1>3, <1>6, <1>7, JoinIs
<1> HIDE DEF own
<1>9. ToSet(own) \cap ToSet(suffix) = {}
  BY <1>1, <1>8, PagesHere
<1>10. IsInjective(table'[q]) /\ ToSet(table[q])' = PagesHeld(q) \cup ToSet(suffix)
  BY <1>1, <1>4, <1>8, <1>9, JoinIs
<1>11. PagesHeld(q)' = PagesHeld(q) \cup ToSet(suffix)
  BY <1>6, <1>10
<1> QED
  BY <1>1, <1>2, <1>3, <1>4, <1>10, <1>11, TakeKeeps

\* The new pages of a later chunk are those behind the whole and partial pages
\* of the chunks before.
LEMMA UndoChunkPages ==
    ASSUME IInv, NEW q \in Rids, UndoChunk(q)
    PROVE  PagesApart'
<1> DEFINE record == restoring[q]
           k == PagesFor(record.previous)
           kept == SubSeq(table[q], 1, k)
           new == SubSeq(table[q], k + 1, Len(table[q]))
<1>1. /\ call = At("undo", q) /\ ~record.fresh /\ FreeAll(NewPages(q))
      /\ restoring' = [restoring EXCEPT ![q] = NoRecord]
      /\ table' = [table EXCEPT ![q] = kept]
  <2>1. record.fresh = FALSE
    BY DEF UndoChunk, Undoing
  <2> QED
    BY <2>1, Zenon DEF UndoChunk, Undoing
<1>2. RecordExact(q) /\ record # NoRecord /\ record \in Records
  BY <1>1, RollbackHere
<1>3. /\ record.previous \in Nat \ {0} /\ row[q] # 0
      /\ Len(table[q]) = PagesFor(allocated[q]) /\ record.previous <= allocated[q]
      /\ allocated[q] \in Nat /\ record.prefix = <<>> /\ record.suffix = Suffix(q)
      /\ table[q] \in Seq(Pages) /\ IsInjective(table[q])
  <2>1. allocated[q] \in Nat /\ record.previous \in Nat /\ record.length \in Nat
        /\ table[q] \in Seq(Pages) /\ IsInjective(table[q])
    BY <1>2, Here, RecordIs, PagesHere
  <2>2. record.read /\ ~record.reader /\ record.previous # 0
    BY <1>1, <1>2 DEF RecordExact
  <2>3. record.previous <= allocated[q]
    BY <1>2, <2>1 DEF RecordExact
  <2> QED
    BY <1>2, <2>1, <2>2, <2>3 DEF RecordExact, Unbacked
<1>4. k \in Nat /\ k <= Len(table[q]) /\ Len(table[q]) \in Nat
  BY <1>3, PagesForIs
<1>5. /\ new \in Seq(Pages) /\ IsInjective(new) /\ ToSet(new) \subseteq ToSet(table[q])
      /\ Len(new) = Len(table[q]) - k
      /\ IsInjective(kept) /\ ToSet(kept) = ToSet(table[q]) \ ToSet(new)
  BY <1>3, <1>4, CutIs
<1>6. NewPages(q) = new
  <2>1. CASE allocated[q] = record.previous
    <3>1. record.suffix = <<>>
      BY <1>3, <2>1 DEF Suffix
    <3>2. Len(new) = 0
      BY <1>3, <1>4, <1>5, <2>1
    <3>3. new = <<>>
      BY <1>5, <3>2, EmptySeq
    <3> QED
      BY <3>1, <3>3 DEF NewPages
  <2>2. CASE allocated[q] # record.previous
    <3> DEFINE d == record.previous \div PageTokens
    <3>1. d \in Nat /\ PageTokens \in Nat \ {0} /\ record.previous % PageTokens \in Nat
      <4>1. PageTokens \in Nat \ {0}
        BY PagesAssumption
      <4>2. record.previous \in Nat
        BY <1>3
      <4> QED
        BY <4>1, <4>2
    <3>2. record.suffix = SubSeq(table[q], d + 1, Len(table[q]))
      <4>1. allocated[q] > record.previous
        BY <1>3, <2>2
      <4> QED
        BY <1>3, <4>1 DEF Suffix
    <3>3. k = IF record.previous % PageTokens = 0 THEN d ELSE d + 1
      BY <1>3, PagesForIs
    <3> HIDE DEF d
    <3>4. CASE record.previous % PageTokens = 0
      BY <3>2, <3>3, <3>4 DEF NewPages
    <3>5. CASE record.previous % PageTokens # 0
      <4>1. d + 1 \in 1..Len(table[q]) /\ k = d + 1
        BY <1>4, <3>1, <3>3, <3>5
      <4>2. Len(table[q]) \in (d + 1)..Len(table[q])
        BY <1>4, <4>1
      <4>3. Tail(record.suffix) = SubSeq(table[q], (d + 1) + 1, Len(table[q]))
        <5>1. PICK t, e : t = table[q] /\ e = d + 1
          OBVIOUS
        <5>2. t \in Seq(Pages) /\ e \in 1..Len(t) /\ Len(t) \in e..Len(t)
          BY <1>3, <4>1, <4>2, <5>1
        <5>3. Tail(SubSeq(t, e, Len(t))) = SubSeq(t, e + 1, Len(t))
          BY <5>2, HeadTailOfSubSeq
        <5> QED
          BY <3>2, <5>1, <5>3
      <4>4. record.suffix # <<>>
        <5>1. Len(record.suffix) = Len(table[q]) - d
          BY <1>3, <1>4, <3>1, <3>2, <4>1, CutIs
        <5> QED
          BY <1>4, <4>1, <5>1, <3>1, EmptySeq
      <4> QED
        BY <3>5, <4>1, <4>3, <4>4 DEF NewPages
    <3> QED
      BY <3>4, <3>5
  <2> QED
    BY <2>1, <2>2
<1> HIDE DEF new, kept
<1>7. Others(q) /\ table'[q] = kept /\ restoring'[q] = NoRecord
  BY <1>1 DEF IInv, TypeOK, Others
<1>8. ToSet(<<>>) = {}
  BY <1>3, RangeIs
<1>9. PagesHeld(q) = ToSet(table[q])
  BY <1>2, <1>3, <1>8, RecordHolds DEF PagesHeld
<1>10. PagesHeld(q)' = PagesHeld(q) \ ToSet(new)
  BY <1>5, <1>7, <1>9 DEF PagesHeld
<1> QED
  BY <1>1, <1>5, <1>6, <1>7, <1>9, <1>10, FreeKeeps

\* The prefix and the suffix are all that a first chunk held.
LEMMA UndoFreePages ==
    ASSUME IInv, NEW q \in Rids, UndoFree(q)
    PROVE  PagesApart'
<1> DEFINE record == restoring[q]
           all == record.prefix \o record.suffix
<1>1. /\ call = At("drained", q) /\ FreeAll(all)
      /\ restoring' = [restoring EXCEPT ![q].prefix = <<>>, ![q].suffix = <<>>]
      /\ table' = [table EXCEPT ![q] = <<>>]
  BY DEF UndoFree
<1>2. RecordExact(q) /\ record # NoRecord /\ record \in Records
  BY <1>1, RollbackHere
<1>3. /\ record.fresh /\ record.read /\ record.previous = 0 /\ record.suffix = Suffix(q)
      /\ Len(table[q]) = PagesFor(allocated[q]) \/ Unbacked(q)
      /\ allocated[q] \in {0, record.length}
      /\ allocated[q] # 0 => row[q] # 0
  BY <1>1, <1>2 DEF RecordExact
<1>4. /\ table[q] \in Seq(Pages) /\ IsInjective(table[q]) /\ allocated[q] \in Nat
      /\ record.prefix \in Seq(Pages) /\ IsInjective(record.prefix) /\ record.suffix \in Seq(Pages)
      /\ record.length \in Nat /\ Len(table[q]) \in Nat
  BY <1>2, Here, RecordIs, PagesHere, LenProperties
<1>5. ToSet(<<>>) = {} /\ IsInjective(<<>>)
  BY <1>4, RangeIs
<1>6. all \in Seq(Pages) /\ IsInjective(all) /\ ToSet(all) = PagesHeld(q)
  <2>1. CASE allocated[q] = 0 \/ table[q] = <<>>
    <3>1. table[q] = <<>>
      BY <1>3, <1>4, <2>1, PagesForIs, EmptySeq DEF Unbacked
    <3>2. record.suffix = <<>>
      <4>1. \A n \in Nat : SubSeq(table[q], n \div PageTokens + 1, Len(table[q])) = <<>>
        BY <3>1, NoSuffix
      <4>2. Hit \in Nat
        BY PagesForIs
      <4> QED
        BY <1>3, <4>1, <4>2 DEF Suffix
    <3>3. all = record.prefix
      BY <1>4, <3>2, ConcatEmptySeq
    <3> QED
      BY <1>2, <1>4, <1>5, <3>1, <3>2, <3>3 DEF PagesHeld
  <2>2. CASE allocated[q] # 0 /\ table[q] # <<>>
    <3>1. /\ allocated[q] > record.previous /\ allocated[q] = record.length /\ row[q] # 0
          /\ Len(table[q]) = PagesFor(allocated[q])
      <4>1. Len(table[q]) = PagesFor(allocated[q])
        BY <1>3, <2>2 DEF Unbacked
      <4>2. allocated[q] # 0
        BY <2>2
      <4> QED
        BY <1>3, <1>4, <4>1, <4>2
    <3>2. all = table[q]
      <4>1. CASE record.prefix = <<>>
        <5>1. 0 \div PageTokens = 0
          BY PagesAssumption
        <5>2. record.suffix = SubSeq(table[q], 1, Len(table[q]))
          <6>1. record.suffix = SubSeq(table[q], 0 \div PageTokens + 1, Len(table[q]))
            BY <1>3, <3>1, <4>1 DEF Suffix
          <6>2. 0 \div PageTokens + 1 = 1
            BY <5>1
          <6> QED
            BY <6>1, <6>2
        <5>3. /\ Len(record.suffix) = Len(table[q])
              /\ \A i \in 1..Len(table[q]) : record.suffix[i] = table[q][i]
          <6> DEFINE n == Len(table[q])
          <6>1. n \in Nat /\ \A i \in 1..n : table[q][i] \in Pages
            BY <1>4, ElementOfSeq
          <6>2. /\ Len(SubSeq(table[q], 1, n)) = IF 1 <= n THEN n - 1 + 1 ELSE 0
                /\ \A i \in 1..(n - 1 + 1) : SubSeq(table[q], 1, n)[i] = table[q][1 + i - 1]
            BY <6>1, SubSeqProperties
          <6> HIDE DEF n
          <6>3. n - 1 + 1 = n
            BY <6>1
          <6>4. ASSUME NEW i \in 1..n PROVE SubSeq(table[q], 1, n)[i] = table[q][i]
            <7>1. 1 + i - 1 = i
              BY <6>1
            <7> QED
              BY <6>2, <6>3, <7>1
          <6>5. Len(SubSeq(table[q], 1, n)) = n
            BY <6>1, <6>2, <6>3
          <6> QED
            BY <5>2, <6>4, <6>5 DEF n
        <5>4. record.suffix = table[q]
          BY <1>4, <5>3, SeqEqual
        <5> QED
          BY <1>4, <4>1, <5>4, ConcatEmptySeq
      <4>2. CASE record.prefix # <<>>
        <5> DEFINE k == Hit \div PageTokens
                   n == Len(table[q])
        <5>1. /\ record.reader /\ Len(record.prefix) = k /\ record.length > Hit
              /\ \A i \in 1..k : table[q][i] = record.prefix[i]
              /\ record.suffix = SubSeq(table[q], k + 1, n)
          BY <1>2, <1>3, <2>2, <3>1, <4>2 DEF RecordExact, Suffix
        <5>2. k \in Nat /\ Hit \in Nat /\ PagesFor(Hit) = k /\ n = Len(table[q])
          BY PagesForIs
        <5> HIDE DEF k, n
        <5>7. k <= n /\ n \in Nat
          <6>1. Hit <= record.length
            BY <1>4, <5>1, <5>2
          <6>2. PagesFor(Hit) <= PagesFor(record.length)
            BY <1>4, <5>2, <6>1, PagesForGrows
          <6>3. PagesFor(record.length) = n /\ n \in Nat
            BY <1>4, <3>1, <5>2
          <6> QED
            BY <5>2, <6>2, <6>3
        <5>3. Len(record.suffix) = n - k
              /\ \A i \in 1..(n - k) : record.suffix[i] = table[q][k + i]
          <6> DEFINE rest == SubSeq(table[q], k + 1, Len(table[q]))
          <6>1. k <= Len(table[q])
            BY <5>2, <5>7
          <6>2. /\ Len(rest) = Len(table[q]) - k
                /\ \A i \in 1..(Len(table[q]) - k) : rest[i] = table[q][k + i]
            <7>1. PICK t : t = table[q]
              OBVIOUS
            <7>2. t \in Seq(Pages) /\ IsInjective(t) /\ k <= Len(t)
              BY <1>4, <6>1, <7>1
            <7>3. /\ Len(SubSeq(t, k + 1, Len(t))) = Len(t) - k
                  /\ \A i \in 1..(Len(t) - k) : SubSeq(t, k + 1, Len(t))[i] = t[k + i]
              BY <5>2, <7>2, CutIs
            <7> QED
              BY <7>1, <7>3
          <6>3. record.suffix = rest
            BY <5>1, <5>2
          <6> HIDE DEF rest
          <6> QED
            BY <5>2, <6>2, <6>3
        <5>4. /\ all \in Seq(Pages) /\ Len(all) = k + (n - k)
              /\ \A i \in 1..(k + (n - k)) :
                    all[i] = IF i <= k THEN record.prefix[i] ELSE record.suffix[i - k]
          <6> DEFINE a == Len(record.prefix)
                     b == Len(record.suffix)
          <6>1. /\ all \in Seq(Pages) /\ Len(all) = a + b
                /\ \A i \in 1..(a + b) :
                      all[i] = IF i <= a THEN record.prefix[i] ELSE record.suffix[i - a]
            BY <1>4, ConcatProperties
          <6>2. a = k /\ b = n - k
            BY <5>1, <5>3
          <6> HIDE DEF a, b, all
          <6> QED
            BY <6>1, <6>2
        <5> HIDE DEF all
        <5>5. Len(all) = n
          BY <5>2, <5>4, <5>7
        <5>6. ASSUME NEW i \in 1..n PROVE all[i] = table[q][i]
          <6>1. all[i] = IF i <= k THEN record.prefix[i] ELSE record.suffix[i - k]
            BY <5>2, <5>4, <5>7
          <6>2. CASE i <= k
            <7>1. i \in 1..k
              BY <5>2, <6>2
            <7> QED
              BY <5>1, <6>1, <6>2, <7>1
          <6>3. CASE ~(i <= k)
            <7>1. i - k \in 1..(n - k) /\ k + (i - k) = i
              BY <5>2, <5>7, <6>3
            <7> QED
              BY <5>3, <6>1, <6>3, <7>1
          <6> QED
            BY <6>2, <6>3
        <5> QED
          BY <1>4, <5>4, <5>5, <5>6, SeqEqual DEF n
      <4> QED
        BY <4>1, <4>2
    <3>3. PagesHeld(q) = ToSet(table[q])
      <4>1. ToSet(record.prefix) \subseteq ToSet(table[q])
        <5>1. CASE record.prefix = <<>>
          BY <1>5, <5>1
        <5>2. CASE record.prefix # <<>>
          BY <1>2, <2>2, <5>2, RecordHolds DEF RecordExact
        <5> QED
          BY <5>1, <5>2
      <4> QED
        BY <1>2, <4>1, RecordHolds DEF PagesHeld
    <3> HIDE DEF all
    <3> QED
      BY <1>4, <3>2, <3>3
  <2> QED
    BY <2>1, <2>2
<1> HIDE DEF all
<1>7. /\ Others(q) /\ table'[q] = <<>>
      /\ restoring'[q].prefix = <<>> /\ restoring'[q].suffix = <<>>
  BY <1>1, <1>2 DEF IInv, TypeOK, Others, Records
<1>8. PagesHeld(q)' = PagesHeld(q) \ ToSet(all)
  BY <1>5, <1>6, <1>7 DEF PagesHeld
<1> QED
  BY <1>1, <1>5, <1>6, <1>7, <1>8, FreeKeeps

\* A release frees the pages of the row.
LEMMA ReleasePages ==
    ASSUME IInv, NEW q \in Rids, Release(q)
    PROVE  PagesApart'
<1>1. /\ restoring[q] = NoRecord /\ FreeAll(table[q]) /\ restoring' = restoring
      /\ table' = [table EXCEPT ![q] = <<>>]
  BY DEF Release
<1>2. Others(q) /\ table'[q] = <<>> /\ restoring'[q] = NoRecord
  BY <1>1 DEF IInv, TypeOK, Others
<1>3. table[q] \in Seq(Pages) /\ IsInjective(table[q])
  BY Here, PagesHere
<1>4. ToSet(<<>>) = {} /\ IsInjective(<<>>)
  BY <1>3, RangeIs
<1>5. PagesHeld(q) = ToSet(table[q]) /\ PagesHeld(q)' = {}
  BY <1>1, <1>2, <1>4 DEF PagesHeld
<1> QED
  BY <1>1, <1>2, <1>3, <1>4, <1>5, FreeKeeps

\* The pages stay apart.
LEMMA ApartStep ==
    ASSUME IInv, Next
    PROVE  PagesApart'
<1>1. ASSUME UNCHANGED <<table, free, restoring>> PROVE PagesApart'
  <2>1. \A q \in Rids : PagesHeld(q)' = PagesHeld(q)
    BY <1>1 DEF PagesHeld
  <2> QED
    BY <1>1, <2>1 DEF IInv, PagesApart
<1>2. ASSUME NEW q \in Rids, NEW hit \in BOOLEAN, Match(q, hit) PROVE PagesApart'
  BY <1>1, <1>2 DEF Match, reqVars
<1>3. ASSUME NEW q \in Rids, Abort(q) PROVE PagesApart'
  BY <1>1, <1>3 DEF Abort
<1>4. ASSUME NEW q \in Rids, NEW r \in Rows, AllocRow(q, r) PROVE PagesApart'
  BY <1>1, <1>4 DEF AllocRow
<1>5. ASSUME NEW q \in Rids,
             Forward(q) \/ ForwardRaises(q) \/ Raise(q) \/ Retry(q) \/ UndoRow(q)
      PROVE  PagesApart'
  BY <1>1, <1>5 DEF Forward, ForwardRaises, Raise, Retry, UndoRow, reqVars
<1>6. CASE Flush
  BY <1>1, <1>6 DEF Flush, reqVars
<1>7. ASSUME NEW lease \in restores, Restored(lease) PROVE PagesApart'
  BY <1>1, <1>7 DEF Restored, reqVars
<1> QED
  BY <1>2, <1>3, <1>4, <1>5, <1>6, <1>7, PagesQuietly, AllocPrefixPages, WriteRowPages,
     UndoChunkPages, UndoFreePages, ReleasePages DEF Next, Continue

\* Until the row is written, the pages it needs stay free.
LEMMA EnoughStep ==
    ASSUME IInv, Next
    PROVE  Enough'
<1>1. ASSUME \A p \in Rids : call' # At("extend", p) PROVE Enough'
  BY <1>1 DEF Enough
<1>elsewhere. ASSUME NEW o, NEW q, call' = At(o, q), o # "extend" PROVE Enough'
  BY <1>1, <1>elsewhere, AtIs
<1>ended. ASSUME call' = Idle PROVE Enough'
  BY <1>1, <1>ended, AtIs
<1>2. ASSUME UNCHANGED <<call, allocated, table, free, restoring>> PROVE Enough'
  BY <1>2 DEF IInv, Enough, FreePages, PagesFor
<1>3. ASSUME NEW q \in Rids, NEW length \in Ends, Prepare(q, length) PROVE Enough'
  <2> DEFINE new == [reader |-> q \in matches, fresh |-> allocated[q] = 0,
                     previous |-> allocated[q], length |-> length, prefix |-> <<>>,
                     suffix |-> <<>>, read |-> FALSE, stream |-> FALSE, noted |-> FALSE,
                     lease |-> NoLease, drained |-> FALSE]
  <2>1. /\ call' = At("extend", q) /\ restoring' = [restoring EXCEPT ![q] = new]
        /\ PagesFor(length) - Len(table[q]) <= Cardinality(FreePages)
        /\ UNCHANGED <<allocated, table, free>>
    BY <1>3 DEF Prepare, reqVars, Admitted
  <2>2. restoring'[q] = new
    BY <2>1 DEF IInv, TypeOK
  <2>3. restoring'[q].length = length /\ Len(restoring'[q].prefix) = 0
    BY <2>2, EmptySeq
  <2> HIDE DEF new
  <2> SUFFICES ASSUME NEW p \in Rids, call' = At("extend", p)
               PROVE  PagesFor(restoring'[p].length) - Len(table'[p]) - Len(restoring'[p].prefix)
                         <= Cardinality(FreePages')
    BY DEF Enough, PagesFor
  <2>4. p = q /\ FreePages' = FreePages
    BY <2>1, AtIs DEF FreePages
  <2>5. PagesFor(length) \in Nat /\ Len(table[q]) \in Nat
    BY PagesAssumption, PagesForIs, Here, LenProperties
  <2>6. PagesFor(length) - Len(table[q]) - 0 = PagesFor(length) - Len(table[q])
    BY <2>5
  <2>7. PagesFor(restoring'[p].length) - Len(table'[p]) - Len(restoring'[p].prefix)
           = PagesFor(length) - Len(table[q]) - 0
    BY <2>1, <2>3, <2>4
  <2> QED
    BY <2>1, <2>4, <2>6, <2>7
<1>4. ASSUME NEW q \in Rids, WriteRow(q) PROVE Enough'
  <2>1. /\ call' = At("extend", q) /\ restoring' = restoring
        /\ allocated' = [allocated EXCEPT ![q] = restoring[q].length]
    BY <1>4 DEF WriteRow, Extending
  <2>2. restoring[q] # NoRecord /\ RecordExact(q) /\ restoring[q] \in Records
    BY <1>4, WriteRowStep, Here, RecordIs
  <2>3. allocated'[q] # restoring'[q].previous
    BY <2>1, <2>2, RecordIs DEF RecordExact, IInv, TypeOK
  <2> QED
    BY <2>1, <2>3, AtIs DEF Enough
<1>5. ASSUME NEW q \in Rids, Restore(q, TRUE) PROVE Enough'
  <2>1. /\ call' = At("extend", q) /\ Written(q) /\ allocated' = allocated
        /\ restoring' = [restoring EXCEPT ![q].stream = TRUE]
    BY <1>5 DEF Restore, Written, Extending, reqVars
  <2>2. restoring[q] \in Records
    BY <2>1, WrittenHere
  <2>3. restoring'[q].previous = restoring[q].previous
    BY <2>1, <2>2 DEF IInv, TypeOK, Records
  <2>4. allocated'[q] # restoring'[q].previous
    BY <2>1, <2>3 DEF Written
  <2> QED
    BY <2>1, <2>4, AtIs DEF Enough
<1>6. ASSUME NEW q \in Rids, NEW hit \in BOOLEAN, Match(q, hit) PROVE Enough'
  BY <1>2, <1>6 DEF Match, reqVars
<1>7. ASSUME NEW q \in Rids, Abort(q) PROVE Enough'
  BY <1>2, <1>7 DEF Abort
<1>8. CASE Flush
  BY <1>2, <1>8 DEF Flush, reqVars
<1>9. ASSUME NEW q \in Rids, Release(q) PROVE Enough'
  BY <1>1, <1>9, AtIs DEF Release
<1>10. ASSUME NEW q \in Rids, NEW r \in Rows, AllocRow(q, r) PROVE Enough'
  BY <1>2, <1>10 DEF AllocRow
<1>11. ASSUME NEW lease \in restores, Restored(lease) PROVE Enough'
  BY <1>2, <1>11 DEF Restored, reqVars
<1>12. ASSUME NEW q \in Rids, Restore(q, FALSE) PROVE Enough'
  BY <1>1, <1>12, AtIs DEF Restore
<1>13. ASSUME NEW q \in Rids,
              \/ HandMiss(q) \/ RestoreDone(q) \/ Forward(q) \/ ForwardRaises(q)
              \/ Raise(q) \/ Retry(q) \/ Sync(q)
       PROVE  Enough'
  <2>1. CASE HandMiss(q) \/ RestoreDone(q)
    <3>1. call' = At("forward", q)
      BY <2>1 DEF HandMiss, RestoreDone
    <3> QED
      BY <3>1, <1>elsewhere
  <2>2. CASE Forward(q) \/ ForwardRaises(q)
    <3>1. call' = Idle
      BY <2>2 DEF Forward, ForwardRaises
    <3> QED
      BY <3>1, <1>ended
  <2>3. CASE Raise(q) \/ Retry(q)
    <3>1. call' = At("rollback", q)
      BY <2>3 DEF Raise, Retry
    <3> QED
      BY <3>1, <1>elsewhere
  <2>4. CASE Sync(q)
    <3>1. call' = At("undo", q)
      BY <2>4 DEF Sync
    <3> QED
      BY <3>1, <1>elsewhere
  <2> QED
    BY <1>13, <2>1, <2>2, <2>3, <2>4
<1>14. ASSUME NEW q \in Rids,
              \/ UndoChunk(q) \/ UndoDrain(q) \/ UndoFree(q) \/ UndoRow(q) \/ UndoEnd(q)
              \/ UndoRaises(q) \/ DrainFails(q)
       PROVE  Enough'
  <2>1. CASE UndoDrain(q)
    <3>1. call' = At("drained", q)
      BY <2>1 DEF UndoDrain
    <3> QED
      BY <3>1, <1>elsewhere
  <2>2. CASE UndoFree(q) \/ UndoRow(q)
    <3>1. call' = At("unpaged", q) \/ call' = At("freed", q)
      BY <2>2 DEF UndoFree, UndoRow
    <3> QED
      BY <3>1, <1>elsewhere
  <2>3. CASE UndoChunk(q) \/ UndoEnd(q)
    <3>1. call' = Idle
      BY <2>3 DEF UndoChunk, UndoEnd
    <3> QED
      BY <3>1, <1>ended
  <2>4. CASE UndoRaises(q) \/ DrainFails(q)
    <3>1. call' = Idle
      BY <2>4 DEF UndoRaises, DrainFails
    <3> QED
      BY <3>1, <1>ended
  <2> QED
    BY <1>14, <2>1, <2>2, <2>3, <2>4
<1> QED
  BY <1>3, <1>4, <1>5, <1>6, <1>7, <1>8, <1>9, <1>10, <1>11, <1>12, <1>13, <1>14,
     AllocPrefixPages DEF Next, Continue

\* The runtime's cache of a row is that of the lease in the table.
LEMMA CachedStep ==
    ASSUME IInv, Next
    PROVE  Cached'
<1>1. ASSUME UNCHANGED <<active, requests>> PROVE Cached'
  BY <1>1 DEF IInv, Cached
<1>2. /\ active \in [Rows -> Leases \cup {NoLease}] /\ requests \in [Rows -> Leases \cup {NoLease}]
      /\ \A r \in Rows : requests[r] \in {NoLease, active[r]}
  BY DEF IInv, SlotsInv, SlotsTypeOK, TypeOK, Cached
<1>3. ASSUME NEW r \in Rows, NEW q \in Rids, Acquire(r, generation[r], q),
             \/ requests' = [requests EXCEPT ![r] = prefill_owner']
             \/ requests' = requests
      PROVE  Cached'
  <2>1. /\ active[r] = NoLease /\ active'[r] = prefill_owner'
        /\ \A s \in Rows \ {r} : active'[s] = active[s]
    BY <1>3, AcquireIs
  <2>2. ASSUME NEW s \in Rows PROVE requests'[s] \in {NoLease, active'[s]}
    <3>1. CASE s = r
      BY <1>2, <1>3, <2>1, <3>1
    <3>2. CASE s # r
      BY <1>2, <1>3, <2>1, <3>2
    <3> QED
      BY <3>1, <3>2
  <2> QED
    BY <2>2 DEF Cached
<1>4. ASSUME NEW q \in Rids, NEW cached \in BOOLEAN, Restore(q, cached) PROVE Cached'
  <2>1. row[q] \in Rows
    BY <1>4, WrittenHere DEF Restore
  <2> QED
    BY <1>3, <1>4, <2>1 DEF Restore
<1>5. ASSUME NEW q \in Rids, Forward(q) PROVE Cached'
  <2>1. row[q] \in Rows
    BY <1>5, Here DEF Forward, Settled
  <2> QED
    BY <1>1, <1>3, <1>5, <2>1 DEF Forward, slotVars
<1>6. ASSUME NEW q \in Rids, UndoEnd(q) PROVE Cached'
  <2> DEFINE lease == restoring[q].lease
  <2>1. Committed(lease)
    BY <1>6 DEF UndoEnd
  <2>2. CASE lease # NoLease /\ Require(lease, {"drained", "logical_flushed"})
    <3>1. /\ active' = [active EXCEPT ![lease.req_pool_idx] = NoLease]
          /\ requests' = [requests EXCEPT ![lease.req_pool_idx] = NoLease]
      BY <2>1, <2>2 DEF Committed
    <3> HIDE DEF lease
    <3>2. ASSUME NEW s \in Rows PROVE requests'[s] \in {NoLease, active'[s]}
      <4>1. CASE s = lease.req_pool_idx
        BY <1>2, <3>1, <4>1
      <4>2. CASE s # lease.req_pool_idx
        BY <1>2, <3>1, <4>2
      <4> QED
        BY <4>1, <4>2
    <3> QED
      BY <3>2 DEF Cached
  <2>3. CASE ~(lease # NoLease /\ Require(lease, {"drained", "logical_flushed"}))
    BY <1>1, <2>1, <2>3 DEF Committed, slotVars
  <2> QED
    BY <2>2, <2>3
<1>7. ASSUME NEW q \in Rids, Release(q) PROVE Cached'
  <2>1. /\ active' = [active EXCEPT ![row[q]] = NoLease]
        /\ requests' = [requests EXCEPT ![row[q]] = NoLease]
    BY <1>7 DEF Release
  <2> QED
    BY <1>2, <2>1 DEF Cached
<1>8. ASSUME NEW q \in Rids,
             \/ \E hit \in BOOLEAN : Match(q, hit)
             \/ Abort(q)
             \/ \E length \in Ends : Prepare(q, length)
             \/ AllocPrefix(q)
             \/ \E r \in Rows : AllocRow(q, r)
             \/ WriteRow(q) \/ HandMiss(q) \/ RestoreDone(q) \/ ForwardRaises(q)
      PROVE  Cached'
  BY <1>1, <1>8 DEF Match, Abort, Prepare, AllocPrefix, AllocRow, WriteRow, HandMiss, RestoreDone,
     ForwardRaises, slotVars
<1>9. ASSUME NEW q \in Rids,
             \/ Sync(q) \/ UndoChunk(q) \/ UndoFree(q) \/ UndoRow(q)
             \/ Raise(q) \/ Retry(q) \/ UndoRaises(q)
      PROVE  Cached'
  BY <1>1, <1>9 DEF Sync, UndoChunk, UndoFree, UndoRow, Raise, Retry, UndoRaises, slotVars
<1>10. ASSUME NEW q \in Rids, UndoDrain(q) \/ DrainFails(q) PROVE Cached'
  BY <1>1, <1>10 DEF UndoDrain, DrainFails, Drain, DrainRaises, slotVars
<1>11. CASE Flush
  BY <1>1, <1>11 DEF Flush, slotVars
<1>12. ASSUME NEW lease \in restores, Restored(lease) PROVE Cached'
  BY <1>1, <1>12 DEF Restored, slotVars
<1> QED
  BY <1>4, <1>5, <1>6, <1>7, <1>8, <1>9, <1>10, <1>11, <1>12 DEF Next, Continue

\* Every step keeps who holds what.
LEMMA CustodyStep ==
    ASSUME IInv, Next
    PROVE  SlotsInv' /\ TypeOK' /\ Custodied'
<1>1. ASSUME NEW q \in Rids, Raise(q) PROVE SlotsInv' /\ TypeOK' /\ Custodied'
  <2>1. restoring[q] # NoRecord
    BY <1>1, ExtendHere, RecordIs DEF Raise
  <2> QED
    BY <1>1, <2>1, ToRollback DEF Raise, reqVars, hostVars
<1>2. ASSUME NEW q \in Rids, Retry(q) PROVE SlotsInv' /\ TypeOK' /\ Custodied'
  BY <1>2, ToRollback DEF Retry, reqVars, hostVars
<1>3. ASSUME NEW q \in Rids, Continue(q) PROVE SlotsInv' /\ TypeOK' /\ Custodied'
  BY <1>3, AllocPrefixStep, AllocRowStep, WriteRowStep, HandMissStep, RestoreStep,
     RestoreDoneStep, ForwardStep, ForwardRaisesStep, SyncStep, UndoChunkStep, UndoDrainStep,
     UndoFreeStep, UndoRowStep, UndoEndStep DEF Continue
<1> QED
  BY <1>1, <1>2, <1>3, MatchStep, AbortStep, PrepareStep, RestoreStep, UndoRaisesStep,
     DrainFailsStep, ReleaseStep, FlushStep, RestoredStep DEF Next

\* The invariant is inductive.
LEMMA TransactionStep == IInv /\ [Next]_vars => IInv'
<1> SUFFICES ASSUME IInv, [Next]_vars PROVE IInv'
  OBVIOUS
<1>1. CASE Next
  BY <1>1, CustodyStep, ApartStep, EnoughStep, CachedStep DEF IInv
<1>2. CASE UNCHANGED vars
  <2>1. SlotsInv'
    BY <1>2, TableQuiet DEF IInv, vars
  <2>2. TypeOK'
    BY <1>2 DEF IInv, TypeOK, vars, reqVars, hostVars
  <2>3. Custodied'
    BY <1>2 DEF IInv, Custodied, Settled, RecordExact, Unbacked, LeaseKept, RestoreKept,
       RowsApart, Require,
       Suffix, PagesFor, vars, reqVars, hostVars, slotVars
  <2>4. Cached' /\ Enough'
    BY <1>2 DEF IInv, Cached, Enough, FreePages, PagesFor, vars, reqVars, slotVars
  <2>5. PagesApart'
    <3>1. \A q \in Rids : PagesHeld(q)' = PagesHeld(q)
      BY <1>2 DEF PagesHeld, vars, reqVars
    <3> QED
      BY <1>2, <3>1 DEF IInv, PagesApart, vars, reqVars
  <2> QED
    BY <2>1, <2>2, <2>3, <2>4, <2>5 DEF IInv
<1> QED
  BY <1>1, <1>2

----------------------------------------------------------------------------
(* What the transaction keeps true.                                        *)

\* The lease table keeps its invariant under the calls of the transaction:
\* every call is one of its methods, or returns a lease as a release does.
THEOREM TransactionTable == Spec => []SlotsInv
<1>1. IInv => SlotsInv
  BY DEF IInv
<1> QED
  BY TransactionInit, TransactionStep, <1>1, PTL DEF Spec

\* No page is lost or freed twice, whatever raises and however often a
\* rollback is repeated.
THEOREM NoPageLostOrShared == Spec => []PagesExact
<1>1. IInv => PagesExact
  <2> SUFFICES ASSUME IInv, NEW p \in Pages
               PROVE  free[p] + Cardinality({q \in Rids : p \in PagesHeld(q)}) = 1
    BY DEF PagesExact
  <2>1. /\ free[p] = IF \E q \in Rids : p \in PagesHeld(q) THEN 0 ELSE 1
        /\ \A q, r \in Rids : q # r => PagesHeld(q) \cap PagesHeld(r) = {}
    BY PagesHere
  <2>2. CASE \E q \in Rids : p \in PagesHeld(q)
    <3>1. PICK q \in Rids : p \in PagesHeld(q)
      BY <2>2
    <3>2. {r \in Rids : p \in PagesHeld(r)} = {q}
      BY <2>1, <3>1
    <3>3. Cardinality({r \in Rids : p \in PagesHeld(r)}) = 1
      BY <3>2, FS_Singleton
    <3>4. free[p] = 0
      BY <2>1, <2>2
    <3> QED
      BY <3>3, <3>4
  <2>3. CASE ~\E q \in Rids : p \in PagesHeld(q)
    <3>1. {r \in Rids : p \in PagesHeld(r)} = {}
      BY <2>3
    <3> QED
      BY <2>1, <2>3, <3>1, FS_EmptySet
  <2> QED
    BY <2>2, <2>3
<1> QED
  BY TransactionInit, TransactionStep, <1>1, PTL DEF Spec

\* What the device restores into stays the request's until it is done.
THEOREM RestoresArePinned == Spec => []RestorePinned
<1>1. IInv => RestorePinned
  <2> SUFFICES ASSUME IInv, NEW lease \in restores
               PROVE  LET q == lease.rid IN
                      /\ Require(lease, {"prefill", "failed", "releasing"})
                      /\ row[q] = lease.req_pool_idx
                      /\ table[q] # <<>>
                      /\ restoring[q].reader => q \in matches
    BY DEF RestorePinned
  <2> DEFINE q == lease.rid
  <2>1. /\ q \in Rids /\ RestoreKept(lease) /\ lease # NoLease /\ lease.req_pool_idx \in Rows
    BY RestoreHere
  <2>2. /\ active[lease.req_pool_idx] = lease /\ row[q] = lease.req_pool_idx
        /\ phases[lease.req_pool_idx] = "prefill"
    BY <2>1 DEF RestoreKept, Require
  <2>3. /\ Settled(q) /\ RecordExact(q) /\ allocated[q] \in Nat /\ LeaseKept(lease.req_pool_idx)
        /\ restoring[q] # NoRecord => restoring[q] \in Records
    BY <2>1, <2>2, Here, ActiveHere
  <2>4. allocated[q] # 0 /\ Len(table[q]) = PagesFor(allocated[q])
    <3>1. CASE restoring[q] = NoRecord
      BY <2>1, <2>2, <2>3, <3>1 DEF LeaseKept, Settled
    <3>2. CASE restoring[q] # NoRecord /\ restoring[q].fresh
      BY <2>1, <2>3, <3>2 DEF RestoreKept, RecordExact, Unbacked
    <3>3. CASE restoring[q] # NoRecord /\ ~restoring[q].fresh
      <4>1. stage[q] = "prefill"
        BY <2>1, <2>2, <3>3, <2>3 DEF LeaseKept
      <4> QED
        BY <2>3, <3>3, <4>1 DEF Settled, RecordExact, Unbacked
    <3> QED
      BY <3>1, <3>2, <3>3
  <2>5. table[q] # <<>>
    BY <2>3, <2>4, PagesForIs, EmptySeq
  <2>6. restoring[q].reader => q \in matches
    BY <2>3, RecordIs DEF RecordExact
  <2> QED
    BY <2>2, <2>5, <2>6 DEF Require
<1> QED
  BY TransactionInit, TransactionStep, <1>1, PTL DEF Spec

\* No reader is open without a match, and every active lease is in a record,
\* to be rolled back again, or with a request in prefill, to be released.
THEOREM EverythingIsReturned == Spec => []NothingLeaks
<1>1. IInv => NothingLeaks
  <2> SUFFICES ASSUME IInv PROVE NothingLeaks
    OBVIOUS
  <2>1. readers = Cardinality(matches)
    BY DEF IInv, Custodied
  <2>2. ASSUME NEW q \in Rids, restoring[q].reader PROVE q \in matches
    BY <2>2, Here, RecordIs DEF RecordExact
  <2>3. ASSUME NEW r \in Rows, active[r] # NoLease
        PROVE  \/ restoring[active[r].rid] # NoRecord
               \/ stage[active[r].rid] = "prefill" /\ requests[r] = active[r]
    BY <2>3, ActiveHere DEF LeaseKept
  <2> QED
    BY <2>1, <2>2, <2>3 DEF NothingLeaks
<1> QED
  BY TransactionInit, TransactionStep, <1>1, PTL DEF Spec

=============================================================================
