------------------------ MODULE QSALifecycle_proofs ------------------------
(***************************************************************************)
(* The life of requests on one rank, proved for any number of rows,        *)
(* generations, request IDs, chunks and failing calls: the books are exact,*)
(* and, when the synchronisation that cleans up after a failed handoff     *)
(* works, the device stays within the leases and the runtime implements    *)
(* QSACustody.                                                             *)
(***************************************************************************)
EXTENDS QSALifecycle, QSASlots_proofs, SequenceTheorems

\* The request of a lease is a request.
LEMMA LeaseRid == \A l \in Leases : l.rid \in Rids
BY DEF Leases

\* An active lease sits in its own row, and is what the table has there.
LEMMA ActiveIs ==
    ASSUME SlotsInv
    PROVE  /\ \A l \in Active : l \in Leases /\ active[l.req_pool_idx] = l
           /\ \A r \in Rows : active[r] # NoLease =>
                 active[r] \in Active /\ active[r].req_pool_idx = r
BY DEF SlotsInv, SlotsTypeOK, LeaseIdentity, Active

\* The cache a request owns is that of an active lease, of its own row.
LEMMA OwnsIs ==
    ASSUME BooksExact, NEW rid \in Rids, NEW lease, Owns(rid, lease)
    PROVE  /\ lease \in Leases /\ lease \in Active
           /\ row[rid] \in Rows
           /\ lease.req_pool_idx = row[rid]
           /\ lease.rid = rid
           /\ active[row[rid]] = lease
           /\ requests[row[rid]] = lease
           /\ lease.generation = generation[row[rid]]
           /\ phases[row[rid]] # "logical_flushed"
           /\ stage[rid] \notin {"waiting", "finished"}
<1>1. row[rid] \in Rows /\ lease = requests[row[rid]] /\ lease # NoLease /\ lease.rid = rid
  BY DEF BooksExact, TypeOK, Owns
<1>2. active[row[rid]] = lease
  BY <1>1 DEF BooksExact, CacheMatchesTable
<1>3. lease \in Leases /\ lease \in Active /\ lease.req_pool_idx = row[rid]
  BY <1>1, <1>2, ActiveIs DEF BooksExact
<1>4. stage[rid] \notin {"waiting", "finished"}
  BY <1>1, IdentityAssumption DEF BooksExact, RowsOwned
<1>5. phases[row[rid]] # "logical_flushed"
  BY <1>1, <1>3, <1>4 DEF BooksExact, LeasesOwned
<1> QED
  BY <1>1, <1>2, <1>3, <1>4, <1>5 DEF Owns

\* What a request owns it keeps, as long as its row, its cache and its entry
\* of the table stay.
LEMMA OwnsKept ==
    ASSUME NEW rid, NEW lease, Owns(rid, lease),
           row'[rid] = row[rid],
           requests'[row[rid]] = requests[row[rid]],
           active'[lease.req_pool_idx] = active[lease.req_pool_idx],
           phases'[lease.req_pool_idx] \in Phases,
           generation'[lease.req_pool_idx] = generation[lease.req_pool_idx]
    PROVE  Owns(rid, lease)'
BY DEF Owns, Require

\* StagedOnce depends on these variables alone.
LEMMA StagedFrame ==
    ASSUME StagedOnce, UNCHANGED <<stage, ack_staging_queue, row, requests, active, phases,
                                   generation>>
    PROVE  StagedOnce'
BY DEF StagedOnce, Owns, Require

\* PendingExact depends on these variables alone, and on call in part.
LEMMA PendingFrame ==
    ASSUME PendingExact, UNCHANGED <<stage, pending_releases, requests, active, phases>>,
           call'.op = "flushing" => call.op = "flushing"
    PROVE  PendingExact'
BY DEF PendingExact, Require

\* CacheMatchesTable depends on these variables alone.
LEMMA CacheFrame ==
    ASSUME CacheMatchesTable, UNCHANGED <<stage, row, requests, active, phases, generation>>
    PROVE  CacheMatchesTable'
BY DEF CacheMatchesTable, Owns, Require

\* LeasesOwned depends on these variables alone.
LEMMA LeasesFrame ==
    ASSUME LeasesOwned, UNCHANGED <<stage, row, active, phases, generation>>
    PROVE  LeasesOwned'
BY DEF LeasesOwned, Active

\* A release that stands or stopped behind the pages stays so, as long as its
\* lease is kept drained.
LEMMA UnpagedKept ==
    ASSUME NEW rid, Unpaged(rid),
           stage[rid] = "lost" => stage'[rid] = "lost",
           \A l \in Active : l.rid = rid /\ phases[l.req_pool_idx] = "drained" =>
              l \in Active' /\ phases'[l.req_pool_idx] = "drained"
    PROVE  Unpaged(rid)'
BY DEF Unpaged

\* PagesFollow, from the pages' side and the leases' side.
LEMMA PagesBy ==
    ASSUME PagesFollow, UNCHANGED <<row, pages, free_group>>,
           \A rid \in Rids : Unpaged(rid) => Unpaged(rid)',
           \A l \in Active' : phases'[l.req_pool_idx] = "logical_flushed" =>
              pages[l.rid] = "none"
    PROVE  PagesFollow'
BY DEF PagesFollow

\* Between calls nothing is asked of the lease of a call.
LEMMA CallIdle == call'.op \in {"idle", "flushing"} => CallExact'
BY DEF CallExact

\* The table's types and its runtime's, from the parts.
LEMMA SlotsKept == SlotsInv /\ UNCHANGED slotVars => SlotsInv'
BY StepInv

\* A parked lease is what its request owns, and is ready.
LEMMA ParkedIs ==
    ASSUME BooksExact, NEW i \in DOMAIN ack_staging_queue
    PROVE  LET l == ack_staging_queue[i] IN
           /\ l \in Leases /\ l \in Active /\ l.rid \in Rids
           /\ stage[l.rid] = "parked"
           /\ Owns(l.rid, l)
           /\ l.req_pool_idx = row[l.rid]
           /\ phases[l.req_pool_idx] = "host_ready"
<1>1. ack_staging_queue[i] \in Leases
  BY ElementOfSeq DEF BooksExact, TypeOK
<1>2. ack_staging_queue[i].rid \in Rids
  BY <1>1, LeaseRid
<1>3. Owns(ack_staging_queue[i].rid, ack_staging_queue[i])
      /\ Require(ack_staging_queue[i], {"host_ready"})
      /\ stage[ack_staging_queue[i].rid] = "parked"
  BY <1>1, <1>2 DEF BooksExact, StagedOnce
<1> QED
  BY <1>1, <1>2, <1>3, OwnsIs DEF Require

\* The queue, item by item.
LEMMA StagedHas ==
    ASSUME BooksExact
    PROVE  /\ \A q \in Rids : stage[q] = "parked" <=>
                 \E i \in DOMAIN ack_staging_queue : ack_staging_queue[i].rid = q
           /\ \A i, j \in DOMAIN ack_staging_queue :
                 ack_staging_queue[i].rid = ack_staging_queue[j].rid => i = j
<1>1. \A q \in Rids : stage[q] = "parked" <=>
         \E i \in DOMAIN ack_staging_queue : ack_staging_queue[i].rid = q
  BY DEF BooksExact, StagedOnce
<1>2. ASSUME NEW i \in DOMAIN ack_staging_queue, NEW j \in DOMAIN ack_staging_queue,
             ack_staging_queue[i].rid = ack_staging_queue[j].rid
      PROVE  i = j
  <2>1. ack_staging_queue[i].rid \in Rids
    BY ParkedIs
  <2> QED
    BY <1>2, <2>1 DEF BooksExact, StagedOnce
<1> QED
  BY <1>1, <1>2

\* What the queue must be, item by item, after a step.
LEMMA StagedBy ==
    ASSUME \A q \in Rids : stage'[q] = "parked" <=>
              \E i \in DOMAIN ack_staging_queue' : ack_staging_queue'[i].rid = q,
           \A i, j \in DOMAIN ack_staging_queue' :
              ack_staging_queue'[i].rid = ack_staging_queue'[j].rid => i = j,
           \A i \in DOMAIN ack_staging_queue' :
              /\ Owns(ack_staging_queue[i].rid, ack_staging_queue[i])'
              /\ phases'[ack_staging_queue'[i].req_pool_idx] = "host_ready",
           \A q \in Rids : stage'[q] = "running" =>
              phases'[row'[q]] \in {"decode", "failed", "releasing", "drained"}
    PROVE  StagedOnce'
BY DEF StagedOnce, Owns, Require

\* A step that moves only phases, work, counters and the call, never away
\* from the drained or into the flushed, keeps the books.
LEMMA PhasesStep ==
    ASSUME BooksExact, TypeOK', SlotsInv', CallExact',
           UNCHANGED <<active, generation, row, stage, pages, requests,
                       ack_staging_queue, pending_releases, free_group>>,
           \A r \in Rows : active[r] # NoLease =>
              \/ phases'[r] = phases[r]
              \/ /\ phases'[r] \in Phases \ {"logical_flushed"}
                 /\ phases[r] \notin {"drained", "logical_flushed"},
           \A rid \in Rids : stage[rid] = "running" =>
              phases'[row[rid]] \in {"decode", "failed", "releasing", "drained"},
           \A i \in DOMAIN ack_staging_queue :
              phases'[ack_staging_queue[i].req_pool_idx] = "host_ready",
           call'.op = "flushing" => call.op = "flushing"
    PROVE  BooksExact'
<1>1. /\ \A l \in Active : l \in Leases /\ l.req_pool_idx \in Rows
                           /\ active[l.req_pool_idx] = l /\ l # NoLease
      /\ Active' = Active
  BY ActiveIs, LeaseFields DEF BooksExact, Active
<1>2. RowsOwned'
  BY DEF BooksExact, RowsOwned
<1>3. LeasesOwned'
  BY <1>1 DEF BooksExact, LeasesOwned
<1>4. PagesFollow'
  BY <1>1 DEF BooksExact, PagesFollow, Unpaged
<1>5. ASSUME NEW rid \in Rids, NEW lease, Owns(rid, lease)
      PROVE  Owns(rid, lease)'
  <2>1. lease.req_pool_idx \in Rows /\ active[lease.req_pool_idx] # NoLease
        /\ phases[lease.req_pool_idx] \in Phases
    BY <1>1, <1>5, OwnsIs DEF Owns, Require
  <2> QED
    BY <1>5, <2>1, OwnsKept
<1>6. StagedOnce'
  BY <1>5 DEF BooksExact, StagedOnce, Require
<1>7. PendingExact'
  <2>1. ASSUME NEW i \in DOMAIN pending_releases
        PROVE  Require(pending_releases[i], {"drained", "logical_flushed"})'
    <3>1. pending_releases[i] \in Leases
          /\ Require(pending_releases[i], {"drained", "logical_flushed"})
      BY ElementOfSeq DEF BooksExact, TypeOK, PendingExact
    <3> QED
      BY <3>1, LeaseFields DEF Require
  <2> QED
    BY <2>1 DEF BooksExact, PendingExact
<1>8. CacheMatchesTable'
  BY <1>5 DEF BooksExact, CacheMatchesTable
<1> QED
  BY <1>2, <1>3, <1>4, <1>6, <1>7, <1>8 DEF BooksExact

----------------------------------------------------------------------------
(* The books, action by action.                                            *)

\* The runtime as __init__ leaves it satisfies the books.
LEMMA BooksInit == Init => BooksExact
<1> SUFFICES ASSUME Init PROVE BooksExact
  OBVIOUS
<1>1. SlotsInv /\ Active = {}
  BY InitInv DEF Init, SlotsInit, Active
<1>2. TypeOK
  <2>1. call \in [op : {"idle", "flushing"}, lease : {NoLease}]
    BY DEF Init, Idle
  <2>2. ack_staging_queue \in Seq(Leases) /\ pending_releases \in Seq(Leases)
    BY EmptySeq DEF Init
  <2>3. steps \in [Rids -> 0..MaxSteps] /\ faults \in 0..MaxFaults
    BY BoundsAssumption DEF Init
  <2> QED
    BY <1>1, <2>1, <2>2, <2>3 DEF TypeOK, SlotsInv, Init, Stages
<1>3. ack_staging_queue = <<>> /\ pending_releases = <<>> /\ Len(<<>>) = 0
  BY EmptySeq DEF Init
<1>4. StagedOnce /\ PendingExact
  BY <1>3 DEF StagedOnce, PendingExact, Init, Idle
<1>5. RowsOwned /\ LeasesOwned /\ CallExact /\ PagesFollow
  BY <1>1 DEF RowsOwned, LeasesOwned, CallExact, PagesFollow, Init, Idle
<1>6. CacheMatchesTable
  BY <1>1 DEF CacheMatchesTable, Init
<1> QED
  BY <1>1, <1>2, <1>4, <1>5, <1>6 DEF BooksExact

\* A row goes to a waiting request: nothing in the books is about it yet, and
\* what is in the books about the row is about a request that finished.
LEMMA AllocRowStep ==
    ASSUME BooksExact, NEW rid \in Rids, NEW r \in Rows, AllocRow(rid, r)
    PROVE  BooksExact'
<1>1. /\ call = Idle
      /\ stage[rid] = "waiting"
      /\ \A q \in Rids : row[q] # r
      /\ generation[r] + 1 \in Generations
      /\ row' = [row EXCEPT ![rid] = r]
      /\ generation' = [generation EXCEPT ![r] = @ + 1]
      /\ pages' = [pages EXCEPT ![rid] = "held"]
      /\ stage' = [stage EXCEPT ![rid] = "prefill"]
      /\ UNCHANGED <<slotVars, steps, requests, queueVars, free_group,
                     graph_failed_leases, work, call, faults>>
  BY DEF AllocRow
<1>2. /\ row \in [Rids -> Rows \cup {0}] /\ stage \in [Rids -> Stages]
      /\ generation \in [Rows -> Generations \cup {0}]
      /\ pages \in [Rids -> {"none", "held", "grouped"}]
      /\ r # 0 /\ row[rid] = 0
  BY <1>1, IdentityAssumption DEF BooksExact, TypeOK, RowsOwned
<1>3. UNCHANGED slotVars /\ UNCHANGED <<active, phases, requests, ack_staging_queue,
                                        pending_releases>>
  BY <1>1 DEF slotVars, queueVars
<1>4. SlotsInv'
  BY <1>3, SlotsKept DEF BooksExact
<1>5. TypeOK'
  BY <1>1, <1>2, <1>3, <1>4 DEF BooksExact, TypeOK, SlotsInv, Stages, queueVars
<1>6. RowsOwned'
  BY <1>1, <1>2 DEF BooksExact, RowsOwned
<1>7. LeasesOwned'
  <2>1. ASSUME NEW l \in Active
        PROVE  /\ l.rid \in Rids /\ l.rid # rid
               /\ l.req_pool_idx \in Rows /\ (row[l.rid] = l.req_pool_idx => l.req_pool_idx # r)
    <3>1. l.rid \in Rids /\ l.req_pool_idx \in Rows /\ l.req_pool_idx # 0
      BY ActiveIs, LeaseRid, LeaseFields, IdentityAssumption DEF BooksExact
    <3> QED
      BY <1>1, <1>2, <3>1 DEF BooksExact, LeasesOwned
  <2>2. \A q \in Rids : q # rid => row'[q] = row[q] /\ stage'[q] = stage[q]
    BY <1>1, <1>2
  <2>3. \A q \in Rows : q # r => generation'[q] = generation[q]
    BY <1>1, <1>2
  <2>4. Active' = Active
    BY <1>3 DEF Active
  <2> QED
    BY <1>3, <2>1, <2>2, <2>3, <2>4 DEF BooksExact, LeasesOwned
<1>8. CallExact'
  BY <1>1 DEF CallExact, Idle
<1>9. PagesFollow'
  <2>1. ASSUME NEW l \in Active, phases[l.req_pool_idx] = "logical_flushed"
        PROVE  l.rid \in Rids /\ l.rid # rid
    BY <1>1, <2>1, ActiveIs, LeaseRid DEF BooksExact, LeasesOwned
  <2> QED
    BY <1>1, <1>2, <1>3, <2>1 DEF BooksExact, PagesFollow, Unpaged, Active
<1>10. ASSUME NEW q \in Rids, NEW lease, Owns(q, lease)
       PROVE  q # rid /\ Owns(q, lease)'
  <2>1. row[q] # 0 /\ row[q] # r /\ lease.req_pool_idx = row[q]
    BY <1>1, <1>10, OwnsIs DEF Owns
  <2> QED
    BY <1>1, <1>2, <1>3, <1>10, <2>1 DEF Owns, Require
<1>11. StagedOnce'
  <2>1. \A q \in Rids : q # rid => row'[q] = row[q] /\ stage'[q] = stage[q]
    BY <1>1, <1>2
  <2>2. stage'[rid] = "prefill"
    BY <1>1, <1>2
  <2> QED
    BY <1>1, <1>3, <1>10, <2>1, <2>2 DEF BooksExact, StagedOnce, Require
<1>12. PendingExact'
  BY <1>1, <1>2, <1>3, LeaseRid DEF BooksExact, PendingExact, Require
<1>13. CacheMatchesTable'
  BY <1>1, <1>2, <1>3, <1>10 DEF BooksExact, CacheMatchesTable
<1> QED
  BY <1>4, <1>5, <1>6, <1>7, <1>8, <1>9, <1>11, <1>12, <1>13 DEF BooksExact

\* A step that leaves the table and the books alone keeps them.
LEMMA QuietStep ==
    ASSUME BooksExact, CallExact',
           UNCHANGED <<slotVars, generation, row, stage, pages, requests,
                       ack_staging_queue, pending_releases, free_group, graph_failed_leases>>,
           work' \subseteq Work,
           steps' \in [Rids -> 0..MaxSteps],
           faults' \in 0..MaxFaults,
           call' \in {call, Idle}
    PROVE  BooksExact'
<1>1. SlotsInv' /\ phases' = phases /\ active' = active
  BY SlotsKept DEF BooksExact, slotVars
<1>2. Idle \in [op : {"idle", "flushing"}, lease : {NoLease}] /\ Idle.op = "idle"
  BY DEF Idle
<1>3. TypeOK'
  BY <1>1, <1>2 DEF BooksExact, TypeOK, SlotsInv
<1>4. \A i \in DOMAIN ack_staging_queue :
         phases[ack_staging_queue[i].req_pool_idx] = "host_ready"
  BY ParkedIs
<1>5. \A rid \in Rids : stage[rid] = "running" =>
         phases[row[rid]] \in {"decode", "failed", "releasing", "drained"}
  BY DEF BooksExact, StagedOnce
<1> QED
  BY <1>1, <1>2, <1>3, <1>4, <1>5, PhasesStep

\* Work on a lease, tracked or not.
LEMMA SubmitIs ==
    \A lease \in Leases, kind \in Kinds :
       /\ Submit(lease, kind) \in Work
       /\ Submit(lease, kind).lease = lease
       /\ Submit(lease, kind).kind = kind
       /\ Submit(lease, kind).tracked
BY DEF Submit, Work

\* Losing the event of a piece of work changes nothing else of it.
LEMMA UntrackedIs ==
    \A w \in Work : /\ Untracked(w) \in Work
                     /\ Untracked(w).lease = w.lease
                     /\ Untracked(w).kind = w.kind
BY DEF Untracked, Work

\* A chunk's forward, a batch's forward and finished work touch no book.
LEMMA PrefillChunkStep ==
    ASSUME BooksExact, NEW rid \in Rids, NEW lease \in Active, PrefillChunk(rid, lease)
    PROVE  BooksExact'
<1>1. /\ steps' = [steps EXCEPT ![rid] = @ - 1] /\ steps[rid] > 0
      /\ work' = work \cup {Submit(lease, "prefill")}
      /\ UNCHANGED <<slotVars, generation, row, stage, pages, requests, queueVars, free_group,
                     graph_failed_leases, call, faults>>
      /\ call = Idle
  BY DEF PrefillChunk
<1>2. work' \subseteq Work
  BY <1>1, ActiveIs, SubmitIs DEF BooksExact, TypeOK, Kinds
<1>3. steps' \in [Rids -> 0..MaxSteps]
  BY <1>1, BoundsAssumption DEF BooksExact, TypeOK
<1>4. faults' \in 0..MaxFaults
  BY <1>1, BoundsAssumption DEF BooksExact, TypeOK
<1>5. CallExact'
  BY <1>1, CallIdle DEF Idle
<1> QED
  BY <1>1, <1>2, <1>3, <1>4, <1>5, QuietStep DEF queueVars

\* What a batch's forward submits is work on the caches of the batch.
LEMMA BatchWorkIs ==
    ASSUME BooksExact, NEW batch \in SUBSET Rids, NEW closing \in SUBSET batch,
           Batchable(batch)
    PROVE  /\ BatchWork(batch, closing) \subseteq Work
           /\ \A w \in BatchWork(batch, closing) :
                 /\ w.tracked /\ w.kind \in {"decode", "writeback"}
                 /\ \E rid \in batch : w.lease = requests[row[rid]]
<1>1. \A rid \in batch : requests[row[rid]] \in Leases
  BY OwnsIs DEF Batchable
<1> QED
  BY <1>1, SubmitIs DEF BatchWork, Kinds

\* The batch's forwards are counted.
LEMMA AdvanceType ==
    ASSUME BooksExact, NEW batch \in SUBSET Rids, Batchable(batch), Advance(batch)
    PROVE  steps' \in [Rids -> 0..MaxSteps]
BY BoundsAssumption DEF BooksExact, TypeOK, Batchable, Advance

\* A decode step only adds work.
LEMMA DecodeStep ==
    ASSUME BooksExact, NEW batch \in SUBSET Rids, NEW closing \in SUBSET batch,
           Decode(batch, closing)
    PROVE  BooksExact'
<1>1. work' \subseteq Work
  BY BatchWorkIs DEF BooksExact, TypeOK, Decode
<1>2. steps' \in [Rids -> 0..MaxSteps]
  BY AdvanceType DEF Decode
<1>3. faults' \in 0..MaxFaults
  BY BoundsAssumption DEF BooksExact, TypeOK, Decode
<1>4. CallExact'
  BY CallIdle DEF Decode, Batchable, Idle
<1> QED
  BY <1>1, <1>2, <1>3, <1>4, QuietStep DEF Decode, queueVars

\* A step that changes nothing the calls in progress ask about keeps that part.
LEMMA CallFrame ==
    ASSUME CallExact, UNCHANGED <<call, row, requests, active, phases, generation, stage,
                                  pages, pending_releases>>
    PROVE  CallExact'
BY DEF CallExact, Owns, Require

\* The device finishes work: no book changes.
LEMMA CompleteStep ==
    ASSUME BooksExact, NEW w \in work, Complete(w)
    PROVE  BooksExact'
<1>1. CallExact'
  BY CallFrame DEF BooksExact, Complete, slotVars, reqVars, queueVars
<1>2. faults' \in 0..MaxFaults
  BY BoundsAssumption DEF BooksExact, TypeOK, Complete
<1> QED
  BY <1>1, <1>2, QuietStep DEF BooksExact, TypeOK, Complete, reqVars, queueVars

\* A fault is counted.
LEMMA FaultType ==
    ASSUME BooksExact, Fault
    PROVE  faults' \in 0..MaxFaults /\ faults' < faults
BY BoundsAssumption DEF BooksExact, TypeOK, Fault

\* A call that raises leaves the books as they are.
LEMMA RaiseStep ==
    ASSUME BooksExact, Raise
    PROVE  BooksExact'
<1>1. CallExact'
  BY CallIdle DEF Raise, Idle
<1>2. faults' \in 0..MaxFaults /\ faults' < faults
  BY FaultType DEF Raise
<1> QED
  BY <1>1, <1>2, QuietStep DEF BooksExact, TypeOK, Raise, reqVars, queueVars

\* A step that moves the phase of one lease, of a request that is not parked,
\* keeps the books.
LEMMA OnePhaseStep ==
    ASSUME BooksExact, TypeOK', SlotsInv', CallExact',
           NEW rid \in Rids, NEW lease, Owns(rid, lease), stage[rid] # "parked",
           NEW phase \in Phases \ {"logical_flushed"}, SetPhase(lease, phase),
           phases[lease.req_pool_idx] \notin {"drained", "logical_flushed"},
           stage[rid] = "running" => phase \in {"decode", "failed", "releasing", "drained"},
           UNCHANGED <<active, generation, row, stage, pages, requests,
                       ack_staging_queue, pending_releases, free_group>>,
           call'.op = "flushing" => call.op = "flushing"
    PROVE  BooksExact'
<1>1. /\ lease \in Leases /\ lease \in Active
      /\ row[rid] \in Rows /\ lease.req_pool_idx = row[rid]
      /\ active[row[rid]] = lease
  BY OwnsIs
<1>2. phases' = [phases EXCEPT ![row[rid]] = phase] /\ phases \in [Rows -> Phases \cup {"none"}]
  BY <1>1 DEF SetPhase, BooksExact, SlotsInv, SlotsTypeOK
<1>3. \A r \in Rows : active[r] # NoLease =>
         \/ phases'[r] = phases[r]
         \/ /\ phases'[r] \in Phases \ {"logical_flushed"}
            /\ phases[r] \notin {"drained", "logical_flushed"}
  BY <1>1, <1>2
<1>4. ASSUME NEW q \in Rids, stage[q] = "running"
      PROVE  phases'[row[q]] \in {"decode", "failed", "releasing", "drained"}
  <2>1. CASE q = rid
    BY <2>1, <1>1, <1>2, <1>4
  <2>2. CASE q # rid
    <3>1. row[q] \in Rows /\ row[q] # row[rid]
      <4>1. row[q] \in Rows \cup {0} /\ RowsOwned
        BY DEF BooksExact, TypeOK
      <4>2. row[q] # 0
        BY <1>4, <4>1 DEF RowsOwned
      <4> QED
        BY <1>1, <2>2, <4>1, <4>2 DEF RowsOwned
    <3> QED
      BY <3>1, <1>2, <1>4 DEF BooksExact, StagedOnce
  <2> QED
    BY <2>1, <2>2
<1>5. ASSUME NEW i \in DOMAIN ack_staging_queue
      PROVE  phases'[ack_staging_queue[i].req_pool_idx] = "host_ready"
  <2> DEFINE l == ack_staging_queue[i]
  <2>1. l.rid \in Rids /\ l.rid # rid /\ l.req_pool_idx = row[l.rid]
        /\ phases[l.req_pool_idx] = "host_ready" /\ l.req_pool_idx \in Rows
    BY ParkedIs, LeaseFields
  <2>2. row[l.rid] # row[rid]
    BY <2>1, <1>1, IdentityAssumption DEF BooksExact, RowsOwned
  <2> QED
    BY <2>1, <2>2, <1>1, <1>2
<1> QED
  BY <1>3, <1>4, <1>5, PhasesStep

\* Where the thread may stand inside a call on a lease.
LEMMA AtIs ==
    \A op \in {"handoff", "handed", "drained", "unpaged", "freed"}, lease \in Leases :
       /\ At(op, lease) \in [op : {"handoff", "handed", "drained", "unpaged", "freed"},
                              lease : Leases]
       /\ At(op, lease).op = op
       /\ At(op, lease).lease = lease
BY DEF At

\* The lease of a call in progress is a lease.
LEMMA CallLease ==
    ASSUME BooksExact, call.op \in {"handoff", "handed", "drained", "unpaged", "freed"}
    PROVE  call.lease \in Leases /\ call.lease.rid \in Rids
BY LeaseRid DEF BooksExact, TypeOK

\* The handoff begins: its lease is where the call says.
LEMMA HandoffBeginStep ==
    ASSUME BooksExact, NEW rid \in Rids, NEW lease \in Active, HandoffBegin(rid, lease)
    PROVE  BooksExact'
<1>1. /\ call = Idle
      /\ stage[rid] = "prefill"
      /\ Owns(rid, lease)
      /\ Require(lease, {"prefill"})
      /\ SetPhase(lease, "copying")
      /\ work' = work \cup {Submit(lease, "handoff")}
      /\ call' = At("handoff", lease)
      /\ UNCHANGED <<active, last_generation, free_slots, prefill_owner,
                     generation, row, stage, steps, pages, requests, ack_staging_queue,
                     pending_releases, free_group, graph_failed_leases, faults>>
  BY DEF HandoffBegin, BeginHandoff, reqVars, queueVars
<1>2. /\ lease \in Leases /\ row[rid] \in Rows /\ lease.req_pool_idx = row[rid]
      /\ lease.rid = rid /\ active[row[rid]] = lease
  BY <1>1, OwnsIs
<1>3. SlotsInv'
  <2>1. BeginHandoff(lease)
    BY DEF HandoffBegin
  <2> QED
    BY <1>2, <2>1, StepInv DEF SlotsNext, BooksExact
<1>4. call'.op = "handoff" /\ call'.lease = lease
  BY <1>1, <1>2, AtIs
<1>5. phases'[lease.req_pool_idx] = "copying" /\ "copying" \in Phases
  BY <1>1, <1>2 DEF SetPhase, BooksExact, SlotsInv, SlotsTypeOK, Phases
<1>6. TypeOK'
  <2>1. work' \subseteq Work
    BY <1>1, <1>2, SubmitIs DEF BooksExact, TypeOK, Kinds
  <2> QED
    BY <1>1, <1>2, <1>3, <2>1, AtIs DEF BooksExact, TypeOK, SlotsInv
<1>7. CallExact'
  <2>1. Owns(rid, lease)'
    BY <1>1, <1>5, OwnsKept
  <2>2. Require(lease, {"copying"})'
    BY <1>1, <1>2, <1>5 DEF Require
  <2> QED
    BY <1>1, <1>2, <1>4, <2>1, <2>2 DEF CallExact
<1>8. "copying" \in Phases \ {"logical_flushed"} /\ call.op = "idle"
  BY <1>1 DEF Phases, Idle
<1>9. phases[lease.req_pool_idx] = "prefill"
  BY <1>1 DEF Require
<1> QED
  BY <1>1, <1>3, <1>4, <1>6, <1>7, <1>8, <1>9, OnePhaseStep

\* The handoff's event is done: the lease is ready, the lane is free.
LEMMA HandoffFinishStep ==
    ASSUME BooksExact, HandoffFinish
    PROVE  BooksExact'
<1>0. PICK lease \in Leases, rid \in Rids : call.lease = lease /\ lease.rid = rid
  BY CallLease DEF HandoffFinish
<1>1. /\ call.op = "handoff"
      /\ Require(lease, {"copying"})
      /\ SetPhase(lease, "host_ready")
      /\ call' = At("handed", lease)
      /\ UNCHANGED <<active, last_generation, free_slots,
                     generation, row, stage, steps, pages, requests, ack_staging_queue,
                     pending_releases, free_group, graph_failed_leases, work, faults>>
  BY <1>0 DEF HandoffFinish, FinishHandoff, reqVars, queueVars
<1>2. /\ Owns(rid, lease) /\ stage[rid] = "prefill" /\ rid \in Rids
  BY <1>0, <1>1 DEF BooksExact, CallExact
<1>3. /\ lease \in Leases /\ row[rid] \in Rows /\ lease.req_pool_idx = row[rid]
      /\ active[row[rid]] = lease
  BY <1>2, OwnsIs
<1>4. SlotsInv'
  <2>1. FinishHandoff(lease, WorkOf(lease) = {}) /\ (WorkOf(lease) = {}) \in BOOLEAN
    BY <1>0 DEF HandoffFinish
  <2> QED
    BY <1>3, <2>1, FinishHandoffStep DEF BooksExact
<1>5. call'.op = "handed" /\ call'.lease = lease
  BY <1>1, <1>3, AtIs
<1>6. phases'[lease.req_pool_idx] = "host_ready" /\ "host_ready" \in Phases
  BY <1>1, <1>3 DEF SetPhase, BooksExact, SlotsInv, SlotsTypeOK, Phases
<1>7. TypeOK'
  BY <1>1, <1>3, <1>4, AtIs DEF BooksExact, TypeOK, SlotsInv
<1>8. CallExact'
  <2>1. Owns(rid, lease)'
    BY <1>1, <1>2, <1>6, OwnsKept
  <2>2. Require(lease, {"host_ready"})'
    BY <1>1, <1>3, <1>6 DEF Require
  <2> QED
    BY <1>0, <1>1, <1>2, <1>5, <2>1, <2>2 DEF CallExact
<1>9. "host_ready" \in Phases \ {"logical_flushed"}
       /\ phases[lease.req_pool_idx] = "copying"
  BY <1>1 DEF Phases, Require
<1> QED
  BY <1>1, <1>2, <1>4, <1>5, <1>7, <1>8, <1>9, OnePhaseStep

\* A handoff that raises leaves its lease failed and its request in prefill.
LEMMA HandoffFailsStep ==
    ASSUME BooksExact, NEW cleaned \in BOOLEAN, HandoffFails(cleaned)
    PROVE  BooksExact'
<1>0. PICK lease \in Leases, rid \in Rids : call.lease = lease /\ lease.rid = rid
  BY CallLease DEF HandoffFails
<1>1. /\ call.op \in {"handoff", "handed"}
      /\ MarkFailed(lease)
      /\ SetPhase(lease, "failed")
      /\ call' = Idle
      /\ Fault
      /\ UNCHANGED <<active, last_generation, free_slots, prefill_owner,
                     generation, row, stage, steps, pages, requests, ack_staging_queue,
                     pending_releases, free_group, graph_failed_leases>>
  BY <1>0 DEF HandoffFails, MarkFailed, reqVars, queueVars
<1>2. /\ Owns(rid, lease) /\ stage[rid] = "prefill" /\ rid \in Rids
      /\ phases[lease.req_pool_idx] \in {"copying", "host_ready"}
  BY <1>0, <1>1 DEF BooksExact, CallExact, Require
<1>3. /\ lease \in Leases /\ row[rid] \in Rows /\ lease.req_pool_idx = row[rid]
      /\ active[row[rid]] = lease
  BY <1>2, OwnsIs
<1>4. SlotsInv'
  BY <1>1, <1>3, StepInv DEF SlotsNext, BooksExact
<1>5. faults' \in 0..MaxFaults /\ faults' < faults
  BY <1>1, FaultType
<1>6. work' \subseteq Work
  <2>1. work \subseteq Work
    BY DEF BooksExact, TypeOK
  <2> QED
    BY <2>1, UntrackedIs DEF HandoffFails, CopyStream
<1>7. Idle \in [op : {"idle", "flushing"}, lease : {NoLease}] /\ Idle.op = "idle"
  BY DEF Idle
<1>8. TypeOK'
  BY <1>1, <1>3, <1>4, <1>5, <1>6, <1>7 DEF BooksExact, TypeOK, SlotsInv
<1>9. CallExact'
  BY <1>1, <1>7, CallIdle
<1>10. "failed" \in Phases \ {"logical_flushed"}
  BY DEF Phases
<1> QED
  BY <1>1, <1>2, <1>4, <1>5, <1>7, <1>8, <1>9, <1>10, OnePhaseStep

\* The streams are quiet: the lease is drained, and the call goes on with it.
LEMMA ReleaseStep ==
    ASSUME BooksExact, NEW rid \in Rids, NEW lease \in Active, Release(rid, lease)
    PROVE  BooksExact'
<1>1. /\ call = Idle
      /\ stage[rid] \in {"prefill", "running"}
      /\ Owns(rid, lease)
      /\ Require(lease, Drainable)
      /\ Drain(lease)
      /\ SetPhase(lease, "drained")
      /\ call' = At("drained", lease)
      /\ UNCHANGED <<active, last_generation, free_slots,
                     generation, row, stage, steps, pages, requests, ack_staging_queue,
                     pending_releases, free_group, work, faults>>
      /\ graph_failed_leases' = graph_failed_leases \ {lease}
  BY DEF Release, Releasable, Drain, reqVars, queueVars
<1>2. /\ lease \in Leases /\ row[rid] \in Rows /\ lease.req_pool_idx = row[rid]
      /\ lease.rid = rid /\ active[row[rid]] = lease
  BY <1>1, OwnsIs
<1>3. SlotsInv'
  BY <1>1, <1>2, DrainStep DEF BooksExact
<1>4. call'.op = "drained" /\ call'.lease = lease
  BY <1>1, <1>2, AtIs
<1>5. phases'[lease.req_pool_idx] = "drained" /\ "drained" \in Phases
  BY <1>1, <1>2 DEF SetPhase, BooksExact, SlotsInv, SlotsTypeOK, Phases
<1>6. TypeOK'
  BY <1>1, <1>2, <1>3, AtIs DEF BooksExact, TypeOK, SlotsInv
<1>7. CallExact'
  <2>1. Owns(rid, lease)'
    BY <1>1, <1>5, OwnsKept
  <2>2. Require(lease, {"drained"})'
    BY <1>1, <1>2, <1>5 DEF Require
  <2> QED
    BY <1>1, <1>2, <1>4, <2>1, <2>2 DEF CallExact
<1>8. "drained" \in Phases \ {"logical_flushed"} /\ call.op = "idle"
  BY <1>1 DEF Phases, Idle
<1>9. phases[lease.req_pool_idx] \notin {"drained", "logical_flushed"}
  BY <1>1 DEF Require, Drainable
<1> QED
  BY <1>1, <1>3, <1>4, <1>6, <1>7, <1>8, <1>9, OnePhaseStep

\* A drain that raises moves the phase and nothing else.
LEMMA ReleaseFailsStep ==
    ASSUME BooksExact, NEW rid \in Rids, NEW lease \in Active,
           NEW left \in {"failed", "releasing"}, ReleaseFails(rid, lease, left)
    PROVE  BooksExact'
<1>1. /\ call = Idle
      /\ stage[rid] \in {"prefill", "running"}
      /\ Owns(rid, lease)
      /\ Require(lease, Drainable)
      /\ DrainRaises(lease, left)
      /\ SetPhase(lease, left)
      /\ Fault
      /\ UNCHANGED <<active, last_generation, free_slots, prefill_owner,
                     generation, row, stage, steps, pages, requests, ack_staging_queue,
                     pending_releases, free_group, work, call>>
      /\ graph_failed_leases' = graph_failed_leases \ {lease}
  BY DEF ReleaseFails, Releasable, DrainRaises, reqVars, queueVars
<1>2. lease \in Leases
  BY <1>1, OwnsIs
<1>3. SlotsInv'
  BY <1>1, <1>2, StepInv DEF SlotsNext, BooksExact
<1>4. faults' \in 0..MaxFaults /\ faults' < faults
  BY <1>1, FaultType
<1>5. TypeOK'
  BY <1>1, <1>2, <1>3, <1>4 DEF BooksExact, TypeOK, SlotsInv
<1>6. CallExact'
  BY <1>1, CallIdle DEF Idle
<1>7. left \in Phases \ {"logical_flushed"} /\ left \in {"failed", "releasing"}
  BY DEF Phases
<1>8. phases[lease.req_pool_idx] \notin {"drained", "logical_flushed"}
  BY <1>1 DEF Require, Drainable
<1> QED
  BY <1>1, <1>3, <1>5, <1>6, <1>7, <1>8, OnePhaseStep

\* Several leases past the handoff move at once; the table stays sound.
LEMMA ManyPhases ==
    ASSUME SlotsInv, NEW leases, NEW phase \in Phases \ {"prefill", "copying"},
           \A lease \in leases : \A r \in Rows :
              active[r] = lease => phases[r] \in {"host_ready", "decode"},
           phases' = [r \in Rows |-> IF active[r] \in leases THEN phase ELSE phases[r]],
           \A lease \in leases : lease # NoLease,
           UNCHANGED <<active, last_generation, free_slots, prefill_owner>>
    PROVE  SlotsInv'
<1>1. SlotsTypeOK'
  BY DEF SlotsInv, SlotsTypeOK
<1>2. SlotConservation'
  BY DEF SlotsInv, SlotConservation
<1>3. phase # "none"
  BY DEF Phases
<1>4. LeaseIdentity'
  BY <1>3 DEF SlotsInv, SlotsTypeOK, LeaseIdentity
<1>5. LaneExclusive'
  BY LeaseFields DEF SlotsInv, SlotsTypeOK, LaneExclusive
<1> QED
  BY <1>1, <1>2, <1>4, <1>5 DEF SlotsInv

\* The caches of a batch are active leases in decode.
LEMMA BatchIs ==
    ASSUME BooksExact, NEW batch \in SUBSET Rids, Batchable(batch)
    PROVE  \A rid \in batch :
              LET l == requests[row[rid]] IN
              /\ l \in Leases /\ l \in Active /\ l # NoLease
              /\ row[rid] \in Rows /\ l.req_pool_idx = row[rid] /\ l.rid = rid
              /\ active[row[rid]] = l
              /\ phases[row[rid]] = "decode"
              /\ stage[rid] = "running"
<1> SUFFICES ASSUME NEW rid \in batch
             PROVE  LET l == requests[row[rid]] IN
              /\ l \in Leases /\ l \in Active /\ l # NoLease
              /\ row[rid] \in Rows /\ l.req_pool_idx = row[rid] /\ l.rid = rid
              /\ active[row[rid]] = l
              /\ phases[row[rid]] = "decode"
              /\ stage[rid] = "running"
  OBVIOUS
<1>1. Owns(rid, requests[row[rid]]) /\ Require(requests[row[rid]], {"decode"})
      /\ stage[rid] = "running"
  BY DEF Batchable
<1> QED
  BY <1>1, OwnsIs, LeaseFields DEF Require

\* A failed replay fails the leases of its batch, and none that is parked or
\* on its way out.
LEMMA GraphFailsStep ==
    ASSUME BooksExact, NEW batch \in SUBSET Rids, NEW closing \in SUBSET batch,
           NEW streams_drained \in BOOLEAN, GraphFails(batch, closing, streams_drained)
    PROVE  BooksExact'
<1> DEFINE leases == {requests[row[rid]] : rid \in batch}
<1>1. /\ Batchable(batch) /\ call = Idle /\ Advance(batch) /\ Fault
      /\ phases' = [r \in Rows |-> IF active[r] \in leases THEN "failed" ELSE phases[r]]
      /\ UNCHANGED <<active, last_generation, free_slots, prefill_owner, generation, row,
                     stage, pages, requests, ack_staging_queue, pending_releases,
                     free_group, call>>
  BY DEF GraphFails, Batchable, queueVars
<1>2. \A lease \in leases : /\ lease \in Leases /\ lease # NoLease /\ lease \in Active
                            /\ active[lease.req_pool_idx] = lease
                            /\ phases[lease.req_pool_idx] = "decode"
  BY <1>1, BatchIs
<1>3. \A lease \in leases : \A r \in Rows : active[r] = lease => phases[r] = "decode"
  BY <1>2, ActiveIs DEF BooksExact
<1>4. "failed" \in Phases \ {"prefill", "copying"} /\ "failed" \in Phases \ {"logical_flushed"}
  BY DEF Phases
<1>5. leases \subseteq Leases
  BY <1>2
<1>6. work' \subseteq Work /\ graph_failed_leases' \subseteq Leases
  <2>1. BatchWork(batch, {}) \subseteq Work /\ BatchWork({}, closing) \subseteq Work
    BY <1>1, BatchWorkIs, SubmitIs, BatchIs DEF BatchWork, Kinds
  <2>2. work \subseteq Work /\ graph_failed_leases \subseteq Leases
    BY DEF BooksExact, TypeOK
  <2> QED
    BY <1>5, <2>1, <2>2, UntrackedIs DEF GraphFails
<1> HIDE DEF leases
<1>7. SlotsInv'
  BY <1>1, <1>2, <1>3, <1>4, ManyPhases DEF BooksExact
<1>8. faults' \in 0..MaxFaults
  BY <1>1, FaultType
<1>9. steps' \in [Rids -> 0..MaxSteps]
  BY <1>1, AdvanceType
<1>10. TypeOK'
  BY <1>1, <1>6, <1>7, <1>8, <1>9 DEF BooksExact, TypeOK, SlotsInv
<1>11. CallExact'
  BY <1>1, CallIdle DEF Idle
<1>12. \A r \in Rows : active[r] # NoLease =>
          \/ phases'[r] = phases[r]
          \/ /\ phases'[r] \in Phases \ {"logical_flushed"}
             /\ phases[r] \notin {"drained", "logical_flushed"}
  BY <1>1, <1>3, <1>4
<1>13. ASSUME NEW rid \in Rids, stage[rid] = "running"
       PROVE  phases'[row[rid]] \in {"decode", "failed", "releasing", "drained"}
  <2>1. row[rid] \in Rows
    BY <1>13, OwnsIs DEF BooksExact, CacheMatchesTable
  <2> QED
    BY <1>1, <1>13, <2>1 DEF BooksExact, StagedOnce
<1>14. ASSUME NEW i \in DOMAIN ack_staging_queue
       PROVE  phases'[ack_staging_queue[i].req_pool_idx] = "host_ready"
  <2>1. LET l == ack_staging_queue[i] IN
        l.req_pool_idx \in Rows /\ phases[l.req_pool_idx] = "host_ready"
    BY ParkedIs, LeaseFields
  <2> QED
    BY <1>1, <1>3, <2>1
<1> QED
  BY <1>1, <1>7, <1>8, <1>10, <1>11, <1>12, <1>13, <1>14, PhasesStep DEF Idle

\* The ready lease is parked: its request was not in the queue before.
LEMMA ParkStep ==
    ASSUME BooksExact, Park
    PROVE  BooksExact'
<1>0. PICK lease \in Leases, rid \in Rids : call.lease = lease /\ lease.rid = rid
  BY CallLease DEF Park
<1>1. /\ call.op = "handed"
      /\ ack_staging_queue' = Append(ack_staging_queue, lease)
      /\ stage' = [stage EXCEPT ![rid] = "parked"]
      /\ call' = Idle
      /\ UNCHANGED <<active, phases, last_generation, free_slots, prefill_owner,
                     generation, row, steps, pages, requests, pending_releases,
                     free_group, graph_failed_leases, work, faults>>
  BY <1>0 DEF Park, slotVars
<1>2. Owns(rid, lease) /\ Require(lease, {"host_ready"}) /\ stage[rid] = "prefill"
  BY <1>0, <1>1 DEF BooksExact, CallExact
<1>3. /\ \A q \in Rids : q # rid => stage'[q] = stage[q]
      /\ stage'[rid] = "parked"
      /\ stage' \in [Rids -> Stages]
  BY <1>1 DEF BooksExact, TypeOK, Stages
<1>4. /\ ack_staging_queue' \in Seq(Leases)
      /\ DOMAIN ack_staging_queue' = DOMAIN ack_staging_queue \cup {Len(ack_staging_queue) + 1}
      /\ Len(ack_staging_queue) + 1 \notin DOMAIN ack_staging_queue
      /\ \A i \in DOMAIN ack_staging_queue : ack_staging_queue'[i] = ack_staging_queue[i]
      /\ ack_staging_queue'[Len(ack_staging_queue) + 1] = lease
  <2>1. ack_staging_queue \in Seq(Leases)
    BY DEF BooksExact, TypeOK
  <2>2. DOMAIN ack_staging_queue = 1..Len(ack_staging_queue) /\ Len(ack_staging_queue) \in Nat
    BY <2>1, LenProperties
  <2> QED
    BY <1>1, <2>1, <2>2, AppendProperties
<1>5. SlotsInv'
  BY <1>1, SlotsKept DEF BooksExact, slotVars
<1>6. Idle \in [op : {"idle", "flushing"}, lease : {NoLease}] /\ Idle.op = "idle"
  BY DEF Idle
<1>7. TypeOK'
  BY <1>1, <1>3, <1>4, <1>5, <1>6 DEF BooksExact, TypeOK, SlotsInv
<1>8. RowsOwned'
  BY <1>1, <1>2, <1>3 DEF BooksExact, RowsOwned
<1>9. LeasesOwned'
  BY <1>1, <1>2, <1>3, ActiveIs, LeaseRid DEF BooksExact, LeasesOwned, Active
<1>10. CallExact'
  BY <1>1, <1>6, CallIdle
<1>11. PagesFollow'
  <2>1. \A q \in Rids : stage[q] = "lost" => stage'[q] = "lost"
    BY <1>1, <1>2, <1>3
  <2> QED
    BY <1>1, <2>1 DEF BooksExact, PagesFollow, Unpaged, Active
<1>12. ASSUME NEW q \in Rids, NEW l, Owns(q, l)
       PROVE  Owns(q, l)'
  BY <1>1, <1>12 DEF Owns, Require
<1>13. StagedOnce'
  <2>1. \A i \in DOMAIN ack_staging_queue : ack_staging_queue[i].rid \in Rids \ {rid}
    BY <1>2, ParkedIs
  <2>2. \A q \in Rids : stage'[q] = "parked" <=>
           \E i \in DOMAIN ack_staging_queue' : ack_staging_queue'[i].rid = q
    BY <1>0, <1>3, <1>4, StagedHas DEF BooksExact
  <2>3. \A i, j \in DOMAIN ack_staging_queue' :
           ack_staging_queue'[i].rid = ack_staging_queue'[j].rid => i = j
    BY <1>0, <1>4, <2>1, StagedHas DEF BooksExact
  <2>4. ASSUME NEW i \in DOMAIN ack_staging_queue'
        PROVE  /\ ack_staging_queue'[i].rid \in Rids
               /\ Owns(ack_staging_queue[i].rid, ack_staging_queue[i])'
               /\ phases'[ack_staging_queue'[i].req_pool_idx] = "host_ready"
    <3>1. CASE i \in DOMAIN ack_staging_queue
      BY <3>1, <1>1, <1>4, <1>12, ParkedIs
    <3>2. CASE i = Len(ack_staging_queue) + 1
      BY <3>2, <1>0, <1>1, <1>2, <1>4, <1>12 DEF Require
    <3> QED
      BY <3>1, <3>2, <1>4
  <2>5. \A q \in Rids : stage'[q] = "running" =>
           phases'[row'[q]] \in {"decode", "failed", "releasing", "drained"}
    BY <1>1, <1>3 DEF BooksExact, StagedOnce
  <2> QED
    BY <2>2, <2>3, <2>4, <2>5, StagedBy
<1>14. PendingExact'
  <2>1. \A i \in DOMAIN pending_releases :
           pending_releases[i].rid \in Rids /\ pending_releases[i].rid # rid
    BY <1>2, ElementOfSeq, LeaseRid DEF BooksExact, TypeOK, PendingExact
  <2> QED
    BY <1>1, <1>3, <1>6, <2>1 DEF BooksExact, PendingExact, Require
<1>15. CacheMatchesTable'
  BY <1>1, <1>2, <1>3, <1>12, OwnsIs DEF BooksExact, CacheMatchesTable
<1> QED
  BY <1>5, <1>7, <1>8, <1>9, <1>10, <1>11, <1>13, <1>14, <1>15 DEF BooksExact

\* What stays parked, item by item.
LEMMA UnreadyIs ==
    ASSUME NEW queue \in Seq(Leases), NEW count \in 1..Len(queue)
    PROVE  LET rest == SubSeq(queue, count + 1, Len(queue)) IN
           /\ rest \in Seq(Leases)
           /\ DOMAIN rest = 1..(Len(queue) - count)
           /\ \A i \in DOMAIN rest : /\ rest[i] = queue[count + i]
                                     /\ count + i \in DOMAIN queue \ 1..count
           /\ \A k \in DOMAIN queue : k \notin 1..count =>
                 /\ k - count \in DOMAIN rest
                 /\ rest[k - count] = queue[k]
<1> DEFINE rest == SubSeq(queue, count + 1, Len(queue))
<1>1. Len(queue) \in Nat /\ DOMAIN queue = 1..Len(queue)
      /\ \A i \in 1..Len(queue) : queue[i] \in Leases
  BY LenProperties, ElementOfSeq
<1>2. /\ rest \in Seq(Leases)
      /\ Len(rest) = IF count + 1 <= Len(queue) THEN Len(queue) - (count + 1) + 1 ELSE 0
      /\ \A i \in 1..(Len(queue) - (count + 1) + 1) : rest[i] = queue[count + 1 + i - 1]
  BY <1>1, SubSeqProperties
<1> HIDE DEF rest
<1>3. DOMAIN rest = 1..(Len(queue) - count)
  BY <1>1, <1>2, LenProperties
<1>4. ASSUME NEW i \in 1..(Len(queue) - count)
      PROVE  rest[i] = queue[count + i] /\ count + i \in (1..Len(queue)) \ (1..count)
  <2>1. count + 1 + i - 1 = count + i /\ i \in 1..(Len(queue) - (count + 1) + 1)
        /\ count + i \in (1..Len(queue)) \ (1..count)
    BY <1>1
  <2>2. rest[i] = queue[count + 1 + i - 1]
    BY <1>2, <2>1
  <2> QED
    BY <2>1, <2>2
<1>5. ASSUME NEW k \in 1..Len(queue), k \notin 1..count
      PROVE  k - count \in DOMAIN rest /\ rest[k - count] = queue[k]
  <2>1. k - count \in 1..(Len(queue) - count) /\ count + (k - count) = k
    BY <1>1, <1>5
  <2> QED
    BY <1>3, <1>4, <2>1
<1> QED
  BY <1>1, <1>2, <1>3, <1>4, <1>5 DEF rest

\* The oldest leave the queue: admitted, or lost with the call that raised.
LEMMA CollectStep ==
    ASSUME BooksExact, NEW count \in 1..Len(ack_staging_queue),
           NEW admitted \in 1..Len(ack_staging_queue), NEW returned \in BOOLEAN,
           Collect(count, admitted, returned)
    PROVE  BooksExact'
<1> DEFINE ready == {ack_staging_queue[i].rid : i \in 1..count}
           first == {ack_staging_queue[i] : i \in 1..admitted}
<1>1. /\ call = Idle
      /\ admitted <= count
      /\ returned => admitted = count
      /\ phases' = [r \in Rows |-> IF active[r] \in first THEN "decode" ELSE phases[r]]
      /\ stage' = [rid \in Rids |-> IF rid \notin ready THEN stage[rid]
                                    ELSE IF returned THEN "running" ELSE "lost"]
      /\ ack_staging_queue' = SubSeq(ack_staging_queue, count + 1, Len(ack_staging_queue))
      /\ UNCHANGED <<active, last_generation, free_slots, prefill_owner, generation, row,
                     steps, pages, requests, pending_releases, free_group,
                     graph_failed_leases, work, call>>
  BY DEF Collect, Unready
<1>2. ack_staging_queue \in Seq(Leases)
  BY DEF BooksExact, TypeOK
<1>3. /\ DOMAIN ack_staging_queue = 1..Len(ack_staging_queue) /\ Len(ack_staging_queue) \in Nat
      /\ 1..count \subseteq DOMAIN ack_staging_queue
      /\ 1..admitted \subseteq 1..count
      /\ returned => 1..admitted = 1..count
  BY <1>1, <1>2, LenProperties
<1>4. \A l \in first : /\ l \in Leases /\ l # NoLease /\ l \in Active /\ l.rid \in Rids
                       /\ l.req_pool_idx = row[l.rid] /\ l.req_pool_idx \in Rows
                       /\ active[l.req_pool_idx] = l
                       /\ phases[l.req_pool_idx] = "host_ready"
                       /\ stage[l.rid] = "parked" /\ l.rid \in ready
  BY <1>3, ParkedIs, LeaseFields, ActiveIs DEF BooksExact
<1>5. \A rid \in ready : rid \in Rids /\ stage[rid] = "parked"
  BY <1>3, ParkedIs
<1>6. returned => \A rid \in ready : \E l \in first : l.rid = rid
  BY <1>3
<1>7. \A q \in Rids : (\E i \in 1..count : ack_staging_queue[i].rid = q) <=> q \in ready
  OBVIOUS
<1> HIDE DEF ready, first
<1>8. /\ ack_staging_queue' \in Seq(Leases)
      /\ \A i \in DOMAIN ack_staging_queue' :
            /\ ack_staging_queue'[i] = ack_staging_queue[count + i]
            /\ count + i \in DOMAIN ack_staging_queue /\ count + i \notin 1..count
      /\ \A k \in DOMAIN ack_staging_queue : k \notin 1..count =>
            /\ k - count \in DOMAIN ack_staging_queue'
            /\ ack_staging_queue'[k - count] = ack_staging_queue[k]
  BY <1>1, <1>2, UnreadyIs
<1>9. \A r \in Rows : active[r] \in first =>
         /\ r = active[r].req_pool_idx /\ phases[r] = "host_ready" /\ phases'[r] = "decode"
  BY <1>1, <1>4, ActiveIs DEF BooksExact
<1>10. \A r \in Rows : active[r] \notin first => phases'[r] = phases[r]
  BY <1>1
<1>11. \A q \in Rids : /\ q \notin ready => stage'[q] = stage[q]
                       /\ q \in ready => stage'[q] = IF returned THEN "running" ELSE "lost"
  BY <1>1
<1>12. SlotsInv'
  <2>1. "decode" \in Phases \ {"prefill", "copying"}
    BY DEF Phases
  <2>2. \A l \in first : \A r \in Rows : active[r] = l => phases[r] \in {"host_ready", "decode"}
    BY <1>9
  <2>3. /\ phases' = [r \in Rows |-> IF active[r] \in first THEN "decode" ELSE phases[r]]
        /\ UNCHANGED <<active, last_generation, free_slots, prefill_owner>>
        /\ \A l \in first : l # NoLease
        /\ SlotsInv
    BY <1>1, <1>4 DEF BooksExact
  <2> QED
    BY <2>1, <2>2, <2>3, ManyPhases
<1>13. faults' \in 0..MaxFaults
  <2>1. faults \in Int
    BY BoundsAssumption DEF BooksExact, TypeOK
  <2>2. CASE returned
    BY <2>1, <2>2 DEF Collect, BooksExact, TypeOK
  <2>3. CASE ~returned
    BY <2>1, <2>3, FaultType, BoundsAssumption DEF Collect
  <2> QED
    BY <2>2, <2>3
<1>14. TypeOK'
  <2>1. stage' \in [Rids -> Stages]
    BY <1>1 DEF BooksExact, TypeOK, Stages
  <2> QED
    BY <1>1, <1>8, <1>12, <1>13, <2>1 DEF BooksExact, TypeOK, SlotsInv
<1>15. RowsOwned'
  BY <1>1, <1>5, <1>11 DEF BooksExact, RowsOwned
<1>16. \A l \in Active : /\ l.rid \in Rids /\ l.req_pool_idx \in Rows
                         /\ active[l.req_pool_idx] = l
  BY ActiveIs, LeaseRid, LeaseFields DEF BooksExact
<1>17. Active' = Active
  BY <1>1 DEF Active
<1>18. LeasesOwned'
  <2>1. ASSUME NEW l \in Active
        PROVE  \/ /\ row'[l.rid] = l.req_pool_idx
                  /\ l.generation = generation'[l.req_pool_idx]
                  /\ phases'[l.req_pool_idx] # "logical_flushed"
               \/ /\ stage'[l.rid] = "finished"
                  /\ phases'[l.req_pool_idx] \in {"drained", "logical_flushed"}
    <3>1. phases'[l.req_pool_idx] = phases[l.req_pool_idx]
          \/ (phases'[l.req_pool_idx] = "decode" /\ phases[l.req_pool_idx] = "host_ready")
      BY <1>9, <1>10, <1>16
    <3>2. stage[l.rid] = "finished" => stage'[l.rid] = "finished"
      BY <1>5, <1>11, <1>16
    <3> QED
      BY <1>1, <3>1, <3>2 DEF BooksExact, LeasesOwned
  <2> QED
    BY <1>17, <2>1 DEF BooksExact, LeasesOwned
<1>19. CallExact'
  BY <1>1, CallIdle DEF Idle
<1>20. PagesFollow'
  <2>1. \A l \in Active : phases'[l.req_pool_idx] = "logical_flushed"
                             => phases[l.req_pool_idx] = "logical_flushed"
    BY <1>9, <1>10, <1>16
  <2>2. ASSUME NEW q \in Rids, Unpaged(q)
        PROVE  Unpaged(q)'
    <3>1. stage[q] = "lost" => stage'[q] = "lost"
      BY <1>5, <1>11
    <3>2. \A l \in Active : phases[l.req_pool_idx] = "drained" =>
             phases'[l.req_pool_idx] = "drained"
      BY <1>9, <1>10, <1>16
    <3> QED
      BY <1>17, <2>2, <3>1, <3>2, UnpagedKept
  <2> QED
    BY <1>1, <1>17, <2>1, <2>2, PagesBy DEF BooksExact, PagesFollow
<1>21. ASSUME NEW q \in Rids, NEW l, Owns(q, l)
       PROVE  Owns(q, l)'
  <2>1. l.req_pool_idx \in Rows
    BY <1>21, OwnsIs
  <2>2. phases'[l.req_pool_idx] \in Phases
    BY <1>9, <1>10, <1>21, <2>1 DEF Owns, Require, Phases
  <2> QED
    BY <1>1, <1>21, <2>2, OwnsKept
<1>22. StagedOnce'
  <2>1. ASSUME NEW q \in Rids
        PROVE  stage'[q] = "parked" <=>
                  \E i \in DOMAIN ack_staging_queue' : ack_staging_queue'[i].rid = q
    <3>1. ASSUME stage'[q] = "parked"
          PROVE  \E i \in DOMAIN ack_staging_queue' : ack_staging_queue'[i].rid = q
      <4>1. q \notin ready /\ stage[q] = "parked"
        BY <1>11, <3>1
      <4>2. PICK k \in DOMAIN ack_staging_queue : ack_staging_queue[k].rid = q
        BY <4>1, StagedHas
      <4>3. k \notin 1..count
        BY <1>7, <4>1, <4>2
      <4> QED
        BY <1>8, <4>2, <4>3
    <3>2. ASSUME NEW i \in DOMAIN ack_staging_queue', ack_staging_queue'[i].rid = q
          PROVE  stage'[q] = "parked"
      <4>1. stage[q] = "parked"
        BY <1>8, <3>2, StagedHas
      <4>2. ASSUME NEW k \in 1..count, ack_staging_queue[k].rid = q
            PROVE  FALSE
        <5>1. count + i \in DOMAIN ack_staging_queue /\ count + i \notin 1..count
              /\ ack_staging_queue[count + i].rid = q
          BY <1>8, <3>2
        <5>2. k \in DOMAIN ack_staging_queue
          BY <1>3
        <5>3. count + i = k
          BY <4>2, <5>1, <5>2, StagedHas
        <5> QED
          BY <5>1, <5>3
      <4>3. q \notin ready
        BY <1>7, <4>2
      <4> QED
        BY <1>11, <4>1, <4>3
    <3> QED
      BY <3>1, <3>2
  <2>2. ASSUME NEW i \in DOMAIN ack_staging_queue', NEW j \in DOMAIN ack_staging_queue',
               ack_staging_queue'[i].rid = ack_staging_queue'[j].rid
        PROVE  i = j
    <3>1. DOMAIN ack_staging_queue' \subseteq Int
      BY <1>8, LenProperties
    <3>2. count + i = count + j
      <4>1. /\ count + i \in DOMAIN ack_staging_queue /\ count + j \in DOMAIN ack_staging_queue
            /\ ack_staging_queue'[i] = ack_staging_queue[count + i]
            /\ ack_staging_queue'[j] = ack_staging_queue[count + j]
        BY <1>8
      <4> QED
        BY <2>2, <4>1, StagedHas
    <3> QED
      BY <3>1, <3>2
  <2>3. ASSUME NEW i \in DOMAIN ack_staging_queue'
        PROVE  /\ Owns(ack_staging_queue[i].rid, ack_staging_queue[i])'
               /\ phases'[ack_staging_queue'[i].req_pool_idx] = "host_ready"
    <3> DEFINE l == ack_staging_queue[count + i]
    <3>1. ack_staging_queue'[i] = l /\ count + i \in DOMAIN ack_staging_queue
          /\ count + i \notin 1..count
      BY <1>8
    <3>2. l \in Leases /\ l \in Active /\ l.rid \in Rids /\ Owns(l.rid, l)
          /\ phases[l.req_pool_idx] = "host_ready"
      BY <3>1, ParkedIs
    <3>3. l.rid \notin ready
      BY <1>3, <1>7, <3>1, <3>2, StagedHas
    <3>4. l \notin first
      BY <1>4, <3>3
    <3>5. phases'[l.req_pool_idx] = "host_ready"
      BY <1>10, <1>16, <3>2, <3>4
    <3> HIDE DEF l
    <3> QED
      BY <1>21, <3>1, <3>2, <3>5
  <2>4. ASSUME NEW q \in Rids, stage'[q] = "running"
        PROVE  phases'[row'[q]] \in {"decode", "failed", "releasing", "drained"}
    <3>1. CASE q \in ready
      <4>1. PICK l \in first : l.rid = q
        BY <1>6, <1>11, <2>4, <3>1
      <4> QED
        BY <1>1, <1>4, <1>9, <4>1
    <3>2. CASE q \notin ready
      <4>1. stage[q] = "running"
        BY <1>11, <2>4, <3>2
      <4>2. row[q] \in Rows
        BY <4>1, OwnsIs DEF BooksExact, CacheMatchesTable
      <4> QED
        BY <1>1, <1>9, <1>10, <4>1, <4>2 DEF BooksExact, StagedOnce
    <3> QED
      BY <3>1, <3>2
  <2> QED
    BY <2>1, <2>2, <2>3, <2>4, StagedBy
<1>23. PendingExact'
  <2>1. ASSUME NEW i \in DOMAIN pending_releases
        PROVE  LET l == pending_releases[i] IN
               /\ Require(l, {"drained", "logical_flushed"})'
               /\ stage'[l.rid] = "finished"
    <3> DEFINE l == pending_releases[i]
    <3>1. l \in Leases /\ l.rid \in Rids /\ l.req_pool_idx \in Rows
      BY ElementOfSeq, LeaseRid, LeaseFields DEF BooksExact, TypeOK
    <3>2. Require(l, {"drained", "logical_flushed"}) /\ stage[l.rid] = "finished"
      BY DEF BooksExact, PendingExact
    <3>3. phases'[l.req_pool_idx] = phases[l.req_pool_idx]
      BY <1>9, <1>10, <3>1, <3>2 DEF Require
    <3> QED
      BY <1>1, <1>5, <1>11, <3>1, <3>2, <3>3 DEF Require
  <2> QED
    BY <1>1, <2>1 DEF BooksExact, PendingExact, Idle
<1>24. CacheMatchesTable'
  <2>1. ASSUME NEW q \in Rids, stage'[q] \in {"parked", "running"}
        PROVE  Owns(q, requests[row[q]])
    BY <1>5, <1>11, <2>1 DEF BooksExact, CacheMatchesTable
  <2> QED
    BY <1>1, <1>21, <2>1 DEF BooksExact, CacheMatchesTable
<1> QED
  BY <1>12, <1>14, <1>15, <1>18, <1>19, <1>20, <1>22, <1>23, <1>24 DEF BooksExact

\* What a first extend acquires: the lease of its request, in its row and the
\* row's present generation, which no book is about yet.
LEMMA Acquired ==
    ASSUME BooksExact, NEW rid \in Rids, NEW cached \in BOOLEAN, NEW ran \in BOOLEAN,
           BeginPrefill(rid, cached, ran)
    PROVE  /\ row[rid] \in Rows /\ generation[row[rid]] \in Generations
           /\ prefill_owner' \in Leases
           /\ prefill_owner'.req_pool_idx = row[rid]
           /\ prefill_owner'.generation = generation[row[rid]]
           /\ prefill_owner'.rid = rid
           /\ active[row[rid]] = NoLease
           /\ active' = [active EXCEPT ![row[rid]] = prefill_owner']
           /\ phases' = [phases EXCEPT ![row[rid]] = "prefill"]
           /\ Active' = Active \cup {prefill_owner'}
           /\ SlotsInv'
<1>1. row[rid] \in Rows
  BY IdentityAssumption DEF BeginPrefill, BooksExact, TypeOK, RowsOwned
<1>2. Acquire(row[rid], generation[row[rid]], rid)
  BY DEF BeginPrefill
<1>3. generation[row[rid]] \in Generations
  <2>1. /\ generation[row[rid]] \in Generations \cup {0}
        /\ last_generation[row[rid]] \in Nat
        /\ generation[row[rid]] > last_generation[row[rid]]
    BY <1>1, <1>2 DEF BooksExact, TypeOK, SlotsInv, SlotsTypeOK, Acquire
  <2> QED
    BY <2>1
<1>4. PICK slot \in Slots :
         /\ active' = [active EXCEPT ![row[rid]] =
              [req_pool_idx |-> row[rid], generation |-> generation[row[rid]],
               rid |-> rid, slot |-> slot]]
         /\ prefill_owner' =
              [req_pool_idx |-> row[rid], generation |-> generation[row[rid]],
               rid |-> rid, slot |-> slot]
  BY <1>2 DEF Acquire
<1>5. /\ prefill_owner' \in Leases
      /\ prefill_owner'.req_pool_idx = row[rid]
      /\ prefill_owner'.generation = generation[row[rid]]
      /\ prefill_owner'.rid = rid
      /\ active' = [active EXCEPT ![row[rid]] = prefill_owner']
  BY <1>1, <1>3, <1>4 DEF Leases
<1>6. active[row[rid]] = NoLease /\ phases' = [phases EXCEPT ![row[rid]] = "prefill"]
  BY <1>2 DEF Acquire
<1>7. Active' = Active \cup {prefill_owner'}
  BY <1>1, <1>5, <1>6, LeaseFields DEF Active, BooksExact, SlotsInv, SlotsTypeOK
<1>8. SlotsInv'
  BY <1>1, <1>2, <1>3, AcquireStep DEF BooksExact
<1> QED
  BY <1>1, <1>3, <1>5, <1>6, <1>7, <1>8

\* A first extend enters its lease into the table, and its cache with it
\* unless the constructor raised.
LEMMA BeginPrefillStep ==
    ASSUME BooksExact, NEW rid \in Rids, NEW cached \in BOOLEAN, NEW ran \in BOOLEAN,
           BeginPrefill(rid, cached, ran)
    PROVE  BooksExact'
<1>0. PICK r \in Rows, lease \in Leases : r = row[rid] /\ lease = prefill_owner'
  BY Acquired
<1>1. /\ call = Idle
      /\ stage[rid] = "prefill"
      /\ requests[r] = NoLease
      /\ requests' = IF cached THEN [requests EXCEPT ![r] = lease] ELSE requests
      /\ work' = IF ran THEN work \cup {Submit(lease, "prefill")} ELSE work
      /\ IF ran THEN UNCHANGED faults ELSE Fault
      /\ UNCHANGED <<generation, row, stage, steps, pages, ack_staging_queue,
                     pending_releases, free_group, graph_failed_leases, call>>
  BY <1>0 DEF BeginPrefill, reqVars, queueVars
<1>2. /\ lease.req_pool_idx = r
      /\ lease.generation = generation[r]
      /\ lease.rid = rid
      /\ lease # NoLease
      /\ active[r] = NoLease
      /\ active' = [active EXCEPT ![r] = lease]
      /\ phases' = [phases EXCEPT ![r] = "prefill"]
      /\ Active' = Active \cup {lease}
      /\ SlotsInv'
  BY <1>0, Acquired, LeaseFields
<1>3. /\ \A q \in Rows : q # r => active'[q] = active[q] /\ phases'[q] = phases[q]
                                 /\ requests'[q] = requests[q]
      /\ active'[r] = lease /\ phases'[r] = "prefill"
      /\ requests'[r] = IF cached THEN lease ELSE NoLease
      /\ requests' \in [Rows -> Leases \cup {NoLease}]
  BY <1>1, <1>2 DEF BooksExact, TypeOK, SlotsInv, SlotsTypeOK
<1>4. faults' \in 0..MaxFaults
  BY <1>1, FaultType DEF BooksExact, TypeOK
<1>5. TypeOK'
  <2>1. work' \subseteq Work
    BY <1>1, SubmitIs DEF BooksExact, TypeOK, Kinds
  <2> QED
    BY <1>1, <1>2, <1>3, <1>4, <2>1 DEF BooksExact, TypeOK, SlotsInv
<1>6. RowsOwned'
  BY <1>1 DEF BooksExact, RowsOwned
<1>7. ASSUME NEW l \in Active
      PROVE  /\ l \in Leases /\ l # NoLease /\ l.rid \in Rids /\ l.req_pool_idx \in Rows
             /\ l.req_pool_idx # r
             /\ active[l.req_pool_idx] = l
             /\ l.rid # rid
  <2>1. /\ l \in Leases /\ l # NoLease /\ l.rid \in Rids /\ l.req_pool_idx \in Rows
        /\ active[l.req_pool_idx] = l
    BY ActiveIs, LeaseRid, LeaseFields DEF BooksExact
  <2>2. l.req_pool_idx # r
    BY <1>2, <2>1
  <2>3. row[l.rid] = l.req_pool_idx \/ stage[l.rid] = "finished"
    BY DEF BooksExact, LeasesOwned
  <2> QED
    BY <1>0, <1>1, <2>1, <2>2, <2>3
<1>8. LeasesOwned'
  <2>1. ASSUME NEW l \in Active'
        PROVE  \/ /\ row'[l.rid] = l.req_pool_idx
                  /\ l.generation = generation'[l.req_pool_idx]
                  /\ phases'[l.req_pool_idx] # "logical_flushed"
               \/ /\ stage'[l.rid] = "finished"
                  /\ phases'[l.req_pool_idx] \in {"drained", "logical_flushed"}
    <3>1. CASE l = lease
      BY <3>1, <1>0, <1>1, <1>2, <1>3
    <3>2. CASE l \in Active
      BY <3>2, <1>1, <1>3, <1>7 DEF BooksExact, LeasesOwned
    <3> QED
      BY <3>1, <3>2, <1>2
  <2>2. \A l, m \in Active' : l.rid = m.rid => l = m
    BY <1>2, <1>7 DEF BooksExact, LeasesOwned
  <2> QED
    BY <2>1, <2>2 DEF LeasesOwned
<1>9. CallExact'
  BY <1>1, CallIdle DEF Idle
<1>10. PagesFollow'
  <2>1. ASSUME NEW l \in Active', phases'[l.req_pool_idx] = "logical_flushed"
        PROVE  pages'[l.rid] = "none"
    BY <1>1, <1>2, <1>3, <1>7, <2>1 DEF BooksExact, PagesFollow
  <2>2. ASSUME NEW q \in Rids, Unpaged(q)
        PROVE  Unpaged(q)'
    <3>1. \A l \in Active : l \in Active' /\ phases'[l.req_pool_idx] = phases[l.req_pool_idx]
      BY <1>2, <1>3, <1>7
    <3> QED
      BY <1>1, <2>2, <3>1, UnpagedKept
  <2> QED
    BY <1>1, <2>1, <2>2, PagesBy DEF BooksExact
<1>11. ASSUME NEW q \in Rids, NEW l, Owns(q, l)
       PROVE  Owns(q, l)' /\ row[q] \in Rows /\ row[q] # r /\ l.req_pool_idx = row[q]
  <2>1. row[q] \in Rows /\ row[q] # r /\ l.req_pool_idx = row[q]
    BY <1>1, <1>11, OwnsIs, LeaseFields
  <2> QED
    BY <1>1, <1>3, <1>11, <2>1, OwnsKept DEF Owns, Require
<1>12. StagedOnce'
  <2>1. \A i \in DOMAIN ack_staging_queue :
           /\ ack_staging_queue[i].rid \in Rids
           /\ Owns(ack_staging_queue[i].rid, ack_staging_queue[i])
           /\ phases[ack_staging_queue[i].req_pool_idx] = "host_ready"
    BY ParkedIs
  <2>2. \A i \in DOMAIN ack_staging_queue :
           /\ Owns(ack_staging_queue[i].rid, ack_staging_queue[i])'
           /\ phases'[ack_staging_queue[i].req_pool_idx] = "host_ready"
    BY <1>1, <1>3, <1>11, <2>1
  <2>3. ASSUME NEW q \in Rids, stage[q] = "running"
        PROVE  phases'[row[q]] \in {"decode", "failed", "releasing", "drained"}
    <3>1. row[q] \in Rows /\ row[q] # r
      BY <1>11, <2>3 DEF BooksExact, CacheMatchesTable
    <3> QED
      BY <1>3, <2>3, <3>1 DEF BooksExact, StagedOnce
  <2> QED
    BY <1>1, <2>2, <2>3, StagedHas, StagedBy
<1>13. PendingExact'
  <2>1. ASSUME NEW i \in DOMAIN pending_releases
        PROVE  LET l == pending_releases[i] IN
               /\ Require(l, {"drained", "logical_flushed"})'
               /\ requests'[l.req_pool_idx] = l
    <3> DEFINE l == pending_releases[i]
    <3>1. l \in Leases /\ l.req_pool_idx \in Rows /\ l # NoLease
      BY ElementOfSeq, LeaseFields DEF BooksExact, TypeOK
    <3>2. /\ Require(l, {"drained", "logical_flushed"})
          /\ requests[l.req_pool_idx] = l
      BY DEF BooksExact, PendingExact
    <3>3. l.req_pool_idx # r
      BY <1>1, <3>1, <3>2
    <3> QED
      BY <1>1, <1>3, <3>1, <3>2, <3>3 DEF Require
  <2> QED
    BY <1>1, <2>1 DEF BooksExact, PendingExact
<1>14. CacheMatchesTable'
  <2>1. \A q \in Rows : requests'[q] # NoLease => active'[q] = requests'[q]
    BY <1>3 DEF BooksExact, CacheMatchesTable
  <2>2. ASSUME NEW q \in Rids, stage[q] \in {"parked", "running"}
        PROVE  Owns(q, requests[row[q]])' /\ requests'[row[q]] = requests[row[q]]
    <3>1. Owns(q, requests[row[q]])
      BY <2>2 DEF BooksExact, CacheMatchesTable
    <3>2. requests'[row[q]] = requests[row[q]]
      BY <1>3, <1>11, <3>1
    <3> QED
      BY <1>1, <1>11, <3>1, <3>2 DEF Owns, Require
  <2> QED
    BY <1>1, <2>1, <2>2 DEF CacheMatchesTable
<1> QED
  BY <1>2, <1>5, <1>6, <1>8, <1>9, <1>10, <1>12, <1>13, <1>14 DEF BooksExact

\* What frees the pages of a request, or has freed them, leaves none held.
Unheld(rid) ==
    /\ pages' \in [Rids -> {"none", "held", "grouped"}]
    /\ \A q \in Rids : q # rid => pages'[q] = pages[q]
    /\ pages'[rid] # "held"
    /\ pages'[rid] = "grouped" => free_group

\* Freeing the pages of a request leaves none held.
LEMMA FreedUnheld ==
    ASSUME BooksExact, NEW rid \in Rids, pages' = [pages EXCEPT ![rid] = Freed]
    PROVE  Unheld(rid)
BY DEF BooksExact, TypeOK, Unheld, Freed

\* The row of a request goes behind its pages while its lease, if it has one,
\* is drained and in the hands of the call.
LEMMA EndRow ==
    ASSUME BooksExact, NEW rid \in Rids, stage[rid] \in {"prefill", "running"},
           Unheld(rid),
           row' = [row EXCEPT ![rid] = 0],
           stage' = [stage EXCEPT ![rid] = "finished"],
           UNCHANGED <<slotVars, generation, steps, requests, queueVars, free_group,
                       graph_failed_leases, work, faults>>,
           \A l \in Active : l.rid = rid =>
              phases[l.req_pool_idx] = "drained" /\ call' = At("freed", l),
           CallExact',
           call' \in [op : {"freed"}, lease : Leases] \cup {Idle},
           call.op # "freed"
    PROVE  BooksExact'
<1>1. /\ \A q \in Rids : q # rid =>
            row'[q] = row[q] /\ stage'[q] = stage[q] /\ pages'[q] = pages[q]
      /\ row'[rid] = 0 /\ stage'[rid] = "finished"
      /\ pages'[rid] # "held" /\ (pages'[rid] = "grouped" => free_group)
      /\ row' \in [Rids -> Rows \cup {0}] /\ stage' \in [Rids -> Stages]
      /\ pages' \in [Rids -> {"none", "held", "grouped"}]
  BY DEF BooksExact, TypeOK, Stages, Unheld
<1>2. /\ UNCHANGED <<active, phases, ack_staging_queue, pending_releases>>
      /\ Active' = Active
  BY DEF slotVars, queueVars, Active
<1>3. SlotsInv'
  BY SlotsKept DEF BooksExact
<1>4. call'.op \in {"freed", "idle"}
      /\ call' \in [op : {"handoff", "handed", "drained", "unpaged", "freed"}, lease : Leases]
               \cup [op : {"idle", "flushing"}, lease : {NoLease}]
  BY DEF Idle
<1>5. TypeOK'
  BY <1>1, <1>2, <1>3, <1>4 DEF BooksExact, TypeOK, SlotsInv
<1>6. RowsOwned'
  BY <1>1 DEF BooksExact, RowsOwned
<1>7. \A l \in Active : l.rid \in Rids /\ l.req_pool_idx \in Rows
  BY ActiveIs, LeaseRid, LeaseFields DEF BooksExact
<1>8. LeasesOwned'
  BY <1>1, <1>2, <1>7 DEF BooksExact, LeasesOwned
<1>9. PagesFollow'
  <2>1. ASSUME NEW l \in Active, phases[l.req_pool_idx] = "logical_flushed"
        PROVE  l.rid # rid
    BY <2>1
  <2>2. \A q \in Rids : q # rid /\ Unpaged(q) => Unpaged(q)'
    BY <1>1, <1>2 DEF Unpaged
  <2> QED
    BY <1>1, <1>2, <1>7, <2>1, <2>2 DEF BooksExact, PagesFollow
<1>10. ASSUME NEW q \in Rids, q # rid, NEW l, Owns(q, l)
       PROVE  Owns(q, l)'
  BY <1>1, <1>2, <1>10 DEF Owns, Require
<1>11. StagedOnce'
  <2>1. \A i \in DOMAIN ack_staging_queue :
           /\ ack_staging_queue[i].rid \in Rids \ {rid}
           /\ Owns(ack_staging_queue[i].rid, ack_staging_queue[i])
           /\ phases[ack_staging_queue[i].req_pool_idx] = "host_ready"
    BY ParkedIs
  <2>2. \A i \in DOMAIN ack_staging_queue :
           Owns(ack_staging_queue[i].rid, ack_staging_queue[i])'
    BY <1>2, <1>10, <2>1
  <2>3. \A q \in Rids : stage'[q] = "running" =>
           phases'[row'[q]] \in {"decode", "failed", "releasing", "drained"}
    BY <1>1, <1>2 DEF BooksExact, StagedOnce
  <2>4. \A q \in Rids : stage'[q] = "parked" <=> stage[q] = "parked"
    BY <1>1
  <2> QED
    BY <1>2, <2>1, <2>2, <2>3, <2>4, StagedHas, StagedBy
<1>12. PendingExact'
  <2>1. \A i \in DOMAIN pending_releases : stage'[pending_releases[i].rid] = "finished"
    BY <1>1, ElementOfSeq, LeaseRid DEF BooksExact, TypeOK, PendingExact
  <2> QED
    BY <1>2, <1>4, <2>1 DEF BooksExact, PendingExact, Require
<1>13. CacheMatchesTable'
  BY <1>1, <1>2, <1>10 DEF BooksExact, CacheMatchesTable
<1> QED
  BY <1>3, <1>5, <1>6, <1>8, <1>9, <1>11, <1>12, <1>13 DEF BooksExact

\* The pages of a request go and its row stays, with a request whose lease is
\* drained, or that the scheduler no longer has.
LEMMA PagesGone ==
    ASSUME BooksExact, NEW rid \in Rids, stage[rid] \in {"prefill", "running"},
           Unheld(rid),
           stage' \in {stage, [stage EXCEPT ![rid] = "lost"]},
           Unpaged(rid)',
           UNCHANGED <<slotVars, generation, row, steps, requests, queueVars, free_group,
                       graph_failed_leases, work>>,
           faults' \in 0..MaxFaults,
           CallExact',
           call' \in [op : {"unpaged"}, lease : Leases] \cup {Idle}
    PROVE  BooksExact'
<1>1. /\ \A q \in Rids : q # rid => stage'[q] = stage[q] /\ pages'[q] = pages[q]
      /\ stage'[rid] \in {stage[rid], "lost"}
      /\ pages'[rid] # "held" /\ (pages'[rid] = "grouped" => free_group)
      /\ stage' \in [Rids -> Stages]
      /\ pages' \in [Rids -> {"none", "held", "grouped"}]
  BY DEF BooksExact, TypeOK, Stages, Unheld
<1>2. /\ UNCHANGED <<active, phases, ack_staging_queue, pending_releases>>
      /\ Active' = Active
  BY DEF slotVars, queueVars, Active
<1>3. SlotsInv'
  BY SlotsKept DEF BooksExact
<1>4. call'.op \in {"unpaged", "idle"}
      /\ call' \in [op : {"handoff", "handed", "drained", "unpaged", "freed"}, lease : Leases]
               \cup [op : {"idle", "flushing"}, lease : {NoLease}]
  BY DEF Idle
<1>5. TypeOK'
  BY <1>1, <1>2, <1>3, <1>4 DEF BooksExact, TypeOK, SlotsInv
<1>6. RowsOwned'
  BY <1>1 DEF BooksExact, RowsOwned
<1>7. \A l \in Active : l.rid \in Rids
  BY ActiveIs, LeaseRid DEF BooksExact
<1>8. LeasesOwned'
  BY <1>1, <1>2, <1>7 DEF BooksExact, LeasesOwned
<1>9. PagesFollow'
  <2>1. \A l \in Active : phases[l.req_pool_idx] = "logical_flushed"
                             => l.rid # rid /\ pages[l.rid] = "none"
    BY DEF BooksExact, LeasesOwned, PagesFollow
  <2>2. \A q \in Rids : row[q] = 0 => q # rid
    BY DEF BooksExact, RowsOwned
  <2>3. ASSUME NEW q \in Rids, row[q] # 0
        PROVE  pages'[q] = "held" \/ Unpaged(q)'
    BY <1>1, <1>2, <2>3 DEF BooksExact, PagesFollow, Unpaged
  <2> QED
    BY <1>1, <1>2, <1>7, <2>1, <2>2, <2>3 DEF BooksExact, PagesFollow
<1>10. ASSUME NEW q \in Rids, NEW l, Owns(q, l)
       PROVE  Owns(q, l)'
  BY <1>2, <1>10 DEF Owns, Require
<1>11. StagedOnce'
  <2>1. \A i \in DOMAIN ack_staging_queue :
           /\ Owns(ack_staging_queue[i].rid, ack_staging_queue[i])
           /\ phases[ack_staging_queue[i].req_pool_idx] = "host_ready"
           /\ ack_staging_queue[i].rid \in Rids
    BY ParkedIs
  <2>2. \A i \in DOMAIN ack_staging_queue :
           Owns(ack_staging_queue[i].rid, ack_staging_queue[i])'
    BY <1>2, <1>10, <2>1
  <2>3. \A q \in Rids : stage'[q] = "running" =>
           phases'[row'[q]] \in {"decode", "failed", "releasing", "drained"}
    BY <1>1, <1>2 DEF BooksExact, StagedOnce
  <2>4. \A q \in Rids : stage'[q] = "parked" <=> stage[q] = "parked"
    BY <1>1
  <2> QED
    BY <1>2, <2>1, <2>2, <2>3, <2>4, StagedHas, StagedBy
<1>12. PendingExact'
  <2>1. \A i \in DOMAIN pending_releases : stage'[pending_releases[i].rid] = "finished"
    BY <1>1, ElementOfSeq, LeaseRid DEF BooksExact, TypeOK, PendingExact
  <2> QED
    BY <1>2, <1>4, <2>1 DEF BooksExact, PendingExact, Require
<1>13. CacheMatchesTable'
  BY <1>1, <1>2, <1>10 DEF BooksExact, CacheMatchesTable
<1> QED
  BY <1>3, <1>5, <1>6, <1>8, <1>9, <1>11, <1>12, <1>13 DEF BooksExact

\* The pages go first, the drained lease stays with the call.
LEMMA FreePagesStep ==
    ASSUME BooksExact, FreePages
    PROVE  BooksExact'
<1>0. PICK lease \in Leases, rid \in Rids : call.lease = lease /\ lease.rid = rid
  BY CallLease DEF FreePages
<1>1. /\ call.op = "drained"
      /\ pages' = [pages EXCEPT ![rid] = Freed]
      /\ call' = At("unpaged", lease)
      /\ UNCHANGED <<slotVars, generation, row, stage, steps, requests, queueVars,
                     free_group, graph_failed_leases, work, faults>>
  BY <1>0 DEF FreePages
<1>2. /\ Owns(rid, lease) /\ Require(lease, {"drained"})
      /\ stage[rid] \in {"prefill", "running"}
  BY <1>0, <1>1 DEF BooksExact, CallExact
<1>3. /\ lease \in Active /\ lease.rid = rid /\ phases[lease.req_pool_idx] = "drained"
  BY <1>2, OwnsIs DEF Require
<1>4. call'.op = "unpaged" /\ call'.lease = lease /\ call' \in [op : {"unpaged"}, lease : Leases]
  BY <1>1 DEF At
<1>5. Unheld(rid)
  BY <1>1, FreedUnheld
<1>6. CallExact'
  <2>1. Owns(rid, lease)' /\ Require(lease, {"drained"})'
    BY <1>1, <1>2 DEF Owns, Require, slotVars
  <2>2. pages'[rid] # "held" /\ stage'[rid] \in {"prefill", "running"}
    BY <1>1, <1>2, <1>5 DEF Unheld
  <2> QED
    BY <1>0, <1>4, <2>1, <2>2 DEF CallExact
<1>7. faults' \in 0..MaxFaults
  BY <1>1 DEF BooksExact, TypeOK
<1>8. Unpaged(rid)'
  BY <1>1, <1>3 DEF Unpaged, Active, slotVars
<1> QED
  BY <1>1, <1>2, <1>3, <1>4, <1>5, <1>6, <1>7, <1>8, PagesGone

\* The row goes behind the pages, the drained lease stays with the call.
LEMMA FreeRowStep ==
    ASSUME BooksExact, FreeRow
    PROVE  BooksExact'
<1>0. PICK lease \in Leases, rid \in Rids : call.lease = lease /\ lease.rid = rid
  BY CallLease DEF FreeRow
<1>1. /\ call.op = "unpaged"
      /\ row' = [row EXCEPT ![rid] = 0]
      /\ stage' = [stage EXCEPT ![rid] = "finished"]
      /\ call' = At("freed", lease)
      /\ UNCHANGED <<slotVars, generation, steps, pages, requests, queueVars, free_group,
                     graph_failed_leases, work, faults>>
  BY <1>0 DEF FreeRow
<1>2. /\ Owns(rid, lease) /\ Require(lease, {"drained"})
      /\ stage[rid] \in {"prefill", "running"}
      /\ pages[rid] # "held"
  BY <1>0, <1>1 DEF BooksExact, CallExact
<1>3. /\ lease \in Active /\ requests[lease.req_pool_idx] = lease
      /\ active[lease.req_pool_idx] = lease /\ phases[lease.req_pool_idx] = "drained"
  BY <1>2, OwnsIs DEF Require
<1>4. \A l \in Active : l.rid = rid => l = lease
  BY <1>0, <1>3 DEF BooksExact, LeasesOwned
<1>5. call'.op = "freed" /\ call'.lease = lease /\ call' \in [op : {"freed"}, lease : Leases]
  BY <1>1 DEF At
<1>6. CallExact'
  <2>1. stage'[lease.rid] = "finished"
    BY <1>0, <1>1 DEF BooksExact, TypeOK
  <2>2. \A i \in DOMAIN pending_releases : pending_releases[i] # lease
    BY <1>0, <1>2 DEF BooksExact, PendingExact
  <2> QED
    BY <1>1, <1>3, <1>5, <2>1, <2>2 DEF CallExact, Require, slotVars, queueVars
<1>7. Unheld(rid)
  BY <1>1, <1>2 DEF Unheld, BooksExact, TypeOK, PagesFollow
<1> QED
  BY <1>1, <1>2, <1>3, <1>4, <1>5, <1>6, <1>7, EndRow

\* A request without a lease gives its pages back and then its row, or fails
\* in between.
LEMMA ReleaseUnleasedStep ==
    ASSUME BooksExact, NEW rid \in Rids, NEW rowed \in BOOLEAN, ReleaseUnleased(rid, rowed)
    PROVE  BooksExact'
<1>1. /\ call = Idle
      /\ stage[rid] \in {"prefill", "running"}
      /\ active[row[rid]] = NoLease
      /\ pages' = [pages EXCEPT ![rid] = Freed]
      /\ UNCHANGED <<slotVars, generation, steps, requests, queueVars, free_group,
                     graph_failed_leases, work, call>>
  BY DEF ReleaseUnleased, Releasable
<1>2. \A l \in Active : l.rid # rid
  <2>1. \A l \in Active : l # NoLease /\ active[l.req_pool_idx] = l
    BY ActiveIs, LeaseFields DEF BooksExact
  <2> QED
    BY <1>1, <2>1 DEF BooksExact, LeasesOwned
<1>3. CallExact'
  BY <1>1, CallIdle DEF Idle
<1>4. call' = Idle /\ call.op # "freed"
  BY <1>1 DEF Idle
<1>5. Unheld(rid)
  BY <1>1, FreedUnheld
<1>6. CASE rowed
  <2>1. /\ row' = [row EXCEPT ![rid] = 0]
        /\ stage' = [stage EXCEPT ![rid] = "finished"]
        /\ faults' = faults
    BY <1>6 DEF ReleaseUnleased
  <2> QED
    BY <1>1, <1>2, <1>3, <1>4, <1>5, <2>1, EndRow
<1>7. CASE ~rowed
  <2>1. /\ stage' = [stage EXCEPT ![rid] = "lost"]
        /\ row' = row
        /\ faults' \in 0..MaxFaults
    BY <1>7, FaultType DEF ReleaseUnleased
  <2>2. Unpaged(rid)'
    BY <2>1 DEF BooksExact, TypeOK, Unpaged
  <2> QED
    BY <1>1, <1>3, <1>4, <1>5, <2>1, <2>2, PagesGone
<1> QED
  BY <1>6, <1>7

\* The lease that the end of a release works on.
LEMMA TargetIs ==
    ASSUME BooksExact, Committing
    PROVE  /\ Target \in Leases /\ Target.rid \in Rids /\ Target.req_pool_idx \in Rows
           /\ Target # NoLease /\ Target \in Active
           /\ active[Target.req_pool_idx] = Target
           /\ phases[Target.req_pool_idx] \in {"drained", "logical_flushed"}
           /\ requests[Target.req_pool_idx] = Target
           /\ stage[Target.rid] = "finished"
           /\ row[Target.rid] = 0
           /\ call.op = "flushing" =>
                 pending_releases # <<>> /\ Target = pending_releases[1]
                 /\ 1 \in DOMAIN pending_releases
           /\ call.op = "freed" =>
                 \A i \in DOMAIN pending_releases : pending_releases[i] # Target
<1>1. CASE call.op = "flushing"
  <2>1. pending_releases \in Seq(Leases) /\ pending_releases # <<>>
    BY <1>1 DEF BooksExact, TypeOK, PendingExact
  <2>2. 1 \in DOMAIN pending_releases /\ Target = pending_releases[1]
    BY <1>1, <2>1, EmptySeq, LenProperties DEF Target
  <2>3. Target \in Leases /\ Target.rid \in Rids /\ Target.req_pool_idx \in Rows
        /\ Target # NoLease
    BY <2>1, <2>2, ElementOfSeq, LeaseRid, LeaseFields
  <2>4. /\ Require(Target, {"drained", "logical_flushed"})
        /\ requests[Target.req_pool_idx] = Target
        /\ stage[Target.rid] = "finished"
    BY <2>2 DEF BooksExact, PendingExact
  <2> QED
    BY <1>1, <2>1, <2>2, <2>3, <2>4, ActiveIs DEF Require, BooksExact, RowsOwned
<1>2. CASE call.op = "freed"
  <2>1. Target = call.lease /\ Target \in Leases /\ Target.rid \in Rids
        /\ Target.req_pool_idx \in Rows /\ Target # NoLease
    BY <1>2, CallLease, LeaseFields DEF Target
  <2>2. /\ Require(Target, {"drained", "logical_flushed"})
        /\ requests[Target.req_pool_idx] = Target
        /\ stage[Target.rid] = "finished"
        /\ \A i \in DOMAIN pending_releases : pending_releases[i] # Target
    BY <1>2, <2>1 DEF BooksExact, CallExact
  <2> QED
    BY <1>2, <2>1, <2>2, ActiveIs DEF Require, BooksExact, RowsOwned
<1> QED
  BY <1>1, <1>2 DEF Committing

\* What a request still owns is not that lease, nor in its row.
LEMMA TargetApart ==
    ASSUME BooksExact, Committing, NEW rid \in Rids, NEW lease, Owns(rid, lease)
    PROVE  /\ row[rid] \in Rows /\ row[rid] # Target.req_pool_idx
           /\ lease.req_pool_idx = row[rid]
           /\ rid # Target.rid
<1>1. lease \in Active /\ row[rid] \in Rows /\ lease.req_pool_idx = row[rid]
      /\ active[row[rid]] = lease /\ lease.rid = rid /\ stage[rid] # "finished"
  BY OwnsIs
<1> QED
  BY <1>1, TargetIs

\* The flush is declared: the pages of its request are gone by then.
LEMMA MarkFlushedStep ==
    ASSUME BooksExact, MarkFlushed
    PROVE  BooksExact'
<1>0. PICK t \in Leases, r \in Rows : t = Target /\ r = Target.req_pool_idx
  BY TargetIs DEF MarkFlushed
<1>1. /\ Committing
      /\ LogicalFlushed(t, free_group)
      /\ phases' = [phases EXCEPT ![r] = "logical_flushed"]
      /\ UNCHANGED <<active, last_generation, free_slots, prefill_owner,
                     generation, row, stage, steps, pages, requests, ack_staging_queue,
                     pending_releases, free_group, graph_failed_leases, work, call, faults>>
      /\ ~free_group
  BY <1>0 DEF MarkFlushed, LogicalFlushed, SetPhase, runtimeVars, reqVars, queueVars
<1>2. /\ active[r] = t /\ t.req_pool_idx = r /\ t.rid \in Rids
      /\ stage[t.rid] = "finished" /\ row[t.rid] = 0
      /\ phases[r] \in {"drained", "logical_flushed"}
  BY <1>0, <1>1, TargetIs
<1>3. /\ phases'[r] = "logical_flushed" /\ Active' = Active
      /\ \A q \in Rows : q # r => phases'[q] = phases[q]
  BY <1>1 DEF BooksExact, SlotsInv, SlotsTypeOK, Active
<1>4. SlotsInv'
  <2>1. free_group \in BOOLEAN
    BY DEF BooksExact, TypeOK
  <2> QED
    BY <1>1, <2>1, StepInv DEF SlotsNext, BooksExact
<1>5. TypeOK'
  BY <1>1, <1>4 DEF BooksExact, TypeOK, SlotsInv
<1>6. RowsOwned'
  BY <1>1 DEF BooksExact, RowsOwned
<1>7. \A l \in Active : /\ l.rid \in Rids /\ l.req_pool_idx \in Rows
                        /\ active[l.req_pool_idx] = l
  BY ActiveIs, LeaseRid, LeaseFields DEF BooksExact
<1>8. LeasesOwned'
  <2>1. ASSUME NEW l \in Active
        PROVE  \/ /\ row[l.rid] = l.req_pool_idx
                  /\ l.generation = generation[l.req_pool_idx]
                  /\ phases'[l.req_pool_idx] # "logical_flushed"
               \/ /\ stage[l.rid] = "finished"
                  /\ phases'[l.req_pool_idx] \in {"drained", "logical_flushed"}
    <3>1. CASE l.req_pool_idx = r
      BY <3>1, <1>2, <1>3, <1>7
    <3>2. CASE l.req_pool_idx # r
      BY <3>2, <1>3, <1>7 DEF BooksExact, LeasesOwned
    <3> QED
      BY <3>1, <3>2
  <2> QED
    BY <1>1, <1>3, <2>1 DEF BooksExact, LeasesOwned
<1>9. CallExact'
  <2>1. CASE call.op = "flushing"
    BY <1>1, <2>1, CallIdle
  <2>2. CASE call.op = "freed"
    <3>1. call.lease = t
      BY <1>0, <2>2 DEF Target
    <3> QED
      BY <1>1, <1>2, <1>3, <2>2, <3>1 DEF BooksExact, CallExact, Require
  <2> QED
    BY <1>1, <2>1, <2>2 DEF Committing
<1>10. PagesFollow'
  <2>1. pages[t.rid] = "none"
    BY <1>1, <1>2 DEF BooksExact, TypeOK, PagesFollow
  <2>2. ASSUME NEW l \in Active, phases'[l.req_pool_idx] = "logical_flushed"
        PROVE  pages[l.rid] = "none"
    <3>1. CASE l.req_pool_idx = r
      BY <3>1, <2>1, <1>2, <1>7
    <3>2. CASE l.req_pool_idx # r
      BY <3>2, <2>2, <1>3, <1>7 DEF BooksExact, PagesFollow
    <3> QED
      BY <3>1, <3>2
  <2>3. \A q \in Rids : row[q] # 0 /\ Unpaged(q) => Unpaged(q)'
    BY <1>1, <1>2, <1>3, <1>7 DEF Unpaged
  <2> QED
    BY <1>1, <1>3, <2>2, <2>3 DEF BooksExact, PagesFollow
<1>11. ASSUME NEW q \in Rids, NEW l, Owns(q, l)
       PROVE  Owns(q, l)' /\ row[q] \in Rows /\ row[q] # r /\ l.req_pool_idx = row[q]
  <2>1. row[q] \in Rows /\ row[q] # r /\ l.req_pool_idx = row[q]
    BY <1>0, <1>1, <1>11, TargetApart
  <2> QED
    BY <1>1, <1>3, <1>11, <2>1 DEF Owns, Require
<1>12. StagedOnce'
  <2>1. \A i \in DOMAIN ack_staging_queue :
           /\ Owns(ack_staging_queue[i].rid, ack_staging_queue[i])'
           /\ phases'[ack_staging_queue[i].req_pool_idx] = "host_ready"
    BY <1>1, <1>3, <1>11, ParkedIs
  <2>2. \A q \in Rids : stage[q] = "running" =>
           phases'[row[q]] \in {"decode", "failed", "releasing", "drained"}
    BY <1>3, <1>11 DEF BooksExact, StagedOnce, CacheMatchesTable
  <2> QED
    BY <1>1, <2>1, <2>2, StagedHas, StagedBy
<1>13. PendingExact'
  <2>1. ASSUME NEW i \in DOMAIN pending_releases
        PROVE  Require(pending_releases[i], {"drained", "logical_flushed"})'
    <3>1. /\ pending_releases[i].req_pool_idx \in Rows
          /\ Require(pending_releases[i], {"drained", "logical_flushed"})
      BY ElementOfSeq, LeaseFields DEF BooksExact, TypeOK, PendingExact
    <3> QED
      BY <1>1, <1>3, <3>1 DEF Require
  <2> QED
    BY <1>1, <2>1 DEF BooksExact, PendingExact
<1>14. CacheMatchesTable'
  BY <1>1, <1>11 DEF BooksExact, CacheMatchesTable
<1> QED
  BY <1>4, <1>5, <1>6, <1>8, <1>9, <1>10, <1>12, <1>13, <1>14 DEF BooksExact

\* What is left pending once the head was popped, item by item.
LEMMA TailIs ==
    ASSUME NEW queue \in Seq(Leases), queue # <<>>
    PROVE  /\ Tail(queue) \in Seq(Leases)
           /\ \A i \in DOMAIN Tail(queue) : /\ Tail(queue)[i] = queue[i + 1]
                                            /\ i \in Nat /\ i + 1 \in DOMAIN queue /\ i + 1 # 1
           /\ \A k \in DOMAIN queue : k # 1 =>
                 /\ k - 1 \in DOMAIN Tail(queue)
                 /\ Tail(queue)[k - 1] = queue[k]
           /\ Tail(queue) = <<>> <=> Len(queue) <= 1
<1> DEFINE rest == Tail(queue)
<1>1. Len(queue) \in Nat /\ DOMAIN queue = 1..Len(queue)
  BY LenProperties
<1>2. /\ rest \in Seq(Leases)
      /\ Len(rest) = Len(queue) - 1
      /\ \A i \in 1..Len(rest) : rest[i] = queue[i + 1]
  BY HeadTailProperties
<1>3. DOMAIN rest = 1..(Len(queue) - 1) /\ Len(rest) \in Nat
      /\ (rest = <<>> <=> Len(rest) = 0)
  BY <1>2, LenProperties, EmptySeq
<1> HIDE DEF rest
<1>4. \A i \in 1..(Len(queue) - 1) : i \in Nat /\ i + 1 \in 1..Len(queue) /\ i + 1 # 1
                                     /\ rest[i] = queue[i + 1]
  BY <1>1, <1>2
<1>5. ASSUME NEW k \in 1..Len(queue), k # 1
      PROVE  k - 1 \in 1..(Len(queue) - 1) /\ rest[k - 1] = queue[k]
  <2>1. k - 1 \in 1..(Len(queue) - 1) /\ (k - 1) + 1 = k
    BY <1>1, <1>5
  <2> QED
    BY <1>4, <2>1
<1>6. rest = <<>> <=> Len(queue) <= 1
  BY <1>1, <1>2, <1>3
<1> QED
  BY <1>1, <1>2, <1>3, <1>4, <1>5, <1>6 DEF rest

\* The lease goes: out of the table, out of its cache, and, in a flush, out of
\* the pending releases, where it was once.
LEMMA CommitStep ==
    ASSUME BooksExact, NEW raised \in BOOLEAN, Commit(raised)
    PROVE  BooksExact'
<1>0. PICK t \in Leases, r \in Rows : t = Target /\ r = Target.req_pool_idx
  BY TargetIs DEF Commit
<1>1. /\ Committing
      /\ CommitRelease(t)
      /\ active' = [active EXCEPT ![r] = NoLease]
      /\ phases' = [phases EXCEPT ![r] = "none"]
      /\ requests' = [requests EXCEPT ![r] = NoLease]
      /\ pending_releases' = Popped(raised)
      /\ call' = AfterCommit(raised)
      /\ IF raised THEN Fault ELSE UNCHANGED faults
      /\ UNCHANGED <<generation, row, stage, steps, pages, ack_staging_queue, free_group,
                     graph_failed_leases, work>>
  BY <1>0 DEF Commit, CommitRelease, RequestsLeft, reqVars
<1>2. /\ active[r] = t /\ t.req_pool_idx = r /\ t.rid \in Rids /\ t # NoLease
      /\ stage[t.rid] = "finished" /\ row[t.rid] = 0
      /\ requests[r] = t
  BY <1>0, <1>1, TargetIs
<1>3. /\ active'[r] = NoLease /\ phases'[r] = "none" /\ requests'[r] = NoLease
      /\ \A q \in Rows : q # r => /\ active'[q] = active[q] /\ phases'[q] = phases[q]
                                  /\ requests'[q] = requests[q]
      /\ requests' \in [Rows -> Leases \cup {NoLease}]
  BY <1>1 DEF BooksExact, TypeOK, SlotsInv, SlotsTypeOK
<1>4. SlotsInv'
  BY <1>1, CommitReleaseStep DEF BooksExact
<1>5. faults' \in 0..MaxFaults
  BY <1>1, FaultType DEF BooksExact, TypeOK
<1>6. \A l \in Active : /\ l.rid \in Rids /\ l.req_pool_idx \in Rows /\ l # NoLease
                        /\ active[l.req_pool_idx] = l
  BY ActiveIs, LeaseRid, LeaseFields DEF BooksExact
<1>7. Active' = Active \ {t} /\ \A l \in Active' : l \in Active /\ l.req_pool_idx # r
  <2>1. \A q \in Rows : active'[q] # NoLease => q # r /\ active'[q] = active[q]
    BY <1>3
  <2>2. \A q \in Rows : active[q] # NoLease /\ active[q] # t => q # r
    BY <1>2
  <2>3. \A q \in Rows : q # r => active[q] # t
    BY <1>2, <1>6, ActiveIs DEF BooksExact
  <2>4. Active' = Active \ {t}
    BY <1>3, <2>1, <2>2, <2>3 DEF Active
  <2> QED
    BY <1>2, <1>6, <2>4
<1>8. /\ call' \in {call, Idle} /\ call'.op \in {"idle", "flushing"}
      /\ call' \in [op : {"idle", "flushing"}, lease : {NoLease}]
      /\ call'.op = "flushing" => call.op = "flushing" /\ ~raised /\ Len(pending_releases) > 1
  <2>1. Idle.op = "idle" /\ Idle \in [op : {"idle", "flushing"}, lease : {NoLease}]
    BY DEF Idle
  <2>2. call.op = "flushing" => call \in [op : {"idle", "flushing"}, lease : {NoLease}]
    BY DEF BooksExact, TypeOK
  <2> QED
    BY <1>1, <2>1, <2>2 DEF AfterCommit
<1>9. /\ pending_releases' \in Seq(Leases)
      /\ call.op = "flushing" => pending_releases' = Tail(pending_releases)
      /\ call.op # "flushing" => pending_releases' = pending_releases
      /\ pending_releases \in Seq(Leases)
  <2>1. pending_releases \in Seq(Leases)
    BY DEF BooksExact, TypeOK
  <2> QED
    BY <1>1, <2>1, TargetIs, TailIs DEF Popped
<1>10. TypeOK'
  BY <1>1, <1>3, <1>4, <1>5, <1>8, <1>9 DEF BooksExact, TypeOK, SlotsInv
<1>11. RowsOwned'
  BY <1>1 DEF BooksExact, RowsOwned
<1>12. LeasesOwned'
  BY <1>1, <1>3, <1>6, <1>7 DEF BooksExact, LeasesOwned
<1>13. CallExact'
  BY <1>8, CallIdle
<1>14. PagesFollow'
  <2>1. \A q \in Rids : row[q] # 0 /\ Unpaged(q) => Unpaged(q)'
    BY <1>1, <1>2, <1>3, <1>6, <1>7 DEF Unpaged
  <2> QED
    BY <1>1, <1>3, <1>6, <1>7, <2>1 DEF BooksExact, PagesFollow
<1>15. ASSUME NEW q \in Rids, NEW l, Owns(q, l)
       PROVE  Owns(q, l)' /\ row[q] \in Rows /\ row[q] # r /\ l.req_pool_idx = row[q]
  <2>1. row[q] \in Rows /\ row[q] # r /\ l.req_pool_idx = row[q]
    BY <1>0, <1>1, <1>15, TargetApart
  <2> QED
    BY <1>1, <1>3, <1>15, <2>1 DEF Owns, Require
<1>16. StagedOnce'
  <2>1. \A i \in DOMAIN ack_staging_queue :
           /\ Owns(ack_staging_queue[i].rid, ack_staging_queue[i])'
           /\ phases'[ack_staging_queue[i].req_pool_idx] = "host_ready"
    BY <1>1, <1>3, <1>15, ParkedIs
  <2>2. \A q \in Rids : stage[q] = "running" =>
           phases'[row[q]] \in {"decode", "failed", "releasing", "drained"}
    BY <1>3, <1>15 DEF BooksExact, StagedOnce, CacheMatchesTable
  <2> QED
    BY <1>1, <2>1, <2>2, StagedHas, StagedBy
<1>17. ASSUME NEW i \in DOMAIN pending_releases, pending_releases[i] # t
       PROVE  /\ Require(pending_releases[i], {"drained", "logical_flushed"})
              /\ active'[pending_releases[i].req_pool_idx] = pending_releases[i]
              /\ phases'[pending_releases[i].req_pool_idx] \in {"drained", "logical_flushed"}
              /\ requests'[pending_releases[i].req_pool_idx] = pending_releases[i]
              /\ stage[pending_releases[i].rid] = "finished"
  <2>1. /\ pending_releases[i].req_pool_idx \in Rows
        /\ Require(pending_releases[i], {"drained", "logical_flushed"})
        /\ requests[pending_releases[i].req_pool_idx] = pending_releases[i]
        /\ stage[pending_releases[i].rid] = "finished"
    BY ElementOfSeq, LeaseFields DEF BooksExact, TypeOK, PendingExact
  <2>2. pending_releases[i].req_pool_idx # r
    BY <1>2, <1>17, <2>1 DEF Require
  <2> QED
    BY <1>3, <2>1, <2>2 DEF Require
<1>18. \A i, j \in DOMAIN pending_releases : pending_releases[i] = pending_releases[j] => i = j
  BY DEF BooksExact, PendingExact
<1>19. PendingExact'
  <2>1. CASE call.op = "flushing"
    <3>1. pending_releases # <<>> /\ t = pending_releases[1] /\ 1 \in DOMAIN pending_releases
      BY <1>0, <1>1, <2>1, TargetIs
    <3>2. /\ \A i \in DOMAIN pending_releases' :
                /\ pending_releases'[i] = pending_releases[i + 1]
                /\ i \in Nat /\ i + 1 \in DOMAIN pending_releases /\ i + 1 # 1
          /\ pending_releases' = <<>> <=> Len(pending_releases) <= 1
      BY <1>9, <2>1, <3>1, TailIs
    <3>3. ASSUME NEW i \in DOMAIN pending_releases'
          PROVE  /\ Require(pending_releases[i], {"drained", "logical_flushed"})'
                 /\ requests'[pending_releases'[i].req_pool_idx] = pending_releases'[i]
                 /\ stage[pending_releases'[i].rid] = "finished"
      <4>1. pending_releases'[i] = pending_releases[i + 1]
            /\ i + 1 \in DOMAIN pending_releases /\ pending_releases[i + 1] # t
        BY <1>18, <3>1, <3>2
      <4> QED
        BY <1>17, <4>1 DEF Require
    <3>4. ASSUME NEW i \in DOMAIN pending_releases', NEW j \in DOMAIN pending_releases',
                 pending_releases'[j] = pending_releases'[i]
          PROVE  i = j
      <4>1. i + 1 = j + 1 /\ i \in Nat /\ j \in Nat
        BY <1>18, <3>2, <3>4
      <4> QED
        BY <4>1
    <3>5. call'.op = "flushing" => pending_releases' # <<>>
      <4>1. Len(pending_releases) \in Nat
        BY <1>9, LenProperties
      <4> QED
        BY <1>8, <3>2, <4>1
    <3> QED
      BY <1>1, <3>3, <3>4, <3>5 DEF PendingExact, Require
  <2>2. CASE call.op # "flushing"
    <3>1. call.op = "freed"
      BY <1>1, <2>2 DEF Committing
    <3>2. \A i \in DOMAIN pending_releases : pending_releases[i] # t
      BY <1>0, <1>1, <3>1, TargetIs
    <3> QED
      BY <1>1, <1>8, <1>9, <1>17, <1>18, <2>2, <3>2 DEF PendingExact, Require
  <2> QED
    BY <2>1, <2>2
<1>20. CacheMatchesTable'
  <2>1. \A q \in Rows : requests'[q] # NoLease => active'[q] = requests'[q]
    BY <1>3 DEF BooksExact, CacheMatchesTable
  <2>2. ASSUME NEW q \in Rids, stage[q] \in {"parked", "running"}
        PROVE  Owns(q, requests[row[q]])' /\ requests'[row[q]] = requests[row[q]]
    <3>1. Owns(q, requests[row[q]])
      BY <2>2 DEF BooksExact, CacheMatchesTable
    <3>2. requests'[row[q]] = requests[row[q]]
      BY <1>3, <1>15, <3>1
    <3> QED
      BY <1>1, <1>15, <3>1, <3>2 DEF Owns, Require
  <2> QED
    BY <1>1, <2>1, <2>2 DEF CacheMatchesTable
<1> QED
  BY <1>4, <1>10, <1>11, <1>12, <1>13, <1>14, <1>16, <1>19, <1>20 DEF BooksExact

\* Under an open group the drained lease is queued for the flush, once.
LEMMA DeferStep ==
    ASSUME BooksExact, Defer
    PROVE  BooksExact'
<1>0. PICK t \in Leases : call.lease = t
  BY CallLease DEF Defer
<1>1. /\ call.op = "freed"
      /\ \A i \in DOMAIN pending_releases : pending_releases[i] # t
      /\ pending_releases' = Append(pending_releases, t)
      /\ call' = Idle
      /\ UNCHANGED <<active, phases, last_generation, free_slots, prefill_owner,
                     generation, row, stage, steps, pages, requests, ack_staging_queue,
                     free_group, graph_failed_leases, work, faults>>
  BY <1>0 DEF Defer, slotVars, reqVars
<1>2. /\ Require(t, {"drained", "logical_flushed"})
      /\ requests[t.req_pool_idx] = t
      /\ stage[t.rid] = "finished"
  BY <1>0, <1>1 DEF BooksExact, CallExact
<1>3. /\ pending_releases' \in Seq(Leases)
      /\ DOMAIN pending_releases' = DOMAIN pending_releases \cup {Len(pending_releases) + 1}
      /\ Len(pending_releases) + 1 \notin DOMAIN pending_releases
      /\ \A i \in DOMAIN pending_releases : pending_releases'[i] = pending_releases[i]
      /\ pending_releases'[Len(pending_releases) + 1] = t
  <2>1. pending_releases \in Seq(Leases)
    BY DEF BooksExact, TypeOK
  <2>2. DOMAIN pending_releases = 1..Len(pending_releases) /\ Len(pending_releases) \in Nat
    BY <2>1, LenProperties
  <2> QED
    BY <1>1, <2>1, <2>2, AppendProperties
<1>4. SlotsInv'
  BY <1>1, SlotsKept DEF BooksExact, slotVars
<1>5. Idle \in [op : {"idle", "flushing"}, lease : {NoLease}] /\ Idle.op = "idle"
  BY DEF Idle
<1>6. TypeOK'
  BY <1>1, <1>3, <1>4, <1>5 DEF BooksExact, TypeOK, SlotsInv
<1>7. CallExact'
  BY <1>1, <1>5, CallIdle
<1>8. RowsOwned' /\ LeasesOwned' /\ PagesFollow'
  BY <1>1, LeasesFrame DEF BooksExact, RowsOwned, PagesFollow, Unpaged, Active
<1>9. StagedOnce' /\ CacheMatchesTable'
  BY <1>1, StagedFrame, CacheFrame DEF BooksExact
<1>10. PendingExact'
  <2>1. ASSUME NEW i \in DOMAIN pending_releases'
        PROVE  /\ Require(pending_releases[i], {"drained", "logical_flushed"})'
               /\ requests'[pending_releases'[i].req_pool_idx] = pending_releases'[i]
               /\ stage[pending_releases'[i].rid] = "finished"
    <3>1. CASE i = Len(pending_releases) + 1
      BY <3>1, <1>1, <1>2, <1>3 DEF Require
    <3>2. CASE i \in DOMAIN pending_releases
      BY <3>2, <1>1, <1>3 DEF BooksExact, PendingExact, Require
    <3> QED
      BY <3>1, <3>2, <1>3
  <2>2. \A i, j \in DOMAIN pending_releases : pending_releases[j] = pending_releases[i] => i = j
    BY DEF BooksExact, PendingExact
  <2>3. \A i, j \in DOMAIN pending_releases' :
           pending_releases'[j] = pending_releases'[i] => i = j
    BY <1>1, <1>3, <2>2
  <2> QED
    BY <1>1, <1>5, <2>1, <2>3 DEF PendingExact, Require
<1> QED
  BY <1>4, <1>6, <1>7, <1>8, <1>9, <1>10 DEF BooksExact

\* A group opens: nothing in the books moves.
LEMMA FreeGroupBeginStep ==
    ASSUME BooksExact, FreeGroupBegin
    PROVE  BooksExact'
<1>1. /\ call = Idle /\ free_group' = TRUE
      /\ UNCHANGED <<slotVars, active, phases, generation, row, stage, steps, pages, requests,
                     ack_staging_queue, pending_releases, graph_failed_leases, work, call,
                     faults>>
  BY DEF FreeGroupBegin, slotVars, reqVars, queueVars
<1>2. SlotsInv'
  BY <1>1, SlotsKept DEF BooksExact
<1>3. TypeOK'
  BY <1>1, <1>2 DEF BooksExact, TypeOK, SlotsInv
<1>4. CallExact'
  BY <1>1, CallIdle DEF Idle
<1>5. RowsOwned' /\ LeasesOwned' /\ PagesFollow'
  BY <1>1, LeasesFrame DEF BooksExact, RowsOwned, PagesFollow, Unpaged, Active
<1>6. StagedOnce' /\ CacheMatchesTable' /\ PendingExact'
  BY <1>1, StagedFrame, CacheFrame, PendingFrame DEF BooksExact
<1> QED
  BY <1>2, <1>3, <1>4, <1>5, <1>6 DEF BooksExact

\* A group closes: its pages return before the flush of the pending releases.
LEMMA FreeGroupEndStep ==
    ASSUME BooksExact, FreeGroupEnd
    PROVE  BooksExact'
<1>1. /\ call = Idle /\ free_group' = FALSE
      /\ pages' = [rid \in Rids |-> IF pages[rid] = "grouped" THEN "none" ELSE pages[rid]]
      /\ call' = IF pending_releases = <<>> THEN Idle ELSE At("flushing", NoLease)
      /\ UNCHANGED <<slotVars, active, phases, generation, row, stage, steps, requests,
                     ack_staging_queue, pending_releases, graph_failed_leases, work, faults>>
  BY DEF FreeGroupEnd, slotVars, queueVars
<1>2. SlotsInv'
  BY <1>1, SlotsKept DEF BooksExact
<1>3. /\ call' \in [op : {"idle", "flushing"}, lease : {NoLease}]
      /\ call'.op \in {"idle", "flushing"}
      /\ call'.op = "flushing" => pending_releases # <<>>
  <2>1. CASE pending_releases = <<>>
    BY <1>1, <2>1 DEF Idle
  <2>2. CASE pending_releases # <<>>
    BY <1>1, <2>2 DEF At
  <2> QED
    BY <2>1, <2>2
<1>4. TypeOK'
  <2>1. pages' \in [Rids -> {"none", "held", "grouped"}]
    BY <1>1 DEF BooksExact, TypeOK
  <2> QED
    BY <1>1, <1>2, <1>3, <2>1 DEF BooksExact, TypeOK, SlotsInv
<1>5. CallExact'
  BY <1>3, CallIdle
<1>6. RowsOwned' /\ LeasesOwned'
  BY <1>1, LeasesFrame DEF BooksExact, RowsOwned
<1>7. PagesFollow'
  <2>1. \A l \in Active : l.rid \in Rids
    BY ActiveIs, LeaseRid DEF BooksExact
  <2> QED
    BY <1>1, <2>1 DEF BooksExact, PagesFollow, Unpaged, Active
<1>8. StagedOnce' /\ CacheMatchesTable'
  BY <1>1, StagedFrame, CacheFrame DEF BooksExact
<1>9. PendingExact'
  BY <1>1, <1>3 DEF BooksExact, PendingExact, Require
<1> QED
  BY <1>2, <1>4, <1>5, <1>6, <1>7, <1>8, <1>9 DEF BooksExact

\* A step of nothing keeps the books.
LEMMA BooksStutter ==
    ASSUME BooksExact, UNCHANGED vars
    PROVE  BooksExact'
<1>1. UNCHANGED <<slotVars, runtimeVars>>
  BY DEF vars
<1>2. UNCHANGED <<slotVars, active, phases, generation, row, stage, steps, pages, requests,
                  ack_staging_queue, pending_releases, free_group, graph_failed_leases, work,
                  call, faults>>
  BY <1>1 DEF runtimeVars, reqVars, queueVars, slotVars
<1>3. CallExact'
  BY <1>2, CallFrame DEF BooksExact
<1>4. faults' \in 0..MaxFaults
  BY <1>2, BoundsAssumption DEF BooksExact, TypeOK
<1> QED
  BY <1>2, <1>3, <1>4, QuietStep DEF BooksExact, TypeOK

\* The books are inductive: every call, whole or broken off, keeps them.
LEMMA BooksStep == BooksExact /\ [Next]_vars => BooksExact'
<1> SUFFICES ASSUME BooksExact, [Next]_vars PROVE BooksExact'
  OBVIOUS
<1>1. CASE UNCHANGED vars
  BY <1>1, BooksStutter
<1>2. ASSUME NEW rid \in Rids, NEW r \in Rows, AllocRow(rid, r)
      PROVE  BooksExact'
  BY <1>2, AllocRowStep
<1>3. ASSUME NEW rid \in Rids, NEW cached \in BOOLEAN, NEW ran \in BOOLEAN,
             BeginPrefill(rid, cached, ran)
      PROVE  BooksExact'
  BY <1>3, BeginPrefillStep
<1>4. ASSUME NEW rid \in Rids, NEW rowed \in BOOLEAN, ReleaseUnleased(rid, rowed)
      PROVE  BooksExact'
  BY <1>4, ReleaseUnleasedStep
<1>5. ASSUME NEW rid \in Rids, NEW lease \in Active,
             \/ PrefillChunk(rid, lease)
             \/ HandoffBegin(rid, lease)
             \/ Release(rid, lease)
             \/ \E left \in {"failed", "releasing"} : ReleaseFails(rid, lease, left)
      PROVE  BooksExact'
  BY <1>5, PrefillChunkStep, HandoffBeginStep, ReleaseStep, ReleaseFailsStep
<1>6. CASE HandoffFinish
  BY <1>6, HandoffFinishStep
<1>7. CASE Park
  BY <1>7, ParkStep
<1>8. ASSUME NEW cleaned \in BOOLEAN, HandoffFails(cleaned)
      PROVE  BooksExact'
  BY <1>8, HandoffFailsStep
<1>9. ASSUME NEW count \in 1..Len(ack_staging_queue),
             NEW admitted \in 1..Len(ack_staging_queue), NEW returned \in BOOLEAN,
             Collect(count, admitted, returned)
      PROVE  BooksExact'
  BY <1>9, CollectStep
<1>10. ASSUME NEW batch \in SUBSET Rids, NEW closing \in SUBSET batch, Decode(batch, closing)
       PROVE  BooksExact'
  BY <1>10, DecodeStep
<1>11. ASSUME NEW batch \in SUBSET Rids, NEW closing \in SUBSET batch,
              NEW streams_drained \in BOOLEAN, GraphFails(batch, closing, streams_drained)
       PROVE  BooksExact'
  BY <1>11, GraphFailsStep
<1>12. CASE FreePages \/ FreeRow
  BY <1>12, FreePagesStep, FreeRowStep
<1>13. CASE Defer
  BY <1>13, DeferStep
<1>14. CASE MarkFlushed
  BY <1>14, MarkFlushedStep
<1>15. ASSUME NEW raised \in BOOLEAN, Commit(raised)
       PROVE  BooksExact'
  BY <1>15, CommitStep
<1>16. CASE Raise
  BY <1>16, RaiseStep
<1>17. CASE FreeGroupBegin
  BY <1>17, FreeGroupBeginStep
<1>18. CASE FreeGroupEnd
  BY <1>18, FreeGroupEndStep
<1>19. ASSUME NEW w \in work, Complete(w)
       PROVE  BooksExact'
  BY <1>19, CompleteStep
<1> QED
  BY <1>1, <1>2, <1>3, <1>4, <1>5, <1>6, <1>7, <1>8, <1>9, <1>10, <1>11, <1>12, <1>13,
     <1>14, <1>15, <1>16, <1>17, <1>18, <1>19 DEF Next

\* Rows, queue, caches, pending releases and table are about the same leases,
\* each in one place of its way, whichever calls fail half-way.
THEOREM BooksAreExact == Spec => []BooksExact
BY BooksInit, BooksStep, PTL DEF Spec

\* The table inside the runtime keeps its invariant: the runtime's own writes
\* to the phases (the failed handoff, the failed replay) respect it too.
THEOREM TableInRuntime == Spec => []SlotsInv
<1>1. BooksExact => SlotsInv
  BY DEF BooksExact
<1> QED
  BY BooksInit, BooksStep, <1>1, PTL DEF Spec

----------------------------------------------------------------------------
(* Which failures lose a lease.                                            *)

Scheduled == {"prefill", "parked", "running"}

\* What may become of a lease that a step takes off its way back.
Lapse(l) ==
    /\ faults' < faults
    /\ \/ l \notin Active
       \/ stage[l.rid] = "parked" /\ stage'[l.rid] = "lost"
       \/ phases'[l.req_pool_idx] = "releasing"
       \/ ReleasingOf(l)

\* A lease that its request still has stays on its way, if the request stays
\* with the scheduler and the lease stays drainable.
LEMMA WayKept ==
    ASSUME NEW l, stage'[l.rid] \in Scheduled, Owns(l.rid, l)',
           phases'[l.req_pool_idx] \in Drainable
    PROVE  OnItsWay(l)'
BY DEF OnItsWay, Scheduled, Owns, Require

\* A lease on its way in the first manner is its request's, and drainable.
LEMMA WayIs ==
    ASSUME BooksExact, NEW l, OnItsWay(l)
    PROVE  \/ /\ stage[l.rid] \in Scheduled /\ Owns(l.rid, l)
              /\ phases[l.req_pool_idx] \in Drainable
           \/ ReleasingOf(l)
           \/ \E i \in DOMAIN pending_releases : pending_releases[i] = l
BY DEF OnItsWay, Scheduled, Require

\* A step that moves phases among the drainable ones, and requests among the
\* places of the scheduler, takes nothing off its way, and neither does one
\* that ends a call which releases no lease.
LEMMA WayStep ==
    ASSUME BooksExact, NEW l \in Active, OnItsWay(l),
           UNCHANGED <<row, requests, active, generation, pending_releases>>,
           \A q \in Rids : stage[q] \in Scheduled => stage'[q] \in Scheduled,
           \A r \in Rows : phases'[r] = phases[r] \/ phases'[r] \in Drainable,
           call.op \in {"drained", "unpaged", "freed"} => call' = call \/ ~ReleasingOf(l)
    PROVE  OnItsWay(l)'
<1>1. l \in Leases /\ l.rid \in Rids /\ l.req_pool_idx \in Rows
  BY ActiveIs, LeaseRid, LeaseFields DEF BooksExact
<1>2. CASE /\ stage[l.rid] \in Scheduled /\ Owns(l.rid, l)
           /\ phases[l.req_pool_idx] \in Drainable
  <2>1. phases'[l.req_pool_idx] \in Drainable /\ stage'[l.rid] \in Scheduled
    BY <1>1, <1>2
  <2>2. Owns(l.rid, l)'
    BY <1>2, <2>1, OwnsKept DEF Drainable, Phases
  <2> QED
    BY <2>1, <2>2, WayKept
<1>3. CASE ReleasingOf(l)
  BY <1>3 DEF OnItsWay, ReleasingOf
<1>4. CASE \E i \in DOMAIN pending_releases : pending_releases[i] = l
  BY <1>4 DEF OnItsWay
<1> QED
  BY <1>2, <1>3, <1>4, WayIs

\* A row goes to a request that has no lease on its way: the others keep theirs.
LEMMA AllocRowWay ==
    ASSUME BooksExact, NEW rid \in Rids, NEW r \in Rows, AllocRow(rid, r),
           NEW l \in Active, OnItsWay(l)
    PROVE  OnItsWay(l)'
<1>1. l \in Leases /\ l.rid \in Rids
  BY ActiveIs, LeaseRid DEF BooksExact
<1>2. CASE /\ stage[l.rid] \in Scheduled /\ Owns(l.rid, l)
           /\ phases[l.req_pool_idx] \in Drainable
  <2>1. row[l.rid] # r /\ l.rid # rid /\ l.req_pool_idx = row[l.rid] /\ row[l.rid] \in Rows
    BY <1>1, <1>2, OwnsIs DEF AllocRow, Scheduled
  <2>2. row'[l.rid] = row[l.rid] /\ stage'[l.rid] = stage[l.rid]
        /\ generation'[l.req_pool_idx] = generation[l.req_pool_idx]
        /\ UNCHANGED <<active, phases, requests>>
    BY <1>1, <2>1 DEF AllocRow, BooksExact, TypeOK, slotVars
  <2>3. Owns(l.rid, l)'
    BY <1>2, <2>2 DEF Owns, Require
  <2> QED
    BY <1>2, <2>2, <2>3, WayKept
<1>3. CASE ReleasingOf(l)
  BY <1>3 DEF OnItsWay, ReleasingOf, AllocRow
<1>4. CASE \E i \in DOMAIN pending_releases : pending_releases[i] = l
  BY <1>4 DEF OnItsWay, AllocRow, queueVars
<1> QED
  BY <1>2, <1>3, <1>4, WayIs

\* A first extend that made its cache has its lease; without the cache the
\* lease is lost, and the call has failed.
LEMMA BeginPrefillWay ==
    ASSUME BooksExact, NEW rid \in Rids, NEW cached \in BOOLEAN, NEW ran \in BOOLEAN,
           BeginPrefill(rid, cached, ran),
           NEW l \in Active', l \in Active => OnItsWay(l)
    PROVE  OnItsWay(l)' \/ Lapse(l)
<1>0. PICK r \in Rows, lease \in Leases : r = row[rid] /\ lease = prefill_owner'
  BY Acquired
<1>1. /\ stage[rid] = "prefill" /\ requests[r] = NoLease
      /\ requests' = IF cached THEN [requests EXCEPT ![r] = lease] ELSE requests
      /\ ran => cached
      /\ ~ran => Fault
      /\ active[r] = NoLease
      /\ active' = [active EXCEPT ![r] = lease]
      /\ phases' = [phases EXCEPT ![r] = "prefill"]
      /\ UNCHANGED <<generation, row, stage, pending_releases, call>>
      /\ Active' = Active \cup {lease}
      /\ lease.req_pool_idx = r /\ lease.generation = generation[r] /\ lease.rid = rid
      /\ lease # NoLease /\ r # 0
  BY <1>0, Acquired, LeaseFields, IdentityAssumption
     DEF BeginPrefill, Acquire, reqVars, queueVars
<1>2. /\ \A q \in Rows : q # r => /\ active'[q] = active[q] /\ phases'[q] = phases[q]
                                  /\ requests'[q] = requests[q]
      /\ active'[r] = lease /\ phases'[r] = "prefill"
      /\ cached => requests'[r] = lease
  BY <1>1 DEF BooksExact, TypeOK, SlotsInv, SlotsTypeOK
<1>3. CASE l \in Active
  <2>1. l.req_pool_idx \in Rows /\ active[l.req_pool_idx] = l /\ l # NoLease
    BY <1>3, ActiveIs, LeaseFields DEF BooksExact
  <2>2. CASE /\ stage[l.rid] \in Scheduled /\ Owns(l.rid, l)
             /\ phases[l.req_pool_idx] \in Drainable
    <3>1. l.req_pool_idx # r /\ row[l.rid] # r
      BY <1>1, <2>1, <2>2 DEF Owns
    <3>2. row[l.rid] = l.req_pool_idx
      BY <1>3, <2>2, OwnsIs, ActiveIs, LeaseRid DEF BooksExact
    <3>3. Owns(l.rid, l)'
      BY <1>1, <1>2, <2>1, <2>2, <3>1, <3>2 DEF Owns, Require
    <3> QED
      BY <1>1, <1>2, <2>1, <2>2, <3>1, <3>3, WayKept
  <2>3. CASE ReleasingOf(l)
    BY <1>1, <2>3 DEF OnItsWay, ReleasingOf
  <2>4. CASE \E i \in DOMAIN pending_releases : pending_releases[i] = l
    BY <1>1, <2>4 DEF OnItsWay
  <2> QED
    BY <1>3, <2>2, <2>3, <2>4, WayIs
<1>4. CASE l \notin Active /\ cached
  <2>1. l = lease
    BY <1>1, <1>4
  <2>2. Owns(l.rid, l)'
    BY <1>0, <1>1, <1>2, <1>4, <2>1 DEF Owns, Require, Phases
  <2> QED
    BY <1>1, <1>2, <2>1, <2>2, WayKept DEF Scheduled, Drainable
<1>5. CASE l \notin Active /\ ~cached
  BY <1>1, <1>5, FaultType DEF Lapse
<1> QED
  BY <1>3, <1>4, <1>5

\* A release keeps its lease with the call; a drain that raises keeps it with
\* the request, unless it was interrupted.
LEMMA ReleaseWay ==
    ASSUME BooksExact, NEW rid \in Rids, NEW lease \in Active,
           \/ Release(rid, lease)
           \/ \E left \in {"failed", "releasing"} : ReleaseFails(rid, lease, left),
           NEW l \in Active, OnItsWay(l)
    PROVE  OnItsWay(l)' \/ Lapse(l)
<1>1. PICK phase \in {"drained", "failed", "releasing"} :
         /\ phases' = [phases EXCEPT ![lease.req_pool_idx] = phase]
         /\ phase = "drained" => call' = At("drained", lease)
         /\ phase # "drained" => Fault /\ call' = call
         /\ call = Idle
         /\ UNCHANGED <<row, stage, requests, active, generation, pending_releases>>
  BY DEF Release, ReleaseFails, Releasable, Drain, DrainRaises, SetPhase, reqVars, queueVars
<1>2. /\ l.req_pool_idx \in Rows /\ active[l.req_pool_idx] = l
      /\ lease.req_pool_idx \in Rows /\ active[lease.req_pool_idx] = lease
  BY ActiveIs, LeaseFields DEF BooksExact
<1>3. /\ l # lease => phases'[l.req_pool_idx] = phases[l.req_pool_idx]
      /\ l = lease => phases'[l.req_pool_idx] = phase
  BY <1>1, <1>2 DEF BooksExact, SlotsInv, SlotsTypeOK
<1>4. ~ReleasingOf(l)
  BY <1>1 DEF ReleasingOf, Idle
<1>5. CASE /\ stage[l.rid] \in Scheduled /\ Owns(l.rid, l)
           /\ phases[l.req_pool_idx] \in Drainable
  <2>1. CASE l = lease /\ phase = "drained"
    BY <1>1, <2>1 DEF OnItsWay, ReleasingOf, At
  <2>2. CASE l = lease /\ phase = "releasing"
    BY <1>1, <1>3, <2>2, FaultType DEF Lapse
  <2>3. CASE l # lease \/ phase = "failed"
    <3>1. phases'[l.req_pool_idx] \in Drainable
      BY <1>3, <1>5, <2>3 DEF Drainable
    <3>2. Owns(l.rid, l)'
      BY <1>1, <1>5, <3>1, OwnsKept DEF Drainable, Phases
    <3> QED
      BY <1>1, <1>5, <3>1, <3>2, WayKept
  <2> QED
    BY <2>1, <2>2, <2>3
<1>6. CASE \E i \in DOMAIN pending_releases : pending_releases[i] = l
  BY <1>1, <1>6 DEF OnItsWay
<1> QED
  BY <1>4, <1>5, <1>6, WayIs

\* A collection keeps its leases with their requests, unless it was lost.
LEMMA CollectWay ==
    ASSUME BooksExact, NEW count \in 1..Len(ack_staging_queue),
           NEW admitted \in 1..Len(ack_staging_queue), NEW returned \in BOOLEAN,
           Collect(count, admitted, returned),
           NEW l \in Active, OnItsWay(l)
    PROVE  OnItsWay(l)' \/ Lapse(l)
<1> DEFINE ready == {ack_staging_queue[i].rid : i \in 1..count}
<1>1. /\ call = Idle /\ call' = call
      /\ \A q \in Rids : stage'[q] = IF q \notin ready THEN stage[q]
                                     ELSE IF returned THEN "running" ELSE "lost"
      /\ ~returned => Fault
      /\ \A r \in Rows : phases'[r] \in {phases[r], "decode"}
      /\ UNCHANGED <<row, requests, active, generation, pending_releases>>
  BY DEF Collect
<1>2. l.rid \in Rids /\ l.req_pool_idx \in Rows
  BY ActiveIs, LeaseRid, LeaseFields DEF BooksExact
<1>3. l.rid \in ready => stage[l.rid] = "parked"
  <2>1. \A i \in 1..count : i \in DOMAIN ack_staging_queue
    BY LenProperties DEF BooksExact, TypeOK
  <2> QED
    BY <2>1, ParkedIs
<1> HIDE DEF ready
<1>4. CASE /\ stage[l.rid] \in Scheduled /\ Owns(l.rid, l)
           /\ phases[l.req_pool_idx] \in Drainable
  <2>1. CASE l.rid \in ready /\ ~returned
    BY <1>1, <1>2, <1>3, <2>1, FaultType DEF Lapse
  <2>2. CASE l.rid \notin ready \/ returned
    <3>1. stage'[l.rid] \in Scheduled /\ phases'[l.req_pool_idx] \in Drainable
      BY <1>1, <1>2, <1>4, <2>2 DEF Scheduled, Drainable
    <3>2. Owns(l.rid, l)'
      BY <1>1, <1>4, <3>1, OwnsKept DEF Drainable, Phases
    <3> QED
      BY <3>1, <3>2, WayKept
  <2> QED
    BY <2>1, <2>2
<1>5. CASE ReleasingOf(l)
  BY <1>1, <1>5 DEF ReleasingOf, Idle
<1>6. CASE \E i \in DOMAIN pending_releases : pending_releases[i] = l
  BY <1>1, <1>6 DEF OnItsWay
<1> QED
  BY <1>4, <1>5, <1>6, WayIs

\* While a release goes on from the pages to the row and to the flush, its
\* lease is with the call, or queued.
LEMMA ReleasingWay ==
    ASSUME BooksExact, FreePages \/ FreeRow \/ Defer, NEW l \in Active, OnItsWay(l)
    PROVE  OnItsWay(l)'
<1>0. PICK lease \in Leases : call.lease = lease /\ lease.rid \in Rids
  BY CallLease DEF FreePages, FreeRow, Defer
<1>1. CASE ReleasingOf(l)
  <2>1. CASE FreePages \/ FreeRow
    BY <1>1, <2>1 DEF FreePages, FreeRow, At, ReleasingOf, OnItsWay
  <2>2. CASE Defer
    <3>1. pending_releases' = Append(pending_releases, l) /\ pending_releases \in Seq(Leases)
      BY <1>1, <2>2 DEF Defer, ReleasingOf, BooksExact, TypeOK
    <3>2. l \in Leases
      BY ActiveIs DEF BooksExact
    <3>3. Len(pending_releases) + 1 \in DOMAIN pending_releases'
          /\ pending_releases'[Len(pending_releases) + 1] = l
      BY <3>1, <3>2, AppendProperties
    <3> QED
      BY <3>3 DEF OnItsWay
  <2> QED
    BY <2>1, <2>2
<1>2. CASE ~ReleasingOf(l) /\ stage[l.rid] \in Scheduled /\ Owns(l.rid, l)
           /\ phases[l.req_pool_idx] \in Drainable
  <2>1. (l.rid \in Rids /\ lease \in Active /\ l.rid # lease.rid)
        \/ Defer
    <3>1. CASE FreePages \/ FreeRow
      <4>1. Owns(lease.rid, lease)
        BY <1>0, <3>1 DEF FreePages, FreeRow, BooksExact, CallExact
      <4>2. lease \in Active /\ l # lease
        BY <1>0, <1>2, <3>1, <4>1, OwnsIs DEF FreePages, FreeRow, ReleasingOf
      <4> QED
        BY <4>2, ActiveIs, LeaseRid DEF BooksExact, LeasesOwned
    <3> QED
      BY <3>1
  <2>2. /\ row'[l.rid] = row[l.rid] /\ stage'[l.rid] = stage[l.rid]
        /\ UNCHANGED <<requests, active, phases, generation>>
    BY <1>0, <2>1 DEF FreePages, FreeRow, Defer, slotVars, reqVars, BooksExact, TypeOK
  <2>3. Owns(l.rid, l)'
    BY <1>2, <2>2 DEF Owns, Require
  <2> QED
    BY <1>2, <2>2, <2>3, WayKept
<1>3. CASE \E i \in DOMAIN pending_releases : pending_releases[i] = l
  <2>1. CASE FreePages \/ FreeRow
    BY <1>3, <2>1 DEF FreePages, FreeRow, queueVars, OnItsWay
  <2>2. CASE Defer
    <3>1. pending_releases' = Append(pending_releases, lease)
          /\ pending_releases \in Seq(Leases)
      BY <1>0, <2>2 DEF Defer, BooksExact, TypeOK
    <3>2. PICK i \in DOMAIN pending_releases : pending_releases[i] = l
      BY <1>3
    <3>3. i \in DOMAIN pending_releases' /\ pending_releases'[i] = l
      BY <3>1, <3>2, AppendProperties, LenProperties
    <3> QED
      BY <3>3 DEF OnItsWay
  <2> QED
    BY <2>1, <2>2
<1> QED
  BY <1>1, <1>2, <1>3, WayIs

\* The flush touches the lease it commits, which is gone afterwards, and pops
\* that one alone.
LEMMA CommittingWay ==
    ASSUME BooksExact, NEW raised \in BOOLEAN, MarkFlushed \/ Commit(raised),
           NEW l \in Active', l \in Active => OnItsWay(l)
    PROVE  OnItsWay(l)'
<1>0. PICK t \in Leases, r \in Rows : t = Target /\ r = Target.req_pool_idx
  BY TargetIs DEF MarkFlushed, Commit
<1>1. /\ Committing /\ active[r] = t /\ t.req_pool_idx = r
      /\ \A q \in Rows : q # r => /\ active'[q] = active[q] /\ phases'[q] = phases[q]
                                  /\ requests'[q] = requests[q]
      /\ UNCHANGED <<row, stage, generation>>
  BY <1>0, TargetIs
     DEF MarkFlushed, LogicalFlushed, Commit, CommitRelease, RequestsLeft, SetPhase,
         runtimeVars, reqVars, BooksExact, TypeOK, SlotsInv, SlotsTypeOK
<1>2. /\ l \in Active /\ OnItsWay(l)
      /\ Commit(raised) => l # t
  <2>1. CASE ~Commit(raised)
    BY <2>1 DEF MarkFlushed, LogicalFlushed, Active
  <2>2. CASE Commit(raised)
    <3>1. active' = [active EXCEPT ![r] = NoLease]
      BY <1>0, <2>2 DEF Commit, CommitRelease
    <3>2. \A q \in Rows : active'[q] # NoLease => q # r /\ active'[q] = active[q]
      BY <1>1, <3>1 DEF BooksExact, SlotsInv, SlotsTypeOK
    <3>3. \A q \in Rows : active[q] = t => q = r
      BY <1>0, <1>1, ActiveIs, TargetIs DEF BooksExact
    <3> QED
      BY <3>2, <3>3 DEF Active
  <2> QED
    BY <2>1, <2>2
<1>3. CASE /\ stage[l.rid] \in Scheduled /\ Owns(l.rid, l)
           /\ phases[l.req_pool_idx] \in Drainable
  <2>1. l.rid \in Rids
    BY <1>2, ActiveIs, LeaseRid DEF BooksExact
  <2>2. row[l.rid] \in Rows /\ row[l.rid] # r /\ l.req_pool_idx = row[l.rid]
    BY <1>0, <1>1, <1>3, <2>1, TargetApart
  <2>3. Owns(l.rid, l)' /\ phases'[l.req_pool_idx] \in Drainable
    BY <1>1, <1>3, <2>2 DEF Owns, Require
  <2> QED
    BY <1>1, <1>3, <2>3, WayKept
<1>4. CASE ReleasingOf(l)
  <2>1. call.op = "freed" /\ t = l
    BY <1>0, <1>1, <1>4 DEF ReleasingOf, Committing, Target
  <2>2. UNCHANGED call
    BY <1>2, <2>1 DEF MarkFlushed, runtimeVars
  <2> QED
    BY <1>4, <2>2 DEF OnItsWay, ReleasingOf
<1>5. CASE \E i \in DOMAIN pending_releases : pending_releases[i] = l
  <2>1. PICK i \in DOMAIN pending_releases : pending_releases[i] = l
    BY <1>5
  <2>2. CASE MarkFlushed
    BY <2>1, <2>2 DEF OnItsWay, MarkFlushed, runtimeVars, queueVars
  <2>3. CASE Commit(raised) /\ call.op = "flushing"
    <3>1. /\ pending_releases \in Seq(Leases) /\ pending_releases # <<>>
          /\ t = pending_releases[1] /\ pending_releases' = Tail(pending_releases)
      BY <1>0, <1>1, <2>3, TargetIs DEF Commit, Popped, BooksExact, TypeOK
    <3>2. i # 1
      BY <1>2, <2>1, <2>3, <3>1
    <3>3. i - 1 \in DOMAIN Tail(pending_releases)
          /\ Tail(pending_releases)[i - 1] = pending_releases[i]
      BY <2>1, <3>1, <3>2, TailIs
    <3> QED
      BY <2>1, <3>1, <3>3 DEF OnItsWay
  <2>4. CASE Commit(raised) /\ call.op # "flushing"
    BY <2>1, <2>4 DEF Commit, Popped, OnItsWay
  <2> QED
    BY <2>2, <2>3, <2>4
<1> QED
  BY <1>2, <1>3, <1>4, <1>5, WayIs

\* A request without a lease takes nothing off its way when it goes.
LEMMA ReleaseUnleasedWay ==
    ASSUME BooksExact, NEW rid \in Rids, NEW rowed \in BOOLEAN, ReleaseUnleased(rid, rowed),
           NEW l \in Active, OnItsWay(l)
    PROVE  OnItsWay(l)'
<1>1. /\ call = Idle /\ requests[row[rid]] = NoLease
      /\ \A q \in Rids : q # rid => row'[q] = row[q] /\ stage'[q] = stage[q]
      /\ UNCHANGED <<active, phases, requests, generation, pending_releases, call>>
  BY DEF ReleaseUnleased, Releasable, slotVars, queueVars, BooksExact, TypeOK
<1>2. l.rid \in Rids
  BY ActiveIs, LeaseRid DEF BooksExact
<1>3. CASE /\ stage[l.rid] \in Scheduled /\ Owns(l.rid, l)
           /\ phases[l.req_pool_idx] \in Drainable
  <2>1. l.rid # rid
    BY <1>1, <1>3 DEF Owns
  <2>2. Owns(l.rid, l)'
    BY <1>1, <1>2, <1>3, <2>1 DEF Owns, Require
  <2> QED
    BY <1>1, <1>2, <1>3, <2>1, <2>2, WayKept
<1>4. CASE ReleasingOf(l) \/ \E i \in DOMAIN pending_releases : pending_releases[i] = l
  BY <1>1, <1>4 DEF OnItsWay, ReleasingOf
<1> QED
  BY <1>3, <1>4, WayIs

\* Whatever else happens between, inside or beside the calls.
LEMMA OtherWay ==
    ASSUME BooksExact, NEW l \in Active, OnItsWay(l),
           \/ UNCHANGED vars
           \/ \E rid \in Rids, lease \in Active :
                 PrefillChunk(rid, lease) \/ HandoffBegin(rid, lease)
           \/ HandoffFinish \/ Park
           \/ \E cleaned \in BOOLEAN : HandoffFails(cleaned)
           \/ \E batch \in SUBSET Rids : \E closing \in SUBSET batch :
                 \/ Decode(batch, closing)
                 \/ \E streams_drained \in BOOLEAN : GraphFails(batch, closing, streams_drained)
           \/ FreeGroupBegin \/ FreeGroupEnd
           \/ \E w \in work : Complete(w)
    PROVE  OnItsWay(l)'
<1>1. UNCHANGED <<row, requests, active, generation, pending_releases>>
  BY DEF vars, runtimeVars, slotVars, reqVars, queueVars, PrefillChunk, HandoffBegin,
     BeginHandoff, HandoffFinish, FinishHandoff, Park, HandoffFails, MarkFailed, Decode,
     GraphFails, FreeGroupBegin, FreeGroupEnd, Complete
<1>2. \A q \in Rids : stage'[q] \in {stage[q], "parked"}
  BY DEF vars, runtimeVars, reqVars, PrefillChunk, HandoffBegin, HandoffFinish, Park,
     HandoffFails, Decode, GraphFails, FreeGroupBegin, FreeGroupEnd, Complete, BooksExact,
     TypeOK
<1>3. \A r \in Rows : phases'[r] \in {phases[r], "copying", "host_ready", "failed"}
  BY DEF vars, slotVars, PrefillChunk, HandoffBegin, BeginHandoff, HandoffFinish,
     FinishHandoff, Park, HandoffFails, MarkFailed, SetPhase, Decode, GraphFails,
     FreeGroupBegin, FreeGroupEnd, Complete, BooksExact, SlotsInv, SlotsTypeOK
<1>4. call.op \in {"drained", "unpaged", "freed"} => call' = call
  BY DEF vars, runtimeVars, PrefillChunk, HandoffBegin, HandoffFinish, Park, HandoffFails,
     Decode, GraphFails, Batchable, FreeGroupBegin, FreeGroupEnd, Complete, Idle
<1> QED
  BY <1>1, <1>2, <1>3, <1>4, WayStep DEF Scheduled, Drainable

\* A call that raises behind a drain loses that lease, and a flush that raises
\* loses none.
LEMMA RaiseWay ==
    ASSUME BooksExact, Raise, NEW l \in Active, OnItsWay(l)
    PROVE  OnItsWay(l)' \/ Lapse(l)
<1>1. /\ faults' < faults
      /\ UNCHANGED <<row, stage, requests, active, phases, generation, pending_releases>>
  BY FaultType DEF Raise, slotVars, reqVars, queueVars
<1>2. CASE ReleasingOf(l)
  BY <1>1, <1>2 DEF Lapse
<1>3. CASE ~ReleasingOf(l)
  BY <1>1, <1>3, WayStep
<1> QED
  BY <1>2, <1>3

\* No other failure, and no call that succeeds, takes a lease off its way.
LEMMA ForgetStep ==
    BooksExact /\ [Next]_vars => \A l \in Forgotten' \ Forgotten : Lapse(l)
<1> SUFFICES ASSUME BooksExact, [Next]_vars, NEW l \in Forgotten' \ Forgotten
             PROVE  Lapse(l)
  OBVIOUS
<1>1. /\ l \in Active' /\ ~OnItsWay(l)'
      /\ l \in Active => OnItsWay(l)
  BY DEF Forgotten
<1>2. ASSUME UNCHANGED active PROVE l \in Active
  BY <1>1, <1>2 DEF Active
<1>3. ASSUME NEW rid \in Rids, NEW r \in Rows, AllocRow(rid, r)
      PROVE  Lapse(l)
  BY <1>1, <1>2, <1>3, AllocRowWay DEF AllocRow, slotVars
<1>4. ASSUME NEW rid \in Rids, NEW cached \in BOOLEAN, NEW ran \in BOOLEAN,
             BeginPrefill(rid, cached, ran)
      PROVE  Lapse(l)
  BY <1>1, <1>4, BeginPrefillWay
<1>5. ASSUME NEW rid \in Rids, NEW rowed \in BOOLEAN, ReleaseUnleased(rid, rowed)
      PROVE  Lapse(l)
  BY <1>1, <1>2, <1>5, ReleaseUnleasedWay DEF ReleaseUnleased, slotVars
<1>6. ASSUME NEW rid \in Rids, NEW lease \in Active,
             \/ Release(rid, lease)
             \/ \E left \in {"failed", "releasing"} : ReleaseFails(rid, lease, left)
      PROVE  Lapse(l)
  <2>1. UNCHANGED active
    BY <1>6 DEF Release, Drain, ReleaseFails, DrainRaises
  <2> QED
    BY <1>1, <1>2, <1>6, <2>1, ReleaseWay
<1>7. ASSUME NEW count \in 1..Len(ack_staging_queue),
             NEW admitted \in 1..Len(ack_staging_queue), NEW returned \in BOOLEAN,
             Collect(count, admitted, returned)
      PROVE  Lapse(l)
  BY <1>1, <1>2, <1>7, CollectWay DEF Collect
<1>8. CASE FreePages \/ FreeRow \/ Defer
  BY <1>1, <1>2, <1>8, ReleasingWay DEF FreePages, FreeRow, Defer, slotVars
<1>9. ASSUME NEW raised \in BOOLEAN, MarkFlushed \/ Commit(raised)
      PROVE  Lapse(l)
  BY <1>1, <1>9, CommittingWay
<1>10. CASE Raise
  BY <1>1, <1>2, <1>10, RaiseWay DEF Raise, slotVars
<1>11. ASSUME \/ UNCHANGED vars
              \/ \E rid \in Rids, lease \in Active :
                    PrefillChunk(rid, lease) \/ HandoffBegin(rid, lease)
              \/ HandoffFinish \/ Park
              \/ \E cleaned \in BOOLEAN : HandoffFails(cleaned)
              \/ \E batch \in SUBSET Rids : \E closing \in SUBSET batch :
                    \/ Decode(batch, closing)
                    \/ \E streams_drained \in BOOLEAN :
                          GraphFails(batch, closing, streams_drained)
              \/ FreeGroupBegin \/ FreeGroupEnd
              \/ \E w \in work : Complete(w)
       PROVE  Lapse(l)
  <2>1. UNCHANGED active
    BY <1>11 DEF vars, slotVars, PrefillChunk, HandoffBegin, BeginHandoff, HandoffFinish,
       FinishHandoff, Park, HandoffFails, MarkFailed, Decode, GraphFails, FreeGroupBegin,
       FreeGroupEnd, Complete
  <2> QED
    BY <1>1, <1>2, <1>11, <2>1, OtherWay
<1> QED
  BY <1>3, <1>4, <1>5, <1>6, <1>7, <1>8, <1>9, <1>10, <1>11 DEF Next

\* Only the four failures lose a lease, for any number of calls, failing and
\* not: the action property that the run checks.
THEOREM OnlyFailuresLoseLeases == Spec => OnlyFailuresForget
<1>1. BooksExact /\ [Next]_vars =>
         [\A l \in Forgotten' \ Forgotten :
             /\ faults' < faults
             /\ \/ l \notin Active
                \/ stage[l.rid] = "parked" /\ stage'[l.rid] = "lost"
                \/ phases'[l.req_pool_idx] = "releasing"
                \/ ReleasingOf(l)]_vars
  BY ForgetStep DEF Lapse
<1> QED
  BY BooksInit, BooksStep, <1>1, PTL DEF Spec, OnlyFailuresForget

----------------------------------------------------------------------------
(* The device.                                                             *)

\* What lost its event is remembered as blocked, so that a release drains the
\* streams before it believes the events.
UntrackedKnown == \A w \in work : ~w.tracked => w.lease \in graph_failed_leases

WorkInv == WorkWithinLease /\ LaneWork /\ UntrackedKnown

\* A piece of work is about a lease, which is not NoLease.
LEMMA WorkIs ==
    ASSUME BooksExact
    PROVE  \A w \in work : /\ w \in Work /\ w.lease \in Leases /\ w.lease # NoLease
                           /\ w.lease.req_pool_idx \in Rows
<1>1. work \subseteq Work
  BY DEF BooksExact, TypeOK
<1>2. \A w \in Work : w.lease \in Leases
  BY DEF Work
<1> QED
  BY <1>1, <1>2, LeaseFields

\* Work that was there stays sound when its lease stays where it is.
LEMMA WorkKept ==
    ASSUME WorkInv, work' \subseteq work, UNCHANGED <<active, prefill_owner>>,
           graph_failed_leases \subseteq graph_failed_leases',
           \A w \in work' : phases[w.lease.req_pool_idx] \notin {"drained", "logical_flushed"}
              => phases'[w.lease.req_pool_idx] \notin {"drained", "logical_flushed"}
    PROVE  WorkInv'
BY DEF WorkInv, WorkWithinLease, LaneWork, UntrackedKnown

\* New work on one lease that is active and not past its drain, which owns the
\* lane if the work touches it.
LEMMA WorkAdded ==
    ASSUME WorkInv, NEW lease \in Leases, NEW kind \in Kinds,
           work' = work \cup {Submit(lease, kind)},
           UNCHANGED <<active, prefill_owner, graph_failed_leases>>,
           active[lease.req_pool_idx] = lease,
           phases'[lease.req_pool_idx] \notin {"drained", "logical_flushed"},
           kind \in {"prefill", "handoff"} => prefill_owner = lease,
           \A w \in work : phases[w.lease.req_pool_idx] \notin {"drained", "logical_flushed"}
              => phases'[w.lease.req_pool_idx] \notin {"drained", "logical_flushed"}
    PROVE  WorkInv'
BY SubmitIs DEF WorkInv, WorkWithinLease, LaneWork, UntrackedKnown

\* A first extend takes the lane when no work is left on it.
LEMMA BeginPrefillWork ==
    ASSUME BooksExact, WorkInv, NEW rid \in Rids, NEW cached \in BOOLEAN, NEW ran \in BOOLEAN,
           BeginPrefill(rid, cached, ran)
    PROVE  WorkInv'
<1>0. PICK r \in Rows, lease \in Leases : r = row[rid] /\ lease = prefill_owner'
  BY Acquired
<1>1. /\ active[r] = NoLease /\ prefill_owner = NoLease
      /\ work' \in {work, work \cup {Submit(lease, "prefill")}}
      /\ graph_failed_leases' = graph_failed_leases
      /\ lease.req_pool_idx = r
      /\ active' = [active EXCEPT ![r] = lease]
      /\ phases' = [phases EXCEPT ![r] = "prefill"]
  BY <1>0, Acquired DEF BeginPrefill, Acquire
<1>2. /\ \A q \in Rows : q # r => active'[q] = active[q] /\ phases'[q] = phases[q]
      /\ active'[r] = lease /\ phases'[r] = "prefill"
  BY <1>1 DEF BooksExact, SlotsInv, SlotsTypeOK
<1>3. ASSUME NEW w \in work
      PROVE  /\ active'[w.lease.req_pool_idx] = w.lease
             /\ phases'[w.lease.req_pool_idx] \notin {"drained", "logical_flushed"}
             /\ w.kind \notin {"prefill", "handoff"}
             /\ ~w.tracked => w.lease \in graph_failed_leases
  <2>1. w.lease # NoLease /\ w.lease.req_pool_idx \in Rows
    BY WorkIs
  <2>2. active[w.lease.req_pool_idx] = w.lease
        /\ phases[w.lease.req_pool_idx] \notin {"drained", "logical_flushed"}
    BY DEF WorkInv, WorkWithinLease
  <2>3. w.lease.req_pool_idx # r
    BY <1>1, <2>1, <2>2
  <2> QED
    BY <1>1, <1>2, <2>1, <2>2, <2>3 DEF WorkInv, LaneWork, UntrackedKnown
<1>4. LET w == Submit(lease, "prefill") IN
      w.lease = lease /\ w.kind = "prefill" /\ w.tracked
  BY SubmitIs DEF Kinds
<1> QED
  BY <1>0, <1>1, <1>2, <1>3, <1>4 DEF WorkInv, WorkWithinLease, LaneWork, UntrackedKnown

\* The lane is free once no work of its owner is left.
LEMMA HandoffFinishWork ==
    ASSUME BooksExact, WorkInv, HandoffFinish
    PROVE  WorkInv'
<1>0. PICK lease \in Leases : call.lease = lease
  BY CallLease DEF HandoffFinish
<1>1. /\ WorkOf(lease) = {} /\ prefill_owner = lease
      /\ phases' = [phases EXCEPT ![lease.req_pool_idx] = "host_ready"]
      /\ UNCHANGED <<active, work, graph_failed_leases>>
  BY <1>0 DEF HandoffFinish, FinishHandoff, SetPhase
<1>2. \A w \in work : w.lease # lease
  BY <1>1 DEF WorkOf
<1>3. \A q \in Rows : phases'[q] \in {phases[q], "host_ready"}
  BY <1>1 DEF BooksExact, SlotsInv, SlotsTypeOK
<1>4. \A w \in work : w.lease.req_pool_idx \in Rows
  BY WorkIs
<1> QED
  BY <1>1, <1>2, <1>3, <1>4 DEF WorkInv, WorkWithinLease, LaneWork, UntrackedKnown

\* A failed handoff leaves no copy behind: its cleanup does not fail.
LEMMA HandoffFailsWork ==
    ASSUME CleanupMayFail = FALSE, BooksExact, WorkInv,
           NEW cleaned \in BOOLEAN, HandoffFails(cleaned)
    PROVE  WorkInv'
<1>1. /\ work' \subseteq work
      /\ phases' = [phases EXCEPT ![call.lease.req_pool_idx] = "failed"]
      /\ UNCHANGED <<active, prefill_owner, graph_failed_leases>>
  BY DEF HandoffFails, MarkFailed, SetPhase
<1>2. \A q \in Rows : phases'[q] \in {phases[q], "failed"}
  BY <1>1 DEF BooksExact, SlotsInv, SlotsTypeOK
<1> QED
  BY <1>1, <1>2, WorkIs, WorkKept

\* A failed replay's copies belong to its batch, whose leases are remembered
\* unless the streams were drained.
LEMMA GraphFailsWork ==
    ASSUME BooksExact, WorkInv, NEW batch \in SUBSET Rids, NEW closing \in SUBSET batch,
           NEW streams_drained \in BOOLEAN, GraphFails(batch, closing, streams_drained)
    PROVE  WorkInv'
<1> DEFINE leases == {requests[row[rid]] : rid \in batch}
<1>1. /\ Batchable(batch)
      /\ phases' = [r \in Rows |-> IF active[r] \in leases THEN "failed" ELSE phases[r]]
      /\ UNCHANGED <<active, prefill_owner>>
  BY DEF GraphFails
<1>2. CASE streams_drained
  <2>1. work' = {}
    BY <1>2 DEF GraphFails
  <2> QED
    BY <2>1 DEF WorkInv, WorkWithinLease, LaneWork, UntrackedKnown
<1>3. CASE ~streams_drained
  <2>1. /\ work' = work \cup BatchWork(batch, {})
                        \cup {Untracked(w) : w \in BatchWork({}, closing)}
        /\ graph_failed_leases' = graph_failed_leases \cup leases
    BY <1>3 DEF GraphFails
  <2>2. \A rid \in batch : LET l == requests[row[rid]] IN
           /\ l \in Leases /\ active[l.req_pool_idx] = l /\ l.req_pool_idx \in Rows
           /\ l \in leases
    BY <1>1, BatchIs
  <2>3. \A r \in Rows : phases'[r] \in {phases[r], "failed"}
                        /\ (active[r] \in leases => phases'[r] = "failed")
    BY <1>1
  <2>4. ASSUME NEW w \in BatchWork(batch, {})
        PROVE  w.tracked /\ w.kind = "decode" /\ w.lease \in leases
               /\ active[w.lease.req_pool_idx] = w.lease /\ w.lease.req_pool_idx \in Rows
    <3>1. PICK rid \in batch : w = Submit(requests[row[rid]], "decode")
      BY DEF BatchWork
    <3> QED
      BY <3>1, <2>2, SubmitIs DEF Kinds
  <2>5. ASSUME NEW v \in BatchWork({}, closing)
        PROVE  LET w == Untracked(v) IN
               w.kind = "writeback" /\ w.lease \in leases
               /\ active[w.lease.req_pool_idx] = w.lease /\ w.lease.req_pool_idx \in Rows
    <3>1. PICK rid \in closing : v = Submit(requests[row[rid]], "writeback")
      BY DEF BatchWork
    <3> QED
      BY <3>1, <2>2, SubmitIs, UntrackedIs DEF Kinds
  <2>6. ASSUME NEW w \in work'
        PROVE  /\ active[w.lease.req_pool_idx] = w.lease
               /\ phases'[w.lease.req_pool_idx] \notin {"drained", "logical_flushed"}
               /\ w.kind \in {"prefill", "handoff"} => prefill_owner = w.lease
               /\ ~w.tracked => w.lease \in graph_failed_leases'
    <3>1. CASE w \in work
      BY <2>1, <2>3, <3>1, WorkIs DEF WorkInv, WorkWithinLease, LaneWork, UntrackedKnown
    <3>2. CASE w \in BatchWork(batch, {})
      BY <2>3, <2>4, <3>2
    <3>3. CASE \E v \in BatchWork({}, closing) : w = Untracked(v)
      BY <2>1, <2>3, <2>5, <3>3
    <3> QED
      BY <2>1, <3>1, <3>2, <3>3
  <2> HIDE DEF leases
  <2> QED
    BY <1>1, <2>6 DEF WorkInv, WorkWithinLease, LaneWork, UntrackedKnown
<1> QED
  BY <1>2, <1>3

\* A decode step's work belongs to its batch, which is in decode.
LEMMA DecodeWork ==
    ASSUME BooksExact, WorkInv, NEW batch \in SUBSET Rids, NEW closing \in SUBSET batch,
           Decode(batch, closing)
    PROVE  WorkInv'
<1>1. /\ Batchable(batch) /\ work' = work \cup BatchWork(batch, closing)
      /\ UNCHANGED <<active, phases, prefill_owner, graph_failed_leases>>
  BY DEF Decode, slotVars
<1>2. ASSUME NEW w \in BatchWork(batch, closing)
      PROVE  /\ w.tracked /\ w.kind \notin {"prefill", "handoff"}
             /\ active[w.lease.req_pool_idx] = w.lease
             /\ phases[w.lease.req_pool_idx] = "decode"
  <2>1. w.tracked /\ w.kind \in {"decode", "writeback"}
        /\ \E rid \in batch : w.lease = requests[row[rid]]
    BY <1>1, BatchWorkIs
  <2> QED
    BY <1>1, <2>1, BatchIs
<1> QED
  BY <1>1, <1>2 DEF WorkInv, WorkWithinLease, LaneWork, UntrackedKnown

\* Nothing of the lease runs when its drain succeeds.
LEMMA ReleaseWork ==
    ASSUME BooksExact, WorkInv, NEW rid \in Rids, NEW lease \in Active, Release(rid, lease)
    PROVE  WorkInv'
<1>1. /\ Quiet(lease)
      /\ phases' = [phases EXCEPT ![lease.req_pool_idx] = "drained"]
      /\ prefill_owner' = IF prefill_owner = lease THEN NoLease ELSE prefill_owner
      /\ graph_failed_leases' = graph_failed_leases \ {lease}
      /\ UNCHANGED <<active, work>>
      /\ active[lease.req_pool_idx] = lease
  BY DEF Release, Drain, SetPhase, Require
<1>2. \A w \in work : w.lease # lease
  <2>1. CASE lease \in graph_failed_leases
    BY <1>1, <2>1 DEF Quiet
  <2>2. CASE lease \notin graph_failed_leases
    BY <1>1, <2>2 DEF Quiet, WorkOf, WorkInv, UntrackedKnown
  <2> QED
    BY <2>1, <2>2
<1>3. \A w \in work : phases'[w.lease.req_pool_idx] = phases[w.lease.req_pool_idx]
  <2>1. \A w \in work : w.lease.req_pool_idx # lease.req_pool_idx
    BY <1>1, <1>2 DEF WorkInv, WorkWithinLease
  <2> QED
    BY <1>1, <2>1, WorkIs DEF BooksExact, SlotsInv, SlotsTypeOK
<1> QED
  BY <1>1, <1>2, <1>3 DEF WorkInv, WorkWithinLease, LaneWork, UntrackedKnown

\* A drain that raised forgets that a lease was blocked only once it is not.
LEMMA ReleaseFailsWork ==
    ASSUME BooksExact, WorkInv, NEW rid \in Rids, NEW lease \in Active,
           NEW left \in {"failed", "releasing"}, ReleaseFails(rid, lease, left)
    PROVE  WorkInv'
<1>1. /\ phases' = [phases EXCEPT ![lease.req_pool_idx] = left]
      /\ lease \in graph_failed_leases => work = {}
      /\ graph_failed_leases' = graph_failed_leases \ {lease}
      /\ UNCHANGED <<active, prefill_owner, work>>
  BY DEF ReleaseFails, DrainRaises, SetPhase
<1>2. \A q \in Rows : phases'[q] \in {phases[q], left}
  BY <1>1 DEF BooksExact, SlotsInv, SlotsTypeOK
<1> QED
  BY <1>1, <1>2, WorkIs DEF WorkInv, WorkWithinLease, LaneWork, UntrackedKnown

\* Neither declaring a lease flushed nor committing it touches a lease with work.
LEMMA CommittingWork ==
    ASSUME BooksExact, WorkInv, NEW raised \in BOOLEAN, MarkFlushed \/ Commit(raised)
    PROVE  WorkInv'
<1>0. PICK t \in Leases, r \in Rows : t = Target /\ r = Target.req_pool_idx
  BY TargetIs DEF MarkFlushed, Commit
<1>1. /\ phases[r] \in {"drained", "logical_flushed"} /\ active[r] = t
      /\ t.req_pool_idx = r
      /\ UNCHANGED <<prefill_owner, work, graph_failed_leases>>
      /\ phases' \in {[phases EXCEPT ![r] = "logical_flushed"], [phases EXCEPT ![r] = "none"]}
      /\ active' \in {active, [active EXCEPT ![r] = NoLease]}
  BY <1>0, TargetIs DEF MarkFlushed, Commit, LogicalFlushed, CommitRelease, Require, SetPhase,
     runtimeVars
<1>2. \A w \in work : w.lease.req_pool_idx \in Rows /\ w.lease.req_pool_idx # r
  BY <1>1, WorkIs DEF WorkInv, WorkWithinLease
<1>3. \A q \in Rows : q # r => active'[q] = active[q] /\ phases'[q] = phases[q]
  BY <1>1 DEF BooksExact, SlotsInv, SlotsTypeOK
<1> QED
  BY <1>1, <1>2, <1>3 DEF WorkInv, WorkWithinLease, LaneWork, UntrackedKnown

\* The device's work stays within the leases, step by step.
LEMMA WorkStep ==
    ASSUME CleanupMayFail = FALSE, BooksExact, WorkInv, [Next]_vars
    PROVE  WorkInv'
<1>1. ASSUME UNCHANGED <<slotVars, graph_failed_leases>>, work' \subseteq work
      PROVE  WorkInv'
  BY <1>1, WorkKept DEF slotVars
<1>2. CASE UNCHANGED vars
  BY <1>1, <1>2 DEF vars, runtimeVars
<1>3. ASSUME NEW rid \in Rids, NEW r \in Rows, AllocRow(rid, r)
      PROVE  WorkInv'
  BY <1>1, <1>3 DEF AllocRow
<1>4. ASSUME NEW rid \in Rids, NEW cached \in BOOLEAN, NEW ran \in BOOLEAN,
             BeginPrefill(rid, cached, ran)
      PROVE  WorkInv'
  BY <1>4, BeginPrefillWork
<1>5. ASSUME NEW rid \in Rids, NEW rowed \in BOOLEAN, ReleaseUnleased(rid, rowed)
      PROVE  WorkInv'
  BY <1>1, <1>5 DEF ReleaseUnleased
<1>6. ASSUME NEW rid \in Rids, NEW lease \in Active, PrefillChunk(rid, lease)
      PROVE  WorkInv'
  <2>1. lease \in Leases /\ "prefill" \in Kinds /\ active[lease.req_pool_idx] = lease
    BY ActiveIs DEF BooksExact, Kinds
  <2> QED
    BY <1>6, <2>1, WorkAdded DEF PrefillChunk, Require, slotVars
<1>7. ASSUME NEW rid \in Rids, NEW lease \in Active, HandoffBegin(rid, lease)
      PROVE  WorkInv'
  <2>1. lease \in Leases /\ "handoff" \in Kinds /\ active[lease.req_pool_idx] = lease
        /\ lease.req_pool_idx \in Rows
    BY ActiveIs, LeaseFields DEF BooksExact, Kinds
  <2>2. phases' = [phases EXCEPT ![lease.req_pool_idx] = "copying"]
    BY <1>7 DEF HandoffBegin, BeginHandoff, SetPhase
  <2>3. phases'[lease.req_pool_idx] = "copying"
        /\ \A q \in Rows : phases'[q] \in {phases[q], "copying"}
    BY <2>1, <2>2 DEF BooksExact, SlotsInv, SlotsTypeOK
  <2> QED
    BY <1>7, <2>1, <2>3, WorkIs, WorkAdded DEF HandoffBegin, BeginHandoff
<1>8. ASSUME NEW rid \in Rids, NEW lease \in Active,
             \/ Release(rid, lease)
             \/ \E left \in {"failed", "releasing"} : ReleaseFails(rid, lease, left)
      PROVE  WorkInv'
  BY <1>8, ReleaseWork, ReleaseFailsWork
<1>9. CASE HandoffFinish
  BY <1>9, HandoffFinishWork
<1>10. CASE Park \/ FreePages \/ FreeRow \/ Defer \/ Raise \/ FreeGroupBegin \/ FreeGroupEnd
  BY <1>1, <1>10 DEF Park, FreePages, FreeRow, Defer, Raise, FreeGroupBegin, FreeGroupEnd
<1>11. ASSUME NEW cleaned \in BOOLEAN, HandoffFails(cleaned)
       PROVE  WorkInv'
  BY <1>11, HandoffFailsWork
<1>12. ASSUME NEW count \in 1..Len(ack_staging_queue),
              NEW admitted \in 1..Len(ack_staging_queue), NEW returned \in BOOLEAN,
              Collect(count, admitted, returned)
       PROVE  WorkInv'
  <2>1. /\ \A r \in Rows : phases'[r] \in {phases[r], "decode"}
        /\ UNCHANGED <<active, prefill_owner, work, graph_failed_leases>>
    BY <1>12 DEF Collect
  <2> QED
    BY <2>1, WorkIs, WorkKept
<1>13. ASSUME NEW batch \in SUBSET Rids, NEW closing \in SUBSET batch, Decode(batch, closing)
       PROVE  WorkInv'
  BY <1>13, DecodeWork
<1>14. ASSUME NEW batch \in SUBSET Rids, NEW closing \in SUBSET batch,
              NEW streams_drained \in BOOLEAN, GraphFails(batch, closing, streams_drained)
       PROVE  WorkInv'
  BY <1>14, GraphFailsWork
<1>15. ASSUME NEW raised \in BOOLEAN, MarkFlushed \/ Commit(raised)
       PROVE  WorkInv'
  BY <1>15, CommittingWork
<1>16. ASSUME NEW w \in work, Complete(w)
       PROVE  WorkInv'
  BY <1>1, <1>16 DEF Complete
<1> QED
  BY <1>2, <1>3, <1>4, <1>5, <1>6, <1>7, <1>8, <1>9, <1>10, <1>11, <1>12, <1>13, <1>14,
     <1>15, <1>16 DEF Next

\* At the start there is no work.
LEMMA WorkInit == Init => WorkInv
<1> SUFFICES ASSUME Init PROVE WorkInv
  OBVIOUS
<1>1. work = {}
  BY DEF Init
<1>2. WorkWithinLease
  BY <1>1 DEF WorkWithinLease
<1>3. LaneWork
  BY <1>1 DEF LaneWork
<1>4. UntrackedKnown
  BY <1>1 DEF UntrackedKnown
<1> QED
  BY <1>2, <1>3, <1>4 DEF WorkInv

\* The device never works on the backing of a lease that is drained or gone,
\* whichever calls failed before, provided the synchronisation that cleans up
\* after a failed handoff works.
THEOREM WorkStaysWithinLeases == CleanupMayFail = FALSE => (Spec => []WorkWithinLease)
<1> SUFFICES ASSUME CleanupMayFail = FALSE PROVE Spec => []WorkWithinLease
  OBVIOUS
<1>1. Init => WorkInv
  BY WorkInit
<1>2. BooksExact /\ WorkInv /\ [Next]_vars => WorkInv'
  <2> SUFFICES ASSUME BooksExact, WorkInv, [Next]_vars PROVE WorkInv'
    OBVIOUS
  <2> QED
    BY WorkStep
<1>3. WorkInv => WorkWithinLease
  BY DEF WorkInv
<1> QED
  BY BooksInit, BooksStep, <1>1, <1>2, <1>3, PTL DEF Spec

\* The staging lane does not pass to the next prompt while a forward of the
\* last one still writes it or a copy still reads it, under the same condition.
THEOREM LaneWorkIsOwners == CleanupMayFail = FALSE => (Spec => []LaneWork)
<1> SUFFICES ASSUME CleanupMayFail = FALSE PROVE Spec => []LaneWork
  OBVIOUS
<1>1. Init => WorkInv
  BY WorkInit
<1>2. BooksExact /\ WorkInv /\ [Next]_vars => WorkInv'
  <2> SUFFICES ASSUME BooksExact, WorkInv, [Next]_vars PROVE WorkInv'
    OBVIOUS
  <2> QED
    BY WorkStep
<1>3. WorkInv => LaneWork
  BY DEF WorkInv
<1> QED
  BY BooksInit, BooksStep, <1>1, <1>2, <1>3, PTL DEF Spec

----------------------------------------------------------------------------
(* The refinement of QSACustody.                                           *)

\* What is in use: the leases with logical pages or with device work.
DeviceUsing == {l \in Active : pages[l.rid] # "none"} \cup {w.lease : w \in work}

\* A step that leaves the active leases alone is a use, or leaves the lane.
LEMMA DeviceUse ==
    ASSUME BooksExact, BooksExact', WorkInv', UNCHANGED <<active, last_generation>>,
           prefill_owner' \in {prefill_owner, NoLease}
    PROVE  DeviceCustody!Use \/ DeviceCustody!LeaveLane
<1>1. Active' = Active /\ HeldBy' = HeldBy /\ Spent' = Spent
  BY DEF Active, HeldBy, HolderOf, Spent
<1>2. \A l \in Active : l \in {HeldBy[s] : s \in Slots} \ {NoLease}
  <2> SUFFICES ASSUME NEW l \in Active PROVE l \in {HeldBy[s] : s \in Slots} \ {NoLease}
    OBVIOUS
  <2>1. l.slot \in Slots /\ l # NoLease /\ HolderOf(l.slot) = l
    BY ActiveFacts, LeaseFields DEF BooksExact
  <2> QED
    BY <2>1 DEF HeldBy
<1>3. \A w \in work' : w.lease \in Active
  <2> SUFFICES ASSUME NEW w \in work' PROVE w.lease \in Active
    OBVIOUS
  <2>1. work' \subseteq Work /\ active'[w.lease.req_pool_idx] = w.lease
    BY DEF BooksExact, TypeOK, WorkInv, WorkWithinLease
  <2>2. w.lease \in Leases
    BY <2>1 DEF Work
  <2>3. w.lease.req_pool_idx \in Rows /\ w.lease # NoLease
    BY <2>2, LeaseFields
  <2> QED
    BY <2>1, <2>3 DEF Active
<1>4. DeviceUsing' \subseteq {HeldBy[s] : s \in Slots} \ {NoLease}
  BY <1>1, <1>2, <1>3 DEF DeviceUsing
<1> QED
  BY <1>1, <1>4
     DEF DeviceCustody!Use, DeviceCustody!LeaveLane, DeviceCustody!Held, HeldBy, Spent, DeviceUsing

\* A first extend takes a slot and the lane, and uses them from then on.
LEMMA DeviceTake ==
    ASSUME BooksExact, NEW rid \in Rids, NEW cached \in BOOLEAN, NEW ran \in BOOLEAN,
           BeginPrefill(rid, cached, ran)
    PROVE  DeviceCustody!Next
<1>0. PICK lease \in Leases : lease = prefill_owner'
  BY Acquired
<1>1. /\ row[rid] \in Rows /\ generation[row[rid]] \in Generations
      /\ lease.rid = rid
      /\ Active' = Active \cup {lease}
      /\ SlotsInv'
  BY <1>0, Acquired
<1>2. Acquire(row[rid], generation[row[rid]], rid)
  BY DEF BeginPrefill
<1>3. PICK s \in Slots, l \in Leases : Custody!Take(s, l)
  BY <1>1, <1>2, TakeStep DEF BooksExact
<1>4. l = lease
  BY <1>0, <1>3 DEF Custody!Take
<1>5. /\ pages' = pages /\ pages[rid] = "held"
      /\ work' \in {work, work \cup {Submit(lease, "prefill")}}
  <2>1. row[rid] # 0 /\ stage[rid] = "prefill" /\ active[row[rid]] = NoLease
    BY <1>1, <1>2, IdentityAssumption DEF BeginPrefill, Acquire
  <2>2. \A h \in Active : h # NoLease /\ active[h.req_pool_idx] = h
    BY ActiveIs, LeaseFields DEF BooksExact
  <2>3. ~Unpaged(rid)
    BY <2>1, <2>2 DEF Unpaged, BooksExact, LeasesOwned
  <2>4. pages[rid] = "held"
    BY <2>1, <2>3 DEF BooksExact, PagesFollow
  <2> QED
    BY <1>0, <2>4 DEF BeginPrefill, reqVars
<1>6. Submit(lease, "prefill").lease = lease
  BY SubmitIs DEF Kinds
<1>7. DeviceUsing' = DeviceUsing \cup {lease}
  BY <1>1, <1>5, <1>6 DEF DeviceUsing
<1>8. DeviceCustody!Take(s, l)
  BY <1>3, <1>4, <1>7 DEF Custody!Take, DeviceCustody!Take, DeviceUsing
<1> QED
  BY <1>8 DEF DeviceCustody!Next

\* A committed lease had neither pages nor work left.
LEMMA DeviceGiveBack ==
    ASSUME BooksExact, WorkInv, NEW raised \in BOOLEAN, Commit(raised)
    PROVE  DeviceCustody!Next
<1>0. PICK t \in Leases : t = Target
  BY TargetIs DEF Commit
<1>1. /\ CommitRelease(t) /\ t \in Active
      /\ active[t.req_pool_idx] = t /\ t.req_pool_idx \in Rows /\ t # NoLease
      /\ phases[t.req_pool_idx] = "logical_flushed"
      /\ active' = [active EXCEPT ![t.req_pool_idx] = NoLease]
      /\ UNCHANGED <<pages, work>>
  BY <1>0, TargetIs DEF Commit, CommitRelease, Require, reqVars
<1>2. Custody!GiveBack({t.slot})
  BY <1>1, GiveBackStep DEF BooksExact
<1>3. t.slot \in Slots /\ HolderOf(t.slot) = t
  BY <1>1, ActiveFacts, LeaseFields DEF BooksExact
<1>4. t \notin DeviceUsing
  <2>1. pages[t.rid] = "none"
    BY <1>1 DEF BooksExact, PagesFollow
  <2>2. \A w \in work : w.lease # t
    BY <1>1 DEF WorkInv, WorkWithinLease
  <2> QED
    BY <2>1, <2>2 DEF DeviceUsing
<1>5. Active' = Active \ {t}
  <2>1. \A r \in Rows : active[r] = t => r = t.req_pool_idx
    BY <1>1, ActiveIs DEF BooksExact
  <2> QED
    BY <1>1, <2>1 DEF Active, BooksExact, SlotsInv, SlotsTypeOK
<1>6. DeviceUsing' = DeviceUsing
  BY <1>1, <1>4, <1>5 DEF DeviceUsing
<1>7. DeviceCustody!GiveBack({t.slot})
  BY <1>2, <1>3, <1>4, <1>6 DEF Custody!GiveBack, DeviceCustody!GiveBack, DeviceUsing
<1> QED
  BY <1>3, <1>7 DEF DeviceCustody!Next

\* Initially nothing is held, spent or used.
LEMMA DeviceInit == Init => DeviceCustody!Init
<1> SUFFICES ASSUME Init PROVE DeviceCustody!Init
  OBVIOUS
<1>1. Active = {} /\ SlotsInit /\ work = {}
  BY DEF Init, SlotsInit, Active
<1>2. \A s \in Slots : HolderOf(s) = NoLease
  BY <1>1 DEF HolderOf
<1>3. \A l \in Leases : ~(l.generation <= last_generation[l.req_pool_idx])
  <2> SUFFICES ASSUME NEW l \in Leases
               PROVE  ~(l.generation <= last_generation[l.req_pool_idx])
    OBVIOUS
  <2>1. l.req_pool_idx \in Rows /\ l.generation \in Nat /\ l.generation # 0
    BY LeaseFields, IdentityAssumption
  <2>2. last_generation[l.req_pool_idx] = 0
    BY <1>1, <2>1 DEF SlotsInit
  <2> QED
    BY <2>1, <2>2
<1> QED
  BY <1>1, <1>2, <1>3 DEF DeviceCustody!Init, SlotsInit

\* Every step of the runtime is a step of the custody, or none.
LEMMA DeviceStep ==
    ASSUME BooksExact, BooksExact', WorkInv, WorkInv', [Next]_vars
    PROVE  [DeviceCustody!Next]_(DeviceCustody!vars)
<1>1. ASSUME UNCHANGED <<active, last_generation>>,
             prefill_owner' \in {prefill_owner, NoLease}
      PROVE  DeviceCustody!Next
  BY <1>1, DeviceUse DEF DeviceCustody!Next
<1>2. CASE UNCHANGED vars
  BY <1>1, <1>2 DEF vars, slotVars
<1>3. ASSUME NEW rid \in Rids, NEW cached \in BOOLEAN, NEW ran \in BOOLEAN,
             BeginPrefill(rid, cached, ran)
      PROVE  DeviceCustody!Next
  BY <1>3, DeviceTake
<1>4. ASSUME NEW raised \in BOOLEAN, Commit(raised)
      PROVE  DeviceCustody!Next
  BY <1>4, DeviceGiveBack
<1>5. ASSUME NEW rid \in Rids, NEW lease \in Active,
             \/ PrefillChunk(rid, lease)
             \/ HandoffBegin(rid, lease)
             \/ Release(rid, lease)
             \/ \E left \in {"failed", "releasing"} : ReleaseFails(rid, lease, left)
      PROVE  DeviceCustody!Next
  BY <1>1, <1>5 DEF PrefillChunk, HandoffBegin, BeginHandoff, Release, Drain, ReleaseFails,
     DrainRaises, slotVars
<1>6. ASSUME NEW rid \in Rids,
             \/ \E r \in Rows : AllocRow(rid, r)
             \/ \E rowed \in BOOLEAN : ReleaseUnleased(rid, rowed)
      PROVE  DeviceCustody!Next
  BY <1>1, <1>6 DEF AllocRow, ReleaseUnleased, slotVars
<1>7. CASE HandoffFinish \/ MarkFlushed \/ \E cleaned \in BOOLEAN : HandoffFails(cleaned)
  BY <1>1, <1>7 DEF HandoffFinish, FinishHandoff, MarkFlushed, LogicalFlushed, HandoffFails,
     MarkFailed
<1>8. CASE Park \/ FreePages \/ FreeRow \/ Defer \/ Raise \/ FreeGroupBegin \/ FreeGroupEnd
           \/ \E w \in work : Complete(w)
  BY <1>1, <1>8 DEF Park, FreePages, FreeRow, Defer, Raise, FreeGroupBegin, FreeGroupEnd, Complete,
     slotVars
<1>9. ASSUME NEW count \in 1..Len(ack_staging_queue),
             NEW admitted \in 1..Len(ack_staging_queue), NEW returned \in BOOLEAN,
             Collect(count, admitted, returned)
      PROVE  DeviceCustody!Next
  BY <1>1, <1>9 DEF Collect
<1>10. ASSUME NEW batch \in SUBSET Rids, NEW closing \in SUBSET batch,
              \/ Decode(batch, closing)
              \/ \E streams_drained \in BOOLEAN : GraphFails(batch, closing, streams_drained)
       PROVE  DeviceCustody!Next
  BY <1>1, <1>10 DEF Decode, GraphFails, slotVars
<1> QED
  BY <1>2, <1>3, <1>4, <1>5, <1>6, <1>7, <1>8, <1>9, <1>10 DEF Next

\* The runtime implements the custody of the backing, "in use" read as the
\* logical pages and the device work there really are: no slot changes hands
\* while anything is left on it, under the same condition as above.
THEOREM RuntimeImplementsCustody ==
    CleanupMayFail = FALSE => (Spec => ImplementsDeviceCustody)
<1> SUFFICES ASSUME CleanupMayFail = FALSE PROVE Spec => ImplementsDeviceCustody
  OBVIOUS
<1>1. Init => WorkInv
  BY WorkInit
<1>2. BooksExact /\ WorkInv /\ [Next]_vars => WorkInv'
  <2> SUFFICES ASSUME BooksExact, WorkInv, [Next]_vars PROVE WorkInv'
    OBVIOUS
  <2> QED
    BY WorkStep
<1>3. BooksExact /\ BooksExact' /\ WorkInv /\ WorkInv' /\ [Next]_vars
         => [DeviceCustody!Next]_(DeviceCustody!vars)
  BY DeviceStep
<1> QED
  BY BooksInit, BooksStep, DeviceInit, <1>1, <1>2, <1>3, PTL
     DEF Spec, ImplementsDeviceCustody, DeviceCustody!Spec

=============================================================================
