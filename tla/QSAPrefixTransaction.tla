------------------------ MODULE QSAPrefixTransaction ------------------------
(***************************************************************************)
(* The allocation of a prefill chunk as a transaction: the hook around     *)
(* alloc_for_extend (patches/hisparse/lifecycle.py), the steps that        *)
(* hisparse/prefix_cache.py takes in it, restore_prefix of                 *)
(* hisparse/runtime.py, and the rollback when any of them raises.          *)
(*                                                                         *)
(* "call" is where the scheduler's thread stands, and for which request.   *)
(* A rollback that raises keeps its record and may be called again; until  *)
(* it succeeds, other requests go on. Rows and leases are those of         *)
(* QSASlots. Tokens are counted; a page has PageTokens of them.            *)
(***************************************************************************)
EXTENDS QSASlots, FiniteSets, Sequences, SequencesExt

CONSTANTS
    Pages,          \* the logical token pages
    PageTokens,
    Hit,            \* tokens of the checkpoint that the prompts start with
    Ends,           \* where the chunks of a prompt may end
    MaxFaults       \* how many steps may raise

ASSUME PagesAssumption ==
    /\ Pages \subseteq Nat /\ IsFiniteSet(Pages)
    /\ {PageTokens, Hit} \cup Ends \subseteq Nat \ {0}
    /\ Hit % PageTokens = 0 /\ MaxFaults \in Nat

VARIABLES
    generation,     \* ReqToTokenPool.req_generation, by row
    stage,          \* request -> waiting, prefill, done, or lost
    row,            \* request -> req.kv.req_pool_idx, 0 while it holds none
    allocated,      \* request -> req.kv.kv_allocated_len
    table,          \* request -> the pages of its row, in order
    free,           \* page -> how often the allocator's free list holds it
    requests,       \* row -> the lease of its _RequestCache, or NoLease
    present,        \* whether the host cache has the checkpoint
    readers,        \* the open readers of checkpoints
    matches,        \* the requests with a reader
    restoring,      \* request -> its record, or NoRecord
    restores,       \* the leases that the device is still restoring into
    call, faults

reqVars == <<stage, row, allocated, table>>
hostVars == <<present, readers, matches>>
vars == <<slotVars, generation, reqVars, free, requests, hostVars, restoring,
          restores, call, faults>>

NoRecord == [reader |-> FALSE]
Idle == [op |-> "idle"]
At(op, q) == [op |-> op, q |-> q]

Init ==
    /\ SlotsInit
    /\ generation = [r \in Rows |-> 0]
    /\ stage = [q \in Rids |-> "waiting"]
    /\ row = [q \in Rids |-> 0]
    /\ allocated = [q \in Rids |-> 0]
    /\ table = [q \in Rids |-> <<>>]
    /\ free = [p \in Pages |-> 1]
    /\ requests = [r \in Rows |-> NoLease]
    /\ present = TRUE /\ readers = 0 /\ matches = {}
    /\ restoring = [q \in Rids |-> NoRecord]
    /\ restores = {}
    /\ call = Idle
    /\ faults = MaxFaults

Fault == faults > 0 /\ faults' = faults - 1

FreePages == {p \in Pages : free[p] > 0}
PagesFor(tokens) == (tokens + PageTokens - 1) \div PageTokens

\* The allocator (external) gives free pages, in some order.
Taken(n) == CHOOSE pages \in [1..n -> FreePages] : IsInjective(pages)
TakePages(pages) == free' = [p \in Pages |-> IF Contains(pages, p) THEN free[p] - 1 ELSE free[p]]
FreeAll(pages) ==
    free' = [p \in Pages |-> free[p] + Cardinality({i \in DOMAIN pages : pages[i] = p})]

Close(q) ==
    /\ matches' = matches \ {q}
    /\ readers' = IF q \in matches THEN readers - 1 ELSE readers

----------------------------------------------------------------------------
(* Matching, abort and flush.                                              *)

\* match_prefix refuses a request whose restore is undrained.
Match(q, hit) ==
    /\ call = Idle
    /\ stage[q] = "waiting" /\ restoring[q] = NoRecord
    /\ hit => present
    /\ matches' = IF hit THEN matches \cup {q} ELSE matches \ {q}
    /\ readers' = readers - Cardinality({q} \cap matches) + (IF hit THEN 1 ELSE 0)
    /\ UNCHANGED <<slotVars, generation, reqVars, free, requests, present, restoring,
                   restores, call, faults>>

\* Mutant: a retained record does not protect the reader.
AbortUnguarded(q) ==
    /\ call = Idle
    /\ stage[q] = "waiting"
    /\ stage' = [stage EXCEPT ![q] = "done"]
    /\ Close(q)
    /\ UNCHANGED <<slotVars, generation, row, allocated, table, free, requests, present,
                   restoring, restores, call, faults>>

\* finish(ABORT) of a queued request; the reader of a retained record stays.
Abort(q) ==
    /\ call = Idle
    /\ stage[q] = "waiting"
    /\ stage' = [stage EXCEPT ![q] = "done"]
    /\ IF restoring[q] = NoRecord THEN Close(q) ELSE UNCHANGED <<matches, readers>>
    /\ UNCHANGED <<slotVars, generation, row, allocated, table, free, requests, present,
                   restoring, restores, call, faults>>

\* reset refuses while any restore is pending, and closes every match.
Flush ==
    /\ call = Idle
    /\ \A q \in Rids : restoring[q] = NoRecord
    /\ present' = FALSE
    /\ matches' = {}
    /\ readers' = readers - Cardinality(matches)
    /\ UNCHANGED <<slotVars, generation, reqVars, free, requests, restoring, restores,
                   call, faults>>

----------------------------------------------------------------------------
(* The transaction.                                                        *)

\* What the scheduler admits: one prefill at a time, with a row, a slot and
\* the pages it needs.
Admitted(q, length) ==
    /\ IF stage[q] = "waiting"
         THEN /\ prefill_owner = NoLease
              /\ \E s \in Slots : free_slots[s] > 0
              /\ \E r \in Rows : \A p \in Rids : row[p] # r
              /\ q \in matches => length > Hit
         ELSE stage[q] = "prefill" /\ requests[row[q]] # NoLease
    /\ PagesFor(length) - Len(table[q]) <= Cardinality(FreePages)

\* prepare_prefix_for_extend. It raises for a request with a record.
Prepare(q, length) ==
    /\ call = Idle
    /\ restoring[q] = NoRecord
    /\ length > allocated[q]
    /\ Admitted(q, length)
    /\ restoring' = [restoring EXCEPT ![q] =
          [reader |-> q \in matches, fresh |-> allocated[q] = 0, previous |-> allocated[q],
           length |-> length, prefix |-> <<>>, suffix |-> <<>>, read |-> FALSE,
           stream |-> FALSE, noted |-> FALSE, lease |-> NoLease, drained |-> FALSE]]
    /\ call' = At("extend", q)
    /\ UNCHANGED <<slotVars, generation, reqVars, free, requests, hostVars, restores, faults>>

Extending(q) == call = At("extend", q)

\* prefix_device_indices.
AllocPrefix(q) ==
    /\ Extending(q)
    /\ restoring[q].reader /\ restoring[q].prefix = <<>>
    /\ LET pages == Taken(Hit \div PageTokens)
       IN  /\ restoring' = [restoring EXCEPT ![q].prefix = pages]
           /\ TakePages(pages)
    /\ UNCHANGED <<slotVars, generation, reqVars, requests, hostVars, restores, call, faults>>

\* alloc_req_slots (external). Generations bounds the pool's counter here.
AllocRow(q, r) ==
    /\ Extending(q)
    /\ row[q] = 0 /\ \A p \in Rids : row[p] # r
    /\ generation[r] + 1 \in Generations
    /\ restoring[q].reader => restoring[q].prefix # <<>>
    /\ row' = [row EXCEPT ![q] = r]
    /\ generation' = [generation EXCEPT ![r] = @ + 1]
    /\ UNCHANGED <<slotVars, stage, allocated, table, free, requests, hostVars, restoring,
                   restores, call, faults>>

\* The suffix pages are allocated and the row written; what raises before
\* kv_allocated_len moves gives them back itself.
WriteRow(q) ==
    /\ Extending(q)
    /\ row[q] # 0 /\ allocated[q] = restoring[q].previous
    /\ LET own == table[q] \o restoring[q].prefix
           suffix == Taken(PagesFor(restoring[q].length) - Len(own))
       IN  /\ table' = [table EXCEPT ![q] = own \o suffix]
           /\ TakePages(suffix)
    /\ allocated' = [allocated EXCEPT ![q] = restoring[q].length]
    /\ UNCHANGED <<slotVars, generation, stage, row, requests, hostVars, restoring,
                   restores, call, faults>>

Written(q) == Extending(q) /\ allocated[q] # restoring[q].previous

\* maybe_hand_to_session without a hit: the record goes, the forward follows.
HandMiss(q) ==
    /\ Written(q)
    /\ ~restoring[q].reader
    /\ restoring' = [restoring EXCEPT ![q] = NoRecord]
    /\ stage' = [stage EXCEPT ![q] = "prefill"]
    /\ call' = At("forward", q)
    /\ UNCHANGED <<slotVars, generation, row, allocated, table, free, requests, hostVars,
                   restores, faults>>

\* maybe_hand_to_session with a hit: restore_prefix takes a lease and submits
\* its copies. The constructor of the request's cache may raise in between.
Restore(q, cached) ==
    /\ Written(q)
    /\ restoring[q].reader /\ ~restoring[q].stream
    /\ requests[row[q]] = NoLease
    /\ Acquire(row[q], generation[row[q]], q)
    /\ restoring' = [restoring EXCEPT ![q].stream = TRUE]
    /\ IF cached
         THEN /\ requests' = [requests EXCEPT ![row[q]] = prefill_owner']
              /\ restores' = restores \cup {prefill_owner'}
              /\ UNCHANGED <<call, faults>>
         ELSE /\ call' = At("rollback", q)
              /\ Fault
              /\ UNCHANGED <<requests, restores>>
    /\ UNCHANGED <<generation, reqVars, free, hostVars>>

\* The copies are submitted, the reader closed and the record dropped.
RestoreDone(q) ==
    /\ Extending(q)
    /\ restoring[q].stream
    /\ restoring' = [restoring EXCEPT ![q] = NoRecord]
    /\ stage' = [stage EXCEPT ![q] = "prefill"]
    /\ Close(q)
    /\ call' = At("forward", q)
    /\ UNCHANGED <<slotVars, generation, row, allocated, table, free, requests, present,
                   restores, faults>>

\* The row still has an active lease: restore_prefix or acquire raises.
Refused(q) == restoring[q].reader /\ active[row[q]] # NoLease /\ ~restoring[q].stream

\* Any step raises, and the hook rolls the request back.
Raise(q) ==
    /\ Extending(q)
    /\ call' = At("rollback", q)
    /\ IF Written(q) /\ Refused(q) THEN UNCHANGED faults ELSE Fault
    /\ UNCHANGED <<slotVars, generation, reqVars, free, requests, hostVars, restoring, restores>>

----------------------------------------------------------------------------
(* rollback_prefix_for_extend.                                             *)

\* A record kept by a rollback that raised: the next allocation is refused,
\* and rolls back again.
Retry(q) ==
    /\ call = Idle
    /\ restoring[q] # NoRecord
    /\ call' = At("rollback", q)
    /\ UNCHANGED <<slotVars, generation, reqVars, free, requests, hostVars, restoring,
                   restores, faults>>

\* The pages behind the prefix, or behind what an earlier chunk had.
Suffix(q) ==
    LET start == IF restoring[q].prefix # <<>> THEN Hit ELSE restoring[q].previous
    IN  IF row[q] # 0 /\ allocated[q] > restoring[q].previous
          THEN SubSeq(table[q], start \div PageTokens + 1, Len(table[q])) ELSE <<>>

\* Mutant: the restore stream is not synchronised.
SyncSkipped(q) ==
    /\ call = At("rollback", q)
    /\ restoring' = [restoring EXCEPT ![q].stream = FALSE, ![q].read = TRUE,
          ![q].suffix = IF restoring[q].read THEN restoring[q].suffix ELSE Suffix(q)]
    /\ call' = At("undo", q)
    /\ UNCHANGED <<slotVars, generation, reqVars, free, requests, hostVars, restores, faults>>

\* The restore stream is drained; the suffix is read from the row, once.
Sync(q) ==
    /\ call = At("rollback", q)
    /\ restoring[q].stream => \A lease \in restores : lease.rid # q
    /\ restoring' = [restoring EXCEPT ![q].stream = FALSE, ![q].read = TRUE,
          ![q].suffix = IF restoring[q].read THEN restoring[q].suffix ELSE Suffix(q)]
    /\ call' = At("undo", q)
    /\ UNCHANGED <<slotVars, generation, reqVars, free, requests, hostVars, restores, faults>>

Undoing(q, fresh) == call = At("undo", q) /\ restoring[q].fresh = fresh

\* Mutant: the partial page of the earlier chunk goes too.
NewPagesAll(q) == restoring[q].suffix

\* The pages a later chunk added: not the partial page it began in.
NewPages(q) ==
    LET suffix == restoring[q].suffix
    IN  IF restoring[q].previous % PageTokens = 0 \/ suffix = <<>> THEN suffix ELSE Tail(suffix)

UndoChunk(q) ==
    /\ Undoing(q, FALSE)
    /\ FreeAll(NewPages(q))
    /\ allocated' = [allocated EXCEPT ![q] = restoring[q].previous]
    /\ table' = [table EXCEPT ![q] = SubSeq(@, 1, PagesFor(restoring[q].previous))]
    /\ restoring' = [restoring EXCEPT ![q] = NoRecord]
    /\ Close(q)
    /\ call' = Idle
    /\ UNCHANGED <<slotVars, generation, stage, row, requests, present, restores, faults>>

\* Mutant: the lease is looked up again by every call.
NotedAfresh(q) ==
    [restoring[q] EXCEPT !.lease = IF row[q] = 0 THEN NoLease ELSE active[row[q]]]

\* The lease of the row, as the first call found it.
Noted(q) ==
    IF restoring[q].noted THEN restoring[q]
    ELSE [restoring[q] EXCEPT !.noted = TRUE,
                              !.lease = IF row[q] = 0 THEN NoLease ELSE active[row[q]]]

\* Mutant: only a call that released remembers it.
DrainedBefore(q) == restoring[q].drained

\* An earlier call drained the lease, and perhaps raised behind that.
AlreadyDrained(q) ==
    \/ restoring[q].drained
    \/ Noted(q).lease # NoLease /\ Require(Noted(q).lease, {"drained", "logical_flushed"})

\* The runtime's release knows the lease as this request's.
Known(q, lease) == requests[lease.req_pool_idx] = lease /\ lease.rid = q

\* The lease is drained, by this call or an earlier one; a request without a
\* lease has nothing to drain. The terminal event is the producer stream's and
\* says nothing of the restore stream.
UndoDrain(q) ==
    /\ Undoing(q, TRUE)
    /\ LET lease == Noted(q).lease
       IN  IF lease = NoLease \/ AlreadyDrained(q)
             THEN UNCHANGED slotVars
             ELSE Known(q, lease) /\ Drain(lease)
    /\ restoring' = [restoring EXCEPT ![q] = [Noted(q) EXCEPT !.drained = TRUE]]
    /\ call' = At("drained", q)
    /\ UNCHANGED <<generation, reqVars, free, requests, hostVars, restores, faults>>

\* The pages are freed, those of the record.
UndoFree(q) ==
    /\ call = At("drained", q)
    /\ FreeAll(restoring[q].prefix \o restoring[q].suffix)
    /\ restoring' = [restoring EXCEPT ![q].prefix = <<>>, ![q].suffix = <<>>]
    /\ table' = [table EXCEPT ![q] = <<>>]
    /\ call' = At("unpaged", q)
    /\ UNCHANGED <<slotVars, generation, stage, row, allocated, requests, hostVars,
                   restores, faults>>

\* Then the state slot and the row, if the request still has one. A rollback
\* that raised before this finds no pages in its record when it is repeated.
UndoRow(q) ==
    /\ call = At("unpaged", q)
    /\ row' = [row EXCEPT ![q] = 0]
    /\ allocated' = [allocated EXCEPT ![q] = 0]
    /\ call' = At("freed", q)
    /\ UNCHANGED <<slotVars, generation, stage, table, free, requests, hostVars,
                   restoring, restores, faults>>

\* after_release, outside a free group: the lease is declared flushed and
\* committed. Another rollback may have committed it before.
Committed(lease) ==
    IF lease # NoLease /\ Require(lease, {"drained", "logical_flushed"})
      THEN /\ active' = [active EXCEPT ![lease.req_pool_idx] = NoLease]
           /\ phases' = [phases EXCEPT ![lease.req_pool_idx] = "none"]
           /\ free_slots' = [free_slots EXCEPT ![lease.slot] = @ + 1]
           /\ requests' = [requests EXCEPT ![lease.req_pool_idx] = NoLease]
           /\ UNCHANGED <<last_generation, prefill_owner>>
      ELSE UNCHANGED <<slotVars, requests>>

\* What the ledger raises behind the commit does not keep the record.
UndoEnd(q) ==
    /\ call = At("freed", q)
    /\ Committed(restoring[q].lease)
    /\ restoring' = [restoring EXCEPT ![q] = NoRecord]
    /\ Close(q)
    /\ call' = Idle
    /\ UNCHANGED <<generation, reqVars, free, present, restores, faults>>

\* The rollback raises where it stands, and its record is kept: the drain of
\* a stream, the free of the pages, of the state slot or of the row, the
\* commit of a lease still active.
UndoRaises(q) ==
    /\ \/ call \in {At(op, q) : op \in {"rollback", "undo", "drained", "unpaged"}}
       \/ /\ call = At("freed", q)
          /\ restoring[q].lease # NoLease
          /\ active[restoring[q].lease.req_pool_idx] = restoring[q].lease
    /\ call' = Idle
    /\ restoring' = IF Undoing(q, TRUE) THEN [restoring EXCEPT ![q] = Noted(q)] ELSE restoring
    /\ Fault
    /\ UNCHANGED <<slotVars, generation, reqVars, free, requests, hostVars, restores>>

\* The runtime's release raises: in the ledger behind the drain; in the drain,
\* which leaves the lease failed, or, interrupted, releasing; or because it
\* does not know the lease or its phase, every time again.
DrainFails(q) ==
    /\ Undoing(q, TRUE)
    /\ ~AlreadyDrained(q)
    /\ LET lease == Noted(q).lease
       IN  /\ lease # NoLease
           /\ IF Known(q, lease) /\ Require(lease, Drainable)
                THEN /\ \/ Drain(lease)
                        \/ \E left \in {"failed", "releasing"} : DrainRaises(lease, left)
                     /\ Fault
                ELSE UNCHANGED <<slotVars, faults>>
    /\ restoring' = [restoring EXCEPT ![q] = Noted(q)]
    /\ call' = Idle
    /\ UNCHANGED <<generation, reqVars, free, requests, hostVars, restores>>

----------------------------------------------------------------------------
(* The forward and the release around the transaction.                     *)

\* begin_batch takes a lease on a cold start, and raises if the row of the
\* request still has another's; a capture may publish the checkpoint.
Forward(q) ==
    /\ call = At("forward", q)
    /\ LET r == row[q]
       IN  IF requests[r] # NoLease
             THEN /\ requests[r].rid = q
                  /\ UNCHANGED <<slotVars, requests>>
             ELSE /\ Acquire(r, generation[r], q)
                  /\ requests' = [requests EXCEPT ![r] = prefill_owner']
    /\ present' \in {present, TRUE}
    /\ call' = Idle
    /\ UNCHANGED <<generation, reqVars, free, readers, matches, restoring, restores, faults>>

ForwardRaises(q) ==
    /\ call = At("forward", q)
    /\ active[row[q]] # NoLease /\ active[row[q]].rid # q
    /\ stage' = [stage EXCEPT ![q] = "lost"]
    /\ call' = Idle
    /\ UNCHANGED <<slotVars, generation, row, allocated, table, free, requests, hostVars,
                   restoring, restores, faults>>

\* release_kv_cache, whose claim_kv_row refuses a request with a record. Its
\* own failures are those of QSALifecycle.
Release(q) ==
    /\ call = Idle
    /\ stage[q] = "prefill" /\ restoring[q] = NoRecord
    /\ LET lease == requests[row[q]]
       IN  /\ lease # NoLease /\ lease \notin restores
           /\ Require(lease, Drainable)
           /\ active' = [active EXCEPT ![row[q]] = NoLease]
           /\ phases' = [phases EXCEPT ![row[q]] = "none"]
           /\ free_slots' = [free_slots EXCEPT ![lease.slot] = @ + 1]
           /\ prefill_owner' = IF prefill_owner = lease THEN NoLease ELSE prefill_owner
    /\ requests' = [requests EXCEPT ![row[q]] = NoLease]
    /\ FreeAll(table[q])
    /\ stage' = [stage EXCEPT ![q] = "done"]
    /\ row' = [row EXCEPT ![q] = 0]
    /\ table' = [table EXCEPT ![q] = <<>>]
    /\ allocated' = [allocated EXCEPT ![q] = 0]
    /\ Close(q)
    /\ UNCHANGED <<last_generation, generation, present, restoring, restores, call, faults>>

\* The device (external) finishes a restore.
Restored(lease) ==
    /\ restores' = restores \ {lease}
    /\ UNCHANGED <<slotVars, generation, reqVars, free, requests, hostVars, restoring,
                   call, faults>>

----------------------------------------------------------------------------

Continue(q) ==
    \/ AllocPrefix(q)
    \/ \E r \in Rows : AllocRow(q, r)
    \/ WriteRow(q)
    \/ HandMiss(q)
    \/ Restore(q, TRUE)
    \/ RestoreDone(q)
    \/ Forward(q)
    \/ ForwardRaises(q)
    \/ Sync(q)
    \/ UndoChunk(q)
    \/ UndoDrain(q)
    \/ UndoFree(q)
    \/ UndoRow(q)
    \/ UndoEnd(q)

Next ==
    \/ \E q \in Rids :
          \/ \E hit \in BOOLEAN : Match(q, hit)
          \/ Abort(q)
          \/ \E length \in Ends : Prepare(q, length)
          \/ Continue(q)
          \/ Restore(q, FALSE)
          \/ Raise(q)
          \/ UndoRaises(q)
          \/ DrainFails(q)
          \/ Retry(q)
          \/ Release(q)
    \/ Flush
    \/ \E lease \in restores : Restored(lease)

\* The thread returns from its calls, the device finishes, and whoever finds
\* a retained record calls the rollback again.
Fairness ==
    /\ \A q \in Rids : WF_vars(Continue(q) \/ Raise(q) \/ UndoRaises(q) \/ DrainFails(q)) /\ SF_vars(Retry(q))
    /\ WF_vars(\E lease \in restores : Restored(lease))

Spec == Init /\ [][Next]_vars /\ Fairness

----------------------------------------------------------------------------
(* What the transaction keeps true.                                        *)

PagesHeld(q) ==
    ToSet(table[q]) \cup (IF restoring[q] = NoRecord THEN {}
                          ELSE ToSet(restoring[q].prefix) \cup ToSet(restoring[q].suffix))

\* Every page is once in the free list or held once, by one request: no
\* failure and no repeated rollback loses a page or frees it twice, the
\* partial page of an earlier chunk included.
PagesExact ==
    \A p \in Pages : free[p] + Cardinality({q \in Rids : p \in PagesHeld(q)}) = 1

\* What a restore writes stays the request's until the device is done: its
\* lease, its row and pages, and under a record the reader of its source.
RestorePinned ==
    \A lease \in restores :
       LET q == lease.rid IN
       /\ Require(lease, {"prefill", "failed", "releasing"})
       /\ row[q] = lease.req_pool_idx
       /\ table[q] # <<>>
       /\ restoring[q].reader => q \in matches

\* A record whose request had a match still has its reader, no reader is open
\* without a match, and every active lease is in a record or in the cache of a
\* request in prefill, where a rollback or a release looks for it; those that no
\* rollback can return (Unreleasable) stay in their records.
NothingLeaks ==
    /\ readers = Cardinality(matches)
    /\ \A q \in Rids : restoring[q].reader => q \in matches \/ call = At("extend", q)
    /\ \A r \in Rows : active[r] # NoLease =>
          \/ restoring[active[r].rid] # NoRecord
          \/ stage[active[r].rid] = "prefill" /\ requests[r] = active[r]

\* A lease that no rollback can return: its cache was never made, or its drain
\* was interrupted.
Unreleasable(q) ==
    \E r \in Rows : /\ active[r] # NoLease /\ active[r].rid = q
                    /\ requests[r] = NoLease \/ phases[r] = "releasing"

\* A rollback that is repeated succeeds in the end, wherever it raised before.
RollbackEnds ==
    \A q \in Rids : (restoring[q] # NoRecord) ~> (restoring[q] = NoRecord \/ Unreleasable(q))

=============================================================================
