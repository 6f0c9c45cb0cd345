---------------------------- MODULE QSALifecycle ----------------------------
(***************************************************************************)
(* The life of requests on one tensor-parallel rank of the offload runtime *)
(* (hisparse/runtime.py, the rank's part of hisparse/coordinator.py, and   *)
(* the release path of patches/hisparse/lifecycle.py): a request gets a    *)
(* pool row, prefills chunk by chunk in the staging lane, hands its K/V to *)
(* the host, parks, decodes in a batch, and gives back first its logical   *)
(* pages and its row and only then its lease.                              *)
(*                                                                         *)
(* One thread makes all the calls. "call" is where it stands inside a call *)
(* that has several effects, so that a failure between two of them can be  *)
(* told apart; the device runs beside it and finishes work in any order.   *)
(* A call that raises before it changes anything is no step. A call that   *)
(* fails later costs one of MaxFaults, and its caller may go on calling.   *)
(***************************************************************************)
EXTENDS QSASlots, Sequences

CONSTANTS
    MaxSteps,           \* how many more forwards the context capacity leaves a
                        \* request after its first
    MaxFaults,          \* how many calls may fail half-way
    CleanupMayFail      \* whether the synchronisation that cleans up after a
                        \* failed handoff may itself fail

ASSUME BoundsAssumption == MaxSteps \in Nat /\ MaxFaults \in Nat /\ CleanupMayFail \in BOOLEAN

VARIABLES
    generation,         \* ReqToTokenPool.req_generation, by row
    row,                \* request -> req.kv.req_pool_idx, 0 while it holds none
    stage,              \* request -> where the scheduler keeps it
    steps,              \* request -> the forwards its context still has room for
    pages,              \* request -> its logical token pages
    requests,           \* row -> the lease of its _RequestCache, or NoLease
    ack_staging_queue,  \* the parked leases, oldest first
    pending_releases,   \* the drained leases that wait for the logical flush
    free_group,         \* whether the allocator defers frees to a group
    graph_failed_leases,
    work,               \* what the device has still to do
    call,               \* where the calling thread stands
    faults              \* the faults still to come

reqVars == <<row, stage, steps, pages>>
queueVars == <<ack_staging_queue, pending_releases>>

runtimeVars == <<generation, reqVars, requests, queueVars, free_group,
                 graph_failed_leases, work, call, faults>>

vars == <<slotVars, runtimeVars>>

Stages == {"waiting", "prefill", "parked", "running", "lost", "finished"}

\* Prefill and handoff work touches the staging lane, every kind the backing
\* of the lease. What is untracked has no event that a release waits for.
Kinds == {"prefill", "handoff", "decode", "writeback"}
Work == [lease : Leases, kind : Kinds, tracked : BOOLEAN]

Idle == [op |-> "idle", lease |-> NoLease]
At(op, lease) == [op |-> op, lease |-> lease]

TypeOK ==
    /\ SlotsTypeOK
    /\ generation \in [Rows -> Generations \cup {0}]
    /\ row \in [Rids -> Rows \cup {0}]
    /\ stage \in [Rids -> Stages]
    /\ steps \in [Rids -> 0..MaxSteps]
    /\ pages \in [Rids -> {"none", "held", "grouped"}]
    /\ requests \in [Rows -> Leases \cup {NoLease}]
    /\ ack_staging_queue \in Seq(Leases)
    /\ pending_releases \in Seq(Leases)
    /\ free_group \in BOOLEAN
    /\ graph_failed_leases \subseteq Leases
    /\ work \subseteq Work
    /\ call \in [op : {"handoff", "handed", "drained", "unpaged", "freed"}, lease : Leases]
               \cup [op : {"idle", "flushing"}, lease : {NoLease}]
    /\ faults \in 0..MaxFaults

Init ==
    /\ SlotsInit
    /\ generation = [r \in Rows |-> 0]
    /\ row = [rid \in Rids |-> 0]
    /\ stage = [rid \in Rids |-> "waiting"]
    /\ steps = [rid \in Rids |-> MaxSteps]
    /\ pages = [rid \in Rids |-> "none"]
    /\ requests = [r \in Rows |-> NoLease]
    /\ ack_staging_queue = <<>>
    /\ pending_releases = <<>>
    /\ free_group = FALSE
    /\ graph_failed_leases = {}
    /\ work = {}
    /\ call = Idle
    /\ faults = MaxFaults

Fault == faults > 0 /\ faults' = faults - 1

WorkOf(lease) == {w \in work : w.lease = lease}
CopyStream == {w \in work : w.kind \in {"handoff", "writeback"}}
Submit(lease, kind) == [lease |-> lease, kind |-> kind, tracked |-> TRUE]
Untracked(w) == [lease |-> w.lease, kind |-> w.kind, tracked |-> FALSE]

\* _request: the row's cache is the request's, in the row's present generation.
Owns(rid, lease) ==
    /\ row[rid] # 0
    /\ lease = requests[row[rid]]
    /\ lease # NoLease
    /\ Require(lease, Phases)
    /\ lease.rid = rid
    /\ lease.generation = generation[lease.req_pool_idx]

----------------------------------------------------------------------------
(* Admission and prefill.                                                  *)

\* Mutant: a finished request that is still queued gets a row again.
AllocRowAgain(rid, r) ==
    /\ call = Idle /\ ~free_group
    /\ stage[rid] \in {"waiting", "finished"}
    /\ \A q \in Rids : row[q] # r
    /\ prefill_owner = NoLease
    /\ \E s \in Slots : free_slots[s] > 0
    /\ generation[r] + 1 \in Generations
    /\ row' = [row EXCEPT ![rid] = r]
    /\ generation' = [generation EXCEPT ![r] = @ + 1]
    /\ pages' = [pages EXCEPT ![rid] = "held"]
    /\ stage' = [stage EXCEPT ![rid] = "prefill"]
    /\ UNCHANGED <<slotVars, steps, requests, queueVars, free_group,
                   graph_failed_leases, work, call, faults>>

\* The scheduler allocates a row for one request, if the lane is free and a
\* lease is left (get_num_allocatable_reqs); the pool moves the generation,
\* which Generations bounds here.
AllocRow(rid, r) ==
    /\ call = Idle /\ ~free_group
    /\ stage[rid] = "waiting"
    /\ \A q \in Rids : row[q] # r
    /\ prefill_owner = NoLease
    /\ \E s \in Slots : free_slots[s] > 0
    /\ generation[r] + 1 \in Generations
    /\ row' = [row EXCEPT ![rid] = r]
    /\ generation' = [generation EXCEPT ![r] = @ + 1]
    /\ pages' = [pages EXCEPT ![rid] = "held"]
    /\ stage' = [stage EXCEPT ![rid] = "prefill"]
    /\ UNCHANGED <<slotVars, steps, requests, queueVars, free_group,
                   graph_failed_leases, work, call, faults>>

\* begin_batch of a request's first extend: _acquire_request, then the
\* forward. The constructor of the cache, or the ledger behind it, may raise
\* with the lease already acquired: without the cache, or without the forward.
BeginPrefill(rid, cached, ran) ==
    /\ call = Idle /\ ~free_group
    /\ stage[rid] = "prefill"
    /\ requests[row[rid]] = NoLease
    /\ ran => cached
    /\ Acquire(row[rid], generation[row[rid]], rid)
    /\ requests' = IF cached THEN [requests EXCEPT ![row[rid]] = prefill_owner'] ELSE requests
    /\ work' = IF ran THEN work \cup {Submit(prefill_owner', "prefill")} ELSE work
    /\ IF ran THEN UNCHANGED faults ELSE Fault
    /\ UNCHANGED <<generation, reqVars, queueVars, free_group, graph_failed_leases,
                   call>>

\* begin_batch of a later chunk.
PrefillChunk(rid, lease) ==
    /\ call = Idle /\ ~free_group
    /\ stage[rid] = "prefill"
    /\ Owns(rid, lease)
    /\ Require(lease, {"prefill"})
    /\ prefill_owner = lease
    /\ steps[rid] > 0
    /\ steps' = [steps EXCEPT ![rid] = @ - 1]
    /\ work' = work \cup {Submit(lease, "prefill")}
    /\ UNCHANGED <<slotVars, generation, row, stage, pages, requests, queueVars, free_group,
                   graph_failed_leases, call, faults>>

----------------------------------------------------------------------------
(* Handoff, inside the result processing of the last chunk.                *)

HandoffBegin(rid, lease) ==
    /\ call = Idle
    /\ stage[rid] = "prefill"
    /\ Owns(rid, lease)
    /\ BeginHandoff(lease)
    /\ work' = work \cup {Submit(lease, "handoff")}
    /\ call' = At("handoff", lease)
    /\ UNCHANGED <<generation, reqVars, requests, queueVars, free_group,
                   graph_failed_leases, faults>>

\* Mutant: the handoff finishes without synchronising its event.
HandoffFinishUnsynced ==
    /\ call.op = "handoff"
    /\ FinishHandoff(call.lease, TRUE)
    /\ call' = At("handed", call.lease)
    /\ UNCHANGED <<generation, reqVars, requests, queueVars, free_group,
                   graph_failed_leases, work, faults>>

\* The completion event was recorded behind the prefill and every copy.
HandoffFinish ==
    /\ call.op = "handoff"
    /\ FinishHandoff(call.lease, WorkOf(call.lease) = {})
    /\ call' = At("handed", call.lease)
    /\ UNCHANGED <<generation, reqVars, requests, queueVars, free_group,
                   graph_failed_leases, work, faults>>

\* admit_request_into_staging parks what handoff returned.
Park ==
    /\ call.op = "handed"
    /\ ack_staging_queue' = Append(ack_staging_queue, call.lease)
    /\ stage' = [stage EXCEPT ![call.lease.rid] = "parked"]
    /\ call' = Idle
    /\ UNCHANGED <<slotVars, generation, row, steps, pages, requests, pending_releases,
                   free_group, graph_failed_leases, work, faults>>

\* The handoff raises, before or after it freed the lane. The copy stream is
\* synchronised, for a copy may have been queued without its event. When that
\* raises too, the copy keeps running and nothing remembers it.
HandoffFails(cleaned) ==
    /\ call.op \in {"handoff", "handed"}
    /\ MarkFailed(call.lease)
    /\ IF cleaned
         THEN work' = work \ CopyStream
         ELSE /\ CleanupMayFail
              /\ work' = {IF w.lease = call.lease /\ w.kind = "handoff"
                          THEN Untracked(w) ELSE w : w \in work}
    /\ call' = Idle
    /\ Fault
    /\ UNCHANGED <<generation, reqVars, requests, queueVars, free_group,
                   graph_failed_leases>>

----------------------------------------------------------------------------
(* Admission to decode, and decode.                                        *)

\* Mutant: the slice starts one item early.
UnreadyOverlap(count) == SubSeq(ack_staging_queue, count, Len(ack_staging_queue))

\* What stays parked when the first count items leave.
Unready(count) == SubSeq(ack_staging_queue, count + 1, Len(ack_staging_queue))

\* collect_ready_reqs looks at every parked item and admits the oldest, as
\* many as every rank is ready for. When the ledger raises on the way, the
\* queue is cut already and the caller never gets the list: only the first
\* items are admitted, and all of them are lost to the scheduler.
Collect(count, admitted, returned) ==
    /\ call = Idle /\ ~free_group
    /\ admitted <= count
    /\ returned => admitted = count
    /\ \A i \in DOMAIN ack_staging_queue :
          LET lease == ack_staging_queue[i]
          IN  Require(lease, {"host_ready"}) /\ Owns(lease.rid, lease)
    /\ LET ready == {ack_staging_queue[i].rid : i \in 1..count}
           first == {ack_staging_queue[i] : i \in 1..admitted}
       IN  /\ phases' = [r \in Rows |-> IF active[r] \in first THEN "decode" ELSE phases[r]]
           /\ stage' = [rid \in Rids |-> IF rid \notin ready THEN stage[rid]
                                         ELSE IF returned THEN "running" ELSE "lost"]
    /\ ack_staging_queue' = Unready(count)
    /\ IF returned THEN UNCHANGED faults ELSE Fault
    /\ UNCHANGED <<active, last_generation, free_slots, prefill_owner, generation, row,
                   steps, pages, requests, pending_releases, free_group,
                   graph_failed_leases, work, call>>

\* begin_batch validates the whole batch before it advances any request.
Batchable(batch) ==
    /\ call = Idle /\ ~free_group
    /\ \A rid \in batch :
          /\ stage[rid] = "running"
          /\ steps[rid] > 0
          /\ Owns(rid, requests[row[rid]])
          /\ Require(requests[row[rid]], {"decode"})

Advance(batch) == steps' = [rid \in Rids |-> IF rid \in batch THEN steps[rid] - 1 ELSE steps[rid]]

BatchWork(batch, closing) ==
    {Submit(requests[row[rid]], "decode") : rid \in batch}
       \cup {Submit(requests[row[rid]], "writeback") : rid \in closing}

\* A decode step; the requests that complete a block of four queue a copy.
Decode(batch, closing) ==
    /\ Batchable(batch)
    /\ Advance(batch)
    /\ work' = work \cup BatchWork(batch, closing)
    /\ UNCHANGED <<slotVars, generation, row, stage, pages, requests, queueVars, free_group,
                   graph_failed_leases, call, faults>>

\* fail_graph_replay: the replay or its copies failed, perhaps with copies
\* queued and no event. Both streams are drained; if that fails too, the
\* leases are remembered as blocked.
GraphFails(batch, closing, streams_drained) ==
    /\ Batchable(batch)
    /\ Advance(batch)
    /\ LET leases == {requests[row[rid]] : rid \in batch}
           queued == BatchWork(batch, {}) \cup
              {Untracked(w) : w \in BatchWork({}, closing)}
       IN  /\ phases' = [r \in Rows |-> IF active[r] \in leases THEN "failed" ELSE phases[r]]
           /\ IF streams_drained
                THEN work' = {} /\ UNCHANGED graph_failed_leases
                ELSE /\ work' = work \cup queued
                     /\ graph_failed_leases' = graph_failed_leases \cup leases
    /\ Fault
    /\ UNCHANGED <<active, last_generation, free_slots, prefill_owner, generation, row,
                   stage, pages, requests, queueVars, free_group, call>>

----------------------------------------------------------------------------
(* Release: release_kv_cache calls release, frees the pages and the row,   *)
(* and calls after_release.                                                *)

Releasable(rid) == call = Idle /\ stage[rid] \in {"prefill", "running"}

\* Mutant: only the producer stream's terminal event is waited for.
QuietProducer(lease) == \A w \in WorkOf(lease) : w.kind \in {"handoff", "writeback"}

\* What release's events cover: the producer stream, the last copy of every
\* layer, the handoff. A blocked lease first has both streams drained.
Quiet(lease) ==
    IF lease \in graph_failed_leases THEN work = {}
    ELSE \A w \in WorkOf(lease) : ~w.tracked

Release(rid, lease) ==
    /\ Releasable(rid)
    /\ Owns(rid, lease)
    /\ Quiet(lease)
    /\ Drain(lease)
    /\ graph_failed_leases' = graph_failed_leases \ {lease}
    /\ call' = At("drained", lease)
    /\ UNCHANGED <<generation, reqVars, requests, queueVars, free_group, work, faults>>

\* An event of the drain raises, as an Exception or as an interruption. A
\* blocked lease has had its streams drained by then.
ReleaseFails(rid, lease, left) ==
    /\ Releasable(rid)
    /\ Owns(rid, lease)
    /\ DrainRaises(lease, left)
    /\ lease \in graph_failed_leases => work = {}
    /\ graph_failed_leases' = graph_failed_leases \ {lease}
    /\ Fault
    /\ UNCHANGED <<generation, reqVars, requests, queueVars, free_group, work, call>>

Freed == IF free_group THEN "grouped" ELSE "none"

\* The logical pages go, to the open group or at once. The request's own and
\* those allocated beyond them are freed by two calls, one step here: between
\* them some are still held.
FreePages ==
    /\ call.op = "drained"
    /\ pages' = [pages EXCEPT ![call.lease.rid] = Freed]
    /\ call' = At("unpaged", call.lease)
    /\ UNCHANGED <<slotVars, generation, row, stage, steps, requests, queueVars,
                   free_group, graph_failed_leases, work, faults>>

\* The row goes after the pages, and the request holds nothing any more.
FreeRow ==
    /\ call.op = "unpaged"
    /\ row' = [row EXCEPT ![call.lease.rid] = 0]
    /\ stage' = [stage EXCEPT ![call.lease.rid] = "finished"]
    /\ call' = At("freed", call.lease)
    /\ UNCHANGED <<slotVars, generation, steps, pages, requests, queueVars, free_group,
                   graph_failed_leases, work, faults>>

\* A request that never reached a forward has no lease to release. When its
\* release fails behind its pages, the row stays with a request that the
\* scheduler no longer has.
ReleaseUnleased(rid, rowed) ==
    /\ Releasable(rid)
    /\ requests[row[rid]] = NoLease
    /\ active[row[rid]] = NoLease
    /\ pages' = [pages EXCEPT ![rid] = Freed]
    /\ IF rowed
         THEN /\ row' = [row EXCEPT ![rid] = 0]
              /\ stage' = [stage EXCEPT ![rid] = "finished"]
              /\ UNCHANGED faults
         ELSE stage' = [stage EXCEPT ![rid] = "lost"] /\ UNCHANGED row /\ Fault
    /\ UNCHANGED <<slotVars, generation, steps, requests, queueVars, free_group,
                   graph_failed_leases, work, call>>

\* Mutant: the deferred lease is not queued.
DeferUnqueued ==
    /\ call.op = "freed"
    /\ free_group
    /\ Require(call.lease, {"drained"})
    /\ call' = Idle
    /\ UNCHANGED <<slotVars, generation, reqVars, requests, queueVars, free_group,
                   graph_failed_leases, work, faults>>

\* after_release under an open group: the lease waits for the flush.
Defer ==
    /\ call.op = "freed"
    /\ free_group
    /\ Require(call.lease, {"drained"})
    /\ \A i \in DOMAIN pending_releases : pending_releases[i] # call.lease
    /\ pending_releases' = Append(pending_releases, call.lease)
    /\ call' = Idle
    /\ UNCHANGED <<slotVars, generation, reqVars, requests, ack_staging_queue,
                   free_group, graph_failed_leases, work, faults>>

\* The lease that after_release works on, called by the release or the flush.
Target == IF call.op = "flushing" THEN Head(pending_releases) ELSE call.lease
Committing == call.op \in {"freed", "flushing"} /\ ~free_group

MarkFlushed ==
    /\ Committing
    /\ LogicalFlushed(Target, free_group)
    /\ UNCHANGED runtimeVars

\* Mutant: the cache outlives the lease.
RequestsKept == requests

\* Mutant: the head is popped only when nothing raised.
PoppedUnlessRaised(raised) ==
    IF call.op = "flushing" /\ ~raised THEN Tail(pending_releases) ELSE pending_releases

\* Mutant: the flush handles one lease, an if where the code has a while.
AfterOneCommit(raised) == Idle

\* del self.requests[...]
RequestsLeft == [requests EXCEPT ![Target.req_pool_idx] = NoLease]

\* The finally of after_logical_flush pops a head that is no longer active,
\* whether or not the ledger raised after the commit.
Popped(raised) ==
    IF call.op = "flushing" THEN Tail(pending_releases) ELSE pending_releases

AfterCommit(raised) ==
    IF call.op = "flushing" /\ ~raised /\ Len(pending_releases) > 1 THEN call ELSE Idle

\* commit_release and what after_release and its caller do behind it.
Commit(raised) ==
    /\ Committing
    /\ CommitRelease(Target)
    /\ requests' = RequestsLeft
    /\ pending_releases' = Popped(raised)
    /\ call' = AfterCommit(raised)
    /\ IF raised THEN Fault ELSE UNCHANGED faults
    /\ UNCHANGED <<generation, reqVars, ack_staging_queue, free_group,
                   graph_failed_leases, work>>

\* Mutant: a flush that raises has popped its head already.
RaisePops ==
    /\ call.op \in {"drained", "unpaged", "freed", "flushing"}
    /\ pending_releases' =
          IF call.op = "flushing" THEN Tail(pending_releases) ELSE pending_releases
    /\ call' = Idle
    /\ Fault
    /\ UNCHANGED <<slotVars, generation, reqVars, requests, ack_staging_queue, free_group,
                   graph_failed_leases, work>>

\* Anything else in a release, or in a flush before its commit, raises: the
\* ledger after the drain, the free of the pages or of the row, the commit
\* itself. The drained lease cannot be drained again, so no repeated release
\* frees the pages twice.
Raise ==
    /\ call.op \in {"drained", "unpaged", "freed", "flushing"}
    /\ call' = Idle
    /\ Fault
    /\ UNCHANGED <<slotVars, generation, reqVars, requests, queueVars, free_group,
                   graph_failed_leases, work>>

----------------------------------------------------------------------------
(* The allocator's free group (external) and its after hook.               *)

FreeGroupBegin ==
    /\ call = Idle /\ ~free_group
    /\ free_group' = TRUE
    /\ UNCHANGED <<slotVars, generation, reqVars, requests, queueVars,
                   graph_failed_leases, work, call, faults>>

\* Mutant: the hook runs before the group's pages return.
FreeGroupEndBefore ==
    /\ call = Idle /\ free_group
    /\ free_group' = FALSE
    /\ call' = IF pending_releases = <<>> THEN Idle ELSE At("flushing", NoLease)
    /\ UNCHANGED <<slotVars, generation, reqVars, requests, queueVars,
                   graph_failed_leases, work, faults>>

\* The grouped pages return, then _notify_logical_flush runs.
FreeGroupEnd ==
    /\ call = Idle /\ free_group
    /\ free_group' = FALSE
    /\ pages' = [rid \in Rids |-> IF pages[rid] = "grouped" THEN "none" ELSE pages[rid]]
    /\ call' = IF pending_releases = <<>> THEN Idle ELSE At("flushing", NoLease)
    /\ UNCHANGED <<slotVars, generation, row, stage, steps, requests, queueVars,
                   graph_failed_leases, work, faults>>

\* The device (external) finishes a piece of work.
Complete(w) ==
    /\ work' = work \ {w}
    /\ UNCHANGED <<slotVars, generation, reqVars, requests, queueVars, free_group,
                   graph_failed_leases, call, faults>>

----------------------------------------------------------------------------

Next ==
    \/ \E rid \in Rids :
          \/ \E r \in Rows : AllocRow(rid, r)
          \/ \E cached, ran \in BOOLEAN : BeginPrefill(rid, cached, ran)
          \/ \E rowed \in BOOLEAN : ReleaseUnleased(rid, rowed)
    \/ \E rid \in Rids, lease \in Active :
          \/ PrefillChunk(rid, lease)
          \/ HandoffBegin(rid, lease)
          \/ Release(rid, lease)
          \/ \E left \in {"failed", "releasing"} : ReleaseFails(rid, lease, left)
    \/ HandoffFinish
    \/ Park
    \/ \E cleaned \in BOOLEAN : HandoffFails(cleaned)
    \/ \E count, admitted \in 1..Len(ack_staging_queue), returned \in BOOLEAN :
          Collect(count, admitted, returned)
    \/ \E batch \in SUBSET Rids \ {{}} : \E closing \in SUBSET batch :
          \/ Decode(batch, closing)
          \/ \E streams_drained \in BOOLEAN : GraphFails(batch, closing, streams_drained)
    \/ FreePages
    \/ FreeRow
    \/ Defer
    \/ MarkFlushed
    \/ \E raised \in BOOLEAN : Commit(raised)
    \/ Raise
    \/ FreeGroupBegin
    \/ FreeGroupEnd
    \/ \E w \in work : Complete(w)

Spec == Init /\ [][Next]_vars

\* The device keeps working, the thread returns from its calls and closes the
\* groups it opens, and the scheduler's loop reaches every request again and
\* again: it allocates, prefills, hands off and collects what it may, and
\* ends a request at the latest when its context is full.
Fairness ==
    /\ WF_vars(\E w \in work : Complete(w))
    /\ WF_vars(HandoffFinish \/ Park \/ FreePages \/ FreeRow \/ Defer \/ MarkFlushed
               \/ (\E raised \in BOOLEAN : Commit(raised)) \/ FreeGroupEnd)
    /\ SF_vars(\E count \in 1..Len(ack_staging_queue) : Collect(count, count, TRUE))
    /\ \A rid \in Rids : SF_vars(
          \/ \E r \in Rows : AllocRow(rid, r)
          \/ BeginPrefill(rid, TRUE, TRUE)
          \/ \E lease \in Active : HandoffBegin(rid, lease) \/ Release(rid, lease))

FairSpec == Spec /\ Fairness

----------------------------------------------------------------------------
(* What the runtime keeps true.                                            *)

\* The device never works on the backing of a lease that is drained or gone:
\* a slot cannot be reused under an outstanding forward, handoff copy or C4
\* writeback, whichever calls failed before.
WorkWithinLease ==
    \A w \in work :
       /\ active[w.lease.req_pool_idx] = w.lease
       /\ phases[w.lease.req_pool_idx] \notin {"drained", "logical_flushed"}

\* Prefill and handoff work on the staging lane is its owner's: the lane does
\* not pass to the next prompt while a forward still writes it or a copy of
\* the last one still reads it.
LaneWork ==
    \A w \in work : w.kind \in {"prefill", "handoff"} => prefill_owner = w.lease

\* A request is parked exactly while its lease is in the staging queue, once,
\* and ready; it runs only with a lease past the handoff.
StagedOnce ==
    /\ \A rid \in Rids :
          LET places == {i \in DOMAIN ack_staging_queue : ack_staging_queue[i].rid = rid} IN
          /\ stage[rid] = "parked" <=> places # {}
          /\ \A i, j \in places : i = j
          /\ \A i \in places : Owns(rid, ack_staging_queue[i])
                               /\ Require(ack_staging_queue[i], {"host_ready"})
    /\ \A rid \in Rids : stage[rid] = "running" =>
          phases[row[rid]] \in {"decode", "failed", "releasing", "drained"}

\* What waits for the logical flush is still leased, drained, cached, and
\* there once: a failed flush can be repeated and never commits a lease twice.
PendingExact ==
    /\ \A i \in DOMAIN pending_releases :
          LET lease == pending_releases[i] IN
          /\ Require(lease, {"drained", "logical_flushed"})
          /\ requests[lease.req_pool_idx] = lease
          /\ stage[lease.rid] = "finished"
          /\ \A j \in DOMAIN pending_releases : pending_releases[j] = lease => i = j
    /\ call.op = "flushing" => pending_releases # <<>>

\* The runtime's caches are those of active leases, and the lease of a request
\* that still runs has its cache.
CacheMatchesTable ==
    /\ \A r \in Rows : requests[r] # NoLease => active[r] = requests[r]
    /\ \A rid \in Rids : stage[rid] \in {"parked", "running"} => Owns(rid, requests[row[rid]])

\* A row has one request at a time, and a request has one exactly while the
\* scheduler runs it.
RowsOwned ==
    /\ \A p, q \in Rids : (row[p] = row[q] /\ row[p] # 0) => p = q
    /\ \A rid \in Rids : row[rid] = 0 <=> stage[rid] \in {"waiting", "finished"}

\* A lease outlives its request's row only drained, and a request has one lease.
LeasesOwned ==
    /\ \A l \in Active :
          \/ /\ row[l.rid] = l.req_pool_idx
             /\ l.generation = generation[l.req_pool_idx]
             /\ phases[l.req_pool_idx] # "logical_flushed"
          \/ /\ stage[l.rid] = "finished"
             /\ phases[l.req_pool_idx] \in {"drained", "logical_flushed"}
    /\ \A l, m \in Active : l.rid = m.rid => l = m

\* Where the thread stands inside a call, the lease of the call is there too.
CallExact ==
    /\ call.op = "handoff" =>
          /\ Owns(call.lease.rid, call.lease)
          /\ Require(call.lease, {"copying"})
          /\ stage[call.lease.rid] = "prefill"
    /\ call.op = "handed" =>
          /\ Owns(call.lease.rid, call.lease)
          /\ Require(call.lease, {"host_ready"})
          /\ stage[call.lease.rid] = "prefill"
    /\ call.op \in {"drained", "unpaged"} =>
          /\ Owns(call.lease.rid, call.lease)
          /\ Require(call.lease, {"drained"})
          /\ stage[call.lease.rid] \in {"prefill", "running"}
    /\ call.op = "unpaged" => pages[call.lease.rid] # "held"
    /\ call.op = "freed" =>
          /\ Require(call.lease, {"drained", "logical_flushed"})
          /\ requests[call.lease.req_pool_idx] = call.lease
          /\ stage[call.lease.rid] = "finished"
          /\ \A i \in DOMAIN pending_releases : pending_releases[i] # call.lease

\* The release of the request stands, or stopped, where the pages may be gone.
Unpaged(rid) ==
    \/ stage[rid] = "lost"
    \/ \E l \in Active : l.rid = rid /\ phases[l.req_pool_idx] = "drained"

\* A request has its pages while it has its row, unless its release stopped
\* between the two, and what has been declared flushed has none left, not even
\* in the open group.
PagesFollow ==
    /\ \A rid \in Rids :
          /\ row[rid] # 0 => pages[rid] = "held" \/ Unpaged(rid)
          /\ row[rid] = 0 => pages[rid] # "held"
          /\ pages[rid] = "grouped" => free_group
    /\ \A l \in Active : phases[l.req_pool_idx] = "logical_flushed" => pages[l.rid] = "none"

\* What is written in the rows, the queue, the caches, the pending releases
\* and the table is about the same leases, each in one place of its way,
\* although calls fail in between. The parts need each other: it is inductive
\* only as a whole (a lease is committed once because it is in one place, and
\* it is in one place because its row, its cache and its stage agree).
BooksExact ==
    /\ TypeOK /\ SlotsInv
    /\ RowsOwned /\ LeasesOwned /\ CallExact /\ PagesFollow
    /\ StagedOnce /\ PendingExact /\ CacheMatchesTable

\* The thread releases the lease, and has drained it already.
ReleasingOf(l) == call.op \in {"drained", "unpaged", "freed"} /\ call.lease = l

\* A lease is on its way back: its request is with the scheduler, which can
\* still have it drained; or the thread is releasing it; or it waits for the
\* flush.
OnItsWay(l) ==
    \/ /\ stage[l.rid] \in {"prefill", "parked", "running"}
       /\ Owns(l.rid, l)
       /\ Require(l, Drainable)
    \/ ReleasingOf(l)
    \/ \E i \in DOMAIN pending_releases : pending_releases[i] = l

Forgotten == {l \in Active : ~OnItsWay(l)}

\* Only four failures take a lease off its way back, whatever failed before:
\* its cache was never made, the collection that picked it was lost, its drain
\* was interrupted, or its release failed behind the drain. A handoff, a
\* replay, a drain or a flush that raises loses no lease, and no call that
\* succeeds does.
OnlyFailuresForget ==
    [][\A l \in Forgotten' \ Forgotten :
          /\ faults' < faults
          /\ \/ l \notin Active
             \/ stage[l.rid] = "parked" /\ stage'[l.rid] = "lost"
             \/ phases'[l.req_pool_idx] = "releasing"
             \/ ReleasingOf(l)]_vars

\* The runtime implements the custody of the backing, reading "in use" as
\* what device work and logical pages there really are.
DeviceCustody == INSTANCE QSACustody WITH
    holder <- [s \in Slots |-> HolderOf(s)],
    lane <- prefill_owner,
    spent <- {l \in Leases : l.generation <= last_generation[l.req_pool_idx]},
    using <- {l \in Active : pages[l.rid] # "none"} \cup {w.lease : w \in work}

ImplementsDeviceCustody == DeviceCustody!Spec

\* Without failing calls, every request is served in the end, however many
\* compete for the lane, the rows and the slots: none stays waiting or parked.
EveryRequestFinishes == \A rid \in Rids : <>(stage[rid] = "finished")

\* Without failing calls, every lease is given back: a deferred release is
\* committed by the flush that follows it, and not forgotten behind another.
EveryLeaseReturns ==
    \A s \in Slots : (free_slots[s] = 0) ~> (free_slots[s] > 0)

=============================================================================
