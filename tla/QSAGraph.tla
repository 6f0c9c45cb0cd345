------------------------------ MODULE QSAGraph ------------------------------
(***************************************************************************)
(* Decode by full CUDA graphs in the mode "p2-offload": the graph hooks of *)
(* the runner (patches/hisparse/graph.py) over the runtime (hisparse/      *)
(* runtime.py). A graph is captured for one exact batch size on static     *)
(* buffers; a replay must find in them the leases of the batch it was      *)
(* prepared for, and nothing else.                                         *)
(*                                                                         *)
(* A lease is a request row's, with a generation of its own. The compute   *)
(* stream does what the thread queues in order; copy_stream is behind by   *)
(* the copies in submitted. QSALifecycle has how leases begin and end,     *)
(* QSAWriteback what a replay does to the K/V.                             *)
(***************************************************************************)
EXTENDS QSAConfig

CONSTANTS
    RequestRows,    \* request rows, req_pool_idx
    MaxLeases,      \* how many leases are explored
    MaxTokens,      \* how many tokens a lease decodes
    MaxGraphFaults  \* how many graph steps may raise

ASSUME GraphAssumption ==
    IsFiniteSet(RequestRows) /\ {MaxLeases, MaxTokens, MaxGraphFaults} \subseteq Nat

VARIABLES
    graphs,         \* backend._graphs: the sizes captured
    capturing,      \* graph_capture_size, 0 for none
    leases,         \* row -> its lease, [gen |-> 0] for none
    issued,         \* the last generation given
    graph_batch,    \* graph_batch
    static,         \* the static buffers: real; slots, lengths, write locations by row
    fed,            \* the rows whose tokens the runner's buffers hold
    step,           \* where the runner stands
    ring,           \* slot or Reserved -> the lease whose token a forward stored last
    newest,         \* slot -> the lease whose block close_c4 put in its newest row
    submitted,      \* writebacks on copy_stream: slot, gen, whether an event follows
    graph_failed,   \* graph_failed_leases
    graph_faults,
    lost            \* whether an exception left the scheduler's loop

graphVars == <<graphs, capturing, leases, issued, graph_batch, static, fed, step, ring,
               newest, submitted, graph_failed, graph_faults, lost>>

NoLease == [gen |-> 0]
SlotIds == 0..(owner.requests - 1)
Sizes == 1..owner.requests
Captured == 0
Reserved == -1    \* the raw row no lease has

GraphInit ==
    /\ graphs = {} /\ capturing = 0
    /\ leases = [r \in RequestRows |-> NoLease] /\ issued = 0
    /\ graph_batch = <<>>
    /\ static = [real |-> 0, slots |-> <<>>, lens |-> <<>>, locs |-> <<>>]
    /\ fed = <<>>
    /\ step = "idle" /\ ring = <<>> /\ newest = <<>> /\ submitted = {} /\ graph_failed = {}
    /\ graph_faults = MaxGraphFaults /\ lost = FALSE

Replays == cache # "none" /\ owner.graph /\ ~lost
AtRest == Replays /\ step = "idle"
Live == {r \in RequestRows : leases[r] # NoLease}
Gens == {leases[r].gen : r \in Live}

\* What the rows write, each at its place, over what was there.
Put(map, at, rows, writer) ==
    [s \in DOMAIN map \cup {at[i] : i \in rows} |->
        IF \E i \in rows : at[i] = s THEN writer[CHOOSE i \in rows : at[i] = s] ELSE map[s]]

\* Mutant: the last real row is taken for padding.
ClosedButLast == {i \in 1..(static.real - 1) : static.lens[i] % 4 = 0}

\* close_c4: the real rows whose block is complete.
ClosedRows == {i \in 1..static.real : static.lens[i] % 4 = 0}

\* A forward over the static buffers: every row stores its token at its write
\* location, real or not; only a real row has its block closed.
Forward(writer) ==
    /\ ring' = Put(ring, static.locs, DOMAIN static.locs, writer)
    /\ newest' = Put(newest, static.slots, ClosedRows, writer)

----------------------------------------------------------------------------
(* capture_one_shape within graph_capture.                                 *)

Capturable == Live = {} /\ graph_batch = <<>> /\ capturing = 0

\* Mutant: the count of real rows stays that of the last replay.
ZeroedNot(n) ==
    [static EXCEPT !.slots = [i \in 1..n |-> 0], !.lens = [i \in 1..n |-> 0],
                   !.locs = [i \in 1..n |-> Reserved]]

\* Mutant: the write locations are the rings of the first slots.
ZeroedRings(n) ==
    [real |-> 0, slots |-> [i \in 1..n |-> 0], lens |-> [i \in 1..n |-> 0],
     locs |-> [i \in 1..n |-> i - 1]]

\* graph_capture: no row is real while the graph is recorded, and what the rows
\* store goes to the reserved raw row.
Zeroed(n) ==
    [real |-> 0, slots |-> [i \in 1..n |-> 0], lens |-> [i \in 1..n |-> 0],
     locs |-> [i \in 1..n |-> Reserved]]

\* A capture with live leases raises; the graph backend is the full one.
CaptureBegin(n) ==
    /\ AtRest /\ n \in Sizes
    /\ IF Capturable
         THEN /\ capturing' = n /\ static' = Zeroed(n) /\ step' = "capturing"
              /\ UNCHANGED lost
         ELSE lost' = TRUE /\ UNCHANGED <<capturing, static, step>>
    /\ UNCHANGED <<graphs, leases, issued, graph_batch, fed, ring, newest, submitted,
                   graph_failed, graph_faults>>

\* A warmup forward, or the recorded one, over the static buffers.
Warmup ==
    /\ Replays /\ step = "capturing"
    /\ Forward([i \in DOMAIN static.locs |-> Captured])
    /\ step' = "warm"
    /\ UNCHANGED <<graphs, capturing, leases, issued, graph_batch, static, fed,
                   submitted, graph_failed, graph_faults, lost>>

\* The graph is kept, or the capture raised; its scope is left either way.
CaptureEnd ==
    /\ Replays /\ step = "warm"
    /\ \/ graphs' = graphs \cup {capturing} /\ UNCHANGED <<lost, graph_faults>>
       \/ /\ graph_faults > 0 /\ graph_faults' = graph_faults - 1
          /\ lost' \in BOOLEAN /\ UNCHANGED graphs
    /\ capturing' = 0 /\ step' = "idle" /\ static' = [static EXCEPT !.real = 0]
    /\ UNCHANGED <<leases, issued, graph_batch, fed, ring, newest, submitted,
                   graph_failed>>

----------------------------------------------------------------------------
(* Leases, as far as the graph depends on them.                            *)

FreeSlots == SlotIds \ {leases[r].slot : r \in Live}

\* A prefill forward takes the lowest free slot; one prefills at a time.
Prefill(r) ==
    /\ AtRest /\ graphs # {} /\ leases[r] = NoLease /\ issued < MaxLeases
    /\ \A q \in Live : leases[q].phase # "prefill"
    /\ issued' = issued + 1
    /\ \E slot \in FreeSlots :
          /\ \A t \in FreeSlots : slot <= t
          /\ leases' = [leases EXCEPT ![r] =
                [gen |-> issued', slot |-> slot, phase |-> "prefill", seq |-> 0]]
    /\ UNCHANGED <<graphs, capturing, graph_batch, static, fed, step, ring, newest,
                   submitted, graph_failed, graph_faults, lost>>

\* Its handoff is over and it is admitted to decode.
Admitted(r) ==
    /\ AtRest /\ r \in Live /\ leases[r].phase = "prefill"
    /\ leases' = [leases EXCEPT ![r].phase = "decode"]
    /\ UNCHANGED <<graphs, capturing, issued, graph_batch, static, fed, step, ring,
                   newest, submitted, graph_failed, graph_faults, lost>>

\* copy_stream finishes a writeback (external).
WrittenBack ==
    /\ Replays /\ \E c \in submitted : submitted' = submitted \ {c}
    /\ UNCHANGED <<graphs, capturing, leases, issued, graph_batch, static, fed, step,
                   ring, newest, graph_failed, graph_faults, lost>>

\* Mutant: a lease whose drain failed is released like any other.
AwaitedEvents(gen) == {c \in submitted : c.gen = gen /\ c.event}

\* What a release waits for: the events, and both streams if a drain failed.
Awaited(gen) ==
    IF gen \in graph_failed THEN submitted ELSE {c \in submitted : c.gen = gen /\ c.event}

\* release and after_release.
EndLease(r) ==
    /\ AtRest /\ r \in Live
    /\ Awaited(leases[r].gen) = {}
    /\ graph_failed' = graph_failed \ {leases[r].gen}
    /\ leases' = [leases EXCEPT ![r] = NoLease]
    /\ UNCHANGED <<graphs, capturing, issued, graph_batch, static, fed, step, ring,
                   newest, submitted, graph_faults, lost>>

----------------------------------------------------------------------------
(* load_batch, the replay and finish_graph_replay, inside one scope.       *)

Batches == {B \in UNION {[1..n -> RequestRows] : n \in Sizes} : IsInjective(B)}

\* Mutant: a failed lease may decode.
SteppableFailed(r) == leases[r] # NoLease /\ leases[r].phase \in {"decode", "failed"}

\* begin_batch requires a decode lease of every row.
Steppable(r) == leases[r] # NoLease /\ leases[r].phase = "decode"

\* Mutant: the slots of the rows are staged in order of row number.
StagedSlotsSorted(B) ==
    LET rows == SetToSortSeq(ToSet(B), <)
    IN  [i \in DOMAIN B |-> leases[rows[i]].slot]

StagedSlots(B) == [i \in DOMAIN B |-> leases[B[i]].slot]

\* prepare_graph_replay: the rows advance and the static buffers name them.
Prepare(B) ==
    /\ leases' = [r \in RequestRows |->
          IF r \in ToSet(B) THEN [leases[r] EXCEPT !.seq = @ + 1] ELSE leases[r]]
    /\ graph_batch' = [i \in DOMAIN B |->
          [row |-> B[i], gen |-> leases[B[i]].gen, seq |-> leases[B[i]].seq + 1]]
    /\ static' = [real |-> Len(B), slots |-> StagedSlots(B),
                  lens |-> [i \in DOMAIN B |-> leases[B[i]].seq + 1],
                  locs |-> StagedSlots(B)]

\* A decode batch: its exact size has a graph, or R02 refuses to run it eager.
LoadBatch(B) ==
    /\ AtRest /\ \A i \in DOMAIN B : B[i] \in Live /\ leases[B[i]].phase # "prefill"
    /\ \A i \in DOMAIN B : leases[B[i]].seq < MaxTokens
    /\ IF Len(B) \in graphs /\ graph_batch = <<>> /\ \A i \in DOMAIN B : Steppable(B[i])
         THEN Prepare(B) /\ fed' = B /\ step' = "loaded" /\ UNCHANGED lost
         ELSE lost' = TRUE /\ UNCHANGED <<leases, graph_batch, static, fed, step>>
    /\ UNCHANGED <<graphs, capturing, issued, ring, newest, submitted, graph_failed,
                   graph_faults>>

\* The graph of that size runs, each row storing its token.
Replay ==
    /\ Replays /\ step = "loaded"
    /\ Forward([i \in DOMAIN fed |-> leases[fed[i]].gen])
    /\ step' = "replayed"
    /\ UNCHANGED <<graphs, capturing, leases, issued, graph_batch, static, fed,
                   submitted, graph_failed, graph_faults, lost>>

Matching ==
    /\ Len(graph_batch) = static.real /\ Len(graph_batch) \in graphs
    /\ \A i \in DOMAIN graph_batch :
          LET b == graph_batch[i]
          IN  /\ leases[b.row].gen = b.gen /\ leases[b.row].seq = b.seq
              /\ leases[b.row].phase = "decode"

Closing == {graph_batch[i] : i \in {i \in DOMAIN graph_batch : graph_batch[i].seq % 4 = 0}}
Writebacks(event) ==
    {[slot |-> leases[b.row].slot, gen |-> b.gen, event |-> event] : b \in Closing}

\* finish_graph_replay: complete blocks are written back, the batch is done.
Finish ==
    /\ Replays /\ step = "replayed" /\ Matching
    /\ submitted' = submitted \cup Writebacks(TRUE)
    /\ graph_batch' = <<>> /\ step' = "idle"
    /\ UNCHANGED <<graphs, capturing, leases, issued, static, fed, ring, newest,
                   graph_failed, graph_faults, lost>>

\* Mutant: a failed drain is forgotten.
BlockedNot(gens, drained) == {}

Blocked(gens, drained) == IF drained THEN {} ELSE gens

\* Any exception of the scope, before or after a writeback was queued without
\* its event: the leases fail, and stay blocked if the drain fails too.
FailReplay ==
    /\ Replays /\ step \in {"loaded", "replayed"} /\ graph_faults > 0
    /\ graph_faults' = graph_faults - 1
    /\ LET gens == {graph_batch[i].gen : i \in DOMAIN graph_batch} \cap Gens
       IN  /\ leases' = [r \in RequestRows |->
                 IF leases[r].gen \in gens THEN [leases[r] EXCEPT !.phase = "failed"]
                 ELSE leases[r]]
           /\ \E drained, queued \in BOOLEAN :
                 /\ submitted' = IF drained THEN {}
                                 ELSE submitted \cup IF queued /\ step = "replayed"
                                                      THEN Writebacks(FALSE) ELSE {}
                 /\ graph_failed' = graph_failed \cup Blocked(gens, drained)
    /\ graph_batch' = <<>> /\ step' = "idle" /\ lost' \in BOOLEAN
    /\ UNCHANGED <<graphs, capturing, issued, static, fed, ring, newest>>

GraphNext ==
    \/ \E n \in Sizes : CaptureBegin(n)
    \/ Warmup \/ CaptureEnd
    \/ \E r \in RequestRows : Prefill(r) \/ Admitted(r) \/ EndLease(r)
    \/ WrittenBack \/ Replay \/ Finish \/ FailReplay
    \/ \E B \in Batches : LoadBatch(B)

----------------------------------------------------------------------------
(* Properties.                                                             *)

Holds(map, r) ==
    leases[r].slot \in DOMAIN map /\ map[leases[r].slot] = leases[r].gen

\* A replay stores each token in the ring of the request it belongs to, and
\* closes no block but its own: while a batch is prepared the static buffers
\* name exactly its leases, in order, all of them decoding; no ring and no
\* newest row ever holds what a capture wrote, or what another lease did.
ReplayOwn ==
    /\ step = "loaded" =>
          /\ static.real = Len(fed) /\ Len(fed) \in graphs
          /\ \A i \in DOMAIN fed :
                /\ leases[fed[i]].phase = "decode"
                /\ static.slots[i] = leases[fed[i]].slot
                /\ static.locs[i] = leases[fed[i]].slot
                /\ static.lens[i] = leases[fed[i]].seq
    /\ \A s \in DOMAIN ring \ {Reserved} : ring[s] # Captured
    /\ \A s \in DOMAIN newest : newest[s] # Captured
    /\ step = "idle" /\ ~lost => \A r \in Live : leases[r].phase = "decode" =>
          /\ leases[r].seq > 0 => Holds(ring, r)
          /\ leases[r].seq >= 4 => Holds(newest, r)

\* A writeback still on copy_stream is a living lease's, the same that holds
\* the slot, even when its replay failed and the streams could not be drained;
\* and such a lease never decodes again.
WritebackHeld ==
    /\ \A c \in submitted : \E r \in Live : leases[r].gen = c.gen /\ leases[r].slot = c.slot
    /\ \A g \in graph_failed : \E r \in Live : leases[r].gen = g /\ leases[r].phase = "failed"
=============================================================================
