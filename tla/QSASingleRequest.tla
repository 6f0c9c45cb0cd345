-------------------------- MODULE QSASingleRequest --------------------------
(***************************************************************************)
(* The owner of the modes "offload" and "resident" (hisparse/              *)
(* single_request.py) under the scheduler of its process: one request at a *)
(* time prefills into raw buffers, moves to a host slab on its first       *)
(* decode, and gives both back when its logical pages are really free.     *)
(*                                                                         *)
(* Actors: the scheduler's thread, which queues the work of a forward and  *)
(* goes on; the compute stream, which does it in order and waits for the   *)
(* events it was told to wait for; and copy_stream.                        *)
(***************************************************************************)
EXTENDS QSAConfig

CONSTANTS
    Rids,           \* request ids clients use, possibly twice
    Layers,         \* how many attention layers
    MinPrompt,      \* 2048 tokens, as long as the selection
    MaxSeq          \* how long a request may grow

ASSUME SingleAssumption ==
    /\ IsFiniteSet(Rids) /\ "nobody" \notin Rids
    /\ {Layers, MinPrompt, MaxSeq} \subseteq Nat \ {0} /\ MinPrompt >= 4

VARIABLES
    holder,         \* owner_rid, or "nobody"
    seen,           \* seen_rids
    generation,
    failed,
    releasing,
    pending_release,    \* whether a lease awaits the logical flush
    offloaded,
    raw_released,
    buffers,        \* layer -> "raw" or "ring", what k_buffer and v_buffer are
    states,         \* one per layer handed off: its generation and latest block
    claimed,        \* whether host is the slab
    slab,           \* layer -> block -> who wrote it last, with which generation
    compute,        \* the compute stream: stores and selections not yet done
    copies,         \* copy_stream: writebacks not yet done, oldest first
    seq,            \* seq_len
    forward,        \* the forward that runs: kind, layer, whether it has stored
    group,          \* whether the allocator collects frees
    pages,          \* rid -> its logical pages
    crashed         \* whether an exception left the scheduler's loop

leaseVars == <<holder, seen, generation>>
storageVars == <<offloaded, raw_released, buffers, states, claimed>>
streamVars == <<slab, compute, copies>>
batchVars == <<seq, forward>>
releaseVars == <<releasing, pending_release, group, pages>>
faultVars == <<failed, crashed>>
singleVars == <<leaseVars, storageVars, streamVars, batchVars, releaseVars, faultVars>>

Blocks == 0..(MaxSeq \div 4)
NoForward == [kind |-> "none"]
Nobody == "nobody"

SingleInit ==
    /\ holder = Nobody /\ seen = {} /\ generation = 0
    /\ offloaded = FALSE /\ raw_released = FALSE
    /\ buffers = [l \in 1..Layers |-> "raw"]
    /\ states = <<>> /\ claimed = FALSE
    /\ slab = [l \in 1..Layers |-> [b \in Blocks |-> <<Nobody, 0>>]]
    /\ compute = <<>> /\ copies = <<>>
    /\ seq = 0 /\ forward = NoForward
    /\ releasing = FALSE /\ pending_release = FALSE /\ group = FALSE
    /\ pages = [r \in Rids |-> "none"]
    /\ failed = FALSE /\ crashed = FALSE

Offload == owner.mode = "offload"
Me == <<holder, generation>>
Loops == cache # "none" /\ owner.kind = "single" /\ ~crashed
Idle == Loops /\ forward = NoForward

\* begin_batch raised: the scheduler's loop ends.
Crash ==
    /\ crashed' = TRUE
    /\ UNCHANGED <<leaseVars, storageVars, streamVars, batchVars, failed>>

----------------------------------------------------------------------------
(* begin_batch.                                                            *)

\* Mutant: the raw buffers stay those of the request before.
RestoredNot == UNCHANGED <<buffers, raw_released>>

\* A new owner gets its raw buffers back.
Restored ==
    /\ buffers' = IF raw_released THEN [l \in 1..Layers |-> "raw"] ELSE buffers
    /\ raw_released' = FALSE

\* A request nobody owns begins: its id must be new to this process.
BeginPrefill(r, n) ==
    /\ Idle /\ ~group /\ holder = Nobody /\ pages[r] = "none"
    /\ pages' = [pages EXCEPT ![r] = "held"]
    /\ IF failed \/ releasing \/ r \in seen
         THEN Crash
         ELSE /\ seen' = seen \cup {r} /\ holder' = r /\ generation' = generation + 1
              /\ Restored
              /\ seq' = n /\ forward' = [kind |-> "extend"]
              /\ UNCHANGED <<offloaded, states, claimed, streamVars, faultVars>>
    /\ UNCHANGED <<releasing, pending_release, group>>

\* Its next chunk.
BeginChunk(n) ==
    /\ Idle /\ ~group /\ holder # Nobody /\ pages[holder] = "held" /\ ~offloaded
    /\ seq + n < MaxSeq
    /\ IF failed \/ releasing
         THEN Crash
         ELSE /\ seq' = seq + n /\ forward' = [kind |-> "extend"]
              /\ UNCHANGED <<leaseVars, storageVars, streamVars, faultVars>>
    /\ UNCHANGED releaseVars

Decoding == [kind |-> "decode", layer |-> 1, stored |-> FALSE]

\* Mutant: the slab is written for the blocks of the first layer only.
HandedOverFirst(blocks, k) ==
    [l \in 1..Layers |-> [b \in Blocks |->
        IF l <= k /\ l = 1 /\ b < blocks THEN Me ELSE slab[l][b]]]

\* The blocks of k layers, copied to the slab and awaited.
HandedOver(blocks, k) ==
    [l \in 1..Layers |-> [b \in Blocks |-> IF l <= k /\ b < blocks THEN Me ELSE slab[l][b]]]

MadeStates(blocks, k) ==
    [l \in 1..k |-> [generation |-> generation, latest |-> blocks - 1]]

\* handoff of the first decode; k layers are moved, all of them or it fails.
Handoff(k) ==
    LET blocks == seq \div 4
    IN  /\ claimed' = TRUE
        /\ slab' = HandedOver(blocks, k)
        /\ states' = MadeStates(blocks, k)
        /\ buffers' = [l \in 1..Layers |-> IF l <= k THEN "ring" ELSE buffers[l]]
        /\ IF k = Layers
             THEN /\ raw_released' = TRUE /\ offloaded' = TRUE
                  /\ forward' = Decoding /\ seq' = seq + 1
                  /\ UNCHANGED faultVars
             ELSE failed' = TRUE /\ crashed' \in BOOLEAN
                  /\ UNCHANGED <<raw_released, offloaded, batchVars>>
        /\ UNCHANGED <<compute, copies>>

\* Mutant: a failed owner decodes on.
DecodableFailed == ~releasing

Decodable == ~failed /\ ~releasing

\* A token: the first one of an offloading owner moves the request.
BeginDecode ==
    /\ Idle /\ ~group /\ holder # Nobody /\ pages[holder] = "held" /\ seq + 1 <= MaxSeq
    /\ IF ~Decodable \/ seq < MinPrompt
         THEN Crash
         ELSE /\ IF Offload /\ ~offloaded
                   THEN \E k \in 0..Layers : Handoff(k)
                   ELSE /\ forward' = Decoding /\ seq' = seq + 1
                        /\ UNCHANGED <<storageVars, streamVars, faultVars>>
              /\ UNCHANGED leaseVars
    /\ UNCHANGED releaseVars

----------------------------------------------------------------------------
(* The layers of a forward, as the thread queues them.                     *)

Store(l, block) == [op |-> "store", layer |-> l, block |-> block, by |-> Me]
Select(l) == [op |-> "select", layer |-> l, latest |-> states[l].latest]

\* after_store: a complete block is to be written back.
StoreLayer ==
    /\ Loops /\ forward.kind = "decode" /\ ~forward.stored
    /\ LET l == forward.layer
           block == seq \div 4 - 1
       IN  IF ~offloaded \/ seq % 4 # 0
             THEN UNCHANGED <<states, compute, copies>>
             ELSE /\ states' = [states EXCEPT ![l].latest = block]
                  /\ compute' = Append(compute, Store(l, block))
                  /\ copies' = Append(copies, Store(l, block))
    /\ forward' = [forward EXCEPT !.stored = TRUE]
    /\ UNCHANGED <<leaseVars, offloaded, raw_released, buffers, claimed, slab, seq,
                   releaseVars, faultVars>>

\* selected: the rows of the layer are to come from the slab and the ring.
SelectLayer ==
    /\ Loops /\ forward.kind = "decode" /\ forward.stored
    /\ compute' = IF offloaded THEN Append(compute, Select(forward.layer)) ELSE compute
    /\ forward' = IF forward.layer = Layers THEN NoForward
                  ELSE [forward EXCEPT !.layer = @ + 1, !.stored = FALSE]
    /\ UNCHANGED <<leaseVars, storageVars, slab, copies, seq, releaseVars, faultVars>>

EndExtend ==
    /\ Loops /\ forward.kind = "extend" /\ forward' = NoForward
    /\ UNCHANGED <<leaseVars, storageVars, streamVars, seq, releaseVars, faultVars>>

----------------------------------------------------------------------------
(* The streams (external). A copy waits for its store; what reads a block  *)
(* or stages the next one of a layer waits for the copies of that layer.   *)

\* Mutant: a selection does not wait for the copy of the latest block.
AwaitedStores(x) ==
    IF x.op = "select" THEN {}
    ELSE {i \in DOMAIN copies : copies[i].layer = x.layer /\ copies[i].block < x.block}

\* The copies whose events x was told to wait for.
AwaitedCopies(x) ==
    {i \in DOMAIN copies : copies[i].layer = x.layer /\
        IF x.op = "select" THEN copies[i].block <= x.latest ELSE copies[i].block < x.block}

Runnable == compute # <<>> /\ AwaitedCopies(Head(compute)) = {}

ComputeRuns ==
    /\ Loops /\ Runnable /\ compute' = Tail(compute)
    /\ UNCHANGED <<leaseVars, storageVars, slab, copies, batchVars, releaseVars, faultVars>>

CopyRuns ==
    /\ Loops /\ copies # <<>> /\ Head(copies) \notin ToSet(compute)
    /\ LET c == Head(copies) IN slab' = [slab EXCEPT ![c.layer][c.block] = c.by]
    /\ copies' = Tail(copies)
    /\ UNCHANGED <<leaseVars, storageVars, compute, batchVars, releaseVars, faultVars>>

----------------------------------------------------------------------------
(* Release: release_kv_cache between forwards, in or out of a free group.  *)

OpenGroup ==
    /\ Idle /\ ~group /\ group' = TRUE
    /\ UNCHANGED <<leaseVars, storageVars, streamVars, batchVars, releasing,
                   pending_release, pages, faultVars>>

\* after_release: the owner is free again only when its pages are.
Committed ==
    /\ holder' = Nobody /\ releasing' = FALSE /\ pending_release' = FALSE

\* Mutant: the release waits for neither stream.
DrainedNot == TRUE

\* release waits for the compute stream and for copy_stream.
Drained == compute = <<>> /\ copies = <<>>

\* Mutant: after_release ignores the free group.
AfterReleaseNow == Committed

AfterRelease ==
    IF group THEN releasing' = TRUE /\ pending_release' = TRUE /\ UNCHANGED holder
    ELSE Committed

\* release, the pages, and after_release, of the request that owns the slab.
ReleaseOwner ==
    /\ Idle /\ holder # Nobody /\ pages[holder] = "held" /\ ~releasing
    /\ Drained
    /\ states' = <<>> /\ claimed' = FALSE /\ offloaded' = FALSE
    /\ pages' = [pages EXCEPT ![holder] = IF group THEN "grouped" ELSE "none"]
    /\ AfterRelease
    /\ UNCHANGED <<seen, generation, raw_released, buffers, streamVars, batchVars, group,
                   faultVars>>

\* free_group_end, and M02: the flush commits the release that awaits it.
CloseGroup ==
    /\ Idle /\ group /\ group' = FALSE
    /\ pages' = [r \in Rids |-> IF pages[r] = "grouped" THEN "none" ELSE pages[r]]
    /\ IF pending_release THEN Committed ELSE UNCHANGED <<holder, releasing, pending_release>>
    /\ UNCHANGED <<seen, generation, storageVars, streamVars, batchVars, faultVars>>

SingleNext ==
    \/ \E r \in Rids, n \in {MinPrompt - 1, MinPrompt, MinPrompt + 1} : BeginPrefill(r, n)
    \/ \E n \in 1..2 : BeginChunk(n)
    \/ BeginDecode \/ StoreLayer \/ SelectLayer \/ EndExtend
    \/ ComputeRuns \/ CopyRuns
    \/ OpenGroup \/ ReleaseOwner \/ CloseGroup

----------------------------------------------------------------------------
(* Properties.                                                             *)

\* A forward runs on the storage its kind needs: a prefill, or a decode that
\* did not offload, on raw buffers of every layer; an offloaded decode on the
\* rings of every layer and on states of this very request; none at all after
\* a handoff failed half-way. And when the device comes to a selection, the
\* host has each complete block of that layer, written by this very request.
ForwardMatches ==
    /\ forward # NoForward /\ ~crashed =>
          /\ ~failed /\ holder # Nobody
          /\ \A l \in 1..Layers : buffers[l] = IF offloaded THEN "ring" ELSE "raw"
          /\ offloaded => Len(states) = Layers /\ claimed
    /\ Runnable /\ Head(compute).op = "select" =>
          \A b \in 0..Head(compute).latest : slab[Head(compute).layer][b] = Me

\* The slab and the pages have one owner at a time: what is queued on either
\* stream is the present owner's, and while any page of a request is not back
\* with the allocator that request is still the owner, so no other can start.
OneOwner ==
    /\ copies # <<>> \/ compute # <<>> => holder # Nobody /\ claimed
    /\ \A i \in DOMAIN copies : copies[i].by = Me
    /\ \A r \in Rids : pages[r] # "none" /\ ~crashed => holder = r
=============================================================================
