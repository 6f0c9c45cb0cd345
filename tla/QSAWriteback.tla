---------------------------- MODULE QSAWriteback ----------------------------
(***************************************************************************)
(* The K/V of decoding requests, on the device and in the host slabs, and  *)
(* the two CUDA streams that move it (hisparse/single_request.py,          *)
(* hisparse/runtime.py, hisparse/graph.py, hisparse/layout.py).            *)
(*                                                                         *)
(* The calling thread only queues work: a decode step appends operations   *)
(* to the producer stream (the current stream) and copies to the copy      *)
(* stream. Each stream does its work in order; between them only events    *)
(* order anything. Layers have storage of their own and do the same work,  *)
(* so one layer is modelled. A copy is named by its slot, lease and block,  *)
(* and the events before and after it by that name: an operation has the   *)
(* copies the stream waits for before it (after), and the copies that may   *)
(* begin when it is done (ready).                                          *)
(*                                                                         *)
(* Numbers shrink: BlockTokens stands for 4, Hot for 2048, TopK for 512.   *)
(***************************************************************************)
EXTENDS Integers, FiniteSets, Sequences, SequencesExt, Functions

CONSTANTS
    Slots,          \* the physical slots in use
    BlockTokens,    \* tokens of a C4 block
    Hot,            \* blocks of a hot buffer; one more row is the newest block
    TopK,           \* blocks the attention selects
    MaxSeq,         \* capacity: tokens of a request
    MaxGen,         \* how many leases of a slot are explored
    Ahead           \* how many operations the thread runs ahead of the device

ASSUME SizesAssumption ==
    /\ {BlockTokens, Hot, TopK, MaxSeq, MaxGen} \subseteq Nat \ {0}
    /\ TopK <= Hot /\ Ahead \in Nat /\ IsFiniteSet(Slots)

VARIABLES
    graph,              \* whether decode replays graphs (p2-offload with graphs)
    gen,                \* slot -> the generation of its last lease
    seq,                \* slot -> seq_len of its lease, 0 while it has none
    done,               \* slot -> the copy its done event follows, or NoCopy
    graph_copy_done,    \* the copy the shared event follows, or NoCopy
    producer,           \* the operations queued on the producer stream
    copies,             \* the copies queued on the copy stream
    ring,               \* slot -> row -> the token whose K/V it holds
    hot, tokens,        \* slot -> row -> the block there, and its number or -1
    host,               \* slot -> block -> what the slab holds
    compact             \* slot -> what the attention last read

hostVars == <<graph, gen, seq, done, graph_copy_done>>
vars == <<hostVars, producer, copies, ring, hot, tokens, host, compact>>

NoCopy == [slot |-> 0, gen |-> 0, block |-> -1]
Copy(s, t) == [slot |-> s, gen |-> gen[s], block |-> t \div BlockTokens - 1]

Rows == 1..BlockTokens
Blocks == 0..(MaxSeq \div BlockTokens - 1)

\* A token is known by the generation of its lease and its position.
Zero == <<0, 0>>
Zeros == [i \in Rows |-> Zero]
Block(s, b) == [i \in Rows |-> <<gen[s], b * BlockTokens + i>>]
Closed(t) == t % BlockTokens = 0
NothingRead == [len |-> 0, blocks |-> <<>>, tail |-> <<>>]

Init ==
    /\ graph \in BOOLEAN
    /\ gen = [s \in Slots |-> 0] /\ seq = [s \in Slots |-> 0]
    /\ done = [s \in Slots |-> NoCopy] /\ graph_copy_done = NoCopy
    /\ producer = <<>> /\ copies = <<>>
    /\ ring = [s \in Slots |-> [i \in Rows |-> Zero]]
    /\ hot = [s \in Slots |-> [i \in 0..Hot |-> Zeros]]
    /\ tokens = [s \in Slots |-> [i \in 0..Hot |-> -1]]
    /\ host = [s \in Slots |-> [b \in Blocks |-> Zeros]]
    /\ compact = [s \in Slots |-> NothingRead]

----------------------------------------------------------------------------
(* Handoff and release: the thread waits for the device.                   *)

\* Mutant: the resident table of the slot is not reset.
StagedTokensKept(s, blocks) ==
    [i \in 0..Hot |-> IF i = Hot /\ blocks > 0 THEN blocks - 1
                      ELSE IF blocks <= Hot /\ i < blocks THEN i ELSE tokens[s][i]]

\* make_state and stage_short_prefix: a prefix that fits is wholly resident,
\* a longer one not at all; the newest row holds the last block.
StagedTokens(s, blocks) ==
    [i \in 0..Hot |-> IF i = Hot /\ blocks > 0 THEN blocks - 1
                      ELSE IF blocks <= Hot /\ i < blocks THEN i ELSE -1]

\* A new lease is prefilled and handed off: its blocks to the host, its tail
\* to the ring. The thread waits for the producer stream, and for the copy
\* stream too when there is a block to copy.
Handoff(s, length) ==
    /\ seq[s] = 0 /\ gen[s] < MaxGen
    /\ LET blocks == length \div BlockTokens
           tail == length % BlockTokens
           lease == gen[s] + 1
           block(b) == [i \in Rows |-> <<lease, b * BlockTokens + i>>]
           staged == StagedTokens(s, blocks)
       IN  /\ producer = <<>> /\ (blocks > 0 => copies = <<>>)
           /\ gen' = [gen EXCEPT ![s] = lease]
           /\ host' = [host EXCEPT ![s] =
                 [b \in Blocks |-> IF b < blocks THEN block(b) ELSE host[s][b]]]
           /\ ring' = [ring EXCEPT ![s] =
                 [i \in Rows |-> IF i <= tail THEN <<lease, blocks * BlockTokens + i>> ELSE Zero]]
           /\ tokens' = [tokens EXCEPT ![s] = staged]
           /\ hot' = [hot EXCEPT ![s] = [i \in 0..Hot |->
                 IF staged[i] \in 0..(blocks - 1) THEN block(staged[i]) ELSE Zeros]]
    /\ seq' = [seq EXCEPT ![s] = length]
    /\ compact' = [compact EXCEPT ![s] = NothingRead]
    /\ UNCHANGED <<graph, done, graph_copy_done, producer, copies>>

\* Mutant: only the terminal event is waited for.
DrainedProducer(s) == producer = <<>>

\* The drain: the terminal event and the done events of the lease's layers.
Drained(s) == producer = <<>> /\ ~Contains(copies, done[s])

Release(s) ==
    /\ seq[s] # 0
    /\ Drained(s)
    /\ seq' = [seq EXCEPT ![s] = 0]
    /\ done' = [done EXCEPT ![s] = NoCopy]
    /\ UNCHANGED <<graph, gen, graph_copy_done, producer, copies, ring, hot, tokens,
                   host, compact>>

----------------------------------------------------------------------------
(* A decode step of a batch, as it is queued.                              *)

\* Requests in some order.
Orders(S) == {order \in [1..Cardinality(S) -> S] : IsInjective(order)}

\* Mutant: nothing is waited for.
AwaitedNever(copy) == {}

\* current_stream.wait_event, if there is an event to wait for.
Awaited(copy) == {copy} \ {NoCopy}

\* One operation for each slot of the batch.
Each(batch, op, after) ==
    [i \in 1..Len(batch) |-> [op |-> op, slot |-> batch[i], seq |-> seq[batch[i]] + 1,
                              after |-> after, ready |-> {}]]

Closing(batch) == {s \in ToSet(batch) : Closed(seq[s] + 1)}
CopiesOf(closing) == [i \in 1..Len(closing) |-> Copy(closing[i], seq[closing[i]] + 1)]

\* An event that the producer records for copies.
RecordFor(copied) ==
    <<[op |-> "record", slot |-> 0, seq |-> 0, after |-> {}, ready |-> copied]>>

\* after_store of the requests whose token closes a block: each waits for the
\* last copy of its own, and records the event of the new one.
CloseEager(closing) ==
    [i \in 1..Len(closing) |->
        LET s == closing[i]
        IN  [op |-> "close", slot |-> s, seq |-> seq[s] + 1, after |-> Awaited(done[s]),
             ready |-> {Copy(s, seq[s] + 1)}]]

DoneAfter(closing) ==
    [s \in Slots |-> IF Contains(closing, s) THEN Copy(s, seq[s] + 1) ELSE done[s]]

DoneOf(batch, closing) == UNION {Awaited(DoneAfter(closing)[s]) : s \in ToSet(batch)}

\* Mutant: the copies are submitted after the attention.
EagerLate(batch, closing) ==
    Each(batch, "store", {}) \o Each(closing, "close", {})
      \o Each(batch, "resolve", DoneOf(batch, closing)) \o RecordFor(ToSet(CopiesOf(closing)))

\* _store_kv, then after_store of each request, then selected, which waits for
\* every request's last copy, the new ones too, before it resolves.
Eager(batch, closing) ==
    Each(batch, "store", {}) \o CloseEager(closing)
      \o Each(batch, "resolve", DoneOf(batch, closing))

\* Mutant: the replay waits for the copies that follow it.
ReplayLate(batch, closing) ==
    Each(batch, "store", {}) \o Each(closing, "close", {})
      \o Each(batch, "resolve", ToSet(CopiesOf(closing)))
      \o RecordFor(ToSet(CopiesOf(closing)))

\* prepare_graph_replay waits for the last copies before all that the graph
\* does: it stores, closes and resolves; finish_graph_replay records one event
\* for all its copies.
Replay(batch, closing) ==
    LET last == Awaited(graph_copy_done)
    IN  Each(batch, "store", last) \o Each(closing, "close", last)
          \o Each(batch, "resolve", last) \o RecordFor(ToSet(CopiesOf(closing)))

Advance(batch) == [s \in Slots |-> IF Contains(batch, s) THEN seq[s] + 1 ELSE seq[s]]

\* begin_batch refuses a step beyond the capacity.
Steppable(batch) ==
    /\ Len(producer) <= Ahead
    /\ \A s \in ToSet(batch) : seq[s] \in 1..(MaxSeq - 1)

EagerStep(batch, closing) ==
    /\ ~graph
    /\ Steppable(batch)
    /\ producer' = producer \o Eager(batch, closing)
    /\ copies' = copies \o CopiesOf(closing)
    /\ done' = DoneAfter(closing)
    /\ seq' = Advance(batch)
    /\ UNCHANGED <<graph, gen, graph_copy_done, ring, hot, tokens, host, compact>>

\* One event follows the last copy of the replay; whoever closed a block in
\* this replay or an earlier one has this event for its done.
GraphStep(batch, closing) ==
    /\ graph
    /\ Steppable(batch)
    /\ producer' = producer \o Replay(batch, closing)
    /\ copies' = copies \o CopiesOf(closing)
    /\ LET last == IF closing = <<>> THEN graph_copy_done ELSE Last(CopiesOf(closing))
       IN  /\ graph_copy_done' = last
           /\ done' = [s \in Slots |-> IF Contains(closing, s) \/ done[s] # NoCopy
                                      THEN last ELSE NoCopy]
    /\ seq' = Advance(batch)
    /\ UNCHANGED <<graph, gen, ring, hot, tokens, host, compact>>

----------------------------------------------------------------------------
(* The streams (the device, external) do what was queued.                  *)

\* The next operation runs when the copies waited for before it are done.
NextOp(op) ==
    /\ producer # <<>> /\ Head(producer).op = op
    /\ \A copy \in Head(producer).after : ~Contains(copies, copy)
    /\ producer' = Tail(producer)

Record ==
    /\ NextOp("record")
    /\ UNCHANGED <<hostVars, copies, ring, hot, tokens, host, compact>>

\* The new token goes to its row of the ring (write_locations, ring_loc).
Store ==
    /\ NextOp("store")
    /\ LET s == Head(producer).slot
           t == Head(producer).seq
       IN  ring' = [ring EXCEPT ![s][1 + ((t - 1) % BlockTokens)] = <<gen[s], t>>]
    /\ UNCHANGED <<hostVars, copies, hot, tokens, host, compact>>

\* Mutant: a block among the first Hot is not put in its own row.
ClosedRowsNewest(block) == {Hot}

\* The rows of the hot buffer that a closed block goes to.
ClosedRows(block) == {Hot} \cup (IF block < Hot THEN {block} ELSE {})

Close ==
    /\ NextOp("close")
    /\ LET s == Head(producer).slot
           block == Head(producer).seq \div BlockTokens - 1
       IN  /\ hot' = [hot EXCEPT ![s] = [i \in 0..Hot |->
                         IF i \in ClosedRows(block) THEN ring[s] ELSE hot[s][i]]]
           /\ tokens' = [tokens EXCEPT ![s] = [i \in 0..Hot |->
                         IF i \in ClosedRows(block) THEN block ELSE tokens[s][i]]]
    /\ UNCHANGED <<hostVars, copies, ring, host, compact>>

\* load_cache_to_device_buffer_mla (external) finds the selected blocks: where
\* a short request has them, in the newest row, in a row that holds them, or
\* in the host, from where they are loaded over rows not selected.
Placements(s, len, selected) ==
    LET newest == len - 1
        Hit(b) == \E i \in 0..(Hot - 1) : tokens[s][i] = b
        hits == {b \in selected : b # newest /\ Hit(b)}
        misses == {b \in selected : b # newest /\ ~Hit(b)}
        kept == {i \in 0..(Hot - 1) : tokens[s][i] \in hits}
    IN  IF len <= Hot THEN {[b \in selected |-> b]}
        ELSE {row \in [selected -> 0..Hot] :
                /\ newest \in selected => row[newest] = Hot
                /\ \A b \in hits : tokens[s][row[b]] = b /\ row[b] # Hot
                /\ \A b \in misses :
                      /\ row[b] \in (0..(Hot - 1)) \ kept
                      /\ \A c \in selected : row[c] = row[b] => c = b}

\* The blocks that are nowhere in the hot buffer are loaded into their rows;
\* the selected blocks are gathered, and the tail follows.
Gather(s, t, selected, row) ==
    LET loaded == {b \in selected : t \div BlockTokens > Hot /\ tokens[s][row[b]] # b
                                    /\ row[b] # Hot}
        from(i) == CHOOSE b \in loaded : row[b] = i
        into == {row[b] : b \in loaded}
    IN  /\ hot' = [hot EXCEPT ![s] = [i \in 0..Hot |->
              IF i \in into THEN host[s][from(i)] ELSE hot[s][i]]]
        /\ tokens' = [tokens EXCEPT ![s] = [i \in 0..Hot |->
              IF i \in into THEN from(i) ELSE tokens[s][i]]]
        /\ compact' = [compact EXCEPT ![s] =
              [len |-> t, blocks |-> [b \in selected |-> hot'[s][row[b]]],
               tail |-> SubSeq(ring[s], 1, t % BlockTokens)]]

\* selected and finish_selected.
Resolve ==
    /\ NextOp("resolve")
    /\ LET s == Head(producer).slot
           t == Head(producer).seq
           len == t \div BlockTokens
       IN  \E selected \in SUBSET (0..(len - 1)) :
              /\ Cardinality(selected) = IF len < TopK THEN len ELSE TopK
              /\ \E row \in Placements(s, len, selected) : Gather(s, t, selected, row)
    /\ UNCHANGED <<hostVars, copies, ring, host>>

\* The copy stream waits for the event the producer recorded for the copy.
Ready(copy) == \A i \in DOMAIN producer : copy \notin producer[i].ready

CopyToHost ==
    /\ copies # <<>>
    /\ LET copy == Head(copies)
       IN  /\ Ready(copy)
           /\ host' = [host EXCEPT ![copy.slot][copy.block] = hot[copy.slot][Hot]]
    /\ copies' = Tail(copies)
    /\ UNCHANGED <<hostVars, producer, ring, hot, tokens, compact>>

----------------------------------------------------------------------------

Next ==
    \/ \E s \in Slots : (\E length \in 1..MaxSeq : Handoff(s, length)) \/ Release(s)
    \/ \E batch \in UNION {Orders(S) : S \in SUBSET Slots \ {{}}} :
          \E closing \in Orders(Closing(batch)) :
             EagerStep(batch, closing) \/ GraphStep(batch, closing)
    \/ Record \/ Store \/ Close \/ Resolve \/ CopyToHost

Spec == Init /\ [][Next]_vars

----------------------------------------------------------------------------
(* What the streams keep true.                                             *)

\* The resident table does not lie: a row holds the block it is said to hold.
TableTrue ==
    \A s \in Slots : seq[s] # 0 =>
       \A i \in 0..Hot : tokens[s][i] # -1 => hot[s][i] = Block(s, tokens[s][i])

\* What the attention reads is the lease's own K/V: every selected block, from
\* wherever it was fetched, and the unfinished block behind them; and what it
\* will find by the resident table is what the table says.
CompactExact ==
    /\ TableTrue
    /\ \A s \in Slots :
          LET read == compact[s] IN
          /\ \A b \in DOMAIN read.blocks : read.blocks[b] = Block(s, b)
          /\ \A i \in DOMAIN read.tail :
                read.tail[i] = <<gen[s], read.len - Len(read.tail) + i>>

\* The device has closed block b of the lease in slot s.
Stored(s, b) ==
    /\ b < seq[s] \div BlockTokens
    /\ \A i \in DOMAIN producer : producer[i].op = "close" /\ producer[i].slot = s =>
          producer[i].seq \div BlockTokens > b + 1

\* A closed block is never lost: it is in the host, or its copy is queued and
\* the newest row still holds it. Copies are queued for live leases only.
NoBlockLost ==
    /\ \A s \in Slots : \A b \in Blocks :
          Stored(s, b) =>
             \/ host[s][b] = Block(s, b)
             \/ Contains(copies, [slot |-> s, gen |-> gen[s], block |-> b]) /\ hot[s][Hot] = Block(s, b)
    /\ \A i \in DOMAIN copies : seq[copies[i].slot] # 0

\* The streams never wait for each other in a circle.
StreamsMove ==
    \/ producer # <<>> /\ \A copy \in Head(producer).after : ~Contains(copies, copy)
    \/ copies # <<>> /\ Ready(Head(copies))
    \/ producer = <<>> /\ copies = <<>>

=============================================================================
