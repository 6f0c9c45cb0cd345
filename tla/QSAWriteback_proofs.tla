------------------------ MODULE QSAWriteback_proofs ------------------------
(***************************************************************************)
(* Decode and writeback on two streams, proved for any slots, block size,  *)
(* hot buffer, selection, capacity and number of leases, and however far   *)
(* the thread runs ahead of the device: what the attention reads is the    *)
(* lease's own K/V, no closed block is lost, and the streams never wait    *)
(* for each other.                                                         *)
(*                                                                         *)
(* None of this can be seen from the device alone, because what it does    *)
(* next was queued long before. The invariant therefore says               *)
(*   - what the producer stream still holds: the store, close and resolve  *)
(*     of every step in order, the operations that are missing being those *)
(*     already done (QueueOK);                                             *)
(*   - what the device holds, from the last operation done (DeviceOK);     *)
(*   - what each queued copy, and each done event, stands for (CopiesOK);  *)
(*   - which operation waits for which copy, and which copy for which      *)
(*     operation: always one queued before it (StreamsOK).                 *)
(* A decode step appends to both streams, so most of what follows is about *)
(* queues that grow at one end and are eaten at the other.                 *)
(***************************************************************************)
EXTENDS QSAWriteback, TLAPS, SequenceTheorems, FiniteSetTheorems

\* The operations of a decode step on a slot, in their order.
Work == {"store", "close", "resolve"}
Rank == [op \in Work |-> IF op = "store" THEN 1 ELSE IF op = "close" THEN 2 ELSE 3]

Copies == [slot : Slots, gen : Nat, block : Blocks]
Ops == [op : Work \cup {"record"}, slot : Slots \cup {0}, seq : Nat,
        after : SUBSET Copies, ready : SUBSET Copies]
Tokens == Nat \X Nat
Values == [Rows -> Tokens]

TypeOK ==
    /\ graph \in BOOLEAN
    /\ gen \in [Slots -> Nat] /\ seq \in [Slots -> 0..MaxSeq]
    /\ done \in [Slots -> Copies \cup {NoCopy}] /\ graph_copy_done \in Copies \cup {NoCopy}
    /\ producer \in Seq(Ops) /\ copies \in Seq(Copies)
    /\ \A i \in DOMAIN producer : producer[i].op \in Work => producer[i].slot \in Slots
    /\ ring \in [Slots -> Values]
    /\ hot \in [Slots -> [0..Hot -> Values]] /\ tokens \in [Slots -> [0..Hot -> Int]]
    /\ host \in [Slots -> [Blocks -> Values]]
    /\ DOMAIN compact = Slots /\ compact = [s \in Slots |-> compact[s]]

Is(i, o, s, t) == producer[i].op = o /\ producer[i].slot = s /\ producer[i].seq = t
Queued(o, s, t) == \E i \in DOMAIN producer : Is(i, o, s, t)
ClosePending(s, b) ==
    \E i \in DOMAIN producer : /\ producer[i].op = "close" /\ producer[i].slot = s
                               /\ producer[i].seq \div BlockTokens = b + 1

\* What is queued for a slot is queued in order.
InOrder ==
    \A i, j \in DOMAIN producer :
       i < j /\ producer[i].op \in Work /\ producer[j].op \in Work
             /\ producer[i].slot = producer[j].slot =>
          \/ producer[i].seq < producer[j].seq
          \/ producer[i].seq = producer[j].seq /\ Rank[producer[i].op] < Rank[producer[j].op]

\* It belongs to steps that the lease has taken.
Within ==
    \A i \in DOMAIN producer : producer[i].op \in Work =>
       /\ producer[i].seq \in 2..seq[producer[i].slot]
       /\ producer[i].op = "close" => Closed(producer[i].seq)

\* And nothing behind the first of it is missing.
Complete ==
    \A i \in DOMAIN producer : producer[i].op \in Work =>
       \A t \in producer[i].seq..seq[producer[i].slot], o \in Work :
          /\ o = "close" => Closed(t)
          /\ t > producer[i].seq \/ Rank[o] >= Rank[producer[i].op]
          => Queued(o, producer[i].slot, t)

QueueOK == InOrder /\ Within /\ Complete

\* The last token that the device has stored.
LastStored(s, n) ==
    /\ n \in 1..seq[s] /\ ~Queued("store", s, n)
    /\ n < seq[s] => Queued("store", s, n + 1)

Row(n) == 1 + ((n - 1) % BlockTokens)

\* The ring has the tokens of the open block, and of a full one until it is
\* closed.
RingTrue(s) ==
    \A n \in 1..seq[s] :
       LastStored(s, n) /\ (Closed(n) => Queued("close", s, n)) =>
          \A i \in 1..Row(n) : ring[s][i] = <<gen[s], n - Row(n) + i>>

\* The resident table does not lie.
RowsTrue(s) ==
    seq[s] # 0 =>
       \A i \in 0..Hot : tokens[s][i] # -1 => hot[s][i] = Block(s, tokens[s][i])

\* The blocks of a short request are in their rows.
Resident(s) ==
    \A n \in 1..seq[s] :
       LastStored(s, n) /\ n \div BlockTokens <= Hot =>
          \A b \in 0..(n \div BlockTokens - 1) : ~ClosePending(s, b) => tokens[s][b] = b

\* The newest block is in the newest row.
Newest(s) ==
    \A n \in 1..seq[s] :
       /\ LastStored(s, n) /\ n \div BlockTokens > 0
       /\ ~ClosePending(s, n \div BlockTokens - 1)
       => tokens[s][Hot] = n \div BlockTokens - 1

DeviceAt(s) == RingTrue(s) /\ RowsTrue(s) /\ Resident(s) /\ Newest(s)
DeviceOK == \A s \in Slots : DeviceAt(s)

\* Copies are queued for leases and their blocks.
CopiesLive ==
    \A i \in DOMAIN copies :
       LET s == copies[i].slot IN
       /\ seq[s] # 0 /\ gen[s] = copies[i].gen
       /\ copies[i].block < seq[s] \div BlockTokens

\* A lease's done event, and with graphs the shared one, is behind its copies.
DoneBehind ==
    /\ \A i \in DOMAIN copies : \E j \in DOMAIN copies :
          i <= j /\ copies[j] = done[copies[i].slot]
    /\ graph => /\ \A s \in Slots : done[s] \in {NoCopy, graph_copy_done}
                /\ \A i \in DOMAIN copies : \E j \in DOMAIN copies :
                      i <= j /\ copies[j] = graph_copy_done

\* A block is closed, and a selection resolved, behind the earlier copies.
Waits ==
    \A j \in DOMAIN producer : producer[j].op \in {"close", "resolve"} =>
       \A i \in DOMAIN copies :
          /\ copies[i].slot = producer[j].slot
          /\ copies[i].block + 1 < producer[j].seq \div BlockTokens
          => \E k \in DOMAIN copies : i <= k /\ copies[k] \in producer[j].after

\* What is to be copied stays in the newest row.
HotHeld ==
    \A i \in DOMAIN copies :
       LET s == copies[i].slot IN
       ~ClosePending(s, copies[i].block) => hot[s][Hot] = Block(s, copies[i].block)

\* A block of the lease that has no copy queued is in the host.
InHost ==
    \A s \in Slots : \A b \in 0..(seq[s] \div BlockTokens - 1) :
       ~Contains(copies, [slot |-> s, gen |-> gen[s], block |-> b]) => host[s][b] = Block(s, b)

\* The event that a copy waits for is recorded behind the close.
ReadyBehind ==
    \A i \in DOMAIN copies, j \in DOMAIN producer :
       /\ producer[j].op = "close" /\ producer[j].slot = copies[i].slot
       /\ producer[j].seq \div BlockTokens = copies[i].block + 1
       => \E k \in DOMAIN producer : j <= k /\ copies[i] \in producer[k].ready

\* A copy that was ever queued is not one that a later step will queue.
Known(c) ==
    \/ gen[c.slot] > c.gen
    \/ gen[c.slot] = c.gen /\ (seq[c.slot] = 0 \/ c.block < seq[c.slot] \div BlockTokens)

AllKnown ==
    /\ \A j \in DOMAIN producer : \A c \in producer[j].after \cup producer[j].ready : Known(c)
    /\ \A s \in Slots : done[s] # NoCopy => Known(done[s])
    /\ graph_copy_done # NoCopy => Known(graph_copy_done)

\* Nothing waits for a copy that itself waits for something later.
WaitBehind ==
    \A i, k \in DOMAIN producer, l, m \in DOMAIN copies :
       /\ m <= l /\ copies[l] \in producer[i].after /\ copies[m] \in producer[k].ready
       => k < i

CopiesOK == CopiesLive /\ DoneBehind /\ Waits /\ HotHeld /\ InHost
StreamsOK == ReadyBehind /\ AllKnown /\ WaitBehind

\* What the attention last read was the lease's own.
CompactAt(s) ==
    /\ \A b \in DOMAIN compact[s].blocks : compact[s].blocks[b] = Block(s, b)
    /\ \A i \in DOMAIN compact[s].tail :
          compact[s].tail[i] = <<gen[s], compact[s].len - Len(compact[s].tail) + i>>

CompactTrue == \A s \in Slots : CompactAt(s)

IInv == TypeOK /\ QueueOK /\ DeviceOK /\ CopiesOK /\ StreamsOK /\ CompactTrue
----------------------------------------------------------------------------
(* Blocks and rows.                                                        *)

\* A product grows with its factors.
LEMMA TimesGrows ==
    ASSUME NEW B \in Nat \ {0}, NEW p \in Int, NEW q \in Int, p < q
    PROVE  B * p + B <= B * q
<1>1. q - p - 1 \in Nat /\ B * (q - p - 1) >= 0
  OBVIOUS
<1>2. B * (q - p - 1) = B * q - B * p - B
  OBVIOUS
<1> QED
  BY <1>1, <1>2

\* What an assignment to one entry of a table leaves.
LEMMA Updated ==
    ASSUME NEW S, NEW f, DOMAIN f = S, NEW k \in S, NEW x, NEW g, g = [f EXCEPT ![k] = x]
    PROVE  /\ DOMAIN g = S /\ g = [r \in S |-> g[r]]
           /\ g[k] = x /\ \A r \in S \ {k} : g[r] = f[r]
  OBVIOUS

\* A beginning of a sequence.
LEMMA BeginningIs ==
    ASSUME NEW S, NEW v \in Seq(S), NEW n \in Nat, n <= Len(v)
    PROVE  /\ Len(SubSeq(v, 1, n)) = n /\ DOMAIN SubSeq(v, 1, n) = 1..n
           /\ \A i \in 1..n : SubSeq(v, 1, n)[i] = v[i]
<1>1. PICK w : w = SubSeq(v, 1, n)
  OBVIOUS
<1>2. \A i \in 1..n : v[i] \in S
  OBVIOUS
<1>3. w \in Seq(S) /\ Len(w) = (IF 1 <= n THEN n - 1 + 1 ELSE 0)
      /\ \A i \in 1 .. n - 1 + 1 : w[i] = v[1 + i - 1]
  BY <1>1, <1>2, SubSeqProperties
<1>4. Len(w) = n /\ DOMAIN w = 1..n
  BY <1>3
<1>5. ASSUME NEW i \in 1..n PROVE w[i] = v[i]
  <2>1. i \in 1 .. n - 1 + 1 /\ 1 + i - 1 = i
    OBVIOUS
  <2> QED
    BY <1>3, <2>1
<1> QED
  BY <1>1, <1>4, <1>5

\* Division with a remainder has one answer.
LEMMA DivIs ==
    ASSUME NEW t \in Nat
    PROVE  /\ t \div BlockTokens \in Nat /\ t % BlockTokens \in 0..(BlockTokens - 1)
           /\ t = BlockTokens * (t \div BlockTokens) + (t % BlockTokens)
           /\ \A q \in Int, r \in 0..(BlockTokens - 1) :
                 t = BlockTokens * q + r => q = t \div BlockTokens /\ r = t % BlockTokens
<1>1. BlockTokens \in Nat \ {0}
  BY SizesAssumption
<1>2. t \div BlockTokens \in Nat /\ t % BlockTokens \in 0..(BlockTokens - 1)
      /\ t = BlockTokens * (t \div BlockTokens) + (t % BlockTokens)
  BY <1>1
<1>3. ASSUME NEW q \in Int, NEW r \in 0..(BlockTokens - 1), t = BlockTokens * q + r
      PROVE  q = t \div BlockTokens /\ r = t % BlockTokens
  <2>1. CASE q < t \div BlockTokens
    BY <1>1, <1>2, <1>3, <2>1, TimesGrows
  <2>2. CASE t \div BlockTokens < q
    BY <1>1, <1>2, <1>3, <2>2, TimesGrows
  <2>3. CASE q = t \div BlockTokens
    BY <1>1, <1>2, <1>3, <2>3
  <2> QED
    BY <1>1, <1>2, <1>3, <2>1, <2>2, <2>3
<1> QED
  BY <1>2, <1>3

\* The next token opens a block or is one row further in the open one.
LEMMA NextToken ==
    ASSUME NEW t \in Nat
    PROVE  /\ Closed(t + 1) => (t + 1) \div BlockTokens = t \div BlockTokens + 1
           /\ ~Closed(t + 1) => (t + 1) \div BlockTokens = t \div BlockTokens
           /\ Row(t + 1) = (t % BlockTokens) + 1
           /\ Row(t + 1) \in 1..BlockTokens
           /\ Closed(t + 1) <=> Row(t + 1) = BlockTokens
           /\ ~Closed(t + 1) => Row(t + 1) = (t + 1) % BlockTokens
<1> DEFINE B == BlockTokens
           q == t \div BlockTokens
           r == t % BlockTokens
<1>1. B \in Nat \ {0} /\ q \in Nat /\ r \in 0..(B - 1) /\ t = B * q + r
  BY DivIs, SizesAssumption
<1>2. t + 1 \in Nat
  OBVIOUS
<1>3. CASE r = B - 1
  <2>1. t + 1 = B * (q + 1) + 0
    BY <1>1, <1>3
  <2>2. q + 1 = (t + 1) \div B /\ 0 = (t + 1) % B
    <3>1. \A p \in Int, s \in 0..(B - 1) :
             t + 1 = B * p + s => p = (t + 1) \div B /\ s = (t + 1) % B
      BY <1>2, DivIs
    <3>2. q + 1 \in Int /\ 0 \in 0..(B - 1)
      BY <1>1
    <3> HIDE DEF q, r
    <3> QED
      BY <2>1, <3>1, <3>2, Zenon
  <2> QED
    BY <1>1, <1>3, <2>2 DEF Closed, Row
<1>4. CASE r < B - 1
  <2>1. t + 1 = B * q + (r + 1) /\ r + 1 \in 0..(B - 1)
    BY <1>1, <1>4
  <2>2. q = (t + 1) \div B /\ r + 1 = (t + 1) % B
    <3>1. \A p \in Int, s \in 0..(B - 1) :
             t + 1 = B * p + s => p = (t + 1) \div B /\ s = (t + 1) % B
      BY <1>2, DivIs
    <3>2. q \in Int
      BY <1>1
    <3> HIDE DEF q, r
    <3> QED
      BY <2>1, <3>1, <3>2, Zenon
  <2> QED
    BY <1>1, <1>4, <2>2 DEF Closed, Row
<1> QED
  BY <1>1, <1>3, <1>4

\* More tokens have no fewer blocks, and more when the last one closes one.
LEMMA BlocksGrow ==
    ASSUME NEW m \in Nat, NEW n \in Nat, m <= n
    PROVE  /\ m \div BlockTokens <= n \div BlockTokens
           /\ m < n /\ Closed(n) => m \div BlockTokens < n \div BlockTokens
<1> DEFINE B == BlockTokens
           p == m \div BlockTokens
           q == n \div BlockTokens
           r == m % BlockTokens
           u == n % BlockTokens
<1>1. B \in Nat \ {0} /\ p \in Nat /\ r \in 0..(B - 1) /\ m = B * p + r
      /\ q \in Nat /\ u \in 0..(B - 1) /\ n = B * q + u
  BY DivIs, SizesAssumption
<1>2. (Closed(n) => u = 0)
  BY DEF Closed
<1> HIDE DEF B, p, q, r, u
<1>3. p <= q
  <2>1. CASE q < p
    BY <1>1, <2>1, TimesGrows
  <2> QED
    BY <1>1, <2>1
<1>4. ASSUME m < n, u = 0 PROVE p < q
  <2>1. p = q => m >= n
    BY <1>1, <1>4
  <2> QED
    BY <1>1, <1>3, <1>4, <2>1
<1> QED
  BY <1>2, <1>3, <1>4 DEF p, q

\* The tokens of a closed block, by their rows.
LEMMA BlockOf ==
    ASSUME NEW t \in Nat
    PROVE  /\ (t \div BlockTokens) * BlockTokens = t - (t % BlockTokens)
           /\ Closed(t) => (t \div BlockTokens - 1) * BlockTokens = t - BlockTokens
<1> DEFINE B == BlockTokens
           q == t \div BlockTokens
           r == t % BlockTokens
<1>1. B \in Nat \ {0} /\ q \in Nat /\ r \in 0..(B - 1) /\ t = B * q + r
  BY DivIs, SizesAssumption
<1>2. Closed(t) => r = 0
  BY DEF Closed
<1> HIDE DEF B, q, r
<1>3. q * B = B * q /\ (q - 1) * B = B * q - B
  BY <1>1
<1> QED
  BY <1>1, <1>2, <1>3 DEF B, q, r

----------------------------------------------------------------------------
(* The producer stream does its next operation.                            *)

Pop ==
    /\ producer # <<>> /\ producer' = Tail(producer)
    /\ UNCHANGED <<hostVars, copies>>

\* What is left of a queue.
LEMMA TailIs ==
    ASSUME NEW S, NEW q \in Seq(S), q # <<>>
    PROVE  /\ Tail(q) \in Seq(S) /\ Head(q) = q[1] /\ 1 \in DOMAIN q /\ q[1] \in S
           /\ \A i \in DOMAIN Tail(q) : /\ i \in Nat \ {0} /\ i + 1 \in DOMAIN q
                                        /\ Tail(q)[i] = q[i + 1]
           /\ \A i \in DOMAIN q : /\ i \in Nat \ {0}
                                  /\ i # 1 => i - 1 \in DOMAIN Tail(q) /\ Tail(q)[i - 1] = q[i]
<1>1. Tail(q) \in Seq(S) /\ Head(q) = q[1] /\ Len(q) \in Nat /\ DOMAIN q = 1..Len(q)
  OBVIOUS
<1>2. Len(q) # 0
  BY EmptySeq
<1>3. Len(Tail(q)) = Len(q) - 1 /\ DOMAIN Tail(q) = 1..(Len(q) - 1)
  BY <1>1, <1>2
<1>4. ASSUME NEW i \in 1..(Len(q) - 1) PROVE Tail(q)[i] = q[i + 1]
  BY <1>1, <1>2, <1>3
<1> QED
  BY <1>1, <1>2, <1>3, <1>4

\* The operations left were queued behind the one done.
LEMMA PopIs ==
    ASSUME TypeOK, Pop
    PROVE  /\ producer' \in Seq(Ops) /\ Head(producer) = producer[1] /\ 1 \in DOMAIN producer
           /\ \A i \in DOMAIN producer' : /\ i \in Nat \ {0} /\ i + 1 \in DOMAIN producer
                                          /\ producer'[i] = producer[i + 1]
           /\ \A i \in DOMAIN producer : /\ i \in Nat \ {0}
                                         /\ i # 1 => /\ i - 1 \in DOMAIN producer'
                                                     /\ producer'[i - 1] = producer[i]
  BY TailIs DEF TypeOK, Pop

\* What an operation is.
LEMMA OpIs ==
    ASSUME TypeOK, NEW i \in DOMAIN producer
    PROVE  /\ i \in Nat \ {0} /\ producer[i] \in Ops
           /\ producer[i].seq \in Nat /\ producer[i].op \in Work \cup {"record"}
           /\ producer[i].op \in Work => producer[i].slot \in Slots
           /\ producer[i].after \subseteq Copies /\ producer[i].ready \subseteq Copies
<1>1. producer[i] \in Ops /\ i \in Nat \ {0}
  BY DEF TypeOK
<1> QED
  BY <1>1 DEF Ops, TypeOK

\* What is done is no longer queued, and nothing else changes.
LEMMA PopQueued ==
    ASSUME TypeOK, Pop, NEW o, NEW s, NEW t
    PROVE  /\ Queued(o, s, t)' => Queued(o, s, t)
           /\ Queued(o, s, t) => Queued(o, s, t)' \/ Is(1, o, s, t)
<1>1. ASSUME NEW i \in DOMAIN producer, Is(i, o, s, t), ~Is(1, o, s, t)
      PROVE  Queued(o, s, t)'
  BY <1>1, PopIs DEF Queued, Is
<1>2. ASSUME NEW i \in DOMAIN producer', Is(i, o, s, t)'
      PROVE  Queued(o, s, t)
  BY <1>2, PopIs DEF Queued, Is
<1> QED
  BY <1>1, <1>2 DEF Queued

\* A close is pending until it is done.
LEMMA PopPending ==
    ASSUME TypeOK, Pop, NEW s, NEW b
    PROVE  /\ ClosePending(s, b)' => ClosePending(s, b)
           /\ ClosePending(s, b) => \/ ClosePending(s, b)'
                                    \/ /\ producer[1].op = "close" /\ producer[1].slot = s
                                       /\ producer[1].seq \div BlockTokens = b + 1
  BY PopIs DEF ClosePending

\* What is left is in order, belongs to its steps, and misses nothing.
LEMMA PopQueue == TypeOK /\ QueueOK /\ Pop => QueueOK'
<1> SUFFICES ASSUME TypeOK, QueueOK, Pop PROVE QueueOK'
  OBVIOUS
<1>1. InOrder'
  <2> SUFFICES ASSUME NEW i \in DOMAIN producer', NEW j \in DOMAIN producer', i < j,
                      producer'[i].op \in Work, producer'[j].op \in Work,
                      producer'[i].slot = producer'[j].slot
               PROVE  \/ producer'[i].seq < producer'[j].seq
                      \/ /\ producer'[i].seq = producer'[j].seq
                         /\ Rank[producer'[i].op] < Rank[producer'[j].op]
    BY DEF InOrder
  <2>1. i + 1 \in DOMAIN producer /\ j + 1 \in DOMAIN producer /\ i + 1 < j + 1
        /\ producer'[i] = producer[i + 1] /\ producer'[j] = producer[j + 1]
    BY PopIs
  <2> QED
    BY <2>1 DEF QueueOK, InOrder
<1>2. Within'
  BY PopIs DEF QueueOK, Within, Pop, hostVars
<1>3. Complete'
  <2>1. ASSUME NEW i \in DOMAIN producer', producer'[i].op \in Work,
               NEW t \in producer'[i].seq..seq[producer'[i].slot], NEW o \in Work,
               o = "close" => Closed(t),
               t > producer'[i].seq \/ Rank[o] >= Rank[producer'[i].op],
               NEW s, s = producer'[i].slot
        PROVE  Queued(o, s, t)'
    <3>1. i + 1 \in DOMAIN producer /\ producer'[i] = producer[i + 1] /\ 1 < i + 1
          /\ 1 \in DOMAIN producer
      BY PopIs
    <3>2. Queued(o, s, t)
      BY <2>1, <3>1 DEF QueueOK, Complete
    <3>3. ~Is(1, o, s, t)
      <4> SUFFICES ASSUME Is(1, o, s, t) PROVE FALSE
        OBVIOUS
      <4>1. \/ t < producer[i + 1].seq
            \/ t = producer[i + 1].seq /\ Rank[o] < Rank[producer[i + 1].op]
        BY <2>1, <3>1 DEF QueueOK, InOrder, Is
      <4>2. Rank[o] \in Nat /\ Rank[producer[i + 1].op] \in Nat
        BY <2>1, <3>1 DEF Rank, Work
      <4>3. t \in Nat /\ producer[i + 1].seq \in Nat
        BY <3>1, OpIs DEF Is
      <4> QED
        BY <2>1, <3>1, <4>1, <4>2, <4>3
    <3> QED
      BY <3>2, <3>3, PopQueued
  <2> QED
    BY <2>1 DEF Complete, Queued, Is, Pop, hostVars
<1> QED
  BY <1>1, <1>2, <1>3 DEF QueueOK

\* The copies are about the same leases, and still waited for and behind
\* their events.
LEMMA PopCopies ==
    TypeOK /\ CopiesLive /\ DoneBehind /\ Waits /\ ReadyBehind /\ AllKnown /\ WaitBehind /\ Pop
      => (CopiesLive /\ DoneBehind /\ Waits /\ ReadyBehind /\ AllKnown /\ WaitBehind)'
<1> SUFFICES ASSUME TypeOK, CopiesLive, DoneBehind, Waits, ReadyBehind, AllKnown, WaitBehind, Pop
             PROVE  (CopiesLive /\ DoneBehind /\ Waits /\ ReadyBehind /\ AllKnown /\ WaitBehind)'
  OBVIOUS
<1>1. CopiesLive' /\ DoneBehind'
  BY DEF Pop, hostVars, CopiesLive, DoneBehind
<1>2. Waits'
  BY PopIs DEF Pop, hostVars, Waits
<1>3. ReadyBehind'
  <2> SUFFICES ASSUME NEW i \in DOMAIN copies, NEW j \in DOMAIN producer',
                      producer'[j].op = "close", producer'[j].slot = copies[i].slot,
                      producer'[j].seq \div BlockTokens = copies[i].block + 1
               PROVE  \E k \in DOMAIN producer' : j <= k /\ copies[i] \in producer'[k].ready
    BY DEF ReadyBehind, Pop, hostVars
  <2>1. j + 1 \in DOMAIN producer /\ producer'[j] = producer[j + 1] /\ j \in Nat \ {0}
    BY PopIs
  <2>2. PICK k \in DOMAIN producer : j + 1 <= k /\ copies[i] \in producer[k].ready
    BY <2>1 DEF ReadyBehind
  <2>3. k # 1 /\ k - 1 \in DOMAIN producer' /\ producer'[k - 1] = producer[k] /\ j <= k - 1
    BY <2>1, <2>2, PopIs
  <2> QED
    BY <2>2, <2>3
<1>4. AllKnown'
  BY PopIs DEF Pop, hostVars, AllKnown, Known
<1>5. WaitBehind'
  <2> SUFFICES ASSUME NEW i \in DOMAIN producer', NEW k \in DOMAIN producer',
                      NEW l \in DOMAIN copies, NEW m \in DOMAIN copies, m <= l,
                      copies[l] \in producer'[i].after, copies[m] \in producer'[k].ready
               PROVE  k < i
    BY DEF WaitBehind, Pop, hostVars
  <2>1. i + 1 \in DOMAIN producer /\ producer'[i] = producer[i + 1] /\ i \in Nat
        /\ k + 1 \in DOMAIN producer /\ producer'[k] = producer[k + 1] /\ k \in Nat
    BY PopIs
  <2>2. k + 1 < i + 1
    BY <2>1 DEF WaitBehind
  <2> QED
    BY <2>1, <2>2
<1> QED
  BY <1>1, <1>2, <1>3, <1>4, <1>5

----------------------------------------------------------------------------
(* What the device has done so far.                                        *)

\* Of all positions one is the last stored.
LEMMA LastIsOne ==
    ASSUME TypeOK, QueueOK, NEW s \in Slots, NEW m, NEW n, LastStored(s, m), LastStored(s, n)
    PROVE  m = n
<1>1. ASSUME NEW p, NEW q, LastStored(s, p), LastStored(s, q), p < q PROVE FALSE
  <2>1. p \in Nat /\ q \in Nat /\ seq[s] \in Nat /\ q <= seq[s]
    BY <1>1 DEF LastStored, TypeOK
  <2>2. Queued("store", s, p + 1)
    BY <1>1, <2>1 DEF LastStored
  <2>3. PICK i \in DOMAIN producer : Is(i, "store", s, p + 1)
    BY <2>2 DEF Queued
  <2>4. q \in producer[i].seq..seq[producer[i].slot] /\ producer[i].slot = s
        /\ producer[i].op = "store" /\ producer[i].op \in Work
    BY <1>1, <2>1, <2>3 DEF Is, Work
  <2>5. q > producer[i].seq \/ Rank["store"] >= Rank[producer[i].op]
    BY <2>4 DEF Rank, Work
  <2>6. Queued("store", s, q)
    BY <2>4, <2>5 DEF QueueOK, Complete, Work
  <2> QED
    BY <1>1, <2>6 DEF LastStored
<1>2. m \in Int /\ n \in Int
  BY DEF LastStored, TypeOK
<1> QED
  BY <1>1, <1>2

\* Where the next operation does not work, nothing moves.
LEMMA Elsewhere ==
    ASSUME TypeOK, Pop, NEW s \in Slots,
           producer[1].op \in Work => producer[1].slot # s
    PROVE  /\ \A o \in Work : \A t : Queued(o, s, t)' <=> Queued(o, s, t)
           /\ \A n : LastStored(s, n)' <=> LastStored(s, n)
           /\ \A b : ClosePending(s, b)' <=> ClosePending(s, b)
<1>1. \A o \in Work : \A t : Queued(o, s, t)' <=> Queued(o, s, t)
  BY PopQueued DEF Is
<1>2. \A n : LastStored(s, n)' <=> LastStored(s, n)
  <2> SUFFICES ASSUME NEW n PROVE LastStored(s, n)' <=> LastStored(s, n)
    OBVIOUS
  <2>1. Queued("store", s, n)' <=> Queued("store", s, n)
    BY <1>1 DEF Work
  <2>2. Queued("store", s, n + 1)' <=> Queued("store", s, n + 1)
    BY <1>1 DEF Work
  <2>3. seq'[s] = seq[s]
    BY DEF Pop, hostVars
  <2> QED
    BY <2>1, <2>2, <2>3 DEF LastStored
<1>3. \A b : ClosePending(s, b)' <=> ClosePending(s, b)
  BY PopPending DEF Work
<1> QED
  BY <1>1, <1>2, <1>3

\* A slot whose operation is not the one done, and whose rows stay, is as it was.
LEMMA DeviceElsewhere ==
    ASSUME TypeOK, DeviceOK, Pop, NEW s \in Slots,
           producer[1].op \in Work => producer[1].slot # s,
           ring'[s] = ring[s], hot'[s] = hot[s], tokens'[s] = tokens[s]
    PROVE  DeviceAt(s)'
<1>1. DeviceAt(s)
  BY DEF DeviceOK
<1>2. seq'[s] = seq[s] /\ gen'[s] = gen[s] /\ \A b : Block(s, b)' = Block(s, b)
  BY DEF Pop, hostVars, Block
<1>3. RingTrue(s)'
  BY <1>1, <1>2, Elsewhere DEF DeviceAt, RingTrue, Work
<1>4. RowsTrue(s)'
  BY <1>1, <1>2 DEF DeviceAt, RowsTrue
<1>5. Resident(s)'
  BY <1>1, <1>2, Elsewhere DEF DeviceAt, Resident
<1>6. Newest(s)'
  BY <1>1, <1>2, Elsewhere DEF DeviceAt, Newest
<1> QED
  BY <1>3, <1>4, <1>5, <1>6 DEF DeviceAt

\* What is at the head of the queue says how far the device came.
LEMMA AtHead ==
    ASSUME TypeOK, QueueOK, Pop, NEW o \in Work, NEW s, NEW t, Is(1, o, s, t)
    PROVE  /\ s \in Slots /\ t \in 2..seq[s] /\ seq[s] \in Nat
           /\ o = "close" => Closed(t)
           /\ \A i \in DOMAIN producer' : producer'[i].op \in Work /\ producer'[i].slot = s =>
                 \/ t < producer'[i].seq
                 \/ t = producer'[i].seq /\ Rank[o] < Rank[producer'[i].op]
           /\ o # "store" => LastStored(s, t)
           /\ o = "store" => LastStored(s, t - 1)
           /\ o # "store" => \A n : LastStored(s, n)' <=> LastStored(s, n)
           /\ o = "store" => LastStored(s, t)' /\ \A n : LastStored(s, n)' => n = t
<1>0. producer[1].op = o /\ producer[1].slot = s /\ producer[1].seq = t
  BY DEF Is
<1>1. 1 \in DOMAIN producer
  BY PopIs
<1>2. s \in Slots /\ t \in 2..seq[s] /\ seq[s] \in Nat /\ (o = "close" => Closed(t))
  BY <1>0, <1>1, OpIs DEF QueueOK, Within, TypeOK
<1>3. ASSUME NEW i \in DOMAIN producer, i # 1, producer[i].op \in Work, producer[i].slot = s
      PROVE  \/ t < producer[i].seq
             \/ t = producer[i].seq /\ Rank[o] < Rank[producer[i].op]
  <2>1. 1 < i
    BY <1>3, PopIs
  <2> QED
    BY <1>0, <1>1, <1>3, <2>1 DEF QueueOK, InOrder
<1>4. ASSUME NEW i \in DOMAIN producer', producer'[i].op \in Work, producer'[i].slot = s
      PROVE  \/ t < producer'[i].seq
             \/ t = producer'[i].seq /\ Rank[o] < Rank[producer'[i].op]
  BY <1>3, <1>4, PopIs
<1>5. ASSUME NEW n, n \in Nat, n <= t, Queued("store", s, n)
      PROVE  n = t /\ o = "store"
  <2>1. PICK i \in DOMAIN producer : Is(i, "store", s, n)
    BY <1>5 DEF Queued
  <2>2. CASE i = 1
    BY <1>0, <2>1, <2>2 DEF Is
  <2>3. CASE i # 1
    <3>1. producer[i].op = "store" /\ producer[i].op \in Work /\ producer[i].slot = s /\ producer[i].seq = n
      BY <2>1 DEF Is, Work
    <3>2. t = n /\ Rank[o] < Rank["store"]
      BY <1>2, <1>3, <1>5, <2>3, <3>1
    <3> QED
      BY <3>2 DEF Rank, Work
  <2> QED
    BY <2>2, <2>3
<1>6. ASSUME t < seq[s] PROVE Queued("store", s, t + 1)
  BY <1>0, <1>1, <1>2, <1>6 DEF QueueOK, Complete, Work
<1>7. o # "store" => LastStored(s, t)
  BY <1>2, <1>5, <1>6 DEF LastStored
<1>8. ASSUME o = "store" PROVE LastStored(s, t - 1)
  <2>1. Queued("store", s, t)
    BY <1>0, <1>1, <1>8 DEF Queued, Is
  <2>2. ~Queued("store", s, t - 1)
    BY <1>2, <1>5
  <2>3. t - 1 \in 1..seq[s] /\ (t - 1) + 1 = t
    BY <1>2
  <2> QED
    BY <2>1, <2>2, <2>3 DEF LastStored
<1>9. seq' = seq
  BY DEF Pop, hostVars
<1>10. ASSUME o # "store", NEW n PROVE LastStored(s, n)' <=> LastStored(s, n)
  <2>1. ~Is(1, "store", s, n) /\ ~Is(1, "store", s, n + 1)
    BY <1>0, <1>10 DEF Is
  <2>2. Queued("store", s, n)' <=> Queued("store", s, n)
    BY <2>1, PopQueued
  <2>3. Queued("store", s, n + 1)' <=> Queued("store", s, n + 1)
    BY <2>1, PopQueued
  <2> QED
    BY <1>9, <2>2, <2>3 DEF LastStored
<1>11. ASSUME o = "store" PROVE LastStored(s, t)'
  <2>1. ~Queued("store", s, t)'
    <3> SUFFICES ASSUME NEW i \in DOMAIN producer', Is(i, "store", s, t)' PROVE FALSE
      BY DEF Queued
    <3>1. producer'[i].op = "store" /\ producer'[i].op \in Work /\ producer'[i].slot = s
          /\ producer'[i].seq = t
      BY <1>11 DEF Is, Work
    <3>2. Rank["store"] < Rank["store"]
      BY <1>2, <1>4, <1>11, <3>1
    <3> QED
      BY <3>2 DEF Rank, Work
  <2>2. ASSUME t < seq[s] PROVE Queued("store", s, t + 1)'
    <3>1. Queued("store", s, t + 1)
      BY <1>6, <1>11, <2>2
    <3>2. ~Is(1, "store", s, t + 1)
      BY <1>0, <1>2, <1>11 DEF Is
    <3> QED
      BY <3>1, <3>2, PopQueued
  <2> QED
    BY <1>2, <1>9, <2>1, <2>2 DEF LastStored
<1>12. ASSUME o = "store", NEW n, LastStored(s, n)' PROVE n = t
  <2>1. n \in 1..seq[s] /\ ~Queued("store", s, n)' /\ (n < seq[s] => Queued("store", s, n + 1)')
    BY <1>9, <1>12 DEF LastStored
  <2>2. CASE n < t
    <3>1. PICK i \in DOMAIN producer' : Is(i, "store", s, n + 1)'
      BY <1>2, <2>1, <2>2 DEF Queued
    <3>2. producer'[i].op = "store" /\ producer'[i].op \in Work /\ producer'[i].slot = s
          /\ producer'[i].seq = n + 1
      BY <3>1 DEF Is, Work
    <3>3. t < n + 1 \/ Rank["store"] < Rank["store"]
      BY <1>4, <1>12, <3>2
    <3> QED
      BY <1>2, <2>1, <2>2, <3>3 DEF Rank, Work
  <2>3. CASE t < n
    <3>1. Queued("store", s, n)
      BY <1>0, <1>1, <1>2, <2>1, <2>3 DEF QueueOK, Complete, Work
    <3>2. ~Is(1, "store", s, n)
      BY <1>0, <1>2, <2>3 DEF Is
    <3> QED
      BY <2>1, <3>1, <3>2, PopQueued
  <2> QED
    BY <1>2, <2>1, <2>2, <2>3
<1> QED
  BY <1>2, <1>4, <1>7, <1>8, <1>10, <1>11, <1>12

\* The token that is stored goes behind those of its block.
LEMMA StoreDevice ==
    ASSUME TypeOK, QueueOK, DeviceOK, Pop, NEW s, NEW t, Is(1, "store", s, t),
           ring' = [ring EXCEPT ![s][1 + ((t - 1) % BlockTokens)] = <<gen[s], t>>],
           hot' = hot, tokens' = tokens
    PROVE  DeviceOK'
<1>1. /\ s \in Slots /\ t \in 2..seq[s] /\ seq[s] \in Nat
      /\ LastStored(s, t - 1) /\ LastStored(s, t)' /\ \A n : LastStored(s, n)' => n = t
  BY AtHead DEF Work
<1>2. ring[s] \in Values /\ gen' = gen /\ seq' = seq /\ \A b : Block(s, b)' = Block(s, b)
  BY <1>1 DEF TypeOK, Pop, hostVars, Block
<1>3. t - 1 \in 1..seq[s] /\ t - 1 \in Nat /\ t \in Nat /\ t - 2 \in Nat /\ t - 1 = (t - 2) + 1
      /\ t = (t - 1) + 1
  BY <1>1
<1>4. DeviceAt(s)
  BY <1>1 DEF DeviceOK
<1>5. \A b : ClosePending(s, b)' <=> ClosePending(s, b)
  BY PopPending DEF Is
<1>6. Row(t) \in 1..BlockTokens /\ Row(t) = ((t - 1) % BlockTokens) + 1
  BY <1>3, NextToken
<1>7. ring'[s] = [ring[s] EXCEPT ![Row(t)] = <<gen[s], t>>]
  BY <1>1, <1>2, <1>6 DEF TypeOK, Row
<1>8. ASSUME Closed(t) PROVE t \div BlockTokens = (t - 1) \div BlockTokens + 1
                             /\ ClosePending(s, t \div BlockTokens - 1)
  <2>1. 1 \in DOMAIN producer
    BY PopIs
  <2>2. Queued("close", s, t)
    <3>1. producer[1].op = "store" /\ producer[1].slot = s /\ producer[1].seq = t
          /\ "store" \in Work /\ "close" \in Work
      BY DEF Is, Work
    <3>2. Rank["close"] >= Rank[producer[1].op]
      BY <3>1 DEF Rank, Work
    <3>3. t \in producer[1].seq..seq[producer[1].slot]
      BY <1>1, <3>1
    <3> QED
      BY <1>8, <2>1, <3>1, <3>2, <3>3 DEF QueueOK, Complete
  <2>3. t \div BlockTokens = (t - 1) \div BlockTokens + 1 /\ (t - 1) \div BlockTokens \in Nat
    BY <1>3, <1>8, NextToken, DivIs
  <2> QED
    BY <2>2, <2>3 DEF Queued, Is, ClosePending
<1>9. ~Closed(t) => t \div BlockTokens = (t - 1) \div BlockTokens
  BY <1>3, NextToken
<1>10. t \div BlockTokens \in Nat /\ (t - 1) \div BlockTokens \in Nat
  BY <1>3, DivIs
<1>11. RingTrue(s)'
  <2> SUFFICES ASSUME NEW i \in 1..Row(t) PROVE ring'[s][i] = <<gen[s], t - Row(t) + i>>
    BY <1>1, <1>2 DEF RingTrue, Row
  <2>1. CASE i = Row(t)
    <3>1. ring'[s][Row(t)] = <<gen[s], t>>
      BY <1>2, <1>6, <1>7 DEF Values, Rows
    <3>2. t - Row(t) + Row(t) = t
      BY <1>3, <1>6
    <3> QED
      BY <2>1, <3>1, <3>2
  <2>2. CASE i < Row(t)
    <3>1. ~Closed(t - 1) /\ (t - 1) % BlockTokens = Row(t) - 1
      BY <1>3, <1>6, <2>2, DivIs DEF Closed
    <3>2. Row(t - 1) = Row(t) - 1
      BY <1>3, <3>1, NextToken
    <3>3. ring[s][i] = <<gen[s], (t - 1) - Row(t - 1) + i>>
      BY <1>1, <1>3, <1>4, <1>6, <2>2, <3>1, <3>2 DEF DeviceAt, RingTrue
    <3>4. ring'[s][i] = ring[s][i]
      BY <1>2, <1>6, <1>7, <2>2 DEF Values, Rows
    <3> QED
      BY <1>3, <1>6, <3>2, <3>3, <3>4
  <2> QED
    BY <1>6, <2>1, <2>2
<1>12. RowsTrue(s)'
  BY <1>2, <1>4 DEF DeviceAt, RowsTrue
<1>13. Resident(s)'
  <2> SUFFICES ASSUME t \div BlockTokens <= Hot, NEW b \in 0..(t \div BlockTokens - 1),
                      ~ClosePending(s, b)
               PROVE  tokens[s][b] = b
    BY <1>1, <1>2, <1>5 DEF Resident
  <2>1. b \in 0..((t - 1) \div BlockTokens - 1) /\ (t - 1) \div BlockTokens <= Hot
    BY <1>8, <1>9, <1>10, SizesAssumption
  <2> QED
    BY <1>1, <1>3, <1>4, <2>1 DEF DeviceAt, Resident
<1>14. Newest(s)'
  <2> SUFFICES ASSUME t \div BlockTokens > 0, ~ClosePending(s, t \div BlockTokens - 1)
               PROVE  tokens[s][Hot] = t \div BlockTokens - 1
    BY <1>1, <1>2, <1>5 DEF Newest
  <2>1. t \div BlockTokens = (t - 1) \div BlockTokens
    BY <1>8, <1>9
  <2> QED
    BY <1>1, <1>3, <1>4, <2>1 DEF DeviceAt, Newest
<1>15. DeviceAt(s)'
  BY <1>11, <1>12, <1>13, <1>14 DEF DeviceAt
<1>16. ASSUME NEW r \in Slots, r # s PROVE DeviceAt(r)'
  <2>1. ring'[r] = ring[r] /\ producer[1].slot # r
    BY <1>16 DEF TypeOK, Is
  <2> QED
    BY <2>1, DeviceElsewhere
<1> QED
  BY <1>15, <1>16 DEF DeviceOK

\* A closed block is in the newest row, and in its own if it has one.
LEMMA CloseDevice ==
    ASSUME TypeOK, QueueOK, DeviceOK, Pop, NEW s, NEW t, Is(1, "close", s, t), ring' = ring,
           hot' = [hot EXCEPT ![s] = [i \in 0..Hot |->
                      IF i \in ClosedRows(t \div BlockTokens - 1) THEN ring[s] ELSE hot[s][i]]],
           tokens' = [tokens EXCEPT ![s] = [i \in 0..Hot |->
                      IF i \in ClosedRows(t \div BlockTokens - 1) THEN t \div BlockTokens - 1
                      ELSE tokens[s][i]]]
    PROVE  DeviceOK' /\ hot'[s][Hot] = Block(s, t \div BlockTokens - 1)
<1> DEFINE block == t \div BlockTokens - 1
<1>1. /\ s \in Slots /\ t \in 2..seq[s] /\ seq[s] \in Nat /\ Closed(t)
      /\ LastStored(s, t) /\ \A n : LastStored(s, n)' <=> LastStored(s, n)
  <2>1. "close" \in Work /\ "close" # "store"
    BY DEF Work
  <2> QED
    BY <2>1, AtHead
<1>2. /\ ring[s] \in Values /\ gen' = gen /\ seq' = seq /\ \A b : Block(s, b)' = Block(s, b)
      /\ Hot \in Nat \ {0} /\ BlockTokens \in Nat \ {0}
  BY <1>1, SizesAssumption DEF TypeOK, Pop, hostVars, Block
<1>3. t - 1 \in Nat /\ t \in Nat /\ t = (t - 1) + 1 /\ t \in 1..seq[s]
  BY <1>1
<1>4. DeviceAt(s)
  BY <1>1 DEF DeviceOK
<1>5. block \in Nat /\ block * BlockTokens = t - BlockTokens /\ Row(t) = BlockTokens
      /\ t \div BlockTokens \in Nat
  <2>1. Row(t) = BlockTokens /\ t \div BlockTokens = (t - 1) \div BlockTokens + 1
    <3>1. PICK n \in Nat : n = t - 1 /\ t = n + 1
      BY <1>3
    <3>2. Closed(n + 1)
      BY <1>1, <3>1
    <3>3. Row(n + 1) = BlockTokens /\ (n + 1) \div BlockTokens = n \div BlockTokens + 1
      BY <3>2, NextToken
    <3> QED
      BY <3>1, <3>3
  <2>2. (t - 1) \div BlockTokens \in Nat /\ t \div BlockTokens \in Nat
    BY <1>3, DivIs
  <2>3. block * BlockTokens = t - BlockTokens
    BY <1>1, <1>3, BlockOf
  <2> HIDE DEF block
  <2>4. block = t \div BlockTokens - 1
    BY DEF block
  <2> QED
    BY <2>1, <2>2, <2>3, <2>4
<1>6. ring[s] = Block(s, block)
  <2>1. Queued("close", s, t)
    BY PopIs DEF Queued
  <2>2. ASSUME NEW i \in Rows PROVE ring[s][i] = <<gen[s], block * BlockTokens + i>>
    <3>1. ring[s][i] = <<gen[s], t - Row(t) + i>>
      BY <1>1, <1>3, <1>4, <1>5, <2>1 DEF DeviceAt, RingTrue, Rows
    <3> QED
      BY <1>5, <3>1
  <2> QED
    BY <1>2, <2>2 DEF Block, Values
<1>7. hot'[s] = [i \in 0..Hot |-> IF i \in ClosedRows(block) THEN ring[s] ELSE hot[s][i]]
      /\ tokens'[s] = [i \in 0..Hot |-> IF i \in ClosedRows(block) THEN block ELSE tokens[s][i]]
  BY <1>1 DEF TypeOK
<1>8. Hot \in ClosedRows(block) /\ Hot \in 0..Hot
      /\ \A b \in 0..(Hot - 1) : b \in ClosedRows(block) <=> b = block
  BY <1>2, <1>5 DEF ClosedRows
<1> HIDE DEF block
<1>9. RingTrue(s)'
  <2> SUFFICES ASSUME NEW n \in 1..seq[s], LastStored(s, n), Closed(n) => Queued("close", s, n)'
               PROVE  \A i \in 1..Row(n) : ring[s][i] = <<gen[s], n - Row(n) + i>>
    BY <1>1, <1>2 DEF RingTrue, Row, Closed
  <2>1. Closed(n) => Queued("close", s, n)
    BY PopQueued
  <2> QED
    BY <1>4, <2>1 DEF DeviceAt, RingTrue
<1>10. RowsTrue(s)'
  <2> SUFFICES ASSUME NEW i \in 0..Hot, tokens'[s][i] # -1
               PROVE  hot'[s][i] = Block(s, tokens'[s][i])
    BY <1>2 DEF RowsTrue, Block
  <2>1. CASE i \in ClosedRows(block)
    BY <1>6, <1>7, <2>1
  <2>2. CASE i \notin ClosedRows(block)
    <3>1. tokens'[s][i] = tokens[s][i] /\ hot'[s][i] = hot[s][i]
      BY <1>7, <2>2
    <3>2. seq[s] # 0
      BY <1>1
    <3> QED
      BY <1>4, <3>1, <3>2 DEF DeviceAt, RowsTrue
  <2> QED
    BY <2>1, <2>2
<1>11. \A b : ClosePending(s, b) => ClosePending(s, b)' \/ b + 1 = t \div BlockTokens
  BY PopPending DEF Is
<1>12. Resident(s)'
  <2> SUFFICES ASSUME NEW n \in 1..seq[s], LastStored(s, n), n \div BlockTokens <= Hot,
                      NEW b \in 0..(n \div BlockTokens - 1), ~ClosePending(s, b)'
               PROVE  tokens'[s][b] = b
    BY <1>1, <1>2 DEF Resident
  <2>1. n \div BlockTokens \in Nat /\ b \in 0..(Hot - 1)
    <3>1. n \in Nat /\ Hot \in Nat
      BY <1>2
    <3>2. n \div BlockTokens \in Nat
      BY <3>1, DivIs
    <3> QED
      BY <3>1, <3>2
  <2>2. CASE b = block
    BY <1>2, <1>7, <1>8, <2>1, <2>2
  <2>3. CASE b # block
    <3>1. ~ClosePending(s, b)
      BY <1>5, <1>11, <2>1, <2>3 DEF block
    <3>2. tokens[s][b] = b
      BY <1>4, <3>1 DEF DeviceAt, Resident
    <3> QED
      BY <1>2, <1>7, <1>8, <2>1, <2>3, <3>2
  <2> QED
    BY <2>2, <2>3
<1>13. Newest(s)'
  <2> SUFFICES ASSUME NEW n \in 1..seq[s], LastStored(s, n)
               PROVE  tokens'[s][Hot] = n \div BlockTokens - 1
    BY <1>1, <1>2 DEF Newest
  <2>1. n = t
    BY <1>1, LastIsOne
  <2> QED
    BY <1>7, <1>8, <2>1 DEF block
<1>14. DeviceAt(s)'
  BY <1>9, <1>10, <1>12, <1>13 DEF DeviceAt
<1>15. ASSUME NEW r \in Slots, r # s PROVE DeviceAt(r)'
  <2>1. ring'[r] = ring[r] /\ hot'[r] = hot[r] /\ tokens'[r] = tokens[r] /\ producer[1].slot # r
    BY <1>15 DEF TypeOK, Is
  <2> QED
    BY <2>1, DeviceElsewhere
<1>16. hot'[s][Hot] = Block(s, block)
  BY <1>6, <1>7, <1>8
<1> QED
  BY <1>14, <1>15, <1>16 DEF DeviceOK, block

\* What the attention is given is right, and so is the table behind it.
LEMMA ResolveDevice ==
    ASSUME TypeOK, QueueOK, DeviceOK, Waits, InHost, CompactTrue, Pop, Resolve,
           NEW s, NEW t, Is(1, "resolve", s, t)
    PROVE  /\ DeviceOK' /\ CompactTrue' /\ \A r \in Slots : hot'[r][Hot] = hot[r][Hot]
           /\ hot' \in [Slots -> [0..Hot -> Values]] /\ tokens' \in [Slots -> [0..Hot -> Int]]
           /\ DOMAIN compact' = Slots /\ compact' = [r \in Slots |-> compact'[r]]
<1> DEFINE len == t \div BlockTokens
<1>1. /\ s \in Slots /\ t \in 2..seq[s] /\ seq[s] \in Nat
      /\ LastStored(s, t) /\ \A n : LastStored(s, n)' <=> LastStored(s, n)
  <2>1. "resolve" \in Work /\ "resolve" # "store"
    BY DEF Work
  <2> QED
    BY <2>1, AtHead
<1>2. /\ gen' = gen /\ seq' = seq /\ copies' = copies /\ \A b : Block(s, b)' = Block(s, b)
      /\ Hot \in Nat \ {0} /\ BlockTokens \in Nat \ {0} /\ t \in Nat /\ t - 1 \in Nat
      /\ t = (t - 1) + 1 /\ t \in 1..seq[s] /\ len \in Nat /\ seq[s] # 0
  <2>1. gen' = gen /\ seq' = seq /\ copies' = copies /\ \A b : Block(s, b)' = Block(s, b)
    BY DEF Pop, hostVars, Block
  <2>2. Hot \in Nat \ {0} /\ BlockTokens \in Nat \ {0}
    BY SizesAssumption
  <2>3. t \in Nat /\ t - 1 \in Nat /\ t = (t - 1) + 1 /\ t \in 1..seq[s] /\ seq[s] # 0
    BY <1>1
  <2>4. len \in Nat
    BY <2>3, DivIs
  <2> QED
    BY <2>1, <2>2, <2>3, <2>4
<1>3. /\ 1 \in DOMAIN producer /\ Head(producer) = producer[1]
      /\ producer[1].op = "resolve" /\ producer[1].slot = s /\ producer[1].seq = t
      /\ \A c \in producer[1].after : ~Contains(copies, c)
  <2>1. /\ 1 \in DOMAIN producer /\ Head(producer) = producer[1]
        /\ producer[1].op = "resolve" /\ producer[1].slot = s /\ producer[1].seq = t
    BY PopIs DEF Is
  <2> QED
    BY <2>1 DEF Resolve, NextOp
<1>4. DeviceAt(s)
  BY <1>1 DEF DeviceOK
<1>5. ASSUME NEW b \in Nat, b + 1 <= len PROVE ~ClosePending(s, b)
  <2> SUFFICES ASSUME NEW i \in DOMAIN producer, producer[i].op = "close", producer[i].slot = s,
                      producer[i].seq \div BlockTokens = b + 1
               PROVE  FALSE
    BY DEF ClosePending
  <2>1. i # 1 /\ i \in Nat \ {0} /\ producer[i].seq \in Nat
    BY <1>3, OpIs
  <2>2. Closed(producer[i].seq)
    BY DEF QueueOK, Within, Work
  <2>3. \/ t < producer[i].seq
        \/ t = producer[i].seq /\ Rank["resolve"] < Rank["close"]
    <3>1. 1 < i /\ producer[1].op \in Work /\ producer[i].op \in Work
      BY <1>3, <2>1 DEF Work
    <3> QED
      BY <1>3, <3>1 DEF QueueOK, InOrder
  <2>4. t < producer[i].seq
    BY <2>3 DEF Rank, Work
  <2>5. len < producer[i].seq \div BlockTokens
    BY <1>2, <2>1, <2>2, <2>4, BlocksGrow
  <2> QED
    BY <1>2, <1>5, <2>5
<1>6. ASSUME NEW b \in Nat, b < len - 1 PROVE host[s][b] = Block(s, b)
  <2>1. len <= seq[s] \div BlockTokens /\ seq[s] \div BlockTokens \in Nat
    <3>1. t <= seq[s] /\ t \in Nat /\ seq[s] \in Nat
      BY <1>1
    <3> QED
      BY <3>1, BlocksGrow, DivIs
  <2>2. b \in 0..(seq[s] \div BlockTokens - 1)
    BY <1>2, <1>6, <2>1
  <2> DEFINE c == [slot |-> s, gen |-> gen[s], block |-> b]
  <2>3. ASSUME Contains(copies, c) PROVE FALSE
    <3>1. PICK i \in DOMAIN copies : copies[i] = c
      BY <2>3 DEF Contains, TypeOK
    <3>2. copies[i].slot = producer[1].slot /\ copies[i].block + 1 < producer[1].seq \div BlockTokens
      BY <1>2, <1>3, <1>6, <3>1
    <3>3. PICK k \in DOMAIN copies : copies[k] \in producer[1].after
      BY <1>3, <3>2 DEF Waits
    <3>4. Contains(copies, copies[k])
      <4>1. k \in 1..Len(copies)
        BY DEF TypeOK
      <4> QED
        BY <4>1 DEF Contains
    <3> QED
      BY <1>3, <3>3, <3>4
  <2> QED
    BY <1>1, <2>2, <2>3 DEF InHost
<1>7. \E selected \in SUBSET (0..(len - 1)) :
         \E row \in Placements(s, len, selected) : Gather(s, t, selected, row)
  <2>1. Head(producer).slot = s /\ Head(producer).seq = t
    BY <1>3
  <2> QED
    BY <2>1 DEF Resolve
<1> PICK selected \in SUBSET (0..(len - 1)) :
         \E row \in Placements(s, len, selected) : Gather(s, t, selected, row)
  BY <1>7
<1>8. PICK row \in Placements(s, len, selected) : Gather(s, t, selected, row)
  OBVIOUS
<1> DEFINE loaded == {b \in selected : len > Hot /\ tokens[s][row[b]] # b /\ row[b] # Hot}
           from(i) == CHOOSE b \in loaded : row[b] = i
           into == {row[b] : b \in loaded}
<1>9. /\ hot'[s] = [i \in 0..Hot |-> IF i \in into THEN host[s][from(i)] ELSE hot[s][i]]
      /\ tokens'[s] = [i \in 0..Hot |-> IF i \in into THEN from(i) ELSE tokens[s][i]]
      /\ compact'[s] = [len |-> t, blocks |-> [b \in selected |-> hot'[s][row[b]]],
                        tail |-> SubSeq(ring[s], 1, t % BlockTokens)]
      /\ \A r \in Slots \ {s} : /\ hot'[r] = hot[r] /\ tokens'[r] = tokens[r]
                                /\ compact'[r] = compact[r]
      /\ ring' = ring
  <2> HIDE DEF loaded, from, into, len
  <2>1. /\ hot' = [hot EXCEPT ![s] = [i \in 0..Hot |->
                IF i \in into THEN host[s][from(i)] ELSE hot[s][i]]]
        /\ tokens' = [tokens EXCEPT ![s] = [i \in 0..Hot |->
                IF i \in into THEN from(i) ELSE tokens[s][i]]]
        /\ compact' = [compact EXCEPT ![s] =
                [len |-> t, blocks |-> [b \in selected |-> hot'[s][row[b]]],
                 tail |-> SubSeq(ring[s], 1, t % BlockTokens)]]
    BY <1>8 DEF loaded, from, into, Gather, len
  <2>2. DOMAIN hot = Slots /\ DOMAIN tokens = Slots /\ DOMAIN compact = Slots /\ s \in Slots
    BY <1>1 DEF TypeOK
  <2>3. ring' = ring
    BY DEF Resolve
  <2>4. hot'[s] = [i \in 0..Hot |-> IF i \in into THEN host[s][from(i)] ELSE hot[s][i]]
        /\ \A r \in Slots \ {s} : hot'[r] = hot[r]
    BY <2>1, <2>2, Updated
  <2>5. tokens'[s] = [i \in 0..Hot |-> IF i \in into THEN from(i) ELSE tokens[s][i]]
        /\ \A r \in Slots \ {s} : tokens'[r] = tokens[r]
    BY <2>1, <2>2, Updated
  <2>6. compact'[s] = [len |-> t, blocks |-> [b \in selected |-> hot'[s][row[b]]],
                       tail |-> SubSeq(ring[s], 1, t % BlockTokens)]
        /\ \A r \in Slots \ {s} : compact'[r] = compact[r]
    BY <2>1, <2>2, Updated
  <2> QED
    BY <2>3, <2>4, <2>5, <2>6, Zenon
<1>10. Hot \notin into
  <2>1. \A b \in loaded : row[b] # Hot
    BY Zenon
  <2> HIDE DEF loaded
  <2> QED
    BY <2>1
<1>11. ASSUME NEW i \in into PROVE /\ len > Hot /\ from(i) \in selected /\ row[from(i)] = i
                                   /\ from(i) \in loaded
  BY <1>11
<1>12. len <= Hot => \A b \in selected : row[b] = b
  BY <1>8 DEF Placements
<1>13. ASSUME len > Hot
       PROVE  /\ row \in [selected -> 0..Hot]
              /\ len - 1 \in selected => row[len - 1] = Hot
              /\ \A b \in selected \ {len - 1} :
                    (\E i \in 0..(Hot - 1) : tokens[s][i] = b) => tokens[s][row[b]] = b /\ row[b] # Hot
              /\ \A b \in selected \ {len - 1} :
                    ~(\E i \in 0..(Hot - 1) : tokens[s][i] = b) =>
                       /\ row[b] \in 0..(Hot - 1)
                       /\ \A c \in selected : row[c] = row[b] => c = b
  <2>1. ~(len <= Hot)
    BY <1>2, <1>13
  <2> QED
    BY <1>8, <2>1 DEF Placements
<1>14. ASSUME len > Hot, NEW b \in loaded
       PROVE  /\ b \in Nat /\ b < len - 1
              /\ \A c \in selected : row[c] = row[b] => c = b
  <2>1. b # len - 1
    BY <1>13, <1>14
  <2>2. b \in 0..(len - 1)
    OBVIOUS
  <2>3. ~(\E i \in 0..(Hot - 1) : tokens[s][i] = b)
    <3>1. b \in selected /\ tokens[s][row[b]] # b
      BY Zenon
    <3> HIDE DEF loaded, from, into
    <3> QED
      BY <1>13, <1>14, <2>1, <3>1, Zenon
  <2> QED
    BY <1>2, <1>13, <1>14, <2>1, <2>2, <2>3
<1>15. ASSUME NEW b \in loaded PROVE from(row[b]) = b
  BY <1>11, <1>14
<1> HIDE DEF from
<1>16. ASSUME NEW i \in 0..Hot, i \in into
       PROVE  hot'[s][i] = Block(s, tokens'[s][i])
  <2>1. hot'[s][i] = host[s][from(i)] /\ tokens'[s][i] = from(i)
    BY <1>9, <1>16
  <2>2. from(i) \in Nat /\ from(i) < len - 1
    BY <1>11, <1>14, <1>16
  <2> QED
    BY <1>6, <2>1, <2>2
<1>17. ASSUME NEW i \in 0..Hot, i \notin into
       PROVE  hot'[s][i] = hot[s][i] /\ tokens'[s][i] = tokens[s][i]
  BY <1>9, <1>17
<1>18. Hot \in 0..Hot /\ hot'[s][Hot] = hot[s][Hot] /\ tokens'[s][Hot] = tokens[s][Hot]
  BY <1>2, <1>10, <1>17
<1>19. RingTrue(s)'
  <2> SUFFICES ASSUME NEW n \in 1..seq[s], LastStored(s, n), Closed(n) => Queued("close", s, n)'
               PROVE  \A i \in 1..Row(n) : ring[s][i] = <<gen[s], n - Row(n) + i>>
    BY <1>1, <1>2, <1>9 DEF RingTrue, Row, Closed
  <2>1. Closed(n) => Queued("close", s, n)
    BY PopQueued
  <2> QED
    BY <1>4, <2>1 DEF DeviceAt, RingTrue
<1>20. RowsTrue(s)'
  <2> SUFFICES ASSUME NEW i \in 0..Hot, tokens'[s][i] # -1
               PROVE  hot'[s][i] = Block(s, tokens'[s][i])
    BY <1>2 DEF RowsTrue, Block
  <2>1. CASE i \in into
    BY <1>16, <2>1
  <2>2. CASE i \notin into
    BY <1>2, <1>4, <1>17, <2>2 DEF DeviceAt, RowsTrue
  <2> QED
    BY <2>1, <2>2
<1>21. \A b : ClosePending(s, b)' <=> ClosePending(s, b)
  BY PopPending DEF Is
<1>22. Resident(s)'
  <2> SUFFICES ASSUME NEW n \in 1..seq[s], LastStored(s, n), n \div BlockTokens <= Hot,
                      NEW b \in 0..(n \div BlockTokens - 1), ~ClosePending(s, b)
               PROVE  tokens'[s][b] = b
    BY <1>1, <1>2, <1>21 DEF Resident
  <2>1. n = t
    BY <1>1, LastIsOne
  <2>2. b \notin into /\ b \in 0..Hot
    BY <1>2, <1>11, <2>1
  <2>3. tokens[s][b] = b
    BY <1>4 DEF DeviceAt, Resident
  <2> QED
    BY <1>17, <2>2, <2>3
<1>23. Newest(s)'
  BY <1>1, <1>2, <1>4, <1>18, <1>21 DEF DeviceAt, Newest
<1>24. DeviceAt(s)'
  BY <1>19, <1>20, <1>22, <1>23 DEF DeviceAt
<1>25. ASSUME NEW r \in Slots, r # s PROVE DeviceAt(r)'
  <2>1. ring'[r] = ring[r] /\ hot'[r] = hot[r] /\ tokens'[r] = tokens[r] /\ producer[1].slot # r
    BY <1>3, <1>9, <1>25
  <2> QED
    BY <2>1, DeviceElsewhere
<1>26. ASSUME NEW b \in selected PROVE hot'[s][row[b]] = Block(s, b)
  <2>1. b \in Nat /\ b <= len - 1 /\ b \in 0..(len - 1)
    BY <1>2
  <2>2. CASE len <= Hot
    <3>1. row[b] = b /\ b \in 0..Hot /\ b \notin into
      BY <1>2, <1>11, <1>12, <2>1, <2>2
    <3>2. tokens[s][b] = b
      BY <1>1, <1>2, <1>4, <1>5, <2>1, <2>2 DEF DeviceAt, Resident
    <3>3. hot[s][b] = Block(s, b)
      BY <1>2, <1>4, <2>1, <3>1, <3>2 DEF DeviceAt, RowsTrue
    <3> QED
      BY <1>17, <3>1, <3>3
  <2>3. CASE len > Hot /\ b = len - 1
    <3>1. row[b] = Hot
      BY <1>13, <2>3
    <3>2. tokens[s][Hot] = len - 1
      BY <1>1, <1>2, <1>4, <1>5, <2>1, <2>3 DEF DeviceAt, Newest
    <3>3. hot[s][Hot] = Block(s, b)
      BY <1>2, <1>4, <1>18, <2>1, <2>3, <3>2 DEF DeviceAt, RowsTrue
    <3> QED
      BY <1>18, <3>1, <3>3
  <2>4. CASE len > Hot /\ b # len - 1 /\ \E i \in 0..(Hot - 1) : tokens[s][i] = b
    <3>1. tokens[s][row[b]] = b /\ row[b] \in 0..Hot
      BY <1>13, <2>4
    <3>2. ASSUME row[b] \in into PROVE FALSE
      <4>1. PICK c \in loaded : row[c] = row[b]
        BY <3>2
      <4>2. b = c
        BY <1>14, <2>4, <4>1
      <4> QED
        BY <3>1, <4>1, <4>2
    <3>3. hot[s][row[b]] = Block(s, b)
      BY <1>2, <1>4, <2>1, <3>1 DEF DeviceAt, RowsTrue
    <3> QED
      BY <1>17, <3>1, <3>2, <3>3
  <2>5. CASE len > Hot /\ b # len - 1 /\ ~\E i \in 0..(Hot - 1) : tokens[s][i] = b
    <3>1. row[b] \in 0..(Hot - 1)
      BY <1>13, <2>5
    <3>2. b \in loaded
      BY <1>2, <2>5, <3>1
    <3>3. row[b] \in into /\ row[b] \in 0..Hot /\ from(row[b]) = b
      BY <1>2, <1>15, <3>1, <3>2
    <3>4. hot'[s][row[b]] = host[s][b]
      BY <1>9, <3>3
    <3> QED
      BY <1>6, <1>14, <2>5, <3>2, <3>4
  <2> QED
    BY <1>2, <2>2, <2>3, <2>4, <2>5
<1>27. ASSUME NEW i \in DOMAIN SubSeq(ring[s], 1, t % BlockTokens)
       PROVE  SubSeq(ring[s], 1, t % BlockTokens)[i]
                 = <<gen[s], t - Len(SubSeq(ring[s], 1, t % BlockTokens)) + i>>
  <2> DEFINE r == t % BlockTokens
             tail == SubSeq(ring[s], 1, r)
  <2>1. r \in 0..(BlockTokens - 1)
    BY <1>2, DivIs
  <2>2. ring[s] \in Seq(Tokens) /\ Len(ring[s]) = BlockTokens
    <3>1. ring[s] \in [1..BlockTokens -> Tokens]
      BY <1>1 DEF TypeOK, Values, Rows
    <3> QED
      BY <1>2, <3>1
  <2> HIDE DEF r
  <2>3. Len(tail) = r /\ DOMAIN tail = 1..r /\ \A j \in 1..r : tail[j] = ring[s][j]
    <3>1. PICK v : v = ring[s]
      OBVIOUS
    <3>2. v \in Seq(Tokens) /\ r \in Nat /\ r <= Len(v)
      BY <1>2, <2>1, <2>2, <3>1
    <3> QED
      BY <3>1, <3>2, BeginningIs
  <2>4. i \in 1..r
    BY <2>3 DEF r
  <2>5. ~Closed(t) /\ Row(t) = r
    <3>1. r # 0
      BY <2>1, <2>4
    <3>2. ~Closed(t)
      BY <3>1 DEF r, Closed
    <3>3. ~Closed((t - 1) + 1) => Row((t - 1) + 1) = ((t - 1) + 1) % BlockTokens
      BY <1>2, NextToken
    <3> QED
      BY <1>2, <3>2, <3>3 DEF r
  <2>6. ring[s][i] = <<gen[s], t - Row(t) + i>>
    BY <1>1, <1>2, <1>4, <2>4, <2>5 DEF DeviceAt, RingTrue
  <2> QED
    BY <2>3, <2>4, <2>5, <2>6 DEF r
<1>28. CompactAt(s)'
  <2> HIDE DEF into, loaded
  <2>1. compact'[s].len = t /\ compact'[s].blocks = [b \in selected |-> hot'[s][row[b]]]
        /\ compact'[s].tail = SubSeq(ring[s], 1, t % BlockTokens)
    <3> DEFINE blocks == [b \in selected |-> hot'[s][row[b]]]
               tail == SubSeq(ring[s], 1, t % BlockTokens)
    <3>1. compact'[s] = [len |-> t, blocks |-> blocks, tail |-> tail]
      BY <1>9
    <3> HIDE DEF blocks, tail
    <3>2. compact'[s].len = t /\ compact'[s].blocks = blocks /\ compact'[s].tail = tail
      BY <3>1
    <3> QED
      BY <3>2 DEF blocks, tail
  <2>2. \A b \in DOMAIN compact'[s].blocks : compact'[s].blocks[b] = Block(s, b)'
    <3>1. PICK blocks : blocks = [b \in selected |-> hot'[s][row[b]]]
      OBVIOUS
    <3>2. gen'[s] = gen[s]
      BY <1>2
    <3>3. \A b : Block(s, b)' = Block(s, b)
      BY <3>2 DEF Block
    <3>4. DOMAIN blocks = selected /\ \A b \in selected : blocks[b] = hot'[s][row[b]]
      BY <3>1
    <3>5. \A b \in selected : blocks[b] = Block(s, b)'
      BY <1>26, <3>3, <3>4
    <3> QED
      BY <2>1, <3>1, <3>4, <3>5
  <2>3. \A i \in DOMAIN compact'[s].tail :
           compact'[s].tail[i] = <<gen'[s], compact'[s].len - Len(compact'[s].tail) + i>>
    BY <1>2, <1>27, <2>1
  <2> QED
    BY <2>2, <2>3 DEF CompactAt
<1>29. ASSUME NEW r \in Slots, r # s PROVE CompactAt(r)'
  <2>1. compact'[r] = compact[r] /\ gen' = gen
    BY <1>2, <1>9, <1>29
  <2>2. CompactAt(r)
    BY DEF CompactTrue
  <2> QED
    BY <2>1, <2>2 DEF CompactAt, Block
<1>30. hot' \in [Slots -> [0..Hot -> Values]] /\ tokens' \in [Slots -> [0..Hot -> Int]]
  <2>1. ASSUME NEW i \in into PROVE host[s][from(i)] \in Values /\ from(i) \in Int
    <3>1. from(i) \in Nat /\ from(i) < len - 1
      BY <1>11, <1>14
    <3>2. seq[s] <= MaxSeq /\ t <= MaxSeq /\ MaxSeq \in Nat
      BY <1>1, SizesAssumption DEF TypeOK
    <3>3. len <= MaxSeq \div BlockTokens /\ MaxSeq \div BlockTokens \in Nat
      BY <1>2, <3>2, BlocksGrow, DivIs
    <3>4. from(i) \in Blocks
      BY <1>2, <3>1, <3>3 DEF Blocks
    <3> QED
      BY <1>1, <3>1, <3>4 DEF TypeOK
  <2>2. hot[s] \in [0..Hot -> Values] /\ tokens[s] \in [0..Hot -> Int]
    BY <1>1 DEF TypeOK
  <2> HIDE DEF into, loaded
  <2>3. hot'[s] \in [0..Hot -> Values] /\ tokens'[s] \in [0..Hot -> Int]
    <3>1. /\ hot'[s] = [i \in 0..Hot |-> IF i \in into THEN host[s][from(i)] ELSE hot[s][i]]
          /\ tokens'[s] = [i \in 0..Hot |-> IF i \in into THEN from(i) ELSE tokens[s][i]]
      BY <1>9
    <3>2. ASSUME NEW i \in 0..Hot
          PROVE  /\ (IF i \in into THEN host[s][from(i)] ELSE hot[s][i]) \in Values
                 /\ (IF i \in into THEN from(i) ELSE tokens[s][i]) \in Int
      BY <2>1, <2>2
    <3> QED
      BY <3>1, <3>2
  <2>4. DOMAIN hot' = Slots /\ DOMAIN tokens' = Slots
        /\ hot' = [r \in Slots |-> hot'[r]] /\ tokens' = [r \in Slots |-> tokens'[r]]
    <3>1. DOMAIN hot = Slots /\ DOMAIN tokens = Slots /\ s \in Slots
      BY <1>1 DEF TypeOK
    <3>2. \E x : hot' = [hot EXCEPT ![s] = x]
      BY <1>8, Zenon DEF Gather
    <3>3. \E x : tokens' = [tokens EXCEPT ![s] = x]
      BY <1>8, Zenon DEF Gather
    <3>4. DOMAIN hot' = Slots /\ hot' = [r \in Slots |-> hot'[r]]
      BY <3>1, <3>2, Updated
    <3>5. DOMAIN tokens' = Slots /\ tokens' = [r \in Slots |-> tokens'[r]]
      BY <3>1, <3>3, Updated
    <3> QED
      BY <3>4, <3>5
  <2> QED
    BY <1>9, <2>3, <2>4 DEF TypeOK
<1>31. DOMAIN compact' = Slots /\ compact' = [r \in Slots |-> compact'[r]]
  <2>1. DOMAIN compact = Slots /\ s \in Slots
    BY <1>1 DEF TypeOK
  <2>2. \E x : compact' = [compact EXCEPT ![s] = x]
    BY <1>8, Zenon DEF Gather
  <2> QED
    BY <2>1, <2>2, Updated
<1> QED
  BY <1>9, <1>18, <1>24, <1>25, <1>28, <1>29, <1>30, <1>31 DEF DeviceOK, CompactTrue

\* The closes of the blocks after a queued one are queued.
LEMMA LaterPending ==
    ASSUME TypeOK, QueueOK, NEW i \in DOMAIN producer, producer[i].op = "close",
           NEW b \in Nat, producer[i].seq \div BlockTokens < b + 1,
           b < seq[producer[i].slot] \div BlockTokens
    PROVE  ClosePending(producer[i].slot, b)
<1> DEFINE s == producer[i].slot
           t == producer[i].seq
           u == BlockTokens * (b + 1)
<1>1. BlockTokens \in Nat \ {0} /\ t \in Nat /\ s \in Slots /\ seq[s] \in Nat
      /\ "close" \in Work /\ t \in 2..seq[s]
  <2>1. "close" \in Work
    BY DEF Work
  <2>2. t \in Nat /\ s \in Slots
    BY <2>1, OpIs
  <2>3. t \in 2..seq[s]
    BY <2>1 DEF QueueOK, Within
  <2>4. seq[s] \in Nat
    BY <2>2, SizesAssumption DEF TypeOK
  <2> QED
    BY <2>1, <2>2, <2>3, <2>4, SizesAssumption
<1>2. u \in Nat
  BY <1>1
<1>3. u \div BlockTokens = b + 1 /\ u % BlockTokens = 0
  <2>1. u = BlockTokens * (b + 1) + 0 /\ 0 \in 0..(BlockTokens - 1) /\ b + 1 \in Int
    BY <1>1
  <2>2. \A q \in Int, r \in 0..(BlockTokens - 1) :
           u = BlockTokens * q + r => q = u \div BlockTokens /\ r = u % BlockTokens
    BY <1>2, DivIs
  <2> QED
    BY <2>1, <2>2, Zenon
<1> HIDE DEF u
<1>4. Closed(u)
  BY <1>3 DEF Closed
<1>5. u <= seq[s]
  <2>1. CASE seq[s] < u
    <3>1. seq[s] \div BlockTokens < u \div BlockTokens
      BY <1>1, <1>2, <1>4, <2>1, BlocksGrow
    <3>2. PICK m : m = seq[s] \div BlockTokens
      OBVIOUS
    <3>3. m \in Nat
      BY <1>1, <3>2, DivIs
    <3> QED
      BY <1>3, <3>1, <3>2, <3>3
  <2> QED
    BY <1>1, <1>2, <2>1
<1>6. t < u
  <2>1. CASE u <= t
    <3>1. u \div BlockTokens <= t \div BlockTokens
      BY <1>1, <1>2, <2>1, BlocksGrow
    <3>2. PICK m : m = t \div BlockTokens
      OBVIOUS
    <3>3. m \in Nat /\ m < b + 1
      BY <1>1, <3>2, DivIs
    <3> QED
      BY <1>3, <3>1, <3>2, <3>3
  <2> QED
    BY <1>1, <1>2, <2>1
<1>7. Queued("close", s, u)
  BY <1>1, <1>2, <1>4, <1>5, <1>6 DEF QueueOK, Complete
<1> QED
  BY <1>3, <1>7 DEF Queued, Is, ClosePending

\* What was to be copied is still there after an operation.
LEMMA PopHeld ==
    ASSUME TypeOK, QueueOK, CopiesLive, Waits, HotHeld, Pop,
           \A c \in Head(producer).after : ~Contains(copies, c),
           \A r \in Slots :
              hot'[r][Hot] = IF producer[1].op = "close" /\ producer[1].slot = r
                               THEN Block(r, producer[1].seq \div BlockTokens - 1)
                               ELSE hot[r][Hot]
    PROVE  HotHeld'
<1> SUFFICES ASSUME NEW i \in DOMAIN copies, NEW s, NEW b, s = copies[i].slot, b = copies[i].block,
                    ~ClosePending(s, b)'
             PROVE  hot'[s][Hot] = Block(s, b)
  BY DEF HotHeld, Pop, hostVars, Block
<1>1. s \in Slots /\ b \in Nat /\ copies[i] \in Copies
  <2>1. copies[i] \in Copies
    BY DEF TypeOK
  <2> QED
    BY <2>1 DEF Copies, Blocks
<1>2. 1 \in DOMAIN producer /\ Head(producer) = producer[1]
  BY PopIs
<1>3. CASE ~ClosePending(s, b)
  <2>1. hot[s][Hot] = Block(s, b)
    BY <1>3 DEF HotHeld
  <2>2. CASE ~(producer[1].op = "close" /\ producer[1].slot = s)
    BY <1>1, <2>1, <2>2
  <2>3. CASE producer[1].op = "close" /\ producer[1].slot = s
    <3> DEFINE q == producer[1].seq \div BlockTokens
    <3>1. q \in Nat
      BY <1>2, OpIs, DivIs
    <3>2. q # b + 1
      BY <1>2, <1>3, <2>3 DEF ClosePending
    <3>3. ASSUME b + 1 < q PROVE FALSE
      <4>1. PICK k \in DOMAIN copies : copies[k] \in producer[1].after
        BY <1>2, <2>3, <3>3 DEF Waits
      <4>2. k \in 1..Len(copies)
        BY DEF TypeOK
      <4> QED
        BY <1>2, <4>1, <4>2 DEF Contains
    <3>4. ASSUME q < b + 1 PROVE FALSE
      BY <1>1, <1>2, <1>3, <2>3, <3>4, LaterPending DEF CopiesLive
    <3> QED
      BY <1>1, <3>1, <3>2, <3>3, <3>4
  <2> QED
    BY <2>2, <2>3
<1>4. CASE ClosePending(s, b)
  <2>1. /\ producer[1].op = "close" /\ producer[1].slot = s
        /\ producer[1].seq \div BlockTokens = b + 1
    BY <1>4, PopPending
  <2>2. producer[1].seq \div BlockTokens - 1 = b
    BY <1>1, <2>1
  <2> QED
    BY <1>1, <2>1, <2>2
<1> QED
  BY <1>3, <1>4

\* What an operation leaves alone stays true.
LEMMA PopRest ==
    ASSUME IInv, Pop, host' = host
    PROVE  /\ QueueOK' /\ StreamsOK' /\ CopiesLive' /\ DoneBehind' /\ Waits' /\ InHost'
           /\ 1 \in DOMAIN producer /\ Head(producer) = producer[1]
           /\ producer' \in Seq(Ops)
           /\ \A i \in DOMAIN producer' : producer'[i].op \in Work => producer'[i].slot \in Slots
<1>1. QueueOK'
  BY PopQueue DEF IInv
<1>2. (CopiesLive /\ DoneBehind /\ Waits /\ ReadyBehind /\ AllKnown /\ WaitBehind)'
  BY PopCopies DEF IInv, CopiesOK, StreamsOK
<1>3. InHost'
  BY DEF IInv, CopiesOK, InHost, Pop, hostVars, Block
<1>4. TypeOK
  BY DEF IInv
<1>5. \A i \in DOMAIN producer' : producer'[i].op \in Work => producer'[i].slot \in Slots
  BY <1>4, PopIs DEF TypeOK
<1> QED
  BY <1>1, <1>2, <1>3, <1>4, <1>5, PopIs DEF StreamsOK

\* Recording an event moves no data.
LEMMA RecordStep == IInv /\ Record => IInv'
<1> SUFFICES ASSUME IInv, Record PROVE IInv'
  OBVIOUS
<1>1. Pop /\ host' = host /\ ring' = ring /\ hot' = hot /\ tokens' = tokens /\ compact' = compact
      /\ TypeOK /\ QueueOK /\ DeviceOK /\ CopiesOK /\ CompactTrue
  BY DEF Record, NextOp, Pop, hostVars, IInv
<1>2. producer[1].op = "record" /\ \A c \in Head(producer).after : ~Contains(copies, c)
  BY <1>1, PopRest DEF Record, NextOp
<1>3. TypeOK'
  BY <1>1, PopRest DEF TypeOK, Pop, hostVars
<1>4. DeviceOK'
  BY <1>1, <1>2, DeviceElsewhere DEF DeviceOK, Work
<1>5. HotHeld'
  BY <1>1, <1>2, PopHeld DEF CopiesOK
<1>6. CompactTrue'
  BY <1>1 DEF CompactTrue, CompactAt, Block, Pop, hostVars
<1> QED
  BY <1>1, <1>3, <1>4, <1>5, <1>6, PopRest DEF IInv, CopiesOK

\* A new token goes to the ring, over one whose block is closed.
LEMMA StoreStep == IInv /\ Store => IInv'
<1> SUFFICES ASSUME IInv, Store PROVE IInv'
  OBVIOUS
<1> DEFINE s == Head(producer).slot
           t == Head(producer).seq
<1>1. Pop /\ host' = host /\ hot' = hot /\ tokens' = tokens /\ compact' = compact
      /\ TypeOK /\ QueueOK /\ DeviceOK /\ CopiesOK /\ CompactTrue
      /\ ring' = [ring EXCEPT ![s][1 + ((t - 1) % BlockTokens)] = <<gen[s], t>>]
  BY DEF Store, NextOp, Pop, hostVars, IInv
<1>2. producer[1].op = "store" /\ s = producer[1].slot /\ t = producer[1].seq
      /\ \A c \in Head(producer).after : ~Contains(copies, c)
  BY <1>1, PopRest DEF Store, NextOp
<1>3. s \in Slots /\ t \in Nat /\ t - 1 \in Nat
  <2>1. Is(1, "store", s, t) /\ "store" \in Work
    BY <1>2 DEF Is, Work
  <2> HIDE DEF s, t
  <2>2. s \in Slots /\ t \in 2..seq[s] /\ seq[s] \in Nat
    BY <1>1, <2>1, AtHead
  <2> QED
    BY <2>2
<1>4. TypeOK'
  <2>1. 1 + ((t - 1) % BlockTokens) \in Rows /\ <<gen[s], t>> \in Tokens
    <3>1. (t - 1) % BlockTokens \in 0..(BlockTokens - 1) /\ BlockTokens \in Nat \ {0}
      BY <1>3, DivIs, SizesAssumption
    <3> QED
      <4> HIDE DEF s, t
      <4>1. gen[s] \in Nat
        BY <1>1, <1>3 DEF TypeOK
      <4> QED
        BY <1>3, <3>1, <4>1 DEF Rows, Tokens
  <2> HIDE DEF s, t
  <2>2. ring' \in [Slots -> Values]
    BY <1>1, <1>3, <2>1 DEF TypeOK, Values
  <2> QED
    BY <1>1, <2>2, PopRest DEF TypeOK, Pop, hostVars
<1>5. DeviceOK'
  <2>1. Is(1, "store", s, t)
    BY <1>2 DEF Is
  <2> HIDE DEF s, t
  <2> QED
    BY <1>1, <2>1, StoreDevice
<1>6. HotHeld'
  BY <1>1, <1>2, PopHeld DEF CopiesOK
<1>7. CompactTrue'
  BY <1>1 DEF CompactTrue, CompactAt, Block, Pop, hostVars
<1> QED
  BY <1>1, <1>4, <1>5, <1>6, <1>7, PopRest DEF IInv, CopiesOK

\* A full ring becomes the newest block, whose copy is queued, over one that
\* is in the host.
LEMMA CloseStep == IInv /\ Close => IInv'
<1> SUFFICES ASSUME IInv, Close PROVE IInv'
  OBVIOUS
<1> DEFINE s == Head(producer).slot
           t == Head(producer).seq
<1>1. Pop /\ host' = host /\ ring' = ring /\ compact' = compact
      /\ TypeOK /\ QueueOK /\ DeviceOK /\ CopiesOK /\ CompactTrue
      /\ hot' = [hot EXCEPT ![s] = [i \in 0..Hot |->
            IF i \in ClosedRows(t \div BlockTokens - 1) THEN ring[s] ELSE hot[s][i]]]
      /\ tokens' = [tokens EXCEPT ![s] = [i \in 0..Hot |->
            IF i \in ClosedRows(t \div BlockTokens - 1) THEN t \div BlockTokens - 1
            ELSE tokens[s][i]]]
  BY DEF Close, NextOp, Pop, hostVars, IInv
<1>2. producer[1].op = "close" /\ s = producer[1].slot /\ t = producer[1].seq
      /\ \A c \in Head(producer).after : ~Contains(copies, c)
  BY <1>1, PopRest DEF Close, NextOp
<1>3. Is(1, "close", s, t) /\ "close" \in Work
  BY <1>2 DEF Is, Work
<1> HIDE DEF s, t
<1>4. s \in Slots /\ t \in 2..seq[s] /\ seq[s] \in Nat
  BY <1>1, <1>3, AtHead
<1>5. t \div BlockTokens \in Nat
  BY <1>4, DivIs
<1>6. TypeOK'
  <2>1. hot' \in [Slots -> [0..Hot -> Values]] /\ tokens' \in [Slots -> [0..Hot -> Int]]
    <3> DEFINE block == t \div BlockTokens - 1
               rows == [i \in 0..Hot |-> IF i \in ClosedRows(block) THEN ring[s] ELSE hot[s][i]]
               nos == [i \in 0..Hot |-> IF i \in ClosedRows(block) THEN block ELSE tokens[s][i]]
    <3>1. ring[s] \in Values /\ hot[s] \in [0..Hot -> Values] /\ tokens[s] \in [0..Hot -> Int]
      BY <1>1, <1>4 DEF TypeOK
    <3>2. block \in Int
      BY <1>5
    <3> HIDE DEF block
    <3>3. rows \in [0..Hot -> Values] /\ nos \in [0..Hot -> Int]
      BY <3>1, <3>2
    <3>4. hot' = [hot EXCEPT ![s] = rows] /\ tokens' = [tokens EXCEPT ![s] = nos]
      BY <1>1 DEF block
    <3> HIDE DEF rows, nos
    <3> QED
      BY <1>1, <1>4, <3>3, <3>4 DEF TypeOK
  <2> QED
    BY <1>1, <2>1, PopRest DEF TypeOK, Pop, hostVars
<1>7. DeviceOK' /\ hot'[s][Hot] = Block(s, t \div BlockTokens - 1)
  BY <1>1, <1>3, CloseDevice
<1>8. HotHeld'
  <2>1. ASSUME NEW r \in Slots, r # s PROVE hot'[r][Hot] = hot[r][Hot]
    BY <1>1, <2>1 DEF TypeOK
  <2>2. \A r \in Slots :
           hot'[r][Hot] = IF producer[1].op = "close" /\ producer[1].slot = r
                            THEN Block(r, producer[1].seq \div BlockTokens - 1)
                            ELSE hot[r][Hot]
    BY <1>2, <1>7, <2>1
  <2> QED
    BY <1>1, <1>2, <2>2, PopHeld DEF CopiesOK
<1>9. CompactTrue'
  BY <1>1 DEF CompactTrue, CompactAt, Block, Pop, hostVars
<1> QED
  BY <1>1, <1>6, <1>7, <1>8, <1>9, PopRest DEF IInv, CopiesOK

\* The attention reads its own blocks: what it loads has come to the host.
LEMMA ResolveStep == IInv /\ Resolve => IInv'
<1> SUFFICES ASSUME IInv, Resolve PROVE IInv'
  OBVIOUS
<1>1. Pop /\ host' = host /\ ring' = ring
      /\ TypeOK /\ QueueOK /\ DeviceOK /\ CopiesOK /\ CompactTrue
  BY DEF Resolve, NextOp, Pop, hostVars, IInv
<1>2. producer[1].op = "resolve" /\ \A c \in Head(producer).after : ~Contains(copies, c)
  BY <1>1, PopRest DEF Resolve, NextOp
<1>3. /\ DeviceOK' /\ CompactTrue' /\ \A r \in Slots : hot'[r][Hot] = hot[r][Hot]
      /\ hot' \in [Slots -> [0..Hot -> Values]] /\ tokens' \in [Slots -> [0..Hot -> Int]]
      /\ DOMAIN compact' = Slots /\ compact' = [r \in Slots |-> compact'[r]]
  <2>1. Is(1, "resolve", producer[1].slot, producer[1].seq)
    BY <1>2 DEF Is
  <2> QED
    BY <1>1, <2>1, ResolveDevice DEF CopiesOK
<1>4. TypeOK'
  BY <1>1, <1>3, PopRest DEF TypeOK, Pop, hostVars
<1>5. HotHeld'
  BY <1>1, <1>2, <1>3, PopHeld DEF CopiesOK
<1> QED
  BY <1>1, <1>3, <1>4, <1>5, PopRest DEF IInv, CopiesOK

----------------------------------------------------------------------------
(* The copy stream, and the thread when it waits for the device.           *)

\* A queued copy is a copy.
LEMMA CopyIs ==
    ASSUME TypeOK, NEW i \in DOMAIN copies
    PROVE  /\ i \in Nat \ {0} /\ copies[i] \in Copies /\ copies[i] # NoCopy
           /\ copies[i].slot \in Slots /\ copies[i].gen \in Nat
           /\ copies[i].block \in Nat /\ copies[i].block \in Blocks
           /\ copies[i] = [slot |-> copies[i].slot, gen |-> copies[i].gen, block |-> copies[i].block]
<1>1. copies[i] \in Copies /\ i \in Nat \ {0}
  BY DEF TypeOK
<1>2. /\ copies[i].slot \in Slots /\ copies[i].gen \in Nat /\ copies[i].block \in Blocks
      /\ copies[i] = [slot |-> copies[i].slot, gen |-> copies[i].gen, block |-> copies[i].block]
  BY <1>1 DEF Copies
<1>3. copies[i].block \in Nat
  BY <1>2 DEF Blocks
<1>4. copies[i] # NoCopy
  BY <1>3 DEF NoCopy
<1> QED
  BY <1>1, <1>2, <1>3, <1>4

\* A copy is queued if it has a place in the queue.
LEMMA InCopies ==
    ASSUME TypeOK, NEW c
    PROVE  Contains(copies, c) <=> \E i \in DOMAIN copies : copies[i] = c
<1>1. DOMAIN copies = 1..Len(copies)
  BY DEF TypeOK
<1> QED
  BY <1>1 DEF Contains

\* The closed blocks of a lease are blocks of its slab.
LEMMA LeaseBlocks ==
    ASSUME TypeOK, NEW s \in Slots
    PROVE  /\ seq[s] \in Nat /\ seq[s] \div BlockTokens \in Nat
           /\ 0..(seq[s] \div BlockTokens - 1) \subseteq Blocks
<1>1. seq[s] \in Nat /\ MaxSeq \in Nat /\ seq[s] <= MaxSeq
  BY SizesAssumption DEF TypeOK
<1>2. seq[s] \div BlockTokens \in Nat /\ MaxSeq \div BlockTokens \in Nat
  BY <1>1, DivIs
<1>3. seq[s] \div BlockTokens <= MaxSeq \div BlockTokens
  BY <1>1, BlocksGrow
<1> QED
  BY <1>1, <1>2, <1>3 DEF Blocks

\* What a copy brings to the host is the block it is named for.
LEMMA CopyStep == IInv /\ CopyToHost => IInv'
<1> SUFFICES ASSUME IInv, CopyToHost PROVE IInv'
  OBVIOUS
<1> DEFINE c == Head(copies)
<1>1. /\ TypeOK /\ QueueOK /\ DeviceOK /\ CopiesOK /\ StreamsOK /\ CompactTrue
      /\ copies # <<>> /\ Ready(c) /\ copies' = Tail(copies)
      /\ host' = [host EXCEPT ![c.slot][c.block] = hot[c.slot][Hot]]
      /\ UNCHANGED <<hostVars, producer, ring, hot, tokens, compact>>
  BY DEF IInv, CopyToHost
<1>2. /\ copies' \in Seq(Copies) /\ c = copies[1] /\ 1 \in DOMAIN copies
      /\ \A i \in DOMAIN copies' : /\ i \in Nat \ {0} /\ i + 1 \in DOMAIN copies
                                   /\ copies'[i] = copies[i + 1]
      /\ \A i \in DOMAIN copies : /\ i \in Nat \ {0}
                                  /\ i # 1 => i - 1 \in DOMAIN copies' /\ copies'[i - 1] = copies[i]
  BY <1>1, TailIs DEF TypeOK
<1>3. c \in Copies /\ c.slot \in Slots /\ c.block \in Blocks
      /\ c = [slot |-> c.slot, gen |-> c.gen, block |-> c.block]
  BY <1>1, <1>2, CopyIs
<1> HIDE DEF c
<1>4. UNCHANGED <<gen, seq, graph, done, graph_copy_done, producer, ring, hot, tokens, compact>>
      /\ \A s, b : Block(s, b)' = Block(s, b)
  BY <1>1 DEF hostVars, Block
<1>5. hot[c.slot][Hot] = Block(c.slot, c.block) /\ gen[c.slot] = c.gen
  <2>1. ~ClosePending(c.slot, c.block)
    BY <1>1, <1>2 DEF ClosePending, StreamsOK, ReadyBehind, Ready
  <2> QED
    BY <1>1, <1>2, <2>1 DEF CopiesOK, HotHeld, CopiesLive
<1>6. TypeOK'
  <2>1. Hot \in 0..Hot
    BY SizesAssumption
  <2>2. host' \in [Slots -> [Blocks -> Values]]
    BY <1>1, <1>3, <2>1 DEF TypeOK
  <2> QED
    BY <1>1, <1>2, <1>4, <2>2 DEF TypeOK
<1>7. QueueOK'
  BY <1>1, <1>4 DEF QueueOK, InOrder, Within, Complete, Queued, Is
<1>8. DeviceOK'
  <2>1. \A s, n : LastStored(s, n)' <=> LastStored(s, n)
    BY <1>4 DEF LastStored, Queued, Is
  <2>2. \A s, b : ClosePending(s, b)' <=> ClosePending(s, b)
    BY <1>4 DEF ClosePending
  <2>3. \A s, n : Queued("close", s, n)' <=> Queued("close", s, n)
    BY <1>4 DEF Queued, Is
  <2> SUFFICES ASSUME NEW s \in Slots PROVE DeviceAt(s)'
    BY DEF DeviceOK
  <2>4. DeviceAt(s)
    BY <1>1 DEF DeviceOK
  <2>5. RingTrue(s)'
    BY <1>4, <2>1, <2>3, <2>4 DEF DeviceAt, RingTrue
  <2>6. RowsTrue(s)'
    BY <1>4, <2>4 DEF DeviceAt, RowsTrue
  <2>7. Resident(s)'
    BY <1>4, <2>1, <2>2, <2>4 DEF DeviceAt, Resident
  <2>8. Newest(s)'
    BY <1>4, <2>1, <2>2, <2>4 DEF DeviceAt, Newest
  <2> QED
    BY <2>5, <2>6, <2>7, <2>8 DEF DeviceAt
<1>9. CopiesLive'
  BY <1>1, <1>2, <1>4 DEF CopiesOK, CopiesLive
<1>10. DoneBehind'
  <2>1. ASSUME NEW i \in DOMAIN copies', NEW w,
               \E j \in DOMAIN copies : i + 1 <= j /\ copies[j] = w
        PROVE  \E j \in DOMAIN copies' : i <= j /\ copies'[j] = w
    <3>1. PICK j \in DOMAIN copies : i + 1 <= j /\ copies[j] = w
      BY <2>1
    <3>2. j - 1 \in DOMAIN copies' /\ copies'[j - 1] = w /\ i <= j - 1
      BY <1>2, <3>1
    <3> QED
      BY <3>2
  <2>2. ASSUME NEW i \in DOMAIN copies'
        PROVE  \E j \in DOMAIN copies' : i <= j /\ copies'[j] = done[copies'[i].slot]
    <3>1. i + 1 \in DOMAIN copies /\ copies'[i] = copies[i + 1]
      BY <1>2
    <3>2. \E j \in DOMAIN copies : i + 1 <= j /\ copies[j] = done[copies[i + 1].slot]
      BY <1>1, <3>1 DEF CopiesOK, DoneBehind
    <3> QED
      BY <2>1, <3>1, <3>2
  <2>3. ASSUME graph, NEW i \in DOMAIN copies'
        PROVE  \E j \in DOMAIN copies' : i <= j /\ copies'[j] = graph_copy_done
    <3>1. i + 1 \in DOMAIN copies
      BY <1>2
    <3>2. \E j \in DOMAIN copies : i + 1 <= j /\ copies[j] = graph_copy_done
      BY <1>1, <2>3, <3>1 DEF CopiesOK, DoneBehind
    <3> QED
      BY <2>1, <3>2
  <2> QED
    BY <1>1, <1>4, <2>2, <2>3 DEF CopiesOK, DoneBehind
<1>11. Waits'
  <2> SUFFICES ASSUME NEW j \in DOMAIN producer, producer[j].op \in {"close", "resolve"},
                      NEW i \in DOMAIN copies', copies'[i].slot = producer[j].slot,
                      copies'[i].block + 1 < producer[j].seq \div BlockTokens
               PROVE  \E k \in DOMAIN copies' : i <= k /\ copies'[k] \in producer[j].after
    BY <1>4 DEF Waits
  <2>1. PICK k \in DOMAIN copies : i + 1 <= k /\ copies[k] \in producer[j].after
    BY <1>1, <1>2 DEF CopiesOK, Waits
  <2>2. k - 1 \in DOMAIN copies' /\ copies'[k - 1] = copies[k] /\ i <= k - 1
    BY <1>2, <2>1
  <2> QED
    BY <2>1, <2>2
<1>12. HotHeld'
  <2>1. \A s, b : ClosePending(s, b)' <=> ClosePending(s, b)
    BY <1>4 DEF ClosePending
  <2> QED
    BY <1>1, <1>2, <1>4, <2>1 DEF CopiesOK, HotHeld
<1>13. InHost'
  <2> SUFFICES ASSUME NEW s \in Slots, NEW b \in 0..(seq[s] \div BlockTokens - 1),
                      ~Contains(copies', [slot |-> s, gen |-> gen[s], block |-> b])
               PROVE  host'[s][b] = Block(s, b)
    BY <1>4 DEF InHost
  <2> DEFINE x == [slot |-> s, gen |-> gen[s], block |-> b]
  <2>1. b \in Blocks
    BY <1>1, LeaseBlocks
  <2>2. CASE s = c.slot /\ b = c.block
    BY <1>1, <1>3, <1>5, <2>1, <2>2 DEF TypeOK
  <2>3. CASE ~(s = c.slot /\ b = c.block)
    <3>1. host'[s][b] = host[s][b]
      BY <1>1, <1>3, <2>1, <2>3 DEF TypeOK
    <3>2. x # c
      BY <1>3, <2>3
    <3>3. ~Contains(copies, x)
      <4> SUFFICES ASSUME NEW i \in DOMAIN copies, copies[i] = x PROVE FALSE
        BY <1>1, InCopies
      <4>1. i - 1 \in DOMAIN copies' /\ copies'[i - 1] = x
        BY <1>2, <3>2
      <4>2. DOMAIN copies' = 1..Len(copies')
        BY <1>2
      <4> QED
        BY <4>1, <4>2 DEF Contains
    <3> QED
      BY <1>1, <3>1, <3>3 DEF CopiesOK, InHost
  <2> QED
    BY <2>2, <2>3
<1>14. ReadyBehind'
  BY <1>1, <1>2, <1>4 DEF StreamsOK, ReadyBehind
<1>15. AllKnown'
  BY <1>1, <1>4 DEF StreamsOK, AllKnown, Known
<1>16. WaitBehind'
  <2> SUFFICES ASSUME NEW i \in DOMAIN producer, NEW k \in DOMAIN producer,
                      NEW l \in DOMAIN copies', NEW m \in DOMAIN copies', m <= l,
                      copies'[l] \in producer[i].after, copies'[m] \in producer[k].ready
               PROVE  k < i
    BY <1>4 DEF WaitBehind
  <2>1. l + 1 \in DOMAIN copies /\ copies'[l] = copies[l + 1] /\ l \in Nat
        /\ m + 1 \in DOMAIN copies /\ copies'[m] = copies[m + 1] /\ m \in Nat
    BY <1>2
  <2>2. m + 1 <= l + 1
    BY <2>1
  <2> QED
    BY <1>1, <2>1, <2>2 DEF StreamsOK, WaitBehind
<1>17. CompactTrue'
  BY <1>1, <1>4 DEF CompactTrue, CompactAt, Block
<1> QED
  BY <1>6, <1>7, <1>8, <1>9, <1>10, <1>11, <1>12, <1>13, <1>14, <1>15, <1>16, <1>17
     DEF IInv, CopiesOK, StreamsOK


\* With nothing queued for the producer, little is left to be shown.
LEMMA Idle ==
    ASSUME producer = <<>>
    PROVE  /\ DOMAIN producer = {} /\ QueueOK /\ Waits /\ ReadyBehind /\ WaitBehind
           /\ \A o, s, t : ~Queued(o, s, t)
           /\ \A s, b : ~ClosePending(s, b)
           /\ \A s, n : LastStored(s, n) <=> n \in 1..seq[s] /\ ~(n < seq[s])
<1>1. DOMAIN producer = {}
  OBVIOUS
<1>2. QueueOK /\ Waits /\ ReadyBehind /\ WaitBehind
  BY <1>1 DEF QueueOK, InOrder, Within, Complete, Waits, ReadyBehind, WaitBehind
<1>3. \A o, s, t : ~Queued(o, s, t)
  BY <1>1 DEF Queued
<1>4. \A s, b : ~ClosePending(s, b)
  BY <1>1 DEF ClosePending
<1>5. \A s, n : LastStored(s, n) <=> n \in 1..seq[s] /\ ~(n < seq[s])
  BY <1>3 DEF LastStored
<1> QED
  BY <1>1, <1>2, <1>3, <1>4, <1>5

\* The same for the state after a step.
LEMMA IdleNext ==
    ASSUME producer' = <<>>
    PROVE  /\ DOMAIN producer' = {} /\ QueueOK' /\ Waits' /\ ReadyBehind' /\ WaitBehind'
           /\ \A o, s, t : ~Queued(o, s, t)'
           /\ \A s, b : ~ClosePending(s, b)'
           /\ \A s, n : LastStored(s, n)' <=> n \in 1..seq'[s] /\ ~(n < seq'[s])
<1>1. DOMAIN producer' = {}
  OBVIOUS
<1>2. QueueOK' /\ Waits' /\ ReadyBehind' /\ WaitBehind'
  BY <1>1 DEF QueueOK, InOrder, Within, Complete, Waits, ReadyBehind, WaitBehind
<1>3. \A o, s, t : ~Queued(o, s, t)'
  BY <1>1 DEF Queued
<1>4. \A s, b : ~ClosePending(s, b)'
  BY <1>1 DEF ClosePending
<1>5. \A s, n : LastStored(s, n)' <=> n \in 1..seq'[s] /\ ~(n < seq'[s])
  BY <1>3 DEF LastStored
<1> QED
  BY <1>1, <1>2, <1>3, <1>4, <1>5

\* With nothing queued, a slot that the thread leaves alone stays as it is.
LEMMA IdleElsewhere ==
    ASSUME DeviceOK, producer = <<>>, producer' = <<>>, NEW r \in Slots,
           seq'[r] = seq[r], gen'[r] = gen[r], ring'[r] = ring[r], hot'[r] = hot[r],
           tokens'[r] = tokens[r]
    PROVE  DeviceAt(r)'
<1>1. DeviceAt(r)
  BY DEF DeviceOK
<1>2. \A b : Block(r, b)' = Block(r, b)
  BY DEF Block
<1>3. \A n : LastStored(r, n)' <=> LastStored(r, n)
  BY Idle, IdleNext
<1>4. \A n : ~Queued("close", r, n) /\ ~Queued("close", r, n)'
  BY Idle, IdleNext
<1>5. \A b : ~ClosePending(r, b) /\ ~ClosePending(r, b)'
  BY Idle, IdleNext
<1>6. RingTrue(r)'
  BY <1>1, <1>3, <1>4 DEF DeviceAt, RingTrue
<1>7. RowsTrue(r)'
  BY <1>1, <1>2 DEF DeviceAt, RowsTrue
<1>8. Resident(r)'
  BY <1>1, <1>3, <1>5 DEF DeviceAt, Resident
<1>9. Newest(r)'
  BY <1>1, <1>3, <1>5 DEF DeviceAt, Newest
<1> QED
  BY <1>6, <1>7, <1>8, <1>9 DEF DeviceAt

\* Zero tokens have no blocks.
LEMMA NoBlocks == 0 \div BlockTokens = 0
<1>1. BlockTokens \in Nat \ {0}
  BY SizesAssumption
<1>2. 0 = BlockTokens * 0 + 0 /\ 0 \in 0..(BlockTokens - 1) /\ 0 \in Nat /\ 0 \in Int
  BY <1>1
<1>3. \A q \in Int, r \in 0..(BlockTokens - 1) : 0 = BlockTokens * q + r => q = 0 \div BlockTokens
  BY <1>2, DivIs
<1> QED
  BY <1>2, <1>3, Zenon

\* A release leaves no copy of the lease behind.
LEMMA ReleaseStep == ASSUME IInv, NEW s \in Slots, Release(s) PROVE IInv'
<1>1. /\ TypeOK /\ QueueOK /\ DeviceOK /\ CopiesOK /\ StreamsOK /\ CompactTrue
      /\ seq[s] # 0 /\ producer = <<>> /\ ~Contains(copies, done[s])
      /\ seq' = [seq EXCEPT ![s] = 0] /\ done' = [done EXCEPT ![s] = NoCopy]
      /\ UNCHANGED <<graph, gen, graph_copy_done, producer, copies, ring, hot, tokens,
                     host, compact>>
  BY DEF IInv, Release, Drained
<1>2. \A i \in DOMAIN copies : copies[i].slot # s
  BY <1>1, InCopies DEF CopiesOK, DoneBehind
<1>3. /\ seq'[s] = 0 /\ done'[s] = NoCopy /\ producer' = <<>>
      /\ \A r \in Slots : r # s => seq'[r] = seq[r] /\ done'[r] = done[r]
  BY <1>1 DEF TypeOK
<1>4. TypeOK'
  <2>1. seq' \in [Slots -> 0..MaxSeq] /\ done' \in [Slots -> Copies \cup {NoCopy}]
    BY <1>1, SizesAssumption DEF TypeOK
  <2> QED
    BY <1>1, <2>1 DEF TypeOK
<1>5. DeviceOK'
  <2> SUFFICES ASSUME NEW r \in Slots PROVE DeviceAt(r)'
    BY DEF DeviceOK
  <2>1. CASE r = s
    <3>1. 1..seq'[r] = {}
      BY <1>3, <2>1
    <3> QED
      BY <1>3, <2>1, <3>1 DEF DeviceAt, RingTrue, RowsTrue, Resident, Newest
  <2>2. CASE r # s
    BY <1>1, <1>3, <2>2, IdleElsewhere
  <2> QED
    BY <2>1, <2>2
<1>6. CopiesLive'
  BY <1>1, <1>2, <1>3, CopyIs DEF CopiesOK, CopiesLive
<1>7. DoneBehind'
  <2>1. \A r \in Slots : done'[r] \in {done[r], NoCopy}
    BY <1>3
  <2>2. \A i \in DOMAIN copies : done'[copies[i].slot] = done[copies[i].slot]
    BY <1>1, <1>2, <1>3, CopyIs
  <2> QED
    BY <1>1, <2>1, <2>2 DEF CopiesOK, DoneBehind
<1>8. HotHeld'
  BY <1>1, Idle DEF CopiesOK, HotHeld, Block
<1>9. InHost'
  <2> SUFFICES ASSUME NEW r \in Slots, NEW b \in 0..(seq'[r] \div BlockTokens - 1),
                      ~Contains(copies', [slot |-> r, gen |-> gen'[r], block |-> b])
               PROVE  host'[r][b] = Block(r, b)'
    BY DEF InHost
  <2>1. r # s
    BY <1>3, NoBlocks
  <2>2. Block(r, b)' = Block(r, b)
    BY <1>1 DEF Block
  <2> QED
    BY <1>1, <1>3, <2>1, <2>2 DEF CopiesOK, InHost
<1>10. AllKnown'
  <2>1. ASSUME NEW c, c \in Copies, Known(c) PROVE Known(c)'
    <3>1. c.slot \in Slots
      BY <2>1 DEF Copies
    <3> QED
      BY <1>1, <1>3, <2>1, <3>1 DEF Known
  <2>2. ASSUME NEW r \in Slots, NEW c, c = done'[r], c # NoCopy PROVE Known(c)'
    <3>1. c = done[r] /\ c \in Copies
      BY <1>1, <1>3, <2>2 DEF TypeOK
    <3>2. Known(c)
      BY <1>1, <2>2, <3>1 DEF StreamsOK, AllKnown
    <3> QED
      BY <2>1, <3>1, <3>2
  <2>3. ASSUME NEW c, c = graph_copy_done', c # NoCopy PROVE Known(c)'
    <3>1. c \in Copies /\ c = graph_copy_done
      BY <1>1, <2>3 DEF TypeOK
    <3>2. Known(c)
      BY <1>1, <2>3, <3>1 DEF StreamsOK, AllKnown
    <3> QED
      BY <2>1, <3>1, <3>2
  <2> QED
    BY <1>1, <2>2, <2>3, IdleNext DEF AllKnown, Known
<1>11. CompactTrue'
  BY <1>1 DEF CompactTrue, CompactAt, Block
<1> QED
  BY <1>3, <1>4, <1>5, <1>6, <1>7, <1>8, <1>9, <1>10, <1>11, IdleNext
     DEF IInv, CopiesOK, StreamsOK

\* A handoff puts the prefix of a new lease where it is looked for.
LEMMA HandoffStep ==
    ASSUME IInv, NEW s \in Slots, NEW length \in 1..MaxSeq, Handoff(s, length)
    PROVE  IInv'
<1> DEFINE blocks == length \div BlockTokens
           tail == length % BlockTokens
           lease == gen[s] + 1
           block(b) == [i \in Rows |-> <<lease, b * BlockTokens + i>>]
           staged == StagedTokens(s, blocks)
<1>1. /\ TypeOK /\ QueueOK /\ DeviceOK /\ CopiesOK /\ StreamsOK /\ CompactTrue
      /\ seq[s] = 0 /\ producer = <<>>
      /\ gen' = [gen EXCEPT ![s] = lease]
      /\ host' = [host EXCEPT ![s] = [b \in Blocks |-> IF b < blocks THEN block(b) ELSE host[s][b]]]
      /\ ring' = [ring EXCEPT ![s] =
            [i \in Rows |-> IF i <= tail THEN <<lease, blocks * BlockTokens + i>> ELSE Zero]]
      /\ tokens' = [tokens EXCEPT ![s] = staged]
      /\ hot' = [hot EXCEPT ![s] = [i \in 0..Hot |->
            IF staged[i] \in 0..(blocks - 1) THEN block(staged[i]) ELSE Zeros]]
      /\ seq' = [seq EXCEPT ![s] = length]
      /\ compact' = [compact EXCEPT ![s] = NothingRead]
      /\ UNCHANGED <<graph, done, graph_copy_done, producer, copies>>
  BY DEF IInv, Handoff
<1>2. length \in Nat \ {0} /\ length <= MaxSeq /\ blocks \in Nat /\ tail \in Nat
      /\ Hot \in Nat \ {0} /\ BlockTokens \in Nat \ {0} /\ gen[s] \in Nat /\ lease \in Nat
  <2>1. gen[s] \in Nat
    BY <1>1 DEF TypeOK
  <2>2. MaxSeq \in Nat /\ Hot \in Nat \ {0} /\ BlockTokens \in Nat \ {0}
    BY SizesAssumption
  <2>3. length \in Nat \ {0} /\ length <= MaxSeq
    BY <2>2
  <2>4. blocks \in Nat /\ tail \in Nat
    BY <2>2, <2>3, DivIs
  <2> QED
    BY <2>1, <2>2, <2>3, <2>4
<1> HIDE DEF blocks, tail, lease
<1>3. \A i \in DOMAIN copies : copies[i].slot # s
  BY <1>1 DEF CopiesOK, CopiesLive
<1>4. /\ gen'[s] = lease /\ seq'[s] = length /\ compact'[s] = NothingRead /\ producer' = <<>>
      /\ \A b \in Blocks : b < blocks => host'[s][b] = block(b)
      /\ \A i \in Rows : i <= tail => ring'[s][i] = <<lease, blocks * BlockTokens + i>>
      /\ \A i \in 0..Hot : /\ tokens'[s][i] = staged[i]
                           /\ staged[i] \in 0..(blocks - 1) => hot'[s][i] = block(staged[i])
      /\ \A r \in Slots : r # s => /\ gen'[r] = gen[r] /\ seq'[r] = seq[r]
                                   /\ host'[r] = host[r] /\ ring'[r] = ring[r]
                                   /\ tokens'[r] = tokens[r] /\ hot'[r] = hot[r]
                                   /\ compact'[r] = compact[r]
  BY <1>1 DEF TypeOK
<1>5. \A i \in 0..Hot : /\ staged[i] \in {-1} \cup 0..(blocks - 1)
                        /\ i = Hot /\ blocks > 0 => staged[i] = blocks - 1
                        /\ i < Hot /\ blocks <= Hot /\ i < blocks => staged[i] = i
  BY <1>2 DEF StagedTokens
<1>6. staged \in [0..Hot -> Int]
  BY <1>2, <1>5 DEF StagedTokens
<1> HIDE DEF staged
<1>7. \A b : Block(s, b)' = block(b)
  BY <1>4 DEF Block
<1>8. \A b \in Nat : block(b) \in Values
  BY <1>2 DEF Values, Tokens, Rows
<1> HIDE DEF block
<1>9. TypeOK'
  <2>1. gen' \in [Slots -> Nat] /\ seq' \in [Slots -> 0..MaxSeq]
    <3>1. gen \in [Slots -> Nat] /\ seq \in [Slots -> 0..MaxSeq]
      BY <1>1 DEF TypeOK
    <3>2. gen' \in [Slots -> Nat]
      BY <1>1, <1>2, <3>1
    <3>3. length \in 0..MaxSeq
      BY <1>2, SizesAssumption
    <3>4. seq' \in [Slots -> 0..MaxSeq]
      BY <1>1, <3>1, <3>3
    <3> QED
      BY <3>2, <3>4
  <2>2. ring' \in [Slots -> Values]
    <3>1. \A i \in Rows : i \in Nat /\ <<lease, blocks * BlockTokens + i>> \in Tokens /\ Zero \in Tokens
      BY <1>2 DEF Tokens, Rows, Zero
    <3>2. [i \in Rows |-> IF i <= tail THEN <<lease, blocks * BlockTokens + i>> ELSE Zero] \in Values
      BY <3>1 DEF Values
    <3> QED
      BY <1>1, <3>2 DEF TypeOK
  <2>3. tokens' \in [Slots -> [0..Hot -> Int]]
    BY <1>1, <1>6 DEF TypeOK
  <2>4. hot' \in [Slots -> [0..Hot -> Values]]
    <3>1. Zeros \in Values
      BY DEF Zeros, Zero, Values, Tokens
    <3>2. \A i \in 0..Hot : staged[i] \in 0..(blocks - 1) => block(staged[i]) \in Values
      BY <1>8
    <3>3. [i \in 0..Hot |-> IF staged[i] \in 0..(blocks - 1) THEN block(staged[i]) ELSE Zeros]
             \in [0..Hot -> Values]
      BY <3>1, <3>2
    <3> QED
      BY <1>1, <3>3 DEF TypeOK
  <2>5. host' \in [Slots -> [Blocks -> Values]]
    <3>1. \A b \in Blocks : b \in Nat /\ host[s][b] \in Values
      <4>1. Blocks \subseteq Nat
        BY DEF Blocks
      <4>2. \A b \in Blocks : host[s][b] \in Values
        BY <1>1 DEF TypeOK
      <4> QED
        BY <4>1, <4>2
    <3>2. [b \in Blocks |-> IF b < blocks THEN block(b) ELSE host[s][b]] \in [Blocks -> Values]
      BY <1>8, <3>1
    <3> QED
      BY <1>1, <3>2 DEF TypeOK
  <2>6. DOMAIN compact' = Slots /\ compact' = [r \in Slots |-> compact'[r]]
    BY <1>1 DEF TypeOK
  <2> QED
    BY <1>1, <2>1, <2>2, <2>3, <2>4, <2>5, <2>6 DEF TypeOK
<1>10. DeviceAt(s)'
  <2>1. \A n : LastStored(s, n)' => n = length
    BY <1>2, <1>4, IdleNext
  <2>2. RingTrue(s)'
    <3> SUFFICES ASSUME NEW n, LastStored(s, n)', Closed(n) => Queued("close", s, n)',
                        NEW i \in 1..Row(n)
                 PROVE  ring'[s][i] = <<gen'[s], n - Row(n) + i>>
      BY DEF RingTrue
    <3>1. n = length /\ ~Closed(n)
      BY <1>4, <2>1, IdleNext
    <3>2. Row(n) = tail /\ tail \in 0..(BlockTokens - 1)
      <4>1. length - 1 \in Nat /\ (length - 1) + 1 = length
        BY <1>2
      <4>2. Row(length) = length % BlockTokens
        BY <3>1, <4>1, NextToken
      <4>3. length % BlockTokens \in 0..(BlockTokens - 1)
        BY <1>2, DivIs
      <4> QED
        BY <3>1, <4>2, <4>3 DEF tail
    <3>3. blocks * BlockTokens = length - tail
      BY <1>2, BlockOf DEF blocks, tail
    <3>4. i \in Rows /\ i <= tail
      BY <1>2, <3>2 DEF Rows
    <3> QED
      BY <1>4, <3>1, <3>2, <3>3, <3>4
  <2>3. RowsTrue(s)'
    BY <1>4, <1>5, <1>7 DEF RowsTrue
  <2>4. Resident(s)'
    <3> SUFFICES ASSUME NEW n, LastStored(s, n)', n \div BlockTokens <= Hot,
                        NEW b \in 0..(n \div BlockTokens - 1)
                 PROVE  tokens'[s][b] = b
      BY DEF Resident
    <3>1. n \div BlockTokens = blocks
      BY <2>1 DEF blocks
    <3>2. b \in 0..Hot /\ b < Hot /\ blocks <= Hot /\ b < blocks
      BY <1>2, <3>1
    <3> QED
      BY <1>4, <1>5, <3>2
  <2>5. Newest(s)'
    <3> SUFFICES ASSUME NEW n, LastStored(s, n)', n \div BlockTokens > 0
                 PROVE  tokens'[s][Hot] = n \div BlockTokens - 1
      BY DEF Newest
    <3>1. n \div BlockTokens = blocks
      BY <2>1 DEF blocks
    <3>2. Hot \in 0..Hot
      BY <1>2
    <3> QED
      BY <1>4, <1>5, <3>1, <3>2
  <2> QED
    BY <2>2, <2>3, <2>4, <2>5 DEF DeviceAt
<1>11. DeviceOK'
  BY <1>1, <1>4, <1>10, IdleElsewhere DEF DeviceOK
<1>12. CopiesLive'
  BY <1>1, <1>3, <1>4, CopyIs DEF CopiesOK, CopiesLive
<1>13. DoneBehind'
  BY <1>1 DEF CopiesOK, DoneBehind
<1>14. HotHeld'
  <2> SUFFICES ASSUME NEW i \in DOMAIN copies, NEW r, r = copies[i].slot
               PROVE  hot'[r][Hot] = Block(r, copies[i].block)'
    BY <1>1, <1>4, IdleNext DEF HotHeld
  <2>1. r \in Slots /\ r # s
    BY <1>1, <1>3, CopyIs
  <2>2. Block(r, copies[i].block)' = Block(r, copies[i].block)
    BY <1>1, <1>4, <2>1 DEF Block
  <2> QED
    BY <1>1, <1>4, <2>1, <2>2, Idle DEF CopiesOK, HotHeld
<1>15. InHost'
  <2> SUFFICES ASSUME NEW r \in Slots, NEW b \in 0..(seq'[r] \div BlockTokens - 1),
                      ~Contains(copies', [slot |-> r, gen |-> gen'[r], block |-> b])
               PROVE  host'[r][b] = Block(r, b)'
    BY DEF InHost
  <2>1. CASE r = s
    <3>1. seq'[r] \div BlockTokens = blocks
      BY <1>4, <2>1 DEF blocks
    <3>2. b \in Nat /\ b < blocks
      BY <1>2, <3>1
    <3>3. b \in Blocks
      <4>1. blocks <= MaxSeq \div BlockTokens /\ MaxSeq \div BlockTokens \in Nat
        BY <1>2, SizesAssumption, BlocksGrow, DivIs DEF blocks
      <4> QED
        BY <1>2, <3>2, <4>1 DEF Blocks
    <3> QED
      BY <1>4, <1>7, <2>1, <3>2, <3>3
  <2>2. CASE r # s
    <3>1. Block(r, b)' = Block(r, b)
      BY <1>4, <2>2 DEF Block
    <3> QED
      BY <1>1, <1>4, <2>2, <3>1 DEF CopiesOK, InHost
  <2> QED
    BY <2>1, <2>2
<1>16. AllKnown'
  <2>1. ASSUME NEW c, c \in Copies, Known(c) PROVE Known(c)'
    <3>1. c.slot \in Slots /\ c.gen \in Nat
      BY <2>1 DEF Copies
    <3>2. CASE c.slot # s
      BY <1>4, <2>1, <3>1, <3>2 DEF Known
    <3>3. CASE c.slot = s
      <4>1. gen[s] >= c.gen
        BY <1>2, <2>1, <3>1, <3>3 DEF Known
      <4> QED
        BY <1>2, <1>4, <3>1, <3>3, <4>1 DEF Known, lease
    <3> QED
      BY <3>2, <3>3
  <2>2. ASSUME NEW r \in Slots, NEW c, c = done'[r], c # NoCopy PROVE Known(c)'
    <3>1. c = done[r] /\ c \in Copies
      BY <1>1, <2>2 DEF TypeOK
    <3>2. Known(c)
      BY <1>1, <2>2, <3>1 DEF StreamsOK, AllKnown
    <3> QED
      BY <2>1, <3>1, <3>2
  <2>3. ASSUME NEW c, c = graph_copy_done', c # NoCopy PROVE Known(c)'
    <3>1. c \in Copies /\ c = graph_copy_done
      BY <1>1, <2>3 DEF TypeOK
    <3>2. Known(c)
      BY <1>1, <2>3, <3>1 DEF StreamsOK, AllKnown
    <3> QED
      BY <2>1, <3>1, <3>2
  <2> QED
    BY <1>1, <1>4, <2>2, <2>3, IdleNext DEF AllKnown, Known
<1>17. CompactTrue'
  <2> SUFFICES ASSUME NEW r \in Slots PROVE CompactAt(r)'
    BY DEF CompactTrue
  <2>1. CASE r = s
    <3>1. DOMAIN compact'[r].blocks = {} /\ DOMAIN compact'[r].tail = {}
      BY <1>4, <2>1 DEF NothingRead
    <3> QED
      BY <3>1 DEF CompactAt
  <2>2. CASE r # s
    BY <1>1, <1>4, <2>2 DEF CompactTrue, CompactAt, Block
  <2> QED
    BY <2>1, <2>2
<1> QED
  BY <1>4, <1>9, <1>11, <1>12, <1>13, <1>14, <1>15, <1>16, <1>17, IdleNext
     DEF IInv, CopiesOK, StreamsOK
----------------------------------------------------------------------------
(* A decode step is queued.                                                *)

Joined(r, p, q) == r = p \o q

\* What a queue is after something is appended to it.
LEMMA AppendIs ==
    ASSUME NEW S, NEW p \in Seq(S), NEW q \in Seq(S), NEW r, Joined(r, p, q)
    PROVE  /\ r \in Seq(S) /\ Len(p) \in Nat /\ Len(q) \in Nat
           /\ DOMAIN p = 1..Len(p) /\ DOMAIN q = 1..Len(q)
           /\ DOMAIN r = 1..(Len(p) + Len(q)) /\ Len(r) = Len(p) + Len(q)
           /\ \A i \in DOMAIN p : i \in DOMAIN r /\ r[i] = p[i]
           /\ \A i \in DOMAIN q : Len(p) + i \in DOMAIN r /\ r[Len(p) + i] = q[i]
           /\ \A i \in DOMAIN r : i \in DOMAIN p \/ i - Len(p) \in DOMAIN q
<1>1. p \o q \in Seq(S) /\ Len(p) \in Nat /\ Len(q) \in Nat /\ DOMAIN p = 1..Len(p)
      /\ DOMAIN q = 1..Len(q) /\ Len(p \o q) = Len(p) + Len(q)
      /\ DOMAIN (p \o q) = 1..(Len(p) + Len(q))
  OBVIOUS
<1>2. \A i \in 1..Len(p) : (p \o q)[i] = p[i]
  BY <1>1
<1>3. ASSUME NEW i \in 1..Len(q) PROVE (p \o q)[Len(p) + i] = q[i]
  BY <1>1
<1>4. \A i \in 1..(Len(p) + Len(q)) : i \in 1..Len(p) \/ i - Len(p) \in 1..Len(q)
  BY <1>1
<1>5. \A i \in 1..Len(p) : i \in 1..(Len(p) + Len(q))
  BY <1>1
<1>6. \A i \in 1..Len(q) : Len(p) + i \in 1..(Len(p) + Len(q))
  BY <1>1
<1> QED
  BY <1>1, <1>2, <1>3, <1>4, <1>5, <1>6 DEF Joined

\* An order of a finite set is a sequence of its elements, each of them once.
LEMMA OrderIs ==
    ASSUME NEW S, IsFiniteSet(S), NEW order \in Orders(S)
    PROVE  /\ order \in Seq(S) /\ Len(order) \in Nat /\ DOMAIN order = 1..Len(order)
           /\ ToSet(order) = S
           /\ \A i \in DOMAIN order : order[i] \in S
           /\ \A i, j \in DOMAIN order : order[i] = order[j] => i = j
           /\ \A s \in S : \E i \in DOMAIN order : order[i] = s
           /\ \A s : Contains(order, s) <=> s \in S
<1> DEFINE n == Cardinality(S)
<1>1. n \in Nat
  BY FS_CardinalityType
<1>2. order \in [1..n -> S] /\ IsInjective(order)
  BY DEF Orders
<1>3. order \in Injection(1..n, S)
  BY <1>2 DEF Injection
<1>4. Cardinality(1..n) = n
  BY <1>1, FS_Interval
<1>5. order \in Surjection(1..n, S)
  BY <1>3, <1>4, FS_Injection
<1>6. \A s \in S : \E i \in 1..n : order[i] = s
  BY <1>5 DEF Surjection
<1>7. order \in Seq(S) /\ Len(order) = n /\ DOMAIN order = 1..n
  BY <1>1, <1>2
<1>8. \A i, j \in DOMAIN order : order[i] = order[j] => i = j
  BY <1>2 DEF IsInjective
<1>9. ToSet(order) = S
  BY <1>2, <1>6, <1>7 DEF ToSet
<1>10. \A s : Contains(order, s) <=> s \in S
  BY <1>2, <1>6, <1>7 DEF Contains
<1> QED
  BY <1>1, <1>2, <1>6, <1>7, <1>8, <1>9, <1>10

\* The batch of a step and the requests whose token closes a block.
Step(batch, closing) ==
    /\ \E S \in SUBSET Slots \ {{}} : batch \in Orders(S)
    /\ closing \in Orders(Closing(batch))
    /\ Steppable(batch)

\* A batch lists its slots once, each with a lease that has room for a token;
\* those that close a block are among them.
LEMMA StepIs ==
    ASSUME TypeOK, NEW batch, NEW closing, Step(batch, closing)
    PROVE  /\ batch \in Seq(Slots) /\ closing \in Seq(Slots)
           /\ Len(batch) \in Nat /\ DOMAIN batch = 1..Len(batch)
           /\ Len(closing) \in Nat /\ DOMAIN closing = 1..Len(closing)
           /\ ToSet(batch) \subseteq Slots
           /\ \A i \in DOMAIN batch : batch[i] \in ToSet(batch)
           /\ \A i, j \in DOMAIN batch : batch[i] = batch[j] => i = j
           /\ \A s \in ToSet(batch) : \E i \in DOMAIN batch : batch[i] = s
           /\ \A s : Contains(batch, s) <=> s \in ToSet(batch)
           /\ ToSet(closing) = {s \in ToSet(batch) : Closed(seq[s] + 1)}
           /\ \A i \in DOMAIN closing : closing[i] \in ToSet(closing)
           /\ \A i, j \in DOMAIN closing : closing[i] = closing[j] => i = j
           /\ \A s \in ToSet(closing) : \E i \in DOMAIN closing : closing[i] = s
           /\ \A s : Contains(closing, s) <=> s \in ToSet(closing)
           /\ \A s \in ToSet(batch) : seq[s] \in Nat \ {0} /\ seq[s] + 1 <= MaxSeq
<1>1. PICK S \in SUBSET Slots : batch \in Orders(S)
  BY DEF Step
<1>2. IsFiniteSet(S)
  BY SizesAssumption, FS_Subset
<1>3. /\ batch \in Seq(S) /\ Len(batch) \in Nat /\ DOMAIN batch = 1..Len(batch)
      /\ ToSet(batch) = S
      /\ \A i \in DOMAIN batch : batch[i] \in S
      /\ \A i, j \in DOMAIN batch : batch[i] = batch[j] => i = j
      /\ \A s \in S : \E i \in DOMAIN batch : batch[i] = s
      /\ \A s : Contains(batch, s) <=> s \in S
  BY <1>1, <1>2, OrderIs
<1>4. Closing(batch) \subseteq S /\ Closing(batch) = {s \in ToSet(batch) : Closed(seq[s] + 1)}
  BY <1>3 DEF Closing
<1>5. IsFiniteSet(Closing(batch)) /\ closing \in Orders(Closing(batch))
  BY <1>2, <1>4, FS_Subset DEF Step
<1>6. /\ closing \in Seq(Closing(batch)) /\ Len(closing) \in Nat /\ DOMAIN closing = 1..Len(closing)
      /\ ToSet(closing) = Closing(batch)
      /\ \A i \in DOMAIN closing : closing[i] \in Closing(batch)
      /\ \A i, j \in DOMAIN closing : closing[i] = closing[j] => i = j
      /\ \A s \in Closing(batch) : \E i \in DOMAIN closing : closing[i] = s
      /\ \A s : Contains(closing, s) <=> s \in Closing(batch)
  BY <1>5, OrderIs
<1>7. batch \in Seq(Slots) /\ closing \in Seq(Slots)
  BY <1>1, <1>3, <1>4, <1>6
<1>8. ASSUME NEW s \in ToSet(batch) PROVE seq[s] \in Nat \ {0} /\ seq[s] + 1 <= MaxSeq
  <2>1. seq[s] \in 1..(MaxSeq - 1) /\ MaxSeq \in Nat
    BY <1>8, SizesAssumption DEF Step, Steppable
  <2> QED
    BY <2>1
<1> QED
  BY <1>1, <1>3, <1>4, <1>6, <1>7, <1>8

\* The copies of a step, of blocks that no copy is known for.
LEMMA NewCopies ==
    ASSUME TypeOK, NEW batch, NEW closing, Step(batch, closing)
    PROVE  /\ CopiesOf(closing) \in Seq(Copies) /\ DOMAIN CopiesOf(closing) = 1..Len(closing)
           /\ \A i \in 1..Len(closing) : CopiesOf(closing)[i] = Copy(closing[i], seq[closing[i]] + 1)
           /\ \A s \in ToSet(closing) :
                 /\ Copy(s, seq[s] + 1) \in Copies /\ Copy(s, seq[s] + 1) # NoCopy
                 /\ ~Known(Copy(s, seq[s] + 1))
                 /\ Copy(s, seq[s] + 1).slot = s /\ Copy(s, seq[s] + 1).gen = gen[s]
                 /\ Copy(s, seq[s] + 1).block = seq[s] \div BlockTokens
                 /\ (seq[s] + 1) \div BlockTokens = seq[s] \div BlockTokens + 1
           /\ ToSet(CopiesOf(closing)) = {Copy(s, seq[s] + 1) : s \in ToSet(closing)}
<1>1. ASSUME NEW s \in ToSet(closing)
      PROVE  /\ Copy(s, seq[s] + 1) \in Copies /\ Copy(s, seq[s] + 1) # NoCopy
             /\ ~Known(Copy(s, seq[s] + 1))
             /\ Copy(s, seq[s] + 1).slot = s /\ Copy(s, seq[s] + 1).gen = gen[s]
             /\ Copy(s, seq[s] + 1).block = seq[s] \div BlockTokens
             /\ (seq[s] + 1) \div BlockTokens = seq[s] \div BlockTokens + 1
  <2>1. s \in Slots /\ seq[s] \in Nat \ {0} /\ seq[s] + 1 <= MaxSeq /\ Closed(seq[s] + 1)
    BY <1>1, StepIs
  <2>2. seq[s] \div BlockTokens \in Nat
        /\ (seq[s] + 1) \div BlockTokens = seq[s] \div BlockTokens + 1
    BY <2>1, DivIs, NextToken
  <2>3. (seq[s] + 1) \div BlockTokens <= MaxSeq \div BlockTokens
        /\ MaxSeq \div BlockTokens \in Nat
    <3>1. seq[s] + 1 \in Nat /\ MaxSeq \in Nat
      BY <2>1, SizesAssumption
    <3>2. MaxSeq \div BlockTokens \in Nat
      BY <3>1, DivIs
    <3> QED
      BY <2>1, <3>1, <3>2, BlocksGrow
  <2>4. Copy(s, seq[s] + 1) = [slot |-> s, gen |-> gen[s], block |-> seq[s] \div BlockTokens]
    BY <2>2 DEF Copy
  <2>5. seq[s] \div BlockTokens \in Blocks
    BY <2>2, <2>3 DEF Blocks
  <2>6. gen[s] \in Nat
    BY <2>1 DEF TypeOK
  <2>7. Copy(s, seq[s] + 1) \in Copies
    BY <2>1, <2>4, <2>5, <2>6 DEF Copies
  <2>8. Copy(s, seq[s] + 1) # NoCopy
    BY <2>2, <2>4 DEF NoCopy
  <2>9. ~Known(Copy(s, seq[s] + 1))
    BY <2>1, <2>2, <2>4, <2>6 DEF Known
  <2> QED
    BY <2>2, <2>4, <2>7, <2>8, <2>9
<1>2. Len(closing) \in Nat /\ DOMAIN closing = 1..Len(closing)
      /\ (\A i \in DOMAIN closing : closing[i] \in ToSet(closing))
      /\ (\A s \in ToSet(closing) : \E i \in DOMAIN closing : closing[i] = s)
  BY StepIs
<1>3. DOMAIN CopiesOf(closing) = 1..Len(closing)
      /\ \A i \in 1..Len(closing) : CopiesOf(closing)[i] = Copy(closing[i], seq[closing[i]] + 1)
  BY DEF CopiesOf
<1>4. \A i \in 1..Len(closing) : Copy(closing[i], seq[closing[i]] + 1) \in Copies
  BY <1>1, <1>2
<1>5. CopiesOf(closing) \in Seq(Copies)
  BY <1>2, <1>4 DEF CopiesOf
<1>6. ToSet(CopiesOf(closing)) = {Copy(s, seq[s] + 1) : s \in ToSet(closing)}
  <2>1. ASSUME NEW c \in ToSet(CopiesOf(closing)) PROVE \E s \in ToSet(closing) : c = Copy(s, seq[s] + 1)
    <3>1. PICK i \in 1..Len(closing) : c = CopiesOf(closing)[i]
      BY <1>3 DEF ToSet
    <3> QED
      BY <1>2, <1>3, <3>1
  <2>2. ASSUME NEW s \in ToSet(closing) PROVE Copy(s, seq[s] + 1) \in ToSet(CopiesOf(closing))
    <3>1. PICK i \in 1..Len(closing) : closing[i] = s
      BY <1>2
    <3>2. CopiesOf(closing)[i] = Copy(s, seq[s] + 1)
      BY <1>3, <3>1
    <3> QED
      BY <1>3, <3>2 DEF ToSet
  <2> QED
    BY <2>1, <2>2
<1> QED
  BY <1>1, <1>3, <1>5, <1>6

\* What a step queues: for each request a store and a selection, and between
\* them a close if its token closes a block; behind the copies of earlier
\* blocks, and with an event for the new one.
Shape(new, batch, closing) ==
    /\ new \in Seq(Ops)
    /\ \A i \in DOMAIN new : new[i].op \in Work =>
          /\ new[i].slot \in ToSet(batch) /\ new[i].seq = seq[new[i].slot] + 1
          /\ new[i].op = "close" => new[i].slot \in ToSet(closing)
    /\ \A i, j \in DOMAIN new :
          i < j /\ new[i].op \in Work /\ new[j].op \in Work /\ new[i].slot = new[j].slot
          => Rank[new[i].op] < Rank[new[j].op]
    /\ \A s \in ToSet(batch), o \in Work : (o = "close" => s \in ToSet(closing)) =>
          \E i \in DOMAIN new : new[i].op = o /\ new[i].slot = s
    /\ \A j \in DOMAIN new : new[j].op \in {"close", "resolve"} =>
          \A i \in DOMAIN copies : copies[i].slot = new[j].slot =>
             \A q : Joined(q, copies, CopiesOf(closing)) =>
                \E k \in DOMAIN q : i <= k /\ q[k] \in new[j].after
    /\ \A j \in DOMAIN new : new[j].op = "close" =>
          \E k \in DOMAIN new :
             j <= k /\ Copy(new[j].slot, seq[new[j].slot] + 1) \in new[k].ready
    /\ \A i \in DOMAIN new : new[i].ready \subseteq ToSet(CopiesOf(closing))
    /\ \A i \in DOMAIN new : \A c \in new[i].after : Known(c) \/ c \in ToSet(CopiesOf(closing))
    /\ \A i, k \in DOMAIN new : \A c \in new[i].after :
          ~Known(c) /\ new[k].ready # {} => k < i

Appended(new, batch, closing) ==
    /\ producer' = producer \o new /\ copies' = copies \o CopiesOf(closing)
    /\ seq' = Advance(batch)
    /\ UNCHANGED <<graph, gen, ring, hot, tokens, host, compact>>

\* The copies of a step are queued behind the others.
LEMMA CopyPlaces ==
    ASSUME TypeOK, NEW batch, NEW closing, Step(batch, closing),
           NEW q, Joined(q, copies, CopiesOf(closing))
    PROVE  /\ q \in Seq(Copies) /\ Len(copies) \in Nat /\ Len(q) \in Nat /\ DOMAIN q = 1..Len(q)
           /\ \A i \in DOMAIN copies : /\ i \in Nat \ {0} /\ i <= Len(copies)
                                       /\ i \in DOMAIN q /\ q[i] = copies[i]
           /\ \A s \in ToSet(closing) : \E i \in DOMAIN q :
                 Len(copies) < i /\ q[i] = Copy(s, seq[s] + 1)
           /\ \A i \in DOMAIN q :
                 /\ i \in Nat \ {0}
                 /\ \/ i \in DOMAIN copies
                    \/ Len(copies) < i /\ \E s \in ToSet(closing) : q[i] = Copy(s, seq[s] + 1)
           /\ closing # <<>> => /\ Len(q) \in DOMAIN q /\ q[Len(q)] = Last(CopiesOf(closing))
                                /\ Last(CopiesOf(closing)) \in ToSet(CopiesOf(closing))
<1> DEFINE more == CopiesOf(closing)
<1>1. copies \in Seq(Copies) /\ more \in Seq(Copies) /\ Joined(q, copies, more)
  BY NewCopies DEF TypeOK
<1>2. DOMAIN more = 1..Len(closing) /\ Len(closing) \in Nat /\ DOMAIN closing = 1..Len(closing)
      /\ (\A i \in 1..Len(closing) : more[i] = Copy(closing[i], seq[closing[i]] + 1))
      /\ (\A i \in DOMAIN closing : closing[i] \in ToSet(closing))
      /\ (\A s \in ToSet(closing) : \E i \in DOMAIN closing : closing[i] = s)
      /\ closing \in Seq(Slots)
  BY StepIs, NewCopies
<1> HIDE DEF more
<1>3. /\ q \in Seq(Copies) /\ Len(copies) \in Nat /\ Len(more) \in Nat
      /\ DOMAIN copies = 1..Len(copies) /\ DOMAIN more = 1..Len(more)
      /\ DOMAIN q = 1..(Len(copies) + Len(more)) /\ Len(q) = Len(copies) + Len(more)
      /\ \A i \in DOMAIN copies : i \in DOMAIN q /\ q[i] = copies[i]
      /\ \A i \in DOMAIN more : Len(copies) + i \in DOMAIN q /\ q[Len(copies) + i] = more[i]
      /\ \A i \in DOMAIN q : i \in DOMAIN copies \/ i - Len(copies) \in DOMAIN more
  BY <1>1, AppendIs
<1>4. ASSUME NEW i \in DOMAIN q, i \notin DOMAIN copies
      PROVE  Len(copies) < i /\ \E s \in ToSet(closing) : q[i] = Copy(s, seq[s] + 1)
  <2>1. i - Len(copies) \in DOMAIN more /\ i \in Nat
    BY <1>3, <1>4
  <2>2. q[Len(copies) + (i - Len(copies))] = more[i - Len(copies)]
    BY <1>3, <2>1
  <2>3. Len(copies) + (i - Len(copies)) = i /\ Len(copies) < i
    BY <1>2, <1>3, <2>1
  <2> QED
    BY <1>2, <2>1, <2>2, <2>3
<1>5. ASSUME NEW s \in ToSet(closing)
      PROVE  \E i \in DOMAIN q : Len(copies) < i /\ q[i] = Copy(s, seq[s] + 1)
  <2>1. PICK i \in DOMAIN closing : closing[i] = s
    BY <1>2, <1>5
  <2>2. Len(copies) + i \in DOMAIN q /\ q[Len(copies) + i] = Copy(s, seq[s] + 1)
        /\ Len(copies) < Len(copies) + i
    BY <1>2, <1>3, <2>1
  <2> QED
    BY <2>2
<1>6. ASSUME closing # <<>>
      PROVE  Len(q) \in DOMAIN q /\ q[Len(q)] = Last(more) /\ Last(more) \in ToSet(more)
  <2>1. Len(closing) # 0
    BY <1>2, <1>6, EmptySeq
  <2>2. Len(more) = Len(closing)
    BY <1>2, <1>3
  <2>3. Len(more) \in DOMAIN more
    BY <1>3, <2>1, <2>2
  <2> QED
    BY <1>3, <2>3 DEF Last, ToSet
<1>7. Len(q) \in Nat /\ DOMAIN q = 1..Len(q)
  BY <1>3
<1>8. \A i \in DOMAIN copies : i \in Nat \ {0} /\ i <= Len(copies)
  BY <1>3
<1>9. \A i \in DOMAIN q : i \in Nat \ {0}
  BY <1>3
<1> QED
  BY <1>3, <1>4, <1>5, <1>6, <1>7, <1>8, <1>9 DEF more

\* The places of old and new in what is queued after the step.
LEMMA Places ==
    ASSUME TypeOK, NEW new, NEW batch, NEW closing, Step(batch, closing),
           Shape(new, batch, closing), Appended(new, batch, closing)
    PROVE  /\ producer' \in Seq(Ops) /\ Len(producer) \in Nat
           /\ \A i \in DOMAIN producer : /\ i \in Nat \ {0} /\ i <= Len(producer)
                                         /\ i \in DOMAIN producer' /\ producer'[i] = producer[i]
           /\ \A i \in DOMAIN new : /\ i \in Nat \ {0} /\ Len(producer) + i \in DOMAIN producer'
                                    /\ producer'[Len(producer) + i] = new[i]
           /\ \A i \in DOMAIN producer' :
                 /\ i \in Nat \ {0}
                 /\ \/ i \in DOMAIN producer
                    \/ i - Len(producer) \in DOMAIN new /\ producer'[i] = new[i - Len(producer)]
           /\ copies' \in Seq(Copies) /\ Len(copies) \in Nat
           /\ \A i \in DOMAIN copies : /\ i \in Nat \ {0} /\ i <= Len(copies)
                                       /\ i \in DOMAIN copies' /\ copies'[i] = copies[i]
           /\ \A s \in ToSet(closing) : \E i \in DOMAIN copies' :
                 Len(copies) < i /\ copies'[i] = Copy(s, seq[s] + 1)
           /\ \A i \in DOMAIN copies' :
                 /\ i \in Nat \ {0}
                 /\ \/ i \in DOMAIN copies
                    \/ Len(copies) < i /\ \E s \in ToSet(closing) : copies'[i] = Copy(s, seq[s] + 1)
<1>1. producer \in Seq(Ops) /\ new \in Seq(Ops) /\ Joined(producer', producer, new)
  BY DEF TypeOK, Shape, Appended, Joined
<1>2. /\ producer' \in Seq(Ops) /\ Len(producer) \in Nat
      /\ DOMAIN producer = 1..Len(producer)
      /\ \A i \in DOMAIN producer : i \in DOMAIN producer' /\ producer'[i] = producer[i]
      /\ \A i \in DOMAIN new : /\ Len(producer) + i \in DOMAIN producer'
                               /\ producer'[Len(producer) + i] = new[i]
      /\ \A i \in DOMAIN producer' : i \in DOMAIN producer \/ i - Len(producer) \in DOMAIN new
      /\ DOMAIN new \subseteq Nat \ {0} /\ DOMAIN producer' \subseteq Nat \ {0}
  BY <1>1, AppendIs
<1>3. ASSUME NEW i \in DOMAIN producer', i \notin DOMAIN producer
      PROVE  i - Len(producer) \in DOMAIN new /\ producer'[i] = new[i - Len(producer)]
  <2>1. i - Len(producer) \in DOMAIN new /\ i \in Nat
    BY <1>2, <1>3
  <2>2. producer'[Len(producer) + (i - Len(producer))] = new[i - Len(producer)]
    BY <1>2, <2>1
  <2>3. Len(producer) + (i - Len(producer)) = i
    BY <1>2, <2>1
  <2> QED
    BY <2>1, <2>2, <2>3
<1>4. \A i \in DOMAIN producer : i \in Nat \ {0} /\ i <= Len(producer)
  BY <1>2
<1>5. /\ copies' \in Seq(Copies) /\ Len(copies) \in Nat
      /\ \A i \in DOMAIN copies : /\ i \in Nat \ {0} /\ i <= Len(copies)
                                  /\ i \in DOMAIN copies' /\ copies'[i] = copies[i]
      /\ \A s \in ToSet(closing) : \E i \in DOMAIN copies' :
            Len(copies) < i /\ copies'[i] = Copy(s, seq[s] + 1)
      /\ \A i \in DOMAIN copies' :
            /\ i \in Nat \ {0}
            /\ \/ i \in DOMAIN copies
               \/ Len(copies) < i /\ \E s \in ToSet(closing) : copies'[i] = Copy(s, seq[s] + 1)
  <2>1. Joined(copies', copies, CopiesOf(closing))
    BY DEF Appended, Joined
  <2> QED
    BY <2>1, CopyPlaces
<1> QED
  BY <1>2, <1>3, <1>4, <1>5

\* The leases of the batch are one token further.
LEMMA Advanced ==
    ASSUME TypeOK, NEW new, NEW batch, NEW closing, Step(batch, closing),
           Appended(new, batch, closing)
    PROVE  /\ seq' \in [Slots -> 0..MaxSeq]
           /\ \A s \in ToSet(batch) : seq'[s] = seq[s] + 1
           /\ \A s \in Slots : s \notin ToSet(batch) => seq'[s] = seq[s]
           /\ \A s \in Slots : /\ seq[s] \in Nat /\ seq'[s] \in Nat /\ seq[s] <= seq'[s]
                               /\ seq'[s] <= seq[s] + 1 /\ (seq'[s] = 0 <=> seq[s] = 0)
                               /\ seq[s] \div BlockTokens \in Nat
                               /\ seq[s] \div BlockTokens <= seq'[s] \div BlockTokens
           /\ \A s, b : Block(s, b)' = Block(s, b)
<1>1. ToSet(batch) \subseteq Slots /\ (\A s : Contains(batch, s) <=> s \in ToSet(batch))
      /\ (\A s \in ToSet(batch) : seq[s] \in Nat \ {0} /\ seq[s] + 1 <= MaxSeq)
  BY StepIs
<1>2. seq' = [s \in Slots |-> IF Contains(batch, s) THEN seq[s] + 1 ELSE seq[s]]
  BY DEF Appended, Advance
<1>3. /\ \A s \in ToSet(batch) : seq'[s] = seq[s] + 1
      /\ \A s \in Slots : s \notin ToSet(batch) => seq'[s] = seq[s]
  BY <1>1, <1>2
<1>4. MaxSeq \in Nat /\ \A s \in Slots : seq[s] \in Nat /\ seq[s] <= MaxSeq
  BY SizesAssumption DEF TypeOK
<1>5. \A s \in Slots : /\ seq'[s] \in Nat /\ seq[s] <= seq'[s] /\ seq'[s] <= MaxSeq
                       /\ seq'[s] <= seq[s] + 1 /\ (seq'[s] = 0 <=> seq[s] = 0)
  BY <1>1, <1>3, <1>4
<1>6. seq' \in [Slots -> 0..MaxSeq]
  BY <1>2, <1>4, <1>5
<1>7. \A s \in Slots : /\ seq[s] \div BlockTokens \in Nat
                       /\ seq[s] \div BlockTokens <= seq'[s] \div BlockTokens
  BY <1>4, <1>5, DivIs, BlocksGrow
<1>8. \A s, b : Block(s, b)' = Block(s, b)
  BY DEF Block, Appended
<1> QED
  BY <1>3, <1>4, <1>5, <1>6, <1>7, <1>8

\* What is queued after the step was queued, or is of the step.
LEMMA QueuedNext ==
    ASSUME TypeOK, NEW new, NEW batch, NEW closing, Step(batch, closing),
           Shape(new, batch, closing), Appended(new, batch, closing)
    PROVE  /\ \A o, s, t : Queued(o, s, t) => Queued(o, s, t)'
           /\ \A o \in Work : \A s, t : Queued(o, s, t)' =>
                 Queued(o, s, t) \/ (s \in ToSet(batch) /\ t = seq[s] + 1)
           /\ \A s \in ToSet(batch), o \in Work : \A t :
                 t = seq[s] + 1 /\ (o = "close" => s \in ToSet(closing)) => Queued(o, s, t)'
           /\ \A s, b : ClosePending(s, b) => ClosePending(s, b)'
<1>1. \A o, s, t : Queued(o, s, t) => Queued(o, s, t)'
  BY Places DEF Queued, Is
<1>2. ASSUME NEW o \in Work, NEW s, NEW t, Queued(o, s, t)', ~Queued(o, s, t)
      PROVE  s \in ToSet(batch) /\ t = seq[s] + 1
  <2>1. PICK i \in DOMAIN producer' : Is(i, o, s, t)'
    BY <1>2 DEF Queued
  <2>2. i \notin DOMAIN producer
    BY <1>2, <2>1, Places DEF Queued, Is
  <2>3. i - Len(producer) \in DOMAIN new /\ producer'[i] = new[i - Len(producer)]
    BY <2>2, Places
  <2> QED
    BY <1>2, <2>1, <2>3 DEF Shape, Is
<1>3. ASSUME NEW s \in ToSet(batch), NEW o \in Work, NEW t, t = seq[s] + 1,
             o = "close" => s \in ToSet(closing)
      PROVE  Queued(o, s, t)'
  <2>1. PICK i \in DOMAIN new : new[i].op = o /\ new[i].slot = s
    BY <1>3 DEF Shape
  <2>2. new[i].seq = t
    BY <1>3, <2>1 DEF Shape
  <2>3. Len(producer) + i \in DOMAIN producer' /\ producer'[Len(producer) + i] = new[i]
    BY Places
  <2> QED
    BY <2>1, <2>2, <2>3 DEF Queued, Is
<1>4. \A s, b : ClosePending(s, b) => ClosePending(s, b)'
  BY Places DEF ClosePending
<1>5. \A o \in Work : \A s, t : Queued(o, s, t)' =>
         Queued(o, s, t) \/ (s \in ToSet(batch) /\ t = seq[s] + 1)
  BY <1>2
<1>6. \A s \in ToSet(batch), o \in Work : \A t :
         t = seq[s] + 1 /\ (o = "close" => s \in ToSet(closing)) => Queued(o, s, t)'
  BY <1>3
<1> QED
  BY <1>1, <1>4, <1>5, <1>6

\* What a step queues is in order, belongs to it, and misses nothing.
LEMMA AppendQueue ==
    ASSUME TypeOK, QueueOK, NEW new, NEW batch, NEW closing, Step(batch, closing),
           Shape(new, batch, closing), Appended(new, batch, closing)
    PROVE  QueueOK'
<1>1. /\ ToSet(batch) \subseteq Slots
      /\ ToSet(closing) = {s \in ToSet(batch) : Closed(seq[s] + 1)}
      /\ \A s \in ToSet(batch) : seq[s] \in Nat \ {0}
  BY StepIs
<1>2. ASSUME NEW i \in DOMAIN producer', producer'[i].op \in Work
      PROVE  /\ producer'[i].seq \in Nat /\ producer'[i].slot \in Slots
             /\ \/ i \in DOMAIN producer /\ producer'[i] = producer[i]
                \/ /\ i - Len(producer) \in DOMAIN new /\ producer'[i] = new[i - Len(producer)]
                   /\ producer'[i].slot \in ToSet(batch)
                   /\ producer'[i].seq = seq[producer'[i].slot] + 1
                   /\ producer'[i].op = "close" => producer'[i].slot \in ToSet(closing)
  <2>1. CASE i \in DOMAIN producer
    <3>1. producer'[i] = producer[i]
      BY <2>1, Places
    <3> QED
      BY <1>2, <2>1, <3>1, OpIs
  <2>2. CASE i - Len(producer) \in DOMAIN new /\ producer'[i] = new[i - Len(producer)]
    <3>1. producer'[i].slot \in ToSet(batch) /\ producer'[i].seq = seq[producer'[i].slot] + 1
          /\ (producer'[i].op = "close" => producer'[i].slot \in ToSet(closing))
      BY <1>2, <2>2 DEF Shape
    <3> QED
      BY <1>1, <2>2, <3>1
  <2> QED
    BY <2>1, <2>2, Places
<1>3. InOrder'
  <2> SUFFICES ASSUME NEW i \in DOMAIN producer', NEW j \in DOMAIN producer', i < j,
                      producer'[i].op \in Work, producer'[j].op \in Work,
                      producer'[i].slot = producer'[j].slot
               PROVE  \/ producer'[i].seq < producer'[j].seq
                      \/ /\ producer'[i].seq = producer'[j].seq
                         /\ Rank[producer'[i].op] < Rank[producer'[j].op]
    BY DEF InOrder
  <2>1. i \in Nat /\ j \in Nat /\ Len(producer) \in Nat
    BY Places
  <2>2. CASE i \in DOMAIN producer /\ j \in DOMAIN producer
    <3>1. producer'[i] = producer[i] /\ producer'[j] = producer[j]
      BY <2>2, Places
    <3> QED
      BY <2>2, <3>1 DEF QueueOK, InOrder
  <2>3. CASE i \in DOMAIN producer /\ j \notin DOMAIN producer
    <3>1. producer'[i] = producer[i] /\ producer[i].seq \in 2..seq[producer[i].slot]
      BY <2>3, Places DEF QueueOK, Within
    <3>2. producer'[j].seq = seq[producer'[j].slot] + 1 /\ producer'[j].slot \in ToSet(batch)
      BY <1>2, <2>3
    <3> QED
      BY <1>1, <3>1, <3>2
  <2>4. CASE i \notin DOMAIN producer /\ j \notin DOMAIN producer
    <3>1. /\ i - Len(producer) \in DOMAIN new /\ producer'[i] = new[i - Len(producer)]
          /\ j - Len(producer) \in DOMAIN new /\ producer'[j] = new[j - Len(producer)]
          /\ producer'[i].seq = seq[producer'[i].slot] + 1
          /\ producer'[j].seq = seq[producer'[j].slot] + 1
      BY <1>2, <2>4
    <3>2. i - Len(producer) < j - Len(producer)
      BY <2>1
    <3> QED
      BY <3>1, <3>2 DEF Shape
  <2>5. CASE i \notin DOMAIN producer /\ j \in DOMAIN producer
    <3>1. j <= Len(producer) /\ i - Len(producer) \in Nat \ {0}
      BY <1>2, <2>5, Places
    <3> QED
      BY <2>1, <3>1
  <2> QED
    BY <2>2, <2>3, <2>4, <2>5
<1>4. Within'
  <2> SUFFICES ASSUME NEW i \in DOMAIN producer', producer'[i].op \in Work, NEW s,
                      s = producer'[i].slot
               PROVE  /\ producer'[i].seq \in 2..seq'[s]
                      /\ producer'[i].op = "close" => Closed(producer'[i].seq)
    BY DEF Within
  <2>1. s \in Slots /\ seq[s] \in Nat /\ seq'[s] \in Nat /\ seq[s] <= seq'[s]
    BY <1>2, Advanced
  <2>2. CASE i \in DOMAIN producer
    <3>1. producer'[i] = producer[i] /\ producer[i].seq \in 2..seq[s]
          /\ (producer[i].op = "close" => Closed(producer[i].seq))
      BY <2>2, Places DEF QueueOK, Within
    <3> QED
      BY <2>1, <3>1
  <2>3. CASE i \notin DOMAIN producer
    <3>1. s \in ToSet(batch) /\ producer'[i].seq = seq[s] + 1
          /\ (producer'[i].op = "close" => s \in ToSet(closing))
      BY <1>2, <2>3
    <3>2. seq'[s] = seq[s] + 1 /\ seq[s] \in Nat \ {0}
      BY <1>1, <3>1, Advanced
    <3> QED
      BY <1>1, <3>1, <3>2
  <2> QED
    BY <2>2, <2>3
<1>5. Complete'
  <2>1. ASSUME NEW i \in DOMAIN producer', producer'[i].op \in Work, NEW s, s = producer'[i].slot,
               NEW t \in producer'[i].seq..seq'[s], NEW o \in Work,
               o = "close" => Closed(t),
               t > producer'[i].seq \/ Rank[o] >= Rank[producer'[i].op]
        PROVE  Queued(o, s, t)'
    <3>1. s \in Slots /\ seq[s] \in Nat /\ seq'[s] \in Nat /\ t \in Nat
      BY <1>2, <2>1, Advanced
    <3>2. CASE t <= seq[s]
      <4>1. i \in DOMAIN producer /\ producer'[i] = producer[i]
        BY <1>2, <2>1, <3>1, <3>2
      <4>2. t \in producer[i].seq..seq[producer[i].slot]
        BY <1>2, <2>1, <3>1, <3>2, <4>1
      <4>3. Queued(o, s, t)
        BY <2>1, <4>1, <4>2 DEF QueueOK, Complete
      <4> QED
        BY <4>3, QueuedNext
    <3>3. CASE t > seq[s]
      <4>1. s \in ToSet(batch) /\ t = seq[s] + 1
        BY <2>1, <3>1, <3>3, Advanced
      <4>2. o = "close" => s \in ToSet(closing)
        BY <1>1, <2>1, <4>1
      <4> QED
        BY <4>1, <4>2, QueuedNext
    <3> QED
      BY <3>1, <3>2, <3>3
  <2> QED
    BY <2>1 DEF Complete, Queued, Is
<1> QED
  BY <1>3, <1>4, <1>5 DEF QueueOK

\* The device has done nothing yet of what is queued now.
LEMMA AppendDevice ==
    ASSUME TypeOK, QueueOK, DeviceOK, NEW new, NEW batch, NEW closing, Step(batch, closing),
           Shape(new, batch, closing), Appended(new, batch, closing)
    PROVE  DeviceOK'
<1> SUFFICES ASSUME NEW s \in Slots PROVE DeviceAt(s)'
  BY DEF DeviceOK
<1>1. DeviceAt(s) /\ ring'[s] = ring[s] /\ hot'[s] = hot[s] /\ tokens'[s] = tokens[s]
      /\ gen'[s] = gen[s]
  BY DEF DeviceOK, Appended
<1>2. seq[s] \in Nat /\ seq'[s] \in Nat /\ seq[s] <= seq'[s] /\ seq'[s] <= seq[s] + 1
      /\ (seq'[s] = 0 <=> seq[s] = 0) /\ (\A b : Block(s, b)' = Block(s, b))
      /\ (s \in ToSet(batch) <=> seq'[s] # seq[s])
  BY Advanced
<1>3. "store" \in Work /\ "close" \in Work
  BY DEF Work
<1>4. ASSUME NEW n, LastStored(s, n)' PROVE LastStored(s, n) /\ n \in 1..seq[s] /\ n \in 1..seq'[s]
  <2>1. n \in 1..seq'[s] /\ ~Queued("store", s, n)'
        /\ (n < seq'[s] => \A t : t = n + 1 => Queued("store", s, t)')
    BY <1>4 DEF LastStored
  <2>2. n <= seq[s]
    <3>1. CASE s \in ToSet(batch)
      <4>1. n # seq[s] + 1
        BY <1>3, <2>1, <3>1, QueuedNext
      <4> QED
        BY <1>2, <2>1, <4>1
    <3>2. CASE s \notin ToSet(batch)
      BY <1>2, <2>1, <3>2
    <3> QED
      BY <3>1, <3>2
  <2>3. ~Queued("store", s, n)
    BY <2>1, QueuedNext
  <2>4. ASSUME n < seq[s] PROVE Queued("store", s, n + 1)
    <3>1. \A t : t = n + 1 => Queued("store", s, t)'
      BY <1>2, <2>1, <2>4
    <3>2. \A t : t = n + 1 => t # seq[s] + 1
      BY <1>2, <2>1, <2>4
    <3>3. \A t : t = n + 1 => Queued("store", s, t)
      BY <1>3, <3>1, <3>2, QueuedNext
    <3> QED
      BY <3>3
  <2> QED
    BY <1>2, <2>1, <2>2, <2>3, <2>4 DEF LastStored
<1>5. RingTrue(s)'
  <2> SUFFICES ASSUME NEW n, LastStored(s, n)', Closed(n) => Queued("close", s, n)',
                      NEW i \in 1..Row(n)
               PROVE  ring'[s][i] = <<gen'[s], n - Row(n) + i>>
    BY DEF RingTrue
  <2>1. LastStored(s, n) /\ n \in 1..seq[s] /\ n # seq[s] + 1
    BY <1>2, <1>4
  <2>2. Closed(n) => Queued("close", s, n)
    BY <1>3, <2>1, QueuedNext
  <2> QED
    BY <1>1, <2>1, <2>2 DEF DeviceAt, RingTrue
<1>6. RowsTrue(s)'
  BY <1>1, <1>2 DEF DeviceAt, RowsTrue
<1>7. Resident(s)'
  BY <1>1, <1>4, QueuedNext DEF DeviceAt, Resident
<1>8. Newest(s)'
  BY <1>1, <1>4, QueuedNext DEF DeviceAt, Newest
<1> QED
  BY <1>5, <1>6, <1>7, <1>8 DEF DeviceAt

\* The copies of the step are behind the old ones, and of blocks not closed yet.
LEMMA AppendCopies ==
    ASSUME TypeOK, QueueOK, CopiesOK, NEW new, NEW batch, NEW closing, Step(batch, closing),
           Shape(new, batch, closing), Appended(new, batch, closing)
    PROVE  CopiesLive' /\ Waits' /\ HotHeld' /\ InHost'
<1>1. /\ ToSet(batch) \subseteq Slots
      /\ ToSet(closing) = {s \in ToSet(batch) : Closed(seq[s] + 1)}
      /\ \A s \in ToSet(batch) : seq[s] \in Nat \ {0}
  BY StepIs
<1>2. gen' = gen /\ hot' = hot /\ host' = host /\ \A s, b : Block(s, b)' = Block(s, b)
  BY Advanced DEF Appended
<1>3. ASSUME NEW s \in ToSet(closing)
      PROVE  /\ s \in Slots /\ s \in ToSet(batch) /\ Copy(s, seq[s] + 1).slot = s
             /\ Copy(s, seq[s] + 1).gen = gen[s]
             /\ Copy(s, seq[s] + 1).block = seq[s] \div BlockTokens
             /\ seq'[s] = seq[s] + 1 /\ seq[s] \in Nat
             /\ seq[s] \div BlockTokens \in Nat
             /\ (seq[s] + 1) \div BlockTokens = seq[s] \div BlockTokens + 1
             /\ seq'[s] \div BlockTokens = seq[s] \div BlockTokens + 1
  <2>1. s \in Slots /\ s \in ToSet(batch)
    BY <1>1, <1>3
  <2>2. seq'[s] = seq[s] + 1 /\ seq[s] \in Nat /\ seq[s] \div BlockTokens \in Nat
    BY <2>1, Advanced
  <2> QED
    BY <1>3, <2>1, <2>2, NewCopies
<1>4. CopiesLive'
  <2> SUFFICES ASSUME NEW i \in DOMAIN copies', NEW s, s = copies'[i].slot
               PROVE  /\ seq'[s] # 0 /\ gen[s] = copies'[i].gen
                      /\ copies'[i].block < seq'[s] \div BlockTokens
    BY <1>2 DEF CopiesLive
  <2>1. CASE i \in DOMAIN copies
    <3>1. copies'[i] = copies[i]
      BY <2>1, Places
    <3>2. s \in Slots /\ copies[i].block \in Nat
      BY <2>1, <3>1, CopyIs
    <3>3. seq[s] # 0 /\ gen[s] = copies[i].gen /\ copies[i].block < seq[s] \div BlockTokens
      BY <2>1, <3>1 DEF CopiesOK, CopiesLive
    <3>4. seq'[s] # 0 /\ seq[s] \div BlockTokens \in Nat /\ seq'[s] \in Nat
          /\ seq[s] \div BlockTokens <= seq'[s] \div BlockTokens
      BY <3>2, <3>3, Advanced
    <3>5. seq'[s] \div BlockTokens \in Nat
      BY <3>4, DivIs
    <3> QED
      BY <3>1, <3>2, <3>3, <3>4, <3>5
  <2>2. CASE \E r \in ToSet(closing) : copies'[i] = Copy(r, seq[r] + 1)
    BY <1>3, <2>2
  <2> QED
    BY <2>1, <2>2, Places
<1>5. Waits'
  <2> SUFFICES ASSUME NEW j \in DOMAIN producer', producer'[j].op \in {"close", "resolve"},
                      NEW i \in DOMAIN copies', copies'[i].slot = producer'[j].slot,
                      copies'[i].block + 1 < producer'[j].seq \div BlockTokens
               PROVE  \E k \in DOMAIN copies' : i <= k /\ copies'[k] \in producer'[j].after
    BY DEF Waits
  <2> DEFINE s == copies'[i].slot
             t == producer'[j].seq
  <2>1. producer'[j].op \in Work
    BY DEF Work
  <2>2. /\ s \in Slots /\ t \in Nat /\ seq[s] \in Nat
        /\ \/ j \in DOMAIN producer /\ producer'[j] = producer[j] /\ t <= seq[s]
           \/ j - Len(producer) \in DOMAIN new /\ producer'[j] = new[j - Len(producer)]
              /\ s \in ToSet(batch) /\ t = seq[s] + 1
    <3>1. CASE j \in DOMAIN producer
      <4>1. producer'[j] = producer[j]
        BY <3>1, Places
      <4>2. producer[j].slot \in Slots /\ t \in 2..seq[producer[j].slot]
        BY <2>1, <3>1, <4>1, OpIs DEF QueueOK, Within
      <4> QED
        BY <3>1, <4>1, <4>2, Advanced
    <3>2. CASE j - Len(producer) \in DOMAIN new /\ producer'[j] = new[j - Len(producer)]
      <4>1. s \in ToSet(batch) /\ t = seq[s] + 1
        BY <2>1, <3>2 DEF Shape
      <4> QED
        BY <1>1, <3>2, <4>1
    <3> QED
      BY <3>1, <3>2, Places
  <2>3. i \in DOMAIN copies /\ copies'[i] = copies[i]
    <3>1. ASSUME s \in ToSet(closing), copies'[i] = Copy(s, seq[s] + 1) PROVE FALSE
      <4>1. t \div BlockTokens <= seq[s] \div BlockTokens + 1
        <5>1. CASE t <= seq[s]
          <6>1. t \div BlockTokens <= seq[s] \div BlockTokens
            BY <2>2, <5>1, BlocksGrow
          <6>2. t \div BlockTokens \in Nat /\ seq[s] \div BlockTokens \in Nat
            BY <2>2, DivIs
          <6> QED
            BY <6>1, <6>2
        <5>2. CASE t = seq[s] + 1
          BY <1>3, <3>1, <5>2
        <5> QED
          BY <2>2, <5>1, <5>2
      <4>2. t \div BlockTokens \in Nat /\ seq[s] \div BlockTokens \in Nat
        BY <2>2, DivIs
      <4>3. copies'[i].block = seq[s] \div BlockTokens
        BY <1>3, <3>1
      <4> QED
        BY <4>1, <4>2, <4>3
    <3>2. i \in DOMAIN copies \/ \E r \in ToSet(closing) : copies'[i] = Copy(r, seq[r] + 1)
      BY Places
    <3>3. i \in DOMAIN copies => copies'[i] = copies[i]
      BY Places
    <3>4. \A r \in ToSet(closing) : copies'[i] = Copy(r, seq[r] + 1) => s = r
      BY <1>3
    <3> QED
      BY <3>1, <3>2, <3>3, <3>4
  <2>4. CASE j \in DOMAIN producer
    <3>1. producer'[j] = producer[j]
      BY <2>4, Places
    <3>2. PICK k \in DOMAIN copies : i <= k /\ copies[k] \in producer[j].after
      BY <2>3, <2>4, <3>1 DEF CopiesOK, Waits
    <3> QED
      BY <3>1, <3>2, Places
  <2>5. CASE j - Len(producer) \in DOMAIN new /\ producer'[j] = new[j - Len(producer)]
    <3>1. Joined(copies', copies, CopiesOf(closing))
      BY DEF Appended, Joined
    <3> QED
      BY <2>3, <2>5, <3>1 DEF Shape
  <2> QED
    BY <2>4, <2>5, Places
<1>6. HotHeld'
  <2> SUFFICES ASSUME NEW i \in DOMAIN copies', NEW s, NEW b, s = copies'[i].slot, b = copies'[i].block,
                      ~ClosePending(s, b)'
               PROVE  hot[s][Hot] = Block(s, b)
    BY <1>2 DEF HotHeld
  <2>1. CASE i \in DOMAIN copies
    <3>1. copies'[i] = copies[i] /\ ~ClosePending(s, b)
      BY <2>1, Places, QueuedNext
    <3> QED
      BY <2>1, <3>1 DEF CopiesOK, HotHeld
  <2>2. CASE \E r \in ToSet(closing) : copies'[i] = Copy(r, seq[r] + 1)
    <3>1. s \in ToSet(closing) /\ b = seq[s] \div BlockTokens
      BY <1>3, <2>2
    <3>2. \A t : t = seq[s] + 1 => Queued("close", s, t)'
      BY <1>3, <3>1, QueuedNext DEF Work
    <3>3. \A t : t = seq[s] + 1 => t \div BlockTokens = b + 1
      BY <1>3, <3>1
    <3> QED
      BY <3>2, <3>3 DEF Queued, Is, ClosePending
  <2> QED
    BY <2>1, <2>2, Places
<1>7. InHost'
  <2> SUFFICES ASSUME NEW s \in Slots, NEW b \in 0..(seq'[s] \div BlockTokens - 1),
                      ~Contains(copies', [slot |-> s, gen |-> gen[s], block |-> b])
               PROVE  host[s][b] = Block(s, b)
    BY <1>2 DEF InHost
  <2> DEFINE c == [slot |-> s, gen |-> gen[s], block |-> b]
  <2>1. \A i \in DOMAIN copies' : copies'[i] # c
    <3>1. DOMAIN copies' = 1..Len(copies')
      BY Places
    <3> QED
      BY <3>1 DEF Contains
  <2>2. ~Contains(copies, c)
    BY <2>1, Places, InCopies
  <2>3. b \in 0..(seq[s] \div BlockTokens - 1)
    <3>1. CASE s \in ToSet(closing)
      <4>1. PICK i \in DOMAIN copies' : copies'[i] = Copy(s, seq[s] + 1)
        BY <3>1, Places
      <4>2. Copy(s, seq[s] + 1) = [slot |-> s, gen |-> gen[s], block |-> seq[s] \div BlockTokens]
        BY <1>3, <3>1 DEF Copy
      <4>3. b # seq[s] \div BlockTokens
        BY <2>1, <4>1, <4>2
      <4> QED
        BY <1>3, <3>1, <4>3
    <3>2. CASE s \notin ToSet(closing)
      <4>1. seq'[s] \div BlockTokens = seq[s] \div BlockTokens
        <5>1. CASE s \in ToSet(batch)
          <6>1. seq'[s] = seq[s] + 1 /\ ~Closed(seq[s] + 1) /\ seq[s] \in Nat
            BY <1>1, <3>2, <5>1, Advanced
          <6> QED
            BY <6>1, NextToken
        <5>2. CASE s \notin ToSet(batch)
          BY <5>2, Advanced
        <5> QED
          BY <5>1, <5>2
      <4> QED
        BY <4>1
    <3> QED
      BY <3>1, <3>2
  <2> QED
    BY <2>2, <2>3 DEF CopiesOK, InHost
<1> QED
  BY <1>4, <1>5, <1>6, <1>7

\* A copy that is known stays known, and those of the step are known then.
LEMMA KnownNext ==
    ASSUME TypeOK, NEW new, NEW batch, NEW closing, Step(batch, closing),
           Appended(new, batch, closing)
    PROVE  /\ \A c \in Copies : Known(c) => Known(c)'
           /\ \A c \in ToSet(CopiesOf(closing)) : Known(c)' /\ ~Known(c)
<1>1. ASSUME NEW c \in Copies, Known(c) PROVE Known(c)'
  <2> DEFINE s == c.slot
  <2>1. s \in Slots /\ c.block \in Nat /\ gen'[s] = gen[s]
    BY DEF Copies, Blocks, Appended
  <2>2. /\ seq[s] = 0 => seq'[s] = 0
        /\ seq[s] \div BlockTokens \in Nat /\ seq'[s] \in Nat
        /\ seq[s] \div BlockTokens <= seq'[s] \div BlockTokens
    BY <2>1, Advanced
  <2>3. seq'[s] \div BlockTokens \in Nat
    BY <2>2, DivIs
  <2>4. c.block < seq[s] \div BlockTokens => c.block < seq'[s] \div BlockTokens
    BY <2>1, <2>2, <2>3
  <2> QED
    BY <1>1, <2>1, <2>2, <2>4 DEF Known
<1>2. ASSUME NEW c \in ToSet(CopiesOf(closing)) PROVE Known(c)' /\ ~Known(c)
  <2>1. PICK s \in ToSet(closing) : c = Copy(s, seq[s] + 1)
    BY NewCopies
  <2>2. s \in ToSet(batch) /\ s \in Slots
    BY <2>1, StepIs
  <2>3. /\ c.slot = s /\ c.gen = gen[s] /\ c.block = seq[s] \div BlockTokens
        /\ (seq[s] + 1) \div BlockTokens = seq[s] \div BlockTokens + 1 /\ ~Known(c)
    BY <2>1, NewCopies
  <2>4. seq'[s] = seq[s] + 1 /\ gen'[s] = gen[s] /\ seq[s] \div BlockTokens \in Nat
    BY <2>2, Advanced DEF Appended
  <2>5. c.block < seq'[s] \div BlockTokens
    BY <2>3, <2>4
  <2> QED
    BY <2>3, <2>4, <2>5 DEF Known
<1> QED
  BY <1>1, <1>2

\* The events of the step are of its own copies, which nothing queued waits for.
LEMMA AppendStreams ==
    ASSUME TypeOK, QueueOK, CopiesLive, StreamsOK, NEW new, NEW batch, NEW closing,
           Step(batch, closing), Shape(new, batch, closing), Appended(new, batch, closing),
           \A c \in {done'[r] : r \in Slots} \cup {graph_copy_done'} :
              c # NoCopy => \/ c \in Copies /\ Known(c)
                            \/ c \in ToSet(CopiesOf(closing))
    PROVE  StreamsOK'
<1>1. /\ ToSet(batch) \subseteq Slots /\ ToSet(closing) \subseteq ToSet(batch)
      /\ ToSet(CopiesOf(closing)) = {Copy(s, seq[s] + 1) : s \in ToSet(closing)}
      /\ \A s \in ToSet(closing) :
            /\ Copy(s, seq[s] + 1).slot = s /\ Copy(s, seq[s] + 1).block = seq[s] \div BlockTokens
            /\ (seq[s] + 1) \div BlockTokens = seq[s] \div BlockTokens + 1
  BY StepIs, NewCopies
<1>2. \A i \in DOMAIN producer : /\ producer[i].after \cup producer[i].ready \subseteq Copies
                                 /\ \A c \in producer[i].after \cup producer[i].ready : Known(c)
  BY OpIs DEF StreamsOK, AllKnown
<1>3. \A i \in DOMAIN new : /\ new[i].after \subseteq Copies
                            /\ new[i].ready \subseteq ToSet(CopiesOf(closing))
                            /\ \A c \in new[i].after : Known(c) \/ c \in ToSet(CopiesOf(closing))
  <2>1. new \in Seq(Ops)
    BY DEF Shape
  <2>2. ASSUME NEW i \in DOMAIN new PROVE new[i].after \subseteq Copies
    <3>1. new[i] \in Ops
      BY <2>1
    <3> QED
      BY <3>1 DEF Ops
  <2> QED
    BY <2>2 DEF Shape
<1>4. \A i \in DOMAIN copies : Known(copies[i])
  BY DEF CopiesLive, Known
<1>5. ReadyBehind'
  <2> SUFFICES ASSUME NEW i \in DOMAIN copies', NEW j \in DOMAIN producer',
                      producer'[j].op = "close", producer'[j].slot = copies'[i].slot,
                      producer'[j].seq \div BlockTokens = copies'[i].block + 1
               PROVE  \E k \in DOMAIN producer' : j <= k /\ copies'[i] \in producer'[k].ready
    BY DEF ReadyBehind
  <2> DEFINE s == copies'[i].slot
             t == producer'[j].seq
  <2>1. producer'[j].op \in Work
    BY DEF Work
  <2>2. CASE i \in DOMAIN copies
    <3>1. copies'[i] = copies[i]
      BY <2>2, Places
    <3>2. s \in Slots /\ copies[i].block \in Nat /\ copies[i].block < seq[s] \div BlockTokens
          /\ seq[s] \div BlockTokens \in Nat
      BY <2>2, <3>1, CopyIs, Advanced DEF CopiesLive
    <3>3. CASE j \in DOMAIN producer
      <4>1. producer'[j] = producer[j]
        BY <3>3, Places
      <4>2. PICK k \in DOMAIN producer : j <= k /\ copies[i] \in producer[k].ready
        BY <2>2, <3>1, <3>3, <4>1 DEF StreamsOK, ReadyBehind
      <4> QED
        BY <3>1, <4>2, Places
    <3>4. CASE j - Len(producer) \in DOMAIN new /\ producer'[j] = new[j - Len(producer)]
      <4>1. s \in ToSet(closing) /\ t = seq[s] + 1
        BY <2>1, <3>4 DEF Shape
      <4>2. t \div BlockTokens = seq[s] \div BlockTokens + 1
        BY <1>1, <4>1
      <4> QED
        BY <3>1, <3>2, <4>2
    <3> QED
      BY <3>3, <3>4, Places
  <2>3. CASE \E r \in ToSet(closing) : copies'[i] = Copy(r, seq[r] + 1)
    <3>1. s \in ToSet(closing) /\ copies'[i] = Copy(s, seq[s] + 1)
          /\ copies'[i].block = seq[s] \div BlockTokens
      BY <1>1, <2>3
    <3>2. s \in Slots /\ seq[s] \in Nat /\ seq[s] \div BlockTokens \in Nat
      BY <1>1, <3>1, Advanced
    <3>3. CASE j \in DOMAIN producer
      <4>1. producer[j].slot = s /\ producer[j].seq = t /\ producer[j].op \in Work
        BY <2>1, <3>3, Places
      <4>2. t \in Nat /\ t <= seq[s]
        BY <3>2, <3>3, <4>1 DEF QueueOK, Within
      <4>3. t \div BlockTokens <= seq[s] \div BlockTokens /\ t \div BlockTokens \in Nat
        BY <3>2, <4>2, BlocksGrow, DivIs
      <4> QED
        BY <3>1, <3>2, <4>3
    <3>4. CASE j - Len(producer) \in DOMAIN new /\ producer'[j] = new[j - Len(producer)]
      <4>1. PICK k \in DOMAIN new : j - Len(producer) <= k /\ copies'[i] \in new[k].ready
        BY <3>1, <3>4 DEF Shape
      <4>2. /\ Len(producer) + k \in DOMAIN producer' /\ producer'[Len(producer) + k] = new[k]
            /\ Len(producer) \in Nat /\ k \in Nat /\ j \in Nat
        BY Places
      <4>3. j <= Len(producer) + k
        BY <4>1, <4>2
      <4> QED
        BY <4>1, <4>2, <4>3
    <3> QED
      BY <3>3, <3>4, Places
  <2> QED
    BY <2>2, <2>3, Places
<1>6. AllKnown'
  <2>1. /\ \A c \in Copies : Known(c) => Known(c)'
        /\ \A c \in ToSet(CopiesOf(closing)) : Known(c)' /\ ~Known(c)
    BY KnownNext
  <2>2. ASSUME NEW i \in DOMAIN producer', NEW c, c \in producer'[i].after \cup producer'[i].ready
        PROVE  Known(c)'
    <3>1. CASE i \in DOMAIN producer
      <4>1. c \in Copies /\ Known(c)
        BY <1>2, <2>2, <3>1, Places
      <4> QED
        BY <2>1, <4>1
    <3>2. CASE i - Len(producer) \in DOMAIN new /\ producer'[i] = new[i - Len(producer)]
      <4>1. (c \in Copies /\ Known(c)) \/ c \in ToSet(CopiesOf(closing))
        BY <1>3, <2>2, <3>2
      <4> QED
        BY <2>1, <4>1
    <3> QED
      BY <3>1, <3>2, Places
  <2>3. ASSUME NEW c \in {done'[r] : r \in Slots} \cup {graph_copy_done'}, c # NoCopy
        PROVE  Known(c)'
    BY <2>1, <2>3
  <2> QED
    BY <2>2, <2>3 DEF AllKnown, Known
<1>7. WaitBehind'
  <2> SUFFICES ASSUME NEW i \in DOMAIN producer', NEW k \in DOMAIN producer',
                      NEW l \in DOMAIN copies', NEW m \in DOMAIN copies', m <= l,
                      copies'[l] \in producer'[i].after, copies'[m] \in producer'[k].ready
               PROVE  k < i
    BY DEF WaitBehind
  <2>1. \A c \in ToSet(CopiesOf(closing)) : ~Known(c)
    BY KnownNext
  <2>2. /\ i \in Nat /\ k \in Nat /\ Len(producer) \in Nat /\ l \in Nat /\ m \in Nat
        /\ Len(copies) \in Nat
        /\ i \in DOMAIN producer \/ (i \notin DOMAIN producer /\ i - Len(producer) \in DOMAIN new
                                       /\ producer'[i] = new[i - Len(producer)])
        /\ k \in DOMAIN producer \/ (k \notin DOMAIN producer /\ k - Len(producer) \in DOMAIN new
                                       /\ producer'[k] = new[k - Len(producer)])
    BY Places
  <2>3. \A n \in DOMAIN copies' : Known(copies'[n]) => n \in DOMAIN copies /\ copies'[n] = copies[n]
    BY <1>1, <2>1, Places
  <2>4. \A n \in DOMAIN copies' : ~Known(copies'[n]) => Len(copies) < n
    BY <1>4, Places
  <2>5. CASE i \in DOMAIN producer /\ k \in DOMAIN producer
    <3>1. producer'[i] = producer[i] /\ producer'[k] = producer[k]
      BY <2>5, Places
    <3>2. Known(copies'[l]) /\ Known(copies'[m])
      BY <1>2, <2>5, <3>1
    <3>3. l \in DOMAIN copies /\ copies'[l] = copies[l] /\ m \in DOMAIN copies /\ copies'[m] = copies[m]
      BY <2>3, <3>2
    <3> QED
      BY <2>5, <3>1, <3>3 DEF StreamsOK, WaitBehind
  <2>6. CASE i \notin DOMAIN producer /\ k \in DOMAIN producer
    <3>1. k <= Len(producer) /\ i - Len(producer) \in Nat \ {0}
      BY <2>2, <2>6, Places
    <3> QED
      BY <2>2, <3>1
  <2>7. CASE k \notin DOMAIN producer
    <3>1. k - Len(producer) \in DOMAIN new /\ producer'[k] = new[k - Len(producer)]
      BY <2>2, <2>7
    <3>2. ~Known(copies'[m])
      BY <1>3, <2>1, <3>1
    <3>3. ~Known(copies'[l])
      <4>1. Len(copies) < m
        BY <2>4, <3>2
      <4>2. l \notin DOMAIN copies
        <5>1. Len(copies) < l
          BY <2>2, <4>1
        <5>2. \A n \in DOMAIN copies : n <= Len(copies)
          BY Places
        <5> QED
          BY <2>2, <5>1, <5>2
      <4> QED
        BY <2>3, <4>2
    <3>4. i \notin DOMAIN producer
      <4>1. ASSUME i \in DOMAIN producer PROVE FALSE
        <5>1. producer'[i] = producer[i]
          BY <4>1, Places
        <5> QED
          BY <1>2, <3>3, <4>1, <5>1
      <4> QED
        BY <4>1
    <3>5. i - Len(producer) \in DOMAIN new /\ producer'[i] = new[i - Len(producer)]
      BY <2>2, <3>4
    <3>6. new[k - Len(producer)].ready # {} /\ copies'[l] \in new[i - Len(producer)].after
      BY <3>1, <3>5
    <3>7. k - Len(producer) < i - Len(producer)
      BY <3>1, <3>3, <3>5, <3>6 DEF Shape
    <3> QED
      BY <2>2, <3>7
  <2> QED
    BY <2>5, <2>6, <2>7
<1> QED
  BY <1>5, <1>6, <1>7 DEF StreamsOK

----------------------------------------------------------------------------
(* The two decode steps: without graphs, and as a replay.                  *)

\* One operation for each slot, in the order of the slots.
LEMMA EachIs ==
    ASSUME TypeOK, NEW slots \in Seq(Slots), NEW op \in Work, NEW after \in SUBSET Copies
    PROVE  /\ Each(slots, op, after) \in Seq(Ops) /\ Len(Each(slots, op, after)) = Len(slots)
           /\ Len(slots) \in Nat /\ DOMAIN Each(slots, op, after) = 1..Len(slots)
           /\ \A i \in 1..Len(slots) :
                 /\ slots[i] \in Slots
                 /\ Each(slots, op, after)[i] = [op |-> op, slot |-> slots[i],
                       seq |-> seq[slots[i]] + 1, after |-> after, ready |-> {}]
<1>1. Len(slots) \in Nat /\ \A i \in 1..Len(slots) : slots[i] \in Slots /\ seq[slots[i]] + 1 \in Nat
  BY DEF TypeOK
<1>2. \A i \in 1..Len(slots) : [op |-> op, slot |-> slots[i], seq |-> seq[slots[i]] + 1,
                                after |-> after, ready |-> {}] \in Ops
  BY <1>1 DEF Ops
<1>3. Each(slots, op, after) \in Seq(Ops)
  BY <1>1, <1>2 DEF Each
<1>4. Len(Each(slots, op, after)) = Len(slots) /\ DOMAIN Each(slots, op, after) = 1..Len(slots)
  BY <1>1 DEF Each
<1>5. \A i \in 1..Len(slots) :
         Each(slots, op, after)[i] = [op |-> op, slot |-> slots[i],
            seq |-> seq[slots[i]] + 1, after |-> after, ready |-> {}]
  BY DEF Each
<1> QED
  BY <1>1, <1>3, <1>4, <1>5

\* The parts of two in a row.
LEMMA TwoParts ==
    ASSUME NEW S, NEW a \in Seq(S), NEW b \in Seq(S), NEW new, Joined(new, a, b)
    PROVE  /\ new \in Seq(S) /\ Len(a) \in Nat /\ Len(b) \in Nat
           /\ Len(new) = Len(a) + Len(b) /\ DOMAIN new = 1..Len(new)
           /\ \A i \in 1..Len(a) : i \in DOMAIN new /\ new[i] = a[i]
           /\ \A i \in 1..Len(b) : Len(a) + i \in DOMAIN new /\ new[Len(a) + i] = b[i]
           /\ \A i \in DOMAIN new : /\ i \in Nat \ {0}
                                    /\ i \in 1..Len(a) \/ i - Len(a) \in 1..Len(b)
<1>1. /\ new \in Seq(S) /\ Len(a) \in Nat /\ Len(b) \in Nat
      /\ Len(new) = Len(a) + Len(b) /\ DOMAIN new = 1..(Len(a) + Len(b))
      /\ \A i \in 1..Len(a) : i \in DOMAIN new /\ new[i] = a[i]
      /\ \A i \in 1..Len(b) : Len(a) + i \in DOMAIN new /\ new[Len(a) + i] = b[i]
      /\ \A i \in DOMAIN new : i \in 1..Len(a) \/ i - Len(a) \in 1..Len(b)
  BY AppendIs
<1>2. DOMAIN new = 1..Len(new) /\ \A i \in DOMAIN new : i \in Nat \ {0}
  BY <1>1
<1> QED
  BY <1>1, <1>2

\* The parts of three in a row.
LEMMA ThreeParts ==
    ASSUME NEW S, NEW a \in Seq(S), NEW b \in Seq(S), NEW c \in Seq(S), NEW ab, NEW new,
           Joined(ab, a, b), Joined(new, ab, c)
    PROVE  /\ new \in Seq(S) /\ Len(a) \in Nat /\ Len(b) \in Nat /\ Len(c) \in Nat
           /\ Len(new) = Len(a) + Len(b) + Len(c) /\ DOMAIN new = 1..Len(new)
           /\ \A i \in 1..Len(a) : i \in DOMAIN new /\ new[i] = a[i]
           /\ \A i \in 1..Len(b) : Len(a) + i \in DOMAIN new /\ new[Len(a) + i] = b[i]
           /\ \A i \in 1..Len(c) : Len(a) + Len(b) + i \in DOMAIN new
                                   /\ new[Len(a) + Len(b) + i] = c[i]
           /\ \A i \in DOMAIN new :
                 /\ i \in Nat \ {0}
                 /\ \/ i \in 1..Len(a)
                    \/ i - Len(a) \in 1..Len(b)
                    \/ i - Len(a) - Len(b) \in 1..Len(c)
<1>1. /\ ab \in Seq(S) /\ Len(a) \in Nat /\ Len(b) \in Nat
      /\ Len(ab) = Len(a) + Len(b) /\ DOMAIN ab = 1..Len(ab)
      /\ \A i \in 1..Len(a) : i \in DOMAIN ab /\ ab[i] = a[i]
      /\ \A i \in 1..Len(b) : Len(a) + i \in DOMAIN ab /\ ab[Len(a) + i] = b[i]
      /\ \A i \in DOMAIN ab : /\ i \in Nat \ {0}
                              /\ i \in 1..Len(a) \/ i - Len(a) \in 1..Len(b)
  BY TwoParts
<1>2. /\ new \in Seq(S) /\ Len(ab) \in Nat /\ Len(c) \in Nat
      /\ Len(new) = Len(ab) + Len(c) /\ DOMAIN new = 1..Len(new)
      /\ \A i \in 1..Len(ab) : i \in DOMAIN new /\ new[i] = ab[i]
      /\ \A i \in 1..Len(c) : Len(ab) + i \in DOMAIN new /\ new[Len(ab) + i] = c[i]
      /\ \A i \in DOMAIN new : /\ i \in Nat \ {0}
                               /\ i \in 1..Len(ab) \/ i - Len(ab) \in 1..Len(c)
  <2>1. ab \in Seq(S)
    BY <1>1
  <2> QED
    BY <2>1, TwoParts
<1>3. \A i \in 1..Len(a) : i \in DOMAIN new /\ new[i] = a[i]
  BY <1>1, <1>2
<1>4. \A i \in 1..Len(b) : Len(a) + i \in DOMAIN new /\ new[Len(a) + i] = b[i]
  BY <1>1, <1>2
<1>5. \A i \in 1..Len(c) : Len(a) + Len(b) + i \in DOMAIN new /\ new[Len(a) + Len(b) + i] = c[i]
  BY <1>1, <1>2
<1>6. ASSUME NEW i \in DOMAIN new
      PROVE  /\ i \in Nat \ {0}
             /\ \/ i \in 1..Len(a)
                \/ i - Len(a) \in 1..Len(b)
                \/ i - Len(a) - Len(b) \in 1..Len(c)
  <2>1. i \in Nat \ {0}
    BY <1>1, <1>2
  <2>2. CASE i \in 1..Len(ab)
    BY <1>1, <2>1, <2>2
  <2>3. CASE i - Len(ab) \in 1..Len(c)
    BY <1>1, <1>2, <2>1, <2>3
  <2> QED
    BY <1>2, <2>1, <2>2, <2>3
<1> QED
  BY <1>1, <1>2, <1>3, <1>4, <1>5, <1>6

\* The stores, the closes and the selections of a step, at their places.
Parts(new, batch, closing) ==
    LET n == Len(batch)
        m == Len(closing)
    IN  /\ \A i \in 1..n : /\ i \in DOMAIN new /\ new[i].op = "store" /\ new[i].slot = batch[i]
                           /\ new[i].seq = seq[batch[i]] + 1 /\ new[i].ready = {}
        /\ \A i \in 1..m : /\ n + i \in DOMAIN new /\ new[n + i].op = "close"
                           /\ new[n + i].slot = closing[i]
                           /\ new[n + i].seq = seq[closing[i]] + 1
        /\ \A i \in 1..n : /\ n + m + i \in DOMAIN new /\ new[n + m + i].op = "resolve"
                           /\ new[n + m + i].slot = batch[i]
                           /\ new[n + m + i].seq = seq[batch[i]] + 1 /\ new[n + m + i].ready = {}
        /\ \A i \in DOMAIN new :
              /\ i \in Nat \ {0}
              /\ new[i].op \in Work =>
                    \/ i \in 1..n
                    \/ i - n \in 1..m
                    \/ i - n - m \in 1..n

\* What follows from the places alone.
LEMMA PartsShape ==
    ASSUME TypeOK, NEW new, NEW batch, NEW closing, Step(batch, closing),
           Parts(new, batch, closing)
    PROVE  /\ \A i \in DOMAIN new : new[i].op \in Work =>
                 /\ new[i].slot \in ToSet(batch) /\ new[i].seq = seq[new[i].slot] + 1
                 /\ new[i].op = "close" => new[i].slot \in ToSet(closing)
           /\ \A i, j \in DOMAIN new :
                 i < j /\ new[i].op \in Work /\ new[j].op \in Work /\ new[i].slot = new[j].slot
                 => Rank[new[i].op] < Rank[new[j].op]
           /\ \A s \in ToSet(batch), o \in Work : (o = "close" => s \in ToSet(closing)) =>
                 \E i \in DOMAIN new : new[i].op = o /\ new[i].slot = s
<1> DEFINE n == Len(batch)
           m == Len(closing)
<1>1. /\ n \in Nat /\ m \in Nat /\ DOMAIN batch = 1..n /\ DOMAIN closing = 1..m
      /\ \A i \in DOMAIN batch : batch[i] \in ToSet(batch)
      /\ \A i, j \in DOMAIN batch : batch[i] = batch[j] => i = j
      /\ \A s \in ToSet(batch) : \E i \in DOMAIN batch : batch[i] = s
      /\ ToSet(closing) = {s \in ToSet(batch) : Closed(seq[s] + 1)}
      /\ \A i \in DOMAIN closing : closing[i] \in ToSet(closing)
      /\ \A i, j \in DOMAIN closing : closing[i] = closing[j] => i = j
      /\ \A s \in ToSet(closing) : \E i \in DOMAIN closing : closing[i] = s
  BY StepIs
<1>2. /\ \A i \in 1..n : /\ i \in DOMAIN new /\ new[i].op = "store" /\ new[i].slot = batch[i]
                         /\ new[i].seq = seq[batch[i]] + 1
      /\ \A i \in 1..m : /\ n + i \in DOMAIN new /\ new[n + i].op = "close"
                         /\ new[n + i].slot = closing[i]
                         /\ new[n + i].seq = seq[closing[i]] + 1
      /\ \A i \in 1..n : /\ n + m + i \in DOMAIN new /\ new[n + m + i].op = "resolve"
                         /\ new[n + m + i].slot = batch[i]
                         /\ new[n + m + i].seq = seq[batch[i]] + 1
      /\ \A i \in DOMAIN new :
            /\ i \in Nat \ {0}
            /\ new[i].op \in Work => i \in 1..n \/ i - n \in 1..m \/ i - n - m \in 1..n
  BY DEF Parts
<1> HIDE DEF n, m
<1>3. ASSUME NEW i \in DOMAIN new, new[i].op \in Work
      PROVE  /\ i \in Nat
             /\ \/ /\ i \in 1..n /\ new[i].op = "store" /\ new[i].slot = batch[i]
                   /\ new[i].seq = seq[batch[i]] + 1
                \/ /\ i - n \in 1..m /\ new[i].op = "close" /\ new[i].slot = closing[i - n]
                   /\ new[i].seq = seq[closing[i - n]] + 1
                \/ /\ i - n - m \in 1..n /\ new[i].op = "resolve" /\ new[i].slot = batch[i - n - m]
                   /\ new[i].seq = seq[batch[i - n - m]] + 1
  <2>1. i \in Nat
    BY <1>2
  <2>2. CASE i \in 1..n
    BY <1>2, <2>1, <2>2
  <2>3. CASE i - n \in 1..m
    <3>1. n + (i - n) = i
      BY <1>1, <2>1
    <3> QED
      BY <1>2, <2>1, <2>3, <3>1
  <2>4. CASE i - n - m \in 1..n
    <3>1. n + m + (i - n - m) = i
      BY <1>1, <2>1
    <3> QED
      BY <1>2, <2>1, <2>4, <3>1
  <2> QED
    BY <1>2, <1>3, <2>2, <2>3, <2>4
<1>4. ASSUME NEW i \in DOMAIN new, new[i].op \in Work
      PROVE  /\ new[i].slot \in ToSet(batch) /\ new[i].seq = seq[new[i].slot] + 1
             /\ new[i].op = "close" => new[i].slot \in ToSet(closing)
  <2>1. CASE i \in 1..n /\ new[i].op = "store" /\ new[i].slot = batch[i]
             /\ new[i].seq = seq[batch[i]] + 1
    BY <1>1, <2>1
  <2>2. CASE i - n \in 1..m /\ new[i].op = "close" /\ new[i].slot = closing[i - n]
             /\ new[i].seq = seq[closing[i - n]] + 1
    BY <1>1, <2>2
  <2>3. CASE i - n - m \in 1..n /\ new[i].op = "resolve" /\ new[i].slot = batch[i - n - m]
             /\ new[i].seq = seq[batch[i - n - m]] + 1
    BY <1>1, <2>3
  <2> QED
    BY <1>3, <1>4, <2>1, <2>2, <2>3
<1>5. ASSUME NEW i \in DOMAIN new, NEW j \in DOMAIN new, i < j, new[i].op \in Work,
             new[j].op \in Work, new[i].slot = new[j].slot
      PROVE  Rank[new[i].op] < Rank[new[j].op]
  <2>1. Rank["store"] = 1 /\ Rank["close"] = 2 /\ Rank["resolve"] = 3
    BY DEF Rank, Work
  <2>2. i \in Nat /\ j \in Nat
    BY <1>2
  <2>3. CASE i \in 1..n /\ new[i].op = "store" /\ new[i].slot = batch[i]
    <3>1. ~(j \in 1..n /\ new[j].slot = batch[j])
      BY <1>1, <1>5, <2>2, <2>3
    <3>2. new[j].op \in {"close", "resolve"}
      BY <1>3, <1>5, <3>1
    <3> QED
      BY <2>1, <2>3, <3>2
  <2>4. CASE i - n \in 1..m /\ new[i].op = "close" /\ new[i].slot = closing[i - n]
    <3>1. j \notin 1..n
      BY <1>1, <1>5, <2>2, <2>4
    <3>2. ~(j - n \in 1..m /\ new[j].slot = closing[j - n])
      BY <1>1, <1>5, <2>2, <2>4
    <3>3. new[j].op = "resolve"
      BY <1>3, <1>5, <3>1, <3>2
    <3> QED
      BY <2>1, <2>4, <3>3
  <2>5. CASE i - n - m \in 1..n /\ new[i].op = "resolve" /\ new[i].slot = batch[i - n - m]
    <3>1. j \notin 1..n /\ j - n \notin 1..m
      BY <1>1, <1>5, <2>2, <2>5
    <3>2. ~(j - n - m \in 1..n /\ new[j].slot = batch[j - n - m])
      BY <1>1, <1>5, <2>2, <2>5
    <3> QED
      BY <1>3, <1>5, <3>1, <3>2
  <2> QED
    BY <1>3, <1>5, <2>3, <2>4, <2>5
<1>6. ASSUME NEW s \in ToSet(batch), NEW o \in Work, o = "close" => s \in ToSet(closing)
      PROVE  \E i \in DOMAIN new : new[i].op = o /\ new[i].slot = s
  <2>1. PICK i \in 1..n : batch[i] = s
    BY <1>1, <1>6
  <2>2. CASE o = "store"
    BY <1>2, <2>1, <2>2
  <2>3. CASE o = "close"
    <3>1. PICK j \in 1..m : closing[j] = s
      BY <1>1, <1>6, <2>3
    <3> QED
      BY <1>2, <2>3, <3>1
  <2>4. CASE o = "resolve"
    BY <1>2, <2>1, <2>4
  <2> QED
    BY <2>2, <2>3, <2>4 DEF Work
<1>7. \A i \in DOMAIN new : new[i].op \in Work =>
         /\ new[i].slot \in ToSet(batch) /\ new[i].seq = seq[new[i].slot] + 1
         /\ new[i].op = "close" => new[i].slot \in ToSet(closing)
  BY <1>4
<1>8. \A i, j \in DOMAIN new :
         i < j /\ new[i].op \in Work /\ new[j].op \in Work /\ new[i].slot = new[j].slot
         => Rank[new[i].op] < Rank[new[j].op]
  BY <1>5
<1>9. \A s \in ToSet(batch), o \in Work : (o = "close" => s \in ToSet(closing)) =>
         \E i \in DOMAIN new : new[i].op = o /\ new[i].slot = s
  BY <1>6
<1> QED
  BY <1>7, <1>8, <1>9

\* Without graphs: a close waits for the last copy of its own request and
\* records the event of the new one; a selection waits for them all.
LEMMA EagerShape ==
    ASSUME TypeOK, CopiesOK, StreamsOK, NEW batch, NEW closing, Step(batch, closing),
           NEW new, new = Eager(batch, closing)
    PROVE  Shape(new, batch, closing)
<1> DEFINE n == Len(batch)
           m == Len(closing)
           last == DoneOf(batch, closing)
           stores == Each(batch, "store", {})
           closes == CloseEager(closing)
           resolves == Each(batch, "resolve", last)
           front == stores \o closes
<1>1. /\ batch \in Seq(Slots) /\ closing \in Seq(Slots) /\ n \in Nat /\ m \in Nat
      /\ ToSet(batch) \subseteq Slots /\ ToSet(closing) \subseteq ToSet(batch)
      /\ \A i \in 1..n : batch[i] \in ToSet(batch)
      /\ \A i \in 1..m : closing[i] \in ToSet(closing)
      /\ \A s : Contains(closing, s) <=> s \in ToSet(closing)
  BY StepIs
<1>2. /\ \A s \in ToSet(closing) : Copy(s, seq[s] + 1) \in Copies /\ Copy(s, seq[s] + 1) # NoCopy
      /\ ToSet(CopiesOf(closing)) = {Copy(s, seq[s] + 1) : s \in ToSet(closing)}
  BY NewCopies
<1>3. /\ \A s \in Slots : done[s] \in Copies \cup {NoCopy}
      /\ \A s \in Slots : \A x \in Awaited(done[s]) : x \in Copies /\ Known(x)
  BY DEF TypeOK, Awaited, StreamsOK, AllKnown
<1>4. \A s \in ToSet(batch) : DoneAfter(closing)[s] =
         IF s \in ToSet(closing) THEN Copy(s, seq[s] + 1) ELSE done[s]
  BY <1>1 DEF DoneAfter
<1>5. \A x \in last : /\ x \in Copies
                      /\ Known(x) \/ x \in ToSet(CopiesOf(closing))
  <2> SUFFICES ASSUME NEW s \in ToSet(batch), NEW x, x \in Awaited(DoneAfter(closing)[s])
               PROVE  x \in Copies /\ (Known(x) \/ x \in ToSet(CopiesOf(closing)))
    BY DEF DoneOf
  <2>1. CASE s \in ToSet(closing)
    BY <1>2, <1>4, <2>1 DEF Awaited
  <2>2. CASE s \notin ToSet(closing)
    BY <1>1, <1>3, <1>4, <2>2
  <2> QED
    BY <2>1, <2>2
<1>6. last \in SUBSET Copies
  BY <1>5
<1> HIDE DEF last
<1>7. /\ stores \in Seq(Ops) /\ Len(stores) = n
      /\ \A i \in 1..n : stores[i] = [op |-> "store", slot |-> batch[i], seq |-> seq[batch[i]] + 1,
                                 after |-> {}, ready |-> {}]
  BY <1>1, EachIs DEF Work
<1>8. /\ resolves \in Seq(Ops) /\ Len(resolves) = n
      /\ \A i \in 1..n : resolves[i] = [op |-> "resolve", slot |-> batch[i], seq |-> seq[batch[i]] + 1,
                                 after |-> last, ready |-> {}]
  BY <1>1, <1>6, EachIs DEF Work
<1>9. /\ closes \in Seq(Ops) /\ Len(closes) = m
      /\ \A i \in 1..m : closes[i] = [op |-> "close", slot |-> closing[i], seq |-> seq[closing[i]] + 1,
                                 after |-> Awaited(done[closing[i]]),
                                 ready |-> {Copy(closing[i], seq[closing[i]] + 1)}]
  <2>1. \A i \in 1..m : closes[i] = [op |-> "close", slot |-> closing[i], seq |-> seq[closing[i]] + 1,
                                after |-> Awaited(done[closing[i]]),
                                ready |-> {Copy(closing[i], seq[closing[i]] + 1)}]
    BY DEF CloseEager
  <2>2. \A i \in 1..m : closes[i] \in Ops
    <3>1. \A i \in 1..m : /\ closing[i] \in Slots /\ seq[closing[i]] + 1 \in Nat
                          /\ Awaited(done[closing[i]]) \in SUBSET Copies
                          /\ {Copy(closing[i], seq[closing[i]] + 1)} \in SUBSET Copies
      <4>1. \A i \in 1..m : closing[i] \in ToSet(closing) /\ closing[i] \in Slots
        BY <1>1
      <4>2. \A i \in 1..m : seq[closing[i]] + 1 \in Nat
        BY <4>1 DEF TypeOK
      <4> QED
        BY <1>2, <1>3, <4>1, <4>2
    <3>2. \A i \in 1..m : [op |-> "close", slot |-> closing[i], seq |-> seq[closing[i]] + 1,
                           after |-> Awaited(done[closing[i]]),
                           ready |-> {Copy(closing[i], seq[closing[i]] + 1)}] \in Ops
      BY <3>1 DEF Ops, Work
    <3> QED
      BY <2>1, <3>2
  <2>3. Len(closes) = m /\ DOMAIN closes = 1..m
    BY <1>1 DEF CloseEager
  <2>4. closes \in Seq(Ops)
    BY <1>1, <2>2 DEF CloseEager
  <2> QED
    BY <2>1, <2>3, <2>4
<1>10. Joined(front, stores, closes) /\ Joined(new, front, resolves)
  BY DEF Eager, last, Joined
<1> HIDE DEF stores, closes, resolves, front
<1>11. /\ new \in Seq(Ops)
       /\ \A i \in 1..n : i \in DOMAIN new /\ new[i] = stores[i]
       /\ \A i \in 1..m : n + i \in DOMAIN new /\ new[n + i] = closes[i]
       /\ \A i \in 1..n : n + m + i \in DOMAIN new /\ new[n + m + i] = resolves[i]
       /\ \A i \in DOMAIN new :
             /\ i \in Nat \ {0}
             /\ i \in 1..n \/ i - n \in 1..m \/ i - n - m \in 1..n
  <2>1. stores \in Seq(Ops) /\ closes \in Seq(Ops) /\ resolves \in Seq(Ops)
    BY <1>7, <1>8, <1>9
  <2>2. /\ new \in Seq(Ops)
        /\ \A i \in 1..Len(stores) : i \in DOMAIN new /\ new[i] = stores[i]
        /\ \A i \in 1..Len(closes) : /\ Len(stores) + i \in DOMAIN new
                                     /\ new[Len(stores) + i] = closes[i]
        /\ \A i \in 1..Len(resolves) : /\ Len(stores) + Len(closes) + i \in DOMAIN new
                                       /\ new[Len(stores) + Len(closes) + i] = resolves[i]
        /\ \A i \in DOMAIN new :
              /\ i \in Nat \ {0}
              /\ \/ i \in 1..Len(stores)
                 \/ i - Len(stores) \in 1..Len(closes)
                 \/ i - Len(stores) - Len(closes) \in 1..Len(resolves)
    BY <1>10, <2>1, ThreeParts
  <2>3. Len(stores) = n /\ Len(closes) = m /\ Len(resolves) = n
    BY <1>7, <1>8, <1>9
  <2> HIDE DEF n, m
  <2> QED
    BY <1>1, <2>2, <2>3
<1> HIDE DEF n, m
<1>12. Parts(new, batch, closing)
  <2>1. \A i \in 1..n : /\ i \in DOMAIN new /\ new[i].op = "store" /\ new[i].slot = batch[i]
                        /\ new[i].seq = seq[batch[i]] + 1 /\ new[i].ready = {}
    BY <1>7, <1>11
  <2>2. \A i \in 1..m : /\ n + i \in DOMAIN new /\ new[n + i].op = "close"
                        /\ new[n + i].slot = closing[i]
                        /\ new[n + i].seq = seq[closing[i]] + 1
    BY <1>9, <1>11
  <2>3. \A i \in 1..n : /\ n + m + i \in DOMAIN new /\ new[n + m + i].op = "resolve"
                        /\ new[n + m + i].slot = batch[i]
                        /\ new[n + m + i].seq = seq[batch[i]] + 1 /\ new[n + m + i].ready = {}
    BY <1>8, <1>11
  <2>4. \A i \in DOMAIN new :
           /\ i \in Nat \ {0}
           /\ new[i].op \in Work =>
                 \/ i \in 1..n
                 \/ i - n \in 1..m
                 \/ i - n - m \in 1..n
    BY <1>11
  <2> QED
    BY <2>1, <2>2, <2>3, <2>4 DEF Parts, n, m
<1>13. ASSUME NEW i \in DOMAIN new
       PROVE  /\ i \in Nat
              /\ \/ i \in 1..n /\ new[i] = stores[i]
                 \/ i - n \in 1..m /\ new[i] = closes[i - n]
                 \/ i - n - m \in 1..n /\ new[i] = resolves[i - n - m]
  <2>1. i \in Nat
    BY <1>11
  <2>2. CASE i \in 1..n
    BY <1>11, <2>1, <2>2
  <2>3. CASE i - n \in 1..m
    <3>1. n + (i - n) = i
      BY <1>1, <2>1
    <3>2. new[n + (i - n)] = closes[i - n]
      BY <1>11, <2>3
    <3> QED
      BY <2>1, <2>3, <3>1, <3>2
  <2>4. CASE i - n - m \in 1..n
    <3>1. n + m + (i - n - m) = i
      BY <1>1, <2>1
    <3>2. new[n + m + (i - n - m)] = resolves[i - n - m]
      BY <1>11, <2>4
    <3> QED
      BY <2>1, <2>4, <3>1, <3>2
  <2> QED
    BY <1>11, <2>2, <2>3, <2>4
<1>14. ASSUME NEW i \in DOMAIN new
       PROVE  /\ i \in Nat
              /\ \/ i \in 1..n /\ new[i].op = "store" /\ new[i].after = {} /\ new[i].ready = {}
                 \/ /\ i - n \in 1..m /\ new[i].op = "close" /\ new[i].slot \in ToSet(closing)
                    /\ new[i].after = Awaited(done[new[i].slot])
                    /\ new[i].ready = {Copy(new[i].slot, seq[new[i].slot] + 1)}
                 \/ /\ i - n - m \in 1..n /\ new[i].op = "resolve" /\ new[i].slot \in ToSet(batch)
                    /\ new[i].after = last /\ new[i].ready = {}
  <2>1. CASE i \in 1..n /\ new[i] = stores[i]
    BY <1>7, <1>13, <2>1
  <2>2. CASE i - n \in 1..m /\ new[i] = closes[i - n]
    BY <1>1, <1>9, <1>13, <2>2
  <2>3. CASE i - n - m \in 1..n /\ new[i] = resolves[i - n - m]
    BY <1>1, <1>8, <1>13, <2>3
  <2> QED
    BY <1>13, <2>1, <2>2, <2>3
<1>15. ASSUME NEW j \in DOMAIN new, new[j].op \in {"close", "resolve"},
              NEW i \in DOMAIN copies, copies[i].slot = new[j].slot,
              NEW q, Joined(q, copies, CopiesOf(closing))
       PROVE  \E k \in DOMAIN q : i <= k /\ q[k] \in new[j].after
  <2> DEFINE s == new[j].slot
  <2>1. /\ i \in Nat /\ i <= Len(copies) /\ Len(copies) \in Nat
        /\ \A k \in DOMAIN copies : k \in DOMAIN q /\ q[k] = copies[k]
        /\ \A k \in DOMAIN q : k \in Nat
        /\ \A r \in ToSet(closing) : \E k \in DOMAIN q : Len(copies) < k /\ q[k] = Copy(r, seq[r] + 1)
    BY <1>15, CopyPlaces
  <2>2. PICK k \in DOMAIN copies : i <= k /\ copies[k] = done[s]
    BY <1>15 DEF CopiesOK, DoneBehind
  <2>3. done[s] \in Awaited(done[s])
    BY <2>2, CopyIs DEF Awaited
  <2>4. CASE new[j].op = "close"
    <3>1. new[j].after = Awaited(done[s])
      BY <1>14, <2>4
    <3> QED
      BY <2>1, <2>2, <2>3, <3>1
  <2>5. CASE new[j].op = "resolve"
    <3>1. new[j].after = last /\ s \in ToSet(batch)
      BY <1>14, <2>5
    <3>2. CASE s \in ToSet(closing)
      <4>1. Copy(s, seq[s] + 1) \in last
        BY <1>2, <1>4, <3>1, <3>2 DEF last, DoneOf, Awaited
      <4>2. PICK p \in DOMAIN q : Len(copies) < p /\ q[p] = Copy(s, seq[s] + 1)
        BY <2>1, <3>2
      <4>3. i <= p
        BY <2>1, <4>2
      <4> QED
        BY <3>1, <4>1, <4>2, <4>3
    <3>3. CASE s \notin ToSet(closing)
      <4>1. done[s] \in last
        BY <1>4, <2>3, <3>1, <3>3 DEF last, DoneOf
      <4> QED
        BY <2>1, <2>2, <3>1, <4>1
    <3> QED
      BY <3>2, <3>3
  <2> QED
    BY <1>15, <2>4, <2>5
<1>16. \A j \in DOMAIN new : new[j].op = "close" =>
          j <= j /\ Copy(new[j].slot, seq[new[j].slot] + 1) \in new[j].ready
  BY <1>14
<1>17. \A i \in DOMAIN new : new[i].ready \subseteq ToSet(CopiesOf(closing))
  BY <1>2, <1>14
<1>18. ASSUME NEW i \in DOMAIN new, NEW x \in new[i].after
       PROVE  Known(x) \/ x \in ToSet(CopiesOf(closing))
  BY <1>1, <1>3, <1>5, <1>14, <1>18
<1>19. ASSUME NEW i \in DOMAIN new, NEW k \in DOMAIN new, NEW x \in new[i].after,
              ~Known(x), new[k].ready # {}
       PROVE  k < i
  <2>1. i - n - m \in 1..n /\ i \in Nat
    <3>1. CASE i - n \in 1..m /\ new[i].slot \in ToSet(closing)
               /\ new[i].after = Awaited(done[new[i].slot])
      BY <1>1, <1>3, <1>19, <3>1
    <3> QED
      BY <1>14, <1>19, <3>1
  <2>2. k - n \in 1..m /\ k \in Nat
    BY <1>14, <1>19
  <2> QED
    BY <1>1, <2>1, <2>2
<1> QED
  BY <1>11, <1>12, <1>15, <1>16, <1>17, <1>18, <1>19, PartsShape DEF Shape

\* With graphs: the replay waits for all copies before it, and its event is for
\* all of its own.
LEMMA ReplayShape ==
    ASSUME TypeOK, CopiesOK, StreamsOK, graph, NEW batch, NEW closing, Step(batch, closing),
           NEW new, new = Replay(batch, closing)
    PROVE  Shape(new, batch, closing)
<1> DEFINE n == Len(batch)
           m == Len(closing)
           last == Awaited(graph_copy_done)
           stores == Each(batch, "store", last)
           closes == Each(closing, "close", last)
           resolves == Each(batch, "resolve", last)
           front == stores \o closes
           work == front \o resolves
           event == RecordFor(ToSet(CopiesOf(closing)))
<1>1. /\ batch \in Seq(Slots) /\ closing \in Seq(Slots) /\ n \in Nat /\ m \in Nat
      /\ ToSet(batch) \subseteq Slots /\ ToSet(closing) \subseteq ToSet(batch)
      /\ \A i \in 1..n : batch[i] \in ToSet(batch)
      /\ \A i \in 1..m : closing[i] \in ToSet(closing)
  BY StepIs
<1>2. /\ \A s \in ToSet(closing) : Copy(s, seq[s] + 1) \in Copies
      /\ ToSet(CopiesOf(closing)) = {Copy(s, seq[s] + 1) : s \in ToSet(closing)}
  BY NewCopies
<1>3. last \in SUBSET Copies /\ \A x \in last : Known(x)
  BY DEF TypeOK, Awaited, StreamsOK, AllKnown
<1> HIDE DEF last
<1>4. /\ stores \in Seq(Ops) /\ Len(stores) = n
      /\ \A i \in 1..n : stores[i] = [op |-> "store", slot |-> batch[i], seq |-> seq[batch[i]] + 1,
                                 after |-> last, ready |-> {}]
  BY <1>1, <1>3, EachIs DEF Work
<1>5. /\ closes \in Seq(Ops) /\ Len(closes) = m
      /\ \A i \in 1..m : closes[i] = [op |-> "close", slot |-> closing[i], seq |-> seq[closing[i]] + 1,
                                 after |-> last, ready |-> {}]
  BY <1>1, <1>3, EachIs DEF Work
<1>6. /\ resolves \in Seq(Ops) /\ Len(resolves) = n
      /\ \A i \in 1..n : resolves[i] = [op |-> "resolve", slot |-> batch[i], seq |-> seq[batch[i]] + 1,
                                 after |-> last, ready |-> {}]
  BY <1>1, <1>3, EachIs DEF Work
<1>7. /\ event \in Seq(Ops) /\ Len(event) = 1
      /\ event[1] = [op |-> "record", slot |-> 0, seq |-> 0, after |-> {},
                 ready |-> ToSet(CopiesOf(closing))]
  <2>1. ToSet(CopiesOf(closing)) \in SUBSET Copies
    BY <1>2
  <2>2. [op |-> "record", slot |-> 0, seq |-> 0, after |-> {},
         ready |-> ToSet(CopiesOf(closing))] \in Ops
    BY <2>1 DEF Ops
  <2> QED
    BY <2>2 DEF RecordFor
<1>8. Joined(front, stores, closes) /\ Joined(work, front, resolves) /\ Joined(new, work, event)
  BY DEF Replay, last, Joined
<1> HIDE DEF stores, closes, resolves, event, front, work
<1>9. /\ work \in Seq(Ops) /\ Len(work) \in Nat /\ Len(work) = n + m + n /\ DOMAIN work = 1..Len(work)
      /\ \A i \in 1..n : i \in DOMAIN work /\ work[i] = stores[i]
      /\ \A i \in 1..m : n + i \in DOMAIN work /\ work[n + i] = closes[i]
      /\ \A i \in 1..n : n + m + i \in DOMAIN work /\ work[n + m + i] = resolves[i]
      /\ \A i \in DOMAIN work :
            /\ i \in Nat \ {0}
            /\ i \in 1..n \/ i - n \in 1..m \/ i - n - m \in 1..n
  <2>1. stores \in Seq(Ops) /\ closes \in Seq(Ops) /\ resolves \in Seq(Ops)
    BY <1>4, <1>5, <1>6
  <2>2. /\ work \in Seq(Ops) /\ Len(work) = Len(stores) + Len(closes) + Len(resolves) /\ DOMAIN work = 1..Len(work)
        /\ \A i \in 1..Len(stores) : i \in DOMAIN work /\ work[i] = stores[i]
        /\ \A i \in 1..Len(closes) : Len(stores) + i \in DOMAIN work /\ work[Len(stores) + i] = closes[i]
        /\ \A i \in 1..Len(resolves) : Len(stores) + Len(closes) + i \in DOMAIN work
                                /\ work[Len(stores) + Len(closes) + i] = resolves[i]
        /\ \A i \in DOMAIN work :
              /\ i \in Nat \ {0}
              /\ \/ i \in 1..Len(stores)
                 \/ i - Len(stores) \in 1..Len(closes)
                 \/ i - Len(stores) - Len(closes) \in 1..Len(resolves)
    BY <1>8, <2>1, ThreeParts
  <2>3. Len(stores) = n /\ Len(closes) = m /\ Len(resolves) = n
    BY <1>4, <1>5, <1>6
  <2> HIDE DEF n, m
  <2> QED
    BY <1>1, <2>2, <2>3
<1> HIDE DEF n, m
<1>10. /\ new \in Seq(Ops)
       /\ \A i \in 1..Len(work) : i \in DOMAIN new /\ new[i] = work[i]
       /\ \A i \in 1..1 : Len(work) + i \in DOMAIN new /\ new[Len(work) + i] = event[i]
       /\ \A i \in DOMAIN new : i \in Nat \ {0} /\ (i \in 1..Len(work) \/ i - Len(work) \in 1..1)
  <2>1. work \in Seq(Ops) /\ event \in Seq(Ops)
    BY <1>7, <1>9
  <2>2. /\ new \in Seq(Ops)
        /\ \A i \in 1..Len(work) : i \in DOMAIN new /\ new[i] = work[i]
        /\ \A i \in 1..Len(event) : Len(work) + i \in DOMAIN new /\ new[Len(work) + i] = event[i]
        /\ \A i \in DOMAIN new : /\ i \in Nat \ {0}
                                 /\ i \in 1..Len(work) \/ i - Len(work) \in 1..Len(event)
    BY <1>8, <2>1, TwoParts
  <2> QED
    BY <1>7, <2>2
<1>11. Len(work) + 1 \in DOMAIN new /\ new[Len(work) + 1] = event[1]
  BY <1>10
<1>12. ASSUME NEW i \in DOMAIN work
       PROVE  /\ work[i].op \in {"store", "close", "resolve"}
              /\ work[i].after = last /\ work[i].ready = {}
              /\ work[i].op = "close" => work[i].slot \in ToSet(closing)
  <2>1. i \in Nat /\ (i \in 1..n \/ i - n \in 1..m \/ i - n - m \in 1..n)
    BY <1>9
  <2>2. CASE i \in 1..n
    BY <1>4, <1>9, <2>2
  <2>3. CASE i - n \in 1..m
    <3>1. n + (i - n) = i
      BY <1>1, <2>1
    <3>2. work[n + (i - n)] = closes[i - n]
      BY <1>9, <2>3
    <3> QED
      BY <1>1, <1>5, <2>3, <3>1, <3>2
  <2>4. CASE i - n - m \in 1..n
    <3>1. n + m + (i - n - m) = i
      BY <1>1, <2>1
    <3>2. work[n + m + (i - n - m)] = resolves[i - n - m]
      BY <1>9, <2>4
    <3> QED
      BY <1>6, <2>4, <3>1, <3>2
  <2> QED
    BY <2>1, <2>2, <2>3, <2>4
<1>13. ASSUME NEW i \in DOMAIN new
       PROVE  /\ i \in Nat
              /\ \/ i \in DOMAIN work /\ new[i] = work[i]
                 \/ i = Len(work) + 1 /\ new[i] = event[1]
  <2>1. i \in Nat /\ (i \in 1..Len(work) \/ i - Len(work) \in 1..1)
    BY <1>10
  <2>2. CASE i \in 1..Len(work)
    BY <1>9, <1>10, <2>1, <2>2
  <2>3. CASE i - Len(work) \in 1..1
    <3>1. i = Len(work) + 1
      BY <1>9, <2>1, <2>3
    <3> QED
      BY <1>11, <2>1, <3>1
  <2> QED
    BY <2>1, <2>2, <2>3
<1>14. Parts(new, batch, closing)
  <2>1. /\ \A i \in 1..n : i \in DOMAIN new /\ new[i] = stores[i]
        /\ \A i \in 1..m : n + i \in DOMAIN new /\ new[n + i] = closes[i]
        /\ \A i \in 1..n : n + m + i \in DOMAIN new /\ new[n + m + i] = resolves[i]
    BY <1>9, <1>10
  <2>2. \A i \in DOMAIN new :
           /\ i \in Nat \ {0}
           /\ new[i].op \in Work => i \in 1..n \/ i - n \in 1..m \/ i - n - m \in 1..n
    <3>1. event[1].op \notin Work
      BY <1>7 DEF Work
    <3> QED
      BY <1>9, <1>10, <1>13, <3>1
  <2> QED
    <3>1. \A i \in 1..n : /\ new[i].op = "store" /\ new[i].slot = batch[i]
                          /\ new[i].seq = seq[batch[i]] + 1 /\ new[i].ready = {}
      BY <1>4, <2>1
    <3>2. \A i \in 1..m : /\ new[n + i].op = "close" /\ new[n + i].slot = closing[i]
                          /\ new[n + i].seq = seq[closing[i]] + 1
      BY <1>5, <2>1
    <3>3. \A i \in 1..n : /\ new[n + m + i].op = "resolve" /\ new[n + m + i].slot = batch[i]
                          /\ new[n + m + i].seq = seq[batch[i]] + 1 /\ new[n + m + i].ready = {}
      BY <1>6, <2>1
    <3> QED
      BY <2>1, <2>2, <3>1, <3>2, <3>3 DEF Parts, n, m
<1>15. ASSUME NEW j \in DOMAIN new, new[j].op \in {"close", "resolve"},
              NEW i \in DOMAIN copies, NEW q, Joined(q, copies, CopiesOf(closing))
       PROVE  \E k \in DOMAIN q : i <= k /\ q[k] \in new[j].after
  <2>1. \A k \in DOMAIN copies : k \in DOMAIN q /\ q[k] = copies[k]
    BY <1>15, CopyPlaces
  <2>2. PICK k \in DOMAIN copies : i <= k /\ copies[k] = graph_copy_done
    BY <1>15 DEF CopiesOK, DoneBehind
  <2>3. graph_copy_done \in last
    BY <2>2, CopyIs DEF last, Awaited
  <2>4. new[j].after = last
    BY <1>7, <1>12, <1>13, <1>15
  <2> QED
    BY <2>1, <2>2, <2>3, <2>4
<1>16. ASSUME NEW j \in DOMAIN new, new[j].op = "close"
       PROVE  \E k \in DOMAIN new : j <= k /\ Copy(new[j].slot, seq[new[j].slot] + 1) \in new[k].ready
  <2>1. j \in DOMAIN work /\ new[j].slot \in ToSet(closing)
    BY <1>7, <1>12, <1>13, <1>16
  <2>2. j <= Len(work) + 1
    BY <1>9, <2>1
  <2> QED
    BY <1>2, <1>7, <1>11, <2>1, <2>2
<1>17. \A i \in DOMAIN new : new[i].ready \subseteq ToSet(CopiesOf(closing))
  BY <1>7, <1>12, <1>13
<1>18. \A i \in DOMAIN new : \A x \in new[i].after : Known(x)
  BY <1>3, <1>7, <1>12, <1>13
<1> QED
  BY <1>10, <1>14, <1>15, <1>16, <1>17, <1>18, PartsShape DEF Shape

\* What a step queues keeps the invariant, if done events follow it.
LEMMA AppendStep ==
    ASSUME IInv, NEW new, NEW batch, NEW closing, Step(batch, closing),
           Shape(new, batch, closing), Appended(new, batch, closing),
           done' \in [Slots -> Copies \cup {NoCopy}],
           graph_copy_done' \in Copies \cup {NoCopy},
           \A c \in {done'[r] : r \in Slots} \cup {graph_copy_done'} :
              c # NoCopy => \/ c \in Copies /\ Known(c)
                            \/ c \in ToSet(CopiesOf(closing)),
           DoneBehind'
    PROVE  IInv'
<1>1. TypeOK /\ QueueOK /\ DeviceOK /\ CopiesOK /\ StreamsOK /\ CompactTrue /\ CopiesLive
  BY DEF IInv, CopiesOK
<1>2. TypeOK'
  <2>1. producer' \in Seq(Ops) /\ copies' \in Seq(Copies) /\ seq' \in [Slots -> 0..MaxSeq]
    BY <1>1, Places, Advanced
  <2>2. ASSUME NEW i \in DOMAIN producer', producer'[i].op \in Work
        PROVE  producer'[i].slot \in Slots
    <3>1. CASE i \in DOMAIN producer
      <4>1. producer'[i] = producer[i]
        BY <1>1, <3>1, Places
      <4> QED
        BY <1>1, <2>2, <3>1, <4>1 DEF TypeOK
    <3>2. CASE i - Len(producer) \in DOMAIN new /\ producer'[i] = new[i - Len(producer)]
      <4>1. producer'[i].slot \in ToSet(batch)
        BY <2>2, <3>2 DEF Shape
      <4> QED
        BY <1>1, <4>1, StepIs
    <3> QED
      BY <1>1, <3>1, <3>2, Places
  <2>3. /\ graph' = graph /\ gen' = gen /\ ring' = ring /\ hot' = hot /\ tokens' = tokens
        /\ host' = host /\ compact' = compact
    BY DEF Appended
  <2> QED
    BY <1>1, <2>1, <2>2, <2>3 DEF TypeOK
<1>3. QueueOK'
  BY <1>1, AppendQueue
<1>4. DeviceOK'
  BY <1>1, AppendDevice
<1>5. CopiesLive' /\ Waits' /\ HotHeld' /\ InHost'
  BY <1>1, AppendCopies
<1>6. StreamsOK'
  BY <1>1, AppendStreams
<1>7. CompactTrue'
  <2>1. CompactTrue /\ compact' = compact /\ gen' = gen
    BY DEF Appended, IInv
  <2> QED
    BY <2>1 DEF CompactTrue, CompactAt, Block
<1> QED
  BY <1>2, <1>3, <1>4, <1>5, <1>6, <1>7 DEF IInv, CopiesOK

\* What the events were about was known.
LEMMA DoneIs ==
    ASSUME TypeOK, StreamsOK
    PROVE  /\ \A s \in Slots : /\ done[s] \in Copies \cup {NoCopy}
                               /\ done[s] # NoCopy => done[s] \in Copies /\ Known(done[s])
           /\ graph_copy_done \in Copies \cup {NoCopy}
           /\ graph_copy_done # NoCopy => graph_copy_done \in Copies /\ Known(graph_copy_done)
  BY DEF TypeOK, StreamsOK, AllKnown

\* An eager step keeps the invariant: a done event follows the last copy of
\* its own slot.
LEMMA EagerStepKeeps ==
    ASSUME IInv, NEW S \in SUBSET Slots \ {{}}, NEW batch \in Orders(S),
           NEW closing \in Orders(Closing(batch)), EagerStep(batch, closing)
    PROVE  IInv'
<1>1. TypeOK /\ QueueOK /\ CopiesOK /\ StreamsOK /\ ~graph
  BY DEF IInv, EagerStep
<1>2. Step(batch, closing)
  BY DEF Step, EagerStep
<1>3. Shape(Eager(batch, closing), batch, closing)
  BY <1>1, <1>2, EagerShape
<1>4. Appended(Eager(batch, closing), batch, closing)
  BY DEF Appended, EagerStep
<1>5. /\ done' = [s \in Slots |-> IF s \in ToSet(closing) THEN Copy(s, seq[s] + 1) ELSE done[s]]
      /\ graph_copy_done' = graph_copy_done /\ graph' = graph
  BY <1>1, <1>2, StepIs DEF EagerStep, DoneAfter
<1>6. /\ \A s \in ToSet(closing) : /\ Copy(s, seq[s] + 1) \in Copies
                                   /\ Copy(s, seq[s] + 1).slot = s
      /\ ToSet(CopiesOf(closing)) = {Copy(s, seq[s] + 1) : s \in ToSet(closing)}
      /\ ToSet(closing) \subseteq Slots
  BY <1>1, <1>2, NewCopies, StepIs
<1>7. /\ done' \in [Slots -> Copies \cup {NoCopy}]
      /\ graph_copy_done' \in Copies \cup {NoCopy}
  BY <1>1, <1>5, <1>6, DoneIs
<1>8. \A c \in {done'[r] : r \in Slots} \cup {graph_copy_done'} :
         c # NoCopy => \/ c \in Copies /\ Known(c)
                       \/ c \in ToSet(CopiesOf(closing))
  BY <1>1, <1>5, <1>6, DoneIs
<1>9. DoneBehind'
  <2>1. ASSUME NEW i \in DOMAIN copies'
        PROVE  \E j \in DOMAIN copies' : i <= j /\ copies'[j] = done'[copies'[i].slot]
    <3> DEFINE s == copies'[i].slot
    <3>1. CASE s \in ToSet(closing)
      <4>1. done'[s] = Copy(s, seq[s] + 1)
        BY <1>5, <1>6, <3>1
      <4>2. CASE i \in DOMAIN copies
        <5>1. PICK j \in DOMAIN copies' : Len(copies) < j /\ copies'[j] = Copy(s, seq[s] + 1)
          BY <1>1, <1>2, <1>3, <1>4, <3>1, Places
        <5>2. i \in Nat /\ i <= Len(copies) /\ Len(copies) \in Nat /\ j \in Nat
          BY <1>1, <1>2, <1>3, <1>4, <4>2, Places
        <5>3. i <= j
          BY <5>1, <5>2
        <5> QED
          BY <4>1, <5>1, <5>3
      <4>3. CASE i \notin DOMAIN copies
        <5>1. copies'[i] = Copy(s, seq[s] + 1) /\ i \in Nat
          BY <1>1, <1>2, <1>3, <1>4, <1>6, <4>3, Places
        <5> QED
          BY <4>1, <5>1
      <4> QED
        BY <4>2, <4>3
    <3>2. CASE s \notin ToSet(closing)
      <4>1. i \in DOMAIN copies /\ copies'[i] = copies[i]
        BY <1>1, <1>2, <1>3, <1>4, <1>6, <3>2, Places
      <4>2. PICK j \in DOMAIN copies : i <= j /\ copies[j] = done[s]
        BY <1>1, <4>1 DEF CopiesOK, DoneBehind
      <4>3. j \in DOMAIN copies' /\ copies'[j] = copies[j]
        BY <1>1, <1>2, <1>3, <1>4, Places
      <4>4. s \in Slots /\ done'[s] = done[s]
        BY <1>1, <1>5, <3>2, <4>1, CopyIs
      <4> QED
        BY <4>2, <4>3, <4>4
    <3> QED
      BY <3>1, <3>2
  <2> QED
    BY <1>1, <1>5, <2>1 DEF DoneBehind
<1> QED
  BY <1>2, <1>3, <1>4, <1>7, <1>8, <1>9, AppendStep

\* So does a replay, whose one event follows the last copy of them all.
LEMMA GraphStepKeeps ==
    ASSUME IInv, NEW S \in SUBSET Slots \ {{}}, NEW batch \in Orders(S),
           NEW closing \in Orders(Closing(batch)), GraphStep(batch, closing)
    PROVE  IInv'
<1> DEFINE last == IF closing = <<>> THEN graph_copy_done ELSE Last(CopiesOf(closing))
<1>1. TypeOK /\ QueueOK /\ CopiesOK /\ StreamsOK /\ graph
  BY DEF IInv, GraphStep
<1>2. Step(batch, closing)
  BY DEF Step, GraphStep
<1>3. Shape(Replay(batch, closing), batch, closing)
  BY <1>1, <1>2, ReplayShape
<1>4. Appended(Replay(batch, closing), batch, closing)
  BY DEF Appended, GraphStep
<1>5. Joined(copies', copies, CopiesOf(closing))
  BY DEF GraphStep, Joined
<1>6. /\ done' = [s \in Slots |-> IF s \in ToSet(closing) \/ done[s] # NoCopy THEN last ELSE NoCopy]
      /\ graph_copy_done' = last /\ graph' = graph
  BY <1>1, <1>2, StepIs DEF GraphStep
<1>7. /\ closing # <<>> => /\ last \in Copies /\ last \in ToSet(CopiesOf(closing))
                           /\ Len(copies') \in DOMAIN copies' /\ copies'[Len(copies')] = last
                           /\ \A i \in DOMAIN copies' : i <= Len(copies')
  <2>1. ASSUME closing # <<>>
        PROVE  /\ last \in ToSet(CopiesOf(closing))
               /\ Len(copies') \in DOMAIN copies' /\ copies'[Len(copies')] = last
               /\ \A i \in DOMAIN copies' : i <= Len(copies')
    BY <1>1, <1>2, <1>5, <2>1, CopyPlaces
  <2>2. ToSet(CopiesOf(closing)) \subseteq Copies
    BY <1>1, <1>2, NewCopies
  <2> QED
    BY <2>1, <2>2
<1>8. closing = <<>> => last = graph_copy_done
  OBVIOUS
<1>9. closing = <<>> => ToSet(closing) = {}
  BY DEF ToSet
<1> HIDE DEF last
<1>10. last \in Copies \cup {NoCopy}
  BY <1>1, <1>7, <1>8, DoneIs
<1>11. /\ done' \in [Slots -> Copies \cup {NoCopy}]
       /\ graph_copy_done' \in Copies \cup {NoCopy}
  BY <1>6, <1>10
<1>12. last # NoCopy => \/ last \in Copies /\ Known(last)
                        \/ last \in ToSet(CopiesOf(closing))
  BY <1>1, <1>7, <1>8, DoneIs
<1>13. \A c \in {done'[r] : r \in Slots} \cup {graph_copy_done'} :
          c # NoCopy => \/ c \in Copies /\ Known(c)
                        \/ c \in ToSet(CopiesOf(closing))
  BY <1>6, <1>12
<1>14. ToSet(closing) \subseteq Slots
       /\ \A s \in ToSet(closing) : Copy(s, seq[s] + 1).slot = s
  BY <1>1, <1>2, StepIs, NewCopies
<1>15. \A i \in DOMAIN copies' :
          /\ \E j \in DOMAIN copies' : i <= j /\ copies'[j] = last
          /\ done'[copies'[i].slot] = last
  <2> SUFFICES ASSUME NEW i \in DOMAIN copies', NEW s, s = copies'[i].slot
               PROVE  /\ \E j \in DOMAIN copies' : i <= j /\ copies'[j] = last
                      /\ done'[s] = last
    OBVIOUS
  <2>1. CASE i \in DOMAIN copies
    <3>1. copies'[i] = copies[i] /\ \A j \in DOMAIN copies : j \in DOMAIN copies' /\ copies'[j] = copies[j]
      BY <1>1, <1>2, <1>3, <1>4, <2>1, Places
    <3>2. PICK j \in DOMAIN copies : i <= j /\ copies[j] = graph_copy_done
      BY <1>1, <2>1 DEF CopiesOK, DoneBehind
    <3>3. PICK k \in DOMAIN copies : copies[k] = done[s]
      BY <1>1, <2>1, <3>1 DEF CopiesOK, DoneBehind
    <3>4. s \in Slots /\ done[s] # NoCopy
      BY <1>1, <2>1, <3>1, <3>3, CopyIs
    <3>5. done'[s] = last
      BY <1>6, <3>4
    <3>6. CASE closing = <<>>
      BY <1>8, <3>1, <3>2, <3>5, <3>6
    <3>7. CASE closing # <<>>
      BY <1>7, <3>5, <3>7
    <3> QED
      BY <3>6, <3>7
  <2>2. CASE \E r \in ToSet(closing) : copies'[i] = Copy(r, seq[r] + 1)
    <3>1. s \in ToSet(closing) /\ s \in Slots
      BY <1>14, <2>2
    <3>2. closing # <<>>
      BY <1>9, <3>1
    <3> QED
      BY <1>6, <1>7, <3>1, <3>2
  <2> QED
    BY <1>1, <1>2, <1>3, <1>4, <2>1, <2>2, Places
<1>16. \A s \in Slots : done'[s] \in {NoCopy, last}
  BY <1>6
<1>17. DoneBehind'
  BY <1>6, <1>15, <1>16 DEF DoneBehind
<1> QED
  BY <1>2, <1>3, <1>4, <1>11, <1>13, <1>17, AppendStep

----------------------------------------------------------------------------
(* The invariant, and what it shows.                                       *)

\* Nothing is leased, queued or read at the start.
LEMMA InitHolds == Init => IInv
<1> SUFFICES ASSUME Init PROVE IInv
  OBVIOUS
<1>1. /\ DOMAIN copies = {} /\ DOMAIN producer = {} /\ producer = <<>> /\ copies = <<>>
      /\ \A s \in Slots : seq[s] = 0 /\ gen[s] = 0 /\ done[s] = NoCopy /\ compact[s] = NothingRead
      /\ graph_copy_done = NoCopy
  BY DEF Init
<1>2. TypeOK
  <2>1. Zero \in Tokens /\ Zeros \in Values
    BY DEF Zero, Zeros, Tokens, Values
  <2>2. gen \in [Slots -> Nat] /\ seq \in [Slots -> 0..MaxSeq]
    BY SizesAssumption DEF Init
  <2>3. ring \in [Slots -> Values] /\ hot \in [Slots -> [0..Hot -> Values]]
        /\ tokens \in [Slots -> [0..Hot -> Int]] /\ host \in [Slots -> [Blocks -> Values]]
    BY <2>1 DEF Init, Values
  <2>4. done \in [Slots -> Copies \cup {NoCopy}] /\ graph_copy_done \in Copies \cup {NoCopy}
    BY DEF Init
  <2>5. producer \in Seq(Ops) /\ copies \in Seq(Copies)
    BY <1>1
  <2> QED
    BY <1>1, <2>2, <2>3, <2>4, <2>5 DEF TypeOK, Init
<1>3. QueueOK /\ Waits /\ ReadyBehind /\ WaitBehind
  BY <1>1, Idle
<1>4. DeviceOK
  <2> SUFFICES ASSUME NEW s \in Slots PROVE DeviceAt(s)
    BY DEF DeviceOK
  <2>1. seq[s] = 0 /\ 1..seq[s] = {}
    BY <1>1
  <2> QED
    BY <2>1 DEF DeviceAt, RingTrue, RowsTrue, Resident, Newest
<1>5. CopiesLive /\ DoneBehind /\ HotHeld
  BY <1>1 DEF CopiesLive, DoneBehind, HotHeld
<1>6. InHost
  <2>1. \A s \in Slots : 0..(seq[s] \div BlockTokens - 1) = {}
    BY <1>1, NoBlocks
  <2> QED
    BY <2>1 DEF InHost
<1>7. AllKnown
  BY <1>1 DEF AllKnown
<1>8. CompactTrue
  <2>1. DOMAIN NothingRead.blocks = {} /\ DOMAIN NothingRead.tail = {}
    BY DEF NothingRead
  <2> QED
    BY <1>1, <2>1 DEF CompactTrue, CompactAt
<1> QED
  BY <1>2, <1>3, <1>4, <1>5, <1>6, <1>7, <1>8 DEF IInv, CopiesOK, StreamsOK

\* Every step keeps the invariant.
LEMMA StepKeeps == IInv /\ [Next]_vars => IInv'
<1> SUFFICES ASSUME IInv, [Next]_vars PROVE IInv'
  OBVIOUS
<1>1. ASSUME NEW s \in Slots, NEW length \in 1..MaxSeq, Handoff(s, length) PROVE IInv'
  BY <1>1, HandoffStep
<1>2. ASSUME NEW s \in Slots, Release(s) PROVE IInv'
  BY <1>2, ReleaseStep
<1>3. ASSUME NEW S \in SUBSET Slots \ {{}}, NEW batch \in Orders(S),
             NEW closing \in Orders(Closing(batch)), EagerStep(batch, closing)
      PROVE  IInv'
  BY <1>3, EagerStepKeeps
<1>4. ASSUME NEW S \in SUBSET Slots \ {{}}, NEW batch \in Orders(S),
             NEW closing \in Orders(Closing(batch)), GraphStep(batch, closing)
      PROVE  IInv'
  BY <1>4, GraphStepKeeps
<1>5. CASE Record \/ Store \/ Close \/ Resolve \/ CopyToHost
  BY <1>5, RecordStep, StoreStep, CloseStep, ResolveStep, CopyStep
<1>6. CASE UNCHANGED vars
  <2>1. UNCHANGED <<graph, gen, seq, done, graph_copy_done, producer, copies, ring, hot,
                    tokens, host, compact>>
    BY <1>6 DEF vars, hostVars
  <2>2. TypeOK'
    BY <2>1 DEF IInv, TypeOK
  <2>3. QueueOK'
    BY <2>1 DEF IInv, QueueOK, InOrder, Within, Complete, Queued, Is
  <2>4. DeviceOK'
    BY <2>1 DEF IInv, DeviceOK, DeviceAt, RingTrue, RowsTrue, Resident, Newest, LastStored,
                Queued, Is, ClosePending, Block
  <2>5. CopiesOK'
    BY <2>1 DEF IInv, CopiesOK, CopiesLive, DoneBehind, Waits, HotHeld, InHost, ClosePending, Block
  <2>6. StreamsOK'
    BY <2>1 DEF IInv, StreamsOK, ReadyBehind, AllKnown, WaitBehind, Known
  <2>7. CompactTrue'
    BY <2>1 DEF IInv, CompactTrue, CompactAt, Block
  <2> QED
    BY <2>2, <2>3, <2>4, <2>5, <2>6, <2>7 DEF IInv
<1> QED
  BY <1>1, <1>2, <1>3, <1>4, <1>5, <1>6 DEF Next

\* The invariant holds: queues, device, copies and streams agree always.
THEOREM Invariant == Spec => []IInv
<1>1. Init => IInv
  BY InitHolds
<1>2. IInv /\ [Next]_vars => IInv'
  BY StepKeeps
<1> QED
  BY <1>1, <1>2, PTL DEF Spec

\* The resident table does not lie, and what the attention last read was the
\* lease's own K/V, however the two streams interleave.
THEOREM ReadsOwnKV == Spec => []CompactExact
<1>1. IInv => CompactExact
  <2> SUFFICES ASSUME IInv PROVE CompactExact
    OBVIOUS
  <2>1. TableTrue
    BY DEF IInv, DeviceOK, DeviceAt, RowsTrue, TableTrue
  <2>2. \A s \in Slots : CompactAt(s)
    BY DEF IInv, CompactTrue
  <2> QED
    BY <2>1, <2>2 DEF CompactExact, CompactAt
<1> QED
  BY <1>1, Invariant, PTL

\* A closed block is in the host, or still in the newest row with its copy queued.
THEOREM BlocksAreKept == Spec => []NoBlockLost
<1>1. IInv => NoBlockLost
  <2> SUFFICES ASSUME IInv PROVE NoBlockLost
    OBVIOUS
  <2>1. TypeOK /\ CopiesLive /\ HotHeld /\ InHost
    BY DEF IInv, CopiesOK
  <2>2. ASSUME NEW s \in Slots, NEW b \in Blocks, Stored(s, b),
               NEW c, c = [slot |-> s, gen |-> gen[s], block |-> b]
        PROVE  \/ host[s][b] = Block(s, b)
               \/ Contains(copies, c) /\ hot[s][Hot] = Block(s, b)
    <3>1. b \in Nat /\ b < seq[s] \div BlockTokens /\ seq[s] \div BlockTokens \in Nat
      BY <2>1, <2>2, LeaseBlocks DEF Stored, Blocks
    <3>2. CASE ~Contains(copies, c)
      BY <2>1, <2>2, <3>1, <3>2 DEF InHost
    <3>3. CASE Contains(copies, c)
      <4>1. PICK i \in DOMAIN copies : copies[i] = c
        BY <2>1, <3>3, InCopies
      <4>2. ~ClosePending(s, b)
        <5> SUFFICES ASSUME NEW j \in DOMAIN producer, producer[j].op = "close",
                            producer[j].slot = s, producer[j].seq \div BlockTokens = b + 1
                     PROVE  FALSE
          BY DEF ClosePending
        <5>1. producer[j].seq \div BlockTokens > b + 1
          BY <2>2 DEF Stored
        <5> QED
          BY <3>1, <5>1
      <4> QED
        BY <2>1, <2>2, <3>3, <4>1, <4>2 DEF HotHeld
    <3> QED
      BY <3>2, <3>3
  <2>3. \A i \in DOMAIN copies : seq[copies[i].slot] # 0
    BY <2>1 DEF CopiesLive
  <2> QED
    BY <2>2, <2>3 DEF NoBlockLost
<1> QED
  BY <1>1, Invariant, PTL

\* The two streams never wait for each other: while anything is queued, the
\* next operation or the next copy can run.
THEOREM NoStreamDeadlock == Spec => []StreamsMove
<1>1. IInv => StreamsMove
  <2> SUFFICES ASSUME IInv, ~StreamsMove PROVE FALSE
    OBVIOUS
  <2>1. TypeOK /\ WaitBehind
    BY DEF IInv, StreamsOK
  <2>2. producer # <<>> => /\ 1 \in DOMAIN producer /\ Head(producer) = producer[1]
                           /\ \A i \in DOMAIN producer : i \in Nat \ {0}
    BY <2>1, TailIs DEF TypeOK
  <2>3. copies # <<>> => /\ 1 \in DOMAIN copies /\ Head(copies) = copies[1]
                         /\ \A i \in DOMAIN copies : i \in Nat \ {0}
    BY <2>1, TailIs DEF TypeOK
  <2>4. CASE producer = <<>>
    <3>1. DOMAIN producer = {}
      BY <2>4
    <3>2. Ready(Head(copies))
      BY <3>1 DEF Ready
    <3> QED
      BY <2>4, <3>2 DEF StreamsMove
  <2>5. CASE producer # <<>>
    <3>1. PICK c \in producer[1].after : Contains(copies, c)
      BY <2>2, <2>5 DEF StreamsMove
    <3>2. PICK l \in DOMAIN copies : copies[l] = c
      BY <2>1, <3>1, InCopies
    <3>3. copies # <<>>
      BY <3>2
    <3>4. PICK k \in DOMAIN producer : copies[1] \in producer[k].ready
      BY <2>3, <3>3 DEF StreamsMove, Ready
    <3>5. 1 <= l
      BY <2>3, <3>2, <3>3
    <3>6. k < 1
      BY <2>1, <2>2, <2>3, <2>5, <3>1, <3>2, <3>3, <3>4, <3>5 DEF WaitBehind
    <3> QED
      BY <2>2, <2>5, <3>6
  <2> QED
    BY <2>4, <2>5
<1> QED
  BY <1>1, Invariant, PTL
=====
