--------------------------- MODULE QSAHostPrefix ---------------------------
(***************************************************************************)
(* The host cache of prefix checkpoints (hisparse/prefix.py) and the       *)
(* requests that read and write it (capture_prefix of hisparse/runtime.py, *)
(* match, restore, publication and flush of hisparse/prefix_cache.py).     *)
(*                                                                         *)
(* The cache does each of its operations under its lock. A capture is two  *)
(* steps: what it does up to its reservation, and the publication once the *)
(* copies are complete. Between them other requests and a flush may come,  *)
(* as the cache allows its users and its tests have it; the scheduler's    *)
(* thread takes some of these orders only.                                 *)
(*                                                                         *)
(* Tokens are counted in pages. A prompt is a sequence of page contents; a *)
(* page of K/V copied for a checkpoint is named by the checkpoint it was   *)
(* copied for and its place, so that two checkpoints share a segment when  *)
(* they hold the same name. The lane of a request has the bytes of those   *)
(* that were restored into it or copied out of it.                         *)
(***************************************************************************)
EXTENDS Integers, FiniteSets, Sequences, SequencesExt

CONSTANTS
    Requests,
    Content,            \* what a page of tokens may hold
    Prompt,             \* request -> its full pages; a partial one follows them
    Budget,             \* budget_bytes
    MaxEntries,         \* max_entries
    StateBytes,         \* recurrent, pending and rotary state of a checkpoint
    PageBytes,          \* raw and index bytes of a page
    KeyBytes,           \* token key bytes of a page
    MaxIds,             \* how many publications are explored
    MaxEpoch            \* how many flushes are explored

ASSUME PromptAssumption == IsFiniteSet(Requests) /\ Prompt \in [Requests -> Seq(Content)]
ASSUME BytesAssumption ==
    /\ {Budget, MaxEntries, StateBytes, PageBytes, KeyBytes} \subseteq Nat \ {0}
    /\ MaxIds \in Nat /\ MaxEpoch \in Nat

VARIABLES
    entries,            \* the ids that can be matched, least recently used first
    table,              \* id -> its snapshot and its readers, the retired ones too
    pending_bytes, pending_entries, epoch, next_id,
    phase,              \* request -> where it stands
    reader,             \* request -> the id of its open reader, or 0
    seq,                \* request -> the full pages it has prefilled
    basis,              \* request -> prefix_basis_entry_id and _length
    prefix_epoch,       \* request -> the epoch its lease began in
    reservation,        \* request -> what its capture reserved and copied
    staged              \* request -> the pages whose bytes its staging lane has

cacheVars == <<entries, table, pending_bytes, pending_entries, epoch, next_id>>
requestVars == <<phase, reader, seq, basis, prefix_epoch, reservation, staged>>
vars == <<cacheVars, requestVars>>

Ids == 1..MaxIds
Pages == [id : Ids, place : Nat \ {0}]
NoBasis == [id |-> 0, length |-> 0]
NoReservation == [size |-> 0, epoch |-> 0, start |-> 0, segments |-> {}]

Init ==
    /\ entries = <<>> /\ table = <<>>
    /\ pending_bytes = 0 /\ pending_entries = 0 /\ epoch = 0 /\ next_id = 0
    /\ phase = [q \in Requests |-> "waiting"]
    /\ reader = [q \in Requests |-> 0]
    /\ seq = [q \in Requests |-> 0]
    /\ basis = [q \in Requests |-> NoBasis]
    /\ prefix_epoch = [q \in Requests |-> 0]
    /\ reservation = [q \in Requests |-> NoReservation]
    /\ staged = [q \in Requests |-> {}]

----------------------------------------------------------------------------
(* The cache. Its tables are passed as c, for a call may use them twice.   *)

Cache == [entries |-> entries, table |-> table]

Own(n) == StateBytes + n * KeyBytes

\* Every checkpoint has its own state and key; a shared segment counts once.
Footprint(snapshots) ==
    SumFunction([id \in DOMAIN snapshots |-> Own(Len(snapshots[id].tokens))])
      + PageBytes * Cardinality(UNION {snapshots[id].segments : id \in DOMAIN snapshots})

Length(c, id) == Len(c.table[id].tokens)

\* Those of a sequence that are in K, in their order (an OrderedDict without
\* the others): the n-th is at the place that has n of them up to it.
Only(s, K) ==
    LET kept == {i \in DOMAIN s : s[i] \in K}
    IN  [n \in 1..Cardinality(kept) |->
            s[CHOOSE i \in kept : Cardinality({j \in kept : j <= i}) = n]]

\* Mutant: the tokens are not compared.
BestAnyTokens(c, namespace, tokens, cap) ==
    LET found == {i \in DOMAIN c.entries : /\ c.table[c.entries[i]].epoch = namespace
                                           /\ Length(c, c.entries[i]) <= cap}
    IN  IF found = {} THEN 0
        ELSE c.entries[CHOOSE i \in found : \A j \in found :
                          Length(c, c.entries[i]) >= Length(c, c.entries[j])]

\* The longest checkpoint of this namespace that the tokens start with, and
\* of equally long ones the least recently used; 0 if there is none.
Best(c, namespace, tokens, cap) ==
    LET fits(i) ==
            /\ c.table[c.entries[i]].epoch = namespace
            /\ Length(c, c.entries[i]) <= cap
            /\ IsPrefix(c.table[c.entries[i]].tokens, tokens)
        found == {i \in DOMAIN c.entries : fits(i)}
        beats(i, j) ==
            \/ Length(c, c.entries[i]) > Length(c, c.entries[j])
            \/ Length(c, c.entries[i]) = Length(c, c.entries[j]) /\ i <= j
    IN  IF found = {} THEN 0
        ELSE c.entries[CHOOSE i \in found : \A j \in found : beats(i, j)]

\* acquire pins the entry and makes it the most recently used; 0 is a miss.
Acquired(c, id) ==
    IF id = 0 THEN c
    ELSE [entries |-> Append(Only(c.entries, DOMAIN c.table \ {id}), id),
          table |-> [c.table EXCEPT ![id].readers = @ + 1]]

\* Mutant: a retired entry stays in its table.
ClosedKeepsRetired(c, id) ==
    IF id = 0 THEN c ELSE [c EXCEPT !.table = [c.table EXCEPT ![id].readers = @ - 1]]

\* PrefixReader.close; a retired entry goes with its last reader. A closed
\* reader, 0 here, may be closed again.
Closed(c, id) ==
    IF id = 0 THEN c
    ELSE LET left == [c.table EXCEPT ![id].readers = @ - 1]
             gone == {i \in {id} : left[i].readers = 0 /\ ~Contains(c.entries, i)}
         IN  [c EXCEPT !.table = Restrict(left, DOMAIN left \ gone)]

\* Mutant: the most recently used goes first.
VictimsNewest(c) == Reverse(Only(c.entries, {id \in DOMAIN c.table : c.table[id].readers = 0}))

\* The unpinned entries, in the order in which they are evicted.
Victims(c) == Only(c.entries, {id \in DOMAIN c.table : c.table[id].readers = 0})

Without(c, ids) ==
    [entries |-> Only(c.entries, DOMAIN c.table \ ids),
     table |-> Restrict(c.table, DOMAIN c.table \ ids)]

Evicted(c, n) == Without(c, ToSet(SubSeq(Victims(c), 1, n)))

\* Mutant: what other writers have reserved is not counted.
FitsIgnoringPending(c, size) ==
    /\ Footprint(c.table) + size <= Budget
    /\ Cardinality(DOMAIN c.table) < MaxEntries

\* Room for one more entry of this size beside what writers have reserved.
Fits(c, size) ==
    /\ Footprint(c.table) + pending_bytes + size <= Budget
    /\ Cardinality(DOMAIN c.table) + pending_entries < MaxEntries

\* How many entries reserve evicts: as few as will do, or all it may.
Evictions(c, size) ==
    LET enough == {n \in 0..Len(Victims(c)) : Fits(Evicted(c, n), size)}
    IN  IF enough = {} THEN Len(Victims(c)) ELSE Min(enough)

\* Mutant: the cache is reset with the readers of the matches left open.
DroppedUnclosed ==
    [entries |-> <<>>, table |-> Restrict(table, {id \in DOMAIN table : table[id].readers > 0})]

\* _drop_host_prefixes closes the readers of all matches and resets.
Dropped ==
    LET matched == {q \in Requests : phase[q] = "matched"}
        left == [id \in DOMAIN table |-> [table[id] EXCEPT
                    !.readers = @ - Cardinality({q \in matched : reader[q] = id})]]
    IN  [entries |-> <<>>,
         table |-> Restrict(left, {id \in DOMAIN left : left[id].readers > 0})]

Becomes(c) == entries' = c.entries /\ table' = c.table

----------------------------------------------------------------------------
(* Matching, restoring and prefilling.                                     *)

\* match_prefix: the reader of an earlier match is closed first, and the new
\* one too when the ranks disagree about what they found.
Match(q, agreed) ==
    /\ phase[q] \in {"waiting", "matched"}
    /\ LET old == Closed(Cache, reader[q])
           id == Best(old, epoch, Prompt[q], Len(Prompt[q]))
           new == Acquired(old, id)
       IN  /\ Becomes(IF agreed THEN new ELSE Closed(new, id))
           /\ reader' = [reader EXCEPT ![q] = IF agreed THEN id ELSE 0]
           /\ phase' = [phase EXCEPT ![q] = IF agreed /\ id # 0 THEN "matched" ELSE "waiting"]
    /\ UNCHANGED <<pending_bytes, pending_entries, epoch, next_id, seq, basis,
                   prefix_epoch, reservation, staged>>

\* The request's first forward begins: its lease notes the epoch, and a match
\* is restored and its reader closed.
Start(q) ==
    /\ phase[q] \in {"waiting", "matched"}
    /\ phase[q] = "matched" => table[reader[q]].epoch = epoch
    /\ LET length == IF phase[q] = "matched" THEN Length(Cache, reader[q]) ELSE 0
       IN  /\ seq' = [seq EXCEPT ![q] = length]
           /\ staged' = [staged EXCEPT ![q] = IF phase[q] = "matched"
                                                THEN table[reader[q]].segments ELSE {}]
           /\ basis' = [basis EXCEPT ![q] = [id |-> reader[q], length |-> length]]
    /\ prefix_epoch' = [prefix_epoch EXCEPT ![q] = epoch]
    /\ Becomes(Closed(Cache, reader[q]))
    /\ reader' = [reader EXCEPT ![q] = 0]
    /\ phase' = [phase EXCEPT ![q] = "prefill"]
    /\ UNCHANGED <<pending_bytes, pending_entries, epoch, next_id, reservation>>

\* A forward; it may end on a page boundary, where a capture is tried.
Forward(q, length, aligned) ==
    /\ phase[q] = "prefill"
    /\ length > seq[q]
    /\ seq' = [seq EXCEPT ![q] = length]
    /\ phase' = [phase EXCEPT ![q] = IF aligned THEN "boundary" ELSE "prefill"]
    /\ UNCHANGED <<cacheVars, reader, basis, prefix_epoch, reservation, staged>>

\* The request hands off, or is aborted; a match it still holds is closed.
Leave(q) ==
    /\ phase[q] \in {"waiting", "matched", "prefill"}
    /\ Becomes(Closed(Cache, reader[q]))
    /\ reader' = [reader EXCEPT ![q] = 0]
    /\ phase' = [phase EXCEPT ![q] = "done"]
    /\ staged' = [staged EXCEPT ![q] = {}]
    /\ UNCHANGED <<pending_bytes, pending_entries, epoch, next_id, seq, basis,
                   prefix_epoch, reservation>>

----------------------------------------------------------------------------
(* Capture and publication.                                                *)

\* capture_prefix takes nothing for a request that began before a flush.
CaptureStale(q) ==
    /\ phase[q] = "boundary"
    /\ prefix_epoch[q] # epoch
    /\ phase' = [phase EXCEPT ![q] = "prefill"]
    /\ UNCHANGED <<cacheVars, reader, seq, basis, prefix_epoch, reservation, staged>>

Previous(q) == Best(Cache, epoch, Prompt[q], seq[q])

\* The checkpoint exists: the lookup has only made it the latest used.
CaptureKnown(q) ==
    /\ phase[q] = "boundary"
    /\ prefix_epoch[q] = epoch
    /\ Previous(q) # 0
    /\ Length(Cache, Previous(q)) = seq[q]
    /\ Becomes(Closed(Acquired(Cache, Previous(q)), Previous(q)))
    /\ phase' = [phase EXCEPT ![q] = "prefill"]
    /\ UNCHANGED <<pending_bytes, pending_entries, epoch, next_id, reader, seq, basis,
                   prefix_epoch, reservation, staged>>

\* Mutant: the basis is used after its reader was closed.
AncestorUnpinned(q) ==
    LET first == Previous(q) IN
    IF first = basis[q].id
      THEN [cache |-> Closed(Acquired(Cache, first), first), id |-> first]
      ELSE [cache |-> Cache, id |-> 0]

\* Mutant: a checkpoint of the basis' tokens will do, whoever published it.
AncestorByTokens(q) ==
    LET id == IF basis[q].length = 0 THEN 0 ELSE Best(Cache, epoch, Prompt[q], basis[q].length)
    IN  [cache |-> Acquired(Cache, id), id |-> id]

\* The lookups of a capture: the longest checkpoint is kept open if it is the
\* request's own basis; else one as long as the basis, if that is the basis.
\* What is not is closed again, and stays the latest used.
Ancestor(q) ==
    LET first == Previous(q)
        c1 == Acquired(Cache, first)
        c2 == Closed(c1, first)
        second == IF basis[q].length = 0 THEN 0
                  ELSE Best(c2, epoch, Prompt[q], basis[q].length)
        c3 == Acquired(c2, second)
    IN  IF first = basis[q].id THEN [cache |-> c1, id |-> first]
        ELSE IF second = basis[q].id THEN [cache |-> c3, id |-> second]
        ELSE [cache |-> Closed(c3, second), id |-> 0]

CheckpointBytes(delta, length) == delta * PageBytes + Own(length)

\* A capture with something new to write: it reserves the bytes beyond its
\* ancestor, whose reader it keeps while it writes, or it gives up, having
\* evicted every entry without readers.
Capture(q) ==
    /\ phase[q] = "boundary"
    /\ prefix_epoch[q] = epoch
    /\ Previous(q) # 0 => Length(Cache, Previous(q)) < seq[q]
    /\ next_id + pending_entries < MaxIds
    /\ LET found == Ancestor(q)
           start == IF found.id = 0 THEN 0 ELSE Length(found.cache, found.id)
           size == CheckpointBytes(seq[q] - start, seq[q])
           room == IF size > Budget THEN found.cache
                   ELSE Evicted(found.cache, Evictions(found.cache, size))
       IN  IF size <= Budget /\ Fits(room, size)
             THEN /\ Becomes(room)
                  /\ reader' = [reader EXCEPT ![q] = found.id]
                  /\ phase' = [phase EXCEPT ![q] = "writing"]
                  /\ reservation' = [reservation EXCEPT ![q] =
                        [size |-> size, epoch |-> epoch, start |-> start,
                         segments |-> IF found.id = 0 THEN {}
                                      ELSE found.cache.table[found.id].segments]]
                  /\ pending_bytes' = pending_bytes + size
                  /\ pending_entries' = pending_entries + 1
             ELSE /\ Becomes(Closed(room, found.id))
                  /\ phase' = [phase EXCEPT ![q] = "prefill"]
                  /\ UNCHANGED <<reader, reservation, pending_bytes, pending_entries>>
    /\ UNCHANGED <<epoch, next_id, seq, basis, prefix_epoch, staged>>

\* Mutant: closing the reservation leaves the ancestor's reader open.
CloseReservationOnly(q, c) ==
    /\ Becomes(c)
    /\ reader' = [reader EXCEPT ![q] = 0]
    /\ pending_bytes' = pending_bytes - reservation[q].size
    /\ pending_entries' = pending_entries - 1
    /\ reservation' = [reservation EXCEPT ![q] = NoReservation]
    /\ phase' = [phase EXCEPT ![q] = "prefill"]

\* PrefixReservation.close, which closes the ancestor's reader with it. The
\* cache is what the caller made of it.
CloseReservation(q, c) ==
    /\ Becomes(Closed(c, reader[q]))
    /\ reader' = [reader EXCEPT ![q] = 0]
    /\ pending_bytes' = pending_bytes - reservation[q].size
    /\ pending_entries' = pending_entries - 1
    /\ reservation' = [reservation EXCEPT ![q] = NoReservation]
    /\ phase' = [phase EXCEPT ![q] = "prefill"]

\* What a writer copied out of its lane, behind its ancestor.
Copied(q, id) == [id : {id}, place : reservation[q].start + 1 .. seq[q]]

\* What a writer publishes: the ancestor's segments and its own copies.
Snapshot(q, id) ==
    LET r == reservation[q] IN
    [epoch |-> r.epoch, tokens |-> SubSeq(Prompt[q], 1, seq[q]), readers |-> 0,
     segments |-> r.segments \cup Copied(q, id)]

Extended(q) == [id \in DOMAIN table \cup {next_id + 1} |->
                  IF id = next_id + 1 THEN Snapshot(q, id) ELSE table[id]]

Growth(q) == Footprint(Extended(q)) - Footprint(table)

\* Mutant: the epoch is not compared.
PublishableAnyEpoch(q) == Growth(q) <= reservation[q].size

\* publish raises for a reservation of a flushed epoch, and for a checkpoint
\* larger than what was reserved; it closes the reservation in any case.
Publishable(q) == reservation[q].epoch = epoch /\ Growth(q) <= reservation[q].size

Publish(q) ==
    /\ phase[q] = "writing"
    /\ Publishable(q)
    /\ next_id' = next_id + 1
    /\ basis' = [basis EXCEPT ![q] = [id |-> next_id + 1, length |-> seq[q]]]
    /\ staged' = [staged EXCEPT ![q] = @ \cup Copied(q, next_id + 1)]
    /\ CloseReservation(q, [entries |-> Append(entries, next_id + 1), table |-> Extended(q)])
    /\ UNCHANGED <<epoch, seq, prefix_epoch>>

\* A copy fails, the ranks disagree, or publish raises.
CaptureFails(q) ==
    /\ phase[q] = "writing"
    /\ CloseReservation(q, Cache)
    /\ UNCHANGED <<epoch, next_id, seq, basis, prefix_epoch, staged>>

Drop ==
    /\ epoch < MaxEpoch
    /\ Becomes(Dropped)
    /\ epoch' = epoch + 1
    /\ reader' = [q \in Requests |-> IF phase[q] = "matched" THEN 0 ELSE reader[q]]
    /\ phase' = [q \in Requests |-> IF phase[q] = "matched" THEN "waiting" ELSE phase[q]]
    /\ UNCHANGED <<pending_bytes, pending_entries, next_id, seq, basis, prefix_epoch,
                   reservation, staged>>

----------------------------------------------------------------------------

Next ==
    \/ \E q \in Requests :
          \/ \E agreed \in BOOLEAN : Match(q, agreed)
          \/ Start(q)
          \/ \E length \in 1..Len(Prompt[q]), aligned \in BOOLEAN : Forward(q, length, aligned)
          \/ Leave(q)
          \/ CaptureStale(q) \/ CaptureKnown(q) \/ Capture(q)
          \/ Publish(q) \/ CaptureFails(q)
    \/ Drop

Spec == Init /\ [][Next]_vars

\* A writer does not stop half-way: it publishes, or its failure is handled.
Fairness == \A q \in Requests : WF_vars(Publish(q) \/ CaptureFails(q))

FairSpec == Spec /\ Fairness

----------------------------------------------------------------------------
(* What the cache promises.                                                *)

\* A writer's reservation stays large enough: the segments it shares are still
\* held, and are not paid for again, when it publishes.
WriterFits == \A q \in Requests : phase[q] = "writing" => Growth(q) <= reservation[q].size

\* What the held checkpoints use and what the writers reserved stay within
\* the budget and the entry limit together, with retired checkpoints and
\* shared segments, whatever is evicted or flushed under a writer; and each
\* writer reserved what its publication will use.
BudgetHeld ==
    /\ WriterFits
    /\ Footprint(table) + pending_bytes <= Budget
    /\ Cardinality(DOMAIN table) + pending_entries <= MaxEntries

\* The books are those of the open handles: a checkpoint has as many readers
\* as requests that hold it, a flushed one is kept for its readers only, and
\* what is pending is what the writers reserved.
AccountsExact ==
    LET writers == {q \in Requests : phase[q] = "writing"} IN
    /\ \A q \in Requests : reader[q] # 0 => reader[q] \in DOMAIN table
    /\ \A id \in DOMAIN table :
          /\ table[id].readers = Cardinality({q \in Requests : reader[q] = id})
          /\ Contains(entries, id) \/ table[id].readers > 0
    /\ pending_bytes = SumFunction([q \in writers |-> reservation[q].size])
    /\ pending_entries = Cardinality(writers)

\* After a flush nothing from before can be matched or is restored, though
\* captures were under way and readers open.
CurrentEpochOnly ==
    /\ \A i \in DOMAIN entries : table[entries[i]].epoch = epoch
    /\ \A q \in Requests : phase[q] = "matched" => table[reader[q]].epoch = epoch

\* A checkpoint has every page of its tokens once, and checkpoints share a
\* page only if their tokens agree up to it.
SharedPagesAgree ==
    /\ \A id \in DOMAIN table :
          /\ {p.place : p \in table[id].segments} = 1..Len(table[id].tokens)
          /\ Cardinality(table[id].segments) = Len(table[id].tokens)
    /\ \A i, j \in DOMAIN table : \A p \in table[i].segments \cap table[j].segments :
          SubSeq(table[i].tokens, 1, p.place) = SubSeq(table[j].tokens, 1, p.place)

\* A capture shares a page only if the bytes of that copy are those its own
\* lane has, restored from it or copied to it: not another's of the same
\* tokens, whose forward may have been in other chunks, though the checkpoint
\* it restored was evicted and one of the same tokens published since.
SharedPagesStaged ==
    \A q \in Requests : phase[q] = "writing" => reservation[q].segments \subseteq staged[q]

\* What is shared is right in both: the tokens of the checkpoints that hold it,
\* and the bytes of the request that takes it over.
SharingExact == SharedPagesAgree /\ SharedPagesStaged

\* Outside a flush an entry leaves only while nobody reads it, and before every
\* unpinned one used more recently, the ones the capture looked up apart; and
\* a writer that got its reservation had no victim too many: with one of them
\* back it would not have fitted.
EvictsRightly ==
    epoch' = epoch =>
       LET gone == ToSet(entries) \ ToSet(entries')
           looked_up == {id \in DOMAIN table : \E q \in Requests :
                          phase[q] = "boundary" /\ phase'[q] # "boundary"
                          /\ IsPrefix(table[id].tokens, Prompt[q])}
       IN  /\ \A id \in gone : table[id].readers = 0
           /\ \A i, j \in DOMAIN entries :
                 i < j /\ entries[j] \in gone /\ entries[i] \notin gone =>
                    table[entries[i]].readers > 0 \/ entries[i] \in looked_up
           /\ gone # {} /\ pending_entries' > pending_entries =>
                 \E id \in gone :
                    \/ Footprint(Restrict(table, DOMAIN table' \cup {id})) + pending_bytes'
                          > Budget
                    \/ Cardinality(DOMAIN table') + pending_entries' = MaxEntries

EvictsAsNeeded == [][EvictsRightly]_vars

\* A flushed checkpoint that a writer still reads is freed in the end.
RetiredReclaimed ==
    \A id \in Ids :
       (id \in DOMAIN table /\ ~Contains(entries, id)) ~> (id \notin DOMAIN table)

=============================================================================
