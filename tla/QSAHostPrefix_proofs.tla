------------------------ MODULE QSAHostPrefix_proofs ------------------------
(***************************************************************************)
(* The host cache of prefix checkpoints, proved for any requests, prompts, *)
(* budget, entry limit and sizes, and any number of publications and       *)
(* flushes: budget and entry limit hold with what is reserved, the books   *)
(* are those of the open readers and reservations, nothing from before a   *)
(* flush is matched, checkpoints share only the pages they agree on, a     *)
(* capture shares only those whose bytes its own lane has, and it evicts   *)
(* in the order of use and no more than it has to.                         *)
(*                                                                         *)
(* That a publication fits in its reservation depends on the ancestor's    *)
(* pages being held still, which depends on its reader being counted, and  *)
(* which pages those are on the numbering of publications. The invariant   *)
(* therefore says of the tables of a cache, whatever a call has made of    *)
(* them so far, that their readers are those that requests hold (CacheOK), *)
(* and of a request what its match or its reservation stands for           *)
(* (RequestOK).                                                            *)
(*                                                                         *)
(* The sums and the orders of the model are those of the community         *)
(* modules. What is needed of them is proved by induction on sets: of some *)
(* finite sets, one has no other in it (LeastSet).                         *)
(***************************************************************************)
EXTENDS QSAHostPrefix, TLAPS, SequenceTheorems, FiniteSetTheorems

\* A page of a checkpoint, by the checkpoint it was copied for and its place.
Names == [id : Nat, place : Nat \ {0}]
Snapshots == [epoch : Nat, tokens : Seq(Content), readers : Nat, segments : FiniteSubsetsOf(Names)]
Reservations == [size : Nat, epoch : Nat, start : Nat, segments : SUBSET Names]
Phases == {"waiting", "matched", "prefill", "boundary", "writing", "done"}

TypeOK ==
    /\ {pending_bytes, pending_entries, epoch, next_id} \subseteq Nat
    /\ phase \in [Requests -> Phases] /\ seq \in [Requests -> Nat]
    /\ basis \in [Requests -> [id : Nat, length : Nat]]
    /\ prefix_epoch \in [Requests -> Nat]
    /\ reservation \in [Requests -> Reservations]

Once(s) == \A i, j \in DOMAIN s : s[i] = s[j] => i = j
Has(s, x) == \E i \in DOMAIN s : s[i] = x
Listed(c, id) == Has(c.entries, id)
Readers(held, id) == {q \in Requests : held[q] = id}

\* The tables of a cache, whose readers are those that requests hold.
CacheOK(c, held) ==
    /\ c = [entries |-> c.entries, table |-> c.table]
    /\ IsFiniteSet(DOMAIN c.table) /\ DOMAIN c.table \subseteq Nat \ {0}
    /\ c.table \in [DOMAIN c.table -> Snapshots]
    /\ c.entries \in Seq(DOMAIN c.table)
    /\ Once(c.entries)
    /\ held \in [Requests -> Nat]
    /\ \A q \in Requests : held[q] # 0 => held[q] \in DOMAIN c.table
    /\ \A id \in DOMAIN c.table :
          /\ c.table[id].readers = Cardinality(Readers(held, id))
          /\ Listed(c, id) \/ c.table[id].readers > 0

Books == CacheOK(Cache, reader)

\* Checkpoints and the pages copied for them are numbered by publications.
Numbered ==
    \A id \in DOMAIN table :
       id <= next_id /\ \A p \in table[id].segments : p.id <= next_id

\* What is held and what is reserved fit together.
Room ==
    /\ Footprint(table) + pending_bytes <= Budget
    /\ Cardinality(DOMAIN table) + pending_entries <= MaxEntries

Writers == {q \in Requests : phase[q] = "writing"}

\* What is pending is what the writers reserved.
Pending ==
    /\ pending_bytes = SumFunction([q \in Writers |-> reservation[q].size])
    /\ pending_entries = Cardinality(Writers)

\* A writer reserved for the pages behind its ancestor, which it holds.
WriterOK(q) ==
    LET r == reservation[q] IN
    /\ r.start <= seq[q] /\ r.size = CheckpointBytes(seq[q] - r.start, seq[q])
    /\ reader[q] = 0 => r.start = 0 /\ r.segments = {}
    /\ reader[q] # 0 => /\ r.start = Len(table[reader[q]].tokens)
                        /\ r.segments = table[reader[q]].segments
                        /\ table[reader[q]].tokens = SubSeq(Prompt[q], 1, r.start)

\* A match is of this epoch and of the request's own prompt.
MatchOK(q) ==
    /\ reader[q] # 0
    /\ table[reader[q]].epoch = epoch
    /\ Len(table[reader[q]].tokens) <= Len(Prompt[q])

RequestOK(q) ==
    /\ seq[q] <= Len(Prompt[q])
    /\ phase[q] \in {"prefill", "boundary", "writing"} => basis[q].length <= seq[q]
    /\ phase[q] = "matched" => MatchOK(q)
    /\ phase[q] = "writing" => WriterOK(q)
    /\ reader[q] # 0 => phase[q] \in {"matched", "writing"}

RequestsOK == \A q \in Requests : RequestOK(q)

\* What can be matched is of this epoch.
EntriesNow == \A i \in DOMAIN entries : table[entries[i]].epoch = epoch

IInv ==
    /\ TypeOK /\ Books /\ Numbered /\ Room /\ Pending /\ RequestsOK /\ EntriesNow
    /\ SharedPagesAgree

----------------------------------------------------------------------------
(* Induction, by sets: what holds of a least set holds of a least number.  *)

\* Of some finite sets one has none of the others in it.
LEMMA LeastSet ==
    ASSUME NEW S, NEW T, T \subseteq FiniteSubsetsOf(S), T # {}
    PROVE  \E x \in T : \A y \in T : y \subseteq x => y = x
<1>1. \E x \in T : \A y \in T : ~(<<y, x>> \in StrictSubsetOrdering(S))
  BY FS_StrictSubsetOrderingWellFounded, WFMin
<1> QED
  BY <1>1 DEF StrictSubsetOrdering, FiniteSubsetsOf

\* Of some numbers one is the least.
LEMMA LeastNumber ==
    ASSUME NEW N, N \subseteq Nat, N # {}
    PROVE  \E n \in N : \A m \in N : n <= m
<1> DEFINE T == {0..n : n \in N}
<1>1. T \subseteq FiniteSubsetsOf(Nat) /\ T # {}
  <2>1. ASSUME NEW n \in Nat PROVE IsFiniteSet(0..n) /\ 0..n \in SUBSET Nat
    BY FS_Interval
  <2> QED
    BY <2>1 DEF FiniteSubsetsOf
<1>2. PICK x \in T : \A y \in T : y \subseteq x => y = x
  <2> HIDE DEF T
  <2> QED
    BY <1>1, LeastSet
<1>3. PICK n \in N : x = 0..n
  OBVIOUS
<1>4. ASSUME NEW m \in N, m < n PROVE FALSE
  <2>1. 0..m \in T /\ 0..m \subseteq 0..n /\ n \in 0..n /\ n \notin 0..m
    BY <1>4
  <2> QED
    BY <1>2, <1>3, <2>1
<1> QED
  BY <1>4

\* Of some numbers up to a bound one is the greatest.
LEMMA GreatestNumber ==
    ASSUME NEW N, N \subseteq Nat, N # {}, NEW b \in Nat, \A n \in N : n <= b
    PROVE  \E n \in N : \A m \in N : m <= n
<1> DEFINE T == {b - n : n \in N}
<1>1. T \subseteq Nat /\ T # {}
  <2>1. ASSUME NEW n \in N PROVE b - n \in Nat
    <3>1. n \in Nat /\ n <= b
      OBVIOUS
    <3> QED
      BY <3>1
  <2> QED
    BY <2>1
<1>2. PICK x \in T : \A y \in T : x <= y
  <2> HIDE DEF T
  <2> QED
    BY <1>1, LeastNumber
<1>3. PICK n \in N : x = b - n
  OBVIOUS
<1>4. ASSUME NEW m \in N PROVE m <= n
  <2>1. b - m \in T
    OBVIOUS
  <2>2. b - n <= b - m
    BY <1>2, <1>3, <2>1
  <2> QED
    BY <2>2
<1> QED
  BY <1>4

----------------------------------------------------------------------------
(* Parts of a sequence.                                                    *)

Kept(s, K) == {i \in DOMAIN s : s[i] \in K}
UpTo(I, i) == {j \in I : j <= i}

\* The places in s of the elements of o, which are those in K.
Places(place, o, s, K) ==
    /\ place \in [DOMAIN o -> Kept(s, K)]
    /\ \A n \in DOMAIN o : o[n] = s[place[n]]
    /\ \A m, n \in DOMAIN o : m < n => place[m] < place[n]
    /\ \A i \in Kept(s, K) : \E n \in DOMAIN o : place[n] = i

\* Numbers are as far along as there are others up to them.
LEMMA RankIs ==
    ASSUME NEW I, I \subseteq Nat, IsFiniteSet(I)
    PROVE  /\ Cardinality(I) \in Nat
           /\ \A i \in I : Cardinality(UpTo(I, i)) \in 1..Cardinality(I)
           /\ \A i, j \in I : i < j => Cardinality(UpTo(I, i)) < Cardinality(UpTo(I, j))
           /\ \A n \in 1..Cardinality(I) : \E i \in I : Cardinality(UpTo(I, i)) = n
<1>1. Cardinality(I) \in Nat
  BY FS_CardinalityType
<1>2. ASSUME NEW i \in I
      PROVE  /\ Cardinality(UpTo(I, i)) \in 1..Cardinality(I) /\ IsFiniteSet(UpTo(I, i))
             /\ Cardinality(UpTo(I, i)) \in Nat
  <2>1. UpTo(I, i) \in SUBSET I /\ i \in UpTo(I, i)
    BY DEF UpTo
  <2>2. IsFiniteSet(UpTo(I, i)) /\ Cardinality(UpTo(I, i)) <= Cardinality(I)
    BY <2>1, FS_Subset
  <2>3. Cardinality(UpTo(I, i)) \in Nat /\ Cardinality(UpTo(I, i)) # 0
    BY <2>1, <2>2, FS_CardinalityType, FS_EmptySet
  <2> QED
    BY <1>1, <2>2, <2>3
<1>3. ASSUME NEW i \in I, NEW j \in I, i < j
      PROVE  Cardinality(UpTo(I, i)) < Cardinality(UpTo(I, j))
  <2>1. UpTo(I, i) \in SUBSET UpTo(I, j) /\ j \in UpTo(I, j) /\ j \notin UpTo(I, i)
    <3>1. i \in Nat /\ j \in Nat
      OBVIOUS
    <3>2. ASSUME NEW x \in UpTo(I, i) PROVE x \in UpTo(I, j)
      <4>1. x \in I /\ x \in Nat /\ x <= i
        BY DEF UpTo
      <4> QED
        BY <1>3, <3>1, <4>1 DEF UpTo
    <3>3. j \in UpTo(I, j)
      BY <3>1 DEF UpTo
    <3>4. j \notin UpTo(I, i)
      BY <1>3, <3>1 DEF UpTo
    <3> QED
      BY <3>2, <3>3, <3>4
  <2>2. /\ Cardinality(UpTo(I, i)) <= Cardinality(UpTo(I, j))
        /\ Cardinality(UpTo(I, j)) = Cardinality(UpTo(I, i)) => UpTo(I, j) = UpTo(I, i)
    BY <1>2, <2>1, FS_Subset
  <2> QED
    BY <1>2, <2>1, <2>2
<1> DEFINE rank == [i \in I |-> Cardinality(UpTo(I, i))]
<1>4. rank \in [I -> 1..Cardinality(I)] /\ \A i, j \in I : rank[i] = rank[j] => i = j
  <2>1. rank \in [I -> 1..Cardinality(I)]
    BY <1>2
  <2>2. ASSUME NEW i \in I, NEW j \in I, rank[i] = rank[j] PROVE i = j
    <3>1. i \in Nat /\ j \in Nat /\ ~(i < j) /\ ~(j < i)
      BY <1>2, <1>3, <2>2
    <3> QED
      BY <3>1
  <2> QED
    BY <2>1, <2>2
<1>5. IsFiniteSet(1..Cardinality(I)) /\ Cardinality(1..Cardinality(I)) = Cardinality(I)
  BY <1>1, FS_Interval
<1>6. rank \in Surjection(I, 1..Cardinality(I))
  <2> HIDE DEF rank
  <2>1. rank \in Injection(I, 1..Cardinality(I))
    BY <1>4 DEF Injection, IsInjective
  <2> QED
    BY <1>5, <2>1, FS_Injection
<1>7. ASSUME NEW n \in 1..Cardinality(I)
      PROVE  \E i \in I : Cardinality(UpTo(I, i)) = n
  <2>1. PICK i \in I : rank[i] = n
    BY <1>6 DEF Surjection
  <2> QED
    BY <2>1
<1> QED
  BY <1>1, <1>2, <1>3, <1>7

\* Only takes the places in question, each once and in order.
LEMMA OnlyIs ==
    ASSUME NEW S, NEW s \in Seq(S), NEW K
    PROVE  /\ Only(s, K) \in Seq(S \cap K) /\ Len(Only(s, K)) \in Nat
           /\ DOMAIN Only(s, K) = 1..Len(Only(s, K))
           /\ \E place : Places(place, Only(s, K), s, K)
<1> DEFINE I == Kept(s, K)
           place == [n \in 1..Cardinality(I) |-> CHOOSE i \in I : Cardinality(UpTo(I, i)) = n]
<1>1. I \subseteq Nat /\ IsFiniteSet(I)
  <2>1. IsFiniteSet(1..Len(s)) /\ DOMAIN s = 1..Len(s) /\ I \in SUBSET (1..Len(s))
    BY FS_Interval DEF Kept
  <2>2. IsFiniteSet(I)
    BY <2>1, FS_Subset
  <2> QED
    BY <2>1, <2>2
<1> HIDE DEF I
<1>2. /\ Cardinality(I) \in Nat
      /\ \A i \in I : Cardinality(UpTo(I, i)) \in 1..Cardinality(I)
      /\ \A i, j \in I : i < j => Cardinality(UpTo(I, i)) < Cardinality(UpTo(I, j))
      /\ \A n \in 1..Cardinality(I) : \E i \in I : Cardinality(UpTo(I, i)) = n
  BY <1>1, RankIs
<1>3. \A n \in 1..Cardinality(I) : place[n] \in I /\ Cardinality(UpTo(I, place[n])) = n
  BY <1>2
<1>4. Only(s, K) = [n \in 1..Cardinality(I) |-> s[place[n]]]
  BY DEF Only, I, Kept, UpTo
<1> HIDE DEF place
<1>5. DOMAIN place = 1..Cardinality(I)
  BY DEF place
<1>6. place \in [1..Cardinality(I) -> I]
  BY <1>3 DEF place
<1>7. \A i \in I : i \in DOMAIN s /\ s[i] \in S \cap K
  BY DEF I, Kept
<1>8. Only(s, K) \in [1..Cardinality(I) -> S \cap K]
  BY <1>3, <1>4, <1>7
<1>9. Only(s, K) \in Seq(S \cap K) /\ DOMAIN Only(s, K) = 1..Cardinality(I)
  BY <1>2, <1>8
<1>10. ASSUME NEW m \in 1..Cardinality(I), NEW n \in 1..Cardinality(I), m < n
       PROVE  place[m] < place[n]
  <2>1. place[m] \in I /\ place[n] \in I /\ place[m] \in Nat /\ place[n] \in Nat
    BY <1>1, <1>3
  <2>2. ~(place[n] < place[m]) /\ place[m] # place[n]
    BY <1>2, <1>3, <1>10, <2>1
  <2> QED
    BY <2>1, <2>2
<1>11. ASSUME NEW i \in I PROVE \E n \in 1..Cardinality(I) : place[n] = i
  <2>1. PICK n \in 1..Cardinality(I) : n = Cardinality(UpTo(I, i))
    BY <1>2
  <2>2. place[n] \in I /\ Cardinality(UpTo(I, place[n])) = n
    BY <1>3
  <2>3. i \in Nat /\ place[n] \in Nat /\ n \in Nat
    <3>1. i \in Nat /\ place[n] \in Nat
      BY <1>1, <2>2
    <3>2. n \in Nat
      BY <1>2
    <3> QED
      BY <3>1, <3>2
  <2>4. ~(place[n] < i) /\ ~(i < place[n])
    BY <1>2, <2>1, <2>2, <2>3
  <2> QED
    BY <2>1, <2>3, <2>4
<1>12. \A n \in 1..Cardinality(I) : Only(s, K)[n] = s[place[n]]
  BY <1>4
<1>13. Len(Only(s, K)) = Cardinality(I)
  BY <1>2, <1>9
<1> HIDE DEF I
<1>14. I = Kept(s, K) /\ DOMAIN Only(s, K) = 1..Len(Only(s, K)) /\ Len(Only(s, K)) \in Nat
       /\ DOMAIN Only(s, K) = 1..Cardinality(I)
  BY <1>2, <1>9, <1>13 DEF I
<1> DEFINE o == Only(s, K)
<1> HIDE DEF o
<1>15. \E f \in [1..Cardinality(I) -> I] :
          /\ \A n \in 1..Cardinality(I) : o[n] = s[f[n]]
          /\ \A m, n \in 1..Cardinality(I) : m < n => f[m] < f[n]
          /\ \A i \in I : \E n \in 1..Cardinality(I) : f[n] = i
  BY <1>6, <1>10, <1>11, <1>12 DEF o
<1>16. \E f : Places(f, o, s, K)
  <2>1. DOMAIN o = 1..Cardinality(I) /\ Kept(s, K) = I
    BY <1>14 DEF o
  <2>2. PICK f \in [1..Cardinality(I) -> I] :
          /\ \A n \in 1..Cardinality(I) : o[n] = s[f[n]]
          /\ \A m, n \in 1..Cardinality(I) : m < n => f[m] < f[n]
          /\ \A i \in I : \E n \in 1..Cardinality(I) : f[n] = i
    BY <1>15
  <2>3. f \in [DOMAIN o -> Kept(s, K)]
    BY <2>1
  <2>4. /\ \A n \in DOMAIN o : o[n] = s[f[n]]
        /\ \A m, n \in DOMAIN o : m < n => f[m] < f[n]
        /\ \A i \in Kept(s, K) : \E n \in DOMAIN o : f[n] = i
    BY <2>1, <2>2
  <2>5. Places(f, o, s, K)
    BY <2>3, <2>4 DEF Places
  <2> QED
    BY <2>5
<1> QED
  BY <1>9, <1>14, <1>16 DEF o
----------------------------------------------------------------------------
(* Sums over finite sets.                                                  *)

AnyOf(t) == CHOOSE x \in t : TRUE

\* The function that SumFunction folds with, on some subsets of D.
Adds(g, f, T) ==
    g = [t \in T |-> IF t = {} THEN 0 ELSE f[AnyOf(t)] + g[t \ {AnyOf(t)}]]

\* A sum does not depend on the order.
SumsOver(g, f, D) ==
    /\ g \in [SUBSET D -> Nat] /\ g[{}] = 0
    /\ \A t \in SUBSET D : \A x \in t : g[t] = f[x] + g[t \ {x}]

Sized(D, n) == {t \in SUBSET D : Cardinality(t) <= n}

\* A subset without one of its elements is smaller.
LEMMA SmallerIs ==
    ASSUME NEW D, IsFiniteSet(D), NEW t \in SUBSET D
    PROVE  /\ IsFiniteSet(t) /\ Cardinality(t) \in Nat /\ Cardinality(t) <= Cardinality(D)
           /\ t \in FiniteSubsetsOf(D)
           /\ \A x \in t : /\ t \ {x} \in SUBSET D /\ Cardinality(t \ {x}) = Cardinality(t) - 1
                           /\ t \ {x} \subseteq t /\ t \ {x} # t
           /\ t # {} => AnyOf(t) \in t /\ Cardinality(t) > 0
<1>1. IsFiniteSet(t) /\ Cardinality(t) <= Cardinality(D)
  BY FS_Subset
<1>2. Cardinality(t) \in Nat
  BY <1>1, FS_CardinalityType
<1>3. ASSUME NEW x \in t PROVE Cardinality(t \ {x}) = Cardinality(t) - 1
  BY <1>1, FS_RemoveElement
<1>4. t # {} => Cardinality(t) # 0
  BY <1>1, FS_EmptySet
<1> QED
  BY <1>1, <1>2, <1>3, <1>4 DEF FiniteSubsetsOf, AnyOf

\* There is such a function, on the subsets up to any size.
LEMMA AddsExists ==
    ASSUME NEW D, IsFiniteSet(D), NEW f, NEW n \in Nat
    PROVE  \E g : Adds(g, f, Sized(D, n))
<1> DEFINE Bad == {m \in Nat : ~\E g : Adds(g, f, Sized(D, m))}
<1> SUFFICES ASSUME Bad # {} PROVE FALSE
  OBVIOUS
<1>1. PICK m \in Bad : \A k \in Bad : m <= k
  <2>1. Bad \subseteq Nat
    OBVIOUS
  <2> HIDE DEF Bad
  <2> QED
    BY <2>1, LeastNumber
<1>2. CASE m = 0
  <2>1. ASSUME NEW t \in Sized(D, 0) PROVE t = {}
    BY SmallerIs DEF Sized
  <2> DEFINE g == [t \in Sized(D, 0) |-> 0]
  <2>2. Adds(g, f, Sized(D, 0))
    BY <2>1 DEF Adds
  <2> HIDE DEF g
  <2> QED
    BY <1>2, <2>2
<1>3. CASE m # 0
  <2>1. m \in Nat /\ m - 1 \in Nat /\ m - 1 \notin Bad
    <3>1. m \in Nat /\ m - 1 \in Nat /\ ~(m <= m - 1)
      BY <1>3
    <3> HIDE DEF Bad
    <3> QED
      BY <1>1, <3>1
  <2>2. PICK h : Adds(h, f, Sized(D, m - 1))
    BY <2>1
  <2> DEFINE g == [t \in Sized(D, m) |-> IF t = {} THEN 0 ELSE f[AnyOf(t)] + h[t \ {AnyOf(t)}]]
  <2>3. ASSUME NEW t \in Sized(D, m), t # {}
        PROVE  t \ {AnyOf(t)} \in Sized(D, m - 1) /\ t \ {AnyOf(t)} \in Sized(D, m)
    <3>1. t \in SUBSET D /\ Cardinality(t) <= m
      BY DEF Sized
    <3>2. /\ Cardinality(t) \in Nat /\ t \ {AnyOf(t)} \in SUBSET D
          /\ Cardinality(t \ {AnyOf(t)}) = Cardinality(t) - 1
      BY <2>3, <3>1, SmallerIs
    <3>3. Cardinality(t \ {AnyOf(t)}) <= m - 1 /\ Cardinality(t \ {AnyOf(t)}) <= m
      BY <2>1, <3>1, <3>2
    <3> QED
      BY <3>2, <3>3 DEF Sized
  <2>4. ASSUME NEW t \in Sized(D, m), t \in Sized(D, m - 1)
        PROVE  g[t] = h[t]
    BY <2>2, <2>4 DEF Adds
  <2>5. ASSUME NEW t \in Sized(D, m)
        PROVE  g[t] = IF t = {} THEN 0 ELSE f[AnyOf(t)] + g[t \ {AnyOf(t)}]
    <3>1. CASE t = {}
      BY <3>1
    <3>2. CASE t # {}
      <4>1. g[t \ {AnyOf(t)}] = h[t \ {AnyOf(t)}]
        BY <2>3, <2>4, <3>2
      <4>2. g[t] = f[AnyOf(t)] + h[t \ {AnyOf(t)}]
        BY <3>2
      <4> HIDE DEF g
      <4> QED
        BY <3>2, <4>1, <4>2
    <3> QED
      BY <3>1, <3>2
  <2>6. g = [t \in Sized(D, m) |-> g[t]]
    OBVIOUS
  <2> HIDE DEF g
  <2>7. Adds(g, f, Sized(D, m))
    BY <2>5, <2>6 DEF Adds
  <2> QED
    BY <2>7
<1> QED
  BY <1>2, <1>3

\* It adds in any order.
LEMMA AddsInAnyOrder ==
    ASSUME NEW D, IsFiniteSet(D), NEW f, \A d \in D : f[d] \in Nat,
           NEW g, Adds(g, f, SUBSET D)
    PROVE  SumsOver(g, f, D)
<1>1. ASSUME NEW t \in SUBSET D
      PROVE  g[t] = IF t = {} THEN 0 ELSE f[AnyOf(t)] + g[t \ {AnyOf(t)}]
  BY DEF Adds
<1>2. \A t \in SUBSET D : g[t] \in Nat
  <2> DEFINE Bad == {t \in SUBSET D : g[t] \notin Nat}
  <2> SUFFICES ASSUME Bad # {} PROVE FALSE
    OBVIOUS
  <2>1. Bad \subseteq FiniteSubsetsOf(D)
    BY SmallerIs
  <2>2. PICK t \in Bad : \A u \in Bad : u \subseteq t => u = t
    <3> HIDE DEF Bad
    <3> QED
      BY <2>1, LeastSet
  <2>3. t \in SUBSET D /\ g[t] \notin Nat /\ t # {}
    <3>1. t \in SUBSET D /\ g[t] \notin Nat
      OBVIOUS
    <3>2. t = {} => g[t] = 0
      BY <1>1, <3>1
    <3> QED
      BY <3>1, <3>2
  <2>4. t \ {AnyOf(t)} \in SUBSET D /\ t \ {AnyOf(t)} \subseteq t /\ t \ {AnyOf(t)} # t /\ AnyOf(t) \in D
    BY <2>3, SmallerIs
  <2>5. g[t \ {AnyOf(t)}] \in Nat
    BY <2>2, <2>4
  <2>6. f[AnyOf(t)] \in Nat
    BY <2>4
  <2>7. g[t] = f[AnyOf(t)] + g[t \ {AnyOf(t)}]
    BY <1>1, <2>3
  <2> HIDE DEF Bad
  <2> QED
    BY <2>3, <2>5, <2>6, <2>7
<1>3. ASSUME NEW t0 \in SUBSET D, NEW x0 \in t0 PROVE g[t0] = f[x0] + g[t0 \ {x0}]
  <2> DEFINE Bad == {t \in SUBSET D : \E x \in t : g[t] # f[x] + g[t \ {x}]}
  <2> SUFFICES ASSUME Bad # {} PROVE FALSE
    OBVIOUS
  <2>1. Bad \subseteq FiniteSubsetsOf(D)
    BY SmallerIs
  <2>2. PICK t \in Bad : \A u \in Bad : u \subseteq t => u = t
    <3> HIDE DEF Bad
    <3> QED
      BY <2>1, LeastSet
  <2>3. PICK x \in t : g[t] # f[x] + g[t \ {x}]
    OBVIOUS
  <2>4. PICK y : y = AnyOf(t)
    OBVIOUS
  <2>5. y \in t /\ g[t] = f[y] + g[t \ {y}] /\ x # y
    BY <1>1, <2>3, <2>4, SmallerIs
  <2>6. /\ t \ {x} \in SUBSET D /\ t \ {y} \in SUBSET D
        /\ t \ {x} \notin Bad /\ t \ {y} \notin Bad
    <3>1. /\ t \ {x} \in SUBSET D /\ t \ {y} \in SUBSET D
          /\ t \ {x} \subseteq t /\ t \ {y} \subseteq t /\ t \ {x} # t /\ t \ {y} # t
      BY <2>5
    <3> HIDE DEF Bad
    <3> QED
      BY <2>2, <3>1
  <2>7. g[t \ {x}] = f[y] + g[(t \ {x}) \ {y}]
    BY <2>5, <2>6
  <2>8. g[t \ {y}] = f[x] + g[(t \ {y}) \ {x}]
    BY <2>5, <2>6
  <2>9. (t \ {x}) \ {y} = (t \ {y}) \ {x} /\ (t \ {x}) \ {y} \in SUBSET D /\ x \in D /\ y \in D
    BY <2>5
  <2>10. f[x] \in Nat /\ f[y] \in Nat /\ g[(t \ {x}) \ {y}] \in Nat
    BY <1>2, <2>9
  <2> HIDE DEF Bad
  <2>11. PICK z \in Nat : z = g[(t \ {x}) \ {y}]
    BY <2>10
  <2>12. g[t] = f[y] + (f[x] + z) /\ f[x] + g[t \ {x}] = f[x] + (f[y] + z)
    BY <2>5, <2>7, <2>8, <2>9, <2>11
  <2> QED
    BY <2>3, <2>10, <2>11, <2>12
<1>4. g[{}] = 0 /\ g = [t \in SUBSET D |-> g[t]]
  BY <1>1 DEF Adds
<1> QED
  BY <1>2, <1>3, <1>4 DEF SumsOver

\* What SumFunction is.
LEMMA SumIs ==
    ASSUME NEW f, IsFiniteSet(DOMAIN f), \A d \in DOMAIN f : f[d] \in Nat
    PROVE  \E g : SumsOver(g, f, DOMAIN f) /\ SumFunction(f) = g[DOMAIN f]
<1> DEFINE D == DOMAIN f
           iter == CHOOSE g : Adds(g, f, SUBSET D)
<1>1. SumFunction(f) = iter[D]
  <2>1. SumFunction(f) = SumFunctionOnSet(f, D)
    BY DEF SumFunction
  <2>2. SumFunctionOnSet(f, D) =
          (CHOOSE g : g = [t \in SUBSET D |->
              IF t = {} THEN 0
              ELSE f[CHOOSE x \in t : TRUE] + g[t \ {CHOOSE x \in t : TRUE}]])[D]
    BY DEF SumFunctionOnSet, FoldFunctionOnSet, MapThenFoldSet
  <2>3. (CHOOSE g : g = [t \in SUBSET D |->
              IF t = {} THEN 0
              ELSE f[CHOOSE x \in t : TRUE] + g[t \ {CHOOSE x \in t : TRUE}]])[D] = iter[D]
    BY DEF Adds, AnyOf
  <2> QED
    BY <2>1, <2>2, <2>3
<1>2. Cardinality(D) \in Nat /\ Sized(D, Cardinality(D)) = SUBSET D
  BY SmallerIs, FS_CardinalityType DEF Sized
<1>3. \E g : Adds(g, f, SUBSET D)
  <2>1. \E g : Adds(g, f, Sized(D, Cardinality(D)))
    BY <1>2, AddsExists
  <2> QED
    BY <1>2, <2>1
<1>4. Adds(iter, f, SUBSET D)
  BY <1>3
<1> HIDE DEF iter
<1>5. SumsOver(iter, f, D)
  BY <1>4, AddsInAnyOrder
<1> QED
  BY <1>1, <1>5

\* The sum of no numbers.
LEMMA SumOfNone ==
    ASSUME NEW f, DOMAIN f = {}
    PROVE  SumFunction(f) = 0
<1>1. IsFiniteSet(DOMAIN f)
  BY FS_EmptySet
<1>2. PICK g : SumsOver(g, f, DOMAIN f) /\ SumFunction(f) = g[DOMAIN f]
  BY <1>1, SumIs
<1>3. g[{}] = 0
  BY <1>2 DEF SumsOver
<1> QED
  BY <1>2, <1>3

\* Sums of the same are the same.
LEMMA SumsAgree ==
    ASSUME NEW D, NEW E, IsFiniteSet(E), D \subseteq E,
           NEW f, NEW k, \A d \in D : f[d] = k[d],
           NEW g, SumsOver(g, f, D), NEW h, SumsOver(h, k, E)
    PROVE  \A t \in SUBSET D : g[t] = h[t]
<1> DEFINE Bad == {t \in SUBSET D : g[t] # h[t]}
<1> SUFFICES ASSUME Bad # {} PROVE FALSE
  OBVIOUS
<1>1. Bad \subseteq FiniteSubsetsOf(E)
  BY SmallerIs
<1>2. PICK t \in Bad : \A u \in Bad : u \subseteq t => u = t
  <2> HIDE DEF Bad
  <2> QED
    BY <1>1, LeastSet
<1>3. t # {}
  BY DEF SumsOver
<1>4. PICK x : x \in t
  BY <1>3
<1>5. t \ {x} \in SUBSET D /\ t \ {x} \subseteq t /\ t \ {x} # t /\ x \in D
      /\ t \in SUBSET D /\ t \in SUBSET E
  BY <1>4
<1>6. g[t \ {x}] = h[t \ {x}]
  BY <1>2, <1>5
<1>7. g[t] = f[x] + g[t \ {x}] /\ h[t] = k[x] + h[t \ {x}]
  BY <1>4, <1>5 DEF SumsOver
<1> QED
  BY <1>5, <1>6, <1>7

\* A sum with one more term.
LEMMA SumAdd ==
    ASSUME NEW f, NEW k, NEW x, x \notin DOMAIN f, DOMAIN k = DOMAIN f \cup {x},
           IsFiniteSet(DOMAIN f), \A d \in DOMAIN k : k[d] \in Nat,
           \A d \in DOMAIN f : f[d] = k[d]
    PROVE  /\ SumFunction(f) \in Nat /\ SumFunction(k) \in Nat
           /\ SumFunction(k) = SumFunction(f) + k[x]
<1> DEFINE D == DOMAIN f
           E == DOMAIN k
<1>1. IsFiniteSet(E)
  BY FS_AddElement
<1>2. PICK g : SumsOver(g, f, D) /\ SumFunction(f) = g[D]
  BY SumIs
<1>3. PICK h : SumsOver(h, k, E) /\ SumFunction(k) = h[E]
  BY <1>1, SumIs
<1>4. g[D] = h[D]
  <2>1. D \subseteq E /\ \A d \in D : f[d] = k[d]
    OBVIOUS
  <2> HIDE DEF D, E
  <2>2. \A t \in SUBSET D : g[t] = h[t]
    BY <1>1, <1>2, <1>3, <2>1, SumsAgree
  <2> QED
    BY <2>2
<1>5. E \ {x} = D /\ x \in E
  OBVIOUS
<1>6. h[E] = k[x] + h[D] /\ h[E] \in Nat /\ h[D] \in Nat /\ k[x] \in Nat
  <2>1. k[x] \in Nat /\ D \in SUBSET E /\ E \in SUBSET E
    BY <1>5
  <2> HIDE DEF D, E
  <2> QED
    BY <1>3, <1>5, <2>1 DEF SumsOver
<1> HIDE DEF D, E
<1> QED
  BY <1>2, <1>3, <1>4, <1>6

\* A sum of some of the terms is no more.
LEMMA SumPart ==
    ASSUME NEW f, NEW k, DOMAIN f \subseteq DOMAIN k, IsFiniteSet(DOMAIN k),
           \A d \in DOMAIN k : k[d] \in Nat, \A d \in DOMAIN f : f[d] = k[d]
    PROVE  /\ SumFunction(f) \in Nat /\ SumFunction(k) \in Nat
           /\ SumFunction(f) <= SumFunction(k)
<1> DEFINE D == DOMAIN f
           E == DOMAIN k
<1>1. IsFiniteSet(D)
  BY FS_Subset
<1>2. PICK g : SumsOver(g, f, D) /\ SumFunction(f) = g[D]
  BY <1>1, SumIs
<1>3. PICK h : SumsOver(h, k, E) /\ SumFunction(k) = h[E]
  BY SumIs
<1>4. g[D] = h[D]
  BY <1>2, <1>3, SumsAgree
<1>5. h \in [SUBSET E -> Nat] /\ D \in SUBSET E /\ E \in SUBSET E
  BY <1>3 DEF SumsOver
<1>6. h[D] <= h[E]
  <2> DEFINE Bad == {t \in SUBSET E : D \subseteq t /\ ~(h[D] <= h[t])}
  <2> SUFFICES ASSUME Bad # {} PROVE FALSE
    BY <1>5
  <2>1. Bad \subseteq FiniteSubsetsOf(E)
    BY SmallerIs
  <2>2. PICK t \in Bad : \A u \in Bad : u \subseteq t => u = t
    <3> HIDE DEF Bad
    <3> QED
      BY <2>1, LeastSet
  <2>3. t \in SUBSET E /\ D \subseteq t /\ h[t] \in Nat /\ h[D] \in Nat /\ ~(h[D] <= h[t])
    BY <1>5
  <2>4. PICK x \in t : x \notin D
    BY <2>3
  <2>5. t \ {x} \in SUBSET E /\ D \subseteq t \ {x} /\ t \ {x} \subseteq t /\ t \ {x} # t /\ x \in E
    BY <2>3, <2>4
  <2>6. h[D] <= h[t \ {x}]
    BY <2>2, <2>5
  <2>7. h[t] = k[x] + h[t \ {x}] /\ k[x] \in Nat /\ h[t \ {x}] \in Nat
    BY <1>3, <1>5, <2>3, <2>4, <2>5 DEF SumsOver
  <2> HIDE DEF Bad, D, E
  <2> QED
    BY <2>3, <2>6, <2>7
<1> HIDE DEF D, E
<1> QED
  BY <1>2, <1>3, <1>4, <1>5, <1>6


----------------------------------------------------------------------------
(* The tables of the cache.                                                *)

\* A sequence without repetition, and the others left out of it.
LEMMA OnlyKeeps ==
    ASSUME NEW S, NEW s \in Seq(S), NEW K, Once(s)
    PROVE  /\ Only(s, K) \in Seq(S \cap K) /\ Once(Only(s, K))
           /\ \A x : Has(Only(s, K), x) <=> x \in K /\ Has(s, x)
<1> DEFINE o == Only(s, K)
<1>1. o \in Seq(S \cap K) /\ DOMAIN o = 1..Len(o) /\ Len(o) \in Nat
  BY OnlyIs
<1>2. PICK place : Places(place, o, s, K)
  BY OnlyIs
<1> HIDE DEF o
<1>3. ASSUME NEW i \in DOMAIN o, NEW j \in DOMAIN o, o[i] = o[j] PROVE i = j
  <2>1. place[i] \in DOMAIN s /\ place[j] \in DOMAIN s /\ s[place[i]] = s[place[j]]
    BY <1>2, <1>3 DEF Kept, Places
  <2>2. place[i] = place[j] /\ place[i] \in Nat /\ i \in Nat /\ j \in Nat
    BY <1>1, <2>1 DEF Once
  <2>3. ~(i < j) /\ ~(j < i)
    BY <1>2, <2>2 DEF Places
  <2> QED
    BY <2>2, <2>3
<1>4. ASSUME NEW x, NEW n \in DOMAIN o, o[n] = x
      PROVE  x \in K /\ \E i \in DOMAIN s : s[i] = x
  BY <1>2, <1>4 DEF Kept, Places
<1>5. ASSUME NEW x \in K, NEW i \in DOMAIN s, s[i] = x PROVE \E n \in DOMAIN o : o[n] = x
  <2>1. i \in Kept(s, K)
    BY <1>5 DEF Kept
  <2> QED
    BY <1>2, <1>5, <2>1 DEF Places
<1> QED
  BY <1>1, <1>3, <1>4, <1>5 DEF o, Once, Has

\* One comes before the other.
Before(s, x, y) == \E i, j \in DOMAIN s : i < j /\ s[i] = x /\ s[j] = y

\* What is kept stays in its order.
LEMMA OnlyOrders ==
    ASSUME NEW S, NEW s \in Seq(S), NEW K, NEW x \in K, NEW y \in K, Before(s, x, y)
    PROVE  Before(Only(s, K), x, y)
<1> DEFINE o == Only(s, K)
<1>1. DOMAIN o = 1..Len(o) /\ Len(o) \in Nat
  BY OnlyIs
<1>2. PICK place : Places(place, o, s, K)
  BY OnlyIs
<1> HIDE DEF o
<1>3. PICK i \in DOMAIN s, j \in DOMAIN s : i < j /\ s[i] = x /\ s[j] = y
  BY DEF Before
<1>4. i \in Kept(s, K) /\ j \in Kept(s, K) /\ i \in Nat /\ j \in Nat
  BY <1>3 DEF Kept
<1>5. PICK m \in DOMAIN o, n \in DOMAIN o : place[m] = i /\ place[n] = j
  BY <1>2, <1>4 DEF Places
<1>6. m \in Nat /\ n \in Nat /\ m # n /\ ~(n < m)
  BY <1>1, <1>2, <1>3, <1>4, <1>5 DEF Places
<1>7. m < n /\ o[m] = x /\ o[n] = y
  BY <1>2, <1>3, <1>5, <1>6 DEF Places
<1> QED
  BY <1>5, <1>7 DEF Before, o

\* A later cache lists what the earlier one listed, in its order but for those
\* used in between.
Along(d, c, used) ==
    /\ \A x : Listed(c, x) => Listed(d, x)
    /\ \A x, y : x \notin used /\ Before(c.entries, x, y) => Before(d.entries, x, y)

\* An order is kept as long as every step keeps it.
LEMMA AlongIs ==
    /\ \A c, d, used : d.entries = c.entries => Along(d, c, used)
    /\ \A b, c, d, used : Along(d, c, used) /\ Along(c, b, used) => Along(d, b, used)
    /\ \A c, d, used, more : Along(d, c, used) /\ used \subseteq more => Along(d, c, more)
BY DEF Along, Listed

\* Of two caches one has only what the other has.
Less(d, c) ==
    /\ DOMAIN d.table \subseteq DOMAIN c.table
    /\ \A id \in DOMAIN d.table :
          /\ d.table[id].tokens = c.table[id].tokens
          /\ d.table[id].segments = c.table[id].segments
          /\ d.table[id].epoch = c.table[id].epoch
    /\ \A id : Listed(d, id) => Listed(c, id)

\* What one cache has less than another, it has less than a third that has more.
LEMMA LessIsOrdered ==
    /\ \A c : Less(c, c)
    /\ \A b, c, d : Less(d, c) /\ Less(c, b) => Less(d, b)
BY DEF Less

Emptied(held, q) == [held EXCEPT ![q] = 0]

\* A request more, or less, that holds a checkpoint.
LEMMA ReadersChange ==
    ASSUME NEW held \in [Requests -> Nat], NEW q \in Requests, NEW id \in Nat \ {0}
    PROVE  /\ IsFiniteSet(Readers(held, id)) /\ Cardinality(Readers(held, id)) \in Nat
           /\ held[q] # id =>
                 Cardinality(Readers([held EXCEPT ![q] = id], id))
                     = Cardinality(Readers(held, id)) + 1
           /\ held[q] = id =>
                 Cardinality(Readers(Emptied(held, q), id)) = Cardinality(Readers(held, id)) - 1
           /\ \A i \in Nat \ {0, id} :
                 /\ held[q] = id => Readers(Emptied(held, q), i) = Readers(held, i)
                 /\ held[q] = 0 => Readers([held EXCEPT ![q] = id], i) = Readers(held, i)
<1>1. IsFiniteSet(Readers(held, id)) /\ Cardinality(Readers(held, id)) \in Nat
  <2>1. Readers(held, id) \in SUBSET Requests
    BY DEF Readers
  <2>2. IsFiniteSet(Readers(held, id))
    BY <2>1, PromptAssumption, FS_Subset
  <2> QED
    BY <2>2, FS_CardinalityType
<1>2. ASSUME held[q] # id
      PROVE  Cardinality(Readers([held EXCEPT ![q] = id], id)) = Cardinality(Readers(held, id)) + 1
  <2>1. PICK h : h = [held EXCEPT ![q] = id]
    OBVIOUS
  <2>2. h[q] = id /\ \A p \in Requests \ {q} : h[p] = held[p]
    BY <2>1
  <2>3. Readers(h, id) = Readers(held, id) \cup {q} /\ q \notin Readers(held, id)
    BY <1>2, <2>2 DEF Readers
  <2> QED
    BY <1>1, <2>1, <2>3, FS_AddElement
<1>3. ASSUME held[q] = id
      PROVE  Cardinality(Readers(Emptied(held, q), id)) = Cardinality(Readers(held, id)) - 1
  <2>1. Readers(Emptied(held, q), id) = Readers(held, id) \ {q} /\ q \in Readers(held, id)
    BY <1>3 DEF Readers, Emptied
  <2>2. PICK R : R = Readers(held, id)
    OBVIOUS
  <2>3. IsFiniteSet(R) /\ q \in R
    BY <1>1, <2>1, <2>2
  <2>4. Cardinality(R \ {q}) = Cardinality(R) - 1
    BY <2>3, FS_RemoveElement
  <2> QED
    BY <2>1, <2>2, <2>4
<1>4. ASSUME NEW i \in Nat \ {0, id}
      PROVE  /\ held[q] = id => Readers(Emptied(held, q), i) = Readers(held, i)
             /\ held[q] = 0 => Readers([held EXCEPT ![q] = id], i) = Readers(held, i)
  BY DEF Readers, Emptied
<1> QED
  BY <1>1, <1>2, <1>3, <1>4

\* A checkpoint of the cache.
LEMMA SnapshotIs ==
    ASSUME NEW c, NEW held, CacheOK(c, held), NEW id \in DOMAIN c.table
    PROVE  /\ id \in Nat \ {0} /\ c.table[id] \in Snapshots
           /\ c.table[id].readers \in Nat /\ c.table[id].epoch \in Nat
           /\ c.table[id].tokens \in Seq(Content) /\ Len(c.table[id].tokens) \in Nat
           /\ c.table[id].segments \in SUBSET Names /\ IsFiniteSet(c.table[id].segments)
<1>1. c.table[id] \in Snapshots /\ id \in Nat \ {0}
  BY DEF CacheOK
<1> QED
  BY <1>1 DEF Snapshots, FiniteSubsetsOf

\* acquire keeps the tables in order.
LEMMA AcquireIs ==
    ASSUME NEW c, NEW held, CacheOK(c, held), NEW q \in Requests, held[q] = 0,
           NEW id, id = 0 \/ Listed(c, id)
    PROVE  /\ CacheOK(Acquired(c, id), [held EXCEPT ![q] = id])
           /\ Less(Acquired(c, id), c) /\ DOMAIN Acquired(c, id).table = DOMAIN c.table
           /\ id # 0 => id \in DOMAIN c.table
<1>1. CASE id = 0
  <2>1. [held EXCEPT ![q] = id] = held /\ Acquired(c, id) = c
    BY <1>1 DEF CacheOK, Acquired
  <2> QED
    BY <1>1, <2>1, LessIsOrdered
<1>2. CASE id # 0
  <2> DEFINE h == [held EXCEPT ![q] = id]
             D == DOMAIN c.table
             t == [c.table EXCEPT ![id].readers = @ + 1]
             o == Only(c.entries, D \ {id})
             e == Append(o, id)
  <2>1. Acquired(c, id) = [entries |-> e, table |-> t]
    BY <1>2 DEF Acquired
  <2>2. held \in [Requests -> Nat] /\ c.entries \in Seq(D) /\ id \in D /\ id \in Nat \ {0}
    BY <1>2 DEF CacheOK, Listed, Has
  <2>3. /\ o \in Seq(D) /\ Once(o)
        /\ \A x : Has(o, x) <=> x \in D \ {id} /\ Has(c.entries, x)
    <3>1. Once(c.entries)
      BY DEF CacheOK
    <3>2. o \in Seq(D \cap (D \ {id}))
      BY <2>2, <3>1, OnlyKeeps
    <3>3. o \in Seq(D)
      BY <3>2, SeqMonotonic
    <3>4. Once(o) /\ \A x : Has(o, x) <=> x \in D \ {id} /\ Has(c.entries, x)
      <4>1. c.entries \in Seq(D)
        BY <2>2
      <4> HIDE DEF D
      <4>2. Once(o)
        BY <3>1, <4>1, OnlyKeeps
      <4>3. \A x : Has(o, x) <=> x \in D \ {id} /\ Has(c.entries, x)
        BY <3>1, <4>1, OnlyKeeps
      <4> QED
        BY <4>2, <4>3
    <3> QED
      BY <3>3, <3>4
  <2> HIDE DEF o
  <2>4. /\ e \in Seq(D) /\ DOMAIN e = 1..(Len(o) + 1) /\ Len(o) \in Nat /\ DOMAIN o = 1..Len(o)
        /\ e[Len(o) + 1] = id /\ \A i \in DOMAIN o : e[i] = o[i]
    BY <2>2, <2>3, AppendProperties, LenProperties
  <2> HIDE DEF e
  <2>5. Once(e)
    <3>1. ASSUME NEW i \in DOMAIN e, NEW j \in DOMAIN e, e[i] = e[j] PROVE i = j
      <4>1. /\ i \in DOMAIN o \/ i = Len(o) + 1
            /\ j \in DOMAIN o \/ j = Len(o) + 1
        BY <2>4
      <4>2. \A k \in DOMAIN o : o[k] # id
        BY <2>3 DEF Has
      <4> QED
        BY <2>3, <2>4, <3>1, <4>1, <4>2 DEF Once
    <3> QED
      BY <3>1 DEF Once
  <2>6. \A x : Has(e, x) <=> Listed(c, x)
    <3>1. Listed(c, id)
      BY <1>2
    <3>2. ASSUME NEW x, NEW n \in DOMAIN e, e[n] = x PROVE Listed(c, x)
      <4>1. n \in DOMAIN o \/ n = Len(o) + 1
        BY <2>4
      <4> QED
        BY <2>3, <2>4, <3>1, <3>2, <4>1 DEF Has, Listed
    <3>3. ASSUME NEW x, Listed(c, x) PROVE Has(e, x)
      <4>1. CASE x = id
        BY <2>4, <4>1 DEF Has
      <4>2. CASE x # id
        <5>1. x \in D
          BY <2>2, <3>3 DEF Listed, Has
        <5>2. PICK n \in DOMAIN o : o[n] = x
          BY <2>3, <3>3, <4>2, <5>1 DEF Has, Listed
        <5>3. n \in DOMAIN e /\ e[n] = x
          BY <2>4, <5>2
        <5> QED
          BY <5>3 DEF Has
      <4> QED
        BY <4>1, <4>2
    <3> QED
      BY <3>2, <3>3 DEF Has
  <2>7. ASSUME NEW i \in D
        PROVE  /\ t[i] \in Snapshots /\ t[i].readers = Cardinality(Readers(h, i))
               /\ t[i].tokens = c.table[i].tokens /\ t[i].segments = c.table[i].segments
               /\ t[i].epoch = c.table[i].epoch
    <3>1. /\ c.table[i] \in Snapshots /\ i \in Nat \ {0} /\ c.table[i].readers \in Nat
          /\ c.table[i].readers = Cardinality(Readers(held, i))
      BY SnapshotIs DEF CacheOK
    <3>2. CASE i = id
      <4>1. t[i] = [c.table[i] EXCEPT !.readers = @ + 1]
        BY <2>2, <3>2
      <4>2. t[i] \in Snapshots
        BY <3>1, <4>1 DEF Snapshots
      <4>3. t[i].readers = c.table[i].readers + 1
        BY <3>1, <4>1 DEF Snapshots
      <4>4. Cardinality(Readers(h, i)) = Cardinality(Readers(held, i)) + 1
        BY <1>2, <2>2, <3>2, ReadersChange
      <4>5. /\ t[i].tokens = c.table[i].tokens /\ t[i].segments = c.table[i].segments
            /\ t[i].epoch = c.table[i].epoch
        BY <3>1, <4>1 DEF Snapshots
      <4> QED
        BY <3>1, <4>2, <4>3, <4>4, <4>5
    <3>3. CASE i # id
      <4>1. t[i] = c.table[i]
        BY <2>2, <3>3
      <4>2. Readers(h, i) = Readers(held, i)
        <5> HIDE DEF t, D
        <5>1. \A p \in Requests : h[p] = i <=> held[p] = i
          <6>1. h[q] = id /\ \A p \in Requests \ {q} : h[p] = held[p]
            BY <2>2
          <6>2. i # 0 /\ i # id
            BY <3>1, <3>3
          <6> QED
            BY <6>1, <6>2
        <5> QED
          BY <5>1 DEF Readers
      <4> QED
        BY <3>1, <4>1, <4>2
    <3> QED
      BY <3>2, <3>3
  <2>8. t = [i \in D |-> t[i]] /\ DOMAIN t = D
    OBVIOUS
  <2>9. t[id].readers > 0
    <3>1. t[id].readers = c.table[id].readers + 1 /\ c.table[id].readers \in Nat
      BY <2>2, SnapshotIs DEF Snapshots
    <3> QED
      BY <3>1
  <2> DEFINE d == [entries |-> e, table |-> t]
  <2>10. d.entries = e /\ d.table = t /\ d = [entries |-> d.entries, table |-> d.table]
    OBVIOUS
  <2>11. \A i : Listed(d, i) <=> Listed(c, i)
    BY <2>6, <2>10 DEF Listed
  <2> HIDE DEF t, d
  <2>12. h \in [Requests -> Nat] /\ \A r \in Requests : h[r] # 0 => h[r] \in D
    BY <2>2 DEF CacheOK
  <2>13. t \in [D -> Snapshots]
    BY <2>7, <2>8
  <2>14. \A i \in D : Listed(d, i) \/ t[i].readers > 0
    <3>1. ASSUME NEW i \in D PROVE Listed(d, i) \/ t[i].readers > 0
      <4>1. i = id \/ t[i] = c.table[i]
        BY <2>2 DEF t
      <4> QED
        BY <2>9, <2>11, <4>1 DEF CacheOK
    <3> QED
      BY <3>1
  <2>15. IsFiniteSet(D) /\ D \subseteq Nat \ {0}
    BY DEF CacheOK
  <2>16. CacheOK(d, h)
    BY <2>4, <2>5, <2>7, <2>8, <2>10, <2>12, <2>13, <2>14, <2>15 DEF CacheOK
  <2>17. Less(d, c) /\ DOMAIN d.table = D
    BY <2>7, <2>8, <2>10, <2>11 DEF Less
  <2> QED
    BY <2>1, <2>2, <2>16, <2>17 DEF d
<1> QED
  BY <1>1, <1>2

\* It moves but the one that is used.
LEMMA AcquireAlong ==
    ASSUME NEW c, NEW held, CacheOK(c, held), NEW id, id = 0 \/ Listed(c, id)
    PROVE  Along(Acquired(c, id), c, {id})
<1>1. CASE id = 0
  BY <1>1, AlongIs DEF Acquired
<1>2. CASE id # 0
  <2> DEFINE D == DOMAIN c.table
             K == D \ {id}
             o == Only(c.entries, K)
             e == Append(o, id)
  <2>1. Acquired(c, id).entries = e
    BY <1>2 DEF Acquired
  <2>2. c.entries \in Seq(D) /\ Once(c.entries) /\ id \in D
    BY <1>2 DEF CacheOK, Listed, Has
  <2> HIDE DEF D
  <2>3. o \in Seq(D \cap K) /\ \A x : Has(o, x) <=> x \in K /\ Has(c.entries, x)
    BY <2>2, OnlyKeeps
  <2>4. \A x \in K, y \in K : Before(c.entries, x, y) => Before(o, x, y)
    BY <2>2, OnlyOrders
  <2> HIDE DEF K
  <2>5. D \cap K \subseteq D
    OBVIOUS
  <2>6. o \in Seq(D)
    BY <2>3, <2>5, SeqMonotonic
  <2> HIDE DEF o
  <2>7. /\ DOMAIN e = 1..(Len(o) + 1) /\ Len(o) \in Nat /\ DOMAIN o = 1..Len(o)
        /\ e[Len(o) + 1] = id /\ \A i \in DOMAIN o : e[i] = o[i]
    BY <2>2, <2>6, AppendProperties, LenProperties
  <2> HIDE DEF e
  <2>8. /\ DOMAIN o \subseteq DOMAIN e /\ Len(o) + 1 \in DOMAIN e
        /\ \A i \in DOMAIN o : i \in Nat /\ i < Len(o) + 1
    BY <2>7
  <2>9. ASSUME NEW x, Listed(c, x) PROVE Has(e, x)
    <3>1. x \in D
      BY <2>2, <2>9 DEF Listed, Has
    <3>2. x = id \/ Has(o, x)
      BY <2>3, <2>9, <3>1 DEF Listed, K
    <3> QED
      BY <2>7, <2>8, <3>2 DEF Has
  <2>10. ASSUME NEW x, NEW y, x # id, Before(c.entries, x, y) PROVE Before(e, x, y)
    <3>1. x \in D /\ y \in D /\ Has(c.entries, x)
      BY <2>2, <2>10 DEF Before, Has
    <3>2. CASE y = id
      <4>1. PICK i \in DOMAIN o : o[i] = x
        BY <2>3, <2>10, <3>1 DEF K, Has
      <4> QED
        BY <2>7, <2>8, <3>2, <4>1 DEF Before
    <3>3. CASE y # id
      <4>1. Before(o, x, y)
        BY <2>4, <2>10, <3>1, <3>3 DEF K
      <4> QED
        BY <2>7, <2>8, <4>1 DEF Before
    <3> QED
      BY <3>2, <3>3
  <2> QED
    BY <2>1, <2>9, <2>10 DEF Along, Listed
<1> QED
  BY <1>1, <1>2

\* A part of the tables, without what nobody holds: what is to be shown of it.
LEMMA PartIs ==
    ASSUME NEW c, NEW held, CacheOK(c, held), NEW h \in [Requests -> Nat], NEW e, NEW t,
           DOMAIN t \subseteq DOMAIN c.table, t = [id \in DOMAIN t |-> t[id]],
           \A id \in DOMAIN t :
              /\ t[id] = [c.table[id] EXCEPT !.readers = Cardinality(Readers(h, id))]
              /\ Has(e, id) \/ Cardinality(Readers(h, id)) # 0,
           \A q \in Requests : h[q] # 0 => h[q] \in DOMAIN t,
           e \in Seq(DOMAIN t), Once(e), \A id : Has(e, id) => Listed(c, id)
    PROVE  CacheOK([entries |-> e, table |-> t], h) /\ Less([entries |-> e, table |-> t], c)
<1> DEFINE d == [entries |-> e, table |-> t]
<1> DEFINE E == DOMAIN t
<1>0. d.table = t /\ d.entries = e /\ d = [entries |-> d.entries, table |-> d.table]
  OBVIOUS
<1> HIDE DEF d
<1>1. IsFiniteSet(DOMAIN c.table) /\ DOMAIN c.table \subseteq Nat \ {0}
  BY DEF CacheOK
<1>2. IsFiniteSet(E) /\ E \subseteq Nat \ {0}
  BY <1>1, FS_Subset
<1>3. ASSUME NEW id \in E
      PROVE  /\ t[id] \in Snapshots /\ t[id].readers = Cardinality(Readers(h, id))
             /\ Cardinality(Readers(h, id)) \in Nat
             /\ t[id].tokens = c.table[id].tokens
             /\ t[id].segments = c.table[id].segments
             /\ t[id].epoch = c.table[id].epoch
  <2>1. c.table[id] \in Snapshots
    BY SnapshotIs
  <2>2. Cardinality(Readers(h, id)) \in Nat
    <3>1. Readers(h, id) \in SUBSET Requests
      BY DEF Readers
    <3>2. IsFiniteSet(Readers(h, id))
      BY <3>1, PromptAssumption, FS_Subset
    <3> QED
      BY <3>2, FS_CardinalityType
  <2>3. t[id] = [c.table[id] EXCEPT !.readers = Cardinality(Readers(h, id))]
    OBVIOUS
  <2> QED
    BY <2>1, <2>2, <2>3 DEF Snapshots
<1>4. \A id \in E : Has(e, id) \/ t[id].readers > 0
  BY <1>3
<1>5. t \in [E -> Snapshots]
  BY <1>3
<1>6. CacheOK(d, h)
  BY <1>0, <1>2, <1>3, <1>4, <1>5 DEF CacheOK, Listed
<1>7. Less(d, c)
  BY <1>0, <1>3 DEF Less, Listed
<1> QED
  BY <1>6, <1>7 DEF d

\* Closing a reader keeps the tables in order.
LEMMA CloseIs ==
    ASSUME NEW c, NEW held, CacheOK(c, held), NEW q \in Requests
    PROVE  /\ CacheOK(Closed(c, held[q]), Emptied(held, q)) /\ Less(Closed(c, held[q]), c)
           /\ Closed(c, held[q]).entries = c.entries
<1>1. held \in [Requests -> Nat]
  BY DEF CacheOK
<1>2. CASE held[q] = 0
  <2>1. Emptied(held, q) = held /\ Closed(c, held[q]) = c
    BY <1>1, <1>2 DEF Emptied, Closed
  <2> QED
    BY <2>1, LessIsOrdered
<1>3. CASE held[q] # 0
  <2>1. PICK id : id = held[q]
    OBVIOUS
  <2> DEFINE h == Emptied(held, q)
             left == [c.table EXCEPT ![id].readers = @ - 1]
             gone == {i \in {id} : left[i].readers = 0 /\ ~Contains(c.entries, i)}
             t == Restrict(left, DOMAIN left \ gone)
             d == [entries |-> c.entries, table |-> t]
  <2>2. Closed(c, id) = d
    BY <1>3, <2>1 DEF Closed, CacheOK
  <2>3. id \in DOMAIN c.table /\ id \in Nat \ {0} /\ h \in [Requests -> Nat]
    BY <1>1, <1>3, <2>1 DEF CacheOK, Emptied
  <2>4. d.entries = c.entries
    OBVIOUS
  <2>5. /\ DOMAIN t = DOMAIN c.table \ gone /\ t = [i \in DOMAIN t |-> t[i]]
        /\ \A i \in DOMAIN t : t[i] = left[i]
    BY DEF Restrict
  <2>6. \A i : Has(c.entries, i) <=> Listed(c, i)
    BY DEF Listed
  <2>7. ASSUME NEW i \in DOMAIN c.table
        PROVE  /\ left[i] = [c.table[i] EXCEPT !.readers = Cardinality(Readers(h, i))]
               /\ left[i].readers = Cardinality(Readers(h, i))
    <3>1. c.table[i] \in Snapshots /\ c.table[i].readers = Cardinality(Readers(held, i)) /\ i \in Nat \ {0}
      BY SnapshotIs DEF CacheOK
    <3>2. CASE i = id
      <4>1. Cardinality(Readers(h, i)) = Cardinality(Readers(held, i)) - 1
        BY <1>1, <2>1, <2>3, <3>2, ReadersChange
      <4>2. left[i] = [c.table[i] EXCEPT !.readers = @ - 1]
        BY <2>3, <3>2
      <4> HIDE DEF left, h
      <4>3. c.table[i].readers - 1 = Cardinality(Readers(h, i))
        BY <3>1, <4>1
      <4>4. left[i] = [c.table[i] EXCEPT !.readers = Cardinality(Readers(h, i))]
        BY <4>2, <4>3
      <4>5. left[i].readers = Cardinality(Readers(h, i))
        BY <3>1, <4>4 DEF Snapshots
      <4> QED
        BY <4>4, <4>5
    <3>3. CASE i # id
      <4>1. i \in Nat \ {0, id}
        BY <3>1, <3>3
      <4>2. Readers(h, i) = Readers(held, i)
        <5> HIDE DEF left
        <5> QED
          BY <1>1, <2>1, <2>3, <4>1, ReadersChange
      <4>3. left[i] = c.table[i]
        BY <2>3, <3>3
      <4> HIDE DEF left, h
      <4> QED
        BY <3>1, <4>2, <4>3 DEF Snapshots
    <3> QED
      BY <3>2, <3>3
  <2>8. \A i : Contains(c.entries, i) <=> Listed(c, i)
    <3>1. DOMAIN c.entries = 1..Len(c.entries)
      BY DEF CacheOK
    <3> QED
      BY <3>1 DEF Contains, Listed, Has
  <2>9. gone \subseteq {id} /\ (id \in gone <=> left[id].readers = 0 /\ ~Listed(c, id))
    BY <2>8
  <2> HIDE DEF t, left, gone
  <2>10. ASSUME NEW i \in DOMAIN t PROVE Has(c.entries, i) \/ Cardinality(Readers(h, i)) # 0
    <3>1. i \in DOMAIN c.table /\ i \notin gone
      BY <2>5
    <3>2. CASE i = id
      BY <2>6, <2>7, <2>9, <3>1, <3>2
    <3>3. CASE i # id
      <4>1. Readers(h, i) = Readers(held, i)
        <5>1. i \in Nat \ {0, id}
          BY <3>1, <3>3 DEF CacheOK
        <5> QED
          BY <1>1, <2>1, <2>3, <5>1, ReadersChange
      <4>2. Listed(c, i) \/ Cardinality(Readers(held, i)) > 0
        BY <3>1 DEF CacheOK
      <4> QED
        BY <2>6, <4>1, <4>2
    <3> QED
      BY <3>2, <3>3
  <2>11. ASSUME NEW r \in Requests, h[r] # 0 PROVE h[r] \in DOMAIN t
    <3>1. h[r] = held[r] /\ r # q
      BY <1>1, <2>11 DEF Emptied
    <3>2. h[r] \in DOMAIN c.table
      BY <2>11, <3>1 DEF CacheOK
    <3>3. h[r] \notin gone
      <4> SUFFICES ASSUME h[r] \in gone PROVE FALSE
        OBVIOUS
      <4>1. h[r] = id /\ left[id].readers = 0
        BY <2>9
      <4>2. Cardinality(Readers(h, id)) = 0 /\ r \in Readers(h, id)
        BY <2>3, <2>7, <4>1 DEF Readers
      <4>3. IsFiniteSet(Readers(h, id))
        BY <2>3, ReadersChange
      <4> QED
        BY <4>2, <4>3, FS_EmptySet
    <3> QED
      BY <2>5, <3>2, <3>3
  <2>12. c.entries \in Seq(DOMAIN t) /\ Once(c.entries)
    <3>1. c.entries \in Seq(DOMAIN c.table) /\ Once(c.entries)
      BY DEF CacheOK
    <3>2. ASSUME NEW n \in 1..Len(c.entries) PROVE c.entries[n] \in DOMAIN t
      <4>1. Listed(c, c.entries[n]) /\ c.entries[n] \in DOMAIN c.table
        BY <3>1 DEF Listed, Has
      <4>2. c.entries[n] \notin gone
        BY <2>9, <4>1
      <4> QED
        BY <2>5, <4>1, <4>2
    <3>3. c.entries \in [1..Len(c.entries) -> DOMAIN t] /\ Len(c.entries) \in Nat
      BY <3>1, <3>2
    <3> QED
      BY <3>1, <3>3
  <2>13. DOMAIN t \subseteq DOMAIN c.table
    BY <2>5
  <2>14. \A i \in DOMAIN t : t[i] = [c.table[i] EXCEPT !.readers = Cardinality(Readers(h, i))]
    BY <2>5, <2>7, <2>13
  <2> HIDE DEF h
  <2>15. CacheOK(d, h) /\ Less(d, c)
    BY <2>3, <2>5, <2>6, <2>10, <2>11, <2>12, <2>13, <2>14, PartIs
  <2> QED
    BY <2>1, <2>2, <2>4, <2>15 DEF h
<1> QED
  BY <1>2, <1>3

\* Leaving out unpinned checkpoints keeps the tables in order.
LEMMA WithoutIs ==
    ASSUME NEW c, NEW held, CacheOK(c, held),
           NEW ids, \A id \in ids : id \in DOMAIN c.table => c.table[id].readers = 0
    PROVE  CacheOK(Without(c, ids), held) /\ Less(Without(c, ids), c)
<1> DEFINE D == DOMAIN c.table
           o == Only(c.entries, D \ ids)
           t == Restrict(c.table, D \ ids)
           d == [entries |-> o, table |-> t]
<1>1. Without(c, ids) = d
  BY DEF Without
<1>2. c.entries \in Seq(D) /\ Once(c.entries) /\ held \in [Requests -> Nat]
  BY DEF CacheOK
<1>3. DOMAIN t = D \ ids /\ t = [i \in DOMAIN t |-> t[i]] /\ \A i \in DOMAIN t : t[i] = c.table[i]
  BY DEF Restrict
<1>4. o \in Seq(D \cap (D \ ids)) /\ Once(o) /\ \A x : Has(o, x) <=> x \in D \ ids /\ Has(c.entries, x)
  <2> HIDE DEF D
  <2>1. o \in Seq(D \cap (D \ ids)) /\ Once(o)
    BY <1>2, OnlyKeeps
  <2>2. \A x : Has(o, x) <=> x \in D \ ids /\ Has(c.entries, x)
    BY <1>2, OnlyKeeps
  <2> QED
    BY <2>1, <2>2
<1>5. o \in Seq(DOMAIN t)
  <2>1. D \cap (D \ ids) = DOMAIN t
    BY <1>3
  <2> QED
    BY <1>4, <2>1
<1> HIDE DEF o, t
<1>7. \A i : Has(o, i) <=> i \in DOMAIN t /\ Listed(c, i)
  BY <1>3, <1>4 DEF Listed
<1>8. ASSUME NEW i \in DOMAIN t
      PROVE  /\ t[i] = [c.table[i] EXCEPT !.readers = Cardinality(Readers(held, i))]
             /\ Has(o, i) \/ Cardinality(Readers(held, i)) # 0
  <2>1. i \in D
    BY <1>3
  <2>2. /\ c.table[i].readers = Cardinality(Readers(held, i)) /\ c.table[i] \in Snapshots
        /\ Listed(c, i) \/ c.table[i].readers > 0
    BY <2>1, SnapshotIs DEF CacheOK
  <2>3. c.table[i] = [c.table[i] EXCEPT !.readers = Cardinality(Readers(held, i))]
    BY <2>2 DEF Snapshots
  <2> QED
    BY <1>3, <1>7, <2>2, <2>3
<1>9. ASSUME NEW r \in Requests, held[r] # 0 PROVE held[r] \in DOMAIN t
  <2>1. held[r] \in D /\ c.table[held[r]].readers = Cardinality(Readers(held, held[r]))
    BY <1>9 DEF CacheOK
  <2>2. r \in Readers(held, held[r]) /\ IsFiniteSet(Readers(held, held[r]))
    <3>1. held[r] \in Nat \ {0}
      BY <1>2, <1>9
    <3>2. PICK id \in Nat \ {0} : id = held[r]
      BY <3>1
    <3> QED
      BY <1>2, <3>2, ReadersChange DEF Readers
  <2>3. c.table[held[r]].readers # 0
    BY <2>1, <2>2, FS_EmptySet
  <2> QED
    BY <1>3, <2>1, <2>3
<1>10. CacheOK(d, held) /\ Less(d, c)
  <2>1. DOMAIN t \subseteq D
    BY <1>3
  <2> QED
    BY <1>2, <1>3, <1>4, <1>5, <1>7, <1>8, <1>9, <2>1, PartIs
<1> QED
  BY <1>1, <1>10

\* So does an eviction, of however many entries reserve takes.
LEMMA EvictIs ==
    ASSUME NEW c, NEW held, CacheOK(c, held), NEW n \in 0..Len(Victims(c))
    PROVE  CacheOK(Evicted(c, n), held) /\ Less(Evicted(c, n), c)
<1> DEFINE K == {id \in DOMAIN c.table : c.table[id].readers = 0}
           v == Victims(c)
           ids == ToSet(SubSeq(v, 1, n))
<1>1. v \in Seq(K) /\ Len(v) \in Nat
  <2>1. c.entries \in Seq(DOMAIN c.table) /\ Once(c.entries)
    BY DEF CacheOK
  <2>2. v \in Seq(DOMAIN c.table \cap K)
    BY <2>1, OnlyKeeps DEF Victims
  <2>3. v \in Seq(K)
    BY <2>2, SeqMonotonic
  <2> QED
    BY <2>3
<1>2. \A id \in ids : id \in K
  <2> HIDE DEF v, K
  <2>1. n \in Nat /\ n <= Len(v)
    BY <1>1 DEF v
  <2>2. \A i \in 1..n : v[i] \in K
    BY <1>1, <2>1
  <2>3. SubSeq(v, 1, n) \in Seq(K)
    BY <2>1, <2>2, SubSeqProperties
  <2>4. \A i \in DOMAIN SubSeq(v, 1, n) : SubSeq(v, 1, n)[i] \in K
    BY <2>3
  <2> QED
    BY <2>4 DEF ToSet
<1>3. \A id \in ids : id \in DOMAIN c.table => c.table[id].readers = 0
  BY <1>2
<1> HIDE DEF ids
<1>4. CacheOK(Without(c, ids), held) /\ Less(Without(c, ids), c)
  BY <1>3, WithoutIs
<1> QED
  BY <1>4 DEF Evicted, ids

\* How many are evicted is a number there are.
LEMMA EvictionsAre ==
    ASSUME NEW c, NEW held, CacheOK(c, held), NEW size
    PROVE  Evictions(c, size) \in 0..Len(Victims(c))
<1> DEFINE enough == {n \in 0..Len(Victims(c)) : Fits(Evicted(c, n), size)}
<1>1. Len(Victims(c)) \in Nat
  BY OnlyIs DEF Victims, CacheOK
<1>2. CASE enough = {}
  BY <1>1, <1>2 DEF Evictions
<1>3. CASE enough # {}
  <2>1. enough \subseteq Nat
    OBVIOUS
  <2>2. PICK n \in enough : \A m \in enough : n <= m
    <3> HIDE DEF enough
    <3> QED
      BY <1>3, <2>1, LeastNumber
  <2>3. Min(enough) \in enough
    <3> HIDE DEF enough
    <3> QED
      BY <2>2 DEF Min
  <2>4. Evictions(c, size) = Min(enough)
    BY <1>3 DEF Evictions
  <2> QED
    BY <2>3, <2>4
<1> QED
  BY <1>2, <1>3

Idle(c) == {id \in DOMAIN c.table : c.table[id].readers = 0}

\* Everything unpinned is a victim, once, in the order of the queue.
LEMMA VictimsAre ==
    ASSUME NEW c, NEW held, CacheOK(c, held)
    PROVE  /\ Victims(c) \in Seq(Idle(c)) /\ Len(Victims(c)) \in Nat
           /\ DOMAIN Victims(c) = 1..Len(Victims(c)) /\ Once(Victims(c))
           /\ \A x : Has(Victims(c), x) <=> x \in Idle(c) /\ Listed(c, x)
           /\ \A x \in Idle(c), y \in Idle(c) :
                 Before(c.entries, x, y) => Before(Victims(c), x, y)
<1> DEFINE K == Idle(c)
           D == DOMAIN c.table
           v == Only(c.entries, K)
<1>1. Victims(c) = v
  BY DEF Victims, Idle
<1>2. c.entries \in Seq(D) /\ Once(c.entries)
  BY DEF CacheOK
<1> HIDE DEF K, D
<1>3. v \in Seq(D \cap K) /\ Once(v)
  BY <1>2, OnlyKeeps
<1>4. \A x : Has(v, x) <=> x \in K /\ Has(c.entries, x)
  BY <1>2, OnlyKeeps
<1>5. \A x \in K, y \in K : Before(c.entries, x, y) => Before(v, x, y)
  BY <1>2, OnlyOrders
<1>6. D \cap K \subseteq K
  OBVIOUS
<1>7. v \in Seq(K)
  BY <1>3, <1>6, SeqMonotonic
<1> HIDE DEF v
<1>8. Len(v) \in Nat /\ DOMAIN v = 1..Len(v)
  BY <1>7
<1> QED
  BY <1>1, <1>3, <1>4, <1>5, <1>7, <1>8 DEF Listed, K

Taken(c, n) == {Victims(c)[i] : i \in 1..n}

\* An eviction takes the first victims, and nothing else.
LEMMA EvictedIs ==
    ASSUME NEW c, NEW held, CacheOK(c, held), NEW n \in 0..Len(Victims(c))
    PROVE  /\ DOMAIN Evicted(c, n).table = DOMAIN c.table \ Taken(c, n)
           /\ \A x : Listed(Evicted(c, n), x) <=> Listed(c, x) /\ x \notin Taken(c, n)
<1> DEFINE v == Victims(c)
           D == DOMAIN c.table
           ids == ToSet(SubSeq(v, 1, n))
<1>1. v \in Seq(Idle(c)) /\ Len(v) \in Nat
  BY VictimsAre
<1>2. c.entries \in Seq(D) /\ Once(c.entries)
  BY DEF CacheOK
<1>3. Evicted(c, n) = [entries |-> Only(c.entries, D \ ids), table |-> Restrict(c.table, D \ ids)]
  BY DEF Evicted, Without
<1> HIDE DEF v
<1>4. ids = Taken(c, n)
  <2>1. n \in Nat /\ n <= Len(v) /\ \A i \in 1..n : v[i] \in Idle(c)
    BY <1>1 DEF v
  <2>2. DOMAIN SubSeq(v, 1, n) = 1..n /\ \A i \in 1..n : SubSeq(v, 1, n)[i] = v[i]
    BY <1>1, <2>1, SubSeqProperties
  <2> QED
    BY <2>2 DEF ToSet, Taken, v
<1> HIDE DEF ids
<1>5. DOMAIN Evicted(c, n).table = D \ ids
  BY <1>3 DEF Restrict
<1> HIDE DEF D
<1>6. \A x : Has(Only(c.entries, D \ ids), x) <=> x \in D \ ids /\ Has(c.entries, x)
  BY <1>2, OnlyKeeps
<1>7. \A x : Has(c.entries, x) => x \in D
  BY <1>2 DEF Has
<1>8. \A x : Listed(Evicted(c, n), x) <=> Listed(c, x) /\ x \notin ids
  <2>1. Evicted(c, n).entries = Only(c.entries, D \ ids)
    BY <1>3
  <2> QED
    BY <1>6, <1>7, <2>1 DEF Listed
<1> QED
  BY <1>4, <1>5, <1>8 DEF D

\* reserve stops as soon as there is room: with its last victim back there
\* would have been none.
LEMMA EvictionsMinimal ==
    ASSUME NEW c, NEW held, CacheOK(c, held), NEW size, NEW n, n = Evictions(c, size),
           Fits(Evicted(c, n), size), n # 0
    PROVE  n - 1 \in 0..Len(Victims(c)) /\ ~Fits(Evicted(c, n - 1), size)
<1> DEFINE enough == {m \in 0..Len(Victims(c)) : Fits(Evicted(c, m), size)}
<1>1. Len(Victims(c)) \in Nat /\ n \in 0..Len(Victims(c))
  BY VictimsAre, EvictionsAre
<1>2. n \in enough
  BY <1>1
<1>3. enough \subseteq Nat
  OBVIOUS
<1>4. n = Min(enough)
  BY <1>2 DEF Evictions
<1>5. \A m \in enough : n <= m
  <2> HIDE DEF enough
  <2>1. PICK m \in enough : \A k \in enough : m <= k
    BY <1>2, <1>3, LeastNumber
  <2> QED
    BY <1>4, <2>1 DEF Min
<1>6. n - 1 \in 0..Len(Victims(c)) /\ ~(n <= n - 1)
  BY <1>1
<1> QED
  BY <1>5, <1>6

\* A beginning of a sequence has the elements of the sequence and the length asked for.
LEMMA BeginningIs ==
    ASSUME NEW S, NEW s \in Seq(S), NEW n \in Nat, n <= Len(s)
    PROVE  SubSeq(s, 1, n) \in Seq(S) /\ Len(SubSeq(s, 1, n)) = n
<1>1. \A i \in 1..n : s[i] \in S
  OBVIOUS
<1>2. SubSeq(s, 1, n) \in Seq(S) /\ Len(SubSeq(s, 1, n)) = (IF 1 <= n THEN n - 1 + 1 ELSE 0)
  BY <1>1, SubSeqProperties
<1> QED
  BY <1>2

\* A lookup finds an entry of the namespace that the tokens start with.
LEMMA BestIs ==
    ASSUME NEW c, NEW held, CacheOK(c, held), NEW namespace, NEW tokens, NEW cap \in Nat,
           NEW id, id = Best(c, namespace, tokens, cap), id # 0
    PROVE  /\ Listed(c, id) /\ id \in DOMAIN c.table /\ c.table[id].epoch = namespace
           /\ Length(c, id) <= cap /\ IsPrefix(c.table[id].tokens, tokens)
<1> DEFINE length(i) == Length(c, c.entries[i])
           found == {i \in DOMAIN c.entries : /\ c.table[c.entries[i]].epoch = namespace
                                              /\ length(i) <= cap
                                              /\ IsPrefix(c.table[c.entries[i]].tokens, tokens)}
           beats(i, j) == length(i) > length(j) \/ (length(i) = length(j) /\ i <= j)
           best == CHOOSE i \in found : \A j \in found : beats(i, j)
<1>1. Best(c, namespace, tokens, cap) = IF found = {} THEN 0 ELSE c.entries[best]
  BY Zenon DEF Best
<1>2. /\ found \subseteq DOMAIN c.entries
      /\ \A i \in found : /\ c.table[c.entries[i]].epoch = namespace /\ length(i) <= cap
                           /\ IsPrefix(c.table[c.entries[i]].tokens, tokens)
  <2> HIDE DEF length
  <2> QED
    BY Zenon
<1>3. c.entries \in Seq(DOMAIN c.table)
  BY DEF CacheOK
<1> HIDE DEF found, best
<1>4. found # {} /\ id = c.entries[best]
  BY <1>1
<1>5. \A i \in found : i \in Nat /\ length(i) \in Nat /\ length(i) <= cap /\ c.entries[i] \in DOMAIN c.table
  <2> HIDE DEF beats
  <2>1. ASSUME NEW i \in found PROVE i \in Nat /\ length(i) \in Nat /\ c.entries[i] \in DOMAIN c.table
    <3>1. i \in DOMAIN c.entries
      BY <1>2
    <3>2. i \in Nat /\ c.entries[i] \in DOMAIN c.table
      BY <1>3, <3>1
    <3>3. Len(c.table[c.entries[i]].tokens) \in Nat
      BY <3>2, SnapshotIs
    <3> QED
      BY <3>2, <3>3 DEF Length
  <2> HIDE DEF length
  <2> QED
    BY <1>2, <2>1
<1> HIDE DEF length
<1>6. \E i \in found : \A j \in found : beats(i, j)
  <2> DEFINE N == {length(i) : i \in found}
  <2>1. N \subseteq Nat /\ N # {} /\ \A n \in N : n <= cap
    BY <1>4, <1>5
  <2>2. PICK n \in N : \A m \in N : m <= n
    <3> HIDE DEF N
    <3> QED
      BY <2>1, GreatestNumber
  <2> DEFINE M == {i \in found : length(i) = n}
  <2>3. M \subseteq Nat /\ M # {}
    BY <1>5, <2>2
  <2>4. PICK i \in M : \A j \in M : i <= j
    <3> HIDE DEF M
    <3> QED
      BY <2>3, LeastNumber
  <2>5. i \in found /\ length(i) = n
    OBVIOUS
  <2>6. ASSUME NEW j \in found PROVE beats(i, j)
    <3>1. length(j) <= n
      BY <2>2
    <3>2. length(j) = n => i <= j
      BY <2>4
    <3>3. length(j) \in Nat /\ length(i) \in Nat
      BY <1>5, <2>5
    <3> HIDE DEF M, N
    <3> QED
      BY <2>5, <3>1, <3>2, <3>3
  <2> HIDE DEF beats, M
  <2> QED
    BY <2>5, <2>6
<1>7. best \in found
  <2> HIDE DEF beats
  <2> QED
    BY <1>6, Zenon DEF best
<1> DEFINE x == c.entries[best]
<1>8. /\ c.table[x].epoch = namespace /\ length(best) <= cap
      /\ IsPrefix(c.table[x].tokens, tokens) /\ best \in DOMAIN c.entries
  BY <1>2, <1>7
<1>9. x \in DOMAIN c.table
  BY <1>5, <1>7
<1>10. Listed(c, x) /\ length(best) = Length(c, x)
  BY <1>8 DEF Listed, Has, length
<1> HIDE DEF x
<1>11. id = x
  BY <1>4 DEF x
<1> QED
  BY <1>8, <1>9, <1>10, <1>11

Found(c, id, namespace, tokens, cap) ==
    /\ id \in DOMAIN c.table /\ c.table[id].epoch = namespace
    /\ Length(c, id) <= cap /\ IsPrefix(c.table[id].tokens, tokens)

\* A lookup as a whole: what is found is then held.
LEMMA LookupIs ==
    ASSUME NEW c, NEW held, CacheOK(c, held), NEW q \in Requests, held[q] = 0,
           NEW namespace, NEW tokens, NEW cap \in Nat,
           NEW id, id = Best(c, namespace, tokens, cap)
    PROVE  /\ CacheOK(Acquired(c, id), [held EXCEPT ![q] = id]) /\ Less(Acquired(c, id), c)
           /\ Along(Acquired(c, id), c, {id}) /\ id \in Nat
           /\ id # 0 => Found(Acquired(c, id), id, namespace, tokens, cap)
<1>1. id # 0 => /\ Listed(c, id) /\ id \in DOMAIN c.table /\ c.table[id].epoch = namespace
                /\ Length(c, id) <= cap /\ IsPrefix(c.table[id].tokens, tokens)
  BY BestIs
<1>2. /\ CacheOK(Acquired(c, id), [held EXCEPT ![q] = id]) /\ Less(Acquired(c, id), c)
      /\ DOMAIN Acquired(c, id).table = DOMAIN c.table /\ Along(Acquired(c, id), c, {id})
  BY <1>1, AcquireIs, AcquireAlong
<1>3. id \in Nat
  BY <1>1 DEF CacheOK
<1>4. ASSUME id # 0
      PROVE  /\ id \in DOMAIN Acquired(c, id).table
             /\ Acquired(c, id).table[id].epoch = c.table[id].epoch
             /\ Acquired(c, id).table[id].tokens = c.table[id].tokens
             /\ Length(Acquired(c, id), id) = Length(c, id)
  BY <1>1, <1>2, <1>4 DEF Less, Length
<1> QED
  BY <1>1, <1>2, <1>3, <1>4 DEF Found

----------------------------------------------------------------------------
(* What the tables use.                                                    *)

Costs(t) == [id \in DOMAIN t |-> Own(Len(t[id].tokens))]
PagesOf(t) == UNION {t[id].segments : id \in DOMAIN t}

\* The state and the key of a checkpoint take some bytes.
LEMMA OwnIs == \A n \in Nat : Own(n) \in Nat
BY BytesAssumption DEF Own

\* One more checkpoint adds its pages to those in use.
LEMMA PagesOfMore ==
    ASSUME NEW t, NEW u, NEW n, DOMAIN u = DOMAIN t \cup {n},
           \A id \in DOMAIN t : u[id].segments = t[id].segments
    PROVE  PagesOf(u) = PagesOf(t) \cup u[n].segments
<1>1. ASSUME NEW p \in PagesOf(u) PROVE p \in PagesOf(t) \cup u[n].segments
  <2>1. PICK id \in DOMAIN u : p \in u[id].segments
    BY <1>1 DEF PagesOf
  <2>2. CASE id = n
    BY <2>1, <2>2
  <2>3. CASE id \in DOMAIN t
    BY <2>1, <2>3 DEF PagesOf
  <2> QED
    BY <2>1, <2>2, <2>3
<1>2. ASSUME NEW p \in PagesOf(t) PROVE p \in PagesOf(u)
  <2>1. PICK id \in DOMAIN t : p \in t[id].segments
    BY <1>2 DEF PagesOf
  <2>2. id \in DOMAIN u /\ p \in u[id].segments
    BY <2>1
  <2> QED
    BY <2>2 DEF PagesOf
<1>3. n \in DOMAIN u
  OBVIOUS
<1>4. ASSUME NEW p \in u[n].segments PROVE p \in PagesOf(u)
  BY <1>3 DEF PagesOf
<1> QED
  BY <1>1, <1>2, <1>4

\* What is used depends on the tokens and the segments alone.
LEMMA FootprintSame ==
    ASSUME NEW t, NEW u, DOMAIN t = DOMAIN u,
           \A id \in DOMAIN t : t[id].tokens = u[id].tokens /\ t[id].segments = u[id].segments
    PROVE  Footprint(t) = Footprint(u)
<1>1. [id \in DOMAIN t |-> Own(Len(t[id].tokens))] = [id \in DOMAIN u |-> Own(Len(u[id].tokens))]
  OBVIOUS
<1>2. UNION {t[id].segments : id \in DOMAIN t} = UNION {u[id].segments : id \in DOMAIN u}
  OBVIOUS
<1> QED
  BY <1>1, <1>2 DEF Footprint

\* The sum and the pages of a footprint are numbers.
LEMMA FootprintIs ==
    ASSUME NEW c, NEW held, CacheOK(c, held)
    PROVE  /\ Footprint(c.table) = SumFunction(Costs(c.table)) + PageBytes * Cardinality(PagesOf(c.table))
           /\ DOMAIN Costs(c.table) = DOMAIN c.table /\ IsFiniteSet(DOMAIN c.table)
           /\ \A id \in DOMAIN c.table : Costs(c.table)[id] \in Nat
           /\ SumFunction(Costs(c.table)) \in Nat
           /\ IsFiniteSet(PagesOf(c.table)) /\ Cardinality(PagesOf(c.table)) \in Nat
           /\ Footprint(c.table) \in Nat /\ Cardinality(DOMAIN c.table) \in Nat
<1> DEFINE D == DOMAIN c.table
<1>1. IsFiniteSet(D)
  BY DEF CacheOK
<1>2. Footprint(c.table) = SumFunction(Costs(c.table)) + PageBytes * Cardinality(PagesOf(c.table))
  BY DEF Footprint, Costs, PagesOf
<1>3. DOMAIN Costs(c.table) = D
  BY DEF Costs
<1>4. \A id \in D : Costs(c.table)[id] \in Nat
  BY SnapshotIs, OwnIs DEF Costs
<1>5. SumFunction(Costs(c.table)) \in Nat
  BY <1>1, <1>3, <1>4, SumPart
<1>6. IsFiniteSet(PagesOf(c.table))
  <2>1. IsFiniteSet({c.table[id].segments : id \in D})
    <3> DEFINE f == [id \in D |-> c.table[id].segments]
               T == {c.table[id].segments : id \in D}
    <3>1. f \in Surjection(D, T)
      BY DEF Surjection
    <3> HIDE DEF f, T
    <3>2. IsFiniteSet(T)
      BY <1>1, <3>1, FS_Surjection
    <3> QED
      BY <3>2 DEF T
  <2>2. \A T \in {c.table[id].segments : id \in D} : IsFiniteSet(T)
    BY SnapshotIs
  <2> QED
    BY <2>1, <2>2, FS_UNION DEF PagesOf
<1>7. Cardinality(PagesOf(c.table)) \in Nat /\ Cardinality(D) \in Nat
  BY <1>1, <1>6, FS_CardinalityType
<1>8. Footprint(c.table) \in Nat
  BY <1>2, <1>5, <1>7, BytesAssumption
<1> QED
  BY <1>1, <1>2, <1>3, <1>4, <1>5, <1>6, <1>7, <1>8

\* Less uses no more.
LEMMA LessUses ==
    ASSUME NEW c, NEW held, CacheOK(c, held), NEW d, NEW h, CacheOK(d, h), Less(d, c)
    PROVE  /\ Footprint(d.table) <= Footprint(c.table)
           /\ Cardinality(DOMAIN d.table) <= Cardinality(DOMAIN c.table)
<1>1. DOMAIN d.table \subseteq DOMAIN c.table
  BY DEF Less
<1>2. SumFunction(Costs(d.table)) <= SumFunction(Costs(c.table))
  <2>1. \A id \in DOMAIN d.table : Costs(d.table)[id] = Costs(c.table)[id]
    BY <1>1 DEF Less, Costs
  <2>2. /\ DOMAIN Costs(d.table) = DOMAIN d.table /\ DOMAIN Costs(c.table) = DOMAIN c.table
        /\ IsFiniteSet(DOMAIN c.table) /\ \A id \in DOMAIN c.table : Costs(c.table)[id] \in Nat
    BY FootprintIs
  <2> QED
    BY <1>1, <2>1, <2>2, SumPart
<1>3. Cardinality(PagesOf(d.table)) <= Cardinality(PagesOf(c.table))
  <2>1. PagesOf(d.table) \in SUBSET PagesOf(c.table)
    BY <1>1 DEF Less, PagesOf
  <2>2. IsFiniteSet(PagesOf(c.table))
    BY FootprintIs
  <2> QED
    BY <2>1, <2>2, FS_Subset
<1>4. Cardinality(DOMAIN d.table) <= Cardinality(DOMAIN c.table)
  BY <1>1, FS_Subset DEF CacheOK
<1>5. ASSUME NEW m \in Nat, NEW n \in Nat, m <= n PROVE PageBytes * m <= PageBytes * n
  BY <1>5, BytesAssumption
<1>6. PageBytes * Cardinality(PagesOf(d.table)) <= PageBytes * Cardinality(PagesOf(c.table))
  BY <1>3, <1>5, FootprintIs
<1>7. /\ Footprint(d.table) = SumFunction(Costs(d.table)) + PageBytes * Cardinality(PagesOf(d.table))
      /\ Footprint(c.table) = SumFunction(Costs(c.table)) + PageBytes * Cardinality(PagesOf(c.table))
      /\ SumFunction(Costs(d.table)) \in Nat /\ SumFunction(Costs(c.table)) \in Nat
      /\ Cardinality(PagesOf(d.table)) \in Nat /\ Cardinality(PagesOf(c.table)) \in Nat
  BY FootprintIs
<1>8. PageBytes \in Nat
  BY BytesAssumption
<1> QED
  BY <1>2, <1>4, <1>6, <1>7, <1>8

----------------------------------------------------------------------------
(* What a step leaves in order.                                            *)

NumberedIn(t, n) == \A id \in DOMAIN t : id <= n /\ \A p \in t[id].segments : p.id <= n

PagesAgree(t) ==
    /\ \A id \in DOMAIN t : /\ {p.place : p \in t[id].segments} = 1..Len(t[id].tokens)
                            /\ Cardinality(t[id].segments) = Len(t[id].tokens)
    /\ \A i, j \in DOMAIN t : \A p \in t[i].segments \cap t[j].segments :
          SubSeq(t[i].tokens, 1, p.place) = SubSeq(t[j].tokens, 1, p.place)

\* The entries are of one epoch.
EntriesOf(c, e) == \A i \in DOMAIN c.entries : c.table[c.entries[i]].epoch = e

\* Two caches say the same of a checkpoint that both have.
Same(d, c) ==
    \A id \in DOMAIN d.table \cap DOMAIN c.table :
       /\ d.table[id].tokens = c.table[id].tokens
       /\ d.table[id].segments = c.table[id].segments
       /\ d.table[id].epoch = c.table[id].epoch

\* What is numbered and shared rightly stays so when checkpoints only go.
LEMMA LessAgrees ==
    ASSUME NEW c, NEW d, Less(d, c), NEW n, NumberedIn(c.table, n), PagesAgree(c.table)
    PROVE  NumberedIn(d.table, n) /\ PagesAgree(d.table) /\ Same(d, c)
<1>1. /\ DOMAIN d.table \subseteq DOMAIN c.table
      /\ \A id \in DOMAIN d.table : /\ d.table[id].tokens = c.table[id].tokens
                                    /\ d.table[id].segments = c.table[id].segments
                                    /\ d.table[id].epoch = c.table[id].epoch
  BY DEF Less
<1>2. NumberedIn(d.table, n)
  BY <1>1 DEF NumberedIn
<1>3. ASSUME NEW id \in DOMAIN d.table
      PROVE  /\ {p.place : p \in d.table[id].segments} = 1..Len(d.table[id].tokens)
             /\ Cardinality(d.table[id].segments) = Len(d.table[id].tokens)
  BY <1>1 DEF PagesAgree
<1>4. ASSUME NEW i \in DOMAIN d.table, NEW j \in DOMAIN d.table,
             NEW p \in d.table[i].segments \cap d.table[j].segments
      PROVE  SubSeq(d.table[i].tokens, 1, p.place) = SubSeq(d.table[j].tokens, 1, p.place)
  <2>1. i \in DOMAIN c.table /\ j \in DOMAIN c.table /\ p \in c.table[i].segments \cap c.table[j].segments
    BY <1>1
  <2>2. SubSeq(c.table[i].tokens, 1, p.place) = SubSeq(c.table[j].tokens, 1, p.place)
    BY <2>1 DEF PagesAgree
  <2> QED
    BY <1>1, <2>2
<1>5. PagesAgree(d.table)
  BY <1>3, <1>4 DEF PagesAgree
<1> QED
  BY <1>1, <1>2, <1>5 DEF Same

\* The invariant says so of the tables as they are.
LEMMA TablesAre ==
    ASSUME IInv
    PROVE  /\ Cache.table = table /\ Cache.entries = entries /\ CacheOK(Cache, reader)
           /\ NumberedIn(Cache.table, next_id) /\ PagesAgree(Cache.table)
           /\ EntriesOf(Cache, epoch)
<1>1. Cache.table = table /\ Cache.entries = entries
  BY DEF Cache
<1>2. NumberedIn(table, next_id)
  BY DEF IInv, Numbered, NumberedIn
<1>3. PagesAgree(table)
  BY DEF IInv, SharedPagesAgree, PagesAgree
<1>4. EntriesOf(Cache, epoch)
  BY <1>1 DEF IInv, EntriesNow, EntriesOf
<1> QED
  BY <1>1, <1>2, <1>3, <1>4 DEF IInv, Books

\* The cache becomes one whose tables are in order.
LEMMA CacheNext ==
    ASSUME NEW d, NEW h, CacheOK(d, h), Becomes(d), reader' = h,
           NEW n, next_id' = n, NumberedIn(d.table, n), PagesAgree(d.table)
    PROVE  Books' /\ Numbered' /\ SharedPagesAgree'
<1>1. Cache' = d
  <2>1. d = [entries |-> d.entries, table |-> d.table]
    BY DEF CacheOK
  <2> QED
    BY <2>1 DEF Cache, Becomes
<1>2. Books'
  BY <1>1 DEF Books
<1>3. table' = d.table
  BY DEF Becomes
<1>4. Numbered'
  BY <1>3 DEF Numbered, NumberedIn
<1>5. SharedPagesAgree'
  <2>1. SharedPagesAgree' <=> PagesAgree(table')
    BY Zenon DEF SharedPagesAgree, PagesAgree
  <2> QED
    BY <1>3, <2>1
<1> QED
  BY <1>2, <1>4, <1>5

\* There is still room.
LEMMA RoomNext ==
    ASSUME NEW t, table' = t, NEW b, pending_bytes' = b, NEW e, pending_entries' = e,
           Footprint(t) + b <= Budget, Cardinality(DOMAIN t) + e <= MaxEntries
    PROVE  Room'
BY DEF Room

\* What is pending is still what the writers reserved.
LEMMA PendingNext ==
    ASSUME NEW W, Writers' = W, NEW f, f = [q \in W |-> reservation'[q].size],
           pending_bytes' = SumFunction(f), pending_entries' = Cardinality(W)
    PROVE  Pending'
BY DEF Pending

\* What can be matched is still of the epoch.
LEMMA EntriesNext ==
    ASSUME NEW c, NEW d, Less(d, c), NEW h, CacheOK(d, h), NEW e,
           EntriesOf(c, e)
    PROVE  EntriesOf(d, e)
<1> SUFFICES ASSUME NEW i \in DOMAIN d.entries PROVE d.table[d.entries[i]].epoch = e
  BY DEF EntriesOf
<1>1. Listed(d, d.entries[i]) /\ d.entries[i] \in DOMAIN d.table
  BY DEF Listed, Has, CacheOK
<1>2. PICK j \in DOMAIN c.entries : c.entries[j] = d.entries[i]
  BY <1>1 DEF Less, Listed, Has
<1> QED
  BY <1>1, <1>2 DEF Less, EntriesOf

\* A request that does not act is still in order.
LEMMA RequestKept ==
    ASSUME Books, NEW d, NEW h, CacheOK(d, h), Same(d, Cache), table' = d.table, reader' = h,
           NEW r \in Requests, RequestOK(r), epoch' = epoch \/ phase[r] # "matched",
           h[r] = reader[r] /\ phase'[r] = phase[r] /\ seq'[r] = seq[r],
           basis'[r] = basis[r] /\ reservation'[r] = reservation[r]
    PROVE  RequestOK(r)'
<1>1. /\ reader'[r] = reader[r] /\ phase'[r] = phase[r] /\ seq'[r] = seq[r]
      /\ basis'[r] = basis[r] /\ reservation'[r] = reservation[r]
  OBVIOUS
<1>2. reader[r] # 0 => /\ table'[reader[r]].tokens = table[reader[r]].tokens
                       /\ table'[reader[r]].segments = table[reader[r]].segments
                       /\ table'[reader[r]].epoch = table[reader[r]].epoch
  <2>1. reader[r] # 0 => reader[r] \in DOMAIN table
    BY DEF Books, CacheOK, Cache
  <2>2. reader[r] # 0 => reader[r] \in DOMAIN d.table
    BY <1>1 DEF CacheOK
  <2> QED
    BY <2>1, <2>2 DEF Same, Cache
<1>3. epoch' = epoch => (MatchOK(r) => MatchOK(r)')
  BY <1>1, <1>2 DEF MatchOK
<1>4. WriterOK(r) => WriterOK(r)'
  <2> SUFFICES ASSUME WriterOK(r) PROVE WriterOK(r)'
    OBVIOUS
  <2>1. /\ reservation[r].start <= seq[r]
        /\ reservation[r].size = CheckpointBytes(seq[r] - reservation[r].start, seq[r])
    BY DEF WriterOK
  <2>2. reader[r] = 0 => reservation[r].start = 0 /\ reservation[r].segments = {}
    BY DEF WriterOK
  <2>3. reader[r] # 0 => /\ reservation[r].start = Len(table'[reader[r]].tokens)
                         /\ reservation[r].segments = table'[reader[r]].segments
                         /\ table'[reader[r]].tokens = SubSeq(Prompt[r], 1, reservation[r].start)
    BY <1>2 DEF WriterOK
  <2> QED
    BY <1>1, <2>1, <2>2, <2>3 DEF WriterOK, CheckpointBytes, Own
<1> QED
  BY <1>1, <1>3, <1>4 DEF RequestOK

\* So are all, when one acts.
LEMMA RequestsNext ==
    ASSUME Books, RequestsOK, NEW d, NEW h, CacheOK(d, h), Same(d, Cache),
           table' = d.table, reader' = h, epoch' = epoch, NEW q \in Requests, RequestOK(q)',
           \A r \in Requests \ {q} :
              /\ h[r] = reader[r] /\ phase'[r] = phase[r] /\ seq'[r] = seq[r]
              /\ basis'[r] = basis[r] /\ reservation'[r] = reservation[r]
    PROVE  RequestsOK'
<1> SUFFICES ASSUME NEW r \in Requests PROVE RequestOK(r)'
  BY DEF RequestsOK
<1>1. CASE r = q
  BY <1>1
<1>2. CASE r # q
  <2>1. RequestOK(r)
    BY DEF RequestsOK
  <2> QED
    BY <1>2, <2>1, RequestKept
<1> QED
  BY <1>1, <1>2

\* A request that neither holds a match nor writes.
LEMMA RestingNext ==
    ASSUME NEW q \in Requests, reader'[q] = 0, phase'[q] \notin {"matched", "writing"},
           seq'[q] <= Len(Prompt[q]),
           phase'[q] \in {"prefill", "boundary"} => basis'[q].length <= seq'[q]
    PROVE  RequestOK(q)'
BY DEF RequestOK

----------------------------------------------------------------------------
(* Steps of a request that neither reserve nor publish.                    *)

\* Such a step changes its own request and takes checkpoints from the cache.
Moves(q, p, d, h) ==
    /\ CacheOK(d, h) /\ Less(d, Cache) /\ Becomes(d) /\ reader' = h
    /\ UNCHANGED <<pending_bytes, pending_entries, epoch, next_id, reservation>>
    /\ RequestOK(q)'
    /\ phase[q] # "writing" /\ p \in Phases \ {"writing"} /\ phase' = [phase EXCEPT ![q] = p]
    /\ \A r \in Requests \ {q} : h[r] = reader[r] /\ seq'[r] = seq[r] /\ basis'[r] = basis[r]
    /\ seq' \in [Requests -> Nat] /\ basis' \in [Requests -> [id : Nat, length : Nat]]
    /\ prefix_epoch' \in [Requests -> Nat]

\* After such a step the invariant holds: nobody else's match, writer or reservation
\* is disturbed (the handlers of prefix_cache.py that match, restore and close).
LEMMA RequestStep ==
    ASSUME IInv, NEW q \in Requests, NEW p, NEW d, NEW h, Moves(q, p, d, h)
    PROVE  IInv'
<1> USE DEF Moves
<1>1. NumberedIn(Cache.table, next_id) /\ PagesAgree(Cache.table)
  BY TablesAre
<1>2. NumberedIn(d.table, next_id) /\ PagesAgree(d.table) /\ Same(d, Cache)
  BY <1>1, LessAgrees
<1>3. Books' /\ Numbered' /\ SharedPagesAgree'
  BY <1>2, CacheNext
<1>4. table' = d.table /\ CacheOK(Cache, reader) /\ Cache.table = table /\ Cache.entries = entries
  BY DEF IInv, Books, Becomes, Cache
<1>5. /\ {pending_bytes, pending_entries, epoch, next_id} \subseteq Nat
      /\ phase \in [Requests -> Phases]
  BY DEF IInv, TypeOK
<1>6. Room'
  <2>1. /\ Footprint(d.table) <= Footprint(table) /\ Cardinality(DOMAIN d.table) <= Cardinality(DOMAIN table)
        /\ Footprint(d.table) \in Nat /\ Footprint(table) \in Nat
        /\ Cardinality(DOMAIN d.table) \in Nat /\ Cardinality(DOMAIN table) \in Nat
    BY <1>4, LessUses, FootprintIs
  <2>2. /\ Footprint(table) + pending_bytes <= Budget
        /\ Cardinality(DOMAIN table) + pending_entries <= MaxEntries
    BY DEF IInv, Room
  <2>3. /\ Footprint(d.table) + pending_bytes <= Budget
        /\ Cardinality(DOMAIN d.table) + pending_entries <= MaxEntries
    BY <1>5, <2>1, <2>2, BytesAssumption
  <2> QED
    BY <1>4, <2>3, RoomNext
<1>7. Writers' = Writers
  BY <1>5 DEF Writers
<1>8. Pending'
  <2>1. /\ pending_bytes = SumFunction([r \in Writers |-> reservation[r].size])
        /\ pending_entries = Cardinality(Writers)
    BY DEF IInv, Pending
  <2>2. [r \in Writers |-> reservation[r].size] = [r \in Writers |-> reservation'[r].size]
    OBVIOUS
  <2> QED
    BY <1>7, <2>1, <2>2, PendingNext
<1>9. EntriesNow'
  <2>1. EntriesOf(d, epoch)
    BY <1>4, TablesAre, EntriesNext
  <2> QED
    BY <1>4, <2>1 DEF EntriesNow, EntriesOf, Becomes
<1>10. RequestsOK'
  <2>1. \A r \in Requests \ {q} : phase'[r] = phase[r] /\ reservation'[r] = reservation[r]
    BY <1>5
  <2> QED
    BY <1>2, <1>4, <2>1, RequestsNext DEF IInv
<1>11. TypeOK'
  <2>1. phase' \in [Requests -> Phases] /\ reservation' \in [Requests -> Reservations]
    BY <1>5 DEF IInv, TypeOK
  <2> QED
    BY <1>5, <2>1 DEF TypeOK
<1> QED
  BY <1>3, <1>6, <1>8, <1>9, <1>10, <1>11 DEF IInv

\* What the invariant says of one request.
LEMMA RequestIs ==
    ASSUME IInv, NEW q \in Requests
    PROVE  /\ RequestOK(q) /\ reader \in [Requests -> Nat] /\ reader[q] \in Nat
           /\ Prompt[q] \in Seq(Content) /\ Len(Prompt[q]) \in Nat /\ seq[q] \in Nat
           /\ epoch \in Nat /\ phase[q] \in Phases
           /\ reader[q] # 0 => reader[q] \in DOMAIN table
           /\ basis[q] \in [id : Nat, length : Nat] /\ reservation[q] \in Reservations
<1>1. Prompt[q] \in Seq(Content)
  BY PromptAssumption
<1>2. /\ reader \in [Requests -> Nat]
      /\ reader[q] # 0 => reader[q] \in DOMAIN table
  BY TablesAre DEF CacheOK
<1> QED
  BY <1>1, <1>2 DEF IInv, TypeOK, RequestsOK

\* match_prefix: the old reader goes before the lookup, the new one stays only if the
\* ranks agree about it.
LEMMA MatchStep ==
    ASSUME IInv, NEW q \in Requests, NEW agreed \in BOOLEAN, Match(q, agreed)
    PROVE  IInv'
<1>1. PICK held : held = reader
  OBVIOUS
<1>2. PICK old : old = Closed(Cache, held[q])
  OBVIOUS
<1>3. PICK id : id = Best(old, epoch, Prompt[q], Len(Prompt[q]))
  OBVIOUS
<1>4. PICK new : new = Acquired(old, id)
  OBVIOUS
<1> DEFINE h0 == Emptied(held, q)
           h1 == [h0 EXCEPT ![q] = id]
           h2 == Emptied(h1, q)
<1>5. held \in [Requests -> Nat] /\ h0 \in [Requests -> Nat] /\ h0[q] = 0
  BY <1>1, RequestIs DEF Emptied
<1>6. CacheOK(old, h0) /\ Less(old, Cache)
  BY <1>1, <1>2, TablesAre, CloseIs
<1>7. /\ CacheOK(new, h1) /\ Less(new, old) /\ id \in Nat
      /\ id # 0 => /\ id \in DOMAIN new.table /\ new.table[id].epoch = epoch
                   /\ Length(new, id) <= Len(Prompt[q])
  <2> HIDE DEF h0
  <2>1. Len(Prompt[q]) \in Nat
    BY RequestIs
  <2>2. /\ CacheOK(Acquired(old, id), [h0 EXCEPT ![q] = id]) /\ Less(Acquired(old, id), old)
        /\ id \in Nat
        /\ id # 0 => /\ id \in DOMAIN Acquired(old, id).table
                     /\ Acquired(old, id).table[id].epoch = epoch
                     /\ Length(Acquired(old, id), id) <= Len(Prompt[q])
    <3>1. PICK cap \in Nat : cap = Len(Prompt[q])
      BY <2>1
    <3>2. id = Best(old, epoch, Prompt[q], cap)
      BY <1>3, <3>1
    <3>3. /\ CacheOK(Acquired(old, id), [h0 EXCEPT ![q] = id]) /\ Less(Acquired(old, id), old)
          /\ id \in Nat /\ (id # 0 => Found(Acquired(old, id), id, epoch, Prompt[q], cap))
      BY <1>5, <1>6, <3>2, LookupIs
    <3>4. id # 0 => /\ id \in DOMAIN Acquired(old, id).table
                    /\ Acquired(old, id).table[id].epoch = epoch
                    /\ Length(Acquired(old, id), id) <= cap
      BY <3>3 DEF Found
    <3> QED
      BY <3>1, <3>3, <3>4
  <2> QED
    BY <1>4, <2>2
<1>8. h1 = [held EXCEPT ![q] = id] /\ h1[q] = id
  BY <1>5, <1>7 DEF Emptied
<1>9. CacheOK(Closed(new, id), h2) /\ Less(Closed(new, id), new)
  <2> HIDE DEF h1
  <2> QED
    BY <1>7, <1>8, CloseIs
<1>10. h2 = [held EXCEPT ![q] = 0]
  BY <1>5, <1>7 DEF Emptied
<1> DEFINE d == IF agreed THEN new ELSE Closed(new, id)
           h == IF agreed THEN h1 ELSE h2
           p == IF agreed /\ id # 0 THEN "matched" ELSE "waiting"
<1>11. /\ phase[q] \in {"waiting", "matched"} /\ Becomes(d)
       /\ reader' = [reader EXCEPT ![q] = IF agreed THEN id ELSE 0]
       /\ phase' = [phase EXCEPT ![q] = p]
       /\ UNCHANGED <<pending_bytes, pending_entries, epoch, next_id, seq, basis,
                      prefix_epoch, reservation>>
  BY <1>1, <1>2, <1>3, <1>4 DEF Match
<1> HIDE DEF h1, h2
<1>12. CacheOK(d, h) /\ Less(d, Cache)
  BY <1>6, <1>7, <1>9, LessIsOrdered
<1>13. reader' = h /\ \A r \in Requests \ {q} : h[r] = reader[r]
  BY <1>1, <1>5, <1>8, <1>10, <1>11
<1>14. p \in Phases \ {"writing"}
  BY DEF Phases
<1>15. RequestOK(q)'
  <2>1. seq'[q] <= Len(Prompt[q])
    BY <1>11, RequestIs DEF RequestOK
  <2>2. phase'[q] = p
    BY <1>11 DEF IInv, TypeOK
  <2>3. reader'[q] = IF agreed THEN id ELSE 0
    BY <1>1, <1>5, <1>11
  <2>4. CASE p = "waiting"
    <3>1. reader'[q] = 0
      BY <2>3, <2>4
    <3> QED
      BY <2>1, <2>2, <2>4, <3>1, RestingNext
  <2>5. CASE p = "matched"
    <3>1. agreed /\ id # 0
      BY <2>5
    <3>2. table' = new.table /\ epoch' = epoch /\ reader'[q] = id
      BY <1>11, <2>3, <3>1 DEF Becomes
    <3>3. MatchOK(q)'
      BY <1>7, <3>1, <3>2 DEF MatchOK, Length
    <3> QED
      BY <2>1, <2>2, <2>5, <3>3 DEF RequestOK
  <2> QED
    BY <2>4, <2>5
<1>16. phase[q] # "writing"
  BY <1>11
<1>17. /\ seq' = seq /\ basis' = basis /\ seq' \in [Requests -> Nat]
       /\ basis' \in [Requests -> [id : Nat, length : Nat]] /\ prefix_epoch' \in [Requests -> Nat]
  BY <1>11 DEF IInv, TypeOK
<1> HIDE DEF d, h, p
<1>18. Moves(q, p, d, h)
  BY <1>11, <1>12, <1>13, <1>14, <1>15, <1>16, <1>17 DEF Moves
<1> QED
  BY <1>18, RequestStep

\* A request closes what it holds and goes on.
LEMMA ClosingStep ==
    ASSUME IInv, NEW q \in Requests, Becomes(Closed(Cache, reader[q])),
           reader' = [reader EXCEPT ![q] = 0],
           UNCHANGED <<pending_bytes, pending_entries, epoch, next_id, reservation>>,
           phase[q] # "writing", NEW p \in {"waiting", "prefill", "done"},
           phase' = [phase EXCEPT ![q] = p],
           NEW n \in Nat, n <= Len(Prompt[q]), seq' = [seq EXCEPT ![q] = n],
           NEW b \in [id : Nat, length : Nat], basis' = [basis EXCEPT ![q] = b],
           p = "prefill" => b.length <= n, prefix_epoch' \in [Requests -> Nat]
    PROVE  IInv'
<1>1. PICK h : h = Emptied(reader, q)
  OBVIOUS
<1>2. PICK d : d = Closed(Cache, reader[q])
  OBVIOUS
<1>3. CacheOK(d, h) /\ Less(d, Cache)
  <2>1. PICK c, held : c = Cache /\ held = reader
    OBVIOUS
  <2>2. CacheOK(Closed(c, held[q]), Emptied(held, q)) /\ Less(Closed(c, held[q]), c)
    BY <2>1, TablesAre, CloseIs
  <2> QED
    BY <1>1, <1>2, <2>1, <2>2
<1>4. reader' = h /\ Becomes(d)
  BY <1>1, <1>2 DEF Emptied
<1>5. /\ phase \in [Requests -> Phases] /\ seq \in [Requests -> Nat]
      /\ basis \in [Requests -> [id : Nat, length : Nat]]
  BY DEF IInv, TypeOK
<1>6. /\ seq' \in [Requests -> Nat] /\ basis' \in [Requests -> [id : Nat, length : Nat]]
      /\ \A r \in Requests \ {q} : h[r] = reader[r] /\ seq'[r] = seq[r] /\ basis'[r] = basis[r]
      /\ reader'[q] = 0 /\ phase'[q] = p /\ seq'[q] = n /\ basis'[q] = b
  <2>1. reader \in [Requests -> Nat]
    BY RequestIs
  <2> QED
    BY <1>1, <1>5, <2>1 DEF Emptied
<1>7. RequestOK(q)'
  BY <1>6, RestingNext
<1>8. p \in Phases \ {"writing"}
  BY DEF Phases
<1>9. seq' \in [Requests -> Nat] /\ basis' \in [Requests -> [id : Nat, length : Nat]]
  BY <1>6
<1>10. \A r \in Requests \ {q} : h[r] = reader[r] /\ seq'[r] = seq[r] /\ basis'[r] = basis[r]
  BY <1>6
<1>11. UNCHANGED <<pending_bytes, pending_entries, epoch, next_id, reservation>>
       /\ phase' = [phase EXCEPT ![q] = p] /\ phase[q] # "writing"
       /\ prefix_epoch' \in [Requests -> Nat]
  OBVIOUS
<1>12. Moves(q, p, d, h)
  BY <1>3, <1>4, <1>7, <1>8, <1>9, <1>10, <1>11 DEF Moves
<1> QED
  BY <1>12, RequestStep

\* The first forward: a restored match is noted as the basis, and its reader closed.
LEMMA StartStep ==
    ASSUME IInv, NEW q \in Requests, Start(q)
    PROVE  IInv'
<1> DEFINE length == IF phase[q] = "matched" THEN Length(Cache, reader[q]) ELSE 0
           b == [id |-> reader[q], length |-> length]
<1>1. length \in Nat /\ length <= Len(Prompt[q])
  <2>1. CASE phase[q] = "matched"
    <3>1. MatchOK(q) /\ Cache.table = table
      BY <2>1, RequestIs, TablesAre DEF RequestOK
    <3>2. reader[q] \in DOMAIN Cache.table
      BY <3>1, RequestIs DEF MatchOK
    <3>3. Len(Cache.table[reader[q]].tokens) \in Nat
      BY <3>2, TablesAre, SnapshotIs
    <3> QED
      BY <2>1, <3>1, <3>3 DEF MatchOK, Length
  <2>2. CASE phase[q] # "matched"
    BY <2>2, RequestIs
  <2> QED
    BY <2>1, <2>2
<1>2. b \in [id : Nat, length : Nat] /\ b.length = length
  BY <1>1, RequestIs
<1>3. /\ phase[q] \in {"waiting", "matched"} /\ Becomes(Closed(Cache, reader[q]))
      /\ seq' = [seq EXCEPT ![q] = length] /\ basis' = [basis EXCEPT ![q] = b]
      /\ reader' = [reader EXCEPT ![q] = 0] /\ phase' = [phase EXCEPT ![q] = "prefill"]
      /\ prefix_epoch' = [prefix_epoch EXCEPT ![q] = epoch]
      /\ UNCHANGED <<pending_bytes, pending_entries, epoch, next_id, reservation>>
  BY DEF Start
<1>4. prefix_epoch' \in [Requests -> Nat] /\ phase[q] # "writing"
  BY <1>3, RequestIs DEF IInv, TypeOK
<1> HIDE DEF length, b
<1>5. length <= length
  BY <1>1
<1> QED
  BY <1>1, <1>2, <1>3, <1>4, <1>5, ClosingStep

\* A request that hands off or is aborted closes the match it still holds.
LEMMA LeaveStep ==
    ASSUME IInv, NEW q \in Requests, Leave(q)
    PROVE  IInv'
<1>1. /\ phase[q] # "writing" /\ Becomes(Closed(Cache, reader[q]))
      /\ reader' = [reader EXCEPT ![q] = 0] /\ phase' = [phase EXCEPT ![q] = "done"]
      /\ seq' = seq /\ basis' = basis /\ prefix_epoch' = prefix_epoch
      /\ UNCHANGED <<pending_bytes, pending_entries, epoch, next_id, reservation>>
  BY DEF Leave
<1>2. seq' = [seq EXCEPT ![q] = seq[q]] /\ basis' = [basis EXCEPT ![q] = basis[q]]
      /\ prefix_epoch' \in [Requests -> Nat]
  BY <1>1 DEF IInv, TypeOK
<1>3. /\ seq[q] \in Nat /\ seq[q] <= Len(Prompt[q]) /\ basis[q] \in [id : Nat, length : Nat]
  BY RequestIs DEF RequestOK
<1>4. "done" \in {"waiting", "prefill", "done"} /\ "done" # "prefill"
  OBVIOUS
<1> QED
  BY <1>1, <1>2, <1>3, <1>4, ClosingStep

\* A request that holds nothing goes on, with the cache as it is.
LEMMA QuietStep ==
    ASSUME IInv, NEW q \in Requests, UNCHANGED <<cacheVars, reader, basis, prefix_epoch, reservation>>,
           phase[q] \in {"prefill", "boundary"}, NEW p \in {"prefill", "boundary"},
           phase' = [phase EXCEPT ![q] = p], NEW n \in Nat, n <= Len(Prompt[q]), seq[q] <= n,
           seq' = [seq EXCEPT ![q] = n]
    PROVE  IInv'
<1>1. PICK h : h = reader
  OBVIOUS
<1>2. PICK d : d = Cache
  OBVIOUS
<1>3. CacheOK(d, h) /\ Less(d, Cache) /\ d.table = table /\ d.entries = entries
  BY <1>1, <1>2, TablesAre, LessIsOrdered
<1>4. reader' = h /\ Becomes(d)
  BY <1>1, <1>3 DEF Becomes, cacheVars
<1>5. reader[q] = 0 /\ basis[q].length <= seq[q] /\ basis[q].length \in Nat
  BY RequestIs DEF RequestOK
<1>6. seq' \in [Requests -> Nat] /\ basis' \in [Requests -> [id : Nat, length : Nat]]
      /\ prefix_epoch' \in [Requests -> Nat] /\ phase'[q] = p /\ seq'[q] = n
      /\ \A r \in Requests \ {q} : seq'[r] = seq[r]
  BY DEF IInv, TypeOK
<1>7. RequestOK(q)'
  <2>1. basis'[q].length <= seq'[q]
    BY <1>5, <1>6, RequestIs
  <2> QED
    BY <1>5, <1>6, <2>1, RestingNext
<1>8. p \in Phases \ {"writing"}
  BY DEF Phases
<1>9. UNCHANGED <<pending_bytes, pending_entries, epoch, next_id, reservation>>
  BY DEF cacheVars
<1>10. Moves(q, p, d, h)
  BY <1>1, <1>3, <1>4, <1>6, <1>7, <1>8, <1>9 DEF Moves
<1> QED
  BY <1>10, RequestStep

\* A forward changes how far its request has prefilled, and nothing in the cache.
LEMMA ForwardStep ==
    ASSUME IInv, NEW q \in Requests, NEW length \in 1..Len(Prompt[q]), NEW aligned \in BOOLEAN,
           Forward(q, length, aligned)
    PROVE  IInv'
<1> DEFINE p == IF aligned THEN "boundary" ELSE "prefill"
<1>1. /\ phase[q] \in {"prefill", "boundary"} /\ phase' = [phase EXCEPT ![q] = p]
      /\ UNCHANGED <<cacheVars, reader, basis, prefix_epoch, reservation>>
      /\ length > seq[q] /\ seq' = [seq EXCEPT ![q] = length]
  BY DEF Forward
<1>2. length \in Nat /\ length <= Len(Prompt[q]) /\ seq[q] <= length
  BY <1>1, RequestIs
<1>3. p \in {"prefill", "boundary"}
  OBVIOUS
<1> HIDE DEF p
<1> QED
  BY <1>1, <1>2, <1>3, QuietStep

\* capture_prefix takes nothing for a lease that began before a flush.
LEMMA CaptureStaleStep ==
    ASSUME IInv, NEW q \in Requests, CaptureStale(q)
    PROVE  IInv'
<1>1. /\ phase[q] \in {"prefill", "boundary"} /\ phase' = [phase EXCEPT ![q] = "prefill"]
      /\ UNCHANGED <<cacheVars, reader, basis, prefix_epoch, reservation>>
      /\ seq' = seq
  BY DEF CaptureStale
<1>2. seq' = [seq EXCEPT ![q] = seq[q]]
  BY <1>1 DEF IInv, TypeOK
<1>3. seq[q] \in Nat /\ seq[q] <= Len(Prompt[q]) /\ seq[q] <= seq[q]
  BY RequestIs DEF RequestOK
<1>4. "prefill" \in {"prefill", "boundary"}
  OBVIOUS
<1> QED
  BY <1>1, <1>2, <1>3, <1>4, QuietStep

\* A capture that ends at once leaves nothing open.
LEMMA GivenUpStep ==
    ASSUME IInv, NEW q \in Requests, phase[q] = "boundary", NEW d,
           CacheOK(d, reader), Less(d, Cache), Becomes(d),
           UNCHANGED <<pending_bytes, pending_entries, epoch, next_id, reader, seq, basis,
                       prefix_epoch, reservation>>,
           phase' = [phase EXCEPT ![q] = "prefill"]
    PROVE  IInv'
<1>1. PICK h : h = reader
  OBVIOUS
<1>2. CacheOK(d, h) /\ reader' = h /\ \A r \in Requests : h[r] = reader[r]
  BY <1>1
<1>3. seq' \in [Requests -> Nat] /\ basis' \in [Requests -> [id : Nat, length : Nat]]
      /\ prefix_epoch' \in [Requests -> Nat] /\ phase'[q] = "prefill"
  BY DEF IInv, TypeOK
<1>4. RequestOK(q)'
  <2>1. reader[q] = 0 /\ basis[q].length <= seq[q] /\ seq[q] <= Len(Prompt[q])
    BY RequestIs DEF RequestOK
  <2> QED
    BY <1>3, <2>1, RestingNext
<1>5. "prefill" \in Phases \ {"writing"} /\ phase[q] # "writing"
  BY DEF Phases
<1>6. Moves(q, "prefill", d, h)
  BY <1>2, <1>3, <1>4, <1>5 DEF Moves
<1> QED
  BY <1>6, RequestStep

\* A capture that finds its checkpoint has opened and closed a reader of it.
LEMMA CaptureKnownStep ==
    ASSUME IInv, NEW q \in Requests, CaptureKnown(q)
    PROVE  IInv'
<1>1. PICK c, held : c = Cache /\ held = reader
  OBVIOUS
<1>2. PICK id : id = Previous(q)
  OBVIOUS
<1>3. PICK d : d = Closed(Acquired(c, id), id)
  OBVIOUS
<1>4. phase[q] = "boundary" /\ held[q] = 0 /\ held \in [Requests -> Nat] /\ seq[q] \in Nat
  BY <1>1, RequestIs DEF CaptureKnown, RequestOK
<1>5. /\ CacheOK(Acquired(c, id), [held EXCEPT ![q] = id]) /\ Less(Acquired(c, id), c)
      /\ id \in Nat
  <2>1. id = Best(c, epoch, Prompt[q], seq[q])
    BY <1>1, <1>2 DEF Previous
  <2> QED
    BY <1>1, <1>4, <2>1, TablesAre, LookupIs
<1>6. CacheOK(d, held) /\ Less(d, Cache)
  <2>1. PICK h : h = [held EXCEPT ![q] = id]
    OBVIOUS
  <2>2. h[q] = id /\ Emptied(h, q) = held
    BY <1>4, <2>1 DEF Emptied
  <2>3. CacheOK(d, held) /\ Less(d, Acquired(c, id))
    BY <1>3, <1>5, <2>1, <2>2, CloseIs
  <2> QED
    BY <1>1, <1>5, <2>3, LessIsOrdered
<1>7. /\ Becomes(d) /\ phase' = [phase EXCEPT ![q] = "prefill"]
      /\ UNCHANGED <<pending_bytes, pending_entries, epoch, next_id, reader, seq, basis,
                     prefix_epoch, reservation>>
  BY <1>1, <1>2, <1>3 DEF CaptureKnown
<1> QED
  BY <1>1, <1>4, <1>6, <1>7, GivenUpStep

----------------------------------------------------------------------------
(* A flush.                                                                *)

\* _drop_host_prefixes: the readers of matches are closed with the reset, and what
\* the writers still read stays in the table until they close.
LEMMA DropStep ==
    ASSUME IInv, Drop
    PROVE  IInv'
<1> DEFINE matched == {q \in Requests : phase[q] = "matched"}
           held == reader
           h == [q \in Requests |-> IF phase[q] = "matched" THEN 0 ELSE held[q]]
           left == [id \in DOMAIN table |-> [table[id] EXCEPT
                       !.readers = @ - Cardinality({q \in matched : reader[q] = id})]]
           t == Restrict(left, {id \in DOMAIN left : left[id].readers > 0})
           d == [entries |-> <<>>, table |-> t]
<1>1. /\ Becomes(d) /\ epoch' = epoch + 1 /\ reader' = h
      /\ phase' = [q \in Requests |-> IF phase[q] = "matched" THEN "waiting" ELSE phase[q]]
      /\ UNCHANGED <<pending_bytes, pending_entries, next_id, seq, basis, prefix_epoch,
                     reservation>>
  BY DEF Drop, Dropped
<1>2. /\ CacheOK(Cache, held) /\ Cache.table = table /\ Cache.entries = entries
      /\ held \in [Requests -> Nat] /\ h \in [Requests -> Nat]
  BY TablesAre, RequestIs DEF CacheOK
<1>3. ASSUME NEW id \in DOMAIN table
      PROVE  /\ left[id].readers = Cardinality(Readers(h, id)) /\ left[id].readers \in Nat
             /\ left[id] = [table[id] EXCEPT !.readers = Cardinality(Readers(h, id))]
  <2> DEFINE M == {q \in matched : reader[q] = id}
  <2>1. id \in Nat \ {0} /\ table[id] \in Snapshots /\ table[id].readers = Cardinality(Readers(held, id))
    BY <1>2, SnapshotIs DEF CacheOK
  <2>2. IsFiniteSet(Readers(held, id)) /\ IsFiniteSet(Readers(h, id))
        /\ Cardinality(Readers(h, id)) \in Nat
    <3>1. Readers(held, id) \in SUBSET Requests /\ Readers(h, id) \in SUBSET Requests
      BY DEF Readers
    <3>2. IsFiniteSet(Readers(held, id)) /\ IsFiniteSet(Readers(h, id))
      BY <3>1, PromptAssumption, FS_Subset
    <3> QED
      BY <3>2, FS_CardinalityType
  <2>3. Readers(h, id) = Readers(held, id) \ M /\ Readers(held, id) \cap M = M
    <3>1. \A p \in Requests : h[p] = id <=> held[p] = id /\ p \notin M
      BY <2>1
    <3>2. \A p \in M : p \in Requests /\ held[p] = id
      OBVIOUS
    <3> HIDE DEF M, h
    <3> QED
      BY <3>1, <3>2 DEF Readers
  <2>4. Cardinality(Readers(h, id)) = Cardinality(Readers(held, id)) - Cardinality(M)
    BY <2>2, <2>3, FS_Difference
  <2>5. left[id] = [table[id] EXCEPT !.readers = @ - Cardinality(M)]
    OBVIOUS
  <2> HIDE DEF left, M, h
  <2> QED
    BY <2>1, <2>2, <2>4, <2>5 DEF Snapshots
<1>4. /\ DOMAIN t = {id \in DOMAIN table : left[id].readers > 0} /\ t = [id \in DOMAIN t |-> t[id]]
      /\ \A id \in DOMAIN t : t[id] = left[id]
  BY DEF Restrict
<1> HIDE DEF left, t
<1>5. ASSUME NEW q \in Requests, h[q] # 0 PROVE h[q] \in DOMAIN t
  <2>1. h[q] = held[q] /\ h[q] \in DOMAIN table
    BY <1>2, <1>5 DEF CacheOK
  <2>2. PICK id : id = h[q]
    OBVIOUS
  <2>3. q \in Readers(h, id) /\ IsFiniteSet(Readers(h, id))
    <3>1. Readers(h, id) \in SUBSET Requests
      BY DEF Readers
    <3>2. IsFiniteSet(Readers(h, id))
      BY <3>1, PromptAssumption, FS_Subset
    <3> HIDE DEF h
    <3> QED
      BY <2>2, <3>2 DEF Readers
  <2>4. left[id].readers # 0 /\ left[id].readers \in Nat
    <3> HIDE DEF h
    <3> QED
      BY <1>3, <2>1, <2>2, <2>3, FS_EmptySet
  <2> QED
    BY <1>4, <2>1, <2>2, <2>4
<1>6. /\ DOMAIN t \subseteq DOMAIN Cache.table
      /\ \A id \in DOMAIN t :
            /\ t[id] = [Cache.table[id] EXCEPT !.readers = Cardinality(Readers(h, id))]
            /\ Has(<<>>, id) \/ Cardinality(Readers(h, id)) # 0
  <2> HIDE DEF h
  <2> QED
    BY <1>2, <1>3, <1>4
<1>7. <<>> \in Seq(DOMAIN t) /\ Once(<<>>) /\ \A id : ~Has(<<>>, id)
  BY DEF Once, Has
<1>8. CacheOK(d, h) /\ Less(d, Cache)
  <2> HIDE DEF h
  <2> QED
    BY <1>2, <1>4, <1>5, <1>6, <1>7, PartIs
<1>9. d.table = t /\ d.entries = <<>> /\ table' = t /\ entries' = <<>>
  BY <1>1 DEF Becomes
<1> HIDE DEF d
<1>10. NumberedIn(d.table, next_id) /\ PagesAgree(d.table) /\ Same(d, Cache)
  BY <1>8, TablesAre, LessAgrees
<1>11. Books' /\ Numbered' /\ SharedPagesAgree'
  <2> HIDE DEF h
  <2>1. next_id' = next_id
    BY <1>1
  <2> QED
    BY <1>1, <1>8, <1>10, <2>1, CacheNext
<1>12. /\ {pending_bytes, pending_entries, epoch, next_id} \subseteq Nat
       /\ phase \in [Requests -> Phases]
  BY DEF IInv, TypeOK
<1>13. Room'
  <2> HIDE DEF h
  <2>1. /\ Footprint(d.table) <= Footprint(table) /\ Cardinality(DOMAIN d.table) <= Cardinality(DOMAIN table)
        /\ Footprint(d.table) \in Nat /\ Footprint(table) \in Nat
        /\ Cardinality(DOMAIN d.table) \in Nat /\ Cardinality(DOMAIN table) \in Nat
    BY <1>2, <1>8, LessUses, FootprintIs
  <2>2. /\ Footprint(table) + pending_bytes <= Budget
        /\ Cardinality(DOMAIN table) + pending_entries <= MaxEntries
    BY DEF IInv, Room
  <2>3. /\ Footprint(d.table) + pending_bytes <= Budget
        /\ Cardinality(DOMAIN d.table) + pending_entries <= MaxEntries
    BY <1>12, <2>1, <2>2, BytesAssumption
  <2> QED
    BY <1>1, <1>9, <2>3, RoomNext
<1>14. Writers' = Writers
  BY <1>1, <1>12 DEF Writers
<1>15. Pending'
  <2>1. /\ pending_bytes = SumFunction([r \in Writers |-> reservation[r].size])
        /\ pending_entries = Cardinality(Writers)
    BY DEF IInv, Pending
  <2>2. [r \in Writers |-> reservation[r].size] = [r \in Writers |-> reservation'[r].size]
    BY <1>1
  <2> HIDE DEF h
  <2> QED
    BY <1>1, <1>14, <2>1, <2>2, PendingNext
<1>16. EntriesNow'
  BY <1>9 DEF EntriesNow
<1>17. ASSUME NEW r \in Requests PROVE RequestOK(r)'
  <2>1. seq'[r] = seq[r] /\ basis'[r] = basis[r] /\ reservation'[r] = reservation[r]
    BY <1>1
  <2>2. CASE phase[r] = "matched"
    <3>1. phase'[r] = "waiting" /\ reader'[r] = 0
      BY <1>1, <2>2
    <3>2. seq'[r] <= Len(Prompt[r])
      BY <2>1, RequestIs DEF RequestOK
    <3> QED
      BY <3>1, <3>2, RestingNext
  <2>3. CASE phase[r] # "matched"
    <3>1. phase'[r] = phase[r] /\ h[r] = reader[r]
      BY <1>1, <2>3
    <3>2. RequestOK(r) /\ Books /\ reader' = h /\ table' = d.table
      BY <1>1, <1>9, RequestIs DEF IInv
    <3> HIDE DEF h
    <3> QED
      BY <1>8, <1>10, <2>1, <2>3, <3>1, <3>2, RequestKept
  <2> QED
    BY <2>2, <2>3
<1>18. TypeOK'
  <2>1. phase' \in [Requests -> Phases]
    BY <1>1, <1>12 DEF Phases
  <2>2. {pending_bytes', pending_entries', epoch', next_id'} \subseteq Nat
    BY <1>1, <1>12
  <2> QED
    BY <1>1, <2>1, <2>2 DEF IInv, TypeOK
<1>19. RequestsOK'
  BY <1>17 DEF RequestsOK
<1> QED
  BY <1>11, <1>13, <1>15, <1>16, <1>18, <1>19 DEF IInv

----------------------------------------------------------------------------
(* The end of a reservation.                                               *)

\* What is left of the pending bytes when a writer is done.
LEMMA PendingLess ==
    ASSUME IInv, NEW q \in Requests, phase[q] = "writing"
    PROVE  LET f == [r \in Writers \ {q} |-> reservation[r].size] IN
           /\ SumFunction(f) \in Nat /\ reservation[q].size \in Nat
           /\ pending_bytes - reservation[q].size = SumFunction(f)
           /\ pending_entries - 1 = Cardinality(Writers \ {q}) /\ pending_entries - 1 \in Nat
<1> DEFINE f == [r \in Writers \ {q} |-> reservation[r].size]
           k == [r \in Writers |-> reservation[r].size]
<1>1. q \in Writers /\ Writers \in SUBSET Requests
  BY DEF Writers
<1>2. IsFiniteSet(Writers)
  BY <1>1, PromptAssumption, FS_Subset
<1>3. \A r \in Writers : reservation[r].size \in Nat
  BY <1>1 DEF IInv, TypeOK, Reservations
<1>4. IsFiniteSet(Writers \ {q}) /\ Cardinality(Writers \ {q}) = Cardinality(Writers) - 1
  BY <1>1, <1>2, FS_RemoveElement
<1>5. Cardinality(Writers \ {q}) \in Nat /\ Cardinality(Writers) \in Nat
  BY <1>2, <1>4, FS_CardinalityType
<1>6. /\ DOMAIN f = Writers \ {q} /\ DOMAIN k = DOMAIN f \cup {q} /\ q \notin DOMAIN f
      /\ \A r \in DOMAIN k : k[r] \in Nat
      /\ \A r \in DOMAIN f : f[r] = k[r]
      /\ k[q] = reservation[q].size /\ k[q] \in Nat
  BY <1>1, <1>3
<1>7. pending_bytes = SumFunction(k) /\ pending_entries = Cardinality(Writers)
  BY DEF IInv, Pending
<1> HIDE DEF f, k
<1>8. /\ SumFunction(f) \in Nat /\ SumFunction(k) \in Nat
      /\ SumFunction(k) = SumFunction(f) + k[q]
  BY <1>4, <1>6, SumAdd
<1>9. /\ SumFunction(f) \in Nat /\ reservation[q].size \in Nat
      /\ pending_bytes - reservation[q].size = SumFunction(f)
      /\ pending_entries - 1 = Cardinality(Writers \ {q}) /\ pending_entries - 1 \in Nat
  BY <1>4, <1>5, <1>6, <1>7, <1>8
<1> QED
  BY <1>9 DEF f

\* A writer closes its reservation, and the cache is what its call made of it.
LEMMA ClosingReservation ==
    ASSUME IInv, NEW q \in Requests, phase[q] = "writing",
           NEW c, CacheOK(c, reader), Same(c, Cache), EntriesOf(c, epoch),
           NEW n \in Nat, next_id' = n, NumberedIn(c.table, n), PagesAgree(c.table),
           Footprint(c.table) <= Footprint(table) + reservation[q].size,
           Cardinality(DOMAIN c.table) <= Cardinality(DOMAIN table) + 1,
           DOMAIN table \subseteq DOMAIN c.table,
           CloseReservation(q, c), UNCHANGED <<epoch, seq, prefix_epoch>>,
           NEW b \in [id : Nat, length : Nat], basis' = [basis EXCEPT ![q] = b], b.length <= seq[q]
    PROVE  IInv'
<1>1. PICK held, d, h : held = reader /\ d = Closed(c, held[q]) /\ h = Emptied(held, q)
  OBVIOUS
<1>2. /\ Becomes(d) /\ reader' = h /\ phase' = [phase EXCEPT ![q] = "prefill"]
      /\ pending_bytes' = pending_bytes - reservation[q].size
      /\ pending_entries' = pending_entries - 1
      /\ reservation' = [reservation EXCEPT ![q] = NoReservation]
  BY <1>1 DEF CloseReservation, Emptied
<1>3. CacheOK(d, h) /\ Less(d, c)
  BY <1>1, CloseIs
<1>4. NumberedIn(d.table, n) /\ PagesAgree(d.table) /\ Same(d, c)
  BY <1>3, LessAgrees
<1>5. Same(d, Cache)
  <2>1. DOMAIN d.table \subseteq DOMAIN c.table
    BY <1>3 DEF Less
  <2> QED
    BY <1>4, <2>1 DEF Same
<1>6. Books' /\ Numbered' /\ SharedPagesAgree'
  BY <1>2, <1>3, <1>4, CacheNext
<1>7. /\ {pending_bytes, pending_entries, epoch, next_id} \subseteq Nat
      /\ phase \in [Requests -> Phases] /\ seq \in [Requests -> Nat]
      /\ basis \in [Requests -> [id : Nat, length : Nat]]
      /\ prefix_epoch \in [Requests -> Nat] /\ reservation \in [Requests -> Reservations]
  BY DEF IInv, TypeOK
<1>8. PICK f : /\ f = [r \in Writers \ {q} |-> reservation[r].size]
               /\ SumFunction(f) \in Nat /\ reservation[q].size \in Nat
               /\ pending_bytes - reservation[q].size = SumFunction(f)
               /\ pending_entries - 1 = Cardinality(Writers \ {q}) /\ pending_entries - 1 \in Nat
  BY PendingLess
<1>9. Room'
  <2>1. PICK t : t = d.table /\ table' = t
    BY <1>2 DEF Becomes
  <2>2. /\ Footprint(t) <= Footprint(c.table) /\ Cardinality(DOMAIN t) <= Cardinality(DOMAIN c.table)
        /\ Footprint(t) \in Nat /\ Footprint(c.table) \in Nat /\ Footprint(table) \in Nat
        /\ Cardinality(DOMAIN t) \in Nat /\ Cardinality(DOMAIN c.table) \in Nat
        /\ Cardinality(DOMAIN table) \in Nat
    BY <1>3, <2>1, TablesAre, LessUses, FootprintIs
  <2>3. /\ Footprint(table) + pending_bytes <= Budget
        /\ Cardinality(DOMAIN table) + pending_entries <= MaxEntries
    BY DEF IInv, Room
  <2>4. /\ Footprint(t) + (pending_bytes - reservation[q].size) <= Budget
        /\ Cardinality(DOMAIN t) + (pending_entries - 1) <= MaxEntries
    BY <1>7, <1>8, <2>2, <2>3, BytesAssumption
  <2> QED
    BY <1>2, <2>1, <2>4, RoomNext
<1>10. Pending'
  <2>1. Writers' = Writers \ {q}
    BY <1>2, <1>7 DEF Writers
  <2>2. f = [r \in Writers \ {q} |-> reservation'[r].size]
    <3>1. ASSUME NEW r \in Writers \ {q} PROVE reservation'[r] = reservation[r]
      BY <1>2, <1>7 DEF Writers
    <3> QED
      BY <1>8, <3>1
  <2> QED
    BY <1>2, <1>8, <2>1, <2>2, PendingNext
<1>11. EntriesNow'
  <2>1. EntriesOf(d, epoch)
    BY <1>3, EntriesNext
  <2> QED
    BY <1>2, <2>1 DEF EntriesNow, EntriesOf, Becomes
<1>12. /\ reader'[q] = 0 /\ phase'[q] = "prefill" /\ seq'[q] = seq[q] /\ basis'[q] = b
       /\ \A r \in Requests \ {q} :
             /\ h[r] = reader[r] /\ phase'[r] = phase[r] /\ seq'[r] = seq[r]
             /\ basis'[r] = basis[r] /\ reservation'[r] = reservation[r]
  <2>1. reader \in [Requests -> Nat]
    BY RequestIs
  <2> QED
    BY <1>1, <1>2, <1>7, <2>1 DEF Emptied
<1>13. RequestsOK'
  <2>1. RequestOK(q)'
    <3>1. seq[q] <= Len(Prompt[q])
      BY RequestIs DEF RequestOK
    <3> QED
      BY <1>12, <3>1, RestingNext
  <2>2. Books /\ RequestsOK /\ table' = d.table /\ epoch' = epoch
    BY <1>2 DEF IInv, Becomes
  <2> QED
    BY <1>2, <1>3, <1>5, <1>12, <2>1, <2>2, RequestsNext
<1>14. TypeOK'
  <2>1. {pending_bytes', pending_entries', epoch', next_id'} \subseteq Nat
    BY <1>2, <1>7, <1>8
  <2>2. phase' \in [Requests -> Phases] /\ basis' \in [Requests -> [id : Nat, length : Nat]]
    BY <1>2, <1>7 DEF Phases
  <2>3. reservation' \in [Requests -> Reservations]
    <3>1. NoReservation \in Reservations
      BY DEF NoReservation, Reservations
    <3> QED
      BY <1>2, <1>7, <3>1
  <2> QED
    BY <1>7, <2>1, <2>2, <2>3 DEF TypeOK
<1> QED
  BY <1>6, <1>9, <1>10, <1>11, <1>13, <1>14 DEF IInv

\* A failed capture closes its reservation and its ancestor's reader.
LEMMA CaptureFailsStep ==
    ASSUME IInv, NEW q \in Requests, CaptureFails(q)
    PROVE  IInv'
<1>1. PICK c : c = Cache
  OBVIOUS
<1>2. /\ phase[q] = "writing" /\ CloseReservation(q, c)
      /\ UNCHANGED <<epoch, next_id, seq, basis, prefix_epoch>>
  BY <1>1 DEF CaptureFails
<1>3. /\ CacheOK(c, reader) /\ EntriesOf(c, epoch) /\ c.table = table
      /\ NumberedIn(c.table, next_id) /\ PagesAgree(c.table) /\ Same(c, Cache)
  BY <1>1, TablesAre DEF Same
<1>4. /\ next_id \in Nat /\ reservation[q].size \in Nat
      /\ basis' = [basis EXCEPT ![q] = basis[q]]
  BY <1>2 DEF IInv, TypeOK, Reservations
<1>5. basis[q] \in [id : Nat, length : Nat] /\ basis[q].length <= seq[q]
  BY <1>2, RequestIs DEF RequestOK
<1>6. /\ Footprint(c.table) <= Footprint(table) + reservation[q].size
      /\ Cardinality(DOMAIN c.table) <= Cardinality(DOMAIN table) + 1
  <2>1. Footprint(c.table) \in Nat /\ Cardinality(DOMAIN c.table) \in Nat
    BY <1>3, FootprintIs
  <2> QED
    BY <1>3, <1>4, <2>1
<1> QED
  BY <1>2, <1>3, <1>4, <1>5, <1>6, ClosingReservation

----------------------------------------------------------------------------
(* A publication.                                                          *)

Copies(n, a, b) == [id : {n}, place : a + 1 .. b]

\* The pages copied for a checkpoint.
LEMMA CopiesAre ==
    ASSUME NEW n \in Nat, NEW a \in Nat, NEW b \in Nat, a <= b
    PROVE  /\ Copies(n, a, b) \in SUBSET Names /\ IsFiniteSet(Copies(n, a, b))
           /\ Cardinality(Copies(n, a, b)) = b - a
<1> DEFINE K == a + 1 .. b
           P == Copies(n, a, b)
           f == [k \in K |-> [id |-> n, place |-> k]]
<1>1. IsFiniteSet(K) /\ Cardinality(K) = b - a
  <2>1. IsFiniteSet(K) /\ Cardinality(K) = IF a + 1 > b THEN 0 ELSE b - (a + 1) + 1
    BY FS_Interval
  <2> QED
    BY <2>1
<1>2. \A p \in P : p.id = n /\ p.place \in K /\ p = [id |-> n, place |-> p.place]
  BY DEF Copies
<1>3. \A k \in K : [id |-> n, place |-> k] \in P
  BY DEF Copies
<1>4. f \in Injection(K, P) /\ f \in Surjection(K, P)
  <2>1. f \in [K -> P]
    BY <1>3
  <2>2. \A k, l \in K : f[k] = f[l] => k = l
    <3>1. ASSUME NEW k \in K, NEW l \in K, f[k] = f[l] PROVE k = l
      <4>1. f[k].place = k /\ f[l].place = l
        OBVIOUS
      <4> QED
        BY <3>1, <4>1
    <3> QED
      BY <3>1
  <2>3. \A p \in P : \E k \in K : f[k] = p
    BY <1>2
  <2> HIDE DEF f, P, K
  <2> QED
    BY <2>1, <2>2, <2>3 DEF Injection, IsInjective, Surjection
<1>5. IsFiniteSet(P) /\ Cardinality(P) = Cardinality(K)
  <2> HIDE DEF f, P, K
  <2> QED
    BY <1>1, <1>4, FS_Surjection
<1>6. P \in SUBSET Names
  BY DEF Copies, Names
<1> QED
  BY <1>1, <1>5, <1>6

\* What a writer shares is what its ancestor has.
LEMMA SharedIs ==
    ASSUME IInv, NEW q \in Requests, phase[q] = "writing"
    PROVE  LET r == reservation[q] IN
           /\ r.start \in Nat /\ r.start <= seq[q] /\ seq[q] <= Len(Prompt[q])
           /\ r.size = CheckpointBytes(seq[q] - r.start, seq[q])
           /\ r.segments \in SUBSET Names /\ IsFiniteSet(r.segments)
           /\ r.segments \subseteq PagesOf(table)
           /\ Cardinality(r.segments) = r.start /\ {p.place : p \in r.segments} = 1..r.start
           /\ \A p \in r.segments : p.id <= next_id
           /\ r.segments # {} => /\ reader[q] \in DOMAIN table
                                 /\ table[reader[q]].segments = r.segments
                                 /\ table[reader[q]].tokens = SubSeq(Prompt[q], 1, r.start)
<1>1. PICK r : r = reservation[q]
  OBVIOUS
<1>2. WriterOK(q) /\ seq[q] <= Len(Prompt[q])
  BY RequestIs DEF RequestOK
<1>3. r \in Reservations /\ r.start \in Nat /\ r.segments \in SUBSET Names
  BY <1>1, RequestIs DEF Reservations
<1>4. /\ r.start <= seq[q] /\ r.size = CheckpointBytes(seq[q] - r.start, seq[q])
      /\ reader[q] = 0 => r.start = 0 /\ r.segments = {}
      /\ reader[q] # 0 => /\ r.start = Len(table[reader[q]].tokens)
                          /\ r.segments = table[reader[q]].segments
                          /\ table[reader[q]].tokens = SubSeq(Prompt[q], 1, r.start)
  BY <1>1, <1>2 DEF WriterOK
<1>5. CASE reader[q] = 0
  <2>1. r.start = 0 /\ r.segments = {}
    BY <1>4, <1>5
  <2>2. Cardinality(r.segments) = 0 /\ IsFiniteSet(r.segments)
    BY <2>1, FS_EmptySet
  <2>3. {p.place : p \in r.segments} = {} /\ 1..r.start = {}
    BY <2>1
  <2>4. /\ IsFiniteSet(r.segments) /\ r.segments \subseteq PagesOf(table)
        /\ Cardinality(r.segments) = r.start /\ {p.place : p \in r.segments} = 1..r.start
        /\ \A p \in r.segments : p.id <= next_id
    BY <2>1, <2>2, <2>3
  <2> QED
    BY <1>1, <1>2, <1>3, <1>4, <2>1, <2>4
<1>6. CASE reader[q] # 0
  <2>1. reader[q] \in DOMAIN table
    BY <1>6, RequestIs
  <2>2. /\ IsFiniteSet(table[reader[q]].segments)
        /\ {p.place : p \in table[reader[q]].segments} = 1..Len(table[reader[q]].tokens)
        /\ Cardinality(table[reader[q]].segments) = Len(table[reader[q]].tokens)
        /\ \A p \in table[reader[q]].segments : p.id <= next_id
    <3>1. IsFiniteSet(Cache.table[reader[q]].segments)
      BY <2>1, TablesAre, SnapshotIs
    <3>2. SharedPagesAgree /\ Numbered
      BY DEF IInv
    <3> QED
      BY <2>1, <3>1, <3>2, TablesAre DEF SharedPagesAgree, Numbered
  <2>3. r.segments \subseteq PagesOf(table)
    BY <1>4, <1>6, <2>1 DEF PagesOf
  <2> QED
    BY <1>1, <1>2, <1>3, <1>4, <1>6, <2>1, <2>2, <2>3
<1> QED
  BY <1>5, <1>6

\* What a writer publishes is a checkpoint with every page once.
LEMMA SnapshotFits ==
    ASSUME IInv, NEW q \in Requests, phase[q] = "writing",
           NEW n, n = next_id + 1, NEW s, s = Snapshot(q, n)
    PROVE  /\ s \in Snapshots /\ s.readers = 0 /\ s.epoch = reservation[q].epoch
           /\ s.tokens = SubSeq(Prompt[q], 1, seq[q]) /\ Len(s.tokens) = seq[q]
           /\ s.segments = reservation[q].segments \cup Copies(n, reservation[q].start, seq[q])
           /\ {p.place : p \in s.segments} = 1..seq[q] /\ Cardinality(s.segments) = seq[q]
           /\ \A p \in s.segments : p.id <= n
<1>1. PICK r : r = reservation[q]
  OBVIOUS
<1>2. PICK a, b : a = r.start /\ b = seq[q]
  OBVIOUS
<1>3. PICK P : P = Copies(n, a, b)
  OBVIOUS
<1>4. /\ a \in Nat /\ b \in Nat /\ n \in Nat /\ next_id \in Nat /\ a <= b /\ b <= Len(Prompt[q])
      /\ Prompt[q] \in Seq(Content) /\ r.epoch \in Nat
  <2>1. next_id \in Nat /\ r \in Reservations
    BY <1>1, RequestIs DEF IInv, TypeOK
  <2> QED
    BY <1>1, <1>2, <2>1, RequestIs, SharedIs DEF Reservations
<1>5. /\ r.segments \in SUBSET Names /\ IsFiniteSet(r.segments) /\ Cardinality(r.segments) = a
      /\ {p.place : p \in r.segments} = 1..a /\ \A p \in r.segments : p.id <= next_id
  BY <1>1, <1>2, SharedIs
<1>6. /\ P \in SUBSET Names /\ IsFiniteSet(P) /\ Cardinality(P) = b - a
      /\ \A p \in P : p.id = n /\ p.place \in a + 1 .. b
      /\ \A k \in a + 1 .. b : \E p \in P : p.place = k
  <2>1. P \in SUBSET Names /\ IsFiniteSet(P) /\ Cardinality(P) = b - a
    BY <1>3, <1>4, CopiesAre
  <2>2. \A p \in P : p.id = n /\ p.place \in a + 1 .. b
    BY <1>3 DEF Copies
  <2>3. \A k \in a + 1 .. b : \E p \in P : p.place = k
    <3>1. ASSUME NEW k \in a + 1 .. b PROVE \E p \in P : p.place = k
      <4>1. [id |-> n, place |-> k] \in P /\ [id |-> n, place |-> k].place = k
        BY <1>3 DEF Copies
      <4> QED
        BY <4>1
    <3> QED
      BY <3>1
  <2> QED
    BY <2>1, <2>2, <2>3
<1>7. /\ s.readers = 0 /\ s.epoch = r.epoch /\ s.tokens = SubSeq(Prompt[q], 1, b)
      /\ s.segments = r.segments \cup P
      /\ s = [epoch |-> r.epoch, tokens |-> s.tokens, readers |-> 0, segments |-> s.segments]
  BY <1>1, <1>2, <1>3 DEF Snapshot, Copied, Copies
<1>8. s.tokens \in Seq(Content) /\ Len(s.tokens) = b
  <2>1. PICK t : t = Prompt[q]
    OBVIOUS
  <2>2. t \in Seq(Content) /\ b \in Nat /\ b <= Len(t)
    BY <1>4, <2>1
  <2>3. SubSeq(t, 1, b) \in Seq(Content) /\ Len(SubSeq(t, 1, b)) = b
    BY <2>2, BeginningIs
  <2> QED
    BY <1>7, <2>1, <2>3
<1>9. s.segments \in FiniteSubsetsOf(Names) /\ Cardinality(s.segments) = b
  <2>1. r.segments \cap P = {}
    <3> SUFFICES ASSUME NEW p \in r.segments, p \in P PROVE FALSE
      OBVIOUS
    <3>1. p.id <= next_id /\ p.id = n
      BY <1>5, <1>6
    <3> QED
      BY <1>4, <3>1
  <2>2. /\ IsFiniteSet(r.segments \cup P)
        /\ Cardinality(r.segments \cup P)
              = Cardinality(r.segments) + Cardinality(P) - Cardinality(r.segments \cap P)
    BY <1>5, <1>6, FS_Union
  <2>3. Cardinality(r.segments \cap P) = 0
    BY <2>1, FS_EmptySet
  <2>4. Cardinality(r.segments \cup P) = b
    BY <1>4, <1>5, <1>6, <2>2, <2>3
  <2> QED
    BY <1>5, <1>6, <1>7, <2>2, <2>4 DEF FiniteSubsetsOf
<1>10. {p.place : p \in s.segments} = 1..b
  <2>1. ASSUME NEW p \in s.segments PROVE p.place \in 1..b
    <3>1. p.place \in 1..a \/ p.place \in a + 1 .. b
      BY <1>5, <1>6, <1>7
    <3> QED
      BY <1>4, <3>1
  <2>2. ASSUME NEW k \in 1..b PROVE \E p \in s.segments : p.place = k
    <3>1. CASE k \in 1..a
      BY <1>5, <1>7, <3>1
    <3>2. CASE k \notin 1..a
      <4>1. k \in a + 1 .. b
        BY <1>4, <3>2
      <4> QED
        BY <1>6, <1>7, <4>1
    <3> QED
      BY <3>1, <3>2
  <2> QED
    BY <2>1, <2>2
<1>11. \A p \in s.segments : p.id <= n
  <2>1. ASSUME NEW p \in s.segments PROVE p.id <= n
    <3>1. CASE p \in P
      BY <1>4, <1>6, <3>1
    <3>2. CASE p \in r.segments
      <4>1. p.id \in Nat /\ p.id <= next_id
        BY <1>5, <3>2 DEF Names
      <4> QED
        BY <1>4, <4>1
    <3> QED
      BY <1>7, <3>1, <3>2
  <2> QED
    BY <2>1
<1>12. s \in Snapshots
  BY <1>4, <1>7, <1>8, <1>9 DEF Snapshots
<1> QED
  BY <1>1, <1>2, <1>3, <1>7, <1>8, <1>9, <1>10, <1>11, <1>12

\* What is held grows by no more than was reserved.
LEMMA GrowthFits ==
    ASSUME IInv, NEW q \in Requests, phase[q] = "writing"
    PROVE  /\ Footprint(Extended(q)) \in Int /\ Footprint(table) \in Nat
           /\ Growth(q) = Footprint(Extended(q)) - Footprint(table)
           /\ Growth(q) <= reservation[q].size
<1>1. PICK r, n, e : r = reservation[q] /\ n = next_id + 1 /\ e = Extended(q)
  OBVIOUS
<1>2. PICK s : s = Snapshot(q, n)
  OBVIOUS
<1>3. PICK a, b : a = r.start /\ b = seq[q]
  OBVIOUS
<1>4. PICK P : P = Copies(n, a, b)
  OBVIOUS
<1>5. /\ e = [id \in DOMAIN table \cup {n} |-> IF id = n THEN s ELSE table[id]]
      /\ DOMAIN e = DOMAIN table \cup {n} /\ e[n] = s
      /\ \A id \in DOMAIN table : id # n => e[id] = table[id]
  <2>1. e = [id \in DOMAIN table \cup {n} |-> IF id = n THEN Snapshot(q, id) ELSE table[id]]
    BY <1>1 DEF Extended
  <2>2. \A id : (IF id = n THEN Snapshot(q, id) ELSE table[id]) = (IF id = n THEN s ELSE table[id])
    BY <1>2
  <2> QED
    BY <2>1, <2>2
<1>6. n \notin DOMAIN table /\ n \in Nat
  <2>1. Numbered /\ next_id \in Nat
    BY DEF IInv, TypeOK
  <2>2. ASSUME n \in DOMAIN table PROVE FALSE
    <3>1. n <= next_id
      BY <2>1, <2>2 DEF Numbered
    <3> QED
      BY <1>1, <2>1, <3>1
  <2> QED
    BY <1>1, <2>1, <2>2
<1>7. /\ Len(s.tokens) = b /\ s.segments = r.segments \cup P
  BY <1>1, <1>2, <1>3, <1>4, SnapshotFits
<1>8. /\ a \in Nat /\ b \in Nat /\ a <= b /\ r.size = CheckpointBytes(b - a, b)
      /\ r.segments \subseteq PagesOf(table)
  BY <1>1, <1>3, RequestIs, SharedIs
<1>9. /\ Footprint(table) = SumFunction(Costs(table)) + PageBytes * Cardinality(PagesOf(table))
      /\ DOMAIN Costs(table) = DOMAIN table /\ IsFiniteSet(DOMAIN table)
      /\ \A id \in DOMAIN table : Costs(table)[id] \in Nat
      /\ SumFunction(Costs(table)) \in Nat
      /\ IsFiniteSet(PagesOf(table)) /\ Cardinality(PagesOf(table)) \in Nat
      /\ Footprint(table) \in Nat
  <2>1. PICK c, held : c = Cache /\ held = reader
    OBVIOUS
  <2>2. CacheOK(c, held) /\ c.table = table
    BY <2>1, TablesAre
  <2>3. /\ Footprint(c.table) = SumFunction(Costs(c.table)) + PageBytes * Cardinality(PagesOf(c.table))
        /\ DOMAIN Costs(c.table) = DOMAIN c.table /\ IsFiniteSet(DOMAIN c.table)
        /\ \A id \in DOMAIN c.table : Costs(c.table)[id] \in Nat
        /\ SumFunction(Costs(c.table)) \in Nat
        /\ IsFiniteSet(PagesOf(c.table)) /\ Cardinality(PagesOf(c.table)) \in Nat
        /\ Footprint(c.table) \in Nat
    BY <2>2, FootprintIs
  <2> QED
    BY <2>2, <2>3
<1>10. SumFunction(Costs(e)) \in Nat /\ SumFunction(Costs(e)) = SumFunction(Costs(table)) + Own(b)
  <2>1. DOMAIN Costs(e) = DOMAIN Costs(table) \cup {n} /\ n \notin DOMAIN Costs(table)
    BY <1>5, <1>6, <1>9 DEF Costs
  <2>2. Costs(e)[n] = Own(b) /\ Own(b) \in Nat
    BY <1>5, <1>7, <1>8, OwnIs DEF Costs
  <2>3. \A id \in DOMAIN Costs(table) : Costs(table)[id] = Costs(e)[id]
    BY <1>5, <1>6, <1>9 DEF Costs
  <2>4. \A id \in DOMAIN Costs(e) : Costs(e)[id] \in Nat
    BY <1>9, <2>1, <2>2, <2>3
  <2> QED
    BY <1>9, <2>1, <2>2, <2>3, <2>4, SumAdd
<1>11. IsFiniteSet(P) /\ Cardinality(P) = b - a
  BY <1>4, <1>6, <1>8, CopiesAre
<1>12. Cardinality(PagesOf(e)) \in Nat /\ Cardinality(PagesOf(e)) <= Cardinality(PagesOf(table)) + (b - a)
  <2>1. PagesOf(e) = PagesOf(table) \cup P
    <3>1. PagesOf(e) = PagesOf(table) \cup s.segments
      <4>1. \A id \in DOMAIN table : e[id].segments = table[id].segments
        BY <1>5, <1>6
      <4>2. DOMAIN e = DOMAIN table \cup {n} /\ e[n] = s
        BY <1>5
      <4>3. PICK t : t = table
        OBVIOUS
      <4>4. /\ DOMAIN e = DOMAIN t \cup {n}
            /\ \A id \in DOMAIN t : e[id].segments = t[id].segments
        BY <4>1, <4>2, <4>3
      <4>5. PagesOf(e) = PagesOf(t) \cup e[n].segments
        BY <4>4, PagesOfMore
      <4> QED
        BY <4>2, <4>3, <4>5
    <3>2. PICK T : T = PagesOf(table)
      OBVIOUS
    <3>3. s.segments = r.segments \cup P /\ r.segments \subseteq T
      BY <1>7, <1>8, <3>2
    <3>4. T \cup s.segments = T \cup P
      BY <3>3, Zenon
    <3> QED
      BY <3>1, <3>2, <3>4, Zenon
  <2>2. IsFiniteSet(PagesOf(table) \cap P)
    BY <1>11, FS_Intersection
  <2>3. Cardinality(PagesOf(table) \cap P) \in Nat
    BY <2>2, FS_CardinalityType
  <2>4. /\ IsFiniteSet(PagesOf(table) \cup P)
        /\ Cardinality(PagesOf(table) \cup P)
              = Cardinality(PagesOf(table)) + Cardinality(P) - Cardinality(PagesOf(table) \cap P)
    BY <1>9, <1>11, FS_Union
  <2>5. Cardinality(PagesOf(table) \cup P) \in Nat
    BY <2>4, FS_CardinalityType
  <2> QED
    BY <1>8, <1>9, <1>11, <2>1, <2>3, <2>4, <2>5
<1>13. Footprint(e) = SumFunction(Costs(e)) + PageBytes * Cardinality(PagesOf(e))
  BY DEF Footprint, Costs, PagesOf
<1>14. PICK u, v, w, x :
          /\ u = Cardinality(PagesOf(e)) /\ v = Cardinality(PagesOf(table))
          /\ w = SumFunction(Costs(table)) /\ x = Own(b)
  OBVIOUS
<1>15. /\ u \in Nat /\ v \in Nat /\ w \in Nat /\ x \in Nat /\ u <= v + (b - a)
       /\ Footprint(e) = (w + x) + PageBytes * u /\ Footprint(table) = w + PageBytes * v
       /\ r.size = (b - a) * PageBytes + x
  BY <1>8, <1>9, <1>10, <1>12, <1>13, <1>14, OwnIs DEF CheckpointBytes
<1>16. PageBytes * u <= PageBytes * v + (b - a) * PageBytes
  <2>1. PICK k \in Nat : k = b - a
    BY <1>8
  <2>2. PageBytes \in Nat
    BY BytesAssumption
  <2>3. PageBytes * u <= PageBytes * (v + k)
    BY <1>15, <2>1, <2>2
  <2>4. PageBytes * (v + k) = PageBytes * v + k * PageBytes
    BY <1>15, <2>2
  <2> QED
    BY <2>1, <2>3, <2>4
<1>17. /\ PageBytes * u \in Nat /\ PageBytes * v \in Nat /\ (b - a) * PageBytes \in Nat
  <2>1. PageBytes \in Nat /\ b - a \in Nat
    BY <1>8, BytesAssumption
  <2> QED
    BY <1>15, <2>1
<1>18. Footprint(e) \in Int /\ Footprint(e) - Footprint(table) <= r.size
  BY <1>15, <1>16, <1>17
<1> QED
  BY <1>1, <1>9, <1>18 DEF Growth

\* Two beginnings of one sequence agree up to a place that both have.
LEMMA Beginnings ==
    ASSUME NEW S, NEW s \in Seq(S), NEW a \in 0..Len(s), NEW b \in 0..Len(s), NEW k \in 1..a, a <= b
    PROVE  SubSeq(SubSeq(s, 1, a), 1, k) = SubSeq(SubSeq(s, 1, b), 1, k)
<1>1. Len(s) \in Nat /\ a \in 1..Len(s) /\ b \in 1..Len(s) /\ k \in 1..b
  <2>1. Len(s) \in Nat
    OBVIOUS
  <2> QED
    BY <2>1
<1>2. ASSUME NEW c \in 1..Len(s), k \in 1..c
      PROVE  SubSeq(SubSeq(s, 1, c), 1, k) = SubSeq(s, 1, k)
  <2>1. 1 \in 1..Len(s) /\ 1 \in 1..(c - 1 + 1) /\ k \in 1..(c - 1 + 1) /\ 1 + 1 - 1 = 1 /\ 1 + k - 1 = k
    BY <1>1, <1>2
  <2>2. SubSeq(SubSeq(s, 1, c), 1, k) = SubSeq(s, 1 + 1 - 1, 1 + k - 1)
    BY <2>1, SubSeqOfSubSeq
  <2> QED
    BY <2>1, <2>2
<1> QED
  BY <1>1, <1>2

\* publish: the new checkpoint is the next in number, and takes no more than was
\* reserved for it.
LEMMA PublishStep ==
    ASSUME IInv, NEW q \in Requests, Publish(q)
    PROVE  IInv'
<1>1. PICK r, n, e : r = reservation[q] /\ n = next_id + 1 /\ e = Extended(q)
  OBVIOUS
<1>2. PICK s : s = Snapshot(q, n)
  OBVIOUS
<1>3. PICK c : c = [entries |-> Append(entries, n), table |-> e]
  OBVIOUS
<1>4. /\ phase[q] = "writing" /\ r.epoch = epoch /\ Growth(q) <= r.size
      /\ next_id' = n /\ basis' = [basis EXCEPT ![q] = [id |-> n, length |-> seq[q]]]
      /\ CloseReservation(q, c) /\ UNCHANGED <<epoch, seq, prefix_epoch>>
  BY <1>1, <1>3 DEF Publish, Publishable
<1>5. /\ DOMAIN e = DOMAIN table \cup {n} /\ e = [id \in DOMAIN e |-> e[id]] /\ e[n] = s
      /\ \A id \in DOMAIN table : id # n => e[id] = table[id]
  BY <1>1, <1>2 DEF Extended
<1>6. n \notin DOMAIN table /\ n \in Nat \ {0} /\ next_id \in Nat
  <2>1. Numbered /\ next_id \in Nat
    BY DEF IInv, TypeOK
  <2>2. ASSUME n \in DOMAIN table PROVE FALSE
    <3>1. n <= next_id
      BY <2>1, <2>2 DEF Numbered
    <3> QED
      BY <1>1, <2>1, <3>1
  <2> QED
    BY <1>1, <2>1, <2>2
<1>7. /\ s \in Snapshots /\ s.readers = 0 /\ s.epoch = epoch
      /\ s.tokens = SubSeq(Prompt[q], 1, seq[q]) /\ Len(s.tokens) = seq[q]
      /\ s.segments = r.segments \cup Copies(n, r.start, seq[q])
      /\ {p.place : p \in s.segments} = 1..seq[q] /\ Cardinality(s.segments) = seq[q]
      /\ \A p \in s.segments : p.id <= n
  BY <1>1, <1>2, <1>4, SnapshotFits
<1>8. PICK D : D = DOMAIN table
  OBVIOUS
<1>9. /\ entries \in Seq(D) /\ Once(entries) /\ IsFiniteSet(D) /\ D \subseteq Nat \ {0}
      /\ table \in [D -> Snapshots] /\ reader \in [Requests -> Nat]
      /\ \A p \in Requests : reader[p] # 0 => reader[p] \in D
      /\ \A id \in D : /\ table[id].readers = Cardinality(Readers(reader, id))
                       /\ Has(entries, id) \/ table[id].readers > 0
  BY <1>8, TablesAre DEF CacheOK, Listed
<1>10. c.entries = Append(entries, n) /\ c.table = e /\ c = [entries |-> c.entries, table |-> c.table]
  BY <1>3
<1>11. /\ c.entries \in Seq(D \cup {n}) /\ DOMAIN c.entries = 1..(Len(entries) + 1)
       /\ Len(entries) \in Nat /\ DOMAIN entries = 1..Len(entries)
       /\ c.entries[Len(entries) + 1] = n /\ \A i \in DOMAIN entries : c.entries[i] = entries[i]
  <2>1. entries \in Seq(D \cup {n}) /\ n \in D \cup {n}
    BY <1>9, SeqMonotonic
  <2> QED
    BY <1>10, <2>1, AppendProperties, LenProperties
<1>12. Once(c.entries)
  <2>1. ASSUME NEW i \in DOMAIN c.entries, NEW j \in DOMAIN c.entries, c.entries[i] = c.entries[j]
        PROVE  i = j
    <3>1. /\ i \in DOMAIN entries \/ i = Len(entries) + 1
          /\ j \in DOMAIN entries \/ j = Len(entries) + 1
      BY <1>11
    <3>2. \A k \in DOMAIN entries : entries[k] # n
      BY <1>6, <1>8, <1>9
    <3> QED
      BY <1>9, <1>11, <2>1, <3>1, <3>2 DEF Once
  <2> QED
    BY <2>1 DEF Once
<1>13. \A x : Has(entries, x) => Has(c.entries, x)
  <2>1. DOMAIN entries \subseteq DOMAIN c.entries
    BY <1>11
  <2> QED
    BY <1>11, <2>1 DEF Has
<1>14. ASSUME NEW id \in DOMAIN e
       PROVE  /\ e[id] \in Snapshots /\ e[id].readers = Cardinality(Readers(reader, id))
              /\ Has(c.entries, id) \/ e[id].readers > 0
  <2>1. CASE id = n
    <3>1. Readers(reader, n) = {}
      BY <1>6, <1>8, <1>9 DEF Readers
    <3>2. Cardinality(Readers(reader, n)) = 0
      BY <3>1, FS_EmptySet
    <3>3. Len(entries) + 1 \in DOMAIN c.entries
      BY <1>11
    <3> QED
      BY <1>5, <1>7, <1>11, <2>1, <3>2, <3>3 DEF Has
  <2>2. CASE id # n
    <3>1. id \in D /\ e[id] = table[id]
      BY <1>5, <1>8, <2>2
    <3>2. table[id] \in Snapshots
      BY <1>9, <3>1
    <3>3. /\ table[id].readers = Cardinality(Readers(reader, id))
          /\ Has(entries, id) \/ table[id].readers > 0
      BY <1>9, <3>1
    <3>4. Has(entries, id) => Has(c.entries, id)
      BY <1>13
    <3> QED
      BY <3>1, <3>2, <3>3, <3>4
  <2> QED
    BY <2>1, <2>2
<1>15. CacheOK(c, reader)
  <2>1. IsFiniteSet(DOMAIN e) /\ DOMAIN e \subseteq Nat \ {0} /\ DOMAIN e = D \cup {n}
    <3>1. DOMAIN e = D \cup {n}
      BY <1>5, <1>8
    <3>2. IsFiniteSet(D \cup {n})
      BY <1>9, FS_AddElement
    <3>3. D \cup {n} \subseteq Nat \ {0}
      BY <1>6, <1>9
    <3> QED
      BY <3>1, <3>2, <3>3
  <2>2. e \in [DOMAIN e -> Snapshots]
    BY <1>5, <1>14
  <2>3. c.entries \in Seq(DOMAIN e)
    BY <1>11, <2>1
  <2>4. \A p \in Requests : reader[p] # 0 => reader[p] \in DOMAIN e
    BY <1>9, <2>1
  <2>5. \A id \in DOMAIN c.table :
          /\ c.table[id].readers = Cardinality(Readers(reader, id))
          /\ Listed(c, id) \/ c.table[id].readers > 0
    BY <1>10, <1>14 DEF Listed
  <2> QED
    BY <1>9, <1>10, <1>12, <2>1, <2>2, <2>3, <2>4, <2>5 DEF CacheOK
<1>16. Same(c, Cache)
  <2>1. Cache.table = table
    BY TablesAre
  <2> QED
    BY <1>5, <1>6, <1>10, <2>1 DEF Same
<1>17. EntriesOf(c, epoch)
  <2>1. EntriesOf(Cache, epoch) /\ Cache.table = table /\ Cache.entries = entries
    BY TablesAre
  <2>2. ASSUME NEW i \in DOMAIN c.entries PROVE e[c.entries[i]].epoch = epoch
    <3>1. CASE i \in DOMAIN entries
      <4>1. c.entries[i] = entries[i] /\ entries[i] \in DOMAIN table /\ entries[i] # n
        BY <1>6, <1>8, <1>9, <1>11, <3>1
      <4> QED
        BY <1>5, <2>1, <3>1, <4>1 DEF EntriesOf
    <3>2. CASE i = Len(entries) + 1
      BY <1>5, <1>7, <1>11, <3>2
    <3> QED
      BY <1>11, <3>1, <3>2
  <2> QED
    BY <1>10, <2>2 DEF EntriesOf
<1>18. NumberedIn(c.table, n)
  <2>1. ASSUME NEW id \in DOMAIN e PROVE id <= n /\ \A p \in e[id].segments : p.id <= n
    <3>1. CASE id = n
      BY <1>5, <1>6, <1>7, <3>1
    <3>2. CASE id # n
      <4>1. id \in DOMAIN table /\ e[id] = table[id]
        BY <1>5, <3>2
      <4>2. id <= next_id /\ \A p \in table[id].segments : p.id <= next_id
        BY <4>1 DEF IInv, Numbered
      <4>3. id \in Nat /\ \A p \in table[id].segments : p.id \in Nat
        BY <1>8, <1>9, <4>1 DEF Snapshots, FiniteSubsetsOf, Names
      <4> QED
        BY <1>1, <1>6, <4>1, <4>2, <4>3
    <3> QED
      BY <3>1, <3>2
  <2> QED
    BY <1>10, <2>1 DEF NumberedIn
<1>19. PagesAgree(c.table)
  <2>1. PagesAgree(table)
    BY TablesAre
  <2>2. ASSUME NEW id \in DOMAIN e
        PROVE  /\ {p.place : p \in e[id].segments} = 1..Len(e[id].tokens)
               /\ Cardinality(e[id].segments) = Len(e[id].tokens)
    <3>1. CASE id = n
      BY <1>5, <1>7, <3>1
    <3>2. CASE id # n
      BY <1>5, <2>1, <3>2 DEF PagesAgree
    <3> QED
      BY <3>1, <3>2
  <2>3. ASSUME NEW j \in DOMAIN table, NEW p \in s.segments \cap table[j].segments
        PROVE  SubSeq(s.tokens, 1, p.place) = SubSeq(table[j].tokens, 1, p.place)
    <3>1. p.id <= next_id /\ p.id # n
      <4>1. p.id <= next_id
        BY DEF IInv, Numbered
      <4> QED
        BY <1>1, <1>6, <4>1
    <3>2. p \in r.segments
      <4>1. p \notin Copies(n, r.start, seq[q])
        BY <3>1 DEF Copies
      <4> QED
        BY <1>7, <4>1
    <3>3. /\ reader[q] \in DOMAIN table /\ table[reader[q]].segments = r.segments
          /\ table[reader[q]].tokens = SubSeq(Prompt[q], 1, r.start)
          /\ r.start \in Nat /\ r.start <= seq[q] /\ seq[q] <= Len(Prompt[q])
          /\ {x.place : x \in r.segments} = 1..r.start
      BY <1>1, <1>4, <3>2, SharedIs
    <3>4. SubSeq(table[reader[q]].tokens, 1, p.place) = SubSeq(table[j].tokens, 1, p.place)
      BY <2>1, <3>2, <3>3 DEF PagesAgree
    <3>5. p.place \in 1..r.start
      BY <3>2, <3>3
    <3>6. SubSeq(SubSeq(Prompt[q], 1, r.start), 1, p.place) = SubSeq(SubSeq(Prompt[q], 1, seq[q]), 1, p.place)
      <4>1. PICK a, b, k : a = r.start /\ b = seq[q] /\ k = p.place
        OBVIOUS
      <4>2. /\ Prompt[q] \in Seq(Content) /\ a \in 0..Len(Prompt[q]) /\ b \in 0..Len(Prompt[q])
            /\ k \in 1..a /\ a <= b
        BY <3>3, <3>5, <4>1, RequestIs
      <4> QED
        BY <4>1, <4>2, Beginnings
    <3> QED
      BY <1>7, <3>3, <3>4, <3>6
  <2>4. ASSUME NEW i \in DOMAIN e, NEW j \in DOMAIN e, NEW p \in e[i].segments \cap e[j].segments
        PROVE  SubSeq(e[i].tokens, 1, p.place) = SubSeq(e[j].tokens, 1, p.place)
    <3>1. CASE i = n /\ j = n
      BY <3>1
    <3>2. CASE i = n /\ j # n
      <4>1. j \in DOMAIN table /\ e[j] = table[j] /\ e[i] = s
        BY <1>5, <3>2
      <4> QED
        BY <2>3, <4>1
    <3>3. CASE i # n /\ j = n
      <4>1. i \in DOMAIN table /\ e[i] = table[i] /\ e[j] = s
        BY <1>5, <3>3
      <4>2. p \in s.segments \cap table[i].segments
        BY <4>1
      <4> QED
        BY <2>3, <4>1, <4>2
    <3>4. CASE i # n /\ j # n
      <4>1. i \in DOMAIN table /\ e[i] = table[i]
        BY <1>5, <3>4
      <4>2. j \in DOMAIN table /\ e[j] = table[j]
        BY <1>5, <3>4
      <4>3. p \in table[i].segments \cap table[j].segments
        BY <4>1, <4>2
      <4>4. SubSeq(table[i].tokens, 1, p.place) = SubSeq(table[j].tokens, 1, p.place)
        BY <2>1, <4>1, <4>2, <4>3 DEF PagesAgree
      <4> QED
        BY <4>1, <4>2, <4>4
    <3> QED
      BY <3>1, <3>2, <3>3, <3>4
  <2>5. \A id \in DOMAIN e : /\ {p.place : p \in e[id].segments} = 1..Len(e[id].tokens)
                             /\ Cardinality(e[id].segments) = Len(e[id].tokens)
    BY <2>2
  <2>6. \A i, j \in DOMAIN e : \A p \in e[i].segments \cap e[j].segments :
            SubSeq(e[i].tokens, 1, p.place) = SubSeq(e[j].tokens, 1, p.place)
    BY <2>4
  <2>7. PagesAgree(e)
    BY <2>5, <2>6, Zenon DEF PagesAgree
  <2> QED
    BY <1>10, <2>7
<1>20. /\ Footprint(c.table) <= Footprint(table) + r.size
       /\ Cardinality(DOMAIN c.table) <= Cardinality(DOMAIN table) + 1
       /\ DOMAIN table \subseteq DOMAIN c.table
  <2>1. /\ Footprint(e) \in Int /\ Footprint(table) \in Nat /\ r.size \in Nat
        /\ Footprint(e) - Footprint(table) <= r.size
    <3>1. r \in Reservations
      BY <1>1, RequestIs
    <3> QED
      BY <1>1, <1>4, <3>1, GrowthFits DEF Reservations
  <2>2. Cardinality(DOMAIN e) = Cardinality(DOMAIN table) + 1 /\ Cardinality(DOMAIN table) \in Nat
    <3>1. DOMAIN e = D \cup {n} /\ n \notin D
      BY <1>5, <1>6, <1>8
    <3>2. Cardinality(D \cup {n}) = Cardinality(D) + 1
      BY <1>9, <3>1, FS_AddElement
    <3>3. Cardinality(D) \in Nat
      BY <1>9, FS_CardinalityType
    <3> QED
      BY <1>8, <3>1, <3>2, <3>3
  <2>3. Footprint(e) <= Footprint(table) + r.size
    BY <2>1
  <2> QED
    BY <1>5, <1>10, <2>2, <2>3
<1>21. PICK b : b = [id |-> n, length |-> seq[q]]
  OBVIOUS
<1>22. b \in [id : Nat, length : Nat] /\ b.length <= seq[q] /\ basis' = [basis EXCEPT ![q] = b]
  BY <1>4, <1>6, <1>21, RequestIs
<1>23. n \in Nat
  BY <1>6
<1> QED
  BY <1>1, <1>4, <1>15, <1>16, <1>17, <1>18, <1>19, <1>20, <1>22, <1>23, ClosingReservation

----------------------------------------------------------------------------
(* A reservation.                                                          *)

\* What a capture may look up; 0 is nothing.
LookedUp(q) == {0} \cup {id \in DOMAIN table : IsPrefix(table[id].tokens, Prompt[q])}

\* The lookups of a capture leave its ancestor held, if there is one, and have
\* moved nothing in the queue but what they found.
LEMMA AncestorIs ==
    ASSUME IInv, NEW q \in Requests, phase[q] = "boundary",
           NEW c, NEW id, c = Ancestor(q).cache, id = Ancestor(q).id
    PROVE  /\ CacheOK(c, [reader EXCEPT ![q] = id]) /\ Less(c, Cache) /\ id \in Nat
           /\ id # 0 => Found(c, id, epoch, Prompt[q], seq[q])
           /\ Along(c, Cache, LookedUp(q)) /\ id \in LookedUp(q)
<1>1. PICK c0, held, tokens, basis0 :
          c0 = Cache /\ held = reader /\ tokens = Prompt[q] /\ basis0 = basis[q]
  OBVIOUS
<1>2. PICK first : first = Best(c0, epoch, tokens, seq[q])
  OBVIOUS
<1>3. PICK c1, c2 : c1 = Acquired(c0, first) /\ c2 = Closed(c1, first)
  OBVIOUS
<1>4. PICK second : second = IF basis0.length = 0 THEN 0
                             ELSE Best(c2, epoch, tokens, basis0.length)
  OBVIOUS
<1>5. PICK c3 : c3 = Acquired(c2, second)
  OBVIOUS
<1>6. Ancestor(q) = IF first = basis0.id THEN [cache |-> c1, id |-> first]
                    ELSE IF second = basis0.id THEN [cache |-> c3, id |-> second]
                    ELSE [cache |-> Closed(c3, second), id |-> 0]
  BY <1>1, <1>2, <1>3, <1>4, <1>5 DEF Ancestor, Previous
<1>7. /\ CacheOK(c0, held) /\ held \in [Requests -> Nat] /\ held[q] = 0 /\ seq[q] \in Nat
      /\ basis0.length \in Nat /\ basis0.length <= seq[q]
  BY <1>1, RequestIs, TablesAre DEF RequestOK
<1>8. /\ CacheOK(c1, [held EXCEPT ![q] = first]) /\ Less(c1, c0) /\ first \in Nat
      /\ Along(c1, c0, {first})
      /\ first # 0 => Found(c1, first, epoch, tokens, seq[q])
  BY <1>2, <1>3, <1>7, LookupIs
<1>9. CacheOK(c2, held) /\ Less(c2, c1) /\ c2.entries = c1.entries
  <2>1. PICK h : h = [held EXCEPT ![q] = first]
    OBVIOUS
  <2>2. h[q] = first /\ Emptied(h, q) = held
    BY <1>7, <2>1 DEF Emptied
  <2> QED
    <3>1. CacheOK(Closed(c1, h[q]), Emptied(h, q)) /\ Less(Closed(c1, h[q]), c1)
      BY <1>8, <2>1, CloseIs
    <3>2. Closed(c1, h[q]).entries = c1.entries
      BY <1>8, <2>1, CloseIs
    <3> QED
      BY <1>3, <2>2, <3>1, <3>2
<1>10. /\ CacheOK(c3, [held EXCEPT ![q] = second]) /\ Less(c3, c2) /\ second \in Nat
       /\ Along(c3, c2, {second})
       /\ second # 0 => Found(c3, second, epoch, tokens, basis0.length)
  <2>1. CASE basis0.length = 0
    <3>1. second = 0
      BY <1>4, <2>1
    <3> QED
      BY <1>5, <1>7, <1>9, <3>1, AcquireIs, AcquireAlong
  <2>2. CASE basis0.length # 0
    <3>1. PICK cap \in Nat : cap = basis0.length
      BY <1>7
    <3>2. second = Best(c2, epoch, tokens, cap)
      BY <1>4, <2>2, <3>1
    <3> QED
      BY <1>5, <1>7, <1>9, <3>1, <3>2, LookupIs
  <2> QED
    BY <2>1, <2>2
<1>11. /\ CacheOK(Closed(c3, second), held) /\ Less(Closed(c3, second), c3)
       /\ Closed(c3, second).entries = c3.entries
  <2>1. PICK h : h = [held EXCEPT ![q] = second]
    OBVIOUS
  <2>2. h[q] = second /\ Emptied(h, q) = held
    BY <1>7, <2>1 DEF Emptied
  <2> QED
    <3>1. CacheOK(Closed(c3, h[q]), Emptied(h, q)) /\ Less(Closed(c3, h[q]), c3)
      BY <1>10, <2>1, CloseIs
    <3>2. Closed(c3, h[q]).entries = c3.entries
      BY <1>10, <2>1, CloseIs
    <3> QED
      BY <2>2, <3>1, <3>2
<1>12. first \in LookedUp(q) /\ second \in LookedUp(q) /\ 0 \in LookedUp(q)
  <2>1. Less(c1, c0) /\ Less(c3, c0)
    BY <1>8, <1>9, <1>10, LessIsOrdered
  <2>2. ASSUME first # 0
        PROVE  first \in DOMAIN table /\ IsPrefix(table[first].tokens, Prompt[q])
    BY <1>1, <1>8, <2>1, <2>2 DEF Found, Less, Cache
  <2>3. ASSUME second # 0
        PROVE  second \in DOMAIN table /\ IsPrefix(table[second].tokens, Prompt[q])
    BY <1>1, <1>10, <2>1, <2>3 DEF Found, Less, Cache
  <2> QED
    BY <2>2, <2>3 DEF LookedUp
<1>13. Along(c1, c0, LookedUp(q)) /\ Along(c3, c0, LookedUp(q))
  <2>1. {first} \subseteq LookedUp(q) /\ {second} \subseteq LookedUp(q)
    BY <1>12
  <2>2. Along(c1, c0, LookedUp(q)) /\ Along(c3, c2, LookedUp(q))
    BY <1>8, <1>10, <2>1, AlongIs
  <2>3. Along(c2, c1, LookedUp(q))
    BY <1>9, AlongIs
  <2> QED
    BY <2>2, <2>3, AlongIs
<1>14. CASE first = basis0.id
  <2>1. c = c1 /\ id = first
    BY <1>6, <1>14
  <2> QED
    BY <1>1, <1>8, <1>12, <1>13, <2>1
<1>15. CASE first # basis0.id /\ second = basis0.id
  <2>1. c = c3 /\ id = second
    BY <1>6, <1>15
  <2>2. Less(c3, c0)
    BY <1>8, <1>9, <1>10, LessIsOrdered
  <2>3. ASSUME second # 0 PROVE Found(c3, second, epoch, tokens, seq[q])
    <3>1. Found(c3, second, epoch, tokens, basis0.length)
      BY <1>10, <2>3
    <3>2. Length(c3, second) \in Nat
      <4>1. second \in DOMAIN c3.table
        BY <3>1 DEF Found
      <4> QED
        BY <1>10, <4>1, SnapshotIs DEF Length
    <3> QED
      BY <1>7, <3>1, <3>2 DEF Found
  <2> QED
    BY <1>1, <1>10, <1>12, <1>13, <2>1, <2>2, <2>3
<1>16. CASE first # basis0.id /\ second # basis0.id
  <2>1. c = Closed(c3, second) /\ id = 0
    BY <1>6, <1>16
  <2>2. Less(c, c0)
    BY <1>8, <1>9, <1>10, <1>11, <2>1, LessIsOrdered
  <2>3. [held EXCEPT ![q] = 0] = held
    BY <1>7
  <2>4. Along(c, c0, LookedUp(q))
    BY <1>11, <1>13, <2>1, AlongIs
  <2> QED
    BY <1>1, <1>11, <1>12, <2>1, <2>2, <2>3, <2>4
<1> QED
  BY <1>14, <1>15, <1>16

\* What is pending once there is a writer more.
LEMMA PendingMore ==
    ASSUME IInv, NEW q \in Requests, phase[q] # "writing",
           NEW r \in Reservations, reservation' = [reservation EXCEPT ![q] = r],
           phase' = [phase EXCEPT ![q] = "writing"],
           pending_bytes' = pending_bytes + r.size, pending_entries' = pending_entries + 1
    PROVE  Pending'
<1> DEFINE W == Writers \cup {q}
           f == [p \in Writers |-> reservation[p].size]
           k == [p \in W |-> reservation'[p].size]
<1>1. q \notin Writers /\ Writers \in SUBSET Requests
  BY DEF Writers
<1>2. IsFiniteSet(Writers)
  BY <1>1, PromptAssumption, FS_Subset
<1>3. reservation \in [Requests -> Reservations] /\ phase \in [Requests -> Phases]
  BY DEF IInv, TypeOK
<1>4. /\ reservation'[q] = r /\ r.size \in Nat
      /\ \A p \in Writers : reservation'[p] = reservation[p] /\ reservation[p].size \in Nat
  BY <1>1, <1>3 DEF Reservations
<1>5. /\ DOMAIN f = Writers /\ DOMAIN k = DOMAIN f \cup {q} /\ q \notin DOMAIN f
      /\ \A p \in DOMAIN k : k[p] \in Nat
      /\ \A p \in DOMAIN f : f[p] = k[p]
      /\ k[q] = r.size
  BY <1>1, <1>4
<1>6. pending_bytes = SumFunction(f) /\ pending_entries = Cardinality(Writers)
  BY DEF IInv, Pending
<1>7. Writers' = W
  BY <1>3 DEF Writers
<1> HIDE DEF f
<1>8. k = [p \in W |-> reservation'[p].size]
  OBVIOUS
<1> HIDE DEF k
<1>9. SumFunction(k) = SumFunction(f) + k[q]
  BY <1>2, <1>5, SumAdd
<1>10. Cardinality(W) = Cardinality(Writers) + 1
  BY <1>1, <1>2, FS_AddElement
<1> HIDE DEF W
<1>11. pending_bytes' = SumFunction(k) /\ pending_entries' = Cardinality(W)
  BY <1>5, <1>6, <1>9, <1>10
<1> QED
  BY <1>7, <1>8, <1>11, PendingNext

\* A capture looks up, evicts, and reserves or gives up: what it evicts is read by
\* nobody, and what it reserves fits beside all that is held and reserved.
LEMMA CaptureStep ==
    ASSUME IInv, NEW q \in Requests, Capture(q)
    PROVE  IInv'
<1>1. PICK c, id : c = Ancestor(q).cache /\ id = Ancestor(q).id
  OBVIOUS
<1>2. PICK start, n : start = (IF id = 0 THEN 0 ELSE Length(c, id)) /\ n = seq[q]
  OBVIOUS
<1>3. PICK size : size = CheckpointBytes(n - start, n)
  OBVIOUS
<1>4. PICK room : room = IF size > Budget THEN c ELSE Evicted(c, Evictions(c, size))
  OBVIOUS
<1>5. PICK r : r = [size |-> size, epoch |-> epoch, start |-> start,
                    segments |-> IF id = 0 THEN {} ELSE c.table[id].segments]
  OBVIOUS
<1>6. /\ phase[q] = "boundary"
      /\ UNCHANGED <<epoch, next_id, seq, basis, prefix_epoch>>
      /\ IF size <= Budget /\ Fits(room, size)
           THEN /\ Becomes(room) /\ reader' = [reader EXCEPT ![q] = id]
                /\ phase' = [phase EXCEPT ![q] = "writing"]
                /\ reservation' = [reservation EXCEPT ![q] = r]
                /\ pending_bytes' = pending_bytes + size
                /\ pending_entries' = pending_entries + 1
           ELSE /\ Becomes(Closed(room, id)) /\ phase' = [phase EXCEPT ![q] = "prefill"]
                /\ UNCHANGED <<reader, reservation, pending_bytes, pending_entries>>
  BY <1>1, <1>2, <1>3, <1>4, <1>5 DEF Capture
<1>7. PICK h : h = [reader EXCEPT ![q] = id]
  OBVIOUS
<1>8. /\ reader \in [Requests -> Nat] /\ reader[q] = 0 /\ n \in Nat /\ n <= Len(Prompt[q])
      /\ basis[q].length <= n /\ epoch \in Nat /\ Prompt[q] \in Seq(Content)
      /\ Len(Prompt[q]) \in Nat
  BY <1>2, <1>6, RequestIs DEF RequestOK
<1>9. /\ CacheOK(c, h) /\ Less(c, Cache) /\ id \in Nat
      /\ id # 0 => Found(c, id, epoch, Prompt[q], n)
  BY <1>1, <1>2, <1>6, <1>7, AncestorIs
<1>10. h \in [Requests -> Nat] /\ h[q] = id /\ \A p \in Requests \ {q} : h[p] = reader[p]
  BY <1>7, <1>8, <1>9
<1>11. CacheOK(room, h) /\ Less(room, c)
  <2>1. CASE size > Budget
    BY <1>4, <1>9, <2>1, LessIsOrdered
  <2>2. CASE ~(size > Budget)
    <3>1. Evictions(c, size) \in 0..Len(Victims(c))
      BY <1>9, EvictionsAre
    <3> QED
      BY <1>4, <1>9, <2>2, <3>1, EvictIs
  <2> QED
    BY <2>1, <2>2
<1>12. Less(room, Cache)
  BY <1>9, <1>11, LessIsOrdered
<1>13. ASSUME id # 0
       PROVE  /\ id \in DOMAIN c.table /\ id \in DOMAIN room.table
              /\ room.table[id].tokens = c.table[id].tokens
              /\ room.table[id].segments = c.table[id].segments
              /\ start = Len(c.table[id].tokens) /\ start \in Nat /\ start <= n
              /\ c.table[id].tokens = SubSeq(Prompt[q], 1, start)
              /\ c.table[id].segments \in SUBSET Names
  <2>1. id \in DOMAIN c.table /\ start = Length(c, id) /\ start <= n
        /\ IsPrefix(c.table[id].tokens, Prompt[q])
    BY <1>2, <1>9, <1>13 DEF Found
  <2>2. id \in DOMAIN room.table
    BY <1>10, <1>11, <1>13 DEF CacheOK
  <2>3. /\ c.table[id].tokens \in Seq(Content) /\ Len(c.table[id].tokens) \in Nat
        /\ c.table[id].segments \in SUBSET Names
    BY <1>9, <2>1, SnapshotIs
  <2>4. start = Len(c.table[id].tokens)
    BY <2>1 DEF Length
  <2>5. c.table[id].tokens = SubSeq(Prompt[q], 1, start)
    <3>1. SubSeq(c.table[id].tokens, 1, start) = SubSeq(Prompt[q], 1, start)
      BY <2>1, <2>4 DEF IsPrefix
    <3>2. SubSeq(c.table[id].tokens, 1, start) = c.table[id].tokens
      BY <2>3, <2>4, SubSeqFull
    <3> QED
      BY <3>1, <3>2
  <2> QED
    BY <1>11, <2>1, <2>2, <2>3, <2>4, <2>5 DEF Less
<1>14. start \in Nat /\ start <= n /\ size \in Nat
  <2>1. start \in Nat /\ start <= n
    BY <1>2, <1>8, <1>13
  <2>2. Own(n) \in Nat /\ n - start \in Nat
    BY <1>8, <2>1, OwnIs
  <2>3. (n - start) * PageBytes \in Nat
    BY <2>2, BytesAssumption
  <2> QED
    BY <1>3, <2>1, <2>2, <2>3 DEF CheckpointBytes
<1>15. r \in Reservations /\ r.size = size
  <2>1. (IF id = 0 THEN {} ELSE c.table[id].segments) \in SUBSET Names
    BY <1>13
  <2> QED
    BY <1>5, <1>8, <1>14, <2>1 DEF Reservations
<1>16. CASE ~(size <= Budget /\ Fits(room, size))
  <2>1. PICK d : d = Closed(room, id)
    OBVIOUS
  <2>2. /\ Becomes(d) /\ phase' = [phase EXCEPT ![q] = "prefill"]
        /\ UNCHANGED <<reader, reservation, pending_bytes, pending_entries>>
    BY <1>6, <1>16, <2>1
  <2>3. CacheOK(d, Emptied(h, q)) /\ Less(d, room)
    BY <1>10, <1>11, <2>1, CloseIs
  <2>4. Emptied(h, q) = reader
    BY <1>7, <1>8, <1>9 DEF Emptied
  <2>5. CacheOK(d, reader) /\ Less(d, Cache)
    BY <1>12, <2>3, <2>4, LessIsOrdered
  <2> QED
    BY <1>6, <2>2, <2>5, GivenUpStep
<1>17. CASE size <= Budget /\ Fits(room, size)
  <2>1. /\ Becomes(room) /\ reader' = h /\ phase' = [phase EXCEPT ![q] = "writing"]
        /\ reservation' = [reservation EXCEPT ![q] = r]
        /\ pending_bytes' = pending_bytes + size /\ pending_entries' = pending_entries + 1
    BY <1>6, <1>7, <1>17
  <2>2. NumberedIn(room.table, next_id) /\ PagesAgree(room.table) /\ Same(room, Cache)
    BY <1>12, TablesAre, LessAgrees
  <2>3. Books' /\ Numbered' /\ SharedPagesAgree'
    BY <1>6, <1>11, <2>1, <2>2, CacheNext
  <2>4. table' = room.table /\ entries' = room.entries
    BY <2>1 DEF Becomes
  <2>5. /\ {pending_bytes, pending_entries, epoch, next_id} \subseteq Nat
        /\ phase \in [Requests -> Phases] /\ seq \in [Requests -> Nat]
        /\ basis \in [Requests -> [id : Nat, length : Nat]]
        /\ prefix_epoch \in [Requests -> Nat] /\ reservation \in [Requests -> Reservations]
    BY DEF IInv, TypeOK
  <2>6. Room'
    <3>1. PICK t : t = room.table
      OBVIOUS
    <3>2. /\ Footprint(t) + pending_bytes + size <= Budget
          /\ Cardinality(DOMAIN t) + pending_entries < MaxEntries
      BY <1>17, <3>1 DEF Fits
    <3>3. Footprint(t) \in Nat /\ Cardinality(DOMAIN t) \in Nat
      BY <1>11, <3>1, FootprintIs
    <3>4. /\ Footprint(t) + (pending_bytes + size) <= Budget
          /\ Cardinality(DOMAIN t) + (pending_entries + 1) <= MaxEntries
      BY <1>14, <2>5, <3>2, <3>3, BytesAssumption
    <3> QED
      BY <2>1, <2>4, <3>1, <3>4, RoomNext
  <2>7. Pending'
    BY <1>6, <1>15, <2>1, PendingMore
  <2>8. EntriesNow'
    <3>1. EntriesOf(room, epoch)
      BY <1>11, <1>12, TablesAre, EntriesNext
    <3> QED
      BY <1>6, <2>4, <3>1 DEF EntriesNow, EntriesOf
  <2>9. /\ reader'[q] = id /\ phase'[q] = "writing" /\ reservation'[q] = r
        /\ \A p \in Requests \ {q} :
              /\ h[p] = reader[p] /\ phase'[p] = phase[p] /\ seq'[p] = seq[p]
              /\ basis'[p] = basis[p] /\ reservation'[p] = reservation[p]
    BY <1>6, <1>10, <2>1, <2>5
  <2>10. RequestOK(q)'
    <3>1. r.start <= n /\ r.size = CheckpointBytes(n - r.start, n)
      BY <1>3, <1>5, <1>14
    <3>2. id = 0 => r.start = 0 /\ r.segments = {}
      BY <1>2, <1>5
    <3>3. id # 0 => /\ r.start = Len(table'[id].tokens) /\ r.segments = table'[id].segments
                    /\ table'[id].tokens = SubSeq(Prompt[q], 1, r.start)
      BY <1>5, <1>13, <2>4
    <3>4. seq'[q] = n /\ basis'[q] = basis[q]
      BY <1>2, <1>6
    <3>5. WriterOK(q)'
      BY <2>9, <3>1, <3>2, <3>3, <3>4 DEF WriterOK, CheckpointBytes, Own
    <3> QED
      BY <1>8, <2>9, <3>4, <3>5 DEF RequestOK
  <2>11. RequestsOK'
    <3>1. Books /\ RequestsOK /\ epoch' = epoch
      BY <1>6 DEF IInv
    <3> QED
      BY <1>11, <2>1, <2>2, <2>4, <2>9, <2>10, <3>1, RequestsNext
  <2>12. TypeOK'
    <3>1. {pending_bytes', pending_entries', epoch', next_id'} \subseteq Nat
      BY <1>6, <1>14, <2>1, <2>5
    <3>2. phase' \in [Requests -> Phases] /\ reservation' \in [Requests -> Reservations]
      BY <1>15, <2>1, <2>5 DEF Phases
    <3> QED
      BY <1>6, <2>5, <3>1, <3>2 DEF TypeOK
  <2> QED
    BY <2>3, <2>6, <2>7, <2>8, <2>11, <2>12 DEF IInv
<1> QED
  BY <1>16, <1>17

----------------------------------------------------------------------------
(* The invariant of the specification.                                     *)

\* The empty cache with its waiting requests.
LEMMA InitHolds == Init => IInv
<1> SUFFICES ASSUME Init PROVE IInv
  OBVIOUS
<1>1. /\ entries = <<>> /\ table = <<>> /\ pending_bytes = 0 /\ pending_entries = 0
      /\ epoch = 0 /\ next_id = 0
      /\ phase = [q \in Requests |-> "waiting"] /\ reader = [q \in Requests |-> 0]
      /\ seq = [q \in Requests |-> 0] /\ basis = [q \in Requests |-> NoBasis]
      /\ prefix_epoch = [q \in Requests |-> 0]
      /\ reservation = [q \in Requests |-> NoReservation]
  BY DEF Init
<1>2. DOMAIN table = {} /\ DOMAIN entries = {}
  BY <1>1
<1>3. TypeOK
  <2>1. NoReservation \in Reservations /\ NoBasis \in [id : Nat, length : Nat] /\ "waiting" \in Phases
    BY DEF NoReservation, Reservations, NoBasis, Phases
  <2> QED
    BY <1>1, <2>1 DEF TypeOK
<1>4. CacheOK(Cache, reader)
  <2>1. Cache.table = table /\ Cache.entries = entries
        /\ Cache = [entries |-> Cache.entries, table |-> Cache.table]
    BY DEF Cache
  <2>2. table \in [{} -> Snapshots] /\ entries \in Seq({}) /\ IsFiniteSet({})
    BY <1>1, <1>2, FS_EmptySet
  <2>3. Once(entries) /\ reader \in [Requests -> Nat] /\ \A q \in Requests : reader[q] = 0
    BY <1>1, <1>2 DEF Once
  <2>4. PICK c, held : c = Cache /\ held = reader
    OBVIOUS
  <2>5. /\ c.table \in [{} -> Snapshots] /\ c.entries \in Seq({}) /\ DOMAIN c.table = {}
        /\ c = [entries |-> c.entries, table |-> c.table] /\ Once(c.entries)
        /\ held \in [Requests -> Nat] /\ \A q \in Requests : held[q] = 0
    BY <1>2, <2>1, <2>2, <2>3, <2>4
  <2>6. CacheOK(c, held)
    BY <2>2, <2>5 DEF CacheOK
  <2> QED
    BY <2>4, <2>6
<1>5. Writers = {}
  BY <1>1 DEF Writers
<1>6. Pending
  <2>1. PICK f : f = [q \in Writers |-> reservation[q].size]
    <3>1. \E f : f = [q \in Writers |-> reservation[q].size]
      OBVIOUS
    <3> QED
      BY <3>1
  <2>2. DOMAIN f = {}
    BY <1>5, <2>1
  <2>3. SumFunction(f) = 0
    BY <2>2, SumOfNone
  <2>4. Cardinality(Writers) = 0
    BY <1>5, FS_EmptySet
  <2> QED
    BY <1>1, <2>1, <2>3, <2>4 DEF Pending
<1>7. Room
  <2>1. Footprint(table) = SumFunction(Costs(table)) + PageBytes * Cardinality(PagesOf(table))
    BY DEF Footprint, Costs, PagesOf
  <2>2. PagesOf(table) = {} /\ DOMAIN Costs(table) = {}
    BY <1>2 DEF PagesOf, Costs
  <2>3. SumFunction(Costs(table)) = 0
    BY <2>2, SumOfNone
  <2>4. Cardinality(PagesOf(table)) = 0 /\ Cardinality(DOMAIN table) = 0
    BY <1>2, <2>2, FS_EmptySet
  <2>5. Footprint(table) = 0
    BY <2>1, <2>3, <2>4, BytesAssumption
  <2> QED
    BY <1>1, <2>4, <2>5, BytesAssumption DEF Room
<1>8. RequestsOK
  <2>1. ASSUME NEW q \in Requests PROVE RequestOK(q)
    <3>1. phase[q] = "waiting" /\ reader[q] = 0 /\ seq[q] = 0 /\ Len(Prompt[q]) \in Nat
      BY <1>1, PromptAssumption
    <3> QED
      BY <3>1 DEF RequestOK
  <2> QED
    BY <2>1 DEF RequestsOK
<1>9. Numbered /\ EntriesNow /\ SharedPagesAgree
  BY <1>2 DEF Numbered, EntriesNow, SharedPagesAgree
<1> QED
  BY <1>3, <1>4, <1>6, <1>7, <1>8, <1>9 DEF IInv, Books

\* A step that changes nothing.
LEMMA NothingStep ==
    ASSUME IInv, UNCHANGED vars
    PROVE  IInv'
<1>1. PICK c, h, n : c = Cache /\ h = reader /\ n = next_id
  OBVIOUS
<1>2. /\ CacheOK(c, h) /\ NumberedIn(c.table, n) /\ PagesAgree(c.table) /\ Same(c, Cache)
      /\ c.table = table /\ c.entries = entries
  BY <1>1, TablesAre DEF Same
<1>3. /\ UNCHANGED cacheVars /\ UNCHANGED requestVars
  BY DEF vars
<1>4. Becomes(c) /\ reader' = h /\ next_id' = n
  BY <1>1, <1>2, <1>3 DEF Becomes, cacheVars, requestVars
<1>5. Books' /\ Numbered' /\ SharedPagesAgree'
  BY <1>2, <1>4, CacheNext
<1>6. Room'
  <2>1. /\ Footprint(c.table) + pending_bytes <= Budget
        /\ Cardinality(DOMAIN c.table) + pending_entries <= MaxEntries
    BY <1>2 DEF IInv, Room
  <2> QED
    BY <1>2, <1>3, <1>4, <2>1, RoomNext DEF cacheVars
<1>7. Pending'
  <2>1. Writers' = Writers
    BY <1>3 DEF Writers, requestVars
  <2>2. /\ pending_bytes = SumFunction([r \in Writers |-> reservation[r].size])
        /\ pending_entries = Cardinality(Writers)
    BY DEF IInv, Pending
  <2>3. [r \in Writers |-> reservation[r].size] = [r \in Writers |-> reservation'[r].size]
    BY <1>3 DEF requestVars
  <2> QED
    BY <1>3, <2>1, <2>2, <2>3, PendingNext DEF cacheVars
<1>8. EntriesNow'
  BY <1>3 DEF IInv, EntriesNow, cacheVars
<1>9. RequestsOK'
  <2>1. ASSUME NEW r \in Requests PROVE RequestOK(r)'
    <3>1. RequestOK(r) /\ Books /\ epoch' = epoch /\ h[r] = reader[r] /\ phase'[r] = phase[r]
          /\ seq'[r] = seq[r] /\ basis'[r] = basis[r] /\ reservation'[r] = reservation[r]
          /\ table' = c.table
      BY <1>1, <1>2, <1>3, RequestIs DEF IInv, cacheVars, requestVars
    <3> QED
      BY <1>2, <1>4, <3>1, RequestKept
  <2> QED
    BY <2>1 DEF RequestsOK
<1>10. TypeOK'
  BY <1>3 DEF IInv, TypeOK, cacheVars, requestVars
<1> QED
  BY <1>5, <1>6, <1>7, <1>8, <1>9, <1>10 DEF IInv

\* Every operation of the cache keeps the invariant.
LEMMA StepKeeps == IInv /\ [Next]_vars => IInv'
<1> SUFFICES ASSUME IInv, [Next]_vars PROVE IInv'
  OBVIOUS
<1>1. ASSUME NEW q \in Requests, NEW agreed \in BOOLEAN, Match(q, agreed) PROVE IInv'
  BY <1>1, MatchStep
<1>2. ASSUME NEW q \in Requests, Start(q) PROVE IInv'
  BY <1>2, StartStep
<1>3. ASSUME NEW q \in Requests, NEW length \in 1..Len(Prompt[q]), NEW aligned \in BOOLEAN,
             Forward(q, length, aligned)
      PROVE  IInv'
  BY <1>3, ForwardStep
<1>4. ASSUME NEW q \in Requests, Leave(q) PROVE IInv'
  BY <1>4, LeaveStep
<1>5. ASSUME NEW q \in Requests, CaptureStale(q) PROVE IInv'
  BY <1>5, CaptureStaleStep
<1>6. ASSUME NEW q \in Requests, CaptureKnown(q) PROVE IInv'
  BY <1>6, CaptureKnownStep
<1>7. ASSUME NEW q \in Requests, Capture(q) PROVE IInv'
  BY <1>7, CaptureStep
<1>8. ASSUME NEW q \in Requests, Publish(q) PROVE IInv'
  BY <1>8, PublishStep
<1>9. ASSUME NEW q \in Requests, CaptureFails(q) PROVE IInv'
  BY <1>9, CaptureFailsStep
<1>10. CASE Drop
  BY <1>10, DropStep
<1>11. CASE UNCHANGED vars
  BY <1>11, NothingStep
<1> QED
  BY <1>1, <1>2, <1>3, <1>4, <1>5, <1>6, <1>7, <1>8, <1>9, <1>10, <1>11 DEF Next

\* Closing a reader leaves the queue alone.
LEMMA ClosedEntries ==
    ASSUME NEW c, c = [entries |-> c.entries, table |-> c.table], NEW id
    PROVE  Closed(c, id).entries = c.entries
BY DEF Closed

\* Where nothing leaves the queue, there is nothing to say.
LEMMA NothingEvicted ==
    ASSUME \A x : Has(entries, x) => Has(entries', x)
    PROVE  EvictsRightly
<1>1. ToSet(entries) \ ToSet(entries') = {}
  BY DEF ToSet, Has
<1> QED
  BY <1>1 DEF EvictsRightly

\* A capture evicts what nobody reads, in the order of use, and when it got its
\* reservation no more than it had to (capture_prefix and reserve).
LEMMA CaptureEvicts ==
    ASSUME IInv, NEW q \in Requests, Capture(q)
    PROVE  EvictsRightly
<1>1. PICK c, id : c = Ancestor(q).cache /\ id = Ancestor(q).id
  OBVIOUS
<1>2. PICK start : start = (IF id = 0 THEN 0 ELSE Length(c, id))
  OBVIOUS
<1>3. PICK size : size = CheckpointBytes(seq[q] - start, seq[q])
  OBVIOUS
<1>4. PICK n : n = Evictions(c, size)
  OBVIOUS
<1>5. PICK room : room = IF size > Budget THEN c ELSE Evicted(c, n)
  OBVIOUS
<1>6. PICK h : h = [reader EXCEPT ![q] = id]
  OBVIOUS
<1>7. /\ phase[q] = "boundary"
      /\ IF size <= Budget /\ Fits(room, size)
           THEN /\ Becomes(room) /\ phase' = [phase EXCEPT ![q] = "writing"]
                /\ pending_bytes' = pending_bytes + size
                /\ pending_entries' = pending_entries + 1
           ELSE /\ Becomes(Closed(room, id)) /\ phase' = [phase EXCEPT ![q] = "prefill"]
                /\ UNCHANGED <<pending_bytes, pending_entries>>
  BY <1>1, <1>2, <1>3, <1>4, <1>5 DEF Capture
<1>8. /\ CacheOK(Cache, reader) /\ Cache.table = table /\ Cache.entries = entries
      /\ reader \in [Requests -> Nat] /\ reader[q] = 0 /\ phase \in [Requests -> Phases]
      /\ {pending_bytes, pending_entries} \subseteq Nat
  BY <1>7, RequestIs, TablesAre DEF RequestOK, IInv, TypeOK, Cache
<1>9. /\ CacheOK(c, h) /\ Less(c, Cache) /\ id \in Nat /\ id \in LookedUp(q)
      /\ Along(c, Cache, LookedUp(q))
  BY <1>1, <1>6, <1>7, AncestorIs
<1>10. n \in 0..Len(Victims(c)) /\ Len(Victims(c)) \in Nat
  BY <1>4, <1>9, EvictionsAre, VictimsAre
<1>11. CacheOK(room, h) /\ Less(room, c)
  BY <1>5, <1>9, <1>10, EvictIs, LessIsOrdered
<1>12. entries' = room.entries
  <2>1. Closed(room, h[q]).entries = room.entries
    BY <1>11, CloseIs
  <2>2. h[q] = id
    BY <1>6, <1>8
  <2> QED
    BY <1>7, <2>1, <2>2 DEF Becomes
<1>13. size \in Int
  <2>1. seq[q] \in Nat /\ start \in Int
    <3>1. ASSUME id # 0 PROVE Length(c, id) \in Nat
      <4>1. id \in DOMAIN c.table
        BY <1>6, <1>8, <1>9, <3>1 DEF CacheOK
      <4> QED
        BY <1>9, <4>1, SnapshotIs DEF Length
    <3> QED
      BY <1>2, <3>1, RequestIs
  <2>2. Own(seq[q]) \in Nat /\ PageBytes \in Nat
    BY <2>1, OwnIs, BytesAssumption
  <2> QED
    BY <1>3, <2>1, <2>2 DEF CheckpointBytes
<1> DEFINE gone == ToSet(entries) \ ToSet(entries')
           v == Victims(c)
<1>14. \A x : x \in gone <=> Listed(Cache, x) /\ ~Listed(room, x)
  BY <1>8, <1>12 DEF ToSet, Listed, Has
<1>15. /\ v \in Seq(Idle(c)) /\ DOMAIN v = 1..Len(v) /\ Once(v)
       /\ \A x : Has(v, x) <=> x \in Idle(c) /\ Listed(c, x)
       /\ \A x \in Idle(c), y \in Idle(c) : Before(c.entries, x, y) => Before(v, x, y)
  BY <1>9, VictimsAre
<1>16. /\ DOMAIN Evicted(c, n).table = DOMAIN c.table \ Taken(c, n)
       /\ \A x : Listed(Evicted(c, n), x) <=> Listed(c, x) /\ x \notin Taken(c, n)
  BY <1>9, <1>10, EvictedIs
<1>17. Taken(c, n) \subseteq Idle(c) /\ \A x \in Taken(c, n) : Listed(c, x)
  <2>1. \A i \in 1..n : i \in DOMAIN v /\ Has(v, v[i])
    BY <1>10, <1>15 DEF Has
  <2> HIDE DEF v
  <2> QED
    BY <1>15, <2>1 DEF Taken, v
<1> HIDE DEF v
<1>18. ASSUME NEW x \in gone
       PROVE  x \in Taken(c, n) /\ room = Evicted(c, n) /\ Listed(Cache, x)
  <2>1. Listed(Cache, x) /\ Listed(c, x) /\ ~Listed(room, x)
    BY <1>9, <1>14 DEF Along
  <2> QED
    BY <1>5, <1>16, <2>1
<1>19. ASSUME NEW x \in Idle(c) PROVE x \in DOMAIN table /\ table[x].readers = 0 /\ x # id
  <2>1. /\ x \in DOMAIN c.table /\ x \in Nat \ {0} /\ x \in DOMAIN table
        /\ Cardinality(Readers(h, x)) = 0
    BY <1>8, <1>9 DEF Idle, CacheOK, Less
  <2>2. IsFiniteSet(Readers(h, x))
    BY <1>6, <1>8, <1>9, <2>1, ReadersChange DEF CacheOK
  <2>3. Readers(h, x) = {}
    BY <2>1, <2>2, FS_EmptySet
  <2>4. x # id
    BY <1>6, <1>8, <2>3 DEF Readers
  <2>5. Readers(reader, x) = {}
    BY <1>6, <1>8, <2>1, <2>3 DEF Readers
  <2>6. table[x].readers = Cardinality({})
    BY <1>8, <2>1, <2>5 DEF CacheOK
  <2> QED
    BY <2>1, <2>4, <2>6, FS_EmptySet
<1>20. \A x \in gone : table[x].readers = 0
  BY <1>17, <1>18, <1>19
<1>21. ASSUME NEW i \in DOMAIN entries, NEW j \in DOMAIN entries, i < j,
              entries[j] \in gone, entries[i] \notin gone,
              entries[i] \notin LookedUp(q)
       PROVE  table[entries[i]].readers > 0
  <2>1. PICK x, y : x = entries[i] /\ y = entries[j]
    OBVIOUS
  <2>2. x \in DOMAIN table /\ Listed(Cache, x) /\ Before(Cache.entries, x, y)
    BY <1>8, <1>21, <2>1 DEF CacheOK, Listed, Has, Before
  <2>3. Listed(c, x) /\ Before(c.entries, x, y) /\ x # id
    BY <1>9, <1>21, <2>1, <2>2 DEF Along
  <2>4. y \in Idle(c) /\ y \in Taken(c, n) /\ Listed(Cache, y) /\ room = Evicted(c, n)
    BY <1>17, <1>18, <1>21, <2>1
  <2>5. x \notin Taken(c, n)
    BY <1>14, <1>16, <1>21, <2>1, <2>2, <2>4
  <2>6. ASSUME x \in Idle(c) PROVE FALSE
    <3>1. PICK k \in DOMAIN v, m \in DOMAIN v : k < m /\ v[k] = x /\ v[m] = y
      BY <1>15, <2>3, <2>4, <2>6 DEF Before
    <3>2. PICK p \in 1..n : v[p] = y
      BY <2>4 DEF Taken, v
    <3>3. p \in DOMAIN v
      BY <1>10, <1>15, <3>2 DEF v
    <3>4. m = p /\ k \in 1..n
      BY <1>10, <1>15, <3>1, <3>2, <3>3 DEF Once, v
    <3> QED
      BY <2>5, <3>1, <3>4 DEF Taken, v
  <2>7. x \in DOMAIN c.table /\ c.table[x].readers # 0
    BY <1>9, <2>3, <2>6 DEF Idle, CacheOK, Listed, Has
  <2>8. Readers(h, x) = Readers(reader, x)
    BY <1>6, <1>8, <2>2, <2>3 DEF Readers, CacheOK
  <2>9. table[x].readers # 0 /\ table[x].readers \in Nat
    <3>1. table[x].readers = c.table[x].readers
      BY <1>8, <1>9, <2>2, <2>7, <2>8 DEF CacheOK
    <3>2. table[x].readers \in Nat
      BY <1>8, <2>2, SnapshotIs DEF Snapshots
    <3> QED
      BY <2>7, <3>1, <3>2
  <2> QED
    BY <2>1, <2>9
<1>22. ASSUME gone # {}, pending_entries' > pending_entries
       PROVE  \E x \in gone :
                 \/ Footprint(Restrict(table, DOMAIN table' \cup {x})) + pending_bytes' > Budget
                 \/ Cardinality(DOMAIN table') + pending_entries' = MaxEntries
  <2>1. /\ Becomes(room) /\ Fits(room, size) /\ pending_bytes' = pending_bytes + size
        /\ pending_entries' = pending_entries + 1
    BY <1>7, <1>8, <1>22
  <2>2. n # 0 /\ room = Evicted(c, n)
    BY <1>18, <1>22 DEF Taken
  <2>3. PICK m, y : m = n - 1 /\ y = v[n]
    OBVIOUS
  <2>4. m \in 0..Len(Victims(c)) /\ ~Fits(Evicted(c, m), size)
    BY <1>4, <1>9, <2>1, <2>2, <2>3, EvictionsMinimal
  <2>5. Taken(c, n) = Taken(c, m) \cup {y} /\ y \notin Taken(c, m)
    <3>1. 1..n = 1..m \cup {n} /\ n \notin 1..m /\ n \in 1..Len(Victims(c))
          /\ \A k \in 1..m : k \in 1..Len(Victims(c))
      BY <1>10, <2>2, <2>3, <2>4
    <3> QED
      BY <1>15, <2>3, <3>1 DEF Taken, Once, v
  <2>6. y \in gone
    <3>1. Listed(c, y) /\ ~Listed(room, y)
      BY <1>16, <1>17, <2>2, <2>5
    <3>2. Listed(Cache, y)
      BY <1>9, <3>1 DEF Less
    <3> QED
      BY <1>14, <3>1, <3>2
  <2>7. PICK d, D, e : d = Evicted(c, m) /\ D = DOMAIN table' /\ e = pending_entries
    OBVIOUS
  <2>8. CacheOK(d, h) /\ Less(d, Cache) /\ DOMAIN d.table = DOMAIN c.table \ Taken(c, m)
    BY <1>9, <2>4, <2>7, EvictIs, EvictedIs, LessIsOrdered
  <2>9. D = DOMAIN room.table /\ D = DOMAIN c.table \ Taken(c, n)
    BY <1>16, <2>1, <2>2, <2>7 DEF Becomes
  <2>10. DOMAIN d.table = D \cup {y} /\ y \notin D
    BY <1>17, <2>5, <2>8, <2>9 DEF Idle
  <2>11. /\ Footprint(d.table) \in Nat /\ IsFiniteSet(D) /\ Cardinality(D) \in Nat
         /\ Cardinality(DOMAIN d.table) = Cardinality(D) + 1
    <3>1. IsFiniteSet(D)
      BY <1>11, <2>9 DEF CacheOK
    <3> QED
      BY <2>8, <2>10, <3>1, FootprintIs, FS_AddElement, FS_CardinalityType
  <2>12. Footprint(Restrict(table, D \cup {y})) = Footprint(d.table)
    <3>1. PICK t : t = Restrict(table, D \cup {y})
      OBVIOUS
    <3>2. DOMAIN t = DOMAIN d.table /\ \A x \in DOMAIN t : t[x] = table[x]
      BY <2>10, <3>1 DEF Restrict
    <3>3. \A x \in DOMAIN t : /\ t[x].tokens = d.table[x].tokens
                             /\ t[x].segments = d.table[x].segments
      BY <1>8, <2>8, <3>2 DEF Less
    <3> QED
      BY <3>1, <3>2, <3>3, FootprintSame
  <2>13. \/ Footprint(d.table) + pending_bytes + size > Budget
         \/ Cardinality(D) + 1 + e >= MaxEntries
    <3>1. ~(/\ Footprint(d.table) + pending_bytes + size <= Budget
            /\ Cardinality(DOMAIN d.table) + e < MaxEntries)
      BY <2>4, <2>7 DEF Fits
    <3>2. size \in Int /\ e \in Nat /\ Budget \in Nat /\ MaxEntries \in Nat
      BY <1>8, <1>13, <2>7, BytesAssumption
    <3> QED
      BY <1>8, <2>11, <3>1, <3>2
  <2>14. Cardinality(D) + e < MaxEntries
    BY <2>1, <2>7, <2>9 DEF Fits
  <2>15. CASE Footprint(d.table) + pending_bytes + size > Budget
    <3>1. PICK f \in Nat : f = Footprint(d.table)
      BY <2>11
    <3>2. f + pending_bytes' > Budget
      BY <1>8, <1>13, <2>1, <2>15, <3>1, BytesAssumption
    <3>3. Footprint(Restrict(table, DOMAIN table' \cup {y})) + pending_bytes' > Budget
      BY <2>7, <2>12, <3>1, <3>2
    <3> QED
      BY <2>6, <3>3
  <2>16. CASE Cardinality(D) + 1 + e >= MaxEntries
    <3>1. Cardinality(D) + pending_entries' = MaxEntries
      BY <1>8, <2>1, <2>7, <2>11, <2>14, <2>16, BytesAssumption
    <3> QED
      BY <2>6, <2>7, <3>1
  <2> QED
    BY <2>13, <2>15, <2>16
<1>23. \A x \in LookedUp(q) : x # 0 =>
          \E p \in Requests : phase[p] = "boundary" /\ phase'[p] # "boundary"
                             /\ IsPrefix(table[x].tokens, Prompt[p])
  BY <1>7, <1>8 DEF LookedUp
<1>24. \A i \in DOMAIN entries : entries[i] \in DOMAIN table /\ entries[i] # 0
  BY <1>8 DEF CacheOK
<1> HIDE DEF gone
<1> DEFINE looked_up == {x \in DOMAIN table : \E p \in Requests :
                            phase[p] = "boundary" /\ phase'[p] # "boundary"
                            /\ IsPrefix(table[x].tokens, Prompt[p])}
<1>25. \A i, j \in DOMAIN entries :
          i < j /\ entries[j] \in gone /\ entries[i] \notin gone =>
             table[entries[i]].readers > 0 \/ entries[i] \in looked_up
  BY <1>21, <1>23, <1>24
<1> QED
  BY <1>20, <1>22, <1>25 DEF EvictsRightly, gone

\* The invariant holds in every state, in whatever order the requests' captures,
\* matches and publications and the flushes come.
THEOREM Invariant == Spec => []IInv
  BY InitHolds, StepKeeps, PTL DEF Spec

\* Held checkpoints and reservations stay within the budget and the entry
\* limit together, and a writer's reservation stays large enough, whatever is
\* evicted, closed or flushed under it (reserve and publish of HostPrefixCache).
THEOREM BudgetIsHeld == Spec => []BudgetHeld
<1>1. IInv => BudgetHeld
  <2> SUFFICES ASSUME IInv PROVE BudgetHeld
    OBVIOUS
  <2>1. WriterFits
    BY GrowthFits DEF WriterFits
  <2> QED
    BY <2>1 DEF IInv, Room, BudgetHeld
<1> QED
  BY <1>1, Invariant, PTL

\* The books of the cache are those of the open readers and reservations,
\* through every order of matches, captures, closes and flushes.
THEOREM AccountsAreExact == Spec => []AccountsExact
<1>1. IInv => AccountsExact
  <2> SUFFICES ASSUME IInv PROVE AccountsExact
    OBVIOUS
  <2>1. \A q \in Requests : reader[q] # 0 => reader[q] \in DOMAIN table
    BY RequestIs
  <2>2. ASSUME NEW id \in DOMAIN table
        PROVE  /\ table[id].readers = Cardinality({q \in Requests : reader[q] = id})
               /\ Contains(entries, id) \/ table[id].readers > 0
    <3>1. /\ table[id].readers = Cardinality(Readers(reader, id))
          /\ Has(entries, id) \/ table[id].readers > 0
          /\ DOMAIN entries = 1..Len(entries)
      BY TablesAre DEF CacheOK, Listed
    <3> QED
      BY <3>1 DEF Readers, Contains, Has
  <2>3. Pending
    BY DEF IInv
  <2> QED
    BY <2>1, <2>2, <2>3 DEF AccountsExact, Pending, Writers
<1> QED
  BY <1>1, Invariant, PTL

\* After a flush nothing from before can be matched or is restored, though
\* captures were under way and readers open.
THEOREM OnlyCurrentEpoch == Spec => []CurrentEpochOnly
<1>1. IInv => CurrentEpochOnly
  BY DEF IInv, EntriesNow, RequestsOK, RequestOK, MatchOK, CurrentEpochOnly
<1> QED
  BY <1>1, Invariant, PTL

\* Checkpoints that share a page have the same tokens up to it, and each has
\* all of its pages once, whichever ancestors were shared, retired or freed.
THEOREM PagesAreShared == Spec => []SharedPagesAgree
<1>1. IInv => SharedPagesAgree
  BY DEF IInv
<1> QED
  BY <1>1, Invariant, PTL

\* What leaves the queue outside a flush leaves it by a capture.
LEMMA StepEvicts == IInv /\ [Next]_vars => EvictsRightly
<1> SUFFICES ASSUME IInv, [Next]_vars PROVE EvictsRightly
  OBVIOUS
<1>1. PICK c, held : c = Cache /\ held = reader
  OBVIOUS
<1>2. CacheOK(c, held) /\ c.entries = entries
  BY <1>1, TablesAre DEF Cache
<1>3. ASSUME NEW q \in Requests, entries' = Closed(c, held[q]).entries PROVE EvictsRightly
  <2>1. Closed(c, held[q]).entries = entries
    BY <1>2, CloseIs
  <2> QED
    BY <1>3, <2>1, NothingEvicted
<1>4. ASSUME NEW q \in Requests, NEW agreed \in BOOLEAN, Match(q, agreed) PROVE EvictsRightly
  <2>1. PICK old, h, cap : /\ old = Closed(c, held[q]) /\ h = Emptied(held, q)
                           /\ cap = Len(Prompt[q])
    OBVIOUS
  <2>2. PICK id : id = Best(old, epoch, Prompt[q], cap)
    OBVIOUS
  <2>3. PICK new : new = Acquired(old, id)
    OBVIOUS
  <2>4. CacheOK(old, h) /\ old.entries = entries /\ h[q] = 0 /\ cap \in Nat
    BY <1>1, <1>2, <2>1, CloseIs, RequestIs DEF Emptied
  <2>5. new = [entries |-> new.entries, table |-> new.table] /\ Along(new, old, {id})
    <3>1. CacheOK(new, [h EXCEPT ![q] = id]) /\ Along(new, old, {id})
      BY <2>2, <2>3, <2>4, LookupIs
    <3> QED
      BY <3>1 DEF CacheOK
  <2>6. entries' = new.entries
    <3>1. Becomes(IF agreed THEN new ELSE Closed(new, id))
      BY <1>1, <1>4, <2>1, <2>2, <2>3 DEF Match
    <3> QED
      BY <2>5, <3>1, ClosedEntries DEF Becomes
  <2> QED
    BY <2>4, <2>5, <2>6, NothingEvicted DEF Along, Listed
<1>5. ASSUME NEW q \in Requests, Start(q) PROVE EvictsRightly
  BY <1>1, <1>3, <1>5 DEF Start, Becomes
<1>6. ASSUME NEW q \in Requests, NEW length \in 1..Len(Prompt[q]), NEW aligned \in BOOLEAN,
             Forward(q, length, aligned)
      PROVE  EvictsRightly
  BY <1>6, NothingEvicted DEF Forward, cacheVars
<1>7. ASSUME NEW q \in Requests, Leave(q) PROVE EvictsRightly
  BY <1>1, <1>3, <1>7 DEF Leave, Becomes
<1>8. ASSUME NEW q \in Requests, CaptureStale(q) PROVE EvictsRightly
  BY <1>8, NothingEvicted DEF CaptureStale, cacheVars
<1>9. ASSUME NEW q \in Requests, CaptureKnown(q) PROVE EvictsRightly
  <2>1. PICK id, cap : id = Previous(q) /\ cap = seq[q]
    OBVIOUS
  <2>2. PICK new : new = Acquired(c, id)
    OBVIOUS
  <2>3. held[q] = 0 /\ cap \in Nat /\ id = Best(c, epoch, Prompt[q], cap)
    BY <1>1, <1>9, <2>1, RequestIs DEF CaptureKnown, RequestOK, Previous
  <2>4. new = [entries |-> new.entries, table |-> new.table] /\ Along(new, c, {id})
    <3>1. CacheOK(new, [held EXCEPT ![q] = id]) /\ Along(new, c, {id})
      BY <1>2, <2>2, <2>3, LookupIs
    <3> QED
      BY <3>1 DEF CacheOK
  <2>5. entries' = new.entries
    <3>1. Becomes(Closed(new, id))
      BY <1>1, <1>9, <2>1, <2>2 DEF CaptureKnown
    <3> QED
      BY <2>4, <3>1, ClosedEntries DEF Becomes
  <2> QED
    BY <1>2, <2>4, <2>5, NothingEvicted DEF Along, Listed
<1>10. ASSUME NEW q \in Requests, Capture(q) PROVE EvictsRightly
  BY <1>10, CaptureEvicts
<1>11. ASSUME NEW q \in Requests, Publish(q) PROVE EvictsRightly
  <2>1. PICK d : d = [entries |-> Append(entries, next_id + 1), table |-> Extended(q)]
    OBVIOUS
  <2>2. Becomes(Closed(d, held[q]))
    BY <1>1, <1>11, <2>1 DEF Publish, CloseReservation
  <2>3. d = [entries |-> d.entries, table |-> d.table] /\ d.entries = Append(entries, next_id + 1)
    BY <2>1
  <2>4. entries' = Append(entries, next_id + 1)
    BY <2>2, <2>3, ClosedEntries DEF Becomes
  <2>5. entries \in Seq(DOMAIN table)
    BY <1>1, <1>2 DEF CacheOK, Cache
  <2>6. \A i \in DOMAIN entries : i \in DOMAIN entries' /\ entries'[i] = entries[i]
    BY <2>4, <2>5
  <2> QED
    BY <2>6, NothingEvicted DEF Has
<1>12. ASSUME NEW q \in Requests, CaptureFails(q) PROVE EvictsRightly
  BY <1>1, <1>3, <1>12 DEF CaptureFails, CloseReservation, Becomes
<1>13. CASE Drop
  <2>1. epoch \in Nat /\ epoch' = epoch + 1
    BY <1>13 DEF Drop, IInv, TypeOK
  <2> QED
    BY <2>1 DEF EvictsRightly
<1>14. CASE UNCHANGED vars
  BY <1>14, NothingEvicted DEF vars, cacheVars
<1> QED
  BY <1>4, <1>5, <1>6, <1>7, <1>8, <1>9, <1>10, <1>11, <1>12, <1>13, <1>14 DEF Next

\* Outside a flush an entry leaves the queue only while nobody reads it, behind
\* every unpinned one used earlier, and no more of them leave than a reservation
\* needs (reserve of HostPrefixCache under capture_prefix).
THEOREM EvictionIsNeeded == Spec => EvictsAsNeeded
  BY Invariant, StepEvicts, PTL DEF Spec, EvictsAsNeeded

----------------------------------------------------------------------------
(* Whose bytes a capture shares.                                           *)

\* The lane has the bytes of the request's basis while that is held, and of what
\* its reservation shares; the basis was published, so that no later one is it.
Staged(q) ==
    /\ basis[q].id <= next_id
    /\ phase[q] \in {"prefill", "boundary", "writing"} /\ basis[q].id \in DOMAIN table =>
          table[basis[q].id].segments \subseteq staged[q]
    /\ phase[q] = "writing" => reservation[q].segments \subseteq staged[q]

AllStaged ==
    /\ staged \in [Requests -> SUBSET [id : Nat, place : Nat]]
    /\ \A q \in Requests : Staged(q)

\* Checkpoints only go, and those that stay have their pages.
OnlyGo ==
    /\ next_id' = next_id
    /\ \A id \in DOMAIN table' :
          id \in DOMAIN table /\ table'[id].segments = table[id].segments

\* They do when the cache becomes one that has less.
LEMMA LessGoes ==
    ASSUME IInv, NEW d, Less(d, Cache), Becomes(d), next_id' = next_id
    PROVE  OnlyGo
BY TablesAre DEF Less, Becomes, OnlyGo

\* They do when a request closes what it holds.
LEMMA ClosingGoes ==
    ASSUME IInv, NEW q \in Requests, Becomes(Closed(Cache, reader[q])), next_id' = next_id
    PROVE  OnlyGo
<1>1. PICK c, held : c = Cache /\ held = reader
  OBVIOUS
<1>2. Less(Closed(c, held[q]), c)
  BY <1>1, TablesAre, CloseIs
<1> QED
  BY <1>1, <1>2, LessGoes

\* They do when a request is matched.
LEMMA MatchGoes ==
    ASSUME IInv, NEW q \in Requests, NEW agreed \in BOOLEAN, Match(q, agreed)
    PROVE  OnlyGo
<1>1. PICK held, h, old, cap : /\ held = reader /\ h = Emptied(held, q)
                               /\ old = Closed(Cache, held[q]) /\ cap = Len(Prompt[q])
  OBVIOUS
<1>2. PICK id : id = Best(old, epoch, Prompt[q], cap)
  OBVIOUS
<1>3. PICK new, g : new = Acquired(old, id) /\ g = [h EXCEPT ![q] = id]
  OBVIOUS
<1>4. CacheOK(old, h) /\ Less(old, Cache) /\ h \in [Requests -> Nat] /\ h[q] = 0 /\ cap \in Nat
  BY <1>1, TablesAre, CloseIs, RequestIs DEF Emptied
<1>5. CacheOK(new, g) /\ Less(new, old) /\ g[q] = id
  BY <1>2, <1>3, <1>4, LookupIs
<1>6. Less(Closed(new, id), new)
  BY <1>5, CloseIs
<1>7. PICK d : d = IF agreed THEN new ELSE Closed(new, id)
  OBVIOUS
<1>8. Becomes(d) /\ next_id' = next_id
  BY <1>1, <1>2, <1>3, <1>7 DEF Match
<1>9. Less(d, Cache)
  BY <1>4, <1>5, <1>6, <1>7, LessIsOrdered
<1> QED
  BY <1>8, <1>9, LessGoes

\* They do when a capture finds its checkpoint.
LEMMA KnownGoes ==
    ASSUME IInv, NEW q \in Requests, CaptureKnown(q)
    PROVE  OnlyGo
<1>1. PICK c, held, id, cap : c = Cache /\ held = reader /\ id = Previous(q) /\ cap = seq[q]
  OBVIOUS
<1>2. PICK new, h : new = Acquired(c, id) /\ h = [held EXCEPT ![q] = id]
  OBVIOUS
<1>3. /\ CacheOK(c, held) /\ held \in [Requests -> Nat] /\ held[q] = 0 /\ cap \in Nat
      /\ id = Best(c, epoch, Prompt[q], cap)
  BY <1>1, TablesAre, RequestIs DEF CaptureKnown, RequestOK, Previous
<1>4. CacheOK(new, h) /\ Less(new, c) /\ h[q] = id
  BY <1>2, <1>3, LookupIs
<1>5. Less(Closed(new, id), new)
  BY <1>4, CloseIs
<1>6. Becomes(Closed(new, id)) /\ next_id' = next_id
  BY <1>1, <1>2 DEF CaptureKnown
<1>7. Less(Closed(new, id), Cache)
  BY <1>1, <1>4, <1>5, LessIsOrdered
<1> QED
  BY <1>6, <1>7, LessGoes

\* They do when a capture looks up, evicts, and reserves or gives up. What it
\* reserves to share are the pages of its basis.
LEMMA CaptureGoes ==
    ASSUME IInv, NEW q \in Requests, Capture(q)
    PROVE  /\ OnlyGo
           /\ phase' = [phase EXCEPT ![q] = "prefill"] => reservation' = reservation
           /\ \/ phase' = [phase EXCEPT ![q] = "prefill"]
              \/ /\ phase' = [phase EXCEPT ![q] = "writing"]
                 /\ \A p \in Requests \ {q} : reservation'[p] = reservation[p]
                 /\ \/ reservation'[q].segments = {}
                    \/ /\ basis[q].id \in DOMAIN table
                       /\ reservation'[q].segments = table[basis[q].id].segments
<1>1. PICK c, id : c = Ancestor(q).cache /\ id = Ancestor(q).id
  OBVIOUS
<1>2. PICK start : start = IF id = 0 THEN 0 ELSE Length(c, id)
  OBVIOUS
<1>3. PICK size : size = CheckpointBytes(seq[q] - start, seq[q])
  OBVIOUS
<1>4. PICK room : room = IF size > Budget THEN c ELSE Evicted(c, Evictions(c, size))
  OBVIOUS
<1>5. PICK r : r = [size |-> size, epoch |-> epoch, start |-> start,
                    segments |-> IF id = 0 THEN {} ELSE c.table[id].segments]
  OBVIOUS
<1>6. /\ phase[q] = "boundary" /\ next_id' = next_id
      /\ IF size <= Budget /\ Fits(room, size)
           THEN /\ Becomes(room) /\ phase' = [phase EXCEPT ![q] = "writing"]
                /\ reservation' = [reservation EXCEPT ![q] = r]
           ELSE /\ Becomes(Closed(room, id)) /\ phase' = [phase EXCEPT ![q] = "prefill"]
                /\ reservation' = reservation
  BY <1>1, <1>2, <1>3, <1>4, <1>5 DEF Capture
<1>7. PICK h : h = [reader EXCEPT ![q] = id]
  OBVIOUS
<1>8. /\ CacheOK(c, h) /\ Less(c, Cache) /\ id \in Nat
      /\ id # 0 => id \in DOMAIN c.table
  BY <1>1, <1>6, <1>7, AncestorIs DEF Found
<1>9. CacheOK(room, h) /\ Less(room, c)
  <2>1. CASE size > Budget
    BY <1>4, <1>8, <2>1, LessIsOrdered
  <2>2. CASE ~(size > Budget)
    <3>1. Evictions(c, size) \in 0..Len(Victims(c))
      BY <1>8, EvictionsAre
    <3> QED
      BY <1>4, <1>8, <2>2, <3>1, EvictIs
  <2> QED
    BY <2>1, <2>2
<1>10. Less(room, Cache) /\ Less(Closed(room, id), Cache)
  <2>1. h[q] = id
    BY <1>7, <1>8, RequestIs
  <2>2. Less(Closed(room, id), room)
    BY <1>9, <2>1, CloseIs
  <2> QED
    BY <1>8, <1>9, <2>2, LessIsOrdered
<1>11. OnlyGo
  BY <1>6, <1>10, LessGoes
<1>12. id = 0 \/ id = basis[q].id
  BY <1>1 DEF Ancestor
<1>13. \/ r.segments = {}
       \/ basis[q].id \in DOMAIN table /\ r.segments = table[basis[q].id].segments
  BY <1>5, <1>8, <1>12, TablesAre DEF Less
<1>14. "prefill" # "writing" /\ phase \in [Requests -> Phases]
       /\ reservation \in [Requests -> Reservations]
  BY DEF IInv, TypeOK
<1>15. CASE size <= Budget /\ Fits(room, size)
  <2>1. phase' = [phase EXCEPT ![q] = "writing"] /\ reservation' = [reservation EXCEPT ![q] = r]
    BY <1>6, <1>15
  <2>2. phase'[q] = "writing" /\ reservation'[q] = r
        /\ \A p \in Requests \ {q} : reservation'[p] = reservation[p]
    BY <1>14, <2>1
  <2>3. phase' # [phase EXCEPT ![q] = "prefill"]
    BY <1>14, <2>2
  <2> QED
    BY <1>11, <1>13, <2>1, <2>2, <2>3
<1>16. CASE ~(size <= Budget /\ Fits(room, size))
  BY <1>6, <1>11, <1>16
<1> QED
  BY <1>15, <1>16

\* They do in a flush.
LEMMA DropGoes ==
    ASSUME IInv, Drop
    PROVE  OnlyGo
<1> DEFINE drop(id) == Cardinality({q \in {p \in Requests : phase[p] = "matched"} : reader[q] = id})
           left == [id \in DOMAIN table |-> [table[id] EXCEPT !.readers = @ - drop(id)]]
           kept == {id \in DOMAIN left : left[id].readers > 0}
<1>1. table' = Restrict(left, kept) /\ next_id' = next_id
  BY DEF Drop, Dropped, Becomes
<1>2. ASSUME NEW id \in DOMAIN table PROVE left[id].segments = table[id].segments
  <2>1. table[id] \in Snapshots
    BY TablesAre DEF CacheOK
  <2> HIDE DEF drop
  <2> QED
    BY <2>1 DEF Snapshots
<1>3. DOMAIN left = DOMAIN table
  OBVIOUS
<1> HIDE DEF left
<1>4. kept \subseteq DOMAIN table
  BY <1>3
<1> HIDE DEF kept
<1> QED
  BY <1>1, <1>2, <1>4 DEF Restrict, OnlyGo

\* A publication adds one, of the next number, with what it copied itself.
LEMMA PublishAdds ==
    ASSUME IInv, NEW q \in Requests, Publish(q)
    PROVE  \A id \in DOMAIN table' :
              \/ /\ id = next_id + 1
                 /\ table'[id].segments = reservation[q].segments \cup Copied(q, id)
              \/ id \in DOMAIN table /\ table'[id].segments = table[id].segments
<1>1. PICK n, e, k : n = next_id + 1 /\ e = Extended(q) /\ k = reader[q]
  OBVIOUS
<1>2. PICK c : c = [entries |-> Append(entries, n), table |-> e]
  OBVIOUS
<1>3. Becomes(Closed(c, k))
  BY <1>1, <1>2 DEF Publish, CloseReservation
<1>4. /\ DOMAIN e = DOMAIN table \cup {n} /\ e[n] = Snapshot(q, n)
      /\ \A id \in DOMAIN table : id # n => e[id] = table[id]
  BY <1>1 DEF Extended
<1>5. n \notin DOMAIN table
  <2>1. ASSUME n \in DOMAIN table PROVE FALSE
    <3>1. n <= next_id /\ next_id \in Nat
      BY <2>1 DEF IInv, Numbered, TypeOK
    <3> QED
      BY <1>1, <3>1
  <2> QED
    BY <2>1
<1>6. e[n].segments = reservation[q].segments \cup Copied(q, n)
  BY <1>4 DEF Snapshot
<1>7. CASE k = 0
  <2>1. table' = e
    BY <1>2, <1>3, <1>7 DEF Closed, Becomes
  <2> QED
    BY <1>1, <1>4, <1>6, <2>1
<1>8. CASE k # 0
  <2> DEFINE left == [e EXCEPT ![k].readers = @ - 1]
             gone == {i \in {k} : left[i].readers = 0 /\ ~Contains(c.entries, i)}
  <2>1. table' = Restrict(left, DOMAIN left \ gone)
    BY <1>2, <1>3, <1>8 DEF Closed, Becomes
  <2>2. k \in DOMAIN table /\ k # n /\ e[k] \in Snapshots
    <3>1. k \in DOMAIN table
      BY <1>1, <1>8, RequestIs
    <3>2. table[k] \in Snapshots
      BY <3>1, TablesAre DEF CacheOK
    <3> QED
      BY <1>4, <1>5, <3>1, <3>2
  <2>3. DOMAIN left = DOMAIN e /\ \A id \in DOMAIN e : id # k => left[id] = e[id]
    BY <1>1 DEF Extended
  <2>4. left[k].segments = e[k].segments
    <3>1. left[k] = [e[k] EXCEPT !.readers = @ - 1]
      BY <1>4, <2>2
    <3> QED
      BY <2>2, <3>1 DEF Snapshots
  <2>5. \A id \in DOMAIN e : left[id].segments = e[id].segments
    BY <2>3, <2>4
  <2> HIDE DEF left, gone
  <2>6. \A id \in DOMAIN table' : id \in DOMAIN e /\ table'[id].segments = e[id].segments
    BY <2>1, <2>3, <2>5 DEF Restrict
  <2> QED
    BY <1>1, <1>4, <1>5, <1>6, <2>6
<1> QED
  BY <1>7, <1>8

\* A request whose part is left alone has its bytes.
LEMMA StagedKept ==
    ASSUME NEW q \in Requests, Staged(q), OnlyGo,
           basis'[q] = basis[q], staged'[q] = staged[q],
           phase'[q] \in {"prefill", "boundary", "writing"} =>
              phase[q] \in {"prefill", "boundary", "writing"},
           phase'[q] = "writing" => reservation'[q].segments \subseteq staged[q]
    PROVE  Staged(q)'
BY DEF Staged, OnlyGo

\* The lanes have the bytes of what is shared, though the checkpoint restored into
\* one was evicted and another of the same tokens has been published.
LEMMA StepStages == IInv /\ AllStaged /\ [Next]_vars => AllStaged'
<1> SUFFICES ASSUME IInv, AllStaged, [Next]_vars PROVE AllStaged'
  OBVIOUS
<1>1. /\ phase \in [Requests -> Phases] /\ basis \in [Requests -> [id : Nat, length : Nat]]
      /\ staged \in [Requests -> SUBSET [id : Nat, place : Nat]]
      /\ reservation \in [Requests -> Reservations] /\ next_id \in Nat
      /\ \A q \in Requests : Staged(q)
  BY DEF IInv, TypeOK, AllStaged
<1>2. ASSUME NEW q \in Requests, Staged(q)', OnlyGo, NEW p, phase' = [phase EXCEPT ![q] = p],
             \A r \in Requests \ {q} : /\ basis'[r] = basis[r] /\ staged'[r] = staged[r]
                                       /\ reservation'[r] = reservation[r],
             staged' \in [Requests -> SUBSET [id : Nat, place : Nat]]
      PROVE  AllStaged'
  <2>1. ASSUME NEW r \in Requests \ {q} PROVE Staged(r)'
    <3>1. phase'[r] = phase[r] /\ Staged(r)
      BY <1>1, <1>2
    <3>2. phase[r] = "writing" => reservation[r].segments \subseteq staged[r]
      BY <3>1 DEF Staged
    <3> QED
      BY <1>2, <3>1, <3>2, StagedKept
  <2> QED
    BY <1>2, <2>1 DEF AllStaged
<1>3. ASSUME NEW q \in Requests, OnlyGo, NEW p, phase' = [phase EXCEPT ![q] = p],
             p \in {"prefill", "boundary"} => phase[q] \in {"prefill", "boundary", "writing"},
             p # "writing", UNCHANGED <<basis, staged>>,
             \A r \in Requests \ {q} : reservation'[r] = reservation[r]
      PROVE  AllStaged'
  <2>1. Staged(q)'
    <3>1. phase'[q] = p /\ Staged(q)
      BY <1>1, <1>3
    <3> QED
      BY <1>3, <3>1, StagedKept
  <2> QED
    BY <1>1, <1>2, <1>3, <2>1
<1>4. ASSUME NEW q \in Requests, NEW agreed \in BOOLEAN, Match(q, agreed) PROVE AllStaged'
  <2>1. PICK p \in {"waiting", "matched"} : phase' = [phase EXCEPT ![q] = p]
    BY <1>4 DEF Match
  <2>2. OnlyGo /\ UNCHANGED <<basis, staged, reservation>>
    BY <1>4, MatchGoes DEF Match
  <2> QED
    BY <1>3, <2>1, <2>2
<1>5. ASSUME NEW q \in Requests, Start(q) PROVE AllStaged'
  <2>1. PICK k, s : k = reader[q] /\ s = IF phase[q] = "matched" THEN table[k].segments ELSE {}
    OBVIOUS
  <2>2. /\ OnlyGo /\ phase' = [phase EXCEPT ![q] = "prefill"] /\ reservation' = reservation
        /\ staged' = [staged EXCEPT ![q] = s]
        /\ phase[q] # "matched" => k = 0
        /\ \E length : basis' = [basis EXCEPT ![q] = [id |-> k, length |-> length]]
    <3>1. phase[q] # "writing" /\ (reader[q] # 0 => phase[q] \in {"matched", "writing"})
      BY <1>5, RequestIs DEF Start, RequestOK
    <3>2. next_id' = next_id /\ Becomes(Closed(Cache, reader[q]))
      BY <1>5 DEF Start
    <3> QED
      BY <1>5, <2>1, <3>1, <3>2, ClosingGoes DEF Start
  <2>3. phase[q] = "matched" => k \in DOMAIN table /\ table[k].segments \in SUBSET Names
    <3>1. phase[q] = "matched" => k \in DOMAIN table
      BY <2>1, RequestIs DEF RequestOK, MatchOK
    <3> QED
      BY <3>1, TablesAre, SnapshotIs
  <2>4. k <= next_id /\ 0 \notin DOMAIN table
    <3>1. k = 0 \/ k \in DOMAIN table
      BY <2>1, RequestIs
    <3>2. 0 \notin DOMAIN table /\ \A id \in DOMAIN table : id <= next_id
      BY TablesAre DEF CacheOK, IInv, Numbered
    <3> QED
      BY <1>1, <3>1, <3>2
  <2>5. basis'[q].id = k /\ staged'[q] = s
    BY <1>1, <2>2
  <2>6. Staged(q)'
    <3>1. phase'[q] = "prefill"
      BY <1>1, <2>2
    <3>2. k \in DOMAIN table' => phase[q] = "matched" /\ table'[k].segments = s
      BY <2>1, <2>2, <2>4 DEF OnlyGo
    <3> QED
      BY <2>2, <2>4, <2>5, <3>1, <3>2 DEF Staged, OnlyGo
  <2>7. staged' \in [Requests -> SUBSET [id : Nat, place : Nat]]
    <3>1. s \in SUBSET [id : Nat, place : Nat]
      BY <2>1, <2>3 DEF Names
    <3> QED
      BY <1>1, <2>2, <3>1
  <2>8. \A r \in Requests \ {q} : /\ basis'[r] = basis[r] /\ staged'[r] = staged[r]
                                  /\ reservation'[r] = reservation[r]
    BY <1>1, <2>2
  <2> QED
    BY <1>2, <2>2, <2>6, <2>7, <2>8
<1>6. ASSUME NEW q \in Requests, NEW length \in 1..Len(Prompt[q]), NEW aligned \in BOOLEAN,
             Forward(q, length, aligned)
      PROVE  AllStaged'
  <2>1. PICK p \in {"prefill", "boundary"} : phase' = [phase EXCEPT ![q] = p]
    BY <1>6 DEF Forward
  <2>2. OnlyGo /\ UNCHANGED <<basis, staged, reservation>> /\ phase[q] = "prefill"
    BY <1>6 DEF Forward, cacheVars, OnlyGo
  <2> QED
    BY <1>3, <2>1, <2>2
<1>7. ASSUME NEW q \in Requests, Leave(q) PROVE AllStaged'
  <2>1. /\ OnlyGo /\ phase' = [phase EXCEPT ![q] = "done"] /\ UNCHANGED <<basis, reservation>>
        /\ staged' = [staged EXCEPT ![q] = {}]
    BY <1>7, ClosingGoes DEF Leave
  <2>2. Staged(q)'
    <3>1. phase'[q] = "done" /\ Staged(q)
      BY <1>1, <2>1
    <3> QED
      BY <2>1, <3>1 DEF Staged, OnlyGo
  <2>3. staged' \in [Requests -> SUBSET [id : Nat, place : Nat]]
        /\ \A r \in Requests \ {q} : staged'[r] = staged[r]
    BY <1>1, <2>1
  <2> QED
    BY <1>2, <2>1, <2>2, <2>3
<1>8. ASSUME NEW q \in Requests, CaptureStale(q) PROVE AllStaged'
  <2>1. /\ OnlyGo /\ UNCHANGED <<basis, staged, reservation>> /\ phase[q] = "boundary"
        /\ phase' = [phase EXCEPT ![q] = "prefill"]
    BY <1>8 DEF CaptureStale, cacheVars, OnlyGo
  <2> QED
    BY <1>3, <2>1
<1>9. ASSUME NEW q \in Requests, CaptureKnown(q) PROVE AllStaged'
  <2>1. /\ OnlyGo /\ UNCHANGED <<basis, staged, reservation>> /\ phase[q] = "boundary"
        /\ phase' = [phase EXCEPT ![q] = "prefill"]
    BY <1>9, KnownGoes DEF CaptureKnown
  <2> QED
    BY <1>3, <2>1
<1>10. ASSUME NEW q \in Requests, Capture(q) PROVE AllStaged'
  <2>1. OnlyGo /\ UNCHANGED <<basis, staged>> /\ phase[q] = "boundary" /\ Staged(q)
    BY <1>1, <1>10, CaptureGoes DEF Capture
  <2>2. CASE phase' = [phase EXCEPT ![q] = "prefill"]
    <3>1. reservation' = reservation
      BY <1>10, <2>2, CaptureGoes
    <3> QED
      BY <1>3, <2>1, <2>2, <3>1
  <2>3. CASE ~(phase' = [phase EXCEPT ![q] = "prefill"])
    <3>1. /\ phase' = [phase EXCEPT ![q] = "writing"]
          /\ \A p \in Requests \ {q} : reservation'[p] = reservation[p]
          /\ \/ reservation'[q].segments = {}
             \/ /\ basis[q].id \in DOMAIN table
                /\ reservation'[q].segments = table[basis[q].id].segments
      BY <1>10, <2>3, CaptureGoes
    <3>2. reservation'[q].segments \subseteq staged[q]
      BY <2>1, <3>1 DEF Staged
    <3>3. Staged(q)'
      BY <2>1, <3>2, StagedKept
    <3> QED
      BY <1>1, <1>2, <2>1, <3>1, <3>3
  <2> QED
    BY <2>2, <2>3
<1>11. ASSUME NEW q \in Requests, Publish(q) PROVE AllStaged'
  <2>1. PICK n : n = next_id + 1
    OBVIOUS
  <2>2. /\ phase[q] = "writing" /\ next_id' = n
        /\ basis' = [basis EXCEPT ![q] = [id |-> n, length |-> seq[q]]]
        /\ staged' = [staged EXCEPT ![q] = @ \cup Copied(q, n)]
        /\ phase' = [phase EXCEPT ![q] = "prefill"]
        /\ reservation' = [reservation EXCEPT ![q] = NoReservation]
    BY <1>11, <2>1 DEF Publish, CloseReservation
  <2>3. n \notin DOMAIN table
    <3>1. \A id \in DOMAIN table : id <= next_id
      BY DEF IInv, Numbered
    <3> QED
      BY <1>1, <2>1, <3>1
  <2>4. \A id \in DOMAIN table' :
           \/ id = n /\ table'[id].segments = reservation[q].segments \cup Copied(q, id)
           \/ id \in DOMAIN table /\ table'[id].segments = table[id].segments
    BY <1>11, <2>1, PublishAdds
  <2>5. /\ basis'[q].id = n /\ staged'[q] = staged[q] \cup Copied(q, n) /\ phase'[q] = "prefill"
        /\ \A r \in Requests \ {q} : /\ basis'[r] = basis[r] /\ staged'[r] = staged[r]
                                     /\ phase'[r] = phase[r] /\ reservation'[r] = reservation[r]
    BY <1>1, <2>2
  <2>6. n <= n /\ n \in Nat
    BY <1>1, <2>1
  <2>7. Staged(q)'
    <3>1. reservation[q].segments \subseteq staged[q]
      BY <1>1, <2>2 DEF Staged
    <3>2. n \in DOMAIN table' => table'[n].segments \subseteq staged'[q]
      BY <2>3, <2>4, <2>5, <3>1
    <3> QED
      BY <2>2, <2>5, <2>6, <3>2 DEF Staged
  <2>8. ASSUME NEW r \in Requests \ {q} PROVE Staged(r)'
    <3>1. Staged(r) /\ basis[r].id \in Nat
      BY <1>1
    <3>2. basis[r].id <= n /\ basis[r].id # n
      BY <1>1, <2>1, <3>1 DEF Staged
    <3>3. basis[r].id \in DOMAIN table' =>
             /\ basis[r].id \in DOMAIN table
             /\ table'[basis[r].id].segments = table[basis[r].id].segments
      BY <2>4, <3>2
    <3> QED
      BY <2>2, <2>5, <3>1, <3>2, <3>3 DEF Staged
  <2>9. staged' \in [Requests -> SUBSET [id : Nat, place : Nat]]
    <3>1. Copied(q, n) \in SUBSET [id : Nat, place : Nat]
      <4>1. reservation[q].start \in Nat /\ seq[q] \in Nat
        BY <1>1, RequestIs DEF Reservations
      <4> QED
        BY <2>6, <4>1 DEF Copied
    <3> QED
      BY <1>1, <2>2, <3>1
  <2> QED
    BY <2>7, <2>8, <2>9 DEF AllStaged
<1>12. ASSUME NEW q \in Requests, CaptureFails(q) PROVE AllStaged'
  <2>1. /\ OnlyGo /\ UNCHANGED <<basis, staged>> /\ phase[q] = "writing"
        /\ phase' = [phase EXCEPT ![q] = "prefill"]
        /\ reservation' = [reservation EXCEPT ![q] = NoReservation]
    BY <1>12, ClosingGoes DEF CaptureFails, CloseReservation
  <2>2. \A r \in Requests \ {q} : reservation'[r] = reservation[r]
    BY <1>1, <2>1
  <2> QED
    BY <1>3, <2>1, <2>2
<1>13. CASE Drop
  <2>1. OnlyGo /\ UNCHANGED <<basis, staged, reservation>>
    BY <1>13, DropGoes DEF Drop
  <2>2. phase' = [q \in Requests |-> IF phase[q] = "matched" THEN "waiting" ELSE phase[q]]
    BY <1>13 DEF Drop
  <2>3. ASSUME NEW q \in Requests PROVE Staged(q)'
    <3>1. phase'[q] = IF phase[q] = "matched" THEN "waiting" ELSE phase[q]
      BY <2>2
    <3>2. Staged(q) /\ (phase[q] = "writing" => reservation[q].segments \subseteq staged[q])
      BY <1>1 DEF Staged
    <3> QED
      BY <2>1, <3>1, <3>2, StagedKept
  <2> QED
    BY <1>1, <2>1, <2>3 DEF AllStaged
<1>14. CASE UNCHANGED vars
  BY <1>14 DEF vars, cacheVars, requestVars, AllStaged, Staged
<1> QED
  BY <1>4, <1>5, <1>6, <1>7, <1>8, <1>9, <1>10, <1>11, <1>12, <1>13, <1>14 DEF Next

\* What a capture shares of an earlier checkpoint are pages its own lane has the
\* bytes of, whatever was evicted, flushed and published since it was restored
\* (the two lookups of capture_prefix against the request's basis).
THEOREM SharedPagesAreStaged == Spec => []SharedPagesStaged
<1>1. Init => AllStaged
  <2> SUFFICES ASSUME Init PROVE AllStaged
    OBVIOUS
  <2>1. \A q \in Requests : basis[q].id = 0 /\ phase[q] = "waiting"
    BY DEF Init, NoBasis
  <2>2. next_id = 0 /\ staged = [q \in Requests |-> {}]
    BY DEF Init
  <2> QED
    BY <2>1, <2>2 DEF AllStaged, Staged
<1>2. AllStaged => SharedPagesStaged
  BY DEF AllStaged, Staged, SharedPagesStaged
<1> QED
  BY <1>1, <1>2, Invariant, StepStages, PTL DEF Spec

\* Checkpoints share pages of the same tokens only, and a capture those whose
\* bytes it has (capture_prefix and restore_prefix).
THEOREM SharingIsExact == Spec => []SharingExact
  BY PagesAreShared, SharedPagesAreStaged, PTL DEF SharingExact

=============================================================================
