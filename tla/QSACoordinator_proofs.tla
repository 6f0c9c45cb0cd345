------------------------ MODULE QSACoordinator_proofs ------------------------
(***************************************************************************)
(* What the ranks of QSACoordinator agree on, proved for any set of ranks, *)
(* any prompts and any number of requests.                                 *)
(*                                                                         *)
(* Between two collectives a rank decides alone, and what it decides is a  *)
(* function of what it sees and of the last outcome. Goal is that          *)
(* function: the collective the rank will join next and what it will see   *)
(* when it does. A step of a rank leaves its goal, so ranks that left a    *)
(* collective together join the next one together, however far apart they  *)
(* are in between. Of the completed copies, which differ among the ranks,  *)
(* only the votes speak.                                                   *)
(***************************************************************************)
EXTENDS QSACoordinator, SequenceTheorems, FiniteSetTheorems, NaturalsInduction,
        WellFoundedInduction, TLAPS

Places == {"receive", "received", "total", "votes", "schedule", "forward", "dead"}
Prompts == {NoPrompt} \cup [req : Reqs, end : Nat]

TypeOK ==
    /\ at \in [Ranks -> Places]
    /\ DOMAIN joined = Ranks /\ DOMAIN outcome = Ranks
    /\ waiting \in [Ranks -> SUBSET Reqs]
    /\ chunked \in [Ranks -> Prompts]
    /\ DOMAIN captured = Ranks /\ DOMAIN to_finish = Ranks
    /\ idle \in [Ranks -> BOOLEAN]
    /\ ack_staging_queue \in [Ranks -> Seq(Reqs)]
    /\ copied \in [Ranks -> SUBSET Reqs]
    /\ wait_initial_pair \in [Ranks -> BOOLEAN]
    /\ admitted \in [Ranks -> Seq(Reqs)]
    /\ running \in [Ranks -> SUBSET Reqs]
    /\ faults \in Nat

----------------------------------------------------------------------------
(* What a rank sees, and what it does with it until its next collective.   *)

View(r) ==
    [waiting |-> waiting[r], chunked |-> chunked[r], marked |-> to_finish[r],
     parked |-> ack_staging_queue[r], initial |-> wait_initial_pair[r], running |-> running[r]]

KindOf(o) == o[Chief].kind

LeasedIn(v) ==
    Len(v.parked) + Cardinality(v.running) + (IF v.chunked = NoPrompt THEN 0 ELSE 1)

NextIn(v) ==
    IF v.chunked # NoPrompt THEN v.chunked.req
    ELSE IF LeasedIn(v) < MaxRequests /\ v.waiting # {} THEN Min(v.waiting) ELSE 0

AfterTotal(v, o) ==
    [waiting |-> v.waiting \ o[Chief].aborts, chunked |-> v.chunked,
     marked |-> v.marked \cup (o[Chief].aborts \cap (v.running \cup ToSet(v.parked))),
     parked |-> v.parked, initial |-> v.initial, running |-> v.running]

AgreedIn(o) == Min({o[s].count : s \in Ranks})
WaitsIn(v, o) == v.initial /\ AgreedIn(o) < Target
CountIn(v, o) == IF WaitsIn(v, o) THEN 0 ELSE AgreedIn(o)

AfterAdmit(v, o) ==
    [waiting |-> v.waiting, chunked |-> v.chunked, marked |-> v.marked,
     parked |-> SubSeq(v.parked, CountIn(v, o) + 1, Len(v.parked)),
     initial |-> WaitsIn(v, o),
     running |-> v.running \cup ToSet(SubSeq(v.parked, 1, CountIn(v, o)))]

AfterPrefill(v) ==
    [waiting |-> IF v.chunked = NoPrompt THEN v.waiting \ {NextIn(v)} ELSE v.waiting,
     chunked |-> [req |-> NextIn(v),
                  end |-> ChunkEnd(NextIn(v), IF v.chunked = NoPrompt THEN Basis(NextIn(v))
                                              ELSE v.chunked.end)],
     marked |-> v.marked, parked |-> v.parked, initial |-> v.initial, running |-> v.running]

Scheduled(v) ==
    IF NextIn(v) # 0 THEN <<"prefill", AfterPrefill(v)>>
    ELSE IF v.running # {} THEN <<"decode", v>> ELSE <<"receive", v>>

AfterPrompt(v) ==
    IF v.chunked.end < Prompt[v.chunked.req] THEN v
    ELSE [waiting |-> v.waiting, chunked |-> NoPrompt, marked |-> v.marked,
          parked |-> IF v.chunked.req \in Instant THEN v.parked
                     ELSE Append(v.parked, v.chunked.req),
          initial |-> v.initial, running |-> v.running]

AfterDecode(v) ==
    [waiting |-> v.waiting, chunked |-> v.chunked, marked |-> v.marked, parked |-> v.parked,
     initial |-> v.initial,
     running |-> v.running \ (IF v.running \cap v.marked # {} THEN v.running \cap v.marked
                              ELSE {Min(v.running)})]

\* From its place, the collective that a rank joins next and what it then sees.
After(place, v, o) ==
    CASE place = "receive" -> <<"receive", v>>
      [] place = "received" -> <<"total", AfterTotal(v, o)>>
      [] place = "total" -> IF \A s \in Ranks : o[s].size = 0 THEN Scheduled(v) ELSE <<"votes", v>>
      [] place = "votes" -> Scheduled(AfterAdmit(v, o))
      [] place = "schedule" -> Scheduled(v)
      [] place = "forward" ->
            <<"receive", IF KindOf(o) = "prefill" THEN AfterPrompt(v) ELSE AfterDecode(v)>>
      [] place = "dead" -> <<"dead", v>>

Goal(r) ==
    IF joined[r] # Nothing THEN <<joined[r].kind, View(r)>> ELSE After(at[r], View(r), outcome[r])

----------------------------------------------------------------------------
(* The inductive invariant.                                                *)

\* What a rank brings to a collective is what it sees, and its place tells
\* which collective it is.
JoinedExact(r) ==
    \/ joined[r] = Nothing
    \/ at[r] = "received" /\ joined[r].kind = "receive"
    \/ at[r] = "total" /\ joined[r].kind = "total"
    \/ /\ at[r] = "votes" /\ joined[r].kind = "votes"
       /\ joined[r].ids = ack_staging_queue[r]
       /\ joined[r].count \in 0..Len(ack_staging_queue[r])
       /\ \A i \in 1..joined[r].count : ack_staging_queue[r][i] \in copied[r]
       /\ joined[r].target = IF wait_initial_pair[r] THEN Target ELSE 0
    \/ /\ at[r] = "forward" /\ joined[r].kind = "prefill"
       /\ chunked[r] # NoPrompt
       /\ joined[r].reqs = {chunked[r].req} /\ joined[r].end = chunked[r].end
    \/ /\ at[r] = "forward" /\ joined[r].kind = "decode"
       /\ joined[r].reqs = running[r] /\ joined[r].end = 0

\* What a vote gave, before it is acted on.
VotesExact(r) ==
    \A s \in Ranks :
       /\ outcome[r][s].ids = ack_staging_queue[r]
       /\ outcome[r][s].count \in 0..Len(ack_staging_queue[r])
       /\ \A i \in 1..outcome[r][s].count : ack_staging_queue[r][i] \in copied[s]
       /\ outcome[r][s].target = IF wait_initial_pair[r] THEN Target ELSE 0

\* A rank that has not joined stands behind the collective of its outcome.
OutcomeExact(r) ==
    joined[r] = Nothing =>
       /\ at[r] = "received" => KindOf(outcome[r]) = "receive"
       /\ at[r] = "total" => KindOf(outcome[r]) = "total"
       /\ at[r] = "votes" => KindOf(outcome[r]) = "votes" /\ VotesExact(r)
       /\ at[r] = "forward" =>
             \/ KindOf(outcome[r]) = "prefill" /\ chunked[r] # NoPrompt
             \/ KindOf(outcome[r]) = "decode" /\ outcome[r][r].reqs = running[r]

OutcomesShared ==
    \A r, s \in Ranks : outcome[r] = outcome[s] /\ outcome[r][s].kind = KindOf(outcome[r])

GoalsAgree ==
    \A r, s \in Ranks : at[r] # "dead" /\ at[s] # "dead" => Goal(r) = Goal(s)

\* What the last votes admit, <<>> when the last collective was not a vote.
Grant(o) ==
    IF KindOf(o) # "votes" \/ AgreedIn(o) < o[Chief].target THEN <<>>
    ELSE SubSeq(o[Chief].ids, 1, AgreedIn(o))

Undecided(r) == at[r] = "votes" /\ joined[r] = Nothing

\* Every rank has admitted base, and what the last votes grant unless it has
\* not acted on them. One that died did so before or after.
AdmittedFrom(base) ==
    \A r \in Ranks :
       /\ Grant(outcome[r]) \in Seq(Reqs)
       /\ admitted[r] \in {base, base \o Grant(outcome[r])}
       /\ Undecided(r) => admitted[r] = base
       /\ at[r] # "dead" /\ ~Undecided(r) => admitted[r] = base \o Grant(outcome[r])

AdmittedCopied == \A r, s \in Ranks : ToSet(admitted[r]) \subseteq copied[s]

DeathsCounted ==
    faults <= MaxFaults /\ ((\E r \in Ranks : at[r] = "dead") => faults < MaxFaults)

Agreement ==
    /\ \A r \in Ranks : JoinedExact(r) /\ OutcomeExact(r)
    /\ OutcomesShared
    /\ GoalsAgree
    /\ \E base \in Seq(Reqs) : AdmittedFrom(base)
    /\ AdmittedCopied
    /\ DeathsCounted

\* A request is in one place of a rank, and once in the queue of the parked.
Apart(r) ==
    /\ ToSet(ack_staging_queue[r]) \cap running[r] = {}
    /\ (ToSet(ack_staging_queue[r]) \cup running[r]) \cap waiting[r] = {}
    /\ chunked[r].req \notin ToSet(ack_staging_queue[r]) \cup running[r] \cup waiting[r]
    /\ \A i, j \in DOMAIN ack_staging_queue[r] :
          ack_staging_queue[r][i] = ack_staging_queue[r][j] => i = j

AbortsFound(r) ==
    at[r] = "total" /\ KindOf(outcome[r]) = "receive" =>
       outcome[r][Chief].aborts \cap (ToSet(ack_staging_queue[r]) \cup running[r] \cup waiting[r])
           \subseteq to_finish[r]

Whole(r, q) == Hit[q] < Boundary(q) => <<q, Boundary(q)>> \in captured[r]

\* A prompt never crosses its last page boundary without being stashed at it.
PrefixesKept(r) ==
    /\ \A q \in ToSet(ack_staging_queue[r]) \cup running[r] : Whole(r, q)
    /\ chunked[r] # NoPrompt =>
          /\ chunked[r].end <= Prompt[chunked[r].req]
          /\ \/ chunked[r].end > Boundary(chunked[r].req)
             \/ /\ chunked[r].end = Boundary(chunked[r].req)
                /\ at[r] \in {"total", "votes", "schedule"}
             => Whole(r, chunked[r].req)

IdleExact(r) ==
    idle[r] =>
       /\ at[r] \in {"receive", "received", "dead"}
       /\ ack_staging_queue[r] = <<>> /\ running[r] = {} /\ chunked[r] = NoPrompt

LocatedAt(r) == Apart(r) /\ AbortsFound(r) /\ PrefixesKept(r) /\ IdleExact(r)

Located == \A r \in Ranks : LocatedAt(r)

IInv == TypeOK /\ Agreement /\ Located

----------------------------------------------------------------------------
(* Numbers and sequences.                                                  *)

\* A nonempty set of natural numbers has a least element, and Min is it.
LEMMA MinIs ==
    ASSUME NEW S \in SUBSET Nat, S # {}
    PROVE  Min(S) \in S /\ \A y \in S : Min(S) <= y
<1>1. PICK x \in S : \A y \in S : ~(<<y, x>> \in OpToRel(<, Nat))
  BY WFMin, NatLessThanWellFounded
<1>2. ASSUME NEW y \in S PROVE x <= y
  <2>1. y \in Nat /\ x \in Nat
    OBVIOUS
  <2>2. ~(y < x)
    BY <1>1, <2>1 DEF OpToRel
  <2> QED
    BY <2>1, <2>2
<1> QED
  BY <1>2, Zenon DEF Min

\* Among the first n numbers and 0, a set that has 0 has a greatest element.
LEMMA MaxIs ==
    ASSUME NEW n \in Nat, NEW S \in SUBSET (0..n), 0 \in S
    PROVE  Max(S) \in S /\ \A y \in S : Max(S) >= y
<1> DEFINE T == {n - x : x \in S}
<1>1. T \in SUBSET Nat /\ T # {}
  OBVIOUS
<1>2. Min(T) \in T /\ \A y \in T : Min(T) <= y
  BY <1>1, MinIs
<1>3. PICK x \in S : Min(T) = n - x
  BY <1>2
<1>4. \A y \in S : x >= y
  <2>1. ASSUME NEW y \in S PROVE x >= y
    <3>1. n - y \in T
      OBVIOUS
    <3>2. n - x <= n - y /\ x \in 0..n /\ y \in 0..n
      BY <1>2, <1>3, <3>1
    <3> QED
      BY <3>2
  <2> QED
    BY <2>1
<1> QED
  BY <1>3, <1>4, Zenon DEF Max

\* Division with remainder, in one place.
LEMMA Division ==
    ASSUME NEW n \in Nat, NEW p \in Nat \ {0}
    PROVE  /\ n \div p \in Nat /\ n % p \in 0..(p - 1)
           /\ n = (p * (n \div p)) + (n % p)
OBVIOUS

\* The whole pages of a length: no more than it, and a number of pages.
LEMMA WholePages ==
    ASSUME NEW n \in Nat, NEW p \in Nat \ {0}
    PROVE  /\ (n \div p) * p \in Nat /\ (n \div p) * p <= n
           /\ ((n \div p) * p) % p = 0
<1> DEFINE k == n \div p
<1>1. k \in Nat /\ n % p \in 0..(p - 1) /\ n = (p * k) + (n % p)
  BY Division
<1>2. k * p \in Nat /\ k * p = p * k
  BY <1>1
<1> DEFINE m == k * p
           d == m \div p
           e == m % p
<1>3. m \in Nat /\ d \in Nat /\ e \in 0..(p - 1) /\ m = (p * d) + e
  <2>1. m \in Nat
    BY <1>2
  <2> HIDE DEF m
  <2> QED
    BY <2>1, Division
<1> HIDE DEF d, e
<1>4. p * k = p * d + e
  BY <1>2, <1>3
<1> HIDE DEF m, k
<1>5. e = 0
  <2>1. k \in Nat /\ d \in Nat /\ p \in Nat /\ p > 0 /\ e \in Nat /\ e < p
    BY <1>1, <1>3
  <2>2. CASE k <= d
    <3>1. p * k <= p * d
      BY <2>1, <2>2
    <3> QED
      BY <1>4, <2>1, <3>1
  <2>3. CASE k > d
    <3>1. k >= d + 1
      BY <2>1, <2>3
    <3>2. p * k >= p * (d + 1)
      BY <2>1, <3>1
    <3>3. p * (d + 1) = p * d + p
      BY <2>1
    <3> QED
      BY <1>4, <2>1, <3>2, <3>3
  <2> QED
    BY <2>1, <2>2, <2>3
<1> QED
  BY <1>1, <1>2, <1>5 DEF d, e, m, k

----------------------------------------------------------------------------
(* What the constants give.                                                *)

\* The requests are the first numbers, and the limits are numbers.
LEMMA Given ==
    /\ IsFiniteSet(Ranks) /\ Chief \in Ranks
    /\ Requests \in Nat /\ Reqs \subseteq Nat \ {0} /\ IsFiniteSet(Reqs)
    /\ PageSize \in Nat \ {0} /\ MaxRequests \in Nat \ {0} /\ Chunk \in Nat /\ Target \in Nat
    /\ MaxFaults \in Nat
    /\ \A q \in Reqs : Prompt[q] \in Nat /\ Hit[q] \in Nat /\ Hit[q] < Prompt[q]
<1>1. Requests \in Nat /\ MaxRequests \in Nat \ {0} /\ PageSize \in Nat \ {0} /\ MaxFaults \in Nat
  BY CoordinatorAssumption
<1>2. IsFiniteSet(1..Requests)
  BY <1>1, FS_Interval
<1>3. Target \in 0..MaxRequests
  BY CoordinatorAssumption
<1>4. Target \in Nat
  BY <1>1, <1>3
<1> QED
  BY <1>1, <1>2, <1>4, CoordinatorAssumption DEF Reqs

\* The last page boundary of a prompt.
LEMMA BoundaryIs ==
    ASSUME NEW q \in Reqs
    PROVE  Boundary(q) \in Nat /\ Boundary(q) <= Prompt[q] /\ Boundary(q) % PageSize = 0
BY Given, WholePages DEF Boundary

\* A chunk stays within the prompt, and one that begins before the last page
\* boundary does not go past it.
LEMMA ChunkEndIs ==
    ASSUME NEW q \in Reqs, NEW begin \in Nat
    PROVE  /\ ChunkEnd(q, begin) \in Nat /\ ChunkEnd(q, begin) <= Prompt[q]
           /\ begin < Boundary(q) => ChunkEnd(q, begin) <= Boundary(q)
<1> DEFINE S == {Prompt[q]}
                  \cup (IF Chunk # 0 THEN {begin + Chunk} ELSE {})
                  \cup (IF begin < Boundary(q) THEN {Boundary(q)} ELSE {})
<1>1. S \in SUBSET Nat /\ Prompt[q] \in S /\ (begin < Boundary(q) => Boundary(q) \in S)
  BY Given, BoundaryIs
<1>2. ChunkEnd(q, begin) = Min(S)
  BY DEF ChunkEnd
<1> HIDE DEF S
<1>3. Min(S) \in S /\ \A y \in S : Min(S) <= y
  BY <1>1, MinIs
<1>4. Min(S) \in Nat
  BY <1>1, <1>3
<1> QED
  BY <1>1, <1>2, <1>3, <1>4, Zenon

\* A prompt begins where its host prefix ends, however the request will end.
LEMMA BasisIsHit == \A q \in Reqs : Basis(q) = Hit[q]
BY DEF Basis

\* The prompt that a prefill would take is on the lane, or the first of the
\* queue with a free slot.
LEMMA NextIs ==
    ASSUME TypeOK, NEW r \in Ranks, NextPrompt(r) # 0
    PROVE  /\ NextPrompt(r) \in Reqs
           /\ chunked[r] # NoPrompt => NextPrompt(r) = chunked[r].req
           /\ chunked[r] = NoPrompt =>
                 NextPrompt(r) \in waiting[r] /\ Leased(r) < MaxRequests
<1>1. CASE chunked[r] # NoPrompt
  BY <1>1 DEF TypeOK, Prompts, NextPrompt
<1>2. CASE chunked[r] = NoPrompt
  <2>1. Allocatable(r) /\ waiting[r] # {} /\ NextPrompt(r) = Min(waiting[r])
    BY <1>2 DEF NextPrompt
  <2>2. waiting[r] \in SUBSET Nat /\ waiting[r] \subseteq Reqs
    BY Given DEF TypeOK
  <2>3. Min(waiting[r]) \in waiting[r]
    BY <2>1, <2>2, MinIs
  <2> QED
    BY <1>2, <2>1, <2>2, <2>3 DEF Allocatable
<1> QED
  BY <1>1, <1>2

\* The slots that are taken are counted by a number.
LEMMA LeasedIsNat ==
    ASSUME TypeOK, NEW r \in Ranks
    PROVE  Leased(r) \in Nat
<1>1. IsFiniteSet(running[r])
  BY Given, FS_Subset DEF TypeOK
<1>2. Cardinality(running[r]) \in Nat
  BY <1>1, FS_CardinalityType
<1>3. Len(ack_staging_queue[r]) \in Nat
  BY LenProperties DEF TypeOK
<1> QED
  BY <1>2, <1>3 DEF Leased

\* What a rank schedules never raises: the slot is free and the prefix that
\* was matched is the one it begins with.
LEMMA NeverRaises ==
    ASSUME TypeOK, NEW r \in Ranks, NextPrompt(r) # 0
    PROVE  ~ScheduleRaises(r, NextPrompt(r))
<1>1. NextPrompt(r) \in Reqs
  BY NextIs
<1>2. Basis(NextPrompt(r)) = Hit[NextPrompt(r)]
  BY <1>1, BasisIsHit
<1>3. CASE chunked[r] # NoPrompt
  BY <1>3 DEF ScheduleRaises
<1>4. CASE chunked[r] = NoPrompt
  <2>1. Leased(r) < MaxRequests
    BY <1>4, NextIs
  <2>2. Leased(r) \in Nat /\ MaxRequests \in Nat
    BY LeasedIsNat, Given
  <2>3. ~(Leased(r) >= MaxRequests)
    BY <2>1, <2>2
  <2> QED
    BY <1>2, <2>3, Zenon DEF ScheduleRaises
<1> QED
  BY <1>3, <1>4

\* The count of a vote is a length of the queue, and all before it is copied.
LEMMA ReadyCountIs ==
    ASSUME TypeOK, NEW r \in Ranks
    PROVE  /\ ReadyCount(r) \in 0..Len(ack_staging_queue[r])
           /\ \A i \in 1..ReadyCount(r) : ack_staging_queue[r][i] \in copied[r]
<1> DEFINE n == Len(ack_staging_queue[r])
           S == {m \in 0..n : \A i \in 1..m : ack_staging_queue[r][i] \in copied[r]}
<1>1. n \in Nat
  BY LenProperties DEF TypeOK
<1>2. S \in SUBSET (0..n) /\ 0 \in S
  BY <1>1
<1>3. ReadyCount(r) = Max(S)
  BY DEF ReadyCount
<1>4. Max(S) \in S
  BY <1>1, <1>2, MaxIs
<1> QED
  BY <1>3, <1>4

----------------------------------------------------------------------------
(* The actions, by what they change.                                       *)

\* Nothing of rank s changes but its copies.
Same(s) ==
    /\ at'[s] = at[s] /\ joined'[s] = joined[s] /\ outcome'[s] = outcome[s]
    /\ waiting'[s] = waiting[s] /\ chunked'[s] = chunked[s] /\ captured'[s] = captured[s]
    /\ to_finish'[s] = to_finish[s] /\ idle'[s] = idle[s]
    /\ ack_staging_queue'[s] = ack_staging_queue[s]
    /\ wait_initial_pair'[s] = wait_initial_pair[s] /\ admitted'[s] = admitted[s]
    /\ running'[s] = running[s]

\* The steps that a rank takes alone.
RankStep(r) ==
    \/ JoinReceive(r) \/ JoinTotal(r) \/ JoinVotes(r) \/ Admit(r)
    \/ SchedulePrefill(r) \/ ScheduleDecode(r) \/ ScheduleNothing(r)
    \/ PrefillResult(r) \/ DecodeResult(r) \/ Dies(r) \/ PeerLost(r)

\* A rank's step leaves the other ranks, the outcomes and the copies alone.
LEMMA StepsAlone ==
    ASSUME TypeOK, NEW r \in Ranks, RankStep(r)
    PROVE  (\A s \in Ranks \ {r} : Same(s)) /\ outcome' = outcome /\ copied' = copied
<1> USE DEF TypeOK, Same, promptVars, admitVars, Goes, Joins
<1>1. CASE JoinReceive(r)
  BY <1>1 DEF JoinReceive
<1>2. CASE JoinTotal(r)
  BY <1>2 DEF JoinTotal, Captures
<1>3. CASE JoinVotes(r)
  BY <1>3 DEF JoinVotes
<1>4. CASE Admit(r)
  BY <1>4 DEF Admit
<1>5. CASE SchedulePrefill(r)
  BY <1>5 DEF SchedulePrefill
<1>6. CASE ScheduleDecode(r)
  BY <1>6 DEF ScheduleDecode
<1>7. CASE ScheduleNothing(r)
  BY <1>7 DEF ScheduleNothing
<1>8. CASE PrefillResult(r)
  BY <1>8 DEF PrefillResult, Captures
<1>9. CASE DecodeResult(r)
  BY <1>9 DEF DecodeResult
<1>10. CASE Dies(r)
  BY <1>10 DEF Dies
<1>11. CASE PeerLost(r)
  BY <1>11 DEF PeerLost
<1> QED
  BY <1>1, <1>2, <1>3, <1>4, <1>5, <1>6, <1>7, <1>8, <1>9, <1>10, <1>11 DEF RankStep

\* What is said of a rank still holds when nothing of it changes.
LEMMA SameKeeps ==
    ASSUME TypeOK, TypeOK', NEW s \in Ranks, Same(s),
           \A t \in Ranks : copied[t] \subseteq copied'[t]
    PROVE  /\ JoinedExact(s) => JoinedExact(s)'
           /\ OutcomeExact(s) => OutcomeExact(s)'
           /\ Goal(s)' = Goal(s)
           /\ Undecided(s)' = Undecided(s)
           /\ Apart(s) => Apart(s)'
           /\ AbortsFound(s) => AbortsFound(s)'
           /\ PrefixesKept(s) => PrefixesKept(s)'
           /\ IdleExact(s) => IdleExact(s)'
<1> USE DEF Same
<1>1. View(s)' = View(s)
  BY DEF View
<1>2. Goal(s)' = Goal(s)
  BY <1>1, Zenon DEF Goal
<1>3. JoinedExact(s) => JoinedExact(s)'
  BY DEF JoinedExact
<1>4. OutcomeExact(s) => OutcomeExact(s)'
  BY DEF OutcomeExact, VotesExact
<1>5. Undecided(s)' = Undecided(s)
  BY Zenon DEF Undecided
<1>6. Apart(s) => Apart(s)'
  BY Zenon DEF Apart
<1>7. AbortsFound(s) => AbortsFound(s)'
  BY Zenon DEF AbortsFound
<1>8. PrefixesKept(s) => PrefixesKept(s)'
  BY Zenon DEF PrefixesKept, Whole
<1>9. IdleExact(s) => IdleExact(s)'
  BY Zenon DEF IdleExact
<1> QED
  BY <1>2, <1>3, <1>4, <1>5, <1>6, <1>7, <1>8, <1>9

\* What the votes agree on: no rank has said less, and the queue is as long.
LEMMA AgreedIs ==
    ASSUME TypeOK, NEW r \in Ranks, OutcomeExact(r), Undecided(r)
    PROVE  /\ Agreed(r) \in 0..Len(ack_staging_queue[r])
           /\ \A s \in Ranks : Agreed(r) <= outcome[r][s].count
           /\ \A s \in Ranks : \A i \in 1..Agreed(r) : ack_staging_queue[r][i] \in copied[s]
<1> DEFINE S == {outcome[r][s].count : s \in Ranks}
<1>1. VotesExact(r)
  BY DEF OutcomeExact, Undecided
<1>2. Len(ack_staging_queue[r]) \in Nat
  BY LenProperties DEF TypeOK
<1>3. S \in SUBSET (0..Len(ack_staging_queue[r])) /\ S \in SUBSET Nat /\ S # {}
  BY <1>1, <1>2, Given DEF VotesExact
<1>4. Min(S) \in S /\ \A y \in S : Min(S) <= y
  BY <1>3, MinIs
<1>5. Agreed(r) = Min(S)
  BY DEF Agreed
<1>6. Agreed(r) \in 0..Len(ack_staging_queue[r]) /\ \A s \in Ranks : Agreed(r) <= outcome[r][s].count
  BY <1>3, <1>4, <1>5
<1>7. ASSUME NEW s \in Ranks, NEW i \in 1..Agreed(r) PROVE ack_staging_queue[r][i] \in copied[s]
  <2>1. outcome[r][s].count \in 0..Len(ack_staging_queue[r])
    BY <1>1 DEF VotesExact
  <2>2. i \in 1..outcome[r][s].count
    BY <1>2, <1>6, <2>1
  <2> QED
    BY <1>1, <2>2 DEF VotesExact
<1> QED
  BY <1>6, <1>7

\* What a vote admits: how many, and how the queue divides.
Admitting(r) == IF StillWaits(r) THEN 0 ELSE Agreed(r)
Ready(r) == SubSeq(ack_staging_queue[r], 1, Admitting(r))
Rest(r) == SubSeq(ack_staging_queue[r], Admitting(r) + 1, Len(ack_staging_queue[r]))

\* A vote takes the head of the queue, whose copies every rank has, and leaves
\* the rest in its order.
LEMMA AdmitDivides ==
    ASSUME TypeOK, NEW r \in Ranks, OutcomeExact(r), Undecided(r)
    PROVE  /\ Admitting(r) \in 0..Len(ack_staging_queue[r])
           /\ Ready(r) \in Seq(Reqs) /\ Rest(r) \in Seq(Reqs)
           /\ Len(Ready(r)) = Admitting(r)
           /\ Len(Rest(r)) = Len(ack_staging_queue[r]) - Admitting(r)
           /\ \A i \in 1..Len(Ready(r)) : Ready(r)[i] = ack_staging_queue[r][i]
           /\ \A i \in 1..Len(Rest(r)) : Rest(r)[i] = ack_staging_queue[r][Admitting(r) + i]
           /\ ToSet(Ready(r)) \subseteq Reqs
           /\ ToSet(Ready(r)) \cup ToSet(Rest(r)) \subseteq ToSet(ack_staging_queue[r])
           /\ \A s \in Ranks : ToSet(Ready(r)) \subseteq copied[s]
<1> DEFINE q == ack_staging_queue[r]
           n == Admitting(r)
<1>1. q \in Seq(Reqs) /\ Len(q) \in Nat /\ DOMAIN q = 1..Len(q)
  BY LenProperties DEF TypeOK
<1>2. n \in 0..Len(q) /\ n <= Len(q) /\ n \in Nat /\ (n = 0 \/ n = Agreed(r))
  BY <1>1, AgreedIs DEF Admitting
<1> HIDE DEF n
<1>3. \A i \in 1..Len(q) : q[i] \in Reqs
  BY <1>1, ElementOfSeq
<1>4. Ready(r) \in Seq(Reqs) /\ Len(Ready(r)) = n /\ \A i \in 1..n : Ready(r)[i] = q[i]
  <2> HIDE DEF q
  <2> QED
    BY <1>1, <1>2, <1>3, SubSeqProperties DEF Ready, q, n
<1>5. /\ Rest(r) \in Seq(Reqs) /\ Len(Rest(r)) = Len(q) - n
      /\ \A i \in 1..(Len(q) - n) : Rest(r)[i] = q[n + i]
  <2> DEFINE m == n + 1
  <2>1. m \in Int /\ Len(q) \in Int /\ \A i \in m..Len(q) : q[i] \in Reqs
    BY <1>1, <1>2, <1>3
  <2>2. Rest(r) = SubSeq(q, m, Len(q))
    BY DEF Rest, n
  <2> HIDE DEF q, m
  <2>3. /\ Rest(r) \in Seq(Reqs) /\ Len(Rest(r)) = IF m <= Len(q) THEN Len(q) - m + 1 ELSE 0
        /\ \A i \in 1..(Len(q) - m + 1) : Rest(r)[i] = q[m + i - 1]
    BY <2>1, <2>2, SubSeqProperties
  <2>4. m = n + 1 /\ n \in Nat /\ n <= Len(q) /\ Len(q) \in Nat
    BY <1>1, <1>2 DEF m
  <2>5. Len(q) - m + 1 = Len(q) - n /\ (IF m <= Len(q) THEN Len(q) - m + 1 ELSE 0) = Len(q) - n
    BY <2>4
  <2>6. ASSUME NEW i \in 1..(Len(q) - n) PROVE Rest(r)[i] = q[n + i]
    <3>1. m + i - 1 = n + i
      BY <2>4
    <3>2. Rest(r)[i] = q[m + i - 1]
      BY <2>3, <2>5, Zenon
    <3> QED
      BY <3>1, <3>2, Zenon
  <2>7. Len(Rest(r)) = Len(q) - n
    BY <2>3, <2>5, Zenon
  <2> QED
    BY <2>3, <2>6, <2>7
<1>6. DOMAIN Ready(r) = 1..n /\ DOMAIN Rest(r) = 1..(Len(q) - n)
  BY <1>4, <1>5, LenProperties
<1>7. ToSet(Ready(r)) \subseteq ToSet(q) /\ ToSet(Ready(r)) \subseteq Reqs
  <2>1. \A i \in 1..n : i \in 1..Len(q)
    BY <1>1, <1>2
  <2> QED
    BY <1>1, <1>3, <1>4, <1>6, <2>1 DEF ToSet
<1>8. ToSet(Rest(r)) \subseteq ToSet(q)
  <2>1. \A i \in 1..(Len(q) - n) : n + i \in 1..Len(q)
    BY <1>1, <1>2
  <2> QED
    BY <1>1, <1>5, <1>6, <2>1 DEF ToSet
<1>9. ASSUME NEW s \in Ranks PROVE ToSet(Ready(r)) \subseteq copied[s]
  <2>1. \A i \in 1..n : q[i] \in copied[s]
    BY <1>2, AgreedIs
  <2> QED
    BY <1>4, <1>6, <2>1 DEF ToSet
<1> QED
  BY <1>2, <1>4, <1>5, <1>7, <1>8, <1>9 DEF n

\* Appending a request puts it into the queue, and takes none out.
LEMMA AppendParks ==
    ASSUME NEW q \in Seq(Reqs), NEW x \in Reqs
    PROVE  /\ Append(q, x) \in Seq(Reqs) /\ Len(Append(q, x)) = Len(q) + 1
           /\ DOMAIN q = 1..Len(q) /\ DOMAIN Append(q, x) = 1..(Len(q) + 1)
           /\ \A i \in 1..Len(q) : Append(q, x)[i] = q[i]
           /\ Append(q, x)[Len(q) + 1] = x
           /\ ToSet(Append(q, x)) = ToSet(q) \cup {x}
<1>1. /\ Append(q, x) \in Seq(Reqs) /\ Len(Append(q, x)) = Len(q) + 1 /\ Len(q) \in Nat
      /\ DOMAIN q = 1..Len(q) /\ DOMAIN Append(q, x) = 1..(Len(q) + 1)
      /\ \A i \in 1..Len(q) : Append(q, x)[i] = q[i]
      /\ Append(q, x)[Len(q) + 1] = x
  BY AppendProperties, LenProperties
<1>2. 1..(Len(q) + 1) = (1..Len(q)) \cup {Len(q) + 1}
  BY <1>1
<1> HIDE DEF ToSet
<1>3. ToSet(Append(q, x)) = ToSet(q) \cup {x}
  BY <1>1, <1>2 DEF ToSet
<1> QED
  BY <1>1, <1>3

\* How far the next chunk goes.
NextEnd(r) ==
    ChunkEnd(NextPrompt(r),
             IF chunked[r] = NoPrompt THEN Basis(NextPrompt(r)) ELSE chunked[r].end)

\* A prefill is always launched: it takes the lane with the next chunk.
LEMMA PrefillDoes ==
    ASSUME TypeOK, NEW r \in Ranks, SchedulePrefill(r)
    PROVE  /\ at[r] = "schedule" /\ NextPrompt(r) # 0
           /\ at' = [at EXCEPT ![r] = "forward"]
           /\ joined' = [joined EXCEPT ![r] =
                 [kind |-> "prefill", reqs |-> {NextPrompt(r)}, end |-> NextEnd(r)]]
           /\ chunked' = [chunked EXCEPT ![r] = [req |-> NextPrompt(r), end |-> NextEnd(r)]]
           /\ waiting' = [waiting EXCEPT ![r] =
                 IF chunked[r] = NoPrompt THEN @ \ {NextPrompt(r)} ELSE @]
           /\ running' = running
           /\ UNCHANGED <<outcome, captured, to_finish, idle, ack_staging_queue, copied,
                          wait_initial_pair, admitted, faults>>
<1>1. at[r] = "schedule" /\ NextPrompt(r) # 0
  BY DEF SchedulePrefill
<1>2. ~ScheduleRaises(r, NextPrompt(r))
  BY <1>1, NeverRaises
<1>3. /\ at' = [at EXCEPT ![r] = "forward"]
      /\ joined' = [joined EXCEPT ![r] =
            [kind |-> "prefill", reqs |-> {NextPrompt(r)}, end |-> NextEnd(r)]]
      /\ chunked' = [chunked EXCEPT ![r] = [req |-> NextPrompt(r), end |-> NextEnd(r)]]
      /\ waiting' = IF chunked[r] = NoPrompt
                      THEN [waiting EXCEPT ![r] = @ \ {NextPrompt(r)}] ELSE waiting
      /\ running' = [running EXCEPT ![r] = @ \cup StartsRunning(NextPrompt(r), NextEnd(r))]
  BY <1>2, Zenon DEF SchedulePrefill, NextEnd, Goes, Joins
<1>4. running' = running
  BY <1>3 DEF TypeOK, StartsRunning
<1>5. waiting' = [waiting EXCEPT ![r] = IF chunked[r] = NoPrompt THEN @ \ {NextPrompt(r)} ELSE @]
  BY <1>3 DEF TypeOK
<1>6. UNCHANGED <<outcome, captured, to_finish, idle, ack_staging_queue, copied,
                  wait_initial_pair, admitted, faults>>
  BY DEF SchedulePrefill, admitVars
<1> QED
  BY <1>1, <1>3, <1>4, <1>5, <1>6

\* The same, said of the rank's own entries.
LEMMA PrefillTakes ==
    ASSUME TypeOK, NEW r \in Ranks, SchedulePrefill(r)
    PROVE  /\ at[r] = "schedule" /\ NextPrompt(r) # 0 /\ at'[r] = "forward"
           /\ joined'[r] = [kind |-> "prefill", reqs |-> {NextPrompt(r)}, end |-> NextEnd(r)]
           /\ chunked'[r] = [req |-> NextPrompt(r), end |-> NextEnd(r)]
           /\ waiting'[r] = IF chunked[r] = NoPrompt THEN waiting[r] \ {NextPrompt(r)} ELSE waiting[r]
<1>1. r \in DOMAIN at /\ r \in DOMAIN joined /\ r \in DOMAIN chunked /\ r \in DOMAIN waiting
  BY DEF TypeOK
<1>2. at[r] = "schedule" /\ NextPrompt(r) # 0
  BY PrefillDoes
<1>3. at'[r] = "forward"
  <2>1. at' = [at EXCEPT ![r] = "forward"]
    BY PrefillDoes
  <2> QED
    BY <1>1, <2>1
<1>4. PICK j, c, q : /\ j = [kind |-> "prefill", reqs |-> {NextPrompt(r)}, end |-> NextEnd(r)]
                    /\ c = [req |-> NextPrompt(r), end |-> NextEnd(r)] /\ q = NextPrompt(r)
  OBVIOUS
<1>5. joined'[r] = j
  <2>1. joined' = [joined EXCEPT ![r] = j]
    BY <1>4, PrefillDoes
  <2> QED
    BY <1>1, <2>1
<1>6. chunked'[r] = c
  <2>1. chunked' = [chunked EXCEPT ![r] = c]
    BY <1>4, PrefillDoes
  <2> QED
    BY <1>1, <2>1
<1>7. waiting'[r] = IF chunked[r] = NoPrompt THEN waiting[r] \ {q} ELSE waiting[r]
  <2>1. waiting' = [waiting EXCEPT ![r] = IF chunked[r] = NoPrompt THEN @ \ {q} ELSE @]
    BY <1>4, PrefillDoes
  <2> QED
    BY <1>1, <2>1
<1> QED
  BY <1>2, <1>3, <1>4, <1>5, <1>6, <1>7

\* The prompt on the lane, its next request and how far it will be.
LEMMA NextEndIs ==
    ASSUME TypeOK, NEW r \in Ranks, NextPrompt(r) # 0
    PROVE  /\ NextPrompt(r) \in Reqs /\ NextEnd(r) \in Nat /\ NextEnd(r) <= Prompt[NextPrompt(r)]
           /\ [req |-> NextPrompt(r), end |-> NextEnd(r)] \in Prompts
           /\ [req |-> NextPrompt(r), end |-> NextEnd(r)] # NoPrompt
<1>1. NextPrompt(r) \in Reqs
  BY NextIs
<1>2. (IF chunked[r] = NoPrompt THEN Basis(NextPrompt(r)) ELSE chunked[r].end) \in Nat
  BY <1>1, BasisIsHit, Given DEF TypeOK, Prompts
<1>3. NextEnd(r) \in Nat /\ NextEnd(r) <= Prompt[NextPrompt(r)]
  BY <1>1, <1>2, ChunkEndIs DEF NextEnd
<1>4. [req |-> NextPrompt(r), end |-> NextEnd(r)].req = NextPrompt(r) /\ NoPrompt.req = 0
  BY DEF NoPrompt
<1>5. NextPrompt(r) # 0
  BY <1>1, Given
<1> QED
  BY <1>1, <1>3, <1>4, <1>5 DEF Prompts

\* A vote that is acted on divides the queue.
LEMMA AdmitDoes ==
    ASSUME TypeOK, NEW r \in Ranks, Admit(r)
    PROVE  /\ Undecided(r) /\ ~Disagree(r)
           /\ at' = [at EXCEPT ![r] = "schedule"]
           /\ wait_initial_pair' = [wait_initial_pair EXCEPT ![r] = StillWaits(r)]
           /\ ack_staging_queue' = [ack_staging_queue EXCEPT ![r] = Rest(r)]
           /\ admitted' = [admitted EXCEPT ![r] = @ \o Ready(r)]
           /\ running' = [running EXCEPT ![r] = @ \cup ToSet(Ready(r))]
           /\ UNCHANGED <<joined, outcome, waiting, chunked, captured, to_finish, idle, copied,
                          faults>>
BY Zenon DEF Admit, Undecided, Ready, Rest, Admitting, Goes, promptVars

\* The result of a prefill in the middle of a prompt.
LEMMA MiddleDoes ==
    ASSUME TypeOK, NEW r \in Ranks, PrefillResult(r), chunked[r].end < Prompt[chunked[r].req]
    PROVE  UNCHANGED <<chunked, captured, ack_staging_queue>>
BY Zenon DEF PrefillResult

\* The result of the last chunk of a prompt.
LEMMA LastDoes ==
    ASSUME TypeOK, NEW r \in Ranks, PrefillResult(r), ~(chunked[r].end < Prompt[chunked[r].req])
    PROVE  /\ chunked' = [chunked EXCEPT ![r] = NoPrompt]
           /\ ack_staging_queue' =
                 IF chunked[r].req \in Instant THEN ack_staging_queue
                 ELSE [ack_staging_queue EXCEPT ![r] = Append(@, chunked[r].req)]
           /\ Captures(r, chunked[r].req, Prompt[chunked[r].req])
BY Zenon DEF PrefillResult

\* What the result of any prefill leaves.
LEMMA PrefillResultDoes ==
    ASSUME TypeOK, NEW r \in Ranks, PrefillResult(r)
    PROVE  /\ at[r] = "forward" /\ joined[r] = Nothing /\ outcome[r][r].kind = "prefill"
           /\ at' = [at EXCEPT ![r] = "receive"]
           /\ UNCHANGED <<joined, outcome, waiting, to_finish, idle, copied, wait_initial_pair,
                          admitted, running, faults>>
BY Zenon DEF PrefillResult, Goes, admitVars

\* What a rank's step gives each variable is of its type.
LEMMA TypeStep ==
    ASSUME TypeOK, NEW r \in Ranks, RankStep(r), OutcomeExact(r), OutcomesShared
    PROVE  TypeOK'
<1>1. CASE JoinReceive(r)
  BY <1>1 DEF JoinReceive, TypeOK, promptVars, admitVars, Goes, Joins, Places
<1>2. CASE JoinTotal(r)
  BY <1>2 DEF JoinTotal, Captures, TypeOK, promptVars, admitVars, Goes, Joins, Places
<1>3. CASE JoinVotes(r)
  BY <1>3 DEF JoinVotes, TypeOK, promptVars, admitVars, Goes, Joins, Places
<1>4. CASE Admit(r)
  <2>1. Ready(r) \in Seq(Reqs) /\ Rest(r) \in Seq(Reqs) /\ ToSet(Ready(r)) \subseteq Reqs
    BY <1>4, AdmitDivides, AdmitDoes
  <2>2. admitted[r] \o Ready(r) \in Seq(Reqs)
    BY <2>1, ConcatProperties DEF TypeOK
  <2>3. StillWaits(r) \in BOOLEAN
    BY DEF StillWaits
  <2>4. /\ at' = [at EXCEPT ![r] = "schedule"]
        /\ wait_initial_pair' = [wait_initial_pair EXCEPT ![r] = StillWaits(r)]
        /\ ack_staging_queue' = [ack_staging_queue EXCEPT ![r] = Rest(r)]
        /\ admitted' = [admitted EXCEPT ![r] = @ \o Ready(r)]
        /\ running' = [running EXCEPT ![r] = @ \cup ToSet(Ready(r))]
        /\ UNCHANGED <<joined, outcome, waiting, chunked, captured, to_finish, idle, copied,
                       faults>>
    BY <1>4, AdmitDoes
  <2> QED
    BY <2>1, <2>2, <2>3, <2>4 DEF TypeOK, Places
<1>5. CASE SchedulePrefill(r)
  <2>1. /\ NextPrompt(r) # 0
        /\ at' = [at EXCEPT ![r] = "forward"]
        /\ joined' = [joined EXCEPT ![r] =
              [kind |-> "prefill", reqs |-> {NextPrompt(r)}, end |-> NextEnd(r)]]
        /\ chunked' = [chunked EXCEPT ![r] = [req |-> NextPrompt(r), end |-> NextEnd(r)]]
        /\ waiting' = [waiting EXCEPT ![r] =
              IF chunked[r] = NoPrompt THEN @ \ {NextPrompt(r)} ELSE @]
        /\ running' = running
        /\ UNCHANGED <<outcome, captured, to_finish, idle, ack_staging_queue, copied,
                       wait_initial_pair, admitted, faults>>
    BY <1>5, PrefillDoes
  <2>2. [req |-> NextPrompt(r), end |-> NextEnd(r)] \in Prompts
    BY <2>1, NextEndIs
  <2> QED
    BY <2>1, <2>2 DEF TypeOK, Places
<1>6. CASE ScheduleDecode(r)
  BY <1>6 DEF ScheduleDecode, TypeOK, promptVars, admitVars, Goes, Joins, Places
<1>7. CASE ScheduleNothing(r)
  <2>1. FullyIdle(r) \in BOOLEAN
    BY DEF FullyIdle
  <2> QED
    BY <1>7, <2>1 DEF ScheduleNothing, TypeOK, promptVars, admitVars, Goes, Places
<1>8. CASE PrefillResult(r)
  <2>1. /\ at[r] = "forward" /\ joined[r] = Nothing /\ outcome[r][r].kind = "prefill"
        /\ at' = [at EXCEPT ![r] = "receive"]
        /\ UNCHANGED <<joined, outcome, waiting, to_finish, idle, copied, wait_initial_pair,
                       admitted, running, faults>>
    BY <1>8, PrefillResultDoes
  <2>2. CASE chunked[r].end < Prompt[chunked[r].req]
    <3>1. UNCHANGED <<chunked, captured, ack_staging_queue>>
      BY <1>8, <2>2, MiddleDoes
    <3> QED
      BY <2>1, <3>1 DEF TypeOK, Places
  <2>3. CASE ~(chunked[r].end < Prompt[chunked[r].req])
    <3>1. chunked[r] # NoPrompt
      BY <2>1 DEF OutcomeExact, OutcomesShared
    <3>2. Append(ack_staging_queue[r], chunked[r].req) \in Seq(Reqs)
      BY <3>1, AppendParks DEF Prompts, TypeOK
    <3>3. /\ chunked' = [chunked EXCEPT ![r] = NoPrompt]
          /\ ack_staging_queue' =
                IF chunked[r].req \in Instant THEN ack_staging_queue
                ELSE [ack_staging_queue EXCEPT ![r] = Append(@, chunked[r].req)]
          /\ Captures(r, chunked[r].req, Prompt[chunked[r].req])
      BY <1>8, <2>3, LastDoes
    <3>4. DOMAIN captured' = Ranks
      BY <3>3 DEF Captures, TypeOK
    <3>5. NoPrompt \in Prompts
      BY DEF Prompts
    <3> QED
      BY <2>1, <3>2, <3>3, <3>4, <3>5 DEF TypeOK, Places
  <2> QED
    BY <2>2, <2>3
<1>9. CASE DecodeResult(r)
  BY <1>9 DEF DecodeResult, TypeOK, promptVars, admitVars, Goes, Joins, Places
<1>10. CASE Dies(r)
  BY <1>10 DEF Dies, TypeOK, promptVars, admitVars, Goes, Joins, Places
<1>11. CASE PeerLost(r)
  BY <1>11 DEF PeerLost, TypeOK, promptVars, admitVars, Goes, Joins, Places
<1> QED
  BY <1>1, <1>2, <1>3, <1>4, <1>5, <1>6, <1>7, <1>8, <1>9, <1>10, <1>11 DEF RankStep

----------------------------------------------------------------------------
(* Goals.                                                                  *)

\* What comes after each place.
LEMMA AfterIs ==
    ASSUME NEW v, NEW o
    PROVE  /\ After("receive", v, o) = <<"receive", v>>
           /\ After("received", v, o) = <<"total", AfterTotal(v, o)>>
           /\ After("total", v, o) =
                 IF \A s \in Ranks : o[s].size = 0 THEN Scheduled(v) ELSE <<"votes", v>>
           /\ After("votes", v, o) = Scheduled(AfterAdmit(v, o))
           /\ After("schedule", v, o) = Scheduled(v)
           /\ After("forward", v, o) =
                 <<"receive", IF KindOf(o) = "prefill" THEN AfterPrompt(v) ELSE AfterDecode(v)>>
<1> HIDE DEF AfterTotal, AfterAdmit, Scheduled, AfterPrompt, AfterDecode, KindOf
<1>1. After("receive", v, o) = <<"receive", v>>
  BY DEF After
<1>2. After("received", v, o) = <<"total", AfterTotal(v, o)>>
  BY DEF After
<1>3. After("total", v, o) =
        IF \A s \in Ranks : o[s].size = 0 THEN Scheduled(v) ELSE <<"votes", v>>
  BY DEF After
<1>4. After("votes", v, o) = Scheduled(AfterAdmit(v, o))
  BY DEF After
<1>5. After("schedule", v, o) = Scheduled(v)
  BY DEF After
<1>6. After("forward", v, o) =
        <<"receive", IF KindOf(o) = "prefill" THEN AfterPrompt(v) ELSE AfterDecode(v)>>
  BY DEF After
<1> QED
  BY <1>1, <1>2, <1>3, <1>4, <1>5, <1>6

\* The prompt that is next is one that the rank sees.
LEMMA NextSeen ==
    ASSUME NEW r \in Ranks
    PROVE  NextPrompt(r) = NextIn(View(r))
BY DEF NextPrompt, NextIn, Allocatable, Leased, LeasedIn, View

\* A rank that takes a step alone has not joined a collective, unless a peer
\* is lost.
LEMMA Free ==
    ASSUME NEW r \in Ranks, JoinedExact(r), at[r] \in {"receive", "schedule"}
    PROVE  joined[r] = Nothing
BY DEF JoinedExact

\* With what a rank joins, it has arrived at its goal.
LEMMA Arrived ==
    ASSUME NEW r \in Ranks, joined'[r] # Nothing
    PROVE  Goal(r)' = <<joined'[r].kind, View(r)'>>
BY Zenon DEF Goal

\* What remains to be done is in the place, what is seen and the outcome.
LEMMA OnTheWay ==
    ASSUME NEW r \in Ranks
    PROVE  /\ joined[r] = Nothing => Goal(r) = After(at[r], View(r), outcome[r])
           /\ joined'[r] = Nothing => Goal(r)' = After(at'[r], View(r)', outcome'[r])
BY Zenon DEF Goal

\* A rank that joins the receive has come nearer to where it was going anyway.
LEMMA JoinReceiveGoal ==
    ASSUME TypeOK, NEW r \in Ranks, JoinReceive(r), JoinedExact(r)
    PROVE  Goal(r)' = Goal(r) /\ JoinedExact(r)' /\ OutcomeExact(r)'
<1>1. joined[r] = Nothing /\ at[r] = "receive"
  BY Free DEF JoinReceive
<1>2. at'[r] = "received" /\ joined'[r].kind = "receive" /\ joined'[r] # Nothing
  BY DEF JoinReceive, Joins, Goes, TypeOK, Nothing
<1>3. View(r)' = View(r)
  BY DEF JoinReceive, View, promptVars, admitVars
<1>4. Goal(r) = <<"receive", View(r)>>
  BY <1>1, AfterIs, OnTheWay
<1>5. Goal(r)' = <<"receive", View(r)>>
  BY <1>2, <1>3, Arrived
<1> QED
  BY <1>2, <1>4, <1>5 DEF JoinedExact, OutcomeExact

\* So has one that applied the aborts it received and joins with its total.
LEMMA JoinTotalGoal ==
    ASSUME TypeOK, NEW r \in Ranks, JoinTotal(r)
    PROVE  Goal(r)' = Goal(r) /\ JoinedExact(r)' /\ OutcomeExact(r)'
<1>1. joined[r] = Nothing /\ at[r] = "received"
  BY DEF JoinTotal
<1>2. at'[r] = "total" /\ joined'[r].kind = "total" /\ joined'[r] # Nothing
  BY DEF JoinTotal, Joins, Goes, TypeOK, Nothing
<1>3. /\ waiting'[r] = waiting[r] \ outcome[r][Chief].aborts
      /\ to_finish'[r] = to_finish[r] \cup (outcome[r][Chief].aborts \cap Inflight(r))
      /\ chunked' = chunked /\ ack_staging_queue' = ack_staging_queue /\ running' = running
      /\ wait_initial_pair' = wait_initial_pair
  BY DEF JoinTotal, TypeOK, admitVars
<1>4. View(r)' = AfterTotal(View(r), outcome[r])
  BY <1>3 DEF View, AfterTotal, Inflight
<1>5. Goal(r) = <<"total", AfterTotal(View(r), outcome[r])>>
  BY <1>1, AfterIs, OnTheWay
<1>6. Goal(r)' = <<"total", AfterTotal(View(r), outcome[r])>>
  BY <1>2, <1>4, Arrived
<1> QED
  BY <1>2, <1>5, <1>6 DEF JoinedExact, OutcomeExact

\* So has one that joins with its votes, or finds that nobody votes.
LEMMA JoinVotesGoal ==
    ASSUME TypeOK, NEW r \in Ranks, JoinVotes(r)
    PROVE  Goal(r)' = Goal(r) /\ JoinedExact(r)' /\ OutcomeExact(r)'
<1>1. joined[r] = Nothing /\ at[r] = "total"
  BY DEF JoinVotes
<1>2. /\ View(r)' = View(r) /\ outcome' = outcome /\ ack_staging_queue' = ack_staging_queue
      /\ wait_initial_pair' = wait_initial_pair /\ copied' = copied
  BY DEF JoinVotes, View, promptVars, admitVars
<1>3. CASE \A s \in Ranks : outcome[r][s].size = 0
  <2>1. at'[r] = "schedule" /\ joined'[r] = Nothing
    BY <1>1, <1>3 DEF JoinVotes, Goes, TypeOK
  <2>2. Goal(r) = Scheduled(View(r))
    BY <1>1, <1>3, AfterIs, OnTheWay
  <2>3. Goal(r)' = Scheduled(View(r))
    BY <1>2, <2>1, AfterIs, OnTheWay
  <2> QED
    BY <2>1, <2>2, <2>3 DEF JoinedExact, OutcomeExact
<1>4. CASE ~(\A s \in Ranks : outcome[r][s].size = 0)
  <2>1. /\ at'[r] = "votes"
        /\ joined'[r] = [kind |-> "votes", ids |-> ack_staging_queue[r], count |-> ReadyCount(r),
                         target |-> IF wait_initial_pair[r] THEN Target ELSE 0]
    BY <1>4 DEF JoinVotes, Joins, Goes, TypeOK
  <2>2. joined'[r].kind = "votes" /\ joined'[r] # Nothing
    BY <2>1 DEF Nothing
  <2>3. Goal(r) = <<"votes", View(r)>>
    BY <1>1, <1>4, AfterIs, OnTheWay
  <2>4. Goal(r)' = <<"votes", View(r)>>
    BY <1>2, <2>2, Arrived
  <2>5. OutcomeExact(r)'
    BY <2>2 DEF OutcomeExact
  <2>6. JoinedExact(r)'
    BY <1>2, <2>1, <2>2, ReadyCountIs DEF JoinedExact
  <2> QED
    BY <2>3, <2>4, <2>5, <2>6
<1> QED
  BY <1>3, <1>4

\* So has one that admits what the votes granted.
LEMMA AdmitGoal ==
    ASSUME TypeOK, NEW r \in Ranks, Admit(r)
    PROVE  Goal(r)' = Goal(r) /\ JoinedExact(r)' /\ OutcomeExact(r)'
<1>1. joined[r] = Nothing /\ at[r] = "votes"
  BY DEF Admit
<1>2. /\ at'[r] = "schedule" /\ joined'[r] = Nothing
      /\ wait_initial_pair'[r] = StillWaits(r)
      /\ ack_staging_queue'[r] = Rest(r)
      /\ running'[r] = running[r] \cup ToSet(Ready(r))
      /\ outcome' = outcome /\ waiting' = waiting /\ chunked' = chunked /\ to_finish' = to_finish
  BY <1>1, AdmitDoes DEF TypeOK
<1>3. StillWaits(r) = WaitsIn(View(r), outcome[r]) /\ Admitting(r) = CountIn(View(r), outcome[r])
  BY DEF StillWaits, WaitsIn, Admitting, CountIn, Agreed, AgreedIn, View
<1>4. View(r)' = AfterAdmit(View(r), outcome[r])
  BY <1>2, <1>3 DEF View, AfterAdmit, Ready, Rest
<1>5. Goal(r) = Scheduled(AfterAdmit(View(r), outcome[r]))
  BY <1>1, AfterIs, OnTheWay
<1>6. Goal(r)' = Scheduled(AfterAdmit(View(r), outcome[r]))
  BY <1>2, <1>4, AfterIs, OnTheWay
<1> QED
  BY <1>2, <1>5, <1>6 DEF JoinedExact, OutcomeExact

\* So has one that schedules a chunk.
LEMMA PrefillGoal ==
    ASSUME TypeOK, NEW r \in Ranks, SchedulePrefill(r), JoinedExact(r)
    PROVE  Goal(r)' = Goal(r) /\ JoinedExact(r)' /\ OutcomeExact(r)'
<1>1. at[r] = "schedule" /\ NextPrompt(r) # 0 /\ joined[r] = Nothing
  BY PrefillDoes, Free
<1>2. /\ at'[r] = "forward"
      /\ joined'[r] = [kind |-> "prefill", reqs |-> {NextPrompt(r)}, end |-> NextEnd(r)]
      /\ chunked'[r] = [req |-> NextPrompt(r), end |-> NextEnd(r)]
      /\ waiting'[r] = IF chunked[r] = NoPrompt THEN waiting[r] \ {NextPrompt(r)} ELSE waiting[r]
      /\ running' = running /\ to_finish' = to_finish
      /\ ack_staging_queue' = ack_staging_queue /\ wait_initial_pair' = wait_initial_pair
  <2>1. /\ running' = running /\ to_finish' = to_finish
        /\ ack_staging_queue' = ack_staging_queue /\ wait_initial_pair' = wait_initial_pair
    BY PrefillDoes
  <2> QED
    BY <2>1, PrefillTakes
<1>3. joined'[r] # Nothing /\ joined'[r].kind = "prefill"
  BY <1>2 DEF Nothing
<1>4. View(r)' = AfterPrefill(View(r))
  BY <1>2, NextSeen DEF View, AfterPrefill, NextEnd
<1>5. Goal(r) = <<"prefill", AfterPrefill(View(r))>>
  BY <1>1, AfterIs, OnTheWay, NextSeen DEF Scheduled
<1>6. Goal(r)' = <<"prefill", AfterPrefill(View(r))>>
  BY <1>3, <1>4, Arrived
<1>7. chunked'[r] # NoPrompt
  BY <1>1, <1>2, NextEndIs
<1>8. JoinedExact(r)'
  BY <1>2, <1>3, <1>7 DEF JoinedExact
<1> QED
  BY <1>3, <1>5, <1>6, <1>8 DEF OutcomeExact

\* So has one that schedules its running batch.
LEMMA DecodeGoal ==
    ASSUME TypeOK, NEW r \in Ranks, ScheduleDecode(r), JoinedExact(r)
    PROVE  Goal(r)' = Goal(r) /\ JoinedExact(r)' /\ OutcomeExact(r)'
<1>1. at[r] = "schedule" /\ NextPrompt(r) = 0 /\ running[r] # {} /\ joined[r] = Nothing
  BY Free DEF ScheduleDecode
<1>2. at'[r] = "forward" /\ joined'[r] = [kind |-> "decode", reqs |-> running[r], end |-> 0]
  BY DEF ScheduleDecode, Joins, Goes, TypeOK
<1>3. joined'[r] # Nothing /\ joined'[r].kind = "decode"
  BY <1>2 DEF Nothing
<1>4. View(r)' = View(r) /\ running' = running
  BY DEF ScheduleDecode, View, promptVars, admitVars
<1>5. View(r).running = running[r]
  BY DEF View
<1>6. Goal(r) = <<"decode", View(r)>>
  BY <1>1, <1>5, AfterIs, OnTheWay, NextSeen DEF Scheduled
<1>7. Goal(r)' = <<"decode", View(r)>>
  BY <1>3, <1>4, Arrived
<1>8. JoinedExact(r)'
  BY <1>2, <1>3, <1>4 DEF JoinedExact
<1> QED
  BY <1>3, <1>6, <1>7, <1>8 DEF OutcomeExact

\* So has one that has nothing to schedule.
LEMMA NothingGoal ==
    ASSUME TypeOK, NEW r \in Ranks, ScheduleNothing(r), JoinedExact(r)
    PROVE  Goal(r)' = Goal(r) /\ JoinedExact(r)' /\ OutcomeExact(r)'
<1>1. at[r] = "schedule" /\ NextPrompt(r) = 0 /\ running[r] = {} /\ joined[r] = Nothing
  BY Free DEF ScheduleNothing
<1>2. at'[r] = "receive" /\ joined'[r] = Nothing /\ outcome' = outcome
  BY <1>1 DEF ScheduleNothing, Goes, TypeOK
<1>3. View(r)' = View(r) /\ View(r).running = running[r]
  BY DEF ScheduleNothing, View, promptVars, admitVars
<1>4. Goal(r) = <<"receive", View(r)>>
  BY <1>1, <1>3, AfterIs, OnTheWay, NextSeen DEF Scheduled
<1>5. Goal(r)' = <<"receive", View(r)>>
  BY <1>2, <1>3, AfterIs, OnTheWay
<1> QED
  BY <1>2, <1>4, <1>5 DEF JoinedExact, OutcomeExact

\* So has one that takes the result of a chunk, and parks a prompt that ended.
LEMMA PrefillResultGoal ==
    ASSUME TypeOK, NEW r \in Ranks, PrefillResult(r), OutcomesShared
    PROVE  Goal(r)' = Goal(r) /\ JoinedExact(r)' /\ OutcomeExact(r)'
<1>1. joined[r] = Nothing /\ at[r] = "forward" /\ KindOf(outcome[r]) = "prefill"
  BY PrefillResultDoes DEF OutcomesShared
<1>2. /\ at'[r] = "receive" /\ joined'[r] = Nothing /\ outcome' = outcome
      /\ waiting' = waiting /\ to_finish' = to_finish /\ wait_initial_pair' = wait_initial_pair
      /\ running' = running
  BY <1>1, PrefillResultDoes DEF TypeOK
<1>3. View(r)' = AfterPrompt(View(r))
  <2>1. CASE chunked[r].end < Prompt[chunked[r].req]
    BY <1>2, <2>1, MiddleDoes DEF View, AfterPrompt
  <2>2. CASE ~(chunked[r].end < Prompt[chunked[r].req])
    <3>1. /\ chunked'[r] = NoPrompt
          /\ ack_staging_queue'[r] = IF chunked[r].req \in Instant THEN ack_staging_queue[r]
                                     ELSE Append(ack_staging_queue[r], chunked[r].req)
      <4>1. r \in DOMAIN chunked /\ r \in DOMAIN ack_staging_queue
        BY DEF TypeOK
      <4>2. PICK q : q = chunked[r].req
        OBVIOUS
      <4>3. /\ chunked' = [chunked EXCEPT ![r] = NoPrompt]
            /\ ack_staging_queue' = IF q \in Instant THEN ack_staging_queue
                                    ELSE [ack_staging_queue EXCEPT ![r] = Append(@, q)]
        BY <2>2, <4>2, LastDoes
      <4>4. chunked'[r] = NoPrompt
        BY <4>1, <4>3
      <4>5. ack_staging_queue'[r] = IF q \in Instant THEN ack_staging_queue[r]
                                    ELSE Append(ack_staging_queue[r], q)
        BY <4>1, <4>3
      <4> QED
        BY <4>2, <4>4, <4>5
    <3> QED
      BY <1>2, <2>2, <3>1 DEF View, AfterPrompt
  <2> QED
    BY <2>1, <2>2
<1>4. Goal(r) = <<"receive", AfterPrompt(View(r))>>
  BY <1>1, AfterIs, OnTheWay
<1>5. Goal(r)' = <<"receive", AfterPrompt(View(r))>>
  BY <1>2, <1>3, AfterIs, OnTheWay
<1> QED
  BY <1>2, <1>4, <1>5 DEF JoinedExact, OutcomeExact

\* So has one that takes the result of a decode, and lets go who finished.
LEMMA DecodeResultGoal ==
    ASSUME TypeOK, NEW r \in Ranks, DecodeResult(r), OutcomeExact(r), OutcomesShared
    PROVE  Goal(r)' = Goal(r) /\ JoinedExact(r)' /\ OutcomeExact(r)'
<1>1. joined[r] = Nothing /\ at[r] = "forward" /\ KindOf(outcome[r]) = "decode"
  BY DEF OutcomesShared, DecodeResult
<1>2. outcome[r][r].reqs = running[r]
  BY <1>1 DEF OutcomeExact
<1>3. /\ at'[r] = "receive" /\ joined'[r] = Nothing /\ outcome' = outcome
      /\ running'[r] = running[r] \ Finishing(r)
      /\ waiting' = waiting /\ chunked' = chunked /\ to_finish' = to_finish
      /\ ack_staging_queue' = ack_staging_queue /\ wait_initial_pair' = wait_initial_pair
  BY <1>1 DEF DecodeResult, Goes, TypeOK, promptVars, admitVars
<1>4. Finishing(r) = IF running[r] \cap to_finish[r] # {} THEN running[r] \cap to_finish[r]
                     ELSE {Min(running[r])}
  BY <1>2, Zenon DEF Finishing
<1>5. View(r)' = AfterDecode(View(r))
  BY <1>3, <1>4 DEF View, AfterDecode
<1>6. Goal(r) = <<"receive", AfterDecode(View(r))>>
  BY <1>1, AfterIs, OnTheWay
<1>7. Goal(r)' = <<"receive", AfterDecode(View(r))>>
  BY <1>3, <1>5, AfterIs, OnTheWay
<1> QED
  BY <1>3, <1>6, <1>7 DEF JoinedExact, OutcomeExact

\* A rank's step leaves its goal, and what it joins and where it stands fit.
LEMMA StepGoal ==
    ASSUME TypeOK, NEW r \in Ranks, RankStep(r), JoinedExact(r), OutcomeExact(r), OutcomesShared
    PROVE  /\ JoinedExact(r)' /\ OutcomeExact(r)'
           /\ at'[r] # "dead" => at[r] # "dead" /\ Goal(r)' = Goal(r)
<1> DEFINE Kept == JoinedExact(r)' /\ OutcomeExact(r)' /\ at[r] # "dead" /\ Goal(r)' = Goal(r)
<1>1. CASE JoinReceive(r)
  <2>1. at[r] # "dead"
    BY <1>1 DEF JoinReceive
  <2> QED
    BY <1>1, <2>1, JoinReceiveGoal
<1>2. CASE JoinTotal(r)
  <2>1. at[r] # "dead"
    BY <1>2 DEF JoinTotal
  <2> QED
    BY <1>2, <2>1, JoinTotalGoal
<1>3. CASE JoinVotes(r)
  <2>1. at[r] # "dead"
    BY <1>3 DEF JoinVotes
  <2> QED
    BY <1>3, <2>1, JoinVotesGoal
<1>4. CASE Admit(r)
  <2>1. at[r] # "dead"
    BY <1>4 DEF Admit
  <2> QED
    BY <1>4, <2>1, AdmitGoal
<1>5. CASE SchedulePrefill(r)
  <2>1. at[r] # "dead"
    BY <1>5 DEF SchedulePrefill
  <2> QED
    BY <1>5, <2>1, PrefillGoal
<1>6. CASE ScheduleDecode(r)
  <2>1. at[r] # "dead"
    BY <1>6 DEF ScheduleDecode
  <2> QED
    BY <1>6, <2>1, DecodeGoal
<1>7. CASE ScheduleNothing(r)
  <2>1. at[r] # "dead"
    BY <1>7 DEF ScheduleNothing
  <2> QED
    BY <1>7, <2>1, NothingGoal
<1>8. CASE PrefillResult(r)
  <2>1. at[r] # "dead"
    BY <1>8 DEF PrefillResult
  <2> QED
    BY <1>8, <2>1, PrefillResultGoal
<1>9. CASE DecodeResult(r)
  <2>1. at[r] # "dead"
    BY <1>9 DEF DecodeResult
  <2> QED
    BY <1>9, <2>1, DecodeResultGoal
<1>10. CASE Dies(r) \/ PeerLost(r)
  <2>1. at'[r] = "dead" /\ joined'[r] = Nothing
    BY <1>10 DEF Dies, PeerLost, Goes, Joins, TypeOK
  <2> QED
    BY <2>1 DEF JoinedExact, OutcomeExact
<1> QED
  BY <1>1, <1>2, <1>3, <1>4, <1>5, <1>6, <1>7, <1>8, <1>9, <1>10 DEF RankStep

----------------------------------------------------------------------------
(* What is admitted.                                                       *)

\* The ranks do not disagree over a vote.
LEMMA NeverDisagree ==
    ASSUME NEW r \in Ranks, OutcomeExact(r), Undecided(r)
    PROVE  ~Disagree(r)
BY DEF OutcomeExact, VotesExact, Undecided, Disagree

\* Before its step a rank has admitted all that was granted, and after it too,
\* unless the step admits or is its last.
LEMMA StepAdmitted ==
    ASSUME TypeOK, NEW r \in Ranks, RankStep(r), JoinedExact(r)
    PROVE  /\ ~Undecided(r)'
           /\ \/ Admit(r)
              \/ admitted' = admitted /\ at'[r] = "dead"
              \/ admitted' = admitted /\ ~Undecided(r) /\ at[r] # "dead"
<1> USE DEF admitVars, Undecided, Goes
<1>1. CASE JoinReceive(r)
  BY <1>1 DEF JoinReceive, TypeOK
<1>2. CASE JoinTotal(r)
  BY <1>2 DEF JoinTotal, TypeOK
<1>3. CASE JoinVotes(r)
  <2>1. at[r] = "total" /\ admitted' = admitted
    BY <1>3 DEF JoinVotes
  <2>2. at'[r] = "schedule" \/ joined'[r].kind = "votes"
    BY <1>3 DEF JoinVotes, Joins, TypeOK
  <2>3. Nothing.kind # "votes"
    BY DEF Nothing
  <2> QED
    BY <2>1, <2>2, <2>3
<1>4. CASE Admit(r)
  BY <1>4 DEF Admit, TypeOK
<1>5. CASE SchedulePrefill(r)
  BY <1>5, PrefillDoes DEF TypeOK
<1>6. CASE ScheduleDecode(r)
  BY <1>6 DEF ScheduleDecode, TypeOK
<1>7. CASE ScheduleNothing(r)
  BY <1>7 DEF ScheduleNothing, TypeOK
<1>8. CASE PrefillResult(r)
  BY <1>8, PrefillResultDoes DEF TypeOK
<1>9. CASE DecodeResult(r)
  BY <1>9 DEF DecodeResult, TypeOK
<1>10. CASE Dies(r) \/ PeerLost(r)
  BY <1>10 DEF Dies, PeerLost, TypeOK
<1> QED
  BY <1>1, <1>2, <1>3, <1>4, <1>5, <1>6, <1>7, <1>8, <1>9, <1>10 DEF RankStep

\* A rank that acts on the votes admits what they grant.
LEMMA AdmitGrants ==
    ASSUME TypeOK, NEW r \in Ranks, OutcomeExact(r), Undecided(r)
    PROVE  Ready(r) = Grant(outcome[r])
<1>1. KindOf(outcome[r]) = "votes" /\ VotesExact(r)
  BY DEF OutcomeExact, Undecided
<1>2. /\ outcome[r][Chief].ids = ack_staging_queue[r]
      /\ outcome[r][Chief].target = IF wait_initial_pair[r] THEN Target ELSE 0
  BY <1>1, Given DEF VotesExact
<1>3. Agreed(r) = AgreedIn(outcome[r])
  BY DEF Agreed, AgreedIn
<1>4. Agreed(r) \in Nat
  <2>1. Len(ack_staging_queue[r]) \in Nat /\ Agreed(r) \in 0..Len(ack_staging_queue[r])
    BY AgreedIs, LenProperties DEF TypeOK
  <2> QED
    BY <2>1
<1>5. StillWaits(r) <=> AgreedIn(outcome[r]) < outcome[r][Chief].target
  BY <1>2, <1>3, <1>4 DEF StillWaits
<1>6. CASE StillWaits(r)
  <2>1. Grant(outcome[r]) = <<>>
    BY <1>5, <1>6 DEF Grant
  <2>2. Ready(r) = SubSeq(ack_staging_queue[r], 1, 0)
    BY <1>6 DEF Ready, Admitting
  <2> QED
    BY <2>1, <2>2, SubSeqEmpty
<1>7. CASE ~StillWaits(r)
  <2>1. Grant(outcome[r]) = SubSeq(ack_staging_queue[r], 1, Agreed(r))
    BY <1>1, <1>2, <1>3, <1>5, <1>7 DEF Grant
  <2>2. Ready(r) = SubSeq(ack_staging_queue[r], 1, Agreed(r))
    BY <1>7 DEF Ready, Admitting
  <2> QED
    BY <2>1, <2>2
<1> QED
  BY <1>6, <1>7

\* What votes grant is a part of the queue they name.
LEMMA GrantIsSeq ==
    ASSUME NEW o, o[Chief].ids \in Seq(Reqs),
           \A s \in Ranks : o[s].count \in 0..Len(o[Chief].ids)
    PROVE  Grant(o) \in Seq(Reqs)
<1> DEFINE S == {o[s].count : s \in Ranks}
           ids == o[Chief].ids
<1>1. Len(ids) \in Nat /\ \A i \in 1..Len(ids) : ids[i] \in Reqs
  BY LenProperties, ElementOfSeq
<1>2. S \in SUBSET Nat /\ S # {} /\ \A n \in S : n <= Len(ids)
  BY <1>1, Given
<1>3. Min(S) \in S
  BY <1>2, MinIs
<1>4. AgreedIn(o) = Min(S)
  BY DEF AgreedIn
<1>5. AgreedIn(o) \in Nat /\ AgreedIn(o) <= Len(ids)
  BY <1>2, <1>3, <1>4
<1>6. SubSeq(ids, 1, AgreedIn(o)) \in Seq(Reqs)
  <2>1. \A i \in 1..AgreedIn(o) : ids[i] \in Reqs
    BY <1>1, <1>5
  <2> HIDE DEF ids
  <2> QED
    BY <1>5, <2>1, SubSeqProperties
<1> QED
  BY <1>6, EmptySeq DEF Grant

\* A rank's step keeps what the ranks have admitted together.
LEMMA StepAdmits ==
    ASSUME TypeOK, TypeOK', NEW r \in Ranks, RankStep(r), JoinedExact(r), OutcomeExact(r),
           NEW base \in Seq(Reqs), AdmittedFrom(base)
    PROVE  AdmittedFrom(base)'
<1>1. (\A s \in Ranks \ {r} : Same(s)) /\ outcome' = outcome /\ copied' = copied
  BY StepsAlone
<1>2. ASSUME NEW s \in Ranks \ {r}
      PROVE  /\ admitted'[s] = admitted[s] /\ at'[s] = at[s] /\ outcome'[s] = outcome[s]
             /\ Undecided(s)' = Undecided(s)
  BY <1>1 DEF Same, Undecided
<1>3. /\ admitted'[r] \in {base, base \o Grant(outcome[r])}
      /\ ~Undecided(r)'
      /\ at'[r] # "dead" => admitted'[r] = base \o Grant(outcome[r])
  <2>1. CASE Admit(r)
    <3>1. Undecided(r) /\ admitted'[r] = admitted[r] \o Ready(r)
      BY <2>1, AdmitDoes DEF TypeOK
    <3>2. admitted[r] = base /\ Ready(r) = Grant(outcome[r])
      BY <3>1, AdmitGrants DEF AdmittedFrom
    <3> QED
      BY <3>1, <3>2, StepAdmitted
  <2>2. CASE admitted' = admitted /\ at'[r] = "dead"
    BY <2>2, StepAdmitted DEF AdmittedFrom
  <2>3. CASE admitted' = admitted /\ ~Undecided(r) /\ at[r] # "dead"
    BY <2>3, StepAdmitted DEF AdmittedFrom
  <2> QED
    BY <2>1, <2>2, <2>3, StepAdmitted
<1>4. ASSUME NEW s \in Ranks
      PROVE  /\ Grant(outcome'[s]) \in Seq(Reqs)
             /\ admitted'[s] \in {base, base \o Grant(outcome'[s])}
             /\ Undecided(s)' => admitted'[s] = base
             /\ at'[s] # "dead" /\ ~Undecided(s)' => admitted'[s] = base \o Grant(outcome'[s])
  <2>1. CASE s = r
    BY <1>1, <1>3, <2>1 DEF AdmittedFrom
  <2>2. CASE s # r
    BY <1>2, <2>2 DEF AdmittedFrom
  <2> QED
    BY <2>1, <2>2
<1> QED
  BY <1>4 DEF AdmittedFrom, Grant, KindOf, AgreedIn, Reqs

\* The elements of two sequences in a row are those of both.
LEMMA ConcatSet ==
    ASSUME NEW p \in Seq(Reqs), NEW q \in Seq(Reqs)
    PROVE  p \o q \in Seq(Reqs) /\ ToSet(p \o q) = ToSet(p) \cup ToSet(q)
<1>1. /\ p \o q \in Seq(Reqs) /\ Len(p \o q) = Len(p) + Len(q)
      /\ \A i \in 1..(Len(p) + Len(q)) :
            (p \o q)[i] = IF i <= Len(p) THEN p[i] ELSE q[i - Len(p)]
  BY ConcatProperties
<1>2. /\ Len(p) \in Nat /\ Len(q) \in Nat /\ DOMAIN p = 1..Len(p) /\ DOMAIN q = 1..Len(q)
      /\ DOMAIN (p \o q) = 1..(Len(p) + Len(q))
  BY <1>1, LenProperties
<1>3. ToSet(p \o q) \subseteq ToSet(p) \cup ToSet(q)
  <2>1. ASSUME NEW i \in 1..(Len(p) + Len(q)) PROVE (p \o q)[i] \in ToSet(p) \cup ToSet(q)
    <3>1. CASE i <= Len(p)
      <4>1. i \in 1..Len(p) /\ (p \o q)[i] = p[i]
        BY <1>1, <1>2, <3>1
      <4> QED
        BY <1>2, <4>1 DEF ToSet
    <3>2. CASE ~(i <= Len(p))
      <4>1. i - Len(p) \in 1..Len(q) /\ (p \o q)[i] = q[i - Len(p)]
        BY <1>1, <1>2, <3>2
      <4> QED
        BY <1>2, <4>1 DEF ToSet
    <3> QED
      BY <3>1, <3>2
  <2> QED
    BY <1>2, <2>1 DEF ToSet
<1>4. ToSet(p) \subseteq ToSet(p \o q)
  <2>1. \A i \in 1..Len(p) : i \in 1..(Len(p) + Len(q)) /\ (p \o q)[i] = p[i]
    BY <1>1, <1>2
  <2> QED
    BY <1>2, <2>1 DEF ToSet
<1>5. ToSet(q) \subseteq ToSet(p \o q)
  <2>1. ASSUME NEW i \in 1..Len(q)
        PROVE  Len(p) + i \in 1..(Len(p) + Len(q)) /\ (p \o q)[Len(p) + i] = q[i]
    <3>1. Len(p) + i \in 1..(Len(p) + Len(q)) /\ ~(Len(p) + i <= Len(p)) /\ Len(p) + i - Len(p) = i
      BY <1>2
    <3> QED
      BY <1>1, <3>1
  <2> QED
    BY <1>2, <2>1 DEF ToSet
<1> QED
  BY <1>1, <1>3, <1>4, <1>5

\* Nobody is admitted whose copy some rank has not completed.
LEMMA StepCopied ==
    ASSUME TypeOK, NEW r \in Ranks, RankStep(r), JoinedExact(r), OutcomeExact(r), AdmittedCopied
    PROVE  AdmittedCopied'
<1>1. (\A s \in Ranks \ {r} : Same(s)) /\ copied' = copied
  BY StepsAlone
<1>2. CASE admitted' = admitted
  BY <1>1, <1>2 DEF AdmittedCopied
<1>3. CASE Admit(r)
  <2>1. admitted'[r] = admitted[r] \o Ready(r)
    BY <1>3, AdmitDoes DEF TypeOK
  <2>2. Ready(r) \in Seq(Reqs) /\ \A s \in Ranks : ToSet(Ready(r)) \subseteq copied[s]
    BY <1>3, AdmitDoes, AdmitDivides
  <2>3. ToSet(admitted'[r]) = ToSet(admitted[r]) \cup ToSet(Ready(r))
    BY <2>1, <2>2, ConcatSet DEF TypeOK
  <2>4. \A t \in Ranks \ {r} : admitted'[t] = admitted[t]
    BY <1>1 DEF Same
  <2>5. ASSUME NEW t \in Ranks, NEW s \in Ranks PROVE ToSet(admitted'[t]) \subseteq copied'[s]
    <3>1. CASE t = r
      BY <1>1, <2>2, <2>3, <3>1, Zenon DEF AdmittedCopied
    <3>2. CASE t # r
      BY <1>1, <2>4, <3>2, Zenon DEF AdmittedCopied
    <3> QED
      BY <3>1, <3>2
  <2> QED
    BY <2>5, Zenon DEF AdmittedCopied
<1> QED
  BY <1>2, <1>3, StepAdmitted

\* A rank that dies alone spends a fault: nothing else ends it.
LEMMA StepDeaths ==
    ASSUME TypeOK, NEW r \in Ranks, RankStep(r), OutcomeExact(r), DeathsCounted
    PROVE  DeathsCounted'
<1>1. \A s \in Ranks \ {r} : at'[s] = at[s]
  BY StepsAlone DEF Same
<1>2. CASE Dies(r)
  <2>1. ~(at[r] = "votes" /\ Disagree(r))
    BY <1>2, NeverDisagree DEF Dies, Undecided
  <2>2. faults > 0 /\ faults' = faults - 1
    BY <1>2, <2>1 DEF Dies
  <2> QED
    BY <2>2, Given DEF DeathsCounted, TypeOK
<1>3. CASE PeerLost(r)
  <2>1. (\E s \in Ranks : at[s] = "dead") /\ faults' = faults
    BY <1>3 DEF PeerLost
  <2> QED
    BY <2>1 DEF DeathsCounted
<1>4. CASE ~Dies(r) /\ ~PeerLost(r)
  <2>1. faults' = faults /\ at'[r] # "dead"
    <3> USE <1>4 DEF Goes, TypeOK
    <3>1. CASE JoinReceive(r)
      BY <3>1 DEF JoinReceive
    <3>2. CASE JoinTotal(r)
      BY <3>2 DEF JoinTotal
    <3>3. CASE JoinVotes(r)
      BY <3>3 DEF JoinVotes
    <3>4. CASE Admit(r)
      BY <3>4 DEF Admit
    <3>5. CASE SchedulePrefill(r)
      BY <3>5, PrefillDoes
    <3>6. CASE ScheduleDecode(r)
      BY <3>6 DEF ScheduleDecode
    <3>7. CASE ScheduleNothing(r)
      BY <3>7 DEF ScheduleNothing
    <3>8. CASE PrefillResult(r)
      BY <3>8, PrefillResultDoes
    <3>9. CASE DecodeResult(r)
      BY <3>9 DEF DecodeResult
    <3> QED
      BY <1>4, <3>1, <3>2, <3>3, <3>4, <3>5, <3>6, <3>7, <3>8, <3>9 DEF RankStep
  <2> QED
    BY <1>1, <2>1 DEF DeathsCounted
<1> QED
  BY <1>2, <1>3, <1>4

----------------------------------------------------------------------------
(* The agreement, step by step.                                            *)

\* A rank's step keeps the agreement.
LEMMA StepAgreement ==
    ASSUME TypeOK, Agreement, NEW r \in Ranks, RankStep(r)
    PROVE  TypeOK' /\ Agreement'
<1> JoinedExact(r) /\ OutcomeExact(r) /\ OutcomesShared
  BY DEF Agreement
<1>1. TypeOK'
  BY TypeStep
<1>2. (\A s \in Ranks \ {r} : Same(s)) /\ outcome' = outcome /\ copied' = copied
  BY StepsAlone
<1>3. ASSUME NEW s \in Ranks \ {r}
      PROVE  JoinedExact(s)' /\ OutcomeExact(s)' /\ Goal(s)' = Goal(s) /\ at'[s] = at[s]
  <2>1. JoinedExact(s) /\ OutcomeExact(s) /\ Same(s) /\ at'[s] = at[s]
    BY <1>2 DEF Agreement, Same
  <2> QED
    BY <1>1, <1>2, <2>1, SameKeeps
<1>4. /\ JoinedExact(r)' /\ OutcomeExact(r)'
      /\ at'[r] # "dead" => at[r] # "dead" /\ Goal(r)' = Goal(r)
  BY StepGoal
<1>5. \A s \in Ranks : JoinedExact(s)' /\ OutcomeExact(s)'
  BY <1>3, <1>4
<1>6. OutcomesShared'
  BY <1>2 DEF OutcomesShared, KindOf
<1>7. GoalsAgree'
  <2>1. \A s \in Ranks : at'[s] # "dead" => at[s] # "dead" /\ Goal(s)' = Goal(s)
    BY <1>3, <1>4
  <2>2. ASSUME NEW s \in Ranks, NEW t \in Ranks, at'[s] # "dead", at'[t] # "dead"
        PROVE  Goal(s)' = Goal(t)'
    <3>1. Goal(s) = Goal(t)
      BY <2>1, <2>2 DEF Agreement, GoalsAgree
    <3> QED
      BY <2>1, <2>2, <3>1
  <2> QED
    BY <2>2, Zenon DEF GoalsAgree
<1>8. (\E base \in Seq(Reqs) : AdmittedFrom(base))'
  <2>1. PICK base \in Seq(Reqs) : AdmittedFrom(base)
    BY DEF Agreement
  <2>2. AdmittedFrom(base)'
    BY <1>1, <2>1, StepAdmits
  <2> QED
    BY <2>2 DEF Reqs
<1>9. AdmittedCopied'
  BY StepCopied DEF Agreement
<1>10. DeathsCounted'
  BY StepDeaths DEF Agreement
<1> QED
  BY <1>1, <1>5, <1>6, <1>7, <1>8, <1>9, <1>10 DEF Agreement

\* What changes nothing but copies, and only adds to them, keeps the agreement.
LEMMA QuietAgreement ==
    ASSUME TypeOK, TypeOK', Agreement,
           UNCHANGED <<at, joined, outcome, admitted, faults>>,
           \A s \in Ranks : Same(s) /\ copied[s] \subseteq copied'[s]
    PROVE  Agreement'
<1>1. ASSUME NEW s \in Ranks
      PROVE  JoinedExact(s)' /\ OutcomeExact(s)' /\ Goal(s)' = Goal(s) /\ Undecided(s)' = Undecided(s)
  BY SameKeeps DEF Agreement
<1>2. OutcomesShared'
  BY DEF Agreement, OutcomesShared, KindOf
<1>3. GoalsAgree'
  <2>1. ASSUME NEW s \in Ranks, NEW t \in Ranks, at'[s] # "dead", at'[t] # "dead"
        PROVE  Goal(s)' = Goal(t)'
    <3>1. Goal(s) = Goal(t)
      BY <2>1 DEF Agreement, GoalsAgree
    <3> QED
      BY <1>1, <3>1
  <2> QED
    BY <2>1, Zenon DEF GoalsAgree
<1>4. (\E base \in Seq(Reqs) : AdmittedFrom(base))'
  <2>1. PICK base \in Seq(Reqs) : AdmittedFrom(base)
    BY DEF Agreement
  <2>2. AdmittedFrom(base)'
    BY <1>1, <2>1 DEF AdmittedFrom, Grant, KindOf, AgreedIn, Reqs
  <2> QED
    BY <2>2 DEF Reqs
<1>5. AdmittedCopied'
  BY DEF Agreement, AdmittedCopied
<1>6. DeathsCounted'
  BY DEF Agreement, DeathsCounted
<1> QED
  BY <1>1, <1>2, <1>3, <1>4, <1>5, <1>6 DEF Agreement

\* A completed copy changes nothing that the ranks have decided.
LEMMA CopiedIs ==
    ASSUME TypeOK, NEW r \in Ranks, NEW q \in Reqs, Copied(r, q)
    PROVE  /\ TypeOK' /\ UNCHANGED <<at, joined, outcome, admitted, faults>>
           /\ \A s \in Ranks : Same(s) /\ copied[s] \subseteq copied'[s]
BY DEF Copied, TypeOK, Same, promptVars, admitVars

\* Ranks that have all joined see the same, at the same place.
LEMMA AllArrived ==
    ASSUME TypeOK, Agreement, Complete
    PROVE  \A r, s \in Ranks :
              View(r) = View(s) /\ at[r] = at[s] /\ at[r] # "dead"
                 /\ joined[r].kind = joined[s].kind
<1> SUFFICES ASSUME NEW r \in Ranks, NEW s \in Ranks
             PROVE  View(r) = View(s) /\ at[r] = at[s] /\ at[r] # "dead"
                      /\ joined[r].kind = joined[s].kind
  OBVIOUS
<1>1. joined[r] # Nothing /\ joined[s] # Nothing /\ joined[r].kind = joined[s].kind
  BY DEF Complete
<1>2. JoinedExact(r) /\ JoinedExact(s)
  BY DEF Agreement
<1>3. at[r] = at[s] /\ at[r] # "dead" /\ at[s] # "dead"
  BY <1>1, <1>2 DEF JoinedExact
<1>4. Goal(r) = Goal(s)
  BY <1>3 DEF Agreement, GoalsAgree
<1>5. Goal(r) = <<joined[r].kind, View(r)>> /\ Goal(s) = <<joined[s].kind, View(s)>>
  BY <1>1 DEF Goal
<1>6. <<joined[r].kind, View(r)>> = <<joined[s].kind, View(s)>>
  BY <1>4, <1>5
<1> HIDE DEF View
<1>7. View(r) = View(s)
  BY <1>6
<1> QED
  BY <1>1, <1>3, <1>7

\* With a collective that completes the ranks start from the same place and
\* the same view, with one outcome.
LEMMA CompleteAgreement ==
    ASSUME TypeOK, Agreement, Complete
    PROVE  TypeOK' /\ Agreement'
<1>1. /\ outcome' = [r \in Ranks |-> joined] /\ joined' = [r \in Ranks |-> Nothing]
      /\ at' = at /\ waiting' = waiting /\ chunked' = chunked /\ captured' = captured
      /\ to_finish' = to_finish /\ idle' = idle /\ ack_staging_queue' = ack_staging_queue
      /\ copied' = copied /\ wait_initial_pair' = wait_initial_pair /\ admitted' = admitted
      /\ running' = running /\ faults' = faults
  BY DEF Complete, promptVars, admitVars
<1>2. TypeOK'
  BY <1>1 DEF TypeOK
<1>3. ASSUME NEW r \in Ranks
      PROVE  outcome'[r] = joined /\ joined'[r] = Nothing /\ View(r)' = View(r)
  BY <1>1 DEF View
<1>4. ASSUME NEW r \in Ranks
      PROVE  /\ joined[r] # Nothing /\ JoinedExact(r) /\ at[r] = at[Chief] /\ at[r] # "dead"
             /\ View(r) = View(Chief) /\ joined[r].kind = joined[Chief].kind
  BY AllArrived, Given DEF Complete, Agreement
<1>5. OutcomesShared'
  BY <1>3, <1>4, Given DEF OutcomesShared, KindOf
<1>6. GoalsAgree'
  <2>1. ASSUME NEW r \in Ranks PROVE Goal(r)' = After(at[Chief], View(Chief), joined)
    <3>1. Goal(r)' = After(at'[r], View(r)', outcome'[r])
      BY <1>3, OnTheWay
    <3> QED
      BY <1>1, <1>3, <1>4, <3>1
  <2> QED
    BY <2>1 DEF GoalsAgree
<1>7. ASSUME NEW r \in Ranks PROVE JoinedExact(r)' /\ OutcomeExact(r)'
  <2>1. JoinedExact(r)'
    BY <1>3 DEF JoinedExact
  <2>2. KindOf(outcome[r])' = joined[Chief].kind
    BY <1>3 DEF KindOf
  <2>3. at[r] = "received" => joined[Chief].kind = "receive"
    BY <1>4 DEF JoinedExact
  <2>4. at[r] = "total" => joined[Chief].kind = "total"
    BY <1>4 DEF JoinedExact
  <2>5. ASSUME at[r] = "votes" PROVE joined[Chief].kind = "votes" /\ VotesExact(r)'
    <3>1. joined[Chief].kind = "votes"
      BY <1>4, <2>5 DEF JoinedExact
    <3>2. ASSUME NEW s \in Ranks
          PROVE  /\ joined[s].ids = ack_staging_queue[r]
                 /\ joined[s].count \in 0..Len(ack_staging_queue[r])
                 /\ \A i \in 1..joined[s].count : ack_staging_queue[r][i] \in copied[s]
                 /\ joined[s].target = IF wait_initial_pair[r] THEN Target ELSE 0
      <4>1. at[s] = "votes" /\ joined[s] # Nothing /\ JoinedExact(s) /\ View(s) = View(r)
        BY <1>4, <2>5
      <4>2. ack_staging_queue[s] = ack_staging_queue[r] /\ wait_initial_pair[s] = wait_initial_pair[r]
        <5>1. View(s).parked = View(r).parked /\ View(s).initial = View(r).initial
          BY <4>1
        <5> QED
          BY <5>1 DEF View
      <4>3. /\ joined[s].ids = ack_staging_queue[s]
            /\ joined[s].count \in 0..Len(ack_staging_queue[s])
            /\ \A i \in 1..joined[s].count : ack_staging_queue[s][i] \in copied[s]
            /\ joined[s].target = IF wait_initial_pair[s] THEN Target ELSE 0
        BY <4>1 DEF JoinedExact
      <4> QED
        BY <4>2, <4>3, Zenon
    <3> QED
      BY <1>1, <1>3, <3>1, <3>2 DEF VotesExact
  <2>6. ASSUME at[r] = "forward"
        PROVE  \/ joined[Chief].kind = "prefill" /\ chunked[r] # NoPrompt
               \/ joined[Chief].kind = "decode" /\ joined[r].reqs = running[r]
    BY <1>4, <2>6 DEF JoinedExact
  <2>7. OutcomeExact(r)'
    BY <1>1, <1>3, <2>2, <2>3, <2>4, <2>5, <2>6 DEF OutcomeExact
  <2> QED
    BY <2>1, <2>7
<1>8. (\E base \in Seq(Reqs) : AdmittedFrom(base))'
  <2>1. PICK base \in Seq(Reqs) : AdmittedFrom(base)
    BY DEF Agreement
  <2> DEFINE next == base \o Grant(outcome[Chief])
  <2>2. ASSUME NEW r \in Ranks PROVE admitted[r] = next
    <3>1. ~Undecided(r) /\ at[r] # "dead" /\ outcome[r] = outcome[Chief]
      BY <1>4, Given DEF Undecided, Agreement, OutcomesShared
    <3> QED
      BY <2>1, <3>1 DEF AdmittedFrom
  <2> HIDE DEF next
  <2>3. next \in Seq(Reqs)
    BY <2>2, Given DEF TypeOK
  <2>4. PICK b \in Seq(Reqs) : b = next
    BY <2>3
  <2>5. ASSUME NEW r \in Ranks
        PROVE  /\ Grant(outcome'[r]) \in Seq(Reqs)
               /\ admitted'[r] = b /\ ~(at'[r] = "dead")
               /\ ~Undecided(r)' => b = b \o Grant(outcome'[r])
    <3>1. admitted'[r] = b /\ ~(at'[r] = "dead")
      BY <1>1, <1>4, <2>2, <2>4
    <3>2. ASSUME ~Undecided(r)' PROVE b = b \o Grant(outcome'[r])
      <4>1. joined[Chief].kind # "votes"
        BY <1>1, <1>3, <1>4, <3>2 DEF Undecided, JoinedExact
      <4>2. Grant(outcome'[r]) = <<>>
        BY <1>3, <4>1 DEF Grant, KindOf
      <4> QED
        BY <4>2, ConcatEmptySeq
    <3>3. Grant(joined) \in Seq(Reqs)
      <4>1. CASE joined[Chief].kind = "votes"
        <5>1. ack_staging_queue[Chief] \in Seq(Reqs) /\ joined[Chief].ids = ack_staging_queue[Chief]
          BY <1>4, <4>1, Given DEF JoinedExact, TypeOK
        <5>2. ASSUME NEW s \in Ranks
              PROVE  joined[s].count \in 0..Len(ack_staging_queue[Chief])
          <6>1. joined[s].count \in 0..Len(ack_staging_queue[s])
            BY <1>4, <4>1 DEF JoinedExact
          <6>2. View(s).parked = View(Chief).parked
            BY <1>4
          <6> QED
            BY <6>1, <6>2 DEF View
        <5> QED
          BY <5>1, <5>2, GrantIsSeq
      <4>2. CASE joined[Chief].kind # "votes"
        BY <4>2, EmptySeq DEF Grant, KindOf
      <4> QED
        BY <4>1, <4>2
    <3> QED
      BY <1>3, <3>1, <3>2, <3>3
  <2>6. AdmittedFrom(b)'
    BY <2>5 DEF AdmittedFrom, Grant, KindOf, AgreedIn, Reqs
  <2> QED
    BY <2>6 DEF Reqs
<1>9. AdmittedCopied'
  BY <1>1 DEF Agreement, AdmittedCopied
<1>10. DeathsCounted'
  BY <1>1 DEF Agreement, DeathsCounted
<1> QED
  BY <1>2, <1>5, <1>6, <1>7, <1>8, <1>9, <1>10 DEF Agreement

\* The ranks begin in agreement.
LEMMA InitAgreement ==
    ASSUME Init
    PROVE  TypeOK /\ Agreement
<1>1. TypeOK
  <2>1. <<>> \in Seq(Reqs)
    BY EmptySeq
  <2>2. (Target # 0) \in BOOLEAN
    OBVIOUS
  <2>3. wait_initial_pair \in [Ranks -> BOOLEAN]
    BY <2>2 DEF Init
  <2> QED
    BY <2>1, <2>3, Given DEF Init, TypeOK, Places, Prompts
<1>2. ASSUME NEW r \in Ranks
      PROVE  /\ at[r] = "receive" /\ joined[r] = Nothing /\ admitted[r] = <<>>
             /\ outcome[r] = [s \in Ranks |-> Nothing]
             /\ View(r) = [waiting |-> Reqs, chunked |-> NoPrompt, marked |-> {}, parked |-> <<>>,
                           initial |-> wait_initial_pair[Chief], running |-> {}]
  BY Given DEF Init, View
<1>3. GoalsAgree
  BY <1>2 DEF GoalsAgree, Goal
<1>4. \A r \in Ranks : JoinedExact(r) /\ OutcomeExact(r)
  BY <1>2 DEF JoinedExact, OutcomeExact
<1>5. OutcomesShared
  BY <1>2, Given DEF OutcomesShared, KindOf
<1>6. AdmittedFrom(<<>>)
  <2>1. ASSUME NEW r \in Ranks PROVE Grant(outcome[r]) = <<>>
    BY <1>2, Given DEF Grant, KindOf, Nothing
  <2>2. <<>> \o <<>> = <<>>
    BY ConcatEmptySeq, EmptySeq
  <2> QED
    BY <1>2, <2>1, <2>2, EmptySeq DEF AdmittedFrom, Undecided
<1>7. AdmittedCopied
  <2>1. ToSet(<<>>) = {}
    BY DEF ToSet
  <2> QED
    BY <1>2, <2>1 DEF AdmittedCopied
<1>8. DeathsCounted
  BY <1>2, Given DEF DeathsCounted, Init
<1>9. \E base \in Seq(Reqs) : AdmittedFrom(base)
  BY <1>6, EmptySeq
<1> QED
  BY <1>1, <1>3, <1>4, <1>5, <1>7, <1>8, <1>9 DEF Agreement

\* Every step keeps the agreement.
LEMMA NextAgreement ==
    ASSUME TypeOK, Agreement, [Next]_vars
    PROVE  TypeOK' /\ Agreement'
<1>1. ASSUME NEW r \in Ranks, RankStep(r) PROVE TypeOK' /\ Agreement'
  BY <1>1, StepAgreement
<1>2. ASSUME NEW r \in Ranks, NEW q \in Reqs, Copied(r, q) PROVE TypeOK' /\ Agreement'
  BY <1>2, CopiedIs, QuietAgreement
<1>3. CASE Complete
  BY <1>3, CompleteAgreement
<1>4. CASE UNCHANGED vars
  <2>1. TypeOK'
    BY <1>4 DEF TypeOK, vars, promptVars, admitVars
  <2>2. /\ UNCHANGED <<at, joined, outcome, admitted, faults>>
        /\ \A s \in Ranks : Same(s) /\ copied[s] \subseteq copied'[s]
    BY <1>4 DEF vars, promptVars, admitVars, Same
  <2> QED
    BY <2>1, <2>2, QuietAgreement
<1>5. Next => (\E r \in Ranks : RankStep(r)) \/ (\E r \in Ranks, q \in Reqs : Copied(r, q)) \/ Complete
  BY Zenon DEF Next, RankStep
<1> QED
  BY <1>1, <1>2, <1>3, <1>4, <1>5

----------------------------------------------------------------------------
(* What the agreement says.                                                *)

\* A sequence begins every longer one.
LEMMA Begins ==
    ASSUME NEW b \in Seq(Reqs), NEW g \in Seq(Reqs)
    PROVE  IsPrefix(b, b) /\ IsPrefix(b, b \o g)
<1>1. Len(b) \in Nat /\ Len(g) \in Nat /\ Len(b \o g) = Len(b) + Len(g)
  BY ConcatProperties, LenProperties
<1>2. SubSeq(b, 1, Len(b)) = b /\ SubSeq(b \o g, 1, Len(b)) = b
  BY ConcatSimplifications, SubSeqFull, SubSeqOfConcat1
<1> QED
  BY <1>1, <1>2 DEF IsPrefix

\* Ranks in agreement wait in one collective, have admitted the same but for a
\* step, and do not die of what they decided.
LEMMA AgreementSays ==
    ASSUME TypeOK, Agreement
    PROVE  RanksAgree
<1>1. ASSUME NEW r \in Ranks, NEW s \in Ranks, joined[r] # Nothing, joined[s] # Nothing
      PROVE  /\ joined[r].kind = joined[s].kind
             /\ joined[r].kind \in {"prefill", "decode"} =>
                   joined[r].reqs = joined[s].reqs /\ joined[r].end = joined[s].end
  <2>1. JoinedExact(r) /\ JoinedExact(s)
    BY DEF Agreement
  <2>2. at[r] # "dead" /\ at[s] # "dead"
    BY <1>1, <2>1 DEF JoinedExact
  <2>3. <<joined[r].kind, View(r)>> = <<joined[s].kind, View(s)>>
    BY <1>1, <2>2, Zenon DEF Agreement, GoalsAgree, Goal
  <2>4. joined[r].kind = joined[s].kind /\ View(r) = View(s)
    <3> HIDE DEF View
    <3> QED
      BY <2>3
  <2>5. chunked[r] = chunked[s] /\ running[r] = running[s]
    <3>1. View(r).chunked = View(s).chunked /\ View(r).running = View(s).running
      BY <2>4
    <3> QED
      BY <3>1 DEF View
  <2> QED
    BY <1>1, <2>1, <2>4, <2>5 DEF JoinedExact
<1>2. ASSUME NEW r \in Ranks, NEW s \in Ranks
      PROVE  IsPrefix(admitted[r], admitted[s]) \/ IsPrefix(admitted[s], admitted[r])
  <2>1. PICK base \in Seq(Reqs) : AdmittedFrom(base)
    BY DEF Agreement
  <2>2. PICK g \in Seq(Reqs) : g = Grant(outcome[r])
    BY <2>1 DEF AdmittedFrom
  <2>3. outcome[s] = outcome[r]
    BY DEF Agreement, OutcomesShared
  <2>4. admitted[r] \in {base, base \o g} /\ admitted[s] \in {base, base \o g}
    BY <2>1, <2>2, <2>3 DEF AdmittedFrom
  <2>5. IsPrefix(base, base) /\ IsPrefix(base, base \o g) /\ IsPrefix(base \o g, base \o g)
    BY Begins, ConcatProperties
  <2> QED
    BY <2>4, <2>5
<1>3. faults = MaxFaults => \A r \in Ranks : at[r] # "dead"
  BY Given DEF Agreement, DeathsCounted, TypeOK
<1> QED
  BY <1>1, <1>2, <1>3 DEF RanksAgree, Agreement, AdmittedCopied

----------------------------------------------------------------------------
(* Where a request is.                                                     *)

\* The prompts, the parked and the running are requests, and 0 is none.
LEMMA PlaceTypes ==
    ASSUME TypeOK, NEW r \in Ranks
    PROVE  /\ ToSet(ack_staging_queue[r]) \subseteq Reqs /\ running[r] \subseteq Reqs
           /\ waiting[r] \subseteq Reqs /\ 0 \notin Reqs /\ NoPrompt.req = 0
           /\ chunked[r] # NoPrompt => chunked[r].req \in Reqs /\ chunked[r].end \in Nat
           /\ ack_staging_queue[r] \in Seq(Reqs)
<1>1. ack_staging_queue[r] \in Seq(Reqs)
  BY DEF TypeOK
<1>2. ToSet(ack_staging_queue[r]) \subseteq Reqs
  BY <1>1, ElementOfSeq, LenProperties DEF ToSet
<1> QED
  BY <1>1, <1>2, Given DEF TypeOK, Prompts, NoPrompt

\* A step that moves no request keeps them where they are. It may leave the
\* queue, gain prefixes, or clear the idle mark.
LEMMA NothingMoves ==
    ASSUME TypeOK, NEW r \in Ranks, LocatedAt(r),
           ack_staging_queue'[r] = ack_staging_queue[r], chunked'[r] = chunked[r],
           running'[r] \subseteq running[r], waiting'[r] \subseteq waiting[r],
           captured[r] \subseteq captured'[r]
    PROVE  /\ Apart(r)'
           /\ \A q \in ToSet(ack_staging_queue[r]) \cup running'[r] : Whole(r, q)'
           /\ \A q : Whole(r, q) => Whole(r, q)'
<1>1. Apart(r)'
  BY DEF LocatedAt, Apart
<1>2. \A q : Whole(r, q) => Whole(r, q)'
  BY DEF Whole
<1>3. \A q \in ToSet(ack_staging_queue[r]) \cup running[r] : Whole(r, q)
  BY DEF LocatedAt, PrefixesKept
<1> QED
  BY <1>1, <1>2, <1>3

\* A turn that goes on without a prompt being scheduled.
LEMMA TurnLocated ==
    ASSUME TypeOK, NEW r \in Ranks, LocatedAt(r),
           ack_staging_queue'[r] = ack_staging_queue[r], chunked'[r] = chunked[r],
           running'[r] \subseteq running[r], waiting'[r] \subseteq waiting[r],
           captured' = captured, to_finish' = to_finish, outcome' = outcome,
           at'[r] \in {"total", "votes", "schedule"} => at[r] \in {"total", "votes", "schedule"},
           at'[r] # "total",
           idle'[r] => /\ at'[r] \in {"receive", "received", "dead"}
                       /\ ack_staging_queue[r] = <<>> /\ running[r] = {}
                       /\ chunked[r] = NoPrompt
    PROVE  LocatedAt(r)'
<1>1. /\ Apart(r)'
      /\ \A q \in ToSet(ack_staging_queue[r]) \cup running'[r] : Whole(r, q)'
      /\ \A q : Whole(r, q) => Whole(r, q)'
  BY NothingMoves
<1>2. AbortsFound(r)'
  BY DEF AbortsFound
<1>3. PrefixesKept(r)'
  BY <1>1 DEF PrefixesKept, LocatedAt
<1>4. IdleExact(r)'
  BY DEF IdleExact
<1> QED
  BY <1>1, <1>2, <1>3, <1>4 DEF LocatedAt

\* What is aborted is found in its place, whichever that is.
LEMMA JoinTotalLocated ==
    ASSUME TypeOK, NEW r \in Ranks, LocatedAt(r), JoinTotal(r)
    PROVE  LocatedAt(r)'
<1> DEFINE gone == outcome[r][Chief].aborts
<1>1. /\ waiting'[r] = waiting[r] \ gone
      /\ to_finish'[r] = to_finish[r] \cup (gone \cap Inflight(r))
      /\ chunked' = chunked /\ ack_staging_queue' = ack_staging_queue /\ running' = running
      /\ outcome' = outcome /\ ~idle'[r] /\ at'[r] = "total"
  BY DEF JoinTotal, TypeOK, Goes
<1>2. /\ captured[r] \subseteq captured'[r]
      /\ chunked[r].end % PageSize = 0 => <<chunked[r].req, chunked[r].end>> \in captured'[r]
  BY DEF JoinTotal, Captures, TypeOK
<1>3. /\ Apart(r)'
      /\ \A q \in ToSet(ack_staging_queue[r]) \cup running'[r] : Whole(r, q)'
      /\ \A q : Whole(r, q) => Whole(r, q)'
  BY <1>1, <1>2, NothingMoves
<1>4. AbortsFound(r)'
  BY <1>1 DEF AbortsFound, Inflight
<1>5. PrefixesKept(r)'
  <2>1. CASE chunked[r] = NoPrompt
    BY <1>1, <1>3, <2>1 DEF PrefixesKept
  <2>2. CASE chunked[r] # NoPrompt
    <3>1. chunked[r].req \in Reqs /\ chunked[r].end \in Nat
      BY <2>2, PlaceTypes
    <3>2. /\ chunked[r].end <= Prompt[chunked[r].req]
          /\ chunked[r].end > Boundary(chunked[r].req) => Whole(r, chunked[r].req)
      BY <2>2 DEF LocatedAt, PrefixesKept
    <3>3. ASSUME chunked[r].end = Boundary(chunked[r].req)
          PROVE  <<chunked[r].req, Boundary(chunked[r].req)>> \in captured'[r]
      <4>1. Boundary(chunked[r].req) % PageSize = 0
        BY <3>1, BoundaryIs
      <4> QED
        BY <1>2, <3>3, <4>1
    <3>4. PICK q \in Reqs : q = chunked[r].req
      BY <3>1
    <3>5. chunked[r].end >= Boundary(q) => Whole(r, q)'
      <4>1. Boundary(q) \in Nat
        BY BoundaryIs
      <4>2. chunked[r].end = Boundary(q) => <<q, Boundary(q)>> \in captured'[r]
        BY <3>3, <3>4
      <4>3. chunked[r].end > Boundary(q) => Whole(r, q)
        BY <3>2, <3>4
      <4>4. Whole(r, q) => Whole(r, q)'
        BY <1>3
      <4>5. <<q, Boundary(q)>> \in captured'[r] => Whole(r, q)'
        BY Zenon DEF Whole
      <4> QED
        BY <3>1, <4>1, <4>2, <4>3, <4>4, <4>5
    <3>6. Boundary(q) \in Nat /\ chunked'[r] = chunked[r]
      BY <1>1, BoundaryIs
    <3>7. chunked[r].end > Boundary(q) \/ chunked[r].end = Boundary(q) => chunked[r].end >= Boundary(q)
      BY <3>1, <3>6
    <3> QED
      BY <1>1, <1>3, <3>2, <3>4, <3>5, <3>6, <3>7, Zenon DEF PrefixesKept
  <2> QED
    BY <2>1, <2>2
<1>6. IdleExact(r)'
  BY <1>1 DEF IdleExact
<1> QED
  BY <1>3, <1>4, <1>5, <1>6 DEF LocatedAt

\* What is admitted goes from the parked to the running.
LEMMA AdmitLocated ==
    ASSUME TypeOK, NEW r \in Ranks, LocatedAt(r), OutcomeExact(r), Admit(r)
    PROVE  LocatedAt(r)'
<1>1. /\ Undecided(r) /\ at'[r] = "schedule"
      /\ ack_staging_queue'[r] = Rest(r) /\ running'[r] = running[r] \cup ToSet(Ready(r))
      /\ chunked' = chunked /\ waiting' = waiting /\ captured' = captured /\ idle' = idle
  BY AdmitDoes DEF TypeOK
<1> DEFINE q == ack_staging_queue[r]
           n == Admitting(r)
<1>2. /\ n \in 0..Len(q)
      /\ Ready(r) \in Seq(Reqs) /\ Rest(r) \in Seq(Reqs)
      /\ Len(Ready(r)) = n /\ Len(Rest(r)) = Len(q) - n
      /\ \A i \in 1..Len(Ready(r)) : Ready(r)[i] = q[i]
      /\ \A i \in 1..Len(Rest(r)) : Rest(r)[i] = q[n + i]
      /\ ToSet(Ready(r)) \cup ToSet(Rest(r)) \subseteq ToSet(q)
  BY <1>1, AdmitDivides
<1>3. /\ Len(q) \in Nat /\ DOMAIN q = 1..Len(q)
      /\ DOMAIN Ready(r) = 1..n /\ DOMAIN Rest(r) = 1..(Len(q) - n)
  BY <1>2, LenProperties DEF TypeOK
<1>4. \A i, j \in 1..Len(q) : q[i] = q[j] => i = j
  BY <1>3 DEF LocatedAt, Apart
<1> HIDE DEF q, n
<1>5. \A i, j \in DOMAIN Rest(r) : Rest(r)[i] = Rest(r)[j] => i = j
  <2>1. ASSUME NEW i \in 1..(Len(q) - n), NEW j \in 1..(Len(q) - n), Rest(r)[i] = Rest(r)[j]
        PROVE  i = j
    <3>1. n + i \in 1..Len(q) /\ n + j \in 1..Len(q)
      BY <1>2, <1>3
    <3>2. q[n + i] = q[n + j]
      BY <1>2, <2>1
    <3>3. n + i = n + j
      BY <1>4, <3>1, <3>2
    <3> QED
      BY <1>2, <1>3, <3>3
  <2> QED
    BY <1>3, <2>1
<1>6. ToSet(Rest(r)) \cap ToSet(Ready(r)) = {}
  <2>1. ASSUME NEW i \in 1..(Len(q) - n), NEW j \in 1..n PROVE Rest(r)[i] # Ready(r)[j]
    <3>1. n + i \in 1..Len(q) /\ j \in 1..Len(q) /\ n + i # j
      BY <1>2, <1>3
    <3>2. Rest(r)[i] = q[n + i] /\ Ready(r)[j] = q[j]
      BY <1>2
    <3> QED
      BY <1>4, <3>1, <3>2
  <2> QED
    BY <1>3, <2>1 DEF ToSet
<1>7. Apart(r)'
  <2>1. /\ ToSet(q) \cap running[r] = {} /\ (ToSet(q) \cup running[r]) \cap waiting[r] = {}
        /\ chunked[r].req \notin ToSet(q) \cup running[r] \cup waiting[r]
    BY DEF LocatedAt, Apart, q
  <2>2. /\ ToSet(Rest(r)) \cap (running[r] \cup ToSet(Ready(r))) = {}
        /\ (ToSet(Rest(r)) \cup running[r] \cup ToSet(Ready(r))) \cap waiting[r] = {}
        /\ chunked[r].req \notin ToSet(Rest(r)) \cup running[r] \cup ToSet(Ready(r)) \cup waiting[r]
    BY <1>2, <1>6, <2>1
  <2> QED
    BY <1>1, <1>5, <2>2 DEF Apart
<1>8. PrefixesKept(r)'
  <2>1. \A x : Whole(r, x)' <=> Whole(r, x)
    BY <1>1 DEF Whole
  <2>2. at[r] = "votes"
    BY <1>1 DEF Undecided
  <2>3. \A x \in ToSet(Rest(r)) \cup running[r] \cup ToSet(Ready(r)) : Whole(r, x)
    BY <1>2 DEF LocatedAt, PrefixesKept, q
  <2> QED
    BY <1>1, <2>1, <2>2, <2>3 DEF LocatedAt, PrefixesKept
<1>9. AbortsFound(r)' /\ IdleExact(r)'
  BY <1>1 DEF AbortsFound, IdleExact, LocatedAt, Undecided
<1> QED
  BY <1>7, <1>8, <1>9 DEF LocatedAt

\* What is scheduled goes from the waiting to the lane.
LEMMA PrefillLocated ==
    ASSUME TypeOK, NEW r \in Ranks, LocatedAt(r), SchedulePrefill(r)
    PROVE  LocatedAt(r)'
<1> DEFINE q == NextPrompt(r)
<1>1. /\ at[r] = "schedule" /\ q # 0 /\ at'[r] = "forward"
      /\ chunked'[r] = [req |-> q, end |-> NextEnd(r)]
      /\ waiting'[r] = IF chunked[r] = NoPrompt THEN waiting[r] \ {q} ELSE waiting[r]
      /\ running' = running /\ ack_staging_queue' = ack_staging_queue /\ captured' = captured
      /\ idle' = idle
  <2>1. /\ running' = running /\ ack_staging_queue' = ack_staging_queue /\ captured' = captured
        /\ idle' = idle
    BY PrefillDoes
  <2> QED
    BY <2>1, PrefillTakes
<1>2. /\ q \in Reqs /\ NextEnd(r) \in Nat /\ NextEnd(r) <= Prompt[q]
      /\ chunked[r] # NoPrompt => q = chunked[r].req
      /\ chunked[r] = NoPrompt => q \in waiting[r]
  BY <1>1, NextEndIs, NextIs
<1>3. Apart(r)'
  <2>1. q \notin ToSet(ack_staging_queue[r]) \cup running[r] \cup waiting'[r]
    BY <1>1, <1>2 DEF LocatedAt, Apart
  <2>2. chunked'[r].req = q /\ waiting'[r] \subseteq waiting[r]
    BY <1>1
  <2> HIDE DEF q
  <2> QED
    BY <1>1, <2>1, <2>2 DEF LocatedAt, Apart
<1>4. ASSUME NextEnd(r) > Boundary(q) PROVE Whole(r, q)
  <2> DEFINE begin == IF chunked[r] = NoPrompt THEN Basis(q) ELSE chunked[r].end
  <2>1. NextEnd(r) = ChunkEnd(q, begin)
    BY DEF NextEnd
  <2>2. begin \in Nat
    BY <1>2, BasisIsHit, Given, PlaceTypes
  <2>3. begin >= Boundary(q)
    <3> HIDE DEF begin, q
    <3>1. begin < Boundary(q) => ChunkEnd(q, begin) <= Boundary(q)
      BY <1>2, <2>2, ChunkEndIs
    <3>2. Boundary(q) \in Nat
      BY <1>2, BoundaryIs
    <3> QED
      BY <1>2, <1>4, <2>1, <2>2, <3>1, <3>2
  <2>4. CASE chunked[r] = NoPrompt
    <3>1. Hit[q] >= Boundary(q) /\ Hit[q] \in Nat /\ Boundary(q) \in Nat
      BY <1>2, <2>3, <2>4, BasisIsHit, Given, BoundaryIs
    <3>2. ~(Hit[q] < Boundary(q))
      BY <3>1
    <3> QED
      BY <3>2 DEF Whole
  <2>5. CASE chunked[r] # NoPrompt
    <3>1. chunked[r].end >= Boundary(q) /\ q = chunked[r].req
      BY <1>2, <2>3, <2>5
    <3>2. chunked[r].end \in Nat /\ Boundary(q) \in Nat
      BY <1>2, <2>5, BoundaryIs, PlaceTypes
    <3>3. chunked[r].end > Boundary(chunked[r].req) \/ chunked[r].end = Boundary(chunked[r].req)
      BY <3>1, <3>2
    <3>4. Whole(r, chunked[r].req)
      BY <1>1, <2>5, <3>3 DEF LocatedAt, PrefixesKept
    <3> QED
      BY <3>1, <3>4
  <2> QED
    BY <2>4, <2>5
<1>5. PrefixesKept(r)'
  <2>1. \A x : Whole(r, x)' <=> Whole(r, x)
    BY <1>1 DEF Whole
  <2>2. chunked'[r].req = q /\ chunked'[r].end = NextEnd(r)
    BY <1>1
  <2>3. \A x \in ToSet(ack_staging_queue[r]) \cup running[r] : Whole(r, x)
    BY DEF LocatedAt, PrefixesKept
  <2> HIDE DEF q
  <2> QED
    BY <1>1, <1>2, <1>4, <2>1, <2>2, <2>3 DEF PrefixesKept
<1>6. AbortsFound(r)' /\ IdleExact(r)'
  BY <1>1 DEF AbortsFound, IdleExact, LocatedAt
<1> QED
  BY <1>3, <1>5, <1>6 DEF LocatedAt

\* A prompt that ended goes from the lane to the parked, with its whole pages
\* captured.
LEMMA PrefillResultLocated ==
    ASSUME TypeOK, NEW r \in Ranks, LocatedAt(r), OutcomeExact(r), OutcomesShared, PrefillResult(r)
    PROVE  LocatedAt(r)'
<1>1. /\ at[r] = "forward" /\ joined[r] = Nothing /\ outcome[r][r].kind = "prefill"
      /\ at'[r] = "receive" /\ waiting' = waiting /\ running' = running /\ idle' = idle
      /\ outcome' = outcome /\ to_finish' = to_finish
  BY PrefillResultDoes DEF TypeOK
<1>2. chunked[r] # NoPrompt
  BY <1>1 DEF OutcomeExact, OutcomesShared
<1>3. ~idle[r]
  BY <1>1 DEF LocatedAt, IdleExact
<1>4. CASE chunked[r].end < Prompt[chunked[r].req]
  <2>1. UNCHANGED <<chunked, captured, ack_staging_queue>>
    BY <1>4, MiddleDoes
  <2> QED
    BY <1>1, <1>3, <2>1, TurnLocated
<1>5. CASE ~(chunked[r].end < Prompt[chunked[r].req])
  <2> DEFINE park == ack_staging_queue[r]
  <2>0. PICK q \in Reqs : q = chunked[r].req
    BY <1>2, PlaceTypes
  <2>1. /\ chunked'[r] = NoPrompt
        /\ ack_staging_queue'[r] = IF q \in Instant THEN park ELSE Append(park, q)
        /\ captured[r] \subseteq captured'[r]
        /\ Prompt[q] % PageSize = 0 => <<q, Prompt[q]>> \in captured'[r]
    <3>1. /\ chunked' = [chunked EXCEPT ![r] = NoPrompt]
          /\ ack_staging_queue' =
                IF q \in Instant THEN ack_staging_queue
                ELSE [ack_staging_queue EXCEPT ![r] = Append(@, q)]
          /\ Captures(r, q, Prompt[q])
      BY <1>5, <2>0, LastDoes
    <3>2. DOMAIN captured = Ranks
      BY DEF TypeOK
    <3>3. /\ captured[r] \subseteq captured'[r]
          /\ Prompt[q] % PageSize = 0 => <<q, Prompt[q]>> \in captured'[r]
      BY <3>1, <3>2 DEF Captures
    <3> QED
      BY <3>1, <3>3 DEF TypeOK
  <2>2. /\ q \in Reqs /\ q # 0 /\ chunked[r].end \in Nat /\ park \in Seq(Reqs)
        /\ Prompt[q] \in Nat /\ Boundary(q) \in Nat /\ Boundary(q) <= Prompt[q]
        /\ Boundary(q) % PageSize = 0
    BY <1>2, <2>0, PlaceTypes, Given, BoundaryIs
  <2>3. /\ q \notin ToSet(park) \cup running[r] \cup waiting[r]
        /\ ToSet(park) \cap running[r] = {} /\ (ToSet(park) \cup running[r]) \cap waiting[r] = {}
        /\ \A i, j \in DOMAIN park : park[i] = park[j] => i = j
    BY <2>0 DEF LocatedAt, Apart
  <2>4. chunked[r].end = Prompt[q]
    <3>1. chunked[r].end <= Prompt[q]
      BY <1>2, <2>0 DEF LocatedAt, PrefixesKept
    <3> QED
      BY <1>5, <2>0, <2>2, <3>1
  <2>5. Whole(r, q)'
    <3>1. CASE Prompt[q] = Boundary(q)
      BY <2>1, <2>2, <3>1 DEF Whole
    <3>2. CASE Prompt[q] # Boundary(q)
      <4>1. chunked[r].end > Boundary(q)
        BY <2>2, <2>4, <3>2
      <4>2. Whole(r, q)
        BY <1>2, <2>0, <4>1 DEF LocatedAt, PrefixesKept
      <4> QED
        BY <2>1, <4>2 DEF Whole
    <3> QED
      BY <3>1, <3>2
  <2>6. ASSUME NEW x \in ToSet(park) \cup running[r] PROVE Whole(r, x)'
    <3>1. Whole(r, x)
      BY DEF LocatedAt, PrefixesKept
    <3> QED
      BY <2>1, <3>1 DEF Whole
  <2>7. /\ ToSet(ack_staging_queue'[r]) \subseteq ToSet(park) \cup {q}
        /\ \A i, j \in DOMAIN ack_staging_queue'[r] :
              ack_staging_queue'[r][i] = ack_staging_queue'[r][j] => i = j
    <3>1. CASE q \in Instant
      BY <2>1, <2>3, <3>1
    <3>2. CASE q \notin Instant
      <4> HIDE DEF park
      <4>1. ack_staging_queue'[r] = Append(park, q)
        BY <2>1, <3>2
      <4>2. /\ DOMAIN park = 1..Len(park) /\ DOMAIN Append(park, q) = 1..(Len(park) + 1)
            /\ Len(park) \in Nat
            /\ \A i \in 1..Len(park) : Append(park, q)[i] = park[i]
            /\ Append(park, q)[Len(park) + 1] = q
            /\ ToSet(Append(park, q)) = ToSet(park) \cup {q}
        BY <2>2, AppendParks, LenProperties
      <4>3. \A i \in 1..Len(park) : park[i] # q
        BY <2>3, <4>2 DEF ToSet
      <4>4. ASSUME NEW i \in 1..(Len(park) + 1), NEW j \in 1..(Len(park) + 1),
                   Append(park, q)[i] = Append(park, q)[j]
            PROVE  i = j
        <5>1. (i \in 1..Len(park) \/ i = Len(park) + 1) /\ (j \in 1..Len(park) \/ j = Len(park) + 1)
          BY <4>2
        <5> QED
          BY <2>3, <4>2, <4>3, <4>4, <5>1
      <4> QED
        BY <4>1, <4>2, <4>4
    <3> QED
      BY <3>1, <3>2
  <2>8. Apart(r)'
    <3>1. chunked'[r].req = 0 /\ 0 \notin Reqs
      BY <2>1, PlaceTypes
    <3>2. ToSet(park) \subseteq Reqs /\ running[r] \subseteq Reqs /\ waiting[r] \subseteq Reqs
      BY PlaceTypes
    <3> HIDE DEF park
    <3> QED
      BY <1>1, <2>2, <2>3, <2>7, <3>1, <3>2 DEF Apart
  <2>9. PrefixesKept(r)'
    <3> HIDE DEF park
    <3> QED
      BY <1>1, <2>1, <2>5, <2>6, <2>7 DEF PrefixesKept
  <2>10. AbortsFound(r)' /\ IdleExact(r)'
    BY <1>1, <1>3 DEF AbortsFound, IdleExact
  <2> QED
    BY <2>8, <2>9, <2>10 DEF LocatedAt
<1> QED
  BY <1>4, <1>5

\* A rank's step keeps its requests in their places.
LEMMA StepLocated ==
    ASSUME TypeOK, Agreement, NEW r \in Ranks, LocatedAt(r), RankStep(r)
    PROVE  LocatedAt(r)'
<1> JoinedExact(r) /\ OutcomeExact(r) /\ OutcomesShared
  BY DEF Agreement
<1>1. CASE JoinReceive(r)
  <2>1. /\ at[r] = "receive" /\ at'[r] = "received" /\ idle' = idle
        /\ UNCHANGED <<waiting, chunked, captured, to_finish, ack_staging_queue, running, outcome>>
    BY <1>1 DEF JoinReceive, promptVars, Goes, TypeOK
  <2> QED
    BY <2>1, TurnLocated DEF LocatedAt, IdleExact
<1>2. CASE JoinTotal(r)
  BY <1>2, JoinTotalLocated
<1>3. CASE JoinVotes(r)
  <2>1. /\ at[r] = "total" /\ at'[r] \in {"schedule", "votes"} /\ idle' = idle
        /\ UNCHANGED <<waiting, chunked, captured, to_finish, ack_staging_queue, running, outcome>>
    BY <1>3 DEF JoinVotes, promptVars, Goes, TypeOK
  <2> QED
    BY <2>1, TurnLocated DEF LocatedAt, IdleExact
<1>4. CASE Admit(r)
  BY <1>4, AdmitLocated
<1>5. CASE SchedulePrefill(r)
  BY <1>5, PrefillLocated
<1>6. CASE ScheduleDecode(r)
  <2>1. /\ at[r] = "schedule" /\ at'[r] = "forward" /\ idle' = idle
        /\ UNCHANGED <<waiting, chunked, captured, to_finish, ack_staging_queue, running, outcome>>
    BY <1>6 DEF ScheduleDecode, promptVars, Goes, TypeOK
  <2> QED
    BY <2>1, TurnLocated DEF LocatedAt, IdleExact
<1>7. CASE ScheduleNothing(r)
  <2>1. /\ at[r] = "schedule" /\ at'[r] = "receive" /\ idle'[r] = FullyIdle(r)
        /\ UNCHANGED <<waiting, chunked, captured, to_finish, ack_staging_queue, running, outcome>>
    BY <1>7 DEF ScheduleNothing, promptVars, Goes, TypeOK
  <2>2. FullyIdle(r) => ack_staging_queue[r] = <<>> /\ running[r] = {} /\ chunked[r] = NoPrompt
    BY DEF FullyIdle
  <2> QED
    BY <2>1, <2>2, TurnLocated
<1>8. CASE PrefillResult(r)
  BY <1>8, PrefillResultLocated
<1>9. CASE DecodeResult(r)
  <2>1. /\ at[r] = "forward" /\ at'[r] = "receive" /\ idle' = idle
        /\ running'[r] \subseteq running[r]
        /\ UNCHANGED <<waiting, chunked, captured, to_finish, ack_staging_queue, outcome>>
    BY <1>9 DEF DecodeResult, promptVars, Goes, TypeOK
  <2> QED
    BY <2>1, TurnLocated DEF LocatedAt, IdleExact
<1>10. CASE Dies(r) \/ PeerLost(r)
  <2>1. /\ at'[r] = "dead" /\ idle' = idle
        /\ UNCHANGED <<waiting, chunked, captured, to_finish, ack_staging_queue, running, outcome>>
    BY <1>10 DEF Dies, PeerLost, promptVars, Goes, TypeOK
  <2> QED
    BY <2>1, TurnLocated DEF LocatedAt, IdleExact
<1> QED
  BY <1>1, <1>2, <1>3, <1>4, <1>5, <1>6, <1>7, <1>8, <1>9, <1>10 DEF RankStep

\* A rank of which nothing changes has its requests where they were.
LEMMA QuietLocated ==
    ASSUME TypeOK, TypeOK', NEW s \in Ranks, LocatedAt(s), Same(s),
           \A t \in Ranks : copied[t] \subseteq copied'[t]
    PROVE  LocatedAt(s)'
BY SameKeeps DEF LocatedAt

\* A collective that completes moves no request.
LEMMA CompleteLocated ==
    ASSUME TypeOK, Agreement, Complete, NEW r \in Ranks, LocatedAt(r)
    PROVE  LocatedAt(r)'
<1>1. /\ outcome'[r] = joined
      /\ UNCHANGED <<at, waiting, chunked, captured, to_finish, idle, ack_staging_queue, running>>
  BY DEF Complete, promptVars
<1>2. at[r] = "total" => joined[Chief].kind = "total"
  <2>1. joined[r] # Nothing /\ joined[Chief].kind = joined[r].kind
    BY Given DEF Complete
  <2> QED
    BY <2>1 DEF Agreement, JoinedExact
<1>3. AbortsFound(r)'
  BY <1>1, <1>2 DEF AbortsFound, KindOf
<1>4. Apart(r)' /\ PrefixesKept(r)' /\ IdleExact(r)'
  BY <1>1 DEF LocatedAt, Apart, PrefixesKept, Whole, IdleExact
<1> QED
  BY <1>3, <1>4 DEF LocatedAt

\* Requests in their places are what OnePlace says.
LEMMA LocatedSays ==
    ASSUME TypeOK, Located
    PROVE  OnePlace
<1>1. ASSUME NEW r \in Ranks, idle[r] PROVE Leased(r) = 0
  <2>1. ack_staging_queue[r] = <<>> /\ running[r] = {} /\ chunked[r] = NoPrompt
    BY <1>1 DEF Located, LocatedAt, IdleExact
  <2>2. Cardinality({}) = 0 /\ Len(<<>>) = 0
    BY FS_EmptySet
  <2> QED
    BY <2>1, <2>2 DEF Leased
<1>2. ASSUME NEW r \in Ranks
      PROVE  /\ Apart(r) /\ AbortsFound(r)
             /\ \A q \in ToSet(ack_staging_queue[r]) \cup running[r] :
                   Hit[q] < Boundary(q) => <<q, Boundary(q)>> \in captured[r]
  BY DEF Located, LocatedAt, PrefixesKept, Whole
<1> QED
  BY <1>1, <1>2, Zenon DEF OnePlace, Apart, AbortsFound, KindOf

----------------------------------------------------------------------------
(* The theorems.                                                           *)

\* The ranks begin in step, with every request waiting.
LEMMA InitInv ==
    Init => IInv
<1> SUFFICES ASSUME Init PROVE IInv
  OBVIOUS
<1>1. TypeOK /\ Agreement
  BY InitAgreement
<1>2. ASSUME NEW r \in Ranks PROVE LocatedAt(r)
  <2>1. /\ at[r] = "receive" /\ ack_staging_queue[r] = <<>> /\ running[r] = {}
        /\ chunked[r] = NoPrompt /\ waiting[r] = Reqs /\ ~idle[r]
    BY DEF Init
  <2>2. ToSet(<<>>) = {} /\ DOMAIN <<>> = {}
    BY DEF ToSet
  <2>3. NoPrompt.req = 0 /\ 0 \notin Reqs
    BY Given DEF NoPrompt
  <2>4. Apart(r)
    BY <2>1, <2>2, <2>3 DEF Apart
  <2>5. AbortsFound(r) /\ PrefixesKept(r) /\ IdleExact(r)
    BY <2>1, <2>2 DEF AbortsFound, PrefixesKept, IdleExact
  <2> QED
    BY <2>4, <2>5 DEF LocatedAt
<1> QED
  BY <1>1, <1>2 DEF IInv, Located

\* A step of one rank, or of a collective, keeps all of it.
LEMMA StepInv ==
    IInv /\ [Next]_vars => IInv'
<1> SUFFICES ASSUME IInv, [Next]_vars PROVE IInv'
  OBVIOUS
<1>1. TypeOK /\ Agreement /\ Located
  BY DEF IInv
<1>2. TypeOK' /\ Agreement'
  BY <1>1, NextAgreement
<1>3. ASSUME NEW r \in Ranks PROVE LocatedAt(r)'
  <2>1. LocatedAt(r)
    BY <1>1 DEF Located
  <2>2. ASSUME NEW s \in Ranks, RankStep(s) PROVE LocatedAt(r)'
    <3>1. CASE r = s
      BY <1>1, <2>1, <2>2, <3>1, StepLocated
    <3>2. CASE r # s
      <4>1. Same(r) /\ copied' = copied
        BY <1>1, <2>2, <3>2, StepsAlone
      <4> QED
        BY <1>1, <1>2, <2>1, <4>1, QuietLocated
    <3> QED
      BY <3>1, <3>2
  <2>3. ASSUME NEW s \in Ranks, NEW q \in Reqs, Copied(s, q) PROVE LocatedAt(r)'
    BY <1>1, <1>2, <2>1, <2>3, CopiedIs, QuietLocated
  <2>4. CASE Complete
    BY <1>1, <2>1, <2>4, CompleteLocated
  <2>5. CASE UNCHANGED vars
    <3>1. Same(r) /\ copied' = copied
      BY <2>5 DEF vars, promptVars, admitVars, Same
    <3> QED
      BY <1>1, <1>2, <2>1, <3>1, QuietLocated
  <2>6. Next => \/ \E s \in Ranks : RankStep(s)
                \/ \E s \in Ranks, q \in Reqs : Copied(s, q)
                \/ Complete
    BY Zenon DEF Next, RankStep
  <2> QED
    BY <2>2, <2>3, <2>4, <2>5, <2>6
<1> QED
  BY <1>2, <1>3 DEF IInv, Located

\* The inductive invariant holds of every behaviour.
LEMMA InvariantHolds == Spec => []IInv
BY InitInv, StepInv, PTL DEF Spec

\* However far the copies of the ranks have come and however their steps
\* interleave, the ranks never wait in different collectives or in forwards of
\* different batches, admit the same requests in the same order, admit nobody
\* whose copy some rank has not completed, and die only of a call that raised:
\* the votes of coordinator.py:60-107 are enough, for any number of ranks.
THEOREM RanksStayInStep == Spec => []RanksAgree
<1>1. IInv => RanksAgree
  BY AgreementSays DEF IInv
<1> QED
  BY <1>1, InvariantHolds, PTL

\* On every rank a request is waiting, on the lane, parked or running and only
\* one of these, an abort finds it there, its whole pages are in the host cache
\* once it left the lane, and a rank that calls itself idle has it nowhere
\* (scheduler.py's S05, S08, S09, S10, P01 and P02 together).
THEOREM RequestsStayInOnePlace == Spec => []OnePlace
<1>1. IInv => OnePlace
  BY LocatedSays DEF IInv
<1> QED
  BY <1>1, InvariantHolds, PTL

=============================================================================
