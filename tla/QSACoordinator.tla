--------------------------- MODULE QSACoordinator ---------------------------
(***************************************************************************)
(* The schedulers of all tensor-parallel ranks (patches/hisparse/          *)
(* scheduler.py) with their coordinators (hisparse/coordinator.py). In     *)
(* each turn of its loop a rank receives what rank 0 received, collects    *)
(* its parked requests, votes with the others on how many to admit, and    *)
(* then joins a forward: the next chunk of a prompt, or a decode.          *)
(*                                                                         *)
(* A rank joins a collective (external: broadcast, all_reduce,             *)
(* all_gather_object, the reductions inside a forward) and waits in it     *)
(* until every rank has joined. Nothing else is shared: each rank decides  *)
(* from its own state, and how far its events have come is its own too.    *)
(* QSALifecycle has what a rank does to its leases, QSAHostPrefix what is  *)
(* captured of a prompt.                                                   *)
(***************************************************************************)
EXTENDS Integers, FiniteSets, Sequences, SequencesExt, FiniteSetsExt

CONSTANTS
    Ranks,
    Chief,          \* rank 0, which receives for all
    Requests,       \* how many requests there are; every rank sees the same order
    Prompt,         \* request -> the length of its prompt
    Hit,            \* request -> how much of it the host prefix cache has
    Ignoring,       \* the requests with ignore_eos
    Instant,        \* the requests that end with the token of their prefill
    PageSize,
    Chunk,          \* chunked_prefill_size, 0 for none
    MaxRequests,    \* max_requests
    Target,         \* initial_batch_target, 0 for none
    MaxAborts,      \* how many requests a client may abort
    MaxFaults       \* how many local calls may raise

ASSUME CoordinatorAssumption ==
    /\ IsFiniteSet(Ranks) /\ Chief \in Ranks
    /\ {Requests, MaxRequests, PageSize} \subseteq Nat \ {0}
    /\ {MaxAborts, MaxFaults} \subseteq Nat
    /\ Prompt \in [1..Requests -> Nat \ {0}] /\ Hit \in [1..Requests -> Nat]
    /\ \A q \in 1..Requests : Hit[q] < Prompt[q] /\ Hit[q] % PageSize = 0
    /\ Ignoring \cup Instant \subseteq 1..Requests
    /\ Chunk \in Nat /\ Chunk % PageSize = 0
    \* Enough requests reach the decode to form the initial batch.
    /\ Target \in 0..MaxRequests /\ Target <= Requests - MaxAborts - Cardinality(Instant)

VARIABLES
    at,                 \* rank -> where its scheduler stands
    joined,             \* rank -> what it brings to its collective
    outcome,            \* rank -> what its last collective gave, by rank
    waiting,            \* rank -> waiting_queue; requests are numbered as they arrive
    chunked,            \* rank -> the prompt that holds the lane, and its end so far
    captured,           \* rank -> the prefixes of prompts its host cache was given
    to_finish,          \* rank -> the requests that a client aborted
    idle,               \* rank -> whether it found itself fully idle in this turn
    ack_staging_queue,  \* rank -> the parked requests, oldest first
    copied,             \* rank -> the parked requests whose event answers
    wait_initial_pair,  \* rank -> whether the first batch is still awaited
    admitted,           \* rank -> every request it has admitted, in order
    running,            \* rank -> the requests in its decode batch
    aborts,             \* how many requests were aborted
    faults

promptVars == <<waiting, chunked, captured>>
admitVars == <<wait_initial_pair, admitted>>
vars == <<at, joined, outcome, promptVars, to_finish, aborts, idle, ack_staging_queue, copied,
          admitVars, running, faults>>

Reqs == 1..Requests
Nothing == [kind |-> "nothing"]
NoPrompt == [req |-> 0, end |-> 0]

Init ==
    /\ at = [r \in Ranks |-> "receive"]
    /\ joined = [r \in Ranks |-> Nothing]
    /\ outcome = [r \in Ranks |-> [s \in Ranks |-> Nothing]]
    /\ waiting = [r \in Ranks |-> Reqs]
    /\ chunked = [r \in Ranks |-> NoPrompt]
    /\ captured = [r \in Ranks |-> {}]
    /\ to_finish = [r \in Ranks |-> {}]
    /\ idle = [r \in Ranks |-> FALSE]
    /\ ack_staging_queue = [r \in Ranks |-> <<>>]
    /\ copied = [r \in Ranks |-> {}]
    /\ wait_initial_pair = [r \in Ranks |-> Target # 0]
    /\ admitted = [r \in Ranks |-> <<>>]
    /\ running = [r \in Ranks |-> {}]
    /\ aborts = 0 /\ faults = MaxFaults

Goes(r, where) == at' = [at EXCEPT ![r] = where]
Joins(r, what) == joined' = [joined EXCEPT ![r] = what]

----------------------------------------------------------------------------------
(* Aborts, and the beginning of get_next_batch_to_run.                     *)

\* Mutant: an abort looks for requests that run, like the framework's.
InflightRunning(r) == running[r]

\* S09: collect_inflight_reqs, with the parked ones.
Inflight(r) == running[r] \cup ToSet(ack_staging_queue[r])

\* Rank 0 receives for all. A prompt in chunks is not aborted here: that path
\* is the framework's.
JoinReceive(r) ==
    /\ at[r] = "receive"
    /\ \E A \in SUBSET (waiting[r] \cup ToSet(ack_staging_queue[r]) \cup running[r]) :
          /\ A # {} => r = Chief
          /\ aborts' = aborts + Cardinality(A) /\ aborts' <= MaxAborts
          /\ Joins(r, [kind |-> "receive", aborts |-> A])
    /\ Goes(r, "received")
    /\ UNCHANGED <<outcome, promptVars, to_finish, idle, ack_staging_queue, copied,
                   admitVars, running, faults>>

\* What a stash or the end of a prompt gives to the host cache: a prefix that
\* ends with a page.
Captures(r, q, end) ==
    captured' = IF end % PageSize = 0
                  THEN [captured EXCEPT ![r] = @ \cup {<<q, end>>}] ELSE captured

\* What was aborted leaves the queue or is marked, the prompt in chunks is
\* stashed, and the collection begins: an empty queue joins too.
JoinTotal(r) ==
    /\ at[r] = "received" /\ joined[r] = Nothing
    /\ LET gone == outcome[r][Chief].aborts
       IN  /\ waiting' = [waiting EXCEPT ![r] = @ \ gone]
           /\ to_finish' = [to_finish EXCEPT ![r] = @ \cup (gone \cap Inflight(r))]
    /\ Captures(r, chunked[r].req, chunked[r].end)
    /\ Joins(r, [kind |-> "total", size |-> Len(ack_staging_queue[r])])
    /\ Goes(r, "total")
    /\ idle' = [idle EXCEPT ![r] = FALSE]
    /\ UNCHANGED <<outcome, chunked, aborts, ack_staging_queue, copied, admitVars, running, faults>>

----------------------------------------------------------------------------
(* collect_ready_reqs.                                                     *)

\* The oldest items whose events answer; the first that does not ends it.
ReadyCount(r) ==
    Max({n \in 0..Len(ack_staging_queue[r]) :
            \A i \in 1..n : ack_staging_queue[r][i] \in copied[r]})

\* Nobody has an item, or the rank votes.
JoinVotes(r) ==
    /\ at[r] = "total" /\ joined[r] = Nothing
    /\ IF \A s \in Ranks : outcome[r][s].size = 0
         THEN Goes(r, "schedule") /\ UNCHANGED joined
         ELSE /\ Goes(r, "votes")
              /\ Joins(r, [kind |-> "votes", ids |-> ack_staging_queue[r],
                           count |-> ReadyCount(r),
                           target |-> IF wait_initial_pair[r] THEN Target ELSE 0])
    /\ UNCHANGED <<outcome, promptVars, to_finish, aborts, idle, ack_staging_queue, copied,
                   admitVars, running, faults>>

\* Mutant: the rank's own count is used.
AgreedOwn(r) == outcome[r][r].count

\* The prefix that every rank is ready for.
Agreed(r) == Min({outcome[r][s].count : s \in Ranks})

\* Mutant: every batch must reach the target of the first.
StillWaitsAlways(r) == Target # 0 /\ Agreed(r) < Target

\* The initial batch is awaited until its first admission.
StillWaits(r) == wait_initial_pair[r] /\ Agreed(r) < Target

Disagree(r) ==
    \E s \in Ranks : outcome[r][s].ids # outcome[r][r].ids
                     \/ outcome[r][s].target # outcome[r][r].target

\* The votes are in: ranks that disagree raise; an initial batch that is not
\* complete admits nobody, otherwise the agreed prefix is admitted.
Admit(r) ==
    /\ at[r] = "votes" /\ joined[r] = Nothing
    /\ ~Disagree(r)
    /\ wait_initial_pair' = [wait_initial_pair EXCEPT ![r] = StillWaits(r)]
    /\ LET count == IF StillWaits(r) THEN 0 ELSE Agreed(r)
           ready == SubSeq(ack_staging_queue[r], 1, count)
       IN  /\ ack_staging_queue' = [ack_staging_queue EXCEPT ![r] =
                 SubSeq(@, count + 1, Len(@))]
           /\ admitted' = [admitted EXCEPT ![r] = @ \o ready]
           /\ running' = [running EXCEPT ![r] = @ \cup ToSet(ready)]
    /\ Goes(r, "schedule")
    /\ UNCHANGED <<joined, outcome, promptVars, to_finish, aborts, idle, copied, faults>>

----------------------------------------------------------------------------------
(* The forward of the turn: prefill first, else decode, else nothing.      *)

\* Slots taken: the parked, the running and the prompt on the lane.
Leased(r) ==
    Len(ack_staging_queue[r]) + Cardinality(running[r])
        + (IF chunked[r] = NoPrompt THEN 0 ELSE 1)

\* Mutant: the framework's count, by the rows that run.
AllocatableRows(r) == chunked[r] = NoPrompt /\ Cardinality(running[r]) < MaxRequests

\* S05: a free slot, and nobody on the lane.
Allocatable(r) == chunked[r] = NoPrompt /\ Leased(r) < MaxRequests

\* The prompt a prefill would go on with or begin, 0 for none.
NextPrompt(r) ==
    IF chunked[r] # NoPrompt THEN chunked[r].req
    ELSE IF Allocatable(r) /\ waiting[r] # {} THEN Min(waiting[r]) ELSE 0

\* Mutant: ignore_eos alone chooses the path without prefixes.
BasisIgnoring(q) == IF q \in Ignoring THEN 0 ELSE Hit[q]

\* Where a new prompt begins: a pending host prefix is admitted by the normal
\* path, which reuses it, whatever the request says of its end.
Basis(q) == IF q \in Ignoring /\ Hit[q] = 0 THEN 0 ELSE Hit[q]

Boundary(q) == (Prompt[q] \div PageSize) * PageSize

\* Mutant: a prompt is chunked by the budget alone.
EndBudget(q, begin) ==
    IF Chunk # 0 /\ begin + Chunk < Prompt[q] THEN begin + Chunk ELSE Prompt[q]

\* How far the next chunk goes: the budget, and P01 and P02: prefill stops at
\* the last page of an unaligned prompt.
ChunkEnd(q, begin) ==
    Min({Prompt[q]}
        \cup (IF Chunk # 0 THEN {begin + Chunk} ELSE {})
        \cup (IF begin < Boundary(q) THEN {Boundary(q)} ELSE {}))

\* Mutant: a request joins the running ones when its last chunk is launched.
StartsLaunched(q, end) == IF end = Prompt[q] THEN {q} ELSE {}

\* S10: nobody runs before it was collected.
StartsRunning(q, end) == {}

\* A lease is taken with the first chunk; without a slot, or if the prefix that
\* was matched is not the one admitted, the process raises.
ScheduleRaises(r, q) ==
    chunked[r] = NoPrompt /\ (Leased(r) >= MaxRequests \/ Basis(q) # Hit[q])

SchedulePrefill(r) ==
    /\ at[r] = "schedule" /\ NextPrompt(r) # 0
    /\ LET q == NextPrompt(r)
           new == chunked[r] = NoPrompt
           end == ChunkEnd(q, IF new THEN Basis(q) ELSE chunked[r].end)
       IN  IF ScheduleRaises(r, q)
             THEN Goes(r, "dead") /\ UNCHANGED <<joined, waiting, chunked, running>>
             ELSE /\ chunked' = [chunked EXCEPT ![r] = [req |-> q, end |-> end]]
                  /\ waiting' = IF new THEN [waiting EXCEPT ![r] = @ \ {q}] ELSE waiting
                  /\ running' = [running EXCEPT ![r] = @ \cup StartsRunning(q, end)]
                  /\ Joins(r, [kind |-> "prefill", reqs |-> {q}, end |-> end])
                  /\ Goes(r, "forward")
    /\ UNCHANGED <<outcome, captured, to_finish, aborts, idle, ack_staging_queue, copied,
                   admitVars, faults>>

ScheduleDecode(r) ==
    /\ at[r] = "schedule" /\ NextPrompt(r) = 0 /\ running[r] # {}
    /\ Joins(r, [kind |-> "decode", reqs |-> running[r], end |-> 0])
    /\ Goes(r, "forward")
    /\ UNCHANGED <<outcome, promptVars, to_finish, aborts, idle, ack_staging_queue, copied,
                   admitVars, running, faults>>

\* Mutant: the framework's condition, without the parked requests.
FullyIdleUpstream(r) == waiting[r] = {} /\ running[r] = {} /\ chunked[r] = NoPrompt

\* S08: is_fully_idle, which lets the pools be flushed.
FullyIdle(r) ==
    /\ waiting[r] = {} /\ running[r] = {} /\ chunked[r] = NoPrompt
    /\ ack_staging_queue[r] = <<>>

\* on_idle: no forward in this turn.
ScheduleNothing(r) ==
    /\ at[r] = "schedule" /\ NextPrompt(r) = 0 /\ running[r] = {}
    /\ idle' = [idle EXCEPT ![r] = FullyIdle(r)]
    /\ Goes(r, "receive")
    /\ UNCHANGED <<joined, outcome, promptVars, to_finish, aborts, ack_staging_queue, copied,
                   admitVars, running, faults>>

----------------------------------------------------------------------------
(* Its result. The ranks compute the same tokens.                          *)

\* A middle chunk leaves the prompt where it is; the last one ends it, or
\* parks it with its checkpoint.
PrefillResult(r) ==
    /\ at[r] = "forward" /\ joined[r] = Nothing /\ outcome[r][r].kind = "prefill"
    /\ LET q == chunked[r].req
       IN  IF chunked[r].end < Prompt[q]
             THEN UNCHANGED <<chunked, captured, ack_staging_queue>>
             ELSE /\ chunked' = [chunked EXCEPT ![r] = NoPrompt]
                  /\ IF q \in Instant
                       THEN UNCHANGED ack_staging_queue
                       ELSE ack_staging_queue' = [ack_staging_queue EXCEPT ![r] = Append(@, q)]
                  /\ Captures(r, q, Prompt[q])
    /\ Goes(r, "receive")
    /\ UNCHANGED <<joined, outcome, waiting, to_finish, aborts, idle, copied, admitVars, running,
                   faults>>

\* Those that were aborted end, else one that is complete.
Finishing(r) ==
    IF outcome[r][r].reqs \cap to_finish[r] # {} THEN outcome[r][r].reqs \cap to_finish[r]
    ELSE {Min(outcome[r][r].reqs)}

DecodeResult(r) ==
    /\ at[r] = "forward" /\ joined[r] = Nothing /\ outcome[r][r].kind = "decode"
    /\ running' = [running EXCEPT ![r] = @ \ Finishing(r)]
    /\ Goes(r, "receive")
    /\ UNCHANGED <<joined, outcome, promptVars, to_finish, aborts, idle, ack_staging_queue, copied,
                   admitVars, faults>>

----------------------------------------------------------------------
(* Failures, and what surrounds the ranks (external).                      *)

\* A local call raises, before the votes or after them, or the votes disagree.
\* The rank's process ends with it.
Dies(r) ==
    /\ joined[r] = Nothing /\ at[r] # "dead"
    /\ Goes(r, "dead")
    /\ IF at[r] = "votes" /\ Disagree(r) THEN UNCHANGED faults
       ELSE faults > 0 /\ faults' = faults - 1
    /\ UNCHANGED <<joined, outcome, promptVars, to_finish, aborts, idle, ack_staging_queue, copied,
                   admitVars, running>>

\* A collective that a rank cannot join any more raises in the others.
PeerLost(r) ==
    /\ joined[r] # Nothing
    /\ \E s \in Ranks : at[s] = "dead"
    /\ Joins(r, Nothing)
    /\ Goes(r, "dead")
    /\ UNCHANGED <<outcome, promptVars, to_finish, aborts, idle, ack_staging_queue, copied,
                   admitVars, running, faults>>

\* Every rank has joined: all of them have the outcome.
Complete ==
    /\ \A r \in Ranks : joined[r] # Nothing
    /\ \A r, s \in Ranks : joined[r].kind = joined[s].kind
    /\ outcome' = [r \in Ranks |-> joined]
    /\ joined' = [r \in Ranks |-> Nothing]
    /\ UNCHANGED <<at, promptVars, to_finish, aborts, idle, ack_staging_queue, copied, admitVars,
                   running, faults>>

\* A copy of a parked request is complete on this rank.
Copied(r, q) ==
    /\ q \in ToSet(ack_staging_queue[r]) \ copied[r]
    /\ copied' = [copied EXCEPT ![r] = @ \cup {q}]
    /\ UNCHANGED <<at, joined, outcome, promptVars, to_finish, aborts, idle, ack_staging_queue,
                   admitVars, running, faults>>

Schedule(r) == SchedulePrefill(r) \/ ScheduleDecode(r) \/ ScheduleNothing(r)
Result(r) == PrefillResult(r) \/ DecodeResult(r)
Step(r) == JoinReceive(r) \/ JoinTotal(r) \/ JoinVotes(r) \/ Admit(r) \/ Schedule(r) \/ Result(r)

Next ==
    \/ \E r \in Ranks :
          \/ JoinReceive(r) \/ JoinTotal(r) \/ JoinVotes(r) \/ Admit(r)
          \/ SchedulePrefill(r) \/ ScheduleDecode(r) \/ ScheduleNothing(r)
          \/ PrefillResult(r) \/ DecodeResult(r)
          \/ Dies(r) \/ PeerLost(r)
          \/ \E q \in Reqs : Copied(r, q)
    \/ Complete

\* Each rank's loop runs, a joined collective completes, copies finish.
Fairness ==
    /\ WF_vars(Complete)
    /\ \A r \in Ranks :
          WF_vars(Step(r)) /\ \A q \in Reqs : WF_vars(Copied(r, q))

Spec == Init /\ [][Next]_vars /\ Fairness

----------------------------------------------------------------------------
(* What the ranks agree on.                                                *)

\* The ranks never wait in different collectives, or in forwards of different
\* batches, and what they have admitted is the same, but for a rank that is a
\* step behind; nobody is admitted whose copy a rank has not completed; and no
\* rank dies of what it scheduled or of a vote, unless a local call raised.
RanksAgree ==
    /\ \A r, s \in Ranks :
          /\ joined[r] # Nothing /\ joined[s] # Nothing =>
                /\ joined[r].kind = joined[s].kind
                /\ joined[r].kind \in {"prefill", "decode"} =>
                      joined[r].reqs = joined[s].reqs /\ joined[r].end = joined[s].end
          /\ IsPrefix(admitted[r], admitted[s]) \/ IsPrefix(admitted[s], admitted[r])
          /\ ToSet(admitted[r]) \subseteq copied[s]
    /\ faults = MaxFaults => \A r \in Ranks : at[r] # "dead"

\* On every rank a request is in one place at a time: waiting, on the lane,
\* parked or running. Wherever it is, an abort has found it; it left the lane
\* with every whole page of its prompt in the host cache; and a rank that finds
\* itself idle has it nowhere.
OnePlace ==
    \A r \in Ranks :
       LET parked == ToSet(ack_staging_queue[r])
       IN  /\ parked \cap running[r] = {} /\ (parked \cup running[r]) \cap waiting[r] = {}
           /\ chunked[r].req \notin parked \cup running[r] \cup waiting[r]
           /\ at[r] = "total" /\ outcome[r][Chief].kind = "receive" =>
                 outcome[r][Chief].aborts \cap (parked \cup running[r] \cup waiting[r])
                     \subseteq to_finish[r]
           /\ \A q \in parked \cup running[r] :
                 Hit[q] < Boundary(q) => <<q, Boundary(q)>> \in captured[r]
           /\ idle[r] => Leased(r) = 0

\* Unless a rank died, every request that is parked is admitted in the end,
\* those behind the initial batch too.
EveryParkedAdmitted ==
    \A r \in Ranks : \A q \in Reqs :
       (q \in ToSet(ack_staging_queue[r]))
          ~> (q \in ToSet(admitted[r]) \/ \E s \in Ranks : at[s] = "dead")

=============================================================================
