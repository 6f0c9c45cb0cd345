----------------------------- MODULE QSALaunch -----------------------------
(***************************************************************************)
(* The launcher (launch.py): it starts the server in a process group of    *)
(* its own, reports it ready once every rank's activation record is there, *)
(* supervises it, and stops the whole group whatever happens.              *)
(*                                                                         *)
(* The launcher is one thread; beside it run the server (the leader of the *)
(* group), the ranks it starts, and whoever signals the launcher. A signal *)
(* only adds to a list, which the loops look at. The port is not the       *)
(* launcher's: anybody may answer a health request.                        *)
(***************************************************************************)
EXTENDS Integers, Sequences

CONSTANTS
    Ranks,          \* the tensor-parallel ranks
    Statuses,       \* how a server may end by itself: a status, a signal negated
    Signals,        \* SIGTERM and SIGINT
    MaxSignals      \* how many signals are explored

Running == 1000         \* no outcome yet: not a status, and no signal

ASSUME LaunchAssumption ==
    /\ Statuses \subseteq Int \ {Running} /\ Signals \subseteq Nat \ {0} /\ MaxSignals \in Nat

VARIABLES
    place,         \* where the launcher stands
    server,     \* the leader: none, running, zombie or reaped
    workers,    \* rank -> none, running or gone
    killed,     \* the processes that a SIGKILL is under way to
    status,     \* how the leader ended
    records,    \* rank -> its activation record: none, right or wrong
    _signals,   \* the signals received, oldest first
    ready,      \* whether ready.json is written
    outcome,    \* what the launcher ends with
    reused,     \* whether the leader's process ID is another group's by now
    strayed     \* whether a signal went to such a group

procVars == <<server, workers, killed, status, records>>
launchVars == <<place, procVars, _signals, ready, outcome, reused, strayed>>

Group == {"leader"} \cup Ranks

LaunchInit ==
    /\ place = "preflight"
    /\ server = "none"
    /\ workers = [r \in Ranks |-> "none"]
    /\ killed = {}
    /\ status = Running
    /\ records = [r \in Ranks |-> "none"]
    /\ _signals = <<>>
    /\ ready = FALSE
    /\ outcome = Running
    /\ reused = FALSE /\ strayed = FALSE

MovesTo(where) == place' = where

\* What the launcher will end with; the finally stops the server first.
Ends(result) == outcome' = result /\ MovesTo("term")

----------------------------------------------------------------------------
(* launch, up to readiness.                                                *)

\* The checks before anything is started.
Preflight(passed) ==
    /\ place = "preflight"
    /\ IF passed THEN MovesTo("start") /\ UNCHANGED outcome
                 ELSE MovesTo("ended") /\ outcome' = 1
    /\ UNCHANGED <<procVars, _signals, ready, reused, strayed>>

\* The handlers are there before the server is.
StartServer ==
    /\ place = "start"
    /\ server' = "running"
    /\ MovesTo("health")
    /\ UNCHANGED <<workers, killed, status, records, _signals, ready, outcome, reused, strayed>>

\* _healthy.
Healthy(answered) ==
    /\ place = "health"
    /\ MovesTo(IF answered THEN "records" ELSE "waiting_signals")
    /\ UNCHANGED <<procVars, _signals, ready, outcome, reused, strayed>>

\* Mutant: the signal that came last decides.
StopSignalLast == -_signals[Len(_signals)]

StopSignal == -_signals[1]

\* _check_signals, in the loop that waits and in the one that supervises.
CheckSignals ==
    /\ place \in {"waiting_signals", "signals"}
    /\ IF _signals # <<>> THEN Ends(StopSignal)
       ELSE UNCHANGED outcome /\ MovesTo(IF place = "signals" THEN "exit" ELSE "waiting_exit")
    /\ UNCHANGED <<procVars, _signals, ready, reused, strayed>>

\* Mutant: the child is polled, and so reaped.
LookReaping == server' = IF server = "zombie" THEN "reaped" ELSE server

\* _exit_state leaves the child as it is (WNOWAIT).
Look == UNCHANGED server

\* Mutant: the status is passed on as it is.
EarlyStatusPlain == status

\* A server that ends before it is ready has failed, even with status 0.
EarlyStatus == IF status = 0 THEN 1 ELSE status

\* _exit_state and its check, in both loops.
CheckExit ==
    /\ place \in {"waiting_exit", "exit"}
    /\ IF server = "zombie" THEN Ends(IF place = "exit" THEN status ELSE EarlyStatus)
       ELSE UNCHANGED outcome /\ MovesTo(IF place = "exit" THEN "signals" ELSE "deadline")
    /\ Look
    /\ UNCHANGED <<workers, killed, status, records, _signals, ready, reused, strayed>>

CheckDeadline(late) ==
    /\ place = "deadline"
    /\ IF late THEN Ends(1) ELSE MovesTo("health") /\ UNCHANGED outcome
    /\ UNCHANGED <<procVars, _signals, ready, reused, strayed>>

\* check_records: one record of each rank, and nothing wrong in any.
Complete == \A r \in Ranks : records[r] = "right"

\* The records are checked once, after the answer; then ready.json is written.
\* That writing it, or the line printed after it, raises is left out.
CheckRecords ==
    /\ place = "records"
    /\ IF Complete THEN MovesTo("signals") /\ ready' = TRUE /\ UNCHANGED outcome
                   ELSE Ends(1) /\ UNCHANGED ready
    /\ UNCHANGED <<procVars, _signals, reused, strayed>>

----------------------------------------------------------------------------
(* stop_server.                                                            *)

Members == {p \in Group : IF p = "leader" THEN server \in {"running", "zombie"}
                          ELSE workers[p] = "running"}

\* A process ID is free for others only when nobody of the group has it.
Signalled == strayed' = (strayed \/ reused)

\* SIGTERM to the group; who gets it may end or not. No group, no waiting.
Terminate ==
    /\ place = "term"
    /\ IF Members = {} /\ ~reused THEN MovesTo("reap") /\ UNCHANGED strayed
                                  ELSE MovesTo("term_wait") /\ Signalled
    /\ UNCHANGED <<procVars, _signals, ready, outcome, reused>>

\* Mutant: a server that ended by SIGTERM needs no SIGKILL.
AfterTermination == IF server = "running" THEN "kill" ELSE "reap"

\* Mutant: SIGTERM is all that is sent.
AfterTermOnly == "reap"

\* Its workers may still run.
AfterTerm == "kill"

\* The leader is waited for, for a while.
TermWait ==
    /\ place = "term_wait"
    /\ MovesTo(AfterTerm)
    /\ UNCHANGED <<procVars, _signals, ready, outcome, reused, strayed>>

\* SIGKILL to the group.
Kill ==
    /\ place = "kill"
    /\ killed' = killed \cup Members
    /\ Signalled
    /\ MovesTo("reap")
    /\ UNCHANGED <<server, workers, status, records, _signals, ready, outcome, reused>>

\* server.wait(), and the launcher ends.
Reap ==
    /\ place = "reap"
    /\ server \in {"zombie", "reaped"}
    /\ server' = "reaped"
    /\ MovesTo("ended")
    /\ UNCHANGED <<workers, killed, status, records, _signals, ready, outcome, reused, strayed>>

----------------------------------------------------------------------------
(* The server, its ranks, signals, and the system (external).              *)

\* The leader ends, by itself or by a signal of the launcher.
ServerEnds(how) ==
    /\ server = "running"
    /\ how \in Statuses \/ (how = -9 /\ "leader" \in killed)
    /\ server' = "zombie"
    /\ status' = how
    /\ UNCHANGED <<place, workers, killed, records, _signals, ready, outcome, reused, strayed>>

RankStarts(r) ==
    /\ server = "running" /\ "leader" \notin killed
    /\ workers[r] = "none"
    /\ workers' = [workers EXCEPT ![r] = "running"]
    /\ UNCHANGED <<place, server, killed, status, records, _signals, ready, outcome, reused, strayed>>

\* A rank writes its record, or a wrong one.
RankRecords(r, record) ==
    /\ workers[r] = "running" /\ r \notin killed
    /\ records[r] = "none"
    /\ records' = [records EXCEPT ![r] = record]
    /\ UNCHANGED <<place, server, workers, killed, status, _signals, ready, outcome, reused, strayed>>

RankEnds(r) ==
    /\ workers[r] = "running"
    /\ workers' = [workers EXCEPT ![r] = "gone"]
    /\ UNCHANGED <<place, server, killed, status, records, _signals, ready, outcome, reused, strayed>>

\* _on_signal. Before the handlers are there a signal just ends the launcher,
\* which has started nothing: that is left out.
Signal(s) ==
    /\ place \notin {"preflight", "ended"} /\ Len(_signals) < MaxSignals
    /\ _signals' = Append(_signals, s)
    /\ UNCHANGED <<place, procVars, ready, outcome, reused, strayed>>

\* The system gives the process ID of a reaped leader to another group.
Reuse ==
    /\ server = "reaped" /\ Members = {} /\ ~reused
    /\ reused' = TRUE
    /\ UNCHANGED <<place, procVars, _signals, ready, outcome, strayed>>

----------------------------------------------------------------------------

\* The launcher's own steps.
Launcher ==
    \/ \E passed \in BOOLEAN : Preflight(passed)
    \/ StartServer
    \/ \E answered \in BOOLEAN : Healthy(answered)
    \/ CheckSignals \/ CheckExit \/ CheckRecords
    \/ \E late \in BOOLEAN : CheckDeadline(late)
    \/ Terminate \/ TermWait \/ Kill \/ Reap

LaunchNext ==
    \/ Launcher
    \/ \E how \in Statuses \cup {-9} : ServerEnds(how)
    \/ \E r \in Ranks : RankStarts(r) \/ RankEnds(r)
    \/ \E r \in Ranks, record \in {"right", "wrong"} : RankRecords(r, record)
    \/ \E s \in Signals : Signal(s)
    \/ Reuse

\* The launcher runs, and SIGKILL ends a process.
Fairness ==
    /\ WF_launchVars(Launcher)
    /\ WF_launchVars("leader" \in killed /\ \E how \in Statuses \cup {-9} : ServerEnds(how))

LaunchSpec == LaunchInit /\ [][LaunchNext]_launchVars /\ Fairness

----------------------------------------------------------------------------
(* What the launcher promises.                                             *)

\* When the launcher has ended, nobody of the group is left but who has a
\* SIGKILL to die of, whatever ended first; and no signal ever went to a group
\* that merely got the leader's process ID after it.
GroupStopped ==
    /\ place = "ended" => \A r \in Ranks : workers[r] = "running" => r \in killed
    /\ ~strayed

\* Supervisors see the true outcome: the first stop signal, or how the server
\* ended by itself; 0 only from a server that was ready, and a failure of the
\* launcher's own only before it was.
OutcomeTrue ==
    place = "ended" =>
       \/ _signals # <<>> /\ outcome = -_signals[1]
       \/ outcome = status /\ status # Running /\ (outcome = 0 => ready)
       \/ outcome = 1 /\ ~ready

\* A stop signal, or the end of the server, ends the launcher.
LauncherEnds == (_signals # <<>> \/ server = "zombie") ~> place = "ended"

=============================================================================
