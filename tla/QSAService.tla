----------------------------- MODULE QSAService -----------------------------
(***************************************************************************)
(* The service controllers (tools/qsa_service.py) of one state directory:  *)
(* commands that start, stop and restart the model server as a transient   *)
(* unit of the systemd user manager. A command takes a file lock before it *)
(* reads anything, so that one is under way at a time; others wait.        *)
(*                                                                         *)
(* All that outlives a command is its ownership record (state.json) and    *)
(* the unit. A command can be killed between any two steps, and its lock   *)
(* goes with it; the systemd-run it spawned can outlive it. The unit is    *)
(* the launcher with the server behind it: it may exit at any time.        *)
(*                                                                         *)
(* The marker and the invocation of a unit are the number of its start.    *)
(* status only reads, and is left out.                                     *)
(***************************************************************************)
EXTENDS Integers

CONSTANTS
    MaxStarts,          \* how many starts are explored
    MaxFaults,          \* how many commands are killed or interrupted
    DispatchOutlives    \* whether a systemd-run outlives its killed command

ASSUME ServiceAssumption ==
    /\ MaxStarts \in Nat /\ MaxFaults \in Nat /\ DispatchOutlives \in BOOLEAN

VARIABLES
    at,         \* where the command with the lock stands, or "idle"
    does,       \* what it was called for, or "cleanup"
    state,      \* the record its start has in memory
    record,     \* state.json
    instance,   \* the last marker that was made
    dispatch,   \* start -> what became of its systemd-run
    unit,       \* what systemd has under the unit's name
    port,       \* who listens: a unit, Free or Foreign
    verified,   \* the starts whose run directory has ready.json
    faults

vars == <<at, does, state, record, instance, dispatch, unit, port, verified, faults>>

Starts == 1..MaxStarts
Free == 0
Foreign == -1
NoRecord == [instance |-> 0, invocation |-> 0, last_action |-> "none"]
NoUnit == [instance |-> 0, active |-> FALSE]

Init ==
    /\ at = "idle"
    /\ does = "none"
    /\ state = NoRecord
    /\ record = NoRecord
    /\ instance = 0
    /\ dispatch = [i \in Starts |-> "none"]
    /\ unit = NoUnit
    /\ port = Free
    /\ verified = {}
    /\ faults = MaxFaults

Goes(where) == at' = where
Loaded == unit # NoUnit

\* owned_info accepts the loaded unit for the record s.
OwnedBy(s) == s.instance = unit.instance /\ s.invocation \in {0, unit.instance}

\* It completes a record that has no invocation yet.
Identified(s) == [s EXCEPT !.invocation = unit.instance]

\* What systemd does to stop a unit: its whole control group goes.
UnitGone ==
    /\ unit' = NoUnit
    /\ port' = IF port = unit.instance THEN Free ELSE port

----------------------------------------------------------------------------
(* stop, alone or as the first half of a restart or the cleanup of a start.*)

\* main takes the lock.
Begin(call) ==
    /\ at = "idle"
    /\ call # "stop" => instance < MaxStarts
    /\ does' = call
    /\ Goes(IF call = "start" THEN "start" ELSE "stop")
    /\ UNCHANGED <<state, record, instance, dispatch, unit, port, verified, faults>>

\* read_state and owned_info; a unit that is not ours is refused.
Stop ==
    /\ at = "stop"
    /\ record' = IF Loaded /\ OwnedBy(record) THEN Identified(record) ELSE record
    /\ Goes(IF ~Loaded THEN "stopped"
               ELSE IF OwnedBy(record) THEN "stop_unit" ELSE "idle")
    /\ UNCHANGED <<does, state, instance, dispatch, unit, port, verified, faults>>

\* systemctl stop and reset-failed act on the name, and fail without a unit.
StopUnit ==
    /\ at \in {"stop_unit", "clear"}
    /\ IF Loaded
         THEN UnitGone /\ Goes(IF at = "clear" THEN "port" ELSE "stopped")
         ELSE UNCHANGED <<unit, port>> /\ Goes("idle")
    /\ UNCHANGED <<does, state, record, instance, dispatch, verified, faults>>

WriteStopped ==
    /\ at = "stopped"
    /\ record' = IF record = NoRecord THEN NoRecord
                 ELSE [record EXCEPT !.last_action = "stopped"]
    /\ Goes(CASE does = "stop" -> "idle"
                 [] does = "restart" -> "start"
                 [] does = "cleanup" -> "failed")
    /\ UNCHANGED <<does, state, instance, dispatch, unit, port, verified, faults>>

\* The start writes the record it has in memory.
WriteFailed ==
    /\ at = "failed"
    /\ record' = [state EXCEPT !.last_action = "failed"]
    /\ Goes("idle")
    /\ UNCHANGED <<does, state, instance, dispatch, unit, port, verified, faults>>

----------------------------------------------------------------------------
(* start.                                                                  *)

\* A unit that runs is left alone, ready or not; one that failed is cleared.
Start ==
    /\ at = "start"
    /\ record' = IF Loaded /\ OwnedBy(record) THEN Identified(record) ELSE record
    /\ Goes(IF ~Loaded THEN "port"
               ELSE IF OwnedBy(record) /\ ~unit.active THEN "clear" ELSE "idle")
    /\ UNCHANGED <<does, state, instance, dispatch, unit, port, verified, faults>>

\* ensure_port_free, and the other checks before anything is written.
Probe(usable) ==
    /\ at = "port"
    /\ Goes(IF usable /\ port = Free THEN "marker" ELSE "idle")
    /\ UNCHANGED <<does, state, record, instance, dispatch, unit, port, verified, faults>>

\* Mutant: the invocation of the last record is kept.
FreshKept(n) == [instance |-> n, invocation |-> record.invocation, last_action |-> "starting"]

Fresh(n) == [instance |-> n, invocation |-> 0, last_action |-> "starting"]

\* The marker is committed before the unit is dispatched.
WriteMarker ==
    /\ at = "marker"
    /\ instance' = instance + 1
    /\ state' = Fresh(instance')
    /\ record' = Fresh(instance')
    /\ Goes("dispatch")
    /\ UNCHANGED <<does, dispatch, unit, port, verified, faults>>

Dispatch ==
    /\ at = "dispatch"
    /\ dispatch' = [dispatch EXCEPT ![instance] = "pending"]
    /\ Goes("dispatched")
    /\ UNCHANGED <<does, state, record, instance, unit, port, verified, faults>>

\* Mutant: a failed start is recorded, its unit left to itself.
CleansUpLater == Goes("failed") /\ does' = "cleanup"

\* A start that raises ServiceError, or is interrupted in its loop, stops its
\* unit before it says so. Another exception, an OSError of a write, leaves the
\* unit and the record as they are: as far as these see, the command was Killed.
CleansUp == Goes("stop") /\ does' = "cleanup"

\* owned_info of the start: the record in memory is completed and saved.
Identify ==
    IF Loaded
      THEN /\ state' = Identified(state)
           /\ record' = IF state.invocation = 0 THEN Identified(state) ELSE record
      ELSE UNCHANGED <<state, record>>

\* systemd-run returned.
Dispatched ==
    /\ at = "dispatched"
    /\ dispatch[instance] # "pending"
    /\ IF dispatch[instance] = "started" /\ (Loaded => OwnedBy(state))
         THEN Identify /\ Goes("waiting") /\ UNCHANGED does
         ELSE CleansUp /\ UNCHANGED <<state, record>>
    /\ UNCHANGED <<instance, dispatch, unit, port, verified, faults>>

\* One turn of the loop: the unit runs, and then who listens.
Poll ==
    /\ at = "waiting"
    /\ IF unit.active /\ OwnedBy(state)
         THEN /\ Identify
              /\ Goes(IF port = unit.instance THEN "health" ELSE "waiting")
              /\ UNCHANGED does
         ELSE CleansUp /\ UNCHANGED <<state, record>>
    /\ UNCHANGED <<instance, dispatch, unit, port, verified, faults>>

\* Mutant: ready.json of an earlier run counts.
LauncherReadyAny(s) == verified # {}

LauncherReady(s) == s.instance \in verified

\* Whoever listens by now may answer.
Health(answers) ==
    /\ at = "health"
    /\ answers => port # Free
    /\ Goes(IF answers /\ LauncherReady(state) THEN "ready" ELSE "waiting")
    /\ UNCHANGED <<does, state, record, instance, dispatch, unit, port, verified, faults>>

WriteReady ==
    /\ at = "ready"
    /\ record' = [state EXCEPT !.last_action = "ready"]
    /\ Goes("idle")
    /\ UNCHANGED <<does, state, instance, dispatch, unit, port, verified, faults>>

\* The readiness timeout, or an interruption of the loop.
GiveUp ==
    /\ at \in {"waiting", "health", "ready"}
    /\ CleansUp
    /\ UNCHANGED <<state, record, instance, dispatch, unit, port, verified, faults>>

\* The command is killed, interrupted outside the loop, or leaves by an OSError.
\* An interruption kills its systemd-run, which may or may not have reached
\* systemd.
Killed ==
    /\ at # "idle" /\ faults > 0
    /\ LET pending == at = "dispatched" /\ dispatch[instance] = "pending"
       IN  \/ (pending => DispatchOutlives) /\ UNCHANGED dispatch
           \/ pending /\ dispatch' = [dispatch EXCEPT ![instance] = "dropped"]
    /\ Goes("idle")
    /\ faults' = faults - 1
    /\ UNCHANGED <<does, state, record, instance, unit, port, verified>>

----------------------------------------------------------------------------
(* systemd, the unit, and other users of the port (external).              *)

\* A unit is made unless one of its name is loaded; its process may not start.
Systemd(i, execs) ==
    /\ dispatch[i] = "pending"
    /\ dispatch' = [dispatch EXCEPT ![i] = IF ~Loaded /\ execs THEN "started" ELSE "failed"]
    /\ unit' = IF Loaded THEN unit ELSE [instance |-> i, active |-> execs]
    /\ UNCHANGED <<at, does, state, record, instance, port, verified, faults>>

\* The service ends: it stays loaded as failed, or goes if it succeeded.
Exit(succeeded) ==
    /\ unit.active
    /\ unit' = IF succeeded THEN NoUnit ELSE [unit EXCEPT !.active = FALSE]
    /\ port' = IF port = unit.instance THEN Free ELSE port
    /\ UNCHANGED <<at, does, state, record, instance, dispatch, verified, faults>>

\* The server binds the port.
Bind ==
    /\ unit.active /\ port = Free
    /\ port' = unit.instance
    /\ UNCHANGED <<at, does, state, record, instance, dispatch, unit, verified, faults>>

\* The launcher got an answer and found every rank's record.
Verify ==
    /\ unit.active /\ port # Free
    /\ verified' = verified \cup {unit.instance}
    /\ UNCHANGED <<at, does, state, record, instance, dispatch, unit, port, faults>>

\* Another program takes the port, or leaves it.
OtherListener ==
    /\ port \in {Free, Foreign}
    /\ port' = IF port = Free THEN Foreign ELSE Free
    /\ UNCHANGED <<at, does, state, record, instance, dispatch, unit, verified, faults>>

----------------------------------------------------------------------------

Next ==
    \/ \E call \in {"start", "stop", "restart"} : Begin(call)
    \/ Stop \/ StopUnit \/ WriteStopped \/ WriteFailed
    \/ Start \/ WriteMarker \/ Dispatch \/ Dispatched \/ Poll
    \/ \E usable \in BOOLEAN : Probe(usable)
    \/ \E answers \in BOOLEAN : Health(answers)
    \/ WriteReady \/ GiveUp \/ Killed
    \/ \E i \in Starts, execs \in BOOLEAN : Systemd(i, execs)
    \/ \E succeeded \in BOOLEAN : Exit(succeeded)
    \/ Bind \/ Verify \/ OtherListener

Spec == Init /\ [][Next]_vars

----------------------------------------------------------------------------
(* What the controllers promise.                                           *)

\* A unit that is loaded can be controlled: the record on disk names it,
\* wherever the commands before were killed. A unit that the record does not
\* name is refused by every command from then on.
Controllable == Loaded => OwnedBy(record)

\* What the record says of an end is true: no unit is left behind a stop, or
\* behind a start that failed.
EndsRecorded == record.last_action \in {"stopped", "failed"} => ~Loaded

\* A start is recorded as ready only after the launcher of this very start
\* has verified its ranks, not the one of an earlier run.
ReadyEarned == record.last_action = "ready" => record.instance \in verified

\* The record claims nothing that did not happen: no end of a unit that is still
\* loaded, no readiness that its launcher did not verify (start and stop).
RecordHonest == EndsRecorded /\ ReadyEarned

=============================================================================
