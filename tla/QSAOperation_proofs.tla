------------------------ MODULE QSAOperation_proofs ------------------------
(***************************************************************************)
(* The operation of a server: the controllers and the launcher they start. *)
(*                                                                         *)
(* What the controllers promise holds for any number of starts and of      *)
(* killed commands. The records of readiness are earned whatever happens   *)
(* to a systemd-run; that a loaded unit stays controllable, and that an    *)
(* end is recorded of nothing that still runs, needs that a systemd-run    *)
(* ends with its command: one that outlives it starts a unit under a       *)
(* record that the next command has replaced.                              *)
(*                                                                         *)
(* The inductive invariant follows one start through its command: a        *)
(* systemd-run is under way only where its command waits for it (Waited),  *)
(* so that from the moment a unit is found gone none can appear before the *)
(* next marker is on disk (Gone); and from the marker on, the record on    *)
(* disk and the one in memory name the same start (InHand).                *)
(*                                                                         *)
(* What the launcher promises holds for every number of ranks, signals and *)
(* ways to end: the group it started is stopped when it has ended, no      *)
(* signal of its own strays to another group, and what it ends with is     *)
(* the true outcome.                                                       *)
(*                                                                         *)
(* The inductive invariant says what the order of the code is for. The     *)
(* leader is reaped by the last step only (Unreaped), so that nobody else  *)
(* can get its process ID while the launcher still signals the group; from *)
(* the SIGKILL on everybody who still runs is about to die of it, the      *)
(* leader too, so that nobody starts after it (Doomed); and the outcome is *)
(* settled when the launcher begins to stop, by facts that later signals   *)
(* and the later end of the server leave alone (Settled).                  *)
(***************************************************************************)
EXTENDS QSAService, QSALaunch, SequenceTheorems, TLAPS

----------------------------------------------------------------------------
(* The controllers.                                                        *)

Actions == {"none", "starting", "ready", "stopped", "failed"}
Records == [instance : Nat, invocation : Nat, last_action : Actions]
Units == [instance : Nat, active : BOOLEAN]

TypeOK ==
    /\ state \in Records /\ record \in Records
    /\ instance \in Nat
    /\ dispatch \in [Starts -> {"none", "pending", "started", "failed", "dropped"}]
    /\ unit \in Units
    /\ does \in {"none", "start", "stop", "restart", "cleanup"}

\* A stop is one that was called for, the first half of a restart, or the
\* cleanup of a start.
Reason == at \in {"stop", "stop_unit", "stopped"} => does \in {"stop", "restart", "cleanup"}

Basics == TypeOK /\ Reason

----------------------------------------------------------------------------
(* What is earned, whatever outlives a command.                            *)

\* The record in memory says that a start began and no more, and a start is
\* about to be recorded as ready only when its own run is verified.
Earned ==
    /\ state.last_action \in {"none", "starting"}
    /\ at = "ready" => state.instance \in verified
    /\ ReadyEarned

(* What needs that a systemd-run ends with its command.                    *)

\* A systemd-run is under way only while its command waits for it.
Waited ==
    \A i \in Starts : dispatch[i] = "pending" => at = "dispatched" /\ i = instance

\* No unit is loaded from where it was found gone to the next dispatch.
Gone == at \in {"port", "marker", "dispatch", "stopped", "failed"} => ~Loaded

\* A start has one record, on disk and in memory, from its marker on.
InHand ==
    at \in {"dispatch", "dispatched", "waiting", "health", "ready"} =>
        \A s \in {state, record} :
            /\ s.instance = instance
            /\ s.invocation \in {0, instance}
            /\ s.last_action = "starting"

Owned == Basics /\ Waited /\ Gone /\ InHand /\ Controllable /\ EndsRecorded

----------------------------------------------------------------------------
(* Records.                                                                *)

\* Completing a record gives it the invocation of the unit and no more.
LEMMA IdentifiedIs ==
  ASSUME unit \in Units, NEW s \in Records
  PROVE  /\ Identified(s) \in Records
         /\ Identified(s).instance = s.instance
         /\ Identified(s).invocation = unit.instance
         /\ Identified(s).last_action = s.last_action
  BY DEF Identified, Units, Records

\* Recording how a start went leaves the record naming the same start.
LEMMA ActionIs ==
  ASSUME NEW s \in Records, NEW how \in Actions
  PROVE  /\ [s EXCEPT !.last_action = how] \in Records
         /\ [s EXCEPT !.last_action = how].instance = s.instance
         /\ [s EXCEPT !.last_action = how].invocation = s.invocation
         /\ [s EXCEPT !.last_action = how].last_action = how
  BY DEF Records

\* No unit is an inactive one that no start has.
LEMMA NoUnitIs == NoUnit \in Units /\ NoUnit.instance = 0 /\ ~NoUnit.active
  BY DEF NoUnit, Units

\* The unit of a start.
LEMMA UnitIs ==
  ASSUME NEW i \in Starts, NEW runs \in BOOLEAN
  PROVE  /\ [instance |-> i, active |-> runs] \in Units
         /\ [instance |-> i, active |-> runs].instance = i
  <1>1. i \in Nat
    BY ServiceAssumption DEF Starts
  <1> QED
    BY <1>1 DEF Units

\* A unit that has ended is the same unit.
LEMMA UnitStops ==
  ASSUME unit \in Units
  PROVE  /\ [unit EXCEPT !.active = FALSE] \in Units
         /\ [unit EXCEPT !.active = FALSE].instance = unit.instance
  BY DEF Units

\* The controllers start with no record, and with no unit.
LEMMA InitBasics == Init => Basics
  BY DEF Init, Basics, TypeOK, Reason, NoRecord, NoUnit, Records, Units, Actions

\* Every step keeps the records and the unit of their kind.
LEMMA StepBasics == Basics /\ [Next]_vars => Basics'
<1> SUFFICES ASSUME Basics, [Next]_vars PROVE Basics'
  OBVIOUS
<1> USE DEF Basics, Goes
<1>1. CASE \E call \in {"start", "stop", "restart"} : Begin(call)
  <2>1. TypeOK'
    BY <1>1 DEF Begin, TypeOK, Records, Units, Actions, NoRecord, NoUnit, Identified
  <2>2. Reason'
    BY <1>1 DEF Begin, Reason
  <2> QED
    BY <2>1, <2>2
<1>2. CASE Stop
  <2>1. TypeOK'
    BY <1>2 DEF Stop, TypeOK, Records, Units, Actions, NoRecord, NoUnit, Identified
  <2>2. Reason'
    BY <1>2 DEF Stop, Reason
  <2> QED
    BY <2>1, <2>2
<1>3. CASE StopUnit
  <2>1. TypeOK'
    <3>1. unit' \in Units
      <4>1. NoUnit \in Units
        BY NoUnitIs
      <4> QED
        BY <1>3, <4>1, Zenon DEF StopUnit, UnitGone, TypeOK
    <3> QED
      BY <1>3, <3>1 DEF StopUnit, TypeOK
  <2>2. Reason'
    BY <1>3 DEF StopUnit, UnitGone, Reason
  <2> QED
    BY <2>1, <2>2
<1>4. CASE WriteStopped
  <2>1. TypeOK'
    BY <1>4 DEF WriteStopped, TypeOK, Records, Units, Actions, NoRecord, NoUnit, Identified
  <2>2. Reason'
    BY <1>4 DEF WriteStopped, Reason
  <2> QED
    BY <2>1, <2>2
<1>5. CASE WriteFailed
  <2>1. TypeOK'
    BY <1>5 DEF WriteFailed, TypeOK, Records, Units, Actions, NoRecord, NoUnit, Identified
  <2>2. Reason'
    BY <1>5 DEF WriteFailed, Reason
  <2> QED
    BY <2>1, <2>2
<1>6. CASE Start
  <2>1. TypeOK'
    BY <1>6 DEF Start, TypeOK, Records, Units, Actions, NoRecord, NoUnit, Identified
  <2>2. Reason'
    BY <1>6 DEF Start, Reason
  <2> QED
    BY <2>1, <2>2
<1>7. CASE WriteMarker
  <2>1. TypeOK'
    BY <1>7 DEF WriteMarker, Fresh, TypeOK, Records, Units, Actions, NoRecord, NoUnit, Identified
  <2>2. Reason'
    BY <1>7 DEF WriteMarker, Fresh, Reason
  <2> QED
    BY <2>1, <2>2
<1>8. CASE Dispatch
  <2>1. TypeOK'
    BY <1>8 DEF Dispatch, TypeOK, Records, Units, Actions, NoRecord, NoUnit, Identified
  <2>2. Reason'
    BY <1>8 DEF Dispatch, Reason
  <2> QED
    BY <2>1, <2>2
<1>9. CASE Dispatched
  <2>1. TypeOK'
    BY <1>9 DEF Dispatched, CleansUp, Identify, TypeOK, Records, Units, Actions, NoRecord, NoUnit, Identified
  <2>2. Reason'
    BY <1>9 DEF Dispatched, CleansUp, Identify, Reason
  <2> QED
    BY <2>1, <2>2
<1>10. CASE Poll
  <2>1. TypeOK'
    BY <1>10 DEF Poll, CleansUp, Identify, TypeOK, Records, Units, Actions, NoRecord, NoUnit, Identified
  <2>2. Reason'
    BY <1>10 DEF Poll, CleansUp, Identify, Reason
  <2> QED
    BY <2>1, <2>2
<1>11. CASE \E usable \in BOOLEAN : Probe(usable)
  <2>1. TypeOK'
    BY <1>11 DEF Probe, TypeOK, Records, Units, Actions, NoRecord, NoUnit, Identified
  <2>2. Reason'
    BY <1>11 DEF Probe, Reason
  <2> QED
    BY <2>1, <2>2
<1>12. CASE \E answers \in BOOLEAN : Health(answers)
  <2>1. TypeOK'
    BY <1>12 DEF Health, LauncherReady, TypeOK, Records, Units, Actions, NoRecord, NoUnit, Identified
  <2>2. Reason'
    BY <1>12 DEF Health, LauncherReady, Reason
  <2> QED
    BY <2>1, <2>2
<1>13. CASE WriteReady
  <2>1. TypeOK'
    BY <1>13 DEF WriteReady, TypeOK, Records, Units, Actions, NoRecord, NoUnit, Identified
  <2>2. Reason'
    BY <1>13 DEF WriteReady, Reason
  <2> QED
    BY <2>1, <2>2
<1>14. CASE GiveUp
  <2>1. TypeOK'
    BY <1>14 DEF GiveUp, CleansUp, TypeOK, Records, Units, Actions, NoRecord, NoUnit, Identified
  <2>2. Reason'
    BY <1>14 DEF GiveUp, CleansUp, Reason
  <2> QED
    BY <2>1, <2>2
<1>15. CASE Killed
  <2>1. TypeOK'
    BY <1>15 DEF Killed, TypeOK, Records, Units, Actions, NoRecord, NoUnit, Identified
  <2>2. Reason'
    BY <1>15 DEF Killed, Reason
  <2> QED
    BY <2>1, <2>2
<1>16. CASE \E i \in Starts, execs \in BOOLEAN : Systemd(i, execs)
  <2>1. TypeOK'
    <3> PICK i \in Starts, execs \in BOOLEAN : Systemd(i, execs)
      BY <1>16
    <3>1. [instance |-> i, active |-> execs] \in Units
      BY UnitIs
    <3>2. unit' \in Units
      BY <3>1, Zenon DEF Systemd, TypeOK
    <3> QED
      BY <3>2 DEF Systemd, TypeOK
  <2>2. Reason'
    BY <1>16 DEF Systemd, Reason
  <2> QED
    BY <2>1, <2>2
<1>17. CASE \E succeeded \in BOOLEAN : Exit(succeeded)
  <2>1. TypeOK'
    <3> PICK succeeded \in BOOLEAN : Exit(succeeded)
      BY <1>17
    <3>1. unit' \in Units
      BY NoUnitIs, UnitStops, Zenon DEF Exit, TypeOK
    <3> QED
      BY <3>1 DEF Exit, TypeOK
  <2>2. Reason'
    BY <1>17 DEF Exit, Reason
  <2> QED
    BY <2>1, <2>2
<1>18. CASE Bind
  <2>1. TypeOK'
    BY <1>18 DEF Bind, TypeOK, Records, Units, Actions, NoRecord, NoUnit, Identified
  <2>2. Reason'
    BY <1>18 DEF Bind, Reason
  <2> QED
    BY <2>1, <2>2
<1>19. CASE Verify
  <2>1. TypeOK'
    BY <1>19 DEF Verify, TypeOK, Records, Units, Actions, NoRecord, NoUnit, Identified
  <2>2. Reason'
    BY <1>19 DEF Verify, Reason
  <2> QED
    BY <2>1, <2>2
<1>20. CASE OtherListener
  <2>1. TypeOK'
    BY <1>20 DEF OtherListener, TypeOK, Records, Units, Actions, NoRecord, NoUnit, Identified
  <2>2. Reason'
    BY <1>20 DEF OtherListener, Reason
  <2> QED
    BY <2>1, <2>2
<1>21. CASE UNCHANGED vars
  <2>1. TypeOK'
    BY <1>21 DEF vars, TypeOK, Records, Units, Actions, NoRecord, NoUnit, Identified
  <2>2. Reason'
    BY <1>21 DEF vars, Reason
  <2> QED
    BY <2>1, <2>2
<1> QED
  BY <1>1, <1>2, <1>3, <1>4, <1>5, <1>6, <1>7, <1>8, <1>9, <1>10, <1>11, <1>12, <1>13, <1>14, <1>15, <1>16, <1>17, <1>18, <1>19, <1>20, <1>21 DEF Next

----------------------------------------------------------------------------
(* Readiness.                                                              *)

\* Nothing is recorded as ready at first.
LEMMA InitEarned == Init => Earned
  BY DEF Init, Earned, ReadyEarned, NoRecord

\* Only WriteReady records readiness, and the other writes keep or drop it.
LEMMA StepEarned == Basics /\ Earned /\ [Next]_vars => Earned'
<1> SUFFICES ASSUME Basics, Earned, [Next]_vars PROVE Earned'
  OBVIOUS
<1>0. unit \in Units /\ state \in Records /\ record \in Records
  BY DEF Basics, TypeOK
<1>a. \A s \in {state, record} :
        /\ Identified(s).instance = s.instance
        /\ Identified(s).last_action = s.last_action
  BY <1>0, IdentifiedIs
<1>b. \A s \in {state, record}, how \in Actions :
        /\ [s EXCEPT !.last_action = how].instance = s.instance
        /\ [s EXCEPT !.last_action = how].last_action = how
  BY <1>0, ActionIs
<1>c. NoRecord.last_action = "none"
  BY DEF NoRecord
<1> USE DEF Earned, ReadyEarned, Goes, Actions
<1>1. CASE \E call \in {"start", "stop", "restart"} : Begin(call)
  <2>1. Earned'
    BY <1>1 DEF Begin
  <2> QED
    BY <2>1
<1>2. CASE Stop
  <2>1. Earned'
    BY <1>2, <1>a DEF Stop
  <2> QED
    BY <2>1
<1>3. CASE StopUnit
  <2>1. Earned'
    BY <1>3 DEF StopUnit, UnitGone
  <2> QED
    BY <2>1
<1>4. CASE WriteStopped
  <2>1. Earned'
    BY <1>4, <1>b, <1>c DEF WriteStopped, Basics, Reason
  <2> QED
    BY <2>1
<1>5. CASE WriteFailed
  <2>1. Earned'
    BY <1>5, <1>b DEF WriteFailed
  <2> QED
    BY <2>1
<1>6. CASE Start
  <2>1. Earned'
    BY <1>6, <1>a DEF Start
  <2> QED
    BY <2>1
<1>7. CASE WriteMarker
  <2>1. Earned'
    BY <1>7 DEF WriteMarker, Fresh
  <2> QED
    BY <2>1
<1>8. CASE Dispatch
  <2>1. Earned'
    BY <1>8 DEF Dispatch
  <2> QED
    BY <2>1
<1>9. CASE Dispatched
  <2>1. Earned'
    BY <1>9, <1>a DEF Dispatched, CleansUp, Identify, vars
  <2> QED
    BY <2>1
<1>10. CASE Poll
  <2>1. Earned'
    BY <1>10, <1>a DEF Poll, CleansUp, Identify, vars
  <2> QED
    BY <2>1
<1>11. CASE \E usable \in BOOLEAN : Probe(usable)
  <2>1. Earned'
    BY <1>11 DEF Probe
  <2> QED
    BY <2>1
<1>12. CASE \E answers \in BOOLEAN : Health(answers)
  <2>1. Earned'
    BY <1>12 DEF Health, LauncherReady
  <2> QED
    BY <2>1
<1>13. CASE WriteReady
  <2>1. Earned'
    BY <1>13, <1>b DEF WriteReady
  <2> QED
    BY <2>1
<1>14. CASE GiveUp
  <2>1. Earned'
    BY <1>14 DEF GiveUp, CleansUp
  <2> QED
    BY <2>1
<1>15. CASE Killed
  <2>1. Earned'
    BY <1>15 DEF Killed
  <2> QED
    BY <2>1
<1>16. CASE \E i \in Starts, execs \in BOOLEAN : Systemd(i, execs)
  <2>1. Earned'
    BY <1>16 DEF Systemd
  <2> QED
    BY <2>1
<1>17. CASE \E succeeded \in BOOLEAN : Exit(succeeded)
  <2>1. Earned'
    BY <1>17 DEF Exit
  <2> QED
    BY <2>1
<1>18. CASE Bind
  <2>1. Earned'
    BY <1>18 DEF Bind
  <2> QED
    BY <2>1
<1>19. CASE Verify
  <2>1. Earned'
    BY <1>19 DEF Verify
  <2> QED
    BY <2>1
<1>20. CASE OtherListener
  <2>1. Earned'
    BY <1>20 DEF OtherListener
  <2> QED
    BY <2>1
<1>21. CASE UNCHANGED vars
  <2>1. Earned'
    BY <1>21 DEF vars, Goes
  <2> QED
    BY <2>1
<1> QED
  BY <1>1, <1>2, <1>3, <1>4, <1>5, <1>6, <1>7, <1>8, <1>9, <1>10, <1>11, <1>12, <1>13, <1>14, <1>15, <1>16, <1>17, <1>18, <1>19, <1>20, <1>21 DEF Next

\* A start is recorded as ready only after the launcher of this very start has
\* verified its ranks (launcher_ready), whatever outlived the commands before.
THEOREM ReadinessIsEarned == Spec => []ReadyEarned
<1>1. Init => Basics /\ Earned
  BY InitBasics, InitEarned
<1>2. Basics /\ Earned /\ [Next]_vars => Basics' /\ Earned'
  BY StepBasics, StepEarned
<1>3. Basics /\ Earned => ReadyEarned
  BY DEF Earned
<1> QED
  BY <1>1, <1>2, <1>3, PTL DEF Spec

----------------------------------------------------------------------------
(* Control of the unit.                                                    *)

\* No unit, no systemd-run and no end on record at first.
LEMMA InitOwned == Init => Owned
<1> SUFFICES ASSUME Init PROVE Owned
  OBVIOUS
<1>1. Basics
  BY InitBasics
<1>2. Waited /\ Gone /\ InHand
  BY DEF Init, Waited, Gone, InHand
<1>3. Controllable /\ EndsRecorded
  BY DEF Init, Controllable, EndsRecorded, Loaded
<1> QED
  BY <1>1, <1>2, <1>3 DEF Owned

\* Each step of a command, of systemd and of the unit, with what it means for
\* the systemd-runs under way, for the unit and for the records.
LEMMA StepOwned ==
  ASSUME DispatchOutlives = FALSE
  PROVE  Owned /\ [Next]_vars => Owned'
<1> SUFFICES ASSUME Owned, [Next]_vars PROVE Owned'
  OBVIOUS
<1>0. unit \in Units /\ state \in Records /\ record \in Records /\ instance \in Nat
  BY DEF Owned, Basics, TypeOK
<1>a. \A s \in {state, record} :
        /\ Identified(s).instance = s.instance
        /\ Identified(s).invocation = unit.instance
        /\ Identified(s).last_action = s.last_action
  BY <1>0, IdentifiedIs
<1>b. \A s \in {state, record}, how \in Actions :
        /\ [s EXCEPT !.last_action = how].instance = s.instance
        /\ [s EXCEPT !.last_action = how].invocation = s.invocation
        /\ [s EXCEPT !.last_action = how].last_action = how
  BY <1>0, ActionIs
<1>c. NoRecord.last_action = "none" /\ NoUnit.instance = 0 /\ ~NoUnit.active
  BY DEF NoRecord, NoUnit
<1>d. Basics'
  BY StepBasics DEF Owned
<1> USE DEF Goes, Actions
<1>1. CASE \E call \in {"start", "stop", "restart"} : Begin(call)
  <2>1. Waited'
    BY <1>1 DEF Begin, Owned, Basics, TypeOK, Waited
  <2>2. Gone'
    BY <1>1, <1>c DEF Begin, Owned, Basics, Reason, Waited, Gone, Loaded
  <2>3. InHand'
    BY <1>1, <1>0 DEF Begin, Owned, InHand, Controllable, OwnedBy, Loaded
  <2>4. Controllable'
    BY <1>1, <1>0 DEF Begin, Owned, Waited, Gone, InHand, Controllable, OwnedBy, Loaded
  <2>5. EndsRecorded'
    BY <1>1, <1>0 DEF Begin, Owned, Basics, Waited, Gone, InHand, EndsRecorded, Loaded
  <2> QED
    BY <1>d, <2>1, <2>2, <2>3, <2>4, <2>5 DEF Owned
<1>2. CASE Stop
  <2>1. Waited'
    BY <1>2 DEF Stop, Owned, Basics, TypeOK, Waited
  <2>2. Gone'
    BY <1>2, <1>c DEF Stop, Owned, Basics, Reason, Waited, Gone, Loaded
  <2>3. InHand'
    BY <1>2, <1>0, <1>a DEF Stop, Owned, InHand, Controllable, OwnedBy, Loaded
  <2>4. Controllable'
    BY <1>2, <1>0, <1>a DEF Stop, Owned, Waited, Gone, InHand, Controllable, OwnedBy, Loaded
  <2>5. EndsRecorded'
    BY <1>2, <1>0, <1>a DEF Stop, Owned, Basics, Waited, Gone, InHand, EndsRecorded, Loaded
  <2> QED
    BY <1>d, <2>1, <2>2, <2>3, <2>4, <2>5 DEF Owned
<1>3. CASE StopUnit
  <2>1. Waited'
    BY <1>3 DEF StopUnit, UnitGone, Owned, Basics, TypeOK, Waited
  <2>2. Gone'
    BY <1>3, <1>c DEF StopUnit, UnitGone, Owned, Basics, Reason, Waited, Gone, Loaded
  <2>3. InHand'
    BY <1>3, <1>0 DEF StopUnit, UnitGone, Owned, InHand, Controllable, OwnedBy, Loaded
  <2>4. Controllable'
    BY <1>3, <1>0 DEF StopUnit, UnitGone, Owned, Waited, Gone, InHand, Controllable, OwnedBy, Loaded
  <2>5. EndsRecorded'
    BY <1>3, <1>0 DEF StopUnit, UnitGone, Owned, Basics, Waited, Gone, InHand, EndsRecorded, Loaded
  <2> QED
    BY <1>d, <2>1, <2>2, <2>3, <2>4, <2>5 DEF Owned
<1>4. CASE WriteStopped
  <2>1. Waited'
    BY <1>4 DEF WriteStopped, Owned, Basics, TypeOK, Waited
  <2>2. Gone'
    BY <1>4, <1>c DEF WriteStopped, Owned, Basics, Reason, Waited, Gone, Loaded
  <2>3. InHand'
    BY <1>4, <1>0, <1>b, <1>c DEF WriteStopped, Owned, Basics, Reason, InHand, Controllable, OwnedBy, Loaded
  <2>4. Controllable'
    BY <1>4, <1>0, <1>b, <1>c DEF WriteStopped, Owned, Waited, Gone, InHand, Controllable, OwnedBy, Loaded
  <2>5. EndsRecorded'
    BY <1>4, <1>0, <1>b, <1>c DEF WriteStopped, Owned, Basics, Waited, Gone, InHand, EndsRecorded, Loaded
  <2> QED
    BY <1>d, <2>1, <2>2, <2>3, <2>4, <2>5 DEF Owned
<1>5. CASE WriteFailed
  <2>1. Waited'
    BY <1>5 DEF WriteFailed, Owned, Basics, TypeOK, Waited
  <2>2. Gone'
    BY <1>5, <1>c DEF WriteFailed, Owned, Basics, Reason, Waited, Gone, Loaded
  <2>3. InHand'
    BY <1>5, <1>0, <1>b DEF WriteFailed, Owned, InHand, Controllable, OwnedBy, Loaded
  <2>4. Controllable'
    BY <1>5, <1>0, <1>b DEF WriteFailed, Owned, Waited, Gone, InHand, Controllable, OwnedBy, Loaded
  <2>5. EndsRecorded'
    BY <1>5, <1>0, <1>b DEF WriteFailed, Owned, Basics, Waited, Gone, InHand, EndsRecorded, Loaded
  <2> QED
    BY <1>d, <2>1, <2>2, <2>3, <2>4, <2>5 DEF Owned
<1>6. CASE Start
  <2>1. Waited'
    BY <1>6 DEF Start, Owned, Basics, TypeOK, Waited
  <2>2. Gone'
    BY <1>6, <1>c DEF Start, Owned, Basics, Reason, Waited, Gone, Loaded
  <2>3. InHand'
    BY <1>6, <1>0, <1>a DEF Start, Owned, InHand, Controllable, OwnedBy, Loaded
  <2>4. Controllable'
    BY <1>6, <1>0, <1>a DEF Start, Owned, Waited, Gone, InHand, Controllable, OwnedBy, Loaded
  <2>5. EndsRecorded'
    BY <1>6, <1>0, <1>a DEF Start, Owned, Basics, Waited, Gone, InHand, EndsRecorded, Loaded
  <2> QED
    BY <1>d, <2>1, <2>2, <2>3, <2>4, <2>5 DEF Owned
<1>7. CASE WriteMarker
  <2>1. Waited'
    BY <1>7 DEF WriteMarker, Fresh, Owned, Basics, TypeOK, Waited
  <2>2. Gone'
    BY <1>7, <1>c DEF WriteMarker, Fresh, Owned, Basics, Reason, Waited, Gone, Loaded
  <2>3. InHand'
    BY <1>7, <1>0 DEF WriteMarker, Fresh, Owned, InHand, Controllable, OwnedBy, Loaded
  <2>4. Controllable'
    BY <1>7, <1>0 DEF WriteMarker, Fresh, Owned, Waited, Gone, InHand, Controllable, OwnedBy, Loaded
  <2>5. EndsRecorded'
    BY <1>7, <1>0 DEF WriteMarker, Fresh, Owned, Basics, Waited, Gone, InHand, EndsRecorded, Loaded
  <2> QED
    BY <1>d, <2>1, <2>2, <2>3, <2>4, <2>5 DEF Owned
<1>8. CASE Dispatch
  <2>1. Waited'
    BY <1>8 DEF Dispatch, Owned, Basics, TypeOK, Waited
  <2>2. Gone'
    BY <1>8, <1>c DEF Dispatch, Owned, Basics, Reason, Waited, Gone, Loaded
  <2>3. InHand'
    BY <1>8, <1>0 DEF Dispatch, Owned, InHand, Controllable, OwnedBy, Loaded
  <2>4. Controllable'
    BY <1>8, <1>0 DEF Dispatch, Owned, Waited, Gone, InHand, Controllable, OwnedBy, Loaded
  <2>5. EndsRecorded'
    BY <1>8, <1>0 DEF Dispatch, Owned, Basics, Waited, Gone, InHand, EndsRecorded, Loaded
  <2> QED
    BY <1>d, <2>1, <2>2, <2>3, <2>4, <2>5 DEF Owned
<1>9. CASE Dispatched
  <2>1. Waited'
    BY <1>9 DEF Dispatched, CleansUp, Identify, Owned, Basics, TypeOK, Waited
  <2>2. Gone'
    BY <1>9, <1>c DEF Dispatched, CleansUp, Identify, Owned, Basics, Reason, Waited, Gone, Loaded
  <2>3. InHand'
    BY <1>9, <1>0, <1>a DEF Dispatched, CleansUp, Identify, Owned, InHand, Controllable, OwnedBy, Loaded
  <2>4. Controllable'
    BY <1>9, <1>0, <1>a DEF Dispatched, CleansUp, Identify, Owned, Waited, Gone, InHand, Controllable, OwnedBy, Loaded
  <2>5. EndsRecorded'
    BY <1>9, <1>0, <1>a DEF Dispatched, CleansUp, Identify, Owned, Basics, Waited, Gone, InHand, EndsRecorded, Loaded
  <2> QED
    BY <1>d, <2>1, <2>2, <2>3, <2>4, <2>5 DEF Owned
<1>10. CASE Poll
  <2>1. Waited'
    BY <1>10 DEF Poll, CleansUp, Identify, Owned, Basics, TypeOK, Waited
  <2>2. Gone'
    BY <1>10, <1>c DEF Poll, CleansUp, Identify, Owned, Basics, Reason, Waited, Gone, Loaded
  <2>3. InHand'
    BY <1>10, <1>0, <1>a DEF Poll, CleansUp, Identify, Owned, InHand, Controllable, OwnedBy, Loaded
  <2>4. Controllable'
    BY <1>10, <1>0, <1>a DEF Poll, CleansUp, Identify, Owned, Waited, Gone, InHand, Controllable, OwnedBy, Loaded
  <2>5. EndsRecorded'
    BY <1>10, <1>0, <1>a DEF Poll, CleansUp, Identify, Owned, Basics, Waited, Gone, InHand, EndsRecorded, Loaded
  <2> QED
    BY <1>d, <2>1, <2>2, <2>3, <2>4, <2>5 DEF Owned
<1>11. CASE \E usable \in BOOLEAN : Probe(usable)
  <2>1. Waited'
    BY <1>11 DEF Probe, Owned, Basics, TypeOK, Waited
  <2>2. Gone'
    BY <1>11, <1>c DEF Probe, Owned, Basics, Reason, Waited, Gone, Loaded
  <2>3. InHand'
    BY <1>11, <1>0 DEF Probe, Owned, InHand, Controllable, OwnedBy, Loaded
  <2>4. Controllable'
    BY <1>11, <1>0 DEF Probe, Owned, Waited, Gone, InHand, Controllable, OwnedBy, Loaded
  <2>5. EndsRecorded'
    BY <1>11, <1>0 DEF Probe, Owned, Basics, Waited, Gone, InHand, EndsRecorded, Loaded
  <2> QED
    BY <1>d, <2>1, <2>2, <2>3, <2>4, <2>5 DEF Owned
<1>12. CASE \E answers \in BOOLEAN : Health(answers)
  <2>1. Waited'
    BY <1>12 DEF Health, LauncherReady, Owned, Basics, TypeOK, Waited
  <2>2. Gone'
    BY <1>12, <1>c DEF Health, LauncherReady, Owned, Basics, Reason, Waited, Gone, Loaded
  <2>3. InHand'
    BY <1>12, <1>0 DEF Health, LauncherReady, Owned, InHand, Controllable, OwnedBy, Loaded
  <2>4. Controllable'
    BY <1>12, <1>0 DEF Health, LauncherReady, Owned, Waited, Gone, InHand, Controllable, OwnedBy, Loaded
  <2>5. EndsRecorded'
    BY <1>12, <1>0 DEF Health, LauncherReady, Owned, Basics, Waited, Gone, InHand, EndsRecorded, Loaded
  <2> QED
    BY <1>d, <2>1, <2>2, <2>3, <2>4, <2>5 DEF Owned
<1>13. CASE WriteReady
  <2>1. Waited'
    BY <1>13 DEF WriteReady, Owned, Basics, TypeOK, Waited
  <2>2. Gone'
    BY <1>13, <1>c DEF WriteReady, Owned, Basics, Reason, Waited, Gone, Loaded
  <2>3. InHand'
    BY <1>13, <1>0, <1>b DEF WriteReady, Owned, InHand, Controllable, OwnedBy, Loaded
  <2>4. Controllable'
    BY <1>13, <1>0, <1>b DEF WriteReady, Owned, Waited, Gone, InHand, Controllable, OwnedBy, Loaded
  <2>5. EndsRecorded'
    BY <1>13, <1>0, <1>b DEF WriteReady, Owned, Basics, Waited, Gone, InHand, EndsRecorded, Loaded
  <2> QED
    BY <1>d, <2>1, <2>2, <2>3, <2>4, <2>5 DEF Owned
<1>14. CASE GiveUp
  <2>1. Waited'
    BY <1>14 DEF GiveUp, CleansUp, Owned, Basics, TypeOK, Waited
  <2>2. Gone'
    BY <1>14, <1>c DEF GiveUp, CleansUp, Owned, Basics, Reason, Waited, Gone, Loaded
  <2>3. InHand'
    BY <1>14, <1>0 DEF GiveUp, CleansUp, Owned, InHand, Controllable, OwnedBy, Loaded
  <2>4. Controllable'
    BY <1>14, <1>0 DEF GiveUp, CleansUp, Owned, Waited, Gone, InHand, Controllable, OwnedBy, Loaded
  <2>5. EndsRecorded'
    BY <1>14, <1>0 DEF GiveUp, CleansUp, Owned, Basics, Waited, Gone, InHand, EndsRecorded, Loaded
  <2> QED
    BY <1>d, <2>1, <2>2, <2>3, <2>4, <2>5 DEF Owned
<1>15. CASE Killed
  <2>1. Waited'
    BY <1>15 DEF Killed, Owned, Basics, TypeOK, Waited
  <2>2. Gone'
    BY <1>15, <1>c DEF Killed, Owned, Basics, Reason, Waited, Gone, Loaded
  <2>3. InHand'
    BY <1>15, <1>0 DEF Killed, Owned, InHand, Controllable, OwnedBy, Loaded
  <2>4. Controllable'
    BY <1>15, <1>0 DEF Killed, Owned, Waited, Gone, InHand, Controllable, OwnedBy, Loaded
  <2>5. EndsRecorded'
    BY <1>15, <1>0 DEF Killed, Owned, Basics, Waited, Gone, InHand, EndsRecorded, Loaded
  <2> QED
    BY <1>d, <2>1, <2>2, <2>3, <2>4, <2>5 DEF Owned
<1>16. CASE \E i \in Starts, execs \in BOOLEAN : Systemd(i, execs)
  <2>1. Waited'
    BY <1>16 DEF Systemd, Owned, Basics, TypeOK, Waited
  <2>2. Gone'
    BY <1>16, <1>c DEF Systemd, Owned, Basics, Reason, Waited, Gone, Loaded
  <2>3. InHand'
    BY <1>16, <1>0 DEF Systemd, Owned, InHand, Controllable, OwnedBy, Loaded
  <2>4. Controllable'
    BY <1>16, <1>0 DEF Systemd, Owned, Waited, Gone, InHand, Controllable, OwnedBy, Loaded
  <2>5. EndsRecorded'
    BY <1>16, <1>0 DEF Systemd, Owned, Basics, Waited, Gone, InHand, EndsRecorded, Loaded
  <2> QED
    BY <1>d, <2>1, <2>2, <2>3, <2>4, <2>5 DEF Owned
<1>17. CASE \E succeeded \in BOOLEAN : Exit(succeeded)
  <2>1. Waited'
    BY <1>17 DEF Exit, Owned, Basics, TypeOK, Waited
  <2>2. Gone'
    BY <1>17, <1>c DEF Exit, Owned, Basics, Reason, Waited, Gone, Loaded
  <2>3. InHand'
    BY <1>17, <1>0 DEF Exit, Owned, InHand, Controllable, OwnedBy, Loaded
  <2>4. Controllable'
    BY <1>17, <1>0, <1>c, UnitStops DEF Exit, Owned, Waited, Gone, InHand, Controllable, OwnedBy, Loaded
  <2>5. EndsRecorded'
    BY <1>17, <1>0, <1>c, UnitStops DEF Exit, Owned, Basics, Waited, Gone, InHand, EndsRecorded, Loaded
  <2> QED
    BY <1>d, <2>1, <2>2, <2>3, <2>4, <2>5 DEF Owned
<1>18. CASE Bind
  <2>1. Waited'
    BY <1>18 DEF Bind, Owned, Basics, TypeOK, Waited
  <2>2. Gone'
    BY <1>18, <1>c DEF Bind, Owned, Basics, Reason, Waited, Gone, Loaded
  <2>3. InHand'
    BY <1>18, <1>0 DEF Bind, Owned, InHand, Controllable, OwnedBy, Loaded
  <2>4. Controllable'
    BY <1>18, <1>0 DEF Bind, Owned, Waited, Gone, InHand, Controllable, OwnedBy, Loaded
  <2>5. EndsRecorded'
    BY <1>18, <1>0 DEF Bind, Owned, Basics, Waited, Gone, InHand, EndsRecorded, Loaded
  <2> QED
    BY <1>d, <2>1, <2>2, <2>3, <2>4, <2>5 DEF Owned
<1>19. CASE Verify
  <2>1. Waited'
    BY <1>19 DEF Verify, Owned, Basics, TypeOK, Waited
  <2>2. Gone'
    BY <1>19, <1>c DEF Verify, Owned, Basics, Reason, Waited, Gone, Loaded
  <2>3. InHand'
    BY <1>19, <1>0 DEF Verify, Owned, InHand, Controllable, OwnedBy, Loaded
  <2>4. Controllable'
    BY <1>19, <1>0 DEF Verify, Owned, Waited, Gone, InHand, Controllable, OwnedBy, Loaded
  <2>5. EndsRecorded'
    BY <1>19, <1>0 DEF Verify, Owned, Basics, Waited, Gone, InHand, EndsRecorded, Loaded
  <2> QED
    BY <1>d, <2>1, <2>2, <2>3, <2>4, <2>5 DEF Owned
<1>20. CASE OtherListener
  <2>1. Waited'
    BY <1>20 DEF OtherListener, Owned, Basics, TypeOK, Waited
  <2>2. Gone'
    BY <1>20, <1>c DEF OtherListener, Owned, Basics, Reason, Waited, Gone, Loaded
  <2>3. InHand'
    BY <1>20, <1>0 DEF OtherListener, Owned, InHand, Controllable, OwnedBy, Loaded
  <2>4. Controllable'
    BY <1>20, <1>0 DEF OtherListener, Owned, Waited, Gone, InHand, Controllable, OwnedBy, Loaded
  <2>5. EndsRecorded'
    BY <1>20, <1>0 DEF OtherListener, Owned, Basics, Waited, Gone, InHand, EndsRecorded, Loaded
  <2> QED
    BY <1>d, <2>1, <2>2, <2>3, <2>4, <2>5 DEF Owned
<1>21. CASE UNCHANGED vars
  <2>1. Waited'
    BY <1>21 DEF vars, Owned, Basics, TypeOK, Waited
  <2>2. Gone'
    BY <1>21, <1>c DEF vars, Owned, Basics, Reason, Waited, Gone, Loaded
  <2>3. InHand'
    BY <1>21, <1>0 DEF vars, Owned, InHand, Controllable, OwnedBy, Loaded
  <2>4. Controllable'
    BY <1>21, <1>0 DEF vars, Owned, Waited, Gone, InHand, Controllable, OwnedBy, Loaded
  <2>5. EndsRecorded'
    BY <1>21, <1>0 DEF vars, Owned, Basics, Waited, Gone, InHand, EndsRecorded, Loaded
  <2> QED
    BY <1>d, <2>1, <2>2, <2>3, <2>4, <2>5 DEF Owned
<1> QED
  BY <1>1, <1>2, <1>3, <1>4, <1>5, <1>6, <1>7, <1>8, <1>9, <1>10, <1>11, <1>12, <1>13, <1>14, <1>15, <1>16, <1>17, <1>18, <1>19, <1>20, <1>21 DEF Next

\* A unit that is loaded is named by the record on disk, wherever commands
\* were killed: owned_info of every later command accepts it.
THEOREM UnitStaysControllable ==
  ASSUME DispatchOutlives = FALSE
  PROVE  Spec => []Controllable
<1>1. Owned => Controllable
  BY DEF Owned
<1> QED
  BY <1>1, InitOwned, StepOwned, PTL DEF Spec

\* A record of an end, stopped or failed, leaves no unit behind: stop and start
\* write it after the unit is gone, and the next start overwrites it first.
THEOREM EndsAreTrue ==
  ASSUME DispatchOutlives = FALSE
  PROVE  Spec => []EndsRecorded
<1>1. Owned => EndsRecorded
  BY DEF Owned
<1> QED
  BY <1>1, InitOwned, StepOwned, PTL DEF Spec

\* The record claims neither an end nor a readiness that did not happen:
\* whoever is killed, what the next command reads of either is true.
THEOREM RecordIsHonest ==
  ASSUME DispatchOutlives = FALSE
  PROVE  Spec => []RecordHonest
  BY EndsAreTrue, ReadinessIsEarned, PTL DEF RecordHonest

----------------------------------------------------------------------------
(* The launcher.                                                           *)

Waiting == {"health", "records", "waiting_signals", "waiting_exit", "deadline"}
Supervising == {"signals", "exit"}
Stopping == {"term", "term_wait", "kill", "reap"}
Places == {"preflight", "start", "ended"} \cup Waiting \cup Supervising \cup Stopping

LaunchTypeOK ==
    /\ place \in Places
    /\ server \in {"none", "running", "zombie", "reaped"}
    /\ workers \in [Ranks -> {"none", "running", "gone"}]
    /\ status \in Int /\ outcome \in Int
    /\ _signals \in Seq(Signals)
    /\ ready \in BOOLEAN /\ reused \in BOOLEAN /\ strayed \in BOOLEAN

\* The leader is there from its start to the launcher's last step, and no
\* worker is there before it.
Unreaped ==
    /\ place \in {"preflight", "start"} => server = "none"
    /\ server = "none" => place \in {"preflight", "start", "ended"}
    /\ server = "none" => \A r \in Ranks : workers[r] # "running"
    /\ server = "reaped" => place = "ended"
    /\ reused => server = "reaped"
    /\ ~strayed

\* From the SIGKILL on, whoever runs is to die of it.
Doomed ==
    place \in {"reap", "ended"} =>
        /\ server = "running" => "leader" \in killed
        /\ \A r \in Ranks : workers[r] = "running" => r \in killed

\* The launcher is ready between the records and the end of the supervision.
ReadyWhere ==
    /\ place \in Supervising => ready
    /\ place \in {"preflight", "start"} \cup Waiting => ~ready

\* A leader that has ended has a status.
HasStatus == server \in {"zombie", "reaped"} => status # Running

\* What may be said of the outcome, as soon as the launcher stops.
Settled ==
    place \in Stopping \cup {"ended"} =>
       \/ _signals # <<>> /\ outcome = -_signals[1]
       \/ outcome = status /\ server \in {"zombie", "reaped"} /\ (outcome = 0 => ready)
       \/ outcome = 1 /\ ~ready

LaunchInv == LaunchTypeOK /\ Unreaped /\ Doomed /\ ReadyWhere /\ HasStatus /\ Settled

\* The launcher starts with the invariant.
LEMMA LaunchInitInv == LaunchInit => LaunchInv
<1> SUFFICES ASSUME LaunchInit PROVE LaunchInv
  OBVIOUS
<1> USE DEF LaunchInit, Places, Waiting, Supervising, Stopping
<1>1. LaunchTypeOK
  <2>1. _signals \in Seq(Signals)
    BY EmptySeq
  <2>2. ready \in BOOLEAN /\ reused \in BOOLEAN /\ strayed \in BOOLEAN
    BY Zenon
  <2>3. workers \in [Ranks -> {"none", "running", "gone"}]
    OBVIOUS
  <2> QED
    BY <2>1, <2>2, <2>3 DEF LaunchTypeOK, Running
<1>2. Unreaped /\ Doomed
  BY DEF Unreaped, Doomed
<1>3. ReadyWhere /\ HasStatus /\ Settled
  BY DEF ReadyWhere, HasStatus, Settled
<1> QED
  BY <1>1, <1>2, <1>3 DEF LaunchInv

\* The steps of the launcher, of the processes and of the system, each
\* with what the invariant has to say of it.
LEMMA LaunchStepInv == LaunchInv /\ [LaunchNext]_launchVars => LaunchInv'
<1> SUFFICES ASSUME LaunchInv, [LaunchNext]_launchVars PROVE LaunchInv'
  OBVIOUS
<1> USE DEF LaunchInv, Places, Waiting, Supervising, Stopping, MovesTo, Ends, procVars
<1>1. CASE \E passed \in BOOLEAN : Preflight(passed)
  <2>1. LaunchTypeOK'
    BY <1>1, LaunchAssumption DEF Preflight, LaunchTypeOK
  <2>2. Unreaped'
    BY <1>1 DEF Preflight, LaunchTypeOK, Unreaped
  <2>3. Doomed'
    BY <1>1 DEF Preflight, LaunchTypeOK, Unreaped, Doomed
  <2>4. ReadyWhere'
    BY <1>1 DEF Preflight, ReadyWhere
  <2>5. HasStatus'
    BY <1>1 DEF Preflight, HasStatus
  <2>6. Settled'
    BY <1>1 DEF Preflight, LaunchTypeOK, Unreaped, ReadyWhere, HasStatus, Settled
  <2> QED
    BY <2>1, <2>2, <2>3, <2>4, <2>5, <2>6
<1>2. CASE StartServer
  <2>1. LaunchTypeOK'
    BY <1>2, LaunchAssumption DEF StartServer, LaunchTypeOK
  <2>2. Unreaped'
    BY <1>2 DEF StartServer, LaunchTypeOK, Unreaped
  <2>3. Doomed'
    BY <1>2 DEF StartServer, LaunchTypeOK, Unreaped, Doomed
  <2>4. ReadyWhere'
    BY <1>2 DEF StartServer, ReadyWhere
  <2>5. HasStatus'
    BY <1>2 DEF StartServer, HasStatus
  <2>6. Settled'
    BY <1>2 DEF StartServer, LaunchTypeOK, Unreaped, ReadyWhere, HasStatus, Settled
  <2> QED
    BY <2>1, <2>2, <2>3, <2>4, <2>5, <2>6
<1>3. CASE \E answered \in BOOLEAN : Healthy(answered)
  <2>1. LaunchTypeOK'
    BY <1>3, LaunchAssumption DEF Healthy, LaunchTypeOK
  <2>2. Unreaped'
    BY <1>3 DEF Healthy, LaunchTypeOK, Unreaped
  <2>3. Doomed'
    BY <1>3 DEF Healthy, LaunchTypeOK, Unreaped, Doomed
  <2>4. ReadyWhere'
    BY <1>3 DEF Healthy, ReadyWhere
  <2>5. HasStatus'
    BY <1>3 DEF Healthy, HasStatus
  <2>6. Settled'
    BY <1>3 DEF Healthy, LaunchTypeOK, Unreaped, ReadyWhere, HasStatus, Settled
  <2> QED
    BY <2>1, <2>2, <2>3, <2>4, <2>5, <2>6
<1>4. CASE CheckSignals
  <2>1. LaunchTypeOK'
    <3>1. _signals # <<>> => _signals[1] \in Signals
      BY DEF LaunchTypeOK
    <3>2. _signals # <<>> => StopSignal \in Int
      <4>1. \A s \in Signals : s \in Int /\ -s \in Int
        BY LaunchAssumption
      <4> QED
        BY <3>1, <4>1, Zenon DEF StopSignal
    <3>3. outcome' \in Int
      <4>1. CASE _signals # <<>>
        BY <1>4, <3>2, <4>1 DEF CheckSignals
      <4>2. CASE _signals = <<>>
        BY <1>4, <4>2 DEF CheckSignals, LaunchTypeOK
      <4> QED
        BY <4>1, <4>2
    <3>4. place' \in Places
      BY <1>4 DEF CheckSignals
    <3> QED
      BY <1>4, <3>3, <3>4 DEF CheckSignals, LaunchTypeOK
  <2>2. Unreaped'
    BY <1>4 DEF CheckSignals, StopSignal, LaunchTypeOK, Unreaped
  <2>3. Doomed'
    BY <1>4 DEF CheckSignals, StopSignal, LaunchTypeOK, Unreaped, Doomed
  <2>4. ReadyWhere'
    BY <1>4 DEF CheckSignals, StopSignal, ReadyWhere
  <2>5. HasStatus'
    BY <1>4 DEF CheckSignals, StopSignal, HasStatus
  <2>6. Settled'
    BY <1>4 DEF CheckSignals, StopSignal, LaunchTypeOK, Unreaped, ReadyWhere, HasStatus, Settled
  <2> QED
    BY <2>1, <2>2, <2>3, <2>4, <2>5, <2>6
<1>5. CASE CheckExit
  <2>1. LaunchTypeOK'
    BY <1>5, LaunchAssumption DEF CheckExit, Look, EarlyStatus, LaunchTypeOK
  <2>2. Unreaped'
    BY <1>5 DEF CheckExit, Look, EarlyStatus, LaunchTypeOK, Unreaped
  <2>3. Doomed'
    BY <1>5 DEF CheckExit, Look, EarlyStatus, LaunchTypeOK, Unreaped, Doomed
  <2>4. ReadyWhere'
    BY <1>5 DEF CheckExit, Look, EarlyStatus, ReadyWhere
  <2>5. HasStatus'
    BY <1>5 DEF CheckExit, Look, EarlyStatus, HasStatus
  <2>6. Settled'
    BY <1>5 DEF CheckExit, Look, EarlyStatus, LaunchTypeOK, Unreaped, ReadyWhere, HasStatus, Settled
  <2> QED
    BY <2>1, <2>2, <2>3, <2>4, <2>5, <2>6
<1>6. CASE CheckRecords
  <2>1. LaunchTypeOK'
    <3>1. ready' \in BOOLEAN
      BY <1>6, Zenon DEF CheckRecords, LaunchTypeOK
    <3> QED
      BY <1>6, <3>1 DEF CheckRecords, LaunchTypeOK
  <2>2. Unreaped'
    BY <1>6 DEF CheckRecords, LaunchTypeOK, Unreaped
  <2>3. Doomed'
    BY <1>6 DEF CheckRecords, LaunchTypeOK, Unreaped, Doomed
  <2>4. ReadyWhere'
    BY <1>6 DEF CheckRecords, ReadyWhere
  <2>5. HasStatus'
    BY <1>6 DEF CheckRecords, HasStatus
  <2>6. Settled'
    BY <1>6 DEF CheckRecords, LaunchTypeOK, Unreaped, ReadyWhere, HasStatus, Settled
  <2> QED
    BY <2>1, <2>2, <2>3, <2>4, <2>5, <2>6
<1>7. CASE \E late \in BOOLEAN : CheckDeadline(late)
  <2>1. LaunchTypeOK'
    BY <1>7, LaunchAssumption DEF CheckDeadline, LaunchTypeOK
  <2>2. Unreaped'
    BY <1>7 DEF CheckDeadline, LaunchTypeOK, Unreaped
  <2>3. Doomed'
    BY <1>7 DEF CheckDeadline, LaunchTypeOK, Unreaped, Doomed
  <2>4. ReadyWhere'
    BY <1>7 DEF CheckDeadline, ReadyWhere
  <2>5. HasStatus'
    BY <1>7 DEF CheckDeadline, HasStatus
  <2>6. Settled'
    BY <1>7 DEF CheckDeadline, LaunchTypeOK, Unreaped, ReadyWhere, HasStatus, Settled
  <2> QED
    BY <2>1, <2>2, <2>3, <2>4, <2>5, <2>6
<1>8. CASE Terminate
  <2>1. LaunchTypeOK'
    BY <1>8, LaunchAssumption DEF Terminate, Signalled, Members, Group, LaunchTypeOK
  <2>2. Unreaped'
    BY <1>8 DEF Terminate, Signalled, Members, Group, LaunchTypeOK, Unreaped
  <2>3. Doomed'
    BY <1>8 DEF Terminate, Signalled, Members, Group, LaunchTypeOK, Unreaped, Doomed
  <2>4. ReadyWhere'
    BY <1>8 DEF Terminate, Signalled, Members, Group, ReadyWhere
  <2>5. HasStatus'
    BY <1>8 DEF Terminate, Signalled, Members, Group, HasStatus
  <2>6. Settled'
    BY <1>8 DEF Terminate, Signalled, Members, Group, LaunchTypeOK, Unreaped, ReadyWhere, HasStatus, Settled
  <2> QED
    BY <2>1, <2>2, <2>3, <2>4, <2>5, <2>6
<1>9. CASE TermWait
  <2>1. LaunchTypeOK'
    BY <1>9, LaunchAssumption DEF TermWait, AfterTerm, LaunchTypeOK
  <2>2. Unreaped'
    BY <1>9 DEF TermWait, AfterTerm, LaunchTypeOK, Unreaped
  <2>3. Doomed'
    BY <1>9 DEF TermWait, AfterTerm, LaunchTypeOK, Unreaped, Doomed
  <2>4. ReadyWhere'
    BY <1>9 DEF TermWait, AfterTerm, ReadyWhere
  <2>5. HasStatus'
    BY <1>9 DEF TermWait, AfterTerm, HasStatus
  <2>6. Settled'
    BY <1>9 DEF TermWait, AfterTerm, LaunchTypeOK, Unreaped, ReadyWhere, HasStatus, Settled
  <2> QED
    BY <2>1, <2>2, <2>3, <2>4, <2>5, <2>6
<1>10. CASE Kill
  <2>1. LaunchTypeOK'
    BY <1>10, LaunchAssumption DEF Kill, Signalled, Members, Group, LaunchTypeOK
  <2>2. Unreaped'
    BY <1>10 DEF Kill, Signalled, Members, Group, LaunchTypeOK, Unreaped
  <2>3. Doomed'
    BY <1>10 DEF Kill, Signalled, Members, Group, LaunchTypeOK, Unreaped, Doomed
  <2>4. ReadyWhere'
    BY <1>10 DEF Kill, Signalled, Members, Group, ReadyWhere
  <2>5. HasStatus'
    BY <1>10 DEF Kill, Signalled, Members, Group, HasStatus
  <2>6. Settled'
    BY <1>10 DEF Kill, Signalled, Members, Group, LaunchTypeOK, Unreaped, ReadyWhere, HasStatus, Settled
  <2> QED
    BY <2>1, <2>2, <2>3, <2>4, <2>5, <2>6
<1>11. CASE Reap
  <2>1. LaunchTypeOK'
    BY <1>11, LaunchAssumption DEF Reap, LaunchTypeOK
  <2>2. Unreaped'
    BY <1>11 DEF Reap, LaunchTypeOK, Unreaped
  <2>3. Doomed'
    BY <1>11 DEF Reap, LaunchTypeOK, Unreaped, Doomed
  <2>4. ReadyWhere'
    BY <1>11 DEF Reap, ReadyWhere
  <2>5. HasStatus'
    BY <1>11 DEF Reap, HasStatus
  <2>6. Settled'
    BY <1>11 DEF Reap, LaunchTypeOK, Unreaped, ReadyWhere, HasStatus, Settled
  <2> QED
    BY <2>1, <2>2, <2>3, <2>4, <2>5, <2>6
<1>12. CASE \E how \in Statuses \cup {-9} : ServerEnds(how)
  <2>1. LaunchTypeOK'
    BY <1>12, LaunchAssumption DEF ServerEnds, LaunchTypeOK
  <2>2. Unreaped'
    BY <1>12 DEF ServerEnds, LaunchTypeOK, Unreaped
  <2>3. Doomed'
    BY <1>12 DEF ServerEnds, LaunchTypeOK, Unreaped, Doomed
  <2>4. ReadyWhere'
    BY <1>12 DEF ServerEnds, ReadyWhere
  <2>5. HasStatus'
    BY <1>12, LaunchAssumption DEF ServerEnds, HasStatus, Running
  <2>6. Settled'
    BY <1>12 DEF ServerEnds, LaunchTypeOK, Unreaped, ReadyWhere, HasStatus, Settled
  <2> QED
    BY <2>1, <2>2, <2>3, <2>4, <2>5, <2>6
<1>13. CASE \E r \in Ranks : RankStarts(r)
  <2>1. LaunchTypeOK'
    BY <1>13, LaunchAssumption DEF RankStarts, LaunchTypeOK
  <2>2. Unreaped'
    BY <1>13 DEF RankStarts, LaunchTypeOK, Unreaped
  <2>3. Doomed'
    BY <1>13 DEF RankStarts, LaunchTypeOK, Unreaped, Doomed
  <2>4. ReadyWhere'
    BY <1>13 DEF RankStarts, ReadyWhere
  <2>5. HasStatus'
    BY <1>13 DEF RankStarts, HasStatus
  <2>6. Settled'
    BY <1>13 DEF RankStarts, LaunchTypeOK, Unreaped, ReadyWhere, HasStatus, Settled
  <2> QED
    BY <2>1, <2>2, <2>3, <2>4, <2>5, <2>6
<1>14. CASE \E r \in Ranks : RankEnds(r)
  <2>1. LaunchTypeOK'
    BY <1>14, LaunchAssumption DEF RankEnds, LaunchTypeOK
  <2>2. Unreaped'
    BY <1>14 DEF RankEnds, LaunchTypeOK, Unreaped
  <2>3. Doomed'
    BY <1>14 DEF RankEnds, LaunchTypeOK, Unreaped, Doomed
  <2>4. ReadyWhere'
    BY <1>14 DEF RankEnds, ReadyWhere
  <2>5. HasStatus'
    BY <1>14 DEF RankEnds, HasStatus
  <2>6. Settled'
    BY <1>14 DEF RankEnds, LaunchTypeOK, Unreaped, ReadyWhere, HasStatus, Settled
  <2> QED
    BY <2>1, <2>2, <2>3, <2>4, <2>5, <2>6
<1>15. CASE \E r \in Ranks, written \in {"right", "wrong"} : RankRecords(r, written)
  <2>1. LaunchTypeOK'
    BY <1>15, LaunchAssumption DEF RankRecords, LaunchTypeOK
  <2>2. Unreaped'
    BY <1>15 DEF RankRecords, LaunchTypeOK, Unreaped
  <2>3. Doomed'
    BY <1>15 DEF RankRecords, LaunchTypeOK, Unreaped, Doomed
  <2>4. ReadyWhere'
    BY <1>15 DEF RankRecords, ReadyWhere
  <2>5. HasStatus'
    BY <1>15 DEF RankRecords, HasStatus
  <2>6. Settled'
    BY <1>15 DEF RankRecords, LaunchTypeOK, Unreaped, ReadyWhere, HasStatus, Settled
  <2> QED
    BY <2>1, <2>2, <2>3, <2>4, <2>5, <2>6
<1>16. CASE \E s \in Signals : Signal(s)
  <2>1. LaunchTypeOK'
    BY <1>16, LaunchAssumption DEF Signal, LaunchTypeOK
  <2>2. Unreaped'
    BY <1>16 DEF Signal, LaunchTypeOK, Unreaped
  <2>3. Doomed'
    BY <1>16 DEF Signal, LaunchTypeOK, Unreaped, Doomed
  <2>4. ReadyWhere'
    BY <1>16 DEF Signal, ReadyWhere
  <2>5. HasStatus'
    BY <1>16 DEF Signal, HasStatus
  <2>6. Settled'
    BY <1>16 DEF Signal, LaunchTypeOK, Unreaped, ReadyWhere, HasStatus, Settled
  <2> QED
    BY <2>1, <2>2, <2>3, <2>4, <2>5, <2>6
<1>17. CASE Reuse
  <2>1. LaunchTypeOK'
    BY <1>17, LaunchAssumption DEF Reuse, LaunchTypeOK
  <2>2. Unreaped'
    BY <1>17 DEF Reuse, LaunchTypeOK, Unreaped
  <2>3. Doomed'
    BY <1>17 DEF Reuse, LaunchTypeOK, Unreaped, Doomed
  <2>4. ReadyWhere'
    BY <1>17 DEF Reuse, ReadyWhere
  <2>5. HasStatus'
    BY <1>17 DEF Reuse, HasStatus
  <2>6. Settled'
    BY <1>17 DEF Reuse, LaunchTypeOK, Unreaped, ReadyWhere, HasStatus, Settled
  <2> QED
    BY <2>1, <2>2, <2>3, <2>4, <2>5, <2>6
<1>18. CASE UNCHANGED launchVars
  <2>1. LaunchTypeOK'
    BY <1>18, LaunchAssumption DEF launchVars, LaunchTypeOK
  <2>2. Unreaped'
    BY <1>18 DEF launchVars, LaunchTypeOK, Unreaped
  <2>3. Doomed'
    BY <1>18 DEF launchVars, LaunchTypeOK, Unreaped, Doomed
  <2>4. ReadyWhere'
    BY <1>18 DEF launchVars, ReadyWhere
  <2>5. HasStatus'
    BY <1>18 DEF launchVars, HasStatus
  <2>6. Settled'
    BY <1>18 DEF launchVars, LaunchTypeOK, Unreaped, ReadyWhere, HasStatus, Settled
  <2> QED
    BY <2>1, <2>2, <2>3, <2>4, <2>5, <2>6
<1> QED
  BY <1>1, <1>2, <1>3, <1>4, <1>5, <1>6, <1>7, <1>8, <1>9, <1>10, <1>11, <1>12, <1>13, <1>14, <1>15, <1>16, <1>17, <1>18 DEF LaunchNext, Launcher

\* The invariant holds throughout.
LEMMA LaunchInvariant == LaunchSpec => []LaunchInv
  BY LaunchInitInv, LaunchStepInv, PTL DEF LaunchSpec

\* When the launcher has ended, nobody of its group is left but who has a
\* SIGKILL to die of, and no signal of the launcher went to a stranger:
\* stop_server, with the leader left unreaped to its end.
THEOREM GroupIsStopped == LaunchSpec => []GroupStopped
<1>1. LaunchInv => GroupStopped
  BY DEF LaunchInv, Unreaped, Doomed, GroupStopped
<1> QED
  BY <1>1, LaunchInvariant, PTL

\* What the launcher ends with is the first stop signal or how the server
\* ended by itself, 0 only from a server that was ready; or a failure of its
\* own, before it was: _check_signals, _exit_state and the loops of launch.
THEOREM OutcomeIsTrue == LaunchSpec => []OutcomeTrue
<1>1. LaunchInv => OutcomeTrue
  BY DEF LaunchInv, HasStatus, Settled, OutcomeTrue, Stopping
<1> QED
  BY <1>1, LaunchInvariant, PTL

=============================================================================
