----------------------- MODULE RecoveryPromise_proof ------------------------
(***************************************************************************)
(* The steps of the recovery core under the failures of BenignFaults:      *)
(* resume_all_tracked leaves no process frozen, and the core implements    *)
(* RecoveryPromise, the write-ahead discipline of freezing and recording.  *)
(* Where brokers do their work, one has every frozen process in hand.      *)
(***************************************************************************)
EXTENDS Recoverable_proof

LEMMA DrainStep ==
  ASSUME BenignFaults, TypeOK, RecoveryInv, DrainInv, [Next]_vars
  PROVE  DrainInv'
<1> SUFFICES ASSUME "resume" \notin Faults PROVE DrainInv'
  BY DEF DrainInv
<1> USE DEF DrainInv, InDrain
<1>0. /\ JournaledInv /\ IdentityInv
      /\ pc \in Stages /\ return_to \in {"drain", "ensure", "cleanup"}
  BY DEF RecoveryInv, TypeOK, GuardTypeOK
<1>1. CASE ProcessStep
  <2>1. PICK p \in Pid : ProcessStarts(p) \/ ProcessExits(p)
    BY <1>1 DEF ProcessStep
  <2>2. alive' \cap suspended \subseteq alive \cap suspended
    BY <1>0, <2>1, JournaledExists
       DEF ProcessStarts, ProcessExits, BenignFaults, JournaledInv,
           SuspendedIsJournaled
  <2> QED
    BY <1>1, <2>2
       DEF ProcessStep, guardVars, trackedVars, controlVars, loopVars
<1>2. ASSUME UNCHANGED <<alive, guardVars>> PROVE DrainInv'
  BY <1>2 DEF guardVars, trackedVars, controlVars, loopVars
<1>3. CASE UNCHANGED vars
  BY <1>2, <1>3 DEF vars, processVars
<1>4. ASSUME NEW g \in Generation, BrokerStep(g) \/ BrokerDeath(g)
      PROVE  DrainInv'
  <2>1. g \in Runner
    BY BoundAssumption DEF Generation, Runner
  <2> QED
    BY <1>2, <1>4, <2>1, RecoverEffect
       DEF BrokerStep, BrokerDeath, run_recovery_broker, BrokerOpensGuard,
           BrokerSeesGuardExit, BrokerReturns, BrokerDies, processVars
<1>5. CASE GuardVanishes \/ GuardStarts
  BY <1>5 DEF GuardVanishes, GuardStarts
<1>6. CASE Startup
  BY <1>5, <1>6
     DEF Startup, RecoverStale, StaleRecovered, InitJournal, LaunchBroker,
         AwaitBroker, SetUp, StartupFrame, guardVars
<1>7. CASE Loop /\ ~GuardVanishes
  <2> USE DEF Goto, CallOn, UnregisterThen, trackedVars
  <2>0. UNCHANGED alive
    BY <1>7, LoopStays
  <2>1. CASE StopRequested \/ ResumeRequested
    BY <2>1 DEF StopRequested, ResumeRequested
  <2>2. CASE DrainOne
    BY <2>0, <2>2 DEF DrainOne, NtResumeProcess, LoopFrame
  <2>3. CASE \/ PassBegins \/ DrainDone \/ Scan \/ CleanupBegins
             \/ CleanupOne \/ CleanupDone \/ SuspendCurrent
             \/ HeartbeatProbes \/ HeartbeatSuspends
    BY <1>7, <2>3
       DEF PassBegins, DrainDone, Scan, CleanupBegins, CleanupOne,
           CleanupDone, SuspendCurrent, HeartbeatProbes, HeartbeatSuspends,
           HeartbeatGivesUp
  <2>4. ASSUME NEW p \in Pid, \/ NoRoom(p) \/ KeepAsIs(p) \/ Register(p)
                              \/ Resume(p) \/ HeartbeatResumes(p)
        PROVE  DrainInv'
    BY <2>4 DEF NoRoom, KeepAsIs, Register, Resume, HeartbeatResumes, Visit
  <2>5. CASE Unregister
    BY <1>0, <2>0, <2>5 DEF Unregister
  <2> QED
    BY <1>7, <2>1, <2>2, <2>3, <2>4, <2>5 DEF Loop, EnsureGroupState
<1> QED
  BY <1>1, <1>3, <1>4, <1>5, <1>6, <1>7
     DEF Next, GuardStep, GuardCrashes, run_browser_guard

(* When resume_all_tracked returns, on the user's request or before the    *)
(* guard exits, no process is left frozen - if NtResumeProcess fails only  *)
(* on processes that are gone.                                             *)
THEOREM DrainAlwaysThaws ==
  BenignFaults /\ "resume" \notin Faults => (Spec => []DrainThawsAll)
<1>1. SUFFICES ASSUME BenignFaults, "resume" \notin Faults
               PROVE  Spec => []DrainThawsAll
  OBVIOUS
<1>2. Init => DrainInv
  BY DEF Init, GuardInit, DrainInv, InDrain
<1>3. TypeOK /\ RecoveryInv /\ DrainInv /\ [Next]_vars => DrainInv'
  BY <1>1, DrainStep
<1>4. RecoveryInv /\ DrainInv => DrainThawsAll
  BY <1>1
     DEF RecoveryInv, FrozenInv, DrainInv, InDrain, DrainThawsAll, Frozen
<1> QED
  BY <1>1, <1>2, <1>3, <1>4, TypeCorrect, RecoveryInvHolds, PTL DEF Spec

-----------------------------------------------------------------------------
(* What one step does to the things the promise is about: at most one of   *)
(* them changes, and at most one process is frozen or thawed.              *)
Quiet == UNCHANGED <<FrozenInstances, guard_process>>
Froze(p) == /\ FrozenInstances' = FrozenInstances \cup {InstanceOf(p)}
            /\ UNCHANGED <<journal_file, guard_process>>
            /\ guard_process # 0
Thawed(p) == /\ FrozenInstances' = FrozenInstances \ {InstanceOf(p)}
             /\ UNCHANGED <<journal_file, guard_process>>
GuardChanged == UNCHANGED <<FrozenInstances, journal_file>>

Effect == \/ Quiet
          \/ \E p \in Pid : Froze(p) \/ Thawed(p)
          \/ GuardChanged

LEMMA UnchangedProcesses ==
  ASSUME UNCHANGED processVars
  PROVE  UNCHANGED FrozenInstances
BY DEF processVars, FrozenInstances, Frozen, InstanceOf

LEMMA ResumeThaws ==
  ASSUME TypeOK, FrozenOnce, NEW p \in Pid, NEW ok \in BOOLEAN,
         NtResumeProcess(p, ok), UNCHANGED <<journal_file, guard_process>>
  PROVE  Effect
<1>1. CASE ok
  <2>1. Frozen' = Frozen \ {p} /\ UNCHANGED creation_time
    BY <1>1, ResumeEffect
  <2>2. FrozenInstances' = FrozenInstances \ {InstanceOf(p)}
    BY <2>1 DEF FrozenInstances, InstanceOf
  <2> QED
    BY <2>2 DEF Effect, Thawed
<1>2. CASE ~ok
  <2>1. UNCHANGED processVars
    BY <1>2 DEF NtResumeProcess
  <2> QED
    BY <2>1, UnchangedProcesses DEF Effect, Quiet
<1> QED
  BY <1>1, <1>2

LEMMA SuspendFreezes ==
  ASSUME TypeOK, FrozenOnce, NEW p \in Pid, NEW ok \in BOOLEAN,
         suspend_count[p] = 0, NtSuspendProcess(p, ok), guard_process # 0,
         UNCHANGED <<journal_file, guard_process>>
  PROVE  Effect
<1>1. CASE ok
  <2>1. Frozen' = Frozen \cup {p} /\ UNCHANGED creation_time
    BY <1>1, SuspendEffect
  <2>2. FrozenInstances' = FrozenInstances \cup {InstanceOf(p)}
    BY <2>1 DEF FrozenInstances, InstanceOf
  <2> QED
    BY <2>2 DEF Effect, Froze
<1>2. CASE ~ok
  <2>1. UNCHANGED processVars
    BY <1>2 DEF NtSuspendProcess
  <2> QED
    BY <2>1, UnchangedProcesses DEF Effect, Quiet
<1> QED
  BY <1>1, <1>2

LEMMA ProcessEffect ==
  ASSUME TypeOK, ProcessStep
  PROVE  Effect
<1>1. PICK p \in Pid : ProcessStarts(p) \/ ProcessExits(p)
  BY DEF ProcessStep
<1>2. /\ suspend_count \in [Pid -> Nat] /\ alive \subseteq Pid
      /\ creation_time \in [Pid -> 0 .. MaxBirths]
      /\ \A q \in Pid \ alive : suspend_count[q] = 0
      /\ UNCHANGED <<journal_file, guard_process>>
  BY BoundAssumption
     DEF TypeOK, ProcessesTypeOK, ProcessStep, journalVars
<1>3. CASE ProcessStarts(p)
  <2>1. /\ Frozen' = Frozen
        /\ \A q \in Frozen : creation_time'[q] = creation_time[q]
    BY <1>2, <1>3 DEF ProcessStarts, Frozen
  <2>2. UNCHANGED FrozenInstances
    BY <2>1 DEF FrozenInstances, InstanceOf
  <2> QED
    BY <1>2, <2>2 DEF Effect, Quiet
<1>4. CASE ProcessExits(p)
  <2>1. Frozen' = Frozen \ {p} /\ UNCHANGED creation_time
    BY <1>2, <1>4 DEF ProcessExits, Frozen
  <2>2. FrozenInstances' = FrozenInstances \ {InstanceOf(p)}
    BY <2>1 DEF FrozenInstances, InstanceOf
  <2> QED
    BY <1>2, <2>2 DEF Effect, Thawed
<1> QED
  BY <1>1, <1>3, <1>4

LEMMA RecoverCallEffect ==
  ASSUME TypeOK, FrozenOnce, NEW r \in Runner, bg_recover_journal_file(r)
  PROVE  Effect
<1>1. UNCHANGED guard_process
  BY DEF bg_recover_journal_file
<1>2. CASE ResumeRecord(r)
  <2>1. call[r].current \subseteq BgRecoveryRecord
    BY DEF TypeOK, BrokerTypeOK, Call
  <2> QED
    BY <1>1, <1>2, <2>1, ResumeThaws
       DEF ResumeRecord, journalVars, BgRecoveryRecord
<1>3. CASE ~ResumeRecord(r)
  BY <1>1, <1>3, UnchangedProcesses
     DEF bg_recover_journal_file, LoadFails, LoadJournal, CheckRecord,
         AttemptResume, FinishRecovery, Effect, Quiet
<1> QED
  BY <1>2, <1>3

LEMMA LoopEffect ==
  ASSUME TypeOK, SeparationInv, FrozenInv, Loop
  PROVE  Effect
<1>0. current \subseteq Pid /\ todo \subseteq Pid /\ FrozenOnce
  BY DEF TypeOK, GuardTypeOK, FrozenInv
<1>1. CASE GuardVanishes
  BY <1>1, UnchangedProcesses DEF GuardVanishes, Effect, GuardChanged
<1>2. CASE ~GuardVanishes
  <2>1. UNCHANGED guard_process /\ guard_process # 0
    <3>1. launched # 0
      BY <1>2, LoopStays, BoundAssumption
         DEF TypeOK, BrokerTypeOK, SeparationInv, BrokerInv, LoopStages
    <3> QED
      BY <1>2, <3>1, LoopStays DEF SeparationInv, BrokerInv, LoopStages
  <2>2. CASE DrainOne \/ CleanupOne
    BY <1>0, <2>1, <2>2, ResumeThaws DEF DrainOne, CleanupOne, journalVars
  <2>3. ASSUME NEW p \in Pid, Resume(p) \/ HeartbeatResumes(p)
        PROVE  Effect
    BY <1>0, <2>1, <2>3, ResumeThaws DEF Resume, HeartbeatResumes, journalVars
  <2>4. CASE SuspendCurrent \/ HeartbeatSuspends
    <3>1. PICK p \in current, ok \in BOOLEAN : NtSuspendProcess(p, ok)
      BY <2>4 DEF SuspendCurrent, HeartbeatSuspends
    <3>2. suspend_count[p] = 0 /\ p \in Pid
      BY <1>0, <2>4, <3>1 DEF SuspendCurrent, HeartbeatSuspends, FrozenInv
    <3>3. UNCHANGED journal_file
      BY <2>4 DEF SuspendCurrent, HeartbeatSuspends, journalVars
    <3> QED
      BY <1>0, <2>1, <3>1, <3>2, <3>3, SuspendFreezes
  <2>5. CASE \/ StopRequested \/ ResumeRequested \/ PassBegins \/ DrainDone
             \/ Scan \/ HeartbeatProbes \/ Unregister \/ CleanupBegins
             \/ CleanupDone
             \/ \E p \in Pid : NoRoom(p) \/ KeepAsIs(p) \/ Register(p)
    <3>1. UNCHANGED processVars
      BY <1>2, <2>5
         DEF StopRequested, ResumeRequested, PassBegins, DrainDone, Scan,
             HeartbeatProbes, Unregister, CleanupBegins, CleanupDone, NoRoom,
             KeepAsIs, Register
    <3> QED
      BY <2>1, <3>1, UnchangedProcesses DEF Effect, Quiet
  <2> QED
    BY <2>2, <2>3, <2>4, <2>5 DEF Loop, EnsureGroupState
<1> QED
  BY <1>1, <1>2

LEMMA StepEffect ==
  ASSUME TypeOK, SeparationInv, FrozenInv, [Next]_vars
  PROVE  Effect
<1>0. FrozenOnce /\ Generation \subseteq Runner /\ 0 \in Runner
  BY BoundAssumption DEF FrozenInv, Generation, Runner
<1>1. CASE UNCHANGED vars
  BY <1>1, UnchangedProcesses DEF vars, Effect, Quiet
<1>2. CASE \E g \in Generation : BrokerStep(g) \/ BrokerDeath(g)
  <2>1. PICK g \in Generation : BrokerStep(g) \/ BrokerDeath(g)
    BY <1>2
  <2>2. CASE bg_recover_journal_file(g)
    BY <1>0, <2>2, RecoverCallEffect
  <2>3. CASE \/ BrokerOpensGuard(g) \/ BrokerSeesGuardExit(g)
             \/ BrokerReturns(g) \/ BrokerDies(g)
    BY <2>3, UnchangedProcesses
       DEF BrokerOpensGuard, BrokerSeesGuardExit, BrokerReturns, BrokerDies,
           Effect, Quiet
  <2> QED
    BY <2>1, <2>2, <2>3 DEF BrokerStep, BrokerDeath, run_recovery_broker
<1>3. CASE GuardStarts \/ GuardVanishes
  BY <1>3, UnchangedProcesses
     DEF GuardStarts, GuardVanishes, journalVars, Effect, GuardChanged
<1>4. CASE Startup
  <2>1. CASE RecoverStale
    BY <1>0, <2>1, RecoverCallEffect DEF RecoverStale
  <2>2. CASE ~RecoverStale /\ ~GuardVanishes
    BY <1>4, <2>2, UnchangedProcesses
       DEF Startup, StaleRecovered, InitJournal, LaunchBroker, AwaitBroker,
           SetUp, StartupFrame, Effect, Quiet
  <2> QED
    BY <1>3, <2>1, <2>2
<1> QED
  BY <1>1, <1>2, <1>3, <1>4, ProcessEffect, LoopEffect
     DEF Next, GuardStep, GuardCrashes, run_browser_guard

-----------------------------------------------------------------------------
(* In the promise's terms: every effect is one of its actions.             *)
LEMMA EffectIsPromised ==
  ASSUME TypeOK', SeparationInv, SeparationInv', Recoverable, Recoverable',
         TypeOK, Effect
  PROVE  [Promise!Next]_(Promise!promiseVars)
<1> USE DEF Promise!Next, Promise!promiseVars
<1>1. CASE Quiet
  <2>1. journal_file' \in SUBSET BgRecoveryRecord
    BY DEF TypeOK, JournalTypeOK
  <2>2. FrozenInstances \subseteq journal_file'
    BY <1>1 DEF Quiet, Recoverable
  <2> QED
    BY <1>1, <2>1, <2>2 DEF Quiet, Promise!Record
<1>2. ASSUME NEW p \in Pid, Froze(p)
      PROVE  [Promise!Next]_(Promise!promiseVars)
  <2>1. CASE InstanceOf(p) \in FrozenInstances
    BY <1>2, <2>1 DEF Froze
  <2>2. CASE InstanceOf(p) \notin FrozenInstances
    <3>1. InstanceOf(p) \in journal_file
      BY <1>2 DEF Froze, Recoverable
    <3> QED
      BY <1>2, <2>2, <3>1 DEF Froze, Promise!Freeze
  <2> QED
    BY <2>1, <2>2
<1>3. ASSUME NEW p \in Pid, Thawed(p)
      PROVE  [Promise!Next]_(Promise!promiseVars)
  <2>1. CASE InstanceOf(p) \in FrozenInstances
    BY <1>3, <2>1 DEF Thawed, Promise!Thaw
  <2>2. CASE InstanceOf(p) \notin FrozenInstances
    BY <1>3, <2>2 DEF Thawed
  <2> QED
    BY <2>1, <2>2
<1>4. CASE GuardChanged
  BY <1>4 DEF GuardChanged, Promise!GuardComesOrGoes
<1> QED
  BY <1>1, <1>2, <1>3, <1>4 DEF Effect

(* Every behaviour of the recovery core under benign failures follows the  *)
(* write-ahead discipline that RecoveryPromise states.                     *)
THEOREM CoreKeepsPromise == BenignFaults => (Spec => KeepsPromise)
<1> SUFFICES ASSUME BenignFaults PROVE Spec => KeepsPromise
  OBVIOUS
<1>1. Init => Promise!Init
  BY DEF Init, ProcessesInit, JournalInit, BrokerInit, Promise!Init,
         FrozenInstances, Frozen
<1>2. /\ TypeOK /\ TypeOK' /\ RecoveryInv /\ RecoveryInv' /\ [Next]_vars
      => [Promise!Next]_(Promise!promiseVars)
  BY StepEffect, EffectIsPromised DEF RecoveryInv
<1> QED
  BY <1>1, <1>2, RecoveryInvHolds, TypeCorrect, PTL
     DEF Spec, KeepsPromise, Promise!Spec

(* docs/architecture.md: "A record is removed only after normal resume     *)
(* succeeds."  Under benign failures that is so: no step of the guard or   *)
(* of a broker takes the record of a frozen process from the file.         *)
THEOREM RecordsKeptUntilResume ==
  BenignFaults => (Spec => RecordRemovedOnlyAfterResume)
<1> SUFFICES ASSUME BenignFaults PROVE Spec => RecordRemovedOnlyAfterResume
  OBVIOUS
<1>1. /\ TypeOK /\ RecoveryInv /\ RecoveryInv' /\ [Next]_vars
      => [(journal_file \ journal_file') \cap FrozenInstances = {}]_vars
  <2> SUFFICES ASSUME TypeOK, RecoveryInv, RecoveryInv', Next
               PROVE  (journal_file \ journal_file') \cap FrozenInstances = {}
    OBVIOUS
  <2>1. Effect
    BY StepEffect DEF RecoveryInv
  <2> QED
    BY <2>1
       DEF Effect, Quiet, Froze, Thawed, GuardChanged, RecoveryInv,
           Recoverable
<1>2. Spec => [][(journal_file \ journal_file') \cap FrozenInstances = {}]_vars
  BY <1>1, RecoveryInvHolds, TypeCorrect, PTL DEF Spec
<1> QED
  BY <1>2 DEF RecordRemovedOnlyAfterResume

-----------------------------------------------------------------------------
(* Whoever does not suspend freezes nothing.                               *)
LEMMA CreationTimeStays ==
  ASSUME TypeOK, [Next]_vars, ~ProcessStep
  PROVE  UNCHANGED creation_time
<1>0. Generation \subseteq Runner /\ 0 \in Runner
  BY BoundAssumption DEF Generation, Runner
<1>1. CASE Loop /\ ~GuardVanishes
  BY <1>1, LoopStays
<1>2. CASE GuardVanishes \/ GuardStarts \/ UNCHANGED vars
  BY <1>2 DEF GuardVanishes, GuardStarts, vars, processVars
<1>3. CASE Startup
  BY <1>0, <1>2, <1>3, RecoverEffect
     DEF Startup, RecoverStale, StaleRecovered, InitJournal, LaunchBroker,
         AwaitBroker, SetUp, StartupFrame, processVars
<1>4. CASE \E g \in Generation : BrokerStep(g) \/ BrokerDeath(g)
  BY <1>0, <1>4, RecoverEffect
     DEF BrokerStep, BrokerDeath, run_recovery_broker, BrokerOpensGuard,
         BrokerSeesGuardExit, BrokerReturns, BrokerDies, processVars
<1> QED
  BY <1>1, <1>2, <1>3, <1>4
     DEF Next, GuardStep, GuardCrashes, run_browser_guard

LEMMA OthersFreezeNothing ==
  ASSUME TypeOK, TypeOK', [Next]_vars, ~SuspendCurrent, ~HeartbeatSuspends
  PROVE  FrozenInstances' \subseteq FrozenInstances
<1>0. /\ suspend_count \in [Pid -> Nat] /\ suspend_count' \in [Pid -> Nat]
      /\ alive \subseteq Pid /\ alive' \subseteq Pid
      /\ creation_time \in [Pid -> Nat]
      /\ \A p \in Pid \ alive : suspend_count[p] = 0
  BY BoundAssumption DEF TypeOK, ProcessesTypeOK
<1>1. \A p \in Pid : suspend_count'[p] <= suspend_count[p]
  BY <1>0, OnlyTheGuardSuspends DEF vars, processVars
<1>2. ASSUME NEW p \in Frozen'
      PROVE  p \in Frozen /\ creation_time'[p] = creation_time[p]
  <2>1. p \in Pid /\ p \in alive /\ p \in Frozen
    BY <1>0, <1>1, <1>2 DEF Frozen
  <2>2. CASE ProcessStep
    BY <1>0, <2>1, <2>2 DEF ProcessStep, ProcessStarts, ProcessExits
  <2> QED
    BY <2>1, <2>2, CreationTimeStays
<1> QED
  BY <1>2 DEF FrozenInstances, InstanceOf

LEMMA NothingFrozen == (Frozen = {}) <=> (FrozenInstances = {})
BY DEF FrozenInstances

(* A broker at work keeps every frozen process among what it has still to  *)
(* resume, even where it gives a record up: the process is gone then.      *)
Holds(g) ==
  /\ call[g].step # "idle"
  /\ call[g].step \in {"check", "attempt", "resume"}
       => FrozenInstances \subseteq call[g].left \cup call[g].current
  /\ call[g].step = "returned" => Frozen = {}

LEMMA RecoverHolds ==
  ASSUME BrokersWork, TypeOK, IdentityInv, FrozenInv, CallInv, Recoverable,
         NEW g \in Generation, bg_recover_journal_file(g), Holds(g)
  PROVE  Holds(g)'
<1> USE DEF Holds
<1>0. /\ g \in Runner /\ call \in [Runner -> Call]
      /\ suspend_count \in [Pid -> Nat] /\ alive \subseteq Pid
  BY BoundAssumption
     DEF Generation, Runner, TypeOK, BrokerTypeOK, ProcessesTypeOK
<1>1. ASSUME UNCHANGED processVars
      PROVE  Frozen' = Frozen /\ FrozenInstances' = FrozenInstances
  BY <1>1 DEF processVars, Frozen, FrozenInstances, InstanceOf
<1>2. ASSUME NEW rec \in call[g].current, UNCHANGED processVars,
             rec \notin FrozenInstances,
             call[g].step \in {"attempt", "resume"}, AttemptFailed(g)
      PROVE  Holds(g)'
  <2>1. call[g].current = {rec}
    BY <1>0, <1>2 DEF CallInv
  <2>2. FrozenInstances \subseteq call[g].left
    BY <1>2, <2>1
  <2>3. /\ call'[g].step \in {"check", "attempt"}
        /\ call'[g].left = call[g].left
    BY <1>0, <1>2 DEF AttemptFailed, Call
  <2> QED
    BY <1>1, <1>2, <2>2, <2>3
<1>3. CASE LoadFails(g)
  BY <1>3 DEF LoadFails, BrokersWork
<1>4. CASE LoadJournal(g)
  <2>1. call'[g].step = "check" /\ call'[g].left = journal_file
    BY <1>0, <1>4 DEF LoadJournal, Call
  <2> QED
    BY <1>1, <1>4, <2>1 DEF LoadJournal, Recoverable
<1>5. CASE CheckRecord(g)
  <2>1. PICK rec \in call[g].left, matches \in BOOLEAN :
          /\ matches \in bg_recovery_record_matches_process(rec)
          /\ call' = [call EXCEPT ![g] =
                        [step |-> IF matches THEN "attempt" ELSE "check",
                         left |-> @.left \ {rec},
                         current |-> IF matches THEN {rec} ELSE {},
                         attempt |-> 0,
                         all_resolved |-> @.all_resolved]]
    BY <1>5 DEF CheckRecord, bg_recovery_record_matches_process
  <2>2. ~matches => rec \notin FrozenInstances
    BY <2>1
       DEF bg_recovery_record_matches_process, BrokersWork, BenignFaults,
           FrozenInstances, Frozen, InstanceOf
  <2>3. FrozenInstances \subseteq call[g].left
    BY <1>0, <1>5 DEF CheckRecord, CallInv
  <2>4. /\ call'[g].step = IF matches THEN "attempt" ELSE "check"
        /\ call'[g].left = call[g].left \ {rec}
        /\ call'[g].current = IF matches THEN {rec} ELSE {}
    BY <1>0, <2>1
  <2> QED
    BY <1>1, <1>5, <2>2, <2>3, <2>4 DEF CheckRecord
<1>6. CASE AttemptResume(g)
  <2>1. PICK rec \in call[g].current, matches \in BOOLEAN :
          /\ matches \in bg_recovery_record_matches_process(rec)
          /\ IF matches THEN call' = [call EXCEPT ![g].step = "resume"]
                        ELSE AttemptFailed(g)
    BY <1>6 DEF AttemptResume, bg_recovery_record_matches_process
  <2>2. CASE matches
    BY <1>0, <1>1, <1>6, <2>1, <2>2 DEF AttemptResume, Call
  <2>3. CASE ~matches
    <3>1. rec \notin FrozenInstances
      BY <2>1, <2>3
         DEF bg_recovery_record_matches_process, BrokersWork, BenignFaults,
             FrozenInstances, Frozen, InstanceOf
    <3> QED
      BY <1>2, <1>6, <2>1, <2>3, <3>1 DEF AttemptResume
  <2> QED
    BY <2>2, <2>3
<1>7. CASE ResumeRecord(g)
  <2>1. PICK rec \in call[g].current, ok \in BOOLEAN :
          /\ NtResumeProcess(rec.pid, ok)
          /\ IF ok THEN call' = [call EXCEPT ![g].step = "check",
                                             ![g].current = {},
                                             ![g].attempt = 0]
                   ELSE AttemptFailed(g)
    BY <1>7 DEF ResumeRecord
  <2>2. rec.pid \in Pid /\ rec = InstanceOf(rec.pid)
    BY <1>0, <2>1 DEF Call, BgRecoveryRecord, IdentityInv
  <2>3. CASE ok
    <3>1. Frozen' = Frozen \ {rec.pid} /\ UNCHANGED creation_time
      BY <2>1, <2>2, <2>3, ResumeEffect DEF FrozenInv
    <3>2. FrozenInstances' \subseteq FrozenInstances \ {rec}
      BY <2>2, <3>1 DEF FrozenInstances, InstanceOf
    <3>3. call[g].current = {rec} /\ call[g].step = "resume"
      BY <1>0, <1>7, <2>1 DEF CallInv, ResumeRecord
    <3>4. call'[g].step = "check" /\ call'[g].left = call[g].left
      BY <1>0, <2>1, <2>3 DEF Call
    <3> QED
      BY <3>2, <3>3, <3>4
  <2>4. CASE ~ok
    <3>1. UNCHANGED processVars /\ rec.pid \notin alive
      BY <2>1, <2>4 DEF NtResumeProcess, BrokersWork
    <3>2. rec \notin FrozenInstances
      BY <3>1 DEF FrozenInstances, Frozen, InstanceOf
    <3> QED
      BY <1>2, <1>7, <2>1, <2>4, <3>1, <3>2 DEF ResumeRecord
  <2> QED
    BY <2>3, <2>4
<1>8. CASE FinishRecovery(g)
  <2>1. /\ call'[g].step = "returned" /\ UNCHANGED processVars
        /\ call[g].step = "check" /\ call[g].left = {}
    BY <1>0, <1>8 DEF FinishRecovery, Call
  <2>2. FrozenInstances = {}
    BY <1>0, <2>1 DEF CallInv
  <2> QED
    BY <1>1, <2>1, <2>2, NothingFrozen
<1> QED
  BY <1>3, <1>4, <1>5, <1>6, <1>7, <1>8 DEF bg_recover_journal_file

-----------------------------------------------------------------------------
LEMMA WatchStep ==
  ASSUME BrokersWork, TypeOK, TypeOK', RecoveryInv, WatchInv, [Next]_vars
  PROVE  WatchInv'
<1> USE DEF WatchInv
<1>0. /\ BenignFaults /\ SeparationInv /\ BrokerInv /\ ArmedInv
      /\ IdentityInv /\ FrozenInv /\ CallInv /\ Recoverable
      /\ broker \in [Generation -> BrokerStages] /\ call \in [Runner -> Call]
      /\ ready \subseteq Generation /\ launched \in Runner
      /\ launched' \in Runner /\ Runner \subseteq Nat
      /\ Generation = Runner \ {0} /\ 0 \in Runner
  BY BoundAssumption
     DEF BrokersWork, RecoveryInv, SeparationInv, TypeOK, BrokerTypeOK,
         GuardTypeOK, Runner, Generation
<1>1. ~SuspendCurrent /\ ~HeartbeatSuspends
        => /\ FrozenInstances' \subseteq FrozenInstances
           /\ Frozen = {} => Frozen' = {}
  BY OthersFreezeNothing DEF FrozenInstances
<1>2. ASSUME UNCHANGED <<brokerVars, pc, launched>>,
             ~SuspendCurrent, ~HeartbeatSuspends
      PROVE  WatchInv'
  BY <1>1, <1>2 DEF brokerVars
<1>3. ASSUME pc = "suspend" \/ pc = "resuspend"
      PROVE  pc # "down" /\ pc \in LoopStages
  BY <1>3 DEF LoopStages
<1>4. CASE ProcessStep \/ UNCHANGED vars
  <2>1. UNCHANGED <<brokerVars, pc, launched>>
    BY <1>4 DEF ProcessStep, vars, guardVars, controlVars
  <2>2. CASE ~SuspendCurrent /\ ~HeartbeatSuspends
    BY <1>2, <2>1, <2>2
  <2>3. CASE SuspendCurrent \/ HeartbeatSuspends
    <3>1. pc' # pc
      BY <2>3
         DEF SuspendCurrent, HeartbeatSuspends, HeartbeatGivesUp,
             UnregisterThen
    <3> QED
      BY <2>1, <3>1
  <2> QED
    BY <2>2, <2>3
<1>5. CASE Loop /\ ~GuardVanishes
  <2>1. /\ UNCHANGED <<broker, ready, call, launched>>
        /\ pc # "down"
        /\ pc' \notin {"down", "recover", "init", "launch"}
    BY <1>5, LoopStays DEF LoopStages
  <2>2. CASE ~SuspendCurrent /\ ~HeartbeatSuspends
    BY <1>1, <2>1, <2>2
  <2>3. CASE SuspendCurrent \/ HeartbeatSuspends
    <3>1. launched \in ready
      BY <1>0, <2>1, <2>3
         DEF SeparationInv, BrokerInv, ArmedInv, SuspendCurrent,
             HeartbeatSuspends
    <3>2. \A g \in Generation : call[g].step = "idle"
      BY <1>0, <2>1 DEF SeparationInv, BrokerInv
    <3> QED
      BY <1>0, <2>1, <3>1, <3>2
  <2> QED
    BY <2>2, <2>3
<1>6. CASE GuardVanishes
  <2>1. /\ UNCHANGED <<broker, ready, launched, Frozen, FrozenInstances>>
        /\ pc' = "down" /\ \A g \in Generation : call'[g] = call[g]
    BY <1>0, <1>6
       DEF GuardVanishes, processVars, Frozen, FrozenInstances, InstanceOf
  <2> QED
    BY <2>1
<1>7. CASE GuardStarts
  <2>1. /\ UNCHANGED <<broker, ready, Frozen, FrozenInstances>>
        /\ launched' = launched + 1
        /\ \A g \in Generation : call'[g] = call[g]
        /\ \A g \in Generation : BrokerFinished(g)
    BY <1>0, <1>7
       DEF GuardStarts, processVars, Frozen, FrozenInstances, InstanceOf,
           BenignFaults
  <2>2. Frozen = {}
    BY <2>1 DEF BrokerFinished
  <2>3. launched' \in Generation /\ broker[launched'] = "absent"
    BY <1>0, <2>1 DEF BrokerInv
  <2> QED
    BY <1>0, <2>1, <2>2, <2>3
<1>8. CASE Startup
  <2>0. pc \notin {"suspend", "resuspend", "down"} \/ GuardVanishes
    BY <1>8
       DEF Startup, RecoverStale, StaleRecovered, InitJournal, LaunchBroker,
           AwaitBroker, SetUp
  <2>1. CASE RecoverStale
    <3>1. UNCHANGED <<broker, ready, pc, launched>>
      BY <2>1
         DEF RecoverStale, bg_recover_journal_file, guardVars, controlVars
    <3>2. \A g \in Generation : call'[g] = call[g]
      BY <1>0, <2>1, RecoverEffect DEF RecoverStale
    <3>3. ~SuspendCurrent /\ ~HeartbeatSuspends
      BY <2>1 DEF RecoverStale, SuspendCurrent, HeartbeatSuspends
    <3> QED
      BY <1>1, <3>1, <3>2, <3>3
  <2>2. CASE LaunchBroker
    <3>1. /\ UNCHANGED <<ready, call, launched, Frozen, FrozenInstances>>
          /\ pc' \in {"wait", "setup"} /\ guard_process = launched
          /\ \/ broker' = [broker EXCEPT ![launched] = "starting"]
             \/ broker' = broker
      BY <1>0, <2>2
         DEF LaunchBroker, StartupFrame, processVars, Frozen,
             FrozenInstances, InstanceOf, SeparationInv, BrokerInv
    <3>2. /\ launched \in Generation /\ broker[launched] = "absent"
          /\ Frozen = {} /\ launched \notin ready
      BY <1>0, <2>2 DEF LaunchBroker, SeparationInv, BrokerInv
    <3> QED
      BY <1>0, <3>1, <3>2
  <2>3. CASE StaleRecovered \/ InitJournal \/ AwaitBroker
             \/ (SetUp /\ ~GuardVanishes)
    <3>1. /\ UNCHANGED <<broker, ready, launched, Frozen, FrozenInstances>>
          /\ \A g \in Generation : call'[g] = call[g]
      BY <1>0, <2>3
         DEF StaleRecovered, InitJournal, AwaitBroker, SetUp, StartupFrame,
             processVars, brokerVars, Frozen, FrozenInstances, InstanceOf
    <3>2. /\ pc # "down"
          /\ \/ pc' \notin {"recover", "init", "launch"}
             \/ pc \in {"recover", "init", "launch"}
      BY <2>3 DEF StaleRecovered, InitJournal, AwaitBroker, SetUp
    <3> QED
      BY <3>1, <3>2
  <2> QED
    BY <1>6, <1>8, <2>1, <2>2, <2>3 DEF Startup, SetUp
<1>9. ASSUME NEW g \in Generation, BrokerStep(g) \/ BrokerDeath(g)
      PROVE  WatchInv'
  <2>0. UNCHANGED <<pc, launched>>
    BY <1>9 DEF BrokerStep, BrokerDeath, guardVars, controlVars
  <2>1. CASE bg_recover_journal_file(g)
    <3>1. /\ UNCHANGED <<broker, ready>>
          /\ \A h \in Generation : h # g => call'[h] = call[h]
      BY <1>0, <2>1, RecoverEffect
    <3>2. call[g].step # "idle"
      BY <2>1
         DEF bg_recover_journal_file, LoadFails, LoadJournal, CheckRecord,
             AttemptResume, ResumeRecord, FinishRecovery
    <3>3. /\ broker[g] = "recovering" /\ pc = "down"
          /\ Holds(g)
      BY <1>0, <3>2 DEF SeparationInv, BrokerInv, Holds
    <3>4. Holds(g)'
      BY <1>0, <2>1, <3>3, RecoverHolds
    <3>5. ~SuspendCurrent /\ ~HeartbeatSuspends
      BY <3>3 DEF SuspendCurrent, HeartbeatSuspends
    <3> QED
      BY <1>1, <2>0, <3>1, <3>4, <3>5 DEF Holds
  <2>2. CASE \/ BrokerOpensGuard(g) \/ BrokerSeesGuardExit(g)
             \/ BrokerReturns(g) \/ BrokerDies(g)
    <3>1. UNCHANGED <<Frozen, FrozenInstances>> /\ ~BrokerDies(g)
      BY <2>2
         DEF BrokerOpensGuard, BrokerSeesGuardExit, BrokerReturns, BrokerDies,
             processVars, Frozen, FrozenInstances, InstanceOf, BrokersWork
    <3>2. CASE BrokerOpensGuard(g)
      BY <1>0, <2>0, <3>1, <3>2 DEF BrokerOpensGuard, SeparationInv, BrokerInv
    <3>3. CASE BrokerSeesGuardExit(g)
      BY <1>0, <2>0, <3>1, <3>3
         DEF BrokerSeesGuardExit, SeparationInv, BrokerInv, Called
    <3>4. CASE BrokerReturns(g)
      BY <1>0, <2>0, <3>1, <3>4
         DEF BrokerReturns, SeparationInv, BrokerInv, NoCall
    <3> QED
      BY <2>2, <3>1, <3>2, <3>3, <3>4
  <2> QED
    BY <1>9, <2>1, <2>2 DEF BrokerStep, BrokerDeath, run_recovery_broker
<1> QED
  BY <1>4, <1>5, <1>6, <1>7, <1>8, <1>9
     DEF Next, GuardStep, GuardCrashes, run_browser_guard

(* docs/safety.md's independent recovery path, for any number of processes *)
(* and guards: whatever is frozen is in the hands of a broker that waits   *)
(* for the guard to exit or has still to resume all of it - where reading  *)
(* the journal and resuming a live process do not fail and no broker dies. *)
THEOREM FrozenAlwaysWatched == BrokersWork => (Spec => []FrozenIsWatched)
<1> SUFFICES ASSUME BrokersWork PROVE Spec => []FrozenIsWatched
  OBVIOUS
<1>0. BenignFaults
  BY DEF BrokersWork
<1>1. Init => WatchInv
  <2> SUFFICES ASSUME Init PROVE WatchInv
    OBVIOUS
  <2>1. Frozen = {} /\ Generation \subseteq Runner
    BY BoundAssumption DEF Init, ProcessesInit, Frozen, Generation, Runner
  <2>2. \A g \in Generation : broker[g] = "absent" /\ call[g].step = "idle"
    BY <2>1 DEF Init, BrokerInit, NoCall
  <2> QED
    BY <2>1, <2>2 DEF Init, BrokerInit, GuardInit, WatchInv
<1>2. TypeOK /\ TypeOK' /\ RecoveryInv /\ WatchInv /\ [Next]_vars => WatchInv'
  BY WatchStep
<1>3. TypeOK /\ RecoveryInv /\ WatchInv => FrozenIsWatched
  <2> SUFFICES ASSUME TypeOK, RecoveryInv, WatchInv, Frozen # {}
               PROVE  FrozenIsWatched
    BY DEF FrozenIsWatched
  <2>1. /\ launched \in Generation
        /\ broker[launched] \in {"waiting", "recovering"}
    BY DEF WatchInv
  <2>2. broker[launched] = "recovering"
          => call[launched].step \in {"load", "check", "attempt", "resume"}
    BY <2>1, BoundAssumption
       DEF WatchInv, RecoveryInv, SeparationInv, BrokerInv, TypeOK,
           BrokerTypeOK, Generation, Runner, Call, CallSteps
  <2> QED
    BY <2>1, <2>2 DEF WatchInv, FrozenIsWatched
<1> QED
  BY <1>0, <1>1, <1>2, <1>3, RecoveryInvHolds, TypeCorrect, PTL DEF Spec
=============================================================================
