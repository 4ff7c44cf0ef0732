----------------------- MODULE RecoveryAnyFault_proof -----------------------
(***************************************************************************)
(* What holds of the recovery core under every failure, for every set of   *)
(* process identifiers and every bound: its types; that an entry marked    *)
(* suspended is journaled, and nothing suspended without a broker; that    *)
(* brokers come nearer to their exit with every step; and that the guard's *)
(* table and its journal are used as EntryLife and JournalSet allow.       *)
(***************************************************************************)
EXTENDS RecoveryInvariants, FiniteSetTheorems, TLAPS

(* Opening, suspending and resuming a process keeps the table of processes *)
(* well formed.                                                            *)
LEMMA SuspendKeepsType ==
  ASSUME ProcessesTypeOK, NEW p \in Pid, NEW ok \in BOOLEAN,
         NtSuspendProcess(p, ok)
  PROVE  ProcessesTypeOK'
BY BoundAssumption
   DEF ProcessesTypeOK, NtSuspendProcess, processVars

LEMMA ResumeKeepsType ==
  ASSUME ProcessesTypeOK, NEW p \in Pid, NEW ok \in BOOLEAN,
         NtResumeProcess(p, ok)
  PROVE  ProcessesTypeOK'
BY BoundAssumption
   DEF ProcessesTypeOK, NtResumeProcess, processVars

(* A record that is queried is a record.                                   *)
LEMMA QueryFindsRecord ==
  ASSUME ProcessesTypeOK, NEW p \in Pid, NEW found \in query_recovery_record(p)
  PROVE  found \subseteq BgRecoveryRecord
BY BoundAssumption
   DEF ProcessesTypeOK, query_recovery_record, InstanceOf, BgRecoveryRecord

LEMMA RegisterKeepsType ==
  ASSUME JournalTypeOK, NEW p, NEW found, found \subseteq BgRecoveryRecord,
         NEW registered \in BOOLEAN,
         bg_recovery_journal_register(p, found, registered)
  PROVE  JournalTypeOK'
BY DEF JournalTypeOK, bg_recovery_journal_register, persist_journal,
       journalVars

LEMMA UnregisterKeepsType ==
  ASSUME JournalTypeOK, NEW p, bg_recovery_journal_unregister(p)
  PROVE  JournalTypeOK'
BY DEF JournalTypeOK, bg_recovery_journal_unregister, persist_journal,
       journalVars

-----------------------------------------------------------------------------
(* A step of bg_recover_journal_file keeps everything it touches typed.    *)
LEMMA RecoverKeepsType ==
  ASSUME TypeOK, NEW r \in Runner, bg_recover_journal_file(r)
  PROVE  /\ ProcessesTypeOK'
         /\ JournalTypeOK'
         /\ BrokerTypeOK'
<1> USE BoundAssumption
<1> USE DEF TypeOK
<1>0. /\ call \in [Runner -> Call]
      /\ call[r] \in Call
      /\ UNCHANGED <<guard_process, broker, ready>>
  BY DEF BrokerTypeOK, bg_recover_journal_file
<1>1. SUFFICES /\ ProcessesTypeOK'
               /\ JournalTypeOK'
               /\ call' \in [Runner -> Call]
  BY <1>0 DEF BrokerTypeOK
<1>2. ASSUME AttemptFailed(r)
      PROVE  call' \in [Runner -> Call]
  BY <1>0, <1>2 DEF AttemptFailed, Call, CallSteps
<1>3. CASE LoadFails(r)
  BY <1>0, <1>3
     DEF LoadFails, Call, CallSteps, processVars, journalVars,
         ProcessesTypeOK, JournalTypeOK
<1>4. CASE LoadJournal(r)
  BY <1>0, <1>4
     DEF LoadJournal, Call, CallSteps, processVars, journalVars,
         ProcessesTypeOK, JournalTypeOK
<1>5. CASE CheckRecord(r)
  <2>1. call' \in [Runner -> Call]
    <3>1. PICK rec \in call[r].left, matches \in BOOLEAN :
             call' = [call EXCEPT ![r] =
                        [step |-> IF matches THEN "attempt" ELSE "check",
                         left |-> @.left \ {rec},
                         current |-> IF matches THEN {rec} ELSE {},
                         attempt |-> 0,
                         all_resolved |-> @.all_resolved]]
      BY <1>5 DEF CheckRecord, bg_recovery_record_matches_process
    <3>2. {rec} \subseteq BgRecoveryRecord
      BY <1>0, <3>1 DEF Call
    <3> QED
      BY <1>0, <3>1, <3>2 DEF Call, CallSteps
  <2> QED
    BY <1>5, <2>1
       DEF CheckRecord, processVars, journalVars, ProcessesTypeOK,
           JournalTypeOK
<1>6. CASE AttemptResume(r)
  <2>1. CASE AttemptFailed(r)
    BY <1>2, <1>6, <2>1
       DEF AttemptResume, processVars, journalVars, ProcessesTypeOK,
           JournalTypeOK
  <2>2. CASE call' = [call EXCEPT ![r].step = "resume"]
    BY <1>0, <1>6, <2>2
       DEF AttemptResume, Call, CallSteps, processVars, journalVars,
           ProcessesTypeOK, JournalTypeOK
  <2> QED
    BY <1>6, <2>1, <2>2 DEF AttemptResume
<1>7. CASE ResumeRecord(r)
  <2>1. PICK rec \in call[r].current, ok \in BOOLEAN :
          /\ NtResumeProcess(rec.pid, ok)
          /\ IF ok THEN call' = [call EXCEPT ![r].step = "check",
                                             ![r].current = {},
                                             ![r].attempt = 0]
                   ELSE AttemptFailed(r)
    BY <1>7 DEF ResumeRecord
  <2>2. rec.pid \in Pid
    BY <1>0, <2>1 DEF Call, BgRecoveryRecord
  <2>3. ProcessesTypeOK'
    BY <2>1, <2>2, ResumeKeepsType
  <2>4. call' \in [Runner -> Call]
    BY <1>0, <1>2, <2>1 DEF Call, CallSteps
  <2> QED
    BY <1>7, <2>3, <2>4 DEF ResumeRecord, journalVars, JournalTypeOK
<1>8. CASE FinishRecovery(r)
  BY <1>0, <1>8
     DEF FinishRecovery, Call, CallSteps, processVars, ProcessesTypeOK,
         JournalTypeOK
<1> QED
  BY <1>3, <1>4, <1>5, <1>6, <1>7, <1>8 DEF bg_recover_journal_file

-----------------------------------------------------------------------------
LEMMA CallsTyped == NoCall \in Call /\ Called \in Call
BY BoundAssumption DEF NoCall, Called, Call, CallSteps

LEMMA InitTyped == Init => TypeOK
<1> SUFFICES ASSUME Init PROVE TypeOK
  OBVIOUS
<1>1. ProcessesTypeOK /\ JournalTypeOK
  BY BoundAssumption
     DEF Init, ProcessesInit, ProcessesTypeOK, JournalInit, JournalTypeOK
<1>2. BrokerTypeOK
  <2>1. guard_process \in Runner /\ ready \subseteq Generation
    BY BoundAssumption DEF Init, BrokerInit, Runner
  <2>2. broker \in [Generation -> BrokerStages]
    BY DEF Init, BrokerInit, BrokerStages
  <2>3. call \in [Runner -> Call]
    <3> DEFINE idle == NoCall
    <3>1. call = [r \in Runner |-> idle] /\ idle \in Call
      BY CallsTyped DEF Init, BrokerInit
    <3> HIDE DEF idle
    <3> QED
      BY <3>1
  <2> QED
    BY <2>1, <2>2, <2>3 DEF BrokerTypeOK
<1>3. GuardTypeOK
  <2>1. launched \in Runner
    BY BoundAssumption DEF Init, GuardInit, Runner
  <2>2. leaving \in BOOLEAN /\ active_recovery_journal \in BOOLEAN
    BY DEF Init, GuardInit
  <2> QED
    BY <2>1, <2>2 DEF Init, GuardInit, GuardTypeOK, Stages
<1> QED
  BY <1>1, <1>2, <1>3 DEF TypeOK

LEMMA ProcessStepTyped ==
  ASSUME TypeOK, ProcessStep
  PROVE  TypeOK'
<1>1. PICK p \in Pid : ProcessStarts(p) \/ ProcessExits(p)
  BY DEF ProcessStep
<1>2. ProcessesTypeOK'
  BY <1>1, BoundAssumption
     DEF TypeOK, ProcessesTypeOK, ProcessStarts, ProcessExits
<1> QED
  BY <1>2
     DEF TypeOK, ProcessStep, journalVars, brokerVars, guardVars, trackedVars,
         controlVars, loopVars, JournalTypeOK, BrokerTypeOK, GuardTypeOK

LEMMA BrokerTyped ==
  ASSUME TypeOK, NEW g \in Generation, BrokerStep(g) \/ BrokerDeath(g)
  PROVE  TypeOK'
<1>1. GuardTypeOK'
  BY DEF BrokerStep, BrokerDeath, TypeOK, GuardTypeOK, guardVars, trackedVars,
         controlVars, loopVars
<1>2. g \in Runner
  BY BoundAssumption DEF Generation, Runner
<1>4. CASE bg_recover_journal_file(g)
  BY <1>1, <1>2, <1>4, RecoverKeepsType DEF TypeOK
<1>5. CASE \/ BrokerOpensGuard(g)
           \/ BrokerSeesGuardExit(g)
           \/ BrokerReturns(g)
           \/ BrokerDies(g)
  <2>1. ProcessesTypeOK' /\ JournalTypeOK'
    BY <1>5
       DEF TypeOK, ProcessesTypeOK, JournalTypeOK, processVars, journalVars,
           BrokerOpensGuard, BrokerSeesGuardExit, BrokerReturns, BrokerDies
  <2>2. BrokerTypeOK'
    BY <1>2, <1>5, CallsTyped
       DEF TypeOK, BrokerTypeOK, BrokerStages, BrokerOpensGuard,
           BrokerSeesGuardExit, BrokerReturns, BrokerDies
  <2> QED
    BY <1>1, <2>1, <2>2 DEF TypeOK
<1> QED
  BY <1>4, <1>5 DEF BrokerStep, BrokerDeath, run_recovery_broker

LEMMA GuardVanishesTyped ==
  ASSUME TypeOK, GuardVanishes
  PROVE  TypeOK'
<1>1. NoCall \in Call /\ 0 \in Runner
  BY CallsTyped, BoundAssumption DEF Runner
<1> QED
  BY <1>1
     DEF TypeOK, GuardVanishes, processVars, ProcessesTypeOK, JournalTypeOK,
         BrokerTypeOK, GuardTypeOK, Stages

LEMMA GuardStartsTyped ==
  ASSUME TypeOK, GuardStarts
  PROVE  TypeOK'
<1>1. Called \in Call /\ 0 \in Runner
  BY CallsTyped, BoundAssumption DEF Runner
<1>2. launched' \in Runner /\ guard_process' \in Runner
  BY BoundAssumption DEF TypeOK, GuardTypeOK, GuardStarts, Runner
<1> QED
  BY <1>1, <1>2
     DEF TypeOK, GuardStarts, processVars, journalVars, trackedVars, loopVars,
         ProcessesTypeOK, JournalTypeOK, BrokerTypeOK, GuardTypeOK, Stages

LEMMA StartupTyped ==
  ASSUME TypeOK, Startup
  PROVE  TypeOK'
<1> USE DEF TypeOK, StartupFrame, processVars, trackedVars, loopVars,
            ProcessesTypeOK, GuardTypeOK, Stages
<1>1. NoCall \in Call /\ 0 \in Runner
  BY CallsTyped, BoundAssumption DEF Runner
<1>2. CASE RecoverStale
  BY <1>1, <1>2, RecoverKeepsType
     DEF RecoverStale, guardVars, controlVars
<1>3. CASE StaleRecovered
  BY <1>1, <1>3
     DEF StaleRecovered, journalVars, JournalTypeOK, BrokerTypeOK
<1>4. CASE InitJournal
  BY <1>4
     DEF InitJournal, bg_recovery_journal_init, brokerVars, JournalTypeOK,
         BrokerTypeOK
<1>5. CASE LaunchBroker
  BY <1>5
     DEF LaunchBroker, journalVars, JournalTypeOK, BrokerTypeOK, BrokerStages
<1>6. CASE AwaitBroker
  BY <1>6
     DEF AwaitBroker, journalVars, brokerVars, JournalTypeOK, BrokerTypeOK
<1>7. CASE SetUp
  <2>1. CASE GuardVanishes
    BY <2>1, GuardVanishesTyped
  <2>2. CASE ~GuardVanishes
    BY <1>7, <2>2
       DEF SetUp, journalVars, brokerVars, JournalTypeOK, BrokerTypeOK
  <2> QED
    BY <2>1, <2>2
<1> QED
  BY <1>2, <1>3, <1>4, <1>5, <1>6, <1>7 DEF Startup

LEMMA LoopTyped ==
  ASSUME TypeOK, Loop
  PROVE  TypeOK'
<1> USE DEF TypeOK, GuardTypeOK, Stages, LoopFrame, Goto, CallOn,
            UnregisterThen, trackedVars
<1>1. BrokerTypeOK' \/ GuardVanishes
  BY DEF Loop, StopRequested, ResumeRequested, PassBegins, DrainOne, DrainDone,
         Scan, EnsureGroupState, NoRoom, KeepAsIs, Register, Resume,
         HeartbeatResumes, Visit, SuspendCurrent, HeartbeatProbes,
         HeartbeatSuspends, Unregister, CleanupBegins, CleanupOne,
         CleanupDone, BrokerTypeOK, brokerVars
<1>2. CASE GuardVanishes
  BY <1>2, GuardVanishesTyped
<1> SUFFICES ASSUME ~GuardVanishes
             PROVE  ProcessesTypeOK' /\ JournalTypeOK' /\ GuardTypeOK'
  BY <1>1, <1>2
<1>3. CASE StopRequested \/ ResumeRequested \/ PassBegins \/ DrainDone
  BY <1>3
     DEF StopRequested, ResumeRequested, PassBegins, DrainDone, processVars,
         journalVars, ProcessesTypeOK, JournalTypeOK
<1>4. CASE DrainOne
  <2>1. ProcessesTypeOK'
    BY <1>4, ResumeKeepsType DEF DrainOne
  <2> QED
    BY <1>4, <2>1 DEF DrainOne, journalVars, JournalTypeOK
<1>5. CASE Scan
  BY <1>5
     DEF Scan, processVars, journalVars, ProcessesTypeOK, JournalTypeOK
<1>6. ASSUME NEW p \in Pid, NoRoom(p) \/ KeepAsIs(p)
      PROVE  ProcessesTypeOK' /\ JournalTypeOK' /\ GuardTypeOK'
  BY <1>6
     DEF NoRoom, KeepAsIs, Visit, processVars, journalVars, ProcessesTypeOK,
         JournalTypeOK
<1>7. ASSUME NEW p \in Pid, Register(p)
      PROVE  ProcessesTypeOK' /\ JournalTypeOK' /\ GuardTypeOK'
  <2>1. JournalTypeOK'
    BY <1>7, QueryFindsRecord, RegisterKeepsType
       DEF Register, journalVars, JournalTypeOK
  <2> QED
    BY <1>7, <2>1 DEF Register, Visit, processVars, ProcessesTypeOK
<1>8. ASSUME NEW p \in Pid, Resume(p) \/ HeartbeatResumes(p)
      PROVE  ProcessesTypeOK' /\ JournalTypeOK' /\ GuardTypeOK'
  <2>1. ProcessesTypeOK'
    BY <1>8, ResumeKeepsType DEF Resume, HeartbeatResumes
  <2> QED
    BY <1>8, <2>1
       DEF Resume, HeartbeatResumes, Visit, journalVars, JournalTypeOK
<1>9. CASE SuspendCurrent \/ HeartbeatSuspends
  <2>1. ProcessesTypeOK'
    BY <1>9, SuspendKeepsType DEF SuspendCurrent, HeartbeatSuspends
  <2> QED
    BY <1>9, <2>1
       DEF SuspendCurrent, HeartbeatSuspends, HeartbeatGivesUp, journalVars,
           JournalTypeOK
<1>10. CASE HeartbeatProbes
  BY <1>10
     DEF HeartbeatProbes, HeartbeatGivesUp, processVars, journalVars,
         ProcessesTypeOK, JournalTypeOK
<1>11. CASE Unregister
  <2>1. JournalTypeOK'
    BY <1>11, UnregisterKeepsType DEF Unregister, journalVars, JournalTypeOK
  <2> QED
    BY <1>11, <2>1 DEF Unregister, processVars, ProcessesTypeOK
<1>12. CASE CleanupBegins \/ CleanupDone
  BY <1>12
     DEF CleanupBegins, CleanupDone, processVars, journalVars,
         ProcessesTypeOK, JournalTypeOK
<1>13. CASE CleanupOne
  <2>1. ProcessesTypeOK'
    BY <1>13, ResumeKeepsType DEF CleanupOne
  <2> QED
    BY <1>13, <2>1 DEF CleanupOne, journalVars, JournalTypeOK
<1> QED
  BY <1>3, <1>4, <1>5, <1>6, <1>7, <1>8, <1>9, <1>10, <1>11, <1>12, <1>13
     DEF Loop, EnsureGroupState

-----------------------------------------------------------------------------
LEMMA NextTyped == TypeOK /\ [Next]_vars => TypeOK'
<1> SUFFICES ASSUME TypeOK, [Next]_vars PROVE TypeOK'
  OBVIOUS
<1>1. CASE GuardStep
  <2>1. CASE GuardCrashes
    BY <2>1, GuardVanishesTyped DEF GuardCrashes
  <2> QED
    BY <1>1, <2>1, GuardStartsTyped, StartupTyped, LoopTyped
       DEF GuardStep, run_browser_guard
<1>2. CASE UNCHANGED vars
  BY <1>2
     DEF TypeOK, vars, processVars, journalVars, brokerVars, guardVars,
         trackedVars, controlVars, loopVars, ProcessesTypeOK, JournalTypeOK,
         BrokerTypeOK, GuardTypeOK
<1> QED
  BY <1>1, <1>2, ProcessStepTyped, BrokerTyped DEF Next

(* Every variable of the recovery core stays within its type, whatever the *)
(* processes, the bounds and the failures.                                 *)
THEOREM TypeCorrect == Spec => []TypeOK
<1>1. Init => TypeOK
  BY InitTyped
<1>2. TypeOK /\ [Next]_vars => TypeOK'
  BY NextTyped
<1> QED
  BY <1>1, <1>2, PTL DEF Spec

-----------------------------------------------------------------------------
(* Registering never takes an identifier out of the journal, and one that  *)
(* was registered is in it.                                                *)
LEMMA RegisterAdds ==
  ASSUME NEW p \in Pid, NEW found \in query_recovery_record(p),
         NEW registered \in BOOLEAN,
         bg_recovery_journal_register(p, found, registered)
  PROVE  /\ PidsOf(records) \subseteq PidsOf(records)'
         /\ registered => p \in PidsOf(records)'
BY DEF bg_recovery_journal_register, query_recovery_record, InstanceOf,
       PidsOf, journalVars

(* Unregistering takes out no identifier but its own.                      *)
LEMMA UnregisterKeepsOthers ==
  ASSUME NEW p \in Pid, bg_recovery_journal_unregister(p)
  PROVE  PidsOf(records) \ {p} \subseteq PidsOf(records)'
BY DEF bg_recovery_journal_unregister, PidsOf, journalVars

-----------------------------------------------------------------------------
LEMMA JournaledStep == TypeOK /\ JournaledInv /\ [Next]_vars => JournaledInv'
<1> SUFFICES ASSUME TypeOK, JournaledInv, [Next]_vars PROVE JournaledInv'
  OBVIOUS
<1> USE DEF JournaledInv, SuspendedIsJournaled
<1>0. pc \in Stages /\ current \subseteq Pid
  BY DEF TypeOK, GuardTypeOK
<1>1. ASSUME UNCHANGED <<records, guardVars>> PROVE JournaledInv'
  BY <1>1 DEF guardVars, trackedVars, controlVars, loopVars, PidsOf
<1>2. CASE \/ ProcessStep
           \/ \E g \in Generation : BrokerStep(g) \/ BrokerDeath(g)
           \/ UNCHANGED vars
  BY <1>1, <1>2
     DEF ProcessStep, BrokerStep, BrokerDeath, run_recovery_broker, vars,
         journalVars, BrokerOpensGuard, BrokerSeesGuardExit, BrokerReturns,
         BrokerDies, bg_recover_journal_file, LoadFails, LoadJournal,
         CheckRecord, AttemptResume, ResumeRecord, FinishRecovery
<1>3. CASE GuardVanishes
  BY <1>3 DEF GuardVanishes, LoopStages, PidsOf
<1>4. CASE GuardStarts \/ Startup
  <2> SUFFICES ASSUME ~GuardVanishes PROVE JournaledInv'
    BY <1>3
  <2>1. suspended' = {}
    BY <1>0, <1>4
       DEF GuardStarts, Startup, RecoverStale, StaleRecovered, InitJournal,
           LaunchBroker, AwaitBroker, SetUp, StartupFrame, trackedVars,
           guardVars, LoopStages
  <2>2. pc' \notin {"suspend", "probe", "resuspend", "unregister"}
    BY <1>4
       DEF GuardStarts, Startup, RecoverStale, StaleRecovered, InitJournal,
           LaunchBroker, AwaitBroker, SetUp, guardVars
  <2> QED
    BY <2>1, <2>2
<1>5. CASE Loop
  <2> SUFFICES ASSUME ~GuardVanishes PROVE JournaledInv'
    BY <1>3
  <2> USE DEF Goto, CallOn, UnregisterThen, trackedVars, journalVars
  <2>1. CASE StopRequested \/ ResumeRequested \/ PassBegins \/ DrainDone
    BY <2>1
       DEF StopRequested, ResumeRequested, PassBegins, DrainDone, PidsOf,
           LoopStages
  <2>2. CASE DrainOne \/ Scan \/ CleanupBegins \/ CleanupOne \/ CleanupDone
    BY <2>2
       DEF DrainOne, Scan, CleanupBegins, CleanupOne, CleanupDone, PidsOf,
           LoopStages
  <2>3. ASSUME NEW p \in Pid, NoRoom(p) \/ KeepAsIs(p) PROVE JournaledInv'
    BY <2>3 DEF NoRoom, KeepAsIs, Visit, PidsOf, LoopStages
  <2>4. ASSUME NEW p \in Pid, Register(p) PROVE JournaledInv'
    <3>1. PidsOf(records) \subseteq PidsOf(records)'
      BY <2>4, RegisterAdds DEF Register, PidsOf
    <3>2. pc' = "suspend" => current' = {p} /\ p \in PidsOf(records)'
      BY <2>4, RegisterAdds DEF Register
    <3>3. /\ pc' \in {"suspend", "ensure"} /\ p \notin suspended
          /\ suspended' = suspended
      BY <2>4 DEF Register, Visit
    <3> QED
      BY <3>1, <3>2, <3>3 DEF LoopStages
  <2>5. ASSUME NEW p \in Pid, Resume(p) \/ HeartbeatResumes(p)
        PROVE  JournaledInv'
    BY <1>0, <2>5 DEF Resume, HeartbeatResumes, Visit, PidsOf, LoopStages
  <2>6. CASE SuspendCurrent
    <3>1. PICK p \in current, ok \in BOOLEAN :
            IF ok THEN suspended' = suspended \cup {p} /\ pc' = "ensure"
                  ELSE /\ suspended' = suspended
                       /\ pc' = "unregister"
                       /\ current' = {p}
      BY <2>6 DEF SuspendCurrent
    <3>2. records' = records /\ p \in PidsOf(records) /\ p \notin suspended
      BY <2>6, <3>1 DEF SuspendCurrent
    <3> QED
      BY <3>1, <3>2 DEF PidsOf, LoopStages
  <2>7. CASE HeartbeatProbes \/ HeartbeatSuspends
    BY <2>7
       DEF HeartbeatProbes, HeartbeatSuspends, HeartbeatGivesUp, PidsOf,
           LoopStages
  <2>8. CASE Unregister
    <3>1. \E p \in current : PidsOf(records) \ {p} \subseteq PidsOf(records)'
      BY <1>0, <2>8, UnregisterKeepsOthers DEF Unregister, PidsOf
    <3>2. /\ suspended' = suspended
          /\ current \cap suspended = {}
          /\ current' = {}
          /\ pc' \in {"drain", "ensure", "cleanup"}
      BY <2>8 DEF Unregister, TypeOK, GuardTypeOK
    <3> QED
      BY <3>1, <3>2 DEF LoopStages
  <2> QED
    BY <1>5, <2>1, <2>2, <2>3, <2>4, <2>5, <2>6, <2>7, <2>8
       DEF Loop, EnsureGroupState
<1> QED
  BY <1>2, <1>3, <1>4, <1>5 DEF Next, GuardStep, GuardCrashes, run_browser_guard

(* Journaling and suspending stay in step whatever fails: no process is    *)
(* suspended before its record is in memory, and none is marked suspended  *)
(* when its record is given up.                                            *)
THEOREM JournaledInvHolds == Spec => []JournaledInv
<1>1. Init => JournaledInv
  BY DEF Init, GuardInit, JournaledInv, SuspendedIsJournaled
<1>2. TypeOK /\ JournaledInv /\ [Next]_vars => JournaledInv'
  BY JournaledStep
<1> QED
  BY <1>1, <1>2, TypeCorrect, PTL DEF Spec

(* Whatever fails, every process the guard has marked suspended has a      *)
(* record for its identifier in the journal (ensure_group_state,           *)
(* run_suspend_heartbeat, resume_all_tracked, cleanup_tracked_processes).  *)
THEOREM SuspendedAlwaysJournaled == Spec => []SuspendedIsJournaled
<1>1. JournaledInv => SuspendedIsJournaled
  BY DEF JournaledInv
<1> QED
  BY <1>1, JournaledInvHolds, PTL

-----------------------------------------------------------------------------
(* A suspend count rises only in the two calls of NtSuspendProcess.        *)
LEMMA OnlyTheGuardSuspends ==
  ASSUME TypeOK, Next,
         NEW p \in Pid, suspend_count'[p] > suspend_count[p]
  PROVE  SuspendCurrent \/ HeartbeatSuspends
<1>0. suspend_count \in [Pid -> Nat]
  BY BoundAssumption DEF TypeOK, ProcessesTypeOK
<1>1. ASSUME UNCHANGED suspend_count PROVE FALSE
  BY <1>0, <1>1
<1>2. ASSUME NEW q, NEW ok, NtResumeProcess(q, ok) PROVE FALSE
  BY <1>0, <1>1, <1>2 DEF NtResumeProcess, processVars
<1>3. CASE ProcessStep
  BY <1>0, <1>1, <1>3 DEF ProcessStep, ProcessStarts, ProcessExits
<1>4. ASSUME NEW r, bg_recover_journal_file(r) PROVE FALSE
  BY <1>1, <1>2, <1>4
     DEF bg_recover_journal_file, LoadFails, LoadJournal, CheckRecord,
         AttemptResume, ResumeRecord, FinishRecovery, processVars
<1>5. CASE \E g \in Generation : BrokerStep(g) \/ BrokerDeath(g)
  BY <1>1, <1>4, <1>5
     DEF BrokerStep, BrokerDeath, run_recovery_broker, BrokerOpensGuard,
         BrokerSeesGuardExit, BrokerReturns, BrokerDies, processVars
<1>6. CASE GuardStarts \/ GuardVanishes
  BY <1>1, <1>6 DEF GuardStarts, GuardVanishes, processVars
<1>7. CASE Startup
  BY <1>1, <1>4, <1>6, <1>7
     DEF Startup, RecoverStale, StaleRecovered, InitJournal, LaunchBroker,
         AwaitBroker, SetUp, StartupFrame, processVars
<1>8. CASE Loop
  <2>1. CASE DrainOne \/ CleanupOne
    BY <1>2, <2>1 DEF DrainOne, CleanupOne
  <2>2. ASSUME NEW q \in Pid, Resume(q) \/ HeartbeatResumes(q) PROVE FALSE
    BY <1>2, <2>2 DEF Resume, HeartbeatResumes
  <2>3. ASSUME NEW q \in Pid, NoRoom(q) \/ KeepAsIs(q) \/ Register(q)
        PROVE  FALSE
    BY <1>1, <2>3 DEF NoRoom, KeepAsIs, Register, processVars
  <2>4. CASE \/ StopRequested \/ ResumeRequested \/ PassBegins \/ DrainDone
             \/ Scan \/ HeartbeatProbes \/ Unregister \/ CleanupBegins
             \/ CleanupDone
    BY <1>1, <1>6, <2>4
       DEF StopRequested, ResumeRequested, PassBegins, DrainDone, Scan,
           HeartbeatProbes, Unregister, CleanupBegins, CleanupDone,
           processVars
  <2> QED
    BY <1>8, <2>1, <2>2, <2>3, <2>4 DEF Loop, EnsureGroupState
<1> QED
  BY <1>3, <1>5, <1>6, <1>7, <1>8
     DEF Next, GuardStep, GuardCrashes, run_browser_guard

-----------------------------------------------------------------------------
LEMMA ArmedStep == TypeOK /\ ArmedInv /\ [Next]_vars => ArmedInv'
<1> SUFFICES ASSUME TypeOK, ArmedInv, [Next]_vars PROVE ArmedInv'
  OBVIOUS
<1> USE DEF ArmedInv
<1>0. pc \in Stages
  BY DEF TypeOK, GuardTypeOK
<1>1. ASSUME UNCHANGED <<guard_process, guardVars>>, ready \subseteq ready'
      PROVE  ArmedInv'
  BY <1>1 DEF guardVars, trackedVars, controlVars
<1>2. CASE \/ ProcessStep
           \/ \E g \in Generation : BrokerStep(g) \/ BrokerDeath(g)
           \/ UNCHANGED vars
  BY <1>1, <1>2
     DEF ProcessStep, BrokerStep, BrokerDeath, run_recovery_broker, vars,
         brokerVars, BrokerOpensGuard, BrokerSeesGuardExit, BrokerReturns,
         BrokerDies, bg_recover_journal_file
<1>3. CASE GuardVanishes
  BY <1>3 DEF GuardVanishes
<1>4. CASE GuardStarts
  BY <1>4 DEF GuardStarts, trackedVars
<1>5. CASE Startup
  <2>1. CASE RecoverStale
    BY <1>1, <2>1 DEF RecoverStale, bg_recover_journal_file
  <2>2. CASE \/ StaleRecovered \/ InitJournal \/ LaunchBroker \/ AwaitBroker
             \/ SetUp /\ ~GuardVanishes
    BY <2>2
       DEF StaleRecovered, InitJournal, LaunchBroker, AwaitBroker, SetUp,
           StartupFrame, brokerVars, trackedVars
  <2> QED
    BY <1>3, <1>5, <2>1, <2>2 DEF Startup, SetUp
<1>6. CASE Loop
  <2> SUFFICES ASSUME ~GuardVanishes PROVE ArmedInv'
    BY <1>3
  <2>1. /\ UNCHANGED <<guard_process, ready, active_recovery_journal>>
        /\ pc # "down" /\ pc' # "down"
    BY <1>6
       DEF Loop, StopRequested, ResumeRequested, PassBegins, DrainOne,
           DrainDone, Scan, EnsureGroupState, NoRoom, KeepAsIs, Register,
           Resume, HeartbeatResumes, Visit, SuspendCurrent, HeartbeatProbes,
           HeartbeatSuspends, HeartbeatGivesUp, Unregister, CleanupBegins,
           CleanupOne, CleanupDone, LoopFrame, brokerVars, Goto, CallOn,
           UnregisterThen, TypeOK, GuardTypeOK
  <2> USE DEF Goto, CallOn, UnregisterThen, trackedVars
  <2>2. CASE \/ StopRequested \/ ResumeRequested \/ PassBegins \/ DrainOne
             \/ DrainDone \/ Scan \/ CleanupBegins \/ CleanupOne
             \/ CleanupDone
    BY <2>1, <2>2
       DEF StopRequested, ResumeRequested, PassBegins, DrainOne, DrainDone,
           Scan, CleanupBegins, CleanupOne, CleanupDone
  <2>3. ASSUME NEW p \in Pid,
               \/ NoRoom(p) \/ KeepAsIs(p) \/ Register(p)
               \/ Resume(p) \/ HeartbeatResumes(p)
        PROVE  ArmedInv'
    BY <2>1, <2>3
       DEF NoRoom, KeepAsIs, Register, Resume, HeartbeatResumes, Visit
  <2>4. CASE \/ SuspendCurrent \/ HeartbeatProbes \/ HeartbeatSuspends
             \/ Unregister
    BY <2>1, <2>4
       DEF SuspendCurrent, HeartbeatProbes, HeartbeatSuspends,
           HeartbeatGivesUp, Unregister, TypeOK, GuardTypeOK
  <2> QED
    BY <1>6, <2>2, <2>3, <2>4 DEF Loop, EnsureGroupState
<1> QED
  BY <1>2, <1>3, <1>4, <1>5, <1>6
     DEF Next, GuardStep, GuardCrashes, run_browser_guard

(* The guard has a journal only while its broker was once ready, and has   *)
(* suspended processes only while it has a journal.                        *)
THEOREM ArmedInvHolds == Spec => []ArmedInv
<1>1. Init => ArmedInv
  BY DEF Init, GuardInit, ArmedInv
<1>2. TypeOK /\ ArmedInv /\ [Next]_vars => ArmedInv'
  BY ArmedStep
<1> QED
  BY <1>1, <1>2, TypeCorrect, PTL DEF Spec

(* Whatever fails, no process is suspended unless the broker of the guard  *)
(* that suspends it has announced itself (bg_start_recovery_broker).       *)
THEOREM FreezeOnlyWithBroker == Spec => FreezeNeedsBroker
<1> DEFINE Rise == \E p \in Pid : suspend_count'[p] > suspend_count[p]
<1>1. TypeOK /\ ArmedInv /\ [Next]_vars
        => [Rise => guard_process \in ready]_vars
  <2> SUFFICES ASSUME TypeOK, ArmedInv, Next, NEW p \in Pid,
                      suspend_count'[p] > suspend_count[p]
               PROVE  guard_process \in ready
    OBVIOUS
  <2> QED
    BY OnlyTheGuardSuspends DEF ArmedInv, SuspendCurrent, HeartbeatSuspends
<1>2. Spec => [][Rise => guard_process \in ready]_vars
  BY <1>1, ArmedInvHolds, TypeCorrect, PTL DEF Spec
<1> QED
  BY <1>2 DEF FreezeNeedsBroker

-----------------------------------------------------------------------------
(* The steps of the guard's loop touch no broker and no recovery call, and *)
(* stay in the loop unless the guard ends.                                 *)
LEMMA LoopStays ==
  ASSUME TypeOK, Loop, ~GuardVanishes
  PROVE  /\ UNCHANGED <<guard_process, broker, ready, call, launched,
                        active_recovery_journal, alive, creation_time>>
         /\ pc \in LoopStages /\ pc' \in LoopStages
BY DEF Loop, StopRequested, ResumeRequested, PassBegins, DrainOne, DrainDone,
       Scan, EnsureGroupState, NoRoom, KeepAsIs, Register, Resume,
       HeartbeatResumes, Visit, SuspendCurrent, HeartbeatProbes,
       HeartbeatSuspends, HeartbeatGivesUp, Unregister, CleanupBegins,
       CleanupOne, CleanupDone, LoopFrame, brokerVars, Goto, CallOn,
       UnregisterThen, TypeOK, GuardTypeOK, LoopStages, processVars,
       NtResumeProcess, NtSuspendProcess

(* A recovery call holds only records that it loaded, and changes the file *)
(* only by deleting it.                                                    *)
LEMMA RecoverEffect ==
  ASSUME TypeOK, NEW r \in Runner, bg_recover_journal_file(r)
  PROVE  /\ UNCHANGED <<guard_process, broker, ready, records, alive,
                        creation_time>>
         /\ \A q \in Runner : q # r => call'[q] = call[q]
         /\ call'[r].left \cup call'[r].current
              \subseteq journal_file \cup call[r].left \cup call[r].current
         /\ journal_file' = journal_file \/ journal_file' = {}
         /\ \A p \in Pid : suspend_count'[p] <= suspend_count[p]
<1>1. /\ call \in [Runner -> Call]
      /\ suspend_count \in [Pid -> Nat]
  BY BoundAssumption DEF TypeOK, BrokerTypeOK, ProcessesTypeOK
<1>2. CASE \/ LoadFails(r) \/ LoadJournal(r) \/ CheckRecord(r)
           \/ AttemptResume(r) \/ FinishRecovery(r)
  BY <1>1, <1>2
     DEF bg_recover_journal_file, LoadFails, LoadJournal, CheckRecord,
         AttemptResume, AttemptFailed, FinishRecovery, processVars,
         journalVars, Call
<1>3. CASE ResumeRecord(r)
  <2>1. PICK rec \in call[r].current, ok \in BOOLEAN :
          /\ NtResumeProcess(rec.pid, ok)
          /\ IF ok THEN call' = [call EXCEPT ![r].step = "check",
                                             ![r].current = {},
                                             ![r].attempt = 0]
                   ELSE AttemptFailed(r)
    BY <1>3 DEF ResumeRecord
  <2>2. /\ UNCHANGED <<alive, creation_time>>
        /\ \A p \in Pid : suspend_count'[p] <= suspend_count[p]
    BY <1>1, <2>1 DEF NtResumeProcess, processVars
  <2>3. /\ \A q \in Runner : q # r => call'[q] = call[q]
        /\ call'[r].left \cup call'[r].current
              \subseteq call[r].left \cup call[r].current
    BY <1>1, <2>1 DEF AttemptFailed, Call
  <2> QED
    BY <1>3, <2>2, <2>3
       DEF ResumeRecord, bg_recover_journal_file, journalVars
<1> QED
  BY <1>2, <1>3 DEF bg_recover_journal_file

(* A step of a recovery call is one of the call of its runner.             *)
LEMMA RecoverRuns ==
  ASSUME TypeOK, NEW r \in Runner, bg_recover_journal_file(r)
  PROVE  call[r].step # "idle" /\ call'[r].step # "idle"
<1>1. call \in [Runner -> Call]
  BY DEF TypeOK, BrokerTypeOK
<1> QED
  BY <1>1
     DEF bg_recover_journal_file, LoadFails, LoadJournal, CheckRecord,
         AttemptResume, AttemptFailed, ResumeRecord, FinishRecovery, Call

-----------------------------------------------------------------------------
LEMMA BrokerInvStep == TypeOK /\ BrokerInv /\ [Next]_vars => BrokerInv'
<1> SUFFICES ASSUME TypeOK, BrokerInv, [Next]_vars PROVE BrokerInv'
  OBVIOUS
<1> USE DEF BrokerInv
<1>0. /\ pc \in Stages
      /\ broker \in [Generation -> BrokerStages]
      /\ call \in [Runner -> Call]
      /\ launched \in Runner /\ Runner \subseteq Nat
      /\ 0 \in Runner
      /\ Generation = Runner \ {0}
  BY BoundAssumption
     DEF TypeOK, GuardTypeOK, BrokerTypeOK, Runner, Generation
<1>1. CASE ProcessStep \/ UNCHANGED vars
  BY <1>1
     DEF ProcessStep, vars, brokerVars, guardVars, controlVars
<1>2. ASSUME NEW g \in Generation, BrokerStep(g) \/ BrokerDeath(g)
      PROVE  BrokerInv'
  <2>0. UNCHANGED <<pc, launched>>
    BY <1>2 DEF BrokerStep, BrokerDeath, guardVars, controlVars
  <2>1. CASE bg_recover_journal_file(g)
    BY <1>0, <2>0, <2>1, RecoverEffect, RecoverRuns
  <2>2. CASE \/ BrokerOpensGuard(g) \/ BrokerSeesGuardExit(g)
             \/ BrokerReturns(g) \/ BrokerDies(g)
    BY <1>0, <2>0, <2>2
       DEF BrokerOpensGuard, BrokerSeesGuardExit, BrokerReturns, BrokerDies,
           NoCall, Called
  <2> QED
    BY <1>2, <2>1, <2>2 DEF BrokerStep, BrokerDeath, run_recovery_broker
<1>3. CASE GuardVanishes
  BY <1>0, <1>3 DEF GuardVanishes
<1>4. CASE GuardStarts
  <2>1. launched' = launched + 1 /\ launched' \in Generation
    BY <1>0, <1>4, BoundAssumption DEF GuardStarts, Generation, Runner
  <2> QED
    BY <1>0, <1>4, <2>1 DEF GuardStarts
<1>5. CASE Startup
  <2>1. CASE RecoverStale
    BY <1>0, <2>1, RecoverEffect
       DEF RecoverStale, guardVars, controlVars
  <2>2. CASE \/ StaleRecovered \/ InitJournal \/ LaunchBroker \/ AwaitBroker
             \/ SetUp /\ ~GuardVanishes
    BY <1>0, <2>2
       DEF StaleRecovered, InitJournal, LaunchBroker, AwaitBroker, SetUp,
           StartupFrame, brokerVars
  <2> QED
    BY <1>3, <1>5, <2>1, <2>2 DEF Startup, SetUp
<1>6. CASE Loop /\ ~GuardVanishes
  BY <1>0, <1>6, LoopStays DEF LoopStages
<1> QED
  BY <1>1, <1>2, <1>3, <1>4, <1>5, <1>6
     DEF Next, GuardStep, GuardCrashes, run_browser_guard

LEMMA BrokerInvInit == Init => BrokerInv
<1> SUFFICES ASSUME Init PROVE BrokerInv
  OBVIOUS
<1>1. \A g \in Generation : /\ broker[g] = "absent" /\ call[g].step = "idle"
  BY BoundAssumption
     DEF Init, BrokerInit, NoCall, Generation, Runner
<1> QED
  BY <1>1 DEF Init, BrokerInit, GuardInit, BrokerInv

(* Whatever fails, a broker carries the number of a guard that was         *)
(* started, a guard that has not launched its broker has none, and a       *)
(* broker is in its recovery exactly while its call is under way.          *)
THEOREM BrokerInvHolds == Spec => []BrokerInv
<1>1. Init => BrokerInv
  BY BrokerInvInit
<1>2. TypeOK /\ BrokerInv /\ [Next]_vars => BrokerInv'
  BY BrokerInvStep
<1> QED
  BY <1>1, <1>2, TypeCorrect, PTL DEF Spec

-----------------------------------------------------------------------------
(* Progress.  Counting records is sound: there are finitely many.          *)
LEMMA RecordsFinite == IsFiniteSet(BgRecoveryRecord)
<1> DEFINE Pair == Pid \X (1 .. MaxBirths)
           code == [rec \in BgRecoveryRecord |->
                      <<rec.pid, rec.creation_time>>]
<1>1. IsFiniteSet(Pair)
  <2>1. IsFiniteSet(1 .. MaxBirths)
    BY BoundAssumption, FS_Interval
  <2> QED
    BY <2>1, PidAssumption, FS_Product
<1>2. code \in Injection(BgRecoveryRecord, Pair)
  BY DEF Injection, IsInjective, BgRecoveryRecord
<1> QED
  BY <1>1, <1>2, FS_Injection

(* Taking up a record leaves one record less, and no file holds more than  *)
(* all of them.                                                            *)
LEMMA RecordCount ==
  ASSUME NEW S \in SUBSET BgRecoveryRecord
  PROVE  /\ Cardinality(S) \in Nat
         /\ Cardinality(BgRecoveryRecord) \in Nat
         /\ Cardinality(S) <= Cardinality(BgRecoveryRecord)
         /\ \A rec \in S : Cardinality(S \ {rec}) = Cardinality(S) - 1
BY RecordsFinite, FS_Subset, FS_CardinalityType, FS_RemoveElement

LEMMA WorkGrows ==
  ASSUME NEW n \in Nat, NEW m \in Nat
  PROVE  /\ RecordWork \in Nat /\ RecordWork = 2 * MaxAttempts + 1
         /\ n * RecordWork \in Nat
         /\ n <= m => n * RecordWork <= m * RecordWork
         /\ (n - 1) * RecordWork = n * RecordWork - RecordWork
<1>1. RecordWork \in Nat /\ RecordWork = 2 * MaxAttempts + 1
  BY BoundAssumption DEF RecordWork
<1> HIDE DEF RecordWork
<1>2. n * RecordWork \in Nat
  BY <1>1
<1>3. n <= m => n * RecordWork <= m * RecordWork
  BY <1>1
<1>4. (n - 1) * RecordWork = n * RecordWork - RecordWork
  BY <1>1
<1> QED
  BY <1>1, <1>2, <1>3, <1>4

(* Every step of a recovery call leaves it less to do.                     *)
LEMMA CallNearsItsEnd ==
  ASSUME TypeOK, NEW r \in Runner, bg_recover_journal_file(r)
  PROVE  CallWork(call'[r]) < CallWork(call[r])
<1> DEFINE c == call[r]
           d == call'[r]
<1>0. /\ call \in [Runner -> Call] /\ c \in Call
      /\ journal_file \subseteq BgRecoveryRecord
      /\ c.left \subseteq BgRecoveryRecord
      /\ MaxAttempts \in Nat /\ MaxAttempts > 0
      /\ c.attempt \in Nat /\ c.attempt < MaxAttempts
  BY BoundAssumption DEF TypeOK, BrokerTypeOK, JournalTypeOK, Call
<1>1. WorkAfter(c) \in Nat /\ WorkAfter(c) >= 2
  <2> DEFINE left == Cardinality(c.left) * RecordWork
  <2>1. Cardinality(c.left) \in Nat
    BY <1>0, RecordCount
  <2>2. left \in Nat
    BY <2>1, WorkGrows
  <2>3. WorkAfter(c) = left + 2
    BY DEF WorkAfter
  <2> HIDE DEF left
  <2> QED
    BY <2>2, <2>3
<1>2. ASSUME c.step \in {"attempt", "resume"}, AttemptFailed(r)
      PROVE  CallWork(d) < CallWork(c)
  <2>1. WorkAfter(d) = WorkAfter(c)
    BY <1>0, <1>2 DEF AttemptFailed, WorkAfter, Call
  <2>2. \/ d.step = "attempt" /\ d.attempt = c.attempt + 1
        \/ d.step = "check"
    BY <1>0, <1>2 DEF AttemptFailed, Call
  <2> QED
    BY <1>0, <1>1, <1>2, <2>1, <2>2 DEF CallWork
<1>3. CASE LoadFails(r)
  <2>1. c.step = "load" /\ d.step = "returned"
    BY <1>0, <1>3 DEF LoadFails
  <2> QED
    BY <2>1, <1>0, RecordCount, WorkGrows DEF CallWork
<1>4. CASE LoadJournal(r)
  <2>1. c.step = "load" /\ d.step = "check" /\ d.left = journal_file
    BY <1>0, <1>4 DEF LoadJournal
  <2>2. /\ Cardinality(journal_file) \in Nat
        /\ Cardinality(BgRecoveryRecord) \in Nat
        /\ Cardinality(journal_file) <= Cardinality(BgRecoveryRecord)
    BY <1>0, RecordCount
  <2>3. /\ Cardinality(journal_file) * RecordWork \in Nat
        /\ Cardinality(BgRecoveryRecord) * RecordWork \in Nat
        /\ Cardinality(journal_file) * RecordWork
             <= Cardinality(BgRecoveryRecord) * RecordWork
    BY <2>2, WorkGrows
  <2> QED
    BY <2>1, <2>3 DEF CallWork, WorkAfter
<1>5. CASE CheckRecord(r)
  <2>1. PICK rec \in c.left, matches \in BOOLEAN :
           call' = [call EXCEPT ![r] =
                      [step |-> IF matches THEN "attempt" ELSE "check",
                       left |-> @.left \ {rec},
                       current |-> IF matches THEN {rec} ELSE {},
                       attempt |-> 0,
                       all_resolved |-> @.all_resolved]]
    BY <1>5 DEF CheckRecord, bg_recovery_record_matches_process
  <2>2. /\ c.step = "check" /\ d.left = c.left \ {rec} /\ d.attempt = 0
        /\ d.step \in {"attempt", "check"}
    BY <1>0, <1>5, <2>1 DEF CheckRecord
  <2>3. Cardinality(d.left) = Cardinality(c.left) - 1
        /\ Cardinality(c.left) \in Nat
    BY <1>0, <2>1, <2>2, RecordCount
  <2>4. WorkAfter(d) = WorkAfter(c) - RecordWork
    BY <2>3, WorkGrows DEF WorkAfter
  <2>5. RecordWork = 2 * MaxAttempts + 1
    BY DEF RecordWork
  <2> QED
    BY <1>0, <1>1, <2>2, <2>4, <2>5 DEF CallWork
<1>6. CASE AttemptResume(r)
  <2>1. CASE AttemptFailed(r)
    BY <1>2, <1>6, <2>1 DEF AttemptResume
  <2>2. CASE call' = [call EXCEPT ![r].step = "resume"]
    <3>1. /\ c.step = "attempt" /\ d.step = "resume"
          /\ d.left = c.left /\ d.attempt = c.attempt
      BY <1>0, <1>6, <2>2 DEF AttemptResume
    <3> QED
      BY <1>0, <1>1, <3>1 DEF CallWork, WorkAfter
  <2> QED
    BY <1>6, <2>1, <2>2 DEF AttemptResume
<1>7. CASE ResumeRecord(r)
  <2>1. CASE AttemptFailed(r)
    BY <1>2, <1>7, <2>1 DEF ResumeRecord
  <2>2. CASE call' = [call EXCEPT ![r].step = "check",
                                  ![r].current = {},
                                  ![r].attempt = 0]
    <3>1. c.step = "resume" /\ d.step = "check" /\ d.left = c.left
      BY <1>0, <1>7, <2>2 DEF ResumeRecord
    <3> QED
      BY <1>0, <1>1, <3>1 DEF CallWork, WorkAfter
  <2> QED
    BY <1>7, <2>1, <2>2 DEF ResumeRecord
<1>8. CASE FinishRecovery(r)
  <2>1. c.step = "check" /\ d.step = "returned"
    BY <1>0, <1>8 DEF FinishRecovery
  <2> QED
    BY <1>1, <2>1 DEF CallWork
<1> QED
  BY <1>3, <1>4, <1>5, <1>6, <1>7, <1>8 DEF bg_recover_journal_file

-----------------------------------------------------------------------------
(* Whatever else happens, a broker that is there is left alone.            *)
LEMMA OthersLeaveBrokers ==
  ASSUME TypeOK, BrokerInv, NEW g \in Generation, broker[g] # "absent",
         \/ ProcessStep \/ GuardStep \/ UNCHANGED vars
         \/ \E h \in Generation \ {g} : BrokerStep(h) \/ BrokerDeath(h)
  PROVE  UNCHANGED <<broker[g], call[g]>>
<1>0. /\ broker \in [Generation -> BrokerStages]
      /\ call \in [Runner -> Call]
      /\ 0 \in Runner /\ Generation = Runner \ {0}
  BY BoundAssumption DEF TypeOK, BrokerTypeOK, Runner, Generation
<1>1. CASE ProcessStep \/ UNCHANGED vars
  BY <1>1 DEF ProcessStep, vars, brokerVars
<1>2. ASSUME NEW h \in Generation \ {g}, BrokerStep(h) \/ BrokerDeath(h)
      PROVE  UNCHANGED <<broker[g], call[g]>>
  <2>1. CASE bg_recover_journal_file(h)
    BY <1>0, <1>2, <2>1, RecoverEffect
  <2>2. CASE \/ BrokerOpensGuard(h) \/ BrokerSeesGuardExit(h)
             \/ BrokerReturns(h) \/ BrokerDies(h)
    BY <1>0, <1>2, <2>2
       DEF BrokerOpensGuard, BrokerSeesGuardExit, BrokerReturns, BrokerDies
  <2> QED
    BY <1>2, <2>1, <2>2 DEF BrokerStep, BrokerDeath, run_recovery_broker
<1>3. CASE GuardVanishes \/ GuardStarts
  BY <1>0, <1>3 DEF GuardVanishes, GuardStarts
<1>4. CASE Startup
  <2>1. CASE RecoverStale
    BY <1>0, <2>1, RecoverEffect DEF RecoverStale
  <2>2. CASE LaunchBroker
    <3>1. guard_process # g
      BY <2>2 DEF LaunchBroker, BrokerInv
    <3> QED
      BY <1>0, <2>2, <3>1 DEF LaunchBroker
  <2>3. CASE \/ StaleRecovered \/ InitJournal \/ AwaitBroker
             \/ SetUp /\ ~GuardVanishes
    BY <1>0, <2>3
       DEF StaleRecovered, InitJournal, AwaitBroker, SetUp, brokerVars
  <2> QED
    BY <1>3, <1>4, <2>1, <2>2, <2>3 DEF Startup, SetUp
<1>5. CASE Loop /\ ~GuardVanishes
  BY <1>5, LoopStays
<1> QED
  BY <1>1, <1>2, <1>3, <1>4, <1>5
     DEF GuardStep, GuardCrashes, run_browser_guard

LEMMA BrokerStepNears ==
  ASSUME TypeOK, BrokerInv, NEW g \in Generation,
         BrokerStep(g) \/ BrokerDeath(g)
  PROVE  BrokerWork(g)' < BrokerWork(g)
<1>0. /\ g \in Runner /\ call \in [Runner -> Call]
      /\ broker \in [Generation -> BrokerStages]
  BY BoundAssumption DEF TypeOK, BrokerTypeOK, Runner, Generation
<1>1. CallWork(Called) \in Nat /\ CallWork(Called) > 0
  BY RecordCount, WorkGrows DEF CallWork, Called
<1>2. CASE bg_recover_journal_file(g)
  <2>1. broker[g] = "recovering" /\ broker' = broker
    BY <1>0, <1>2, RecoverEffect, RecoverRuns DEF BrokerInv
  <2> QED
    BY <1>0, <1>2, <2>1, CallNearsItsEnd DEF BrokerWork
<1>3. CASE BrokerOpensGuard(g) \/ BrokerSeesGuardExit(g)
  <2>1. \/ /\ broker[g] = "starting"
           /\ broker'[g] \in {"waiting", "exited"}
        \/ /\ broker[g] = "waiting"
           /\ broker'[g] = "recovering" /\ call'[g] = Called
    BY <1>0, <1>3 DEF BrokerOpensGuard, BrokerSeesGuardExit
  <2> QED
    BY <1>1, <2>1 DEF BrokerWork
<1>4. CASE BrokerReturns(g) \/ BrokerDies(g)
  <2>1. /\ broker[g] \in {"starting", "waiting", "recovering"}
        /\ broker'[g] = "exited"
    BY <1>0, <1>4 DEF BrokerReturns, BrokerDies
  <2>2. broker[g] = "recovering" => CallWork(call[g]) > 0
    <3> DEFINE c == call[g]
    <3>1. /\ c.left \subseteq BgRecoveryRecord /\ c.step \in CallSteps
          /\ c.attempt \in Nat /\ c.attempt < MaxAttempts
          /\ MaxAttempts \in Nat
      BY <1>0, BoundAssumption DEF Call
    <3>2. WorkAfter(c) \in Nat /\ WorkAfter(c) >= 2
      <4>1. Cardinality(c.left) \in Nat
        BY <3>1, RecordCount
      <4>2. Cardinality(c.left) * RecordWork \in Nat
        BY <4>1, WorkGrows
      <4> QED
        BY <4>2 DEF WorkAfter
    <3>3. Cardinality(BgRecoveryRecord) * RecordWork \in Nat
      BY <3>1, RecordCount, WorkGrows
    <3>4. broker[g] = "recovering" => c.step # "idle"
      BY DEF BrokerInv
    <3> QED
      BY <3>1, <3>2, <3>3, <3>4 DEF CallWork, CallSteps
  <2> QED
    BY <1>1, <2>1, <2>2 DEF BrokerWork
<1> QED
  BY <1>2, <1>3, <1>4 DEF BrokerStep, BrokerDeath, run_recovery_broker

(* Whatever fails, and for any number of processes, guards and attempts:   *)
(* each step of a broker leaves it less to do, and nobody gives it more,   *)
(* so run_recovery_broker never runs for ever once its guard is gone.      *)
THEOREM BrokersNearTheirEnd == Spec => BrokerNearsItsEnd
<1> DEFINE Nearer == \A g \in Generation :
             broker[g] # "absent" => \/ BrokerWork(g)' < BrokerWork(g)
                                     \/ UNCHANGED <<broker[g], call[g]>>
<1>1. TypeOK /\ BrokerInv /\ [Next]_vars => [Nearer]_vars
  <2> SUFFICES ASSUME TypeOK, BrokerInv, Next,
                      NEW g \in Generation, broker[g] # "absent"
               PROVE  \/ BrokerWork(g)' < BrokerWork(g)
                      \/ UNCHANGED <<broker[g], call[g]>>
    OBVIOUS
  <2>1. CASE BrokerStep(g) \/ BrokerDeath(g)
    BY <2>1, BrokerStepNears
  <2>2. CASE ~(BrokerStep(g) \/ BrokerDeath(g))
    BY <2>2, OthersLeaveBrokers DEF Next
  <2> QED
    BY <2>1, <2>2
<1>2. Spec => [][Nearer]_vars
  BY <1>1, TypeCorrect, BrokerInvHolds, PTL DEF Spec
<1> QED
  BY <1>2 DEF BrokerNearsItsEnd

-----------------------------------------------------------------------------
(* The table of entries.                                                   *)

(* An entry that is to be left alone is never to be suspended, whatever    *)
(* the pass observed (evaluate_suspend_policy).                            *)
LEMMA DisabledIsRefused == TRUE \notin DecisionOf[TRUE]
<1>1. ASSUME NEW input, input.suspend_disabled = TRUE
      PROVE  ~Policy!evaluate_suspend_policy(input).should_suspend
  BY <1>1 DEF Policy!evaluate_suspend_policy, Policy!Refuse
<1> QED
  BY <1>1 DEF DecisionOf

LEMMA TableStep == TypeOK /\ TableInv /\ [Next]_vars => TableInv'
<1> SUFFICES ASSUME TypeOK, TableInv, [Next]_vars PROVE TableInv'
  OBVIOUS
<1> USE DEF TableInv
<1>0. return_to \in {"drain", "ensure", "cleanup"}
  BY DEF TypeOK, GuardTypeOK
<1>1. ASSUME UNCHANGED <<pc, trackedVars, current>> PROVE TableInv'
  BY <1>1 DEF trackedVars
<1>2. CASE \/ ProcessStep \/ UNCHANGED vars
           \/ \E g \in Generation : BrokerStep(g) \/ BrokerDeath(g)
  BY <1>1, <1>2
     DEF ProcessStep, BrokerStep, BrokerDeath, vars, guardVars, loopVars
<1>3. CASE GuardVanishes
  BY <1>3 DEF GuardVanishes
<1>4. CASE GuardStarts \/ Startup
  BY <1>3, <1>4
     DEF GuardStarts, Startup, RecoverStale, StaleRecovered, InitJournal,
         LaunchBroker, AwaitBroker, SetUp, StartupFrame, guardVars,
         trackedVars, loopVars
<1>5. CASE Loop
  <2> SUFFICES ASSUME ~GuardVanishes PROVE TableInv'
    BY <1>3
  <2> USE DEF Goto, CallOn, UnregisterThen, trackedVars
  <2>1. CASE \/ StopRequested \/ ResumeRequested \/ PassBegins \/ DrainOne
             \/ DrainDone \/ Scan \/ Unregister \/ CleanupBegins
             \/ CleanupOne \/ CleanupDone
    BY <1>0, <2>1
       DEF StopRequested, ResumeRequested, PassBegins, DrainOne, DrainDone,
           Scan, Unregister, CleanupBegins, CleanupOne, CleanupDone
  <2>2. ASSUME NEW p \in Pid,
               \/ NoRoom(p) \/ KeepAsIs(p) \/ Register(p) \/ Resume(p)
               \/ HeartbeatResumes(p)
        PROVE  TableInv'
    BY <2>2, DisabledIsRefused
       DEF NoRoom, KeepAsIs, Register, Resume, HeartbeatResumes, Visit
  <2>3. CASE SuspendCurrent \/ HeartbeatProbes \/ HeartbeatSuspends
    BY <2>3
       DEF SuspendCurrent, HeartbeatProbes, HeartbeatSuspends,
           HeartbeatGivesUp
  <2> QED
    BY <1>5, <2>1, <2>2, <2>3 DEF Loop, EnsureGroupState
<1> QED
  BY <1>2, <1>3, <1>4, <1>5
     DEF Next, GuardStep, GuardCrashes, run_browser_guard

LEMMA TableInit == Init => TableInv
BY DEF Init, GuardInit, TableInv

(* Nothing is suspended or left alone without an entry, and what is being  *)
(* suspended is not to be left alone.                                      *)
THEOREM TableInvHolds == Spec => []TableInv
<1>1. Init => TableInv
  BY TableInit
<1>2. TypeOK /\ TableInv /\ [Next]_vars => TableInv'
  BY TableStep
<1> QED
  BY <1>1, <1>2, TypeCorrect, PTL DEF Spec

(* Whatever fails, a process is suspended only while the guard has an      *)
(* entry for it that is not to be left alone (ensure_group_state,          *)
(* run_suspend_heartbeat): the process in hand in either call is such.     *)
THEOREM OnlyEntriesAreSuspended == Spec => SuspendsOnlyEntries
<1> DEFINE Allowed == \A p \in Pid : suspend_count'[p] > suspend_count[p]
                                       => p \in tracked \ suspend_disabled
<1>1. TypeOK /\ TableInv /\ [Next]_vars => [Allowed]_vars
  <2> SUFFICES ASSUME TypeOK, TableInv, Next, NEW p \in Pid,
                      suspend_count'[p] > suspend_count[p]
               PROVE  p \in tracked \ suspend_disabled
    OBVIOUS
  <2>1. suspend_count \in [Pid -> Nat] /\ current \subseteq Pid
    BY BoundAssumption DEF TypeOK, ProcessesTypeOK, GuardTypeOK
  <2>2. ASSUME NEW q \in current, NEW ok, NtSuspendProcess(q, ok)
        PROVE  p = q
    BY <2>1, <2>2 DEF NtSuspendProcess, processVars
  <2>3. p \in current /\ pc \in {"suspend", "resuspend"}
    BY <2>2, OnlyTheGuardSuspends DEF SuspendCurrent, HeartbeatSuspends
  <2> QED
    BY <2>3 DEF TableInv
<1>2. Spec => [][Allowed]_vars
  BY <1>1, TableInvHolds, TypeCorrect, PTL DEF Spec
<1> QED
  BY <1>2 DEF SuspendsOnlyEntries

(* A step of EntryLife in terms of the three sets.                         *)
LivesOn(p) ==
  \/ /\ p \in suspended' <=> p \in suspended
     /\ p \in suspend_disabled' <=> p \in suspend_disabled
     /\ p \in tracked => p \in tracked'
  \/ /\ p \in tracked /\ p \notin suspended /\ p \notin suspend_disabled
     /\ p \in tracked' /\ p \in suspended' /\ p \notin suspend_disabled'
  \/ /\ p \in suspended /\ p \notin suspended'
     /\ p \in tracked' <=> p \in tracked
     /\ p \in suspend_disabled' <=> p \in suspend_disabled
  \/ /\ p \notin suspend_disabled /\ p \in suspend_disabled'
     /\ p \in tracked'
     /\ p \in suspended' => p \in suspended
  \/ p \notin tracked' \cup suspended' \cup suspend_disabled'

LEMMA LivesAsSets ==
  ASSUME TableInv, NEW p \in Pid, LivesOn(p)
  PROVE  [Life(p)!Next]_(Life(p)!lifeVars)
<1> USE DEF Life!Next, Life!lifeVars
<1>1. p \notin tracked => p \notin suspended /\ p \notin suspend_disabled
  BY DEF TableInv
<1>2. CASE /\ p \in suspended' <=> p \in suspended
           /\ p \in suspend_disabled' <=> p \in suspend_disabled
           /\ p \in tracked => p \in tracked'
  <2>1. /\ (p \in suspended)' = (p \in suspended)
        /\ (p \in suspend_disabled)' = (p \in suspend_disabled)
        /\ \/ (p \in tracked)' = (p \in tracked)
           \/ p \notin tracked /\ (p \in tracked)' = TRUE
    BY <1>2
  <2> QED
    BY <2>1 DEF Life!Appear
<1>3. CASE /\ p \in tracked /\ p \notin suspended /\ p \notin suspend_disabled
           /\ p \in tracked' /\ p \in suspended' /\ p \notin suspend_disabled'
  <2>1. /\ (p \in tracked)' = (p \in tracked)
        /\ (p \in suspend_disabled)' = (p \in suspend_disabled)
        /\ (p \in suspended)' = TRUE
    BY <1>3
  <2> QED
    BY <1>3, <2>1 DEF Life!Suspend
<1>4. CASE /\ p \in suspended /\ p \notin suspended'
           /\ p \in tracked' <=> p \in tracked
           /\ p \in suspend_disabled' <=> p \in suspend_disabled
  <2>1. /\ (p \in tracked)' = (p \in tracked)
        /\ (p \in suspend_disabled)' = (p \in suspend_disabled)
        /\ (p \in suspended)' = FALSE
    BY <1>4
  <2> QED
    BY <1>4, <2>1 DEF Life!Thaw
<1>5. CASE /\ p \notin suspend_disabled /\ p \in suspend_disabled'
           /\ p \in tracked'
           /\ p \in suspended' => p \in suspended
  <2>1. /\ (p \in tracked)' = TRUE
        /\ (p \in suspend_disabled)' = TRUE
        /\ \/ (p \in suspended)' = (p \in suspended)
           \/ (p \in suspended)' = FALSE
    BY <1>5
  <2> QED
    BY <1>5, <2>1 DEF Life!Protect
<1>6. CASE p \notin tracked' \cup suspended' \cup suspend_disabled'
  <2>1. /\ (p \in tracked)' = FALSE
        /\ (p \in suspended)' = FALSE
        /\ (p \in suspend_disabled)' = FALSE
    BY <1>6
  <2>2. CASE p \in tracked
    BY <2>1, <2>2 DEF Life!Forget
  <2>3. CASE p \notin tracked
    <3>1. /\ (p \in tracked)' = (p \in tracked)
          /\ (p \in suspended)' = (p \in suspended)
          /\ (p \in suspend_disabled)' = (p \in suspend_disabled)
      BY <1>1, <1>6, <2>3
    <3> QED
      BY <3>1
  <2> QED
    BY <2>2, <2>3
<1> QED
  BY <1>2, <1>3, <1>4, <1>5, <1>6 DEF LivesOn

LEMMA EntryLives ==
  ASSUME TypeOK, TableInv, JournaledInv, Next, NEW p \in Pid
  PROVE  [Life(p)!Next]_(Life(p)!lifeVars)
<1> SUFFICES LivesOn(p)
  BY LivesAsSets
<1> USE DEF TableInv, LivesOn
<1>1. ASSUME UNCHANGED trackedVars PROVE LivesOn(p)
  BY <1>1 DEF trackedVars
<1>2. CASE \/ ProcessStep \/ GuardStarts
           \/ \E g \in Generation : BrokerStep(g) \/ BrokerDeath(g)
  BY <1>1, <1>2
     DEF ProcessStep, GuardStarts, BrokerStep, BrokerDeath, guardVars
<1>3. CASE GuardVanishes
  BY <1>3 DEF GuardVanishes
<1>4. CASE Startup
  BY <1>1, <1>3, <1>4
     DEF Startup, RecoverStale, StaleRecovered, InitJournal, LaunchBroker,
         AwaitBroker, SetUp, StartupFrame, guardVars
<1>5. CASE Loop
  <2> USE DEF trackedVars
  <2>1. CASE \/ StopRequested \/ ResumeRequested \/ PassBegins \/ DrainDone
             \/ Scan \/ Unregister \/ CleanupDone
    BY <1>1, <1>3, <2>1
       DEF StopRequested, ResumeRequested, PassBegins, DrainDone, Scan,
           Unregister, CleanupDone
  <2>2. CASE DrainOne \/ CleanupBegins \/ CleanupOne
    BY <2>2 DEF DrainOne, CleanupBegins, CleanupOne
  <2>3. ASSUME NEW q \in Pid,
               \/ NoRoom(q) \/ KeepAsIs(q) \/ Register(q) \/ Resume(q)
               \/ HeartbeatResumes(q)
        PROVE  LivesOn(p)
    <3>1. CASE NoRoom(q) \/ KeepAsIs(q)
      BY <3>1 DEF NoRoom, KeepAsIs, Visit
    <3>2. CASE Register(q) \/ HeartbeatResumes(q)
      <4>1. q \notin suspend_disabled
        BY <3>2, DisabledIsRefused DEF Register, HeartbeatResumes, Visit
      <4>2. /\ tracked' = tracked \cup {q} /\ suspended' = suspended
            /\ \/ suspend_disabled' = suspend_disabled
               \/ suspend_disabled' = suspend_disabled \cup {q}
        BY <3>2 DEF Register, HeartbeatResumes, Visit
      <4> QED
        BY <4>1, <4>2
    <3>3. CASE Resume(q)
      <4>1. /\ q \in suspended /\ tracked' = tracked \cup {q}
            /\ suspend_disabled' = suspend_disabled
            /\ suspended' = suspended \/ suspended' = suspended \ {q}
        BY <3>3 DEF Resume, Visit
      <4> QED
        BY <4>1
    <3> QED
      BY <2>3, <3>1, <3>2, <3>3
  <2>4. CASE SuspendCurrent
    <3>1. PICK q \in current : \/ suspended' = suspended \cup {q}
                               \/ suspended' = suspended
      BY <2>4 DEF SuspendCurrent
    <3>2. /\ tracked' = tracked /\ suspend_disabled' = suspend_disabled
          /\ q \in tracked /\ q \notin suspend_disabled /\ q \notin suspended
      BY <2>4, <3>1 DEF SuspendCurrent, JournaledInv
    <3> QED
      BY <3>1, <3>2
  <2>5. CASE HeartbeatProbes \/ HeartbeatSuspends
    <3>1. CASE UNCHANGED trackedVars
      BY <1>1, <3>1
    <3>2. CASE ~UNCHANGED trackedVars
      <4>1. PICK q \in current : HeartbeatGivesUp(q) /\ tracked' = tracked
        BY <2>5, <3>2 DEF HeartbeatProbes, HeartbeatSuspends
      <4>2. q \in tracked /\ q \notin suspend_disabled
        BY <2>5, <4>1 DEF HeartbeatProbes, HeartbeatSuspends
      <4> QED
        BY <4>1, <4>2 DEF HeartbeatGivesUp
    <3> QED
      BY <3>1, <3>2
  <2> QED
    BY <1>5, <2>1, <2>2, <2>3, <2>4, <2>5 DEF Loop, EnsureGroupState
<1> QED
  BY <1>2, <1>3, <1>4, <1>5
     DEF Next, GuardStep, GuardCrashes, run_browser_guard

(* Whatever fails, every entry of the table leads the life that EntryLife  *)
(* describes: a process that the journal or the heartbeat gave up is left  *)
(* alone until its entry is forgotten (ensure_group_state,                 *)
(* run_suspend_heartbeat, cleanup_tracked_processes).                      *)
THEOREM EntriesAlwaysLive == Spec => EntriesLive
<1> DEFINE Live == \A p \in Pid : [Life(p)!Next]_(Life(p)!lifeVars)
<1>1. Init => \A p \in Pid : Life(p)!Init
  BY DEF Init, GuardInit, Life!Init
<1>2. TypeOK /\ TableInv /\ JournaledInv /\ [Next]_vars => [Live]_vars
  BY EntryLives
<1>3. Spec => [][Live]_vars
  BY <1>2, TypeCorrect, TableInvHolds, JournaledInvHolds, PTL DEF Spec
<1>4. Spec => \A p \in Pid : Life(p)!Init
  BY <1>1 DEF Spec
<1> QED
  BY <1>3, <1>4 DEF EntriesLive

-----------------------------------------------------------------------------
(* The journal between the guard and its brokers.                          *)
LEMMA CoreStepIsJournalStep ==
  ASSUME TypeOK, Next
  PROVE  [JournalNext]_journalVars
<1> USE DEF JournalNext
<1>1. CASE ProcessStep \/ GuardStarts
  BY <1>1 DEF ProcessStep, GuardStarts
<1>2. ASSUME NEW r \in Runner, bg_recover_journal_file(r)
      PROVE  [JournalNext]_journalVars
  <2>1. UNCHANGED records
    BY <1>2, RecoverEffect
  <2> QED
    BY <1>2, <2>1, RecoverEffect DEF journalVars, JournalDeleted
<1>3. ASSUME NEW g \in Generation, BrokerStep(g) \/ BrokerDeath(g)
      PROVE  [JournalNext]_journalVars
  <2>1. g \in Runner
    BY BoundAssumption DEF Generation, Runner
  <2> QED
    BY <1>2, <1>3, <2>1
       DEF BrokerStep, BrokerDeath, run_recovery_broker, BrokerOpensGuard,
           BrokerSeesGuardExit, BrokerReturns, BrokerDies
<1>4. CASE GuardVanishes
  BY <1>4 DEF GuardVanishes, JournalForgotten
<1>5. CASE Startup
  <2>1. CASE RecoverStale
    BY <1>2, <2>1, BoundAssumption DEF RecoverStale, Runner
  <2>2. CASE InitJournal
    BY <2>2 DEF InitJournal
  <2>3. CASE StaleRecovered \/ LaunchBroker \/ AwaitBroker \/ SetUp
    BY <1>4, <2>3 DEF StaleRecovered, LaunchBroker, AwaitBroker, SetUp
  <2> QED
    BY <1>5, <2>1, <2>2, <2>3 DEF Startup
<1>6. CASE Loop
  <2>1. ASSUME NEW p \in Pid, Register(p)
        PROVE  [JournalNext]_journalVars
    <3>1. PICK found \in query_recovery_record(p), registered \in BOOLEAN :
            \/ bg_recovery_journal_register(p, found, registered)
            \/ UNCHANGED journalVars
      BY <2>1 DEF Register
    <3>2. found \in FoundAt(p)
      <4>1. CASE found = {}
        BY <4>1 DEF FoundAt
      <4>2. CASE found = {InstanceOf(p)} /\ p \in alive
        BY <4>2, BoundAssumption
           DEF TypeOK, ProcessesTypeOK, FoundAt, InstanceOf
      <4> QED
        BY <4>1, <4>2 DEF query_recovery_record
    <3> QED
      BY <3>1, <3>2
  <2>2. CASE Unregister
    BY <2>2 DEF Unregister, TypeOK, GuardTypeOK
  <2>3. CASE ~Unregister /\ ~\E p \in Pid : Register(p)
    BY <1>4, <1>6, <2>3
       DEF Loop, StopRequested, ResumeRequested, PassBegins, DrainOne,
           DrainDone, Scan, EnsureGroupState, NoRoom, KeepAsIs, Resume,
           HeartbeatResumes, SuspendCurrent, HeartbeatProbes,
           HeartbeatSuspends, CleanupBegins, CleanupOne, CleanupDone
  <2> QED
    BY <2>1, <2>2, <2>3
<1> QED
  BY <1>1, <1>3, <1>4, <1>5, <1>6
     DEF Next, GuardStep, GuardCrashes, run_browser_guard

(* Whatever fails, guard and brokers together use the journal only by the  *)
(* operations of JournalSet, of which RecoveryJournal shows that the code  *)
(* implements them with a temporary file, a move and a deletion.           *)
THEOREM CoreUsesJournal == Spec => JournalSpec
<1>1. Init => JournalInit
  BY DEF Init
<1>2. TypeOK /\ [Next]_vars => [JournalNext]_journalVars
  BY CoreStepIsJournalStep DEF vars, journalVars
<1> QED
  BY <1>1, <1>2, TypeCorrect, PTL DEF Spec, JournalSpec
=============================================================================
