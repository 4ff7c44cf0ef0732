-------------------------- MODULE Recoverable_proof -------------------------
(***************************************************************************)
(* The recovery guarantee: under the failures of BenignFaults, every       *)
(* frozen process is named in the journal file, at every step; and the     *)
(* parts of it that need less: that a suspend is journaled first, and that *)
(* the records in memory are on disk.                                      *)
(***************************************************************************)
EXTENDS RecoveryAnyFault_proof

-----------------------------------------------------------------------------
(* Only a guard that starts beside a broker at work would disturb it.      *)
LEMMA SeparationStep ==
  ASSUME "overlap" \notin Faults, TypeOK, SeparationInv, [Next]_vars
  PROVE  SeparationInv'
<1> USE DEF SeparationInv
<1>0. /\ pc \in Stages
      /\ broker \in [Generation -> BrokerStages]
      /\ call \in [Runner -> Call]
      /\ launched \in Runner
      /\ 0 \in Runner
      /\ Generation = Runner \ {0}
      /\ BrokerInv'
  BY BoundAssumption, BrokerInvStep
     DEF TypeOK, GuardTypeOK, BrokerTypeOK, Runner, Generation
<1>1. ASSUME UNCHANGED <<guard_process, brokerVars, guardVars, records>>
      PROVE  SeparationInv'
  BY <1>0, <1>1
     DEF guardVars, trackedVars, controlVars, brokerVars, BrokerFinished
<1>2. CASE ProcessStep \/ UNCHANGED vars
  BY <1>1, <1>2 DEF ProcessStep, vars, journalVars
<1>3. ASSUME NEW r \in Runner, bg_recover_journal_file(r)
      PROVE  /\ UNCHANGED <<guard_process, broker, records>>
             /\ call[r].step # "idle"
             /\ \A q \in Runner : q # r => call'[q] = call[q]
  BY <1>3, RecoverEffect, RecoverRuns
<1>4. ASSUME NEW g \in Generation, BrokerStep(g) \/ BrokerDeath(g)
      PROVE  SeparationInv'
  <2>1. CASE bg_recover_journal_file(g)
    BY <1>0, <1>3, <1>4, <2>1
       DEF BrokerStep, BrokerDeath, guardVars, trackedVars, controlVars,
           BrokerFinished, BrokerInv
  <2>2. CASE \/ BrokerOpensGuard(g) \/ BrokerSeesGuardExit(g)
             \/ BrokerReturns(g) \/ BrokerDies(g)
    BY <1>0, <1>4, <2>2
       DEF BrokerStep, BrokerDeath, guardVars, trackedVars, controlVars,
           BrokerFinished, BrokerOpensGuard, BrokerSeesGuardExit,
           BrokerReturns, BrokerDies, journalVars, BrokerInv
  <2> QED
    BY <1>4, <2>1, <2>2 DEF BrokerStep, BrokerDeath, run_recovery_broker
<1>5. CASE GuardVanishes
  BY <1>0, <1>5 DEF GuardVanishes, BrokerFinished, NoCall, LoopStages
<1>6. CASE GuardStarts
  <2>1. \A g \in Generation : BrokerFinished(g)
    BY <1>6 DEF GuardStarts
  <2> QED
    BY <1>0, <1>6, <2>1
       DEF GuardStarts, BrokerFinished, journalVars, LoopStages
<1>7. CASE Startup
  <2>1. CASE RecoverStale
    BY <1>0, <1>3, <2>1
       DEF RecoverStale, guardVars, trackedVars, controlVars, BrokerFinished
  <2>2. CASE \/ StaleRecovered \/ InitJournal \/ LaunchBroker \/ AwaitBroker
             \/ SetUp /\ ~GuardVanishes
    BY <1>0, <2>2
       DEF StaleRecovered, InitJournal, bg_recovery_journal_init,
           LaunchBroker, AwaitBroker, SetUp, StartupFrame, brokerVars,
           trackedVars, journalVars, BrokerFinished, LoopStages, NoCall,
           BrokerInv
  <2> QED
    BY <1>5, <1>7, <2>1, <2>2 DEF Startup, SetUp
<1>8. CASE Loop /\ ~GuardVanishes
  BY <1>0, <1>8, LoopStays DEF BrokerFinished, LoopStages
<1> QED
  BY <1>2, <1>4, <1>5, <1>6, <1>7, <1>8
     DEF Next, GuardStep, GuardCrashes, run_browser_guard

-----------------------------------------------------------------------------
(* The loop changes the journal by registering a live process or by        *)
(* unregistering; either way the file keeps its content or takes that of   *)
(* the memory.                                                             *)
LEMMA RegisterEffect ==
  ASSUME NEW p \in Pid, NEW found \in query_recovery_record(p),
         NEW registered \in BOOLEAN,
         bg_recovery_journal_register(p, found, registered)
  PROVE  /\ records \subseteq records'
         /\ records' \subseteq records \cup {InstanceOf(p)}
         /\ \/ journal_file' = journal_file /\ records' = records
            \/ journal_file' = records'
BY DEF bg_recovery_journal_register, query_recovery_record, persist_journal,
       journalVars

LEMMA UnregisterEffect ==
  ASSUME NEW p \in Pid, bg_recovery_journal_unregister(p)
  PROVE  /\ records' \subseteq records
         /\ \A rec \in records : rec.pid # p => rec \in records'
         /\ journal_file' = journal_file \/ journal_file' = records'
BY DEF bg_recovery_journal_unregister, persist_journal, journalVars

LEMMA LoopJournal ==
  ASSUME TypeOK, Loop, ~GuardVanishes
  PROVE  /\ \A rec \in records' \ records : rec = InstanceOf(rec.pid)
         /\ \/ journal_file' = journal_file /\ records' \subseteq records
            \/ journal_file' = records'
<1>1. ASSUME NEW p \in Pid, Register(p)
      PROVE  /\ records' \subseteq records \cup {InstanceOf(p)}
             /\ \/ journal_file' = journal_file /\ records' = records
                \/ journal_file' = records'
  BY <1>1, RegisterEffect DEF Register, journalVars
<1>2. CASE Unregister
  <2>1. current \subseteq Pid
    BY DEF TypeOK, GuardTypeOK
  <2> QED
    BY <1>2, <2>1, UnregisterEffect DEF Unregister, journalVars
<1>3. CASE ~Unregister /\ ~\E p \in Pid : Register(p)
  BY <1>3
     DEF Loop, StopRequested, ResumeRequested, PassBegins, DrainOne,
         DrainDone, Scan, EnsureGroupState, NoRoom, KeepAsIs, Resume,
         HeartbeatResumes, SuspendCurrent, HeartbeatProbes,
         HeartbeatSuspends, CleanupBegins, CleanupOne, CleanupDone,
         journalVars
<1> QED
  BY <1>1, <1>2, <1>3 DEF InstanceOf

-----------------------------------------------------------------------------
(* Only the reuse of an identifier would make a record name another        *)
(* process than the one it was made for.                                   *)
LEMMA IdentityStep ==
  ASSUME "reuse" \notin Faults, TypeOK, IdentityInv, [Next]_vars
  PROVE  IdentityInv'
<1> USE DEF IdentityInv, InstanceOf
<1>0. /\ call \in [Runner -> Call]
      /\ records \subseteq BgRecoveryRecord
      /\ journal_file \subseteq BgRecoveryRecord
      /\ Generation \subseteq Runner /\ 0 \in Runner
      /\ creation_time \in [Pid -> 0 .. MaxBirths]
  BY BoundAssumption
     DEF TypeOK, BrokerTypeOK, JournalTypeOK, ProcessesTypeOK, Runner,
         Generation
<1>1. CASE ProcessStep
  <2>1. PICK p \in Pid : ProcessStarts(p) \/ ProcessExits(p)
    BY <1>1 DEF ProcessStep
  <2>2. UNCHANGED <<records, journal_file, call>>
    BY <1>1 DEF ProcessStep, journalVars, brokerVars
  <2>3. ASSUME NEW rec \in BgRecoveryRecord, rec = InstanceOf(rec.pid)
        PROVE  creation_time'[rec.pid] = creation_time[rec.pid]
    BY <1>0, <2>1, <2>3, BoundAssumption
       DEF ProcessStarts, ProcessExits, BgRecoveryRecord
  <2>4. \A r \in Runner : call[r].left \cup call[r].current
                            \subseteq BgRecoveryRecord
    BY <1>0 DEF Call
  <2> QED
    BY <1>0, <2>2, <2>3, <2>4
<1>2. CASE UNCHANGED vars
  BY <1>2 DEF vars, processVars, journalVars, brokerVars
<1>3. ASSUME NEW r \in Runner, bg_recover_journal_file(r)
      PROVE  IdentityInv'
  BY <1>3, RecoverEffect
<1>4. ASSUME NEW g \in Generation, BrokerStep(g) \/ BrokerDeath(g)
      PROVE  IdentityInv'
  <2>1. CASE bg_recover_journal_file(g)
    BY <1>0, <1>3, <2>1
  <2>2. CASE \/ BrokerOpensGuard(g) \/ BrokerSeesGuardExit(g)
             \/ BrokerReturns(g) \/ BrokerDies(g)
    BY <1>0, <2>2
       DEF BrokerOpensGuard, BrokerSeesGuardExit, BrokerReturns, BrokerDies,
           processVars, journalVars, NoCall, Called
  <2> QED
    BY <1>4, <2>1, <2>2 DEF BrokerStep, BrokerDeath, run_recovery_broker
<1>5. CASE GuardVanishes
  BY <1>0, <1>5 DEF GuardVanishes, processVars, NoCall
<1>6. CASE GuardStarts
  BY <1>0, <1>6 DEF GuardStarts, processVars, journalVars, Called
<1>7. CASE Startup
  <2>1. CASE RecoverStale
    BY <1>0, <1>3, <2>1 DEF RecoverStale
  <2>2. CASE \/ StaleRecovered \/ InitJournal \/ LaunchBroker \/ AwaitBroker
             \/ SetUp /\ ~GuardVanishes
    BY <1>0, <2>2
       DEF StaleRecovered, InitJournal, bg_recovery_journal_init,
           LaunchBroker, AwaitBroker, SetUp, StartupFrame, brokerVars,
           processVars, journalVars, NoCall
  <2> QED
    BY <1>5, <1>7, <2>1, <2>2 DEF Startup, SetUp
<1>8. CASE Loop /\ ~GuardVanishes
  BY <1>8, LoopJournal, LoopStays
<1> QED
  BY <1>1, <1>2, <1>4, <1>5, <1>6, <1>7, <1>8
     DEF Next, GuardStep, GuardCrashes, run_browser_guard

-----------------------------------------------------------------------------
LEMMA MemoryStep ==
  ASSUME TypeOK, SeparationInv, MemoryIsOnDisk, [Next]_vars
  PROVE  MemoryIsOnDisk'
<1> USE DEF MemoryIsOnDisk
<1>1. CASE ProcessStep \/ UNCHANGED vars
  BY <1>1 DEF ProcessStep, vars, journalVars
<1>2. ASSUME NEW r \in Runner, bg_recover_journal_file(r), records = {}
      PROVE  MemoryIsOnDisk'
  BY <1>2, RecoverEffect
<1>3. ASSUME NEW g \in Generation, BrokerStep(g) \/ BrokerDeath(g)
      PROVE  MemoryIsOnDisk'
  <2>1. CASE bg_recover_journal_file(g)
    <3>1. g \in Runner /\ call[g].step # "idle"
      BY <2>1, BoundAssumption
         DEF Generation, Runner, bg_recover_journal_file, LoadFails,
             LoadJournal, CheckRecord, AttemptResume, ResumeRecord,
             FinishRecovery
    <3>2. records = {}
      BY <3>1 DEF SeparationInv, BrokerInv, LoopStages
    <3> QED
      BY <1>2, <2>1, <3>1, <3>2
  <2>2. CASE \/ BrokerOpensGuard(g) \/ BrokerSeesGuardExit(g)
             \/ BrokerReturns(g) \/ BrokerDies(g)
    BY <2>2
       DEF BrokerOpensGuard, BrokerSeesGuardExit, BrokerReturns, BrokerDies,
           journalVars
  <2> QED
    BY <1>3, <2>1, <2>2 DEF BrokerStep, BrokerDeath, run_recovery_broker
<1>4. CASE GuardVanishes \/ GuardStarts
  BY <1>4 DEF GuardVanishes, GuardStarts, journalVars
<1>5. CASE Startup
  <2>1. CASE RecoverStale
    BY <1>2, <2>1, BoundAssumption
       DEF RecoverStale, SeparationInv, BrokerInv, LoopStages, Runner
  <2>2. CASE \/ StaleRecovered \/ InitJournal \/ LaunchBroker \/ AwaitBroker
             \/ SetUp
    BY <2>2
       DEF StaleRecovered, InitJournal, bg_recovery_journal_init,
           LaunchBroker, AwaitBroker, SetUp, GuardVanishes, journalVars
  <2> QED
    BY <1>5, <2>1, <2>2 DEF Startup
<1>6. CASE Loop /\ ~GuardVanishes
  BY <1>6, LoopJournal
<1> QED
  BY <1>1, <1>3, <1>4, <1>5, <1>6
     DEF Next, GuardStep, GuardCrashes, run_browser_guard

-----------------------------------------------------------------------------
(* An identifier that the journal names has been given to a process.       *)
LEMMA JournaledExists ==
  ASSUME TypeOK, IdentityInv, NEW p \in PidsOf(records)
  PROVE  creation_time[p] # 0 /\ InstanceOf(p) \in records
<1>1. PICK rec \in records : rec.pid = p
  BY DEF PidsOf
<1>2. rec \in BgRecoveryRecord /\ rec = InstanceOf(p)
  BY <1>1 DEF TypeOK, JournalTypeOK, IdentityInv
<1> QED
  BY <1>1, <1>2, BoundAssumption DEF BgRecoveryRecord, InstanceOf

LEMMA ScanStep ==
  ASSUME BenignFaults, TypeOK, JournaledInv, IdentityInv, SeparationInv,
         ScanInv, [Next]_vars
  PROVE  ScanInv'
<1> SUFFICES ASSUME "scan" \notin Faults PROVE ScanInv'
  BY DEF ScanInv
<1> USE DEF ScanInv, InPass, InCleanup
<1>1. CASE ProcessStep
  <2>1. PICK p \in Pid : ProcessStarts(p) \/ ProcessExits(p)
    BY <1>1 DEF ProcessStep
  <2>2. CASE ProcessExits(p)
    BY <1>1, <2>2
       DEF ProcessStep, ProcessExits, guardVars, trackedVars, controlVars,
           loopVars
  <2>3. CASE ProcessStarts(p)
    <3>1. p \notin suspended
      BY <2>3, JournaledExists
         DEF ProcessStarts, BenignFaults, JournaledInv, SuspendedIsJournaled
    <3> QED
      BY <1>1, <2>3, <3>1
         DEF ProcessStep, ProcessStarts, guardVars, trackedVars, controlVars,
             loopVars
  <2> QED
    BY <2>1, <2>2, <2>3
<1>2. ASSUME UNCHANGED <<alive, guardVars>> PROVE ScanInv'
  BY <1>2 DEF guardVars, trackedVars, controlVars, loopVars
<1>3. CASE UNCHANGED vars
  BY <1>2, <1>3 DEF vars, processVars
<1>4. ASSUME NEW g \in Generation, BrokerStep(g) \/ BrokerDeath(g)
      PROVE  ScanInv'
  <2>1. g \in Runner
    BY BoundAssumption DEF Generation, Runner
  <2> QED
    BY <1>2, <1>4, <2>1, RecoverEffect
       DEF BrokerStep, BrokerDeath, run_recovery_broker, BrokerOpensGuard,
           BrokerSeesGuardExit, BrokerReturns, BrokerDies, processVars
<1>5. CASE GuardVanishes \/ GuardStarts
  BY <1>5 DEF GuardVanishes, GuardStarts, loopVars
<1>6. CASE Startup
  BY <1>5, <1>6
     DEF Startup, RecoverStale, StaleRecovered, InitJournal, LaunchBroker,
         AwaitBroker, SetUp, StartupFrame, guardVars, loopVars
<1>7. CASE Loop /\ ~GuardVanishes
  <2> USE DEF Goto, CallOn, UnregisterThen, trackedVars
  <2>0. UNCHANGED alive
    BY <1>7, LoopStays
  <2>1. CASE \/ StopRequested \/ ResumeRequested \/ PassBegins \/ DrainOne
             \/ DrainDone \/ CleanupBegins \/ CleanupOne \/ CleanupDone
    BY <1>7, <2>0, <2>1
       DEF StopRequested, ResumeRequested, PassBegins, DrainOne, DrainDone,
           CleanupBegins, CleanupOne, CleanupDone
  <2>2. CASE Scan
    <3>1. seen' = alive /\ todo' = seen' /\ pc' = "ensure"
      BY <2>2 DEF Scan
    <3>2. current' = current /\ pc = "scan"
      BY <2>2 DEF Scan
    <3> QED
      BY <2>0, <3>1, <3>2
  <2>3. ASSUME NEW p \in Pid, \/ NoRoom(p) \/ KeepAsIs(p) \/ Register(p)
                              \/ Resume(p) \/ HeartbeatResumes(p)
        PROVE  ScanInv'
    BY <2>0, <2>3
       DEF NoRoom, KeepAsIs, Register, Resume, HeartbeatResumes, Visit
  <2>4. CASE \/ SuspendCurrent \/ HeartbeatProbes \/ HeartbeatSuspends
    BY <2>0, <2>4
       DEF SuspendCurrent, HeartbeatProbes, HeartbeatSuspends,
           HeartbeatGivesUp
  <2>5. CASE Unregister
    <3>1. return_to \in {"drain", "ensure", "cleanup"}
      BY DEF TypeOK, GuardTypeOK
    <3> QED
      BY <2>0, <2>5, <3>1 DEF Unregister
  <2> QED
    BY <1>7, <2>1, <2>2, <2>3, <2>4, <2>5 DEF Loop, EnsureGroupState
<1> QED
  BY <1>1, <1>3, <1>4, <1>5, <1>6, <1>7
     DEF Next, GuardStep, GuardCrashes, run_browser_guard

-----------------------------------------------------------------------------
(* As long as no process is frozen twice, a resume that succeeds sets its  *)
(* process running, and one that fails on a live process is the failure    *)
(* "resume".                                                               *)
LEMMA ResumeEffect ==
  ASSUME TypeOK, FrozenOnce, NEW p \in Pid, NEW ok \in BOOLEAN,
         NtResumeProcess(p, ok)
  PROVE  /\ UNCHANGED <<alive, creation_time>>
         /\ FrozenOnce'
         /\ \A q \in Pid : suspend_count'[q] <= suspend_count[q]
         /\ ok => suspend_count'[p] = 0 /\ Frozen' = Frozen \ {p}
         /\ ~ok => /\ Frozen' = Frozen
                   /\ p \in alive => "resume" \in Faults
<1>1. suspend_count \in [Pid -> Nat] /\ alive \subseteq Pid
  BY BoundAssumption DEF TypeOK, ProcessesTypeOK
<1>2. CASE ok
  <2>1. /\ suspend_count' = [suspend_count EXCEPT ![p] = 0]
        /\ UNCHANGED <<alive, creation_time>>
    BY <1>1, <1>2 DEF NtResumeProcess, FrozenOnce
  <2> QED
    BY <1>1, <1>2, <2>1 DEF FrozenOnce, Frozen
<1>3. CASE ~ok
  BY <1>1, <1>3 DEF NtResumeProcess, processVars, FrozenOnce, Frozen
<1> QED
  BY <1>2, <1>3

LEMMA SuspendEffect ==
  ASSUME TypeOK, FrozenOnce, NEW p \in Pid, NEW ok \in BOOLEAN,
         suspend_count[p] = 0, NtSuspendProcess(p, ok)
  PROVE  /\ UNCHANGED <<alive, creation_time>>
         /\ FrozenOnce'
         /\ ok => Frozen' = Frozen \cup {p}
         /\ ~ok => Frozen' = Frozen /\ UNCHANGED suspend_count
<1>1. suspend_count \in [Pid -> Nat] /\ alive \subseteq Pid
  BY BoundAssumption DEF TypeOK, ProcessesTypeOK
<1> QED
  BY <1>1 DEF NtSuspendProcess, processVars, FrozenOnce, Frozen

(* A live process is not frozen if its count is zero.                      *)
LEMMA CountZero ==
  ASSUME TypeOK, NEW p \in Pid, p \notin Frozen
  PROVE  suspend_count[p] = 0
BY BoundAssumption DEF TypeOK, ProcessesTypeOK, Frozen

-----------------------------------------------------------------------------
LEMMA FrozenProcessStep ==
  ASSUME TypeOK, TypeOK', FrozenInv, CallInv, Recoverable, ProcessStep
  PROVE  FrozenInv' /\ CallInv' /\ Recoverable'
<1>1. PICK p \in Pid : ProcessStarts(p) \/ ProcessExits(p)
  BY DEF ProcessStep
<1>2. /\ suspend_count \in [Pid -> Nat] /\ alive \subseteq Pid
      /\ creation_time \in [Pid -> 0 .. MaxBirths]
      /\ \A q \in Pid \ alive : suspend_count[q] = 0
  BY BoundAssumption DEF TypeOK, ProcessesTypeOK
<1>3. /\ Frozen' \subseteq Frozen
      /\ \A q \in Frozen : creation_time'[q] = creation_time[q]
      /\ \A q \in Pid : suspend_count'[q] <= suspend_count[q]
      /\ \A q \in Pid : suspend_count'[q] \in Nat
  BY <1>1, <1>2 DEF ProcessStarts, ProcessExits, Frozen
<1>4. FrozenInstances' \subseteq FrozenInstances
  BY <1>3 DEF FrozenInstances, InstanceOf
<1>5. UNCHANGED <<journal_file, call, guardVars>>
  BY DEF ProcessStep, journalVars, brokerVars
<1>6. FrozenInv'
  <2>1. UNCHANGED <<pc, active_recovery_journal, suspended, current>>
    BY <1>5 DEF guardVars, trackedVars, controlVars, loopVars
  <2>2. current \subseteq Pid
    BY DEF TypeOK, GuardTypeOK
  <2>3. FrozenOnce'
    BY <1>2, <1>3 DEF FrozenInv, FrozenOnce
  <2>4. \A q \in current : suspend_count[q] = 0 => suspend_count'[q] = 0
    BY <1>2, <1>3, <2>2
  <2> QED
    BY <1>3, <2>1, <2>3, <2>4 DEF FrozenInv
<1>7. CallInv'
  BY <1>3, <1>4, <1>5 DEF CallInv
<1> QED
  BY <1>4, <1>5, <1>6, <1>7 DEF Recoverable

-----------------------------------------------------------------------------
(* A recovery call keeps what it owes: what it leaves behind as resolved   *)
(* is not frozen, and it deletes the file only when nothing is.            *)
LEMMA FrozenRecoverStep ==
  ASSUME BenignFaults, TypeOK, IdentityInv, FrozenInv, CallInv, Recoverable,
         NEW r \in Runner, bg_recover_journal_file(r), UNCHANGED guardVars
  PROVE  FrozenInv' /\ CallInv' /\ Recoverable'
<1>0. /\ call \in [Runner -> Call]
      /\ suspend_count \in [Pid -> Nat] /\ alive \subseteq Pid
      /\ current \subseteq Pid
  BY BoundAssumption DEF TypeOK, BrokerTypeOK, ProcessesTypeOK, GuardTypeOK
<1>1. SUFFICES /\ FrozenOnce'
               /\ \A p \in Pid : suspend_count[p] = 0 => suspend_count'[p] = 0
               /\ Frozen' \subseteq Frozen
               /\ CallInv'
               /\ Recoverable'
  <2>1. UNCHANGED <<pc, active_recovery_journal, suspended, current>>
    BY DEF guardVars, trackedVars, controlVars, loopVars
  <2> QED
    BY <1>0, <2>1 DEF FrozenInv
<1>2. \A q \in Runner : q # r => call'[q] = call[q]
  BY RecoverEffect
<1>3. ASSUME UNCHANGED processVars,
             /\ call'[r].step \in {"load", "check"} => call'[r].current = {}
             /\ \A rec1, rec2 \in call'[r].current : rec1 = rec2
             /\ call'[r].all_resolved
                  /\ call'[r].step \in {"check", "attempt", "resume"}
                => FrozenInstances \subseteq call'[r].left \cup call'[r].current
             /\ call'[r].all_resolved /\ call'[r].step = "returned"
                  => Frozen = {}
      PROVE  CallInv' /\ Frozen' = Frozen /\ FrozenInstances' = FrozenInstances
  BY <1>2, <1>3
     DEF CallInv, processVars, Frozen, FrozenInstances, InstanceOf
<1>4. ASSUME UNCHANGED processVars, CallInv', UNCHANGED journal_file
      PROVE  /\ FrozenOnce'
             /\ \A p \in Pid : suspend_count[p] = 0 => suspend_count'[p] = 0
             /\ Frozen' \subseteq Frozen
             /\ Recoverable'
  BY <1>4
     DEF FrozenInv, FrozenOnce, Recoverable, processVars, Frozen,
         FrozenInstances, InstanceOf
<1>5. CASE LoadFails(r)
  <2>1. UNCHANGED processVars /\ UNCHANGED journal_file
    BY <1>5 DEF LoadFails, journalVars
  <2>2. CallInv'
    <3>1. /\ call'[r].step = "returned" /\ call'[r].current = call[r].current
          /\ call'[r].all_resolved = FALSE
      BY <1>0, <1>5 DEF LoadFails, Call
    <3> QED
      BY <1>3, <2>1, <3>1 DEF CallInv
  <2> QED
    BY <1>4, <2>1, <2>2
<1>6. CASE LoadJournal(r)
  <2>1. UNCHANGED processVars /\ UNCHANGED journal_file
    BY <1>6 DEF LoadJournal, journalVars
  <2>2. /\ call'[r].step = "check" /\ call'[r].left = journal_file
        /\ call'[r].current = {}
    BY <1>0, <1>6 DEF LoadJournal, Call, CallInv
  <2>3. CallInv'
    BY <1>3, <2>1, <2>2 DEF Recoverable
  <2> QED
    BY <1>4, <2>1, <2>3
<1>7. CASE CheckRecord(r)
  <2>1. UNCHANGED processVars /\ UNCHANGED journal_file
    BY <1>7 DEF CheckRecord, journalVars
  <2>2. PICK rec \in call[r].left, matches \in BOOLEAN :
          /\ matches \in bg_recovery_record_matches_process(rec)
          /\ call' = [call EXCEPT ![r] =
                        [step |-> IF matches THEN "attempt" ELSE "check",
                         left |-> @.left \ {rec},
                         current |-> IF matches THEN {rec} ELSE {},
                         attempt |-> 0,
                         all_resolved |-> @.all_resolved]]
    BY <1>7 DEF CheckRecord, bg_recovery_record_matches_process
  <2>3. ~matches => rec \notin FrozenInstances
    BY <2>2
       DEF bg_recovery_record_matches_process, BenignFaults, FrozenInstances,
           Frozen, InstanceOf
  <2>4. /\ call[r].step = "check" /\ call[r].current = {}
        /\ call[r].all_resolved => FrozenInstances \subseteq call[r].left
    BY <1>7 DEF CheckRecord, CallInv
  <2>5. CallInv'
    <3>1. /\ call'[r].step = IF matches THEN "attempt" ELSE "check"
          /\ call'[r].left = call[r].left \ {rec}
          /\ call'[r].current = IF matches THEN {rec} ELSE {}
          /\ call'[r].all_resolved = call[r].all_resolved
      BY <1>0, <2>2
    <3> QED
      BY <1>3, <2>1, <2>3, <2>4, <3>1
  <2> QED
    BY <1>4, <2>1, <2>5
<1>8. ASSUME AttemptFailed(r), UNCHANGED processVars,
             call[r].step \in {"attempt", "resume"}
      PROVE  CallInv'
  <2>1. CASE call[r].attempt + 1 < MaxAttempts
    <3>1. /\ call'[r].step = "attempt"
          /\ call'[r].left = call[r].left
          /\ call'[r].current = call[r].current
          /\ call'[r].all_resolved = call[r].all_resolved
      BY <1>0, <1>8, <2>1 DEF AttemptFailed, Call
    <3> QED
      BY <1>3, <1>8, <3>1 DEF CallInv
  <2>2. CASE ~(call[r].attempt + 1 < MaxAttempts)
    <3>1. /\ call'[r].step = "check" /\ call'[r].current = {}
          /\ call'[r].all_resolved = FALSE
      BY <1>0, <1>8, <2>2 DEF AttemptFailed, Call
    <3> QED
      BY <1>3, <1>8, <3>1
  <2> QED
    BY <2>1, <2>2
<1>9. CASE AttemptResume(r)
  <2>1. UNCHANGED processVars /\ UNCHANGED journal_file
    BY <1>9 DEF AttemptResume, journalVars
  <2>2. CASE AttemptFailed(r)
    BY <1>4, <1>8, <1>9, <2>1, <2>2 DEF AttemptResume
  <2>3. CASE call' = [call EXCEPT ![r].step = "resume"]
    <3>1. /\ call'[r].step = "resume"
          /\ call'[r].left = call[r].left
          /\ call'[r].current = call[r].current
          /\ call'[r].all_resolved = call[r].all_resolved
      BY <1>0, <2>3 DEF Call
    <3>2. call[r].step = "attempt"
      BY <1>9 DEF AttemptResume
    <3>3. CallInv'
      BY <1>3, <2>1, <3>1, <3>2 DEF CallInv
    <3> QED
      BY <1>4, <2>1, <3>3
  <2> QED
    BY <1>9, <2>2, <2>3 DEF AttemptResume
<1>10. CASE ResumeRecord(r)
  <2>1. PICK rec \in call[r].current, ok \in BOOLEAN :
          /\ NtResumeProcess(rec.pid, ok)
          /\ IF ok THEN call' = [call EXCEPT ![r].step = "check",
                                             ![r].current = {},
                                             ![r].attempt = 0]
                   ELSE AttemptFailed(r)
    BY <1>10 DEF ResumeRecord
  <2>2. rec.pid \in Pid /\ rec = InstanceOf(rec.pid)
    BY <1>0, <2>1 DEF Call, BgRecoveryRecord, IdentityInv
  <2>3. UNCHANGED journal_file /\ call[r].step = "resume"
    BY <1>10 DEF ResumeRecord, journalVars
  <2>4. CASE ok
    <3>1. /\ FrozenOnce' /\ Frozen' = Frozen \ {rec.pid}
          /\ UNCHANGED creation_time
          /\ \A p \in Pid : suspend_count'[p] <= suspend_count[p]
      BY <2>1, <2>2, <2>4, ResumeEffect DEF FrozenInv
    <3>2. FrozenInstances' \subseteq FrozenInstances \ {rec}
      BY <2>2, <3>1 DEF FrozenInstances, InstanceOf
    <3>3. /\ call'[r].step = "check"
          /\ call'[r].left = call[r].left
          /\ call'[r].current = {}
          /\ call'[r].all_resolved = call[r].all_resolved
      BY <1>0, <2>1, <2>4 DEF Call
    <3>4. call[r].current = {rec}
      BY <2>1 DEF CallInv
    <3>5. call[r].all_resolved => FrozenInstances' \subseteq call[r].left
      BY <2>3, <3>2, <3>4 DEF CallInv
    <3>6. CallInv'
      BY <1>2, <3>1, <3>2, <3>3, <3>5 DEF CallInv
    <3>7. \A p \in Pid : suspend_count[p] = 0 => suspend_count'[p] = 0
      <4>1. suspend_count' \in [Pid -> Nat]
        BY <1>0, <2>1, <2>2, <2>4 DEF NtResumeProcess
      <4> QED
        BY <1>0, <3>1, <4>1
    <3> QED
      BY <2>3, <3>1, <3>2, <3>6, <3>7 DEF Recoverable
  <2>5. CASE ~ok
    <3>1. UNCHANGED processVars
      BY <2>1, <2>5 DEF NtResumeProcess
    <3> QED
      BY <1>4, <1>8, <2>1, <2>3, <2>5, <3>1
  <2> QED
    BY <2>4, <2>5
<1>11. CASE FinishRecovery(r)
  <2>1. /\ call'[r].step = "returned"
        /\ call'[r].current = call[r].current
        /\ call'[r].all_resolved = call[r].all_resolved
        /\ call[r].step = "check" /\ call[r].left = {}
        /\ UNCHANGED processVars
    BY <1>0, <1>11 DEF FinishRecovery, Call
  <2>2. call[r].all_resolved => Frozen = {}
    BY <2>1 DEF CallInv, FrozenInstances
  <2>3. CallInv' /\ Frozen' = Frozen /\ FrozenInstances' = FrozenInstances
    BY <1>3, <2>1, <2>2 DEF CallInv
  <2>4. CASE UNCHANGED journal_file
    BY <1>4, <2>1, <2>3, <2>4
  <2>5. CASE call[r].all_resolved
    BY <2>1, <2>2, <2>3, <2>5
       DEF FrozenInv, FrozenOnce, Recoverable, FrozenInstances, processVars
  <2> QED
    BY <1>11, <2>4, <2>5 DEF FinishRecovery
<1> QED
  BY <1>5, <1>6, <1>7, <1>9, <1>10, <1>11 DEF bg_recover_journal_file

-----------------------------------------------------------------------------
(* Steps that neither freeze nor thaw and leave the file alone preserve    *)
(* what is known of the processes; a call they begin or drop owes nothing. *)
LEMMA QuietStep ==
  ASSUME TypeOK, CallInv, Recoverable, NEW r \in Runner,
         UNCHANGED <<processVars, journal_file>>,
         \/ call' = call
         \/ call' = [call EXCEPT ![r] = NoCall]
         \/ call' = [call EXCEPT ![r] = Called]
  PROVE  CallInv' /\ Recoverable' /\ Frozen' = Frozen
<1>1. call \in [Runner -> Call]
  BY DEF TypeOK, BrokerTypeOK
<1>2. Frozen' = Frozen /\ FrozenInstances' = FrozenInstances
  BY DEF processVars, Frozen, FrozenInstances, InstanceOf
<1>3. \A q \in Runner :
        \/ call'[q] = call[q]
        \/ call'[q].step \in {"idle", "load"} /\ call'[q].current = {}
  BY <1>1 DEF NoCall, Called
<1> QED
  BY <1>2, <1>3 DEF CallInv, Recoverable

LEMMA FrozenBrokerStep ==
  ASSUME BenignFaults, TypeOK, IdentityInv, FrozenInv, CallInv, Recoverable,
         NEW g \in Generation, BrokerStep(g) \/ BrokerDeath(g)
  PROVE  FrozenInv' /\ CallInv' /\ Recoverable'
<1>1. g \in Runner /\ UNCHANGED guardVars
  BY BoundAssumption DEF Generation, Runner, BrokerStep, BrokerDeath
<1>2. CASE bg_recover_journal_file(g)
  BY <1>1, <1>2, FrozenRecoverStep
<1>3. CASE \/ BrokerOpensGuard(g) \/ BrokerSeesGuardExit(g)
           \/ BrokerReturns(g) \/ BrokerDies(g)
  <2>1. /\ UNCHANGED <<processVars, journal_file>>
        /\ \/ call' = call
           \/ call' = [call EXCEPT ![g] = NoCall]
           \/ call' = [call EXCEPT ![g] = Called]
    BY <1>3
       DEF BrokerOpensGuard, BrokerSeesGuardExit, BrokerReturns, BrokerDies,
           journalVars
  <2>2. CallInv' /\ Recoverable' /\ Frozen' = Frozen
    BY <1>1, <2>1, QuietStep
  <2> QED
    BY <1>1, <2>1, <2>2
       DEF FrozenInv, FrozenOnce, processVars, guardVars, trackedVars,
           controlVars, loopVars
<1> QED
  BY <1>2, <1>3 DEF BrokerStep, BrokerDeath, run_recovery_broker

LEMMA FrozenStartupStep ==
  ASSUME BenignFaults, TypeOK, IdentityInv, FrozenInv, CallInv, Recoverable,
         GuardVanishes \/ GuardStarts \/ Startup
  PROVE  FrozenInv' /\ CallInv' /\ Recoverable'
<1>0. 0 \in Runner
  BY BoundAssumption DEF Runner
<1>1. CASE RecoverStale
  BY <1>0, <1>1, FrozenRecoverStep DEF RecoverStale
<1>2. CASE GuardVanishes \/ GuardStarts
  <2>1. CallInv' /\ Recoverable' /\ Frozen' = Frozen
    BY <1>0, <1>2, QuietStep DEF GuardVanishes, GuardStarts, journalVars
  <2> QED
    BY <1>2, <2>1
       DEF GuardVanishes, GuardStarts, FrozenInv, FrozenOnce, processVars,
           trackedVars
<1>3. CASE StaleRecovered
  <2>1. CallInv' /\ Recoverable' /\ Frozen' = Frozen
    BY <1>0, <1>3, QuietStep DEF StaleRecovered, StartupFrame, journalVars
  <2>2. pc' = "init" => Frozen = {}
    BY <1>0, <1>3 DEF StaleRecovered, CallInv
  <2> QED
    BY <1>3, <2>1, <2>2
       DEF StaleRecovered, StartupFrame, FrozenInv, FrozenOnce, processVars,
           trackedVars
<1>4. CASE InitJournal
  <2>1. Frozen' = {} /\ FrozenInstances' = {} /\ FrozenInstances = {}
    BY <1>4
       DEF InitJournal, StartupFrame, FrozenInv, processVars, Frozen,
           FrozenInstances
  <2> QED
    BY <1>4, <2>1
       DEF InitJournal, StartupFrame, FrozenInv, FrozenOnce, processVars,
           CallInv, Recoverable, brokerVars
<1>5. CASE LaunchBroker \/ AwaitBroker \/ (SetUp /\ ~GuardVanishes)
  <2>1. CallInv' /\ Recoverable' /\ Frozen' = Frozen
    BY <1>0, <1>5, QuietStep
       DEF LaunchBroker, AwaitBroker, SetUp, StartupFrame, journalVars,
           brokerVars
  <2> QED
    BY <1>5, <2>1
       DEF LaunchBroker, AwaitBroker, SetUp, StartupFrame, FrozenInv,
           FrozenOnce, processVars, trackedVars
<1> QED
  BY <1>1, <1>2, <1>3, <1>4, <1>5 DEF Startup, SetUp

-----------------------------------------------------------------------------
LEMMA FrozenLoopStep ==
  ASSUME BenignFaults, TypeOK, TypeOK', ArmedInv, JournaledInv, FrozenInv,
         ScanInv, Loop, ~GuardVanishes
  PROVE  FrozenInv'
<1> USE DEF Goto, CallOn, UnregisterThen, trackedVars
<1>0. /\ alive \subseteq Pid
      /\ suspend_count \in [Pid -> Nat] /\ suspend_count' \in [Pid -> Nat]
      /\ current \subseteq Pid /\ todo \subseteq Pid
      /\ UNCHANGED active_recovery_journal
      /\ pc' \notin {"init", "launch", "wait"}
  BY LoopStays, BoundAssumption
     DEF TypeOK, ProcessesTypeOK, GuardTypeOK, LoopStages
<1> DEFINE Kept ==
      /\ FrozenOnce'
      /\ active_recovery_journal => Frozen' \subseteq suspended'
      /\ pc' \in {"suspend", "probe", "resuspend", "unregister"} =>
           \A p \in current' : suspend_count'[p] = 0
<1>1. SUFFICES Kept
  BY <1>0 DEF FrozenInv
<1>2. ASSUME UNCHANGED processVars
      PROVE  FrozenOnce' /\ Frozen' = Frozen /\ UNCHANGED suspend_count
  BY <1>2 DEF processVars, FrozenInv, FrozenOnce, Frozen
<1>3. CASE \/ StopRequested \/ ResumeRequested \/ PassBegins \/ DrainDone
           \/ Scan \/ CleanupBegins \/ CleanupDone
  BY <1>2, <1>3
     DEF StopRequested, ResumeRequested, PassBegins, DrainDone, Scan,
         CleanupBegins, CleanupDone, FrozenInv
<1>4. CASE DrainOne
  <2>1. PICK p \in todo, ok \in BOOLEAN :
          /\ NtResumeProcess(p, ok)
          /\ IF ok THEN /\ suspended' = suspended \ {p}
                        /\ pc' = "unregister" /\ current' = {p}
                   ELSE pc' = "drain" /\ suspended' = suspended
    BY <1>4 DEF DrainOne
  <2> QED
    BY <1>0, <2>1, ResumeEffect DEF FrozenInv
<1>5. CASE CleanupOne
  <2>1. PICK p \in todo, ok \in BOOLEAN :
          /\ NtResumeProcess(p, ok)
          /\ suspended' = suspended \ {p}
          /\ IF ok THEN pc' = "unregister" /\ current' = {p}
                   ELSE pc' = "cleanup"
    BY <1>5 DEF CleanupOne
  <2>2. ~ok => p \notin Frozen
    <3>1. p \in alive => "scan" \in Faults
      BY <1>5, <2>1 DEF CleanupOne, ScanInv, InCleanup
    <3> QED
      BY <1>0, <2>1, <3>1, ResumeEffect DEF FrozenInv, BenignFaults, Frozen
  <2> QED
    BY <1>0, <2>1, <2>2, ResumeEffect DEF FrozenInv
<1>6. ASSUME NEW p \in Pid, Resume(p)
      PROVE  Kept
  <2>1. PICK ok \in BOOLEAN :
          /\ NtResumeProcess(p, ok)
          /\ IF ok THEN /\ suspended' = suspended \ {p}
                        /\ pc' = "unregister" /\ current' = {p}
                   ELSE pc' = "ensure" /\ suspended' = suspended
    BY <1>6 DEF Resume, Visit
  <2> QED
    BY <1>0, <2>1, ResumeEffect DEF FrozenInv
<1>7. ASSUME NEW p \in Pid, HeartbeatResumes(p)
      PROVE  Kept
  <2>1. PICK ok \in BOOLEAN :
          /\ NtResumeProcess(p, ok)
          /\ suspended' = suspended /\ p \in suspended
          /\ IF ok THEN pc' = "probe" /\ current' = {p}
                   ELSE pc' = "ensure"
    BY <1>7 DEF HeartbeatResumes, Visit
  <2> QED
    BY <1>0, <2>1, ResumeEffect DEF FrozenInv
<1>8. ASSUME NEW p \in Pid, NoRoom(p) \/ KeepAsIs(p)
      PROVE  Kept
  BY <1>2, <1>8 DEF NoRoom, KeepAsIs, Visit, FrozenInv
<1>9. ASSUME NEW p \in Pid, Register(p)
      PROVE  Kept
  <2>1. /\ UNCHANGED processVars /\ suspended' = suspended
        /\ p \notin suspended
        /\ \/ pc' = "ensure"
           \/ pc' = "suspend" /\ current' = {p} /\ active_recovery_journal
    BY <1>9 DEF Register, Visit
  <2>2. active_recovery_journal => suspend_count[p] = 0
    BY <2>1, CountZero DEF FrozenInv
  <2> QED
    BY <1>2, <2>1, <2>2 DEF FrozenInv
<1>10. CASE SuspendCurrent
  <2>1. PICK p \in current, ok \in BOOLEAN :
          /\ NtSuspendProcess(p, ok)
          /\ IF ok THEN pc' = "ensure" /\ suspended' = suspended \cup {p}
                   ELSE /\ pc' = "unregister" /\ current' = {p}
                        /\ suspended' = suspended
    BY <1>10 DEF SuspendCurrent
  <2>2. suspend_count[p] = 0 /\ p \in Pid
    BY <1>0, <1>10, <2>1 DEF SuspendCurrent, FrozenInv
  <2> QED
    BY <1>0, <2>1, <2>2, SuspendEffect DEF FrozenInv
<1>11. CASE HeartbeatSuspends
  <2>1. PICK p \in current, ok \in BOOLEAN :
          /\ NtSuspendProcess(p, ok)
          /\ IF ok THEN pc' = "ensure" /\ suspended' = suspended
                   ELSE /\ pc' = "unregister" /\ current' = {p}
                        /\ suspended' = suspended \ {p}
    BY <1>11 DEF HeartbeatSuspends, HeartbeatGivesUp
  <2>2. suspend_count[p] = 0 /\ p \in Pid /\ p \in suspended
    BY <1>0, <1>11, <2>1 DEF HeartbeatSuspends, FrozenInv, JournaledInv
  <2>3. p \notin Frozen
    BY <1>0, <2>2 DEF Frozen
  <2> QED
    BY <1>0, <2>1, <2>2, <2>3, SuspendEffect DEF FrozenInv
<1>12. CASE HeartbeatProbes
  <2>1. PICK p \in current :
          \/ pc' = "resuspend" /\ current' = {p} /\ suspended' = suspended
          \/ /\ pc' = "unregister" /\ current' = {p}
             /\ suspended' = suspended \ {p}
    BY <1>12 DEF HeartbeatProbes, HeartbeatGivesUp
  <2>2. UNCHANGED processVars /\ p \in suspended /\ suspend_count[p] = 0
    BY <1>12, <2>1 DEF HeartbeatProbes, FrozenInv, JournaledInv
  <2>3. p \notin Frozen
    BY <2>2 DEF Frozen
  <2> QED
    BY <1>2, <2>1, <2>2, <2>3 DEF FrozenInv
<1>13. CASE Unregister
  BY <1>2, <1>13 DEF Unregister, FrozenInv, TypeOK, GuardTypeOK
<1> QED
  BY <1>3, <1>4, <1>5, <1>6, <1>7, <1>8, <1>9, <1>10, <1>11, <1>12, <1>13
     DEF Loop, EnsureGroupState

(* In the loop the recovery guarantee is the guard's own knowledge: what   *)
(* is frozen is marked suspended, what is marked is in memory, and what is *)
(* in memory is on disk.  A guard without a broker neither freezes nor     *)
(* touches the file.                                                       *)
LEMMA RecoverableLoopStep ==
  ASSUME TypeOK, TypeOK', ArmedInv, Recoverable, Loop, ~GuardVanishes, Next,
         FrozenInv', JournaledInv', IdentityInv', MemoryIsOnDisk'
  PROVE  Recoverable'
<1>0. UNCHANGED <<active_recovery_journal, alive, creation_time>>
  BY LoopStays
<1>1. CASE active_recovery_journal
  <2> SUFFICES ASSUME NEW p \in Pid, p \in Frozen'
               PROVE  InstanceOf(p)' \in journal_file'
    BY DEF Recoverable, FrozenInstances, Frozen, TypeOK, ProcessesTypeOK
  <2>1. p \in PidsOf(records)'
    BY <1>0, <1>1 DEF FrozenInv, JournaledInv, SuspendedIsJournaled
  <2>2. PICK rec \in records' : rec.pid = p
    BY <2>1 DEF PidsOf
  <2>3. rec = InstanceOf(p)'
    BY <2>2 DEF IdentityInv, InstanceOf
  <2> QED
    BY <2>2, <2>3 DEF MemoryIsOnDisk
<1>2. CASE ~active_recovery_journal
  <2>1. UNCHANGED journal_file
    BY <1>2
       DEF Loop, StopRequested, ResumeRequested, PassBegins, DrainOne,
           DrainDone, Scan, EnsureGroupState, NoRoom, KeepAsIs, Register,
           Resume, HeartbeatResumes, SuspendCurrent, HeartbeatProbes,
           HeartbeatSuspends, Unregister, CleanupBegins, CleanupOne,
           CleanupDone, journalVars
  <2>2. ~(SuspendCurrent \/ HeartbeatSuspends)
    BY <1>2 DEF ArmedInv, SuspendCurrent, HeartbeatSuspends
  <2>3. suspend_count \in [Pid -> Nat] /\ suspend_count' \in [Pid -> Nat]
    BY BoundAssumption DEF TypeOK, ProcessesTypeOK
  <2>4. \A p \in Pid : suspend_count'[p] <= suspend_count[p]
    BY <2>2, <2>3, OnlyTheGuardSuspends
  <2>5. Frozen' \subseteq Frozen
    BY <1>0, <2>3, <2>4 DEF Frozen, TypeOK, ProcessesTypeOK
  <2> QED
    BY <1>0, <2>1, <2>5 DEF Recoverable, FrozenInstances, InstanceOf
<1> QED
  BY <1>1, <1>2

-----------------------------------------------------------------------------
LEMMA RecoveryInit == Init => RecoveryInv
<1> SUFFICES ASSUME Init PROVE RecoveryInv
  OBVIOUS
<1>1. /\ records = {} /\ journal_file = {} /\ Frozen = {}
      /\ FrozenInstances = {} /\ FrozenOnce
  BY DEF Init, JournalInit, ProcessesInit, Frozen, FrozenInstances, FrozenOnce
<1>2. \A r \in Runner : call[r] = NoCall
  BY DEF Init, BrokerInit
<1>3. \A g \in Generation : g \in Runner /\ BrokerFinished(g)
                              /\ broker[g] # "recovering"
  BY BoundAssumption DEF Init, BrokerInit, BrokerFinished, Generation, Runner
<1>4. JournaledInv /\ ArmedInv /\ MemoryIsOnDisk /\ Recoverable
  BY <1>1
     DEF Init, GuardInit, JournaledInv, SuspendedIsJournaled, ArmedInv,
         MemoryIsOnDisk, Recoverable
<1>5. IdentityInv /\ CallInv
  BY <1>1, <1>2 DEF IdentityInv, CallInv, NoCall
<1>6. SeparationInv
  <2>1. call[0].step = "idle"
    BY <1>2, BoundAssumption DEF Runner, NoCall
  <2> QED
    BY <1>1, <1>3, <2>1, BrokerInvInit DEF Init, GuardInit, SeparationInv
<1>7. FrozenInv /\ ScanInv /\ TableInv
  BY <1>1, TableInit
     DEF Init, GuardInit, FrozenInv, ScanInv, InPass, InCleanup
<1> QED
  BY <1>4, <1>5, <1>6, <1>7 DEF RecoveryInv

-----------------------------------------------------------------------------
(* What each single kind of failure can and cannot undo: these need only   *)
(* the absence of the one failure that would break them.                   *)

(* Unless a guard is started beside a broker at work, at most one of the   *)
(* guard's loop, its startup recovery and the brokers is at work at a time.*)
THEOREM OneAtWork == "overlap" \notin Faults => (Spec => []SeparationInv)
<1> SUFFICES ASSUME "overlap" \notin Faults PROVE Spec => []SeparationInv
  OBVIOUS
<1>1. Init => SeparationInv
  BY RecoveryInit DEF RecoveryInv
<1>2. TypeOK /\ SeparationInv /\ [Next]_vars => SeparationInv'
  BY SeparationStep
<1> QED
  BY <1>1, <1>2, TypeCorrect, PTL DEF Spec

(* Unless an identifier is reused, every record in memory, on disk or in   *)
(* the hands of a recovery call names the process it was made for.         *)
THEOREM RecordsNameTheirProcess ==
  "reuse" \notin Faults => (Spec => []IdentityInv)
<1> SUFFICES ASSUME "reuse" \notin Faults PROVE Spec => []IdentityInv
  OBVIOUS
<1>1. Init => IdentityInv
  BY RecoveryInit DEF RecoveryInv
<1>2. TypeOK /\ IdentityInv /\ [Next]_vars => IdentityInv'
  BY IdentityStep
<1> QED
  BY <1>1, <1>2, TypeCorrect, PTL DEF Spec

(* With no other writer of the file at work, what the guard has in memory  *)
(* is on disk, however many writes, moves and deletions fail               *)
(* (persist_journal).                                                      *)
THEOREM MemoryAlwaysOnDisk ==
  "overlap" \notin Faults => (Spec => []MemoryIsOnDisk)
<1> SUFFICES ASSUME "overlap" \notin Faults PROVE Spec => []MemoryIsOnDisk
  OBVIOUS
<1>1. Init => MemoryIsOnDisk
  BY RecoveryInit DEF RecoveryInv
<1>2. TypeOK /\ SeparationInv /\ MemoryIsOnDisk /\ [Next]_vars
        => MemoryIsOnDisk'
  BY MemoryStep
<1> QED
  BY <1>1, <1>2, TypeCorrect, OneAtWork, PTL DEF Spec

(* Every suspend is journaled before it occurs, for any number of          *)
(* processes and guards: the suspend count of a process rises only while   *)
(* the file names that very process.  No failure of a call undoes this,    *)
(* neither of the first suspend (ensure_group_state) nor of those of the   *)
(* heartbeat much later (run_suspend_heartbeat).                           *)
THEOREM EverySuspendJournaled ==
  "overlap" \notin Faults /\ "reuse" \notin Faults
    => (Spec => JournaledBeforeSuspend)
<1> DEFINE Journaled == \A p \in Pid : suspend_count'[p] > suspend_count[p]
                                         => InstanceOf(p) \in journal_file
<1>1. SUFFICES ASSUME "overlap" \notin Faults, "reuse" \notin Faults
               PROVE  Spec => JournaledBeforeSuspend
  OBVIOUS
<1>2. TypeOK /\ JournaledInv /\ IdentityInv /\ MemoryIsOnDisk /\ [Next]_vars
        => [Journaled]_vars
  <2> SUFFICES ASSUME TypeOK, JournaledInv, IdentityInv, MemoryIsOnDisk, Next,
                      NEW p \in Pid, suspend_count'[p] > suspend_count[p]
               PROVE  InstanceOf(p) \in journal_file
    OBVIOUS
  <2>1. SuspendCurrent \/ HeartbeatSuspends
    BY OnlyTheGuardSuspends
  <2>2. PICK q \in current, ok \in BOOLEAN : NtSuspendProcess(q, ok)
    BY <2>1 DEF SuspendCurrent, HeartbeatSuspends
  <2>3. q \in Pid /\ suspend_count \in [Pid -> Nat]
    BY <2>1, <2>2, BoundAssumption DEF TypeOK, GuardTypeOK, ProcessesTypeOK
  <2>4. p = q
    BY <2>2, <2>3 DEF NtSuspendProcess, processVars
  <2>5. q \in PidsOf(records)
    BY <2>1, <2>2
       DEF JournaledInv, SuspendedIsJournaled, SuspendCurrent,
           HeartbeatSuspends
  <2>6. InstanceOf(q) \in records
    BY <2>5, JournaledExists
  <2> QED
    BY <2>4, <2>6 DEF MemoryIsOnDisk
<1>3. Spec => [][Journaled]_vars
  BY <1>1, <1>2, TypeCorrect, JournaledInvHolds, RecordsNameTheirProcess,
     MemoryAlwaysOnDisk, PTL DEF Spec
<1> QED
  BY <1>3 DEF JournaledBeforeSuspend

-----------------------------------------------------------------------------
LEMMA RecoveryStep ==
  ASSUME BenignFaults, TypeOK, TypeOK', RecoveryInv, [Next]_vars
  PROVE  RecoveryInv'
<1> USE DEF RecoveryInv
<1>1. /\ JournaledInv' /\ ArmedInv' /\ TableInv' /\ IdentityInv'
      /\ SeparationInv' /\ ScanInv' /\ MemoryIsOnDisk'
  BY JournaledStep, ArmedStep, TableStep, IdentityStep, SeparationStep,
     ScanStep, MemoryStep DEF BenignFaults
<1>2. SUFFICES FrozenInv' /\ CallInv' /\ Recoverable'
  BY <1>1
<1>3. CASE ProcessStep
  BY <1>3, FrozenProcessStep
<1>4. ASSUME NEW g \in Generation, BrokerStep(g) \/ BrokerDeath(g)
      PROVE  FrozenInv' /\ CallInv' /\ Recoverable'
  BY <1>4, FrozenBrokerStep
<1>5. CASE GuardVanishes \/ GuardStarts \/ Startup
  BY <1>5, FrozenStartupStep
<1>6. CASE Loop /\ ~GuardVanishes /\ Next
  <2>1. FrozenInv'
    BY <1>6, FrozenLoopStep
  <2>2. Recoverable'
    BY <1>1, <1>6, <2>1, RecoverableLoopStep
  <2>3. CallInv'
    <3>1. pc \in LoopStages /\ UNCHANGED call
      BY <1>6, LoopStays
    <3>2. \A r \in Runner : call[r].step = "idle"
      <4>1. \A g \in Generation : call[g].step = "idle"
        BY <3>1 DEF SeparationInv, BrokerInv, LoopStages
      <4>2. call[0].step = "idle"
        BY <3>1 DEF SeparationInv, BrokerInv, LoopStages
      <4> QED
        BY <4>1, <4>2, BoundAssumption DEF Generation, Runner
    <3> QED
      BY <3>1, <3>2 DEF CallInv
  <2> QED
    BY <2>1, <2>2, <2>3
<1>7. CASE UNCHANGED vars
  BY <1>7
     DEF vars, processVars, journalVars, brokerVars, guardVars, trackedVars,
         controlVars, loopVars, FrozenInv, FrozenOnce, Frozen, CallInv,
         Recoverable, FrozenInstances, InstanceOf
<1> QED
  BY <1>3, <1>4, <1>5, <1>6, <1>7
     DEF Next, GuardStep, GuardCrashes, run_browser_guard

(* The inductive invariant of the recovery core, of which the guarantees   *)
(* below are parts.                                                        *)
THEOREM RecoveryInvHolds == BenignFaults => (Spec => []RecoveryInv)
<1> SUFFICES ASSUME BenignFaults PROVE Spec => []RecoveryInv
  OBVIOUS
<1>1. Init => RecoveryInv
  BY RecoveryInit
<1>2. TypeOK /\ TypeOK' /\ RecoveryInv /\ [Next]_vars => RecoveryInv'
  BY RecoveryStep
<1> QED
  BY <1>1, <1>2, TypeCorrect, PTL DEF Spec

-----------------------------------------------------------------------------
(* The recovery guarantee for any number of processes and guards: every    *)
(* frozen process is named, with its creation time, in the journal file    *)
(* from which a broker or the next guard resumes it - whenever the guard   *)
(* is killed, and whichever benign failures occur.                         *)
THEOREM AlwaysRecoverable == BenignFaults => (Spec => []Recoverable)
<1>1. SUFFICES ASSUME BenignFaults PROVE Spec => []Recoverable
  OBVIOUS
<1>2. RecoveryInv => Recoverable
  BY DEF RecoveryInv
<1> QED
  BY <1>1, <1>2, RecoveryInvHolds, PTL

(* No process is ever suspended twice, so that a single resume frees it.   *)
THEOREM NeverFrozenTwice == BenignFaults => (Spec => []FrozenOnce)
<1>1. SUFFICES ASSUME BenignFaults PROVE Spec => []FrozenOnce
  OBVIOUS
<1>2. RecoveryInv => FrozenOnce
  BY DEF RecoveryInv, FrozenInv
<1> QED
  BY <1>1, <1>2, RecoveryInvHolds, PTL
=============================================================================
