------------------------------- MODULE Guard --------------------------------
(***************************************************************************)
(* The guard process (run_browser_guard and the functions it calls in      *)
(* src/browser_guard.c) as far as it freezes and thaws processes.          *)
(*                                                                         *)
(* The guard has one thread.  pc says which call it makes next; a step is  *)
(* one call that another process can observe (a suspend, a resume, a       *)
(* journal update) together with the assignments around it.  Between steps *)
(* processes come and go, brokers run, and the guard itself may be killed. *)
(*                                                                         *)
(* Time and windows are abstracted: the grace periods, the heartbeat       *)
(* deadline and what a scan observes may have any value in any pass.       *)
(***************************************************************************)
EXTENDS RecoveryBroker

Policy == INSTANCE SuspendPolicy

VARIABLES
  launched,          \* guards started so far
  pc,                \* the next call of the running guard
  return_to,         \* where bg_recovery_journal_unregister returns to
  leaving,           \* resume_all_tracked is the one after the loop
  active_recovery_journal,  \* that pointer is not NULL
  tracked,           \* the identifiers that have a TrackedProcess
  suspended,         \* ... whose suspended flag is set
  suspend_disabled,  \* ... whose suspend_disabled flag is set
  seen,              \* ... whose seen_this_pass flag the pass will set
  todo,              \* what the current loop has still to visit
  current            \* the identifier being worked on, if any

trackedVars == <<tracked, suspended, suspend_disabled>>
controlVars == <<launched, return_to, leaving, active_recovery_journal>>
loopVars == <<seen, todo, current>>
guardVars == <<pc, trackedVars, controlVars, loopVars>>

Stages == {"down", "recover", "init", "launch", "wait", "setup", "pump",
           "drain", "scan", "ensure", "suspend", "probe", "resuspend",
           "unregister", "cleanup"}

(* The stages of run_browser_guard's main loop and of its way out.         *)
LoopStages == {"pump", "drain", "scan", "ensure", "suspend", "probe",
               "resuspend", "unregister", "cleanup"}

GuardTypeOK ==
  /\ launched \in Runner
  /\ pc \in Stages
  /\ return_to \in {"drain", "ensure", "cleanup"}
  /\ leaving \in BOOLEAN
  /\ active_recovery_journal \in BOOLEAN
  /\ tracked \subseteq Pid
  /\ suspended \subseteq Pid
  /\ suspend_disabled \subseteq Pid
  /\ seen \subseteq Pid
  /\ todo \subseteq Pid
  /\ current \subseteq Pid

GuardInit ==
  /\ launched = 0
  /\ pc = "down"
  /\ return_to = "ensure"
  /\ leaving = FALSE
  /\ active_recovery_journal = FALSE
  /\ tracked = {}
  /\ suspended = {}
  /\ suspend_disabled = {}
  /\ seen = {}
  /\ todo = {}
  /\ current = {}

(* The process is gone and its memory with it.                             *)
GuardVanishes ==
  /\ guard_process' = 0
  /\ pc' = "down"
  /\ return_to' = "ensure"
  /\ leaving' = FALSE
  /\ active_recovery_journal' = FALSE
  /\ tracked' = {}
  /\ suspended' = {}
  /\ suspend_disabled' = {}
  /\ seen' = {}
  /\ todo' = {}
  /\ current' = {}
  /\ records' = {}
  /\ call' = [call EXCEPT ![0] = NoCall]
  /\ UNCHANGED <<processVars, journal_file, broker, ready, launched>>

-----------------------------------------------------------------------------
(* Startup.                                                                *)

(* The shutdown event keeps a second guard from running beside a first.    *)
(* Nothing keeps a guard from starting while an earlier broker recovers.   *)
GuardStarts ==
  /\ pc = "down"
  /\ launched < MaxGuards
  /\ "overlap" \in Faults \/ \A g \in Generation : BrokerFinished(g)
  /\ launched' = launched + 1
  /\ guard_process' = launched'
  /\ pc' = "recover"
  /\ call' = [call EXCEPT ![0] = Called]
  /\ UNCHANGED <<processVars, journalVars, broker, ready, trackedVars,
                 return_to, leaving, active_recovery_journal, loopVars>>

(* Every step of startup after that leaves these alone.                    *)
StartupFrame == UNCHANGED <<processVars, guard_process, trackedVars, launched,
                            return_to, leaving, loopVars>>

RecoverStale ==
  /\ pc = "recover"
  /\ bg_recover_journal_file(0)
  /\ UNCHANGED guardVars

(* Mutant: what startup recovery returned is not looked at.                *)
StaleRecovered_IgnoresResult ==
  /\ pc = "recover"
  /\ call[0].step = "returned"
  /\ pc' = "init"
  /\ call' = [call EXCEPT ![0] = NoCall]
  /\ StartupFrame
  /\ UNCHANGED <<journalVars, broker, ready, active_recovery_journal>>

StaleRecovered ==
  /\ pc = "recover"
  /\ call[0].step = "returned"
  /\ pc' = IF call[0].all_resolved THEN "init" ELSE "setup"
  /\ call' = [call EXCEPT ![0] = NoCall]
  /\ StartupFrame
  /\ UNCHANGED <<journalVars, broker, ready, active_recovery_journal>>

InitJournal ==
  /\ pc = "init"
  /\ bg_recovery_journal_init
  /\ pc' = "launch"
  /\ StartupFrame
  /\ UNCHANGED <<brokerVars, active_recovery_journal>>

LaunchBroker ==
  /\ pc = "launch"
  /\ \/ /\ pc' = "wait"
        /\ broker' = [broker EXCEPT ![guard_process] = "starting"]
     \/ /\ "launch" \in Faults
        /\ pc' = "setup"
        /\ UNCHANGED broker
  /\ StartupFrame
  /\ UNCHANGED <<journalVars, ready, call, active_recovery_journal>>

(* Mutant: any end of the wait counts as success.                          *)
AwaitBroker_AnyEnd ==
  /\ pc = "wait"
  /\ \/ guard_process \in ready
     \/ broker[guard_process] = "exited" \/ "launch" \in Faults
  /\ active_recovery_journal' = TRUE
  /\ pc' = "setup"
  /\ StartupFrame
  /\ UNCHANGED <<journalVars, brokerVars>>

(* The wait for the ready event ends when it is set, when the broker       *)
(* exits, or after 5000 ms, which leaves the broker running.               *)
AwaitBroker ==
  /\ pc = "wait"
  /\ \/ /\ guard_process \in ready
        /\ active_recovery_journal' = TRUE
     \/ /\ guard_process \notin ready
        /\ broker[guard_process] = "exited" \/ "launch" \in Faults
        /\ UNCHANGED active_recovery_journal
  /\ pc' = "setup"
  /\ StartupFrame
  /\ UNCHANGED <<journalVars, brokerVars>>

(* COM, the console handler and the overlay: a failure ends the guard.     *)
SetUp ==
  /\ pc = "setup"
  /\ \/ /\ pc' = "pump"
        /\ StartupFrame
        /\ UNCHANGED <<journalVars, brokerVars, active_recovery_journal>>
     \/ GuardVanishes

Startup ==
  \/ RecoverStale
  \/ StaleRecovered
  \/ InitJournal
  \/ LaunchBroker
  \/ AwaitBroker
  \/ SetUp

-----------------------------------------------------------------------------
(* The loop of run_browser_guard.                                          *)

(* No step of the loop starts or ends a process, or touches a broker.      *)
LoopFrame == UNCHANGED <<guard_process, brokerVars, launched,
                         active_recovery_journal>>

(* Every assignment to pc, with the bookkeeping that goes with it.         *)
Goto(stage) == pc' = stage /\ UNCHANGED <<return_to, current>>
CallOn(p, stage) ==
  pc' = stage /\ current' = {p} /\ UNCHANGED return_to
UnregisterThen(p, stage) ==
  pc' = "unregister" /\ current' = {p} /\ return_to' = stage

(* Mutant: only entries whose seen_this_pass flag is set are resumed.      *)
StopRequested_SeenOnly ==
  /\ pc = "pump"
  /\ Goto("drain")
  /\ leaving' = TRUE
  /\ todo' = suspended \cap seen
  /\ LoopFrame
  /\ UNCHANGED <<processVars, journalVars, trackedVars, seen>>

(* The end of pump_ui_messages and the head of the loop: a stop request    *)
(* (event or console signal), a request to resume, or another pass.        *)
StopRequested ==
  /\ pc = "pump"
  /\ Goto("drain")
  /\ leaving' = TRUE
  /\ todo' = suspended
  /\ LoopFrame
  /\ UNCHANGED <<processVars, journalVars, trackedVars, seen>>

ResumeRequested ==
  /\ pc = "pump"
  /\ Goto("drain")
  /\ todo' = suspended
  /\ LoopFrame
  /\ UNCHANGED <<processVars, journalVars, trackedVars, leaving, seen>>

PassBegins ==
  /\ pc = "pump"
  /\ Goto("scan")
  /\ LoopFrame
  /\ UNCHANGED <<processVars, journalVars, trackedVars, leaving, seen, todo>>

(* resume_all_tracked: an entry whose resume fails stays as it is.         *)
DrainOne ==
  /\ pc = "drain"
  /\ \E p \in todo, ok \in BOOLEAN :
       /\ NtResumeProcess(p, ok)
       /\ todo' = todo \ {p}
       /\ IF ok THEN /\ suspended' = suspended \ {p}
                     /\ UnregisterThen(p, "drain")
                ELSE Goto("drain") /\ UNCHANGED suspended
  /\ LoopFrame
  /\ UNCHANGED <<journalVars, tracked, suspend_disabled, leaving, seen>>

DrainDone ==
  /\ pc = "drain"
  /\ todo = {}
  /\ IF leaving
     THEN GuardVanishes
     ELSE /\ Goto("scan")
          /\ LoopFrame
          /\ UNCHANGED <<processVars, journalVars, trackedVars, leaving, seen,
                         todo>>

(* collect_browser_groups: the browser processes the enumeration finds.    *)
Scan ==
  /\ pc = "scan"
  /\ Goto("ensure")
  /\ seen' \in IF "scan" \in Faults THEN SUBSET alive ELSE {alive}
  /\ todo' = seen'
  /\ LoopFrame
  /\ UNCHANGED <<processVars, journalVars, trackedVars, leaving>>

-----------------------------------------------------------------------------
(* ensure_group_state, one process after the other.                        *)

(* What the policy may decide, whatever the pass observed, for an entry    *)
(* with the given suspend_disabled flag.  A count of one stands for every  *)
(* positive count.                                                         *)
DecisionOf ==
  [disabled \in BOOLEAN |->
     {Policy!evaluate_suspend_policy(input).should_suspend :
        input \in {i \in Policy!SuspendPolicyInput({0, 1}) :
                     i.suspend_disabled = disabled}}]

(* p is visited and the policy says should_suspend; a process without an   *)
(* entry gets one while there is room.                                     *)
Visit(p, should_suspend) ==
  /\ pc = "ensure"
  /\ p \in todo
  /\ p \in tracked \/ Cardinality(tracked) < MaxTracked
  /\ should_suspend \in DecisionOf[(p \in suspend_disabled)]
  /\ tracked' = tracked \cup {p}
  /\ todo' = todo \ {p}
  /\ LoopFrame
  /\ UNCHANGED <<leaving, seen>>

NoRoom(p) ==
  /\ pc = "ensure"
  /\ p \in todo
  /\ p \notin tracked /\ Cardinality(tracked) >= MaxTracked
  /\ Goto("ensure")
  /\ todo' = todo \ {p}
  /\ LoopFrame
  /\ UNCHANGED <<processVars, journalVars, trackedVars, leaving, seen>>

(* Nothing to change, and no heartbeat is due.                             *)
KeepAsIs(p) ==
  /\ Visit(p, p \in suspended)
  /\ Goto("ensure")
  /\ UNCHANGED <<processVars, journalVars, suspended, suspend_disabled>>

(* Mutant: a failed registration does not stop the suspend.                *)
Register_IgnoresResult(p) ==
  /\ p \notin suspended
  /\ Visit(p, TRUE)
  /\ \E found \in query_recovery_record(p), registered \in BOOLEAN :
       IF active_recovery_journal
       THEN bg_recovery_journal_register(p, found, registered)
       ELSE ~registered /\ UNCHANGED journalVars
  /\ CallOn(p, "suspend")
  /\ UNCHANGED <<processVars, suspended, suspend_disabled>>

(* Suspending begins with the journal; a process that cannot be recorded   *)
(* is never suspended by this guard.                                       *)
Register(p) ==
  /\ p \notin suspended
  /\ Visit(p, TRUE)
  /\ \E found \in query_recovery_record(p), registered \in BOOLEAN :
       /\ IF active_recovery_journal
          THEN bg_recovery_journal_register(p, found, registered)
          ELSE ~registered /\ UNCHANGED journalVars
       /\ IF registered
          THEN CallOn(p, "suspend") /\ UNCHANGED suspend_disabled
          ELSE /\ Goto("ensure")
               /\ suspend_disabled' = suspend_disabled \cup {p}
  /\ UNCHANGED <<processVars, suspended>>

SuspendCurrent ==
  /\ pc = "suspend"
  /\ \E p \in current, ok \in BOOLEAN :
       /\ NtSuspendProcess(p, ok)
       /\ IF ok THEN /\ suspended' = suspended \cup {p}
                     /\ pc' = "ensure" /\ current' = {} /\ UNCHANGED return_to
                ELSE /\ UnregisterThen(p, "ensure")
                     /\ UNCHANGED suspended
  /\ LoopFrame
  /\ UNCHANGED <<journalVars, tracked, suspend_disabled, leaving, seen, todo>>

Resume(p) ==
  /\ p \in suspended
  /\ Visit(p, FALSE)
  /\ \E ok \in BOOLEAN :
       /\ NtResumeProcess(p, ok)
       /\ IF ok THEN /\ suspended' = suspended \ {p}
                     /\ UnregisterThen(p, "ensure")
                ELSE Goto("ensure") /\ UNCHANGED suspended
  /\ UNCHANGED <<journalVars, suspend_disabled>>

(* bg_recovery_journal_unregister, called after a resume that worked or a  *)
(* suspend that did not.                                                   *)
Unregister ==
  /\ pc = "unregister"
  /\ \E p \in current : IF active_recovery_journal
                        THEN bg_recovery_journal_unregister(p)
                        ELSE UNCHANGED journalVars
  /\ pc' = return_to
  /\ return_to' = "ensure"
  /\ current' = {}
  /\ LoopFrame
  /\ UNCHANGED <<processVars, trackedVars, leaving, seen, todo>>

-----------------------------------------------------------------------------
(* run_suspend_heartbeat: the process is resumed, its window is probed and *)
(* it is suspended again, with its flag and its record in place throughout.*)
(* Mutant: a resume that failed is followed by probe and suspend.          *)
HeartbeatResumes_IgnoresResult(p) ==
  /\ p \in suspended
  /\ Visit(p, TRUE)
  /\ \E ok \in BOOLEAN : NtResumeProcess(p, ok)
  /\ CallOn(p, "probe")
  /\ UNCHANGED <<journalVars, suspended, suspend_disabled>>

HeartbeatResumes(p) ==
  /\ p \in suspended
  /\ Visit(p, TRUE)
  /\ \E ok \in BOOLEAN :
       /\ NtResumeProcess(p, ok)
       /\ IF ok THEN CallOn(p, "probe") /\ UNCHANGED suspend_disabled
                ELSE /\ Goto("ensure")
                     /\ suspend_disabled' = suspend_disabled \cup {p}
  /\ UNCHANGED <<journalVars, suspended>>

(* Mutant: the flag is not cleared.                                        *)
HeartbeatGivesUp_KeepsFlag(p) ==
  /\ suspend_disabled' = suspend_disabled \cup {p}
  /\ UnregisterThen(p, "ensure")
  /\ UNCHANGED suspended

(* The process runs and will not be suspended again.                       *)
HeartbeatGivesUp(p) ==
  /\ suspended' = suspended \ {p}
  /\ suspend_disabled' = suspend_disabled \cup {p}
  /\ UnregisterThen(p, "ensure")

HeartbeatProbes ==
  /\ pc = "probe"
  /\ \E p \in current :
       \/ CallOn(p, "resuspend") /\ UNCHANGED <<suspended, suspend_disabled>>
       \/ HeartbeatGivesUp(p)
  /\ LoopFrame
  /\ UNCHANGED <<processVars, journalVars, tracked, leaving, seen, todo>>

HeartbeatSuspends ==
  /\ pc = "resuspend"
  /\ \E p \in current, ok \in BOOLEAN :
       /\ NtSuspendProcess(p, ok)
       /\ IF ok THEN /\ pc' = "ensure" /\ current' = {} /\ UNCHANGED return_to
                     /\ UNCHANGED <<suspended, suspend_disabled>>
                ELSE HeartbeatGivesUp(p)
  /\ LoopFrame
  /\ UNCHANGED <<journalVars, tracked, leaving, seen, todo>>

-----------------------------------------------------------------------------
(* cleanup_tracked_processes: entries the pass did not see are dropped,    *)
(* after an attempt to resume the suspended ones.                          *)
CleanupBegins ==
  /\ pc = "ensure"
  /\ todo = {}
  /\ Goto("cleanup")
  /\ todo' = suspended \ seen
  /\ tracked' = tracked \cap (seen \cup suspended)
  /\ suspend_disabled' = suspend_disabled \cap tracked'
  /\ seen' = {}
  /\ LoopFrame
  /\ UNCHANGED <<processVars, journalVars, suspended, leaving>>

CleanupOne ==
  /\ pc = "cleanup"
  /\ \E p \in todo, ok \in BOOLEAN :
       /\ NtResumeProcess(p, ok)
       /\ todo' = todo \ {p}
       /\ tracked' = tracked \ {p}
       /\ suspended' = suspended \ {p}
       /\ suspend_disabled' = suspend_disabled \ {p}
       /\ IF ok THEN UnregisterThen(p, "cleanup") ELSE Goto("cleanup")
  /\ LoopFrame
  /\ UNCHANGED <<journalVars, leaving, seen>>

CleanupDone ==
  /\ pc = "cleanup"
  /\ todo = {}
  /\ Goto("pump")
  /\ LoopFrame
  /\ UNCHANGED <<processVars, journalVars, trackedVars, leaving, seen, todo>>

-----------------------------------------------------------------------------
EnsureGroupState ==
  \/ \E p \in Pid : \/ NoRoom(p)
                    \/ KeepAsIs(p)
                    \/ Register(p)
                    \/ Resume(p)
                    \/ HeartbeatResumes(p)
  \/ SuspendCurrent
  \/ HeartbeatProbes
  \/ HeartbeatSuspends

Loop ==
  \/ StopRequested \/ ResumeRequested \/ PassBegins
  \/ DrainOne \/ DrainDone
  \/ Scan
  \/ EnsureGroupState
  \/ Unregister
  \/ CleanupBegins \/ CleanupOne \/ CleanupDone

run_browser_guard == Startup \/ Loop

(* The guard is killed, or ended by Windows at log-off, at any step.       *)
GuardCrashes == pc # "down" /\ GuardVanishes
=============================================================================
