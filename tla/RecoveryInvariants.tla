------------------------- MODULE RecoveryInvariants -------------------------
(***************************************************************************)
(* The inductive invariants behind the safety properties of                *)
(* RecoverySystem.  They are checked by TLC as invariants of the runs and  *)
(* proved in the modules whose names end in _proof.                        *)
(***************************************************************************)
EXTENDS RecoverySystem

(* Journaling, under every failure.  Why SuspendedIsJournaled survives     *)
(* each step: a process is suspended only between its registration and its *)
(* unregistration, and a guard that is not in its loop has no entries.     *)
JournaledInv ==
  /\ SuspendedIsJournaled
  /\ pc = "suspend" => current \subseteq PidsOf(records)
  /\ pc \in {"probe", "resuspend"} => current \subseteq suspended
  /\ pc \in {"suspend", "unregister"} => current \cap suspended = {}
  /\ pc \notin LoopStages => suspended = {}

(* Suspending, under every failure.  Why FreezeNeedsBroker holds of each   *)
(* step: without a broker nothing is registered, so nothing is suspended.  *)
ArmedInv ==
  /\ active_recovery_journal => guard_process \in ready
  /\ pc = "down" => ~active_recovery_journal
  /\ pc \in {"suspend", "probe", "resuspend"} => active_recovery_journal
  /\ suspended # {} => active_recovery_journal

(* The table, under every failure.  Why EntriesLive holds of each step:    *)
(* what is suspended or to be left alone has an entry, and what is about   *)
(* to be suspended is not to be left alone.                                *)
TableInv ==
  /\ suspended \cup suspend_disabled \subseteq tracked
  /\ pc \in {"suspend", "probe", "resuspend"} =>
       /\ current \subseteq tracked
       /\ current \cap suspend_disabled = {}

(* Brokers, under every failure.  Why no broker is started twice: the      *)
(* number of a broker is that of the guard that starts it, and until that  *)
(* guard has launched its broker there is none with that number.           *)
BrokerInv ==
  /\ guard_process = IF pc = "down" THEN 0 ELSE launched
  /\ pc # "down" => launched # 0
  /\ pc \in {"recover", "init", "launch"} => broker[launched] = "absent"
  /\ \A g \in Generation :
       /\ g > launched => broker[g] = "absent"
       /\ call[g].step = "idle" <=> broker[g] # "recovering"

-----------------------------------------------------------------------------
(* Recoverability, under the failures of BenignFaults.                     *)

(* The environment does not defeat the recovery protocol: identifiers are  *)
(* not reused, no guard starts beside a broker at work, a record that is   *)
(* compared with its live process is recognised, and not both the          *)
(* enumeration and the resuming of one live process fail.                  *)
BenignFaults ==
  /\ "reuse" \notin Faults
  /\ "overlap" \notin Faults
  /\ "inspect" \notin Faults
  /\ ~({"scan", "resume"} \subseteq Faults)

(* Every record in memory, on disk or in the hands of a recovery call      *)
(* still names what its identifier names.                                  *)
IdentityInv ==
  /\ \A rec \in records \cup journal_file : rec = InstanceOf(rec.pid)
  /\ \A r \in Runner : \A rec \in call[r].left \cup call[r].current :
       rec = InstanceOf(rec.pid)

(* At most one of them is at work: the guard's loop, the guard's startup   *)
(* recovery, and the broker of the guard that was started last.            *)
SeparationInv ==
  /\ BrokerInv
  /\ \A g \in Generation : BrokerFinished(g) \/ g = launched
  /\ \A g \in Generation : broker[g] = "recovering" => pc = "down"
  /\ call[0].step # "idle" => pc = "recover"
  /\ pc \notin LoopStages => records = {}

(* What the guard knows of the processes that are frozen.                  *)
FrozenInv ==
  /\ FrozenOnce
  /\ active_recovery_journal => Frozen \subseteq suspended
  /\ pc \in {"init", "launch", "wait"} => Frozen = {}
  /\ pc \in {"suspend", "probe", "resuspend", "unregister"} =>
       \A p \in current : suspend_count[p] = 0

(* What a recovery call owes: as long as it has resolved every record, the *)
(* frozen processes are among those it has still to resume.                *)
CallInv ==
  \A r \in Runner :
    /\ call[r].step \in {"load", "check"} => call[r].current = {}
    /\ \A rec1, rec2 \in call[r].current : rec1 = rec2
    /\ call[r].all_resolved /\ call[r].step \in {"check", "attempt", "resume"}
         => FrozenInstances \subseteq call[r].left \cup call[r].current
    /\ call[r].all_resolved /\ call[r].step = "returned" => Frozen = {}

(* Without enumeration failures an entry that a pass did not see belongs   *)
(* to a process that has exited.                                           *)
InPass == \/ pc \in {"ensure", "suspend", "probe", "resuspend"}
          \/ pc = "unregister" /\ return_to = "ensure"
InCleanup == \/ pc = "cleanup"
             \/ pc = "unregister" /\ return_to = "cleanup"
ScanInv ==
  "scan" \in Faults \/
    /\ pc \in {"suspend", "probe", "resuspend", "unregister"} \/ current = {}
    /\ InPass => /\ (suspended \ seen) \cap alive = {}
                 /\ todo \cup current \subseteq seen
    /\ InCleanup => todo \cap alive = {} /\ todo \subseteq suspended

(* While resume_all_tracked is at work, what it has still to visit includes *)
(* every entry that is suspended, if resuming a live process never fails.  *)
InDrain == \/ pc = "drain"
           \/ pc = "unregister" /\ return_to = "drain"
DrainInv ==
  "resume" \in Faults \/ (InDrain => suspended \cap alive \subseteq todo)

RecoveryInv ==
  /\ JournaledInv
  /\ ArmedInv
  /\ TableInv
  /\ IdentityInv
  /\ SeparationInv
  /\ FrozenInv
  /\ CallInv
  /\ ScanInv
  /\ MemoryIsOnDisk
  /\ Recoverable

-----------------------------------------------------------------------------
(* Who has the frozen processes in hand, if brokers do their work: reading *)
(* the file and resuming a live process do not fail, and no broker dies.   *)
BrokersWork ==
  /\ BenignFaults
  /\ {"load", "resume", "broker"} \cap Faults = {}

(* A broker that announced itself waits for as long as its guard runs, the *)
(* broker of the guard that was started last is the one that has the       *)
(* frozen processes in hand, and it does not return before they run.  That *)
(* a record was given up does not matter: its process is gone.             *)
WatchInv ==
  /\ \A g \in Generation :
       /\ g \in ready => broker[g] \notin {"absent", "starting"}
       /\ call[g].step \in {"check", "attempt", "resume"}
            => FrozenInstances \subseteq call[g].left \cup call[g].current
       /\ call[g].step = "returned" => Frozen = {}
  /\ pc # "down" /\ launched \in ready => broker[launched] = "waiting"
  /\ Frozen # {} => /\ launched \in Generation
                    /\ broker[launched] \in {"waiting", "recovering"}
=============================================================================
