--------------------------- MODULE RecoverySystem ---------------------------
(***************************************************************************)
(* The recovery core as a whole: the guard, its broker and those of        *)
(* earlier guards, the journal file between them, and the processes they   *)
(* freeze and thaw.                                                        *)
(***************************************************************************)
EXTENDS Guard

vars == <<processVars, journalVars, guard_process, brokerVars, guardVars>>

Init ==
  /\ ProcessesInit
  /\ JournalInit
  /\ BrokerInit
  /\ GuardInit

ProcessStep ==
  /\ \E p \in Pid : ProcessStarts(p) \/ ProcessExits(p)
  /\ UNCHANGED <<journalVars, guard_process, brokerVars, guardVars>>

BrokerStep(g) == run_recovery_broker(g) /\ UNCHANGED guardVars
BrokerDeath(g) == BrokerDies(g) /\ UNCHANGED guardVars

GuardStep == GuardStarts \/ run_browser_guard \/ GuardCrashes

Next ==
  \/ ProcessStep
  \/ \E g \in Generation : BrokerStep(g) \/ BrokerDeath(g)
  \/ GuardStep

Spec == Init /\ [][Next]_vars

(* A broker that runs is scheduled and its calls return.  Nothing is       *)
(* assumed of the guard, of the user who starts and stops it, or of the    *)
(* processes.                                                              *)
FairSpec ==
  /\ Spec
  /\ \A g \in Generation : WF_vars(BrokerStep(g))

TypeOK ==
  /\ ProcessesTypeOK
  /\ JournalTypeOK
  /\ BrokerTypeOK
  /\ GuardTypeOK

-----------------------------------------------------------------------------
(* Safety.                                                                 *)

(* Whatever fails, an entry of the guard that is marked suspended has a    *)
(* record for its identifier in the journal: the flag is set after         *)
(* bg_recovery_journal_register and cleared before                         *)
(* bg_recovery_journal_unregister on every path of ensure_group_state,     *)
(* run_suspend_heartbeat, resume_all_tracked and                           *)
(* cleanup_tracked_processes.                                              *)
SuspendedIsJournaled == suspended \subseteq PidsOf(records)

(* What the guard believes is on disk is on disk: with no other writer of  *)
(* the file at work, every record in memory is in the file, however many   *)
(* writes, moves and deletions have failed (persist_journal).              *)
MemoryIsOnDisk == records \subseteq journal_file

(* The recovery guarantee: every process that is frozen, by this guard or  *)
(* by one that is gone, is named with its creation time in the file from   *)
(* which a broker or the next guard will resume it - at every step, since  *)
(* the guard may be killed at every step.                                  *)
Recoverable == FrozenInstances \subseteq journal_file

(* No process is frozen twice: one NtResumeProcess, which is all that any  *)
(* path of the guard or of the broker calls, sets it running again.        *)
FrozenOnce == \A p \in Pid : suspend_count[p] <= 1

(* Every suspend is journaled before it occurs: a suspend count rises only *)
(* while the journal file names that very process (ensure_group_state, and *)
(* run_suspend_heartbeat, which suspends again much later).                *)
JournaledBeforeSuspend ==
  [][\A p \in Pid : suspend_count'[p] > suspend_count[p]
                       => InstanceOf(p) \in journal_file]_vars

(* A process is frozen only by a guard whose own broker has announced      *)
(* itself, that is, holds a handle to that guard.                          *)
FreezeNeedsBroker ==
  [][(\E p \in Pid : suspend_count'[p] > suspend_count[p])
       => guard_process \in ready]_vars

(* docs/safety.md: a failure in browser_guard must not leave a browser     *)
(* process suspended without an independent recovery path.  Where resuming *)
(* a live process and reading the file do not fail and no broker dies,     *)
(* some broker has every frozen process in hand: it waits for the guard to *)
(* exit, or has still to load the file, or has still to resume all that is *)
(* frozen.                                                                 *)
FrozenIsWatched ==
  Frozen # {} =>
    \E g \in Generation :
      \/ broker[g] = "waiting"
      \/ /\ broker[g] = "recovering"
         /\ \/ call[g].step = "load"
            \/ FrozenInstances \subseteq call[g].left \cup call[g].current

(* When resume_all_tracked returns, on the user's request or on the way    *)
(* out, no process is left frozen, provided that resuming never fails and  *)
(* that the guard could recover what its predecessors had left.            *)
DrainThawsAll ==
  pc = "drain" /\ todo = {} /\ active_recovery_journal => Frozen = {}

(* docs/architecture.md: "A record is removed only after normal resume     *)
(* succeeds."  No step takes from the file the record of a process that is *)
(* frozen.                                                                 *)
RecordRemovedOnlyAfterResume ==
  [][(journal_file \ journal_file') \cap FrozenInstances = {}]_vars

-----------------------------------------------------------------------------
(* Liveness.                                                               *)

(* When the guard is gone, every process that is frozen comes to run again *)
(* (or exits), or another guard is started.                                *)
CrashIsRecovered ==
  (pc = "down" /\ Frozen # {}) ~> (Frozen = {} \/ pc # "down")

(* Every broker finishes once its guard is gone, so no broker outlives its *)
(* guard for ever.                                                         *)
BrokerEventuallyExits ==
  \A g \in Generation :
    (broker[g] # "absent" /\ guard_process # g) ~> (broker[g] = "exited")

-----------------------------------------------------------------------------
(* Progress: how many steps a broker has left at most, if it runs at all.  *)
(* A record takes one check and two steps per attempt.                     *)
RecordWork == 2 * MaxAttempts + 1

(* After the record in hand: the records not yet taken up, the end of the  *)
(* call and that of the broker.                                            *)
WorkAfter(c) == Cardinality(c.left) * RecordWork + 2

CallWork(c) ==
  CASE c.step = "load" -> Cardinality(BgRecoveryRecord) * RecordWork + 3
    [] c.step = "check" -> WorkAfter(c)
    [] c.step = "attempt" -> WorkAfter(c) + 2 * (MaxAttempts - c.attempt)
    [] c.step = "resume" -> WorkAfter(c) + 2 * (MaxAttempts - c.attempt) - 1
    [] c.step = "returned" -> 1
    [] c.step = "idle" -> 0

BrokerWork(g) ==
  CASE broker[g] = "starting" -> CallWork(Called) + 2
    [] broker[g] = "waiting" -> CallWork(Called) + 1
    [] broker[g] = "recovering" -> CallWork(call[g])
    [] broker[g] \in {"absent", "exited"} -> 0

(* Whatever fails, every step of a broker brings it nearer to its exit,    *)
(* and nothing sets it back: neither the retries of a resume nor what the  *)
(* guard, another broker or a process does meanwhile.  So a broker's       *)
(* run_recovery_broker ends after a number of steps that the journal       *)
(* bounds.                                                                 *)
BrokerNearsItsEnd ==
  [][\A g \in Generation :
       broker[g] # "absent" =>
         \/ BrokerWork(g)' < BrokerWork(g)
         \/ UNCHANGED <<broker[g], call[g]>>]_vars

-----------------------------------------------------------------------------
(* Refinement: what is frozen, what the file names, and whether a guard is *)
(* running follow the promise - step by step, and with the fairness of the *)
(* brokers also in the long run.                                           *)
Promise == INSTANCE RecoveryPromise WITH
             Instance <- BgRecoveryRecord,
             frozen <- FrozenInstances,
             recorded <- journal_file,
             guarded <- (guard_process # 0)

KeepsPromise == Promise!Spec
KeepsPromiseInTheEnd == Promise!FairSpec

(* Each entry of the table leads the life of an EntryLife, whatever fails: *)
(* an entry that is to be left alone is not marked suspended again, and    *)
(* none is marked twice.  This is about the table: dropped_entry shows     *)
(* that a process may still be frozen when its entry is gone.              *)
Life(p) == INSTANCE EntryLife WITH
             tracked <- p \in tracked,
             suspended <- p \in suspended,
             protected <- p \in suspend_disabled

EntriesLive ==
  /\ \A p \in Pid : Life(p)!Init
  /\ [][\A p \in Pid : [Life(p)!Next]_(Life(p)!lifeVars)]_vars

(* What that means for the processes, whatever fails: a suspend count      *)
(* rises only while the guard has an entry for the process that is not to  *)
(* be left alone, at the first suspend of ensure_group_state and at the    *)
(* second one of run_suspend_heartbeat.                                    *)
SuspendsOnlyEntries ==
  [][\A p \in Pid : suspend_count'[p] > suspend_count[p]
                       => p \in tracked \ suspend_disabled]_vars
=============================================================================
