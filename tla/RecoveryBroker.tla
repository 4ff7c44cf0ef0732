--------------------------- MODULE RecoveryBroker ---------------------------
(***************************************************************************)
(* The recovery broker (src/recovery_main.c, src/recovery_broker.c): a     *)
(* process that waits for the guard that started it to exit and then       *)
(* resumes what the journal file names.                                    *)
(*                                                                         *)
(* bg_recover_journal_file is also called by a guard during its startup,   *)
(* so its progress is kept per runner: call[g] for the broker of guard g,  *)
(* call[0] for the guard that is starting.  Between any two of its steps   *)
(* processes may exit and start, and other runners may be at work.         *)
(***************************************************************************)
EXTENDS Processes, JournalSet

VARIABLES
  guard_process,  \* the guard now running, by number; 0 if there is none
  broker,         \* [Generation -> stage of that guard's broker]
  ready,          \* the brokers whose ready event is set
  call            \* [Runner -> progress of its bg_recover_journal_file]

brokerVars == <<broker, ready, call>>

BrokerStages == {"absent", "starting", "waiting", "recovering", "exited"}
CallSteps == {"idle", "load", "check", "attempt", "resume", "returned"}

(* left: the loaded records not yet taken up; current: the record being    *)
(* resumed, if any; attempt: the failed attempts at it; all_resolved: the  *)
(* local variable of that name and, once returned, the result.             *)
Call == [step : CallSteps,
         left : SUBSET BgRecoveryRecord,
         current : SUBSET BgRecoveryRecord,
         attempt : 0 .. MaxAttempts - 1,
         all_resolved : BOOLEAN]

NoCall == [step |-> "idle", left |-> {}, current |-> {},
           attempt |-> 0, all_resolved |-> TRUE]
Called == [step |-> "load", left |-> {}, current |-> {},
           attempt |-> 0, all_resolved |-> TRUE]

BrokerTypeOK ==
  /\ guard_process \in Runner
  /\ broker \in [Generation -> BrokerStages]
  /\ ready \subseteq Generation
  /\ call \in [Runner -> Call]

BrokerInit ==
  /\ guard_process = 0
  /\ broker = [g \in Generation |-> "absent"]
  /\ ready = {}
  /\ call = [r \in Runner |-> NoCall]

-----------------------------------------------------------------------------
(* bg_recover_journal_file, step by step.                                  *)

(* The buffer cannot be allocated, or the file cannot be opened or read.   *)
LoadFails(r) ==
  /\ call[r].step = "load"
  /\ "load" \in Faults
  /\ call' = [call EXCEPT ![r].step = "returned", ![r].all_resolved = FALSE]
  /\ UNCHANGED <<processVars, journalVars>>

(* Mutant: the records are not read, only the header.                      *)
LoadJournal_HeaderOnly(r) ==
  /\ call[r].step = "load"
  /\ call' = [call EXCEPT ![r].step = "check"]
  /\ UNCHANGED <<processVars, journalVars>>

LoadJournal(r) ==
  /\ call[r].step = "load"
  /\ call' = [call EXCEPT ![r].step = "check", ![r].left = journal_file]
  /\ UNCHANGED <<processVars, journalVars>>

(* Mutant: a record counts as resolved when it does match.                 *)
CheckRecord_Inverted(r) ==
  /\ call[r].step = "check"
  /\ \E rec \in call[r].left :
       \E matches \in bg_recovery_record_matches_process(rec) :
         call' = [call EXCEPT ![r] =
                    [step |-> IF matches THEN "check" ELSE "attempt",
                     left |-> @.left \ {rec},
                     current |-> IF matches THEN {} ELSE {rec},
                     attempt |-> 0,
                     all_resolved |-> @.all_resolved]]
  /\ UNCHANGED <<processVars, journalVars>>

(* A record that does not match its process counts as resolved.            *)
CheckRecord(r) ==
  /\ call[r].step = "check"
  /\ \E rec \in call[r].left :
       \E matches \in bg_recovery_record_matches_process(rec) :
         call' = [call EXCEPT ![r] =
                    [step |-> IF matches THEN "attempt" ELSE "check",
                     left |-> @.left \ {rec},
                     current |-> IF matches THEN {rec} ELSE {},
                     attempt |-> 0,
                     all_resolved |-> @.all_resolved]]
  /\ UNCHANGED <<processVars, journalVars>>

(* Mutants: one attempt too many; the attempts are not counted.            *)
AttemptFailed_OffByOne(r) ==
  IF call[r].attempt < MaxAttempts
  THEN call' = [call EXCEPT ![r].step = "attempt", ![r].attempt = @ + 1]
  ELSE call' = [call EXCEPT ![r].step = "check",
                            ![r].current = {},
                            ![r].attempt = 0,
                            ![r].all_resolved = FALSE]

AttemptFailed_Forever(r) == call' = [call EXCEPT ![r].step = "attempt"]

(* The attempt failed: sleep and try again, or leave the record unresolved *)
(* when no attempt is left.                                                *)
AttemptFailed(r) ==
  IF call[r].attempt + 1 < MaxAttempts
  THEN call' = [call EXCEPT ![r].step = "attempt", ![r].attempt = @ + 1]
  ELSE call' = [call EXCEPT ![r].step = "check",
                            ![r].current = {},
                            ![r].attempt = 0,
                            ![r].all_resolved = FALSE]

(* bg_resume_recovery_record looks at the identity once more...            *)
AttemptResume(r) ==
  /\ call[r].step = "attempt"
  /\ \E rec \in call[r].current :
       \E matches \in bg_recovery_record_matches_process(rec) :
         IF matches THEN call' = [call EXCEPT ![r].step = "resume"]
                    ELSE AttemptFailed(r)
  /\ UNCHANGED <<processVars, journalVars>>

(* ...and then opens whichever process holds the identifier and resumes it.*)
ResumeRecord(r) ==
  /\ call[r].step = "resume"
  /\ \E rec \in call[r].current, ok \in BOOLEAN :
       /\ NtResumeProcess(rec.pid, ok)
       /\ IF ok THEN call' = [call EXCEPT ![r].step = "check",
                                          ![r].current = {},
                                          ![r].attempt = 0]
                ELSE AttemptFailed(r)
  /\ UNCHANGED journalVars

(* Mutant: the journal is deleted whatever could not be resumed.           *)
FinishRecovery_Always(r) ==
  /\ call[r].step = "check"
  /\ call[r].left = {}
  /\ call' = [call EXCEPT ![r].step = "returned"]
  /\ \/ journal_file' = {}
     \/ "persist" \in Faults /\ UNCHANGED journal_file
  /\ UNCHANGED <<processVars, records>>

(* The journal is deleted when every record was resolved, unless deleting  *)
(* it fails.                                                               *)
FinishRecovery(r) ==
  /\ call[r].step = "check"
  /\ call[r].left = {}
  /\ call' = [call EXCEPT ![r].step = "returned"]
  /\ \/ call[r].all_resolved /\ journal_file' = {}
     \/ ~call[r].all_resolved /\ UNCHANGED journal_file
     \/ "persist" \in Faults /\ UNCHANGED journal_file
  /\ UNCHANGED <<processVars, records>>

bg_recover_journal_file(r) ==
  /\ \/ LoadFails(r)
     \/ LoadJournal(r)
     \/ CheckRecord(r)
     \/ AttemptResume(r)
     \/ ResumeRecord(r)
     \/ FinishRecovery(r)
  /\ UNCHANGED <<guard_process, broker, ready>>

-----------------------------------------------------------------------------
(* run_recovery_broker for guard g.                                        *)

(* A broker that finds its guard gone has nothing to wait for and exits.   *)
BrokerOpensGuard(g) ==
  /\ broker[g] = "starting"
  /\ IF guard_process = g
     THEN /\ broker' = [broker EXCEPT ![g] = "waiting"]
          /\ ready' = ready \cup {g}
     ELSE /\ broker' = [broker EXCEPT ![g] = "exited"]
          /\ UNCHANGED ready
  /\ UNCHANGED <<processVars, journalVars, guard_process, call>>

BrokerSeesGuardExit(g) ==
  /\ broker[g] = "waiting"
  /\ guard_process # g
  /\ broker' = [broker EXCEPT ![g] = "recovering"]
  /\ call' = [call EXCEPT ![g] = Called]
  /\ UNCHANGED <<processVars, journalVars, guard_process, ready>>

BrokerReturns(g) ==
  /\ broker[g] = "recovering"
  /\ call[g].step = "returned"
  /\ broker' = [broker EXCEPT ![g] = "exited"]
  /\ call' = [call EXCEPT ![g] = NoCall]
  /\ UNCHANGED <<processVars, journalVars, guard_process, ready>>

BrokerDies(g) ==
  /\ "broker" \in Faults
  /\ broker[g] \in {"starting", "waiting", "recovering"}
  /\ broker' = [broker EXCEPT ![g] = "exited"]
  /\ call' = [call EXCEPT ![g] = NoCall]
  /\ UNCHANGED <<processVars, journalVars, guard_process, ready>>

(* What the broker of guard g does by itself.                              *)
run_recovery_broker(g) ==
  \/ BrokerOpensGuard(g)
  \/ BrokerSeesGuardExit(g)
  \/ bg_recover_journal_file(g)
  \/ BrokerReturns(g)

BrokerFinished(g) == broker[g] \in {"absent", "exited"}
=============================================================================
