------------------------------ MODULE Platform ------------------------------
(***************************************************************************)
(* The parameters shared by the modules of the recovery core: the process  *)
(* identifiers Windows hands out, the bounds of an instance, and the       *)
(* failures the environment may produce.                                   *)
(*                                                                         *)
(* Every Windows call the program makes can fail, and the code has a       *)
(* branch for each failure.  Faults names the kinds of failure an instance *)
(* allows, so that a run can say under which of them a property holds:     *)
(*                                                                         *)
(*   "reuse"    a process identifier is given to another process after the *)
(*              first one has exited                                       *)
(*   "overlap"  a guard is started while a broker of an earlier guard is   *)
(*              still at work                                              *)
(*   "scan"     enumeration misses live browser processes                  *)
(*   "suspend"  NtSuspendProcess, or opening the process for it, fails     *)
(*   "resume"   NtResumeProcess, or opening the process for it, fails      *)
(*   "persist"  a journal file is not written, moved or deleted            *)
(*   "load"     the journal file is not opened or read                     *)
(*   "query"    the identity of a live process cannot be read when a       *)
(*              record of it is to be made                                 *)
(*   "inspect"  ... or when a record of it is compared with it             *)
(*   "launch"   the broker is not created, or is not ready within 5000 ms  *)
(*   "broker"   a broker process dies before its work is done              *)
(***************************************************************************)
EXTENDS Integers, FiniteSets

CONSTANTS
  Pid,          \* process identifiers of supported browser processes
  MaxBirths,    \* bound: processes created per identifier
  MaxSuspend,   \* suspend count at which NtSuspendProcess refuses
  MaxRecords,   \* BG_MAX_RECOVERY_RECORDS
  MaxTracked,   \* BG_MAX_TRACKED_PROCESSES
  MaxAttempts,  \* resume attempts per record (20 in the code)
  MaxGuards,    \* bound: guard processes started
  Faults        \* the failures this instance allows

AllFaults == {"reuse", "overlap", "scan", "suspend", "resume", "persist",
              "load", "query", "inspect", "launch", "broker"}

ASSUME PidAssumption == IsFiniteSet(Pid)
ASSUME BoundAssumption ==
  /\ MaxBirths \in Nat \ {0}
  /\ MaxSuspend \in Nat \ {0}
  /\ MaxRecords \in Nat
  /\ MaxTracked \in Nat
  /\ MaxAttempts \in Nat \ {0}
  /\ MaxGuards \in Nat \ {0}
ASSUME FaultsAssumption == Faults \subseteq AllFaults

(* The number of a guard process: the n-th one started.  Each starts at    *)
(* most one broker, which carries the same number.                         *)
Generation == 1 .. MaxGuards

(* Who may run bg_recover_journal_file: a broker, or (0) the guard itself  *)
(* during its startup.                                                     *)
Runner == 0 .. MaxGuards

(* BgRecoveryRecord: a process identifier with the creation time that      *)
(* tells apart the processes that held it.  The path and session that the  *)
(* code stores as well cannot tell apart more than that.                   *)
BgRecoveryRecord == [pid : Pid, creation_time : 1 .. MaxBirths]

(* The identifiers that a set of records names.                            *)
PidsOf(recs) == {rec.pid : rec \in recs}
=============================================================================
