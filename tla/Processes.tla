----------------------------- MODULE Processes ------------------------------
(***************************************************************************)
(* Windows, as far as the guard and its broker use it: processes come and  *)
(* go, each identifier names at most one live process, and each process    *)
(* has a suspend count that NtSuspendProcess raises and NtResumeProcess    *)
(* lowers by one.  The process runs only while the count is zero.          *)
(***************************************************************************)
EXTENDS Platform

VARIABLES
  alive,          \* the identifiers that name a live process
  creation_time,  \* [Pid -> Nat], the birth of the latest holder; 0 if none
  suspend_count   \* [Pid -> Nat]

processVars == <<alive, creation_time, suspend_count>>

ProcessesTypeOK ==
  /\ alive \subseteq Pid
  /\ creation_time \in [Pid -> 0 .. MaxBirths]
  /\ suspend_count \in [Pid -> 0 .. MaxSuspend]
  /\ \A p \in alive : creation_time[p] > 0
  /\ \A p \in Pid \ alive : suspend_count[p] = 0

ProcessesInit ==
  /\ alive = {}
  /\ creation_time = [p \in Pid |-> 0]
  /\ suspend_count = [p \in Pid |-> 0]

(* The record that identifies the process p names now.                     *)
InstanceOf(p) == [pid |-> p, creation_time |-> creation_time[p]]

(* The live processes that make no progress.                               *)
Frozen == {p \in alive : suspend_count[p] > 0}
FrozenInstances == {InstanceOf(p) : p \in Frozen}

ProcessStarts(p) ==
  /\ p \notin alive
  /\ creation_time[p] < MaxBirths
  /\ "reuse" \in Faults \/ creation_time[p] = 0
  /\ alive' = alive \cup {p}
  /\ creation_time' = [creation_time EXCEPT ![p] = @ + 1]
  /\ UNCHANGED suspend_count

(* A frozen process can be terminated like any other.                      *)
ProcessExits(p) ==
  /\ p \in alive
  /\ alive' = alive \ {p}
  /\ suspend_count' = [suspend_count EXCEPT ![p] = 0]
  /\ UNCHANGED creation_time

-----------------------------------------------------------------------------
(* Opening the process p and suspending or resuming it, with the result    *)
(* ok.  The priority and throttling changes around the call are no part of *)
(* what the recovery core promises.                                        *)
NtSuspendProcess(p, ok) ==
  \/ /\ ok
     /\ p \in alive
     /\ suspend_count[p] < MaxSuspend
     /\ suspend_count' = [suspend_count EXCEPT ![p] = @ + 1]
     /\ UNCHANGED <<alive, creation_time>>
  \/ /\ ~ok
     /\ p \notin alive \/ suspend_count[p] = MaxSuspend \/ "suspend" \in Faults
     /\ UNCHANGED processVars

(* Resuming a process that is not suspended succeeds and changes nothing.  *)
NtResumeProcess(p, ok) ==
  \/ /\ ok
     /\ p \in alive
     /\ suspend_count' =
          [suspend_count EXCEPT ![p] = IF @ > 0 THEN @ - 1 ELSE 0]
     /\ UNCHANGED <<alive, creation_time>>
  \/ /\ ~ok
     /\ p \notin alive \/ "resume" \in Faults
     /\ UNCHANGED processVars

(* What query_recovery_record may find at p: the identity of the live      *)
(* process, or nothing.                                                    *)
query_recovery_record(p) ==
  {found \in {{}, {InstanceOf(p)}} :
     IF found = {} THEN p \notin alive \/ "query" \in Faults
                   ELSE p \in alive}

(* What bg_recovery_record_matches_process may answer for a record.        *)
bg_recovery_record_matches_process(rec) ==
  {matches \in BOOLEAN :
     IF rec.pid \in alive /\ rec = InstanceOf(rec.pid)
     THEN matches \/ "inspect" \in Faults
     ELSE ~matches}
=============================================================================
