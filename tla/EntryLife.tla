----------------------------- MODULE EntryLife ------------------------------
(***************************************************************************)
(* What an entry of the guard's table (TrackedProcess) promises, with      *)
(* neither time nor failures nor the other processes in it: only an entry  *)
(* is suspended, only once at a time, and never again after something went *)
(* wrong with it - until the entry is forgotten.                           *)
(*                                                                         *)
(* Guard, which has many entries and a journal, and TrackedEntry, which    *)
(* has one entry and the clock, both implement this.                       *)
(***************************************************************************)
VARIABLES
  tracked,    \* there is an entry
  suspended,  \* it is marked suspended
  protected   \* it is to be left alone (suspend_disabled)

lifeVars == <<tracked, suspended, protected>>

Init ==
  /\ tracked = FALSE
  /\ suspended = FALSE
  /\ protected = FALSE

Appear ==
  /\ ~tracked
  /\ tracked' = TRUE
  /\ UNCHANGED <<suspended, protected>>

Suspend ==
  /\ tracked
  /\ ~suspended
  /\ ~protected
  /\ suspended' = TRUE
  /\ UNCHANGED <<tracked, protected>>

Thaw ==
  /\ suspended
  /\ suspended' = FALSE
  /\ UNCHANGED <<tracked, protected>>

(* The journal or the heartbeat failed, perhaps in the pass in which the   *)
(* entry appeared; the process runs again, or could not be resumed.        *)
Protect ==
  /\ ~protected
  /\ tracked' = TRUE
  /\ UNCHANGED suspended \/ suspended' = FALSE
  /\ protected' = TRUE

Forget ==
  /\ tracked
  /\ tracked' = FALSE
  /\ suspended' = FALSE
  /\ protected' = FALSE

Next == Appear \/ Suspend \/ Thaw \/ Protect \/ Forget

Spec == Init /\ [][Next]_lifeVars
=============================================================================
