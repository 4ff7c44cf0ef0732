-------------------------- MODULE RecoveryPromise ---------------------------
(***************************************************************************)
(* What the recovery core promises, with neither guard nor broker in it: a *)
(* write-ahead discipline.  A process may be frozen only while a durable   *)
(* record names it, the records may change only in ways that keep every    *)
(* frozen process named, freezing stops when no guard is running, and then *)
(* whatever is frozen is thawed.                                           *)
(*                                                                         *)
(* docs/safety.md states it as: a failure in browser_guard must not        *)
(* knowingly leave a validated browser process suspended without an        *)
(* independent recovery path.                                              *)
(***************************************************************************)
CONSTANT Instance   \* the processes that can ever exist

VARIABLES
  frozen,    \* the processes that make no progress
  recorded,  \* the processes named on disk
  guarded    \* a guard is running

promiseVars == <<frozen, recorded, guarded>>

PromiseTypeOK ==
  /\ frozen \subseteq Instance
  /\ recorded \subseteq Instance
  /\ guarded \in BOOLEAN

Init ==
  /\ frozen = {}
  /\ recorded = {}
  /\ guarded = FALSE

Record ==
  /\ recorded' \in SUBSET Instance
  /\ frozen \subseteq recorded'
  /\ UNCHANGED frozen

Freeze ==
  /\ guarded
  /\ \E i \in recorded \ frozen : frozen' = frozen \cup {i}
  /\ UNCHANGED <<recorded, guarded>>

Thaw ==
  /\ \E i \in frozen : frozen' = frozen \ {i}
  /\ UNCHANGED <<recorded, guarded>>

GuardComesOrGoes ==
  /\ guarded' = ~guarded
  /\ UNCHANGED <<frozen, recorded>>

Next == (Record /\ UNCHANGED guarded) \/ Freeze \/ Thaw \/ GuardComesOrGoes

(* Without a guard, thawing goes on.                                       *)
ThawUnguarded == ~guarded /\ Thaw

Spec == Init /\ [][Next]_promiseVars
FairSpec == Spec /\ WF_promiseVars(ThawUnguarded)
=============================================================================
