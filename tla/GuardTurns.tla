----------------------------- MODULE GuardTurns -----------------------------
(***************************************************************************)
(* What the shutdown event is for: guards use the journal and the browser  *)
(* processes in turns.  A turn lasts from the creation of the event until  *)
(* it is closed or the guard is killed; a guard has one turn at most, and  *)
(* the next one begins when nobody has a turn.                             *)
(*                                                                         *)
(* GuardControl implements this with the event, whatever guards and        *)
(* controllers do at the same time.  RecoverySystem, which takes it for    *)
(* granted, follows one guard after the other through its turn.            *)
(***************************************************************************)
CONSTANT GuardProcess

VARIABLES
  serving,  \* the guard whose turn it is
  past      \* the guards that will have no turn any more

turnVars == <<serving, past>>

Init ==
  /\ serving = {}
  /\ past = {}

Begin(g) ==
  /\ serving = {}
  /\ g \notin past
  /\ serving' = {g}
  /\ UNCHANGED past

End(g) ==
  /\ serving = {g}
  /\ serving' = {}
  /\ past' = past \cup {g}

(* The event exists already, or startup fails before it is created.        *)
Miss(g) ==
  /\ g \notin serving \cup past
  /\ past' = past \cup {g}
  /\ UNCHANGED serving

Next == \E g \in GuardProcess : Begin(g) \/ End(g) \/ Miss(g)

Spec == Init /\ [][Next]_turnVars
=============================================================================
