---------------------------- MODULE PolicyPasses ----------------------------
(***************************************************************************)
(* One browser process as the policy sees it from pass to pass: between    *)
(* two passes one observation changes, and the policy is asked again.      *)
(***************************************************************************)
EXTENDS SuspendPolicy

CONSTANT MaxWindows   \* bound: windows of each kind
ASSUME MaxWindowsAssumption == MaxWindows \in Nat

VARIABLES input, decision

passVars == <<input, decision>>

Inputs == SuspendPolicyInput(0 .. MaxWindows)

PassesTypeOK == input \in Inputs /\ decision \in SuspendDecision

Pass == decision' = evaluate_suspend_policy(input')

WindowsChange ==
  /\ \E minimized, restored \in 0 .. MaxWindows :
       input' = [input EXCEPT !.minimized_window_count = minimized,
                              !.visible_restored_window_count = restored]
  /\ Pass

ActivityChanges ==
  /\ \E foreground, audio \in BOOLEAN :
       input' = [input EXCEPT !.has_foreground_window = foreground,
                              !.has_audio = audio]
  /\ Pass

GraceChanges ==
  /\ \E manual, background \in BOOLEAN :
       input' = [input EXCEPT !.manual_resume_grace_elapsed = manual,
                              !.background_grace_elapsed = background]
  /\ Pass

(* The entry's flag; the policy itself is chosen once on the command line. *)
DisabledChanges ==
  /\ \E disabled \in BOOLEAN :
       input' = [input EXCEPT !.suspend_disabled = disabled]
  /\ Pass

Next == WindowsChange \/ ActivityChanges \/ GraceChanges \/ DisabledChanges

-----------------------------------------------------------------------------
(* What each reason for refusing says of the observations.                 *)
Protects(reason, i) ==
  \/ reason = "foreground" /\ i.has_foreground_window
  \/ reason = "audio" /\ i.has_audio
  \/ reason = "disabled" /\ i.suspend_disabled
  \/ reason = "manual-resume-grace" /\ ~i.manual_resume_grace_elapsed
  \/ reason = "background-grace" /\ ~i.background_grace_elapsed
  \/ /\ i.policy = "minimized_only"
     /\ \/ /\ reason = "visible-window"
           /\ i.visible_restored_window_count > 0
        \/ /\ reason = "no-visible-windows"
           /\ i.minimized_window_count = 0
           /\ i.visible_restored_window_count = 0

(* evaluate_suspend_policy refuses exactly when some protection applies:   *)
(* the early returns together leave none out, and the sums and counts it   *)
(* compares say the same as "at least one visible window, every visible    *)
(* window is minimized" (docs/architecture.md).                            *)
SuspendsIffUnprotected ==
  decision.should_suspend
    <=> \A reason \in Reasons : ~Protects(reason, input)

(* The reason that is reported for a refusal is one that applies, and      *)
(* "eligible" goes with suspending only.                                   *)
ReasonApplies ==
  IF decision.should_suspend
  THEN decision.reason = "eligible"
  ELSE decision.reason # "eligible" /\ Protects(decision.reason, input)
=============================================================================
