--------------------------- MODULE SuspendPolicy ---------------------------
(***************************************************************************)
(* The side-effect-free policy of src/suspend_policy.c: which browser      *)
(* family may be suspended, and the reason reported for the decision.      *)
(*                                                                         *)
(* Window counts are natural numbers.  The C type is size_t; a desktop     *)
(* never holds enough windows for the sum of the two counts to wrap.       *)
(***************************************************************************)
EXTENDS Naturals

Policies == {"minimized_only", "all_background"}

Reasons == {"eligible", "foreground", "audio", "disabled",
            "manual-resume-grace", "background-grace",
            "visible-window", "no-visible-windows"}

SuspendDecision == [should_suspend : BOOLEAN, reason : Reasons]

(* The observations of one pass about one process, with window counts      *)
(* drawn from Counts.                                                      *)
SuspendPolicyInput(Counts) ==
  [policy                        : Policies,
   minimized_window_count        : Counts,
   visible_restored_window_count : Counts,
   has_foreground_window         : BOOLEAN,
   has_audio                     : BOOLEAN,
   suspend_disabled              : BOOLEAN,
   manual_resume_grace_elapsed   : BOOLEAN,
   background_grace_elapsed      : BOOLEAN]

(* Mutant: one minimized window is enough.                                 *)
minimized_only_AnyMinimized(visible, minimized, restored) ==
  visible > 0 /\ minimized > 0

browser_windows_are_minimized_only(visible, minimized, restored) ==
  /\ visible > 0
  /\ minimized = visible
  /\ restored = 0

Refuse(reason) == [should_suspend |-> FALSE, reason |-> reason]
Suspend == [should_suspend |-> TRUE, reason |-> "eligible"]

(* The early returns, in the order the code tests them: that order decides *)
(* which reason is reported when several apply.                            *)
evaluate_suspend_policy(input) ==
  LET visible == input.minimized_window_count
                   + input.visible_restored_window_count
  IN  IF input.has_foreground_window THEN Refuse("foreground")
      ELSE IF input.has_audio THEN Refuse("audio")
      ELSE IF input.suspend_disabled THEN Refuse("disabled")
      ELSE IF ~input.manual_resume_grace_elapsed
           THEN Refuse("manual-resume-grace")
      ELSE IF ~input.background_grace_elapsed THEN Refuse("background-grace")
      ELSE IF input.policy = "all_background" THEN Suspend
      ELSE IF visible = 0 THEN Refuse("no-visible-windows")
      ELSE IF browser_windows_are_minimized_only(
                visible,
                input.minimized_window_count,
                input.visible_restored_window_count)
           THEN Suspend
           ELSE Refuse("visible-window")
=============================================================================
