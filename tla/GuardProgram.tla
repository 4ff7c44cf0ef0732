---------------------------- MODULE GuardProgram ----------------------------
(***************************************************************************)
(* browser_guard.exe from its command line on (src/main.c): the arguments  *)
(* are parsed, and the guard that is then run follows the configuration in *)
(* every pass.                                                             *)
(***************************************************************************)
EXTENDS AppConfig, PolicyPasses

programVars == <<configVars, passVars>>

(* Before the first pass nothing has been observed.                        *)
NothingObserved(policy) ==
  [policy                        |-> policy,
   minimized_window_count        |-> 0,
   visible_restored_window_count |-> 0,
   has_foreground_window         |-> FALSE,
   has_audio                     |-> FALSE,
   suspend_disabled              |-> FALSE,
   manual_resume_grace_elapsed   |-> FALSE,
   background_grace_elapsed      |-> FALSE]

ProgramInit ==
  /\ ConfigInit
  /\ input = NothingObserved("minimized_only")
  /\ decision = evaluate_suspend_policy(input)

run_browser_guard ==
  /\ parse = "accepted"
  /\ parse' = "running"
  /\ input' = NothingObserved(config.suspend_policy)
  /\ Pass
  /\ UNCHANGED <<argv, next, config>>

ProgramNext ==
  \/ parse_app_config /\ UNCHANGED passVars
  \/ run_browser_guard
  \/ parse = "running" /\ Next /\ UNCHANGED configVars

ProgramSpec == ProgramInit /\ [][ProgramNext]_programVars

ProgramTypeOK ==
  /\ argv \in CommandLine
  /\ next \in 1 .. Len(argv) + 1
  /\ parse \in {"parsing", "accepted", "rejected", "running"}
  /\ PassesTypeOK

(* README.md: "aggressive background suspension requires explicit opt-in". *)
(* A family with a restored window is found eligible only if the command   *)
(* line says --aggressive-suspend, and no --minimized-only after it:       *)
(* --aggressive-memory, which the installer writes, does not count.        *)
AggressiveOnlyByRequest ==
  decision.should_suspend /\ input.visible_restored_window_count > 0
    => \E j \in At({"aggressive_suspend"}) : LastAt(j, PolicyOption)
=============================================================================
