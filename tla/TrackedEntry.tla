---------------------------- MODULE TrackedEntry ----------------------------
(***************************************************************************)
(* One browser process and its entry in the guard's table, from pass to    *)
(* pass: the deadlines that ensure_group_state compares with the 32-bit    *)
(* tick count, the heartbeat, the user's requests to resume, and the       *)
(* memory priority and power throttling that go with suspending.           *)
(*                                                                         *)
(* What Guard models as free choices (whether a grace period has elapsed,  *)
(* whether a heartbeat is due) is computed here; the journal, which Guard  *)
(* models, is reduced to whether registering succeeds.                     *)
(*                                                                         *)
(* lowered stands for both settings, which the code always applies and     *)
(* restores together.  When the working set is trimmed again depends on    *)
(* last_trim_tick alone, which nothing else reads: here it may be trimmed  *)
(* again in any pass.                                                      *)
(*                                                                         *)
(*   "scan"      a pass does not find the process                          *)
(*   "register"  there is no journal, or the record is not written         *)
(*   "suspend"   the process is not opened or not suspended                *)
(*   "resume"    ... not opened or not resumed                             *)
(*   "mode"      ... not opened to lower or to restore its priority        *)
(***************************************************************************)
EXTENDS SuspendPolicy, Integers

CONSTANTS
  Config,       \* the configurations that are tried
  HalfRange,    \* 2^31: half the values of the tick count
  MaxElapsed,   \* bound: ticks between the starts of two passes
  MaxWindows,   \* bound: windows of each kind
  EntryFaults   \* the failures this instance allows

ASSUME HalfRangeAssumption == HalfRange \in Nat \ {0}
ASSUME ConfigAssumption ==
  \A c \in Config :
    /\ c.background_grace_ms \in 0 .. HalfRange
    /\ c.manual_resume_grace_ms \in 0 .. HalfRange
    /\ c.heartbeat_interval_ms \in 1 .. HalfRange
    /\ c.suspend_policy \in Policies
    /\ c.trim_working_set \in BOOLEAN
    /\ c.lower_memory_priority \in BOOLEAN
ASSUME MaxElapsedAssumption == MaxElapsed \in 1 .. 2 * HalfRange - 1
ASSUME EntryWindowsAssumption == MaxWindows \in Nat
ASSUME EntryFaultsAssumption ==
  EntryFaults \subseteq {"scan", "register", "suspend", "resume", "mode"}

Range == 2 * HalfRange
Tick == 0 .. Range - 1

VARIABLES
  config,            \* the configuration, the same in every pass
  now_tick,          \* GetTickCount at the head of this pass
  stage,             \* what the guard does next with the process
  tracked,           \* the process has an entry
  entry,             \* the entry
  decision,          \* of this pass
  background,        \* should_use_background_mode of this pass
  resume_requested,  \* g_resume_requested
  lowered,           \* the priority of the process is lowered
  since,             \* for the properties: how long ago, up to Range ticks
  failed             \* for the properties: a resume or a restore has failed

guardVars == <<config, now_tick, stage, tracked, entry, decision, background,
               resume_requested>>
vars == <<guardVars, lowered, since, failed>>

TrackedProcess == [suspended : BOOLEAN,
                   background_mode : BOOLEAN,
                   suspend_disabled : BOOLEAN,
                   last_active_tick : Tick,
                   manual_resume_until_tick : Tick,
                   last_heartbeat_tick : Tick]

(* The family was last active, the user last asked to resume, the process  *)
(* was last suspended or probed.  A new entry is as old as one whose       *)
(* manual grace period has just ended: nothing holds the process.          *)
Ages == [active : 0 .. Range, hold : 0 .. Range, heartbeat : 0 .. Range]

(* Between passes the locals of a pass hold nothing of interest.           *)
NoDecision == Refuse("disabled")

NoEntry == [suspended |-> FALSE, background_mode |-> FALSE,
            suspend_disabled |-> FALSE, last_active_tick |-> 0,
            manual_resume_until_tick |-> 0, last_heartbeat_tick |-> 0]

TypeOK ==
  /\ config \in Config
  /\ now_tick \in Tick
  /\ stage \in {"pump", "observe", "mode", "decide", "tend", "trim",
                "stopped"}
  /\ tracked \in BOOLEAN
  /\ entry \in TrackedProcess
  /\ decision \in SuspendDecision
  /\ background \in BOOLEAN
  /\ resume_requested \in BOOLEAN
  /\ lowered \in BOOLEAN
  /\ since \in Ages
  /\ failed \in BOOLEAN

-----------------------------------------------------------------------------
(* Ticks wrap around.  Mutant: they do not.                                *)
Plus_Wide(tick, ms) == tick + ms

Plus(tick, ms) == IF tick + ms >= Range THEN tick + ms - Range ELSE tick + ms
Minus(tick1, tick2) ==
  IF tick1 >= tick2 THEN tick1 - tick2 ELSE tick1 - tick2 + Range

(* Mutants: the ticks themselves are compared; the deadline itself does    *)
(* not count.                                                              *)
tick_deadline_reached_Unsigned(now, deadline) == now >= deadline
tick_deadline_reached_Strict(now, deadline) ==
  Minus(now, deadline) \in 1 .. HalfRange - 1

(* (LONG)(now_tick - deadline_tick) >= 0                                   *)
tick_deadline_reached(now, deadline) == Minus(now, deadline) < HalfRange

Older(age, elapsed) == IF age + elapsed >= Range THEN Range ELSE age + elapsed

Init ==
  /\ config \in Config
  /\ now_tick = 0
  /\ stage = "pump"
  /\ tracked = FALSE
  /\ entry = NoEntry
  /\ decision = NoDecision
  /\ background = FALSE
  /\ resume_requested = FALSE
  /\ lowered = FALSE
  /\ since = [active |-> Range, hold |-> Range, heartbeat |-> Range]
  /\ failed = FALSE

-----------------------------------------------------------------------------
(* Whether a call on the process succeeds.                                 *)
Outcomes(fault) == IF fault \in EntryFaults THEN BOOLEAN ELSE {TRUE}

(* What lowering the priority leaves; restoring it leaves FALSE, since a   *)
(* guard that is not to lower it never has.                                *)
Lower == config.lower_memory_priority

(* The user clicks the overlay or the window, or presses the hotkey, while *)
(* pump_ui_messages waits for the next pass.                               *)
ResumeIsRequested ==
  /\ stage = "pump"
  /\ ~resume_requested
  /\ resume_requested' = TRUE
  /\ UNCHANGED <<config, now_tick, stage, tracked, entry, decision, background,
                 lowered, since, failed>>

(* Mutant: only a process that was suspended gets its priority back.       *)
Release_SuspendedOnly(resumed, restored) ==
  /\ lowered' = (lowered /\ ~(entry.suspended /\ resumed))
  /\ failed' = (failed \/ (entry.suspended /\ ~resumed)
                       \/ (entry.background_mode /\ ~restored))

(* Resume the process if it is suspended, and restore its priority if it   *)
(* is in background mode.                                                  *)
Release(resumed, restored) ==
  /\ lowered' = (lowered /\ ~(entry.suspended /\ resumed)
                         /\ ~(entry.background_mode /\ restored))
  /\ failed' = (failed \/ (entry.suspended /\ ~resumed)
                       \/ (entry.background_mode /\ ~restored))

(* The background flag is cleared whether or not the priority could be     *)
(* restored.                                                               *)
Resumed(resumed) ==
  [entry EXCEPT !.suspended = @ /\ ~resumed, !.background_mode = FALSE]

(* Mutant: the user's request lifts the protection, too.                   *)
hold_resumed_processes_Unprotects(e, now) ==
  [e EXCEPT !.manual_resume_until_tick =
              Plus(now, config.manual_resume_grace_ms),
            !.last_active_tick = now,
            !.suspend_disabled = FALSE]

hold_resumed_processes(e, now) ==
  [e EXCEPT !.manual_resume_until_tick =
              Plus(now, config.manual_resume_grace_ms),
            !.last_active_tick = now]

(* The head of the loop: read the tick, which may still be the same, and   *)
(* serve a request to resume.                                              *)
PassBegins ==
  /\ stage = "pump"
  /\ stage' = "observe"
  /\ resume_requested' = FALSE
  /\ \E elapsed \in 0 .. MaxElapsed :
       LET now == Plus(now_tick, elapsed)
           held == tracked /\ resume_requested
       IN  /\ now_tick' = now
           /\ since' =
                [active |-> IF held THEN 0 ELSE Older(since.active, elapsed),
                 hold |-> IF held THEN 0 ELSE Older(since.hold, elapsed),
                 heartbeat |-> Older(since.heartbeat, elapsed)]
           /\ IF held
              THEN \E resumed \in Outcomes("resume"),
                      restored \in Outcomes("mode") :
                     /\ Release(resumed, restored)
                     /\ entry' = hold_resumed_processes(Resumed(resumed), now)
              ELSE UNCHANGED <<entry, lowered, failed>>
  /\ UNCHANGED <<config, tracked, decision, background>>

(* The loop ends, and what is suspended or in background mode is given     *)
(* back, once.                                                             *)
GuardStops ==
  /\ stage = "pump"
  /\ stage' = "stopped"
  /\ \E resumed \in Outcomes("resume"), restored \in Outcomes("mode") :
       /\ Release(resumed, restored)
       /\ entry' = Resumed(resumed)
  /\ UNCHANGED <<config, now_tick, tracked, decision, background,
                 resume_requested, since>>

(* The pass does not find the process, because it has exited or because    *)
(* enumeration fails, and forgets its entry, whether or not it could be    *)
(* resumed.                                                                *)
cleanup_tracked_processes ==
  /\ stage = "observe"
  /\ tracked
  /\ "scan" \in EntryFaults
  /\ \E resumed \in Outcomes("resume"), restored \in Outcomes("mode") :
       Release(resumed, restored)
  /\ tracked' = FALSE
  /\ entry' = NoEntry
  /\ since' = [active |-> Range, hold |-> Range, heartbeat |-> Range]
  /\ stage' = "pump"
  /\ UNCHANGED <<config, now_tick, decision, background, resume_requested>>

(* A process that is new starts as if it had just been active.             *)
NewEntry == [NoEntry EXCEPT !.last_active_tick = now_tick,
                            !.manual_resume_until_tick = now_tick,
                            !.last_heartbeat_tick = now_tick]

(* What the pass sees of the family, and what the policy makes of it.      *)
Observe(minimized, restored, foreground, audio) ==
  LET active == foreground \/ audio
      found == IF tracked THEN entry ELSE NewEntry
      seen == IF active THEN [found EXCEPT !.last_active_tick = now_tick]
                        ELSE found
  IN  /\ entry' = seen
      /\ since' = [since EXCEPT
                     !.active = IF active \/ ~tracked THEN 0 ELSE @,
                     !.hold = IF tracked THEN @
                                         ELSE config.manual_resume_grace_ms,
                     !.heartbeat = IF tracked THEN @ ELSE 0]
      /\ decision' = evaluate_suspend_policy(
           [policy |-> config.suspend_policy,
            minimized_window_count |-> minimized,
            visible_restored_window_count |-> restored,
            has_foreground_window |-> foreground,
            has_audio |-> audio,
            suspend_disabled |-> seen.suspend_disabled,
            manual_resume_grace_elapsed |->
              tick_deadline_reached(now_tick, seen.manual_resume_until_tick),
            background_grace_elapsed |->
              tick_deadline_reached(
                now_tick,
                Plus(seen.last_active_tick, config.background_grace_ms))])
      /\ background' =
           (/\ ~active
            /\ minimized + restored > 0
            /\ ~browser_windows_are_minimized_only(
                  minimized + restored, minimized, restored))

ObserveFamily ==
  /\ stage = "observe"
  /\ \E minimized, restored \in 0 .. MaxWindows,
        foreground, audio \in BOOLEAN :
       /\ foreground => restored > 0
       /\ Observe(minimized, restored, foreground, audio)
  /\ tracked' = TRUE
  /\ stage' = "mode"
  /\ UNCHANGED <<config, now_tick, resume_requested, lowered, failed>>

-----------------------------------------------------------------------------
(* Background mode: entered, left, or applied again to trim.               *)
ChangeMode ==
  /\ stage = "mode"
  /\ stage' = "decide"
  /\ \/ /\ entry.background_mode # background
        /\ \/ /\ entry' = [entry EXCEPT !.background_mode = background]
              /\ lowered' = (background /\ Lower)
           \/ "mode" \in EntryFaults /\ UNCHANGED <<entry, lowered>>
     \/ /\ entry.background_mode = background
        /\ UNCHANGED entry
        /\ \/ UNCHANGED lowered
           \/ background /\ config.trim_working_set /\ lowered' = Lower
  /\ UNCHANGED <<config, now_tick, tracked, decision, background,
                 resume_requested, since, failed>>

PassEnds ==
  /\ stage' = "pump"
  /\ decision' = NoDecision
  /\ background' = FALSE
  /\ UNCHANGED <<config, now_tick, tracked, resume_requested>>

(* Nothing is suspended without a record.                                  *)
RefusesWithoutRecord ==
  /\ stage = "decide"
  /\ decision.should_suspend /\ ~entry.suspended
  /\ "register" \in EntryFaults
  /\ entry' = [entry EXCEPT !.suspend_disabled = TRUE]
  /\ PassEnds
  /\ UNCHANGED <<lowered, since, failed>>

(* Mutant: the next heartbeat is counted from an earlier suspension.       *)
SuspendProcess_OldHeartbeat ==
  /\ stage = "decide"
  /\ decision.should_suspend /\ ~entry.suspended
  /\ entry' = [entry EXCEPT !.suspended = TRUE]
  /\ since' = [since EXCEPT !.heartbeat = 0]
  /\ lowered' = Lower
  /\ PassEnds
  /\ UNCHANGED failed

SuspendProcess ==
  /\ stage = "decide"
  /\ decision.should_suspend /\ ~entry.suspended
  /\ \/ /\ entry' = [entry EXCEPT !.suspended = TRUE,
                                  !.last_heartbeat_tick = now_tick]
        /\ since' = [since EXCEPT !.heartbeat = 0]
        /\ lowered' = Lower
     \/ (* A suspend that fails after the priority was lowered restores it. *)
        /\ "suspend" \in EntryFaults
        /\ lowered' \in {lowered, FALSE}
        /\ UNCHANGED <<entry, since>>
  /\ PassEnds
  /\ UNCHANGED failed

(* Tried again in every pass until it succeeds.                            *)
ResumeProcess ==
  /\ stage = "decide"
  /\ entry.suspended /\ ~decision.should_suspend
  /\ \/ /\ entry' = [entry EXCEPT !.suspended = FALSE,
                                  !.last_heartbeat_tick = now_tick,
                                  !.last_active_tick = now_tick]
        /\ since' = [since EXCEPT !.heartbeat = 0, !.active = 0]
        /\ lowered' = FALSE
        /\ UNCHANGED failed
     \/ /\ "resume" \in EntryFaults
        /\ failed' = TRUE
        /\ UNCHANGED <<entry, since, lowered>>
  /\ PassEnds

LeavesAsIs ==
  /\ stage = "decide"
  /\ entry.suspended = decision.should_suspend
  /\ stage' = "tend"
  /\ UNCHANGED <<config, now_tick, tracked, entry, decision, background,
                 resume_requested, lowered, since, failed>>

-----------------------------------------------------------------------------
(* The heartbeat resumes the process, pings its window, and suspends it    *)
(* again.  Any of the three can fail; the process is then left alone for   *)
(* good, and held as if the user had resumed it.                           *)

HeartbeatDue ==
  /\ entry.suspended
  /\ tick_deadline_reached(
       now_tick,
       Plus(entry.last_heartbeat_tick, config.heartbeat_interval_ms))

Protected(frozen) ==
  /\ entry' = [entry EXCEPT
                 !.suspended = frozen,
                 !.suspend_disabled = TRUE,
                 !.last_heartbeat_tick = now_tick,
                 !.last_active_tick = now_tick,
                 !.manual_resume_until_tick =
                   Plus(now_tick, config.manual_resume_grace_ms)]
  /\ since' = [active |-> 0, hold |-> 0, heartbeat |-> 0]

run_suspend_heartbeat ==
  \/ /\ ~HeartbeatDue
     /\ UNCHANGED <<entry, lowered, since, failed>>
  \/ /\ HeartbeatDue
     /\ \/ (* It answers and is suspended again.                            *)
           /\ entry' = [entry EXCEPT !.last_heartbeat_tick = now_tick]
           /\ since' = [since EXCEPT !.heartbeat = 0]
           /\ lowered' = Lower
           /\ UNCHANGED failed
        \/ (* It does not answer, or is not suspended again.                *)
           /\ Protected(FALSE)
           /\ lowered' = FALSE
           /\ UNCHANGED failed
        \/ (* It is not even resumed.                                       *)
           /\ "resume" \in EntryFaults
           /\ Protected(TRUE)
           /\ failed' = TRUE
           /\ UNCHANGED lowered

TendEntry ==
  /\ stage = "tend"
  /\ run_suspend_heartbeat
  /\ stage' = "trim"
  /\ UNCHANGED <<config, now_tick, tracked, decision, background,
                 resume_requested>>

(* The decision is the one taken before the heartbeat.                     *)
maintain_suspended_process ==
  /\ stage = "trim"
  /\ \/ UNCHANGED lowered
     \/ /\ decision.should_suspend
        /\ config.trim_working_set
        /\ lowered' = Lower
  /\ PassEnds
  /\ UNCHANGED <<entry, since, failed>>

Next ==
  \/ ResumeIsRequested
  \/ PassBegins
  \/ GuardStops
  \/ cleanup_tracked_processes
  \/ ObserveFamily
  \/ ChangeMode
  \/ RefusesWithoutRecord
  \/ SuspendProcess
  \/ ResumeProcess
  \/ LeavesAsIs
  \/ TendEntry
  \/ maintain_suspended_process

Spec == Init /\ [][Next]_vars

-----------------------------------------------------------------------------
(* A process is suspended only when its family has been inactive for the   *)
(* background grace period, the user's last request to resume is past the  *)
(* manual one, and no heartbeat has failed: wherever the tick count wraps  *)
(* around, and however long the process has been watched.                  *)
GracesAreHonoured ==
  [][~entry.suspended /\ entry'.suspended =>
       /\ since.active >= config.background_grace_ms
       /\ since.hold >= config.manual_resume_grace_ms
       /\ ~entry.suspend_disabled]_vars

(* The other way round, a grace period that is over keeps nothing from     *)
(* being suspended - until half the range of the tick count has passed     *)
(* since its end: then the signed difference is negative, and the grace    *)
(* period seems to run again (tick_deadline_reached).                      *)
GraceEnds ==
  stage \in {"mode", "decide"} =>
    /\ decision.reason = "background-grace" =>
         \/ since.active < config.background_grace_ms
         \/ since.active >= config.background_grace_ms + HalfRange
    /\ decision.reason = "manual-resume-grace" =>
         \/ since.hold < config.manual_resume_grace_ms
         \/ since.hold >= config.manual_resume_grace_ms + HalfRange

(* As long as resuming works, no process stays suspended for longer than   *)
(* the heartbeat interval without being probed in the first pass after it, *)
(* if that pass is not half the range of the tick count late.              *)
ProbedInTime ==
  (/\ stage = "pump"
   /\ entry.suspended
   /\ ~failed
   /\ config.heartbeat_interval_ms + MaxElapsed <= HalfRange)
    => since.heartbeat < config.heartbeat_interval_ms

(* Without trimming, and as long as resuming and restoring work, a process *)
(* whose priority is lowered is one that the guard still manages, and will *)
(* restore: the priority goes back on every way out of being suspended or  *)
(* in the background, and a guard that has stopped leaves none lowered.    *)
LoweredOnlyWhileManaged ==
  (lowered /\ ~failed /\ ~config.trim_working_set)
    => /\ stage # "stopped"
       /\ stage = "pump" => entry.suspended \/ entry.background_mode

-----------------------------------------------------------------------------
(* With the clock, the user's requests and the heartbeat, the entry still  *)
(* leads the life of an EntryLife: once the journal or the heartbeat has   *)
(* failed it is not suspended again, whatever the user asks for and        *)
(* however much time passes, until it is forgotten.                        *)
Life == INSTANCE EntryLife WITH
          suspended <- entry.suspended,
          protected <- entry.suspend_disabled

EntryLives == Life!Spec
=============================================================================
