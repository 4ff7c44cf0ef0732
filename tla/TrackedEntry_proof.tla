------------------------- MODULE TrackedEntry_proof -------------------------
(***************************************************************************)
(* One entry of the guard's table, for every configuration, every range of *)
(* the tick count and passes of any length short of that range: the grace  *)
(* periods, the heartbeat, the lowered priority and the life of the entry. *)
(***************************************************************************)
EXTENDS TrackedEntry, TLAPS

(* The deadlines of the entry lie where the ages say, as long as less than *)
(* the range of the tick count has passed.                                 *)
TimeInv ==
  /\ since.active < Range
       => Minus(now_tick, entry.last_active_tick) = since.active
  /\ since.hold < Range
       => Minus(now_tick, entry.manual_resume_until_tick)
            = IF since.hold >= config.manual_resume_grace_ms
              THEN since.hold - config.manual_resume_grace_ms
              ELSE since.hold - config.manual_resume_grace_ms + Range
  /\ since.heartbeat < Range
       => Minus(now_tick, entry.last_heartbeat_tick) = since.heartbeat

(* A process that is not tracked has no past, and is not dealt with.       *)
Untracked ==
  /\ ~tracked =>
       /\ entry = NoEntry
       /\ since = [active |-> Range, hold |-> Range, heartbeat |-> Range]
  /\ stage \in {"mode", "decide", "tend", "trim"} => tracked

(* The decision of this pass still rests on what it was based on.          *)
DecisionInv ==
  stage \in {"mode", "decide"} =>
    /\ decision.should_suspend =>
         /\ since.active >= config.background_grace_ms
         /\ since.hold >= config.manual_resume_grace_ms
         /\ ~entry.suspend_disabled
    /\ GraceEnds

(* A suspended process is due for a heartbeat in this pass, or was not     *)
(* when the pass began; and after its heartbeat none is overdue.           *)
BeatInv ==
  (entry.suspended /\ ~failed
     /\ config.heartbeat_interval_ms + MaxElapsed <= HalfRange)
    => /\ since.heartbeat < config.heartbeat_interval_ms + MaxElapsed
       /\ stage \in {"pump", "trim"}
            => since.heartbeat < config.heartbeat_interval_ms

LoweredInv ==
  (lowered /\ ~failed /\ ~config.trim_working_set)
    => stage # "stopped" /\ (entry.suspended \/ entry.background_mode)

EntryInv ==
  TypeOK /\ TimeInv /\ Untracked /\ DecisionInv /\ BeatInv /\ LoweredInv

-----------------------------------------------------------------------------
(* The arithmetic of the tick count.                                       *)
LEMMA RangeIsNatural ==
  /\ HalfRange \in Nat /\ HalfRange > 0
  /\ Range \in Nat /\ Range = HalfRange + HalfRange
  /\ MaxElapsed \in 1 .. Range - 1
  BY HalfRangeAssumption, MaxElapsedAssumption DEF Range

LEMMA ConfigIsBounded ==
  ASSUME config \in Config
  PROVE  /\ config.background_grace_ms \in 0 .. HalfRange
         /\ config.manual_resume_grace_ms \in 0 .. HalfRange
         /\ config.heartbeat_interval_ms \in 1 .. HalfRange
         /\ config.suspend_policy \in Policies
         /\ config.trim_working_set \in BOOLEAN
         /\ config.lower_memory_priority \in BOOLEAN
  BY ConfigAssumption

LEMMA TicksWrap ==
  ASSUME NEW a \in Tick, NEW b \in Tick, NEW e \in 0 .. Range - 1
  PROVE  /\ Plus(a, e) \in Tick
         /\ Minus(a, b) \in Tick
         /\ Minus(a, a) = 0
         /\ Minus(a, Plus(a, e)) = IF e = 0 THEN 0 ELSE Range - e
         /\ Minus(Plus(a, e), b) = IF Minus(a, b) + e >= Range
                                   THEN Minus(a, b) + e - Range
                                   ELSE Minus(a, b) + e
  BY RangeIsNatural DEF Tick, Plus, Minus

(* A deadline ms after a tick that was age ago is reached unless age is    *)
(* less than ms, or more than that by half the range.                      *)
LEMMA DeadlineReached ==
  ASSUME NEW now \in Tick, NEW tick \in Tick, NEW ms \in 0 .. HalfRange,
         NEW age \in 0 .. Range, age < Range => Minus(now, tick) = age
  PROVE  /\ tick_deadline_reached(now, Plus(tick, ms)) => age >= ms
         /\ ~tick_deadline_reached(now, Plus(tick, ms))
              => age < ms \/ age >= ms + HalfRange
  BY RangeIsNatural DEF Tick, Plus, Minus, tick_deadline_reached

(* The same of a deadline that is known by how long ago it was set.        *)
LEMMA HoldReached ==
  ASSUME NEW now \in Tick, NEW deadline \in Tick, NEW ms \in 0 .. HalfRange,
         NEW age \in 0 .. Range,
         age < Range => Minus(now, deadline)
                          = IF age >= ms THEN age - ms ELSE age - ms + Range
  PROVE  /\ tick_deadline_reached(now, deadline) => age >= ms
         /\ ~tick_deadline_reached(now, deadline)
              => age < ms \/ age >= ms + HalfRange
  BY RangeIsNatural DEF Tick, Minus, tick_deadline_reached

LEMMA OlderAges ==
  ASSUME NEW age \in 0 .. Range, NEW elapsed \in 0 .. MaxElapsed
  PROVE  /\ Older(age, elapsed) \in 0 .. Range
         /\ Older(age, elapsed) < Range
              => age < Range /\ Older(age, elapsed) = age + elapsed
         /\ Older(Range, elapsed) = Range
         /\ Older(age, elapsed) <= age + elapsed
  BY RangeIsNatural DEF Older

(* The ages grow with the ticks.                                           *)
LEMMA TimePasses ==
  ASSUME NEW now \in Tick, NEW tick \in Tick, NEW age \in 0 .. Range,
         NEW ms \in 0 .. HalfRange, NEW elapsed \in 0 .. MaxElapsed,
         age < Range => Minus(now, tick)
                          = IF age >= ms THEN age - ms ELSE age - ms + Range
  PROVE  LET later == Older(age, elapsed)
         IN  later < Range => Minus(Plus(now, elapsed), tick)
                                = IF later >= ms THEN later - ms
                                                 ELSE later - ms + Range
  BY RangeIsNatural DEF Older, Tick, Plus, Minus

LEMMA NothingYet ==
  /\ NoEntry \in TrackedProcess
  /\ [active |-> Range, hold |-> Range, heartbeat |-> Range] \in Ages
  /\ NoDecision \in SuspendDecision
  /\ ~NoDecision.should_suspend
  BY RangeIsNatural
     DEF NoEntry, TrackedProcess, Ages, Tick, NoDecision, Refuse,
         SuspendDecision, Reasons

(* The fields that the invariant speaks of.                                *)
LEMMA FieldsTyped ==
  ASSUME TypeOK
  PROVE  /\ entry.suspended \in BOOLEAN
         /\ entry.background_mode \in BOOLEAN
         /\ entry.suspend_disabled \in BOOLEAN
         /\ entry.last_active_tick \in Tick
         /\ entry.manual_resume_until_tick \in Tick
         /\ entry.last_heartbeat_tick \in Tick
         /\ since.active \in 0 .. Range
         /\ since.hold \in 0 .. Range
         /\ since.heartbeat \in 0 .. Range
         /\ now_tick \in Tick
         /\ failed \in BOOLEAN /\ lowered \in BOOLEAN
  BY DEF TypeOK, TrackedProcess, Ages

LEMMA EntryStarts == Init => EntryInv
<1> SUFFICES ASSUME Init
             PROVE  EntryInv
  OBVIOUS
<1>1. since.active = Range /\ since.hold = Range /\ since.heartbeat = Range
  BY DEF Init
<1>2. 0 \in Tick
  BY RangeIsNatural DEF Tick
<1>3. TypeOK
  BY <1>2, NothingYet DEF Init, TypeOK
<1>4. TimeInv
  BY <1>1, RangeIsNatural DEF TimeInv
<1> QED
  BY <1>3, <1>4 DEF Init, EntryInv, Untracked, DecisionInv, BeatInv,
                    LoweredInv, NoEntry

-----------------------------------------------------------------------------
(* The steps between passes.                                               *)

(* Giving a process back leaves nothing lowered unless something failed.   *)
LEMMA ReleaseEffect ==
  ASSUME EntryInv, NEW resumed \in BOOLEAN, NEW restored \in BOOLEAN,
         Release(resumed, restored)
  PROVE  /\ lowered' \in BOOLEAN /\ failed' \in BOOLEAN
         /\ ~failed' => ~failed
         /\ ~failed' /\ ~config.trim_working_set => ~lowered'
         /\ ~failed' => ~(entry.suspended /\ ~resumed)
<1>1. /\ lowered' = (lowered /\ ~(entry.suspended /\ resumed)
                             /\ ~(entry.background_mode /\ restored))
      /\ failed' = (failed \/ (entry.suspended /\ ~resumed)
                           \/ (entry.background_mode /\ ~restored))
  BY DEF Release
<1>2. (lowered /\ ~failed /\ ~config.trim_working_set)
        => entry.suspended \/ entry.background_mode
  BY DEF EntryInv, LoweredInv
<1>3. lowered' \in BOOLEAN /\ failed' \in BOOLEAN
  BY <1>1, Zenon
<1>4. ~failed' => ~failed /\ ~(entry.suspended /\ ~resumed)
                          /\ ~(entry.background_mode /\ ~restored)
  BY <1>1, Zenon
<1>5. ~failed' /\ ~config.trim_working_set => ~lowered'
  BY <1>1, <1>2, <1>4, Zenon
<1> QED
  BY <1>3, <1>4, <1>5, Zenon

LEMMA ResumedEntry ==
  ASSUME TypeOK, NEW resumed \in BOOLEAN
  PROVE  LET e == Resumed(resumed)
         IN  /\ e \in TrackedProcess
             /\ e.suspended => entry.suspended /\ ~resumed
             /\ e.background_mode = FALSE
             /\ e.suspend_disabled = entry.suspend_disabled
             /\ e.last_active_tick = entry.last_active_tick
             /\ e.manual_resume_until_tick = entry.manual_resume_until_tick
             /\ e.last_heartbeat_tick = entry.last_heartbeat_tick
<1> DEFINE still == entry.suspended /\ ~resumed
<1>1. Resumed(resumed) = [entry EXCEPT !.suspended = still,
                                       !.background_mode = FALSE]
  BY DEF Resumed
<1>2. entry \in TrackedProcess /\ still \in BOOLEAN
  BY DEF TypeOK
<1>3. still => entry.suspended /\ ~resumed
  OBVIOUS
<1> HIDE DEF still
<1>4. /\ Resumed(resumed) \in TrackedProcess
      /\ Resumed(resumed).suspended = still
      /\ Resumed(resumed).background_mode = FALSE
      /\ Resumed(resumed).suspend_disabled = entry.suspend_disabled
      /\ Resumed(resumed).last_active_tick = entry.last_active_tick
      /\ Resumed(resumed).manual_resume_until_tick
           = entry.manual_resume_until_tick
      /\ Resumed(resumed).last_heartbeat_tick = entry.last_heartbeat_tick
  BY <1>1, <1>2 DEF TrackedProcess
<1>5. Resumed(resumed).suspended => entry.suspended /\ ~resumed
  BY <1>3, <1>4, Zenon
<1> QED
  BY <1>4, <1>5

LEMMA OutcomesAreBoolean == \A fault : Outcomes(fault) \subseteq BOOLEAN
  BY DEF Outcomes

LEMMA ResumedNothing ==
  ASSUME NEW resumed \in BOOLEAN, entry = NoEntry
  PROVE  Resumed(resumed) = NoEntry
<1>1. Resumed(resumed) = [NoEntry EXCEPT !.suspended = @ /\ ~resumed,
                                         !.background_mode = FALSE]
  BY DEF Resumed
<1>2. (NoEntry.suspended /\ ~resumed) = FALSE
  BY DEF NoEntry
<1>3. Resumed(resumed) = [NoEntry EXCEPT !.suspended = FALSE,
                                         !.background_mode = FALSE]
  BY <1>1, <1>2, Zenon
<1> QED
  BY <1>3 DEF NoEntry

LEMMA RequestKeeps ==
  ASSUME EntryInv, ResumeIsRequested
  PROVE  EntryInv'
<1>1. /\ stage' = stage /\ stage = "pump" /\ resume_requested' = TRUE
      /\ UNCHANGED <<config, now_tick, tracked, entry, decision, background,
                     lowered, since, failed>>
  BY DEF ResumeIsRequested
<1> QED
  BY <1>1 DEF EntryInv, TypeOK, TimeInv, Untracked, DecisionInv, BeatInv,
              LoweredInv

LEMMA StopKeeps ==
  ASSUME EntryInv, GuardStops
  PROVE  EntryInv'
<1>1. /\ stage' = "stopped"
      /\ UNCHANGED <<config, now_tick, tracked, decision, background,
                     resume_requested, since>>
  BY DEF GuardStops
<1>2. PICK resumed \in BOOLEAN, restored \in BOOLEAN :
        Release(resumed, restored) /\ entry' = Resumed(resumed)
  BY OutcomesAreBoolean DEF GuardStops
<1>3. /\ lowered' \in BOOLEAN /\ failed' \in BOOLEAN
      /\ ~failed' /\ ~config.trim_working_set => ~lowered'
      /\ ~failed' => ~(entry.suspended /\ ~resumed)
  BY <1>2, ReleaseEffect
<1>4. /\ entry' \in TrackedProcess
      /\ entry'.suspended => entry.suspended /\ ~resumed
      /\ entry'.last_active_tick = entry.last_active_tick
      /\ entry'.manual_resume_until_tick = entry.manual_resume_until_tick
      /\ entry'.last_heartbeat_tick = entry.last_heartbeat_tick
  BY <1>2, ResumedEntry DEF EntryInv
<1>5. TypeOK'
  BY <1>1, <1>3, <1>4 DEF EntryInv, TypeOK
<1>6. TimeInv'
  BY <1>1, <1>4 DEF EntryInv, TimeInv
<1>7. Untracked'
  BY <1>1, <1>2, ResumedNothing DEF EntryInv, Untracked
<1>8. BeatInv'
  BY <1>3, <1>4 DEF BeatInv
<1>9. LoweredInv' /\ DecisionInv'
  BY <1>1, <1>3 DEF LoweredInv, DecisionInv
<1> QED
  BY <1>5, <1>6, <1>7, <1>8, <1>9 DEF EntryInv

LEMMA PassBeginKeeps ==
  ASSUME EntryInv, PassBegins
  PROVE  EntryInv'
<1>1. /\ stage = "pump" /\ stage' = "observe" /\ resume_requested' = FALSE
      /\ UNCHANGED <<config, tracked, decision, background>>
  BY DEF PassBegins
<1> DEFINE held == tracked /\ resume_requested
<1>2. PICK elapsed \in 0 .. MaxElapsed :
        /\ now_tick' = Plus(now_tick, elapsed)
        /\ since' =
             [active |-> IF held THEN 0 ELSE Older(since.active, elapsed),
              hold |-> IF held THEN 0 ELSE Older(since.hold, elapsed),
              heartbeat |-> Older(since.heartbeat, elapsed)]
        /\ IF held
           THEN \E resumed \in Outcomes("resume"),
                   restored \in Outcomes("mode") :
                  /\ Release(resumed, restored)
                  /\ entry' = hold_resumed_processes(
                                Resumed(resumed), Plus(now_tick, elapsed))
           ELSE UNCHANGED <<entry, lowered, failed>>
  BY DEF PassBegins
<1>3. TypeOK /\ TimeInv /\ Untracked /\ BeatInv /\ LoweredInv
  BY DEF EntryInv
<1>4. /\ config.manual_resume_grace_ms \in 0 .. HalfRange
      /\ 0 \in 0 .. HalfRange
      /\ config.heartbeat_interval_ms \in 1 .. HalfRange
      /\ HalfRange \in Nat /\ Range \in Nat /\ Range = HalfRange + HalfRange
      /\ HalfRange > 0
      /\ MaxElapsed \in 1 .. Range - 1
  BY <1>3, ConfigIsBounded, RangeIsNatural DEF TypeOK
<1>5. now_tick' \in Tick
  BY <1>2, <1>3, <1>4, FieldsTyped, TicksWrap
<1>6. /\ since'.heartbeat = Older(since.heartbeat, elapsed)
      /\ since'.heartbeat \in 0 .. Range
      /\ since'.heartbeat <= since.heartbeat + elapsed
  BY <1>2, <1>3, FieldsTyped, OlderAges
<1>7. since'.heartbeat < Range
        => Minus(now_tick', entry.last_heartbeat_tick) = since'.heartbeat
  <2>1. since.heartbeat < Range
          => Minus(now_tick, entry.last_heartbeat_tick)
               = IF since.heartbeat >= 0 THEN since.heartbeat - 0
                                         ELSE since.heartbeat - 0 + Range
    BY <1>3, FieldsTyped DEF TimeInv
  <2> QED
    BY <1>2, <1>3, <1>4, <1>6, <2>1, FieldsTyped, TimePasses
<1>8. CASE ~held
  <2>1. /\ UNCHANGED <<entry, lowered, failed>>
        /\ since'.active = Older(since.active, elapsed)
        /\ since'.hold = Older(since.hold, elapsed)
    BY <1>2, <1>8
  <2>2. since'.active \in 0 .. Range /\ since'.hold \in 0 .. Range
    BY <1>2, <1>3, <2>1, FieldsTyped, OlderAges
  <2>3. since' \in Ages
    BY <1>2, <1>6, <1>8, <2>2 DEF Ages
  <2>4. TypeOK'
    BY <1>1, <1>3, <1>5, <2>1, <2>3 DEF TypeOK
  <2>5. since'.active < Range
          => Minus(now_tick', entry.last_active_tick) = since'.active
    <3>1. since.active < Range
            => Minus(now_tick, entry.last_active_tick)
                 = IF since.active >= 0 THEN since.active - 0
                                        ELSE since.active - 0 + Range
      BY <1>3, FieldsTyped DEF TimeInv
    <3> QED
      BY <1>2, <1>3, <1>4, <2>1, <2>2, <3>1, FieldsTyped, TimePasses
  <2>6. since'.hold < Range
          => Minus(now_tick', entry.manual_resume_until_tick)
               = IF since'.hold >= config.manual_resume_grace_ms
                 THEN since'.hold - config.manual_resume_grace_ms
                 ELSE since'.hold - config.manual_resume_grace_ms + Range
    <3>1. since.hold < Range
            => Minus(now_tick, entry.manual_resume_until_tick)
                 = IF since.hold >= config.manual_resume_grace_ms
                   THEN since.hold - config.manual_resume_grace_ms
                   ELSE since.hold - config.manual_resume_grace_ms + Range
      BY <1>3 DEF TimeInv
    <3> QED
      BY <1>2, <1>3, <1>4, <2>1, <3>1, FieldsTyped, TimePasses
  <2>7. TimeInv'
    BY <1>1, <1>7, <2>1, <2>5, <2>6 DEF TimeInv
  <2>8. Untracked'
    BY <1>1, <1>2, <1>3, <1>8, <2>1, OlderAges, RangeIsNatural DEF Untracked
  <2>9. BeatInv'
    BY <1>1, <1>2, <1>3, <1>4, <1>6, <2>1, FieldsTyped DEF BeatInv
  <2>10. LoweredInv' /\ DecisionInv'
    BY <1>1, <1>3, <2>1 DEF LoweredInv, DecisionInv
  <2> QED
    BY <2>4, <2>7, <2>8, <2>9, <2>10 DEF EntryInv
<1>9. CASE held
  <2>1. PICK resumed \in BOOLEAN, restored \in BOOLEAN :
          /\ Release(resumed, restored)
          /\ entry' = hold_resumed_processes(Resumed(resumed), now_tick')
    BY <1>2, <1>9, OutcomesAreBoolean
  <2>2. /\ lowered' \in BOOLEAN /\ failed' \in BOOLEAN
        /\ ~failed' => ~failed
        /\ ~failed' /\ ~config.trim_working_set => ~lowered'
        /\ ~failed' => ~(entry.suspended /\ ~resumed)
    BY <2>1, ReleaseEffect
  <2>3. Plus(now_tick', config.manual_resume_grace_ms) \in Tick
    BY <1>4, <1>5, RangeIsNatural, TicksWrap
  <2>4. /\ entry' \in TrackedProcess
        /\ entry'.suspended => entry.suspended /\ ~resumed
        /\ entry'.last_active_tick = now_tick'
        /\ entry'.manual_resume_until_tick
             = Plus(now_tick', config.manual_resume_grace_ms)
        /\ entry'.last_heartbeat_tick = entry.last_heartbeat_tick
    <3> DEFINE e == Resumed(resumed)
    <3>1. /\ e \in TrackedProcess
          /\ e.suspended => entry.suspended /\ ~resumed
          /\ e.last_heartbeat_tick = entry.last_heartbeat_tick
      BY <1>3, <2>1, ResumedEntry
    <3>2. entry' = [e EXCEPT !.manual_resume_until_tick =
                              Plus(now_tick', config.manual_resume_grace_ms),
                            !.last_active_tick = now_tick']
      BY <2>1 DEF hold_resumed_processes
    <3> HIDE DEF e
    <3> QED
      BY <1>5, <2>3, <3>1, <3>2 DEF TrackedProcess
  <2>5. since'.active = 0 /\ since'.hold = 0 /\ since' \in Ages
    BY <1>2, <1>4, <1>6, <1>9 DEF Ages
  <2>6. TypeOK'
    BY <1>1, <1>3, <1>5, <2>2, <2>4, <2>5 DEF TypeOK
  <2>7. TimeInv'
    <3>1. Minus(now_tick', now_tick') = 0
      BY <1>4, <1>5, TicksWrap
    <3>2. Minus(now_tick', Plus(now_tick', config.manual_resume_grace_ms))
            = IF config.manual_resume_grace_ms = 0
              THEN 0 ELSE Range - config.manual_resume_grace_ms
      BY <1>4, <1>5, TicksWrap
    <3> QED
      BY <1>1, <1>4, <1>7, <2>4, <2>5, <3>1, <3>2 DEF TimeInv
  <2>8. Untracked'
    BY <1>1, <1>9 DEF Untracked
  <2>9. BeatInv'
    BY <2>2, <2>4 DEF BeatInv
  <2>10. LoweredInv' /\ DecisionInv'
    BY <1>1, <2>2 DEF LoweredInv, DecisionInv
  <2> QED
    BY <2>6, <2>7, <2>8, <2>9, <2>10 DEF EntryInv
<1> QED
  BY <1>8, <1>9

LEMMA CleanupKeeps ==
  ASSUME EntryInv, cleanup_tracked_processes
  PROVE  EntryInv'
<1>1. /\ tracked' = FALSE /\ entry' = NoEntry /\ stage' = "pump"
      /\ since' = [active |-> Range, hold |-> Range, heartbeat |-> Range]
      /\ UNCHANGED <<config, now_tick, decision, background, resume_requested>>
  BY DEF cleanup_tracked_processes
<1>2. PICK resumed \in BOOLEAN, restored \in BOOLEAN :
        Release(resumed, restored)
  BY OutcomesAreBoolean DEF cleanup_tracked_processes
<1>3. /\ lowered' \in BOOLEAN /\ failed' \in BOOLEAN
      /\ ~failed' /\ ~config.trim_working_set => ~lowered'
  BY <1>2, ReleaseEffect
<1>4. TypeOK'
  BY <1>1, <1>3, NothingYet DEF EntryInv, TypeOK
<1>5. TimeInv'
  BY <1>1, RangeIsNatural DEF TimeInv
<1> QED
  BY <1>1, <1>3, <1>4, <1>5
     DEF EntryInv, Untracked, DecisionInv, BeatInv, LoweredInv, NoEntry

-----------------------------------------------------------------------------
(* The steps of a pass.                                                    *)

LEMMA DecisionTyped ==
  ASSUME NEW i
  PROVE  LET d == evaluate_suspend_policy(i)
         IN  /\ d \in SuspendDecision
             /\ d.should_suspend => /\ ~i.suspend_disabled
                                   /\ i.manual_resume_grace_elapsed
                                   /\ i.background_grace_elapsed
             /\ d.reason = "background-grace" => ~i.background_grace_elapsed
             /\ d.reason = "manual-resume-grace"
                  => ~i.manual_resume_grace_elapsed
  BY DEF evaluate_suspend_policy, Refuse, Suspend, SuspendDecision, Reasons

LEMMA ObserveKeeps ==
  ASSUME EntryInv, ObserveFamily
  PROVE  EntryInv'
<1>1. /\ stage = "observe" /\ stage' = "mode" /\ tracked' = TRUE
      /\ UNCHANGED <<config, now_tick, resume_requested, lowered, failed>>
  BY DEF ObserveFamily
<1>2. PICK minimized \in 0 .. MaxWindows, restored \in 0 .. MaxWindows,
           foreground \in BOOLEAN, audio \in BOOLEAN :
        Observe(minimized, restored, foreground, audio)
  BY DEF ObserveFamily
<1>3. TypeOK /\ TimeInv /\ Untracked /\ BeatInv /\ LoweredInv
  BY DEF EntryInv
<1>4. /\ config.background_grace_ms \in 0 .. HalfRange
      /\ config.manual_resume_grace_ms \in 0 .. HalfRange
      /\ config.heartbeat_interval_ms \in 1 .. HalfRange
      /\ HalfRange \in Nat /\ Range \in Nat /\ Range = HalfRange + HalfRange
      /\ HalfRange > 0 /\ MaxElapsed \in 1 .. Range - 1
      /\ now_tick \in Tick
  BY <1>3, ConfigIsBounded, RangeIsNatural DEF TypeOK
<1> DEFINE active == foreground \/ audio
<1> DEFINE found == IF tracked THEN entry ELSE NewEntry
<1> DEFINE seen == IF active THEN [found EXCEPT !.last_active_tick = now_tick]
                             ELSE found
<1> DEFINE busy == (/\ ~active
                    /\ minimized + restored > 0
                    /\ ~browser_windows_are_minimized_only(
                          minimized + restored, minimized, restored))
<1> DEFINE i == [policy |-> config.suspend_policy,
                 minimized_window_count |-> minimized,
                 visible_restored_window_count |-> restored,
                 has_foreground_window |-> foreground,
                 has_audio |-> audio,
                 suspend_disabled |-> seen.suspend_disabled,
                 manual_resume_grace_elapsed |->
                   tick_deadline_reached(now_tick,
                                         seen.manual_resume_until_tick),
                 background_grace_elapsed |->
                   tick_deadline_reached(
                     now_tick,
                     Plus(seen.last_active_tick, config.background_grace_ms))]
<1>5. /\ entry' = seen
      /\ since' = [since EXCEPT
                     !.active = IF active \/ ~tracked THEN 0 ELSE @,
                     !.hold = IF tracked THEN @
                                         ELSE config.manual_resume_grace_ms,
                     !.heartbeat = IF tracked THEN @ ELSE 0]
      /\ decision' = evaluate_suspend_policy(i)
      /\ background' = busy
  BY <1>2 DEF Observe
<1>6. /\ found \in TrackedProcess
      /\ tracked => found = entry
      /\ ~tracked => /\ found.last_active_tick = now_tick
                     /\ found.manual_resume_until_tick = now_tick
                     /\ found.last_heartbeat_tick = now_tick
                     /\ found.suspended = FALSE
                     /\ found.background_mode = FALSE
  <2>1. NewEntry \in TrackedProcess
    BY <1>4, NothingYet DEF NewEntry, TrackedProcess
  <2>2. /\ NewEntry.last_active_tick = now_tick
        /\ NewEntry.manual_resume_until_tick = now_tick
        /\ NewEntry.last_heartbeat_tick = now_tick
        /\ NewEntry.suspended = FALSE
        /\ NewEntry.background_mode = FALSE
    BY DEF NewEntry, NoEntry
  <2>3. entry \in TrackedProcess /\ tracked \in BOOLEAN
    BY <1>3 DEF TypeOK
  <2> QED
    BY <2>1, <2>2, <2>3
<1>7. /\ seen \in TrackedProcess
      /\ seen.suspended = found.suspended
      /\ seen.background_mode = found.background_mode
      /\ seen.suspend_disabled = found.suspend_disabled
      /\ seen.manual_resume_until_tick = found.manual_resume_until_tick
      /\ seen.last_heartbeat_tick = found.last_heartbeat_tick
      /\ seen.last_active_tick = IF active THEN now_tick
                                           ELSE found.last_active_tick
  <2> HIDE DEF found
  <2> QED
    BY <1>4, <1>6 DEF TrackedProcess
<1>8. /\ since'.active = IF active \/ ~tracked THEN 0 ELSE since.active
      /\ since'.hold = IF tracked THEN since.hold
                                  ELSE config.manual_resume_grace_ms
      /\ since'.heartbeat = IF tracked THEN since.heartbeat ELSE 0
      /\ since' \in Ages
  <2> DEFINE age == IF active \/ ~tracked THEN 0 ELSE since.active
  <2> DEFINE held == IF tracked THEN since.hold
                                ELSE config.manual_resume_grace_ms
  <2> DEFINE beat == IF tracked THEN since.heartbeat ELSE 0
  <2>1. since' = [since EXCEPT !.active = age, !.hold = held,
                               !.heartbeat = beat]
    BY <1>5
  <2>2. since \in Ages /\ tracked \in BOOLEAN
    BY <1>3 DEF TypeOK
  <2>3. active \in BOOLEAN
    OBVIOUS
  <2> HIDE DEF active
  <2>4. age \in 0 .. Range /\ held \in 0 .. Range /\ beat \in 0 .. Range
    BY <1>4, <2>2, <2>3 DEF Ages
  <2>5. /\ age = IF active \/ ~tracked THEN 0 ELSE since.active
        /\ held = IF tracked THEN since.hold
                             ELSE config.manual_resume_grace_ms
        /\ beat = IF tracked THEN since.heartbeat ELSE 0
    OBVIOUS
  <2> HIDE DEF age, held, beat
  <2>6. /\ since'.active = age /\ since'.hold = held
        /\ since'.heartbeat = beat
        /\ since' \in Ages
    BY <2>1, <2>2, <2>4 DEF Ages
  <2> QED
    BY <2>5, <2>6, Zenon
<1>10. Minus(now_tick, now_tick) = 0
  BY <1>4, RangeIsNatural, TicksWrap
<1>11. TimeInv'
  <2> HIDE DEF seen, found, busy, active, i
  <2>1. since'.active < Range
          => Minus(now_tick, seen.last_active_tick) = since'.active
    BY <1>3, <1>6, <1>7, <1>8, <1>10 DEF TimeInv
  <2>2. since'.hold < Range
          => Minus(now_tick, seen.manual_resume_until_tick)
               = IF since'.hold >= config.manual_resume_grace_ms
                 THEN since'.hold - config.manual_resume_grace_ms
                 ELSE since'.hold - config.manual_resume_grace_ms + Range
    <3>1. CASE tracked
      BY <1>3, <1>6, <1>7, <1>8, <3>1 DEF TimeInv
    <3>2. CASE ~tracked
      BY <1>4, <1>6, <1>7, <1>8, <1>10, <3>2
    <3> QED
      BY <3>1, <3>2
  <2>3. since'.heartbeat < Range
          => Minus(now_tick, seen.last_heartbeat_tick) = since'.heartbeat
    BY <1>3, <1>6, <1>7, <1>8, <1>10 DEF TimeInv
  <2> QED
    BY <1>1, <1>5, <2>1, <2>2, <2>3 DEF TimeInv
<1>12. TypeOK'
  <2>1. busy \in BOOLEAN
    OBVIOUS
  <2>2. decision' \in SuspendDecision
    BY <1>5, DecisionTyped
  <2> HIDE DEF seen, found, busy, active, i
  <2> QED
    BY <1>1, <1>3, <1>5, <1>7, <1>8, <2>1, <2>2 DEF TypeOK
<1>13. DecisionInv'
  <2>1. /\ decision'.should_suspend =>
             /\ ~seen.suspend_disabled
             /\ tick_deadline_reached(now_tick, seen.manual_resume_until_tick)
             /\ tick_deadline_reached(
                  now_tick,
                  Plus(seen.last_active_tick, config.background_grace_ms))
        /\ decision'.reason = "background-grace" =>
             ~tick_deadline_reached(
                now_tick,
                Plus(seen.last_active_tick, config.background_grace_ms))
        /\ decision'.reason = "manual-resume-grace" =>
             ~tick_deadline_reached(now_tick, seen.manual_resume_until_tick)
    <3> HIDE DEF seen
    <3>1. /\ i.suspend_disabled = seen.suspend_disabled
          /\ i.manual_resume_grace_elapsed
               = tick_deadline_reached(now_tick, seen.manual_resume_until_tick)
          /\ i.background_grace_elapsed
               = tick_deadline_reached(
                   now_tick,
                   Plus(seen.last_active_tick, config.background_grace_ms))
      OBVIOUS
    <3> HIDE DEF i
    <3>2. /\ decision'.should_suspend => /\ ~i.suspend_disabled
                                        /\ i.manual_resume_grace_elapsed
                                        /\ i.background_grace_elapsed
          /\ decision'.reason = "background-grace"
               => ~i.background_grace_elapsed
          /\ decision'.reason = "manual-resume-grace"
               => ~i.manual_resume_grace_elapsed
      BY <1>5, DecisionTyped
    <3> QED
      BY <3>1, <3>2, Zenon
  <2> HIDE DEF seen, found, busy, active, i
  <2>2. /\ seen.last_active_tick \in Tick
        /\ seen.manual_resume_until_tick \in Tick
        /\ since'.active \in 0 .. Range /\ since'.hold \in 0 .. Range
    BY <1>7, <1>8 DEF TrackedProcess, Ages
  <2>3. /\ tick_deadline_reached(
             now_tick, Plus(seen.last_active_tick, config.background_grace_ms))
             => since'.active >= config.background_grace_ms
        /\ ~tick_deadline_reached(
              now_tick, Plus(seen.last_active_tick, config.background_grace_ms))
             => \/ since'.active < config.background_grace_ms
                \/ since'.active >= config.background_grace_ms + HalfRange
    <3>1. since'.active < Range
            => Minus(now_tick, seen.last_active_tick) = since'.active
      BY <1>1, <1>5, <1>11 DEF TimeInv
    <3> QED
      BY <1>4, <2>2, <3>1, DeadlineReached
  <2>4. /\ tick_deadline_reached(now_tick, seen.manual_resume_until_tick)
             => since'.hold >= config.manual_resume_grace_ms
        /\ ~tick_deadline_reached(now_tick, seen.manual_resume_until_tick)
             => \/ since'.hold < config.manual_resume_grace_ms
                \/ since'.hold >= config.manual_resume_grace_ms + HalfRange
    <3>1. since'.hold < Range
            => Minus(now_tick, seen.manual_resume_until_tick)
                 = IF since'.hold >= config.manual_resume_grace_ms
                   THEN since'.hold - config.manual_resume_grace_ms
                   ELSE since'.hold - config.manual_resume_grace_ms + Range
      BY <1>1, <1>5, <1>11 DEF TimeInv
    <3> QED
      BY <1>4, <2>2, <3>1, HoldReached
  <2>5. /\ entry'.suspend_disabled = seen.suspend_disabled
        /\ config' = config
    BY <1>1, <1>5
  <2>6. decision'.should_suspend =>
          /\ since'.active >= config'.background_grace_ms
          /\ since'.hold >= config'.manual_resume_grace_ms
          /\ ~entry'.suspend_disabled
    BY <2>1, <2>3, <2>4, <2>5
  <2>7. GraceEnds'
    BY <2>1, <2>3, <2>4, <2>5 DEF GraceEnds
  <2> QED
    BY <2>6, <2>7 DEF DecisionInv
<1>14. BeatInv' /\ LoweredInv'
  <2>1. entry'.suspended => tracked /\ entry.suspended
    BY <1>5, <1>6, <1>7
  <2>2. entry.suspended \/ entry.background_mode
          => tracked /\ (entry'.suspended \/ entry'.background_mode)
    <3>1. ~tracked => ~entry.suspended /\ ~entry.background_mode
      BY <1>3 DEF Untracked, NoEntry
    <3> QED
      BY <1>5, <1>6, <1>7, <3>1
  <2> HIDE DEF seen, found, busy, active, i
  <2>3. BeatInv'
    BY <1>1, <1>3, <1>8, <2>1 DEF BeatInv
  <2>4. LoweredInv'
    BY <1>1, <1>3, <2>2 DEF LoweredInv
  <2> QED
    BY <2>3, <2>4
<1> QED
  BY <1>1, <1>11, <1>12, <1>13, <1>14 DEF EntryInv, Untracked

(* What every step between the observation and the end of a pass leaves.   *)
LEMMA ChangeModeKeeps ==
  ASSUME EntryInv, ChangeMode
  PROVE  EntryInv'
<1>1. /\ stage = "mode" /\ stage' = "decide"
      /\ UNCHANGED <<config, now_tick, tracked, decision, background,
                     resume_requested, since, failed>>
  BY DEF ChangeMode
<1>2. TypeOK /\ TimeInv /\ Untracked /\ DecisionInv /\ BeatInv /\ LoweredInv
  BY DEF EntryInv
<1>3. \/ /\ entry' = [entry EXCEPT !.background_mode = background]
         /\ lowered' = (background /\ Lower)
      \/ entry' = entry /\ lowered' = lowered
      \/ /\ entry' = entry /\ config.trim_working_set
         /\ lowered' = Lower
  BY DEF ChangeMode
<1>4. /\ Lower \in BOOLEAN /\ background \in BOOLEAN
      /\ lowered \in BOOLEAN /\ entry \in TrackedProcess
  BY <1>2, ConfigIsBounded DEF Lower, TypeOK
<1>5. /\ entry' \in TrackedProcess
      /\ entry'.suspended = entry.suspended
      /\ entry'.suspend_disabled = entry.suspend_disabled
      /\ entry'.last_active_tick = entry.last_active_tick
      /\ entry'.manual_resume_until_tick = entry.manual_resume_until_tick
      /\ entry'.last_heartbeat_tick = entry.last_heartbeat_tick
  BY <1>3, <1>4 DEF TrackedProcess
<1>6. lowered' \in BOOLEAN
  BY <1>3, <1>4, Zenon
<1>7. TypeOK'
  BY <1>1, <1>2, <1>5, <1>6 DEF TypeOK
<1>8. TimeInv'
  BY <1>1, <1>2, <1>5 DEF TimeInv
<1>9. Untracked'
  BY <1>1, <1>2 DEF Untracked
<1>10. DecisionInv'
  BY <1>1, <1>2, <1>5 DEF DecisionInv, GraceEnds
<1>11. BeatInv'
  BY <1>1, <1>2, <1>5 DEF BeatInv
<1>12. LoweredInv'
  <2>1. CASE /\ entry' = [entry EXCEPT !.background_mode = background]
             /\ lowered' = (background /\ Lower)
    <3>1. entry'.background_mode = background
      BY <1>4, <2>1 DEF TrackedProcess
    <3>2. lowered' => background
      BY <2>1, Zenon
    <3> QED
      BY <1>1, <3>1, <3>2 DEF LoweredInv
  <2>2. CASE entry' = entry /\ lowered' = lowered
    BY <1>1, <1>2, <2>2 DEF LoweredInv
  <2>3. CASE config.trim_working_set
    BY <1>1, <2>3 DEF LoweredInv
  <2> QED
    BY <1>3, <2>1, <2>2, <2>3
<1> QED
  BY <1>7, <1>8, <1>9, <1>10, <1>11, <1>12 DEF EntryInv

(* What the steps that end a pass have in common.                          *)
LEMMA PassEndKeeps ==
  ASSUME EntryInv, PassEnds,
         stage \in {"decide", "trim"},
         entry' \in TrackedProcess, since' \in Ages,
         lowered' \in BOOLEAN, failed' \in BOOLEAN,
         TimeInv', BeatInv', LoweredInv'
  PROVE  EntryInv'
<1>1. /\ stage' = "pump" /\ decision' = NoDecision /\ background' = FALSE
      /\ UNCHANGED <<config, now_tick, tracked, resume_requested>>
  BY DEF PassEnds
<1>2. TypeOK /\ tracked
  BY DEF EntryInv, Untracked
<1>3. TypeOK'
  BY <1>1, <1>2, NothingYet DEF TypeOK
<1>4. Untracked' /\ DecisionInv'
  BY <1>1, <1>2 DEF Untracked, DecisionInv
<1> QED
  BY <1>3, <1>4 DEF EntryInv

LEMMA RefusesKeeps ==
  ASSUME EntryInv, RefusesWithoutRecord
  PROVE  EntryInv'
<1>1. /\ stage = "decide" /\ ~entry.suspended
      /\ entry' = [entry EXCEPT !.suspend_disabled = TRUE]
      /\ PassEnds /\ stage' = "pump"
      /\ UNCHANGED <<config, now_tick, lowered, since, failed>>
  BY DEF RefusesWithoutRecord, PassEnds
<1>2. TypeOK /\ TimeInv /\ LoweredInv
  BY DEF EntryInv
<1>3. /\ entry' \in TrackedProcess
      /\ entry'.suspended = entry.suspended
      /\ entry'.background_mode = entry.background_mode
      /\ entry'.last_active_tick = entry.last_active_tick
      /\ entry'.manual_resume_until_tick = entry.manual_resume_until_tick
      /\ entry'.last_heartbeat_tick = entry.last_heartbeat_tick
  BY <1>1, <1>2 DEF TypeOK, TrackedProcess
<1>4. TimeInv'
  BY <1>1, <1>2, <1>3 DEF TimeInv
<1>5. BeatInv'
  BY <1>1, <1>3 DEF BeatInv
<1>6. LoweredInv'
  BY <1>1, <1>2, <1>3 DEF LoweredInv
<1>7. since' \in Ages /\ lowered' \in BOOLEAN /\ failed' \in BOOLEAN
  BY <1>1, <1>2 DEF TypeOK
<1> QED
  BY <1>1, <1>3, <1>4, <1>5, <1>6, <1>7, PassEndKeeps

LEMMA SuspendKeeps ==
  ASSUME EntryInv, SuspendProcess
  PROVE  EntryInv'
<1>1. /\ stage = "decide" /\ ~entry.suspended
      /\ PassEnds /\ stage' = "pump"
      /\ UNCHANGED <<config, now_tick, failed>>
  BY DEF SuspendProcess, PassEnds
<1>2. TypeOK /\ TimeInv /\ LoweredInv
  BY DEF EntryInv
<1>3. Lower \in BOOLEAN /\ failed' \in BOOLEAN
  BY <1>1, <1>2, ConfigIsBounded DEF Lower, TypeOK
<1>4. /\ config.heartbeat_interval_ms \in 1 .. HalfRange
      /\ now_tick \in Tick /\ entry \in TrackedProcess /\ since \in Ages
      /\ Range \in Nat /\ Minus(now_tick, now_tick) = 0
      /\ HalfRange \in Nat
  BY <1>2, ConfigIsBounded, RangeIsNatural, TicksWrap DEF TypeOK
<1>5. ASSUME entry' = [entry EXCEPT !.suspended = TRUE,
                                    !.last_heartbeat_tick = now_tick],
             since' = [since EXCEPT !.heartbeat = 0],
             lowered' = Lower
      PROVE  EntryInv'
  <2>1. /\ entry' \in TrackedProcess
        /\ entry'.suspended = TRUE
        /\ entry'.last_active_tick = entry.last_active_tick
        /\ entry'.manual_resume_until_tick = entry.manual_resume_until_tick
        /\ entry'.last_heartbeat_tick = now_tick
    BY <1>4, <1>5 DEF TrackedProcess
  <2>2. /\ since' \in Ages
        /\ since'.active = since.active /\ since'.hold = since.hold
        /\ since'.heartbeat = 0
    BY <1>4, <1>5 DEF Ages
  <2>3. TimeInv'
    BY <1>1, <1>2, <1>4, <2>1, <2>2 DEF TimeInv
  <2>4. BeatInv'
    BY <1>1, <1>4, <2>2, RangeIsNatural DEF BeatInv
  <2>5. LoweredInv'
    BY <1>1, <2>1 DEF LoweredInv
  <2>6. lowered' \in BOOLEAN
    BY <1>3, <1>5
  <2> QED
    BY <1>1, <1>3, <2>1, <2>2, <2>3, <2>4, <2>5, <2>6, PassEndKeeps
<1>6. ASSUME lowered' \in {lowered, FALSE}, entry' = entry, since' = since
      PROVE  EntryInv'
  <2>1. TimeInv'
    BY <1>1, <1>2, <1>6 DEF TimeInv
  <2>2. BeatInv'
    BY <1>1, <1>6 DEF BeatInv
  <2>3. lowered' \in BOOLEAN /\ (lowered' => lowered)
    <3>1. lowered \in BOOLEAN
      BY <1>2 DEF TypeOK
    <3>2. CASE lowered' = lowered
      BY <3>1, <3>2
    <3>3. CASE lowered' = FALSE
      BY <3>3
    <3> QED
      BY <1>6, <3>2, <3>3
  <2>4. LoweredInv'
    BY <1>1, <1>2, <1>6, <2>3 DEF LoweredInv
  <2> QED
    BY <1>1, <1>3, <1>4, <1>6, <2>1, <2>2, <2>3, <2>4, PassEndKeeps
<1> QED
  BY <1>5, <1>6 DEF SuspendProcess

LEMMA ResumeKeeps ==
  ASSUME EntryInv, ResumeProcess
  PROVE  EntryInv'
<1>1. /\ stage = "decide"
      /\ PassEnds /\ stage' = "pump"
      /\ UNCHANGED <<config, now_tick>>
  BY DEF ResumeProcess, PassEnds
<1>2. TypeOK /\ TimeInv /\ LoweredInv
  BY DEF EntryInv
<1>3. /\ now_tick \in Tick /\ entry \in TrackedProcess /\ since \in Ages
      /\ Range \in Nat /\ Minus(now_tick, now_tick) = 0
      /\ lowered \in BOOLEAN /\ failed \in BOOLEAN
  BY <1>2, RangeIsNatural, TicksWrap DEF TypeOK
<1>4. ASSUME entry' = [entry EXCEPT !.suspended = FALSE,
                                    !.last_heartbeat_tick = now_tick,
                                    !.last_active_tick = now_tick],
             since' = [since EXCEPT !.heartbeat = 0, !.active = 0],
             lowered' = FALSE, failed' = failed
      PROVE  EntryInv'
  <2>1. /\ entry' \in TrackedProcess
        /\ entry'.suspended = FALSE
        /\ entry'.last_active_tick = now_tick
        /\ entry'.manual_resume_until_tick = entry.manual_resume_until_tick
        /\ entry'.last_heartbeat_tick = now_tick
    BY <1>3, <1>4 DEF TrackedProcess
  <2>2. /\ since' \in Ages
        /\ since'.active = 0 /\ since'.hold = since.hold
        /\ since'.heartbeat = 0
    <3>1. since' = [since EXCEPT !.heartbeat = 0, !.active = 0]
      BY <1>4
    <3>2. 0 \in 0 .. Range
      BY <1>3
    <3> QED
      BY <1>3, <3>1, <3>2 DEF Ages
  <2>3. TimeInv'
    BY <1>1, <1>2, <1>3, <2>1, <2>2 DEF TimeInv
  <2>4. BeatInv'
    BY <2>1 DEF BeatInv
  <2>5. LoweredInv'
    BY <1>4 DEF LoweredInv
  <2> QED
    BY <1>1, <1>3, <1>4, <2>1, <2>2, <2>3, <2>4, <2>5, PassEndKeeps
<1>5. ASSUME failed' = TRUE, entry' = entry, since' = since,
             lowered' = lowered
      PROVE  EntryInv'
  <2>1. TimeInv'
    BY <1>1, <1>2, <1>5 DEF TimeInv
  <2>2. BeatInv' /\ LoweredInv'
    BY <1>5 DEF BeatInv, LoweredInv
  <2> QED
    BY <1>1, <1>3, <1>5, <2>1, <2>2, PassEndKeeps
<1> QED
  BY <1>4, <1>5 DEF ResumeProcess

LEMMA LeaveKeeps ==
  ASSUME EntryInv, LeavesAsIs
  PROVE  EntryInv'
<1>1. /\ stage = "decide" /\ stage' = "tend"
      /\ UNCHANGED <<config, now_tick, tracked, entry, decision, background,
                     resume_requested, lowered, since, failed>>
  BY DEF LeavesAsIs
<1> QED
  BY <1>1 DEF EntryInv, TypeOK, TimeInv, Untracked, DecisionInv, BeatInv,
              LoweredInv

LEMMA TendKeeps ==
  ASSUME EntryInv, TendEntry
  PROVE  EntryInv'
<1>1. /\ stage = "tend" /\ stage' = "trim"
      /\ run_suspend_heartbeat
      /\ UNCHANGED <<config, now_tick, tracked, decision, background,
                     resume_requested>>
  BY DEF TendEntry
<1>2. TypeOK /\ TimeInv /\ Untracked /\ BeatInv /\ LoweredInv
  BY DEF EntryInv
<1>3. /\ config.heartbeat_interval_ms \in 1 .. HalfRange
      /\ config.manual_resume_grace_ms \in 0 .. HalfRange
      /\ now_tick \in Tick /\ entry \in TrackedProcess /\ since \in Ages
      /\ HalfRange \in Nat /\ HalfRange > 0
      /\ Range \in Nat /\ Range = HalfRange + HalfRange
      /\ MaxElapsed \in 1 .. Range - 1
      /\ lowered \in BOOLEAN /\ failed \in BOOLEAN
  BY <1>2, ConfigIsBounded, RangeIsNatural DEF TypeOK
<1>4. Lower \in BOOLEAN
  BY <1>2, ConfigIsBounded DEF Lower, TypeOK
<1>5. Minus(now_tick, now_tick) = 0
  BY <1>3, TicksWrap
<1>6. Untracked' /\ DecisionInv'
  BY <1>1, <1>2 DEF Untracked, DecisionInv
<1>7. ASSUME ~HeartbeatDue, UNCHANGED <<entry, lowered, since, failed>>
      PROVE  EntryInv'
  <2>1. TypeOK' /\ TimeInv' /\ LoweredInv'
    BY <1>1, <1>2, <1>7 DEF TypeOK, TimeInv, LoweredInv
  <2>2. entry.suspended => \/ since.heartbeat < config.heartbeat_interval_ms
                           \/ since.heartbeat
                                >= config.heartbeat_interval_ms + HalfRange
    <3>1. /\ entry.last_heartbeat_tick \in Tick
          /\ since.heartbeat \in 0 .. Range
          /\ since.heartbeat < Range
               => Minus(now_tick, entry.last_heartbeat_tick) = since.heartbeat
          /\ config.heartbeat_interval_ms \in 0 .. HalfRange
      BY <1>2, <1>3, FieldsTyped DEF TimeInv
    <3>2. entry.suspended =>
            ~tick_deadline_reached(
               now_tick, Plus(entry.last_heartbeat_tick,
                              config.heartbeat_interval_ms))
      BY <1>7 DEF HeartbeatDue
    <3> QED
      BY <1>3, <3>1, <3>2, DeadlineReached
  <2>3. since.heartbeat \in Nat
    BY <1>3 DEF Ages
  <2>4. BeatInv'
    BY <1>1, <1>2, <1>3, <1>7, <2>2, <2>3 DEF BeatInv
  <2> QED
    BY <1>6, <2>1, <2>4 DEF EntryInv
<1>8. ASSUME HeartbeatDue,
             entry' = [entry EXCEPT !.last_heartbeat_tick = now_tick],
             since' = [since EXCEPT !.heartbeat = 0],
             lowered' = Lower, failed' = failed
      PROVE  EntryInv'
  <2>1. /\ entry' \in TrackedProcess
        /\ entry'.suspended = entry.suspended
        /\ entry'.last_active_tick = entry.last_active_tick
        /\ entry'.manual_resume_until_tick = entry.manual_resume_until_tick
        /\ entry'.last_heartbeat_tick = now_tick
    BY <1>3, <1>8 DEF TrackedProcess
  <2>2. /\ since' \in Ages
        /\ since'.active = since.active /\ since'.hold = since.hold
        /\ since'.heartbeat = 0
    BY <1>3, <1>8 DEF Ages
  <2>3. TypeOK'
    BY <1>1, <1>2, <1>4, <1>8, <2>1, <2>2 DEF TypeOK
  <2>4. TimeInv'
    BY <1>1, <1>2, <1>5, <2>1, <2>2 DEF TimeInv
  <2>5. BeatInv'
    BY <1>1, <1>3, <2>2 DEF BeatInv
  <2>6. LoweredInv'
    BY <1>1, <1>8, <2>1 DEF LoweredInv, HeartbeatDue
  <2> QED
    BY <1>6, <2>3, <2>4, <2>5, <2>6 DEF EntryInv
<1>9. ASSUME NEW frozen \in BOOLEAN, Protected(frozen),
             lowered' \in BOOLEAN, failed' \in BOOLEAN,
             frozen => failed', failed' \/ ~lowered'
      PROVE  EntryInv'
  <2>1. Plus(now_tick, config.manual_resume_grace_ms) \in Tick
    BY <1>3, TicksWrap
  <2>2. /\ entry' \in TrackedProcess
        /\ entry'.suspended = frozen
        /\ entry'.last_active_tick = now_tick
        /\ entry'.manual_resume_until_tick
             = Plus(now_tick, config.manual_resume_grace_ms)
        /\ entry'.last_heartbeat_tick = now_tick
    BY <1>3, <1>9, <2>1 DEF Protected, TrackedProcess
  <2>3. /\ since' \in Ages
        /\ since'.active = 0 /\ since'.hold = 0 /\ since'.heartbeat = 0
    BY <1>3, <1>9 DEF Protected, Ages
  <2>4. TypeOK'
    BY <1>1, <1>2, <1>9, <2>2, <2>3 DEF TypeOK
  <2>5. TimeInv'
    <3>1. Minus(now_tick, Plus(now_tick, config.manual_resume_grace_ms))
            = IF config.manual_resume_grace_ms = 0
              THEN 0 ELSE Range - config.manual_resume_grace_ms
      BY <1>3, TicksWrap
    <3> QED
      BY <1>1, <1>3, <1>5, <2>2, <2>3, <3>1 DEF TimeInv
  <2>6. BeatInv' /\ LoweredInv'
    BY <1>9, <2>2 DEF BeatInv, LoweredInv
  <2> QED
    BY <1>6, <2>4, <2>5, <2>6 DEF EntryInv
<1> QED
  <2>1. CASE ~HeartbeatDue
    BY <1>1, <1>7, <2>1 DEF run_suspend_heartbeat
  <2>2. CASE HeartbeatDue
    <3>1. CASE /\ entry' = [entry EXCEPT !.last_heartbeat_tick = now_tick]
               /\ since' = [since EXCEPT !.heartbeat = 0]
               /\ lowered' = Lower
               /\ failed' = failed
      BY <1>8, <2>2, <3>1
    <3>2. CASE Protected(FALSE) /\ lowered' = FALSE /\ failed' = failed
      BY <1>3, <1>9, <3>2
    <3>3. CASE Protected(TRUE) /\ failed' = TRUE /\ lowered' = lowered
      BY <1>3, <1>9, <3>3
    <3> QED
      BY <1>1, <2>2, <3>1, <3>2, <3>3 DEF run_suspend_heartbeat
  <2> QED
    BY <2>1, <2>2

LEMMA MaintainKeeps ==
  ASSUME EntryInv, maintain_suspended_process
  PROVE  EntryInv'
<1>1. /\ stage = "trim" /\ PassEnds /\ stage' = "pump"
      /\ UNCHANGED <<config, now_tick, entry, since, failed>>
      /\ \/ lowered' = lowered
         \/ config.trim_working_set /\ lowered' = Lower
  <2>1. /\ \/ UNCHANGED lowered
           \/ /\ decision.should_suspend
              /\ config.trim_working_set
              /\ lowered' = Lower
        /\ stage = "trim" /\ PassEnds
        /\ UNCHANGED <<entry, since, failed>>
    BY DEF maintain_suspended_process
  <2>2. stage' = "pump" /\ UNCHANGED <<config, now_tick>>
    BY <2>1 DEF PassEnds
  <2> QED
    BY <2>1, <2>2
<1>2. TypeOK /\ TimeInv /\ BeatInv /\ LoweredInv
  BY DEF EntryInv
<1>3. Lower \in BOOLEAN /\ lowered \in BOOLEAN /\ failed' \in BOOLEAN
  BY <1>1, <1>2, ConfigIsBounded DEF Lower, TypeOK
<1>4. lowered' \in BOOLEAN
  BY <1>1, <1>3
<1>5. entry' \in TrackedProcess /\ since' \in Ages
  BY <1>1, <1>2 DEF TypeOK
<1>6. TimeInv' /\ BeatInv'
  BY <1>1, <1>2 DEF TimeInv, BeatInv
<1>7. LoweredInv'
  BY <1>1, <1>2 DEF LoweredInv
<1> QED
  BY <1>1, <1>3, <1>4, <1>5, <1>6, <1>7, PassEndKeeps

LEMMA EntryInvHolds == Spec => []EntryInv
<1>1. EntryInv /\ [Next]_vars => EntryInv'
  <2> SUFFICES ASSUME EntryInv, [Next]_vars
               PROVE  EntryInv'
    OBVIOUS
  <2>1. CASE UNCHANGED vars
    BY <2>1 DEF vars, guardVars, EntryInv, TypeOK, TimeInv, Untracked,
                DecisionInv, GraceEnds, BeatInv, LoweredInv
  <2>2. CASE Next
    BY <2>2, RequestKeeps, PassBeginKeeps, StopKeeps, CleanupKeeps,
       ObserveKeeps, ChangeModeKeeps, RefusesKeeps, SuspendKeeps, ResumeKeeps,
       LeaveKeeps, TendKeeps, MaintainKeeps
       DEF Next
  <2> QED
    BY <2>1, <2>2
<1> QED
  BY <1>1, EntryStarts, PTL DEF Spec

-----------------------------------------------------------------------------
(* The entry, its ticks and its ages stay in their ranges.                 *)
THEOREM EntryIsTyped == Spec => []TypeOK
<1>1. EntryInv => TypeOK
  BY DEF EntryInv
<1> QED
  BY <1>1, EntryInvHolds, PTL

(* No grace period that is over holds back a suspension, up to half the    *)
(* range of the tick count after its end (ensure_group_state).             *)
THEOREM GracePeriodsEnd == Spec => []GraceEnds
<1>1. EntryInv => GraceEnds
  BY DEF EntryInv, DecisionInv, GraceEnds
<1> QED
  BY <1>1, EntryInvHolds, PTL

(* A suspended process is probed in the first pass that begins at least a  *)
(* heartbeat interval after it was last seen to answer                     *)
(* (run_suspend_heartbeat).                                                *)
THEOREM HeartbeatIsInTime == Spec => []ProbedInTime
<1>1. EntryInv => ProbedInTime
  BY DEF EntryInv, BeatInv, ProbedInTime
<1> QED
  BY <1>1, EntryInvHolds, PTL

(* A lowered priority is one that the guard still has to restore, whatever *)
(* way the process left being suspended or in the background.              *)
THEOREM LoweredIsManaged == Spec => []LoweredOnlyWhileManaged
<1>1. EntryInv => LoweredOnlyWhileManaged
  BY DEF EntryInv, LoweredInv, LoweredOnlyWhileManaged
<1> QED
  BY <1>1, EntryInvHolds, PTL

(* A pass that begins leaves the entry alone, or holds a resumed one.      *)
LEMMA PassBeginMoves ==
  ASSUME TypeOK, PassBegins
  PROVE  \/ entry' = entry
         \/ \E resumed \in BOOLEAN, now \in Tick :
              entry' = hold_resumed_processes(Resumed(resumed), now)
<1> DEFINE held == tracked /\ resume_requested
<1>1. PICK elapsed \in 0 .. MaxElapsed :
        IF held
        THEN \E resumed \in Outcomes("resume"), restored \in Outcomes("mode") :
               /\ Release(resumed, restored)
               /\ entry' = hold_resumed_processes(
                             Resumed(resumed), Plus(now_tick, elapsed))
        ELSE UNCHANGED <<entry, lowered, failed>>
  BY DEF PassBegins
<1>2. Plus(now_tick, elapsed) \in Tick
  BY RangeIsNatural, TicksWrap DEF TypeOK
<1> QED
  BY <1>1, <1>2, OutcomesAreBoolean

(* Nothing is suspended within a grace period, in whatever order activity, *)
(* requests and passes come, and however often the tick count wraps.       *)
THEOREM GracesHold == Spec => GracesAreHonoured
<1>1. EntryInv /\ [Next]_vars =>
        [~entry.suspended /\ entry'.suspended =>
           /\ since.active >= config.background_grace_ms
           /\ since.hold >= config.manual_resume_grace_ms
           /\ ~entry.suspend_disabled]_vars
  <2> SUFFICES ASSUME EntryInv, Next, ~entry.suspended, entry'.suspended
               PROVE  /\ since.active >= config.background_grace_ms
                      /\ since.hold >= config.manual_resume_grace_ms
                      /\ ~entry.suspend_disabled
    BY DEF vars, guardVars
  <2>1. CASE SuspendProcess
    BY <2>1 DEF SuspendProcess, EntryInv, DecisionInv
  <2>2. CASE ~SuspendProcess
    <3>1. TypeOK /\ entry \in TrackedProcess
      BY DEF EntryInv, TypeOK
    <3>2. \A resumed \in BOOLEAN : ~Resumed(resumed).suspended
      BY <3>1, ResumedEntry
    <3>3. ~PassBegins
      <4>1. SUFFICES ASSUME PassBegins PROVE FALSE
        OBVIOUS
      <4>2. \/ entry' = entry
            \/ \E resumed \in BOOLEAN, now \in Tick :
                 entry' = hold_resumed_processes(Resumed(resumed), now)
        BY <3>1, <4>1, PassBeginMoves
      <4>3. \A resumed \in BOOLEAN, now \in Tick :
              ~hold_resumed_processes(Resumed(resumed), now).suspended
        <5>1. \A resumed \in BOOLEAN : Resumed(resumed) \in TrackedProcess
          BY <3>1, ResumedEntry
        <5>2. \A e \in TrackedProcess, now \in Tick :
                hold_resumed_processes(e, now).suspended = e.suspended
          BY DEF hold_resumed_processes, TrackedProcess
        <5> QED
          BY <3>2, <5>1, <5>2
      <4> QED
        BY <4>2, <4>3
    <3>4. ~GuardStops
      BY <3>2, OutcomesAreBoolean DEF GuardStops
    <3>5. ~cleanup_tracked_processes
      BY DEF cleanup_tracked_processes, NoEntry
    <3>6. ~ObserveFamily
      <4>1. \A e \in TrackedProcess :
              [e EXCEPT !.last_active_tick = now_tick].suspended = e.suspended
        BY DEF TrackedProcess
      <4>2. NewEntry.suspended = FALSE /\ NewEntry \in TrackedProcess
        BY <3>1, NothingYet DEF NewEntry, NoEntry, TrackedProcess, TypeOK
      <4> QED
        BY <3>1, <4>1, <4>2 DEF ObserveFamily, Observe
    <3>7. ~ChangeMode
      BY <3>1 DEF ChangeMode, TrackedProcess
    <3>8. ~RefusesWithoutRecord
      BY <3>1 DEF RefusesWithoutRecord, TrackedProcess
    <3>9. ~TendEntry
      BY DEF TendEntry, run_suspend_heartbeat, HeartbeatDue
    <3> QED
      BY <2>2, <3>3, <3>4, <3>5, <3>6, <3>7, <3>8, <3>9
         DEF Next, ResumeIsRequested, ResumeProcess, LeavesAsIs,
             maintain_suspended_process
  <2> QED
    BY <2>1, <2>2
<1> QED
  BY <1>1, EntryInvHolds, PTL DEF Spec, GracesAreHonoured

-----------------------------------------------------------------------------
(* The life of the entry, without the clock.                               *)

(* What each step makes of the flags that EntryLife speaks of.             *)
FlagsKept == /\ entry'.suspended = entry.suspended
             /\ entry'.suspend_disabled = entry.suspend_disabled
FlagsThawed == /\ entry'.suspended = FALSE
               /\ entry'.suspend_disabled = entry.suspend_disabled

LEMMA ResumingThaws ==
  ASSUME EntryInv, PassBegins \/ GuardStops
  PROVE  tracked' = tracked /\ (FlagsKept \/ FlagsThawed)
<1> USE DEF FlagsKept, FlagsThawed
<1>0. TypeOK /\ entry \in TrackedProcess /\ entry.suspended \in BOOLEAN
  BY FieldsTyped DEF EntryInv, TypeOK
<1>1. ASSUME NEW resumed \in BOOLEAN, NEW e \in TrackedProcess,
             e.suspended = Resumed(resumed).suspended,
             e.suspend_disabled = Resumed(resumed).suspend_disabled,
             entry' = e
      PROVE  FlagsKept \/ FlagsThawed
  <2>1. /\ e.suspended => entry.suspended
        /\ e.suspend_disabled = entry.suspend_disabled
        /\ e.suspended \in BOOLEAN
    BY <1>0, <1>1, ResumedEntry DEF TrackedProcess
  <2>2. e.suspended = entry.suspended \/ e.suspended = FALSE
    BY <1>0, <2>1
  <2> QED
    BY <1>1, <2>1, <2>2
<1>2. \A resumed \in BOOLEAN : Resumed(resumed) \in TrackedProcess
  BY <1>0, ResumedEntry
<1>3. CASE PassBegins
  <2>1. \/ entry' = entry
        \/ \E resumed \in BOOLEAN, now \in Tick :
             entry' = hold_resumed_processes(Resumed(resumed), now)
    BY <1>0, <1>3, PassBeginMoves
  <2>2. ASSUME NEW resumed \in BOOLEAN, NEW now \in Tick,
               entry' = hold_resumed_processes(Resumed(resumed), now)
        PROVE  FlagsKept \/ FlagsThawed
    <3>1. Plus(now, config.manual_resume_grace_ms) \in Tick
      BY <1>0, ConfigIsBounded, RangeIsNatural, TicksWrap DEF TypeOK
    <3>2. \A e \in TrackedProcess :
            LET held == hold_resumed_processes(e, now)
            IN  /\ held \in TrackedProcess
                /\ held.suspended = e.suspended
                /\ held.suspend_disabled = e.suspend_disabled
      BY <3>1 DEF hold_resumed_processes, TrackedProcess
    <3> QED
      BY <1>1, <1>2, <2>2, <3>2
  <2> QED
    BY <1>3, <2>1, <2>2 DEF PassBegins
<1>4. CASE GuardStops
  BY <1>1, <1>2, <1>4, OutcomesAreBoolean DEF GuardStops
<1> QED
  BY <1>3, <1>4

LEMMA EntryStepLives ==
  ASSUME EntryInv, Next
  PROVE  [Life!Next]_(Life!lifeVars)
<1> USE DEF Life!Next, Life!lifeVars
<1>0. /\ TypeOK /\ entry \in TrackedProcess
      /\ tracked \in BOOLEAN
      /\ entry.suspended \in BOOLEAN /\ entry.suspend_disabled \in BOOLEAN
      /\ ~tracked => ~entry.suspended /\ ~entry.suspend_disabled
      /\ stage \in {"decide", "tend"} => tracked
  BY FieldsTyped DEF EntryInv, TypeOK, Untracked, NoEntry
<1>1. ASSUME tracked' = tracked, FlagsKept
      PROVE  [Life!Next]_(Life!lifeVars)
  BY <1>1 DEF FlagsKept
<1>2. ASSUME tracked' = tracked, FlagsThawed
      PROVE  [Life!Next]_(Life!lifeVars)
  BY <1>0, <1>2 DEF FlagsThawed, Life!Thaw
<1>3. CASE PassBegins \/ GuardStops
  BY <1>1, <1>2, <1>3, ResumingThaws
<1>4. CASE cleanup_tracked_processes
  BY <1>4 DEF cleanup_tracked_processes, NoEntry, Life!Forget
<1>5. CASE ObserveFamily
  <2>1. NewEntry.suspended = FALSE /\ NewEntry.suspend_disabled = FALSE
        /\ NewEntry \in TrackedProcess
    BY <1>0, NothingYet DEF NewEntry, NoEntry, TrackedProcess, TypeOK
  <2>2. \A e \in TrackedProcess :
          LET seen == [e EXCEPT !.last_active_tick = now_tick]
          IN  /\ seen.suspended = e.suspended
              /\ seen.suspend_disabled = e.suspend_disabled
    BY DEF TrackedProcess
  <2>3. tracked' = TRUE
    BY <1>5 DEF ObserveFamily
  <2>4. CASE tracked
    <3>1. FlagsKept
      BY <1>0, <1>5, <2>2, <2>4 DEF ObserveFamily, Observe, FlagsKept
    <3> QED
      BY <1>0, <1>1, <2>3, <2>4, <3>1
  <2>5. CASE ~tracked
    <3>1. entry'.suspended = FALSE /\ entry'.suspend_disabled = FALSE
      BY <1>5, <2>1, <2>2, <2>5 DEF ObserveFamily, Observe
    <3>2. entry.suspended = FALSE /\ entry.suspend_disabled = FALSE
      BY <1>0, <2>5
    <3> QED
      BY <2>3, <2>5, <3>1, <3>2 DEF Life!Appear
  <2> QED
    BY <2>4, <2>5
<1>6. CASE \/ ResumeIsRequested \/ ChangeMode \/ LeavesAsIs
           \/ maintain_suspended_process
  <2>1. tracked' = tracked /\ FlagsKept
    BY <1>0, <1>6
       DEF ResumeIsRequested, ChangeMode, LeavesAsIs,
           maintain_suspended_process, PassEnds, FlagsKept, TrackedProcess
  <2> QED
    BY <1>1, <2>1
<1>7. CASE RefusesWithoutRecord
  <2>1. /\ entry'.suspended = entry.suspended
        /\ entry'.suspend_disabled = TRUE
        /\ tracked = TRUE /\ tracked' = TRUE
        /\ ~entry.suspend_disabled
    BY <1>0, <1>7
       DEF RefusesWithoutRecord, PassEnds, TrackedProcess, EntryInv,
           DecisionInv
  <2> QED
    BY <2>1 DEF Life!Protect
<1>8. CASE SuspendProcess
  <2>1. /\ tracked = TRUE /\ tracked' = TRUE
        /\ ~entry.suspend_disabled /\ ~entry.suspended
        /\ entry'.suspend_disabled = entry.suspend_disabled
        /\ \/ entry'.suspended = entry.suspended
           \/ entry'.suspended = TRUE
    BY <1>0, <1>8
       DEF SuspendProcess, PassEnds, TrackedProcess, EntryInv, DecisionInv
  <2> QED
    BY <2>1 DEF Life!Suspend
<1>9. CASE ResumeProcess
  <2>1. tracked' = tracked /\ (FlagsKept \/ FlagsThawed)
    BY <1>0, <1>9
       DEF ResumeProcess, PassEnds, FlagsKept, FlagsThawed, TrackedProcess
  <2> QED
    BY <1>1, <1>2, <2>1
<1>10. CASE TendEntry
  <2>1. tracked = TRUE /\ tracked' = TRUE
    BY <1>0, <1>10 DEF TendEntry
  <2>2. \/ FlagsKept
        \/ /\ entry'.suspend_disabled = TRUE
           /\ \/ entry'.suspended = FALSE
              \/ entry'.suspended = TRUE /\ entry.suspended = TRUE
    BY <1>0, <1>10
       DEF TendEntry, run_suspend_heartbeat, HeartbeatDue, Protected,
           FlagsKept, TrackedProcess
  <2>3. CASE FlagsKept
    BY <1>1, <2>1, <2>3
  <2>4. CASE /\ entry'.suspend_disabled = TRUE
             /\ \/ entry'.suspended = FALSE
                \/ entry'.suspended = TRUE /\ entry.suspended = TRUE
    <3>1. CASE entry.suspend_disabled
      <4>1. FlagsKept \/ FlagsThawed
        BY <1>0, <2>4, <3>1 DEF FlagsKept, FlagsThawed
      <4> QED
        BY <1>1, <1>2, <2>1, <4>1
    <3>2. CASE ~entry.suspend_disabled
      BY <2>1, <2>4, <3>2 DEF Life!Protect
    <3> QED
      BY <3>1, <3>2
  <2> QED
    BY <2>2, <2>3, <2>4
<1> QED
  BY <1>3, <1>4, <1>5, <1>6, <1>7, <1>8, <1>9, <1>10 DEF Next

(* An entry that the journal or the heartbeat gave up is not suspended     *)
(* again before it is forgotten, for every configuration and however the   *)
(* requests, the failures and the wraps of the tick count fall.            *)
THEOREM EntryAlwaysLives == Spec => EntryLives
<1>1. Init => Life!Init
  BY DEF Init, NoEntry, Life!Init
<1>2. EntryInv /\ [Next]_vars => [Life!Next]_(Life!lifeVars)
  <2>1. ASSUME UNCHANGED vars PROVE UNCHANGED Life!lifeVars
    BY <2>1 DEF vars, guardVars, Life!lifeVars
  <2> QED
    BY <2>1, EntryStepLives
<1> QED
  BY <1>1, <1>2, EntryInvHolds, PTL DEF Spec, EntryLives, Life!Spec
=============================================================================
