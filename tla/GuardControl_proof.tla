------------------------- MODULE GuardControl_proof -------------------------
(***************************************************************************)
(* At most one guard serves at a time; a stop request stops no guard that  *)
(* was started after it, and is not lost before its guard has seen it; and *)
(* each call of a controller brings it nearer to its result: for any       *)
(* number of controllers and guards and whatever the environment does.     *)
(***************************************************************************)
EXTENDS GuardControl, TLAPS

USE DEF GuardId

(* The guards and controllers that hold the event, from one state to the   *)
(* next: what a step that moves guard g only, or controller c only, does.  *)
LEMMA ServingMoves ==
  ASSUME TypeOK, NEW g \in GuardId, NEW stage \in GuardStages,
         guard' = [guard EXCEPT ![g] = stage]
  PROVE  /\ guard' \in [GuardId -> GuardStages]
         /\ stage \in {"serving", "leaving"} => Serving' = Serving \cup {g}
         /\ stage \notin {"serving", "leaving"} => Serving' = Serving \ {g}
         /\ stage \notin {"serving", "leaving"} /\ g \notin Serving
              => Serving' = Serving
         /\ stage \in {"serving", "leaving"} /\ g \in Serving
              => Serving' = Serving
         /\ Rejected' = IF stage = "rejected" THEN Rejected \cup {g}
                                              ELSE Rejected \ {g}
         /\ g \notin Rejected /\ stage # "rejected" => Rejected' = Rejected
  BY DEF TypeOK, Serving, Rejected, GuardStages

LEMMA SignallersMove ==
  ASSUME TypeOK, NEW c \in Controller, NEW next \in ControlSteps, Go(c, next)
  PROVE  LET Signallers == {d \in Controller : step[d] = "signal"}
         IN  /\ step' \in [Controller -> ControlSteps]
             /\ next = "signal" => Signallers' = Signallers \cup {c}
             /\ next # "signal" => Signallers' = Signallers \ {c}
  BY DEF TypeOK, Go, ControlSteps, Results

(* The handles and the guards that serve determine each other.             *)
THEOREM ControlInvHolds == Spec => []ControlInv
<1>1. Init => ControlInv
  BY DEF Init, ControlInv, TypeOK, HandlesAccountedFor, OneGuardServes,
         Serving, Rejected, GuardStages, ControlModes, ControlSteps
<1>2. ControlInv /\ [Next]_vars => ControlInv'
  <2> SUFFICES ASSUME ControlInv, [Next]_vars
               PROVE  ControlInv'
    OBVIOUS
  <2> USE DEF ControlInv
  <2>1. ASSUME NEW g \in GuardId, bg_create_shutdown_event(g)
        PROVE  ControlInv'
    <3>1. CASE holders = {}
      <4>1. guard' = [guard EXCEPT ![g] = "serving"] /\ holders' = {g}
            /\ signalled' = FALSE
        BY <2>1, <3>1 DEF bg_create_shutdown_event
      <4>2. /\ Serving' = Serving \cup {g} /\ Rejected' = Rejected \ {g}
            /\ guard' \in [GuardId -> GuardStages]
        BY <4>1, ServingMoves DEF GuardStages
      <4>3. /\ Serving = {} /\ Rejected = {}
            /\ {c \in Controller : step[c] = "signal"} = {}
        BY <3>1 DEF HandlesAccountedFor
      <4> QED
        BY <2>1, <4>1, <4>2, <4>3
        DEF bg_create_shutdown_event, GuardFrame, historyVars, TypeOK,
            HandlesAccountedFor, OneGuardServes
    <3>2. CASE holders # {}
      <4>1. guard' = [guard EXCEPT ![g] = "rejected"] /\ g \notin Serving
        BY <2>1, <3>2 DEF bg_create_shutdown_event, Serving
      <4>2. /\ Serving' = Serving /\ Rejected' = Rejected \cup {g}
            /\ guard' \in [GuardId -> GuardStages]
        BY <4>1, ServingMoves DEF GuardStages
      <4> QED
        BY <2>1, <3>2, <4>2
        DEF bg_create_shutdown_event, GuardFrame, historyVars, TypeOK,
            HandlesAccountedFor, OneGuardServes
    <3> QED
      BY <3>1, <3>2
  <2>2. ASSUME NEW g \in GuardId, GuardLeavesLoop(g) \/ handle_console_signal(g)
        PROVE  ControlInv'
    <3>1. /\ guard' = [guard EXCEPT ![g] = "leaving"]
          /\ g \in Serving /\ g \notin Rejected
      BY <2>2 DEF GuardLeavesLoop, handle_console_signal, Serving, Rejected
    <3>2. /\ Serving' = Serving /\ Rejected' = Rejected
          /\ guard' \in [GuardId -> GuardStages]
      BY <3>1, ServingMoves DEF GuardStages
    <3>3. UNCHANGED <<installed, holders, signalled>> /\ GuardFrame
      BY <2>2 DEF GuardLeavesLoop, handle_console_signal
    <3> QED
      BY <3>2, <3>3
      DEF GuardFrame, historyVars, TypeOK, HandlesAccountedFor, OneGuardServes
  <2>3. ASSUME NEW g \in GuardId, NEW stage \in {"returning", "gone"},
               guard' = [guard EXCEPT ![g] = stage], CloseHandle(g),
               UNCHANGED installed, GuardFrame
        PROVE  ControlInv'
    <3>1. /\ Serving' = Serving \ {g} /\ Rejected' = Rejected \ {g}
          /\ guard' \in [GuardId -> GuardStages]
      BY <2>3, ServingMoves DEF GuardStages
    <3>2. g \notin Controller
      BY ControllerAssumption
    <3> QED
      BY <2>3, <3>1, <3>2 DEF CloseHandle, GuardFrame, historyVars, TypeOK,
                              HandlesAccountedFor, OneGuardServes
  <2>4. ASSUME NEW g \in GuardId, GuardClosesEvent(g) \/ RejectedClosesEvent(g)
        PROVE  ControlInv'
    BY <2>3, <2>4 DEF GuardClosesEvent, RejectedClosesEvent
  <2>5. ASSUME NEW g \in GuardId, NEW stage \in {"created", "gone"},
               guard[g] \in {"absent", "returning"},
               guard' = [guard EXCEPT ![g] = stage],
               installed' \subseteq GuardId,
               UNCHANGED <<holders, signalled, disabled, mode, historyVars>>,
               step' \in [Controller -> ControlSteps],
               {c \in Controller : step[c] = "signal"}'
                 = {c \in Controller : step[c] = "signal"}
        PROVE  ControlInv'
    <3>1. g \notin Serving /\ g \notin Rejected
      BY <2>5 DEF Serving, Rejected
    <3>2. /\ Serving' = Serving /\ Rejected' = Rejected
          /\ guard' \in [GuardId -> GuardStages]
      BY <2>5, <3>1, ServingMoves DEF GuardStages
    <3> QED
      BY <2>5, <3>2 DEF historyVars, TypeOK, HandlesAccountedFor, OneGuardServes
  <2>6. ASSUME NEW g \in GuardId, GuardReturns(g)
        PROVE  ControlInv'
    BY <2>5, <2>6 DEF GuardReturns, GuardFrame, TypeOK
  <2>7. ASSUME NEW g \in GuardId, GuardFails(g)
        PROVE  ControlInv'
    BY <2>3, <2>7 DEF GuardFails
  <2>8. CASE GuardStarted
    BY <2>5, <2>8 DEF GuardStarted, CreateGuardProcess, GuardFrame, TypeOK
  <2>9. ASSUME NEW c \in Controller, ControlBegins(c)
        PROVE  ControlInv'
    <3>1. PICK asked \in ControlModes :
            /\ mode' = [mode EXCEPT ![c] = asked]
            /\ Go(c, IF asked = "launch" THEN "check" ELSE "count")
      BY <2>9 DEF ControlBegins
    <3>2. /\ step' \in [Controller -> ControlSteps]
          /\ {d \in Controller : step[d] = "signal"}'
               = {d \in Controller : step[d] = "signal"} \ {c}
      BY <3>1, SignallersMove DEF ControlSteps
    <3>3. step[c] # "signal" /\ Installed \in SUBSET GuardId
      BY <2>9 DEF ControlBegins, Installed, Existing
    <3>4. found' \in [Controller -> SUBSET GuardId]
      BY <2>9, <3>3 DEF ControlBegins, TypeOK
    <3> QED
      BY <2>9, <3>1, <3>2, <3>3, <3>4
      DEF ControlBegins, guardVars, TypeOK, Serving, Rejected,
          HandlesAccountedFor, OneGuardServes
  <2>10. ASSUME NEW c \in Controller, NEW next \in ControlSteps \ {"signal"},
                step[c] # "signal", Go(c, next), UNCHANGED guardVars,
                disabled' \in BOOLEAN, turned_off' \in BOOLEAN,
                UNCHANGED <<mode, found>>
         PROVE  ControlInv'
    <3>1. /\ step' \in [Controller -> ControlSteps]
          /\ {d \in Controller : step[d] = "signal"}'
               = {d \in Controller : step[d] = "signal"} \ {c}
      BY <2>10, SignallersMove
    <3> QED
      BY <2>10, <3>1 DEF guardVars, TypeOK, Serving, Rejected,
                         HandlesAccountedFor, OneGuardServes
  <2>11. ASSUME NEW c \in Controller, is_disabled(c)
         PROVE  ControlInv'
    BY <2>10, <2>11 DEF is_disabled, historyVars, TypeOK, ControlSteps, Results
  <2>12. ASSUME NEW c \in Controller, CountGuards(c)
         PROVE  ControlInv'
    <3>1. mode[c] \in ControlModes
      BY DEF TypeOK
    <3>2. PICK next \in {"start", "enable", "ok", "disable", "open"} :
            Go(c, next)
      BY <2>12, <3>1 DEF CountGuards, ControlModes
    <3> QED
      BY <2>10, <2>12, <3>2 DEF CountGuards, historyVars, TypeOK, ControlSteps,
                                Results
  <2>13. ASSUME NEW c \in Controller, write_disabled_flag(c)
         PROVE  ControlInv'
    BY <2>10, <2>13 DEF write_disabled_flag, TypeOK, ControlSteps
  <2>14. ASSUME NEW c \in Controller, bg_open_shutdown_event(c)
         PROVE  ControlInv'
    <3>1. CASE Go(c, "failed") /\ UNCHANGED holders
      BY <2>10, <2>14, <3>1
      DEF bg_open_shutdown_event, guardVars, historyVars, TypeOK, ControlSteps,
          Results
    <3>2. CASE Go(c, "signal") /\ holders' = holders \cup {c}
      <4>1. /\ step' \in [Controller -> ControlSteps]
            /\ {d \in Controller : step[d] = "signal"}'
                 = {d \in Controller : step[d] = "signal"} \cup {c}
        BY <2>14, <3>2, SignallersMove DEF bg_open_shutdown_event, ControlSteps
      <4> QED
        BY <2>14, <3>2, <4>1
        DEF bg_open_shutdown_event, historyVars, TypeOK, Serving, Rejected,
            HandlesAccountedFor, OneGuardServes
    <3> QED
      BY <2>14, <3>1, <3>2 DEF bg_open_shutdown_event
  <2>15. ASSUME NEW c \in Controller, SignalGuard(c)
         PROVE  ControlInv'
    <3>1. /\ step' \in [Controller -> ControlSteps]
          /\ {d \in Controller : step[d] = "signal"}'
               = {d \in Controller : step[d] = "signal"} \ {c}
      BY <2>15, SignallersMove DEF SignalGuard, ControlSteps, Results
    <3>2. c \notin Serving \cup Rejected
      BY ControllerAssumption DEF Serving, Rejected
    <3>3. signalled' \in BOOLEAN /\ (signalled' => holders' # {})
      BY <2>15 DEF SignalGuard, TypeOK
    <3> QED
      BY <2>15, <3>1, <3>2, <3>3
      DEF SignalGuard, historyVars, TypeOK, Serving, Rejected,
          HandlesAccountedFor, OneGuardServes
  <2>16. ASSUME NEW c \in Controller, AwaitExit(c)
         PROVE  ControlInv'
    BY <2>10, <2>16 DEF AwaitExit, TypeOK, ControlSteps, Results
  <2>17. ASSUME NEW c \in Controller, start_guard_process(c)
         PROVE  ControlInv'
    <3>1. step[c] = "start"
      BY <2>17 DEF start_guard_process
    <3>2. CASE CreateGuardProcess(TRUE) /\ Go(c, "ok")
      <4>1. /\ step' \in [Controller -> ControlSteps]
            /\ {d \in Controller : step[d] = "signal"}'
                 = {d \in Controller : step[d] = "signal"} \ {c}
        BY <3>2, SignallersMove DEF ControlSteps, Results
      <4> QED
        BY <2>5, <2>17, <3>1, <3>2, <4>1
        DEF start_guard_process, CreateGuardProcess, TypeOK
    <3>3. CASE Go(c, "failed") /\ UNCHANGED guardVars
      BY <2>10, <2>17, <3>1, <3>3
      DEF start_guard_process, historyVars, TypeOK, ControlSteps, Results
    <3> QED
      BY <2>17, <3>2, <3>3 DEF start_guard_process
  <2>18. ASSUME NEW c \in Controller, ControllerKilled(c)
         PROVE  ControlInv'
    <3>1. /\ step' \in [Controller -> ControlSteps]
          /\ {d \in Controller : step[d] = "signal"}'
               = {d \in Controller : step[d] = "signal"} \ {c}
      BY <2>18, SignallersMove DEF ControllerKilled, ControlSteps
    <3>2. c \notin Serving \cup Rejected
      BY ControllerAssumption DEF Serving, Rejected
    <3> QED
      BY <2>18, <3>1, <3>2
      DEF ControllerKilled, CloseHandle, TypeOK, ControlModes, Serving,
          Rejected, HandlesAccountedFor, OneGuardServes
  <2>19. CASE UNCHANGED vars
    BY <2>19 DEF vars, guardVars, historyVars, TypeOK, Serving, Rejected,
                 HandlesAccountedFor, OneGuardServes
  <2>20. CASE InstallerDeletesFlag
    BY <2>20 DEF InstallerDeletesFlag, guardVars, TypeOK, Serving, Rejected,
                 HandlesAccountedFor, OneGuardServes
  <2> QED
    BY <2>1, <2>2, <2>4, <2>6, <2>7, <2>8, <2>9, <2>11, <2>12, <2>13, <2>14,
       <2>15, <2>16, <2>17, <2>18, <2>19, <2>20
    DEF Next, run_browser_guard, ControlStep
<1> QED
  BY <1>1, <1>2, PTL DEF Spec

(* At most one guard is between the creation of the shutdown event and the *)
(* closing of its handle: what the recovery core assumes of its guards.    *)
THEOREM OneGuardAtATime == Spec => []OneGuardServes
<1>1. ControlInv => OneGuardServes
  BY DEF ControlInv
<1> QED
  BY <1>1, ControlInvHolds, PTL

(* A guard that begins to serve finds its event unset.                     *)
THEOREM StopsOnlyItsGuard == Spec => StopsNoLaterGuard
<1> DEFINE Unset == \A g \in GuardId :
                      g \notin Serving /\ g \in Serving' => ~signalled'
<1>1. ControlInv /\ [Next]_vars => [Unset]_vars
  <2> SUFFICES ASSUME ControlInv, Next,
                      NEW g \in GuardId, g \notin Serving, g \in Serving'
               PROVE  ~signalled'
    OBVIOUS
  <2> USE DEF ControlInv
  <2>1. guard[g] \notin {"serving", "leaving"}
        /\ guard'[g] \in {"serving", "leaving"}
    BY DEF Serving
  <2>2. guard \in [GuardId -> GuardStages]
    BY DEF TypeOK
  <2>3. ASSUME NEW h \in GuardId,
               run_browser_guard(h) \/ handle_console_signal(h) \/ GuardFails(h)
        PROVE  bg_create_shutdown_event(g)
    BY <2>1, <2>2, <2>3
    DEF run_browser_guard, bg_create_shutdown_event, GuardLeavesLoop,
        handle_console_signal, GuardClosesEvent, RejectedClosesEvent,
        GuardReturns, GuardFails
  <2>4. ASSUME NEW mine \in BOOLEAN
        PROVE  ~CreateGuardProcess(mine)
    BY <2>1, <2>2 DEF CreateGuardProcess
  <2>5. ASSUME NEW c \in Controller
        PROVE  ~ControlBegins(c) /\ ~ControlStep(c) /\ ~ControllerKilled(c)
    BY <2>1, <2>4
    DEF ControllerKilled, ControlBegins, ControlStep, is_disabled, CountGuards,
        write_disabled_flag, bg_open_shutdown_event, SignalGuard, AwaitExit,
        start_guard_process, guardVars
  <2>6. bg_create_shutdown_event(g)
    BY <2>1, <2>3, <2>4, <2>5
    DEF Next, GuardStarted, InstallerDeletesFlag, guardVars
  <2> QED
    BY <2>1, <2>2, <2>6 DEF bg_create_shutdown_event
<1> QED
  BY <1>1, ControlInvHolds, PTL DEF Spec, StopsNoLaterGuard

(* A guard that serves holds the event, so nobody else closes it.          *)
THEOREM StopsAreNotLost == Spec => StopIsNotLost
<1> DEFINE Kept ==
      \A g \in Serving \cap Serving' : signalled => signalled'
<1>1. ControlInv /\ ControlInv' /\ [Next]_vars => [Kept]_vars
  <2> SUFFICES ASSUME ControlInv, ControlInv', Next, signalled,
                      NEW g \in GuardId, g \in Serving, g \in Serving'
               PROVE  signalled'
    BY DEF Serving
  <2>1. g \in holders /\ g \in holders'
    BY DEF ControlInv, HandlesAccountedFor
  <2>2. ASSUME NEW h \in GuardId, run_browser_guard(h)
        PROVE  signalled'
    BY <2>1, <2>2
    DEF run_browser_guard, bg_create_shutdown_event, GuardLeavesLoop,
        GuardClosesEvent, RejectedClosesEvent, GuardReturns, CloseHandle
  <2>3. ASSUME NEW h \in GuardId, handle_console_signal(h) \/ GuardFails(h)
        PROVE  signalled'
    BY <2>1, <2>3 DEF handle_console_signal, GuardFails, CloseHandle
  <2>4. ASSUME NEW mine \in BOOLEAN, CreateGuardProcess(mine)
        PROVE  signalled'
    BY <2>4 DEF CreateGuardProcess
  <2>5. ASSUME NEW c \in Controller,
               ControlBegins(c) \/ ControlStep(c) \/ ControllerKilled(c)
        PROVE  signalled'
    BY <2>1, <2>4, <2>5
    DEF ControllerKilled, CloseHandle, ControlBegins, ControlStep,
        is_disabled, CountGuards,
        write_disabled_flag, bg_open_shutdown_event, SignalGuard, AwaitExit,
        start_guard_process, guardVars
  <2> QED
    BY <2>2, <2>3, <2>4, <2>5
    DEF Next, GuardStarted, InstallerDeletesFlag, guardVars
<1> QED
  BY <1>1, ControlInvHolds, PTL DEF Spec, StopIsNotLost

-----------------------------------------------------------------------------
(* The turns of the guards.                                                *)
Past == {g \in GuardId : guard[g] \in {"rejected", "returning", "gone"}}

LEMMA PastMoves ==
  ASSUME TypeOK, NEW g \in GuardId, NEW stage \in GuardStages,
         guard' = [guard EXCEPT ![g] = stage],
         stage \in {"rejected", "returning", "gone"} \/ g \notin Past
  PROVE  Past' = IF stage \in {"rejected", "returning", "gone"}
                 THEN Past \cup {g} ELSE Past
  BY DEF TypeOK, Past, GuardStages

LEMMA ControlStepTurns ==
  ASSUME ControlInv, Next
  PROVE  [Turns!Next]_(Turns!turnVars)
<1> USE DEF ControlInv, Turns!Next, Turns!turnVars
<1> DEFINE Goal == \/ UNCHANGED <<Serving, Past>>
                   \/ \E g \in GuardId :
                        \/ /\ Serving = {} /\ g \notin Past
                           /\ Serving' = {g} /\ Past' = Past
                        \/ /\ Serving = {g} /\ Serving' = {}
                           /\ Past' = Past \cup {g}
                        \/ /\ g \notin Serving \cup Past
                           /\ Past' = Past \cup {g} /\ Serving' = Serving
<1>1. SUFFICES Goal
  BY DEF Past, Turns!Begin, Turns!End, Turns!Miss
<1>2. ASSUME NEW g \in GuardId, guard[g] = "created", holders = {},
             guard' = [guard EXCEPT ![g] = "serving"]
      PROVE  Goal
  <2>1. Serving = {} /\ g \notin Past
    BY <1>2 DEF HandlesAccountedFor, Past
  <2>2. Serving' = {g} /\ Past' = Past
    BY <1>2, <2>1, ServingMoves, PastMoves DEF GuardStages
  <2> QED
    BY <2>1, <2>2
<1>3. ASSUME NEW g \in GuardId, guard[g] = "created",
             NEW stage \in {"rejected", "gone"},
             guard' = [guard EXCEPT ![g] = stage]
      PROVE  Goal
  <2>1. g \notin Serving \cup Past
    BY <1>3 DEF Serving, Past
  <2>2. Serving' = Serving /\ Past' = Past \cup {g}
    BY <1>3, <2>1, ServingMoves, PastMoves DEF GuardStages
  <2> QED
    BY <2>1, <2>2
<1>4. ASSUME NEW g \in GuardId, g \in Serving,
             NEW stage \in {"returning", "gone"},
             guard' = [guard EXCEPT ![g] = stage]
      PROVE  Goal
  <2>1. Serving = {g}
    BY <1>4 DEF OneGuardServes
  <2>2. Serving' = Serving \ {g} /\ Past' = Past \cup {g}
    BY <1>4, ServingMoves, PastMoves DEF GuardStages
  <2> QED
    BY <2>1, <2>2
<1>5. ASSUME NEW g \in GuardId, guard[g] \in {"rejected", "returning"},
             NEW stage \in {"returning", "gone"},
             guard' = [guard EXCEPT ![g] = stage]
      PROVE  Goal
  <2>1. g \in Past /\ g \notin Serving
    BY <1>5 DEF Serving, Past
  <2>2. Serving' = Serving /\ Past' = Past \cup {g}
    BY <1>5, <2>1, ServingMoves, PastMoves DEF GuardStages
  <2> QED
    BY <2>1, <2>2
<1>6. ASSUME NEW g \in GuardId, guard[g] = "serving",
             guard' = [guard EXCEPT ![g] = "leaving"]
      PROVE  Goal
  <2>1. g \in Serving /\ g \notin Past
    BY <1>6 DEF Serving, Past
  <2>2. Serving' = Serving /\ Past' = Past
    BY <1>6, <2>1, ServingMoves, PastMoves DEF GuardStages
  <2> QED
    BY <2>2
<1>7. ASSUME NEW mine \in BOOLEAN, CreateGuardProcess(mine)
      PROVE  Goal
  <2>1. PICK g \in GuardId : /\ guard[g] = "absent"
                             /\ guard' = [guard EXCEPT ![g] = "created"]
    BY <1>7 DEF CreateGuardProcess
  <2>2. g \notin Serving /\ g \notin Past
    BY <2>1 DEF Serving, Past
  <2>3. Serving' = Serving /\ Past' = Past
    BY <2>1, <2>2, ServingMoves, PastMoves DEF GuardStages
  <2> QED
    BY <2>3
<1>8. ASSUME NEW g \in GuardId, run_browser_guard(g)
      PROVE  Goal
  <2>1. CASE bg_create_shutdown_event(g)
    BY <1>2, <1>3, <2>1 DEF bg_create_shutdown_event
  <2>2. CASE GuardLeavesLoop(g)
    BY <1>6, <2>2 DEF GuardLeavesLoop
  <2>3. CASE GuardClosesEvent(g)
    <3>1. g \in Serving /\ guard' = [guard EXCEPT ![g] = "returning"]
      BY <2>3 DEF GuardClosesEvent, Serving
    <3> QED
      BY <1>4, <3>1
  <2>4. CASE GuardReturns(g)
    BY <1>5, <2>4 DEF GuardReturns
  <2>5. CASE RejectedClosesEvent(g)
    BY <1>5, <2>5 DEF RejectedClosesEvent
  <2> QED
    BY <1>8, <2>1, <2>2, <2>3, <2>4, <2>5 DEF run_browser_guard
<1>9. ASSUME NEW g \in GuardId, handle_console_signal(g)
      PROVE  Goal
  BY <1>6, <1>9 DEF handle_console_signal
<1>10. ASSUME NEW g \in GuardId, GuardFails(g)
       PROVE  Goal
  <2>1. g \in Existing /\ guard' = [guard EXCEPT ![g] = "gone"]
    BY <1>10 DEF GuardFails
  <2>2. guard[g] \in {"created", "rejected", "returning"} \/ g \in Serving
    BY <2>1 DEF Existing, Serving, TypeOK, GuardStages
  <2> QED
    BY <1>3, <1>4, <1>5, <2>1, <2>2
<1>11. ASSUME NEW c \in Controller,
              ControlBegins(c) \/ ControlStep(c) \/ ControllerKilled(c)
       PROVE  Goal
  <2>1. CASE UNCHANGED guard
    BY <2>1 DEF Serving, Past
  <2>2. CASE CreateGuardProcess(TRUE)
    BY <1>7, <2>2
  <2> QED
    BY <1>11, <2>1, <2>2
    DEF ControllerKilled, ControlBegins, ControlStep, is_disabled, CountGuards,
        write_disabled_flag, bg_open_shutdown_event, SignalGuard, AwaitExit,
        start_guard_process, guardVars
<1>12. ASSUME InstallerDeletesFlag
       PROVE  Goal
  BY <1>12 DEF InstallerDeletesFlag, guardVars, Serving, Past
<1> QED
  BY <1>7, <1>8, <1>9, <1>10, <1>11, <1>12 DEF Next, GuardStarted

(* With the shutdown event guards take turns, for any number of guards and *)
(* controllers, and whatever fails or is killed.                           *)
THEOREM GuardsTakeTurns == Spec => TakesTurns
<1>1. Init => Turns!Init
  BY DEF Init, Turns!Init, Serving
<1>2. ControlInv /\ [Next]_vars => [Turns!Next]_(Turns!turnVars)
  <2>1. ASSUME UNCHANGED vars PROVE UNCHANGED Turns!turnVars
    BY <2>1 DEF vars, guardVars, Turns!turnVars, Serving
  <2> QED
    BY <2>1, ControlStepTurns
<1> QED
  BY <1>1, <1>2, ControlInvHolds, PTL DEF Spec, TakesTurns, Turns!Spec

-----------------------------------------------------------------------------
(* How far a controller is.                                                *)
LEMMA EachCallAdvances ==
  ASSUME TypeOK, NEW c \in Controller, ControlStep(c)
  PROVE  CallsLeft[step'[c]] < CallsLeft[step[c]]
<1> DEFINE Advances == CallsLeft[step'[c]] < CallsLeft[step[c]]
<1>1. ASSUME NEW next \in ControlSteps, Go(c, next)
      PROVE  step'[c] = next
  BY <1>1 DEF Go, TypeOK
<1> USE DEF CallsLeft
<1>2. CASE is_disabled(c)
  BY <1>1, <1>2 DEF is_disabled, ControlSteps, Results
<1>3. CASE CountGuards(c)
  <2>1. mode[c] \in ControlModes
    BY DEF TypeOK
  <2>2. PICK next \in {"start", "enable", "ok", "disable", "open"} :
          Go(c, next)
    BY <1>3, <2>1 DEF CountGuards, ControlModes
  <2>3. step[c] = "count" /\ step'[c] = next
    BY <1>1, <1>3, <2>2 DEF CountGuards, ControlSteps, Results
  <2> QED
    BY <2>2, <2>3
<1>4. CASE write_disabled_flag(c)
  BY <1>1, <1>4 DEF write_disabled_flag, ControlSteps
<1>5. CASE bg_open_shutdown_event(c)
  BY <1>1, <1>5 DEF bg_open_shutdown_event, ControlSteps, Results
<1>6. CASE SignalGuard(c)
  BY <1>1, <1>6 DEF SignalGuard, ControlSteps, Results
<1>7. CASE AwaitExit(c)
  BY <1>1, <1>7 DEF AwaitExit, ControlSteps, Results
<1>8. CASE start_guard_process(c)
  <2>1. PICK next \in Results : step[c] = "start" /\ Go(c, next)
    BY <1>8 DEF start_guard_process, Results
  <2>2. next \in ControlSteps /\ step'[c] = next
    BY <1>1, <2>1 DEF ControlSteps
  <2> QED
    BY <2>1, <2>2 DEF Results
<1> QED
  BY <1>2, <1>3, <1>4, <1>5, <1>6, <1>7, <1>8 DEF ControlStep

LEMMA OthersLeaveController ==
  ASSUME TypeOK, [Next]_vars, NEW c \in Controller,
         ~ControlStep(c), step[c] # "absent"
  PROVE  step'[c] \in {step[c], "absent"}
<1>1. ASSUME NEW d \in Controller, d # c, NEW next, Go(d, next)
      PROVE  step'[c] = step[c]
  BY <1>1 DEF Go, TypeOK
<1>2. ASSUME NEW d \in Controller, ControlBegins(d)
      PROVE  step'[c] = step[c]
  BY <1>1, <1>2 DEF ControlBegins
<1>3. ASSUME NEW d \in Controller, ControlStep(d)
      PROVE  step'[c] = step[c]
  <2>1. d # c
    BY <1>3
  <2>2. \E next : Go(d, next)
    BY <1>3
    DEF ControlStep, is_disabled, CountGuards, write_disabled_flag,
        bg_open_shutdown_event, SignalGuard, AwaitExit, start_guard_process
  <2> QED
    BY <1>1, <2>1, <2>2
<1>4. ASSUME NEW g \in GuardId,
             run_browser_guard(g) \/ handle_console_signal(g) \/ GuardFails(g)
      PROVE  UNCHANGED step
  BY <1>4
  DEF run_browser_guard, bg_create_shutdown_event, GuardLeavesLoop,
      handle_console_signal, GuardClosesEvent, RejectedClosesEvent,
      GuardReturns, GuardFails,
      GuardFrame
<1>5. ASSUME GuardStarted \/ InstallerDeletesFlag \/ UNCHANGED vars
      PROVE  UNCHANGED step
  BY <1>5 DEF GuardStarted, InstallerDeletesFlag, GuardFrame, vars
<1>6. ASSUME NEW d \in Controller, ControllerKilled(d)
      PROVE  step'[c] \in {step[c], "absent"}
  BY <1>6 DEF ControllerKilled, Go, TypeOK
<1> QED
  BY <1>2, <1>3, <1>4, <1>5, <1>6 DEF Next

(* However controllers and guards interleave, each call of a controller    *)
(* brings it nearer to its result: six calls are the most.                 *)
THEOREM ControllersFinish == Spec => ControllersAdvance
<1>1. ControlInv => TypeOK
  BY DEF ControlInv
<1>2. TypeOK /\ [Next]_vars
        => \A c \in Controller :
             IF ControlStep(c)
             THEN CallsLeft[step[c]'] < CallsLeft[step[c]]
             ELSE step[c] # "absent" => step[c]' \in {step[c], "absent"}
  BY EachCallAdvances, OthersLeaveController
<1> QED
  BY <1>1, <1>2, ControlInvHolds, PTL DEF Spec, ControllersAdvance

-----------------------------------------------------------------------------
(* A guard process that has exited stays so, and what is installed is.     *)
LEMMA GuardsOnlyAge ==
  ASSUME TypeOK, [Next]_vars
  PROVE  /\ installed \subseteq installed'
         /\ \A g \in installed' \ installed : guard'[g] # "absent"
         /\ \A g \in GuardId :
              /\ guard[g] = "gone" => guard'[g] = "gone"
              /\ guard[g] # "absent" => guard'[g] # "absent"
<1> DEFINE Aged ==
      /\ installed \subseteq installed'
      /\ \A g \in installed' \ installed : guard'[g] # "absent"
      /\ \A g \in GuardId :
           /\ guard[g] = "gone" => guard'[g] = "gone"
           /\ guard[g] # "absent" => guard'[g] # "absent"
<1>1. ASSUME NEW h \in GuardId,
             run_browser_guard(h) \/ handle_console_signal(h) \/ GuardFails(h)
      PROVE  Aged
  BY <1>1
  DEF TypeOK, run_browser_guard, bg_create_shutdown_event, GuardLeavesLoop,
      handle_console_signal, GuardClosesEvent, RejectedClosesEvent,
      GuardReturns, GuardFails,
      Existing
<1>2. ASSUME NEW mine \in BOOLEAN, CreateGuardProcess(mine)
      PROVE  Aged
  BY <1>2 DEF CreateGuardProcess, TypeOK
<1>3. ASSUME NEW c \in Controller,
             ControlBegins(c) \/ ControlStep(c) \/ ControllerKilled(c)
      PROVE  Aged
  BY <1>2, <1>3
  DEF ControllerKilled, ControlBegins, ControlStep, is_disabled, CountGuards,
      write_disabled_flag,
      bg_open_shutdown_event, SignalGuard, AwaitExit, start_guard_process,
      guardVars
<1>4. CASE InstallerDeletesFlag \/ UNCHANGED vars
  BY <1>4 DEF InstallerDeletesFlag, vars, guardVars
<1> QED
  BY <1>1, <1>2, <1>3, <1>4 DEF Next, GuardStarted

(* What a controller knows that has found no guard, or none any more: those *)
(* it was started beside are gone.                                         *)
FoundInv ==
  /\ \A g \in installed : guard[g] # "absent"
  /\ \A c \in Controller : found[c] \subseteq installed
StoppedInv ==
  \A c \in Controller :
    /\ step[c] = "check" => mode[c] = "launch"
    /\ mode[c] \in {"shutdown", "toggle"}
       /\ step[c] \in {"enable", "start", "ok"}
         => \A g \in found[c] : guard[g] = "gone"

(* Counting finds all of the installation when it does not fail.           *)
LEMMA NobodyFound ==
  ASSUME "snapshot" \notin Environment, {} \in count_guard_processes,
         TypeOK, FoundInv
  PROVE  \A c \in Controller : \A g \in found[c] : guard[g] = "gone"
  BY DEF count_guard_processes, Installed, Existing, TypeOK, GuardStages,
         FoundInv, bg_process_matches_current_identity

LEMMA StoppedInvHolds ==
  "snapshot" \notin Environment /\ Spec => [](FoundInv /\ StoppedInv)
<1> SUFFICES ASSUME "snapshot" \notin Environment
             PROVE  Spec => [](FoundInv /\ StoppedInv)
  OBVIOUS
<1>1. Init => FoundInv /\ StoppedInv
  BY DEF Init, FoundInv, StoppedInv
<1>2. ASSUME TypeOK, FoundInv, StoppedInv, [Next]_vars
      PROVE  FoundInv' /\ StoppedInv'
  <2>1. CASE UNCHANGED <<mode, step, found>>
    BY <1>2, <2>1, GuardsOnlyAge DEF FoundInv, StoppedInv, TypeOK
  <2>2. ASSUME NEW c \in Controller, NEW next \in ControlSteps \ {"check"},
               Go(c, next), UNCHANGED <<mode, found>>,
               mode[c] \in {"shutdown", "toggle"}
                 /\ next \in {"enable", "start", "ok"}
                   => \A g \in found[c] : guard[g] = "gone"
        PROVE  FoundInv' /\ StoppedInv'
    <3>1. FoundInv'
      BY <1>2, <2>2, GuardsOnlyAge DEF FoundInv, TypeOK
    <3>2. \A d \in Controller : \A g \in found'[d] :
            guard[g] = "gone" => guard'[g] = "gone"
      BY <1>2, <2>2, GuardsOnlyAge DEF TypeOK
    <3>3. \A d \in Controller : step'[d] = IF d = c THEN next ELSE step[d]
      BY <1>2, <2>2 DEF Go, TypeOK
    <3> QED
      BY <1>2, <2>2, <3>1, <3>2, <3>3 DEF StoppedInv
  <2>3. ASSUME NEW c \in Controller, ControlBegins(c)
        PROVE  FoundInv' /\ StoppedInv'
    <3>1. PICK asked \in ControlModes :
            /\ mode' = [mode EXCEPT ![c] = asked]
            /\ step' = [step EXCEPT ![c] =
                          IF asked = "launch" THEN "check" ELSE "count"]
      BY <2>3 DEF ControlBegins, Go
    <3>2. /\ found' = [found EXCEPT ![c] =
                          IF mode'[c] = "launch" THEN {} ELSE Installed]
          /\ UNCHANGED <<guard, installed>>
      BY <2>3 DEF ControlBegins, guardVars
    <3>3. FoundInv'
      BY <1>2, <3>2 DEF FoundInv, TypeOK, Installed,
                        bg_process_matches_current_identity
    <3>4. StoppedInv'
      BY <1>2, <3>1, <3>2 DEF StoppedInv, TypeOK
    <3> QED
      BY <3>3, <3>4
  <2>4. ASSUME NEW c \in Controller, is_disabled(c)
        PROVE  FoundInv' /\ StoppedInv'
    BY <1>2, <2>2, <2>4
    DEF is_disabled, historyVars, StoppedInv, ControlSteps, Results
  <2>5. ASSUME NEW c \in Controller, CountGuards(c)
        PROVE  FoundInv' /\ StoppedInv'
    <3>1. PICK guards \in count_guard_processes :
            Go(c, IF guards = {}
                  THEN CASE mode[c] = "launch"   -> "start"
                         [] mode[c] = "toggle"   -> "enable"
                         [] mode[c] = "shutdown" -> "ok"
                  ELSE CASE mode[c] = "launch"   -> "ok"
                         [] mode[c] = "toggle"   -> "disable"
                         [] mode[c] = "shutdown" -> "open")
      BY <2>5 DEF CountGuards
    <3>2. mode[c] \in ControlModes /\ UNCHANGED <<mode, found>>
      BY <1>2, <2>5 DEF CountGuards, historyVars, TypeOK
    <3>3. CASE guards = {}
      <4>1. PICK next \in {"start", "enable", "ok"} : Go(c, next)
        BY <3>1, <3>2, <3>3 DEF ControlModes
      <4> QED
        BY <1>2, <2>2, <3>2, <3>3, <4>1, NobodyFound DEF ControlSteps, Results
    <3>4. CASE guards # {}
      <4>1. PICK next \in {"ok", "disable", "open"} :
              Go(c, next) /\ (next = "ok" => mode[c] = "launch")
        BY <3>1, <3>2, <3>4 DEF ControlModes
      <4> QED
        BY <1>2, <2>2, <3>2, <4>1 DEF ControlSteps, Results
    <3> QED
      BY <3>3, <3>4
  <2>6. ASSUME NEW c \in Controller, write_disabled_flag(c)
        PROVE  FoundInv' /\ StoppedInv'
    BY <1>2, <2>2, <2>6 DEF write_disabled_flag, StoppedInv, ControlSteps
  <2>7. ASSUME NEW c \in Controller, bg_open_shutdown_event(c) \/ SignalGuard(c)
        PROVE  FoundInv' /\ StoppedInv'
    BY <1>2, <2>2, <2>7
    DEF bg_open_shutdown_event, SignalGuard, historyVars, ControlSteps, Results
  <2>8. ASSUME NEW c \in Controller, AwaitExit(c)
        PROVE  FoundInv' /\ StoppedInv'
    BY <1>2, <2>2, <2>8, NobodyFound DEF AwaitExit, ControlSteps, Results
  <2>9. ASSUME NEW c \in Controller, start_guard_process(c)
        PROVE  FoundInv' /\ StoppedInv'
    BY <1>2, <2>2, <2>9
    DEF start_guard_process, historyVars, StoppedInv, ControlSteps, Results
  <2>10. ASSUME NEW g \in GuardId,
                \/ run_browser_guard(g)
                \/ handle_console_signal(g)
                \/ GuardFails(g)
         PROVE  UNCHANGED <<mode, step, found>>
    BY <2>10
    DEF run_browser_guard, bg_create_shutdown_event, GuardLeavesLoop,
        handle_console_signal, GuardClosesEvent, RejectedClosesEvent,
        GuardReturns, GuardFails,
        GuardFrame, historyVars
  <2>11. ASSUME NEW c \in Controller, ControllerKilled(c)
         PROVE  FoundInv' /\ StoppedInv'
    BY <1>2, <2>11 DEF ControllerKilled, Go, FoundInv, StoppedInv, TypeOK
  <2> QED
    BY <1>2, <2>1, <2>3, <2>4, <2>5, <2>6, <2>7, <2>8, <2>9, <2>10, <2>11
    DEF Next, ControlStep, GuardStarted, GuardFrame, InstallerDeletesFlag,
        historyVars, vars
<1>3. ControlInv => TypeOK
  BY DEF ControlInv
<1> QED
  BY <1>1, <1>2, <1>3, ControlInvHolds, PTL DEF Spec

(* ADR-002: the controller "signals the event, and waits for normal exit". *)
(* When guard processes can be enumerated and inspected, a controller that *)
(* reports a stop leaves none of the guards it was started beside.         *)
THEOREM ReportedStopsAreReal ==
  "snapshot" \notin Environment /\ Spec => []ReportedStopIsReal
<1>1. StoppedInv => ReportedStopIsReal
  BY DEF StoppedInv, ReportedStopIsReal, Existing
<1> QED
  BY <1>1, StoppedInvHolds, PTL

(* While protection is off, the flag is there, and no --launch is past it. *)
OffInv ==
  turned_off => /\ disabled
                /\ \A c \in Controller :
                     mode[c] = "launch" => step[c] \notin {"count", "start"}

(* Protection that was turned off stays off at the next log-on, whatever   *)
(* the environment does.                                                   *)
THEOREM OffStaysOff == Spec => TurnedOffStaysOff
<1>1. Init => OffInv
  BY DEF Init, OffInv
<1>2. ASSUME TypeOK, OffInv, [Next]_vars
      PROVE  OffInv'
  <2>1. CASE UNCHANGED <<disabled, mode, step, turned_off>>
    BY <1>2, <2>1 DEF OffInv
  <2>2. ASSUME NEW c \in Controller, ControlBegins(c)
        PROVE  OffInv'
    BY <1>2, <2>2 DEF ControlBegins, Go, OffInv, TypeOK, ControlModes
  <2>3. ASSUME NEW c \in Controller, NEW next \in ControlSteps, Go(c, next),
               UNCHANGED <<disabled, mode, turned_off>>,
               turned_off /\ mode[c] = "launch"
                 => next \notin {"count", "start"}
        PROVE  OffInv'
    BY <1>2, <2>3 DEF Go, OffInv, TypeOK
  <2>4. ASSUME NEW c \in Controller, is_disabled(c)
        PROVE  OffInv'
    BY <1>2, <2>3, <2>4
    DEF is_disabled, historyVars, OffInv, ControlSteps, Results
  <2>5. ASSUME NEW c \in Controller, CountGuards(c)
        PROVE  OffInv'
    <3>1. mode[c] \in ControlModes
      BY <1>2 DEF TypeOK
    <3>2. PICK next \in {"start", "enable", "ok", "disable", "open"} :
            Go(c, next)
      BY <2>5, <3>1 DEF CountGuards, ControlModes
    <3>3. UNCHANGED <<disabled, mode, turned_off>>
      BY <2>5 DEF CountGuards, historyVars
    <3>4. ~(turned_off /\ mode[c] = "launch")
      BY <1>2, <2>5 DEF CountGuards, OffInv
    <3>5. next \in ControlSteps
      BY <3>2 DEF ControlSteps, Results
    <3> QED
      BY <2>3, <3>2, <3>3, <3>4, <3>5
  <2>6. ASSUME NEW c \in Controller, write_disabled_flag(c)
        PROVE  OffInv'
    <3>1. CASE step[c] = "enable"
      BY <2>6, <3>1 DEF write_disabled_flag, OffInv
    <3>2. CASE step[c] = "disable"
      <4>1. Go(c, "open") /\ UNCHANGED mode
        BY <2>6, <3>2 DEF write_disabled_flag
      <4>2. disabled' \/ disabled' = disabled
        BY <2>6, <3>2 DEF write_disabled_flag
      <4>3. turned_off' = (turned_off /\ step[c] = "disable")
        BY <2>6 DEF write_disabled_flag
      <4>4. turned_off' => turned_off
        BY <4>3, Zenon
      <4>5. turned_off' => disabled'
        BY <1>2, <4>2, <4>4 DEF OffInv
      <4> QED
        BY <1>2, <4>1, <4>4, <4>5 DEF Go, OffInv, TypeOK
    <3> QED
      BY <2>6, <3>1, <3>2 DEF write_disabled_flag
  <2>7. ASSUME NEW c \in Controller, bg_open_shutdown_event(c) \/ SignalGuard(c)
        PROVE  OffInv'
    BY <1>2, <2>3, <2>7
    DEF bg_open_shutdown_event, SignalGuard, historyVars, ControlSteps, Results
  <2>8. ASSUME NEW c \in Controller, AwaitExit(c)
        PROVE  OffInv'
    <3>1. PICK next \in Results : Go(c, next)
      BY <2>8 DEF AwaitExit, Results
    <3>2. /\ UNCHANGED <<disabled, mode>>
          /\ turned_off' => turned_off \/ TurnsOff(c)
      BY <2>8 DEF AwaitExit
    <3>3. TurnsOff(c) => disabled /\ \A d \in Controller \ {c} :
                                       step[d] \notin {"count", "start"}
      BY DEF TurnsOff, AtWork, Results
    <3> QED
      BY <1>2, <3>1, <3>2, <3>3 DEF Go, OffInv, TypeOK, Results
  <2>9. ASSUME NEW c \in Controller, start_guard_process(c)
        PROVE  OffInv'
    BY <1>2, <2>3, <2>9
    DEF start_guard_process, historyVars, ControlSteps, Results
  <2>10. ASSUME NEW g \in GuardId,
                \/ run_browser_guard(g)
                \/ handle_console_signal(g)
                \/ GuardFails(g)
         PROVE  UNCHANGED <<disabled, mode, step, turned_off>>
    BY <2>10
    DEF run_browser_guard, bg_create_shutdown_event, GuardLeavesLoop,
        handle_console_signal, GuardClosesEvent, RejectedClosesEvent,
        GuardReturns, GuardFails,
        GuardFrame, historyVars
  <2>11. ASSUME NEW c \in Controller, ControllerKilled(c)
         PROVE  OffInv'
    BY <1>2, <2>11 DEF ControllerKilled, Go, OffInv, TypeOK
  <2>12. CASE InstallerDeletesFlag
    BY <2>12 DEF InstallerDeletesFlag, OffInv
  <2> QED
    BY <1>2, <2>1, <2>2, <2>4, <2>5, <2>6, <2>7, <2>8, <2>9, <2>10, <2>11,
       <2>12
    DEF Next, ControlStep, GuardStarted, GuardFrame, historyVars, vars
<1>3. ControlInv => TypeOK
  BY DEF ControlInv
<1>4. OffInv /\ [Next]_vars
        => [turned_off => \A c \in Controller :
              mode[c] = "launch" /\ step[c] = "start" => step'[c] # "ok"]_vars
  BY DEF OffInv
<1> QED
  BY <1>1, <1>2, <1>3, <1>4, ControlInvHolds, PTL DEF Spec, TurnedOffStaysOff
=============================================================================
