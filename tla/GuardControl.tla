---------------------------- MODULE GuardControl ----------------------------
(***************************************************************************)
(* Starting and stopping guards: the controller (src/control_main.c), the  *)
(* shutdown event it shares with the guard (src/control_protocol.c), and   *)
(* the life of a guard process around its loop.  Several controllers and   *)
(* several guard processes may exist at once; Guard assumes that at most   *)
(* one of the guards gets as far as its journal, which is shown here.      *)
(*                                                                         *)
(* The event is a kernel object that lives while somebody holds a handle   *)
(* to it.  It is not inheritable, so the broker holds none.                *)
(*                                                                         *)
(* Environment names what an instance allows:                              *)
(*   "together"  controllers run at the same time                          *)
(*   "snapshot"  counting the guard processes misses some: no snapshot is  *)
(*               taken, or a process cannot be opened or queried           *)
(*   "flag"      the disabled flag cannot be written or deleted            *)
(*   "start"     a guard process is not created                            *)
(*   "direct"    guards are started, or stopped by a console signal,       *)
(*               without a controller                                      *)
(*   "killed"    guards fail during startup; guards and controllers are    *)
(*               killed                                                    *)
(*   "event"     the event is not opened, or not set, although it exists   *)
(*   "install"   the installer deletes the disabled flag                   *)
(***************************************************************************)
EXTENDS Naturals, FiniteSets

CONSTANTS
  Controller,  \* runs of browser_guard_control.exe
  MaxGuards,   \* bound: guard processes created
  Environment

ASSUME MaxGuardsAssumption == MaxGuards \in Nat
ASSUME ControllerAssumption == Controller \cap (1 .. MaxGuards) = {}
ASSUME EnvironmentAssumption ==
  Environment
    \subseteq {"together", "snapshot", "flag", "start", "direct", "killed",
               "event", "install"}

GuardId == 1 .. MaxGuards

VARIABLES
  guard,       \* [GuardId -> how far that process is]
  installed,   \* the guards that run the installed executable
  holders,     \* who holds a handle to the shutdown event
  signalled,   \* the event is set; it stays set
  disabled,    \* the file browser_guard.disabled exists
  mode,        \* [Controller -> what its command line asks for]
  step,        \* [Controller -> what it does next, or its result]
  found,       \* for the properties: the guards there were when it started,
               \* of a controller that may report that it has stopped them
  turned_off   \* for the properties: a toggle turned protection off, with
               \* no other controller at work and the flag on disk, and
               \* neither a toggle nor the installer has begun to turn it on

guardVars == <<guard, installed, holders, signalled>>
historyVars == <<found, turned_off>>
vars == <<guardVars, disabled, mode, step, historyVars>>

GuardStages == {"absent", "created", "rejected", "serving", "leaving",
                "returning", "gone"}
ControlModes == {"launch", "toggle", "shutdown"}
Results == {"ok", "failed"}
ControlSteps == {"absent", "check", "count", "disable", "enable", "open",
                 "signal", "wait", "start"} \cup Results

TypeOK ==
  /\ guard \in [GuardId -> GuardStages]
  /\ installed \subseteq GuardId
  /\ holders \subseteq GuardId \cup Controller
  /\ signalled \in BOOLEAN
  /\ disabled \in BOOLEAN
  /\ mode \in [Controller -> ControlModes]
  /\ step \in [Controller -> ControlSteps]
  /\ found \in [Controller -> SUBSET GuardId]
  /\ turned_off \in BOOLEAN

(* The guard processes there are, and those that have passed the creation  *)
(* of the event and not yet closed it: their journal and their tracked     *)
(* processes are in use.                                                   *)
Existing == {g \in GuardId : guard[g] \notin {"absent", "gone"}}
Serving == {g \in GuardId : guard[g] \in {"serving", "leaving"}}

Init ==
  /\ guard = [g \in GuardId |-> "absent"]
  /\ installed = {}
  /\ holders = {}
  /\ signalled = FALSE
  /\ disabled = FALSE
  /\ mode = [c \in Controller |-> "toggle"]
  /\ step = [c \in Controller |-> "absent"]
  /\ found = [c \in Controller |-> {}]
  /\ turned_off = FALSE

-----------------------------------------------------------------------------
(* A guard process.                                                        *)

GuardFrame == UNCHANGED <<disabled, mode, step, historyVars>>

(* Closing the last handle destroys the event.                             *)
CloseHandle(h) ==
  /\ holders' = holders \ {h}
  /\ signalled' = (signalled /\ holders' # {})

CreateGuardProcess(mine) ==
  \E g \in GuardId :
    /\ guard[g] = "absent"
    /\ \A earlier \in GuardId : earlier < g => guard[earlier] # "absent"
    /\ guard' = [guard EXCEPT ![g] = "created"]
    /\ installed' = IF mine THEN installed \cup {g} ELSE installed
    /\ UNCHANGED <<holders, signalled>>

(* Mutant: ERROR_ALREADY_EXISTS is not looked at.                          *)
bg_create_shutdown_event_OpensExisting(g) ==
  /\ guard[g] = "created"
  /\ guard' = [guard EXCEPT ![g] = "serving"]
  /\ holders' = holders \cup {g}
  /\ UNCHANGED <<installed, signalled>>
  /\ GuardFrame

(* An event that exists already belongs to another guard: give up.  The    *)
(* call has returned a handle to that event all the same, which keeps it   *)
(* in existence until it is closed.                                        *)
bg_create_shutdown_event(g) ==
  /\ guard[g] = "created"
  /\ IF holders = {}
     THEN /\ guard' = [guard EXCEPT ![g] = "serving"]
          /\ holders' = {g}
          /\ signalled' = FALSE
     ELSE /\ guard' = [guard EXCEPT ![g] = "rejected"]
          /\ holders' = holders \cup {g}
          /\ UNCHANGED signalled
  /\ UNCHANGED installed
  /\ GuardFrame

RejectedClosesEvent(g) ==
  /\ guard[g] = "rejected"
  /\ guard' = [guard EXCEPT ![g] = "returning"]
  /\ CloseHandle(g)
  /\ UNCHANGED installed
  /\ GuardFrame

(* Mutant: a stop request is taken for a request to resume.                *)
GuardLeavesLoop_AsResumeRequest(g) ==
  /\ guard[g] = "serving"
  /\ signalled
  /\ UNCHANGED guardVars
  /\ GuardFrame

(* pump_ui_messages sees the event.                                        *)
GuardLeavesLoop(g) ==
  /\ guard[g] = "serving"
  /\ signalled
  /\ guard' = [guard EXCEPT ![g] = "leaving"]
  /\ UNCHANGED <<installed, holders, signalled>>
  /\ GuardFrame

(* The console signal arrives.                                             *)
handle_console_signal(g) ==
  /\ "direct" \in Environment
  /\ guard[g] = "serving"
  /\ guard' = [guard EXCEPT ![g] = "leaving"]
  /\ UNCHANGED <<installed, holders, signalled>>
  /\ GuardFrame

(* After resume_all_tracked.                                               *)
GuardClosesEvent(g) ==
  /\ guard[g] = "leaving"
  /\ guard' = [guard EXCEPT ![g] = "returning"]
  /\ CloseHandle(g)
  /\ UNCHANGED installed
  /\ GuardFrame

GuardReturns(g) ==
  /\ guard[g] = "returning"
  /\ guard' = [guard EXCEPT ![g] = "gone"]
  /\ UNCHANGED <<installed, holders, signalled>>
  /\ GuardFrame

(* Startup fails, or the process is killed.                                *)
GuardFails(g) ==
  /\ "killed" \in Environment
  /\ g \in Existing
  /\ guard' = [guard EXCEPT ![g] = "gone"]
  /\ CloseHandle(g)
  /\ UNCHANGED installed
  /\ GuardFrame

(* From wherever it is: the event has the same name in every directory.    *)
GuardStarted ==
  /\ "direct" \in Environment
  /\ \E mine \in BOOLEAN : CreateGuardProcess(mine)
  /\ GuardFrame

run_browser_guard(g) ==
  \/ bg_create_shutdown_event(g)
  \/ RejectedClosesEvent(g)
  \/ GuardLeavesLoop(g)
  \/ GuardClosesEvent(g)
  \/ GuardReturns(g)

-----------------------------------------------------------------------------
(* A controller.                                                           *)

(* A guard of this installation, of the same user and session.             *)
bg_process_matches_current_identity(g) == g \in installed

Installed == {g \in Existing : bg_process_matches_current_identity(g)}

(* The guard processes it may find; with no snapshot it finds none.        *)
count_guard_processes ==
  IF "snapshot" \in Environment THEN SUBSET Installed ELSE {Installed}

Go(c, next) == step' = [step EXCEPT ![c] = next]

AtWork(c) == step[c] \notin Results \cup {"absent"}

ControlBegins(c) ==
  /\ step[c] = "absent"
  /\ \/ "together" \in Environment
     \/ \A other \in Controller : ~AtWork(other)
  /\ \E asked \in ControlModes :
       /\ mode' = [mode EXCEPT ![c] = asked]
       /\ Go(c, IF asked = "launch" THEN "check" ELSE "count")
  /\ found' =
       [found EXCEPT ![c] = IF mode'[c] = "launch" THEN {} ELSE Installed]
  /\ UNCHANGED <<guardVars, disabled, turned_off>>

(* Mutant: --launch does not look at the flag.                             *)
is_disabled_Never(c) ==
  /\ step[c] = "check"
  /\ Go(c, "count")
  /\ UNCHANGED <<guardVars, disabled, mode, historyVars>>

is_disabled(c) ==
  /\ step[c] = "check"
  /\ Go(c, IF disabled THEN "ok" ELSE "count")
  /\ UNCHANGED <<guardVars, disabled, mode, historyVars>>

CountGuards(c) ==
  /\ step[c] = "count"
  /\ \E guards \in count_guard_processes :
       Go(c, IF guards = {}
             THEN CASE mode[c] = "launch"   -> "start"
                    [] mode[c] = "toggle"   -> "enable"
                    [] mode[c] = "shutdown" -> "ok"
             ELSE CASE mode[c] = "launch"   -> "ok"
                    [] mode[c] = "toggle"   -> "disable"
                    [] mode[c] = "shutdown" -> "open")
  /\ UNCHANGED <<guardVars, disabled, mode, historyVars>>

(* The caller does not look at the result, so it makes no difference that  *)
(* writing the flag can report a failure and deleting it cannot.           *)
write_disabled_flag(c) ==
  /\ \/ step[c] = "disable" /\ Go(c, "open")
     \/ step[c] = "enable" /\ Go(c, "start")
  /\ \/ disabled' = (step[c] = "disable")
     \/ "flag" \in Environment /\ UNCHANGED disabled
  /\ turned_off' = (turned_off /\ step[c] = "disable")
  /\ UNCHANGED <<guardVars, mode, found>>

(* The event of a guard that has not created it yet cannot be opened.      *)
bg_open_shutdown_event(c) ==
  /\ step[c] = "open"
  /\ \/ holders # {} /\ Go(c, "signal") /\ holders' = holders \cup {c}
     \/ /\ holders = {} \/ "event" \in Environment
        /\ Go(c, "failed")
        /\ UNCHANGED holders
  /\ UNCHANGED <<guard, installed, signalled, disabled, mode, historyVars>>

(* Mutant: the handle is not closed.                                       *)
SignalGuard_LeaksHandle(c) ==
  /\ step[c] = "signal"
  /\ Go(c, "wait")
  /\ signalled' = TRUE
  /\ UNCHANGED <<guard, installed, holders, disabled, mode, historyVars>>

(* SetEvent, and at once CloseHandle, whether or not it could be set, and  *)
(* before the wait.                                                        *)
SignalGuard(c) ==
  /\ step[c] = "signal"
  /\ holders' = holders \ {c}
  /\ \/ Go(c, "wait") /\ signalled' = (holders' # {})
     \/ /\ "event" \in Environment
        /\ Go(c, "failed")
        /\ signalled' = (signalled /\ holders' # {})
  /\ UNCHANGED <<guard, installed, disabled, mode, historyVars>>

(* For the properties: the toggle c reports that protection is off.        *)
TurnsOff(c) ==
  /\ mode[c] = "toggle"
  /\ disabled
  /\ \A other \in Controller \ {c} : ~AtWork(other)

(* Mutants: a set event is as good as a guard that has exited; the wait    *)
(* has no limit.                                                           *)
AwaitExit_NotAtAll(c) ==
  /\ step[c] = "wait"
  /\ Go(c, "ok")
  /\ turned_off' = (turned_off \/ TurnsOff(c))
  /\ UNCHANGED <<guardVars, disabled, mode, found>>

AwaitExit_NoTimeout(c) ==
  /\ step[c] = "wait"
  /\ {} \in count_guard_processes
  /\ Go(c, "ok")
  /\ turned_off' = (turned_off \/ TurnsOff(c))
  /\ UNCHANGED <<guardVars, disabled, mode, found>>

(* Poll until no guard is found, or until 5000 ms have passed.             *)
AwaitExit(c) ==
  /\ step[c] = "wait"
  /\ \E guards \in count_guard_processes :
       IF guards = {}
       THEN /\ Go(c, "ok")
            /\ turned_off' = (turned_off \/ TurnsOff(c))
       ELSE Go(c, "failed") /\ UNCHANGED turned_off
  /\ UNCHANGED <<guardVars, disabled, mode, found>>

start_guard_process(c) ==
  /\ step[c] = "start"
  /\ \/ CreateGuardProcess(TRUE) /\ Go(c, "ok")
     \/ /\ "start" \in Environment \/ guard[MaxGuards] # "absent"
        /\ Go(c, "failed")
        /\ UNCHANGED guardVars
  /\ UNCHANGED <<disabled, mode, historyVars>>

(* tools/install-startup.ps1 stops the controllers that it finds.  One that *)
(* was killed leaves its place to another.                                 *)
ControllerKilled(c) ==
  /\ "killed" \in Environment
  /\ AtWork(c)
  /\ Go(c, "absent")
  /\ CloseHandle(c)
  /\ mode' = [mode EXCEPT ![c] = "toggle"]
  /\ found' = [found EXCEPT ![c] = {}]
  /\ UNCHANGED <<guard, installed, disabled, turned_off>>

(* ... and turns protection on, whatever the user had asked for before.    *)
InstallerDeletesFlag ==
  /\ "install" \in Environment
  /\ disabled' = FALSE
  /\ turned_off' = FALSE
  /\ UNCHANGED <<guardVars, mode, step, found>>

ControlStep(c) ==
  \/ is_disabled(c)
  \/ CountGuards(c)
  \/ write_disabled_flag(c)
  \/ bg_open_shutdown_event(c)
  \/ SignalGuard(c)
  \/ AwaitExit(c)
  \/ start_guard_process(c)

Next ==
  \/ \E g \in GuardId :
       run_browser_guard(g) \/ handle_console_signal(g) \/ GuardFails(g)
  \/ GuardStarted
  \/ \E c \in Controller :
       ControlBegins(c) \/ ControlStep(c) \/ ControllerKilled(c)
  \/ InstallerDeletesFlag

Spec == Init /\ [][Next]_vars

(* Controllers run to their end: each of their calls returns.  The calls   *)
(* of a guard's startup, pass and way out return as well.                  *)
ControlFairSpec == Spec /\ \A c \in Controller : WF_vars(ControlStep(c))
GuardFairness == \A g \in GuardId : WF_vars(run_browser_guard(g))

-----------------------------------------------------------------------------
(* No handle to the event is lost or kept too long: it exists only while a *)
(* guard serves, while a controller is about to set it, or while a guard   *)
(* that was rejected is about to close it.  A handle kept for longer would *)
(* keep the next guard from starting.  With it, and OneGuardServes, the    *)
(* invariant is inductive.                                                 *)
Rejected == {g \in GuardId : guard[g] = "rejected"}

HandlesAccountedFor ==
  /\ holders = Serving \cup Rejected
                 \cup {c \in Controller : step[c] = "signal"}
  /\ signalled => holders # {}

(* ADR-002: "Duplicate guard instances are rejected when the event already *)
(* exists."  However starts, stops and crashes interleave, at most one     *)
(* guard uses the journal and the tracked processes at a time.             *)
OneGuardServes == \A g, h \in Serving : g = h

ControlInv == TypeOK /\ HandlesAccountedFor /\ OneGuardServes

(* The event makes guards take turns.  A guard that has been created and   *)
(* has not come to the event may still get one, unless it fails before.    *)
Turns == INSTANCE GuardTurns WITH
           GuardProcess <- GuardId,
           serving <- Serving,
           past <- {g \in GuardId :
                      guard[g] \in {"rejected", "returning", "gone"}}

TakesTurns == Turns!Spec

(* A stop request stops the guard it was sent to and no later one: a guard *)
(* finds the event it creates unset, however many controllers have set and *)
(* not yet closed an earlier one (bg_create_shutdown_event,                *)
(* request_guard_shutdown).                                                *)
StopsNoLaterGuard ==
  [][\A g \in GuardId : g \notin Serving /\ g \in Serving' => ~signalled']_vars

(* A stop request is not lost either: a guard that has not closed the event *)
(* holds it open, so it stays set until the guard has seen it, whoever     *)
(* else opens, sets and closes it or is killed meanwhile.                  *)
StopIsNotLost ==
  [][\A g \in Serving \cap Serving' : signalled => signalled']_vars

(* ADR-002: the controller "signals the event, and waits for normal exit". *)
(* When --shutdown or a toggle reports success, every guard process of the *)
(* installation that there was when the controller was started has exited. *)
(* The installer overwrites the executable on the strength of that.        *)
ReportedStopIsReal ==
  \A c \in Controller :
    mode[c] \in {"shutdown", "toggle"} /\ step[c] = "ok"
      => found[c] \cap Existing = {}

(* Once a toggle has reported that protection is off, with the flag written *)
(* and no other controller at work, no --launch at log-on starts a guard   *)
(* until a toggle or the installer turns protection on.                    *)
TurnedOffStaysOff ==
  [][turned_off => \A c \in Controller :
       mode[c] = "launch" /\ step[c] = "start" => step'[c] # "ok"]_vars

(* Every controller ends with a result unless it is killed, even when the  *)
(* guard hangs: nothing is assumed of the guards here.                     *)
ControllerEnds ==
  \A c \in Controller :
    step[c] # "absent" ~> step[c] \in Results \cup {"absent"}

(* The most calls a controller has left at each step.                      *)
CallsLeft ==
  [check |-> 6, count |-> 5, disable |-> 4, enable |-> 4, open |-> 3,
   signal |-> 2, wait |-> 1, start |-> 1, ok |-> 0, failed |-> 0]

(* Each of its calls brings a controller nearer to its result, and nobody  *)
(* sends it back short of killing it: what ControllerEnds adds is that the *)
(* calls return.                                                           *)
ControllersAdvance ==
  [][\A c \in Controller :
       IF ControlStep(c)
       THEN CallsLeft[step[c]'] < CallsLeft[step[c]]
       ELSE step[c] # "absent" => step[c]' \in {step[c], "absent"}]_vars

(* A guard whose event has been set exits, provided that the calls of its  *)
(* pass and of its way out return.                                         *)
StopIsHonoured ==
  GuardFairness =>
    \A g \in GuardId : (g \in Serving /\ signalled) ~> guard[g] = "gone"
=============================================================================
