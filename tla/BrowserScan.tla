---------------------------- MODULE BrowserScan -----------------------------
(***************************************************************************)
(* What one pass of the guard learns of the desktop: the browser families, *)
(* their windows and their audio, collected in this order by               *)
(* collect_browser_groups, mark_foreground_groups and mark_audio_groups of *)
(* src/process_control.c.  Windows open, close, are minimized and restored *)
(* while the pass goes on, and the calls that inspect them can fail; the   *)
(* code then goes on without the answer.                                   *)
(*                                                                         *)
(*   "snapshot"  the processes cannot be enumerated                        *)
(*   "open"      a process cannot be opened to compare its user            *)
(*   "windows"   the enumeration of the windows fails or is cut short      *)
(*   "name"      the executable behind a window cannot be queried          *)
(*   "audio"     the audio sessions, or one of them, cannot be inspected   *)
(*                                                                         *)
(* Audio is looked for on one output device, the default one for           *)
(* multimedia; what plays on another device is silence to the guard.       *)
(***************************************************************************)
EXTENDS SuspendPolicy, FiniteSets

CONSTANTS
  Family,        \* supported executable names
  Process,       \* processes with such a name
  Manageable,    \* those of the current user and session
  Window,        \* top-level windows
  FamilyOf,      \* [Process -> Family]
  OwnerOf,       \* [Window -> Process]
  MaxGroupPids,  \* BG_MAX_GROUP_PIDS
  ScanFaults     \* the failures this instance allows

ASSUME FamilyOfAssumption == FamilyOf \in [Process -> Family]
ASSUME ManageableAssumption == Manageable \subseteq Process
ASSUME WindowAssumption == IsFiniteSet(Window)
ASSUME OwnerOfAssumption == OwnerOf \in [Window -> Process]
ASSUME MaxGroupPidsAssumption == MaxGroupPids \in Nat
ASSUME ScanFaultsAssumption ==
  ScanFaults \subseteq {"snapshot", "open", "windows", "name", "audio"}

VARIABLES
  running,     \* the live processes
  shown,       \* [Window -> how the window is shown]
  foreground,  \* the foreground window, if it is one of Window
  playing,     \* the processes with an active audio session on the
               \* default output device
  stage,       \* what the pass does next
  groups,      \* [Family -> BrowserGroup]
  unscanned,   \* the windows EnumWindows has still to report
  foreground_window,  \* GetForegroundWindow at the start of the scan
  throughout   \* for the properties: what has held since the pass began

desktopVars == <<running, shown, foreground, playing>>
scanVars == <<stage, groups, unscanned, foreground_window>>
vars == <<desktopVars, scanVars, throughout>>

WindowOf(f) == {w \in Window : FamilyOf[OwnerOf[w]] = f}
ProcessOf(f) == {p \in Process : FamilyOf[p] = f}
ShownAs(how) == {w \in Window : shown[w] = how}

(* A group exists when it has a process.                                   *)
BrowserGroup == [pids : SUBSET Process,
                 minimized_window_count : 0 .. Cardinality(Window),
                 visible_restored_window_count : 0 .. Cardinality(Window),
                 has_foreground_window : BOOLEAN,
                 has_audio : BOOLEAN]

NoGroups == [f \in Family |-> [pids |-> {},
                               minimized_window_count |-> 0,
                               visible_restored_window_count |-> 0,
                               has_foreground_window |-> FALSE,
                               has_audio |-> FALSE]]

Desktop == [restored : SUBSET Window, closed : SUBSET Window,
            foreground : SUBSET Window, playing : SUBSET Process]
DesktopNow == [restored |-> ShownAs("restored"), closed |-> ShownAs("closed"),
               foreground |-> foreground, playing |-> playing]

TypeOK ==
  /\ running \subseteq Process
  /\ shown \in [Window -> {"closed", "minimized", "restored"}]
  /\ foreground \subseteq ShownAs("restored")
  /\ playing \subseteq running
  /\ stage \in {"collect", "foreground", "windows", "audio", "decide"}
  /\ groups \in [Family -> BrowserGroup]
  /\ \A f \in Family : Cardinality(groups[f].pids) <= MaxGroupPids
  /\ unscanned \subseteq Window
  /\ foreground_window \subseteq Window
  /\ throughout \in Desktop

Init ==
  /\ running = {}
  /\ shown = [w \in Window |-> "closed"]
  /\ foreground = {}
  /\ playing = {}
  /\ stage = "collect"
  /\ groups = NoGroups
  /\ unscanned = {}
  /\ foreground_window = {}
  /\ throughout = DesktopNow

-----------------------------------------------------------------------------
(* The desktop.                                                            *)

(* What stops holding is struck off.                                       *)
DesktopChanged ==
  /\ throughout' = [restored |-> throughout.restored \cap DesktopNow'.restored,
                    closed |-> throughout.closed \cap DesktopNow'.closed,
                    foreground |-> throughout.foreground \cap foreground',
                    playing |-> throughout.playing \cap playing']
  /\ UNCHANGED scanVars

ProcessStarts(p) ==
  /\ p \notin running
  /\ running' = running \cup {p}
  /\ UNCHANGED <<shown, foreground, playing>>
  /\ DesktopChanged

ProcessExits(p) ==
  /\ p \in running
  /\ running' = running \ {p}
  /\ shown' = [w \in Window |-> IF OwnerOf[w] = p THEN "closed" ELSE shown[w]]
  /\ foreground' = foreground \cap {w \in Window : OwnerOf[w] # p}
  /\ playing' = playing \ {p}
  /\ DesktopChanged

Show(w, how) ==
  /\ OwnerOf[w] \in running
  /\ shown[w] # how
  /\ shown' = [shown EXCEPT ![w] = how]
  /\ foreground' = foreground \cap ShownAs("restored")'
  /\ UNCHANGED <<running, playing>>
  /\ DesktopChanged

Focus(ws) ==
  /\ ws # foreground
  /\ ws \subseteq ShownAs("restored")
  /\ foreground' = ws
  /\ UNCHANGED <<running, shown, playing>>
  /\ DesktopChanged

(* The audio of a process that is not managed is never looked for.         *)
AudioStartsOrStops(p) ==
  /\ p \in running \cap Manageable
  /\ playing' = IF p \in playing THEN playing \ {p} ELSE playing \cup {p}
  /\ UNCHANGED <<running, shown, foreground>>
  /\ DesktopChanged

(* Headphones are plugged in: what plays on the new default device is      *)
(* independent of what played on the old one.                              *)
DefaultDeviceChanges ==
  /\ playing' \in SUBSET (running \cap Manageable)
  /\ UNCHANGED <<running, shown, foreground>>
  /\ DesktopChanged

DesktopStep ==
  \/ \E p \in Process : ProcessStarts(p) \/ ProcessExits(p)
                          \/ AudioStartsOrStops(p)
  \/ \E w \in Window, how \in {"closed", "minimized", "restored"} : Show(w, how)
  \/ Focus({})
  \/ \E w \in Window : Focus({w})
  \/ DefaultDeviceChanges

-----------------------------------------------------------------------------
(* The pass.                                                               *)

(* A process of another user or session is not managed, nor is one that    *)
(* cannot be opened.                                                       *)
is_manageable_browser_process(p) == p \in Manageable

(* The processes of a family that the enumeration finds, in whatever order,*)
(* as many as the group holds.                                             *)
FitsGroup(pids, f) ==
  LET found == {p \in running \cap ProcessOf(f) :
                  is_manageable_browser_process(p)}
  IN  /\ pids \subseteq found
      /\ Cardinality(pids) <= MaxGroupPids
      /\ \/ pids = found
         \/ Cardinality(pids) = MaxGroupPids
         \/ "open" \in ScanFaults

collect_browser_groups ==
  /\ stage = "collect"
  /\ \/ \E members \in [Family -> SUBSET running] :
          /\ \A f \in Family : FitsGroup(members[f], f)
          /\ groups' = [f \in Family |->
                         [groups[f] EXCEPT !.pids = members[f]]]
     \/ "snapshot" \in ScanFaults /\ UNCHANGED groups
  /\ stage' = "foreground"
  /\ throughout' = DesktopNow
  /\ UNCHANGED <<desktopVars, unscanned, foreground_window>>

mark_foreground_groups ==
  /\ stage = "foreground"
  /\ foreground_window' = foreground
  /\ unscanned' = Window \ ShownAs("closed")
  /\ stage' = "windows"
  /\ UNCHANGED <<desktopVars, groups, throughout>>

(* Mutants: a restored window counts when it is the foreground window; the *)
(* window reported last decides whether the family is in the foreground.   *)
Counted_ForegroundOnly(group, w) ==
  IF shown[w] = "minimized"
  THEN [group EXCEPT !.minimized_window_count = @ + 1]
  ELSE IF w \in foreground_window
       THEN [group EXCEPT !.visible_restored_window_count = @ + 1,
                          !.has_foreground_window = TRUE]
       ELSE group

Counted_LastDecides(group, w) ==
  IF shown[w] = "minimized"
  THEN [group EXCEPT !.minimized_window_count = @ + 1]
  ELSE [group EXCEPT !.visible_restored_window_count = @ + 1,
                     !.has_foreground_window = w \in foreground_window]

(* One window is reported.  It is counted for the group of its executable, *)
(* if there is such a group, and stays uncounted if it is no longer        *)
(* visible or its executable is unknown.                                   *)
Counted(group, w) ==
  IF shown[w] = "minimized"
  THEN [group EXCEPT !.minimized_window_count = @ + 1]
  ELSE [group EXCEPT !.visible_restored_window_count = @ + 1,
                     !.has_foreground_window = @ \/ w \in foreground_window]

enum_windows_callback ==
  /\ stage = "windows"
  /\ \E w \in unscanned :
       LET f == FamilyOf[OwnerOf[w]]
       IN  /\ unscanned' = unscanned \ {w}
           /\ \/ /\ shown[w] # "closed"
                 /\ groups[f].pids # {}
                 /\ groups' = [groups EXCEPT ![f] = Counted(@, w)]
              \/ /\ shown[w] = "closed" \/ groups[f].pids = {}
                      \/ "name" \in ScanFaults
                 /\ UNCHANGED groups
  /\ UNCHANGED <<desktopVars, stage, foreground_window, throughout>>

(* Nobody looks at what it returns.                                        *)
EnumWindowsReturns ==
  /\ stage = "windows"
  /\ unscanned = {} \/ "windows" \in ScanFaults
  /\ unscanned' = {}
  /\ stage' = "audio"
  /\ UNCHANGED <<desktopVars, groups, foreground_window, throughout>>

(* Mutant: every process of the group has to play.                         *)
mark_audio_groups_All ==
  /\ stage = "audio"
  /\ groups' = [f \in Family |->
                  [groups[f] EXCEPT
                     !.has_audio = groups[f].pids \subseteq playing]]
  /\ stage' = "decide"
  /\ UNCHANGED <<desktopVars, unscanned, foreground_window, throughout>>

(* A family has audio when one of the processes in its group has an active *)
(* session on the default device.                                          *)
mark_audio_groups ==
  /\ stage = "audio"
  /\ \E audio_pids \in IF "audio" \in ScanFaults THEN SUBSET playing
                                                 ELSE {playing} :
       groups' = [f \in Family |->
                    [groups[f] EXCEPT
                       !.has_audio = @ \/ groups[f].pids \cap audio_pids # {}]]
  /\ stage' = "decide"
  /\ UNCHANGED <<desktopVars, unscanned, foreground_window, throughout>>

(* Mutant: the groups are not cleared.                                     *)
NextPass_KeepsGroups ==
  /\ stage = "decide"
  /\ stage' = "collect"
  /\ UNCHANGED <<desktopVars, groups, unscanned, foreground_window, throughout>>

(* The head of the loop clears the groups of the last pass.                *)
NextPass ==
  /\ stage = "decide"
  /\ stage' = "collect"
  /\ groups' = NoGroups
  /\ UNCHANGED <<desktopVars, unscanned, foreground_window, throughout>>

PassStep ==
  \/ collect_browser_groups
  \/ mark_foreground_groups
  \/ enum_windows_callback
  \/ EnumWindowsReturns
  \/ mark_audio_groups
  \/ NextPass

Next == DesktopStep \/ PassStep

Spec == Init /\ [][Next]_vars

-----------------------------------------------------------------------------
(* What ensure_group_state makes of a group when nothing but the           *)
(* observation of the desktop speaks against suspending its processes.     *)
Suspends(f, policy) ==
  /\ stage = "decide"
  /\ groups[f].pids # {}
  /\ evaluate_suspend_policy(
       [policy                        |-> policy,
        minimized_window_count        |-> groups[f].minimized_window_count,
        visible_restored_window_count |->
          groups[f].visible_restored_window_count,
        has_foreground_window         |-> groups[f].has_foreground_window,
        has_audio                     |-> groups[f].has_audio,
        suspend_disabled              |-> FALSE,
        manual_resume_grace_elapsed   |-> TRUE,
        background_grace_elapsed      |-> TRUE]).should_suspend

(* docs/safety.md: "Minimized-only mode refuses suspension when any        *)
(* visible restored window exists in the browser family."  Whatever else   *)
(* moves during the pass, a family with a window that stays restored       *)
(* throughout is not suspended under that policy.                          *)
RestoredWindowProtects ==
  \A f \in Family :
    WindowOf(f) \cap throughout.restored # {} => ~Suspends(f, "minimized_only")

(* docs/safety.md: "Foreground and active-output-audio families are        *)
(* protected."  The family whose window stays in the foreground throughout *)
(* the pass is not suspended under either policy...                        *)
ForegroundProtects ==
  \A f \in Family, policy \in Policies :
    WindowOf(f) \cap throughout.foreground # {} => ~Suspends(f, policy)

(* ...nor is a family one of whose processes plays throughout on the output *)
(* device that is the default one at the time.  The code is narrower than  *)
(* the sentence: audio on another device protects nobody, nor does that of *)
(* a process the pass did not collect because it could not be opened or    *)
(* the group had no room for it.                                           *)
AudioProtects ==
  \A f \in Family, policy \in Policies :
    groups[f].pids \cap throughout.playing # {} => ~Suspends(f, policy)

(* A family that has no window throughout the pass is not suspended under  *)
(* the minimized-only policy: another family's windows are not counted for *)
(* it, and the counts of an earlier pass are gone.                         *)
WindowlessIsLeftAlone ==
  \A f \in Family :
    WindowOf(f) \subseteq throughout.closed => ~Suspends(f, "minimized_only")
=============================================================================
