------------------------- MODULE BrowserScan_proof -------------------------
(***************************************************************************)
(* What a pass of the guard learns of the desktop is enough to protect it, *)
(* for any number of families, processes and windows, and however the      *)
(* desktop changes while the pass goes on.                                 *)
(***************************************************************************)
EXTENDS BrowserScan, FiniteSetTheorems, TLAPS

(* The groups before the windows are enumerated, and while they are.       *)
Uncounted(group) ==
  /\ group.minimized_window_count = 0
  /\ group.visible_restored_window_count = 0

CountInv ==
  /\ stage \in {"collect", "foreground"} =>
       \A f \in Family : Uncounted(groups[f])
  /\ stage = "windows" =>
       \A f \in Family :
         groups[f].minimized_window_count
             + groups[f].visible_restored_window_count
             + Cardinality(unscanned)
           <= Cardinality(Window)

(* What has held throughout the pass holds now.                            *)
ThroughoutInv ==
  /\ throughout.restored \subseteq ShownAs("restored")
  /\ throughout.closed \subseteq ShownAs("closed")
  /\ throughout.foreground \subseteq foreground
  /\ throughout.playing \subseteq playing

(* A window that holds its state throughout has been counted, unless it    *)
(* has still to be reported or its family has no group.                    *)
Pending(w) ==
  \/ stage = "windows" /\ w \in unscanned
  \/ groups[FamilyOf[OwnerOf[w]]].pids = {}

(* Every window is reported, and its executable is known.                  *)
WindowsAreKnown == "name" \notin ScanFaults /\ "windows" \notin ScanFaults

Scanning == stage \in {"windows", "audio", "decide"}

WindowsInv ==
  Scanning =>
    /\ throughout.foreground \subseteq foreground_window
    /\ WindowsAreKnown =>
         /\ \A w \in throughout.restored :
              \/ Pending(w)
              \/ groups[FamilyOf[OwnerOf[w]]].visible_restored_window_count > 0
         /\ \A w \in throughout.foreground :
              \/ Pending(w)
              \/ groups[FamilyOf[OwnerOf[w]]].has_foreground_window
    /\ \A f \in Family :
         WindowOf(f) \subseteq throughout.closed => Uncounted(groups[f])

AudioInv ==
  stage = "decide" /\ "audio" \notin ScanFaults =>
    \A f \in Family :
      groups[f].pids \cap throughout.playing # {} => groups[f].has_audio

ScanInv == TypeOK /\ CountInv /\ ThroughoutInv /\ WindowsInv /\ AudioInv

Count == Cardinality(Window)

LEMMA CountIsNatural == Count \in Nat
  BY WindowAssumption, FS_CardinalityType DEF Count

-----------------------------------------------------------------------------
(* The desktop changes, the pass does not move.                            *)
LEMMA DesktopEffect ==
  ASSUME TypeOK, DesktopStep
  PROVE  /\ running' \subseteq Process
         /\ shown' \in [Window -> {"closed", "minimized", "restored"}]
         /\ foreground' \subseteq ShownAs("restored")'
         /\ playing' \subseteq running'
         /\ DesktopChanged
<1> USE DEF TypeOK, ShownAs
<1>1. ASSUME NEW p \in Process, ProcessStarts(p)
      PROVE  /\ running' \subseteq Process
             /\ shown' \in [Window -> {"closed", "minimized", "restored"}]
             /\ foreground' \subseteq ShownAs("restored")'
             /\ playing' \subseteq running'
             /\ DesktopChanged
  BY <1>1 DEF ProcessStarts
<1>2. ASSUME NEW p \in Process, ProcessExits(p)
      PROVE  /\ running' \subseteq Process
             /\ shown' \in [Window -> {"closed", "minimized", "restored"}]
             /\ foreground' \subseteq ShownAs("restored")'
             /\ playing' \subseteq running'
             /\ DesktopChanged
  BY <1>2 DEF ProcessExits
<1>3. ASSUME NEW p \in Process, AudioStartsOrStops(p)
      PROVE  /\ running' \subseteq Process
             /\ shown' \in [Window -> {"closed", "minimized", "restored"}]
             /\ foreground' \subseteq ShownAs("restored")'
             /\ playing' \subseteq running'
             /\ DesktopChanged
  BY <1>3 DEF AudioStartsOrStops
<1>4. ASSUME NEW w \in Window,
             NEW how \in {"closed", "minimized", "restored"}, Show(w, how)
      PROVE  /\ running' \subseteq Process
             /\ shown' \in [Window -> {"closed", "minimized", "restored"}]
             /\ foreground' \subseteq ShownAs("restored")'
             /\ playing' \subseteq running'
             /\ DesktopChanged
  BY <1>4 DEF Show
<1>5. ASSUME NEW ws, Focus(ws)
      PROVE  /\ running' \subseteq Process
             /\ shown' \in [Window -> {"closed", "minimized", "restored"}]
             /\ foreground' \subseteq ShownAs("restored")'
             /\ playing' \subseteq running'
             /\ DesktopChanged
  BY <1>5 DEF Focus
<1>6. ASSUME DefaultDeviceChanges
      PROVE  /\ running' \subseteq Process
             /\ shown' \in [Window -> {"closed", "minimized", "restored"}]
             /\ foreground' \subseteq ShownAs("restored")'
             /\ playing' \subseteq running'
             /\ DesktopChanged
  BY <1>6 DEF DefaultDeviceChanges
<1> QED
  BY <1>1, <1>2, <1>3, <1>4, <1>5, <1>6 DEF DesktopStep

LEMMA DesktopKeeps ==
  ASSUME ScanInv, DesktopStep
  PROVE  ScanInv'
<1>1. /\ running' \subseteq Process
      /\ shown' \in [Window -> {"closed", "minimized", "restored"}]
      /\ foreground' \subseteq ShownAs("restored")'
      /\ playing' \subseteq running'
      /\ DesktopChanged
  BY DesktopEffect DEF ScanInv
<1>2. /\ UNCHANGED <<stage, groups, unscanned, foreground_window>>
      /\ throughout'.restored = throughout.restored \cap ShownAs("restored")'
      /\ throughout'.closed = throughout.closed \cap ShownAs("closed")'
      /\ throughout'.foreground = throughout.foreground \cap foreground'
      /\ throughout'.playing = throughout.playing \cap playing'
      /\ throughout' \in Desktop
  BY <1>1 DEF DesktopChanged, DesktopNow, scanVars, ScanInv, TypeOK, Desktop
<1>3. TypeOK'
  BY <1>1, <1>2 DEF ScanInv, TypeOK
<1>4. CountInv'
  BY <1>2 DEF ScanInv, CountInv, Uncounted
<1>5. ThroughoutInv'
  BY <1>2 DEF ThroughoutInv
<1>6. WindowsInv'
  BY <1>2 DEF ScanInv, WindowsInv, Scanning, Pending, Uncounted, WindowOf
<1>7. AudioInv'
  BY <1>2 DEF ScanInv, AudioInv
<1> QED
  BY <1>3, <1>4, <1>5, <1>6, <1>7 DEF ScanInv

-----------------------------------------------------------------------------
(* The steps of the pass.                                                  *)
LEMMA NoGroupsTyped ==
  /\ NoGroups \in [Family -> BrowserGroup]
  /\ \A f \in Family : /\ NoGroups[f].pids = {}
                       /\ Cardinality(NoGroups[f].pids) <= MaxGroupPids
                       /\ Uncounted(NoGroups[f])
<1>1. Cardinality({}) = 0
  BY FS_EmptySet
<1>2. 0 \in 0 .. Count
  BY CountIsNatural
<1> QED
  BY <1>1, <1>2, MaxGroupPidsAssumption
     DEF NoGroups, BrowserGroup, Uncounted, Count

LEMMA CollectKeeps ==
  ASSUME ScanInv, collect_browser_groups
  PROVE  ScanInv'
<1>1. /\ stage = "collect" /\ stage' = "foreground"
      /\ throughout' = DesktopNow
      /\ UNCHANGED <<running, shown, foreground, playing, unscanned,
                     foreground_window>>
  BY DEF collect_browser_groups, desktopVars
<1>2. TypeOK /\ \A f \in Family : Uncounted(groups[f])
  BY <1>1 DEF ScanInv, CountInv
<1>3. /\ groups' \in [Family -> BrowserGroup]
      /\ \A f \in Family : /\ Cardinality(groups'[f].pids) <= MaxGroupPids
                           /\ Uncounted(groups'[f])
  <2>1. CASE UNCHANGED groups
    BY <1>2, <2>1 DEF TypeOK, Uncounted
  <2>2. ASSUME NEW members \in [Family -> SUBSET running],
               \A f \in Family : FitsGroup(members[f], f),
               groups' = [f \in Family |->
                           [groups[f] EXCEPT !.pids = members[f]]]
        PROVE  /\ groups' \in [Family -> BrowserGroup]
               /\ \A f \in Family :
                    /\ Cardinality(groups'[f].pids) <= MaxGroupPids
                    /\ Uncounted(groups'[f])
    <3>1. \A f \in Family : Cardinality(members[f]) <= MaxGroupPids
      BY <2>2 DEF FitsGroup
    <3>2. \A f \in Family : members[f] \in SUBSET Process
      BY <1>2 DEF TypeOK
    <3> QED
      BY <1>2, <2>2, <3>1, <3>2 DEF TypeOK, BrowserGroup, Uncounted
  <2> QED
    BY <2>1, <2>2 DEF collect_browser_groups
<1>4. throughout' \in Desktop
  BY <1>1, <1>2 DEF DesktopNow, Desktop, TypeOK, ShownAs
<1>5. TypeOK'
  BY <1>1, <1>2, <1>3, <1>4 DEF TypeOK, ShownAs
<1>6. ThroughoutInv'
  BY <1>1 DEF ThroughoutInv, DesktopNow, ShownAs
<1> QED
  BY <1>1, <1>3, <1>5, <1>6
     DEF ScanInv, CountInv, WindowsInv, AudioInv, Scanning

LEMMA ForegroundKeeps ==
  ASSUME ScanInv, mark_foreground_groups
  PROVE  ScanInv'
<1>1. /\ stage = "foreground" /\ stage' = "windows"
      /\ foreground_window' = foreground
      /\ unscanned' = Window \ ShownAs("closed")
      /\ UNCHANGED <<running, shown, foreground, playing, groups,
                     throughout>>
  BY DEF mark_foreground_groups, desktopVars
<1>2. TypeOK /\ ThroughoutInv /\ \A f \in Family : Uncounted(groups[f])
  BY <1>1 DEF ScanInv, CountInv
<1>3. TypeOK'
  BY <1>1, <1>2 DEF TypeOK, ShownAs
<1>4. CountInv'
  <2>1. Cardinality(unscanned') <= Count
    BY <1>1, WindowAssumption, FS_Subset DEF Count
  <2>2. Cardinality(unscanned') \in Nat
    BY <1>1, WindowAssumption, FS_Subset, FS_CardinalityType
  <2> QED
    BY <1>1, <1>2, <2>1, <2>2 DEF CountInv, Uncounted, Count
<1>5. ThroughoutInv'
  BY <1>1, <1>2 DEF ThroughoutInv, ShownAs
<1>6. \A w \in throughout.restored \cup throughout.foreground : w \in unscanned'
  BY <1>1, <1>2 DEF ThroughoutInv, TypeOK, ShownAs
<1>7. WindowsInv'
  <2>1. throughout'.foreground \subseteq foreground_window'
    BY <1>1, <1>2 DEF ThroughoutInv
  <2>2. \A w \in throughout'.restored \cup throughout'.foreground : Pending(w)'
    BY <1>1, <1>6 DEF Pending
  <2>3. \A f \in Family : Uncounted(groups[f])'
    BY <1>1, <1>2 DEF Uncounted
  <2> QED
    BY <2>1, <2>2, <2>3 DEF WindowsInv
<1> QED
  BY <1>1, <1>3, <1>4, <1>5, <1>7 DEF ScanInv, AudioInv

(* One window more is counted, for one group.                              *)
LEMMA CountedGroup ==
  ASSUME NEW group \in BrowserGroup, NEW w \in Window,
         group.minimized_window_count + group.visible_restored_window_count
           < Count
  PROVE  LET g == Counted(group, w)
         IN  /\ g \in BrowserGroup
             /\ g.pids = group.pids
             /\ g.minimized_window_count + g.visible_restored_window_count
                  = group.minimized_window_count
                      + group.visible_restored_window_count + 1
             /\ g.visible_restored_window_count
                  >= group.visible_restored_window_count
             /\ group.has_foreground_window => g.has_foreground_window
             /\ shown[w] = "restored" => g.visible_restored_window_count > 0
             /\ shown[w] = "restored" /\ w \in foreground_window
                  => g.has_foreground_window
<1>1. /\ group.minimized_window_count \in 0 .. Count
      /\ group.visible_restored_window_count \in 0 .. Count
      /\ group.has_foreground_window \in BOOLEAN
  BY DEF BrowserGroup, Count
<1>2. group.minimized_window_count + 1 \in 0 .. Count
      /\ group.visible_restored_window_count + 1 \in 0 .. Count
  BY <1>1, CountIsNatural
<1>3. CASE shown[w] = "minimized"
  BY <1>1, <1>2, <1>3 DEF Counted, BrowserGroup, Count
<1>4. CASE shown[w] # "minimized"
  <2> DEFINE seen == group.has_foreground_window \/ w \in foreground_window
  <2>1. Counted(group, w)
          = [group EXCEPT !.visible_restored_window_count = @ + 1,
                          !.has_foreground_window = seen]
    BY <1>4 DEF Counted
  <2>2. /\ seen \in BOOLEAN
        /\ group.has_foreground_window => seen
        /\ w \in foreground_window => seen
    OBVIOUS
  <2>3. /\ Counted(group, w).has_foreground_window = seen
        /\ Counted(group, w).pids = group.pids
        /\ Counted(group, w).minimized_window_count
             = group.minimized_window_count
        /\ Counted(group, w).visible_restored_window_count
             = group.visible_restored_window_count + 1
    BY <2>1 DEF BrowserGroup
  <2>4. Counted(group, w) \in BrowserGroup
    <3> HIDE DEF seen
    <3> QED
      BY <1>2, <2>1, <2>2 DEF BrowserGroup, Count
  <2>5. /\ group.has_foreground_window
             => Counted(group, w).has_foreground_window
        /\ w \in foreground_window
             => Counted(group, w).has_foreground_window
    BY <2>2, <2>3, Zenon
  <2> HIDE DEF seen
  <2> QED
    BY <1>1, <1>2, <1>4, <2>3, <2>4, <2>5
<1> QED
  BY <1>3, <1>4

(* A step that only counts windows leaves the rest of the types alone.     *)
LEMMA WindowKeeps ==
  ASSUME ScanInv, enum_windows_callback
  PROVE  ScanInv'
<1>1. /\ stage = "windows" /\ stage' = "windows"
      /\ UNCHANGED <<running, shown, foreground, playing,
                     foreground_window, throughout>>
  BY DEF enum_windows_callback, desktopVars
<1>2. TypeOK /\ ThroughoutInv /\ WindowsInv /\ CountInv
  BY DEF ScanInv
<1>3. PICK w \in unscanned :
        LET f == FamilyOf[OwnerOf[w]]
        IN  /\ unscanned' = unscanned \ {w}
            /\ \/ /\ shown[w] # "closed"
                  /\ groups[f].pids # {}
                  /\ groups' = [groups EXCEPT ![f] = Counted(@, w)]
               \/ /\ shown[w] = "closed" \/ groups[f].pids = {}
                       \/ "name" \in ScanFaults
                  /\ UNCHANGED groups
  BY DEF enum_windows_callback
<1> DEFINE f == FamilyOf[OwnerOf[w]]
<1>4. /\ w \in Window /\ unscanned \subseteq Window
      /\ f \in Family
      /\ groups \in [Family -> BrowserGroup]
  BY <1>2, <1>3, OwnerOfAssumption, FamilyOfAssumption DEF TypeOK
<1>5. /\ Cardinality(unscanned) \in Nat
      /\ Cardinality(unscanned) >= 1
      /\ Cardinality(unscanned') = Cardinality(unscanned) - 1
  <2>1. IsFiniteSet(unscanned)
    BY <1>4, WindowAssumption, FS_Subset
  <2>2. unscanned # {} /\ unscanned' = unscanned \ {w}
    BY <1>3
  <2>3. /\ Cardinality(unscanned) \in Nat
        /\ Cardinality(unscanned) # 0
    BY <2>1, <2>2, FS_EmptySet, FS_CardinalityType
  <2>4. Cardinality(unscanned \ {w}) = Cardinality(unscanned) - 1
    BY <1>3, <2>1, FS_RemoveElement
  <2> QED
    BY <2>2, <2>3, <2>4
<1>6. CASE /\ shown[w] = "closed" \/ groups[f].pids = {}
                \/ "name" \in ScanFaults
           /\ UNCHANGED groups
  <2>1. TypeOK'
    BY <1>1, <1>2, <1>3, <1>6 DEF TypeOK, ShownAs
  <2>2. CountInv'
    <3>1. ASSUME NEW g \in Family
          PROVE  groups[g].minimized_window_count \in Nat
                 /\ groups[g].visible_restored_window_count \in Nat
      BY <1>4, CountIsNatural DEF BrowserGroup, Count
    <3> QED
      BY <1>1, <1>2, <1>5, <1>6, <3>1, CountIsNatural DEF CountInv, Count
  <2>3. ThroughoutInv'
    BY <1>1, <1>2 DEF ThroughoutInv, ShownAs
  <2>4. WindowsAreKnown =>
          w \notin throughout.restored \cup throughout.foreground
            \/ groups[f].pids = {}
    BY <1>2, <1>6 DEF ThroughoutInv, TypeOK, ShownAs, WindowsAreKnown
  <2>5. ASSUME WindowsAreKnown,
               NEW v \in throughout.restored \cup throughout.foreground,
               Pending(v)
        PROVE  Pending(v)'
    <3>1. v \in unscanned /\ v # w => v \in unscanned'
      BY <1>3
    <3> QED
      BY <1>1, <1>6, <2>4, <2>5, <3>1 DEF Pending
  <2>6. WindowsInv'
    BY <1>1, <1>2, <1>6, <2>5 DEF WindowsInv, Scanning, Uncounted, WindowOf
  <2> QED
    BY <1>1, <2>1, <2>2, <2>3, <2>6 DEF ScanInv, AudioInv
<1>7. CASE /\ shown[w] # "closed"
           /\ groups[f].pids # {}
           /\ groups' = [groups EXCEPT ![f] = Counted(@, w)]
  <2>1. /\ groups[f].minimized_window_count \in Nat
        /\ groups[f].visible_restored_window_count \in Nat
        /\ groups[f].minimized_window_count
             + groups[f].visible_restored_window_count < Count
    <3>1. groups[f].minimized_window_count \in Nat
          /\ groups[f].visible_restored_window_count \in Nat
      BY <1>4, CountIsNatural DEF BrowserGroup, Count
    <3> QED
      BY <1>1, <1>2, <1>4, <1>5, <3>1, CountIsNatural DEF CountInv, Count
  <2>2. /\ groups'[f] \in BrowserGroup
        /\ groups'[f].pids = groups[f].pids
        /\ groups'[f].minimized_window_count
             + groups'[f].visible_restored_window_count
               = groups[f].minimized_window_count
                   + groups[f].visible_restored_window_count + 1
        /\ groups'[f].visible_restored_window_count
             >= groups[f].visible_restored_window_count
        /\ groups[f].has_foreground_window => groups'[f].has_foreground_window
        /\ shown[w] = "restored"
             => groups'[f].visible_restored_window_count > 0
        /\ shown[w] = "restored" /\ w \in foreground_window
             => groups'[f].has_foreground_window
    <3>1. groups'[f] = Counted(groups[f], w) /\ groups[f] \in BrowserGroup
      BY <1>4, <1>7
    <3> HIDE DEF f
    <3> QED
      BY <1>4, <2>1, <3>1, CountedGroup
  <2>3. \A g \in Family \ {f} : groups'[g] = groups[g]
    BY <1>4, <1>7
  <2>4. groups' \in [Family -> BrowserGroup]
    <3>1. \A g \in Family : groups'[g] \in BrowserGroup
      BY <1>4, <2>2, <2>3
    <3> QED
      BY <1>4, <1>7, <3>1
  <2>5. TypeOK'
    <3>1. \A g \in Family : groups'[g].pids = groups[g].pids
      BY <2>2, <2>3
    <3> QED
      BY <1>1, <1>2, <1>3, <2>4, <3>1 DEF TypeOK, ShownAs
  <2>6. CountInv'
    <3>1. ASSUME NEW g \in Family
          PROVE  groups'[g].minimized_window_count
                     + groups'[g].visible_restored_window_count
                     + Cardinality(unscanned')
                   <= Count
      <4>1. groups[g].minimized_window_count \in Nat
            /\ groups[g].visible_restored_window_count \in Nat
        BY <1>4, CountIsNatural DEF BrowserGroup, Count
      <4>2. groups[g].minimized_window_count
                + groups[g].visible_restored_window_count
                + Cardinality(unscanned)
              <= Count
        BY <1>1, <1>2 DEF CountInv, Count
      <4>3. CASE g = f
        BY <1>5, <2>2, <4>1, <4>2, <4>3, CountIsNatural
      <4>4. CASE g # f
        BY <1>5, <2>3, <4>1, <4>2, <4>4, CountIsNatural
      <4> QED
        BY <4>3, <4>4
    <3> QED
      BY <1>1, <3>1 DEF CountInv, Count
  <2>7. ThroughoutInv'
    BY <1>1, <1>2 DEF ThroughoutInv, ShownAs
  <2>8. WindowsInv'
    <3>1. throughout'.foreground \subseteq foreground_window'
      BY <1>1, <1>2 DEF WindowsInv, Scanning
    <3>2. throughout.restored \subseteq Window
          /\ throughout.foreground \subseteq Window
      BY <1>2 DEF TypeOK, Desktop
    <3>3. ASSUME NEW v \in Window, Pending(v), v # w
          PROVE  Pending(v)'
      <4>1. FamilyOf[OwnerOf[v]] \in Family
        BY OwnerOfAssumption, FamilyOfAssumption
      <4> QED
        BY <1>1, <1>3, <2>2, <2>3, <3>3, <4>1 DEF Pending
    <3>4. ASSUME WindowsAreKnown, NEW v \in throughout.restored
          PROVE  \/ Pending(v)'
                 \/ groups'[FamilyOf[OwnerOf[v]]].visible_restored_window_count
                      > 0
      <4>1. FamilyOf[OwnerOf[v]] \in Family
        BY <3>2, OwnerOfAssumption, FamilyOfAssumption
      <4>2. CASE v = w
        BY <1>2, <2>2, <4>2 DEF ThroughoutInv, ShownAs
      <4>3. CASE v # w
        <5>1. \/ Pending(v)
              \/ groups[FamilyOf[OwnerOf[v]]].visible_restored_window_count > 0
          BY <1>1, <1>2, <3>4 DEF WindowsInv, Scanning
        <5>2. groups'[FamilyOf[OwnerOf[v]]].visible_restored_window_count
                >= groups[FamilyOf[OwnerOf[v]]].visible_restored_window_count
              \/ FamilyOf[OwnerOf[v]] # f
          BY <2>2
        <5>3. groups[FamilyOf[OwnerOf[v]]].visible_restored_window_count \in Nat
              /\ groups'[FamilyOf[OwnerOf[v]]].visible_restored_window_count
                   \in Nat
          BY <1>4, <2>4, <4>1, CountIsNatural DEF BrowserGroup, Count
        <5> QED
          BY <2>3, <3>2, <3>3, <4>1, <4>3, <5>1, <5>2, <5>3
      <4> QED
        BY <4>2, <4>3
    <3>5. ASSUME WindowsAreKnown, NEW v \in throughout.foreground
          PROVE  \/ Pending(v)'
                 \/ groups'[FamilyOf[OwnerOf[v]]].has_foreground_window
      <4>1. FamilyOf[OwnerOf[v]] \in Family
        BY <3>2, OwnerOfAssumption, FamilyOfAssumption
      <4>2. CASE v = w
        <5>1. w \in foreground_window /\ shown[w] = "restored"
          BY <1>1, <1>2, <4>2
             DEF WindowsInv, Scanning, ThroughoutInv, TypeOK, ShownAs
        <5> QED
          BY <2>2, <4>2, <5>1
      <4>3. CASE v # w
        <5>1. \/ Pending(v)
              \/ groups[FamilyOf[OwnerOf[v]]].has_foreground_window
          BY <1>1, <1>2, <3>5 DEF WindowsInv, Scanning
        <5> QED
          BY <2>2, <2>3, <3>2, <3>3, <4>1, <4>3, <5>1
      <4> QED
        BY <4>2, <4>3
    <3>6. ASSUME NEW g \in Family, WindowOf(g) \subseteq throughout.closed
          PROVE  Uncounted(groups[g])'
      <4>1. g # f
        BY <1>2, <1>4, <1>7, <3>6 DEF WindowOf, ThroughoutInv, ShownAs
      <4>2. Uncounted(groups[g])
        BY <1>1, <1>2, <3>6 DEF WindowsInv, Scanning
      <4> QED
        BY <2>3, <4>1, <4>2 DEF Uncounted
    <3> QED
      BY <1>1, <3>1, <3>4, <3>5, <3>6 DEF WindowsInv, WindowOf
  <2> QED
    BY <1>1, <2>5, <2>6, <2>7, <2>8 DEF ScanInv, AudioInv
<1> QED
  BY <1>3, <1>6, <1>7

LEMMA EnumerationKeeps ==
  ASSUME ScanInv, EnumWindowsReturns
  PROVE  ScanInv'
<1>1. /\ stage = "windows" /\ stage' = "audio"
      /\ unscanned' = {}
      /\ WindowsAreKnown => unscanned = {}
      /\ UNCHANGED <<running, shown, foreground, playing, groups,
                     foreground_window, throughout>>
  BY DEF EnumWindowsReturns, desktopVars, WindowsAreKnown
<1>2. TypeOK'
  BY <1>1 DEF ScanInv, TypeOK, ShownAs
<1>3. ThroughoutInv'
  BY <1>1 DEF ScanInv, ThroughoutInv, ShownAs
<1>4. WindowsInv'
  BY <1>1 DEF ScanInv, WindowsInv, Scanning, Pending, Uncounted, WindowOf
<1> QED
  BY <1>1, <1>2, <1>3, <1>4 DEF ScanInv, CountInv, AudioInv

LEMMA AudioKeeps ==
  ASSUME ScanInv, mark_audio_groups
  PROVE  ScanInv'
<1>1. /\ stage = "audio" /\ stage' = "decide"
      /\ UNCHANGED <<running, shown, foreground, playing, unscanned,
                     foreground_window, throughout>>
  BY DEF mark_audio_groups, desktopVars
<1>2. TypeOK /\ ThroughoutInv /\ WindowsInv
  BY DEF ScanInv
<1>3. PICK audio_pids \in IF "audio" \in ScanFaults THEN SUBSET playing
                                                    ELSE {playing} :
        groups' = [f \in Family |->
                     [groups[f] EXCEPT
                        !.has_audio = @ \/ groups[f].pids \cap audio_pids # {}]]
  BY DEF mark_audio_groups
<1>4. ASSUME NEW f \in Family
      PROVE  /\ groups'[f] \in BrowserGroup
             /\ groups'[f].pids = groups[f].pids
             /\ groups'[f].minimized_window_count
                  = groups[f].minimized_window_count
             /\ groups'[f].visible_restored_window_count
                  = groups[f].visible_restored_window_count
             /\ groups'[f].has_foreground_window
                  = groups[f].has_foreground_window
             /\ groups[f].pids \cap audio_pids # {} => groups'[f].has_audio
  <2> DEFINE heard == groups[f].has_audio
                        \/ groups[f].pids \cap audio_pids # {}
  <2>1. groups[f] \in BrowserGroup
    BY <1>2 DEF TypeOK
  <2>2. groups'[f] = [groups[f] EXCEPT !.has_audio = heard]
    BY <1>3
  <2>3. /\ heard \in BOOLEAN
        /\ groups[f].pids \cap audio_pids # {} => heard
    OBVIOUS
  <2> HIDE DEF heard
  <2>4. /\ groups'[f] \in BrowserGroup
        /\ groups'[f].pids = groups[f].pids
        /\ groups'[f].minimized_window_count
             = groups[f].minimized_window_count
        /\ groups'[f].visible_restored_window_count
             = groups[f].visible_restored_window_count
        /\ groups'[f].has_foreground_window
             = groups[f].has_foreground_window
        /\ groups'[f].has_audio = heard
    BY <2>1, <2>2, <2>3 DEF BrowserGroup
  <2>5. groups[f].pids \cap audio_pids # {} => groups'[f].has_audio
    BY <2>3, <2>4, Zenon
  <2> QED
    BY <2>4, <2>5
<1>5. groups' \in [Family -> BrowserGroup]
  BY <1>3, <1>4
<1>6. TypeOK'
  BY <1>1, <1>2, <1>4, <1>5 DEF TypeOK, ShownAs
<1>7. ThroughoutInv'
  BY <1>1, <1>2 DEF ThroughoutInv, ShownAs
<1>8. WindowsInv'
  <2>1. \A w \in throughout.restored \cup throughout.foreground :
          FamilyOf[OwnerOf[w]] \in Family
    BY <1>2, OwnerOfAssumption, FamilyOfAssumption DEF TypeOK, Desktop
  <2>2. \A w \in throughout.restored \cup throughout.foreground :
          Pending(w) => Pending(w)'
    BY <1>1, <1>4, <2>1 DEF Pending
  <2>3. \A f \in Family : Uncounted(groups[f]) => Uncounted(groups[f])'
    BY <1>4 DEF Uncounted
  <2> QED
    BY <1>1, <1>2, <1>4, <2>1, <2>2, <2>3 DEF WindowsInv, Scanning, WindowOf
<1>9. AudioInv'
  <2>1. "audio" \notin ScanFaults => audio_pids = playing
    OBVIOUS
  <2>2. throughout'.playing \subseteq playing
    BY <1>1, <1>2 DEF ThroughoutInv
  <2> QED
    BY <1>1, <1>4, <2>1, <2>2 DEF AudioInv
<1> QED
  BY <1>1, <1>6, <1>7, <1>8, <1>9 DEF ScanInv, CountInv

LEMMA NextPassKeeps ==
  ASSUME ScanInv, NextPass
  PROVE  ScanInv'
<1>1. /\ stage' = "collect" /\ groups' = NoGroups
      /\ UNCHANGED <<running, shown, foreground, playing, unscanned,
                     foreground_window, throughout>>
  BY DEF NextPass, desktopVars
<1>2. TypeOK'
  BY <1>1, NoGroupsTyped DEF ScanInv, TypeOK, ShownAs
<1>3. ThroughoutInv'
  BY <1>1 DEF ScanInv, ThroughoutInv, ShownAs
<1> QED
  BY <1>1, <1>2, <1>3, NoGroupsTyped
     DEF ScanInv, CountInv, WindowsInv, Scanning, AudioInv, Uncounted

LEMMA NothingMoves ==
  ASSUME ScanInv, UNCHANGED vars
  PROVE  ScanInv'
<1>1. UNCHANGED <<running, shown, foreground, playing, stage, groups,
                  unscanned, foreground_window, throughout>>
  BY DEF vars, desktopVars, scanVars
<1> QED
  BY <1>1 DEF ScanInv, TypeOK, CountInv, ThroughoutInv, WindowsInv, AudioInv,
              ShownAs, Scanning, Pending, Uncounted, WindowOf

LEMMA ScanStarts == Init => ScanInv
<1> SUFFICES ASSUME Init
             PROVE  ScanInv
  OBVIOUS
<1>1. throughout = DesktopNow /\ throughout \in Desktop
  BY DEF Init, DesktopNow, Desktop, ShownAs
<1>2. TypeOK
  BY <1>1, NoGroupsTyped DEF Init, TypeOK, ShownAs
<1>3. ThroughoutInv
  BY <1>1 DEF DesktopNow, ThroughoutInv
<1> QED
  BY <1>2, <1>3, NoGroupsTyped
     DEF Init, ScanInv, CountInv, WindowsInv, Scanning, AudioInv, Uncounted

LEMMA ScanInvHolds == Spec => []ScanInv
<1>1. Init => ScanInv
  BY ScanStarts
<1>2. ScanInv /\ [Next]_vars => ScanInv'
  BY DesktopKeeps, CollectKeeps, ForegroundKeeps, WindowKeeps,
     EnumerationKeeps, AudioKeeps, NextPassKeeps, NothingMoves
     DEF Next, PassStep
<1> QED
  BY <1>1, <1>2, PTL DEF Spec

-----------------------------------------------------------------------------
(* What is suspended, as the counts and flags of its group have it.        *)
LEMMA SuspendedGroup ==
  ASSUME ScanInv, NEW f \in Family, NEW policy \in Policies,
         Suspends(f, policy)
  PROVE  /\ stage = "decide"
         /\ groups[f].pids # {}
         /\ ~groups[f].has_foreground_window
         /\ ~groups[f].has_audio
         /\ policy = "minimized_only" =>
              /\ groups[f].minimized_window_count > 0
              /\ groups[f].visible_restored_window_count = 0
<1>1. groups[f] \in BrowserGroup
  BY DEF ScanInv, TypeOK
<1>2. /\ groups[f].minimized_window_count \in Nat
      /\ groups[f].visible_restored_window_count \in Nat
  BY <1>1, CountIsNatural DEF BrowserGroup, Count
<1> QED
  BY <1>2 DEF Suspends, evaluate_suspend_policy, Refuse, Suspend,
              browser_windows_are_minimized_only

(* The pass counts each window once and holds no more than fits, however   *)
(* many windows, processes and families there are.                         *)
THEOREM ScanIsTyped == Spec => []TypeOK
<1>1. ScanInv => TypeOK
  BY DEF ScanInv
<1> QED
  BY <1>1, ScanInvHolds, PTL

(* A window that stays restored protects its family, if the windows can be *)
(* enumerated and the executables behind them queried                      *)
(* (mark_foreground_groups, enum_windows_callback).                        *)
THEOREM RestoredIsProtected ==
  WindowsAreKnown => (Spec => []RestoredWindowProtects)
<1>1. SUFFICES ASSUME WindowsAreKnown
               PROVE  Spec => []RestoredWindowProtects
  OBVIOUS
<1>2. ScanInv => RestoredWindowProtects
  <2> SUFFICES ASSUME ScanInv, NEW f \in Family,
                      NEW w \in WindowOf(f) \cap throughout.restored,
                      Suspends(f, "minimized_only")
               PROVE  FALSE
    BY DEF RestoredWindowProtects
  <2>1. /\ stage = "decide" /\ groups[f].pids # {}
        /\ groups[f].visible_restored_window_count = 0
    BY SuspendedGroup DEF Policies
  <2>2. FamilyOf[OwnerOf[w]] = f
    BY DEF WindowOf
  <2> QED
    BY <1>1, <2>1, <2>2 DEF ScanInv, WindowsInv, Scanning, Pending
<1> QED
  BY <1>2, ScanInvHolds, PTL

(* A window that stays in the foreground protects its family under either  *)
(* policy, on the same condition.                                          *)
THEOREM ForegroundIsProtected ==
  WindowsAreKnown => (Spec => []ForegroundProtects)
<1>1. SUFFICES ASSUME WindowsAreKnown
               PROVE  Spec => []ForegroundProtects
  OBVIOUS
<1>2. ScanInv => ForegroundProtects
  <2> SUFFICES ASSUME ScanInv, NEW f \in Family, NEW policy \in Policies,
                      NEW w \in WindowOf(f) \cap throughout.foreground,
                      Suspends(f, policy)
               PROVE  FALSE
    BY DEF ForegroundProtects
  <2>1. /\ stage = "decide" /\ groups[f].pids # {}
        /\ ~groups[f].has_foreground_window
    BY SuspendedGroup
  <2>2. FamilyOf[OwnerOf[w]] = f
    BY DEF WindowOf
  <2> QED
    BY <1>1, <2>1, <2>2 DEF ScanInv, WindowsInv, Scanning, Pending
<1> QED
  BY <1>2, ScanInvHolds, PTL

(* A collected process that plays throughout on the default output device  *)
(* protects its family, if the audio sessions there can be inspected       *)
(* (collect_active_audio_pids, mark_audio_groups).                         *)
THEOREM AudioIsProtected ==
  "audio" \notin ScanFaults => (Spec => []AudioProtects)
<1>1. SUFFICES ASSUME "audio" \notin ScanFaults
               PROVE  Spec => []AudioProtects
  OBVIOUS
<1>2. ScanInv => AudioProtects
  <2> SUFFICES ASSUME ScanInv, NEW f \in Family, NEW policy \in Policies,
                      groups[f].pids \cap throughout.playing # {},
                      Suspends(f, policy)
               PROVE  FALSE
    BY DEF AudioProtects
  <2>1. stage = "decide" /\ ~groups[f].has_audio
    BY SuspendedGroup
  <2> QED
    BY <1>1, <2>1 DEF ScanInv, AudioInv
<1> QED
  BY <1>2, ScanInvHolds, PTL

(* A family without a window throughout is left alone by minimized-only,   *)
(* whatever fails.                                                         *)
THEOREM WindowlessIsSafe == Spec => []WindowlessIsLeftAlone
<1>1. ScanInv => WindowlessIsLeftAlone
  <2> SUFFICES ASSUME ScanInv, NEW f \in Family,
                      WindowOf(f) \subseteq throughout.closed,
                      Suspends(f, "minimized_only")
               PROVE  FALSE
    BY DEF WindowlessIsLeftAlone
  <2>1. stage = "decide" /\ groups[f].minimized_window_count > 0
    BY SuspendedGroup DEF Policies
  <2>2. Uncounted(groups[f])
    BY <2>1 DEF ScanInv, WindowsInv, Scanning
  <2> QED
    BY <2>1, <2>2 DEF Uncounted
<1> QED
  BY <1>1, ScanInvHolds, PTL
=============================================================================
