------------------------- MODULE GuardProgram_proof -------------------------
(***************************************************************************)
(* What the command line makes of the configuration and what the policy    *)
(* decides, for every set of command lines and any number of windows.      *)
(***************************************************************************)
EXTENDS GuardProgram, SequenceTheorems, TLAPS

(* The decision about one process, whatever was observed.                  *)
LEMMA DecisionOfAnyInput ==
  ASSUME NEW i \in SuspendPolicyInput(Nat)
  PROVE  LET d == evaluate_suspend_policy(i)
         IN  /\ d \in SuspendDecision
             /\ d.should_suspend
                  <=> \A reason \in Reasons : ~Protects(reason, i)
             /\ ~d.should_suspend => /\ d.reason # "eligible"
                                     /\ Protects(d.reason, i)
             /\ d.should_suspend => d.reason = "eligible"
<1>1. /\ i.policy \in Policies
      /\ i.minimized_window_count \in Nat
      /\ i.visible_restored_window_count \in Nat
      /\ i.has_foreground_window \in BOOLEAN
      /\ i.has_audio \in BOOLEAN
      /\ i.suspend_disabled \in BOOLEAN
      /\ i.manual_resume_grace_elapsed \in BOOLEAN
      /\ i.background_grace_elapsed \in BOOLEAN
  BY DEF SuspendPolicyInput
<1> QED
  BY <1>1
     DEF evaluate_suspend_policy, browser_windows_are_minimized_only, Protects,
         Refuse, Suspend, SuspendDecision, Reasons, Policies

-----------------------------------------------------------------------------
(* The command line.                                                       *)

Fields == NumberOption \cup Flag \cup {"suspend_policy"}

AppConfigOK ==
  /\ DOMAIN config = Fields
  /\ config = [field \in Fields |-> config[field]]
  /\ config.suspend_policy \in Policies
  /\ \A flag \in Flag : config[flag] \in BOOLEAN

(* The loop has read the arguments before n, and they make sense.          *)
Before(n, options) == {j \in At(options) : j < n}

ReadWell(n) ==
  /\ Before(n, {"other"}) = {}
  /\ \A j \in Before(n, NumberOption) :
       /\ j + 1 \in Before(n, {"number"})
       /\ strtoul(argv[j + 1])
            \in Limits[argv[j].word].least .. Limits[argv[j].word].most
  /\ \A j \in Before(n, {"number"}) : j - 1 \in At(NumberOption)

AskedBefore(n) ==
  /\ \A option \in NumberOption :
       \/ /\ Before(n, {option}) = {}
          /\ config[option] = init_app_config[option]
       \/ \E j \in Before(n, {option}) :
            /\ \A k \in Before(n, {option}) : k <= j
            /\ config[option] = strtoul(argv[j + 1])
  /\ config.suspend_policy = "all_background"
       <=> \E j \in Before(n, {"aggressive_suspend"}) :
             \A k \in Before(n, PolicyOption) : k <= j
  /\ \A flag \in Flag :
       config[flag] <=> \E option \in FlagOption :
                          /\ flag \in FlagsOf(option)
                          /\ Before(n, {option}) # {}

ParseInv ==
  /\ argv \in Seq(Argument)
  /\ next \in 1 .. Len(argv) + 1
  /\ AppConfigOK
  /\ parse \in {"parsing", "accepted", "rejected", "running"}
  /\ ReadWell(next)
  /\ AskedBefore(next)
  /\ parse \in {"accepted", "running"} => next = Len(argv) + 1
  /\ parse = "rejected" /\ WellFormed =>
       /\ next = Len(argv) + 1
       /\ ~config.trim_working_set
       /\ config.trim_interval_ms # 5000

ProgramInv ==
  /\ ParseInv
  /\ input \in Inputs
  /\ decision = evaluate_suspend_policy(input)
  /\ parse = "running" => input.policy = config.suspend_policy
  /\ parse # "running" => input = NothingObserved("minimized_only")

LEMMA StrtoulIsNatural ==
  ASSUME NEW a \in Argument
  PROVE  strtoul(a) \in Nat
  BY UlongAssumption DEF strtoul, Argument

(* One argument more has been read.                                        *)
LEMMA BeforeNext ==
  ASSUME argv \in Seq(Argument), NEW n \in 1 .. Len(argv), NEW options
  PROVE  Before(n + 1, options)
           = IF argv[n].word \in options THEN Before(n, options) \cup {n}
                                         ELSE Before(n, options)
  BY DEF Before, At

LEMMA KindsOfArgument ==
  ASSUME argv \in Seq(Argument), NEW n \in 1 .. Len(argv)
  PROVE  argv[n] \in Argument /\ argv[n].word \in Word
<1>1. argv[n] \in Argument
  OBVIOUS
<1> QED
  BY <1>1 DEF Argument

(* What a step that reads one argument, not a number, leaves to show.      *)
LEMMA ReadsOne ==
  ASSUME ParseInv, Parsing, argv[next].word \in FlagOption \cup PolicyOption,
         UNCHANGED argv, next' = next + 1
  PROVE  /\ next' \in 1 .. Len(argv) + 1
         /\ ReadWell(next)'
         /\ \A options :
              Before(next, options)'
                = IF argv[next].word \in options
                  THEN Before(next, options) \cup {next}
                  ELSE Before(next, options)
<1>1. next \in 1 .. Len(argv) /\ argv \in Seq(Argument) /\ ReadWell(next)
  BY DEF ParseInv, Parsing
<1>2. ASSUME NEW options
      PROVE  Before(next, options)'
               = IF argv[next].word \in options
                 THEN Before(next, options) \cup {next}
                 ELSE Before(next, options)
  <2>1. Before(next, options)' = Before(next + 1, options)
    BY DEF Before, At
  <2> QED
    BY <1>1, <2>1, BeforeNext
<1>3. /\ Before(next, {"other"})' = Before(next, {"other"})
      /\ Before(next, NumberOption)' = Before(next, NumberOption)
      /\ Before(next, {"number"})' = Before(next, {"number"})
  BY <1>2 DEF NumberOption, FlagOption, Flag, PolicyOption
<1>4. ReadWell(next)'
  <2>1. At(NumberOption)' = At(NumberOption)
    BY DEF At
  <2> QED
    BY <1>1, <1>3, <2>1 DEF ReadWell, strtoul
<1>5. next' \in 1 .. Len(argv) + 1
  BY <1>1
<1> QED
  BY <1>2, <1>4, <1>5, Zenon

LEMMA FlagIsRead ==
  ASSUME ParseInv, ParseFlag
  PROVE  ParseInv'
<1> DEFINE w == argv[next].word
<1>1. /\ w \in FlagOption
      /\ Parsing
      /\ config' = [field \in DOMAIN config |->
                      IF field \in FlagsOf(w) THEN TRUE ELSE config[field]]
      /\ next' = next + 1
      /\ argv' = argv
      /\ parse' = "parsing"
  BY DEF ParseFlag, Parsing
<1>2. FlagsOf(w) \subseteq Flag
  BY <1>1 DEF FlagsOf, Flag, FlagOption
<1>3. AppConfigOK /\ AskedBefore(next) /\ argv \in Seq(Argument)
  BY DEF ParseInv
<1>4. /\ next' \in 1 .. Len(argv) + 1
      /\ ReadWell(next)'
      /\ \A options : Before(next, options)'
           = IF w \in options THEN Before(next, options) \cup {next}
                              ELSE Before(next, options)
  BY <1>1, ReadsOne
<1>5. \A field \in Fields :
        config'[field] = IF field \in FlagsOf(w) THEN TRUE ELSE config[field]
  BY <1>1, <1>3 DEF AppConfigOK
<1>6. /\ \A field \in NumberOption : config'[field] = config[field]
      /\ config'.suspend_policy = config.suspend_policy
  BY <1>2, <1>5 DEF Fields, NumberOption, Flag
<1>7. AppConfigOK'
  BY <1>1, <1>3, <1>5, <1>6 DEF AppConfigOK, Fields
<1>8. AskedBefore(next)'
  <2>1. \A option \in NumberOption :
          Before(next, {option})' = Before(next, {option})
    BY <1>1, <1>4 DEF NumberOption, FlagOption, Flag
  <2>2. /\ Before(next, {"aggressive_suspend"})'
             = Before(next, {"aggressive_suspend"})
        /\ Before(next, PolicyOption)' = Before(next, PolicyOption)
    BY <1>1, <1>4 DEF PolicyOption, FlagOption, Flag
  <2>3. ASSUME NEW flag \in Flag
        PROVE  config'[flag] <=> \E option \in FlagOption :
                                   /\ flag \in FlagsOf(option)
                                   /\ Before(next, {option})' # {}
    <3>1. config'[flag] <=> flag \in FlagsOf(w) \/ config[flag]
      BY <1>5, Zenon DEF Fields
    <3>2. config[flag] <=> \E option \in FlagOption :
                             /\ flag \in FlagsOf(option)
                             /\ Before(next, {option}) # {}
      BY <1>3 DEF AskedBefore
    <3>3. \A option \in FlagOption :
            Before(next, {option})' # {}
              <=> option = w \/ Before(next, {option}) # {}
      BY <1>4
    <3> QED
      BY <1>1, <3>1, <3>2, <3>3
  <2>4. \A j \in Nat : strtoul(argv[j + 1])' = strtoul(argv[j + 1])
    BY <1>1 DEF strtoul
  <2>5. \A option \in NumberOption :
          \/ /\ Before(next, {option})' = {}
             /\ config'[option] = init_app_config[option]
          \/ \E j \in Before(next, {option})' :
               /\ \A k \in Before(next, {option})' : k <= j
               /\ config'[option] = strtoul(argv'[j + 1])
    BY <1>1, <1>3, <1>6, <2>1 DEF AskedBefore
  <2>6. config'.suspend_policy = "all_background"
          <=> \E j \in Before(next, {"aggressive_suspend"})' :
                \A k \in Before(next, PolicyOption)' : k <= j
    BY <1>3, <1>6, <2>2 DEF AskedBefore
  <2> QED
    BY <2>3, <2>5, <2>6 DEF AskedBefore, FlagsOf, strtoul
<1> QED
  BY <1>1, <1>3, <1>4, <1>7, <1>8 DEF ParseInv

LEMMA PolicyIsRead ==
  ASSUME ParseInv, ParsePolicy
  PROVE  ParseInv'
<1> DEFINE w == argv[next].word
<1> DEFINE policy == IF w = "minimized_only" THEN "minimized_only"
                                             ELSE "all_background"
<1>1. /\ w \in PolicyOption
      /\ Parsing
      /\ config' = [config EXCEPT !.suspend_policy = policy]
      /\ next' = next + 1
      /\ argv' = argv
      /\ parse' = "parsing"
  BY DEF ParsePolicy, Parsing
<1>2. AppConfigOK /\ AskedBefore(next) /\ argv \in Seq(Argument)
      /\ next \in 1 .. Len(argv)
  BY <1>1 DEF ParseInv, Parsing
<1>3. /\ next' \in 1 .. Len(argv) + 1
      /\ ReadWell(next)'
      /\ \A options : Before(next, options)'
           = IF w \in options THEN Before(next, options) \cup {next}
                              ELSE Before(next, options)
  BY <1>1, ReadsOne
<1>4. /\ \A field \in NumberOption \cup Flag : config'[field] = config[field]
      /\ config'.suspend_policy = policy
  BY <1>1, <1>2 DEF AppConfigOK, Fields, NumberOption, Flag
<1>5. AppConfigOK'
  <2>1. /\ DOMAIN config' = Fields
        /\ config' = [field \in Fields |-> config'[field]]
    BY <1>1, <1>2 DEF AppConfigOK
  <2> QED
    BY <1>2, <1>4, <2>1 DEF AppConfigOK, Policies
<1>6. AskedBefore(next)'
  <2>1. \A option \in NumberOption \cup FlagOption :
          Before(next, {option})' = Before(next, {option})
    BY <1>1, <1>3 DEF PolicyOption, NumberOption, FlagOption, Flag
  <2>2. \A option \in NumberOption :
          \/ /\ Before(next, {option})' = {}
             /\ config'[option] = init_app_config[option]
          \/ \E j \in Before(next, {option})' :
               /\ \A k \in Before(next, {option})' : k <= j
               /\ config'[option] = strtoul(argv'[j + 1])
    BY <1>1, <1>2, <1>4, <2>1 DEF AskedBefore
  <2>3. \A flag \in Flag :
          config'[flag] <=> \E option \in FlagOption :
                              /\ flag \in FlagsOf(option)
                              /\ Before(next, {option})' # {}
    BY <1>2, <1>4, <2>1 DEF AskedBefore
  <2>4. config'.suspend_policy = "all_background"
          <=> \E j \in Before(next, {"aggressive_suspend"})' :
                \A k \in Before(next, PolicyOption)' : k <= j
    <3>1. Before(next, PolicyOption)' = Before(next, PolicyOption) \cup {next}
      BY <1>1, <1>3
    <3>2. \A j \in Before(next, PolicyOption) : j \in Nat /\ j < next
      BY <1>2 DEF Before, At
    <3>3. CASE w = "aggressive_suspend"
      <4>1. next \in Before(next, {"aggressive_suspend"})'
        BY <1>3, <3>3
      <4> QED
        BY <1>2, <1>4, <3>1, <3>2, <3>3, <4>1
    <3>4. CASE w = "minimized_only"
      <4>1. Before(next, {"aggressive_suspend"})'
              = Before(next, {"aggressive_suspend"})
        BY <1>3, <3>4
      <4>2. \A j \in Before(next, {"aggressive_suspend"}) : ~(next <= j)
        BY <1>2 DEF Before, At
      <4> QED
        BY <1>4, <3>1, <3>4, <4>1, <4>2
    <3> QED
      BY <1>1, <3>3, <3>4 DEF PolicyOption
  <2> QED
    BY <2>2, <2>3, <2>4 DEF AskedBefore, FlagsOf, strtoul
<1> QED
  BY <1>1, <1>2, <1>3, <1>5, <1>6 DEF ParseInv

LEMMA NumberIsRead ==
  ASSUME ParseInv, ParseNumber
  PROVE  ParseInv'
<1> DEFINE w == argv[next].word
<1>1. /\ w \in NumberOption
      /\ Parsing
      /\ next + 1 <= Len(argv)
      /\ parse_dword_arg(argv[next + 1], Limits[w])
      /\ config' = [config EXCEPT ![w] = strtoul(argv[next + 1])]
      /\ next' = next + 2
      /\ argv' = argv
      /\ parse' = "parsing"
  BY DEF ParseNumber, Parsing
<1>2. AppConfigOK /\ AskedBefore(next) /\ ReadWell(next)
      /\ argv \in Seq(Argument)
      /\ next \in 1 .. Len(argv) /\ next + 1 \in 1 .. Len(argv)
  BY <1>1 DEF ParseInv, Parsing
<1>3. argv[next + 1].word = "number"
  BY <1>1 DEF parse_dword_arg
<1>4. \A options :
        /\ w \notin options /\ "number" \notin options
             => Before(next, options)' = Before(next, options)
        /\ w \in options /\ "number" \notin options
             => Before(next, options)' = Before(next, options) \cup {next}
        /\ w \notin options /\ "number" \in options
             => Before(next, options)' = Before(next, options) \cup {next + 1}
  <2>1. ASSUME NEW options
        PROVE  /\ w \notin options /\ "number" \notin options
                    => Before(next, options)' = Before(next, options)
               /\ w \in options /\ "number" \notin options
                    => Before(next, options)'
                         = Before(next, options) \cup {next}
               /\ w \notin options /\ "number" \in options
                    => Before(next, options)'
                         = Before(next, options) \cup {next + 1}
    BY <1>1, <1>2, <1>3 DEF Before, At
  <2> QED
    BY <2>1, Zenon
<1>5. /\ Before(next, {"other"})' = Before(next, {"other"})
      /\ Before(next, NumberOption)' = Before(next, NumberOption) \cup {next}
      /\ Before(next, {"number"})' = Before(next, {"number"}) \cup {next + 1}
      /\ Before(next, {"aggressive_suspend"})'
           = Before(next, {"aggressive_suspend"})
      /\ Before(next, PolicyOption)' = Before(next, PolicyOption)
      /\ \A option \in FlagOption :
           Before(next, {option})' = Before(next, {option})
      /\ \A option \in NumberOption :
           Before(next, {option})' = IF option = w
                                     THEN Before(next, {option}) \cup {next}
                                     ELSE Before(next, {option})
  <2>1. /\ w \notin {"other"} /\ w \notin {"number"}
        /\ w \notin {"aggressive_suspend"}
        /\ "number" \notin {"other"}
        /\ "number" \notin {"aggressive_suspend"}
        /\ w \notin PolicyOption /\ "number" \notin PolicyOption
        /\ "number" \notin NumberOption
    BY <1>1 DEF NumberOption, PolicyOption
  <2>2. /\ Before(next, {"other"})' = Before(next, {"other"})
        /\ Before(next, {"aggressive_suspend"})'
             = Before(next, {"aggressive_suspend"})
        /\ Before(next, PolicyOption)' = Before(next, PolicyOption)
    BY <1>4, <2>1, Zenon
  <2>3. /\ Before(next, NumberOption)' = Before(next, NumberOption) \cup {next}
        /\ Before(next, {"number"})' = Before(next, {"number"}) \cup {next + 1}
    BY <1>1, <1>4, <2>1
  <2>4. ASSUME NEW option \in FlagOption
        PROVE  Before(next, {option})' = Before(next, {option})
    <3>1. w \notin {option} /\ "number" \notin {option}
      BY <1>1 DEF NumberOption, FlagOption, Flag
    <3> QED
      BY <1>4, <3>1, Zenon
  <2>5. ASSUME NEW option \in NumberOption
        PROVE  Before(next, {option})' = IF option = w
                                         THEN Before(next, {option}) \cup {next}
                                         ELSE Before(next, {option})
    <3>1. "number" \notin {option}
      BY <2>1
    <3>2. CASE option = w
      BY <1>4, <3>1, <3>2
    <3>3. CASE option # w
      <4>1. w \notin {option}
        BY <3>3
      <4> QED
        BY <1>4, <3>1, <3>3, <4>1, Zenon
    <3> QED
      BY <3>2, <3>3
  <2> QED
    BY <2>2, <2>3, <2>4, <2>5
<1>6. /\ \A field \in (Flag \cup NumberOption) \ {w} :
           config'[field] = config[field]
      /\ config'[w] = strtoul(argv[next + 1])
      /\ config'.suspend_policy = config.suspend_policy
  BY <1>1, <1>2 DEF AppConfigOK, Fields, NumberOption, Flag
<1>7. AppConfigOK'
  <2>1. /\ DOMAIN config' = Fields
        /\ config' = [field \in Fields |-> config'[field]]
    BY <1>1, <1>2 DEF AppConfigOK
  <2> QED
    BY <1>1, <1>2, <1>6, <2>1 DEF AppConfigOK, Flag, NumberOption
<1>8. ReadWell(next)'
  <2>1. strtoul(argv[next + 1]) \in Limits[w].least .. Limits[w].most
    <3>1. Limits[w].least \in Nat /\ Limits[w].most \in Nat
      BY <1>1 DEF Limits, NumberOption
    <3>2. strtoul(argv[next + 1]) \in Nat
      BY <1>2, StrtoulIsNatural
    <3> QED
      BY <1>1, <3>1, <3>2 DEF parse_dword_arg
  <2>2. /\ At(NumberOption)' = At(NumberOption)
        /\ next \in At(NumberOption)
    BY <1>1, <1>2 DEF At
  <2>3. Before(next, {"other"})' = {}
    BY <1>2, <1>5 DEF ReadWell
  <2>4. ASSUME NEW j \in Before(next, NumberOption)'
        PROVE  /\ j + 1 \in Before(next, {"number"})'
               /\ strtoul(argv'[j + 1])
                    \in Limits[argv'[j].word].least
                          .. Limits[argv'[j].word].most
    BY <1>1, <1>2, <1>5, <2>1, <2>4 DEF ReadWell
  <2>5. ASSUME NEW j \in Before(next, {"number"})'
        PROVE  j - 1 \in At(NumberOption)'
    <3>1. CASE j = next + 1
      BY <1>2, <2>2, <3>1
    <3>2. CASE j # next + 1
      BY <1>2, <1>5, <2>2, <2>5, <3>2 DEF ReadWell
    <3> QED
      BY <3>1, <3>2
  <2> QED
    BY <2>3, <2>4, <2>5 DEF ReadWell, strtoul
<1>9. AskedBefore(next)'
  <2>1. ASSUME NEW option \in NumberOption
        PROVE  \/ /\ Before(next, {option})' = {}
                  /\ config'[option] = init_app_config[option]
               \/ \E j \in Before(next, {option})' :
                    /\ \A k \in Before(next, {option})' : k <= j
                    /\ config'[option] = strtoul(argv'[j + 1])
    <3>1. CASE option = w
      <4>1. Before(next, {option})' = Before(next, {option}) \cup {next}
        BY <1>5, <3>1
      <4>2. \A k \in Before(next, {option}) : k \in Nat /\ k < next
        BY <1>2 DEF Before, At
      <4>3. config'[option] = strtoul(argv'[next + 1])
        BY <1>1, <1>6, <3>1
      <4>4. next \in Before(next, {option})'
        BY <4>1
      <4>5. ASSUME NEW k \in Before(next, {option})'
            PROVE  k <= next
        <5>1. k \in 1 .. Len(argv) /\ k < next + 2 /\ k # next + 1
          BY <1>1, <1>3, <4>5 DEF Before, At, NumberOption
        <5> QED
          BY <1>2, <5>1
      <4> HIDE DEF w
      <4> QED
        BY <4>3, <4>4, <4>5
    <3>2. CASE option # w
      <4>1. Before(next, {option})' = Before(next, {option})
        BY <1>5, <3>2
      <4>2. config'[option] = config[option]
        BY <1>6, <3>2
      <4> QED
        BY <1>1, <1>2, <4>1, <4>2 DEF AskedBefore
    <3> QED
      BY <3>1, <3>2
  <2>2. config'.suspend_policy = "all_background"
          <=> \E j \in Before(next, {"aggressive_suspend"})' :
                \A k \in Before(next, PolicyOption)' : k <= j
    BY <1>2, <1>5, <1>6 DEF AskedBefore
  <2>3. \A flag \in Flag :
          config'[flag] <=> \E option \in FlagOption :
                              /\ flag \in FlagsOf(option)
                              /\ Before(next, {option})' # {}
    <3>1. \A flag \in Flag : config'[flag] = config[flag]
      BY <1>1, <1>6 DEF Flag, NumberOption
    <3>2. \A option \in FlagOption :
            Before(next, {option})' = Before(next, {option})
      BY <1>5
    <3> QED
      BY <1>2, <3>1, <3>2 DEF AskedBefore
  <2> QED
    BY <2>1, <2>2, <2>3 DEF AskedBefore, FlagsOf, strtoul
<1> QED
  BY <1>1, <1>2, <1>7, <1>8, <1>9 DEF ParseInv

LEMMA NothingIsRead ==
  ASSUME UNCHANGED <<argv, next, config>>
  PROVE  /\ AppConfigOK' <=> AppConfigOK
         /\ ReadWell(next)' <=> ReadWell(next)
         /\ AskedBefore(next)' <=> AskedBefore(next)
         /\ WellFormed' <=> WellFormed
<1>1. AppConfigOK' <=> AppConfigOK
  BY DEF AppConfigOK
<1>2. \A options : /\ Before(next, options)' = Before(next, options)
                   /\ At(options)' = At(options)
  BY DEF Before, At
<1>3. ReadWell(next)' <=> ReadWell(next)
  BY <1>2 DEF ReadWell, Limits, strtoul
<1>4. AskedBefore(next)' <=> AskedBefore(next)
  BY DEF AskedBefore, Before, At, strtoul, FlagsOf, init_app_config,
         NumberOption, PolicyOption, FlagOption, Flag
<1>5. WellFormed' <=> WellFormed
  BY <1>2 DEF WellFormed, Limits, strtoul
<1> QED
  BY <1>1, <1>3, <1>4, <1>5

(* A line that makes the loop fail does not make sense.                    *)
LEMMA FailureIsDeserved ==
  ASSUME ParseInv, ParseFails
  PROVE  ParseInv' /\ ~WellFormed
<1> DEFINE w == argv[next].word
<1>1. /\ UNCHANGED <<argv, next, config>>
      /\ parse' = "rejected"
      /\ Parsing
      /\ \/ /\ w \in NumberOption
            /\ ~(/\ next + 1 <= Len(argv)
                 /\ parse_dword_arg(argv[next + 1], Limits[w]))
         \/ w \in {"number", "other"}
  BY DEF ParseFails
<1>2. argv \in Seq(Argument) /\ next \in 1 .. Len(argv) /\ ReadWell(next)
  BY <1>1 DEF ParseInv, Parsing
<1>3. ~WellFormed
  <2>1. CASE w = "other"
    BY <1>2, <2>1 DEF WellFormed, At
  <2>2. CASE w = "number"
    <3>1. next - 1 \notin At(NumberOption)
      <4> SUFFICES ASSUME next - 1 \in At(NumberOption)
                   PROVE  FALSE
        OBVIOUS
      <4>1. next - 1 \in Before(next, NumberOption)
        BY <1>2 DEF Before, At
      <4>2. (next - 1) + 1 \in Before(next, {"number"})
        BY <1>2, <4>1 DEF ReadWell
      <4> QED
        BY <1>2, <4>2 DEF Before
    <3>2. next \in At({"number"})
      BY <1>2, <2>2 DEF At
    <3> QED
      BY <3>1, <3>2 DEF WellFormed
  <2>3. CASE w \in NumberOption
    <3> SUFFICES ASSUME WellFormed
                 PROVE  FALSE
      OBVIOUS
    <3>1. next \in At(NumberOption)
      BY <1>2, <2>3 DEF At
    <3>2. /\ next + 1 \in At({"number"})
          /\ strtoul(argv[next + 1]) \in Limits[w].least .. Limits[w].most
      BY <3>1 DEF WellFormed
    <3>3. /\ next + 1 <= Len(argv)
          /\ argv[next + 1].word = "number"
      BY <1>2, <3>2 DEF At
    <3>4. ~parse_dword_arg(argv[next + 1], Limits[w])
      BY <1>1, <2>3, <3>3 DEF NumberOption
    <3> QED
      BY <3>2, <3>3, <3>4 DEF parse_dword_arg
  <2> QED
    BY <1>1, <2>1, <2>2, <2>3
<1>4. ParseInv'
  BY <1>1, <1>3, NothingIsRead DEF ParseInv
<1> QED
  BY <1>3, <1>4

LEMMA EndIsRight ==
  ASSUME ParseInv, ParseEnds
  PROVE  ParseInv'
<1>1. /\ UNCHANGED <<argv, next, config>>
      /\ parse = "parsing" /\ next > Len(argv)
      /\ parse' = IF ~config.trim_working_set /\ config.trim_interval_ms # 5000
                  THEN "rejected"
                  ELSE "accepted"
  BY DEF ParseEnds
<1>2. next = Len(argv) + 1
  BY <1>1 DEF ParseInv
<1>3. /\ parse' \in {"accepted", "rejected"}
      /\ parse' = "rejected" => /\ ~config.trim_working_set
                                /\ config.trim_interval_ms # 5000
  BY <1>1
<1> QED
  BY <1>1, <1>2, <1>3, NothingIsRead DEF ParseInv

-----------------------------------------------------------------------------
(* The program.                                                            *)

LEMMA Observing == NothingObserved("minimized_only") \in Inputs
  BY MaxWindowsAssumption
     DEF NothingObserved, Inputs, SuspendPolicyInput, Policies

LEMMA ProgramStarts == ProgramInit => ProgramInv
<1> SUFFICES ASSUME ProgramInit
             PROVE  ProgramInv
  OBVIOUS
<1>1. /\ argv \in Seq(Argument) /\ next = 1 /\ parse = "parsing"
      /\ config = init_app_config
      /\ input = NothingObserved("minimized_only")
      /\ decision = evaluate_suspend_policy(input)
  BY CommandLineAssumption DEF ProgramInit, ConfigInit
<1>2. \A options : Before(next, options) = {}
  BY <1>1 DEF Before, At
<1>3. AppConfigOK
  BY <1>1 DEF AppConfigOK, Fields, NumberOption, Flag, Policies,
              init_app_config
<1>4. ReadWell(next)
  BY <1>2 DEF ReadWell
<1>5. AskedBefore(next)
  <2>1. \A option \in NumberOption :
          /\ Before(next, {option}) = {}
          /\ config[option] = init_app_config[option]
    BY <1>1, <1>2
  <2>2. config.suspend_policy = "minimized_only"
    BY <1>1 DEF init_app_config
  <2>3. Before(next, {"aggressive_suspend"}) = {}
    BY <1>2
  <2>4. \A flag \in Flag : ~config[flag]
    BY <1>1 DEF init_app_config, Flag
  <2>5. \A option : Before(next, {option}) = {}
    BY <1>2
  <2> QED
    BY <2>1, <2>2, <2>3, <2>4, <2>5 DEF AskedBefore
<1>6. next \in 1 .. Len(argv) + 1
  BY <1>1
<1> QED
  BY <1>1, <1>3, <1>4, <1>5, <1>6, Observing DEF ProgramInv, ParseInv

(* The guard starts, or a step of the parser.                              *)
LEMMA PassKeepsParsing ==
  ASSUME ParseInv, UNCHANGED <<argv, next, config>>,
         \/ parse = "accepted" /\ parse' = "running"
         \/ parse' = parse
  PROVE  ParseInv'
  BY NothingIsRead DEF ParseInv

LEMMA ObservationsKeepPolicy ==
  ASSUME input \in Inputs, Next
  PROVE  /\ input' \in Inputs
         /\ input'.policy = input.policy
         /\ decision' = evaluate_suspend_policy(input')
<1>1. CASE WindowsChange
  BY <1>1 DEF WindowsChange, Pass, Inputs, SuspendPolicyInput
<1>2. CASE ActivityChanges
  BY <1>2 DEF ActivityChanges, Pass, Inputs, SuspendPolicyInput
<1>3. CASE GraceChanges
  BY <1>3 DEF GraceChanges, Pass, Inputs, SuspendPolicyInput
<1>4. CASE DisabledChanges
  BY <1>4 DEF DisabledChanges, Pass, Inputs, SuspendPolicyInput
<1> QED
  BY <1>1, <1>2, <1>3, <1>4 DEF Next

LEMMA ProgramSteps == ProgramInv /\ [ProgramNext]_programVars => ProgramInv'
<1> SUFFICES ASSUME ProgramInv, [ProgramNext]_programVars
             PROVE  ProgramInv'
  OBVIOUS
<1>1. /\ ParseInv
      /\ input \in Inputs
      /\ decision = evaluate_suspend_policy(input)
      /\ parse = "running" => input.policy = config.suspend_policy
      /\ parse # "running" => input = NothingObserved("minimized_only")
  BY DEF ProgramInv
<1>2. CASE parse_app_config /\ UNCHANGED passVars
  <2>1. ParseInv'
    BY <1>1, <1>2, FlagIsRead, PolicyIsRead, NumberIsRead, FailureIsDeserved,
       EndIsRight DEF parse_app_config
  <2>2. parse = "parsing" /\ parse' # "running"
    <3>1. ParseFlag \/ ParsePolicy \/ ParseNumber
            => parse = "parsing" /\ parse' = parse
      BY DEF ParseFlag, ParsePolicy, ParseNumber, Parsing
    <3>2. ParseFails => parse = "parsing" /\ parse' = "rejected"
      BY DEF ParseFails, Parsing
    <3>3. ParseEnds
            => parse = "parsing" /\ parse' \in {"accepted", "rejected"}
      BY DEF ParseEnds
    <3> QED
      BY <1>2, <3>1, <3>2, <3>3 DEF parse_app_config
  <2>3. /\ input' = input
        /\ decision' = decision
    BY <1>2 DEF passVars
  <2>4. decision' = evaluate_suspend_policy(input')
    BY <1>1, <2>3
  <2>5. input' = NothingObserved("minimized_only")
    BY <1>1, <2>2, <2>3
  <2> QED
    BY <1>1, <2>1, <2>2, <2>3, <2>4, <2>5 DEF ProgramInv, NothingObserved
<1>3. CASE run_browser_guard
  <2>1. /\ parse = "accepted" /\ parse' = "running"
        /\ UNCHANGED <<argv, next, config>>
        /\ input' = NothingObserved(config.suspend_policy)
        /\ decision' = evaluate_suspend_policy(input')
    BY <1>3 DEF run_browser_guard, Pass
  <2>2. ParseInv'
    BY <1>1, <2>1, PassKeepsParsing
  <2>3. config.suspend_policy \in Policies
    BY <1>1 DEF ParseInv, AppConfigOK
  <2>4. input' \in Inputs /\ input'.policy = config'.suspend_policy
    BY <2>1, <2>3, MaxWindowsAssumption
       DEF NothingObserved, Inputs, SuspendPolicyInput
  <2> QED
    BY <2>1, <2>2, <2>4 DEF ProgramInv
<1>4. CASE parse = "running" /\ Next /\ UNCHANGED configVars
  <2>1. /\ UNCHANGED <<argv, next, config>>
        /\ parse' = parse
    BY <1>4 DEF configVars
  <2>2. ParseInv'
    BY <1>1, <2>1, PassKeepsParsing
  <2>3. /\ input' \in Inputs
        /\ input'.policy = input.policy
        /\ decision' = evaluate_suspend_policy(input')
    BY <1>1, <1>4, ObservationsKeepPolicy
  <2> QED
    BY <1>1, <1>4, <2>1, <2>2, <2>3 DEF ProgramInv
<1>5. CASE UNCHANGED programVars
  <2>1. /\ UNCHANGED <<argv, next, config>>
        /\ parse' = parse /\ input' = input /\ decision' = decision
    BY <1>5 DEF programVars, configVars, passVars
  <2>2. ParseInv'
    BY <1>1, <2>1, PassKeepsParsing
  <2> QED
    BY <1>1, <2>1, <2>2 DEF ProgramInv
<1> QED
  BY <1>2, <1>3, <1>4, <1>5 DEF ProgramNext

LEMMA ProgramInvHolds == ProgramSpec => []ProgramInv
  BY ProgramStarts, ProgramSteps, PTL DEF ProgramSpec

(* What the decision says follows from its being the policy's.             *)
LEMMA DecisionIsThePolicys ==
  ASSUME ProgramInv
  PROVE  SuspendsIffUnprotected /\ ReasonApplies
<1>1. input \in SuspendPolicyInput(Nat)
  BY DEF ProgramInv, Inputs, SuspendPolicyInput
<1>2. decision = evaluate_suspend_policy(input)
  BY DEF ProgramInv
<1>3. /\ decision \in SuspendDecision
      /\ decision.should_suspend
           <=> \A reason \in Reasons : ~Protects(reason, input)
      /\ ~decision.should_suspend => /\ decision.reason # "eligible"
                                     /\ Protects(decision.reason, input)
      /\ decision.should_suspend => decision.reason = "eligible"
  BY <1>1, <1>2, DecisionOfAnyInput
<1> QED
  BY <1>3, Zenon
     DEF SuspendsIffUnprotected, ReasonApplies

(* Once everything is read, "before the end" is everywhere.                *)
LEMMA AllIsRead ==
  ASSUME argv \in Seq(Argument), next = Len(argv) + 1
  PROVE  \A options : Before(next, options) = At(options)
<1>1. ASSUME NEW options
      PROVE  Before(next, options) = At(options)
  BY DEF Before, At
<1> QED
  BY <1>1, Zenon

LEMMA AllIsAsked ==
  ASSUME ParseInv, next = Len(argv) + 1
  PROVE  WellFormed /\ Asked(config)
<1>1. \A options : Before(next, options) = At(options)
  BY AllIsRead DEF ParseInv
<1>2. ReadWell(next) /\ AskedBefore(next)
  BY DEF ParseInv
<1>3. WellFormed
  BY <1>1, <1>2 DEF ReadWell, WellFormed
<1>4. \A option \in NumberOption :
        \/ At({option}) = {} /\ config[option] = init_app_config[option]
        \/ \E j \in At({option}) : /\ LastAt(j, {option})
                                   /\ config[option] = strtoul(argv[j + 1])
  BY <1>1, <1>2 DEF AskedBefore, LastAt
<1>5. config.suspend_policy = "all_background"
        <=> \E j \in At({"aggressive_suspend"}) : LastAt(j, PolicyOption)
  <2>1. \A j \in At({"aggressive_suspend"}) : j \in At(PolicyOption)
    BY DEF At, PolicyOption
  <2>2. config.suspend_policy = "all_background"
          <=> \E j \in At({"aggressive_suspend"}) :
                \A k \in At(PolicyOption) : k <= j
    BY <1>1, <1>2 DEF AskedBefore
  <2> QED
    BY <2>1, <2>2 DEF LastAt
<1>6. \A flag \in Flag :
        config[flag] <=> \E option \in FlagOption :
                           flag \in FlagsOf(option) /\ At({option}) # {}
  BY <1>1, <1>2 DEF AskedBefore
<1> QED
  BY <1>3, <1>4, <1>5, <1>6 DEF Asked

LEMMA LineIsParsedAsWritten ==
  ASSUME ParseInv
  PROVE  ParsesAsWritten
<1>1. CASE parse \in {"accepted", "running"}
  BY <1>1, AllIsAsked DEF ParsesAsWritten, ParseInv
<1>2. CASE parse = "rejected" /\ WellFormed
  <2>1. /\ next = Len(argv) + 1
        /\ ~config.trim_working_set
        /\ config.trim_interval_ms # 5000
    BY <1>2 DEF ParseInv
  <2>2. Asked(config)
    BY <2>1, AllIsAsked
  <2>3. At({"trim_interval_ms"}) # {}
    BY <2>1, <2>2 DEF Asked, NumberOption, init_app_config
  <2> QED
    BY <1>2, <2>1, <2>2, <2>3 DEF ParsesAsWritten
<1>3. CASE /\ parse \notin {"accepted", "running"}
           /\ ~(parse = "rejected" /\ WellFormed)
  BY <1>3 DEF ParsesAsWritten
<1> QED
  BY <1>1, <1>2, <1>3

LEMMA RestoredNeedsRequest ==
  ASSUME ProgramInv
  PROVE  AggressiveOnlyByRequest
<1> SUFFICES ASSUME decision.should_suspend,
                    input.visible_restored_window_count > 0
             PROVE  \E j \in At({"aggressive_suspend"}) :
                      LastAt(j, PolicyOption)
  BY DEF AggressiveOnlyByRequest
<1>1. input \in Inputs /\ ParseInv
  BY DEF ProgramInv
<1>2. input.policy = "all_background"
  <2>1. ~Protects("visible-window", input)
    BY DecisionIsThePolicys DEF SuspendsIffUnprotected, Reasons
  <2>2. input.policy # "minimized_only"
    BY <2>1 DEF Protects
  <2> QED
    BY <1>1, <2>2 DEF Inputs, SuspendPolicyInput, Policies
<1>3. parse = "running"
  BY <1>2 DEF ProgramInv, NothingObserved
<1>4. config.suspend_policy = "all_background"
  BY <1>2, <1>3 DEF ProgramInv
<1>5. Asked(config)
  BY <1>1, <1>3, AllIsAsked DEF ParseInv
<1> QED
  BY <1>4, <1>5 DEF Asked

(* evaluate_suspend_policy refuses exactly when some protection applies,   *)
(* in every pass of the guard.                                             *)
THEOREM PolicyIsItsProtections == ProgramSpec => []SuspendsIffUnprotected
<1>1. ProgramInv => SuspendsIffUnprotected
  BY DecisionIsThePolicys
<1> QED
  BY <1>1, ProgramInvHolds, PTL

(* The reason reported for leaving a family alone is one that applies.     *)
THEOREM ReasonsApply == ProgramSpec => []ReasonApplies
<1>1. ProgramInv => ReasonApplies
  BY DecisionIsThePolicys
<1> QED
  BY <1>1, ProgramInvHolds, PTL

(* parse_app_config accepts the command lines that make sense, whatever    *)
(* their length and the numbers on them, and configures what they ask for. *)
THEOREM CommandLineIsHonoured == ProgramSpec => []ParsesAsWritten
<1>1. ProgramInv => ParsesAsWritten
  BY LineIsParsedAsWritten DEF ProgramInv
<1> QED
  BY <1>1, ProgramInvHolds, PTL

(* No command line gets a number past its limits into the configuration.   *)
THEOREM ConfigStaysInLimits == ProgramSpec => []ConfigIsInLimits
<1>1. ASSUME ProgramInv PROVE ConfigIsInLimits
  <2>1. AppConfigOK /\ ReadWell(next) /\ AskedBefore(next)
    BY <1>1 DEF ProgramInv, ParseInv
  <2>2. ASSUME NEW option \in NumberOption
        PROVE  config[option] \in Limits[option].least .. Limits[option].most
    <3>1. CASE config[option] = init_app_config[option]
      BY <3>1 DEF init_app_config, Limits, NumberOption
    <3>2. CASE \E j \in Before(next, {option}) :
                 config[option] = strtoul(argv[j + 1])
      <4>1. PICK j \in Before(next, {option}) :
              config[option] = strtoul(argv[j + 1])
        BY <3>2
      <4>2. argv[j].word = option /\ j \in Before(next, NumberOption)
        BY <2>2, <4>1 DEF Before, At
      <4> QED
        BY <2>1, <4>1, <4>2 DEF ReadWell
    <3> QED
      BY <2>1, <3>1, <3>2 DEF AskedBefore
  <2> QED
    BY <2>1, <2>2 DEF ConfigIsInLimits, AppConfigOK, Policies
<1> QED
  BY <1>1, ProgramInvHolds, PTL

(* What TrackedEntry assumes of a configuration: its deadlines are less    *)
(* than half the range of the tick count ahead, 2^31 in the code, so that  *)
(* comparing with one does not take the future for the past.               *)
THEOREM LimitsFitTheTickCount ==
  ASSUME NEW HalfRange \in Nat, HalfRange >= 60000
  PROVE  ProgramSpec =>
           [](/\ config.background_grace_ms \in 0 .. HalfRange
              /\ config.manual_resume_grace_ms \in 0 .. HalfRange
              /\ config.heartbeat_interval_ms \in 1 .. HalfRange
              /\ config.suspend_policy \in Policies
              /\ config.trim_working_set \in BOOLEAN
              /\ config.lower_memory_priority \in BOOLEAN)
<1> DEFINE Fits ==
      /\ config.background_grace_ms \in 0 .. HalfRange
      /\ config.manual_resume_grace_ms \in 0 .. HalfRange
      /\ config.heartbeat_interval_ms \in 1 .. HalfRange
      /\ config.suspend_policy \in Policies
      /\ config.trim_working_set \in BOOLEAN
      /\ config.lower_memory_priority \in BOOLEAN
<1>1. ASSUME AppConfigOK, ConfigIsInLimits PROVE Fits
  <2>1. ASSUME NEW option \in NumberOption,
               Limits[option].least \in Nat, Limits[option].most \in Nat,
               Limits[option].least > 0, Limits[option].most <= 60000
        PROVE  config[option] \in 1 .. HalfRange
    <3>1. config[option] \in Limits[option].least .. Limits[option].most
      BY <1>1, <2>1 DEF ConfigIsInLimits
    <3> QED
      BY <2>1, <3>1
  <2>2. \A option \in NumberOption :
          /\ Limits[option].least \in Nat /\ Limits[option].least > 0
          /\ Limits[option].most \in Nat /\ Limits[option].most <= 60000
    BY DEF NumberOption, Limits
  <2>3. /\ config.background_grace_ms \in 1 .. HalfRange
        /\ config.manual_resume_grace_ms \in 1 .. HalfRange
        /\ config.heartbeat_interval_ms \in 1 .. HalfRange
    BY <2>1, <2>2 DEF NumberOption
  <2>4. /\ config.trim_working_set \in BOOLEAN
        /\ config.lower_memory_priority \in BOOLEAN
    BY <1>1 DEF AppConfigOK, Flag
  <2> QED
    BY <1>1, <2>3, <2>4 DEF AppConfigOK
<1>2. ProgramInv => AppConfigOK
  BY DEF ProgramInv, ParseInv
<1> QED
  BY <1>1, <1>2, ProgramInvHolds, ConfigStaysInLimits, PTL

(* A restored window gives way to the command line only.                   *)
THEOREM AggressionIsOptIn == ProgramSpec => []AggressiveOnlyByRequest
<1>1. ProgramInv => AggressiveOnlyByRequest
  BY RestoredNeedsRequest
<1> QED
  BY <1>1, ProgramInvHolds, PTL
=============================================================================
