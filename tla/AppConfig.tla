----------------------------- MODULE AppConfig ------------------------------
(***************************************************************************)
(* The command line of browser_guard.exe: init_app_config and              *)
(* parse_app_config of src/app_config.c, one argument a step.              *)
(*                                                                         *)
(* An argument is the name of an option, written here as the field of      *)
(* AppConfig it is for or in the option's own words, a decimal number, or  *)
(* anything else.                                                          *)
(***************************************************************************)
EXTENDS Integers, Sequences

CONSTANTS
  CommandLine,  \* the argument vectors that are tried
  ULONG_MAX     \* of the C library, 2^32 - 1 on Windows

(* Least and most of the options that take a number, in milliseconds.      *)
Limits == [interval_ms             |-> [least |-> 100, most |-> 60000],
           trim_interval_ms        |-> [least |-> 1000, most |-> 60000],
           background_grace_ms     |-> [least |-> 250, most |-> 60000],
           manual_resume_grace_ms  |-> [least |-> 500, most |-> 60000],
           heartbeat_interval_ms   |-> [least |-> 1000, most |-> 60000],
           window_probe_timeout_ms |-> [least |-> 100, most |-> 5000]]

NumberOption == {"interval_ms", "trim_interval_ms", "background_grace_ms",
                 "manual_resume_grace_ms", "heartbeat_interval_ms",
                 "window_probe_timeout_ms"}
Flag == {"trim_working_set", "lower_memory_priority",
         "enable_power_throttling", "verbose"}
FlagOption == Flag \cup {"aggressive_memory"}
PolicyOption == {"aggressive_suspend", "minimized_only"}
Word == NumberOption \cup FlagOption \cup PolicyOption \cup {"number", "other"}

(* The sign and the digits count for a number only.                        *)
Argument == [word : Word, negative : BOOLEAN, digits : Nat]

ASSUME CommandLineAssumption == CommandLine \subseteq Seq(Argument)
ASSUME UlongAssumption == ULONG_MAX \in Nat /\ ULONG_MAX > 60000

VARIABLES
  argv,    \* the arguments after the program's name
  next,    \* the index i of the loop
  config,  \* the AppConfig
  parse    \* "parsing", what parse_app_config has returned, or "running"

configVars == <<argv, next, config, parse>>

init_app_config ==
  [interval_ms |-> 1000,
   trim_interval_ms |-> 5000,
   background_grace_ms |-> 60000,
   manual_resume_grace_ms |-> 5000,
   heartbeat_interval_ms |-> 5000,
   window_probe_timeout_ms |-> 750,
   suspend_policy |-> "minimized_only",
   trim_working_set |-> FALSE,
   lower_memory_priority |-> FALSE,
   enable_power_throttling |-> FALSE,
   verbose |-> FALSE]

ConfigInit ==
  /\ argv \in CommandLine
  /\ next = 1
  /\ config = init_app_config
  /\ parse = "parsing"

(* A number beyond the range of an unsigned long reads as its greatest     *)
(* value, and the negative of one within the range wraps around.           *)
strtoul(a) ==
  IF a.digits > ULONG_MAX THEN ULONG_MAX
  ELSE IF a.negative /\ a.digits > 0 THEN ULONG_MAX + 1 - a.digits
  ELSE a.digits

parse_dword_arg(a, limits) ==
  /\ a.word = "number"
  /\ strtoul(a) >= limits.least
  /\ strtoul(a) <= limits.most

Parsing == parse = "parsing" /\ next <= Len(argv)

FlagsOf(word) ==
  IF word = "aggressive_memory"
  THEN {"trim_working_set", "lower_memory_priority", "enable_power_throttling"}
  ELSE {word}

(* Mutant: --aggressive-memory chooses the aggressive policy as well.      *)
ParseFlag_AllAggressive ==
  /\ Parsing
  /\ argv[next].word \in FlagOption
  /\ config' = [field \in DOMAIN config |->
                  IF field \in FlagsOf(argv[next].word) THEN TRUE
                  ELSE IF field = "suspend_policy"
                          /\ argv[next].word = "aggressive_memory"
                       THEN "all_background"
                  ELSE config[field]]
  /\ next' = next + 1
  /\ UNCHANGED <<argv, parse>>

ParseFlag ==
  /\ Parsing
  /\ argv[next].word \in FlagOption
  /\ config' = [field \in DOMAIN config |->
                  IF field \in FlagsOf(argv[next].word) THEN TRUE
                  ELSE config[field]]
  /\ next' = next + 1
  /\ UNCHANGED <<argv, parse>>

(* The last one counts.                                                    *)
ParsePolicy ==
  /\ Parsing
  /\ argv[next].word \in PolicyOption
  /\ config' = [config EXCEPT !.suspend_policy =
                  IF argv[next].word = "minimized_only" THEN "minimized_only"
                                                        ELSE "all_background"]
  /\ next' = next + 1
  /\ UNCHANGED <<argv, parse>>

(* Mutant: the number is read again as an option.                          *)
ParseNumber_Unskipped ==
  /\ Parsing
  /\ argv[next].word \in NumberOption
  /\ next + 1 <= Len(argv)
  /\ parse_dword_arg(argv[next + 1], Limits[argv[next].word])
  /\ config' = [config EXCEPT ![argv[next].word] = strtoul(argv[next + 1])]
  /\ next' = next + 1
  /\ UNCHANGED <<argv, parse>>

(* An option and its number.                                               *)
ParseNumber ==
  /\ Parsing
  /\ argv[next].word \in NumberOption
  /\ next + 1 <= Len(argv)
  /\ parse_dword_arg(argv[next + 1], Limits[argv[next].word])
  /\ config' = [config EXCEPT ![argv[next].word] = strtoul(argv[next + 1])]
  /\ next' = next + 2
  /\ UNCHANGED <<argv, parse>>

(* A number that is missing or out of range, and anything that is not an   *)
(* option.                                                                 *)
ParseFails ==
  /\ Parsing
  /\ \/ /\ argv[next].word \in NumberOption
        /\ ~(/\ next + 1 <= Len(argv)
             /\ parse_dword_arg(argv[next + 1], Limits[argv[next].word]))
     \/ argv[next].word \in {"number", "other"}
  /\ parse' = "rejected"
  /\ UNCHANGED <<argv, next, config>>

(* All arguments are read; an interval between trims needs trimming.       *)
ParseEnds ==
  /\ parse = "parsing"
  /\ next > Len(argv)
  /\ parse' = IF ~config.trim_working_set /\ config.trim_interval_ms # 5000
              THEN "rejected"
              ELSE "accepted"
  /\ UNCHANGED <<argv, next, config>>

parse_app_config ==
  \/ ParseFlag
  \/ ParsePolicy
  \/ ParseNumber
  \/ ParseFails
  \/ ParseEnds

-----------------------------------------------------------------------------
(* Every number of the configuration is within its option's limits,        *)
(* whatever strtoul makes of the digits and the sign on the command line,  *)
(* and the defaults are (parse_dword_arg, init_app_config).  The deadlines *)
(* that ensure_group_state computes from them rely on it.                  *)
ConfigIsInLimits ==
  /\ \A option \in NumberOption :
       config[option] \in Limits[option].least .. Limits[option].most
  /\ config.suspend_policy \in {"minimized_only", "all_background"}
  /\ \A flag \in Flag : config[flag] \in BOOLEAN

(* Where an option is written, and where one of some options is written    *)
(* last.                                                                   *)
At(options) == {j \in 1 .. Len(argv) : argv[j].word \in options}
LastAt(j, options) == j \in At(options) /\ \A k \in At(options) : k <= j

(* The command line as a whole makes sense: every option that takes a      *)
(* number is followed by one within its limits, every number follows such  *)
(* an option, and there is nothing else.                                   *)
WellFormed ==
  /\ At({"other"}) = {}
  /\ \A j \in At(NumberOption) :
       /\ j + 1 \in At({"number"})
       /\ strtoul(argv[j + 1])
            \in Limits[argv[j].word].least .. Limits[argv[j].word].most
  /\ \A j \in At({"number"}) : j - 1 \in At(NumberOption)

(* What it asks for: the number that follows an option where it is written *)
(* last, the policy that is written last, every flag that is written.      *)
Asked(c) ==
  /\ \A option \in NumberOption :
       \/ At({option}) = {} /\ c[option] = init_app_config[option]
       \/ \E j \in At({option}) : /\ LastAt(j, {option})
                                  /\ c[option] = strtoul(argv[j + 1])
  /\ c.suspend_policy = "all_background"
       <=> \E j \in At({"aggressive_suspend"}) : LastAt(j, PolicyOption)
  /\ \A flag \in Flag :
       c[flag] <=> \E option \in FlagOption :
                     flag \in FlagsOf(option) /\ At({option}) # {}

(* The loop, one argument after the other, accepts exactly the command     *)
(* lines that make sense, and the configuration is the one asked for:      *)
(* whatever is repeated, and in whatever order the options are written.    *)
ParsesAsWritten ==
  /\ parse \in {"accepted", "running"} => WellFormed /\ Asked(config)
  /\ parse = "rejected" /\ WellFormed =>
       /\ Asked(config)
       /\ ~config.trim_working_set
       /\ At({"trim_interval_ms"}) # {}
=============================================================================
