--------------------------- MODULE MCGuardProgram ---------------------------
(***************************************************************************)
(* Every command line of up to three arguments, with numbers on both sides *)
(* of every limit, and every option that takes a number given twice.       *)
(***************************************************************************)
EXTENDS GuardProgram

MCUlongMax == 70000

Number(negative, digits) ==
  [word |-> "number", negative |-> negative, digits |-> digits]

(* The limits, what lies just beyond them, a number that overflows, and    *)
(* two negative ones, of which the second reads as 1000.                   *)
MCNumbers ==
  {Number(FALSE, n) : n \in {99, 100, 249, 250, 499, 500, 999, 1000, 5000,
                             5001, 60000, 60001, 70001}}
    \cup {Number(TRUE, n) : n \in {1, 69001}}

MCOptions ==
  [word : Word \ {"number"}, negative : {FALSE}, digits : {0}]

MCArguments == MCNumbers \cup MCOptions

MCCommandLine ==
  UNION {[1 .. n -> MCArguments] : n \in 0 .. 3}
    \cup {<<option, first, option, second>> :
            option \in {o \in MCOptions : o.word \in NumberOption},
            first \in MCNumbers, second \in MCNumbers}
=============================================================================
