--------------------------- MODULE ChayaiArguments ---------------------------
(***************************************************************************)
(* The command line of a harness (C-Hayai/src/chayai_main.c), as operators. *)
(* argp, of the C library, splits it and calls chayai_parse_opt for each    *)
(* word, in order; an option's argument is optional, so that only           *)
(* --option=ARG and -oARG have one.  The outcome is the arguments with how  *)
(* parsing went: "ok", or the way the process ends.                         *)
(***************************************************************************)
EXTENDS Integers, Sequences, SequencesExt

CONSTANTS UINT,  \* 2^32, the values of unsigned int
          LONG   \* 2^63, long goes from -LONG to LONG - 1

ASSUME WidthAssumption == UINT \in Nat /\ UINT > 2 /\ LONG \in Nat /\ LONG >= UINT

(* A word: the option's key ("arg" for anything that is no option, "help", or *)
(* "unknown"), whether it has an argument, and the argument: a string for      *)
(* 'o'; a number for 'w' and 'i', alone ("number") or with other characters    *)
(* after it or no digits at all; for 'p' a number of events, all of which PAPI *)
(* takes ("known") or one of which, or an earlier call, it refuses.            *)
Word(key, given, text, value) == [key |-> key, given |-> given, text |-> text, value |-> value]
Words == [key : STRING, given : BOOLEAN, text : STRING, value : Int]
Bare(key) == Word(key, FALSE, "", 0)

PapiNull == -1
Arguments == [outputterInit : {"console", "json"}, warmupIterations : 0 .. (UINT - 1),
              benchmarkIterations : 0 .. (UINT - 1), papiEvents : Nat \cup {PapiNull},
              outcome : {"ok", "usage", "help", "exit2", "crash"}]

-----------------------------------------------------------------------------
\* strtol: clamped, with ERANGE, outside the range of long.
Erange(v) == v < -LONG \/ v > LONG - 1
strtol(v) == IF v < -LONG THEN -LONG ELSE IF v > LONG - 1 THEN LONG - 1 ELSE v

\* Mutant: a number that was read is not cut to unsigned int.
read_long_arg(arg) ==
  IF ~arg.given \/ Erange(arg.value) \/ arg.text # "number" THEN <<>> ELSE <<strtol(arg.value)>>

\* The number as <<n>>, or <<>> for ARGP_ERR_UNKNOWN.  The cast to unsigned int comes
\* before the range check, so that `parsed < 0' never holds.
read_unsigned_int_arg(arg) ==
  LET parsed == strtol(arg.value) % UINT IN
    IF ~arg.given \/ Erange(arg.value) \/ arg.text # "number" \/ parsed < 0
    THEN <<>>
    ELSE <<parsed>>

Ends(arguments, how) == [arguments EXCEPT !.outcome = how]

ReadInto(arguments, field, arg) ==
  LET n == read_unsigned_int_arg(arg) IN
    IF n = <<>> THEN Ends(arguments, "usage") ELSE [arguments EXCEPT ![field] = n[1]]

\* 'o': strcmp of NULL when the format is a word of its own.
parse_output(arguments, arg) ==
  IF ~arg.given THEN Ends(arguments, "crash")
  ELSE IF arg.text \in {"console", "json"} THEN [arguments EXCEPT !.outputterInit = arg.text]
  ELSE Ends(arguments, "usage")

\* 'p': the library, the event set if there is none yet, then one event after the
\* other; without an argument the set stays empty.
parse_papi(arguments, arg) ==
  LET events == IF arguments.papiEvents = PapiNull THEN 0 ELSE arguments.papiEvents IN
    IF arg.text = "refused" THEN Ends(arguments, "exit2")
    ELSE [arguments EXCEPT !.papiEvents = events + IF arg.given THEN arg.value ELSE 0]

\* Returning ARGP_ERR_UNKNOWN for an option makes argp print the usage and exit.
chayai_parse_opt(arguments, word) ==
  CASE word.key = "o"    -> parse_output(arguments, word)
    [] word.key = "w"    -> ReadInto(arguments, "warmupIterations", word)
    [] word.key = "i"    -> ReadInto(arguments, "benchmarkIterations", word)
    [] word.key = "p"    -> parse_papi(arguments, word)
    [] word.key = "arg"  -> arguments
    [] word.key = "help" -> Ends(arguments, "help")
    [] OTHER             -> Ends(arguments, "usage")

\* What chayai_main_parse_args starts from.
DefaultArguments ==
  [outputterInit |-> "console", warmupIterations |-> 2, benchmarkIterations |-> 0,
   papiEvents |-> PapiNull, outcome |-> "ok"]
=============================================================================
