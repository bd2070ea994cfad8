------------------------------ MODULE ChayaiTime ------------------------------
(***************************************************************************)
(* Time points and durations of C-Hayai (C-Hayai/src/chayai_clock.c): the  *)
(* four clocks that a C compiler can build the library with, as operators. *)
(* A kernel clock counts nanoseconds; a time point is what the build's     *)
(* call returns for such a count, a duration is an int64_t of nanoseconds. *)
(* The Windows part does not compile as C (a static initialised by a call) *)
(* and is left out.                                                        *)
(***************************************************************************)
EXTENDS Integers

CONSTANTS Second,  \* 1000000000L, nanoseconds in a second
          Micro,   \* 1000, nanoseconds in a microsecond
          Width,   \* 2^64, the values of mach_absolute_time
          Numer,   \* mach_timebase_info: a tick is Numer / Denom nanoseconds
          Denom

ASSUME UnitsAssumption == /\ Second \in Nat \ {0}
                          /\ Micro \in Nat \ {0}
                          /\ Second % Micro = 0
ASSUME MachAssumption == Width \in Nat \ {0} /\ Numer \in Nat \ {0} /\ Denom \in Nat \ {0}

Builds == {"clock_gettime", "gettimeofday", "gethrtime", "mach_absolute_time"}

TimeSpec == [tv_sec : Int, tv_nsec : 0 .. (Second - 1)]
TimeVal == [tv_sec : Int, tv_usec : Int]

-----------------------------------------------------------------------------
(* What the calls return when the clock stands at ns nanoseconds.          *)

now_clock_gettime(ns) == [tv_sec |-> ns \div Second, tv_nsec |-> ns % Second]
now_gettimeofday(ns) == [tv_sec |-> ns \div Second, tv_usec |-> (ns % Second) \div Micro]
now_gethrtime(ns) == ns
now_mach(ns) == ((ns * Denom) \div Numer) % Width

chayai_clock_now(build, ns) ==
  CASE build = "clock_gettime"      -> now_clock_gettime(ns)
    [] build = "gettimeofday"       -> now_gettimeofday(ns)
    [] build = "gethrtime"          -> now_gethrtime(ns)
    [] build = "mach_absolute_time" -> now_mach(ns)

-----------------------------------------------------------------------------
\* Mutant: the borrow is added to the nanoseconds and not taken from the seconds.
duration_without_borrow(s, e) ==
  (e.tv_sec - s.tv_sec) * Second
    + (IF e.tv_nsec < s.tv_nsec THEN e.tv_nsec + Second - s.tv_nsec ELSE e.tv_nsec - s.tv_nsec)

\* struct timespec: one second is borrowed when the nanoseconds run backwards.
timeDiff(s, e) ==
  IF e.tv_nsec < s.tv_nsec
  THEN [tv_sec |-> e.tv_sec - s.tv_sec - 1, tv_nsec |-> e.tv_nsec + Second - s.tv_nsec]
  ELSE [tv_sec |-> e.tv_sec - s.tv_sec, tv_nsec |-> e.tv_nsec - s.tv_nsec]

duration_clock_gettime(s, e) == timeDiff(s, e).tv_sec * Second + timeDiff(s, e).tv_nsec

\* struct timeval: a negative difference of microseconds is simply added.
duration_gettimeofday(s, e) ==
  (e.tv_sec - s.tv_sec) * Second + (e.tv_usec - s.tv_usec) * Micro

duration_gethrtime(s, e) == e - s

\* uint64_t arithmetic throughout, returned as int64_t.
Unsigned(x) == x % Width
Signed(x) == IF 2 * x >= Width THEN x - Width ELSE x
duration_mach(s, e) == Signed(Unsigned(Unsigned(e - s) * Numer) \div Denom)

chayai_clock_duration(build, s, e) ==
  CASE build = "clock_gettime"      -> duration_clock_gettime(s, e)
    [] build = "gettimeofday"       -> duration_gettimeofday(s, e)
    [] build = "gethrtime"          -> duration_gethrtime(s, e)
    [] build = "mach_absolute_time" -> duration_mach(s, e)

-----------------------------------------------------------------------------
(* For reference: the nanoseconds a time point stands for.                 *)

Nanoseconds(p) == p.tv_sec * Second + p.tv_nsec
Microseconds(p) == p.tv_sec * Second + p.tv_usec * Micro
=============================================================================
