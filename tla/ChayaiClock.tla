----------------------------- MODULE ChayaiClock -----------------------------
(***************************************************************************)
(* chayai_clock_resolution_measured (C-Hayai/src/chayai_clock.c:5-23): the *)
(* loop that looks for the smallest difference the clock can show, beside  *)
(* a clock that advances, that stands still between two readings and, when *)
(* it is a wall clock, that somebody sets back or forward.  The clock is   *)
(* the one the library was built with; clock_gettime takes the first clock *)
(* that the kernel lets it read.                                           *)
(***************************************************************************)
EXTENDS ChayaiTime, FiniteSets

CONSTANTS Rounds,      \* 1000, the measurements without improvement
          MaxTime,     \* 0x8FFFFFFFFFFFF, where min_time starts
          Steps,       \* by how much the clock advances at once
          Shifts,      \* by how much somebody may set a wall clock, forward or back
          MaxShifts,   \* bound: how often
          MaxNs        \* bound: nanoseconds since the second in which a round began

ASSUME LoopAssumption == /\ Rounds \in Nat \ {0, 1}
                         /\ MaxTime \in Nat \ {0}
ASSUME ClockAssumption == /\ Steps \subseteq Nat \ {0}
                          /\ Shifts \subseteq Nat
                          /\ MaxShifts \in Nat
                          /\ MaxNs \in Nat

ClockIds == {"CLOCK_MONOTONIC_RAW", "CLOCK_MONOTONIC", "CLOCK_REALTIME"}
NoClock == "-1"

VARIABLES build,     \* the clock the library was compiled for
          usable,    \* the clocks clock_gettime can read
          ns, shift, \* nanoseconds that passed, and what was added to the wall clock
          shifts,    \* how often the wall clock was set
          clk_id,    \* the static clk_id of chayai_clock_now
          pc, i, p1, min_time,
          began,     \* history: <<ns, shift>> at p1
          least,     \* history: the least positive duration, MaxTime before there is one below
          rounds,    \* history: durations measured, counted up to Rounds
          since,     \* history: durations since the last improvement, up to Rounds
          error,     \* history: the last duration minus the nanoseconds that passed
          moved      \* history: what was added to the wall clock meanwhile

clock == <<build, usable, ns, shift, shifts>>
loop == <<clk_id, pc, i, p1, min_time>>
history == <<began, least, rounds, since, error, moved>>
vars == <<clock, loop, history>>

NoPoint == chayai_clock_now(build, 0)  \* p1 between two rounds

-----------------------------------------------------------------------------
chayai_clock_gettime_fetch_clockid ==
  IF "CLOCK_MONOTONIC_RAW" \in usable THEN "CLOCK_MONOTONIC_RAW"
  ELSE IF "CLOCK_MONOTONIC" \in usable THEN "CLOCK_MONOTONIC"
  ELSE IF "CLOCK_REALTIME" \in usable THEN "CLOCK_REALTIME" ELSE NoClock

\* The clock that chayai_clock_now asks, fetched again as long as there is none.
CurrentId == IF clk_id = NoClock THEN chayai_clock_gettime_fetch_clockid ELSE clk_id

IsWallClock == \/ build = "gettimeofday"
               \/ build = "clock_gettime" /\ CurrentId = "CLOCK_REALTIME"

\* A failing clock_gettime leaves the result as it was, uninitialised.
Uninitialised == {[tv_sec |-> s, tv_nsec |-> n] : s \in {0, 1}, n \in {0, Second - 1}}

\* The values that chayai_clock_now may return when n nanoseconds have passed.
Readings(n) ==
  IF build = "clock_gettime" /\ CurrentId = NoClock THEN Uninitialised
  ELSE {chayai_clock_now(build, n + (IF IsWallClock THEN shift ELSE 0))}

-----------------------------------------------------------------------------
Init ==
  /\ build \in Builds
  /\ usable \in IF build = "clock_gettime" THEN SUBSET ClockIds ELSE {{}}
  /\ ns \in 0 .. (Second - 1) /\ shift = 0 /\ shifts = 0
  /\ clk_id = NoClock
  /\ pc = "first" /\ i = 0 /\ p1 = NoPoint /\ min_time = MaxTime
  /\ began = <<0, 0>> /\ least = MaxTime /\ rounds = 0 /\ since = 0 /\ error = 0 /\ moved = 0

\* Time passes; what passes between two rounds nobody measures.
Advance ==
  /\ pc = "again"
  /\ \E d \in Steps : ns + d =< MaxNs /\ ns' = ns + d
  /\ UNCHANGED <<build, usable, shift, shifts, loop, history>>

\* Between two rounds whole seconds are taken off the clocks, to keep them small: no
\* time point is held there and durations do not see it.
Rebase ==
  /\ pc = "first" /\ \/ ns >= Second \/ shift \notin 0 .. (Second - 1)
  /\ ns' = ns % Second /\ shift' = shift % Second
  /\ UNCHANGED <<build, usable, shifts, loop, history>>

\* Somebody, or ntpd, sets the wall clock.
SetClock ==
  /\ pc = "again" /\ shifts < MaxShifts
  /\ \E s \in Shifts : shift' \in {shift + s, shift - s}
  /\ shifts' = shifts + 1
  /\ UNCHANGED <<build, usable, ns, loop, history>>

\* for (i < 1000) p1 = chayai_clock_now().
FirstReading ==
  /\ pc = "first" /\ i < Rounds /\ ns < Second /\ shift \in 0 .. (Second - 1)
  /\ p1' \in Readings(ns)
  /\ clk_id' = CurrentId
  /\ began' = <<ns, shift>>
  /\ error' = 0 /\ moved' = 0
  /\ pc' = "again"
  /\ UNCHANGED <<clock, i, min_time, least, rounds, since>>

UpTo(n) == IF n < Rounds THEN n ELSE Rounds

\* Mutant: an improvement does not restart the loop.
LoopWithoutRestart(cur_time) ==
  IF cur_time < min_time THEN min_time' = cur_time /\ i' = i + 1
                         ELSE UNCHANGED min_time /\ i' = i + 1

\* Mutant: an equal value restarts the loop, too.
ImproveOrEqual(cur_time) ==
  IF cur_time =< min_time THEN min_time' = cur_time /\ i' = 0 + 1
                          ELSE UNCHANGED min_time /\ i' = i + 1

\* i = 0 is followed by the i++ of the for statement.
Improve(cur_time) ==
  IF cur_time < min_time THEN min_time' = cur_time /\ i' = 0 + 1
                         ELSE UNCHANGED min_time /\ i' = i + 1

\* Mutant: two equal readings end the inner loop.
StaysUnlessNegative(cur_time) == cur_time < 0

\* while (duration <= 0), the condition of the inner loop.
StaysInLoop(cur_time) == cur_time =< 0

\* A turn of the inner loop that sees the clock stand still, or set back.
ReadAgain ==
  /\ pc = "again"
  /\ \E p2 \in Readings(ns) : StaysInLoop(chayai_clock_duration(build, p1, p2))
  /\ clk_id' = CurrentId
  /\ UNCHANGED <<clock, pc, i, p1, min_time, history>>

\* The last turn of the inner loop, and the rest of the round.
SecondReading ==
  /\ pc = "again"
  /\ \E p2 \in Readings(ns) :
       LET cur_time == chayai_clock_duration(build, p1, p2) IN
         /\ ~StaysInLoop(cur_time)
         /\ Improve(cur_time)
         /\ least' = (IF cur_time < least THEN cur_time ELSE least)
         /\ rounds' = UpTo(rounds + 1)
         /\ since' = (IF cur_time < min_time THEN 0 ELSE UpTo(since + 1))
         /\ error' = cur_time - (ns - began[1])
  /\ moved' = shift - began[2]
  /\ clk_id' = CurrentId
  /\ pc' = "first"
  /\ p1' = NoPoint /\ began' = <<0, 0>>
  /\ UNCHANGED clock

Return ==
  /\ pc = "first" /\ i >= Rounds
  /\ pc' = "done"
  /\ UNCHANGED <<clock, clk_id, i, p1, min_time, history>>

Done == pc = "done" /\ UNCHANGED vars

Next == Advance \/ Rebase \/ SetClock \/ FirstReading \/ ReadAgain \/ SecondReading \/ Return \/ Done

Spec == Init /\ [][Next]_vars

\* The process is scheduled and the clock moves; nothing is assumed of who sets it.
FairSpec == Spec /\ WF_vars(Advance) /\ WF_vars(Rebase) /\ WF_vars(FirstReading)
                 /\ WF_vars(SecondReading) /\ WF_vars(Return)

-----------------------------------------------------------------------------
Readable == build = "clock_gettime" => usable # {}

\* The variables have their types; min_time is a positive number at every moment.
TypeOK ==
  /\ build \in Builds /\ usable \subseteq ClockIds
  /\ ns \in Nat /\ shift \in Int /\ shifts \in 0 .. MaxShifts
  /\ clk_id \in ClockIds \cup {NoClock}
  /\ pc \in {"first", "again", "done"}
  /\ i \in 0 .. Rounds
  /\ min_time \in 1 .. MaxTime /\ least \in 1 .. MaxTime
  /\ rounds \in 0 .. Rounds /\ since \in 0 .. Rounds
  /\ began \in Nat \X Int

\* What the loop returns (chayai_clock.c:9-22) is the smallest positive difference
\* that any of its rounds saw, it took at least Rounds rounds, and the last
\* Rounds - 1 of them brought nothing smaller: the restart from 0 counts as the
\* first of the new loop because of the i++ that follows it.
Thorough ==
  pc = "done" => /\ min_time = least
                 /\ rounds = Rounds
                 /\ since >= Rounds - 1

\* The clock that is read is one that can be set.
Settable == \/ build = "gettimeofday"
            \/ build = "clock_gettime" /\ usable = {"CLOCK_REALTIME"}

\* What a build's unit lets the difference of two readings be off by.
WithinUnit(drift) ==
  CASE build = "gettimeofday" -> drift < Micro /\ drift > -Micro
    [] build = "mach_absolute_time" ->
         drift * Denom < Numer + Denom /\ drift * Denom > -(Numer + Denom)
    [] OTHER -> drift = 0

\* A duration (chayai_clock.c:70-75, 96-99, 143-158, 217-221) is what the clock moved
\* between the two readings, over a full second and over a correction of the wall
\* clock in either direction: exactly, or within a microsecond or a tick of it.
\* Setting the wall clock does not reach it when the kernel has a clock that cannot
\* be set (112-130): then it is the time that passed, whatever was done meanwhile.
DurationIsElapsed == Readable => WithinUnit(IF Settable THEN error - moved ELSE error)

\* The loop ends (chayai_clock.c:11-21): each restart has a smaller min_time, and the
\* inner loop waits only for a clock that moves; a wall clock that was set back
\* has to catch up first.
Terminates == Readable ~> pc = "done"
=============================================================================
