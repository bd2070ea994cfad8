-------------------------- MODULE ChayaiClockProofs --------------------------
(***************************************************************************)
(* The loop of chayai_clock_resolution_measured for every number of        *)
(* rounds, every unit and every way the clock may advance and be set: the  *)
(* variables keep their types, it returns the smallest difference it saw   *)
(* after enough rounds without a smaller one, and a duration is what the   *)
(* clock moved.  The wrap of mach_absolute_time depends on how long the    *)
(* program runs and is left to the model checker.                          *)
(***************************************************************************)
EXTENDS ChayaiClock, ChayaiTimeProofs

\* The readings of a build without the mach clock, as time points.
TimePoints == CASE build = "clock_gettime" -> TimeSpec
                [] build = "gettimeofday"  -> TimeVal
                [] OTHER                   -> Int

\* The clock the durations are taken from: settable clocks include the shift.
Shown(at) == at[1] + (IF Settable THEN at[2] ELSE 0)

\* Types, and which clock is read.
ClockInv ==
  /\ TypeOK
  /\ clk_id # NoClock => clk_id = chayai_clock_gettime_fetch_clockid
  /\ p1 \in TimePoints
  /\ error \in Int /\ moved \in Int
  /\ pc = "again" => i < Rounds

\* What the loop counts, beside the history of what it saw.
CountInv ==
  /\ min_time = least
  /\ i =< rounds /\ i =< since + 1
  /\ pc = "done" => i >= Rounds

\* The reading that is held, as long as some clock can be read.
ReadingInv ==
  /\ pc = "again" /\ Readable => p1 = chayai_clock_now(build, Shown(began))
  /\ pc = "again" => error = 0 /\ moved = 0
  /\ build # "mach_absolute_time" => DurationIsElapsed

LEMMA LoopTypes == Rounds \in Nat /\ Rounds >= 2 /\ MaxTime \in Nat /\ MaxTime >= 1
BY LoopAssumption

\* As long as clk_id has not been fetched or is the fetched one, that one is asked.
LEMMA CurrentIdIsFetched ==
  ASSUME clk_id # NoClock => clk_id = chayai_clock_gettime_fetch_clockid
  PROVE  CurrentId = chayai_clock_gettime_fetch_clockid
BY DEF CurrentId

\* The wall clock is read exactly if nothing else can be (chayai_clock.c:112-130).
LEMMA WallClockIsLast ==
  ASSUME usable \subseteq ClockIds, clk_id # NoClock => clk_id = chayai_clock_gettime_fetch_clockid
  PROVE  /\ IsWallClock <=> Settable
         /\ Readable /\ build = "clock_gettime" => CurrentId # NoClock
<1>1. CurrentId = chayai_clock_gettime_fetch_clockid
  BY CurrentIdIsFetched
<1>2. CurrentId = "CLOCK_REALTIME" <=> usable = {"CLOCK_REALTIME"}
  BY <1>1 DEF chayai_clock_gettime_fetch_clockid, ClockIds, NoClock
<1>3. usable # {} => CurrentId # NoClock
  BY <1>1 DEF chayai_clock_gettime_fetch_clockid, ClockIds, NoClock
<1> QED
  BY <1>2, <1>3 DEF IsWallClock, Settable, Readable

LEMMA NowTypes ==
  ASSUME build \in Builds, NEW n \in Int
  PROVE  chayai_clock_now(build, n) \in TimePoints
<1>1. CASE build = "clock_gettime"
  BY <1>1, TimeSpecReadBack DEF chayai_clock_now, TimePoints
<1>2. CASE build = "gettimeofday"
  BY <1>2, TimeValReadBack DEF chayai_clock_now, TimePoints
<1>3. CASE build = "gethrtime"
  BY <1>3 DEF chayai_clock_now, TimePoints, now_gethrtime
<1>4. CASE build = "mach_absolute_time"
  <2>1. Numer \in Nat \ {0} /\ Denom \in Nat /\ Width \in Nat \ {0}
    BY MachAssumption
  <2>2. n * Denom \in Int
    BY <2>1
  <2>3. (n * Denom) \div Numer \in Int
    BY <2>1, <2>2, DivMod
  <2>4. ((n * Denom) \div Numer) % Width \in Int
    BY <2>1, <2>3, DivMod
  <2> QED
    BY <1>4, <2>4 DEF chayai_clock_now, TimePoints, now_mach
<1> QED
  BY <1>1, <1>2, <1>3, <1>4 DEF Builds

LEMMA DurationTypes ==
  ASSUME build \in Builds, NEW s \in TimePoints, NEW e \in TimePoints
  PROVE  chayai_clock_duration(build, s, e) \in Int
<1>1. CASE build = "clock_gettime"
  <2>1. s \in TimeSpec /\ e \in TimeSpec
    BY <1>1 DEF TimePoints
  <2>2. duration_clock_gettime(s, e) = Nanoseconds(e) - Nanoseconds(s)
    BY <2>1, DurationIsExact
  <2>3. Nanoseconds(e) \in Int /\ Nanoseconds(s) \in Int
    BY <2>1, UnitsTypes, Products DEF Nanoseconds, TimeSpec
  <2> QED
    BY <1>1, <2>2, <2>3 DEF chayai_clock_duration
<1>2. CASE build = "gettimeofday"
  <2>1. s \in TimeVal /\ e \in TimeVal
    BY <1>2 DEF TimePoints
  <2>2. duration_gettimeofday(s, e) = Microseconds(e) - Microseconds(s)
    BY <2>1, MicroDurationIsExact
  <2>3. Microseconds(e) \in Int /\ Microseconds(s) \in Int
    BY <2>1, UnitsTypes, Products DEF Microseconds, TimeVal
  <2> QED
    BY <1>2, <2>2, <2>3 DEF chayai_clock_duration
<1>3. CASE build = "gethrtime"
  BY <1>3 DEF chayai_clock_duration, TimePoints, duration_gethrtime
<1>4. CASE build = "mach_absolute_time"
  <2>1. Numer \in Nat /\ Denom \in Nat \ {0} /\ Width \in Nat \ {0}
    BY MachAssumption
  <2>2. s \in Int /\ e \in Int /\ e - s \in Int
    BY <1>4 DEF TimePoints
  <2>3. Unsigned(e - s) \in Int
    BY <2>1, <2>2, DivMod DEF Unsigned
  <2>4. Unsigned(e - s) * Numer \in Int
    BY <2>1, <2>3
  <2>5. Unsigned(Unsigned(e - s) * Numer) \in Int
    BY <2>1, <2>4, DivMod DEF Unsigned
  <2>6. Unsigned(Unsigned(e - s) * Numer) \div Denom \in Int
    BY <2>1, <2>5, DivMod
  <2> QED
    BY <1>4, <2>1, <2>6 DEF chayai_clock_duration, duration_mach, Signed
<1> QED
  BY <1>1, <1>2, <1>3, <1>4 DEF Builds

\* Whatever is read is a time point, the uninitialised one included; with a readable
\* clock it is what that clock shows.
LEMMA ReadingTypes ==
  ASSUME TypeOK, clk_id # NoClock => clk_id = chayai_clock_gettime_fetch_clockid,
         NEW p \in Readings(ns)
  PROVE  /\ p \in TimePoints
         /\ Readable => p = chayai_clock_now(build, Shown(<<ns, shift>>))
<1>1. ns \in Int /\ shift \in Int /\ build \in Builds /\ usable \subseteq ClockIds
  BY DEF TypeOK
<1>2. IsWallClock <=> Settable
  BY <1>1, WallClockIsLast
<1>3. Readable /\ build = "clock_gettime" => CurrentId # NoClock
  BY <1>1, WallClockIsLast
<1>4. CASE build = "clock_gettime" /\ CurrentId = NoClock
  <2>1. p \in Uninitialised
    BY <1>4 DEF Readings
  <2>2. p \in TimeSpec
    BY <2>1, UnitsTypes DEF Uninitialised, TimeSpec
  <2> QED
    BY <1>3, <1>4, <2>2 DEF TimePoints
<1>5. CASE ~(build = "clock_gettime" /\ CurrentId = NoClock)
  <2>1. p = chayai_clock_now(build, ns + (IF IsWallClock THEN shift ELSE 0))
    BY <1>5 DEF Readings
  <2>2. p = chayai_clock_now(build, Shown(<<ns, shift>>))
    BY <1>2, <2>1 DEF Shown
  <2>3. Shown(<<ns, shift>>) \in Int
    BY <1>1 DEF Shown
  <2> QED
    BY <1>1, <2>2, <2>3, NowTypes
<1> QED
  BY <1>4, <1>5

\* A duration between two readings is the difference of what the clock shows.
LEMMA DurationOfReadings ==
  ASSUME NEW m \in Int, NEW n \in Int
  PROVE  LET d == chayai_clock_duration(build, chayai_clock_now(build, m), chayai_clock_now(build, n))
         IN  /\ build \in {"clock_gettime", "gethrtime"} => d = n - m
             /\ build = "gettimeofday" => d - (n - m) < Micro /\ d - (n - m) > -Micro
<1>1. CASE build = "clock_gettime"
  <2>1. /\ now_clock_gettime(m) \in TimeSpec /\ Nanoseconds(now_clock_gettime(m)) = m
        /\ now_clock_gettime(n) \in TimeSpec /\ Nanoseconds(now_clock_gettime(n)) = n
    BY TimeSpecReadBack
  <2>2. duration_clock_gettime(now_clock_gettime(m), now_clock_gettime(n)) = n - m
    BY <2>1, DurationIsExact
  <2> QED
    BY <1>1, <2>2 DEF chayai_clock_duration, chayai_clock_now
<1>2. CASE build = "gettimeofday"
  BY <1>2, MicroDurationOfReadings DEF chayai_clock_duration, chayai_clock_now
<1>3. CASE build = "gethrtime"
  BY <1>3 DEF chayai_clock_duration, chayai_clock_now, duration_gethrtime, now_gethrtime
<1> QED
  BY <1>1, <1>2, <1>3

-----------------------------------------------------------------------------
LEMMA InitClockInv == Init => ClockInv
<1> SUFFICES ASSUME Init PROVE ClockInv
  OBVIOUS
<1>1. build \in Builds /\ usable \subseteq ClockIds
  BY DEF Init
<1>2. TypeOK
  BY <1>1, UnitsTypes, LoopTypes, ClockAssumption DEF Init, TypeOK, NoClock
<1>3. p1 \in TimePoints
  BY <1>1, NowTypes DEF Init, NoPoint
<1> QED
  BY <1>2, <1>3 DEF Init, ClockInv

LEMMA NextClockInv == ClockInv /\ [Next]_vars => ClockInv'
<1> SUFFICES ASSUME ClockInv, [Next]_vars PROVE ClockInv'
  OBVIOUS
<1> USE DEF ClockInv
<1>1. CASE Advance
  <2>1. ns' \in Nat
    BY <1>1, ClockAssumption DEF Advance, TypeOK
  <2>2. TypeOK'
    BY <1>1, <2>1 DEF Advance, TypeOK, loop, history
  <2> QED
    BY <1>1, <2>2 DEF Advance, loop, history, TimePoints, chayai_clock_gettime_fetch_clockid
<1>2. CASE Rebase
  <2>1. ns' \in Nat /\ shift' \in Int
    <3>1. ns \in Int /\ shift \in Int
      BY DEF TypeOK
    <3> QED
      BY <1>2, <3>1, UnitsTypes, DivMod DEF Rebase
  <2>2. TypeOK'
    BY <1>2, <2>1 DEF Rebase, TypeOK, loop, history
  <2> QED
    BY <1>2, <2>2 DEF Rebase, loop, history, TimePoints, chayai_clock_gettime_fetch_clockid
<1>3. CASE SetClock
  <2>1. shift' \in Int /\ shifts' \in 0 .. MaxShifts
    BY <1>3, ClockAssumption DEF SetClock, TypeOK
  <2>2. TypeOK'
    BY <1>3, <2>1 DEF SetClock, TypeOK, loop, history
  <2> QED
    BY <1>3, <2>2 DEF SetClock, loop, history, TimePoints, chayai_clock_gettime_fetch_clockid
<1>4. CASE FirstReading
  <2>1. clk_id' = chayai_clock_gettime_fetch_clockid /\ clk_id' \in ClockIds \cup {NoClock}
    BY <1>4, CurrentIdIsFetched DEF FirstReading, chayai_clock_gettime_fetch_clockid, ClockIds, TypeOK
  <2>2. p1' \in TimePoints
    BY <1>4, ReadingTypes DEF FirstReading
  <2>3. TypeOK'
    BY <1>4, <2>1 DEF FirstReading, TypeOK, clock
  <2> QED
    BY <1>4, <2>1, <2>2, <2>3
    DEF FirstReading, clock, TimePoints, chayai_clock_gettime_fetch_clockid
<1>5. CASE ReadAgain
  <2>1. clk_id' = chayai_clock_gettime_fetch_clockid /\ clk_id' \in ClockIds \cup {NoClock}
    BY <1>5, CurrentIdIsFetched DEF ReadAgain, chayai_clock_gettime_fetch_clockid, ClockIds, TypeOK
  <2>2. TypeOK'
    BY <1>5, <2>1 DEF ReadAgain, TypeOK, clock, history
  <2> QED
    BY <1>5, <2>1, <2>2
    DEF ReadAgain, clock, history, TimePoints, chayai_clock_gettime_fetch_clockid
<1>6. CASE SecondReading
  <2>1. clk_id' = chayai_clock_gettime_fetch_clockid /\ clk_id' \in ClockIds \cup {NoClock}
    BY <1>6, CurrentIdIsFetched DEF SecondReading, chayai_clock_gettime_fetch_clockid, ClockIds, TypeOK
  <2>2. build \in Builds /\ build' = build /\ usable' = usable
    BY <1>6 DEF SecondReading, clock, TypeOK
  <2>3. p1' \in TimePoints
    BY <1>6, <2>2, NowTypes DEF SecondReading, NoPoint
  <2>4. PICK p2 \in Readings(ns) :
          LET cur_time == chayai_clock_duration(build, p1, p2) IN
            /\ ~StaysInLoop(cur_time)
            /\ Improve(cur_time)
            /\ least' = (IF cur_time < least THEN cur_time ELSE least)
            /\ rounds' = UpTo(rounds + 1)
            /\ since' = (IF cur_time < min_time THEN 0 ELSE UpTo(since + 1))
            /\ error' = cur_time - (ns - began[1])
    BY <1>6 DEF SecondReading
  <2> DEFINE cur_time == chayai_clock_duration(build, p1, p2)
  <2>5. cur_time \in Int
    BY <2>2, ReadingTypes, DurationTypes
  <2> HIDE DEF cur_time
  <2>6. cur_time > 0
    BY <2>4, <2>5 DEF cur_time, StaysInLoop
  <2>7. /\ min_time' \in 1 .. MaxTime /\ least' \in 1 .. MaxTime
        /\ rounds' \in 0 .. Rounds /\ since' \in 0 .. Rounds
        /\ error' \in Int
    BY <2>4, <2>5, <2>6, LoopTypes DEF cur_time, TypeOK, Improve, UpTo
  <2>8. moved' \in Int /\ began' \in Nat \X Int
    BY <1>6 DEF SecondReading, TypeOK
  <2>9. i' \in 0 .. Rounds
    BY <1>6, <2>4, LoopTypes DEF SecondReading, Improve, TypeOK
  <2>10. TypeOK'
    BY <1>6, <2>1, <2>7, <2>8, <2>9 DEF SecondReading, TypeOK, clock
  <2>11. pc' = "first"
    BY <1>6 DEF SecondReading
  <2> QED
    BY <2>1, <2>2, <2>3, <2>7, <2>8, <2>10, <2>11 DEF TimePoints, chayai_clock_gettime_fetch_clockid
<1>7. CASE Return
  <2>1. TypeOK'
    BY <1>7 DEF Return, TypeOK, clock, history
  <2> QED
    BY <1>7, <2>1 DEF Return, clock, history, TimePoints, chayai_clock_gettime_fetch_clockid
<1>8. CASE UNCHANGED vars
  BY <1>8 DEF vars, clock, loop, history, TypeOK, TimePoints, chayai_clock_gettime_fetch_clockid
<1> QED
  BY <1>1, <1>2, <1>3, <1>4, <1>5, <1>6, <1>7, <1>8 DEF Next, Done

\* The type invariant, with min_time a positive number at every moment
\* (chayai_clock.c:5-23), for every clock, one that cannot be read included.
THEOREM ClockTypeCorrect == Spec => []TypeOK
<1>1. Spec => []ClockInv
  BY InitClockInv, NextClockInv, PTL DEF Spec
<1>2. ClockInv => TypeOK
  BY DEF ClockInv
<1> QED
  BY <1>1, <1>2, PTL

-----------------------------------------------------------------------------
LEMMA InitCountInv == Init => CountInv
BY LoopTypes DEF Init, CountInv

LEMMA NextCountInv == ClockInv /\ CountInv /\ [Next]_vars => CountInv'
<1> SUFFICES ASSUME ClockInv, CountInv, [Next]_vars PROVE CountInv'
  OBVIOUS
<1> USE DEF CountInv
<1>0. TypeOK /\ (pc = "again" => i < Rounds)
  BY DEF ClockInv
<1>1. CASE Advance \/ Rebase \/ SetClock
  BY <1>1 DEF Advance, Rebase, SetClock, loop, history
<1>2. CASE FirstReading
  BY <1>2 DEF FirstReading
<1>3. CASE ReadAgain
  BY <1>3 DEF ReadAgain, history
<1>4. CASE SecondReading
  <2>1. PICK p2 \in Readings(ns) :
          LET cur_time == chayai_clock_duration(build, p1, p2) IN
            /\ Improve(cur_time)
            /\ least' = (IF cur_time < least THEN cur_time ELSE least)
            /\ rounds' = UpTo(rounds + 1)
            /\ since' = (IF cur_time < min_time THEN 0 ELSE UpTo(since + 1))
    BY <1>4 DEF SecondReading
  <2> DEFINE cur_time == chayai_clock_duration(build, p1, p2)
  <2>2. cur_time \in Int
    BY <1>0, ReadingTypes, DurationTypes DEF ClockInv, TypeOK
  <2> HIDE DEF cur_time
  <2>3. i < Rounds /\ pc' = "first"
    BY <1>0, <1>4 DEF SecondReading
  <2>4. CASE cur_time < min_time
    BY <1>0, <2>1, <2>2, <2>3, <2>4, LoopTypes DEF cur_time, TypeOK, Improve, UpTo
  <2>5. CASE ~(cur_time < min_time)
    BY <1>0, <2>1, <2>2, <2>3, <2>5, LoopTypes DEF cur_time, TypeOK, Improve, UpTo
  <2> QED
    BY <2>4, <2>5
<1>5. CASE Return
  BY <1>5 DEF Return, history
<1>6. CASE UNCHANGED vars
  BY <1>6 DEF vars, loop, history
<1> QED
  BY <1>1, <1>2, <1>3, <1>4, <1>5, <1>6 DEF Next, Done

\* Whatever the clock does, chayai_clock_resolution_measured (chayai_clock.c:9-22) returns
\* the smallest difference it saw, after at least Rounds rounds, the last Rounds - 1 of
\* them without a smaller one.
THEOREM ResolutionIsThorough == Spec => []Thorough
<1>1. Spec => [](ClockInv /\ CountInv)
  BY InitClockInv, NextClockInv, InitCountInv, NextCountInv, PTL DEF Spec
<1>2. ClockInv /\ CountInv => Thorough
  BY LoopTypes DEF ClockInv, CountInv, TypeOK, Thorough
<1> QED
  BY <1>1, <1>2, PTL

-----------------------------------------------------------------------------
LEMMA InitReadingInv == Init => ReadingInv
BY UnitsTypes DEF Init, ReadingInv, DurationIsElapsed, WithinUnit, Builds

LEMMA NextReadingInv == ClockInv /\ ReadingInv /\ [Next]_vars => ReadingInv'
<1> SUFFICES ASSUME ClockInv, ReadingInv, [Next]_vars PROVE ReadingInv'
  OBVIOUS
<1>0. /\ TypeOK /\ build \in Builds /\ error \in Int /\ moved \in Int
      /\ clk_id # NoClock => clk_id = chayai_clock_gettime_fetch_clockid
  BY DEF ClockInv, TypeOK
<1>1. CASE Advance \/ Rebase \/ SetClock
  BY <1>1 DEF Advance, Rebase, SetClock, loop, history, ReadingInv, DurationIsElapsed, WithinUnit, Shown,
              Readable, Settable
<1>2. CASE FirstReading
  <2>1. /\ build' = build /\ usable' = usable /\ pc' = "again" /\ error' = 0 /\ moved' = 0
        /\ began' = <<ns, shift>> /\ p1' \in Readings(ns)
    BY <1>2 DEF FirstReading, clock
  <2>2. Readable => p1' = chayai_clock_now(build, Shown(<<ns, shift>>))
    BY <1>0, <2>1, ReadingTypes
  <2>3. Readable' => p1' = chayai_clock_now(build, Shown(began))'
    BY <2>1, <2>2 DEF Readable, Shown, Settable
  <2>4. (build # "mach_absolute_time" => DurationIsElapsed)'
    BY <1>0, <2>1, UnitsTypes DEF DurationIsElapsed, WithinUnit, Builds
  <2> QED
    BY <2>1, <2>3, <2>4 DEF ReadingInv
<1>3. CASE ReadAgain
  BY <1>3 DEF ReadAgain, clock, history, ReadingInv, DurationIsElapsed, WithinUnit, Shown, Readable, Settable
<1>4. CASE SecondReading
  <2>1. PICK p2 \in Readings(ns) :
          error' = chayai_clock_duration(build, p1, p2) - (ns - began[1])
    BY <1>4 DEF SecondReading
  <2>2. /\ pc = "again" /\ pc' = "first" /\ build' = build /\ usable' = usable
        /\ moved' = shift - began[2]
    BY <1>4 DEF SecondReading, clock
  <2>3. CASE Readable /\ build # "mach_absolute_time"
    <3>1. /\ p1 = chayai_clock_now(build, Shown(began))
          /\ p2 = chayai_clock_now(build, Shown(<<ns, shift>>))
      BY <1>0, <2>2, <2>3, ReadingTypes DEF ReadingInv
    <3> DEFINE m == Shown(began)
               n == Shown(<<ns, shift>>)
               d == chayai_clock_duration(build, p1, p2)
    <3>2. ns \in Int /\ shift \in Int /\ began[1] \in Int /\ began[2] \in Int
      BY <1>0 DEF TypeOK
    <3>3. /\ m \in Int /\ n \in Int
          /\ n - m = (ns - began[1]) + (IF Settable THEN shift - began[2] ELSE 0)
      BY <3>2 DEF Shown
    <3>4. d \in Int
      <4>1. p1 \in TimePoints /\ p2 \in TimePoints
        BY <1>0, ReadingTypes DEF ClockInv
      <4> QED
        BY <1>0, <4>1, DurationTypes
    <3>5. /\ build \in {"clock_gettime", "gethrtime"} => d = n - m
          /\ build = "gettimeofday" => d - (n - m) < Micro /\ d - (n - m) > -Micro
      <4> HIDE DEF m, n
      <4> QED
        BY <3>1, <3>3, DurationOfReadings DEF m, n
    <3> HIDE DEF m, n, d
    <3>6. error' = d - (ns - began[1])
      BY <2>1 DEF d
    <3>7. (IF Settable THEN error' - moved' ELSE error') = d - (n - m)
      BY <2>2, <3>2, <3>3, <3>4, <3>6
    <3>8. WithinUnit(d - (n - m))
      <4>1. CASE build = "gettimeofday"
        BY <3>5, <4>1 DEF WithinUnit
      <4>2. CASE build \in {"clock_gettime", "gethrtime"}
        BY <3>3, <3>4, <3>5, <4>2 DEF WithinUnit
      <4> QED
        BY <1>0, <2>3, <4>1, <4>2 DEF Builds
    <3>9. DurationIsElapsed'
      BY <2>2, <3>7, <3>8 DEF DurationIsElapsed, WithinUnit, Settable
    <3> QED
      BY <2>2, <3>9 DEF ReadingInv
  <2>4. CASE ~(Readable /\ build # "mach_absolute_time")
    BY <2>2, <2>4 DEF ReadingInv, DurationIsElapsed, Readable
  <2> QED
    BY <2>3, <2>4
<1>5. CASE Return
  BY <1>5 DEF Return, clock, history, ReadingInv, DurationIsElapsed, WithinUnit, Readable, Settable
<1>6. CASE UNCHANGED vars
  BY <1>6 DEF vars, clock, loop, history, ReadingInv, DurationIsElapsed, WithinUnit, Shown, Readable, Settable
<1> QED
  BY <1>1, <1>2, <1>3, <1>4, <1>5, <1>6 DEF Next, Done

\* Except for the mach clock, a duration is what the clock moved between the readings,
\* and no correction of the wall clock is in it when the kernel has another clock
\* (chayai_clock.c:96-99, 112-158, 210-221), for every clock and correction.
THEOREM DurationsAreElapsed == Spec => [](build # "mach_absolute_time" => DurationIsElapsed)
<1>1. Spec => [](ClockInv /\ ReadingInv)
  BY InitClockInv, NextClockInv, InitReadingInv, NextReadingInv, PTL DEF Spec
<1>2. ReadingInv => (build # "mach_absolute_time" => DurationIsElapsed)
  BY DEF ReadingInv
<1> QED
  BY <1>1, <1>2, PTL
=============================================================================
