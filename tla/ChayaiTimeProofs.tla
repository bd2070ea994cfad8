--------------------------- MODULE ChayaiTimeProofs ---------------------------
(***************************************************************************)
(* Time points and durations of C-Hayai for every unit and every value of  *)
(* the clock: reading a clock loses nothing but the part below its unit,   *)
(* and the duration between two time points is the difference of what they *)
(* stand for, in either direction.                                         *)
(***************************************************************************)
EXTENDS ChayaiTime, TLAPS

\* The units, without how they relate.
LEMMA UnitsTypes == Second \in Nat \ {0} /\ Micro \in Nat \ {0}
BY UnitsAssumption

\* Division by a unit and its remainder.
LEMMA DivMod ==
  ASSUME NEW n \in Int, NEW d \in Nat \ {0}
  PROVE  /\ n \div d \in Int /\ n % d \in 0 .. (d - 1)
         /\ n = (n \div d) * d + (n % d)
OBVIOUS

\* The products of chayai_clock_duration are distributive.
LEMMA Products ==
  ASSUME NEW a \in Int, NEW b \in Int, NEW d \in Nat
  PROVE  /\ a * d \in Int
         /\ (a - b) * d = a * d - b * d
         /\ (a - b - 1) * d = a * d - b * d - d
OBVIOUS

\* A struct timespec is normalised and stands for the nanoseconds of the clock
\* (chayai_clock.c:132-141).
LEMMA TimeSpecReadBack ==
  ASSUME NEW ns \in Int
  PROVE  /\ now_clock_gettime(ns) \in TimeSpec
         /\ Nanoseconds(now_clock_gettime(ns)) = ns
<1>1. /\ ns \div Second \in Int /\ ns % Second \in 0 .. (Second - 1)
      /\ ns = (ns \div Second) * Second + (ns % Second)
  BY UnitsTypes, DivMod
<1> QED
  BY <1>1 DEF now_clock_gettime, TimeSpec, Nanoseconds

\* A struct timeval stands for the clock but for the part below a microsecond
\* (chayai_clock.c:210-215).
LEMMA TimeValReadBack ==
  ASSUME NEW ns \in Int
  PROVE  /\ now_gettimeofday(ns) \in TimeVal
         /\ ns - Microseconds(now_gettimeofday(ns)) \in 0 .. (Micro - 1)
<1> DEFINE q == ns \div Second
           r == ns % Second
<1>1. q \in Int /\ r \in Int /\ ns = q * Second + r
  BY UnitsTypes, DivMod
<1>2. now_gettimeofday(ns) = [tv_sec |-> q, tv_usec |-> r \div Micro]
  BY DEF now_gettimeofday
<1> HIDE DEF q, r
<1>3. r \div Micro \in Int /\ r % Micro \in 0 .. (Micro - 1) /\ r = (r \div Micro) * Micro + (r % Micro)
  BY <1>1, UnitsTypes, DivMod
<1>4. now_gettimeofday(ns) \in TimeVal
  BY <1>1, <1>2, <1>3 DEF TimeVal
<1>5. Microseconds(now_gettimeofday(ns)) = q * Second + (r \div Micro) * Micro
  BY <1>2 DEF Microseconds
<1>6. q * Second \in Int /\ (r \div Micro) * Micro \in Int /\ r % Micro \in Int
  BY <1>1, <1>3, UnitsTypes
<1>7. ns - Microseconds(now_gettimeofday(ns)) = r % Micro
  BY <1>1, <1>3, <1>5, <1>6
<1> QED
  BY <1>3, <1>4, <1>7

\* timeDiff (chayai_clock.c:143-158) borrows correctly: the difference of two normalised
\* time points is normalised, and stands for the difference of what they stand for.
THEOREM DurationIsExact ==
  ASSUME NEW s \in TimeSpec, NEW e \in TimeSpec
  PROVE  /\ timeDiff(s, e) \in TimeSpec
         /\ duration_clock_gettime(s, e) = Nanoseconds(e) - Nanoseconds(s)
<1>1. /\ s.tv_sec \in Int /\ s.tv_nsec \in 0 .. (Second - 1)
      /\ e.tv_sec \in Int /\ e.tv_nsec \in 0 .. (Second - 1)
  BY DEF TimeSpec
<1>2. timeDiff(s, e) \in TimeSpec
  BY <1>1, UnitsTypes DEF timeDiff, TimeSpec
<1>3. /\ s.tv_sec * Second \in Int /\ e.tv_sec * Second \in Int
      /\ (e.tv_sec - s.tv_sec) * Second = e.tv_sec * Second - s.tv_sec * Second
      /\ (e.tv_sec - s.tv_sec - 1) * Second = e.tv_sec * Second - s.tv_sec * Second - Second
  BY <1>1, UnitsTypes, Products
<1>4. CASE e.tv_nsec < s.tv_nsec
  BY <1>1, <1>2, <1>3, <1>4, UnitsTypes DEF duration_clock_gettime, timeDiff, Nanoseconds
<1>5. CASE ~(e.tv_nsec < s.tv_nsec)
  BY <1>1, <1>2, <1>3, <1>5, UnitsTypes DEF duration_clock_gettime, timeDiff, Nanoseconds
<1> QED
  BY <1>4, <1>5

\* Adding a negative difference of microseconds (chayai_clock.c:217-221) needs no borrow.
THEOREM MicroDurationIsExact ==
  ASSUME NEW s \in TimeVal, NEW e \in TimeVal
  PROVE  duration_gettimeofday(s, e) = Microseconds(e) - Microseconds(s)
<1>1. /\ s.tv_sec \in Int /\ s.tv_usec \in Int
      /\ e.tv_sec \in Int /\ e.tv_usec \in Int
  BY DEF TimeVal
<1>2. /\ s.tv_sec * Second \in Int /\ e.tv_sec * Second \in Int
      /\ (e.tv_sec - s.tv_sec) * Second = e.tv_sec * Second - s.tv_sec * Second
  BY <1>1, UnitsTypes, Products
<1>3. /\ s.tv_usec * Micro \in Int /\ e.tv_usec * Micro \in Int
      /\ (e.tv_usec - s.tv_usec) * Micro = e.tv_usec * Micro - s.tv_usec * Micro
  BY <1>1, UnitsTypes, Products
<1> DEFINE a == s.tv_sec * Second
           b == e.tv_sec * Second
           c == s.tv_usec * Micro
           d == e.tv_usec * Micro
<1>4. duration_gettimeofday(s, e) = (b - a) + (d - c)
  BY <1>2, <1>3 DEF duration_gettimeofday
<1>5. Microseconds(e) = b + d /\ Microseconds(s) = a + c
  BY DEF Microseconds
<1>6. a \in Int /\ b \in Int /\ c \in Int /\ d \in Int
  BY <1>2, <1>3
<1> HIDE DEF a, b, c, d
<1> QED
  BY <1>4, <1>5, <1>6

\* Two readings of gettimeofday are apart by what passed, less than a microsecond off.
THEOREM MicroDurationOfReadings ==
  ASSUME NEW m \in Int, NEW n \in Int
  PROVE  LET error == duration_gettimeofday(now_gettimeofday(m), now_gettimeofday(n)) - (n - m)
         IN  error \in Int /\ error < Micro /\ error > -Micro
<1> DEFINE s == Microseconds(now_gettimeofday(m))
           e == Microseconds(now_gettimeofday(n))
           d == duration_gettimeofday(now_gettimeofday(m), now_gettimeofday(n))
<1>1. /\ now_gettimeofday(m) \in TimeVal /\ m - s \in 0 .. (Micro - 1)
      /\ now_gettimeofday(n) \in TimeVal /\ n - e \in 0 .. (Micro - 1)
  BY TimeValReadBack
<1>2. s \in Int /\ e \in Int
  BY <1>1, UnitsTypes, Products DEF Microseconds, TimeVal
<1>3. d = e - s
  BY <1>1, MicroDurationIsExact
<1> HIDE DEF s, e, d
<1>4. d - (n - m) \in Int /\ d - (n - m) < Micro /\ d - (n - m) > -Micro
  BY <1>1, <1>2, <1>3, UnitsTypes
<1> QED
  BY <1>4 DEF d
=============================================================================
