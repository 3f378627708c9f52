---------------------------- MODULE GatewayProofs ---------------------------
(***************************************************************************)
(* Proofs about Gateway, for every drive whose names are text and whose    *)
(* dates are the calendar's, every secret and every credential tried, and  *)
(* paths, texts and years of any size.  What recurs over a text is proved  *)
(* by induction on sets of numbers and of sequences (AllNumbers,           *)
(* AllSequences).                                                          *)
(***************************************************************************)
EXTENDS Gateway, TLAPS, WellFoundedInduction, SequenceTheorems, FiniteSetTheorems

(***************************************************************************)
(* Induction on numbers, upwards and downwards, of a set of the numbers    *)
(* for which a statement holds.                                            *)
(***************************************************************************)
LessThan == OpToRel(<, Nat)

\* A set of numbers that has 0 and with a number the next one has all of them.
LEMMA AllNumbers ==
  ASSUME NEW G, 0 \in G, \A k \in Nat : k \in G => k + 1 \in G
  PROVE  Nat \subseteq G
<1> DEFINE T == {k \in Nat : k \notin G}
<1>1. SUFFICES ASSUME T # {} PROVE FALSE
  OBVIOUS
<1>2. IsWellFoundedOn(LessThan, Nat)
  BY NatLessThanWellFounded DEF LessThan
<1>3. PICK m \in T : \A n \in T : ~ (<<n, m>> \in LessThan)
  BY <1>1, <1>2, WFMin
<1>4. m \in Nat /\ m # 0 /\ m - 1 \in Nat
  BY <1>3
<1>5. <<m - 1, m>> \in LessThan
  BY <1>4 DEF LessThan, OpToRel
<1>6. m - 1 \in G
  BY <1>3, <1>4, <1>5
<1> QED
  BY <1>3, <1>4, <1>6

\* The same up to a bound.
LEMMA Upwards ==
  ASSUME NEW n \in Nat, NEW G, 0 \in G, \A k \in 0..(n - 1) : k \in G => k + 1 \in G
  PROVE  0..n \subseteq G
<1> DEFINE H == {k \in Nat : k <= n => k \in G}
<1>1. Nat \subseteq H
  <2>1. 0 \in H
    OBVIOUS
  <2>2. ASSUME NEW k \in Nat, k \in H PROVE k + 1 \in H
    BY <2>2
  <2> HIDE DEF H
  <2> QED
    BY <2>1, <2>2, AllNumbers
<1> QED
  BY <1>1

\* The same downwards from a bound.
LEMMA Downwards ==
  ASSUME NEW n \in Nat, NEW G, n + 1 \in G,
         \A k \in 1..n : (k + 1)..(n + 1) \subseteq G => k \in G
  PROVE  1..(n + 1) \subseteq G
<1> DEFINE H == {k \in Nat : (n + 1 - k)..(n + 1) \cap (1..(n + 1)) \subseteq G}
<1>1. Nat \subseteq H
  <2>1. 0 \in H
    OBVIOUS
  <2>2. ASSUME NEW k \in Nat, k \in H PROVE k + 1 \in H
    <3>1. (n + 1 - k)..(n + 1) \cap (1..(n + 1)) \subseteq G
      BY <2>2
    <3>2. ASSUME n - k \in 1..n PROVE n - k \in G
      <4>1. (n - k + 1)..(n + 1) \subseteq G
        BY <3>1, <3>2
      <4> QED
        BY <3>2, <4>1
    <3>3. ASSUME NEW i \in (n + 1 - (k + 1))..(n + 1) \cap (1..(n + 1)) PROVE i \in G
      <4>1. CASE i = n - k
        BY <3>2, <3>3, <4>1
      <4>2. CASE i # n - k
        BY <3>1, <3>3, <4>2
      <4> QED
        BY <4>1, <4>2
    <3> QED
      BY <3>3
  <2> HIDE DEF H
  <2> QED
    BY <2>1, <2>2, AllNumbers
<1> QED
  BY <1>1

-----------------------------------------------------------------------------
(***************************************************************************)
(* Dates.  Both algorithms count years from March, so that the leap day is *)
(* the last of its year: `Shifted` is that year, `MonthFromMarch` 0 in     *)
(* March and 11 in February, `DayFromMarch` the days before in that year.  *)
(***************************************************************************)
Shifted(y, m) == IF m <= 2 THEN y - 1 ELSE y
\* Months are counted from March, so that the leap day is the last of a year.
MonthFromMarch(m) == IF m > 2 THEN m - 3 ELSE m + 9
DayFromMarch(m, d) == (153 * MonthFromMarch(m) + 2) \div 5 + d - 1

\* The leap days before March of year y, from March of the year 0 on.
LeapDays(y) == y \div 4 - y \div 100 + y \div 400

\* A day of the calendar.
RealDay(y, m, d) ==
    /\ y \in Int /\ m \in Int /\ d \in Int
    /\ 1 <= m /\ m <= 12 /\ 1 <= d /\ d <= MonthDays(y, m)

\* days_from_civil without its eras of 400 years.
LEMMA DaysAreCounted ==
  ASSUME NEW y \in Int, NEW m \in Int, NEW d \in Int
  PROVE  days_from_civil(y, m, d)
           = 365 * Shifted(y, m) + LeapDays(Shifted(y, m)) + DayFromMarch(m, d) - 719468
<1> DEFINE s == Shifted(y, m)
           yoe == s - (s \div 400) * 400
<1>1. s \in Int
  BY SMT DEF Shifted
<1>2. /\ days_from_civil(y, m, d) = (s \div 400) * 146097 + (yoe * 365 + Leaps(yoe) + DayFromMarch(m, d)) - 719468
  BY SMT DEF days_from_civil, Shifted, DayFromMarch, MonthFromMarch
<1> HIDE DEF s
<1>3. yoe \div 4 = s \div 4 - 100 * (s \div 400) /\ yoe \div 100 = s \div 100 - 4 * (s \div 400)
  BY <1>1, SMT
<1>4. Leaps(yoe) = s \div 4 - s \div 100 - 96 * (s \div 400)
  BY <1>1, <1>3, SMT DEF Leaps
<1>5. DayFromMarch(m, d) \in Int
  BY SMT DEF DayFromMarch, MonthFromMarch
<1>6. /\ s \div 4 \in Int /\ s \div 100 \in Int /\ s \div 400 \in Int
  BY <1>1, SMT
<1>7. (s \div 400) * 146097 + (yoe * 365 + Leaps(yoe) + DayFromMarch(m, d)) - 719468
        = 365 * s + LeapDays(s) + DayFromMarch(m, d) - 719468
  BY <1>1, <1>4, <1>5, <1>6, SMT DEF LeapDays
<1> QED
  BY <1>2, <1>7, SMT DEF s

(***************************************************************************)
(* A day of an era of 400 years: centuries, leap years and years of the    *)
(* era, and the day of the year, which is the 366th in leap years only.    *)
(***************************************************************************)
EraDay(c, q, r, doy) ==
    /\ c \in Int /\ q \in Int /\ r \in Int /\ doy \in Int
    /\ 0 <= c /\ c <= 3 /\ 0 <= q /\ q <= 24 /\ 0 <= r /\ r <= 3 /\ 0 <= doy /\ doy <= 365
    /\ doy = 365 => r = 3 /\ (q < 24 \/ c = 3)
\* The day of an era, from its century, four years, year and day.
DayOfEra(c, q, r, doy) == 36524 * c + 1461 * q + 365 * r + doy

\* The days of an era are numbered from 0 to 146096.
LEMMA EraDays ==
  ASSUME NEW c, NEW q, NEW r, NEW doy, EraDay(c, q, r, doy)
  PROVE  /\ DayOfEra(c, q, r, doy) \in Int
         /\ 0 <= DayOfEra(c, q, r, doy) /\ DayOfEra(c, q, r, doy) <= 146096
  BY SMT DEF EraDay, DayOfEra

\* What the days before 29 February of leap years, of centuries and of the era are taken out by.
LEMMA EraQuotients ==
  ASSUME NEW c, NEW q, NEW r, NEW doy, EraDay(c, q, r, doy)
  PROVE  \E leap \in Int, end \in Int :
            /\ DayOfEra(c, q, r, doy) \div 1460 = 25 * c + q + leap
            /\ DayOfEra(c, q, r, doy) \div 36524 = c + end
            /\ DayOfEra(c, q, r, doy) \div 146096 = end
            /\ 0 <= doy - leap /\ doy - leap <= 364
<1> DEFINE doe == DayOfEra(c, q, r, doy)
           rest == 24 * c + q + 365 * r + doy
           t == 1461 * q + 365 * r + doy
           leap == IF rest < 1460 THEN 0 ELSE 1
           end == IF doe = 146096 THEN 1 ELSE 0
<1> USE DEF EraDay
<1>1. rest \in Int /\ 0 <= rest /\ rest <= 1556 /\ doe = 1460 * (25 * c + q) + rest
  BY SMT DEF DayOfEra
<1>2. t \in Int /\ 0 <= t /\ t <= 36524 /\ (t = 36524 => c = 3) /\ doe = 36524 * c + t
  BY SMT DEF DayOfEra
<1>3. doe \div 1460 = 25 * c + q + leap
  <2> DEFINE k == 25 * c + q
  <2>1. k \in Int
    OBVIOUS
  <2> HIDE DEF rest, doe, k
  <2>2. doe \div 1460 = k + leap
    BY <1>1, <2>1, SMT DEF k
  <2> QED
    BY <2>2 DEF k
<1>4. doe \div 36524 = c + end /\ doe \div 146096 = end
  <2> HIDE DEF t, doe
  <2>1. t = 36524 => doe = 146096
    BY <1>2, SMT
  <2>2. t < 36524 => 0 <= doe /\ doe < 146096
    BY <1>2, SMT
  <2>3. CASE t = 36524
    BY <1>2, <2>1, <2>3, SMT
  <2>4. CASE t < 36524
    BY <1>2, <2>2, <2>4, SMT
  <2> QED
    BY <1>2, <2>3, <2>4, SMT
<1>5. 0 <= doy - leap /\ doy - leap <= 364 /\ leap \in Int /\ end \in Int
  BY SMT
<1> HIDE DEF leap, end
<1> USE <1>5
<1> WITNESS leap \in Int, end \in Int
<1> QED
  BY <1>3, <1>4, <1>5, SMT

\* civil_from_days finds the year of the era, on the last day of the year too.
LEMMA YearOfEra ==
  ASSUME NEW c, NEW q, NEW r, NEW doy, EraDay(c, q, r, doy), NEW doe, doe = DayOfEra(c, q, r, doy)
  PROVE  (doe - doe \div 1460 + doe \div 36524 - doe \div 146096) \div 365 = 100 * c + 4 * q + r
<1>1. PICK leap \in Int, end \in Int :
            /\ doe \div 1460 = 25 * c + q + leap
            /\ doe \div 36524 = c + end
            /\ doe \div 146096 = end
            /\ 0 <= doy - leap /\ doy - leap <= 364
  BY EraQuotients
<1> DEFINE yoe == 100 * c + 4 * q + r
<1>2. yoe \in Int /\ doe \in Int /\ doe = 365 * yoe + 24 * c + q + doy
  BY SMT DEF EraDay, DayOfEra
<1>3. doy \in Int /\ c \in Int /\ q \in Int
  BY DEF EraDay
<1> HIDE DEF yoe
<1>4. doe - doe \div 1460 + doe \div 36524 - doe \div 146096 = 365 * yoe + (doy - leap)
  BY <1>1, <1>2, <1>3, SMT
<1>5. (365 * yoe + (doy - leap)) \div 365 = yoe
  BY <1>1, <1>2, <1>3, SMT
<1> QED
  BY <1>4, <1>5 DEF yoe

\* The month and the day come back from the day of the year.
LEMMA MonthOfYear ==
  ASSUME NEW y, NEW m, NEW d, RealDay(y, m, d)
  PROVE  /\ (5 * DayFromMarch(m, d) + 2) \div 153 = MonthFromMarch(m)
         /\ DayFromMarch(m, d) - (153 * MonthFromMarch(m) + 2) \div 5 + 1 = d
         /\ DayFromMarch(m, d) \in Int /\ 0 <= DayFromMarch(m, d) /\ DayFromMarch(m, d) <= 365
         /\ DayFromMarch(m, d) = 365 => m = 2 /\ LeapYear(y)
<1>1. m \in 1..12 /\ d \in 1..31 /\ d <= MonthDays(y, m)
  <2>1. MonthDays(y, m) \in 28..31
    BY DEF MonthDays
  <2> QED
    BY <2>1 DEF RealDay
<1>2. (m = 2 => d <= IF LeapYear(y) THEN 29 ELSE 28) /\ (m \in {4, 6, 9, 11} => d <= 30)
  BY <1>1 DEF MonthDays
<1> QED
  BY <1>1, <1>2, SMT DEF DayFromMarch, MonthFromMarch

\* A year of an era is so many centuries, leap years and years.
LEMMA YearParts ==
  ASSUME NEW n \in Int, 0 <= n, n <= 399
  PROVE  \E c \in Int, q \in Int, r \in Int :
            /\ n = 100 * c + 4 * q + r
            /\ 0 <= c /\ c <= 3 /\ 0 <= q /\ q <= 24 /\ 0 <= r /\ r <= 3
<1> DEFINE c == n \div 100
           q == (n - 100 * c) \div 4
           r == n - 100 * c - 4 * q
<1>1. c \in Int /\ 0 <= c /\ c <= 3 /\ 0 <= n - 100 * c /\ n - 100 * c <= 99
  BY SMT
<1> HIDE DEF c
<1>2. /\ q \in Int /\ r \in Int /\ n = 100 * c + 4 * q + r
      /\ 0 <= q /\ q <= 24 /\ 0 <= r /\ r <= 3
  BY <1>1, SMT
<1> HIDE DEF q, r
<1> QED
  BY <1>1, <1>2

\* civil_from_days of the days that are counted is the date they were counted for.
LEMMA CivilBack ==
  ASSUME NEW y, NEW m, NEW d, RealDay(y, m, d)
  PROVE  civil_from_days(days_from_civil(y, m, d)) = <<y, m, d>>
<1> DEFINE s == Shifted(y, m)
           era == s \div 400
           yoe == s - era * 400
           doy == DayFromMarch(m, d)
           doe == yoe * 365 + Leaps(yoe) + doy
           days == days_from_civil(y, m, d)
           z == days + 719468
<1>1. s \in Int /\ era \in Int /\ yoe \in Int /\ 0 <= yoe /\ yoe <= 399
  BY SMT DEF Shifted, RealDay
<1>2. doy \in Int /\ 0 <= doy /\ doy <= 365 /\ (doy = 365 => m = 2 /\ LeapYear(y))
  BY MonthOfYear
<1>3. PICK c \in Int, q \in Int, r \in Int :
            /\ yoe = 100 * c + 4 * q + r
            /\ 0 <= c /\ c <= 3 /\ 0 <= q /\ q <= 24 /\ 0 <= r /\ r <= 3
  <2> HIDE DEF yoe
  <2> QED
    BY <1>1, YearParts
<1>4. doy = 365 => r = 3 /\ (q < 24 \/ c = 3)
  <2> SUFFICES ASSUME doy = 365 PROVE r = 3 /\ (q < 24 \/ c = 3)
    OBVIOUS
  <2>1. y = s + 1 /\ LeapYear(y)
    BY <1>2, SMT DEF Shifted, RealDay
  <2>2. s = era * 400 + yoe
    <3> HIDE DEF s, era
    <3> QED
      BY <1>1, SMT
  <2> HIDE DEF s, era, yoe, doy
  <2>3. y = era * 400 + 100 * c + 4 * q + r + 1
    BY <1>1, <1>3, <2>1, <2>2, SMT
  <2>4. y % 4 = (r + 1) % 4 /\ y % 100 = (4 * q + r + 1) % 100 /\ y % 400 = (100 * c + 4 * q + r + 1) % 400
    BY <1>1, <1>3, <2>3, SMT
  <2>5. y % 4 = 0 /\ (y % 100 = 0 => y % 400 = 0)
    BY <2>1 DEF LeapYear
  <2> QED
    BY <1>3, <2>4, <2>5, SMT
<1>5. EraDay(c, q, r, doy)
  <2> HIDE DEF doy, yoe
  <2> QED
    BY <1>2, <1>3, <1>4, SMT DEF EraDay
<1>6. doe = DayOfEra(c, q, r, doy)
  <2>1. yoe \div 4 = 25 * c + q /\ yoe \div 100 = c
    <3> HIDE DEF yoe
    <3> QED
      BY <1>3, SMT
  <2> HIDE DEF doy, yoe
  <2> QED
    BY <1>2, <1>3, <2>1, SMT DEF Leaps, DayOfEra
<1>7. doe \in Int /\ 0 <= doe /\ doe <= 146096
  <2> HIDE DEF doe, doy
  <2> QED
    BY <1>5, <1>6, EraDays
<1>8. (doe - doe \div 1460 + doe \div 36524 - doe \div 146096) \div 365 = yoe
  <2> HIDE DEF doe, doy, yoe
  <2> QED
    BY <1>3, <1>5, <1>6, YearOfEra
<1>9. z = era * 146097 + doe /\ z \in Int /\ days \in Int
  <2>1. days = era * 146097 + doe - 719468
    BY SMT DEF days_from_civil, Shifted, DayFromMarch, MonthFromMarch
  <2> HIDE DEF doe, era, days
  <2> QED
    BY <1>1, <1>7, <2>1, SMT
<1>10. z \div 146097 = era /\ z - era * 146097 = doe
  <2> HIDE DEF z, doe, era
  <2> QED
    BY <1>1, <1>7, <1>9, SMT
<1>11. doe - (365 * yoe + Leaps(yoe)) = doy
  <2>1. Leaps(yoe) \in Int
    <3> HIDE DEF yoe
    <3> QED
      BY <1>1, SMT DEF Leaps
  <2> HIDE DEF yoe, doy
  <2> QED
    BY <1>1, <1>2, <2>1, SMT
<1>12. /\ (5 * doy + 2) \div 153 = MonthFromMarch(m)
       /\ doy - (153 * MonthFromMarch(m) + 2) \div 5 + 1 = d
  BY MonthOfYear
<1>13. (IF MonthFromMarch(m) < 10 THEN MonthFromMarch(m) + 3 ELSE MonthFromMarch(m) - 9) = m
  BY SMT DEF MonthFromMarch, RealDay
<1>14. yoe + era * 400 + (IF m <= 2 THEN 1 ELSE 0) = y
  <2>1. s = IF m <= 2 THEN y - 1 ELSE y
    BY DEF Shifted
  <2> HIDE DEF s, era
  <2> QED
    BY <1>1, <2>1, SMT DEF RealDay
<1> HIDE DEF z, doe, doy, yoe, era
<1> QED
  BY <1>8, <1>10, <1>11, <1>12, <1>13, <1>14, SMT DEF civil_from_days, z

\* The first day of a month, from the first of January on.
MonthStart(y, m) ==
    IF m <= 2 THEN 31 * (m - 1)
    ELSE DayFromMarch(m, 1) + 59 + (IF LeapYear(y) THEN 1 ELSE 0)

\* Month after month, as CalendarDate counts them.
MonthsOf(y, months) == months = [k \in 1..12 |-> IF k = 1 THEN 0 ELSE months[k - 1] + MonthDays(y, k - 1)]

\* The days of the months before a month, counted one by one, are those of the formula.
LEMMA MonthsCounted ==
  ASSUME NEW y \in Int, NEW m \in 1..12
  PROVE  DaysBefore(y, m)
           = 365 * (y - 1970) + Cardinality({x \in 1970..(y - 1) : LeapYear(x)}) + MonthStart(y, m)
<1> DEFINE months == CHOOSE f : MonthsOf(y, f)
           starts == [k \in 1..12 |-> MonthStart(y, k)]
<1>1. \A k \in 1..12 : k # 1 => MonthStart(y, k) = MonthStart(y, k - 1) + MonthDays(y, k - 1)
  <2> SUFFICES ASSUME NEW k \in 2..12 PROVE MonthStart(y, k) = MonthStart(y, k - 1) + MonthDays(y, k - 1)
    OBVIOUS
  <2>1. CASE k = 2
    BY <2>1 DEF MonthStart, MonthDays
  <2>2. CASE k = 3
    BY <2>2 DEF MonthStart, MonthDays, DayFromMarch, MonthFromMarch
  <2>3. CASE k > 3
    BY <2>3 DEF MonthStart, MonthDays, DayFromMarch, MonthFromMarch
  <2> QED
    BY <2>1, <2>2, <2>3
<1>2. MonthStart(y, 1) = 0 /\ \A k \in 1..12 : MonthStart(y, k) \in Int
  BY DEF MonthStart, DayFromMarch, MonthFromMarch
<1>3. MonthsOf(y, starts)
  <2>1. \A k \in 1..12 : starts[k] = IF k = 1 THEN 0 ELSE starts[k - 1] + MonthDays(y, k - 1)
    BY <1>1, <1>2
  <2> QED
    BY <2>1 DEF MonthsOf
<1>4. MonthsOf(y, months)
  BY <1>3
<1>5. \A k \in 1..12 : months[k] = IF k = 1 THEN 0 ELSE months[k - 1] + MonthDays(y, k - 1)
  <2> HIDE DEF months
  <2> QED
    BY <1>4 DEF MonthsOf
<1> DEFINE G == {k \in 0..11 : months[k + 1] = MonthStart(y, k + 1)}
<1>6. 0..11 \subseteq G
  <2> HIDE DEF months
  <2>1. 0 \in G
    BY <1>2, <1>5
  <2>2. ASSUME NEW k \in 0..(11 - 1), k \in G PROVE k + 1 \in G
    <3>1. k + 2 \in 1..12 /\ k + 2 # 1 /\ k + 2 - 1 = k + 1 /\ k + 1 + 1 = k + 2 /\ k + 1 \in 0..11
      OBVIOUS
    <3>2. months[k + 2] = months[k + 1] + MonthDays(y, k + 1)
      BY <1>5, <3>1
    <3>3. MonthStart(y, k + 2) = MonthStart(y, k + 1) + MonthDays(y, k + 1)
      BY <1>1, <3>1
    <3>4. months[k + 1 + 1] = MonthStart(y, k + 1 + 1)
      BY <2>2, <3>1, <3>2, <3>3
    <3> QED
      BY <3>1, <3>4
  <2> HIDE DEF G
  <2> QED
    BY <2>1, <2>2, Upwards
<1>7. months[m] = MonthStart(y, m)
  <2>1. m - 1 \in 0..11 /\ m - 1 + 1 = m
    OBVIOUS
  <2> HIDE DEF months
  <2> QED
    BY <1>6, <2>1
<1>8. DaysBefore(y, m) = 365 * (y - 1970) + Cardinality({x \in 1970..(y - 1) : LeapYear(x)}) + months[m]
  BY DEF DaysBefore, MonthsOf
<1> QED
  BY <1>7, <1>8

\* A year adds a leap day if it is a leap year.
LEMMA LeapDaysStep ==
  ASSUME NEW y \in Int
  PROVE  LeapDays(y) = LeapDays(y - 1) + (IF LeapYear(y) THEN 1 ELSE 0) /\ LeapDays(y) \in Int
<1>1. /\ y \div 4 = (y - 1) \div 4 + (IF y % 4 = 0 THEN 1 ELSE 0)
      /\ y \div 100 = (y - 1) \div 100 + (IF y % 100 = 0 THEN 1 ELSE 0)
      /\ y \div 400 = (y - 1) \div 400 + (IF y % 400 = 0 THEN 1 ELSE 0)
  OBVIOUS
<1>2. /\ y % 400 = 0 => y % 100 = 0
      /\ y % 100 = 0 => y % 4 = 0
  OBVIOUS
<1> QED
  BY <1>1, <1>2 DEF LeapDays, LeapYear

\* The leap years since 1970, counted one by one.
LEMMA LeapYearsCounted ==
  ASSUME NEW y \in Nat, y >= 1970
  PROVE  Cardinality({x \in 1970..(y - 1) : LeapYear(x)}) = LeapDays(y - 1) - 477
<1> DEFINE leaps(k) == {x \in 1970..(1970 + k - 1) : LeapYear(x)}
           G == {k \in Nat : IsFiniteSet(leaps(k)) /\ Cardinality(leaps(k)) = LeapDays(1970 + k - 1) - 477}
<1>1. 0 \in G
  <2>1. leaps(0) = {}
    OBVIOUS
  <2>2. LeapDays(1970 + 0 - 1) = 477
    BY DEF LeapDays
  <2> HIDE DEF leaps
  <2> QED
    BY <2>1, <2>2, FS_EmptySet
<1>2. ASSUME NEW k \in Nat, k \in G PROVE k + 1 \in G
  <2>1. LeapDays(1970 + k) = LeapDays(1970 + k - 1) + (IF LeapYear(1970 + k) THEN 1 ELSE 0)
        /\ LeapDays(1970 + k - 1) \in Int
    BY LeapDaysStep
  <2>2. 1970 + (k + 1) - 1 = 1970 + k
    OBVIOUS
  <2>3. CASE LeapYear(1970 + k)
    <3>1. leaps(k + 1) = leaps(k) \cup {1970 + k} /\ 1970 + k \notin leaps(k)
      BY <2>3
    <3> HIDE DEF leaps
    <3> QED
      BY <1>2, <2>1, <2>2, <2>3, <3>1, FS_AddElement
  <2>4. CASE ~LeapYear(1970 + k)
    <3>1. leaps(k + 1) = leaps(k)
      BY <2>4
    <3> HIDE DEF leaps
    <3> QED
      BY <1>2, <2>1, <2>2, <2>4, <3>1
  <2> QED
    BY <2>3, <2>4
<1>3. Nat \subseteq G
  <2> HIDE DEF G
  <2> QED
    BY <1>1, <1>2, AllNumbers
<1>4. y - 1970 \in G /\ 1970 + (y - 1970) - 1 = y - 1
  BY <1>3
<1> QED
  BY <1>4

\* The two ways to count the days before a date agree.
LEMMA DaysAgree ==
  ASSUME NEW y, y >= 1970, NEW m, NEW d, RealDay(y, m, d)
  PROVE  DaysBefore(y, m) \in Int /\ DaysBefore(y, m) + d - 1 = days_from_civil(y, m, d)
<1> USE DEF RealDay
<1> DEFINE L == LeapDays(y - 1)
<1>0. y \in Nat /\ m \in 1..12
  OBVIOUS
<1>1. DaysBefore(y, m) = 365 * (y - 1970) + (L - 477) + MonthStart(y, m) /\ L \in Int
  <2>1. DaysBefore(y, m)
          = 365 * (y - 1970) + Cardinality({x \in 1970..(y - 1) : LeapYear(x)}) + MonthStart(y, m)
    BY <1>0, MonthsCounted
  <2>2. Cardinality({x \in 1970..(y - 1) : LeapYear(x)}) = L - 477
    BY <1>0, LeapYearsCounted
  <2>3. y - 1 \in Int
    OBVIOUS
  <2>4. L \in Int
    BY <2>3, LeapDaysStep
  <2> HIDE DEF L
  <2> QED
    BY <2>1, <2>2, <2>4
<1>2. LeapDays(y) = L + (IF LeapYear(y) THEN 1 ELSE 0)
  BY LeapDaysStep
<1>3. days_from_civil(y, m, d)
           = 365 * Shifted(y, m) + LeapDays(Shifted(y, m)) + DayFromMarch(m, d) - 719468
  BY DaysAreCounted
<1>4. CASE m <= 2
  <2>1. Shifted(y, m) = y - 1 /\ LeapDays(Shifted(y, m)) = L
    BY <1>4 DEF Shifted
  <2>2. MonthStart(y, m) = 31 * (m - 1) /\ DayFromMarch(m, d) = 306 + 31 * (m - 1) + d - 1
    BY <1>4 DEF MonthStart, DayFromMarch, MonthFromMarch
  <2> HIDE DEF L
  <2> QED
    BY <1>1, <1>3, <2>1, <2>2
<1>5. CASE m > 2
  <2>1. Shifted(y, m) = y
    BY <1>5 DEF Shifted
  <2>2. MonthStart(y, m) = DayFromMarch(m, 1) + 59 + (IF LeapYear(y) THEN 1 ELSE 0)
    BY <1>5 DEF MonthStart
  <2>3. DayFromMarch(m, d) = DayFromMarch(m, 1) + d - 1 /\ DayFromMarch(m, 1) \in Int
    BY DEF DayFromMarch, MonthFromMarch
  <2> HIDE DEF L
  <2> QED
    BY <1>1, <1>2, <1>3, <2>1, <2>2, <2>3
<1> QED
  BY <1>4, <1>5

\* Before 1970 the days are negative, after it they are not.
LEMMA EpochSplits ==
  ASSUME NEW y, NEW m, NEW d, RealDay(y, m, d)
  PROVE  /\ days_from_civil(y, m, d) \in Int
         /\ y < 1970 => days_from_civil(y, m, d) < 0
         /\ y >= 1970 => days_from_civil(y, m, d) >= 0
<1> USE DEF RealDay
<1> DEFINE s == Shifted(y, m)
<1>1. days_from_civil(y, m, d) = 365 * s + LeapDays(s) + DayFromMarch(m, d) - 719468
  BY DaysAreCounted
<1>2. s \in Int /\ LeapDays(s) \in Int
  BY DEF Shifted, LeapDays
<1>3. DayFromMarch(m, d) \in 0..365 /\ (m > 2 => DayFromMarch(m, d) <= 305) /\ (m <= 2 => DayFromMarch(m, d) >= 306)
  BY DEF DayFromMarch, MonthFromMarch, MonthDays
<1>4. /\ s <= 1968 => 365 * s + LeapDays(s) <= 718797
      /\ s = 1969 => 365 * s + LeapDays(s) = 719162
      /\ s >= 1970 => 365 * s + LeapDays(s) >= 719527
  BY <1>2 DEF LeapDays
<1>5. (m > 2 => s = y) /\ (m <= 2 => s = y - 1)
  BY DEF Shifted
<1> HIDE DEF s
<1> QED
  BY <1>1, <1>2, <1>3, <1>4, <1>5

\* The parts of a date or of a time of day.
LEMMA PartOfDate ==
  ASSUME NEW stamp \in Seq(Int), Len(stamp) = 6, NEW k \in {1, 4}
  PROVE  SubSeq(stamp, k, k + 2) = <<stamp[k], stamp[k + 1], stamp[k + 2]>>
<1> DEFINE part == SubSeq(stamp, k, k + 2)
           parts == <<stamp[k], stamp[k + 1], stamp[k + 2]>>
<1>1. \A i \in k..(k + 2) : i \in 1..Len(stamp)
  OBVIOUS
<1>2. \A i \in k..(k + 2) : stamp[i] \in Int
  BY <1>1, ElementOfSeq
<1>3. part \in Seq(Int) /\ Len(part) = 3 /\ \A i \in 1..3 : part[i] = stamp[k + i - 1]
  BY <1>2, SubSeqProperties
<1>4. parts \in Seq(Int) /\ Len(parts) = 3
  BY <1>2
<1>5. ASSUME NEW i \in 1..3 PROVE part[i] = parts[i]
  <2> HIDE DEF part
  <2>1. i = 1 \/ i = 2 \/ i = 3
    OBVIOUS
  <2> QED
    BY <1>3, <2>1
<1>6. part = parts
  <2> HIDE DEF part, parts
  <2> QED
    BY <1>3, <1>4, <1>5, SeqEqual
<1> QED
  BY <1>6

\* What a PROPFIND says of the date of an entry is that date.
LEMMA PartsBack ==
  ASSUME NEW y, NEW m, NEW d, RealDay(y, m, d), y \in Nat,
         NEW h \in Nat, NEW mi \in Nat, NEW s \in Nat, h <= 23, mi <= 59, s <= 59
  PROVE  http_date(parse_iso8601_to_unix(<<y, m, d, h, mi, s>>)) = CalendarDate(<<y, m, d, h, mi, s>>)
<1> DEFINE stamp == <<y, m, d, h, mi, s>>
           secs == 3600 * h + 60 * mi + s
           days == days_from_civil(y, m, d)
           unix == Unix(days, secs)
<1>1. /\ Len(stamp) = 6
      /\ stamp[1] = y /\ stamp[2] = m /\ stamp[3] = d
      /\ stamp[4] = h /\ stamp[5] = mi /\ stamp[6] = s
      /\ SubSeq(stamp, 1, 3) = <<y, m, d>> /\ SubSeq(stamp, 4, 6) = <<h, mi, s>>
  <2>1. /\ Len(stamp) = 6
        /\ stamp[1] = y /\ stamp[2] = m /\ stamp[3] = d
        /\ stamp[4] = h /\ stamp[5] = mi /\ stamp[6] = s
    OBVIOUS
  <2>2. stamp \in Seq(Int)
    <3>1. y \in Int /\ m \in Int /\ d \in Int /\ h \in Int /\ mi \in Int /\ s \in Int
      BY DEF RealDay
    <3> QED
      BY <3>1
  <2> HIDE DEF stamp
  <2>3. SubSeq(stamp, 1, 3) = <<y, m, d>>
    BY <2>1, <2>2, PartOfDate
  <2>4. SubSeq(stamp, 4, 6) = <<h, mi, s>>
    BY <2>1, <2>2, PartOfDate
  <2> QED
    BY <2>1, <2>3, <2>4
<1> SUFFICES http_date(parse_iso8601_to_unix(stamp)) = CalendarDate(stamp)
  OBVIOUS
<1> HIDE DEF stamp
<1>2. y \in Int /\ days \in Int /\ (y < 1970 => days < 0) /\ (y >= 1970 => days >= 0) /\ secs \in Nat /\ secs < 86400
  <2>1. secs \in Nat /\ secs < 86400
    OBVIOUS
  <2>3. days \in Int /\ (y < 1970 => days < 0) /\ (y >= 1970 => days >= 0)
    BY EpochSplits
  <2> HIDE DEF days, secs
  <2> QED
    BY <2>1, <2>3
<1>3. secs \div 86400 = 0 /\ secs % 86400 = secs
  <2> HIDE DEF secs
  <2> QED
    BY <1>2
<1>4. unix = [days |-> days, secs |-> secs]
  <2> HIDE DEF secs, days
  <2> QED
    BY <1>2, <1>3 DEF Unix
<1>5. parse_iso8601_to_unix(stamp) = IF days < 0 THEN Unix(0, 0) ELSE unix
  <2>1. ~ (Len(stamp) < 6) /\ unix.days = days
    <3> HIDE DEF secs, days
    <3> QED
      BY <1>1, <1>4
  <2>2. parse_iso8601_to_unix(stamp) = IF unix.days < 0 THEN Unix(0, 0) ELSE unix
    BY <1>1, <2>1 DEF parse_iso8601_to_unix
  <2> QED
    BY <2>1, <2>2
<1>6. CASE y < 1970
  <2>1. parse_iso8601_to_unix(stamp) = [days |-> 0, secs |-> 0]
    <3>1. Unix(0, 0) = [days |-> 0, secs |-> 0]
      BY DEF Unix
    <3> HIDE DEF days, unix
    <3> QED
      BY <1>2, <1>5, <1>6, <3>1
  <2>2. civil_from_days(0) = <<1970, 1, 1>>
    BY DEF civil_from_days, Leaps
  <2>3. http_date([days |-> 0, secs |-> 0]) = [weekday |-> 4, date |-> <<1970, 1, 1>>, time |-> <<0, 0, 0>>]
    BY <2>2 DEF http_date
  <2>4. stamp[1] < 1970
    BY <1>1, <1>6
  <2> HIDE DEF days, secs, unix
  <2> QED
    BY <2>1, <2>3, <2>4 DEF CalendarDate
<1>7. CASE y >= 1970
  <2>1. parse_iso8601_to_unix(stamp) = [days |-> days, secs |-> secs]
    <3> HIDE DEF days, secs, unix
    <3> QED
      BY <1>1, <1>2, <1>4, <1>5, <1>7
  <2>2. civil_from_days(days) = <<y, m, d>>
    BY CivilBack
  <2>3. DaysBefore(y, m) \in Int /\ DaysBefore(y, m) + d - 1 = days
    BY <1>7, DaysAgree
  <2>4. 4 + DaysBefore(y, m) + d - 1 = 4 + days
    <3>1. d \in Int
      BY DEF RealDay
    <3> HIDE DEF days
    <3> QED
      BY <1>2, <2>3, <3>1
  <2>5. ((days % 7) + 11) % 7 = (4 + days) % 7
    <3> HIDE DEF days
    <3> QED
      BY <1>2
  <2>6. /\ secs \div 3600 = h /\ (secs \div 60) % 60 = mi /\ secs % 60 = s
    <3>1. secs \div 60 = 60 * h + mi
      BY <1>1
    <3>2. (60 * h + mi) % 60 = mi
      BY <1>1
    <3>3. secs \div 3600 = h /\ secs % 60 = s
      BY <1>1
    <3> QED
      BY <3>1, <3>2, <3>3
  <2>8. http_date([days |-> days, secs |-> secs])
          = [weekday |-> (4 + days) % 7, date |-> <<y, m, d>>, time |-> <<h, mi, s>>]
    <3> HIDE DEF days, secs
    <3> QED
      BY <2>2, <2>5, <2>6 DEF http_date
  <2>9. CalendarDate(stamp)
          = [weekday |-> (4 + days) % 7, date |-> <<y, m, d>>, time |-> <<h, mi, s>>]
    <3>1. ~ (stamp[1] < 1970)
      BY <1>1, <1>7
    <3>2. CalendarDate(stamp)
            = [weekday |-> (4 + DaysBefore(stamp[1], stamp[2]) + stamp[3] - 1) % 7,
               date |-> SubSeq(stamp, 1, 3), time |-> SubSeq(stamp, 4, 6)]
      BY <3>1 DEF CalendarDate
    <3> HIDE DEF days
    <3> QED
      BY <1>1, <2>4, <3>2
  <2> QED
    BY <2>1, <2>8, <2>9
<1> QED
  BY <1>2, <1>6, <1>7

\* A timestamp of the calendar comes out of its round trip as the calendar has it.
LEMMA DateBack ==
  ASSUME NEW stamp, RealDate(stamp)
  PROVE  http_date(parse_iso8601_to_unix(stamp)) = CalendarDate(stamp)
<1> DEFINE parts == <<stamp[1], stamp[2], stamp[3], stamp[4], stamp[5], stamp[6]>>
<1>1. /\ stamp \in Seq(Nat) /\ Len(stamp) = 6
      /\ stamp[2] \in 1..12 /\ stamp[3] \in 1..MonthDays(stamp[1], stamp[2])
      /\ stamp[4] \in 0..23 /\ stamp[5] \in 0..59 /\ stamp[6] \in 0..59
  BY DEF RealDate
<1>2. /\ \A i \in 1..6 : stamp[i] \in Nat
      /\ stamp[1] \in Nat /\ stamp[2] \in Nat /\ stamp[3] \in Nat
      /\ stamp[4] \in Nat /\ stamp[5] \in Nat /\ stamp[6] \in Nat
  <2>1. \A i \in 1..6 : stamp[i] \in Nat
    BY <1>1, ElementOfSeq
  <2> QED
    BY <2>1
<1>3. MonthDays(stamp[1], stamp[2]) \in 28..31
  BY DEF MonthDays
<1>4. stamp[3] \in 1..31 /\ stamp[3] <= MonthDays(stamp[1], stamp[2])
  <2>1. stamp[3] \in 1..MonthDays(stamp[1], stamp[2])
    BY <1>1
  <2> QED
    BY <1>3, <2>1
<1>5. stamp = parts
  <2>1. parts \in Seq(Nat) /\ Len(parts) = 6
    BY <1>2
  <2>2. ASSUME NEW i \in 1..6 PROVE stamp[i] = parts[i]
    <3>1. i = 1 \/ i = 2 \/ i = 3 \/ i = 4 \/ i = 5 \/ i = 6
      OBVIOUS
    <3> QED
      BY <3>1
  <2> HIDE DEF parts
  <2> QED
    BY <1>1, <2>1, <2>2, SeqEqual
<1>6. http_date(parse_iso8601_to_unix(parts)) = CalendarDate(parts)
  <2>1. /\ stamp[4] \in 0..23 /\ stamp[5] \in 0..59 /\ stamp[6] \in 0..59
        /\ stamp[4] \in Nat /\ stamp[5] \in Nat /\ stamp[6] \in Nat
        /\ stamp[1] \in Nat
    BY <1>1, <1>2
  <2>2. stamp[2] \in 1..12
    BY <1>1
  <2> QED
    <3>1. stamp[4] <= 23 /\ stamp[5] <= 59 /\ stamp[6] <= 59
      BY <2>1
    <3>2. RealDay(stamp[1], stamp[2], stamp[3])
      BY <1>4, <2>1, <2>2 DEF RealDay
    <3> QED
      BY <2>1, <3>1, <3>2, PartsBack
<1> QED
  BY <1>5, <1>6

-----------------------------------------------------------------------------
(***************************************************************************)
(* Sequences by their first element: the conversions are recursive, and    *)
(* each is known by what it gives for the empty sequence and for one with  *)
(* an element more in front.                                               *)
(***************************************************************************)
\* A sequence with an element more in front.
LEMMA ConsProperties ==
  ASSUME NEW S, NEW c \in S, NEW t \in Seq(S)
  PROVE  /\ <<c>> \o t \in Seq(S) /\ <<c>> \o t # <<>>
         /\ Len(<<c>> \o t) = Len(t) + 1
         /\ (<<c>> \o t)[1] = c
         /\ \A i \in 1..Len(t) : (<<c>> \o t)[i + 1] = t[i]
         /\ Head(<<c>> \o t) = c /\ Tail(<<c>> \o t) = t
<1> DEFINE s == <<c>> \o t
<1>1. <<c>> \in Seq(S) /\ Len(<<c>>) = 1 /\ <<c>>[1] = c
  OBVIOUS
<1>2. /\ s \in Seq(S) /\ Len(s) = 1 + Len(t)
      /\ \A i \in 1..(1 + Len(t)) : s[i] = IF i <= 1 THEN <<c>>[i] ELSE t[i - 1]
  BY <1>1, ConcatProperties
<1>3. Len(t) \in Nat
  BY LenProperties
<1>4. Len(s) = Len(t) + 1 /\ s[1] = c /\ \A i \in 1..Len(t) : s[i + 1] = t[i]
  <2> HIDE DEF s
  <2>1. s[1] = <<c>>[1]
    BY <1>2, <1>3
  <2>2. ASSUME NEW i \in 1..Len(t) PROVE s[i + 1] = t[i]
    <3>1. i + 1 \in 1..(1 + Len(t)) /\ ~ (i + 1 <= 1) /\ i + 1 - 1 = i
      BY <1>3
    <3> QED
      BY <1>2, <3>1
  <2> QED
    BY <1>1, <1>2, <1>3, <2>1, <2>2
<1>5. s # <<>>
  <2> HIDE DEF s
  <2> QED
    BY <1>3, <1>4
<1>6. Head(s) = c
  <2> HIDE DEF s
  <2> QED
    BY <1>4, <1>5 DEF Head
<1>7. Tail(s) = t
  <2> HIDE DEF s
  <2>1. /\ Tail(s) \in Seq(S) /\ Len(Tail(s)) = Len(s) - 1
        /\ \A i \in 1..Len(Tail(s)) : Tail(s)[i] = s[i + 1]
    BY <1>2, <1>5, HeadTailProperties
  <2>2. Len(Tail(s)) = Len(t)
    BY <1>3, <1>4, <2>1
  <2>3. \A i \in 1..Len(t) : Tail(s)[i] = t[i]
    BY <1>4, <2>1, <2>2
  <2> QED
    BY <2>1, <2>2, <2>3, SeqEqual
<1> QED
  BY <1>2, <1>4, <1>5, <1>6, <1>7

\* A sequence is its first element and the others.
LEMMA ConsOf ==
  ASSUME NEW S, NEW s \in Seq(S), s # <<>>
  PROVE  /\ Head(s) \in S /\ Tail(s) \in Seq(S) /\ Len(Tail(s)) = Len(s) - 1
         /\ s = <<Head(s)>> \o Tail(s)
<1> DEFINE r == <<Head(s)>> \o Tail(s)
<1>1. /\ Head(s) \in S /\ Tail(s) \in Seq(S) /\ Len(Tail(s)) = Len(s) - 1
      /\ \A i \in 1..Len(Tail(s)) : Tail(s)[i] = s[i + 1]
  BY HeadTailProperties
<1>2. Len(s) \in Nat \ {0}
  BY EmptySeq
<1>3. /\ r \in Seq(S) /\ Len(r) = Len(Tail(s)) + 1 /\ r[1] = Head(s)
      /\ \A i \in 1..Len(Tail(s)) : r[i + 1] = Tail(s)[i]
  BY <1>1, ConsProperties
<1>4. Head(s) = s[1]
  BY DEF Head
<1>5. s = r
  <2> HIDE DEF r
  <2>1. Len(s) = Len(r)
    BY <1>1, <1>2, <1>3
  <2>2. ASSUME NEW i \in 1..Len(s) PROVE s[i] = r[i]
    <3>1. CASE i = 1
      BY <1>3, <1>4, <3>1
    <3>2. CASE i # 1
      <4>1. i - 1 \in 1..Len(Tail(s)) /\ i - 1 + 1 = i
        BY <1>1, <1>2, <3>2
      <4> QED
        BY <1>1, <1>3, <4>1
    <3> QED
      BY <3>1, <3>2
  <2> QED
    BY <1>3, <2>1, <2>2, SeqEqual
<1> QED
  BY <1>1, <1>5

\* Induction: a set with the empty sequence that may grow in front has all sequences.
LEMMA AllSequences ==
  ASSUME NEW S, NEW G, <<>> \in G, \A c \in S, t \in Seq(S) : t \in G => <<c>> \o t \in G
  PROVE  Seq(S) \subseteq G
<1> DEFINE H == {n \in Nat : \A s \in Seq(S) : Len(s) = n => s \in G}
<1>1. 0 \in H
  BY EmptySeq
<1>2. ASSUME NEW n \in Nat, n \in H PROVE n + 1 \in H
  <2>1. ASSUME NEW s \in Seq(S), Len(s) = n + 1 PROVE s \in G
    <3>1. s # <<>>
      BY <2>1, EmptySeq
    <3>2. Head(s) \in S /\ Tail(s) \in Seq(S) /\ Len(Tail(s)) = n /\ s = <<Head(s)>> \o Tail(s)
      BY <2>1, <3>1, ConsOf
    <3>3. Tail(s) \in G
      BY <1>2, <3>2
    <3> QED
      BY <3>2, <3>3
  <2> QED
    BY <2>1
<1>3. Nat \subseteq H
  <2> HIDE DEF H
  <2> QED
    BY <1>1, <1>2, AllNumbers
<1>4. ASSUME NEW s \in Seq(S) PROVE s \in G
  <2>1. Len(s) \in H
    <3>1. Len(s) \in Nat
      BY LenProperties
    <3> HIDE DEF H
    <3> QED
      BY <1>3, <3>1
  <2> QED
    BY <2>1
<1> QED
  BY <1>4

(***************************************************************************)
(* A function that is given at n + 1, and at each position before that by  *)
(* its value at a later one, `wide[i]` positions on, exists.               *)
(***************************************************************************)
GoesDown(n, V, last, wide, H) ==
    /\ n \in Nat /\ last \in V /\ wide \in [1..n -> Nat \ {0}]
    /\ \A i \in 1..n : i + wide[i] <= n + 1
    /\ H \in [(1..n) \X V -> V]
\* f is what the steps H give, from the last one down.
StepsDown(f, n, last, wide, H) ==
    f[n + 1] = last /\ \A i \in 1..n : f[i] = H[<<i, f[i + wide[i]]>>]

\* There is such a function: what a recursive function of the model is, it is.
LEMMA DefinedDownwards ==
  ASSUME NEW n, NEW V, NEW last, NEW wide, NEW H, GoesDown(n, V, last, wide, H)
  PROVE  \E f \in [1..(n + 1) -> V] : StepsDown(f, n, last, wide, H)
<1> USE DEF GoesDown
<1> DEFINE Fits(k, f) == f[n + 1] = last /\ \A i \in k..n : f[i] = H[<<i, f[i + wide[i]]>>]
           G == {k \in 0..n : \E f \in [(n + 1 - k)..(n + 1) -> V] : Fits(n + 1 - k, f)}
<1>1. 0 \in G
  <2> DEFINE f == [i \in (n + 1)..(n + 1) |-> last]
  <2>1. f \in [(n + 1)..(n + 1) -> V] /\ Fits(n + 1, f)
    OBVIOUS
  <2>2. n + 1 - 0 = n + 1 /\ 0 \in 0..n
    OBVIOUS
  <2> HIDE DEF f, Fits
  <2> QED
    BY <2>1, <2>2
<1>2. ASSUME NEW k \in 0..(n - 1), k \in G PROVE k + 1 \in G
  <2>1. PICK f \in [(n + 1 - k)..(n + 1) -> V] : Fits(n + 1 - k, f)
    BY <1>2
  <2> DEFINE at == n - k
  <2>2. /\ at \in 1..n /\ at + 1 = n + 1 - k /\ at = n + 1 - (k + 1) /\ k + 1 \in 0..n
        /\ at + wide[at] \in (at + 1)..(n + 1)
    OBVIOUS
  <2> HIDE DEF at
  <2> DEFINE g == [i \in at..(n + 1) |-> IF i = at THEN H[<<at, f[at + wide[at]]>>] ELSE f[i]]
  <2>3. H[<<at, f[at + wide[at]]>>] \in V
    <3>1. f[at + wide[at]] \in V
      BY <2>1, <2>2
    <3> QED
      BY <2>2, <3>1
  <2>4. g \in [at..(n + 1) -> V]
    <3>1. ASSUME NEW i \in at..(n + 1), i # at PROVE f[i] \in V
      <4>1. i \in (n + 1 - k)..(n + 1)
        BY <2>2, <3>1
      <4> QED
        BY <4>1
    <3> QED
      BY <2>3, <3>1
  <2>5. \A i \in (at + 1)..(n + 1) : g[i] = f[i]
    BY <2>2
  <2>9. g[at] = H[<<at, f[at + wide[at]]>>]
    BY <2>2
  <2>6. g[n + 1] = last
    BY <2>1, <2>2, <2>5
  <2>7. ASSUME NEW i \in at..n PROVE g[i] = H[<<i, g[i + wide[i]]>>]
    <3>1. i + wide[i] \in (at + 1)..(n + 1)
      BY <2>2
    <3>2. g[i + wide[i]] = f[i + wide[i]]
      BY <2>5, <3>1
    <3>3. CASE i = at
      <4> HIDE DEF g
      <4> QED
        BY <2>9, <3>2, <3>3
    <3>4. CASE i # at
      <4>1. i \in (n + 1 - k)..n /\ i \in (at + 1)..(n + 1)
        BY <2>2, <3>4
      <4>2. f[i] = H[<<i, f[i + wide[i]]>>]
        BY <2>1, <4>1
      <4> QED
        BY <2>5, <3>2, <4>1, <4>2
    <3> QED
      BY <3>3, <3>4
  <2> HIDE DEF g
  <2>8. g \in [(n + 1 - (k + 1))..(n + 1) -> V] /\ Fits(n + 1 - (k + 1), g)
    BY <2>2, <2>4, <2>6, <2>7
  <2> QED
    BY <2>2, <2>8
<1>3. n \in G
  <2> HIDE DEF G
  <2>1. 0..n \subseteq G
    BY <1>1, <1>2, Upwards
  <2> QED
    BY <2>1
<1>4. PICK f \in [(n + 1 - n)..(n + 1) -> V] : Fits(n + 1 - n, f)
  BY <1>3
<1>5. n + 1 - n = 1
  OBVIOUS
<1> QED
  BY <1>4, <1>5 DEF StepsDown

(***************************************************************************)
(* Two such functions agree where the one is the other further on, if      *)
(* their steps are the same there.                                         *)
(***************************************************************************)
AgreesDown(n, p, f, g) ==
    /\ n \in Nat /\ p \in Nat /\ f[p + n + 1] = g[n + 1]
    /\ \A i \in 1..n : (\A j \in (i + 1)..(n + 1) : f[p + j] = g[j]) => f[p + i] = g[i]

\* Two that agree on how they go down agree everywhere, though one starts later than the other.
LEMMA SameDownwards ==
  ASSUME NEW n, NEW p, NEW f, NEW g, AgreesDown(n, p, f, g)
  PROVE  \A i \in 1..(n + 1), k \in Nat : k = p + i => f[k] = g[i]
<1> USE DEF AgreesDown
<1> DEFINE G == {i \in 1..(n + 1) : f[p + i] = g[i]}
<1>1. n + 1 \in G
  <2>1. p + (n + 1) = p + n + 1
    OBVIOUS
  <2> QED
    BY <2>1
<1>2. ASSUME NEW k \in 1..n, (k + 1)..(n + 1) \subseteq G PROVE k \in G
  <2>1. \A j \in (k + 1)..(n + 1) : f[p + j] = g[j]
    BY <1>2
  <2> QED
    BY <2>1
<1>3. 1..(n + 1) \subseteq G
  <2> HIDE DEF G
  <2> QED
    BY <1>1, <1>2, Downwards
<1> QED
  BY <1>3

\* So do two of the same length with the same steps.
LEMMA SameFirst ==
  ASSUME NEW n, NEW p, p = 0, NEW f, NEW g, AgreesDown(n, p, f, g)
  PROVE  f[1] = g[1]
<1>1. n \in Nat
  BY DEF AgreesDown
<1>2. 1 \in 1..(n + 1) /\ 1 \in Nat /\ 1 = p + 1
  BY <1>1
<1>3. \A i \in 1..(n + 1), k \in Nat : k = p + i => f[k] = g[i]
  BY SameDownwards
<1> QED
  BY <1>2, <1>3

-----------------------------------------------------------------------------
(***************************************************************************)
(* FlattenSeq, of the community modules.                                   *)
(***************************************************************************)
Flattens(f, ss) == f = [i \in 1..Len(ss) |-> IF i = 1 THEN ss[i] ELSE f[i - 1] \o ss[i]]

\* What FlattenSeq has put together after each of the sequences.
FlatSteps(f, ss) ==
    /\ f[0] = <<>>
    /\ \A i \in 1..Len(ss), j \in 0..Len(ss) : i = j + 1 => f[i] = f[j] \o ss[i]

\* There are such steps.
LEMMA FlatStepsExist ==
  ASSUME NEW S, NEW ss \in Seq(Seq(S))
  PROVE  \E f \in [0..Len(ss) -> Seq(S)] : FlatSteps(f, ss)
<1> DEFINE n == Len(ss)
           Fits(k, f) == f[0] = <<>> /\ \A i \in 1..k : f[i] = f[i - 1] \o ss[i]
           G == {k \in 0..n : \E f \in [0..k -> Seq(S)] : Fits(k, f)}
<1>1. n \in Nat /\ \A i \in 1..n : ss[i] \in Seq(S)
  BY LenProperties
<1> HIDE DEF n
<1>2. 0 \in G
  <2> DEFINE f == [i \in 0..0 |-> <<>>]
  <2>1. f \in [0..0 -> Seq(S)] /\ Fits(0, f)
    OBVIOUS
  <2>2. 0 \in 0..n
    BY <1>1
  <2> HIDE DEF f, Fits
  <2> QED
    BY <2>1, <2>2
<1>3. ASSUME NEW k \in 0..(n - 1), k \in G PROVE k + 1 \in G
  <2>1. PICK f \in [0..k -> Seq(S)] : Fits(k, f)
    BY <1>3
  <2> DEFINE g == [i \in 0..(k + 1) |-> IF i <= k THEN f[i] ELSE f[k] \o ss[k + 1]]
  <2>2. k + 1 \in 1..n /\ k + 1 \in 0..n
    BY <1>1
  <2>3. f[k] \o ss[k + 1] \in Seq(S)
    BY <1>1, <2>2, ConcatProperties
  <2>4. g \in [0..(k + 1) -> Seq(S)]
    BY <2>3
  <2>5. \A i \in 0..k : g[i] = f[i]
    OBVIOUS
  <2>6. g[k + 1] = g[k] \o ss[k + 1]
    <3>1. k + 1 \in 0..(k + 1) /\ ~ (k + 1 <= k) /\ k \in 0..k
      OBVIOUS
    <3>2. g[k + 1] = f[k] \o ss[k + 1]
      BY <3>1
    <3> HIDE DEF g
    <3> QED
      BY <2>5, <3>1, <3>2
  <2>7. ASSUME NEW i \in 1..(k + 1) PROVE g[i] = g[i - 1] \o ss[i]
    <3> HIDE DEF g
    <3>1. CASE i = k + 1
      <4>1. i - 1 = k
        BY <3>1
      <4> QED
        BY <2>6, <3>1, <4>1
    <3>2. CASE i # k + 1
      <4>1. i \in 1..k /\ i \in 0..k /\ i - 1 \in 0..k
        BY <3>2
      <4>2. f[i] = f[i - 1] \o ss[i]
        BY <2>1, <4>1
      <4> QED
        BY <2>5, <4>1, <4>2
    <3> QED
      BY <3>1, <3>2
  <2>8. g[0] = <<>>
    BY <2>1
  <2> HIDE DEF g
  <2>9. Fits(k + 1, g)
    BY <2>7, <2>8
  <2> HIDE DEF Fits
  <2> QED
    BY <2>2, <2>4, <2>9
<1>4. n \in G
  <2> HIDE DEF G
  <2>1. 0..n \subseteq G
    BY <1>1, <1>2, <1>3, Upwards
  <2> QED
    BY <1>1, <2>1
<1>5. PICK f \in [0..n -> Seq(S)] : Fits(n, f)
  BY <1>4
<1>6. \A i \in 1..n, j \in 0..n : i = j + 1 => f[i] = f[j] \o ss[i]
  <2> SUFFICES ASSUME NEW i \in 1..n, NEW j \in 0..n, i = j + 1 PROVE f[i] = f[j] \o ss[i]
    OBVIOUS
  <2>1. i - 1 = j
    OBVIOUS
  <2> QED
    BY <1>5, <2>1
<1> QED
  BY <1>5, <1>6 DEF FlatSteps, n

\* FlattenSeq is what is there after the last of them.
LEMMA FlattenIsLast ==
  ASSUME NEW S, NEW ss \in Seq(Seq(S))
  PROVE  \E f \in [0..Len(ss) -> Seq(S)] : FlatSteps(f, ss) /\ FlattenSeq(ss) = f[Len(ss)]
<1>1. PICK f \in [0..Len(ss) -> Seq(S)] : FlatSteps(f, ss)
  BY FlatStepsExist
<1>2. Len(ss) \in Nat /\ \A i \in 1..Len(ss) : ss[i] \in Seq(S)
  BY LenProperties
<1>3. CASE Len(ss) = 0
  <2>1. ss = <<>>
    BY <1>3, EmptySeq
  <2>2. FlattenSeq(ss) = <<>>
    BY <1>3, <2>1 DEF FlattenSeq
  <2>3. f[0] = <<>>
    BY <1>1 DEF FlatSteps
  <2> QED
    BY <1>1, <1>3, <2>2, <2>3
<1>4. CASE Len(ss) # 0
  <2> DEFINE h == [i \in 1..Len(ss) |-> f[i]]
             c == CHOOSE e : Flattens(e, ss)
  <2>1. Flattens(h, ss)
    <3>1. ASSUME NEW i \in 1..Len(ss) PROVE h[i] = IF i = 1 THEN ss[i] ELSE h[i - 1] \o ss[i]
      <4>1. f[i] = f[i - 1] \o ss[i]
        <5>1. i - 1 \in 0..Len(ss) /\ i = i - 1 + 1
          BY <1>2
        <5> QED
          BY <1>1, <5>1 DEF FlatSteps
      <4>2. CASE i = 1
        <5>1. f[i - 1] = <<>>
          BY <1>1, <4>2 DEF FlatSteps
        <5>2. <<>> \o ss[i] = ss[i]
          BY <1>2, ConcatEmptySeq
        <5> QED
          BY <4>1, <4>2, <5>1, <5>2
      <4>3. CASE i # 1
        <5>1. i - 1 \in 1..Len(ss)
          BY <1>2, <4>3
        <5> QED
          BY <4>1, <4>3, <5>1
      <4> QED
        BY <4>2, <4>3
    <3>2. h = [i \in 1..Len(ss) |-> h[i]]
      OBVIOUS
    <3> HIDE DEF h
    <3>3. [i \in 1..Len(ss) |-> h[i]] = [i \in 1..Len(ss) |-> IF i = 1 THEN ss[i] ELSE h[i - 1] \o ss[i]]
      BY <3>1
    <3> QED
      BY <3>2, <3>3 DEF Flattens
  <2>2. Flattens(c, ss)
    BY <2>1
  <2>3. FlattenSeq(ss) = c[Len(ss)]
    BY <1>4 DEF FlattenSeq, Flattens
  <2>4. \A i \in 1..Len(ss) : c[i] = IF i = 1 THEN ss[i] ELSE c[i - 1] \o ss[i]
    <3> HIDE DEF c
    <3> QED
      BY <2>2 DEF Flattens
  <2> HIDE DEF c
  <2> DEFINE G == {k \in 0..Len(ss) : k = 0 \/ c[k] = f[k]}
  <2>5. 0 \in G
    BY <1>2
  <2>6. ASSUME NEW k \in 0..(Len(ss) - 1), k \in G PROVE k + 1 \in G
    <3>1. k + 1 \in 1..Len(ss) /\ k \in 0..Len(ss) /\ k + 1 - 1 = k /\ k + 1 \in 0..Len(ss)
      BY <1>2
    <3>2. f[k + 1] = f[k] \o ss[k + 1]
      BY <1>1, <1>2, <3>1 DEF FlatSteps
    <3>3. CASE k = 0
      <4>1. f[0] = <<>> /\ <<>> \o ss[1] = ss[1]
        BY <1>1, <1>2, <3>1, <3>3, ConcatEmptySeq DEF FlatSteps
      <4>2. c[1] = ss[1]
        <5>1. 1 \in 1..Len(ss)
          BY <3>1, <3>3
        <5>2. c[1] = IF 1 = 1 THEN ss[1] ELSE c[1 - 1] \o ss[1]
          BY <2>4, <5>1
        <5> QED
          BY <5>2
      <4> QED
        BY <3>1, <3>2, <3>3, <4>1, <4>2
    <3>4. CASE k # 0
      <4>1. c[k + 1] = c[k] \o ss[k + 1]
        <5>1. c[k + 1] = IF k + 1 = 1 THEN ss[k + 1] ELSE c[k + 1 - 1] \o ss[k + 1]
          BY <2>4, <3>1
        <5>2. k + 1 # 1
          BY <3>4
        <5> QED
          BY <3>1, <5>1, <5>2
      <4> QED
        BY <2>6, <3>1, <3>2, <3>4, <4>1
    <3> QED
      BY <3>3, <3>4
  <2>7. 0..Len(ss) \subseteq G
    <3> HIDE DEF G
    <3> QED
      BY <1>2, <2>5, <2>6, Upwards
  <2>8. c[Len(ss)] = f[Len(ss)]
    BY <1>2, <1>4, <2>7
  <2> QED
    BY <1>1, <2>3, <2>8
<1> QED
  BY <1>3, <1>4

\* FlattenSeq of no sequences, and of one more in front.
LEMMA FlattenNone == FlattenSeq(<<>>) = <<>>
  BY DEF FlattenSeq

\* What is flattened with one sequence more in front.
LEMMA FlattenCons ==
  ASSUME NEW S, NEW x \in Seq(S), NEW ss \in Seq(Seq(S))
  PROVE  /\ FlattenSeq(ss) \in Seq(S) /\ FlattenSeq(<<x>> \o ss) \in Seq(S)
         /\ FlattenSeq(<<x>> \o ss) = x \o FlattenSeq(ss)
<1> DEFINE all == <<x>> \o ss
           n == Len(ss)
<1>0. \A a, b \in Seq(S) : (x \o a) \o b = x \o (a \o b)
  BY ConcatAssociative, SMTT(30)
<1>1. /\ all \in Seq(Seq(S)) /\ Len(all) = n + 1 /\ all[1] = x
      /\ \A i \in 1..n : all[i + 1] = ss[i]
  BY ConsProperties
<1>2. n \in Nat /\ \A i \in 1..n : ss[i] \in Seq(S)
  BY LenProperties
<1>3. PICK f \in [0..Len(ss) -> Seq(S)] : FlatSteps(f, ss) /\ FlattenSeq(ss) = f[Len(ss)]
  BY FlattenIsLast
<1>4. PICK g \in [0..Len(all) -> Seq(S)] : FlatSteps(g, all) /\ FlattenSeq(all) = g[Len(all)]
  <2> HIDE DEF all
  <2> QED
    BY <1>1, FlattenIsLast
<1>5. f[0] = <<>> /\ \A i \in 1..n, j \in 0..n : i = j + 1 => f[i] = f[j] \o ss[i]
  BY <1>3 DEF FlatSteps
<1> HIDE DEF all, n
<1>6. g[0] = <<>> /\ \A i \in 1..(n + 1), j \in 0..(n + 1) : i = j + 1 => g[i] = g[j] \o all[i]
  BY <1>1, <1>4 DEF FlatSteps
<1> DEFINE G == {k \in 0..n : g[k + 1] = x \o f[k]}
<1>7. 0 \in G
  <2>1. 1 \in 1..(n + 1) /\ 0 \in 0..n /\ 0 \in 0..(n + 1) /\ 1 = 0 + 1
    BY <1>2
  <2>2. g[1] = g[0] \o all[1]
    BY <1>6, <2>1
  <2>3. g[1] = x /\ x \o f[0] = x
    BY <1>1, <1>5, <1>6, <2>2, ConcatEmptySeq
  <2> QED
    BY <2>1, <2>3
<1>8. ASSUME NEW k \in 0..(n - 1), k \in G PROVE k + 1 \in G
  <2>1. k + 1 \in 1..n /\ k + 2 \in 1..(n + 1) /\ k + 1 \in 0..n /\ k \in 0..n /\ k + 1 \in 0..(n + 1) /\ k + 2 = k + 1 + 1
    BY <1>2
  <2>2. g[k + 2] = g[k + 1] \o all[k + 2]
    BY <1>6, <2>1
  <2>3. f[k + 1] = f[k] \o ss[k + 1]
    BY <1>5, <2>1
  <2>4. all[k + 2] = ss[k + 1]
    <3>1. k + 1 + 1 = k + 2
      BY <1>2
    <3> QED
      BY <1>1, <2>1, <3>1
  <2>5. f[k] \in Seq(S) /\ ss[k + 1] \in Seq(S)
    BY <1>2, <2>1 DEF n
  <2>6. g[k + 2] = x \o f[k + 1]
    <3>1. (x \o f[k]) \o ss[k + 1] = x \o (f[k] \o ss[k + 1])
      BY <1>0, <2>5
    <3> QED
      BY <1>8, <2>2, <2>3, <2>4, <3>1
  <2>7. k + 1 + 1 = k + 2
    BY <1>2
  <2> QED
    BY <2>1, <2>6, <2>7
<1>9. n \in G
  <2> HIDE DEF G
  <2>1. 0..n \subseteq G
    BY <1>2, <1>7, <1>8, Upwards
  <2> QED
    BY <1>2, <2>1
<1>10. FlattenSeq(ss) = f[n] /\ FlattenSeq(all) = g[n + 1] /\ f[n] \in Seq(S) /\ g[n + 1] \in Seq(S)
  <2>1. f \in [0..n -> Seq(S)] /\ FlattenSeq(ss) = f[n]
    BY <1>3 DEF n
  <2>2. g \in [0..(n + 1) -> Seq(S)] /\ FlattenSeq(all) = g[n + 1]
    BY <1>1, <1>4
  <2>3. n \in 0..n /\ n + 1 \in 0..(n + 1)
    BY <1>2
  <2> QED
    BY <2>1, <2>2, <2>3
<1> QED
  BY <1>9, <1>10 DEF all

(***************************************************************************)
(* A conversion that writes a piece for each element, F[c] for c.          *)
(***************************************************************************)
Spell(F, s) == FlattenSeq([i \in DOMAIN s |-> F[s[i]]])

\* F has a piece for every element of B.
Pieces(F, B, S) == F \in [B -> Seq(S)]

\* Nothing for nothing, and for one element more its piece in front.
SpellsOut(F, B, S) ==
    /\ Spell(F, <<>>) = <<>>
    /\ \A t \in Seq(B) : Spell(F, t) \in Seq(S)
    /\ \A c \in B, t \in Seq(B) : Spell(F, <<c>> \o t) = F[c] \o Spell(F, t)

\* It is defined by that.
LEMMA SpellCons == ASSUME NEW B, NEW S, NEW F, Pieces(F, B, S) PROVE SpellsOut(F, B, S)
<1> USE DEF Pieces
<1> DEFINE Map(s) == [i \in DOMAIN s |-> F[s[i]]]
<1>1. Spell(F, <<>>) = <<>>
  <2>1. Map(<<>>) = <<>>
    OBVIOUS
  <2> QED
    BY <2>1, FlattenNone DEF Spell
<1>2. ASSUME NEW t \in Seq(B)
      PROVE  Map(t) \in Seq(Seq(S)) /\ Len(Map(t)) = Len(t) /\ \A i \in 1..Len(t) : Map(t)[i] = F[t[i]]
  <2>1. Len(t) \in Nat /\ DOMAIN t = 1..Len(t) /\ \A i \in 1..Len(t) : t[i] \in B
    BY LenProperties
  <2>2. \A i \in 1..Len(t) : F[t[i]] \in Seq(S)
    BY <2>1
  <2>3. Map(t) = [i \in 1..Len(t) |-> F[t[i]]]
    BY <2>1
  <2>4. Map(t) \in [1..Len(t) -> Seq(S)]
    BY <2>2, <2>3
  <2>5. Map(t) \in Seq(Seq(S))
    BY <2>1, <2>4, SeqDef
  <2>6. Len(Map(t)) = Len(t)
    <3>1. DOMAIN Map(t) = 1..Len(t)
      BY <2>3
    <3> HIDE DEF Map
    <3> QED
      BY <2>1, <3>1
  <2> QED
    BY <2>3, <2>5, <2>6
<1>3. ASSUME NEW c \in B, NEW t \in Seq(B) PROVE Map(<<c>> \o t) = <<F[c]>> \o Map(t)
  <2> DEFINE s == <<c>> \o t
             r == <<F[c]>> \o Map(t)
  <2>1. /\ s \in Seq(B) /\ Len(s) = Len(t) + 1 /\ s[1] = c
        /\ \A i \in 1..Len(t) : s[i + 1] = t[i]
    BY ConsProperties
  <2>2. Map(t) \in Seq(Seq(S)) /\ Len(Map(t)) = Len(t) /\ \A i \in 1..Len(t) : Map(t)[i] = F[t[i]]
    BY <1>2
  <2>3. Map(s) \in Seq(Seq(S)) /\ Len(Map(s)) = Len(s) /\ \A i \in 1..Len(s) : Map(s)[i] = F[s[i]]
    <3> HIDE DEF s, Map
    <3> QED
      BY <1>2, <2>1
  <2>4. F[c] \in Seq(S)
    OBVIOUS
  <2> HIDE DEF Map, s
  <2>5. /\ r \in Seq(Seq(S)) /\ Len(r) = Len(Map(t)) + 1 /\ r[1] = F[c]
        /\ \A i \in 1..Len(Map(t)) : r[i + 1] = Map(t)[i]
    BY <2>2, <2>4, ConsProperties
  <2>6. Len(t) \in Nat
    BY LenProperties
  <2> HIDE DEF r
  <2>7. ASSUME NEW i \in 1..Len(s) PROVE Map(s)[i] = r[i]
    <3>1. CASE i = 1
      BY <2>1, <2>3, <2>5, <3>1
    <3>2. CASE i # 1
      <4> DEFINE j == i - 1
      <4>1. j \in 1..Len(t) /\ j + 1 = i
        BY <2>1, <2>6, <3>2
      <4> HIDE DEF j
      <4>2. r[j + 1] = F[t[j]] /\ s[j + 1] = t[j]
        BY <2>1, <2>2, <2>5, <4>1
      <4> QED
        BY <2>3, <4>1, <4>2
    <3> QED
      BY <3>1, <3>2
  <2>8. Len(Map(s)) = Len(r)
    BY <2>1, <2>2, <2>3, <2>5
  <2>9. Map(s) = r
    BY <2>3, <2>5, <2>7, <2>8, SeqEqual
  <2> QED
    BY <2>9 DEF s, r
<1>4. ASSUME NEW t \in Seq(B) PROVE Spell(F, t) \in Seq(S)
  <2> HIDE DEF Map
  <2>1. FlattenSeq(Map(t)) \in Seq(S)
    <3>1. Map(t) \in Seq(Seq(S)) /\ <<>> \in Seq(S)
      BY <1>2
    <3> QED
      BY <3>1, FlattenCons
  <2> QED
    BY <2>1 DEF Spell, Map
<1>5. ASSUME NEW c \in B, NEW t \in Seq(B) PROVE Spell(F, <<c>> \o t) = F[c] \o Spell(F, t)
  <2>1. Spell(F, <<c>> \o t) = FlattenSeq(Map(<<c>> \o t)) /\ Spell(F, t) = FlattenSeq(Map(t))
    BY DEF Spell
  <2>2. Map(t) \in Seq(Seq(S)) /\ F[c] \in Seq(S)
    BY <1>2
  <2> HIDE DEF Map
  <2>3. FlattenSeq(<<F[c]>> \o Map(t)) = F[c] \o FlattenSeq(Map(t))
    BY <2>2, FlattenCons
  <2>4. Map(<<c>> \o t) = <<F[c]>> \o Map(t)
    BY <1>3
  <2> QED
    BY <2>1, <2>3, <2>4
<1> QED
  BY <1>1, <1>4, <1>5 DEF SpellsOut

-----------------------------------------------------------------------------
(***************************************************************************)
(* The loop of pct_decode.  Wide is how far it goes on at position i, and  *)
(* Decoded what it returns there if the rest of the text decodes to rest.  *)
(***************************************************************************)
Text == Seq(Byte)
\* What a conversion gives that may fail.
TextOrNone == Text \cup {None}

\* How far the loop of pct_decode goes at a position, whether an escape is broken there, and the byte.
Wide(s, i) == IF s[i] = Percent /\ i + 2 <= Len(s) THEN 3 ELSE 1
Broken(s, i) == s[i] = Percent /\ (i + 2 > Len(s) \/ HexValue(s[i + 1]) = None \/ HexValue(s[i + 2]) = None)
ByteAt(s, i) == IF s[i] = Percent THEN 16 * HexValue(s[i + 1]) + HexValue(s[i + 2]) ELSE s[i]
\* What it gives from a position on, after the rest.
Decoded(s, i, rest) == IF Broken(s, i) \/ rest = None THEN None ELSE <<ByteAt(s, i)>> \o rest
\* The steps of the loop, from the end to the front.
UnescapeSteps(f, s) ==
    f[Len(s) + 1] = <<>> /\ \A i \in 1..Len(s) : f[i] = Decoded(s, i, f[i + Wide(s, i)])

\* The same as Unescaped says it.
Unescapes(f, s) ==
    LET escape(i) == IF i + 2 > Len(s) THEN <<None>> ELSE <<HexValue(s[i + 1]), HexValue(s[i + 2])>>
    IN  f = [i \in 1..(Len(s) + 1) |->
            LET width == IF s[i] = Percent THEN 3 ELSE 1
                byte == IF width = 1 THEN s[i] ELSE 16 * escape(i)[1] + escape(i)[2]
                rest == f[i + width]
            IN  IF i > Len(s) THEN <<>>
                ELSE IF width = 3 /\ None \in ToSet(escape(i)) THEN None
                ELSE IF rest = None THEN None
                ELSE <<byte>> \o rest]

\* A hex digit is worth 0 to 15.
LEMMA HexValues == \A b \in Byte : HexValue(b) = None \/ HexValue(b) \in 0..15
  BY DEF HexValue, Byte

\* None is neither text nor a sequence of texts.
LEMMA NoneIsNoText == None \notin Text /\ None \notin Seq(Text) /\ None \notin Int /\ <<>> \in Text
<1>1. Text \subseteq Seq(Int)
  <2> SUFFICES ASSUME NEW s \in Seq(Byte) PROVE s \in Seq(Int)
    BY DEF Text
  <2>1. Byte \subseteq Int
    BY DEF Byte
  <2> QED
    BY <2>1, SeqMonotonic
<1>2. Seq(Text) \subseteq Seq(Seq(Int))
  <2> SUFFICES ASSUME NEW s \in Seq(Text) PROVE s \in Seq(Seq(Int))
    OBVIOUS
  <2> QED
    BY <1>1, SeqMonotonic
<1>3. <<>> \in Text
  BY DEF Text
<1> QED
  BY <1>1, <1>2, <1>3, NoneAssumption

\* At a position of a text, what its loop adds is a byte.
LEMMA StepIsText ==
  ASSUME NEW s \in Text, NEW i \in 1..Len(s), NEW rest \in TextOrNone
  PROVE  Decoded(s, i, rest) \in TextOrNone
<1>1. Len(s) \in Nat /\ \A j \in 1..Len(s) : s[j] \in Byte
  BY LenProperties DEF Text
<1>2. CASE Broken(s, i) \/ rest = None
  BY <1>2 DEF Decoded, TextOrNone
<1>3. CASE ~ (Broken(s, i) \/ rest = None)
  <2>1. ByteAt(s, i) \in Byte
    <3>1. CASE s[i] = Percent
      <4>1. i + 2 <= Len(s) /\ HexValue(s[i + 1]) # None /\ HexValue(s[i + 2]) # None
        BY <1>1, <1>3, <3>1 DEF Broken
      <4>2. s[i + 1] \in Byte /\ s[i + 2] \in Byte
        BY <1>1, <4>1
      <4>3. HexValue(s[i + 1]) \in 0..15 /\ HexValue(s[i + 2]) \in 0..15
        BY <4>1, <4>2, HexValues
      <4>4. \A h, l \in 0..15 : 16 * h + l \in 0..255
        BY SMT
      <4>5. ByteAt(s, i) = 16 * HexValue(s[i + 1]) + HexValue(s[i + 2])
        BY <3>1 DEF ByteAt
      <4> DEFINE h == HexValue(s[i + 1])
                 l == HexValue(s[i + 2])
      <4>6. h \in 0..15 /\ l \in 0..15 /\ ByteAt(s, i) = 16 * h + l
        BY <4>3, <4>5
      <4> HIDE DEF h, l
      <4>7. 16 * h + l \in Byte
        BY <4>4, <4>6 DEF Byte
      <4> QED
        BY <4>6, <4>7
    <3>2. CASE s[i] # Percent
      BY <1>1, <3>2 DEF ByteAt
    <3> QED
      BY <3>1, <3>2
  <2>2. rest \in Seq(Byte)
    BY <1>3 DEF TextOrNone, Text
  <2>3. <<ByteAt(s, i)>> \o rest \in Seq(Byte)
    BY <2>1, <2>2, ConsProperties
  <2> QED
    BY <1>3, <2>3 DEF Decoded, TextOrNone, Text
<1> QED
  BY <1>2, <1>3

\* The loop is the function of the text that its steps say.
LEMMA UnescapeStepsExist ==
  ASSUME NEW s \in Text
  PROVE  \E f \in [1..(Len(s) + 1) -> TextOrNone] : UnescapeSteps(f, s)
<1> DEFINE n == Len(s)
           wide == [i \in 1..n |-> Wide(s, i)]
           H == [x \in (1..n) \X TextOrNone |-> Decoded(s, x[1], x[2])]
<1>1. n \in Nat
  BY LenProperties DEF Text
<1>2. wide \in [1..n -> Nat \ {0}] /\ \A i \in 1..n : i + wide[i] <= n + 1
  BY <1>1 DEF Wide
<1>3. H \in [(1..n) \X TextOrNone -> TextOrNone]
  BY StepIsText
<1>4. <<>> \in TextOrNone
  BY NoneIsNoText DEF TextOrNone
<1>5. PICK f \in [1..(n + 1) -> TextOrNone] :
         f[n + 1] = <<>> /\ \A i \in 1..n : f[i] = H[<<i, f[i + wide[i]]>>]
  <2> HIDE DEF n, wide, H
  <2>1. GoesDown(n, TextOrNone, <<>>, wide, H)
    BY <1>1, <1>2, <1>3, <1>4 DEF GoesDown
  <2>2. \E f \in [1..(n + 1) -> TextOrNone] : StepsDown(f, n, <<>>, wide, H)
    BY <2>1, DefinedDownwards
  <2> QED
    BY <2>2 DEF StepsDown
<1>6. ASSUME NEW i \in 1..n PROVE f[i] = Decoded(s, i, f[i + Wide(s, i)])
  <2>1. i + wide[i] \in 1..(n + 1) /\ wide[i] = Wide(s, i)
    <3>1. wide[i] \in Nat \ {0} /\ i + wide[i] <= n + 1
      BY <1>2
    <3>2. i + wide[i] \in 1..(n + 1)
      <4> HIDE DEF n, wide
      <4> QED
        BY <1>1, <3>1
    <3> QED
      BY <3>2
  <2>2. f[i + Wide(s, i)] \in TextOrNone
    <3> HIDE DEF n, wide
    <3> QED
      BY <2>1
  <2>3. <<i, f[i + Wide(s, i)]>> \in (1..n) \X TextOrNone
    BY <2>2
  <2>4. H[<<i, f[i + Wide(s, i)]>>] = Decoded(s, i, f[i + Wide(s, i)])
    BY <2>3
  <2>5. f[i] = H[<<i, f[i + wide[i]]>>]
    BY <1>5
  <2> HIDE DEF H, wide
  <2> QED
    BY <2>1, <2>4, <2>5
<1> QED
  BY <1>5, <1>6 DEF UnescapeSteps

\* Unescaped is where these steps end.
LEMMA UnescapedIsFirst ==
  ASSUME NEW s \in Text
  PROVE  \E f \in [1..(Len(s) + 1) -> TextOrNone] : UnescapeSteps(f, s) /\ Unescaped(s) = f[1]
<1> DEFINE n == Len(s)
           c == CHOOSE f : Unescapes(f, s)
<1>1. n \in Nat /\ \A j \in 1..n : s[j] \in Byte
  BY LenProperties DEF Text
<1>2. PICK e \in [1..(n + 1) -> TextOrNone] : UnescapeSteps(e, s)
  BY UnescapeStepsExist
<1> DEFINE escape(i) == IF i + 2 > Len(s) THEN <<None>> ELSE <<HexValue(s[i + 1]), HexValue(s[i + 2])>>
           width(i) == IF s[i] = Percent THEN 3 ELSE 1
           byte(i) == IF width(i) = 1 THEN s[i] ELSE 16 * escape(i)[1] + escape(i)[2]
           Body(f, i) == IF i > Len(s) THEN <<>>
                         ELSE IF width(i) = 3 /\ None \in ToSet(escape(i)) THEN None
                         ELSE IF f[i + width(i)] = None THEN None
                         ELSE <<byte(i)>> \o f[i + width(i)]
<1>3. \A f : Unescapes(f, s) <=> f = [i \in 1..(n + 1) |-> Body(f, i)]
  BY DEF Unescapes
<1>4. ASSUME NEW f, NEW i \in 1..n PROVE Body(f, i) = Decoded(s, i, f[i + Wide(s, i)])
  <2>1. ~ (i > Len(s))
    BY <1>1
  <2>2. CASE s[i] # Percent
    BY <2>1, <2>2 DEF Decoded, Broken, ByteAt, Wide
  <2>3. CASE s[i] = Percent /\ i + 2 > Len(s)
    <3>1. None \in ToSet(escape(i))
      BY <2>3 DEF ToSet
    <3> HIDE DEF escape
    <3> QED
      BY <2>1, <2>3, <3>1 DEF Decoded, Broken
  <2>4. CASE s[i] = Percent /\ ~ (i + 2 > Len(s))
    <3>1. escape(i) = <<HexValue(s[i + 1]), HexValue(s[i + 2])>>
      BY <2>4
    <3>2. ToSet(escape(i)) = {HexValue(s[i + 1]), HexValue(s[i + 2])}
      <4> DEFINE pair == <<HexValue(s[i + 1]), HexValue(s[i + 2])>>
      <4>2. pair[1] = HexValue(s[i + 1]) /\ pair[2] = HexValue(s[i + 2])
        OBVIOUS
      <4>3. DOMAIN pair = 1..2
        OBVIOUS
      <4>4. 1..2 = {1, 2}
        OBVIOUS
      <4> HIDE DEF escape, pair
      <4>1. DOMAIN escape(i) = {1, 2} /\ escape(i)[1] = HexValue(s[i + 1]) /\ escape(i)[2] = HexValue(s[i + 2])
        BY <3>1, <4>2, <4>3, <4>4 DEF pair
      <4> HIDE DEF escape
      <4> QED
        BY <4>1 DEF ToSet
    <3>3. escape(i)[1] = HexValue(s[i + 1]) /\ escape(i)[2] = HexValue(s[i + 2])
      BY <3>1
    <3>4. width(i) = 3 /\ Wide(s, i) = 3 /\ byte(i) = ByteAt(s, i)
      <4> HIDE DEF escape
      <4>1. i + 2 <= Len(s)
        BY <1>1, <2>4
      <4> QED
        BY <2>4, <3>3, <4>1 DEF Wide, ByteAt
    <3> HIDE DEF escape, width, byte
    <3> QED
      BY <2>1, <2>4, <3>2, <3>4 DEF Decoded, Broken
  <2> QED
    BY <2>2, <2>3, <2>4
<1>5. \A f : Body(f, n + 1) = <<>>
  BY <1>1
<1> HIDE DEF Body, n
<1>6. Unescapes(e, s)
  <2>1. ASSUME NEW i \in 1..(n + 1) PROVE e[i] = Body(e, i)
    <3>1. CASE i = n + 1
      BY <1>2, <1>5, <3>1 DEF UnescapeSteps, n
    <3>2. CASE i # n + 1
      <4>1. i \in 1..n
        BY <1>1, <3>2
      <4> QED
        BY <1>2, <1>4, <4>1 DEF UnescapeSteps, n
    <3> QED
      BY <3>1, <3>2
  <2>2. e = [i \in 1..(n + 1) |-> e[i]]
    OBVIOUS
  <2>3. [i \in 1..(n + 1) |-> e[i]] = [i \in 1..(n + 1) |-> Body(e, i)]
    BY <2>1
  <2> QED
    BY <1>3, <2>2, <2>3
<1>7. Unescapes(c, s)
  BY <1>6
<1>8. Unescaped(s) = c[1]
  BY DEF Unescaped, Unescapes
<1> HIDE DEF c
<1>9. c[n + 1] = <<>> /\ \A i \in 1..n : c[i] = Decoded(s, i, c[i + Wide(s, i)])
  <2>1. c = [i \in 1..(n + 1) |-> Body(c, i)]
    BY <1>3, <1>7
  <2>2. \A i \in 1..(n + 1) : c[i] = Body(c, i)
    BY <2>1
  <2>3. n + 1 \in 1..(n + 1) /\ \A i \in 1..n : i \in 1..(n + 1)
    BY <1>1
  <2> QED
    BY <1>4, <1>5, <2>2, <2>3
<1>10. ASSUME NEW i \in 1..n, \A j \in (i + 1)..(n + 1) : c[0 + j] = e[j] PROVE c[0 + i] = e[i]
  <2>1. i + Wide(s, i) \in (i + 1)..(n + 1)
    BY <1>1 DEF Wide, n
  <2>2. c[i + Wide(s, i)] = e[i + Wide(s, i)]
    <3>1. \A j \in (i + 1)..(n + 1) : 0 + j = j
      BY <1>1
    <3> QED
      BY <1>10, <2>1, <3>1
  <2>3. 0 + i = i
    OBVIOUS
  <2> QED
    BY <1>2, <1>9, <2>2, <2>3 DEF UnescapeSteps, n
<1>11. c[1] = e[1]
  <2>1. c[0 + n + 1] = e[n + 1]
    <3>1. 0 + n + 1 = n + 1
      BY <1>1
    <3> QED
      BY <1>2, <1>9, <3>1 DEF UnescapeSteps, n
  <2> DEFINE p == 0
  <2>2. AgreesDown(n, p, c, e)
    BY <1>1, <1>10, <2>1 DEF AgreesDown
  <2>3. p = 0
    OBVIOUS
  <2> HIDE DEF p
  <2> QED
    BY <1>1, <2>2, <2>3, SameFirst
<1> QED
  BY <1>2, <1>8, <1>11 DEF n

\* The loop on the rest of a text does what it does on that rest alone.
LEMMA UnescapeSuffix ==
  ASSUME NEW p, NEW t, p \in Text, t \in Text, NEW f, NEW g, UnescapeSteps(f, p \o t), UnescapeSteps(g, t)
  PROVE  f[Len(p) + 1] = g[1]
<1> DEFINE s == p \o t
           m == Len(p)
           n == Len(t)
<1>1. m \in Nat /\ n \in Nat
  BY LenProperties DEF Text
<1>2. Len(s) = m + n /\ \A i \in 1..(m + n) : s[i] = IF i <= m THEN p[i] ELSE t[i - m]
  BY ConcatProperties DEF Text
<1>3. f[Len(s) + 1] = <<>> /\ \A i \in 1..Len(s) : f[i] = Decoded(s, i, f[i + Wide(s, i)])
  BY DEF UnescapeSteps
<1>4. g[n + 1] = <<>> /\ \A i \in 1..n : g[i] = Decoded(t, i, g[i + Wide(t, i)])
  BY DEF UnescapeSteps
<1> HIDE DEF s, m, n
<1>5. ASSUME NEW i \in 1..n PROVE s[m + i] = t[i] /\ m + i \in 1..(m + n)
  <2> DEFINE k == m + i
  <2>1. k \in 1..(m + n) /\ ~ (k <= m) /\ k - m = i
    BY <1>1
  <2> HIDE DEF k
  <2>2. s[k] = t[i]
    BY <1>2, <2>1
  <2> QED
    BY <2>1, <2>2 DEF k
<1>6. ASSUME NEW i \in 1..n, \A j \in (i + 1)..(n + 1) : f[m + j] = g[j] PROVE f[m + i] = g[i]
  <2>1. s[m + i] = t[i] /\ m + i \in 1..(m + n)
    BY <1>5
  <2>2. (m + i + 2 <= Len(s)) <=> (i + 2 <= n)
    BY <1>1, <1>2
  <2>3. Wide(s, m + i) = Wide(t, i)
    BY <2>1, <2>2 DEF Wide, n
  <2>4. ~ (i + 2 > n) => s[m + i + 1] = t[i + 1] /\ s[m + i + 2] = t[i + 2]
    <3>1. SUFFICES ASSUME ~ (i + 2 > n) PROVE s[m + i + 1] = t[i + 1] /\ s[m + i + 2] = t[i + 2]
      OBVIOUS
    <3>2. i + 1 \in 1..n /\ i + 2 \in 1..n
      BY <1>1, <3>1
    <3>3. s[m + (i + 1)] = t[i + 1] /\ s[m + (i + 2)] = t[i + 2]
      BY <1>5, <3>2
    <3>4. m + (i + 1) = m + i + 1 /\ m + (i + 2) = m + i + 2
      BY <1>1
    <3> QED
      BY <3>3, <3>4
  <2>5. (m + i + 2 > Len(s)) <=> (i + 2 > n)
    BY <1>1, <1>2
  <2>6. Broken(s, m + i) <=> Broken(t, i)
    BY <2>1, <2>4, <2>5 DEF Broken, n
  <2>7. ~ Broken(s, m + i) => ByteAt(s, m + i) = ByteAt(t, i)
    <3>1. CASE t[i] = Percent
      BY <2>1, <2>4, <2>6, <3>1 DEF Broken, ByteAt, n
    <3>2. CASE t[i] # Percent
      BY <2>1, <3>2 DEF ByteAt
    <3> QED
      BY <3>1, <3>2
  <2>8. f[m + i + Wide(s, m + i)] = g[i + Wide(t, i)]
    <3>1. i + Wide(t, i) \in (i + 1)..(n + 1)
      BY <1>1 DEF Wide, n
    <3>2. f[m + (i + Wide(t, i))] = g[i + Wide(t, i)]
      BY <1>6, <3>1
    <3>3. m + (i + Wide(t, i)) = m + i + Wide(s, m + i)
      BY <1>1, <2>3, <3>1 DEF Wide
    <3> QED
      BY <3>2, <3>3
  <2>9. Decoded(s, m + i, f[m + i + Wide(s, m + i)]) = Decoded(t, i, g[i + Wide(t, i)])
    BY <2>6, <2>7, <2>8 DEF Decoded
  <2>10. f[m + i] = Decoded(s, m + i, f[m + i + Wide(s, m + i)])
    <3>1. m + i \in 1..Len(s)
      BY <1>2, <2>1
    <3> QED
      BY <1>3, <3>1
  <2> QED
    BY <1>4, <2>9, <2>10
<1>7. f[m + n + 1] = g[n + 1]
  BY <1>2, <1>3, <1>4
<1>8. AgreesDown(n, m, f, g)
  BY <1>1, <1>6, <1>7 DEF AgreesDown
<1>9. \A i \in 1..(n + 1), k \in Nat : k = m + i => f[k] = g[i]
  BY <1>1, <1>8, SameDownwards
<1>10. 1 \in 1..(n + 1) /\ m + 1 \in Nat
  BY <1>1
<1> QED
  BY <1>9, <1>10 DEF m

\* What pct_decode makes of nothing, of a plain byte before a text and of an escape before it.
LEMMA UnescapedNone == Unescaped(<<>>) = <<>>
<1>1. <<>> \in Text /\ Len(<<>>) = 0
  BY DEF Text
<1>2. PICK f : UnescapeSteps(f, <<>>) /\ Unescaped(<<>>) = f[1]
  BY <1>1, UnescapedIsFirst
<1>3. f[0 + 1] = <<>>
  BY <1>1, <1>2 DEF UnescapeSteps
<1> QED
  BY <1>2, <1>3

\* It is text, if it is anything.
LEMMA UnescapedIsText == ASSUME NEW s \in Text PROVE Unescaped(s) \in TextOrNone
<1>1. PICK f \in [1..(Len(s) + 1) -> TextOrNone] : UnescapeSteps(f, s) /\ Unescaped(s) = f[1]
  BY UnescapedIsFirst
<1>2. Len(s) \in Nat
  BY LenProperties DEF Text
<1>3. 1 \in 1..(Len(s) + 1)
  BY <1>2
<1> QED
  BY <1>1, <1>3

\* A byte that is no percent sign stands for itself.
LEMMA UnescapedPlain ==
  ASSUME NEW c \in Byte, c # Percent, NEW t \in Text
  PROVE  Unescaped(<<c>> \o t) = IF Unescaped(t) = None THEN None ELSE <<c>> \o Unescaped(t)
<1> DEFINE s == <<c>> \o t
<1>1. s \in Text /\ Len(s) = Len(t) + 1 /\ s[1] = c /\ Len(t) \in Nat /\ <<c>> \in Text /\ Len(<<c>>) = 1
  BY ConsProperties, LenProperties DEF Text
<1>2. PICK f : UnescapeSteps(f, s) /\ Unescaped(s) = f[1]
  <2> HIDE DEF s
  <2> QED
    BY <1>1, UnescapedIsFirst
<1>3. PICK g : UnescapeSteps(g, t) /\ Unescaped(t) = g[1]
  BY UnescapedIsFirst
<1>4. f[Len(<<c>>) + 1] = g[1]
  <2> DEFINE p == <<c>>
  <2>1. p \in Text /\ UnescapeSteps(f, p \o t)
    BY <1>1, <1>2
  <2> HIDE DEF p
  <2>2. f[Len(p) + 1] = g[1]
    BY <1>3, <2>1, UnescapeSuffix
  <2> QED
    BY <2>2 DEF p
<1>5. f[1] = Decoded(s, 1, f[1 + Wide(s, 1)])
  <2>1. 1 \in 1..Len(s)
    BY <1>1
  <2> HIDE DEF s
  <2> QED
    BY <1>2, <2>1 DEF UnescapeSteps
<1> HIDE DEF s
<1>6. Wide(s, 1) = 1 /\ ~ Broken(s, 1) /\ ByteAt(s, 1) = c
  BY <1>1 DEF Wide, Broken, ByteAt
<1>7. f[1 + 1] = g[1]
  BY <1>1, <1>4
<1>8. Unescaped(s) = IF g[1] = None THEN None ELSE <<c>> \o g[1]
  BY <1>2, <1>5, <1>6, <1>7 DEF Decoded
<1> QED
  BY <1>3, <1>8 DEF s

\* A percent sign and two hex digits stand for a byte.
LEMMA UnescapedEscape ==
  ASSUME NEW h \in Byte, NEW l \in Byte, HexValue(h) # None, HexValue(l) # None, NEW t \in Text
  PROVE  Unescaped(<<Percent, h, l>> \o t)
           = IF Unescaped(t) = None THEN None ELSE <<16 * HexValue(h) + HexValue(l)>> \o Unescaped(t)
<1> DEFINE e == <<Percent, h, l>>
           s == e \o t
<1>1. e \in Text /\ Len(e) = 3 /\ e[1] = Percent /\ e[2] = h /\ e[3] = l
  BY DEF Text, Percent, Byte
<1> HIDE DEF e
<1>2. /\ s \in Text /\ Len(s) = Len(t) + 3 /\ Len(t) \in Nat
      /\ s[1] = Percent /\ s[2] = h /\ s[3] = l
  <2>0. e \in Seq(Byte) /\ t \in Seq(Byte)
    BY <1>1 DEF Text
  <2>1. /\ s \in Seq(Byte) /\ Len(s) = Len(e) + Len(t)
        /\ \A i \in 1..(Len(e) + Len(t)) : s[i] = IF i <= Len(e) THEN e[i] ELSE t[i - Len(e)]
    BY <2>0, ConcatProperties
  <2>2. Len(t) \in Nat
    BY LenProperties DEF Text
  <2> HIDE DEF s
  <2>3. 1 \in 1..(Len(e) + Len(t)) /\ 2 \in 1..(Len(e) + Len(t)) /\ 3 \in 1..(Len(e) + Len(t))
    BY <1>1, <2>2
  <2> QED
    BY <1>1, <2>1, <2>2, <2>3 DEF Text
<1>3. PICK f : UnescapeSteps(f, s) /\ Unescaped(s) = f[1]
  <2> HIDE DEF s
  <2> QED
    BY <1>2, UnescapedIsFirst
<1>4. PICK g : UnescapeSteps(g, t) /\ Unescaped(t) = g[1]
  BY UnescapedIsFirst
<1>5. f[Len(e) + 1] = g[1]
  BY <1>1, <1>3, <1>4, UnescapeSuffix
<1> HIDE DEF s
<1>6. f[1] = Decoded(s, 1, f[1 + Wide(s, 1)])
  <2>1. 1 \in 1..Len(s)
    BY <1>2
  <2> QED
    BY <1>3, <2>1 DEF UnescapeSteps
<1>7. Wide(s, 1) = 3
  BY <1>2 DEF Wide
<1>8. ~ Broken(s, 1)
  BY <1>2 DEF Broken
<1>9. ByteAt(s, 1) = 16 * HexValue(h) + HexValue(l)
  BY <1>2 DEF ByteAt
<1>10. f[1 + 3] = g[1]
  BY <1>1, <1>5
<1>11. Unescaped(s) = IF g[1] = None THEN None ELSE <<16 * HexValue(h) + HexValue(l)>> \o g[1]
  BY <1>3, <1>6, <1>7, <1>8, <1>9, <1>10 DEF Decoded
<1> QED
  BY <1>4, <1>11 DEF s, e

-----------------------------------------------------------------------------
(***************************************************************************)
(* Escaping.  Whatever pct_encode and clients escape, and in whichever     *)
(* case of hex digits, pct_decode gives it back.                           *)
(***************************************************************************)
\* What is spelled of two texts, one after the other.
LEMMA SpellConcat ==
  ASSUME NEW B, NEW S, NEW F, Pieces(F, B, S)
  PROVE  \A s, t \in Seq(B) : Spell(F, s \o t) = Spell(F, s) \o Spell(F, t)
<1>1. /\ Spell(F, <<>>) = <<>>
      /\ \A x \in Seq(B) : Spell(F, x) \in Seq(S)
      /\ \A c \in B, x \in Seq(B) : Spell(F, <<c>> \o x) = F[c] \o Spell(F, x)
  <2>1. SpellsOut(F, B, S)
    BY SpellCons
  <2> QED
    BY <2>1 DEF SpellsOut
<1>0. \A x, y, z \in Seq(S) : (x \o y) \o z = x \o (y \o z)
  BY ConcatAssociative, SMTT(30)
<1> SUFFICES ASSUME NEW s \in Seq(B), NEW t \in Seq(B)
             PROVE  Spell(F, s \o t) = Spell(F, s) \o Spell(F, t)
  OBVIOUS
<1> DEFINE G == {x \in Seq(B) : Spell(F, x \o t) = Spell(F, x) \o Spell(F, t)}
<1>2. <<>> \in G
  <2>1. <<>> \o t = t /\ <<>> \o Spell(F, t) = Spell(F, t)
    BY <1>1, ConcatEmptySeq
  <2> QED
    BY <1>1, <2>1
<1>3. ASSUME NEW c \in B, NEW x \in Seq(B), x \in G PROVE <<c>> \o x \in G
  <2>1. <<c>> \in Seq(B)
    OBVIOUS
  <2>2. (<<c>> \o x) \o t = <<c>> \o (x \o t)
    BY <2>1, ConcatAssociative, SMTT(30)
  <2>3. x \o t \in Seq(B) /\ <<c>> \o x \in Seq(B)
    BY <2>1, ConcatProperties
  <2>4. Spell(F, <<c>> \o (x \o t)) = F[c] \o (Spell(F, x) \o Spell(F, t))
    BY <1>1, <1>3, <2>3
  <2>5. F[c] \in Seq(S) /\ Spell(F, x) \in Seq(S) /\ Spell(F, t) \in Seq(S)
    BY <1>1 DEF Pieces
  <2>6. F[c] \o (Spell(F, x) \o Spell(F, t)) = (F[c] \o Spell(F, x)) \o Spell(F, t)
    BY <1>0, <2>5
  <2>7. Spell(F, <<c>> \o x) = F[c] \o Spell(F, x)
    BY <1>1
  <2> QED
    BY <2>2, <2>3, <2>4, <2>6, <2>7
<1>4. Seq(B) \subseteq G
  <2> HIDE DEF G
  <2> QED
    BY <1>2, <1>3, AllSequences
<1> QED
  BY <1>4

\* Each byte is written as it is, or as an escape.
Escaping(F, S) ==
    /\ F \in [Byte -> Seq(S)] /\ S \subseteq Byte
    /\ \A c \in Byte :
          \/ F[c] = <<c>> /\ c # Percent
          \/ \E h, l \in Byte :
                /\ F[c] = <<Percent, h, l>>
                /\ HexValue(h) # None /\ HexValue(l) # None
                /\ 16 * HexValue(h) + HexValue(l) = c

\* What is escaped is read as what it was.
THEOREM EscapedBack ==
  ASSUME NEW F, NEW S, Escaping(F, S), NEW s \in Text
  PROVE  Unescaped(Spell(F, s)) = s
<1> DEFINE G == {x \in Seq(Byte) : Unescaped(Spell(F, x)) = x}
<1>1. Pieces(F, Byte, S)
  BY DEF Escaping, Pieces
<1>2. /\ Spell(F, <<>>) = <<>>
      /\ \A x \in Seq(Byte) : Spell(F, x) \in Seq(S)
      /\ \A c \in Byte, x \in Seq(Byte) : Spell(F, <<c>> \o x) = F[c] \o Spell(F, x)
  <2>1. SpellsOut(F, Byte, S)
    BY <1>1, SpellCons
  <2> QED
    BY <2>1 DEF SpellsOut
<1>3. <<>> \in G
  BY <1>2, UnescapedNone
<1>4. ASSUME NEW c \in Byte, NEW x \in Seq(Byte), x \in G PROVE <<c>> \o x \in G
  <2> DEFINE t == Spell(F, x)
  <2>1. t \in Text
    <3>1. S \subseteq Byte
      BY DEF Escaping
    <3> QED
      BY <1>2, <3>1, SeqMonotonic DEF Text
  <2>2. Unescaped(t) = x /\ x # None
    <3>1. x \in Text
      BY DEF Text
    <3> QED
      BY <1>4, <3>1, NoneIsNoText
  <2>3. Spell(F, <<c>> \o x) = F[c] \o t
    BY <1>2
  <2>4. <<c>> \o x \in Seq(Byte)
    BY ConsProperties
  <2> HIDE DEF t
  <2>5. Unescaped(F[c] \o t) = <<c>> \o x
    <3>1. CASE F[c] = <<c>> /\ c # Percent
      <4>1. Unescaped(<<c>> \o t) = <<c>> \o Unescaped(t)
        BY <2>1, <2>2, <3>1, UnescapedPlain
      <4> QED
        BY <2>2, <3>1, <4>1
    <3>2. CASE ~ (F[c] = <<c>> /\ c # Percent)
      <4>1. PICK h \in Byte, l \in Byte :
               /\ F[c] = <<Percent, h, l>>
               /\ HexValue(h) # None /\ HexValue(l) # None
               /\ 16 * HexValue(h) + HexValue(l) = c
        BY <3>2 DEF Escaping
      <4>2. Unescaped(<<Percent, h, l>> \o t) = <<16 * HexValue(h) + HexValue(l)>> \o Unescaped(t)
        BY <2>1, <2>2, <4>1, UnescapedEscape
      <4> QED
        BY <2>2, <4>1, <4>2
    <3> QED
      BY <3>1, <3>2
  <2> QED
    BY <2>3, <2>4, <2>5
<1>5. Seq(Byte) \subseteq G
  <2> HIDE DEF G
  <2> QED
    BY <1>3, <1>4, AllSequences
<1> QED
  BY <1>5 DEF Text

\* Both writers of hex digits write what to_digit reads.
HexDigits == (48..57) \cup (65..70) \cup (97..102)
\* Hex digits are read as what they were, in either case.
LEMMA HexBack ==
  ASSUME NEW n \in 0..15
  PROVE  /\ Hex(n) \in HexDigits /\ HexValue(Hex(n)) = n
         /\ LowerHex(n) \in HexDigits /\ HexValue(LowerHex(n)) = n
<1>1. CASE n < 10
  BY <1>1 DEF Hex, LowerHex, HexValue, HexDigits
<1>2. CASE n >= 10
  BY <1>2 DEF Hex, LowerHex, HexValue, HexDigits
<1> QED
  BY <1>1, <1>2

\* A byte is its two halves.
LEMMA Halves == \A c \in Byte : c \div 16 \in 0..15 /\ c % 16 \in 0..15 /\ 16 * (c \div 16) + (c % 16) = c
  BY DEF Byte

\* Escape, and what clients with lower case digits write, of any byte.
LEMMA EscapeBack ==
  ASSUME NEW c \in Byte,
         NEW e, e = Escape(c) \/ e = <<Percent, LowerHex(c \div 16), LowerHex(c % 16)>>
  PROVE  \E h, l \in HexDigits :
            /\ e = <<Percent, h, l>>
            /\ HexValue(h) # None /\ HexValue(l) # None
            /\ 16 * HexValue(h) + HexValue(l) = c
<1> DEFINE a == c \div 16
           b == c % 16
<1>1. a \in 0..15 /\ b \in 0..15 /\ 16 * a + b = c
  BY Halves
<1>2. None \notin Int
  BY NoneIsNoText
<1> HIDE DEF a, b
<1>3. a # None /\ b # None
  BY <1>1, <1>2
<1>4. CASE e = Escape(c)
  <2>1. e = <<Percent, Hex(a), Hex(b)>>
    BY <1>4 DEF Escape, a, b
  <2>2. Hex(a) \in HexDigits /\ Hex(b) \in HexDigits /\ HexValue(Hex(a)) = a /\ HexValue(Hex(b)) = b
    BY <1>1, HexBack
  <2> QED
    BY <1>1, <1>3, <2>1, <2>2
<1>5. CASE e = <<Percent, LowerHex(a), LowerHex(b)>>
  <2>2. /\ LowerHex(a) \in HexDigits /\ LowerHex(b) \in HexDigits
        /\ HexValue(LowerHex(a)) = a /\ HexValue(LowerHex(b)) = b
    BY <1>1, HexBack
  <2> QED
    BY <1>1, <1>3, <1>5, <2>2
<1> QED
  BY <1>4, <1>5 DEF a, b

\* pct_encode.
UrlByte == Unreserved \cup {Slash, Percent}
\* What pct_encode writes for a byte.
EncodedByte == [c \in Byte |-> IF c \in Unreserved \cup {Slash} THEN <<c>> ELSE Escape(c)]

\* It escapes, and leaves only what a URL may have.
LEMMA EncodesBytes ==
  /\ Escaping(EncodedByte, UrlByte)
  /\ \A s \in Text : pct_encode(s) = Spell(EncodedByte, s)
<1>1. UrlByte \subseteq Byte /\ HexDigits \subseteq UrlByte /\ HexDigits \subseteq Byte /\ Percent \in UrlByte
  BY DEF UrlByte, Unreserved, Alphanumeric, Slash, Percent, HexDigits, Byte
<1>2. ASSUME NEW c \in Byte
      PROVE  /\ EncodedByte[c] \in Seq(UrlByte)
             /\ \/ EncodedByte[c] = <<c>> /\ c # Percent
                \/ \E h, l \in Byte : /\ EncodedByte[c] = <<Percent, h, l>>
                                      /\ HexValue(h) # None /\ HexValue(l) # None
                                      /\ 16 * HexValue(h) + HexValue(l) = c
  <2>1. CASE c \in Unreserved \cup {Slash}
    <3>1. c \in UrlByte /\ c # Percent
      BY <2>1 DEF UrlByte, Unreserved, Alphanumeric, Slash, Percent
    <3>2. EncodedByte[c] = <<c>>
      BY <2>1 DEF EncodedByte
    <3> QED
      BY <3>1, <3>2
  <2>2. CASE c \notin Unreserved \cup {Slash}
    <3>1. EncodedByte[c] = Escape(c)
      BY <2>2 DEF EncodedByte
    <3>2. PICK h \in HexDigits, l \in HexDigits :
             /\ EncodedByte[c] = <<Percent, h, l>>
             /\ HexValue(h) # None /\ HexValue(l) # None
             /\ 16 * HexValue(h) + HexValue(l) = c
      BY <3>1, EscapeBack
    <3>3. h \in UrlByte /\ l \in UrlByte /\ h \in Byte /\ l \in Byte
      BY <1>1
    <3>4. <<Percent, h, l>> \in Seq(UrlByte)
      BY <1>1, <3>3
    <3> QED
      BY <3>2, <3>3, <3>4
  <2> QED
    BY <2>1, <2>2
<1>3. EncodedByte \in [Byte -> Seq(UrlByte)]
  <2>1. EncodedByte = [c \in Byte |-> EncodedByte[c]]
    BY DEF EncodedByte
  <2> QED
    BY <1>2, <2>1
<1>4. ASSUME NEW s \in Text PROVE pct_encode(s) = Spell(EncodedByte, s)
  <2>1. \A i \in DOMAIN s : s[i] \in Byte
    BY DEF Text
  <2>2. [i \in DOMAIN s |-> IF s[i] \in Unreserved \cup {Slash} THEN <<s[i]>> ELSE Escape(s[i])]
          = [i \in DOMAIN s |-> EncodedByte[s[i]]]
    BY <2>1 DEF EncodedByte
  <2> QED
    BY <2>2 DEF pct_encode, Spell
<1> QED
  BY <1>1, <1>2, <1>3, <1>4 DEF Escaping

\* What clients write.
Ascii == 0..127
\* What clients write for a byte.
SpelledByte(style) ==
    [c \in Byte |->
        IF c \in Spared(style) \cup {Slash} THEN <<c>>
        ELSE IF style = "all" THEN <<Percent, LowerHex(c \div 16), LowerHex(c % 16)>>
        ELSE Escape(c)]

\* They escape too.
LEMMA SpelledBytes ==
  ASSUME NEW style \in Styles
  PROVE  /\ Escaping(SpelledByte(style), Ascii)
         /\ \A s \in Text : Spelled(style, s) = Spell(SpelledByte(style), s)
<1> DEFINE F == SpelledByte(style)
<1>1. Ascii \subseteq Byte /\ HexDigits \subseteq Ascii /\ HexDigits \subseteq Byte /\ Percent \in Ascii
  BY DEF Ascii, Percent, HexDigits, Byte
<1>2. Spared(style) \cup {Slash} \subseteq Ascii \ {Percent}
  BY DEF Styles, Spared, Unreserved, Alphanumeric, Delimiters, Slash, Percent, Ascii
<1>3. \A c \in Byte : F[c] = IF c \in Spared(style) \cup {Slash} THEN <<c>>
                             ELSE IF style = "all" THEN <<Percent, LowerHex(c \div 16), LowerHex(c % 16)>>
                             ELSE Escape(c)
  BY DEF SpelledByte
<1>9. F = [c \in Byte |-> F[c]]
  BY DEF SpelledByte
<1>4. ASSUME NEW s \in Text PROVE Spelled(style, s) = Spell(F, s)
  <2>1. \A i \in DOMAIN s : s[i] \in Byte
    BY DEF Text
  <2>2. [i \in DOMAIN s |->
            IF s[i] \in Spared(style) \cup {Slash} THEN <<s[i]>>
            ELSE IF style = "all" THEN <<Percent, LowerHex(s[i] \div 16), LowerHex(s[i] % 16)>>
            ELSE Escape(s[i])]
          = [i \in DOMAIN s |-> F[s[i]]]
    <3> HIDE DEF F
    <3> QED
      BY <1>3, <2>1
  <2> QED
    BY <2>2 DEF Spelled, Spell
<1> HIDE DEF F
<1>5. ASSUME NEW c \in Byte
      PROVE  /\ F[c] \in Seq(Ascii)
             /\ \/ F[c] = <<c>> /\ c # Percent
                \/ \E h, l \in Byte : /\ F[c] = <<Percent, h, l>>
                                      /\ HexValue(h) # None /\ HexValue(l) # None
                                      /\ 16 * HexValue(h) + HexValue(l) = c
  <2>1. CASE c \in Spared(style) \cup {Slash}
    <3>1. c \in Ascii /\ c # Percent
      BY <1>2, <2>1
    <3>2. F[c] = <<c>>
      BY <1>3, <2>1
    <3> QED
      BY <3>1, <3>2
  <2>2. CASE c \notin Spared(style) \cup {Slash}
    <3>1. F[c] = Escape(c) \/ F[c] = <<Percent, LowerHex(c \div 16), LowerHex(c % 16)>>
      BY <1>3, <2>2
    <3>2. PICK h \in HexDigits, l \in HexDigits :
             /\ F[c] = <<Percent, h, l>>
             /\ HexValue(h) # None /\ HexValue(l) # None
             /\ 16 * HexValue(h) + HexValue(l) = c
      BY <3>1, EscapeBack
    <3>3. h \in Ascii /\ l \in Ascii /\ h \in Byte /\ l \in Byte
      BY <1>1
    <3>4. <<Percent, h, l>> \in Seq(Ascii)
      BY <1>1, <3>3
    <3> QED
      BY <3>2, <3>3, <3>4
  <2> QED
    BY <2>1, <2>2
<1>6. F \in [Byte -> Seq(Ascii)]
  BY <1>5, <1>9
<1> QED
  BY <1>1, <1>4, <1>5, <1>6 DEF Escaping, F

-----------------------------------------------------------------------------
(***************************************************************************)
(* str::split.  It is recursive from the end of the text: Cut is what it   *)
(* makes at position i of the pieces of the text after i.                  *)
(***************************************************************************)
Parts == Seq(Text) \ {<<>>}
\* What a byte does to the parts of the rest: it cuts, or is one more of the first.
Cut(c, b, rest) == IF c = b THEN <<<<>>>> \o rest ELSE <<<<c>> \o Head(rest)>> \o Tail(rest)
\* The steps of str::split, from the end to the front.
SplitSteps(f, s, b) ==
    /\ f[Len(s) + 1] = <<<<>>>>
    /\ \A i \in 1..Len(s), j \in 1..(Len(s) + 1) : j = i + 1 => f[i] = Cut(s[i], b, f[j])
\* The same as Split says it.
Splits(f, s, b) ==
    f = [i \in 1..(Len(s) + 1) |->
            LET rest == f[i + 1]
            IN  IF i > Len(s) THEN <<<<>>>>
                ELSE IF s[i] = b THEN <<<<>>>> \o rest
                ELSE <<<<s[i]>> \o Head(rest)>> \o Tail(rest)]

\* Nothing is one part that is empty.
LEMMA NothingIsAPart == <<<<>>>> \in Parts /\ <<>> \in Text
<1>1. <<>> \in Text
  BY DEF Text
<1>2. <<<<>>>> \in Seq(Text) /\ <<<<>>>> # <<>>
  BY <1>1
<1> QED
  BY <1>1, <1>2 DEF Parts

\* What is cut at a byte are pieces of text again, and at least one.
LEMMA CutIsParts ==
  ASSUME NEW c \in Byte, NEW b, NEW rest \in Parts
  PROVE  Cut(c, b, rest) \in Parts
<1>1. rest \in Seq(Text) /\ rest # <<>>
  BY DEF Parts
<1>2. CASE c = b
  <2>1. <<<<>>>> \o rest \in Seq(Text) /\ <<<<>>>> \o rest # <<>>
    BY <1>1, NothingIsAPart, ConsProperties
  <2> QED
    BY <1>2, <2>1 DEF Cut, Parts
<1>3. CASE c # b
  <2>1. Head(rest) \in Text /\ Tail(rest) \in Seq(Text)
    BY <1>1, ConsOf
  <2>2. <<c>> \o Head(rest) \in Text
    BY <2>1, ConsProperties DEF Text
  <2> DEFINE x == <<c>> \o Head(rest)
  <2> HIDE DEF x
  <2>3. <<x>> \o Tail(rest) \in Seq(Text) /\ <<x>> \o Tail(rest) # <<>>
    BY <2>1, <2>2, ConsProperties DEF x
  <2> QED
    BY <1>3, <2>3 DEF Cut, Parts, x
<1> QED
  BY <1>2, <1>3

\* There are such steps.
LEMMA SplitStepsExist ==
  ASSUME NEW s \in Text, NEW b
  PROVE  \E f \in [1..(Len(s) + 1) -> Parts] : SplitSteps(f, s, b)
<1> DEFINE n == Len(s)
           wide == [i \in 1..n |-> 1]
           H == [x \in (1..n) \X Parts |-> Cut(s[x[1]], b, x[2])]
<1>1. n \in Nat /\ \A i \in 1..n : s[i] \in Byte
  BY LenProperties DEF Text
<1>2. wide \in [1..n -> Nat \ {0}] /\ \A i \in 1..n : wide[i] = 1 /\ i + wide[i] <= n + 1
  BY <1>1
<1>3. H \in [(1..n) \X Parts -> Parts]
  BY <1>1, CutIsParts
<1>4. \A x \in (1..n) \X Parts : H[x] = Cut(s[x[1]], b, x[2])
  OBVIOUS
<1> HIDE DEF n, wide, H
<1>5. \E f \in [1..(n + 1) -> Parts] : StepsDown(f, n, <<<<>>>>, wide, H)
  <2>1. GoesDown(n, Parts, <<<<>>>>, wide, H)
    BY <1>1, <1>2, <1>3, NothingIsAPart DEF GoesDown
  <2> QED
    BY <2>1, DefinedDownwards
<1>6. PICK f \in [1..(n + 1) -> Parts] : StepsDown(f, n, <<<<>>>>, wide, H)
  BY <1>5
<1>7. ASSUME NEW i \in 1..n, NEW j \in 1..(n + 1), j = i + 1 PROVE f[i] = Cut(s[i], b, f[j])
  <2>1. f[i] = H[<<i, f[j]>>]
    BY <1>2, <1>6, <1>7 DEF StepsDown
  <2>2. f[j] \in Parts
    OBVIOUS
  <2>3. <<i, f[j]>> \in (1..n) \X Parts
    BY <2>2
  <2>4. H[<<i, f[j]>>] = Cut(s[i], b, f[j])
    BY <1>4, <2>3
  <2> QED
    BY <2>1, <2>4
<1> QED
  BY <1>6, <1>7 DEF SplitSteps, StepsDown, n

\* Split is where they end.
LEMMA SplitIsFirst ==
  ASSUME NEW s \in Text, NEW b
  PROVE  \E f \in [1..(Len(s) + 1) -> Parts] : SplitSteps(f, s, b) /\ Split(s, b) = f[1]
<1> DEFINE n == Len(s)
           c == CHOOSE f : Splits(f, s, b)
           Body(f, i) == IF i > Len(s) THEN <<<<>>>>
                         ELSE IF s[i] = b THEN <<<<>>>> \o f[i + 1]
                         ELSE <<<<s[i]>> \o Head(f[i + 1])>> \o Tail(f[i + 1])
<1>1. n \in Nat
  BY LenProperties DEF Text
<1>2. PICK e \in [1..(n + 1) -> Parts] : SplitSteps(e, s, b)
  BY SplitStepsExist
<1>3. \A f : Splits(f, s, b) <=> f = [i \in 1..(n + 1) |-> Body(f, i)]
  BY DEF Splits
<1>4. ASSUME NEW f, NEW i \in 1..n PROVE Body(f, i) = Cut(s[i], b, f[i + 1])
  <2>1. ~ (i > Len(s))
    BY <1>1
  <2> QED
    BY <2>1 DEF Cut
<1>5. \A f : Body(f, n + 1) = <<<<>>>>
  BY <1>1
<1> HIDE DEF Body, n
<1>6. Splits(e, s, b)
  <2>1. ASSUME NEW i \in 1..(n + 1) PROVE e[i] = Body(e, i)
    <3>1. CASE i = n + 1
      BY <1>2, <1>5, <3>1 DEF SplitSteps, n
    <3>2. CASE i # n + 1
      <4>1. i \in 1..n /\ i + 1 \in 1..(n + 1)
        BY <1>1, <3>2
      <4> QED
        BY <1>2, <1>4, <4>1 DEF SplitSteps, n
    <3> QED
      BY <3>1, <3>2
  <2>2. e = [i \in 1..(n + 1) |-> e[i]]
    OBVIOUS
  <2>3. [i \in 1..(n + 1) |-> e[i]] = [i \in 1..(n + 1) |-> Body(e, i)]
    BY <2>1
  <2> QED
    BY <1>3, <2>2, <2>3
<1>7. Splits(c, s, b)
  BY <1>6
<1>8. Split(s, b) = c[1]
  BY DEF Split, Splits
<1> HIDE DEF c
<1>9. c[n + 1] = <<<<>>>> /\ \A i \in 1..n : c[i] = Cut(s[i], b, c[i + 1])
  <2>1. c = [i \in 1..(n + 1) |-> Body(c, i)]
    BY <1>3, <1>7
  <2>2. \A i \in 1..(n + 1) : c[i] = Body(c, i)
    BY <2>1
  <2>3. n + 1 \in 1..(n + 1) /\ \A i \in 1..n : i \in 1..(n + 1)
    BY <1>1
  <2> QED
    BY <1>4, <1>5, <2>2, <2>3
<1> DEFINE p == 0
<1>10. ASSUME NEW i \in 1..n, \A j \in (i + 1)..(n + 1) : c[p + j] = e[j] PROVE c[p + i] = e[i]
  <2>1. i + 1 \in (i + 1)..(n + 1) /\ p + (i + 1) = i + 1 /\ p + i = i /\ i + 1 \in 1..(n + 1)
    BY <1>1
  <2>2. c[i + 1] = e[i + 1]
    BY <1>10, <2>1
  <2>3. e[i] = Cut(s[i], b, e[i + 1])
    BY <1>2, <2>1 DEF SplitSteps, n
  <2> HIDE DEF p
  <2> QED
    BY <1>9, <2>1, <2>2, <2>3
<1>11. p = 0 /\ p \in Nat /\ p + n + 1 = n + 1
  BY <1>1
<1> HIDE DEF p
<1>12. c[1] = e[1]
  <2>1. c[p + n + 1] = e[n + 1]
    BY <1>2, <1>9, <1>11 DEF SplitSteps, n
  <2>2. AgreesDown(n, p, c, e)
    BY <1>1, <1>10, <1>11, <2>1 DEF AgreesDown
  <2> QED
    BY <1>1, <1>11, <2>2, SameFirst
<1> QED
  BY <1>2, <1>8, <1>12 DEF n

\* The pieces of nothing, and of a text with a byte more in front.
LEMMA SplitNone == \A b : Split(<<>>, b) = <<<<>>>>
<1> SUFFICES ASSUME NEW b PROVE Split(<<>>, b) = <<<<>>>>
  OBVIOUS
<1> DEFINE n == 0
<1>1. <<>> \in Text /\ Len(<<>>) = n /\ n + 1 = 1
  BY DEF Text
<1> HIDE DEF n
<1>2. PICK f : SplitSteps(f, <<>>, b) /\ Split(<<>>, b) = f[1]
  BY <1>1, SplitIsFirst
<1>3. f[n + 1] = <<<<>>>>
  BY <1>1, <1>2 DEF SplitSteps
<1> QED
  BY <1>1, <1>2, <1>3

\* A text with one byte more in front.
LEMMA SplitCons ==
  ASSUME NEW b, NEW t \in Text
  PROVE  /\ Split(t, b) \in Parts
         /\ \A c \in Byte : Split(<<c>> \o t, b) = Cut(c, b, Split(t, b))
<1> DEFINE n == Len(t)
<1>1. n \in Nat
  BY LenProperties DEF Text
<1>3. Split(t, b) \in Parts
  <2>1. 1 \in 1..(n + 1)
    BY <1>1
  <2>2. PICK e \in [1..(n + 1) -> Parts] : SplitSteps(e, t, b) /\ Split(t, b) = e[1]
    BY SplitIsFirst
  <2> HIDE DEF n
  <2> QED
    BY <2>1, <2>2
<1>2. PICK g : SplitSteps(g, t, b) /\ Split(t, b) = g[1]
  BY SplitIsFirst
<1>4. ASSUME NEW c \in Byte PROVE Split(<<c>> \o t, b) = Cut(c, b, Split(t, b))
  <2> DEFINE s == <<c>> \o t
             p == 1
  <2>1. s \in Text /\ Len(s) = n + 1 /\ s[1] = c /\ \A i \in 1..n : s[i + 1] = t[i]
    BY ConsProperties DEF Text
  <2>2. PICK f : SplitSteps(f, s, b) /\ Split(s, b) = f[1]
    <3> HIDE DEF s
    <3> QED
      BY <2>1, SplitIsFirst
  <2>3. p \in Nat /\ p = 1
    OBVIOUS
  <2> HIDE DEF s, p
  <2>4. f[n + 2] = <<<<>>>> /\ \A i \in 1..(n + 1), j \in 1..(n + 2) : j = i + 1 => f[i] = Cut(s[i], b, f[j])
    BY <1>1, <2>1, <2>2 DEF SplitSteps
  <2>5. g[n + 1] = <<<<>>>> /\ \A i \in 1..n, j \in 1..(n + 1) : j = i + 1 => g[i] = Cut(t[i], b, g[j])
    BY <1>2 DEF SplitSteps
  <2> HIDE DEF n
  <2>6. ASSUME NEW i \in 1..n, \A j \in (i + 1)..(n + 1) : f[p + j] = g[j] PROVE f[p + i] = g[i]
    <3> DEFINE j == i + 1
               k == p + j
               h == p + i
    <3>1. /\ j \in (i + 1)..(n + 1) /\ j \in 1..(n + 1) /\ j = i + 1
          /\ h \in 1..(n + 1) /\ k \in 1..(n + 2) /\ k = h + 1 /\ h = i + 1
      BY <1>1, <2>3
    <3>2. f[k] = g[j]
      BY <2>6, <3>1
    <3>3. s[h] = t[i]
      BY <2>1, <3>1
    <3> HIDE DEF j, k, h
    <3>4. g[i] = Cut(t[i], b, g[j])
      BY <2>5, <3>1
    <3>5. f[h] = Cut(s[h], b, f[k])
      BY <2>4, <3>1
    <3> QED
      BY <3>2, <3>3, <3>4, <3>5 DEF h
  <2>7. f[p + n + 1] = g[n + 1]
    <3>1. p + n + 1 = n + 2
      BY <1>1, <2>3
    <3> QED
      BY <2>4, <2>5, <3>1
  <2>8. AgreesDown(n, p, f, g)
    BY <1>1, <2>3, <2>6, <2>7 DEF AgreesDown
  <2>9. \A i \in 1..(n + 1), k \in Nat : k = p + i => f[k] = g[i]
    BY <2>8, SameDownwards
  <2>10. f[2] = g[1]
    <3>1. 1 \in 1..(n + 1) /\ 2 = p + 1 /\ 2 \in Nat
      BY <1>1, <2>3
    <3> QED
      BY <2>9, <3>1
  <2>11. f[1] = Cut(s[1], b, f[2])
    <3>1. 1 \in 1..(n + 1) /\ 2 \in 1..(n + 2) /\ 2 = 1 + 1
      BY <1>1
    <3> QED
      BY <2>4, <3>1
  <2> QED
    BY <1>2, <2>1, <2>2, <2>10, <2>11 DEF s
<1> QED
  BY <1>3, <1>4

\* What has no slash is not cut.
Segment == Seq(Byte \ {Slash})
\* A segment is a text without a slash.
LEMMA SegmentIsText == Segment \subseteq Text /\ <<>> \in Segment
<1>1. Byte \ {Slash} \subseteq Byte
  OBVIOUS
<1> QED
  BY <1>1, SeqMonotonic DEF Segment, Text

\* A segment in front of a text is in front of its first part.
LEMMA SplitSegment ==
  ASSUME NEW r \in Text
  PROVE  \A x \in Segment : Split(x \o r, Slash) = <<x \o Head(Split(r, Slash))>> \o Tail(Split(r, Slash))
<1> DEFINE h == Head(Split(r, Slash))
           u == Tail(Split(r, Slash))
           V == Byte \ {Slash}
           G == {x \in Seq(V) : Split(x \o r, Slash) = <<x \o h>> \o u}
<1>1. h \in Text /\ u \in Seq(Text) /\ Split(r, Slash) = <<h>> \o u
  <2>1. Split(r, Slash) \in Seq(Text) /\ Split(r, Slash) # <<>>
    BY SplitCons DEF Parts
  <2> QED
    BY <2>1, ConsOf
<1>2. \A a, b, c \in Text : (a \o b) \o c = a \o (b \o c)
  BY ConcatAssociative, SMTT(30) DEF Text
<1>3. \A a, b \in Text : a \o b \in Text
  BY ConcatProperties DEF Text
<1>4. \A a \in Seq(V) : a \in Text
  BY SegmentIsText DEF Segment
<1> HIDE DEF h, u
<1>5. <<>> \in G
  <2>1. <<>> \o r = r /\ <<>> \o h = h /\ <<>> \in Seq(V)
    BY <1>1, ConcatEmptySeq DEF Text
  <2> QED
    BY <1>1, <2>1
<1>6. ASSUME NEW c \in V, NEW x \in Seq(V), x \in G PROVE <<c>> \o x \in G
  <2>1. c \in Byte /\ c # Slash /\ <<c>> \in Text /\ x \in Text /\ <<c>> \o x \in Seq(V)
    <3>1. <<c>> \in Seq(V)
      OBVIOUS
    <3>2. <<c>> \o x \in Seq(V)
      BY <3>1, ConcatProperties
    <3> HIDE DEF V
    <3>3. c \in Byte /\ c # Slash
      BY DEF V
    <3> QED
      BY <1>4, <3>1, <3>2, <3>3
  <2>2. (<<c>> \o x) \o r = <<c>> \o (x \o r) /\ (<<c>> \o x) \o h = <<c>> \o (x \o h)
    BY <1>1, <1>2, <2>1
  <2>3. x \o r \in Text /\ x \o h \in Text
    BY <1>1, <1>3, <2>1
  <2>4. Split(<<c>> \o (x \o r), Slash) = Cut(c, Slash, Split(x \o r, Slash))
    BY <2>1, <2>3, SplitCons
  <2>5. Split(x \o r, Slash) = <<x \o h>> \o u
    BY <1>6
  <2>6. Head(<<x \o h>> \o u) = x \o h /\ Tail(<<x \o h>> \o u) = u
    BY <1>1, <2>3, ConsProperties
  <2>7. Cut(c, Slash, Split(x \o r, Slash)) = <<<<c>> \o (x \o h)>> \o u
    BY <2>1, <2>5, <2>6 DEF Cut
  <2> QED
    BY <2>1, <2>2, <2>4, <2>7
<1>7. Seq(V) \subseteq G
  <2> HIDE DEF G, V
  <2> QED
    BY <1>5, <1>6, AllSequences
<1> QED
  BY <1>7 DEF Segment, h, u

\* Segments each with a slash before it are cut where they were joined.
Slashed == [x \in Segment |-> <<Slash>> \o x]
\* Segments, each after a slash.
Joined(p) == Spell(Slashed, p)

\* A piece for each segment.
LEMMA SlashedPieces == Pieces(Slashed, Segment, Byte) /\ \A x \in Segment : Slashed[x] = <<Slash>> \o x
<1>1. Slash \in Byte
  BY DEF Slash, Byte
<1>2. ASSUME NEW x \in Segment PROVE <<Slash>> \o x \in Seq(Byte)
  <2>1. x \in Seq(Byte)
    BY SegmentIsText DEF Text
  <2> QED
    BY <1>1, <2>1, ConsProperties
<1> QED
  BY <1>2 DEF Slashed, Pieces

\* Segments are joined one after the other.
LEMMA JoinedLaws ==
  /\ Joined(<<>>) = <<>>
  /\ \A p \in Seq(Segment) : Joined(p) \in Text
  /\ \A x \in Segment, p \in Seq(Segment) : Joined(<<x>> \o p) = Slashed[x] \o Joined(p)
  /\ \A s, t \in Seq(Segment) : Joined(s \o t) = Joined(s) \o Joined(t)
<1>1. /\ Joined(<<>>) = <<>>
      /\ \A p \in Seq(Segment) : Joined(p) \in Text
      /\ \A x \in Segment, p \in Seq(Segment) : Joined(<<x>> \o p) = Slashed[x] \o Joined(p)
  <2>1. SpellsOut(Slashed, Segment, Byte)
    BY SpellCons, SlashedPieces
  <2> QED
    BY <2>1 DEF SpellsOut, Joined, Text
<1>2. \A s, t \in Seq(Segment) : Joined(s \o t) = Joined(s) \o Joined(t)
  BY SpellConcat, SlashedPieces DEF Joined
<1> QED
  BY <1>1, <1>2

\* What is joined is split into what it was, after an empty first part.
LEMMA SplitJoined ==
  \A p \in Seq(Segment) : Joined(p) \in Text /\ Split(Joined(p), Slash) = <<<<>>>> \o p
<1> DEFINE G == {p \in Seq(Segment) : Split(Joined(p), Slash) = <<<<>>>> \o p}
<1>1. /\ Joined(<<>>) = <<>>
      /\ \A p \in Seq(Segment) : Joined(p) \in Text
      /\ \A x \in Segment, p \in Seq(Segment) : Joined(<<x>> \o p) = Slashed[x] \o Joined(p)
  BY JoinedLaws
<1>2. <<>> \in G
  <2>1. <<<<>>>> \in Seq(Text) /\ <<<<>>>> \o <<>> = <<<<>>>>
    <3>1. <<<<>>>> \in Seq(Text)
      BY NothingIsAPart DEF Parts
    <3> QED
      BY <3>1, ConcatEmptySeq
  <2> QED
    BY <1>1, <2>1, SplitNone
<1>3. ASSUME NEW x \in Segment, NEW p \in Seq(Segment), p \in G PROVE <<x>> \o p \in G
  <2> DEFINE j == Joined(p)
             S == Slash
  <2>1. j \in Text /\ x \in Text /\ p \in Seq(Text) /\ Split(j, Slash) = <<<<>>>> \o p
    <3>1. p \in Seq(Text)
      BY SegmentIsText, SeqMonotonic
    <3> QED
      BY <1>1, <1>3, <3>1, SegmentIsText
  <2>2. <<x>> \o p \in Seq(Segment)
    BY ConsProperties
  <2>3. S \in Byte /\ <<S>> \in Text /\ x \o j \in Text
    <3>1. S \in Byte
      BY DEF Slash, Byte
    <3>2. x \o j \in Text
      BY <2>1, ConcatProperties DEF Text
    <3> HIDE DEF S
    <3> QED
      BY <3>1, <3>2 DEF Text
  <2>4. Joined(<<x>> \o p) = <<S>> \o (x \o j)
    <3>1. Joined(<<x>> \o p) = (<<S>> \o x) \o j
      BY <1>1, SlashedPieces
    <3> HIDE DEF S, j
    <3>2. (<<S>> \o x) \o j = <<S>> \o (x \o j)
      BY <2>1, <2>3, ConcatAssociative, SMTT(30) DEF Text
    <3> QED
      BY <3>1, <3>2
  <2>5. Split(x \o j, Slash) = <<x>> \o p
    <3>1. Split(x \o j, Slash) = <<x \o Head(Split(j, Slash))>> \o Tail(Split(j, Slash))
      BY <2>1, SplitSegment
    <3>2. Head(<<<<>>>> \o p) = <<>> /\ Tail(<<<<>>>> \o p) = p
      BY <2>1, NothingIsAPart, ConsProperties
    <3>3. x \o <<>> = x
      BY <2>1, ConcatEmptySeq DEF Text
    <3> QED
      BY <2>1, <3>1, <3>2, <3>3
  <2> HIDE DEF S
  <2>6. Split(<<S>> \o (x \o j), Slash) = <<<<>>>> \o (<<x>> \o p)
    <3>1. Split(<<S>> \o (x \o j), Slash) = Cut(S, Slash, Split(x \o j, Slash))
      BY <2>3, SplitCons
    <3> QED
      BY <2>5, <3>1 DEF Cut, S
  <2> QED
    BY <2>2, <2>4, <2>6
<1>4. Seq(Segment) \subseteq G
  <2> HIDE DEF G
  <2> QED
    BY <1>2, <1>3, AllSequences
<1> QED
  BY <1>1, <1>4

\* Without leaves out the elements of D, one after the other, and nothing else.
Filtered(V, D) ==
    /\ \A s \in Seq(V) : Without(s, D) \in Seq(V \ D)
    /\ \A s, t \in Seq(V) : Without(s \o t, D) = Without(s, D) \o Without(t, D)
    /\ \A x \in V : Without(<<x>>, D) = IF x \in D THEN <<>> ELSE <<x>>
    /\ Without(<<>>, D) = <<>>

\* What it writes for each element.
Keeps(V, D) == [x \in V |-> IF x \in D THEN <<>> ELSE <<x>>]

\* Of any sequence.
LEMMA WithoutLaws == ASSUME NEW V, NEW D PROVE Filtered(V, D)
<1> DEFINE K == Keeps(V, D)
<1>1. \A x \in V : K[x] \in Seq(V \ D) /\ K[x] = IF x \in D THEN <<>> ELSE <<x>>
  <2> SUFFICES ASSUME NEW x \in V
               PROVE  K[x] \in Seq(V \ D) /\ K[x] = IF x \in D THEN <<>> ELSE <<x>>
    OBVIOUS
  <2>1. K[x] = IF x \in D THEN <<>> ELSE <<x>>
    BY DEF Keeps
  <2>2. CASE x \in D
    BY <2>1, <2>2
  <2>3. CASE x \notin D
    <3>1. x \in V \ D
      BY <2>3
    <3> DEFINE W == V \ D
    <3> HIDE DEF W
    <3>2. <<x>> \in Seq(W)
      BY <3>1 DEF W
    <3> HIDE DEF K
    <3> QED
      BY <2>1, <2>3, <3>2 DEF W
  <2> QED
    BY <2>2, <2>3
<1>2. Pieces(K, V, V \ D)
  <2>1. K = [x \in V |-> K[x]]
    BY DEF Keeps
  <2> HIDE DEF K
  <2> QED
    BY <1>1, <2>1 DEF Pieces
<1> HIDE DEF K
<1>3. ASSUME NEW s \in Seq(V) PROVE Without(s, D) = Spell(K, s)
  <2>1. \A i \in DOMAIN s : s[i] \in V
    OBVIOUS
  <2>2. [i \in DOMAIN s |-> IF s[i] \in D THEN <<>> ELSE <<s[i]>>] = [i \in DOMAIN s |-> K[s[i]]]
    BY <1>1, <2>1
  <2> QED
    BY <2>2 DEF Without, Spell
<1>4. /\ Spell(K, <<>>) = <<>>
      /\ \A x \in Seq(V) : Spell(K, x) \in Seq(V \ D)
      /\ \A c \in V, x \in Seq(V) : Spell(K, <<c>> \o x) = K[c] \o Spell(K, x)
  <2>1. SpellsOut(K, V, V \ D)
    BY <1>2, SpellCons
  <2> QED
    BY <2>1 DEF SpellsOut
<1>5. \A s, t \in Seq(V) : Spell(K, s \o t) = Spell(K, s) \o Spell(K, t)
  BY <1>2, SpellConcat
<1>6. \A s, t \in Seq(V) : s \o t \in Seq(V)
  BY ConcatProperties
<1>7. ASSUME NEW x \in V PROVE Without(<<x>>, D) = IF x \in D THEN <<>> ELSE <<x>>
  <2>1. <<x>> \in Seq(V) /\ <<>> \in Seq(V) /\ <<x>> \o <<>> = <<x>>
    <3>1. <<x>> \in Seq(V)
      OBVIOUS
    <3> QED
      BY <3>1, ConcatEmptySeq
  <2>2. K[x] \o <<>> = K[x]
    BY <1>1, ConcatEmptySeq
  <2>3. Spell(K, <<x>> \o <<>>) = K[x] \o Spell(K, <<>>)
    BY <1>4, <2>1
  <2> QED
    BY <1>1, <1>3, <1>4, <2>1, <2>2, <2>3
<1>8. <<>> \in Seq(V)
  OBVIOUS
<1>9. \A s \in Seq(V) : Without(s, D) \in Seq(V \ D)
  BY <1>3, <1>4
<1>10. ASSUME NEW s \in Seq(V), NEW t \in Seq(V) PROVE Without(s \o t, D) = Without(s, D) \o Without(t, D)
  <2>1. s \o t \in Seq(V) /\ Spell(K, s \o t) = Spell(K, s) \o Spell(K, t)
    BY <1>5, <1>6
  <2>2. Without(s \o t, D) = Spell(K, s \o t)
    BY <1>3, <2>1
  <2>3. Without(s, D) = Spell(K, s) /\ Without(t, D) = Spell(K, t)
    BY <1>3
  <2> QED
    BY <2>1, <2>2, <2>3
<1>11. Without(<<>>, D) = <<>>
  BY <1>3, <1>4, <1>8
<1> QED
  BY <1>7, <1>9, <1>10, <1>11 DEF Filtered

\* A sequence without any of what is left out stays as it is.
LEMMA WithoutAny ==
  ASSUME NEW V, NEW D
  PROVE  \A s \in Seq(V \ D) : Without(s, D) = s
<1> DEFINE W == V \ D
           G == {s \in Seq(W) : Without(s, D) = s}
<1>1. /\ \A s, t \in Seq(V) : Without(s \o t, D) = Without(s, D) \o Without(t, D)
      /\ \A x \in V : Without(<<x>>, D) = IF x \in D THEN <<>> ELSE <<x>>
      /\ Without(<<>>, D) = <<>>
  <2>1. Filtered(V, D)
    BY WithoutLaws
  <2> QED
    BY <2>1 DEF Filtered
<1>2. <<>> \in G
  BY <1>1
<1>3. ASSUME NEW c \in W, NEW s \in Seq(W), s \in G PROVE <<c>> \o s \in G
  <2>1. W \subseteq V /\ c \in V /\ c \notin D
    OBVIOUS
  <2> HIDE DEF W
  <2>2. s \in Seq(V) /\ <<c>> \in Seq(V)
    BY <2>1, SeqMonotonic
  <2>3. <<c>> \o s \in Seq(W)
    BY ConsProperties
  <2>4. Without(<<c>>, D) = <<c>> /\ Without(s, D) = s
    BY <1>1, <1>3, <2>1
  <2> QED
    BY <1>1, <2>2, <2>3, <2>4
<1>4. Seq(W) \subseteq G
  <2> HIDE DEF G, W
  <2> QED
    BY <1>2, <1>3, AllSequences
<1> QED
  BY <1>4

-----------------------------------------------------------------------------
(***************************************************************************)
(* Text that is UTF-8 and has no control character: String::from_utf8 and  *)
(* sanitize_path let it through.  So they do two such texts, one after the *)
(* other, and what is between two slashes of one.                          *)
(***************************************************************************)
Utf8(s) ==
    \A i \in DOMAIN s :
       /\ s[i] \in (0..127) \cup Leads \cup Follows
       /\ s[i] \in Leads => i < Len(s) /\ s[i + 1] \in Follows
       /\ s[i] \in Follows => i > 1 /\ s[i - 1] \in Leads
\* What sanitize_path refuses in a path.
Control == (0..31) \cup {127}
\* A text that it does not refuse.
Proper == {s \in Text : Utf8(s) /\ \A i \in DOMAIN s : s[i] \notin Control}

\* FromUtf8 gives the bytes back, or None.
LEMMA FromUtf8Iff == \A s \in Text : (FromUtf8(s) = s <=> Utf8(s)) /\ (FromUtf8(s) = None <=> ~ Utf8(s))
  BY NoneIsNoText DEF FromUtf8, Utf8

\* An element of two sequences, one after the other, is one of the first or of the second.
LEMMA ConcatAt ==
  ASSUME NEW S, NEW a \in Seq(S), NEW b \in Seq(S)
  PROVE  /\ a \o b \in Seq(S) /\ Len(a \o b) = Len(a) + Len(b)
         /\ \A i \in 1..Len(a) : (a \o b)[i] = a[i]
         /\ \A i \in 1..Len(b), j \in Int : j = Len(a) + i => (a \o b)[j] = b[i]
<1>1. Len(a) \in Nat /\ Len(b) \in Nat
  BY LenProperties
<1>2. /\ a \o b \in Seq(S) /\ Len(a \o b) = Len(a) + Len(b)
      /\ \A i \in 1..(Len(a) + Len(b)) : (a \o b)[i] = IF i <= Len(a) THEN a[i] ELSE b[i - Len(a)]
  BY ConcatProperties
<1> DEFINE c == a \o b
           m == Len(a)
           n == Len(b)
<1> HIDE DEF c, m, n
<1>3. m \in Nat /\ n \in Nat /\ \A i \in 1..(m + n) : c[i] = IF i <= m THEN a[i] ELSE b[i - m]
  BY <1>1, <1>2 DEF c, m, n
<1>4. ASSUME NEW i \in 1..m PROVE c[i] = a[i]
  <2>1. i \in 1..(m + n) /\ i <= m
    BY <1>3
  <2> QED
    BY <1>3, <2>1
<1>5. ASSUME NEW i \in 1..n, NEW j \in Int, j = m + i PROVE c[j] = b[i]
  <2>1. j \in 1..(m + n) /\ ~ (j <= m) /\ j - m = i
    BY <1>3, <1>5
  <2> QED
    BY <1>3, <2>1
<1> QED
  BY <1>2, <1>4, <1>5 DEF c, m, n

\* Two texts in UTF-8, one after the other.
LEMMA Utf8Concat == ASSUME NEW a \in Text, NEW b \in Text, Utf8(a), Utf8(b) PROVE Utf8(a \o b)
<1> DEFINE c == a \o b
           m == Len(a)
           n == Len(b)
<1>1. m \in Nat /\ n \in Nat
  BY LenProperties DEF Text
<1>2. /\ c \in Text /\ Len(c) = m + n
      /\ \A i \in 1..m : c[i] = a[i]
      /\ \A i \in 1..n, j \in Int : j = m + i => c[j] = b[i]
  BY ConcatAt DEF Text
<1>3. DOMAIN c = 1..(m + n) /\ DOMAIN a = 1..m /\ DOMAIN b = 1..n
  <2> HIDE DEF c
  <2> QED
    BY <1>2, LenProperties DEF Text
<1> HIDE DEF c, m, n
<1>4. ASSUME NEW i \in 1..(m + n)
      PROVE  /\ c[i] \in (0..127) \cup Leads \cup Follows
             /\ c[i] \in Leads => i < m + n /\ c[i + 1] \in Follows
             /\ c[i] \in Follows => i > 1 /\ c[i - 1] \in Leads
  <2>1. CASE i \in 1..m
    <3>1. /\ a[i] \in (0..127) \cup Leads \cup Follows
          /\ a[i] \in Leads => i < m /\ a[i + 1] \in Follows
          /\ a[i] \in Follows => i > 1 /\ a[i - 1] \in Leads
      BY <1>3, <2>1 DEF Utf8, m
    <3>2. c[i] = a[i]
      BY <1>2, <2>1
    <3>3. i < m => c[i + 1] = a[i + 1] /\ i < m + n
      <4>1. i < m => i + 1 \in 1..m /\ i < m + n
        BY <1>1, <2>1
      <4> QED
        BY <1>2, <4>1
    <3>4. i > 1 => c[i - 1] = a[i - 1]
      <4>1. i > 1 => i - 1 \in 1..m
        BY <1>1, <2>1
      <4> QED
        BY <1>2, <4>1
    <3> QED
      BY <3>1, <3>2, <3>3, <3>4
  <2>2. CASE i \notin 1..m
    <3> DEFINE k == i - m
    <3>0. k \in 1..n /\ i = m + k
      BY <1>1, <2>2
    <3> HIDE DEF k
    <3>1. /\ b[k] \in (0..127) \cup Leads \cup Follows
          /\ b[k] \in Leads => k < n /\ b[k + 1] \in Follows
          /\ b[k] \in Follows => k > 1 /\ b[k - 1] \in Leads
      BY <1>3, <3>0 DEF Utf8, n
    <3>2. c[i] = b[k]
      BY <1>2, <3>0
    <3>3. k < n => c[i + 1] = b[k + 1] /\ i < m + n
      <4>1. k < n => k + 1 \in 1..n /\ i + 1 = m + (k + 1) /\ i + 1 \in Int /\ i < m + n
        BY <1>1, <3>0
      <4> QED
        BY <1>2, <4>1
    <3>4. k > 1 => c[i - 1] = b[k - 1] /\ i > 1
      <4>1. k > 1 => k - 1 \in 1..n /\ i - 1 = m + (k - 1) /\ i - 1 \in Int /\ i > 1
        BY <1>1, <3>0
      <4> QED
        BY <1>2, <4>1
    <3> QED
      BY <3>1, <3>2, <3>3, <3>4
  <2> QED
    BY <2>1, <2>2
<1> QED
  BY <1>2, <1>3, <1>4 DEF Utf8, c

\* Two that are not refused, one after the other.
LEMMA ProperConcat == \A a, b \in Proper : a \o b \in Proper
<1> SUFFICES ASSUME NEW a \in Proper, NEW b \in Proper PROVE a \o b \in Proper
  OBVIOUS
<1> DEFINE c == a \o b
           m == Len(a)
           n == Len(b)
<1>0. a \in Text /\ b \in Text /\ Utf8(a) /\ Utf8(b)
  BY DEF Proper
<1>1. m \in Nat /\ n \in Nat
  BY <1>0, LenProperties DEF Text
<1>2. /\ c \in Text /\ Len(c) = m + n
      /\ \A i \in 1..m : c[i] = a[i]
      /\ \A i \in 1..n, j \in Int : j = m + i => c[j] = b[i]
  BY <1>0, ConcatAt DEF Text
<1>3. DOMAIN c = 1..(m + n) /\ DOMAIN a = 1..m /\ DOMAIN b = 1..n
  <2> HIDE DEF c
  <2> QED
    BY <1>0, <1>2, LenProperties DEF Text
<1>4. Utf8(c)
  BY <1>0, Utf8Concat
<1>5. (\A i \in 1..m : a[i] \notin Control) /\ (\A i \in 1..n : b[i] \notin Control)
  BY <1>3 DEF Proper
<1> HIDE DEF c, m, n
<1>6. ASSUME NEW i \in 1..(m + n) PROVE c[i] \notin Control
  <2>1. CASE i \in 1..m
    BY <1>2, <1>5, <2>1
  <2>2. CASE i \notin 1..m
    <3> DEFINE k == i - m
    <3>1. k \in 1..n /\ i = m + k /\ i \in Int
      BY <1>1, <2>2
    <3> HIDE DEF k
    <3> QED
      BY <1>2, <1>5, <3>1
  <2> QED
    BY <2>1, <2>2
<1> QED
  BY <1>2, <1>3, <1>4, <1>6 DEF Proper, c

\* ASCII is UTF-8, and so is "/".
LEMMA AsciiIsUtf8 == \A s \in Seq(Ascii) : s \in Text /\ Utf8(s)
<1>1. Ascii \subseteq Byte /\ \A c \in Ascii : c \in 0..127 /\ c \notin Leads /\ c \notin Follows
  BY DEF Ascii, Byte, Leads, Follows
<1>2. \A s \in Seq(Ascii) : \A i \in DOMAIN s : s[i] \in Ascii
  OBVIOUS
<1>3. \A s \in Seq(Ascii) : s \in Text
  BY <1>1, SeqMonotonic DEF Text
<1> QED
  BY <1>1, <1>2, <1>3 DEF Utf8

\* A slash is not refused, nor is nothing.
LEMMA SlashIsProper == <<Slash>> \in Proper /\ <<>> \in Proper
<1> DEFINE S == Slash
<1>1. S \in Ascii /\ S \notin Control
  BY DEF Slash, Ascii, Control
<1> HIDE DEF S
<1>2. <<S>> \in Seq(Ascii) /\ <<>> \in Seq(Ascii) /\ DOMAIN <<S>> = {1} /\ <<S>>[1] = S /\ DOMAIN <<>> = {}
  BY <1>1
<1> QED
  BY <1>1, <1>2, AsciiIsUtf8 DEF Proper, S

\* So are segments that are, each with a slash before it.
LEMMA JoinedIsProper == \A p \in Seq(Segment \cap Proper) : Joined(p) \in Proper
<1> DEFINE V == Segment \cap Proper
           G == {p \in Seq(V) : Joined(p) \in Proper}
<1>1. /\ Joined(<<>>) = <<>>
      /\ \A x \in Segment, p \in Seq(Segment) : Joined(<<x>> \o p) = Slashed[x] \o Joined(p)
  BY JoinedLaws
<1>2. <<>> \in G
  BY <1>1, SlashIsProper
<1>3. ASSUME NEW x \in V, NEW p \in Seq(V), p \in G PROVE <<x>> \o p \in G
  <2>1. p \in Seq(Segment)
    <3>1. V \subseteq Segment
      OBVIOUS
    <3> HIDE DEF V
    <3> QED
      BY <3>1, SeqMonotonic
  <2>2. <<x>> \o p \in Seq(V)
    BY ConsProperties
  <2>3. <<Slash>> \o x \in Proper /\ Joined(p) \in Proper
    BY <1>3, SlashIsProper, ProperConcat
  <2>4. Joined(<<x>> \o p) = (<<Slash>> \o x) \o Joined(p)
    BY <1>1, <2>1, SlashedPieces
  <2> QED
    BY <2>2, <2>3, <2>4, ProperConcat
<1>4. Seq(V) \subseteq G
  <2> HIDE DEF G, V
  <2> QED
    BY <1>2, <1>3, AllSequences
<1> QED
  BY <1>4

(***************************************************************************)
(* What str::split gives is where it was in the text: x from after         *)
(* position p, between the ends of the text or the bytes it is cut at.     *)
(***************************************************************************)
Piece(x, t, b, p) ==
    /\ x \in Text /\ p \in Nat /\ p + Len(x) <= Len(t)
    /\ \A i \in 1..Len(x), j \in Int : j = p + i => x[i] = t[j] /\ x[i] # b
    /\ p = 0 \/ t[p] = b
    /\ \A j \in Int : j = p + Len(x) + 1 => j = Len(t) + 1 \/ t[j] = b

\* The positions of a text with one byte more in front.
LEMMA ConsAt ==
  ASSUME NEW c \in Byte, NEW t \in Text
  PROVE  /\ <<c>> \o t \in Text /\ Len(<<c>> \o t) = Len(t) + 1 /\ (<<c>> \o t)[1] = c
         /\ \A i \in 1..Len(t), j \in Int : j = i + 1 => (<<c>> \o t)[j] = t[i]
<1>1. /\ <<c>> \o t \in Text /\ Len(<<c>> \o t) = Len(t) + 1 /\ (<<c>> \o t)[1] = c
      /\ \A i \in 1..Len(t) : (<<c>> \o t)[i + 1] = t[i]
  BY ConsProperties DEF Text
<1> QED
  BY <1>1

\* A byte more before the text: a piece is one position further on, the first may be longer.
LEMMA PieceFurther ==
  ASSUME NEW x, NEW t \in Text, NEW b, NEW p, Piece(x, t, b, p), NEW c \in Byte, p = 0 => c = b
  PROVE  Piece(x, <<c>> \o t, b, p + 1)
<1> DEFINE s == <<c>> \o t
           n == Len(t)
           m == Len(x)
           q == p + 1
<1>1. /\ s \in Text /\ Len(s) = n + 1 /\ s[1] = c
      /\ \A i \in 1..n, j \in Int : j = i + 1 => s[j] = t[i]
  BY ConsAt
<1>2. /\ n \in Nat /\ m \in Nat /\ x \in Text /\ p \in Nat /\ p + m <= n
      /\ \A i \in 1..m, j \in Int : j = p + i => x[i] = t[j] /\ x[i] # b
      /\ p = 0 \/ t[p] = b
      /\ \A j \in Int : j = p + m + 1 => j = n + 1 \/ t[j] = b
  BY LenProperties DEF Piece, Text
<1>3. q \in Nat /\ q = p + 1 /\ q + m <= n + 1
  BY <1>2
<1> HIDE DEF s, n, m, q
<1>4. ASSUME NEW i \in 1..m, NEW j \in Int, j = q + i PROVE x[i] = s[j] /\ x[i] # b
  <2>1. j - 1 = p + i /\ j - 1 \in Int /\ j - 1 \in 1..n /\ j = (j - 1) + 1
    BY <1>2, <1>3, <1>4
  <2> QED
    BY <1>1, <1>2, <2>1
<1>5. s[q] = b
  <2>1. CASE p = 0
    BY <1>1, <1>3, <2>1
  <2>2. CASE p # 0
    <3>1. p \in 1..n /\ q \in Int
      BY <1>2, <1>3, <2>2
    <3> QED
      BY <1>1, <1>2, <1>3, <2>2, <3>1
  <2> QED
    BY <2>1, <2>2
<1>6. ASSUME NEW j \in Int, j = q + m + 1 PROVE j = n + 1 + 1 \/ s[j] = b
  <2> DEFINE k == j - 1
  <2>1. k = p + m + 1 /\ k \in Int /\ j = k + 1 /\ (k = n + 1 \/ k \in 1..n)
    BY <1>2, <1>3, <1>6
  <2> HIDE DEF k
  <2>2. k = n + 1 \/ t[k] = b
    BY <1>2, <2>1
  <2>3. CASE k = n + 1
    BY <2>1, <2>3
  <2>4. CASE k # n + 1
    BY <1>1, <2>1, <2>2, <2>4
  <2> QED
    BY <2>3, <2>4
<1> QED
  BY <1>1, <1>2, <1>3, <1>4, <1>5, <1>6 DEF Piece, s, n, m, q

\* A first piece with one byte more is a piece of the text with it.
LEMMA PieceLonger ==
  ASSUME NEW x, NEW t \in Text, NEW b, NEW p, p = 0, Piece(x, t, b, p), NEW c \in Byte, c # b
  PROVE  Piece(<<c>> \o x, <<c>> \o t, b, p)
<1> DEFINE s == <<c>> \o t
           y == <<c>> \o x
           n == Len(t)
           m == Len(x)
<1>1. /\ s \in Text /\ Len(s) = n + 1 /\ s[1] = c
      /\ \A i \in 1..n, j \in Int : j = i + 1 => s[j] = t[i]
  BY ConsAt
<1>2. /\ n \in Nat /\ m \in Nat /\ x \in Text /\ p \in Nat /\ p + m <= n
      /\ \A i \in 1..m, j \in Int : j = p + i => x[i] = t[j] /\ x[i] # b
      /\ \A j \in Int : j = p + m + 1 => j = n + 1 \/ t[j] = b
  BY LenProperties DEF Piece, Text
<1>3. /\ y \in Text /\ Len(y) = m + 1 /\ y[1] = c
      /\ \A i \in 1..m, j \in Int : j = i + 1 => y[j] = x[i]
  BY <1>2, ConsAt
<1> HIDE DEF s, y, n, m
<1>4. ASSUME NEW i \in 1..(m + 1), NEW j \in Int, j = p + i PROVE y[i] = s[j] /\ y[i] # b
  <2>1. CASE i = 1
    <3>1. j = 1
      BY <1>4, <2>1
    <3> QED
      BY <1>1, <1>3, <2>1, <3>1
  <2>2. CASE i # 1
    <3> DEFINE k == i - 1
    <3>1. k \in 1..m /\ i = k + 1 /\ j = k + 1 /\ i \in Int /\ k \in 1..n /\ k = p + k /\ k \in Int
      BY <1>2, <1>4, <2>2
    <3> HIDE DEF k
    <3>2. x[k] = t[k] /\ x[k] # b
      BY <1>2, <3>1
    <3>3. y[i] = x[k] /\ s[j] = t[k]
      BY <1>1, <1>3, <3>1
    <3> QED
      BY <3>2, <3>3
  <2> QED
    BY <2>1, <2>2
<1>5. ASSUME NEW j \in Int, j = p + (m + 1) + 1 PROVE j = n + 1 + 1 \/ s[j] = b
  <2> DEFINE k == j - 1
  <2>1. k = p + m + 1 /\ k \in Int /\ j = k + 1 /\ (k = n + 1 \/ k \in 1..n)
    BY <1>2, <1>5
  <2> HIDE DEF k
  <2>2. k = n + 1 \/ t[k] = b
    BY <1>2, <2>1
  <2>3. CASE k = n + 1
    BY <2>1, <2>3
  <2>4. CASE k # n + 1
    BY <1>1, <2>1, <2>2, <2>4
  <2> QED
    BY <2>3, <2>4
<1>6. p \in Nat /\ p + (m + 1) <= n + 1
  BY <1>2
<1> QED
  BY <1>1, <1>3, <1>4, <1>5, <1>6 DEF Piece, s, y, n, m

\* The elements of a sequence with one more in front.
LEMMA ConsElements ==
  ASSUME NEW S, NEW c \in S, NEW t \in Seq(S)
  PROVE  ToSet(<<c>> \o t) = {c} \cup ToSet(t)
<1> DEFINE s == <<c>> \o t
           n == Len(t)
<1>1. s \in Seq(S) /\ Len(s) = n + 1 /\ s[1] = c /\ \A i \in 1..n : s[i + 1] = t[i]
  BY ConsProperties
<1>2. n \in Nat /\ DOMAIN t = 1..n
  BY LenProperties
<1> HIDE DEF s
<1>3. DOMAIN s = 1..(n + 1)
  BY <1>1, LenProperties
<1> HIDE DEF n
<1>4. ASSUME NEW i \in 1..(n + 1) PROVE s[i] = c \/ \E k \in 1..n : s[i] = t[k]
  <2>1. CASE i = 1
    BY <1>1, <2>1
  <2>2. CASE i # 1
    <3> DEFINE k == i - 1
    <3>1. k \in 1..n /\ i = k + 1
      BY <1>2, <2>2
    <3> HIDE DEF k
    <3> QED
      BY <1>1, <3>1
  <2> QED
    BY <2>1, <2>2
<1>5. 1 \in 1..(n + 1) /\ \A k \in 1..n : k + 1 \in 1..(n + 1)
  BY <1>2
<1>6. ASSUME NEW x \in ToSet(s) PROVE x = c \/ x \in ToSet(t)
  <2>1. PICK i \in 1..(n + 1) : x = s[i]
    BY <1>3 DEF ToSet
  <2> QED
    BY <1>2, <1>4, <2>1 DEF ToSet
<1>7. c \in ToSet(s)
  BY <1>1, <1>3, <1>5 DEF ToSet
<1>8. ASSUME NEW x \in ToSet(t) PROVE x \in ToSet(s)
  <2>1. PICK k \in 1..n : x = t[k]
    BY <1>2 DEF ToSet
  <2>2. x = s[k + 1] /\ k + 1 \in 1..(n + 1)
    BY <1>1, <1>5, <2>1
  <2> QED
    BY <1>3, <2>2 DEF ToSet
<1> QED
  BY <1>6, <1>7, <1>8 DEF s

\* Every one that str::split gives is a piece of the text, the first from its start.
LEMMA SplitGivesPieces ==
  ASSUME NEW b
  PROVE  \A t \in Text : /\ Piece(Head(Split(t, b)), t, b, 0)
                         /\ \A x \in ToSet(Tail(Split(t, b))) : \E p : p # 0 /\ Piece(x, t, b, p)
<1> DEFINE G == {t \in Seq(Byte) : /\ Piece(Head(Split(t, b)), t, b, 0)
                                   /\ \A x \in ToSet(Tail(Split(t, b))) : \E p : p # 0 /\ Piece(x, t, b, p)}
<1>1. <<>> \in G
  <2>1. Split(<<>>, b) = <<<<>>>> /\ <<>> \in Text /\ Len(<<>>) = 0
    BY SplitNone, NothingIsAPart
  <2>2. Head(<<<<>>>>) = <<>> /\ Tail(<<<<>>>>) = <<>>
    OBVIOUS
  <2>3. Piece(<<>>, <<>>, b, 0)
    BY <2>1 DEF Piece
  <2>4. ToSet(<<>>) = {}
    BY DEF ToSet
  <2>5. Head(Split(<<>>, b)) = <<>> /\ ToSet(Tail(Split(<<>>, b))) = {} /\ <<>> \in Seq(Byte)
    <3>1. Head(Split(<<>>, b)) = <<>>
      BY <2>1, <2>2
    <3>2. Tail(Split(<<>>, b)) = <<>>
      BY <2>1, <2>2
    <3>3. ToSet(Tail(Split(<<>>, b))) = {}
      BY <2>4, <3>2
    <3>4. <<>> \in Seq(Byte)
      OBVIOUS
    <3> QED
      BY <3>1, <3>3, <3>4
  <2> QED
    BY <2>3, <2>5
<1>2. ASSUME NEW c \in Byte, NEW t \in Seq(Byte), t \in G PROVE <<c>> \o t \in G
  <2> DEFINE s == <<c>> \o t
             h == Head(Split(t, b))
             u == Tail(Split(t, b))
             z == 0
  <2>1. t \in Text /\ s \in Seq(Byte) /\ z = 0 /\ z + 1 = 1
    BY ConsProperties DEF Text
  <2>2. h \in Text /\ u \in Seq(Text) /\ Split(t, b) = <<h>> \o u
    <3>1. Split(t, b) \in Seq(Text) /\ Split(t, b) # <<>>
      BY <2>1, SplitCons DEF Parts
    <3> QED
      BY <3>1, ConsOf
  <2>3. Split(s, b) = Cut(c, b, Split(t, b))
    BY <2>1, SplitCons
  <2>4. Piece(h, t, b, z) /\ \A x \in ToSet(u) : \E p : p # 0 /\ Piece(x, t, b, p)
    BY <1>2
  <2>5. ToSet(<<h>> \o u) = {h} \cup ToSet(u)
    BY <2>2, ConsElements
  <2> HIDE DEF h, u, z
  <2>6. CASE c = b
    <3>1. Split(s, b) = <<<<>>>> \o (<<h>> \o u) /\ <<h>> \o u \in Seq(Text) /\ <<>> \in Text
      <4>1. <<h>> \o u \in Seq(Text)
        BY <2>2, ConsProperties
      <4> QED
        BY <2>2, <2>3, <2>6, <4>1, NothingIsAPart DEF Cut
    <3>2. Head(Split(s, b)) = <<>> /\ Tail(Split(s, b)) = <<h>> \o u
      <4> DEFINE v == <<h>> \o u
                 e == <<>>
      <4>1. v \in Seq(Text) /\ e \in Text /\ Split(s, b) = <<e>> \o v
        BY <3>1
      <4> HIDE DEF v, e, s
      <4>2. Head(<<e>> \o v) = e /\ Tail(<<e>> \o v) = v
        BY <4>1, ConsProperties
      <4> QED
        BY <4>1, <4>2 DEF v, e
    <3>3. Piece(<<>>, s, b, 0)
      <4>1. s \in Text /\ Len(s) = Len(t) + 1 /\ s[1] = c /\ Len(t) \in Nat
        BY <2>1, ConsAt, LenProperties DEF Text
      <4> HIDE DEF s
      <4> QED
        BY <2>6, <3>1, <4>1 DEF Piece
    <3>4. ASSUME NEW x \in {h} \cup ToSet(u) PROVE \E p : p # 0 /\ Piece(x, s, b, p)
      <4>1. PICK p : Piece(x, t, b, p)
        BY <2>4 DEF z
      <4>2. Piece(x, s, b, p + 1)
        BY <2>1, <2>6, <4>1, PieceFurther
      <4>3. p + 1 # 0
        BY <4>1 DEF Piece
      <4> QED
        BY <4>2, <4>3
    <3> QED
      BY <2>1, <2>5, <3>2, <3>3, <3>4
  <2>7. CASE c # b
    <3> DEFINE y == <<c>> \o h
    <3>0. y \in Text
      BY <2>2, ConsAt
    <3>1. Split(s, b) = <<y>> \o u
      <4>1. Head(<<h>> \o u) = h /\ Tail(<<h>> \o u) = u
        BY <2>2, ConsProperties
      <4> QED
        BY <2>2, <2>3, <2>7, <4>1 DEF Cut
    <3>2. Piece(y, s, b, z)
      BY <2>1, <2>4, <2>7, PieceLonger
    <3> HIDE DEF y
    <3>3. Head(Split(s, b)) = y /\ Tail(Split(s, b)) = u
      <4>1. Head(<<y>> \o u) = y /\ Tail(<<y>> \o u) = u
        BY <2>2, <3>0, ConsProperties
      <4> QED
        BY <3>1, <4>1
    <3>4. ASSUME NEW x \in ToSet(u) PROVE \E p : p # 0 /\ Piece(x, s, b, p)
      <4>1. PICK p : p # 0 /\ Piece(x, t, b, p)
        BY <2>4
      <4>2. Piece(x, s, b, p + 1)
        BY <2>1, <4>1, PieceFurther
      <4>3. p + 1 # 0
        BY <4>1 DEF Piece
      <4> QED
        BY <4>2, <4>3
    <3> QED
      BY <2>1, <3>2, <3>3, <3>4
  <2> QED
    BY <2>6, <2>7
<1>3. Seq(Byte) \subseteq G
  <2> HIDE DEF G
  <2> QED
    BY <1>1, <1>2, AllSequences
<1> QED
  BY <1>3 DEF Text

\* A piece of what is not refused is not refused: no two-byte character is cut.
LEMMA PieceIsProper ==
  ASSUME NEW x, NEW t \in Proper, NEW p, Piece(x, t, Slash, p)
  PROVE  x \in Segment \cap Proper
<1> DEFINE n == Len(t)
           m == Len(x)
           S == Slash
<1>1. t \in Text /\ Utf8(t) /\ \A i \in DOMAIN t : t[i] \notin Control
  BY DEF Proper
<1>2. /\ n \in Nat /\ m \in Nat /\ x \in Text /\ p \in Nat /\ p + m <= n
      /\ \A i \in 1..m, j \in Int : j = p + i => x[i] = t[j] /\ x[i] # S
      /\ p = 0 \/ t[p] = S
      /\ \A j \in Int : j = p + m + 1 => j = n + 1 \/ t[j] = S
  BY <1>1, LenProperties DEF Piece, Text
<1>3. DOMAIN x = 1..m /\ DOMAIN t = 1..n
  BY <1>1, <1>2, LenProperties DEF Text
<1>4. S \notin Leads /\ S \notin Follows
  BY DEF Slash, Leads, Follows
<1>5. \A i \in 1..n :
         /\ t[i] \in (0..127) \cup Leads \cup Follows
         /\ t[i] \in Leads => i < n /\ t[i + 1] \in Follows
         /\ t[i] \in Follows => i > 1 /\ t[i - 1] \in Leads
         /\ t[i] \notin Control
  BY <1>1, <1>3 DEF Utf8
<1> HIDE DEF n, m, S
<1>6. ASSUME NEW i \in 1..m
      PROVE  /\ x[i] \in (0..127) \cup Leads \cup Follows
             /\ x[i] \in Leads => i < m /\ x[i + 1] \in Follows
             /\ x[i] \in Follows => i > 1 /\ x[i - 1] \in Leads
             /\ x[i] \notin Control
  <2> DEFINE j == p + i
  <2>1. j \in 1..n /\ j = p + i /\ j \in Int
    BY <1>2
  <2> HIDE DEF j
  <2>2. x[i] = t[j]
    BY <1>2, <2>1
  <2>3. x[i] \in Leads => i < m /\ x[i + 1] \in Follows
    <3>1. SUFFICES ASSUME x[i] \in Leads PROVE i < m /\ x[i + 1] \in Follows
      OBVIOUS
    <3> DEFINE k == j + 1
    <3>2. k \in Int /\ k = p + (i + 1) /\ j < n /\ t[k] \in Follows
      <4>1. j < n /\ t[j + 1] \in Follows
        BY <1>5, <2>1, <2>2, <3>1
      <4>2. k \in Int /\ k = p + (i + 1)
        BY <1>2, <2>1
      <4> QED
        BY <4>1, <4>2
    <3>3. CASE i = m
      <4>1. k = p + m + 1 /\ k # n + 1
        BY <1>2, <2>1, <3>2, <3>3
      <4> QED
        BY <1>2, <1>4, <3>2, <4>1
    <3>4. CASE i # m
      <4>1. i + 1 \in 1..m /\ i < m
        BY <1>2, <3>4
      <4> HIDE DEF k
      <4> QED
        BY <1>2, <3>2, <4>1
    <3> QED
      BY <3>3, <3>4
  <2>4. x[i] \in Follows => i > 1 /\ x[i - 1] \in Leads
    <3>1. SUFFICES ASSUME x[i] \in Follows PROVE i > 1 /\ x[i - 1] \in Leads
      OBVIOUS
    <3> DEFINE k == j - 1
    <3>2. k \in Int /\ k = p + (i - 1) /\ j > 1 /\ t[k] \in Leads
      <4>1. j > 1 /\ t[j - 1] \in Leads
        BY <1>5, <2>1, <2>2, <3>1
      <4>2. k \in Int /\ k = p + (i - 1)
        BY <1>2, <2>1
      <4> QED
        BY <4>1, <4>2
    <3>3. CASE i = 1
      <4>1. k = p /\ p # 0
        BY <1>2, <2>1, <3>2, <3>3
      <4> QED
        BY <1>2, <1>4, <3>2, <4>1
    <3>4. CASE i # 1
      <4>1. i - 1 \in 1..m /\ i > 1
        BY <1>2, <3>4
      <4> HIDE DEF k
      <4> QED
        BY <1>2, <3>2, <4>1
    <3> QED
      BY <3>3, <3>4
  <2> QED
    BY <1>5, <2>1, <2>2, <2>3, <2>4
<1>7. x \in Proper
  BY <1>2, <1>3, <1>6 DEF Proper, Utf8, m
<1>8. x \in Segment
  <2>1. ASSUME NEW i \in 1..m PROVE x[i] \in Byte \ {S}
    <3>1. x[i] \in Byte
      BY <1>2, <1>3 DEF Text
    <3>2. p + i \in Int
      BY <1>2
    <3> QED
      BY <1>2, <3>1, <3>2
  <2>2. x \in [1..m -> Byte \ {S}]
    <3>1. x = [i \in 1..m |-> x[i]]
      BY <1>2, <1>3 DEF Text
    <3> QED
      BY <2>1, <3>1
  <2> QED
    BY <1>2, <2>2, SeqDef DEF Segment, S
<1> QED
  BY <1>7, <1>8

\* A sequence of elements of a set.
LEMMA ElementsOf == ASSUME NEW A, NEW V, NEW s \in Seq(A), ToSet(s) \subseteq V PROVE s \in Seq(V)
<1>1. Len(s) \in Nat /\ DOMAIN s = 1..Len(s) /\ s = [i \in 1..Len(s) |-> s[i]]
  BY LenProperties
<1>2. \A i \in 1..Len(s) : s[i] \in V
  BY <1>1 DEF ToSet
<1>3. s \in [1..Len(s) -> V]
  BY <1>1, <1>2
<1> QED
  BY <1>1, <1>3, SeqDef

\* All parts of what is not refused are segments that are not.
LEMMA SplitIsProper == \A t \in Proper : Split(t, Slash) \in Seq(Segment \cap Proper)
<1> SUFFICES ASSUME NEW t \in Proper PROVE Split(t, Slash) \in Seq(Segment \cap Proper)
  OBVIOUS
<1> DEFINE s == Split(t, Slash)
           V == Segment \cap Proper
           S == Slash
<1>1. t \in Text
  BY DEF Proper
<1>2. s \in Seq(Text) /\ s # <<>>
  BY <1>1, SplitCons DEF Parts
<1>3. Head(s) \in Text /\ Tail(s) \in Seq(Text) /\ s = <<Head(s)>> \o Tail(s)
  BY <1>2, ConsOf
<1>4. ToSet(s) = {Head(s)} \cup ToSet(Tail(s))
  <2> DEFINE c == Head(s)
             r == Tail(s)
  <2>1. c \in Text /\ r \in Seq(Text) /\ s = <<c>> \o r
    BY <1>3
  <2> HIDE DEF s, c, r
  <2>2. ToSet(<<c>> \o r) = {c} \cup ToSet(r)
    BY <2>1, ConsElements
  <2> QED
    BY <2>1, <2>2 DEF c, r
<1>5. Piece(Head(s), t, Slash, 0) /\ \A x \in ToSet(Tail(s)) : \E p : p # 0 /\ Piece(x, t, Slash, p)
  BY <1>1, SplitGivesPieces
<1> HIDE DEF s
<1>6. ASSUME NEW x \in ToSet(s) PROVE x \in V
  <2>1. PICK p : Piece(x, t, Slash, p)
    BY <1>4, <1>5
  <2> QED
    BY <2>1, PieceIsProper
<1>7. ToSet(s) \subseteq V
  BY <1>6
<1> HIDE DEF V
<1> QED
  BY <1>2, <1>7, ElementsOf DEF s, V

-----------------------------------------------------------------------------
(***************************************************************************)
(* sanitize_path.  Names are what its paths and those of drives consist    *)
(* of; Harmless are these and the segments it passes over.                 *)
(***************************************************************************)
Dropped == {<<>>, <<Dot>>}
\* The segments of a path that is not refused; without the dropped ones, names.
Harmless == (Segment \cap Proper) \ {<<Dot, Dot>>}
\* What is left are names.
Names == Harmless \ Dropped

\* They are the names that Graph has.
LEMMA NamesAre == \A x \in Text : Name(x) <=> x \in Names
<1> DEFINE C == (0..31) \cup {Slash, 127}
<1>1. C = Control \cup {Slash}
  BY DEF Control
<1> SUFFICES ASSUME NEW x \in Text PROVE Name(x) <=> x \in Names
  OBVIOUS
<1>2. Len(x) \in Nat /\ DOMAIN x = 1..Len(x) /\ x = [i \in 1..Len(x) |-> x[i]] /\ \A i \in DOMAIN x : x[i] \in Byte
  BY LenProperties DEF Text
<1>3. ASSUME NEW V PROVE x \in Seq(V) <=> \A i \in DOMAIN x : x[i] \in V
  <2>1. ASSUME \A i \in DOMAIN x : x[i] \in V PROVE x \in Seq(V)
    <3>1. x \in [1..Len(x) -> V]
      BY <1>2, <2>1
    <3> QED
      BY <1>2, <3>1, SeqDef
  <2>2. ASSUME x \in Seq(V) PROVE \A i \in DOMAIN x : x[i] \in V
    BY <2>2
  <2> QED
    BY <2>1, <2>2
<1>4. x \in Seq(Byte \ C) <=> \A i \in DOMAIN x : x[i] \notin C
  <2>1. x \in Seq(Byte \ C) <=> \A i \in DOMAIN x : x[i] \in Byte \ C
    BY <1>3
  <2> HIDE DEF C
  <2> QED
    BY <1>2, <2>1
<1>5. x \in Seq(Byte \ {Slash}) <=> \A i \in DOMAIN x : x[i] # Slash
  <2>1. x \in Seq(Byte \ {Slash}) <=> \A i \in DOMAIN x : x[i] \in Byte \ {Slash}
    BY <1>3
  <2> QED
    BY <1>2, <2>1
<1>6. x \in Seq(Byte \ C) <=> x \in Segment /\ \A i \in DOMAIN x : x[i] \notin Control
  <2> HIDE DEF C
  <2> QED
    BY <1>1, <1>4, <1>5 DEF Segment
<1>7. FromUtf8(x) = x <=> Utf8(x)
  BY FromUtf8Iff
<1> QED
  BY <1>6, <1>7 DEF Name, Names, Harmless, Dropped, Proper

\* Paths of them are the paths that a drive has.
LEMMA DrivePathsAre == \A path : DrivePath(path) <=> path \in Seq(Names)
<1>1. ASSUME NEW path, DrivePath(path) PROVE path \in Seq(Names)
  <2>1. path \in Seq(Text) /\ \A k \in DOMAIN path : Name(path[k]) /\ path[k] \in Text
    BY <1>1 DEF DrivePath, Text
  <2>2. ToSet(path) \subseteq Names
    BY <2>1, NamesAre DEF ToSet
  <2> QED
    BY <2>1, <2>2, ElementsOf
<1>2. ASSUME NEW path \in Seq(Names) PROVE DrivePath(path)
  <2>1. Names \subseteq Text
    BY DEF Names, Harmless, Proper
  <2>2. path \in Seq(Text)
    BY <2>1, SeqMonotonic
  <2>3. \A k \in DOMAIN path : path[k] \in Names /\ path[k] \in Text
    BY <2>1
  <2> QED
    BY <2>2, <2>3, NamesAre DEF DrivePath, Text
<1> QED
  BY <1>1, <1>2

\* An empty segment is one of these.
LEMMA NothingIsHarmless == <<>> \in Harmless /\ Harmless \subseteq Segment /\ Harmless \subseteq Segment \cap Proper
  BY SlashIsProper, SegmentIsText DEF Harmless

\* What sanitize_path leaves out.
LEMMA HarmlessFiltered == Filtered(Harmless, Dropped)
BY WithoutLaws

\* Whatever is asked for, what it gives is a path that a drive can have.
THEOREM SanitizedPath == \A raw \in Text : sanitize_path(raw) = None \/ sanitize_path(raw) \in Seq(Names)
<1> SUFFICES ASSUME NEW raw \in Text, sanitize_path(raw) # None PROVE sanitize_path(raw) \in Seq(Names)
  OBVIOUS
<1> DEFINE t == pct_decode(raw)
           segments == Split(t, Slash)
<1>1. /\ t # None /\ \A i \in DOMAIN t : ~ (t[i] < 32 \/ t[i] = 127)
      /\ <<Dot, Dot>> \notin ToSet(segments)
      /\ sanitize_path(raw) = Without(segments, {<<>>, <<Dot>>})
  BY DEF sanitize_path
<1>2. t \in Text /\ Utf8(t)
  <2>1. Unescaped(raw) \in TextOrNone
    BY UnescapedIsText
  <2>2. Unescaped(raw) # None /\ t = FromUtf8(Unescaped(raw))
    BY <1>1 DEF pct_decode
  <2>3. Unescaped(raw) \in Text
    BY <2>1, <2>2 DEF TextOrNone
  <2> QED
    BY <1>1, <2>2, <2>3, FromUtf8Iff
<1> HIDE DEF t
<1>3. t \in Proper
  <2>1. ASSUME NEW i \in DOMAIN t PROVE t[i] \notin Control
    <3>1. t[i] \in Byte /\ ~ (t[i] < 32 \/ t[i] = 127)
      BY <1>1, <1>2 DEF Text
    <3>2. \A c \in Byte : ~ (c < 32 \/ c = 127) => c \notin Control
      BY DEF Control, Byte
    <3> QED
      BY <3>1, <3>2
  <2> QED
    BY <1>2, <2>1 DEF Proper
<1>4. segments \in Seq(Segment \cap Proper)
  BY <1>3, SplitIsProper
<1> HIDE DEF segments
<1>5. ToSet(segments) \subseteq Harmless
  BY <1>1, <1>4 DEF ToSet, Harmless
<1>6. segments \in Seq(Harmless)
  BY <1>4, <1>5, ElementsOf
<1>7. \A s \in Seq(Harmless) : Without(s, Dropped) \in Seq(Harmless \ Dropped)
  BY HarmlessFiltered DEF Filtered
<1>8. Without(segments, Dropped) \in Seq(Names)
  BY <1>6, <1>7 DEF Names
<1> QED
  BY <1>1, <1>8 DEF Dropped

(***************************************************************************)
(* A path as a string, and back.  The string is segments, each with a      *)
(* slash before it; what sanitize_path passes over may be among them.      *)
(***************************************************************************)
Shows(q, path) == q \in Seq(Harmless) /\ Without(q, Dropped) = path

\* Sequences of these segments are sequences of segments and of texts.
LEMMA HarmlessSeq ==
  \A q \in Seq(Harmless) : q \in Seq(Segment) /\ q \in Seq(Segment \cap Proper) /\ q \in Seq(Text)
<1> SUFFICES ASSUME NEW q \in Seq(Harmless)
             PROVE  q \in Seq(Segment) /\ q \in Seq(Segment \cap Proper) /\ q \in Seq(Text)
  OBVIOUS
<1>1. Harmless \subseteq Segment /\ Harmless \subseteq Segment \cap Proper /\ Harmless \subseteq Text
  BY NothingIsHarmless, SegmentIsText
<1> DEFINE V == Segment \cap Proper
<1> HIDE DEF V
<1>2. q \in Seq(V)
  BY <1>1, SeqMonotonic DEF V
<1>3. q \in Seq(Segment) /\ q \in Seq(Text)
  BY <1>1, SeqMonotonic
<1> QED
  BY <1>2, <1>3 DEF V

\* A path as a string is segments joined, of which the path is left.
LEMMA RenderedIsJoined ==
  ASSUME NEW path \in Seq(Names)
  PROVE  \E q : Shows(q, path) /\ Rendered(path) = Joined(q)
<1>0. Names \subseteq Harmless /\ Names = Harmless \ Dropped
  BY DEF Names
<1>1. CASE path = <<>>
  <2> DEFINE e == <<>>
             q == <<e>>
  <2>1. e \in Segment /\ e \in Harmless /\ e \in Dropped
    BY NothingIsHarmless DEF Dropped
  <2>2. Rendered(path) = <<Slash>>
    BY <1>1 DEF Rendered
  <2>3. Joined(<<e>> \o e) = Slashed[e] \o Joined(e)
    <3>1. \A x \in Segment, p \in Seq(Segment) : Joined(<<x>> \o p) = Slashed[x] \o Joined(p)
      BY JoinedLaws
    <3>2. e \in Seq(Segment)
      OBVIOUS
    <3> HIDE DEF e
    <3> QED
      BY <2>1, <3>1, <3>2
  <2>4. Joined(e) = <<>>
    BY JoinedLaws
  <2>5. Joined(q) = <<Slash>>
    <3>1. <<e>> \in Seq(Segment) /\ e \in Seq(Segment)
      BY <2>1
    <3>2. <<e>> \o e = <<e>>
      BY <3>1, ConcatEmptySeq
    <3>3. <<Slash>> \in Seq(Byte) /\ <<Slash>> \o <<>> = <<Slash>>
      <4>1. <<Slash>> \in Seq(Byte)
        BY SlashIsProper DEF Proper, Text
      <4> QED
        BY <4>1, ConcatEmptySeq
    <3>4. Slashed[e] = <<Slash>> \o e
      BY <2>1, SlashedPieces
    <3> QED
      BY <2>3, <2>4, <3>2, <3>3, <3>4
  <2>6. Without(q, Dropped) = <<>>
    <3>1. \A x \in Harmless : Without(<<x>>, Dropped) = IF x \in Dropped THEN <<>> ELSE <<x>>
      BY HarmlessFiltered DEF Filtered
    <3> QED
      BY <2>1, <3>1
  <2>7. q \in Seq(Harmless)
    BY <2>1
  <2> QED
    BY <1>1, <2>2, <2>5, <2>6, <2>7 DEF Shows
<1>2. CASE path # <<>>
  <2>1. path \in Seq(Harmless)
    BY <1>0, SeqMonotonic
  <2>2. Without(path, Dropped) = path
    <3>1. \A s \in Seq(Harmless \ Dropped) : Without(s, Dropped) = s
      BY WithoutAny
    <3> QED
      BY <1>0, <3>1
  <2>3. Rendered(path) = Joined(path)
    <3>1. \A k \in DOMAIN path : path[k] \in Segment
      BY <1>0, NothingIsHarmless
    <3>2. [k \in DOMAIN path |-> <<Slash>> \o path[k]] = [k \in DOMAIN path |-> Slashed[path[k]]]
      BY <3>1, SlashedPieces
    <3> QED
      BY <1>2, <3>2 DEF Rendered, Joined, Spell
  <2> QED
    BY <2>1, <2>2, <2>3 DEF Shows
<1> QED
  BY <1>1, <1>2

\* With a slash at the end it still is.
LEMMA TrailingSlash ==
  ASSUME NEW path, NEW q, Shows(q, path)
  PROVE  \E r : Shows(r, path) /\ Joined(q) \o <<Slash>> = Joined(r)
<1> DEFINE e == <<>>
           r == q \o <<e>>
<1>1. q \in Seq(Harmless) /\ q \in Seq(Segment) /\ Without(q, Dropped) = path
  BY HarmlessSeq DEF Shows
<1>2. e \in Harmless /\ e \in Segment /\ e \in Dropped /\ <<e>> \in Seq(Harmless) /\ <<e>> \in Seq(Segment)
  <2>1. e \in Harmless /\ e \in Segment /\ e \in Dropped
    BY NothingIsHarmless DEF Dropped
  <2> HIDE DEF e
  <2> QED
    BY <2>1
<1>3. Joined(r) = Joined(q) \o Joined(<<e>>)
  <2>1. \A s, t \in Seq(Segment) : Joined(s \o t) = Joined(s) \o Joined(t)
    BY JoinedLaws
  <2> HIDE DEF e
  <2> QED
    BY <1>1, <1>2, <2>1
<1>4. Joined(<<e>>) = <<Slash>>
  <2>1. \A x \in Segment, p \in Seq(Segment) : Joined(<<x>> \o p) = Slashed[x] \o Joined(p)
    BY JoinedLaws
  <2>2. Joined(<<>>) = <<>>
    BY JoinedLaws
  <2>3. <<e>> \o <<>> = <<e>>
    BY <1>2, ConcatEmptySeq
  <2>4. Slashed[e] = <<Slash>> \o e
    BY <1>2, SlashedPieces
  <2>5. <<Slash>> \in Seq(Byte) /\ <<Slash>> \o <<>> = <<Slash>>
    <3>1. <<Slash>> \in Seq(Byte)
      BY SlashIsProper DEF Proper, Text
    <3> QED
      BY <3>1, ConcatEmptySeq
  <2>6. <<>> \in Seq(Segment)
    OBVIOUS
  <2>7. Joined(<<e>> \o <<>>) = Slashed[e] \o Joined(<<>>)
    <3> HIDE DEF e
    <3> QED
      BY <1>2, <2>1, <2>6
  <2> QED
    BY <2>2, <2>3, <2>4, <2>5, <2>7
<1>5. r \in Seq(Harmless) /\ Without(r, Dropped) = path
  <2>1. /\ \A s, t \in Seq(Harmless) : Without(s \o t, Dropped) = Without(s, Dropped) \o Without(t, Dropped)
        /\ \A x \in Harmless : Without(<<x>>, Dropped) = IF x \in Dropped THEN <<>> ELSE <<x>>
    BY HarmlessFiltered DEF Filtered
  <2>2. Without(<<e>>, Dropped) = <<>>
    BY <1>2, <2>1
  <2>3. path \in Seq(Harmless \ Dropped) /\ path \o <<>> = path
    <3>1. \A s \in Seq(Harmless) : Without(s, Dropped) \in Seq(Harmless \ Dropped)
      BY HarmlessFiltered DEF Filtered
    <3>2. path \in Seq(Harmless \ Dropped)
      BY <1>1, <3>1
    <3> QED
      BY <3>2, ConcatEmptySeq
  <2>4. r \in Seq(Harmless)
    BY <1>1, <1>2, ConcatProperties
  <2> HIDE DEF e
  <2>5. Without(r, Dropped) = Without(q, Dropped) \o Without(<<e>>, Dropped)
    BY <1>1, <1>2, <2>1
  <2> QED
    BY <1>1, <2>2, <2>3, <2>4, <2>5
<1> HIDE DEF r
<1> QED
  BY <1>3, <1>4, <1>5 DEF Shows

\* What decodes to such a string is sanitized to the path.
LEMMA SanitizeJoined ==
  ASSUME NEW path, NEW q, Shows(q, path), NEW raw, Unescaped(raw) = Joined(q)
  PROVE  sanitize_path(raw) = path
<1> DEFINE t == Joined(q)
           e == <<>>
<1>1. q \in Seq(Harmless) /\ q \in Seq(Segment) /\ q \in Seq(Segment \cap Proper) /\ Without(q, Dropped) = path
  BY HarmlessSeq DEF Shows
<1>2. t \in Proper /\ t \in Text
  BY <1>1, JoinedIsProper DEF Proper
<1>3. pct_decode(raw) = t
  <2>1. t # None /\ FromUtf8(t) = t
    BY <1>2, FromUtf8Iff, NoneIsNoText DEF Proper
  <2> QED
    BY <2>1 DEF pct_decode
<1>4. Split(t, Slash) = <<e>> \o q
  BY <1>1, SplitJoined
<1>5. e \in Harmless /\ e \in Dropped /\ <<e>> \in Seq(Harmless)
  BY NothingIsHarmless DEF Dropped
<1>6. <<e>> \o q \in Seq(Harmless)
  BY <1>1, <1>5, ConcatProperties
<1>7. ~ \E i \in DOMAIN t : t[i] < 32 \/ t[i] = 127
  <2>1. \A i \in DOMAIN t : t[i] \in Byte /\ t[i] \notin Control
    BY <1>2 DEF Proper, Text
  <2>2. \A c \in Byte : c \notin Control => ~ (c < 32 \/ c = 127)
    BY DEF Control, Byte
  <2> QED
    BY <2>1, <2>2
<1> HIDE DEF t, e
<1>8. <<Dot, Dot>> \notin ToSet(<<e>> \o q)
  <2>1. \A i \in DOMAIN (<<e>> \o q) : (<<e>> \o q)[i] \in Harmless
    BY <1>6
  <2> QED
    BY <2>1 DEF ToSet, Harmless
<1>9. Without(<<e>> \o q, Dropped) = path
  <2>1. /\ \A s, u \in Seq(Harmless) : Without(s \o u, Dropped) = Without(s, Dropped) \o Without(u, Dropped)
        /\ \A x \in Harmless : Without(<<x>>, Dropped) = IF x \in Dropped THEN <<>> ELSE <<x>>
    BY HarmlessFiltered DEF Filtered
  <2>2. \A s \in Seq(Harmless) : Without(s, Dropped) \in Seq(Harmless \ Dropped)
    BY HarmlessFiltered DEF Filtered
  <2>3. <<>> \o path = path
    <3>1. path \in Seq(Harmless \ Dropped)
      BY <1>1, <2>2
    <3> QED
      BY <3>1, ConcatEmptySeq
  <2>4. Without(<<e>>, Dropped) = <<>>
    BY <1>5, <2>1
  <2>5. Without(<<e>> \o q, Dropped) = Without(<<e>>, Dropped) \o Without(q, Dropped)
    BY <1>1, <1>5, <2>1
  <2> QED
    BY <1>1, <2>3, <2>4, <2>5
<1>10. t # None
  BY <1>2, NoneIsNoText
<1> QED
  BY <1>3, <1>4, <1>7, <1>8, <1>9, <1>10 DEF sanitize_path, Dropped

(***************************************************************************)
(* So a path that a client has from a string, and escapes in whichever     *)
(* way, is the path it was.                                                *)
(***************************************************************************)
Strings(path) == {Rendered(path), Rendered(path) \o <<Slash>>}

\* Whatever decodes to a string of a path is sanitized to the path.
LEMMA StringsOf ==
  ASSUME NEW path \in Seq(Names), NEW x \in Strings(path)
  PROVE  /\ x \in Text /\ x # <<>>
         /\ \A raw : Unescaped(raw) = x => sanitize_path(raw) = path
<1>1. PICK q : Shows(q, path) /\ Rendered(path) = Joined(q)
  BY RenderedIsJoined
<1>2. PICK r : Shows(r, path) /\ x = Joined(r)
  <2>1. CASE x = Rendered(path)
    BY <1>1, <2>1
  <2>2. CASE x = Rendered(path) \o <<Slash>>
    <3>1. PICK r : Shows(r, path) /\ Joined(q) \o <<Slash>> = Joined(r)
      BY <1>1, TrailingSlash
    <3> QED
      BY <1>1, <2>2, <3>1
  <2> QED
    BY <2>1, <2>2 DEF Strings
<1>3. x \in Text
  BY <1>2, HarmlessSeq, SplitJoined DEF Shows
<1>4. \A raw : Unescaped(raw) = x => sanitize_path(raw) = path
  BY <1>2, SanitizeJoined
<1>5. x # <<>>
  <2>1. Rendered(path) \in Text /\ <<Slash>> \in Text /\ <<Slash>> # <<>>
    BY <1>1, HarmlessSeq, SplitJoined, SlashIsProper DEF Shows, Proper
  <2>2. Rendered(path) # <<>>
    <3>1. CASE path = <<>>
      BY <3>1 DEF Rendered
    <3>2. CASE path # <<>>
      (* Its segments would be none. *)
      <4>1. SUFFICES ASSUME Joined(q) = <<>> PROVE FALSE
        BY <1>1
      <4>2. Split(Joined(q), Slash) = <<<<>>>> \o q /\ q \in Seq(Text)
        BY <1>1, HarmlessSeq, SplitJoined DEF Shows
      <4>3. Len(<<<<>>>> \o q) = Len(q) + 1 /\ Len(q) \in Nat
        BY <4>2, NothingIsAPart, ConsProperties, LenProperties
      <4>4. Len(<<<<>>>>) = 1
        OBVIOUS
      <4>5. Len(q) = 0
        BY <4>1, <4>2, <4>3, <4>4, SplitNone
      <4>6. q = <<>>
        BY <4>2, <4>5, EmptySeq
      <4>7. Without(<<>>, Dropped) = <<>>
        BY HarmlessFiltered DEF Filtered
      <4> QED
        BY <1>1, <3>2, <4>6, <4>7 DEF Shows
    <3> QED
      BY <3>1, <3>2
  <2>3. Rendered(path) \o <<Slash>> # <<>>
    <3>1. Len(Rendered(path) \o <<Slash>>) = Len(Rendered(path)) + Len(<<Slash>>)
      BY <2>1, ConcatProperties DEF Text
    <3>2. Len(Rendered(path)) \in Nat /\ Len(<<Slash>>) = 1 /\ Len(<<>>) = 0
      BY <2>1, LenProperties DEF Text
    <3> QED
      BY <3>1, <3>2
  <2> QED
    BY <2>2, <2>3 DEF Strings
<1> QED
  BY <1>3, <1>4, <1>5

\* So it is from any spelling of a client.
LEMMA SpelledBack ==
  ASSUME NEW path \in Seq(Names), NEW x \in Strings(path), NEW style \in Styles
  PROVE  /\ sanitize_path(Spelled(style, x)) = path
         /\ Spelled(style, x) \in Seq(Ascii) /\ Spelled(style, x) # <<>>
<1>1. x \in Text /\ x # <<>>
  BY StringsOf
<1>2. Escaping(SpelledByte(style), Ascii) /\ Spelled(style, x) = Spell(SpelledByte(style), x)
  BY <1>1, SpelledBytes
<1>3. Unescaped(Spelled(style, x)) = x
  BY <1>1, <1>2, EscapedBack
<1>4. Pieces(SpelledByte(style), Byte, Ascii)
  BY <1>2 DEF Escaping, Pieces
<1>5. \A t \in Seq(Byte) : Spell(SpelledByte(style), t) \in Seq(Ascii)
  <2>1. SpellsOut(SpelledByte(style), Byte, Ascii)
    BY <1>4, SpellCons
  <2> QED
    BY <2>1 DEF SpellsOut
<1>6. sanitize_path(Spelled(style, x)) = path
  BY <1>3, StringsOf
<1>7. Spelled(style, x) # <<>>
  BY <1>1, <1>3, UnescapedNone
<1> QED
  BY <1>1, <1>2, <1>5, <1>6, <1>7 DEF Text

\* The href of an entry is one of them, encoded.
LEMMA HrefOf ==
  ASSUME NEW path \in Seq(Names), NEW dir
  PROVE  /\ Unescaped(Href(path, dir)) \in Strings(path)
         /\ Href(path, dir) \in Seq(UrlByte)
<1> DEFINE x == Rendered(path)
           F == EncodedByte
           y == x \o <<Slash>>
<1>0. x \in Strings(path) /\ y \in Strings(path)
  BY DEF Strings
<1>1. x \in Text /\ y \in Text /\ <<Slash>> \in Text
  BY <1>0, StringsOf, SlashIsProper DEF Proper
<1>2. Escaping(F, UrlByte) /\ \A s \in Text : pct_encode(s) = Spell(F, s)
  BY EncodesBytes
<1>3. Pieces(F, Byte, UrlByte)
  BY <1>2 DEF Escaping, Pieces
<1>4. \A s \in Text : Unescaped(pct_encode(s)) = s /\ pct_encode(s) \in Seq(UrlByte)
  <2>1. \A s \in Seq(Byte) : Spell(F, s) \in Seq(UrlByte)
    <3>1. SpellsOut(F, Byte, UrlByte)
      BY <1>3, SpellCons
    <3> QED
      BY <3>1 DEF SpellsOut
  <2> QED
    BY <1>2, <2>1, EscapedBack DEF Text
<1> HIDE DEF x, F
<1>5. pct_encode(y) = Append(pct_encode(x), Slash)
  <2>1. \A s, t \in Seq(Byte) : Spell(F, s \o t) = Spell(F, s) \o Spell(F, t)
    BY <1>3, SpellConcat
  <2>2. pct_encode(y) = pct_encode(x) \o pct_encode(<<Slash>>)
    <3> DEFINE e == <<Slash>>
    <3>1. x \in Text /\ e \in Text /\ y \in Text /\ y = x \o e
      BY <1>1
    <3> HIDE DEF e, y
    <3>2. Spell(F, x \o e) = Spell(F, x) \o Spell(F, e)
      BY <2>1, <3>1 DEF Text
    <3> QED
      BY <1>2, <3>1, <3>2 DEF e
  <2>3. pct_encode(<<Slash>>) = <<Slash>>
    <3> DEFINE S == Slash
               e == <<>>
    <3>1. S \in Byte /\ F[S] = <<S>> /\ <<S>> \o e = <<S>> /\ e \in Seq(Byte)
      <4>1. S \in Byte /\ S \in Unreserved \cup {Slash}
        BY DEF Slash, Byte
      <4>2. F[S] = <<S>>
        BY <4>1 DEF EncodedByte, F
      <4>3. <<S>> \in Seq(Byte)
        BY <4>1
      <4> QED
        BY <4>1, <4>2, <4>3, ConcatEmptySeq
    <3>2. Spell(F, e) = <<>> /\ \A c \in Byte, t \in Seq(Byte) : Spell(F, <<c>> \o t) = F[c] \o Spell(F, t)
      <4>1. SpellsOut(F, Byte, UrlByte)
        BY <1>3, SpellCons
      <4> QED
        BY <4>1 DEF SpellsOut
    <3>3. pct_encode(<<S>>) = Spell(F, <<S>>)
      BY <1>1, <1>2
    <3>4. Spell(F, <<S>> \o e) = F[S] \o Spell(F, e)
      <4> HIDE DEF S, e
      <4> QED
        BY <3>1, <3>2
    <3> QED
      BY <3>1, <3>2, <3>3, <3>4
  <2>4. pct_encode(x) \o <<Slash>> = Append(pct_encode(x), Slash)
    <3>1. pct_encode(x) \in Seq(UrlByte) /\ Slash \in UrlByte
      BY <1>1, <1>4 DEF UrlByte
    <3> QED
      BY <3>1, AppendIsConcat
  <2> QED
    BY <2>2, <2>3, <2>4
<1>6. Href(path, dir) \in {pct_encode(x), pct_encode(y)}
  BY <1>5 DEF Href, x
<1> QED
  BY <1>0, <1>1, <1>4, <1>6

-----------------------------------------------------------------------------
(***************************************************************************)
(* The address of a path for Graph.                                        *)
(***************************************************************************)
\* What is between two sequences.
ThreeOf(S, a, b, c) == a \in Seq(S) /\ b \in Seq(S) /\ c \in Seq(S)
\* The middle of three sequences.
LEMMA Middle ==
  ASSUME NEW S, NEW a, NEW b, NEW c, ThreeOf(S, a, b, c)
  PROVE  \A i, j : i = Len(a) + 1 /\ j = Len(a) + Len(b) => SubSeq((a \o b) \o c, i, j) = b
<1> SUFFICES ASSUME NEW i, NEW j, i = Len(a) + 1, j = Len(a) + Len(b)
             PROVE  SubSeq((a \o b) \o c, i, j) = b
  OBVIOUS
<1>0. a \in Seq(S) /\ b \in Seq(S) /\ c \in Seq(S)
  BY DEF ThreeOf
<1> DEFINE ab == a \o b
           s == ab \o c
           k == Len(a)
           m == Len(b)
           n == Len(c)
           r == SubSeq(s, i, j)
<1>1. k \in Nat /\ m \in Nat /\ n \in Nat
  BY <1>0, LenProperties
<1>2. /\ ab \in Seq(S) /\ Len(ab) = k + m
      /\ \A q \in 1..m, p \in Int : p = k + q => ab[p] = b[q]
  BY <1>0, ConcatAt
<1> HIDE DEF ab
<1>3. s \in Seq(S) /\ Len(s) = k + m + n /\ \A p \in 1..(k + m) : s[p] = ab[p]
  <2>1. s \in Seq(S) /\ Len(s) = Len(ab) + Len(c) /\ \A p \in 1..Len(ab) : s[p] = ab[p]
    <3> HIDE DEF k, m, n
    <3> QED
      BY <1>0, <1>2, ConcatAt
  <2> HIDE DEF s, k, m
  <2> QED
    BY <1>2, <2>1
<1> HIDE DEF k, m, n, s
<1>4. i \in Int /\ j \in Int /\ i = k + 1 /\ j = k + m
  BY <1>1 DEF k, m
<1>5. \A p \in i..j : s[p] \in S
  <2>1. \A p \in i..j : p \in 1..Len(s)
    BY <1>1, <1>3, <1>4
  <2> QED
    BY <1>3, <2>1
<1>6. r \in Seq(S) /\ Len(r) = (IF i <= j THEN j - i + 1 ELSE 0) /\ \A q \in 1..(j - i + 1) : r[q] = s[i + q - 1]
  BY <1>4, <1>5, SubSeqProperties
<1> HIDE DEF r
<1>7. Len(r) = m
  BY <1>1, <1>4, <1>6
<1>8. ASSUME NEW q \in 1..m PROVE r[q] = b[q]
  <2> DEFINE p == i + q - 1
  <2>1. q \in 1..(j - i + 1) /\ p \in 1..(k + m) /\ p = k + q /\ p \in Int
    BY <1>1, <1>4
  <2>2. r[q] = s[p]
    BY <1>6, <2>1
  <2> HIDE DEF p
  <2> QED
    BY <1>2, <1>3, <2>1, <2>2
<1>9. r = b
  BY <1>0, <1>6, <1>7, <1>8, SeqEqual DEF m
<1> QED
  BY <1>9 DEF r, s, ab

\* A conversion of some of the elements only, to some of the pieces.
LEMMA SpellSome ==
  ASSUME NEW B, NEW S, NEW F, \A c \in B : F[c] \in Seq(S)
  PROVE  \A s \in Seq(B) : Spell(F, s) \in Seq(S)
<1> DEFINE f == [c \in B |-> F[c]]
<1>1. Pieces(f, B, S) /\ \A c \in B : f[c] = F[c]
  BY DEF Pieces
<1> HIDE DEF f
<1>2. \A s \in Seq(B) : Spell(f, s) \in Seq(S)
  <2>1. SpellsOut(f, B, S)
    BY <1>1, SpellCons
  <2> QED
    BY <2>1 DEF SpellsOut
<1>3. ASSUME NEW s \in Seq(B) PROVE Spell(F, s) = Spell(f, s)
  <2>1. \A i \in DOMAIN s : s[i] \in B
    OBVIOUS
  <2>2. [i \in DOMAIN s |-> F[s[i]]] = [i \in DOMAIN s |-> f[s[i]]]
    BY <1>1, <2>1
  <2> QED
    BY <2>2 DEF Spell
<1> QED
  BY <1>2, <1>3

\* pct_encode leaves a segment a segment.
UrlSegment == Seq(UrlByte \ {Slash})
\* An encoded segment has no slash, nor anything but bytes of URLs.
LEMMA EncodedSegment == \A x \in Segment : pct_encode(x) \in UrlSegment /\ pct_encode(x) \in Segment
<1> DEFINE B == Byte \ {Slash}
           U == UrlByte \ {Slash}
<1>1. ASSUME NEW c \in B PROVE EncodedByte[c] \in Seq(U)
  <2>0. c \in Byte /\ c # Slash
    OBVIOUS
  <2>1. CASE c \in Unreserved
    <3>1. c \in U
      BY <2>1 DEF UrlByte
    <3>2. EncodedByte[c] = <<c>>
      BY <2>0, <2>1 DEF EncodedByte
    <3> HIDE DEF U
    <3> QED
      BY <3>1, <3>2
  <2>2. CASE c \notin Unreserved
    <3>1. EncodedByte[c] = Escape(c)
      BY <2>0, <2>2 DEF EncodedByte
    <3>2. PICK h \in HexDigits, l \in HexDigits : EncodedByte[c] = <<Percent, h, l>>
      BY <2>0, <3>1, EscapeBack
    <3>3. HexDigits \subseteq U /\ Percent \in U
      BY DEF HexDigits, UrlByte, Unreserved, Alphanumeric, Percent, Slash
    <3> HIDE DEF U
    <3>4. h \in U /\ l \in U
      BY <3>3
    <3> QED
      BY <3>2, <3>3, <3>4
  <2> QED
    BY <2>1, <2>2
<1>2. U \subseteq B
  BY EncodesBytes DEF Escaping
<1> HIDE DEF B, U
<1>3. \A x \in Seq(B) : Spell(EncodedByte, x) \in Seq(U)
  BY <1>1, SpellSome
<1>4. \A x \in Seq(U) : x \in Seq(B)
  BY <1>2, SeqMonotonic
<1> QED
  BY <1>3, <1>4, EncodesBytes, SegmentIsText DEF UrlSegment, Segment, B, U

\* A name that is encoded decodes to what it was.
LEMMA EncodedName == \A x \in Names : pct_decode(pct_encode(x)) = x
<1> SUFFICES ASSUME NEW x \in Names PROVE pct_decode(pct_encode(x)) = x
  OBVIOUS
<1>1. x \in Text /\ Utf8(x)
  BY DEF Names, Harmless, Proper
<1>2. Unescaped(pct_encode(x)) = x
  BY <1>1, EncodesBytes, EscapedBack
<1> QED
  BY <1>1, <1>2, NoneIsNoText, FromUtf8Iff DEF pct_decode

(***************************************************************************)
(* Graph finds the path in it: a colon can only be where the address ends, *)
(* and the slashes are those between the names.                            *)
(***************************************************************************)
LEMMA GraphReadsIt == \A path \in Seq(Names) : GraphReads(item_path_segment(path)) = path
<1> SUFFICES ASSUME NEW path \in Seq(Names) PROVE GraphReads(item_path_segment(path)) = path
  OBVIOUS
<1>1. CASE path = <<>>
  <2>1. item_path_segment(path) = <<>>
    BY <1>1 DEF item_path_segment
  <2> QED
    BY <1>1, <2>1 DEF GraphReads
<1>2. CASE path # <<>>
  <2> DEFINE Q == [k \in DOMAIN path |-> pct_encode(path[k])]
             C == Colon
             S == Slash
  <2>0. \A a, b, c \in Text : (a \o b) \o c = a \o (b \o c)
    BY ConcatAssociative, SMTT(30) DEF Text
  <2>1. Len(path) \in Nat /\ DOMAIN path = 1..Len(path) /\ path = [k \in 1..Len(path) |-> path[k]]
        /\ \A k \in 1..Len(path) : path[k] \in Names /\ path[k] \in Segment
    BY LenProperties DEF Names, Harmless
  <2>2. /\ Q = [k \in 1..Len(path) |-> pct_encode(path[k])]
        /\ \A k \in 1..Len(path) : pct_encode(path[k]) \in UrlSegment
    BY <2>1, EncodedSegment
  <2>3. Q \in Seq(UrlSegment) /\ DOMAIN Q = 1..Len(path)
    <3>1. Q \in [1..Len(path) -> UrlSegment]
      BY <2>2
    <3> HIDE DEF Q
    <3> QED
      BY <2>1, <3>1, SeqDef
  <2>4. \A x \in UrlSegment : x \in Segment /\ Slashed[x] \in Seq(UrlByte)
    <3>1. UrlByte \ {Slash} \subseteq Byte \ {Slash} /\ UrlByte \ {Slash} \subseteq UrlByte /\ Slash \in UrlByte
      BY EncodesBytes DEF Escaping, UrlByte
    <3>2. ASSUME NEW x \in UrlSegment PROVE x \in Segment /\ x \in Seq(UrlByte)
      <4> DEFINE U == UrlByte \ {Slash}
                 B == Byte \ {Slash}
      <4>1. x \in Seq(U) /\ U \subseteq B /\ U \subseteq UrlByte
        BY <3>1 DEF UrlSegment
      <4> HIDE DEF U, B
      <4>2. x \in Seq(B) /\ x \in Seq(UrlByte)
        BY <4>1, SeqMonotonic
      <4> QED
        BY <4>2 DEF Segment, B
    <3>3. ASSUME NEW x \in Seq(UrlByte) PROVE <<Slash>> \o x \in Seq(UrlByte)
      BY <3>1, ConsProperties
    <3> QED
      BY <3>2, <3>3, SlashedPieces
  <2> DEFINE j == Joined(Q)
  <2> HIDE DEF Q
  <2>5. Q \in Seq(Segment)
    <3>1. UrlSegment \subseteq Segment
      BY <2>4
    <3> QED
      BY <2>3, <3>1, SeqMonotonic
  <2>6. j \in Seq(UrlByte) /\ j \in Text /\ Split(j, Slash) = <<<<>>>> \o Q
    <3>1. \A s \in Seq(UrlSegment) : Spell(Slashed, s) \in Seq(UrlByte)
      BY <2>4, SpellSome
    <3> QED
      BY <2>3, <2>5, <3>1, SplitJoined DEF Joined
  <2>7. j = FlattenSeq([k \in DOMAIN path |-> <<Slash>> \o pct_encode(path[k])])
    <3>1. \A k \in 1..Len(path) : Slashed[Q[k]] = <<Slash>> \o pct_encode(path[k])
      <4>1. \A k \in 1..Len(path) : Q[k] = pct_encode(path[k]) /\ pct_encode(path[k]) \in Segment
        BY <2>1, <2>2, <2>4
      <4> QED
        BY <4>1, SlashedPieces
    <3>2. [k \in DOMAIN Q |-> Slashed[Q[k]]] = [k \in DOMAIN path |-> <<Slash>> \o pct_encode(path[k])]
      BY <2>1, <2>3, <3>1
    <3> QED
      BY <3>2 DEF Joined, Spell
  <2>8. PICK body \in Text : j = <<S>> \o body
    <3>1. Q # <<>>
      <4>1. Len(path) # 0
        BY <1>2, EmptySeq
      <4>2. 1 \in DOMAIN Q
        BY <2>1, <2>3, <4>1
      <4> QED
        BY <4>2
    <3>2. Head(Q) \in Segment /\ Tail(Q) \in Seq(Segment) /\ Q = <<Head(Q)>> \o Tail(Q)
      BY <2>5, <3>1, ConsOf
    <3>3. j = Slashed[Head(Q)] \o Joined(Tail(Q)) /\ Joined(Tail(Q)) \in Text
      BY <3>2, JoinedLaws
    <3>4. Slashed[Head(Q)] = <<S>> \o Head(Q) /\ Head(Q) \in Text /\ <<S>> \in Text
      BY <3>2, SlashedPieces, SegmentIsText, SlashIsProper DEF Proper
    <3> HIDE DEF j, S
    <3>5. (<<S>> \o Head(Q)) \o Joined(Tail(Q)) = <<S>> \o (Head(Q) \o Joined(Tail(Q)))
      BY <2>0, <3>3, <3>4
    <3>6. Head(Q) \o Joined(Tail(Q)) \in Text
      BY <3>3, <3>4, ConcatProperties DEF Text
    <3> QED
      BY <3>3, <3>4, <3>5, <3>6
  <2> HIDE DEF j
  <2>9. Split(body, Slash) = Q
    <3>1. S \in Byte /\ S = Slash
      BY DEF Slash, Byte
    <3> HIDE DEF S
    <3>2. Split(j, Slash) = Cut(S, Slash, Split(body, Slash))
      BY <2>8, <3>1, SplitCons
    <3>3. <<<<>>>> \o Split(body, Slash) = <<<<>>>> \o Q
      BY <2>6, <3>1, <3>2 DEF Cut
    <3>4. Split(body, Slash) \in Seq(Text) /\ Q \in Seq(Text) /\ <<>> \in Text
      <4>1. Q \in Seq(Text)
        BY <2>5, SegmentIsText, SeqMonotonic
      <4> QED
        BY <4>1, SplitCons, NothingIsAPart DEF Parts
    <3>5. Tail(<<<<>>>> \o Split(body, Slash)) = Split(body, Slash) /\ Tail(<<<<>>>> \o Q) = Q
      BY <3>4, ConsProperties
    <3> QED
      BY <3>3, <3>5
  <2>10. ToSet(body) \cap {Colon, 63, 35} = {}
    <3>1. ASSUME NEW i \in DOMAIN body PROVE body[i] \in UrlByte
      <4>1. S \in Byte
        BY DEF Slash, Byte
      <4> HIDE DEF S
      <4>2. /\ Len(j) = Len(body) + 1 /\ Len(body) \in Nat /\ DOMAIN body = 1..Len(body)
            /\ \A k \in 1..Len(body), l \in Int : l = k + 1 => j[l] = body[k]
        BY <2>8, <4>1, ConsAt, LenProperties DEF Text
      <4>3. j[i + 1] = body[i] /\ i + 1 \in 1..Len(j)
        BY <4>2
      <4> QED
        BY <2>6, <4>3
    <3>2. UrlByte \cap {Colon, 63, 35} = {}
      BY DEF UrlByte, Unreserved, Alphanumeric, Slash, Percent, Colon
    <3> QED
      BY <3>1, <3>2 DEF ToSet
  <2> DEFINE address == (<<C>> \o j) \o <<C>>
  <2>11. item_path_segment(path) = address
    BY <1>2, <2>7 DEF item_path_segment
  <2>12. SubSeq(address, 3, Len(address) - 1) = body /\ address # <<>>
    <3> DEFINE a == <<C>> \o <<S>>
               z == <<C>>
    <3>1. S \in Byte /\ C \in Byte
      BY DEF Slash, Colon, Byte
    <3> HIDE DEF S, C
    <3>2. <<C>> \in Seq(Byte) /\ <<S>> \in Seq(Byte) /\ Len(<<C>>) = 1 /\ Len(<<S>>) = 1 /\ body \in Seq(Byte)
      BY <3>1 DEF Text
    <3>3. a \in Seq(Byte) /\ Len(a) = 2
      BY <3>2, ConcatProperties
    <3>4. <<C>> \o j = a \o body
      BY <2>8, <3>2, ConcatAssociative, SMTT(30)
    <3> HIDE DEF a
    <3>5. a \o body \in Seq(Byte) /\ Len(a \o body) = 2 + Len(body) /\ Len(body) \in Nat
      <4>1. Len(body) \in Nat
        BY <3>2, LenProperties
      <4>2. a \o body \in Seq(Byte) /\ Len(a \o body) = Len(a) + Len(body)
        BY <3>2, <3>3, ConcatProperties
      <4> QED
        BY <3>3, <4>1, <4>2
    <3>6. Len((a \o body) \o z) = 2 + Len(body) + 1
      BY <3>2, <3>5, ConcatProperties
    <3>7. address = (a \o body) \o z
      BY <3>4
    <3>8. z \in Seq(Byte)
      BY <3>2
    <3>9. Len(address) - 1 = Len(a) + Len(body) /\ 3 = Len(a) + 1 /\ Len(address) # 0
      BY <3>3, <3>5, <3>6, <3>7
    <3> HIDE DEF address, z
    <3>10. SubSeq((a \o body) \o z, 3, Len(address) - 1) = body
      <4> DEFINE first == 3
                 last == Len(address) - 1
      <4>1. first = Len(a) + 1 /\ last = Len(a) + Len(body)
        BY <3>9
      <4> HIDE DEF first, last
      <4>2. SubSeq((a \o body) \o z, first, last) = body
        <5>1. \A i, k : i = Len(a) + 1 /\ k = Len(a) + Len(body) => SubSeq((a \o body) \o z, i, k) = body
          <6>1. ThreeOf(Byte, a, body, z)
            BY <3>2, <3>3, <3>8 DEF ThreeOf
          <6> QED
            BY <6>1, Middle
        <5> QED
          BY <4>1, <5>1
      <4> QED
        BY <4>2 DEF first, last
    <3>11. address # <<>>
      BY <3>9
    <3> QED
      BY <3>7, <3>10, <3>11
  <2> HIDE DEF address
  <2>13. GraphReads(address) = [k \in DOMAIN Q |-> pct_decode(Q[k])]
    BY <2>9, <2>10, <2>12 DEF GraphReads
  <2>14. [k \in DOMAIN Q |-> pct_decode(Q[k])] = path
    <3>1. \A k \in 1..Len(path) : Q[k] = pct_encode(path[k])
      BY <2>2
    <3>2. \A k \in 1..Len(path) : pct_decode(Q[k]) = path[k]
      BY <2>1, <3>1, EncodedName
    <3> QED
      BY <2>1, <2>3, <3>2
  <2> QED
    BY <2>11, <2>13, <2>14
<1> QED
  BY <1>1, <1>2

-----------------------------------------------------------------------------
(***************************************************************************)
(* Base64.                                                                 *)
(***************************************************************************)
\* The pieces ss of s, each up to position at[k].
CutsAt(ss, s, at, S) ==
    /\ ss \in Seq(Seq(S)) /\ s \in Seq(S) /\ at \in [0..Len(ss) -> Nat]
    /\ at[0] = 0 /\ at[Len(ss)] = Len(s)
    /\ \A k \in 1..Len(ss), h \in 0..Len(ss) : k = h + 1 =>
          /\ at[k] = at[h] + Len(ss[k])
          /\ \A j \in 1..Len(ss[k]), i \in Int : i = at[h] + j => ss[k][j] = s[i]

\* The chunks of a sequence, one after the other, are the sequence.
LEMMA FlattenCuts ==
  ASSUME NEW ss, NEW s, NEW at, NEW S, CutsAt(ss, s, at, S)
  PROVE  FlattenSeq(ss) = s
<1> DEFINE K == Len(ss)
<1>1. /\ ss \in Seq(Seq(S)) /\ s \in Seq(S) /\ at \in [0..K -> Nat]
      /\ at[0] = 0 /\ at[K] = Len(s)
      /\ \A k \in 1..K, h \in 0..K : k = h + 1 =>
            /\ at[k] = at[h] + Len(ss[k])
            /\ \A j \in 1..Len(ss[k]), i \in Int : i = at[h] + j => ss[k][j] = s[i]
  BY DEF CutsAt
<1>2. K \in Nat /\ \A k \in 1..K : ss[k] \in Seq(S)
  BY <1>1, LenProperties
<1>3. PICK f \in [0..K -> Seq(S)] : FlatSteps(f, ss) /\ FlattenSeq(ss) = f[K]
  BY <1>1, FlattenIsLast
<1>4. f[0] = <<>> /\ \A i \in 1..K, j \in 0..K : i = j + 1 => f[i] = f[j] \o ss[i]
  BY <1>3 DEF FlatSteps
<1> HIDE DEF K
<1> DEFINE G == {k \in 0..K : Len(f[k]) = at[k] /\ \A i \in 1..at[k] : f[k][i] = s[i]}
<1>5. 0 \in G
  <2>1. 0 \in 0..K /\ Len(f[0]) = 0 /\ at[0] = 0
    BY <1>1, <1>2, <1>4
  <2> QED
    BY <2>1
<1>6. ASSUME NEW k \in 0..(K - 1), k \in G PROVE k + 1 \in G
  <2> DEFINE l == k + 1
             a == f[k]
             b == ss[l]
  <2>1. l \in 1..K /\ l \in 0..K /\ k \in 0..K /\ l = k + 1
    BY <1>2
  <2>2. f[l] = a \o b /\ a \in Seq(S) /\ b \in Seq(S)
    BY <1>2, <1>4, <2>1
  <2>3. at[l] = at[k] + Len(b) /\ \A j \in 1..Len(b), i \in Int : i = at[k] + j => b[j] = s[i]
    BY <1>1, <2>1
  <2>4. Len(a) = at[k] /\ \A i \in 1..at[k] : a[i] = s[i]
    BY <1>6
  <2>5. at[k] \in Nat /\ Len(b) \in Nat
    BY <1>1, <2>1, <2>2, LenProperties
  <2> HIDE DEF l, a, b
  <2>6. /\ Len(a \o b) = Len(a) + Len(b)
        /\ \A i \in 1..Len(a) : (a \o b)[i] = a[i]
        /\ \A i \in 1..Len(b), j \in Int : j = Len(a) + i => (a \o b)[j] = b[i]
    BY <2>2, ConcatAt
  <2>7. ASSUME NEW i \in 1..at[l] PROVE (a \o b)[i] = s[i]
    <3>1. CASE i \in 1..at[k]
      <4>1. i \in 1..Len(a)
        BY <2>4, <3>1
      <4>2. (a \o b)[i] = a[i]
        BY <2>6, <4>1
      <4> QED
        BY <2>4, <3>1, <4>2
    <3>2. CASE i \notin 1..at[k]
      <4> DEFINE j == i - at[k]
      <4>1. j \in 1..Len(b) /\ i = at[k] + j /\ i \in Int
        BY <2>3, <2>5, <3>2
      <4> HIDE DEF j
      <4>2. b[j] = s[i]
        BY <2>3, <4>1
      <4>3. (a \o b)[i] = b[j]
        BY <2>4, <2>6, <4>1
      <4> QED
        BY <4>2, <4>3
    <3> QED
      BY <3>1, <3>2
  <2> QED
    BY <2>1, <2>2, <2>3, <2>4, <2>6, <2>7 DEF l
<1>7. K \in G
  <2> HIDE DEF G
  <2>1. 0..K \subseteq G
    BY <1>2, <1>5, <1>6, Upwards
  <2> QED
    BY <1>2, <2>1
<1>8. Len(f[K]) = Len(s) /\ f[K] \in Seq(S) /\ \A i \in 1..Len(s) : f[K][i] = s[i]
  <2>1. K \in 0..K
    BY <1>2
  <2> QED
    BY <1>1, <1>7, <2>1
<1>9. f[K] = s
  BY <1>1, <1>8, SeqEqual
<1> QED
  BY <1>3, <1>9 DEF K

\* The arithmetic of a group of three bytes.
Quarter(b0, b1, b2) == <<b0 \div 4, 16 * (b0 % 4) + b1 \div 16, 4 * (b1 % 16) + b2 \div 64, b2 % 64>>

\* The four symbols of three bytes are symbols.
LEMMA Sextets ==
  ASSUME NEW b0 \in Byte, NEW b1 \in Byte, NEW b2 \in Byte
  PROVE  /\ Quarter(b0, b1, b2) \in Seq(0..63) /\ Len(Quarter(b0, b1, b2)) = 4
         /\ \A j \in 1..4 : Quarter(b0, b1, b2)[j] \in 0..63
<1>1. b0 \div 4 \in 0..63 /\ b2 % 64 \in 0..63
  BY SMT DEF Byte
<1>2. b0 % 4 \in 0..3 /\ b1 \div 16 \in 0..15 /\ b1 % 16 \in 0..15 /\ b2 \div 64 \in 0..3
  BY SMT DEF Byte
<1>3. 16 * (b0 % 4) + b1 \div 16 \in 0..63 /\ 4 * (b1 % 16) + b2 \div 64 \in 0..63
  BY <1>2, SMT
<1> DEFINE a == b0 \div 4
           b == 16 * (b0 % 4) + b1 \div 16
           c == 4 * (b1 % 16) + b2 \div 64
           d == b2 % 64
<1>4. a \in 0..63 /\ b \in 0..63 /\ c \in 0..63 /\ d \in 0..63
  BY <1>1, <1>3
<1> HIDE DEF a, b, c, d
<1>5. <<a, b, c, d>> \in Seq(0..63) /\ Len(<<a, b, c, d>>) = 4 /\ \A j \in 1..4 : <<a, b, c, d>>[j] \in 0..63
  <2>1. <<a, b, c, d>> \in Seq(0..63)
    BY <1>4
  <2>2. \A j \in 1..4 : j = 1 \/ j = 2 \/ j = 3 \/ j = 4
    OBVIOUS
  <2> QED
    BY <1>4, <2>1, <2>2
<1> QED
  BY <1>5 DEF Quarter, a, b, c, d

\* The arithmetic of u8 on symbols gives the bytes.
LEMMA OctetsOf ==
  ASSUME NEW b0 \in Byte, NEW b1 \in Byte, NEW b2 \in Byte
  PROVE  /\ U8(4 * (b0 \div 4)) + (16 * (b0 % 4) + b1 \div 16) \div 16 = b0
         /\ U8(16 * (16 * (b0 % 4) + b1 \div 16)) + (4 * (b1 % 16) + b2 \div 64) \div 4 = b1
         /\ U8(64 * (4 * (b1 % 16) + b2 \div 64)) + (b2 % 64) = b2
<1> DEFINE q0 == b0 \div 4
           r0 == b0 % 4
           q1 == b1 \div 16
           r1 == b1 % 16
           q2 == b2 \div 64
           r2 == b2 % 64
<1>1. q0 \in 0..63 /\ r0 \in 0..3 /\ b0 = 4 * q0 + r0
  BY SMT DEF Byte
<1>2. q1 \in 0..15 /\ r1 \in 0..15 /\ b1 = 16 * q1 + r1
  BY SMT DEF Byte
<1>3. q2 \in 0..3 /\ r2 \in 0..63 /\ b2 = 64 * q2 + r2
  BY SMT DEF Byte
<1> HIDE DEF q0, r0, q1, r1, q2, r2
<1>4. U8(4 * q0) = 4 * q0 /\ (16 * r0 + q1) \div 16 = r0
  BY <1>1, <1>2, SMT DEF U8
<1>5. U8(16 * (16 * r0 + q1)) = 16 * q1 /\ (4 * r1 + q2) \div 4 = r1
  BY <1>1, <1>2, <1>3, SMT DEF U8
<1>6. U8(64 * (4 * r1 + q2)) = 64 * q2
  BY <1>2, <1>3, SMT DEF U8
<1> QED
  BY <1>1, <1>2, <1>3, <1>4, <1>5, <1>6 DEF q0, r0, q1, r1, q2, r2

\* v is the first two to four symbols of the bytes b0, b1, b2.
ChunkOf(v, m, b0, b1, b2) ==
    /\ b0 \in Byte /\ b1 \in Byte /\ b2 \in Byte /\ m \in 2..4
    /\ v \in Seq(0..63) /\ Len(v) = m
    /\ \A j \in 1..m : v[j] = Quarter(b0, b1, b2)[j]

\* The bytes that a chunk of two to four of its symbols stands for.
LEMMA OctetsBack ==
  ASSUME NEW v, NEW m, NEW b0, NEW b1, NEW b2, ChunkOf(v, m, b0, b1, b2)
  PROVE  /\ Octets(v) \in Seq(Byte) /\ Len(Octets(v)) = m - 1
         /\ \A j \in 1..(m - 1) : Octets(v)[j] = <<b0, b1, b2>>[j]
<1>0. /\ b0 \in Byte /\ b1 \in Byte /\ b2 \in Byte /\ m \in 2..4
      /\ v \in Seq(0..63) /\ Len(v) = m /\ \A j \in 1..m : v[j] = Quarter(b0, b1, b2)[j]
  BY DEF ChunkOf
<1> USE <1>0
<1> DEFINE w == v \o <<0, 0, 0>>
           octets == <<U8(4 * w[1]) + w[2] \div 16, U8(16 * w[2]) + w[3] \div 4, U8(64 * w[3]) + w[4]>>
           r == SubSeq(octets, 1, m - 1)
           b == <<b0, b1, b2>>
<1>1. \A j \in 1..m : w[j] = v[j]
  <2>1. v \in Seq(Int) /\ <<0, 0, 0>> \in Seq(Int)
    <3> DEFINE T == 0..63
    <3>1. T \subseteq Int /\ v \in Seq(T)
      OBVIOUS
    <3> HIDE DEF T
    <3>2. v \in Seq(Int)
      BY <3>1, SeqMonotonic
    <3>3. <<0, 0, 0>> \in Seq(Int)
      OBVIOUS
    <3> QED
      BY <3>2, <3>3
  <2> QED
    BY <2>1, ConcatAt
<1>2. Octets(v) = r
  <2>1. Len(v) # 1
    OBVIOUS
  <2> QED
    BY <2>1 DEF Octets
<1> HIDE DEF w
<1>3. w[1] = b0 \div 4 /\ w[2] = 16 * (b0 % 4) + b1 \div 16
  BY <1>1 DEF Quarter
<1>4. m >= 3 => w[3] = 4 * (b1 % 16) + b2 \div 64
  <2>1. m >= 3 => 3 \in 1..m
    OBVIOUS
  <2> QED
    BY <1>1, <2>1 DEF Quarter
<1>5. m = 4 => w[4] = b2 % 64
  <2>1. m = 4 => 4 \in 1..m
    OBVIOUS
  <2> QED
    BY <1>1, <2>1 DEF Quarter
<1>6. /\ U8(4 * (b0 \div 4)) + (16 * (b0 % 4) + b1 \div 16) \div 16 = b0
      /\ U8(16 * (16 * (b0 % 4) + b1 \div 16)) + (4 * (b1 % 16) + b2 \div 64) \div 4 = b1
      /\ U8(64 * (4 * (b1 % 16) + b2 \div 64)) + (b2 % 64) = b2
  BY OctetsOf
<1>7. octets[1] = b0 /\ (m >= 3 => octets[2] = b1) /\ (m = 4 => octets[3] = b2)
  <2>1. octets[1] = U8(4 * w[1]) + w[2] \div 16
    OBVIOUS
  <2>2. octets[2] = U8(16 * w[2]) + w[3] \div 4
    OBVIOUS
  <2>3. octets[3] = U8(64 * w[3]) + w[4]
    OBVIOUS
  <2> HIDE DEF octets
  <2>4. octets[1] = b0
    BY <1>3, <1>6, <2>1
  <2>5. ASSUME m >= 3 PROVE octets[2] = b1
    BY <1>3, <1>4, <1>6, <2>2, <2>5
  <2>6. ASSUME m = 4 PROVE octets[3] = b2
    BY <1>4, <1>5, <1>6, <2>3, <2>6
  <2> QED
    BY <2>4, <2>5, <2>6
<1> HIDE DEF octets
<1>8. \A j \in 1..(m - 1) : octets[j] = b[j] /\ octets[j] \in Byte
  <2> SUFFICES ASSUME NEW j \in 1..(m - 1) PROVE octets[j] = b[j] /\ octets[j] \in Byte
    OBVIOUS
  <2>1. j = 1 \/ (j = 2 /\ m >= 3) \/ (j = 3 /\ m = 4)
    OBVIOUS
  <2>2. b[1] = b0 /\ b[2] = b1 /\ b[3] = b2
    OBVIOUS
  <2> HIDE DEF b
  <2>3. CASE j = 1
    BY <1>7, <2>2, <2>3
  <2>4. CASE j = 2 /\ m >= 3
    BY <1>7, <2>2, <2>4
  <2>5. CASE j = 3 /\ m = 4
    BY <1>7, <2>2, <2>5
  <2> QED
    BY <2>1, <2>3, <2>4, <2>5
<1> HIDE DEF b
<1> DEFINE z == m - 1
<1>9. z \in 1..3 /\ z \in Int
  OBVIOUS
<1> HIDE DEF z
<1>10. /\ SubSeq(octets, 1, z) \in Seq(Byte)
       /\ Len(SubSeq(octets, 1, z)) = (IF 1 <= z THEN z - 1 + 1 ELSE 0)
       /\ \A j \in 1..(z - 1 + 1) : SubSeq(octets, 1, z)[j] = octets[1 + j - 1]
  <2>1. 1 \in Int /\ \A j \in 1..z : octets[j] \in Byte
    BY <1>8 DEF z
  <2> QED
    BY <1>9, <2>1, SubSeqProperties
<1>11. Len(SubSeq(octets, 1, z)) = z /\ \A j \in 1..z : SubSeq(octets, 1, z)[j] = octets[j]
  <2>1. \A j \in 1..z : j \in 1..(z - 1 + 1) /\ 1 + j - 1 = j
    BY <1>9
  <2> QED
    BY <1>9, <1>10, <2>1
<1> QED
  BY <1>2, <1>8, <1>10, <1>11 DEF z, b

(***************************************************************************)
(* base64_decode gives back what was encoded, padded or not.               *)
(***************************************************************************)
Bits(s, i) == IF i \in DOMAIN s THEN s[i] ELSE 0
\* The symbols of the k-th three bytes.
Group(s, k) == Quarter(Bits(s, 3 * k - 2), Bits(s, 3 * k - 1), Bits(s, 3 * k))

\* They are symbols.
LEMMA GroupIsSextets ==
  ASSUME NEW s \in Text
  PROVE  /\ \A i : Bits(s, i) \in Byte
         /\ \A k : /\ Group(s, k) \in Seq(0..63) /\ Len(Group(s, k)) = 4
                   /\ \A j \in 1..4 : Group(s, k)[j] \in 0..63
<1>1. \A i : Bits(s, i) \in Byte
  <2>0. 0 \in Byte
    BY DEF Byte
  <2>1. 0 \in Byte /\ \A i \in DOMAIN s : s[i] \in Byte
    BY <2>0 DEF Text
  <2> QED
    BY <2>1 DEF Bits
<1> QED
  BY <1>1, Sextets DEF Group

\* How many groups, how many symbols are left of them, and how long the last chunk is.
GroupsOf(n, g, spare, l) ==
    n \in Nat /\ g = (n + 2) \div 3 /\ spare = 3 * g - n /\ l = 4 * g - spare

\* These numbers fit together.
LEMMA GroupCount ==
  ASSUME NEW n, NEW g, NEW spare, NEW l, GroupsOf(n, g, spare, l)
  PROVE  /\ g \in Nat /\ spare \in 0..2 /\ l \in Nat /\ l <= 4 * g
         /\ g = 0 => n = 0 /\ l = 0 /\ spare = 0
         /\ (l + 3) \div 4 = g
         /\ \A k \in 1..g : k # g => 4 * k < l /\ 3 * k < n
<1>0. n \in Nat /\ g = (n + 2) \div 3 /\ spare = 3 * g - n /\ l = 4 * g - spare
  BY DEF GroupsOf
<1> USE <1>0
<1>1. g \in Nat /\ n + 2 >= 3 * g /\ n + 2 < 3 * g + 3
  BY SMT
<1>2. spare \in 0..2
  BY <1>1, SMT
<1>3. g = 0 => n = 0 /\ l = 0 /\ spare = 0
  BY <1>1, <1>2, SMT
<1>4. l \in Nat /\ l <= 4 * g /\ l >= 4 * g - 2
  BY <1>1, <1>2, <1>3, SMT
<1>5. (l + 3) \div 4 = g
  <2>1. CASE g = 0
    BY <1>3, <2>1, SMT
  <2>2. CASE g # 0
    <3>1. l + 3 >= 4 * g /\ l + 3 < 4 * g + 4
      BY <1>1, <1>4, SMT
    <3> QED
      BY <1>1, <1>4, <3>1, SMT
  <2> QED
    BY <2>1, <2>2
<1>6. \A k \in 1..g : k # g => 4 * k < l /\ 3 * k < n
  BY <1>1, <1>4, SMT
<1> QED
  BY <1>1, <1>2, <1>3, <1>4, <1>5, <1>6

\* A symbol is its value.
Sextet == 0..63
\* The symbols of g groups.
Symbols(s, g) == FlattenSeq([k \in 1..g |-> Group(s, k)])

\* Position i of the symbols is in group (i + 3) \div 4.
LEMMA InGroup == \A h \in Nat, j \in 1..4 : (4 * h + j + 3) \div 4 = h + 1 /\ (4 * h + j - 1) % 4 = j - 1
<1> SUFFICES ASSUME NEW h \in Nat, NEW j \in 1..4
             PROVE  (4 * h + j + 3) \div 4 = h + 1 /\ (4 * h + j - 1) % 4 = j - 1
  OBVIOUS
<1>1. 4 * h + j + 3 >= 4 * (h + 1) /\ 4 * h + j + 3 < 4 * (h + 1) + 4
  BY SMT
<1>2. 4 * h + j - 1 = 4 * h + (j - 1) /\ j - 1 \in 0..3
  BY SMT
<1> QED
  BY <1>1, <1>2, SMT

\* Each symbol is where its group has it.
LEMMA SymbolsAt ==
  ASSUME NEW s \in Text, NEW g \in Nat
  PROVE  /\ Symbols(s, g) \in Seq(Sextet) /\ Len(Symbols(s, g)) = 4 * g
         /\ \A k \in 1..g, j \in 1..4, i \in Int : i = 4 * k - 4 + j => Symbols(s, g)[i] = Group(s, k)[j]
<1> DEFINE ss == [k \in 1..g |-> Group(s, k)]
           n == 4 * g
           y == [i \in 1..n |-> Group(s, (i + 3) \div 4)[((i - 1) % 4) + 1]]
           at == [k \in 0..g |-> 4 * k]
<1>1. \A k : /\ Group(s, k) \in Seq(Sextet) /\ Len(Group(s, k)) = 4
             /\ \A j \in 1..4 : Group(s, k)[j] \in Sextet
  BY GroupIsSextets DEF Sextet
<1>2. n \in Nat
  OBVIOUS
<1>3. ss \in Seq(Seq(Sextet)) /\ Len(ss) = g /\ \A k \in 1..g : ss[k] = Group(s, k)
  <2>1. ss \in [1..g -> Seq(Sextet)]
    BY <1>1
  <2>2. DOMAIN ss = 1..g
    OBVIOUS
  <2>3. \A k \in 1..g : ss[k] = Group(s, k)
    OBVIOUS
  <2> HIDE DEF ss
  <2> QED
    BY <2>1, <2>2, <2>3, SeqDef
<1>4. \A i \in 1..n : y[i] = Group(s, (i + 3) \div 4)[((i - 1) % 4) + 1]
  OBVIOUS
<1>5. y \in Seq(Sextet) /\ Len(y) = n
  <2>1. \A i \in 1..n : (i - 1) % 4 \in 0..3
    BY SMT
  <2>2. \A i \in 1..n : ((i - 1) % 4) + 1 \in 1..4
    BY <2>1
  <2>3. \A i \in 1..n : y[i] \in Sextet
    BY <1>1, <1>4, <2>2
  <2>4. y = [i \in 1..n |-> y[i]]
    OBVIOUS
  <2> HIDE DEF y
  <2>5. y \in [1..n -> Sextet]
    BY <2>3, <2>4
  <2> QED
    BY <1>2, <2>5, SeqDef
<1> HIDE DEF ss, y
<1>6. ASSUME NEW k \in 1..g, NEW j \in 1..4, NEW i \in Int, i = 4 * k - 4 + j
      PROVE  y[i] = Group(s, k)[j]
  <2> DEFINE h == k - 1
  <2>1. h \in Nat /\ k = h + 1 /\ i = 4 * h + j
    BY <1>6, SMT
  <2> HIDE DEF h
  <2>2. i \in 1..n
    BY <1>6, SMT
  <2>3. (i + 3) \div 4 = k /\ (i - 1) % 4 = j - 1
    BY <2>1, InGroup
  <2>4. ((i - 1) % 4) + 1 = j
    BY <2>3
  <2> QED
    BY <1>4, <2>2, <2>3, <2>4
<1>7. at \in [0..g -> Nat] /\ at[0] = 0 /\ at[g] = n /\ \A k \in 0..g : at[k] = 4 * k
  BY SMT
<1> HIDE DEF at, n
<1>8. \A k \in 1..g, h \in 0..g : k = h + 1 =>
         /\ at[k] = at[h] + Len(ss[k])
         /\ \A j \in 1..Len(ss[k]), i \in Int : i = at[h] + j => ss[k][j] = y[i]
  <2> SUFFICES ASSUME NEW k \in 1..g, NEW h \in 0..g, k = h + 1
               PROVE  /\ at[k] = at[h] + Len(ss[k])
                      /\ \A j \in 1..Len(ss[k]), i \in Int : i = at[h] + j => ss[k][j] = y[i]
    OBVIOUS
  <2>1. at[k] = 4 * k /\ at[h] = 4 * k - 4 /\ Len(ss[k]) = 4 /\ ss[k] = Group(s, k)
    BY <1>1, <1>3, <1>7
  <2> QED
    BY <1>6, <2>1
<1>9. CutsAt(ss, y, at, Sextet)
  BY <1>3, <1>5, <1>7, <1>8 DEF CutsAt
<1>10. Symbols(s, g) = y
  <2>1. FlattenSeq(ss) = y
    BY <1>9, FlattenCuts
  <2> QED
    BY <2>1 DEF Symbols, ss
<1> QED
  BY <1>5, <1>6, <1>10 DEF n

\* Leaving out, of one sequence after another.
LEMMA WithoutConcat ==
  ASSUME NEW V, NEW D
  PROVE  \A s, t \in Seq(V) : Without(s \o t, D) = Without(s, D) \o Without(t, D)
<1>1. Filtered(V, D)
  BY WithoutLaws
<1> QED
  BY <1>1 DEF Filtered

\* What is left of a text without its padding and white space.
LEMMA Unpadded ==
  ASSUME NEW b \in Seq(Sextet), NEW z \in Nat
  PROVE  Without(b \o [k \in 1..z |-> Pad], {Pad, White}) = b
<1> DEFINE D == {Pad, White}
           V == Sextet \cup D
           p == [k \in 1..z |-> Pad]
<1>1. p \in Seq(D)
  <2>1. p \in [1..z -> D]
    OBVIOUS
  <2> HIDE DEF p, D
  <2> QED
    BY <2>1, SeqDef
<1>2. Sextet = V \ D /\ D \subseteq V /\ D \ D = {}
  <2>1. Pad \notin Sextet /\ White \notin Sextet
    BY DEF Sextet, Pad, White
  <2> QED
    BY <2>1
<1> HIDE DEF p, D, V
<1>3. b \in Seq(V \ D) /\ b \in Seq(V) /\ p \in Seq(V)
  <2>1. V \ D \subseteq V
    OBVIOUS
  <2>2. b \in Seq(V \ D)
    BY <1>2
  <2> DEFINE W == V \ D
  <2> HIDE DEF W
  <2>3. b \in Seq(V)
    BY <2>1, <2>2, SeqMonotonic DEF W
  <2>4. p \in Seq(V)
    BY <1>1, <1>2, SeqMonotonic
  <2> QED
    BY <2>2, <2>3, <2>4
<1>4. Without(b \o p, D) = Without(b, D) \o Without(p, D)
  <2>1. \A s, t \in Seq(V) : Without(s \o t, D) = Without(s, D) \o Without(t, D)
    BY WithoutConcat
  <2> QED
    BY <1>3, <2>1
<1>5. Without(b, D) = b
  <2>1. \A A, B : \A s \in Seq(A \ B) : Without(s, B) = s
    BY WithoutAny
  <2> QED
    BY <1>3, <2>1
<1>6. Without(p, D) = <<>>
  <2>1. \A A, B : \A s \in Seq(A) : Without(s, B) \in Seq(A \ B)
    BY WithoutLaws DEF Filtered
  <2>2. Without(p, D) \in Seq({})
    BY <1>1, <1>2, <2>1
  <2> DEFINE w == Without(p, D)
  <2> HIDE DEF w
  <2>3. w \in Seq({})
    BY <2>2 DEF w
  <2>4. Len(w) \in Nat /\ \A i \in 1..Len(w) : w[i] \in {}
    BY <2>3, LenProperties
  <2>5. Len(w) = 0
    BY <2>4
  <2> QED
    BY <2>3, <2>5, EmptySeq DEF w
<1> QED
  BY <1>4, <1>5, <1>6, ConcatEmptySeq DEF p, D

\* What is encoded is decoded to what it was, and its text is of numbers.
THEOREM Base64Back ==
  ASSUME NEW s \in Text, NEW padded \in BOOLEAN
  PROVE  base64_decode(Base64(s, padded)) = s /\ Base64(s, padded) \in Seq(Int)
<1> DEFINE n == Len(s)
           g == (n + 2) \div 3
           spare == 3 * g - n
           l == 4 * g - spare
           y == Symbols(s, g)
           b == SubSeq(y, 1, l)
           z == IF padded THEN spare ELSE 0
<1>1. n \in Nat /\ s \in Seq(Byte) /\ DOMAIN s = 1..n
  BY LenProperties DEF Text
<1> HIDE DEF n
<1>2. /\ g \in Nat /\ spare \in 0..2 /\ l \in Nat /\ l <= 4 * g
      /\ g = 0 => n = 0 /\ l = 0 /\ spare = 0
      /\ (l + 3) \div 4 = g
      /\ \A k \in 1..g : k # g => 4 * k < l /\ 3 * k < n
  <2>1. GroupsOf(n, g, spare, l)
    BY <1>1 DEF GroupsOf
  <2> HIDE DEF g
  <2> HIDE DEF spare
  <2> HIDE DEF l
  <2> QED
    BY <2>1, GroupCount
<1>3. Base64(s, padded) = b \o [k \in 1..z |-> Pad]
  BY DEF Base64, Symbols, Group, Bits, Quarter, n
<1>4. spare = 3 * g - n /\ l = 4 * g - spare
  OBVIOUS
<1> HIDE DEF g
<1> HIDE DEF spare
<1> HIDE DEF l
<1>5. /\ y \in Seq(Sextet) /\ Len(y) = 4 * g
      /\ \A k \in 1..g, j \in 1..4, i \in Int : i = 4 * k - 4 + j => y[i] = Group(s, k)[j]
  BY <1>2, SymbolsAt
<1> HIDE DEF y
<1>6. b \in Seq(Sextet) /\ Len(b) = l /\ \A i \in 1..l : b[i] = y[i]
  <2>1. 1 \in Int /\ l \in Int /\ \A i \in 1..l : y[i] \in Sextet
    BY <1>2, <1>5
  <2>2. /\ b \in Seq(Sextet) /\ Len(b) = (IF 1 <= l THEN l - 1 + 1 ELSE 0)
        /\ \A i \in 1..(l - 1 + 1) : b[i] = y[1 + i - 1]
    BY <2>1, SubSeqProperties
  <2>3. \A i \in 1..l : i \in 1..(l - 1 + 1) /\ 1 + i - 1 = i
    BY <1>2
  <2> HIDE DEF b
  <2> QED
    BY <1>2, <2>2, <2>3
<1>7. z \in Nat
  BY <1>2
<1> HIDE DEF b, z
<1>8. Without(Base64(s, padded), {Pad, White}) = b
  BY <1>3, <1>6, <1>7, Unpadded
<1>9. None \notin ToSet(b)
  <2>0. Sextet \subseteq Int
    BY DEF Sextet
  <2>1. \A i \in DOMAIN b : b[i] \in Int
    <3>1. \A i \in DOMAIN b : b[i] \in Sextet
      BY <1>6
    <3> QED
      BY <2>0, <3>1
  <2> QED
    BY <2>1, NoneIsNoText DEF ToSet
<1> DEFINE last(k) == IF 4 * k < l THEN 4 * k ELSE l
           chunk(k) == SubSeq(b, 4 * k - 3, last(k))
           o == [k \in 1..g |-> Octets(chunk(k))]
           at == [k \in 0..g |-> IF 3 * k < n THEN 3 * k ELSE n]
<1>10. base64_decode(Base64(s, padded)) = FlattenSeq(o)
  BY <1>2, <1>6, <1>8, <1>9 DEF base64_decode
<1>11. ASSUME NEW k \in 1..g
       PROVE  \E m \in 2..4 :
                 /\ m = last(k) - 4 * k + 4
                 /\ Octets(chunk(k)) \in Seq(Byte) /\ Len(Octets(chunk(k))) = m - 1
                 /\ \A j \in 1..(m - 1), i \in Int : i = 3 * k - 3 + j => Octets(chunk(k))[j] = Bits(s, i)
  <2> DEFINE m == last(k) - 4 * k + 4
             e == last(k)
             v == chunk(k)
             f == 4 * k - 3
             b0 == Bits(s, 3 * k - 2)
             b1 == Bits(s, 3 * k - 1)
             b2 == Bits(s, 3 * k)
  <2>1. m \in 2..4 /\ e = f - 1 + m /\ f = 4 * k - 3 /\ f \in Int /\ e \in Int /\ f <= e /\ f >= 1 /\ e <= l
    <3>1. CASE 4 * k < l
      BY <1>2, <3>1, SMT
    <3>2. CASE ~ (4 * k < l)
      <4>1. k = g
        BY <1>2, <3>2
      <4> QED
        BY <1>2, <1>4, <3>2, <4>1, SMT
    <3> QED
      BY <3>1, <3>2
  <2> HIDE DEF m, e, f, last
  <2>2. \A i \in f..e : i \in 1..l /\ b[i] \in Sextet
    <3>1. \A i \in f..e : i \in 1..l
      BY <1>2, <2>1
    <3> QED
      BY <1>6, <3>1
  <2>3. SubSeq(b, f, e) \in Seq(Sextet) /\ Len(SubSeq(b, f, e)) = m
        /\ \A j \in 1..m : SubSeq(b, f, e)[j] = b[f + j - 1]
    <3>1. /\ SubSeq(b, f, e) \in Seq(Sextet) /\ Len(SubSeq(b, f, e)) = (IF f <= e THEN e - f + 1 ELSE 0)
          /\ \A j \in 1..(e - f + 1) : SubSeq(b, f, e)[j] = b[f + j - 1]
      BY <2>1, <2>2, SubSeqProperties
    <3>2. e - f + 1 = m
      BY <2>1
    <3> QED
      BY <2>1, <3>1, <3>2
  <2>4. v = SubSeq(b, f, e)
    BY DEF e, f
  <2> HIDE DEF v
  <2>5. ASSUME NEW j \in 1..m PROVE v[j] = Quarter(b0, b1, b2)[j]
    <3> DEFINE i == f + j - 1
    <3>1. i \in f..e /\ i = 4 * k - 4 + j /\ i \in Int /\ j \in 1..4
      BY <2>1
    <3>2. v[j] = b[i]
      BY <2>3, <2>4
    <3> HIDE DEF i
    <3>3. b[i] = y[i]
      BY <1>6, <2>2, <3>1
    <3>4. y[i] = Group(s, k)[j]
      BY <1>5, <3>1
    <3> QED
      BY <3>2, <3>3, <3>4 DEF Group
  <2>6. b0 \in Byte /\ b1 \in Byte /\ b2 \in Byte
    BY GroupIsSextets
  <2>7. v \in Seq(0..63) /\ Len(v) = m
    BY <2>3, <2>4 DEF Sextet
  <2> HIDE DEF b0, b1, b2
  <2>8. /\ Octets(v) \in Seq(Byte) /\ Len(Octets(v)) = m - 1
        /\ \A j \in 1..(m - 1) : Octets(v)[j] = <<b0, b1, b2>>[j]
    <3>1. ChunkOf(v, m, b0, b1, b2)
      BY <2>1, <2>5, <2>6, <2>7 DEF ChunkOf
    <3> QED
      BY <3>1, OctetsBack
  <2>9. ASSUME NEW j \in 1..(m - 1), NEW i \in Int, i = 3 * k - 3 + j PROVE Octets(v)[j] = Bits(s, i)
    <3>1. j = 1 \/ j = 2 \/ j = 3
      BY <2>1
    <3>2. CASE j = 1
      <4>1. i = 3 * k - 2
        BY <2>9, <3>2
      <4> QED
        BY <2>8, <3>2, <4>1 DEF b0
    <3>3. CASE j = 2
      <4>1. i = 3 * k - 1
        BY <2>9, <3>3
      <4> QED
        BY <2>8, <3>3, <4>1 DEF b1
    <3>4. CASE j = 3
      <4>1. i = 3 * k
        BY <2>9, <3>4
      <4> QED
        BY <2>8, <3>4, <4>1 DEF b2
    <3> QED
      BY <3>1, <3>2, <3>3, <3>4
  <2> QED
    BY <2>1, <2>8, <2>9 DEF v, m
<1> HIDE DEF chunk
<1>12. o \in Seq(Seq(Byte)) /\ Len(o) = g /\ \A k \in 1..g : o[k] = Octets(chunk(k))
  <2>1. o \in [1..g -> Seq(Byte)]
    BY <1>11
  <2>2. DOMAIN o = 1..g
    OBVIOUS
  <2>3. \A k \in 1..g : o[k] = Octets(chunk(k))
    OBVIOUS
  <2> HIDE DEF o
  <2> QED
    BY <1>2, <2>1, <2>2, <2>3, SeqDef
<1>13. at \in [0..g -> Nat] /\ \A k \in 0..g : at[k] = IF 3 * k < n THEN 3 * k ELSE n
  BY <1>1, <1>2, SMT
<1> HIDE DEF o, at
<1>14. at[0] = 0 /\ at[g] = n
  BY <1>1, <1>2, <1>4, <1>13, SMT
<1>15. ASSUME NEW k \in 1..g, NEW h \in 0..g, k = h + 1
       PROVE  /\ at[k] = at[h] + Len(o[k])
              /\ \A j \in 1..Len(o[k]), i \in Int : i = at[h] + j => o[k][j] = s[i]
  <2>1. PICK m \in 2..4 :
           /\ m = last(k) - 4 * k + 4
           /\ Octets(chunk(k)) \in Seq(Byte) /\ Len(Octets(chunk(k))) = m - 1
           /\ \A j \in 1..(m - 1), i \in Int : i = 3 * k - 3 + j => Octets(chunk(k))[j] = Bits(s, i)
    BY <1>11
  <2>2. at[h] = 3 * k - 3
    <3>1. CASE h = 0
      BY <1>14, <1>15, <3>1
    <3>2. CASE h # 0
      <4>1. h \in 1..g /\ h # g
        BY <1>2, <1>15, <3>2
      <4>2. 3 * h < n
        BY <1>2, <4>1
      <4>3. at[h] = 3 * h
        BY <1>13, <4>2
      <4> QED
        BY <1>15, <4>3
    <3> QED
      BY <3>1, <3>2
  <2>3. at[k] = 3 * k - 3 + (m - 1) /\ at[k] <= n
    <3>1. CASE k = g
      <4>1. last(k) = l
        BY <1>2, <3>1
      <4>2. m = 4 - spare
        <5> HIDE DEF last
        <5>1. m = l - 4 * g + 4 /\ g \in Nat /\ l \in Nat /\ spare \in 0..2 /\ l = 4 * g - spare
          BY <1>2, <1>4, <2>1, <3>1, <4>1
        <5> QED
          BY <5>1, SMT
      <4> QED
        BY <1>1, <1>2, <1>4, <1>14, <3>1, <4>2, SMT
    <3>2. CASE k # g
      <4>1. 4 * k < l /\ 3 * k < n
        BY <1>2, <3>2
      <4>2. last(k) = 4 * k
        BY <4>1
      <4>3. m = 4
        <5> HIDE DEF last
        <5> QED
          BY <2>1, <4>2, SMT
      <4>4. at[k] = 3 * k
        BY <1>13, <4>1
      <4>5. at[k] = 3 * k - 3 + (m - 1)
        BY <4>3, <4>4, SMT
      <4> QED
        BY <1>1, <4>1, <4>4, <4>5
    <3> QED
      BY <3>1, <3>2
  <2>4. o[k] = Octets(chunk(k)) /\ Len(o[k]) = m - 1
    BY <1>12, <2>1
  <2> HIDE DEF last
  <2>5. ASSUME NEW j \in 1..Len(o[k]), NEW i \in Int, i = at[h] + j PROVE o[k][j] = s[i]
    <3>1. j \in 1..(m - 1) /\ i = 3 * k - 3 + j
      BY <2>2, <2>4, <2>5
    <3>2. i \in 1..n
      BY <1>1, <2>3, <3>1
    <3>3. o[k][j] = Bits(s, i)
      BY <2>1, <2>4, <3>1
    <3> QED
      BY <1>1, <3>2, <3>3 DEF Bits
  <2> QED
    BY <2>2, <2>3, <2>4, <2>5
<1>16. CutsAt(o, s, at, Byte)
  BY <1>1, <1>12, <1>13, <1>14, <1>15 DEF CutsAt, n
<1>17. FlattenSeq(o) = s
  BY <1>16, FlattenCuts
<1>18. Base64(s, padded) \in Seq(Int)
  <2> DEFINE p == [k \in 1..z |-> Pad]
  <2>1. b \in Seq(Int)
    <3>1. Sextet \subseteq Int
      BY DEF Sextet
    <3> QED
      BY <1>6, <3>1, SeqMonotonic
  <2>2. p \in [1..z -> Int]
    BY DEF Pad
  <2>3. Base64(s, padded) = b \o p
    BY <1>3
  <2> HIDE DEF p
  <2>4. p \in Seq(Int)
    BY <1>7, <2>2, SeqDef
  <2> QED
    BY <2>1, <2>3, <2>4, ConcatProperties
<1> QED
  BY <1>10, <1>17, <1>18

\* Some numbers have a smallest.
LEMMA Smallest ==
  ASSUME NEW T \in SUBSET Nat, T # {}
  PROVE  \E i \in T : \A j \in T : i <= j
<1>1. IsWellFoundedOn(LessThan, Nat)
  BY NatLessThanWellFounded DEF LessThan
<1>2. PICK i \in T : \A j \in T : <<j, i>> \notin LessThan
  BY <1>1, WFMin
<1>3. \A j \in T : i <= j
  <2> SUFFICES ASSUME NEW j \in T PROVE i <= j
    OBVIOUS
  <2>1. ~ (j < i)
    BY <1>2 DEF LessThan, OpToRel
  <2> QED
    BY <2>1
<1> QED
  BY <1>3

\* Find gives a position, and 0 only where there is none.
LEMMA FindIs ==
  ASSUME NEW s \in Text, NEW b
  PROVE  /\ Find(s, b) \in 0..Len(s)
         /\ \A i \in 1..Len(s) :
               s[i] = b /\ (\A j \in 1..Len(s) : s[j] = b => i <= j) => Find(s, b) = i
<1> DEFINE at == {i \in DOMAIN s : s[i] = b}
<1>1. DOMAIN s = 1..Len(s) /\ Len(s) \in Nat
  BY LenProperties DEF Text
<1>2. Find(s, b) = IF at = {} THEN 0 ELSE CHOOSE i \in at : \A j \in at : i <= j
  BY DEF Find
<1>3. at \in SUBSET Nat /\ at \subseteq 1..Len(s) /\ \A i \in 1..Len(s) : i \in at <=> s[i] = b
  BY <1>1
<1> HIDE DEF at
<1>4. Find(s, b) \in 0..Len(s)
  <2>1. CASE at = {}
    BY <1>1, <1>2, <2>1
  <2>2. CASE at # {}
    <3>1. \E i \in at : \A j \in at : i <= j
      BY <1>3, <2>2, Smallest
    <3>2. Find(s, b) \in at
      BY <1>2, <2>2, <3>1
    <3>3. 1..Len(s) \subseteq 0..Len(s)
      BY <1>1, SMT
    <3> QED
      BY <1>3, <3>2, <3>3, Zenon
  <2> QED
    BY <2>1, <2>2
<1>5. ASSUME NEW i \in 1..Len(s), s[i] = b, \A j \in 1..Len(s) : s[j] = b => i <= j
      PROVE  Find(s, b) = i
  <2>1. i \in at /\ (\A j \in at : i <= j) /\ at # {}
    BY <1>3, <1>5
  <2>2. \A h \in at : (\A j \in at : h <= j) => h = i
    BY <1>3, <2>1
  <2> QED
    BY <1>2, <2>1, <2>2
<1> QED
  BY <1>4, <1>5

\* What Find finds is there, and not before.
LEMMA FindFinds ==
  ASSUME NEW s \in Text, NEW b, Find(s, b) # 0
  PROVE  /\ Find(s, b) \in 1..Len(s) /\ s[Find(s, b)] = b
         /\ \A j \in 1..Len(s) : s[j] = b => Find(s, b) <= j
<1> DEFINE at == {i \in DOMAIN s : s[i] = b}
<1>1. DOMAIN s = 1..Len(s) /\ Len(s) \in Nat
  BY LenProperties DEF Text
<1>2. Find(s, b) = IF at = {} THEN 0 ELSE CHOOSE i \in at : \A j \in at : i <= j
  BY DEF Find
<1>3. at \in SUBSET Nat /\ \A i : i \in at <=> i \in 1..Len(s) /\ s[i] = b
  BY <1>1
<1> HIDE DEF at
<1>4. at # {}
  BY <1>2
<1>5. \E i \in at : \A j \in at : i <= j
  BY <1>3, <1>4, Smallest
<1>6. Find(s, b) \in at /\ \A j \in at : Find(s, b) <= j
  BY <1>2, <1>4, <1>5
<1> QED
  BY <1>3, <1>6

\* A text is what is before a position, what is there, and what is after it.
LEMMA CutAt ==
  ASSUME NEW s \in Text, NEW k \in 1..Len(s)
  PROVE  /\ s = SubSeq(s, 1, k - 1) \o <<s[k]>> \o After(s, k)
         /\ DOMAIN SubSeq(s, 1, k - 1) = 1..(k - 1)
         /\ \A i \in 1..(k - 1) : SubSeq(s, 1, k - 1)[i] = s[i]
<1>1. s \in Seq(Byte) /\ Len(s) \in Nat /\ k \in Nat /\ 1 <= k /\ k <= Len(s)
      /\ \A i \in 1..Len(s) : s[i] \in Byte
  BY LenProperties DEF Text
<1>2. /\ 1 \in 1..Len(s) /\ k \in 1..Len(s) /\ 1 \in 1..(Len(s) + 1)
      /\ k \in (1 - 1)..Len(s) /\ Len(s) \in k..Len(s)
  BY <1>1
<1>3. SubSeq(s, 1, k) = SubSeq(s, 1, k - 1) \o <<s[k]>>
  BY <1>1, <1>2, SubSeqRecursiveSecond
<1>4. SubSeq(s, 1, k) \o SubSeq(s, k + 1, Len(s)) = SubSeq(s, 1, Len(s))
  BY <1>1, <1>2, ConcatAdjacentSubSeq
<1>5. SubSeq(s, 1, Len(s)) = s
  BY <1>1, SubSeqFull
<1> DEFINE e == k - 1
<1>6. 1 \in Int /\ e \in Nat /\ \A i \in 1..e : s[i] \in Byte
  BY <1>1
<1>7. (IF 1 <= e THEN e - 1 + 1 ELSE 0) = e /\ e - 1 + 1 = e /\ \A i \in 1..e : 1 + i - 1 = i
  BY <1>6, SMT
<1> HIDE DEF e
<1>8. /\ SubSeq(s, 1, e) \in Seq(Byte) /\ Len(SubSeq(s, 1, e)) = e
      /\ \A i \in 1..e : SubSeq(s, 1, e)[i] = s[i]
  <2>1. /\ SubSeq(s, 1, e) \in Seq(Byte)
        /\ Len(SubSeq(s, 1, e)) = IF 1 <= e THEN e - 1 + 1 ELSE 0
        /\ \A i \in 1..(e - 1 + 1) : SubSeq(s, 1, e)[i] = s[1 + i - 1]
    BY <1>6, SubSeqProperties
  <2> QED
    BY <1>7, <2>1
<1>9. DOMAIN SubSeq(s, 1, e) = 1..e
  BY <1>8, LenProperties
<1> QED
  BY <1>3, <1>4, <1>5, <1>8, <1>9 DEF e, After

\* What is after a position of a text is text.
LEMMA AfterIsText == ASSUME NEW s \in Text, NEW i \in Nat PROVE After(s, i) \in Text
<1>1. Len(s) \in Nat /\ \A j \in 1..Len(s) : s[j] \in Byte
  BY LenProperties DEF Text
<1>2. \A j \in (i + 1)..Len(s) : s[j] \in Byte
  BY <1>1
<1> DEFINE f == i + 1
           e == Len(s)
<1>3. f \in Int /\ e \in Int /\ \A j \in f..e : s[j] \in Byte
  BY <1>1, <1>2
<1> HIDE DEF f, e
<1>4. SubSeq(s, f, e) \in Seq(Byte)
  BY <1>3, SubSeqProperties
<1> QED
  BY <1>4 DEF After, Text, f, e

\* The first colon of credentials is the one after the user.
LEMMA ColonIsFirst ==
  ASSUME NEW u \in Text, NEW p \in Text, Colon \notin ToSet(u)
  PROVE  /\ (u \o <<Colon>>) \o p \in Text
         /\ Find((u \o <<Colon>>) \o p, Colon) # 0
         /\ After((u \o <<Colon>>) \o p, Find((u \o <<Colon>>) \o p, Colon)) = p
<1> DEFINE c == <<Colon>>
           a == u \o c
           s == a \o p
           n == Len(u)
<1>1. c \in Text /\ Len(c) = 1 /\ c[1] = Colon /\ Len(u) \in Nat /\ Len(p) \in Nat
  BY LenProperties DEF Text, Byte, Colon
<1> HIDE DEF c
<1>2. /\ a \in Text /\ Len(a) = n + 1 /\ a[n + 1] = Colon
      /\ \A i \in 1..n : a[i] = u[i]
  <2>0. u \in Seq(Byte) /\ c \in Seq(Byte)
    BY <1>1 DEF Text
  <2>1. /\ u \o c \in Seq(Byte) /\ Len(u \o c) = Len(u) + Len(c)
        /\ \A i \in 1..Len(u) : (u \o c)[i] = u[i]
        /\ \A i \in 1..Len(c), j \in Int : j = Len(u) + i => (u \o c)[j] = c[i]
    <3> HIDE DEF a, s, n
    <3> QED
      BY <2>0, ConcatAt
  <2>2. 1 \in 1..Len(c) /\ n + 1 \in Int /\ n + 1 = Len(u) + 1
    BY <1>1
  <2> QED
    BY <1>1, <2>1, <2>2 DEF Text
<1>3. n \in Nat
  BY <1>1
<1> HIDE DEF a, n
<1>4. /\ s \in Text /\ Len(s) = n + 1 + Len(p)
      /\ \A i \in 1..(n + 1) : s[i] = a[i]
  <2>0. a \in Seq(Byte) /\ p \in Seq(Byte)
    BY <1>2 DEF Text
  <2>1. a \o p \in Seq(Byte) /\ Len(a \o p) = Len(a) + Len(p) /\ \A i \in 1..Len(a) : (a \o p)[i] = a[i]
    <3> HIDE DEF s
    <3> QED
      BY <2>0, ConcatAt
  <2> QED
    BY <1>2, <2>1 DEF Text
<1>5. \A i \in 1..n : s[i] # Colon
  <2>1. \A i \in 1..n : u[i] # Colon
    <3>1. \A i \in 1..n : i \in DOMAIN u
      BY LenProperties DEF Text, n
    <3> QED
      BY <3>1 DEF ToSet
  <2>2. \A i \in 1..n : i \in 1..(n + 1)
    BY <1>3
  <2> QED
    BY <1>2, <1>4, <2>1, <2>2
<1> HIDE DEF s
<1>6. Find(s, Colon) = n + 1
  <2> DEFINE k == n + 1
  <2>1. k \in 1..Len(s) /\ k \in 1..(n + 1)
    BY <1>1, <1>3, <1>4
  <2>2. s[k] = Colon
    BY <1>2, <1>4, <2>1
  <2>3. \A j \in 1..Len(s) : s[j] = Colon => k <= j
    <3>1. \A j \in 1..Len(s) : j \in 1..n \/ k <= j
      BY <1>3
    <3> QED
      BY <1>5, <3>1
  <2> HIDE DEF k
  <2>4. Find(s, Colon) = k
    BY <1>4, <2>1, <2>2, <2>3, FindIs
  <2> QED
    BY <2>4 DEF k
<1>7. After(s, n + 1) = p
  <2> DEFINE e == <<>>
  <2>1. ThreeOf(Byte, a, p, e)
    BY <1>2 DEF ThreeOf, Text
  <2>2. (a \o p) \o e = s
    <3>1. a \o p \in Seq(Byte)
      BY <1>4 DEF s, Text
    <3> QED
      BY <3>1, ConcatEmptySeq DEF s
  <2> HIDE DEF e
  <2> DEFINE i == n + 1 + 1
             j == n + 1 + Len(p)
  <2>3. i = Len(a) + 1 /\ j = Len(a) + Len(p)
    BY <1>2
  <2>4. After(s, n + 1) = SubSeq(s, i, j)
    BY <1>4 DEF After
  <2> HIDE DEF i, j
  <2>5. SubSeq((a \o p) \o e, i, j) = p
    BY <2>1, <2>3, Middle
  <2> QED
    BY <2>2, <2>4, <2>5
<1>8. n + 1 # 0
  BY <1>3
<1> QED
  BY <1>4, <1>6, <1>7, <1>8 DEF s, a, c

(***************************************************************************)
(* What base64_decode makes of credentials, however they are written.      *)
(***************************************************************************)
Ignored == {Pad, White}

\* Only what is left without padding and white space counts.
LEMMA DecodesTheRest ==
  ASSUME NEW s, NEW t, Without(s, Ignored) = Without(t, Ignored)
  PROVE  base64_decode(s) = base64_decode(t)
BY DEF base64_decode, Ignored

\* So spaces around it do not.
LEMMA SpacesAreIgnored ==
  ASSUME NEW b \in Seq(Int)
  PROVE  base64_decode(<<White>> \o b \o <<White>>) = base64_decode(b)
<1> DEFINE w == <<White>>
           left == Without(b, Ignored)
<1>1. w \in Seq(Int) /\ White \in Int /\ White \in Ignored
  BY DEF White, Ignored
<1>2. /\ \A s \in Seq(Int) : Without(s, Ignored) \in Seq(Int \ Ignored)
      /\ \A s, t \in Seq(Int) : Without(s \o t, Ignored) = Without(s, Ignored) \o Without(t, Ignored)
      /\ \A x \in Int : Without(<<x>>, Ignored) = IF x \in Ignored THEN <<>> ELSE <<x>>
  <2>1. \A V, D : Filtered(V, D)
    BY WithoutLaws
  <2>2. Filtered(Int, Ignored)
    BY <2>1
  <2> QED
    BY <2>2, Zenon DEF Filtered
<1>3. Without(w, Ignored) = <<>>
  BY <1>1, <1>2
<1> HIDE DEF w
<1>4. w \o b \in Seq(Int)
  BY <1>1, ConcatProperties
<1>5. Without(w \o b \o w, Ignored) = (<<>> \o left) \o <<>>
  <2>1. Without(w \o b, Ignored) = Without(w, Ignored) \o left
    BY <1>1, <1>2
  <2>2. Without((w \o b) \o w, Ignored) = Without(w \o b, Ignored) \o Without(w, Ignored)
    BY <1>1, <1>2, <1>4
  <2> QED
    BY <1>3, <2>1, <2>2
<1>6. left \in Seq(Int \ Ignored)
  BY <1>2
<1> HIDE DEF left
<1>7. (<<>> \o left) \o <<>> = left
  BY <1>6, ConcatEmptySeq
<1> QED
  BY <1>5, <1>7, DecodesTheRest DEF w, left

\* A character that is none of base64 spoils it all.
LEMMA BrokenIsNothing ==
  ASSUME NEW b \in Seq(Int)
  PROVE  base64_decode(Append(b, None)) = None
<1> DEFINE V == Int \cup {None}
           left == Without(b, Ignored)
           clean == Without(Append(b, None), Ignored)
<1>1. b \in Seq(V) /\ None \in V /\ None \notin Ignored
  <2>1. Int \subseteq V
    OBVIOUS
  <2> HIDE DEF V
  <2>2. b \in Seq(V)
    BY <2>1, SeqMonotonic
  <2> QED
    BY <2>2, NoneAssumption DEF V, Ignored, Pad, White
<1> HIDE DEF V
<1>2. /\ \A s \in Seq(V) : Without(s, Ignored) \in Seq(V \ Ignored)
      /\ \A s, t \in Seq(V) : Without(s \o t, Ignored) = Without(s, Ignored) \o Without(t, Ignored)
      /\ \A x \in V : Without(<<x>>, Ignored) = IF x \in Ignored THEN <<>> ELSE <<x>>
  <2>1. \A W, D : Filtered(W, D)
    BY WithoutLaws
  <2>2. Filtered(V, Ignored)
    BY <2>1
  <2> QED
    BY <2>2, Zenon DEF Filtered
<1>3. Append(b, None) = b \o <<None>>
  BY <1>1, AppendIsConcat
<1>4. <<None>> \in Seq(V)
  BY <1>1
<1>5. clean = left \o <<None>>
  <2>1. Without(<<None>>, Ignored) = <<None>>
    BY <1>1, <1>2
  <2> QED
    BY <1>1, <1>2, <1>3, <1>4, <2>1
<1>6. left \in Seq(V \ Ignored) /\ None \in V \ Ignored
  BY <1>1, <1>2
<1> DEFINE W == V \ Ignored
<1> HIDE DEF W, left, clean
<1>7. clean = Append(left, None) /\ clean \in Seq(W) /\ clean[Len(left) + 1] = None
      /\ Len(clean) = Len(left) + 1 /\ Len(left) \in Nat
  <2>1. left \in Seq(W) /\ None \in W
    BY <1>6 DEF W
  <2>2. Append(left, None) = left \o <<None>>
    BY <2>1, AppendIsConcat
  <2>3. /\ Append(left, None) \in Seq(W) /\ Len(Append(left, None)) = Len(left) + 1
        /\ Append(left, None)[Len(left) + 1] = None
    BY <2>1, AppendProperties
  <2>4. Len(left) \in Nat
    BY <2>1, LenProperties
  <2> QED
    BY <1>5, <2>2, <2>3, <2>4
<1>8. None \in ToSet(clean)
  <2>1. DOMAIN clean = 1..Len(clean)
    BY <1>7, LenProperties
  <2>2. Len(left) + 1 \in DOMAIN clean
    BY <1>7, <2>1
  <2> QED
    BY <1>7, <2>2 DEF ToSet
<1> QED
  BY <1>8 DEF base64_decode, clean, Ignored

\* In every form but the broken one, what was written is read.
LEMMA WrittenIsRead ==
  ASSUME NEW s \in Text, NEW form \in Forms
  PROVE  base64_decode(Written(s, form)) = IF form = "broken" THEN None ELSE s
<1>1. /\ base64_decode(Base64(s, TRUE)) = s /\ Base64(s, TRUE) \in Seq(Int)
      /\ base64_decode(Base64(s, FALSE)) = s
  BY Base64Back
<1>2. CASE form = "padded"
  BY <1>1, <1>2 DEF Written
<1>3. CASE form = "bare"
  BY <1>1, <1>3 DEF Written
<1>4. CASE form = "spaced"
  <2> DEFINE b == Base64(s, TRUE)
  <2>1. Written(s, form) = <<White>> \o b \o <<White>>
    BY <1>4 DEF Written
  <2> HIDE DEF b
  <2>2. base64_decode(<<White>> \o b \o <<White>>) = base64_decode(b)
    BY <1>1, SpacesAreIgnored DEF b
  <2> QED
    BY <1>1, <1>4, <2>1, <2>2 DEF b
<1>5. CASE form = "broken"
  <2> DEFINE b == Base64(s, TRUE)
  <2>1. Written(s, form) = Append(b, None)
    BY <1>5 DEF Written
  <2> HIDE DEF b
  <2>2. base64_decode(Append(b, None)) = None
    BY <1>1, BrokenIsNothing DEF b
  <2> QED
    BY <1>5, <2>1, <2>2
<1> QED
  BY <1>2, <1>3, <1>4, <1>5 DEF Forms

(***************************************************************************)
(* A user without a colon, a colon and the password: credentials are of    *)
(* this form just if the password is what comes after their first colon.   *)
(***************************************************************************)
OfSecret(s) ==
    \E k \in DOMAIN s :
       LET user == SubSeq(s, 1, k - 1)
       IN  Colon \notin ToSet(user) /\ s = user \o <<Colon>> \o Secret

\* check_basic_auth splits credentials there.
LEMMA SplitAtColon ==
  ASSUME NEW s \in Text
  PROVE  OfSecret(s) <=> Find(s, Colon) # 0 /\ After(s, Find(s, Colon)) = Secret
<1>1. Secret \in Text
  BY SecretAssumption DEF Text
<1>2. DOMAIN s = 1..Len(s) /\ Len(s) \in Nat
  BY LenProperties DEF Text
<1>3. ASSUME OfSecret(s) PROVE Find(s, Colon) # 0 /\ After(s, Find(s, Colon)) = Secret
  <2>1. PICK k \in DOMAIN s :
           Colon \notin ToSet(SubSeq(s, 1, k - 1)) /\ s = SubSeq(s, 1, k - 1) \o <<Colon>> \o Secret
    BY <1>3 DEF OfSecret
  <2> DEFINE u == SubSeq(s, 1, k - 1)
  <2>2. u \in Text
    <3>1. k - 1 \in Int /\ 1 \in Int /\ \A i \in 1..(k - 1) : s[i] \in Byte
      <4>1. \A i \in 1..Len(s) : s[i] \in Byte
        BY DEF Text
      <4> QED
        BY <1>2, <4>1
    <3> QED
      BY <3>1, SubSeqProperties DEF Text
  <2>3. Colon \notin ToSet(u) /\ s = (u \o <<Colon>>) \o Secret
    BY <2>1
  <2> HIDE DEF u
  <2>4. /\ Find((u \o <<Colon>>) \o Secret, Colon) # 0
        /\ After((u \o <<Colon>>) \o Secret, Find((u \o <<Colon>>) \o Secret, Colon)) = Secret
    BY <1>1, <2>2, <2>3, ColonIsFirst
  <2> QED
    BY <2>3, <2>4
<1>4. ASSUME Find(s, Colon) # 0, After(s, Find(s, Colon)) = Secret PROVE OfSecret(s)
  <2> DEFINE k == Find(s, Colon)
             u == SubSeq(s, 1, k - 1)
  <2>1. k \in 1..Len(s) /\ s[k] = Colon /\ \A j \in 1..Len(s) : s[j] = Colon => k <= j
    BY <1>4, FindFinds
  <2> HIDE DEF k
  <2>2. /\ s = u \o <<s[k]>> \o After(s, k)
        /\ DOMAIN u = 1..(k - 1) /\ \A i \in 1..(k - 1) : u[i] = s[i]
    BY <2>1, CutAt
  <2> HIDE DEF u
  <2>3. \A i \in 1..(k - 1) : i \in 1..Len(s) /\ ~ (k <= i)
    BY <1>2, <2>1
  <2>4. Colon \notin ToSet(u)
    BY <2>1, <2>2, <2>3 DEF ToSet
  <2>5. s = u \o <<Colon>> \o Secret
    BY <1>4, <2>1, <2>2 DEF k
  <2>6. k \in DOMAIN s
    BY <1>2, <2>1
  <2> QED
    BY <2>4, <2>5, <2>6 DEF OfSecret, u
<1> QED
  BY <1>3, <1>4

\* Known is as any other.
Credentials == Logins \cup {Known}

\* Credentials are any bytes, written in one of the forms.
LEMMA CredentialsAre ==
  ASSUME NEW login \in Credentials, login # None
  PROVE  login.bytes \in Text /\ login.form \in Forms /\ Header(login) # None
<1>1. Header(login) # None
  BY HeadersAssumption DEF Credentials
<1>2. CASE login = Known
  <2>1. Known.bytes = <<117, Colon>> \o Secret /\ Known.form = "padded"
    BY DEF Known
  <2>2. <<117, Colon>> \in Seq(Byte) /\ Secret \in Seq(Byte)
    BY SecretAssumption DEF Byte, Colon
  <2>3. <<117, Colon>> \o Secret \in Seq(Byte)
    BY <2>2, ConcatProperties
  <2> QED
    BY <1>1, <1>2, <2>1, <2>3 DEF Text, Forms
<1>3. CASE login # Known
  BY <1>1, <1>3, LoginsAssumption DEF Credentials, Text
<1> QED
  BY <1>2, <1>3

(***************************************************************************)
(* check_basic_auth lets in who has the password, whoever he says he is    *)
(* and however he writes it, and nobody else.                              *)
(***************************************************************************)
LEMMA PasswordIsAsked ==
  ASSUME NEW login \in Credentials
  PROVE  check_basic_auth(Secret, Header(login)) <=> HasPassword(login)
<1>1. Secret # None
  <2>1. Secret \in Text
    BY SecretAssumption DEF Text
  <2> QED
    BY <2>1, NoneIsNoText
<1>2. CASE login = None
  <2>1. Header(login) = None
    BY <1>2 DEF Header
  <2> QED
    BY <1>1, <1>2, <2>1 DEF check_basic_auth, HasPassword
<1>3. CASE login # None
  <2> DEFINE s == login.bytes
             h == Header(login)
  <2>1. s \in Text /\ login.form \in Forms /\ h # None
    BY <1>3, CredentialsAre
  <2>2. h.scheme = login.scheme /\ h.text = Written(s, login.form)
    BY <1>3 DEF Header
  <2>3. HasPassword(login) <=> /\ login.scheme = "Basic " /\ login.form # "broken"
                               /\ FromUtf8(s) = s /\ OfSecret(s)
    BY <1>3 DEF HasPassword, OfSecret
  <2> HIDE DEF s, h
  <2>4. base64_decode(h.text) = IF login.form = "broken" THEN None ELSE s
    BY <2>1, <2>2, WrittenIsRead
  <2>5. OfSecret(s) <=> Find(s, Colon) # 0 /\ After(s, Find(s, Colon)) = Secret
    BY <2>1, SplitAtColon
  <2>6. s # None /\ (FromUtf8(s) = s \/ FromUtf8(s) = None)
    BY <2>1, FromUtf8Iff, NoneIsNoText
  <2>7. CASE login.form = "broken"
    <3>1. base64_decode(h.text) = None
      BY <2>4, <2>7
    <3> QED
      BY <1>1, <2>3, <2>7, <3>1 DEF check_basic_auth, h
  <2>8. CASE login.form # "broken"
    <3>1. base64_decode(h.text) = s
      BY <2>4, <2>8
    <3> QED
      BY <1>1, <2>1, <2>2, <2>3, <2>5, <2>6, <2>8, <3>1 DEF check_basic_auth, h
  <2> QED
    BY <2>7, <2>8
<1> QED
  BY <1>2, <1>3

\* What pct_decode gives is text, or None.
LEMMA DecodedIsText == \A s \in Text : pct_decode(s) \in TextOrNone
<1> SUFFICES ASSUME NEW s \in Text PROVE pct_decode(s) \in TextOrNone
  OBVIOUS
<1>1. Unescaped(s) \in TextOrNone
  BY UnescapedIsText
<1>2. \A t \in Text : FromUtf8(t) \in TextOrNone
  BY DEF FromUtf8, TextOrNone
<1> QED
  BY <1>1, <1>2 DEF pct_decode, TextOrNone

\* The value of a query is text, if the query has the key.
LEMMA QueryIsText ==
  ASSUME NEW query \in Text, NEW key
  PROVE  query_param(query, key) \in TextOrNone
<1> DEFINE pairs == Split(query, Ampersand)
           hits == {i \in DOMAIN pairs :
                       Find(pairs[i], Equal) # 0 /\ Before(pairs[i], Find(pairs[i], Equal)) = key}
           first == CHOOSE i \in hits : \A j \in hits : i <= j
           pair == pairs[first]
           value == After(pair, Find(pair, Equal))
<1>1. pairs \in Seq(Text)
  BY SplitCons DEF Parts
<1>2. hits \subseteq 1..Len(pairs) /\ hits \in SUBSET Nat
  <2>1. DOMAIN pairs = 1..Len(pairs)
    BY <1>1, LenProperties
  <2> HIDE DEF pairs
  <2> QED
    BY <2>1
<1>3. query_param(query, key) = IF query = None \/ hits = {} THEN None
                                ELSE IF pct_decode(value) = None THEN value ELSE pct_decode(value)
  BY DEF query_param
<1>4. ASSUME hits # {} PROVE value \in Text
  <2> HIDE DEF hits
  <2>1. \E i \in hits : \A j \in hits : i <= j
    BY <1>2, <1>4, Smallest
  <2>2. first \in hits
    BY <2>1
  <2> HIDE DEF first, pairs
  <2>3. pair \in Text
    BY <1>1, <1>2, <2>2
  <2> HIDE DEF pair
  <2>4. Find(pair, Equal) \in 0..Len(pair)
    BY <2>3, FindIs
  <2>5. Find(pair, Equal) \in Nat
    BY <2>4, SMT
  <2> QED
    BY <2>3, <2>5, AfterIsText
<1> HIDE DEF hits, value
<1> QED
  BY <1>3, <1>4, DecodedIsText DEF TextOrNone

-----------------------------------------------------------------------------
(***************************************************************************)
(* What PROPFIND answered stands until the end.                            *)
(***************************************************************************)
Listed == [href |-> Href(item.path, item.dir), modified |-> http_date(parse_iso8601_to_unix(item.stamp))]
\* The entry is one of the drive, and what was listed is listed of it.
EntryInv == item \in Items /\ (entry = None \/ entry = Listed)

\* The entry is the same for all requests, and only PROPFIND names it.
LEMMA EntryStep == EntryInv /\ [Next]_vars => EntryInv'
<1> SUFFICES ASSUME EntryInv, [Next]_vars PROVE EntryInv'
  OBVIOUS
<1>1. CASE Propfind
  BY <1>1 DEF Propfind, EntryInv, Listed
<1>2. CASE UNCHANGED <<item, entry>>
  BY <1>2 DEF EntryInv, Listed
<1>3. ClientAsks => UNCHANGED <<item, entry>>
  BY DEF ClientAsks, DavAsks, DavPutsTooMuch, DavMoves, PluginAsks, TimerOrPluginAsks, OddlySpelled,
     Asks
<1>4. Handle \/ Answered \/ UNCHANGED vars => UNCHANGED <<item, entry>>
  BY DEF Handle, Answered, vars
<1> QED
  BY <1>1, <1>2, <1>3, <1>4 DEF Next

\* It is so in every state.
THEOREM EntryAlways == Spec => []EntryInv
<1>1. Init => EntryInv
  BY DEF Init, EntryInv
<1> QED
  BY <1>1, EntryStep, PTL DEF Spec

(***************************************************************************)
(* A PROPFIND shows every date of the calendar as it is, with the weekday  *)
(* of the calendar: for all years and not only the ones a run tries.       *)
(***************************************************************************)
THEOREM DatesAlwaysSurvive == Spec => []DatesSurvive
<1>1. EntryInv => DatesSurvive
  <2> SUFFICES ASSUME EntryInv, entry # None PROVE entry.modified = CalendarDate(item.stamp)
    BY DEF DatesSurvive
  <2>1. RealDate(item.stamp)
    BY ItemsAssumption DEF EntryInv
  <2>2. entry.modified = http_date(parse_iso8601_to_unix(item.stamp))
    BY DEF EntryInv, Listed
  <2> QED
    BY <2>1, <2>2, DateBack
<1> QED
  BY <1>1, EntryAlways, PTL

(***************************************************************************)
(* What clients ask for, and what they must get if they have the password: *)
(* their requests by what they say, for the entry with a path.             *)
(***************************************************************************)
\* A request that has the path of the entry, as davfs2 or the plugin spells it.
AtEntry(path, style, x) == style \in Styles /\ x \in Strings(path)

\* A request with an Authorization header, or None.
Sent(r, l) == [r EXCEPT !.login = l]

\* A WebDAV method at an href.
DavRequest(path, l, r, answer) ==
    \E style, x : \E method \in DOMAIN DavHandlers :
        /\ AtEntry(path, style, x)
        /\ r = Sent(Plain(method, Spelled(style, x)), l)
        /\ answer = Outcome(DavHandlers[method], path, None)
\* A body that cannot be read, or is too large.
PutRequest(path, l, r, answer) ==
    \E style, x : \E body \in {"too large", "failed"} :
        /\ AtEntry(path, style, x)
        /\ r = Sent([Plain("PUT", Spelled(style, x)) EXCEPT !.body = body], l)
        /\ answer = Fails(IF body = "failed" THEN "400" ELSE "413")
\* A MOVE to a path, bare or in a URL.
MoveRequest(path, l, r, answer) ==
    \E style, x, way : \E to \in Targets, host \in Loopbacks \cup {None, Foreign} :
        /\ AtEntry(path, style, x) /\ way \in Styles
        /\ r = Sent([Plain("MOVE", Spelled(style, x)) EXCEPT
                        !.destination = [host |-> host, path |-> Spelled(way, Rendered(to))]], l)
        /\ answer = IF host = Foreign THEN Fails("400") ELSE Outcome("move", path, to)
\* A folder of the _tree.
PluginRequest(path, l, r, answer) ==
    \E style, x :
        /\ AtEntry(path, style, x)
        /\ r = Sent([Plain("GET", TreeTarget) EXCEPT
                        !.plugin = TRUE, !.query = PathKey \o <<Equal>> \o Spelled(style, x)], l)
        /\ answer = Outcome("tree", path, None)
\* The timer, or the plugin for the status.
LoginRequest(l, r, answer) ==
    \E header \in {"sync", "status"} :
        r = Sent(TimerOrPlugin(header), l) /\ answer = Outcome(header, None, None)
\* A path that no listing gave.
OddRequest(path, l, r, answer) ==
    \E x, ending :
        /\ AtEntry(path, "more", x) /\ ending \in Endings
        /\ r = Sent(Plain("GET", Spelled("more", x) \o ending), l)
        /\ answer = None
\* All that clients send, with what they must get for it.
ClientRequest(path, l, r, answer) ==
    \/ DavRequest(path, l, r, answer) \/ PutRequest(path, l, r, answer) \/ MoveRequest(path, l, r, answer)
    \/ PluginRequest(path, l, r, answer) \/ LoginRequest(l, r, answer) \/ OddRequest(path, l, r, answer)
\* With any credentials; k is whether they have the password.
Asked(path, r, k, answer) ==
    \E login \in Credentials :
        k = HasPassword(login) /\ ClientRequest(path, Header(login), r, answer)

\* A step of a client: it asks one of these, and nothing was asked before.
AskedNow ==
    /\ Asked(item.path, request', knows', meant') /\ UNCHANGED <<item, entry>>
    /\ request = None /\ outcome' = outcome

\* What a client asks, it asks with any credentials.
LEMMA AskedWithAny ==
  ASSUME NEW r, NEW answer, Asks(r, answer), \A l : ClientRequest(item.path, l, Sent(r, l), answer)
  PROVE  AskedNow
<1>1. PICK login \in Tried : request' = [r EXCEPT !.login = Header(login)] /\ knows' = HasPassword(login)
  BY DEF Asks
<1>2. login \in Credentials
  BY <1>1 DEF Tried, Credentials
<1>3. request' = Sent(r, Header(login)) /\ meant' = answer
  BY <1>1 DEF Asks, Sent
<1>4. ClientRequest(item.path, Header(login), request', meant')
  BY <1>3
<1>5. Asked(item.path, request', knows', meant')
  BY <1>1, <1>2, <1>4, Zenon DEF Asked
<1> QED
  BY <1>5 DEF Asks, AskedNow

\* What clients ask is one of these.
LEMMA ClientsAskThese ==
  ASSUME EntryInv, ClientAsks
  PROVE  AskedNow
<1>1. item \in Items /\ DrivePath(item.path)
  BY ItemsAssumption DEF EntryInv
<1>2. item.path \in Seq(Names)
  BY <1>1, DrivePathsAre
<1>3. entry # None => Unescaped(entry.href) \in Strings(item.path)
  BY <1>2, HrefOf DEF EntryInv, Listed
<1>4. Rendered(item.path) \in Strings(item.path)
  BY DEF Strings
<1>5. \A style \in Styles : entry # None => AtEntry(item.path, style, Unescaped(entry.href))
  BY <1>3 DEF AtEntry
<1>6. \A style \in Styles : AtEntry(item.path, style, Rendered(item.path))
  BY <1>4 DEF AtEntry
<1>7. "least" \in Styles /\ "more" \in Styles /\ "all" \in Styles
  BY DEF Styles
<1>8. ASSUME NEW r, NEW answer, Asks(r, answer), \A l : ClientRequest(item.path, l, Sent(r, l), answer)
      PROVE  AskedNow
  BY <1>8, AskedWithAny
<1>9. CASE DavAsks
  <2>1. PICK style \in Styles, method \in DOMAIN DavHandlers :
           entry # None /\ Asks(Plain(method, DavTarget(style)), Outcome(DavHandlers[method], item.path, None))
    BY <1>9 DEF DavAsks
  <2> DEFINE r == Plain(method, DavTarget(style))
             answer == Outcome(DavHandlers[method], item.path, None)
  <2>2. r = Plain(method, Spelled(style, Unescaped(entry.href)))
    BY DEF DavTarget
  <2>3. \A l : DavRequest(item.path, l, Sent(r, l), answer)
    BY <1>5, <2>1, <2>2, Zenon DEF DavRequest
  <2> HIDE DEF r, answer
  <2> QED
    BY <1>8, <2>1, <2>3 DEF ClientRequest, r, answer
<1>10. CASE DavPutsTooMuch
  <2>1. PICK body \in {"too large", "failed"} :
           entry # None /\ Asks([Plain("PUT", DavTarget("more")) EXCEPT !.body = body],
                                Fails(IF body = "failed" THEN "400" ELSE "413"))
    BY <1>10 DEF DavPutsTooMuch
  <2> DEFINE r == [Plain("PUT", DavTarget("more")) EXCEPT !.body = body]
             answer == Fails(IF body = "failed" THEN "400" ELSE "413")
  <2>2. r = [Plain("PUT", Spelled("more", Unescaped(entry.href))) EXCEPT !.body = body]
    BY DEF DavTarget
  <2>3. \A l : PutRequest(item.path, l, Sent(r, l), answer)
    BY <1>5, <1>7, <2>1, <2>2, Zenon DEF PutRequest
  <2> HIDE DEF r, answer
  <2> QED
    BY <1>8, <2>1, <2>3 DEF ClientRequest, r, answer
<1>11. CASE DavMoves
  <2>1. PICK style \in Styles, to \in Targets, host \in Loopbacks \cup {None, Foreign} :
           entry # None /\ Asks([Plain("MOVE", DavTarget(style)) EXCEPT
                                    !.destination = [host |-> host, path |-> Spelled(style, Rendered(to))]],
                                IF host = Foreign THEN Fails("400") ELSE Outcome("move", item.path, to))
    BY <1>11 DEF DavMoves
  <2> DEFINE r == [Plain("MOVE", DavTarget(style)) EXCEPT
                      !.destination = [host |-> host, path |-> Spelled(style, Rendered(to))]]
             answer == IF host = Foreign THEN Fails("400") ELSE Outcome("move", item.path, to)
  <2>2. r = [Plain("MOVE", Spelled(style, Unescaped(entry.href))) EXCEPT
                !.destination = [host |-> host, path |-> Spelled(style, Rendered(to))]]
    BY DEF DavTarget
  <2>3. \A l : MoveRequest(item.path, l, Sent(r, l), answer)
    BY <1>5, <2>1, <2>2, Zenon DEF MoveRequest
  <2> HIDE DEF r, answer
  <2> QED
    BY <1>8, <2>1, <2>3 DEF ClientRequest, r, answer
<1>12. CASE PluginAsks
  <2>1. PICK style \in {"more", "all"} :
           Asks([Plain("GET", TreeTarget) EXCEPT
                    !.plugin = TRUE,
                    !.query = PathKey \o <<Equal>> \o Spelled(style, Rendered(item.path))],
                Outcome("tree", item.path, None))
    BY <1>12 DEF PluginAsks
  <2> DEFINE r == [Plain("GET", TreeTarget) EXCEPT
                      !.plugin = TRUE,
                      !.query = PathKey \o <<Equal>> \o Spelled(style, Rendered(item.path))]
             answer == Outcome("tree", item.path, None)
  <2>2. AtEntry(item.path, style, Rendered(item.path))
    BY <1>6, <1>7, <2>1
  <2>3. \A l : PluginRequest(item.path, l, Sent(r, l), answer)
    BY <2>2, Zenon DEF PluginRequest
  <2> HIDE DEF r, answer
  <2> QED
    BY <1>8, <2>1, <2>3 DEF ClientRequest, r, answer
<1>13. CASE TimerOrPluginAsks
  <2>1. PICK header \in {"sync", "status"} : Asks(TimerOrPlugin(header), Outcome(header, None, None))
    BY <1>13 DEF TimerOrPluginAsks
  <2>2. \A l : LoginRequest(l, Sent(TimerOrPlugin(header), l), Outcome(header, None, None))
    BY <2>1, Zenon DEF LoginRequest
  <2> QED
    BY <1>8, <2>1, <2>2 DEF ClientRequest
<1>14. CASE OddlySpelled
  <2>1. PICK ending \in Endings : Asks(Plain("GET", Spelled("more", Rendered(item.path)) \o ending), None)
    BY <1>14 DEF OddlySpelled
  <2> DEFINE r == Plain("GET", Spelled("more", Rendered(item.path)) \o ending)
  <2>2. \A l : OddRequest(item.path, l, Sent(r, l), None)
    BY <1>6, <1>7, <2>1, Zenon DEF OddRequest
  <2> HIDE DEF r
  <2> QED
    BY <1>8, <2>1, <2>2 DEF ClientRequest, r
<1> QED
  BY <1>9, <1>10, <1>11, <1>12, <1>13, <1>14 DEF ClientAsks

\* A path of a drive is a path.
LEMMA PathIsSomething ==
  \A path \in Seq(Names) : path # None /\ path \in Seq(Text)
<1>1. Names \subseteq Text
  BY DEF Names, Harmless, Proper
<1> SUFFICES ASSUME NEW path \in Seq(Names) PROVE path \in Seq(Text) /\ path # None
  OBVIOUS
<1>2. path \in Seq(Text)
  BY <1>1, SeqMonotonic
<1> QED
  BY <1>2, NoneIsNoText

\* Who asks at the address of an entry asks for its path.
LEMMA AtEntryIsPath ==
  ASSUME NEW path \in Seq(Names), NEW style, NEW x, AtEntry(path, style, x)
  PROVE  /\ sanitize_path(Spelled(style, x)) = path /\ path # None
         /\ Spelled(style, x) \in Seq(Ascii) /\ Spelled(style, x) # <<>>
<1>1. style \in Styles /\ x \in Strings(path)
  BY DEF AtEntry
<1>2. path \in Seq(Names) /\ x \in Strings(path)
  BY <1>1
<1>3. /\ sanitize_path(Spelled(style, x)) = path
      /\ Spelled(style, x) \in Seq(Ascii) /\ Spelled(style, x) # <<>>
  BY <1>1, <1>2, SpelledBack
<1> QED
  BY <1>2, <1>3, PathIsSomething

\* A request of davfs2, as handle_request sees it.
LEMMA DavHandled ==
  ASSUME NEW r, check_basic_auth(Secret, r.login), r.method # "POST", r.plugin = FALSE,
         NEW path, sanitize_path(r.target) = path, path # None
  PROVE  handle_request(r) = IF r.destination # None /\ DestinationOf(r) = None THEN Fails("400")
                             ELSE Dav(r, path)
<1>1. ~ ForPlugin(r)
  BY DEF ForPlugin
<1> QED
  BY <1>1 DEF handle_request

\* Every method gets the handler it is for, and a body that was not read none.
LEMMA DavIsMeant ==
  ASSUME NEW path \in Seq(Names), NEW l, check_basic_auth(Secret, l), NEW r, NEW answer,
         DavRequest(path, l, r, answer) \/ PutRequest(path, l, r, answer)
  PROVE  handle_request(r) = answer
<1>1. ASSUME NEW style, NEW x, AtEntry(path, style, x), NEW method \in DOMAIN DavHandlers,
             r = Sent(Plain(method, Spelled(style, x)), l),
             answer = Outcome(DavHandlers[method], path, None)
      PROVE  handle_request(r) = answer
  <2>1. /\ r.login = l /\ r.method = method /\ r.plugin = FALSE
        /\ r.target = Spelled(style, x) /\ r.destination = None /\ r.body = "read"
    BY <1>1 DEF Plain, Sent
  <2>2. method # "POST" /\ method # "MOVE"
    BY DEF DavHandlers
  <2>3. sanitize_path(r.target) = path /\ path # None
    <3>1. AtEntry(path, style, x)
      BY <1>1
    <3>2. sanitize_path(Spelled(style, x)) = path /\ path # None
      BY <3>1, AtEntryIsPath
    <3> QED
      BY <2>1, <3>2
  <2>4. handle_request(r) = Dav(r, path)
    BY <2>1, <2>2, <2>3, DavHandled
  <2>5. Dav(r, path) = Outcome(DavHandlers[method], path, None)
    BY <2>1, <2>2 DEF Dav
  <2> QED
    BY <1>1, <2>4, <2>5
<1>2. ASSUME NEW style, NEW x, AtEntry(path, style, x), NEW body \in {"too large", "failed"},
             r = Sent([Plain("PUT", Spelled(style, x)) EXCEPT !.body = body], l),
             answer = Fails(IF body = "failed" THEN "400" ELSE "413")
      PROVE  handle_request(r) = answer
  <2>1. /\ r.login = l /\ r.method = "PUT" /\ r.plugin = FALSE
        /\ r.target = Spelled(style, x) /\ r.destination = None /\ r.body = body
    BY <1>2 DEF Plain, Sent
  <2>2. sanitize_path(r.target) = path /\ path # None
    <3>1. AtEntry(path, style, x)
      BY <1>2
    <3>2. sanitize_path(Spelled(style, x)) = path /\ path # None
      BY <3>1, AtEntryIsPath
    <3> QED
      BY <2>1, <3>2
  <2>3. handle_request(r) = Dav(r, path)
    BY <2>1, <2>2, DavHandled
  <2>4. Dav(r, path) = Fails(IF body = "too large" THEN "413" ELSE "400")
    <3>1. r.method = "PUT" /\ r.body # "read"
      BY <2>1
    <3> QED
      BY <2>1, <3>1 DEF Dav
  <2> QED
    BY <1>2, <2>3, <2>4
<1> QED
  BY <1>1, <1>2 DEF DavRequest, PutRequest

\* A MOVE goes where it says, or is refused if that is on another host.
LEMMA MoveIsMeant ==
  ASSUME NEW path \in Seq(Names), NEW l, check_basic_auth(Secret, l), NEW r, NEW answer,
         MoveRequest(path, l, r, answer)
  PROVE  handle_request(r) = answer
<1>1. PICK style, x, way : \E to \in Targets, host \in Loopbacks \cup {None, Foreign} :
        /\ AtEntry(path, style, x) /\ way \in Styles
        /\ r = Sent([Plain("MOVE", Spelled(style, x)) EXCEPT
                        !.destination = [host |-> host, path |-> Spelled(way, Rendered(to))]], l)
        /\ answer = IF host = Foreign THEN Fails("400") ELSE Outcome("move", path, to)
  BY DEF MoveRequest
<1>2. PICK to \in Targets, host \in Loopbacks \cup {None, Foreign} :
        /\ AtEntry(path, style, x) /\ way \in Styles
        /\ r = Sent([Plain("MOVE", Spelled(style, x)) EXCEPT
                        !.destination = [host |-> host, path |-> Spelled(way, Rendered(to))]], l)
        /\ answer = IF host = Foreign THEN Fails("400") ELSE Outcome("move", path, to)
  BY <1>1
<1> DEFINE goal == Spelled(way, Rendered(to))
<1>3. to \in Seq(Names) /\ to # None
  BY TargetsAssumption, DrivePathsAre, PathIsSomething
<1>4. sanitize_path(goal) = to /\ goal \in Seq(Ascii) /\ goal # <<>>
  <2>1. Rendered(to) \in Strings(to)
    BY DEF Strings
  <2> QED
    BY <1>2, <1>3, <2>1, SpelledBack
<1> HIDE DEF goal
<1>5. /\ r.login = l /\ r.method = "MOVE" /\ r.plugin = FALSE
      /\ r.target = Spelled(style, x) /\ r.body = "read"
      /\ r.destination = [host |-> host, path |-> goal]
  BY <1>2 DEF Plain, Sent, goal
<1>6. goal \in Seq(Int) /\ goal # None
  <2>1. Ascii \subseteq Int
    BY DEF Ascii
  <2>2. goal \in Seq(Int)
    BY <1>4, <2>1, SeqMonotonic
  <2> QED
    BY <2>2, NoneAssumption
<1>7. r.destination # None
  <2>1. r.destination \in [host : Loopbacks \cup {None, Foreign}, path : Seq(Int)]
    BY <1>5, <1>6
  <2> QED
    BY <2>1, DestinationsAssumption
<1>8. destination_path(r.destination, Loopbacks) = IF host = Foreign THEN None ELSE goal
  <2>1. r.destination.host = host /\ r.destination.path = goal
    BY <1>5
  <2>2. Foreign # None /\ Foreign \notin Loopbacks
    BY HostsAssumption
  <2> QED
    BY <1>4, <2>1, <2>2 DEF destination_path
<1>9. DestinationOf(r) = IF host = Foreign THEN None ELSE to
  BY <1>4, <1>6, <1>8 DEF DestinationOf
<1>10. sanitize_path(r.target) = path /\ path # None
  BY <1>2, <1>5, AtEntryIsPath
<1>11. handle_request(r) = IF r.destination # None /\ DestinationOf(r) = None THEN Fails("400")
                           ELSE Dav(r, path)
  <2>1. r.method # "POST"
    BY <1>5
  <2> QED
    BY <1>5, <1>10, <2>1, DavHandled
<1>12. Dav(r, path) = Outcome("move", path, DestinationOf(r))
  <2>1. r.method = "MOVE" /\ r.method # "PUT" /\ r.destination # None
    BY <1>5, <1>7
  <2>2. "MOVE" \notin DOMAIN DavHandlers
    BY DEF DavHandlers
  <2> QED
    BY <2>1, <2>2 DEF Dav
<1> QED
  BY <1>2, <1>3, <1>7, <1>9, <1>11, <1>12

\* The plugin's endpoints are three.
LEMMA TargetsDiffer == StatusTarget # TreeTarget /\ StatusTarget # SearchTarget /\ TreeTarget # SearchTarget
<1>1. Len(StatusTarget) = 8 /\ Len(TreeTarget) = 6 /\ Len(SearchTarget) = 8
  BY DEF StatusTarget, TreeTarget, SearchTarget
<1>2. StatusTarget[4] = 116 /\ SearchTarget[4] = 101
  BY DEF StatusTarget, SearchTarget
<1> QED
  BY <1>1, <1>2

\* The timer and the plugin get what they ask for.
LEMMA LoginIsMeant ==
  ASSUME NEW l, check_basic_auth(Secret, l), NEW r, NEW answer, LoginRequest(l, r, answer)
  PROVE  handle_request(r) = answer
<1>1. PICK header \in {"sync", "status"} :
        r = Sent(TimerOrPlugin(header), l) /\ answer = Outcome(header, None, None)
  BY DEF LoginRequest
<1>2. CASE header = "sync"
  <2>1. r.login = l /\ r.method = "POST" /\ r.sync = TRUE
    BY <1>1, <1>2 DEF TimerOrPlugin, Plain, Sent
  <2> QED
    BY <1>1, <1>2, <2>1 DEF handle_request
<1>3. CASE header = "status"
  <2>1. r.login = l /\ r.method = "GET" /\ r.plugin = TRUE /\ r.target = StatusTarget
    BY <1>1, <1>3 DEF TimerOrPlugin, Plain, Sent
  <2>2. ForPlugin(r) /\ Plugin(r) = Outcome("status", None, None)
    <3>1. StatusTarget # TreeTarget /\ StatusTarget # SearchTarget
      BY TargetsDiffer
    <3> QED
      BY <2>1, <3>1 DEF ForPlugin, Plugin
  <2>3. r.method # "POST"
    BY <2>1
  <2> QED
    BY <1>1, <1>3, <2>1, <2>2, <2>3 DEF handle_request
<1> QED
  BY <1>1, <1>2, <1>3

\* Clients send ASCII, and the header they mean to.
LEMMA RequestIsText ==
  ASSUME NEW path \in Seq(Names), NEW l, NEW r, NEW answer, ClientRequest(path, l, r, answer)
  PROVE  /\ r.target \in Seq(Ascii) /\ (r.query = None \/ r.query \in Seq(Ascii))
         /\ r.login = l
<1>1. \A style, x : AtEntry(path, style, x) => Spelled(style, x) \in Seq(Ascii)
  BY AtEntryIsPath
<1>2. StatusTarget \in Seq(Ascii) /\ TreeTarget \in Seq(Ascii) /\ <<Slash>> \in Seq(Ascii)
      /\ PathKey \in Seq(Ascii) /\ <<Equal>> \in Seq(Ascii)
  BY DEF StatusTarget, TreeTarget, Slash, PathKey, Equal, Ascii
<1>3. \A s, t \in Seq(Ascii) : s \o t \in Seq(Ascii)
  BY ConcatProperties
<1>4. CASE DavRequest(path, l, r, answer)
  <2>1. PICK style, x, method : AtEntry(path, style, x) /\ r = Sent(Plain(method, Spelled(style, x)), l)
    BY <1>4 DEF DavRequest
  <2>2. r.target = Spelled(style, x) /\ r.query = None /\ r.login = l
    BY <2>1 DEF Plain, Sent
  <2> QED
    BY <1>1, <2>1, <2>2
<1>5. CASE PutRequest(path, l, r, answer)
  <2>1. PICK style, x, body : AtEntry(path, style, x)
                               /\ r = Sent([Plain("PUT", Spelled(style, x)) EXCEPT !.body = body], l)
    BY <1>5 DEF PutRequest
  <2>2. r.target = Spelled(style, x) /\ r.query = None /\ r.login = l
    BY <2>1 DEF Plain, Sent
  <2> QED
    BY <1>1, <2>1, <2>2
<1>6. CASE MoveRequest(path, l, r, answer)
  <2>1. PICK style, x, d : AtEntry(path, style, x)
                            /\ r = Sent([Plain("MOVE", Spelled(style, x)) EXCEPT !.destination = d], l)
    BY <1>6 DEF MoveRequest
  <2>2. r.target = Spelled(style, x) /\ r.query = None /\ r.login = l
    BY <2>1 DEF Plain, Sent
  <2> QED
    BY <1>1, <2>1, <2>2
<1>7. CASE PluginRequest(path, l, r, answer)
  <2>1. PICK style, x :
          /\ AtEntry(path, style, x)
          /\ r = Sent([Plain("GET", TreeTarget) EXCEPT
                          !.plugin = TRUE, !.query = PathKey \o <<Equal>> \o Spelled(style, x)], l)
    BY <1>7 DEF PluginRequest
  <2>2. r.target = TreeTarget /\ r.query = PathKey \o <<Equal>> \o Spelled(style, x) /\ r.login = l
    BY <2>1 DEF Plain, Sent
  <2>3. PathKey \o <<Equal>> \in Seq(Ascii)
    BY <1>2, <1>3
  <2> QED
    BY <1>1, <1>2, <1>3, <2>1, <2>2, <2>3
<1>8. CASE LoginRequest(l, r, answer)
  <2>1. PICK header \in {"sync", "status"} : r = Sent(TimerOrPlugin(header), l)
    BY <1>8 DEF LoginRequest
  <2>2. r.query = None /\ r.target \in {<<Slash>>, StatusTarget} /\ r.login = l
    BY <2>1 DEF TimerOrPlugin, Plain, Sent
  <2> QED
    BY <1>2, <2>2
<1>9. CASE OddRequest(path, l, r, answer)
  <2>1. PICK x, ending : AtEntry(path, "more", x) /\ ending \in Endings
                          /\ r = Sent(Plain("GET", Spelled("more", x) \o ending), l)
    BY <1>9 DEF OddRequest
  <2>2. r.target = Spelled("more", x) \o ending /\ r.query = None /\ r.login = l
    BY <2>1 DEF Plain, Sent
  <2>3. ending \in Seq(Ascii)
    BY <2>1, EndingsAssumption DEF Ascii
  <2> QED
    BY <1>1, <1>3, <2>1, <2>2, <2>3
<1> QED
  BY <1>4, <1>5, <1>6, <1>7, <1>8, <1>9 DEF ClientRequest

\* An answer that a client must get, it gets; but _tree is asked for with a query.
TreeRequest(r) == r.plugin /\ ~ r.sync /\ r.target = TreeTarget

\* All of them do what they are meant to if they are let in, _tree aside.
LEMMA HandledAsMeant ==
  ASSUME NEW path \in Seq(Names), NEW l, check_basic_auth(Secret, l), NEW r, NEW answer,
         ClientRequest(path, l, r, answer)
  PROVE  answer = None \/ handle_request(r) = answer \/ TreeRequest(r)
<1>1. CASE DavRequest(path, l, r, answer) \/ PutRequest(path, l, r, answer)
  BY <1>1, DavIsMeant
<1>2. CASE MoveRequest(path, l, r, answer)
  BY <1>2, MoveIsMeant
<1>3. CASE LoginRequest(l, r, answer)
  BY <1>3, LoginIsMeant
<1>4. CASE OddRequest(path, l, r, answer)
  BY <1>4 DEF OddRequest
<1>5. CASE PluginRequest(path, l, r, answer)
  <2>1. PICK query : r = Sent([Plain("GET", TreeTarget) EXCEPT !.plugin = TRUE, !.query = query], l)
    BY <1>5 DEF PluginRequest
  <2> QED
    BY <2>1 DEF TreeRequest, Plain, Sent
<1> QED
  BY <1>1, <1>2, <1>3, <1>4, <1>5 DEF ClientRequest

\* Who is let in is told something else than 401, whatever the request.
LEMMA LetIn ==
  ASSUME NEW r, check_basic_auth(Secret, r.login)
  PROVE  handle_request(r) # Fails("401")
<1> DEFINE Other(o) == \E handler, p, d : handler # "401" /\ o = Outcome(handler, p, d)
<1>1. \A status : status # "401" => Other(Fails(status))
  BY DEF Fails
<1>2. \A handler, p, d : handler # "401" => Other(Outcome(handler, p, d))
  OBVIOUS
<1>3. \A o : Other(o) => o # Fails("401")
  BY DEF Fails, Outcome
<1> HIDE DEF Other
<1>4. Other(Tree(r.query))
  BY <1>1, <1>2 DEF Tree
<1>5. ForPlugin(r) => Other(Plugin(r))
  <2>1. ForPlugin(r) => \/ Plugin(r) = Outcome("status", None, None)
                        \/ Plugin(r) = Tree(r.query)
                        \/ Plugin(r) = Outcome("search", query_param(r.query, QKey), None)
    BY TargetsDiffer DEF ForPlugin, Plugin
  <2> QED
    BY <1>2, <1>4, <2>1
<1>6. ASSUME NEW p PROVE Other(Dav(r, p))
  <2>1. \A method \in DOMAIN DavHandlers : DavHandlers[method] # "401"
    BY DEF DavHandlers
  <2>2. \/ \E status \in {"413", "400", "405"} : Dav(r, p) = Fails(status)
        \/ Dav(r, p) = Outcome("move", p, DestinationOf(r))
        \/ \E method \in DOMAIN DavHandlers : Dav(r, p) = Outcome(DavHandlers[method], p, None)
    <3>1. CASE r.method = "PUT" /\ r.body # "read"
      BY <3>1 DEF Dav
    <3>2. CASE r.method = "MOVE"
      <4>1. "MOVE" \notin DOMAIN DavHandlers /\ r.method # "PUT"
        BY <3>2 DEF DavHandlers
      <4> QED
        BY <3>2, <4>1 DEF Dav
    <3>3. CASE ~ (r.method = "PUT" /\ r.body # "read") /\ r.method # "MOVE"
      BY <3>3 DEF Dav
    <3> QED
      BY <3>1, <3>2, <3>3
  <2> QED
    BY <1>1, <1>2, <2>1, <2>2
<1>7. \/ handle_request(r) = Outcome("sync", None, None)
      \/ \E status \in {"405", "400"} : handle_request(r) = Fails(status)
      \/ ForPlugin(r) /\ handle_request(r) = Plugin(r)
      \/ handle_request(r) = Dav(r, sanitize_path(r.target))
  BY DEF handle_request
<1>8. Other(handle_request(r))
  BY <1>1, <1>2, <1>5, <1>6, <1>7
<1> QED
  BY <1>3, <1>8

(***************************************************************************)
(* What is asked: its path is ASCII; with the password it gets what it is  *)
(* meant to get, and nothing that says 401; without, it gets just that.    *)
(***************************************************************************)
LEMMA AskedIsText ==
  ASSUME NEW path \in Seq(Names), NEW r, NEW k, NEW answer, Asked(path, r, k, answer)
  PROVE  r.target \in Seq(Ascii) /\ (r.query = None \/ r.query \in Seq(Ascii))
<1>1. PICK login \in Credentials : ClientRequest(path, Header(login), r, answer)
  BY DEF Asked
<1> QED
  BY <1>1, RequestIsText

\* The password decides between the two.
LEMMA AskedIsAnswered ==
  ASSUME NEW path \in Seq(Names), NEW r, NEW k, NEW answer, Asked(path, r, k, answer)
  PROVE  /\ handle_request(r) = Fails("401") <=> ~ k
         /\ k => answer = None \/ handle_request(r) = answer \/ TreeRequest(r)
<1>1. PICK login \in Credentials :
         k = HasPassword(login) /\ ClientRequest(path, Header(login), r, answer)
  BY DEF Asked
<1>2. check_basic_auth(Secret, Header(login)) <=> k
  BY <1>1, PasswordIsAsked
<1>3. r.login = Header(login)
  BY <1>1, RequestIsText
<1>4. k => handle_request(r) # Fails("401")
  BY <1>2, <1>3, LetIn
<1>5. ~ k => handle_request(r) = Fails("401")
  BY <1>2, <1>3 DEF handle_request
<1>6. k => answer = None \/ handle_request(r) = answer \/ TreeRequest(r)
  BY <1>1, <1>2, HandledAsMeant
<1> QED
  BY <1>4, <1>5, <1>6

\* Every path that a handler gets is one that a drive can have.
PathOfDrive(outcome0) ==
    outcome0.path = None \/ outcome0.handler = "search" \/ outcome0.path \in Seq(Names)

\* The path of every handler is one that a drive can have.
LEMMA HandledPath ==
  ASSUME NEW r, r.target \in Text, r.query \in TextOrNone
  PROVE  PathOfDrive(handle_request(r))
<1> DEFINE path == sanitize_path(r.target)
<1>1. path = None \/ path \in Seq(Names)
  BY SanitizedPath
<1> HIDE DEF path
<1>2. \A status : PathOfDrive(Fails(status))
  BY DEF PathOfDrive, Fails, Outcome
<1>3. \A handler, d : PathOfDrive(Outcome(handler, None, d))
  BY DEF PathOfDrive, Outcome
<1>4. PathOfDrive(Tree(r.query))
  <2> DEFINE raw == query_param(r.query, PathKey)
             named == IF raw = None THEN <<Slash>> ELSE raw
  <2>1. raw \in TextOrNone
    <3>1. CASE r.query = None
      BY <3>1 DEF query_param, TextOrNone
    <3>2. CASE r.query # None
      BY <3>2, QueryIsText DEF TextOrNone
    <3> QED
      BY <3>1, <3>2
  <2>2. <<Slash>> \in Text
    BY DEF Text, Byte, Slash
  <2> HIDE DEF raw
  <2>3. named \in Text
    BY <2>1, <2>2 DEF TextOrNone
  <2> HIDE DEF named
  <2>4. sanitize_path(named) = None \/ sanitize_path(named) \in Seq(Names)
    BY <2>3, SanitizedPath
  <2>5. Tree(r.query) = IF sanitize_path(named) = None THEN Fails("400")
                        ELSE Outcome("tree", sanitize_path(named), None)
    BY DEF Tree, named, raw
  <2> QED
    BY <1>2, <2>4, <2>5 DEF PathOfDrive, Outcome
<1>5. ForPlugin(r) => PathOfDrive(Plugin(r))
  <2>1. \A d : PathOfDrive(Outcome("search", d, None))
    BY DEF PathOfDrive, Outcome
  <2>2. ForPlugin(r) => \/ Plugin(r) = Outcome("status", None, None)
                        \/ Plugin(r) = Tree(r.query)
                        \/ Plugin(r) = Outcome("search", query_param(r.query, QKey), None)
    <3>1. StatusTarget # TreeTarget /\ StatusTarget # SearchTarget /\ TreeTarget # SearchTarget
      BY TargetsDiffer
    <3> QED
      BY <3>1 DEF ForPlugin, Plugin
  <2> QED
    BY <1>3, <1>4, <2>1, <2>2
<1>6. \A p, handler, d : p = None \/ p \in Seq(Names) => PathOfDrive(Outcome(handler, p, d))
  BY DEF PathOfDrive, Outcome
<1>7. PathOfDrive(Dav(r, path))
  <2>1. CASE r.method = "PUT" /\ r.body # "read"
    <3>1. \E status : Dav(r, path) = Fails(status)
      BY <2>1 DEF Dav
    <3> QED
      BY <1>2, <3>1
  <2>2. CASE r.method = "MOVE"
    <3>1. (\E status : Dav(r, path) = Fails(status)) \/ \E d : Dav(r, path) = Outcome("move", path, d)
      <4>1. "MOVE" \notin DOMAIN DavHandlers /\ r.method # "PUT"
        BY <2>2 DEF DavHandlers
      <4> QED
        BY <2>2, <4>1 DEF Dav
    <3> QED
      BY <1>1, <1>2, <1>6, <3>1
  <2>3. CASE ~ (r.method = "PUT" /\ r.body # "read") /\ r.method # "MOVE"
    <3>1. (\E status : Dav(r, path) = Fails(status)) \/ \E h : Dav(r, path) = Outcome(h, path, None)
      BY <2>3 DEF Dav
    <3> QED
      BY <1>1, <1>2, <1>6, <3>1
  <2> QED
    BY <2>1, <2>2, <2>3
<1>8. \/ \E status : handle_request(r) = Fails(status)
      \/ handle_request(r) = Outcome("sync", None, None)
      \/ ForPlugin(r) /\ handle_request(r) = Plugin(r)
      \/ handle_request(r) = Dav(r, path)
  BY DEF handle_request, path
<1> QED
  BY <1>2, <1>3, <1>5, <1>7, <1>8

\* Graph finds every path of a drive in the address that stands for it.
LEMMA GraphFindsIt ==
  ASSUME NEW o, o # None, PathOfDrive(o), o.path # None, o.handler # "search"
  PROVE  /\ GraphReads(item_path_segment(o.path)) = o.path
         /\ \A k \in DOMAIN o.path :
               /\ o.path[k] \notin {<<>>, <<Dot>>, <<Dot, Dot>>}
               /\ \A i \in DOMAIN o.path[k] : o.path[k][i] \notin (0..31) \cup {127}
<1> DEFINE p == o.path
<1>1. p \in Seq(Names)
  BY DEF PathOfDrive
<1> HIDE DEF p
<1>2. GraphReads(item_path_segment(p)) = p
  BY <1>1, GraphReadsIt
<1>3. ASSUME NEW k \in DOMAIN p
      PROVE  /\ p[k] \notin {<<>>, <<Dot>>, <<Dot, Dot>>}
             /\ \A i \in DOMAIN p[k] : p[k][i] \notin (0..31) \cup {127}
  <2>1. p[k] \in Names
    BY <1>1
  <2> QED
    BY <2>1 DEF Names, Harmless, Dropped, Proper, Control
<1> QED
  BY <1>2, <1>3 DEF p

(***************************************************************************)
(* The inductive invariant: a request is one that a client sends of the    *)
(* entry with some credentials, `knows` says whether these have the        *)
(* password, and its answer, once there is one, is that of handle_request. *)
(***************************************************************************)
Idle == request = None /\ meant = None /\ outcome = None
\* Nothing is asked, or a client asked and has the answer of handle_request or none yet.
RequestInv ==
    \/ Idle
    \/ /\ Asked(item.path, request, knows, meant)
       /\ outcome = None \/ (request # None /\ outcome = handle_request(request))

\* Every step keeps it.
LEMMA RequestStep == EntryInv /\ RequestInv /\ [Next]_vars => RequestInv'
<1> SUFFICES ASSUME EntryInv, RequestInv, [Next]_vars PROVE RequestInv'
  OBVIOUS
<1>1. CASE UNCHANGED <<item, request, knows, meant, outcome>>
  BY <1>1 DEF RequestInv, Idle
<1>2. CASE ClientAsks
  <2>1. /\ Asked(item.path, request', knows', meant') /\ UNCHANGED <<item, entry>>
        /\ request = None /\ outcome' = outcome
    BY <1>2, ClientsAskThese DEF AskedNow
  <2>2. outcome = None
    BY <2>1 DEF RequestInv, Idle
  <2> QED
    BY <2>1, <2>2 DEF RequestInv
<1>3. CASE Handle
  <2>1. request # None /\ outcome' = handle_request(request) /\ UNCHANGED <<item, entry, request, knows, meant>>
    BY <1>3 DEF Handle
  <2>2. Asked(item.path, request, knows, meant)
    BY <2>1 DEF RequestInv, Idle
  <2> QED
    BY <2>1, <2>2 DEF RequestInv
<1>4. CASE Answered
  BY <1>4 DEF Answered, RequestInv, Idle
<1>5. Propfind \/ UNCHANGED vars => UNCHANGED <<item, request, knows, meant, outcome>>
  BY DEF Propfind, vars
<1> QED
  BY <1>1, <1>2, <1>3, <1>4, <1>5 DEF Next

\* It is so in every state.
THEOREM RequestAlways == Spec => [](EntryInv /\ RequestInv)
<1>1. Init => EntryInv /\ RequestInv
  BY DEF Init, EntryInv, RequestInv, Idle
<1>2. EntryInv /\ RequestInv /\ [Next]_vars => (EntryInv /\ RequestInv)'
  BY EntryStep, RequestStep
<1> QED
  BY <1>1, <1>2, PTL DEF Spec

\* The entry has a path of the drive.
LEMMA ItemHasPath == EntryInv => item.path \in Seq(Names)
BY ItemsAssumption, DrivePathsAre DEF EntryInv

(***************************************************************************)
(* An href is made of what a URL's path may have and leads to some bytes;  *)
(* a request is ASCII; and only a request is answered.                     *)
(***************************************************************************)
THEOREM TypesAlwaysOK == Spec => []TypeOK
<1>1. EntryInv /\ RequestInv => TypeOK
  <2> SUFFICES ASSUME EntryInv, RequestInv PROVE TypeOK
    OBVIOUS
  <2>1. item.path \in Seq(Names)
    BY ItemHasPath
  <2>2. ASSUME entry # None
        PROVE  ToSet(entry.href) \subseteq Unreserved \cup {Slash, Percent} /\ Unescaped(entry.href) # None
    <3>1. entry.href = Href(item.path, item.dir)
      BY <2>2 DEF EntryInv, Listed
    <3>2. entry.href \in Seq(UrlByte) /\ Unescaped(entry.href) \in Strings(item.path)
      BY <2>1, <3>1, HrefOf
    <3>3. Unescaped(entry.href) \in Text
      BY <2>1, <3>2, StringsOf
    <3>4. \A s \in Seq(UrlByte) : ToSet(s) \subseteq UrlByte
      BY DEF ToSet
    <3> QED
      BY <3>2, <3>3, <3>4, NoneIsNoText DEF UrlByte
  <2>3. ASSUME request # None PROVE FromUtf8(request.target) = request.target
    <3>1. Asked(item.path, request, knows, meant)
      BY <2>3 DEF RequestInv, Idle
    <3>2. request.target \in Seq(Ascii)
      BY <2>1, <3>1, AskedIsText
    <3> QED
      BY <3>2, AsciiIsUtf8, FromUtf8Iff
  <2>4. outcome # None => request # None
    BY DEF RequestInv, Idle
  <2> QED
    BY <2>2, <2>3, <2>4 DEF TypeOK
<1> QED
  BY <1>1, RequestAlways, PTL

(***************************************************************************)
(* Whoever asks from an href gets the handler of the method for the entry  *)
(* the href is of, whatever its name is and however he escapes it.         *)
(***************************************************************************)
THEOREM HrefsAlwaysLeadBack == Spec => []HrefsLeadBack
<1>1. EntryInv /\ RequestInv => HrefsLeadBack
  <2> SUFFICES ASSUME EntryInv, RequestInv, outcome # None, knows, meant # None, ~ request.plugin
               PROVE  outcome = meant
    BY DEF HrefsLeadBack
  <2>1. Asked(item.path, request, knows, meant) /\ outcome = handle_request(request)
    BY DEF RequestInv, Idle
  <2>2. item.path \in Seq(Names)
    BY ItemHasPath
  <2>3. meant = None \/ handle_request(request) = meant \/ TreeRequest(request)
    BY <2>1, <2>2, AskedIsAnswered
  <2> QED
    BY <2>1, <2>3 DEF TreeRequest
<1> QED
  BY <1>1, RequestAlways, PTL

(***************************************************************************)
(* Of all requests, by every method, those whose Authorization header has  *)
(* the password are let through, and the others are told 401 and nothing   *)
(* else: for every secret, and whatever bytes the credentials are, in any  *)
(* scheme, with or without padding, between spaces, broken, or missing.    *)
(***************************************************************************)
THEOREM PasswordAlwaysDecides == Spec => []PasswordDecides
<1>1. EntryInv /\ RequestInv => PasswordDecides
  <2> SUFFICES ASSUME EntryInv, RequestInv, outcome # None PROVE PasswordDecides
    BY DEF PasswordDecides
  <2>1. Asked(item.path, request, knows, meant) /\ outcome = handle_request(request)
    BY DEF RequestInv, Idle
  <2>2. item.path \in Seq(Names)
    BY ItemHasPath
  <2>3. /\ handle_request(request) = Fails("401") <=> ~ knows
        /\ knows => meant = None \/ handle_request(request) = meant \/ TreeRequest(request)
    BY <2>1, <2>2, AskedIsAnswered
  <2>4. (request.sync \/ request.target = StatusTarget) => ~ TreeRequest(request)
    BY TargetsDiffer DEF TreeRequest
  <2> QED
    BY <2>1, <2>3, <2>4 DEF PasswordDecides
<1> QED
  BY <1>1, RequestAlways, PTL

(***************************************************************************)
(* Whatever is asked for, Graph finds in the address it is sent the path   *)
(* that the handler was given, and in that no segment that means another.  *)
(***************************************************************************)
THEOREM GraphAlwaysGetsThePath == Spec => []GraphGetsThePath
<1>1. EntryInv /\ RequestInv => GraphGetsThePath
  <2> SUFFICES ASSUME EntryInv, RequestInv, outcome # None PROVE GraphGetsThePath
    BY DEF GraphGetsThePath
  <2>1. Asked(item.path, request, knows, meant) /\ outcome = handle_request(request)
    BY DEF RequestInv, Idle
  <2>2. item.path \in Seq(Names)
    BY ItemHasPath
  <2>3. request.target \in Seq(Ascii) /\ (request.query = None \/ request.query \in Seq(Ascii))
    BY <2>1, <2>2, AskedIsText
  <2>4. request.target \in Text /\ request.query \in TextOrNone
    BY <2>3, AsciiIsUtf8 DEF TextOrNone
  <2>5. PathOfDrive(outcome)
    BY <2>1, <2>4, HandledPath
  <2> QED
    BY <2>5, GraphFindsIt DEF GraphGetsThePath
<1> QED
  BY <1>1, RequestAlways, PTL
=============================================================================
