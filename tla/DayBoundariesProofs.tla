------------------------- MODULE DayBoundariesProofs -------------------------
(***************************************************************************)
(* Proofs about DayBoundaries, for a day of any length and every zone that *)
(* changes its offset once, as ChangeAssumption allows: by a day at most,  *)
(* and with no midnight strictly inside the time skipped or repeated.      *)
(* The argument: the instants whose wall time is a midnight or later are   *)
(* those from the conversion of that midnight to UTC on (FromMidnight), so *)
(* the dates and the reports are cut at the same instants.                 *)
(***************************************************************************)
EXTENDS DayBoundaries, TLAPS

-----------------------------------------------------------------------------
(* Division.                                                               *)

(* What \div and % are for a positive divisor.                             *)
LEMMA DivMod ==
    ASSUME NEW a \in Int, NEW d \in Nat \ {0}
    PROVE  /\ a \div d \in Int /\ a % d \in 0..(d - 1)
           /\ a = (d * (a \div d)) + (a % d)
  BY SMT

(* Quotient and remainder are unique.                                      *)
LEMMA DivUnique ==
    ASSUME NEW a \in Int, NEW d \in Nat \ {0}, NEW q \in Int,
           NEW r \in 0..(d - 1), a = d * q + r
    PROVE  a \div d = q /\ a % d = r
  <1>1. PICK p \in Int, s \in 0..(d - 1) :
            p = a \div d /\ s = a % d /\ a = d * p + s
    BY DivMod
  <1>2. d * (q - p) = s - r
    BY <1>1
  <1>3. CASE q - p >= 1
    <2>1. d * (q - p) >= d
      BY <1>1, <1>3
    <2> QED
      BY <1>1, <1>2, <2>1
  <1>4. CASE q - p <= -1
    <2>1. d * (q - p) <= -d
      BY <1>1, <1>4
    <2> QED
      BY <1>1, <1>2, <2>1
  <1>5. q = p
    BY <1>1, <1>3, <1>4
  <1> QED
    BY <1>1, <1>5

(* A date is a day of wall times: those between two midnights.             *)
LEMMA SameDate ==
    ASSUME NEW a \in Int, NEW b \in Int,
           NEW m, m = b - (b % DAY)
    PROVE  /\ m \in Int /\ m <= b /\ b < m + DAY
           /\ m % DAY = 0 /\ (m - DAY) % DAY = 0 /\ (m + DAY) % DAY = 0
           /\ a \div DAY = b \div DAY <=> m <= a /\ a < m + DAY
           /\ a \div DAY = (b \div DAY) - 1 <=> m - DAY <= a /\ a < m
  <1>1. DAY \in Nat \ {0}
    BY DayAssumption
  <1>2. PICK q \in Int, r \in 0..(DAY - 1) :
            q = b \div DAY /\ r = b % DAY /\ b = DAY * q + r
    BY <1>1, DivMod
  <1>3. PICK p \in Int, s \in 0..(DAY - 1) :
            p = a \div DAY /\ s = a % DAY /\ a = DAY * p + s
    BY <1>1, DivMod
  <1>4. m = DAY * q /\ m \in Int
    BY <1>1, <1>2
  <1>5. m - DAY = DAY * (q - 1) /\ m + DAY = DAY * (q + 1)
    BY <1>1, <1>4
  <1>6. ASSUME NEW k \in Int, NEW n \in Int, n = DAY * k
        PROVE  n % DAY = 0
    <2>1. n = DAY * k + 0 /\ 0 \in 0..(DAY - 1)
      BY <1>1, <1>6
    <2> QED
      BY <1>1, <2>1, DivUnique
  <1>7. ASSUME NEW k \in Int, DAY * k <= a, a < DAY * k + DAY
        PROVE  p = k
    <2>1. PICK x : x = a - DAY * k
      OBVIOUS
    <2>2. x \in 0..(DAY - 1) /\ a = DAY * k + x
      BY <1>1, <1>7, <2>1
    <2>3. a \div DAY = k
      BY <1>1, <2>2, DivUnique
    <2> QED
      BY <1>3, <2>3
  <1>8. DAY * p <= a /\ a < DAY * p + DAY
    BY <1>1, <1>3
  <1>9. a \div DAY = b \div DAY <=> m <= a /\ a < m + DAY
    BY <1>2, <1>3, <1>4, <1>7, <1>8
  <1>10. a \div DAY = (b \div DAY) - 1 <=> m - DAY <= a /\ a < m
    <2>1. (q - 1 \in Int) /\ (DAY * (q - 1) + DAY = m)
      BY <1>1, <1>4, <1>5
    <2> QED
      BY <1>2, <1>3, <1>5, <1>7, <1>8, <2>1
  <1>11. m % DAY = 0
    BY <1>4, <1>6
  <1>12. (m - DAY) % DAY = 0
    BY <1>1, <1>4, <1>5, <1>6
  <1>13. (m + DAY) % DAY = 0
    BY <1>1, <1>4, <1>5, <1>6
  <1> QED
    BY <1>1, <1>2, <1>4, <1>9, <1>10, <1>11, <1>12, <1>13

-----------------------------------------------------------------------------
(* Conversions.                                                            *)

(* The larger and the smaller of two numbers.                              *)
LEMMA MaxMin ==
    ASSUME NEW a \in Int, NEW b \in Int
    PROVE  /\ Max({a, b}) = IF a >= b THEN a ELSE b
           /\ Min({a, b}) = IF a <= b THEN a ELSE b
  <1>1. \A c \in {a, b} :
            (\A y \in {a, b} : c >= y) => c = IF a >= b THEN a ELSE b
    OBVIOUS
  <1>2. \E c \in {a, b} : \A y \in {a, b} : c >= y
    OBVIOUS
  <1>3. \A c \in {a, b} :
            (\A y \in {a, b} : c =< y) => c = IF a <= b THEN a ELSE b
    OBVIOUS
  <1>4. \E c \in {a, b} : \A y \in {a, b} : c =< y
    OBVIOUS
  <1> QED
    BY <1>1, <1>2, <1>3, <1>4 DEF Max, Min

(* What a zone is.                                                         *)
LEMMA ZoneType ==
    ASSUME NEW z \in Zones
    PROVE  /\ z.before \in Int /\ z.after \in Int /\ z.at \in Int
           /\ z.after - z.before >= -DAY /\ z.after - z.before <= DAY
           /\ \A w \in Int :
                 w % DAY = 0 =>
                    /\ ~(z.at + z.before < w /\ w < z.at + z.after)
                    /\ ~(z.at + z.after < w /\ w < z.at + z.before)
  <1>1. DAY \in Int /\ z.before \in Int /\ z.after \in Int /\ z.at \in Int
    <2>1. /\ z \in [before : Offsets, after : Offsets, at : 0..Horizon]
          /\ Offsets \subseteq Int /\ DAY \in Int /\ Horizon \in Int
      BY DayAssumption
    <2>2. z.before \in Offsets /\ z.after \in Offsets /\ z.at \in 0..Horizon
      BY <2>1
    <2>3. z.before \in Int /\ z.after \in Int
      BY <2>1, <2>2
    <2>4. z.at \in Int
      BY <2>1, <2>2
    <2> QED
      BY <2>1, <2>3, <2>4
  <1>2. PICK from \in Int, to \in Int :
            from = z.at + z.before /\ to = z.at + z.after
    BY <1>1
  <1>3. /\ to - from \in -DAY..DAY
        /\ \A w \in ((from + 1)..(to - 1)) \cup ((to + 1)..(from - 1)) :
              w % DAY # 0
    BY <1>2, ChangeAssumption
  <1>4. ASSUME NEW w \in Int, w % DAY = 0
        PROVE  ~(from < w /\ w < to) /\ ~(to < w /\ w < from)
    <2>1. w \notin (from + 1)..(to - 1) /\ w \notin (to + 1)..(from - 1)
      BY <1>3, <1>4
    <2> QED
      BY <1>2, <2>1
  <1>5. z.after - z.before >= -DAY /\ z.after - z.before <= DAY
    BY <1>1, <1>2, <1>3
  <1> QED
    BY <1>1, <1>2, <1>4, <1>5

(* The conversion of a wall time, without Max and Min.                     *)
LEMMA UtcIs ==
    ASSUME NEW z \in Zones, NEW w \in Int
    PROVE  /\ Utc(z, w, 0) =
                IF w >= z.at + z.before /\ w >= z.at + z.after
                  THEN w - z.after ELSE w - z.before
           /\ Utc(z, w, 1) =
                IF w >= z.at + z.before \/ w >= z.at + z.after
                  THEN w - z.after ELSE w - z.before
           /\ Utc(z, w, 0) \in Int /\ Utc(z, w, 1) \in Int
  <1>1. z.before \in Int /\ z.after \in Int /\ z.at \in Int
    BY ZoneType
  <1>2. /\ Max({z.before, z.after}) = IF z.before >= z.after THEN z.before
                                                              ELSE z.after
        /\ Min({z.before, z.after}) = IF z.before <= z.after THEN z.before
                                                              ELSE z.after
    BY <1>1, MaxMin
  <1>3. Utc(z, w, 0) =
          IF w >= z.at + Max({z.before, z.after}) THEN w - z.after
                                                  ELSE w - z.before
    BY DEF Utc
  <1>4. Utc(z, w, 1) =
          IF w >= z.at + Min({z.before, z.after}) THEN w - z.after
                                                  ELSE w - z.before
    BY DEF Utc
  <1> QED
    BY <1>1, <1>2, <1>3, <1>4

(* The wall shows midnight w or later from the instant on that the first w *)
(* is converted to.                                                        *)
LEMMA FromMidnight ==
    ASSUME NEW z \in Zones, NEW w \in Int, w % DAY = 0, NEW t \in Int
    PROVE  w <= Wall(z, t) <=> Utc(z, w, 0) <= t
  <1>1. /\ z.before \in Int /\ z.after \in Int /\ z.at \in Int
        /\ ~(z.at + z.before < w /\ w < z.at + z.after)
        /\ ~(z.at + z.after < w /\ w < z.at + z.before)
    BY ZoneType
  <1>2. Utc(z, w, 0) =
                IF w >= z.at + z.before /\ w >= z.at + z.after
                  THEN w - z.after ELSE w - z.before
    BY UtcIs
  <1> QED
    BY <1>1, <1>2 DEF Wall
-----------------------------------------------------------------------------
(* Reports.                                                                *)

(* The clock is within the instants considered.                            *)
ClockInv == zone \in Zones /\ now \in (2 * DAY)..Horizon

(* The clock goes up to the horizon.                                       *)
LEMMA ClockRuns == Spec => []ClockInv
  <1>1. Init => ClockInv
    BY DayAssumption DEF Init, ClockInv
  <1>2. ClockInv /\ [Next]_vars => ClockInv'
    BY DayAssumption DEF ClockInv, Next, Tick, vars
  <1> QED
    BY <1>1, <1>2, PTL DEF Spec

(* The wall shows a whole number.                                          *)
LEMMA WallType ==
    ASSUME NEW z \in Zones, NEW t \in Int
    PROVE  Wall(z, t) \in Int
  BY ZoneType DEF Wall

(* What the boundaries of the day of the instant t are: m is the wall time *)
(* of its midnight.                                                        *)
Bounds(z, t, m, y, d, n) ==
    /\ m = Midnight(Wall(z, t))
    /\ y = Utc(z, m - DAY, 0)
    /\ d = Utc(z, m, Fold(z, t))
    /\ n = Utc(z, m + DAY, 0)

(* The two reports are what lies between the three boundaries, and the     *)
(* three are in order.                                                     *)
LEMMA BoundsAre ==
    ASSUME NEW z \in Zones, NEW t \in Int,
           NEW m, NEW y, NEW d, NEW n, Bounds(z, t, m, y, d, n)
    PROVE  /\ m \in Int /\ y \in Int /\ d \in Int /\ n \in Int
           /\ m % DAY = 0 /\ (m - DAY) % DAY = 0 /\ (m + DAY) % DAY = 0
           /\ y <= d /\ d <= n
           /\ d <= t /\ t < n
           /\ y <= Utc(z, m, 0)
           /\ d = Utc(z, m, 0) \/ (Fold(z, t) = 1 /\ m \in Repeated(z))
  <1>1. DAY \in Nat \ {0}
    BY DayAssumption
  <1>2. PICK v \in Int : v = Wall(z, t)
    BY WallType
  <1>3. m = v - (v % DAY)
    BY <1>2 DEF Bounds, Midnight
  <1>4. /\ m \in Int /\ m <= v /\ v < m + DAY
        /\ m % DAY = 0 /\ (m - DAY) % DAY = 0 /\ (m + DAY) % DAY = 0
    BY <1>2, <1>3, SameDate
  <1>5. /\ z.before \in Int /\ z.after \in Int /\ z.at \in Int
        /\ z.after - z.before >= -DAY /\ z.after - z.before <= DAY
        /\ ~(z.at + z.before < m /\ m < z.at + z.after)
        /\ ~(z.at + z.after < m /\ m < z.at + z.before)
    BY <1>4, ZoneType
  <1>6. /\ y = IF m - DAY >= z.at + z.before /\ m - DAY >= z.at + z.after
                 THEN m - DAY - z.after ELSE m - DAY - z.before
        /\ y \in Int
    BY <1>1, <1>4, UtcIs DEF Bounds
  <1>7. /\ n = IF m + DAY >= z.at + z.before /\ m + DAY >= z.at + z.after
                 THEN m + DAY - z.after ELSE m + DAY - z.before
        /\ n \in Int
    <2>1. PICK w \in Int : w = m + DAY
      BY <1>1, <1>4
    <2>2. n = Utc(z, w, 0)
      BY <2>1 DEF Bounds
    <2>3. /\ n = IF w >= z.at + z.before /\ w >= z.at + z.after
                   THEN w - z.after ELSE w - z.before
          /\ n \in Int
      BY <2>2, UtcIs
    <2> QED
      BY <1>1, <1>4, <1>5, <2>1, <2>3
  <1>8. t < n
    <2>1. ~(m + DAY <= Wall(z, t))
      BY <1>1, <1>2, <1>4
    <2> QED
      BY <1>1, <1>4, <1>7, <2>1, FromMidnight DEF Bounds
  <1>9. y <= Utc(z, m, 0)
    <2>1. Utc(z, m, 0) =
            IF m >= z.at + z.before /\ m >= z.at + z.after
              THEN m - z.after ELSE m - z.before
      BY <1>4, UtcIs
    <2> QED
      BY <1>1, <1>4, <1>5, <1>6, <2>1
  <1>10. CASE Fold(z, t) = 0
    <2>1. d = Utc(z, m, 0) /\ d \in Int
      BY <1>4, <1>10, UtcIs DEF Bounds
    <2>2. d <= t
      BY <1>2, <1>4, <2>1, FromMidnight
    <2>3. d = IF m >= z.at + z.before /\ m >= z.at + z.after
                THEN m - z.after ELSE m - z.before
      BY <1>4, <2>1, UtcIs
    <2>4. y <= d /\ d <= n
      BY <1>1, <1>4, <1>5, <1>6, <1>7, <2>3
    <2> QED
      BY <1>4, <1>6, <1>7, <1>8, <1>9, <2>1, <2>2, <2>4
  <1>11. CASE Fold(z, t) = 1
    <2>1. t >= z.at /\ v = t + z.after
      BY <1>2, <1>5, <1>11 DEF Fold, Wall
    <2>2. z.at + z.after <= v /\ v <= z.at + z.before - 1
      BY <1>2, <1>5, <1>11 DEF Fold, Repeated
    <2>3. d = IF m >= z.at + z.before \/ m >= z.at + z.after
                THEN m - z.after ELSE m - z.before
      BY <1>4, <1>11, UtcIs DEF Bounds
    <2>4. CASE m < z.at + z.after
      <3>1. d = m - z.before
        BY <1>4, <1>5, <2>2, <2>3, <2>4
      <3>2. Utc(z, m, 0) = m - z.before
        BY <1>4, <1>5, <2>4, UtcIs
      <3> QED
        BY <1>1, <1>4, <1>5, <1>6, <1>7, <1>8, <1>9, <2>1, <2>2, <2>4, <3>1,
           <3>2
    <2>5. CASE m >= z.at + z.after
      <3>1. m = z.at + z.after /\ d = z.at
        BY <1>2, <1>4, <1>5, <2>2, <2>3, <2>5
      <3>2. m \in Repeated(z)
        BY <1>4, <1>5, <2>2, <3>1 DEF Repeated
      <3>3. y <= d /\ d <= n /\ d <= t
        BY <1>1, <1>4, <1>5, <1>6, <1>7, <1>8, <2>1, <3>1
      <3> QED
        BY <1>4, <1>5, <1>6, <1>7, <1>8, <1>9, <1>11, <3>1, <3>2, <3>3
    <2> QED
      BY <1>4, <1>5, <2>4, <2>5
  <1> QED
    BY <1>10, <1>11 DEF Fold
(* The redemptions a report lists, and the page, between the boundaries.   *)
LEMMA ReportsAre ==
    ASSUME NEW z \in Zones, NEW t \in Int,
           NEW m, NEW y, NEW d, NEW n, Bounds(z, t, m, y, d, n)
    PROVE  /\ ReportOf(z, t, "today") = {i \in Instants : d <= i /\ i < n}
           /\ ReportOf(z, t, "yesterday") = {i \in Instants : y <= i /\ i < d}
           /\ PageOf(z, t, "today") =
                {i \in {j \in Instants : y <= j /\ j < n} : i >= d}
           /\ PageOf(z, t, "yesterday") =
                {i \in {j \in Instants : y <= j /\ j < n} : i < d}
  <1>1. PICK b : b = day_boundaries(z, t)
    OBVIOUS
  <1>2. b = [yesterday |-> y, today |-> d, tomorrow |-> n]
    BY <1>1 DEF day_boundaries, Bounds
  <1>3. b.yesterday = y /\ b.today = d /\ b.tomorrow = n
    BY <1>2
  <1> QED
    BY <1>1, <1>3 DEF ReportOf, PageOf

(* The instants of today's date and of yesterday's.                        *)
LEMMA DaysAre ==
    ASSUME ClockInv, NEW m, NEW y, NEW d, NEW n, Bounds(zone, now, m, y, d, n),
           NEW i \in Instants
    PROVE  /\ i \in OnDay(Date(zone, now)) <=> Utc(zone, m, 0) <= i /\ i < n
           /\ i \in OnDay(Date(zone, now) - 1) <=>
                y <= i /\ i < Utc(zone, m, 0)
  <1>1. DAY \in Nat \ {0} /\ zone \in Zones /\ now \in Int /\ i \in Int
    BY DayAssumption DEF ClockInv, Instants
  <1>2. PICK v \in Int : v = Wall(zone, now)
    BY <1>1, WallType
  <1>3. PICK w \in Int : w = Wall(zone, i)
    BY <1>1, WallType
  <1>4. m = v - (v % DAY)
    BY <1>2 DEF Bounds, Midnight
  <1>5. /\ m \in Int
        /\ m % DAY = 0 /\ (m - DAY) % DAY = 0 /\ (m + DAY) % DAY = 0
        /\ w \div DAY = v \div DAY <=> m <= w /\ w < m + DAY
        /\ w \div DAY = (v \div DAY) - 1 <=> m - DAY <= w /\ w < m
    BY <1>4, SameDate
  <1>6. m <= w <=> Utc(zone, m, 0) <= i
    BY <1>1, <1>3, <1>5, FromMidnight
  <1>7. m - DAY <= w <=> y <= i
    <2>1. PICK x \in Int : x = m - DAY
      BY <1>1, <1>5
    <2>2. x <= w <=> Utc(zone, x, 0) <= i
      BY <1>1, <1>3, <1>5, <2>1, FromMidnight
    <2> QED
      BY <2>1, <2>2 DEF Bounds
  <1>8. m + DAY <= w <=> n <= i
    <2>1. PICK x \in Int : x = m + DAY
      BY <1>1, <1>5
    <2>2. x <= w <=> Utc(zone, x, 0) <= i
      BY <1>1, <1>3, <1>5, <2>1, FromMidnight
    <2> QED
      BY <2>1, <2>2 DEF Bounds
  <1>9. Utc(zone, m, 0) \in Int /\ n \in Int
    BY <1>1, <1>5, UtcIs, BoundsAre
  <1>10. w < m + DAY <=> i < n
    BY <1>1, <1>3, <1>5, <1>8, <1>9
  <1>11. w < m <=> i < Utc(zone, m, 0)
    BY <1>1, <1>3, <1>5, <1>6, <1>9
  <1>12. /\ i \in OnDay(Date(zone, now)) <=> w \div DAY = v \div DAY
         /\ i \in OnDay(Date(zone, now) - 1) <=> w \div DAY = (v \div DAY) - 1
    BY <1>2, <1>3 DEF OnDay, Date
  <1> QED
    BY <1>5, <1>6, <1>7, <1>10, <1>11, <1>12

(* Whatever the zone does, a redemption of today or of yesterday is in one *)
(* of the two reports and not in both, one made this very hour is in       *)
(* today's, and the page and the reports sent to partners agree.           *)
THEOREM ReportedExactlyOnce == Spec => []ReportedOnce
  <1>1. ASSUME ClockInv
        PROVE  ReportedOnce
    <2>1. PICK m, y, d, n : Bounds(zone, now, m, y, d, n)
      BY DEF Bounds
    <2>2. zone \in Zones /\ now \in Int /\ now \in Instants
      BY <1>1, DayAssumption DEF ClockInv, Instants
    <2>3. PICK u : u = Utc(zone, m, 0)
      OBVIOUS
    <2>4. /\ m \in Int /\ y \in Int /\ d \in Int /\ n \in Int
          /\ y <= d /\ d <= n /\ d <= now /\ now < n
      BY <2>1, <2>2, BoundsAre
    <2>5. u \in Int
      BY <2>2, <2>3, <2>4, UtcIs
    <2>6. PICK today, yesterday :
              /\ today = ReportOf(zone, now, "today")
              /\ yesterday = ReportOf(zone, now, "yesterday")
      OBVIOUS
    <2>7. /\ today = {i \in Instants : d <= i /\ i < n}
          /\ yesterday = {i \in Instants : y <= i /\ i < d}
      BY <2>1, <2>2, <2>6, ReportsAre
    <2>8. Instants \subseteq Int
      BY DEF Instants
    <2>9. today \subseteq Instants /\ yesterday \subseteq Instants
      BY <2>7
    <2>10. ASSUME NEW i \in Instants
           PROVE  /\ i \in today <=> (d <= i /\ i < n)
                  /\ i \in yesterday <=> (y <= i /\ i < d)
      BY <2>7
    <2>11. today \cap yesterday = {}
      <3>1. ASSUME NEW i \in Instants
            PROVE  ~(i \in today /\ i \in yesterday)
        <4>1. i \in Int
          BY <2>8
        <4>2. /\ i \in today => d <= i
              /\ i \in yesterday => i < d
          BY <2>10
        <4> QED
          BY <2>4, <4>1, <4>2
      <3> QED
        BY <2>9, <3>1
    <2>12. OnDay(Date(zone, now)) \cup OnDay(Date(zone, now) - 1)
             = today \cup yesterday
      <3>1. \A i \in Instants :
               /\ i \in OnDay(Date(zone, now)) <=> u <= i /\ i < n
               /\ i \in OnDay(Date(zone, now) - 1) <=> y <= i /\ i < u
        BY <1>1, <2>1, <2>3, DaysAre
      <3>2. y <= u /\ u <= n
        <4>1. now \in OnDay(Date(zone, now))
          BY <2>2 DEF OnDay
        <4>2. u <= n
          BY <2>2, <2>4, <2>5, <3>1, <4>1
        <4>3. y <= u
          BY <2>1, <2>2, <2>3, BoundsAre
        <4> QED
          BY <4>2, <4>3
      <3>3. OnDay(Date(zone, now)) \subseteq Instants
              /\ OnDay(Date(zone, now) - 1) \subseteq Instants
        BY DEF OnDay
      <3>4. ASSUME NEW i \in Instants
            PROVE  i \in OnDay(Date(zone, now)) \cup OnDay(Date(zone, now) - 1)
                     <=> i \in today \cup yesterday
        <4>1. i \in Int
          BY <2>8
        <4>2. /\ i \in today <=> (d <= i /\ i < n)
              /\ i \in yesterday <=> (y <= i /\ i < d)
          BY <2>10
        <4>3. /\ i \in OnDay(Date(zone, now)) <=> u <= i /\ i < n
              /\ i \in OnDay(Date(zone, now) - 1) <=> y <= i /\ i < u
          BY <3>1
        <4> QED
          BY <2>4, <2>5, <3>2, <4>1, <4>2, <4>3
      <3> QED
        BY <2>9, <3>3, <3>4
    <2>13. now \in today
      BY <2>2, <2>4, <2>7
    <2>14. /\ PageOf(zone, now, "today") = today
           /\ PageOf(zone, now, "yesterday") = yesterday
      <3>1. /\ PageOf(zone, now, "today") =
                 {i \in {j \in Instants : y <= j /\ j < n} : i >= d}
            /\ PageOf(zone, now, "yesterday") =
                 {i \in {j \in Instants : y <= j /\ j < n} : i < d}
        BY <2>1, <2>2, ReportsAre
      <3>2. ASSUME NEW i \in Instants
            PROVE  /\ i \in PageOf(zone, now, "today") <=> i \in today
                   /\ i \in PageOf(zone, now, "yesterday") <=> i \in yesterday
        <4>1. i \in Int
          BY <2>8
        <4>2. /\ i \in today <=> (d <= i /\ i < n)
              /\ i \in yesterday <=> (y <= i /\ i < d)
          BY <2>10
        <4>3. /\ i \in PageOf(zone, now, "today") <=>
                   (y <= i /\ i < n) /\ i >= d
              /\ i \in PageOf(zone, now, "yesterday") <=>
                   (y <= i /\ i < n) /\ i < d
          BY <3>1
        <4> QED
          BY <2>4, <4>1, <4>2, <4>3
      <3>3. /\ PageOf(zone, now, "today") \subseteq Instants
            /\ PageOf(zone, now, "yesterday") \subseteq Instants
        BY <3>1
      <3> QED
        BY <2>9, <3>2, <3>3
    <2> QED
      BY <2>6, <2>11, <2>12, <2>13, <2>14 DEF ReportedOnce
  <1> QED
    BY <1>1, ClockRuns, PTL

(* Each report lists exactly the redemptions of that local date, wherever  *)
(* no midnight occurs twice.                                               *)
THEOREM PlainReportsAreDays == Spec => []PlainDays
  <1>1. ASSUME ClockInv
        PROVE  PlainDays
    <2> SUFFICES ASSUME \A w \in Repeated(zone) : w % DAY # 0
                 PROVE  ReportsAreDays
      BY DEF PlainDays
    <2>1. PICK m, y, d, n : Bounds(zone, now, m, y, d, n)
      BY DEF Bounds
    <2>2. zone \in Zones /\ now \in Int
      BY <1>1, DayAssumption DEF ClockInv
    <2>3. d = Utc(zone, m, 0)
      BY <2>1, <2>2, BoundsAre
    <2>4. /\ ReportOf(zone, now, "today") = {i \in Instants : d <= i /\ i < n}
          /\ ReportOf(zone, now, "yesterday") =
               {i \in Instants : y <= i /\ i < d}
      BY <2>1, <2>2, ReportsAre
    <2>5. \A i \in Instants :
             /\ i \in OnDay(Date(zone, now)) <=> d <= i /\ i < n
             /\ i \in OnDay(Date(zone, now) - 1) <=> y <= i /\ i < d
      BY <1>1, <2>1, <2>3, DaysAre
    <2>6. OnDay(Date(zone, now)) \subseteq Instants
            /\ OnDay(Date(zone, now) - 1) \subseteq Instants
      BY DEF OnDay
    <2> QED
      BY <2>4, <2>5, <2>6 DEF ReportsAreDays
  <1> QED
    BY <1>1, ClockRuns, PTL
=============================================================================
