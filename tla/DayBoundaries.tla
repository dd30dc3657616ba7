---------------------------- MODULE DayBoundaries ----------------------------
(***************************************************************************)
(* The days of the redemption reports (api/report.py day_boundaries and    *)
(* the same computation in view_redeemed_tickets.py).  "Today" is found by *)
(* setting the hour of the local time to 0, "tomorrow" and "yesterday" by  *)
(* adding a day to that wall time; each wall time is then converted to     *)
(* UTC.  Time is counted in hours.  A zone here changes its offset once;   *)
(* the conversions are those of zoneinfo (PEP 495), where fold = 1 marks   *)
(* the second occurrence of a wall time.                                   *)
(***************************************************************************)
EXTENDS Integers, FiniteSetsExt

CONSTANTS
    DAY,            \* hours of a day
    Offsets,        \* the offsets from UTC a zone may have
    Horizon,        \* the clock runs from the second midnight to this hour
    Zones           \* the zones considered

ASSUME DayAssumption ==
    /\ DAY \in Nat \ {0} /\ Horizon \in Nat /\ 2 * DAY <= Horizon
    /\ Offsets \subseteq Int
    /\ Zones \subseteq [before : Offsets, after : Offsets, at : 0..Horizon]

(* A clock is put forward or back by a day at most, and no midnight lies   *)
(* strictly inside the time it skips or repeats: one may begin or end it.  *)
ASSUME ChangeAssumption ==
    \A z \in Zones :
        LET from == z.at + z.before
            to == z.at + z.after
        IN  /\ to - from \in -DAY..DAY
            /\ \A w \in ((from + 1)..(to - 1)) \cup ((to + 1)..(from - 1)) :
                  w % DAY # 0

VARIABLES
    zone,           \* local_timezone(), fixed by the configuration
    now             \* the instant at which the report is made

vars == <<zone, now>>

Instants == 0..Horizon

-----------------------------------------------------------------------------
(* zoneinfo.                                                               *)

Wall(z, t) == t + (IF t < z.at THEN z.before ELSE z.after)

(* The wall times that occur twice, when the clock is put back.            *)
Repeated(z) == (z.at + z.after)..(z.at + z.before - 1)

Fold(z, t) == IF t >= z.at /\ Wall(z, t) \in Repeated(z) THEN 1 ELSE 0

(* as_utc of a wall time.  A wall time that is skipped is read with the    *)
(* offset before the change, or after it when fold = 1.                    *)
Utc(z, w, fold) ==
    LET switch == z.at + (IF fold = 0 THEN Max({z.before, z.after})
                                      ELSE Min({z.before, z.after}))
    IN  w - (IF w >= switch THEN z.after ELSE z.before)

-----------------------------------------------------------------------------
(* The code.                                                               *)

Midnight(w) == w - (w % DAY)

(* Mutant: the days are added to the UTC instant of midnight.              *)
DayBoundariesUtc(z, t) ==
    LET today == Utc(z, Midnight(Wall(z, t)), Fold(z, t)) IN
    [yesterday |-> today - DAY, today |-> today, tomorrow |-> today + DAY]

(* replace() keeps the fold of the local time; adding a timedelta resets   *)
(* it to 0.                                                                *)
day_boundaries(z, t) ==
    LET w == Midnight(Wall(z, t)) IN
    [yesterday |-> Utc(z, w - DAY, 0),
     today     |-> Utc(z, w, Fold(z, t)),
     tomorrow  |-> Utc(z, w + DAY, 0)]

(* Mutant: the boundary instant belongs to both days.                      *)
ReportOfClosed(z, t, day) ==
    LET b == day_boundaries(z, t)
        start == IF day = "today" THEN b.today ELSE b.yesterday
        end == IF day = "today" THEN b.tomorrow ELSE b.today
    IN  {i \in Instants : start <= i /\ i <= end}

(* The redemptions a report lists: redeemed__dt__gte=start,                *)
(* redeemed__dt__lt=end.                                                   *)
ReportOf(z, t, day) ==
    LET b == day_boundaries(z, t)
        start == IF day = "today" THEN b.today ELSE b.yesterday
        end == IF day = "today" THEN b.tomorrow ELSE b.today
    IN  {i \in Instants : start <= i /\ i < end}

(* The page of view_redeemed_tickets.py lists both days in one query and   *)
(* tells them apart by the instant of midnight.                            *)
PageOf(z, t, day) ==
    LET b == day_boundaries(z, t)
        listed == {i \in Instants : b.yesterday <= i /\ i < b.tomorrow}
    IN  IF day = "today" THEN {i \in listed : i >= b.today}
                         ELSE {i \in listed : i < b.today}

Init == zone \in Zones /\ now = 2 * DAY

Tick ==
    /\ now < Horizon
    /\ now' = now + 1
    /\ UNCHANGED zone

Next == Tick

Spec == Init /\ [][Next]_vars

-----------------------------------------------------------------------------
(* Properties.                                                             *)

(* The date on the wall.                                                   *)
Date(z, t) == Wall(z, t) \div DAY

OnDay(d) == {i \in Instants : Date(zone, i) = d}

(* Each report lists exactly the redemptions of that local date, on days   *)
(* of 23 and 25 hours too (README.md:61-62, report.py:11-18).              *)
ReportsAreDays ==
    /\ ReportOf(zone, now, "today") = OnDay(Date(zone, now))
    /\ ReportOf(zone, now, "yesterday") = OnDay(Date(zone, now) - 1)

(* So they do wherever no midnight occurs twice.                           *)
PlainDays ==
    (\A w \in Repeated(zone) : w % DAY # 0) => ReportsAreDays

(* Whatever the zone does, a redemption of today or of yesterday is in one *)
(* of the two reports and not in both, and one made this very hour is in   *)
(* today's; the page and the reports sent to partners agree                *)
(* (api/__init__.py:19, view_redeemed_tickets.py:31-42).                   *)
ReportedOnce ==
    LET today == ReportOf(zone, now, "today")
        yesterday == ReportOf(zone, now, "yesterday")
    IN  /\ today \cap yesterday = {}
        /\ OnDay(Date(zone, now)) \cup OnDay(Date(zone, now) - 1)
             = today \cup yesterday
        /\ now \in today
        /\ PageOf(zone, now, "today") = today
        /\ PageOf(zone, now, "yesterday") = yesterday
=============================================================================
