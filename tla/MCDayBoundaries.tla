-------------------------- MODULE MCDayBoundaries --------------------------
(* Instances of DayBoundaries for TLC: every zone with two given offsets   *)
(* and a change at any hour from 60 to 100, around two midnights.          *)
EXTENDS DayBoundaries

Both == {1, 2, -5, -4}

AllZones ==
    {z \in [before : Offsets, after : Offsets, at : 60..100] :
        z.after - z.before \in {-1, 0, 1}}
=============================================================================
