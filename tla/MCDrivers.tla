----------------------------- MODULE MCDrivers -----------------------------
(* An instance of Drivers for model checking: one time of the last century *)
(* and one the probe refuses, trims at the ends of their ranges.           *)
EXTENDS Drivers, TLC

Time(y, m, d, h) == [sec |-> 59, min |-> 30, hour |-> h, mday |-> d, mon |-> m,
                     year |-> y, wday |-> 6]
TwoTimes == {Time(99, 11, 31, 23), Time(200, 1, 28, 19)}
Ppm == {-30, 20}
Farads == {2500, 18100}

Either == Permutations(Callers) \cup Permutations(Timers)
=============================================================================
