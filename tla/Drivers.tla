------------------------------ MODULE Drivers ------------------------------
(***************************************************************************)
(* The two small drivers of the board, the timer module and the clock.     *)
(* They share nothing: part says which one runs.                           *)
(***************************************************************************)
EXTENDS Integers, FiniteSets

CONSTANTS Callers, Timers, MaxStarts, Nobody
CONSTANTS Class, Trimmers, Prober, Times, Digital, Analog, MaxFailedSends

ASSUME TimersAssumption == IsFiniteSet(Callers) /\ Nobody \notin Nat

(* What the rtc class lets through: rtc_valid_tm wants the fields in range,*)
(* and two digits are enough for the century.                              *)
Years == 70..8099
AllTimes == [sec : 0..59, min : 0..59, hour : 0..23, mday : 1..31,
             mon : 0..11, year : Years, wday : 0..6]

\* The chip comes with some time its probe accepts.
ASSUME ClockAssumption ==
    /\ Times \subseteq AllTimes
    /\ \E tm \in Times : tm.year < 200
    /\ Digital \subseteq Int /\ Analog \subseteq Int

VARIABLES part,
    timer_list_head, idOf, pending, firing, timer_status, pc, id, entry,
    expired, wrong, odd,
    chip, bound, job, failures, asked, lost

MT == INSTANCE MultTime
RX == INSTANCE RtcX1226

ofTimers == <<timer_list_head, idOf, pending, firing, timer_status, pc, id,
              entry, expired, wrong, odd>>
ofClock == <<chip, bound, job, failures, asked, lost>>
driversVars == <<part, ofTimers, ofClock>>

DriversInit == part \in {"timers", "clock"} /\ MT!Init /\ RX!Init

TimersStep == part = "timers" /\ MT!Next /\ UNCHANGED <<part, ofClock>>
ClockStep == part = "clock" /\ RX!Next /\ UNCHANGED <<part, ofTimers>>

DriversNext == TimersStep \/ ClockStep

DriversSpec == DriversInit /\ [][DriversNext]_driversVars

(* The properties of the two modules, stated and explained there. *)
ReportsExpired == MT!ReportsExpired
EndMeansStored == RX!EndMeansStored
ReadsBack == RX!ReadsBack
=============================================================================
