------------------------------ MODULE RtcX1226 ------------------------------
(***************************************************************************)
(* rtc-x1226.c: the ISL12026 clock on an I2C bus.  Its registers take a    *)
(* write only after two writes to the status register (WEL, then RWEL),    *)
(* and a last one locks them again.  The sequences of the clock's class    *)
(* operations, of the two trim files in sysfs and of the probe run without *)
(* a lock of their own: a step is one transfer, which may fail.            *)
(*                                                                         *)
(* The lock of the rtc class lets one class operation run at a time.  Only *)
(* valid times arrive (rtc_valid_tm), trims are numbers already.           *)
(***************************************************************************)
EXTENDS Integers, Sequences

CONSTANTS
    Class,          \* the caller of the class operations
    Trimmers,       \* writers of atrim and dtrim
    Prober,         \* x1226_probe
    Times,          \* times to set: struct rtc_time, tm_year from 1900
    Digital,        \* dtrim values written, in ppm
    Analog,         \* atrim values written, in fF
    MaxFailedSends  \* bound: transfers that fail

Tasks == {Class, Prober} \cup Trimmers

VARIABLES
    chip,           \* the registers; sr holds the bits WEL and RWEL
    bound,          \* "absent", "probing", "registered", "bound"
    job,            \* of every task: the sequence it is in
    failures,       \* transfers that failed so far
    asked,          \* history: what the last accepted write meant
    lost            \* history: a value reported as set was not stored

vars == <<chip, bound, job, failures, asked, lost>>

Idle == [op |-> "none", value |-> 0, on |-> FALSE, step |-> 1,
         crossed |-> FALSE]
Active == {t \in Tasks : job[t].op # "none"}

-----------------------------------------------------------------------------
(* What the registers hold. *)

bin2bcd(v) == (v \div 10) * 16 + (v % 10)
bcd2bin(b) == (b \div 16) * 10 + (b % 16)
HighBit(b) == IF b >= 128 THEN b ELSE b + 128

Fields == {"sec", "min", "hour", "mday", "month", "year", "wday", "y2k"}
Compared == {"sec", "min", "hour", "mday", "month"}     \* CCR_SEC .. CCR_MONTH

ClockRegisters(tm) ==
    [sec |-> bin2bcd(tm.sec), min |-> bin2bcd(tm.min),
     hour |-> HighBit(bin2bcd(tm.hour)), mday |-> bin2bcd(tm.mday),
     month |-> bin2bcd(tm.mon + 1), year |-> bin2bcd(tm.year % 100),
     wday |-> tm.wday % 8, y2k |-> bin2bcd((tm.year + 1900) \div 100)]

AlarmRegisters(tm) ==
    [f \in Fields |-> IF f \in Compared THEN HighBit(ClockRegisters(tm)[f])
                      ELSE ClockRegisters(tm)[f]]

\* Variant: a year of two digits, counted from 1900.
x1226_get_datetime_TwoDigits(buf) ==
    [sec |-> bcd2bin(buf.sec), min |-> bcd2bin(buf.min),
     hour |-> bcd2bin(buf.hour % 64), mday |-> bcd2bin(buf.mday),
     mon |-> bcd2bin(buf.month) - 1, year |-> bcd2bin(buf.year),
     wday |-> buf.wday]

x1226_get_datetime(buf) ==
    [sec |-> bcd2bin(buf.sec), min |-> bcd2bin(buf.min),
     hour |-> bcd2bin(buf.hour % 64), mday |-> bcd2bin(buf.mday),
     mon |-> bcd2bin(buf.month) - 1,
     year |-> bcd2bin(buf.year) + bcd2bin(buf.y2k) * 100 - 1900,
     wday |-> buf.wday]

\* The enable bits are masked out of the alarm's registers.
x1226_rtc_read_alarm(buf) ==
    x1226_get_datetime([f \in Fields |-> IF f \in Compared THEN buf[f] % 128
                                         ELSE buf[f]])

x1226_set_dtrim(ppm) ==
    CASE ppm = -30 -> 7 [] ppm = -20 -> 5 [] ppm = -10 -> 6 [] ppm = 0 -> 0
      [] ppm = 10 -> 2 [] ppm = 20 -> 1 [] ppm = 30 -> 3 [] OTHER -> -1

x1226_get_dtrim(dtr) ==
    LET trim == (dtr % 2) * 20 + ((dtr \div 2) % 2) * 10
    IN  IF dtr >= 4 THEN -trim ELSE trim

\* Steps of 250 fF between 3 and 18.75 pF.
Rounded(fF) ==
    LET steps == ((fF + 125) \div 250) * 250
    IN  IF steps > 18750 THEN 18750 ELSE IF steps < 3000 THEN 3000 ELSE steps

x1226_set_atrim(fF) == ((fF - 11000) \div 250) % 64     \* six bits
x1226_get_atrim(atr) == (IF atr >= 32 THEN atr - 64 ELSE atr) * 250 + 11000

\* The probe takes a chip whose registers make a time of 1900 to 2099.
x1226_validate_client(buf) ==
    /\ bcd2bin(buf.y2k) \in 19 .. 20
    /\ buf.wday \in 0 .. 6
    /\ bcd2bin(buf.year) \in 0 .. 99
    /\ bcd2bin(buf.month) \in 0 .. 12
    /\ bcd2bin(buf.mday) \in 0 .. 31
    /\ bcd2bin(buf.hour % 128) \in 0 .. 23
    /\ bcd2bin(buf.min) \in 0 .. 59
    /\ bcd2bin(buf.sec) \in 0 .. 59

-----------------------------------------------------------------------------
(* The sequences. *)

Unlock == <<"wel", "rwel", "data">>

x1226_set_reg == Unlock \o <<"diswe">>

\* Variant: RWEL, which the write has cleared, is not set again.
SequenceOnce(op) ==
    IF op = "alarm" THEN Unlock \o <<"al0e", "diswe">> ELSE x1226_set_reg

x1226_set_datetime(op) ==
    IF op = "alarm" THEN Unlock \o <<"rwel", "al0e", "diswe">>
    ELSE x1226_set_reg

Unlocked(c) == c.sr = {"WEL", "RWEL"}

\* A write to the nonvolatile registers clears RWEL.
Data(c, j) ==
    CASE j.op = "clock" ->
             [c EXCEPT !.clock = ClockRegisters(j.value), !.rtcf = FALSE]
      [] j.op = "alarm" ->
             [c EXCEPT !.alarm = AlarmRegisters(j.value), !.sr = {"WEL"}]
      [] j.op = "dtr" ->
             [c EXCEPT !.dtr = x1226_set_dtrim(j.value), !.sr = {"WEL"}]
      [] j.op = "atr" ->
             [c EXCEPT !.atr = x1226_set_atrim(Rounded(j.value)),
                       !.sr = {"WEL"}]

i2c_master_send(c, j, what) ==
    CASE what = "wel" -> [c EXCEPT !.sr = {"WEL"}]
      [] what = "rwel" ->
             [c EXCEPT !.sr = IF "WEL" \in @ THEN @ \cup {"RWEL"} ELSE @]
      [] what = "diswe" -> [c EXCEPT !.sr = {}]
      [] what = "data" -> IF Unlocked(c) THEN Data(c, j) ELSE c
      [] what = "al0e" ->
             IF Unlocked(c) THEN [c EXCEPT !.al0e = j.on, !.sr = {"WEL"}]
             ELSE c

Meant(c, j, what) ==
    IF ~Unlocked(c) THEN asked
    ELSE IF what = "al0e" THEN [asked EXCEPT !.al0e = j.on]
    ELSE IF what # "data" THEN asked
    ELSE [asked EXCEPT ![j.op] = IF j.op = "atr" THEN Rounded(j.value)
                                 ELSE j.value]

Stored(c, j) ==
    CASE j.op = "clock" -> c.clock = ClockRegisters(j.value)
      [] j.op = "alarm" -> c.alarm = AlarmRegisters(j.value) /\ c.al0e = j.on
      [] j.op = "dtr" -> c.dtr = x1226_set_dtrim(j.value)
      [] j.op = "atr" -> c.atr = x1226_set_atrim(Rounded(j.value))

-----------------------------------------------------------------------------

FirstTime == CHOOSE tm \in Times : tm.year < 200
FixedTime == [sec |-> 0, min |-> 0, hour |-> 0, mday |-> 1, mon |-> 6,
              year |-> 110, wday |-> 4]

Init ==
    /\ chip = [sr |-> {}, clock |-> ClockRegisters(FirstTime),
               alarm |-> AlarmRegisters(FirstTime), al0e |-> FALSE,
               dtr |-> 0, atr |-> 0, rtcf |-> TRUE]
    /\ bound = "absent"
    /\ job = [t \in Tasks |-> Idle]
    /\ failures = 0
    /\ asked = [clock |-> FirstTime, alarm |-> FirstTime, al0e |-> FALSE,
                dtr |-> 0, atr |-> 11000]
    /\ lost = FALSE

Begin(t, op, value, on) ==
    /\ job[t].op = "none"
    /\ job' = [u \in Tasks |->
                  IF u = t THEN [op |-> op, value |-> value, on |-> on,
                                 step |-> 1, crossed |-> Active # {}]
                  ELSE IF u \in Active THEN [job[u] EXCEPT !.crossed = TRUE]
                  ELSE job[u]]
    /\ UNCHANGED <<chip, failures, asked, lost>>

CanFail == failures < MaxFailedSends

\* Reads of the bus that fail end the probe like a chip that is not right.
x1226_probe ==
    /\ bound = "absent"
    /\ bound' = IF x1226_validate_client(chip.clock) THEN "probing" ELSE bound
    /\ UNCHANGED <<chip, job, failures, asked, lost>>

\* From here the class operations may come, beside the rest of the probe.
rtc_device_register ==
    /\ bound = "probing"
    /\ bound' = "registered"
    /\ IF chip.rtcf THEN Begin(Prober, "clock", FixedTime, FALSE)
       ELSE UNCHANGED <<chip, job, failures, asked, lost>>

\* A status that cannot be read is logged.
StatusUnread ==
    /\ bound = "probing"
    /\ CanFail
    /\ bound' = "registered"
    /\ failures' = failures + 1
    /\ UNCHANGED <<chip, job, asked, lost>>

\* The files may fail; rtc_device_unregister waits for a class operation.
x1226_sysfs_register ==
    /\ bound = "registered"
    /\ job[Prober].op = "none"
    /\ \/ bound' = "bound"
       \/ job[Class].op = "none" /\ bound' = "absent"
    /\ UNCHANGED <<chip, job, failures, asked, lost>>

\* rtc_device_unregister and device_remove_file wait for who is inside.
x1226_remove ==
    /\ bound = "bound"
    /\ Active = {}
    /\ bound' = "absent"
    /\ UNCHANGED <<chip, job, failures, asked, lost>>

Registered == bound \in {"registered", "bound"}

x1226_rtc_set_time(tm) ==
    Registered /\ Begin(Class, "clock", tm, FALSE) /\ UNCHANGED bound

x1226_rtc_set_alarm(tm, on) ==
    Registered /\ Begin(Class, "alarm", tm, on) /\ UNCHANGED bound

x1226_sysfs_store_dtrim(t, ppm) ==
    /\ bound = "bound"
    /\ x1226_set_dtrim(ppm) >= 0
    /\ Begin(t, "dtr", ppm, FALSE)
    /\ UNCHANGED bound

x1226_sysfs_store_atrim(t, fF) ==
    bound = "bound" /\ Begin(t, "atr", fF, FALSE) /\ UNCHANGED bound

Send(t) ==
    LET j == job[t]
        steps == x1226_set_datetime(j.op)
        what == steps[j.step]
        c == i2c_master_send(chip, j, what)
        last == j.step = Len(steps)
    IN  /\ t \in Active
        /\ chip' = c
        /\ asked' = Meant(chip, j, what)
        /\ job' = [job EXCEPT ![t] = IF last THEN Idle
                                     ELSE [j EXCEPT !.step = @ + 1]]
        /\ lost' = (lost \/ (last /\ ~j.crossed /\ ~Stored(c, j)))
        /\ UNCHANGED <<bound, failures>>

\* -EIO, and the chip is left as it is.
SendFails(t) ==
    /\ t \in Active
    /\ CanFail
    /\ failures' = failures + 1
    /\ job' = [job EXCEPT ![t] = Idle]
    /\ UNCHANGED <<chip, bound, asked, lost>>

Next ==
    \/ x1226_probe
    \/ rtc_device_register
    \/ StatusUnread
    \/ x1226_sysfs_register
    \/ x1226_remove
    \/ \E tm \in Times : x1226_rtc_set_time(tm)
    \/ \E tm \in Times, on \in BOOLEAN : x1226_rtc_set_alarm(tm, on)
    \/ \E t \in Trimmers, ppm \in Digital : x1226_sysfs_store_dtrim(t, ppm)
    \/ \E t \in Trimmers, fF \in Analog : x1226_sysfs_store_atrim(t, fF)
    \/ \E t \in Tasks : Send(t) \/ SendFails(t)

Spec == Init /\ [][Next]_vars

-----------------------------------------------------------------------------
(* Properties. *)

(* A sequence that runs to its end and that no other sequence crossed has  *)
(* stored its value: the clock, the alarm with its enable bit, or a trim.  *)
(* Sequences that cross take the write enable from each other and the chip *)
(* ignores the write that follows, which nothing in the driver notices.    *)
EndMeansStored == ~lost

(* What is read back is what the last accepted write meant: the time of    *)
(* 1970 to 9999, the alarm without its enable bits, both trims.  A time up *)
(* to 2099 is one the next probe accepts; from 2100 on it refuses the chip *)
(* (477), though x1226_rtc_set_time stores such a time.                    *)
ReadsBack ==
    /\ x1226_get_datetime(chip.clock) = asked.clock
    /\ x1226_rtc_read_alarm(chip.alarm) = asked.alarm
    /\ x1226_get_dtrim(chip.dtr) = asked.dtr
    /\ x1226_get_atrim(chip.atr) = asked.atr
    /\ asked.clock.year < 200 => x1226_validate_client(chip.clock)
=============================================================================
