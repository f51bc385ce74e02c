------------------------------- MODULE Clock -------------------------------
(***************************************************************************)
(* The clocks: the date of the CMOS clock read at boot (lizard/rtc.c), the *)
(* wall and monotonic clocks advanced by every timer tick (lizard/ktime.c, *)
(* lizard/pit.c) and the stamp FAT16 puts on directory entries             *)
(* (fat16_dos_now).                                                        *)
(*                                                                         *)
(* chip is the CMOS clock itself (hardware): its registers in BCD, running *)
(* on while the kernel counts ticks.  The kernel reads the registers one   *)
(* by one and never looks at the update-in-progress bit, so that the chip  *)
(* may move on in the middle; torn records that it did.  The units of time *)
(* are constants, so that few ticks make a second and the seconds of a     *)
(* century fit TLC's integers.                                             *)
(***************************************************************************)
EXTENDS Integers, Sequences, FiniteSets

CONSTANTS
    SEC_PER_MIN, MIN_PER_HOUR, HOUR_PER_DAY,        \* 60, 60, 24
    NSEC_PER_SEC,
    NSEC_PER_MSEC,
    BootDate,       \* what the chip may hold at boot, each field in binary
    MaxTicks        \* timer ticks after boot

ASSUME ClockAssumption ==
    /\ {SEC_PER_MIN, MIN_PER_HOUR, HOUR_PER_DAY, NSEC_PER_SEC, NSEC_PER_MSEC, MaxTicks} \subseteq Nat \ {0}
    /\ NSEC_PER_SEC % NSEC_PER_MSEC = 0
    /\ \A d \in BootDate : d.month \in 1 .. 12 /\ d.year \in 0 .. 99

VARIABLES
    chip,           \* registers of the CMOS clock, BCD
    wall_clock,
    mono_clock,
    pit_ticks,
    torn

clockVars == <<chip, wall_clock, mono_clock, pit_ticks, torn>>

Off == [sec |-> 0, nsec |-> 0]
HOUR == MIN_PER_HOUR * SEC_PER_MIN                  \* 3600
DAY == HOUR_PER_DAY * HOUR                          \* 86400
MSEC_PER_SEC == NSEC_PER_SEC \div NSEC_PER_MSEC

-----------------------------------------------------------------------------
(* The chip (hardware). *)

bcd_to_binary(b) == ((b \div 16) * 10) + (b % 16)
binary_to_bcd(n) == ((n \div 10) * 16) + (n % 10)

Field == {"seconds", "minutes", "hours", "day", "month", "year"}
Registers(d) == [f \in Field |-> binary_to_bcd(d[f])]
Binary(r) == [f \in Field |-> bcd_to_binary(r[f])]

\* The chip's own calendar has a leap day every fourth year.
ChipDays(d) == IF d.month = 2 THEN (IF d.year % 4 = 0 THEN 29 ELSE 28)
               ELSE IF d.month \in {4, 6, 9, 11} THEN 30 ELSE 31

ChipSecond(r) ==
    LET d == Binary(r)
        c1 == d.seconds = SEC_PER_MIN - 1
        c2 == c1 /\ d.minutes = MIN_PER_HOUR - 1
        c3 == c2 /\ d.hours = HOUR_PER_DAY - 1
        c4 == c3 /\ d.day = ChipDays(d)
        c5 == c4 /\ d.month = 12
    IN  Registers([seconds |-> IF c1 THEN 0 ELSE d.seconds + 1,
                   minutes |-> IF c2 THEN 0 ELSE IF c1 THEN d.minutes + 1 ELSE d.minutes,
                   hours   |-> IF c3 THEN 0 ELSE IF c2 THEN d.hours + 1 ELSE d.hours,
                   day     |-> IF c4 THEN 1 ELSE IF c3 THEN d.day + 1 ELSE d.day,
                   month   |-> IF c5 THEN 1 ELSE IF c4 THEN d.month + 1 ELSE d.month,
                   year    |-> IF c5 THEN (d.year + 1) % 100 ELSE d.year])

-----------------------------------------------------------------------------
(* Calendar to seconds and back. *)

is_leap_year(y) == (y % 4 = 0 /\ y % 100 # 0) \/ y % 400 = 0

DaysBefore == <<0, 31, 59, 90, 120, 151, 181, 212, 243, 273, 304, 334>>
DaysBeforeLeap == <<0, 31, 60, 91, 121, 152, 182, 213, 244, 274, 305, 335>>
days_before_month(y, m) == IF is_leap_year(y) THEN DaysBeforeLeap[m] ELSE DaysBefore[m]

days_before_year_every4(y) ==
    LET years == y - 1970 IN (years * 365) + (years \div 4)
days_before_year(y) ==
    LET years == y - 1970
    IN  ((years * 365) + ((years + 1) \div 4) - ((years + 69) \div 100)) + ((years + 369) \div 400)

rtc_to_timespec(t) ==
    LET year == 2000 + t.year
        days == days_before_year(year) + days_before_month(year, t.month) + t.day - 1
    IN  [sec |-> days * DAY + t.hours * HOUR + t.minutes * SEC_PER_MIN + t.seconds, nsec |-> 0]

mdays == <<31, 28, 31, 30, 31, 30, 31, 31, 30, 31, 30, 31>>

\* The days the years before y take: the loop subtracts them one by one.
YearsTake == [y \in 1970 .. 2110 |-> (y - 1970) * 365 + Cardinality({x \in 1970 .. y - 1 : is_leap_year(x)})]

\* Whole years from 1970 are taken off, then whole months.
timespec_split(ts) ==
    LET rem == ts.sec % DAY
        day == ts.sec \div DAY
        y == CHOOSE x \in 1970 .. 2109 : YearsTake[x] <= day /\ day < YearsTake[x + 1]
        dim(m) == IF m = 2 /\ is_leap_year(y) THEN 29 ELSE mdays[m]
        months[m \in 1 .. 12] ==
            IF m = 1 THEN [month |-> 1, days |-> day - YearsTake[y]]
            ELSE LET p == months[m - 1]
                 IN  IF p.days < dim(p.month) THEN p ELSE [month |-> p.month + 1, days |-> p.days - dim(p.month)]
    IN  [year |-> y, month |-> months[12].month, day |-> months[12].days + 1,
         hours |-> rem \div HOUR, minutes |-> (rem % HOUR) \div SEC_PER_MIN, seconds |-> rem % SEC_PER_MIN]

timespec_normalize(ts) ==
    [sec |-> ts.sec + (ts.nsec \div NSEC_PER_SEC), nsec |-> ts.nsec % NSEC_PER_SEC]

timespec_to_ms(ts) == ts.sec * MSEC_PER_SEC + (ts.nsec \div NSEC_PER_MSEC)
time_uptime_ms == timespec_to_ms(mono_clock)

\* The date and time words of a directory entry, 16 bits each.
fat16_dos_now_dayfirst(ts) ==
    LET c == timespec_split(ts)
    IN  <<((c.year - 1980) * 512 + c.day * 16 + c.month) % 65536,
          (c.hours * 2048 + c.minutes * 32 + (c.seconds \div 2)) % 65536>>
fat16_dos_now(ts) ==
    LET c == timespec_split(ts)
        y == IF c.year < 1980 THEN 1980 ELSE c.year
    IN  <<((y - 1980) * 512 + c.month * 32 + c.day) % 65536,
          (c.hours * 2048 + c.minutes * 32 + (c.seconds \div 2)) % 65536>>

-----------------------------------------------------------------------------

ClockInit ==
    /\ chip = <<>>
    /\ wall_clock = Off
    /\ mono_clock = Off
    /\ pit_ticks = 0
    /\ torn = FALSE

\* The registers are read in this order.
ReadOrder == <<"seconds", "minutes", "hours", "day", "month", "year">>

\* The fields behind number k are read after the chip moved on.
rtc_read(r, k) ==
    [f \in Field |-> IF \E i \in 1 .. k : ReadOrder[i] = f THEN r[f] ELSE ChipSecond(r)[f]]

\* k = 6: the chip did not move.
time_init(date, k) ==
    LET r == Registers(date)
    IN  /\ chip = <<>>
        /\ wall_clock' = rtc_to_timespec(Binary(rtc_read(r, k)))
        /\ mono_clock' = Off
        /\ chip' = IF k = 6 THEN r ELSE ChipSecond(r)
        /\ torn' = (k # 6)
        /\ UNCHANGED pit_ticks

time_tick_ns(ts) == timespec_normalize([ts EXCEPT !.nsec = @ + NSEC_PER_MSEC])

isr_pit_time ==
    /\ chip # <<>>
    /\ pit_ticks < MaxTicks
    /\ pit_ticks' = pit_ticks + 1
    /\ mono_clock' = time_tick_ns(mono_clock)
    /\ wall_clock' = time_tick_ns(wall_clock)
    /\ chip' = IF pit_ticks' % MSEC_PER_SEC = 0 THEN ChipSecond(chip) ELSE chip
    /\ UNCHANGED torn

ClockNext ==
    \/ \E date \in BootDate, k \in 1 .. 6 : time_init(date, k)
    \/ isr_pit_time

-----------------------------------------------------------------------------

\* The calendar computed from the seconds is the date the chip has reached on
\* its own, over ends of months and years and leap days: the two directions of
\* the conversion (the closed form of rtc_to_timespec, the loops of
\* timespec_split) and the carry of the ticks agree, and sys_uptime counts every
\* tick once.  Not when the registers were read across an update.
CalendarIsChips == chip # <<>> =>
    LET c == timespec_split(wall_clock)
        d == Binary(chip)
    IN  /\ time_uptime_ms = pit_ticks
        /\ wall_clock.nsec = mono_clock.nsec
        /\ ~torn => c.year % 100 = d.year /\ \A f \in Field \ {"year"} : c[f] = d[f]

\* A later stamp on a directory entry is never earlier, whatever the date read
\* at boot.
Later(a, b) == b[1] > a[1] \/ (b[1] = a[1] /\ b[2] >= a[2])
StampsNeverGoBack ==
    [][chip # <<>> => Later(fat16_dos_now(wall_clock), fat16_dos_now(wall_clock'))]_clockVars

=============================================================================
