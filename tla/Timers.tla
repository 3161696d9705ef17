------------------------------- MODULE Timers --------------------------------
(* Timers (kernel/libhaplo/timer.c), and numbers as integers of the machine  *)
(* (utils.c). Clocks count seconds and parts of seconds; Million is how many *)
(* parts make a second.                                                      *)
EXTENDS Integers, Sequences, SequencesExt

CONSTANTS
  Million, Seconds, Steps,   \* a clock goes to Seconds, in steps
  Widths, MantissaBits       \* bits of unsigned types, and of a floating point number

VARIABLES
  clock,   \* [cpu_u, cpu_s, real]: parts of seconds gone by
  timer,   \* [cpu_u, cpu_s, real]: [sec, usec]
  begun,   \* the clock when the timer was started; <<>> when it was not
  stopped  \* the clock when it was stopped since

timerVars == <<clock, timer, begun, stopped>>

Counters == {"cpu_u", "cpu_s", "real"}
Clocks == [Counters -> 0..(Seconds * Million - 1)]

Split(t) == [sec |-> t \div Million, usec |-> t % Million]

Init ==
  /\ clock = [c \in Counters |-> 0]
  /\ timer = [c \in Counters |-> Split(0)]
  /\ begun = <<>> /\ stopped = <<>>

Tick ==
  /\ \E c \in Counters, more \in Steps :
       clock[c] + more < Seconds * Million /\ clock' = [clock EXCEPT ![c] = @ + more]
  /\ UNCHANGED <<timer, begun, stopped>>

haplo_timer_start ==
  /\ timer' = [c \in Counters |-> Split(clock[c])]
  /\ begun' = <<clock>> /\ stopped' = <<>>
  /\ UNCHANGED clock

\* Mutant of Since: a second is borrowed and not paid back.
SinceNoBorrow(now, then) ==
  IF now.usec < then.usec THEN [sec |-> now.sec - then.sec, usec |-> now.usec + Million - then.usec]
  ELSE [sec |-> now.sec - then.sec, usec |-> now.usec - then.usec]

Since(now, then) ==
  IF now.usec < then.usec
  THEN [sec |-> now.sec - (then.sec + 1), usec |-> now.usec + Million - then.usec]
  ELSE [sec |-> now.sec - then.sec, usec |-> now.usec - then.usec]

\* A timer holds when it was started or how long it has run: a second stop, which would take
\* the one for the other, is left out.
haplo_timer_stop ==
  /\ begun # <<>> /\ stopped = <<>>
  /\ timer' = [c \in Counters |-> Since(Split(clock[c]), timer[c])]
  /\ stopped' = <<clock>>
  /\ UNCHANGED <<clock, begun>>

Next == Tick \/ haplo_timer_start \/ haplo_timer_stop

timer_value_add(a, b) ==
  IF a.usec + b.usec >= Million
  THEN [sec |-> a.sec + b.sec + 1, usec |-> a.usec + b.usec - Million]
  ELSE [sec |-> a.sec + b.sec, usec |-> a.usec + b.usec]

\* Days, hours and minutes are printed from the first one that is not zero.
timer_print_value(sec) ==
  LET d == sec \div 86400
      h == (sec - d * 86400) \div 3600
      m == (sec - d * 86400 - h * 3600) \div 60
      all == <<d, h, m, sec - d * 86400 - h * 3600 - m * 60>>
  IN  IF d # 0 THEN all ELSE IF h # 0 THEN Tail(all) ELSE IF m # 0 THEN Tail(Tail(all))
      ELSE Tail(Tail(Tail(all)))

-----------------------------------------------------------------------------
(* Floating point numbers: integers and halves, in units of 1/2, that keep   *)
(* MantissaBits bits.                                                        *)
RECURSIVE Rounded(_)
Rounded(x) == IF x < 2 ^ (MantissaBits + 1) THEN x ELSE 2 * Rounded((x + 1) \div 2)

\* An integer as a floating point number: the largest of a wide type becomes the next power of 2.
Float(n) == IF n < 0 THEN -Rounded(2 * (-n)) ELSE Rounded(2 * n)

\* haplo_int, haplo_uint, haplo_ushort, haplo_ulong: [said, out], the information and the integer;
\* what the machine makes of a number out of its range may be anything of the type.
Converted(x, min, max) ==
  IF x < Float(min) THEN {[said |-> TRUE, out |-> min]}
  ELSE IF x > Float(max) THEN {[said |-> TRUE, out |-> max]}
  ELSE LET whole == IF x < 0 THEN -((-x) \div 2) ELSE x \div 2
       IN  IF whole \in min..max THEN {[said |-> Float(whole) # x, out |-> whole]}
           ELSE {[said |-> Float(out) # x, out |-> out] : out \in min..max}

haplo_int(x, w) == Converted(x, -(2 ^ (w - 1)), 2 ^ (w - 1) - 1)
haplo_uint(x, w) == Converted(x, 0, 2 ^ w - 1)

haplo_clamp(x, min, max) ==
  IF x > max THEN [said |-> TRUE, out |-> max]
  ELSE IF x < min THEN [said |-> TRUE, out |-> min] ELSE [said |-> FALSE, out |-> x]

-----------------------------------------------------------------------------
\* A timer that was stopped tells the time since it was started, and the two of the processor
\* add up to what is told for both.
TimeRight ==
  stopped # <<>> =>
    /\ \A c \in Counters : timer[c] = Split(stopped[1][c] - begun[1][c])
    /\ timer_value_add(timer["cpu_u"], timer["cpu_s"]) =
         Split(stopped[1]["cpu_u"] - begun[1]["cpu_u"] + stopped[1]["cpu_s"] - begun[1]["cpu_s"])

\* What is printed is the time.
PrintedRight ==
  \A t \in {0, 1, 59, 60, 61, 3599, 3600, 7325, 86399, 86400, 86461, 200000} :
    LET parts == timer_print_value(t)
        worth == <<86400, 3600, 60, 1>>
        sum == FoldLeft(LAMBDA s, k : s + parts[k] * worth[4 - Len(parts) + k], 0, [k \in DOMAIN parts |-> k])
    IN  sum = t /\ (Len(parts) > 1 => Head(parts) > 0)

\* A number becomes the integer that is next to it towards zero, or the end of the range it is
\* beyond, and is silently changed by none, but the power of two above the range of a type that
\* is wider than the mantissa.
ConvertedRight ==
  \A w \in Widths : \A x \in {Rounded(y) : y \in 0..(2 ^ (w + 2))} \cup {-y : y \in 0..(2 ^ w)} :
    LET Right(max, min, out) ==
          IF (x > 2 * max /\ out.out = max) \/ (x < 2 * min /\ out.out = min) THEN out.said
          ELSE out.out \in min..max /\ 2 * out.out - x \in -1..1 /\ (2 * out.out # x => out.said)
        high == 2 ^ w - 1
        clamped == haplo_clamp(x, 0, high)
    IN  /\ x # 2 ^ (w + 1) \/ w <= MantissaBits =>
             \A out \in haplo_uint(x, w) : Right(high, 0, out)
        /\ w <= MantissaBits =>
             \A out \in haplo_int(x, w) : Right(2 ^ (w - 1) - 1, -(2 ^ (w - 1)), out)
        /\ clamped.out \in 0..high /\ (clamped.out # x => clamped.said)
=============================================================================
