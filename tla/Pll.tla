-------------------------------- MODULE Pll --------------------------------
(***************************************************************************)
(* PllDecoder (src/src/flux/pll.rs): the separator that turns the delays   *)
(* between flux transitions into bit cells.  It keeps an estimate of a     *)
(* cell's length and half of the last phase error.  All in nanoseconds.    *)
(***************************************************************************)
EXTENDS Integers

ClockCentre == 2000
ClockMin == 1800
ClockMax == 2200

NewPll == [clock |-> ClockCentre, pending |-> 0]

(* Rust's / on i64 rounds toward zero.                                     *)
Quotient(a, b) == IF a >= 0 THEN a \div b ELSE -((-a) \div b)
Clamped(x) == IF x < ClockMin THEN ClockMin ELSE IF x > ClockMax THEN ClockMax ELSE x

(* submit: what is pending after the zeros and the one it decodes, and how *)
(* far that moves the clock.  A delay of two to four cells pulls the clock *)
(* by a tenth of the error per cell, any other lets it drift back.         *)
Zeros(clock, sum) == (sum - clock \div 2) \div clock
Error(clock, sum) == sum - (Zeros(clock, sum) + 1) * clock
PulledWhole(clock, sum) ==   \* mutant: by a tenth of the error, not of the error per cell
    clock + Quotient(Error(clock, sum), 10)
Pulled(clock, sum) ==
    LET zeros == Zeros(clock, sum) IN
      clock + (IF zeros \in 1..3 THEN Quotient(Quotient(Error(clock, sum), zeros + 1), 10)
               ELSE Quotient(ClockCentre - clock, 10))

(* submit: the decoder after a delay, and the cells it gave: none, or so   *)
(* many zeros and a one.                                                   *)
Submit(pll, delay) ==
    LET sum == pll.pending + delay IN
      IF sum < pll.clock \div 2 THEN [pll |-> [pll EXCEPT !.pending = sum], cells |-> 0]
      ELSE [pll |-> [clock |-> Clamped(Pulled(pll.clock, sum)),
                     pending |-> Quotient(Error(pll.clock, sum), 2)],
            cells |-> Zeros(pll.clock, sum) + 1]

-----------------------------------------------------------------------------
(* A drive whose cells take between 1940 and 2060 ns (three per cent off), *)
(* and delays that are up to 150 ns too long or too short.                 *)
Speeds == 1940..2060
Shifts == -150..150

Within(x, bound) == -bound <= x /\ x <= bound
(* In lock with cells of that length: the errors of clock and phase are    *)
(* small, and not both of them in the same direction at once.              *)
InLock(pll, cell) ==
    LET off == cell - pll.clock IN
      /\ Within(pll.pending, 424) /\ Within(off, 92)
      /\ Within(pll.pending - 4 * off, 380)
      /\ Within(pll.pending + 8 * off, 966)
=============================================================================
