------------------------------ MODULE Backoff ------------------------------
(***************************************************************************)
(* The retry delay of a failing controller (controller/backoff.rs).        *)
(*                                                                         *)
(* An Option<Duration> is a set with at most one element: {} is None and   *)
(* {d} is Some(d).  Durations are naturals up to DurationMax, where the    *)
(* code's saturating multiplication sticks.  A jitter factor is a number   *)
(* of units of 1/JitterUnit; NotANumber stands for a float's NaN.  The     *)
(* jittered delay is computed in f64 seconds, so it is a set of outcomes:  *)
(* every duration that rounding may give, and a panic.                     *)
(***************************************************************************)
EXTENDS Integers, FiniteSetsExt

CONSTANTS DurationMax,  \* Duration::MAX
          FloatMax,     \* the longest delay that f64 seconds keep to the unit:
                        \* about 2^20 seconds, of a mantissa of 53 bits, in ns
          JitterUnit,   \* the fixed-point scale of the f64 factors
          NotANumber    \* f64::NAN

ASSUME BackoffAssumption ==
    /\ DurationMax \in Nat
    /\ FloatMax \in Nat /\ FloatMax < DurationMax
    /\ JitterUnit \in Nat \ {0}
    /\ NotANumber \notin Int

SaturatingMul(d, n) == Min({d * n, DurationMax})

NoBackoff == [kind |-> "none", base |-> 0, max |-> 0, jitter |-> 0]

(* Faulty variant: the cap is only looked at before a turn of the loop. *)
DoubledPastCap(base, max, turns) ==
    LET delay[k \in 0 .. turns] ==
          IF k = 0 THEN Min({base, max})
          ELSE IF delay[k - 1] >= max THEN delay[k - 1]
          ELSE SaturatingMul(delay[k - 1], 2)
    IN  delay[turns]

(* The value of `delay` after k turns of the doubling loop. *)
Doubled(base, max, turns) ==
    LET delay[k \in 0 .. turns] ==
          IF k = 0 THEN Min({base, max})
          ELSE IF delay[k - 1] >= max \/ Min({base, max}) = 0 THEN delay[k - 1]
          ELSE Min({SaturatingMul(delay[k - 1], 2), max})
    IN  delay[turns]

Delay(backoff, consecutiveErrors) ==
    LET n == Max({consecutiveErrors, 1})
    IN  CASE backoff.kind = "none" -> {}
          [] backoff.kind = "linear" ->
               {Min({SaturatingMul(backoff.base, n), backoff.max})}
          [] backoff.kind = "exponential" ->
               {Doubled(backoff.base, backoff.max, n - 1)}

(* Faulty variant: only NaN is mapped. *)
UnitUnclamped(x) == IF x = NotANumber THEN 0 ELSE x

(* The f64 clamp to 0.0 .. 1.0, in units of 1/JitterUnit. *)
Unit(x) == IF x = NotANumber THEN 0 ELSE Max({0, Min({x, JitterUnit})})

(* Duration::mul_f64 panics on a product below zero or past DurationMax,    *)
(* which is 2^64 seconds for the f64 next to it.                            *)
Panic == DurationMax + 1

(* How far an f64 product may be from the exact one: rounding to a unit      *)
(* leaves less than one, and the mantissa a fixed share of a longer delay.   *)
Slack(d) == 1 + (d \div (FloatMax + 1))

(* d.mul_f64(num / den): every outcome that is near enough. *)
Scaled(d, num, den) ==
    IF d * num < 0 THEN {Panic}
    ELSE {j \in 0 .. Panic :
            /\ j * den < d * num + Slack(d) * den
            /\ j = Panic \/ (j + Slack(d)) * den > d * num}

(* The outcomes of d * (1 - jitter * r). *)
Jittered(backoff, consecutiveErrors, r) ==
    LET jitter == IF backoff.kind = "exponential" THEN Unit(backoff.jitter) ELSE 0
        scale  == JitterUnit * JitterUnit
    IN  UNION {Scaled(d, scale - jitter * Unit(r), scale) :
                 d \in Delay(backoff, consecutiveErrors)}

-----------------------------------------------------------------------------
(* The closed form of the doc of Backoff: base * n, or base * 2^(n - 1),    *)
(* capped at max, for the powers of two given as a function.                *)
IsClosedForm(backoff, consecutiveErrors, power) ==
    LET n == Max({consecutiveErrors, 1})
    IN  Delay(backoff, consecutiveErrors) =
          CASE backoff.kind = "none" -> {}
            [] backoff.kind = "linear" -> {Min({backoff.base * n, backoff.max})}
            [] backoff.kind = "exponential" ->
                 {Min({backoff.base * power[n - 1], backoff.max})}

(* For a sample r the jittered delay lies between (1 - jitter) * delay and  *)
(* delay, but for the rounding; only exponential backoff has jitter.  Up to *)
(* FloatMax it is at most the delay, and only a delay within a rounding of  *)
(* DurationMax can end in a panic.                                          *)
OnlyShortens(backoff, consecutiveErrors, r) ==
    LET delay    == Delay(backoff, consecutiveErrors)
        jittered == Jittered(backoff, consecutiveErrors, r)
    IN  /\ jittered = {} <=> delay = {}
        /\ \A d \in delay, j \in jittered :
              /\ d <= FloatMax => j \in 0 .. d
              /\ j < d + Slack(d)
              /\ backoff.kind = "linear" => d < j + Slack(d)
              /\ backoff.kind = "exponential" /\ backoff.jitter \in 0 .. JitterUnit =>
                    d * (JitterUnit - backoff.jitter) < (j + Slack(d)) * JitterUnit
=============================================================================
