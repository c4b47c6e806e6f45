------------------------------ MODULE Anomaly -------------------------------
(***************************************************************************)
(* EWMADetector.feed (monitoring/anomaly.py:36-72) in fixed point: a mean  *)
(* is a number of 1/Scale, a variance one of 1/Scale^2, each rounded down  *)
(* where the code rounds to a float.  The code keeps the deviation, the    *)
(* root of the variance, and compares it with others; the square of the    *)
(* comparison is made here.  alpha is 0.1 and threshold 3.0, the defaults  *)
(* AnomalyEngine.check leaves in place.                                    *)
(***************************************************************************)
EXTENDS Integers

CONSTANTS Scale,              \* precision: parts of one packet per second
          Warmup              \* samples before detection starts: 10

ASSUME AnomalyAssumption == Scale \in Nat /\ Scale >= 10 /\ Warmup \in Nat \ {0, 1}

Detectors   == [count : Nat, mean : Nat, var : Nat]
NewDetector == [count |-> 0, mean |-> 0, var |-> 0]

Smooth(new, old) == (new + 9 * old) \div 10
Dev(d, x) == x * Scale - d.mean

\* Mutated forms of Feed: the deviation is not squared, never learns.
FeedPlain(d, x) ==
  [count |-> d.count + 1,
   mean  |-> IF d.count = 0 THEN x * Scale ELSE Smooth(x * Scale, d.mean),
   var   |-> IF d.count = 0 THEN 0 ELSE Smooth(Dev(d, x), d.var)]
FeedBlind(d, x) ==
  [count |-> d.count + 1,
   mean  |-> IF d.count = 0 THEN x * Scale ELSE Smooth(x * Scale, d.mean),
   var   |-> 0]

\* The first sample is the mean; later ones move mean and variance, the variance
\* by the distance from the mean before.
Feed(d, x) ==
  [count |-> d.count + 1,
   mean  |-> IF d.count = 0 THEN x * Scale ELSE Smooth(x * Scale, d.mean),
   var   |-> IF d.count = 0 THEN 0 ELSE Smooth(Dev(d, x) * Dev(d, x), d.var)]

\* abs(value - prev_ewma) / max(prev_sigma, prev_ewma * 0.01 + 1.0) > 3.0
Exceeds(d, x) ==
  LET e == Dev(d, x)
  IN  /\ 100 * e > 3 * (d.mean + 100 * Scale) \/ -100 * e > 3 * (d.mean + 100 * Scale)
      /\ e * e > 9 * d.var

\* A mutated form of Anomalous: no least deviation of 1% and one packet.
AnomalousNoFloor(d, x) ==
  /\ d.count > 0 /\ d.count + 1 >= Warmup
  /\ Dev(d, x) * Dev(d, x) > 9 * d.var

\* Another: the sample is scored by what it has already moved.
AnomalousLate(d, x) == d.count > 0 /\ d.count + 1 >= Warmup /\ Exceeds(Feed(d, x), x)

\* What feed returns for sample x: the first one is never an anomaly.
Anomalous(d, x) == d.count > 0 /\ d.count + 1 >= Warmup /\ Exceeds(d, x)
=============================================================================
