------------------------------ MODULE Progress ------------------------------
(***************************************************************************)
(* What the liveness theorems use of the natural numbers.                  *)
(***************************************************************************)
EXTENDS Integers

\* A natural number cannot fall for ever: a value m that is a natural number from
\* some time on, and then never rises in a step of v, changes no more in the end.
\* It holds of every behaviour when m depends on the variables v only, as it does
\* wherever this module is used, whatever the specification says; it is beyond the
\* provers, which have no induction over temporal formulas.
Settles(m, v) == <>[](m \in Nat) /\ <>[][m' <= m]_v => <>[][m' = m]_v
=============================================================================
