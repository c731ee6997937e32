----------------------------- MODULE Reputation -----------------------------
(***************************************************************************)
(* The reputation arithmetic of var/www/announce/lib.js.  Scores, floats   *)
(* between 0 and 1 in the code, are integers in ten-thousandths here, which*)
(* tells any two scores of the modelled vote counts apart.                 *)
(***************************************************************************)
EXTENDS Integers, SequencesExt

CONSTANT MaxVotes   \* bound: the votes of each kind a profile collects

ASSUME ReputationAssumption == MaxVotes \in Nat

Unit == 10000

\* The largest integer whose square does not exceed x, bit by bit (x < 2^30).
SquareRoot(x) ==
  LET Refine(k, bit) == IF (k + bit) * (k + bit) <= x THEN k + bit ELSE k
  IN  FoldLeft(Refine, 0, [i \in 1 .. 15 |-> 2 ^ (15 - i)])

\* Variant: the division by 1 + z*z/n is forgotten.
ConfidenceUndivided(pos, neg) ==
  LET n == pos + neg
      radicand == (1000 * pos + 1280) * n * n - 1600 * pos * neg - 1024 * n
  IN  IF n = 0 THEN 0
      ELSE (10 * SquareRoot(100 * ((10 * radicand) \div n))) \div n

\* Math.sqrt(phat + z*z/(2n) - z*((phat*(1-phat) + z*z/(4n))/n)) / (1 + z*z/n)
\* with z = 1.6 and phat = pos/n, over the common denominator n^3.
Confidence(pos, neg) ==
  LET n == pos + neg
      radicand == (1000 * pos + 1280) * n * n - 1600 * pos * neg - 1024 * n
  IN  IF n = 0 THEN 0
      ELSE (1000 * SquareRoot(100 * ((10 * radicand) \div n))) \div (100 * n + 256)

\* Every score the modelled profiles can have.
Score == [good \in 0 .. MaxVotes, bad \in 0 .. MaxVotes |-> Confidence(good, bad)]

\* Math.round of the score on the scale F, D, C, B, A = 0 .. 4.
Grade(score) == (4 * score + Unit \div 2) \div Unit

Reach == <<5, 10, 20, 45, 75>>   \* per cent of the candidates, by grade

\* How many of n candidates one broadcast is sent to.
SampleSize(n, score) == (n * Reach[Grade(score) + 1] + 50) \div 100
=============================================================================
