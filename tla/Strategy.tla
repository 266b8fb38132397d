---- MODULE Strategy ----
(***************************************************************************)
(* How many nodes a batch may take: internal/config's Fraction and         *)
(* Strategy.  Percentages are whole numbers here, so the ceiling of        *)
(* total * percent / 100 is exact integer arithmetic.                      *)
(***************************************************************************)
EXTENDS Naturals

\* A fraction is a share of a total ("10%") or a plain count ("3").
Fraction == [percent : BOOLEAN, n : Nat]

\* A strategy: whether firstBatch was written, the two sizes, whether a
\* promote is needed after batch 1, whether waves order the rollout, whether
\* the soak has a duration, and how many soak checks may fail.
Strategies == [firstSet : BOOLEAN, first : Fraction, size : Fraction,
               pauseFirst : BOOLEAN, waves : BOOLEAN,
               soak : BOOLEAN, limit : Nat]

AtMost(n, bound) == IF n > bound THEN bound ELSE n
AtLeast(n, bound) == IF n < bound THEN bound ELSE n

\* Mutant of Of: a percentage is rounded down.
OfFloor(f, total) ==
  IF f.percent THEN (total * f.n) \div 100 ELSE AtMost(f.n, total)

\* The number of items out of total: zero of nothing, a count capped at the
\* total, a non-zero percentage rounded up and never below one.
Of(f, total) ==
  IF total = 0 \/ f.n = 0 THEN 0
  ELSE IF f.percent
       THEN AtMost(AtLeast((total * f.n + 99) \div 100, 1), total)
       ELSE AtMost(f.n, total)

\* How many of total nodes batch k (from 1) takes.
BatchFor(st, k, total) ==
  IF k = 1 /\ st.firstSet THEN Of(st.first, total) ELSE Of(st.size, total)

====
