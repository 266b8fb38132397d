---- MODULE ControllerProofs ----
(***************************************************************************)
(* Proofs about Controller for every fleet, strategy, verb and fault: its  *)
(* types, one active rollout per group, that what ended stays, how large   *)
(* batches are, and that the disruption budget is never exceeded.          *)
(***************************************************************************)
EXTENDS ControllerRefines, FiniteSetTheorems, WellFoundedInduction, TLAPS

-----------------------------------------------------------------------------
\* What a fraction selects, for every percentage, count and total
\* (internal/config/fraction.go).

\* A percentage the parser accepts (fraction.go:35).
Parsed(f) == f \in Fraction /\ (f.percent => f.n <= 100)

\* A strategy the configuration accepts (config.go: validate): what is
\* written selects something.
Usable(st) ==
  /\ st \in Strategies
  /\ Parsed(st.size) /\ st.size.n # 0
  /\ st.firstSet => Parsed(st.first) /\ st.first.n # 0

\* Rounding up a hundredth.
LEMMA Ceiling ==
  ASSUME NEW m \in Nat
  PROVE  /\ (m + 99) \div 100 \in Nat
         /\ 100 * ((m + 99) \div 100) >= m
         /\ 100 * ((m + 99) \div 100) < m + 100
  BY SMT

\* A share of a total is at most the total.
LEMMA ShareFits ==
  ASSUME NEW n \in Nat, n <= 100, NEW total \in Nat
  PROVE  total * n \in Nat /\ total * n <= 100 * total
  BY SMT

\* A share of something is something.
LEMMA ShareIsPositive ==
  ASSUME NEW n \in Nat \ {0}, NEW total \in Nat \ {0}
  PROVE  total * n >= 1
  BY SMT

\* A share is the least number of items that makes up the percentage: Of
\* rounds up, and neither of its two corrections after that (at least one, at
\* most the total) changes the result.
THEOREM ShareRoundsUp ==
  ASSUME NEW f, Parsed(f), f.percent, f.n # 0, NEW total \in Nat \ {0}
  PROVE  /\ Of(f, total) \in 1 .. total
         /\ 100 * Of(f, total) >= total * f.n
         /\ 100 * (Of(f, total) - 1) < total * f.n
  <1> DEFINE m == total * f.n
             k == (m + 99) \div 100
  <1>1. f.n \in Nat \ {0} /\ f.n <= 100
    BY DEF Parsed, Fraction
  <1>2. m \in Nat /\ m >= 1 /\ m <= 100 * total
    BY <1>1, ShareFits, ShareIsPositive
  <1> HIDE DEF m
  <1>3. k \in Nat /\ 100 * k >= m /\ 100 * k < m + 100
    BY <1>2, Ceiling
  <1> HIDE DEF k
  <1>4. k \in 1 .. total
    BY <1>2, <1>3
  <1>5. Of(f, total) = k
    BY <1>4, <1>1 DEF Of, AtMost, AtLeast, k, m
  <1>6. Of(f, total) \in 1 .. total /\ 100 * Of(f, total) >= m /\ 100 * (Of(f, total) - 1) < m
    BY <1>2, <1>3, <1>4, <1>5
  <1> QED
    BY <1>6 DEF m

\* A fraction that is not zero selects at least one item and never more than
\* there are.
LEMMA SelectsSome ==
  ASSUME NEW f, Parsed(f), f.n # 0, NEW total \in Nat \ {0}
  PROVE  Of(f, total) \in 1 .. total
  <1>1. CASE f.percent
    BY <1>1, ShareRoundsUp
  <1>2. CASE ~f.percent
    BY <1>2 DEF Of, AtMost, Parsed, Fraction
  <1> QED
    BY <1>1, <1>2

\* Every batch of an accepted strategy may take at least one node, so that a
\* rollout never opens an empty batch for want of a size, and never more nodes
\* than the rollout has.
THEOREM BatchesNeverEmpty ==
  ASSUME NEW st, Usable(st), NEW k \in Nat, NEW total \in Nat \ {0}
  PROVE  BatchFor(st, k, total) \in 1 .. total
  BY SelectsSome DEF BatchFor, Usable

\* A larger rollout never gets a smaller batch.
THEOREM BatchesGrow ==
  ASSUME NEW f, Parsed(f), NEW a \in Nat, NEW b \in Nat, a <= b
  PROVE  Of(f, a) <= Of(f, b)
  <1>1. CASE a = 0 \/ f.n = 0
    <2>1. b = 0 \/ f.n = 0 \/ Of(f, b) \in 1 .. b
      BY SelectsSome
    <2>2. Of(f, a) = 0
      BY <1>1 DEF Of
    <2>3. b = 0 \/ f.n = 0 => Of(f, b) = 0
      BY DEF Of
    <2> QED
      BY <2>1, <2>2, <2>3
  <1>2. CASE a # 0 /\ f.n # 0 /\ ~f.percent
    BY <1>2 DEF Of, AtMost, Parsed, Fraction
  <1>3. CASE a # 0 /\ f.n # 0 /\ f.percent
    <2> DEFINE x == Of(f, a)
               y == Of(f, b)
               p == a * f.n
               q == b * f.n
    <2>1. f.n \in Nat
      BY DEF Parsed, Fraction
    <2>2. p \in Nat /\ q \in Nat /\ p <= q
      BY <2>1
    <2>3. x \in Nat /\ 100 * (x - 1) < p
      BY <1>3, ShareRoundsUp
    <2>4. y \in Nat /\ 100 * y >= q
      BY <1>3, ShareRoundsUp
    <2> HIDE DEF x, y, p, q
    <2>5. x <= y
      BY <2>2, <2>3, <2>4
    <2> QED
      BY <2>5 DEF x, y
  <1> QED
    BY <1>1, <1>2, <1>3

-----------------------------------------------------------------------------
\* Least elements, from the well-founded orders of the library.

LT == {p \in Nat \X Nat : p[1] < p[2]}

LEMMA LTWellFounded == IsWellFoundedOn(LT, Nat)
<1>1. OpToRel(<, Nat) = LT
  BY DEF OpToRel, LT
<1>. QED BY <1>1, NatLessThanWellFounded

\* A set of naturals that is not empty has a least element.
LEMMA LeastNat ==
  ASSUME NEW S \in SUBSET Nat, S # {}
  PROVE  \E n \in S : \A m \in S : n <= m
<1>1. PICK n \in S : \A m \in S : ~(<<m, n>> \in LT)
  BY LTWellFounded, WFMin
<1>2. ASSUME NEW m \in Nat, NEW k \in Nat, m < k PROVE <<m, k>> \in LT
  BY <1>2 DEF LT
<1>3. ASSUME NEW m \in S PROVE ~(m < n)
  BY <1>1, <1>2
<1>. QED BY <1>3

\* A finite set that is not empty has an element with nothing before it in a
\* strict order R.
LEMMA FiniteFirst ==
  ASSUME NEW S, IsFiniteSet(S), S # {}, NEW R,
         \A x \in S : <<x, x>> \notin R,
         \A x, y, z \in S : <<x, y>> \in R /\ <<y, z>> \in R => <<x, z>> \in R
  PROVE  \E x \in S : \A y \in S : <<y, x>> \notin R
<1> DEFINE Ahead(x) == {y \in S : <<y, x>> \in R}
           Fam == {Ahead(x) : x \in S}
<1>1. Fam \subseteq FiniteSubsetsOf(S) /\ Fam # {}
  <2>1. FiniteSubsetsOf(S) = SUBSET S
    BY FS_FiniteSubsetsOfFinite
  <2>2. \A T \in Fam : T \in SUBSET S
    OBVIOUS
  <2>3. \A x \in S : Ahead(x) \in Fam
    OBVIOUS
  <2> HIDE DEF Ahead, Fam
  <2>. QED BY <2>1, <2>2, <2>3
<1>2. PICK T \in Fam : \A U \in Fam : <<U, T>> \notin StrictSubsetOrdering(S)
  <2> HIDE DEF Fam
  <2>. QED BY <1>1, FS_StrictSubsetOrderingWellFounded, WFMin
<1>3. PICK x \in S : T = Ahead(x)
  OBVIOUS
<1>4. ASSUME NEW y \in S, <<y, x>> \in R PROVE FALSE
  <2>1. Ahead(y) \in SUBSET S /\ Ahead(x) \in SUBSET S
    OBVIOUS
  <2>2. Ahead(y) \subseteq Ahead(x)
    BY <1>4
  <2>3. Ahead(y) # Ahead(x)
    BY <1>4
  <2>4. <<Ahead(y), Ahead(x)>> \notin StrictSubsetOrdering(S)
    BY <1>2, <1>3
  <2> HIDE DEF Ahead
  <2>5. <<Ahead(y), Ahead(x)>> \in StrictSubsetOrdering(S)
    BY <2>1, <2>2, <2>3 DEF StrictSubsetOrdering
  <2>. QED BY <2>4, <2>5
<1>. QED BY <1>4

-----------------------------------------------------------------------------
\* The operators of Rollouts turn a rollout into a rollout of the same group.

\* new is a rollout for the group of ro.
Kin(ro, new) == new \in Rollout /\ new.group = ro.group

LEMMA NoTargetType == NoTarget \in RolloutTarget
  BY NamesAssumption DEF NoTarget, RolloutTarget, Phases

LEMMA NoRolloutType == NoRollout \in Rollout
  BY NoTargetType, NamesAssumption, PolicyAssumption
     DEF NoRollout, Rollout, States, Policy, MaybeDigest

LEMMA TgtType ==
  ASSUME NEW ro \in Rollout, NEW t \in Targets
  PROVE  ro.tgt[t] \in RolloutTarget
  BY DEF Rollout

LEMMA PhaseType ==
  ASSUME NEW rt \in RolloutTarget, NEW p \in Phases
  PROVE  [rt EXCEPT !.phase = p] \in RolloutTarget
  BY DEF RolloutTarget

LEMMA PhaseNames ==
  {"none", "pending", "updating", "ready", "passed", "failed", "skipped"} \subseteq Phases
  BY DEF Phases

LEMMA EndedType ==
  ASSUME NEW ro \in Rollout, NEW s \in States
  PROVE  Kin(ro, Ended(ro, s)) /\ Ended(ro, s).state = s
<1>0. ASSUME NEW t \in Targets PROVE Ended(ro, s).tgt[t] \in RolloutTarget
  <2> DEFINE rt == ro.tgt[t]
             b == rt.hold \/ (rt.phase = "updating" /\ ~rt.updated)
  <2>1. rt \in RolloutTarget /\ b \in BOOLEAN
    BY TgtType
  <2>2. Ended(ro, s).tgt[t] = IF rt.phase \in {"updating", "ready"}
                              THEN [rt EXCEPT !.hold = b, !.phase = "skipped"] ELSE rt
    BY DEF Ended, Rollout
  <2> HIDE DEF rt, b
  <2>3. [rt EXCEPT !.hold = b, !.phase = "skipped"] \in RolloutTarget
    BY <2>1, PhaseNames DEF RolloutTarget
  <2>. QED BY <2>1, <2>2, <2>3
<1>1. Ended(ro, s).tgt \in [Targets -> RolloutTarget]
  BY <1>0 DEF Ended, Rollout
<1>2. Ended(ro, s) = [ro EXCEPT !.state = s, !.tgt = Ended(ro, s).tgt]
  BY DEF Ended, Rollout
<1>. QED BY <1>1, <1>2 DEF Kin, Rollout

LEMMA ReviewedType ==
  ASSUME NEW ro \in Rollout, NEW a, NEW b, NEW c
  PROVE  Kin(ro, Reviewed(ro, a, b, c))
<1> DEFINE new == Reviewed(ro, a, b, c)
<1>1. new.tgt \in [Targets -> RolloutTarget]
  BY TgtType, PhaseType, PhaseNames DEF Reviewed, Rollout
<1>2. new = [ro EXCEPT !.tgt = new.tgt]
  BY DEF Reviewed, Rollout
<1>. QED BY <1>1, <1>2 DEF Kin, Rollout

LEMMA WithBatchType ==
  ASSUME NEW ro \in Rollout, NEW P, NEW free
  PROVE  Kin(ro, WithBatch(ro, P, free))
<1> DEFINE new == WithBatch(ro, P, free)
<1>0. ro.nb + 1 \in Nat
  BY DEF Rollout
<1>1. ASSUME NEW t \in Targets PROVE new.tgt[t] \in RolloutTarget
  <2> DEFINE rt == ro.tgt[t]
             b == rt.node \in free
  <2>1. rt \in RolloutTarget /\ b \in BOOLEAN
    BY TgtType
  <2>2. new.tgt[t] = IF t \in Candidates(ro) /\ rt.node \in P
                     THEN [rt EXCEPT !.batch = ro.nb + 1, !.free = b] ELSE rt
    BY DEF WithBatch, Rollout
  <2> HIDE DEF rt, b
  <2>3. [rt EXCEPT !.batch = ro.nb + 1, !.free = b] \in RolloutTarget
    BY <2>1, <1>0 DEF RolloutTarget
  <2> HIDE DEF new
  <2>. QED BY <2>1, <2>2, <2>3
<1>3. new.tgt \in [Targets -> RolloutTarget]
  BY <1>1 DEF WithBatch, Rollout
<1>2. new = [ro EXCEPT !.state = "Running", !.nb = ro.nb + 1, !.open = TRUE, !.tgt = new.tgt]
  BY DEF WithBatch, Rollout
<1>. QED BY <1>0, <1>2, <1>3 DEF Kin, Rollout, States, ActiveStates

LEMMA WithoutLostType ==
  ASSUME NEW ro \in Rollout, NEW a, NEW b
  PROVE  Kin(ro, WithoutLost(ro, a, b))
<1> DEFINE new == WithoutLost(ro, a, b)
<1>1. new.tgt \in [Targets -> RolloutTarget]
  BY TgtType, PhaseType, PhaseNames DEF WithoutLost, Rollout
<1>2. new = [ro EXCEPT !.tgt = new.tgt]
  BY DEF WithoutLost, Rollout
<1>. QED BY <1>1, <1>2 DEF Kin, Rollout

LEMMA AdvancedType ==
  ASSUME NEW ro \in Rollout
  PROVE  Kin(ro, Advanced(ro))
<1>1. Advanced(ro).tgt \in [Targets -> RolloutTarget]
  BY TgtType, PhaseType, PhaseNames DEF Advanced, Rollout
<1>2. Advanced(ro) = [ro EXCEPT !.tgt = Advanced(ro).tgt]
  BY DEF Advanced, Rollout
<1>. QED BY <1>1, <1>2 DEF Kin, Rollout

LEMMA HaltedType ==
  ASSUME NEW ro \in Rollout
  PROVE  Kin(ro, Halted(ro))
<1>1. Halted(ro).tgt \in [Targets -> RolloutTarget]
  BY TgtType, PhaseType, PhaseNames DEF Halted, Rollout
<1>2. Halted(ro) = [ro EXCEPT !.state = "Halted", !.open = FALSE, !.tgt = Halted(ro).tgt]
  BY DEF Halted, Rollout
<1>. QED BY <1>1, <1>2 DEF Kin, Rollout, States, ActiveStates

LEMMA RetriedType ==
  ASSUME NEW ro \in Rollout, NEW a, NEW b
  PROVE  Kin(ro, Retried(ro, a, b))
<1> DEFINE new == Retried(ro, a, b)
<1>0. ASSUME NEW t \in Targets PROVE new.tgt[t] \in RolloutTarget
  <2> DEFINE rt == ro.tgt[t]
             p == IF t \in a THEN "updating" ELSE "pending"
             d == t \in a
             e == t \in b
  <2>1. rt \in RolloutTarget /\ p \in Phases /\ d \in BOOLEAN /\ e \in BOOLEAN
    BY TgtType, PhaseNames
  <2>2. new.tgt[t] = IF t \in InBatch(ro) /\ rt.phase = "failed"
                     THEN [rt EXCEPT !.phase = p, !.done = d, !.updated = FALSE, !.free = e]
                     ELSE rt
    BY DEF Retried, Rollout
  <2> HIDE DEF rt, p, d, e
  <2>3. [rt EXCEPT !.phase = p, !.done = d, !.updated = FALSE, !.free = e] \in RolloutTarget
    BY <2>1 DEF RolloutTarget
  <2> HIDE DEF new
  <2>. QED BY <2>1, <2>2, <2>3
<1>1. new.tgt \in [Targets -> RolloutTarget]
  BY <1>0 DEF Retried, Rollout
<1>2. new = [ro EXCEPT !.state = "Running", !.retryPending = FALSE, !.open = TRUE,
                       !.fails = 0, !.ok = FALSE, !.tgt = new.tgt]
  BY DEF Retried, Rollout
<1> DEFINE mid == [ro EXCEPT !.tgt = new.tgt, !.state = "Running", !.open = TRUE]
<1>3. mid \in Rollout /\ mid.group = ro.group
  BY <1>1 DEF Rollout, States, ActiveStates
<1>4. new = [mid EXCEPT !.retryPending = FALSE, !.fails = 0, !.ok = FALSE]
  BY <1>2 DEF Rollout
<1> HIDE DEF mid, new
<1>5. new \in Rollout /\ new.group = ro.group
  BY <1>3, <1>4 DEF Rollout
<1>. QED BY <1>5 DEF Kin, new

LEMMA SoakingType ==
  ASSUME NEW ro \in Rollout
  PROVE  Kin(ro, Soaking(ro))
  BY DEF Kin, Soaking, Rollout, States, ActiveStates

LEMMA PassedType ==
  ASSUME NEW ro \in Rollout
  PROVE  Kin(ro, Passed(ro))
<1>1. Passed(ro).tgt \in [Targets -> RolloutTarget]
  BY TgtType, PhaseType, PhaseNames DEF Passed, Rollout
<1>2. Passed(ro) = [ro EXCEPT !.state = Passed(ro).state, !.pausePending = FALSE,
                              !.open = FALSE, !.tgt = Passed(ro).tgt]
  BY DEF Passed, Rollout
<1>3. Passed(ro).state \in States
  BY DEF Passed, Rollout, States, ActiveStates
<1>. QED BY <1>1, <1>2, <1>3 DEF Kin, Rollout

LEMMA NewRolloutType ==
  ASSUME NEW g \in Groups, NEW s \in DOMAIN StrategyOf, NEW f \in Files, NEW ts \in SUBSET DOMAIN f,
         NEW want \in [Images -> MaybeDigest], NEW dg
  PROVE  /\ NewRollout(g, s, f, ts, want, dg) \in Rollout
         /\ NewRollout(g, s, f, ts, want, dg).group = g
         /\ NewRollout(g, s, f, ts, want, dg).state = "Running"
<1> DEFINE new == NewRollout(g, s, f, ts, want, dg)
<1>1. new.tgt \in [Targets -> RolloutTarget]
  <2>1. ASSUME NEW t \in Targets PROVE new.tgt[t] \in RolloutTarget
    <3>1. CASE t \in ts
      <4> DEFINE w == IF StrategyOf[s].waves THEN f[t].wave ELSE 0
                 d == t \in dg
      <4>1. f[t].node \in Nodes /\ w \in Nat /\ d \in BOOLEAN
        BY <3>1, FilesAssumption DEF Entry
      <4>2. new.tgt[t] = [NoTarget EXCEPT !.phase = "pending", !.node = f[t].node,
                                          !.wave = w, !.degBefore = d]
        BY <3>1, NoRolloutType DEF NewRollout, Rollout
      <4> HIDE DEF w, d, new
      <4>3. [NoTarget EXCEPT !.phase = "pending", !.node = f[t].node,
                             !.wave = w, !.degBefore = d] \in RolloutTarget
        BY <4>1, NoTargetType, PhaseNames DEF RolloutTarget
      <4>. QED BY <4>2, <4>3
    <3>2. CASE t \notin ts
      BY <3>2, NoTargetType, NoRolloutType DEF NewRollout, Rollout
    <3>. QED BY <3>1, <3>2
  <2>. QED BY <2>1, NoRolloutType DEF NewRollout, Rollout
<1>2. new = [NoRollout EXCEPT !.state = "Running", !.group = g, !.strategy = s, !.want = want,
                              !.tgt = new.tgt]
  BY NoRolloutType DEF NewRollout, Rollout
<1>. QED BY <1>1, <1>2, NoRolloutType DEF Rollout, States, ActiveStates

-----------------------------------------------------------------------------
\* What every step but the opening of a rollout keeps.

\* ro may become new: the group stays, an ended rollout keeps its state, its
\* batches and its targets' phases, and none becomes active.
Evolves(ro, new) ==
  /\ Kin(ro, new)
  /\ Active(new) => Active(ro)
  /\ ro.state \in EndedStates =>
       /\ new.state = ro.state
       /\ new.nb = ro.nb
       /\ \A t \in Targets : new.tgt[t].phase = ro.tgt[t].phase

LEMMA EvolvesSelf ==
  ASSUME NEW ro \in Rollout
  PROVE  Evolves(ro, ro)
  BY DEF Evolves, Kin

LEMMA EvolvesActive ==
  ASSUME NEW ro \in Rollout, Active(ro), NEW new, Kin(ro, new)
  PROVE  Evolves(ro, new)
  BY DEF Evolves, Active, ActiveStates, EndedStates

\* Every rollout evolves.
AllEvolve == \A r \in RolloutIds : Evolves(rollouts[r], rollouts'[r])

\* The rollouts after a step that changes one active rollout.
LEMMA OneChanges ==
  ASSUME rollouts \in [RolloutIds -> Rollout], NEW r \in RolloutIds, NEW new,
         Active(rollouts[r]), Kin(rollouts[r], new),
         rollouts' = [rollouts EXCEPT ![r] = new]
  PROVE  rollouts' \in [RolloutIds -> Rollout] /\ AllEvolve
<1>1. new \in Rollout
  BY DEF Kin
<1>2. rollouts' \in [RolloutIds -> Rollout]
  BY <1>1
<1>3. ASSUME NEW q \in RolloutIds PROVE Evolves(rollouts[q], rollouts'[q])
  BY EvolvesSelf, EvolvesActive
<1>. QED BY <1>2, <1>3 DEF AllEvolve

LEMMA NoneChanges ==
  ASSUME rollouts \in [RolloutIds -> Rollout], rollouts' = rollouts
  PROVE  AllEvolve
  BY EvolvesSelf DEF AllEvolve

LEMMA SupersededEvolves ==
  ASSUME NEW rs \in [RolloutIds -> Rollout]
  PROVE  /\ Superseded(rs) \in [RolloutIds -> Rollout]
         /\ \A r \in RolloutIds : Evolves(rs[r], Superseded(rs)[r])
<1>1. ASSUME NEW r \in RolloutIds
      PROVE  Superseded(rs)[r] \in Rollout /\ Evolves(rs[r], Superseded(rs)[r])
  <2>1. CASE Active(rs[r]) /\ Moved(rs[r])
    <3>1. Superseded(rs)[r] = Ended(rs[r], "Superseded")
      BY <2>1 DEF Superseded
    <3>2. Kin(rs[r], Ended(rs[r], "Superseded"))
      BY EndedType DEF States, EndedStates
    <3>. QED BY <2>1, <3>1, <3>2, EvolvesActive DEF Kin
  <2>2. CASE ~(Active(rs[r]) /\ Moved(rs[r]))
    BY <2>2, EvolvesSelf DEF Superseded
  <2>. QED BY <2>1, <2>2
<1>. QED BY <1>1 DEF Superseded

-----------------------------------------------------------------------------
\* Types: the tick.

LEMMA WantType ==
  ASSUME TypeOK, NEW g \in Groups, NEW i \in Images
  PROVE  Want(g, i) \in MaybeDigest
  BY DEF TypeOK, Want, Policy

LEMMA FileType ==
  ASSUME TypeOK
  PROVE  DOMAIN file \subseteq Targets /\ \A t \in DOMAIN file : file[t] \in Entry
  BY FilesAssumption DEF TypeOK

LEMMA HeldType ==
  ASSUME TypeOK
  PROVE  HeldFiles \subseteq Files
  BY DEF TypeOK, HeldFiles

LEMMA TickStartType ==
  ASSUME TypeOK, TickStart
  PROVE  TypeOK' /\ AllEvolve
<1>1. rollouts' \in [RolloutIds -> Rollout] /\ AllEvolve
  BY SupersededEvolves DEF TypeOK, TickStart, AllEvolve
<1>2. suspensions' \subseteq Selectors
  BY DEF TypeOK, TickStart
<1>3. opening' \subseteq Groups
  BY FileType DEF TickStart, GroupsOf, Entry
<1>. QED BY <1>1, <1>2, <1>3 DEF TypeOK, TickStart, fileVars, worldVars, PCs

LEMMA RolloutForType ==
  ASSUME TypeOK, NEW g \in Groups, NEW s \in DOMAIN StrategyOf, NEW f \in Files
  PROVE  /\ RolloutFor(g, s, f) \in Rollout
         /\ RolloutFor(g, s, f).group = g
         /\ RolloutFor(g, s, f).state = "Running"
<1> DEFINE want == [i \in Images |-> IF \E t \in OutOfSync(g, f) : f[t].image = i
                                     THEN Want(g, i) ELSE NoDigest]
<1>1. want \in [Images -> MaybeDigest]
  BY WantType DEF MaybeDigest
<1>2. OutOfSync(g, f) \in SUBSET DOMAIN f
  BY DEF OutOfSync
<1>3. RolloutFor(g, s, f) = NewRollout(g, s, f, OutOfSync(g, f), want, degraded)
  BY DEF RolloutFor
<1> HIDE DEF want
<1>. QED BY <1>1, <1>2, <1>3, NewRolloutType DEF TypeOK

LEMMA OpenGroupType ==
  ASSUME TypeOK, NEW g \in opening, OpenGroup(g)
  PROVE  TypeOK'
<1>1. g \in Groups
  BY DEF TypeOK
<1>2. aborted' \in [Groups -> SUBSET SUBSET (Images \X Digests)]
  BY DEF TypeOK, OpenGroup, Lifted
<1>3. rollouts' \in [RolloutIds -> Rollout]
  <2>1. CASE rollouts' = rollouts
    BY <2>1 DEF TypeOK
  <2>2. ASSUME NEW r \in FreshIds, NEW m \in BOOLEAN,
               rollouts' = [rollouts EXCEPT ![r] =
                 [RolloutFor(g, policy[g].strategy, file) EXCEPT
                    !.state = IF m THEN "WaitingForSync" ELSE "Running"]]
        PROVE  rollouts' \in [RolloutIds -> Rollout]
    <3>1. policy[g].strategy \in DOMAIN StrategyOf
      BY <1>1 DEF TypeOK, Policy
    <3>2. RolloutFor(g, policy[g].strategy, file) \in Rollout
      BY <1>1, <3>1, RolloutForType DEF TypeOK
    <3>3. [RolloutFor(g, policy[g].strategy, file) EXCEPT
             !.state = IF m THEN "WaitingForSync" ELSE "Running"] \in Rollout
      BY <3>2 DEF Rollout, States, ActiveStates
    <3>. QED BY <2>2, <3>3 DEF TypeOK, FreshIds
  <2>3. policy[g].manual \in BOOLEAN
    BY <1>1 DEF TypeOK, Policy
  <2>. QED BY <2>1, <2>2, <2>3 DEF OpenGroup
<1>. QED BY <1>2, <1>3 DEF TypeOK, OpenGroup, fileVars, worldVars, peopleVars, PCs

LEMMA OpenDoneType ==
  ASSUME TypeOK, OpenDone
  PROVE  TypeOK' /\ AllEvolve
  BY NoneChanges DEF TypeOK, OpenDone, ActiveIds, PCs, fileVars, worldVars, peopleVars

\* A planning step that settles on a kin of an active rollout.
LEMMA SettleType ==
  ASSUME TypeOK, NEW r \in RolloutIds, NEW ro, NEW dg \in SUBSET Targets,
         Planning(r), Active(rollouts[r]), Kin(rollouts[r], ro), Settle(r, ro, dg)
  PROVE  TypeOK' /\ AllEvolve
<1>1. rollouts' \in [RolloutIds -> Rollout] /\ AllEvolve
  BY OneChanges DEF TypeOK, Settle
<1>. QED BY <1>1 DEF TypeOK, Planning, Settle, fileVars, peopleVars, PCs

LEMMA KinTrans ==
  ASSUME NEW a, NEW b, NEW c, Kin(a, b), Kin(b, c)
  PROVE  Kin(a, c)
  BY DEF Kin

LEMMA PassedBySub ==
  ASSUME NEW ro
  PROVE  PassedBy(ro) \subseteq Targets /\ HeldBy(ro) \subseteq Targets /\ Failed(ro) \subseteq Targets
  BY DEF PassedBy, HeldBy, Failed, InBatch

LEMMA PassBatchType ==
  ASSUME TypeOK, NEW r \in RolloutIds, NEW ro, NEW dg \in SUBSET Targets,
         Planning(r), Active(rollouts[r]), Kin(rollouts[r], ro), PassBatch(r, ro, dg)
  PROVE  TypeOK' /\ AllEvolve
<1>1. Kin(rollouts[r], Passed(ro))
  BY PassedType, KinTrans DEF Kin
<1>. QED BY <1>1, SettleType, PassedBySub DEF PassBatch

LEMMA BatchReadyType ==
  ASSUME TypeOK, NEW r \in RolloutIds, NEW ro, NEW dg \in SUBSET Targets,
         Planning(r), Active(rollouts[r]), Kin(rollouts[r], ro), BatchReady(r, ro, dg)
  PROVE  TypeOK' /\ AllEvolve
<1>1. Kin(rollouts[r], Soaking(ro))
  BY SoakingType, KinTrans DEF Kin
<1>. QED BY <1>1, SettleType, PassBatchType DEF BatchReady

\* A target a program must run for is in the file.
LEMMA WaitingPresent ==
  ASSUME NEW ro \in Rollout,
         NEW t \in Waiting(WithoutLost(ro, Lost(ro), {"pending", "updating"}))
  PROVE  t \in Targets /\ t \notin Lost(ro) /\ t \in DOMAIN file
<1> DEFINE cur == WithoutLost(ro, Lost(ro), {"pending", "updating"})
<1>1. t \in Targets /\ cur.tgt[t].phase \in {"pending", "updating"} /\ cur.tgt[t].batch = cur.nb
  BY DEF Waiting, InBatch
<1>2. cur.nb = ro.nb /\ cur.tgt[t] = IF t \in Lost(ro) \cap InBatch(ro)
                                        /\ ro.tgt[t].phase \in {"pending", "updating"}
                                     THEN [ro.tgt[t] EXCEPT !.phase = "skipped"] ELSE ro.tgt[t]
  BY <1>1 DEF WithoutLost, Rollout
<1>3. ro.tgt[t] \in RolloutTarget
  BY <1>1, TgtType
<1> HIDE DEF cur
<1>4. ~(t \in Lost(ro) \cap InBatch(ro) /\ ro.tgt[t].phase \in {"pending", "updating"})
  BY <1>1, <1>2, <1>3 DEF RolloutTarget
<1>5. cur.tgt[t] = ro.tgt[t]
  BY <1>2, <1>4
<1>6. t \in InBatch(ro)
  BY <1>1, <1>2, <1>5 DEF InBatch
<1>7. t \notin Lost(ro)
  BY <1>1, <1>4, <1>5, <1>6
<1>. QED BY <1>1, <1>5, <1>7 DEF Lost, TargetsIn

LEMMA JobsForType ==
  ASSUME TypeOK, NEW r \in RolloutIds, NEW ro \in Rollout
  PROVE  JobsFor(r, WithoutLost(ro, Lost(ro), {"pending", "updating"})) \subseteq Job
<1> DEFINE cur == WithoutLost(ro, Lost(ro), {"pending", "updating"})
<1>1. ASSUME NEW t \in Waiting(cur)
      PROVE  /\ t \in Targets
             /\ Want(file[t].group, file[t].image) \in MaybeDigest
             /\ Hook(cur, t) \in {"update", "inspect", "ready"}
  <2>1. t \in Targets /\ t \in DOMAIN file
    BY <1>1, WaitingPresent
  <2>2. file[t].group \in Groups /\ file[t].image \in Images
    BY <2>1, FileType DEF Entry
  <2>. QED BY <2>1, <2>2, WantType DEF Hook
<1> HIDE DEF cur
<1>2. JobsFor(r, cur) \subseteq Job
  BY <1>1 DEF JobsFor, Job
<1>. QED BY <1>2 DEF cur

LEMMA DispatchedType ==
  ASSUME TypeOK, NEW js \in SUBSET Job
  PROVE  Dispatched(js) \in [Targets -> MaybeDigest]
<1>1. ASSUME NEW t \in Targets, NEW mine \in SUBSET Job, mine # {}
      PROVE  (CHOOSE j \in mine : TRUE).digest \in MaybeDigest
  BY <1>1 DEF Job
<1>2. ASSUME NEW t \in Targets PROVE Dispatched(js)[t] \in MaybeDigest
  <2> DEFINE mine == {j \in js : j.target = t /\ j.hook = "update"}
             d == (CHOOSE j \in mine : TRUE).digest
  <2>1. Dispatched(js)[t] = IF mine = {} THEN landing[t]
                            ELSE IF d = running[t] THEN NoDigest ELSE d
    BY DEF Dispatched
  <2>2. mine \in SUBSET Job
    OBVIOUS
  <2>3. mine # {} => d \in MaybeDigest
    BY <2>2, <1>1
  <2> HIDE DEF mine, d
  <2>. QED BY <2>1, <2>3 DEF TypeOK, MaybeDigest
<1>. QED BY <1>2 DEF Dispatched

LEMMA PlanBatchType ==
  ASSUME TypeOK, NEW r \in RolloutIds, NEW ro, NEW dg \in SUBSET Targets,
         Planning(r), Active(rollouts[r]), Kin(rollouts[r], ro), PlanBatch(r, ro, dg)
  PROVE  TypeOK' /\ AllEvolve
<1> DEFINE cur == WithoutLost(ro, Lost(ro), {"pending", "updating"})
           js == JobsFor(r, cur)
<1>1. Kin(rollouts[r], cur)
  BY WithoutLostType, KinTrans DEF Kin
<1>2. Kin(rollouts[r], Advanced(cur))
  BY <1>1, AdvancedType, KinTrans DEF Kin
<1>3. js \subseteq Job
  BY JobsForType DEF Kin
<1>4. CASE js = {}
  <2>1. BatchReady(r, Advanced(cur), dg)
    BY <1>4 DEF PlanBatch
  <2>. QED BY <2>1, <1>2, BatchReadyType
<1>5. CASE js # {}
  <2>1. /\ rollouts' = [rollouts EXCEPT ![r] = Advanced(cur)]
        /\ degraded' = dg
        /\ jobs' = jobs \cup js
        /\ landing' = Dispatched(js)
        /\ UNCHANGED checks
    BY <1>5 DEF PlanBatch
  <2>2. landing' \in [Targets -> MaybeDigest]
    BY <1>3, <2>1, DispatchedType
  <2> HIDE DEF cur, js
  <2>3. rollouts' \in [RolloutIds -> Rollout] /\ AllEvolve
    BY <1>2, <2>1, OneChanges DEF TypeOK
  <2>. QED BY <1>3, <2>1, <2>2, <2>3 DEF TypeOK, Planning, fileVars, peopleVars, PCs
<1>. QED BY <1>4, <1>5

LEMMA PlanStepType ==
  ASSUME TypeOK, NEW r \in planning, PlanStep(r)
  PROVE  TypeOK' /\ AllEvolve
<1>0. r \in RolloutIds /\ rollouts[r] \in Rollout /\ degraded \in SUBSET Targets
  BY DEF TypeOK
<1>k. Kin(rollouts[r], rollouts[r])
  BY <1>0 DEF Kin
<1>1. CASE PlanNothing(r)
  BY <1>1, <1>0, <1>k, SettleType DEF PlanNothing, Active, ActiveStates
<1>2. CASE PlanRetry(r)
  <2> DEFINE seen == {t \in Targets : live[t] # NoDigest /\ \E i \in Images : rollouts[r].want[i] = live[t]}
             ro == Retried(rollouts[r], seen, degraded)
  <2>1. Kin(rollouts[r], ro)
    BY <1>0, RetriedType
  <2>2. Planning(r) /\ Active(rollouts[r]) /\ PlanBatch(r, ro, degraded \ Failed(rollouts[r]))
    BY <1>2 DEF PlanRetry, Active, ActiveStates
  <2> HIDE DEF ro
  <2>. QED BY <1>0, <2>1, <2>2, PlanBatchType
<1>3. CASE PlanStart(r)
  <2> DEFINE ro == Reviewed(rollouts[r], Lost(rollouts[r]), Unreachable, Arrived(rollouts[r]))
             free == FreeNodes(ro)
  <2>1. Kin(rollouts[r], ro)
    BY <1>0, ReviewedType
  <2>2. Planning(r) /\ Active(rollouts[r])
    BY <1>3 DEF PlanStart, CanStart, Active, ActiveStates
  <2>3. \/ Settle(r, Ended(ro, "Complete"), degraded)
        \/ Settle(r, [ro EXCEPT !.state = "WaitingForEnvironment"], degraded)
        \/ Settle(r, [ro EXCEPT !.state = "WaitingForBudget"], degraded)
        \/ \E P \in SUBSET CandidateNodes(ro) : PlanBatch(r, WithBatch(ro, P, free), degraded)
    BY <1>3 DEF PlanStart
  <2> HIDE DEF ro, free
  <2>4. ro \in Rollout
    BY <2>1 DEF Kin
  <2>5. Kin(rollouts[r], Ended(ro, "Complete"))
    BY <2>1, <2>4, EndedType, KinTrans DEF States, EndedStates
  <2>6. /\ Kin(rollouts[r], [ro EXCEPT !.state = "WaitingForEnvironment"])
        /\ Kin(rollouts[r], [ro EXCEPT !.state = "WaitingForBudget"])
    BY <2>1 DEF Kin, Rollout, States, ActiveStates
  <2>7. \A P : Kin(rollouts[r], WithBatch(ro, P, free))
    BY <2>1, <2>4, WithBatchType, KinTrans
  <2>. QED BY <1>0, <2>2, <2>3, <2>5, <2>6, <2>7, SettleType, PlanBatchType
<1>4. CASE PlanOpen(r)
  BY <1>4, <1>0, <1>k, PlanBatchType DEF PlanOpen, CanStart, Active, ActiveStates
<1>5. CASE PlanLate(r)
  <2>1. PICK t \in Targets : LET cur == WithoutLost(rollouts[r],
                                           {u \in Lost(rollouts[r]) : Before(rollouts[r], u, t)},
                                           {"pending", "updating"})
                             IN Settle(r, Halted(cur), degraded \cup HeldBy(cur))
    BY <1>5 DEF PlanLate, Waiting, InBatch
  <2> DEFINE cur == WithoutLost(rollouts[r], {u \in Lost(rollouts[r]) : Before(rollouts[r], u, t)},
                                {"pending", "updating"})
  <2>2. Kin(rollouts[r], cur)
    BY <1>0, WithoutLostType
  <2>3. Settle(r, Halted(cur), degraded \cup HeldBy(cur))
    BY <2>1
  <2>4. Planning(r) /\ Active(rollouts[r])
    BY <1>5 DEF PlanLate, CanStart, Active, ActiveStates
  <2> HIDE DEF cur
  <2>5. Kin(rollouts[r], Halted(cur))
    BY <2>2, HaltedType, KinTrans DEF Kin
  <2>. QED BY <1>0, <2>3, <2>4, <2>5, SettleType, PassedBySub
<1>6. CASE PlanSoak(r)
  <2> DEFINE cur == WithoutLost(rollouts[r], Lost(rollouts[r]), Phases)
  <2>1. Kin(rollouts[r], cur)
    BY <1>0, WithoutLostType
  <2>2. Planning(r) /\ Active(rollouts[r])
    BY <1>6 DEF PlanSoak, Active, ActiveStates
  <2>3. \/ PassBatch(r, rollouts[r], degraded)
        \/ Settle(r, rollouts[r], degraded)
        \/ /\ rollouts' = [rollouts EXCEPT ![r] = cur]
           /\ checks' \subseteq checks \cup {r}
           /\ UNCHANGED <<degraded, landing, jobs>>
    BY <1>6 DEF PlanSoak
  <2> HIDE DEF cur
  <2>4. CASE /\ rollouts' = [rollouts EXCEPT ![r] = cur]
             /\ checks' \subseteq checks \cup {r}
             /\ UNCHANGED <<degraded, landing, jobs>>
    <3>1. rollouts' \in [RolloutIds -> Rollout] /\ AllEvolve
      BY <1>0, <2>1, <2>2, <2>4, OneChanges DEF TypeOK
    <3>. QED BY <1>0, <2>2, <2>4, <3>1 DEF TypeOK, Planning, fileVars, peopleVars, PCs
  <2>. QED BY <1>0, <1>k, <2>2, <2>3, <2>4, SettleType, PassBatchType
<1>. QED BY <1>1, <1>2, <1>3, <1>4, <1>5, <1>6 DEF PlanStep

\* Applying a result: the rollout of the job or check goes on as a kin.
LEMMA ApplyJobType ==
  ASSUME TypeOK, NEW j \in jobs, Applying(j),
         \/ rollouts' = rollouts
         \/ \E ro : /\ Active(rollouts[j.rollout])
                    /\ Kin(rollouts[j.rollout], ro)
                    /\ Continue(j, ro),
         live' \in [Targets -> MaybeDigest], degraded' \subseteq Targets
  PROVE  TypeOK' /\ AllEvolve
<1>1. j.rollout \in RolloutIds
  BY DEF TypeOK, Job
<1>2. rollouts' \in [RolloutIds -> Rollout] /\ AllEvolve
  BY <1>1, OneChanges, NoneChanges DEF TypeOK, Continue
<1>. QED BY <1>2 DEF TypeOK, Applying, fileVars, peopleVars, worldVars, PCs

LEMMA ApplyCheckType ==
  ASSUME TypeOK, NEW r \in checks, ApplyingCheck(r),
         \/ rollouts' = rollouts
         \/ \E ro : /\ Active(rollouts[r])
                    /\ Kin(rollouts[r], ro)
                    /\ rollouts' = [rollouts EXCEPT ![r] = ro],
         degraded' \subseteq Targets
  PROVE  TypeOK' /\ AllEvolve
<1>1. r \in RolloutIds
  BY DEF TypeOK
<1>2. rollouts' \in [RolloutIds -> Rollout] /\ AllEvolve
  BY <1>1, OneChanges, NoneChanges DEF TypeOK
<1>. QED BY <1>2 DEF TypeOK, ApplyingCheck, fileVars, peopleVars, worldVars, PCs

\* A rollout with one target's record replaced.
LEMMA OneTarget ==
  ASSUME NEW ro \in Rollout, NEW t \in Targets, NEW rt \in RolloutTarget
  PROVE  Kin(ro, [ro EXCEPT !.tgt[t] = rt])
  BY DEF Kin, Rollout

LEMMA ConcernsActive ==
  ASSUME NEW j, Concerns(j)
  PROVE  Active(rollouts[j.rollout])
  BY DEF Concerns, Active, ActiveStates

LEMMA DoubtedType ==
  ASSUME TypeOK, NEW t \in Targets, NEW l \in Doubted(t)
  PROVE  l \in [Targets -> MaybeDigest]
  BY DEF TypeOK, Doubted, MaybeDigest

LEMMA ApplyStaleType ==
  ASSUME TypeOK, NEW j \in jobs, ApplyStale(j)
  PROVE  TypeOK' /\ AllEvolve
<1>1. j.rollout \in RolloutIds /\ j.target \in Targets /\ rollouts[j.rollout] \in Rollout
  BY DEF TypeOK, Job
<1>2. Applying(j) /\ live' \in [Targets -> MaybeDigest] /\ degraded' \subseteq Targets
  BY DEF TypeOK, ApplyStale
<1> DEFINE rt == [rollouts[j.rollout].tgt[j.target] EXCEPT !.phase = "skipped"]
           ro == [rollouts[j.rollout] EXCEPT !.tgt[j.target] = rt]
<1>3. rt \in RolloutTarget
  BY <1>1, TgtType, PhaseType, PhaseNames
<1>4. [rollouts[j.rollout] EXCEPT !.tgt[j.target].phase = "skipped"] = ro
  BY <1>1 DEF Rollout
<1> HIDE DEF rt
<1>5. rollouts' = rollouts \/ (Concerns(j) /\ Continue(j, ro))
  <2>1. \/ rollouts' = rollouts
        \/ /\ Concerns(j)
           /\ Continue(j, [rollouts[j.rollout] EXCEPT !.tgt[j.target].phase = "skipped"])
    BY DEF ApplyStale
  <2> HIDE DEF ro
  <2>. QED BY <1>4, <2>1
<1>6. Kin(rollouts[j.rollout], ro)
  BY <1>1, <1>3, OneTarget
<1> HIDE DEF ro
<1>. QED BY <1>2, <1>5, <1>6, ConcernsActive, ApplyJobType

LEMMA ApplyUpdateType ==
  ASSUME TypeOK, NEW j \in jobs, ApplyUpdate(j)
  PROVE  TypeOK' /\ AllEvolve
<1>1. j.rollout \in RolloutIds /\ j.target \in Targets /\ rollouts[j.rollout] \in Rollout
  BY DEF TypeOK, Job
<1>2. Applying(j) /\ Counts(j) /\ live' \in [Targets -> MaybeDigest] /\ degraded' \subseteq Targets
  BY PassedBySub DEF TypeOK, ApplyUpdate
<1> DEFINE rt == [rollouts[j.rollout].tgt[j.target] EXCEPT !.done = TRUE]
           ro == [rollouts[j.rollout] EXCEPT !.tgt[j.target] = rt]
<1>3. rt \in RolloutTarget
  <2>1. rollouts[j.rollout].tgt[j.target] \in RolloutTarget
    BY <1>1, TgtType
  <2>. QED BY <2>1 DEF RolloutTarget
<1>4. [rollouts[j.rollout] EXCEPT !.tgt[j.target].done = TRUE] = ro
  BY <1>1 DEF Rollout
<1>5. Continue(j, ro) \/ Continue(j, Halted(rollouts[j.rollout]))
  BY <1>4 DEF ApplyUpdate
<1> HIDE DEF rt
<1>6. Kin(rollouts[j.rollout], ro) /\ Kin(rollouts[j.rollout], Halted(rollouts[j.rollout]))
  BY <1>1, <1>3, OneTarget, HaltedType
<1> HIDE DEF ro
<1>. QED BY <1>2, <1>5, <1>6, ConcernsActive, ApplyJobType DEF Counts

LEMMA ApplyInspectType ==
  ASSUME TypeOK, NEW j \in jobs, ApplyInspect(j)
  PROVE  TypeOK' /\ AllEvolve
<1>1. j.rollout \in RolloutIds /\ j.target \in Targets /\ rollouts[j.rollout] \in Rollout
  BY DEF TypeOK, Job
<1>2. Applying(j) /\ Counts(j) /\ degraded' \subseteq Targets
  BY DEF TypeOK, ApplyInspect
<1>3. live' \in [Targets -> MaybeDigest]
  BY <1>1, DoubtedType DEF TypeOK, ApplyInspect, MaybeDigest
<1> DEFINE old == rollouts[j.rollout].tgt[j.target]
           arrived == running[j.target] = rollouts[j.rollout].want[file[j.target].image]
           u == old.updated \/ arrived
           p == IF arrived /\ rollouts[j.rollout].force THEN "ready" ELSE old.phase
           rt == [old EXCEPT !.updated = u, !.phase = p]
           ro == [rollouts[j.rollout] EXCEPT !.tgt[j.target] = rt]
<1>4. rollouts' = rollouts \/ Continue(j, ro)
  BY DEF ApplyInspect
<1>5. old \in RolloutTarget
  BY <1>1, TgtType
<1>6. u \in BOOLEAN /\ p \in Phases
  BY <1>5, PhaseNames DEF RolloutTarget
<1> HIDE DEF old, u, p
<1>7. rt \in RolloutTarget
  BY <1>5, <1>6 DEF RolloutTarget
<1> HIDE DEF rt
<1>8. Kin(rollouts[j.rollout], ro)
  BY <1>1, <1>7, OneTarget
<1> HIDE DEF ro
<1>. QED BY <1>2, <1>3, <1>4, <1>8, ConcernsActive, ApplyJobType DEF Counts

LEMMA ApplyReadyType ==
  ASSUME TypeOK, NEW j \in jobs, ApplyReady(j)
  PROVE  TypeOK' /\ AllEvolve
<1>1. j.rollout \in RolloutIds /\ j.target \in Targets /\ rollouts[j.rollout] \in Rollout
  BY DEF TypeOK, Job
<1>2. Applying(j) /\ Counts(j) /\ live' \in [Targets -> MaybeDigest] /\ degraded' \subseteq Targets
  BY DEF TypeOK, ApplyReady
<1> DEFINE rt == [rollouts[j.rollout].tgt[j.target] EXCEPT !.phase = "ready"]
           ro == [rollouts[j.rollout] EXCEPT !.tgt[j.target] = rt]
<1>3. rt \in RolloutTarget
  BY <1>1, TgtType, PhaseType, PhaseNames
<1>4. [rollouts[j.rollout] EXCEPT !.tgt[j.target].phase = "ready"] = ro
  BY <1>1 DEF Rollout
<1>5. rollouts' = rollouts \/ Continue(j, ro)
  BY <1>4 DEF ApplyReady
<1> HIDE DEF rt
<1>6. Kin(rollouts[j.rollout], ro)
  BY <1>1, <1>3, OneTarget
<1> HIDE DEF ro
<1>. QED BY <1>2, <1>5, <1>6, ConcernsActive, ApplyJobType DEF Counts

\* An applied check leaves the soak's own fields of a rollout changed, and then
\* the soak goes on, passes or halts.
LEMMA CheckConcludes ==
  ASSUME NEW r, rollouts[r] \in Rollout, ApplyCheckPassed(r) \/ ApplyCheckFailed(r)
  PROVE  \E ro :
           /\ Kin(rollouts[r], ro) /\ ro.state = "Soaking" /\ ro.state = rollouts[r].state
           /\ ro.nb = rollouts[r].nb /\ ro.open = rollouts[r].open /\ ro.tgt = rollouts[r].tgt
           /\ ro.want = rollouts[r].want /\ ro.strategy = rollouts[r].strategy
           /\ ro.pausePending = rollouts[r].pausePending
           /\ ApplyingCheck(r)
           /\ \/ Conclude(r, ro, degraded)
              \/ Conclude(r, Passed(ro), degraded \ PassedBy(ro))
              \/ Conclude(r, Halted(ro), degraded \cup HeldBy(ro))
<1> DEFINE old == rollouts[r]
<1>1. ASSUME NEW b \in BOOLEAN, NEW k \in Nat, NEW ro, ro = [old EXCEPT !.ok = b, !.fails = k]
      PROVE  /\ Kin(old, ro) /\ ro.state = old.state
             /\ ro.nb = old.nb /\ ro.open = old.open /\ ro.tgt = old.tgt
             /\ ro.want = old.want /\ ro.strategy = old.strategy /\ ro.pausePending = old.pausePending
  BY <1>1 DEF Kin, Rollout
<1>2. CASE ApplyCheckPassed(r)
  <2> DEFINE ro == [old EXCEPT !.ok = TRUE]
  <2>1. old.fails \in Nat /\ ro = [old EXCEPT !.ok = TRUE, !.fails = old.fails]
    BY DEF Rollout
  <2>2. /\ ApplyingCheck(r) /\ old.state = "Soaking" /\ ConcludeSoak(r, ro)
    BY <1>2 DEF ApplyCheckPassed
  <2> HIDE DEF ro
  <2>. QED BY <1>1, <2>1, <2>2 DEF ConcludeSoak
<1>3. CASE ApplyCheckFailed(r)
  <2> DEFINE k == old.fails + 1
             ro == [old EXCEPT !.ok = FALSE, !.fails = k]
  <2>1. k \in Nat
    BY DEF Rollout
  <2>2. /\ ApplyingCheck(r) /\ old.state = "Soaking" /\ ConcludeSoak(r, ro)
    BY <1>3 DEF ApplyCheckFailed
  <2>3. ro = [old EXCEPT !.ok = FALSE, !.fails = k]
    OBVIOUS
  <2> HIDE DEF k, ro
  <2>. QED BY <1>1, <2>1, <2>2, <2>3 DEF ConcludeSoak
<1>. QED BY <1>2, <1>3

LEMMA ApplyCheckStepType ==
  ASSUME TypeOK, NEW r \in checks,
         ApplyCheckStale(r) \/ ApplyCheckPassed(r) \/ ApplyCheckFailed(r)
  PROVE  TypeOK' /\ AllEvolve
<1>1. r \in RolloutIds /\ rollouts[r] \in Rollout /\ degraded \subseteq Targets
  BY DEF TypeOK
<1>2. CASE ApplyCheckStale(r)
  BY <1>1, <1>2, ApplyCheckType DEF ApplyCheckStale
<1>3. CASE ApplyCheckPassed(r) \/ ApplyCheckFailed(r)
  <2>1. PICK ro : /\ Kin(rollouts[r], ro) /\ ro.state = "Soaking" /\ ro.state = rollouts[r].state
                  /\ ApplyingCheck(r)
                  /\ \/ Conclude(r, ro, degraded)
                     \/ Conclude(r, Passed(ro), degraded \ PassedBy(ro))
                     \/ Conclude(r, Halted(ro), degraded \cup HeldBy(ro))
    BY <1>1, <1>3, CheckConcludes
  <2>2. Kin(rollouts[r], Passed(ro)) /\ Kin(rollouts[r], Halted(ro)) /\ Active(rollouts[r])
    BY <2>1, PassedType, HaltedType, KinTrans DEF Kin, Active, ActiveStates
  <2>. QED BY <1>1, <2>1, <2>2, ApplyCheckType, PassedBySub DEF Conclude
<1>. QED BY <1>2, <1>3

LEMMA TickStepType ==
  ASSUME TypeOK, TickStep
  PROVE  TypeOK' /\ (AllEvolve \/ \E g \in opening : OpenGroup(g))
<1>1. CASE PlanDone \/ ExecDone \/ TickDone
  BY <1>1, NoneChanges DEF PlanDone, ExecDone, TickDone, TypeOK, fileVars, worldVars, peopleVars, PCs
<1>. QED BY <1>1, TickStartType, OpenGroupType, OpenDoneType, PlanStepType, ApplyStaleType,
            ApplyUpdateType, ApplyInspectType, ApplyReadyType, ApplyCheckStepType
         DEF TickStep, ApplyStep

-----------------------------------------------------------------------------
\* Types: the world and people.

LEMMA HoldLapseType ==
  ASSUME TypeOK, NEW r \in RolloutIds, NEW t \in Targets, HoldLapse(r, t)
  PROVE  TypeOK' /\ AllEvolve
<1> DEFINE rt == [rollouts[r].tgt[t] EXCEPT !.hold = FALSE]
           ro == [rollouts[r] EXCEPT !.tgt[t] = rt]
<1>1. rollouts[r] \in Rollout
  BY DEF TypeOK
<1>2. rt \in RolloutTarget
  <2>1. rollouts[r].tgt[t] \in RolloutTarget
    BY <1>1, TgtType
  <2>. QED BY <2>1 DEF RolloutTarget
<1>3. rollouts' = [rollouts EXCEPT ![r] = ro]
  BY <1>1 DEF HoldLapse, TypeOK, Rollout
<1>4. /\ ro.state = rollouts[r].state /\ ro.nb = rollouts[r].nb
      /\ \A u \in Targets : ro.tgt[u].phase = rollouts[r].tgt[u].phase
  BY <1>1, TgtType DEF Rollout, RolloutTarget
<1> HIDE DEF rt
<1>5. Kin(rollouts[r], ro)
  BY <1>1, <1>2, OneTarget
<1> HIDE DEF ro
<1>6. Evolves(rollouts[r], ro)
  BY <1>4, <1>5 DEF Evolves, Active
<1>7. rollouts' \in [RolloutIds -> Rollout] /\ AllEvolve
  BY <1>3, <1>5, <1>6, EvolvesSelf DEF TypeOK, AllEvolve, Kin
<1>. QED BY <1>7 DEF TypeOK, HoldLapse, fileVars, worldVars, peopleVars, tickVars

LEMMA WorldStepType ==
  ASSUME TypeOK, WorldStep
  PROVE  TypeOK' /\ AllEvolve
<1>1. CASE Resolve
  BY <1>1, NoneChanges DEF Resolve, TypeOK, MaybeDigest, fileVars, worldVars, peopleVars, tickVars
<1>2. CASE CheckEnvironment
  BY <1>2, NoneChanges DEF CheckEnvironment, TypeOK, fileVars, worldVars, peopleVars, tickVars
<1>3. ASSUME NEW t \in Targets, InspectAll(t) PROVE TypeOK' /\ AllEvolve
  <2>1. live' \in [Targets -> MaybeDigest]
    BY <1>3, DoubtedType DEF InspectAll, TypeOK, MaybeDigest
  <2>. QED BY <1>3, <2>1, NoneChanges
           DEF InspectAll, TypeOK, fileVars, worldVars, peopleVars, tickVars
<1>4. ASSUME NEW t \in Targets, Land(t) \/ Fizzle(t) PROVE TypeOK' /\ AllEvolve
  BY <1>4, NoneChanges DEF Land, Fizzle, TypeOK, MaybeDigest, fileVars, peopleVars, tickVars
<1>5. ASSUME NEW f \in Files, Reload(f) PROVE TypeOK' /\ AllEvolve
  <2>1. gone' \subseteq Targets /\ opening' \subseteq Groups
    BY <1>5, FilesAssumption, FileType DEF Reload, GroupsOf, Entry, TypeOK
  <2>. QED BY <1>5, <2>1, NoneChanges DEF Reload, TypeOK, worldVars, peopleVars
<1>6. CASE Forget
  BY <1>6, NoneChanges DEF Forget, TypeOK, MaybeDigest, worldVars, peopleVars, tickVars
<1>. QED BY <1>1, <1>2, <1>3, <1>4, <1>5, <1>6, HoldLapseType DEF WorldStep

\* A rollout opens for group g: it takes an unused id, the others evolve, and
\* none of them is active in g.
Opens(g) ==
  \E r \in RolloutIds :
    /\ rollouts[r].state = "None"
    /\ rollouts'[r].group = g
    /\ \A q \in RolloutIds \ {r} :
         /\ Evolves(rollouts[q], rollouts'[q])
         /\ ~(Active(rollouts'[q]) /\ rollouts'[q].group = g)

LEMMA SyncType ==
  ASSUME TypeOK, NEW g \in Groups, NEW force \in BOOLEAN, NEW strategy \in DOMAIN StrategyOf,
         NEW f \in HeldFiles, Sync(g, force, strategy, f)
  PROVE  TypeOK' /\ (AllEvolve \/ Opens(g)) /\ aborted' = Lifted(g)
<1> DEFINE rs == Superseded(rollouts)
           found == {r \in RolloutIds : Active(rs[r]) /\ rs[r].group = g}
           Start(ro) == [ro EXCEPT !.human = TRUE, !.force = @ \/ force, !.strategy = strategy,
                           !.state = IF @ \in {"WaitingForSync", "WaitingForEnvironment"}
                                     THEN "Running" ELSE @]
<1>1. /\ rs \in [RolloutIds -> Rollout]
      /\ \A r \in RolloutIds : Evolves(rollouts[r], rs[r])
  BY SupersededEvolves DEF TypeOK
<1>2. ASSUME NEW ro \in Rollout PROVE Kin(ro, Start(ro))
  <2> DEFINE s == IF ro.state \in {"WaitingForSync", "WaitingForEnvironment"}
                  THEN "Running" ELSE ro.state
             b == ro.force \/ force
  <2>1. s \in States /\ b \in BOOLEAN
    BY DEF Rollout, States, ActiveStates
  <2>2. Start(ro) = [ro EXCEPT !.human = TRUE, !.force = b, !.strategy = strategy, !.state = s]
    BY DEF Rollout
  <2> HIDE DEF s, b, Start
  <2>. QED BY <2>1, <2>2 DEF Kin, Rollout
<1>3. ASSUME NEW ro \in Rollout PROVE Active(Start(ro)) => Active(ro)
  BY DEF Active, ActiveStates, Rollout
<1>4. /\ \/ rollouts' = rs
         \/ \E r \in found : rollouts' = [rs EXCEPT ![r] = Start(rs[r])]
         \/ /\ found = {}
            /\ \E r \in FreshIds : rollouts' = [rs EXCEPT ![r] = Start(RolloutFor(g, strategy, f))]
      /\ aborted' = Lifted(g)
      /\ UNCHANGED <<fileVars, worldVars, peopleVars, tickVars, desired, envOK, live, degraded>>
  BY DEF Sync
<1> HIDE DEF rs, Start
<1>5. rollouts' \in [RolloutIds -> Rollout] /\ (AllEvolve \/ Opens(g))
  <2>1. CASE rollouts' = rs
    BY <2>1, <1>1 DEF AllEvolve
  <2>2. ASSUME NEW r \in found, rollouts' = [rs EXCEPT ![r] = Start(rs[r])]
        PROVE  rollouts' \in [RolloutIds -> Rollout] /\ AllEvolve
    <3>1. r \in RolloutIds /\ Active(rs[r]) /\ rs[r] \in Rollout
      BY <1>1
    <3>2. Kin(rs[r], Start(rs[r]))
      BY <3>1, <1>2
    <3>3. Kin(rollouts[r], Start(rs[r])) /\ Active(rollouts[r])
      BY <3>1, <3>2, <1>1, KinTrans DEF Evolves
    <3>4. Evolves(rollouts[r], Start(rs[r]))
      BY <3>3, EvolvesActive DEF Evolves, Kin, Active, ActiveStates, EndedStates
    <3>. QED BY <2>2, <3>1, <3>3, <3>4, <1>1 DEF AllEvolve, Kin
  <2>3. ASSUME NEW r \in FreshIds, found = {},
               rollouts' = [rs EXCEPT ![r] = Start(RolloutFor(g, strategy, f))]
        PROVE  rollouts' \in [RolloutIds -> Rollout] /\ Opens(g)
    <3>1. r \in RolloutIds /\ rollouts[r].state = "None"
      BY DEF FreshIds
    <3>2. Start(RolloutFor(g, strategy, f)) \in Rollout /\ Start(RolloutFor(g, strategy, f)).group = g
      BY RolloutForType, HeldType, <1>2 DEF Kin
    <3>. QED BY <2>3, <3>1, <3>2, <1>1 DEF Opens
  <2>. QED BY <2>1, <2>2, <2>3, <1>4
<1>6. aborted' \in [Groups -> SUBSET SUBSET (Images \X Digests)]
  BY <1>4 DEF TypeOK, Lifted
<1>. QED BY <1>4, <1>5, <1>6 DEF TypeOK, fileVars, worldVars, peopleVars, tickVars

LEMMA GroupKeyType ==
  ASSUME TypeOK, NEW g \in Groups
  PROVE  GroupKey(g) \in SUBSET (Images \X Digests)
<1>1. ASSUME NEW i \in Images, Want(g, i) # NoDigest PROVE Want(g, i) \in Digests
  BY <1>1, WantType DEF MaybeDigest
<1>. QED BY <1>1 DEF GroupKey

\* A verb on rollout r that makes it a kin while it is active.
LEMMA OnRolloutType ==
  ASSUME TypeOK, NEW r \in RolloutIds, NEW ro, NEW verb, OnRollout(verb, r, ro),
         Active(rollouts[r]), Kin(rollouts[r], ro),
         aborted' \in [Groups -> SUBSET SUBSET (Images \X Digests)]
  PROVE  TypeOK' /\ AllEvolve
<1>1. rollouts' \in [RolloutIds -> Rollout] /\ AllEvolve
  BY OneChanges DEF OnRollout, TypeOK
<1>. QED BY <1>1 DEF OnRollout, TypeOK, fileVars, worldVars, peopleVars, tickVars

LEMMA VerbType ==
  ASSUME TypeOK, NEW r \in RolloutIds, Pause(r) \/ Promote(r) \/ Abort(r) \/ Retry(r)
  PROVE  TypeOK' /\ AllEvolve
<1> DEFINE old == rollouts[r]
<1>0. old \in Rollout /\ aborted \in [Groups -> SUBSET SUBSET (Images \X Digests)]
  BY DEF TypeOK
<1>1. CASE Pause(r)
  <2> DEFINE ro == IF old.open THEN [old EXCEPT !.pausePending = TRUE]
                   ELSE [old EXCEPT !.pausePending = FALSE, !.state = "Paused"]
  <2>1. Kin(old, ro)
    BY <1>0 DEF Kin, Rollout, States, ActiveStates
  <2>2. OnRollout("pause", r, ro) /\ aborted' = aborted /\ Active(old)
    BY <1>1 DEF Pause, Active, ActiveStates
  <2> HIDE DEF ro, old
  <2>. QED BY <1>0, <2>1, <2>2, OnRolloutType DEF old
<1>2. CASE Promote(r)
  <2> DEFINE s == IF old.state = "Paused" THEN "Running" ELSE old.state
             ro == [old EXCEPT !.pausePending = FALSE, !.human = TRUE, !.state = s]
  <2>1. s \in States
    BY <1>0 DEF Rollout, States, ActiveStates
  <2>2. /\ OnRollout("pause", r, ro)
        /\ aborted' = aborted
    BY <1>2 DEF Promote
  <2>3. Active(old) \/ s = old.state
    BY DEF Active, ActiveStates
  <2> HIDE DEF s
  <2>4. Kin(old, ro) /\ ro.state = s /\ ro.nb = old.nb /\ ro.tgt = old.tgt
    BY <1>0, <2>1 DEF Kin, Rollout
  <2> HIDE DEF ro, old
  <2>5. Evolves(old, ro)
    <3>1. CASE Active(old)
      BY <3>1, <1>0, <2>4, EvolvesActive
    <3>2. CASE ~Active(old)
      BY <3>2, <2>3, <2>4 DEF Evolves, Active
    <3>. QED BY <3>1, <3>2
  <2>6. rollouts' = [rollouts EXCEPT ![r] = ro]
    BY <2>2 DEF OnRollout
  <2>7. rollouts' \in [RolloutIds -> Rollout] /\ AllEvolve
    BY <2>4, <2>5, <2>6, EvolvesSelf DEF TypeOK, AllEvolve, Kin, old
  <2>. QED BY <1>0, <2>2, <2>7 DEF OnRollout, TypeOK, fileVars, worldVars, peopleVars, tickVars
<1>3. CASE Abort(r)
  <2> DEFINE end == Ended(old, "Aborted")
             ro == [end EXCEPT !.open = FALSE]
  <2>1. OnRollout("abort", r, ro) /\ Active(old)
        /\ aborted' = [aborted EXCEPT ![old.group] = {GroupKey(old.group)}]
    BY <1>3 DEF Abort
  <2>2. Kin(old, end)
    BY <1>0, EndedType DEF States, EndedStates
  <2> HIDE DEF end
  <2>3. Kin(old, ro)
    BY <2>2 DEF Kin, Rollout
  <2>4. old.group \in Groups
    BY <1>0 DEF Rollout
  <2>5. aborted' \in [Groups -> SUBSET SUBSET (Images \X Digests)]
    BY <1>0, <2>1, <2>4, GroupKeyType
  <2> HIDE DEF ro, old
  <2>. QED BY <2>1, <2>3, <2>5, OnRolloutType DEF old
<1>4. CASE Retry(r)
  <2> DEFINE ro == [old EXCEPT !.retryPending = TRUE, !.human = TRUE]
  <2>1. Kin(old, ro)
    BY <1>0 DEF Kin, Rollout
  <2>2. OnRollout("retry", r, ro) /\ aborted' = aborted /\ Active(old)
    BY <1>4 DEF Retry, Active, ActiveStates
  <2> HIDE DEF ro, old
  <2>. QED BY <1>0, <2>1, <2>2, OnRolloutType DEF old
<1>. QED BY <1>1, <1>2, <1>3, <1>4

\* What people set is among Selectors and Policies, and policies are policies.
LEMMA PeopleStepType ==
  ASSUME TypeOK, PeopleStep
  PROVE  TypeOK' /\ (AllEvolve \/ \E g \in Groups : Opens(g) /\ aborted' = Lifted(g))
<1>1. ASSUME NEW sel \in Selectors, Suspend(sel) \/ Resume(sel) PROVE TypeOK' /\ AllEvolve
  BY <1>1, NoneChanges DEF Suspend, Resume, TypeOK, fileVars, worldVars, tickVars
<1>2. ASSUME NEW g \in Groups, NEW p \in Policies, SetPolicy(g, p) PROVE TypeOK' /\ AllEvolve
  BY <1>2, NoneChanges, PoliciesAssumption DEF SetPolicy, TypeOK, fileVars, worldVars, tickVars
<1>. QED BY <1>1, <1>2, SyncType, VerbType DEF PeopleStep

-----------------------------------------------------------------------------
\* Planning a rollout takes it off the list and keeps what the plan reads.
LEMMA PlanKeeps ==
  ASSUME NEW r, PlanStep(r)
  PROVE  /\ pc = "plan" /\ pc' = "plan" /\ r \in planning /\ planning' = planning \ {r}
         /\ file' = file /\ desired' = desired /\ policy' = policy /\ aborted' = aborted
<1>1. ASSUME PlanNothing(r) PROVE Planning(r)
  BY <1>1 DEF PlanNothing
<1>2. ASSUME PlanRetry(r) PROVE Planning(r)
  BY <1>2 DEF PlanRetry
<1>3. ASSUME PlanStart(r) PROVE Planning(r)
  BY <1>3 DEF PlanStart
<1>4. ASSUME PlanOpen(r) PROVE Planning(r)
  BY <1>4 DEF PlanOpen
<1>5. ASSUME PlanLate(r) PROVE Planning(r)
  BY <1>5 DEF PlanLate
<1>6. ASSUME PlanSoak(r) PROVE Planning(r)
  BY <1>6 DEF PlanSoak
<1>7. Planning(r)
  BY <1>1, <1>2, <1>3, <1>4, <1>5, <1>6 DEF PlanStep
<1>. QED BY <1>7 DEF Planning, fileVars, peopleVars

\* Applying a result takes it off the list and keeps what was resolved.
LEMMA ApplyKeeps ==
  ASSUME ApplyStep
  PROVE  /\ pc = "apply" /\ pc' = "apply" /\ jobs' \subseteq jobs
         /\ file' = file /\ desired' = desired /\ aborted' = aborted
<1> DEFINE Kept == /\ pc = "apply" /\ pc' = "apply" /\ jobs' \subseteq jobs
                   /\ file' = file /\ desired' = desired /\ aborted' = aborted
<1>1. ASSUME NEW j, Applying(j) PROVE Kept
  BY <1>1 DEF Applying, fileVars
<1>2. ASSUME NEW r, ApplyingCheck(r) PROVE Kept
  BY <1>2 DEF ApplyingCheck, fileVars
<1> HIDE DEF Kept
<1>3. ASSUME NEW j, ApplyStale(j) PROVE Kept
  BY <1>1, <1>3 DEF ApplyStale
<1>4. ASSUME NEW j, ApplyUpdate(j) PROVE Kept
  BY <1>1, <1>4 DEF ApplyUpdate
<1>5. ASSUME NEW j, ApplyInspect(j) PROVE Kept
  BY <1>1, <1>5 DEF ApplyInspect
<1>6. ASSUME NEW j, ApplyReady(j) PROVE Kept
  BY <1>1, <1>6 DEF ApplyReady
<1>7. ASSUME NEW r, ApplyCheckStale(r) PROVE Kept
  BY <1>2, <1>7 DEF ApplyCheckStale
<1>8. ASSUME NEW r, ApplyCheckPassed(r) PROVE Kept
  BY <1>2, <1>8 DEF ApplyCheckPassed, ConcludeSoak
<1>9. ASSUME NEW r, ApplyCheckFailed(r) PROVE Kept
  BY <1>2, <1>9 DEF ApplyCheckFailed, ConcludeSoak
<1>10. Kept
  BY <1>3, <1>4, <1>5, <1>6, <1>7, <1>8, <1>9 DEF ApplyStep
<1>. QED BY <1>10 DEF Kept

-----------------------------------------------------------------------------
\* What every step does to aborts.

LEMMA AbortedStep ==
  ASSUME [Next]_vars
  PROVE  \/ aborted' = aborted
         \/ \E g \in opening : OpenGroup(g)
         \/ \E g \in Groups :
              /\ aborted' = Lifted(g)
              /\ \E force \in BOOLEAN, s \in DOMAIN StrategyOf, f \in HeldFiles : Sync(g, force, s, f)
         \/ \E r \in RolloutIds : Abort(r)
<1>1. CASE TickStep
  <2>1. TickStart \/ OpenDone \/ PlanDone \/ ExecDone \/ TickDone => aborted' = aborted
    BY DEF TickStart, OpenDone, PlanDone, ExecDone, TickDone
  <2>. QED BY <1>1, <2>1, PlanKeeps, ApplyKeeps DEF TickStep
<1>2. CASE WorldStep
  <2>1. Resolve \/ CheckEnvironment \/ Forget => aborted' = aborted
    BY DEF Resolve, CheckEnvironment, Forget
  <2>2. ASSUME NEW t, InspectAll(t) \/ Land(t) \/ Fizzle(t) PROVE aborted' = aborted
    BY <2>2 DEF InspectAll, Land, Fizzle
  <2>3. ASSUME NEW f, Reload(f) PROVE aborted' = aborted
    BY <2>3 DEF Reload
  <2>4. ASSUME NEW r, NEW t, HoldLapse(r, t) PROVE aborted' = aborted
    BY <2>4 DEF HoldLapse
  <2>. QED BY <1>2, <2>1, <2>2, <2>3, <2>4 DEF WorldStep
<1>3. CASE PeopleStep
  <2>1. ASSUME NEW g, NEW force, NEW s, NEW f, Sync(g, force, s, f) PROVE aborted' = Lifted(g)
    BY <2>1 DEF Sync
  <2>2. ASSUME NEW sel, Suspend(sel) \/ Resume(sel) PROVE aborted' = aborted
    BY <2>2 DEF Suspend, Resume
  <2>3. ASSUME NEW g, NEW p, SetPolicy(g, p) PROVE aborted' = aborted
    BY <2>3 DEF SetPolicy
  <2>4. ASSUME NEW r, Pause(r) \/ Promote(r) \/ Retry(r) PROVE aborted' = aborted
    BY <2>4 DEF Pause, Promote, Retry
  <2>. QED BY <1>3, <2>1, <2>2, <2>3, <2>4 DEF PeopleStep
<1>4. CASE UNCHANGED vars
  BY <1>4 DEF vars
<1>. QED BY <1>1, <1>2, <1>3, <1>4 DEF Next

-----------------------------------------------------------------------------
\* Theorems.

LEMMA NextType ==
  ASSUME TypeOK, [Next]_vars
  PROVE  /\ TypeOK'
         /\ \/ AllEvolve
            \/ \E g \in opening : OpenGroup(g)
            \/ \E g \in Groups : Opens(g) /\ aborted' = Lifted(g)
<1>1. CASE UNCHANGED vars
  BY <1>1, NoneChanges DEF vars, TypeOK
<1>. QED BY <1>1, TickStepType, WorldStepType, PeopleStepType DEF Next

LEMMA InitType ==
  ASSUME Init
  PROVE  TypeOK
<1>1. FirstDigest \in Digests
  <2>1. \E d \in Digests : \A e \in Digests : d <= e
    BY NamesAssumption, LeastNat
  <2>. QED BY <2>1 DEF FirstDigest
<1>2. DefaultPolicy \in Policy
  BY PolicyAssumption
<1>. QED BY <1>1, <1>2, NoRolloutType, FilesAssumption DEF Init, TypeOK, MaybeDigest, PCs, ImagesOf

\* Whatever the constants are, the variables keep their types.
THEOREM TypeCorrect == Spec => []TypeOK
<1>1. Init => TypeOK
  BY InitType
<1>2. TypeOK /\ [Next]_vars => TypeOK'
  BY NextType
<1>. QED BY <1>1, <1>2, PTL DEF Spec

\* The tick opens a rollout only in a group without one.
LEMMA OpenGroupOpens ==
  ASSUME TypeOK, NEW g \in opening, OpenGroup(g)
  PROVE  \/ AllEvolve /\ (aborted' = aborted \/ aborted' = Lifted(g))
         \/ Opens(g) /\ aborted' = Lifted(g)
<1>0. g \in Groups
  BY DEF TypeOK
<1>1. CASE rollouts' = rollouts
  BY <1>1, NoneChanges DEF TypeOK, OpenGroup
<1>2. ASSUME NEW r \in FreshIds, NEW m, ActiveIn(g) = {}, aborted' = Lifted(g),
             rollouts' = [rollouts EXCEPT ![r] =
               [RolloutFor(g, policy[g].strategy, file) EXCEPT !.state = m]]
      PROVE  Opens(g)
  <2>1. r \in RolloutIds /\ rollouts[r].state = "None"
    BY DEF FreshIds
  <2>2. RolloutFor(g, policy[g].strategy, file) \in Rollout /\ RolloutFor(g, policy[g].strategy, file).group = g
    BY <1>0, RolloutForType DEF TypeOK, Policy
  <2>3. rollouts'[r].group = g
    BY <1>2, <2>1, <2>2 DEF TypeOK, Rollout
  <2>4. ASSUME NEW q \in RolloutIds \ {r}
        PROVE  Evolves(rollouts[q], rollouts'[q]) /\ ~(Active(rollouts'[q]) /\ rollouts'[q].group = g)
    <3>1. rollouts'[q] = rollouts[q] /\ rollouts[q] \in Rollout
      BY <1>2, <2>4 DEF TypeOK
    <3>. QED BY <1>2, <2>4, <3>1, EvolvesSelf DEF ActiveIn, ActiveIds
  <2>. QED BY <2>1, <2>3, <2>4 DEF Opens
<1>3. \/ rollouts' = rollouts
      \/ /\ ActiveIn(g) = {} /\ aborted' = Lifted(g)
         /\ \E r \in FreshIds, m \in {"WaitingForSync", "Running"} :
              rollouts' = [rollouts EXCEPT ![r] =
                [RolloutFor(g, policy[g].strategy, file) EXCEPT !.state = m]]
  BY DEF OpenGroup
<1>. QED BY <1>1, <1>2, <1>3

\* Abort leaves its group without an active rollout.
LEMMA AbortEnds ==
  ASSUME TypeOK, OneActivePerGroup, NEW r \in RolloutIds, Abort(r)
  PROVE  /\ aborted' = [aborted EXCEPT ![rollouts[r].group] = {GroupKey(rollouts[r].group)}]
         /\ ~Active(rollouts'[r])
<1>1. rollouts' = [rollouts EXCEPT ![r] = [Ended(rollouts[r], "Aborted") EXCEPT !.open = FALSE]]
  BY DEF Abort, OnRollout
<1>2. Ended(rollouts[r], "Aborted") \in Rollout /\ Ended(rollouts[r], "Aborted").state = "Aborted"
  BY EndedType DEF TypeOK, States, EndedStates, Kin
<1>3. rollouts'[r].state = "Aborted"
  BY <1>1, <1>2 DEF TypeOK, Rollout
<1>. QED BY <1>3 DEF Abort, Active, ActiveStates

\* One active rollout per group and what an abort promises, together: an abort
\* ends one rollout, and leaves none only because there was one.
OneInv == OneActivePerGroup /\ AbortHolds

LEMMA OneStep ==
  ASSUME TypeOK, OneInv, [Next]_vars
  PROVE  OneInv'
<1>1. \/ AllEvolve /\ (aborted' = aborted \/ \E g \in Groups : aborted' = Lifted(g))
      \/ AllEvolve /\ \E r \in RolloutIds : Abort(r)
      \/ \E g \in Groups : Opens(g) /\ aborted' = Lifted(g)
  <2>1. opening \subseteq Groups
    BY DEF TypeOK
  <2>2. CASE \E g \in opening : OpenGroup(g)
    BY <2>1, <2>2, OpenGroupOpens
  <2>3. CASE AllEvolve
    BY <2>2, <2>3, AbortedStep
  <2>. QED BY <2>2, <2>3, NextType
<1>2. ASSUME AllEvolve PROVE OneActivePerGroup'
  BY <1>2 DEF OneInv, OneActivePerGroup, ActiveIds, AllEvolve, Evolves, Kin
<1>3. ASSUME AllEvolve, aborted' = aborted \/ \E g \in Groups : aborted' = Lifted(g)
      PROVE  AbortHolds'
  <2>1. ASSUME NEW g \in Groups, aborted'[g] # {} PROVE aborted[g] # {}
    BY <1>3, <2>1 DEF TypeOK, Lifted
  <2>. QED BY <1>3, <2>1 DEF OneInv, AbortHolds, ActiveIn, ActiveIds, AllEvolve, Evolves, Kin
<1>4. ASSUME AllEvolve, NEW r \in RolloutIds, Abort(r) PROVE AbortHolds'
  <2>1. /\ aborted' = [aborted EXCEPT ![rollouts[r].group] = {GroupKey(rollouts[r].group)}]
        /\ ~Active(rollouts'[r])
    BY <1>4, AbortEnds DEF OneInv
  <2>2. Active(rollouts[r])
    BY <1>4 DEF Abort
  <2>3. ASSUME NEW g \in Groups, aborted'[g] # {}, NEW q \in RolloutIds,
               Active(rollouts'[q]), rollouts'[q].group = g
        PROVE  FALSE
    <3>1. Active(rollouts[q]) /\ rollouts[q].group = g
      BY <1>4, <2>3 DEF AllEvolve, Evolves, Kin
    <3>2. CASE g = rollouts[r].group
      <4>1. q = r
        BY <2>2, <3>1, <3>2 DEF OneInv, OneActivePerGroup, ActiveIds
      <4>. QED BY <2>1, <2>3, <4>1
    <3>3. CASE g # rollouts[r].group
      <4>1. aborted[g] # {}
        BY <2>1, <2>3, <3>3 DEF TypeOK
      <4>. QED BY <3>1, <4>1 DEF OneInv, AbortHolds, ActiveIn, ActiveIds
    <3>. QED BY <3>2, <3>3
  <2>. QED BY <2>3 DEF AbortHolds, ActiveIn, ActiveIds
<1>5. ASSUME NEW g \in Groups, Opens(g), aborted' = Lifted(g) PROVE OneInv'
  <2>1. PICK r \in RolloutIds :
          /\ rollouts'[r].group = g
          /\ \A q \in RolloutIds \ {r} :
               /\ Evolves(rollouts[q], rollouts'[q])
               /\ ~(Active(rollouts'[q]) /\ rollouts'[q].group = g)
    BY <1>5 DEF Opens
  <2>2. ASSUME NEW q \in RolloutIds \ {r}, Active(rollouts'[q])
        PROVE  /\ Active(rollouts[q])
               /\ rollouts'[q].group = rollouts[q].group
               /\ rollouts'[q].group # g
    BY <2>1, <2>2 DEF Evolves, Kin
  <2>3. OneActivePerGroup'
    <3>1. ASSUME NEW p \in RolloutIds, NEW q \in RolloutIds, Active(rollouts'[p]), Active(rollouts'[q]),
                 rollouts'[p].group = rollouts'[q].group
          PROVE  p = q
      BY <2>1, <2>2, <3>1 DEF OneInv, OneActivePerGroup, ActiveIds
    <3>. QED BY <3>1 DEF OneActivePerGroup, ActiveIds
  <2>4. AbortHolds'
    <3>1. ASSUME NEW h \in Groups, aborted'[h] # {} PROVE h # g /\ aborted[h] # {}
      BY <1>5, <3>1 DEF TypeOK, Lifted
    <3>2. ASSUME NEW h \in Groups, aborted'[h] # {}, NEW q \in RolloutIds,
                 Active(rollouts'[q]), rollouts'[q].group = h
          PROVE  FALSE
      BY <2>1, <2>2, <3>1, <3>2 DEF OneInv, AbortHolds, ActiveIn, ActiveIds
    <3>. QED BY <3>2 DEF AbortHolds, ActiveIn, ActiveIds
  <2>. QED BY <2>3, <2>4 DEF OneInv
<1>. QED BY <1>1, <1>2, <1>3, <1>4, <1>5 DEF OneInv

\* For every fleet and every interleaving of the tick with people, the watcher
\* and the world, a group has at most one active rollout.
THEOREM OneActive == Spec => []OneActivePerGroup
<1>1. Init => TypeOK /\ OneInv
  <2>1. Init => OneInv
    BY DEF Init, OneInv, OneActivePerGroup, AbortHolds, ActiveIds, ActiveIn, Active, NoRollout,
           ActiveStates
  <2>. QED BY <2>1, InitType
<1>2. TypeOK /\ OneInv /\ [Next]_vars => (TypeOK /\ OneInv)'
  BY NextType, OneStep
<1>3. OneInv => OneActivePerGroup
  BY DEF OneInv
<1>. QED BY <1>1, <1>2, <1>3, PTL DEF Spec

\* While an abort holds for a group nothing opens a rollout there.
THEOREM AbortsHold == Spec => []AbortHolds
<1>1. Init => TypeOK /\ OneInv
  <2>1. Init => OneInv
    BY DEF Init, OneInv, OneActivePerGroup, AbortHolds, ActiveIds, ActiveIn, Active, NoRollout,
           ActiveStates
  <2>. QED BY <2>1, InitType
<1>2. TypeOK /\ OneInv /\ [Next]_vars => (TypeOK /\ OneInv)'
  BY NextType, OneStep
<1>3. OneInv => AbortHolds
  BY DEF OneInv
<1>. QED BY <1>1, <1>2, <1>3, PTL DEF Spec

\* What has ended stays as it ended, whatever result of it is still to come.
THEOREM FinishedStays == Spec => FinishedStaysFinished
<1> DEFINE Stays == \A r \in RolloutIds : rollouts[r].state \in EndedStates =>
       /\ rollouts'[r].state = rollouts[r].state
       /\ rollouts'[r].nb = rollouts[r].nb
       /\ \A t \in Targets : rollouts'[r].tgt[t].phase = rollouts[r].tgt[t].phase
<1>1. TypeOK /\ [Next]_vars => [Stays]_vars
  <2> SUFFICES ASSUME TypeOK, [Next]_vars PROVE Stays
    OBVIOUS
  <2>1. CASE AllEvolve
    BY <2>1 DEF AllEvolve, Evolves
  <2>2. ASSUME NEW g, Opens(g) PROVE Stays
    <3>1. PICK r \in RolloutIds :
            /\ rollouts[r].state = "None"
            /\ \A q \in RolloutIds \ {r} : Evolves(rollouts[q], rollouts'[q])
      BY <2>2 DEF Opens
    <3>. QED BY <3>1 DEF Evolves, EndedStates
  <2> HIDE DEF Stays
  <2>. QED BY <2>1, <2>2, NextType, OpenGroupOpens
<1>. QED BY <1>1, TypeCorrect, PTL DEF Spec, FinishedStaysFinished

-----------------------------------------------------------------------------
(***************************************************************************)
(* The disruption budget is never exceeded while the targets file stays:   *)
(* Controller implements BudgetLedger.  The argument: the walk that cuts a *)
(* batch keeps the nodes in flight within the budget, and every other step *)
(* gives nodes back, because a retry reopens only quarantined, hence free, *)
(* nodes and an end holds only nodes that were counted already.            *)
(***************************************************************************)

-----------------------------------------------------------------------------
\* One rollout: what changes of it do to its shape and to the nodes it charges.

\* Everything but phases and progress flags stays.
Fixed(ro, new) ==
  /\ new.nb = ro.nb
  /\ \A t \in Targets :
       /\ new.tgt[t].batch = ro.tgt[t].batch
       /\ new.tgt[t].node = ro.tgt[t].node
       /\ new.tgt[t].free = ro.tgt[t].free
       /\ new.tgt[t].hold = ro.tgt[t].hold
       /\ new.tgt[t].phase = "none" <=> ro.tgt[t].phase = "none"

\* The nodes and the set of targets stay.
Same(ro, new) ==
  \A t \in Targets :
    /\ new.tgt[t].node = ro.tgt[t].node
    /\ new.tgt[t].phase = "none" <=> ro.tgt[t].phase = "none"

\* No target is charged that was not.
Lighter(ro, new) == Charged(new) \subseteq Charged(ro)

\* What the proofs ask of a change of a rollout.
Sound(ro, new) == Kin(ro, new) /\ Same(ro, new) /\ Shape(new) /\ Lighter(ro, new)

LEMMA SoundTrans ==
  ASSUME NEW a, NEW b, NEW c, Sound(a, b), Sound(b, c)
  PROVE  Sound(a, c)
<1>1. Same(a, c)
  BY DEF Sound, Same
<1>. QED BY <1>1, KinTrans DEF Sound, Lighter

LEMMA SoundSelf ==
  ASSUME NEW ro \in Rollout, Shape(ro)
  PROVE  Sound(ro, ro)
  BY DEF Sound, Kin, Same, Lighter

LEMMA InBatchFixed ==
  ASSUME NEW ro, NEW new, Fixed(ro, new)
  PROVE  InBatch(new) = InBatch(ro) /\ Same(ro, new)
  BY DEF Fixed, InBatch, Same

\* An active rollout whose batch does not open and whose skipped targets stay
\* skipped charges no more.
LEMMA FixedLighter ==
  ASSUME NEW ro, NEW new, Fixed(ro, new), Active(ro), Active(new),
         new.open => ro.open,
         \A t \in InBatch(ro) : ro.tgt[t].phase = "skipped" => new.tgt[t].phase = "skipped"
  PROVE  Lighter(ro, new)
<1>1. InBatch(new) = InBatch(ro)
  BY InBatchFixed
<1>2. Tracked(new) \subseteq Tracked(ro)
  BY <1>1 DEF Tracked, Fixed
<1>3. \A t \in Tracked(new) : new.tgt[t].free = ro.tgt[t].free
  BY DEF Fixed, Tracked, InBatch
<1>. QED BY <1>2, <1>3 DEF Lighter, Charged

\* What ending does to one target.
LEMMA EndedTarget ==
  ASSUME NEW ro \in Rollout, NEW s, NEW t \in Targets
  PROVE  LET new == Ended(ro, s).tgt[t]
             old == ro.tgt[t]
         IN /\ new.node = old.node /\ new.free = old.free
            /\ new.phase = "none" <=> old.phase = "none"
            /\ new.hold => old.hold \/ old.phase = "updating"
<1>1. ro.tgt[t] \in RolloutTarget
  BY TgtType
<1>2. Ended(ro, s).tgt[t] =
        IF ro.tgt[t].phase \in {"updating", "ready"}
        THEN [ro.tgt[t] EXCEPT
                !.hold = @ \/ (ro.tgt[t].phase = "updating" /\ ~ro.tgt[t].updated),
                !.phase = "skipped"]
        ELSE ro.tgt[t]
  BY DEF Ended, Rollout
<1>3. CASE ro.tgt[t].phase \in {"updating", "ready"}
  <2> DEFINE b == ro.tgt[t].hold \/ (ro.tgt[t].phase = "updating" /\ ~ro.tgt[t].updated)
  <2>1. Ended(ro, s).tgt[t] = [ro.tgt[t] EXCEPT !.hold = b, !.phase = "skipped"]
    BY <1>2, <1>3
  <2>2. b => ro.tgt[t].hold \/ ro.tgt[t].phase = "updating"
    OBVIOUS
  <2> HIDE DEF b
  <2>. QED BY <1>1, <1>3, <2>1, <2>2 DEF RolloutTarget
<1>4. CASE ro.tgt[t].phase \notin {"updating", "ready"}
  BY <1>2, <1>4
<1>. QED BY <1>3, <1>4

LEMMA EndedSound ==
  ASSUME NEW ro \in Rollout, Active(ro), Shape(ro), NEW s \in EndedStates
  PROVE  Sound(ro, Ended(ro, s)) /\ ~Active(Ended(ro, s))
<1> DEFINE new == Ended(ro, s)
<1>1. Kin(ro, new) /\ new.state = s
  BY EndedType DEF States
<1>2. ~Active(new)
  BY <1>1 DEF Active, ActiveStates, EndedStates
<1>3. Same(ro, new)
  BY EndedTarget DEF Same
<1>4. ASSUME NEW t \in Charged(new) PROVE t \in Charged(ro)
  <2>1. t \in Targets /\ new.tgt[t].hold /\ ~new.tgt[t].free
    BY <1>2 DEF Charged, Tracked
  <2>2. ~ro.tgt[t].free /\ ro.tgt[t].phase = "updating"
    BY <2>1, EndedTarget DEF Shape
  <2>3. t \in InBatch(ro) /\ ro.open
    BY <2>1, <2>2 DEF Shape, InBatch
  <2>. QED BY <2>1, <2>2, <2>3 DEF Charged, Tracked
<1>. QED BY <1>1, <1>2, <1>3, <1>4 DEF Sound, Lighter, Shape

\* What the operators that only move phases do to the rest of a target.
LEMMA WithoutLostFixed ==
  ASSUME NEW ro \in Rollout, NEW lost, NEW phases
  PROVE  LET new == WithoutLost(ro, lost, phases)
         IN /\ Fixed(ro, new)
            /\ new.state = ro.state /\ new.open = ro.open /\ new.force = ro.force
            /\ \A t \in Targets : new.tgt[t].phase =
                 IF t \in lost \cap InBatch(ro) /\ ro.tgt[t].phase \in phases
                 THEN "skipped" ELSE ro.tgt[t].phase
<1> DEFINE new == WithoutLost(ro, lost, phases)
<1>1. ASSUME NEW t \in Targets
      PROVE  new.tgt[t] = IF t \in lost \cap InBatch(ro) /\ ro.tgt[t].phase \in phases
                          THEN [ro.tgt[t] EXCEPT !.phase = "skipped"] ELSE ro.tgt[t]
  BY DEF WithoutLost, Rollout
<1>2. /\ new.nb = ro.nb /\ new.state = ro.state /\ new.open = ro.open /\ new.force = ro.force
  BY DEF WithoutLost, Rollout
<1> HIDE DEF new
<1>3. ASSUME NEW t \in Targets
      PROVE  /\ new.tgt[t].batch = ro.tgt[t].batch /\ new.tgt[t].node = ro.tgt[t].node
             /\ new.tgt[t].free = ro.tgt[t].free /\ new.tgt[t].hold = ro.tgt[t].hold
             /\ new.tgt[t].phase = "none" <=> ro.tgt[t].phase = "none"
             /\ new.tgt[t].phase = IF t \in lost \cap InBatch(ro) /\ ro.tgt[t].phase \in phases
                                   THEN "skipped" ELSE ro.tgt[t].phase
  <2>1. ro.tgt[t] \in RolloutTarget
    BY TgtType
  <2>. QED BY <1>1, <2>1 DEF RolloutTarget, InBatch
<1>. QED BY <1>2, <1>3 DEF Fixed, new

LEMMA WithoutLostSound ==
  ASSUME NEW ro \in Rollout, Active(ro), Shape(ro), NEW lost, NEW phases,
         ro.open \/ ro.state \notin {"Halted"}
  PROVE  Sound(ro, WithoutLost(ro, lost, phases))
<1> DEFINE new == WithoutLost(ro, lost, phases)
<1>1. Kin(ro, new)
  BY WithoutLostType
<1>2. /\ Fixed(ro, new)
      /\ new.state = ro.state /\ new.open = ro.open
      /\ \A t \in Targets : new.tgt[t].phase =
           IF t \in lost \cap InBatch(ro) /\ ro.tgt[t].phase \in phases
           THEN "skipped" ELSE ro.tgt[t].phase
  BY WithoutLostFixed
<1> HIDE DEF new
<1>3. InBatch(new) = InBatch(ro) /\ Same(ro, new)
  BY <1>2, InBatchFixed
<1>4. Active(new)
  BY <1>2 DEF Active
<1>5. Shape(new)
  BY <1>2, <1>3 DEF Shape, Active, Fixed, TargetsIn, InBatch
<1>6. Lighter(ro, new)
  BY <1>2, <1>4, FixedLighter DEF InBatch
<1>. QED BY <1>1, <1>3, <1>5, <1>6 DEF Sound, new

LEMMA AdvancedFixed ==
  ASSUME NEW ro \in Rollout
  PROVE  LET new == Advanced(ro)
         IN /\ Fixed(ro, new)
            /\ new.state = ro.state /\ new.open = ro.open
            /\ \A t \in Targets : new.tgt[t].phase =
                 IF t \notin InBatch(ro) THEN ro.tgt[t].phase
                 ELSE IF ro.tgt[t].phase = "pending" THEN "updating"
                 ELSE IF ro.tgt[t].phase = "updating" /\ ro.tgt[t].updated /\ ro.force THEN "ready"
                 ELSE ro.tgt[t].phase
<1> DEFINE new == Advanced(ro)
           Move(t) == IF t \notin InBatch(ro) THEN ro.tgt[t].phase
                      ELSE IF ro.tgt[t].phase = "pending" THEN "updating"
                      ELSE IF ro.tgt[t].phase = "updating" /\ ro.tgt[t].updated /\ ro.force THEN "ready"
                      ELSE ro.tgt[t].phase
<1>1. ASSUME NEW t \in Targets
      PROVE  new.tgt[t] = [ro.tgt[t] EXCEPT !.phase = Move(t)]
  <2>1. ro.tgt[t] \in RolloutTarget
    BY TgtType
  <2>2. ro.tgt[t] = [ro.tgt[t] EXCEPT !.phase = ro.tgt[t].phase]
    BY <2>1 DEF RolloutTarget
  <2>. QED BY <2>2 DEF Advanced, Rollout
<1>2. new.nb = ro.nb /\ new.state = ro.state /\ new.open = ro.open
  BY DEF Advanced, Rollout
<1>3. \A t \in Targets : Move(t) = "none" <=> ro.tgt[t].phase = "none"
  OBVIOUS
<1> HIDE DEF new, Move
<1>4. ASSUME NEW t \in Targets
      PROVE  /\ new.tgt[t].batch = ro.tgt[t].batch /\ new.tgt[t].node = ro.tgt[t].node
             /\ new.tgt[t].free = ro.tgt[t].free /\ new.tgt[t].hold = ro.tgt[t].hold
             /\ new.tgt[t].phase = Move(t)
  <2>1. ro.tgt[t] \in RolloutTarget
    BY TgtType
  <2>. QED BY <1>1, <2>1 DEF RolloutTarget
<1>5. Fixed(ro, new)
  BY <1>2, <1>3, <1>4 DEF Fixed
<1>. QED BY <1>2, <1>4, <1>5 DEF new, Move

LEMMA AdvancedSound ==
  ASSUME NEW ro \in Rollout, Active(ro), Shape(ro), ro.open, CanStart(ro)
  PROVE  Sound(ro, Advanced(ro)) /\ Advanced(ro).state = ro.state /\ Advanced(ro).open
<1> DEFINE new == Advanced(ro)
<1>1. Kin(ro, new)
  BY AdvancedType
<1>2. /\ Fixed(ro, new)
      /\ new.state = ro.state /\ new.open = ro.open
      /\ \A t \in Targets : new.tgt[t].phase =
           IF t \notin InBatch(ro) THEN ro.tgt[t].phase
           ELSE IF ro.tgt[t].phase = "pending" THEN "updating"
           ELSE IF ro.tgt[t].phase = "updating" /\ ro.tgt[t].updated /\ ro.force THEN "ready"
           ELSE ro.tgt[t].phase
  BY AdvancedFixed
<1> HIDE DEF new
<1>3. InBatch(new) = InBatch(ro) /\ Same(ro, new)
  BY <1>2, InBatchFixed
<1>4. Active(new)
  BY <1>2 DEF Active
<1>5. Shape(new)
  BY <1>2, <1>3 DEF Shape, Active, Fixed, TargetsIn, InBatch, CanStart
<1>6. Lighter(ro, new)
  BY <1>2, <1>4, FixedLighter DEF InBatch
<1>. QED BY <1>1, <1>2, <1>3, <1>5, <1>6 DEF Sound, new

\* With no program to run for, the open batch is settled.
LEMMA AdvancedSettled ==
  ASSUME NEW ro \in Rollout, Active(ro), Shape(ro), ro.open, Waiting(ro) = {}
  PROVE  InBatch(Advanced(ro)) \subseteq TargetsIn(Advanced(ro), {"ready", "skipped"})
<1>1. InBatch(Advanced(ro)) = InBatch(ro)
  BY AdvancedFixed, InBatchFixed
<1>2. ASSUME NEW t \in InBatch(ro)
      PROVE  Advanced(ro).tgt[t].phase \in {"ready", "skipped"}
  <2>1. t \in Targets /\ ro.tgt[t].phase \in {"pending", "updating", "ready", "skipped"}
    BY DEF Shape, InBatch, TargetsIn
  <2>2. /\ ro.tgt[t].phase # "pending"
        /\ ro.tgt[t].phase = "updating" => ro.tgt[t].updated /\ ro.force
    BY DEF Waiting
  <2>. QED BY <2>1, <2>2, AdvancedFixed
<1>. QED BY <1>1, <1>2 DEF TargetsIn, InBatch

LEMMA SoakingSound ==
  ASSUME NEW ro \in Rollout, Active(ro), Shape(ro),
         InBatch(ro) \subseteq TargetsIn(ro, {"ready", "skipped"}), ro.state # "Halted"
  PROVE  Sound(ro, Soaking(ro)) /\ Soaking(ro).state = "Soaking"
<1> DEFINE new == Soaking(ro)
<1>1. Kin(ro, new)
  BY SoakingType
<1>2. new.state = "Soaking" /\ new.open = ro.open /\ new.nb = ro.nb /\ new.tgt = ro.tgt
  BY DEF Soaking, Rollout
<1> HIDE DEF new
<1>3. Active(new)
  BY <1>2 DEF Active, ActiveStates
<1>4. Shape(new)
  BY <1>2, <1>3 DEF Shape, TargetsIn, InBatch
<1>5. Lighter(ro, new)
  BY <1>2, <1>3 DEF Lighter, Charged, Tracked, InBatch
<1>. QED BY <1>1, <1>2, <1>4, <1>5 DEF Sound, Same, new

\* What halting does to a target.
LEMMA HaltedFixed ==
  ASSUME NEW ro \in Rollout
  PROVE  LET new == Halted(ro)
         IN /\ Fixed(ro, new)
            /\ new.state = "Halted" /\ ~new.open
            /\ \A t \in Targets :
                 new.tgt[t].phase = IF t \in HeldBy(ro) THEN "failed" ELSE ro.tgt[t].phase
<1> DEFINE new == Halted(ro)
<1>1. ASSUME NEW t \in Targets
      PROVE  new.tgt[t] = IF t \in HeldBy(ro) THEN [ro.tgt[t] EXCEPT !.phase = "failed"]
                          ELSE ro.tgt[t]
  BY DEF Halted, Rollout
<1>2. new.nb = ro.nb /\ new.state = "Halted" /\ ~new.open
  BY DEF Halted, Rollout
<1> HIDE DEF new
<1>3. ASSUME NEW t \in Targets
      PROVE  /\ new.tgt[t].batch = ro.tgt[t].batch /\ new.tgt[t].node = ro.tgt[t].node
             /\ new.tgt[t].free = ro.tgt[t].free /\ new.tgt[t].hold = ro.tgt[t].hold
             /\ new.tgt[t].phase = "none" <=> ro.tgt[t].phase = "none"
             /\ new.tgt[t].phase = IF t \in HeldBy(ro) THEN "failed" ELSE ro.tgt[t].phase
  <2>1. ro.tgt[t] \in RolloutTarget
    BY TgtType
  <2>. QED BY <1>1, <2>1 DEF RolloutTarget, HeldBy, InBatch
<1>. QED BY <1>2, <1>3 DEF Fixed, new

\* A batch with targets under way, ready or skipped halts: what is not
\* skipped has failed, and nothing is charged.
LEMMA HaltedSound ==
  ASSUME NEW ro \in Rollout, Active(ro), Shape(ro),
         InBatch(ro) \subseteq TargetsIn(ro, {"pending", "updating", "ready", "skipped"})
  PROVE  /\ Sound(ro, Halted(ro))
         /\ Failed(Halted(ro)) \subseteq HeldBy(ro)
<1> DEFINE new == Halted(ro)
<1>1. Kin(ro, new)
  BY HaltedType
<1>2. /\ Fixed(ro, new)
      /\ new.state = "Halted" /\ ~new.open
      /\ \A t \in Targets :
           new.tgt[t].phase = IF t \in HeldBy(ro) THEN "failed" ELSE ro.tgt[t].phase
  BY HaltedFixed
<1> HIDE DEF new
<1>3. InBatch(new) = InBatch(ro) /\ Same(ro, new)
  BY <1>2, InBatchFixed
<1>4. Active(new)
  BY <1>2 DEF Active, ActiveStates
<1>5. \A t \in InBatch(ro) : new.tgt[t].phase \in {"failed", "skipped"}
  BY <1>2 DEF HeldBy, TargetsIn, InBatch
<1>6. ASSUME NEW t \in Targets PROVE new.tgt[t].phase \notin {"updating", "ready"}
  <2>1. CASE t \in InBatch(ro)
    BY <1>5, <2>1
  <2>2. CASE t \notin InBatch(ro)
    BY <1>2, <2>2 DEF HeldBy, InBatch, Shape
  <2>. QED BY <2>1, <2>2
<1>7. Shape(new)
  BY <1>2, <1>3, <1>5, <1>6 DEF Shape, Fixed, TargetsIn, InBatch
<1>8. Lighter(ro, new)
  BY <1>2, <1>4 DEF Lighter, Charged, Tracked
<1>9. Failed(new) \subseteq HeldBy(ro)
  BY <1>2, <1>3 DEF Failed, HeldBy, InBatch, TargetsIn
<1>. QED BY <1>1, <1>3, <1>7, <1>8, <1>9 DEF Sound, new

LEMMA PassedFixed ==
  ASSUME NEW ro \in Rollout
  PROVE  LET new == Passed(ro)
         IN /\ Fixed(ro, new)
            /\ new.state \in {"Paused", "Running"} /\ ~new.open
            /\ \A t \in Targets :
                 new.tgt[t].phase = IF t \in InBatch(ro) /\ ro.tgt[t].phase = "ready"
                                    THEN "passed" ELSE ro.tgt[t].phase
<1> DEFINE new == Passed(ro)
<1>1. ASSUME NEW t \in Targets
      PROVE  new.tgt[t] = IF t \in InBatch(ro) /\ ro.tgt[t].phase = "ready"
                          THEN [ro.tgt[t] EXCEPT !.phase = "passed"] ELSE ro.tgt[t]
  BY DEF Passed, Rollout
<1>2. new.nb = ro.nb /\ new.state \in {"Paused", "Running"} /\ ~new.open
  BY DEF Passed, Rollout
<1> HIDE DEF new
<1>3. ASSUME NEW t \in Targets
      PROVE  /\ new.tgt[t].batch = ro.tgt[t].batch /\ new.tgt[t].node = ro.tgt[t].node
             /\ new.tgt[t].free = ro.tgt[t].free /\ new.tgt[t].hold = ro.tgt[t].hold
             /\ new.tgt[t].phase = "none" <=> ro.tgt[t].phase = "none"
             /\ new.tgt[t].phase = IF t \in InBatch(ro) /\ ro.tgt[t].phase = "ready"
                                   THEN "passed" ELSE ro.tgt[t].phase
  <2>1. ro.tgt[t] \in RolloutTarget
    BY TgtType
  <2>. QED BY <1>1, <2>1 DEF RolloutTarget
<1>. QED BY <1>2, <1>3 DEF Fixed, new

LEMMA PassedSound ==
  ASSUME NEW ro \in Rollout, Active(ro), Shape(ro),
         InBatch(ro) \subseteq TargetsIn(ro, {"ready", "skipped"})
  PROVE  Sound(ro, Passed(ro)) /\ Passed(ro).state \in {"Paused", "Running"}
<1> DEFINE new == Passed(ro)
<1>1. Kin(ro, new)
  BY PassedType
<1>2. /\ Fixed(ro, new)
      /\ new.state \in {"Paused", "Running"} /\ ~new.open
      /\ \A t \in Targets :
           new.tgt[t].phase = IF t \in InBatch(ro) /\ ro.tgt[t].phase = "ready"
                              THEN "passed" ELSE ro.tgt[t].phase
  BY PassedFixed
<1> HIDE DEF new
<1>3. InBatch(new) = InBatch(ro) /\ Same(ro, new)
  BY <1>2, InBatchFixed
<1>4. Active(new)
  BY <1>2 DEF Active, ActiveStates
<1>5. ASSUME NEW t \in Targets PROVE new.tgt[t].phase \notin {"updating", "ready"}
  <2>1. CASE t \in InBatch(ro)
    BY <1>2, <2>1 DEF TargetsIn
  <2>2. CASE t \notin InBatch(ro)
    BY <1>2, <2>2 DEF InBatch, Shape
  <2>. QED BY <2>1, <2>2
<1>6. Shape(new)
  BY <1>2, <1>5 DEF Shape, Fixed
<1>7. Lighter(ro, new)
  BY <1>2, <1>4 DEF Lighter, Charged, Tracked
<1>. QED BY <1>1, <1>2, <1>3, <1>6, <1>7 DEF Sound, new

\* A retry reopens a halted batch whose failed targets are in quarantine dg:
\* they are free, and the others were skipped.
LEMMA RetriedSound ==
  ASSUME NEW ro \in Rollout, ro.state = "Halted", Shape(ro), NEW seen, NEW dg, Failed(ro) \subseteq dg
  PROVE  LET new == Retried(ro, seen, dg)
         IN /\ Sound(ro, new)
            /\ new.state = "Running" /\ new.open
<1> DEFINE new == Retried(ro, seen, dg)
<1>1. Kin(ro, new)
  BY RetriedType
<1>2. new.nb = ro.nb /\ new.state = "Running" /\ new.open
  BY DEF Retried, Rollout
<1>3. ASSUME NEW t \in Targets
      PROVE  /\ new.tgt[t].batch = ro.tgt[t].batch /\ new.tgt[t].node = ro.tgt[t].node
             /\ new.tgt[t].hold = ro.tgt[t].hold
             /\ IF t \in Failed(ro)
                THEN new.tgt[t].phase \in {"pending", "updating"} /\ (new.tgt[t].free <=> t \in dg)
                ELSE new.tgt[t] = ro.tgt[t]
  <2> DEFINE p == IF t \in seen THEN "updating" ELSE "pending"
             d == t \in seen
             e == t \in dg
  <2>1. new.tgt[t] = IF t \in Failed(ro)
                     THEN [ro.tgt[t] EXCEPT !.phase = p, !.done = d, !.updated = FALSE, !.free = e]
                     ELSE ro.tgt[t]
    BY DEF Retried, Rollout, Failed
  <2>2. ro.tgt[t] \in RolloutTarget
    BY TgtType
  <2>3. p \in {"pending", "updating"}
    OBVIOUS
  <2> HIDE DEF new, p, d
  <2>. QED BY <2>1, <2>2, <2>3 DEF RolloutTarget
<1> HIDE DEF new
<1>4. Active(new) /\ Active(ro)
  BY <1>2 DEF Active, ActiveStates
<1>5. \A t \in Failed(ro) : t \in InBatch(ro) /\ ro.tgt[t].phase = "failed"
  BY DEF Failed
<1>6. Same(ro, new)
  BY <1>3, <1>5 DEF Same
<1>7. InBatch(new) = InBatch(ro)
  BY <1>2, <1>3, <1>6 DEF InBatch, Same
<1>8. \A t \in InBatch(ro) : t \in Failed(ro) \/ ro.tgt[t].phase = "skipped"
  BY <1>4 DEF Shape, Failed, TargetsIn
<1>9. Shape(new)
  <2>1. \A t \in Targets : new.tgt[t].batch <= new.nb /\ ~new.tgt[t].hold
    BY <1>2, <1>3, <1>4 DEF Shape
  <2>2. \A t \in Targets : new.tgt[t].phase \in {"updating", "ready"} => new.tgt[t].batch = new.nb
    BY <1>2, <1>3, <1>4, <1>5 DEF Shape, InBatch
  <2>3. InBatch(new) \subseteq TargetsIn(new, {"pending", "updating", "ready", "skipped"})
    BY <1>3, <1>7, <1>8 DEF TargetsIn, InBatch
  <2>. QED BY <1>2, <2>1, <2>2, <2>3 DEF Shape
<1>10. ASSUME NEW t \in Charged(new) PROVE FALSE
  <2>1. t \in InBatch(ro) /\ new.tgt[t].phase # "skipped" /\ ~new.tgt[t].free
    BY <1>4, <1>7 DEF Charged, Tracked
  <2>. QED BY <1>3, <1>8, <2>1 DEF InBatch
<1>. QED BY <1>1, <1>2, <1>6, <1>9, <1>10 DEF Sound, Lighter, new

LEMMA ReviewedFixed ==
  ASSUME NEW ro \in Rollout, NEW lost, NEW un, NEW arr
  PROVE  LET new == Reviewed(ro, lost, un, arr)
         IN /\ Fixed(ro, new)
            /\ new.state = ro.state /\ new.open = ro.open
            /\ \A t \in Targets : \/ new.tgt[t].phase = ro.tgt[t].phase
                                  \/ new.tgt[t].phase \in {"skipped", "passed"}
<1> DEFINE new == Reviewed(ro, lost, un, arr)
<1>1. ASSUME NEW t \in Targets
      PROVE  \/ new.tgt[t] = ro.tgt[t]
             \/ /\ ro.tgt[t].phase = "pending"
                /\ \/ new.tgt[t] = [ro.tgt[t] EXCEPT !.phase = "skipped"]
                   \/ new.tgt[t] = [ro.tgt[t] EXCEPT !.phase = "passed"]
  BY DEF Reviewed, Rollout, Unbatched, TargetsIn
<1>2. new.nb = ro.nb /\ new.state = ro.state /\ new.open = ro.open
  BY DEF Reviewed, Rollout
<1> HIDE DEF new
<1>3. ASSUME NEW t \in Targets
      PROVE  /\ new.tgt[t].batch = ro.tgt[t].batch /\ new.tgt[t].node = ro.tgt[t].node
             /\ new.tgt[t].free = ro.tgt[t].free /\ new.tgt[t].hold = ro.tgt[t].hold
             /\ new.tgt[t].phase = "none" <=> ro.tgt[t].phase = "none"
             /\ \/ new.tgt[t].phase = ro.tgt[t].phase
                \/ new.tgt[t].phase \in {"skipped", "passed"}
  <2>1. ro.tgt[t] \in RolloutTarget
    BY TgtType
  <2>. QED BY <1>1, <2>1 DEF RolloutTarget
<1>. QED BY <1>2, <1>3 DEF Fixed, new

\* Reviewing what is left between two batches.
LEMMA ReviewedSound ==
  ASSUME NEW ro \in Rollout, CanStart(ro), Shape(ro), ~ro.open, NEW lost, NEW un, NEW arr
  PROVE  LET new == Reviewed(ro, lost, un, arr)
         IN Sound(ro, new) /\ CanStart(new) /\ ~new.open
<1> DEFINE new == Reviewed(ro, lost, un, arr)
<1>1. Kin(ro, new)
  BY ReviewedType
<1>2. /\ Fixed(ro, new)
      /\ new.state = ro.state /\ new.open = ro.open
      /\ \A t \in Targets : \/ new.tgt[t].phase = ro.tgt[t].phase
                            \/ new.tgt[t].phase \in {"skipped", "passed"}
  BY ReviewedFixed
<1> HIDE DEF new
<1>3. Same(ro, new)
  BY <1>2, InBatchFixed
<1>4. Active(ro) /\ Active(new) /\ CanStart(new)
  BY <1>2 DEF CanStart, Active, ActiveStates
<1>5. Shape(new)
  BY <1>2, <1>4 DEF Shape, Fixed, CanStart
<1>6. Lighter(ro, new)
  BY <1>2, <1>4 DEF Lighter, Charged, Tracked
<1>. QED BY <1>1, <1>2, <1>3, <1>4, <1>5, <1>6 DEF Sound, new

\* A batch opens: only its candidates on nodes that are not free are charged.
LEMMA WithBatchSound ==
  ASSUME NEW ro \in Rollout, CanStart(ro), Shape(ro), ~ro.open, NEW P, NEW free
  PROVE  LET new == WithBatch(ro, P, free)
         IN /\ Kin(ro, new) /\ Same(ro, new) /\ Shape(new)
            /\ new.state = "Running" /\ new.open
            /\ \A t \in Charged(new) : new.tgt[t].node \in P \ free
<1> DEFINE new == WithBatch(ro, P, free)
<1>1. Kin(ro, new)
  BY WithBatchType
<1>2. new.nb = ro.nb + 1 /\ new.state = "Running" /\ new.open /\ ro.nb \in Nat
  BY DEF WithBatch, Rollout
<1>3. ASSUME NEW t \in Targets
      PROVE  /\ new.tgt[t].phase = ro.tgt[t].phase /\ new.tgt[t].node = ro.tgt[t].node
             /\ new.tgt[t].hold = ro.tgt[t].hold
             /\ IF t \in Candidates(ro) /\ ro.tgt[t].node \in P
                THEN new.tgt[t].batch = ro.nb + 1 /\ (new.tgt[t].free <=> ro.tgt[t].node \in free)
                ELSE new.tgt[t].batch = ro.tgt[t].batch
             /\ ro.tgt[t].batch \in Nat
  <2> DEFINE b == ro.tgt[t].node \in free
             k == ro.nb + 1
  <2>1. new.tgt[t] = IF t \in Candidates(ro) /\ ro.tgt[t].node \in P
                     THEN [ro.tgt[t] EXCEPT !.batch = k, !.free = b] ELSE ro.tgt[t]
    BY DEF WithBatch, Rollout
  <2>2. ro.tgt[t] \in RolloutTarget
    BY TgtType
  <2> HIDE DEF new, b, k
  <2>3. IF t \in Candidates(ro) /\ ro.tgt[t].node \in P
        THEN new.tgt[t].batch = k /\ (new.tgt[t].free <=> b)
        ELSE new.tgt[t].batch = ro.tgt[t].batch
    BY <2>1, <2>2 DEF RolloutTarget
  <2>4. /\ new.tgt[t].phase = ro.tgt[t].phase /\ new.tgt[t].node = ro.tgt[t].node
        /\ new.tgt[t].hold = ro.tgt[t].hold /\ ro.tgt[t].batch \in Nat
    BY <2>1, <2>2 DEF RolloutTarget
  <2>. QED BY <2>3, <2>4 DEF b, k
<1> HIDE DEF new
<1>4. Active(ro) /\ Active(new)
  BY <1>2 DEF CanStart, Active, ActiveStates
<1>5. Same(ro, new)
  BY <1>3 DEF Same
<1>6. ASSUME NEW t \in InBatch(new)
      PROVE  t \in Candidates(ro) /\ ro.tgt[t].node \in P
  <2>1. t \in Targets /\ new.tgt[t].batch = ro.nb + 1
    BY <1>2 DEF InBatch
  <2>2. ro.tgt[t].batch <= ro.nb
    BY <1>4, <2>1 DEF Shape
  <2>. QED BY <1>2, <1>3, <2>1, <2>2
<1>7. \A t \in Candidates(ro) : t \in Targets /\ ro.tgt[t].phase = "pending"
  BY DEF Candidates, Unbatched, TargetsIn
<1>8. Shape(new)
  <2>1. \A t \in Targets : new.tgt[t].batch <= new.nb /\ ~new.tgt[t].hold
    BY <1>2, <1>3, <1>4 DEF Shape
  <2>2. \A t \in Targets : new.tgt[t].phase \notin {"updating", "ready"}
    BY <1>3, <1>4 DEF Shape
  <2>3. InBatch(new) \subseteq TargetsIn(new, {"pending"})
    BY <1>3, <1>6, <1>7 DEF TargetsIn
  <2>. QED BY <1>2, <2>1, <2>2, <2>3 DEF Shape, TargetsIn
<1>9. ASSUME NEW t \in Charged(new) PROVE new.tgt[t].node \in P \ free
  <2>1. t \in InBatch(new) /\ ~new.tgt[t].free
    BY <1>4 DEF Charged, Tracked
  <2>. QED BY <1>3, <1>6, <1>7, <2>1
<1>. QED BY <1>1, <1>2, <1>5, <1>8, <1>9 DEF new

\* A result changes one target that is under way.
LEMMA TargetSound ==
  ASSUME NEW ro \in Rollout, ro.state = "Running", Shape(ro),
         NEW t \in Targets, ro.tgt[t].phase = "updating",
         NEW rt \in RolloutTarget, rt.phase \in {"updating", "ready", "skipped"},
         rt.node = ro.tgt[t].node, rt.batch = ro.tgt[t].batch,
         rt.free = ro.tgt[t].free, rt.hold = ro.tgt[t].hold
  PROVE  LET new == [ro EXCEPT !.tgt[t] = rt]
         IN Sound(ro, new) /\ new.state = "Running"
<1> DEFINE new == [ro EXCEPT !.tgt[t] = rt]
<1>1. Kin(ro, new)
  BY OneTarget
<1>2. new.nb = ro.nb /\ new.state = "Running" /\ new.open = ro.open
  BY DEF Rollout
<1>3. ASSUME NEW u \in Targets PROVE new.tgt[u] = IF u = t THEN rt ELSE ro.tgt[u]
  BY DEF Rollout
<1> HIDE DEF new
<1>4. Fixed(ro, new)
  BY <1>2, <1>3 DEF Fixed
<1>5. InBatch(new) = InBatch(ro) /\ Same(ro, new)
  BY <1>4, InBatchFixed
<1>6. Active(ro) /\ Active(new)
  BY <1>2 DEF Active, ActiveStates
<1>7. Shape(new)
  BY <1>2, <1>3, <1>4, <1>5, <1>6 DEF Shape, Fixed, TargetsIn, InBatch
<1>8. Lighter(ro, new)
  BY <1>2, <1>3, <1>4, <1>6, FixedLighter DEF InBatch
<1>. QED BY <1>1, <1>2, <1>5, <1>7, <1>8 DEF Sound, new

\* Flags and a state that is neither a soak nor a halt leave the rest alone.
LEMMA FlagsSound ==
  ASSUME NEW ro \in Rollout, Active(ro), Shape(ro), NEW new, Kin(ro, new),
         new.state = ro.state \/ new.state \in ActiveStates \ {"Soaking", "Halted"},
         new.nb = ro.nb, new.open = ro.open, new.tgt = ro.tgt
  PROVE  Sound(ro, new)
<1>1. Active(new)
  BY DEF Active
<1>2. Shape(new)
  BY DEF Shape, TargetsIn, InBatch
<1>3. Lighter(ro, new)
  BY <1>1 DEF Lighter, Charged, Tracked, InBatch
<1>. QED BY <1>2, <1>3 DEF Sound, Same

-----------------------------------------------------------------------------
\* Weights, and the walk that cuts a batch.

\* The weights of one file: natural, and additive over disjoint sets.
LEMMA WeightsAdd ==
  ASSUME NEW f \in Files
  PROVE  /\ \A S \in SUBSET Nodes : W[f][S] \in Nat
         /\ \A S, T \in SUBSET Nodes : S \cap T = {} => W[f][S \cup T] = W[f][S] + W[f][T]
         /\ \A S \in SUBSET Nodes : (\A n \in S : W[f][{n}] = 0) => W[f][S] = 0
<1>1. W[f] \in [SUBSET Nodes -> Nat]
  BY WeightAssumption
<1>2. \A S \in SUBSET Nodes : W[f][S] \in Nat
  BY <1>1
<1>3. /\ \A S, T \in SUBSET Nodes : S \cap T = {} => W[f][S \cup T] = W[f][S] + W[f][T]
      /\ \A S \in SUBSET Nodes : (\A n \in S : W[f][{n}] = 0) => W[f][S] = 0
  BY WeightAssumption, Zenon
<1>. QED BY <1>2, <1>3

LEMMA WeightGrows ==
  ASSUME NEW f \in Files, NEW T \in SUBSET Nodes, NEW S \in SUBSET T
  PROVE  W[f][S] \in Nat /\ W[f][T] \in Nat /\ W[f][S] <= W[f][T]
<1>1. S \cap (T \ S) = {} /\ S \cup (T \ S) = T /\ S \in SUBSET Nodes /\ T \ S \in SUBSET Nodes
  OBVIOUS
<1>2. W[f][T] = W[f][S] + W[f][T \ S]
  BY <1>1, WeightsAdd
<1>3. W[f][S] \in Nat /\ W[f][T] \in Nat /\ W[f][T \ S] \in Nat
  BY <1>1, WeightsAdd
<1>. QED BY <1>2, <1>3

\* Nodes without weight may be added.
LEMMA WeightlessAdds ==
  ASSUME NEW f \in Files, NEW S \in SUBSET Nodes, NEW Z \in SUBSET Nodes, S \cap Z = {},
         \A n \in Z : W[f][{n}] = 0
  PROVE  W[f][S \cup Z] = W[f][S]
<1>1. W[f][S \cup Z] = W[f][S] + W[f][Z] /\ W[f][Z] = 0 /\ W[f][S] \in Nat
  BY WeightsAdd
<1>. QED BY <1>1

\* The update order is strict and total on the targets of a rollout.
LEMMA BeforeOrder ==
  ASSUME NEW ro \in Rollout
  PROVE  /\ \A t \in Targets : ~Before(ro, t, t)
         /\ \A t, u, v \in Targets : Before(ro, t, u) /\ Before(ro, u, v) => Before(ro, t, v)
         /\ \A t, u \in Targets : t # u => Before(ro, t, u) \/ Before(ro, u, t)
<1> DEFINE d(t) == ro.tgt[t].degBefore
           w(t) == ro.tgt[t].wave
           n(t) == ro.tgt[t].node
<1>1. ASSUME NEW t \in Targets
      PROVE  d(t) \in BOOLEAN /\ w(t) \in Nat /\ n(t) \in Nat /\ t \in Nat
  BY TgtType, NamesAssumption DEF RolloutTarget
<1>2. ASSUME NEW t, NEW u
      PROVE  Before(ro, t, u) <=>
               \/ d(t) /\ ~d(u)
               \/ /\ d(t) = d(u)
                  /\ \/ w(t) < w(u)
                     \/ w(t) = w(u) /\ n(t) < n(u)
                     \/ w(t) = w(u) /\ n(t) = n(u) /\ t < u
  BY DEF Before
<1> HIDE DEF d, w, n
<1>3. \A t \in Targets : ~Before(ro, t, t)
  BY <1>1, <1>2
<1>4. ASSUME NEW t \in Targets, NEW u \in Targets, NEW v \in Targets,
             Before(ro, t, u), Before(ro, u, v)
      PROVE  Before(ro, t, v)
  BY <1>1, <1>2, <1>4
<1>5. ASSUME NEW t \in Targets, NEW u \in Targets, t # u
      PROVE  Before(ro, t, u) \/ Before(ro, u, t)
  BY <1>1, <1>2, <1>5
<1>. QED BY <1>3, <1>4, <1>5

\* The order the walk reaches nodes in is strict and total on the nodes of
\* the candidates.
LEMMA NodeBeforeOrder ==
  ASSUME NEW ro \in Rollout
  PROVE  /\ \A m \in CandidateNodes(ro) : ~NodeBefore(ro, m, m)
         /\ \A m, n, k \in CandidateNodes(ro) :
              NodeBefore(ro, m, n) /\ NodeBefore(ro, n, k) => NodeBefore(ro, m, k)
         /\ \A m, n \in CandidateNodes(ro) : m # n => NodeBefore(ro, m, n) \/ NodeBefore(ro, n, m)
<1>1. Candidates(ro) \subseteq Targets
  BY DEF Candidates, Unbatched, TargetsIn
<1>2. ASSUME NEW m \in CandidateNodes(ro) PROVE ~NodeBefore(ro, m, m)
  BY <1>1, BeforeOrder DEF NodeBefore
<1>3. ASSUME NEW m \in CandidateNodes(ro), NEW n \in CandidateNodes(ro), NEW k \in CandidateNodes(ro),
             NodeBefore(ro, m, n), NodeBefore(ro, n, k)
      PROVE  NodeBefore(ro, m, k)
  <2>1. PICK t \in Candidates(ro) :
          /\ ro.tgt[t].node = m
          /\ \A u \in Candidates(ro) : ro.tgt[u].node = n => Before(ro, t, u)
    BY <1>3 DEF NodeBefore
  <2>2. PICK u \in Candidates(ro) :
          /\ ro.tgt[u].node = n
          /\ \A v \in Candidates(ro) : ro.tgt[v].node = k => Before(ro, u, v)
    BY <1>3 DEF NodeBefore
  <2>3. ASSUME NEW v \in Candidates(ro), ro.tgt[v].node = k PROVE Before(ro, t, v)
    BY <1>1, <2>1, <2>2, <2>3, BeforeOrder
  <2>. QED BY <2>1, <2>3 DEF NodeBefore
<1>4. ASSUME NEW m \in CandidateNodes(ro), NEW n \in CandidateNodes(ro), m # n
      PROVE  NodeBefore(ro, m, n) \/ NodeBefore(ro, n, m)
  <2> DEFINE S == {t \in Candidates(ro) : ro.tgt[t].node \in {m, n}}
             R == {p \in Targets \X Targets : Before(ro, p[1], p[2])}
  <2>1. S \subseteq Targets /\ S # {}
    BY <1>1 DEF CandidateNodes
  <2>2. IsFiniteSet(S)
    BY <2>1, NamesAssumption, FS_Subset
  <2>3. \A t, u \in Targets : <<t, u>> \in R <=> Before(ro, t, u)
    OBVIOUS
  <2>4. \A x \in S : x \in Targets /\ x \in Candidates(ro) /\ (ro.tgt[x].node = m \/ ro.tgt[x].node = n)
    BY <1>1
  <2>5. \A x \in Candidates(ro) : ro.tgt[x].node = m \/ ro.tgt[x].node = n => x \in S
    OBVIOUS
  <2> HIDE DEF S, R
  <2>6. PICK x \in S : \A y \in S : <<y, x>> \notin R
    <3>1. \A y \in S : <<y, y>> \notin R
      BY <2>3, <2>4, BeforeOrder
    <3>2. \A y, z, v \in S : <<y, z>> \in R /\ <<z, v>> \in R => <<y, v>> \in R
      BY <2>3, <2>4, BeforeOrder
    <3>. QED BY <2>1, <2>2, <3>1, <3>2, FiniteFirst
  <2>7. \A y \in S : y # x => Before(ro, x, y)
    BY <2>3, <2>4, <2>6, BeforeOrder
  <2>8. CASE ro.tgt[x].node = m
    BY <1>4, <2>4, <2>5, <2>7, <2>8 DEF NodeBefore
  <2>9. CASE ro.tgt[x].node = n
    BY <1>4, <2>4, <2>5, <2>7, <2>9 DEF NodeBefore
  <2>. QED BY <2>4, <2>8, <2>9
<1>. QED BY <1>2, <1>3, <1>4

\* What the walk picks fits beside the nodes in flight: the last node it was
\* charged for was weighed against all the others.
LEMMA GreedyLemma ==
  ASSUME NEW f \in Files, NEW ro \in Rollout, NEW P \in SUBSET CandidateNodes(ro), NEW size, NEW free,
         NEW busy \in SUBSET Nodes, W[f][busy] <= Budget[f], GreedyCut(ro, P, size, busy, free, f)
  PROVE  W[f][busy \cup (P \ free)] <= Budget[f]
<1> DEFINE C == {n \in P : n \notin busy \cup free /\ W[f][{n}] # 0}
           Z == (P \ free) \ (busy \cup C)
           all == busy \cup (P \ free)
<1>1. P \subseteq Nodes
  <2>1. Candidates(ro) \subseteq Targets
    BY DEF Candidates, Unbatched, TargetsIn
  <2>2. CandidateNodes(ro) \subseteq Nodes
    BY <2>1, TgtType DEF CandidateNodes, RolloutTarget
  <2>. QED BY <2>2
<1>2. all = (busy \cup C) \cup Z /\ (busy \cup C) \cap Z = {}
      /\ busy \cup C \in SUBSET Nodes /\ Z \in SUBSET Nodes
  BY <1>1
<1>3. \A n \in Z : W[f][{n}] = 0
  OBVIOUS
<1>4. W[f][all] = W[f][busy \cup C]
  <2> HIDE DEF C, Z, all
  <2>. QED BY <1>2, <1>3, WeightlessAdds
<1>5. Budget[f] \in Nat /\ W[f][busy \cup C] \in Nat
  <2> HIDE DEF C
  <2>. QED BY <1>2, WeightAssumption
<1>6. CASE C = {}
  <2>1. busy \cup C = busy
    BY <1>6
  <2> HIDE DEF C, Z, all
  <2>2. W[f][all] <= Budget[f]
    BY <1>4, <2>1
  <2>. QED BY <2>2 DEF all
<1>7. CASE C # {}
  <2> DEFINE R == {p \in Nodes \X Nodes : NodeBefore(ro, p[2], p[1])}
  <2>1. C \subseteq CandidateNodes(ro) /\ C \subseteq Nodes /\ C \subseteq P
    BY <1>1
  <2>2. IsFiniteSet(C)
    BY <2>1, NamesAssumption, FS_Subset
  <2>3. \A m, n \in Nodes : <<m, n>> \in R <=> NodeBefore(ro, n, m)
    OBVIOUS
  <2>4. \A n \in C : n \notin busy \cup free /\ W[f][{n}] # 0
    OBVIOUS
  <2> HIDE DEF C, R, Z
  <2>5. PICK m \in C : \A y \in C : <<y, m>> \notin R
    <3>1. \A y \in C : <<y, y>> \notin R
      BY <2>1, <2>3, NodeBeforeOrder
    <3>2. \A x, y, z \in C : <<x, y>> \in R /\ <<y, z>> \in R => <<x, z>> \in R
      BY <2>1, <2>3, NodeBeforeOrder
    <3>. QED BY <1>7, <2>2, <3>1, <3>2, FiniteFirst
  <2>6. \A y \in C : y # m => NodeBefore(ro, y, m)
    BY <2>1, <2>3, <2>5, NodeBeforeOrder
  <2> DEFINE ahead == {x \in P : NodeBefore(ro, x, m)}
             T == busy \cup (ahead \ free) \cup {m}
  <2>7. W[f][T] <= Budget[f]
    BY <2>1, <2>4, <2>5 DEF GreedyCut
  <2>8. busy \cup C \in SUBSET T /\ T \in SUBSET Nodes
    BY <1>1, <2>1, <2>4, <2>6
  <2> HIDE DEF T
  <2>9. W[f][busy \cup C] <= W[f][T] /\ W[f][T] \in Nat
    BY <2>8, WeightGrows
  <2>10. W[f][busy \cup C] <= Budget[f]
    BY <1>5, <2>7, <2>9
  <2>. QED BY <1>4, <2>10
<1>. QED BY <1>6, <1>7

-----------------------------------------------------------------------------
\* The invariant, and the two kinds of steps that keep it.

\* What a halt stopped is in quarantine.
Quarantine == \A r \in RolloutIds : rollouts[r].state = "Halted" => Failed(rollouts[r]) \subseteq degraded

\* Beside the budget itself: retries are free because of Quarantine, which
\* other rollouts leave alone because of Homed and one rollout per group, and
\* an end charges nothing new because of Shaped.
Steady == Shaped /\ Homed /\ gone = {} /\ Quarantine

BInv == TypeOK /\ OneInv /\ Steady /\ BudgetHeld

\* The targets of a rollout.
TargetsOf(ro) == Targets \ TargetsIn(ro, {"none"})

\* A rollout that just opened: nothing is charged, and its targets are its
\* group's.
Fresh(new) ==
  /\ Shape(new) /\ Charged(new) = {} /\ new.state # "Halted"
  /\ \A t \in TargetsOf(new) : t \in DOMAIN file /\ file[t].group = new.group

\* A change of a rollout that no other rollout notices.
Quiet(ro, new) ==
  /\ Sound(ro, new)
  /\ Active(new) => Active(ro)
  /\ new.state = "Halted" => ro.state = "Halted" /\ Failed(new) \subseteq Failed(ro)

LEMMA QuietSelf ==
  ASSUME NEW ro \in Rollout, Shape(ro)
  PROVE  Quiet(ro, ro)
  BY SoundSelf DEF Quiet

LEMMA SameOf ==
  ASSUME NEW ro, NEW new, Same(ro, new)
  PROVE  TargetsOf(new) = TargetsOf(ro)
  BY DEF Same, TargetsOf, TargetsIn

\* What a rollout keeps nodes in flight for.
LEMMA InFlightShrinks ==
  ASSUME \A r \in RolloutIds : \/ Lighter(rollouts[r], rollouts'[r]) /\ Same(rollouts[r], rollouts'[r])
                               \/ Charged(rollouts'[r]) = {}
  PROVE  InFlight(rollouts') \subseteq InFlight(rollouts)
<1>1. \A r \in RolloutIds : \A t \in Charged(rollouts'[r]) : t \in Targets
  BY DEF Charged, Tracked, InBatch
<1>. QED BY <1>1 DEF InFlight, Lighter, Same

\* Quiet changes, new rollouts and a quarantine that only grows.
LEMMA QuietStep ==
  ASSUME Steady, file' = file, gone' = gone, degraded \subseteq degraded',
         \A r \in RolloutIds : Quiet(rollouts[r], rollouts'[r]) \/ Fresh(rollouts'[r])
  PROVE  Steady' /\ InFlight(rollouts') \subseteq InFlight(rollouts)
<1>1. Shaped'
  BY DEF Shaped, Quiet, Sound, Fresh
<1>2. Homed'
  <2>1. ASSUME NEW r \in RolloutIds, Active(rollouts'[r]), NEW t \in TargetsOf(rollouts'[r])
        PROVE  t \in DOMAIN file /\ file[t].group = rollouts'[r].group
    <3>1. CASE Quiet(rollouts[r], rollouts'[r])
      <4>1. Active(rollouts[r]) /\ t \in TargetsOf(rollouts[r]) /\ rollouts'[r].group = rollouts[r].group
        BY <2>1, <3>1, SameOf DEF Quiet, Sound, Kin
      <4>. QED BY <4>1 DEF Steady, Homed, ActiveIds, TargetsOf
    <3>2. CASE Fresh(rollouts'[r])
      BY <2>1, <3>2 DEF Fresh
    <3>. QED BY <3>1, <3>2
  <2>. QED BY <2>1 DEF Homed, ActiveIds, TargetsOf
<1>3. Quarantine'
  <2>1. ASSUME NEW r \in RolloutIds, rollouts'[r].state = "Halted"
        PROVE  Failed(rollouts'[r]) \subseteq degraded'
    BY <2>1 DEF Quiet, Fresh, Steady, Quarantine
  <2>. QED BY <2>1 DEF Quarantine
<1>4. InFlight(rollouts') \subseteq InFlight(rollouts)
  BY InFlightShrinks DEF Quiet, Fresh, Sound
<1>. QED BY <1>1, <1>2, <1>3, <1>4 DEF Steady

\* One active rollout moves on; quarantine is lifted for targets of its own.
LEMMA OneMoves ==
  ASSUME TypeOK, OneInv, Steady, file' = file, gone' = gone,
         NEW r \in RolloutIds, NEW new, Active(rollouts[r]),
         rollouts' = [rollouts EXCEPT ![r] = new],
         Kin(rollouts[r], new), Same(rollouts[r], new), Shape(new),
         degraded \subseteq degraded' \cup TargetsOf(rollouts[r]),
         new.state = "Halted" => Failed(new) \subseteq degraded'
  PROVE  /\ Steady'
         /\ Lighter(rollouts[r], new) => InFlight(rollouts') \subseteq InFlight(rollouts)
<1>1. rollouts'[r] = new /\ \A q \in RolloutIds \ {r} : rollouts'[q] = rollouts[q]
  BY DEF TypeOK
<1>2. Shaped'
  BY <1>1 DEF Steady, Shaped
<1>3. Homed'
  <2>1. ASSUME NEW q \in RolloutIds, Active(rollouts'[q]), NEW t \in TargetsOf(rollouts'[q])
        PROVE  t \in DOMAIN file /\ file[t].group = rollouts'[q].group
    <3>1. CASE q = r
      <4>1. t \in TargetsOf(rollouts[r]) /\ rollouts'[q].group = rollouts[r].group
        BY <1>1, <2>1, <3>1, SameOf DEF Kin
      <4>. QED BY <4>1 DEF Steady, Homed, ActiveIds, TargetsOf
    <3>2. CASE q # r
      BY <1>1, <2>1, <3>2 DEF Steady, Homed, ActiveIds, TargetsOf
    <3>. QED BY <3>1, <3>2
  <2>. QED BY <2>1 DEF Homed, ActiveIds, TargetsOf
<1>4. Quarantine'
  <2>1. ASSUME NEW q \in RolloutIds, q # r, rollouts[q].state = "Halted", NEW t \in Failed(rollouts[q])
        PROVE  t \in degraded'
    <3>1. t \in degraded
      BY <2>1 DEF Steady, Quarantine
    <3>2. Active(rollouts[q]) /\ t \in TargetsOf(rollouts[q])
      BY <2>1 DEF Active, ActiveStates, Failed, InBatch, TargetsOf, TargetsIn
    <3>3. ASSUME t \in TargetsOf(rollouts[r]) PROVE FALSE
      <4>1. rollouts[q].group = rollouts[r].group
        BY <3>2, <3>3 DEF Steady, Homed, ActiveIds, TargetsOf
      <4>. QED BY <2>1, <3>2, <4>1 DEF OneInv, OneActivePerGroup, ActiveIds
    <3>. QED BY <3>1, <3>3
  <2>2. ASSUME NEW q \in RolloutIds, rollouts'[q].state = "Halted"
        PROVE  Failed(rollouts'[q]) \subseteq degraded'
    BY <1>1, <2>1, <2>2
  <2>. QED BY <2>2 DEF Quarantine
<1>5. ASSUME Lighter(rollouts[r], new) PROVE InFlight(rollouts') \subseteq InFlight(rollouts)
  <2>1. \A q \in RolloutIds : Lighter(rollouts[q], rollouts'[q]) /\ Same(rollouts[q], rollouts'[q])
    BY <1>1, <1>5 DEF Lighter, Same
  <2>. QED BY <2>1, InFlightShrinks
<1>. QED BY <1>2, <1>3, <1>4, <1>5 DEF Steady

\* The same for a rollout that charges no more than before.
LEMMA SoundMoves ==
  ASSUME TypeOK, OneInv, Steady, file' = file, gone' = gone,
         NEW r \in RolloutIds, NEW new, Active(rollouts[r]),
         rollouts' = [rollouts EXCEPT ![r] = new], Sound(rollouts[r], new),
         degraded \subseteq degraded' \cup TargetsOf(rollouts[r]),
         new.state = "Halted" => Failed(new) \subseteq degraded'
  PROVE  Steady' /\ InFlight(rollouts') \subseteq InFlight(rollouts)
  BY OneMoves DEF Sound

-----------------------------------------------------------------------------
\* The plan of an open batch.

\* What a batch does in one visit: the rollout goes on, charged no more, not
\* halted, and quarantine is lifted only for targets of the rollout.
Visited(r, ro, dg) ==
  \E fin : /\ rollouts' = [rollouts EXCEPT ![r] = fin]
           /\ Sound(ro, fin) /\ fin.state # "Halted"
           /\ dg \subseteq degraded' \cup TargetsOf(ro)

LEMMA InBatchOf ==
  ASSUME NEW ro
  PROVE  InBatch(ro) \subseteq TargetsOf(ro) /\ PassedBy(ro) \subseteq TargetsOf(ro) /\ Failed(ro) \subseteq TargetsOf(ro)
  BY DEF InBatch, TargetsOf, TargetsIn, PassedBy, Failed

LEMMA PassBatchSound ==
  ASSUME NEW r, NEW ro \in Rollout, Active(ro), Shape(ro), NEW dg,
         InBatch(ro) \subseteq TargetsIn(ro, {"ready", "skipped"}), PassBatch(r, ro, dg)
  PROVE  Visited(r, ro, dg)
<1>1. rollouts' = [rollouts EXCEPT ![r] = Passed(ro)] /\ degraded' = dg \ PassedBy(ro)
  BY DEF PassBatch, Settle
<1>2. Sound(ro, Passed(ro)) /\ Passed(ro).state # "Halted"
  BY PassedSound
<1>3. dg \subseteq degraded' \cup TargetsOf(ro)
  BY <1>1, InBatchOf
<1>. QED BY <1>1, <1>2, <1>3 DEF Visited

LEMMA PlanBatchSound ==
  ASSUME NEW r, NEW ro \in Rollout, CanStart(ro), ro.open, Shape(ro), NEW dg, PlanBatch(r, ro, dg)
  PROVE  Visited(r, ro, dg)
<1> DEFINE cur == WithoutLost(ro, Lost(ro), {"pending", "updating"})
           next == Advanced(cur)
           js == JobsFor(r, cur)
<1>1. Active(ro) /\ ro.state # "Halted"
  BY DEF CanStart, Active, ActiveStates
<1>2. Sound(ro, cur)
  BY <1>1, WithoutLostSound
<1>3. cur.state = ro.state /\ cur.open = ro.open
  BY DEF WithoutLost, Rollout
<1>4. \/ js = {} /\ BatchReady(r, next, dg)
      \/ rollouts' = [rollouts EXCEPT ![r] = next] /\ degraded' = dg
  BY DEF PlanBatch
<1>5. js = {} => Waiting(cur) = {}
  <2> HIDE DEF cur
  <2>. QED BY DEF JobsFor
<1> HIDE DEF cur, js
<1>6. cur \in Rollout /\ Shape(cur) /\ Active(cur) /\ CanStart(cur) /\ cur.open
  BY <1>1, <1>2, <1>3 DEF Sound, Kin, Active, CanStart
<1>7. Sound(cur, next) /\ next.state = ro.state
  BY <1>3, <1>6, AdvancedSound
<1>8. Waiting(cur) = {} => InBatch(next) \subseteq TargetsIn(next, {"ready", "skipped"})
  BY <1>6, AdvancedSettled
<1> HIDE DEF next
<1>9. Sound(ro, next) /\ next \in Rollout /\ Shape(next) /\ Active(next) /\ next.state # "Halted"
  BY <1>1, <1>2, <1>7, SoundTrans DEF Sound, Kin, Active
<1>10. CASE rollouts' = [rollouts EXCEPT ![r] = next] /\ degraded' = dg
  BY <1>9, <1>10 DEF Visited
<1>11. CASE js = {} /\ BatchReady(r, next, dg)
  <2>1. InBatch(next) \subseteq TargetsIn(next, {"ready", "skipped"})
    BY <1>5, <1>8, <1>11
  <2>2. CASE PassBatch(r, next, dg)
    <3>1. Visited(r, next, dg)
      BY <1>9, <2>1, <2>2, PassBatchSound
    <3>2. TargetsOf(next) = TargetsOf(ro)
      BY <1>9, SameOf DEF Sound
    <3>. QED BY <1>9, <3>1, <3>2, SoundTrans DEF Visited
  <2>3. CASE Settle(r, Soaking(next), dg)
    <3>1. Sound(next, Soaking(next)) /\ Soaking(next).state = "Soaking"
      BY <1>9, <2>1, SoakingSound
    <3>2. Sound(ro, Soaking(next))
      BY <1>9, <3>1, SoundTrans
    <3>. QED BY <2>3, <3>1, <3>2 DEF Visited, Settle
  <2>. QED BY <1>11, <2>2, <2>3 DEF BatchReady
<1>. QED BY <1>4, <1>10, <1>11

\* After a step the nodes in flight are fewer, or more within the budget.
Ledgered ==
  \/ InFlight(rollouts') \subseteq InFlight(rollouts)
  \/ InFlight(rollouts) \subseteq InFlight(rollouts') /\ W[file][InFlight(rollouts')] <= Budget[file]

LEMMA VisitedMoves ==
  ASSUME TypeOK, OneInv, Steady, file' = file, gone' = gone, NEW r \in RolloutIds, Active(rollouts[r]),
         NEW ro, Sound(rollouts[r], ro),
         NEW dg, degraded \subseteq dg \cup TargetsOf(rollouts[r]), Visited(r, ro, dg)
  PROVE  Steady' /\ InFlight(rollouts') \subseteq InFlight(rollouts)
<1>1. PICK fin : /\ rollouts' = [rollouts EXCEPT ![r] = fin]
                 /\ Sound(ro, fin) /\ fin.state # "Halted"
                 /\ dg \subseteq degraded' \cup TargetsOf(ro)
  BY DEF Visited
<1>2. Sound(rollouts[r], fin)
  BY <1>1, SoundTrans
<1>3. degraded \subseteq degraded' \cup TargetsOf(rollouts[r])
  BY <1>1, SameOf DEF Sound
<1>. QED BY <1>1, <1>2, <1>3, SoundMoves

\* A rollout between two batches keeps no node in flight; the batch it cuts
\* brings in what the walk picked.
LEMMA StartedMoves ==
  ASSUME BInv, file' = file, gone' = gone, NEW r \in RolloutIds,
         CanStart(rollouts[r]), ~rollouts[r].open,
         NEW ro, Sound(rollouts[r], ro), CanStart(ro), ~ro.open,
         NEW P \in SUBSET CandidateNodes(ro), NEW size, NEW free,
         GreedyCut(ro, P, size, InFlight(rollouts), free, file),
         PlanBatch(r, WithBatch(ro, P, free), degraded)
  PROVE  Steady' /\ InFlight(rollouts) \subseteq InFlight(rollouts') /\ W[file][InFlight(rollouts')] <= Budget[file]
<1> DEFINE wb == WithBatch(ro, P, free)
           busy == InFlight(rollouts)
<1>0. Active(rollouts[r]) /\ ro \in Rollout /\ Shape(ro) /\ rollouts \in [RolloutIds -> Rollout]
  BY DEF Sound, Kin, CanStart, Active, ActiveStates, BInv, TypeOK
<1>1. /\ Kin(ro, wb) /\ Same(ro, wb) /\ Shape(wb)
      /\ wb.state = "Running" /\ wb.open
      /\ \A t \in Charged(wb) : wb.tgt[t].node \in P \ free
  BY <1>0, WithBatchSound
<1>v. PlanBatch(r, wb, degraded)
  OBVIOUS
<1> HIDE DEF wb
<1>2. Visited(r, wb, degraded)
  BY <1>1, <1>v, PlanBatchSound DEF Kin, CanStart
<1>3. PICK fin : /\ rollouts' = [rollouts EXCEPT ![r] = fin]
                 /\ Sound(wb, fin) /\ fin.state # "Halted"
                 /\ degraded \subseteq degraded' \cup TargetsOf(wb)
  BY <1>2 DEF Visited
<1>4. Kin(rollouts[r], fin) /\ Same(rollouts[r], fin) /\ Shape(fin)
  BY <1>1, <1>3, KinTrans DEF Sound, Same
<1>5. TargetsOf(wb) = TargetsOf(rollouts[r])
  BY <1>1, SameOf DEF Sound
<1>6. Steady'
  BY <1>0, <1>3, <1>4, <1>5, OneMoves DEF BInv
<1>7. rollouts'[r] = fin /\ \A q \in RolloutIds \ {r} : rollouts'[q] = rollouts[q]
  BY <1>0, <1>3
<1>8. Charged(rollouts[r]) = {}
  BY <1>0 DEF Charged, Tracked
<1>9. busy \subseteq InFlight(rollouts')
  BY <1>7, <1>8 DEF InFlight
<1>10. InFlight(rollouts') \subseteq busy \cup (P \ free)
  <2>1. ASSUME NEW t \in Charged(fin) PROVE fin.tgt[t].node \in P \ free
    <3>1. t \in Charged(wb) /\ t \in Targets
      BY <1>3 DEF Sound, Lighter, Charged, Tracked, InBatch
    <3>. QED BY <1>1, <1>3, <3>1 DEF Sound, Same
  <2>. QED BY <1>7, <2>1 DEF InFlight
<1>11. file \in Files /\ busy \in SUBSET Nodes /\ W[file][busy] <= Budget[file]
  BY DEF InFlight, BInv, BudgetHeld, TypeOK
<1>12. W[file][busy \cup (P \ free)] <= Budget[file]
  <2> HIDE DEF busy
  <2>. QED BY <1>0, <1>11, GreedyLemma DEF busy
<1>13. P \subseteq Nodes
  BY <1>0, TgtType DEF CandidateNodes, RolloutTarget, Candidates, Unbatched, TargetsIn
<1>14. W[file][InFlight(rollouts')] <= Budget[file]
  <2>1. busy \cup (P \ free) \in SUBSET Nodes
    BY <1>11, <1>13
  <2> HIDE DEF busy
  <2>2. /\ W[file][InFlight(rollouts')] \in Nat /\ W[file][busy \cup (P \ free)] \in Nat
        /\ W[file][InFlight(rollouts')] <= W[file][busy \cup (P \ free)]
    BY <1>10, <1>11, <2>1, WeightGrows
  <2>. QED BY <1>11, <1>12, <2>2, WeightAssumption
<1>. QED BY <1>6, <1>9, <1>14

LEMMA PlanStartBudget ==
  ASSUME BInv, NEW r \in RolloutIds, PlanStart(r)
  PROVE  Steady' /\ Ledgered
<1> DEFINE ro == Reviewed(rollouts[r], Lost(rollouts[r]), Unreachable, Arrived(rollouts[r]))
           free == FreeNodes(ro)
           size == BatchFor(St(ro), ro.nb + 1, Cardinality(NodesOf(ro)))
           end == Ended(ro, "Complete")
           env == [ro EXCEPT !.state = "WaitingForEnvironment"]
           bud == [ro EXCEPT !.state = "WaitingForBudget"]
<1>0. /\ rollouts[r] \in Rollout /\ Shape(rollouts[r]) /\ TypeOK /\ OneInv /\ Steady
      /\ CanStart(rollouts[r]) /\ ~rollouts[r].open /\ Active(rollouts[r])
      /\ file' = file /\ gone' = gone
  BY DEF BInv, TypeOK, Steady, Shaped, PlanStart, Planning, fileVars, CanStart, Active, ActiveStates
<1>1. Sound(rollouts[r], ro) /\ CanStart(ro) /\ ~ro.open
  BY <1>0, ReviewedSound
<1>2. \/ Settle(r, end, degraded)
      \/ Settle(r, env, degraded)
      \/ Settle(r, bud, degraded)
      \/ \E P \in SUBSET CandidateNodes(ro) :
           /\ GreedyCut(ro, P, size, InFlight(rollouts), free, file)
           /\ PlanBatch(r, WithBatch(ro, P, free), degraded)
  BY DEF PlanStart
<1> HIDE DEF ro
<1>3. ro \in Rollout /\ Shape(ro) /\ Active(ro)
  BY <1>1 DEF Sound, Kin, CanStart, Active, ActiveStates
<1>4. Sound(ro, end) /\ end.state = "Complete"
  BY <1>3, EndedSound, EndedType DEF EndedStates, States
<1>5. Sound(ro, env) /\ env.state = "WaitingForEnvironment"
  <2>1. /\ Kin(ro, env) /\ env.nb = ro.nb /\ env.open = ro.open /\ env.tgt = ro.tgt
        /\ env.state = "WaitingForEnvironment"
    BY <1>3 DEF Kin, Rollout, States, ActiveStates
  <2> HIDE DEF env
  <2>. QED BY <1>3, <2>1, FlagsSound DEF ActiveStates
<1>6. Sound(ro, bud) /\ bud.state = "WaitingForBudget"
  <2>1. /\ Kin(ro, bud) /\ bud.nb = ro.nb /\ bud.open = ro.open /\ bud.tgt = ro.tgt
        /\ bud.state = "WaitingForBudget"
    BY <1>3 DEF Kin, Rollout, States, ActiveStates
  <2> HIDE DEF bud
  <2>. QED BY <1>3, <2>1, FlagsSound DEF ActiveStates
<1> HIDE DEF end, env, bud, free, size
<1>7. ASSUME NEW new, Settle(r, new, degraded), Sound(ro, new), new.state # "Halted"
      PROVE  Steady' /\ Ledgered
  <2>1. Sound(rollouts[r], new)
    BY <1>1, <1>7, SoundTrans
  <2>2. rollouts' = [rollouts EXCEPT ![r] = new] /\ degraded' = degraded
    BY <1>7 DEF Settle
  <2>. QED BY <1>0, <1>7, <2>1, <2>2, SoundMoves DEF Ledgered
<1>8. ASSUME NEW P \in SUBSET CandidateNodes(ro),
             GreedyCut(ro, P, size, InFlight(rollouts), free, file),
             PlanBatch(r, WithBatch(ro, P, free), degraded)
      PROVE  Steady' /\ Ledgered
  BY <1>0, <1>1, <1>8, StartedMoves DEF Ledgered
<1>. QED BY <1>2, <1>4, <1>5, <1>6, <1>7, <1>8

LEMMA PlanRetryBudget ==
  ASSUME BInv, NEW r \in RolloutIds, PlanRetry(r)
  PROVE  Steady' /\ Ledgered
<1> DEFINE seen == {t \in Targets : live[t] # NoDigest /\ \E i \in Images : rollouts[r].want[i] = live[t]}
           ro == Retried(rollouts[r], seen, degraded)
<1>1. /\ rollouts[r] \in Rollout /\ Shape(rollouts[r]) /\ TypeOK /\ OneInv /\ Steady
      /\ rollouts[r].state = "Halted" /\ Active(rollouts[r])
      /\ Failed(rollouts[r]) \subseteq degraded
      /\ file' = file /\ gone' = gone
      /\ PlanBatch(r, ro, degraded \ Failed(rollouts[r]))
  BY DEF BInv, TypeOK, Steady, Shaped, Quarantine, PlanRetry, Planning, fileVars, Active, ActiveStates
<1> HIDE DEF seen
<1>2. Sound(rollouts[r], ro) /\ ro.state = "Running" /\ ro.open
  BY <1>1, RetriedSound
<1> HIDE DEF ro
<1>3. Visited(r, ro, degraded \ Failed(rollouts[r]))
  BY <1>1, <1>2, PlanBatchSound DEF Sound, Kin, CanStart
<1>4. degraded \subseteq (degraded \ Failed(rollouts[r])) \cup TargetsOf(rollouts[r])
  BY InBatchOf
<1>. QED BY <1>1, <1>2, <1>3, <1>4, VisitedMoves DEF Ledgered

LEMMA PlanOpenBudget ==
  ASSUME BInv, NEW r \in RolloutIds, PlanOpen(r)
  PROVE  Steady' /\ Ledgered
<1>1. /\ rollouts[r] \in Rollout /\ Shape(rollouts[r]) /\ TypeOK /\ OneInv /\ Steady
      /\ CanStart(rollouts[r]) /\ rollouts[r].open /\ Active(rollouts[r])
      /\ file' = file /\ gone' = gone
      /\ PlanBatch(r, rollouts[r], degraded)
  BY DEF BInv, TypeOK, Steady, Shaped, PlanOpen, Planning, fileVars, CanStart, Active, ActiveStates
<1>2. Visited(r, rollouts[r], degraded)
  BY <1>1, PlanBatchSound
<1>. QED BY <1>1, <1>2, SoundSelf, VisitedMoves DEF Ledgered

\* A batch that halts, whatever was lost from it first.
LEMMA HaltMoves ==
  ASSUME TypeOK, OneInv, Steady, file' = file, gone' = gone, NEW r \in RolloutIds, Active(rollouts[r]),
         NEW cur, Sound(rollouts[r], cur), Active(cur),
         InBatch(cur) \subseteq TargetsIn(cur, {"pending", "updating", "ready", "skipped"}),
         rollouts' = [rollouts EXCEPT ![r] = Halted(cur)], degraded' = degraded \cup HeldBy(cur)
  PROVE  Steady' /\ Ledgered
<1>1. cur \in Rollout /\ Shape(cur)
  BY DEF Sound, Kin
<1>2. Sound(cur, Halted(cur)) /\ Failed(Halted(cur)) \subseteq HeldBy(cur)
  BY <1>1, HaltedSound
<1>3. Sound(rollouts[r], Halted(cur))
  BY <1>2, SoundTrans
<1>. QED BY <1>2, <1>3, SoundMoves DEF Ledgered

LEMMA PlanLateBudget ==
  ASSUME BInv, NEW r \in RolloutIds, PlanLate(r)
  PROVE  Steady' /\ Ledgered
<1>1. /\ rollouts[r] \in Rollout /\ Shape(rollouts[r]) /\ TypeOK /\ OneInv /\ Steady
      /\ CanStart(rollouts[r]) /\ rollouts[r].open /\ Active(rollouts[r])
      /\ file' = file /\ gone' = gone
  BY DEF BInv, TypeOK, Steady, Shaped, PlanLate, Planning, fileVars, CanStart, Active, ActiveStates
<1>2. PICK lost : LET cur == WithoutLost(rollouts[r], lost, {"pending", "updating"})
                  IN Settle(r, Halted(cur), degraded \cup HeldBy(cur))
  BY DEF PlanLate
<1> DEFINE cur == WithoutLost(rollouts[r], lost, {"pending", "updating"})
<1>3. Sound(rollouts[r], cur)
  BY <1>1, WithoutLostSound
<1>4. cur.state = rollouts[r].state /\ cur.open = rollouts[r].open
  BY <1>1 DEF WithoutLost, Rollout
<1>5. Settle(r, Halted(cur), degraded \cup HeldBy(cur))
  BY <1>2
<1> HIDE DEF cur
<1>6. Active(cur)
  BY <1>1, <1>4 DEF Active
<1>7. InBatch(cur) \subseteq TargetsIn(cur, {"pending", "updating", "ready", "skipped"})
  BY <1>1, <1>3, <1>4, <1>6 DEF Sound, Shape
<1>. QED BY <1>1, <1>3, <1>5, <1>6, <1>7, HaltMoves DEF Settle

LEMMA PlanSoakBudget ==
  ASSUME BInv, NEW r \in RolloutIds, PlanSoak(r)
  PROVE  Steady' /\ Ledgered
<1> DEFINE cur == WithoutLost(rollouts[r], Lost(rollouts[r]), Phases)
<1>1. /\ rollouts[r] \in Rollout /\ Shape(rollouts[r]) /\ TypeOK /\ OneInv /\ Steady
      /\ rollouts[r].state = "Soaking" /\ Active(rollouts[r])
      /\ InBatch(rollouts[r]) \subseteq TargetsIn(rollouts[r], {"ready", "skipped"})
      /\ file' = file /\ gone' = gone
  BY DEF BInv, TypeOK, Steady, Shaped, Shape, PlanSoak, Planning, fileVars, Active, ActiveStates
<1>2. \/ PassBatch(r, rollouts[r], degraded)
      \/ Settle(r, rollouts[r], degraded)
      \/ rollouts' = [rollouts EXCEPT ![r] = cur] /\ degraded' = degraded
  BY DEF PlanSoak
<1>3. CASE PassBatch(r, rollouts[r], degraded)
  <2>1. Visited(r, rollouts[r], degraded)
    BY <1>1, <1>3, PassBatchSound
  <2>. QED BY <1>1, <2>1, SoundSelf, VisitedMoves DEF Ledgered
<1>4. CASE Settle(r, rollouts[r], degraded)
  BY <1>1, <1>4, SoundSelf, SoundMoves DEF Settle, Ledgered
<1>5. CASE rollouts' = [rollouts EXCEPT ![r] = cur] /\ degraded' = degraded
  <2>1. Sound(rollouts[r], cur)
    BY <1>1, WithoutLostSound
  <2>2. cur.state = "Soaking"
    BY <1>1 DEF WithoutLost, Rollout
  <2> HIDE DEF cur
  <2>. QED BY <1>1, <1>5, <2>1, <2>2, SoundMoves DEF Ledgered
<1>. QED BY <1>2, <1>3, <1>4, <1>5

LEMMA PlanStepBudget ==
  ASSUME BInv, NEW r \in planning, PlanStep(r)
  PROVE  Steady' /\ Ledgered
<1>0. r \in RolloutIds
  BY DEF BInv, TypeOK
<1>1. CASE PlanNothing(r)
  <2>1. /\ rollouts[r] \in Rollout /\ Shape(rollouts[r]) /\ TypeOK /\ OneInv /\ Steady
        /\ Active(rollouts[r]) /\ file' = file /\ gone' = gone
        /\ rollouts' = [rollouts EXCEPT ![r] = rollouts[r]] /\ degraded' = degraded
        /\ rollouts[r].state = "Halted" => Failed(rollouts[r]) \subseteq degraded
    BY <1>0, <1>1 DEF BInv, TypeOK, Steady, Shaped, Quarantine, PlanNothing, Settle, Planning, fileVars,
                      Active, ActiveStates
  <2>. QED BY <1>0, <2>1, SoundSelf, SoundMoves DEF Ledgered
<1>. QED BY <1>0, <1>1, PlanRetryBudget, PlanStartBudget, PlanOpenBudget, PlanLateBudget, PlanSoakBudget
         DEF PlanStep

-----------------------------------------------------------------------------
\* Results.

\* What a job that counts says of its rollout.
LEMMA CountsShape ==
  ASSUME BInv, NEW j \in jobs, Applying(j), Concerns(j)
  PROVE  LET ro == rollouts[j.rollout]
         IN /\ j.rollout \in RolloutIds /\ j.target \in Targets
            /\ ro \in Rollout /\ Shape(ro) /\ TypeOK /\ OneInv /\ Steady
            /\ ro.state = "Running" /\ Active(ro) /\ ro.tgt[j.target].phase = "updating"
            /\ InBatch(ro) \subseteq TargetsIn(ro, {"pending", "updating", "ready", "skipped"})
            /\ file' = file /\ gone' = gone
<1>1. j.rollout \in RolloutIds /\ j.target \in Targets
  BY DEF BInv, TypeOK, Job
<1>2. /\ rollouts[j.rollout] \in Rollout /\ Shape(rollouts[j.rollout])
      /\ rollouts[j.rollout].state = "Running" /\ Active(rollouts[j.rollout])
      /\ rollouts[j.rollout].tgt[j.target].phase = "updating"
  BY <1>1 DEF BInv, TypeOK, Steady, Shaped, Concerns, Active, ActiveStates
<1>3. rollouts[j.rollout].open
  BY <1>1, <1>2 DEF Shape
<1>. QED BY <1>1, <1>2, <1>3 DEF Shape, BInv, Applying, fileVars

\* A result that changes one target's record and no quarantine.
LEMMA TargetMoves ==
  ASSUME BInv, NEW j \in jobs, Applying(j), Concerns(j), degraded' = degraded,
         NEW rt \in RolloutTarget, rt.phase \in {"updating", "ready", "skipped"},
         LET old == rollouts[j.rollout].tgt[j.target]
         IN rt.node = old.node /\ rt.batch = old.batch /\ rt.free = old.free /\ rt.hold = old.hold,
         Continue(j, [rollouts[j.rollout] EXCEPT !.tgt[j.target] = rt])
  PROVE  Steady' /\ Ledgered
<1> DEFINE ro == rollouts[j.rollout]
           new == [ro EXCEPT !.tgt[j.target] = rt]
<1>1. /\ j.rollout \in RolloutIds /\ j.target \in Targets
      /\ ro \in Rollout /\ Shape(ro) /\ TypeOK /\ OneInv /\ Steady
      /\ ro.state = "Running" /\ Active(ro) /\ ro.tgt[j.target].phase = "updating"
      /\ file' = file /\ gone' = gone
  BY CountsShape
<1>2. Sound(ro, new) /\ new.state = "Running"
  BY <1>1, TargetSound
<1>3. rollouts' = [rollouts EXCEPT ![j.rollout] = new]
  BY DEF Continue
<1> HIDE DEF new
<1>. QED BY <1>1, <1>2, <1>3, SoundMoves DEF Ledgered

\* A step that leaves rollouts, quarantine and file alone.
LEMMA SameMoves ==
  ASSUME BInv, rollouts' = rollouts, degraded' = degraded, file' = file, gone' = gone
  PROVE  Steady' /\ Ledgered
<1>1. Steady /\ \A r \in RolloutIds : Quiet(rollouts[r], rollouts'[r])
  BY QuietSelf DEF BInv, TypeOK, Steady, Shaped
<1>. QED BY <1>1, QuietStep DEF Ledgered

LEMMA ApplyStaleBudget ==
  ASSUME BInv, NEW j \in jobs, ApplyStale(j)
  PROVE  Steady' /\ Ledgered
<1> DEFINE rt == [rollouts[j.rollout].tgt[j.target] EXCEPT !.phase = "skipped"]
<1>1. CASE Concerns(j)
  <2>1. /\ j.rollout \in RolloutIds /\ j.target \in Targets /\ rollouts[j.rollout] \in Rollout
        /\ Applying(j) /\ degraded' = degraded
        /\ Continue(j, [rollouts[j.rollout] EXCEPT !.tgt[j.target].phase = "skipped"])
    BY <1>1 DEF ApplyStale, BInv, TypeOK, Job
  <2>2. [rollouts[j.rollout] EXCEPT !.tgt[j.target].phase = "skipped"]
          = [rollouts[j.rollout] EXCEPT !.tgt[j.target] = rt]
    BY <2>1 DEF Rollout
  <2>3. rollouts[j.rollout].tgt[j.target] \in RolloutTarget
    BY <2>1, TgtType
  <2>4. /\ rt \in RolloutTarget /\ rt.phase = "skipped"
        /\ LET old == rollouts[j.rollout].tgt[j.target]
           IN rt.node = old.node /\ rt.batch = old.batch /\ rt.free = old.free /\ rt.hold = old.hold
    BY <2>3, PhaseNames DEF RolloutTarget
  <2> HIDE DEF rt
  <2>5. Continue(j, [rollouts[j.rollout] EXCEPT !.tgt[j.target] = rt])
    BY <2>1, <2>2
  <2>. QED BY <1>1, <2>1, <2>4, <2>5, TargetMoves
<1>2. CASE ~Concerns(j)
  <2>1. rollouts' = rollouts /\ degraded' = degraded /\ file' = file /\ gone' = gone
    BY <1>2 DEF ApplyStale, Applying, fileVars
  <2>. QED BY <2>1, SameMoves
<1>. QED BY <1>1, <1>2, SMTT(30)

LEMMA ApplyUpdateBudget ==
  ASSUME BInv, NEW j \in jobs, ApplyUpdate(j)
  PROVE  Steady' /\ Ledgered
<1> DEFINE ro == rollouts[j.rollout]
           rt == [ro.tgt[j.target] EXCEPT !.done = TRUE]
<1>1. Applying(j) /\ Concerns(j)
  BY DEF ApplyUpdate, Counts
<1>2. /\ j.rollout \in RolloutIds /\ j.target \in Targets
      /\ ro \in Rollout /\ Shape(ro) /\ TypeOK /\ OneInv /\ Steady
      /\ ro.state = "Running" /\ Active(ro) /\ ro.tgt[j.target].phase = "updating"
      /\ InBatch(ro) \subseteq TargetsIn(ro, {"pending", "updating", "ready", "skipped"})
      /\ file' = file /\ gone' = gone
  BY <1>1, CountsShape, SMTT(30)
<1>3. CASE Continue(j, [ro EXCEPT !.tgt[j.target].done = TRUE]) /\ UNCHANGED degraded
  <2>1. [ro EXCEPT !.tgt[j.target].done = TRUE] = [ro EXCEPT !.tgt[j.target] = rt]
    BY <1>2 DEF Rollout
  <2>2. ro.tgt[j.target] \in RolloutTarget
    BY <1>2, TgtType
  <2>3. /\ rt \in RolloutTarget /\ rt.phase = "updating"
        /\ LET old == ro.tgt[j.target]
           IN rt.node = old.node /\ rt.batch = old.batch /\ rt.free = old.free /\ rt.hold = old.hold
    BY <1>2, <2>2 DEF RolloutTarget
  <2> HIDE DEF rt
  <2>4. Continue(j, [ro EXCEPT !.tgt[j.target] = rt])
    BY <1>3, <2>1
  <2>. QED BY <1>1, <1>3, <2>3, <2>4, TargetMoves
<1>4. CASE Continue(j, Halted(ro)) /\ degraded' = degraded \cup HeldBy(ro)
  BY <1>2, <1>4, SoundSelf, HaltMoves DEF Continue
<1>. QED BY <1>3, <1>4 DEF ApplyUpdate

LEMMA ApplyInspectBudget ==
  ASSUME BInv, NEW j \in jobs, ApplyInspect(j)
  PROVE  Steady' /\ Ledgered
<1> DEFINE ro == rollouts[j.rollout]
           old == ro.tgt[j.target]
           arrived == running[j.target] = ro.want[file[j.target].image]
           u == old.updated \/ arrived
           p == IF arrived /\ ro.force THEN "ready" ELSE old.phase
           rt == [old EXCEPT !.updated = u, !.phase = p]
<1>1. Applying(j) /\ Concerns(j) /\ degraded' = degraded
  BY DEF ApplyInspect, Counts
<1>2. /\ j.rollout \in RolloutIds /\ j.target \in Targets /\ ro \in Rollout
      /\ old.phase = "updating" /\ file' = file /\ gone' = gone
  BY <1>1, CountsShape
<1>3. Continue(j, [ro EXCEPT !.tgt[j.target] = rt]) \/ rollouts' = rollouts
  BY DEF ApplyInspect
<1>4. old \in RolloutTarget
  BY <1>2, TgtType
<1>5. u \in BOOLEAN /\ p \in {"updating", "ready"} /\ p \in Phases
  BY <1>2, <1>4, PhaseNames DEF RolloutTarget
<1> HIDE DEF u, p
<1>6. /\ rt \in RolloutTarget /\ rt.phase \in {"updating", "ready"}
      /\ rt.node = old.node /\ rt.batch = old.batch /\ rt.free = old.free /\ rt.hold = old.hold
  BY <1>4, <1>5 DEF RolloutTarget
<1> HIDE DEF rt
<1>7. CASE Continue(j, [ro EXCEPT !.tgt[j.target] = rt])
  BY <1>1, <1>6, <1>7, TargetMoves
<1>8. CASE rollouts' = rollouts
  BY <1>1, <1>2, <1>8, SameMoves
<1>. QED BY <1>3, <1>7, <1>8

LEMMA ApplyReadyBudget ==
  ASSUME BInv, NEW j \in jobs, ApplyReady(j)
  PROVE  Steady' /\ Ledgered
<1> DEFINE ro == rollouts[j.rollout]
           rt == [ro.tgt[j.target] EXCEPT !.phase = "ready"]
<1>1. Applying(j) /\ Concerns(j) /\ degraded' = degraded
  BY DEF ApplyReady, Counts
<1>2. j.rollout \in RolloutIds /\ j.target \in Targets /\ ro \in Rollout /\ file' = file /\ gone' = gone
  BY <1>1, CountsShape
<1>3. [ro EXCEPT !.tgt[j.target].phase = "ready"] = [ro EXCEPT !.tgt[j.target] = rt]
  BY <1>2 DEF Rollout
<1>4. Continue(j, [ro EXCEPT !.tgt[j.target] = rt]) \/ rollouts' = rollouts
  BY <1>3 DEF ApplyReady
<1>5. ro.tgt[j.target] \in RolloutTarget
  BY <1>2, TgtType
<1>6. /\ rt \in RolloutTarget /\ rt.phase = "ready"
      /\ LET old == ro.tgt[j.target]
         IN rt.node = old.node /\ rt.batch = old.batch /\ rt.free = old.free /\ rt.hold = old.hold
  BY <1>5, PhaseNames, SMTT(30) DEF RolloutTarget
<1> HIDE DEF rt
<1>7. CASE Continue(j, [ro EXCEPT !.tgt[j.target] = rt])
  BY <1>1, <1>6, <1>7, TargetMoves
<1>8. CASE rollouts' = rollouts
  BY <1>1, <1>2, <1>8, SameMoves
<1>. QED BY <1>4, <1>7, <1>8

LEMMA ApplyCheckBudget ==
  ASSUME BInv, NEW r \in checks,
         ApplyCheckStale(r) \/ ApplyCheckPassed(r) \/ ApplyCheckFailed(r)
  PROVE  Steady' /\ Ledgered
<1>1. r \in RolloutIds /\ ApplyingCheck(r) /\ file' = file /\ gone' = gone
  BY DEF BInv, TypeOK, ApplyCheckStale, ApplyCheckPassed, ApplyCheckFailed, ApplyingCheck, fileVars
<1>2. CASE ApplyCheckStale(r)
  BY <1>1, <1>2, SameMoves DEF ApplyCheckStale
<1>3. ASSUME NEW ro, Kin(rollouts[r], ro), ro.state = "Soaking", ro.state = rollouts[r].state,
             ro.nb = rollouts[r].nb, ro.open = rollouts[r].open, ro.tgt = rollouts[r].tgt,
             \/ Conclude(r, ro, degraded)
             \/ Conclude(r, Passed(ro), degraded \ PassedBy(ro))
             \/ Conclude(r, Halted(ro), degraded \cup HeldBy(ro))
      PROVE  Steady' /\ Ledgered
  <2>1. /\ rollouts[r] \in Rollout /\ Shape(rollouts[r]) /\ TypeOK /\ OneInv /\ Steady
        /\ Active(rollouts[r])
    BY <1>1, <1>3 DEF BInv, TypeOK, Steady, Shaped, Active, ActiveStates
  <2>2. Sound(rollouts[r], ro)
    BY <1>3, <2>1, FlagsSound
  <2>3. ro \in Rollout /\ Shape(ro) /\ Active(ro)
    BY <1>3, <2>2 DEF Sound, Kin, Active, ActiveStates
  <2>4. InBatch(ro) \subseteq TargetsIn(ro, {"ready", "skipped"})
    BY <1>3, <2>3 DEF Shape
  <2>5. CASE Conclude(r, ro, degraded)
    BY <1>1, <1>3, <2>1, <2>2, <2>5, SoundMoves DEF Conclude, Ledgered
  <2>6. CASE Conclude(r, Passed(ro), degraded \ PassedBy(ro))
    <3>1. Sound(rollouts[r], Passed(ro)) /\ Passed(ro).state # "Halted"
      BY <2>2, <2>3, <2>4, PassedSound, SoundTrans
    <3>2. degraded \subseteq degraded' \cup TargetsOf(rollouts[r])
      BY <2>2, <2>6, InBatchOf, SameOf DEF Conclude, Sound
    <3>. QED BY <1>1, <2>1, <2>6, <3>1, <3>2, SoundMoves DEF Conclude, Ledgered
  <2>7. CASE Conclude(r, Halted(ro), degraded \cup HeldBy(ro))
    <3>1. InBatch(ro) \subseteq TargetsIn(ro, {"pending", "updating", "ready", "skipped"})
      BY <2>4 DEF TargetsIn
    <3>. QED BY <1>1, <2>1, <2>2, <2>3, <2>7, <3>1, HaltMoves DEF Conclude
  <2>. QED BY <1>3, <2>5, <2>6, <2>7
<1>4. CASE ApplyCheckPassed(r) \/ ApplyCheckFailed(r)
  <2>1. rollouts[r] \in Rollout
    BY <1>1 DEF BInv, TypeOK
  <2>2. PICK ro :
          /\ Kin(rollouts[r], ro) /\ ro.state = "Soaking" /\ ro.state = rollouts[r].state
          /\ ro.nb = rollouts[r].nb /\ ro.open = rollouts[r].open /\ ro.tgt = rollouts[r].tgt
          /\ \/ Conclude(r, ro, degraded)
             \/ Conclude(r, Passed(ro), degraded \ PassedBy(ro))
             \/ Conclude(r, Halted(ro), degraded \cup HeldBy(ro))
    BY <1>4, <2>1, CheckConcludes
  <2>. QED BY <1>3, <2>2
<1>. QED BY <1>2, <1>4

-----------------------------------------------------------------------------
\* Opening and ending, holds, and what people do.

LEMMA SupersededQuiet ==
  ASSUME BInv, NEW r \in RolloutIds
  PROVE  Quiet(rollouts[r], Superseded(rollouts)[r])
<1>1. rollouts[r] \in Rollout /\ Shape(rollouts[r])
  BY DEF BInv, TypeOK, Steady, Shaped
<1>2. CASE Active(rollouts[r]) /\ Moved(rollouts[r])
  <2>1. Superseded(rollouts)[r] = Ended(rollouts[r], "Superseded")
    BY <1>2 DEF Superseded
  <2>2. /\ Sound(rollouts[r], Ended(rollouts[r], "Superseded"))
        /\ ~Active(Ended(rollouts[r], "Superseded"))
    BY <1>1, <1>2, EndedSound DEF EndedStates
  <2>. QED BY <2>1, <2>2 DEF Quiet, Active, ActiveStates
<1>3. CASE ~(Active(rollouts[r]) /\ Moved(rollouts[r]))
  BY <1>1, <1>3, QuietSelf DEF Superseded
<1>. QED BY <1>2, <1>3

\* The rollout a group opens is fresh, whatever becomes of its flags.
LEMMA OpenedFresh ==
  ASSUME TypeOK, NEW g \in Groups, NEW s \in DOMAIN StrategyOf,
         NEW new, new.tgt = RolloutFor(g, s, file).tgt, new.nb = RolloutFor(g, s, file).nb,
         new.open = RolloutFor(g, s, file).open, new.group = RolloutFor(g, s, file).group,
         new.state \in {"Running", "WaitingForSync"}
  PROVE  Fresh(new)
<1>1. new.group = g /\ new.nb = 0 /\ ~new.open
  BY RolloutForType, NoRolloutType DEF RolloutFor, NewRollout, NoRollout, Rollout
<1> DEFINE w(t) == IF StrategyOf[s].waves THEN file[t].wave ELSE 0
           d(t) == t \in degraded
           rt(t) == [NoTarget EXCEPT !.phase = "pending", !.node = file[t].node,
                                     !.wave = w(t), !.degBefore = d(t)]
<1>t. new.tgt = [t \in Targets |-> IF t \in OutOfSync(g, file) THEN rt(t) ELSE NoTarget]
  BY NoRolloutType DEF RolloutFor, NewRollout, Rollout
<1> HIDE DEF w, d
<1>r. ASSUME NEW t PROVE rt(t).batch = 0 /\ ~rt(t).hold /\ rt(t).phase = "pending"
  BY NoTargetType DEF NoTarget, RolloutTarget
<1> HIDE DEF rt
<1>2. ASSUME NEW t \in Targets
      PROVE  /\ new.tgt[t].batch = 0 /\ ~new.tgt[t].hold
             /\ new.tgt[t].phase = IF t \in OutOfSync(g, file) THEN "pending" ELSE "none"
  BY <1>t, <1>r DEF NoTarget
<1>3. Active(new) /\ new.state # "Halted" /\ new.state # "Soaking"
  BY DEF Active, ActiveStates
<1>4. Shape(new)
  BY <1>1, <1>2, <1>3 DEF Shape
<1>5. Charged(new) = {}
  BY <1>1, <1>3 DEF Charged, Tracked
<1>6. ASSUME NEW t \in TargetsOf(new) PROVE t \in DOMAIN file /\ file[t].group = new.group
  <2>1. t \in OutOfSync(g, file)
    BY <1>2 DEF TargetsOf, TargetsIn
  <2>. QED BY <1>1, <2>1 DEF OutOfSync
<1>. QED BY <1>3, <1>4, <1>5, <1>6 DEF Fresh

LEMMA TickStartBudget ==
  ASSUME BInv, TickStart
  PROVE  Steady' /\ Ledgered
<1>1. /\ rollouts' = Superseded(rollouts) /\ degraded' = degraded
      /\ file' = file /\ gone' = gone /\ Steady
  BY DEF TickStart, fileVars, BInv
<1>. QED BY <1>1, SupersededQuiet, QuietStep DEF Ledgered

LEMMA OpenGroupBudget ==
  ASSUME BInv, NEW g \in opening, OpenGroup(g)
  PROVE  Steady' /\ Ledgered
<1>1. /\ degraded' = degraded /\ file' = file /\ gone' = gone /\ Steady /\ TypeOK
      /\ g \in Groups /\ rollouts \in [RolloutIds -> Rollout]
  BY DEF OpenGroup, fileVars, BInv, TypeOK
<1>2. CASE rollouts' = rollouts
  BY <1>1, <1>2, SameMoves
<1>3. ASSUME NEW r \in FreshIds, NEW m \in {"WaitingForSync", "Running"},
             rollouts' = [rollouts EXCEPT ![r] =
               [RolloutFor(g, policy[g].strategy, file) EXCEPT !.state = m]]
      PROVE  Steady' /\ Ledgered
  <2> DEFINE ro == RolloutFor(g, policy[g].strategy, file)
             new == [ro EXCEPT !.state = m]
  <2>1. policy[g].strategy \in DOMAIN StrategyOf
    BY <1>1 DEF TypeOK, Policy
  <2>2. ro \in Rollout
    BY <1>1, <2>1, RolloutForType DEF TypeOK
  <2>3. /\ new.tgt = ro.tgt /\ new.nb = ro.nb /\ new.open = ro.open /\ new.group = ro.group
        /\ new.state = m
    <3> HIDE DEF ro
    <3>. QED BY <2>2 DEF Rollout
  <2>v. rollouts' = [rollouts EXCEPT ![r] = new]
    BY <1>3
  <2> HIDE DEF new
  <2>4. Fresh(new)
    BY <1>1, <2>1, <2>3, OpenedFresh
  <2> HIDE DEF ro
  <2>5. rollouts'[r] = new /\ \A q \in RolloutIds \ {r} : rollouts'[q] = rollouts[q]
    BY <1>1, <2>v DEF FreshIds
  <2>6. \A q \in RolloutIds : Quiet(rollouts[q], rollouts'[q]) \/ Fresh(rollouts'[q])
    BY <1>1, <2>4, <2>5, QuietSelf DEF Steady, Shaped
  <2>. QED BY <1>1, <2>6, QuietStep DEF Ledgered
<1>4. \/ rollouts' = rollouts
      \/ \E r \in FreshIds, m \in {"WaitingForSync", "Running"} :
           rollouts' = [rollouts EXCEPT ![r] =
             [RolloutFor(g, policy[g].strategy, file) EXCEPT !.state = m]]
  BY DEF OpenGroup
<1>. QED BY <1>2, <1>3, <1>4

LEMMA SyncBudget ==
  ASSUME BInv, NEW g \in Groups, NEW force \in BOOLEAN, NEW strategy \in DOMAIN StrategyOf,
         NEW f \in HeldFiles, Sync(g, force, strategy, f), "reload" \notin Verbs
  PROVE  Steady' /\ Ledgered
<1> DEFINE rs == Superseded(rollouts)
           found == {r \in RolloutIds : Active(rs[r]) /\ rs[r].group = g}
           Start(ro) == [ro EXCEPT !.human = TRUE, !.force = @ \/ force, !.strategy = strategy,
                           !.state = IF @ \in {"WaitingForSync", "WaitingForEnvironment"}
                                     THEN "Running" ELSE @]
<1>1. rs \in [RolloutIds -> Rollout]
  BY SupersededEvolves DEF BInv, TypeOK
<1>2. \A r \in RolloutIds : Quiet(rollouts[r], rs[r])
  BY SupersededQuiet
<1>3. ASSUME NEW ro \in Rollout
      PROVE  /\ Start(ro).tgt = ro.tgt /\ Start(ro).nb = ro.nb /\ Start(ro).open = ro.open
             /\ Start(ro).group = ro.group
             /\ Start(ro).state = ro.state \/ Start(ro).state = "Running"
             /\ Kin(ro, Start(ro))
  <2> DEFINE s == IF ro.state \in {"WaitingForSync", "WaitingForEnvironment"}
                  THEN "Running" ELSE ro.state
             b == ro.force \/ force
  <2>1. s \in States /\ b \in BOOLEAN /\ (s = ro.state \/ s = "Running")
    BY DEF Rollout, States, ActiveStates
  <2>2. Start(ro) = [ro EXCEPT !.human = TRUE, !.force = b, !.strategy = strategy, !.state = s]
    BY DEF Rollout
  <2> HIDE DEF s, b, Start
  <2>. QED BY <2>1, <2>2 DEF Kin, Rollout
<1>4. /\ \/ rollouts' = rs
         \/ \E r \in found : rollouts' = [rs EXCEPT ![r] = Start(rs[r])]
         \/ \E r \in FreshIds : rollouts' = [rs EXCEPT ![r] = Start(RolloutFor(g, strategy, f))]
      /\ degraded' = degraded /\ file' = file /\ gone' = gone
  BY DEF Sync, fileVars
<1>5. Steady /\ TypeOK /\ f = file
  BY DEF BInv, HeldFiles
<1> HIDE DEF rs, Start
<1>6. CASE rollouts' = rs
  BY <1>2, <1>4, <1>5, <1>6, QuietStep DEF Ledgered
<1>7. ASSUME NEW r \in found, rollouts' = [rs EXCEPT ![r] = Start(rs[r])]
      PROVE  Steady' /\ Ledgered
  <2>1. r \in RolloutIds /\ Active(rs[r]) /\ rs[r] \in Rollout /\ Shape(rs[r])
    BY <1>1, <1>2 DEF Quiet, Sound
  <2>2. Sound(rs[r], Start(rs[r]))
    BY <1>3, <2>1, FlagsSound DEF ActiveStates
  <2>3. Start(rs[r]).state = "Halted" =>
          rs[r].state = "Halted" /\ Failed(Start(rs[r])) = Failed(rs[r])
    BY <1>3, <2>1 DEF Failed, InBatch
  <2>4. Quiet(rollouts[r], Start(rs[r]))
    BY <1>2, <2>1, <2>2, <2>3, SoundTrans DEF Quiet
  <2>5. \A q \in RolloutIds : Quiet(rollouts[q], rollouts'[q])
    BY <1>1, <1>2, <1>7, <2>1, <2>4
  <2>. QED BY <1>4, <1>5, <2>5, QuietStep DEF Ledgered
<1>8. ASSUME NEW r \in FreshIds, rollouts' = [rs EXCEPT ![r] = Start(RolloutFor(g, strategy, f))]
      PROVE  Steady' /\ Ledgered
  <2> DEFINE new == Start(RolloutFor(g, strategy, f))
  <2>1. RolloutFor(g, strategy, f) \in Rollout /\ RolloutFor(g, strategy, f).state = "Running"
    BY <1>5, RolloutForType DEF TypeOK
  <2>2. /\ new.tgt = RolloutFor(g, strategy, f).tgt /\ new.nb = RolloutFor(g, strategy, f).nb
        /\ new.open = RolloutFor(g, strategy, f).open /\ new.group = RolloutFor(g, strategy, f).group
        /\ new.state = "Running"
    BY <1>3, <2>1
  <2> HIDE DEF new
  <2>3. Fresh(new)
    BY <1>5, <2>2, OpenedFresh
  <2>4. r \in RolloutIds /\ rollouts'[r] = new /\ \A q \in RolloutIds \ {r} : rollouts'[q] = rs[q]
    BY <1>1, <1>8 DEF FreshIds, new
  <2>5. \A q \in RolloutIds : Quiet(rollouts[q], rollouts'[q]) \/ Fresh(rollouts'[q])
    BY <1>2, <2>3, <2>4
  <2>. QED BY <1>4, <1>5, <2>5, QuietStep DEF Ledgered
<1>. QED BY <1>4, <1>6, <1>7, <1>8

\* A change of one rollout that no other notices.
LEMMA OneQuiet ==
  ASSUME BInv, degraded' = degraded, file' = file, gone' = gone, NEW r \in RolloutIds, NEW new,
         Quiet(rollouts[r], new), rollouts' = [rollouts EXCEPT ![r] = new]
  PROVE  Steady' /\ Ledgered
<1>1. rollouts'[r] = new /\ \A q \in RolloutIds \ {r} : rollouts'[q] = rollouts[q]
  BY DEF BInv, TypeOK
<1>2. \A q \in RolloutIds : Quiet(rollouts[q], rollouts'[q])
  BY <1>1, QuietSelf DEF BInv, TypeOK, Steady, Shaped
<1>. QED BY <1>2, QuietStep DEF Ledgered, BInv

\* Flags change nothing, and neither does a rollout that has ended already.
LEMMA FlagsQuiet ==
  ASSUME NEW ro \in Rollout, Shape(ro), NEW new, Kin(ro, new), new.tgt = ro.tgt, new.nb = ro.nb,
         \/ ~Active(ro) /\ ~Active(new)
         \/ /\ Active(ro) /\ new.open = ro.open
            /\ new.state = ro.state \/ new.state \in {"Running", "Paused"}
  PROVE  Quiet(ro, new)
<1>1. CASE ~Active(ro) /\ ~Active(new)
  BY <1>1 DEF Quiet, Sound, Same, Shape, Lighter, Charged, Tracked, Active, ActiveStates
<1>2. CASE /\ Active(ro) /\ new.open = ro.open
           /\ new.state = ro.state \/ new.state \in {"Running", "Paused"}
  <2>1. Sound(ro, new)
    BY <1>2, FlagsSound DEF ActiveStates
  <2>2. new.state = "Halted" => ro.state = "Halted" /\ Failed(new) = Failed(ro)
    BY <1>2 DEF Failed, InBatch
  <2>. QED BY <1>2, <2>1, <2>2 DEF Quiet
<1>. QED BY <1>1, <1>2

LEMMA VerbBudget ==
  ASSUME BInv, NEW r \in RolloutIds, Pause(r) \/ Promote(r) \/ Abort(r) \/ Retry(r)
  PROVE  Steady' /\ Ledgered
<1> DEFINE old == rollouts[r]
<1>0. old \in Rollout /\ Shape(old)
  BY DEF BInv, TypeOK, Steady, Shaped
<1>1. ASSUME NEW ro, NEW verb, OnRollout(verb, r, ro), Quiet(old, ro)
      PROVE  Steady' /\ Ledgered
  BY <1>1, OneQuiet DEF OnRollout, fileVars
<1>2. CASE Pause(r)
  <2> DEFINE ro == IF old.open THEN [old EXCEPT !.pausePending = TRUE]
                   ELSE [old EXCEPT !.pausePending = FALSE, !.state = "Paused"]
  <2>1. /\ Kin(old, ro) /\ ro.tgt = old.tgt /\ ro.nb = old.nb /\ ro.open = old.open
        /\ ro.state = old.state \/ ro.state = "Paused"
    BY <1>0 DEF Kin, Rollout, States, ActiveStates
  <2>2. OnRollout("pause", r, ro) /\ Active(old)
    BY <1>2 DEF Pause, Active, ActiveStates
  <2> HIDE DEF ro, old
  <2>3. Quiet(old, ro)
    BY <1>0, <2>1, <2>2, FlagsQuiet
  <2>. QED BY <1>1, <2>2, <2>3
<1>3. CASE Promote(r)
  <2> DEFINE s == IF old.state = "Paused" THEN "Running" ELSE old.state
             ro == [old EXCEPT !.pausePending = FALSE, !.human = TRUE, !.state = s]
  <2>0. old.state \in States
    BY <1>0 DEF Rollout
  <2>1. s \in States /\ (s = old.state \/ (s = "Running" /\ Active(old)))
    <3>1. CASE old.state = "Paused"
      BY <3>1 DEF States, Active, ActiveStates
    <3>2. CASE old.state # "Paused"
      BY <2>0, <3>2
    <3>. QED BY <3>1, <3>2
  <2>2. OnRollout("pause", r, ro)
    BY <1>3 DEF Promote
  <2> HIDE DEF s
  <2>3. Kin(old, ro) /\ ro.tgt = old.tgt /\ ro.nb = old.nb /\ ro.open = old.open /\ ro.state = s
    BY <1>0, <2>1 DEF Kin, Rollout
  <2> HIDE DEF ro, old
  <2>4. Active(old) \/ (~Active(old) /\ ~Active(ro))
    <3>1. CASE ro.state = old.state
      BY <3>1 DEF Active
    <3>2. CASE Active(old)
      BY <3>2
    <3>. QED BY <2>1, <2>3, <3>1, <3>2
  <2>5. Quiet(old, ro)
    BY <1>0, <2>1, <2>3, <2>4, FlagsQuiet
  <2>. QED BY <1>1, <2>2, <2>5
<1>4. CASE Abort(r)
  <2> DEFINE end == Ended(old, "Aborted")
             ro == [end EXCEPT !.open = FALSE]
  <2>1. OnRollout("abort", r, ro) /\ Active(old)
    BY <1>4 DEF Abort
  <2>2. Sound(old, end) /\ ~Active(end)
    BY <1>0, <2>1, EndedSound DEF EndedStates
  <2> HIDE DEF end, old
  <2>3. end \in Rollout /\ Shape(end)
    BY <2>2 DEF Sound, Kin
  <2>4. Kin(end, ro) /\ ro.tgt = end.tgt /\ ro.nb = end.nb /\ ro.state = end.state
    BY <2>3 DEF Kin, Rollout
  <2> HIDE DEF ro
  <2>5. Quiet(end, ro)
    BY <2>2, <2>3, <2>4, FlagsQuiet DEF Active
  <2>6. Quiet(old, ro)
    BY <2>2, <2>4, <2>5, SoundTrans DEF Quiet, Active, ActiveStates
  <2>. QED BY <1>1, <2>1, <2>6 DEF old
<1>5. CASE Retry(r)
  <2> DEFINE ro == [old EXCEPT !.retryPending = TRUE, !.human = TRUE]
  <2>1. /\ Kin(old, ro) /\ ro.tgt = old.tgt /\ ro.nb = old.nb /\ ro.open = old.open
        /\ ro.state = old.state
    BY <1>0 DEF Kin, Rollout
  <2>2. OnRollout("retry", r, ro) /\ Active(old)
    BY <1>5 DEF Retry, Active, ActiveStates
  <2> HIDE DEF ro, old
  <2>3. Quiet(old, ro)
    BY <1>0, <2>1, <2>2, FlagsQuiet
  <2>. QED BY <1>1, <2>2, <2>3
<1>. QED BY <1>2, <1>3, <1>4, <1>5

\* Only ended rollouts hold, and a hold that lapses gives its node back.
LEMMA HoldLapseBudget ==
  ASSUME BInv, NEW r \in RolloutIds, NEW t \in Targets, HoldLapse(r, t)
  PROVE  Steady' /\ Ledgered
<1> DEFINE old == rollouts[r]
           rt == [old.tgt[t] EXCEPT !.hold = FALSE]
           ro == [old EXCEPT !.tgt[t] = rt]
<1>1. old \in Rollout /\ Shape(old) /\ ~Active(old)
  BY DEF BInv, TypeOK, Steady, Shaped, Shape, HoldLapse
<1>2. old.tgt[t] \in RolloutTarget
  BY <1>1, TgtType
<1>3. /\ rt \in RolloutTarget /\ rt.phase = old.tgt[t].phase /\ rt.node = old.tgt[t].node
      /\ rt.free = old.tgt[t].free /\ ~rt.hold
  BY <1>2 DEF RolloutTarget
<1>4. rollouts' = [rollouts EXCEPT ![r] = ro] /\ degraded' = degraded /\ file' = file /\ gone' = gone
  BY <1>1 DEF HoldLapse, fileVars, BInv, TypeOK, Rollout
<1> HIDE DEF rt
<1>5. /\ Kin(old, ro) /\ ro.state = old.state
      /\ \A u \in Targets : ro.tgt[u] = IF u = t THEN rt ELSE old.tgt[u]
  BY <1>1, <1>3, OneTarget DEF Rollout
<1> HIDE DEF ro, old
<1>6. ~Active(ro)
  BY <1>1, <1>5 DEF Active
<1>7. Same(old, ro) /\ Lighter(old, ro)
  BY <1>1, <1>3, <1>5, <1>6 DEF Same, Lighter, Charged, Tracked
<1>8. Quiet(old, ro)
  BY <1>5, <1>6, <1>7 DEF Quiet, Sound, Shape, Active, ActiveStates
<1>. QED BY <1>4, <1>8, OneQuiet DEF old

-----------------------------------------------------------------------------
\* Theorems.

LEMMA NextBudget ==
  ASSUME BInv, "reload" \notin Verbs, [Next]_vars
  PROVE  Steady' /\ Ledgered
<1>1. CASE UNCHANGED vars
  BY <1>1, SameMoves DEF vars
<1>2. CASE TickStep
  <2>1. CASE OpenDone \/ PlanDone \/ ExecDone \/ TickDone
    BY <2>1, SameMoves DEF OpenDone, PlanDone, ExecDone, TickDone, fileVars
  <2>. QED BY <1>2, <2>1, TickStartBudget, OpenGroupBudget, PlanStepBudget, ApplyStaleBudget,
              ApplyUpdateBudget, ApplyInspectBudget, ApplyReadyBudget, ApplyCheckBudget
           DEF TickStep, ApplyStep
<1>3. CASE WorldStep
  <2>1. CASE Resolve \/ CheckEnvironment \/ \E t \in Targets : InspectAll(t) \/ Land(t) \/ Fizzle(t)
    BY <2>1, SameMoves DEF Resolve, CheckEnvironment, InspectAll, Land, Fizzle, fileVars
  <2>2. ~Forget /\ \A f \in Files : ~Reload(f)
    BY DEF Forget, Reload, BInv, Steady
  <2>. QED BY <1>3, <2>1, <2>2, HoldLapseBudget DEF WorldStep
<1>4. CASE PeopleStep
  <2>1. ASSUME NEW sel, Suspend(sel) \/ Resume(sel) PROVE Steady' /\ Ledgered
    BY <2>1, SameMoves DEF Suspend, Resume, fileVars
  <2>2. ASSUME NEW g, NEW p, SetPolicy(g, p) PROVE Steady' /\ Ledgered
    BY <2>2, SameMoves DEF SetPolicy, fileVars
  <2>. QED BY <1>4, <2>1, <2>2, SyncBudget, VerbBudget DEF PeopleStep
<1>. QED BY <1>1, <1>2, <1>3, <1>4 DEF Next

LEMMA BInvInit ==
  ASSUME Init
  PROVE  BInv /\ InFlight(rollouts) = {}
<1>1. TypeOK
  BY InitType
<1>2. \A r \in RolloutIds : rollouts[r] = NoRollout
  BY DEF Init
<1>3. NoRollout.state = "None" /\ \A t \in Targets : ~NoRollout.tgt[t].hold
  BY DEF NoRollout, NoTarget
<1>4. ~Active(NoRollout)
  BY <1>3 DEF Active, ActiveStates
<1>5. OneInv
  BY <1>2, <1>4 DEF Init, OneInv, OneActivePerGroup, AbortHolds, ActiveIds, ActiveIn
<1>6. Steady
  BY <1>2, <1>3, <1>4 DEF Init, Steady, Shaped, Shape, Homed, ActiveIds, Quarantine
<1>7. InFlight(rollouts) = {}
  BY <1>2, <1>3, <1>4 DEF InFlight, Charged, Tracked
<1>8. W[file][InFlight(rollouts)] = 0 /\ Budget[file] \in Nat
  BY <1>1, <1>7, WeightAssumption DEF TypeOK
<1>. QED BY <1>1, <1>5, <1>6, <1>7, <1>8 DEF BInv, BudgetHeld

\* Only a reload changes the file.
LEMMA FileStays ==
  ASSUME BInv, "reload" \notin Verbs, [Next]_vars
  PROVE  file' = file
<1>1. CASE TickStep
  BY <1>1 DEF TickStep, TickStart, OpenGroup, OpenDone, PlanStep, PlanNothing, PlanRetry, PlanStart,
     PlanOpen, PlanLate, PlanSoak, Planning, PlanDone, ExecDone, ApplyStep, ApplyStale, ApplyUpdate,
     ApplyInspect, ApplyReady, Applying, ApplyCheckStale, ApplyCheckPassed, ApplyCheckFailed,
     ApplyingCheck, TickDone, fileVars
<1>2. CASE WorldStep
  BY <1>2 DEF WorldStep, Resolve, CheckEnvironment, InspectAll, Land, Fizzle, Reload, Forget, HoldLapse,
     fileVars
<1>3. CASE PeopleStep
  BY <1>3 DEF PeopleStep, Sync, Suspend, Resume, SetPolicy, Pause, Promote, Abort, Retry, OnRollout,
     fileVars
<1>. QED BY <1>1, <1>2, <1>3 DEF Next, vars

\* Fewer nodes weigh less, and more were admitted within the budget.
LEMMA LedgeredHeld ==
  ASSUME BudgetHeld, Ledgered, file \in Files, file' = file
  PROVE  BudgetHeld'
<1>1. InFlight(rollouts) \in SUBSET Nodes /\ Budget[file] \in Nat
  BY WeightAssumption DEF InFlight
<1>2. CASE InFlight(rollouts') \subseteq InFlight(rollouts)
  <2>1. /\ W[file][InFlight(rollouts')] \in Nat /\ W[file][InFlight(rollouts)] \in Nat
        /\ W[file][InFlight(rollouts')] <= W[file][InFlight(rollouts)]
    BY <1>1, <1>2, WeightGrows
  <2>2. W[file][InFlight(rollouts')] <= Budget[file]
    BY <1>1, <2>1 DEF BudgetHeld
  <2>. QED BY <2>2 DEF BudgetHeld
<1>. QED BY <1>2 DEF Ledgered, BudgetHeld

LEMMA BInvStep ==
  ASSUME BInv, "reload" \notin Verbs, [Next]_vars
  PROVE  BInv'
  BY NextBudget, NextType, OneStep, FileStays, LedgeredHeld DEF BInv, TypeOK

\* While the targets file stays, the weight of the nodes counted as unavailable
\* never exceeds the budget, for every fleet, strategy, choice of verbs and
\* failures.
THEOREM BudgetSafe ==
  ASSUME "reload" \notin Verbs
  PROVE  Spec => []BudgetHeld
<1>1. Init => BInv
  BY BInvInit
<1>2. BInv /\ [Next]_vars => BInv'
  BY BInvStep
<1>3. BInv => BudgetHeld
  BY DEF BInv
<1>. QED BY <1>1, <1>2, <1>3, PTL DEF Spec

\* While the targets file stays, what a halt stopped is in quarantine for as
\* long as its rollout is halted, and nothing else of the batch is left.
THEOREM QuarantineHolds ==
  ASSUME "reload" \notin Verbs
  PROVE  Spec => []HaltedQuarantined
<1>1. Init => BInv
  BY BInvInit
<1>2. BInv /\ [Next]_vars => BInv'
  BY BInvStep
<1>3. BInv => HaltedQuarantined
  <2> SUFFICES ASSUME BInv, NEW r \in RolloutIds, rollouts[r].state = "Halted"
               PROVE  /\ Failed(rollouts[r]) \subseteq degraded
                      /\ HeldBy(rollouts[r]) = Failed(rollouts[r])
    BY DEF HaltedQuarantined
  <2>1. Failed(rollouts[r]) \subseteq degraded
    BY DEF BInv, Steady, Quarantine
  <2>2. InBatch(rollouts[r]) \subseteq TargetsIn(rollouts[r], {"failed", "skipped"})
    BY DEF BInv, Steady, Shaped, Shape, Active, ActiveStates
  <2>. QED BY <2>1, <2>2 DEF HeldBy, Failed, TargetsIn
<1>. QED BY <1>1, <1>2, <1>3, PTL DEF Spec

\* The phases of an active rollout always fit its state and its open batch.
THEOREM ShapedAlways ==
  ASSUME "reload" \notin Verbs
  PROVE  Spec => []Shaped
<1>1. Init => BInv
  BY BInvInit
<1>2. BInv /\ [Next]_vars => BInv'
  BY BInvStep
<1>3. BInv => Shaped
  BY DEF BInv, Steady
<1>. QED BY <1>1, <1>2, <1>3, PTL DEF Spec

\* The controller implements the ledger while the targets file stays: its
\* initial states are the ledger's, and every step takes nodes out within the
\* budget, brings some back or stutters.
THEOREM LedgerImplemented ==
  ASSUME "reload" \notin Verbs
  PROVE  Spec => ImplementsLedger
<1>1. Init => BInv /\ TheLedger!AllAvailable
  BY BInvInit DEF TheLedger!AllAvailable, Init
<1>2. BInv /\ [Next]_vars => BInv'
  BY BInvStep
<1>3. BInv /\ [Next]_vars => [TheLedger!LedgerStep]_(<<file, InFlight(rollouts)>>)
  <2> SUFFICES ASSUME BInv, [Next]_vars PROVE TheLedger!LedgerStep
    OBVIOUS
  <2>1. Ledgered /\ file' = file
    BY NextBudget, FileStays
  <2>2. InFlight(rollouts) \in SUBSET Nodes /\ InFlight(rollouts') \in SUBSET Nodes
    BY DEF InFlight
  <2>3. CASE InFlight(rollouts') \subseteq InFlight(rollouts)
    <3> DEFINE Back == InFlight(rollouts) \ InFlight(rollouts')
    <3>1. Back \in SUBSET Nodes /\ InFlight(rollouts') = InFlight(rollouts) \ Back
      BY <2>2, <2>3
    <3> HIDE DEF Back
    <3>. QED BY <2>1, <3>1 DEF TheLedger!LedgerStep, TheLedger!BringBack
  <2>4. CASE InFlight(rollouts) \subseteq InFlight(rollouts') /\ W[file][InFlight(rollouts')] <= Budget[file]
    <3> DEFINE Out == InFlight(rollouts') \ InFlight(rollouts)
    <3>1. Out \in SUBSET Nodes /\ InFlight(rollouts') = InFlight(rollouts) \cup Out
      BY <2>2, <2>4
    <3> HIDE DEF Out
    <3>. QED BY <2>1, <2>4, <3>1 DEF TheLedger!LedgerStep, TheLedger!TakeOut
  <2>. QED BY <2>1, <2>3, <2>4 DEF Ledgered
<1>. QED BY <1>1, <1>2, <1>3, PTL DEF Spec, ImplementsLedger, TheLedger!WithinBudget

\* Whatever implements the ledger keeps the budget while the targets file
\* stays: the abstraction says enough.
THEOREM LedgerSuffices == ImplementsLedger /\ [](file = InitialFile) => []BudgetHeld
<1>0. InitialFile \in Files
  BY FilesAssumption
<1>1. TheLedger!AllAvailable => BudgetHeld
  <2> SUFFICES ASSUME TheLedger!AllAvailable PROVE BudgetHeld
    OBVIOUS
  <2>1. file \in Files /\ InFlight(rollouts) = {}
    BY <1>0 DEF TheLedger!AllAvailable
  <2>2. W[file][{}] = 0 /\ Budget[file] \in Nat
    BY <2>1, WeightAssumption
  <2>. QED BY <2>1, <2>2 DEF BudgetHeld
<1>2. /\ BudgetHeld /\ file = InitialFile /\ (file = InitialFile)'
      /\ [TheLedger!LedgerStep]_(<<file, InFlight(rollouts)>>)
      => BudgetHeld'
  <2> SUFFICES ASSUME BudgetHeld, file = InitialFile, file' = InitialFile,
                      [TheLedger!LedgerStep]_(<<file, InFlight(rollouts)>>)
               PROVE  BudgetHeld'
    OBVIOUS
  <2> DEFINE old == InFlight(rollouts)
             new == InFlight(rollouts')
  <2>1. file \in Files /\ file' = file /\ old \in SUBSET Nodes
    BY <1>0 DEF InFlight
  <2>2. Budget[file] \in Nat /\ W[file][old] \in Nat /\ W[file][old] <= Budget[file]
    BY <2>1, WeightAssumption DEF BudgetHeld
  <2>3. \/ new \subseteq old
        \/ \E S \in SUBSET Nodes : /\ new = old \cup S
                                   /\ W[file][S] = 0 \/ W[file][old \cup S] <= Budget[file]
    BY DEF TheLedger!LedgerStep, TheLedger!Reweigh, TheLedger!TakeOut, TheLedger!BringBack
  <2>4. W[file][new] <= Budget[file] => BudgetHeld'
    BY <2>1 DEF BudgetHeld
  <2> HIDE DEF old, new
  <2>5. CASE new \subseteq old
    <3>1. W[file][new] \in Nat /\ W[file][new] <= W[file][old]
      BY <2>1, <2>5, WeightGrows
    <3>. QED BY <2>2, <2>4, <3>1
  <2>6. ASSUME NEW S \in SUBSET Nodes, new = old \cup S, W[file][S] = 0
        PROVE  W[file][new] <= Budget[file]
    <3>1. new = old \cup (S \ old) /\ old \cap (S \ old) = {} /\ S \ old \in SUBSET Nodes
      BY <2>6
    <3>2. W[file][S \ old] \in Nat /\ W[file][S \ old] <= W[file][S]
      BY <2>1, WeightGrows
    <3>3. W[file][new] = W[file][old] + W[file][S \ old]
      BY <2>1, <3>1, WeightAssumption
    <3>. QED BY <2>2, <2>6, <3>2, <3>3
  <2>. QED BY <2>3, <2>4, <2>5, <2>6
<1>. QED BY <1>1, <1>2, PTL DEF ImplementsLedger, TheLedger!WithinBudget

====
