---- MODULE RolloutProofs ----
(***************************************************************************)
(* How rollouts move, for every fleet, strategy, verb and fault: along the *)
(* lifecycle's edges, honouring pauses, wave by wave, one program per      *)
(* target, lifting quarantine only for what was seen on the new build.     *)
(* Unlike the budget, most of it holds while the targets file changes.     *)
(***************************************************************************)
EXTENDS ControllerProofs

-----------------------------------------------------------------------------
\* One rollout.

\* Inspect has seen the new build of what is ready, and not of what waits.
Traced(ro) ==
  \A t \in Targets : /\ ro.tgt[t].phase = "ready" => ro.tgt[t].updated
                     /\ ro.tgt[t].phase = "pending" => ~ro.tgt[t].updated

\* What a rollout's state says of its batches and its pause: a batch is open
\* only in a rollout that runs or soaks, a pause waits only for a batch.
Fine(ro) ==
  /\ ro.state = "None" => ~ro.pausePending
  /\ Active(ro) =>
       /\ Shape(ro) /\ Traced(ro)
       /\ ro.open => /\ ro.state \in {"Running", "Soaking"} /\ ro.nb > 0
                     /\ \A t \in InBatch(ro) : ro.tgt[t].phase # "pending"
       /\ ro.state = "Soaking" => ro.open
       /\ ro.state = "Halted" => ro.nb > 0
       /\ ro.pausePending => ro.open \/ ro.state = "Halted"

\* What a rollout is for and how it is ordered stays, its batches too, and
\* nothing waits again that did not.
Calm(ro, new) ==
  /\ Kin(ro, new)
  /\ new.want = ro.want /\ new.strategy = ro.strategy /\ new.nb = ro.nb
  /\ \A t \in Targets :
       /\ new.tgt[t].node = ro.tgt[t].node
       /\ new.tgt[t].wave = ro.tgt[t].wave
       /\ new.tgt[t].batch = ro.tgt[t].batch
       /\ new.tgt[t].degBefore = ro.tgt[t].degBefore
       /\ new.tgt[t].phase = "none" <=> ro.tgt[t].phase = "none"
  /\ Unbatched(new) \subseteq Unbatched(ro)

LEMMA CalmSelf ==
  ASSUME NEW ro \in Rollout
  PROVE  Calm(ro, ro)
  BY DEF Calm, Kin

LEMMA CalmTrans ==
  ASSUME NEW a, NEW b, NEW c, Calm(a, b), Calm(b, c)
  PROVE  Calm(a, c)
  BY DEF Calm, Kin

LEMMA CalmBatch ==
  ASSUME NEW ro, NEW new, Calm(ro, new)
  PROVE  InBatch(new) = InBatch(ro) /\ TargetsOf(new) = TargetsOf(ro)
  BY DEF Calm, InBatch, TargetsOf, TargetsIn

\* A change of phases, in which nothing starts to wait, and of nothing else
\* that orders the rollout.
LEMMA PhasesCalm ==
  ASSUME NEW ro \in Rollout, NEW new, Kin(ro, new),
         new.want = ro.want, new.strategy = ro.strategy, new.nb = ro.nb,
         \A t \in Targets :
           /\ new.tgt[t].node = ro.tgt[t].node
           /\ new.tgt[t].wave = ro.tgt[t].wave
           /\ new.tgt[t].batch = ro.tgt[t].batch
           /\ new.tgt[t].degBefore = ro.tgt[t].degBefore
           /\ new.tgt[t].phase = "none" <=> ro.tgt[t].phase = "none"
           /\ new.tgt[t].phase = "pending" => ro.tgt[t].phase = "pending"
  PROVE  Calm(ro, new)
  BY DEF Calm, Unbatched, TargetsIn

LEMMA EndedCalm ==
  ASSUME NEW ro \in Rollout, NEW s \in States
  PROVE  LET new == Ended(ro, s)
         IN /\ Calm(ro, new)
            /\ new.open = ro.open
            /\ \A t \in Targets : new.tgt[t].updated = ro.tgt[t].updated
<1> DEFINE new == Ended(ro, s)
<1>1. ASSUME NEW t \in Targets
      PROVE  LET a == ro.tgt[t]
                 b == new.tgt[t]
             IN /\ b.node = a.node /\ b.wave = a.wave /\ b.batch = a.batch
                /\ b.degBefore = a.degBefore /\ b.updated = a.updated
                /\ b.phase = "none" <=> a.phase = "none"
                /\ b.phase = "pending" => a.phase = "pending"
  <2> DEFINE h == ro.tgt[t].hold \/ (ro.tgt[t].phase = "updating" /\ ~ro.tgt[t].updated)
  <2>1. new.tgt[t] = IF ro.tgt[t].phase \in {"updating", "ready"}
                     THEN [ro.tgt[t] EXCEPT !.hold = h, !.phase = "skipped"] ELSE ro.tgt[t]
    BY DEF Ended, Rollout
  <2>2. ro.tgt[t] \in RolloutTarget
    BY TgtType
  <2> HIDE DEF h, new
  <2>. QED BY <2>1, <2>2 DEF RolloutTarget
<1>2. Kin(ro, new) /\ new.want = ro.want /\ new.strategy = ro.strategy /\ new.nb = ro.nb /\ new.open = ro.open
  BY EndedType DEF Ended, Rollout
<1> HIDE DEF new
<1>. QED BY <1>1, <1>2, PhasesCalm DEF new

LEMMA WithoutLostCalm ==
  ASSUME NEW ro \in Rollout, NEW lost, NEW phases
  PROVE  LET new == WithoutLost(ro, lost, phases)
         IN /\ Calm(ro, new)
            /\ new.pausePending = ro.pausePending /\ new.force = ro.force
            /\ \A t \in Targets : new.tgt[t].updated = ro.tgt[t].updated
<1> DEFINE new == WithoutLost(ro, lost, phases)
<1>1. \A t \in Targets : \/ new.tgt[t] = ro.tgt[t]
                         \/ t \in InBatch(ro) /\ new.tgt[t] = [ro.tgt[t] EXCEPT !.phase = "skipped"]
  BY DEF WithoutLost, Rollout
<1>k. Kin(ro, new)
  BY WithoutLostType
<1>2. /\ new.want = ro.want /\ new.strategy = ro.strategy /\ new.nb = ro.nb
      /\ new.pausePending = ro.pausePending /\ new.force = ro.force
  BY DEF WithoutLost, Rollout
<1> HIDE DEF new
<1>3. ASSUME NEW t \in Targets
      PROVE  LET a == ro.tgt[t]
                 b == new.tgt[t]
             IN /\ b.node = a.node /\ b.wave = a.wave /\ b.batch = a.batch
                /\ b.degBefore = a.degBefore /\ b.updated = a.updated
                /\ b.phase = "none" <=> a.phase = "none"
                /\ b.phase = "pending" => a.phase = "pending"
  <2>1. ro.tgt[t] \in RolloutTarget
    BY TgtType
  <2>. QED BY <1>1, <2>1 DEF RolloutTarget, InBatch
<1>. QED BY <1>k, <1>2, <1>3, PhasesCalm DEF new

LEMMA AdvancedCalm ==
  ASSUME NEW ro \in Rollout
  PROVE  LET new == Advanced(ro)
         IN /\ Calm(ro, new)
            /\ new.pausePending = ro.pausePending
            /\ \A t \in Targets : new.tgt[t].updated = ro.tgt[t].updated
<1> DEFINE new == Advanced(ro)
<1>1. \A t \in Targets : \/ new.tgt[t] = ro.tgt[t]
                         \/ /\ ro.tgt[t].phase \in {"pending", "updating"}
                            /\ \/ new.tgt[t] = [ro.tgt[t] EXCEPT !.phase = "updating"]
                               \/ new.tgt[t] = [ro.tgt[t] EXCEPT !.phase = "ready"]
  BY DEF Advanced, Rollout
<1>k. Kin(ro, new)
  BY AdvancedType
<1>2. /\ new.want = ro.want /\ new.strategy = ro.strategy /\ new.nb = ro.nb
      /\ new.pausePending = ro.pausePending
  BY DEF Advanced, Rollout
<1> HIDE DEF new
<1>3. ASSUME NEW t \in Targets
      PROVE  LET a == ro.tgt[t]
                 b == new.tgt[t]
             IN /\ b.node = a.node /\ b.wave = a.wave /\ b.batch = a.batch
                /\ b.degBefore = a.degBefore /\ b.updated = a.updated
                /\ b.phase = "none" <=> a.phase = "none"
                /\ b.phase = "pending" => a.phase = "pending"
  <2>1. ro.tgt[t] \in RolloutTarget
    BY TgtType
  <2>. QED BY <1>1, <2>1 DEF RolloutTarget
<1>. QED BY <1>k, <1>2, <1>3, PhasesCalm DEF new

LEMMA HaltedCalm ==
  ASSUME NEW ro \in Rollout
  PROVE  LET new == Halted(ro)
         IN /\ Calm(ro, new)
            /\ new.pausePending = ro.pausePending
            /\ \A t \in Targets : new.tgt[t].updated = ro.tgt[t].updated
<1> DEFINE new == Halted(ro)
<1>1. \A t \in Targets : \/ new.tgt[t] = ro.tgt[t]
                         \/ /\ t \in InBatch(ro)
                            /\ new.tgt[t] = [ro.tgt[t] EXCEPT !.phase = "failed"]
  BY DEF Halted, HeldBy, Rollout
<1>k. Kin(ro, new)
  BY HaltedType
<1>2. /\ new.want = ro.want /\ new.strategy = ro.strategy /\ new.nb = ro.nb
      /\ new.pausePending = ro.pausePending
  BY DEF Halted, Rollout
<1> HIDE DEF new
<1>3. ASSUME NEW t \in Targets
      PROVE  LET a == ro.tgt[t]
                 b == new.tgt[t]
             IN /\ b.node = a.node /\ b.wave = a.wave /\ b.batch = a.batch
                /\ b.degBefore = a.degBefore /\ b.updated = a.updated
                /\ b.phase = "none" <=> a.phase = "none"
                /\ b.phase = "pending" => a.phase = "pending"
  <2>1. ro.tgt[t] \in RolloutTarget
    BY TgtType
  <2>. QED BY <1>1, <2>1 DEF RolloutTarget, InBatch
<1>. QED BY <1>k, <1>2, <1>3, PhasesCalm DEF new

LEMMA PassedCalm ==
  ASSUME NEW ro \in Rollout
  PROVE  LET new == Passed(ro)
         IN /\ Calm(ro, new)
            /\ ~new.pausePending /\ (ro.pausePending => new.state = "Paused")
            /\ \A t \in Targets : new.tgt[t].updated = ro.tgt[t].updated
<1> DEFINE new == Passed(ro)
<1>1. \A t \in Targets : \/ new.tgt[t] = ro.tgt[t]
                         \/ /\ t \in InBatch(ro)
                            /\ new.tgt[t] = [ro.tgt[t] EXCEPT !.phase = "passed"]
  BY DEF Passed, Rollout
<1>k. Kin(ro, new)
  BY PassedType
<1>2. /\ new.want = ro.want /\ new.strategy = ro.strategy /\ new.nb = ro.nb
      /\ ~new.pausePending /\ (ro.pausePending => new.state = "Paused")
  BY DEF Passed, Rollout
<1> HIDE DEF new
<1>3. ASSUME NEW t \in Targets
      PROVE  LET a == ro.tgt[t]
                 b == new.tgt[t]
             IN /\ b.node = a.node /\ b.wave = a.wave /\ b.batch = a.batch
                /\ b.degBefore = a.degBefore /\ b.updated = a.updated
                /\ b.phase = "none" <=> a.phase = "none"
                /\ b.phase = "pending" => a.phase = "pending"
  <2>1. ro.tgt[t] \in RolloutTarget
    BY TgtType
  <2>. QED BY <1>1, <2>1 DEF RolloutTarget, InBatch
<1>. QED BY <1>k, <1>2, <1>3, PhasesCalm DEF new

LEMMA SoakingCalm ==
  ASSUME NEW ro \in Rollout
  PROVE  LET new == Soaking(ro)
         IN /\ Calm(ro, new)
            /\ new.pausePending = ro.pausePending /\ new.open = ro.open /\ new.tgt = ro.tgt
            /\ new.state = "Soaking"
<1>1. LET new == Soaking(ro)
      IN /\ new.want = ro.want /\ new.strategy = ro.strategy /\ new.nb = ro.nb
         /\ new.pausePending = ro.pausePending /\ new.open = ro.open /\ new.tgt = ro.tgt
         /\ new.state = "Soaking"
  BY DEF Soaking, Rollout
<1>. QED BY <1>1, SoakingType DEF Calm, Unbatched, TargetsIn

LEMMA ReviewedCalm ==
  ASSUME NEW ro \in Rollout, NEW lost, NEW un, NEW arr
  PROVE  LET new == Reviewed(ro, lost, un, arr)
         IN /\ Calm(ro, new)
            /\ new.pausePending = ro.pausePending
            /\ \A t \in Targets : new.tgt[t].updated = ro.tgt[t].updated
            /\ Unbatched(new) \cap lost = {}
<1> DEFINE new == Reviewed(ro, lost, un, arr)
<1>1. \A t \in Targets : \/ new.tgt[t] = ro.tgt[t] /\ (t \in Unbatched(ro) => t \notin lost)
                         \/ /\ ro.tgt[t].phase = "pending"
                            /\ \/ new.tgt[t] = [ro.tgt[t] EXCEPT !.phase = "skipped"]
                               \/ new.tgt[t] = [ro.tgt[t] EXCEPT !.phase = "passed"]
  BY DEF Reviewed, Rollout, Unbatched, TargetsIn
<1>k. Kin(ro, new)
  BY ReviewedType
<1>2. /\ new.want = ro.want /\ new.strategy = ro.strategy /\ new.nb = ro.nb
      /\ new.pausePending = ro.pausePending
  BY DEF Reviewed, Rollout
<1> HIDE DEF new
<1>3. ASSUME NEW t \in Targets
      PROVE  LET a == ro.tgt[t]
                 b == new.tgt[t]
             IN /\ b.node = a.node /\ b.wave = a.wave /\ b.batch = a.batch
                /\ b.degBefore = a.degBefore /\ b.updated = a.updated
                /\ b.phase = "none" <=> a.phase = "none"
                /\ b.phase = "pending" => a.phase = "pending"
                /\ b.phase = "pending" => (t \in Unbatched(ro) => t \notin lost)
  <2>1. ro.tgt[t] \in RolloutTarget
    BY TgtType
  <2>. QED BY <1>1, <2>1 DEF RolloutTarget
<1>4. Calm(ro, new)
  BY <1>k, <1>2, <1>3, PhasesCalm
<1>5. Unbatched(new) \cap lost = {}
  BY <1>3, <1>4 DEF Calm, Unbatched, TargetsIn
<1>. QED BY <1>2, <1>3, <1>4, <1>5 DEF new

-----------------------------------------------------------------------------
\* A visit of the open batch.

\* A rollout that runs with its batch open.
Begun(ro) ==
  /\ ro \in Rollout /\ ro.state = "Running" /\ ro.open /\ ro.nb > 0
  /\ Shape(ro) /\ Traced(ro)

\* The batch passes: what leaves quarantine was seen on the new build.
LEMMA PassedFine ==
  ASSUME NEW ro \in Rollout, Active(ro), Shape(ro), Traced(ro),
         InBatch(ro) \subseteq TargetsIn(ro, {"ready", "skipped"})
  PROVE  LET new == Passed(ro)
         IN /\ Fine(new) /\ Active(new)
            /\ \A t \in PassedBy(ro) : new.tgt[t].phase = "passed" /\ new.tgt[t].updated
<1> DEFINE new == Passed(ro)
<1>1. /\ Shape(new) /\ new.state \in {"Paused", "Running"}
      /\ ~new.open /\ ~new.pausePending
      /\ \A t \in Targets : new.tgt[t].updated = ro.tgt[t].updated
      /\ \A t \in Targets :
           new.tgt[t].phase = IF t \in InBatch(ro) /\ ro.tgt[t].phase = "ready"
                              THEN "passed" ELSE ro.tgt[t].phase
  BY PassedSound, PassedFixed, PassedCalm DEF Sound
<1> HIDE DEF new
<1>2. Traced(new)
  BY <1>1 DEF Traced
<1>3. Fine(new) /\ Active(new)
  BY <1>1, <1>2 DEF Fine, Active, ActiveStates
<1>4. ASSUME NEW t \in PassedBy(ro) PROVE new.tgt[t].phase = "passed" /\ new.tgt[t].updated
  <2>1. t \in Targets /\ t \in InBatch(ro) /\ ro.tgt[t].phase = "ready"
    BY DEF PassedBy, TargetsIn, InBatch
  <2>. QED BY <1>1, <2>1 DEF Traced
<1>. QED BY <1>3, <1>4 DEF new

LEMMA SoakingFine ==
  ASSUME NEW ro \in Rollout, Active(ro), Shape(ro), Traced(ro), ro.open, ro.nb > 0, ro.state # "Halted",
         InBatch(ro) \subseteq TargetsIn(ro, {"ready", "skipped"})
  PROVE  Fine(Soaking(ro)) /\ Active(Soaking(ro))
<1> DEFINE new == Soaking(ro)
<1>1. /\ Shape(new) /\ new.state = "Soaking" /\ new.open = ro.open /\ new.tgt = ro.tgt /\ Calm(ro, new)
  BY SoakingSound, SoakingCalm DEF Sound
<1> HIDE DEF new
<1>2. Traced(new)
  BY <1>1 DEF Traced
<1>3. \A t \in InBatch(new) : new.tgt[t].phase # "pending"
  BY <1>1, CalmBatch DEF TargetsIn
<1>. QED BY <1>1, <1>2, <1>3 DEF Fine, Calm, Active, ActiveStates, new

\* What a visit makes of the rollout, of the quarantine dg it began with, and
\* of the jobs.
Visits(r, ro, dg, fin) ==
  /\ rollouts' = [rollouts EXCEPT ![r] = fin]
  /\ Calm(ro, fin) /\ \A t \in Targets : fin.tgt[t].updated = ro.tgt[t].updated
  /\ Fine(fin) /\ Active(fin) /\ fin.state \in {"Running", "Soaking", "Paused"}
  /\ ro.pausePending => AskedToPause(fin)
  /\ \A t \in dg \ degraded' : fin.tgt[t].phase = "passed" /\ fin.tgt[t].updated

LEMMA PassBatchVisits ==
  ASSUME NEW r, NEW ro \in Rollout, Active(ro), Shape(ro), Traced(ro), NEW dg,
         InBatch(ro) \subseteq TargetsIn(ro, {"ready", "skipped"}), PassBatch(r, ro, dg)
  PROVE  Visits(r, ro, dg, Passed(ro))
<1>1. rollouts' = [rollouts EXCEPT ![r] = Passed(ro)] /\ degraded' = dg \ PassedBy(ro)
  BY DEF PassBatch, Settle
<1>2. /\ Fine(Passed(ro)) /\ Active(Passed(ro))
      /\ \A t \in PassedBy(ro) : Passed(ro).tgt[t].phase = "passed" /\ Passed(ro).tgt[t].updated
  BY PassedFine
<1>3. /\ Calm(ro, Passed(ro)) /\ \A t \in Targets : Passed(ro).tgt[t].updated = ro.tgt[t].updated
      /\ ro.pausePending => Passed(ro).state = "Paused"
  BY PassedCalm
<1>4. Passed(ro).state \in {"Running", "Paused"}
  BY PassedSound
<1>. QED BY <1>1, <1>2, <1>3, <1>4 DEF Visits, AskedToPause

LEMMA AdvancedBegun ==
  ASSUME NEW ro, Begun(ro)
  PROVE  LET nxt == Advanced(ro)
         IN Begun(nxt) /\ Fine(nxt) /\ Calm(ro, nxt) /\ nxt.pausePending = ro.pausePending
            /\ \A t \in Targets : nxt.tgt[t].updated = ro.tgt[t].updated
<1> DEFINE nxt == Advanced(ro)
<1>0. ro \in Rollout /\ Active(ro) /\ CanStart(ro) /\ Shape(ro) /\ ro.open
  BY DEF Begun, CanStart, Active, ActiveStates
<1>1. /\ Shape(nxt) /\ nxt.state = "Running" /\ nxt.open
  BY <1>0, AdvancedSound DEF Sound, Begun
<1>2. /\ Calm(ro, nxt) /\ nxt.pausePending = ro.pausePending
      /\ \A t \in Targets : nxt.tgt[t].updated = ro.tgt[t].updated
  BY <1>0, AdvancedCalm
<1>3. \A t \in Targets : nxt.tgt[t].phase =
           IF t \notin InBatch(ro) THEN ro.tgt[t].phase
           ELSE IF ro.tgt[t].phase = "pending" THEN "updating"
           ELSE IF ro.tgt[t].phase = "updating" /\ ro.tgt[t].updated /\ ro.force THEN "ready"
           ELSE ro.tgt[t].phase
  BY <1>0, AdvancedFixed
<1> HIDE DEF nxt
<1>4. Traced(nxt)
  BY <1>2, <1>3 DEF Traced, Begun
<1>5. nxt \in Rollout /\ nxt.nb > 0
  BY <1>2 DEF Calm, Kin, Begun
<1>6. \A t \in InBatch(nxt) : nxt.tgt[t].phase # "pending"
  BY <1>2, <1>3, CalmBatch DEF InBatch
<1>7. Begun(nxt)
  BY <1>1, <1>4, <1>5 DEF Begun
<1>8. Fine(nxt)
  BY <1>1, <1>4, <1>5, <1>6 DEF Fine
<1>. QED BY <1>2, <1>7, <1>8 DEF nxt

LEMMA WithoutLostBegun ==
  ASSUME NEW ro, Begun(ro), NEW lost, NEW phases
  PROVE  LET cur == WithoutLost(ro, lost, phases)
         IN Begun(cur) /\ Calm(ro, cur) /\ cur.pausePending = ro.pausePending
            /\ \A t \in Targets : cur.tgt[t].updated = ro.tgt[t].updated
<1> DEFINE cur == WithoutLost(ro, lost, phases)
<1>0. ro \in Rollout /\ Active(ro) /\ Shape(ro) /\ ro.open
  BY DEF Begun, Active, ActiveStates
<1>1. Shape(cur)
  BY <1>0, WithoutLostSound DEF Sound
<1>2. /\ Calm(ro, cur) /\ cur.pausePending = ro.pausePending
      /\ \A t \in Targets : cur.tgt[t].updated = ro.tgt[t].updated
  BY <1>0, WithoutLostCalm
<1>3. /\ Fixed(ro, cur)
      /\ cur.state = ro.state /\ cur.open = ro.open
      /\ \A t \in Targets : cur.tgt[t].phase =
           IF t \in lost \cap InBatch(ro) /\ ro.tgt[t].phase \in phases
           THEN "skipped" ELSE ro.tgt[t].phase
  <2>1. ro \in Rollout
    BY <1>0
  <2>. QED BY <2>1, WithoutLostFixed
<1> HIDE DEF cur
<1>4. Traced(cur)
  BY <1>2, <1>3 DEF Traced, Begun
<1>5. Begun(cur)
  BY <1>1, <1>2, <1>3, <1>4 DEF Begun, Calm, Kin
<1>. QED BY <1>2, <1>5 DEF cur

\* A visit of an open batch; while a program is still to run, the rollout runs.
LEMMA PlanBatchVisits ==
  ASSUME NEW r, NEW ro, Begun(ro), NEW dg, PlanBatch(r, ro, dg)
  PROVE  \E fin : /\ Visits(r, ro, dg, fin)
                  /\ Waiting(WithoutLost(ro, Lost(ro), {"pending", "updating"})) # {} => fin.state = "Running"
<1> DEFINE cur == WithoutLost(ro, Lost(ro), {"pending", "updating"})
           nxt == Advanced(cur)
           js == JobsFor(r, cur)
<1>1. \/ js = {} /\ BatchReady(r, nxt, dg)
      \/ rollouts' = [rollouts EXCEPT ![r] = nxt] /\ degraded' = dg
  BY DEF PlanBatch
<1>2. js = {} <=> Waiting(cur) = {}
  <2> HIDE DEF cur
  <2>. QED BY DEF JobsFor
<1>3. /\ Begun(cur) /\ Calm(ro, cur) /\ cur.pausePending = ro.pausePending
      /\ \A t \in Targets : cur.tgt[t].updated = ro.tgt[t].updated
  BY WithoutLostBegun
<1> HIDE DEF cur, js
<1>4. /\ Begun(nxt) /\ Fine(nxt) /\ Calm(cur, nxt) /\ nxt.pausePending = cur.pausePending
      /\ \A t \in Targets : nxt.tgt[t].updated = cur.tgt[t].updated
  BY <1>3, AdvancedBegun
<1>5. Waiting(cur) = {} => InBatch(nxt) \subseteq TargetsIn(nxt, {"ready", "skipped"})
  BY <1>3, AdvancedSettled DEF Begun, Active, ActiveStates
<1> HIDE DEF nxt
<1>6. /\ Calm(ro, nxt) /\ nxt.pausePending = ro.pausePending
      /\ \A t \in Targets : nxt.tgt[t].updated = ro.tgt[t].updated
  BY <1>3, <1>4, CalmTrans
<1>7. /\ nxt \in Rollout /\ Active(nxt) /\ Shape(nxt) /\ Traced(nxt) /\ nxt.open /\ nxt.nb > 0
      /\ nxt.state = "Running"
  BY <1>4 DEF Begun, Active, ActiveStates
<1>8. CASE rollouts' = [rollouts EXCEPT ![r] = nxt] /\ degraded' = dg
  <2>1. Visits(r, ro, dg, nxt)
    BY <1>4, <1>6, <1>7, <1>8 DEF Visits, AskedToPause
  <2>. QED BY <1>7, <2>1 DEF cur
<1>9. CASE js = {} /\ BatchReady(r, nxt, dg)
  <2>1. InBatch(nxt) \subseteq TargetsIn(nxt, {"ready", "skipped"}) /\ Waiting(cur) = {}
    BY <1>2, <1>5, <1>9
  <2>2. CASE PassBatch(r, nxt, dg)
    <3>1. Visits(r, nxt, dg, Passed(nxt))
      BY <1>7, <2>1, <2>2, PassBatchVisits
    <3>2. Visits(r, ro, dg, Passed(nxt))
      BY <1>6, <3>1, CalmTrans DEF Visits
    <3>. QED BY <2>1, <3>2 DEF cur
  <2>3. CASE Settle(r, Soaking(nxt), dg)
    <3>1. Fine(Soaking(nxt)) /\ Active(Soaking(nxt))
      BY <1>7, <2>1, SoakingFine
    <3>2. /\ Calm(nxt, Soaking(nxt)) /\ Soaking(nxt).pausePending = nxt.pausePending
          /\ Soaking(nxt).tgt = nxt.tgt /\ Soaking(nxt).state = "Soaking"
      BY <1>7, SoakingCalm
    <3>3. Visits(r, ro, dg, Soaking(nxt))
      BY <1>6, <2>3, <3>1, <3>2, CalmTrans DEF Visits, Settle, AskedToPause
    <3>. QED BY <2>1, <3>3 DEF cur
  <2>. QED BY <1>9, <2>2, <2>3 DEF BatchReady
<1>. QED BY <1>1, <1>8, <1>9

\* A retry reopens the halted batch; its targets were in a batch before.
LEMMA RetriedBegun ==
  ASSUME NEW ro \in Rollout, Fine(ro), ro.state = "Halted", NEW seen, NEW dg
  PROVE  LET new == Retried(ro, seen, dg)
         IN Begun(new) /\ Calm(ro, new) /\ new.pausePending = ro.pausePending
<1> DEFINE new == Retried(ro, seen, dg)
<1>k. Kin(ro, new)
  BY RetriedType
<1>1. /\ new.want = ro.want /\ new.strategy = ro.strategy /\ new.nb = ro.nb
      /\ new.pausePending = ro.pausePending /\ new.state = "Running" /\ new.open
  BY DEF Retried, Rollout
<1>2. ASSUME NEW t \in Targets
      PROVE  /\ new.tgt[t].batch = ro.tgt[t].batch /\ new.tgt[t].node = ro.tgt[t].node
             /\ new.tgt[t].wave = ro.tgt[t].wave /\ new.tgt[t].degBefore = ro.tgt[t].degBefore
             /\ new.tgt[t].hold = ro.tgt[t].hold
             /\ IF t \in Failed(ro)
                THEN new.tgt[t].phase \in {"pending", "updating"} /\ ~new.tgt[t].updated
                ELSE new.tgt[t] = ro.tgt[t]
  <2> DEFINE p == IF t \in seen THEN "updating" ELSE "pending"
             d == t \in seen
             e == t \in dg
  <2>1. new.tgt[t] = IF t \in Failed(ro)
                     THEN [ro.tgt[t] EXCEPT !.phase = p, !.done = d, !.updated = FALSE, !.free = e]
                     ELSE ro.tgt[t]
    BY DEF Retried, Rollout, Failed
  <2>2. ro.tgt[t] \in RolloutTarget
    BY TgtType
  <2>3. p \in {"pending", "updating"}
    OBVIOUS
  <2> HIDE DEF new, p, d, e
  <2>. QED BY <2>1, <2>2, <2>3 DEF RolloutTarget
<1> HIDE DEF new
<1>3. Active(ro) /\ Active(new) /\ Shape(ro) /\ Traced(ro) /\ ro.nb > 0
  BY <1>1 DEF Active, ActiveStates, Fine
<1>4. \A t \in Failed(ro) : t \in InBatch(ro) /\ t \in Targets /\ ro.tgt[t].phase = "failed" /\ ro.tgt[t].batch = ro.nb
  BY DEF Failed, InBatch
<1>5. \A t \in Targets : new.tgt[t].phase = "none" <=> ro.tgt[t].phase = "none"
  BY <1>2, <1>4
<1>6. InBatch(new) = InBatch(ro)
  BY <1>1, <1>2, <1>5 DEF InBatch
<1>7. \A t \in InBatch(ro) : t \in Failed(ro) \/ ro.tgt[t].phase = "skipped"
  BY <1>3 DEF Shape, Failed, TargetsIn
<1>8. Shape(new)
  <2>1. \A t \in Targets : new.tgt[t].batch <= new.nb /\ ~new.tgt[t].hold
    BY <1>1, <1>2, <1>3 DEF Shape
  <2>2. \A t \in Targets : new.tgt[t].phase \in {"updating", "ready"} => new.tgt[t].batch = new.nb
    BY <1>1, <1>2, <1>3, <1>4 DEF Shape
  <2>3. InBatch(new) \subseteq TargetsIn(new, {"pending", "updating", "ready", "skipped"})
    BY <1>2, <1>6, <1>7 DEF TargetsIn, InBatch
  <2>. QED BY <1>1, <2>1, <2>2, <2>3 DEF Shape
<1>9. Traced(new)
  BY <1>2, <1>3 DEF Traced
<1>10. Unbatched(new) \subseteq Unbatched(ro)
  <2>1. ro.nb \in Nat /\ ro.nb # 0
    BY <1>3 DEF Rollout
  <2>. QED BY <1>2, <1>4, <2>1 DEF Unbatched, TargetsIn
<1>11. Calm(ro, new)
  BY <1>k, <1>1, <1>2, <1>5, <1>10 DEF Calm
<1>12. Begun(new)
  BY <1>k, <1>1, <1>3, <1>8, <1>9 DEF Begun, Kin
<1>. QED BY <1>1, <1>11, <1>12 DEF new

\* What orders a rollout: no target in a batch is of a later wave than one
\* that waits, targets that began degraded aside; without waves all are of one.
Ordered(ro) ==
  /\ \A t \in TargetsOf(ro), u \in Unbatched(ro) :
       ro.tgt[t].batch > 0 /\ ~ro.tgt[t].degBefore /\ ~ro.tgt[u].degBefore
         => ro.tgt[t].wave <= ro.tgt[u].wave
  /\ ~St(ro).waves => \A t \in Targets : ro.tgt[t].wave = 0

LEMMA CalmOrdered ==
  ASSUME NEW ro, NEW new, Calm(ro, new), Ordered(ro)
  PROVE  Ordered(new)
<1>1. TargetsOf(new) = TargetsOf(ro) /\ TargetsOf(ro) \subseteq Targets
  BY CalmBatch DEF TargetsOf
<1>2. Unbatched(new) \subseteq Unbatched(ro) /\ Unbatched(new) \subseteq Targets
  BY DEF Calm, Unbatched, TargetsIn
<1>3. St(new) = St(ro)
  BY DEF Calm, St
<1>4. ASSUME NEW t \in TargetsOf(new), NEW u \in Unbatched(new),
             new.tgt[t].batch > 0, ~new.tgt[t].degBefore, ~new.tgt[u].degBefore
      PROVE  new.tgt[t].wave <= new.tgt[u].wave
  <2>1. /\ new.tgt[t].wave = ro.tgt[t].wave /\ new.tgt[t].batch = ro.tgt[t].batch
        /\ new.tgt[t].degBefore = ro.tgt[t].degBefore
        /\ new.tgt[u].wave = ro.tgt[u].wave /\ new.tgt[u].degBefore = ro.tgt[u].degBefore
    BY <1>1, <1>2 DEF Calm
  <2>2. t \in TargetsOf(ro) /\ u \in Unbatched(ro)
    BY <1>1, <1>2
  <2>. QED BY <1>4, <2>1, <2>2 DEF Ordered
<1>5. ~St(new).waves => \A t \in Targets : new.tgt[t].wave = 0
  BY <1>3 DEF Ordered, Calm
<1>. QED BY <1>4, <1>5 DEF Ordered

\* What is lost depends on the rollout's targets, group and digests alone.
LEMMA LostSame ==
  ASSUME NEW ro, NEW new, Same(ro, new), new.group = ro.group, new.want = ro.want
  PROVE  Lost(new) = Lost(ro)
  BY DEF Same, Lost, TargetsIn

\* The walk stops at the first target of another wave.
LEMMA CandidateFirst ==
  ASSUME NEW ro \in Rollout, St(ro).waves, NEW t \in Candidates(ro), NEW u \in Unbatched(ro),
         ~ro.tgt[t].degBefore, ~ro.tgt[u].degBefore
  PROVE  ro.tgt[t].wave <= ro.tgt[u].wave
<1>1. t \in Targets /\ u \in Targets /\ t \in Unbatched(ro)
  BY DEF Candidates, Unbatched, TargetsIn
<1>2. /\ ro.tgt[t].wave \in Nat /\ ro.tgt[u].wave \in Nat
      /\ ro.tgt[t].degBefore = FALSE /\ ro.tgt[u].degBefore = FALSE
  BY <1>1, TgtType DEF RolloutTarget
<1>3. ASSUME ro.tgt[u].wave < ro.tgt[t].wave PROVE FALSE
  <2>1. Before(ro, u, t)
    BY <1>2, <1>3 DEF Before
  <2>2. ro.tgt[u].wave = ro.tgt[t].wave
    BY <1>1, <2>1 DEF Candidates
  <2>. QED BY <1>2, <1>3, <2>2
<1>. QED BY <1>2, <1>3

\* A batch opens with targets that wait and are not lost, so programs run.
LEMMA WithBatchBegun ==
  ASSUME NEW ro \in Rollout, CanStart(ro), ~ro.open, Shape(ro), Traced(ro),
         Unbatched(ro) \cap Lost(ro) = {}, NEW P \in SUBSET CandidateNodes(ro), NEW free
  PROVE  LET new == WithBatch(ro, P, free)
         IN /\ Begun(new) /\ Kin(ro, new) /\ new.want = ro.want
            /\ new.pausePending = ro.pausePending
            /\ \A t \in Targets : new.tgt[t].updated = ro.tgt[t].updated
            /\ new.strategy = ro.strategy /\ (Ordered(ro) => Ordered(new))
            /\ P # {} => Waiting(WithoutLost(new, Lost(new), {"pending", "updating"})) # {}
<1> DEFINE new == WithBatch(ro, P, free)
           cur == WithoutLost(new, Lost(new), {"pending", "updating"})
<1>1. Kin(ro, new) /\ Same(ro, new) /\ Shape(new) /\ new.state = "Running" /\ new.open
  BY WithBatchSound
<1>2. /\ new.nb = ro.nb + 1 /\ new.want = ro.want /\ new.strategy = ro.strategy
      /\ new.pausePending = ro.pausePending /\ ro.nb \in Nat /\ new.group = ro.group
  BY DEF WithBatch, Rollout
<1>3. ASSUME NEW t \in Targets
      PROVE  /\ new.tgt[t].phase = ro.tgt[t].phase /\ new.tgt[t].wave = ro.tgt[t].wave
             /\ new.tgt[t].degBefore = ro.tgt[t].degBefore /\ new.tgt[t].updated = ro.tgt[t].updated
             /\ ro.tgt[t].wave \in Nat /\ ro.tgt[t].batch \in Nat
             /\ IF t \in Candidates(ro) /\ ro.tgt[t].node \in P
                THEN new.tgt[t].batch = ro.nb + 1
                ELSE new.tgt[t].batch = ro.tgt[t].batch
  <2> DEFINE b == ro.tgt[t].node \in free
             k == ro.nb + 1
             x == t \in Candidates(ro) /\ ro.tgt[t].node \in P
  <2>1. new.tgt[t] = IF x THEN [ro.tgt[t] EXCEPT !.batch = k, !.free = b] ELSE ro.tgt[t]
    BY DEF WithBatch, Rollout
  <2>2. ro.tgt[t] \in RolloutTarget
    BY TgtType
  <2> HIDE DEF new, b, k, x
  <2>3. /\ new.tgt[t].phase = ro.tgt[t].phase /\ new.tgt[t].wave = ro.tgt[t].wave
        /\ new.tgt[t].degBefore = ro.tgt[t].degBefore /\ new.tgt[t].updated = ro.tgt[t].updated
        /\ ro.tgt[t].wave \in Nat /\ ro.tgt[t].batch \in Nat
        /\ new.tgt[t].batch = IF x THEN k ELSE ro.tgt[t].batch
    BY <2>1, <2>2 DEF RolloutTarget
  <2>. QED BY <2>3 DEF k, x
<1>v. cur = WithoutLost(new, Lost(new), {"pending", "updating"})
  OBVIOUS
<1> HIDE DEF new, cur
<1>4. Traced(new)
  BY <1>3 DEF Traced
<1>5. Begun(new)
  BY <1>1, <1>2, <1>4 DEF Begun, Kin
<1>6. ASSUME Ordered(ro) PROVE Ordered(new)
  <2>1. Unbatched(new) \subseteq Unbatched(ro) /\ \A u \in Unbatched(new) : u \in Targets
    BY <1>2, <1>3 DEF Unbatched, TargetsIn
  <2>2. TargetsOf(new) = TargetsOf(ro) /\ TargetsOf(ro) \subseteq Targets
    BY <1>1, SameOf DEF TargetsOf
  <2>3. ASSUME NEW t \in TargetsOf(new), NEW u \in Unbatched(new),
               new.tgt[t].batch > 0, ~new.tgt[t].degBefore, ~new.tgt[u].degBefore
        PROVE  new.tgt[t].wave <= new.tgt[u].wave
    <3>0. t \in Targets /\ u \in Targets /\ t \in TargetsOf(ro) /\ u \in Unbatched(ro)
      BY <2>1, <2>2
    <3>1. /\ ~ro.tgt[t].degBefore /\ ~ro.tgt[u].degBefore
          /\ new.tgt[t].wave = ro.tgt[t].wave /\ new.tgt[u].wave = ro.tgt[u].wave
          /\ ro.tgt[t].wave \in Nat /\ ro.tgt[u].wave \in Nat
      BY <1>3, <2>3, <3>0
    <3>2. CASE t \in Candidates(ro) /\ St(ro).waves
      BY <3>0, <3>1, <3>2, CandidateFirst
    <3>3. CASE ~St(ro).waves
      BY <1>6, <3>0, <3>1, <3>3 DEF Ordered
    <3>4. CASE t \notin Candidates(ro)
      <4>1. ro.tgt[t].batch > 0
        BY <1>3, <2>3, <3>0, <3>4
      <4>. QED BY <1>6, <3>0, <3>1, <4>1 DEF Ordered
    <3>. QED BY <3>2, <3>3, <3>4
  <2>4. ~St(new).waves => \A t \in Targets : new.tgt[t].wave = 0
    BY <1>2, <1>3, <1>6 DEF Ordered, St
  <2>. QED BY <2>3, <2>4 DEF Ordered
<1>7. ASSUME P # {} PROVE Waiting(cur) # {}
  <2>1. PICK t \in Candidates(ro) : ro.tgt[t].node \in P
    BY <1>7 DEF CandidateNodes
  <2>2. t \in Targets /\ ro.tgt[t].phase = "pending" /\ t \notin Lost(ro)
    BY DEF Candidates, Unbatched, TargetsIn
  <2>3. t \notin Lost(new)
    BY <1>1, <1>2, <2>2, LostSame
  <2>4. t \in InBatch(new) /\ new.tgt[t].phase = "pending"
    BY <1>2, <1>3, <2>1, <2>2 DEF InBatch
  <2>5. /\ Fixed(new, cur)
        /\ cur.tgt[t].phase = "pending"
    <3>1. new \in Rollout
      BY <1>1 DEF Kin
    <3>2. /\ Fixed(new, cur)
          /\ \A u \in Targets : cur.tgt[u].phase =
               IF u \in Lost(new) \cap InBatch(new) /\ new.tgt[u].phase \in {"pending", "updating"}
               THEN "skipped" ELSE new.tgt[u].phase
      BY <1>v, <3>1, WithoutLostFixed
    <3>. QED BY <2>2, <2>3, <2>4, <3>2
  <2>6. t \in InBatch(cur)
    BY <2>4, <2>5, InBatchFixed
  <2>. QED BY <2>5, <2>6 DEF Waiting
<1>. QED BY <1>1, <1>2, <1>3, <1>5, <1>6, <1>7 DEF new, cur

-----------------------------------------------------------------------------
\* A step of one rollout.

\* Along an edge of the lifecycle, or nowhere.
Along(a, b) == a = b \/ <<a, b>> \in TheLifecycle!Edges

LEMMA EdgesHave ==
  /\ Along("WaitingForSync", "Running")
  /\ \A a \in {"Running", "WaitingForBudget", "WaitingForEnvironment"} :
       \A b \in {"Running", "WaitingForBudget", "WaitingForEnvironment", "Paused", "Complete"} : Along(a, b)
  /\ Along("Running", "Soaking") /\ Along("Running", "Halted")
  /\ \A b \in {"Running", "Paused", "Halted"} : Along("Soaking", b)
  /\ Along("Paused", "Running")
  /\ \A b \in {"Running", "Soaking", "Paused"} : Along("Halted", b)
  /\ \A a \in ActiveStates : Along(a, "Aborted")
  BY DEF Along, TheLifecycle!Edges, TheLifecycle!ActiveStates, ActiveStates

\* An edge leaves an active state, for one that some rollout has.
LEMMA EdgesFrom ==
  ASSUME NEW a, NEW b, Along(a, b), a # b
  PROVE  a \in ActiveStates /\ b # "None"
  BY DEF Along, TheLifecycle!Edges, TheLifecycle!ActiveStates, ActiveStates

\* A pause that waits or holds.
Pauses(ro, new) ==
  AskedToPause(ro) /\ Active(new) => new.nb = ro.nb /\ AskedToPause(new)

\* What inspect has seen is not forgotten.
Keeps(ro, new) == \A t \in Targets : ro.tgt[t].updated => new.tgt[t].updated

\* ro may become new in one step, but for what it means to its pause.
Moves(ro, new) ==
  /\ Kin(ro, new) /\ new.want = ro.want
  /\ Fine(new) /\ Along(ro.state, new.state)
  /\ "strategy" \notin Verbs /\ Ordered(ro) => Ordered(new)

LEMMA MovesSelf ==
  ASSUME NEW ro \in Rollout, Fine(ro)
  PROVE  Moves(ro, ro) /\ Pauses(ro, ro) /\ Keeps(ro, ro)
  BY DEF Moves, Kin, Along, Pauses, Keeps

\* A calm change that keeps the pause.
LEMMA CalmMoves ==
  ASSUME NEW ro, NEW new, Calm(ro, new), Fine(new), Along(ro.state, new.state)
  PROVE  Moves(ro, new)
  BY CalmOrdered DEF Moves, Calm

LEMMA CalmPauses ==
  ASSUME NEW ro, NEW new, Calm(ro, new), AskedToPause(ro) => AskedToPause(new) \/ ~Active(new)
  PROVE  Pauses(ro, new)
  BY DEF Pauses, Calm

\* What an ending keeps.
LEMMA EndedMoves ==
  ASSUME NEW ro \in Rollout, Active(ro), NEW s \in EndedStates
  PROVE  LET new == Ended(ro, s)
         IN /\ Kin(ro, new) /\ new.want = ro.want /\ Fine(new) /\ new.state = s
            /\ Ordered(ro) => Ordered(new)
            /\ Pauses(ro, new) /\ Keeps(ro, new)
<1> DEFINE new == Ended(ro, s)
<1>1. /\ Calm(ro, new) /\ \A t \in Targets : new.tgt[t].updated = ro.tgt[t].updated
      /\ new.state = s
  BY EndedCalm, EndedType DEF States
<1> HIDE DEF new
<1>2. ~Active(new) /\ new.state # "None"
  BY <1>1 DEF Active, ActiveStates, EndedStates
<1>3. Kin(ro, new) /\ new.want = ro.want
  BY <1>1 DEF Calm
<1>4. Fine(new) /\ Pauses(ro, new) /\ Keeps(ro, new)
  BY <1>1, <1>2 DEF Fine, Pauses, Keeps
<1>. QED BY <1>1, <1>3, <1>4, CalmOrdered DEF new

\* Flags and a state, with the targets, the batches and the order left alone.
LEMMA FlagsMove ==
  ASSUME NEW ro \in Rollout, Fine(ro), NEW new, Kin(ro, new), new.want = ro.want,
         new.tgt = ro.tgt, new.nb = ro.nb, new.open = ro.open,
         new.strategy = ro.strategy \/ "strategy" \in Verbs,
         \/ /\ new.state = ro.state
            /\ new.pausePending = ro.pausePending \/ ~new.pausePending \/ (Active(ro) /\ ro.open)
         \/ /\ Active(ro) /\ ~ro.open /\ new.state \in ActiveStates \ {"Soaking", "Halted"}
            /\ Along(ro.state, new.state) /\ ~new.pausePending
  PROVE  Moves(ro, new) /\ Keeps(ro, new)
<1>1. InBatch(new) = InBatch(ro) /\ Unbatched(new) = Unbatched(ro) /\ TargetsOf(new) = TargetsOf(ro)
  BY DEF InBatch, Unbatched, TargetsOf, TargetsIn
<1>2. Along(ro.state, new.state) /\ Active(new) = Active(ro)
  BY DEF Along, Active
<1>3. "strategy" \notin Verbs /\ Ordered(ro) => Ordered(new)
  BY <1>1 DEF Ordered, St
<1>4. Shape(ro) => Shape(new)
  BY <1>1, <1>2 DEF Shape, TargetsIn, Active, ActiveStates
<1>5. Traced(ro) => Traced(new)
  BY DEF Traced
<1>6. Fine(new)
  BY <1>1, <1>2, <1>4, <1>5 DEF Fine, Active, ActiveStates
<1>. QED BY <1>2, <1>3, <1>6 DEF Moves, Keeps

-----------------------------------------------------------------------------
\* What a plan does.

\* The jobs js are of rollout r, that is ro: one for each of some targets of
\* its group in the file, told to deploy what the group wants, and ready
\* programs only where inspect has seen the digest.
JobsOf(r, ro, js) ==
  /\ \A j \in js :
       /\ j.rollout = r /\ j.target \in DOMAIN file /\ j.target \in Targets
       /\ file[j.target].group = ro.group
       /\ ro.want[file[j.target].image] # NoDigest
       /\ j.digest = Want(ro.group, file[j.target].image)
       /\ j.hook = "ready" => ro.tgt[j.target].updated
  /\ \A j, k \in js : j.target = k.target => j = k

\* Quarantine is lifted as QuarantineLifted says.
Lifts ==
  \A t \in degraded \ degraded' :
    \/ t \in gone
    \/ \E r \in RolloutIds :
         \/ rollouts[r].retryPending /\ t \in Failed(rollouts[r])
         \/ rollouts'[r].tgt[t].phase = "passed" /\ rollouts'[r].tgt[t].updated

\* The plan of rollout r makes a move of it and adds jobs of its own.
Planned(r) ==
  \E new, js :
    /\ rollouts' = [rollouts EXCEPT ![r] = new]
    /\ Moves(rollouts[r], new) /\ Pauses(rollouts[r], new)
    /\ jobs' = jobs \cup js /\ JobsOf(r, new, js)
    /\ js # {} => new.state = "Running"

LEMMA PlanBatchJobs ==
  ASSUME NEW r, NEW ro \in Rollout, NEW dg, PlanBatch(r, ro, dg)
  PROVE  \E js : /\ jobs' = jobs \cup js /\ JobsOf(r, ro, js)
                 /\ js # {} => Waiting(WithoutLost(ro, Lost(ro), {"pending", "updating"})) # {}
<1> DEFINE cur == WithoutLost(ro, Lost(ro), {"pending", "updating"})
           js == JobsFor(r, cur)
<1>1. jobs' = jobs \cup js
  <2>1. CASE js = {}
    <3>1. BatchReady(r, Advanced(cur), dg)
      BY <2>1 DEF PlanBatch
    <3>2. UNCHANGED jobs
      BY <3>1 DEF BatchReady, Settle, PassBatch
    <3>. QED BY <2>1, <3>2
  <2>2. CASE js # {}
    BY <2>2 DEF PlanBatch
  <2>. QED BY <2>1, <2>2
<1>2. ASSUME NEW t \in Waiting(cur)
      PROVE  /\ t \in Targets /\ t \in DOMAIN file /\ file[t].group = ro.group
             /\ ro.want[file[t].image] # NoDigest
             /\ Hook(cur, t) = "ready" => ro.tgt[t].updated
  <2>1. t \in Targets /\ t \notin Lost(ro) /\ t \in DOMAIN file
    BY <1>2, WaitingPresent
  <2>2. cur.tgt[t].phase # "none" /\ Fixed(ro, cur)
    BY WithoutLostFixed DEF Waiting, InBatch
  <2>3. t \notin TargetsIn(ro, {"none"})
    BY <2>1, <2>2 DEF Fixed, TargetsIn
  <2>4. file[t].group = ro.group /\ ro.want[file[t].image] # NoDigest
    BY <2>1, <2>3 DEF Lost
  <2>5. cur.tgt[t].updated = ro.tgt[t].updated
    BY <2>1, WithoutLostCalm
  <2> HIDE DEF cur
  <2>. QED BY <2>1, <2>4, <2>5 DEF Hook
<1> HIDE DEF cur
<1>3. js # {} => Waiting(cur) # {}
  BY DEF JobsFor
<1>4. JobsOf(r, ro, js)
  <2>1. ASSUME NEW j \in js
        PROVE  \E t \in Waiting(cur) :
                 j = [rollout |-> r, target |-> t, hook |-> Hook(cur, t),
                      digest |-> Want(file[t].group, file[t].image)]
    BY DEF JobsFor
  <2>2. ASSUME NEW j \in js
        PROVE  /\ j.rollout = r /\ j.target \in DOMAIN file /\ j.target \in Targets
               /\ file[j.target].group = ro.group
               /\ ro.want[file[j.target].image] # NoDigest
               /\ j.digest = Want(ro.group, file[j.target].image)
               /\ j.hook = "ready" => ro.tgt[j.target].updated
    <3>1. PICK t \in Waiting(cur) :
            j = [rollout |-> r, target |-> t, hook |-> Hook(cur, t),
                 digest |-> Want(file[t].group, file[t].image)]
      BY <2>1
    <3>. QED BY <1>2, <3>1
  <2>3. ASSUME NEW j \in js, NEW k \in js, j.target = k.target PROVE j = k
    BY <2>1, <2>3
  <2> HIDE DEF js
  <2>. QED BY <2>2, <2>3 DEF JobsOf
<1>. QED BY <1>1, <1>3, <1>4 DEF cur

\* The jobs stay those of a rollout that goes on.
LEMMA JobsOfKept ==
  ASSUME NEW r, NEW ro, NEW new, NEW js, JobsOf(r, ro, js),
         Kin(ro, new), new.want = ro.want, Keeps(ro, new)
  PROVE  JobsOf(r, new, js)
  BY DEF JobsOf, Kin, Keeps

\* The visit of a batch that is open, or that the plan has opened: ro is what
\* the plan made of the rollout before, dg of the quarantine.
LEMMA VisitPlanned ==
  ASSUME TypeOK, NEW r \in RolloutIds, NEW ro, NEW dg, Begun(ro), PlanBatch(r, ro, dg),
         Kin(rollouts[r], ro), ro.want = rollouts[r].want,
         "strategy" \notin Verbs /\ Ordered(rollouts[r]) => Ordered(ro),
         AskedToPause(rollouts[r]) => ro.nb = rollouts[r].nb /\ ro.pausePending,
         \/ rollouts[r].state \in {"Running", "Halted"}
         \/ /\ rollouts[r].state \in {"WaitingForBudget", "WaitingForEnvironment"}
            /\ Waiting(WithoutLost(ro, Lost(ro), {"pending", "updating"})) # {},
         \A t \in degraded \ dg : rollouts[r].retryPending /\ t \in Failed(rollouts[r])
  PROVE  Planned(r) /\ Lifts
<1> DEFINE old == rollouts[r]
<1>0. ro \in Rollout
  BY DEF Begun
<1>1. PICK fin : /\ Visits(r, ro, dg, fin)
                 /\ Waiting(WithoutLost(ro, Lost(ro), {"pending", "updating"})) # {} => fin.state = "Running"
  BY PlanBatchVisits
<1>2. PICK js : /\ jobs' = jobs \cup js /\ JobsOf(r, ro, js)
                /\ js # {} => Waiting(WithoutLost(ro, Lost(ro), {"pending", "updating"})) # {}
  BY <1>0, PlanBatchJobs
<1>3. /\ rollouts' = [rollouts EXCEPT ![r] = fin]
      /\ Calm(ro, fin) /\ Fine(fin) /\ Active(fin) /\ fin.state \in {"Running", "Soaking", "Paused"}
      /\ ro.pausePending => AskedToPause(fin)
      /\ Keeps(ro, fin)
      /\ \A t \in dg \ degraded' : fin.tgt[t].phase = "passed" /\ fin.tgt[t].updated
  BY <1>1 DEF Visits, Keeps
<1>4. Kin(old, fin) /\ fin.want = old.want /\ fin.nb = ro.nb
  BY <1>3, KinTrans DEF Calm
<1>5. Along(old.state, fin.state)
  BY <1>1, <1>3, EdgesHave DEF Along
<1>6. "strategy" \notin Verbs /\ Ordered(old) => Ordered(fin)
  BY <1>3, CalmOrdered
<1>7. Moves(old, fin)
  BY <1>3, <1>4, <1>5, <1>6 DEF Moves
<1>8. Pauses(old, fin)
  BY <1>3, <1>4 DEF Pauses
<1>9. JobsOf(r, fin, js) /\ (js # {} => fin.state = "Running")
  BY <1>1, <1>2, <1>3, JobsOfKept DEF Calm
<1>10. Planned(r)
  BY <1>2, <1>3, <1>7, <1>8, <1>9 DEF Planned
<1>11. rollouts'[r] = fin
  BY <1>3 DEF TypeOK
<1>12. Lifts
  BY <1>3, <1>11 DEF Lifts
<1>. QED BY <1>10, <1>12

\* A plan that runs no program and keeps the quarantine.
LEMMA SettlePlanned ==
  ASSUME NEW r \in RolloutIds, NEW new, rollouts' = [rollouts EXCEPT ![r] = new], jobs' = jobs,
         degraded \subseteq degraded', Moves(rollouts[r], new), Pauses(rollouts[r], new)
  PROVE  Planned(r) /\ Lifts
<1>1. jobs' = jobs \cup {} /\ JobsOf(r, new, {})
  BY DEF JobsOf
<1>2. Planned(r)
  BY <1>1 DEF Planned
<1>. QED BY <1>2 DEF Lifts

LEMMA PlanNothingPlans ==
  ASSUME TypeOK, NEW r \in RolloutIds, Fine(rollouts[r]), PlanNothing(r)
  PROVE  Planned(r) /\ Lifts
<1>1. /\ rollouts[r] \in Rollout /\ rollouts' = [rollouts EXCEPT ![r] = rollouts[r]]
      /\ jobs' = jobs /\ degraded' = degraded
  BY DEF TypeOK, PlanNothing, Settle
<1>. QED BY <1>1, MovesSelf, SettlePlanned

LEMMA PlanRetryPlans ==
  ASSUME TypeOK, NEW r \in RolloutIds, Fine(rollouts[r]), PlanRetry(r)
  PROVE  Planned(r) /\ Lifts
<1> DEFINE seen == {t \in Targets : live[t] # NoDigest /\ \E i \in Images : rollouts[r].want[i] = live[t]}
           ro == Retried(rollouts[r], seen, degraded)
           dg == degraded \ Failed(rollouts[r])
<1>1. /\ rollouts[r] \in Rollout /\ rollouts[r].state = "Halted" /\ rollouts[r].retryPending
      /\ PlanBatch(r, ro, dg)
  BY DEF TypeOK, PlanRetry
<1> HIDE DEF seen
<1>2. Begun(ro) /\ Calm(rollouts[r], ro) /\ ro.pausePending = rollouts[r].pausePending
  BY <1>1, RetriedBegun
<1> HIDE DEF ro
<1>3. Kin(rollouts[r], ro) /\ ro.want = rollouts[r].want /\ ro.nb = rollouts[r].nb
  BY <1>2 DEF Calm
<1>4. Ordered(rollouts[r]) => Ordered(ro)
  BY <1>2, CalmOrdered
<1>5. AskedToPause(rollouts[r]) => ro.pausePending
  BY <1>1, <1>2 DEF AskedToPause
<1>. QED BY <1>1, <1>2, <1>3, <1>4, <1>5, VisitPlanned

LEMMA PlanOpenPlans ==
  ASSUME TypeOK, NEW r \in RolloutIds, Fine(rollouts[r]), PlanOpen(r)
  PROVE  Planned(r) /\ Lifts
<1>1. /\ rollouts[r] \in Rollout /\ CanStart(rollouts[r]) /\ rollouts[r].open
      /\ PlanBatch(r, rollouts[r], degraded)
  BY DEF TypeOK, PlanOpen
<1>2. Begun(rollouts[r])
  BY <1>1 DEF Begun, Fine, CanStart, Active, ActiveStates
<1>3. AskedToPause(rollouts[r]) => rollouts[r].pausePending
  BY <1>2 DEF Begun, AskedToPause
<1>. QED BY <1>1, <1>2, <1>3, VisitPlanned DEF Begun, Kin

LEMMA PlanStartPlans ==
  ASSUME TypeOK, NEW r \in RolloutIds, Fine(rollouts[r]), PlanStart(r)
  PROVE  Planned(r) /\ Lifts
<1> DEFINE old == rollouts[r]
           ro == Reviewed(old, Lost(old), Unreachable, Arrived(old))
           free == FreeNodes(ro)
           size == BatchFor(St(ro), ro.nb + 1, Cardinality(NodesOf(ro)))
           end == Ended(ro, "Complete")
           env == [ro EXCEPT !.state = "WaitingForEnvironment"]
           bud == [ro EXCEPT !.state = "WaitingForBudget"]
<1>1. /\ old \in Rollout /\ CanStart(old) /\ ~old.open /\ Active(old)
      /\ Shape(old) /\ Traced(old)
  BY DEF TypeOK, PlanStart, CanStart, Active, ActiveStates, Fine
<1>2. /\ Sound(old, ro) /\ CanStart(ro) /\ ~ro.open
      /\ Calm(old, ro) /\ ro.pausePending = old.pausePending
      /\ \A t \in Targets : ro.tgt[t].updated = old.tgt[t].updated
      /\ Unbatched(ro) \cap Lost(old) = {}
      /\ ro.state = old.state
      /\ \A t \in Targets : \/ ro.tgt[t].phase = old.tgt[t].phase
                            \/ ro.tgt[t].phase \in {"skipped", "passed"}
  BY <1>1, ReviewedSound, ReviewedCalm, ReviewedFixed
<1>3. \/ Settle(r, end, degraded)
      \/ Settle(r, env, degraded)
      \/ \E P \in SUBSET CandidateNodes(ro) :
           \/ Settle(r, bud, degraded)
           \/ P # {} /\ PlanBatch(r, WithBatch(ro, P, free), degraded)
  BY DEF PlanStart
<1> HIDE DEF ro, free
<1>4. /\ ro \in Rollout /\ Shape(ro) /\ Active(ro) /\ Kin(old, ro) /\ ro.want = old.want
      /\ ro.nb = old.nb /\ ro.state \in {"Running", "WaitingForBudget", "WaitingForEnvironment"}
  BY <1>2 DEF Sound, Kin, CanStart, Active, ActiveStates, Calm
<1>5. Traced(ro)
  BY <1>1, <1>2 DEF Traced
<1>6. ~AskedToPause(old)
  BY <1>1 DEF AskedToPause, Fine, CanStart
<1>7. Fine(ro)
  BY <1>1, <1>2, <1>4, <1>5, <1>6 DEF Fine, AskedToPause
<1>8. Ordered(old) => Ordered(ro)
  BY <1>2, CalmOrdered
<1>9. ASSUME NEW new, Settle(r, new, degraded), Kin(ro, new), new.want = ro.want, Fine(new),
             "strategy" \notin Verbs /\ Ordered(ro) => Ordered(new), Along(ro.state, new.state)
      PROVE  Planned(r) /\ Lifts
  <2>1. Moves(old, new)
    BY <1>2, <1>4, <1>8, <1>9, KinTrans DEF Moves
  <2>2. Pauses(old, new)
    BY <1>6 DEF Pauses
  <2>. QED BY <1>9, <2>1, <2>2, SettlePlanned DEF Settle
<1>10. CASE Settle(r, end, degraded)
  <2>1. /\ Kin(ro, end) /\ end.want = ro.want /\ Fine(end) /\ end.state = "Complete"
        /\ Ordered(ro) => Ordered(end)
    BY <1>4, EndedMoves DEF EndedStates
  <2> HIDE DEF end
  <2>. QED BY <1>4, <1>9, <1>10, <2>1, EdgesHave
<1>11. ASSUME NEW s \in {"WaitingForEnvironment", "WaitingForBudget"},
              NEW new, new = [ro EXCEPT !.state = s], Settle(r, new, degraded)
       PROVE  Planned(r) /\ Lifts
  <2>1. /\ Kin(ro, new) /\ new.want = ro.want /\ new.tgt = ro.tgt /\ new.nb = ro.nb /\ new.open = ro.open
        /\ new.strategy = ro.strategy /\ new.state = s /\ new.pausePending = ro.pausePending
    BY <1>4, <1>11 DEF Kin, Rollout, States, ActiveStates
  <2>2. Along(ro.state, s)
    BY <1>4, EdgesHave
  <2>3. ~new.pausePending
    BY <1>2, <1>6, <2>1 DEF AskedToPause
  <2>4. Moves(ro, new)
    BY <1>2, <1>4, <1>7, <2>1, <2>2, <2>3, FlagsMove DEF ActiveStates
  <2>. QED BY <1>9, <1>11, <2>4 DEF Moves
<1>12. ASSUME NEW P \in SUBSET CandidateNodes(ro), P # {},
              PlanBatch(r, WithBatch(ro, P, free), degraded)
       PROVE  Planned(r) /\ Lifts
  <2> DEFINE wb == WithBatch(ro, P, free)
  <2>1. Unbatched(ro) \cap Lost(ro) = {}
    BY <1>2, <1>4, LostSame DEF Sound, Kin
  <2>2. /\ Begun(wb) /\ Kin(ro, wb) /\ wb.want = ro.want
        /\ Ordered(ro) => Ordered(wb)
        /\ Waiting(WithoutLost(wb, Lost(wb), {"pending", "updating"})) # {}
    BY <1>2, <1>4, <1>5, <1>12, <2>1, WithBatchBegun
  <2>3. PlanBatch(r, wb, degraded)
    BY <1>12
  <2> HIDE DEF wb
  <2>4. Kin(old, wb) /\ wb.want = old.want /\ (Ordered(old) => Ordered(wb))
    BY <1>4, <1>8, <2>2, KinTrans
  <2>5. old.state \in {"Running", "WaitingForBudget", "WaitingForEnvironment"}
    BY <1>2, <1>4
  <2>. QED BY <1>6, <2>2, <2>3, <2>4, <2>5, VisitPlanned
<1>. QED BY <1>3, <1>10, <1>11, <1>12

\* A batch under way or soaking that halts.
LEMMA HaltedMoves ==
  ASSUME NEW ro \in Rollout, Active(ro), Shape(ro), Traced(ro), ro.nb > 0, ro.open,
         ro.state \in {"Running", "Soaking"}
  PROVE  Moves(ro, Halted(ro)) /\ Pauses(ro, Halted(ro)) /\ Keeps(ro, Halted(ro))
<1> DEFINE new == Halted(ro)
<1>1. InBatch(ro) \subseteq TargetsIn(ro, {"pending", "updating", "ready", "skipped"})
  BY DEF Shape
<1>2. Shape(new)
  BY <1>1, HaltedSound DEF Sound
<1>3. /\ Calm(ro, new) /\ new.pausePending = ro.pausePending
      /\ \A t \in Targets : new.tgt[t].updated = ro.tgt[t].updated
  BY HaltedCalm
<1>4. /\ new.state = "Halted" /\ ~new.open
      /\ \A t \in Targets :
           new.tgt[t].phase = IF t \in HeldBy(ro) THEN "failed" ELSE ro.tgt[t].phase
  BY HaltedFixed
<1> HIDE DEF new
<1>5. Traced(new)
  BY <1>3, <1>4 DEF Traced
<1>6. Fine(new)
  BY <1>2, <1>3, <1>4, <1>5 DEF Fine, Calm
<1>7. Along(ro.state, new.state)
  BY <1>4, EdgesHave
<1>8. AskedToPause(ro) => AskedToPause(new)
  BY <1>3 DEF AskedToPause
<1>. QED BY <1>3, <1>6, <1>7, <1>8, CalmMoves, CalmPauses DEF Keeps, new

LEMMA PlanLatePlans ==
  ASSUME TypeOK, NEW r \in RolloutIds, Fine(rollouts[r]), PlanLate(r)
  PROVE  Planned(r) /\ Lifts
<1>1. PICK lost : LET cur == WithoutLost(rollouts[r], lost, {"pending", "updating"})
                  IN Settle(r, Halted(cur), degraded \cup HeldBy(cur))
  BY DEF PlanLate
<1> DEFINE cur == WithoutLost(rollouts[r], lost, {"pending", "updating"})
<1>2. Begun(rollouts[r])
  BY DEF PlanLate, TypeOK, Begun, Fine, CanStart, Active, ActiveStates
<1>3. Begun(cur) /\ Calm(rollouts[r], cur) /\ cur.pausePending = rollouts[r].pausePending
  BY <1>2, WithoutLostBegun
<1>4. Settle(r, Halted(cur), degraded \cup HeldBy(cur))
  BY <1>1
<1> HIDE DEF cur
<1>5. Moves(cur, Halted(cur)) /\ Pauses(cur, Halted(cur))
  BY <1>3, HaltedMoves DEF Begun, Active, ActiveStates
<1>6. cur.state = rollouts[r].state
  BY <1>2, <1>3 DEF Begun
<1>7. Moves(rollouts[r], Halted(cur))
  BY <1>3, <1>5, <1>6, KinTrans, CalmOrdered DEF Moves, Calm
<1>8. Pauses(rollouts[r], Halted(cur))
  BY <1>3, <1>5, <1>6 DEF Pauses, AskedToPause, Calm
<1>. QED BY <1>4, <1>7, <1>8, SettlePlanned DEF Settle

\* A soaking batch passes, by plan or by result.
LEMMA SoakPasses ==
  ASSUME TypeOK, NEW r \in RolloutIds, NEW ro, Moves(rollouts[r], ro), ro.state = "Soaking",
         rollouts[r].state = "Soaking", Keeps(rollouts[r], ro),
         ro.nb = rollouts[r].nb, ro.pausePending = rollouts[r].pausePending,
         rollouts' = [rollouts EXCEPT ![r] = Passed(ro)], degraded' = degraded \ PassedBy(ro)
  PROVE  /\ Moves(rollouts[r], Passed(ro)) /\ Pauses(rollouts[r], Passed(ro))
         /\ Keeps(rollouts[r], Passed(ro)) /\ Lifts
<1> DEFINE new == Passed(ro)
<1>1. /\ ro \in Rollout /\ Active(ro) /\ Shape(ro) /\ Traced(ro)
      /\ InBatch(ro) \subseteq TargetsIn(ro, {"ready", "skipped"})
  BY DEF Moves, Kin, Fine, Active, ActiveStates, Shape
<1>2. /\ Fine(new) /\ Active(new)
      /\ \A t \in PassedBy(ro) : new.tgt[t].phase = "passed" /\ new.tgt[t].updated
  BY <1>1, PassedFine
<1>3. /\ Calm(ro, new)
      /\ ro.pausePending => new.state = "Paused"
      /\ \A t \in Targets : new.tgt[t].updated = ro.tgt[t].updated
  BY <1>1, PassedCalm
<1>4. new.state \in {"Running", "Paused"}
  BY <1>1, PassedSound
<1>5. rollouts' = [rollouts EXCEPT ![r] = new]
  OBVIOUS
<1> HIDE DEF new
<1>6. Moves(rollouts[r], new)
  <2>1. Along("Soaking", new.state)
    BY <1>4, EdgesHave
  <2>. QED BY <1>2, <1>3, <2>1, KinTrans, CalmOrdered DEF Moves, Calm
<1>7. Pauses(rollouts[r], new)
  BY <1>3 DEF Pauses, AskedToPause, Calm
<1>8. Keeps(rollouts[r], new)
  BY <1>3 DEF Keeps
<1>9. Lifts
  <2>1. rollouts'[r] = new
    BY <1>5 DEF TypeOK
  <2>. QED BY <1>2, <2>1 DEF Lifts
<1>. QED BY <1>6, <1>7, <1>8, <1>9 DEF new

LEMMA PlanSoakPlans ==
  ASSUME TypeOK, NEW r \in RolloutIds, Fine(rollouts[r]), PlanSoak(r)
  PROVE  Planned(r) /\ Lifts
<1> DEFINE old == rollouts[r]
           cur == WithoutLost(old, Lost(old), Phases)
<1>1. old \in Rollout /\ old.state = "Soaking" /\ Active(old) /\ Shape(old) /\ Traced(old) /\ old.open /\ old.nb > 0
  BY DEF TypeOK, PlanSoak, Active, ActiveStates, Fine
<1>2. \/ PassBatch(r, old, degraded)
      \/ Settle(r, old, degraded)
      \/ rollouts' = [rollouts EXCEPT ![r] = cur] /\ UNCHANGED <<degraded, jobs>>
  BY DEF PlanSoak
<1>0. Moves(old, old) /\ Pauses(old, old) /\ Keeps(old, old)
  BY <1>1, MovesSelf
<1>3. CASE PassBatch(r, old, degraded)
  <2>1. /\ rollouts' = [rollouts EXCEPT ![r] = Passed(old)] /\ degraded' = degraded \ PassedBy(old)
        /\ jobs' = jobs
    BY <1>3 DEF PassBatch, Settle
  <2>2. Moves(old, Passed(old)) /\ Pauses(old, Passed(old)) /\ Lifts
    BY <1>0, <1>1, <2>1, SoakPasses
  <2>3. jobs' = jobs \cup {} /\ JobsOf(r, Passed(old), {})
    BY <2>1 DEF JobsOf
  <2>. QED BY <2>1, <2>2, <2>3 DEF Planned
<1>4. CASE Settle(r, old, degraded)
  BY <1>0, <1>4, SettlePlanned DEF Settle
<1>5. CASE rollouts' = [rollouts EXCEPT ![r] = cur] /\ UNCHANGED <<degraded, jobs>>
  <2>1. /\ Calm(old, cur) /\ cur.pausePending = old.pausePending
        /\ \A t \in Targets : cur.tgt[t].updated = old.tgt[t].updated
    BY <1>1, WithoutLostCalm
  <2>2. Shape(cur)
    BY <1>1, WithoutLostSound DEF Sound
  <2>3. /\ cur.state = old.state /\ cur.open = old.open
        /\ \A t \in Targets : cur.tgt[t].phase = old.tgt[t].phase \/ cur.tgt[t].phase = "skipped"
    <3>1. old \in Rollout
      BY <1>1
    <3>. QED BY <3>1, WithoutLostFixed
  <2> HIDE DEF cur
  <2>4. Traced(cur)
    BY <1>1, <2>1, <2>3 DEF Traced
  <2>5. \A t \in InBatch(cur) : cur.tgt[t].phase # "pending"
    BY <1>1, <2>1, <2>3, CalmBatch DEF Fine, InBatch
  <2>6. Fine(cur)
    BY <1>1, <2>1, <2>2, <2>3, <2>4, <2>5 DEF Fine, Calm
  <2>7. Moves(old, cur)
    BY <2>1, <2>3, <2>6, CalmMoves DEF Along
  <2>8. Pauses(old, cur)
    BY <2>1, <2>3, CalmPauses DEF AskedToPause
  <2>. QED BY <1>5, <2>7, <2>8, SettlePlanned
<1>. QED BY <1>2, <1>3, <1>4, <1>5

LEMMA PlanStepPlans ==
  ASSUME TypeOK, NEW r \in RolloutIds, Fine(rollouts[r]), PlanStep(r)
  PROVE  Planned(r) /\ Lifts
  BY PlanNothingPlans, PlanRetryPlans, PlanStartPlans, PlanOpenPlans, PlanLatePlans, PlanSoakPlans
  DEF PlanStep

-----------------------------------------------------------------------------
\* Results.

\* A result of rollout r makes a move of it.
Resulted(r) ==
  \E new : /\ rollouts' = [rollouts EXCEPT ![r] = new]
           /\ Moves(rollouts[r], new) /\ Pauses(rollouts[r], new) /\ Keeps(rollouts[r], new)

LEMMA SameResulted ==
  ASSUME TypeOK, NEW r \in RolloutIds, Fine(rollouts[r]), rollouts' = rollouts, degraded \subseteq degraded'
  PROVE  Resulted(r) /\ Lifts
<1>1. rollouts[r] \in Rollout /\ rollouts' = [rollouts EXCEPT ![r] = rollouts[r]]
  BY DEF TypeOK
<1>2. Resulted(r)
  BY <1>1, MovesSelf DEF Resulted
<1>. QED BY <1>2 DEF Lifts

\* One target of a running batch is waited for, with another record.
LEMMA TargetMove ==
  ASSUME NEW ro \in Rollout, ro.state = "Running", Fine(ro),
         NEW t \in Targets, ro.tgt[t].phase = "updating",
         NEW rt \in RolloutTarget, rt.phase \in {"updating", "ready", "skipped"},
         rt.node = ro.tgt[t].node, rt.batch = ro.tgt[t].batch, rt.wave = ro.tgt[t].wave,
         rt.degBefore = ro.tgt[t].degBefore,
         rt.free = ro.tgt[t].free, rt.hold = ro.tgt[t].hold,
         ro.tgt[t].updated => rt.updated, rt.phase = "ready" => rt.updated
  PROVE  LET new == [ro EXCEPT !.tgt[t] = rt]
         IN Moves(ro, new) /\ Pauses(ro, new) /\ Keeps(ro, new)
<1> DEFINE new == [ro EXCEPT !.tgt[t] = rt]
<1>0. Active(ro) /\ Shape(ro) /\ Traced(ro) /\ ro.open /\ ro.nb > 0
  BY DEF Fine, Active, ActiveStates, Shape
<1>1. Kin(ro, new)
  BY OneTarget
<1>2. /\ new.nb = ro.nb /\ new.state = "Running" /\ new.open = ro.open /\ new.want = ro.want
      /\ new.strategy = ro.strategy /\ new.pausePending = ro.pausePending
  BY DEF Rollout
<1>3. \A u \in Targets : new.tgt[u] = IF u = t THEN rt ELSE ro.tgt[u]
  BY DEF Rollout
<1>4. Shape(new)
  BY <1>0, TargetSound DEF Sound
<1> HIDE DEF new
<1>5. Calm(ro, new)
  BY <1>1, <1>2, <1>3, PhasesCalm
<1>6. Traced(new)
  BY <1>0, <1>3 DEF Traced
<1>7. \A u \in InBatch(new) : new.tgt[u].phase # "pending"
  BY <1>0, <1>3, <1>5, CalmBatch DEF Fine, InBatch
<1>8. Fine(new)
  BY <1>0, <1>2, <1>4, <1>6, <1>7 DEF Fine
<1>9. Moves(ro, new)
  BY <1>2, <1>5, <1>8, CalmMoves DEF Along
<1>10. Pauses(ro, new)
  BY <1>2, <1>5, CalmPauses DEF AskedToPause
<1>11. Keeps(ro, new)
  BY <1>3 DEF Keeps
<1>. QED BY <1>9, <1>10, <1>11 DEF new

\* What a job that concerns its rollout says of it.
LEMMA ConcernsFine ==
  ASSUME TypeOK, NEW j \in jobs, \A r \in RolloutIds : Fine(rollouts[r]), Concerns(j)
  PROVE  LET ro == rollouts[j.rollout]
         IN /\ j.rollout \in RolloutIds /\ j.target \in Targets
            /\ ro \in Rollout /\ Fine(ro) /\ ro.state = "Running"
            /\ ro.tgt[j.target].phase = "updating" /\ ro.tgt[j.target] \in RolloutTarget
            /\ Active(ro) /\ Shape(ro) /\ Traced(ro) /\ ro.open /\ ro.nb > 0
<1>1. j.rollout \in RolloutIds /\ j.target \in Targets
  BY DEF TypeOK, Job
<1>2. /\ rollouts[j.rollout] \in Rollout /\ Fine(rollouts[j.rollout]) /\ rollouts[j.rollout].state = "Running"
      /\ rollouts[j.rollout].tgt[j.target].phase = "updating"
  BY <1>1 DEF TypeOK, Concerns
<1>3. rollouts[j.rollout].tgt[j.target] \in RolloutTarget
  BY <1>1, <1>2, TgtType
<1>. QED BY <1>1, <1>2, <1>3 DEF Fine, Active, ActiveStates, Shape

LEMMA ApplyStaleMoves ==
  ASSUME TypeOK, NEW j \in jobs, \A r \in RolloutIds : Fine(rollouts[r]), ApplyStale(j)
  PROVE  Resulted(j.rollout) /\ Lifts
<1> DEFINE ro == rollouts[j.rollout]
           rt == [ro.tgt[j.target] EXCEPT !.phase = "skipped"]
<1>0. j.rollout \in RolloutIds /\ degraded' = degraded
  BY DEF TypeOK, Job, ApplyStale
<1>1. CASE Concerns(j)
  <2>1. /\ j.target \in Targets /\ ro \in Rollout /\ Fine(ro) /\ ro.state = "Running"
        /\ ro.tgt[j.target].phase = "updating" /\ ro.tgt[j.target] \in RolloutTarget
    BY <1>1, ConcernsFine
  <2>2. Continue(j, [ro EXCEPT !.tgt[j.target].phase = "skipped"])
    BY <1>1 DEF ApplyStale
  <2>3. [ro EXCEPT !.tgt[j.target].phase = "skipped"] = [ro EXCEPT !.tgt[j.target] = rt]
    BY <2>1 DEF Rollout
  <2>4. /\ rt \in RolloutTarget /\ rt.phase = "skipped"
        /\ LET old == ro.tgt[j.target]
           IN /\ rt.node = old.node /\ rt.batch = old.batch /\ rt.free = old.free /\ rt.hold = old.hold
              /\ rt.wave = old.wave /\ rt.degBefore = old.degBefore /\ rt.updated = old.updated
    BY <2>1, PhaseNames DEF RolloutTarget
  <2> HIDE DEF rt
  <2>5. LET new == [ro EXCEPT !.tgt[j.target] = rt]
        IN Moves(ro, new) /\ Pauses(ro, new) /\ Keeps(ro, new)
    BY <2>1, <2>4, TargetMove
  <2>. QED BY <1>0, <2>2, <2>3, <2>5 DEF Continue, Resulted, Lifts
<1>2. CASE ~Concerns(j)
  BY <1>0, <1>2, SameResulted DEF ApplyStale
<1>. QED BY <1>1, <1>2

LEMMA ApplyUpdateMoves ==
  ASSUME TypeOK, NEW j \in jobs, \A r \in RolloutIds : Fine(rollouts[r]), ApplyUpdate(j)
  PROVE  Resulted(j.rollout) /\ Lifts
<1> DEFINE ro == rollouts[j.rollout]
           rt == [ro.tgt[j.target] EXCEPT !.done = TRUE]
<1>1. /\ j.rollout \in RolloutIds /\ j.target \in Targets /\ ro \in Rollout /\ Fine(ro)
      /\ ro.state = "Running" /\ ro.tgt[j.target].phase = "updating" /\ ro.tgt[j.target] \in RolloutTarget
      /\ Active(ro) /\ Shape(ro) /\ Traced(ro) /\ ro.open /\ ro.nb > 0
  BY ConcernsFine DEF ApplyUpdate, Counts
<1>2. CASE Continue(j, [ro EXCEPT !.tgt[j.target].done = TRUE]) /\ UNCHANGED degraded
  <2>1. [ro EXCEPT !.tgt[j.target].done = TRUE] = [ro EXCEPT !.tgt[j.target] = rt]
    BY <1>1 DEF Rollout
  <2>2. /\ rt \in RolloutTarget /\ rt.phase = "updating"
        /\ LET old == ro.tgt[j.target]
           IN /\ rt.node = old.node /\ rt.batch = old.batch /\ rt.free = old.free /\ rt.hold = old.hold
              /\ rt.wave = old.wave /\ rt.degBefore = old.degBefore /\ rt.updated = old.updated
    BY <1>1 DEF RolloutTarget
  <2> HIDE DEF rt
  <2>3. LET new == [ro EXCEPT !.tgt[j.target] = rt]
        IN Moves(ro, new) /\ Pauses(ro, new) /\ Keeps(ro, new)
    BY <1>1, <2>2, TargetMove
  <2>. QED BY <1>2, <2>1, <2>3 DEF Continue, Resulted, Lifts
<1>3. CASE Continue(j, Halted(ro)) /\ degraded' = degraded \cup HeldBy(ro)
  <2>1. Moves(ro, Halted(ro)) /\ Pauses(ro, Halted(ro)) /\ Keeps(ro, Halted(ro))
    BY <1>1, HaltedMoves
  <2>. QED BY <1>3, <2>1 DEF Continue, Resulted, Lifts
<1>. QED BY <1>2, <1>3 DEF ApplyUpdate

LEMMA ApplyInspectMoves ==
  ASSUME TypeOK, NEW j \in jobs, \A r \in RolloutIds : Fine(rollouts[r]), ApplyInspect(j)
  PROVE  Resulted(j.rollout) /\ Lifts
<1> DEFINE ro == rollouts[j.rollout]
           old == ro.tgt[j.target]
           arrived == running[j.target] = ro.want[file[j.target].image]
           u == old.updated \/ arrived
           p == IF arrived /\ ro.force THEN "ready" ELSE old.phase
           rt == [old EXCEPT !.updated = u, !.phase = p]
<1>1. /\ j.rollout \in RolloutIds /\ j.target \in Targets /\ ro \in Rollout /\ Fine(ro)
      /\ ro.state = "Running" /\ old.phase = "updating" /\ old \in RolloutTarget
  BY ConcernsFine DEF ApplyInspect, Counts
<1>2. (Continue(j, [ro EXCEPT !.tgt[j.target] = rt]) \/ rollouts' = rollouts) /\ degraded' = degraded
  BY DEF ApplyInspect
<1>3. u \in BOOLEAN /\ p \in {"updating", "ready"} /\ p \in Phases /\ (p = "ready" => u) /\ (old.updated => u)
  BY <1>1, PhaseNames DEF RolloutTarget
<1> HIDE DEF u, p
<1>4. /\ rt \in RolloutTarget /\ rt.phase = p
      /\ rt.node = old.node /\ rt.batch = old.batch /\ rt.free = old.free /\ rt.hold = old.hold
      /\ rt.wave = old.wave /\ rt.degBefore = old.degBefore
  BY <1>1, <1>3 DEF RolloutTarget
<1>5. rt.updated <=> u
  BY <1>1, <1>3 DEF RolloutTarget
<1> HIDE DEF rt
<1>6. LET new == [ro EXCEPT !.tgt[j.target] = rt]
      IN Moves(ro, new) /\ Pauses(ro, new) /\ Keeps(ro, new)
  BY <1>1, <1>3, <1>4, <1>5, TargetMove
<1>7. CASE Continue(j, [ro EXCEPT !.tgt[j.target] = rt])
  <2>1. Resulted(j.rollout)
    BY <1>6, <1>7 DEF Continue, Resulted
  <2>2. Lifts
    BY <1>2 DEF Lifts
  <2>. QED BY <2>1, <2>2
<1>8. CASE rollouts' = rollouts
  BY <1>1, <1>2, <1>8, SameResulted
<1>. QED BY <1>2, <1>7, <1>8, SMTT(30)

LEMMA ApplyReadyMoves ==
  ASSUME TypeOK, NEW j \in jobs, \A r \in RolloutIds : Fine(rollouts[r]), ApplyReady(j),
         rollouts[j.rollout].tgt[j.target].updated
  PROVE  Resulted(j.rollout) /\ Lifts
<1> DEFINE ro == rollouts[j.rollout]
           rt == [ro.tgt[j.target] EXCEPT !.phase = "ready"]
<1>1. /\ j.rollout \in RolloutIds /\ j.target \in Targets /\ ro \in Rollout /\ Fine(ro)
      /\ ro.state = "Running" /\ ro.tgt[j.target].phase = "updating" /\ ro.tgt[j.target] \in RolloutTarget
  BY ConcernsFine DEF ApplyReady, Counts
<1>2. [ro EXCEPT !.tgt[j.target].phase = "ready"] = [ro EXCEPT !.tgt[j.target] = rt]
  BY <1>1 DEF Rollout
<1>3. (Continue(j, [ro EXCEPT !.tgt[j.target] = rt]) \/ rollouts' = rollouts) /\ degraded' = degraded
  BY <1>2 DEF ApplyReady
<1>4. /\ rt \in RolloutTarget /\ rt.phase = "ready"
      /\ LET old == ro.tgt[j.target]
         IN /\ rt.node = old.node /\ rt.batch = old.batch /\ rt.free = old.free /\ rt.hold = old.hold
            /\ rt.wave = old.wave /\ rt.degBefore = old.degBefore /\ rt.updated = old.updated
  BY <1>1, PhaseNames DEF RolloutTarget
<1> HIDE DEF rt
<1>5. LET new == [ro EXCEPT !.tgt[j.target] = rt]
      IN Moves(ro, new) /\ Pauses(ro, new) /\ Keeps(ro, new)
  BY <1>1, <1>4, TargetMove
<1>6. CASE Continue(j, [ro EXCEPT !.tgt[j.target] = rt])
  BY <1>3, <1>5, <1>6 DEF Continue, Resulted, Lifts
<1>7. CASE rollouts' = rollouts
  BY <1>1, <1>3, <1>7, SameResulted
<1>. QED BY <1>3, <1>6, <1>7

LEMMA ApplyCheckMoves ==
  ASSUME TypeOK, NEW r \in checks, \A q \in RolloutIds : Fine(rollouts[q]),
         ApplyCheckStale(r) \/ ApplyCheckPassed(r) \/ ApplyCheckFailed(r)
  PROVE  Resulted(r) /\ Lifts
<1>1. r \in RolloutIds
  BY DEF TypeOK
<1>2. CASE ApplyCheckStale(r)
  BY <1>1, <1>2, SameResulted DEF ApplyCheckStale
<1>3. ASSUME NEW ro, Kin(rollouts[r], ro), ro.state = "Soaking", ro.state = rollouts[r].state,
             ro.nb = rollouts[r].nb, ro.open = rollouts[r].open, ro.tgt = rollouts[r].tgt,
             ro.want = rollouts[r].want, ro.strategy = rollouts[r].strategy,
             ro.pausePending = rollouts[r].pausePending,
             \/ Conclude(r, ro, degraded)
             \/ Conclude(r, Passed(ro), degraded \ PassedBy(ro))
             \/ Conclude(r, Halted(ro), degraded \cup HeldBy(ro))
      PROVE  Resulted(r) /\ Lifts
  <2>1. rollouts[r] \in Rollout /\ Fine(rollouts[r])
    BY <1>1 DEF TypeOK
  <2>2. Moves(rollouts[r], ro) /\ Keeps(rollouts[r], ro)
    BY <1>3, <2>1, FlagsMove
  <2>3. Pauses(rollouts[r], ro)
    BY <1>3 DEF Pauses, AskedToPause
  <2>4. CASE Conclude(r, ro, degraded)
    BY <2>2, <2>3, <2>4 DEF Conclude, Resulted, Lifts
  <2>5. CASE Conclude(r, Passed(ro), degraded \ PassedBy(ro))
    <3>1. rollouts' = [rollouts EXCEPT ![r] = Passed(ro)] /\ degraded' = degraded \ PassedBy(ro)
      BY <2>5 DEF Conclude
    <3>. QED BY <1>1, <1>3, <2>2, <3>1, SoakPasses DEF Resulted
  <2>6. CASE Conclude(r, Halted(ro), degraded \cup HeldBy(ro))
    <3>1. ro \in Rollout /\ Active(ro) /\ Shape(ro) /\ Traced(ro) /\ ro.nb > 0 /\ ro.open
      BY <1>3, <2>2 DEF Moves, Kin, Fine, Active, ActiveStates
    <3>2. Moves(ro, Halted(ro)) /\ Pauses(ro, Halted(ro)) /\ Keeps(ro, Halted(ro))
      BY <1>3, <3>1, HaltedMoves
    <3>3. Moves(rollouts[r], Halted(ro))
      BY <1>3, <2>2, <3>2, KinTrans DEF Moves
    <3>4. Pauses(rollouts[r], Halted(ro)) /\ Keeps(rollouts[r], Halted(ro))
      BY <1>3, <2>2, <3>2 DEF Pauses, Keeps, AskedToPause
    <3>. QED BY <2>6, <3>3, <3>4 DEF Conclude, Resulted, Lifts
  <2>. QED BY <1>3, <2>4, <2>5, <2>6
<1>4. CASE ApplyCheckPassed(r) \/ ApplyCheckFailed(r)
  <2>1. rollouts[r] \in Rollout
    BY <1>1 DEF TypeOK
  <2>2. PICK ro :
          /\ Kin(rollouts[r], ro) /\ ro.state = "Soaking" /\ ro.state = rollouts[r].state
          /\ ro.nb = rollouts[r].nb /\ ro.open = rollouts[r].open /\ ro.tgt = rollouts[r].tgt
          /\ ro.want = rollouts[r].want /\ ro.strategy = rollouts[r].strategy
          /\ ro.pausePending = rollouts[r].pausePending
          /\ \/ Conclude(r, ro, degraded)
             \/ Conclude(r, Passed(ro), degraded \ PassedBy(ro))
             \/ Conclude(r, Halted(ro), degraded \cup HeldBy(ro))
    BY <1>4, <2>1, CheckConcludes
  <2>. QED BY <1>3, <2>2
<1>. QED BY <1>2, <1>4

-----------------------------------------------------------------------------
\* Openings, verbs and holds.

\* Rollout r opens, in a group without an active rollout among rs.
Opened(rs, r) ==
  \E new :
    /\ rollouts' = [rs EXCEPT ![r] = new]
    /\ rollouts[r].state = "None"
    /\ new \in Rollout /\ Fine(new) /\ Ordered(new)
    /\ new.state \in {"Running", "WaitingForSync"}
    /\ \A q \in RolloutIds : Active(rs[q]) => rs[q].group # new.group

\* What a group opens, whatever becomes of its flags.
LEMMA OpenedFine ==
  ASSUME TypeOK, NEW g \in Groups, NEW s \in DOMAIN StrategyOf, NEW f \in Files,
         NEW new, new.tgt = RolloutFor(g, s, f).tgt, new.nb = RolloutFor(g, s, f).nb,
         new.open = RolloutFor(g, s, f).open, new.strategy = RolloutFor(g, s, f).strategy,
         new.pausePending = RolloutFor(g, s, f).pausePending,
         new.state \in {"Running", "WaitingForSync"}
  PROVE  Fine(new) /\ Ordered(new)
<1>1. new.strategy = s /\ new.nb = 0 /\ ~new.open /\ ~new.pausePending
  BY NoRolloutType DEF RolloutFor, NewRollout, NoRollout, Rollout
<1> DEFINE w(t) == IF StrategyOf[s].waves THEN f[t].wave ELSE 0
           d(t) == t \in degraded
           rt(t) == [NoTarget EXCEPT !.phase = "pending", !.node = f[t].node,
                                     !.wave = w(t), !.degBefore = d(t)]
<1>t. new.tgt = [t \in Targets |-> IF t \in OutOfSync(g, f) THEN rt(t) ELSE NoTarget]
  BY NoRolloutType DEF RolloutFor, NewRollout, Rollout
<1>w. \A t : ~StrategyOf[s].waves => w(t) = 0
  OBVIOUS
<1> HIDE DEF w, d
<1>r. ASSUME NEW t
      PROVE  rt(t).batch = 0 /\ ~rt(t).hold /\ rt(t).phase = "pending" /\ ~rt(t).updated /\ rt(t).wave = w(t)
  BY NoTargetType DEF NoTarget, RolloutTarget
<1>n. NoTarget.batch = 0 /\ ~NoTarget.hold /\ NoTarget.phase = "none" /\ NoTarget.wave = 0
  BY DEF NoTarget
<1> HIDE DEF rt
<1>2. ASSUME NEW t \in Targets
      PROVE  /\ new.tgt[t].batch = 0 /\ ~new.tgt[t].hold
             /\ new.tgt[t].phase \in {"pending", "none"}
             /\ new.tgt[t].phase = "pending" => ~new.tgt[t].updated
             /\ ~StrategyOf[s].waves => new.tgt[t].wave = 0
  BY <1>t, <1>r, <1>n, <1>w
<1>3. Shape(new) /\ Traced(new)
  BY <1>1, <1>2 DEF Shape, Traced
<1>4. Fine(new)
  BY <1>1, <1>3 DEF Fine
<1>5. \A t \in TargetsOf(new) : ~(new.tgt[t].batch > 0)
  BY <1>2 DEF TargetsOf
<1>6. Ordered(new)
  BY <1>1, <1>2, <1>5 DEF Ordered, St
<1>. QED BY <1>4, <1>6

LEMMA OpenGroupMoves ==
  ASSUME TypeOK, NEW g \in opening, OpenGroup(g)
  PROVE  rollouts' = rollouts \/ \E r \in RolloutIds : Opened(rollouts, r)
<1>1. g \in Groups /\ rollouts \in [RolloutIds -> Rollout]
  BY DEF TypeOK
<1>2. ASSUME NEW r \in FreshIds, NEW m \in {"WaitingForSync", "Running"}, ActiveIn(g) = {},
             rollouts' = [rollouts EXCEPT ![r] =
               [RolloutFor(g, policy[g].strategy, file) EXCEPT !.state = m]]
      PROVE  \E q \in RolloutIds : Opened(rollouts, q)
  <2> DEFINE ro == RolloutFor(g, policy[g].strategy, file)
             new == [ro EXCEPT !.state = m]
  <2>1. policy[g].strategy \in DOMAIN StrategyOf
    BY <1>1 DEF TypeOK, Policy
  <2>2. ro \in Rollout /\ ro.group = g
    BY <1>1, <2>1, RolloutForType DEF TypeOK
  <2>3. /\ new.tgt = ro.tgt /\ new.nb = ro.nb /\ new.open = ro.open /\ new.group = ro.group
        /\ new.strategy = ro.strategy /\ new.pausePending = ro.pausePending
        /\ new.state = m /\ new \in Rollout
    <3> HIDE DEF ro
    <3>. QED BY <2>2 DEF Rollout, States, ActiveStates
  <2>v. rollouts' = [rollouts EXCEPT ![r] = new]
    BY <1>2
  <2> HIDE DEF new
  <2>4. Fine(new) /\ Ordered(new)
    BY <1>1, <2>1, <2>3, OpenedFine DEF TypeOK
  <2> HIDE DEF ro
  <2>5. r \in RolloutIds /\ rollouts[r].state = "None"
    BY DEF FreshIds
  <2>6. \A q \in RolloutIds : Active(rollouts[q]) => rollouts[q].group # new.group
    BY <1>2, <2>2, <2>3 DEF ActiveIn, ActiveIds
  <2>. QED BY <2>v, <2>3, <2>4, <2>5, <2>6 DEF Opened
<1>3. \/ rollouts' = rollouts
      \/ /\ ActiveIn(g) = {}
         /\ \E r \in FreshIds, m \in {"WaitingForSync", "Running"} :
              rollouts' = [rollouts EXCEPT ![r] =
                [RolloutFor(g, policy[g].strategy, file) EXCEPT !.state = m]]
  BY DEF OpenGroup
<1>. QED BY <1>2, <1>3

\* What a step outside the plan makes of the rollouts rs it begins with.
Shifts(rs) ==
  \/ rollouts' = rs
  \/ \E r \in RolloutIds : Opened(rs, r)
  \/ \E r \in RolloutIds : \E new :
       /\ rollouts' = [rs EXCEPT ![r] = new]
       /\ Moves(rs[r], new) /\ Keeps(rs[r], new)
       /\ Pauses(rs[r], new) \/ Promote(r)

\* What closing the rollouts for digests that moved on keeps.
LEMMA SupersededKeeps ==
  ASSUME TypeOK, NEW r \in RolloutIds, Fine(rollouts[r])
  PROVE  LET old == rollouts[r]
             new == Superseded(rollouts)[r]
         IN /\ \/ new = old
               \/ Active(old) /\ Moved(old) /\ new = Ended(old, "Superseded") /\ new.state = "Superseded"
            /\ Kin(old, new) /\ new.want = old.want /\ Fine(new)
            /\ Ordered(old) => Ordered(new)
            /\ Keeps(old, new) /\ Pauses(old, new)
<1>1. rollouts[r] \in Rollout
  BY DEF TypeOK
<1>2. CASE Active(rollouts[r]) /\ Moved(rollouts[r])
  <2>1. Superseded(rollouts)[r] = Ended(rollouts[r], "Superseded")
    BY <1>2 DEF Superseded
  <2>. QED BY <1>1, <1>2, <2>1, EndedMoves DEF EndedStates
<1>3. CASE ~(Active(rollouts[r]) /\ Moved(rollouts[r]))
  <2>1. Superseded(rollouts)[r] = rollouts[r]
    BY <1>3 DEF Superseded
  <2>. QED BY <1>1, <2>1, MovesSelf DEF Moves
<1>. QED BY <1>2, <1>3

LEMMA SyncMoves ==
  ASSUME TypeOK, \A r \in RolloutIds : Fine(rollouts[r]),
         NEW g \in Groups, NEW force \in BOOLEAN, NEW strategy \in DOMAIN StrategyOf,
         NEW f \in HeldFiles, Sync(g, force, strategy, f)
  PROVE  Shifts(Superseded(rollouts))
<1> DEFINE rs == Superseded(rollouts)
           found == {r \in RolloutIds : Active(rs[r]) /\ rs[r].group = g}
           Start(ro) == [ro EXCEPT !.human = TRUE, !.force = @ \/ force, !.strategy = strategy,
                           !.state = IF @ \in {"WaitingForSync", "WaitingForEnvironment"}
                                     THEN "Running" ELSE @]
<1>1. rs \in [RolloutIds -> Rollout] /\ \A r \in RolloutIds : Fine(rs[r])
  BY SupersededEvolves, SupersededKeeps DEF TypeOK
<1>2. ASSUME NEW ro \in Rollout
      PROVE  /\ Start(ro).tgt = ro.tgt /\ Start(ro).nb = ro.nb /\ Start(ro).open = ro.open
             /\ Start(ro).group = ro.group /\ Start(ro).want = ro.want
             /\ Start(ro).pausePending = ro.pausePending /\ Start(ro).strategy = strategy
             /\ Start(ro).state = IF ro.state \in {"WaitingForSync", "WaitingForEnvironment"}
                                  THEN "Running" ELSE ro.state
             /\ Start(ro) \in Rollout
  <2> DEFINE s == IF ro.state \in {"WaitingForSync", "WaitingForEnvironment"}
                  THEN "Running" ELSE ro.state
             b == ro.force \/ force
  <2>1. s \in States /\ b \in BOOLEAN
    BY DEF Rollout, States, ActiveStates
  <2>2. Start(ro) = [ro EXCEPT !.human = TRUE, !.force = b, !.strategy = strategy, !.state = s]
    BY DEF Rollout
  <2> HIDE DEF s, b, Start
  <2>3. /\ Start(ro).tgt = ro.tgt /\ Start(ro).nb = ro.nb /\ Start(ro).open = ro.open
        /\ Start(ro).group = ro.group /\ Start(ro).want = ro.want
        /\ Start(ro).pausePending = ro.pausePending /\ Start(ro).strategy = strategy
        /\ Start(ro).state = s /\ Start(ro) \in Rollout
    BY <2>1, <2>2 DEF Rollout
  <2>. QED BY <2>3 DEF s
<1>3. \/ rollouts' = rs
      \/ \E r \in found : /\ strategy = rs[r].strategy \/ "strategy" \in Verbs
                          /\ rollouts' = [rs EXCEPT ![r] = Start(rs[r])]
      \/ found = {} /\ \E r \in FreshIds : rollouts' = [rs EXCEPT ![r] = Start(RolloutFor(g, strategy, f))]
  BY DEF Sync
<1>4. f \in Files
  BY HeldType DEF TypeOK, HeldFiles
<1> HIDE DEF Start, rs
<1>5. ASSUME NEW r \in found, strategy = rs[r].strategy \/ "strategy" \in Verbs,
             rollouts' = [rs EXCEPT ![r] = Start(rs[r])]
      PROVE  Shifts(rs)
  <2> DEFINE ro == rs[r]
             new == Start(ro)
  <2>1. r \in RolloutIds /\ ro \in Rollout /\ Fine(ro) /\ Active(ro)
    BY <1>1
  <2>2. /\ new.tgt = ro.tgt /\ new.nb = ro.nb /\ new.open = ro.open
        /\ Kin(ro, new) /\ new.want = ro.want
        /\ new.pausePending = ro.pausePending /\ new.strategy = strategy
        /\ new.state = IF ro.state \in {"WaitingForSync", "WaitingForEnvironment"}
                       THEN "Running" ELSE ro.state
    BY <1>2, <2>1 DEF Kin
  <2>3. rollouts' = [rs EXCEPT ![r] = new] /\ (new.strategy = ro.strategy \/ "strategy" \in Verbs)
    BY <1>5, <2>2
  <2> HIDE DEF ro, new
  <2>4. CASE ro.state \in {"WaitingForSync", "WaitingForEnvironment"}
    <3>1. ~ro.open /\ ~ro.pausePending
      BY <2>1, <2>4 DEF Fine
    <3>2. Along(ro.state, new.state) /\ new.state = "Running"
      BY <2>2, <2>4, EdgesHave
    <3>3. Moves(ro, new) /\ Keeps(ro, new)
      BY <2>1, <2>2, <2>3, <3>1, <3>2, FlagsMove DEF ActiveStates
    <3>4. Pauses(ro, new)
      BY <2>4, <3>1 DEF Pauses, AskedToPause
    <3>. QED BY <2>1, <2>3, <3>3, <3>4 DEF Shifts, ro
  <2>5. CASE ro.state \notin {"WaitingForSync", "WaitingForEnvironment"}
    <3>1. Moves(ro, new) /\ Keeps(ro, new)
      BY <2>1, <2>2, <2>3, <2>5, FlagsMove
    <3>2. Pauses(ro, new)
      BY <2>2, <2>5 DEF Pauses, AskedToPause
    <3>. QED BY <2>1, <2>3, <3>1, <3>2 DEF Shifts, ro
  <2>. QED BY <2>4, <2>5
<1>6. ASSUME found = {}, NEW r \in FreshIds,
             rollouts' = [rs EXCEPT ![r] = Start(RolloutFor(g, strategy, f))]
      PROVE  Shifts(rs)
  <2> DEFINE ro == RolloutFor(g, strategy, f)
             new == Start(ro)
  <2>1. ro \in Rollout /\ ro.state = "Running" /\ ro.group = g
    BY <1>4, RolloutForType
  <2>s. ro.strategy = strategy
    BY NoRolloutType DEF RolloutFor, NewRollout, NoRollout, Rollout
  <2>2. /\ new.tgt = ro.tgt /\ new.nb = ro.nb /\ new.open = ro.open /\ new.group = g
        /\ new.strategy = ro.strategy /\ new.pausePending = ro.pausePending
        /\ new.state = "Running" /\ new \in Rollout
    BY <1>2, <2>1, <2>s
  <2>3. rollouts' = [rs EXCEPT ![r] = new]
    BY <1>6
  <2> HIDE DEF new
  <2>4. Fine(new) /\ Ordered(new)
    BY <1>4, <2>2, OpenedFine
  <2> HIDE DEF ro
  <2>5. r \in RolloutIds /\ rollouts[r].state = "None"
    BY DEF FreshIds
  <2>6. \A q \in RolloutIds : Active(rs[q]) => rs[q].group # new.group
    BY <1>6, <2>2
  <2>. QED BY <2>2, <2>3, <2>4, <2>5, <2>6 DEF Shifts, Opened
<1>. QED BY <1>3, <1>5, <1>6 DEF Shifts, rs

LEMMA VerbMoves ==
  ASSUME TypeOK, NEW r \in RolloutIds, Fine(rollouts[r]), Pause(r) \/ Promote(r) \/ Abort(r) \/ Retry(r)
  PROVE  Shifts(rollouts)
<1> DEFINE old == rollouts[r]
<1>0. old \in Rollout /\ Fine(old)
  BY DEF TypeOK
<1>1. ASSUME NEW ro, NEW verb, OnRollout(verb, r, ro), Moves(old, ro), Keeps(old, ro),
             Pauses(old, ro) \/ Promote(r)
      PROVE  Shifts(rollouts)
  BY <1>1 DEF OnRollout, Shifts
<1>2. CASE Pause(r)
  <2> DEFINE ro == IF old.open THEN [old EXCEPT !.pausePending = TRUE]
                   ELSE [old EXCEPT !.pausePending = FALSE, !.state = "Paused"]
  <2>1. /\ Kin(old, ro) /\ ro.tgt = old.tgt /\ ro.nb = old.nb /\ ro.open = old.open
        /\ ro.want = old.want /\ ro.strategy = old.strategy
        /\ IF old.open THEN ro.state = old.state /\ ro.pausePending
           ELSE ro.state = "Paused" /\ ~ro.pausePending
    BY <1>0 DEF Kin, Rollout, States, ActiveStates
  <2>2. /\ OnRollout("pause", r, ro)
        /\ old.state \in {"Running", "Soaking", "WaitingForBudget", "WaitingForEnvironment"}
    BY <1>2 DEF Pause
  <2> HIDE DEF ro, old
  <2>3. Active(old) /\ (~old.open => old.state # "Soaking")
    BY <1>0, <2>2 DEF Active, ActiveStates, Fine
  <2>4. Moves(old, ro) /\ Keeps(old, ro)
    <3>1. CASE old.open
      BY <1>0, <2>1, <2>3, <3>1, FlagsMove
    <3>2. CASE ~old.open
      <4>1. Along(old.state, ro.state)
        BY <2>1, <2>2, <2>3, <3>2, EdgesHave
      <4>. QED BY <1>0, <2>1, <2>3, <3>2, <4>1, FlagsMove DEF ActiveStates
    <3>. QED BY <3>1, <3>2
  <2>5. Pauses(old, ro)
    BY <2>1 DEF Pauses, AskedToPause
  <2>. QED BY <1>1, <2>2, <2>4, <2>5
<1>3. CASE Promote(r)
  <2> DEFINE s == IF old.state = "Paused" THEN "Running" ELSE old.state
             ro == [old EXCEPT !.pausePending = FALSE, !.human = TRUE, !.state = s]
  <2>1. OnRollout("pause", r, ro)
    BY <1>3 DEF Promote
  <2>2. old.state \in States /\ s \in States
    BY <1>0 DEF Rollout, States, ActiveStates
  <2>s. IF old.state = "Paused" THEN s = "Running" ELSE s = old.state
    OBVIOUS
  <2> HIDE DEF s
  <2>3. /\ Kin(old, ro) /\ ro.tgt = old.tgt /\ ro.nb = old.nb /\ ro.open = old.open /\ ro.state = s
        /\ ro.want = old.want /\ ro.strategy = old.strategy /\ ~ro.pausePending
    BY <1>0, <2>2 DEF Kin, Rollout
  <2> HIDE DEF ro, old
  <2>4. CASE old.state = "Paused"
    <3>1. Active(old) /\ ~old.open
      BY <1>0, <2>4 DEF Active, ActiveStates, Fine
    <3>2. Along(old.state, ro.state) /\ ro.state = "Running"
      BY <2>3, <2>4, <2>s, EdgesHave
    <3>3. Moves(old, ro) /\ Keeps(old, ro)
      BY <1>0, <2>3, <3>1, <3>2, FlagsMove DEF ActiveStates
    <3>. QED BY <1>1, <1>3, <2>1, <3>3
  <2>5. CASE old.state # "Paused"
    <3>1. Moves(old, ro) /\ Keeps(old, ro)
      BY <1>0, <2>3, <2>5, <2>s, FlagsMove
    <3>. QED BY <1>1, <1>3, <2>1, <3>1
  <2>. QED BY <2>4, <2>5
<1>4. CASE Abort(r)
  <2> DEFINE end == Ended(old, "Aborted")
             ro == [end EXCEPT !.open = FALSE]
  <2>1. OnRollout("abort", r, ro) /\ Active(old)
    BY <1>4 DEF Abort
  <2>2. /\ Kin(old, end) /\ end.want = old.want /\ end.state = "Aborted"
        /\ Ordered(old) => Ordered(end)
        /\ Keeps(old, end)
    BY <1>0, <2>1, EndedMoves DEF EndedStates
  <2> HIDE DEF end, old
  <2>3. /\ Kin(end, ro) /\ ro.tgt = end.tgt /\ ro.nb = end.nb /\ ro.state = end.state
        /\ ro.want = end.want /\ ro.strategy = end.strategy
    BY <2>2 DEF Kin, Rollout
  <2> HIDE DEF ro
  <2>4. Ordered(end) => Ordered(ro)
    BY <2>3 DEF Ordered, St, TargetsOf, TargetsIn, Unbatched
  <2>5. ~Active(ro) /\ ro.state # "None"
    BY <2>2, <2>3 DEF Active, ActiveStates
  <2>6. Along(old.state, ro.state)
    BY <2>1, <2>2, <2>3, EdgesHave DEF Active
  <2>7. Moves(old, ro)
    BY <2>2, <2>3, <2>4, <2>5, <2>6, KinTrans DEF Moves, Fine
  <2>8. Keeps(old, ro) /\ Pauses(old, ro)
    BY <2>2, <2>3, <2>5 DEF Keeps, Pauses
  <2>. QED BY <1>1, <2>1, <2>7, <2>8 DEF old
<1>5. CASE Retry(r)
  <2> DEFINE ro == [old EXCEPT !.retryPending = TRUE, !.human = TRUE]
  <2>1. /\ Kin(old, ro) /\ ro.tgt = old.tgt /\ ro.nb = old.nb /\ ro.open = old.open
        /\ ro.state = old.state /\ ro.want = old.want /\ ro.strategy = old.strategy
        /\ ro.pausePending = old.pausePending
    BY <1>0 DEF Kin, Rollout
  <2>2. OnRollout("retry", r, ro)
    BY <1>5 DEF Retry
  <2> HIDE DEF ro, old
  <2>3. Moves(old, ro) /\ Keeps(old, ro)
    BY <1>0, <2>1, FlagsMove
  <2>4. Pauses(old, ro)
    BY <2>1 DEF Pauses, AskedToPause
  <2>. QED BY <1>1, <2>2, <2>3, <2>4
<1>. QED BY <1>2, <1>3, <1>4, <1>5

LEMMA HoldLapseMoves ==
  ASSUME TypeOK, NEW r \in RolloutIds, Fine(rollouts[r]), NEW t \in Targets, HoldLapse(r, t)
  PROVE  Shifts(rollouts)
<1> DEFINE old == rollouts[r]
           rt == [old.tgt[t] EXCEPT !.hold = FALSE]
           ro == [old EXCEPT !.tgt[t] = rt]
<1>1. old \in Rollout /\ Fine(old) /\ ~Active(old)
  BY DEF TypeOK, Fine, Shape, HoldLapse
<1>2. old.tgt[t] \in RolloutTarget
  BY <1>1, TgtType
<1>3. /\ rt \in RolloutTarget /\ rt.phase = old.tgt[t].phase /\ rt.node = old.tgt[t].node
      /\ rt.wave = old.tgt[t].wave /\ rt.batch = old.tgt[t].batch
      /\ rt.degBefore = old.tgt[t].degBefore /\ rt.updated = old.tgt[t].updated
  BY <1>2 DEF RolloutTarget
<1>4. rollouts' = [rollouts EXCEPT ![r] = ro]
  BY <1>1 DEF HoldLapse, TypeOK, Rollout
<1> HIDE DEF rt
<1>5. /\ Kin(old, ro) /\ ro.state = old.state /\ ro.want = old.want /\ ro.strategy = old.strategy
      /\ ro.nb = old.nb /\ ro.pausePending = old.pausePending
      /\ \A u \in Targets : ro.tgt[u] = IF u = t THEN rt ELSE old.tgt[u]
  BY <1>1, <1>3, OneTarget DEF Rollout
<1> HIDE DEF ro, old
<1>6. Calm(old, ro)
  BY <1>1, <1>3, <1>5, PhasesCalm
<1>7. Fine(ro)
  BY <1>1, <1>5 DEF Fine, Active
<1>8. Moves(old, ro)
  BY <1>5, <1>6, <1>7, CalmMoves DEF Along
<1>9. Pauses(old, ro) /\ Keeps(old, ro)
  BY <1>3, <1>5 DEF Pauses, Keeps, AskedToPause
<1>. QED BY <1>4, <1>8, <1>9 DEF Shifts, old

-----------------------------------------------------------------------------
\* Steps of the controller.

\* The rollouts rs are those of now, some closed for digests that moved on.
Trimmed(rs) ==
  /\ rs \in [RolloutIds -> Rollout]
  /\ \A r \in RolloutIds :
       /\ \/ rs[r] = rollouts[r]
          \/ Active(rollouts[r]) /\ Moved(rollouts[r]) /\ rs[r].state = "Superseded"
       /\ Kin(rollouts[r], rs[r]) /\ rs[r].want = rollouts[r].want /\ Fine(rs[r])
       /\ Ordered(rollouts[r]) => Ordered(rs[r])
       /\ Keeps(rollouts[r], rs[r]) /\ Pauses(rollouts[r], rs[r])

\* A step plans one rollout, or moves or opens one of those a supersede leaves.
Stepped ==
  /\ Lifts
  /\ \/ \E r \in planning : /\ pc = "plan" /\ pc' = "plan" /\ planning' = planning \ {r}
                            /\ file' = file /\ desired' = desired /\ policy' = policy
                            /\ Planned(r)
     \/ jobs' \subseteq jobs /\ \E rs : Trimmed(rs) /\ Shifts(rs)

\* A job is of a rollout that was opened; its ready program runs where inspect
\* has seen the digest.  Within a plan, only rollouts already planned have jobs,
\* and for targets of their group.
JobsFit ==
  /\ pc \in {"idle", "open"} => jobs = {}
  /\ \A j \in jobs :
       /\ rollouts[j.rollout].state # "None"
       /\ j.hook = "ready" => rollouts[j.rollout].tgt[j.target].updated
  /\ pc = "plan" => \A j \in jobs :
       /\ j.rollout \notin planning /\ Active(rollouts[j.rollout])
       /\ j.target \in DOMAIN file /\ file[j.target].group = rollouts[j.rollout].group

\* The inductive invariant.
FInv == TypeOK /\ OneInv /\ (\A r \in RolloutIds : Fine(rollouts[r])) /\ JobsFit

LEMMA TrimmedSelf ==
  ASSUME TypeOK, \A r \in RolloutIds : Fine(rollouts[r])
  PROVE  Trimmed(rollouts)
<1>1. \A r \in RolloutIds : rollouts[r] \in Rollout
  BY DEF TypeOK
<1>. QED BY <1>1, MovesSelf DEF Trimmed, Moves, TypeOK

LEMMA TrimmedSuperseded ==
  ASSUME TypeOK, \A r \in RolloutIds : Fine(rollouts[r])
  PROVE  Trimmed(Superseded(rollouts))
<1>1. Superseded(rollouts) \in [RolloutIds -> Rollout]
  BY SupersededEvolves DEF TypeOK
<1>. QED BY <1>1, SupersededKeeps DEF Trimmed

\* A result moves a rollout.
LEMMA ResultedShifts ==
  ASSUME NEW r \in RolloutIds, Resulted(r)
  PROVE  Shifts(rollouts)
  BY DEF Resulted, Shifts

\* No verb runs while the tick has the lock, or touches the tick's work, the
\* file or what was resolved.
LEMMA PeopleWait ==
  ASSUME PeopleStep
  PROVE  Unlocked /\ pc' = pc /\ jobs' = jobs /\ file' = file /\ desired' = desired
<1>1. ASSUME NEW g, NEW force, NEW strategy, NEW f, Sync(g, force, strategy, f)
      PROVE  Unlocked /\ pc' = pc /\ jobs' = jobs /\ file' = file /\ desired' = desired
  BY <1>1 DEF Sync, tickVars, fileVars
<1>2. ASSUME NEW sel, Suspend(sel) \/ Resume(sel)
      PROVE  Unlocked /\ pc' = pc /\ jobs' = jobs /\ file' = file /\ desired' = desired
  BY <1>2 DEF Suspend, Resume, tickVars, fileVars
<1>3. ASSUME NEW g, NEW p, SetPolicy(g, p)
      PROVE  Unlocked /\ pc' = pc /\ jobs' = jobs /\ file' = file /\ desired' = desired
  BY <1>3 DEF SetPolicy, tickVars, fileVars
<1>4. ASSUME NEW r, Pause(r) \/ Promote(r) \/ Abort(r) \/ Retry(r)
      PROVE  Unlocked /\ pc' = pc /\ jobs' = jobs /\ file' = file /\ desired' = desired
  BY <1>4 DEF Pause, Promote, Abort, Retry, OnRollout, tickVars, fileVars
<1>. QED BY <1>1, <1>2, <1>3, <1>4 DEF PeopleStep

LEMMA NextStepped ==
  ASSUME FInv, [Next]_vars
  PROVE  Stepped
<1>0. TypeOK /\ \A r \in RolloutIds : Fine(rollouts[r])
  BY DEF FInv
<1>1. Trimmed(rollouts) /\ Trimmed(Superseded(rollouts))
  BY <1>0, TrimmedSelf, TrimmedSuperseded
<1>2. ASSUME degraded \subseteq degraded' PROVE Lifts
  BY <1>2 DEF Lifts
<1>3. ASSUME rollouts' = rollouts, degraded' = degraded, jobs' = jobs PROVE Stepped
  BY <1>1, <1>2, <1>3 DEF Stepped, Shifts
<1>4. ASSUME Shifts(rollouts) \/ Shifts(Superseded(rollouts)), degraded' = degraded, jobs' = jobs
      PROVE  Stepped
  BY <1>1, <1>2, <1>4 DEF Stepped
<1>5. CASE UNCHANGED vars
  BY <1>3, <1>5 DEF vars
<1>6. CASE TickStep
  <2>1. CASE TickStart
    BY <1>4, <2>1 DEF TickStart, Shifts
  <2>2. ASSUME NEW g \in opening, OpenGroup(g) PROVE Stepped
    BY <1>0, <1>4, <2>2, OpenGroupMoves DEF OpenGroup, Shifts
  <2>3. CASE OpenDone \/ PlanDone \/ ExecDone \/ TickDone
    BY <1>3, <2>3 DEF OpenDone, PlanDone, ExecDone, TickDone
  <2>4. ASSUME NEW r \in planning, PlanStep(r) PROVE Stepped
    <3>1. r \in RolloutIds
      BY <1>0 DEF TypeOK
    <3>2. Planned(r) /\ Lifts
      BY <1>0, <2>4, <3>1, PlanStepPlans
    <3>. QED BY <2>4, <3>2, PlanKeeps DEF Stepped
  <2>5. ASSUME NEW j \in jobs, ApplyStale(j) \/ ApplyUpdate(j) \/ ApplyInspect(j) \/ ApplyReady(j)
        PROVE  Stepped
    <3>1. j.rollout \in RolloutIds /\ j.target \in Targets
      BY <1>0 DEF TypeOK, Job
    <3>2. Resulted(j.rollout) /\ Lifts
      <4>1. CASE ApplyReady(j)
        <5>1. rollouts[j.rollout].tgt[j.target].updated
          BY <4>1 DEF FInv, JobsFit, ApplyReady
        <5>. QED BY <1>0, <4>1, <5>1, ApplyReadyMoves
      <4>2. CASE ApplyStale(j)
        BY <1>0, <4>2, ApplyStaleMoves
      <4>3. CASE ApplyUpdate(j)
        BY <1>0, <4>3, ApplyUpdateMoves
      <4>4. CASE ApplyInspect(j)
        BY <1>0, <4>4, ApplyInspectMoves
      <4>. QED BY <2>5, <4>1, <4>2, <4>3, <4>4
    <3>3. jobs' \subseteq jobs
      BY <2>5, ApplyKeeps DEF ApplyStep
    <3>. QED BY <1>1, <3>1, <3>2, <3>3, ResultedShifts DEF Stepped
  <2>6. ASSUME NEW r \in checks, ApplyCheckStale(r) \/ ApplyCheckPassed(r) \/ ApplyCheckFailed(r)
        PROVE  Stepped
    <3>1. r \in RolloutIds
      BY <1>0 DEF TypeOK
    <3>2. Resulted(r) /\ Lifts
      BY <1>0, <2>6, ApplyCheckMoves
    <3>3. jobs' \subseteq jobs
      BY <2>6 DEF ApplyCheckStale, ApplyCheckPassed, ApplyCheckFailed, ApplyingCheck
    <3>. QED BY <1>1, <3>1, <3>2, <3>3, ResultedShifts DEF Stepped
  <2>. QED BY <1>6, <2>1, <2>2, <2>3, <2>4, <2>5, <2>6 DEF TickStep, ApplyStep
<1>7. CASE WorldStep
  <2>1. CASE Resolve \/ CheckEnvironment \/ \E t \in Targets : InspectAll(t) \/ Land(t) \/ Fizzle(t)
    BY <1>3, <2>1 DEF Resolve, CheckEnvironment, InspectAll, Land, Fizzle, tickVars
  <2>2. ASSUME NEW f, Reload(f) PROVE Stepped
    BY <1>3, <2>2 DEF Reload
  <2>3. CASE Forget
    <3>1. Lifts
      BY <2>3 DEF Forget, Lifts
    <3>. QED BY <1>1, <2>3, <3>1 DEF Forget, tickVars, Stepped, Shifts
  <2>4. ASSUME NEW r \in RolloutIds, NEW t \in Targets, HoldLapse(r, t) PROVE Stepped
    BY <1>0, <1>4, <2>4, HoldLapseMoves DEF HoldLapse, tickVars
  <2>. QED BY <1>7, <2>1, <2>2, <2>3, <2>4 DEF WorldStep
<1>8. CASE PeopleStep
  <2>0. jobs' = jobs
    BY <1>8, PeopleWait
  <2>1. ASSUME NEW sel, Suspend(sel) \/ Resume(sel) PROVE Stepped
    BY <1>3, <2>0, <2>1 DEF Suspend, Resume
  <2>2. ASSUME NEW g, NEW p, SetPolicy(g, p) PROVE Stepped
    BY <1>3, <2>2 DEF SetPolicy, tickVars
  <2>3. ASSUME NEW g \in Groups, NEW force \in BOOLEAN, NEW strategy \in DOMAIN StrategyOf,
               NEW f \in HeldFiles, Sync(g, force, strategy, f)
        PROVE  Stepped
    <3>1. degraded' = degraded
      BY <2>3 DEF Sync
    <3>. QED BY <1>0, <1>4, <2>0, <2>3, <3>1, SyncMoves
  <2>4. ASSUME NEW r \in RolloutIds, Pause(r) \/ Promote(r) \/ Abort(r) \/ Retry(r) PROVE Stepped
    <3>1. degraded' = degraded
      BY <2>4 DEF Pause, Promote, Abort, Retry, OnRollout
    <3>. QED BY <1>0, <1>4, <2>0, <2>4, <3>1, VerbMoves
  <2>. QED BY <1>8, <2>1, <2>2, <2>3, <2>4 DEF PeopleStep
<1>. QED BY <1>5, <1>6, <1>7, <1>8 DEF Next

\* What every step does to a rollout in use.
Went(r) ==
  LET old == rollouts[r]
      new == rollouts'[r]
  IN /\ Kin(old, new) /\ new.want = old.want /\ Fine(new)
     /\ "strategy" \notin Verbs /\ Ordered(old) => Ordered(new)
     /\ new.state # old.state => Active(old) /\ new.state # "None"
     /\ Pauses(old, new) \/ Promote(r)

\* What it does to an id it takes.
Came(r) ==
  /\ rollouts[r].state = "None"
  /\ Fine(rollouts'[r]) /\ Ordered(rollouts'[r])
  /\ rollouts'[r].state \in {"Running", "WaitingForSync"}

LEMMA MovesWent ==
  ASSUME NEW r \in RolloutIds, NEW rs, Trimmed(rs), NEW new, rollouts'[r] = new,
         Moves(rs[r], new), Pauses(rs[r], new) \/ Promote(r)
  PROVE  Went(r)
<1> DEFINE old == rollouts[r]
           mid == rs[r]
<1>1. /\ \/ mid = old
         \/ Active(old) /\ mid.state = "Superseded"
      /\ Kin(old, mid) /\ mid.want = old.want
      /\ Ordered(old) => Ordered(mid)
  BY DEF Trimmed
<1>2. /\ Kin(mid, new) /\ new.want = mid.want /\ Fine(new) /\ Along(mid.state, new.state)
      /\ "strategy" \notin Verbs /\ Ordered(mid) => Ordered(new)
  BY DEF Moves
<1> HIDE DEF old, mid
<1>3. Kin(old, new) /\ new.want = old.want
  BY <1>1, <1>2, KinTrans
<1>4. CASE mid = old
  <2>1. new.state # old.state => Active(old) /\ new.state # "None"
    BY <1>2, <1>4, EdgesFrom DEF Active
  <2>. QED BY <1>2, <1>3, <1>4, <2>1 DEF Went, old, mid
<1>5. CASE Active(old) /\ mid.state = "Superseded"
  <2>1. new.state = "Superseded"
    BY <1>2, <1>5, EdgesFrom DEF ActiveStates
  <2>2. Pauses(old, new)
    BY <2>1 DEF Pauses, Active, ActiveStates
  <2>. QED BY <1>1, <1>2, <1>3, <1>5, <2>1, <2>2 DEF Went, old, mid
<1>. QED BY <1>1, <1>4, <1>5

LEMMA TrimmedWent ==
  ASSUME NEW r \in RolloutIds, NEW rs, Trimmed(rs), rollouts'[r] = rs[r]
  PROVE  Went(r) /\ Keeps(rollouts[r], rollouts'[r])
  BY DEF Trimmed, Went

LEMMA ShiftsEach ==
  ASSUME NEW r \in RolloutIds, NEW rs, Trimmed(rs), Shifts(rs)
  PROVE  Came(r) \/ (Went(r) /\ Keeps(rollouts[r], rollouts'[r]))
<1>0. rs \in [RolloutIds -> Rollout]
  BY DEF Trimmed
<1>1. CASE rollouts' = rs
  BY <1>1, TrimmedWent
<1>2. ASSUME NEW q \in RolloutIds, Opened(rs, q)
      PROVE  Came(r) \/ (Went(r) /\ Keeps(rollouts[r], rollouts'[r]))
  <2>1. CASE q = r
    <3>1. PICK new : /\ rollouts' = [rs EXCEPT ![q] = new]
                     /\ rollouts[q].state = "None" /\ Fine(new) /\ Ordered(new)
                     /\ new.state \in {"Running", "WaitingForSync"}
      BY <1>2 DEF Opened
    <3>2. rollouts'[r] = new
      BY <1>0, <2>1, <3>1
    <3>. QED BY <2>1, <3>1, <3>2 DEF Came
  <2>2. CASE q # r
    <3>1. rollouts'[r] = rs[r]
      BY <1>0, <1>2, <2>2 DEF Opened
    <3>. QED BY <3>1, TrimmedWent
  <2>. QED BY <2>1, <2>2
<1>3. ASSUME NEW q \in RolloutIds, NEW new, rollouts' = [rs EXCEPT ![q] = new],
             Moves(rs[q], new), Keeps(rs[q], new), Pauses(rs[q], new) \/ Promote(q)
      PROVE  Went(r) /\ Keeps(rollouts[r], rollouts'[r])
  <2>1. CASE q = r
    <3>1. rollouts'[r] = new
      BY <1>0, <1>3, <2>1
    <3>2. Went(r)
      BY <1>3, <2>1, <3>1, MovesWent
    <3>. QED BY <1>3, <2>1, <3>1, <3>2 DEF Trimmed, Keeps
  <2>2. CASE q # r
    <3>1. rollouts'[r] = rs[r]
      BY <1>0, <1>3, <2>2
    <3>. QED BY <3>1, TrimmedWent
  <2>. QED BY <2>1, <2>2
<1>. QED BY <1>1, <1>2, <1>3 DEF Shifts

\* A plan touches no other rollout.
LEMMA PlannedWent ==
  ASSUME TypeOK, \A q \in RolloutIds : Fine(rollouts[q]),
         NEW q \in planning, Planned(q), NEW r \in RolloutIds
  PROVE  Went(r)
<1>0. q \in RolloutIds
  BY DEF TypeOK
<1>1. PICK new : /\ rollouts' = [rollouts EXCEPT ![q] = new]
                 /\ Moves(rollouts[q], new) /\ Pauses(rollouts[q], new)
  BY DEF Planned
<1>2. rollouts'[r] = IF r = q THEN new ELSE rollouts[r]
  BY <1>0, <1>1 DEF TypeOK
<1>3. Trimmed(rollouts)
  BY TrimmedSelf
<1>. QED BY <1>1, <1>2, <1>3, MovesWent, TrimmedWent

LEMMA SteppedEach ==
  ASSUME TypeOK, \A q \in RolloutIds : Fine(rollouts[q]), Stepped, NEW r \in RolloutIds
  PROVE  Came(r) \/ Went(r)
  BY PlannedWent, ShiftsEach DEF Stepped

LEMMA FineStep ==
  ASSUME TypeOK, \A q \in RolloutIds : Fine(rollouts[q]), Stepped
  PROVE  \A r \in RolloutIds : Fine(rollouts'[r])
  BY SteppedEach DEF Came, Went

\* A step that leaves every rollout's state and group, the jobs and the plan.
LEMMA JobsStay ==
  ASSUME JobsFit, TypeOK, pc' = pc, jobs' = jobs, planning' = planning, file' = file \/ jobs = {},
         \A r \in RolloutIds : rollouts'[r].state = rollouts[r].state /\ rollouts'[r].group = rollouts[r].group,
         \A r \in RolloutIds : Keeps(rollouts[r], rollouts'[r])
  PROVE  JobsFit'
<1>1. \A j \in jobs : j.rollout \in RolloutIds /\ j.target \in Targets
  BY DEF TypeOK, Job
<1>2. CASE jobs = {}
  BY <1>2 DEF JobsFit
<1>3. CASE file' = file
  BY <1>1, <1>3 DEF JobsFit, Keeps, Active
<1>. QED BY <1>2, <1>3

\* A planned rollout adds its jobs to those of rollouts planned before.
LEMMA JobsPlanned ==
  ASSUME TypeOK, JobsFit, NEW r \in planning, pc = "plan", pc' = "plan",
         planning' = planning \ {r}, file' = file, Planned(r)
  PROVE  JobsFit'
<1>0. r \in RolloutIds /\ \A j \in jobs : j.rollout \in RolloutIds /\ j.target \in Targets
  BY DEF TypeOK, Job
<1>1. PICK new, js : /\ rollouts' = [rollouts EXCEPT ![r] = new]
                     /\ jobs' = jobs \cup js /\ JobsOf(r, new, js)
                     /\ js # {} => new.state = "Running"
  BY DEF Planned
<1>2. rollouts'[r] = new /\ \A q \in RolloutIds \ {r} : rollouts'[q] = rollouts[q]
  BY <1>0, <1>1 DEF TypeOK
<1>3. \A j \in jobs : j.rollout # r
  BY DEF JobsFit
<1>4. \A j \in jobs : rollouts'[j.rollout] = rollouts[j.rollout] /\ j.rollout \notin planning'
  BY <1>0, <1>2, <1>3 DEF JobsFit
<1>5. \A j \in js :
        /\ j.rollout = r /\ j.rollout \notin planning'
        /\ rollouts'[j.rollout].state # "None" /\ Active(rollouts'[j.rollout])
        /\ j.hook = "ready" => rollouts'[j.rollout].tgt[j.target].updated
        /\ j.target \in DOMAIN file /\ file[j.target].group = rollouts'[j.rollout].group
  BY <1>1, <1>2 DEF JobsOf, Active, ActiveStates
<1>. QED BY <1>1, <1>4, <1>5 DEF JobsFit

LEMMA JobsShift ==
  ASSUME TypeOK, JobsFit, \A q \in RolloutIds : Fine(rollouts[q]), jobs' \subseteq jobs,
         NEW rs, Trimmed(rs), Shifts(rs)
  PROVE  \A j \in jobs' :
           /\ rollouts'[j.rollout].state # "None"
           /\ j.hook = "ready" => rollouts'[j.rollout].tgt[j.target].updated
<1> SUFFICES ASSUME NEW j \in jobs'
             PROVE  /\ rollouts'[j.rollout].state # "None"
                    /\ j.hook = "ready" => rollouts'[j.rollout].tgt[j.target].updated
  OBVIOUS
<1>1. j \in jobs /\ j.rollout \in RolloutIds /\ j.target \in Targets
  BY DEF TypeOK, Job
<1>2. /\ rollouts[j.rollout].state # "None"
      /\ j.hook = "ready" => rollouts[j.rollout].tgt[j.target].updated
  BY <1>1 DEF JobsFit
<1>3. Went(j.rollout) /\ Keeps(rollouts[j.rollout], rollouts'[j.rollout])
  BY <1>1, <1>2, ShiftsEach DEF Came
<1>. QED BY <1>1, <1>2, <1>3 DEF Went, Keeps

\* A hold that lapses leaves every rollout's state, group and digests.
LEMMA HoldLapseSame ==
  ASSUME TypeOK, NEW r \in RolloutIds, NEW t \in Targets, HoldLapse(r, t)
  PROVE  \A q \in RolloutIds : /\ rollouts'[q].state = rollouts[q].state
                              /\ rollouts'[q].group = rollouts[q].group
                              /\ rollouts'[q].want = rollouts[q].want
<1> DEFINE g == [rollouts[r].tgt EXCEPT ![t].hold = FALSE]
           new == [rollouts[r] EXCEPT !.tgt = g]
<1>1. \A q \in RolloutIds : rollouts[q] \in Rollout
  BY DEF TypeOK
<1>2. rollouts' = [rollouts EXCEPT ![r] = new]
  BY <1>1 DEF HoldLapse, TypeOK, Rollout
<1> HIDE DEF g
<1>3. new.state = rollouts[r].state /\ new.group = rollouts[r].group /\ new.want = rollouts[r].want
  BY <1>1 DEF Rollout
<1> HIDE DEF new
<1>. QED BY <1>2, <1>3 DEF TypeOK

\* While a tick decides, nothing but the plan makes or drops jobs.
LEMMA JobsStep ==
  ASSUME FInv, [Next]_vars
  PROVE  JobsFit'
<1>0. TypeOK /\ JobsFit /\ Stepped /\ \A r \in RolloutIds : Fine(rollouts[r])
  BY NextStepped DEF FInv
<1>1. ASSUME rollouts' = rollouts, pc' = pc, jobs' = jobs, planning' = planning, file' = file \/ jobs = {}
      PROVE  JobsFit'
  BY <1>0, <1>1, JobsStay DEF Keeps
<1>2. CASE \E r \in planning : /\ pc = "plan" /\ pc' = "plan" /\ planning' = planning \ {r}
                               /\ file' = file /\ Planned(r)
  BY <1>0, <1>2, JobsPlanned
<1>3. ASSUME jobs' \subseteq jobs, NEW rs, Trimmed(rs), Shifts(rs) PROVE JobsFit'
  <2>1. \A j \in jobs' :
          /\ rollouts'[j.rollout].state # "None"
          /\ j.hook = "ready" => rollouts'[j.rollout].tgt[j.target].updated
    BY <1>0, <1>3, JobsShift
  <2>2. ASSUME pc' # "plan", pc' \in {"idle", "open"} => jobs' = {} PROVE JobsFit'
    BY <2>1, <2>2 DEF JobsFit
  <2>3. ASSUME pc' = pc, Unlocked PROVE JobsFit'
    <3>1. pc \in {"idle", "open"} => jobs' = {}
      BY <1>0, <1>3 DEF JobsFit
    <3>. QED BY <2>2, <2>3, <3>1 DEF Unlocked
  <2>4. CASE TickStep
    <3>1. CASE TickStart
      BY <1>0, <2>2, <3>1 DEF TickStart, JobsFit
    <3>2. ASSUME NEW g \in opening, OpenGroup(g) PROVE JobsFit'
      BY <1>0, <2>2, <3>2 DEF OpenGroup, JobsFit
    <3>3. CASE OpenDone
      BY <1>0, <3>3 DEF OpenDone, JobsFit
    <3>4. CASE PlanDone \/ ExecDone \/ TickDone
      BY <2>2, <3>4 DEF PlanDone, ExecDone, TickDone
    <3>5. ASSUME NEW r \in planning, PlanStep(r) PROVE JobsFit'
      <4>1. /\ r \in RolloutIds /\ pc = "plan" /\ pc' = "plan" /\ planning' = planning \ {r}
            /\ file' = file
        BY <1>0, <3>5, PlanKeeps DEF TypeOK
      <4>2. Planned(r)
        BY <1>0, <3>5, <4>1, PlanStepPlans
      <4>. QED BY <1>0, <3>5, <4>1, <4>2, JobsPlanned
    <3>6. CASE ApplyStep
      BY <2>2, <3>6, ApplyKeeps
    <3>. QED BY <2>4, <3>1, <3>2, <3>3, <3>4, <3>5, <3>6 DEF TickStep
  <2>5. CASE WorldStep
    <3>1. CASE Resolve \/ CheckEnvironment \/ \E t \in Targets : InspectAll(t) \/ Land(t) \/ Fizzle(t)
      BY <1>1, <3>1 DEF Resolve, CheckEnvironment, InspectAll, Land, Fizzle, tickVars, fileVars
    <3>2. ASSUME NEW f, Reload(f) PROVE JobsFit'
      <4>1. pc \in {"idle", "open", "plan"} => jobs = {}
        BY <1>0, <3>2 DEF Reload, JobsFit
      <4>2. pc' = pc /\ jobs' = jobs
        BY <3>2 DEF Reload
      <4>3. CASE jobs = {}
        BY <4>2, <4>3 DEF JobsFit
      <4>. QED BY <2>2, <4>1, <4>2, <4>3
    <3>3. CASE Forget
      BY <2>3, <3>3 DEF Forget, tickVars
    <3>4. ASSUME NEW r \in RolloutIds, NEW t \in Targets, HoldLapse(r, t) PROVE JobsFit'
      <4>1. pc' = pc /\ jobs' = jobs /\ planning' = planning /\ file' = file
        BY <3>4 DEF HoldLapse, tickVars, fileVars
      <4>2. \A q \in RolloutIds :
              rollouts'[q].state = rollouts[q].state /\ rollouts'[q].group = rollouts[q].group
        BY <1>0, <3>4, HoldLapseSame
      <4>3. \A q \in RolloutIds : Keeps(rollouts[q], rollouts'[q])
        <5> SUFFICES ASSUME NEW q \in RolloutIds PROVE Keeps(rollouts[q], rollouts'[q])
          OBVIOUS
        <5>1. rollouts[q].state = "None" => ~Came(q)
          BY <4>2 DEF Came
        <5>. QED BY <1>3, <5>1, ShiftsEach DEF Came
      <4>. QED BY <1>0, <4>1, <4>2, <4>3, JobsStay
    <3>. QED BY <2>5, <3>1, <3>2, <3>3, <3>4 DEF WorldStep
  <2>6. CASE PeopleStep
    BY <2>3, <2>6, PeopleWait
  <2>7. CASE UNCHANGED vars
    BY <1>1, <2>7 DEF vars
  <2>. QED BY <2>4, <2>5, <2>6, <2>7 DEF Next
<1>. QED BY <1>0, <1>2, <1>3 DEF Stepped

LEMMA FInvInit ==
  ASSUME Init
  PROVE  FInv
<1>1. TypeOK /\ OneInv
  BY InitType, BInvInit DEF BInv
<1>2. \A r \in RolloutIds : Fine(rollouts[r])
  BY DEF Init, NoRollout, Fine, Active, ActiveStates
<1>. QED BY <1>1, <1>2 DEF Init, FInv, JobsFit

LEMMA FInvStep ==
  ASSUME FInv, [Next]_vars
  PROVE  FInv'
<1>1. TypeOK /\ OneInv /\ Stepped /\ \A r \in RolloutIds : Fine(rollouts[r])
  BY NextStepped DEF FInv
<1>. QED BY <1>1, NextType, OneStep, FineStep, JobsStep DEF FInv

-----------------------------------------------------------------------------
\* Theorems.

\* For every fleet, choice of verbs and failure, with the targets file changing
\* too: asked to pause, a rollout starts no further batch and stays asked or
\* paused until a promote or its end.
THEOREM PauseIsHonoured == Spec => PauseHonoured
<1>1. Init => FInv
  BY FInvInit
<1>2. FInv /\ [Next]_vars => FInv'
  BY FInvStep
<1>3. FInv /\ [Next]_vars =>
        [\A r \in RolloutIds :
           AskedToPause(rollouts[r]) /\ Active(rollouts'[r]) /\ ~Promote(r) =>
             rollouts'[r].nb = rollouts[r].nb /\ AskedToPause(rollouts'[r])]_vars
  <2> SUFFICES ASSUME FInv, [Next]_vars, NEW r \in RolloutIds,
                      AskedToPause(rollouts[r]), Active(rollouts'[r]), ~Promote(r)
               PROVE  rollouts'[r].nb = rollouts[r].nb /\ AskedToPause(rollouts'[r])
    OBVIOUS
  <2>1. Came(r) \/ Went(r)
    BY NextStepped, SteppedEach DEF FInv
  <2>2. ~Came(r)
    BY DEF FInv, Fine, Came, AskedToPause
  <2>. QED BY <2>1, <2>2 DEF Went, Pauses
<1>. QED BY <1>1, <1>2, <1>3, PTL DEF Spec, PauseHonoured

\* Likewise, quarantine is lifted only for what a rollout passed after inspect
\* saw it on the new build, for what a person retries and for what left the file.
THEOREM QuarantineKept == Spec => QuarantineLifted
<1>1. Init => FInv
  BY FInvInit
<1>2. FInv /\ [Next]_vars => FInv'
  BY FInvStep
<1>3. FInv /\ [Next]_vars =>
        [\A t \in degraded \ degraded' :
           \/ t \in gone
           \/ \E r \in RolloutIds :
                \/ rollouts[r].retryPending /\ t \in Failed(rollouts[r])
                \/ rollouts'[r].tgt[t].phase = "passed" /\ rollouts'[r].tgt[t].updated]_vars
  BY NextStepped DEF Stepped, Lifts
<1>. QED BY <1>1, <1>2, <1>3, PTL DEF Spec, QuarantineLifted

\* With strategies chosen by policy alone, waves go in order in every rollout.
\* A sync may give an active rollout a strategy without waves, which ends their
\* order, so there the property is not claimed.
THEOREM WavesAlwaysInOrder ==
  ASSUME "strategy" \notin Verbs
  PROVE  Spec => []WavesInOrder
<1> DEFINE OInv == \A r \in RolloutIds : Ordered(rollouts[r])
<1>1. Init => FInv /\ OInv
  <2>1. Init => OInv
    BY DEF Init, NoRollout, NoTarget, Ordered, TargetsOf, TargetsIn
  <2>. QED BY <2>1, FInvInit
<1>2. FInv /\ OInv /\ [Next]_vars => FInv' /\ OInv'
  <2> SUFFICES ASSUME FInv, OInv, [Next]_vars PROVE FInv' /\ OInv'
    OBVIOUS
  <2>1. \A r \in RolloutIds : Came(r) \/ Went(r)
    BY NextStepped, SteppedEach DEF FInv
  <2>2. OInv'
    BY <2>1 DEF Came, Went
  <2>. QED BY <2>2, FInvStep
<1>3. FInv /\ OInv => WavesInOrder
  BY DEF FInv, WavesInOrder, Ordered, TargetsOf, ActiveIds
<1>. QED BY <1>1, <1>2, <1>3, PTL DEF Spec

-----------------------------------------------------------------------------
\* The lifecycle.

\* The lifecycle's words are the controller's.
LEMMA LifecycleWords ==
  /\ TheLifecycle!States = States
  /\ \A st : TheLifecycle!Live(st) = {r \in RolloutIds : st[r] \in ActiveStates}
  BY DEF TheLifecycle!States, States, TheLifecycle!EndedStates, EndedStates, TheLifecycle!Live,
    TheLifecycle!ActiveStates, ActiveStates

\* What a step makes of rollouts is a step of the lifecycle: those a supersede
\* closed close, and at most one moves along an edge or opens.
LEMMA LifecycleStep ==
  ASSUME NEW rs, Trimmed(rs),
         \/ rollouts' = rs
         \/ \E q \in RolloutIds : Opened(rs, q)
         \/ \E q \in RolloutIds : \E new : rollouts' = [rs EXCEPT ![q] = new] /\ Moves(rs[q], new)
  PROVE  TheLifecycle!LifecycleNext
<1> DEFINE st == [r \in RolloutIds |-> rollouts[r].state]
           gr == [r \in RolloutIds |-> rollouts[r].group]
           new_st == [r \in RolloutIds |-> rollouts'[r].state]
           new_gr == [r \in RolloutIds |-> rollouts'[r].group]
           closing == {r \in RolloutIds : Active(rollouts[r]) /\ rs[r].state = "Superseded"}
           mid == [r \in RolloutIds |-> IF r \in closing THEN "Superseded" ELSE st[r]]
<1>1. rs \in [RolloutIds -> Rollout]
  BY DEF Trimmed
<1>2. \A r \in RolloutIds : mid[r] = rs[r].state /\ gr[r] = rs[r].group
  BY DEF Trimmed, Kin
<1>3. closing \subseteq TheLifecycle!Live(st)
  BY LifecycleWords DEF Active
<1>s. \/ new_st = mid /\ new_gr = gr
      \/ \E r \in TheLifecycle!Live(mid), s \in TheLifecycle!States :
           /\ <<mid[r], s>> \in TheLifecycle!Edges
           /\ new_st = [mid EXCEPT ![r] = s]
           /\ new_gr = gr
      \/ \E r \in RolloutIds, g \in Groups, s \in {"Running", "WaitingForSync"} :
           /\ st[r] = "None"
           /\ \A q \in TheLifecycle!Live(mid) : gr[q] # g
           /\ new_st = [mid EXCEPT ![r] = s]
           /\ new_gr = [gr EXCEPT ![r] = g]
  <2> HIDE DEF closing
  <2>1. CASE rollouts' = rs
    BY <1>2, <2>1
  <2>2. ASSUME NEW q \in RolloutIds, NEW new, rollouts' = [rs EXCEPT ![q] = new], new \in Rollout
        PROVE  /\ new_st = [mid EXCEPT ![q] = new.state]
               /\ new_gr = [gr EXCEPT ![q] = new.group]
    <3>1. \A r \in RolloutIds : rollouts'[r] = IF r = q THEN new ELSE rs[r]
      BY <1>1, <2>2
    <3>2. \A r \in RolloutIds : new_st[r] = IF r = q THEN new.state ELSE mid[r]
      BY <1>2, <3>1
    <3>3. \A r \in RolloutIds : new_gr[r] = IF r = q THEN new.group ELSE gr[r]
      BY <1>2, <3>1
    <3>4. mid = [r \in RolloutIds |-> mid[r]] /\ gr = [r \in RolloutIds |-> gr[r]]
      OBVIOUS
    <3>. QED BY <3>2, <3>3, <3>4
  <2>3. ASSUME NEW q \in RolloutIds, Opened(rs, q)
        PROVE  \E r \in RolloutIds, g \in Groups, s \in {"Running", "WaitingForSync"} :
                 /\ st[r] = "None"
                 /\ \A p \in TheLifecycle!Live(mid) : gr[p] # g
                 /\ new_st = [mid EXCEPT ![r] = s]
                 /\ new_gr = [gr EXCEPT ![r] = g]
    <3>1. PICK new : /\ rollouts' = [rs EXCEPT ![q] = new]
                     /\ rollouts[q].state = "None" /\ new \in Rollout
                     /\ new.state \in {"Running", "WaitingForSync"}
                     /\ \A p \in RolloutIds : Active(rs[p]) => rs[p].group # new.group
      BY <2>3 DEF Opened
    <3>2. new_st = [mid EXCEPT ![q] = new.state] /\ new_gr = [gr EXCEPT ![q] = new.group]
      BY <2>2, <3>1
    <3>3. new.group \in Groups /\ st[q] = "None"
      BY <3>1 DEF Rollout
    <3>4. \A p \in TheLifecycle!Live(mid) : gr[p] # new.group
      BY <1>2, <3>1, LifecycleWords DEF Active
    <3> HIDE DEF st, gr, mid, new_st, new_gr
    <3>. QED BY <3>1, <3>2, <3>3, <3>4
  <2>4. ASSUME NEW q \in RolloutIds, NEW new, rollouts' = [rs EXCEPT ![q] = new], Moves(rs[q], new)
        PROVE  \/ new_st = mid /\ new_gr = gr
               \/ \E r \in TheLifecycle!Live(mid), s \in TheLifecycle!States :
                    /\ <<mid[r], s>> \in TheLifecycle!Edges
                    /\ new_st = [mid EXCEPT ![r] = s]
                    /\ new_gr = gr
    <3>1. new \in Rollout /\ new.group = rs[q].group /\ Along(rs[q].state, new.state)
      BY <2>4 DEF Moves, Kin
    <3>2. new_st = [mid EXCEPT ![q] = new.state] /\ new_gr = [gr EXCEPT ![q] = new.group]
      BY <2>2, <2>4, <3>1
    <3>3. mid[q] = rs[q].state /\ gr[q] = new.group
      BY <1>2, <3>1
    <3>4. new_gr = gr
      BY <3>2, <3>3
    <3>5. CASE new.state = mid[q]
      BY <3>2, <3>4, <3>5
    <3>6. CASE new.state # mid[q]
      <4>1. q \in TheLifecycle!Live(mid)
        BY <3>1, <3>3, <3>6, EdgesFrom, LifecycleWords
      <4>2. new.state \in TheLifecycle!States /\ <<mid[q], new.state>> \in TheLifecycle!Edges
        BY <3>1, <3>3, <3>6, LifecycleWords DEF Rollout, Along
      <4> HIDE DEF st, gr, mid, new_st, new_gr
      <4>. QED BY <3>2, <3>4, <4>1, <4>2
    <3>. QED BY <3>5, <3>6
  <2>. QED BY <2>1, <2>3, <2>4
<1> HIDE DEF closing
<1>4. CASE new_st = mid /\ new_gr = gr
  BY <1>3, <1>4 DEF TheLifecycle!LifecycleNext, TheLifecycle!Close, TheLifecycle!Closed
<1>5. ASSUME NEW r \in TheLifecycle!Live(mid), NEW s \in TheLifecycle!States,
             <<mid[r], s>> \in TheLifecycle!Edges,
             new_st = [mid EXCEPT ![r] = s], new_gr = gr
      PROVE  TheLifecycle!LifecycleNext
  <2>1. TheLifecycle!Move(closing, r, s)
    BY <1>5 DEF TheLifecycle!Move, TheLifecycle!Closed
  <2>2. r \in RolloutIds
    BY LifecycleWords
  <2>. QED BY <1>3, <2>1, <2>2 DEF TheLifecycle!LifecycleNext
<1>6. ASSUME NEW r \in RolloutIds, NEW g \in Groups, NEW s \in {"Running", "WaitingForSync"},
             st[r] = "None",
             \A q \in TheLifecycle!Live(mid) : gr[q] # g,
             new_st = [mid EXCEPT ![r] = s], new_gr = [gr EXCEPT ![r] = g]
      PROVE  TheLifecycle!LifecycleNext
  <2>1. TheLifecycle!Open(closing, r, g, s)
    BY <1>6 DEF TheLifecycle!Open, TheLifecycle!Closed
  <2>. QED BY <1>3, <2>1 DEF TheLifecycle!LifecycleNext
<1> HIDE DEF st, gr, mid, new_st, new_gr
<1>. QED BY <1>s, <1>4, <1>5, <1>6

LEMMA SteppedLifecycle ==
  ASSUME TypeOK, \A r \in RolloutIds : Fine(rollouts[r]), Stepped
  PROVE  TheLifecycle!LifecycleNext
<1>1. ASSUME NEW q \in planning, Planned(q) PROVE TheLifecycle!LifecycleNext
  <2>1. q \in RolloutIds
    BY DEF TypeOK
  <2>. QED BY <1>1, <2>1, TrimmedSelf, LifecycleStep DEF Planned
<1>2. ASSUME NEW rs, Trimmed(rs), Shifts(rs) PROVE TheLifecycle!LifecycleNext
  BY <1>2, LifecycleStep DEF Shifts
<1>. QED BY <1>1, <1>2 DEF Stepped

\* The controller implements the lifecycle, for every fleet, choice of verbs and
\* failure, with the targets file changing too: its initial states are the
\* lifecycle's, and in every step rollouts for digests that moved on close, and
\* at most one moves along an edge or opens in a group that has none.
THEOREM LifecycleImplemented == Spec => ImplementsLifecycle
<1>1. Init => FInv /\ TheLifecycle!LifecycleInit
  <2>1. ASSUME Init PROVE TheLifecycle!LifecycleInit
    <3>1. \A r \in RolloutIds : rollouts[r].state = "None" /\ rollouts[r].group \in Groups
      BY <2>1, NoRolloutType DEF Init, NoRollout, Rollout
    <3>. QED BY <3>1 DEF TheLifecycle!LifecycleInit
  <2>. QED BY <2>1, FInvInit
<1>2. FInv /\ [Next]_vars => FInv'
  BY FInvStep
<1>3. FInv /\ [Next]_vars =>
        [TheLifecycle!LifecycleNext]_<<[r \in RolloutIds |-> rollouts[r].state],
                                       [r \in RolloutIds |-> rollouts[r].group]>>
  BY NextStepped, SteppedLifecycle DEF FInv
<1>. QED BY <1>1, <1>2, <1>3, PTL DEF Spec, ImplementsLifecycle, TheLifecycle!LifecycleSpec

\* Whatever implements the lifecycle has one active rollout per group: the
\* abstraction says enough.
THEOREM LifecycleSuffices == ImplementsLifecycle => []OneActivePerGroup
<1> DEFINE st == [r \in RolloutIds |-> rollouts[r].state]
           gr == [r \in RolloutIds |-> rollouts[r].group]
<1>1. TheLifecycle!LifecycleInit => OneActivePerGroup
  <2> SUFFICES ASSUME TheLifecycle!LifecycleInit PROVE ActiveIds = {}
    BY DEF OneActivePerGroup
  <2>1. st = [r \in RolloutIds |-> "None"]
    BY DEF TheLifecycle!LifecycleInit
  <2>2. \A r \in RolloutIds : rollouts[r].state = "None"
    BY <2>1
  <2>. QED BY <2>2 DEF ActiveIds, Active, ActiveStates
<1>2. OneActivePerGroup /\ [TheLifecycle!LifecycleNext]_<<[r \in RolloutIds |-> rollouts[r].state],
                                                         [r \in RolloutIds |-> rollouts[r].group]>>
        => OneActivePerGroup'
  <2> SUFFICES ASSUME OneActivePerGroup, TheLifecycle!LifecycleNext \/ UNCHANGED <<st, gr>>
               PROVE  OneActivePerGroup'
    OBVIOUS
  <2> DEFINE Mid(closing) == TheLifecycle!Closed(closing)
  <2>1. OneActivePerGroup <=> \A q, r \in TheLifecycle!Live(st) : gr[q] = gr[r] => q = r
    BY LifecycleWords DEF OneActivePerGroup, ActiveIds, Active
  <2>2. OneActivePerGroup' <=> \A q, r \in TheLifecycle!Live(st') : gr'[q] = gr'[r] => q = r
    BY LifecycleWords DEF OneActivePerGroup, ActiveIds, Active
  <2>3. CASE UNCHANGED <<st, gr>>
    BY <2>1, <2>2, <2>3
  <2>4. ASSUME NEW closing,
               \/ TheLifecycle!Close(closing)
               \/ \E r \in RolloutIds, s \in TheLifecycle!States : TheLifecycle!Move(closing, r, s)
               \/ \E r \in RolloutIds, g \in Groups, s \in {"Running", "WaitingForSync"} :
                    TheLifecycle!Open(closing, r, g, s)
        PROVE  OneActivePerGroup'
    <3>1. TheLifecycle!Live(Mid(closing)) \subseteq TheLifecycle!Live(st)
      BY LifecycleWords DEF ActiveStates, TheLifecycle!Closed
    <3>2. CASE TheLifecycle!Close(closing)
      <4>1. st' = Mid(closing) /\ gr' = gr
        BY <3>2 DEF TheLifecycle!Close
      <4>. QED BY <2>1, <2>2, <3>1, <4>1
    <3>3. ASSUME NEW r, NEW s, TheLifecycle!Move(closing, r, s)
          PROVE  OneActivePerGroup'
      <4>1. /\ r \in TheLifecycle!Live(Mid(closing))
            /\ st' = [Mid(closing) EXCEPT ![r] = s] /\ gr' = gr
        BY <3>3 DEF TheLifecycle!Move
      <4>2. TheLifecycle!Live(st') \subseteq TheLifecycle!Live(Mid(closing))
        BY <4>1, LifecycleWords DEF TheLifecycle!Closed
      <4>. QED BY <2>1, <2>2, <3>1, <4>1, <4>2
    <3>4. ASSUME NEW r \in RolloutIds, NEW g \in Groups, NEW s, TheLifecycle!Open(closing, r, g, s)
          PROVE  OneActivePerGroup'
      <4>0. /\ \A q \in TheLifecycle!Live(Mid(closing)) : gr[q] # g
            /\ st' = [Mid(closing) EXCEPT ![r] = s] /\ gr' = [gr EXCEPT ![r] = g]
        BY <3>4 DEF TheLifecycle!Open
      <4>1. TheLifecycle!Live(st') \subseteq TheLifecycle!Live(Mid(closing)) \cup {r}
        BY <4>0, LifecycleWords DEF TheLifecycle!Closed
      <4>2. \A q \in TheLifecycle!Live(st') : gr'[q] = IF q = r THEN g ELSE gr[q]
        BY <4>0, LifecycleWords
      <4>3. \A p, q \in TheLifecycle!Live(Mid(closing)) : gr[p] = gr[q] => p = q
        BY <2>1, <3>1
      <4>4. \A q \in TheLifecycle!Live(Mid(closing)) : gr[q] # g
        BY <4>0
      <4>5. ASSUME NEW p \in TheLifecycle!Live(st'), NEW q \in TheLifecycle!Live(st'), gr'[p] = gr'[q]
            PROVE  p = q
        <5> HIDE DEF gr, st, Mid
        <5>1. CASE p = r
          BY <4>1, <4>2, <4>4, <4>5, <5>1
        <5>2. CASE q = r
          BY <4>1, <4>2, <4>4, <4>5, <5>2
        <5>3. CASE p # r /\ q # r
          BY <4>1, <4>2, <4>3, <4>5, <5>3
        <5>. QED BY <5>1, <5>2, <5>3
      <4>. QED BY <2>2, <4>5
    <3>. QED BY <2>4, <3>2, <3>3, <3>4
  <2>5. CASE TheLifecycle!LifecycleNext
    BY <2>4, <2>5 DEF TheLifecycle!LifecycleNext
  <2>. QED BY <2>3, <2>5
<1>. QED BY <1>1, <1>2, PTL DEF ImplementsLifecycle, TheLifecycle!LifecycleSpec

-----------------------------------------------------------------------------
\* Programs.

LEMMA ProgramsStep ==
  ASSUME FInv, OneProgramPerTarget, [Next]_vars
  PROVE  OneProgramPerTarget'
<1>0. TypeOK /\ JobsFit /\ Stepped /\ FInv'
  BY NextStepped, FInvStep DEF FInv
<1>1. CASE jobs' \subseteq jobs
  BY <1>1 DEF OneProgramPerTarget
<1>2. ASSUME NEW r \in planning, pc = "plan", pc' = "plan", planning' = planning \ {r},
             file' = file, Planned(r)
      PROVE  OneProgramPerTarget'
  <2>0. r \in RolloutIds /\ \A j \in jobs : j.rollout \in RolloutIds
    BY <1>0 DEF TypeOK, Job
  <2>1. PICK new, js : /\ rollouts' = [rollouts EXCEPT ![r] = new]
                       /\ jobs' = jobs \cup js /\ JobsOf(r, new, js)
                       /\ js # {} => new.state = "Running"
    BY <1>2 DEF Planned
  <2>2. rollouts'[r] = new /\ \A q \in RolloutIds \ {r} : rollouts'[q] = rollouts[q]
    BY <1>0, <2>0, <2>1 DEF TypeOK
  <2>3. \A j, k \in js : j.target = k.target => j = k
    BY <2>1 DEF JobsOf
  <2>4. ASSUME NEW j \in jobs, NEW k \in js PROVE j.target # k.target
    <3>1. /\ j.rollout \in RolloutIds \ {r} /\ j.rollout \in ActiveIds'
          /\ file[j.target].group = rollouts'[j.rollout].group
      BY <1>0, <1>2, <2>0, <2>2 DEF JobsFit, ActiveIds, Active
    <3>2. r \in ActiveIds' /\ file[k.target].group = rollouts'[r].group
      BY <2>0, <2>1, <2>2 DEF JobsOf, ActiveIds, Active, ActiveStates
    <3>3. OneActivePerGroup'
      BY <1>0 DEF FInv, OneInv
    <3>. QED BY <3>1, <3>2, <3>3 DEF OneActivePerGroup
  <2>. QED BY <2>1, <2>3, <2>4 DEF OneProgramPerTarget
<1>. QED BY <1>0, <1>1, <1>2 DEF Stepped

\* For every fleet, choice of verbs and failure, with targets leaving, moving
\* between groups and nodes and being suspended: two programs never run for one
\* target in the same tick.
THEOREM OneProgramEach == Spec => []OneProgramPerTarget
<1>1. Init => FInv /\ OneProgramPerTarget
  BY FInvInit DEF Init, OneProgramPerTarget
<1>2. FInv /\ OneProgramPerTarget /\ [Next]_vars => FInv' /\ OneProgramPerTarget'
  BY FInvStep, ProgramsStep
<1>. QED BY <1>1, <1>2, PTL DEF Spec

-----------------------------------------------------------------------------
\* What updates deploy.

\* From supersede to the end of the plan, what an active rollout is for is what
\* its group wants: nobody else has the lock.
Agreed == pc \in {"open", "plan"} => \A r \in ActiveIds : ~Moved(rollouts[r])

\* Every image in the file was resolved once.
Resolved == \A i \in ImagesOf(file) : desired[i] # NoDigest

UInv == FInv /\ Agreed /\ Resolved /\ UpdatesForDesired

\* Whether a rollout's digests moved on depends on its group and digests.
LEMMA MovedSame ==
  ASSUME NEW r, rollouts'[r].group = rollouts[r].group, rollouts'[r].want = rollouts[r].want,
         file' = file, desired' = desired, policy' = policy
  PROVE  Moved(rollouts[r])' = Moved(rollouts[r])
  BY DEF Moved, Want

LEMMA AgreedKept ==
  ASSUME Agreed, pc \in {"open", "plan"}, file' = file, desired' = desired, policy' = policy,
         \A r \in RolloutIds : /\ Active(rollouts'[r]) => Active(rollouts[r])
                               /\ rollouts'[r].group = rollouts[r].group
                               /\ rollouts'[r].want = rollouts[r].want
  PROVE  Agreed'
  BY MovedSame DEF Agreed, ActiveIds, Active

\* A rollout is opened for what its group wants.
LEMMA OpenGroupAgreed ==
  ASSUME TypeOK, Agreed, NEW g \in opening, OpenGroup(g)
  PROVE  Agreed'
<1>1. /\ pc = "open" /\ file' = file /\ desired' = desired /\ policy' = policy
      /\ g \in Groups /\ rollouts \in [RolloutIds -> Rollout]
  BY DEF OpenGroup, fileVars, peopleVars, TypeOK
<1>2. CASE rollouts' = rollouts
  BY <1>1, <1>2, AgreedKept
<1>3. ASSUME NEW r \in FreshIds, NEW m \in {"WaitingForSync", "Running"},
             rollouts' = [rollouts EXCEPT ![r] =
               [RolloutFor(g, policy[g].strategy, file) EXCEPT !.state = m]]
      PROVE  Agreed'
  <2> DEFINE ro == RolloutFor(g, policy[g].strategy, file)
             new == [ro EXCEPT !.state = m]
             want == [i \in Images |-> IF \E t \in OutOfSync(g, file) : file[t].image = i
                                       THEN Want(g, i) ELSE NoDigest]
  <2>1. policy[g].strategy \in DOMAIN StrategyOf
    BY <1>1 DEF TypeOK, Policy
  <2>2. ro \in Rollout /\ ro.group = g
    BY <1>1, <2>1, RolloutForType DEF TypeOK
  <2>3. ro.want = want
    <3> HIDE DEF want
    <3>. QED BY NoRolloutType DEF RolloutFor, NewRollout, Rollout, want
  <2>v. rollouts' = [rollouts EXCEPT ![r] = new]
    BY <1>3
  <2>4. new.group = g /\ new.want = want
    <3> HIDE DEF ro, want
    <3>. QED BY <2>2, <2>3 DEF Rollout
  <2> HIDE DEF new, ro
  <2>5. rollouts'[r] = new /\ \A q \in RolloutIds \ {r} : rollouts'[q] = rollouts[q]
    BY <1>1, <2>v DEF FreshIds
  <2>6. \A t \in DOMAIN file : file[t].image \in Images
    BY FilesAssumption DEF TypeOK, Entry
  <2>7. ~Moved(rollouts[r])'
    <3>1. ~\E t \in DOMAIN file :
             /\ file[t].group = g
             /\ want[file[t].image] # NoDigest
             /\ Want(g, file[t].image) \notin {NoDigest, want[file[t].image]}
      BY <2>6
    <3> HIDE DEF want
    <3>. QED BY <1>1, <2>4, <2>5, <3>1 DEF Moved, Want
  <2>8. \A q \in ActiveIds' : ~Moved(rollouts[q])'
    <3> SUFFICES ASSUME NEW q \in ActiveIds', q # r PROVE ~Moved(rollouts[q])'
      BY <2>7
    <3>1. q \in RolloutIds /\ rollouts'[q] = rollouts[q]
      BY <2>5 DEF ActiveIds
    <3>2. ~Moved(rollouts[q])
      BY <1>1, <3>1 DEF Agreed, ActiveIds, Active
    <3>. QED BY <1>1, <3>1, <3>2, MovedSame
  <2>. QED BY <2>8 DEF Agreed
<1>4. \/ rollouts' = rollouts
      \/ \E r \in FreshIds, m \in {"WaitingForSync", "Running"} :
           rollouts' = [rollouts EXCEPT ![r] =
             [RolloutFor(g, policy[g].strategy, file) EXCEPT !.state = m]]
  BY DEF OpenGroup
<1>. QED BY <1>2, <1>3, <1>4

\* Supersede leaves no active rollout whose digests moved on.
LEMMA TickStartAgreed ==
  ASSUME TypeOK, TickStart
  PROVE  Agreed'
<1> SUFFICES ASSUME NEW r \in ActiveIds' PROVE ~Moved(rollouts[r])'
  BY DEF Agreed
<1>1. /\ r \in RolloutIds /\ Active(rollouts'[r]) /\ rollouts' = Superseded(rollouts)
      /\ file' = file /\ desired' = desired /\ policy' = policy
  BY DEF ActiveIds, Active, TickStart, fileVars
<1>2. CASE Active(rollouts[r]) /\ Moved(rollouts[r])
  <2>1. rollouts'[r] = Ended(rollouts[r], "Superseded")
    BY <1>1, <1>2 DEF Superseded
  <2>2. rollouts'[r].state = "Superseded"
    BY <2>1 DEF Ended, Rollout, TypeOK
  <2>. QED BY <1>1, <2>2 DEF Active, ActiveStates
<1>3. CASE ~(Active(rollouts[r]) /\ Moved(rollouts[r]))
  <2>1. rollouts'[r] = rollouts[r]
    BY <1>1, <1>3 DEF Superseded
  <2>. QED BY <1>1, <1>3, <2>1, MovedSame
<1>. QED BY <1>2, <1>3

LEMMA AgreedStep ==
  ASSUME FInv, Agreed, "reload" \notin Verbs, [Next]_vars
  PROVE  Agreed'
<1>0. TypeOK /\ \A r \in RolloutIds : Fine(rollouts[r])
  BY DEF FInv
<1>1. ASSUME pc' = pc, rollouts' = rollouts, file' = file, desired' = desired, policy' = policy
      PROVE  Agreed'
  BY <1>1, AgreedKept DEF Agreed
<1>2. ASSUME pc' \notin {"open", "plan"} PROVE Agreed'
  BY <1>2 DEF Agreed
<1>3. CASE UNCHANGED vars
  BY <1>1, <1>3 DEF vars
<1>4. CASE TickStep
  <2>1. ASSUME NEW r \in planning, PlanStep(r) PROVE Agreed'
    <3>1. /\ pc = "plan" /\ file' = file /\ desired' = desired /\ policy' = policy /\ r \in RolloutIds
      BY <1>0, <2>1, PlanKeeps DEF TypeOK
    <3>2. \A q \in RolloutIds : Went(q)
      BY <1>0, <2>1, <3>1, PlanStepPlans, PlannedWent
    <3>. QED BY <3>1, <3>2, AgreedKept DEF Went, Kin, Active
  <2>2. CASE OpenDone
    BY <2>2, AgreedKept DEF OpenDone, fileVars, peopleVars
  <2>3. CASE PlanDone \/ ExecDone \/ TickDone \/ ApplyStep
    BY <1>2, <2>3, ApplyKeeps DEF PlanDone, ExecDone, TickDone
  <2>. QED BY <1>0, <1>4, <2>1, <2>2, <2>3, TickStartAgreed, OpenGroupAgreed DEF TickStep
<1>5. CASE WorldStep
  <2>1. CASE Resolve \/ CheckEnvironment \/ Forget \/ \E t \in Targets : InspectAll(t)
    BY <1>2, <2>1 DEF Resolve, CheckEnvironment, Forget, InspectAll, tickVars, Unlocked
  <2>2. ASSUME NEW t, Land(t) \/ Fizzle(t) PROVE Agreed'
    BY <1>1, <2>2 DEF Land, Fizzle, fileVars, peopleVars, tickVars
  <2>3. ASSUME NEW r \in RolloutIds, NEW t \in Targets, HoldLapse(r, t) PROVE Agreed'
    <3>1. pc' = pc /\ file' = file /\ desired' = desired /\ policy' = policy
      BY <2>3 DEF HoldLapse, fileVars, peopleVars, tickVars
    <3>2. \A q \in RolloutIds : /\ Active(rollouts'[q]) => Active(rollouts[q])
                                /\ rollouts'[q].group = rollouts[q].group
                                /\ rollouts'[q].want = rollouts[q].want
      BY <1>0, <2>3, HoldLapseSame DEF Active
    <3>3. CASE pc \in {"open", "plan"}
      BY <3>1, <3>2, <3>3, AgreedKept
    <3>. QED BY <1>2, <3>1, <3>3
  <2>4. ~\E f \in Files : Reload(f)
    BY DEF Reload
  <2>. QED BY <1>5, <2>1, <2>2, <2>3, <2>4 DEF WorldStep
<1>6. CASE PeopleStep
  BY <1>2, <1>6, PeopleWait DEF Unlocked
<1>. QED BY <1>3, <1>4, <1>5, <1>6 DEF Next

\* Without reloads the file stays, and what was resolved stays resolved.
LEMMA ResolvedStep ==
  ASSUME TypeOK, Resolved, "reload" \notin Verbs, [Next]_vars
  PROVE  file' = file /\ Resolved'
<1>1. \/ file' = file /\ desired' = desired
      \/ Resolve
  <2>1. CASE TickStep
    <3>1. TickStart \/ OpenDone \/ PlanDone \/ ExecDone \/ TickDone => file' = file /\ desired' = desired
      BY DEF TickStart, OpenDone, PlanDone, ExecDone, TickDone, fileVars
    <3>2. ASSUME NEW g, OpenGroup(g) PROVE file' = file /\ desired' = desired
      BY <3>2 DEF OpenGroup, fileVars
    <3>. QED BY <2>1, <3>1, <3>2, PlanKeeps, ApplyKeeps DEF TickStep
  <2>2. CASE WorldStep
    <3>1. CheckEnvironment \/ Forget => file' = file /\ desired' = desired
      BY DEF CheckEnvironment, Forget, fileVars
    <3>2. ASSUME NEW t, InspectAll(t) \/ Land(t) \/ Fizzle(t) PROVE file' = file /\ desired' = desired
      BY <3>2 DEF InspectAll, Land, Fizzle, fileVars
    <3>3. ASSUME NEW r, NEW t, HoldLapse(r, t) PROVE file' = file /\ desired' = desired
      BY <3>3 DEF HoldLapse, fileVars
    <3>4. ASSUME NEW f, Reload(f) PROVE FALSE
      BY <3>4 DEF Reload
    <3>. QED BY <2>2, <3>1, <3>2, <3>3, <3>4 DEF WorldStep
  <2>3. CASE PeopleStep
    BY <2>3, PeopleWait
  <2>4. CASE UNCHANGED vars
    BY <2>4 DEF vars
  <2>. QED BY <2>1, <2>2, <2>3, <2>4 DEF Next
<1>2. CASE file' = file /\ desired' = desired
  BY <1>2 DEF Resolved, ImagesOf
<1>3. CASE Resolve
  <2>1. file' = file
    BY <1>3 DEF Resolve, fileVars
  <2>2. ImagesOf(file) \subseteq Images
    BY FilesAssumption DEF TypeOK, Entry, ImagesOf
  <2>3. \A i \in ImagesOf(file) : desired'[i] = desired[i] \/ desired'[i] \in Digests
    BY <1>3, <2>2 DEF Resolve
  <2>. QED BY <2>1, <2>3, NamesAssumption DEF Resolved, ImagesOf
<1>. QED BY <1>1, <1>2, <1>3

LEMMA UpdatesStep ==
  ASSUME UInv, "reload" \notin Verbs, [Next]_vars
  PROVE  UpdatesForDesired'
<1>0. /\ TypeOK /\ JobsFit /\ Stepped /\ Resolved /\ Agreed /\ UpdatesForDesired
      /\ \A q \in RolloutIds : Fine(rollouts[q])
      /\ file' = file
  BY NextStepped, ResolvedStep DEF FInv, UInv
<1>1. \A j \in jobs : j.rollout \in RolloutIds /\ j.target \in Targets
  BY <1>0 DEF TypeOK, Job
<1>2. \A j \in jobs : rollouts'[j.rollout].want = rollouts[j.rollout].want
  BY <1>0, <1>1, SteppedEach DEF JobsFit, Came, Went
<1>3. CASE jobs' \subseteq jobs
  BY <1>0, <1>2, <1>3 DEF UpdatesForDesired
<1>4. ASSUME NEW r \in planning, pc = "plan", Planned(r) PROVE UpdatesForDesired'
  <2>0. r \in RolloutIds
    BY <1>0 DEF TypeOK
  <2>1. PICK new, js : /\ rollouts' = [rollouts EXCEPT ![r] = new]
                       /\ jobs' = jobs \cup js /\ JobsOf(r, new, js)
                       /\ js # {} => new.state = "Running"
    BY <1>4 DEF Planned
  <2>2. rollouts'[r] = new /\ Went(r)
    BY <1>0, <1>4, <2>0, <2>1, PlannedWent DEF TypeOK
  <2>3. ASSUME NEW j \in js PROVE j.digest = rollouts'[j.rollout].want[file[j.target].image]
    <3> DEFINE old == rollouts[r]
               i == file[j.target].image
    <3>1. /\ j.rollout = r /\ j.target \in DOMAIN file /\ file[j.target].group = new.group
          /\ new.want[i] # NoDigest /\ j.digest = Want(new.group, i)
      BY <2>1 DEF JobsOf
    <3>2. Active(old) /\ new.want = old.want /\ new.group = old.group
      BY <2>1, <2>2 DEF Went, Kin, Active, ActiveStates
    <3>3. Want(old.group, i) \in {NoDigest, old.want[i]}
      BY <1>0, <1>4, <2>0, <3>1, <3>2 DEF Agreed, ActiveIds, Moved
    <3>4. Want(old.group, i) # NoDigest
      BY <1>0, <3>1 DEF Want, Resolved, ImagesOf
    <3>. QED BY <2>2, <3>1, <3>2, <3>3, <3>4
  <2>. QED BY <1>0, <1>2, <2>1, <2>3 DEF UpdatesForDesired
<1>. QED BY <1>0, <1>3, <1>4 DEF Stepped

LEMMA UInvInit ==
  ASSUME Init
  PROVE  UInv
<1>1. FInv /\ TypeOK
  BY FInvInit, InitType
<1>2. pc = "idle" /\ jobs = {} /\ file \in Files
      /\ desired = [i \in Images |-> IF i \in ImagesOf(file) THEN FirstDigest ELSE NoDigest]
  BY FilesAssumption DEF Init
<1>3. FirstDigest \in Digests
  <2>1. \E d \in Digests : \A e \in Digests : d <= e
    BY NamesAssumption, LeastNat
  <2>. QED BY <2>1 DEF FirstDigest
<1>4. ImagesOf(file) \subseteq Images
  BY <1>2, FilesAssumption DEF Entry, ImagesOf
<1>5. Resolved
  BY <1>2, <1>3, <1>4, NamesAssumption DEF Resolved
<1>. QED BY <1>1, <1>2, <1>5 DEF UInv, Agreed, UpdatesForDesired

LEMMA UInvStep ==
  ASSUME UInv, "reload" \notin Verbs, [Next]_vars
  PROVE  UInv'
  BY FInvStep, AgreedStep, ResolvedStep, UpdatesStep DEF UInv, FInv

\* While the targets file stays, an update program is told to deploy the digest
\* its rollout is for, however tags, pins and policies moved since the rollout
\* opened, for every fleet, choice of verbs and failure.
THEOREM UpdatesDeployDesired ==
  ASSUME "reload" \notin Verbs
  PROVE  Spec => []UpdatesForDesired
<1>1. Init => UInv
  BY UInvInit
<1>2. UInv /\ [Next]_vars => UInv'
  BY UInvStep
<1>3. UInv => UpdatesForDesired
  BY DEF UInv
<1>. QED BY <1>1, <1>2, <1>3, PTL DEF Spec

====
