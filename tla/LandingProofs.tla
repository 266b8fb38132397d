---- MODULE LandingProofs ----
(***************************************************************************)
(* Nothing lands behind the budget's back: a target that an update may     *)
(* still be changing is tracked by its rollout, held after its rollout's   *)
(* end, or in quarantine, while nothing is reloaded or suspended.          *)
(***************************************************************************)
EXTENDS RolloutProofs

-----------------------------------------------------------------------------
\* The invariant.

\* A rollout's targets are as they were when it opened.
AtHome(ro) ==
  \A t \in Targets : ro.tgt[t].phase # "none" =>
    /\ t \in DOMAIN file /\ file[t].group = ro.group
    /\ file[t].node = ro.tgt[t].node /\ ro.want[file[t].image] # NoDigest

\* What may land on a rollout's targets is what the rollout is for, and
\* nothing lands any more on what inspect has seen updated.
Lands(ro, l) ==
  Active(ro) =>
    \A t \in Targets :
      /\ ro.tgt[t].phase \in {"updating", "ready", "failed"}
           => l[t] \in {NoDigest, ro.want[file[t].image]}
      /\ ro.tgt[t].phase \in {"updating", "ready"} /\ ro.tgt[t].updated => l[t] = NoDigest

\* Every rollout is at home and lands what it is for, an id nobody has used
\* tracks nothing, and nothing lands that runs already.
Grounded ==
  /\ \A r \in RolloutIds : /\ AtHome(rollouts[r]) /\ Lands(rollouts[r], landing)
                           /\ rollouts[r].state = "None" => Tracked(rollouts[r]) = {}
  /\ \A t \in Targets : landing[t] # running[t]

\* Nothing was suspended and nothing has left the file.
Still == suspensions = {} /\ gone = {}

LInv == UInv /\ Still /\ Grounded /\ LandingAccounted

-----------------------------------------------------------------------------
\* One rollout.

\* Whether what may land is right depends on what is under way.
LEMMA LandsSame ==
  ASSUME NEW ro, NEW new, NEW l, Active(ro), Lands(ro, l), new.want = ro.want,
         \A t \in Targets :
           /\ new.tgt[t].phase \in {"updating", "ready", "failed"}
                => ro.tgt[t].phase \in {"updating", "ready", "failed"}
           /\ new.tgt[t].phase \in {"updating", "ready"} /\ new.tgt[t].updated
                => ro.tgt[t].phase \in {"updating", "ready"} /\ ro.tgt[t].updated
  PROVE  Lands(new, l)
  BY DEF Lands

\* Where a rollout's targets are does not change.
LEMMA HomeSame ==
  ASSUME NEW ro, NEW new, AtHome(ro), new.want = ro.want, new.group = ro.group, Same(ro, new)
  PROVE  AtHome(new)
  BY DEF AtHome, Same

\* A target at home is lost only by a suspension.
LEMMA NoneLost ==
  ASSUME NEW ro, AtHome(ro), Still
  PROVE  Lost(ro) = {}
  BY DEF AtHome, Still, Lost, TargetsIn, Suspended, SuspendedIn

LEMMA WithoutNone ==
  ASSUME NEW ro \in Rollout, NEW phases
  PROVE  WithoutLost(ro, {}, phases) = ro
<1>1. [t \in Targets |-> IF t \in {} \cap InBatch(ro) /\ ro.tgt[t].phase \in phases
                         THEN [ro.tgt[t] EXCEPT !.phase = "skipped"]
                         ELSE ro.tgt[t]] = ro.tgt
  BY DEF Rollout
<1>2. [ro EXCEPT !.tgt = ro.tgt] = ro
  BY DEF Rollout
<1>. QED BY <1>1, <1>2 DEF WithoutLost

\* What an active rollout tracks is under way.
LEMMA TrackedMoving ==
  ASSUME NEW ro \in Rollout, Active(ro), Shape(ro), NEW t \in Tracked(ro),
         \A u \in InBatch(ro) : ro.tgt[u].phase # "pending"
  PROVE  t \in Targets /\ t \in InBatch(ro) /\ ro.open /\ ro.tgt[t].phase \in {"updating", "ready"}
  BY DEF Tracked, Shape, InBatch, TargetsIn

\* The end holds what may still land.
LEMMA EndedHolds ==
  ASSUME NEW ro \in Rollout, Active(ro), Fine(ro), NEW l, Lands(ro, l), NEW s \in EndedStates,
         NEW t \in Tracked(ro), l[t] # NoDigest
  PROVE  t \in Targets /\ Ended(ro, s).tgt[t].hold
<1>1. ro.open
  BY DEF Tracked
<1>2. t \in Targets /\ ro.tgt[t].phase \in {"updating", "ready"} /\ ro.tgt[t] \in RolloutTarget
  BY <1>1, TrackedMoving, TgtType DEF Fine
<1>3. ro.tgt[t].phase = "updating" /\ ~ro.tgt[t].updated
  BY <1>2 DEF Lands, Fine, Traced
<1>4. Ended(ro, s).tgt[t] = [ro.tgt[t] EXCEPT !.hold = TRUE, !.phase = "skipped"]
  BY <1>2, <1>3 DEF Ended, Rollout, RolloutTarget
<1>. QED BY <1>2, <1>4 DEF RolloutTarget

\* A batch that passes has nothing to land.
LEMMA PassedLands ==
  ASSUME NEW ro \in Rollout, Active(ro), Shape(ro), Traced(ro), NEW l, Lands(ro, l),
         InBatch(ro) \subseteq TargetsIn(ro, {"ready", "skipped"})
  PROVE  /\ Lands(Passed(ro), l)
         /\ \A t \in Tracked(ro) \cup PassedBy(ro) : l[t] = NoDigest
<1>1. \A t \in Tracked(ro) \cup PassedBy(ro) : t \in Targets /\ ro.tgt[t].phase = "ready"
  BY DEF Tracked, PassedBy, InBatch, TargetsIn
<1>2. \A t \in Tracked(ro) \cup PassedBy(ro) : l[t] = NoDigest
  BY <1>1 DEF Lands, Traced
<1>3. \A t \in Targets :
        /\ Passed(ro).tgt[t].phase = IF t \in InBatch(ro) /\ ro.tgt[t].phase = "ready"
                                     THEN "passed" ELSE ro.tgt[t].phase
        /\ Passed(ro).tgt[t].updated = ro.tgt[t].updated
  BY PassedFixed, PassedCalm
<1>4. Passed(ro).want = ro.want
  BY PassedCalm DEF Calm
<1>5. Lands(Passed(ro), l)
  BY <1>3, <1>4, LandsSame
<1>. QED BY <1>2, <1>5

\* What halts is quarantined, all that may land with it.
LEMMA HaltedLands ==
  ASSUME NEW ro \in Rollout, Active(ro), Shape(ro), ro.open, NEW l, Lands(ro, l),
         \A u \in InBatch(ro) : ro.tgt[u].phase # "pending"
  PROVE  /\ Lands(Halted(ro), l)
         /\ Tracked(ro) \subseteq HeldBy(ro)
<1>1. Tracked(ro) \subseteq HeldBy(ro)
  <2>1. ASSUME NEW t \in Tracked(ro) PROVE t \in HeldBy(ro)
    <3>1. t \in InBatch(ro) /\ ro.tgt[t].phase \in {"updating", "ready"}
      BY TrackedMoving
    <3>. QED BY <3>1 DEF HeldBy
  <2>. QED BY <2>1
<1>2. \A t \in Targets :
        /\ Halted(ro).tgt[t].phase = IF t \in HeldBy(ro) THEN "failed" ELSE ro.tgt[t].phase
        /\ Halted(ro).tgt[t].updated = ro.tgt[t].updated
  BY HaltedFixed, HaltedCalm
<1>3. \A t \in HeldBy(ro) : ro.tgt[t].phase \in {"updating", "ready"}
  BY DEF HeldBy, Shape, TargetsIn
<1>4. Halted(ro).want = ro.want
  BY HaltedCalm DEF Calm
<1>5. Lands(Halted(ro), l)
  BY <1>2, <1>3, <1>4, LandsSame
<1>. QED BY <1>1, <1>5

\* Updates begin: what may land on them is the new digest.
LEMMA AdvancedLands ==
  ASSUME NEW ro \in Rollout, Active(ro), Traced(ro), NEW l, Lands(ro, l), NEW m,
         \A t \in Targets :
           IF t \in InBatch(ro) /\ ro.tgt[t].phase = "pending"
           THEN m[t] \in {NoDigest, ro.want[file[t].image]}
           ELSE m[t] = l[t]
  PROVE  /\ Lands(Advanced(ro), m)
         /\ Tracked(Advanced(ro)) = Tracked(ro)
<1> DEFINE new == Advanced(ro)
<1>1. /\ new.state = ro.state /\ new.open = ro.open
      /\ \A t \in Targets : new.tgt[t].phase =
           IF t \notin InBatch(ro) THEN ro.tgt[t].phase
           ELSE IF ro.tgt[t].phase = "pending" THEN "updating"
           ELSE IF ro.tgt[t].phase = "updating" /\ ro.tgt[t].updated /\ ro.force THEN "ready"
           ELSE ro.tgt[t].phase
  BY AdvancedFixed
<1>2. /\ Calm(ro, new)
      /\ \A t \in Targets : new.tgt[t].updated = ro.tgt[t].updated
  BY AdvancedCalm
<1>3. InBatch(new) = InBatch(ro) /\ new.want = ro.want
  BY <1>2, CalmBatch DEF Calm
<1> HIDE DEF new
<1>4. Lands(new, m)
  <2> SUFFICES ASSUME NEW t \in Targets
               PROVE  /\ new.tgt[t].phase \in {"updating", "ready", "failed"}
                           => m[t] \in {NoDigest, new.want[file[t].image]}
                      /\ new.tgt[t].phase \in {"updating", "ready"} /\ new.tgt[t].updated
                           => m[t] = NoDigest
    BY DEF Lands
  <2>1. CASE t \in InBatch(ro) /\ ro.tgt[t].phase = "pending"
    BY <1>1, <1>2, <1>3, <2>1 DEF Traced
  <2>2. CASE ~(t \in InBatch(ro) /\ ro.tgt[t].phase = "pending")
    <3>1. m[t] = l[t]
      BY <2>2
    <3>2. new.tgt[t].phase \in {"updating", "ready", "failed"}
            => ro.tgt[t].phase \in {"updating", "ready", "failed"}
      BY <1>1, <2>2
    <3>3. new.tgt[t].phase \in {"updating", "ready"} => ro.tgt[t].phase \in {"updating", "ready"}
      BY <1>1, <2>2
    <3>. QED BY <1>2, <1>3, <3>1, <3>2, <3>3 DEF Lands
  <2>. QED BY <2>1, <2>2
<1>5. Tracked(new) = Tracked(ro)
  <2>1. Active(new)
    BY <1>1 DEF Active
  <2>2. \A t \in InBatch(ro) : new.tgt[t].phase = "skipped" <=> ro.tgt[t].phase = "skipped"
    BY <1>1 DEF InBatch
  <2>. QED BY <1>1, <1>3, <2>1, <2>2 DEF Tracked
<1>. QED BY <1>4, <1>5 DEF new

-----------------------------------------------------------------------------
\* Steps that leave what is landing alone.

\* ro may become new while nothing begins to land.
Minds(ro, new) ==
  /\ AtHome(new) /\ Lands(new, landing)
  /\ new.state = "None" => Tracked(new) = {}
  /\ \A t \in Tracked(ro) : landing[t] # NoDigest => t \in Tracked(new)

LEMMA MindsSelf ==
  ASSUME NEW ro, AtHome(ro), Lands(ro, landing), ro.state = "None" => Tracked(ro) = {}
  PROVE  Minds(ro, ro)
  BY DEF Minds

LEMMA MindsKept ==
  ASSUME Grounded, LandingAccounted, file' = file, landing' = landing, running' = running,
         degraded \subseteq degraded',
         \A r \in RolloutIds : Minds(rollouts[r], rollouts'[r])
  PROVE  Grounded' /\ LandingAccounted'
<1>1. \A r \in RolloutIds : /\ AtHome(rollouts'[r]) /\ Lands(rollouts'[r], landing)
                            /\ rollouts'[r].state = "None" => Tracked(rollouts'[r]) = {}
  BY DEF Minds
<1>2. Grounded'
  BY <1>1 DEF Grounded, AtHome, Lands
<1>3. LandingAccounted'
  <2> SUFFICES ASSUME NEW t \in Targets, landing'[t] # NoDigest
               PROVE  t \in degraded' \/ \E r \in RolloutIds : t \in Tracked(rollouts'[r])
    BY DEF LandingAccounted
  <2>1. t \in degraded \/ \E r \in RolloutIds : t \in Tracked(rollouts[r])
    BY DEF LandingAccounted
  <2>. QED BY <2>1 DEF Minds
<1>. QED BY <1>2, <1>3

LEMMA EndedMinds ==
  ASSUME NEW ro \in Rollout, Active(ro), Fine(ro), AtHome(ro), Lands(ro, landing), NEW s \in EndedStates,
         NEW new, new = Ended(ro, s) \/ new = [Ended(ro, s) EXCEPT !.open = FALSE]
  PROVE  Minds(ro, new)
<1>1. s \in States
  BY DEF States
<1>2. Kin(ro, Ended(ro, s)) /\ Ended(ro, s).state = s /\ Calm(ro, Ended(ro, s))
  BY <1>1, EndedType, EndedCalm
<1>3. new.tgt = Ended(ro, s).tgt /\ new.state = s /\ new.want = ro.want /\ new.group = ro.group
  BY <1>2 DEF Kin, Calm, Rollout
<1>4. ~Active(new) /\ new.state # "None"
  BY <1>3 DEF Active, ActiveStates, EndedStates
<1>5. Same(ro, new)
  BY <1>2, <1>3 DEF Calm, Same
<1>6. AtHome(new)
  BY <1>3, <1>5, HomeSame
<1>7. ASSUME NEW t \in Tracked(ro), landing[t] # NoDigest PROVE t \in Tracked(new)
  <2>1. t \in Targets /\ Ended(ro, s).tgt[t].hold
    BY <1>7, EndedHolds
  <2>. QED BY <1>3, <1>4, <2>1 DEF Tracked
<1>. QED BY <1>4, <1>6, <1>7 DEF Minds, Lands

\* A change of flags only.
LEMMA FlagsMind ==
  ASSUME NEW ro, NEW new, AtHome(ro), Lands(ro, landing), new.want = ro.want, new.group = ro.group,
         new.tgt = ro.tgt, new.nb = ro.nb, new.open = ro.open, Active(ro) <=> Active(new),
         new.state # "None"
  PROVE  Minds(ro, new)
<1>1. Same(ro, new)
  BY DEF Same
<1>2. AtHome(new)
  BY <1>1, HomeSame
<1>3. Lands(new, landing)
  <2>1. CASE Active(ro)
    BY <2>1, LandsSame
  <2>2. CASE ~Active(ro)
    BY <2>2 DEF Lands
  <2>. QED BY <2>1, <2>2
<1>4. Tracked(new) = Tracked(ro)
  BY DEF Tracked, InBatch
<1>. QED BY <1>2, <1>3, <1>4 DEF Minds

\* What a group opens is at home, and nothing of it is under way.
LEMMA OpenedMinds ==
  ASSUME TypeOK, NEW g \in Groups, NEW s \in DOMAIN StrategyOf, NEW old, Tracked(old) = {},
         NEW new, new.tgt = RolloutFor(g, s, file).tgt, new.want = RolloutFor(g, s, file).want,
         new.group = RolloutFor(g, s, file).group, new.state # "None"
  PROVE  Minds(old, new)
<1> DEFINE ts == OutOfSync(g, file)
<1>0. file \in Files
  BY DEF TypeOK
<1> DEFINE w(t) == IF StrategyOf[s].waves THEN file[t].wave ELSE 0
           d(t) == t \in degraded
           rt(t) == [NoTarget EXCEPT !.phase = "pending", !.node = file[t].node,
                                     !.wave = w(t), !.degBefore = d(t)]
<1>1. /\ new.tgt = [t \in Targets |-> IF t \in ts THEN rt(t) ELSE NoTarget]
      /\ new.want = [i \in Images |-> IF \E t \in ts : file[t].image = i THEN Want(g, i) ELSE NoDigest]
      /\ new.group = g
  <2>1. new.group = g
    BY <1>0, RolloutForType
  <2>2. new.tgt = [t \in Targets |-> IF t \in ts THEN rt(t) ELSE NoTarget]
    BY NoRolloutType DEF RolloutFor, NewRollout, Rollout
  <2>3. new.want = [i \in Images |-> IF \E t \in ts : file[t].image = i THEN Want(g, i) ELSE NoDigest]
    BY NoRolloutType DEF RolloutFor, NewRollout, Rollout
  <2>. QED BY <2>1, <2>2, <2>3
<1> HIDE DEF w, d
<1>r. ASSUME NEW t PROVE rt(t).phase = "pending" /\ rt(t).node = file[t].node
  BY NoTargetType DEF NoTarget, RolloutTarget
<1> HIDE DEF rt
<1>2. \A t \in Targets : /\ t \in ts => new.tgt[t].phase = "pending" /\ new.tgt[t].node = file[t].node
                         /\ t \notin ts => new.tgt[t].phase = "none"
  BY <1>1, <1>r DEF NoTarget
<1>3. AtHome(new)
  <2> SUFFICES ASSUME NEW t \in Targets, new.tgt[t].phase # "none"
               PROVE  /\ t \in DOMAIN file /\ file[t].group = new.group
                      /\ file[t].node = new.tgt[t].node /\ new.want[file[t].image] # NoDigest
    BY DEF AtHome
  <2>1. t \in ts
    BY <1>2
  <2>2. t \in DOMAIN file /\ file[t].group = g /\ Want(g, file[t].image) # NoDigest
    BY <2>1 DEF OutOfSync
  <2>3. file[t].image \in Images
    BY <2>2, FileType DEF Entry
  <2>. QED BY <1>1, <1>2, <2>1, <2>2, <2>3
<1>4. Lands(new, landing)
  BY <1>2 DEF Lands
<1>. QED BY <1>3, <1>4 DEF Minds

LEMMA SupersededMinds ==
  ASSUME TypeOK, NEW r \in RolloutIds, Fine(rollouts[r]), Grounded
  PROVE  Minds(rollouts[r], Superseded(rollouts)[r])
<1>1. rollouts[r] \in Rollout /\ AtHome(rollouts[r]) /\ Lands(rollouts[r], landing)
  BY DEF TypeOK, Grounded
<1>2. CASE Active(rollouts[r]) /\ Moved(rollouts[r])
  <2>1. Superseded(rollouts)[r] = Ended(rollouts[r], "Superseded")
    BY <1>2 DEF Superseded
  <2>2. "Superseded" \in EndedStates
    BY DEF EndedStates
  <2>. QED BY <1>1, <1>2, <2>1, <2>2, EndedMinds
<1>3. CASE ~(Active(rollouts[r]) /\ Moved(rollouts[r]))
  <2>1. Superseded(rollouts)[r] = rollouts[r]
    BY <1>3 DEF Superseded
  <2>. QED BY <1>1, <2>1, MindsSelf DEF Grounded
<1>. QED BY <1>2, <1>3

LEMMA MindsTrans ==
  ASSUME NEW a, NEW b, NEW c, Minds(a, b), Minds(b, c)
  PROVE  Minds(a, c)
  BY DEF Minds

LEMMA OneMinds ==
  ASSUME NEW rs \in [RolloutIds -> Rollout], \A q \in RolloutIds : Minds(rollouts[q], rs[q]),
         NEW r \in RolloutIds, NEW new, Minds(rs[r], new), rollouts' = [rs EXCEPT ![r] = new]
  PROVE  \A q \in RolloutIds : Minds(rollouts[q], rollouts'[q])
<1>1. rollouts'[r] = new /\ \A q \in RolloutIds \ {r} : rollouts'[q] = rs[q]
  OBVIOUS
<1>2. Minds(rollouts[r], new)
  BY MindsTrans
<1>. QED BY <1>1, <1>2

LEMMA AllMind ==
  ASSUME TypeOK, Grounded
  PROVE  \A q \in RolloutIds : Minds(rollouts[q], rollouts[q])
  BY MindsSelf DEF Grounded

LEMMA OpenGroupLands ==
  ASSUME TypeOK, Grounded, LandingAccounted, NEW g \in opening, OpenGroup(g)
  PROVE  Grounded' /\ LandingAccounted'
<1>1. file' = file /\ landing' = landing /\ running' = running /\ degraded' = degraded
  BY DEF OpenGroup, fileVars, worldVars
<1>2. \A q \in RolloutIds : Minds(rollouts[q], rollouts'[q])
  <2>1. CASE rollouts' = rollouts
    BY <2>1, AllMind
  <2>2. ASSUME NEW r \in FreshIds, NEW m \in {"WaitingForSync", "Running"},
               rollouts' = [rollouts EXCEPT ![r] =
                 [RolloutFor(g, policy[g].strategy, file) EXCEPT !.state = m]]
        PROVE  \A q \in RolloutIds : Minds(rollouts[q], rollouts'[q])
    <3> DEFINE s == policy[g].strategy
               new == [RolloutFor(g, s, file) EXCEPT !.state = m]
    <3>1. g \in Groups /\ s \in DOMAIN StrategyOf /\ file \in Files
      BY DEF TypeOK, Policy
    <3>2. RolloutFor(g, s, file) \in Rollout
      BY <3>1, RolloutForType
    <3>3. /\ new.tgt = RolloutFor(g, s, file).tgt /\ new.want = RolloutFor(g, s, file).want
          /\ new.group = RolloutFor(g, s, file).group /\ new.state # "None"
      BY <3>2 DEF Rollout
    <3>4. r \in RolloutIds /\ Tracked(rollouts[r]) = {}
      BY DEF FreshIds, Grounded
    <3>5. rollouts' = [rollouts EXCEPT ![r] = new]
      BY <2>2
    <3> HIDE DEF new, s
    <3>6. Minds(rollouts[r], new)
      BY <3>1, <3>3, <3>4, OpenedMinds
    <3>. QED BY <3>4, <3>5, <3>6, AllMind, OneMinds DEF TypeOK
  <2>3. \/ rollouts' = rollouts
        \/ \E r \in FreshIds, m \in {"WaitingForSync", "Running"} :
             rollouts' = [rollouts EXCEPT ![r] =
               [RolloutFor(g, policy[g].strategy, file) EXCEPT !.state = m]]
    BY DEF OpenGroup
  <2>. QED BY <2>1, <2>2, <2>3
<1>. QED BY <1>1, <1>2, MindsKept

LEMMA TickStartLands ==
  ASSUME TypeOK, \A r \in RolloutIds : Fine(rollouts[r]), Grounded, LandingAccounted, TickStart
  PROVE  Grounded' /\ LandingAccounted'
<1>1. /\ file' = file /\ landing' = landing /\ running' = running /\ degraded' = degraded
      /\ rollouts' = Superseded(rollouts)
  BY DEF TickStart, fileVars, worldVars
<1>. QED BY <1>1, SupersededMinds, MindsKept

LEMMA SyncLands ==
  ASSUME TypeOK, \A r \in RolloutIds : Fine(rollouts[r]), Grounded, LandingAccounted,
         NEW g \in Groups, NEW force \in BOOLEAN, NEW strategy \in DOMAIN StrategyOf,
         NEW f \in HeldFiles, Sync(g, force, strategy, f), "reload" \notin Verbs
  PROVE  Grounded' /\ LandingAccounted'
<1> DEFINE rs == Superseded(rollouts)
           found == {r \in RolloutIds : Active(rs[r]) /\ rs[r].group = g}
           Start(ro) == [ro EXCEPT !.human = TRUE, !.force = @ \/ force, !.strategy = strategy,
                           !.state = IF @ \in {"WaitingForSync", "WaitingForEnvironment"}
                                     THEN "Running" ELSE @]
<1>1. rs \in [RolloutIds -> Rollout]
  BY SupersededEvolves DEF TypeOK
<1>2. \A r \in RolloutIds : Minds(rollouts[r], rs[r])
  BY SupersededMinds
<1>3. ASSUME NEW ro \in Rollout
      PROVE  /\ Start(ro).tgt = ro.tgt /\ Start(ro).nb = ro.nb /\ Start(ro).open = ro.open
             /\ Start(ro).group = ro.group /\ Start(ro).want = ro.want
             /\ Start(ro).state = ro.state \/ Start(ro).state = "Running"
  BY DEF Rollout
<1>4. /\ \/ rollouts' = rs
         \/ \E r \in found : rollouts' = [rs EXCEPT ![r] = Start(rs[r])]
         \/ \E r \in FreshIds : rollouts' = [rs EXCEPT ![r] = Start(RolloutFor(g, strategy, f))]
      /\ degraded' = degraded /\ file' = file /\ landing' = landing /\ running' = running
  BY DEF Sync, fileVars, worldVars
<1>5. f = file /\ f \in Files
  BY DEF HeldFiles, TypeOK
<1> HIDE DEF rs, Start
<1>6. ASSUME NEW r \in found PROVE r \in RolloutIds /\ Minds(rs[r], Start(rs[r]))
  <2>1. r \in RolloutIds /\ Active(rs[r]) /\ rs[r] \in Rollout
    BY <1>1
  <2>2. AtHome(rs[r]) /\ Lands(rs[r], landing)
    BY <1>2, <2>1 DEF Minds
  <2>3. Active(Start(rs[r])) /\ Start(rs[r]).state # "None"
    BY <1>3, <2>1 DEF Active, ActiveStates
  <2>. QED BY <1>3, <2>1, <2>2, <2>3, FlagsMind
<1>7. ASSUME NEW r \in FreshIds
      PROVE  r \in RolloutIds /\ Minds(rs[r], Start(RolloutFor(g, strategy, f)))
  <2>1. RolloutFor(g, strategy, f) \in Rollout /\ RolloutFor(g, strategy, f).state = "Running"
    BY <1>5, RolloutForType
  <2>2. r \in RolloutIds /\ Tracked(rollouts[r]) = {} /\ rollouts[r].state = "None"
    BY DEF FreshIds, Grounded
  <2>3. rs[r] = rollouts[r]
    BY <2>2 DEF rs, Superseded, Active, ActiveStates
  <2>. QED BY <1>3, <1>5, <2>1, <2>2, <2>3, OpenedMinds
<1>8. \A q \in RolloutIds : Minds(rollouts[q], rollouts'[q])
  BY <1>1, <1>2, <1>4, <1>6, <1>7, OneMinds
<1>. QED BY <1>4, <1>8, MindsKept

LEMMA VerbLands ==
  ASSUME TypeOK, NEW r \in RolloutIds, Fine(rollouts[r]), Grounded, LandingAccounted,
         Pause(r) \/ Promote(r) \/ Abort(r) \/ Retry(r)
  PROVE  Grounded' /\ LandingAccounted'
<1> DEFINE old == rollouts[r]
<1>0. old \in Rollout /\ AtHome(old) /\ Lands(old, landing)
  BY DEF TypeOK, Grounded
<1>1. ASSUME NEW verb, NEW ro, OnRollout(verb, r, ro), Minds(old, ro)
      PROVE  Grounded' /\ LandingAccounted'
  <2>1. /\ file' = file /\ landing' = landing /\ running' = running /\ degraded' = degraded
        /\ rollouts' = [rollouts EXCEPT ![r] = ro]
    BY <1>1 DEF OnRollout, fileVars, worldVars
  <2>. QED BY <1>1, <2>1, AllMind, OneMinds, MindsKept DEF TypeOK
<1>2. CASE Pause(r)
  <2> DEFINE ro == IF old.open THEN [old EXCEPT !.pausePending = TRUE]
                   ELSE [old EXCEPT !.pausePending = FALSE, !.state = "Paused"]
  <2>1. OnRollout("pause", r, ro) /\ Active(old)
    BY <1>2 DEF Pause, Active, ActiveStates
  <2>2. /\ ro.want = old.want /\ ro.group = old.group /\ ro.tgt = old.tgt /\ ro.nb = old.nb
        /\ ro.open = old.open /\ Active(ro) /\ ro.state # "None"
    BY <1>0, <2>1 DEF Rollout, Active, ActiveStates
  <2> HIDE DEF ro
  <2>. QED BY <1>0, <1>1, <2>1, <2>2, FlagsMind
<1>3. CASE Promote(r)
  <2> DEFINE ro == [old EXCEPT !.pausePending = FALSE, !.human = TRUE,
                               !.state = IF @ = "Paused" THEN "Running" ELSE @]
  <2>1. OnRollout("pause", r, ro) /\ (old.state = "Paused" \/ old.pausePending)
    BY <1>3 DEF Promote
  <2>2. old.state # "None"
    BY <2>1 DEF Fine
  <2>3. /\ ro.want = old.want /\ ro.group = old.group /\ ro.tgt = old.tgt /\ ro.nb = old.nb
        /\ ro.open = old.open
        /\ ro.state = IF old.state = "Paused" THEN "Running" ELSE old.state
    BY <1>0 DEF Rollout
  <2> HIDE DEF ro
  <2>4. (Active(old) <=> Active(ro)) /\ ro.state # "None"
    BY <2>2, <2>3 DEF Active, ActiveStates
  <2>. QED BY <1>0, <1>1, <2>1, <2>3, <2>4, FlagsMind
<1>4. CASE Abort(r)
  <2>1. OnRollout("abort", r, [Ended(old, "Aborted") EXCEPT !.open = FALSE]) /\ Active(old)
    BY <1>4 DEF Abort
  <2>2. "Aborted" \in EndedStates
    BY DEF EndedStates
  <2>3. Minds(old, [Ended(old, "Aborted") EXCEPT !.open = FALSE])
    BY <1>0, <2>1, <2>2, EndedMinds
  <2>. QED BY <1>1, <2>1, <2>3
<1>5. CASE Retry(r)
  <2> DEFINE ro == [old EXCEPT !.retryPending = TRUE, !.human = TRUE]
  <2>1. OnRollout("retry", r, ro) /\ Active(old)
    BY <1>5 DEF Retry, Active, ActiveStates
  <2>2. /\ ro.want = old.want /\ ro.group = old.group /\ ro.tgt = old.tgt /\ ro.nb = old.nb
        /\ ro.open = old.open /\ Active(ro) /\ ro.state # "None"
    BY <1>0, <2>1 DEF Rollout, Active, ActiveStates
  <2> HIDE DEF ro
  <2>. QED BY <1>0, <1>1, <2>1, <2>2, FlagsMind
<1>. QED BY <1>2, <1>3, <1>4, <1>5

-----------------------------------------------------------------------------
\* Steps of the tick.

\* Rollout r, made ro with quarantine dg, becomes new: what begins to land is
\* tracked, and so is what may still land and was tracked or quarantined.
Tended(r, ro, dg, new) ==
  /\ rollouts' = [rollouts EXCEPT ![r] = new]
  /\ new.want = ro.want /\ new.group = ro.group /\ Same(ro, new) /\ new.state # "None"
  /\ Lands(new, landing')
  /\ \A t \in Targets : landing'[t] # landing[t] =>
       t \in Tracked(new) /\ new.tgt[t].phase # "none" /\ landing'[t] # running[t]
  /\ \A t \in Targets :
       landing'[t] # NoDigest /\ (t \in Tracked(ro) \/ t \in dg \ degraded') =>
         t \in Tracked(new) \/ t \in degraded'

LEMMA TendedKept ==
  ASSUME TypeOK, OneInv, Grounded, LandingAccounted, file' = file, running' = running,
         NEW r \in RolloutIds, Active(rollouts[r]), NEW new, Tended(r, rollouts[r], degraded, new)
  PROVE  Grounded' /\ LandingAccounted'
<1> DEFINE old == rollouts[r]
<1>1. /\ rollouts'[r] = new /\ \A q \in RolloutIds \ {r} : rollouts'[q] = rollouts[q]
      /\ new.want = old.want /\ new.group = old.group /\ Same(old, new) /\ new.state # "None"
      /\ Lands(new, landing')
      /\ \A t \in Targets : landing'[t] # landing[t] =>
           t \in Tracked(new) /\ new.tgt[t].phase # "none" /\ landing'[t] # running[t]
      /\ \A t \in Targets :
           landing'[t] # NoDigest /\ (t \in Tracked(old) \/ t \in degraded \ degraded') =>
             t \in Tracked(new) \/ t \in degraded'
  BY DEF Tended, TypeOK
<1>2. AtHome(old) /\ AtHome(new)
  BY <1>1, HomeSame DEF Grounded
<1>3. ASSUME NEW q \in RolloutIds \ {r} PROVE Lands(rollouts[q], landing')
  <2> SUFFICES ASSUME Active(rollouts[q]), NEW t \in Targets, rollouts[q].tgt[t].phase # "none"
               PROVE  landing'[t] = landing[t]
    BY DEF Lands, Grounded
  <2>1. file[t].group = rollouts[q].group
    BY DEF Grounded, AtHome
  <2>2. rollouts[q].group # old.group
    BY DEF OneInv, OneActivePerGroup, ActiveIds
  <2>3. new.tgt[t].phase # "none" => file[t].group = old.group
    BY <1>1, <1>2 DEF AtHome
  <2>. QED BY <1>1, <2>1, <2>2, <2>3
<1>4. \A q \in RolloutIds : /\ AtHome(rollouts'[q]) /\ Lands(rollouts'[q], landing')
                            /\ rollouts'[q].state = "None" => Tracked(rollouts'[q]) = {}
  <2>1. ASSUME NEW q \in RolloutIds \ {r}
        PROVE  /\ AtHome(rollouts'[q]) /\ Lands(rollouts'[q], landing')
               /\ rollouts'[q].state = "None" => Tracked(rollouts'[q]) = {}
    BY <1>1, <1>3 DEF Grounded
  <2>. QED BY <1>1, <1>2, <2>1
<1>5. \A t \in Targets : landing'[t] # running[t]
  BY <1>1 DEF Grounded
<1>6. Grounded'
  BY <1>4, <1>5 DEF Grounded, AtHome, Lands
<1>7. LandingAccounted'
  <2> SUFFICES ASSUME NEW t \in Targets, landing'[t] # NoDigest
               PROVE  t \in degraded' \/ \E q \in RolloutIds : t \in Tracked(rollouts'[q])
    BY DEF LandingAccounted
  <2>1. CASE landing'[t] # landing[t]
    BY <1>1, <2>1
  <2>2. CASE landing'[t] = landing[t]
    <3>1. t \in degraded \/ \E q \in RolloutIds : t \in Tracked(rollouts[q])
      BY <2>2 DEF LandingAccounted
    <3>2. CASE t \in degraded
      BY <1>1, <3>2
    <3>3. ASSUME NEW q \in RolloutIds, t \in Tracked(rollouts[q])
          PROVE  t \in degraded' \/ \E p \in RolloutIds : t \in Tracked(rollouts'[p])
      <4>1. CASE q = r
        BY <1>1, <3>3, <4>1
      <4>2. CASE q # r
        BY <1>1, <3>3, <4>2
      <4>. QED BY <4>1, <4>2
    <3>. QED BY <3>1, <3>2, <3>3
  <2>. QED BY <2>1, <2>2
<1>. QED BY <1>6, <1>7

\* What was made of the rollout before it was tended.
LEMMA TendedFrom ==
  ASSUME NEW r, NEW old, NEW ro, NEW dg, NEW new, Tended(r, ro, dg, new),
         ro.want = old.want, ro.group = old.group, Same(old, ro),
         Tracked(old) \subseteq Tracked(ro), degraded \ dg \subseteq Tracked(ro)
  PROVE  Tended(r, old, degraded, new)
  BY DEF Tended, Same

\* A change that lets nothing begin to land.
LEMMA SettleTends ==
  ASSUME NEW r, NEW ro \in Rollout, NEW dg, NEW new, Calm(ro, new),
         rollouts' = [rollouts EXCEPT ![r] = new], landing' = landing, new.state # "None",
         Lands(new, landing),
         \A t \in Targets :
           landing[t] # NoDigest /\ (t \in Tracked(ro) \/ t \in dg \ degraded') =>
             t \in Tracked(new) \/ t \in degraded'
  PROVE  Tended(r, ro, dg, new)
<1>1. new.group = ro.group /\ new.want = ro.want /\ Same(ro, new)
  BY DEF Calm, Kin, Same
<1>. QED BY <1>1 DEF Tended

\* A batch that passes.
LEMMA PassedTends ==
  ASSUME NEW r, NEW ro \in Rollout, Active(ro), Shape(ro), Traced(ro), Lands(ro, landing), NEW dg,
         InBatch(ro) \subseteq TargetsIn(ro, {"ready", "skipped"}),
         rollouts' = [rollouts EXCEPT ![r] = Passed(ro)], landing' = landing,
         degraded' = dg \ PassedBy(ro)
  PROVE  Tended(r, ro, dg, Passed(ro))
<1>1. Calm(ro, Passed(ro)) /\ Passed(ro).state \in {"Running", "Paused"}
  BY PassedCalm, PassedSound
<1>2. /\ Lands(Passed(ro), landing)
      /\ \A t \in Tracked(ro) \cup PassedBy(ro) : landing[t] = NoDigest
  BY PassedLands
<1>. QED BY <1>1, <1>2, SettleTends

\* A batch that halts.
LEMMA HaltedTends ==
  ASSUME NEW r, NEW ro \in Rollout, Active(ro), Shape(ro), ro.open, Lands(ro, landing), NEW dg,
         \A u \in InBatch(ro) : ro.tgt[u].phase # "pending",
         rollouts' = [rollouts EXCEPT ![r] = Halted(ro)], landing' = landing,
         degraded' = dg \cup HeldBy(ro)
  PROVE  Tended(r, ro, dg, Halted(ro))
<1>1. Calm(ro, Halted(ro)) /\ Halted(ro).state = "Halted"
  BY HaltedCalm, HaltedFixed
<1>2. Lands(Halted(ro), landing) /\ Tracked(ro) \subseteq HeldBy(ro)
  BY HaltedLands
<1>. QED BY <1>1, <1>2, SettleTends

-----------------------------------------------------------------------------
\* The plan.

\* What a rollout is for is what its group wants.
Wanted(ro) ==
  \A t \in Targets : ro.tgt[t].phase # "none" =>
    Want(file[t].group, file[t].image) = ro.want[file[t].image]

\* An update brings its target to what the rollout is for, if it is not there.
LEMMA DispatchedLands ==
  ASSUME NEW r, NEW ro, Wanted(ro), NEW t \in Targets
  PROVE  LET m == Dispatched(JobsFor(r, ro))[t]
             d == ro.want[file[t].image]
         IN IF t \in InBatch(ro) /\ ro.tgt[t].phase = "pending"
            THEN m = IF d = running[t] THEN NoDigest ELSE d
            ELSE m = landing[t]
<1> DEFINE js == JobsFor(r, ro)
           mine == {j \in js : j.target = t /\ j.hook = "update"}
           c == (CHOOSE j \in mine : TRUE).digest
           d == ro.want[file[t].image]
<1>1. Dispatched(js)[t] = IF mine = {} THEN landing[t] ELSE IF c = running[t] THEN NoDigest ELSE c
  BY DEF Dispatched
<1>2. ASSUME NEW j \in mine
      PROVE  /\ t \in InBatch(ro) /\ ro.tgt[t].phase = "pending"
             /\ j.digest = Want(file[t].group, file[t].image)
  <2>1. PICK u \in Waiting(ro) :
          j = [rollout |-> r, target |-> u, hook |-> Hook(ro, u),
               digest |-> Want(file[u].group, file[u].image)]
    BY DEF JobsFor
  <2>2. u = t /\ Hook(ro, t) = "update"
    BY <2>1
  <2>. QED BY <2>1, <2>2 DEF Hook, Waiting
<1>3. CASE t \in InBatch(ro) /\ ro.tgt[t].phase = "pending"
  <2>1. t \in Waiting(ro) /\ Hook(ro, t) = "update"
    BY <1>3 DEF Waiting, Hook
  <2>2. [rollout |-> r, target |-> t, hook |-> "update",
         digest |-> Want(file[t].group, file[t].image)] \in mine
    BY <2>1 DEF JobsFor
  <2>3. c = Want(file[t].group, file[t].image)
    BY <1>2, <2>2
  <2>4. ro.tgt[t].phase # "none"
    BY <1>3
  <2>5. c = d
    BY <2>3, <2>4 DEF Wanted
  <2> HIDE DEF mine, c, js
  <2>. QED BY <1>1, <1>3, <2>2, <2>5 DEF js
<1>4. CASE ~(t \in InBatch(ro) /\ ro.tgt[t].phase = "pending")
  <2>1. mine = {}
    BY <1>2, <1>4
  <2> HIDE DEF mine, c, js
  <2>. QED BY <1>1, <1>4, <2>1 DEF js
<1>. QED BY <1>3, <1>4

\* A visit of an open batch.
LEMMA PlanBatchTends ==
  ASSUME TypeOK, NEW r, NEW ro, Begun(ro), AtHome(ro), Wanted(ro), Lands(ro, landing), Still,
         NEW dg, PlanBatch(r, ro, dg)
  PROVE  \E new : Tended(r, ro, dg, new)
<1> DEFINE nxt == Advanced(ro)
           js == JobsFor(r, ro)
<1>0. ro \in Rollout /\ Active(ro) /\ Shape(ro) /\ Traced(ro) /\ ro.open
  BY DEF Begun, Active, ActiveStates
<1>1. WithoutLost(ro, Lost(ro), {"pending", "updating"}) = ro
  BY <1>0, NoneLost, WithoutNone
<1>2. IF js = {} THEN BatchReady(r, nxt, dg)
      ELSE /\ rollouts' = [rollouts EXCEPT ![r] = nxt]
           /\ degraded' = dg
           /\ landing' = Dispatched(js)
  BY <1>1 DEF PlanBatch
<1>3. /\ Begun(nxt) /\ Calm(ro, nxt)
  BY AdvancedBegun
<1>4. nxt \in Rollout /\ Active(nxt) /\ Shape(nxt) /\ Traced(nxt) /\ nxt.open /\ nxt.state # "None"
  BY <1>3 DEF Begun, Active, ActiveStates
<1>5. nxt.want = ro.want /\ nxt.group = ro.group /\ Same(ro, nxt)
  BY <1>3 DEF Calm, Kin, Same
<1>6. CASE js # {}
  <2>1. \A t \in Targets :
          LET d == ro.want[file[t].image]
          IN IF t \in InBatch(ro) /\ ro.tgt[t].phase = "pending"
             THEN landing'[t] = IF d = running[t] THEN NoDigest ELSE d
             ELSE landing'[t] = landing[t]
    BY <1>2, <1>6, DispatchedLands
  <2>2. \A t \in Targets : IF t \in InBatch(ro) /\ ro.tgt[t].phase = "pending"
                           THEN landing'[t] \in {NoDigest, ro.want[file[t].image]}
                           ELSE landing'[t] = landing[t]
    BY <2>1
  <2>3. Lands(nxt, landing') /\ Tracked(nxt) = Tracked(ro)
    BY <1>0, <2>2, AdvancedLands
  <2>4. ASSUME NEW t \in Targets, landing'[t] # landing[t]
        PROVE  t \in Tracked(nxt) /\ nxt.tgt[t].phase # "none"
    <3>1. t \in InBatch(ro) /\ ro.tgt[t].phase = "pending"
      BY <2>1, <2>4
    <3>2. t \in Tracked(ro) /\ ro.tgt[t].phase # "none"
      BY <1>0, <3>1 DEF Tracked
    <3>. QED BY <1>5, <2>3, <3>2 DEF Same
  <2>5. ASSUME NEW t \in Targets, landing'[t] # landing[t] PROVE landing'[t] # running[t]
    <3>1. running[t] \in Digests /\ NoDigest \notin Digests
      BY NamesAssumption DEF TypeOK
    <3>. QED BY <2>1, <2>5, <3>1
  <2>. QED BY <1>2, <1>4, <1>5, <1>6, <2>3, <2>4, <2>5 DEF Tended
<1>7. CASE js = {}
  <2>1. InBatch(nxt) \subseteq TargetsIn(nxt, {"ready", "skipped"})
    BY <1>0, <1>7, AdvancedSettled DEF JobsFor
  <2>2. Lands(nxt, landing) /\ Tracked(nxt) = Tracked(ro)
    <3>1. Waiting(ro) = {}
      BY <1>7 DEF JobsFor
    <3>2. \A t \in InBatch(ro) : ro.tgt[t].phase # "pending"
      BY <3>1 DEF Waiting
    <3>. QED BY <1>0, <3>2, AdvancedLands
  <2>3. BatchReady(r, nxt, dg)
    BY <1>2, <1>7
  <2> HIDE DEF nxt
  <2>4. ASSUME NEW new, Tended(r, nxt, dg, new) PROVE Tended(r, ro, dg, new)
    BY <1>5, <2>2, <2>4 DEF Tended, Same
  <2>5. CASE PassBatch(r, nxt, dg)
    <3>1. Tended(r, nxt, dg, Passed(nxt))
      BY <1>4, <2>1, <2>2, <2>5, PassedTends DEF PassBatch, Settle
    <3>. QED BY <2>4, <3>1
  <2>6. CASE Settle(r, Soaking(nxt), dg)
    <3>1. Calm(nxt, Soaking(nxt)) /\ Soaking(nxt).tgt = nxt.tgt /\ Soaking(nxt).open = nxt.open
          /\ Soaking(nxt).state = "Soaking"
      BY <1>4, SoakingCalm
    <3>2. Tended(r, nxt, dg, Soaking(nxt))
      <4> DEFINE new == Soaking(nxt)
      <4> HIDE DEF new
      <4>1. Lands(new, landing)
        BY <1>4, <2>2, <3>1, LandsSame DEF Calm, new
      <4>2. Tracked(new) = Tracked(nxt)
        <5>1. Active(new)
          BY <3>1 DEF new, Active, ActiveStates
        <5>2. InBatch(new) = InBatch(nxt)
          BY <3>1, CalmBatch DEF new
        <5>. QED BY <1>4, <3>1, <5>1, <5>2 DEF Tracked, new
      <4>3. rollouts' = [rollouts EXCEPT ![r] = new] /\ landing' = landing /\ degraded' = dg
        BY <2>6 DEF Settle, new
      <4>4. Calm(nxt, new) /\ new.state # "None"
        BY <3>1 DEF new
      <4>. QED BY <1>4, <4>1, <4>2, <4>3, <4>4, SettleTends DEF new
    <3>. QED BY <2>4, <3>2
  <2>. QED BY <2>3, <2>5, <2>6 DEF BatchReady
<1>. QED BY <1>6, <1>7

LEMMA AgreedWanted ==
  ASSUME Agreed, Resolved, pc = "plan", NEW r \in RolloutIds, Active(rollouts[r]), AtHome(rollouts[r])
  PROVE  Wanted(rollouts[r])
<1> DEFINE ro == rollouts[r]
<1> SUFFICES ASSUME NEW t \in Targets, ro.tgt[t].phase # "none"
             PROVE  Want(file[t].group, file[t].image) = ro.want[file[t].image]
  BY DEF Wanted
<1>1. t \in DOMAIN file /\ file[t].group = ro.group /\ ro.want[file[t].image] # NoDigest
  BY DEF AtHome
<1>2. Want(ro.group, file[t].image) \in {NoDigest, ro.want[file[t].image]}
  BY <1>1 DEF Agreed, ActiveIds, Moved
<1>3. Want(ro.group, file[t].image) # NoDigest
  BY <1>1 DEF Want, Resolved, ImagesOf
<1>. QED BY <1>1, <1>2, <1>3

LEMMA WantedSame ==
  ASSUME NEW ro, NEW new, Wanted(ro), new.want = ro.want, Same(ro, new)
  PROVE  Wanted(new)
  BY DEF Wanted, Same

\* What the steps of the plan rely on.
InPlan(r) ==
  /\ TypeOK /\ Still /\ Agreed /\ Resolved /\ pc = "plan"
  /\ Fine(rollouts[r]) /\ AtHome(rollouts[r]) /\ Lands(rollouts[r], landing)

\* A rollout left as it is.
LEMMA IdleTends ==
  ASSUME TypeOK, NEW r \in RolloutIds, Active(rollouts[r]), Lands(rollouts[r], landing),
         rollouts' = [rollouts EXCEPT ![r] = rollouts[r]], landing' = landing, degraded' = degraded
  PROVE  Tended(r, rollouts[r], degraded, rollouts[r])
<1>1. rollouts[r] \in Rollout /\ rollouts[r].state # "None"
  BY DEF TypeOK, Active, ActiveStates
<1>. QED BY <1>1, CalmSelf, SettleTends

LEMMA PlanNothingTends ==
  ASSUME NEW r \in RolloutIds, InPlan(r), PlanNothing(r)
  PROVE  \E new : Tended(r, rollouts[r], degraded, new)
<1>1. Active(rollouts[r])
  BY DEF PlanNothing, Active, ActiveStates
<1>. QED BY <1>1, IdleTends DEF InPlan, PlanNothing, Settle

LEMMA PlanOpenTends ==
  ASSUME NEW r \in RolloutIds, InPlan(r), PlanOpen(r)
  PROVE  \E new : Tended(r, rollouts[r], degraded, new)
<1>1. /\ rollouts[r] \in Rollout /\ CanStart(rollouts[r]) /\ rollouts[r].open
      /\ PlanBatch(r, rollouts[r], degraded) /\ Active(rollouts[r])
  BY DEF InPlan, TypeOK, PlanOpen, CanStart, Active, ActiveStates
<1>2. Begun(rollouts[r])
  BY <1>1 DEF InPlan, Begun, Fine, CanStart, Active, ActiveStates
<1>3. Wanted(rollouts[r])
  BY <1>1, AgreedWanted DEF InPlan
<1>. QED BY <1>1, <1>2, <1>3, PlanBatchTends DEF InPlan

\* A retry tracks again what had failed.
LEMMA RetriedLands ==
  ASSUME NEW ro \in Rollout, Fine(ro), ro.state = "Halted", NEW l, Lands(ro, l), NEW seen, NEW dg
  PROVE  LET new == Retried(ro, seen, dg)
         IN /\ Lands(new, l) /\ Tracked(ro) = {} /\ Failed(ro) \subseteq Tracked(new)
            /\ new.group = ro.group /\ new.want = ro.want /\ Same(ro, new)
<1> DEFINE new == Retried(ro, seen, dg)
<1>0. Active(ro) /\ Shape(ro) /\ ~ro.open
  BY DEF Fine, Active, ActiveStates
<1>1. Begun(new) /\ Calm(ro, new)
  BY RetriedBegun
<1>2. new.group = ro.group /\ new.want = ro.want /\ Same(ro, new) /\ InBatch(new) = InBatch(ro)
  BY <1>1, CalmBatch DEF Calm, Kin, Same
<1>3. ASSUME NEW t \in Targets
      PROVE  IF t \in Failed(ro)
             THEN new.tgt[t].phase \in {"pending", "updating"} /\ ~new.tgt[t].updated
             ELSE new.tgt[t] = ro.tgt[t]
  <2> DEFINE p == IF t \in seen THEN "updating" ELSE "pending"
             d == t \in seen
             e == t \in dg
  <2>1. new.tgt[t] = IF t \in Failed(ro)
                     THEN [ro.tgt[t] EXCEPT !.phase = p, !.done = d, !.updated = FALSE, !.free = e]
                     ELSE ro.tgt[t]
    BY DEF Retried, Rollout, Failed
  <2>2. ro.tgt[t] \in RolloutTarget
    BY TgtType
  <2>3. p \in {"pending", "updating"}
    OBVIOUS
  <2> HIDE DEF new, p, d, e
  <2>. QED BY <2>1, <2>2, <2>3 DEF RolloutTarget
<1> HIDE DEF new
<1>4. \A t \in Failed(ro) : t \in Targets /\ t \in InBatch(ro) /\ ro.tgt[t].phase = "failed"
  BY DEF Failed, InBatch
<1>5. Lands(new, l)
  BY <1>0, <1>2, <1>3, <1>4, LandsSame
<1>6. Failed(ro) \subseteq Tracked(new)
  <2>1. Active(new) /\ new.open
    BY <1>1 DEF Begun, Active, ActiveStates
  <2>. QED BY <1>2, <1>3, <1>4, <2>1 DEF Tracked
<1>. QED BY <1>0, <1>2, <1>5, <1>6 DEF Tracked, new

LEMMA PlanRetryTends ==
  ASSUME NEW r \in RolloutIds, InPlan(r), PlanRetry(r)
  PROVE  \E new : Tended(r, rollouts[r], degraded, new)
<1> DEFINE old == rollouts[r]
           seen == {t \in Targets : live[t] # NoDigest /\ \E i \in Images : old.want[i] = live[t]}
           ro == Retried(old, seen, degraded)
           dg == degraded \ Failed(old)
<1>1. /\ old \in Rollout /\ old.state = "Halted" /\ PlanBatch(r, ro, dg) /\ Active(old)
      /\ Fine(old) /\ AtHome(old) /\ Lands(old, landing)
  BY DEF InPlan, TypeOK, PlanRetry, Active, ActiveStates
<1>2. Wanted(old)
  BY <1>1, AgreedWanted DEF InPlan
<1> HIDE DEF seen
<1>3. Begun(ro)
  BY <1>1, RetriedBegun
<1>4. /\ Lands(ro, landing) /\ Tracked(old) = {} /\ Failed(old) \subseteq Tracked(ro)
      /\ ro.group = old.group /\ ro.want = old.want /\ Same(old, ro)
  BY <1>1, RetriedLands
<1> HIDE DEF ro
<1>5. AtHome(ro) /\ Wanted(ro)
  BY <1>1, <1>2, <1>4, HomeSame, WantedSame
<1>6. PICK new : Tended(r, ro, dg, new)
  BY <1>1, <1>3, <1>4, <1>5, PlanBatchTends DEF InPlan
<1>7. Tended(r, old, degraded, new)
  BY <1>4, <1>6, TendedFrom
<1>. QED BY <1>7

\* A batch that opens has nothing under way yet.
LEMMA WithBatchLands ==
  ASSUME NEW ro \in Rollout, CanStart(ro), ~ro.open, Shape(ro), NEW P, NEW free, NEW l, Lands(ro, l)
  PROVE  LET new == WithBatch(ro, P, free)
         IN Lands(new, l) /\ new.group = ro.group /\ new.want = ro.want /\ Same(ro, new)
<1> DEFINE new == WithBatch(ro, P, free)
<1>1. Kin(ro, new) /\ Same(ro, new) /\ Active(ro)
  BY WithBatchSound DEF CanStart, Active, ActiveStates
<1>w. new.want = ro.want
  BY DEF WithBatch, Rollout
<1>2. ASSUME NEW t \in Targets
      PROVE  new.tgt[t].phase = ro.tgt[t].phase /\ new.tgt[t].updated = ro.tgt[t].updated
  <2> DEFINE b == ro.tgt[t].node \in free
             k == ro.nb + 1
             x == t \in Candidates(ro) /\ ro.tgt[t].node \in P
  <2>1. new.tgt[t] = IF x THEN [ro.tgt[t] EXCEPT !.batch = k, !.free = b] ELSE ro.tgt[t]
    BY DEF WithBatch, Rollout
  <2>2. ro.tgt[t] \in RolloutTarget
    BY TgtType
  <2> HIDE DEF new, b, k, x
  <2>. QED BY <2>1, <2>2 DEF RolloutTarget
<1> HIDE DEF new
<1>. QED BY <1>1, <1>w, <1>2, LandsSame DEF Kin, new

LEMMA PlanStartTends ==
  ASSUME NEW r \in RolloutIds, InPlan(r), PlanStart(r)
  PROVE  \E new : Tended(r, rollouts[r], degraded, new)
<1> DEFINE old == rollouts[r]
           ro == Reviewed(old, Lost(old), Unreachable, Arrived(old))
           free == FreeNodes(ro)
           end == Ended(ro, "Complete")
           env == [ro EXCEPT !.state = "WaitingForEnvironment"]
           bud == [ro EXCEPT !.state = "WaitingForBudget"]
<1>1. /\ old \in Rollout /\ CanStart(old) /\ ~old.open /\ Active(old)
      /\ Shape(old) /\ Traced(old) /\ AtHome(old) /\ Lands(old, landing)
  BY DEF InPlan, TypeOK, PlanStart, CanStart, Active, ActiveStates, Fine
<1>2. /\ Sound(old, ro) /\ CanStart(ro) /\ ~ro.open
      /\ Calm(old, ro)
      /\ \A t \in Targets : ro.tgt[t].updated = old.tgt[t].updated
      /\ \A t \in Targets : \/ ro.tgt[t].phase = old.tgt[t].phase
                            \/ ro.tgt[t].phase \in {"skipped", "passed"}
  BY <1>1, ReviewedSound, ReviewedCalm, ReviewedFixed
<1>3. \/ Settle(r, end, degraded)
      \/ Settle(r, env, degraded)
      \/ \E P \in SUBSET CandidateNodes(ro) :
           \/ Settle(r, bud, degraded)
           \/ P # {} /\ PlanBatch(r, WithBatch(ro, P, free), degraded)
  BY DEF PlanStart
<1>u. Unbatched(ro) \cap Lost(old) = {}
  BY <1>1, ReviewedCalm
<1> HIDE DEF ro, free
<1>4. /\ ro \in Rollout /\ Shape(ro) /\ Active(ro) /\ ro.want = old.want
      /\ ro.group = old.group /\ Same(old, ro)
  BY <1>2 DEF Sound, Kin, CanStart, Active, ActiveStates, Calm
<1>5. Traced(ro)
  BY <1>1, <1>2 DEF Traced
<1>6. Lands(ro, landing)
  BY <1>1, <1>2, <1>4, LandsSame
<1>7. Tracked(old) = {} /\ Tracked(ro) = {}
  BY <1>1, <1>2, <1>4 DEF Tracked
<1>8. ASSUME NEW new, Settle(r, new, degraded), new.want = ro.want, new.group = ro.group, Same(ro, new),
             Lands(new, landing), new.state # "None"
      PROVE  Tended(r, old, degraded, new)
  BY <1>4, <1>7, <1>8 DEF Settle, Tended, Same
<1>9. CASE Settle(r, end, degraded)
  <2>1. "Complete" \in States
    BY DEF States, EndedStates
  <2>2. Calm(ro, end) /\ Kin(ro, end) /\ end.state = "Complete"
    BY <1>4, <2>1, EndedCalm, EndedType
  <2> HIDE DEF end
  <2>3. end.want = ro.want /\ end.group = ro.group /\ Same(ro, end)
    BY <2>2 DEF Calm, Kin, Same
  <2>4. Lands(end, landing)
    BY <2>2 DEF Lands, Active, ActiveStates
  <2>. QED BY <1>8, <1>9, <2>2, <2>3, <2>4
<1>10. ASSUME NEW s \in {"WaitingForEnvironment", "WaitingForBudget"},
              NEW new, new = [ro EXCEPT !.state = s], Settle(r, new, degraded)
       PROVE  Tended(r, old, degraded, new)
  <2>1. new.want = ro.want /\ new.group = ro.group /\ new.tgt = ro.tgt /\ new.state = s /\ new.nb = ro.nb
    BY <1>4, <1>10 DEF Rollout
  <2>2. Same(ro, new)
    BY <2>1 DEF Same
  <2>3. Lands(new, landing)
    BY <1>4, <1>6, <2>1, LandsSame
  <2>. QED BY <1>8, <1>10, <2>1, <2>2, <2>3
<1>11. ASSUME NEW P \in SUBSET CandidateNodes(ro), P # {},
              PlanBatch(r, WithBatch(ro, P, free), degraded)
       PROVE  \E new : Tended(r, old, degraded, new)
  <2> DEFINE wb == WithBatch(ro, P, free)
  <2>1. Unbatched(ro) \cap Lost(ro) = {}
    BY <1>2, <1>4, <1>u, LostSame DEF Sound, Kin
  <2>2. Begun(wb)
    BY <1>2, <1>4, <1>5, <1>11, <2>1, WithBatchBegun
  <2>3. /\ PlanBatch(r, wb, degraded)
        /\ Lands(wb, landing) /\ wb.group = ro.group /\ wb.want = ro.want /\ Same(ro, wb)
    BY <1>2, <1>4, <1>6, <1>11, WithBatchLands
  <2> HIDE DEF wb
  <2>4. wb.want = old.want /\ wb.group = old.group /\ Same(old, wb)
    BY <1>4, <2>3 DEF Same
  <2>5. AtHome(wb) /\ Wanted(wb)
    BY <1>1, <2>4, AgreedWanted, HomeSame, WantedSame DEF InPlan
  <2>6. PICK new : Tended(r, wb, degraded, new)
    BY <2>2, <2>3, <2>5, PlanBatchTends DEF InPlan
  <2>7. Tended(r, old, degraded, new)
    BY <1>7, <2>4, <2>6, TendedFrom
  <2>. QED BY <2>7
<1>. QED BY <1>3, <1>9, <1>10, <1>11

LEMMA PlanLateTends ==
  ASSUME NEW r \in RolloutIds, InPlan(r), PlanLate(r)
  PROVE  \E new : Tended(r, rollouts[r], degraded, new)
<1> DEFINE ro == rollouts[r]
<1>1. /\ ro \in Rollout /\ Active(ro) /\ ro.open /\ Shape(ro) /\ AtHome(ro) /\ Lands(ro, landing)
      /\ \A u \in InBatch(ro) : ro.tgt[u].phase # "pending"
  BY DEF InPlan, PlanLate, TypeOK, Fine, CanStart, Active, ActiveStates
<1>2. PICK t : LET cur == WithoutLost(ro, {u \in Lost(ro) : Before(ro, u, t)}, {"pending", "updating"})
               IN Settle(r, Halted(cur), degraded \cup HeldBy(cur))
  BY DEF PlanLate
<1>3. {u \in Lost(ro) : Before(ro, u, t)} = {}
  BY <1>1, NoneLost DEF InPlan
<1>4. WithoutLost(ro, {u \in Lost(ro) : Before(ro, u, t)}, {"pending", "updating"}) = ro
  BY <1>1, <1>3, WithoutNone
<1>5. Settle(r, Halted(ro), degraded \cup HeldBy(ro))
  BY <1>2, <1>4
<1>6. Tended(r, ro, degraded, Halted(ro))
  BY <1>1, <1>5, HaltedTends DEF Settle
<1>. QED BY <1>6

LEMMA PlanSoakTends ==
  ASSUME NEW r \in RolloutIds, InPlan(r), PlanSoak(r)
  PROVE  \E new : Tended(r, rollouts[r], degraded, new)
<1> DEFINE ro == rollouts[r]
<1>1. /\ ro \in Rollout /\ Active(ro) /\ Shape(ro) /\ Traced(ro) /\ AtHome(ro) /\ Lands(ro, landing)
      /\ ro.state = "Soaking"
  BY DEF InPlan, PlanSoak, TypeOK, Fine, Active, ActiveStates
<1>2. InBatch(ro) \subseteq TargetsIn(ro, {"ready", "skipped"})
  BY <1>1 DEF Shape
<1>3. WithoutLost(ro, Lost(ro), Phases) = ro
  BY <1>1, NoneLost, WithoutNone DEF InPlan
<1>4. CASE PassBatch(r, ro, degraded)
  <2>1. Tended(r, ro, degraded, Passed(ro))
    BY <1>1, <1>2, <1>4, PassedTends DEF PassBatch, Settle
  <2>. QED BY <2>1
<1>5. CASE rollouts' = [rollouts EXCEPT ![r] = ro] /\ landing' = landing /\ degraded' = degraded
  BY <1>1, <1>5, IdleTends DEF InPlan
<1>. QED BY <1>3, <1>4, <1>5 DEF PlanSoak, Settle

LEMMA PlanLands ==
  ASSUME NEW r \in RolloutIds, InPlan(r), OneInv, Grounded, LandingAccounted, PlanStep(r)
  PROVE  Grounded' /\ LandingAccounted'
<1>1. Active(rollouts[r])
  BY DEF PlanStep, PlanNothing, PlanRetry, PlanStart, PlanOpen, PlanLate, PlanSoak, CanStart,
         Active, ActiveStates
<1>2. file' = file /\ running' = running
  BY DEF PlanStep, PlanNothing, PlanRetry, PlanStart, PlanOpen, PlanLate, PlanSoak, Planning, fileVars
<1>3. PICK new : Tended(r, rollouts[r], degraded, new)
  BY PlanNothingTends, PlanRetryTends, PlanStartTends, PlanOpenTends, PlanLateTends, PlanSoakTends
  DEF PlanStep
<1>. QED BY <1>1, <1>2, <1>3, TendedKept DEF InPlan

-----------------------------------------------------------------------------
\* Results.

\* A target that is waited for, with another record: nothing lands any more on
\* one now seen updated.
LEMMA TargetTends ==
  ASSUME NEW r, NEW ro \in Rollout, NEW new, NEW t \in Targets,
         ro.state = "Running", ro.open, Lands(ro, landing), ro.tgt[t].phase = "updating",
         new.nb = ro.nb, new.state = "Running", new.open, new.want = ro.want, new.group = ro.group,
         \A u \in Targets \ {t} : new.tgt[u] = ro.tgt[u],
         new.tgt[t].phase \in {"updating", "ready"},
         new.tgt[t].node = ro.tgt[t].node, new.tgt[t].batch = ro.tgt[t].batch,
         new.tgt[t].updated => ro.tgt[t].updated \/ landing[t] = NoDigest,
         rollouts' = [rollouts EXCEPT ![r] = new], landing' = landing, degraded' = degraded
  PROVE  Tended(r, ro, degraded, new)
<1>1. \A u \in Targets : u # t => new.tgt[u] = ro.tgt[u]
  OBVIOUS
<1>2. Active(ro) /\ Active(new)
  BY DEF Active, ActiveStates
<1>3. Same(ro, new) /\ InBatch(new) = InBatch(ro)
  BY <1>1 DEF Same, InBatch
<1>4. Tracked(new) = Tracked(ro)
  <2>1. \A u \in InBatch(ro) : new.tgt[u].phase = "skipped" <=> ro.tgt[u].phase = "skipped"
    BY <1>1 DEF InBatch
  <2>. QED BY <1>2, <1>3, <2>1 DEF Tracked
<1>5. Lands(new, landing)
  BY <1>1, <1>2 DEF Lands
<1>. QED BY <1>3, <1>4, <1>5 DEF Tended

\* What the results of jobs rely on.
LEMMA CountsLands ==
  ASSUME TypeOK, \A r \in RolloutIds : Fine(rollouts[r]), Grounded, NEW j \in jobs, Counts(j)
  PROVE  LET ro == rollouts[j.rollout]
         IN /\ j.rollout \in RolloutIds /\ j.target \in Targets
            /\ ro \in Rollout /\ ro.state = "Running" /\ ro.open /\ Active(ro) /\ Shape(ro)
            /\ \A u \in InBatch(ro) : ro.tgt[u].phase # "pending"
            /\ Lands(ro, landing)
            /\ ro.tgt[j.target].phase = "updating" /\ ro.tgt[j.target] \in RolloutTarget
  BY ConcernsFine DEF Counts, Fine, Grounded

LEMMA ApplyStaleLands ==
  ASSUME TypeOK, Still, Grounded, LandingAccounted, NEW j \in jobs, ApplyStale(j)
  PROVE  Grounded' /\ LandingAccounted'
<1>1. j.rollout \in RolloutIds
  BY DEF TypeOK, Job
<1>2. Lost(rollouts[j.rollout]) = {}
  BY <1>1, NoneLost DEF Grounded
<1>3. ~Concerns(j)
  BY <1>2 DEF ApplyStale, Counts
<1>4. /\ rollouts' = rollouts /\ file' = file /\ landing' = landing /\ running' = running
      /\ degraded' = degraded
  BY <1>3 DEF ApplyStale, Applying, fileVars, worldVars
<1>. QED BY <1>4, AllMind, MindsKept

LEMMA ApplyUpdateLands ==
  ASSUME TypeOK, OneInv, \A r \in RolloutIds : Fine(rollouts[r]), Grounded, LandingAccounted,
         NEW j \in jobs, ApplyUpdate(j)
  PROVE  Grounded' /\ LandingAccounted'
<1> DEFINE ro == rollouts[j.rollout]
           rt == [ro.tgt[j.target] EXCEPT !.done = TRUE]
<1>1. /\ j.rollout \in RolloutIds /\ j.target \in Targets
      /\ ro \in Rollout /\ ro.state = "Running" /\ ro.open /\ Active(ro) /\ Shape(ro)
      /\ \A u \in InBatch(ro) : ro.tgt[u].phase # "pending"
      /\ Lands(ro, landing)
      /\ ro.tgt[j.target].phase = "updating" /\ ro.tgt[j.target] \in RolloutTarget
  BY CountsLands DEF ApplyUpdate
<1>2. file' = file /\ landing' = landing /\ running' = running
  BY DEF ApplyUpdate, Applying, fileVars, worldVars
<1>3. CASE Continue(j, [ro EXCEPT !.tgt[j.target].done = TRUE]) /\ UNCHANGED degraded
  <2>1. [ro EXCEPT !.tgt[j.target].done = TRUE] = [ro EXCEPT !.tgt[j.target] = rt]
    BY <1>1 DEF Rollout
  <2>2. /\ rt.phase = "updating"
        /\ LET old == ro.tgt[j.target]
           IN rt.node = old.node /\ rt.batch = old.batch /\ rt.updated = old.updated
    BY <1>1 DEF RolloutTarget
  <2> DEFINE new == [ro EXCEPT !.tgt[j.target] = rt]
  <2>3. rollouts' = [rollouts EXCEPT ![j.rollout] = new]
    BY <1>3, <2>1 DEF Continue
  <2> HIDE DEF rt, ro
  <2>r. ro \in Rollout /\ j.target \in Targets
    BY <1>1
  <2>f. /\ new.nb = ro.nb /\ new.state = ro.state /\ new.open = ro.open /\ new.want = ro.want
        /\ new.group = ro.group
    BY <2>r DEF Rollout
  <2>t. \A u \in Targets : new.tgt[u] = IF u = j.target THEN rt ELSE ro.tgt[u]
    BY <2>r DEF Rollout
  <2> HIDE DEF new
  <2>u. /\ \A u \in Targets \ {j.target} : new.tgt[u] = ro.tgt[u]
        /\ new.tgt[j.target] = rt
    BY <2>r, <2>t
  <2>4. Tended(j.rollout, ro, degraded, new)
    BY <1>1, <1>2, <1>3, <2>2, <2>3, <2>f, <2>u, TargetTends
  <2>. QED BY <1>1, <1>2, <2>4, TendedKept DEF ro
<1>4. CASE Continue(j, Halted(ro)) /\ degraded' = degraded \cup HeldBy(ro)
  <2>1. Tended(j.rollout, ro, degraded, Halted(ro))
    BY <1>1, <1>2, <1>4, HaltedTends DEF Continue
  <2>. QED BY <1>1, <1>2, <2>1, TendedKept
<1>. QED BY <1>3, <1>4 DEF ApplyUpdate

LEMMA ApplyInspectLands ==
  ASSUME TypeOK, OneInv, \A r \in RolloutIds : Fine(rollouts[r]), Grounded, LandingAccounted,
         NEW j \in jobs, ApplyInspect(j)
  PROVE  Grounded' /\ LandingAccounted'
<1> DEFINE ro == rollouts[j.rollout]
           old == ro.tgt[j.target]
           arrived == running[j.target] = ro.want[file[j.target].image]
           up == old.updated \/ arrived
           p == IF arrived /\ ro.force THEN "ready" ELSE old.phase
           rt == [old EXCEPT !.updated = up, !.phase = p]
<1>1. /\ j.rollout \in RolloutIds /\ j.target \in Targets
      /\ ro \in Rollout /\ ro.state = "Running" /\ ro.open /\ Active(ro)
      /\ Lands(ro, landing) /\ old.phase = "updating" /\ old \in RolloutTarget
  BY CountsLands DEF ApplyInspect
<1>2. file' = file /\ landing' = landing /\ running' = running /\ degraded' = degraded
  BY DEF ApplyInspect, Applying, fileVars, worldVars
<1>3. Continue(j, [ro EXCEPT !.tgt[j.target] = rt]) \/ rollouts' = rollouts
  BY DEF ApplyInspect
<1>4. up => old.updated \/ landing[j.target] = NoDigest
  <2>1. ro.tgt[j.target].phase = "updating"
    BY <1>1
  <2>2. landing[j.target] \in {NoDigest, ro.want[file[j.target].image]}
    BY <1>1, <2>1 DEF Lands
  <2>3. landing[j.target] # running[j.target]
    BY <1>1 DEF Grounded
  <2>. QED BY <2>2, <2>3
<1>5. up \in BOOLEAN /\ p \in {"updating", "ready"}
  BY <1>1 DEF RolloutTarget
<1> HIDE DEF up, p
<1>6. rt.phase = p /\ rt.node = old.node /\ rt.batch = old.batch
  BY <1>1 DEF RolloutTarget
<1>7. rt.updated <=> up
  BY <1>1, <1>5 DEF RolloutTarget
<1> HIDE DEF rt
<1>8. CASE Continue(j, [ro EXCEPT !.tgt[j.target] = rt])
  <2> DEFINE new == [ro EXCEPT !.tgt[j.target] = rt]
  <2>1. rollouts' = [rollouts EXCEPT ![j.rollout] = new]
    BY <1>8 DEF Continue
  <2> HIDE DEF ro
  <2>r. ro \in Rollout /\ j.target \in Targets
    BY <1>1
  <2>f. /\ new.nb = ro.nb /\ new.state = ro.state /\ new.open = ro.open /\ new.want = ro.want
        /\ new.group = ro.group
    BY <2>r DEF Rollout
  <2>t. \A u \in Targets : new.tgt[u] = IF u = j.target THEN rt ELSE ro.tgt[u]
    BY <2>r DEF Rollout
  <2> HIDE DEF new
  <2>u. /\ \A u \in Targets \ {j.target} : new.tgt[u] = ro.tgt[u]
        /\ new.tgt[j.target] = rt
    BY <2>r, <2>t
  <2>2. Tended(j.rollout, ro, degraded, new)
    BY <1>1, <1>2, <1>4, <1>5, <1>6, <1>7, <2>1, <2>f, <2>u, TargetTends
  <2>. QED BY <1>1, <1>2, <2>2, TendedKept DEF ro
<1>9. CASE rollouts' = rollouts
  BY <1>2, <1>9, AllMind, MindsKept
<1>. QED BY <1>3, <1>8, <1>9

LEMMA ApplyReadyLands ==
  ASSUME TypeOK, OneInv, \A r \in RolloutIds : Fine(rollouts[r]), Grounded, LandingAccounted,
         NEW j \in jobs, ApplyReady(j)
  PROVE  Grounded' /\ LandingAccounted'
<1> DEFINE ro == rollouts[j.rollout]
           rt == [ro.tgt[j.target] EXCEPT !.phase = "ready"]
<1>1. /\ j.rollout \in RolloutIds /\ j.target \in Targets
      /\ ro \in Rollout /\ ro.state = "Running" /\ ro.open /\ Active(ro)
      /\ Lands(ro, landing)
      /\ ro.tgt[j.target].phase = "updating" /\ ro.tgt[j.target] \in RolloutTarget
  BY CountsLands DEF ApplyReady
<1>2. file' = file /\ landing' = landing /\ running' = running /\ degraded' = degraded
  BY DEF ApplyReady, Applying, fileVars, worldVars
<1>3. CASE Continue(j, [ro EXCEPT !.tgt[j.target].phase = "ready"])
  <2>1. [ro EXCEPT !.tgt[j.target].phase = "ready"] = [ro EXCEPT !.tgt[j.target] = rt]
    BY <1>1 DEF Rollout
  <2>2. /\ rt.phase = "ready"
        /\ LET old == ro.tgt[j.target]
           IN rt.node = old.node /\ rt.batch = old.batch /\ rt.updated = old.updated
    BY <1>1 DEF RolloutTarget
  <2> DEFINE new == [ro EXCEPT !.tgt[j.target] = rt]
  <2>3. rollouts' = [rollouts EXCEPT ![j.rollout] = new]
    BY <1>3, <2>1 DEF Continue
  <2> HIDE DEF rt, ro
  <2>r. ro \in Rollout /\ j.target \in Targets
    BY <1>1
  <2>f. /\ new.nb = ro.nb /\ new.state = ro.state /\ new.open = ro.open /\ new.want = ro.want
        /\ new.group = ro.group
    BY <2>r DEF Rollout
  <2>t. \A u \in Targets : new.tgt[u] = IF u = j.target THEN rt ELSE ro.tgt[u]
    BY <2>r DEF Rollout
  <2> HIDE DEF new
  <2>u. /\ \A u \in Targets \ {j.target} : new.tgt[u] = ro.tgt[u]
        /\ new.tgt[j.target] = rt
    BY <2>r, <2>t
  <2>4. Tended(j.rollout, ro, degraded, new)
    BY <1>1, <1>2, <2>2, <2>3, <2>f, <2>u, TargetTends
  <2>. QED BY <1>1, <1>2, <2>4, TendedKept DEF ro
<1>4. CASE rollouts' = rollouts
  BY <1>2, <1>4, AllMind, MindsKept
<1>. QED BY <1>3, <1>4 DEF ApplyReady

LEMMA ApplyCheckLands ==
  ASSUME TypeOK, OneInv, \A q \in RolloutIds : Fine(rollouts[q]), Grounded, LandingAccounted,
         NEW r \in checks, ApplyCheckStale(r) \/ ApplyCheckPassed(r) \/ ApplyCheckFailed(r)
  PROVE  Grounded' /\ LandingAccounted'
<1> DEFINE old == rollouts[r]
<1>1. r \in RolloutIds /\ old \in Rollout /\ Fine(old) /\ Lands(old, landing)
  BY DEF TypeOK, Grounded
<1>2. file' = file /\ landing' = landing /\ running' = running
  BY DEF ApplyCheckStale, ApplyCheckPassed, ApplyCheckFailed, ApplyingCheck, fileVars, worldVars
<1>3. CASE ApplyCheckStale(r)
  BY <1>2, <1>3, AllMind, MindsKept DEF ApplyCheckStale
<1>4. ASSUME NEW ro, Kin(old, ro), ro.state = "Soaking", ro.state = old.state,
             ro.nb = old.nb, ro.open = old.open, ro.tgt = old.tgt, ro.want = old.want,
             \/ Conclude(r, ro, degraded)
             \/ Conclude(r, Passed(ro), degraded \ PassedBy(ro))
             \/ Conclude(r, Halted(ro), degraded \cup HeldBy(ro))
      PROVE  Grounded' /\ LandingAccounted'
  <2>1. /\ ro \in Rollout /\ Active(ro) /\ Active(old) /\ old.open
        /\ ro.group = old.group /\ Same(old, ro)
    BY <1>1, <1>4 DEF Kin, Same, Active, ActiveStates, Fine
  <2>2. InBatch(ro) = InBatch(old) /\ Tracked(ro) = Tracked(old)
    BY <1>4, <2>1 DEF InBatch, Tracked
  <2>3. Shape(ro) /\ Traced(ro) /\ ro.open /\ \A u \in InBatch(ro) : ro.tgt[u].phase # "pending"
    BY <1>1, <1>4, <2>1, <2>2 DEF Fine, Shape, Traced, TargetsIn
  <2>4. Lands(ro, landing)
    BY <1>1, <1>4, <2>1, LandsSame
  <2>5. ASSUME NEW new, Tended(r, ro, degraded, new) PROVE Grounded' /\ LandingAccounted'
    <3>1. Tended(r, old, degraded, new)
      BY <1>4, <2>1, <2>2, <2>5, TendedFrom
    <3>. QED BY <1>1, <1>2, <2>1, <3>1, TendedKept
  <2>6. CASE Conclude(r, ro, degraded)
    <3>1. Tended(r, ro, degraded, ro)
      BY <1>2, <1>4, <2>1, <2>4, <2>6, CalmSelf, SettleTends DEF Conclude
    <3>. QED BY <2>5, <3>1
  <2>7. CASE Conclude(r, Passed(ro), degraded \ PassedBy(ro))
    <3>1. InBatch(ro) \subseteq TargetsIn(ro, {"ready", "skipped"})
      BY <1>4, <2>1, <2>3 DEF Shape
    <3>2. Tended(r, ro, degraded, Passed(ro))
      BY <1>2, <2>1, <2>3, <2>4, <2>7, <3>1, PassedTends DEF Conclude
    <3>. QED BY <2>5, <3>2
  <2>8. CASE Conclude(r, Halted(ro), degraded \cup HeldBy(ro))
    <3>1. Tended(r, ro, degraded, Halted(ro))
      BY <1>2, <2>1, <2>3, <2>4, <2>8, HaltedTends DEF Conclude
    <3>. QED BY <2>5, <3>1
  <2>. QED BY <1>4, <2>6, <2>7, <2>8
<1>5. CASE ApplyCheckPassed(r) \/ ApplyCheckFailed(r)
  <2>1. rollouts[r] \in Rollout
    BY <1>1 DEF TypeOK
  <2>2. PICK ro :
          /\ Kin(rollouts[r], ro) /\ ro.state = "Soaking" /\ ro.state = rollouts[r].state
          /\ ro.nb = rollouts[r].nb /\ ro.open = rollouts[r].open /\ ro.tgt = rollouts[r].tgt
          /\ ro.want = rollouts[r].want
          /\ \/ Conclude(r, ro, degraded)
             \/ Conclude(r, Passed(ro), degraded \ PassedBy(ro))
             \/ Conclude(r, Halted(ro), degraded \cup HeldBy(ro))
    BY <1>5, <2>1, CheckConcludes
  <2>. QED BY <1>4, <2>2
<1>. QED BY <1>3, <1>5

-----------------------------------------------------------------------------
\* Steps of the world.

\* What was landing has landed or come to nothing.
LEMMA LandKeeps ==
  ASSUME TypeOK, Grounded, LandingAccounted, NEW t \in Targets, Land(t) \/ Fizzle(t)
  PROVE  Grounded' /\ LandingAccounted'
<1>1. /\ rollouts' = rollouts /\ file' = file /\ degraded' = degraded
      /\ landing' = [landing EXCEPT ![t] = NoDigest]
      /\ running' = running \/ running' = [running EXCEPT ![t] = landing[t]]
      /\ landing[t] # NoDigest
  BY DEF Land, Fizzle, fileVars
<1>2. \A u \in Targets : /\ landing'[u] = IF u = t THEN NoDigest ELSE landing[u]
                         /\ u # t => running'[u] = running[u]
  BY <1>1 DEF TypeOK
<1>3. \A u \in Targets : running'[u] # NoDigest
  BY <1>1, NamesAssumption DEF TypeOK
<1>4. ASSUME NEW r \in RolloutIds PROVE AtHome(rollouts[r]) /\ Lands(rollouts[r], landing')
  BY <1>2 DEF Grounded, Lands
<1>5. \A u \in Targets : landing'[u] # running'[u]
  BY <1>2, <1>3 DEF Grounded
<1>6. Grounded'
  BY <1>1, <1>4, <1>5, SMTT(30) DEF Grounded, AtHome, Lands
<1>7. LandingAccounted'
  BY <1>1, <1>2 DEF LandingAccounted
<1>. QED BY <1>6, <1>7

\* A hold runs out on what no longer lands.
LEMMA HoldLapseLands ==
  ASSUME TypeOK, NEW r \in RolloutIds, Fine(rollouts[r]), Grounded, LandingAccounted,
         NEW t \in Targets, HoldLapse(r, t)
  PROVE  Grounded' /\ LandingAccounted'
<1> DEFINE old == rollouts[r]
           rt == [old.tgt[t] EXCEPT !.hold = FALSE]
           ro == [old EXCEPT !.tgt[t] = rt]
<1>0. old \in Rollout /\ ~Active(old) /\ AtHome(old) /\ old.tgt[t] \in RolloutTarget /\ landing[t] = NoDigest
  BY TgtType DEF TypeOK, Fine, Shape, HoldLapse, Grounded
<1>1. old \in Rollout
  BY <1>0
<1>2. rt.phase = old.tgt[t].phase /\ rt.node = old.tgt[t].node /\ rt.batch = old.tgt[t].batch
  BY <1>0 DEF RolloutTarget
<1>3. ~rt.hold
  BY <1>0 DEF RolloutTarget
<1>4. rollouts' = [rollouts EXCEPT ![r] = ro]
  BY <1>0 DEF HoldLapse, TypeOK, Rollout
<1>5. /\ file' = file /\ landing' = landing /\ running' = running /\ degraded' = degraded
  BY DEF HoldLapse, fileVars, worldVars
<1>h. old.tgt[t].hold
  BY DEF HoldLapse
<1> HIDE DEF rt, old
<1>6. ro.state = old.state /\ ro.want = old.want /\ ro.group = old.group
  BY <1>1 DEF Rollout
<1>7. \A u \in Targets : ro.tgt[u] = IF u = t THEN rt ELSE old.tgt[u]
  BY <1>1 DEF Rollout
<1> HIDE DEF ro
<1>8. Same(old, ro) /\ ~Active(ro)
  BY <1>0, <1>2, <1>6, <1>7 DEF Same, Active
<1>9. AtHome(ro)
  BY <1>0, <1>6, <1>8, HomeSame
<1>10. ro.state # "None"
  BY <1>0, <1>6, <1>h DEF Grounded, Tracked, old
<1>11. \A u \in Tracked(old) : landing[u] # NoDigest => u \in Tracked(ro)
  BY <1>0, <1>7, <1>8 DEF Tracked
<1>12. Minds(old, ro)
  BY <1>8, <1>9, <1>10, <1>11 DEF Minds, Lands
<1>13. \A q \in RolloutIds : Minds(rollouts[q], rollouts'[q])
  BY <1>4, <1>12, AllMind, OneMinds DEF TypeOK, old
<1>. QED BY <1>5, <1>13, MindsKept

\* Without suspensions and reloads nothing is suspended and nothing leaves.
LEMMA StillStep ==
  ASSUME Still, "reload" \notin Verbs, "suspend" \notin Verbs, [Next]_vars
  PROVE  Still'
<1>1. CASE TickStep
  <2>1. TickStart => Still'
    BY DEF TickStart, Still, fileVars
  <2>2. OpenDone \/ PlanDone \/ ExecDone \/ TickDone => Still'
    BY DEF OpenDone, PlanDone, ExecDone, TickDone, Still, fileVars, peopleVars
  <2>3. ASSUME NEW g, OpenGroup(g) PROVE Still'
    BY <2>3 DEF OpenGroup, Still, fileVars, peopleVars
  <2>4. ASSUME NEW r, PlanStep(r) PROVE Still'
    BY <2>4 DEF PlanStep, PlanNothing, PlanRetry, PlanStart, PlanOpen, PlanLate, PlanSoak, Planning,
                Still, fileVars, peopleVars
  <2>5. ASSUME NEW j, ApplyStale(j) \/ ApplyUpdate(j) \/ ApplyInspect(j) \/ ApplyReady(j) PROVE Still'
    BY <2>5, ZenonT(30)
       DEF ApplyStale, ApplyUpdate, ApplyInspect, ApplyReady, Applying, Still, fileVars, peopleVars
  <2>6. ASSUME NEW r, ApplyCheckStale(r) \/ ApplyCheckPassed(r) \/ ApplyCheckFailed(r) PROVE Still'
    BY <2>6 DEF ApplyCheckStale, ApplyCheckPassed, ApplyCheckFailed, ApplyingCheck, Still, fileVars, peopleVars
  <2>. QED BY <1>1, <2>1, <2>2, <2>3, <2>4, <2>5, <2>6 DEF TickStep, ApplyStep
<1>2. CASE WorldStep
  <2>1. Resolve \/ CheckEnvironment => Still'
    BY DEF Resolve, CheckEnvironment, Still, fileVars, peopleVars
  <2>2. ASSUME NEW t, InspectAll(t) \/ Land(t) \/ Fizzle(t) PROVE Still'
    BY <2>2 DEF InspectAll, Land, Fizzle, Still, fileVars, peopleVars
  <2>3. ASSUME NEW r, NEW t, HoldLapse(r, t) PROVE Still'
    BY <2>3 DEF HoldLapse, Still, fileVars, peopleVars
  <2>4. Forget \/ (\E f \in Files : Reload(f)) => FALSE
    BY DEF Forget, Reload, Still
  <2>. QED BY <1>2, <2>1, <2>2, <2>3, <2>4 DEF WorldStep
<1>3. CASE PeopleStep
  <2>1. ASSUME NEW g, NEW force, NEW strategy, NEW f, Sync(g, force, strategy, f) PROVE Still'
    BY <2>1 DEF Sync, Still, fileVars, peopleVars
  <2>2. ASSUME NEW sel, Suspend(sel) \/ Resume(sel) PROVE FALSE
    BY <2>2 DEF Suspend, Resume
  <2>3. ASSUME NEW g, NEW p, SetPolicy(g, p) PROVE Still'
    BY <2>3 DEF SetPolicy, Still, fileVars
  <2>4. ASSUME NEW r, Pause(r) \/ Promote(r) \/ Abort(r) \/ Retry(r) PROVE Still'
    BY <2>4 DEF Pause, Promote, Abort, Retry, OnRollout, Still, fileVars, peopleVars
  <2>. QED BY <1>3, <2>1, <2>2, <2>3, <2>4 DEF PeopleStep
<1>4. CASE UNCHANGED vars
  BY <1>4 DEF vars, Still
<1>. QED BY <1>1, <1>2, <1>3, <1>4 DEF Next

LEMMA LandingStep ==
  ASSUME LInv, "reload" \notin Verbs, "suspend" \notin Verbs, [Next]_vars
  PROVE  Grounded' /\ LandingAccounted'
<1>0. /\ TypeOK /\ OneInv /\ Agreed /\ Resolved /\ Still /\ Grounded /\ LandingAccounted
      /\ \A r \in RolloutIds : Fine(rollouts[r])
  BY DEF LInv, UInv, FInv
<1>1. ASSUME file' = file, landing' = landing, running' = running, degraded' = degraded, rollouts' = rollouts
      PROVE  Grounded' /\ LandingAccounted'
  BY <1>0, <1>1, AllMind, MindsKept
<1>2. CASE TickStep
  <2>1. CASE TickStart
    BY <1>0, <2>1, TickStartLands
  <2>2. ASSUME NEW g \in opening, OpenGroup(g) PROVE Grounded' /\ LandingAccounted'
    BY <1>0, <2>2, OpenGroupLands
  <2>3. CASE OpenDone \/ PlanDone \/ ExecDone \/ TickDone
    BY <1>1, <2>3 DEF OpenDone, PlanDone, ExecDone, TickDone, fileVars, worldVars
  <2>4. ASSUME NEW r \in planning, PlanStep(r) PROVE Grounded' /\ LandingAccounted'
    <3>1. r \in RolloutIds /\ pc = "plan"
      BY <1>0, <2>4, PlanKeeps DEF TypeOK
    <3>2. InPlan(r)
      BY <1>0, <3>1 DEF InPlan, Grounded
    <3>. QED BY <1>0, <2>4, <3>1, <3>2, PlanLands
  <2>5. ASSUME NEW j \in jobs, ApplyStale(j) \/ ApplyUpdate(j) \/ ApplyInspect(j) \/ ApplyReady(j)
        PROVE  Grounded' /\ LandingAccounted'
    BY <1>0, <2>5, ApplyStaleLands, ApplyUpdateLands, ApplyInspectLands, ApplyReadyLands
  <2>6. ASSUME NEW r \in checks, ApplyCheckStale(r) \/ ApplyCheckPassed(r) \/ ApplyCheckFailed(r)
        PROVE  Grounded' /\ LandingAccounted'
    BY <1>0, <2>6, ApplyCheckLands
  <2>. QED BY <1>2, <2>1, <2>2, <2>3, <2>4, <2>5, <2>6 DEF TickStep, ApplyStep
<1>3. CASE WorldStep
  <2>1. Resolve \/ CheckEnvironment \/ (\E t \in Targets : InspectAll(t)) => Grounded' /\ LandingAccounted'
    BY <1>1 DEF Resolve, CheckEnvironment, InspectAll, fileVars, worldVars
  <2>2. ASSUME NEW t \in Targets, Land(t) \/ Fizzle(t) PROVE Grounded' /\ LandingAccounted'
    BY <1>0, <2>2, LandKeeps
  <2>3. ASSUME NEW r \in RolloutIds, NEW t \in Targets, HoldLapse(r, t) PROVE Grounded' /\ LandingAccounted'
    BY <1>0, <2>3, HoldLapseLands
  <2>4. Forget \/ (\E f \in Files : Reload(f)) => FALSE
    BY <1>0 DEF Forget, Reload, Still
  <2>. QED BY <1>3, <2>1, <2>2, <2>3, <2>4 DEF WorldStep
<1>4. CASE PeopleStep
  <2>1. ASSUME NEW g \in Groups, NEW force \in BOOLEAN, NEW strategy \in DOMAIN StrategyOf,
               NEW f \in HeldFiles, Sync(g, force, strategy, f)
        PROVE  Grounded' /\ LandingAccounted'
    BY <1>0, <2>1, SyncLands
  <2>2. ASSUME NEW sel, Suspend(sel) \/ Resume(sel) PROVE FALSE
    BY <2>2 DEF Suspend, Resume
  <2>3. ASSUME NEW g, NEW p, SetPolicy(g, p) PROVE Grounded' /\ LandingAccounted'
    BY <1>1, <2>3 DEF SetPolicy, fileVars, worldVars
  <2>4. ASSUME NEW r \in RolloutIds, Pause(r) \/ Promote(r) \/ Abort(r) \/ Retry(r)
        PROVE  Grounded' /\ LandingAccounted'
    BY <1>0, <2>4, VerbLands
  <2>. QED BY <1>4, <2>1, <2>2, <2>3, <2>4 DEF PeopleStep
<1>5. CASE UNCHANGED vars
  BY <1>1, <1>5 DEF vars
<1>. QED BY <1>2, <1>3, <1>4, <1>5 DEF Next

LEMMA LandingInit ==
  ASSUME Init
  PROVE  Still /\ Grounded /\ LandingAccounted
<1>1. /\ rollouts = [r \in RolloutIds |-> NoRollout] /\ landing = [t \in Targets |-> NoDigest]
      /\ running = [t \in Targets |-> FirstDigest] /\ suspensions = {} /\ gone = {}
  BY DEF Init
<1>2. NoRollout.state = "None" /\ \A t \in Targets : NoRollout.tgt[t] = NoTarget
  BY DEF NoRollout
<1>3. NoTarget.phase = "none" /\ ~NoTarget.hold
  BY DEF NoTarget
<1>4. \E d \in Digests : \A e \in Digests : d <= e
  BY NamesAssumption, LeastNat
<1>5. FirstDigest # NoDigest
  BY <1>4, NamesAssumption DEF FirstDigest
<1>6. AtHome(NoRollout) /\ Lands(NoRollout, landing) /\ Tracked(NoRollout) = {}
  BY <1>2, <1>3 DEF AtHome, Lands, Tracked, Active, ActiveStates
<1>. QED BY <1>1, <1>5, <1>6 DEF Still, Grounded, LandingAccounted

\* While nothing is reloaded or suspended, a target an update may still be
\* changing is known to the budget: its rollout tracks it, holds it after its
\* end, or it is in quarantine, whatever fails and whoever aborts, retries,
\* forces or supersedes.
THEOREM LandingsAccounted ==
  ASSUME "reload" \notin Verbs, "suspend" \notin Verbs
  PROVE  Spec => []LandingAccounted
<1>1. Init => LInv
  BY UInvInit, LandingInit DEF LInv
<1>2. LInv /\ [Next]_vars => LInv'
  BY UInvStep, StillStep, LandingStep DEF LInv
<1>3. LInv => LandingAccounted
  BY DEF LInv
<1>. QED BY <1>1, <1>2, <1>3, PTL DEF Spec

====
