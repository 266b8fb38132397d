---- MODULE DurableProofs ----
(***************************************************************************)
(* What the store has, for every fleet, any number of refused writes and   *)
(* any number of stops: types, what a clean controller has saved, and      *)
(* aborts that survive.                                                    *)
(***************************************************************************)
EXTENDS Durable, LandingProofs

-----------------------------------------------------------------------------
\* Records, and what memory has in them.

LEMMA KeyOf ==
  /\ \A r \in RolloutIds : <<"rollout", r>> \in Keys
  /\ \A t \in Targets : <<"degraded", t>> \in Keys /\ <<"live", t>> \in Keys
  /\ \A i \in Images : <<"desired", i>> \in Keys
  /\ \A g \in Groups : <<"aborted", g>> \in Keys /\ <<"policy", g>> \in Keys
  /\ \A sel \in Selectors : <<"suspension", sel>> \in Keys
  BY DEF Keys

LEMMA KeyKinds ==
  ASSUME NEW k \in Keys
  PROVE  \/ \E r \in RolloutIds : k = <<"rollout", r>>
         \/ \E t \in Targets : k = <<"degraded", t>> \/ k = <<"live", t>>
         \/ \E i \in Images : k = <<"desired", i>>
         \/ \E g \in Groups : k = <<"aborted", g>> \/ k = <<"policy", g>>
         \/ \E sel \in Selectors : k = <<"suspension", sel>>
  BY DEF Keys

\* The kinds of record have different names.
LEMMA KindOf ==
  ASSUME NEW x
  PROVE  /\ <<"rollout", x>>[1] = "rollout" /\ <<"degraded", x>>[1] = "degraded"
         /\ <<"live", x>>[1] = "live" /\ <<"desired", x>>[1] = "desired"
         /\ <<"aborted", x>>[1] = "aborted" /\ <<"policy", x>>[1] = "policy"
         /\ <<"suspension", x>>[1] = "suspension"
  OBVIOUS

LEMMA MemoryOf ==
  /\ \A r \in RolloutIds : Memory[<<"rollout", r>>] = rollouts[r]
  /\ \A t \in Targets : /\ Memory[<<"degraded", t>>] = (t \in degraded)
                        /\ Memory[<<"live", t>>] = live[t]
  /\ \A i \in Images : Memory[<<"desired", i>>] = desired[i]
  /\ \A g \in Groups : /\ Memory[<<"aborted", g>>] = aborted[g]
                       /\ Memory[<<"policy", g>>] = policy[g]
  /\ \A sel \in Selectors : Memory[<<"suspension", sel>>] = (sel \in suspensions)
  BY KeyOf DEF Memory

LEMMA MemoryOfNext ==
  /\ \A r \in RolloutIds : Memory'[<<"rollout", r>>] = rollouts'[r]
  /\ \A t \in Targets : /\ Memory'[<<"degraded", t>>] = (t \in degraded')
                        /\ Memory'[<<"live", t>>] = live'[t]
  /\ \A i \in Images : Memory'[<<"desired", i>>] = desired'[i]
  /\ \A g \in Groups : /\ Memory'[<<"aborted", g>>] = aborted'[g]
                       /\ Memory'[<<"policy", g>>] = policy'[g]
  /\ \A sel \in Selectors : Memory'[<<"suspension", sel>>] = (sel \in suspensions')
  BY KeyOf DEF Memory

-----------------------------------------------------------------------------
\* Types of a store.

\* What an abort's marker may say: nothing, or what the group wanted.
Markers == SUBSET SUBSET (Images \X Digests)

Fits(d) ==
  /\ DOMAIN d = Keys
  /\ \A r \in RolloutIds : d[<<"rollout", r>>] \in Rollout
  /\ \A t \in Targets : d[<<"degraded", t>>] \in BOOLEAN /\ d[<<"live", t>>] \in MaybeDigest
  /\ \A i \in Images : d[<<"desired", i>>] \in MaybeDigest
  /\ \A g \in Groups : /\ d[<<"aborted", g>>] \in Markers
                       /\ d[<<"policy", g>>] \in Policy
  /\ \A sel \in Selectors : d[<<"suspension", sel>>] \in BOOLEAN

Counted == dirty \in BOOLEAN /\ failures \in 0 .. MaxFailures /\ crashes \in 0 .. MaxCrashes

DInv == TypeOK /\ Fits(disk) /\ Counted

LEMMA MemoryFits ==
  ASSUME TypeOK
  PROVE  Fits(Memory)
<1>1. DOMAIN Memory = Keys
  BY Zenon DEF Memory
<1>2. \A r \in RolloutIds : rollouts[r] \in Rollout
  BY DEF TypeOK
<1>3. \A t \in Targets : (t \in degraded) \in BOOLEAN /\ live[t] \in MaybeDigest
  BY DEF TypeOK
<1>4. \A i \in Images : desired[i] \in MaybeDigest
  BY DEF TypeOK
<1>5. \A g \in Groups : aborted[g] \in Markers /\ policy[g] \in Policy
  BY DEF TypeOK, Markers
<1>6. \A sel \in Selectors : (sel \in suspensions) \in BOOLEAN
  OBVIOUS
<1>. QED BY <1>1, <1>2, <1>3, <1>4, <1>5, <1>6, MemoryOf DEF Fits

LEMMA MemoryFitsNext ==
  ASSUME TypeOK'
  PROVE  Fits(Memory')
<1>1. DOMAIN Memory' = Keys
  BY Zenon DEF Memory
<1>2. \A r \in RolloutIds : rollouts'[r] \in Rollout
  BY DEF TypeOK
<1>3. \A t \in Targets : (t \in degraded') \in BOOLEAN /\ live'[t] \in MaybeDigest
  BY DEF TypeOK
<1>4. \A i \in Images : desired'[i] \in MaybeDigest
  BY DEF TypeOK
<1>5. \A g \in Groups : aborted'[g] \in Markers /\ policy'[g] \in Policy
  BY DEF TypeOK, Markers
<1>6. \A sel \in Selectors : (sel \in suspensions') \in BOOLEAN
  OBVIOUS
<1>. QED BY <1>1, <1>2, <1>3, <1>4, <1>5, <1>6, MemoryOfNext DEF Fits

\* A store made of the records of two others.
LEMMA MixFits ==
  ASSUME NEW a, NEW b, NEW d, Fits(a), Fits(b), DOMAIN d = Keys,
         \A k \in Keys : d[k] \in {a[k], b[k]}
  PROVE  Fits(d)
<1>1. \A k \in Keys : d[k] = a[k] \/ d[k] = b[k]
  OBVIOUS
<1>2. \A r \in RolloutIds : d[<<"rollout", r>>] \in Rollout
  BY <1>1, KeyOf DEF Fits
<1>3. \A t \in Targets : d[<<"degraded", t>>] \in BOOLEAN /\ d[<<"live", t>>] \in MaybeDigest
  BY <1>1, KeyOf DEF Fits
<1>4. \A i \in Images : d[<<"desired", i>>] \in MaybeDigest
  BY <1>1, KeyOf DEF Fits
<1>5. \A g \in Groups : /\ d[<<"aborted", g>>] \in Markers
                        /\ d[<<"policy", g>>] \in Policy
  BY <1>1, KeyOf DEF Fits
<1>6. \A sel \in Selectors : d[<<"suspension", sel>>] \in BOOLEAN
  BY <1>1, KeyOf DEF Fits
<1>. QED BY <1>2, <1>3, <1>4, <1>5, <1>6 DEF Fits

LEMMA UpdatedFits ==
  ASSUME NEW d, NEW ks, Fits(d), TypeOK'
  PROVE  Fits(Updated(d, ks))
<1>1. DOMAIN Updated(d, ks) = Keys /\ \A k \in Keys : Updated(d, ks)[k] \in {d[k], Memory'[k]}
  BY DEF Updated
<1>. QED BY <1>1, MemoryFitsNext, MixFits

LEMMA FlushedFits ==
  ASSUME TypeOK, Fits(disk)
  PROVE  Fits(Flushed)
<1>1. DOMAIN Flushed = Keys /\ \A k \in Keys : Flushed[k] \in {disk[k], Memory[k]}
  BY DEF Flushed
<1>. QED BY <1>1, MemoryFits, MixFits

\* One rollout, or one marker, of a store is another.
LEMMA RolloutFits ==
  ASSUME NEW d, Fits(d), NEW r \in RolloutIds, NEW ro \in Rollout
  PROVE  Fits([d EXCEPT ![<<"rollout", r>>] = ro])
<1> DEFINE e == [d EXCEPT ![<<"rollout", r>>] = ro]
<1>1. DOMAIN e = Keys /\ \A k \in Keys : e[k] = IF k = <<"rollout", r>> THEN ro ELSE d[k]
  BY DEF Fits
<1> HIDE DEF e
<1>2. \A q \in RolloutIds : e[<<"rollout", q>>] \in Rollout
  BY <1>1, KeyOf DEF Fits
<1>3. \A k \in Keys : k[1] # "rollout" => e[k] = d[k]
  BY <1>1
<1>4. \A t \in Targets : e[<<"degraded", t>>] \in BOOLEAN /\ e[<<"live", t>>] \in MaybeDigest
  BY <1>3, KeyOf, KindOf DEF Fits
<1>5. \A i \in Images : e[<<"desired", i>>] \in MaybeDigest
  BY <1>3, KeyOf, KindOf DEF Fits
<1>6. \A g \in Groups : /\ e[<<"aborted", g>>] \in Markers
                        /\ e[<<"policy", g>>] \in Policy
  BY <1>3, KeyOf, KindOf DEF Fits
<1>7. \A sel \in Selectors : e[<<"suspension", sel>>] \in BOOLEAN
  BY <1>3, KeyOf, KindOf DEF Fits
<1>8. Fits(e)
  BY <1>1, <1>2, <1>4, <1>5, <1>6, <1>7 DEF Fits
<1>. QED BY <1>8 DEF e

LEMMA MarkerFits ==
  ASSUME NEW d, Fits(d), NEW h \in Groups, NEW m \in Markers
  PROVE  Fits([d EXCEPT ![<<"aborted", h>>] = m])
<1> DEFINE e == [d EXCEPT ![<<"aborted", h>>] = m]
<1>1. DOMAIN e = Keys /\ \A k \in Keys : e[k] = IF k = <<"aborted", h>> THEN m ELSE d[k]
  BY DEF Fits
<1> HIDE DEF e
<1>2. \A g \in Groups : e[<<"aborted", g>>] \in Markers
  BY <1>1, KeyOf DEF Fits
<1>3. \A k \in Keys : k[1] # "aborted" => e[k] = d[k]
  BY <1>1
<1>4. \A t \in Targets : e[<<"degraded", t>>] \in BOOLEAN /\ e[<<"live", t>>] \in MaybeDigest
  BY <1>3, KeyOf, KindOf DEF Fits
<1>5. \A i \in Images : e[<<"desired", i>>] \in MaybeDigest
  BY <1>3, KeyOf, KindOf DEF Fits
<1>6. \A g \in Groups : e[<<"policy", g>>] \in Policy
  BY <1>3, KeyOf, KindOf DEF Fits
<1>7. /\ \A sel \in Selectors : e[<<"suspension", sel>>] \in BOOLEAN
      /\ \A q \in RolloutIds : e[<<"rollout", q>>] \in Rollout
  BY <1>3, KeyOf, KindOf DEF Fits
<1>8. Fits(e)
  BY <1>1, <1>2, <1>4, <1>5, <1>6, <1>7 DEF Fits
<1>. QED BY <1>8 DEF e

LEMMA DiskTyped ==
  ASSUME DInv
  PROVE  DiskTypeOK
<1>1. DOMAIN disk = Keys
  BY DEF DInv, Fits
<1>2. ASSUME NEW k \in Keys, k[1] \in {"degraded", "suspension"} PROVE disk[k] \in BOOLEAN
  <2>1. ASSUME NEW r \in RolloutIds, k = <<"rollout", r>> PROVE FALSE
    BY <1>2, <2>1, KindOf
  <2>2. ASSUME NEW t \in Targets, k = <<"degraded", t>> PROVE disk[k] \in BOOLEAN
    BY <2>2 DEF DInv, Fits
  <2>3. ASSUME NEW t \in Targets, k = <<"live", t>> PROVE FALSE
    BY <1>2, <2>3, KindOf
  <2>4. ASSUME NEW i \in Images, k = <<"desired", i>> PROVE FALSE
    BY <1>2, <2>4, KindOf
  <2>5. ASSUME NEW g \in Groups, k = <<"aborted", g>> \/ k = <<"policy", g>> PROVE FALSE
    BY <1>2, <2>5, KindOf
  <2>6. ASSUME NEW sel \in Selectors, k = <<"suspension", sel>> PROVE disk[k] \in BOOLEAN
    BY <2>6 DEF DInv, Fits
  <2>. QED BY <2>1, <2>2, <2>3, <2>4, <2>5, <2>6, KeyKinds
<1>. QED BY <1>1, <1>2 DEF DInv, Counted, Fits, DiskTypeOK

-----------------------------------------------------------------------------
\* Types: what a step writes.

LEMMA WriteFits ==
  ASSUME NEW old, NEW new, NEW records, NEW before \in BOOLEAN, Fits(old), Fits(new), Counted,
         Write(old, new, records, before)
  PROVE  Fits(disk') /\ Counted'
<1>1. CASE disk' = new /\ dirty' = before /\ UNCHANGED boundVars
  BY <1>1 DEF Counted, boundVars
<1>2. ASSUME Refusing,
             NEW refused, disk' = [k \in Keys |-> IF k \in refused THEN old[k] ELSE new[k]]
      PROVE  Fits(disk') /\ Counted'
  <2>1. DOMAIN disk' = Keys /\ \A k \in Keys : disk'[k] \in {old[k], new[k]}
    BY <1>2
  <2>2. Counted'
    BY <1>2, BoundsAssumption DEF Refusing, Counted
  <2>. QED BY <2>1, <2>2, MixFits
<1>. QED BY <1>1, <1>2 DEF Write

LEMMA SavedFits ==
  ASSUME DInv, TypeOK', NEW ks, NEW records, Write(disk, Updated(disk, ks), records, dirty)
  PROVE  Fits(disk') /\ Counted'
<1>1. Fits(Updated(disk, ks)) /\ dirty \in BOOLEAN
  BY UpdatedFits DEF DInv, Counted
<1>. QED BY <1>1, WriteFits DEF DInv

LEMMA PlanSavedType ==
  ASSUME DInv, TypeOK', NEW r \in RolloutIds
  PROVE  PlanSaved(r) \in Rollout
<1> DEFINE ro == rollouts[r]
           new == rollouts'[r]
           seen == {t \in Targets : live[t] # NoDigest /\ \E i \in Images : ro.want[i] = live[t]}
           ts == {j.target : j \in {k \in jobs' : k.rollout = r}}
           cut == [new EXCEPT !.tgt = [t \in Targets |->
                     IF t \in ts THEN [new.tgt[t] EXCEPT !.phase = "pending"] ELSE new.tgt[t]]]
<1>1. ro \in Rollout /\ new \in Rollout
  BY DEF DInv, TypeOK
<1>2. disk[<<"rollout", r>>] \in Rollout
  BY DEF DInv, Fits
<1>3. Retried(ro, seen, degraded) \in Rollout
  <2> HIDE DEF seen
  <2>. QED BY <1>1, RetriedType DEF Kin
<1>4. cut \in Rollout
  <2> HIDE DEF new, ts
  <2>1. \A t \in Targets : /\ new.tgt[t] \in RolloutTarget
                           /\ [new.tgt[t] EXCEPT !.phase = "pending"] \in RolloutTarget
    BY <1>1, TgtType, PhaseType, PhaseNames DEF new
  <2>. QED BY <1>1, <2>1 DEF Rollout
<1>5. PlanSaved(r) \in {new, Retried(ro, seen, degraded), disk[<<"rollout", r>>], cut}
  BY DEF PlanSaved
<1> HIDE DEF ro, new, seen, ts, cut
<1>. QED BY <1>1, <1>2, <1>3, <1>4, <1>5

LEMMA LapseFits ==
  ASSUME DInv, NEW r \in RolloutIds, NEW t \in Targets, SavingLapse(r, t)
  PROVE  Fits(disk') /\ Counted'
<1> DEFINE ro == disk[<<"rollout", r>>]
           rt == [ro.tgt[t] EXCEPT !.hold = FALSE]
           new == [ro EXCEPT !.tgt[t] = rt]
<1>1. ro \in Rollout
  BY DEF DInv, Fits
<1>2. rt \in RolloutTarget
  <2>1. ro.tgt[t] \in RolloutTarget
    BY <1>1, TgtType
  <2>. QED BY <2>1 DEF RolloutTarget
<1>3. disk' = [disk EXCEPT ![<<"rollout", r>>] = new]
  <2>1. DOMAIN disk = Keys /\ <<"rollout", r>> \in Keys
    BY KeyOf DEF DInv, Fits
  <2>2. disk' = [disk EXCEPT ![<<"rollout", r>>].tgt[t].hold = FALSE]
    BY DEF SavingLapse
  <2>. QED BY <1>1, <2>1, <2>2 DEF Rollout
<1>4. new \in Rollout
  <2> HIDE DEF rt
  <2>. QED BY <1>1, <1>2, OneTarget DEF Kin
<1> HIDE DEF new
<1>5. Fits(disk')
  BY <1>3, <1>4, RolloutFits DEF DInv
<1>. QED BY <1>5 DEF DInv, Counted, SavingLapse, boundVars

LEMMA RequeuedType ==
  ASSUME NEW ro \in Rollout
  PROVE  /\ Kin(ro, Requeued(ro)) /\ Requeued(ro).state = ro.state
<1> DEFINE new == Requeued(ro)
<1>1. \A t \in Targets : /\ ro.tgt[t] \in RolloutTarget
                         /\ [ro.tgt[t] EXCEPT !.phase = "pending"] \in RolloutTarget
  BY TgtType, PhaseType, PhaseNames
<1>. QED BY <1>1 DEF Requeued, Rollout, Kin

\* The store a restart continues from.
LEMMA RestoredType ==
  ASSUME NEW d, Fits(d)
  PROVE  /\ Fits(Restored(d))
         /\ \A r \in RolloutIds :
              LET ro == d[<<"rollout", r>>]
              IN Restored(d)[<<"rollout", r>>] =
                   IF Active(ro) /\ d[<<"aborted", ro.group>>] # {}
                   THEN Requeued(Ended(ro, "Aborted")) ELSE Requeued(ro)
         /\ \A k \in Keys : k[1] # "rollout" => Restored(d)[k] = d[k]
<1> DEFINE e == Restored(d)
<1>1. DOMAIN e = Keys /\ \A k \in Keys : k[1] # "rollout" => e[k] = d[k]
  BY DEF Restored
<1>2. \A r \in RolloutIds :
        LET ro == d[<<"rollout", r>>]
        IN e[<<"rollout", r>>] =
             IF Active(ro) /\ d[<<"aborted", ro.group>>] # {}
             THEN Requeued(Ended(ro, "Aborted")) ELSE Requeued(ro)
  BY KeyOf, KindOf DEF Restored
<1> HIDE DEF e
<1>3. \A r \in RolloutIds : e[<<"rollout", r>>] \in Rollout
  <2>1. ASSUME NEW ro \in Rollout PROVE Requeued(ro) \in Rollout /\ Requeued(Ended(ro, "Aborted")) \in Rollout
    BY RequeuedType, EndedType DEF Kin, States, EndedStates
  <2>. QED BY <1>2, <2>1 DEF Fits
<1>4. \A t \in Targets : e[<<"degraded", t>>] \in BOOLEAN /\ e[<<"live", t>>] \in MaybeDigest
  BY <1>1, KeyOf, KindOf DEF Fits
<1>5. \A i \in Images : e[<<"desired", i>>] \in MaybeDigest
  BY <1>1, KeyOf, KindOf DEF Fits
<1>6. \A g \in Groups : /\ e[<<"aborted", g>>] \in Markers
                        /\ e[<<"policy", g>>] \in Policy
  BY <1>1, KeyOf, KindOf DEF Fits
<1>7. \A sel \in Selectors : e[<<"suspension", sel>>] \in BOOLEAN
  BY <1>1, KeyOf, KindOf DEF Fits
<1>8. Fits(e)
  BY <1>1, <1>3, <1>4, <1>5, <1>6, <1>7 DEF Fits
<1>. QED BY <1>1, <1>2, <1>8 DEF e

LEMMA CrashType ==
  ASSUME DInv, Crash
  PROVE  DInv'
<1> DEFINE d == Restored(disk)
<1>1. Fits(d)
  BY RestoredType DEF DInv
<1> HIDE DEF d
<1>2. /\ rollouts' = [r \in RolloutIds |-> d[<<"rollout", r>>]]
      /\ degraded' = {t \in Targets : d[<<"degraded", t>>]}
      /\ live' = [t \in Targets |-> d[<<"live", t>>]]
      /\ desired' = [i \in Images |-> d[<<"desired", i>>]]
      /\ aborted' = [g \in Groups |-> d[<<"aborted", g>>]]
      /\ policy' = [g \in Groups |-> d[<<"policy", g>>]]
      /\ suspensions' = {sel \in Selectors : d[<<"suspension", sel>>]}
  BY DEF Crash, d
<1>3. /\ rollouts' \in [RolloutIds -> Rollout] /\ degraded' \subseteq Targets
      /\ live' \in [Targets -> MaybeDigest] /\ desired' \in [Images -> MaybeDigest]
      /\ aborted' \in [Groups -> Markers]
      /\ policy' \in [Groups -> Policy] /\ suspensions' \subseteq Selectors
  BY <1>1, <1>2 DEF Fits
<1>4. landing' \in [Targets -> MaybeDigest]
  <2>1. PICK unborn : landing' = [t \in Targets |-> IF t \in unborn THEN NoDigest ELSE landing[t]]
    BY DEF Crash
  <2>. QED BY <2>1 DEF DInv, TypeOK, MaybeDigest
<1>5. /\ envOK' = TRUE /\ gone' = {} /\ pc' = "idle" /\ opening' = {} /\ planning' = {}
      /\ jobs' = {} /\ checks' = {} /\ file' = file /\ running' = running
  BY DEF Crash
<1>6. TypeOK'
  BY <1>3, <1>4, <1>5 DEF DInv, TypeOK, PCs, Markers
<1>7. /\ crashes < MaxCrashes /\ crashes' = crashes + 1 /\ dirty' = FALSE
      /\ disk' = disk /\ failures' = failures
  BY DEF Crash
<1>8. Counted'
  <2>1. failures \in 0 .. MaxFailures /\ crashes \in 0 .. MaxCrashes
    BY DEF DInv, Counted
  <2>2. failures' \in 0 .. MaxFailures
    BY <1>7, <2>1
  <2>3. crashes' \in 0 .. MaxCrashes
    BY <1>7, <2>1, BoundsAssumption
  <2>. QED BY <1>7, <2>2, <2>3 DEF Counted
<1>. QED BY <1>6, <1>7, <1>8 DEF DInv

\* Every step but a sync that is refused and a restart is one of Controller.
LEMMA StepsOfController ==
  ASSUME [DurableNext]_durableVars
  PROVE  \/ [Next]_vars
         \/ \E g \in Groups, f \in HeldFiles : SyncRefused(g, f)
         \/ Crash
<1>1. ASSUME DurableTick PROVE TickStep
  <2>1. CASE SavingStart
    BY <2>1 DEF SavingStart, TickStep
  <2>2. CASE \E g \in opening : OpenGroup(g) /\ Saved
    BY <2>2 DEF TickStep
  <2>3. CASE (OpenDone \/ PlanDone \/ ExecDone \/ TickDone) /\ NothingSaved
    BY <2>3 DEF TickStep
  <2>4. CASE \E r \in planning : SavingPlan(r)
    BY <2>4 DEF SavingPlan, TickStep
  <2>5. CASE \E j \in jobs : SavingResult(j)
    BY <2>5 DEF SavingResult, TickStep, ApplyStep
  <2>6. CASE \E r \in checks : SavingCheck(r)
    BY <2>6 DEF SavingCheck, TickStep, ApplyStep
  <2>. QED BY <1>1, <2>1, <2>2, <2>3, <2>4, <2>5, <2>6 DEF DurableTick
<1>2. ASSUME DurableWorld PROVE WorldStep
  <2>1. ASSUME NEW r \in RolloutIds, NEW t \in Targets, SavingLapse(r, t) PROVE HoldLapse(r, t)
    BY <2>1 DEF SavingLapse
  <2>. QED BY <1>2, <2>1 DEF DurableWorld, WorldStep
<1>3. ASSUME DurablePeople
      PROVE  \/ [Next]_vars
             \/ \E g \in Groups, f \in HeldFiles : SyncRefused(g, f)
  <2>1. ASSUME Accepted PROVE PeopleStep
    BY <2>1 DEF Accepted, PeopleStep
  <2>2. CASE Refused
    BY <2>2 DEF Refused
  <2>3. ASSUME NEW r \in RolloutIds, AbortRefused(r) PROVE UNCHANGED vars
    BY <2>3 DEF AbortRefused
  <2>4. ASSUME NEW g \in Groups, NEW f \in HeldFiles, NEW force \in BOOLEAN,
               NEW strategy \in DOMAIN StrategyOf, SavingSync(g, force, strategy, f)
        PROVE  PeopleStep
    BY <2>4 DEF SavingSync, PeopleStep
  <2>. QED BY <1>3, <2>1, <2>2, <2>3, <2>4 DEF DurablePeople, Next
<1>4. UNCHANGED durableVars => UNCHANGED vars
  BY DEF durableVars
<1>. QED BY <1>1, <1>2, <1>3, <1>4 DEF DurableNext, Next

LEMMA LiftedType ==
  ASSUME TypeOK, NEW g \in Groups
  PROVE  Lifted(g) \in [Groups -> Markers]
  BY DEF TypeOK, Lifted, Markers

LEMMA SyncRefusedType ==
  ASSUME TypeOK, NEW g \in Groups, NEW f \in HeldFiles, SyncRefused(g, f)
  PROVE  TypeOK' /\ AllEvolve
<1>1. /\ Superseded(rollouts) \in [RolloutIds -> Rollout]
      /\ \A r \in RolloutIds : Evolves(rollouts[r], Superseded(rollouts)[r])
  BY SupersededEvolves DEF TypeOK
<1>2. rollouts' = Superseded(rollouts) /\ aborted' = Lifted(g)
  BY DEF SyncRefused
<1>3. AllEvolve
  BY <1>1, <1>2 DEF AllEvolve
<1>4. UNCHANGED <<file, gone, running, landing, policy, suspensions, pc, opening, planning, jobs,
                  checks, desired, envOK, live, degraded>>
  BY DEF SyncRefused, fileVars, worldVars, peopleVars, tickVars
<1>. QED BY <1>1, <1>2, <1>3, <1>4, LiftedType DEF TypeOK, Markers

LEMMA TickFits ==
  ASSUME DInv, TypeOK', DurableTick
  PROVE  Fits(disk') /\ Counted'
<1>1. CASE SavingStart
  <2>1. ASSUME NEW old, Fits(old), NEW ks, Write(old, Updated(old, ks), Keys, FALSE)
        PROVE  Fits(disk') /\ Counted'
    BY <2>1, UpdatedFits, WriteFits DEF DInv
  <2>2. Fits(IF dirty THEN Flushed ELSE disk)
    BY FlushedFits DEF DInv
  <2>. QED BY <1>1, <2>1, <2>2 DEF SavingStart
<1>2. CASE \E g \in opening : OpenGroup(g) /\ Saved
  BY <1>2, SavedFits DEF Saved
<1>3. CASE NothingSaved
  BY <1>3 DEF NothingSaved, storeVars, boundVars, DInv, Counted
<1>4. ASSUME NEW r \in planning, SavingPlan(r) PROVE Fits(disk') /\ Counted'
  <2>1. r \in RolloutIds
    BY DEF DInv, TypeOK
  <2>2. CASE NothingSaved
    BY <1>3, <2>2
  <2>3. CASE Write(disk, [Updated(disk, Changed) EXCEPT ![<<"rollout", r>>] = PlanSaved(r)], Keys, dirty)
    <3>1. Fits([Updated(disk, Changed) EXCEPT ![<<"rollout", r>>] = PlanSaved(r)])
      BY <2>1, UpdatedFits, PlanSavedType, RolloutFits DEF DInv
    <3>2. dirty \in BOOLEAN
      BY DEF DInv, Counted
    <3>. QED BY <2>3, <3>1, <3>2, WriteFits DEF DInv
  <2>. QED BY <1>4, <2>2, <2>3 DEF SavingPlan
<1>5. ASSUME NEW j \in jobs, SavingResult(j) PROVE Fits(disk') /\ Counted'
  BY <1>5, SavedFits DEF SavingResult
<1>6. ASSUME NEW r \in checks, SavingCheck(r) PROVE Fits(disk') /\ Counted'
  BY <1>6, SavedFits DEF SavingCheck
<1>. QED BY <1>1, <1>2, <1>3, <1>4, <1>5, <1>6 DEF DurableTick

LEMMA WorldFits ==
  ASSUME DInv, TypeOK', DurableWorld
  PROVE  Fits(disk') /\ Counted'
<1>1. CASE Saved
  BY <1>1, SavedFits DEF Saved
<1>2. CASE NothingSaved
  BY <1>2 DEF NothingSaved, storeVars, boundVars, DInv, Counted
<1>. QED BY <1>1, <1>2, LapseFits DEF DurableWorld

LEMMA PeopleFits ==
  ASSUME DInv, TypeOK', DurablePeople
  PROVE  Fits(disk') /\ Counted'
<1>1. CASE Accepted
  <2>1. (\E ks : disk' = Updated(disk, ks)) /\ UNCHANGED <<dirty, boundVars>>
    BY <1>1 DEF Accepted
  <2>. QED BY <2>1, UpdatedFits DEF boundVars, DInv, Counted
<1>0. Refusing => Counted'
  BY BoundsAssumption DEF Refusing, DInv, Counted
<1>2. CASE Refused
  BY <1>0, <1>2 DEF Refused, DInv
<1>3. ASSUME NEW r \in RolloutIds, AbortRefused(r) PROVE Fits(disk') /\ Counted'
  <2> DEFINE g == rollouts[r].group
  <2>1. g \in Groups
    BY DEF DInv, TypeOK, Rollout
  <2>2. {} \in Markers /\ {GroupKey(g)} \in Markers
    BY <2>1, GroupKeyType DEF DInv, Markers
  <2>3. PICK marker \in {{}, {GroupKey(g)}} : disk' = [disk EXCEPT ![<<"aborted", g>>] = marker]
    BY <1>3 DEF AbortRefused
  <2>4. Refusing
    BY <1>3 DEF AbortRefused
  <2> HIDE DEF g
  <2>. QED BY <1>0, <2>1, <2>2, <2>3, <2>4, MarkerFits DEF DInv
<1>4. ASSUME NEW g \in Groups, NEW f \in HeldFiles, SyncRefused(g, f) PROVE Fits(disk') /\ Counted'
  BY <1>0, <1>4, UpdatedFits DEF SyncRefused, DInv
<1>5. ASSUME NEW g \in Groups, NEW f \in HeldFiles, NEW force \in BOOLEAN,
             NEW strategy \in DOMAIN StrategyOf, SavingSync(g, force, strategy, f)
      PROVE  Fits(disk') /\ Counted'
  BY <1>5, SavedFits DEF SavingSync
<1>. QED BY <1>1, <1>2, <1>3, <1>4, <1>5 DEF DurablePeople

LEMMA DInvStep ==
  ASSUME DInv, [DurableNext]_durableVars
  PROVE  DInv'
<1>1. CASE Crash
  BY <1>1, CrashType
<1>2. CASE ~Crash
  <2>1. TypeOK'
    BY <1>2, StepsOfController, NextType, SyncRefusedType DEF DInv
  <2>2. CASE UNCHANGED durableVars
    BY <2>1, <2>2 DEF durableVars, storeVars, boundVars, DInv, Counted
  <2>. QED BY <1>2, <2>1, <2>2, TickFits, WorldFits, PeopleFits DEF DurableNext, DInv
<1>. QED BY <1>1, <1>2

LEMMA DInvInit ==
  ASSUME DurableInit
  PROVE  DInv
<1>1. Init /\ disk = Memory /\ dirty = FALSE /\ failures = 0 /\ crashes = 0
  BY DEF DurableInit
<1>2. TypeOK /\ Fits(disk)
  BY <1>1, InitType, MemoryFits
<1>3. Counted
  <2>1. failures \in 0 .. MaxFailures /\ crashes \in 0 .. MaxCrashes
    BY <1>1, BoundsAssumption
  <2>. QED BY <1>1, <2>1 DEF Counted
<1>. QED BY <1>2, <1>3 DEF DInv

\* Whatever the store refuses and wherever the process stops, memory and disk
\* have the declared shape.
THEOREM DiskTypes == DurableSpec => []DiskTypeOK
<1>1. DurableInit => DInv
  BY DInvInit
<1>2. DInv /\ [DurableNext]_durableVars => DInv'
  BY DInvStep
<1>3. DInv => DiskTypeOK
  BY DiskTyped
<1>. QED BY <1>1, <1>2, <1>3, PTL DEF DurableSpec

-----------------------------------------------------------------------------
\* What a step makes of a record.

\* Disk has of record k what it had, or what memory has or had.
Recorded(k) == disk'[k] \in {disk[k], Memory[k], Memory'[k]}

LEMMA UpdatedAt ==
  ASSUME NEW d, NEW ks, NEW k \in Keys
  PROVE  Updated(d, ks)[k] = IF k \in ks THEN Memory'[k] ELSE d[k]
  BY DEF Updated

LEMMA WriteAt ==
  ASSUME NEW old, NEW new, NEW records, NEW before, NEW k \in Keys, Write(old, new, records, before)
  PROVE  disk'[k] \in {old[k], new[k]}
  BY DEF Write

LEMMA SavedRecords ==
  ASSUME NEW ks, NEW records, NEW before, NEW k \in Keys,
         Write(disk, Updated(disk, ks), records, before)
  PROVE  Recorded(k)
<1>1. disk'[k] \in {disk[k], Updated(disk, ks)[k]}
  BY WriteAt
<1>2. Updated(disk, ks)[k] \in {disk[k], Memory'[k]}
  BY UpdatedAt
<1>. QED BY <1>1, <1>2 DEF Recorded

LEMMA SameRecords ==
  ASSUME NEW k, disk' = disk
  PROVE  Recorded(k)
  BY DEF Recorded

LEMMA TickRecords ==
  ASSUME DurableTick, NEW k \in Keys
  PROVE  \/ Recorded(k)
         \/ \E r \in planning : PlanStep(r) /\ k = <<"rollout", r>> /\ disk'[k] = PlanSaved(r)
<1>1. CASE SavingStart
  <2> DEFINE old == IF dirty THEN Flushed ELSE disk
  <2>1. Write(old, Updated(old, Changed), Keys, FALSE)
    BY <1>1 DEF SavingStart
  <2>2. old[k] \in {disk[k], Memory[k]}
    BY DEF Flushed
  <2> HIDE DEF old
  <2>3. disk'[k] \in {old[k], Updated(old, Changed)[k]}
    BY <2>1, WriteAt
  <2>4. Updated(old, Changed)[k] \in {old[k], Memory'[k]}
    BY UpdatedAt
  <2>. QED BY <2>2, <2>3, <2>4 DEF Recorded
<1>2. Saved => Recorded(k)
  BY SavedRecords DEF Saved
<1>3. NothingSaved => Recorded(k)
  BY SameRecords DEF NothingSaved, storeVars
<1>4. ASSUME NEW r \in planning, SavingPlan(r)
      PROVE  Recorded(k) \/ (PlanStep(r) /\ k = <<"rollout", r>> /\ disk'[k] = PlanSaved(r))
  <2>1. CASE Write(disk, [Updated(disk, Changed) EXCEPT ![<<"rollout", r>>] = PlanSaved(r)], Keys, dirty)
    <3> DEFINE new == [Updated(disk, Changed) EXCEPT ![<<"rollout", r>>] = PlanSaved(r)]
    <3>1. new[k] = IF k = <<"rollout", r>> THEN PlanSaved(r) ELSE Updated(disk, Changed)[k]
      BY DEF Updated
    <3> HIDE DEF new
    <3>2. Write(disk, new, Keys, dirty)
      BY <2>1 DEF new
    <3>3. PlanStep(r)
      BY <1>4 DEF SavingPlan
    <3>4. disk'[k] \in {disk[k], new[k]}
      BY <3>2, WriteAt
    <3>5. Updated(disk, Changed)[k] \in {disk[k], Memory'[k]}
      BY UpdatedAt
    <3>. QED BY <3>1, <3>3, <3>4, <3>5 DEF Recorded
  <2>. QED BY <1>3, <1>4, <2>1 DEF SavingPlan
<1>5. ASSUME NEW j \in jobs, SavingResult(j) PROVE Recorded(k)
  <2>1. \E ks : Write(disk, Updated(disk, ks), Keys, dirty)
    BY <1>5 DEF SavingResult
  <2>. QED BY <2>1, SavedRecords
<1>6. ASSUME NEW r \in checks, SavingCheck(r) PROVE Recorded(k)
  <2>1. \E ks : Write(disk, Updated(disk, ks), Keys, dirty)
    BY <1>6 DEF SavingCheck
  <2>. QED BY <2>1, SavedRecords
<1>. QED BY <1>1, <1>2, <1>3, <1>4, <1>5, <1>6 DEF DurableTick

LEMMA WorldRecords ==
  ASSUME DInv, DurableWorld, NEW k \in Keys
  PROVE  \/ Recorded(k)
         \/ \E r \in RolloutIds, t \in Targets : SavingLapse(r, t) /\ k = <<"rollout", r>>
<1>1. Saved => Recorded(k)
  BY SavedRecords DEF Saved
<1>2. NothingSaved => Recorded(k)
  BY SameRecords DEF NothingSaved, storeVars
<1>3. ASSUME NEW r \in RolloutIds, NEW t \in Targets, SavingLapse(r, t), k # <<"rollout", r>>
      PROVE  Recorded(k)
  <2>1. disk' = [disk EXCEPT ![<<"rollout", r>>].tgt[t].hold = FALSE]
    BY <1>3 DEF SavingLapse
  <2>2. disk'[k] = disk[k]
    BY <1>3, <2>1 DEF DInv, Fits
  <2>. QED BY <2>2 DEF Recorded
<1>. QED BY <1>1, <1>2, <1>3 DEF DurableWorld

LEMMA PeopleRecords ==
  ASSUME DInv, DurablePeople, NEW k \in Keys
  PROVE  \/ Recorded(k)
         \/ \E r \in RolloutIds : AbortRefused(r) /\ k = <<"aborted", rollouts[r].group>>
<1>1. ASSUME NEW ks, disk' = Updated(disk, ks) PROVE Recorded(k)
  BY <1>1, UpdatedAt DEF Recorded
<1>2. CASE Accepted
  BY <1>1, <1>2 DEF Accepted
<1>3. CASE Refused
  BY <1>3, SameRecords DEF Refused
<1>4. ASSUME NEW r \in RolloutIds, AbortRefused(r), k # <<"aborted", rollouts[r].group>>
      PROVE  Recorded(k)
  <2>1. PICK marker : disk' = [disk EXCEPT ![<<"aborted", rollouts[r].group>>] = marker]
    BY <1>4 DEF AbortRefused
  <2>2. disk'[k] = disk[k]
    BY <1>4, <2>1 DEF DInv, Fits
  <2>. QED BY <2>2 DEF Recorded
<1>5. ASSUME NEW g, NEW f, SyncRefused(g, f) PROVE Recorded(k)
  BY <1>1, <1>5 DEF SyncRefused
<1>6. ASSUME NEW g, NEW f, NEW force, NEW strategy, SavingSync(g, force, strategy, f)
      PROVE  Recorded(k)
  <2>1. \E ks, records : Write(disk, Updated(disk, ks), records, dirty)
    BY <1>6 DEF SavingSync
  <2>. QED BY <2>1, SavedRecords
<1>. QED BY <1>2, <1>3, <1>4, <1>5, <1>6 DEF DurablePeople

-----------------------------------------------------------------------------
\* Aborts.

\* Memory has an abort only if disk has it too.
AbortSaved == \A g \in Groups : aborted[g] # {} => disk[<<"aborted", g>>] = aborted[g]

\* A step lifts aborts, or leaves them.
LiftsAborts == \A g \in Groups : aborted'[g] \in {{}, aborted[g]}

LEMMA LiftsSaved ==
  ASSUME AbortSaved, LiftsAborts, \A g \in Groups : Recorded(<<"aborted", g>>)
  PROVE  AbortSaved'
<1>1. \A g \in Groups : /\ Memory[<<"aborted", g>>] = aborted[g]
                        /\ Memory'[<<"aborted", g>>] = aborted'[g]
  BY MemoryOf, MemoryOfNext
<1>. QED BY <1>1 DEF AbortSaved, LiftsAborts, Recorded

LEMMA LiftedLifts ==
  ASSUME TypeOK, NEW g \in Groups, aborted' = Lifted(g)
  PROVE  LiftsAborts
  BY DEF TypeOK, Lifted, LiftsAborts

LEMMA TickLifts ==
  ASSUME DInv, DurableTick
  PROVE  LiftsAborts /\ \A g \in Groups : Recorded(<<"aborted", g>>)
<1>1. TickStart \/ OpenDone \/ PlanDone \/ ExecDone \/ TickDone => aborted' = aborted
  BY DEF TickStart, OpenDone, PlanDone, ExecDone, TickDone
<1>2. ASSUME NEW g \in opening, OpenGroup(g) PROVE LiftsAborts
  <2>1. aborted' = aborted \/ aborted' = Lifted(g)
    BY <1>2 DEF OpenGroup
  <2>2. g \in Groups
    BY DEF DInv, TypeOK
  <2>. QED BY <2>1, <2>2, LiftedLifts DEF LiftsAborts, DInv
<1>3. ASSUME NEW r, PlanStep(r) PROVE aborted' = aborted
  BY <1>3 DEF PlanStep, PlanNothing, PlanRetry, PlanStart, PlanOpen, PlanLate, PlanSoak, Planning
<1>4. ASSUME NEW j, SavingResult(j) PROVE aborted' = aborted
  BY <1>4 DEF SavingResult, ApplyStale, ApplyUpdate, ApplyInspect, ApplyReady, Applying
<1>5. ASSUME NEW r, SavingCheck(r) PROVE aborted' = aborted
  BY <1>5 DEF SavingCheck, ApplyCheckStale, ApplyCheckPassed, ApplyCheckFailed, ApplyingCheck
<1>6. aborted' = aborted \/ LiftsAborts
  BY <1>1, <1>2, <1>3, <1>4, <1>5 DEF DurableTick, SavingStart, SavingPlan
<1>7. ASSUME NEW g \in Groups PROVE Recorded(<<"aborted", g>>)
  BY KeyOf, KindOf, TickRecords
<1>. QED BY <1>6, <1>7 DEF LiftsAborts

LEMMA WorldLifts ==
  ASSUME DInv, DurableWorld
  PROVE  LiftsAborts /\ \A g \in Groups : Recorded(<<"aborted", g>>)
<1>1. Resolve \/ CheckEnvironment \/ Forget => aborted' = aborted
  BY DEF Resolve, CheckEnvironment, Forget
<1>2. ASSUME NEW t, InspectAll(t) \/ Land(t) \/ Fizzle(t) PROVE aborted' = aborted
  BY <1>2 DEF InspectAll, Land, Fizzle
<1>3. ASSUME NEW f, Reload(f) PROVE aborted' = aborted
  BY <1>3 DEF Reload
<1>4. ASSUME NEW r, NEW t, SavingLapse(r, t) PROVE aborted' = aborted
  BY <1>4 DEF SavingLapse, HoldLapse
<1>5. aborted' = aborted
  BY <1>1, <1>2, <1>3, <1>4 DEF DurableWorld
<1>6. ASSUME NEW g \in Groups PROVE Recorded(<<"aborted", g>>)
  BY KeyOf, KindOf, WorldRecords
<1>. QED BY <1>5, <1>6 DEF LiftsAborts

LEMMA PeopleSaved ==
  ASSUME DInv, AbortSaved, AbortHolds, DurablePeople
  PROVE  AbortSaved'
<1>1. CASE Accepted
  <2>1. PICK ks : disk' = Updated(disk, ks) /\ Changed \subseteq ks
    BY <1>1 DEF Accepted
  <2>2. ASSUME NEW g \in Groups, aborted'[g] # {} PROVE disk'[<<"aborted", g>>] = aborted'[g]
    <3>1. <<"aborted", g>> \in Keys /\ Memory[<<"aborted", g>>] = aborted[g]
          /\ Memory'[<<"aborted", g>>] = aborted'[g]
      BY KeyOf, MemoryOf, MemoryOfNext
    <3>2. aborted'[g] # aborted[g] => <<"aborted", g>> \in ks
      BY <2>1, <3>1 DEF Changed
    <3>3. <<"aborted", g>> \in ks => disk'[<<"aborted", g>>] = aborted'[g]
      BY <2>1, <3>1, UpdatedAt
    <3>4. <<"aborted", g>> \notin ks => disk'[<<"aborted", g>>] = disk[<<"aborted", g>>]
      BY <2>1, <3>1, UpdatedAt
    <3>. QED BY <2>2, <3>2, <3>3, <3>4 DEF AbortSaved
  <2>. QED BY <2>2 DEF AbortSaved
<1>2. CASE Refused
  BY <1>2 DEF Refused, vars, AbortSaved
<1>3. ASSUME NEW r \in RolloutIds, AbortRefused(r) PROVE AbortSaved'
  <2> DEFINE g == rollouts[r].group
  <2>1. g \in Groups /\ Active(rollouts[r])
    BY <1>3 DEF AbortRefused, DInv, TypeOK, Rollout
  <2>2. aborted[g] = {}
    BY <2>1 DEF AbortHolds, ActiveIn, ActiveIds
  <2>3. aborted' = aborted
    BY <1>3 DEF AbortRefused, vars
  <2>4. PICK marker : disk' = [disk EXCEPT ![<<"aborted", g>>] = marker]
    BY <1>3 DEF AbortRefused
  <2> HIDE DEF g
  <2>5. ASSUME NEW h \in Groups, h # g PROVE disk'[<<"aborted", h>>] = disk[<<"aborted", h>>]
    BY <2>4, <2>5, KeyOf DEF DInv, Fits
  <2>. QED BY <2>2, <2>3, <2>5 DEF AbortSaved
<1>4. ASSUME NEW g \in Groups, NEW f \in HeldFiles, SyncRefused(g, f) PROVE AbortSaved'
  <2>1. aborted' = Lifted(g) /\ \E ks : disk' = Updated(disk, ks)
    BY <1>4 DEF SyncRefused
  <2>2. ASSUME NEW h \in Groups PROVE Recorded(<<"aborted", h>>)
    <3>1. <<"aborted", h>> \in Keys
      BY KeyOf
    <3>. QED BY <2>1, <3>1, UpdatedAt DEF Recorded
  <2>. QED BY <2>1, <2>2, LiftedLifts, LiftsSaved DEF DInv
<1>5. ASSUME NEW g \in Groups, NEW f \in HeldFiles, NEW force \in BOOLEAN,
             NEW strategy \in DOMAIN StrategyOf, SavingSync(g, force, strategy, f)
      PROVE  AbortSaved'
  <2>1. aborted' = Lifted(g)
    BY <1>5 DEF SavingSync, Sync
  <2>2. \E ks, records : Write(disk, Updated(disk, ks), records, dirty)
    BY <1>5 DEF SavingSync
  <2>3. ASSUME NEW h \in Groups PROVE Recorded(<<"aborted", h>>)
    BY <2>2, KeyOf, SavedRecords
  <2>. QED BY <2>1, <2>3, LiftedLifts, LiftsSaved DEF DInv
<1>. QED BY <1>1, <1>2, <1>3, <1>4, <1>5 DEF DurablePeople

\* A restart finds the aborts that are on disk, and no active rollout beside one.
LEMMA CrashAborts ==
  ASSUME DInv, Crash
  PROVE  /\ \A g \in Groups : aborted'[g] = disk[<<"aborted", g>>]
         /\ \A g \in Groups, r \in RolloutIds :
              aborted'[g] # {} /\ rollouts'[r].group = g => ~Active(rollouts'[r])
         /\ disk' = disk
<1> DEFINE d == Restored(disk)
<1>1. /\ \A r \in RolloutIds : rollouts'[r] = d[<<"rollout", r>>]
      /\ \A g \in Groups : aborted'[g] = d[<<"aborted", g>>]
      /\ disk' = disk
  BY DEF Crash
<1>2. \A g \in Groups : d[<<"aborted", g>>] = disk[<<"aborted", g>>]
  BY KeyOf, KindOf, RestoredType DEF DInv
<1>3. ASSUME NEW g \in Groups, NEW r \in RolloutIds, disk[<<"aborted", g>>] # {},
             d[<<"rollout", r>>].group = g
      PROVE  ~Active(d[<<"rollout", r>>])
  <2> DEFINE ro == disk[<<"rollout", r>>]
  <2>1. ro \in Rollout
    BY DEF DInv, Fits
  <2>2. d[<<"rollout", r>>] = IF Active(ro) /\ disk[<<"aborted", ro.group>>] # {}
                              THEN Requeued(Ended(ro, "Aborted")) ELSE Requeued(ro)
    BY RestoredType DEF DInv
  <2> HIDE DEF ro, d
  <2>3. /\ Requeued(ro).group = ro.group /\ Requeued(ro).state = ro.state
        /\ Requeued(Ended(ro, "Aborted")).state = "Aborted"
    BY <2>1, RequeuedType, EndedType DEF Kin, States, EndedStates
  <2>. QED BY <1>3, <2>2, <2>3 DEF Active, ActiveStates
<1> HIDE DEF d
<1>. QED BY <1>1, <1>2, <1>3

\* Only a stop counts as one.
LEMMA OnlyCrash ==
  ASSUME DurableNext, ~Crash
  PROVE  crashes' = crashes
<1>1. ASSUME NEW old, NEW new, NEW records, NEW before, Write(old, new, records, before)
      PROVE  crashes' = crashes
  BY <1>1 DEF Write, Refusing, boundVars
<1>2. NothingSaved \/ Refusing => crashes' = crashes
  BY DEF NothingSaved, storeVars, boundVars, Refusing
<1>3. Saved => crashes' = crashes
  BY <1>1 DEF Saved
<1>4. CASE DurableTick
  <2>1. SavingStart => crashes' = crashes
    BY <1>1 DEF SavingStart
  <2>2. ASSUME NEW r, SavingPlan(r) PROVE crashes' = crashes
    BY <1>1, <1>2, <2>2 DEF SavingPlan
  <2>3. ASSUME NEW j, SavingResult(j) PROVE crashes' = crashes
    BY <1>1, <2>3 DEF SavingResult
  <2>4. ASSUME NEW r, SavingCheck(r) PROVE crashes' = crashes
    BY <1>1, <2>4 DEF SavingCheck
  <2>. QED BY <1>2, <1>3, <1>4, <2>1, <2>2, <2>3, <2>4 DEF DurableTick
<1>5. CASE DurableWorld
  <2>1. ASSUME NEW r, NEW t, SavingLapse(r, t) PROVE crashes' = crashes
    BY <2>1 DEF SavingLapse, boundVars
  <2>. QED BY <1>2, <1>3, <1>5, <2>1 DEF DurableWorld
<1>6. CASE DurablePeople
  <2>1. Accepted => crashes' = crashes
    BY DEF Accepted, boundVars
  <2>2. Refused => crashes' = crashes
    BY <1>2 DEF Refused
  <2>3. ASSUME NEW r, AbortRefused(r) PROVE crashes' = crashes
    BY <1>2, <2>3 DEF AbortRefused
  <2>4. ASSUME NEW g, NEW f, SyncRefused(g, f) PROVE crashes' = crashes
    BY <1>2, <2>4 DEF SyncRefused
  <2>5. ASSUME NEW g, NEW f, NEW force, NEW strategy, SavingSync(g, force, strategy, f)
        PROVE  crashes' = crashes
    BY <1>1, <2>5 DEF SavingSync
  <2>. QED BY <1>6, <2>1, <2>2, <2>3, <2>4, <2>5 DEF DurablePeople
<1>. QED BY <1>4, <1>5, <1>6 DEF DurableNext

\* One step, from a state where a group has one active rollout at most.
LEMMA AbortSavedStep ==
  ASSUME DInv, OneInv, AbortSaved, [DurableNext]_durableVars
  PROVE  /\ AbortHolds' /\ AbortSaved'
         /\ ~Crash => OneActivePerGroup'
<1>1. CASE Crash
  <2>1. AbortSaved'
    BY <1>1, CrashAborts DEF AbortSaved
  <2>2. AbortHolds'
    BY <1>1, CrashAborts DEF AbortHolds, ActiveIn, ActiveIds
  <2>. QED BY <1>1, <2>1, <2>2
<1>2. CASE ~Crash
  <2>1. AbortSaved'
    <3>1. CASE UNCHANGED durableVars
      BY <3>1 DEF durableVars, vars, storeVars, AbortSaved
    <3>. QED BY <1>2, <3>1, TickLifts, WorldLifts, PeopleSaved, LiftsSaved DEF DurableNext, OneInv
  <2>2. CASE [Next]_vars
    BY <2>1, <2>2, OneStep DEF DInv, OneInv
  <2>3. ASSUME NEW g \in Groups, NEW f \in HeldFiles, SyncRefused(g, f)
        PROVE  AbortHolds' /\ OneActivePerGroup'
    <3>1. AllEvolve /\ aborted' = Lifted(g)
      BY <2>3, SyncRefusedType DEF DInv, SyncRefused
    <3>2. \A h \in Groups : aborted'[h] # {} => aborted[h] # {}
      BY <3>1, LiftedLifts DEF DInv, LiftsAborts
    <3>3. OneActivePerGroup'
      BY <3>1 DEF OneInv, OneActivePerGroup, ActiveIds, AllEvolve, Evolves, Kin
    <3>4. AbortHolds'
      BY <3>1, <3>2 DEF OneInv, AbortHolds, ActiveIn, ActiveIds, AllEvolve, Evolves, Kin
    <3>. QED BY <3>3, <3>4
  <2>. QED BY <1>2, <2>1, <2>2, <2>3, StepsOfController
<1>. QED BY <1>1, <1>2

\* A stop takes no abort with it.
LEMMA AbortSurvivesStep ==
  ASSUME DInv, AbortSaved, Crash
  PROVE  \A g \in Groups : aborted[g] # {} =>
           /\ aborted'[g] = aborted[g]
           /\ \A r \in RolloutIds : rollouts'[r].group = g => ~Active(rollouts'[r])
  BY CrashAborts DEF AbortSaved

LEMMA AbortsInit ==
  ASSUME DurableInit
  PROVE  OneInv /\ AbortSaved
<1>1. Init
  BY DEF DurableInit
<1>2. \A g \in Groups : aborted[g] = {}
  BY <1>1 DEF Init
<1>3. \A r \in RolloutIds : ~Active(rollouts[r])
  BY <1>1 DEF Init, NoRollout, Active, ActiveStates
<1>. QED BY <1>2, <1>3 DEF AbortSaved, OneInv, OneActivePerGroup, AbortHolds, ActiveIn, ActiveIds

\* An abort a person was told of survives every stop, as long as no group has
\* two active rollouts.
THEOREM AbortsSurvive == DurableSpec /\ []OneActivePerGroup => AbortSurvives
<1> DEFINE SInv == DInv /\ AbortHolds /\ AbortSaved
<1>1. DurableInit => SInv
  BY DInvInit, AbortsInit DEF OneInv
<1>2. SInv /\ OneActivePerGroup /\ [DurableNext]_durableVars => SInv'
  BY DInvStep, AbortSavedStep DEF OneInv
<1>3. SInv /\ [DurableNext]_durableVars
        => [crashes' # crashes =>
              \A g \in Groups : aborted[g] # {} =>
                /\ aborted'[g] = aborted[g]
                /\ \A r \in RolloutIds : rollouts'[r].group = g => ~Active(rollouts'[r])]_durableVars
  BY OnlyCrash, AbortSurvivesStep
<1> HIDE DEF SInv
<1>. QED BY <1>1, <1>2, <1>3, PTL DEF DurableSpec, AbortSurvives

\* The first stop never takes an abort with it.
THEOREM AbortsSurviveStop ==
  ASSUME MaxCrashes <= 1
  PROVE  DurableSpec => AbortSurvives
<1> DEFINE SInv == DInv /\ (crashes = 0 => OneInv /\ AbortSaved)
<1>1. DurableInit => SInv
  BY DInvInit, AbortsInit
<1>2. SInv /\ [DurableNext]_durableVars => SInv'
  <2> SUFFICES ASSUME SInv, [DurableNext]_durableVars PROVE SInv'
    OBVIOUS
  <2>1. DInv'
    BY DInvStep
  <2>2. CASE Crash
    <3>1. crashes \in Nat /\ crashes' = crashes + 1
      BY <2>2, BoundsAssumption DEF Crash, DInv, Counted
    <3>2. crashes' # 0
      BY <3>1
    <3>. QED BY <2>1, <3>2
  <2>3. CASE ~Crash
    <3>1. crashes' = crashes
      BY <2>3, OnlyCrash DEF durableVars, storeVars, boundVars
    <3>2. crashes = 0 => OneInv' /\ AbortSaved'
      BY <2>3, AbortSavedStep DEF OneInv
    <3>. QED BY <2>1, <3>1, <3>2
  <2>. QED BY <2>2, <2>3
<1>3. SInv /\ [DurableNext]_durableVars
        => [crashes' # crashes =>
              \A g \in Groups : aborted[g] # {} =>
                /\ aborted'[g] = aborted[g]
                /\ \A r \in RolloutIds : rollouts'[r].group = g => ~Active(rollouts'[r])]_durableVars
  <2> SUFFICES ASSUME SInv, Crash PROVE AbortSaved
    BY OnlyCrash, AbortSurvivesStep
  <2>1. crashes \in 0 .. MaxCrashes /\ crashes < MaxCrashes
    BY DEF Crash, DInv, Counted
  <2>2. crashes = 0
    BY <2>1, BoundsAssumption
  <2>. QED BY <2>2
<1> HIDE DEF SInv
<1>. QED BY <1>1, <1>2, <1>3, PTL DEF DurableSpec, AbortSurvives

-----------------------------------------------------------------------------
\* A clean controller: what disk and memory have of each record.

\* Disk has rollout r as memory has it, or as a restart made memory have it.
SavedAs(r) ==
  LET m == rollouts[r]
      d == disk[<<"rollout", r>>]
  IN \/ m = d
     \/ m = Requeued(d)
     \/ crashes > 0 /\ m.state = "Aborted" /\ Active(d)

\* A result of rollout r is still to be applied, and will be saved.
Owes(r) == r \in checks \/ \E j \in jobs : j.rollout = r
Owed(r) == Active(rollouts[r]) /\ Owes(r)

FlushedKeys == {k \in Keys : k[1] \in FlushedKinds}

Kept ==
  ~dirty =>
    /\ \A r \in RolloutIds : SavedAs(r) \/ Owed(r)
    /\ \A k \in FlushedKeys : k[1] # "rollout" => disk[k] = Memory[k]

\* Between ticks and until rollouts are planned no program is under way, and
\* none of a rollout still to be planned.
Tidy ==
  /\ pc \in {"idle", "open"} => jobs = {} /\ checks = {}
  /\ pc = "plan" => \A j \in jobs : j.rollout \notin planning

\* A soaking rollout has all its targets: none was suspended, moved or removed.
SoakersWhole == \A r \in RolloutIds : rollouts[r].state = "Soaking" => Lost(rollouts[r]) = {}

-----------------------------------------------------------------------------
\* Programs under way.

\* What planning rollout r, which becomes new, leaves alone, and what it adds.
Assigned(r, new) ==
  /\ rollouts' = [rollouts EXCEPT ![r] = new]
  /\ UNCHANGED <<aborted, live, desired, policy, suspensions, pc>>
  /\ planning' = planning \ {r}
  /\ jobs \subseteq jobs' /\ checks \subseteq checks'
  /\ \A j \in jobs' \ jobs : j.rollout = r
  /\ jobs' # jobs => Active(new)

LEMMA SettleAssigns ==
  ASSUME NEW r, NEW new, NEW dg, Planning(r), Settle(r, new, dg)
  PROVE  Assigned(r, new)
  BY DEF Planning, Settle, Assigned, peopleVars

LEMMA PlanBatchAssigns ==
  ASSUME NEW r, Planning(r), NEW ro \in Rollout, Active(ro), NEW dg, PlanBatch(r, ro, dg)
  PROVE  \E new : Assigned(r, new)
<1> DEFINE cur == WithoutLost(ro, Lost(ro), {"pending", "updating"})
           js == JobsFor(r, cur)
<1>0. cur \in Rollout
  BY WithoutLostType DEF Kin
<1>1. cur.state = ro.state
  BY DEF WithoutLost, Rollout
<1>2. \A j \in js : j.rollout = r
  BY DEF JobsFor
<1>3. \/ js = {} /\ BatchReady(r, Advanced(cur), dg)
      \/ rollouts' = [rollouts EXCEPT ![r] = Advanced(cur)] /\ jobs' = jobs \cup js /\ UNCHANGED checks
  BY DEF PlanBatch
<1> HIDE DEF cur, js
<1>4. Active(Advanced(cur))
  BY <1>0, <1>1 DEF Active, Advanced, Rollout
<1>5. CASE BatchReady(r, Advanced(cur), dg)
  BY <1>5, SettleAssigns DEF BatchReady, PassBatch
<1>6. CASE rollouts' = [rollouts EXCEPT ![r] = Advanced(cur)] /\ jobs' = jobs \cup js /\ UNCHANGED checks
  <2>1. Assigned(r, Advanced(cur))
    BY <1>2, <1>4, <1>6 DEF Planning, Assigned, peopleVars
  <2>. QED BY <2>1
<1>. QED BY <1>3, <1>5, <1>6

LEMMA PlanStepAssigns ==
  ASSUME TypeOK, NEW r \in RolloutIds, PlanStep(r)
  PROVE  \E new : Assigned(r, new)
<1> DEFINE ro == rollouts[r]
<1>1. ro \in Rollout
  BY DEF TypeOK
<1>2. CASE PlanNothing(r)
  BY <1>2, SettleAssigns DEF PlanNothing
<1>3. CASE PlanRetry(r)
  <2>1. PICK seen : PlanBatch(r, Retried(ro, seen, degraded), degraded \ Failed(ro))
    BY <1>3 DEF PlanRetry
  <2>2. Retried(ro, seen, degraded) \in Rollout
    BY <1>1, RetriedType DEF Kin
  <2>3. Retried(ro, seen, degraded).state = "Running"
    BY <1>1 DEF Retried, Rollout
  <2>4. Active(Retried(ro, seen, degraded))
    BY <2>3 DEF Active, ActiveStates
  <2>. QED BY <1>3, <2>1, <2>2, <2>4, PlanBatchAssigns DEF PlanRetry
<1>4. CASE PlanStart(r)
  <2> DEFINE cur == Reviewed(ro, Lost(ro), Unreachable, Arrived(ro))
  <2>1. Planning(r) /\ cur \in Rollout
    BY <1>1, <1>4, ReviewedType DEF PlanStart, Kin
  <2>2. \/ \E new, dg : Settle(r, new, dg)
        \/ \E P, free : PlanBatch(r, WithBatch(cur, P, free), degraded)
    BY <1>4 DEF PlanStart
  <2> HIDE DEF cur
  <2>3. ASSUME NEW P, NEW free PROVE WithBatch(cur, P, free) \in Rollout /\ Active(WithBatch(cur, P, free))
    <3>1. WithBatch(cur, P, free) \in Rollout
      BY <2>1, WithBatchType DEF Kin
    <3>2. WithBatch(cur, P, free).state = "Running"
      BY <2>1 DEF WithBatch, Rollout
    <3>. QED BY <3>1, <3>2 DEF Active, ActiveStates
  <2>. QED BY <2>1, <2>2, <2>3, SettleAssigns, PlanBatchAssigns
<1>5. CASE PlanOpen(r)
  BY <1>1, <1>5, PlanBatchAssigns DEF PlanOpen, CanStart, Active, ActiveStates
<1>6. CASE PlanLate(r)
  <2>1. Planning(r) /\ \E new, dg : Settle(r, new, dg)
    BY <1>6 DEF PlanLate
  <2>. QED BY <2>1, SettleAssigns
<1>7. CASE PlanSoak(r)
  <2>1. Planning(r)
    BY <1>7 DEF PlanSoak
  <2>2. \/ \E new, dg : Settle(r, new, dg)
        \/ \E new : /\ rollouts' = [rollouts EXCEPT ![r] = new]
                    /\ checks \subseteq checks' /\ UNCHANGED jobs
    BY <1>7 DEF PlanSoak, PassBatch
  <2>3. ASSUME NEW new, rollouts' = [rollouts EXCEPT ![r] = new], checks \subseteq checks', UNCHANGED jobs
        PROVE  Assigned(r, new)
    BY <2>1, <2>3 DEF Planning, Assigned, peopleVars
  <2>. QED BY <2>1, <2>2, <2>3, SettleAssigns
<1>. QED BY <1>2, <1>3, <1>4, <1>5, <1>6, <1>7 DEF PlanStep

\* Planning a soak that goes on begins a check, or changes nothing.
LEMMA PlanSoakOwes ==
  ASSUME TypeOK, SoakersWhole, NEW r \in RolloutIds, PlanStep(r),
         rollouts[r].state = "Soaking", rollouts'[r].state = "Soaking"
  PROVE  r \in checks' \/ UNCHANGED <<rollouts, degraded>>
<1> DEFINE ro == rollouts[r]
<1>1. ro \in Rollout /\ Lost(ro) = {} /\ rollouts \in [RolloutIds -> Rollout]
  BY DEF TypeOK, SoakersWhole
<1>2. PlanSoak(r)
  BY DEF PlanStep, PlanNothing, PlanRetry, PlanStart, PlanOpen, PlanLate, CanStart
<1>3. WithoutLost(ro, Lost(ro), Phases) = ro
  BY <1>1, WithoutNone
<1>4. ASSUME NEW dg, PassBatch(r, ro, dg) PROVE FALSE
  <2>1. rollouts' = [rollouts EXCEPT ![r] = Passed(ro)]
    BY <1>4 DEF PassBatch, Settle
  <2>2. Passed(ro).state \in {"Running", "Paused"}
    BY <1>1 DEF Passed, Rollout
  <2>. QED BY <1>1, <2>1, <2>2
<1>5. Settle(r, ro, degraded) => UNCHANGED <<rollouts, degraded>>
  BY <1>1 DEF Settle
<1>6. ASSUME ~(ro.force \/ ~HasSoak(ro)), rollouts' = [rollouts EXCEPT ![r] = ro],
             checks' = IF HasSoak(ro) THEN checks \cup {r} ELSE checks
      PROVE  r \in checks'
  BY <1>6
<1>. QED BY <1>2, <1>3, <1>4, <1>5, <1>6 DEF PlanSoak

\* Programs and checks are there only while the tick is under way, and planning
\* gives a rollout its own.
LEMMA TidyStep ==
  ASSUME TypeOK, Tidy, [Next]_vars
  PROVE  Tidy'
<1>1. CASE UNCHANGED tickVars
  BY <1>1 DEF tickVars, Tidy
<1>2. UNCHANGED vars => UNCHANGED tickVars
  BY DEF vars, tickVars
<1>3. CASE TickStep
  <2>1. TickStart => Tidy'
    BY DEF TickStart, Tidy
  <2>2. ASSUME NEW g, OpenGroup(g) PROVE Tidy'
    BY <2>2 DEF OpenGroup, Tidy
  <2>3. OpenDone => Tidy'
    BY DEF OpenDone, Tidy
  <2>4. ASSUME NEW r \in planning, PlanStep(r) PROVE Tidy'
    <3>1. r \in RolloutIds
      BY DEF TypeOK
    <3>2. PICK new : Assigned(r, new)
      BY <2>4, <3>1, PlanStepAssigns
    <3>3. pc = "plan"
      BY <2>4 DEF PlanStep, PlanNothing, PlanRetry, PlanStart, PlanOpen, PlanLate, PlanSoak, Planning
    <3>. QED BY <3>2, <3>3 DEF Assigned, Tidy
  <2>5. PlanDone \/ ExecDone \/ TickDone => Tidy'
    BY DEF PlanDone, ExecDone, TickDone, Tidy
  <2>6. ASSUME NEW j, ApplyStale(j) \/ ApplyUpdate(j) \/ ApplyInspect(j) \/ ApplyReady(j) PROVE Tidy'
    <3>1. Applying(j)
      BY <2>6 DEF ApplyStale, ApplyUpdate, ApplyInspect, ApplyReady
    <3>. QED BY <3>1 DEF Applying, Tidy
  <2>7. ASSUME NEW r, ApplyCheckStale(r) \/ ApplyCheckPassed(r) \/ ApplyCheckFailed(r) PROVE Tidy'
    <3>1. ApplyingCheck(r)
      BY <2>7 DEF ApplyCheckStale, ApplyCheckPassed, ApplyCheckFailed
    <3>. QED BY <3>1 DEF ApplyingCheck, Tidy
  <2>. QED BY <1>3, <2>1, <2>2, <2>3, <2>4, <2>5, <2>6, <2>7 DEF TickStep, ApplyStep
<1>4. CASE WorldStep
  <2>1. Resolve \/ CheckEnvironment \/ Forget => UNCHANGED tickVars
    BY DEF Resolve, CheckEnvironment, Forget
  <2>2. ASSUME NEW t, InspectAll(t) \/ Land(t) \/ Fizzle(t) PROVE UNCHANGED tickVars
    BY <2>2 DEF InspectAll, Land, Fizzle
  <2>3. ASSUME NEW r, NEW t, HoldLapse(r, t) PROVE UNCHANGED tickVars
    BY <2>3 DEF HoldLapse
  <2>4. ASSUME NEW f, Reload(f) PROVE Tidy'
    BY <2>4 DEF Reload, Tidy
  <2>. QED BY <1>1, <1>4, <2>1, <2>2, <2>3, <2>4 DEF WorldStep
<1>5. CASE PeopleStep
  <2>1. ASSUME NEW g, NEW force, NEW strategy, NEW f, Sync(g, force, strategy, f) PROVE UNCHANGED tickVars
    BY <2>1 DEF Sync
  <2>2. ASSUME NEW sel, Suspend(sel) \/ Resume(sel) PROVE UNCHANGED tickVars
    BY <2>2 DEF Suspend, Resume
  <2>3. ASSUME NEW g, NEW p, SetPolicy(g, p) PROVE UNCHANGED tickVars
    BY <2>3 DEF SetPolicy
  <2>4. ASSUME NEW r, Pause(r) \/ Promote(r) \/ Abort(r) \/ Retry(r) PROVE UNCHANGED tickVars
    BY <2>4 DEF Pause, Promote, Abort, Retry, OnRollout
  <2>. QED BY <1>1, <1>5, <2>1, <2>2, <2>3, <2>4 DEF PeopleStep
<1>. QED BY <1>1, <1>2, <1>3, <1>4, <1>5 DEF Next

-----------------------------------------------------------------------------
\* What steps write.

\* But for the rollouts S every record is written or stays, and what is owed
\* stays owed.
Tallied(S) ==
  /\ ~dirty' => ~dirty
  /\ crashes' = crashes
  /\ ~dirty' => \A k \in Keys : (\A r \in S : k # <<"rollout", r>>) =>
       disk'[k] = Memory'[k] \/ (disk'[k] = disk[k] /\ Memory'[k] = Memory[k])
  /\ \A r \in RolloutIds : r \notin S /\ Owes(r) => Owes(r)'

LEMMA TalliedKept ==
  ASSUME Kept, NEW S, Tallied(S), \A r \in S : ~dirty' => SavedAs(r)' \/ Owed(r)'
  PROVE  Kept'
<1> SUFFICES ASSUME ~dirty' PROVE (\A r \in RolloutIds : SavedAs(r)' \/ Owed(r)')
                                  /\ \A k \in FlushedKeys : k[1] # "rollout" => disk'[k] = Memory'[k]
  BY DEF Kept, FlushedKeys, Keys
<1>1. /\ ~dirty /\ crashes' = crashes
      /\ \A k \in Keys : (\A r \in S : k # <<"rollout", r>>) =>
           disk'[k] = Memory'[k] \/ (disk'[k] = disk[k] /\ Memory'[k] = Memory[k])
      /\ \A r \in RolloutIds : r \notin S /\ Owes(r) => Owes(r)'
  BY DEF Tallied
<1>2. /\ \A r \in RolloutIds : SavedAs(r) \/ Owed(r)
      /\ \A k \in FlushedKeys : k[1] # "rollout" => disk[k] = Memory[k]
  BY <1>1 DEF Kept
<1>3. ASSUME NEW r \in RolloutIds PROVE SavedAs(r)' \/ Owed(r)'
  <2>1. CASE r \in S
    BY <2>1
  <2>2. CASE r \notin S
    <3>1. <<"rollout", r>> \in Keys /\ \A q \in S : <<"rollout", r>> # <<"rollout", q>>
      BY <2>2, KeyOf
    <3>2. Memory[<<"rollout", r>>] = rollouts[r] /\ Memory'[<<"rollout", r>>] = rollouts'[r]
      BY MemoryOf, MemoryOfNext
    <3>3. CASE disk'[<<"rollout", r>>] = Memory'[<<"rollout", r>>]
      BY <3>2, <3>3 DEF SavedAs
    <3>4. CASE disk'[<<"rollout", r>>] = disk[<<"rollout", r>>] /\ rollouts'[r] = rollouts[r]
      <4>1. SavedAs(r) => SavedAs(r)'
        BY <1>1, <3>4 DEF SavedAs
      <4>2. Owed(r) => Owed(r)'
        BY <1>1, <2>2, <3>4 DEF Owed
      <4>. QED BY <1>2, <4>1, <4>2
    <3>. QED BY <1>1, <3>1, <3>2, <3>3, <3>4
  <2>. QED BY <2>1, <2>2
<1>4. ASSUME NEW k \in FlushedKeys, k[1] # "rollout" PROVE disk'[k] = Memory'[k]
  <2>1. k \in Keys /\ \A r \in S : k # <<"rollout", r>>
    BY <1>4, KindOf DEF FlushedKeys
  <2>. QED BY <1>1, <1>2, <1>4, <2>1
<1>. QED BY <1>3, <1>4

\* Whoever writes at least what it changed, but for the rollouts S.
LEMMA WritesTally ==
  ASSUME NEW S, NEW new, NEW records, Write(disk, new, records, dirty),
         \A k \in Keys : (\A r \in S : k # <<"rollout", r>>) =>
           new[k] = Memory'[k] \/ (new[k] = disk[k] /\ Memory'[k] = Memory[k]),
         \A r \in RolloutIds : r \notin S /\ Owes(r) => Owes(r)',
         dirty \in BOOLEAN
  PROVE  Tallied(S) /\ (~dirty' => disk' = new)
  BY DEF Tallied, Write, Refusing, boundVars

LEMMA UpdatedTallies ==
  ASSUME NEW ks, NEW k \in Keys, k \in Changed => k \in ks
  PROVE  LET new == Updated(disk, ks)
         IN new[k] = Memory'[k] \/ (new[k] = disk[k] /\ Memory'[k] = Memory[k])
  BY DEF Updated, Changed

\* The jobs and checks stay.
LEMMA OwesSame ==
  ASSUME jobs' = jobs, checks' = checks
  PROVE  \A r \in RolloutIds : Owes(r) => Owes(r)'
  BY DEF Owes

LEMMA SavingKept ==
  ASSUME Kept, NEW ks, Changed \subseteq ks, NEW records, dirty \in BOOLEAN,
         Write(disk, Updated(disk, ks), records, dirty), jobs' = jobs, checks' = checks
  PROVE  Kept'
<1>1. Tallied({})
  <2>1. \A k \in Keys : Updated(disk, ks)[k] = Memory'[k]
                        \/ (Updated(disk, ks)[k] = disk[k] /\ Memory'[k] = Memory[k])
    BY UpdatedTallies
  <2>. QED BY <2>1, OwesSame, WritesTally
<1>. QED BY <1>1, TalliedKept

\* Nothing is written where nothing changes.
LEMMA IdleKept ==
  ASSUME Kept, NothingSaved, Memory' = Memory, \A r \in RolloutIds : Owes(r) => Owes(r)'
  PROVE  Kept'
<1>1. Tallied({})
  BY DEF Tallied, NothingSaved, storeVars, boundVars
<1>. QED BY <1>1, TalliedKept

LEMMA MemorySame ==
  ASSUME UNCHANGED <<rollouts, degraded, live, desired, aborted, policy, suspensions>>
  PROVE  Memory' = Memory
  BY DEF Memory

-----------------------------------------------------------------------------
\* The tick.

LEMMA StartKept ==
  ASSUME DInv, Kept, SavingStart
  PROVE  Kept'
<1> DEFINE old == IF dirty THEN Flushed ELSE disk
           new == Updated(old, Changed)
<1>1. Write(old, new, Keys, FALSE) /\ jobs' = jobs /\ checks' = checks
  BY DEF SavingStart, TickStart
<1>2. dirty \in BOOLEAN
  BY DEF DInv, Counted
<1>3. CASE dirty
  <2>1. ASSUME NEW k \in FlushedKeys PROVE new[k] = Memory'[k]
    BY <1>3 DEF FlushedKeys, Flushed, Updated, Changed
  <2> HIDE DEF new, old
  <2>2. ~dirty' => disk' = new
    BY <1>1 DEF Write, Refusing
  <2>3. ASSUME ~dirty', NEW r \in RolloutIds PROVE SavedAs(r)'
    <3>1. <<"rollout", r>> \in FlushedKeys
      BY KeyOf, KindOf DEF FlushedKeys, FlushedKinds
    <3>. QED BY <2>1, <2>2, <2>3, <3>1, MemoryOfNext DEF SavedAs
  <2>. QED BY <2>1, <2>2, <2>3 DEF Kept, FlushedKeys, Keys
<1>4. CASE ~dirty
  <2>1. Write(disk, Updated(disk, Changed), Keys, dirty)
    BY <1>1, <1>2, <1>4
  <2>. QED BY <1>1, <1>2, <2>1, SavingKept
<1>. QED BY <1>3, <1>4

LEMMA PlanKept ==
  ASSUME DInv, Tidy, SoakersWhole, Kept, NEW r \in planning, SavingPlan(r)
  PROVE  Kept'
<1>0. r \in RolloutIds /\ dirty \in BOOLEAN /\ TypeOK
  BY DEF DInv, TypeOK, Counted
<1>1. PlanStep(r)
  BY DEF SavingPlan
<1>2. PICK new : Assigned(r, new)
  BY <1>0, <1>1, PlanStepAssigns
<1>3. pc = "plan"
  BY <1>1 DEF PlanStep, PlanNothing, PlanRetry, PlanStart, PlanOpen, PlanLate, PlanSoak, Planning
<1>4. \A q \in RolloutIds : Owes(q) => Owes(q)'
  BY <1>2 DEF Assigned, Owes
<1>5. rollouts'[r] = new
  BY <1>0, <1>2 DEF Assigned, TypeOK
<1>6. CASE UNCHANGED <<rollouts, degraded>>
  <2>1. NothingSaved
    BY <1>6 DEF SavingPlan
  <2>2. Memory' = Memory
    BY <1>2, <1>6, MemorySame DEF Assigned
  <2>. QED BY <1>4, <2>1, <2>2, IdleKept
<1>7. CASE ~UNCHANGED <<rollouts, degraded>>
  <2> DEFINE key == <<"rollout", r>>
             e == [Updated(disk, Changed) EXCEPT ![key] = PlanSaved(r)]
  <2>1. Write(disk, e, Keys, dirty)
    BY <1>7 DEF SavingPlan
  <2>2. \A k \in Keys : e[k] = IF k = key THEN PlanSaved(r) ELSE Updated(disk, Changed)[k]
    BY DEF Updated
  <2> HIDE DEF e
  <2>3. \A k \in Keys : (\A q \in {r} : k # <<"rollout", q>>) =>
           e[k] = Memory'[k] \/ (e[k] = disk[k] /\ Memory'[k] = Memory[k])
    BY <2>2, UpdatedTallies
  <2>4. Tallied({r}) /\ (~dirty' => disk' = e)
    BY <1>0, <1>4, <2>1, <2>3, WritesTally
  <2>5. ASSUME ~dirty' PROVE SavedAs(r)' \/ Owed(r)'
    <3> DEFINE sent == {j.target : j \in {k \in jobs' : k.rollout = r}}
               asleep == rollouts[r].state = "Soaking" /\ rollouts'[r].state = "Soaking"
    <3>1. disk'[key] = PlanSaved(r)
      BY <1>0, <2>2, <2>4, <2>5, KeyOf
    <3>2. CASE sent = {} /\ ~asleep
      <4>1. PlanSaved(r) = rollouts'[r]
        BY <3>2 DEF PlanSaved
      <4>. QED BY <3>1, <4>1 DEF SavedAs
    <3>3. CASE sent # {}
      <4>1. PICK j \in jobs' : j.rollout = r
        BY <3>3
      <4>2. j \notin jobs
        BY <1>3, <4>1 DEF Tidy
      <4>3. Active(rollouts'[r])
        BY <1>2, <1>5, <4>1, <4>2 DEF Assigned
      <4>. QED BY <4>1, <4>3 DEF Owed, Owes
    <3>4. CASE asleep
      <4>1. r \in checks'
        BY <1>0, <1>1, <1>7, <3>4, PlanSoakOwes
      <4>. QED BY <3>4, <4>1 DEF Owed, Owes, Active, ActiveStates
    <3>. QED BY <3>2, <3>3, <3>4
  <2>. QED BY <2>4, <2>5, TalliedKept
<1>. QED BY <1>6, <1>7

\* A result leaves the other rollouts alone, and a rollout that has ended.
LEMMA ResultKept ==
  ASSUME DInv, Kept, NEW j \in jobs, SavingResult(j)
  PROVE  Kept'
<1> DEFINE r == j.rollout
           key == <<"rollout", r>>
           ro == rollouts[r]
           last == \A k \in jobs' : k.rollout # r
           own == IF Active(ro) /\ (last \/ rollouts'[r].state # ro.state) THEN {key} ELSE {}
           ks == (Changed \ {key}) \cup own
<1>0. r \in RolloutIds /\ dirty \in BOOLEAN /\ key \in Keys
  BY KeyOf DEF DInv, TypeOK, Job, Counted
<1>1. Write(disk, Updated(disk, ks), Keys, dirty)
  BY DEF SavingResult
<1>2. Applying(j) /\ (ApplyStale(j) \/ ApplyUpdate(j) \/ ApplyInspect(j) \/ ApplyReady(j))
  BY DEF SavingResult, ApplyStale, ApplyUpdate, ApplyInspect, ApplyReady
<1>3. jobs' = jobs \ {j} /\ checks' = checks
  BY <1>2 DEF Applying
<1>4. \A q \in RolloutIds : q \notin {r} /\ Owes(q) => Owes(q)'
  BY <1>3 DEF Owes
<1>5. ~Active(ro) => rollouts' = rollouts
  <2> SUFFICES ASSUME ~Active(ro) PROVE rollouts' = rollouts
    OBVIOUS
  <2>1. ~Concerns(j)
    BY DEF Concerns, Active, ActiveStates
  <2>. QED BY <1>2, <2>1 DEF ApplyStale, ApplyUpdate, ApplyInspect, ApplyReady, Counts
<1> HIDE DEF last
<1>6. \A k \in Keys : (\A q \in {r} : k # <<"rollout", q>>) =>
         Updated(disk, ks)[k] = Memory'[k] \/ (Updated(disk, ks)[k] = disk[k] /\ Memory'[k] = Memory[k])
  <2>1. ASSUME NEW k \in Keys, k # key, k \in Changed PROVE k \in ks
    BY <2>1
  <2>. QED BY <2>1, UpdatedTallies
<1>7. Updated(disk, ks)[key] = IF key \in ks THEN Memory'[key] ELSE disk[key]
  BY <1>0, UpdatedAt
<1>8. key \in ks <=> Active(ro) /\ (last \/ rollouts'[r].state # ro.state)
  OBVIOUS
<1> HIDE DEF ks
<1>9. Tallied({r}) /\ (~dirty' => disk' = Updated(disk, ks))
  <2> HIDE DEF r
  <2>. QED BY <1>0, <1>1, <1>4, <1>6, WritesTally
<1>10. ASSUME ~dirty' PROVE SavedAs(r)' \/ Owed(r)'
  <2>1. CASE key \in ks
    <3>1. disk'[key] = rollouts'[r]
      BY <1>0, <1>7, <1>9, <1>10, <2>1, MemoryOfNext
    <3>. QED BY <3>1 DEF SavedAs
  <2>2. CASE ~Active(ro)
    <3>1. disk'[key] = disk[key] /\ rollouts'[r] = rollouts[r]
      BY <1>5, <1>7, <1>8, <1>9, <1>10, <2>2
    <3>2. ~dirty /\ crashes' = crashes
      BY <1>9, <1>10 DEF Tallied
    <3>3. SavedAs(r)
      BY <1>0, <2>2, <3>2 DEF Kept, Owed
    <3>. QED BY <3>1, <3>2, <3>3 DEF SavedAs
  <2>3. CASE Active(ro) /\ ~last /\ rollouts'[r].state = ro.state
    BY <2>3 DEF Owed, Owes, Active, last
  <2>. QED BY <1>8, <2>1, <2>2, <2>3
<1> HIDE DEF r
<1>. QED BY <1>9, <1>10, TalliedKept

LEMMA CheckKept ==
  ASSUME DInv, Kept, NEW r \in checks, SavingCheck(r)
  PROVE  Kept'
<1> DEFINE key == <<"rollout", r>>
           own == {k \in {key} : Active(rollouts[r])}
           ks == Changed \cup own
<1>0. r \in RolloutIds /\ dirty \in BOOLEAN /\ key \in Keys
  BY KeyOf DEF DInv, TypeOK, Counted
<1>1. Write(disk, Updated(disk, ks), Keys, dirty)
  BY DEF SavingCheck
<1>2. ApplyingCheck(r)
  BY DEF SavingCheck, ApplyCheckStale, ApplyCheckPassed, ApplyCheckFailed
<1>3. jobs' = jobs /\ checks' = checks \ {r}
  BY <1>2 DEF ApplyingCheck
<1>4. \A q \in RolloutIds : q \notin {r} /\ Owes(q) => Owes(q)'
  BY <1>3 DEF Owes
<1>5. ~Active(rollouts[r]) => rollouts' = rollouts
  BY DEF SavingCheck, ApplyCheckStale, ApplyCheckPassed, ApplyCheckFailed, Active, ActiveStates
<1>6. \A k \in Keys : Updated(disk, ks)[k] = Memory'[k]
                      \/ (Updated(disk, ks)[k] = disk[k] /\ Memory'[k] = Memory[k])
  BY UpdatedTallies
<1>7. Updated(disk, ks)[key] = IF key \in ks THEN Memory'[key] ELSE disk[key]
  BY <1>0, UpdatedAt
<1>8. Active(rollouts[r]) => key \in ks
  OBVIOUS
<1> HIDE DEF ks
<1>9. Tallied({r}) /\ (~dirty' => disk' = Updated(disk, ks))
  BY <1>0, <1>1, <1>4, <1>6, WritesTally
<1>10. ASSUME ~dirty' PROVE SavedAs(r)' \/ Owed(r)'
  <2>1. CASE key \in ks
    <3>1. disk'[key] = rollouts'[r]
      BY <1>0, <1>7, <1>9, <1>10, <2>1, MemoryOfNext
    <3>. QED BY <3>1 DEF SavedAs
  <2>2. CASE key \notin ks
    <3>1. disk'[key] = disk[key] /\ rollouts'[r] = rollouts[r] /\ ~Active(rollouts[r])
      BY <1>5, <1>7, <1>8, <1>9, <1>10, <2>2
    <3>2. ~dirty /\ crashes' = crashes
      BY <1>9, <1>10 DEF Tallied
    <3>3. SavedAs(r)
      BY <1>0, <3>1, <3>2 DEF Kept, Owed
    <3>. QED BY <3>1, <3>2, <3>3 DEF SavedAs
  <2>. QED BY <2>1, <2>2
<1>. QED BY <1>9, <1>10, TalliedKept

LEMMA TickKept ==
  ASSUME DInv, Tidy, SoakersWhole, Kept, DurableTick
  PROVE  Kept'
<1>0. dirty \in BOOLEAN
  BY DEF DInv, Counted
<1>1. ASSUME NEW g, OpenGroup(g), Saved PROVE Kept'
  BY <1>0, <1>1, SavingKept DEF Saved, OpenGroup
<1>2. ASSUME OpenDone \/ PlanDone \/ ExecDone \/ TickDone, NothingSaved PROVE Kept'
  <2>1. /\ UNCHANGED <<rollouts, degraded, live, desired, aborted, policy, suspensions>>
        /\ jobs' = jobs /\ checks' = checks
    BY <1>2 DEF OpenDone, PlanDone, ExecDone, TickDone, peopleVars
  <2>. QED BY <1>2, <2>1, MemorySame, OwesSame, IdleKept
<1>. QED BY <1>1, <1>2, StartKept, PlanKept, ResultKept, CheckKept DEF DurableTick

-----------------------------------------------------------------------------
\* Beside the tick.

\* A hold that has run out.
Unheld(ro, t) == [ro EXCEPT !.tgt[t].hold = FALSE]

\* One target an update of which never reported back.
Again(rt) == IF rt.phase = "updating" /\ ~rt.done THEN [rt EXCEPT !.phase = "pending"] ELSE rt

LEMMA AgainType ==
  ASSUME NEW rt \in RolloutTarget
  PROVE  /\ Again(rt) \in RolloutTarget /\ Again(Again(rt)) = Again(rt)
         /\ [rt EXCEPT !.hold = FALSE] \in RolloutTarget
         /\ Again([rt EXCEPT !.hold = FALSE]) = [Again(rt) EXCEPT !.hold = FALSE]
<1>1. "pending" \in Phases
  BY DEF Phases
<1>2. Again(rt) \in RolloutTarget
  BY <1>1 DEF Again, RolloutTarget
<1>3. Again(Again(rt)) = Again(rt)
  BY DEF Again, RolloutTarget
<1>4. [rt EXCEPT !.hold = FALSE] \in RolloutTarget
  BY DEF RolloutTarget
<1>5. Again([rt EXCEPT !.hold = FALSE]) = [Again(rt) EXCEPT !.hold = FALSE]
  <2>1. CASE rt.phase = "updating" /\ ~rt.done
    BY <2>1 DEF Again, RolloutTarget
  <2>2. CASE ~(rt.phase = "updating" /\ ~rt.done)
    BY <2>2 DEF Again, RolloutTarget
  <2>. QED BY <2>1, <2>2
<1>. QED BY <1>2, <1>3, <1>4, <1>5

LEMMA RequeuedIs ==
  ASSUME NEW ro \in Rollout
  PROVE  Requeued(ro) = [ro EXCEPT !.tgt = [t \in Targets |-> Again(ro.tgt[t])]]
  BY DEF Requeued, Again

LEMMA RequeuedOnce ==
  ASSUME NEW ro \in Rollout
  PROVE  Requeued(Requeued(ro)) = Requeued(ro)
<1> DEFINE f == [t \in Targets |-> Again(ro.tgt[t])]
           one == [ro EXCEPT !.tgt = f]
<1>1. Requeued(ro) = one /\ Requeued(ro) \in Rollout
  BY RequeuedIs, RequeuedType DEF Kin
<1>2. one.tgt = f
  BY DEF Rollout
<1>3. [t \in Targets |-> Again(f[t])] = f
  BY AgainType, TgtType
<1>4. Requeued(one) = [one EXCEPT !.tgt = [t \in Targets |-> Again(f[t])]]
  BY <1>1, <1>2, RequeuedIs
<1>5. [one EXCEPT !.tgt = f] = one
  <2> HIDE DEF f
  <2>. QED BY DEF Rollout
<1>. QED BY <1>1, <1>3, <1>4, <1>5

LEMMA UnheldIs ==
  ASSUME NEW ro \in Rollout, NEW t \in Targets
  PROVE  Unheld(ro, t) = [ro EXCEPT !.tgt = [u \in Targets |->
           IF u = t THEN [ro.tgt[u] EXCEPT !.hold = FALSE] ELSE ro.tgt[u]]]
<1>1. ro.tgt \in [Targets -> RolloutTarget]
  BY DEF Rollout
<1>2. [ro.tgt EXCEPT ![t].hold = FALSE]
        = [u \in Targets |-> IF u = t THEN [ro.tgt[u] EXCEPT !.hold = FALSE] ELSE ro.tgt[u]]
  BY <1>1
<1>3. Unheld(ro, t) = [ro EXCEPT !.tgt = [ro.tgt EXCEPT ![t].hold = FALSE]]
  BY DEF Unheld, Rollout
<1>. QED BY <1>2, <1>3

LEMMA UnheldRequeued ==
  ASSUME NEW ro \in Rollout, NEW t \in Targets
  PROVE  Requeued(Unheld(ro, t)) = Unheld(Requeued(ro), t)
<1> DEFINE Off(rt) == [rt EXCEPT !.hold = FALSE]
           f == [u \in Targets |-> IF u = t THEN Off(ro.tgt[u]) ELSE ro.tgt[u]]
           g == [u \in Targets |-> Again(ro.tgt[u])]
           a == [ro EXCEPT !.tgt = f]
           b == [ro EXCEPT !.tgt = g]
<1>1. Unheld(ro, t) = a /\ Requeued(ro) = b
  BY UnheldIs, RequeuedIs
<1>2. \A u \in Targets : /\ ro.tgt[u] \in RolloutTarget /\ Off(ro.tgt[u]) \in RolloutTarget
                         /\ Again(ro.tgt[u]) \in RolloutTarget
                         /\ Again(Off(ro.tgt[u])) = Off(Again(ro.tgt[u]))
  BY AgainType, TgtType
<1>o. \A rt : Off(rt) = [rt EXCEPT !.hold = FALSE]
  OBVIOUS
<1> HIDE DEF Off
<1>3. f \in [Targets -> RolloutTarget] /\ g \in [Targets -> RolloutTarget]
  BY <1>2
<1>4. [u \in Targets |-> Again(f[u])] = [u \in Targets |-> IF u = t THEN Off(g[u]) ELSE g[u]]
  BY <1>2
<1> HIDE DEF f, g
<1>5. a \in Rollout /\ a.tgt = f /\ b \in Rollout /\ b.tgt = g
  BY <1>3 DEF Rollout
<1>6. Requeued(a) = [a EXCEPT !.tgt = [u \in Targets |-> Again(f[u])]]
  BY <1>5, RequeuedIs
<1>7. Unheld(b, t) = [b EXCEPT !.tgt = [u \in Targets |-> IF u = t THEN Off(g[u]) ELSE g[u]]]
  <2>1. Unheld(b, t) = [b EXCEPT !.tgt = [u \in Targets |->
          IF u = t THEN [b.tgt[u] EXCEPT !.hold = FALSE] ELSE b.tgt[u]]]
    BY <1>5, UnheldIs
  <2> HIDE DEF a, b
  <2>. QED BY <1>5, <1>o, <2>1
<1>8. \A h : [a EXCEPT !.tgt = h] = [b EXCEPT !.tgt = h]
  BY DEF Rollout
<1>. QED BY <1>1, <1>4, <1>6, <1>7, <1>8

LEMMA LapseKept ==
  ASSUME DInv, Kept, NEW r \in RolloutIds, NEW t \in Targets, SavingLapse(r, t)
  PROVE  Kept'
<1> DEFINE key == <<"rollout", r>>
           m == rollouts[r]
           d == disk[key]
<1>1. m \in Rollout /\ d \in Rollout /\ key \in Keys /\ DOMAIN disk = Keys
      /\ rollouts \in [RolloutIds -> Rollout]
  BY KeyOf DEF DInv, TypeOK, Fits
<1>2. /\ rollouts' = [rollouts EXCEPT ![r].tgt[t].hold = FALSE]
      /\ disk' = [disk EXCEPT ![key].tgt[t].hold = FALSE]
      /\ dirty' = dirty /\ crashes' = crashes /\ jobs' = jobs /\ checks' = checks
  BY DEF SavingLapse, HoldLapse, boundVars, tickVars
<1>3. rollouts'[r] = Unheld(m, t) /\ \A q \in RolloutIds \ {r} : rollouts'[q] = rollouts[q]
  BY <1>1, <1>2 DEF Unheld
<1>4. disk'[key] = Unheld(d, t) /\ \A k \in Keys \ {key} : disk'[k] = disk[k]
  BY <1>1, <1>2 DEF Unheld
<1>5. ASSUME NEW k \in Keys, k # key PROVE disk'[k] = disk[k] /\ Memory'[k] = Memory[k]
  <2>1. /\ degraded' = degraded /\ live' = live /\ desired' = desired
        /\ aborted' = aborted /\ policy' = policy /\ suspensions' = suspensions
    BY DEF SavingLapse, HoldLapse, peopleVars
  <2>2. ASSUME NEW q \in RolloutIds, k = <<"rollout", q>> PROVE Memory'[k] = Memory[k]
    <3>1. q # r
      BY <1>5, <2>2
    <3>. QED BY <1>3, <2>2, <3>1, MemoryOf, MemoryOfNext
  <2>3. ASSUME \A q \in RolloutIds : k # <<"rollout", q>> PROVE Memory'[k] = Memory[k]
    <3>0. /\ \A u \in Targets : /\ Memory'[<<"degraded", u>>] = Memory[<<"degraded", u>>]
                               /\ Memory'[<<"live", u>>] = Memory[<<"live", u>>]
          /\ \A i \in Images : Memory'[<<"desired", i>>] = Memory[<<"desired", i>>]
          /\ \A g \in Groups : /\ Memory'[<<"aborted", g>>] = Memory[<<"aborted", g>>]
                              /\ Memory'[<<"policy", g>>] = Memory[<<"policy", g>>]
          /\ \A sel \in Selectors :
               Memory'[<<"suspension", sel>>] = Memory[<<"suspension", sel>>]
      BY <2>1, MemoryOf, MemoryOfNext
    <3>1. ASSUME NEW u \in Targets, k = <<"degraded", u>> \/ k = <<"live", u>> PROVE Memory'[k] = Memory[k]
      BY <3>0, <3>1, Zenon
    <3>2. ASSUME NEW i \in Images, k = <<"desired", i>> PROVE Memory'[k] = Memory[k]
      BY <3>0, <3>2, Zenon
    <3>3. ASSUME NEW g \in Groups, k = <<"aborted", g>> \/ k = <<"policy", g>> PROVE Memory'[k] = Memory[k]
      BY <3>0, <3>3, Zenon
    <3>4. ASSUME NEW sel \in Selectors, k = <<"suspension", sel>> PROVE Memory'[k] = Memory[k]
      BY <3>0, <3>4, Zenon
    <3>. QED BY <2>3, <3>1, <3>2, <3>3, <3>4, KeyKinds, Zenon
  <2>4. disk'[k] = disk[k]
    BY <1>4, <1>5
  <2>. QED BY <2>2, <2>3, <2>4, Zenon
<1>6. Tallied({r})
  BY <1>2, <1>5, OwesSame DEF Tallied
<1>7. ASSUME ~dirty' PROVE SavedAs(r)' \/ Owed(r)'
  <2>1. Unheld(m, t).state = m.state /\ Unheld(d, t).state = d.state
    BY <1>1 DEF Unheld, Rollout
  <2>2. CASE Owed(r)
    BY <1>2, <1>3, <2>1, <2>2 DEF Owed, Owes, Active
  <2>3. CASE SavedAs(r)
    <3>1. m = Requeued(d) => Unheld(m, t) = Requeued(Unheld(d, t))
      BY <1>1, UnheldRequeued
    <3>2. \/ m = d \/ m = Requeued(d)
          \/ crashes > 0 /\ m.state = "Aborted" /\ Active(d)
      BY <2>3 DEF SavedAs
    <3> HIDE DEF m, d
    <3>3. \/ Unheld(m, t) = Unheld(d, t) \/ Unheld(m, t) = Requeued(Unheld(d, t))
          \/ crashes' > 0 /\ Unheld(m, t).state = "Aborted" /\ Active(Unheld(d, t))
      BY <1>2, <2>1, <3>1, <3>2 DEF Active
    <3>. QED BY <1>3, <1>4, <3>3 DEF SavedAs
  <2>. QED BY <1>2, <1>7, <2>2, <2>3 DEF Kept
<1>. QED BY <1>6, <1>7, TalliedKept

LEMMA WorldKept ==
  ASSUME DInv, Kept, DurableWorld
  PROVE  Kept'
<1>0. dirty \in BOOLEAN
  BY DEF DInv, Counted
<1>1. ASSUME Saved, Resolve \/ Forget \/ \E t \in Targets : InspectAll(t) PROVE Kept'
  <2>1. jobs' = jobs /\ checks' = checks
    BY <1>1 DEF Resolve, Forget, InspectAll, tickVars
  <2>. QED BY <1>0, <1>1, <2>1, SavingKept DEF Saved
<1>2. ASSUME NothingSaved,
             \/ CheckEnvironment \/ \E t \in Targets : Land(t) \/ Fizzle(t)
             \/ \E f \in Files : Reload(f)
      PROVE  Kept'
  <2>1. /\ UNCHANGED <<rollouts, degraded, live, desired, aborted, policy, suspensions>>
        /\ jobs' = jobs /\ checks' = checks
    BY <1>2 DEF CheckEnvironment, Land, Fizzle, Reload, tickVars, peopleVars
  <2>. QED BY <1>2, <2>1, MemorySame, OwesSame, IdleKept
<1>. QED BY <1>1, <1>2, LapseKept DEF DurableWorld

-----------------------------------------------------------------------------
\* People, and a restart.

LEMMA PeopleKept ==
  ASSUME DInv, Kept, DurablePeople
  PROVE  Kept'
<1>0. dirty \in BOOLEAN
  BY DEF DInv, Counted
<1>1. Refusing => Kept'
  BY DEF Refusing, Kept
<1>2. CASE Accepted
  <2>1. PICK ks : disk' = Updated(disk, ks) /\ Changed \subseteq ks /\ UNCHANGED <<dirty, boundVars>>
    BY <1>2 DEF Accepted
  <2>2. jobs' = jobs /\ checks' = checks
    <3>1. ASSUME NEW sel, Suspend(sel) \/ Resume(sel) PROVE UNCHANGED tickVars
      BY <3>1 DEF Suspend, Resume
    <3>2. ASSUME NEW g, NEW p, SetPolicy(g, p) PROVE UNCHANGED tickVars
      BY <3>2 DEF SetPolicy
    <3>3. ASSUME NEW r, Pause(r) \/ Promote(r) \/ Abort(r) \/ Retry(r) PROVE UNCHANGED tickVars
      BY <3>3 DEF Pause, Promote, Abort, Retry, OnRollout
    <3>4. UNCHANGED tickVars
      BY <1>2, <3>1, <3>2, <3>3 DEF Accepted
    <3>. QED BY <3>4 DEF tickVars
  <2>3. Write(disk, Updated(disk, ks), Keys, dirty)
    BY <2>1 DEF Write
  <2>. QED BY <1>0, <2>1, <2>2, <2>3, SavingKept
<1>3. CASE Refused
  BY <1>1, <1>3 DEF Refused
<1>4. ASSUME NEW r, AbortRefused(r) PROVE Kept'
  BY <1>1, <1>4 DEF AbortRefused
<1>5. ASSUME NEW g, NEW f, SyncRefused(g, f) PROVE Kept'
  BY <1>1, <1>5 DEF SyncRefused
<1>6. ASSUME NEW g, NEW f, NEW force, NEW strategy, SavingSync(g, force, strategy, f) PROVE Kept'
  <2>1. jobs' = jobs /\ checks' = checks
    BY <1>6 DEF SavingSync, Sync, tickVars
  <2>2. \E ks, records : Changed \subseteq ks /\ Write(disk, Updated(disk, ks), records, dirty)
    BY <1>6 DEF SavingSync
  <2>. QED BY <1>0, <2>1, <2>2, SavingKept
<1>. QED BY <1>2, <1>3, <1>4, <1>5, <1>6 DEF DurablePeople

LEMMA CrashKept ==
  ASSUME DInv, Crash
  PROVE  Kept' /\ Tidy'
<1> DEFINE e == Restored(disk)
<1>1. /\ \A r \in RolloutIds : rollouts'[r] = e[<<"rollout", r>>]
      /\ degraded' = {t \in Targets : e[<<"degraded", t>>]}
      /\ \A t \in Targets : live'[t] = e[<<"live", t>>]
      /\ \A i \in Images : desired'[i] = e[<<"desired", i>>]
      /\ \A g \in Groups : aborted'[g] = e[<<"aborted", g>>] /\ policy'[g] = e[<<"policy", g>>]
      /\ suspensions' = {sel \in Selectors : e[<<"suspension", sel>>]}
      /\ disk' = disk /\ crashes' = crashes + 1
  BY DEF Crash
<1>2. Tidy'
  BY DEF Crash, Tidy
<1>3. /\ \A k \in Keys : k[1] # "rollout" => e[k] = disk[k]
      /\ \A r \in RolloutIds :
           LET ro == disk[<<"rollout", r>>]
           IN e[<<"rollout", r>>] =
                IF Active(ro) /\ disk[<<"aborted", ro.group>>] # {}
                THEN Requeued(Ended(ro, "Aborted")) ELSE Requeued(ro)
      /\ Fits(e)
  BY RestoredType DEF DInv
<1> HIDE DEF e
<1>4. crashes' > 0
  BY <1>1, BoundsAssumption DEF DInv, Counted
<1>5. ASSUME NEW r \in RolloutIds PROVE SavedAs(r)'
  <2> DEFINE ro == disk[<<"rollout", r>>]
  <2>1. ro \in Rollout
    BY DEF DInv, Fits
  <2>2. \/ rollouts'[r] = Requeued(ro)
        \/ rollouts'[r] = Requeued(Ended(ro, "Aborted")) /\ Active(ro)
    BY <1>1, <1>3
  <2> HIDE DEF ro
  <2>3. Requeued(Ended(ro, "Aborted")).state = "Aborted"
    BY <2>1, RequeuedType, EndedType DEF Kin, States, EndedStates
  <2>. QED BY <1>1, <1>4, <2>2, <2>3 DEF SavedAs, ro
<1>6. ASSUME NEW k \in Keys, k[1] # "rollout" PROVE disk'[k] = Memory'[k]
  <2>1. e[k] = disk'[k]
    BY <1>1, <1>3, <1>6
  <2>2. ASSUME NEW r \in RolloutIds, k = <<"rollout", r>> PROVE FALSE
    BY <1>6, <2>2, KindOf
  <2>3. ASSUME NEW t \in Targets, k = <<"degraded", t>> PROVE e[k] = Memory'[k]
    <3>1. e[k] \in BOOLEAN
      BY <1>3, <2>3 DEF Fits
    <3>2. Memory'[k] = (t \in degraded')
      BY <2>3, MemoryOfNext, Zenon
    <3>3. t \in degraded' <=> e[<<"degraded", t>>]
      BY <1>1
    <3>4. t \in degraded' <=> e[k]
      BY <2>3, <3>3, Zenon
    <3>5. ASSUME e[k] = TRUE PROVE e[k] = Memory'[k]
      BY <3>2, <3>4, <3>5, Zenon
    <3>6. ASSUME e[k] = FALSE PROVE e[k] = Memory'[k]
      <4>1. t \notin degraded'
        BY <3>4, <3>6
      <4>2. (t \in degraded') = FALSE
        BY <4>1
      <4>. QED BY <3>2, <3>6, <4>2, Zenon
    <3>. QED BY <3>1, <3>5, <3>6
  <2>4. ASSUME NEW sel \in Selectors, k = <<"suspension", sel>> PROVE e[k] = Memory'[k]
    <3>1. e[k] \in BOOLEAN
      BY <1>3, <2>4 DEF Fits
    <3>2. Memory'[k] = (sel \in suspensions')
      BY <2>4, MemoryOfNext, Zenon
    <3>3. sel \in suspensions' <=> e[<<"suspension", sel>>]
      BY <1>1
    <3>4. sel \in suspensions' <=> e[k]
      BY <2>4, <3>3, Zenon
    <3>5. ASSUME e[k] = TRUE PROVE e[k] = Memory'[k]
      BY <3>2, <3>4, <3>5, Zenon
    <3>6. ASSUME e[k] = FALSE PROVE e[k] = Memory'[k]
      <4>1. sel \notin suspensions'
        BY <3>4, <3>6
      <4>2. (sel \in suspensions') = FALSE
        BY <4>1
      <4>. QED BY <3>2, <3>6, <4>2, Zenon
    <3>. QED BY <3>1, <3>5, <3>6
  <2>5. ASSUME NEW t \in Targets, k = <<"live", t>> PROVE e[k] = Memory'[k]
    BY <1>1, <2>5, MemoryOfNext
  <2>6. ASSUME NEW i \in Images, k = <<"desired", i>> PROVE e[k] = Memory'[k]
    BY <1>1, <2>6, MemoryOfNext
  <2>7. ASSUME NEW g \in Groups, k = <<"aborted", g>> \/ k = <<"policy", g>> PROVE e[k] = Memory'[k]
    <3>1. /\ Memory'[<<"aborted", g>>] = e[<<"aborted", g>>]
          /\ Memory'[<<"policy", g>>] = e[<<"policy", g>>]
      BY <1>1, MemoryOfNext
    <3>. QED BY <2>7, <3>1, Zenon
  <2>. QED BY <2>1, <2>2, <2>3, <2>4, <2>5, <2>6, <2>7, KeyKinds
<1>7. Kept'
  BY <1>5, <1>6 DEF Kept, FlushedKeys, Keys
<1>. QED BY <1>2, <1>7

LEMMA KeptStep ==
  ASSUME DInv, Tidy, Kept, SoakersWhole, [DurableNext]_durableVars
  PROVE  Tidy' /\ Kept'
<1>1. CASE Crash
  BY <1>1, CrashKept
<1>2. CASE ~Crash
  <2>1. Tidy'
    <3>1. ASSUME NEW g, NEW f, SyncRefused(g, f) PROVE Tidy'
      BY <3>1 DEF SyncRefused, tickVars, Tidy
    <3>. QED BY <1>2, <3>1, StepsOfController, TidyStep DEF DInv
  <2>2. CASE UNCHANGED durableVars
    <3>1. /\ UNCHANGED <<rollouts, degraded, live, desired, aborted, policy, suspensions>>
          /\ jobs' = jobs /\ checks' = checks
          /\ disk' = disk /\ dirty' = dirty /\ crashes' = crashes
      BY <2>2 DEF durableVars, vars, peopleVars, tickVars, storeVars, boundVars
    <3>2. Memory' = Memory
      BY <3>1, MemorySame
    <3>3. ASSUME NEW r \in RolloutIds PROVE SavedAs(r) \/ Owed(r) => SavedAs(r)' \/ Owed(r)'
      BY <3>1 DEF SavedAs, Owed, Owes
    <3>4. Kept'
      BY <3>1, <3>2, <3>3 DEF Kept, FlushedKeys, Keys
    <3>. QED BY <2>1, <3>4
  <2>. QED BY <1>2, <2>1, <2>2, TickKept, WorldKept, PeopleKept DEF DurableNext
<1>. QED BY <1>1, <1>2

-----------------------------------------------------------------------------
\* What a clean controller's restart decides.

\* A rollout and what disk has of it decide the same after a restart.
LEMMA SavedDecides ==
  ASSUME NEW d \in Rollout, NEW m, m = d \/ m = Requeued(d), NEW marked \in BOOLEAN,
         NEW x, x = IF Active(d) /\ marked THEN Requeued(Ended(d, "Aborted")) ELSE Requeued(d),
         NEW y, y = IF Active(m) /\ marked THEN Requeued(Ended(m, "Aborted")) ELSE Requeued(m)
  PROVE  /\ \/ x = y
            \/ x.state = "Aborted" /\ y.state = "Aborted"
         /\ \A t \in Targets : y.tgt[t].hold => x.tgt[t].hold
<1>1. CASE m = d
  BY <1>1
<1>2. CASE m = Requeued(d)
  <2>1. m \in Rollout /\ m.state = d.state /\ Requeued(m) = m
    BY <1>2, RequeuedType, RequeuedOnce DEF Kin
  <2>2. CASE ~(Active(d) /\ marked)
    <3>1. x = Requeued(d) /\ y = Requeued(m)
      BY <2>1, <2>2 DEF Active
    <3>. QED BY <1>2, <2>1, <3>1
  <2>3. CASE Active(d) /\ marked
    <3>1. x = Requeued(Ended(d, "Aborted")) /\ y = Requeued(Ended(m, "Aborted"))
      BY <2>1, <2>3 DEF Active
    <3>2. /\ Ended(d, "Aborted") \in Rollout /\ Ended(d, "Aborted").state = "Aborted"
          /\ Ended(m, "Aborted") \in Rollout /\ Ended(m, "Aborted").state = "Aborted"
      BY <2>1, EndedType DEF Kin, States, EndedStates
    <3>3. x.state = "Aborted" /\ y.state = "Aborted"
      BY <3>1, <3>2, RequeuedType
    <3>4. ASSUME NEW ro \in Rollout, NEW t \in Targets
          PROVE  /\ Requeued(ro).tgt[t].hold = ro.tgt[t].hold
                 /\ Requeued(ro).tgt[t].updated = ro.tgt[t].updated
                 /\ Requeued(ro).tgt[t].phase = "updating" => ro.tgt[t].phase = "updating"
      <4>1. ro.tgt[t] \in RolloutTarget
        BY TgtType
      <4>2. Requeued(ro).tgt[t] = Again(ro.tgt[t])
        BY RequeuedIs DEF Rollout
      <4>. QED BY <4>1, <4>2 DEF Again, RolloutTarget
    <3>5. ASSUME NEW ro \in Rollout, NEW t \in Targets
          PROVE  Ended(ro, "Aborted").tgt[t].hold
                   = (ro.tgt[t].hold \/ (ro.tgt[t].phase = "updating" /\ ~ro.tgt[t].updated))
      <4>1. ro.tgt[t] \in RolloutTarget
        BY TgtType
      <4>. QED BY <4>1 DEF Ended, Rollout, RolloutTarget
    <3>. QED BY <1>2, <2>1, <3>1, <3>2, <3>3, <3>4, <3>5
  <2>. QED BY <2>2, <2>3
<1>. QED BY <1>1, <1>2

LEMMA KeptClean ==
  ASSUME DInv, Tidy, Kept
  PROVE  CleanSaved
<1> SUFFICES ASSUME pc = "idle", ~dirty, NEW k \in Keys, k[1] \in FlushedKinds, ~EndedByRestore(k)
             PROVE  /\ Decides(Restored(disk), k) = Decides(Restored(Memory), k)
                    /\ k[1] = "rollout" => \A t \in Targets :
                         Restored(Memory)[k].tgt[t].hold => Restored(disk)[k].tgt[t].hold
  BY DEF CleanSaved
<1>1. \A r \in RolloutIds : SavedAs(r)
  BY DEF Kept, Tidy, Owed, Owes
<1>2. \A q \in FlushedKeys : q[1] # "rollout" => disk[q] = Memory[q]
  BY DEF Kept
<1>3. Fits(Memory) /\ Fits(disk)
  BY MemoryFits DEF DInv
<1>4. CASE k[1] # "rollout"
  <2>1. disk[k] = Memory[k]
    BY <1>2, <1>4 DEF FlushedKeys
  <2>2. Restored(disk)[k] = disk[k] /\ Restored(Memory)[k] = Memory[k]
    BY <1>3, <1>4, RestoredType
  <2>. QED BY <1>4, <2>1, <2>2 DEF Decides
<1>5. ASSUME NEW r \in RolloutIds, k = <<"rollout", r>>
      PROVE  /\ Decides(Restored(disk), k) = Decides(Restored(Memory), k)
             /\ \A t \in Targets : Restored(Memory)[k].tgt[t].hold => Restored(disk)[k].tgt[t].hold
  <2> DEFINE d == disk[k]
             m == Memory[k]
             g == d.group
             x == Restored(disk)[k]
             y == Restored(Memory)[k]
  <2>1. d \in Rollout /\ m = rollouts[r] /\ k[1] = "rollout"
    BY <1>3, <1>5, MemoryOf, KindOf DEF Fits
  <2>2. m = d \/ m = Requeued(d)
    BY <1>1, <1>5, <2>1 DEF SavedAs, EndedByRestore
  <2>3. m.group = g /\ g \in Groups
    BY <2>1, <2>2, RequeuedType DEF Kin, Rollout
  <2>4. disk[<<"aborted", g>>] = Memory[<<"aborted", g>>]
    BY <1>2, <2>3, KeyOf, KindOf DEF FlushedKeys, FlushedKinds
  <2>5. /\ x = IF Active(d) /\ disk[<<"aborted", g>>] # {}
               THEN Requeued(Ended(d, "Aborted")) ELSE Requeued(d)
        /\ y = IF Active(m) /\ Memory[<<"aborted", m.group>>] # {}
               THEN Requeued(Ended(m, "Aborted")) ELSE Requeued(m)
    BY <1>3, <1>5, RestoredType
  <2> HIDE DEF d, m, g, x, y
  <2>6. /\ \/ x = y
           \/ x.state = "Aborted" /\ y.state = "Aborted"
        /\ \A t \in Targets : y.tgt[t].hold => x.tgt[t].hold
    <3> DEFINE marked == disk[<<"aborted", g>>] # {}
    <3>1. marked \in BOOLEAN
      OBVIOUS
    <3>2. /\ x = IF Active(d) /\ marked THEN Requeued(Ended(d, "Aborted")) ELSE Requeued(d)
          /\ y = IF Active(m) /\ marked THEN Requeued(Ended(m, "Aborted")) ELSE Requeued(m)
      BY <2>3, <2>4, <2>5
    <3> HIDE DEF marked
    <3>. QED BY <2>1, <2>2, <3>1, <3>2, SavedDecides
  <2>7. x.state = "Aborted" => ~Active(x)
    BY DEF Active, ActiveStates
  <2>8. y.state = "Aborted" => ~Active(y)
    BY DEF Active, ActiveStates
  <2>9. Decides(Restored(disk), k) = IF ~Active(x) THEN [NoRollout EXCEPT !.state = x.state] ELSE x
    BY <2>1 DEF Decides, x
  <2>10. Decides(Restored(Memory), k) = IF ~Active(y) THEN [NoRollout EXCEPT !.state = y.state] ELSE y
    BY <2>1 DEF Decides, y
  <2>. QED BY <2>6, <2>7, <2>8, <2>9, <2>10 DEF x, y
<1>6. CASE k[1] = "rollout"
  <2>1. \E r \in RolloutIds : k = <<"rollout", r>>
    BY <1>6, KeyKinds, KindOf
  <2>. QED BY <1>5, <2>1
<1>. QED BY <1>4, <1>6

LEMMA KeptInit ==
  ASSUME DurableInit
  PROVE  Tidy /\ Kept
<1>1. disk = Memory /\ jobs = {} /\ checks = {}
  BY DEF DurableInit, Init
<1>2. \A r \in RolloutIds : SavedAs(r)
  BY <1>1, MemoryOf DEF SavedAs
<1>. QED BY <1>1, <1>2 DEF Tidy, Kept

\* Between ticks a clean controller can be stopped at no loss, whatever was
\* refused and wherever it stopped before, as long as no soaking rollout has
\* lost a target.
THEOREM CleanIsSaved == DurableSpec /\ []SoakersWhole => []CleanSaved
<1> DEFINE KInv == DInv /\ Tidy /\ Kept
<1>1. DurableInit => KInv
  BY DInvInit, KeptInit
<1>2. KInv /\ SoakersWhole /\ [DurableNext]_durableVars => KInv'
  BY DInvStep, KeptStep
<1>3. KInv => CleanSaved
  BY KeptClean
<1> HIDE DEF KInv
<1>. QED BY <1>1, <1>2, <1>3, PTL DEF DurableSpec

-----------------------------------------------------------------------------
\* Rollouts at home, while the file stays and nothing is suspended.

\* The targets of a rollout, their nodes, its group and what it is for stay.
Roots(ro, new) ==
  /\ new \in Rollout /\ new.group = ro.group /\ new.want = ro.want
  /\ Same(ro, new)

LEMMA RootsSelf ==
  ASSUME NEW ro \in Rollout
  PROVE  Roots(ro, ro)
  BY DEF Roots, Same

LEMMA RootsTrans ==
  ASSUME NEW a, NEW b, NEW c, Roots(a, b), Roots(b, c)
  PROVE  Roots(a, c)
  BY DEF Roots, Same

LEMMA CalmRoots ==
  ASSUME NEW ro, NEW new, Calm(ro, new)
  PROVE  Roots(ro, new)
  BY DEF Calm, Kin, Roots, Same

LEMMA RootsHome ==
  ASSUME NEW ro, NEW new, Roots(ro, new), AtHome(ro)
  PROVE  AtHome(new)
  BY HomeSame DEF Roots

\* A change of flags.
LEMMA FlagsRoot ==
  ASSUME NEW ro, NEW new \in Rollout, new.group = ro.group, new.want = ro.want, new.tgt = ro.tgt
  PROVE  Roots(ro, new)
  BY DEF Roots, Same

\* One target's record replaced by one on its node, in or out as it was.
LEMMA OneRoots ==
  ASSUME NEW ro \in Rollout, NEW t \in Targets, NEW rt \in RolloutTarget,
         rt.node = ro.tgt[t].node, rt.phase = "none" <=> ro.tgt[t].phase = "none"
  PROVE  Roots(ro, [ro EXCEPT !.tgt[t] = rt])
<1> DEFINE new == [ro EXCEPT !.tgt[t] = rt]
<1>1. new \in Rollout /\ new.group = ro.group
  BY OneTarget DEF Kin
<1>2. new.want = ro.want
  BY DEF Rollout
<1>3. \A u \in Targets : new.tgt[u] = IF u = t THEN rt ELSE ro.tgt[u]
  BY DEF Rollout
<1> HIDE DEF new
<1>4. Same(ro, new)
  BY <1>3 DEF Same
<1>. QED BY <1>1, <1>2, <1>4 DEF Roots, new

LEMMA RetriedRoots ==
  ASSUME NEW ro \in Rollout, NEW seen, NEW dg
  PROVE  Roots(ro, Retried(ro, seen, dg))
<1> DEFINE new == Retried(ro, seen, dg)
<1>1. new \in Rollout /\ new.group = ro.group
  BY RetriedType DEF Kin
<1>2. new.want = ro.want
  BY DEF Retried, Rollout
<1>3. ASSUME NEW t \in Targets
      PROVE  /\ new.tgt[t].node = ro.tgt[t].node
             /\ new.tgt[t].phase = "none" <=> ro.tgt[t].phase = "none"
  <2> DEFINE p == IF t \in seen THEN "updating" ELSE "pending"
             d == t \in seen
             e == t \in dg
             x == t \in InBatch(ro) /\ ro.tgt[t].phase = "failed"
  <2>1. new.tgt[t] = IF x THEN [ro.tgt[t] EXCEPT !.phase = p, !.done = d, !.updated = FALSE, !.free = e]
                     ELSE ro.tgt[t]
    BY DEF Retried, Rollout
  <2>2. ro.tgt[t] \in RolloutTarget
    BY TgtType
  <2>3. p # "none" /\ (x => ro.tgt[t].phase # "none")
    OBVIOUS
  <2> HIDE DEF p, d, e, x, new
  <2>. QED BY <2>1, <2>2, <2>3 DEF RolloutTarget
<1> HIDE DEF new
<1>. QED BY <1>1, <1>2, <1>3 DEF Roots, Same, new

LEMMA WithBatchRoots ==
  ASSUME NEW ro \in Rollout, NEW P, NEW free
  PROVE  Roots(ro, WithBatch(ro, P, free))
<1> DEFINE new == WithBatch(ro, P, free)
<1>1. new \in Rollout /\ new.group = ro.group
  BY WithBatchType DEF Kin
<1>2. new.want = ro.want
  BY DEF WithBatch, Rollout
<1>3. ASSUME NEW t \in Targets
      PROVE  new.tgt[t].node = ro.tgt[t].node /\ new.tgt[t].phase = ro.tgt[t].phase
  <2> DEFINE b == ro.tgt[t].node \in free
             k == ro.nb + 1
             x == t \in Candidates(ro) /\ ro.tgt[t].node \in P
  <2>1. new.tgt[t] = IF x THEN [ro.tgt[t] EXCEPT !.batch = k, !.free = b] ELSE ro.tgt[t]
    BY DEF WithBatch, Rollout
  <2>2. ro.tgt[t] \in RolloutTarget
    BY TgtType
  <2> HIDE DEF b, k, x, new
  <2>. QED BY <2>1, <2>2 DEF RolloutTarget
<1> HIDE DEF new
<1>. QED BY <1>1, <1>2, <1>3 DEF Roots, Same, new

\* An end, and a restart.
LEMMA EndedRoots ==
  ASSUME NEW ro \in Rollout, NEW s \in EndedStates
  PROVE  Roots(ro, Ended(ro, s))
  BY EndedCalm, CalmRoots DEF States

LEMMA RequeuedRoots ==
  ASSUME NEW ro \in Rollout
  PROVE  Roots(ro, Requeued(ro))
<1> DEFINE new == Requeued(ro)
<1>1. new \in Rollout /\ new.group = ro.group
  BY RequeuedType DEF Kin
<1>2. new.want = ro.want
  BY DEF Requeued, Rollout
<1>3. ASSUME NEW t \in Targets
      PROVE  /\ new.tgt[t].node = ro.tgt[t].node
             /\ new.tgt[t].phase = "none" <=> ro.tgt[t].phase = "none"
  <2>1. new.tgt[t] = IF ro.tgt[t].phase = "updating" /\ ~ro.tgt[t].done
                     THEN [ro.tgt[t] EXCEPT !.phase = "pending"] ELSE ro.tgt[t]
    BY DEF Requeued, Rollout
  <2>2. ro.tgt[t] \in RolloutTarget
    BY TgtType
  <2> HIDE DEF new
  <2>. QED BY <2>1, <2>2 DEF RolloutTarget
<1> HIDE DEF new
<1>. QED BY <1>1, <1>2, <1>3 DEF Roots, Same, new

-----------------------------------------------------------------------------
\* Rollouts at home: planning.

\* Rollout r keeps its roots, and the programs that begin are for its targets.
RootsAt(r) ==
  \E new : /\ Roots(rollouts[r], new)
           /\ rollouts' = [rollouts EXCEPT ![r] = new]
           /\ \A j \in jobs' \ jobs : new.tgt[j.target].phase # "none"

LEMMA SettleRoots ==
  ASSUME NEW r, NEW new, NEW dg, Settle(r, new, dg), Roots(rollouts[r], new)
  PROVE  RootsAt(r)
  BY DEF Settle, RootsAt

LEMMA PassBatchRoots ==
  ASSUME NEW r, NEW ro \in Rollout, NEW dg, PassBatch(r, ro, dg), Roots(rollouts[r], ro)
  PROVE  RootsAt(r)
<1>1. Roots(rollouts[r], Passed(ro))
  BY PassedCalm, CalmRoots, RootsTrans
<1>. QED BY <1>1, SettleRoots DEF PassBatch

LEMMA PlanBatchRoots ==
  ASSUME NEW r, NEW ro, NEW dg, PlanBatch(r, ro, dg), Roots(rollouts[r], ro)
  PROVE  RootsAt(r)
<1> DEFINE cur == WithoutLost(ro, Lost(ro), {"pending", "updating"})
           js == JobsFor(r, cur)
<1>0. ro \in Rollout
  BY DEF Roots
<1>1. cur \in Rollout /\ Roots(rollouts[r], cur)
  <2>1. Roots(ro, cur)
    BY <1>0, WithoutLostCalm, CalmRoots
  <2>. QED BY <2>1, RootsTrans DEF Roots
<1>2. \A j \in js : j.target \in Targets /\ cur.tgt[j.target].phase # "none"
  BY DEF JobsFor, Waiting, InBatch
<1>3. \/ js = {} /\ BatchReady(r, Advanced(cur), dg)
      \/ rollouts' = [rollouts EXCEPT ![r] = Advanced(cur)] /\ jobs' = jobs \cup js
  BY DEF PlanBatch
<1> HIDE DEF cur, js
<1>4. Roots(cur, Advanced(cur))
  BY <1>1, AdvancedCalm, CalmRoots
<1>5. Advanced(cur) \in Rollout /\ Roots(rollouts[r], Advanced(cur))
  BY <1>1, <1>4, RootsTrans DEF Roots
<1>6. CASE BatchReady(r, Advanced(cur), dg)
  <2>1. Roots(rollouts[r], Soaking(Advanced(cur)))
    BY <1>5, SoakingCalm, CalmRoots, RootsTrans
  <2>. QED BY <1>5, <1>6, <2>1, SettleRoots, PassBatchRoots DEF BatchReady
<1>7. CASE rollouts' = [rollouts EXCEPT ![r] = Advanced(cur)] /\ jobs' = jobs \cup js
  <2>1. \A j \in jobs' \ jobs : Advanced(cur).tgt[j.target].phase # "none"
    BY <1>2, <1>4, <1>7 DEF Roots, Same
  <2>. QED BY <1>5, <1>7, <2>1 DEF RootsAt
<1>. QED BY <1>3, <1>6, <1>7

LEMMA PlanStepRoots ==
  ASSUME TypeOK, NEW r \in RolloutIds, PlanStep(r)
  PROVE  RootsAt(r)
<1> DEFINE ro == rollouts[r]
<1>1. ro \in Rollout /\ Roots(ro, ro)
  BY RootsSelf DEF TypeOK
<1>2. CASE PlanNothing(r)
  BY <1>1, <1>2, SettleRoots DEF PlanNothing
<1>3. CASE PlanRetry(r)
  <2>1. PICK seen : PlanBatch(r, Retried(ro, seen, degraded), degraded \ Failed(ro))
    BY <1>3 DEF PlanRetry
  <2>2. Roots(ro, Retried(ro, seen, degraded))
    BY <1>1, RetriedRoots
  <2>. QED BY <2>1, <2>2, PlanBatchRoots
<1>4. CASE PlanStart(r)
  <2> DEFINE cur == Reviewed(ro, Lost(ro), Unreachable, Arrived(ro))
  <2>1. Roots(ro, cur)
    BY <1>1, ReviewedCalm, CalmRoots
  <2>2. \/ Settle(r, Ended(cur, "Complete"), degraded)
        \/ Settle(r, [cur EXCEPT !.state = "WaitingForEnvironment"], degraded)
        \/ Settle(r, [cur EXCEPT !.state = "WaitingForBudget"], degraded)
        \/ \E P, free : PlanBatch(r, WithBatch(cur, P, free), degraded)
    BY <1>4 DEF PlanStart
  <2> HIDE DEF cur
  <2>3. cur \in Rollout
    BY <2>1 DEF Roots
  <2>4. Roots(ro, Ended(cur, "Complete"))
    BY <2>1, <2>3, EndedRoots, RootsTrans DEF EndedStates
  <2>5. ASSUME NEW s \in {"WaitingForEnvironment", "WaitingForBudget"}
        PROVE  Roots(ro, [cur EXCEPT !.state = s])
    <3> DEFINE new == [cur EXCEPT !.state = s]
    <3>1. s \in States
      BY DEF States, ActiveStates
    <3>2. new \in Rollout
      BY <2>3, <3>1 DEF Rollout
    <3>3. new.group = cur.group /\ new.want = cur.want /\ new.tgt = cur.tgt
      BY <2>3 DEF Rollout
    <3> HIDE DEF new
    <3>. QED BY <2>1, <3>2, <3>3, FlagsRoot, RootsTrans DEF new
  <2>6. ASSUME NEW P, NEW free PROVE Roots(ro, WithBatch(cur, P, free))
    BY <2>1, <2>3, WithBatchRoots, RootsTrans
  <2>. QED BY <2>2, <2>4, <2>5, <2>6, SettleRoots, PlanBatchRoots
<1>5. CASE PlanOpen(r)
  BY <1>1, <1>5, PlanBatchRoots DEF PlanOpen
<1>6. CASE PlanLate(r)
  <2>1. PICK lost : LET cur == WithoutLost(ro, lost, {"pending", "updating"})
                    IN Settle(r, Halted(cur), degraded \cup HeldBy(cur))
    BY <1>6 DEF PlanLate
  <2> DEFINE cur == WithoutLost(ro, lost, {"pending", "updating"})
  <2>2. Roots(ro, cur)
    BY <1>1, WithoutLostCalm, CalmRoots
  <2>3. Settle(r, Halted(cur), degraded \cup HeldBy(cur))
    BY <2>1
  <2> HIDE DEF cur
  <2>4. Roots(ro, Halted(cur))
    BY <2>2, HaltedCalm, CalmRoots, RootsTrans DEF Roots
  <2>. QED BY <2>3, <2>4, SettleRoots
<1>7. CASE PlanSoak(r)
  <2> DEFINE cur == WithoutLost(ro, Lost(ro), Phases)
  <2>1. Roots(ro, cur)
    BY <1>1, WithoutLostCalm, CalmRoots
  <2>2. \/ PassBatch(r, ro, degraded)
        \/ Settle(r, ro, degraded)
        \/ rollouts' = [rollouts EXCEPT ![r] = cur] /\ UNCHANGED jobs
    BY <1>7 DEF PlanSoak
  <2> HIDE DEF cur
  <2>. QED BY <1>1, <2>1, <2>2, SettleRoots, PassBatchRoots DEF RootsAt
<1>. QED BY <1>2, <1>3, <1>4, <1>5, <1>6, <1>7 DEF PlanStep

-----------------------------------------------------------------------------
\* Rollouts at home: every other step.

Homes == \A r \in RolloutIds : AtHome(rollouts[r])

\* Every rollout keeps its roots or has just come home.
AllRoot == \A r \in RolloutIds : Roots(rollouts[r], rollouts'[r]) \/ AtHome(rollouts'[r])

LEMMA AllRootHomes ==
  ASSUME Homes, file' = file, AllRoot
  PROVE  Homes'
<1>1. \A r \in RolloutIds : AtHome(rollouts'[r])
  BY RootsHome DEF Homes, AllRoot
<1>. QED BY <1>1 DEF Homes, AtHome

LEMMA NoneRoots ==
  ASSUME TypeOK, rollouts' = rollouts
  PROVE  AllRoot
  BY RootsSelf DEF AllRoot, TypeOK

LEMMA OneRootsAll ==
  ASSUME TypeOK, NEW r \in RolloutIds, NEW new, Roots(rollouts[r], new) \/ AtHome(new),
         rollouts' = [rollouts EXCEPT ![r] = new]
  PROVE  AllRoot
<1>1. rollouts'[r] = new /\ \A q \in RolloutIds \ {r} : rollouts'[q] = rollouts[q]
  BY DEF TypeOK
<1>2. \A q \in RolloutIds : Roots(rollouts[q], rollouts[q])
  BY RootsSelf DEF TypeOK
<1>. QED BY <1>1, <1>2 DEF AllRoot

LEMMA SupersededRoots ==
  ASSUME TypeOK, NEW r \in RolloutIds
  PROVE  Roots(rollouts[r], Superseded(rollouts)[r])
<1>1. rollouts[r] \in Rollout
  BY DEF TypeOK
<1>2. Superseded(rollouts)[r] \in {rollouts[r], Ended(rollouts[r], "Superseded")}
  BY DEF Superseded
<1>. QED BY <1>1, <1>2, RootsSelf, EndedRoots DEF EndedStates

\* A rollout opens at home.
LEMMA OpenedHome ==
  ASSUME TypeOK, NEW g \in Groups, NEW s \in DOMAIN StrategyOf,
         NEW new, new.tgt = RolloutFor(g, s, file).tgt, new.want = RolloutFor(g, s, file).want,
         new.group = RolloutFor(g, s, file).group, new.state # "None"
  PROVE  AtHome(new)
<1>1. Tracked([NoRollout EXCEPT !.tgt = [t \in Targets |-> NoTarget]]) = {}
  BY NoRolloutType DEF NoRollout, NoTarget, Tracked, Active, ActiveStates
<1>. QED BY <1>1, OpenedMinds DEF Minds

LEMMA OpenGroupRoots ==
  ASSUME TypeOK, NEW g \in opening, OpenGroup(g)
  PROVE  AllRoot
<1>1. CASE rollouts' = rollouts
  BY <1>1, NoneRoots
<1>2. ASSUME NEW r \in FreshIds, NEW m \in {"WaitingForSync", "Running"},
             rollouts' = [rollouts EXCEPT ![r] =
               [RolloutFor(g, policy[g].strategy, file) EXCEPT !.state = m]]
      PROVE  AllRoot
  <2> DEFINE s == policy[g].strategy
             new == [RolloutFor(g, s, file) EXCEPT !.state = m]
  <2>1. g \in Groups /\ s \in DOMAIN StrategyOf /\ file \in Files /\ r \in RolloutIds
    BY DEF TypeOK, Policy, FreshIds
  <2>2. RolloutFor(g, s, file) \in Rollout
    BY <2>1, RolloutForType
  <2>3. /\ new.tgt = RolloutFor(g, s, file).tgt /\ new.want = RolloutFor(g, s, file).want
        /\ new.group = RolloutFor(g, s, file).group /\ new.state # "None"
    BY <2>2 DEF Rollout
  <2>4. rollouts' = [rollouts EXCEPT ![r] = new]
    BY <1>2
  <2> HIDE DEF new, s
  <2>5. AtHome(new)
    BY <2>1, <2>3, OpenedHome
  <2>. QED BY <2>1, <2>4, <2>5, OneRootsAll
<1>3. \/ rollouts' = rollouts
      \/ \E r \in FreshIds, m \in {"WaitingForSync", "Running"} :
           rollouts' = [rollouts EXCEPT ![r] =
             [RolloutFor(g, policy[g].strategy, file) EXCEPT !.state = m]]
  BY DEF OpenGroup
<1>. QED BY <1>1, <1>2, <1>3

\* What a result makes of its target.
LEMMA ResultRoots ==
  ASSUME TypeOK, NEW j \in jobs, Concerns(j), NEW rt \in RolloutTarget,
         LET old == rollouts[j.rollout].tgt[j.target]
         IN rt.node = old.node /\ rt.phase # "none",
         Continue(j, [rollouts[j.rollout] EXCEPT !.tgt[j.target] = rt])
  PROVE  AllRoot
<1>1. j.rollout \in RolloutIds /\ j.target \in Targets /\ rollouts[j.rollout] \in Rollout
  BY DEF TypeOK, Job
<1>2. rollouts[j.rollout].tgt[j.target].phase # "none"
  BY DEF Concerns
<1>3. Roots(rollouts[j.rollout], [rollouts[j.rollout] EXCEPT !.tgt[j.target] = rt])
  BY <1>1, <1>2, OneRoots
<1>. QED BY <1>1, <1>3, OneRootsAll DEF Continue

LEMMA ApplyRoots ==
  ASSUME TypeOK, NEW j \in jobs,
         ApplyStale(j) \/ ApplyUpdate(j) \/ ApplyInspect(j) \/ ApplyReady(j)
  PROVE  AllRoot
<1> DEFINE ro == rollouts[j.rollout]
           old == ro.tgt[j.target]
<1>1. j.rollout \in RolloutIds /\ j.target \in Targets /\ ro \in Rollout
  BY DEF TypeOK, Job
<1>2. old \in RolloutTarget
  BY <1>1, TgtType
<1>3. CASE ApplyStale(j)
  <2> DEFINE rt == [old EXCEPT !.phase = "skipped"]
  <2>1. rt \in RolloutTarget
    BY <1>2, PhaseType, PhaseNames
  <2>2. rt.node = old.node /\ rt.phase = "skipped"
    BY <1>2 DEF RolloutTarget
  <2>3. [ro EXCEPT !.tgt[j.target].phase = "skipped"] = [ro EXCEPT !.tgt[j.target] = rt]
    BY <1>1 DEF Rollout
  <2>4. rollouts' = rollouts \/ (Concerns(j) /\ Continue(j, [ro EXCEPT !.tgt[j.target].phase = "skipped"]))
    BY <1>3 DEF ApplyStale
  <2>5. rollouts' = rollouts \/ (Concerns(j) /\ Continue(j, [ro EXCEPT !.tgt[j.target] = rt]))
    BY <2>3, <2>4, Zenon
  <2> HIDE DEF rt
  <2>. QED BY <2>1, <2>2, <2>5, NoneRoots, ResultRoots
<1>4. CASE ApplyUpdate(j)
  <2> DEFINE rt == [old EXCEPT !.done = TRUE]
  <2>1. rt \in RolloutTarget
    BY <1>2 DEF RolloutTarget
  <2>2. rt.node = old.node /\ rt.phase = old.phase
    BY <1>2 DEF RolloutTarget
  <2>3. [ro EXCEPT !.tgt[j.target].done = TRUE] = [ro EXCEPT !.tgt[j.target] = rt]
    BY <1>1 DEF Rollout
  <2>4. Concerns(j) /\ (Continue(j, [ro EXCEPT !.tgt[j.target].done = TRUE]) \/ Continue(j, Halted(ro)))
    BY <1>4 DEF ApplyUpdate, Counts
  <2>5. Continue(j, [ro EXCEPT !.tgt[j.target] = rt]) \/ Continue(j, Halted(ro))
    BY <2>3, <2>4, Zenon
  <2>6. old.phase # "none"
    BY <2>4 DEF Concerns
  <2> HIDE DEF rt
  <2>7. Roots(ro, Halted(ro))
    BY <1>1, HaltedCalm, CalmRoots
  <2>8. Continue(j, Halted(ro)) => AllRoot
    BY <1>1, <2>7, OneRootsAll DEF Continue
  <2>. QED BY <2>1, <2>2, <2>4, <2>5, <2>6, <2>8, ResultRoots
<1>5. CASE ApplyInspect(j)
  <2> DEFINE arrived == running[j.target] = ro.want[file[j.target].image]
             u == old.updated \/ arrived
             p == IF arrived /\ ro.force THEN "ready" ELSE old.phase
             rt == [old EXCEPT !.updated = u, !.phase = p]
  <2>1. Concerns(j) /\ (rollouts' = rollouts \/ Continue(j, [ro EXCEPT !.tgt[j.target] = rt]))
    BY <1>5 DEF ApplyInspect, Counts
  <2>2. u \in BOOLEAN /\ p \in Phases
    BY <1>2, PhaseNames DEF RolloutTarget
  <2>3. p # "none"
    BY <2>1 DEF Concerns
  <2> HIDE DEF u, p, old
  <2>4. rt \in RolloutTarget
    BY <1>2, <2>2 DEF RolloutTarget
  <2>5. rt.node = old.node /\ rt.phase = p
    BY <1>2 DEF RolloutTarget
  <2> HIDE DEF rt
  <2>. QED BY <2>1, <2>3, <2>4, <2>5, NoneRoots, ResultRoots DEF old
<1>6. CASE ApplyReady(j)
  <2> DEFINE rt == [old EXCEPT !.phase = "ready"]
  <2>1. rt \in RolloutTarget
    BY <1>2, PhaseType, PhaseNames
  <2>2. rt.node = old.node /\ rt.phase = "ready"
    BY <1>2 DEF RolloutTarget
  <2>3. [ro EXCEPT !.tgt[j.target].phase = "ready"] = [ro EXCEPT !.tgt[j.target] = rt]
    BY <1>1 DEF Rollout
  <2>4. Concerns(j) /\ (rollouts' = rollouts \/ Continue(j, [ro EXCEPT !.tgt[j.target].phase = "ready"]))
    BY <1>6 DEF ApplyReady, Counts
  <2>5. rollouts' = rollouts \/ Continue(j, [ro EXCEPT !.tgt[j.target] = rt])
    BY <2>3, <2>4, Zenon
  <2> HIDE DEF rt
  <2>. QED BY <2>1, <2>2, <2>4, <2>5, NoneRoots, ResultRoots
<1>. QED BY <1>3, <1>4, <1>5, <1>6

LEMMA ApplyCheckRoots ==
  ASSUME TypeOK, NEW r \in checks, ApplyCheckStale(r) \/ ApplyCheckPassed(r) \/ ApplyCheckFailed(r)
  PROVE  AllRoot
<1> DEFINE old == rollouts[r]
<1>1. r \in RolloutIds /\ old \in Rollout
  BY DEF TypeOK
<1>2. ASSUME NEW ro, NEW dg, Roots(old, ro), Conclude(r, ro, dg) PROVE AllRoot
  BY <1>1, <1>2, OneRootsAll DEF Conclude
<1>3. ASSUME NEW ro, Roots(old, ro) PROVE Roots(old, Passed(ro)) /\ Roots(old, Halted(ro))
  BY <1>3, PassedCalm, HaltedCalm, CalmRoots, RootsTrans DEF Roots
<1>4. CASE ApplyCheckStale(r)
  BY <1>4, NoneRoots DEF ApplyCheckStale
<1>5. CASE ApplyCheckPassed(r) \/ ApplyCheckFailed(r)
  <2>1. PICK ro : /\ Kin(old, ro) /\ ro.want = old.want /\ ro.tgt = old.tgt
                  /\ \E dg : Conclude(r, ro, dg) \/ Conclude(r, Passed(ro), dg) \/ Conclude(r, Halted(ro), dg)
    BY <1>1, <1>5, CheckConcludes
  <2>2. ro \in Rollout /\ ro.group = old.group
    BY <2>1 DEF Kin
  <2>. QED BY <1>2, <1>3, <2>1, <2>2, FlagsRoot
<1>. QED BY <1>4, <1>5

LEMMA HoldLapseRoots ==
  ASSUME TypeOK, NEW r \in RolloutIds, NEW t \in Targets, HoldLapse(r, t)
  PROVE  AllRoot
<1> DEFINE old == rollouts[r]
           rt == [old.tgt[t] EXCEPT !.hold = FALSE]
<1>1. old \in Rollout /\ old.tgt[t] \in RolloutTarget
  BY TgtType DEF TypeOK
<1>2. rt \in RolloutTarget
  BY <1>1 DEF RolloutTarget
<1>3. rt.node = old.tgt[t].node /\ rt.phase = old.tgt[t].phase
  BY <1>1 DEF RolloutTarget
<1>4. rollouts' = [rollouts EXCEPT ![r] = [old EXCEPT !.tgt[t] = rt]]
  BY <1>1 DEF HoldLapse, TypeOK, Rollout
<1> HIDE DEF rt
<1>5. Roots(old, [old EXCEPT !.tgt[t] = rt])
  BY <1>1, <1>2, <1>3, OneRoots
<1>. QED BY <1>4, <1>5, OneRootsAll

LEMMA VerbRoots ==
  ASSUME TypeOK, NEW r \in RolloutIds, Pause(r) \/ Promote(r) \/ Abort(r) \/ Retry(r)
  PROVE  AllRoot
<1> DEFINE old == rollouts[r]
<1>0. old \in Rollout
  BY DEF TypeOK
<1>1. ASSUME NEW verb, NEW ro, OnRollout(verb, r, ro), Roots(old, ro) PROVE AllRoot
  BY <1>1, OneRootsAll DEF OnRollout
<1>s. /\ "Paused" \in States /\ "Running" \in States /\ "Aborted" \in States
      /\ "Aborted" \in EndedStates
  BY DEF States, ActiveStates, EndedStates
<1>2. CASE Pause(r)
  <2> DEFINE ro == IF old.open THEN [old EXCEPT !.pausePending = TRUE]
                   ELSE [old EXCEPT !.pausePending = FALSE, !.state = "Paused"]
  <2>1. OnRollout("pause", r, ro)
    BY <1>2 DEF Pause
  <2>2. ro \in Rollout
    BY <1>0, <1>s DEF Rollout
  <2>3. ro.want = old.want /\ ro.group = old.group /\ ro.tgt = old.tgt
    BY <1>0 DEF Rollout
  <2> HIDE DEF ro
  <2>. QED BY <1>1, <2>1, <2>2, <2>3, FlagsRoot
<1>3. CASE Promote(r)
  <2> DEFINE s == IF old.state = "Paused" THEN "Running" ELSE old.state
             ro == [old EXCEPT !.pausePending = FALSE, !.human = TRUE, !.state = s]
  <2>1. OnRollout("pause", r, ro)
    BY <1>3 DEF Promote
  <2>s. s \in States
    BY <1>0, <1>s DEF Rollout
  <2> HIDE DEF s
  <2>2. ro \in Rollout
    BY <1>0, <2>s DEF Rollout
  <2>3. ro.want = old.want /\ ro.group = old.group /\ ro.tgt = old.tgt
    BY <1>0 DEF Rollout
  <2> HIDE DEF ro
  <2>. QED BY <1>1, <2>1, <2>2, <2>3, FlagsRoot
<1>4. CASE Abort(r)
  <2> DEFINE end == Ended(old, "Aborted")
             ro == [end EXCEPT !.open = FALSE]
  <2>1. OnRollout("abort", r, ro)
    BY <1>4 DEF Abort
  <2>2. Roots(old, end)
    BY <1>0, <1>s, EndedRoots
  <2> HIDE DEF end
  <2>e. end \in Rollout
    BY <2>2 DEF Roots
  <2>3. ro \in Rollout
    BY <2>e DEF Rollout
  <2>4. ro.want = end.want /\ ro.group = end.group /\ ro.tgt = end.tgt
    BY <2>e DEF Rollout
  <2> HIDE DEF ro
  <2>. QED BY <1>1, <2>1, <2>2, <2>3, <2>4, FlagsRoot, RootsTrans
<1>5. CASE Retry(r)
  <2> DEFINE ro == [old EXCEPT !.retryPending = TRUE, !.human = TRUE]
  <2>1. OnRollout("retry", r, ro)
    BY <1>5 DEF Retry
  <2>2. ro \in Rollout
    BY <1>0 DEF Rollout
  <2>3. ro.want = old.want /\ ro.group = old.group /\ ro.tgt = old.tgt
    BY <1>0 DEF Rollout
  <2> HIDE DEF ro
  <2>. QED BY <1>1, <2>1, <2>2, <2>3, FlagsRoot
<1>. QED BY <1>2, <1>3, <1>4, <1>5

LEMMA SyncRoots ==
  ASSUME TypeOK, NEW g \in Groups, NEW force \in BOOLEAN, NEW strategy \in DOMAIN StrategyOf,
         Sync(g, force, strategy, file)
  PROVE  AllRoot
<1> DEFINE rs == Superseded(rollouts)
           found == {r \in RolloutIds : Active(rs[r]) /\ rs[r].group = g}
           Start(ro) == [ro EXCEPT !.human = TRUE, !.force = @ \/ force, !.strategy = strategy,
                           !.state = IF @ \in {"WaitingForSync", "WaitingForEnvironment"}
                                     THEN "Running" ELSE @]
<1>1. rs \in [RolloutIds -> Rollout]
  BY SupersededEvolves DEF TypeOK
<1>2. \A r \in RolloutIds : Roots(rollouts[r], rs[r])
  BY SupersededRoots
<1>3. ASSUME NEW ro \in Rollout
      PROVE  /\ Start(ro) \in Rollout
             /\ Start(ro).tgt = ro.tgt /\ Start(ro).group = ro.group /\ Start(ro).want = ro.want
             /\ Start(ro).state = ro.state \/ Start(ro).state = "Running"
  <2> DEFINE s == IF ro.state \in {"WaitingForSync", "WaitingForEnvironment"} THEN "Running" ELSE ro.state
             b == ro.force \/ force
             new == [ro EXCEPT !.human = TRUE, !.force = b, !.strategy = strategy, !.state = s]
  <2>1. s \in States /\ b \in BOOLEAN
    BY DEF Rollout, States, ActiveStates
  <2>2. Start(ro) = new
    BY DEF Rollout
  <2>3. s = ro.state \/ s = "Running"
    OBVIOUS
  <2> HIDE DEF s, b, Start
  <2>4. new \in Rollout
    BY <2>1 DEF Rollout
  <2>5. new.tgt = ro.tgt /\ new.group = ro.group /\ new.want = ro.want /\ new.state = s
    BY DEF Rollout
  <2> HIDE DEF new
  <2>. QED BY <2>2, <2>3, <2>4, <2>5
<1>4. \/ rollouts' = rs
      \/ \E r \in found : rollouts' = [rs EXCEPT ![r] = Start(rs[r])]
      \/ \E r \in FreshIds : rollouts' = [rs EXCEPT ![r] = Start(RolloutFor(g, strategy, file))]
  BY DEF Sync
<1>5. file \in Files
  BY DEF TypeOK
<1> HIDE DEF rs, Start
<1>6. ASSUME NEW r \in RolloutIds, NEW new, rollouts' = [rs EXCEPT ![r] = new],
             Roots(rollouts[r], new) \/ AtHome(new)
      PROVE  AllRoot
  <2>1. rollouts'[r] = new /\ \A q \in RolloutIds \ {r} : rollouts'[q] = rs[q]
    BY <1>1, <1>6
  <2>. QED BY <1>2, <1>6, <2>1 DEF AllRoot
<1>7. ASSUME NEW r \in found, rollouts' = [rs EXCEPT ![r] = Start(rs[r])] PROVE AllRoot
  <2>1. r \in RolloutIds /\ rs[r] \in Rollout
    BY <1>1
  <2>2. Roots(rs[r], Start(rs[r]))
    BY <1>3, <2>1, FlagsRoot
  <2>3. Roots(rollouts[r], Start(rs[r]))
    BY <1>2, <2>1, <2>2, RootsTrans
  <2>. QED BY <1>6, <1>7, <2>1, <2>3
<1>8. ASSUME NEW r \in FreshIds, rollouts' = [rs EXCEPT ![r] = Start(RolloutFor(g, strategy, file))]
      PROVE  AllRoot
  <2>1. RolloutFor(g, strategy, file) \in Rollout /\ RolloutFor(g, strategy, file).state = "Running"
    BY <1>5, RolloutForType
  <2>2. r \in RolloutIds
    BY DEF FreshIds
  <2>3. AtHome(Start(RolloutFor(g, strategy, file)))
    BY <1>3, <2>1, OpenedHome
  <2>. QED BY <1>6, <1>8, <2>2, <2>3
<1>9. CASE rollouts' = rs
  BY <1>2, <1>9 DEF AllRoot
<1>. QED BY <1>4, <1>7, <1>8, <1>9

\* While nothing is reloaded or suspended, rollouts stay at home.
LEMMA NextHomes ==
  ASSUME TypeOK, Homes, Still, "reload" \notin Verbs, "suspend" \notin Verbs, [Next]_vars
  PROVE  Homes' /\ file' = file
<1>1. ASSUME AllRoot, file' = file PROVE Homes' /\ file' = file
  BY <1>1, AllRootHomes
<1>2. ASSUME rollouts' = rollouts, file' = file PROVE Homes' /\ file' = file
  BY <1>1, <1>2, NoneRoots
<1>3. CASE TickStep
  <2>1. CASE TickStart
    <3>1. rollouts' = Superseded(rollouts) /\ file' = file
      BY <2>1 DEF TickStart, fileVars
    <3>. QED BY <1>1, <3>1, SupersededRoots DEF AllRoot
  <2>2. ASSUME NEW g \in opening, OpenGroup(g) PROVE Homes' /\ file' = file
    <3>1. file' = file
      BY <2>2 DEF OpenGroup, fileVars
    <3>. QED BY <1>1, <2>2, <3>1, OpenGroupRoots
  <2>3. CASE OpenDone \/ PlanDone \/ ExecDone \/ TickDone
    BY <1>2, <2>3 DEF OpenDone, PlanDone, ExecDone, TickDone, fileVars
  <2>4. ASSUME NEW r \in planning, PlanStep(r) PROVE Homes' /\ file' = file
    <3>1. r \in RolloutIds
      BY DEF TypeOK
    <3>2. file' = file
      BY <2>4 DEF PlanStep, PlanNothing, PlanRetry, PlanStart, PlanOpen, PlanLate, PlanSoak, Planning, fileVars
    <3>3. PICK new : Roots(rollouts[r], new) /\ rollouts' = [rollouts EXCEPT ![r] = new]
      BY <2>4, <3>1, PlanStepRoots DEF RootsAt
    <3>. QED BY <1>1, <3>1, <3>2, <3>3, OneRootsAll
  <2>5. ASSUME NEW j \in jobs, ApplyStale(j) \/ ApplyUpdate(j) \/ ApplyInspect(j) \/ ApplyReady(j)
        PROVE  Homes' /\ file' = file
    <3>1. Applying(j)
      BY <2>5 DEF ApplyStale, ApplyUpdate, ApplyInspect, ApplyReady
    <3>2. file' = file
      BY <3>1 DEF Applying, fileVars
    <3>. QED BY <1>1, <2>5, <3>2, ApplyRoots
  <2>6. ASSUME NEW r \in checks, ApplyCheckStale(r) \/ ApplyCheckPassed(r) \/ ApplyCheckFailed(r)
        PROVE  Homes' /\ file' = file
    <3>1. ApplyingCheck(r)
      BY <2>6 DEF ApplyCheckStale, ApplyCheckPassed, ApplyCheckFailed
    <3>2. file' = file
      BY <3>1 DEF ApplyingCheck, fileVars
    <3>. QED BY <1>1, <2>6, <3>2, ApplyCheckRoots
  <2>. QED BY <1>3, <2>1, <2>2, <2>3, <2>4, <2>5, <2>6 DEF TickStep, ApplyStep
<1>4. CASE WorldStep
  <2>1. CASE Resolve \/ CheckEnvironment \/ \E t \in Targets : InspectAll(t) \/ Land(t) \/ Fizzle(t)
    BY <1>2, <2>1 DEF Resolve, CheckEnvironment, InspectAll, Land, Fizzle, fileVars
  <2>2. ASSUME NEW r \in RolloutIds, NEW t \in Targets, HoldLapse(r, t) PROVE Homes' /\ file' = file
    <3>1. file' = file
      BY <2>2 DEF HoldLapse, fileVars
    <3>. QED BY <1>1, <2>2, <3>1, HoldLapseRoots
  <2>3. Forget \/ (\E f \in Files : Reload(f)) => FALSE
    BY DEF Forget, Reload, Still
  <2>. QED BY <1>4, <2>1, <2>2, <2>3 DEF WorldStep
<1>5. CASE PeopleStep
  <2>1. ASSUME NEW g \in Groups, NEW force \in BOOLEAN, NEW strategy \in DOMAIN StrategyOf,
               NEW f \in HeldFiles, Sync(g, force, strategy, f)
        PROVE  Homes' /\ file' = file
    <3>1. f = file
      BY DEF HeldFiles
    <3>2. file' = file
      BY <2>1 DEF Sync, fileVars
    <3>. QED BY <1>1, <2>1, <3>1, <3>2, SyncRoots
  <2>2. ASSUME NEW sel, Suspend(sel) \/ Resume(sel) PROVE FALSE
    BY <2>2 DEF Suspend, Resume
  <2>3. ASSUME NEW g, NEW p, SetPolicy(g, p) PROVE Homes' /\ file' = file
    BY <1>2, <2>3 DEF SetPolicy, fileVars
  <2>4. ASSUME NEW r \in RolloutIds, Pause(r) \/ Promote(r) \/ Abort(r) \/ Retry(r)
        PROVE  Homes' /\ file' = file
    <3>1. file' = file
      BY <2>4 DEF Pause, Promote, Abort, Retry, OnRollout, fileVars
    <3>. QED BY <1>1, <2>4, <3>1, VerbRoots
  <2>. QED BY <1>5, <2>1, <2>2, <2>3, <2>4 DEF PeopleStep
<1>6. CASE UNCHANGED vars
  BY <1>2, <1>6 DEF vars
<1>. QED BY <1>3, <1>4, <1>5, <1>6 DEF Next

-----------------------------------------------------------------------------
\* Rollouts at home: on disk, and after a restart.

DiskHome ==
  /\ \A r \in RolloutIds : AtHome(disk[<<"rollout", r>>])
  /\ \A sel \in Selectors : ~disk[<<"suspension", sel>>]

\* What a planning step leaves of its rollout on disk is at home.
LEMMA PlanSavedHome ==
  ASSUME DInv, TypeOK', Tidy, Homes, DiskHome, file' = file, NEW r \in planning, PlanStep(r)
  PROVE  AtHome(PlanSaved(r))
<1> DEFINE ro == rollouts[r]
           new == rollouts'[r]
           seen == {t \in Targets : live[t] # NoDigest /\ \E i \in Images : ro.want[i] = live[t]}
           ts == {j.target : j \in {k \in jobs' : k.rollout = r}}
           cut == [new EXCEPT !.tgt = [t \in Targets |->
                     IF t \in ts THEN [new.tgt[t] EXCEPT !.phase = "pending"] ELSE new.tgt[t]]]
<1>1. r \in RolloutIds /\ ro \in Rollout /\ new \in Rollout
  BY DEF DInv, TypeOK
<1>2. pc = "plan"
  BY DEF PlanStep, PlanNothing, PlanRetry, PlanStart, PlanOpen, PlanLate, PlanSoak, Planning
<1>3. PICK x : /\ Roots(ro, x) /\ rollouts' = [rollouts EXCEPT ![r] = x]
               /\ \A j \in jobs' \ jobs : x.tgt[j.target].phase # "none"
  BY <1>1, PlanStepRoots DEF RootsAt, DInv
<1>4. x = new
  BY <1>1, <1>3 DEF DInv, TypeOK
<1>5. \A t \in ts : new.tgt[t].phase # "none"
  BY <1>2, <1>3, <1>4 DEF Tidy
<1>6. PlanSaved(r) \in {new, Retried(ro, seen, degraded), disk[<<"rollout", r>>], cut}
  BY DEF PlanSaved
<1> HIDE DEF ro, new, seen, ts
<1>7. Roots(new, cut)
  <2>1. /\ cut.group = new.group /\ cut.want = new.want
        /\ \A t \in Targets : cut.tgt[t] = IF t \in ts THEN [new.tgt[t] EXCEPT !.phase = "pending"]
                                           ELSE new.tgt[t]
    BY <1>1 DEF Rollout
  <2>2. \A t \in Targets : /\ new.tgt[t] \in RolloutTarget
                           /\ [new.tgt[t] EXCEPT !.phase = "pending"] \in RolloutTarget
    BY <1>1, TgtType, PhaseType, PhaseNames
  <2>3. cut \in Rollout
    BY <1>1, <2>2 DEF Rollout
  <2> HIDE DEF cut
  <2>4. Same(new, cut)
    <3>1. \A t \in Targets : [new.tgt[t] EXCEPT !.phase = "pending"].node = new.tgt[t].node
                             /\ [new.tgt[t] EXCEPT !.phase = "pending"].phase = "pending"
      BY <2>2 DEF RolloutTarget
    <3>. QED BY <1>5, <2>1, <3>1 DEF Same
  <2>. QED BY <2>1, <2>3, <2>4 DEF Roots
<1>8. AtHome(ro)
  BY <1>1 DEF Homes, ro
<1>9. AtHome(new) /\ AtHome(cut)
  BY <1>3, <1>4, <1>7, <1>8, RootsHome
<1>10. AtHome(Retried(ro, seen, degraded))
  BY <1>1, <1>8, RetriedRoots, RootsHome
<1>11. AtHome(disk[<<"rollout", r>>])
  BY <1>1 DEF DiskHome
<1>. QED BY <1>6, <1>9, <1>10, <1>11

\* Disk keeps to what is at home, but for a stop.
LEMMA DiskHomeStep ==
  ASSUME DInv, TypeOK', Tidy, Still, Homes, DiskHome, Still', Homes', file' = file,
         DurableTick \/ DurableWorld \/ DurablePeople \/ disk' = disk
  PROVE  DiskHome'
<1>1. ASSUME NEW sel \in Selectors PROVE ~disk'[<<"suspension", sel>>]
  <2> DEFINE k == <<"suspension", sel>>
  <2>1. k \in Keys /\ k[1] = "suspension"
    BY KeyOf, KindOf
  <2>2. \A x : k # <<"rollout", x>> /\ k # <<"aborted", x>>
    OBVIOUS
  <2>3. Recorded(k)
    BY <2>1, <2>2, TickRecords, WorldRecords, PeopleRecords, SameRecords
  <2>4. Memory[k] = (sel \in suspensions) /\ Memory'[k] = (sel \in suspensions')
    BY MemoryOf, MemoryOfNext
  <2>5. sel \notin suspensions /\ sel \notin suspensions' /\ ~disk[k]
    BY DEF Still, DiskHome
  <2>6. disk'[k] = disk[k] \/ disk'[k] = Memory[k] \/ disk'[k] = Memory'[k]
    BY <2>3 DEF Recorded
  <2> HIDE DEF k
  <2>7. ~Memory[k] /\ ~Memory'[k]
    BY <2>4, <2>5, Zenon
  <2>8. ~disk'[k]
    BY <2>5, <2>6, <2>7, Zenon
  <2>. QED BY <2>8 DEF k
<1>2. ASSUME NEW r \in RolloutIds PROVE AtHome(disk'[<<"rollout", r>>])
  <2> DEFINE k == <<"rollout", r>>
  <2>1. k \in Keys /\ \A x : k # <<"aborted", x>>
    BY KeyOf
  <2>2. Memory[k] = rollouts[r] /\ Memory'[k] = rollouts'[r]
    BY MemoryOf, MemoryOfNext
  <2>3. AtHome(rollouts[r]) /\ AtHome(disk[k])
    BY DEF Homes, DiskHome
  <2>4. AtHome(rollouts'[r])
    <3>1. Homes' => \A q \in RolloutIds : AtHome(rollouts'[q])
      BY DEF Homes, AtHome
    <3>. QED BY <3>1
  <2>5. CASE Recorded(k)
    BY <2>2, <2>3, <2>4, <2>5 DEF Recorded
  <2>6. ASSUME NEW q \in planning, PlanStep(q), k = <<"rollout", q>>, disk'[k] = PlanSaved(q)
        PROVE  AtHome(disk'[k])
    BY <2>6, PlanSavedHome
  <2>7. ASSUME NEW q \in RolloutIds, NEW t \in Targets, SavingLapse(q, t), k = <<"rollout", q>>
        PROVE  AtHome(disk'[k])
    <3> DEFINE d == disk[k]
               rt == [d.tgt[t] EXCEPT !.hold = FALSE]
    <3>1. d \in Rollout
      BY DEF DInv, Fits
    <3>2. d.tgt[t] \in RolloutTarget
      BY <3>1, TgtType
    <3>3. disk' = [disk EXCEPT ![k].tgt[t].hold = FALSE]
      BY <2>7 DEF SavingLapse
    <3>4. DOMAIN disk = Keys
      BY DEF DInv, Fits
    <3>5. disk'[k] = [d EXCEPT !.tgt[t] = rt]
      BY <2>1, <3>1, <3>3, <3>4 DEF Rollout
    <3>6. rt \in RolloutTarget
      BY <3>2 DEF RolloutTarget
    <3>7. rt.node = d.tgt[t].node /\ rt.phase = d.tgt[t].phase
      BY <3>2 DEF RolloutTarget
    <3> HIDE DEF d, rt
    <3>8. Roots(d, [d EXCEPT !.tgt[t] = rt])
      BY <3>1, <3>6, <3>7, OneRoots
    <3>. QED BY <2>3, <3>5, <3>8, RootsHome DEF d
  <2>. QED BY <2>1, <2>5, <2>6, <2>7, TickRecords, WorldRecords, PeopleRecords, SameRecords
<1>3. DiskHome' <=> /\ \A r \in RolloutIds : AtHome(disk'[<<"rollout", r>>])
                    /\ \A sel \in Selectors : ~disk'[<<"suspension", sel>>]
  BY DEF DiskHome, AtHome
<1>. QED BY <1>1, <1>2, <1>3

\* A restart brings back rollouts at home, and no suspension.
LEMMA CrashHomes ==
  ASSUME DInv, DiskHome, Crash
  PROVE  Still' /\ Homes' /\ DiskHome'
<1> DEFINE e == Restored(disk)
<1>1. /\ \A r \in RolloutIds : rollouts'[r] = e[<<"rollout", r>>]
      /\ suspensions' = {sel \in Selectors : e[<<"suspension", sel>>]}
      /\ disk' = disk /\ file' = file /\ gone' = {}
  BY DEF Crash
<1>2. \A sel \in Selectors : e[<<"suspension", sel>>] = disk[<<"suspension", sel>>]
  BY KeyOf, KindOf, RestoredType DEF DInv
<1>3. ASSUME NEW r \in RolloutIds PROVE AtHome(e[<<"rollout", r>>])
  <2> DEFINE ro == disk[<<"rollout", r>>]
  <2>1. ro \in Rollout /\ AtHome(ro)
    BY DEF DInv, Fits, DiskHome
  <2>2. e[<<"rollout", r>>] \in {Requeued(ro), Requeued(Ended(ro, "Aborted"))}
    BY RestoredType DEF DInv
  <2> HIDE DEF ro, e
  <2>3. Roots(ro, Ended(ro, "Aborted"))
    BY <2>1, EndedRoots DEF EndedStates
  <2>4. Ended(ro, "Aborted") \in Rollout /\ AtHome(Ended(ro, "Aborted"))
    BY <2>1, <2>3, RootsHome DEF Roots
  <2>. QED BY <2>1, <2>2, <2>4, RequeuedRoots, RootsHome
<1> HIDE DEF e
<1>4. suspensions' = {}
  BY <1>1, <1>2 DEF DiskHome
<1>5. \A r \in RolloutIds : AtHome(rollouts'[r])
  BY <1>1, <1>3
<1>. QED BY <1>1, <1>4, <1>5 DEF Still, Homes, DiskHome, AtHome

LEMMA HomesStep ==
  ASSUME DInv, DInv', Tidy, Still, Homes, DiskHome, "reload" \notin Verbs, "suspend" \notin Verbs,
         [DurableNext]_durableVars
  PROVE  Still' /\ Homes' /\ DiskHome'
<1>1. CASE Crash
  BY <1>1, CrashHomes
<1>2. CASE ~Crash
  <2>1. Still' /\ Homes' /\ file' = file
    <3>1. CASE [Next]_vars
      BY <3>1, StillStep, NextHomes DEF DInv
    <3>2. ASSUME NEW g, NEW f, SyncRefused(g, f) PROVE Still' /\ Homes' /\ file' = file
      <4>1. rollouts' = Superseded(rollouts) /\ file' = file /\ gone' = gone /\ suspensions' = suspensions
        BY <3>2 DEF SyncRefused, fileVars, peopleVars
      <4>2. AllRoot
        BY <4>1, SupersededRoots DEF AllRoot, DInv
      <4>. QED BY <4>1, <4>2, AllRootHomes DEF Still
    <3>. QED BY <1>2, <3>1, <3>2, StepsOfController
  <2>2. DurableTick \/ DurableWorld \/ DurablePeople \/ disk' = disk
    BY <1>2 DEF DurableNext, durableVars, storeVars
  <2>. QED BY <2>1, <2>2, DiskHomeStep DEF DInv
<1>. QED BY <1>1, <1>2

LEMMA HomesInit ==
  ASSUME DurableInit
  PROVE  Still /\ Homes /\ DiskHome
<1>1. Init /\ disk = Memory
  BY DEF DurableInit
<1>2. Still
  BY <1>1, LandingInit
<1>3. Homes
  <2>1. \A r \in RolloutIds : rollouts[r] = NoRollout
    BY <1>1 DEF Init
  <2>2. \A t \in Targets : NoRollout.tgt[t] = NoTarget
    BY DEF NoRollout
  <2>3. NoTarget.phase = "none"
    BY DEF NoTarget
  <2>4. AtHome(NoRollout)
    BY <2>2, <2>3 DEF AtHome
  <2>. QED BY <2>1, <2>4 DEF Homes
<1>4. DiskHome
  <2>1. \A r \in RolloutIds : AtHome(disk[<<"rollout", r>>])
    BY <1>1, <1>3, MemoryOf DEF Homes
  <2>2. ASSUME NEW sel \in Selectors PROVE ~disk[<<"suspension", sel>>]
    <3>1. disk[<<"suspension", sel>>] = (sel \in suspensions)
      BY <1>1, MemoryOf
    <3>2. sel \notin suspensions
      BY <1>2 DEF Still
    <3>. QED BY <3>1, <3>2, Zenon
  <2>. QED BY <2>1, <2>2 DEF DiskHome
<1>. QED BY <1>2, <1>3, <1>4

LEMMA HomesWhole ==
  ASSUME Still, Homes
  PROVE  SoakersWhole
  BY NoneLost DEF Homes, SoakersWhole

\* While nothing is reloaded or suspended, a controller that is clean between
\* ticks can always be stopped at no loss.
THEOREM CleanStaysSaved ==
  ASSUME "reload" \notin Verbs, "suspend" \notin Verbs
  PROVE  DurableSpec => []CleanSaved
<1> DEFINE HInv == (DInv /\ Tidy /\ Kept) /\ (Still /\ Homes /\ DiskHome)
<1>1. DurableInit => HInv
  BY DInvInit, KeptInit, HomesInit
<1>2. HInv /\ [DurableNext]_durableVars => HInv'
  BY DInvStep, HomesWhole, KeptStep, HomesStep
<1>3. HInv => CleanSaved
  BY KeptClean
<1> HIDE DEF HInv
<1>. QED BY <1>1, <1>2, <1>3, PTL DEF DurableSpec

====
