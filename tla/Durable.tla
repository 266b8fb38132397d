---- MODULE Durable ----
(***************************************************************************)
(* The controller with its store: what is on disk beside what is in        *)
(* memory, writes that are refused, a process that stops between any two   *)
(* steps, and restore (controller.go, actions.go, store/store.go).         *)
(*                                                                         *)
(* The store is a function from records to values.  The controller's own   *)
(* decisions change memory first and are written after; a refused write    *)
(* makes the controller dirty, and the next tick begins by writing every   *)
(* decision again.  What a person asks for is written first.  A process    *)
(* that stops between two writes of one step is that step with the later   *)
(* writes refused, followed by Crash.                                      *)
(***************************************************************************)
EXTENDS Controller

CONSTANTS
  MaxFailures,  \* bound: how many steps meet a store that refuses writes
  MaxCrashes    \* bound: how often the process stops

ASSUME BoundsAssumption == MaxFailures \in Nat /\ MaxCrashes \in Nat

VARIABLES
  disk,      \* record -> value
  dirty,     \* Controller.dirty: something was refused since the last flush
  failures,  \* how many steps have met refused writes
  crashes    \* how often the process has stopped

boundVars == <<failures, crashes>>
storeVars == <<disk, dirty, boundVars>>
durableVars == <<vars, storeVars>>

-----------------------------------------------------------------------------
\* Records.

Keys ==
  ({"rollout"} \X RolloutIds) \cup ({"degraded", "live"} \X Targets) \cup ({"desired"} \X Images)
  \cup ({"aborted", "policy"} \X Groups) \cup ({"suspension"} \X Selectors)

\* The kinds of record a flush writes, and a restart must not lose.
FlushedKinds == {"rollout", "degraded", "aborted", "suspension", "desired"}

\* Every record as memory has it.
Memory ==
  [k \in Keys |->
     CASE k[1] = "rollout"    -> rollouts[k[2]]
       [] k[1] = "degraded"   -> k[2] \in degraded
       [] k[1] = "live"       -> live[k[2]]
       [] k[1] = "desired"    -> desired[k[2]]
       [] k[1] = "aborted"    -> aborted[k[2]]
       [] k[1] = "policy"     -> policy[k[2]]
       [] k[1] = "suspension" -> k[2] \in suspensions]

\* The store d with the records ks as memory has them after the step.
Updated(d, ks) == [k \in Keys |-> IF k \in ks THEN Memory'[k] ELSE d[k]]

Changed == {k \in Keys : Memory'[k] # Memory[k]}

DiskTypeOK ==
  /\ TypeOK
  /\ DOMAIN disk = Keys
  /\ \A r \in RolloutIds : disk[<<"rollout", r>>] \in Rollout
  /\ \A k \in Keys : k[1] \in {"degraded", "suspension"} => disk[k] \in BOOLEAN
  /\ dirty \in BOOLEAN
  /\ failures \in 0 .. MaxFailures /\ crashes \in 0 .. MaxCrashes

DurableInit ==
  /\ Init
  /\ disk = Memory
  /\ dirty = FALSE /\ failures = 0 /\ crashes = 0

-----------------------------------------------------------------------------
\* Writing.

\* The store meets a step that refuses it a write.
Refusing ==
  /\ failures < MaxFailures
  /\ failures' = failures + 1
  /\ dirty' = TRUE
  /\ UNCHANGED crashes

\* From the store old, the step would leave new; any of the records may be
\* refused.  before says whether an earlier refusal is still not made good.
Write(old, new, records, before) ==
  \/ disk' = new /\ dirty' = before /\ UNCHANGED boundVars
  \/ /\ Refusing
     /\ \E refused \in SUBSET {k \in records : new[k] # old[k]} :
          disk' = [k \in Keys |-> IF k \in refused THEN old[k] ELSE new[k]]

\* The step writes what it changed.
Saved == Write(disk, Updated(disk, Changed), Keys, dirty)

NothingSaved == UNCHANGED storeVars

\* Mutant of Flushed: records are written again, and none deleted.
FlushedAdding ==
  [k \in Keys |->
     IF k[1] \notin FlushedKinds \/ (k[1] = "aborted" /\ aborted[k[2]] = {})
     THEN disk[k] ELSE Memory[k]]

\* Every decision again, deletions too; policies and what inspect saw are
\* not among them.
Flushed == [k \in Keys |-> IF k[1] \in FlushedKinds THEN Memory[k] ELSE disk[k]]

-----------------------------------------------------------------------------
\* The tick.

\* A dirty controller flushes first; when that is refused, the tick does
\* nothing.
SavingStart ==
  /\ TickStart
  /\ LET old == IF dirty THEN Flushed ELSE disk
     IN Write(old, Updated(old, Changed), Keys, FALSE)

\* The rollout r as a planning step left it on disk.  Dispatching programs is
\* not saved: a retry is saved as it reopened the batch, a new batch as it was
\* cut, and a batch or a soak that goes on not at all.
PlanSaved(r) ==
  LET ro == rollouts[r]
      seen == {t \in Targets : live[t] # NoDigest /\ \E i \in Images : ro.want[i] = live[t]}
      dispatched == {j.target : j \in {k \in jobs' : k.rollout = r}}
      asleep == ro.state = "Soaking" /\ rollouts'[r].state = "Soaking"
  IN IF dispatched = {} /\ ~asleep THEN rollouts'[r]
     ELSE IF ro.state = "Halted" THEN Retried(ro, seen, degraded)
     ELSE IF ro.open THEN disk[<<"rollout", r>>]
     ELSE [rollouts'[r] EXCEPT !.tgt = [t \in Targets |->
             IF t \in dispatched THEN [@[t] EXCEPT !.phase = "pending"] ELSE @[t]]]

SavingPlan(r) ==
  /\ PlanStep(r)
  /\ IF UNCHANGED <<rollouts, degraded>> THEN NothingSaved
     ELSE Write(disk, [Updated(disk, Changed) EXCEPT ![<<"rollout", r>>] = PlanSaved(r)], Keys, dirty)

\* A rollout is saved once its last result of the tick is applied, and where
\* it halts; not if it has ended meanwhile.
SavingResult(j) ==
  /\ ApplyStale(j) \/ ApplyUpdate(j) \/ ApplyInspect(j) \/ ApplyReady(j)
  /\ LET key == <<"rollout", j.rollout>>
         ro == rollouts[j.rollout]
         last == \A k \in jobs' : k.rollout # j.rollout
         own == IF Active(ro) /\ (last \/ rollouts'[j.rollout].state # ro.state) THEN {key} ELSE {}
     IN Write(disk, Updated(disk, (Changed \ {key}) \cup own), Keys, dirty)

SavingCheck(r) ==
  /\ ApplyCheckStale(r) \/ ApplyCheckPassed(r) \/ ApplyCheckFailed(r)
  /\ LET own == {k \in {<<"rollout", r>>} : Active(rollouts[r])}
     IN Write(disk, Updated(disk, Changed \cup own), Keys, dirty)

DurableTick ==
  \/ SavingStart
  \/ \E g \in opening : OpenGroup(g) /\ Saved
  \/ (OpenDone \/ PlanDone \/ ExecDone \/ TickDone) /\ NothingSaved
  \/ \E r \in planning : SavingPlan(r)
  \/ \E j \in jobs : SavingResult(j)
  \/ \E r \in checks : SavingCheck(r)

-----------------------------------------------------------------------------
\* Beside the tick.

\* A hold is a time on the record, which passes on disk as in memory.
SavingLapse(r, t) ==
  /\ HoldLapse(r, t)
  /\ disk' = [disk EXCEPT ![<<"rollout", r>>].tgt[t].hold = FALSE]
  /\ UNCHANGED <<dirty, boundVars>>

DurableWorld ==
  \/ (Resolve \/ Forget \/ \E t \in Targets : InspectAll(t)) /\ Saved
  \/ /\ CheckEnvironment \/ (\E t \in Targets : Land(t) \/ Fizzle(t)) \/ \E f \in Files : Reload(f)
     /\ NothingSaved
  \/ \E r \in RolloutIds, t \in Targets : SavingLapse(r, t)

-----------------------------------------------------------------------------
\* What people do: the store first, then memory.

\* A verb the store accepts; one on a rollout saves it whole.
Accepted ==
  /\ \/ /\ \/ \E sel \in Selectors : Suspend(sel) \/ Resume(sel)
           \/ \E g \in Groups, p \in Policies : SetPolicy(g, p)
        /\ disk' = Updated(disk, Changed)
     \/ \E r \in RolloutIds :
          /\ Pause(r) \/ Promote(r) \/ Abort(r) \/ Retry(r)
          /\ disk' = Updated(disk, Changed \cup {<<"rollout", r>>})
  /\ UNCHANGED <<dirty, boundVars>>

\* A verb the store refuses changes nothing; nor does a refused record that
\* decides nothing, an event or the result of a program; nor a refused flush,
\* which is one transaction and whose tick then does nothing.
Refused ==
  /\ Unlocked
  /\ Refusing
  /\ UNCHANGED <<vars, disk>>

\* An abort whose rollout is refused takes its marker back, unless that is
\* refused too.
AbortRefused(r) ==
  LET g == rollouts[r].group
  IN /\ "abort" \in Verbs /\ Unlocked /\ Active(rollouts[r])
     /\ Refusing
     /\ \E marker \in {{}, {GroupKey(g)}} : disk' = [disk EXCEPT ![<<"aborted", g>>] = marker]
     /\ UNCHANGED vars

\* Sync closes changed rollouts, as a decision of its own, before it writes
\* what was asked: the abort it lifts, then the rollout.
SavingSync(g, force, strategy, f) ==
  /\ Sync(g, force, strategy, f)
  /\ LET asked == {<<"rollout", r>> : r \in {q \in RolloutIds : Active(rollouts'[q]) /\ rollouts'[q].group = g}}
         closed == {k \in Changed \ asked : k[1] = "rollout"}
     IN Write(disk, Updated(disk, Changed \cup asked), closed, dirty)

\* A sync whose abort or rollout is refused has lifted the abort in memory.
SyncRefused(g, f) ==
  /\ "sync" \in Verbs /\ Unlocked /\ g \in GroupsOf(f)
  /\ Refusing
  /\ rollouts' = Superseded(rollouts)
  /\ aborted' = Lifted(g)
  /\ UNCHANGED <<fileVars, worldVars, peopleVars, tickVars, desired, envOK, live, degraded>>
  /\ \E kept \in SUBSET Changed : disk' = Updated(disk, kept)

DurablePeople ==
  \/ Accepted \/ Refused
  \/ \E r \in RolloutIds : AbortRefused(r)
  \/ \E g \in Groups, f \in HeldFiles :
       \/ SyncRefused(g, f)
       \/ \E force \in BOOLEAN, strategy \in DOMAIN StrategyOf : SavingSync(g, force, strategy, f)

-----------------------------------------------------------------------------
\* The process stops and starts again.

\* An update that never reported back runs again.
Requeued(ro) ==
  [ro EXCEPT !.tgt = [t \in Targets |->
     IF ro.tgt[t].phase = "updating" /\ ~ro.tgt[t].done
     THEN [ro.tgt[t] EXCEPT !.phase = "pending"] ELSE ro.tgt[t]]]

\* Mutant of Restored: an abort whose rollout was not saved is forgotten.
RestoredUnmarked(d) ==
  [k \in Keys |-> IF k[1] = "rollout" THEN Requeued(d[k]) ELSE d[k]]

\* What restore makes of the store d: an abort's marker wins over a rollout
\* still active.
Restored(d) ==
  [k \in Keys |->
     IF k[1] # "rollout" THEN d[k]
     ELSE IF Active(d[k]) /\ d[<<"aborted", d[k].group>>] # {} THEN Requeued(Ended(d[k], "Aborted"))
     ELSE Requeued(d[k])]

\* Programs under way may have begun to change their targets or not.
Crash ==
  /\ crashes < MaxCrashes
  /\ crashes' = crashes + 1
  /\ LET d == Restored(disk)
     IN /\ rollouts' = [r \in RolloutIds |-> d[<<"rollout", r>>]]
        /\ degraded' = {t \in Targets : d[<<"degraded", t>>]}
        /\ live' = [t \in Targets |-> d[<<"live", t>>]]
        /\ desired' = [i \in Images |-> d[<<"desired", i>>]]
        /\ aborted' = [g \in Groups |-> d[<<"aborted", g>>]]
        /\ policy' = [g \in Groups |-> d[<<"policy", g>>]]
        /\ suspensions' = {sel \in Selectors : d[<<"suspension", sel>>]}
  /\ \E unborn \in SUBSET {j.target : j \in {k \in jobs : k.hook = "update"}} :
       landing' = [t \in Targets |-> IF t \in unborn THEN NoDigest ELSE landing[t]]
  /\ envOK' = TRUE /\ gone' = {}
  /\ pc' = "idle" /\ opening' = {} /\ planning' = {} /\ jobs' = {} /\ checks' = {}
  /\ dirty' = FALSE
  /\ UNCHANGED <<file, running, disk, failures>>

DurableNext == DurableTick \/ DurableWorld \/ DurablePeople \/ Crash

DurableSpec == DurableInit /\ [][DurableNext]_durableVars

-----------------------------------------------------------------------------
\* Properties.

\* What record k of the store d decides: of a rollout that has ended, only
\* how it ended.
Decides(d, k) ==
  IF k[1] = "rollout" /\ ~Active(d[k]) THEN [NoRollout EXCEPT !.state = d[k].state] ELSE d[k]

\* Restore ends an aborted rollout in memory and leaves it active on disk.
EndedByRestore(k) ==
  k[1] = "rollout" /\ crashes > 0 /\ Memory[k].state = "Aborted" /\ Active(disk[k])

\* Between ticks a controller that is not dirty can be stopped at no loss: a
\* restart from disk decides what a restart from memory would, and holds at
\* least the same targets (controller.go:487, flush "reports whether the store
\* is clean").  What restore itself ended is left out: see PlannedAlone.
CleanSaved ==
  pc = "idle" /\ ~dirty =>
    \A k \in Keys : k[1] \in FlushedKinds /\ ~EndedByRestore(k) =>
      /\ Decides(Restored(disk), k) = Decides(Restored(Memory), k)
      /\ k[1] = "rollout" => \A t \in Targets :
           Restored(Memory)[k].tgt[t].hold => Restored(disk)[k].tgt[t].hold

\* An abort a person was told of survives a restart, and the group then has
\* no active rollout (tasks/prd.md:244).
AbortSurvives ==
  [][crashes' # crashes =>
       \A g \in Groups : aborted[g] # {} =>
         /\ aborted'[g] = aborted[g]
         /\ \A r \in RolloutIds : rollouts'[r].group = g => ~Active(rollouts'[r])]_durableVars

\* When rollouts are planned, a group has one at most, whatever the store
\* refused and wherever the process stopped ("at most one active rollout",
\* tasks/prd.md:197).
PlannedAlone == pc = "plan" => OneActivePerGroup

====
