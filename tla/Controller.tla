---- MODULE Controller ----
(***************************************************************************)
(* The reconcile loop with everything that shares its lock: one tick       *)
(* goroutine, the verbs people call, the inspector and the targets         *)
(* watcher.  The store never fails here and the process does not stop;     *)
(* Durable adds both.                                                      *)
(*                                                                         *)
(* A tick takes the lock to decide (supersede, open, plan), gives it up    *)
(* while programs run, and takes it again to apply their results.  pc says *)
(* where it is; everything else that needs the lock happens while pc is    *)
(* "idle" or "exec".                                                       *)
(***************************************************************************)
EXTENDS Rollouts

CONSTANTS
  Selectors,  \* the selectors suspensions use
  Policies,   \* the policies people set
  Verbs,      \* which of the operations on offer happen
  Faults      \* which of the programs and checks may fail

ASSUME PoliciesAssumption == Policies \subseteq Policy

VARIABLES
  file,         \* the targets file in force: id -> entry
  gone,         \* ids a reload removed and Forget has not yet cleared
  desired,      \* image -> digest its tag points at
  envOK,        \* whether the environment check passes
  live,         \* id -> digest inspect last reported, if it can be trusted
  degraded,     \* ids in quarantine
  aborted,      \* group -> at most one key: the desired digests abort holds
  policy,       \* group -> policy
  suspensions,  \* selectors in force
  rollouts,     \* id -> rollout
  running,      \* the world: id -> digest its container runs
  landing,      \* the world: id -> digest an update is bringing it to
  pc,           \* where the tick is
  opening,      \* groups openRollouts has still to look at
  planning,     \* rollouts planRollouts has still to look at
  jobs,         \* target programs of this tick without an applied result
  checks        \* rollouts whose soak check of this tick has no applied result

tickVars == <<pc, opening, planning, jobs, checks>>
worldVars == <<running, landing>>
fileVars == <<file, gone>>
peopleVars == <<policy, suspensions>>
vars == <<file, gone, desired, envOK, live, degraded, aborted, policy, suspensions,
          rollouts, running, landing, pc, opening, planning, jobs, checks>>

\* The lock is free.
Unlocked == pc \in {"idle", "exec"}

-----------------------------------------------------------------------------
\* What the controller reads.

\* The digest a group's image should be at: a pin, else the tag's head.
Want(g, img) ==
  IF policy[g].pins[img] # NoDigest THEN policy[g].pins[img] ELSE desired[img]

SuspendedIn(f, t) == \E sel \in suspensions : Match(sel, f, t)
Suspended(t) == SuspendedIn(file, t)

\* The files that may have been in force when a sync in progress began.
HeldFiles == IF "reload" \in Verbs THEN Files ELSE {file}

\* Mutant of Lost: a target that moved to another group stays.
LostNotMoved(ro) ==
  {t \in Targets \ TargetsIn(ro, {"none"}) :
     \/ t \notin DOMAIN file
     \/ file[t].node # ro.tgt[t].node
     \/ ro.want[file[t].image] = NoDigest
     \/ Suspended(t)}

\* The targets of a rollout that can no longer be worked on: removed, moved
\* to another group or node, on an image the rollout is not for, suspended.
Lost(ro) ==
  {t \in Targets \ TargetsIn(ro, {"none"}) :
     \/ t \notin DOMAIN file
     \/ file[t].group # ro.group
     \/ file[t].node # ro.tgt[t].node
     \/ ro.want[file[t].image] = NoDigest
     \/ Suspended(t)}

Unreachable == {t \in Targets : live[t] = NoDigest}

\* The present targets known to run what the rollout is for.
Arrived(ro) == {t \in DOMAIN file : live[t] # NoDigest /\ live[t] = ro.want[file[t].image]}

\* Mutant of Lifted: the abort stays.
LiftedNever(g) == aborted

\* The aborts without the one of group g.
Lifted(g) == [aborted EXCEPT ![g] = {}]

\* What every image of a group points at, as a set of pairs.
GroupKey(g) ==
  {<<i, Want(g, i)>> : i \in {j \in Images : /\ Want(g, j) # NoDigest
                                             /\ \E t \in DOMAIN file : file[t].group = g /\ file[t].image = j}}

\* The group's targets in file f that should move.
OutOfSync(g, f) ==
  {t \in DOMAIN f :
     /\ f[t].group = g
     /\ live[t] # NoDigest
     /\ Want(g, f[t].image) \notin {NoDigest, live[t]}
     /\ ~SuspendedIn(f, t)}

ActiveIds == {r \in RolloutIds : Active(rollouts[r])}

\* Mutant of ActiveIn: a rollout that waits does not count as the group's.
ActiveInStarted(g) ==
  {r \in ActiveIds : /\ rollouts[r].group = g
                     /\ rollouts[r].state \notin {"WaitingForSync", "WaitingForBudget"}}

ActiveIn(g) == {r \in ActiveIds : rollouts[r].group = g}

\* The ids a new rollout may take: the next unused one.
FreshIds ==
  {r \in RolloutIds : /\ rollouts[r].state = "None"
                      /\ \A q \in RolloutIds : q < r => rollouts[q].state # "None"}

\* The rollout a group's out-of-sync targets call for.
RolloutFor(g, strategy, f) ==
  LET ts == OutOfSync(g, f)
  IN NewRollout(g, strategy, f, ts,
                [i \in Images |-> IF \E t \in ts : f[t].image = i THEN Want(g, i) ELSE NoDigest],
                degraded)

\* Mutant of Moved: the tag is compared, and pins are forgotten.
MovedTag(ro) ==
  \E t \in DOMAIN file :
    /\ file[t].group = ro.group
    /\ ro.want[file[t].image] # NoDigest
    /\ desired[file[t].image] \notin {NoDigest, ro.want[file[t].image]}

\* A digest the rollout is for is no longer the one the group wants.
Moved(ro) ==
  \E t \in DOMAIN file :
    /\ file[t].group = ro.group
    /\ ro.want[file[t].image] # NoDigest
    /\ Want(ro.group, file[t].image) \notin {NoDigest, ro.want[file[t].image]}

\* Mutant of Superseded: rollouts that have ended are closed again.
SupersededAll(rs) ==
  [r \in RolloutIds |-> IF Moved(rs[r]) THEN Ended(rs[r], "Superseded") ELSE rs[r]]

Superseded(rs) ==
  [r \in RolloutIds |-> IF Active(rs[r]) /\ Moved(rs[r]) THEN Ended(rs[r], "Superseded") ELSE rs[r]]

\* Nodes that cost a rollout nothing: one of its targets there was degraded
\* when it began, or any target there is now.
FreeNodes(ro) ==
  {n \in Nodes :
     \/ \E t \in Targets : ro.tgt[t].degBefore /\ ro.tgt[t].node = n
     \/ \E t \in DOMAIN file \cap degraded : file[t].node = n}

HasSoak(ro) ==
  \E t \in InBatch(ro) \cap DOMAIN file : ro.tgt[t].phase # "skipped" /\ file[t].soak

-----------------------------------------------------------------------------
\* Shapes of the state.

PCs == {"idle", "open", "plan", "exec", "apply"}
Job == [rollout : RolloutIds, target : Targets, hook : {"update", "inspect", "ready"},
        digest : MaybeDigest]

TypeOK ==
  /\ file \in Files
  /\ gone \subseteq Targets
  /\ desired \in [Images -> MaybeDigest]
  /\ envOK \in BOOLEAN
  /\ live \in [Targets -> MaybeDigest]
  /\ degraded \subseteq Targets
  /\ aborted \in [Groups -> SUBSET SUBSET (Images \X Digests)]
  /\ policy \in [Groups -> Policy]
  /\ suspensions \subseteq Selectors
  /\ rollouts \in [RolloutIds -> Rollout]
  /\ running \in [Targets -> Digests]
  /\ landing \in [Targets -> MaybeDigest]
  /\ pc \in PCs
  /\ opening \subseteq Groups
  /\ planning \subseteq RolloutIds
  /\ jobs \subseteq Job
  /\ checks \subseteq RolloutIds

\* A converged fleet: every target runs the digest its tag points at, and the
\* store knows it.  The first digest is the least.
FirstDigest == CHOOSE d \in Digests : \A e \in Digests : d <= e

Init ==
  /\ file = InitialFile
  /\ gone = {}
  /\ desired = [i \in Images |-> IF i \in ImagesOf(InitialFile) THEN FirstDigest ELSE NoDigest]
  /\ envOK = TRUE
  /\ live = [t \in Targets |-> IF t \in DOMAIN InitialFile THEN FirstDigest ELSE NoDigest]
  /\ degraded = {}
  /\ aborted = [g \in Groups |-> {}]
  /\ policy = [g \in Groups |-> DefaultPolicy]
  /\ suspensions = {}
  /\ rollouts = [r \in RolloutIds |-> NoRollout]
  /\ running = [t \in Targets |-> FirstDigest]
  /\ landing = [t \in Targets |-> NoDigest]
  /\ pc = "idle"
  /\ opening = {} /\ planning = {} /\ jobs = {} /\ checks = {}

-----------------------------------------------------------------------------
\* The tick, first lock: supersede, open, plan.

\* Suspensions whose time has come lapse, and rollouts for digests that have
\* moved on are closed.
TickStart ==
  /\ pc = "idle"
  /\ \E lapsed \in SUBSET suspensions :
       /\ lapsed # {} => "lapse" \in Verbs
       /\ suspensions' = suspensions \ lapsed
  /\ rollouts' = Superseded(rollouts)
  /\ pc' = "open"
  /\ opening' = GroupsOf(file)
  /\ UNCHANGED <<fileVars, worldVars, desired, envOK, live, degraded, aborted, policy,
                 planning, jobs, checks>>

\* One group: an abort holds until its key changes, an active rollout is
\* enough, otherwise out-of-sync targets get a rollout.  When every id is
\* taken the group goes without: that is the model's bound.
OpenGroup(g) ==
  /\ pc = "open"
  /\ g \in opening
  /\ opening' = opening \ {g}
  /\ IF ActiveIn(g) # {} \/ aborted[g] = {GroupKey(g)}
     THEN UNCHANGED <<rollouts, aborted>>
     ELSE /\ aborted' = Lifted(g)
          /\ IF OutOfSync(g, file) = {} \/ FreshIds = {}
             THEN UNCHANGED rollouts
             ELSE \E r \in FreshIds :
                    rollouts' = [rollouts EXCEPT ![r] =
                      [RolloutFor(g, policy[g].strategy, file) EXCEPT
                         !.state = IF policy[g].manual THEN "WaitingForSync" ELSE "Running"]]
  /\ UNCHANGED <<fileVars, worldVars, peopleVars, desired, envOK, live, degraded,
                 pc, planning, jobs, checks>>

OpenDone ==
  /\ pc = "open"
  /\ opening = {}
  /\ pc' = "plan"
  /\ planning' = ActiveIds
  /\ UNCHANGED <<fileVars, worldVars, peopleVars, desired, envOK, live, degraded, aborted,
                 rollouts, opening, jobs, checks>>

\* What every planning step of rollout r shares.
Planning(r) ==
  /\ pc = "plan"
  /\ r \in planning
  /\ planning' = planning \ {r}
  /\ UNCHANGED <<fileVars, peopleVars, desired, envOK, live, aborted, running, pc, opening>>

\* The rollout becomes ro and the quarantine dg; no program runs for it.
Settle(r, ro, dg) ==
  /\ rollouts' = [rollouts EXCEPT ![r] = ro]
  /\ degraded' = dg
  /\ UNCHANGED <<landing, jobs, checks>>

\* Nothing to do until a person acts.
PlanNothing(r) ==
  /\ Planning(r)
  /\ \/ rollouts[r].state \in {"WaitingForSync", "Paused"}
     \/ rollouts[r].state = "Halted" /\ ~rollouts[r].retryPending
  /\ Settle(r, rollouts[r], degraded)

\* The batch passes, and its targets leave quarantine.
PassBatch(r, ro, dg) == Settle(r, Passed(ro), dg \ PassedBy(ro))

\* Every target is ready: the soak begins, or with no soak the batch passes.
BatchReady(r, ro, dg) ==
  IF St(ro).soak /\ ~ro.force /\ HasSoak(ro)
  THEN Settle(r, Soaking(ro), dg)
  ELSE PassBatch(r, ro, dg)

\* The programs the open batch of ro waits for, as jobs of rollout r.
JobsFor(r, ro) ==
  {[rollout |-> r, target |-> t, hook |-> Hook(ro, t),
    digest |-> Want(file[t].group, file[t].image)] : t \in Waiting(ro)}

\* Updates are about to run: each will bring its target to its digest.
Dispatched(js) ==
  [t \in Targets |->
     LET mine == {j \in js : j.target = t /\ j.hook = "update"}
     IN IF mine = {} THEN landing[t]
        ELSE LET d == (CHOOSE j \in mine : TRUE).digest
             IN IF d = running[t] THEN NoDigest ELSE d]

\* Every target of the open batch moves one step.
PlanBatch(r, ro, dg) ==
  LET cur == WithoutLost(ro, Lost(ro), {"pending", "updating"})
      js == JobsFor(r, cur)
  IN IF js = {} THEN BatchReady(r, Advanced(cur), dg)
     ELSE /\ rollouts' = [rollouts EXCEPT ![r] = Advanced(cur)]
          /\ degraded' = dg
          /\ jobs' = jobs \cup js
          /\ landing' = Dispatched(js)
          /\ UNCHANGED checks

\* A retry a person asked for reopens the halted batch.
PlanRetry(r) ==
  LET ro == rollouts[r]
      seen == {t \in Targets : live[t] # NoDigest /\ \E i \in Images : ro.want[i] = live[t]}
  IN /\ Planning(r)
     /\ ro.state = "Halted" /\ ro.retryPending
     /\ PlanBatch(r, Retried(ro, seen, degraded), degraded \ Failed(ro))

\* Mutant of CanStart: a paused rollout goes on.
CanStartPaused(ro) == ro.state \in {"Running", "Paused", "WaitingForBudget", "WaitingForEnvironment"}

CanStart(ro) == ro.state \in {"Running", "WaitingForBudget", "WaitingForEnvironment"}

\* No batch is open: review what is left and finish, wait, or cut a batch.
PlanStart(r) ==
  LET ro == Reviewed(rollouts[r], Lost(rollouts[r]), Unreachable, Arrived(rollouts[r]))
      busy == InFlight(rollouts)
      free == FreeNodes(ro)
      size == BatchFor(St(ro), ro.nb + 1, Cardinality(NodesOf(ro)))
  IN /\ Planning(r)
     /\ CanStart(rollouts[r]) /\ ~rollouts[r].open
     /\ \/ /\ Unbatched(ro) = {}
           /\ Settle(r, Ended(ro, "Complete"), degraded)
        \/ /\ Unbatched(ro) # {}
           /\ ~envOK /\ ~ro.human
           /\ Settle(r, [ro EXCEPT !.state = "WaitingForEnvironment"], degraded)
        \/ /\ Unbatched(ro) # {}
           /\ envOK \/ ro.human
           /\ \E P \in SUBSET CandidateNodes(ro) :
                /\ GreedyCut(ro, P, size, busy, free, file)
                /\ IF P = {}
                   THEN Settle(r, [ro EXCEPT !.state = "WaitingForBudget"], degraded)
                   ELSE PlanBatch(r, WithBatch(ro, P, free), degraded)

\* A batch is open.
PlanOpen(r) ==
  /\ Planning(r)
  /\ CanStart(rollouts[r]) /\ rollouts[r].open
  /\ PlanBatch(r, rollouts[r], degraded)

\* A batch is open and a target has waited past the deadline: the batch
\* halts there.  The targets before it in the batch were looked at first.
PlanLate(r) ==
  LET ro == rollouts[r] IN
  /\ "late" \in Faults
  /\ Planning(r)
  /\ CanStart(ro) /\ ro.open
  /\ \E t \in Waiting(ro) \ Lost(ro) :
       /\ ro.tgt[t].phase = "updating"
       /\ LET cur == WithoutLost(ro, {u \in Lost(ro) : Before(ro, u, t)}, {"pending", "updating"})
          IN Settle(r, Halted(cur), degraded \cup HeldBy(cur))

\* A soak passes at once when forced or when no target has a program left;
\* otherwise a check may be due, or the soak may have run its time on a
\* passing check.  A check skips the targets lost meanwhile.
PlanSoak(r) ==
  LET ro == rollouts[r]
      over == ro.force \/ ~HasSoak(ro)
      cur == WithoutLost(ro, Lost(ro), Phases)
  IN /\ Planning(r)
     /\ ro.state = "Soaking"
     /\ \/ over /\ PassBatch(r, ro, degraded)
        \/ ~over /\ Settle(r, ro, degraded)
        \/ ~over /\ ro.ok /\ PassBatch(r, ro, degraded)
        \/ /\ ~over
           /\ rollouts' = [rollouts EXCEPT ![r] = cur]
           /\ checks' = IF HasSoak(cur) THEN checks \cup {r} ELSE checks
           /\ UNCHANGED <<degraded, landing, jobs>>

PlanDone ==
  /\ pc = "plan"
  /\ planning = {}
  /\ pc' = "exec"
  /\ UNCHANGED <<fileVars, worldVars, peopleVars, desired, envOK, live, degraded, aborted,
                 rollouts, opening, planning, jobs, checks>>

-----------------------------------------------------------------------------
\* The tick, second lock: results of programs.

\* Every program has ended; their results are about to be applied.
ExecDone ==
  /\ pc = "exec"
  /\ pc' = "apply"
  /\ UNCHANGED <<fileVars, worldVars, peopleVars, desired, envOK, live, degraded, aborted,
                 rollouts, opening, planning, jobs, checks>>

\* What applying job j shares: within a rollout, results come in batch order.
Applying(j) ==
  /\ pc = "apply"
  /\ j \in jobs
  /\ \A k \in jobs : k.rollout = j.rollout /\ k # j
       => Before(rollouts[j.rollout], j.target, k.target)
  /\ jobs' = jobs \ {j}
  /\ UNCHANGED <<fileVars, peopleVars, worldVars, desired, envOK, aborted, pc,
                 opening, planning, checks>>

\* The result still concerns its rollout: it runs, and waits for the target.
Concerns(j) ==
  /\ rollouts[j.rollout].state = "Running"
  /\ rollouts[j.rollout].tgt[j.target].phase = "updating"

Counts(j) == Concerns(j) /\ j.target \notin Lost(rollouts[j.rollout])

\* The rollout of j continues as ro.
Continue(j, ro) == rollouts' = [rollouts EXCEPT ![j.rollout] = ro]

\* A result nobody waits for any more is dropped; one for a target that is
\* no longer eligible skips it.
ApplyStale(j) ==
  /\ Applying(j)
  /\ ~Counts(j)
  /\ IF Concerns(j)
     THEN Continue(j, [rollouts[j.rollout] EXCEPT !.tgt[j.target].phase = "skipped"])
     ELSE UNCHANGED rollouts
  /\ UNCHANGED <<live, degraded>>

\* The update program returned success, or its failure halts the batch.
ApplyUpdate(j) ==
  LET ro == rollouts[j.rollout] IN
  /\ Applying(j)
  /\ Counts(j) /\ j.hook = "update"
  /\ \/ /\ Continue(j, [ro EXCEPT !.tgt[j.target].done = TRUE])
        /\ UNCHANGED degraded
     \/ /\ "update" \in Faults
        /\ Continue(j, Halted(ro))
        /\ degraded' = degraded \cup HeldBy(ro)
  /\ UNCHANGED live

\* What a failed inspection can do to what is known of target t: nothing, or,
\* at the threshold, lose it.
Doubted(t) == {live, [live EXCEPT ![t] = NoDigest]}

\* Inspect saw a digest: on the desired one the target is updated, and ready
\* if the rollout is forced.  A failed or outdated inspection decides nothing.
ApplyInspect(j) ==
  LET ro == rollouts[j.rollout]
      rt == ro.tgt[j.target]
      arrived == running[j.target] = ro.want[file[j.target].image]
  IN /\ Applying(j)
     /\ Counts(j) /\ j.hook = "inspect"
     /\ \/ /\ live' = [live EXCEPT ![j.target] = running[j.target]]
           /\ Continue(j, [ro EXCEPT !.tgt[j.target] =
                [rt EXCEPT !.updated = @ \/ arrived,
                           !.phase = IF arrived /\ ro.force THEN "ready" ELSE @]])
        \/ /\ "inspect" \in Faults
           /\ live' \in Doubted(j.target)
           /\ UNCHANGED rollouts
     /\ UNCHANGED degraded

\* The ready program passed, or the target is asked again next tick.
ApplyReady(j) ==
  LET ro == rollouts[j.rollout] IN
  /\ Applying(j)
  /\ Counts(j) /\ j.hook = "ready"
  /\ \/ Continue(j, [ro EXCEPT !.tgt[j.target].phase = "ready"])
     \/ "ready" \in Faults /\ UNCHANGED rollouts
  /\ UNCHANGED <<live, degraded>>

\* What applying the soak check of rollout r shares; checks come last.
ApplyingCheck(r) ==
  /\ pc = "apply"
  /\ jobs = {}
  /\ r \in checks
  /\ checks' = checks \ {r}
  /\ UNCHANGED <<fileVars, peopleVars, worldVars, desired, envOK, live, aborted, pc,
                 opening, planning, jobs>>

\* The rollout goes on as ro with quarantine dg.
Conclude(r, ro, dg) ==
  /\ rollouts' = [rollouts EXCEPT ![r] = ro]
  /\ degraded' = dg

\* A check nobody waits for any more.
ApplyCheckStale(r) ==
  /\ ApplyingCheck(r)
  /\ rollouts[r].state # "Soaking"
  /\ UNCHANGED <<rollouts, degraded>>

\* What an applied check decides for the rollout as it now is: forced, its
\* batch passes; with more failures than the limit it halts, whatever the
\* check said (a sync may have changed the strategy); after its duration it
\* passes on a passing check; otherwise the soak goes on.
ConcludeSoak(r, ro) ==
  IF ro.force THEN Conclude(r, Passed(ro), degraded \ PassedBy(ro))
  ELSE IF ro.fails > St(ro).limit THEN Conclude(r, Halted(ro), degraded \cup HeldBy(ro))
  ELSE \/ Conclude(r, ro, degraded)
       \/ ro.ok /\ Conclude(r, Passed(ro), degraded \ PassedBy(ro))

ApplyCheckPassed(r) ==
  /\ ApplyingCheck(r)
  /\ rollouts[r].state = "Soaking"
  /\ ConcludeSoak(r, [rollouts[r] EXCEPT !.ok = TRUE])

ApplyCheckFailed(r) ==
  /\ "soak" \in Faults
  /\ ApplyingCheck(r)
  /\ rollouts[r].state = "Soaking"
  /\ ConcludeSoak(r, [rollouts[r] EXCEPT !.ok = FALSE, !.fails = @ + 1])

TickDone ==
  /\ pc = "apply"
  /\ jobs = {} /\ checks = {}
  /\ pc' = "idle"
  /\ UNCHANGED <<fileVars, worldVars, peopleVars, desired, envOK, live, degraded, aborted,
                 rollouts, opening, planning, jobs, checks>>

-----------------------------------------------------------------------------
\* Outside the tick's locks: registry, environment, inspector, file, world.

\* A registry scan publishes the digests it found: the tick's own before it
\* takes the lock, or the one a sync asks for.  An image that cannot be
\* looked up keeps its digest.  Tags move on; back only where the model says.
Resolve ==
  /\ Unlocked
  /\ \E now \in [ImagesOf(file) -> MaybeDigest] :
       /\ \A i \in ImagesOf(file) :
            \/ now[i] = desired[i]
            \/ /\ now[i] \in Digests
               /\ desired[i] \in Digests /\ now[i] < desired[i] => "rollback" \in Verbs
       /\ desired' = [i \in Images |-> IF i \in ImagesOf(file) THEN now[i] ELSE desired[i]]
  /\ UNCHANGED <<fileVars, worldVars, peopleVars, tickVars, envOK, live, degraded, aborted,
                 rollouts>>

\* The environment check changes its mind.
CheckEnvironment ==
  /\ "env" \in Faults
  /\ pc = "idle"
  /\ envOK' = ~envOK
  /\ UNCHANGED <<fileVars, worldVars, peopleVars, tickVars, desired, live, degraded, aborted,
                 rollouts>>

\* The inspector reports a target of the file in force.
InspectAll(t) ==
  /\ Unlocked
  /\ t \in DOMAIN file
  /\ \/ live' = [live EXCEPT ![t] = running[t]]
     \/ "inspect" \in Faults /\ live' \in Doubted(t)
  /\ UNCHANGED <<fileVars, worldVars, peopleVars, tickVars, desired, envOK, degraded, aborted,
                 rollouts>>

\* The watcher puts a changed file in force.  It does not take the lock, but
\* supersede, openRollouts and planRollouts each read the file once.
Reload(f) ==
  /\ "reload" \in Verbs
  /\ f # file
  /\ gone = {}
  /\ pc = "open" => opening = GroupsOf(file)
  /\ pc = "plan" => planning = ActiveIds /\ jobs = {} /\ checks = {}
  /\ file' = f
  /\ gone' = DOMAIN file \ DOMAIN f
  /\ opening' = IF pc = "open" THEN GroupsOf(f) ELSE opening
  /\ UNCHANGED <<worldVars, peopleVars, desired, envOK, live, degraded, aborted, rollouts,
                 pc, planning, jobs, checks>>

\* The watcher then has what left the file forgotten.
Forget ==
  /\ Unlocked
  /\ gone # {}
  /\ live' = [t \in Targets |-> IF t \in gone THEN NoDigest ELSE live[t]]
  /\ degraded' = degraded \ gone
  /\ gone' = {}
  /\ UNCHANGED <<file, worldVars, peopleVars, tickVars, desired, envOK, aborted, rollouts>>

\* The world: an update that is landing takes effect, or comes to nothing.
Land(t) ==
  /\ landing[t] # NoDigest
  /\ running' = [running EXCEPT ![t] = landing[t]]
  /\ landing' = [landing EXCEPT ![t] = NoDigest]
  /\ UNCHANGED <<fileVars, peopleVars, tickVars, desired, envOK, live, degraded, aborted,
                 rollouts>>

Fizzle(t) ==
  /\ "update" \in Faults
  /\ landing[t] # NoDigest
  /\ landing' = [landing EXCEPT ![t] = NoDigest]
  /\ UNCHANGED <<fileVars, peopleVars, tickVars, desired, envOK, live, degraded, aborted,
                 rollouts, running>>

\* A hold runs out.  It lasts as long as an update may take, so by then the
\* update has landed or come to nothing.
HoldLapse(r, t) ==
  /\ rollouts[r].tgt[t].hold
  /\ landing[t] = NoDigest
  /\ rollouts' = [rollouts EXCEPT ![r].tgt[t].hold = FALSE]
  /\ UNCHANGED <<fileVars, worldVars, peopleVars, tickVars, desired, envOK, live, degraded,
                 aborted>>

-----------------------------------------------------------------------------
\* What people do, each under the lock.

\* Sync a group (the scan it begins with is Resolve): changed rollouts are
\* closed, an abort is lifted, and the group's rollout, new or active, is
\* marked as a person's and starts if it was waiting.  The groups, and what a
\* new rollout is built from, are those of file f: it was read before the scan.
Sync(g, force, strategy, f) ==
  LET rs == Superseded(rollouts)
      found == {r \in RolloutIds : Active(rs[r]) /\ rs[r].group = g}
      Start(ro) == [ro EXCEPT !.human = TRUE, !.force = @ \/ force, !.strategy = strategy,
                      !.state = IF @ \in {"WaitingForSync", "WaitingForEnvironment"}
                                THEN "Running" ELSE @]
  IN /\ "sync" \in Verbs
     /\ force => "force" \in Verbs
     /\ Unlocked
     /\ g \in GroupsOf(f)
     /\ aborted' = Lifted(g)
     /\ IF found # {}
        THEN \E r \in found :
               /\ strategy = rs[r].strategy \/ "strategy" \in Verbs
               /\ rollouts' = [rs EXCEPT ![r] = Start(rs[r])]
        ELSE /\ strategy = policy[g].strategy \/ "strategy" \in Verbs
             /\ IF OutOfSync(g, f) = {} \/ FreshIds = {}
                THEN rollouts' = rs
                ELSE \E r \in FreshIds : rollouts' = [rs EXCEPT ![r] = Start(RolloutFor(g, strategy, f))]
     /\ UNCHANGED <<fileVars, worldVars, peopleVars, tickVars, desired, envOK, live, degraded>>

Suspend(sel) ==
  /\ "suspend" \in Verbs
  /\ Unlocked
  /\ Select(sel, file) # {}
  /\ suspensions' = suspensions \cup {sel}
  /\ UNCHANGED <<fileVars, worldVars, tickVars, policy, desired, envOK, live, degraded,
                 aborted, rollouts>>

Resume(sel) ==
  /\ "suspend" \in Verbs
  /\ Unlocked
  /\ sel \in suspensions
  /\ suspensions' = suspensions \ {sel}
  /\ UNCHANGED <<fileVars, worldVars, tickVars, policy, desired, envOK, live, degraded,
                 aborted, rollouts>>

SetPolicy(g, p) ==
  /\ "policy" \in Verbs
  /\ Unlocked
  /\ g \in GroupsOf(file)
  /\ policy' = [policy EXCEPT ![g] = p]
  /\ UNCHANGED <<fileVars, worldVars, tickVars, suspensions, desired, envOK, live, degraded,
                 aborted, rollouts>>

\* What the verbs on one rollout share: only the rollout changes.
OnRollout(verb, r, ro) ==
  /\ verb \in Verbs
  /\ Unlocked
  /\ rollouts' = [rollouts EXCEPT ![r] = ro]
  /\ UNCHANGED <<fileVars, worldVars, peopleVars, tickVars, desired, envOK, live, degraded>>

\* Pause: with no batch open at once, else when the open batch has passed.
Pause(r) ==
  LET ro == rollouts[r] IN
  /\ ro.state \in {"Running", "Soaking", "WaitingForBudget", "WaitingForEnvironment"}
  /\ OnRollout("pause", r,
       IF ro.open THEN [ro EXCEPT !.pausePending = TRUE]
       ELSE [ro EXCEPT !.pausePending = FALSE, !.state = "Paused"])
  /\ UNCHANGED aborted

Promote(r) ==
  LET ro == rollouts[r] IN
  /\ ro.state = "Paused" \/ ro.pausePending
  /\ OnRollout("pause", r,
       [ro EXCEPT !.pausePending = FALSE, !.human = TRUE,
                  !.state = IF @ = "Paused" THEN "Running" ELSE @])
  /\ UNCHANGED aborted

\* Abort closes the open batch too, and remembers what the group wanted.
Abort(r) ==
  LET ro == rollouts[r] IN
  /\ Active(ro)
  /\ OnRollout("abort", r, [Ended(ro, "Aborted") EXCEPT !.open = FALSE])
  /\ aborted' = [aborted EXCEPT ![ro.group] = {GroupKey(ro.group)}]

Retry(r) ==
  /\ rollouts[r].state = "Halted"
  /\ OnRollout("retry", r, [rollouts[r] EXCEPT !.retryPending = TRUE, !.human = TRUE])
  /\ UNCHANGED aborted

-----------------------------------------------------------------------------
PlanStep(r) ==
  \/ PlanNothing(r) \/ PlanRetry(r) \/ PlanStart(r) \/ PlanOpen(r) \/ PlanLate(r) \/ PlanSoak(r)

ApplyStep ==
  \/ \E j \in jobs : ApplyStale(j) \/ ApplyUpdate(j) \/ ApplyInspect(j) \/ ApplyReady(j)
  \/ \E r \in checks : ApplyCheckStale(r) \/ ApplyCheckPassed(r) \/ ApplyCheckFailed(r)

\* One step of the tick goroutine.
TickStep ==
  \/ TickStart
  \/ \E g \in opening : OpenGroup(g)
  \/ OpenDone
  \/ \E r \in planning : PlanStep(r)
  \/ PlanDone
  \/ ExecDone
  \/ ApplyStep
  \/ TickDone

WorldStep ==
  \/ Resolve
  \/ CheckEnvironment
  \/ \E t \in Targets : InspectAll(t) \/ Land(t) \/ Fizzle(t)
  \/ \E f \in Files : Reload(f)
  \/ Forget
  \/ \E r \in RolloutIds, t \in Targets : HoldLapse(r, t)

PeopleStep ==
  \/ \E g \in Groups, force \in BOOLEAN, strategy \in DOMAIN StrategyOf, f \in HeldFiles :
       Sync(g, force, strategy, f)
  \/ \E sel \in Selectors : Suspend(sel) \/ Resume(sel)
  \/ \E g \in Groups, p \in Policies : SetPolicy(g, p)
  \/ \E r \in RolloutIds : Pause(r) \/ Promote(r) \/ Abort(r) \/ Retry(r)

Next == TickStep \/ WorldStep \/ PeopleStep

Spec == Init /\ [][Next]_vars

\* The loops keep going: the tick, the inspector, the clock that ends holds
\* and soaks, and updates that were dispatched.  People, the registry and the
\* watcher owe nothing.  Time passes: a soak check that is not due comes due,
\* and a soak that keeps passing its checks runs out of time to go.
Fairness ==
  /\ WF_vars(TickStep)
  /\ \A r \in RolloutIds : /\ SF_vars(PlanSoak(r) /\ checks' # checks)
                           /\ SF_vars(PlanSoak(r) /\ rollouts'[r].state # "Soaking")
  /\ \A t \in Targets : WF_vars(Land(t)) /\ WF_vars(InspectAll(t))
  /\ \A r \in RolloutIds, t \in Targets : WF_vars(HoldLapse(r, t))

FairSpec == Spec /\ Fairness

-----------------------------------------------------------------------------
\* Properties.

\* The weight of the nodes counted as unavailable never exceeds the disruption
\* budget, whatever rollouts run, halt, retry and end beside each other (the
\* first check of property_test.go, on a targets file that does not change: one
\* that does changes the weights and the budget under what is in flight).
BudgetHeld == W[file][InFlight(rollouts)] <= Budget[file]

\* A group never has two active rollouts, although the tick and people both
\* open them (the second check of property_test.go).
OneActivePerGroup ==
  \A q, r \in ActiveIds : rollouts[q].group = rollouts[r].group => q = r

\* While an abort holds for a group, the group has no active rollout.
AbortHolds == \A g \in Groups : aborted[g] # {} => ActiveIn(g) = {}

\* A rollout that ended stays as it ended: its state, its batches and its
\* targets' phases never change again, whatever program of it still reports.
FinishedStaysFinished ==
  [][\A r \in RolloutIds : rollouts[r].state \in EndedStates =>
       /\ rollouts'[r].state = rollouts[r].state
       /\ rollouts'[r].nb = rollouts[r].nb
       /\ \A t \in Targets : rollouts'[r].tgt[t].phase = rollouts[r].tgt[t].phase]_vars

\* What a halt stopped is quarantined for as long as the rollout is halted, so
\* the retry that reopens it is free for the budget.
HaltedQuarantined ==
  \A r \in RolloutIds : rollouts[r].state = "Halted" =>
    /\ Failed(rollouts[r]) \subseteq degraded
    /\ HeldBy(rollouts[r]) = Failed(rollouts[r])

\* What the phases of an active rollout say of its open batch: under way only
\* in it, settled once it soaks, failed or skipped once it halts.
Shape(ro) == Active(ro) =>
  /\ \A t \in Targets : ro.tgt[t].batch <= ro.nb /\ ~ro.tgt[t].hold
  /\ \A t \in Targets : ro.tgt[t].phase \in {"updating", "ready"} =>
       ro.open /\ ro.tgt[t].batch = ro.nb
  /\ ro.open => InBatch(ro) \subseteq TargetsIn(ro, {"pending", "updating", "ready", "skipped"})
  /\ ro.state = "Soaking" => InBatch(ro) \subseteq TargetsIn(ro, {"ready", "skipped"})
  /\ ro.state = "Halted" => InBatch(ro) \subseteq TargetsIn(ro, {"failed", "skipped"})

Shaped == \A r \in RolloutIds : Shape(rollouts[r])

\* A rollout's targets are of its group, while the file stays.
Homed == \A r \in ActiveIds : \A t \in Targets \ TargetsIn(rollouts[r], {"none"}) :
  t \in DOMAIN file /\ file[t].group = rollouts[r].group

\* A target an update may still be changing is known to the budget: its
\* rollout tracks it, holds it after its end, or it is in quarantine.
LandingAccounted ==
  \A t \in Targets : landing[t] # NoDigest =>
    t \in degraded \/ \E r \in RolloutIds : t \in Tracked(rollouts[r])

\* An update program is told to deploy the digest its rollout is for, however
\* tags, pins and policies moved since the rollout was created.
UpdatesForDesired ==
  \A j \in jobs : j.hook = "update" =>
    j.digest = rollouts[j.rollout].want[file[j.target].image]

\* Two programs never run for one target in the same tick.
OneProgramPerTarget == \A j, k \in jobs : j.target = k.target => j = k

\* Asked to pause, a rollout starts no further batch and stays asked or paused,
\* through halts, retries and soaks, until a promote or its end.
AskedToPause(ro) == ro.pausePending \/ ro.state = "Paused"

PauseHonoured ==
  [][\A r \in RolloutIds :
       AskedToPause(rollouts[r]) /\ Active(rollouts'[r]) /\ ~Promote(r) =>
         rollouts'[r].nb = rollouts[r].nb /\ AskedToPause(rollouts'[r])]_vars

\* Waves go in order: no target is put in a batch while one of an earlier
\* wave waits, targets that began degraded aside.
WavesInOrder ==
  \A r \in ActiveIds : LET ro == rollouts[r] IN
    \A t \in Targets \ TargetsIn(ro, {"none"}), u \in Unbatched(ro) :
      ro.tgt[t].batch > 0 /\ ~ro.tgt[t].degBefore /\ ~ro.tgt[u].degBefore
        => ro.tgt[t].wave <= ro.tgt[u].wave

\* Quarantine is lifted only for a target its rollout saw on the new build,
\* for one a person retries, or for one that left the file.
QuarantineLifted ==
  [][\A t \in degraded \ degraded' :
       \/ t \in gone
       \/ \E r \in RolloutIds :
            \/ rollouts[r].retryPending /\ t \in Failed(rollouts[r])
            \/ rollouts'[r].tgt[t].phase = "passed" /\ rollouts'[r].tgt[t].updated]_vars

\* When a tag stops moving, every target on it comes to run its digest and
\* stays there: rollouts that compete for the budget all get their turn.
Converges ==
  \A i \in Images, d \in Digests :
    <>[](desired[i] = d) => <>[](\A t \in DOMAIN file : file[t].image = i => running[t] = d)

====
