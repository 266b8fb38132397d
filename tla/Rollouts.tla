---- MODULE Rollouts ----
(***************************************************************************)
(* A rollout as a value, and what the controller does to one: every        *)
(* operator here takes a rollout and gives back the changed one.  Nothing  *)
(* in this module is a step; Controller says when each happens.            *)
(***************************************************************************)
EXTENDS Fleet

ActiveStates == {"WaitingForSync", "Running", "Soaking", "Paused",
                 "WaitingForBudget", "WaitingForEnvironment", "Halted"}
EndedStates == {"Aborted", "Superseded", "Complete"}

\* An id nobody has used yet is in state "None"; a target a rollout does not
\* have is in phase "none".
States == ActiveStates \cup EndedStates \cup {"None"}
Phases == {"none", "pending", "updating", "ready", "passed", "failed", "skipped"}

\* One target's progress.  done: the update program returned success.
\* updated: inspect has seen the desired digest.  degBefore: degraded when
\* the rollout began.  free: its node was degraded when the update was
\* admitted.  hold: the rollout ended but the update may still be landing.
RolloutTarget == [phase : Phases, node : Nodes, wave : Nat, batch : Nat,
                  done : BOOLEAN, updated : BOOLEAN,
                  degBefore : BOOLEAN, free : BOOLEAN, hold : BOOLEAN]

\* A rollout.  Of its batches only their number nb and whether the last one
\* is still open matter: a target's batch field says which one it is in.
\* fails and ok are the soak in progress: failed checks, and whether the
\* last check passed.
Rollout == [state : States, group : Groups, strategy : DOMAIN StrategyOf,
            want : [Images -> MaybeDigest],
            human : BOOLEAN, force : BOOLEAN,
            pausePending : BOOLEAN, retryPending : BOOLEAN,
            nb : Nat, open : BOOLEAN, fails : Nat, ok : BOOLEAN,
            tgt : [Targets -> RolloutTarget]]

NoTarget == [phase |-> "none", node |-> CHOOSE n \in Nodes : TRUE, wave |-> 0,
             batch |-> 0, done |-> FALSE, updated |-> FALSE,
             degBefore |-> FALSE, free |-> FALSE, hold |-> FALSE]

NoRollout == [state |-> "None", group |-> CHOOSE g \in Groups : TRUE,
              strategy |-> DefaultPolicy.strategy,
              want |-> [i \in Images |-> NoDigest],
              human |-> FALSE, force |-> FALSE,
              pausePending |-> FALSE, retryPending |-> FALSE,
              nb |-> 0, open |-> FALSE, fails |-> 0, ok |-> FALSE,
              tgt |-> [t \in Targets |-> NoTarget]]

St(ro) == StrategyOf[ro.strategy]
Active(ro) == ro.state \in ActiveStates

-----------------------------------------------------------------------------
\* Which targets, which nodes.

TargetsIn(ro, phases) == {t \in Targets : ro.tgt[t].phase \in phases}

\* The targets of the newest batch.
InBatch(ro) == {t \in Targets : ro.tgt[t].phase # "none" /\ ro.tgt[t].batch = ro.nb}

\* Targets no batch has taken and nothing has settled.
Unbatched(ro) == {t \in TargetsIn(ro, {"pending"}) : ro.tgt[t].batch = 0}

NodesOf(ro) == {ro.tgt[t].node : t \in Targets \ TargetsIn(ro, {"none"})}

\* Mutant of Tracked: a batch that has passed keeps its nodes.
TrackedWhileActive(ro) ==
  IF Active(ro)
  THEN {t \in InBatch(ro) : ro.nb > 0 /\ ro.tgt[t].phase # "skipped"}
  ELSE {t \in Targets : ro.tgt[t].hold}

\* The targets whose nodes a rollout keeps against the budget: all that were
\* not skipped in an open batch, or, after the end, the ones on hold.
Tracked(ro) ==
  IF Active(ro)
  THEN {t \in InBatch(ro) : ro.open /\ ro.tgt[t].phase # "skipped"}
  ELSE {t \in Targets : ro.tgt[t].hold}

Charged(ro) == {t \in Tracked(ro) : ~ro.tgt[t].free}

\* Every node with a target mid-update that counts, over all rollouts.
InFlight(rs) ==
  {n \in Nodes : \E r \in RolloutIds : \E t \in Charged(rs[r]) : rs[r].tgt[t].node = n}

-----------------------------------------------------------------------------
\* Opening and ending.

\* A new rollout over the targets ts of file f.
NewRollout(g, strategy, f, ts, want, degraded) ==
  [NoRollout EXCEPT
     !.state = "Running", !.group = g, !.strategy = strategy, !.want = want,
     !.tgt = [t \in Targets |->
               IF t \in ts
               THEN [NoTarget EXCEPT
                       !.phase = "pending", !.node = f[t].node,
                       !.wave = IF StrategyOf[strategy].waves THEN f[t].wave ELSE 0,
                       !.degBefore = t \in degraded]
               ELSE NoTarget]]

\* Mutant of Ended: its targets take the rollout's state for their phase.
EndedByState(ro, state) ==
  [ro EXCEPT
     !.state = state,
     !.tgt = [t \in Targets |->
               IF ro.tgt[t].phase \in {"updating", "ready"}
               THEN [ro.tgt[t] EXCEPT !.phase = state] ELSE ro.tgt[t]]]

\* Mutant of Ended: what may still be landing is not held.
EndedNoHold(ro, state) ==
  [ro EXCEPT
     !.state = state,
     !.tgt = [t \in Targets |->
               IF ro.tgt[t].phase \in {"updating", "ready"}
               THEN [ro.tgt[t] EXCEPT !.phase = "skipped"] ELSE ro.tgt[t]]]

\* A rollout ends: a target whose update was dispatched and has not shown
\* its digest holds its node; whatever was under way is skipped.
Ended(ro, state) ==
  [ro EXCEPT
     !.state = state,
     !.tgt = [t \in Targets |->
               IF ro.tgt[t].phase \in {"updating", "ready"}
               THEN [ro.tgt[t] EXCEPT
                       !.hold = @ \/ (ro.tgt[t].phase = "updating" /\ ~ro.tgt[t].updated),
                       !.phase = "skipped"]
               ELSE ro.tgt[t]]]

-----------------------------------------------------------------------------
\* Cutting a batch.

\* The update order: degraded first, then by wave, node and id.
Before(ro, t, u) ==
  LET a == ro.tgt[t]
      b == ro.tgt[u]
  IN \/ a.degBefore /\ ~b.degBefore
     \/ /\ a.degBefore = b.degBefore
        /\ \/ a.wave < b.wave
           \/ a.wave = b.wave /\ a.node < b.node
           \/ a.wave = b.wave /\ a.node = b.node /\ t < u

\* Unbatched targets looked at again: lost ones and unreachable ones are
\* skipped, ones already on the new build have passed.
Reviewed(ro, lost, unreachable, arrived) ==
  [ro EXCEPT !.tgt = [t \in Targets |->
     IF t \notin Unbatched(ro) THEN ro.tgt[t]
     ELSE IF t \in lost \cup unreachable THEN [ro.tgt[t] EXCEPT !.phase = "skipped"]
     ELSE IF t \in arrived THEN [ro.tgt[t] EXCEPT !.phase = "passed"]
     ELSE ro.tgt[t]]]

\* Mutant of Candidates: all of the first target's wave, wherever it sorts.
CandidatesByWave(ro) ==
  {t \in Unbatched(ro) :
     St(ro).waves =>
       \A u \in Unbatched(ro) :
         (\A v \in Unbatched(ro) \ {u} : Before(ro, u, v)) => ro.tgt[t].wave = ro.tgt[u].wave}

\* The unbatched targets, up to the first of another wave when the strategy
\* follows waves.
Candidates(ro) ==
  {t \in Unbatched(ro) :
     St(ro).waves =>
       \A u, v \in {w \in Unbatched(ro) : w = t \/ Before(ro, w, t)} :
         ro.tgt[u].wave = ro.tgt[v].wave}

\* The nodes of the candidates, and the order the walk reaches them in.
CandidateNodes(ro) == {ro.tgt[t].node : t \in Candidates(ro)}

NodeBefore(ro, m, n) ==
  \E t \in Candidates(ro) :
    /\ ro.tgt[t].node = m
    /\ \A u \in Candidates(ro) : ro.tgt[u].node = n => Before(ro, t, u)

\* Mutant of GreedyCut: the walk counts only the nodes it picks itself.
GreedyCutAlone(ro, P, size, busy, free, f) ==
  \A n \in CandidateNodes(ro) :
    LET ahead == {m \in P : NodeBefore(ro, m, n)}
    IN n \in P <=> Cardinality(ahead) < size
                   /\ (n \in free \/ W[f][(ahead \ free) \cup {n}] <= Budget[f])

\* Mutant of GreedyCut: the budget is a share of the file the process started
\* with.
GreedyCutOld(ro, P, size, busy, free, f) ==
  \A n \in CandidateNodes(ro) :
    LET ahead == {m \in P : NodeBefore(ro, m, n)}
    IN n \in P <=>
         /\ Cardinality(ahead) < size
         /\ \/ n \in busy \cup free
            \/ W[f][{n}] = 0
            \/ W[f][busy \cup (ahead \ free) \cup {n}] <= Budget[InitialFile]

\* P is what the walk picks: a node is taken when fewer than size were taken
\* before it and either it costs nothing (already in flight, already
\* degraded, weightless) or its weight still fits the budget, both by the
\* file f.
GreedyCut(ro, P, size, busy, free, f) ==
  \A n \in CandidateNodes(ro) :
    LET ahead == {m \in P : NodeBefore(ro, m, n)}
    IN n \in P <=>
         /\ Cardinality(ahead) < size
         /\ \/ n \in busy \cup free
            \/ W[f][{n}] = 0
            \/ W[f][busy \cup (ahead \ free) \cup {n}] <= Budget[f]

\* The next batch opens with the candidates on the picked nodes.
WithBatch(ro, P, free) ==
  [ro EXCEPT
     !.state = "Running", !.nb = @ + 1, !.open = TRUE,
     !.tgt = [t \in Targets |->
               IF t \in Candidates(ro) /\ ro.tgt[t].node \in P
               THEN [ro.tgt[t] EXCEPT !.batch = ro.nb + 1, !.free = ro.tgt[t].node \in free]
               ELSE ro.tgt[t]]]

-----------------------------------------------------------------------------
\* Moving the open batch.

\* Batch targets that were lost are skipped where they are, in the phases
\* given.
WithoutLost(ro, lost, phases) ==
  [ro EXCEPT !.tgt = [t \in Targets |->
     IF t \in lost \cap InBatch(ro) /\ ro.tgt[t].phase \in phases
     THEN [ro.tgt[t] EXCEPT !.phase = "skipped"]
     ELSE ro.tgt[t]]]

\* One pass over the open batch: updates are dispatched, and a forced
\* rollout does not wait for readiness.
Advanced(ro) ==
  [ro EXCEPT !.tgt = [t \in Targets |->
     IF t \notin InBatch(ro) THEN ro.tgt[t]
     ELSE IF ro.tgt[t].phase = "pending" THEN [ro.tgt[t] EXCEPT !.phase = "updating"]
     ELSE IF ro.tgt[t].phase = "updating" /\ ro.tgt[t].updated /\ ro.force
          THEN [ro.tgt[t] EXCEPT !.phase = "ready"]
     ELSE ro.tgt[t]]]

\* The targets a program must run for, and which program.
Waiting(ro) ==
  {t \in InBatch(ro) :
     \/ ro.tgt[t].phase = "pending"
     \/ ro.tgt[t].phase = "updating" /\ ~(ro.tgt[t].updated /\ ro.force)}

\* Mutant of Hook: the update program's word is taken for the digest.
HookTrusting(ro, t) ==
  IF ro.tgt[t].phase = "pending" THEN "update"
  ELSE IF ro.tgt[t].done THEN "ready" ELSE "inspect"

Hook(ro, t) ==
  IF ro.tgt[t].phase = "pending" THEN "update"
  ELSE IF ro.tgt[t].updated THEN "ready" ELSE "inspect"

\* The batch stops: what was not skipped has failed and is quarantined.
HeldBy(ro) == {t \in InBatch(ro) : ro.tgt[t].phase \notin {"skipped", "passed"}}

\* Mutant of Halted: only targets still updating have failed.
HaltedUpdating(ro) ==
  [ro EXCEPT
     !.state = "Halted", !.open = FALSE,
     !.tgt = [t \in Targets |->
               IF t \in InBatch(ro) /\ ro.tgt[t].phase = "updating"
               THEN [ro.tgt[t] EXCEPT !.phase = "failed"] ELSE ro.tgt[t]]]

Halted(ro) ==
  [ro EXCEPT
     !.state = "Halted", !.open = FALSE,
     !.tgt = [t \in Targets |->
               IF t \in HeldBy(ro) THEN [ro.tgt[t] EXCEPT !.phase = "failed"] ELSE ro.tgt[t]]]

\* Mutant of Retried: the retried targets' nodes are charged again.
RetriedCharged(ro, seen, degraded) ==
  [ro EXCEPT
     !.state = "Running", !.retryPending = FALSE, !.open = TRUE,
     !.fails = 0, !.ok = FALSE,
     !.tgt = [t \in Targets |->
               IF t \in InBatch(ro) /\ ro.tgt[t].phase = "failed"
               THEN [ro.tgt[t] EXCEPT
                       !.phase = IF t \in seen THEN "updating" ELSE "pending",
                       !.done = t \in seen, !.updated = FALSE, !.free = FALSE]
               ELSE ro.tgt[t]]]

\* The halted batch reopens: a failed target seen on the new build waits for
\* inspect to confirm it, any other is updated again.
Retried(ro, seen, degraded) ==
  [ro EXCEPT
     !.state = "Running", !.retryPending = FALSE, !.open = TRUE,
     !.fails = 0, !.ok = FALSE,
     !.tgt = [t \in Targets |->
               IF t \in InBatch(ro) /\ ro.tgt[t].phase = "failed"
               THEN [ro.tgt[t] EXCEPT
                       !.phase = IF t \in seen THEN "updating" ELSE "pending",
                       !.done = t \in seen, !.updated = FALSE,
                       !.free = t \in degraded]
               ELSE ro.tgt[t]]]

\* The failed targets of the newest batch.
Failed(ro) == {t \in InBatch(ro) : ro.tgt[t].phase = "failed"}

Soaking(ro) == [ro EXCEPT !.state = "Soaking", !.fails = 0, !.ok = FALSE]

\* Mutant of Passed: a pause asked for during the batch is forgotten.
PassedOn(ro) ==
  [ro EXCEPT
     !.state = IF St(ro).pauseFirst /\ ro.nb = 1 /\ Unbatched(ro) # {} THEN "Paused" ELSE "Running",
     !.pausePending = FALSE,
     !.open = FALSE,
     !.tgt = [t \in Targets |->
               IF t \in InBatch(ro) /\ ro.tgt[t].phase = "ready"
               THEN [ro.tgt[t] EXCEPT !.phase = "passed"] ELSE ro.tgt[t]]]

\* The open batch passes; then the rollout pauses or goes on.
Passed(ro) ==
  LET pause == \/ ro.pausePending
               \/ St(ro).pauseFirst /\ ro.nb = 1 /\ Unbatched(ro) # {}
  IN [ro EXCEPT
        !.state = IF pause THEN "Paused" ELSE "Running",
        !.pausePending = FALSE,
        !.open = FALSE,
        !.tgt = [t \in Targets |->
                  IF t \in InBatch(ro) /\ ro.tgt[t].phase = "ready"
                  THEN [ro.tgt[t] EXCEPT !.phase = "passed"]
                  ELSE ro.tgt[t]]]

\* The targets whose quarantine the passing batch lifts.
PassedBy(ro) == {t \in InBatch(ro) : ro.tgt[t].phase \in {"ready", "passed"}}

====
