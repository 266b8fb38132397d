---- MODULE Lifecycle ----
(***************************************************************************)
(* What the rollouts of one instance promise, seen from outside: which     *)
(* state follows which, and one active rollout per group.  Controller      *)
(* implements it.                                                          *)
(***************************************************************************)
EXTENDS Rollouts

VARIABLES state,  \* rollout id -> its state
          group   \* rollout id -> the group it is for

LifecycleInit == /\ state = [r \in RolloutIds |-> "None"]
                 /\ group \in [RolloutIds -> Groups]

\* From where to where a rollout moves.  A halt is left only by a retry, a
\* pause only by a promote, and a soak only by passing or halting.
Edges ==
  LET waiting == {"WaitingForBudget", "WaitingForEnvironment"}
      free == {"Running"} \cup waiting
  IN {<<"WaitingForSync", "Running">>}
     \cup (free \X (free \cup {"Paused", "Complete"}))
     \cup ({"Running"} \X {"Soaking", "Halted"})
     \cup ({"Soaking"} \X {"Running", "Paused", "Halted"})
     \cup {<<"Paused", "Running">>}
     \cup ({"Halted"} \X {"Running", "Soaking", "Paused"})
     \cup (ActiveStates \X {"Aborted"})

Live(st) == {r \in RolloutIds : st[r] \in ActiveStates}

\* The states when the rollouts for digests that moved on have closed.
Closed(closing) == [r \in RolloutIds |-> IF r \in closing THEN "Superseded" ELSE state[r]]

Close(closing) ==
  /\ state' = Closed(closing)
  /\ UNCHANGED group

\* With them, one rollout moves along an edge.
Move(closing, r, s) ==
  /\ r \in Live(Closed(closing))
  /\ <<Closed(closing)[r], s>> \in Edges
  /\ state' = [Closed(closing) EXCEPT ![r] = s]
  /\ UNCHANGED group

\* Or one opens in a group that has none.
Open(closing, r, g, s) ==
  /\ state[r] = "None"
  /\ \A q \in Live(Closed(closing)) : group[q] # g
  /\ state' = [Closed(closing) EXCEPT ![r] = s]
  /\ group' = [group EXCEPT ![r] = g]

LifecycleNext ==
  \E closing \in SUBSET Live(state) :
    \/ Close(closing)
    \/ \E r \in RolloutIds, s \in States : Move(closing, r, s)
    \/ \E r \in RolloutIds, g \in Groups, s \in {"Running", "WaitingForSync"} : Open(closing, r, g, s)

LifecycleSpec == LifecycleInit /\ [][LifecycleNext]_<<state, group>>

\* No group has two active rollouts.
OneEach == \A q, r \in Live(state) : group[q] = group[r] => q = r

====
