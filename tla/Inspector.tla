---- MODULE Inspector ----
(***************************************************************************)
(* What the controller knows of running digests (controller.go: InspectAll,*)
(* setLiveLocked, Forget), beside a watcher that changes the set in force. *)
(* The inspector inspects the set in passes; a tick inspects targets of    *)
(* open batches on its own.  A program begins, sees a digest, and ends     *)
(* later: its result waits for the lock, and results overtake each other.  *)
(***************************************************************************)
EXTENDS Watcher

CONSTANTS
  MaxClock    \* bound: how many inspections there are

ASSUME ClockAssumption == MaxClock \in Nat

VARIABLES
  clock,    \* a clock all goroutines read: how many inspections began
  landed,   \* the world: target -> the first inspection that could begin
            \* after its new build began to run, 0 if it has not
  todo,     \* targets the inspector's pass has still to begin with
  flights,  \* inspections under way
  live,     \* Controller.live, as on disk: a set of at most one record per target
  absent    \* ids that were not in the files when the process started

inspectVars == <<clock, landed, todo, flights, live, absent>>
vars == <<watchVars, inspectVars>>

Who == {"inspector", "tick"}
Digests == {"old", "new"}

\* sees is what the program prints, once it has looked.
Flight == [who : Who, target : Targets, started : 1 .. MaxClock,
           sees : Digests \cup {"nothing yet", "an error"}]

\* Live; of the failures in a row only whether there are any.
Record == [target : Targets, digest : Digests \cup {"none"}, observed : 1 .. MaxClock,
           failing : BOOLEAN]

Of(t) == {l \in live : l.target = t}

TypeOK ==
  /\ WatchTypeOK
  /\ clock \in 0 .. MaxClock /\ landed \in [Targets -> 0 .. MaxClock + 1]
  /\ todo \subseteq Targets
  /\ flights \subseteq Flight
  /\ live \subseteq Record
  /\ \A t \in Targets : Cardinality(Of(t)) <= 1

Init ==
  /\ WatchInit
  /\ clock = 0 /\ landed = [t \in Targets |-> 0]
  /\ todo = {} /\ flights = {} /\ live = {} /\ absent = {}

Up == stage \notin {"down", "up"}

-----------------------------------------------------------------------------
\* The world.

Land(t) ==
  /\ landed[t] = 0
  /\ landed' = [landed EXCEPT ![t] = clock + 1]
  /\ UNCHANGED <<watchVars, clock, todo, flights, live, absent>>

Running(t) == IF landed[t] = 0 THEN "old" ELSE "new"

-----------------------------------------------------------------------------
\* Inspections.

\* A pass takes the set as it is, and lasts until its last program is done.
BeginPass ==
  /\ Up
  /\ todo = {} /\ \A f \in flights : f.who # "inspector"
  /\ todo' = current
  /\ UNCHANGED <<watchVars, clock, landed, flights, live, absent>>

\* A program starts: the inspector's for a target of its pass, the tick's for
\* one of an open batch.
Begin(who, t) ==
  /\ Up
  /\ clock < MaxClock
  /\ IF who = "inspector" THEN t \in todo ELSE t \in current
  /\ \A f \in flights : f.who = who => f.target # t
  /\ todo' = IF who = "inspector" THEN todo \ {t} ELSE todo
  /\ clock' = clock + 1
  /\ flights' = flights \cup
       {[who |-> who, target |-> t, started |-> clock + 1, sees |-> "nothing yet"]}
  /\ UNCHANGED <<watchVars, landed, live, absent>>

Look(f) ==
  /\ f.sees = "nothing yet"
  /\ \E seen \in {Running(f.target), "an error"} :
       flights' = (flights \ {f}) \cup {[f EXCEPT !.sees = seen]}
  /\ UNCHANGED <<watchVars, clock, landed, todo, live, absent>>

\* Mutant of Accepts: what left the files is not looked for.
AcceptsAbsent(f) == \A l \in Of(f.target) : f.started >= l.observed

\* Mutant of Accepts: the result that comes last wins.
AcceptsLast(f) == f.target \in current

\* A result counts unless its target has left the files or a newer one is
\* recorded.
Accepts(f) ==
  /\ f.target \in current
  /\ \A l \in Of(f.target) : f.started >= l.observed

\* Mutant of Observation: an observation is dated by its end.
ObservationByEnd(f) ==
  [target |-> f.target, digest |-> f.sees, observed |-> clock, failing |-> FALSE]

Observation(f) ==
  [target |-> f.target, digest |-> f.sees, observed |-> f.started, failing |-> FALSE]

\* A failure keeps the digest.
Doubt(f) ==
  IF Of(f.target) = {}
  THEN {[target |-> f.target, digest |-> "none", observed |-> f.started, failing |-> TRUE]}
  ELSE {[l EXCEPT !.observed = f.started, !.failing = TRUE] : l \in Of(f.target)}

\* Mutant of Recorded: the exit code is not looked at.
RecordedBlindly(f) == {Observation(f)}

Recorded(f) == IF f.sees = "an error" THEN Doubt(f) ELSE {Observation(f)}

SetLive(f) ==
  /\ f.sees # "nothing yet"
  /\ flights' = flights \ {f}
  /\ live' = IF ~Accepts(f) THEN live
             ELSE (live \ Of(f.target)) \cup Recorded(f)
  /\ UNCHANGED <<watchVars, clock, landed, todo, absent>>

\* The tick drops what its rollout no longer waits for.
Drop(f) ==
  /\ f.who = "tick" /\ f.sees # "nothing yet"
  /\ flights' = flights \ {f}
  /\ UNCHANGED <<watchVars, clock, landed, todo, live, absent>>

-----------------------------------------------------------------------------
\* The watcher's effect on what is known.

Forget ==
  /\ ForgetRemoved
  /\ live' = {l \in live : l.target \notin leaving}
  /\ UNCHANGED <<clock, landed, todo, flights, absent>>

Watch ==
  /\ WatchStep \/ PollFails \/ \E p \in Paths : Edit(p)
  /\ absent' = IF stage = "down" /\ stage' = "up" THEN Targets \ current'
               ELSE IF stage = "load" THEN absent \ current' ELSE absent
  /\ UNCHANGED <<clock, landed, todo, flights, live>>

Crash ==
  /\ WatchCrash
  /\ todo' = {} /\ flights' = {}
  /\ UNCHANGED <<clock, landed, live, absent>>

Next ==
  \/ Watch \/ Forget \/ Crash
  \/ \E t \in Targets : Land(t)
  \/ BeginPass
  \/ \E who \in Who, t \in Targets : Begin(who, t)
  \/ \E f \in flights : Look(f) \/ SetLive(f) \/ Drop(f)

Spec == Init /\ [][Next]_vars

\* The watcher polls on its ticker, and its files can be read.
Fairness == WF_vars(Watch /\ WatchStep) /\ WF_vars(Forget)

FairSpec == Spec /\ Fairness

-----------------------------------------------------------------------------
\* Properties.

\* Nothing is known of a target outside the set in force, once what left is
\* forgotten, although results for it still come in (tasks/prd.md:182).
\* Targets that left while no process ran are the exception.
Forgotten == Up => \A l \in live : l.target \in current \cup leaving \cup absent

\* A record gives way only to an observation that began no earlier, and a
\* digest was really running at or after the time it is recorded for,
\* whichever of the inspector's and the tick's programs ends first.
NewerWins ==
  [][\A l \in live' \ live :
       /\ \A old \in Of(l.target) : l.observed >= old.observed
       /\ ~l.failing /\ l.digest = "old" =>
            landed[l.target] = 0 \/ landed[l.target] > l.observed]_vars

====
