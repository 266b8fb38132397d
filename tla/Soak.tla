---- MODULE Soak ----
(***************************************************************************)
(* The soak of one rollout, with a clock: when a check is asked for, what  *)
(* its answer does, on which evidence a batch passes, and which records    *)
(* are kept, over retries, other people's verbs and restarts (advance.go). *)
(*                                                                         *)
(* Every time the code compares is the start of some tick, so a time is    *)
(* kept as its age at the start of the newest tick, up to LongAgo, beyond  *)
(* which no comparison can tell; a time that was never set is LongAgo too. *)
(* elapsed is how long ago that tick started: ticks come as often or as    *)
(* late as they like, and the process may be away for as long.             *)
(***************************************************************************)
EXTENDS Naturals

CONSTANTS
  Programs,      \* soak programs, each with one target of every batch
  Unsteady,      \* bound: the programs whose target may leave and come back
  Interval,      \* soak.interval
  Duration,      \* soak.duration
  FailureLimit,  \* soak.failureLimit
  MaxBatches,    \* bound: batches of the rollout
  MaxSoaks,      \* bound: how many soaks begin, retries included
  MaxCrashes     \* bound: how often the process stops

ASSUME TimesAssumption ==
  /\ Interval \in Nat \ {0} /\ Duration \in Nat \ {0} /\ Interval <= Duration
  /\ FailureLimit \in Nat /\ MaxBatches \in Nat /\ Unsteady \subseteq Programs

VARIABLES
  rollout,  \* in memory
  disk,     \* as last saved
  standing, \* program -> its target is eligible, barred (suspended, moved) or
            \* gone from the targets file
  elapsed,  \* since the newest tick started
  asked,    \* programs running for the check of this tick
  pc,       \* "idle", or "exec" while a check runs without the lock
  soaks,    \* how many soaks have begun
  truth,    \* of the newest soak, whatever its record says: how long ago it
            \* began, how long ago the check answered last was asked for,
            \* whether it passed, and how many answers were failures
  crashes

soakVars == <<rollout, disk, standing, elapsed, asked, pc, soaks, truth, crashes>>

AtMost(n, bound) == IF n > bound THEN bound ELSE n

LongAgo == IF Duration > 2 * Interval THEN Duration ELSE 2 * Interval + 1
Ages == 0 .. LongAgo
Older(age, by) == AtMost(age + by, LongAgo)

\* SoakProgress; id says which soak it is, 0 for none.
NoSoak == [id |-> 0, started |-> LongAgo, checkStarted |-> LongAgo, checked |-> LongAgo,
           streak |-> FALSE, failures |-> 0]

Batches == 1 .. MaxBatches

Init ==
  /\ rollout = [state |-> "Running", open |-> FALSE, nb |-> 0, force |-> FALSE, retry |-> FALSE,
                with |-> {}, soak |-> NoSoak,
                ended |-> [b \in Batches |-> 0], prior |-> [b \in Batches |-> {}]]
  /\ disk = rollout
  /\ standing = [p \in Programs |-> "eligible"]
  /\ elapsed = 0
  /\ asked = {} /\ pc = "idle"
  /\ soaks = 0
  /\ truth = [began |-> LongAgo, asked |-> LongAgo, passing |-> FALSE, failed |-> 0]
  /\ crashes = 0

-----------------------------------------------------------------------------
\* Time and the tick.

Later(ro, by) ==
  [ro EXCEPT !.soak.started = Older(@, by), !.soak.checkStarted = Older(@, by),
             !.soak.checked = Older(@, by)]

\* Outside a soak nothing reads the clock, and the model stops it.
TimePasses ==
  /\ elapsed < LongAgo
  /\ "Soaking" \in {rollout.state, disk.state}
  /\ elapsed' = elapsed + 1
  /\ truth' = [truth EXCEPT !.began = Older(@, 1), !.asked = Older(@, 1)]
  /\ UNCHANGED <<rollout, disk, standing, asked, pc, soaks, crashes>>

\* A tick starts: the rollout as it sees it.
Now == Later(rollout, elapsed)

Ticking ==
  /\ pc = "idle"
  /\ elapsed' = 0
  /\ UNCHANGED <<standing, crashes>>

\* The tick leaves the rollout as ro and saves it.
Decide(ro) ==
  /\ rollout' = ro /\ disk' = ro
  /\ UNCHANGED <<asked, pc, soaks, truth>>

\* The tick has nothing to do for the rollout, or not yet.
Wait ==
  /\ Ticking
  /\ rollout.state # "Soaking"
  /\ rollout' = Now /\ disk' = Later(disk, elapsed)
  /\ UNCHANGED <<asked, pc, soaks, truth>>

-----------------------------------------------------------------------------
\* The batch around the soak.

Eligible == {p \in Programs : standing[p] = "eligible"}

HasSoak(ro) == \E p \in ro.with : standing[p] # "gone"

\* A soak whose times nothing reads any more.
Past(s) == [s EXCEPT !.started = LongAgo, !.checkStarted = LongAgo, !.checked = LongAgo]

\* Mutant of Stopped: the open batch keeps no record of its soak.
StoppedUnkept(ro, state) == [ro EXCEPT !.state = state, !.open = FALSE, !.soak = Past(@)]

\* The open batch ends and keeps the rollout's soak.
Stopped(ro, state) ==
  [ro EXCEPT !.state = state, !.open = FALSE, !.soak = Past(@), !.ended[ro.nb] = ro.soak.id]

StartBatch ==
  /\ Ticking
  /\ rollout.state = "Running" /\ ~rollout.open /\ rollout.nb < MaxBatches
  /\ \E ps \in SUBSET Eligible :
       Decide([Now EXCEPT !.nb = @ + 1, !.open = TRUE, !.with = ps])

\* Every target is ready: the soak begins, or there is none.
BatchReady ==
  /\ Ticking
  /\ rollout.state = "Running" /\ rollout.open
  /\ IF rollout.force \/ ~HasSoak(rollout)
     THEN Decide(Stopped(Now, "Running"))
     ELSE /\ rollout' = [Now EXCEPT !.state = "Soaking",
                                    !.soak = [NoSoak EXCEPT !.id = soaks + 1, !.started = 0]]
          /\ disk' = rollout'
          /\ soaks' = soaks + 1
          /\ truth' = [began |-> 0, asked |-> LongAgo, passing |-> FALSE, failed |-> 0]
          /\ UNCHANGED <<asked, pc>>

\* An update fails or is late.
UpdateFails ==
  /\ Ticking
  /\ rollout.state = "Running" /\ rollout.open
  /\ Decide(Stopped(Now, "Halted"))

\* Mutant of Retried: the attempt the retry replaces is dropped.
RetriedAnew(ro) ==
  [ro EXCEPT !.state = "Running", !.open = TRUE, !.retry = FALSE, !.soak = NoSoak,
             !.ended[ro.nb] = 0]

\* The halted batch reopens, and keeps the attempt so far beside earlier ones.
Retried(ro) ==
  [ro EXCEPT !.state = "Running", !.open = TRUE, !.retry = FALSE, !.soak = NoSoak,
             !.ended[ro.nb] = 0, !.prior[ro.nb] = @ \cup {ro.ended[ro.nb]}]

RetryBatch ==
  /\ Ticking
  /\ rollout.state = "Halted" /\ rollout.retry
  /\ Decide(Retried(Now))

-----------------------------------------------------------------------------
\* The soak.

Due(s) == s.checkStarted >= Interval

\* Mutant of Fresh: a check that was asked for is evidence.
FreshWhenAsked(s) == s.checkStarted <= 2 * Interval

\* The last answer is no older than two intervals.
Fresh(s) == s.checked <= 2 * Interval

Endured(s) == s.streak /\ s.started >= Duration

\* planSoak: forced, or with no program left, the batch passes at once; when
\* a check is due, it passes on recent evidence, or its programs run, without
\* those whose target has become ineligible.
PlanSoak ==
  LET ro == Now
      left == rollout.with \cap Eligible
  IN /\ Ticking
     /\ rollout.state = "Soaking"
     /\ IF ro.force \/ ~HasSoak(ro) \/ (Due(ro.soak) /\ Fresh(ro.soak) /\ Endured(ro.soak))
        THEN Decide(Stopped(ro, "Running"))
        ELSE IF ~Due(ro.soak)
        THEN /\ rollout' = ro /\ disk' = Later(disk, elapsed)
             /\ UNCHANGED <<asked, pc, soaks, truth>>
        ELSE /\ rollout' = [ro EXCEPT !.with = left, !.soak.checkStarted = 0]
             /\ disk' = Later(disk, elapsed)
             /\ asked' = left
             /\ pc' = IF left = {} THEN "idle" ELSE "exec"
             /\ UNCHANGED <<soaks, truth>>

\* Mutant of Answered: only the next tick may pass the batch.
AnsweredLater(ro) ==
  IF ro.force THEN Stopped(ro, "Running")
  ELSE IF ro.soak.failures > FailureLimit THEN Stopped(ro, "Halted")
  ELSE ro

\* Mutant of Answered: one failure more than allowed is tolerated.
AnsweredTolerantly(ro) ==
  IF ro.force THEN Stopped(ro, "Running")
  ELSE IF ro.soak.failures > FailureLimit + 1 THEN Stopped(ro, "Halted")
  ELSE IF Endured(ro.soak) THEN Stopped(ro, "Running")
  ELSE ro

\* What follows from an answer: a forced batch passes, one with too many
\* failures halts, one that has run its time on a passing check passes.
Answered(ro) ==
  IF ro.force THEN Stopped(ro, "Running")
  ELSE IF ro.soak.failures > FailureLimit THEN Stopped(ro, "Halted")
  ELSE IF Endured(ro.soak) THEN Stopped(ro, "Running")
  ELSE ro

\* Mutant of Saved: a soak that goes on is not saved.
SavedWhenOver(ro) == IF ro.state = "Soaking" THEN disk ELSE ro

\* What a rollout is on disk once its check's answer was applied.
Saved(ro) == ro

\* applySoak: the programs in failing did not pass.
ApplySoak ==
  /\ pc = "exec"
  /\ pc' = "idle" /\ asked' = {}
  /\ IF rollout.state # "Soaking" THEN UNCHANGED <<rollout, disk, truth>>
     ELSE \E failing \in SUBSET asked :
            LET ok == failing = {}
            IN /\ rollout' = Answered([rollout EXCEPT
                               !.soak.checked = 0, !.soak.streak = ok,
                               !.soak.failures = IF ok THEN @ ELSE @ + 1])
               /\ disk' = Saved(rollout')
               /\ truth' = [truth EXCEPT !.asked = elapsed, !.passing = ok,
                                         !.failed = IF ok THEN @ ELSE @ + 1]
  /\ UNCHANGED <<standing, elapsed, soaks, crashes>>

-----------------------------------------------------------------------------
\* Beside the tick: each takes the lock and saves the rollout as it is.

Verb(ro) ==
  /\ rollout' = ro /\ disk' = ro
  /\ UNCHANGED <<standing, elapsed, asked, pc, soaks, truth, crashes>>

Sync == rollout.state # "Ended" /\ Verb([rollout EXCEPT !.force = TRUE])

\* A pause or a promote: the soak is saved as it stands.
Pause == rollout.state \in {"Running", "Soaking"} /\ Verb(rollout)

Abort ==
  /\ rollout.state # "Ended"
  /\ Verb(IF rollout.open THEN Stopped(rollout, "Ended") ELSE [rollout EXCEPT !.state = "Ended"])

Retry ==
  /\ rollout.state = "Halted" /\ soaks < MaxSoaks
  /\ Verb([rollout EXCEPT !.retry = TRUE])

\* The targets file or the suspensions change; the model lets them only
\* during a soak.
Change(p) ==
  /\ rollout.state = "Soaking"
  /\ \E how \in {"eligible", "barred", "gone"} : standing' = [standing EXCEPT ![p] = how]
  /\ UNCHANGED <<rollout, disk, elapsed, asked, pc, soaks, truth, crashes>>

\* The process stops, and starts again from what is on disk.
Crash ==
  /\ crashes < MaxCrashes
  /\ crashes' = crashes + 1
  /\ rollout' = disk
  /\ asked' = {} /\ pc' = "idle"
  /\ UNCHANGED <<disk, standing, elapsed, soaks, truth>>

\* The rollout's digests move on; nothing is copied to the batch.
Supersede ==
  /\ Ticking
  /\ rollout.state # "Ended"
  /\ Decide([Now EXCEPT !.state = "Ended"])

-----------------------------------------------------------------------------
Tick == Wait \/ StartBatch \/ BatchReady \/ UpdateFails \/ RetryBatch \/ PlanSoak \/ ApplySoak \/ Supersede

Next == Tick \/ TimePasses \/ Sync \/ Pause \/ Abort \/ Retry \/ (\E p \in Unsteady : Change(p)) \/ Crash

Spec == Init /\ [][Next]_soakVars

\* Ticks go on, a check's programs end (each has a timeout), and time passes.
Fairness == WF_soakVars(PlanSoak) /\ WF_soakVars(ApplySoak) /\ WF_soakVars(TimePasses)

FairSpec == Spec /\ Fairness

-----------------------------------------------------------------------------
\* Properties.

\* A batch nobody forced passes its soak only when it has really lasted the
\* duration, the check answered last passed and was asked for in this tick or
\* at most two intervals ago, and no more checks failed than are allowed:
\* whatever was asked and never answered, however long the process was away
\* (tasks/prd.md:238).
PassedOnEvidence ==
  [][rollout.state = "Soaking" /\ rollout'.state = "Running"
     /\ ~rollout.force /\ (pc = "exec" \/ HasSoak(rollout)) =>
       /\ truth'.began >= Duration
       /\ truth'.passing /\ (pc = "exec" \/ truth.asked <= 2 * Interval)
       /\ truth'.failed <= FailureLimit]_soakVars

\* A soak halts its batch only once more answers were failures than are
\* allowed, and none soaks on after that, over restarts too.
HaltsOnFailures ==
  [][rollout.state = "Soaking" /\ rollout'.state \in {"Soaking", "Halted"} =>
       (rollout'.state = "Halted" <=> truth'.failed > FailureLimit)]_soakVars

\* Every soak that began is on record: on the rollout, with its batch, or among
\* the attempts of the batch that a retry replaced (advance.go:109, "The
\* batch's earlier soak attempts stay on the record").
EverySoakKept ==
  \A i \in 1 .. soaks :
    i = rollout.soak.id \/ \E b \in Batches : i = rollout.ended[b] \/ i \in rollout.prior[b]

\* A soak comes to an end, however its checks answer and however slow the
\* ticks are: it passes, halts, or its rollout ends.
SoakEnds == rollout.state = "Soaking" ~> rollout.state # "Soaking"

====
