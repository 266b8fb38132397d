---- MODULE SoakProofs ----
(***************************************************************************)
(* A batch passes its soak on evidence and halts on failures, for all      *)
(* programs, times, limits, retries and restarts.                          *)
(*                                                                         *)
(* What the record of a running soak says, in memory and on disk, is true: *)
(* SoakInv.  The rest is what a tick does with the record.                 *)
(***************************************************************************)
EXTENDS Soak, TLAPS

States == {"Running", "Soaking", "Halted", "Ended"}

Soaks == [id : Nat, started : Ages, checkStarted : Ages, checked : Ages,
          streak : BOOLEAN, failures : Nat]

Records == [state : States, open : BOOLEAN, nb : Nat, force : BOOLEAN, retry : BOOLEAN,
            with : SUBSET Programs, soak : Soaks,
            ended : [Batches -> Nat], prior : [Batches -> SUBSET Nat]]

Shapes ==
  /\ rollout \in Records /\ disk \in Records
  /\ elapsed \in Ages /\ soaks \in Nat
  /\ asked \subseteq Programs /\ pc \in {"idle", "exec"}
  /\ truth \in [began : Ages, asked : Ages, passing : BOOLEAN, failed : Nat]

\* What a record of a running soak says is true, by the clock of the newest tick.
Truthful(ro, by) ==
  ro.state = "Soaking" =>
    /\ truth.began = Older(ro.soak.started, by)
    /\ truth.asked = Older(ro.soak.checked, by)
    /\ truth.passing = ro.soak.streak
    /\ truth.failed = ro.soak.failures
    /\ ro.soak.failures <= FailureLimit

SoakInv ==
  /\ Shapes
  /\ disk.state = rollout.state
  /\ Truthful(rollout, elapsed) /\ Truthful(disk, elapsed)

-----------------------------------------------------------------------------
\* Ages.

LEMMA AgesLemma ==
  /\ LongAgo \in Nat /\ LongAgo >= Duration /\ LongAgo > 2 * Interval
  /\ 0 \in Ages /\ LongAgo \in Ages
  BY TimesAssumption DEF LongAgo, Ages

LEMMA OlderLemma ==
  ASSUME NEW a \in Ages, NEW by \in Ages
  PROVE  /\ Older(a, by) \in Ages /\ Older(a, by) >= a
         /\ Older(a, 0) = a /\ Older(0, by) = by
         /\ Older(LongAgo, by) = LongAgo
         /\ by < LongAgo => by + 1 \in Ages /\ Older(Older(a, by), 1) = Older(a, by + 1)
  <1>1. LongAgo \in Nat
    BY AgesLemma
  <1> QED
    BY <1>1 DEF Older, AtMost, Ages

\* What each operator does to a rollout.

LEMMA LaterLemma ==
  ASSUME NEW ro \in Records, NEW by \in Ages
  PROVE  /\ Later(ro, by) \in Records
         /\ Later(ro, by).state = ro.state /\ Later(ro, by).force = ro.force
         /\ Later(ro, by).with = ro.with
         /\ Later(ro, by).soak = [ro.soak EXCEPT !.started = Older(@, by),
                                    !.checkStarted = Older(@, by), !.checked = Older(@, by)]
  <1>1. ro.soak \in Soaks
    BY DEF Records
  <1>2. [ro.soak EXCEPT !.started = Older(@, by), !.checkStarted = Older(@, by),
                        !.checked = Older(@, by)] \in Soaks
    BY <1>1, OlderLemma DEF Soaks
  <1>3. Later(ro, by) = [ro EXCEPT !.soak =
          [ro.soak EXCEPT !.started = Older(@, by), !.checkStarted = Older(@, by),
                          !.checked = Older(@, by)]]
    BY <1>1 DEF Later, Records, Soaks
  <1> QED
    BY <1>2, <1>3 DEF Records

LEMMA StoppedLemma ==
  ASSUME NEW ro \in Records, NEW state \in States
  PROVE  Stopped(ro, state) \in Records /\ Stopped(ro, state).state = state
  <1>1. Past(ro.soak) \in Soaks /\ ro.soak.id \in Nat
    BY AgesLemma DEF Past, Soaks, Records
  <1>2. [ro.ended EXCEPT ![ro.nb] = ro.soak.id] \in [Batches -> Nat]
    BY <1>1 DEF Records
  <1> DEFINE past == Past(ro.soak)
             ended == [ro.ended EXCEPT ![ro.nb] = ro.soak.id]
  <1>3. Stopped(ro, state) = [ro EXCEPT !.state = state, !.open = FALSE, !.soak = past, !.ended = ended]
    BY DEF Stopped, Records
  <1> HIDE DEF past, ended
  <1>4. past \in Soaks /\ ended \in [Batches -> Nat]
    BY <1>1, <1>2 DEF past, ended
  <1> QED
    BY <1>3, <1>4 DEF Records

LEMMA RetriedLemma ==
  ASSUME NEW ro \in Records
  PROVE  Retried(ro) \in Records /\ Retried(ro).state = "Running"
  <1>1. NoSoak \in Soaks
    BY AgesLemma DEF NoSoak, Soaks
  <1>2. [ro.ended EXCEPT ![ro.nb] = 0] \in [Batches -> Nat]
    BY DEF Records
  <1>3. [ro.prior EXCEPT ![ro.nb] = @ \cup {ro.ended[ro.nb]}] \in [Batches -> SUBSET Nat]
    <2>1. CASE ro.nb \in Batches
      <3>1. ro.ended[ro.nb] \in Nat /\ ro.prior[ro.nb] \in SUBSET Nat
        BY <2>1 DEF Records
      <3>2. ro.prior[ro.nb] \cup {ro.ended[ro.nb]} \in SUBSET Nat
        BY <3>1
      <3> QED
        BY <3>2 DEF Records
    <2>2. CASE ro.nb \notin Batches
      BY <2>2 DEF Records
    <2> QED
      BY <2>1, <2>2
  <1>4. Retried(ro) = [ro EXCEPT !.state = "Running", !.open = TRUE, !.retry = FALSE,
                          !.soak = NoSoak, !.ended = [ro.ended EXCEPT ![ro.nb] = 0],
                          !.prior = [ro.prior EXCEPT ![ro.nb] = @ \cup {ro.ended[ro.nb]}]]
    BY DEF Retried, Records
  <1> QED
    BY <1>1, <1>2, <1>3, <1>4 DEF Records, States

LEMMA AnsweredLemma ==
  ASSUME NEW ro \in Records, ro.state = "Soaking"
  PROVE  /\ Answered(ro) \in Records
         /\ Answered(ro).state = "Soaking" =>
              Answered(ro) = ro /\ ro.soak.failures <= FailureLimit /\ ~ro.force
         /\ Answered(ro).state = "Halted" => ro.soak.failures > FailureLimit
         /\ Answered(ro).state = "Running" /\ ~ro.force =>
              ro.soak.failures <= FailureLimit /\ Endured(ro.soak)
         /\ ro.soak.failures > FailureLimit /\ ~ro.force => Answered(ro).state = "Halted"
  <1>1. /\ Stopped(ro, "Running") \in Records /\ Stopped(ro, "Running").state = "Running"
        /\ Stopped(ro, "Halted") \in Records /\ Stopped(ro, "Halted").state = "Halted"
    BY StoppedLemma DEF States
  <1>2. ro.soak.failures \in Nat /\ FailureLimit \in Nat
    BY TimesAssumption DEF Records, Soaks
  <1>3. CASE ro.force
    BY <1>1, <1>3 DEF Answered
  <1>4. CASE ~ro.force /\ ro.soak.failures > FailureLimit
    BY <1>1, <1>2, <1>4 DEF Answered
  <1>5. CASE ~ro.force /\ ~(ro.soak.failures > FailureLimit) /\ Endured(ro.soak)
    BY <1>1, <1>2, <1>5 DEF Answered
  <1>6. CASE ~ro.force /\ ~(ro.soak.failures > FailureLimit) /\ ~Endured(ro.soak)
    BY <1>1, <1>2, <1>6 DEF Answered
  <1> QED
    BY <1>3, <1>4, <1>5, <1>6

-----------------------------------------------------------------------------
\* The record a tick works on.

LEMMA LaterIsTrue ==
  ASSUME SoakInv, NEW ro \in {rollout, disk}
  PROVE  LET r == Later(ro, elapsed) IN
         /\ r \in Records
         /\ r.state = ro.state /\ r.force = ro.force /\ r.with = ro.with
         /\ r.state = "Soaking" =>
              /\ truth.began = r.soak.started /\ truth.asked = r.soak.checked
              /\ truth.passing = r.soak.streak /\ truth.failed = r.soak.failures
              /\ r.soak.failures <= FailureLimit
         /\ Truthful(r, 0)
  <1> DEFINE r == Later(ro, elapsed)
  <1>1. ro \in Records /\ elapsed \in Ages /\ Truthful(ro, elapsed)
    BY DEF SoakInv, Shapes
  <1>2. /\ r \in Records
        /\ r.state = ro.state /\ r.force = ro.force /\ r.with = ro.with
        /\ r.soak = [ro.soak EXCEPT !.started = Older(@, elapsed),
                        !.checkStarted = Older(@, elapsed), !.checked = Older(@, elapsed)]
    BY <1>1, LaterLemma
  <1>3. ro.soak \in Soaks /\ r.soak \in Soaks
    BY <1>1, <1>2 DEF Records
  <1>4. /\ r.soak.started = Older(ro.soak.started, elapsed)
        /\ r.soak.checked = Older(ro.soak.checked, elapsed)
        /\ r.soak.streak = ro.soak.streak /\ r.soak.failures = ro.soak.failures
    BY <1>2, <1>3 DEF Soaks
  <1> HIDE DEF r
  <1>5. r.state = "Soaking" =>
          /\ truth.began = r.soak.started /\ truth.asked = r.soak.checked
          /\ truth.passing = r.soak.streak /\ truth.failed = r.soak.failures
          /\ r.soak.failures <= FailureLimit
    BY <1>1, <1>2, <1>4 DEF Truthful
  <1>6. Older(r.soak.started, 0) = r.soak.started /\ Older(r.soak.checked, 0) = r.soak.checked
    BY <1>3, OlderLemma, AgesLemma DEF Soaks
  <1>7. Truthful(r, 0)
    BY <1>5, <1>6 DEF Truthful
  <1> QED
    BY <1>2, <1>5, <1>7 DEF r

\* What PassedOnEvidence and HaltsOnFailures say of one step.
Evidence ==
  rollout.state = "Soaking" /\ rollout'.state = "Running"
     /\ ~rollout.force /\ (pc = "exec" \/ HasSoak(rollout)) =>
       /\ truth'.began >= Duration
       /\ truth'.passing /\ (pc = "exec" \/ truth.asked <= 2 * Interval)
       /\ truth'.failed <= FailureLimit

Halts ==
  rollout.state = "Soaking" /\ rollout'.state \in {"Soaking", "Halted"} =>
       (rollout'.state = "Halted" <=> truth'.failed > FailureLimit)

Good == SoakInv' /\ Evidence /\ Halts

\* A step after which memory and disk agree on a rollout that does not soak.
LEMMA Settled ==
  ASSUME SoakInv, NEW ro \in Records, rollout' = ro, disk' = ro, ro.state # "Soaking",
         elapsed' \in Ages, soaks' \in Nat, asked' \subseteq Programs, pc' \in {"idle", "exec"},
         truth' \in [began : Ages, asked : Ages, passing : BOOLEAN, failed : Nat]
  PROVE  SoakInv'
  BY DEF SoakInv, Shapes, Truthful

LEMMA InitLemma == Init => SoakInv
  <1> SUFFICES ASSUME Init PROVE SoakInv
    OBVIOUS
  <1>1. NoSoak \in Soaks
    BY AgesLemma DEF NoSoak, Soaks
  <1>2. rollout \in Records /\ rollout.state = "Running"
    BY <1>1 DEF Init, Records, States
  <1>3. /\ elapsed \in Ages /\ soaks \in Nat /\ asked \subseteq Programs /\ pc \in {"idle", "exec"}
        /\ truth \in [began : Ages, asked : Ages, passing : BOOLEAN, failed : Nat]
        /\ disk = rollout
    BY AgesLemma DEF Init
  <1> QED
    BY <1>2, <1>3 DEF SoakInv, Shapes, Truthful

\* The clock.
LEMMA TimePassesLemma == ASSUME SoakInv, TimePasses PROVE Good
  <1> DEFINE by == elapsed + 1
  <1>1. /\ elapsed < LongAgo /\ elapsed' = by
        /\ truth' = [truth EXCEPT !.began = Older(@, 1), !.asked = Older(@, 1)]
        /\ rollout' = rollout /\ disk' = disk /\ asked' = asked /\ pc' = pc /\ soaks' = soaks
    BY DEF TimePasses
  <1>2. elapsed \in Ages /\ by \in Ages /\ 1 \in Ages
    BY <1>1, AgesLemma DEF SoakInv, Shapes, Ages
  <1>3. truth' \in [began : Ages, asked : Ages, passing : BOOLEAN, failed : Nat]
    BY <1>1, <1>2, OlderLemma DEF SoakInv, Shapes
  <1>4. /\ truth'.began = Older(truth.began, 1) /\ truth'.asked = Older(truth.asked, 1)
        /\ truth'.passing = truth.passing /\ truth'.failed = truth.failed
    BY <1>1 DEF SoakInv, Shapes
  <1>5. ASSUME NEW ro \in Records, Truthful(ro, elapsed), ro.state = "Soaking"
        PROVE  /\ truth'.began = Older(ro.soak.started, by) /\ truth'.asked = Older(ro.soak.checked, by)
               /\ truth'.passing = ro.soak.streak /\ truth'.failed = ro.soak.failures
               /\ ro.soak.failures <= FailureLimit
    <2>1. ro.soak.started \in Ages /\ ro.soak.checked \in Ages
      BY DEF Records, Soaks
    <2>2. /\ Older(Older(ro.soak.started, elapsed), 1) = Older(ro.soak.started, by)
          /\ Older(Older(ro.soak.checked, elapsed), 1) = Older(ro.soak.checked, by)
      BY <2>1, <1>1, <1>2, OlderLemma
    <2> QED
      BY <2>2, <1>4, <1>5 DEF Truthful
  <1>6. rollout \in Records /\ disk \in Records /\ Truthful(rollout, elapsed) /\ Truthful(disk, elapsed)
    BY DEF SoakInv, Shapes
  <1>7. Truthful(rollout, elapsed)' /\ Truthful(disk, elapsed)'
    BY <1>1, <1>5, <1>6 DEF Truthful
  <1>8. SoakInv'
    BY <1>1, <1>2, <1>3, <1>7 DEF SoakInv, Shapes
  <1>9. Evidence
    BY <1>1 DEF Evidence
  <1>10. Halts
    <2>1. CASE rollout.state = "Soaking"
      <3>1. truth'.failed <= FailureLimit /\ truth'.failed \in Nat /\ FailureLimit \in Nat
        BY <2>1, <1>5, <1>6, TimesAssumption DEF Records, Soaks
      <3> QED
        BY <2>1, <3>1, <1>1 DEF Halts
    <2> QED
      BY <2>1 DEF Halts
  <1> QED
    BY <1>8, <1>9, <1>10 DEF Good

\* What every tick has of the two records.
LEMMA TickingLemma ==
  ASSUME SoakInv
  PROVE  /\ rollout \in Records /\ disk \in Records /\ disk.state = rollout.state
         /\ Now \in Records /\ Now.state = rollout.state /\ Now.force = rollout.force
         /\ Now.with = rollout.with
         /\ Later(disk, elapsed) \in Records /\ Later(disk, elapsed).state = rollout.state
         /\ Truthful(Now, 0) /\ Truthful(Later(disk, elapsed), 0)
         /\ elapsed \in Ages /\ soaks \in Nat /\ asked \subseteq Programs /\ pc \in {"idle", "exec"}
         /\ truth \in [began : Ages, asked : Ages, passing : BOOLEAN, failed : Nat]
  BY LaterIsTrue DEF SoakInv, Shapes, Now

\* A tick that finds no soak and decides on a rollout that does not soak.
LEMMA DecideLemma ==
  ASSUME SoakInv, Ticking, rollout.state # "Soaking",
         NEW ro \in Records, Decide(ro), ro.state # "Soaking"
  PROVE  Good
  <1>1. /\ rollout' = ro /\ disk' = ro /\ elapsed' = 0
        /\ asked' = asked /\ pc' = pc /\ soaks' = soaks /\ truth' = truth
    BY DEF Ticking, Decide
  <1>2. SoakInv'
    BY <1>1, Settled, TickingLemma, AgesLemma
  <1> QED
    BY <1>2 DEF Good, Evidence, Halts

LEMMA WaitLemma == ASSUME SoakInv, Wait PROVE Good
  <1>1. /\ rollout' = Now /\ disk' = Later(disk, elapsed) /\ elapsed' = 0
        /\ asked' = asked /\ pc' = pc /\ soaks' = soaks /\ truth' = truth
        /\ rollout.state # "Soaking"
    BY DEF Wait, Ticking
  <1>2. SoakInv'
    BY <1>1, TickingLemma, AgesLemma DEF SoakInv, Shapes, Truthful
  <1> QED
    BY <1>1, <1>2 DEF Good, Evidence, Halts

LEMMA StartBatchLemma == ASSUME SoakInv, StartBatch PROVE Good
  <1>1. PICK ps \in SUBSET Eligible :
          Decide([Now EXCEPT !.nb = @ + 1, !.open = TRUE, !.with = ps])
    BY DEF StartBatch
  <1> DEFINE ro == [Now EXCEPT !.nb = @ + 1, !.open = TRUE, !.with = ps]
  <1>2. ro \in Records /\ ro.state = "Running"
    <2>1. Now \in Records /\ Now.state = "Running"
      BY TickingLemma DEF StartBatch
    <2>2. ps \in SUBSET Programs /\ Now.nb + 1 \in Nat
      BY <2>1 DEF Eligible, Records
    <2> QED
      BY <2>1, <2>2 DEF Records
  <1>3. Ticking /\ rollout.state # "Soaking"
    BY DEF StartBatch
  <1> QED
    BY <1>1, <1>2, <1>3, DecideLemma

LEMMA UpdateFailsLemma == ASSUME SoakInv, UpdateFails PROVE Good
  <1>1. Stopped(Now, "Halted") \in Records /\ Stopped(Now, "Halted").state = "Halted"
    BY TickingLemma, StoppedLemma DEF States
  <1> QED
    BY <1>1, DecideLemma DEF UpdateFails

LEMMA RetryBatchLemma == ASSUME SoakInv, RetryBatch PROVE Good
  <1>1. Retried(Now) \in Records /\ Retried(Now).state = "Running"
    BY TickingLemma, RetriedLemma
  <1> QED
    BY <1>1, DecideLemma DEF RetryBatch

\* A soak begins with a true record.
LEMMA BatchReadyLemma == ASSUME SoakInv, BatchReady PROVE Good
  <1>1. Ticking /\ rollout.state = "Running"
    BY DEF BatchReady
  <1>2. CASE rollout.force \/ ~HasSoak(rollout)
    <2>1. Stopped(Now, "Running") \in Records /\ Stopped(Now, "Running").state = "Running"
      BY TickingLemma, StoppedLemma DEF States
    <2> QED
      BY <1>1, <1>2, <2>1, DecideLemma DEF BatchReady
  <1>3. CASE ~(rollout.force \/ ~HasSoak(rollout))
    <2> DEFINE new == [NoSoak EXCEPT !.id = soaks + 1, !.started = 0]
               ro == [Now EXCEPT !.state = "Soaking", !.soak = new]
               tr == [began |-> 0, asked |-> LongAgo, passing |-> FALSE, failed |-> 0]
    <2>1. /\ rollout' = ro /\ disk' = ro /\ soaks' = soaks + 1 /\ truth' = tr
          /\ asked' = asked /\ pc' = pc /\ elapsed' = 0
      BY <1>3 DEF BatchReady, Ticking
    <2>2. /\ new \in Soaks /\ new.started = 0 /\ new.checked = LongAgo
          /\ new.streak = FALSE /\ new.failures = 0
      <3>1. soaks + 1 \in Nat
        BY TickingLemma
      <3>2. NoSoak \in Soaks
        BY AgesLemma DEF NoSoak, Soaks
      <3>3. new \in Soaks
        BY <3>1, <3>2, AgesLemma DEF Soaks
      <3> QED
        BY <3>2, <3>3 DEF NoSoak, Soaks
    <2>3. ro \in Records /\ ro.state = "Soaking" /\ ro.soak = new
      BY <2>2, TickingLemma DEF Records, States
    <2>4. /\ tr \in [began : Ages, asked : Ages, passing : BOOLEAN, failed : Nat]
          /\ Older(0, 0) = 0 /\ Older(LongAgo, 0) = LongAgo /\ 0 \in Ages
      BY AgesLemma, OlderLemma
    <2> HIDE DEF new, ro
    <2>5. Truthful(rollout, elapsed)' /\ Truthful(disk, elapsed)'
      <3>1. /\ truth'.began = Older(ro.soak.started, 0) /\ truth'.asked = Older(ro.soak.checked, 0)
            /\ truth'.failed = ro.soak.failures /\ ro.soak.failures <= FailureLimit
        BY <2>1, <2>2, <2>3, <2>4, TimesAssumption
      <3>2. truth'.passing = FALSE /\ ro.soak.streak = FALSE
        BY <2>1, <2>2, <2>3
      <3> QED
        BY <2>1, <3>1, <3>2 DEF Truthful
    <2>6. SoakInv'
      BY <2>1, <2>3, <2>4, <2>5, TickingLemma DEF SoakInv, Shapes
    <2> QED
      BY <1>1, <2>6 DEF Good, Evidence, Halts
  <1> QED
    BY <1>2, <1>3

LEMMA SupersedeLemma == ASSUME SoakInv, Supersede PROVE Good
  <1> DEFINE ro == [Now EXCEPT !.state = "Ended"]
  <1>1. ro \in Records /\ ro.state = "Ended"
    BY TickingLemma DEF Records, States
  <1>2. /\ rollout' = ro /\ disk' = ro /\ elapsed' = 0
        /\ asked' = asked /\ pc' = pc /\ soaks' = soaks /\ truth' = truth
    BY DEF Supersede, Ticking, Decide
  <1> HIDE DEF ro
  <1>3. SoakInv'
    BY <1>1, <1>2, Settled, TickingLemma, AgesLemma
  <1> QED
    BY <1>1, <1>2, <1>3 DEF Good, Evidence, Halts

-----------------------------------------------------------------------------
\* The soak.

LEMMA PlanSoakLemma == ASSUME SoakInv, PlanSoak PROVE Good
  <1> DEFINE ro == Now
             left == rollout.with \cap Eligible
             pass == ro.force \/ ~HasSoak(ro) \/ (Due(ro.soak) /\ Fresh(ro.soak) /\ Endured(ro.soak))
  <1>1. /\ pc = "idle" /\ elapsed' = 0 /\ rollout.state = "Soaking"
        /\ pass => Decide(Stopped(ro, "Running"))
        /\ ~pass /\ ~Due(ro.soak) =>
             /\ rollout' = ro /\ disk' = Later(disk, elapsed)
             /\ asked' = asked /\ pc' = pc /\ soaks' = soaks /\ truth' = truth
        /\ ~pass /\ Due(ro.soak) =>
             /\ rollout' = [ro EXCEPT !.with = left, !.soak.checkStarted = 0]
             /\ disk' = Later(disk, elapsed) /\ asked' = left
             /\ pc' \in {"idle", "exec"} /\ soaks' = soaks /\ truth' = truth
    BY DEF PlanSoak, Ticking
  <1>2. /\ ro \in Records /\ ro.state = "Soaking" /\ ro.force = rollout.force /\ ro.with = rollout.with
        /\ Truthful(ro, 0) /\ Truthful(Later(disk, elapsed), 0)
        /\ Later(disk, elapsed) \in Records /\ Later(disk, elapsed).state = "Soaking"
        /\ truth \in [began : Ages, asked : Ages, passing : BOOLEAN, failed : Nat]
        /\ soaks \in Nat /\ asked \subseteq Programs /\ 0 \in Ages
    BY <1>1, TickingLemma, AgesLemma
  <1>3. /\ truth.began = ro.soak.started /\ truth.asked = ro.soak.checked
        /\ truth.passing = ro.soak.streak /\ truth.failed = ro.soak.failures
        /\ ro.soak.failures <= FailureLimit
    BY <1>2, LaterIsTrue DEF Now
  <1>4. CASE pass
    <2>1. Stopped(ro, "Running") \in Records /\ Stopped(ro, "Running").state = "Running"
      BY <1>2, StoppedLemma DEF States
    <2>2. /\ rollout' = Stopped(ro, "Running") /\ disk' = rollout'
          /\ asked' = asked /\ pc' = pc /\ soaks' = soaks /\ truth' = truth
      BY <1>1, <1>4 DEF Decide
    <2>3. SoakInv'
      BY <2>1, <2>2, <1>1, <1>2, Settled
    <2>4. ASSUME ~rollout.force, HasSoak(rollout)
          PROVE  Endured(ro.soak) /\ Fresh(ro.soak)
      BY <1>2, <1>4, <2>4 DEF HasSoak
    <2>5. Evidence
      BY <1>1, <1>3, <2>2, <2>4 DEF Evidence, Endured, Fresh
    <2>6. Halts
      BY <2>1, <2>2 DEF Halts
    <2> QED
      BY <2>3, <2>5, <2>6 DEF Good
  <1>5. ASSUME ~pass,
               NEW new \in Records, new.state = "Soaking", Truthful(new, 0), rollout' = new,
               disk' = Later(disk, elapsed), asked' \subseteq Programs,
               pc' \in {"idle", "exec"}, soaks' = soaks, truth' = truth
        PROVE  Good
    <2>1. SoakInv'
      BY <1>1, <1>2, <1>5 DEF SoakInv, Shapes, Truthful
    <2>2. Evidence
      BY <1>5 DEF Evidence
    <2>3. truth.failed \in Nat /\ truth.failed <= FailureLimit /\ FailureLimit \in Nat
      BY <1>2, <1>3, TimesAssumption
    <2>4. Halts
      BY <1>5, <2>3 DEF Halts
    <2> QED
      BY <2>1, <2>2, <2>4 DEF Good
  <1>6. CASE ~pass /\ ~Due(ro.soak)
    <2>1. /\ rollout' = ro /\ disk' = Later(disk, elapsed)
          /\ asked' \subseteq Programs /\ pc' \in {"idle", "exec"} /\ soaks' = soaks /\ truth' = truth
      BY <1>1, <1>2, <1>6
    <2> HIDE DEF ro, pass
    <2> QED
      BY <1>2, <1>5, <1>6, <2>1
  <1>7. CASE ~pass /\ Due(ro.soak)
    <2> DEFINE new == [ro EXCEPT !.with = left, !.soak.checkStarted = 0]
               sk == [ro.soak EXCEPT !.checkStarted = 0]
    <2>1. sk \in Soaks /\ ro.soak \in Soaks /\ left \in SUBSET Programs
      BY <1>2, AgesLemma DEF Records, Soaks, Eligible
    <2>2. /\ sk.started = ro.soak.started /\ sk.checked = ro.soak.checked
          /\ sk.streak = ro.soak.streak /\ sk.failures = ro.soak.failures
      BY <2>1 DEF Soaks
    <2>3. new = [ro EXCEPT !.with = left, !.soak = sk]
      BY <1>2 DEF Records
    <2>4. /\ rollout' = new /\ disk' = Later(disk, elapsed) /\ asked' = left
          /\ pc' \in {"idle", "exec"} /\ soaks' = soaks /\ truth' = truth
      BY <1>1, <1>7
    <2> HIDE DEF ro, pass, new, sk, left
    <2>5. new \in Records /\ new.state = "Soaking" /\ new.soak = sk
      BY <1>2, <2>1, <2>3 DEF Records
    <2>6. Truthful(new, 0)
      BY <1>2, <2>2, <2>5 DEF Truthful
    <2> QED
      BY <1>5, <1>7, <2>1, <2>4, <2>5, <2>6
  <1> QED
    BY <1>4, <1>6, <1>7

\* An answer.
LEMMA ApplySoakLemma == ASSUME SoakInv, ApplySoak PROVE Good
  <1>1. /\ pc = "exec" /\ pc' = "idle" /\ asked' = {} /\ elapsed' = elapsed /\ soaks' = soaks
    BY DEF ApplySoak
  <1>2. /\ rollout \in Records /\ elapsed \in Ages /\ soaks \in Nat
        /\ truth \in [began : Ages, asked : Ages, passing : BOOLEAN, failed : Nat]
        /\ Truthful(rollout, elapsed)
    BY DEF SoakInv, Shapes
  <1>3. CASE rollout.state # "Soaking"
    <2>1. rollout' = rollout /\ disk' = disk /\ truth' = truth
      BY <1>3 DEF ApplySoak
    <2>2. SoakInv'
      BY <1>1, <2>1 DEF SoakInv, Shapes, Truthful
    <2> QED
      BY <1>3, <2>2 DEF Good, Evidence, Halts
  <1>4. CASE rollout.state = "Soaking"
    <2>1. PICK failing \in SUBSET asked :
            LET ok == failing = {}
            IN /\ rollout' = Answered([rollout EXCEPT
                               !.soak.checked = 0, !.soak.streak = ok,
                               !.soak.failures = IF ok THEN @ ELSE @ + 1])
               /\ disk' = Saved(rollout')
               /\ truth' = [truth EXCEPT !.asked = elapsed, !.passing = ok,
                                         !.failed = IF ok THEN @ ELSE @ + 1]
      BY <1>4 DEF ApplySoak
    <2> DEFINE ok == failing = {}
               more == IF ok THEN rollout.soak.failures ELSE rollout.soak.failures + 1
               sk == [rollout.soak EXCEPT !.checked = 0, !.streak = ok, !.failures = more]
               ro == [rollout EXCEPT !.soak = sk]
    <2>2. rollout.soak \in Soaks /\ more \in Nat
      BY <1>2 DEF Records, Soaks
    <2>3. [rollout EXCEPT !.soak.checked = 0, !.soak.streak = ok,
                          !.soak.failures = IF ok THEN @ ELSE @ + 1] = ro
      BY <1>2, <2>2 DEF Records, Soaks
    <2>4. /\ rollout' = Answered(ro) /\ disk' = rollout'
          /\ truth'.asked = elapsed /\ truth'.passing = ok /\ truth'.began = truth.began
          /\ truth' \in [began : Ages, asked : Ages, passing : BOOLEAN, failed : Nat]
      <3>1. rollout' = Answered(ro) /\ disk' = rollout'
        BY <2>1, <2>3 DEF Saved
      <3>2. truth' = [truth EXCEPT !.asked = elapsed, !.passing = ok,
                                   !.failed = IF ok THEN @ ELSE @ + 1]
        BY <2>1
      <3>3. ok \in BOOLEAN /\ (IF ok THEN truth.failed ELSE truth.failed + 1) \in Nat
        BY <1>2
      <3> HIDE DEF ok
      <3> QED
        BY <3>1, <3>2, <3>3, <1>2
    <2>5. truth'.failed = more
      BY <2>1, <1>2, <1>4 DEF Truthful
    <2>6. /\ sk \in Soaks /\ sk.checked = 0 /\ sk.streak = ok /\ sk.failures = more
          /\ sk.started = rollout.soak.started
      BY <2>2, AgesLemma DEF Soaks
    <2> HIDE DEF sk, more, ok
    <2>7. ro \in Records /\ ro.state = "Soaking" /\ ro.force = rollout.force /\ ro.soak = sk
      BY <1>2, <1>4, <2>6 DEF Records
    <2> HIDE DEF ro
    <2>8. /\ truth'.began = Older(sk.started, elapsed) /\ truth'.asked = Older(sk.checked, elapsed)
          /\ truth'.passing = sk.streak /\ truth'.failed = sk.failures
      BY <1>2, <1>4, <2>4, <2>5, <2>6, OlderLemma DEF Truthful
    <2>9. /\ rollout' \in Records
          /\ rollout'.state = "Soaking" =>
               rollout' = ro /\ sk.failures <= FailureLimit /\ ~ro.force
          /\ rollout'.state = "Halted" => sk.failures > FailureLimit
          /\ rollout'.state = "Running" /\ ~rollout.force =>
               sk.failures <= FailureLimit /\ Endured(sk)
      BY <2>4, <2>7, AnsweredLemma
    <2>10. SoakInv'
      <3>1. Truthful(rollout, elapsed)' /\ Truthful(disk, elapsed)'
        BY <1>1, <2>4, <2>7, <2>8, <2>9 DEF Truthful
      <3> QED
        BY <3>1, <1>1, <1>2, <2>4, <2>9 DEF SoakInv, Shapes
    <2>11. Evidence
      <3> SUFFICES ASSUME rollout'.state = "Running", ~rollout.force
                   PROVE  truth'.began >= Duration /\ truth'.passing /\ truth'.failed <= FailureLimit
        BY <1>1 DEF Evidence
      <3>1. sk.failures <= FailureLimit /\ sk.streak /\ sk.started >= Duration
        BY <2>9 DEF Endured
      <3>2. Older(sk.started, elapsed) >= sk.started /\ Older(sk.started, elapsed) \in Nat /\ sk.started \in Nat
        <4>1. sk.started \in Ages
          BY <2>6 DEF Soaks
        <4>2. Older(sk.started, elapsed) >= sk.started /\ Older(sk.started, elapsed) \in Ages
          BY <4>1, <1>2, OlderLemma
        <4> QED
          BY <4>1, <4>2, AgesLemma DEF Ages
      <3>3. truth'.began >= Duration
        BY <3>1, <3>2, <2>8, TimesAssumption
      <3> QED
        BY <3>1, <3>3, <2>8
    <2>12. Halts
      <3>1. sk.failures \in Nat /\ FailureLimit \in Nat
        BY <2>6, TimesAssumption DEF Soaks
      <3> QED
        BY <2>8, <2>9, <3>1 DEF Halts
    <2> QED
      BY <2>10, <2>11, <2>12, SMTT(30) DEF Good
  <1> QED
    BY <1>3, <1>4

-----------------------------------------------------------------------------
\* Beside the tick.

\* A verb that does not touch the soak, or ends it, keeps the record true.
LEMMA VerbLemma ==
  ASSUME SoakInv, NEW ro \in Records, Verb(ro),
         \/ ro.state = rollout.state /\ ro.soak = rollout.soak
         \/ ro.state = "Ended"
  PROVE  Good
  <1>1. /\ rollout' = ro /\ disk' = ro /\ elapsed' = elapsed
        /\ asked' = asked /\ pc' = pc /\ soaks' = soaks /\ truth' = truth
    BY DEF Verb
  <1>2. SoakInv'
    BY <1>1 DEF SoakInv, Shapes, Truthful
  <1>3. Evidence
    BY <1>1 DEF Evidence
  <1>4. Halts
    <2>1. CASE rollout.state = "Soaking" /\ ro.state = "Soaking"
      <3>1. truth.failed \in Nat /\ truth.failed <= FailureLimit /\ FailureLimit \in Nat
        BY <2>1, TimesAssumption DEF SoakInv, Shapes, Truthful
      <3> QED
        BY <1>1, <2>1, <3>1 DEF Halts
    <2> QED
      BY <1>1, <2>1 DEF Halts
  <1> QED
    BY <1>2, <1>3, <1>4 DEF Good

LEMMA VerbsLemma == ASSUME SoakInv, Sync \/ Pause \/ Abort \/ Retry PROVE Good
  <1> rollout \in Records
    BY DEF SoakInv, Shapes
  <1>1. CASE Sync
    <2>1. [rollout EXCEPT !.force = TRUE] \in Records
      BY DEF Records
    <2> QED
      BY <1>1, <2>1, VerbLemma DEF Sync, Records
  <1>2. CASE Pause
    BY <1>2, VerbLemma DEF Pause
  <1>3. CASE Abort
    <2> DEFINE ro == IF rollout.open THEN Stopped(rollout, "Ended") ELSE [rollout EXCEPT !.state = "Ended"]
    <2>1. Stopped(rollout, "Ended") \in Records /\ Stopped(rollout, "Ended").state = "Ended"
      BY StoppedLemma DEF States
    <2>2. ro \in Records /\ ro.state = "Ended"
      BY <2>1 DEF Records, States
    <2>3. Verb(ro)
      BY <1>3 DEF Abort
    <2> HIDE DEF ro
    <2> QED
      BY <2>2, <2>3, VerbLemma
  <1>4. CASE Retry
    <2>1. [rollout EXCEPT !.retry = TRUE] \in Records
      BY DEF Records
    <2> QED
      BY <1>4, <2>1, VerbLemma DEF Retry, Records
  <1> QED
    BY <1>1, <1>2, <1>3, <1>4

\* What changes no record: a target, or nothing.
LEMMA UnchangedLemma ==
  ASSUME SoakInv, UNCHANGED <<rollout, disk, elapsed, asked, pc, soaks, truth>>
  PROVE  Good
  <1>1. SoakInv'
    BY DEF SoakInv, Shapes, Truthful
  <1>2. Evidence
    BY DEF Evidence
  <1>3. CASE rollout.state = "Soaking"
    <2>1. truth.failed \in Nat /\ truth.failed <= FailureLimit /\ FailureLimit \in Nat
      BY <1>3, TimesAssumption DEF SoakInv, Shapes, Truthful
    <2> QED
      BY <1>1, <1>2, <1>3, <2>1 DEF Good, Halts
  <1> QED
    BY <1>1, <1>2, <1>3 DEF Good, Halts

\* A restart finds a record that is as true, if of an older check.
LEMMA CrashLemma == ASSUME SoakInv, Crash PROVE Good
  <1>1. /\ rollout' = disk /\ disk' = disk /\ elapsed' = elapsed /\ asked' = {} /\ pc' = "idle"
        /\ soaks' = soaks /\ truth' = truth
    BY DEF Crash
  <1>2. SoakInv'
    BY <1>1 DEF SoakInv, Shapes, Truthful
  <1>3. disk.state = rollout.state
    BY DEF SoakInv
  <1>4. CASE rollout.state = "Soaking"
    <2>1. truth.failed \in Nat /\ truth.failed <= FailureLimit /\ FailureLimit \in Nat
      BY <1>4, TimesAssumption DEF SoakInv, Shapes, Truthful
    <2> QED
      BY <1>1, <1>2, <1>3, <1>4, <2>1 DEF Good, Evidence, Halts
  <1> QED
    BY <1>1, <1>2, <1>3, <1>4 DEF Good, Evidence, Halts

LEMMA StepLemma == ASSUME SoakInv, [Next]_soakVars PROVE Good
  <1>1. CASE Tick
    BY <1>1, WaitLemma, StartBatchLemma, BatchReadyLemma, UpdateFailsLemma, RetryBatchLemma,
       PlanSoakLemma, ApplySoakLemma, SupersedeLemma DEF Tick
  <1>2. CASE \E p \in Unsteady : Change(p)
    BY <1>2, UnchangedLemma DEF Change
  <1>3. CASE UNCHANGED soakVars
    BY <1>3, UnchangedLemma DEF soakVars
  <1> QED
    BY <1>1, <1>2, <1>3, TimePassesLemma, VerbsLemma, CrashLemma DEF Next

-----------------------------------------------------------------------------
\* A batch nobody forced passes its soak only after the duration, on a check
\* that passed and is recent, with no more failures than are allowed
\* (planSoak, applySoak): for every number of programs, batches, retries and
\* restarts, and whatever was asked and never answered.
THEOREM PassesOnEvidence == Spec => PassedOnEvidence
  <1>1. SoakInv /\ [Next]_soakVars => SoakInv' /\ Evidence
    BY StepLemma DEF Good
  <1> QED
    BY <1>1, InitLemma, PTL DEF Spec, PassedOnEvidence, Evidence

\* A soak halts exactly when more checks failed than are allowed (applySoak),
\* although its record comes back from disk at every restart.
THEOREM HaltsWhenFailed == Spec => HaltsOnFailures
  <1>1. SoakInv /\ [Next]_soakVars => SoakInv' /\ Halts
    BY StepLemma DEF Good
  <1> QED
    BY <1>1, InitLemma, PTL DEF Spec, HaltsOnFailures, Halts

\* What the record of a running soak says is true, in memory and on disk.
THEOREM RecordsTrue == Spec => []SoakInv
  <1>1. SoakInv /\ [Next]_soakVars => SoakInv'
    BY StepLemma DEF Good
  <1> QED
    BY <1>1, InitLemma, PTL DEF Spec

-----------------------------------------------------------------------------
\* Every attempt stays on record.

\* What a restart finds of a rollout's batches and attempts.
Alike(a, b) ==
  /\ a.state = b.state /\ a.open = b.open /\ a.nb = b.nb
  /\ a.soak.id = b.soak.id /\ a.ended = b.ended /\ a.prior = b.prior

Filed(ro, i) == \E b \in Batches : i = ro.ended[b] \/ i \in ro.prior[b]

\* None of the first n soaks is lost.  A batch that is open, or comes, has none
\* in its place yet, and the next soak replaces one that was filed.
Whole(ro, n) ==
  /\ ro.nb \in 0 .. MaxBatches
  /\ ro.state = "Soaking" => ro.open
  /\ ro.open \/ ro.state = "Halted" => ro.nb \in Batches
  /\ ro.open => ro.ended[ro.nb] = 0
  /\ \A b \in Batches : b > ro.nb => ro.ended[b] = 0
  /\ ro.state \in {"Running", "Halted"} => ro.soak.id = 0 \/ Filed(ro, ro.soak.id)
  /\ \A i \in 1 .. n : i = ro.soak.id \/ Filed(ro, i)

KeptInv == Alike(disk, rollout) /\ Whole(rollout, soaks)

LEMMA WholeAlike ==
  ASSUME NEW a, NEW b, NEW n, Alike(b, a), Whole(a, n)
  PROVE  Whole(b, n)
  BY DEF Alike, Whole, Filed

LEMMA LaterAlike ==
  ASSUME NEW ro \in Records, NEW by
  PROVE  Alike(Later(ro, by), ro)
  BY DEF Alike, Later, Records, Soaks

\* The batch that stops files its soak.
LEMMA StoppedWhole ==
  ASSUME NEW ro \in Records, NEW state, NEW n \in Nat, Whole(ro, n), ro.open,
         state \in {"Running", "Halted", "Ended"}
  PROVE  Whole(Stopped(ro, state), n)
  <1> DEFINE new == Stopped(ro, state)
  <1>1. ro.soak \in Soaks /\ ro.ended \in [Batches -> Nat] /\ ro.nb \in Batches /\ ro.ended[ro.nb] = 0
    BY DEF Records, Whole
  <1>2. Past(ro.soak).id = ro.soak.id
    BY <1>1 DEF Past, Soaks
  <1>3. /\ new.state = state /\ new.open = FALSE /\ new.nb = ro.nb /\ new.prior = ro.prior
        /\ new.soak.id = ro.soak.id /\ new.ended = [ro.ended EXCEPT ![ro.nb] = ro.soak.id]
    BY <1>2 DEF Stopped, Records
  <1> HIDE DEF new
  <1>4. \A b \in Batches : new.ended[b] = IF b = ro.nb THEN ro.soak.id ELSE ro.ended[b]
    BY <1>1, <1>3
  <1>5. Filed(new, ro.soak.id)
    BY <1>1, <1>4 DEF Filed
  <1>6. ASSUME NEW i \in 1 .. n PROVE i = new.soak.id \/ Filed(new, i)
    <2>1. i # 0
      OBVIOUS
    <2>2. i = ro.soak.id \/ Filed(ro, i)
      BY DEF Whole
    <2>3. ASSUME Filed(ro, i) PROVE Filed(new, i)
      BY <1>1, <1>3, <1>4, <2>1, <2>3 DEF Filed
    <2> QED
      BY <1>3, <2>2, <2>3
  <1>7. \A b \in Batches : b > new.nb => new.ended[b] = 0
    <2>1. \A b \in Batches : b > ro.nb => b # ro.nb
      BY <1>1 DEF Batches
    <2> QED
      BY <1>3, <1>4, <2>1 DEF Whole
  <1>8. /\ new.nb \in 0 .. MaxBatches /\ new.nb \in Batches
        /\ new.state # "Soaking" /\ ~new.open
        /\ Filed(new, new.soak.id)
    BY <1>1, <1>3, <1>5 DEF Whole
  <1> QED
    BY <1>6, <1>7, <1>8 DEF Whole, new

\* A retry puts what the batch filed among its attempts.
LEMMA RetriedWhole ==
  ASSUME NEW ro \in Records, NEW n \in Nat, Whole(ro, n), ro.state = "Halted"
  PROVE  Whole(Retried(ro), n)
  <1> DEFINE new == Retried(ro)
  <1>1. /\ ro.ended \in [Batches -> Nat] /\ ro.prior \in [Batches -> SUBSET Nat] /\ ro.nb \in Batches
        /\ ro.soak.id = 0 \/ Filed(ro, ro.soak.id)
    BY DEF Records, Whole
  <1>2. /\ new.state = "Running" /\ new.open = TRUE /\ new.nb = ro.nb /\ new.soak.id = 0
        /\ new.ended = [ro.ended EXCEPT ![ro.nb] = 0]
        /\ new.prior = [ro.prior EXCEPT ![ro.nb] = @ \cup {ro.ended[ro.nb]}]
    BY DEF Retried, Records, NoSoak
  <1> HIDE DEF new
  <1>3. \A b \in Batches :
          /\ new.ended[b] = IF b = ro.nb THEN 0 ELSE ro.ended[b]
          /\ new.prior[b] = IF b = ro.nb THEN ro.prior[b] \cup {ro.ended[b]} ELSE ro.prior[b]
    BY <1>1, <1>2
  <1>4. ASSUME NEW i, Filed(ro, i) PROVE Filed(new, i)
    <2>1. PICK b \in Batches : i = ro.ended[b] \/ i \in ro.prior[b]
      BY <1>4 DEF Filed
    <2>2. i = new.ended[b] \/ i \in new.prior[b]
      BY <1>3, <2>1
    <2> QED
      BY <2>2 DEF Filed
  <1>5. ASSUME NEW i \in 1 .. n PROVE Filed(new, i)
    <2>1. i = ro.soak.id \/ Filed(ro, i)
      BY DEF Whole
    <2>2. i # 0
      OBVIOUS
    <2> QED
      BY <1>1, <1>4, <2>1, <2>2
  <1>6. new.ended[new.nb] = 0 /\ \A b \in Batches : b > new.nb => new.ended[b] = 0
    BY <1>1, <1>2, <1>3 DEF Whole
  <1>7. /\ new.nb \in 0 .. MaxBatches /\ new.nb \in Batches
        /\ new.state = "Running" /\ new.open /\ new.soak.id = 0
    BY <1>1, <1>2 DEF Whole
  <1> QED
    BY <1>5, <1>6, <1>7 DEF Whole, new

\* The next batch has filed nothing yet.
LEMMA StartedWhole ==
  ASSUME NEW ro \in Records, NEW n \in Nat, Whole(ro, n), ro.state = "Running", ro.nb < MaxBatches,
         NEW new, Alike(new, [ro EXCEPT !.nb = @ + 1, !.open = TRUE])
  PROVE  Whole(new, n)
  <1>1. /\ new.state = "Running" /\ new.open = TRUE /\ new.nb = ro.nb + 1
        /\ new.soak.id = ro.soak.id /\ new.ended = ro.ended /\ new.prior = ro.prior
    BY DEF Alike, Records
  <1>2. ro.nb \in 0 .. MaxBatches /\ MaxBatches \in Nat
    BY TimesAssumption DEF Whole
  <1>3. new.nb \in Batches /\ new.nb \in 0 .. MaxBatches /\ new.nb > ro.nb
    BY <1>1, <1>2 DEF Batches
  <1>4. \A b \in Batches : b > new.nb => b > ro.nb
    BY <1>1, <1>2 DEF Batches
  <1> QED
    BY <1>1, <1>3, <1>4 DEF Whole, Filed

\* A soak begins: the one it replaces was filed.
LEMMA BegunWhole ==
  ASSUME NEW ro \in Records, NEW n \in Nat, Whole(ro, n), ro.state = "Running", ro.open,
         NEW new, new.state = "Soaking", new.open = ro.open, new.nb = ro.nb, new.soak.id = n + 1,
         new.ended = ro.ended, new.prior = ro.prior
  PROVE  Whole(new, n + 1)
  <1>1. ASSUME NEW i \in 1 .. n + 1 PROVE i = new.soak.id \/ Filed(new, i)
    <2>1. CASE i = n + 1
      BY <2>1
    <2>2. CASE i # n + 1
      <3>1. i \in 1 .. n /\ i # 0
        BY <2>2
      <3>2. Filed(ro, i)
        BY <3>1 DEF Whole
      <3> QED
        BY <3>2 DEF Filed
    <2> QED
      BY <2>1, <2>2
  <1> QED
    BY <1>1 DEF Whole

\* Steps.

LEMMA KeptAlike ==
  ASSUME KeptInv, Alike(rollout', rollout), Alike(disk', rollout), soaks' = soaks
  PROVE  KeptInv'
  <1>1. Whole(rollout', soaks)
    BY WholeAlike DEF KeptInv
  <1>2. Alike(disk', rollout')
    BY DEF Alike
  <1> QED
    BY <1>1, <1>2 DEF KeptInv

LEMMA KeptWhole ==
  ASSUME Whole(rollout', soaks'), disk' = rollout'
  PROVE  KeptInv'
  BY DEF KeptInv, Alike

LEMMA NowWhole ==
  ASSUME SoakInv, KeptInv
  PROVE  /\ Now \in Records /\ Alike(Now, rollout) /\ Whole(Now, soaks)
         /\ Alike(Later(disk, elapsed), rollout)
         /\ rollout.state = "Soaking" => rollout.open
  <1>1. rollout \in Records /\ disk \in Records /\ Now \in Records
    BY TickingLemma
  <1>2. Alike(Now, rollout) /\ Alike(Later(disk, elapsed), disk)
    BY <1>1, LaterAlike DEF Now
  <1>3. Alike(Later(disk, elapsed), rollout)
    BY <1>2 DEF KeptInv, Alike
  <1> QED
    BY <1>1, <1>2, <1>3, WholeAlike DEF KeptInv, Whole

\* Batches begin, end and are retried.
LEMMA KeptBatch ==
  ASSUME SoakInv, KeptInv, Wait \/ StartBatch \/ BatchReady \/ UpdateFails \/ RetryBatch \/ Supersede
  PROVE  KeptInv'
  <1>0. /\ Now \in Records /\ Alike(Now, rollout) /\ Whole(Now, soaks) /\ soaks \in Nat
        /\ Now.state = rollout.state /\ Now.open = rollout.open /\ Now.nb = rollout.nb
    BY NowWhole, TickingLemma DEF Alike
  <1>1. CASE Wait
    BY <1>1, NowWhole, KeptAlike DEF Wait
  <1>2. CASE StartBatch
    <2>1. PICK ps \in SUBSET Eligible :
            /\ Decide([Now EXCEPT !.nb = @ + 1, !.open = TRUE, !.with = ps])
            /\ rollout.state = "Running" /\ rollout.nb < MaxBatches
      BY <1>2 DEF StartBatch
    <2> DEFINE new == [Now EXCEPT !.nb = @ + 1, !.open = TRUE, !.with = ps]
    <2>2. Alike(new, [Now EXCEPT !.nb = @ + 1, !.open = TRUE])
      BY <1>0 DEF Alike, Records
    <2>3. rollout' = new /\ disk' = new /\ soaks' = soaks
      BY <2>1 DEF Decide
    <2> HIDE DEF new
    <2> QED
      BY <1>0, <2>1, <2>2, <2>3, StartedWhole, KeptWhole
  <1>3. CASE BatchReady
    <2>1. CASE rollout' = Stopped(Now, "Running") /\ disk' = rollout' /\ soaks' = soaks
      BY <1>0, <1>3, <2>1, StoppedWhole, KeptWhole DEF BatchReady
    <2>2. CASE rollout' = [Now EXCEPT !.state = "Soaking",
                                      !.soak = [NoSoak EXCEPT !.id = soaks + 1, !.started = 0]]
               /\ disk' = rollout' /\ soaks' = soaks + 1
      <3>1. /\ rollout'.state = "Soaking" /\ rollout'.open = Now.open /\ rollout'.nb = Now.nb
            /\ rollout'.soak.id = soaks + 1 /\ rollout'.ended = Now.ended /\ rollout'.prior = Now.prior
        BY <1>0, <2>2 DEF Records, NoSoak
      <3>2. Now.state = "Running" /\ Now.open
        BY <1>0, <1>3 DEF BatchReady
      <3>3. Whole(rollout', soaks + 1)
        BY <1>0, <3>1, <3>2, BegunWhole
      <3> QED
        BY <2>2, <3>3, KeptWhole
    <2> QED
      BY <1>3, <2>1, <2>2 DEF BatchReady, Decide
  <1>4. CASE UpdateFails
    BY <1>0, <1>4, StoppedWhole, KeptWhole DEF UpdateFails, Decide
  <1>5. CASE RetryBatch
    BY <1>0, <1>5, RetriedWhole, KeptWhole DEF RetryBatch, Decide
  <1>6. CASE Supersede
    <2> DEFINE new == [Now EXCEPT !.state = "Ended"]
    <2>1. /\ new.state = "Ended" /\ new.open = Now.open /\ new.nb = Now.nb
          /\ new.soak.id = Now.soak.id /\ new.ended = Now.ended /\ new.prior = Now.prior
      BY <1>0 DEF Records
    <2>2. rollout' = new /\ disk' = new /\ soaks' = soaks
      BY <1>6 DEF Supersede, Decide
    <2> HIDE DEF new
    <2>3. Whole(new, soaks)
      BY <1>0, <2>1 DEF Whole, Filed
    <2> QED
      BY <2>2, <2>3, KeptWhole
  <1> QED
    BY <1>1, <1>2, <1>3, <1>4, <1>5, <1>6

LEMMA KeptPlan ==
  ASSUME SoakInv, KeptInv, PlanSoak
  PROVE  KeptInv'
  <1>0. /\ Now \in Records /\ Alike(Now, rollout) /\ Whole(Now, soaks)
        /\ Alike(Later(disk, elapsed), rollout) /\ Now.open /\ soaks \in Nat
    BY NowWhole, TickingLemma DEF Alike, PlanSoak
  <1>1. CASE rollout' = Stopped(Now, "Running") /\ disk' = rollout' /\ soaks' = soaks
    BY <1>0, <1>1, StoppedWhole, KeptWhole
  <1>2. CASE rollout' = Now /\ disk' = Later(disk, elapsed) /\ soaks' = soaks
    BY <1>0, <1>2, KeptAlike
  <1>3. CASE rollout' = [Now EXCEPT !.with = rollout.with \cap Eligible, !.soak.checkStarted = 0]
             /\ disk' = Later(disk, elapsed) /\ soaks' = soaks
    <2>1. Alike(rollout', rollout)
      BY <1>0, <1>3 DEF Alike, Records, Soaks
    <2> QED
      BY <1>0, <1>3, <2>1, KeptAlike
  <1> QED
    BY <1>1, <1>2, <1>3 DEF PlanSoak, Decide

LEMMA KeptAnswer ==
  ASSUME SoakInv, KeptInv, ApplySoak
  PROVE  KeptInv'
  <1>0. rollout \in Records /\ Whole(rollout, soaks) /\ soaks' = soaks /\ soaks \in Nat
    BY DEF SoakInv, Shapes, KeptInv, ApplySoak
  <1>1. CASE rollout.state # "Soaking"
    BY <1>0, <1>1 DEF ApplySoak, KeptInv
  <1>2. CASE rollout.state = "Soaking"
    <2>1. PICK failing \in SUBSET asked :
            /\ rollout' = Answered([rollout EXCEPT
                            !.soak.checked = 0, !.soak.streak = (failing = {}),
                            !.soak.failures = IF failing = {} THEN @ ELSE @ + 1])
            /\ disk' = rollout'
      BY <1>2 DEF ApplySoak, Saved
    <2> DEFINE more == IF failing = {} THEN rollout.soak.failures ELSE rollout.soak.failures + 1
               sk == [rollout.soak EXCEPT !.checked = 0, !.streak = (failing = {}), !.failures = more]
               ro == [rollout EXCEPT !.soak = sk]
    <2>2. rollout.soak \in Soaks /\ more \in Nat
      BY <1>0 DEF Records, Soaks
    <2>3. sk \in Soaks /\ sk.id = rollout.soak.id
      BY <2>2, AgesLemma DEF Soaks
    <2>4. rollout' = Answered(ro)
      BY <1>0, <2>1, <2>2 DEF Records, Soaks
    <2> HIDE DEF sk
    <2>5. ro \in Records /\ Alike(ro, rollout) /\ ro.open
      BY <1>0, <1>2, <2>3 DEF Records, Alike, Whole
    <2> HIDE DEF ro
    <2>6. Whole(ro, soaks)
      BY <1>0, <2>5, WholeAlike
    <2>7. Whole(Stopped(ro, "Running"), soaks) /\ Whole(Stopped(ro, "Halted"), soaks)
      BY <1>0, <2>5, <2>6, StoppedWhole
    <2>8. Whole(rollout', soaks)
      BY <2>4, <2>6, <2>7 DEF Answered
    <2> QED
      BY <1>0, <2>1, <2>8, KeptWhole, SMTT(30)
  <1> QED
    BY <1>1, <1>2, SMTT(30)

LEMMA KeptVerb ==
  ASSUME SoakInv, KeptInv, Sync \/ Pause \/ Abort \/ Retry
  PROVE  KeptInv'
  <1>0. rollout \in Records /\ Whole(rollout, soaks) /\ soaks \in Nat
    BY DEF SoakInv, Shapes, KeptInv
  <1>1. CASE Sync \/ Pause \/ Retry
    <2>1. Alike(rollout', rollout) /\ disk' = rollout' /\ soaks' = soaks
      BY <1>0, <1>1 DEF Sync, Pause, Retry, Verb, Alike, Records
    <2> QED
      BY <2>1, KeptAlike
  <1>2. CASE Abort /\ rollout.open
    BY <1>0, <1>2, StoppedWhole, KeptWhole DEF Abort, Verb
  <1>3. CASE Abort /\ ~rollout.open
    <2> DEFINE new == [rollout EXCEPT !.state = "Ended"]
    <2>1. /\ new.state = "Ended" /\ new.open = rollout.open /\ new.nb = rollout.nb
          /\ new.soak.id = rollout.soak.id /\ new.ended = rollout.ended /\ new.prior = rollout.prior
      BY <1>0 DEF Records
    <2>2. rollout' = new /\ disk' = new /\ soaks' = soaks
      BY <1>3 DEF Abort, Verb
    <2> HIDE DEF new
    <2>3. Whole(new, soaks)
      BY <1>0, <2>1 DEF Whole, Filed
    <2> QED
      BY <2>2, <2>3, KeptWhole
  <1> QED
    BY <1>1, <1>2, <1>3

LEMMA KeptStep ==
  ASSUME SoakInv, KeptInv, [Next]_soakVars
  PROVE  KeptInv'
  <1>1. CASE TimePasses \/ (\E p \in Unsteady : Change(p)) \/ UNCHANGED soakVars
    BY <1>1 DEF TimePasses, Change, soakVars, KeptInv
  <1>2. CASE Crash
    BY <1>2, KeptAlike DEF Crash, KeptInv, Alike
  <1> QED
    BY <1>1, <1>2, KeptBatch, KeptPlan, KeptAnswer, KeptVerb DEF Next, Tick

\* Every soak that began stays on record, through retries, aborts, supersedes
\* and restarts (retryBatch, closeBatch): for any programs, batches and limits.
THEOREM AllSoaksKept == Spec => []EverySoakKept
  <1>1. Init => KeptInv
    BY TimesAssumption DEF Init, KeptInv, Alike, Whole, NoSoak
  <1>2. KeptInv => EverySoakKept
    BY DEF KeptInv, Whole, Filed, EverySoakKept
  <1> QED
    BY <1>1, <1>2, InitLemma, StepLemma, KeptStep, PTL DEF Spec, Good

====
