---- MODULE InspectorProofs ----
(***************************************************************************)
(* A set in force is the one in the files, or an error is shown, and what  *)
(* the controller knows of running digests is about targets it has and is  *)
(* never replaced by anything older: for any directory, targets, edits,    *)
(* inspections and stops.                                                  *)
(*                                                                         *)
(* The watcher's part says for each stage what a load has read, or put in  *)
(* force, is worth if the fingerprint it is remembered by is still the     *)
(* directory's.  Edits only ever count up, so a fingerprint that an edit   *)
(* has left behind never comes back.                                       *)
(***************************************************************************)
EXTENDS Inspector, FiniteSetTheorems, TLAPS

\* What is in force is what the files say.
InForce == Valid(Lines) /\ current = SetOf(Lines)

\* The watcher would see no change now.
Unchanged == stamp = Fingerprint /\ ~missed

\* What is true of the goroutine at each stage.
AtStage ==
  /\ stage = "down" /\ ~missed => \A p \in DOMAIN read : read[p] = dir[p].lines
  /\ stage = "up" /\ ~missed => InForce
  /\ stage = "load" => \A p \in Paths :
       /\ taken[p] <= dir[p].edit
       /\ p \in DOMAIN read /\ taken[p] = dir[p].edit => read[p] = dir[p].lines
  /\ stage \notin {"down", "up", "load"} => \A p \in Paths : stamp[p] <= dir[p].edit
  /\ stage \in {"reload", "forget"} /\ Unchanged => InForce
  /\ stage = "report" /\ Unchanged => ~Valid(Lines)

WatchInv ==
  /\ WatchTypeOK
  /\ dir \in [Paths -> [edit : Nat, lines : Contents]]
  /\ stamp \in [Paths -> Nat] /\ taken \in [Paths -> Nat]
  /\ \A p \in DOMAIN read : read[p] \in Contents
  /\ DOMAIN read # {} => stage \in {"down", "load"}
  /\ leaving # {} => stage \in {"reload", "forget"}
  /\ AtStage
  /\ LoadedOrReported

\* Programs run only while the process does, and saw what they say they saw.
FlightsTrue ==
  /\ ~Up => flights = {} /\ todo = {}
  /\ \A f \in flights :
       /\ f.started <= clock
       /\ f.sees = "old" => landed[f.target] = 0 \/ landed[f.target] > f.started

\* A target has one record.
OneRecord == \A a, b \in live : a.target = b.target => a = b

\* Forgotten, from the moment a set is in force.
Placed == stage # "down" => \A l \in live : l.target \in current \cup leaving \cup absent

IInv == WatchInv /\ TypeOK /\ FlightsTrue /\ OneRecord /\ Placed

-----------------------------------------------------------------------------
\* The watcher.

\* Files read as they are make the set the directory makes.
LEMMA ReadWell ==
  ASSUME DOMAIN read = Paths, \A p \in Paths : read[p] = dir[p].lines
  PROVE  Valid(read) = Valid(Lines) /\ SetOf(read) = SetOf(Lines)
<1>1. DOMAIN Lines = Paths /\ \A p \in Paths : Lines[p] = read[p]
  BY DEF Lines
<1>2. Valid(read) = Valid(Lines)
  BY <1>1 DEF Valid
<1>3. SetOf(read) = SetOf(Lines)
  BY <1>1 DEF SetOf
<1>. QED BY <1>2, <1>3

\* Files that make a set list targets.
LEMMA SetsOfTargets ==
  ASSUME WatchInv, Valid(read)
  PROVE  SetOf(read) \subseteq Targets
  BY ContentsAssumption DEF WatchInv, Valid, SetOf

LEMMA Numbers ==
  ASSUME WatchInv, NEW p \in Paths
  PROVE  dir[p].edit \in Nat /\ dir[p].lines \in Contents /\ stamp[p] \in Nat /\ taken[p] \in Nat
  BY DEF WatchInv

LEMMA WatchInitLemma == WatchInit => WatchInv
<1> SUFFICES ASSUME WatchInit PROVE WatchInv
  OBVIOUS
<1>1. /\ dir \in [Paths -> [edit : {0}, lines : Contents]]
      /\ upsets = 0 /\ stage = "down" /\ read = Nothing /\ leaving = {}
      /\ stamp = NoStamp /\ taken = NoStamp /\ current = {}
      /\ error = FALSE /\ missed = FALSE
  BY DEF WatchInit
<1>2. DOMAIN read = {} /\ stamp \in [Paths -> Nat] /\ taken \in [Paths -> Nat]
  BY <1>1 DEF Nothing, NoStamp
<1>3. \A p \in Paths : dir[p] \in [edit : {0}, lines : Contents]
  BY <1>1
<1>4. \A p \in Paths : dir[p].edit = 0 /\ dir[p].lines \in Contents
  BY <1>3
<1>5. WatchTypeOK
  <2>1. upsets \in 0 .. MaxUpsets /\ \A p \in Paths : dir[p].edit \in 0 .. upsets
    BY <1>1, <1>4, ContentsAssumption
  <2>2. DOMAIN stamp = Paths /\ DOMAIN taken = Paths
    BY <1>2
  <2>. QED BY <1>1, <1>2, <1>4, <2>1, <2>2 DEF WatchTypeOK, Stages
<1>6. [edit : {0}, lines : Contents] \subseteq [edit : Nat, lines : Contents]
  OBVIOUS
<1>7. dir \in [Paths -> [edit : Nat, lines : Contents]]
  BY <1>1, <1>6
<1>. QED BY <1>1, <1>2, <1>5, <1>7 DEF WatchInv, AtStage, LoadedOrReported

\* An edit leaves every fingerprint behind that was taken before.
LEMMA EditLemma == ASSUME WatchInv, NEW p \in Paths, Edit(p) PROVE WatchInv'
<1>1. PICK c \in Contents : dir' = [dir EXCEPT ![p] = [edit |-> @.edit + 1, lines |-> c]]
  BY DEF Edit
<1>2. /\ upsets < MaxUpsets /\ upsets' = upsets + 1
      /\ missed' = (missed \/ stage = "up" \/ (stage = "down" /\ read # Nothing))
      /\ UNCHANGED <<current, stamp, stage, taken, read, leaving, error>>
  BY DEF Edit
<1>3. /\ DOMAIN dir = Paths /\ upsets \in Nat /\ MaxUpsets \in Nat
      /\ \A q \in Paths : dir[q].edit \in 0 .. upsets
  BY ContentsAssumption DEF WatchInv, WatchTypeOK
<1>4. /\ DOMAIN dir' = Paths
      /\ dir'[p].edit = dir[p].edit + 1 /\ dir'[p].lines = c
      /\ dir'[p] = [edit |-> dir[p].edit + 1, lines |-> c]
      /\ \A q \in Paths \ {p} : dir'[q] = dir[q]
  BY <1>1, <1>3
<1>5. \A q \in Paths : dir'[q].edit \in 0 .. upsets' /\ dir'[q].edit \in Nat /\ dir'[q].lines \in Contents
  BY <1>1, <1>2, <1>3, <1>4, Numbers
<1>6. dir' \in [Paths -> [edit : Nat, lines : Contents]]
  <2>1. dir \in [Paths -> [edit : Nat, lines : Contents]]
    BY DEF WatchInv
  <2>2. [edit |-> dir[p].edit + 1, lines |-> c] \in [edit : Nat, lines : Contents]
    BY <1>1, <1>4, <1>5
  <2>. QED BY <1>1, <2>1, <2>2
<1>7. WatchTypeOK'
  <2>1. upsets' \in 0 .. MaxUpsets /\ missed' \in BOOLEAN
    BY <1>2, <1>3
  <2>. QED BY <1>2, <1>5, <2>1 DEF WatchInv, WatchTypeOK
<1>8. \A f \in [Paths -> Nat] : (\A q \in Paths : f[q] <= dir[q].edit) =>
         /\ \A q \in Paths : f[q] <= dir'[q].edit
         /\ f[p] < dir'[p].edit
         /\ f # Fingerprint'
  <2>1. Fingerprint'[p] = dir'[p].edit
    BY DEF Fingerprint
  <2>2. dir[p].edit \in Nat /\ \A q \in Paths : dir[q].edit \in Nat
    BY <1>3
  <2>. QED BY <1>4, <2>1, <2>2
<1>9. stage = "load" => taken[p] < dir'[p].edit /\ \A q \in Paths : taken[q] <= dir'[q].edit
  BY <1>8 DEF WatchInv, AtStage
<1>10. stage \notin {"down", "up", "load"} =>
         stamp # Fingerprint' /\ \A q \in Paths : stamp[q] <= dir'[q].edit
  BY <1>8 DEF WatchInv, AtStage
<1>11. stage = "down" /\ ~missed' => DOMAIN read = {}
  BY <1>2 DEF Nothing
<1>12. AtStage'
  <2>1. stage = "load" => \A q \in Paths :
          q \in DOMAIN read /\ taken[q] = dir'[q].edit => read[q] = dir'[q].lines
    BY <1>4, <1>9, Numbers DEF WatchInv, AtStage
  <2>. QED BY <1>2, <1>9, <1>10, <1>11, <2>1 DEF AtStage, Unchanged
<1>13. LoadedOrReported'
  BY <1>2, <1>10 DEF LoadedOrReported
<1>. QED BY <1>2, <1>6, <1>7, <1>12, <1>13 DEF WatchInv

LEMMA ReadLemma == ASSUME WatchInv, NEW p \in Paths, ReadFile(p) PROVE WatchInv'
<1>1. /\ stage \in {"down", "load"} /\ p \notin DOMAIN read
      /\ read' = [q \in DOMAIN read \cup {p} |-> IF q = p THEN dir[p].lines ELSE read[q]]
      /\ UNCHANGED <<dir, current, stamp, stage, taken, leaving, error, missed, upsets>>
  BY DEF ReadFile
<1>2. DOMAIN read' = DOMAIN read \cup {p} /\ read'[p] = dir[p].lines
      /\ \A q \in DOMAIN read : read'[q] = read[q]
  BY <1>1
<1>3. WatchTypeOK' /\ \A q \in DOMAIN read' : read'[q] \in Contents
  BY <1>1, <1>2, Numbers DEF WatchInv, WatchTypeOK
<1>4. AtStage'
  BY <1>1, <1>2 DEF WatchInv, AtStage
<1>5. LoadedOrReported'
  BY <1>1 DEF LoadedOrReported
<1>. QED BY <1>1, <1>3, <1>4, <1>5 DEF WatchInv

\* The first load: what is read without an edit in between is the directory.
LEMMA FirstLemma == ASSUME WatchInv, FirstLoad PROVE WatchInv'
<1>1. /\ stage = "down" /\ DOMAIN read = Paths /\ read' = Nothing
      /\ UNCHANGED <<dir, stamp, taken, leaving, error, upsets>>
  BY DEF FirstLoad
<1>2. DOMAIN read' = {} /\ leaving = {} /\ missed \in BOOLEAN
  BY <1>1 DEF Nothing, WatchInv, WatchTypeOK
<1>3. CASE Valid(read)
  <2>1. current' = SetOf(read) /\ stage' = "up" /\ UNCHANGED missed
    BY <1>3 DEF FirstLoad
  <2>2. WatchTypeOK'
    BY <1>1, <1>2, <2>1, <1>3, SetsOfTargets DEF WatchInv, WatchTypeOK, Stages
  <2>3. ~missed => \A p \in Paths : read[p] = dir[p].lines
    BY <1>1 DEF WatchInv, AtStage
  <2>4. ~missed => Valid(Lines) /\ SetOf(read) = SetOf(Lines)
    BY <1>1, <1>3, <2>3, ReadWell
  <2>5. Lines' = Lines
    BY <1>1 DEF Lines
  <2>6. Valid(Lines') = Valid(Lines) /\ SetOf(Lines') = SetOf(Lines)
    BY <2>5
  <2>7. ~missed' => InForce'
    BY <2>1, <2>4, <2>6, <2>5 DEF InForce, Valid, SetOf
  <2>8. AtStage' /\ LoadedOrReported'
    BY <2>1, <2>7 DEF AtStage, LoadedOrReported
  <2>. QED BY <1>1, <1>2, <2>2, <2>8 DEF WatchInv
<1>4. CASE ~Valid(read)
  <2>1. stage' = "down" /\ missed' = FALSE /\ UNCHANGED current
    BY <1>4 DEF FirstLoad
  <2>. QED BY <1>1, <1>2, <2>1 DEF WatchInv, WatchTypeOK, AtStage, LoadedOrReported
<1>. QED BY <1>3, <1>4

LEMMA StampLemma == ASSUME WatchInv, FirstStamp PROVE WatchInv'
<1>1. /\ stage = "up" /\ stamp' = Fingerprint /\ stage' = "idle"
      /\ UNCHANGED <<dir, current, taken, read, leaving, error, missed, upsets>>
  BY DEF FirstStamp
<1>2. /\ stamp' \in [Paths -> Nat]
      /\ \A p \in Paths : stamp'[p] = dir[p].edit
  BY <1>1, Numbers DEF Fingerprint
<1>3. WatchTypeOK'
  BY <1>1, <1>2 DEF WatchInv, WatchTypeOK, Stages
<1>4. \A p \in Paths : stamp'[p] <= dir'[p].edit
  BY <1>1, <1>2, Numbers
<1>5. ~missed => Valid(Lines) /\ current = SetOf(Lines)
  BY <1>1 DEF WatchInv, AtStage, InForce
<1>6. AtStage'
  BY <1>1, <1>4 DEF AtStage
<1>7. LoadedOrReported'
  BY <1>1, <1>5 DEF LoadedOrReported, Valid, SetOf, Lines
<1>. QED BY <1>1, <1>2, <1>3, <1>6, <1>7 DEF WatchInv

LEMMA PollLemma == ASSUME WatchInv, Poll PROVE WatchInv'
<1>1. /\ stage = "idle" /\ taken' = Fingerprint /\ stage' = "load" /\ missed' = FALSE
      /\ UNCHANGED <<dir, current, stamp, read, leaving, error, upsets>>
  BY DEF Poll
<1>2. /\ taken' \in [Paths -> Nat]
      /\ \A p \in Paths : taken'[p] = dir[p].edit
  BY <1>1, Numbers DEF Fingerprint
<1>3. WatchTypeOK'
  BY <1>1, <1>2 DEF WatchInv, WatchTypeOK, Stages
<1>4. \A p \in Paths : dir[p].edit \in Nat
  BY Numbers
<1>5. DOMAIN read = {}
  BY <1>1 DEF WatchInv
<1>6. AtStage'
  BY <1>1, <1>2, <1>4, <1>5 DEF AtStage
<1>. QED BY <1>1, <1>2, <1>3, <1>5, <1>6 DEF WatchInv, LoadedOrReported

LEMMA PollFailsLemma == ASSUME WatchInv, PollFails PROVE WatchInv'
<1>1. /\ stage = "idle" /\ error' = TRUE
      /\ UNCHANGED <<dir, current, stamp, stage, taken, read, leaving, missed, upsets>>
  BY DEF PollFails
<1>2. Fingerprint' = Fingerprint /\ Lines' = Lines
  BY <1>1 DEF Fingerprint, Lines
<1>3. LoadedOrReported /\ WatchTypeOK /\ AtStage
  BY DEF WatchInv
<1>4. \/ ~(stage = "idle" /\ stamp = Fingerprint /\ ~missed)
      \/ ~Valid(Lines)
      \/ Valid(Lines) /\ current = SetOf(Lines)
  BY <1>3 DEF LoadedOrReported
<1>5. LoadedOrReported'
  BY <1>1, <1>4 DEF LoadedOrReported, Fingerprint, Lines, Valid, SetOf
<1>6. AtStage' /\ WatchTypeOK'
  BY <1>1, <1>3 DEF AtStage, WatchTypeOK
<1>. QED BY <1>1, <1>5, <1>6 DEF WatchInv

\* A load is remembered by the fingerprint it began with: if that is still the
\* directory's, every file was read as it is.
LEMMA LoadedLemma == ASSUME WatchInv, Loaded PROVE WatchInv'
<1>1. /\ stage = "load" /\ DOMAIN read = Paths /\ stamp' = taken /\ read' = Nothing
      /\ UNCHANGED <<dir, taken, error, missed, upsets>>
  BY DEF Loaded, StampOf
<1>2. DOMAIN read' = {} /\ leaving = {}
  BY <1>1 DEF Nothing, WatchInv
<1>3. stamp' \in [Paths -> Nat] /\ \A p \in Paths : stamp'[p] <= dir'[p].edit
  BY <1>1 DEF WatchInv, AtStage
<1>4. stamp' = Fingerprint' => Valid(read) = Valid(Lines) /\ SetOf(read) = SetOf(Lines)
  <2> SUFFICES ASSUME stamp' = Fingerprint'
               PROVE  \A p \in Paths : read[p] = dir[p].lines
    BY <1>1, ReadWell
  <2>1. \A p \in Paths : taken[p] = dir[p].edit
    BY <1>1 DEF Fingerprint
  <2>. QED BY <1>1, <2>1 DEF WatchInv, AtStage
<1>5. /\ Valid(read) => stage' = "reload" /\ current' = SetOf(read) /\ leaving' = current \ current'
      /\ ~Valid(read) => stage' = "report" /\ current' = current /\ leaving' = leaving
  BY DEF Loaded
<1>6. WatchTypeOK'
  <2>1. current' \subseteq Targets /\ leaving' \subseteq Targets \ current'
    BY <1>5, SetsOfTargets DEF WatchInv, WatchTypeOK
  <2>2. stage' \in Stages
    BY <1>5 DEF Stages
  <2>. QED BY <1>1, <1>2, <1>3, <2>1, <2>2 DEF WatchInv, WatchTypeOK
<1>7. stage' = "reload" /\ stamp' = Fingerprint' => Valid(Lines) /\ current' = SetOf(Lines)
  BY <1>4, <1>5
<1>8. stage' = "report" /\ stamp' = Fingerprint' => ~Valid(Lines)
  BY <1>4, <1>5
<1>9. stage' \in {"reload", "report"} /\ Lines' = Lines
  BY <1>1, <1>5 DEF Lines
<1>10. InForce' <=> (Valid(Lines) /\ current' = SetOf(Lines))
  BY <1>9 DEF InForce, Valid, SetOf
<1>11. Valid(Lines)' <=> Valid(Lines)
  BY <1>9 DEF Valid
<1>12. AtStage'
  BY <1>3, <1>7, <1>8, <1>9, <1>10, <1>11 DEF AtStage, Unchanged
<1>. QED BY <1>1, <1>2, <1>3, <1>5, <1>6, <1>9, <1>12 DEF WatchInv, LoadedOrReported

\* What follows a load: the error is set or over, and what left is forgotten.
LEMMA AfterLemma ==
  ASSUME WatchInv, Report \/ Reloaded \/ ForgetRemoved
  PROVE  WatchInv'
<1>1. /\ UNCHANGED <<dir, current, stamp, taken, read, missed, upsets>>
      /\ stage \in {"report", "reload", "forget"}
      /\ stage' \in {"idle", "forget"}
      /\ stage = "report" => error' = TRUE
      /\ stage = "report" => stage' = "idle"
      /\ stage' = "idle" => leaving' = {}
      /\ leaving' \subseteq leaving
      /\ error' \in BOOLEAN
  BY DEF Report, Reloaded, ForgetRemoved, WatchInv, WatchTypeOK
<1>2. WatchTypeOK'
  BY <1>1 DEF WatchInv, WatchTypeOK, Stages
<1>3. Fingerprint' = Fingerprint /\ Lines' = Lines
  BY <1>1 DEF Fingerprint, Lines
<1>4. Unchanged' <=> Unchanged
  BY <1>1, <1>3 DEF Unchanged
<1>5. (InForce' <=> InForce) /\ (Valid(Lines)' <=> Valid(Lines))
  BY <1>1, <1>3 DEF InForce, Valid, SetOf
<1>6. Unchanged => IF stage = "report" THEN ~Valid(Lines) ELSE InForce
  BY <1>1 DEF WatchInv, AtStage
<1>7. AtStage'
  BY <1>1, <1>4, <1>5, <1>6 DEF WatchInv, AtStage
<1>8. LoadedOrReported'
  <2>1. ASSUME Unchanged, stage' = "idle"
        PROVE  IF Valid(Lines) THEN current = SetOf(Lines) ELSE error'
    BY <2>1, <1>1, <1>6 DEF InForce
  <2>. QED BY <1>1, <1>3, <1>5, <2>1 DEF LoadedOrReported, Unchanged, Valid, SetOf
<1>. QED BY <1>1, <1>2, <1>7, <1>8 DEF WatchInv

LEMMA CrashLemma == ASSUME WatchInv, WatchCrash PROVE WatchInv'
<1>1. /\ upsets < MaxUpsets /\ upsets' = upsets + 1
      /\ stage' = "down" /\ read' = Nothing
      /\ current' = {} /\ stamp' = NoStamp /\ taken' = NoStamp
      /\ leaving' = {} /\ error' = FALSE /\ missed' = FALSE
      /\ UNCHANGED dir
  BY DEF WatchCrash
<1>2. DOMAIN read' = {} /\ stamp' \in [Paths -> Nat] /\ taken' \in [Paths -> Nat]
  BY <1>1 DEF Nothing, NoStamp
<1>3. upsets' \in 0 .. MaxUpsets /\ \A p \in Paths : dir'[p].edit \in 0 .. upsets'
  BY <1>1, ContentsAssumption DEF WatchInv, WatchTypeOK
<1>4. WatchTypeOK'
  BY <1>1, <1>2, <1>3 DEF WatchInv, WatchTypeOK, Stages
<1>. QED BY <1>1, <1>2, <1>4 DEF WatchInv, AtStage, LoadedOrReported

LEMMA IdleLemma == ASSUME WatchInv, UNCHANGED watchVars PROVE WatchInv'
<1>1. UNCHANGED <<dir, current, stamp, stage, taken, read, leaving, error, missed, upsets>>
  BY DEF watchVars
<1>. QED BY <1>1 DEF WatchInv, WatchTypeOK, AtStage, LoadedOrReported, InForce, Unchanged,
                     Valid, SetOf, Lines, Fingerprint

LEMMA WatchLemma == ASSUME WatchInv, [Next]_vars PROVE WatchInv'
<1>1. CASE Watch
  <2>1. \/ WatchStep
        \/ PollFails
        \/ \E p \in Paths : Edit(p)
    BY <1>1 DEF Watch
  <2>. QED BY <2>1, EditLemma, ReadLemma, FirstLemma, StampLemma, PollLemma, PollFailsLemma,
              LoadedLemma, AfterLemma DEF WatchStep
<1>2. CASE Forget
  BY <1>2, AfterLemma DEF Forget
<1>3. CASE Crash
  BY <1>3, CrashLemma DEF Crash
<1>4. CASE UNCHANGED watchVars
  BY <1>4, IdleLemma
<1>. QED BY <1>1, <1>2, <1>3, <1>4
         DEF Next, vars, Land, BeginPass, Begin, Look, SetLive, Drop

-----------------------------------------------------------------------------
\* Inspections.

\* What the world and the inspections keep true of themselves.
Kept == TypeOK /\ FlightsTrue /\ OneRecord /\ Placed

\* A record gives way only to a newer observation, of what really ran.
Newer ==
  \A l \in live' \ live :
    /\ \A old \in Of(l.target) : l.observed >= old.observed
    /\ ~l.failing /\ l.digest = "old" =>
         landed[l.target] = 0 \/ landed[l.target] > l.observed

\* Records of a target that are all the same are at most one.
LEMMA AtMostOne ==
  ASSUME NEW S, NEW t, \A a, b \in S : a.target = b.target => a = b
  PROVE  Cardinality({l \in S : l.target = t}) <= 1
<1> DEFINE O == {l \in S : l.target = t}
<1>1. CASE O = {}
  BY <1>1, FS_EmptySet
<1>2. CASE O # {}
  <2>1. PICK x : x \in O
    BY <1>2
  <2>2. O = {x}
    BY <2>1
  <2>3. Cardinality(O) = 1
    BY <2>2, FS_Singleton
  <2>. QED BY <2>3
<1>3. Cardinality(O) <= 1
  BY <1>1, <1>2
<1>. QED BY <1>3

LEMMA Clock ==
  ASSUME TypeOK
  PROVE  /\ clock \in Nat /\ MaxClock \in Nat /\ clock <= MaxClock
         /\ \A t \in Targets : landed[t] \in Nat
         /\ \A f \in flights : f \in Flight /\ f.target \in Targets /\ f.started \in Nat
         /\ \A l \in live : l \in Record /\ l.observed \in Nat /\ l.target \in Targets
<1>1. /\ clock \in 0 .. MaxClock /\ landed \in [Targets -> 0 .. MaxClock + 1]
      /\ flights \subseteq Flight /\ live \subseteq Record
  BY DEF TypeOK
<1>2. \A f \in Flight : f.target \in Targets /\ f.started \in 1 .. MaxClock
  BY DEF Flight
<1>3. \A l \in Record : l.observed \in 1 .. MaxClock /\ l.target \in Targets
  BY DEF Record
<1>. QED BY <1>1, <1>2, <1>3, ClockAssumption

LEMMA KeptInit == Init => Kept
<1> SUFFICES ASSUME Init PROVE Kept
  OBVIOUS
<1>1. /\ clock = 0 /\ landed = [t \in Targets |-> 0]
      /\ todo = {} /\ flights = {} /\ live = {} /\ absent = {} /\ stage = "down"
  BY DEF Init, WatchInit
<1>2. WatchTypeOK
  BY WatchInitLemma DEF Init, WatchInv
<1>3. landed \in [Targets -> 0 .. MaxClock + 1] /\ clock \in 0 .. MaxClock
  BY <1>1, ClockAssumption
<1>4. OneRecord
  BY <1>1 DEF OneRecord
<1>5. \A t \in Targets : Cardinality(Of(t)) <= 1
  BY <1>4, AtMostOne DEF Of, OneRecord
<1>6. TypeOK
  BY <1>1, <1>2, <1>3, <1>5 DEF TypeOK
<1>. QED BY <1>1, <1>4, <1>6 DEF Kept, FlightsTrue, Placed

\* A build begins to run later than every inspection that began.
LEMMA LandLemma ==
  ASSUME WatchInv', Kept, NEW t \in Targets, Land(t)
  PROVE  Kept' /\ Newer
<1>1. /\ landed[t] = 0 /\ landed' = [landed EXCEPT ![t] = clock + 1]
      /\ UNCHANGED <<watchVars, clock, todo, flights, live, absent>>
  BY DEF Land
<1>2. UNCHANGED <<stage, current, leaving>>
  BY <1>1 DEF watchVars
<1>3. landed' \in [Targets -> 0 .. MaxClock + 1]
  BY <1>1, Clock DEF Kept, TypeOK
<1>4. TypeOK'
  BY <1>1, <1>3 DEF Kept, TypeOK, WatchInv, Of
<1>5. \A u \in Targets : u # t => landed'[u] = landed[u]
  <2>1. landed \in [Targets -> 0 .. MaxClock + 1]
    BY DEF Kept, TypeOK
  <2>. QED BY <1>1, <2>1
<1>6. landed'[t] = clock + 1
  BY <1>1 DEF Kept, TypeOK
<1>7. FlightsTrue'
  <2>1. \A f \in flights : f.sees = "old" => landed'[f.target] = 0 \/ landed'[f.target] > f.started
    BY <1>5, <1>6, Clock DEF Kept, FlightsTrue
  <2>. QED BY <1>1, <1>2, <2>1 DEF Kept, FlightsTrue, Up
<1>. QED BY <1>1, <1>2, <1>4, <1>7 DEF Kept, OneRecord, Placed, Newer

\* Programs start, look and are dropped: records stay as they are.
LEMMA ProgramsLemma ==
  ASSUME WatchInv', Kept,
         \/ BeginPass
         \/ \E who \in Who, t \in Targets : Begin(who, t)
         \/ \E f \in flights : Look(f) \/ Drop(f)
  PROVE  Kept' /\ Newer
<1>0. TypeOK /\ FlightsTrue
  BY DEF Kept
<1>1. /\ UNCHANGED <<watchVars, landed, live, absent>>
      /\ todo' \subseteq Targets /\ clock' \in 0 .. MaxClock /\ clock' >= clock
      /\ flights' \subseteq Flight
      /\ ~Up => flights' = {} /\ todo' = {}
      /\ \A f \in flights' :
           /\ f.started <= clock'
           /\ f.sees = "old" => landed[f.target] = 0 \/ landed[f.target] > f.started
  <2>0. clock \in 0 .. MaxClock /\ clock >= clock
    BY <1>0, Clock
  <2>1. CASE BeginPass
    <3>1. /\ Up /\ todo' = current
          /\ UNCHANGED <<watchVars, clock, landed, flights, live, absent>>
      BY <2>1 DEF BeginPass
    <3>2. current \subseteq Targets
      BY <1>0 DEF TypeOK, WatchTypeOK
    <3>. QED BY <1>0, <2>0, <3>1, <3>2 DEF TypeOK, FlightsTrue
  <2>2. CASE \E who \in Who, t \in Targets : Begin(who, t)
    <3>1. PICK who \in Who, t \in Targets : Begin(who, t)
      BY <2>2
    <3> DEFINE new == [who |-> who, target |-> t, started |-> clock + 1, sees |-> "nothing yet"]
    <3>2. /\ Up /\ clock < MaxClock /\ clock' = clock + 1
          /\ todo' \subseteq todo /\ flights' = flights \cup {new}
          /\ UNCHANGED <<watchVars, landed, live, absent>>
      BY <3>1 DEF Begin
    <3>3. new \in Flight
      <4>0. clock \in Nat /\ MaxClock \in Nat /\ clock < MaxClock
        BY <1>0, <3>2, Clock
      <4>1. clock + 1 \in 1 .. MaxClock
        BY <4>0
      <4>. QED BY <4>1 DEF Flight
    <3>4. new.started = clock + 1 /\ new.sees = "nothing yet"
      OBVIOUS
    <3> HIDE DEF new
    <3>5. clock' \in 0 .. MaxClock /\ clock' >= clock
      BY <1>0, <3>2, Clock
    <3>6. \A f \in flights' : f.started <= clock'
      <4>1. \A f \in flights : f.started <= clock /\ f.started \in Nat
        BY <1>0, Clock DEF FlightsTrue
      <4>2. clock \in Nat /\ clock' = clock + 1
        BY <1>0, <3>2, Clock
      <4>3. \A f \in flights : f.started <= clock'
        BY <4>1, <4>2
      <4>4. new.started <= clock'
        <5>1. new.started = clock + 1
          BY <3>4
        <5>. QED BY <4>2, <5>1
      <4>. QED BY <3>2, <4>3, <4>4
    <3>7. \A f \in flights' : f.sees = "old" => landed[f.target] = 0 \/ landed[f.target] > f.started
      BY <1>0, <3>2, <3>4 DEF FlightsTrue
    <3>8. todo' \subseteq Targets /\ flights' \subseteq Flight
      BY <1>0, <3>2, <3>3 DEF TypeOK
    <3>. QED BY <3>2, <3>5, <3>6, <3>7, <3>8
  <2>3. CASE \E f \in flights : Look(f)
    <3>1. PICK f \in flights : Look(f)
      BY <2>3
    <3>2. PICK seen \in {Running(f.target), "an error"} :
            flights' = (flights \ {f}) \cup {[f EXCEPT !.sees = seen]}
      BY <3>1 DEF Look
    <3>3. UNCHANGED <<watchVars, clock, landed, todo, live, absent>>
      BY <3>1 DEF Look
    <3>4. seen \in Digests \cup {"an error"} /\ (seen = "old" => landed[f.target] = 0)
      BY <3>2 DEF Running, Digests
    <3>5. f \in Flight
      BY <1>0 DEF TypeOK
    <3> DEFINE new == [f EXCEPT !.sees = seen]
    <3>6. /\ new \in Flight /\ new.target = f.target /\ new.started = f.started /\ new.sees = seen
      BY <3>4, <3>5 DEF Flight
    <3> HIDE DEF new
    <3>7. flights' = (flights \ {f}) \cup {new}
      BY <3>2 DEF new
    <3>8. flights' \subseteq Flight /\ todo' \subseteq Targets
      BY <1>0, <3>3, <3>6, <3>7 DEF TypeOK
    <3>9. \A g \in flights' :
            /\ g.started <= clock
            /\ g.sees = "old" => landed[g.target] = 0 \/ landed[g.target] > g.started
      BY <1>0, <3>4, <3>6, <3>7 DEF FlightsTrue
    <3>10. Up
      BY <1>0 DEF FlightsTrue
    <3>11. clock' \in 0 .. MaxClock /\ clock' >= clock
      BY <2>0, <3>3
    <3>. QED BY <3>3, <3>8, <3>9, <3>10, <3>11
  <2>4. CASE \E f \in flights : Drop(f)
    <3>1. flights' \subseteq flights /\ UNCHANGED <<watchVars, clock, landed, todo, live, absent>>
      BY <2>4 DEF Drop
    <3>2. flights' \subseteq Flight /\ todo' \subseteq Targets /\ (~Up => flights' = {} /\ todo' = {})
      BY <1>0, <3>1 DEF TypeOK, FlightsTrue
    <3>. QED BY <1>0, <2>0, <3>1, <3>2 DEF FlightsTrue
  <2>. QED BY <2>1, <2>2, <2>3, <2>4
<1>2. UNCHANGED <<stage, current, leaving>>
  BY <1>1 DEF watchVars
<1>3. TypeOK'
  BY <1>0, <1>1 DEF TypeOK, WatchInv, Of
<1>. QED BY <1>0, <1>1, <1>2, <1>3 DEF Kept, FlightsTrue, OneRecord, Placed, Newer, Up

\* A result: ignored, or recorded in place of one that began no later.
LEMMA SetLiveLemma ==
  ASSUME WatchInv', Kept, NEW f \in flights, SetLive(f)
  PROVE  Kept' /\ Newer
<1>0. TypeOK /\ FlightsTrue /\ OneRecord /\ Placed /\ f \in Flight
  BY DEF Kept, TypeOK
<1>1. /\ f.sees # "nothing yet" /\ flights' = flights \ {f}
      /\ UNCHANGED <<watchVars, clock, landed, todo, absent>>
      /\ live' = IF ~Accepts(f) THEN live ELSE (live \ Of(f.target)) \cup Recorded(f)
  BY DEF SetLive
<1>2. UNCHANGED <<stage, current, leaving>>
  BY <1>1 DEF watchVars
<1>3. FlightsTrue'
  BY <1>0, <1>1, <1>2 DEF FlightsTrue, Up
\* What is recorded: one record of the target, of this inspection.
<1>4. \A l \in Recorded(f) :
        /\ l.target = f.target /\ l.observed = f.started
        /\ l.digest \in Digests \cup {"none"} /\ l.failing \in BOOLEAN
        /\ ~l.failing => l.digest = f.sees
        /\ l \in Record
        /\ \A k \in Recorded(f) : k = l
  <2>1. CASE f.sees # "an error"
    <3>1. Recorded(f) = {Observation(f)}
      BY <2>1 DEF Recorded
    <3>2. f.sees \in Digests /\ f.target \in Targets /\ f.started \in 1 .. MaxClock
      BY <1>0, <1>1, <2>1 DEF Flight
    <3> DEFINE new == Observation(f)
    <3>3. /\ new.target = f.target /\ new.observed = f.started /\ new.failing = FALSE
          /\ new.digest = f.sees /\ new \in Record
      BY <3>2 DEF Observation, Record
    <3>4. Recorded(f) = {new}
      BY <3>1
    <3> HIDE DEF new
    <3>. QED BY <3>2, <3>3, <3>4
  <2>2. CASE f.sees = "an error" /\ Of(f.target) = {}
    <3>1. Recorded(f) = {[target |-> f.target, digest |-> "none", observed |-> f.started, failing |-> TRUE]}
      BY <2>2 DEF Recorded, Doubt
    <3>2. f.target \in Targets /\ f.started \in 1 .. MaxClock
      BY <1>0 DEF Flight
    <3> DEFINE new == [target |-> f.target, digest |-> "none", observed |-> f.started, failing |-> TRUE]
    <3>3. /\ new.target = f.target /\ new.observed = f.started /\ new.failing = TRUE
          /\ new.digest = "none" /\ new \in Record
      BY <3>2 DEF Record
    <3>4. Recorded(f) = {new}
      BY <3>1
    <3> HIDE DEF new
    <3>. QED BY <3>3, <3>4
  <2>3. CASE f.sees = "an error" /\ Of(f.target) # {}
    <3>1. Recorded(f) = {[l EXCEPT !.observed = f.started, !.failing = TRUE] : l \in Of(f.target)}
      BY <2>3 DEF Recorded, Doubt
    <3>2. f.target \in Targets /\ f.started \in 1 .. MaxClock
      BY <1>0 DEF Flight
    <3>3. PICK o \in live : o.target = f.target
      BY <2>3 DEF Of
    <3>4. Of(f.target) = {o}
      BY <1>0, <3>3 DEF Of, OneRecord
    <3> DEFINE new == [o EXCEPT !.observed = f.started, !.failing = TRUE]
    <3>5. Recorded(f) = {new}
      BY <3>1, <3>4
    <3>6. o \in Record
      BY <1>0 DEF TypeOK
    <3>7. /\ new.target = f.target /\ new.observed = f.started /\ new.failing = TRUE
          /\ new.digest \in Digests \cup {"none"} /\ new \in Record
      BY <3>2, <3>3, <3>6 DEF Record
    <3> HIDE DEF new
    <3>. QED BY <3>5, <3>7
  <2>. QED BY <2>1, <2>2, <2>3
<1>5. \A l \in live' : l \in live \/ (Accepts(f) /\ l \in Recorded(f))
  BY <1>1
<1>6. \A a \in live' \ live : a \in Recorded(f) /\ Accepts(f)
  BY <1>5
<1>7. Accepts(f) => \A a \in live' : a.target = f.target => a \in Recorded(f)
  BY <1>1 DEF Of
<1>8. OneRecord'
  BY <1>0, <1>1, <1>4, <1>5, <1>7 DEF OneRecord
<1>9. Placed'
  BY <1>0, <1>1, <1>2, <1>4, <1>5 DEF Placed, Accepts
<1>10. live' \subseteq Record
  BY <1>0, <1>4, <1>5 DEF TypeOK
<1>11. \A t \in Targets : Cardinality(Of(t)') <= 1
  BY <1>8, AtMostOne DEF OneRecord, Of
<1>12. TypeOK'
  BY <1>0, <1>1, <1>10, <1>11 DEF TypeOK, WatchInv, Of
<1>13. Newer
  BY <1>0, <1>4, <1>6 DEF Newer, Accepts, FlightsTrue
<1>. QED BY <1>3, <1>8, <1>9, <1>12, <1>13 DEF Kept

\* The watcher: what it takes out of force it will forget.
LEMMA WatchedLemma ==
  ASSUME WatchInv, WatchInv', Kept, Watch \/ Forget \/ Crash
  PROVE  Kept' /\ Newer
<1>0. TypeOK /\ FlightsTrue /\ OneRecord /\ Placed
  BY DEF Kept
<1>1. /\ UNCHANGED <<clock, landed>> /\ live' \subseteq live
      /\ flights' \subseteq flights /\ todo' \subseteq todo
  BY DEF Watch, Forget, Crash
<1>2. ~Up' => flights' = {} /\ todo' = {}
  <2>1. CASE Watch
    <3>1. stage \notin {"down", "up"} => stage' \notin {"down", "up"}
      BY <2>1 DEF Watch, WatchStep, Edit, ReadFile, FirstLoad, FirstStamp, Poll, PollFails,
                  Loaded, Report, Reloaded
    <3>. QED BY <1>0, <2>1, <3>1 DEF Watch, FlightsTrue, Up
  <2>2. CASE Forget
    BY <2>2 DEF Forget, ForgetRemoved, Up
  <2>3. CASE Crash
    BY <2>3 DEF Crash
  <2>. QED BY <2>1, <2>2, <2>3
<1>3. Placed'
  <2>1. CASE Watch
    <3>1. live' = live
          /\ absent' = IF stage = "down" /\ stage' = "up" THEN Targets \ current'
                       ELSE IF stage = "load" THEN absent \ current' ELSE absent
      BY <2>1 DEF Watch
    <3>2. \A l \in live : l.target \in Targets
      BY <1>0, Clock
    <3>3. CASE stage = "down"
      <4>1. stage' \in {"down", "up"}
        BY <2>1, <3>3 DEF Watch, WatchStep, Edit, ReadFile, FirstLoad, FirstStamp, Poll, PollFails,
                          Loaded, Report, Reloaded
      <4>. QED BY <3>1, <3>2, <3>3, <4>1 DEF Placed
    <3>4. CASE stage = "load"
      <4>1. leaving = {} /\ (current' = current \/ leaving' = current \ current')
        BY <2>1, <3>4 DEF WatchInv, Watch, WatchStep, Edit, ReadFile, FirstLoad, FirstStamp, Poll,
                          PollFails, Loaded, Report, Reloaded
      <4>. QED BY <1>0, <3>1, <3>4, <4>1 DEF Placed
    <3>5. CASE stage \notin {"down", "load"}
      <4>1. UNCHANGED <<current, leaving>>
        BY <2>1, <3>5 DEF Watch, WatchStep, Edit, ReadFile, FirstLoad, FirstStamp, Poll, PollFails,
                          Loaded, Report, Reloaded
      <4>. QED BY <1>0, <3>1, <3>5, <4>1 DEF Placed
    <3>. QED BY <3>3, <3>4, <3>5
  <2>2. CASE Forget
    BY <1>0, <2>2 DEF Forget, ForgetRemoved, Placed
  <2>3. CASE Crash
    BY <2>3 DEF Crash, WatchCrash, Placed
  <2>. QED BY <2>1, <2>2, <2>3
<1>4. OneRecord'
  BY <1>0, <1>1 DEF OneRecord
<1>5. \A t \in Targets : Cardinality(Of(t)') <= 1
  BY <1>4, AtMostOne DEF OneRecord, Of
<1>6. TypeOK'
  BY <1>0, <1>1, <1>5 DEF TypeOK, WatchInv, Of
<1>7. FlightsTrue'
  BY <1>0, <1>1, <1>2 DEF FlightsTrue
<1>8. Newer
  BY <1>1 DEF Newer
<1>. QED BY <1>3, <1>4, <1>6, <1>7, <1>8 DEF Kept

LEMMA StillLemma == ASSUME WatchInv', Kept, UNCHANGED vars PROVE Kept' /\ Newer
<1>1. UNCHANGED <<stage, current, leaving, clock, landed, todo, flights, live, absent>>
  BY DEF vars, inspectVars, watchVars
<1>. QED BY <1>1 DEF Kept, TypeOK, FlightsTrue, OneRecord, Placed, Newer, WatchInv, Of, Up

LEMMA KeptLemma == ASSUME WatchInv, WatchInv', Kept, [Next]_vars PROVE Kept' /\ Newer
<1>1. CASE Next
  BY <1>1, WatchedLemma, LandLemma, ProgramsLemma, SetLiveLemma DEF Next
<1>2. CASE UNCHANGED vars
  BY <1>2, StillLemma
<1>. QED BY <1>1, <1>2

-----------------------------------------------------------------------------
\* The theorems.

\* The inductive invariant.
THEOREM KnownWell == Spec => []IInv
<1>1. Init => IInv
  BY WatchInitLemma, KeptInit DEF Init, IInv, Kept
<1>2. IInv /\ [Next]_vars => IInv'
  BY WatchLemma, KeptLemma DEF IInv, Kept
<1>. QED BY <1>1, <1>2, PTL DEF Spec

\* Types: a target has at most one record.
THEOREM InspectorTypes == Spec => []TypeOK
<1>1. IInv => TypeOK
  BY DEF IInv
<1>. QED BY <1>1, KnownWell, PTL

\* Between polls a directory whose fingerprint the watcher remembers is in
\* force or its error is shown, whatever was edited while it was read
\* (Watcher.Poll).
THEOREM InForceOrReported == Spec => []LoadedOrReported
<1>1. IInv => LoadedOrReported
  BY DEF IInv, WatchInv
<1>. QED BY <1>1, KnownWell, PTL

\* Nothing is known of a target that was taken out of the files and forgotten,
\* although results for it still come in (Controller.setLiveLocked, Forget).
THEOREM ForgottenStays == Spec => []Forgotten
<1>1. IInv => Forgotten
  BY DEF IInv, Placed, Forgotten, Up
<1>. QED BY <1>1, KnownWell, PTL

\* A record gives way only to an observation that began no earlier, and what it
\* says was running was: the inspector's and the tick's programs may end in any
\* order.
THEOREM NewerObservationWins == Spec => NewerWins
<1>1. IInv /\ IInv' /\ [Next]_vars => Newer
  BY KeptLemma DEF IInv, Kept
<1>. QED BY <1>1, KnownWell, PTL DEF Spec, NewerWins, Newer

====
