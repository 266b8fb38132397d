---- MODULE RegistryProofs ----
(***************************************************************************)
(* What the controller learns from the registry is true and never goes     *)
(* back, for any images, syncs, faults and restarts.                       *)
(*                                                                         *)
(* Whatever a resolution knows of an image its tag has pointed at (Sound), *)
(* and what the scan under way knows is at least as new as what is desired *)
(* (NotBehind): nobody else publishes while it holds resolveMu.  The       *)
(* properties follow from that in the step that publishes.                 *)
(***************************************************************************)
EXTENDS Registry, TLAPS

\* What a resolution of image i knows.
Sound(r, i) ==
  /\ r.digest <= head[i]
  /\ r.revision \in {0, r.digest}
  /\ r.step \in {"platform", "config"} => r.body = r.digest
  /\ r.step \in {"platform", "config", "done"} => r.digest # 0
  /\ r.step # "done" => r.revision = 0

\* A digest of image i that is known with its revision.
Known(d, i) == d.digest <= head[i] /\ d.revision \in {0, d.digest}

\* A digest the scan of s has found, as it publishes it, is no older than d.
NotBehind(s, i, d) == stage[s] = "scanning" /\ scan[s][i].digest # 0 => scan[s][i].digest >= d

Truths ==
  /\ \A i \in Images : Known(desired[i], i) /\ Known(saved[i], i)
  /\ \A d \in Digests : cache[d] \in {0, d}
  /\ \A s \in Scanners, i \in Images : Sound(scan[s][i], i)

Orders ==
  /\ \A s \in Scanners, i \in Images : NotBehind(s, i, desired[i].digest)
  /\ \A s \in Syncs, i \in Images : asked[s][i] <= head[i] /\ NotBehind(s, i, asked[s][i])

RInv ==
  /\ TypeOK /\ crashes \in Nat
  /\ Truths /\ Orders
  /\ SyncIsCurrent /\ RefreshKept /\ DigestsSaved

\* No digest gives way to an older one, unless the process stops.
Forward == \A i \in Images : crashes' = crashes => desired'[i].digest >= desired[i].digest

Good == RInv' /\ Forward

-----------------------------------------------------------------------------

LEMMA Bounds == /\ LastDigest \in Nat /\ LastDigest > 0
                /\ "tick" \notin Syncs /\ Nobody \notin Scanners
  BY BoundsAssumption DEF Nobody, Scanners

LEMMA Numbers ==
  ASSUME TypeOK, NEW i \in Images
  PROVE  /\ head[i] \in Nat /\ head[i] > 0
         /\ desired[i] \in Desired /\ saved[i] \in Desired
         /\ desired[i].digest \in Nat /\ saved[i].digest \in Nat
         /\ \A s \in Scanners : scan[s][i] \in Resolution /\ scan[s][i].digest \in Nat
         /\ \A s \in Syncs : asked[s][i] \in Nat
  BY Bounds DEF TypeOK, Digests, Desired, Resolution

\* Init.
LEMMA InitLemma == Init => RInv
<1> SUFFICES ASSUME Init PROVE RInv
  OBVIOUS
<1>0. /\ 0 \in 0 .. LastDigest /\ 1 \in Digests /\ Start \in Resolution
      /\ [digest |-> 0, revision |-> 0] \in Desired
  BY Bounds DEF Digests, Start, Resolution, Desired
<1>1. TypeOK
  BY <1>0, Bounds DEF Init, TypeOK, NoScan
<1>2. Truths /\ Orders
  BY <1>0, <1>1, Numbers DEF Init, Truths, Orders, Known, Sound, NotBehind, NoScan, Start, Scanners
<1>3. SyncIsCurrent /\ RefreshKept /\ DigestsSaved
  BY DEF Init, SyncIsCurrent, RefreshKept, DigestsSaved, Scanners
<1>. QED BY <1>1, <1>2, <1>3 DEF RInv, Init

\* The tag moves on: what was known stays known.
LEMMA PushLemma == ASSUME RInv, NEW i \in Images, Push(i) PROVE Good
<1>1. /\ head' = [head EXCEPT ![i] = @ + 1]
      /\ head[i] < LastDigest
      /\ UNCHANGED <<record, wanted, due, scanners, client, asked, owed, faults, crashes>>
  BY DEF Push
<1>2. head' \in [Images -> Digests] /\ \A j \in Images : head'[j] >= head[j] /\ head'[j] \in Nat
  BY <1>1, Bounds, Numbers DEF RInv, TypeOK, Digests
<1>3. TypeOK'
  BY <1>1, <1>2 DEF RInv, TypeOK, record, client, scanners
<1>4. Truths' /\ Orders'
  BY <1>1, <1>2, Numbers
     DEF RInv, Truths, Orders, Known, Sound, NotBehind, record, client, scanners, Desired, Resolution
<1>. QED BY <1>1, <1>3, <1>4, Numbers
         DEF Good, Forward, RInv, SyncIsCurrent, RefreshKept, DigestsSaved, record, scanners

-----------------------------------------------------------------------------
\* Who scans.

\* Steps that touch no digest: a token runs out, a poll is due, a refresh is
\* asked for, the tick is about to scan.
LEMMA FlagsLemma ==
  ASSUME RInv, (\E i \in Images : Expire(i)) \/ PollDue \/ Refresh \/ ResolveIfDue
  PROVE  Good
<1>1. /\ UNCHANGED <<head, record, cache, turn, scan, asked, crashes>>
      /\ tokens' \subseteq tokens
      /\ wanted' \in BOOLEAN /\ due' \in BOOLEAN /\ owed' \in BOOLEAN
      /\ \/ stage' = stage
         \/ stage["tick"] = "idle" /\ stage' = [stage EXCEPT !["tick"] = "waiting"]
      /\ owed' => wanted' \/ stage'["tick"] = "waiting"
  <2>0. /\ wanted \in BOOLEAN /\ due \in BOOLEAN /\ owed \in BOOLEAN
        /\ owed => wanted \/ stage["tick"] = "waiting"
        /\ DOMAIN stage = Scanners /\ "tick" \in Scanners
    BY DEF RInv, TypeOK, RefreshKept, Scanners
  <2>1. CASE \E i \in Images : Expire(i)
    BY <2>0, <2>1 DEF Expire, record, scanners
  <2>2. CASE PollDue
    BY <2>0, <2>2 DEF PollDue, record, client, scanners
  <2>3. CASE Refresh
    BY <2>0, <2>3 DEF Refresh, record, client, scanners
  <2>4. CASE ResolveIfDue
    <3>1. stage["tick"] = "idle" /\ stage' = [stage EXCEPT !["tick"] = "waiting"] /\ wanted' = FALSE
      BY <2>4 DEF ResolveIfDue
    <3>2. stage'["tick"] = "waiting"
      BY <2>0, <3>1
    <3>. QED BY <2>0, <2>4, <3>1, <3>2 DEF ResolveIfDue, record, client
  <2>. QED BY <2>1, <2>2, <2>3, <2>4
<1>2. /\ stage' \in [Scanners -> {"idle", "waiting", "scanning", "acting"}]
      /\ \A s \in Scanners : stage'[s] \in {"scanning", "acting"} => stage'[s] = stage[s]
      /\ \A s \in Scanners : stage[s] \in {"scanning", "acting"} => stage'[s] = stage[s]
  BY <1>1 DEF RInv, TypeOK, Scanners
<1>3. TypeOK'
  BY <1>1, <1>2 DEF RInv, TypeOK, record
<1>4. Truths' /\ Orders'
  BY <1>1, <1>2, Numbers DEF RInv, Truths, Orders, Known, Sound, NotBehind, record, Scanners
<1>5. SyncIsCurrent' /\ RefreshKept' /\ DigestsSaved'
  BY <1>1, <1>2 DEF RInv, SyncIsCurrent, RefreshKept, DigestsSaved, record, Scanners
<1>. QED BY <1>1, <1>3, <1>4, <1>5, Numbers DEF Good, Forward, RInv, record

\* A sync notes what tags point at now.
LEMMA SyncLemma == ASSUME RInv, NEW s \in Syncs, Sync(s) PROVE Good
<1>1. /\ stage[s] = "idle" /\ stage' = [stage EXCEPT ![s] = "waiting"]
      /\ asked' = [asked EXCEPT ![s] = head]
      /\ UNCHANGED <<head, record, wanted, due, turn, scan, client, owed, crashes>>
  BY DEF Sync
<1>2. stage' \in [Scanners -> {"idle", "waiting", "scanning", "acting"}]
  BY <1>1 DEF RInv, TypeOK
<1>3. \A q \in Scanners : IF q = s THEN stage'[q] = "waiting" ELSE stage'[q] = stage[q]
  BY <1>1 DEF RInv, TypeOK, Scanners
<1>4. asked' \in [Syncs -> [Images -> 0 .. LastDigest]]
  BY <1>1, Bounds DEF RInv, TypeOK, Digests
<1>5. \A q \in Syncs : asked'[q] = IF q = s THEN head ELSE asked[q]
  BY <1>1 DEF RInv, TypeOK
<1>6. s # "tick" /\ s \in Scanners
  BY Bounds DEF Scanners
<1>7. TypeOK'
  BY <1>1, <1>2, <1>3, <1>4 DEF RInv, TypeOK, record, client
<1>8. Truths' /\ Orders'
  BY <1>1, <1>3, <1>5, <1>6, Numbers
     DEF RInv, Truths, Orders, Known, Sound, NotBehind, record, client, Scanners
<1>9. SyncIsCurrent' /\ RefreshKept' /\ DigestsSaved'
  BY <1>1, <1>3, <1>5, <1>6 DEF RInv, SyncIsCurrent, RefreshKept, DigestsSaved, record, Scanners
<1>. QED BY <1>1, <1>7, <1>8, <1>9, Numbers DEF Good, Forward, RInv, record

\* A scan begins with nothing known.
LEMMA BeginScanLemma == ASSUME RInv, NEW s \in Scanners, BeginScan(s) PROVE Good
<1>1. /\ stage[s] = "waiting" /\ turn = Nobody
      /\ turn' = s /\ stage' = [stage EXCEPT ![s] = "scanning"]
      /\ scan' = [scan EXCEPT ![s] = NoScan] /\ owed' = FALSE
      /\ UNCHANGED <<head, record, wanted, due, client, asked, crashes>>
  BY DEF BeginScan, MayBegin, NewScan
<1>2. /\ stage' \in [Scanners -> {"idle", "waiting", "scanning", "acting"}]
      /\ \A q \in Scanners : IF q = s THEN stage'[q] = "scanning"
                             ELSE stage'[q] = stage[q] /\ stage[q] # "scanning"
  BY <1>1, Bounds DEF RInv, TypeOK
<1>3. NoScan \in [Images -> Resolution] /\ \A i \in Images : NoScan[i] = Start
  BY Bounds DEF NoScan, Start, Resolution
<1>4. /\ scan' \in [Scanners -> [Images -> Resolution]]
      /\ \A q \in Scanners : scan'[q] = IF q = s THEN NoScan ELSE scan[q]
  BY <1>1, <1>3 DEF RInv, TypeOK
<1>5. TypeOK'
  BY <1>1, <1>2, <1>4 DEF RInv, TypeOK, record, client
<1>6. Truths'
  BY <1>1, <1>3, <1>4, Numbers DEF RInv, Truths, Known, Sound, Start, record, client
<1>7. Orders'
  BY <1>1, <1>2, <1>3, <1>4, Numbers DEF RInv, Orders, NotBehind, Start, record, Scanners
<1>8. SyncIsCurrent' /\ RefreshKept' /\ DigestsSaved'
  BY <1>1, <1>2, <1>4 DEF RInv, SyncIsCurrent, RefreshKept, DigestsSaved, record, Scanners
<1>. QED BY <1>1, <1>5, <1>6, <1>7, <1>8, Numbers DEF Good, Forward, RInv, record

-----------------------------------------------------------------------------
\* One image of one scan.

\* A resolution that goes on with what is sound, and with a digest it had or
\* the one its tag points at, keeps the invariant.
LEMMA ResolutionLemma ==
  ASSUME RInv, NEW s \in Scanners, NEW i \in Images, Resolving(s, i),
         NEW r \in Resolution, scan' = [scan EXCEPT ![s][i] = r], Sound(r, i),
         r.digest \in {0, scan[s][i].digest, head[i]},
         tokens' \subseteq Images,
         cache' \in [Digests -> 0 .. LastDigest], \A d \in Digests : cache'[d] \in {0, d}
  PROVE  Good
<1>1. /\ stage[s] = "scanning"
      /\ UNCHANGED <<head, record, wanted, due, turn, stage, asked, owed, crashes>>
  BY DEF Resolving
<1>2. /\ scan' \in [Scanners -> [Images -> Resolution]]
      /\ \A q \in Scanners, j \in Images :
           scan'[q][j] = IF q = s /\ j = i THEN r ELSE scan[q][j]
  BY DEF RInv, TypeOK
<1>3. TypeOK'
  BY <1>1, <1>2 DEF RInv, TypeOK, record
<1>4. Truths'
  BY <1>1, <1>2 DEF RInv, Truths, Known, Sound, record
<1>5. r.digest \in Nat /\ r.digest # 0 => r.digest = scan[s][i].digest \/ r.digest = head[i]
  BY DEF Resolution
<1>6. ASSUME NEW q \in Scanners, NEW j \in Images, NEW d \in Nat, d <= head[j],
             stage[q] = "scanning" /\ scan[q][j].digest # 0 => scan[q][j].digest >= d
      PROVE  stage'[q] = "scanning" /\ scan'[q][j].digest # 0 => scan'[q][j].digest >= d
  BY <1>1, <1>2, <1>5, <1>6, Numbers DEF RInv
<1>7. Orders'
  BY <1>1, <1>6, Numbers DEF RInv, Orders, Truths, Known, NotBehind, record, Scanners
<1>8. SyncIsCurrent' /\ RefreshKept' /\ DigestsSaved'
  BY <1>1, <1>2 DEF RInv, SyncIsCurrent, RefreshKept, DigestsSaved, record, Scanners
<1>. QED BY <1>1, <1>3, <1>4, <1>7, <1>8, Numbers DEF Good, Forward, RInv, record

\* What KnownOr makes of a resolution that has just been told a digest.
LEMMA KnownOrLemma ==
  ASSUME RInv, NEW i \in Images, NEW r \in Resolution, r.digest <= head[i], r.revision = 0,
         NEW next \in {"manifest", "platform", "config"},
         next # "manifest" => r.body = r.digest /\ r.digest # 0
  PROVE  /\ KnownOr(r, next) \in Resolution
         /\ Sound(KnownOr(r, next), i)
         /\ KnownOr(r, next).digest = r.digest
<1>1. CASE r.digest # 0 /\ cache[r.digest] # 0
  <2>1. r.digest \in Digests
    BY <1>1, Bounds DEF Resolution, Digests
  <2>2. cache[r.digest] = r.digest
    BY <1>1, <2>1 DEF RInv, Truths
  <2>3. KnownOr(r, next) = [r EXCEPT !.revision = r.digest, !.step = "done"]
    BY <1>1, <2>2 DEF KnownOr
  <2>. QED BY <1>1, <2>3 DEF Resolution, Sound
<1>2. CASE ~(r.digest # 0 /\ cache[r.digest] # 0)
  <2>1. KnownOr(r, next) = [r EXCEPT !.step = next]
    BY <1>2 DEF KnownOr
  <2>. QED BY <2>1 DEF Resolution, Sound
<1>. QED BY <1>1, <1>2

\* Whether it has fetched a token for a request says nothing of what it knows.
LEMMA RetriedLemma ==
  ASSUME NEW r \in Resolution, NEW b \in BOOLEAN, NEW i
  PROVE  /\ [r EXCEPT !.retried = b] \in Resolution
         /\ [r EXCEPT !.retried = b].digest = r.digest
         /\ Sound(r, i) => Sound([r EXCEPT !.retried = b], i)
  BY DEF Resolution, Sound

\* Every request and every failure.
LEMMA RequestLemma == ASSUME RInv, NEW s \in Scanners, NEW i \in Images, Request(s, i) PROVE Good
<1> DEFINE old == scan[s][i]
<1>1. /\ old \in Resolution /\ Sound(old, i) /\ head[i] \in Digests /\ head[i] \in Nat
      /\ tokens \subseteq Images /\ cache \in [Digests -> 0 .. LastDigest]
      /\ \A d \in Digests : cache[d] \in {0, d}
  BY Numbers DEF RInv, Truths, TypeOK
<1>2. ASSUME NEW r \in Resolution, Resolving(s, i), Become(s, i, r), Sound(r, i),
             r.digest \in {0, old.digest, head[i]}, UNCHANGED tokens,
             cache' \in [Digests -> 0 .. LastDigest], \A d \in Digests : cache'[d] \in {0, d}
      PROVE  Good
  <2>1. scan' = [scan EXCEPT ![s][i] = [r EXCEPT !.retried = FALSE]]
    BY <1>2 DEF Become
  <2>. QED BY <1>1, <1>2, <2>1, RetriedLemma, ResolutionLemma
<1>3. CASE Challenged(s, i)
  <2>1. scan' = [scan EXCEPT ![s][i] = [old EXCEPT !.retried = TRUE]]
    BY <1>3 DEF Challenged, RInv, TypeOK
  <2>. QED BY <1>1, <1>3, <2>1, RetriedLemma, ResolutionLemma DEF Challenged, Renewed
<1>4. CASE RequestFails(s, i)
  <2> DEFINE r == [old EXCEPT !.step = IF @ \in {"platform", "config"} THEN "done" ELSE "failed"]
  <2>1. r \in Resolution /\ r.digest = old.digest
    BY <1>1 DEF Resolution
  <2>2. Sound(r, i)
    BY <1>1, <1>4 DEF Resolution, Sound, RequestFails, Resolving
  <2>3. Resolving(s, i) /\ Become(s, i, r) /\ UNCHANGED client
    BY <1>4 DEF RequestFails
  <2> HIDE DEF r
  <2>. QED BY <1>1, <1>2, <2>1, <2>2, <2>3 DEF client
<1>5. CASE Head(s, i)
  <2>1. PICK d \in {0, head[i]} : Become(s, i, KnownOr([old EXCEPT !.digest = d], "manifest"))
    BY <1>5 DEF Head
  <2> DEFINE r == [old EXCEPT !.digest = d]
  <2>2. r \in Resolution /\ r.digest = d /\ r.revision = 0 /\ d <= head[i]
    BY <1>1, <1>5 DEF Resolution, Digests, Sound, Head, Answered
  <2> HIDE DEF r
  <2>3. KnownOr(r, "manifest") \in Resolution /\ Sound(KnownOr(r, "manifest"), i)
        /\ KnownOr(r, "manifest").digest = d
    BY <2>2, KnownOrLemma
  <2>4. Become(s, i, KnownOr(r, "manifest"))
    BY <2>1 DEF r
  <2>. QED BY <1>1, <1>2, <1>5, <2>3, <2>4 DEF Head, Answered
<1>6. CASE Manifest(s, i)
  <2> DEFINE r == [old EXCEPT !.digest = head[i], !.body = head[i]]
             next == IF head[i] \in Indexes THEN "platform" ELSE "config"
  <2>b. Become(s, i, KnownOr(r, next))
    BY <1>6 DEF Manifest, ManifestDigest
  <2>0. old.revision = 0
    BY <1>1, <1>6 DEF Sound, Manifest, Answered
  <2>1. head[i] \in 0 .. LastDigest /\ head[i] # 0
    BY <1>1 DEF Digests
  <2>2. r \in Resolution /\ r.digest = head[i] /\ r.body = head[i] /\ r.revision = 0
    BY <1>1, <2>0, <2>1 DEF Resolution
  <2>3. next \in {"platform", "config"}
    OBVIOUS
  <2> HIDE DEF r, next
  <2>4. KnownOr(r, next) \in Resolution /\ Sound(KnownOr(r, next), i)
        /\ KnownOr(r, next).digest = head[i]
    BY <1>1, <2>1, <2>2, <2>3, KnownOrLemma
  <2>. QED BY <1>1, <1>2, <1>6, <2>b, <2>4 DEF Manifest, Answered
<1>7. CASE Platform(s, i)
  <2> DEFINE r == [old EXCEPT !.step = "config"]
  <2>1. r \in Resolution /\ r.digest = old.digest /\ Sound(r, i)
    BY <1>1, <1>7 DEF Resolution, Sound, Platform, Answered
  <2> HIDE DEF r
  <2>2. Become(s, i, r)
    BY <1>7 DEF Platform, r
  <2>. QED BY <1>1, <1>2, <1>7, <2>1, <2>2 DEF Platform, Answered
<1>8. CASE Config(s, i)
  <2> DEFINE r == [old EXCEPT !.revision = old.body, !.step = "done"]
  <2>0. old.body = old.digest /\ old.digest \in Digests
    BY <1>1, <1>8, Bounds DEF Resolution, Sound, Config, Answered, Digests
  <2>1. /\ r \in Resolution /\ r.digest = old.digest
        /\ r.revision = old.digest /\ r.step = "done"
    BY <1>1, <2>0 DEF Resolution
  <2>v. Sound(r, i)
    BY <1>1, <2>0, <2>1 DEF Sound, Digests
  <2>2. Become(s, i, r) /\ cache' = [cache EXCEPT ![old.digest] = old.body]
    BY <1>8 DEF Config
  <2>3. /\ cache' \in [Digests -> 0 .. LastDigest]
        /\ \A d \in Digests : cache'[d] \in {0, d}
    BY <1>1, <2>0, <2>2 DEF Digests
  <2> HIDE DEF r
  <2>. QED BY <1>1, <1>2, <1>8, <2>1, <2>v, <2>2, <2>3 DEF Config, Answered
<1>. QED BY <1>3, <1>4, <1>5, <1>6, <1>7, <1>8 DEF Request

-----------------------------------------------------------------------------
\* The end of a scan, and of a process.

\* What a scan publishes of image i, and what the store has of it afterwards.
LEMMA PublishedLemma ==
  ASSUME RInv, NEW s \in Scanners, Publish(s), NEW i \in Images
  PROVE  /\ desired'[i] \in Desired /\ saved'[i] \in Desired
         /\ Known(desired'[i], i) /\ Known(saved'[i], i)
         /\ desired'[i].digest >= desired[i].digest
         /\ scan[s][i].step \in {"done", "failed"}
         /\ scan[s][i].step = "done" => desired'[i].digest = scan[s][i].digest
         /\ ~dirty' => saved'[i].digest = desired'[i].digest
<1> DEFINE found == {j \in Images : scan[s][j].step = "done"}
           lost == {j \in Images : scan[s][j].step = "failed"}
           Found(j) == [digest |-> scan[s][j].digest, revision |-> scan[s][j].revision]
           changed == {j \in found : Found(j).digest # desired[j].digest}
<1>1. /\ found \cup lost = Images
      /\ desired' = [j \in Images |-> IF j \in found THEN Found(j) ELSE desired[j]]
      /\ stage[s] = "scanning"
  BY DEF Publish
<1>2. PICK written \in {changed} \cup SUBSET changed :
        /\ saved' = [j \in Images |-> IF j \in written THEN Found(j) ELSE saved[j]]
        /\ IF written = changed THEN UNCHANGED <<dirty, faults>> ELSE dirty' = TRUE
  BY DEF Publish, Refused
<1>3. /\ desired[i] \in Desired /\ saved[i] \in Desired /\ Known(desired[i], i) /\ Known(saved[i], i)
      /\ scan[s][i] \in Resolution /\ Sound(scan[s][i], i)
  BY Numbers DEF RInv, Truths
<1>4. Found(i) \in Desired /\ Known(Found(i), i)
  BY <1>3 DEF Desired, Resolution, Known, Sound
<1>5. i \in found => Found(i).digest >= desired[i].digest
  BY <1>1, <1>3 DEF RInv, Orders, NotBehind, Sound
<1>6. desired'[i] = (IF i \in found THEN Found(i) ELSE desired[i])
  BY <1>1
<1>7. saved'[i] = (IF i \in written THEN Found(i) ELSE saved[i])
  BY <1>2
<1>8. i \in found \/ i \in lost
  BY <1>1
<1>9. ASSUME ~dirty' PROVE saved'[i].digest = desired'[i].digest
  <2>1. written = changed /\ ~dirty
    BY <1>2, <1>9
  <2>2. saved[i].digest = desired[i].digest
    BY <2>1 DEF RInv, DigestsSaved
  <2>. QED BY <1>6, <1>7, <2>1, <2>2
<1>10. desired[i].digest \in Nat
  BY Numbers DEF RInv
<1>. QED BY <1>3, <1>4, <1>5, <1>6, <1>7, <1>8, <1>9, <1>10

LEMMA PublishLemma == ASSUME RInv, NEW s \in Scanners, Publish(s) PROVE Good
<1>1. /\ stage[s] = "scanning" /\ stage' = [stage EXCEPT ![s] = "acting"]
      /\ failing' \subseteq Images
      /\ due' = FALSE /\ wanted' = wanted /\ turn' = Nobody
      /\ UNCHANGED <<head, scan, client, asked, owed, crashes>>
      /\ dirty' = dirty \/ dirty' = TRUE
  BY DEF Publish, StillWanted, Refused
<1>2. /\ desired' \in [Images -> Desired] /\ saved' \in [Images -> Desired]
  <2>1. desired' = [i \in Images |-> desired'[i]] /\ saved' = [i \in Images |-> saved'[i]]
    BY DEF Publish
  <2>. QED BY <2>1, PublishedLemma
<1>3. /\ stage' \in [Scanners -> {"idle", "waiting", "scanning", "acting"}]
      /\ \A q \in Scanners : stage'[q] # "scanning"
      /\ \A q \in Scanners : IF q = s THEN stage'[q] = "acting" ELSE stage'[q] = stage[q]
  BY <1>1, Bounds DEF RInv, TypeOK
<1>4. TypeOK'
  BY <1>1, <1>2, <1>3, Bounds DEF RInv, TypeOK, client
<1>5. Truths'
  BY <1>1, PublishedLemma DEF RInv, Truths, Known, Sound, client
<1>6. Orders'
  BY <1>1, <1>3 DEF RInv, Orders, NotBehind, Scanners
<1>7. SyncIsCurrent'
  <2>1. ASSUME NEW q \in Syncs, NEW i \in Images, stage'[q] = "acting", scan[q][i].step # "failed"
        PROVE  desired'[i].digest >= asked[q][i]
    <3>1. CASE q = s
      <4>1. desired'[i].digest = scan[s][i].digest /\ scan[s][i].digest # 0
        BY <2>1, <3>1, PublishedLemma DEF RInv, Truths, Sound
      <4>. QED BY <1>1, <3>1, <4>1 DEF RInv, Orders, NotBehind
    <3>2. CASE q # s
      <4>1. desired[i].digest >= asked[q][i] /\ desired'[i].digest >= desired[i].digest
        BY <1>3, <2>1, <3>2, PublishedLemma DEF RInv, SyncIsCurrent, Scanners
      <4>2. desired'[i].digest \in Nat
        BY <1>2, Bounds DEF Desired
      <4>. QED BY <4>1, <4>2, Numbers DEF RInv
    <3>. QED BY <3>1, <3>2
  <2>. QED BY <1>1, <2>1 DEF SyncIsCurrent
<1>8. RefreshKept' /\ DigestsSaved'
  BY <1>1, <1>3, PublishedLemma DEF RInv, RefreshKept, DigestsSaved, Scanners
<1>. QED BY <1>1, <1>4, <1>5, <1>6, <1>7, <1>8, PublishedLemma DEF Good, Forward, RInv

\* What was acted on is forgotten, and what a tick could not write is written
\* or not.
LEMMA EndLemma ==
  ASSUME RInv, (\E s \in Scanners : Act(s)) \/ FlushFails \/ Flush
  PROVE  Good
<1>1. CASE (\E s \in Scanners : Act(s)) \/ FlushFails
  <2>1. PICK s \in Scanners :
          /\ stage[s] = "acting" /\ stage' = [stage EXCEPT ![s] = "idle"]
          /\ scan' = [scan EXCEPT ![s] = NoScan]
          /\ UNCHANGED <<head, record, wanted, due, turn, client, asked, owed, crashes>>
    BY <1>1 DEF Act, FlushFails, Scanners
  <2>2. /\ stage' \in [Scanners -> {"idle", "waiting", "scanning", "acting"}]
        /\ \A q \in Scanners : IF q = s THEN stage'[q] = "idle" ELSE stage'[q] = stage[q]
    BY <2>1 DEF RInv, TypeOK
  <2>3. NoScan \in [Images -> Resolution] /\ \A i \in Images : NoScan[i] = Start
    BY Bounds DEF NoScan, Start, Resolution
  <2>4. /\ scan' \in [Scanners -> [Images -> Resolution]]
        /\ \A q \in Scanners : scan'[q] = IF q = s THEN NoScan ELSE scan[q]
    BY <2>1, <2>3 DEF RInv, TypeOK
  <2>5. TypeOK'
    BY <2>1, <2>2, <2>4 DEF RInv, TypeOK, record, client
  <2>6. Truths'
    BY <2>1, <2>3, <2>4, Numbers DEF RInv, Truths, Known, Sound, Start, record, client
  <2>7. Orders' /\ SyncIsCurrent' /\ RefreshKept' /\ DigestsSaved'
    BY <2>1, <2>2, <2>3, <2>4
       DEF RInv, Orders, NotBehind, Start, record, Scanners, SyncIsCurrent, RefreshKept, DigestsSaved
  <2>. QED BY <2>1, <2>5, <2>6, <2>7, Numbers DEF Good, Forward, RInv, record
<1>2. CASE Flush
  <2>1. /\ saved' = desired /\ dirty' = FALSE
        /\ UNCHANGED <<head, desired, failing, wanted, due, scanners, client, asked, owed, crashes>>
    BY <1>2 DEF Flush
  <2>2. TypeOK'
    BY <2>1 DEF RInv, TypeOK, scanners, client
  <2>3. Truths' /\ Orders'
    BY <2>1 DEF RInv, Truths, Known, Sound, Orders, NotBehind, scanners, client
  <2>4. SyncIsCurrent' /\ RefreshKept' /\ DigestsSaved'
    BY <2>1 DEF RInv, SyncIsCurrent, RefreshKept, DigestsSaved, scanners
  <2>. QED BY <2>1, <2>2, <2>3, <2>4, Numbers DEF Good, Forward, RInv
<1>. QED BY <1>1, <1>2

\* A restart knows what the store has.
LEMMA CrashLemma == ASSUME RInv, Crash PROVE Good
<1>0. /\ 0 \in 0 .. LastDigest /\ Start \in Resolution
      /\ crashes' = crashes + 1 /\ crashes' \in Nat /\ crashes' # crashes
  BY Bounds DEF Start, Resolution, Crash, RInv
<1>1. /\ desired' = saved /\ saved' = saved /\ head' = head
      /\ cache' = [d \in Digests |-> 0]
      /\ stage' = [s \in Scanners |-> "idle"] /\ scan' = [s \in Scanners |-> NoScan]
      /\ asked' = [s \in Syncs |-> [i \in Images |-> 0]]
      /\ dirty' = FALSE /\ owed' = FALSE
  BY DEF Crash
<1>2. TypeOK'
  BY <1>0, Bounds DEF RInv, TypeOK, Crash, NoScan
<1>3. Truths'
  BY <1>1, Numbers DEF RInv, Truths, Known, Sound, NoScan, Start
<1>4. Orders'
  BY <1>1, Numbers DEF RInv, Orders, NotBehind, Scanners
<1>5. SyncIsCurrent' /\ RefreshKept' /\ DigestsSaved'
  BY <1>1 DEF SyncIsCurrent, RefreshKept, DigestsSaved, Scanners
<1>. QED BY <1>0, <1>2, <1>3, <1>4, <1>5 DEF Good, Forward, RInv

LEMMA StepLemma == ASSUME RInv, [Next]_vars PROVE Good
<1>1. CASE UNCHANGED vars
  <2>1. RInv'
    BY <1>1 DEF vars, record, client, scanners, RInv, TypeOK, Truths, Known, Sound, Orders, NotBehind,
                SyncIsCurrent, RefreshKept, DigestsSaved
  <2>. QED BY <1>1, <2>1, Numbers DEF Good, Forward, RInv, vars, record
<1>. QED BY <1>1, PushLemma, FlagsLemma, SyncLemma, BeginScanLemma, RequestLemma, PublishLemma,
            EndLemma, CrashLemma DEF Next

-----------------------------------------------------------------------------
\* The types, and what is known is true of what tags have pointed at, for any
\* images, syncs, faults and restarts.
THEOREM KnownTrue == Spec => []RInv
<1>1. RInv /\ [Next]_vars => RInv'
  BY StepLemma DEF Good
<1>. QED BY <1>1, InitLemma, PTL DEF Spec

\* The variables keep their types.
THEOREM TypesKept == Spec => []TypeOK
<1>1. RInv => TypeOK
  BY DEF RInv
<1>. QED BY <1>1, KnownTrue, PTL

\* The revision shown for an image is that of its digest (resolver.go: Resolve,
\* revision), although tags move between the requests and scans share a cache.
THEOREM RevisionsMatch == Spec => []RevisionMatches
<1>1. RInv => RevisionMatches
  BY DEF RInv, Truths, Known, RevisionMatches
<1>. QED BY <1>1, KnownTrue, PTL

\* A sync acts on digests no older than those its person saw (actions.go:28),
\* whoever else scans at the time.
THEOREM SyncsCurrent == Spec => []SyncIsCurrent
<1>1. RInv => SyncIsCurrent
  BY DEF RInv
<1>. QED BY <1>1, KnownTrue, PTL

\* No refresh is lost to a scan under way (controller.go: resolveIfDue).
THEOREM RefreshesKept == Spec => []RefreshKept
<1>1. RInv => RefreshKept
  BY DEF RInv
<1>. QED BY <1>1, KnownTrue, PTL

\* A controller that owes the store nothing has every digest there
\* (controller.go: resolveAll, persist, flush), whatever was refused.
THEOREM AllDigestsSaved == Spec => []DigestsSaved
<1>1. RInv => DigestsSaved
  BY DEF RInv
<1>. QED BY <1>1, KnownTrue, PTL

\* A running process never goes back to an older digest (controller.go:311),
\* however many syncs scan beside the tick.
THEOREM NeverGoesBack == Spec => NeverBack
<1>1. RInv /\ [Next]_vars => RInv' /\ Forward
  BY StepLemma DEF Good
<1>. QED BY <1>1, InitLemma, PTL DEF Spec, NeverBack, Forward

====
