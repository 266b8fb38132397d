---- MODULE Registry ----
(***************************************************************************)
(* How the controller learns which digest a tag points at: scans by the    *)
(* tick and by syncs (controller.go: resolveIfDue, resolveAll; actions.go: *)
(* Refresh, Sync), and the client they use (registry/resolver.go), which   *)
(* asks for a digest, a manifest and a config in turn, keeps revisions by  *)
(* digest and fetches a token when one has run out.  Tags are pushed to    *)
(* while all this goes on, and the store may refuse what a scan finds.     *)
(*                                                                         *)
(* Digests are numbered in the order they are pushed, and the revision     *)
(* label of an image is the number of its digest.                          *)
(***************************************************************************)
EXTENDS Naturals

CONSTANTS
  Images,     \* image references
  LastDigest, \* bound: digests pushed to a tag
  Indexes,    \* digests of images built for several platforms
  Syncs,      \* people who sync
  MaxFaults,  \* bound: requests and writes that fail, tokens that run out
  MaxCrashes  \* bound: how often the process stops

ASSUME BoundsAssumption == LastDigest \in Nat \ {0} /\ {"tick", "nobody"} \cap Syncs = {}

VARIABLES
  head,     \* the world: image -> digest its tag points at
  desired,  \* Controller.desired: image -> digest and revision
  failing,  \* Controller.resolveErrors: images that were not resolved last
  saved,    \* the store's copy of desired
  dirty,    \* Controller.dirty: a write was refused
  wanted,   \* Controller.refreshWanted
  due,      \* the poll interval has run out, or nothing was resolved yet
  turn,     \* who holds resolveMu, or nobody
  stage,    \* scanner -> where it is
  scan,     \* scanner -> image -> how far its resolution has come
  tokens,   \* Resolver.tokens: images whose token the registry takes
  cache,    \* Resolver.revisions: digest -> revision
  asked,    \* sync -> what tags pointed at when it was asked for
  owed,     \* a refresh was asked for and no scan has begun since
  faults, crashes

record == <<desired, failing, saved, dirty>>
client == <<tokens, cache>>
scanners == <<turn, stage, scan>>
vars == <<head, record, wanted, due, scanners, client, asked, owed, faults, crashes>>

Digests == 1 .. LastDigest
Scanners == Syncs \cup {"tick"}
Nobody == "nobody"

\* 0 stands for no digest and no revision.
Desired == [digest : 0 .. LastDigest, revision : 0 .. LastDigest]

\* What a resolution asks for next, whether it has fetched a token for that,
\* and what it knows: a digest, and the digest of the manifest it was sent.
Resolution == [step : {"head", "manifest", "platform", "config", "done", "failed"},
               retried : BOOLEAN, digest : 0 .. LastDigest, body : 0 .. LastDigest,
               revision : 0 .. LastDigest]

Start == [step |-> "head", retried |-> FALSE, digest |-> 0, body |-> 0, revision |-> 0]

TypeOK ==
  /\ head \in [Images -> Digests]
  /\ desired \in [Images -> Desired] /\ saved \in [Images -> Desired]
  /\ failing \subseteq Images
  /\ {dirty, wanted, due, owed} \subseteq BOOLEAN
  /\ stage \in [Scanners -> {"idle", "waiting", "scanning", "acting"}]
  /\ \A s \in Scanners : stage[s] = "scanning" <=> turn = s
  /\ turn # Nobody => turn \in Scanners
  /\ scan \in [Scanners -> [Images -> Resolution]]
  /\ tokens \subseteq Images
  /\ cache \in [Digests -> 0 .. LastDigest]
  /\ asked \in [Syncs -> [Images -> 0 .. LastDigest]]

NoScan == [i \in Images |-> Start]

Init ==
  /\ head = [i \in Images |-> 1]
  /\ desired = [i \in Images |-> [digest |-> 0, revision |-> 0]]
  /\ saved = desired
  /\ failing = {} /\ dirty = FALSE
  /\ wanted = FALSE /\ due = TRUE /\ owed = FALSE
  /\ turn = Nobody
  /\ stage = [s \in Scanners |-> "idle"]
  /\ scan = [s \in Scanners |-> NoScan]
  /\ tokens = {} /\ cache = [d \in Digests |-> 0]
  /\ asked = [s \in Syncs |-> [i \in Images |-> 0]]
  /\ faults = 0 /\ crashes = 0

-----------------------------------------------------------------------------
\* The world.

Push(i) ==
  /\ head[i] < LastDigest
  /\ head' = [head EXCEPT ![i] = @ + 1]
  /\ UNCHANGED <<record, wanted, due, scanners, client, asked, owed, faults, crashes>>

\* A token runs out.
Expire(i) ==
  /\ i \in tokens /\ faults < MaxFaults
  /\ tokens' = tokens \ {i}
  /\ faults' = faults + 1
  /\ UNCHANGED <<head, record, wanted, due, scanners, cache, asked, owed, crashes>>

PollDue ==
  /\ ~due
  /\ due' = TRUE
  /\ UNCHANGED <<head, record, wanted, scanners, client, asked, owed, faults, crashes>>

-----------------------------------------------------------------------------
\* Who scans.

Refresh ==
  /\ wanted' = TRUE
  /\ owed' = TRUE
  /\ UNCHANGED <<head, record, due, scanners, client, asked, faults, crashes>>

\* The tick scans when that is due or asked for; the flag is cleared before
\* the scan begins.
ResolveIfDue ==
  /\ stage["tick"] = "idle"
  /\ due \/ wanted
  /\ wanted' = FALSE
  /\ stage' = [stage EXCEPT !["tick"] = "waiting"]
  /\ UNCHANGED <<head, record, due, turn, scan, client, asked, owed, faults, crashes>>

Sync(s) ==
  /\ stage[s] = "idle"
  /\ stage' = [stage EXCEPT ![s] = "waiting"]
  /\ asked' = [asked EXCEPT ![s] = head]
  /\ UNCHANGED <<head, record, wanted, due, turn, scan, client, owed, faults, crashes>>

\* Mutant of MayBegin: scans overlap.
MayBeginAnyTime(s) == stage[s] = "waiting"

\* One scan at a time: resolveMu.
MayBegin(s) == stage[s] = "waiting" /\ turn = Nobody

\* Mutant of NewScan: what another scan found will do.
NewScanReused(s) ==
  [i \in Images |-> IF \E t \in Scanners : scan[t][i].step = "done"
                    THEN scan[CHOOSE t \in Scanners : scan[t][i].step = "done"][i] ELSE Start]

NewScan(s) == NoScan

BeginScan(s) ==
  /\ MayBegin(s)
  /\ turn' = s
  /\ stage' = [stage EXCEPT ![s] = "scanning"]
  /\ scan' = [scan EXCEPT ![s] = NewScan(s)]
  /\ owed' = FALSE
  /\ UNCHANGED <<head, record, wanted, due, client, asked, faults, crashes>>

-----------------------------------------------------------------------------
\* One image of one scan: Resolve.

Resolving(s, i) ==
  /\ stage[s] = "scanning" /\ scan[s][i].step \notin {"done", "failed"}
  /\ UNCHANGED <<head, record, wanted, due, turn, stage, asked, owed, crashes>>

\* The resolution goes on as r, with its next request.
Become(s, i, r) == scan' = [scan EXCEPT ![s][i] = [r EXCEPT !.retried = FALSE]]

\* Mutant of Renewed: a token the client holds is not fetched again.
RenewedOnce(i) == IF \E d \in Digests : cache[d] # 0 THEN tokens ELSE tokens \cup {i}

Renewed(i) == tokens \cup {i}

\* The registry does not take the token, or there is none yet: a new one is
\* fetched and the request sent again, once.
Challenged(s, i) ==
  /\ Resolving(s, i)
  /\ i \notin tokens /\ ~scan[s][i].retried
  /\ tokens' = Renewed(i)
  /\ scan' = [scan EXCEPT ![s][i].retried = TRUE]
  /\ UNCHANGED <<cache, faults>>

\* A request comes to nothing: the network, the token service, or a token
\* that has run out again.  Without its config an image has no revision;
\* without the rest it is not resolved.
RequestFails(s, i) ==
  /\ Resolving(s, i)
  /\ IF i \notin tokens /\ scan[s][i].retried THEN UNCHANGED faults
     ELSE faults < MaxFaults /\ faults' = faults + 1
  /\ Become(s, i, [scan[s][i] EXCEPT
       !.step = IF @ \in {"platform", "config"} THEN "done" ELSE "failed"])
  /\ UNCHANGED client

\* The registry answers what the resolution asks for at this step.
Answered(s, i, step) ==
  /\ Resolving(s, i)
  /\ scan[s][i].step = step /\ i \in tokens
  /\ UNCHANGED <<tokens, faults>>

\* With a revision the client knows the resolution is done, else it goes on.
KnownOr(r, next) ==
  IF r.digest # 0 /\ cache[r.digest] # 0
  THEN [r EXCEPT !.revision = cache[r.digest], !.step = "done"]
  ELSE [r EXCEPT !.step = next]

\* HEAD: the digest of the tag, or none if the registry sends none.
Head(s, i) ==
  /\ Answered(s, i, "head")
  /\ \E d \in {0, head[i]} : Become(s, i, KnownOr([scan[s][i] EXCEPT !.digest = d], "manifest"))
  /\ UNCHANGED cache

\* Mutant of ManifestDigest: the digest HEAD gave stays.
ManifestDigestByHead(r, i) == IF r.digest # 0 THEN r.digest ELSE head[i]

\* The digest of the manifest that was sent, whatever HEAD said before.
ManifestDigest(r, i) == head[i]

\* GET by tag.
Manifest(s, i) ==
  /\ Answered(s, i, "manifest")
  /\ LET r == [scan[s][i] EXCEPT !.digest = ManifestDigest(scan[s][i], i), !.body = head[i]]
     IN Become(s, i, KnownOr(r, IF head[i] \in Indexes THEN "platform" ELSE "config"))
  /\ UNCHANGED cache

\* GET, by its digest, of the manifest for the configured platform.
Platform(s, i) ==
  /\ Answered(s, i, "platform")
  /\ Become(s, i, [scan[s][i] EXCEPT !.step = "config"])
  /\ UNCHANGED cache

\* The revision label, which the client keeps by the digest of the tag.
Config(s, i) ==
  /\ Answered(s, i, "config")
  /\ LET r == scan[s][i]
     IN /\ Become(s, i, [r EXCEPT !.revision = r.body, !.step = "done"])
        /\ cache' = [cache EXCEPT ![r.digest] = r.body]

-----------------------------------------------------------------------------
\* The end of a scan.

\* Mutant of StillWanted: the flag is cleared when the scan is done.
WantedNoMore == FALSE

\* What was asked for during the scan.
StillWanted == wanted

\* Mutant of Refused: the caller ignores the error.
RefusedQuietly == dirty

\* After a write the store refused.
Refused == TRUE

\* The end of resolveAll: what was found is desired from now on, and saved
\* where the digest is another one, unless the store refuses.
Publish(s) ==
  LET found == {i \in Images : scan[s][i].step = "done"}
      lost == {i \in Images : scan[s][i].step = "failed"}
      Found(i) == [digest |-> scan[s][i].digest, revision |-> scan[s][i].revision]
      changed == {i \in found : Found(i).digest # desired[i].digest}
  IN /\ stage[s] = "scanning" /\ found \cup lost = Images
     /\ desired' = [i \in Images |-> IF i \in found THEN Found(i) ELSE desired[i]]
     /\ failing' = lost
     /\ \E written \in {changed} \cup (IF faults < MaxFaults THEN SUBSET changed ELSE {}) :
          /\ saved' = [i \in Images |-> IF i \in written THEN Found(i) ELSE saved[i]]
          /\ IF written = changed THEN UNCHANGED <<dirty, faults>>
             ELSE dirty' = Refused /\ faults' = faults + 1
     /\ due' = FALSE
     /\ wanted' = StillWanted
     /\ turn' = Nobody
     /\ stage' = [stage EXCEPT ![s] = "acting"]
     /\ UNCHANGED <<head, scan, client, asked, owed, crashes>>

\* The sync, or the rest of the tick, has acted on what is desired.
Act(s) ==
  /\ stage[s] = "acting" /\ (s = "tick" => ~dirty)
  /\ stage' = [stage EXCEPT ![s] = "idle"]
  /\ scan' = [scan EXCEPT ![s] = NoScan]
  /\ UNCHANGED <<head, record, wanted, due, turn, client, asked, owed, faults, crashes>>

\* A tick, whether it has scanned or not, first writes what the store refused.
Flush ==
  /\ stage["tick"] \in {"idle", "acting"} /\ dirty
  /\ saved' = desired
  /\ dirty' = FALSE
  /\ UNCHANGED <<head, desired, failing, wanted, due, scanners, client, asked, owed, faults, crashes>>

\* The store refuses again, and the tick ends.
FlushFails ==
  /\ stage["tick"] = "acting" /\ dirty
  /\ faults < MaxFaults
  /\ faults' = faults + 1
  /\ stage' = [stage EXCEPT !["tick"] = "idle"]
  /\ scan' = [scan EXCEPT !["tick"] = NoScan]
  /\ UNCHANGED <<head, record, wanted, due, turn, client, asked, owed, crashes>>

\* The process stops and starts again: Refresh and the client forget all.
Crash ==
  /\ crashes < MaxCrashes
  /\ crashes' = crashes + 1
  /\ desired' = saved
  /\ failing' = {} /\ dirty' = FALSE
  /\ wanted' = FALSE /\ due' = TRUE /\ owed' = FALSE
  /\ turn' = Nobody
  /\ stage' = [s \in Scanners |-> "idle"]
  /\ scan' = [s \in Scanners |-> NoScan]
  /\ tokens' = {} /\ cache' = [d \in Digests |-> 0]
  /\ asked' = [s \in Syncs |-> [i \in Images |-> 0]]
  /\ UNCHANGED <<head, saved, faults>>

Request(s, i) ==
  \/ Challenged(s, i)
  \/ RequestFails(s, i)
  \/ Head(s, i)
  \/ Manifest(s, i)
  \/ Platform(s, i)
  \/ Config(s, i)

Next ==
  \/ \E i \in Images : Push(i) \/ Expire(i)
  \/ PollDue
  \/ Refresh
  \/ ResolveIfDue
  \/ \E s \in Syncs : Sync(s)
  \/ \E s \in Scanners : BeginScan(s) \/ Publish(s) \/ Act(s)
  \/ \E s \in Scanners, i \in Images : Request(s, i)
  \/ Flush \/ FlushFails
  \/ Crash

Spec == Init /\ [][Next]_vars

\* The poll interval runs out, the loop ticks, every request ends by its
\* timeout, and a mutex is handed on to the one who waits for it.
Fairness ==
  /\ WF_vars(PollDue) /\ WF_vars(ResolveIfDue) /\ WF_vars(Flush)
  /\ \A s \in Scanners :
       SF_vars(BeginScan(s)) /\ WF_vars(Publish(s)) /\ WF_vars(Act(s))
  /\ \A s \in Scanners, i \in Images : WF_vars(Request(s, i))

FairSpec == Spec /\ Fairness

-----------------------------------------------------------------------------
\* Properties.

\* However scans of the tick and of syncs meet, a running process never goes
\* back to a digest a tag pointed at before the one it has found: resolveMu
\* (controller.go:311).
NeverBack == [][\A i \in Images : crashes' = crashes => desired'[i].digest >= desired[i].digest]_vars

\* The revision shown for an image is that of its digest, though the tag may
\* move between the requests one resolution makes, and platforms have
\* manifests of their own (resolver.go: Resolve, revision).
RevisionMatches == \A i \in Images : desired[i].revision \in {0, desired[i].digest}

\* A sync acts on digests the tags pointed at when it was asked for, or later
\* ones, for every image it could resolve: "Tags are re-resolved first so the
\* request acts on the current digests" (actions.go:28).
SyncIsCurrent ==
  \A s \in Syncs, i \in Images :
    stage[s] = "acting" /\ scan[s][i].step # "failed" => desired[i].digest >= asked[s][i]

\* A refresh is not lost to a scan under way: until a scan begins after it,
\* the next tick will scan, or waits to (controller.go: resolveIfDue).
RefreshKept == owed => wanted \/ stage["tick"] = "waiting"

\* Unless a write is owed the store has every digest that is desired, so a
\* restart goes on with them (controller.go: resolveAll, persist, flush).
DigestsSaved == ~dirty => \A i \in Images : saved[i].digest = desired[i].digest

\* Once tags and tokens stay as they are the controller has found every digest
\* and reports no error, whatever failed before.
CatchesUp == <>[](\A i \in Images : desired[i].digest = head[i] /\ i \notin failing)
====
