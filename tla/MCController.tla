---- MODULE MCController ----
(***************************************************************************)
(* Small fleets, strategies and policies for TLC.                          *)
(***************************************************************************)
EXTENDS ControllerRefines, FiniteSetsExt, TLC

\* Node 3 weighs two, every other node one, and a node no line names nothing.
MCW ==
  [f \in Files |-> [S \in SUBSET Nodes |->
     MapThenSumSet(LAMBDA n : IF n = 3 THEN 2 ELSE 1, S \cap {f[t].node : t \in DOMAIN f})]]

\* maxUnavailable as a weight, and as half of the file's weight.  Weights are
\* whole, so that rounding the half down decides nothing differently.
UpToOne == [f \in Files |-> 1]
UpToTwo == [f \in Files |-> 2]
UpToHalf == [f \in Files |-> MCW[f][Nodes] \div 2]

\* A target of group g runs the image named like the group.
Line(n, g, w, s) == [node |-> n, group |-> g, image |-> g, wave |-> w, soak |-> s]

\* One group in two waves over three nodes; the heavy node comes last.
WaveFile == 1 :> Line(1, "a", 2, FALSE) @@ 2 :> Line(2, "a", 1, FALSE) @@ 3 :> Line(3, "a", 2, FALSE)
\* Two groups share node 1, and each has a target elsewhere: the budget
\* makes them wait for each other.  Group a has soak programs.
SoakFile == 1 :> Line(1, "a", 1, TRUE) @@ 2 :> Line(1, "b", 1, FALSE) @@ 3 :> Line(2, "a", 1, TRUE)
\* One target with a soak program.
SoloFile == 1 :> Line(1, "a", 1, TRUE)
PairFile == 1 :> Line(1, "a", 1, FALSE) @@ 3 :> Line(2, "a", 1, FALSE)
\* Reloads of PairFile: target 1 leaves, or moves to group b with its image, or to node 2.
ThirdAlone == 3 :> Line(2, "a", 1, FALSE)
FirstToB == 1 :> [Line(1, "b", 1, FALSE) EXCEPT !.image = "a"] @@ ThirdAlone
FirstToNode2 == 1 :> Line(2, "a", 1, FALSE) @@ ThirdAlone

\* Two groups that share node 1; then without the first target.  Both files
\* weigh every node the same.
ApartFile == 1 :> Line(1, "a", 1, FALSE) @@ 2 :> Line(2, "b", 1, FALSE) @@ 3 :> Line(1, "b", 2, FALSE)
FirstLeft == 2 :> Line(2, "b", 1, FALSE) @@ 3 :> Line(1, "b", 2, FALSE)

JustSoak == {SoakFile}
JustSolo == {SoloFile}
JustPair == {PairFile}
Leavings == {ApartFile, FirstLeft}
JustWave == {WaveFile}
Reloads == {PairFile, ThirdAlone, FirstToB, FirstToNode2}

Count(k) == [percent |-> FALSE, n |-> k]
Share(k) == [percent |-> TRUE, n |-> k]

\* One node at a time, no soak.
Plain == [firstSet |-> FALSE, first |-> Count(1), size |-> Count(1), pauseFirst |-> FALSE,
          waves |-> TRUE, soak |-> FALSE, limit |-> 0]
\* All nodes at once, as far as the budget allows.
Wide == [Plain EXCEPT !.size = Share(100)]
\* A canary batch of two nodes, then the rest after a promote.
Canary == [Wide EXCEPT !.firstSet = TRUE, !.first = Count(2), !.pauseFirst = TRUE]
\* A soak that tolerates one failed check.
Watched == [Wide EXCEPT !.soak = TRUE, !.limit = 1]

\* A soak that tolerates none.
Strict == [Watched EXCEPT !.limit = 0]

OnlyWide == "default" :> Wide
OnlyCanary == "default" :> Canary
\* Watched, one hundredth of the nodes at a time: one node.
Slow == [Watched EXCEPT !.size = Share(1)]

OnlySlow == "default" :> Slow
OnlyStrict == "default" :> Strict
OnlyWatched == "default" :> Watched
WideAndCanary == "default" :> Wide @@ "canary" :> Canary

NoPins == [i \in Images |-> NoDigest]
Automated == [manual |-> FALSE, strategy |-> "default", pins |-> NoPins]
Manual == [Automated EXCEPT !.manual = TRUE]
\* Automated, with every image held at the first digest.
Pinned == [Automated EXCEPT !.pins = [i \in Images |-> 1]]

SomePolicies == {Automated, Manual, Pinned}
ById == {[id |-> 1]}
Nothing == {}

====
