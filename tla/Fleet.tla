---- MODULE Fleet ----
(***************************************************************************)
(* The fixed surroundings of one rolloor instance: what a targets file can *)
(* say, which digests exist, the weight of nodes and the disruption        *)
(* budget.  Targets and nodes are numbered in the order of their names,    *)
(* because the update order of a rollout sorts by name.                    *)
(***************************************************************************)
EXTENDS Naturals, FiniteSets, Strategy

CONSTANTS
  Targets,        \* target ids, numbered in name order
  Nodes,          \* node names, numbered in name order
  Groups,         \* values of the group label
  Images,         \* image references
  Digests,        \* digests a tag can point at, numbered in release order
  NoDigest,       \* "not known" or "not set": the zero value of a digest
  Files,          \* the valid targets files an operator may put in place
  InitialFile,    \* the one the process starts with
  W,              \* W[f][S]: what the nodes S weigh together by the file f
  Budget,         \* Budget[f]: weight that may be unavailable at once while f
                  \* is in force; a share is one of f's total weight
  StrategyOf,     \* the configured strategies, by name
  DefaultPolicy,  \* what a group that chose nothing gets
  RolloutIds      \* ids rollouts can get; how many there are bounds the model

\* One line of a targets file, without its id.
Entry == [node : Nodes, group : Groups, image : Images, wave : Nat, soak : BOOLEAN]

MaybeDigest == Digests \cup {NoDigest}

\* A group's policy: manual or automated, a strategy, and pinned images.
Policy == [manual : BOOLEAN, strategy : DOMAIN StrategyOf, pins : [Images -> MaybeDigest]]

ASSUME NamesAssumption ==
  /\ Targets \subseteq Nat /\ IsFiniteSet(Targets)
  /\ Nodes \subseteq Nat /\ IsFiniteSet(Nodes)
  /\ RolloutIds \subseteq Nat
  /\ Digests \subseteq Nat
  /\ NoDigest \notin Digests
  /\ Nodes # {} /\ Groups # {} /\ Digests # {} /\ Images # {}

\* A file maps the ids it lists to their entries.
ASSUME FilesAssumption ==
  /\ InitialFile \in Files
  /\ \A f \in Files : DOMAIN f \subseteq Targets /\ f \in [DOMAIN f -> Entry]

\* Weights are not negative, a set of nodes weighs what its parts weigh, nodes
\* that weigh nothing weigh nothing together, and a node the file does not
\* name weighs nothing.
ASSUME WeightAssumption ==
  /\ W \in [Files -> [SUBSET Nodes -> Nat]]
  /\ Budget \in [Files -> Nat]
  /\ \A f \in Files : \A S \in SUBSET Nodes, T \in SUBSET Nodes :
       S \cap T = {} => W[f][S \cup T] = W[f][S] + W[f][T]
  /\ \A f \in Files : \A S \in SUBSET Nodes : (\A n \in S : W[f][{n}] = 0) => W[f][S] = 0
  /\ \A f \in Files : \A n \in Nodes : (\A t \in DOMAIN f : f[t].node # n) => W[f][{n}] = 0

ASSUME PolicyAssumption ==
  /\ StrategyOf \in [DOMAIN StrategyOf -> Strategies]
  /\ DefaultPolicy \in Policy

\* The groups and images a file names.
GroupsOf(f) == {f[t].group : t \in DOMAIN f}
ImagesOf(f) == {f[t].image : t \in DOMAIN f}

\* A selector is a record over some of "id", "node", "group"; a target
\* matches when every key it has agrees.
Match(sel, f, t) ==
  \A k \in DOMAIN sel : sel[k] = (IF k = "id" THEN t ELSE f[t][k])

Select(sel, f) == {t \in DOMAIN f : Match(sel, f, t)}

====
