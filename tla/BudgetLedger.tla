---- MODULE BudgetLedger ----
(***************************************************************************)
(* What the disruption budget promises, with nothing said of rollouts:     *)
(* nodes are taken out of service together only while the weight of all    *)
(* that are then out fits the budget, and are brought back at any time.    *)
(* Weights and budget are those of the targets file in force, and the file *)
(* may change under what is out.  Controller implements it.                *)
(***************************************************************************)
EXTENDS Fleet

VARIABLES
  file,        \* the targets file in force
  unavailable  \* the nodes the budget counts

AllAvailable == file = InitialFile /\ unavailable = {}

\* The nodes S go out beside those already out; what weighs nothing always
\* may.
TakeOut(S) ==
  /\ W[file][S] = 0 \/ W[file][unavailable \cup S] <= Budget[file]
  /\ unavailable' = unavailable \cup S
  /\ UNCHANGED file

BringBack(S) == unavailable' = unavailable \ S /\ UNCHANGED file

\* A changed file weighs anew what is out, and moves nothing.
Reweigh == file' \in Files /\ UNCHANGED unavailable

LedgerStep == Reweigh \/ \E S \in SUBSET Nodes : TakeOut(S) \/ BringBack(S)

WithinBudget == AllAvailable /\ [][LedgerStep]_<<file, unavailable>>

====
