---- MODULE ControllerRefines ----
(***************************************************************************)
(* The controller implements the two abstract specifications: its          *)
(* in-flight nodes are the ledger's, its rollouts' states the lifecycle's. *)
(***************************************************************************)
EXTENDS Controller

TheLedger == INSTANCE BudgetLedger WITH unavailable <- InFlight(rollouts)

TheLifecycle == INSTANCE Lifecycle
  WITH state <- [r \in RolloutIds |-> rollouts[r].state],
       group <- [r \in RolloutIds |-> rollouts[r].group]

\* Every step of the controller takes nodes out of service within the budget
\* of the targets file then in force or gives them back, and does nothing else
\* to the budget, also while the file changes.
ImplementsLedger == TheLedger!WithinBudget

\* Every step moves rollouts along the lifecycle's edges, and opens one only
\* in a group without an active one.
ImplementsLifecycle == TheLifecycle!LifecycleSpec

====
