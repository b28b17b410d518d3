---------------------------- MODULE MCPlanExecute ----------------------------
(* Plans of one or two tasks: alone, independent, in order, in the wrong     *)
(* order, and with a dependency that was cut off the plan.                   *)
EXTENDS PlanExecute

MCShapes == {<<{}>>, <<{}, {}>>, <<{}, {1}>>, <<{2}, {}>>, <<{}, {6}>>}

\* Tails a replanner may answer with: nothing, the failed task under its old
\* id, an id of the finished prefix next to a task that depends on it, and new
\* tasks of which one depends on a task that was dropped.
MCTails == {<<>>,
            <<[id |-> 1, deps |-> {}], [id |-> 2, deps |-> {1}]>>,
            <<[id |-> 4, deps |-> {}], [id |-> 4, deps |-> {2}]>>,
            <<[id |-> 4, deps |-> {2}], [id |-> 3, deps |-> {}]>>}
=============================================================================
