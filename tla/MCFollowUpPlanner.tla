-------------------------- MODULE MCFollowUpPlanner --------------------------
(***************************************************************************)
(* Model checking of FollowUpPlanner: which values are interchangeable.    *)
(***************************************************************************)
EXTENDS FollowUpPlanner, TLC

\* An expectation that neither the store nor a task refers to is garbage:
\* states that differ in what it held are the same state.
View == <<store, [e \in Exp |-> IF UnusedExp(e) THEN Fresh(0, {}) ELSE exp[e]],
          short, window, task, closed>>

Symmetry == Permutations(Exp) \cup Permutations(Task) \cup Permutations(Msg)
=============================================================================
