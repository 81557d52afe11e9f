---------------------------- MODULE MCAdmission -----------------------------
(* Admission for TLC: one objective under each of four sets of limits. *)
EXTENDS Admission

LimitsOf(n, depth, branching, e, k) ==
  [max_missions |-> n, max_depth |-> depth, max_branching |-> branching,
   evidence |-> e, ratio |-> k]

\* The budget is one child; the shape of the tree is what binds; evidence is
\* asked for after the first child; the breaker trips after the first child.
MCLimits == {LimitsOf(1, 2, 2, 0, 0), LimitsOf(2, 1, 1, 0, 0),
             LimitsOf(2, 2, 2, 1, 0), LimitsOf(2, 1, 2, 0, 1)}

=============================================================================
