----------------------------- MODULE MCWorkflow -----------------------------
(***************************************************************************)
(* Workflow on small instances.                                            *)
(***************************************************************************)
EXTENDS Workflow, TLC

\* Records are interchangeable, and so are agents while all of them hold the
\* same shift roles.
Symmetry == Permutations(Records) \cup Permutations(Agents)

=============================================================================
