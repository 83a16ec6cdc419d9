----------------------------- MODULE MCWorkflow -----------------------------
(* Small instances of Workflow for TLC. *)
EXTENDS Workflow, TLC

(* Requests are interchangeable, and so are workers. *)
Symmetry == Permutations(Handlers) \cup Permutations(Workers)

=============================================================================
