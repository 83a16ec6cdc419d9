---------------------------- MODULE MCAgentQueue ----------------------------
(* Small instances of AgentQueue for TLC. *)
EXTENDS AgentQueue, TLC

(* Jobs are interchangeable, and so are requests, and workers. *)
Symmetry == Permutations(Jobs) \cup Permutations(Requests) \cup Permutations(Workers)

=============================================================================
