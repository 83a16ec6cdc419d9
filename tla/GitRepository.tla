--------------------------- MODULE GitRepository ---------------------------
(***************************************************************************)
(* The default branch of a repository in GitFlame, as the backend uses it: *)
(* users push to it, and any call to GitFlame may fail.                    *)
(*                                                                         *)
(* The content of a file is the commit that last changed it, 0 when there  *)
(* is no such file.                                                        *)
(***************************************************************************)
EXTENDS AIConfig

CONSTANTS
    Initial,    \* the files of the first commit
    MaxHead,    \* bound: commits on the branch
    MaxFaults   \* bound: failed calls

ASSUME RepositoryAssumption == MaxHead \in Nat \ {0} /\ MaxFaults \in Nat /\ Initial \subseteq Files

VARIABLES
    head,    \* the newest commit
    repo,    \* repo[f]: the commit that last changed f, or Absent
    faults

repositoryVars == <<head, repo, faults>>

Absent == 0

(* A commit of a user adds, changes or deletes a file. *)
Push ==
    /\ head < MaxHead
    /\ head' = head + 1
    /\ \E f \in Files :
          \/ repo' = [repo EXCEPT ![f] = head + 1]
          \/ repo[f] # Absent /\ repo' = [repo EXCEPT ![f] = Absent]
    /\ UNCHANGED faults

Fault == faults < MaxFaults /\ faults' = faults + 1

RepositoryInit ==
    /\ head = 1 /\ faults = 0
    /\ repo = [f \in Files |-> IF f \in Initial THEN 1 ELSE Absent]

RepositoryTypeOK ==
    /\ head \in 1..MaxHead /\ faults \in 0..MaxFaults
    /\ repo \in [Files -> 0..MaxHead]

=============================================================================
