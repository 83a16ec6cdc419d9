---------------------------- MODULE PullRequest ----------------------------
(***************************************************************************)
(* What applying generated files promises, whatever calls it takes: the    *)
(* accepted changes become visible on the branch of the issue and are not  *)
(* lost again, a pull request is opened only when all of them are, and     *)
(* success is reported only when one has been opened.                      *)
(***************************************************************************)
EXTENDS Naturals

VARIABLES
    changes,   \* the accepted changes, none before generation
    visible,   \* those that are on the branch
    request,   \* the pull request: none, open or closed (merged or not)
    reported   \* the session says that it was applied

vars == <<changes, visible, request, reported>>

Init == changes = {} /\ visible = {} /\ request = "none" /\ reported = FALSE

Accept == changes = {} /\ changes' # {} /\ UNCHANGED <<visible, request, reported>>

Show ==
    /\ visible \subseteq visible' /\ visible' \subseteq changes
    /\ UNCHANGED <<changes, request, reported>>

Open ==
    /\ changes # {} /\ visible = changes /\ request # "open"
    /\ request' = "open"
    /\ UNCHANGED <<changes, visible, reported>>

Close == request = "open" /\ request' = "closed" /\ UNCHANGED <<changes, visible, reported>>

Report == request # "none" /\ reported' = TRUE /\ UNCHANGED <<changes, visible, request>>

(* An attempt that fails later takes the report back. *)
Retract == reported' = FALSE /\ UNCHANGED <<changes, visible, request>>

Next == Accept \/ Show \/ Open \/ Close \/ Report \/ Retract

Spec == Init /\ [][Next]_vars

=============================================================================
