---------------------------- MODULE ApplyChanges ----------------------------
(***************************************************************************)
(* Turning accepted file operations into a pull request: the apply request *)
(* of httpapi/server.go and GitFlameClient.ApplyGeneratedFiles with the    *)
(* calls below it (httpapi/gitflame_client.go).  Several requests may work *)
(* on one session at once, each with its own copy of the session's row.    *)
(*                                                                         *)
(* Every call to GitFlame is one step.  It may fail without effect, and a  *)
(* call that writes may take effect and lose its answer.  Either GitFlame  *)
(* takes all operations as one commit, or it has no such resource and each *)
(* file is written by itself.  The branch of the issue is not the default  *)
(* branch and only the backend writes to it; users push to the default     *)
(* branch, and merge or close the pull request.  The SHA of a file stands  *)
(* for its content.  The pages of open pull requests are one answer.       *)
(***************************************************************************)
EXTENDS GitRepository, GeneratedFiles

CONSTANTS
    Requests,   \* concurrent apply requests
    Apis        \* how GitFlame takes the files: "commits", "contents"

VARIABLES
    session,   \* the session's row: the request's files, the operations, the apply status
    api,       \* how GitFlame takes the files
    branch,    \* the branch of the issue: does it exist, from what was it made, what is on it
    pr,        \* the pull request
    apply      \* apply[r]: what request r is doing

applyVars == <<session, api, branch, pr, apply>>

ApplyPC == {"idle", "branch", "lookup", "commit", "create", "sha", "put", "find", "open", "find_again", "save"}
IdleRequest == [pc |-> "idle", ops |-> <<>>, existed |-> FALSE, next |-> 0, sha |-> Absent, tries |-> 0,
                result |-> "none"]

Doing(r, pc) == apply[r].pc = pc
Go(r, state) == apply' = [apply EXCEPT ![r] = state]
GoTo(r, pc) == Go(r, [apply[r] EXCEPT !.pc = pc])
(* The call fails, or GitFlame refuses it, or all is done. *)
End(r, result) == Go(r, [apply[r] EXCEPT !.pc = "save", !.result = result])

OnlyApply == UNCHANGED <<head, repo, session, api, branch, pr>>
OnlyBranch == UNCHANGED <<head, repo, session, api, pr>>

(* What an operation leaves in its file. *)
Target(op) == IF op.action = "delete" THEN Absent ELSE op.content
Written(content, op) == [content EXCEPT ![op.path] = Target(op)]
Visible(op) == branch.made /\ branch.content[op.path] = Target(op)

-----------------------------------------------------------------------------
(* applyGeneratedFiles: the request *)

(* Nothing is done again when applied; without an effective change it      *)
(* fails at once.                                                          *)
BeginApply(r) ==
    /\ Doing(r, "idle") /\ session.ops # <<>>
    /\ LET ops == DropNoopGeneratedFiles(session.ops, session.files)
       IN  \/ session.status = "applied" /\ UNCHANGED <<session, apply>>
           \/ /\ session.status # "applied" /\ ops = <<>>
              /\ session' = [session EXCEPT !.status = "failed"] /\ UNCHANGED apply
           \/ /\ session.status # "applied" /\ ops # <<>>
              /\ Go(r, [IdleRequest EXCEPT !.pc = "branch", !.ops = ops]) /\ UNCHANGED session
    /\ UNCHANGED <<head, repo, faults, api, branch, pr>>

(* A slip to catch: the row says applied once the commit is there. *)
SaveOptimistic(r) ==
    /\ Doing(r, "save")
    /\ Go(r, IdleRequest)
    /\ LET there == \A i \in 1..Len(session.ops) : Visible(session.ops[i])
       IN  session' = [session EXCEPT !.status = IF there THEN "applied" ELSE "failed"]
    /\ UNCHANGED <<head, repo, faults, api, branch, pr>>

(* The copy read at the start is written back with the outcome; the write  *)
(* may fail.                                                               *)
SaveOutcome(r) ==
    /\ Doing(r, "save")
    /\ Go(r, IdleRequest)
    /\ \/ /\ session' = [session EXCEPT !.status = IF apply[r].result = "ok" THEN "applied" ELSE "failed"]
          /\ UNCHANGED faults
       \/ Fault /\ UNCHANGED session
    /\ UNCHANGED <<head, repo, api, branch, pr>>

(* The backend stops during a request. *)
StopRequest(r) ==
    /\ apply[r].pc # "idle" /\ Fault
    /\ Go(r, IdleRequest)
    /\ OnlyApply

-----------------------------------------------------------------------------
(* createBranch *)

CreateBranch(r) ==
    /\ Doing(r, "branch")
    /\ \/ /\ ~branch.made
          /\ branch' = [made |-> TRUE, from |-> repo, content |-> repo]
          /\ \/ GoTo(r, "commit") /\ UNCHANGED faults
             \/ Fault /\ End(r, "fault")
       \/ branch.made /\ GoTo(r, "lookup") /\ UNCHANGED <<branch, faults>>
       \/ Fault /\ End(r, "fault") /\ UNCHANGED branch
    /\ OnlyBranch

LookUpBranch(r) ==
    /\ Doing(r, "lookup")
    /\ \/ Go(r, [apply[r] EXCEPT !.pc = "commit", !.existed = TRUE]) /\ UNCHANGED faults
       \/ Fault /\ End(r, "fault")
    /\ OnlyApply

-----------------------------------------------------------------------------
(* commitGeneratedFiles *)

(* GitFlame refuses to create what is there and to change what is not. *)
Possible(op) == (op.action = "create") <=> (branch.content[op.path] = Absent)

AfterFiles(r) == IF apply[r].existed THEN "find" ELSE "open"

FirstCall(op) == IF op.action = "create" THEN "create" ELSE "sha"

(* A slip to catch: the pull request is opened before the files are there. *)
CommitLate(r) ==
    /\ Doing(r, "commit")
    /\ pr # "open" /\ pr' = "open" /\ End(r, "ok")
    /\ UNCHANGED <<head, repo, faults, session, api, branch>>

(* All operations in one commit, or the first file when GitFlame knows no  *)
(* such resource.                                                          *)
Commit(r) ==
    /\ Doing(r, "commit")
    /\ LET ops == apply[r].ops
       IN  \/ /\ api = "commits" /\ \A i \in 1..Len(ops) : Possible(ops[i])
              /\ branch' = [branch EXCEPT !.content = FoldLeft(Written, @, ops)]
              /\ \/ GoTo(r, AfterFiles(r)) /\ UNCHANGED faults
                 \/ Fault /\ End(r, "fault")
           \/ /\ api = "commits" /\ \E i \in 1..Len(ops) : ~Possible(ops[i])
              /\ End(r, "refused") /\ UNCHANGED <<branch, faults>>
           \/ /\ api = "contents"
              /\ Go(r, [apply[r] EXCEPT !.pc = FirstCall(ops[1]), !.next = 1])
              /\ UNCHANGED <<branch, faults>>
           \/ Fault /\ End(r, "fault") /\ UNCHANGED branch
    /\ OnlyBranch

Operation(r) == apply[r].ops[apply[r].next]

(* On to the next file, or past the last. *)
NextFile(r) ==
    LET n == apply[r].next + 1
    IN  IF n > Len(apply[r].ops) THEN GoTo(r, AfterFiles(r))
        ELSE Go(r, [apply[r] EXCEPT !.pc = FirstCall(apply[r].ops[n]), !.next = n, !.tries = 0, !.sha = Absent])

(* The file is written, and the answer may be lost. *)
WriteFile(r) ==
    /\ branch' = [branch EXCEPT !.content = Written(@, Operation(r))]
    /\ \/ NextFile(r) /\ UNCHANGED faults
       \/ Fault /\ End(r, "fault")

CreateFile(r) ==
    /\ Doing(r, "create")
    /\ \/ branch.content[Operation(r).path] = Absent /\ WriteFile(r)
       \/ /\ branch.content[Operation(r).path] # Absent
          /\ End(r, "refused") /\ UNCHANGED <<branch, faults>>
       \/ Fault /\ End(r, "fault") /\ UNCHANGED branch
    /\ OnlyBranch

(* fetchFileSHA *)
FetchFileSHA(r) ==
    /\ Doing(r, "sha")
    /\ LET sha == branch.content[Operation(r).path]
       IN  \/ /\ sha # Absent
              /\ Go(r, [apply[r] EXCEPT !.pc = "put", !.sha = sha, !.tries = @ + 1]) /\ UNCHANGED faults
           \/ sha = Absent /\ End(r, "refused") /\ UNCHANGED faults
           \/ Fault /\ End(r, "fault")
    /\ OnlyApply

(* updateGeneratedFileViaContents, deleteGeneratedFileViaContents: once    *)
(* more with a new SHA when the file has changed meanwhile.                *)
PutFile(r) ==
    /\ Doing(r, "put")
    /\ LET current == branch.content[Operation(r).path]
       IN  \/ current = apply[r].sha /\ WriteFile(r)
           \/ /\ current # apply[r].sha
              /\ IF apply[r].tries < 2 THEN GoTo(r, "sha") ELSE End(r, "refused")
              /\ UNCHANGED <<branch, faults>>
           \/ Fault /\ End(r, "fault") /\ UNCHANGED branch
    /\ OnlyBranch

-----------------------------------------------------------------------------
(* The pull request *)

(* findOpenPullRequest, for a branch that was there before *)
FindPullRequest(r) ==
    /\ Doing(r, "find")
    /\ \/ pr = "open" /\ End(r, "ok") /\ UNCHANGED faults
       \/ pr # "open" /\ GoTo(r, "open") /\ UNCHANGED faults
       \/ Fault /\ End(r, "fault")
    /\ OnlyApply

(* createPullRequest, and the one that is there when GitFlame refuses      *)
CreatePullRequest(r) ==
    /\ Doing(r, "open")
    /\ \/ /\ pr # "open" /\ pr' = "open"
          /\ \/ End(r, "ok") /\ UNCHANGED faults
             \/ Fault /\ End(r, "fault")
       \/ pr = "open" /\ GoTo(r, "find_again") /\ UNCHANGED <<pr, faults>>
       \/ Fault /\ End(r, "fault") /\ UNCHANGED pr
    /\ UNCHANGED <<head, repo, session, api, branch>>

FindConflicting(r) ==
    /\ Doing(r, "find_again")
    /\ \/ pr = "open" /\ End(r, "ok") /\ UNCHANGED faults
       \/ pr # "open" /\ End(r, "closed") /\ UNCHANGED faults
       \/ Fault /\ End(r, "fault")
    /\ OnlyApply

(* Users merge or close the pull request. *)
ClosePullRequest ==
    /\ pr = "open" /\ pr' = "closed"
    /\ UNCHANGED <<head, repo, faults, session, api, branch, apply>>

-----------------------------------------------------------------------------
ApplyInit ==
    /\ session = [files |-> <<>>, ops |-> <<>>, status |-> "none"]
    /\ api \in Apis
    /\ branch = [made |-> FALSE, from |-> repo, content |-> repo]
    /\ pr = "none"
    /\ apply = [r \in Requests |-> IdleRequest]

ApplyStep(r) ==
    \/ BeginApply(r) \/ SaveOutcome(r) \/ StopRequest(r)
    \/ CreateBranch(r) \/ LookUpBranch(r)
    \/ Commit(r) \/ CreateFile(r) \/ FetchFileSHA(r) \/ PutFile(r)
    \/ FindPullRequest(r) \/ CreatePullRequest(r) \/ FindConflicting(r)

(* Operations accepted for files that were read from the repository. *)
AcceptOperations(reply, files) ==
    /\ session.ops = <<>>
    /\ session' = [session EXCEPT !.files = files, !.ops = AcceptedFiles(reply, files)]

ApplyNext == ClosePullRequest \/ \E r \in Requests : ApplyStep(r)

-----------------------------------------------------------------------------
(* Properties *)

(* Every variable of the requests keeps its type (server.go:367-433).      *)
ApplyTypeOK ==
    /\ session.status \in {"none", "applied", "failed"} /\ api \in Apis
    /\ branch.made \in BOOLEAN
    /\ pr \in {"none", "open", "closed"}
    /\ \A r \in Requests :
          /\ apply[r].pc \in ApplyPC /\ apply[r].existed \in BOOLEAN /\ apply[r].tries \in 0..2
          /\ apply[r].result \in {"none", "ok", "fault", "refused", "closed"}
          /\ apply[r].next \in 0..Len(apply[r].ops)

(* The requests keep the promise of PullRequest: a pull request is opened  *)
(* only when every accepted change is on its branch, changes on the branch *)
(* are not lost again, and success is reported only after that             *)
(* (ApplyGeneratedFiles, gitflame_client.go:115-148).                      *)
Promise == INSTANCE PullRequest WITH
    changes <- {session.ops[i].path : i \in 1..Len(session.ops)},
    visible <- {session.ops[i].path : i \in {j \in 1..Len(session.ops) : Visible(session.ops[j])}},
    request <- pr,
    reported <- session.status = "applied"
PullRequestSafe == Promise!Spec

(* A session that says applied has a pull request whose branch holds       *)
(* exactly what was accepted on top of what it was made from               *)
(* (server.go:416-425).                                                    *)
AppliedIsReal ==
    session.status = "applied" =>
        /\ pr # "none"
        /\ branch.content = FoldLeft(Written, branch.from, session.ops)

(* GitFlame refuses an accepted operation for two reasons only: an earlier *)
(* or a concurrent attempt has carried one out already, or users added or  *)
(* deleted the file after it was read and before the branch was made.      *)
(* What validation accepted is never impossible by itself, nor because the *)
(* content read was cut (ValidateGeneratedFiles, service/workflow.go:684-  *)
(* 736, and the refusals of gitflame_client.go:302-411); a file that was   *)
(* not read is as if absent.                                               *)
RefusedOnlyWhenDone ==
    \A r \in Requests : apply[r].result = "refused" =>
        \E i \in 1..Len(session.ops) :
            LET path == session.ops[i].path
            IN  \/ Visible(session.ops[i])
                \/ (branch.from[path] = Absent) # (ContentByPath(path, session.files) = Empty)

=============================================================================
