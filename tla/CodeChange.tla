----------------------------- MODULE CodeChange -----------------------------
(***************************************************************************)
(* One issue from its files to its pull request: the files are read        *)
(* (FetchFiles), the request with them becomes a session, the agent's      *)
(* reply is accepted or refused (GeneratedFiles), and what is accepted is  *)
(* applied (ApplyChanges), while users push.  The plan and the queue in    *)
(* between are those of Workflow; code is generated once here.             *)
(***************************************************************************)
EXTENDS FetchFiles, ApplyChanges

CONSTANTS
    Replies,   \* the operations the agent may return
    Rest       \* contents that may be left when a body ends early

(* What the agent returns has the fields of GeneratedFileOperation, and    *)
(* Files has every safe path it names; what is left of a file is a file.   *)
ASSUME RepliesAssumption ==
    /\ Replies \subseteq Seq([path : Seq(STRING), action : STRING, content : DOMAIN Text,
                              diff : STRING, explained : BOOLEAN])
    /\ \A reply \in Replies : \A i \in 1..Len(reply) :
          LET path == NormalizePlanPath(reply[i].path) IN SafePlanPath(path) => path \in Files
    /\ Rest \subseteq DOMAIN Text \ {Empty}

codeVars == <<repositoryVars, fetchVars, applyVars>>

Init == FetchInit /\ ApplyInit

(* A read for the index, or for an issue that has no session yet. *)
Fetch ==
    /\ session.files = <<>>
    /\ \/ \E kind \in {"index", "analysis"}, yaml \in Yamls \cup {Blank} : BeginFetch(kind, yaml)
       \/ Leave \/ EndFetch \/ ReadStep
       \/ \E w \in Workers : WorkerStep(w)
    /\ UNCHANGED applyVars

(* analyze: the files read become part of the session's request; one that  *)
(* is long enough for doGET to cut is too long for a request.              *)
Analyze ==
    /\ Reading("done") /\ fetch.kind = "analysis" /\ session.files = <<>>
    /\ \A i \in 1..Len(fetch.files) : fetch.files[i].path \notin Large \ fetch.torn
    /\ \E rest \in [fetch.torn -> Rest] :
          LET Content(file) == IF file.path \in fetch.torn THEN rest[file.path] ELSE file.at
              files == [i \in 1..Len(fetch.files) |->
                           [path |-> fetch.files[i].path, content |-> Content(fetch.files[i])]]
          IN  /\ ValidRepositoryFiles(files)
              /\ session' = [session EXCEPT !.files = files]
    /\ EndFetch
    /\ UNCHANGED <<api, branch, pr, apply>>

(* executeCodeGenerationTask, until a reply is accepted. *)
Generate ==
    /\ session.files # <<>>
    /\ \E reply \in Replies : AcceptOperations(reply, session.files)
    /\ UNCHANGED <<repositoryVars, fetchVars, api, branch, pr, apply>>

Apply == ApplyNext /\ UNCHANGED fetchVars

UserPush == Push /\ UNCHANGED <<fetchVars, applyVars>>

Next == Fetch \/ Analyze \/ Generate \/ Apply \/ UserPush

Spec == Init /\ [][Next]_codeVars

-----------------------------------------------------------------------------
(* Properties *)

(* Every variable keeps its type (gitflame_client.go, server.go).          *)
TypeOK == FetchTypeOK /\ ApplyTypeOK

(* An operation on the files of the request, if it is possible and changes *)
(* the file it names.                                                      *)
Effective(contents, op) ==
    /\ op.path \in Files
    /\ (op.action = "create") <=> (contents[op.path] = Absent)
    /\ op.action # "delete" => Text[op.content].plain # Text[contents[op.path]].plain
Carry(files, op) ==
    IF files.possible /\ Effective(files.contents, op)
    THEN [files EXCEPT !.contents = Written(@, op)]
    ELSE [files EXCEPT !.possible = FALSE]

(* What is accepted can be carried out on the files that were read, one    *)
(* operation after the other, each of them changes the file it names, and  *)
(* none is dropped again before it is applied (executeCodeGenerationTask,  *)
(* service/workflow.go:244-273, and server.go:382).                        *)
AcceptedIsApplicable ==
    LET before == [f \in Files |-> ContentByPath(f, session.files)]
    IN  /\ FoldLeft(Carry, [possible |-> TRUE, contents |-> before], session.ops).possible
        /\ DropNoopGeneratedFiles(session.ops, session.files) = session.ops

=============================================================================
