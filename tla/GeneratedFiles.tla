--------------------------- MODULE GeneratedFiles ---------------------------
(***************************************************************************)
(* What becomes of the file operations the agent returns: the pipeline of  *)
(* executeCodeGenerationTask and its checks (service/workflow.go), with    *)
(* the paths of plan_validation.go.  Nothing here has state; the functions *)
(* are those of the code, over sequences.                                  *)
(*                                                                         *)
(* A path is the sequence of its segments, "/" first when it is absolute.  *)
(* A content is a number; Text says what the code looks at in it: what it  *)
(* reads with plain line ends, its meaningful lines and its characters.    *)
(* An explanation is there or not.                                         *)
(***************************************************************************)
EXTENDS Slices

CONSTANTS
    Text,           \* Text[c] = [plain, lines, chars]
    MaxOperations,  \* bound: operations of a reply (500 in the code)
    MaxFiles,       \* bound: files of a request (2000 in the code)
    MaxChars        \* bound: characters of a file (500000 in the code)

Empty == 0

(* Texts that read the same have the same meaningful lines, and nothing    *)
(* has none.                                                               *)
ASSUME TextAssumption ==
    /\ Empty \in DOMAIN Text /\ Text[Empty].lines = 0
    /\ \A c, d \in DOMAIN Text : Text[c].plain = Text[d].plain => Text[c].lines = Text[d].lines

BlankText(c) == Text[c].lines = 0

-----------------------------------------------------------------------------
(* Paths *)

CleanSegment(clean, segment) ==
    IF segment \in {"", "."} \/ (segment = ".." /\ clean = <<"/">>) THEN clean
    ELSE IF segment = ".." /\ clean # <<>> /\ Last(clean) # ".." THEN Front(clean)
    ELSE Append(clean, segment)

(* path.Clean; the empty sequence is ".", which is never safe. *)
NormalizePlanPath(path) == FoldLeft(CleanSegment, <<>>, path)

SafePlanPath(path) == path # <<>> /\ path[1] \notin {"/", "..", ".git"}

(* validateRepositoryFiles, and the file there must be at least. *)
ValidRepositoryFiles(files) ==
    /\ Len(files) \in 1..MaxFiles
    /\ \A i \in 1..Len(files) :
          /\ SafePlanPath(NormalizePlanPath(files[i].path))
          /\ Text[files[i].content].chars <= MaxChars
          /\ \A j \in 1..i-1 : NormalizePlanPath(files[j].path) # NormalizePlanPath(files[i].path)

Exists(path, files) == \E i \in 1..Len(files) : NormalizePlanPath(files[i].path) = path

(* contentByPath: the last file of that path, or nothing. *)
ContentByPath(path, files) ==
    LET named == {i \in 1..Len(files) : NormalizePlanPath(files[i].path) = path}
    IN  IF named = {} THEN Empty ELSE files[Max(named)].content

-----------------------------------------------------------------------------
(* NormalizeGeneratedFiles: operations on one path are merged, in place. *)

Merge(previous, file) ==
    [file EXCEPT !.action = IF @ = "" THEN previous.action ELSE @,
                 !.content = IF BlankText(@) THEN previous.content ELSE @,
                 !.diff = IF @ \in {"", " "} THEN previous.diff ELSE @,
                 !.explained = @ \/ previous.explained]

MergeNext(merged, raw) ==
    LET file == [raw EXCEPT !.path = NormalizePlanPath(@)]
    IN  IF \E i \in 1..Len(merged) : merged[i].path = file.path
        THEN [i \in 1..Len(merged) |->
                 IF merged[i].path = file.path THEN Merge(merged[i], file) ELSE merged[i]]
        ELSE Append(merged, file)

NormalizeGeneratedFiles(files) == FoldLeft(MergeNext, <<>>, files)

-----------------------------------------------------------------------------
(* What is dropped *)

IsNoop(op, files) ==
    op.action = "modify" /\ Text[op.content].plain = Text[ContentByPath(op.path, files)].plain

(* A slip to catch: unchanged files are kept. *)
KeepNoopGeneratedFiles(ops, files) == ops

DropNoopGeneratedFiles(ops, files) == Keep(ops, {i \in 1..Len(ops) : ~IsNoop(ops[i], files)})

LooksLikePartial(generated, original) ==
    LET g == Text[generated]
        o == Text[original]
    IN  /\ g.lines > 0 /\ o.lines > 0
        /\ o.lines >= 3 \/ o.chars >= 120
        /\ \/ o.lines >= 3 /\ g.lines <= 1
           \/ o.chars >= 120 /\ (g.chars < 80 \/ g.chars < (o.chars * 35) \div 100)
           \/ o.lines >= 8 /\ (g.lines < 3 \/ g.lines < (o.lines * 35) \div 100)

IsUnsafePartial(op, files) ==
    /\ op.action = "modify" /\ Exists(op.path, files)
    /\ LooksLikePartial(op.content, ContentByPath(op.path, files))

DropUnsafePartialModifyFiles(ops, files) ==
    Keep(ops, {i \in 1..Len(ops) : ~IsUnsafePartial(ops[i], files)})

-----------------------------------------------------------------------------
(* ValidateGeneratedFiles *)

(* A slip to catch: a file is created without asking whether it is there. *)
AllowedActionBlindly(op, files) ==
    \/ op.action = "create" /\ ~BlankText(op.content)
    \/ op.action = "modify" /\ Exists(op.path, files) /\ ~BlankText(op.content)
    \/ op.action = "delete" /\ Exists(op.path, files) /\ op.content = Empty /\ op.diff = ""

AllowedAction(op, files) ==
    \/ op.action = "create" /\ ~Exists(op.path, files) /\ ~BlankText(op.content)
    \/ op.action = "modify" /\ Exists(op.path, files) /\ ~BlankText(op.content)
    \/ op.action = "delete" /\ Exists(op.path, files) /\ op.content = Empty /\ op.diff = ""

ValidateGeneratedFiles(ops, files) ==
    /\ Len(ops) \in 1..MaxOperations
    /\ \A i \in 1..Len(ops) :
          /\ SafePlanPath(ops[i].path)
          /\ \A j \in 1..i-1 : ops[j].path # ops[i].path
          /\ ops[i].explained
          /\ AllowedAction(ops[i], files)

-----------------------------------------------------------------------------
(* executeCodeGenerationTask: the operations that are stored with the      *)
(* session, none when the reply is refused.                                *)
AcceptedFiles(reply, files) ==
    LET merged == NormalizeGeneratedFiles(reply)
        effective == DropNoopGeneratedFiles(merged, files)
        whole == DropUnsafePartialModifyFiles(effective, files)
    IN  IF ValidateGeneratedFiles(whole, files) THEN whole ELSE <<>>

=============================================================================
