----------------------------- MODULE FetchFiles -----------------------------
(***************************************************************************)
(* Reading the configured files of a repository from GitFlame, in          *)
(* httpapi/gitflame_client.go: the tree, directory by directory, the       *)
(* configuration, the selection, and the contents, which a pool of         *)
(* goroutines fetches when the caller has listed the tree already          *)
(* ("index") and one loop when it has not ("analysis").                    *)
(*                                                                         *)
(* Every call to GitFlame is one step, so that users push in between.  The *)
(* content fetched is the commit that last changed the file; with each     *)
(* entry of the tree goes the commit it was listed at, which only the      *)
(* properties read.  Paths are sequences of names; a listing comes in one  *)
(* fixed order.  The client asks only for text it can read: the names of   *)
(* extensions and the matching of patterns are abstracted to sets of paths.*)
(*                                                                         *)
(* A content and the configuration are the body of an answer as it is.     *)
(* doGET drops the error of reading it and stops at 2 MB, so a body that   *)
(* the connection or a cancellation ends early, and a longer one, are      *)
(* taken for the whole.  (A listing that is cut is no JSON: an error.)     *)
(***************************************************************************)
EXTENDS GitRepository, Slices

CONSTANTS
    Assets,     \* files with an extension that is never text
    Binary,     \* files with other content that is not text
    Large,      \* files longer than doGET reads
    Yamls,      \* documents a .ai.yml may hold
    Remains,    \* Remains[doc]: what may be left of doc when its body ends early
    Workers,    \* gitFlameFileFetchConcurrency goroutines
    FileLimit,  \* bound: files read (2000 in the code)
    TreeLimit   \* bound: entries of the tree (10000 in the code)

(* A path is that of a file or that of a directory, in all commits.        *)
ASSUME FetchAssumption ==
    /\ IsFiniteSet(Files) /\ Files \subseteq Seq(STRING) \ {<<>>}
    /\ \A f, g \in Files : ~IsStrictPrefix(f, g)
    /\ IsFiniteSet(Workers) /\ Workers # {}
    /\ Large \subseteq Files /\ DOMAIN Remains = Yamls
    /\ FileLimit \in Nat /\ TreeLimit \in Nat

VARIABLES
    fetch,   \* the read: what it knows so far
    jobs,    \* indices of files in the closed channel of the pool
    worker,  \* worker[w]: the state and the index of goroutine w
    gone     \* the caller's context is cancelled

fetchVars == <<fetch, jobs, worker, gone>>

None == "none"

(* For the properties: the commit and the failed calls a read began with,  *)
(* and what of it was torn, that is ended early: contents, configuration.  *)
NoFetch == [pc |-> "idle", kind |-> "index", mode |-> "listing", doc |-> Blank, cfg |-> DefaultIndexConfiguration,
            dirs |-> <<>>, seen |-> {}, tree |-> <<>>, files |-> <<>>, err |-> None, cancelled |-> FALSE,
            since |-> 0, before |-> 0, torn |-> {}, misread |-> FALSE]
NoWorker == [w \in Workers |-> [pc |-> "off", index |-> 0]]

Reading(pc) == fetch.pc = pc

(* The read ends with an error, and with nothing else.                     *)
FailFetch(err) == fetch' = [fetch EXCEPT !.pc = "failed", !.err = err, !.files = <<>>]
Unreachable == Fault /\ FailFetch("fault")
Cancelled == gone /\ FailFetch("gone") /\ UNCHANGED faults
OnlyFetch == UNCHANGED <<head, repo, jobs, worker, gone>>

(* doGET: the answer is there, and its body ends early without an error,   *)
(* because the connection fails or the call is stopped.                    *)
EndsEarly(stopped) == Fault \/ (stopped /\ UNCHANGED faults)

(* Its body arrives, whole or torn.                                        *)
Arrives(path, stopped, torn) ==
    \/ torn = fetch.torn /\ UNCHANGED faults
    \/ torn = fetch.torn \cup {path} /\ EndsEarly(stopped)

-----------------------------------------------------------------------------
(* Requests *)

(* synchronizeRepositoryIndex starts with the tree, repositoryFilesFor-    *)
(* Analysis with the configuration; yaml is the stored or given one.       *)
BeginFetch(kind, yaml) ==
    /\ Reading("idle")
    /\ fetch' = [NoFetch EXCEPT !.pc = IF kind = "index" THEN "tree" ELSE "config",
                                !.mode = IF kind = "index" THEN "listing" ELSE "loop",
                                !.kind = kind, !.doc = yaml, !.dirs = << <<>> >>,
                                !.since = head, !.before = faults]
    /\ UNCHANGED <<head, repo, faults, jobs, worker, gone>>

(* The caller's context is cancelled. *)
Leave ==
    /\ fetch.pc \notin {"idle", "done", "failed"} /\ ~gone
    /\ gone' = TRUE
    /\ UNCHANGED <<head, repo, faults, fetch, jobs, worker>>

(* The request is answered. *)
EndFetch ==
    /\ fetch.pc \in {"done", "failed"}
    /\ fetch' = NoFetch /\ jobs' = <<>> /\ worker' = NoWorker /\ gone' = FALSE
    /\ UNCHANGED <<head, repo, faults>>

-----------------------------------------------------------------------------
(* RepositoryTree *)

Present(f) == repo[f] # Absent
Under(dir) == {f \in Files : Present(f) /\ IsStrictPrefix(dir, f)}
Listing(dir) == SetToSeq({SubSeq(f, 1, Len(dir) + 1) : f \in Under(dir)})

(* One entry of a listing: skipped when seen, queued when a directory. *)
Visit(found, entry) ==
    IF entry \in found.seen THEN found
    ELSE [seen |-> found.seen \cup {entry},
          dirs |-> IF entry \in Files THEN found.dirs ELSE Append(found.dirs, entry),
          tree |-> Append(found.tree,
                          [path |-> entry, listed |-> IF entry \in Files THEN repo[entry] ELSE 0])]

AfterTree == IF fetch.mode = "listing" THEN "config" ELSE "select"

(* The next directory is listed; GitFlame may name an entry twice, and     *)
(* answers 404 for a directory that has lost its last file.                *)
ListDirectory ==
    /\ Reading("tree")
    /\ LET dir == Head(fetch.dirs)
           found == [seen |-> fetch.seen, dirs |-> Tail(fetch.dirs), tree |-> fetch.tree]
       IN \/ /\ dir = <<>> \/ Under(dir) # {}
             /\ \E answer \in {Listing(dir), Listing(dir) \o Listing(dir)} :
                   LET next == FoldLeft(Visit, found, answer)
                   IN IF Len(next.tree) > TreeLimit THEN FailFetch("too_large")
                      ELSE fetch' = [fetch EXCEPT !.seen = next.seen, !.dirs = next.dirs, !.tree = next.tree,
                                                  !.pc = IF next.dirs = <<>> THEN AfterTree ELSE "tree"]
             /\ UNCHANGED faults
          \/ dir # <<>> /\ Under(dir) = {} /\ FailFetch("not_found") /\ UNCHANGED faults
          \/ Unreachable \/ Cancelled
    /\ OnlyFetch

-----------------------------------------------------------------------------
(* repositoryFiles: the configuration and the selection *)

(* matchesRepositoryRules: exclusion wins. *)
MatchesRepositoryRules(f, cfg) == f \notin cfg.exclude /\ f \in cfg.include

Selectable(entry, cfg) ==
    /\ entry.path \in Files
    /\ entry.path \notin Assets
    /\ MatchesRepositoryRules(entry.path, cfg)

FirstOf(s, limit) == SubSeq(s, 1, IF Len(s) < limit THEN Len(s) ELSE limit)

(* The files to read, in the order of the tree, none fetched yet. *)
Selection(tree, cfg) ==
    LET chosen == FirstOf(Keep(tree, {i \in 1..Len(tree) : Selectable(tree[i], cfg)}), FileLimit)
    IN  [i \in 1..Len(chosen) |-> [path |-> chosen[i].path, listed |-> chosen[i].listed, at |-> Absent]]

(* A caller that lists the tree, and finds no file in it, has nothing to   *)
(* request: the tree is listed again.                                      *)
Configure(doc, misread) ==
    LET cfg == ParseAIConfig(doc)
        requested == \E i \in 1..Len(fetch.tree) : fetch.tree[i].path \in Files
        read == [fetch EXCEPT !.doc = doc, !.cfg = cfg, !.misread = misread]
    IN  IF ~cfg.ok THEN FailFetch("invalid_ai_config")
        ELSE IF fetch.mode = "listing" /\ requested
        THEN fetch' = [read EXCEPT !.pc = "select", !.mode = "pool"]
        ELSE fetch' = [read EXCEPT !.pc = "tree", !.mode = "loop", !.dirs = << <<>> >>, !.seen = {}, !.tree = <<>>]

(* The given configuration, or the one of the branch, or the default.      *)
ReadConfig ==
    /\ Reading("config")
    /\ IF fetch.doc.syntax # "blank" THEN Configure(fetch.doc, FALSE) /\ UNCHANGED faults
       ELSE \/ \E doc \in Yamls \cup {DefaultIndexConfiguration} : Configure(doc, FALSE) /\ UNCHANGED faults
            \/ \E doc \in Yamls : \E rest \in Remains[doc] : Configure(rest, TRUE) /\ EndsEarly(gone)
            \/ Unreachable \/ Cancelled
    /\ OnlyFetch

Select ==
    /\ Reading("select")
    /\ LET files == Selection(fetch.tree, fetch.cfg)
       IN  IF files = <<>>
           THEN fetch' = [fetch EXCEPT !.pc = "done"] /\ UNCHANGED <<jobs, worker>>
           ELSE IF fetch.mode = "loop"
           THEN fetch' = [fetch EXCEPT !.pc = "get", !.files = files] /\ UNCHANGED <<jobs, worker>>
           ELSE /\ fetch' = [fetch EXCEPT !.pc = "pool", !.files = files]
                /\ jobs' = [i \in 1..Len(files) |-> i]
                /\ \E running \in SUBSET Workers :
                      /\ Cardinality(running) = IF Len(files) < Cardinality(Workers) THEN Len(files)
                                                ELSE Cardinality(Workers)
                      /\ worker' = [w \in Workers |-> [pc |-> IF w \in running THEN "take" ELSE "off", index |-> 0]]
    /\ UNCHANGED <<head, repo, faults, gone>>

-----------------------------------------------------------------------------
(* The contents *)

(* One file after the other; the first error ends the read. *)
GetNext ==
    /\ Reading("get")
    /\ LET i == CHOOSE n \in 1..Len(fetch.files) :
                   fetch.files[n].at = Absent /\ \A m \in 1..n-1 : fetch.files[m].at # Absent
           path == fetch.files[i].path
       IN \/ /\ repo[path] # Absent
             /\ \E torn \in {fetch.torn, fetch.torn \cup {path}} :
                   /\ Arrives(path, gone, torn)
                   /\ fetch' = [fetch EXCEPT !.files[i].at = repo[path], !.torn = torn,
                                             !.pc = IF i = Len(fetch.files) THEN "done" ELSE "get"]
          \/ repo[path] = Absent /\ FailFetch("not_found") /\ UNCHANGED faults
          \/ Unreachable \/ Cancelled
    /\ OnlyFetch

(* A slip to catch: a goroutine returns without telling that it is done. *)
StopUncounted(w) == worker' = [worker EXCEPT ![w] = [pc |-> "lost", index |-> 0]]

Stop(w) == worker' = [worker EXCEPT ![w] = [pc |-> "off", index |-> 0]]

(* A goroutine takes the next index, or stops: the channel is empty, or    *)
(* the work is cancelled.                                                  *)
TakeIndex(w) ==
    /\ Reading("pool") /\ worker[w].pc = "take"
    /\ IF jobs = <<>> THEN Stop(w) /\ UNCHANGED jobs
       ELSE /\ jobs' = Tail(jobs)
            /\ IF gone \/ fetch.cancelled THEN Stop(w)
               ELSE worker' = [worker EXCEPT ![w] = [pc |-> "get", index |-> Head(jobs)]]
    /\ UNCHANGED <<head, repo, faults, fetch, gone>>

(* A slip to catch: the last error wins. *)
ReportLast(w, err) ==
    /\ fetch' = [fetch EXCEPT !.err = err, !.cancelled = TRUE]
    /\ Stop(w)

(* errorOnce: the first error is kept, and cancels the work. *)
Report(w, err) ==
    /\ fetch' = [fetch EXCEPT !.err = IF @ = None THEN err ELSE @, !.cancelled = TRUE]
    /\ Stop(w)

FetchContent(w) ==
    /\ Reading("pool") /\ worker[w].pc = "get"
    /\ LET i == worker[w].index
           path == fetch.files[i].path
       IN \/ /\ repo[path] # Absent
             /\ \E torn \in {fetch.torn, fetch.torn \cup {path}} :
                   /\ Arrives(path, gone \/ fetch.cancelled, torn)
                   /\ fetch' = [fetch EXCEPT !.files[i].at = repo[path], !.torn = torn]
             /\ worker' = [worker EXCEPT ![w] = [pc |-> "take", index |-> 0]]
          \/ repo[path] = Absent /\ Report(w, "not_found") /\ UNCHANGED faults
          \/ Fault /\ Report(w, "fault")
          \/ gone /\ Report(w, "gone") /\ UNCHANGED faults
          \/ ~gone /\ fetch.cancelled /\ Report(w, "cancelled") /\ UNCHANGED faults
    /\ UNCHANGED <<head, repo, jobs, gone>>

(* Contents that may not be whole. *)
Cut == fetch.torn \cup Large

(* Of the files that were read, those that are text.  Cut within a         *)
(* character, text is text no more; cut early, other content may pass.     *)
TextFiles(files, lost) ==
    Keep(files, {i \in 1..Len(files) : files[i].path \notin (Binary \ Cut) \cup lost})

(* The files are handed over. *)
HandOver == \E lost \in SUBSET Cut : fetch' = [fetch EXCEPT !.pc = "done", !.files = TextFiles(@, lost)]

(* A slip to catch: the end forgets to ask whether the caller has left. *)
FinishPoolQuietly ==
    /\ Reading("pool") /\ \A w \in Workers : worker[w].pc = "off"
    /\ \/ fetch.err # None /\ FailFetch(fetch.err)
       \/ fetch.err = None /\ HandOver
    /\ UNCHANGED <<head, repo, faults, jobs, worker, gone>>

(* The end of the pool: its first error, or the caller's, or the files,    *)
(* without those that turned out not to be text.                           *)
FinishPool ==
    /\ Reading("pool") /\ \A w \in Workers : worker[w].pc = "off"
    /\ \/ fetch.err # None /\ FailFetch(fetch.err)
       \/ fetch.err = None /\ gone /\ FailFetch("gone")
       \/ fetch.err = None /\ ~gone /\ HandOver
    /\ UNCHANGED <<head, repo, faults, jobs, worker, gone>>

-----------------------------------------------------------------------------
FetchInit ==
    /\ RepositoryInit
    /\ fetch = NoFetch /\ jobs = <<>> /\ worker = NoWorker /\ gone = FALSE

WorkerStep(w) == TakeIndex(w) \/ FetchContent(w)

ReadStep == ListDirectory \/ ReadConfig \/ Select \/ GetNext \/ FinishPool

FetchNext ==
    \/ Push /\ UNCHANGED fetchVars
    \/ \E kind \in {"index", "analysis"}, yaml \in Yamls \cup {Blank} : BeginFetch(kind, yaml)
    \/ Leave \/ EndFetch \/ ReadStep
    \/ \E w \in Workers : WorkerStep(w)

FetchSpec == FetchInit /\ [][FetchNext]_<<repositoryVars, fetchVars>>

-----------------------------------------------------------------------------
(* Properties *)

FileRecord == [path : Files, listed : 0..MaxHead, at : 0..MaxHead]

(* Every variable of the read keeps its type (gitflame_client.go:559-680). *)
FetchTypeOK ==
    /\ RepositoryTypeOK
    /\ fetch.pc \in {"idle", "tree", "config", "select", "get", "pool", "done", "failed"}
    /\ fetch.kind \in {"index", "analysis"} /\ fetch.mode \in {"listing", "pool", "loop"}
    /\ fetch.err \in {None, "fault", "gone", "too_large", "not_found", "invalid_ai_config", "cancelled"}
    /\ fetch.since \in 0..MaxHead /\ fetch.cancelled \in BOOLEAN
    /\ fetch.before \in 0..MaxFaults /\ fetch.torn \subseteq Files /\ fetch.misread \in BOOLEAN
    /\ fetch.files \in Seq(FileRecord)
    /\ jobs \in Seq(1..Len(fetch.files)) \/ ~Reading("pool")
    /\ worker \in [Workers -> [pc : {"off", "take", "get"}, index : Nat]]
    /\ gone \in BOOLEAN

(* What the owner of the repository asked for: the patterns the document   *)
(* sets, or all files but the vendored ones.                               *)
Wanted(f, doc) ==
    /\ f \notin Assets
    /\ "analysis.include" \in DOMAIN doc.at => f \in doc.at["analysis.include"]
    /\ f \notin IF "analysis.exclude" \in DOMAIN doc.at THEN doc.at["analysis.exclude"] ELSE Vendored

(* A read that succeeds has every file its configuration asks for, whoever *)
(* leaves and whatever is pushed while it runs: each wanted text file that *)
(* did not change since the read began is there as it is, unless it is cut *)
(* or the limit was reached; no file is there twice or unasked for, and    *)
(* none is missing its content or older than the tree.  Only what is       *)
(* longer than 2 MB, or came in a call whose body failed, may be cut; a    *)
(* caller who leaves tears what the loop reads, or the configuration, and  *)
(* never what a pool hands over (repositoryFiles, fetchRepositoryFile-     *)
(* Contents and the error doGET drops, gitflame_client.go:559-680, 1128).  *)
ReadIsComplete ==
    Reading("done") =>
        /\ \A f \in Files :
              (Wanted(f, fetch.doc) /\ f \notin Binary \cup Cut /\ repo[f] \in 1..fetch.since) =>
                  \/ \E i \in 1..Len(fetch.files) : fetch.files[i].path = f /\ fetch.files[i].at = repo[f]
                  \/ Cardinality({e \in fetch.seen \cap Files : Wanted(e, fetch.doc)}) > FileLimit
        /\ \A i \in 1..Len(fetch.files) :
              /\ Wanted(fetch.files[i].path, fetch.doc)
              /\ fetch.files[i].at # Absent /\ fetch.files[i].at >= fetch.files[i].listed
              /\ \A j \in 1..Len(fetch.files) : fetch.files[i].path = fetch.files[j].path => i = j
        /\ fetch.torn # {} => faults > fetch.before \/ (fetch.mode = "loop" /\ gone)
        /\ fetch.misread => faults > fetch.before \/ gone

(* The error a read ends with is a cause, never the cancellation that the  *)
(* pool itself answered that cause with (errorOnce, gitflame_client.go:    *)
(* 652-680).                                                               *)
ErrorIsFirst == fetch.err # "cancelled" /\ (fetch.err = "gone" => gone)

=============================================================================
