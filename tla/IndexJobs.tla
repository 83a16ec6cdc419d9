----------------------------- MODULE IndexJobs -----------------------------
(***************************************************************************)
(* Background indexing of one repository in one backend process:           *)
(* httpapi/repository_index_jobs.go (the registry), repository_indexing.go *)
(* (what a job and a request do), and the requests that start or await a   *)
(* job (auth.go, repository_data.go, server.go, webhooks.go).              *)
(*                                                                         *)
(* A mutex makes begin, finish and the look-up of wait one step each; the  *)
(* channel is closed after the unlock, in a step of its own.  Each call to *)
(* GitFlame, CodeRAG or the store is one step, so that the branch may move *)
(* and the configuration may change in between.                            *)
(*                                                                         *)
(* A commit is its position on the branch; a configuration is a number.    *)
(* The text read from the branch is the commit it was read at: the tree    *)
(* comes first, so the files are never older than the tree.                *)
(***************************************************************************)
EXTENDS Naturals, FiniteSets

CONSTANTS
    Callers,    \* concurrent requests and webhook goroutines
    MaxJobs,    \* bound: background jobs ever started
    MaxHead,    \* bound: commits on the branch
    MaxConfig,  \* bound: configurations ever saved
    MaxFaults   \* bound: failed calls and restarts

ASSUME IndexAssumption ==
    /\ MaxJobs \in Nat /\ MaxConfig \in Nat /\ MaxFaults \in Nat
    /\ MaxHead \in Nat \ {0}
    /\ Callers \cap (1..MaxJobs) = {}

VARIABLES
    head,    \* the newest commit of the branch
    config,  \* the newest configuration saved
    index,   \* index[c]: what CodeRAG holds under commit c
    job,     \* the registry's entry for the repository
    closed,  \* jobs whose channel has been closed
    sync,    \* sync[p]: what request or job p is doing
    faults

vars == <<head, config, index, job, closed, sync, faults>>

Jobs == 1..MaxJobs
Commits == 1..MaxHead
NoCommit == 0
NotIndexed == [from |-> 0, cfg |-> 0]

PC == {"idle", "begin", "await", "wait", "resolve", "status", "tree", "config", "index",
       "ready", "finish", "close", "gone"}

(* since: the oldest commit that would be an up-to-date answer.            *)
Process ==
    [pc : PC, gen : Nat, force : BOOLEAN, sha : Nat, since : Nat, tree : Nat, cfg : Nat, ok : BOOLEAN]
Idle == [pc |-> "idle", gen |-> 0, force |-> FALSE, sha |-> NoCommit, since |-> 0,
         tree |-> 0, cfg |-> 0, ok |-> FALSE]

Gone == [Idle EXCEPT !.pc = "gone"]

At(p, pc) == sync[p].pc = pc
Become(p, state) == sync' = [sync EXCEPT ![p] = state]
Goto(p, pc) == Become(p, [sync[p] EXCEPT !.pc = pc])
Fault == faults < MaxFaults /\ faults' = faults + 1

OnlySync == UNCHANGED <<head, config, index, job, closed>>

-----------------------------------------------------------------------------
(* The registry *)

(* A slip to catch: a forced job does not look for a running one. *)
ReusedUnlessForced(force) ==
    ~force /\ (job.st = "running" \/ (job.st = "completed" /\ job.fresh))

(* begin hands back a running job, and a job that succeeded less than a    *)
(* minute ago unless it is forced.                                         *)
Reused(force) ==
    job.st = "running" \/ (~force /\ job.st = "completed" /\ job.fresh)

(* Saves that will start a job, so that MaxJobs never blocks one halfway.  *)
JobRoom == job.gen + Cardinality({c \in Callers : At(c, "begin")}) < MaxJobs

(* startRepositoryIndexInBackground, with the goroutine of the new job.    *)
Begin(force, others) ==
    IF Reused(force)
    THEN UNCHANGED job /\ sync' = others
    ELSE /\ job.gen < MaxJobs
         /\ job' = [gen |-> job.gen + 1, st |-> "running", fresh |-> FALSE]
         /\ sync' = [others EXCEPT ![job.gen + 1] = [Idle EXCEPT !.pc = "resolve", !.force = force]]

(* Browsing (tree, files, connect) or a reconnect, which forces. *)
Browse(force) ==
    /\ Reused(force) \/ JobRoom
    /\ Begin(force, sync)
    /\ UNCHANGED <<head, config, index, closed, faults>>

(* A success is reused for a minute. *)
Expire ==
    /\ job.fresh
    /\ job' = [job EXCEPT !.fresh = FALSE]
    /\ UNCHANGED <<head, config, index, closed, sync, faults>>

(* A slip to catch: the early return of a failed job skips close(done). *)
FinishSilently(g) ==
    /\ At(g, "finish")
    /\ IF job.st = "running"
       THEN /\ job' = [job EXCEPT !.st = IF sync[g].ok THEN "completed" ELSE "failed",
                                  !.fresh = sync[g].ok]
            /\ Become(g, IF sync[g].ok THEN [Idle EXCEPT !.pc = "close", !.gen = job.gen] ELSE Gone)
       ELSE UNCHANGED job /\ Become(g, Gone)
    /\ UNCHANGED <<head, config, index, closed, faults>>

(* A slip to catch: CodeRAG's status is recorded instead of the job's. *)
FinishRaw(g) ==
    /\ At(g, "finish")
    /\ job' = [job EXCEPT !.st = IF sync[g].ok THEN "indexed" ELSE "failed", !.fresh = sync[g].ok]
    /\ Become(g, [Idle EXCEPT !.pc = "close", !.gen = job.gen])
    /\ UNCHANGED <<head, config, index, closed, faults>>

(* finish acts on whatever job the registry holds, if it is running. *)
Finish(g) ==
    /\ At(g, "finish")
    /\ IF job.st = "running"
       THEN /\ job' = [job EXCEPT !.st = IF sync[g].ok THEN "completed" ELSE "failed",
                                  !.fresh = sync[g].ok]
            /\ Become(g, [Idle EXCEPT !.pc = "close", !.gen = job.gen])
       ELSE UNCHANGED job /\ Become(g, Gone)
    /\ UNCHANGED <<head, config, index, closed, faults>>

(* A slip to catch: the channel of the job registered by now is closed. *)
CloseCurrent(g) ==
    /\ At(g, "close")
    /\ closed' = closed \cup {job.gen}
    /\ Become(g, Gone)
    /\ UNCHANGED <<head, config, index, job, faults>>

(* The channel of the job that finish found. *)
Close(g) ==
    /\ At(g, "close")
    /\ closed' = closed \cup {sync[g].gen}
    /\ Become(g, Gone)
    /\ UNCHANGED <<head, config, index, job, faults>>

-----------------------------------------------------------------------------
(* synchronizeRepositoryIndex, in a job or in a request *)

(* A request is answered; a job records its outcome. *)
Outcome(p, success) ==
    IF p \in Jobs THEN [Idle EXCEPT !.pc = "finish", !.ok = success]
    ELSE IF success THEN [sync[p] EXCEPT !.pc = "ready", !.cfg = 0]
    ELSE Idle
Succeed(p) == Become(p, Outcome(p, TRUE))

(* A slip to catch: the error is dropped and the work goes on. *)
FailIgnored(p) == Succeed(p)
Fail(p) == Become(p, Outcome(p, FALSE))

(* The commit of the branch; when GitFlame cannot tell, the snapshot is    *)
(* labelled with a hash of its files (stored connections know no commit).  *)
Resolve(p) ==
    /\ At(p, "resolve")
    /\ \/ /\ ~sync[p].force
          /\ Become(p, [sync[p] EXCEPT !.sha = head, !.since = head, !.pc = "status"])
          /\ UNCHANGED faults
       \/ /\ sync[p].force
          /\ Become(p, [sync[p] EXCEPT !.sha = head, !.since = head, !.pc = "tree"])
          /\ UNCHANGED faults
       \/ /\ Fault
          /\ Become(p, [sync[p] EXCEPT !.sha = NoCommit, !.since = head, !.pc = "tree"])
    /\ OnlySync

Status(p) ==
    /\ At(p, "status")
    /\ \/ index[sync[p].sha] # NotIndexed /\ Succeed(p) /\ UNCHANGED faults
       \/ index[sync[p].sha] = NotIndexed /\ Goto(p, "tree") /\ UNCHANGED faults
       \/ Fault /\ Fail(p)
    /\ OnlySync

ReadTree(p) ==
    /\ At(p, "tree")
    /\ \/ Become(p, [sync[p] EXCEPT !.tree = head, !.pc = "config"]) /\ UNCHANGED faults
       \/ Fault /\ Fail(p)
    /\ OnlySync

(* LatestAIConfig, then the files it selects. *)
ReadConfig(p) ==
    /\ At(p, "config")
    /\ \/ Become(p, [sync[p] EXCEPT !.cfg = config, !.pc = "index"]) /\ UNCHANGED faults
       \/ Fault /\ Fail(p)
    /\ OnlySync

(* CodeRAG takes the files; it may keep what it has unless forced. *)
Store(p) ==
    \/ sync[p].sha = NoCommit /\ UNCHANGED index
    \/ sync[p].sha # NoCommit /\ ~sync[p].force /\ index[sync[p].sha] # NotIndexed /\ UNCHANGED index
    \/ /\ sync[p].sha # NoCommit
       /\ index' = [index EXCEPT ![sync[p].sha] = [from |-> sync[p].tree, cfg |-> sync[p].cfg]]

(* A slip to catch: the snapshot is labelled with the commit of the branch *)
(* at the end.                                                             *)
IndexLate(p) ==
    /\ At(p, "index")
    /\ index' = [index EXCEPT ![head] = [from |-> sync[p].tree, cfg |-> sync[p].cfg]]
    /\ Succeed(p)
    /\ UNCHANGED <<head, config, job, closed, faults>>

(* Index and SaveRepositorySnapshot; either may fail, the second when      *)
(* CodeRAG has the files already.                                          *)
Index(p) ==
    /\ At(p, "index")
    /\ \/ Store(p) /\ Succeed(p) /\ UNCHANGED faults
       \/ Fault /\ Fail(p) /\ (UNCHANGED index \/ Store(p))
    /\ UNCHANGED <<head, config, job, closed>>

SyncStep(p) == Resolve(p) \/ Status(p) \/ ReadTree(p) \/ ReadConfig(p) \/ Index(p)

-----------------------------------------------------------------------------
(* Requests *)

(* Saving .ai.yml forces a job after the configuration is stored. *)
SaveConfig(c) ==
    /\ At(c, "idle") /\ config < MaxConfig /\ JobRoom
    /\ config' = config + 1
    /\ Goto(c, "begin")
    /\ UNCHANGED <<head, index, job, closed, faults>>

SaveConfigBegin(c) ==
    /\ At(c, "begin")
    /\ Begin(TRUE, [sync EXCEPT ![c] = Idle])
    /\ UNCHANGED <<head, config, index, closed, faults>>

(* analyze and analyzeRecommendations: ensureRequestRepositoryIndex, with  *)
(* the commit the client names or none.                                    *)
Analyze(c) ==
    /\ At(c, "idle")
    /\ \E sha \in 0..head : Become(c, [Idle EXCEPT !.pc = "await", !.sha = sha, !.since = sha])
    /\ OnlySync /\ UNCHANGED faults

Synchronize(c) ==
    \/ sync[c].sha = NoCommit /\ Become(c, [sync[c] EXCEPT !.pc = "resolve", !.gen = 0])
    \/ sync[c].sha # NoCommit /\ Become(c, [sync[c] EXCEPT !.pc = "status", !.gen = 0])

(* wait: the look-up *)
Await(c) ==
    /\ At(c, "await")
    /\ IF job.st = "running"
       THEN Become(c, [sync[c] EXCEPT !.pc = "wait", !.gen = job.gen])
       ELSE Synchronize(c)
    /\ OnlySync /\ UNCHANGED faults

(* wait: the channel is closed *)
Wake(c) ==
    /\ At(c, "wait") /\ sync[c].gen \in closed
    /\ Synchronize(c)
    /\ OnlySync /\ UNCHANGED faults

(* wait: the timer fires or the client is gone *)
GiveUp(c) ==
    /\ At(c, "wait")
    /\ Become(c, Idle)
    /\ OnlySync /\ UNCHANGED faults

(* A push or merge event synchronizes the commit it names at once, or the  *)
(* newest of the branch when it names none.                                *)
PushEvent(c) ==
    /\ At(c, "idle")
    /\ \E sha \in 1..head \cup {NoCommit} :
          Become(c, [Idle EXCEPT !.pc = IF sha = NoCommit THEN "resolve" ELSE "status",
                                 !.sha = sha, !.since = sha])
    /\ OnlySync /\ UNCHANGED faults

(* The index is there: the request goes on with its work. *)
Proceed(c) ==
    /\ At(c, "ready")
    /\ Become(c, Idle)
    /\ OnlySync /\ UNCHANGED faults

-----------------------------------------------------------------------------
(* The environment *)

Push ==
    /\ head < MaxHead
    /\ head' = head + 1
    /\ UNCHANGED <<config, index, job, closed, sync, faults>>

(* A new backend process starts with an empty registry. *)
Restart ==
    /\ Fault
    /\ job' = [job EXCEPT !.st = "none", !.fresh = FALSE]
    /\ sync' = [p \in Callers \cup Jobs |-> IF p \in Jobs /\ p <= job.gen THEN Gone ELSE Idle]
    /\ UNCHANGED <<head, config, index, closed>>

-----------------------------------------------------------------------------
Init ==
    /\ head = 1 /\ config = 0
    /\ index = [c \in Commits |-> NotIndexed]
    /\ job = [gen |-> 0, st |-> "none", fresh |-> FALSE]
    /\ closed = {}
    /\ sync = [p \in Callers \cup Jobs |-> Idle]
    /\ faults = 0

JobStep(g) == SyncStep(g) \/ Finish(g) \/ Close(g)

CallerStep(c) == Await(c) \/ Wake(c) \/ SyncStep(c) \/ SaveConfigBegin(c) \/ Proceed(c)

Next ==
    \/ \E force \in BOOLEAN : Browse(force)
    \/ Expire \/ Push \/ Restart
    \/ \E g \in Jobs : JobStep(g)
    \/ \E c \in Callers :
          SaveConfig(c) \/ Analyze(c) \/ PushEvent(c) \/ GiveUp(c) \/ CallerStep(c)

(* Goroutines are scheduled; the wait is not kept going by its timer. *)
Spec == Init /\ [][Next]_vars
FairSpec ==
    /\ Spec
    /\ \A g \in Jobs : WF_vars(JobStep(g))
    /\ \A c \in Callers : WF_vars(CallerStep(c))

-----------------------------------------------------------------------------
(* Properties *)

(* Every variable keeps its type (repository_index_jobs.go:51-79).         *)
TypeOK ==
    /\ head \in Commits /\ config \in Nat /\ faults \in Nat
    /\ index \in [Commits -> [from : Nat, cfg : Nat]]
    /\ job \in [gen : 0..MaxJobs, st : {"none", "running", "completed", "failed"}, fresh : BOOLEAN]
    /\ closed \in SUBSET Nat
    /\ sync \in [Callers \cup Jobs -> Process]
    /\ \A p \in Callers \cup Jobs : sync[p].sha \in 0..head

(* The goroutine of job g has not recorded its outcome. *)
Working(g) == sync[g].pc \in {"resolve", "status", "tree", "config", "index", "finish"}

(* A repository never has more than one job in flight                      *)
(* (repository_indexing.go:69-70), and the registry knows exactly which:   *)
(* no outcome is recorded for another job than the one it is about         *)
(* (finish, repository_index_jobs.go:119-121).                             *)
SingleFlight == \A g \in Jobs : Working(g) <=> (job.st = "running" /\ job.gen = g)

(* A waiting request is never forgotten: its job still runs, or is about   *)
(* to close the channel, or has closed it (wait and finish,                *)
(* repository_index_jobs.go:122-198).                                      *)
NoLostWakeup ==
    \A c \in Callers : At(c, "wait") =>
        \/ sync[c].gen \in closed
        \/ \E g \in Jobs : g = sync[c].gen /\ (Working(g) \/ (At(g, "close") /\ sync[g].gen = g))

(* What is indexed under a commit was never read before that commit: it    *)
(* may be newer when the branch moves during a job, never older            *)
(* (synchronizeRepositoryIndex, repository_indexing.go:159-274).           *)
IndexNeverOlder == \A c \in Commits : index[c] # NotIndexed => index[c].from >= c

(* A request that goes on to queue AI work has an index, and not one that  *)
(* was stale when its synchronization started (repository_index_jobs.go:   *)
(* 14-17, repository_indexing.go:157-158).                                 *)
ReadyIsFresh ==
    \A c \in Callers : At(c, "ready") =>
        IF sync[c].sha = NoCommit THEN sync[c].tree >= sync[c].since
        ELSE /\ index[sync[c].sha] # NotIndexed
             /\ index[sync[c].sha].from >= sync[c].since

(* The .ai.yml controls which files are indexed, so saving it rebuilds the *)
(* index (repository_data.go:72-74): once everything has come to rest, no  *)
(* call having failed, the newest commit is not indexed under an older     *)
(* configuration.                                                          *)
ConfigIsIndexed ==
    (faults = 0 /\ \A p \in Callers \cup Jobs : sync[p].pc \in {"idle", "gone"}) =>
        index[head] = NotIndexed \/ index[head].cfg = config

(* Every wait ends, without the help of its timer: whatever the job meets, *)
(* finish closes the channel it waits for (repository_index_jobs.go:       *)
(* 122-198).                                                               *)
WaitEnds == \A c \in Callers : At(c, "wait") ~> ~At(c, "wait")

=============================================================================
