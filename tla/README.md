# GitFlame CodePilot: formal model

CodePilot turns the issues of a GitFlame repository into plans and code: a user
asks for a plan, corrects or approves it, and an LLM engine generates files that
are then committed and offered as a pull request. This directory holds TLA+
models of the parts whose correctness depends on the order of events, TLC
configurations that check them on small instances, and theorems that TLAPS
proves for instances of any size.

Line numbers are those of the repository this directory belongs to. Backend
paths are under `backend/`, mostly `backend/internal/`.

## 1. The system

```
 browser (Vue) --HTTP, polling--> backend --XADD--> Redis stream --> agent-worker --> agent-engine --> LLM
                                   |  |  \                             |
                                   |  |   \--> CodeRAG (index)         |
                                   |  \------> recommendation-service  |
                    GitFlame <-----/  \------> PostgreSQL <------------/
                       \------ webhooks ----> backend
```

| Component | State | Operations | What makes it correct |
|---|---|---|---|
| Issue workflow (`service/workflow.go`, `cmd/agent-worker/main.go`) | session row (status, plan, revision, contract, feedback), task rows | `Analyze`, `Correct`, `Approve`, `Reject`, `Retry`, `dispatch`, `ExecuteTask`, `RetryTask`, `failTask`, `process` | work promised to the user is done, failed or visibly given up; a status never announces a result that is not there; a completed task stays completed |
| Agent queue (`queue/redis.go`) | stream, consumer group with its pending list, dead-letter stream | `Publish`, `Read` (claim, then read), `Ack`, `DeadLetter` | an accepted job is delivered until executed or buried; the length limit holds up to the publishers that race |
| Index jobs (`httpapi/repository_index_jobs.go`, `repository_indexing.go`) | the registry in memory, the index in CodeRAG, the stored configuration | `begin`, `finish`, `wait`, `synchronizeRepositoryIndex` | one job in flight, no lost wake-up, nothing stale is indexed under a commit or handed on |
| Reading files (`httpapi/gitflame_client.go`, `repository_data.go`) | the tree, the pool of goroutines | `RepositoryTree`, `repositoryFiles`, `fetchRepositoryFileContents` | a read has all it should have, or ends with the error that stopped it |
| Applying files (`httpapi/server.go`, `gitflame_client.go`) | branch, commits and pull request in GitFlame, the apply status | `applyGeneratedFiles`, `ApplyGeneratedFiles` | a pull request is opened, and success reported, only when all accepted changes are on its branch |
| Webhooks and recommendations (`httpapi/webhooks.go`, `server.go`) | registrations, events, reports with their cards | create, disable, receive, background processing, analysis on request, decisions on cards | an event is processed once and its status is true; the secret users were given last is the one expected |
| Connections (`httpapi/auth.go`, `security/credentials.go`) | users, sessions, connections with encrypted tokens | sign in and out, connect, reconnect, revoke, open | a stored token is its user's, for its repository only; a use never undoes a revoke |
| Store (`repository/postgres.go`, `memory.go`) | all rows | create, read, update | what is written is read back: both stores answer alike |
| Validation (`service/*.go`) | none | plan and file checks, normalisation, `.ai.yml` | what is accepted can be carried out on the files that were read |
| Agent engine (`recommendations/src/agent_engine`) | one conversation per request | the tool loop, repair, salvage, focused generation | it ends within its step, call and time budgets with a valid result or an error |
| Recommendation service (`recommendations/src/recommendation_service`) | none | analyzers, model call, filtering | findings are real, distinct and above the threshold |
| Frontend (`frontend/src`) | session store, poll timers | polling with limit and abort | what is shown is the latest answer |
| Operations, observability, infrastructure | metrics, logs | reports | they change nothing |

How the parts interact. An HTTP request writes rows and then publishes a job that
holds a copy of the session. A worker claims jobs that have been pending for a
minute, reads new ones, runs the engine and writes rows with no lock shared with
the requests: every process reads a whole session and later writes a whole session back.
The only atomic unit is a single store call or Redis command. Index jobs run in
goroutines of the backend process; requests wait for them on a channel.

A push webhook starts a goroutine that reads the repository, indexes it and stores a
new report; it uses the connection the registration names. Applying files is a sequence of
GitFlame calls inside one HTTP request.

What is hard here: stale copies written back; rows, stream and dead letters that
have to agree with no transaction around them; at-least-once delivery of
operations that call a paid model; workers killed half-way; a full queue in
the middle of a retry; a branch that moves under an index job, a read or an apply; an
in-memory registry that restarts empty; GitFlame calls that take effect and lose their
answer; deliveries repeated while the first is being saved; registrations and connections
changed by two requests at once; bodies of answers cut short and taken for the whole. `PROJECT.json` lists every hazard at its line with
the properties that would notice it going wrong.

## 2. The modules

| Module | Models | Notes |
|---|---|---|
| `Workflow` | the issue workflow and the worker, one store or broker call per step | one session and all its tasks; PostgreSQL store |
| `AgentQueue` | the Redis stream, command by command | implements `JobDelivery` |
| `JobDelivery` | what the queue promises, whatever it is made of | abstract specification |
| `IndexJobs` | the registry, index jobs, and the requests that start or await them | one repository, one backend process |
| `GitRepository` | the default branch, pushes and failing calls, for the modules below | one branch; external, as the backend uses it |
| `AIConfig` | `ParseAIConfig` over documents | operators |
| `FetchFiles` | reading the configured files, with the pool of goroutines | over `GitRepository` |
| `GeneratedFiles` | from a reply of the agent to accepted operations | operators |
| `Slices` | the loops over slices that these parts share | operators |
| `ApplyChanges` | the apply request, GitFlame call by GitFlame call | over `GitRepository` and `GeneratedFiles`; implements `PullRequest` |
| `PullRequest` | what applying promises, whatever calls it takes | abstract specification |
| `CodeChange` | one issue from its files to its pull request | composes `FetchFiles` and `ApplyChanges` |
| `Connections` | users, sessions, connections and their tokens | all users; Postgres store |
| `Webhooks` | registrations, deliveries, events, reports | one connection |
| `*_proofs` | theorems about the module they extend | checked by TLAPS |
| `SequenceFolds` | what a fold over a sequence keeps, for any operation | a lemma, instantiated by the proof modules |
| `MC*` | values and symmetry for TLC | constants are in the `.cfg` files |

Operators named in a comment "a slip to catch" are not part of a model: each is a
plausible mistake in the definition that follows it. Substituting one for that
definition makes TLC report the property that is meant to catch it.

### Workflow

`session` is the row as `PostgresStore.Session` joins it, `tasks` the task rows,
`stream` the entries not yet acknowledged, `dead` the dead letters. `req[h]` and
`wrk[w]` are the program counters and local variables of a request and of a
worker. A step ends where the code calls the store or the broker, so `Approve`
(`workflow.go:339-383`) is five actions: read and check, write an edited plan,
write `approved`, create the task, write `code_generation_queued` and build the job.

* A plan text is a number, new for each engine run or user edit. Generated files
  are represented by the plan they were generated from; what matters is whether
  there are any (`NoContract` nil, `NoFiles` the emptied contract that `Approve`
  writes).
* `Save` keeps the asymmetries of `UpdateSession`: plan and feedback rows are
  written only with status `plan_generated`, the contract only when not nil.
* A worker's failure is `temporary` or `permanent`, as `temporary` in `main.go`
  sorts them. A request that the engine refuses is permanent (`Acceptable`).
* Faults: a failed store call or a crash ends a request half-way (`Abort`),
  diverts a worker as `process` and `failTask` do (`WError`) or kills it
  (`WCrash`); `Publish` fails before or after its entry was added.
* `dropped` is a history variable: it records that a request was aborted, that
  apply wrote back an old transient status, or that an entry was claimed while its
  worker still ran. Properties that such an event makes false by the design of
  the code name it as their exception; the exceptions are observable.

### AgentQueue and JobDelivery

`Publish` is `CheckLength` and `AddJob`, `Ack` is `XAck` and `XDel`; each command
may fail before or after taking effect. `XAUTOCLAIM` may take an entry from a
worker that is merely slow. `Live` says which entries the consumer group will
still hand out. The refinement maps `custody` to the jobs of the live entries; it
reads the stream and the pending list only, never what a worker remembers, so a
killed worker loses nothing.

### IndexJobs

A commit is its position on the branch, a configuration its number.
`index[c]` records at which commit, and with which configuration, the files held
by CodeRAG under commit `c` were read. The mutex makes `begin`, `finish` and the look-up
of `wait` single steps; closing the channel is a step after `finish`. The one-minute
reuse of a success expires at any time (`Expire`). A resolve that fails leaves
the label to a hash of the files; such a snapshot is kept apart from the commits.

### GitRepository, FetchFiles, GeneratedFiles, ApplyChanges, CodeChange

The content of a file is the commit that last changed it, so "stale" and "missing" can be
told apart and nothing else has to be. `FetchFiles` takes the tree directory by
directory, then the configuration, the selection and the contents: a listing that is
there already ("index") is read by the pool of `fetchRepositoryFileContents`, whose
goroutines are `TakeIndex` and `FetchContent` with the first error kept and the
rest cancelled; otherwise ("analysis") one loop reads. Users push between any two calls, any call may fail,
and the caller may leave.

Contents and configuration are bodies that `doGET` returns as they are
(`gitflame_client.go:1128`): it drops the error of reading them and stops at 2 MB. A body
ends early when the connection fails (a fault), when the caller leaves or when the pool
cancels its other calls (`EndsEarly`), and the call succeeds with what came. `fetch.torn` and
`fetch.misread` remember which content and whether the configuration came so; `Large` are the files longer
than 2 MB, `Remains` what may be left of a document. A cut content may fail the test for
text, and content that is not text may pass it (`HandOver`). What is left of a file is still a
file (`Rest`), if only an empty one, which is a content of its own number.

`GeneratedFiles` has the pipeline of `executeCodeGenerationTask` as functions over
sequences: merging of operations on one path, dropping of unchanged and of partial
files, validation, in the order of the code. A path is a sequence of segments so
that `NormalizePlanPath` is `path.Clean`; a content is a number with what the code
looks at (`Text`). `ApplyChanges` follows `ApplyGeneratedFiles`: branch, then one commit or
file by file with its SHA and its one retry on a conflict, then the pull
request. A call that writes may take effect and lose its answer; a request may stop
anywhere. `Promise` maps the session and the branch to `PullRequest`.

In `CodeChange` one session goes from its files to its pull request; code is
generated once. What happens between the two, plan and queue, is `Workflow`.

### Connections

Each request is one record with its program counter; a step is one call of the store or
of GitFlame. A ciphertext is what was sealed: token, key version, user and
repository, and `Decrypts` succeeds for exactly these. Row, session and user are
numbers, as the uuids of the tables. `SaveGitFlameConnection` is the upsert of
`postgres.go:631-698`. A restart with a newer key leaves what
the old one sealed unreadable, until it is connected again.

### Webhooks

`admin` are requests that read a registration and write it back, `receiver` deliveries
between their checks, `work[e]` the goroutine of event `e` with its copies. A create saves first
(`Create`) and reveals its secret afterwards (`Answer`): `created` is the secret of the newest create
saved, `answered` the secrets users were given. Answers come in any order; `FailRequest` is a
failed save, a lost reply of the save, or a lost answer. GitFlame signs with a secret the user
was given, any of them. An event may be stored and its reply lost: it then has no goroutine. `Save`
of a report merges the cards as `SaveRecommendations` does (`FoldLeft` over the findings).
`Restart` ends every goroutine and request; nothing takes up their events again. Other
components, a revoke of the connection or a stored configuration, are one-step
incidents; `MaxIncidents` counts them with the failures, the analyses that users ask for and their
decisions on cards.

## 3. What TLC checks

| Run | Question | Bounds |
|---|---|---|
| `wf_races` | Can requests that race each other and a worker leave a status without its result, or undo a completed task? | 2 requests, 1 worker, 3 tasks, 2 plan texts, queue of 2, no faults (1.3 million states) |
| `wf_faults` | With a crash, storage error or Redis error, is all promised work still backed by somebody, and does it settle? | 1 request, 1 worker, 2 tasks, 2 attempts, 1 fault |
| `q_bounds` | Do length, leaks and acknowledgements stay within their limits, and is every step allowed by `JobDelivery`? | 3 jobs, 2 publishers, 2 workers, limit 2, 1 fault (2.1 million states) |
| `q_live` | Is every accepted job delivered in the end? | 2 jobs, 1 publisher, 2 workers, 1 fault |
| `ix_jobs` | Is there one job in flight, does every waiter wake, is what requests get fresh? | 3 jobs, 1 request, 2 commits, 1 configuration save, 1 fault |
| `code_change` | Are reads complete, are accepted operations applicable to what was read, and does the pull request hold them? | 5 files in 3 directories, 1 push, 1 failed call, 2 goroutines, replies of up to 2 operations of 13 kinds, 2 apply requests, both ways GitFlame takes files; 1 file over 2 MB, each body whole or cut (1.5 million states) |
| `connect` | Whose token is stored, whose is used, and what does a late use undo? | 2 accounts, 2 tokens, 2 repositories, 3 requests, 2 at a time, 2 sessions, 2 connections, 2 keys |
| `hooks` | Is a delivery processed once, is its status true, which secret is expected and who was given it, does every event settle? | 2 requests about the registration, 2 receivers, 2 commits, 2 secrets, 1 delivery and its repeats, 2 events, 1 incident (1.7 million states) |
| `wf_v_rerun`, `wf_v_unpaired`, `wf_v_redelivery`, `ix_v_config` | Disagreements of code and documentation, section 6 | the smallest instance that shows each |

Why these bounds are enough to be interesting. Two requests are what a stale copy
needs: one to hold it and one to change the row. Three tasks let an approved
session have a revision behind it. A queue of two entries is filled by a job
being processed and one other, which is when a retry is refused. Two
workers are what a claim of a running entry needs. Three index jobs allow a
forced job after a finished one and a job after a restart. One fault at each
possible place covers every single failure; several faults are covered only by the
proofs.

In `code_change` the limits are scaled down so that they are reached: two files may be
read where three are wanted, and a content of 200 characters is the longest allowed.
The 13 operations are those that the pipeline treats differently: each action on
a file that was read, one that was not and one that is absent, a whole file, a fragment, a change of
line ends, a blank; paths that normalise to one another, leave the repository or lack an explanation.
Two of them in one reply make every merge. Two apply requests are what a
repeated or concurrent attempt needs. The one fault is a call that fails or a body that ends
early; a cancellation by the caller or the pool cuts any number of others. What is left of a
content is one other text, and of a document one that sets nothing: the two cases a property can tell
from the whole. In `connect` three requests make every
sequence of connect, reconnect or revoke, and a use in between; the theorems cover
any number. In `hooks` a first event and its repeat both find the table empty
when two receivers are there, and two creates and a disable are what a stale
registration takes. With one delivery per kind the window of compared events
(100 in the code, `Window = 1`) does not overflow; an instance in which it does
is too large for a routine run. `ProcessedOnce` does not depend on it, as its theorem shows: the
unique index of the table is what it rests on.

`MaxTasks`, `MaxPlans`, `MaxJobs`, `MaxHead`, `MaxConfig`, `MaxFaults`, `MaxArrivals`,
`MaxSessions`, `MaxRows`, `MaxKey`, `MaxSecrets`, `MaxDisables`, `MaxSent`, `MaxEvents`
and `MaxIncidents` bound counters that have no bound in the code. The guards reserve room before a request
starts (`TaskRoom`, `JobRoom`), so that no operation is cut in the middle;
`EngineOK` needs a plan number, and `EngineError` stays possible when there is none.
`CHECK_DEADLOCK FALSE` is used in the queue runs, where every job has been
asked for and settled in the end, and in `connect` and `hooks`, which rest when all
requests and deliveries that the bounds allow have been made.

### Fairness

`FairSpec` gives weak fairness to the next step of each request, worker and index
job as a whole: goroutines are scheduled by the Go runtime, containers restart, and the
worker loops on `Read`. It does not make the engine succeed: `EngineOK` and
`EngineError` are alternatives of one fair action. Users, pushes, `Expire`,
timers and faults are never forced. Faults are finitely many by their bound, which is
the assumption that an outage ends. `WaitEnds` holds without the timer of `wait`.

In `Webhooks` only the goroutines of events are fair, as long as their process
lives, and only together: while some goroutine has a step to take, one of them takes a step. Each
has a few steps and starts no other, so this weaker fairness already ends them all. Nothing in the
code takes up an event after a restart, so `EventSettles` has failures and restarts as its exception (`faulty`).

### The properties

* `PlanReady`, `CodeReady`: a session shown as `plan_generated` has a plan and one
  shown as `code_generated` has files, although several processes write back copies.
* `CompletedIsFinal`: while nothing fails and no running entry is claimed, no second
  entry and no late `failTask` touches a completed task.
* `NoStuckSession`, `NoLostTask`: while a status promises work, some request,
  worker, entry or dead letter is responsible for it.
* `RowsMatchStream`: without faults a new entry has a queued row of the same
  attempt, and no task is queued twice.
* `TaskSettles`, `SessionSettles`: what is promised ends, or is visibly given up.
* `LengthBound`, `LeakBound`, `AckIsEarned`: how far the limit can be passed, what
  a failed `XDEL` costs, and why nothing is acknowledged too early.
* `DeliverySafe`, `DeliveryDelivered`: the two halves of `JobDelivery!Spec`.
* `SingleFlight`, `NoLostWakeup`, `IndexNeverOlder`, `ReadyIsFresh`, `WaitEnds`: one
  index job at a time, no waiter forgotten, nothing older than a commit under it.
* `ReadIsComplete`: a successful read has every wanted file that did not change meanwhile, unless
  the limit was reached. A content is cut only when it is longer than 2 MB, when a call failed during
  the read, or when the caller left a read that a loop does; what a pool hands over was never
  torn by a cancellation, its own or the caller's. A configuration is misread only after a fault or when
  the caller left. "Wanted" is relative to the document that arrived.
  `ErrorIsFirst`: the error of a failed read is a cause, not the cancellation that followed it.
* `AcceptedIsApplicable`: the accepted operations can be carried out in order on the
  files that were read, and none is dropped again before it is applied.
* `PullRequestSafe`: apply implements `PullRequest`. `AppliedIsReal`: a session that says
  applied has a pull request whose branch is what it was made from, plus exactly the operations.
* `RefusedOnlyWhenDone`: GitFlame refuses an accepted operation only when an attempt has
  carried one out already, or the branch was made with a file that was not read or without one that
  was; never because the content that was read had been cut.
* `StoredTokenIsOwn`, `ClientIsAuthorized`, `RowKeepsRepository`, `UseNeverRevives`:
  tokens, users and repositories are never mixed up, and only a checked token revives a connection.
* `ProcessedOnce`, `StatusIsTrue`, `EventSettles`: what a delivery leads to.
  `ActiveSecretIsNewest`: an active registration expects the secret of the newest create saved, and
  unless a call failed or the process restarted, the user has that secret or will be given it.
  `RunHasEachFinding`: one card for a finding, and none lost.

Several properties name an exception. `dropped` (aborted requests, a transient status that apply writes back,
a running entry claimed) bounds `NoStuckSession`, `NoLostTask`, `TaskSettles` and
`SessionSettles`: of a request that fails between its steps they cover the failing `Publish`. A dead letter
counts as an end for them; that its task may be beyond a retry is what `DeadLetterCanBeRerun` shows.
`RowsMatchStream` and `CompletedIsFinal` speak of behaviours without faults, so that a lost reply of
`XADD` is covered by `DeliverySafe` alone. `faulty` bounds `EventSettles` and the second half of
`ActiveSecretIsNewest`.

What the runs also show, and no property excludes. The first two items contradict a comment of the
code, and the properties name them as exceptions; of the others no text of the repository promises otherwise:

* At the limit of 2000 files the rest is left out without an error
  (`gitflame_client.go:582`), although the comment at `:552-554` speaks of the complete snapshot and of
  never truncating the index.
* The same comment meets `doGET` (`gitflame_client.go:1128`): a file of more than 2 MB is indexed
  cut, and so is any file whose body ends early in a fault. The call counts as a
  success and the commit as indexed, so that only a new commit or a forced job reads the file again. A `.ai.yml`
  cut this way is parsed as another configuration, so that other files are read than the owner asked for. In an analysis, whose loop
  does not look at the context after its last call, a caller who leaves has the same effect; the pool does look.
* A file whose body was cut is modified like any other: the new content, made from the part that was read,
  replaces the whole file. (A file cut at 2 MB is refused in a request, which takes 500,000
  characters: `workflow.go:513`.)
* When the answer of a create is lost after its save (`webhooks.go:62-70`), the registration is active with a
  secret nobody was given, and refuses every delivery signed with an older one. The answers of two creates
  may come in the opposite order of their saves, so that the secret given last is not the one expected.
  Creating again mends both.
* A modified file replaces what users pushed to it between the analysis and the making of
  the branch: operations are based on the files read, the branch on the current head.
* When the commit succeeded and the pull request failed, a retry whose operations create or
  delete is refused each time; a late failing attempt overwrites `applied` by `failed`.
* A reconnect that names another repository fails on the primary key in Postgres, or saves
  to the user's other row. A reconnect that races a revoke revives the row,
  and a request or index job keeps the token it had opened.
* The goroutine of an older push may store its report last. A push to any branch
  replaces the report. Two first creates at once leave two active registrations, of which a disable
  reaches the newest. Closed cards are open again in the next report.

## 4. What is proved

Each `*_proofs` module proves its theorems for all values of the constants, from
the assumptions stated with them. These are facts about the parameters:

* The limits and retry counts are positive, the other bounds natural, publishers, queue
  workers and goroutines finitely many, and index callers are not numbered like jobs.
* `FetchAssumption`: the repository has finitely many paths, and none is inside
  another: a path is a file or a directory. `Large` are some of the files, and `Remains` says of each document
  what may be left of it. The pool has a goroutine
  (`gitflame_client.go:633-640` starts at least one when there is a file).
* `TextAssumption`: two contents that are the same but for line ends have as many
  lines that are not blank, and the empty content has none.
* `RepliesAssumption`: a reply is a sequence of operations with the fields that the
  decoder of the backend fills, whatever they say; `Files` includes each safe path they name. What is left of a
  file (`Rest`) is not "no file".
* `ConnectionsAssumption`, `WebhooksAssumption`: a token belongs to one account, an address to
  one repository, and every commit has a configuration and findings.

**`Workflow_proofs`**: `Types`, `PlansAreReady`, `CodeIsReady`. `PlanReady` is not inductive: a
stale copy may be written at any time. The invariant `Inv` therefore says of
everything that may become a row what it says of the row: each copy a request or worker
holds has what its status announces (`RequestFits`, `WorkerFits`), a job for code
generation, wherever it is, carries a plan (`EntryFits`), and a session with a
code task has one (`StoreFits`). `Grows` is what a step may do to the rows: add
tasks, never change their type, never remove a plan. With it, whoever does not move stays
right, and each action is left with its own process.

**`AgentQueue_proofs`**: `Types`, `AcksAreEarned`, `LengthIsBounded`, `LeaksAreFaults`,
`ImplementsDelivery`. `Inv` adds that ids are unique and ordered, and that
the job of a message a worker holds is settled or still live in the stream (`Kept`), for a
worker about to acknowledge by a younger entry (`Earned`): another worker can delete the
message itself. `QueueStep` is what any step may do to the queue. The length bound
counts publishers past the check into the sum; the leak bound follows the entries
neither live nor being deleted.

**`IndexJobs_proofs`**: `Types`, `OneJobInFlight`, `WaitersAreWoken`,
`IndexIsNeverOlder`, `RequestsSeeFreshIndex`. `Inv` says of each process that
what it has read so far is recent enough for the label it will store it
under (`ProcessOK`), and of the registry that a running job is registered under its
own number and closes its own channel (`Registry`).

**`WorkflowCustody_proofs`**: `NothingIsLost`, `SessionsAreNotStuck`. `NoLostTask` is not
inductive: that an entry will be executed says nothing about the entry another worker
holds. `Custody` adds that entry ids are unique (`Numbered`), that each
worker at work has a pending entry of the stream that no other worker has (`Apart`, `Given`), and
that each task under way is covered by somebody who will still write its row
(`Covered`), which is stronger than the property: a request about to return covers nothing.
It holds while `dropped` is empty, so the invariant is `Kept == dropped = {} => Custody`.
Faults and crashes are in it: a killed worker leaves its entry, and every path that stops
carrying a task has settled its row or hands it on in the same step.

The same module proves `RowsAndStreamMatch` and `CompletedRowsAreFinal`: `Ordered == Quiet => Order`,
where `Quiet` is "no fault so far and no running entry claimed". `Order` says that each task
has at most one owner (`Sole`): a request that will publish it, a new entry, or a worker;
and that its row is where that owner has brought it (`Owned`). Two `Retry` of one task
create two tasks, so that they do not disturb it. A completed task has no owner left
that would write its row, which is the action property.

**`SequenceFolds`**: `FoldInvariant`. The loops of the code are folds in the model, and
what a fold computes takes induction over its sequence. The module has the operation
and what it keeps as constants, shows that the function `FoldLeft` is defined by exists, and
proves the induction step by step from the well-foundedness of `<`. A module
that folds instantiates it: `Joined` is the loop that appends what it accepts,
`Merged` the merging of operations, `Carries` a commit, `Visits` a directory of the walk and, in
`Webhooks_proofs`, `Normalized` the cards of a report. It is a tool: it says nothing about the
system by itself and is not among the theorems listed.

**`CodeChange_proofs`**: `Invariant`, `TypesAreKept`, `ReadsAreComplete`, `ErrorsAreFirst`,
`AcceptedAreApplicable`, `AppliedAreReal`, `RefusalsHaveReasons`, `KeepsThePromise`. None of
the properties is inductive. `Inv` has these parts:

* `ReadInv`. `ReadIsComplete` speaks of a read that has ended. Until then, each wanted
  file that did not change is listed, or one of the directories still to be listed leads to
  it (`WalkInv`); the selection has all of them, or as many as the limit allows (`FilesInv`);
  and each file of the pool is fetched, waits in the channel or is with a goroutine, unless an
  error was stored (`PoolOK`). A goroutine meets the cancellation of the pool
  only after an error was stored, and a stored error is never replaced (`ErrorInv`).
* `TornInv`. What is torn has its cause while the read runs: a fault since it began, the caller who
  left, or a cancellation of the pool, and then an error is stored. `FinishPool` hands over only without
  an error and with the caller there, which leaves the fault; that is the part of
  `ReadIsComplete` about cut contents.
* `ApplyInv`. For each request and each place in its calls, what the branch shows by
  then (`RequestOK`): the operations before its own are there, and the SHA it holds is
  that of the file, unless another request has carried the operation out. The branch has what it
  was made from but for accepted operations (`BranchOK`). A refusal has its reason already
  when it happens (`Refusals`); `Advance`, that the branch never takes an operation back,
  keeps it, and keeps what the requests that do not move know.
* They meet in `Analyze`: no file that was read lacks its content, which is why an
  operation that is acceptable on the files modifies or deletes only files that exist.

`AcceptedIsApplicable` is a fact about `GeneratedFiles` alone: what merging, dropping and
validation leave has distinct normalised paths, so that each operation finds the file as it was
read. `KeepsThePromise` is the refinement of `PullRequest`: each action of
`ApplyChanges` is a step of it or a stutter, under `Inv`.

**`Connections_proofs`**: `Invariant`, `Types`, `StoredTokensAreOwn`, `ClientsAreAuthorized`,
`RowsKeepRepository`, `UsesNeverRevive`. `Inv` says of each request, by its program counter, how what it
holds relates to the tables (`RequestOK`): a token about to be saved was checked to be its
user's, a row about to be read back is its user's and its repository's. `TablesGrow`,
that tables only grow and keep who a row is about, lets whoever does not move stay right.

**`Webhooks_proofs`**: `Invariant`, `TypesAreKept`, `ActiveSecretsAreNewest`, `DeliveriesProcessedOnce`,
`StatusesAreTrue`, `RunsHaveEachFinding`. `Registrations`, `Deliveries` and `RunsTrue` are
three separate inductions: a disable writes a secret that may be old, but never together with
`active`, and a create's secret, once saved, is with the request that will answer, with the user, or
lost in a fault; a goroutine past its save has its report, and only then may it end as processed. That
a report has one card for each of its findings is an invariant of the loop that merges them.

Every invariant and every action property of the passing runs, and both refinements, are
stated by a theorem. Only model-checked is liveness: `TaskSettles`, `SessionSettles`,
`DeliveryDelivered`, `WaitEnds` and `EventSettles`. Liveness under fairness, which rests on
when a step is enabled, is out of the prover's reach.

## 5. What is not modelled

* Several sessions: the rows of one never refer to another, but for `Session`,
  which looks an issue up without its repository (`postgres.go:194`).
* The local mode that runs a task in a goroutine of the backend, and `MemoryStore`.
* The agent engine's loop and generation stages, the recommendation service's analyzers, and
  the frontend's polling: the engine is an action that succeeds or fails, the service a
  constant that gives the findings of each commit.
* `ValidatePlan`, which looks at the wording and the references of a plan.
* Several code generations of one session in `CodeChange`; a user who writes to the branch of
  the issue; several connections with webhooks on one repository.
* Expiry of reports and snapshots; cookies' attributes, scopes and the columns that only record times.
* A listing of more than 2 MB: cut JSON does not parse, so that the read fails like any failed call.
* Texts: plans, file contents, prompts, findings; encryption; HTTP details.
* A message of the stream that cannot be decoded: `Publish` adds none.
* Two backend processes: the index registry of each is separate.
* Deadlines of the worker's context are not separate from a failing engine or store call.
* Shutdown's wait for index jobs; metrics, logs and reports.

## 6. Where code and documentation disagree

* **A dead letter cannot always be re-run** (`wf_v_rerun`). `process` resets the row to
  `queued` before it publishes the retry. When that fails the job is dead-lettered with
  the row at `queued`, which `Retry` does not accept, against `docs/OPERATIONS.md:119-120`.
  No fault is needed: the entry being processed still counts towards the limit.
* **A retried correction is refused** (`wf_v_unpaired`). Feedback is stored only with a
  generated plan, so `Retry` sends the previous plan alone, which
  `agent_engine/models.py:134-135` rejects.
* **Redelivery is not idempotent** (`wf_v_redelivery`). `ExecuteTask` runs a completed task
  again, against `docs/OPERATIONS.md:260-262`.
* **A saved configuration may not be indexed** (`ix_v_config`). A forced job is dropped
  while another runs, against `repository_data.go:72-73`.

## 7. Plan

Built so far: the workflow with its queue, the index jobs, the way of an issue from its
files to its pull request, connections, webhooks with the reports they keep, and the
proofs of section 4. The map names about 36% of the implementation's lines. To
come, the most important first:

1. `AgentLoop`: budgets, reserved steps, duplicate calls and termination of the
   engine, with the repair, salvage and focused stages of generation.
2. `TaskLifecycle`: the life of a task as the frontend sees it, implemented by
   `Workflow`; polling with its limit and abort on top of it.
3. Several sessions, with the look-up of `postgres.go:194`; several connections with webhooks.
