------------------------------ MODULE Workflow ------------------------------
(***************************************************************************)
(* The issue workflow of the backend (service/workflow.go) as it runs in   *)
(* production: PostgreSQL store, Redis stream, one or more agent workers.  *)
(*                                                                         *)
(* One issue session is modelled, with all the tasks it ever gets.  Every  *)
(* HTTP request is a process (a member of Handlers) and every worker a     *)
(* process (a member of Workers); each store call and each broker call is  *)
(* one step, so two processes interleave between any two of them exactly   *)
(* as the code allows: a session read at one step is written back, from    *)
(* the copy the process kept, at a later one.                              *)
(*                                                                         *)
(* Abstractions.  A plan is a number: each plan text that an engine run or *)
(* a user edit produces is a new one.  Generated files are the plan they   *)
(* were generated from.  A task row is read and written in one step (the   *)
(* fields written do not depend on the row, but for `attempt' in           *)
(* failTask).  Publish and Ack are one step here; AgentQueue has them      *)
(* command by command.                                                     *)
(***************************************************************************)
EXTENDS Integers, Sequences, FiniteSets

CONSTANTS
    Handlers,    \* concurrent HTTP requests of the backend
    Workers,     \* agent-worker processes
    Operations,  \* the requests users make, of "analyze", "correct", "approve", "reject", "retry", "apply"
    MaxRetries,  \* WORKER_MAX_RETRIES
    QueueMax,    \* QUEUE_MAX_LENGTH, the stream length at which Publish refuses
    MaxTasks,    \* bound: tasks ever created for the session
    MaxPlans,    \* bound: plan texts ever produced
    MaxFaults    \* bound: crashes, storage errors and Redis errors

ASSUME WorkflowAssumption ==
    /\ MaxRetries \in Nat \ {0}
    /\ QueueMax \in Nat \ {0}
    /\ MaxTasks \in Nat
    /\ MaxPlans \in Nat
    /\ MaxFaults \in Nat

VARIABLES
    session,   \* the issue_sessions row with its plan, contract and feedback rows
    tasks,     \* the agent_tasks rows in creation order
    stream,    \* the Redis stream: entries not yet acknowledged
    nextID,    \* id of the next stream entry
    dead,      \* the dead-letter stream
    req,       \* req[h]: what the request handled by h is doing
    wrk,       \* wrk[w]: what worker w is doing
    plans,     \* number of plan texts produced so far
    dropped,   \* history: ways in which an obligation was dropped
    faults     \* faults so far, bounded by MaxFaults

vars == <<session, tasks, stream, nextID, dead, req, wrk, plans, dropped, faults>>

-----------------------------------------------------------------------------
(* Values *)

TaskType == {"initial_plan", "plan_revision", "code_generation"}
TaskStatus == {"queued", "processing", "completed", "failed"}
SessionStatus ==
    {"absent", "queued", "processing", "plan_generated", "approved",
     "code_generation_queued", "code_generation_processing", "code_generated",
     "correction_requested", "rejected", "failed"}

NoPlan == 0        \* plan_markdown is empty
NoContract == -1   \* GeneratedFiles is nil
NoFiles == 0       \* a contract without file operations

(* The statuses that promise the user that work is under way. *)
Transient ==
    {"queued", "processing", "approved", "code_generation_queued",
     "code_generation_processing", "correction_requested"}

QueuedStatusByType(type) ==
    IF type = "code_generation" THEN "code_generation" ELSE "queued"
QueuedStatus(type) ==
    IF type = "code_generation" THEN "code_generation_queued" ELSE "queued"

ProcessingStatus(type) ==
    IF type = "code_generation" THEN "code_generation_processing" ELSE "processing"

(* An IssueSession value in the memory of a process. *)
Snapshot == [st : SessionStatus, rev : Nat, plan : Nat, files : Nat \cup {-1}, fb : BOOLEAN]
NoSnapshot == [st |-> "absent", rev |-> 0, plan |-> NoPlan, files |-> NoContract, fb |-> FALSE]

HandlerPC ==
    {"idle", "analyze_latest", "analyze_create", "correct_write", "correct_create",
     "approve_edit", "approve_write", "approve_create", "approve_queue", "reject_write",
     "retry_read", "retry_create", "retry_write", "apply_write",
     "publish", "fail_task", "fail_read", "fail_write"}
WorkerPC ==
    {"idle", "begin", "mark_read", "mark_write", "engine", "done_task", "done_read",
     "done_write", "fail_task", "fail_read", "fail_write", "retry_task",
     "retry_read", "retry_write", "republish", "dead", "ack"}

Idle == [pc |-> "idle", s |-> NoSnapshot, task |-> 0, attempt |-> 0, plan |-> NoPlan, fb |-> FALSE]
Waiting == [pc |-> "idle", msg |-> 0, task |-> 0, attempt |-> 0, plan |-> NoPlan,
            fb |-> FALSE, out |-> NoPlan, err |-> "none", s |-> NoSnapshot]

-----------------------------------------------------------------------------
(* The store *)

(* Session: the row joined with its plan, contract and feedback. *)
Load == [st |-> session.st, rev |-> session.rev, plan |-> session.plan,
         files |-> session.files, fb |-> session.fbRows # {}]

(* UpdateSession writes status and revision, the contract when there is    *)
(* one, and plan and revision rows only with status plan_generated.        *)
WritesPlanFromSecond(s) == s.st = "plan_generated" /\ s.rev > 1 /\ s.plan # NoPlan
WritesPlan(s) == s.st = "plan_generated" /\ s.rev > 0 /\ s.plan # NoPlan

SavedFilesOnce(s) == IF session.files = NoContract THEN s.files ELSE session.files
SavedFiles(s) == IF s.files = NoContract THEN session.files ELSE s.files

Save(s) ==
    session' = [st |-> s.st, rev |-> s.rev,
                plan |-> IF WritesPlan(s) THEN s.plan ELSE session.plan,
                files |-> SavedFiles(s),
                fbRows |-> IF ~WritesPlan(s) THEN session.fbRows
                           ELSE IF s.fb THEN session.fbRows \cup {s.rev}
                           ELSE session.fbRows \ {s.rev}]

CreateTask(type, attempt) ==
    tasks' = Append(tasks, [type |-> type, st |-> "queued", attempt |-> attempt, err |-> "none"])

(* Requests that may still create a task, so that MaxTasks never blocks    *)
(* one in the middle.                                                      *)
Creating ==
    {h \in Handlers : req[h].pc \in {"analyze_latest", "analyze_create", "correct_write",
        "correct_create", "approve_edit", "approve_write", "approve_create",
        "retry_read", "retry_create"}}
TaskRoom == Len(tasks) + Cardinality(Creating) < MaxTasks

-----------------------------------------------------------------------------
(* Requests: step and return *)

Become(h, state) == req' = [req EXCEPT ![h] = state]
Goto(h, pc, s) == Become(h, [req[h] EXCEPT !.pc = pc, !.s = s])
Return(h) == Become(h, Idle)

(* dispatch of a task: the job is built, what is left is Publish. *)
Dispatch(h, task, attempt, plan, fb) ==
    Become(h, [Idle EXCEPT !.pc = "publish", !.task = task, !.attempt = attempt, !.plan = plan, !.fb = fb])
At(h, pc) == req[h].pc = pc

(* The queue: XLEN counts every entry not deleted, delivered or not. *)
QueueRoom == Cardinality(stream) < QueueMax

Add(task, attempt, plan, fb) ==
    /\ stream' = stream \cup {[id |-> nextID, st |-> "new", task |-> task,
                               attempt |-> attempt, plan |-> plan, fb |-> fb]}
    /\ nextID' = nextID + 1

Fault == faults < MaxFaults /\ faults' = faults + 1

OnlyReq == UNCHANGED <<session, tasks, stream, nextID, dead, wrk, plans, dropped, faults>>
OnlySession == UNCHANGED <<tasks, stream, nextID, dead, wrk, plans, dropped, faults>>
OnlyTasks == UNCHANGED <<session, stream, nextID, dead, wrk, plans, dropped, faults>>

(* Analyze: CreateSession inserts the row or returns the existing one. *)
Analyze(h) ==
    /\ At(h, "idle")
    /\ tasks # <<>> \/ TaskRoom
    /\ IF session.st = "absent"
       THEN LET s == [NoSnapshot EXCEPT !.st = "queued"] IN
            /\ session' = [st |-> "queued", rev |-> 0, plan |-> NoPlan, files |-> NoContract, fbRows |-> {}]
            /\ Goto(h, "analyze_create", s)
       ELSE UNCHANGED session /\ Goto(h, "analyze_latest", Load)
    /\ OnlySession

(* Analyze on an existing session: hand back the latest task, or recover a *)
(* session that a failed request left without one.                         *)
AnalyzeLatest(h) ==
    /\ At(h, "analyze_latest")
    /\ IF tasks = <<>> /\ req[h].s.st = "queued"
       THEN Goto(h, "analyze_create", req[h].s)
       ELSE Return(h)
    /\ OnlyReq

AnalyzeCreate(h) ==
    /\ At(h, "analyze_create")
    /\ CreateTask("initial_plan", 1)
    /\ Dispatch(h, Len(tasks) + 1, 1, NoPlan, FALSE)
    /\ OnlyTasks

(* Correct *)
Correct(h) ==
    /\ At(h, "idle") /\ TaskRoom
    /\ session.st = "plan_generated"
    /\ Goto(h, "correct_write", Load)
    /\ OnlyReq

CorrectWrite(h) ==
    /\ At(h, "correct_write")
    /\ LET s == [req[h].s EXCEPT !.st = "correction_requested", !.fb = TRUE] IN
       Save(s) /\ Goto(h, "correct_create", s)
    /\ OnlySession

CorrectCreate(h) ==
    /\ At(h, "correct_create")
    /\ CreateTask("plan_revision", 1)
    /\ Dispatch(h, Len(tasks) + 1, 1, req[h].s.plan, TRUE)
    /\ OnlyTasks

(* Approve, with the plan as it is or with a plan the user edited *)
Approve(h) ==
    /\ At(h, "idle") /\ TaskRoom
    /\ session.st = "plan_generated"
    /\ \/ Goto(h, "approve_write", Load) /\ UNCHANGED plans
       \/ /\ plans < MaxPlans
          /\ plans' = plans + 1
          /\ Goto(h, "approve_edit", [Load EXCEPT !.plan = plans + 1, !.rev = @ + 1])
    /\ UNCHANGED <<session, tasks, stream, nextID, dead, wrk, dropped, faults>>

ApproveEdit(h) ==
    /\ At(h, "approve_edit")
    /\ Save(req[h].s)
    /\ Goto(h, "approve_write", req[h].s)
    /\ OnlySession

ApproveWrite(h) ==
    /\ At(h, "approve_write")
    /\ LET s == [req[h].s EXCEPT !.st = "approved", !.files = NoFiles] IN
       Save(s) /\ Goto(h, "approve_create", s)
    /\ OnlySession

ApproveCreate(h) ==
    /\ At(h, "approve_create")
    /\ CreateTask("code_generation", 1)
    /\ Become(h, [req[h] EXCEPT !.pc = "approve_queue", !.task = Len(tasks) + 1])
    /\ OnlyTasks

ApproveQueue(h) ==
    /\ At(h, "approve_queue")
    /\ Save([req[h].s EXCEPT !.st = "code_generation_queued"])
    /\ Dispatch(h, req[h].task, 1, req[h].s.plan, FALSE)
    /\ OnlySession

(* Reject *)
Reject(h) ==
    /\ At(h, "idle")
    /\ session.st \notin {"absent", "approved", "code_generation_queued",
                          "code_generation_processing", "code_generated"}
    /\ Goto(h, "reject_write", Load)
    /\ OnlyReq

RejectWrite(h) ==
    /\ At(h, "reject_write")
    /\ Save([req[h].s EXCEPT !.st = "rejected"])
    /\ Return(h)
    /\ OnlySession

(* Retry of a failed task whose error is recoverable *)
Retry(h) ==
    /\ At(h, "idle") /\ TaskRoom
    /\ \E t \in DOMAIN tasks :
          /\ tasks[t].st = "failed" /\ tasks[t].err = "temporary"
          /\ Become(h, [Idle EXCEPT !.pc = "retry_read", !.task = t, !.attempt = tasks[t].attempt + 1])
    /\ OnlyReq

RetryRead(h) ==
    /\ At(h, "retry_read")
    /\ Goto(h, "retry_create", Load)
    /\ OnlyReq

(* CreateTask, then UpdateTask with the next attempt: the new row only,    *)
(* which no other process knows yet.                                       *)
RetryCreate(h) ==
    /\ At(h, "retry_create")
    /\ CreateTask(tasks[req[h].task].type, req[h].attempt)
    /\ Become(h, [req[h] EXCEPT !.pc = "retry_write", !.task = Len(tasks) + 1])
    /\ OnlyTasks

RetryWrite(h) ==
    /\ At(h, "retry_write")
    /\ LET type == tasks[req[h].task].type
           s == req[h].s IN
       /\ Save([s EXCEPT !.st = QueuedStatus(type)])
       /\ Dispatch(h, req[h].task, req[h].attempt, IF type = "initial_plan" THEN NoPlan ELSE s.plan,
                   type = "plan_revision" /\ s.fb)
    /\ OnlySession

(* applyGeneratedFiles: a long GitFlame call lies between read and write. *)
Apply(h) ==
    /\ At(h, "idle")
    /\ session.files > NoFiles
    /\ Goto(h, "apply_write", Load)
    /\ OnlyReq

ApplyWrite(h) ==
    /\ At(h, "apply_write")
    /\ Save(req[h].s)
    /\ dropped' = IF req[h].s.st \in Transient THEN dropped \cup {"apply"} ELSE dropped
    /\ Return(h)
    /\ UNCHANGED <<tasks, stream, nextID, dead, wrk, plans, faults>>

-----------------------------------------------------------------------------
(* dispatch and failTask *)

(* A slip to catch: the broker's error is dropped. *)
PublishUnchecked(h) ==
    /\ At(h, "publish")
    /\ \/ /\ QueueRoom
          /\ Add(req[h].task, req[h].attempt, req[h].plan, req[h].fb)
          /\ UNCHANGED faults
       \/ ~QueueRoom /\ UNCHANGED <<stream, nextID, faults>>
       \/ Fault /\ UNCHANGED <<stream, nextID>>
    /\ Return(h)
    /\ UNCHANGED <<session, tasks, dead, wrk, plans, dropped>>

Publish(h) ==
    /\ At(h, "publish")
    /\ \/ /\ QueueRoom
          /\ Add(req[h].task, req[h].attempt, req[h].plan, req[h].fb)
          /\ Return(h)
          /\ UNCHANGED faults
       \/ /\ ~QueueRoom
          /\ Become(h, [req[h] EXCEPT !.pc = "fail_task"])
          /\ UNCHANGED <<stream, nextID, faults>>
       \/ /\ Fault                  \* Redis error before the entry is added
          /\ Become(h, [req[h] EXCEPT !.pc = "fail_task"])
          /\ UNCHANGED <<stream, nextID>>
       \/ /\ QueueRoom /\ Fault     \* the entry is added, the reply is lost
          /\ Add(req[h].task, req[h].attempt, req[h].plan, req[h].fb)
          /\ Become(h, [req[h] EXCEPT !.pc = "fail_task"])
    /\ UNCHANGED <<session, tasks, dead, wrk, plans, dropped>>

(* toTaskError makes any dispatch error a recoverable agent_engine_error. *)
FailTask(h) ==
    /\ At(h, "fail_task")
    /\ tasks' = [tasks EXCEPT ![req[h].task] = [@ EXCEPT !.st = "failed", !.err = "temporary"]]
    /\ Become(h, [req[h] EXCEPT !.pc = "fail_read"])
    /\ OnlyTasks

FailRead(h) ==
    /\ At(h, "fail_read")
    /\ Goto(h, "fail_write", Load)
    /\ OnlyReq

FailWrite(h) ==
    /\ At(h, "fail_write")
    /\ Save([req[h].s EXCEPT !.st = "failed"])
    /\ Return(h)
    /\ OnlySession

(* The backend crashes in the middle of a request, or a store call fails   *)
(* and the request returns its error.                                      *)
Abort(h) ==
    /\ ~At(h, "idle")
    /\ Fault
    /\ Return(h)
    /\ dropped' = dropped \cup {"request"}
    /\ UNCHANGED <<session, tasks, stream, nextID, dead, wrk, plans>>

-----------------------------------------------------------------------------
(* The worker: ExecuteTask and process *)

WAt(w, pc) == wrk[w].pc = pc
WBecome(w, state) == wrk' = [wrk EXCEPT ![w] = state]
WGoto(w, pc) == WBecome(w, [wrk[w] EXCEPT !.pc = pc])
Drop(w) == WBecome(w, Waiting)
OnlyWrk == UNCHANGED <<session, tasks, stream, nextID, dead, req, plans, dropped, faults>>
WTask(w) == tasks[wrk[w].task]

(* The worker is done with its job: all it still needs is the entry's id. *)
Settled(state) == [Waiting EXCEPT !.pc = "ack", !.msg = state.msg]
WSettle(w) == WBecome(w, Settled(wrk[w]))

(* A session read by worker w, to be written at pc. *)
WLoad(w, pc) == WBecome(w, [wrk[w] EXCEPT !.pc = pc, !.s = Load])

(* A session write by worker w, which goes on at pc. *)
WSave(w, s, pc) ==
    /\ Save(s)
    /\ WBecome(w, IF pc = "ack" THEN Settled(wrk[w]) ELSE [wrk[w] EXCEPT !.pc = pc, !.s = NoSnapshot])
    /\ UNCHANGED <<tasks, stream, nextID, dead, req, plans, dropped, faults>>

(* Worker w was given entry m and is not done with it. *)
Holds(w, m) == ~WAt(w, "idle") /\ wrk[w].msg = m.id

Deliver(w, m) ==
    /\ stream' = (stream \ {m}) \cup {[m EXCEPT !.st = "pending"]}
    /\ WBecome(w, [Waiting EXCEPT !.pc = "begin", !.msg = m.id, !.task = m.task,
                                  !.attempt = m.attempt, !.plan = m.plan, !.fb = m.fb])
    /\ UNCHANGED <<session, tasks, nextID, dead, req, plans, faults>>

(* A slip to catch: entries of a worker that is gone are never claimed. *)
ClaimOwn(w) ==
    /\ WAt(w, "idle")
    /\ \E m \in stream : Holds(w, m) /\ Deliver(w, m)
    /\ UNCHANGED dropped

(* Read, first half: XAUTOCLAIM takes an entry pending for longer than a   *)
(* minute. The worker that got it first may still be at work on it.        *)
Claim(w) ==
    /\ WAt(w, "idle")
    /\ \E m \in stream :
          /\ m.st = "pending"
          /\ Deliver(w, m)
          /\ dropped' = IF \E v \in Workers : Holds(v, m) THEN dropped \cup {"claim"} ELSE dropped

(* Read, second half: XREADGROUP delivers the oldest new entry. *)
Read(w) ==
    /\ WAt(w, "idle")
    /\ \E m \in stream :
          /\ m.st = "new"
          /\ \A n \in stream : n.st = "new" => m.id <= n.id
          /\ Deliver(w, m)
    /\ UNCHANGED dropped

Begin(w) ==
    /\ WAt(w, "begin")
    /\ tasks' = [tasks EXCEPT ![wrk[w].task] =
                    [@ EXCEPT !.st = "processing", !.attempt = wrk[w].attempt, !.err = "none"]]
    /\ WGoto(w, "mark_read")
    /\ UNCHANGED <<session, stream, nextID, dead, req, plans, dropped, faults>>

MarkRead(w) == WAt(w, "mark_read") /\ WLoad(w, "mark_write") /\ OnlyWrk

MarkWrite(w) ==
    /\ WAt(w, "mark_write")
    /\ WSave(w, [wrk[w].s EXCEPT !.st = ProcessingStatus(WTask(w).type)], "engine")

(* The engine accepts previous plan and feedback only together. *)
Acceptable(w) == WTask(w).type = "plan_revision" => (wrk[w].plan # NoPlan <=> wrk[w].fb)

(* GeneratePlan or GenerateFiles returns a result that passes validation. *)
EngineOK(w) ==
    /\ WAt(w, "engine")
    /\ Acceptable(w)
    /\ IF WTask(w).type = "code_generation"
       THEN UNCHANGED plans /\ WBecome(w, [wrk[w] EXCEPT !.pc = "done_task", !.out = wrk[w].plan])
       ELSE /\ plans < MaxPlans
            /\ plans' = plans + 1
            /\ WBecome(w, [wrk[w] EXCEPT !.pc = "done_task", !.out = plans + 1])
    /\ UNCHANGED <<session, tasks, stream, nextID, dead, req, dropped, faults>>

(* The engine fails: unreachable, unavailable or timed out (temporary), or *)
(* a refused request or an invalid result (permanent).  A request it would *)
(* not accept may not reach it either.                                     *)
EngineError(w) ==
    /\ WAt(w, "engine")
    /\ \E e \in {"temporary", "permanent"} :
          WBecome(w, [wrk[w] EXCEPT !.pc = "fail_task", !.err = e])
    /\ OnlyWrk

DoneTask(w) ==
    /\ WAt(w, "done_task")
    /\ tasks' = [tasks EXCEPT ![wrk[w].task] =
                    [@ EXCEPT !.st = "completed", !.attempt = wrk[w].attempt, !.err = "none"]]
    /\ WGoto(w, "done_read")
    /\ UNCHANGED <<session, stream, nextID, dead, req, plans, dropped, faults>>

DoneRead(w) == WAt(w, "done_read") /\ WLoad(w, "done_write") /\ OnlyWrk

(* A slip to catch: the result is stored, the status forgotten. *)
DoneWriteResult(w) ==
    /\ WAt(w, "done_write")
    /\ WSave(w, [wrk[w].s EXCEPT !.plan = wrk[w].out, !.rev = @ + 1], "ack")

DoneWrite(w) ==
    /\ WAt(w, "done_write")
    /\ WSave(w, IF WTask(w).type = "code_generation"
                THEN [wrk[w].s EXCEPT !.st = "code_generated", !.files = wrk[w].out]
                ELSE [wrk[w].s EXCEPT !.st = "plan_generated", !.plan = wrk[w].out, !.rev = @ + 1],
             "ack")

WFailTask(w) ==
    /\ WAt(w, "fail_task")
    /\ tasks' = [tasks EXCEPT ![wrk[w].task] = [@ EXCEPT !.st = "failed", !.err = wrk[w].err]]
    /\ WGoto(w, "fail_read")
    /\ UNCHANGED <<session, stream, nextID, dead, req, plans, dropped, faults>>

WFailRead(w) == WAt(w, "fail_read") /\ WLoad(w, "fail_write") /\ OnlyWrk

(* process, after a failed ExecuteTask: retry a temporary failure while    *)
(* attempts are left.                                                      *)
Decided(state) ==
    IF state.err = "temporary" /\ state.attempt < MaxRetries
    THEN [state EXCEPT !.pc = "retry_task", !.attempt = @ + 1, !.s = NoSnapshot]
    ELSE [state EXCEPT !.pc = "dead", !.s = NoSnapshot]

WFailWrite(w) ==
    /\ WAt(w, "fail_write")
    /\ Save([wrk[w].s EXCEPT !.st = "failed"])
    /\ WBecome(w, Decided(wrk[w]))
    /\ UNCHANGED <<tasks, stream, nextID, dead, req, plans, dropped, faults>>

(* A slip to catch: the attempt is not written. *)
RetryTaskStatus(w) ==
    /\ WAt(w, "retry_task")
    /\ tasks' = [tasks EXCEPT ![wrk[w].task] = [@ EXCEPT !.st = "queued"]]
    /\ WGoto(w, "retry_read")
    /\ UNCHANGED <<session, stream, nextID, dead, req, plans, dropped, faults>>

(* RetryTask: the error of the row stays *)
RetryTask(w) ==
    /\ WAt(w, "retry_task")
    /\ tasks' = [tasks EXCEPT ![wrk[w].task] = [@ EXCEPT !.st = "queued", !.attempt = wrk[w].attempt]]
    /\ WGoto(w, "retry_read")
    /\ UNCHANGED <<session, stream, nextID, dead, req, plans, dropped, faults>>

RetryTaskRead(w) == WAt(w, "retry_read") /\ WLoad(w, "retry_write") /\ OnlyWrk

RetryTaskWrite(w) ==
    /\ WAt(w, "retry_write")
    /\ WSave(w, [wrk[w].s EXCEPT !.st = QueuedStatus(WTask(w).type)], "republish")

(* A slip to catch: a retry that cannot be published is acknowledged. *)
RepublishOrForget(w) ==
    /\ WAt(w, "republish")
    /\ \/ QueueRoom /\ Add(wrk[w].task, wrk[w].attempt, wrk[w].plan, wrk[w].fb)
       \/ ~QueueRoom /\ UNCHANGED <<stream, nextID>>
    /\ WSettle(w)
    /\ UNCHANGED <<session, tasks, dead, req, plans, dropped, faults>>

(* Publish of the next attempt. The entry being processed still counts in  *)
(* XLEN. When Publish fails the job is dead-lettered.                      *)
Republish(w) ==
    /\ WAt(w, "republish")
    /\ \/ /\ QueueRoom
          /\ Add(wrk[w].task, wrk[w].attempt, wrk[w].plan, wrk[w].fb)
          /\ WSettle(w)
          /\ UNCHANGED faults
       \/ /\ ~QueueRoom
          /\ WGoto(w, "dead")
          /\ UNCHANGED <<stream, nextID, faults>>
       \/ /\ Fault
          /\ WGoto(w, "dead")
          /\ UNCHANGED <<stream, nextID>>
       \/ /\ QueueRoom /\ Fault
          /\ Add(wrk[w].task, wrk[w].attempt, wrk[w].plan, wrk[w].fb)
          /\ WGoto(w, "dead")
    /\ UNCHANGED <<session, tasks, dead, req, plans, dropped>>

DeadLetter(w) ==
    /\ WAt(w, "dead")
    /\ dead' = dead \cup {[task |-> wrk[w].task, attempt |-> wrk[w].attempt]}
    /\ WSettle(w)
    /\ UNCHANGED <<session, tasks, stream, nextID, req, plans, dropped, faults>>

(* A slip to catch: the entry is never acknowledged. *)
AckNothing(w) ==
    /\ WAt(w, "ack")
    /\ Drop(w)
    /\ OnlyWrk

(* The entry is acknowledged by its id, whoever holds it by now. *)
Ack(w) ==
    /\ WAt(w, "ack")
    /\ stream' = {m \in stream : m.id # wrk[w].msg}
    /\ Drop(w)
    /\ UNCHANGED <<session, tasks, nextID, dead, req, plans, dropped, faults>>

(* A storage or Redis error in the worker. The errors of failTask are      *)
(* ignored; an error of ExecuteTask or RetryTask dead-letters the job; an  *)
(* error of DeadLetter or Ack leaves the entry pending.                    *)
WError(w) ==
    /\ Fault
    /\ \/ /\ wrk[w].pc \in {"begin", "mark_read", "mark_write", "done_task", "done_read",
                            "done_write", "retry_task", "retry_read", "retry_write"}
          /\ WBecome(w, [wrk[w] EXCEPT !.pc = "dead", !.s = NoSnapshot])
       \/ /\ wrk[w].pc \in {"fail_task", "fail_read", "fail_write"}
          /\ WBecome(w, Decided(wrk[w]))
       \/ /\ wrk[w].pc \in {"dead", "ack"}
          /\ Drop(w)
    /\ UNCHANGED <<session, tasks, stream, nextID, dead, req, plans, dropped>>

(* The worker is killed; a replacement starts with nothing in memory. *)
WCrash(w) ==
    /\ ~WAt(w, "idle")
    /\ Fault
    /\ Drop(w)
    /\ UNCHANGED <<session, tasks, stream, nextID, dead, req, plans, dropped>>

-----------------------------------------------------------------------------
(* The specification *)

Init ==
    /\ session = [st |-> "absent", rev |-> 0, plan |-> NoPlan, files |-> NoContract, fbRows |-> {}]
    /\ tasks = <<>>
    /\ stream = {} /\ nextID = 1 /\ dead = {}
    /\ req = [h \in Handlers |-> Idle]
    /\ wrk = [w \in Workers |-> Waiting]
    /\ plans = 0 /\ dropped = {} /\ faults = 0

(* What users do. *)
Request(h) ==
    \/ "analyze" \in Operations /\ Analyze(h)
    \/ "correct" \in Operations /\ Correct(h)
    \/ "approve" \in Operations /\ Approve(h)
    \/ "reject" \in Operations /\ Reject(h)
    \/ "retry" \in Operations /\ Retry(h)
    \/ "apply" \in Operations /\ Apply(h)

(* The next step of a request under way. *)
HandlerStep(h) ==
    \/ AnalyzeLatest(h) \/ AnalyzeCreate(h)
    \/ CorrectWrite(h) \/ CorrectCreate(h)
    \/ ApproveEdit(h) \/ ApproveWrite(h) \/ ApproveCreate(h) \/ ApproveQueue(h)
    \/ RejectWrite(h)
    \/ RetryRead(h) \/ RetryCreate(h) \/ RetryWrite(h)
    \/ ApplyWrite(h)
    \/ Publish(h) \/ FailTask(h) \/ FailRead(h) \/ FailWrite(h)

(* The next step of a worker, taken from the stream or under way. *)
WorkerStep(w) ==
    \/ Read(w) \/ Claim(w)
    \/ Begin(w) \/ MarkRead(w) \/ MarkWrite(w)
    \/ EngineOK(w) \/ EngineError(w)
    \/ DoneTask(w) \/ DoneRead(w) \/ DoneWrite(w)
    \/ WFailTask(w) \/ WFailRead(w) \/ WFailWrite(w)
    \/ RetryTask(w) \/ RetryTaskRead(w) \/ RetryTaskWrite(w)
    \/ Republish(w) \/ DeadLetter(w) \/ Ack(w)

Next ==
    \/ \E h \in Handlers : Request(h) \/ HandlerStep(h) \/ Abort(h)
    \/ \E w \in Workers : WorkerStep(w) \/ WError(w) \/ WCrash(w)

Spec == Init /\ [][Next]_vars

(* Goroutines and workers are scheduled fairly; users and faults are not.  *)
FairSpec ==
    /\ Spec
    /\ \A h \in Handlers : WF_vars(HandlerStep(h))
    /\ \A w \in Workers : WF_vars(WorkerStep(w))

-----------------------------------------------------------------------------
(* Properties *)

Entry == [id : Nat, st : {"new", "pending"}, task : Nat, attempt : Nat, plan : Nat, fb : BOOLEAN]
SessionRow == [st : SessionStatus, rev : Nat, plan : Nat, files : Nat \cup {-1}, fbRows : SUBSET Nat]
TaskRow == [type : TaskType, st : TaskStatus, attempt : Nat, err : {"none", "temporary", "permanent"}]
HandlerState == [pc : HandlerPC, s : Snapshot, task : Nat, attempt : Nat, plan : Nat, fb : BOOLEAN]
WorkerState ==
    [pc : WorkerPC, msg : Nat, task : Nat, attempt : Nat, plan : Nat, fb : BOOLEAN, out : Nat,
     err : {"none", "temporary", "permanent"}, s : Snapshot]

(* Every variable keeps its type: the rows, the copies that requests and   *)
(* workers hold, and the entries of the stream (domain.go:5-25).           *)
TypeOK ==
    /\ session \in SessionRow /\ tasks \in Seq(TaskRow)
    /\ stream \in SUBSET Entry /\ nextID \in Nat
    /\ dead \in SUBSET [task : Nat, attempt : Nat]
    /\ req \in [Handlers -> HandlerState] /\ wrk \in [Workers -> WorkerState]
    /\ plans \in Nat /\ faults \in Nat
    /\ dropped \in SUBSET {"request", "apply", "claim"}

(* A request between promising work and handing it over (or failing it).   *)
Owing(h) ==
    req[h].pc \in {"analyze_create", "correct_create", "approve_create", "approve_queue",
                   "publish", "fail_task", "fail_read", "fail_write"}
(* A worker that has not yet written what became of its job. *)
Busy(w) == wrk[w].pc \notin {"idle", "ack"}
(* An entry that will be executed (again). *)
Unsettled(m) == \A w \in Workers : ~(WAt(w, "ack") /\ wrk[w].msg = m.id)

(* A session that tells its user that work is under way is right: some     *)
(* request still owes the hand-over (dispatch, workflow.go:137-150), an    *)
(* entry of the stream will be executed, or a worker is at it (process,    *)
(* main.go:108-152). The exceptions are visible: the job is in the         *)
(* dead-letter stream, a request was aborted, apply wrote back a copy it   *)
(* had read earlier (server.go:367-433), or a running entry was claimed.   *)
NoStuckSession ==
    session.st \in Transient /\ dead = {} /\ dropped = {} =>
        \/ \E h \in Handlers : Owing(h)
        \/ \E w \in Workers : Busy(w)
        \/ \E m \in stream : Unsettled(m)

(* The tasks whose row says queued or processing. *)
UnderWay == {t \in DOMAIN tasks : tasks[t].st \in {"queued", "processing"}}

(* A task row that says queued or processing is backed by a request that   *)
(* will still publish it, by an entry of the stream, by a worker, or by a  *)
(* dead letter that names it: nothing the user waits for vanishes between  *)
(* RetryTask, Publish and Ack (main.go:128-148, workflow.go:300-316).      *)
NoLostTask ==
    dropped = {} =>
        \A t \in UnderWay :
            \/ \E h \in Handlers : req[h].task = t /\ req[h].pc # "idle"
            \/ \E w \in Workers : Busy(w) /\ wrk[w].task = t
            \/ \E m \in stream : m.task = t /\ Unsettled(m)
            \/ \E d \in dead : d.task = t

(* Whoever reads plan_generated can read a plan, as Correct and Approve    *)
(* (workflow.go:65-91, 339-383) and the plan handler (server.go:304-315)   *)
(* rely on, however stale the copies are that UpdateSession writes back    *)
(* (postgres.go:265-348).                                                  *)
PlanReady == session.st = "plan_generated" => session.plan # NoPlan /\ session.rev > 0

(* Whoever reads code_generated can apply files (applyGeneratedFiles,      *)
(* server.go:367-376): no request that read the session before the worker  *)
(* stored them brings the status back with an emptied contract.            *)
CodeReady == session.st = "code_generated" => session.files > NoFiles

(* Without faults the row of a task and the stream agree: a new entry has  *)
(* a queued row of the same attempt, and no task is queued twice (Retry    *)
(* and RetryTask write the row before they publish, workflow.go:107-131,   *)
(* 300-316).                                                               *)
RowsMatchStream ==
    faults = 0 /\ dropped = {} =>
        \A m \in stream : m.st = "new" =>
            /\ tasks[m.task].st = "queued" /\ tasks[m.task].attempt = m.attempt
            /\ \A n \in stream : n.task = m.task /\ n.st = "new" => n = m

(* A task once completed stays completed while nothing fails and no entry  *)
(* is claimed from a worker at work on it, whatever users do at the same   *)
(* time: no second entry executes it again and no late failTask overwrites *)
(* its row (workflow.go:167-173, 318-334).                                 *)
CompletedIsFinal ==
    [][faults' = 0 /\ "claim" \notin dropped' =>
        \A t \in DOMAIN tasks : tasks[t].st = "completed" => tasks'[t].st = "completed"]_vars

(* The operation is idempotent (docs/OPERATIONS.md:257-262): what was      *)
(* completed is not executed again when its entry is delivered again.      *)
(* ExecuteTask (workflow.go:167-187) does not look at the row's status.    *)
RedeliveryIsIdempotent ==
    [][\A t \in DOMAIN tasks : tasks[t].st = "completed" => tasks'[t].st # "processing"]_vars

(* The user can re-run what was dead-lettered (OPERATIONS.md:119-120):      *)
(* once its job is settled, the task shows as failed, the only status that *)
(* Retry accepts (workflow.go:98-100).                                     *)
DeadLetterCanBeRerun ==
    \A d \in dead :
        \/ tasks[d.task].st = "failed"
        \/ \E w \in Workers : Busy(w) /\ wrk[w].task = d.task
        \/ \E m \in stream : m.task = d.task

(* A revision job carries the previous plan and the feedback, or neither,  *)
(* as the engine demands (agent_engine/models.py:132-136) and Retry builds *)
(* it (workflow.go:116-124).                                               *)
RevisionIsPaired ==
    \A m \in stream : tasks[m.task].type = "plan_revision" => (m.plan # NoPlan <=> m.fb)

(* Every task ends: what is queued or processing is completed or failed in *)
(* the end, or visibly given up, with crashes, a full queue and retries    *)
(* in between (ExecuteTask, workflow.go:155-298, and process,              *)
(* main.go:108-152).                                                       *)
TaskSettles ==
    \A t \in 1..MaxTasks :
        t \in UnderWay ~> (t \notin UnderWay \/ dead # {} \/ dropped # {})

(* A session never shows work under way for ever: the status the frontend  *)
(* polls (server.go:267-315) leaves the transient ones, or the job is a    *)
(* dead letter, or a request or worker visibly dropped it.                 *)
SessionSettles ==
    session.st \in Transient ~> (session.st \notin Transient \/ dead # {} \/ dropped # {})

=============================================================================
