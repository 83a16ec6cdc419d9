-------------------------- MODULE Workflow_proofs --------------------------
(***************************************************************************)
(* What the issue workflow keeps right for any number of requests, workers *)
(* and tasks: types, and that nobody sees a finished status without the    *)
(* result it announces.                                                    *)
(***************************************************************************)
EXTENDS Workflow, SequenceTheorems, TLAPS

USE WorkflowAssumption

(* A row, or a copy of it, that announces a result has it.                 *)
HasResult(s) ==
    /\ s.st = "plan_generated" => s.plan # NoPlan /\ s.rev > 0
    /\ s.st = "code_generated" => s.files > NoFiles

IsCode(T, t) == T[t].type = "code_generation"

(* The rows: code is only generated for a session that has a plan.         *)
StoreFits(row, T) ==
    /\ row \in SessionRow /\ T \in Seq(TaskRow) /\ HasResult(row)
    /\ row.st = "absent" => row.plan = NoPlan /\ row.files = NoContract
    /\ \A t \in DOMAIN T : IsCode(T, t) => row.plan # NoPlan

WithTask ==
    {"approve_queue", "retry_read", "retry_create", "retry_write", "publish", "fail_task", "fail_read",
     "fail_write"}
Approving == {"approve_edit", "approve_write", "approve_create", "approve_queue"}

(* A request in state r, with task rows T and p the plan of the session.   *)
RequestFits(r, T, p) ==
    /\ r \in HandlerState /\ HasResult(r.s)
    /\ r.pc \in WithTask => r.task \in DOMAIN T
    /\ r.pc = "publish" => (IsCode(T, r.task) => r.plan # NoPlan)
    /\ r.pc \in {"retry_create", "retry_write"} => (IsCode(T, r.task) => r.s.plan # NoPlan)
    /\ r.pc \in Approving => r.s.plan # NoPlan /\ p # NoPlan
    /\ r.pc \in {"approve_edit", "apply_write"} => r.s.st # "absent"

(* A worker in state r: its job was built from a plan that exists, and so  *)
(* was what it has produced.                                               *)
WorkerFits(r, T) ==
    /\ r \in WorkerState /\ HasResult(r.s)
    /\ r.pc \notin {"idle", "ack"} => r.task \in DOMAIN T /\ (IsCode(T, r.task) => r.plan # NoPlan)
    /\ r.pc \in {"done_task", "done_read", "done_write"} => r.out # NoPlan

EntryFits(m, T) == m \in Entry /\ m.task \in DOMAIN T /\ (IsCode(T, m.task) => m.plan # NoPlan)

Counters ==
    /\ nextID \in Nat /\ plans \in Nat /\ faults \in Nat
    /\ dead \in SUBSET [task : Nat, attempt : Nat]
    /\ dropped \in SUBSET {"request", "apply", "claim"}

Inv ==
    /\ StoreFits(session, tasks)
    /\ Counters
    /\ req \in [Handlers -> HandlerState] /\ wrk \in [Workers -> WorkerState]
    /\ \A m \in stream : EntryFits(m, tasks)
    /\ \A h \in Handlers : RequestFits(req[h], tasks, session.plan)
    /\ \A w \in Workers : WorkerFits(wrk[w], tasks)

(* Rows are added, never removed or given another type, and a plan is only *)
(* replaced by a plan.                                                     *)
Grows ==
    /\ StoreFits(session', tasks')
    /\ \A t \in DOMAIN tasks : t \in DOMAIN tasks' /\ tasks'[t].type = tasks[t].type
    /\ session.plan # NoPlan => session'.plan # NoPlan

-----------------------------------------------------------------------------
(* Lemmas about one step *)

LEMMA RequestStays ==
  ASSUME Grows, NEW r, RequestFits(r, tasks, session.plan)
  PROVE  RequestFits(r, tasks', session'.plan)
  BY DEF RequestFits, Grows, IsCode, WithTask

LEMMA WorkerStays ==
  ASSUME Grows, NEW r, WorkerFits(r, tasks)
  PROVE  WorkerFits(r, tasks')
  BY DEF WorkerFits, Grows, IsCode

LEMMA EntryStays ==
  ASSUME Grows, NEW m, EntryFits(m, tasks)
  PROVE  EntryFits(m, tasks')
  BY DEF EntryFits, Grows, IsCode

LEMMA GrowsSame == ASSUME Inv, UNCHANGED <<session, tasks>> PROVE Grows
  BY DEF Inv, Grows

(* UpdateSession, of a copy that has what it announces.                    *)
LEMMA GrowsSave ==
  ASSUME Inv, NEW s \in Snapshot, HasResult(s), s.st # "absent", Save(s), UNCHANGED tasks
  PROVE  Grows
<1> DEFINE row == [st |-> s.st, rev |-> s.rev,
                   plan |-> IF WritesPlan(s) THEN s.plan ELSE session.plan,
                   files |-> SavedFiles(s),
                   fbRows |-> IF ~WritesPlan(s) THEN session.fbRows
                              ELSE IF s.fb THEN session.fbRows \cup {s.rev}
                              ELSE session.fbRows \ {s.rev}]
<1>1. /\ s.st \in SessionStatus /\ s.rev \in Nat /\ s.plan \in Nat /\ s.files \in Nat \cup {-1}
      /\ session.plan \in Nat /\ session.files \in Nat \cup {-1} /\ session.fbRows \in SUBSET Nat
  BY DEF Inv, StoreFits, SessionRow, Snapshot
<1>2. session' = row
  BY DEF Save
<1>3. /\ SavedFiles(s) \in Nat \cup {-1}
      /\ s.files > NoFiles => SavedFiles(s) > NoFiles
  BY <1>1 DEF SavedFiles, NoFiles, NoContract
<1>4. row.fbRows \in SUBSET Nat
  BY <1>1
<1>5. /\ row.st = s.st /\ row.rev = s.rev /\ row.files = SavedFiles(s)
      /\ row.plan = IF WritesPlan(s) THEN s.plan ELSE session.plan
  OBVIOUS
<1>6. row \in SessionRow
  BY <1>1, <1>3, <1>4 DEF SessionRow
<1> HIDE DEF row
<1>7. HasResult(row)
  BY <1>1, <1>3, <1>5 DEF HasResult, WritesPlan
<1>8. session.plan # NoPlan => row.plan # NoPlan
  BY <1>5 DEF WritesPlan
<1> QED  BY <1>2, <1>5, <1>6, <1>7, <1>8 DEF Inv, StoreFits, Grows

(* CreateTask, of a type that the session allows.                          *)
LEMMA GrowsCreate ==
  ASSUME Inv, NEW type \in TaskType, NEW attempt \in Nat, CreateTask(type, attempt), UNCHANGED session,
         type = "code_generation" => session.plan # NoPlan
  PROVE  /\ Grows
         /\ Len(tasks) + 1 \in DOMAIN tasks'
         /\ tasks'[Len(tasks) + 1].type = type
<1> DEFINE row == [type |-> type, st |-> "queued", attempt |-> attempt, err |-> "none"]
<1>1. row \in TaskRow /\ row.type = type
  BY DEF TaskRow, TaskStatus
<1>2. tasks' = Append(tasks, row) /\ tasks \in Seq(TaskRow)
  BY DEF CreateTask, Inv, StoreFits
<1> HIDE DEF row
<1>3. /\ tasks' \in Seq(TaskRow) /\ Len(tasks') = Len(tasks) + 1 /\ Len(tasks) \in Nat
      /\ DOMAIN tasks = 1..Len(tasks) /\ DOMAIN tasks' = 1..(Len(tasks) + 1)
      /\ \A t \in 1..Len(tasks) : tasks'[t] = tasks[t]
      /\ tasks'[Len(tasks) + 1] = row
  BY <1>1, <1>2
<1>4. \A t \in DOMAIN tasks' : IsCode(tasks', t) => session'.plan # NoPlan
  BY <1>1, <1>3 DEF Inv, StoreFits, IsCode
<1> QED  BY <1>1, <1>3, <1>4 DEF Inv, StoreFits, Grows

(* UpdateTask leaves the type of a row alone.                              *)
LEMMA GrowsUpdate ==
  ASSUME Inv, NEW t \in DOMAIN tasks, NEW row \in TaskRow, row.type = tasks[t].type,
         tasks' = [tasks EXCEPT ![t] = row], UNCHANGED session
  PROVE  Grows
<1>1. tasks \in Seq(TaskRow) /\ tasks' \in Seq(TaskRow) /\ DOMAIN tasks' = DOMAIN tasks
  BY DEF Inv, StoreFits
<1>2. \A u \in DOMAIN tasks : tasks'[u].type = tasks[u].type
  BY <1>1
<1> QED  BY <1>1, <1>2 DEF Inv, StoreFits, Grows, IsCode

LEMMA RequestMoves ==
  ASSUME Inv, Grows, NEW h \in Handlers, NEW r, Become(h, r), RequestFits(r, tasks', session'.plan),
         UNCHANGED wrk, \A m \in stream' : m \in stream \/ EntryFits(m, tasks'), Counters'
  PROVE  Inv'
<1>1. r \in HandlerState
  BY DEF RequestFits
<1>2. /\ req' \in [Handlers -> HandlerState]
      /\ req'[h] = r
      /\ \A g \in Handlers \ {h} : req'[g] = req[g]
  BY <1>1 DEF Inv, Become
<1>3. ASSUME NEW g \in Handlers PROVE RequestFits(req'[g], tasks', session'.plan)
  <2>1. CASE g = h
    BY <1>2, <2>1
  <2>2. CASE g # h
    BY <1>2, <2>2, RequestStays DEF Inv
  <2> QED  BY <2>1, <2>2
<1>4. \A w \in Workers : WorkerFits(wrk'[w], tasks')
  BY WorkerStays DEF Inv
<1>5. \A m \in stream' : EntryFits(m, tasks')
  BY EntryStays DEF Inv
<1> QED  BY <1>2, <1>3, <1>4, <1>5 DEF Inv, Grows

LEMMA WorkerMoves ==
  ASSUME Inv, Grows, NEW w \in Workers, NEW r, WBecome(w, r), WorkerFits(r, tasks'),
         UNCHANGED req, \A m \in stream' : m \in stream \/ EntryFits(m, tasks'), Counters'
  PROVE  Inv'
<1>1. r \in WorkerState
  BY DEF WorkerFits
<1>2. /\ wrk' \in [Workers -> WorkerState]
      /\ wrk'[w] = r
      /\ \A v \in Workers \ {w} : wrk'[v] = wrk[v]
  BY <1>1 DEF Inv, WBecome
<1>3. ASSUME NEW v \in Workers PROVE WorkerFits(wrk'[v], tasks')
  <2>1. CASE v = w
    BY <1>2, <2>1
  <2>2. CASE v # w
    BY <1>2, <2>2, WorkerStays DEF Inv
  <2> QED  BY <2>1, <2>2
<1>4. \A h \in Handlers : RequestFits(req'[h], tasks', session'.plan)
  BY RequestStays DEF Inv
<1>5. \A m \in stream' : EntryFits(m, tasks')
  BY EntryStays DEF Inv
<1> QED  BY <1>2, <1>3, <1>4, <1>5 DEF Inv, Grows

(* What a step knows of the copies it works with.                          *)
LEMMA LoadFits ==
  ASSUME Inv
  PROVE  /\ Load \in Snapshot /\ HasResult(Load) /\ Load.plan = session.plan /\ Load.st = session.st
         /\ Load.rev = session.rev
  BY DEF Load, Inv, StoreFits, SessionRow, Snapshot, HasResult

LEMMA StatusFits ==
  ASSUME NEW s \in Snapshot, NEW st \in SessionStatus \ {"absent", "plan_generated", "code_generated"}
  PROVE  /\ [s EXCEPT !.st = st] \in Snapshot /\ HasResult([s EXCEPT !.st = st])
         /\ [s EXCEPT !.st = st].plan = s.plan /\ [s EXCEPT !.st = st].st # "absent"
  BY DEF Snapshot, HasResult

LEMMA RequestFacts ==
  ASSUME Inv, NEW h \in Handlers
  PROVE  /\ req[h] \in HandlerState /\ req[h].s \in Snapshot /\ HasResult(req[h].s)
         /\ req[h].task \in Nat /\ req[h].attempt \in Nat /\ req[h].plan \in Nat /\ req[h].fb \in BOOLEAN
         /\ req[h].s.plan \in Nat /\ req[h].s.fb \in BOOLEAN
         /\ RequestFits(req[h], tasks, session.plan)
  BY DEF Inv, HandlerState, Snapshot, RequestFits

LEMMA TaskFacts ==
  ASSUME Inv, NEW t \in DOMAIN tasks
  PROVE  /\ t \in Nat /\ tasks[t] \in TaskRow
         /\ tasks[t].type \in TaskType /\ tasks[t].attempt \in Nat
         /\ IsCode(tasks, t) => session.plan # NoPlan
<1>1. tasks \in Seq(TaskRow) /\ (IsCode(tasks, t) => session.plan # NoPlan)
  BY DEF Inv, StoreFits
<1>2. DOMAIN tasks = 1..Len(tasks) /\ Len(tasks) \in Nat /\ tasks[t] \in TaskRow
  BY <1>1, ElementOfSeq
<1> QED  BY <1>1, <1>2 DEF TaskRow

LEMMA NoSnapshotFits == NoSnapshot \in Snapshot /\ HasResult(NoSnapshot)
  BY DEF NoSnapshot, Snapshot, SessionStatus, NoPlan, NoContract, HasResult

LEMMA IdleFits == Idle \in HandlerState /\ \A T, p : RequestFits(Idle, T, p)
<1>1. Idle \in HandlerState /\ Idle.pc = "idle" /\ Idle.s = NoSnapshot
  BY NoSnapshotFits DEF Idle, HandlerState, HandlerPC, NoPlan
<1> QED  BY <1>1, NoSnapshotFits DEF RequestFits, WithTask, Approving

LEMMA DispatchState ==
  ASSUME NEW task \in Nat, NEW attempt \in Nat, NEW plan \in Nat, NEW fb \in BOOLEAN, NEW T, NEW p,
         task \in DOMAIN T, IsCode(T, task) => plan # NoPlan
  PROVE  RequestFits([Idle EXCEPT !.pc = "publish", !.task = task, !.attempt = attempt, !.plan = plan, !.fb = fb], T, p)
<1> DEFINE r == [Idle EXCEPT !.pc = "publish", !.task = task, !.attempt = attempt, !.plan = plan, !.fb = fb]
<1>1. r \in HandlerState /\ r.pc = "publish" /\ r.task = task /\ r.plan = plan /\ r.s = NoSnapshot
  BY IdleFits DEF HandlerState, HandlerPC, Idle
<1> HIDE DEF r
<1>2. RequestFits(r, T, p)
  BY <1>1, NoSnapshotFits DEF RequestFits, Approving
<1> QED  BY <1>2 DEF r

LEMMA CountersSame == ASSUME Inv, UNCHANGED <<nextID, plans, faults, dead, dropped>> PROVE Counters'
  BY DEF Inv, Counters

(* A request that only goes on with a copy it has.                         *)
LEMMA OnlyRequest ==
  ASSUME Inv, NEW h \in Handlers, NEW r, Become(h, r), RequestFits(r, tasks, session.plan), OnlyReq
  PROVE  Inv'
<1>1. UNCHANGED <<session, tasks, stream, nextID, dead, wrk, plans, dropped, faults>>
  BY DEF OnlyReq
<1>2. Grows /\ Counters' /\ RequestFits(r, tasks', session'.plan)
  BY <1>1, GrowsSame, CountersSame
<1> QED  BY <1>1, <1>2, RequestMoves

(* A request that writes a copy of the session.                            *)
LEMMA RequestSaves ==
  ASSUME Inv, NEW h \in Handlers, NEW s \in Snapshot, HasResult(s), s.st # "absent", Save(s), OnlySession,
         NEW r, Become(h, r), session.plan # NoPlan => RequestFits(r, tasks, session.plan),
         session.plan = NoPlan => \A p : RequestFits(r, tasks, p)
  PROVE  Inv'
<1>1. UNCHANGED <<tasks, stream, nextID, dead, wrk, plans, dropped, faults>>
  BY DEF OnlySession
<1>2. Grows /\ Counters'
  BY <1>1, GrowsSave, CountersSame
<1>3. RequestFits(r, tasks', session'.plan)
  <2>1. CASE session.plan # NoPlan
    BY <1>2, <2>1, RequestStays
  <2>2. CASE session.plan = NoPlan
    BY <1>1, <2>2
  <2> QED  BY <2>1, <2>2
<1> QED  BY <1>1, <1>2, <1>3, RequestMoves

-----------------------------------------------------------------------------
(* Requests *)

(* Goto with a copy the session row, or the request, vouches for.          *)
LEMMA GotoInv ==
  ASSUME Inv, NEW h \in Handlers, NEW pc \in HandlerPC, NEW s \in Snapshot, HasResult(s), Goto(h, pc, s), OnlyReq,
         pc \in WithTask => req[h].task \in DOMAIN tasks,
         pc # "publish",
         pc \in {"retry_create", "retry_write"} => (IsCode(tasks, req[h].task) => s.plan # NoPlan),
         pc \in Approving => s.plan # NoPlan /\ session.plan # NoPlan,
         pc \in {"approve_edit", "apply_write"} => s.st # "absent"
  PROVE  Inv'
<1> DEFINE r == [req[h] EXCEPT !.pc = pc, !.s = s]
<1>1. r \in HandlerState /\ r.pc = pc /\ r.s = s /\ r.task = req[h].task
  BY RequestFacts DEF HandlerState
<1>2. Become(h, r)
  BY DEF Goto
<1> HIDE DEF r
<1>3. RequestFits(r, tasks, session.plan)
  BY <1>1 DEF RequestFits
<1> QED  BY <1>2, <1>3, OnlyRequest

LEMMA SaveGotoInv ==
  ASSUME Inv, NEW h \in Handlers, NEW pc \in HandlerPC \ WithTask, NEW s \in Snapshot, HasResult(s), s.st # "absent", Save(s),
         Goto(h, pc, s), OnlySession, pc # "apply_write",
         pc \in Approving => s.plan # NoPlan /\ session.plan # NoPlan
  PROVE  Inv'
<1> DEFINE r == [req[h] EXCEPT !.pc = pc, !.s = s]
<1>1. r \in HandlerState /\ r.pc = pc /\ r.s = s /\ r.task = req[h].task
  BY RequestFacts DEF HandlerState
<1>2. Become(h, r)
  BY DEF Goto
<1> HIDE DEF r
<1>3. RequestFits(r, tasks, session.plan) /\ (session.plan = NoPlan => \A p : RequestFits(r, tasks, p))
  BY <1>1 DEF RequestFits, WithTask
<1> QED  BY <1>2, <1>3, RequestSaves

LEMMA SaveReturnInv ==
  ASSUME Inv, NEW h \in Handlers, NEW s \in Snapshot, HasResult(s), s.st # "absent", Save(s), Return(h), OnlySession
  PROVE  Inv'
  BY IdleFits, RequestSaves DEF Return

LEMMA AnalyzeInv == ASSUME Inv, NEW h \in Handlers, Analyze(h) PROVE Inv'
<1>1. CASE session.st = "absent"
  <2> DEFINE s == [NoSnapshot EXCEPT !.st = "queued"]
             r == [req[h] EXCEPT !.pc = "analyze_create", !.s = s]
             row == [st |-> "queued", rev |-> 0, plan |-> NoPlan, files |-> NoContract, fbRows |-> {}]
  <2>1. s \in Snapshot /\ HasResult(s)
    BY NoSnapshotFits, StatusFits DEF SessionStatus
  <2>2. row \in SessionRow /\ HasResult(row)
    BY DEF SessionRow, SessionStatus, HasResult, NoPlan, NoContract
  <2>3. session' = row /\ Goto(h, "analyze_create", s) /\ OnlySession
    BY <1>1 DEF Analyze
  <2> HIDE DEF s
  <2>4. r \in HandlerState /\ r.pc = "analyze_create" /\ r.s = s
    BY <2>1, RequestFacts DEF HandlerState, HandlerPC
  <2>5. Become(h, r)
    BY <2>3 DEF Goto
  <2> HIDE DEF r
  <2>6. UNCHANGED <<tasks, stream, nextID, dead, wrk, plans, dropped, faults>> /\ Counters'
    BY <2>3, CountersSame DEF OnlySession
  <2>7. Grows
    BY <1>1, <2>2, <2>3, <2>6 DEF Inv, StoreFits, Grows
  <2>8. RequestFits(r, tasks', session'.plan)
    BY <2>1, <2>4 DEF RequestFits, WithTask, Approving
  <2> QED  BY <2>5, <2>6, <2>7, <2>8, RequestMoves
<1>2. CASE session.st # "absent"
  <2>1. Goto(h, "analyze_latest", Load) /\ OnlyReq
    BY <1>2 DEF Analyze, OnlySession, OnlyReq
  <2> QED  BY <2>1, LoadFits, GotoInv DEF HandlerPC, WithTask, Approving
<1> QED  BY <1>1, <1>2

(* A request that creates a task of a type the session allows.             *)
LEMMA RequestCreates ==
  ASSUME Inv, NEW h \in Handlers, NEW type \in TaskType, NEW attempt \in Nat, CreateTask(type, attempt),
         type = "code_generation" => session.plan # NoPlan, OnlyTasks,
         NEW r, Become(h, r), RequestFits(r, tasks', session.plan)
  PROVE  Inv'
<1>1. UNCHANGED <<session, stream, nextID, dead, wrk, plans, dropped, faults>>
  BY DEF OnlyTasks
<1>2. Grows /\ Counters'
  BY <1>1, GrowsCreate, CountersSame
<1> QED  BY <1>1, <1>2, RequestMoves

(* The new row is the task of the request.                                 *)
LEMMA NewRow ==
  ASSUME Inv, NEW type \in TaskType, NEW attempt \in Nat, CreateTask(type, attempt)
  PROVE  /\ Len(tasks) \in Nat /\ Len(tasks) + 1 \in Nat /\ Len(tasks) + 1 \in DOMAIN tasks'
         /\ IsCode(tasks', Len(tasks) + 1) <=> type = "code_generation"
<1> DEFINE row == [type |-> type, st |-> "queued", attempt |-> attempt, err |-> "none"]
<1>1. row \in TaskRow /\ row.type = type
  BY DEF TaskRow, TaskStatus
<1>2. tasks' = Append(tasks, row) /\ tasks \in Seq(TaskRow)
  BY DEF CreateTask, Inv, StoreFits
<1> HIDE DEF row
<1>3. Len(tasks) \in Nat /\ DOMAIN tasks' = 1..(Len(tasks) + 1) /\ tasks'[Len(tasks) + 1] = row
  BY <1>1, <1>2
<1> QED  BY <1>1, <1>3 DEF IsCode

LEMMA AnalyzeLatestInv == ASSUME Inv, NEW h \in Handlers, AnalyzeLatest(h) PROVE Inv'
<1>1. CASE Goto(h, "analyze_create", req[h].s)
  BY <1>1, RequestFacts, GotoInv DEF AnalyzeLatest, HandlerPC, WithTask, Approving
<1>2. CASE Return(h)
  BY <1>2, IdleFits, OnlyRequest DEF AnalyzeLatest, Return
<1> QED  BY <1>1, <1>2 DEF AnalyzeLatest

LEMMA AnalyzeCreateInv == ASSUME Inv, NEW h \in Handlers, AnalyzeCreate(h) PROVE Inv'
<1> DEFINE r == [Idle EXCEPT !.pc = "publish", !.task = Len(tasks) + 1, !.attempt = 1, !.plan = NoPlan, !.fb = FALSE]
<1>1. CreateTask("initial_plan", 1) /\ Become(h, r) /\ OnlyTasks /\ "initial_plan" \in TaskType
  BY DEF AnalyzeCreate, Dispatch, TaskType
<1>2. RequestFits(r, tasks', session.plan)
  BY <1>1, NewRow, DispatchState DEF NoPlan
<1> HIDE DEF r
<1> QED  BY <1>1, <1>2, RequestCreates

LEMMA CorrectInv == ASSUME Inv, NEW h \in Handlers, Correct(h) PROVE Inv'
  BY LoadFits, GotoInv DEF Correct, HandlerPC, WithTask, Approving

LEMMA CorrectWriteInv == ASSUME Inv, NEW h \in Handlers, CorrectWrite(h) PROVE Inv'
<1> DEFINE s == [req[h].s EXCEPT !.st = "correction_requested", !.fb = TRUE]
<1>1. Save(s) /\ Goto(h, "correct_create", s) /\ OnlySession
  BY DEF CorrectWrite
<1>2. s \in Snapshot /\ HasResult(s) /\ s.st # "absent"
  BY RequestFacts DEF Snapshot, SessionStatus, HasResult
<1> HIDE DEF s
<1> QED  BY <1>1, <1>2, SaveGotoInv DEF HandlerPC, WithTask, Approving

LEMMA CorrectCreateInv == ASSUME Inv, NEW h \in Handlers, CorrectCreate(h) PROVE Inv'
<1> DEFINE r == [Idle EXCEPT !.pc = "publish", !.task = Len(tasks) + 1, !.attempt = 1, !.plan = req[h].s.plan, !.fb = TRUE]
<1>1. CreateTask("plan_revision", 1) /\ Become(h, r) /\ OnlyTasks /\ "plan_revision" \in TaskType
  BY DEF CorrectCreate, Dispatch, TaskType
<1>2. RequestFits(r, tasks', session.plan)
  BY <1>1, NewRow, RequestFacts, DispatchState
<1> HIDE DEF r
<1> QED  BY <1>1, <1>2, RequestCreates

LEMMA ApproveInv == ASSUME Inv, NEW h \in Handlers, Approve(h) PROVE Inv'
<1>1. /\ session.st = "plan_generated" /\ session.plan # NoPlan /\ session.rev \in Nat /\ session.rev > 0
      /\ plans \in Nat
  BY DEF Approve, Inv, StoreFits, HasResult, SessionRow, Counters
<1>2. CASE Goto(h, "approve_write", Load) /\ UNCHANGED plans
  <2>1. OnlyReq
    BY <1>2 DEF Approve, OnlyReq
  <2> QED  BY <1>1, <1>2, <2>1, LoadFits, GotoInv DEF HandlerPC, WithTask, Approving
<1>3. CASE plans' = plans + 1 /\ Goto(h, "approve_edit", [Load EXCEPT !.plan = plans + 1, !.rev = @ + 1])
  <2> DEFINE s == [Load EXCEPT !.plan = plans + 1, !.rev = @ + 1]
             r == [req[h] EXCEPT !.pc = "approve_edit", !.s = s]
  <2>0. Load \in Snapshot /\ Load.st = "plan_generated" /\ Load.rev = session.rev /\ plans + 1 \in Nat
        /\ session.rev + 1 \in Nat
    BY <1>1, LoadFits
  <2>1. s \in Snapshot /\ s.st = "plan_generated" /\ s.plan = plans + 1 /\ s.rev = session.rev + 1
    BY <2>0 DEF Snapshot
  <2> HIDE DEF s
  <2>2. r \in HandlerState /\ r.pc = "approve_edit" /\ r.s = s
    BY <2>1, RequestFacts DEF HandlerState, HandlerPC
  <2>3. Become(h, r)
    BY <1>3 DEF Goto, s
  <2> HIDE DEF r
  <2>4. RequestFits(r, tasks, session.plan)
    BY <1>1, <2>1, <2>2 DEF RequestFits, HasResult, WithTask, NoPlan
  <2>5. UNCHANGED <<session, tasks, stream, nextID, dead, wrk, dropped, faults>>
    BY DEF Approve
  <2>6. Counters'
    BY <1>1, <1>3, <2>5 DEF Inv, Counters
  <2>7. Grows /\ RequestFits(r, tasks', session'.plan)
    BY <2>4, <2>5, GrowsSame
  <2> QED  BY <2>3, <2>5, <2>6, <2>7, RequestMoves
<1> QED  BY <1>2, <1>3 DEF Approve

LEMMA ApprovingFacts ==
  ASSUME Inv, NEW h \in Handlers, req[h].pc \in Approving
  PROVE  req[h].s.plan # NoPlan /\ session.plan # NoPlan
  BY DEF Inv, RequestFits

LEMMA ApproveEditInv == ASSUME Inv, NEW h \in Handlers, ApproveEdit(h) PROVE Inv'
<1>1. req[h].s \in Snapshot /\ HasResult(req[h].s) /\ req[h].s.st # "absent"
  BY RequestFacts DEF ApproveEdit, At, RequestFits
<1>2. req[h].s.plan # NoPlan /\ session.plan # NoPlan
  BY ApprovingFacts DEF ApproveEdit, At, Approving
<1>3. Save(req[h].s) /\ Goto(h, "approve_write", req[h].s) /\ OnlySession
  BY DEF ApproveEdit
<1> QED  BY <1>1, <1>2, <1>3, SaveGotoInv DEF HandlerPC, WithTask

LEMMA ApproveWriteInv == ASSUME Inv, NEW h \in Handlers, ApproveWrite(h) PROVE Inv'
<1> DEFINE s == [req[h].s EXCEPT !.st = "approved", !.files = NoFiles]
<1>1. Save(s) /\ Goto(h, "approve_create", s) /\ OnlySession
  BY DEF ApproveWrite
<1>2. s \in Snapshot /\ HasResult(s) /\ s.st # "absent" /\ s.plan = req[h].s.plan
  BY RequestFacts DEF Snapshot, SessionStatus, HasResult, NoFiles
<1>3. req[h].s.plan # NoPlan /\ session.plan # NoPlan
  BY ApprovingFacts DEF ApproveWrite, At, Approving
<1> HIDE DEF s
<1> QED  BY <1>1, <1>2, <1>3, SaveGotoInv DEF HandlerPC, WithTask

LEMMA ApproveCreateInv == ASSUME Inv, NEW h \in Handlers, ApproveCreate(h) PROVE Inv'
<1> DEFINE r == [req[h] EXCEPT !.pc = "approve_queue", !.task = Len(tasks) + 1]
<1>1. CreateTask("code_generation", 1) /\ Become(h, r) /\ OnlyTasks /\ "code_generation" \in TaskType
  BY DEF ApproveCreate, TaskType
<1>2. req[h].s.plan # NoPlan /\ session.plan # NoPlan
  BY ApprovingFacts DEF ApproveCreate, At, Approving
<1>3. Len(tasks) + 1 \in Nat /\ Len(tasks) + 1 \in DOMAIN tasks'
  BY <1>1, NewRow
<1>4. r \in HandlerState /\ r.pc = "approve_queue" /\ r.s = req[h].s /\ r.task = Len(tasks) + 1
  BY <1>3, RequestFacts DEF HandlerState, HandlerPC
<1> HIDE DEF r
<1>5. RequestFits(r, tasks', session.plan)
  BY <1>2, <1>3, <1>4, RequestFacts DEF RequestFits
<1> QED  BY <1>1, <1>2, <1>5, RequestCreates

LEMMA ApproveQueueInv == ASSUME Inv, NEW h \in Handlers, ApproveQueue(h) PROVE Inv'
<1> DEFINE s == [req[h].s EXCEPT !.st = "code_generation_queued"]
           r == [Idle EXCEPT !.pc = "publish", !.task = req[h].task, !.attempt = 1, !.plan = req[h].s.plan, !.fb = FALSE]
<1>1. Save(s) /\ Become(h, r) /\ OnlySession
  BY DEF ApproveQueue, Dispatch
<1>2. s \in Snapshot /\ HasResult(s) /\ s.st # "absent"
  BY RequestFacts, StatusFits DEF SessionStatus
<1>3. req[h].s.plan # NoPlan /\ req[h].task \in DOMAIN tasks /\ req[h].task \in Nat /\ req[h].s.plan \in Nat
  BY ApprovingFacts, RequestFacts DEF ApproveQueue, At, Approving, RequestFits, WithTask
<1>4. \A p : RequestFits(r, tasks, p)
  BY <1>3, DispatchState
<1> HIDE DEF s, r
<1> QED  BY <1>1, <1>2, <1>4, RequestSaves

LEMMA RejectInv == ASSUME Inv, NEW h \in Handlers, Reject(h) PROVE Inv'
  BY LoadFits, GotoInv DEF Reject, HandlerPC, WithTask, Approving

LEMMA RejectWriteInv == ASSUME Inv, NEW h \in Handlers, RejectWrite(h) PROVE Inv'
<1> DEFINE s == [req[h].s EXCEPT !.st = "rejected"]
<1>1. s \in Snapshot /\ HasResult(s) /\ s.st # "absent"
  BY RequestFacts, StatusFits DEF SessionStatus
<1>2. Save(s) /\ Return(h) /\ OnlySession
  BY DEF RejectWrite
<1> HIDE DEF s
<1> QED  BY <1>1, <1>2, SaveReturnInv

LEMMA RetryInv == ASSUME Inv, NEW h \in Handlers, Retry(h) PROVE Inv'
<1>1. PICK t \in DOMAIN tasks : Become(h, [Idle EXCEPT !.pc = "retry_read", !.task = t, !.attempt = tasks[t].attempt + 1])
  BY DEF Retry
<1> DEFINE r == [Idle EXCEPT !.pc = "retry_read", !.task = t, !.attempt = tasks[t].attempt + 1]
<1>2. t \in Nat /\ tasks[t].attempt + 1 \in Nat
  BY TaskFacts
<1>3. r \in HandlerState /\ r.pc = "retry_read" /\ r.task = t /\ r.s = NoSnapshot
  BY <1>2, IdleFits DEF HandlerState, HandlerPC, Idle
<1>4. Become(h, r) /\ OnlyReq
  BY <1>1 DEF Retry
<1> HIDE DEF r
<1>5. RequestFits(r, tasks, session.plan)
  BY <1>3, NoSnapshotFits DEF RequestFits, Approving
<1> QED  BY <1>4, <1>5, OnlyRequest

LEMMA RetryReadInv == ASSUME Inv, NEW h \in Handlers, RetryRead(h) PROVE Inv'
<1>1. req[h].task \in DOMAIN tasks
  BY RequestFacts DEF RetryRead, At, RequestFits, WithTask
<1>2. IsCode(tasks, req[h].task) => Load.plan # NoPlan
  BY <1>1, LoadFits DEF Inv, StoreFits
<1> QED  BY <1>1, <1>2, LoadFits, GotoInv DEF RetryRead, HandlerPC, Approving

LEMMA RetryCreateInv == ASSUME Inv, NEW h \in Handlers, RetryCreate(h) PROVE Inv'
<1> DEFINE type == tasks[req[h].task].type
           r == [req[h] EXCEPT !.pc = "retry_write", !.task = Len(tasks) + 1]
<1>1. CreateTask(type, req[h].attempt) /\ Become(h, r) /\ OnlyTasks
  BY DEF RetryCreate
<1>2. req[h].task \in DOMAIN tasks /\ (IsCode(tasks, req[h].task) => req[h].s.plan # NoPlan)
  BY RequestFacts DEF RetryCreate, At, RequestFits, WithTask
<1>3. type \in TaskType /\ (type = "code_generation" => session.plan # NoPlan /\ req[h].s.plan # NoPlan)
  BY <1>2, TaskFacts DEF IsCode
<1> HIDE DEF type
<1>4. /\ Len(tasks) + 1 \in Nat /\ Len(tasks) + 1 \in DOMAIN tasks'
      /\ IsCode(tasks', Len(tasks) + 1) => req[h].s.plan # NoPlan
  BY <1>1, <1>3, NewRow, RequestFacts
<1>5. r \in HandlerState /\ r.pc = "retry_write" /\ r.s = req[h].s /\ r.task = Len(tasks) + 1
  BY <1>4, RequestFacts DEF HandlerState, HandlerPC
<1> HIDE DEF r
<1>6. RequestFits(r, tasks', session.plan)
  BY <1>4, <1>5, RequestFacts DEF RequestFits, Approving
<1> QED  BY <1>1, <1>3, <1>6, RequestFacts, RequestCreates

LEMMA RetryWriteInv == ASSUME Inv, NEW h \in Handlers, RetryWrite(h) PROVE Inv'
<1> DEFINE type == tasks[req[h].task].type
           s == [req[h].s EXCEPT !.st = QueuedStatus(type)]
           plan == IF type = "initial_plan" THEN NoPlan ELSE req[h].s.plan
           fb == type = "plan_revision" /\ req[h].s.fb
           r == [Idle EXCEPT !.pc = "publish", !.task = req[h].task, !.attempt = req[h].attempt, !.plan = plan, !.fb = fb]
<1>1. Save(s) /\ Become(h, r) /\ OnlySession
  BY DEF RetryWrite, Dispatch
<1>2. req[h].task \in DOMAIN tasks /\ (IsCode(tasks, req[h].task) => req[h].s.plan # NoPlan)
  BY RequestFacts DEF RetryWrite, At, RequestFits, WithTask
<1>3. s \in Snapshot /\ HasResult(s) /\ s.st # "absent"
  <2>1. QueuedStatus(type) \in SessionStatus \ {"absent", "plan_generated", "code_generated"}
    BY DEF QueuedStatus, SessionStatus
  <2> QED  BY <2>1, RequestFacts, StatusFits
<1>4. plan \in Nat /\ fb \in BOOLEAN /\ (IsCode(tasks, req[h].task) => plan # NoPlan)
  BY <1>2, RequestFacts DEF NoPlan, IsCode
<1> HIDE DEF plan, fb, s
<1>5. \A p : RequestFits(r, tasks, p)
  BY <1>2, <1>4, RequestFacts, DispatchState
<1> HIDE DEF r
<1> QED  BY <1>1, <1>3, <1>5, RequestSaves

LEMMA ApplyInv == ASSUME Inv, NEW h \in Handlers, Apply(h) PROVE Inv'
<1>1. Load.st # "absent"
  BY LoadFits DEF Apply, Inv, StoreFits, NoContract, NoFiles
<1> QED  BY <1>1, LoadFits, GotoInv DEF Apply, HandlerPC, WithTask, Approving

LEMMA ApplyWriteInv == ASSUME Inv, NEW h \in Handlers, ApplyWrite(h) PROVE Inv'
<1>1. req[h].s \in Snapshot /\ HasResult(req[h].s) /\ req[h].s.st # "absent"
  BY RequestFacts DEF ApplyWrite, At, RequestFits
<1>2. Save(req[h].s) /\ Become(h, Idle) /\ UNCHANGED <<tasks, stream, nextID, dead, wrk, plans, faults>>
  BY DEF ApplyWrite, Return
<1>3. dropped' \in SUBSET {"request", "apply", "claim"}
  BY DEF ApplyWrite, Inv, Counters
<1>4. Grows /\ Counters'
  BY <1>1, <1>2, <1>3, GrowsSave DEF Inv, Counters
<1> QED  BY <1>2, <1>4, IdleFits, RequestMoves

(* Publish adds an entry for the task of the request.                      *)
LEMMA PublishInv == ASSUME Inv, NEW h \in Handlers, Publish(h) PROVE Inv'
<1> DEFINE e == [id |-> nextID, st |-> "new", task |-> req[h].task, attempt |-> req[h].attempt,
                 plan |-> req[h].plan, fb |-> req[h].fb]
           r == [req[h] EXCEPT !.pc = "fail_task"]
<1>1. req[h].task \in DOMAIN tasks /\ (IsCode(tasks, req[h].task) => req[h].plan # NoPlan)
  BY RequestFacts DEF Publish, At, RequestFits, WithTask
<1>2. EntryFits(e, tasks)
  BY <1>1, RequestFacts DEF EntryFits, Entry, Inv, Counters
<1>3. UNCHANGED <<session, tasks, dead, wrk, plans, dropped>> /\ faults' \in Nat
  BY DEF Publish, Fault, Inv, Counters
<1>4. /\ stream' = stream \/ stream' = stream \cup {e}
      /\ nextID' = nextID \/ nextID' = nextID + 1
  BY DEF Publish, Add
<1>5. Become(h, Idle) \/ Become(h, r)
  BY DEF Publish, Return
<1>6. r \in HandlerState /\ r.pc = "fail_task" /\ r.s = req[h].s /\ r.task = req[h].task
  BY RequestFacts DEF HandlerState, HandlerPC
<1> HIDE DEF e, r
<1>7. RequestFits(r, tasks, session.plan)
  BY <1>1, <1>6, RequestFacts DEF RequestFits, Approving
<1>8. Grows /\ Counters'
  BY <1>3, <1>4, GrowsSame DEF Inv, Counters
<1>9. \A m \in stream' : m \in stream \/ EntryFits(m, tasks')
  BY <1>2, <1>3, <1>4
<1>10. RequestFits(r, tasks', session'.plan)
  BY <1>3, <1>7
<1> QED  BY <1>3, <1>5, <1>8, <1>9, <1>10, IdleFits, RequestMoves

LEMMA FailTaskInv == ASSUME Inv, NEW h \in Handlers, FailTask(h) PROVE Inv'
<1> DEFINE t == req[h].task
           row == [tasks[t] EXCEPT !.st = "failed", !.err = "temporary"]
           r == [req[h] EXCEPT !.pc = "fail_read"]
<1>1. t \in DOMAIN tasks
  BY RequestFacts DEF FailTask, At, RequestFits, WithTask
<1>2. row \in TaskRow /\ row.type = tasks[t].type
  BY <1>1, TaskFacts DEF TaskRow, TaskStatus
<1>3. tasks' = [tasks EXCEPT ![t] = row] /\ Become(h, r) /\ OnlyTasks
  BY DEF FailTask
<1>4. r \in HandlerState /\ r.pc = "fail_read" /\ r.s = req[h].s /\ r.task = t
  BY RequestFacts DEF HandlerState, HandlerPC
<1> HIDE DEF row, r
<1>5. RequestFits(r, tasks, session.plan)
  BY <1>1, <1>4, RequestFacts DEF RequestFits, Approving
<1>6. UNCHANGED <<session, stream, nextID, dead, wrk, plans, dropped, faults>>
  BY <1>3 DEF OnlyTasks
<1>7. Grows /\ Counters'
  BY <1>1, <1>2, <1>3, <1>6, GrowsUpdate, CountersSame
<1>8. RequestFits(r, tasks', session'.plan)
  BY <1>5, <1>7, RequestStays
<1> QED  BY <1>3, <1>6, <1>7, <1>8, RequestMoves

LEMMA FailReadInv == ASSUME Inv, NEW h \in Handlers, FailRead(h) PROVE Inv'
<1>1. req[h].task \in DOMAIN tasks
  BY RequestFacts DEF FailRead, At, RequestFits, WithTask
<1> QED  BY <1>1, LoadFits, GotoInv DEF FailRead, HandlerPC, Approving

LEMMA FailWriteInv == ASSUME Inv, NEW h \in Handlers, FailWrite(h) PROVE Inv'
<1> DEFINE s == [req[h].s EXCEPT !.st = "failed"]
<1>1. s \in Snapshot /\ HasResult(s) /\ s.st # "absent"
  BY RequestFacts, StatusFits DEF SessionStatus
<1>2. Save(s) /\ Return(h) /\ OnlySession
  BY DEF FailWrite
<1> HIDE DEF s
<1> QED  BY <1>1, <1>2, SaveReturnInv

LEMMA AbortInv == ASSUME Inv, NEW h \in Handlers, Abort(h) PROVE Inv'
<1>1. UNCHANGED <<session, tasks, stream, nextID, dead, wrk, plans>> /\ Become(h, Idle)
  BY DEF Abort, Return
<1>2. Counters' /\ Grows
  BY <1>1, GrowsSame DEF Abort, Fault, Inv, Counters
<1> QED  BY <1>1, <1>2, IdleFits, RequestMoves

-----------------------------------------------------------------------------
(* Workers *)

Working == WorkerPC \ {"idle", "ack"}
Producing == {"done_task", "done_read", "done_write"}

LEMMA WorkerFacts ==
  ASSUME Inv, NEW w \in Workers
  PROVE  /\ wrk[w] \in WorkerState /\ wrk[w].s \in Snapshot /\ HasResult(wrk[w].s)
         /\ wrk[w].pc \in WorkerPC /\ wrk[w].msg \in Nat /\ wrk[w].task \in Nat /\ wrk[w].attempt \in Nat
         /\ wrk[w].plan \in Nat /\ wrk[w].fb \in BOOLEAN /\ wrk[w].out \in Nat
         /\ wrk[w].err \in {"none", "temporary", "permanent"}
         /\ WorkerFits(wrk[w], tasks)
  BY DEF Inv, WorkerState, WorkerFits

(* A worker at work on its job knows a task that exists.                   *)
LEMMA WorkingFacts ==
  ASSUME Inv, NEW w \in Workers, wrk[w].pc \in Working
  PROVE  /\ wrk[w].task \in DOMAIN tasks
         /\ IsCode(tasks, wrk[w].task) => wrk[w].plan # NoPlan
         /\ wrk[w].pc \in Producing => wrk[w].out # NoPlan
  BY DEF Inv, WorkerFits, Working, Producing

LEMMA WaitingFits == Waiting \in WorkerState /\ \A T : WorkerFits(Waiting, T)
<1>1. Waiting \in WorkerState /\ Waiting.pc = "idle" /\ Waiting.s = NoSnapshot
  BY NoSnapshotFits DEF Waiting, WorkerState, WorkerPC, NoPlan
<1> QED  BY <1>1, NoSnapshotFits DEF WorkerFits

LEMMA SettledFits ==
  ASSUME Inv, NEW w \in Workers
  PROVE  \A T : WorkerFits(Settled(wrk[w]), T)
<1> DEFINE r == [Waiting EXCEPT !.pc = "ack", !.msg = wrk[w].msg]
<1>1. r \in WorkerState /\ r.pc = "ack" /\ r.s = NoSnapshot
  BY WaitingFits, WorkerFacts DEF WorkerState, WorkerPC, Waiting
<1>2. r = Settled(wrk[w])
  BY DEF Settled
<1> HIDE DEF r
<1> QED  BY <1>1, <1>2, NoSnapshotFits DEF WorkerFits

(* A worker step that leaves the store and the stream alone.               *)
LEMMA OnlyWorker ==
  ASSUME Inv, NEW w \in Workers, NEW r, WBecome(w, r), WorkerFits(r, tasks),
         UNCHANGED <<session, tasks, stream, nextID, dead, req, plans, dropped>>, faults' \in Nat
  PROVE  Inv'
<1>1. Grows /\ WorkerFits(r, tasks') /\ Counters'
  BY GrowsSame DEF Inv, Counters
<1> QED  BY <1>1, WorkerMoves

LEMMA DropInv ==
  ASSUME Inv, NEW w \in Workers, Drop(w), UNCHANGED <<session, tasks, stream, nextID, dead, req, plans, dropped>>,
         faults' \in Nat
  PROVE  Inv'
  BY OnlyWorker, WaitingFits DEF Drop

LEMMA WLoadInv ==
  ASSUME Inv, NEW w \in Workers, wrk[w].pc \in Working, NEW pc \in WorkerPC, WLoad(w, pc), OnlyWrk,
         pc \in Producing => wrk[w].pc \in Producing
  PROVE  Inv'
<1> DEFINE r == [wrk[w] EXCEPT !.pc = pc, !.s = Load]
<1>1. /\ r \in WorkerState /\ r.pc = pc /\ r.s = Load /\ r.task = wrk[w].task /\ r.plan = wrk[w].plan
      /\ r.out = wrk[w].out
  BY WorkerFacts, LoadFits DEF WorkerState
<1>2. WBecome(w, r) /\ UNCHANGED <<session, tasks, stream, nextID, dead, req, plans, dropped, faults>>
  BY DEF WLoad, OnlyWrk
<1> HIDE DEF r
<1>3. WorkerFits(r, tasks)
  BY <1>1, WorkingFacts, LoadFits DEF WorkerFits, Producing
<1>4. faults' \in Nat
  BY <1>2 DEF Inv, Counters
<1> QED  BY <1>2, <1>3, <1>4, OnlyWorker

(* UpdateSession by a worker.                                              *)
LEMMA WorkerSaves ==
  ASSUME Inv, NEW w \in Workers, NEW s \in Snapshot, HasResult(s), s.st # "absent", Save(s),
         UNCHANGED <<tasks, stream, nextID, dead, req, plans, dropped, faults>>,
         NEW r, WBecome(w, r), WorkerFits(r, tasks)
  PROVE  Inv'
<1>1. Grows /\ Counters' /\ WorkerFits(r, tasks')
  BY GrowsSave, CountersSame
<1> QED  BY <1>1, WorkerMoves

LEMMA WSaveInv ==
  ASSUME Inv, NEW w \in Workers, wrk[w].pc \in Working, NEW s \in Snapshot, HasResult(s), s.st # "absent",
         NEW pc \in WorkerPC \ Producing, WSave(w, s, pc)
  PROVE  Inv'
<1>1. /\ Save(s) /\ UNCHANGED <<tasks, stream, nextID, dead, req, plans, dropped, faults>>
      /\ WBecome(w, IF pc = "ack" THEN Settled(wrk[w]) ELSE [wrk[w] EXCEPT !.pc = pc, !.s = NoSnapshot])
  BY DEF WSave
<1>2. CASE pc = "ack"
  <2>1. WBecome(w, Settled(wrk[w]))
    BY <1>1, <1>2
  <2> QED  BY <1>1, <2>1, SettledFits, WorkerSaves
<1>3. CASE pc # "ack"
  <2> DEFINE r == [wrk[w] EXCEPT !.pc = pc, !.s = NoSnapshot]
  <2>1. WBecome(w, r)
    BY <1>1, <1>3
  <2>2. /\ r \in WorkerState /\ r.pc = pc /\ r.s = NoSnapshot /\ r.task = wrk[w].task /\ r.plan = wrk[w].plan
    BY WorkerFacts, NoSnapshotFits DEF WorkerState
  <2> HIDE DEF r
  <2>3. WorkerFits(r, tasks)
    BY <2>2, WorkingFacts, NoSnapshotFits DEF WorkerFits, Producing
  <2> QED  BY <1>1, <2>1, <2>3, WorkerSaves
<1> QED  BY <1>2, <1>3

(* UpdateTask by a worker, which then goes on with its job.                *)
LEMMA WorkerUpdates ==
  ASSUME Inv, NEW w \in Workers, wrk[w].pc \in Working, NEW row \in TaskRow,
         row.type = tasks[wrk[w].task].type, tasks' = [tasks EXCEPT ![wrk[w].task] = row],
         NEW pc \in WorkerPC, WGoto(w, pc), pc \in Producing => wrk[w].pc \in Producing,
         UNCHANGED <<session, stream, nextID, dead, req, plans, dropped, faults>>
  PROVE  Inv'
<1> DEFINE r == [wrk[w] EXCEPT !.pc = pc]
<1>1. WBecome(w, r)
  BY DEF WGoto
<1>2. /\ r \in WorkerState /\ r.pc = pc /\ r.s = wrk[w].s /\ r.task = wrk[w].task /\ r.plan = wrk[w].plan
      /\ r.out = wrk[w].out
  BY WorkerFacts DEF WorkerState
<1> HIDE DEF r
<1>3. WorkerFits(r, tasks)
  BY <1>2, WorkingFacts, WorkerFacts DEF WorkerFits, Producing
<1>4. Grows /\ Counters'
  BY WorkingFacts, GrowsUpdate, CountersSame
<1>5. WorkerFits(r, tasks')
  BY <1>3, <1>4, WorkerStays
<1> QED  BY <1>1, <1>4, <1>5, WorkerMoves

(* Both halves of Read hand an entry that fits to the worker.              *)
LEMMA DeliverInv ==
  ASSUME Inv, NEW w \in Workers, NEW m \in stream, Deliver(w, m),
         dropped' \in SUBSET {"request", "apply", "claim"}
  PROVE  Inv'
<1> DEFINE e == [m EXCEPT !.st = "pending"]
           r == [Waiting EXCEPT !.pc = "begin", !.msg = m.id, !.task = m.task,
                                !.attempt = m.attempt, !.plan = m.plan, !.fb = m.fb]
<1>1. m \in Entry /\ m.task \in DOMAIN tasks /\ (IsCode(tasks, m.task) => m.plan # NoPlan)
  BY DEF Inv, EntryFits
<1>2. e \in Entry /\ e.task = m.task /\ e.plan = m.plan
  BY <1>1 DEF Entry
<1>3. r \in WorkerState /\ r.pc = "begin" /\ r.task = m.task /\ r.plan = m.plan /\ r.s = NoSnapshot
  BY <1>1, WaitingFits DEF WorkerState, WorkerPC, Waiting, Entry
<1>4. /\ stream' = (stream \ {m}) \cup {e} /\ WBecome(w, r)
      /\ UNCHANGED <<session, tasks, nextID, dead, req, plans, faults>>
  BY DEF Deliver
<1> HIDE DEF e, r
<1>5. EntryFits(e, tasks) /\ WorkerFits(r, tasks)
  BY <1>1, <1>2, <1>3, NoSnapshotFits DEF EntryFits, WorkerFits
<1>6. Grows /\ Counters'
  BY <1>4, GrowsSame DEF Inv, Counters
<1>7. \A n \in stream' : n \in stream \/ EntryFits(n, tasks')
  BY <1>4, <1>5
<1>8. WorkerFits(r, tasks')
  BY <1>4, <1>5
<1> QED  BY <1>4, <1>6, <1>7, <1>8, WorkerMoves

LEMMA ClaimInv == ASSUME Inv, NEW w \in Workers, Claim(w) PROVE Inv'
<1>1. PICK m \in stream :
        /\ Deliver(w, m)
        /\ dropped' = IF \E v \in Workers : Holds(v, m) THEN dropped \cup {"claim"} ELSE dropped
  BY DEF Claim
<1>2. dropped' \in SUBSET {"request", "apply", "claim"}
  BY <1>1 DEF Inv, Counters
<1> QED  BY <1>1, <1>2, DeliverInv

LEMMA ReadInv == ASSUME Inv, NEW w \in Workers, Read(w) PROVE Inv'
<1>1. PICK m \in stream : Deliver(w, m)
  BY DEF Read
<1>2. dropped' \in SUBSET {"request", "apply", "claim"}
  BY DEF Read, Inv, Counters
<1> QED  BY <1>1, <1>2, DeliverInv

LEMMA BeginInv == ASSUME Inv, NEW w \in Workers, Begin(w) PROVE Inv'
<1> DEFINE t == wrk[w].task
           row == [tasks[t] EXCEPT !.st = "processing", !.attempt = wrk[w].attempt, !.err = "none"]
<1>1. wrk[w].pc \in Working /\ t \in DOMAIN tasks
  BY WorkingFacts DEF Begin, WAt, Working, WorkerPC
<1>2. row \in TaskRow /\ row.type = tasks[t].type
  BY <1>1, TaskFacts, WorkerFacts DEF TaskRow, TaskStatus
<1>3. /\ tasks' = [tasks EXCEPT ![t] = row] /\ WGoto(w, "mark_read")
      /\ UNCHANGED <<session, stream, nextID, dead, req, plans, dropped, faults>>
  BY DEF Begin
<1> HIDE DEF row
<1> QED  BY <1>1, <1>2, <1>3, WorkerUpdates DEF WorkerPC, Producing

LEMMA MarkReadInv == ASSUME Inv, NEW w \in Workers, MarkRead(w) PROVE Inv'
  BY WLoadInv DEF MarkRead, WAt, Working, WorkerPC, Producing

LEMMA MarkWriteInv == ASSUME Inv, NEW w \in Workers, MarkWrite(w) PROVE Inv'
<1> DEFINE s == [wrk[w].s EXCEPT !.st = ProcessingStatus(WTask(w).type)]
<1>1. s \in Snapshot /\ HasResult(s) /\ s.st # "absent"
  <2>1. ProcessingStatus(WTask(w).type) \in SessionStatus \ {"absent", "plan_generated", "code_generated"}
    BY DEF ProcessingStatus, SessionStatus
  <2> QED  BY <2>1, WorkerFacts, StatusFits
<1>2. WSave(w, s, "engine") /\ wrk[w].pc \in Working
  BY DEF MarkWrite, WAt, Working, WorkerPC
<1> HIDE DEF s
<1> QED  BY <1>1, <1>2, WSaveInv DEF WorkerPC, Producing

(* A code generation has the plan of its job for a result, any other run a *)
(* new plan.                                                               *)
LEMMA EngineOKInv == ASSUME Inv, NEW w \in Workers, EngineOK(w) PROVE Inv'
<1> DEFINE out == IF WTask(w).type = "code_generation" THEN wrk[w].plan ELSE plans + 1
           r == [wrk[w] EXCEPT !.pc = "done_task", !.out = out]
<1>1. /\ wrk[w].pc \in Working /\ plans \in Nat
      /\ UNCHANGED <<session, tasks, stream, nextID, dead, req, dropped, faults>>
      /\ WBecome(w, r)
      /\ plans' = plans \/ plans' = plans + 1
  BY DEF EngineOK, WAt, Working, WorkerPC, Inv, Counters
<1>2. out \in Nat /\ out # NoPlan
  BY <1>1, WorkingFacts, WorkerFacts DEF WTask, IsCode, NoPlan
<1> HIDE DEF out
<1>3. /\ r \in WorkerState /\ r.pc = "done_task" /\ r.s = wrk[w].s /\ r.task = wrk[w].task
      /\ r.plan = wrk[w].plan /\ r.out = out
  BY <1>2, WorkerFacts DEF WorkerState, WorkerPC
<1> HIDE DEF r
<1>4. WorkerFits(r, tasks)
  BY <1>1, <1>2, <1>3, WorkingFacts, WorkerFacts DEF WorkerFits
<1>5. Grows /\ Counters' /\ WorkerFits(r, tasks')
  BY <1>1, <1>4, GrowsSame DEF Inv, Counters
<1> QED  BY <1>1, <1>5, WorkerMoves

LEMMA EngineErrorInv == ASSUME Inv, NEW w \in Workers, EngineError(w) PROVE Inv'
<1>1. PICK e \in {"temporary", "permanent"} : WBecome(w, [wrk[w] EXCEPT !.pc = "fail_task", !.err = e])
  BY DEF EngineError
<1> DEFINE r == [wrk[w] EXCEPT !.pc = "fail_task", !.err = e]
<1>2. wrk[w].pc \in Working /\ UNCHANGED <<session, tasks, stream, nextID, dead, req, plans, dropped, faults>>
  BY DEF EngineError, WAt, Working, WorkerPC, OnlyWrk
<1>3. /\ r \in WorkerState /\ r.pc = "fail_task" /\ r.s = wrk[w].s /\ r.task = wrk[w].task
      /\ r.plan = wrk[w].plan
  BY WorkerFacts DEF WorkerState, WorkerPC
<1>4. WBecome(w, r)
  BY <1>1
<1> HIDE DEF r
<1>5. WorkerFits(r, tasks)
  BY <1>2, <1>3, WorkingFacts, WorkerFacts DEF WorkerFits
<1>6. faults' \in Nat
  BY <1>2 DEF Inv, Counters
<1> QED  BY <1>2, <1>4, <1>5, <1>6, OnlyWorker

LEMMA DoneTaskInv == ASSUME Inv, NEW w \in Workers, DoneTask(w) PROVE Inv'
<1> DEFINE t == wrk[w].task
           row == [tasks[t] EXCEPT !.st = "completed", !.attempt = wrk[w].attempt, !.err = "none"]
<1>1. wrk[w].pc \in Working /\ wrk[w].pc \in Producing /\ t \in DOMAIN tasks
  BY WorkingFacts DEF DoneTask, WAt, Working, WorkerPC, Producing
<1>2. row \in TaskRow /\ row.type = tasks[t].type
  BY <1>1, TaskFacts, WorkerFacts DEF TaskRow, TaskStatus
<1>3. /\ tasks' = [tasks EXCEPT ![t] = row] /\ WGoto(w, "done_read")
      /\ UNCHANGED <<session, stream, nextID, dead, req, plans, dropped, faults>>
  BY DEF DoneTask
<1> HIDE DEF row
<1> QED  BY <1>1, <1>2, <1>3, WorkerUpdates DEF WorkerPC

LEMMA DoneReadInv == ASSUME Inv, NEW w \in Workers, DoneRead(w) PROVE Inv'
  BY WLoadInv DEF DoneRead, WAt, Working, WorkerPC, Producing

LEMMA DoneWriteInv == ASSUME Inv, NEW w \in Workers, DoneWrite(w) PROVE Inv'
<1> DEFINE code == [wrk[w].s EXCEPT !.st = "code_generated", !.files = wrk[w].out]
           plan == [wrk[w].s EXCEPT !.st = "plan_generated", !.plan = wrk[w].out, !.rev = @ + 1]
<1>1. wrk[w].pc \in Working /\ wrk[w].out \in Nat /\ wrk[w].out # NoPlan
  BY WorkingFacts, WorkerFacts DEF DoneWrite, WAt, Working, WorkerPC, Producing
<1>2. code \in Snapshot /\ HasResult(code) /\ code.st # "absent"
  <2>1. code \in Snapshot /\ code.st = "code_generated" /\ code.files = wrk[w].out
    BY <1>1, WorkerFacts DEF Snapshot, SessionStatus
  <2>2. wrk[w].out > NoFiles
    BY <1>1 DEF NoPlan, NoFiles
  <2> HIDE DEF code
  <2> QED  BY <2>1, <2>2 DEF HasResult
<1>3. plan \in Snapshot /\ HasResult(plan) /\ plan.st # "absent"
  <2>1. wrk[w].s.rev \in Nat /\ wrk[w].s.rev + 1 \in Nat /\ wrk[w].s.rev + 1 > 0
    BY WorkerFacts DEF Snapshot
  <2> QED  BY <1>1, <2>1, WorkerFacts DEF Snapshot, SessionStatus, HasResult
<1>4. WSave(w, code, "ack") \/ WSave(w, plan, "ack")
  BY DEF DoneWrite
<1> HIDE DEF code, plan
<1> QED  BY <1>1, <1>2, <1>3, <1>4, WSaveInv DEF WorkerPC, Producing

LEMMA WFailTaskInv == ASSUME Inv, NEW w \in Workers, WFailTask(w) PROVE Inv'
<1> DEFINE t == wrk[w].task
           row == [tasks[t] EXCEPT !.st = "failed", !.err = wrk[w].err]
<1>1. wrk[w].pc \in Working /\ t \in DOMAIN tasks
  BY WorkingFacts DEF WFailTask, WAt, Working, WorkerPC
<1>2. row \in TaskRow /\ row.type = tasks[t].type
  BY <1>1, TaskFacts, WorkerFacts DEF TaskRow, TaskStatus
<1>3. /\ tasks' = [tasks EXCEPT ![t] = row] /\ WGoto(w, "fail_read")
      /\ UNCHANGED <<session, stream, nextID, dead, req, plans, dropped, faults>>
  BY DEF WFailTask
<1> HIDE DEF row
<1> QED  BY <1>1, <1>2, <1>3, WorkerUpdates DEF WorkerPC, Producing

LEMMA WFailReadInv == ASSUME Inv, NEW w \in Workers, WFailRead(w) PROVE Inv'
  BY WLoadInv DEF WFailRead, WAt, Working, WorkerPC, Producing

LEMMA DecidedFits ==
  ASSUME Inv, NEW w \in Workers, wrk[w].pc \in Working
  PROVE  WorkerFits(Decided(wrk[w]), tasks)
<1>1. WorkerFits([wrk[w] EXCEPT !.pc = "retry_task", !.attempt = @ + 1, !.s = NoSnapshot], tasks)
  <2> DEFINE r == [wrk[w] EXCEPT !.pc = "retry_task", !.attempt = @ + 1, !.s = NoSnapshot]
  <2>1. wrk[w].attempt + 1 \in Nat
    BY WorkerFacts
  <2>2. /\ r \in WorkerState /\ r.pc = "retry_task" /\ r.s = NoSnapshot /\ r.task = wrk[w].task
        /\ r.plan = wrk[w].plan
    BY <2>1, WorkerFacts, NoSnapshotFits DEF WorkerState, WorkerPC
  <2> HIDE DEF r
  <2>3. WorkerFits(r, tasks)
    BY <2>2, WorkingFacts, NoSnapshotFits DEF WorkerFits
  <2> QED  BY <2>3 DEF r
<1>2. WorkerFits([wrk[w] EXCEPT !.pc = "dead", !.s = NoSnapshot], tasks)
  <2> DEFINE r == [wrk[w] EXCEPT !.pc = "dead", !.s = NoSnapshot]
  <2>1. /\ r \in WorkerState /\ r.pc = "dead" /\ r.s = NoSnapshot /\ r.task = wrk[w].task
        /\ r.plan = wrk[w].plan
    BY WorkerFacts, NoSnapshotFits DEF WorkerState, WorkerPC
  <2> HIDE DEF r
  <2>2. WorkerFits(r, tasks)
    BY <2>1, WorkingFacts, NoSnapshotFits DEF WorkerFits
  <2> QED  BY <2>2 DEF r
<1> QED  BY <1>1, <1>2 DEF Decided

LEMMA WFailWriteInv == ASSUME Inv, NEW w \in Workers, WFailWrite(w) PROVE Inv'
<1> DEFINE s == [wrk[w].s EXCEPT !.st = "failed"]
<1>1. s \in Snapshot /\ HasResult(s) /\ s.st # "absent"
  BY WorkerFacts, StatusFits DEF SessionStatus
<1>2. /\ Save(s) /\ WBecome(w, Decided(wrk[w])) /\ wrk[w].pc \in Working
      /\ UNCHANGED <<tasks, stream, nextID, dead, req, plans, dropped, faults>>
  BY DEF WFailWrite, WAt, Working, WorkerPC
<1> HIDE DEF s
<1> QED  BY <1>1, <1>2, DecidedFits, WorkerSaves

LEMMA RetryTaskInv == ASSUME Inv, NEW w \in Workers, RetryTask(w) PROVE Inv'
<1> DEFINE t == wrk[w].task
           row == [tasks[t] EXCEPT !.st = "queued", !.attempt = wrk[w].attempt]
<1>1. wrk[w].pc \in Working /\ t \in DOMAIN tasks
  BY WorkingFacts DEF RetryTask, WAt, Working, WorkerPC
<1>2. row \in TaskRow /\ row.type = tasks[t].type
  BY <1>1, TaskFacts, WorkerFacts DEF TaskRow, TaskStatus
<1>3. /\ tasks' = [tasks EXCEPT ![t] = row] /\ WGoto(w, "retry_read")
      /\ UNCHANGED <<session, stream, nextID, dead, req, plans, dropped, faults>>
  BY DEF RetryTask
<1> HIDE DEF row
<1> QED  BY <1>1, <1>2, <1>3, WorkerUpdates DEF WorkerPC, Producing

LEMMA RetryTaskReadInv == ASSUME Inv, NEW w \in Workers, RetryTaskRead(w) PROVE Inv'
  BY WLoadInv DEF RetryTaskRead, WAt, Working, WorkerPC, Producing

LEMMA RetryTaskWriteInv == ASSUME Inv, NEW w \in Workers, RetryTaskWrite(w) PROVE Inv'
<1> DEFINE s == [wrk[w].s EXCEPT !.st = QueuedStatus(WTask(w).type)]
<1>1. s \in Snapshot /\ HasResult(s) /\ s.st # "absent"
  <2>1. QueuedStatus(WTask(w).type) \in SessionStatus \ {"absent", "plan_generated", "code_generated"}
    BY DEF QueuedStatus, SessionStatus
  <2> QED  BY <2>1, WorkerFacts, StatusFits
<1>2. WSave(w, s, "republish") /\ wrk[w].pc \in Working
  BY DEF RetryTaskWrite, WAt, Working, WorkerPC
<1> HIDE DEF s
<1> QED  BY <1>1, <1>2, WSaveInv DEF WorkerPC, Producing

(* The next attempt carries the plan of the job it repeats.                *)
LEMMA RepublishInv == ASSUME Inv, NEW w \in Workers, Republish(w) PROVE Inv'
<1> DEFINE e == [id |-> nextID, st |-> "new", task |-> wrk[w].task, attempt |-> wrk[w].attempt,
                 plan |-> wrk[w].plan, fb |-> wrk[w].fb]
           r == [wrk[w] EXCEPT !.pc = "dead"]
<1>1. /\ wrk[w].task \in DOMAIN tasks /\ (IsCode(tasks, wrk[w].task) => wrk[w].plan # NoPlan)
      /\ nextID \in Nat
  BY WorkingFacts DEF Republish, WAt, Working, WorkerPC, Inv, Counters
<1>2. EntryFits(e, tasks)
  BY <1>1, WorkerFacts DEF EntryFits, Entry
<1>3. UNCHANGED <<session, tasks, dead, req, plans, dropped>> /\ faults' \in Nat
  BY DEF Republish, Fault, Inv, Counters
<1>4. /\ stream' = stream \/ stream' = stream \cup {e}
      /\ nextID' = nextID \/ nextID' = nextID + 1
  BY DEF Republish, Add
<1>5. WBecome(w, Settled(wrk[w])) \/ WBecome(w, r)
  BY DEF Republish, WSettle, WGoto
<1>6. r \in WorkerState /\ r.pc = "dead" /\ r.s = wrk[w].s /\ r.task = wrk[w].task /\ r.plan = wrk[w].plan
  BY WorkerFacts DEF WorkerState, WorkerPC
<1> HIDE DEF e, r
<1>7. WorkerFits(r, tasks')
  BY <1>1, <1>3, <1>6, WorkerFacts DEF WorkerFits
<1>8. Grows /\ Counters'
  BY <1>1, <1>3, <1>4, GrowsSame DEF Inv, Counters
<1>9. \A m \in stream' : m \in stream \/ EntryFits(m, tasks')
  BY <1>2, <1>3, <1>4
<1> QED  BY <1>3, <1>5, <1>7, <1>8, <1>9, SettledFits, WorkerMoves

LEMMA DeadLetterInv == ASSUME Inv, NEW w \in Workers, DeadLetter(w) PROVE Inv'
<1>1. /\ dead' = dead \cup {[task |-> wrk[w].task, attempt |-> wrk[w].attempt]}
      /\ WBecome(w, Settled(wrk[w]))
      /\ UNCHANGED <<session, tasks, stream, nextID, req, plans, dropped, faults>>
  BY DEF DeadLetter, WSettle
<1>2. Grows /\ Counters'
  BY <1>1, WorkerFacts, GrowsSame DEF Inv, Counters
<1> QED  BY <1>1, <1>2, SettledFits, WorkerMoves

LEMMA AckInv == ASSUME Inv, NEW w \in Workers, Ack(w) PROVE Inv'
<1>1. /\ stream' \subseteq stream /\ WBecome(w, Waiting)
      /\ UNCHANGED <<session, tasks, nextID, dead, req, plans, dropped, faults>>
  BY DEF Ack, Drop
<1>2. Grows /\ Counters'
  BY <1>1, GrowsSame, CountersSame
<1> QED  BY <1>1, <1>2, WaitingFits, WorkerMoves

LEMMA WErrorInv == ASSUME Inv, NEW w \in Workers, WError(w) PROVE Inv'
<1>1. UNCHANGED <<session, tasks, stream, nextID, dead, req, plans, dropped>> /\ faults' \in Nat
  BY DEF WError, Fault, Inv, Counters
<1>2. CASE /\ wrk[w].pc \in {"begin", "mark_read", "mark_write", "done_task", "done_read",
                             "done_write", "retry_task", "retry_read", "retry_write"}
           /\ WBecome(w, [wrk[w] EXCEPT !.pc = "dead", !.s = NoSnapshot])
  <2> DEFINE r == [wrk[w] EXCEPT !.pc = "dead", !.s = NoSnapshot]
  <2>1. wrk[w].pc \in Working
    BY <1>2 DEF Working, WorkerPC
  <2>2. /\ r \in WorkerState /\ r.pc = "dead" /\ r.s = NoSnapshot /\ r.task = wrk[w].task
        /\ r.plan = wrk[w].plan
    BY WorkerFacts, NoSnapshotFits DEF WorkerState, WorkerPC
  <2>3. WBecome(w, r)
    BY <1>2
  <2> HIDE DEF r
  <2>4. WorkerFits(r, tasks)
    BY <2>1, <2>2, WorkingFacts, NoSnapshotFits DEF WorkerFits
  <2> QED  BY <1>1, <2>3, <2>4, OnlyWorker
<1>3. CASE /\ wrk[w].pc \in {"fail_task", "fail_read", "fail_write"}
           /\ WBecome(w, Decided(wrk[w]))
  <2>1. wrk[w].pc \in Working
    BY <1>3 DEF Working, WorkerPC
  <2> QED  BY <1>1, <1>3, <2>1, DecidedFits, OnlyWorker
<1>4. CASE Drop(w)
  BY <1>1, <1>4, DropInv
<1> QED  BY <1>2, <1>3, <1>4 DEF WError

LEMMA WCrashInv == ASSUME Inv, NEW w \in Workers, WCrash(w) PROVE Inv'
<1>1. /\ UNCHANGED <<session, tasks, stream, nextID, dead, req, plans, dropped>> /\ faults' \in Nat
      /\ Drop(w)
  BY DEF WCrash, Fault, Inv, Counters
<1> QED  BY <1>1, DropInv

-----------------------------------------------------------------------------
(* The invariant *)

LEMMA InitInv == Init => Inv
<1> SUFFICES ASSUME Init PROVE Inv
  OBVIOUS
<1>1. StoreFits(session, tasks)
  <2>1. session \in SessionRow /\ HasResult(session) /\ session.plan = NoPlan /\ session.files = NoContract
    BY DEF Init, SessionRow, SessionStatus, HasResult, NoPlan, NoContract
  <2>2. tasks \in Seq(TaskRow) /\ DOMAIN tasks = {}
    BY DEF Init
  <2> QED  BY <2>1, <2>2 DEF StoreFits
<1>2. Counters
  BY DEF Init, Counters
<1>3. req \in [Handlers -> HandlerState] /\ \A h \in Handlers : RequestFits(req[h], tasks, session.plan)
  BY IdleFits DEF Init
<1>4. wrk \in [Workers -> WorkerState] /\ \A w \in Workers : WorkerFits(wrk[w], tasks)
  BY WaitingFits DEF Init
<1>5. \A m \in stream : EntryFits(m, tasks)
  BY DEF Init
<1> QED  BY <1>1, <1>2, <1>3, <1>4, <1>5 DEF Inv

LEMMA StutterInv == ASSUME Inv, UNCHANGED vars PROVE Inv'
  BY DEF Inv, vars, Counters

LEMMA StepInv == ASSUME Inv, [Next]_vars PROVE Inv'
<1>1. ASSUME NEW h \in Handlers, Request(h) PROVE Inv'
  BY <1>1, AnalyzeInv, CorrectInv, ApproveInv, RejectInv, RetryInv, ApplyInv DEF Request
<1>2. ASSUME NEW h \in Handlers, HandlerStep(h) PROVE Inv'
  BY <1>2, AnalyzeLatestInv, AnalyzeCreateInv, CorrectWriteInv, CorrectCreateInv, ApproveEditInv,
     ApproveWriteInv, ApproveCreateInv, ApproveQueueInv, RejectWriteInv, RetryReadInv, RetryCreateInv,
     RetryWriteInv, ApplyWriteInv, PublishInv, FailTaskInv, FailReadInv, FailWriteInv DEF HandlerStep
<1>3. ASSUME NEW h \in Handlers, Abort(h) PROVE Inv'
  BY <1>3, AbortInv
<1>4. ASSUME NEW w \in Workers, WorkerStep(w) PROVE Inv'
  BY <1>4, ReadInv, ClaimInv, BeginInv, MarkReadInv, MarkWriteInv, EngineOKInv, EngineErrorInv,
     DoneTaskInv, DoneReadInv, DoneWriteInv, WFailTaskInv, WFailReadInv, WFailWriteInv, RetryTaskInv,
     RetryTaskReadInv, RetryTaskWriteInv, RepublishInv, DeadLetterInv, AckInv DEF WorkerStep
<1>5. ASSUME NEW w \in Workers, WError(w) \/ WCrash(w) PROVE Inv'
  BY <1>5, WErrorInv, WCrashInv
<1> QED  BY <1>1, <1>2, <1>3, <1>4, <1>5, StutterInv DEF Next

(* Every reachable state has the invariant: rows, copies and jobs agree on *)
(* which plan there is.                                                    *)
THEOREM Invariant == Spec => []Inv
  BY InitInv, StepInv, PTL DEF Spec

(* Rows, the copies that requests and workers hold, stream entries and     *)
(* dead letters keep their types: no step of workflow.go or of the worker  *)
(* loop makes a status that domain.go:5-25 does not list.                  *)
THEOREM Types == Spec => []TypeOK
<1>1. Inv => TypeOK
  BY DEF Inv, TypeOK, StoreFits, Counters, EntryFits
<1> QED  BY <1>1, Invariant, PTL

(* However stale the copies are that requests and workers write back       *)
(* (postgres.go:265-348), a session that says plan_generated has a plan of *)
(* a numbered revision.                                                    *)
THEOREM PlansAreReady == Spec => []PlanReady
<1>1. Inv => PlanReady
  BY DEF Inv, PlanReady, StoreFits, HasResult
<1> QED  BY <1>1, Invariant, PTL

(* A session that says code_generated has files generated from a plan: no  *)
(* worker finishes a code generation that was queued without one, and no   *)
(* late write empties the contract under that status.                      *)
THEOREM CodeIsReady == Spec => []CodeReady
<1>1. Inv => CodeReady
  BY DEF Inv, CodeReady, StoreFits, HasResult
<1> QED  BY <1>1, Invariant, PTL

=============================================================================
