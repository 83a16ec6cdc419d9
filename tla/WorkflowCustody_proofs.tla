----------------------- MODULE WorkflowCustody_proofs -----------------------
(***************************************************************************)
(* Nothing the user waits for is lost, for any number of requests, workers *)
(* and tasks: unless something was visibly dropped or dead-lettered, a     *)
(* task row under way has someone who carries it, and so has a session     *)
(* that says work is under way.                                            *)
(*                                                                         *)
(* The argument: an entry is in the stream until the one worker that was   *)
(* given it acknowledges it, so that a worker that crashes leaves its work *)
(* there; and whoever stops carrying a task has just settled it, or hands  *)
(* it to the next carrier in the same step.                                *)
(***************************************************************************)
EXTENDS Workflow_proofs

(* A request that holds a task it will publish or fail.                    *)
Handing == {"approve_queue", "retry_write", "publish", "fail_task"}
(* A worker that has written that its task is completed: the entry it was  *)
(* given will not be executed by it any more.                              *)
Past == {"done_read", "done_write", "ack"}
Carrying(pc) == pc \notin Past \cup {"idle"}

Untouched(m) == \A w \in Workers : ~(wrk[w].pc \in Past /\ wrk[w].msg = m.id)

Covered(t) ==
    \/ \E h \in Handlers : req[h].pc \in Handing /\ req[h].task = t
    \/ \E w \in Workers : Carrying(wrk[w].pc) /\ wrk[w].task = t
    \/ \E m \in stream : m.task = t /\ Untouched(m)
    \/ \E d \in dead : d.task = t

SessionCovered ==
    \/ \E h \in Handlers : Owing(h)
    \/ \E w \in Workers : Busy(w)
    \/ \E m \in stream : Unsettled(m)
    \/ dead # {}

(* Entries have ids of their own, and every worker at work has an entry of *)
(* the stream to itself.                                                   *)
Given(w) ==
    wrk[w].pc # "idle" =>
        \E m \in stream : /\ m.id = wrk[w].msg /\ m.st = "pending"
                          /\ wrk[w].pc # "ack" => m.task = wrk[w].task
Apart ==
    \A v, w \in Workers :
        wrk[v].pc # "idle" /\ wrk[w].pc # "idle" /\ wrk[v].msg = wrk[w].msg => v = w
Numbered ==
    /\ \A m \in stream : m.id < nextID
    /\ \A m, n \in stream : m.id = n.id => m = n

(* Who is about to save an edited plan read a session that had one.        *)
Editing == \A h \in Handlers : req[h].pc = "approve_edit" => req[h].s.st = "plan_generated"

Custody ==
    /\ Numbered /\ Apart /\ Editing /\ \A w \in Workers : Given(w)
    /\ \A t \in UnderWay : Covered(t)
    /\ session.st \in Transient => SessionCovered

Kept == dropped = {} => Custody

-----------------------------------------------------------------------------
(* Lemmas about one step *)

LEMMA ReqMoves ==
  ASSUME Inv, NEW h \in Handlers, NEW r, Become(h, r)
  PROVE  req'[h] = r /\ \A g \in Handlers : g # h => req'[g] = req[g]
  BY DEF Inv, Become

LEMMA WrkMoves ==
  ASSUME Inv, NEW w \in Workers, NEW r, WBecome(w, r)
  PROVE  wrk'[w] = r /\ \A v \in Workers : v # w => wrk'[v] = wrk[v]
  BY DEF Inv, WBecome

LEMMA IDs == ASSUME Inv PROVE nextID \in Nat /\ \A m \in stream : m.id \in Nat
  BY DEF Inv, Counters, EntryFits, Entry

LEMMA PCs ==
  ASSUME Inv
  PROVE  /\ \A h \in Handlers : req[h].pc \in HandlerPC
         /\ \A w \in Workers : wrk[w].pc \in WorkerPC /\ wrk[w].msg \in Nat
  BY DEF Inv, HandlerState, WorkerState

(* A request moves, with the stream as it is.  What it carried it carries  *)
(* on or has settled; what it starts it carries; and it owes what it made  *)
(* the session promise.                                                    *)
LEMMA RequestGoesOn ==
  ASSUME Inv, Custody, NEW h \in Handlers, NEW r, Become(h, r),
         UNCHANGED <<stream, nextID, wrk, dead>>,
         \A t \in UnderWay' : t \in UnderWay \/ (r.pc \in Handing /\ r.task = t),
         req[h].pc \in Handing => \/ r.pc \in Handing /\ r.task = req[h].task
                                  \/ req[h].task \notin UnderWay',
         r.pc = "approve_edit" => r.s.st = "plan_generated",
         session'.st \in Transient => \/ Owing(h)'
                                      \/ session.st \in Transient /\ ~Owing(h)
  PROVE  Custody'
<1>1. req'[h] = r /\ \A g \in Handlers : g # h => req'[g] = req[g]
  BY ReqMoves
<1>2. Numbered' /\ Apart' /\ Editing' /\ \A w \in Workers : Given(w)'
  BY <1>1 DEF Custody, Numbered, Apart, Editing, Given
<1>3. ASSUME NEW t \in UnderWay' PROVE Covered(t)'
  <2>1. CASE r.pc \in Handing /\ r.task = t
    BY <1>1, <2>1 DEF Covered
  <2>2. CASE ~(r.pc \in Handing /\ r.task = t)
    <3>1. t \in UnderWay /\ Covered(t) /\ ~(req[h].pc \in Handing /\ req[h].task = t)
      BY <1>3, <2>2 DEF Custody
    <3>2. CASE \E g \in Handlers : req[g].pc \in Handing /\ req[g].task = t
      BY <1>1, <3>1, <3>2 DEF Covered
    <3>3. CASE \E w \in Workers : Carrying(wrk[w].pc) /\ wrk[w].task = t
      BY <3>3 DEF Covered
    <3>4. CASE \E m \in stream : m.task = t /\ Untouched(m)
      BY <3>4 DEF Covered, Untouched
    <3>5. CASE \E d \in dead : d.task = t
      BY <3>5 DEF Covered
    <3> QED  BY <3>1, <3>2, <3>3, <3>4, <3>5 DEF Covered
  <2> QED  BY <2>1, <2>2
<1>4. ASSUME session'.st \in Transient PROVE SessionCovered'
  <2>1. CASE Owing(h)'
    BY <2>1 DEF SessionCovered
  <2>2. CASE session.st \in Transient /\ ~Owing(h)
    <3>1. SessionCovered
      BY <2>2 DEF Custody
    <3>2. CASE \E g \in Handlers : Owing(g)
      BY <1>1, <2>2, <3>2 DEF SessionCovered, Owing
    <3>3. CASE \E w \in Workers : Busy(w)
      BY <3>3 DEF SessionCovered, Busy
    <3>4. CASE \E m \in stream : Unsettled(m)
      BY <3>4 DEF SessionCovered, Unsettled, WAt
    <3>5. CASE dead # {}
      BY <3>5 DEF SessionCovered
    <3> QED  BY <3>1, <3>2, <3>3, <3>4, <3>5 DEF SessionCovered
  <2> QED  BY <1>4, <2>1, <2>2
<1> QED  BY <1>2, <1>3, <1>4 DEF Custody

(* An entry is added for a task: it is nobody's yet, and covers the task   *)
(* and the session.                                                        *)
LEMMA EntryAdded ==
  ASSUME Inv, Numbered, Apart, \A w \in Workers : Given(w),
         NEW task, NEW attempt, NEW plan, NEW fb, Add(task, attempt, plan, fb),
         \A w \in Workers : wrk'[w].pc # "idle" => /\ wrk'[w].msg = wrk[w].msg /\ wrk[w].pc # "idle"
                                                   /\ wrk'[w].pc # "ack" => /\ wrk[w].pc # "ack"
                                                                            /\ wrk'[w].task = wrk[w].task
  PROVE  /\ Numbered' /\ Apart' /\ \A w \in Workers : Given(w)'
         /\ stream \subseteq stream' /\ Covered(task)' /\ SessionCovered'
<1> DEFINE e == [id |-> nextID, st |-> "new", task |-> task, attempt |-> attempt,
                 plan |-> plan, fb |-> fb]
<1>1. stream' = stream \cup {e} /\ nextID' = nextID + 1 /\ e.id = nextID /\ e.task = task
  BY DEF Add
<1> HIDE DEF e
<1>2. Numbered'
  BY <1>1, IDs DEF Numbered
<1>3. Apart'
  BY DEF Apart
<1>4. ASSUME NEW w \in Workers PROVE Given(w)'
  BY <1>1 DEF Given
<1>5. ASSUME NEW w \in Workers, wrk'[w].pc # "idle" PROVE wrk'[w].msg # e.id
  <2>1. PICK m \in stream : m.id = wrk[w].msg
    BY <1>5 DEF Given
  <2> QED  BY <1>1, <1>5, <2>1, IDs DEF Numbered
<1>6. Covered(task)'
  BY <1>1, <1>5 DEF Covered, Untouched, Past
<1>7. SessionCovered'
  BY <1>1, <1>5 DEF SessionCovered, Unsettled, WAt
<1> QED  BY <1>1, <1>2, <1>3, <1>4, <1>6, <1>7

(* A worker moves and keeps its entry and task.                            *)
LEMMA WorkerGoesOn ==
  ASSUME Inv, Custody, NEW w \in Workers, NEW r, WBecome(w, r),
         UNCHANGED <<stream, nextID, req, dead>>,
         wrk[w].pc \notin {"idle", "ack"}, r.pc \notin {"idle", "ack"},
         r.msg = wrk[w].msg, r.task = wrk[w].task,
         \A t \in UnderWay' : t \in UnderWay \/ (Carrying(r.pc) /\ r.task = t),
         Carrying(r.pc) \/ wrk[w].pc \in Past \/ r.task \notin UnderWay'
  PROVE  Custody'
<1>1. wrk'[w] = r /\ \A v \in Workers : v # w => wrk'[v] = wrk[v]
  BY WrkMoves
<1>2. Numbered'
  BY DEF Custody, Numbered
<1>3. Apart' /\ Editing'
  BY <1>1 DEF Custody, Apart, Editing
<1>4. ASSUME NEW v \in Workers PROVE Given(v)'
  BY <1>1 DEF Custody, Given
<1>5. SessionCovered'
  BY <1>1 DEF SessionCovered, Busy
<1>6. ASSUME NEW t \in UnderWay' PROVE Covered(t)'
  <2>1. CASE Carrying(r.pc) /\ r.task = t
    BY <1>1, <2>1 DEF Covered
  <2>2. CASE ~(Carrying(r.pc) /\ r.task = t)
    <3>1. t \in UnderWay /\ Covered(t)
      BY <1>6, <2>2 DEF Custody
    <3>2. CASE \E h \in Handlers : req[h].pc \in Handing /\ req[h].task = t
      BY <3>2 DEF Covered
    <3>3. CASE \E v \in Workers : Carrying(wrk[v].pc) /\ wrk[v].task = t
      <4>1. PICK v \in Workers : Carrying(wrk[v].pc) /\ wrk[v].task = t
        BY <3>3
      <4>2. v # w
        BY <1>6, <2>2, <4>1 DEF Carrying
      <4> QED  BY <1>1, <4>1, <4>2 DEF Covered
    <3>4. CASE \E m \in stream : m.task = t /\ Untouched(m)
      <4>1. PICK m \in stream : m.task = t /\ Untouched(m)
        BY <3>4
      <4>2. CASE Carrying(r.pc) \/ wrk[w].pc \in Past \/ m.id # wrk[w].msg
        <5>1. Untouched(m)'
          BY <1>1, <4>1, <4>2 DEF Untouched, Carrying
        <5> QED  BY <4>1, <5>1 DEF Covered
      <4>3. CASE r.task \notin UnderWay' /\ m.id = wrk[w].msg
        BY <1>6, <4>1, <4>3 DEF Custody, Given, Numbered
      <4> QED  BY <4>2, <4>3
    <3>5. CASE \E d \in dead : d.task = t
      BY <3>5 DEF Covered
    <3> QED  BY <3>1, <3>2, <3>3, <3>4, <3>5 DEF Covered
  <2> QED  BY <2>1, <2>2
<1> QED  BY <1>2, <1>3, <1>4, <1>5, <1>6 DEF Custody

LEMMA UnderWaySame == ASSUME UNCHANGED tasks PROVE UnderWay' = UnderWay
  BY DEF UnderWay

LEMMA UnderWayCreate ==
  ASSUME Inv, NEW type \in TaskType, NEW attempt \in Nat, CreateTask(type, attempt)
  PROVE  \A t \in UnderWay' : t \in UnderWay \/ t = Len(tasks) + 1
<1> DEFINE row == [type |-> type, st |-> "queued", attempt |-> attempt, err |-> "none"]
<1>1. row \in TaskRow /\ tasks \in Seq(TaskRow) /\ tasks' = Append(tasks, row)
  BY DEF TaskRow, TaskStatus, CreateTask, Inv, StoreFits
<1> HIDE DEF row
<1>2. /\ DOMAIN tasks' = 1..(Len(tasks) + 1) /\ DOMAIN tasks = 1..Len(tasks) /\ Len(tasks) \in Nat
      /\ \A t \in 1..Len(tasks) : tasks'[t] = tasks[t]
  BY <1>1
<1> QED  BY <1>2 DEF UnderWay

LEMMA UnderWayUpdate ==
  ASSUME Inv, NEW u \in DOMAIN tasks, NEW row, tasks' = [tasks EXCEPT ![u] = row]
  PROVE  /\ \A t \in UnderWay' : t \in UnderWay \/ t = u
         /\ row.st \notin {"queued", "processing"} => u \notin UnderWay'
<1>1. tasks \in Seq(TaskRow)
  BY DEF Inv, StoreFits
<1>2. DOMAIN tasks' = DOMAIN tasks /\ tasks'[u] = row /\ \A t \in DOMAIN tasks : t # u => tasks'[t] = tasks[t]
  BY <1>1
<1> QED  BY <1>2 DEF UnderWay

-----------------------------------------------------------------------------
(* Requests *)

(* A request that only goes on, without a task to hand over.               *)
LEMMA QuietRequest ==
  ASSUME Inv, Custody, NEW h \in Handlers, NEW r, Become(h, r), OnlyReq,
         req[h].pc \notin Handing,
         r.pc = "approve_edit" => r.s.st = "plan_generated",
         session.st \in Transient => Owing(h)' \/ ~Owing(h)
  PROVE  Custody'
  BY RequestGoesOn, UnderWaySame DEF OnlyReq

LEMMA BecomeFields ==
  ASSUME Inv, NEW h \in Handlers, NEW pc, NEW s, Goto(h, pc, s)
  PROVE  req'[h].pc = pc /\ req'[h].s = s /\ req'[h].task = req[h].task
<1>1. req'[h] = [req[h] EXCEPT !.pc = pc, !.s = s]
  BY ReqMoves DEF Goto
<1> QED  BY <1>1, RequestFacts DEF HandlerState

(* Goto, of a request that does not have a task to hand over yet.          *)
LEMMA GotoKept ==
  ASSUME Inv, Custody, NEW h \in Handlers, NEW pc, NEW s, Goto(h, pc, s),
         UNCHANGED <<tasks, stream, nextID, wrk, dead>>, req[h].pc \notin Handing,
         pc = "approve_edit" => s.st = "plan_generated",
         session'.st \in Transient => Owing(h)' \/ (session.st \in Transient /\ ~Owing(h))
  PROVE  Custody'
<1> DEFINE r == [req[h] EXCEPT !.pc = pc, !.s = s]
<1>1. Become(h, r) /\ r = req'[h]
  BY ReqMoves DEF Goto
<1> HIDE DEF r
<1>2. r.pc = pc /\ r.s = s
  BY <1>1, BecomeFields
<1> QED  BY <1>1, <1>2, RequestGoesOn, UnderWaySame

LEMMA ReturnKept ==
  ASSUME Inv, Custody, NEW h \in Handlers, Return(h), UNCHANGED <<tasks, stream, nextID, wrk, dead>>,
         req[h].pc \notin Handing, session'.st \in Transient => session.st \in Transient /\ ~Owing(h)
  PROVE  Custody'
  BY RequestGoesOn, UnderWaySame DEF Return, Idle

(* What a saved copy makes of the session's status.                        *)
LEMMA SavedStatus ==
  ASSUME NEW s, Save(s) PROVE session'.st = s.st
  BY DEF Save

LEMMA AnalyzeKept == ASSUME Inv, Custody, NEW h \in Handlers, Analyze(h) PROVE Custody'
<1>1. req[h].pc \notin Handing /\ ~Owing(h) /\ UNCHANGED <<tasks, stream, nextID, wrk, dead>>
  BY DEF Analyze, At, Handing, Owing, OnlySession
<1>2. CASE session.st = "absent"
  <2>1. PICK s : Goto(h, "analyze_create", s)
    BY <1>2 DEF Analyze
  <2>2. Owing(h)'
    BY <2>1, BecomeFields DEF Owing
  <2> QED  BY <1>1, <2>1, <2>2, GotoKept
<1>3. CASE session.st # "absent"
  BY <1>1, <1>3, GotoKept DEF Analyze
<1> QED  BY <1>2, <1>3

LEMMA AnalyzeLatestKept == ASSUME Inv, Custody, NEW h \in Handlers, AnalyzeLatest(h) PROVE Custody'
<1>1. req[h].pc \notin Handing /\ ~Owing(h) /\ UNCHANGED <<session, tasks, stream, nextID, wrk, dead>>
  BY DEF AnalyzeLatest, At, Handing, Owing, OnlyReq
<1>2. CASE Goto(h, "analyze_create", req[h].s)
  BY <1>1, <1>2, GotoKept
<1>3. CASE Return(h)
  BY <1>1, <1>3, ReturnKept
<1> QED  BY <1>2, <1>3 DEF AnalyzeLatest

(* A new task is carried by the request that created it.                   *)
LEMMA CreateKept ==
  ASSUME Inv, Custody, NEW h \in Handlers, NEW type \in TaskType, NEW attempt \in Nat,
         CreateTask(type, attempt), UNCHANGED <<session, stream, nextID, wrk, dead>>,
         NEW r, Become(h, r), r.pc \in Handing, r.task = Len(tasks) + 1, req[h].pc \notin Handing,
         Owing(h) => Owing(h)'
  PROVE  Custody'
<1>1. r.pc # "approve_edit"
  BY DEF Handing
<1>2. \A t \in UnderWay' : t \in UnderWay \/ (r.pc \in Handing /\ r.task = t)
  BY UnderWayCreate
<1> QED  BY <1>1, <1>2, RequestGoesOn

LEMMA DispatchFields ==
  ASSUME Inv, NEW h \in Handlers, NEW task, NEW attempt, NEW plan, NEW fb, Dispatch(h, task, attempt, plan, fb)
  PROVE  \E r : Become(h, r) /\ r.pc = "publish" /\ r.task = task /\ Owing(h)'
<1> DEFINE r == [Idle EXCEPT !.pc = "publish", !.task = task, !.attempt = attempt, !.plan = plan, !.fb = fb]
<1>1. Become(h, r) /\ r.pc = "publish" /\ r.task = task
  BY DEF Dispatch, Idle
<1>2. Owing(h)'
  BY <1>1, ReqMoves DEF Owing
<1> QED  BY <1>1, <1>2

LEMMA AnalyzeCreateKept == ASSUME Inv, Custody, NEW h \in Handlers, AnalyzeCreate(h) PROVE Custody'
<1>1. PICK r : Become(h, r) /\ r.pc = "publish" /\ r.task = Len(tasks) + 1 /\ Owing(h)'
  BY DispatchFields DEF AnalyzeCreate
<1>2. /\ CreateTask("initial_plan", 1) /\ UNCHANGED <<session, stream, nextID, wrk, dead>>
      /\ req[h].pc \notin Handing
  BY DEF AnalyzeCreate, At, Handing, OnlyTasks
<1>3. "initial_plan" \in TaskType /\ r.pc \in Handing
  BY <1>1 DEF TaskType, Handing
<1> QED  BY <1>1, <1>2, <1>3, CreateKept

LEMMA CorrectKept == ASSUME Inv, Custody, NEW h \in Handlers, Correct(h) PROVE Custody'
<1>1. /\ Goto(h, "correct_write", Load) /\ UNCHANGED <<session, tasks, stream, nextID, wrk, dead>>
      /\ req[h].pc \notin Handing /\ ~Owing(h)
  BY DEF Correct, At, Handing, Owing, OnlyReq
<1> QED  BY <1>1, GotoKept

LEMMA CorrectWriteKept == ASSUME Inv, Custody, NEW h \in Handlers, CorrectWrite(h) PROVE Custody'
<1>1. PICK s : /\ Goto(h, "correct_create", s) /\ UNCHANGED <<tasks, stream, nextID, wrk, dead>>
               /\ req[h].pc \notin Handing
  BY DEF CorrectWrite, At, Handing, OnlySession
<1>2. Owing(h)'
  BY <1>1, BecomeFields DEF Owing
<1> QED  BY <1>1, <1>2, GotoKept

LEMMA CorrectCreateKept == ASSUME Inv, Custody, NEW h \in Handlers, CorrectCreate(h) PROVE Custody'
<1>1. PICK r : Become(h, r) /\ r.pc = "publish" /\ r.task = Len(tasks) + 1 /\ Owing(h)'
  BY DispatchFields DEF CorrectCreate
<1>2. /\ CreateTask("plan_revision", 1) /\ UNCHANGED <<session, stream, nextID, wrk, dead>>
      /\ req[h].pc \notin Handing
  BY DEF CorrectCreate, At, Handing, OnlyTasks
<1>3. "plan_revision" \in TaskType /\ r.pc \in Handing
  BY <1>1 DEF TaskType, Handing
<1> QED  BY <1>1, <1>2, <1>3, CreateKept

LEMMA ApproveKept == ASSUME Inv, Custody, NEW h \in Handlers, Approve(h) PROVE Custody'
<1>1. /\ session.st = "plan_generated" /\ req[h].pc \notin Handing /\ ~Owing(h)
      /\ UNCHANGED <<session, tasks, stream, nextID, wrk, dead>>
  BY DEF Approve, At, Handing, Owing
<1>2. CASE Goto(h, "approve_write", Load)
  BY <1>1, <1>2, GotoKept
<1>3. CASE Goto(h, "approve_edit", [Load EXCEPT !.plan = plans + 1, !.rev = @ + 1])
  <2> DEFINE s == [Load EXCEPT !.plan = plans + 1, !.rev = @ + 1]
  <2>1. s.st = "plan_generated"
    BY <1>1 DEF Load
  <2> HIDE DEF s
  <2>2. Goto(h, "approve_edit", s)
    BY <1>3 DEF s
  <2> QED  BY <1>1, <2>1, <2>2, GotoKept
<1> QED  BY <1>2, <1>3 DEF Approve

LEMMA ApproveEditKept == ASSUME Inv, Custody, NEW h \in Handlers, ApproveEdit(h) PROVE Custody'
<1>1. /\ Save(req[h].s) /\ Goto(h, "approve_write", req[h].s) /\ req[h].pc = "approve_edit"
      /\ UNCHANGED <<tasks, stream, nextID, wrk, dead>>
  BY DEF ApproveEdit, At, OnlySession
<1>2. session'.st = "plan_generated"
  BY <1>1, SavedStatus DEF Custody, Editing
<1>3. session'.st \notin Transient /\ req[h].pc \notin Handing
  BY <1>1, <1>2 DEF Transient, Handing
<1> QED  BY <1>1, <1>3, GotoKept

LEMMA ApproveWriteKept == ASSUME Inv, Custody, NEW h \in Handlers, ApproveWrite(h) PROVE Custody'
<1>1. PICK s : /\ Goto(h, "approve_create", s) /\ UNCHANGED <<tasks, stream, nextID, wrk, dead>>
               /\ req[h].pc \notin Handing
  BY DEF ApproveWrite, At, Handing, OnlySession
<1>2. Owing(h)'
  BY <1>1, BecomeFields DEF Owing
<1> QED  BY <1>1, <1>2, GotoKept

LEMMA ApproveCreateKept == ASSUME Inv, Custody, NEW h \in Handlers, ApproveCreate(h) PROVE Custody'
<1> DEFINE r == [req[h] EXCEPT !.pc = "approve_queue", !.task = Len(tasks) + 1]
<1>1. Become(h, r) /\ CreateTask("code_generation", 1) /\ UNCHANGED <<session, stream, nextID, wrk, dead>>
  BY DEF ApproveCreate, OnlyTasks
<1>2. r.pc = "approve_queue" /\ r.task = Len(tasks) + 1
  BY RequestFacts DEF HandlerState
<1> HIDE DEF r
<1>3. "code_generation" \in TaskType /\ r.pc \in Handing /\ req[h].pc \notin Handing /\ Owing(h)'
  BY <1>1, <1>2, ReqMoves DEF TaskType, Handing, Owing, ApproveCreate, At
<1> QED  BY <1>1, <1>2, <1>3, CreateKept

(* The request hands its task on to publish.                               *)
LEMMA DispatchKept ==
  ASSUME Inv, Custody, NEW h \in Handlers, NEW attempt, NEW plan, NEW fb,
         Dispatch(h, req[h].task, attempt, plan, fb), UNCHANGED <<tasks, stream, nextID, wrk, dead>>
  PROVE  Custody'
<1>1. PICK r : Become(h, r) /\ r.pc = "publish" /\ r.task = req[h].task /\ Owing(h)'
  BY DispatchFields
<1>2. r.pc \in Handing /\ r.pc # "approve_edit"
  BY <1>1 DEF Handing
<1> QED  BY <1>1, <1>2, RequestGoesOn, UnderWaySame

LEMMA ApproveQueueKept == ASSUME Inv, Custody, NEW h \in Handlers, ApproveQueue(h) PROVE Custody'
  BY DispatchKept DEF ApproveQueue, OnlySession

LEMMA RejectKept == ASSUME Inv, Custody, NEW h \in Handlers, Reject(h) PROVE Custody'
<1>1. /\ Goto(h, "reject_write", Load) /\ UNCHANGED <<session, tasks, stream, nextID, wrk, dead>>
      /\ req[h].pc \notin Handing /\ ~Owing(h)
  BY DEF Reject, At, Handing, Owing, OnlyReq
<1> QED  BY <1>1, GotoKept

LEMMA RejectWriteKept == ASSUME Inv, Custody, NEW h \in Handlers, RejectWrite(h) PROVE Custody'
<1>1. /\ Save([req[h].s EXCEPT !.st = "rejected"]) /\ Return(h) /\ req[h].pc \notin Handing
      /\ UNCHANGED <<tasks, stream, nextID, wrk, dead>>
  BY DEF RejectWrite, At, Handing, OnlySession
<1>2. session'.st = "rejected"
  BY <1>1, SavedStatus, RequestFacts DEF Snapshot
<1> QED  BY <1>1, <1>2, ReturnKept DEF Transient

LEMMA RetryKept == ASSUME Inv, Custody, NEW h \in Handlers, Retry(h) PROVE Custody'
<1>1. PICK t \in DOMAIN tasks :
         Become(h, [Idle EXCEPT !.pc = "retry_read", !.task = t, !.attempt = tasks[t].attempt + 1])
  BY DEF Retry
<1> DEFINE r == [Idle EXCEPT !.pc = "retry_read", !.task = t, !.attempt = tasks[t].attempt + 1]
<1>2. Become(h, r) /\ r.pc = "retry_read"
  BY <1>1 DEF Idle
<1> HIDE DEF r
<1>3. OnlyReq /\ req[h].pc \notin Handing /\ ~Owing(h)
  BY DEF Retry, At, Handing, Owing
<1> QED  BY <1>2, <1>3, QuietRequest

LEMMA RetryReadKept == ASSUME Inv, Custody, NEW h \in Handlers, RetryRead(h) PROVE Custody'
<1>1. /\ Goto(h, "retry_create", Load) /\ UNCHANGED <<session, tasks, stream, nextID, wrk, dead>>
      /\ req[h].pc \notin Handing /\ ~Owing(h)
  BY DEF RetryRead, At, Handing, Owing, OnlyReq
<1> QED  BY <1>1, GotoKept

LEMMA RetryCreateKept == ASSUME Inv, Custody, NEW h \in Handlers, RetryCreate(h) PROVE Custody'
<1> DEFINE r == [req[h] EXCEPT !.pc = "retry_write", !.task = Len(tasks) + 1]
<1>1. /\ Become(h, r) /\ CreateTask(tasks[req[h].task].type, req[h].attempt)
      /\ UNCHANGED <<session, stream, nextID, wrk, dead>>
  BY DEF RetryCreate, OnlyTasks
<1>2. r.pc = "retry_write" /\ r.task = Len(tasks) + 1 /\ req[h].attempt \in Nat
  BY RequestFacts DEF HandlerState
<1>3. req[h].task \in DOMAIN tasks
  BY RequestFacts DEF RetryCreate, At, RequestFits, WithTask
<1>4. tasks[req[h].task].type \in TaskType
  BY <1>3, TaskFacts
<1> HIDE DEF r
<1>5. r.pc \in Handing /\ req[h].pc \notin Handing /\ ~Owing(h)
  BY <1>2 DEF Handing, Owing, RetryCreate, At
<1> QED  BY <1>1, <1>2, <1>4, <1>5, CreateKept

LEMMA RetryWriteKept == ASSUME Inv, Custody, NEW h \in Handlers, RetryWrite(h) PROVE Custody'
<1>1. /\ \E attempt, plan, fb : Dispatch(h, req[h].task, attempt, plan, fb)
      /\ UNCHANGED <<tasks, stream, nextID, wrk, dead>>
  BY DEF RetryWrite, OnlySession
<1> QED  BY <1>1, DispatchKept

LEMMA ApplyKept == ASSUME Inv, Custody, NEW h \in Handlers, Apply(h) PROVE Custody'
<1>1. /\ Goto(h, "apply_write", Load) /\ UNCHANGED <<session, tasks, stream, nextID, wrk, dead>>
      /\ req[h].pc \notin Handing /\ ~Owing(h)
  BY DEF Apply, At, Handing, Owing, OnlyReq
<1> QED  BY <1>1, GotoKept

(* A transient copy that apply brings back is one of the things dropped.   *)
LEMMA ApplyWriteKept ==
  ASSUME Inv, Custody, NEW h \in Handlers, ApplyWrite(h), dropped' = {} PROVE Custody'
<1>1. /\ Save(req[h].s) /\ Return(h) /\ req[h].pc \notin Handing
      /\ UNCHANGED <<tasks, stream, nextID, wrk, dead>>
  BY DEF ApplyWrite, At, Handing
<1>2. session'.st \notin Transient
  BY <1>1, SavedStatus DEF ApplyWrite
<1> QED  BY <1>1, <1>2, ReturnKept

(* The entry that is added covers the task, whatever the reply was.        *)
LEMMA PublishedKept ==
  ASSUME Inv, Custody, NEW h \in Handlers, NEW r, Become(h, r), r.pc # "approve_edit",
         Add(req[h].task, req[h].attempt, req[h].plan, req[h].fb), UNCHANGED <<session, tasks, wrk, dead>>
  PROVE  Custody'
<1> PICK task : task = req[h].task
  OBVIOUS
<1>1. req'[h] = r /\ \A g \in Handlers : g # h => req'[g] = req[g]
  BY ReqMoves
<1>2. /\ Numbered' /\ Apart' /\ \A w \in Workers : Given(w)'
      /\ stream \subseteq stream' /\ Covered(task)' /\ SessionCovered'
  BY EntryAdded DEF Custody
<1>3. Editing'
  BY <1>1 DEF Custody, Editing
<1>4. ASSUME NEW t \in UnderWay' PROVE Covered(t)'
  <2>1. Covered(t)
    BY <1>4, UnderWaySame DEF Custody
  <2>2. CASE t = task
    BY <1>2, <2>2
  <2>3. CASE t # task /\ \E g \in Handlers : req[g].pc \in Handing /\ req[g].task = t
    BY <1>1, <2>3 DEF Covered
  <2>4. CASE \E w \in Workers : Carrying(wrk[w].pc) /\ wrk[w].task = t
    BY <2>4 DEF Covered
  <2>5. CASE \E m \in stream : m.task = t /\ Untouched(m)
    BY <1>2, <2>5 DEF Covered, Untouched
  <2>6. CASE \E d \in dead : d.task = t
    BY <2>6 DEF Covered
  <2> QED  BY <2>1, <2>2, <2>3, <2>4, <2>5, <2>6 DEF Covered
<1> QED  BY <1>2, <1>3, <1>4 DEF Custody

LEMMA PublishKept == ASSUME Inv, Custody, NEW h \in Handlers, Publish(h) PROVE Custody'
<1> DEFINE r == [req[h] EXCEPT !.pc = "fail_task"]
<1>1. r.pc = "fail_task" /\ r.task = req[h].task /\ Idle.pc = "idle"
  BY RequestFacts DEF HandlerState, Idle
<1>2. UNCHANGED <<session, tasks, wrk, dead>>
  BY DEF Publish
<1>3. CASE Add(req[h].task, req[h].attempt, req[h].plan, req[h].fb) /\ (Return(h) \/ Become(h, r))
  BY <1>1, <1>2, <1>3, PublishedKept DEF Return
<1>4. CASE Become(h, r) /\ UNCHANGED <<stream, nextID>>
  <2>1. Owing(h)' /\ r.pc \in Handing /\ r.pc # "approve_edit"
    BY <1>1, <1>4, ReqMoves DEF Owing, Handing
  <2> QED  BY <1>1, <1>2, <1>4, <2>1, RequestGoesOn, UnderWaySame
<1> QED  BY <1>3, <1>4 DEF Publish

LEMMA FailTaskKept == ASSUME Inv, Custody, NEW h \in Handlers, FailTask(h) PROVE Custody'
<1> DEFINE t == req[h].task
           row == [tasks[t] EXCEPT !.st = "failed", !.err = "temporary"]
           r == [req[h] EXCEPT !.pc = "fail_read"]
<1>1. t \in DOMAIN tasks
  BY RequestFacts DEF FailTask, At, RequestFits, WithTask
<1>2. row.st = "failed"
  BY <1>1, TaskFacts DEF TaskRow
<1>3. tasks' = [tasks EXCEPT ![t] = row] /\ Become(h, r) /\ UNCHANGED <<session, stream, nextID, dead, wrk>>
  BY DEF FailTask, OnlyTasks
<1>4. r.pc = "fail_read"
  BY RequestFacts DEF HandlerState
<1> HIDE DEF row, r
<1>5. t \notin UnderWay' /\ \A u \in UnderWay' : u \in UnderWay
  BY <1>1, <1>2, <1>3, UnderWayUpdate
<1>6. Owing(h)' /\ r.pc # "approve_edit"
  BY <1>3, <1>4, ReqMoves DEF Owing
<1> QED  BY <1>3, <1>5, <1>6, RequestGoesOn

LEMMA FailReadKept == ASSUME Inv, Custody, NEW h \in Handlers, FailRead(h) PROVE Custody'
<1>1. /\ Goto(h, "fail_write", Load) /\ UNCHANGED <<session, tasks, stream, nextID, wrk, dead>>
      /\ req[h].pc \notin Handing
  BY DEF FailRead, At, Handing, OnlyReq
<1>2. Owing(h)'
  BY <1>1, BecomeFields DEF Owing
<1> QED  BY <1>1, <1>2, GotoKept

LEMMA FailWriteKept == ASSUME Inv, Custody, NEW h \in Handlers, FailWrite(h) PROVE Custody'
<1>1. /\ Save([req[h].s EXCEPT !.st = "failed"]) /\ Return(h) /\ req[h].pc \notin Handing
      /\ UNCHANGED <<tasks, stream, nextID, wrk, dead>>
  BY DEF FailWrite, At, Handing, OnlySession
<1>2. session'.st = "failed"
  BY <1>1, SavedStatus, RequestFacts DEF Snapshot
<1> QED  BY <1>1, <1>2, ReturnKept DEF Transient

-----------------------------------------------------------------------------
(* Workers *)

LEMMA WGotoFields ==
  ASSUME Inv, NEW w \in Workers, NEW pc, WGoto(w, pc)
  PROVE  \E r : WBecome(w, r) /\ r.pc = pc /\ r.msg = wrk[w].msg /\ r.task = wrk[w].task
<1> DEFINE r == [wrk[w] EXCEPT !.pc = pc]
<1>1. WBecome(w, r) /\ r.pc = pc /\ r.msg = wrk[w].msg /\ r.task = wrk[w].task
  BY WorkerFacts DEF WGoto, WorkerState
<1> QED  BY <1>1

(* The worker only goes on, before it has written that its task is done or *)
(* after.                                                                  *)
LEMMA QuietWorker ==
  ASSUME Inv, Custody, NEW w \in Workers, NEW r, WBecome(w, r),
         UNCHANGED <<tasks, stream, nextID, req, dead>>,
         wrk[w].pc \notin {"idle", "ack"}, r.pc \notin {"idle", "ack"},
         r.msg = wrk[w].msg, r.task = wrk[w].task,
         Carrying(r.pc) \/ wrk[w].pc \in Past
  PROVE  Custody'
  BY WorkerGoesOn, UnderWaySame

(* It goes on after writing its task's row.                                *)
LEMMA UpdateKept ==
  ASSUME Inv, Custody, NEW w \in Workers, NEW pc, WGoto(w, pc),
         \A t \in UnderWay' : t \in UnderWay \/ t = wrk[w].task,
         UNCHANGED <<stream, nextID, req, dead>>, wrk[w].pc \in Working,
         pc \notin {"idle", "ack"}, Carrying(pc) \/ wrk[w].task \notin UnderWay'
  PROVE  Custody'
<1>1. PICK r : WBecome(w, r) /\ r.pc = pc /\ r.msg = wrk[w].msg /\ r.task = wrk[w].task
  BY WGotoFields
<1>2. wrk[w].pc \notin {"idle", "ack"}
  BY DEF Working
<1>3. \A t \in UnderWay' : t \in UnderWay \/ (Carrying(r.pc) /\ r.task = t)
  BY <1>1
<1>4. Carrying(r.pc) \/ r.task \notin UnderWay'
  BY <1>1
<1> QED  BY <1>1, <1>2, <1>3, <1>4, WorkerGoesOn

LEMMA WLoadKept ==
  ASSUME Inv, Custody, NEW w \in Workers, NEW pc, WLoad(w, pc), OnlyWrk, wrk[w].pc \in Working,
         pc \notin {"idle", "ack"}, Carrying(pc) \/ wrk[w].pc \in Past
  PROVE  Custody'
<1> DEFINE r == [wrk[w] EXCEPT !.pc = pc, !.s = Load]
<1>1. WBecome(w, r) /\ r.pc = pc /\ r.msg = wrk[w].msg /\ r.task = wrk[w].task
  BY WorkerFacts DEF WLoad, WorkerState
<1> HIDE DEF r
<1>2. wrk[w].pc \notin {"idle", "ack"} /\ UNCHANGED <<tasks, stream, nextID, req, dead>>
  BY DEF Working, OnlyWrk
<1> QED  BY <1>1, <1>2, QuietWorker

LEMMA WSaveKept ==
  ASSUME Inv, Custody, NEW w \in Workers, NEW s, NEW pc, WSave(w, s, pc), wrk[w].pc \in Working,
         pc \notin {"idle", "ack"}, Carrying(pc)
  PROVE  Custody'
<1> DEFINE r == [wrk[w] EXCEPT !.pc = pc, !.s = NoSnapshot]
<1>1. /\ WBecome(w, r) /\ r.pc = pc /\ r.msg = wrk[w].msg /\ r.task = wrk[w].task
      /\ UNCHANGED <<tasks, stream, nextID, req, dead>>
  BY WorkerFacts DEF WSave, WorkerState
<1> HIDE DEF r
<1>2. wrk[w].pc \notin {"idle", "ack"}
  BY DEF Working
<1> QED  BY <1>1, <1>2, QuietWorker

LEMMA BeginKept == ASSUME Inv, Custody, NEW w \in Workers, Begin(w) PROVE Custody'
<1>1. PICK row : tasks' = [tasks EXCEPT ![wrk[w].task] = row]
  BY DEF Begin
<1>2. WGoto(w, "mark_read") /\ UNCHANGED <<stream, nextID, req, dead>>
  BY DEF Begin
<1>3. wrk[w].pc \in Working /\ Carrying("mark_read")
  BY DEF Begin, WAt, Working, WorkerPC, Carrying, Past
<1>4. wrk[w].task \in DOMAIN tasks
  BY <1>3, WorkingFacts
<1>5. \A t \in UnderWay' : t \in UnderWay \/ t = wrk[w].task
  BY <1>1, <1>4, UnderWayUpdate
<1> QED  BY <1>2, <1>3, <1>5, UpdateKept

LEMMA MarkReadKept == ASSUME Inv, Custody, NEW w \in Workers, MarkRead(w) PROVE Custody'
<1>1. WLoad(w, "mark_write") /\ OnlyWrk /\ wrk[w].pc \in Working /\ Carrying("mark_write")
  BY DEF MarkRead, WAt, Working, WorkerPC, Carrying, Past
<1> QED  BY <1>1, WLoadKept

LEMMA MarkWriteKept == ASSUME Inv, Custody, NEW w \in Workers, MarkWrite(w) PROVE Custody'
<1>1. /\ \E s : WSave(w, s, "engine")
      /\ wrk[w].pc \in Working /\ Carrying("engine")
  BY DEF MarkWrite, WAt, Working, WorkerPC, Carrying, Past
<1> QED  BY <1>1, WSaveKept

LEMMA EngineOKKept == ASSUME Inv, Custody, NEW w \in Workers, EngineOK(w) PROVE Custody'
<1>1. PICK out : WBecome(w, [wrk[w] EXCEPT !.pc = "done_task", !.out = out])
  BY DEF EngineOK
<1> DEFINE r == [wrk[w] EXCEPT !.pc = "done_task", !.out = out]
<1>2. WBecome(w, r) /\ r.pc = "done_task" /\ r.msg = wrk[w].msg /\ r.task = wrk[w].task
  BY <1>1, WorkerFacts DEF WorkerState
<1> HIDE DEF r
<1>3. wrk[w].pc \notin {"idle", "ack"} /\ Carrying(r.pc) /\ UNCHANGED <<tasks, stream, nextID, req, dead>>
  BY <1>2 DEF EngineOK, WAt, Carrying, Past
<1> QED  BY <1>2, <1>3, QuietWorker

LEMMA EngineErrorKept == ASSUME Inv, Custody, NEW w \in Workers, EngineError(w) PROVE Custody'
<1>1. PICK e : WBecome(w, [wrk[w] EXCEPT !.pc = "fail_task", !.err = e])
  BY DEF EngineError
<1> DEFINE r == [wrk[w] EXCEPT !.pc = "fail_task", !.err = e]
<1>2. WBecome(w, r) /\ r.pc = "fail_task" /\ r.msg = wrk[w].msg /\ r.task = wrk[w].task
  BY <1>1, WorkerFacts DEF WorkerState
<1> HIDE DEF r
<1>3. wrk[w].pc \notin {"idle", "ack"} /\ Carrying(r.pc) /\ UNCHANGED <<tasks, stream, nextID, req, dead>>
  BY <1>2 DEF EngineError, OnlyWrk, WAt, Carrying, Past
<1> QED  BY <1>2, <1>3, QuietWorker

LEMMA DoneTaskKept == ASSUME Inv, Custody, NEW w \in Workers, DoneTask(w) PROVE Custody'
<1> DEFINE row == [tasks[wrk[w].task] EXCEPT !.st = "completed", !.attempt = wrk[w].attempt, !.err = "none"]
<1>1. /\ tasks' = [tasks EXCEPT ![wrk[w].task] = row]
      /\ WGoto(w, "done_read") /\ UNCHANGED <<stream, nextID, req, dead>>
  BY DEF DoneTask
<1>2. wrk[w].pc \in Working
  BY DEF DoneTask, WAt, Working, WorkerPC
<1>3. wrk[w].task \in DOMAIN tasks /\ row.st = "completed"
  BY <1>2, WorkingFacts, TaskFacts DEF TaskRow
<1> HIDE DEF row
<1>4. /\ \A t \in UnderWay' : t \in UnderWay \/ t = wrk[w].task
      /\ wrk[w].task \notin UnderWay'
  BY <1>1, <1>3, UnderWayUpdate
<1> QED  BY <1>1, <1>2, <1>4, UpdateKept

LEMMA DoneReadKept == ASSUME Inv, Custody, NEW w \in Workers, DoneRead(w) PROVE Custody'
<1>1. WLoad(w, "done_write") /\ OnlyWrk /\ wrk[w].pc \in Working /\ wrk[w].pc \in Past
  BY DEF DoneRead, WAt, Working, WorkerPC, Past
<1> QED  BY <1>1, WLoadKept

LEMMA WFailTaskKept == ASSUME Inv, Custody, NEW w \in Workers, WFailTask(w) PROVE Custody'
<1>1. PICK row : tasks' = [tasks EXCEPT ![wrk[w].task] = row]
  BY DEF WFailTask
<1>2. WGoto(w, "fail_read") /\ UNCHANGED <<stream, nextID, req, dead>>
  BY DEF WFailTask
<1>3. wrk[w].pc \in Working /\ Carrying("fail_read")
  BY DEF WFailTask, WAt, Working, WorkerPC, Carrying, Past
<1>4. wrk[w].task \in DOMAIN tasks
  BY <1>3, WorkingFacts
<1>5. \A t \in UnderWay' : t \in UnderWay \/ t = wrk[w].task
  BY <1>1, <1>4, UnderWayUpdate
<1> QED  BY <1>2, <1>3, <1>5, UpdateKept

LEMMA WFailReadKept == ASSUME Inv, Custody, NEW w \in Workers, WFailRead(w) PROVE Custody'
<1>1. WLoad(w, "fail_write") /\ OnlyWrk /\ wrk[w].pc \in Working /\ Carrying("fail_write")
  BY DEF WFailRead, WAt, Working, WorkerPC, Carrying, Past
<1> QED  BY <1>1, WLoadKept

(* Retry or dead letter: the worker still carries its job.                 *)
LEMMA DecidedKept ==
  ASSUME Inv, Custody, NEW w \in Workers, WBecome(w, Decided(wrk[w])), wrk[w].pc \in Working,
         UNCHANGED <<tasks, stream, nextID, req, dead>>
  PROVE  Custody'
<1> DEFINE a == [wrk[w] EXCEPT !.pc = "retry_task", !.attempt = @ + 1, !.s = NoSnapshot]
           b == [wrk[w] EXCEPT !.pc = "dead", !.s = NoSnapshot]
<1>1. WBecome(w, a) \/ WBecome(w, b)
  BY DEF Decided
<1>2. /\ a.pc = "retry_task" /\ a.msg = wrk[w].msg /\ a.task = wrk[w].task
      /\ b.pc = "dead" /\ b.msg = wrk[w].msg /\ b.task = wrk[w].task
  BY WorkerFacts DEF WorkerState
<1> HIDE DEF a, b
<1>3. Carrying(a.pc) /\ Carrying(b.pc) /\ wrk[w].pc \notin {"idle", "ack"}
  BY <1>2 DEF Carrying, Past, Working
<1> QED  BY <1>1, <1>2, <1>3, QuietWorker

LEMMA WFailWriteKept == ASSUME Inv, Custody, NEW w \in Workers, WFailWrite(w) PROVE Custody'
  BY DecidedKept DEF WFailWrite, WAt, Working, WorkerPC

LEMMA RetryTaskKept == ASSUME Inv, Custody, NEW w \in Workers, RetryTask(w) PROVE Custody'
<1>1. PICK row : tasks' = [tasks EXCEPT ![wrk[w].task] = row]
  BY DEF RetryTask
<1>2. WGoto(w, "retry_read") /\ UNCHANGED <<stream, nextID, req, dead>>
  BY DEF RetryTask
<1>3. wrk[w].pc \in Working /\ Carrying("retry_read")
  BY DEF RetryTask, WAt, Working, WorkerPC, Carrying, Past
<1>4. wrk[w].task \in DOMAIN tasks
  BY <1>3, WorkingFacts
<1>5. \A t \in UnderWay' : t \in UnderWay \/ t = wrk[w].task
  BY <1>1, <1>4, UnderWayUpdate
<1> QED  BY <1>2, <1>3, <1>5, UpdateKept

LEMMA RetryTaskReadKept == ASSUME Inv, Custody, NEW w \in Workers, RetryTaskRead(w) PROVE Custody'
<1>1. WLoad(w, "retry_write") /\ OnlyWrk /\ wrk[w].pc \in Working /\ Carrying("retry_write")
  BY DEF RetryTaskRead, WAt, Working, WorkerPC, Carrying, Past
<1> QED  BY <1>1, WLoadKept

LEMMA RetryTaskWriteKept == ASSUME Inv, Custody, NEW w \in Workers, RetryTaskWrite(w) PROVE Custody'
<1>1. /\ \E s : WSave(w, s, "republish")
      /\ wrk[w].pc \in Working /\ Carrying("republish")
  BY DEF RetryTaskWrite, WAt, Working, WorkerPC, Carrying, Past
<1> QED  BY <1>1, WSaveKept

(* The worker is done with its job: its task is covered by someone else.   *)
LEMMA SettleKept ==
  ASSUME Inv, Custody, NEW w \in Workers, WSettle(w), UNCHANGED <<tasks, req>>,
         Numbered', Apart', \A v \in Workers : Given(v)',
         stream \subseteq stream', dead \subseteq dead', wrk[w].pc \notin {"idle", "ack"},
         NEW task, task = wrk[w].task, wrk[w].pc \in Past \/ Covered(task)',
         session'.st \in Transient => SessionCovered'
  PROVE  Custody'
<1> PICK r : r = Settled(wrk[w])
  OBVIOUS
<1>1. wrk'[w] = r /\ \A v \in Workers : v # w => wrk'[v] = wrk[v]
  BY WrkMoves DEF WSettle
<1>2. r.pc = "ack" /\ r.msg = wrk[w].msg
  BY DEF Settled, Waiting
<1>3. Editing'
  BY DEF Custody, Editing
<1>4. ASSUME NEW t \in UnderWay' PROVE Covered(t)'
  <2>1. Covered(t)
    BY <1>4, UnderWaySame DEF Custody
  <2>2. CASE t = task /\ wrk[w].pc \notin Past
    BY <2>2
  <2>3. CASE \E h \in Handlers : req[h].pc \in Handing /\ req[h].task = t
    BY <2>3 DEF Covered
  <2>4. CASE ~(t = task /\ wrk[w].pc \notin Past) /\ \E v \in Workers : Carrying(wrk[v].pc) /\ wrk[v].task = t
    BY <1>1, <2>4 DEF Covered, Carrying
  <2>5. CASE ~(t = task /\ wrk[w].pc \notin Past) /\ \E m \in stream : m.task = t /\ Untouched(m)
    <3>1. PICK m \in stream : m.task = t /\ Untouched(m)
      BY <2>5
    <3>2. m.id # wrk[w].msg
      BY <2>5, <3>1 DEF Untouched, Custody, Given, Numbered
    <3>3. Untouched(m)'
      BY <1>1, <1>2, <3>1, <3>2 DEF Untouched
    <3> QED  BY <3>1, <3>3 DEF Covered
  <2>6. CASE \E d \in dead : d.task = t
    BY <2>6 DEF Covered
  <2> QED  BY <2>1, <2>2, <2>3, <2>4, <2>5, <2>6 DEF Covered
<1> QED  BY <1>3, <1>4 DEF Custody

LEMMA SettledWorkers ==
  ASSUME Inv, Custody, NEW w \in Workers, WSettle(w), wrk[w].pc \notin {"idle", "ack"}
  PROVE  /\ wrk'[w].pc = "ack" /\ wrk'[w].msg = wrk[w].msg
         /\ \A v \in Workers : v # w => wrk'[v] = wrk[v]
<1> PICK r : r = Settled(wrk[w])
  OBVIOUS
<1>1. wrk'[w] = r /\ \A v \in Workers : v # w => wrk'[v] = wrk[v]
  BY WrkMoves DEF WSettle
<1> QED  BY <1>1 DEF Settled, Waiting

(* The stream as it was.                                                   *)
LEMMA SettledStream ==
  ASSUME Inv, Custody, NEW w \in Workers, WSettle(w), wrk[w].pc \notin {"idle", "ack"},
         UNCHANGED <<stream, nextID>>
  PROVE  Numbered' /\ Apart' /\ \A v \in Workers : Given(v)'
<1>1. /\ wrk'[w].pc = "ack" /\ wrk'[w].msg = wrk[w].msg
      /\ \A v \in Workers : v # w => wrk'[v] = wrk[v]
  BY SettledWorkers
<1>2. Numbered'
  BY DEF Custody, Numbered
<1>3. Apart'
  BY <1>1 DEF Custody, Apart
<1>4. ASSUME NEW v \in Workers PROVE Given(v)'
  BY <1>1 DEF Custody, Given
<1> QED  BY <1>2, <1>3, <1>4

LEMMA DoneWriteKept == ASSUME Inv, Custody, NEW w \in Workers, DoneWrite(w) PROVE Custody'
<1>1. PICK s : WSave(w, s, "ack") /\ s.st \in {"code_generated", "plan_generated"}
  <2>1. /\ [wrk[w].s EXCEPT !.st = "code_generated", !.files = wrk[w].out].st = "code_generated"
        /\ [wrk[w].s EXCEPT !.st = "plan_generated", !.plan = wrk[w].out, !.rev = @ + 1].st = "plan_generated"
    BY WorkerFacts DEF Snapshot
  <2> QED  BY <2>1 DEF DoneWrite
<1>2. /\ WSettle(w) /\ UNCHANGED <<tasks, stream, nextID, dead, req>>
      /\ wrk[w].pc \notin {"idle", "ack"} /\ wrk[w].pc \in Past
  BY <1>1 DEF WSave, WSettle, DoneWrite, WAt, Past
<1>3. session'.st \notin Transient
  BY <1>1, SavedStatus DEF WSave, Transient
<1>4. Numbered' /\ Apart' /\ \A v \in Workers : Given(v)'
  BY <1>2, SettledStream
<1> QED  BY <1>2, <1>3, <1>4, SettleKept

LEMMA DeadLetterKept == ASSUME Inv, Custody, NEW w \in Workers, DeadLetter(w) PROVE Custody'
<1> PICK d, task : d = [task |-> wrk[w].task, attempt |-> wrk[w].attempt] /\ task = wrk[w].task
  OBVIOUS
<1>1. /\ dead' = dead \cup {d} /\ WSettle(w) /\ UNCHANGED <<session, tasks, stream, nextID, req>>
      /\ wrk[w].pc \notin {"idle", "ack"}
  BY DEF DeadLetter, WAt
<1>2. d.task = task
  OBVIOUS
<1>3. Covered(task)' /\ SessionCovered'
  BY <1>1, <1>2 DEF Covered, SessionCovered
<1>4. Numbered' /\ Apart' /\ \A v \in Workers : Given(v)'
  BY <1>1, SettledStream
<1> QED  BY <1>1, <1>3, <1>4, SettleKept

(* The next attempt is in the stream before the worker lets go of this one *)
(* or buries it.                                                           *)
LEMMA RepublishKept == ASSUME Inv, Custody, NEW w \in Workers, Republish(w) PROVE Custody'
<1>1. UNCHANGED <<session, tasks, dead, req>> /\ wrk[w].pc \in Working /\ wrk[w].pc \notin {"idle", "ack"}
  BY DEF Republish, WAt, Working, WorkerPC
<1> PICK task : task = wrk[w].task
  OBVIOUS
<1>2. CASE Add(wrk[w].task, wrk[w].attempt, wrk[w].plan, wrk[w].fb) /\ WSettle(w)
  <2>1. /\ wrk'[w].pc = "ack" /\ wrk'[w].msg = wrk[w].msg
        /\ \A v \in Workers : v # w => wrk'[v] = wrk[v]
    BY <1>1, <1>2, SettledWorkers
  <2>2. \A v \in Workers : wrk'[v].pc # "idle" =>
           /\ wrk'[v].msg = wrk[v].msg /\ wrk[v].pc # "idle"
           /\ wrk'[v].pc # "ack" => wrk[v].pc # "ack" /\ wrk'[v].task = wrk[v].task
    BY <1>1, <2>1
  <2>3. /\ Numbered' /\ Apart' /\ \A v \in Workers : Given(v)'
        /\ stream \subseteq stream' /\ Covered(task)' /\ SessionCovered'
    BY <1>2, <2>2, EntryAdded DEF Custody
  <2> QED  BY <1>1, <1>2, <2>3, SettleKept
<1>3. CASE WGoto(w, "dead") /\ UNCHANGED <<stream, nextID>>
  <2>1. PICK r : WBecome(w, r) /\ r.pc = "dead" /\ r.msg = wrk[w].msg /\ r.task = wrk[w].task
    BY <1>3, WGotoFields
  <2>2. Carrying(r.pc)
    BY <2>1 DEF Carrying, Past
  <2> QED  BY <1>1, <1>3, <2>1, <2>2, QuietWorker
<1>4. CASE Add(wrk[w].task, wrk[w].attempt, wrk[w].plan, wrk[w].fb) /\ WGoto(w, "dead")
  <2>1. PICK r : WBecome(w, r) /\ r.pc = "dead" /\ r.msg = wrk[w].msg /\ r.task = wrk[w].task
    BY <1>4, WGotoFields
  <2>2. wrk'[w] = r /\ \A v \in Workers : v # w => wrk'[v] = wrk[v]
    BY <2>1, WrkMoves
  <2>3. \A v \in Workers : wrk'[v].pc # "idle" =>
           /\ wrk'[v].msg = wrk[v].msg /\ wrk[v].pc # "idle"
           /\ wrk'[v].pc # "ack" => wrk[v].pc # "ack" /\ wrk'[v].task = wrk[v].task
    BY <1>1, <2>1, <2>2
  <2>4. /\ Numbered' /\ Apart' /\ \A v \in Workers : Given(v)'
        /\ stream \subseteq stream' /\ Covered(task)' /\ SessionCovered'
    BY <1>4, <2>3, EntryAdded DEF Custody
  <2>5. Editing'
    BY <1>1 DEF Custody, Editing
  <2>6. ASSUME NEW t \in UnderWay' PROVE Covered(t)'
    <3>1. Covered(t)
      BY <1>1, <2>6, UnderWaySame DEF Custody
    <3>2. CASE \E h \in Handlers : req[h].pc \in Handing /\ req[h].task = t
      BY <1>1, <3>2 DEF Covered
    <3>3. CASE t # task /\ \E v \in Workers : Carrying(wrk[v].pc) /\ wrk[v].task = t
      BY <2>2, <3>3 DEF Covered
    <3>4. CASE \E m \in stream : m.task = t /\ Untouched(m)
      BY <2>1, <2>2, <2>4, <3>4 DEF Covered, Untouched, Past
    <3>5. CASE \E d \in dead : d.task = t
      BY <1>1, <3>5 DEF Covered
    <3> QED  BY <2>4, <3>1, <3>2, <3>3, <3>4, <3>5 DEF Covered
  <2> QED  BY <2>4, <2>5, <2>6 DEF Custody
<1> QED  BY <1>2, <1>3, <1>4 DEF Republish

(* Ack removes the worker's own entry, which covered nothing any more.     *)
LEMMA AckKept == ASSUME Inv, Custody, NEW w \in Workers, Ack(w) PROVE Custody'
<1>1. /\ wrk[w].pc = "ack" /\ stream' = {m \in stream : m.id # wrk[w].msg} /\ Drop(w)
      /\ UNCHANGED <<session, tasks, nextID, dead, req>>
  BY DEF Ack, WAt
<1>2. wrk'[w].pc = "idle" /\ \A v \in Workers : v # w => wrk'[v] = wrk[v]
  BY <1>1, WrkMoves DEF Drop, Waiting
<1>3. Numbered'
  BY <1>1 DEF Custody, Numbered
<1>4. Apart' /\ Editing'
  BY <1>1, <1>2 DEF Custody, Apart, Editing
<1>5. ASSUME NEW v \in Workers PROVE Given(v)'
  BY <1>1, <1>2 DEF Custody, Given, Apart
<1>6. ASSUME NEW t \in UnderWay' PROVE Covered(t)'
  <2>1. Covered(t)
    BY <1>1, <1>6, UnderWaySame DEF Custody
  <2>2. CASE \E h \in Handlers : req[h].pc \in Handing /\ req[h].task = t
    BY <1>1, <2>2 DEF Covered
  <2>3. CASE \E v \in Workers : Carrying(wrk[v].pc) /\ wrk[v].task = t
    BY <1>1, <1>2, <2>3 DEF Covered, Carrying, Past
  <2>4. CASE \E m \in stream : m.task = t /\ Untouched(m)
    <3>1. PICK m \in stream : m.task = t /\ Untouched(m)
      BY <2>4
    <3>2. m \in stream'
      BY <1>1, <3>1 DEF Untouched, Past
    <3>3. Untouched(m)'
      BY <1>2, <3>1 DEF Untouched, Past
    <3> QED  BY <3>1, <3>2, <3>3 DEF Covered
  <2>5. CASE \E d \in dead : d.task = t
    BY <1>1, <2>5 DEF Covered
  <2> QED  BY <2>1, <2>2, <2>3, <2>4, <2>5 DEF Covered
<1>7. ASSUME session'.st \in Transient PROVE SessionCovered'
  <2>1. SessionCovered
    BY <1>1, <1>7 DEF Custody
  <2>2. CASE \E h \in Handlers : Owing(h)
    BY <1>1, <2>2 DEF SessionCovered, Owing
  <2>3. CASE \E v \in Workers : Busy(v)
    BY <1>1, <1>2, <2>3 DEF SessionCovered, Busy
  <2>4. CASE \E m \in stream : Unsettled(m)
    BY <1>1, <1>2, <2>4 DEF SessionCovered, Unsettled, WAt
  <2>5. CASE dead # {}
    BY <1>1, <2>5 DEF SessionCovered
  <2> QED  BY <2>1, <2>2, <2>3, <2>4, <2>5 DEF SessionCovered
<1> QED  BY <1>3, <1>4, <1>5, <1>6, <1>7 DEF Custody

(* A worker that dies leaves its entry, pending: it covers what the worker *)
(* carried.                                                                *)
LEMMA DropKept ==
  ASSUME Inv, Custody, NEW w \in Workers, Drop(w), wrk[w].pc # "idle",
         UNCHANGED <<session, tasks, stream, nextID, dead, req>>
  PROVE  Custody'
<1>1. wrk'[w].pc = "idle" /\ \A v \in Workers : v # w => wrk'[v] = wrk[v]
  BY WrkMoves DEF Drop, Waiting
<1>2. Numbered'
  BY DEF Custody, Numbered
<1>3. Apart' /\ Editing'
  BY <1>1 DEF Custody, Apart, Editing
<1>4. ASSUME NEW v \in Workers PROVE Given(v)'
  BY <1>1 DEF Custody, Given
<1>5. PICK e \in stream : e.id = wrk[w].msg /\ (wrk[w].pc # "ack" => e.task = wrk[w].task)
  BY DEF Custody, Given
<1>6. Untouched(e)' /\ Unsettled(e)'
  BY <1>1, <1>5 DEF Untouched, Unsettled, WAt, Past, Custody, Apart
<1>7. ASSUME NEW t \in UnderWay' PROVE Covered(t)'
  <2>1. Covered(t)
    BY <1>7, UnderWaySame DEF Custody
  <2>2. CASE \E h \in Handlers : req[h].pc \in Handing /\ req[h].task = t
    BY <2>2 DEF Covered
  <2>3. CASE \E v \in Workers : Carrying(wrk[v].pc) /\ wrk[v].task = t
    <3>1. PICK v \in Workers : Carrying(wrk[v].pc) /\ wrk[v].task = t
      BY <2>3
    <3>2. CASE v = w
      BY <1>5, <1>6, <3>1, <3>2 DEF Covered, Carrying, Past
    <3>3. CASE v # w
      BY <1>1, <3>1, <3>3 DEF Covered
    <3> QED  BY <3>2, <3>3
  <2>4. CASE \E m \in stream : m.task = t /\ Untouched(m)
    BY <1>1, <2>4 DEF Covered, Untouched, Past
  <2>5. CASE \E d \in dead : d.task = t
    BY <2>5 DEF Covered
  <2> QED  BY <2>1, <2>2, <2>3, <2>4, <2>5 DEF Covered
<1>8. SessionCovered'
  BY <1>5, <1>6 DEF SessionCovered
<1> QED  BY <1>2, <1>3, <1>4, <1>7, <1>8 DEF Custody

LEMMA WErrorKept == ASSUME Inv, Custody, NEW w \in Workers, WError(w) PROVE Custody'
<1>1. UNCHANGED <<session, tasks, stream, nextID, dead, req>>
  BY DEF WError
<1>2. CASE /\ wrk[w].pc \in {"begin", "mark_read", "mark_write", "done_task", "done_read",
                             "done_write", "retry_task", "retry_read", "retry_write"}
           /\ WBecome(w, [wrk[w] EXCEPT !.pc = "dead", !.s = NoSnapshot])
  <2> DEFINE r == [wrk[w] EXCEPT !.pc = "dead", !.s = NoSnapshot]
  <2>1. WBecome(w, r) /\ r.pc = "dead" /\ r.msg = wrk[w].msg /\ r.task = wrk[w].task
    BY <1>2, WorkerFacts DEF WorkerState
  <2> HIDE DEF r
  <2>2. Carrying(r.pc) /\ wrk[w].pc \notin {"idle", "ack"}
    BY <1>2, <2>1 DEF Carrying, Past
  <2> QED  BY <1>1, <2>1, <2>2, QuietWorker
<1>3. CASE wrk[w].pc \in {"fail_task", "fail_read", "fail_write"} /\ WBecome(w, Decided(wrk[w]))
  <2>1. wrk[w].pc \in Working
    BY <1>3 DEF Working, WorkerPC
  <2> QED  BY <1>1, <1>3, <2>1, DecidedKept
<1>4. CASE wrk[w].pc \in {"dead", "ack"} /\ Drop(w)
  BY <1>1, <1>4, DropKept
<1> QED  BY <1>2, <1>3, <1>4 DEF WError

LEMMA WCrashKept == ASSUME Inv, Custody, NEW w \in Workers, WCrash(w) PROVE Custody'
  BY DropKept DEF WCrash, WAt

(* A worker is given an entry that nobody else holds.                      *)
LEMMA DeliverKept ==
  ASSUME Inv, Custody, NEW w \in Workers, wrk[w].pc = "idle", NEW m \in stream, Deliver(w, m),
         \A v \in Workers : ~Holds(v, m)
  PROVE  Custody'
<1> DEFINE e == [m EXCEPT !.st = "pending"]
           r == [Waiting EXCEPT !.pc = "begin", !.msg = m.id, !.task = m.task,
                                !.attempt = m.attempt, !.plan = m.plan, !.fb = m.fb]
<1>1. /\ stream' = (stream \ {m}) \cup {e} /\ WBecome(w, r)
      /\ UNCHANGED <<session, tasks, nextID, dead, req>>
  BY DEF Deliver
<1>2. /\ e.id = m.id /\ e.task = m.task /\ e.st = "pending"
      /\ r.pc = "begin" /\ r.msg = m.id /\ r.task = m.task
  BY DEF Inv, EntryFits, Entry, Waiting
<1> HIDE DEF e, r
<1>3. wrk'[w] = r /\ \A v \in Workers : v # w => wrk'[v] = wrk[v]
  BY <1>1, WrkMoves
<1>4. Numbered'
  BY <1>1, <1>2 DEF Custody, Numbered
<1>5. \A v \in Workers : v # w => wrk[v].pc = "idle" \/ wrk[v].msg # m.id
  BY DEF Holds, WAt
<1>6. Apart' /\ Editing'
  BY <1>1, <1>2, <1>3, <1>5 DEF Custody, Apart, Editing
<1>7. ASSUME NEW v \in Workers PROVE Given(v)'
  <2>1. CASE v = w
    BY <1>1, <1>2, <1>3, <2>1 DEF Given
  <2>2. CASE v # w
    <3>1. CASE wrk[v].pc = "idle"
      BY <1>3, <2>2, <3>1 DEF Given
    <3>2. CASE wrk[v].pc # "idle"
      <4>1. PICK n \in stream : /\ n.id = wrk[v].msg /\ n.st = "pending"
                                /\ wrk[v].pc # "ack" => n.task = wrk[v].task
        BY <3>2 DEF Custody, Given
      <4>2. n \in stream'
        BY <1>1, <1>5, <2>2, <3>2, <4>1
      <4> QED  BY <1>3, <2>2, <4>1, <4>2 DEF Given
    <3> QED  BY <3>1, <3>2
  <2> QED  BY <2>1, <2>2
<1>8. ASSUME NEW t \in UnderWay' PROVE Covered(t)'
  <2>1. Covered(t)
    BY <1>1, <1>8, UnderWaySame DEF Custody
  <2>2. CASE \E h \in Handlers : req[h].pc \in Handing /\ req[h].task = t
    BY <1>1, <2>2 DEF Covered
  <2>3. CASE \E v \in Workers : Carrying(wrk[v].pc) /\ wrk[v].task = t
    BY <1>3, <2>3 DEF Covered, Carrying
  <2>4. CASE m.task = t
    BY <1>2, <1>3, <2>4 DEF Covered, Carrying, Past
  <2>5. CASE \E n \in stream : n # m /\ n.task = t /\ Untouched(n)
    <3>1. PICK n \in stream : n # m /\ n.task = t /\ Untouched(n)
      BY <2>5
    <3>2. n \in stream' /\ Untouched(n)'
      BY <1>1, <1>2, <1>3, <3>1 DEF Untouched, Past
    <3> QED  BY <3>1, <3>2 DEF Covered
  <2>6. CASE \E d \in dead : d.task = t
    BY <1>1, <2>6 DEF Covered
  <2> QED  BY <2>1, <2>2, <2>3, <2>4, <2>5, <2>6 DEF Covered
<1>9. SessionCovered'
  BY <1>2, <1>3 DEF SessionCovered, Busy
<1> QED  BY <1>4, <1>6, <1>7, <1>8, <1>9 DEF Custody

(* A new entry has been given to nobody.                                   *)
LEMMA ReadKept == ASSUME Inv, Custody, NEW w \in Workers, Read(w) PROVE Custody'
<1>1. PICK m \in stream : m.st = "new" /\ Deliver(w, m)
  BY DEF Read
<1>2. \A v \in Workers : ~Holds(v, m)
  BY <1>1 DEF Holds, WAt, Custody, Given, Numbered
<1> QED  BY <1>1, <1>2, DeliverKept DEF Read, WAt

(* A running entry that is claimed is one of the things dropped.           *)
LEMMA ClaimKept == ASSUME Inv, Custody, NEW w \in Workers, Claim(w), dropped' = {} PROVE Custody'
<1>1. PICK m \in stream :
         /\ Deliver(w, m)
         /\ dropped' = IF \E v \in Workers : Holds(v, m) THEN dropped \cup {"claim"} ELSE dropped
  BY DEF Claim
<1>2. \A v \in Workers : ~Holds(v, m)
  BY <1>1
<1> QED  BY <1>1, <1>2, DeliverKept DEF Claim, WAt

-----------------------------------------------------------------------------
(* The invariant *)

LEMMA InitKept == Init => Kept
  BY DEF Init, Kept, Custody, Numbered, Apart, Editing, Given, Idle, Waiting, UnderWay, Transient

LEMMA OnceDropped == ASSUME Next PROVE dropped \subseteq dropped'
<1>1. ASSUME NEW h \in Handlers, Request(h) PROVE dropped \subseteq dropped'
  BY <1>1 DEF Request, Analyze, Correct, Approve, Reject, Retry, Apply, OnlyReq, OnlySession
<1>2. ASSUME NEW h \in Handlers, HandlerStep(h) \/ Abort(h) PROVE dropped \subseteq dropped'
  BY <1>2 DEF HandlerStep, AnalyzeLatest, AnalyzeCreate, CorrectWrite, CorrectCreate, ApproveEdit,
     ApproveWrite, ApproveCreate, ApproveQueue, RejectWrite, RetryRead, RetryCreate, RetryWrite,
     ApplyWrite, Publish, FailTask, FailRead, FailWrite, Abort, OnlyReq, OnlySession, OnlyTasks
<1>3. ASSUME NEW w \in Workers, Claim(w) PROVE dropped \subseteq dropped'
  BY <1>3 DEF Claim
<1>4. ASSUME NEW w \in Workers, WorkerStep(w), ~Claim(w) PROVE UNCHANGED dropped
  BY <1>4 DEF WorkerStep, Read, Begin, MarkRead, MarkWrite, EngineOK, EngineError, DoneTask, DoneRead,
     DoneWrite, WFailTask, WFailRead, WFailWrite, RetryTask, RetryTaskRead, RetryTaskWrite, Republish,
     DeadLetter, Ack, OnlyWrk, WSave
<1>5. ASSUME NEW w \in Workers, WError(w) \/ WCrash(w) PROVE UNCHANGED dropped
  BY <1>5 DEF WError, WCrash
<1> QED  BY <1>1, <1>2, <1>3, <1>4, <1>5 DEF Next

LEMMA StepKept == ASSUME Inv, Kept, [Next]_vars PROVE Kept'
<1> SUFFICES ASSUME dropped' = {} PROVE Custody'
  BY DEF Kept
<1>1. Custody
  BY OnceDropped DEF Kept, vars
<1>2. ASSUME NEW h \in Handlers, Request(h) PROVE Custody'
  BY <1>1, <1>2, AnalyzeKept, CorrectKept, ApproveKept, RejectKept, RetryKept, ApplyKept DEF Request
<1>3. ASSUME NEW h \in Handlers, HandlerStep(h) PROVE Custody'
  BY <1>1, <1>3, AnalyzeLatestKept, AnalyzeCreateKept, CorrectWriteKept, CorrectCreateKept,
     ApproveEditKept, ApproveWriteKept, ApproveCreateKept, ApproveQueueKept, RejectWriteKept,
     RetryReadKept, RetryCreateKept, RetryWriteKept, ApplyWriteKept, PublishKept, FailTaskKept,
     FailReadKept, FailWriteKept DEF HandlerStep
<1>4. ASSUME NEW h \in Handlers, Abort(h) PROVE FALSE
  BY <1>4 DEF Abort
<1>5. ASSUME NEW w \in Workers, WorkerStep(w) PROVE Custody'
  BY <1>1, <1>5, ReadKept, ClaimKept, BeginKept, MarkReadKept, MarkWriteKept, EngineOKKept,
     EngineErrorKept, DoneTaskKept, DoneReadKept, DoneWriteKept, WFailTaskKept, WFailReadKept,
     WFailWriteKept, RetryTaskKept, RetryTaskReadKept, RetryTaskWriteKept, RepublishKept,
     DeadLetterKept, AckKept DEF WorkerStep
<1>6. ASSUME NEW w \in Workers, WError(w) \/ WCrash(w) PROVE Custody'
  BY <1>1, <1>6, WErrorKept, WCrashKept
<1>7. CASE UNCHANGED vars
  BY <1>1, <1>7, UnderWaySame DEF vars, Custody, Numbered, Apart, Editing, Given, Covered, Untouched,
     SessionCovered, Owing, Busy, Unsettled, WAt
<1> QED  BY <1>2, <1>3, <1>4, <1>5, <1>6, <1>7 DEF Next

LEMMA AlwaysKept == Spec => [](Inv /\ Kept)
<1>1. Spec => []Inv
  BY Invariant
<1>2. Init => Kept
  BY InitKept
<1>3. Inv /\ Kept /\ [Next]_vars => Kept'
  BY StepKept
<1> QED  BY <1>1, <1>2, <1>3, PTL DEF Spec

(* A task row that says queued or processing is backed by whoever still    *)
(* publishes, executes or has buried it (main.go:128-148, workflow.go:     *)
(* 300-316), with any number of workers that crash at any point.           *)
THEOREM NothingIsLost == Spec => []NoLostTask
<1>1. Inv /\ Kept => NoLostTask
  <2> SUFFICES ASSUME Inv, Custody, NEW t \in UnderWay, ~ \E d \in dead : d.task = t
               PROVE  \/ \E h \in Handlers : req[h].task = t /\ req[h].pc # "idle"
                      \/ \E w \in Workers : Busy(w) /\ wrk[w].task = t
                      \/ \E m \in stream : m.task = t /\ Unsettled(m)
    BY DEF Kept, NoLostTask
  <2> QED  BY DEF Custody, Covered, Handing, Carrying, Past, Busy, Untouched, Unsettled, WAt
<1> QED  BY <1>1, AlwaysKept, PTL

(* A session whose status promises work has someone at work on it, or the  *)
(* drop is visible (dispatch, workflow.go:137-150; process, main.go:       *)
(* 108-152).                                                               *)
THEOREM SessionsAreNotStuck == Spec => []NoStuckSession
<1>1. Inv /\ Kept => NoStuckSession
  BY DEF Kept, Custody, SessionCovered, NoStuckSession
<1> QED  BY <1>1, AlwaysKept, PTL

-----------------------------------------------------------------------------
(***************************************************************************)
(* While nothing fails and no running entry is claimed, every task has one *)
(* owner at most, for any number of requests, workers and tasks: the       *)
(* request that will publish it, the new entry that is waiting, or the     *)
(* worker at it.  The row of the task is where its owner has brought it,   *)
(* because nobody else writes it; and so what is completed stays so.       *)
(***************************************************************************)
Quiet == faults = 0 /\ "claim" \notin dropped

Hands(h) == req[h].pc \in Handing
Works(w) == wrk[w].pc \notin {"idle", "ack"}

(* Nobody shares a task. *)
Sole ==
    /\ \A g, h \in Handlers : Hands(g) /\ Hands(h) /\ req[g].task = req[h].task => g = h
    /\ \A v, w \in Workers : Works(v) /\ Works(w) /\ wrk[v].task = wrk[w].task => v = w
    /\ \A m, n \in stream : m.st = "new" /\ n.st = "new" /\ m.task = n.task => m = n
    /\ \A h \in Handlers, w \in Workers : Hands(h) /\ Works(w) => req[h].task # wrk[w].task
    /\ \A h \in Handlers, m \in stream : Hands(h) /\ m.st = "new" => req[h].task # m.task
    /\ \A w \in Workers, m \in stream : Works(w) /\ m.st = "new" => wrk[w].task # m.task

(* The row, T[t], that the owner of a task can rely on.                    *)
RequestKnows(r, T) ==
    r.pc \in Handing =>
        /\ T[r.task].st = "queued"
        /\ T[r.task].attempt = IF r.pc = "approve_queue" THEN 1 ELSE r.attempt
EntryKnows(m, T) == m.st = "new" => T[m.task].st = "queued" /\ T[m.task].attempt = m.attempt
WorkerKnows(r, T) ==
    /\ r.pc \in {"begin", "retry_read", "retry_write", "republish"} =>
           T[r.task].st = "queued" /\ T[r.task].attempt = r.attempt
    /\ r.pc \in {"mark_read", "mark_write", "engine", "done_task", "fail_task"} =>
           T[r.task].st = "processing"
    /\ r.pc \in {"done_read", "done_write"} => T[r.task].st = "completed"
    /\ r.pc \in {"fail_read", "fail_write", "retry_task"} => T[r.task].st = "failed"

Owned ==
    /\ \A h \in Handlers : RequestKnows(req[h], tasks)
    /\ \A w \in Workers : WorkerKnows(wrk[w], tasks)
    /\ \A m \in stream : EntryKnows(m, tasks)

(* No entry is pending without a worker that works on it.                  *)
Posts ==
    /\ Numbered /\ Apart /\ \A w \in Workers : Given(w)
    /\ \A m \in stream : m.st = "pending" => \E w \in Workers : Holds(w, m)

Order == Posts /\ Sole /\ Owned

Ordered == Quiet => Order

-----------------------------------------------------------------------------
(* Lemmas about one step *)

LEMMA OwnersExist ==
  ASSUME Inv
  PROVE  /\ \A h \in Handlers : Hands(h) => req[h].task \in DOMAIN tasks
         /\ \A w \in Workers : Works(w) => wrk[w].task \in DOMAIN tasks
         /\ \A m \in stream : m.task \in DOMAIN tasks
<1>1. ASSUME NEW h \in Handlers, Hands(h) PROVE req[h].task \in DOMAIN tasks
  BY <1>1, RequestFacts DEF Hands, Handing, RequestFits, WithTask
<1>2. ASSUME NEW w \in Workers, Works(w) PROVE wrk[w].task \in DOMAIN tasks
  BY <1>2, WorkerFacts DEF Works, WorkerFits
<1>3. \A m \in stream : m.task \in DOMAIN tasks
  BY DEF Inv, EntryFits
<1> QED  BY <1>1, <1>2, <1>3

(* A request moves with the stream as it is: it owns the task it owned, or *)
(* a new one, and writes no row but its own task's.                        *)
LEMMA RequestOrder ==
  ASSUME Inv, Order, NEW h \in Handlers, NEW r, Become(h, r), UNCHANGED <<stream, nextID, wrk>>,
         \A t \in DOMAIN tasks : tasks'[t] = tasks[t] \/ (Hands(h) /\ t = req[h].task),
         Hands(h) => (r.pc \in Handing /\ UNCHANGED tasks) \/ r.pc \notin Handing,
         RequestKnows(r, tasks'),
         r.pc \in Handing => (Hands(h) /\ r.task = req[h].task) \/ r.task \notin DOMAIN tasks
  PROVE  Order'
<1>1. req'[h] = r /\ \A g \in Handlers : g # h => req'[g] = req[g]
  BY ReqMoves
<1>2. Posts'
  BY DEF Order, Posts, Numbered, Apart, Given, Holds, WAt
<1>3. Sole'
  BY <1>1, OwnersExist DEF Order, Sole, Hands, Works
<1>4. ASSUME NEW g \in Handlers PROVE RequestKnows(req'[g], tasks')
  <2>1. CASE g = h
    BY <1>1, <2>1
  <2>2. CASE g # h
    <3>1. CASE Hands(g)
      <4>1. tasks'[req[g].task] = tasks[req[g].task]
        BY <2>2, <3>1, OwnersExist DEF Order, Sole
      <4>2. RequestKnows(req[g], tasks)
        BY DEF Order, Owned
      <4> QED  BY <1>1, <2>2, <4>1, <4>2 DEF RequestKnows
    <3>2. CASE ~Hands(g)
      BY <1>1, <2>2, <3>2 DEF RequestKnows, Hands
    <3> QED  BY <3>1, <3>2
  <2> QED  BY <2>1, <2>2
<1>5. ASSUME NEW w \in Workers PROVE WorkerKnows(wrk'[w], tasks')
  <2>1. WorkerKnows(wrk[w], tasks)
    BY DEF Order, Owned
  <2>2. CASE Works(w)
    <3>1. tasks'[wrk[w].task] = tasks[wrk[w].task]
      BY <2>2, OwnersExist DEF Order, Sole
    <3> QED  BY <2>1, <3>1 DEF WorkerKnows
  <2>3. CASE ~Works(w)
    BY <2>3 DEF WorkerKnows, Works
  <2> QED  BY <2>2, <2>3
<1>6. ASSUME NEW m \in stream' PROVE EntryKnows(m, tasks')
  <2>1. EntryKnows(m, tasks)
    BY DEF Order, Owned
  <2>2. CASE m.st = "new"
    <3>1. tasks'[m.task] = tasks[m.task]
      BY <2>2, OwnersExist DEF Order, Sole
    <3> QED  BY <2>1, <3>1 DEF EntryKnows
  <2>3. CASE m.st # "new"
    BY <2>3 DEF EntryKnows
  <2> QED  BY <2>2, <2>3
<1> QED  BY <1>2, <1>3, <1>4, <1>5, <1>6 DEF Order, Owned

(* A worker moves with the stream as it is, keeps its entry, and writes no *)
(* row but its own task's.                                                 *)
LEMMA WorkerOrder ==
  ASSUME Inv, Order, NEW w \in Workers, NEW r, WBecome(w, r), UNCHANGED <<stream, nextID, req>>,
         \A t \in DOMAIN tasks : tasks'[t] = tasks[t] \/ t = wrk[w].task,
         Works(w), WorkerKnows(r, tasks'), r.msg = wrk[w].msg,
         \/ r.pc = "ack"
         \/ r.pc \notin {"idle", "ack"} /\ r.task = wrk[w].task
  PROVE  Order'
<1>1. wrk'[w] = r /\ \A v \in Workers : v # w => wrk'[v] = wrk[v]
  BY WrkMoves
<1>2. Posts'
  <2>1. Numbered'
    BY DEF Order, Posts, Numbered
  <2>2. Apart'
    BY <1>1 DEF Order, Posts, Apart, Works
  <2>3. ASSUME NEW v \in Workers PROVE Given(v)'
    BY <1>1 DEF Order, Posts, Given, Works
  <2>4. ASSUME NEW m \in stream', m.st = "pending" PROVE \E v \in Workers : Holds(v, m)'
    <3>1. PICK v \in Workers : Holds(v, m)
      BY <2>4 DEF Order, Posts
    <3>2. Holds(v, m)'
      BY <1>1, <3>1 DEF Holds, WAt
    <3> QED  BY <3>2
  <2> QED  BY <2>1, <2>2, <2>3, <2>4 DEF Posts
<1>3. Sole'
  BY <1>1 DEF Order, Sole, Hands, Works
<1>4. ASSUME NEW h \in Handlers PROVE RequestKnows(req'[h], tasks')
  <2>1. RequestKnows(req[h], tasks)
    BY DEF Order, Owned
  <2>2. CASE Hands(h)
    <3>1. tasks'[req[h].task] = tasks[req[h].task]
      BY <2>2, OwnersExist DEF Order, Sole
    <3> QED  BY <2>1, <3>1 DEF RequestKnows
  <2>3. CASE ~Hands(h)
    BY <2>3 DEF RequestKnows, Hands
  <2> QED  BY <2>2, <2>3
<1>5. ASSUME NEW v \in Workers PROVE WorkerKnows(wrk'[v], tasks')
  <2>1. CASE v = w
    BY <1>1, <2>1
  <2>2. CASE v # w /\ Works(v)
    <3>1. tasks'[wrk[v].task] = tasks[wrk[v].task]
      BY <2>2, OwnersExist DEF Order, Sole
    <3>2. WorkerKnows(wrk[v], tasks)
      BY DEF Order, Owned
    <3> QED  BY <1>1, <2>2, <3>1, <3>2 DEF WorkerKnows
  <2>3. CASE v # w /\ ~Works(v)
    BY <1>1, <2>3 DEF WorkerKnows, Works
  <2> QED  BY <2>1, <2>2, <2>3
<1>6. ASSUME NEW m \in stream' PROVE EntryKnows(m, tasks')
  <2>1. EntryKnows(m, tasks)
    BY DEF Order, Owned
  <2>2. CASE m.st = "new"
    <3>1. tasks'[m.task] = tasks[m.task]
      BY <2>2, OwnersExist DEF Order, Sole
    <3> QED  BY <2>1, <3>1 DEF EntryKnows
  <2>3. CASE m.st # "new"
    BY <2>3 DEF EntryKnows
  <2> QED  BY <2>2, <2>3
<1> QED  BY <1>2, <1>3, <1>4, <1>5, <1>6 DEF Order, Owned

-----------------------------------------------------------------------------
(* Requests *)

(* A request that owns no task before or after.                            *)
LEMMA FreeRequest ==
  ASSUME Inv, Order, NEW h \in Handlers, NEW r, Become(h, r), UNCHANGED <<tasks, stream, nextID, wrk>>,
         ~Hands(h), r.pc \notin Handing
  PROVE  Order'
  BY RequestOrder DEF RequestKnows

LEMMA GotoOrder ==
  ASSUME Inv, Order, NEW h \in Handlers, NEW pc, NEW s, Goto(h, pc, s), UNCHANGED <<tasks, stream, nextID, wrk>>,
         ~Hands(h), pc \notin Handing
  PROVE  Order'
<1> DEFINE r == [req[h] EXCEPT !.pc = pc, !.s = s]
<1>1. Become(h, r) /\ r.pc = pc
  BY RequestFacts DEF Goto, HandlerState
<1> HIDE DEF r
<1> QED  BY <1>1, FreeRequest

LEMMA ReturnOrder ==
  ASSUME Inv, Order, NEW h \in Handlers, Return(h), UNCHANGED <<tasks, stream, nextID, wrk>>, ~Hands(h)
  PROVE  Order'
<1>1. Idle.pc \notin Handing
  BY DEF Idle, Handing
<1> QED  BY <1>1, FreeRequest DEF Return

(* The steps that create, hand over or publish nothing.                    *)
LEMMA RequestsOrder ==
  ASSUME Inv, Order, NEW h \in Handlers, Request(h)
  PROVE  Order'
<1>1. ~Hands(h) /\ UNCHANGED <<tasks, stream, nextID, wrk>>
  BY DEF Request, Analyze, Correct, Approve, Reject, Retry, Apply, At, OnlyReq, OnlySession, Hands, Handing
<1>2. CASE \E pc, s : Goto(h, pc, s) /\ pc \notin Handing
  BY <1>1, <1>2, GotoOrder
<1>3. CASE \E t \in DOMAIN tasks :
             Become(h, [Idle EXCEPT !.pc = "retry_read", !.task = t, !.attempt = tasks[t].attempt + 1])
  <2>1. PICK t \in DOMAIN tasks :
             Become(h, [Idle EXCEPT !.pc = "retry_read", !.task = t, !.attempt = tasks[t].attempt + 1])
    BY <1>3
  <2> DEFINE r == [Idle EXCEPT !.pc = "retry_read", !.task = t, !.attempt = tasks[t].attempt + 1]
  <2>2. Become(h, r) /\ r.pc \notin Handing
    BY <2>1 DEF Idle, Handing
  <2> HIDE DEF r
  <2> QED  BY <1>1, <2>2, FreeRequest
<1>4. {"analyze_create", "analyze_latest", "correct_write", "approve_write", "approve_edit", "reject_write",
       "apply_write"} \cap Handing = {}
  BY DEF Handing
<1> QED  BY <1>2, <1>3, <1>4 DEF Request, Analyze, Correct, Approve, Reject, Retry, Apply

LEMMA FreeSteps ==
  ASSUME Inv, Order, NEW h \in Handlers,
         \/ AnalyzeLatest(h) \/ CorrectWrite(h) \/ ApproveEdit(h) \/ ApproveWrite(h) \/ RejectWrite(h)
         \/ RetryRead(h) \/ ApplyWrite(h) \/ FailRead(h) \/ FailWrite(h)
  PROVE  Order'
<1>1. ~Hands(h) /\ UNCHANGED <<tasks, stream, nextID, wrk>>
  BY DEF AnalyzeLatest, CorrectWrite, ApproveEdit, ApproveWrite, RejectWrite, RetryRead, ApplyWrite,
     FailRead, FailWrite, At, OnlyReq, OnlySession, Hands, Handing
<1>2. {"analyze_create", "correct_create", "approve_write", "approve_create", "retry_create", "fail_write"}
          \cap Handing = {}
  BY DEF Handing
<1>3. Return(h) \/ \E pc, s : Goto(h, pc, s) /\ pc \notin Handing
  BY <1>2 DEF AnalyzeLatest, CorrectWrite, ApproveEdit, ApproveWrite, RejectWrite, RetryRead, ApplyWrite,
     FailRead, FailWrite
<1> QED  BY <1>1, <1>3, GotoOrder, ReturnOrder

(* The row of a task that is created.                                      *)
LEMMA CreatedRow ==
  ASSUME Inv, NEW type \in TaskType, NEW attempt \in Nat, CreateTask(type, attempt)
  PROVE  /\ Len(tasks) + 1 \notin DOMAIN tasks
         /\ tasks'[Len(tasks) + 1].st = "queued" /\ tasks'[Len(tasks) + 1].attempt = attempt
         /\ \A t \in DOMAIN tasks : tasks'[t] = tasks[t]
<1> DEFINE row == [type |-> type, st |-> "queued", attempt |-> attempt, err |-> "none"]
<1>1. row \in TaskRow /\ tasks \in Seq(TaskRow) /\ tasks' = Append(tasks, row)
  BY DEF TaskRow, TaskStatus, CreateTask, Inv, StoreFits
<1>2. row.st = "queued" /\ row.attempt = attempt
  OBVIOUS
<1> HIDE DEF row
<1>3. /\ DOMAIN tasks = 1..Len(tasks) /\ Len(tasks) \in Nat
      /\ \A t \in 1..Len(tasks) : tasks'[t] = tasks[t]
      /\ tasks'[Len(tasks) + 1] = row
  BY <1>1
<1> QED  BY <1>2, <1>3

(* The request owns the task it creates.                                   *)
LEMMA CreateOrder ==
  ASSUME Inv, Order, NEW h \in Handlers, NEW type \in TaskType, NEW attempt \in Nat,
         CreateTask(type, attempt), UNCHANGED <<stream, nextID, wrk>>, ~Hands(h),
         NEW r, Become(h, r), r.task = Len(tasks) + 1,
         attempt = IF r.pc = "approve_queue" THEN 1 ELSE r.attempt
  PROVE  Order'
<1>1. /\ Len(tasks) + 1 \notin DOMAIN tasks
      /\ tasks'[Len(tasks) + 1].st = "queued" /\ tasks'[Len(tasks) + 1].attempt = attempt
      /\ \A t \in DOMAIN tasks : tasks'[t] = tasks[t]
  BY CreatedRow
<1>2. RequestKnows(r, tasks')
  BY <1>1 DEF RequestKnows
<1> QED  BY <1>1, <1>2, RequestOrder

LEMMA DispatchCarries ==
  ASSUME NEW h \in Handlers, NEW task, NEW attempt, NEW plan, NEW fb, Dispatch(h, task, attempt, plan, fb)
  PROVE  \E r : Become(h, r) /\ r.pc = "publish" /\ r.task = task /\ r.attempt = attempt
<1> DEFINE r == [Idle EXCEPT !.pc = "publish", !.task = task, !.attempt = attempt, !.plan = plan, !.fb = fb]
<1>1. Become(h, r) /\ r.pc = "publish" /\ r.task = task /\ r.attempt = attempt
  BY DEF Dispatch, Idle
<1> QED  BY <1>1

LEMMA AnalyzeCreateOrder == ASSUME Inv, Order, NEW h \in Handlers, AnalyzeCreate(h) PROVE Order'
<1>1. PICK r : Become(h, r) /\ r.pc = "publish" /\ r.task = Len(tasks) + 1 /\ r.attempt = 1
  <2>1. PICK plan, fb : Dispatch(h, Len(tasks) + 1, 1, plan, fb)
    BY DEF AnalyzeCreate
  <2> QED  BY <2>1, DispatchCarries
<1>2. CreateTask("initial_plan", 1) /\ UNCHANGED <<stream, nextID, wrk>> /\ ~Hands(h)
  BY DEF AnalyzeCreate, At, Hands, Handing, OnlyTasks
<1>3. "initial_plan" \in TaskType
  BY DEF TaskType
<1> QED  BY <1>1, <1>2, <1>3, CreateOrder

LEMMA CorrectCreateOrder == ASSUME Inv, Order, NEW h \in Handlers, CorrectCreate(h) PROVE Order'
<1>1. PICK r : Become(h, r) /\ r.pc = "publish" /\ r.task = Len(tasks) + 1 /\ r.attempt = 1
  <2>1. PICK plan, fb : Dispatch(h, Len(tasks) + 1, 1, plan, fb)
    BY DEF CorrectCreate
  <2> QED  BY <2>1, DispatchCarries
<1>2. CreateTask("plan_revision", 1) /\ UNCHANGED <<stream, nextID, wrk>> /\ ~Hands(h)
  BY DEF CorrectCreate, At, Hands, Handing, OnlyTasks
<1>3. "plan_revision" \in TaskType
  BY DEF TaskType
<1> QED  BY <1>1, <1>2, <1>3, CreateOrder

LEMMA ApproveCreateOrder == ASSUME Inv, Order, NEW h \in Handlers, ApproveCreate(h) PROVE Order'
<1> DEFINE r == [req[h] EXCEPT !.pc = "approve_queue", !.task = Len(tasks) + 1]
<1>1. Become(h, r) /\ r.pc = "approve_queue" /\ r.task = Len(tasks) + 1
  BY RequestFacts DEF ApproveCreate, HandlerState
<1> HIDE DEF r
<1>2. CreateTask("code_generation", 1) /\ UNCHANGED <<stream, nextID, wrk>> /\ ~Hands(h)
  BY DEF ApproveCreate, At, Hands, Handing, OnlyTasks
<1>3. "code_generation" \in TaskType
  BY DEF TaskType
<1> QED  BY <1>1, <1>2, <1>3, CreateOrder

LEMMA RetryCreateOrder == ASSUME Inv, Order, NEW h \in Handlers, RetryCreate(h) PROVE Order'
<1> DEFINE r == [req[h] EXCEPT !.pc = "retry_write", !.task = Len(tasks) + 1]
<1>1. Become(h, r) /\ r.pc = "retry_write" /\ r.task = Len(tasks) + 1 /\ r.attempt = req[h].attempt
  BY RequestFacts DEF RetryCreate, HandlerState
<1> HIDE DEF r
<1>2. /\ CreateTask(tasks[req[h].task].type, req[h].attempt) /\ UNCHANGED <<stream, nextID, wrk>> /\ ~Hands(h)
      /\ req[h].attempt \in Nat
  BY RequestFacts DEF RetryCreate, At, Hands, Handing, OnlyTasks
<1>3. req[h].task \in DOMAIN tasks
  BY RequestFacts DEF RetryCreate, At, RequestFits, WithTask
<1>4. tasks[req[h].task].type \in TaskType
  BY <1>3, TaskFacts
<1> QED  BY <1>1, <1>2, <1>4, CreateOrder

(* The request hands its task on.                                          *)
LEMMA HandOn ==
  ASSUME Inv, Order, NEW h \in Handlers, UNCHANGED <<tasks, stream, nextID, wrk>>, Hands(h),
         NEW r, Become(h, r), r.pc \in {"publish", "fail_task"}, r.task = req[h].task,
         r.attempt = IF req[h].pc = "approve_queue" THEN 1 ELSE req[h].attempt
  PROVE  Order'
<1>1. RequestKnows(req[h], tasks)
  BY DEF Order, Owned
<1>2. RequestKnows(r, tasks') /\ r.pc \in Handing
  BY <1>1 DEF RequestKnows, Hands, Handing
<1> QED  BY <1>2, RequestOrder

LEMMA ApproveQueueOrder == ASSUME Inv, Order, NEW h \in Handlers, ApproveQueue(h) PROVE Order'
<1>1. PICK r : Become(h, r) /\ r.pc = "publish" /\ r.task = req[h].task /\ r.attempt = 1
  <2>1. PICK plan, fb : Dispatch(h, req[h].task, 1, plan, fb)
    BY DEF ApproveQueue
  <2> QED  BY <2>1, DispatchCarries
<1>2. UNCHANGED <<tasks, stream, nextID, wrk>> /\ Hands(h) /\ req[h].pc = "approve_queue"
  BY DEF ApproveQueue, At, Hands, Handing, OnlySession
<1> QED  BY <1>1, <1>2, HandOn

LEMMA RetryWriteOrder == ASSUME Inv, Order, NEW h \in Handlers, RetryWrite(h) PROVE Order'
<1>1. PICK plan, fb : Dispatch(h, req[h].task, req[h].attempt, plan, fb)
  BY DEF RetryWrite
<1>2. PICK r : Become(h, r) /\ r.pc = "publish" /\ r.task = req[h].task /\ r.attempt = req[h].attempt
  BY <1>1, DispatchCarries
<1>3. UNCHANGED <<tasks, stream, nextID, wrk>> /\ Hands(h) /\ req[h].pc # "approve_queue"
  BY DEF RetryWrite, At, Hands, Handing, OnlySession
<1> QED  BY <1>2, <1>3, HandOn

LEMMA NoFault == ASSUME Inv, faults' = 0 PROVE ~Fault
  BY DEF Fault, Inv, Counters

(* The new entry owns the task that the request gives away.                *)
LEMMA PublishOrder == ASSUME Inv, Order, faults' = 0, NEW h \in Handlers, Publish(h) PROVE Order'
<1>1. UNCHANGED <<tasks, wrk>> /\ Hands(h) /\ req[h].pc = "publish"
  BY DEF Publish, At, Hands, Handing
<1>2. CASE ~QueueRoom
  <2> DEFINE r == [req[h] EXCEPT !.pc = "fail_task"]
  <2>1. Become(h, r) /\ UNCHANGED <<stream, nextID>>
    BY <1>2, NoFault DEF Publish
  <2>2. r.pc = "fail_task" /\ r.task = req[h].task /\ r.attempt = req[h].attempt
    BY RequestFacts DEF HandlerState
  <2> HIDE DEF r
  <2> QED  BY <1>1, <2>1, <2>2, HandOn
<1>3. CASE Add(req[h].task, req[h].attempt, req[h].plan, req[h].fb) /\ Return(h)
  <2> PICK e : e = [id |-> nextID, st |-> "new", task |-> req[h].task, attempt |-> req[h].attempt,
                    plan |-> req[h].plan, fb |-> req[h].fb]
    OBVIOUS
  <2>1. /\ stream' = stream \cup {e} /\ e.st = "new" /\ e.task = req[h].task
        /\ e.attempt = req[h].attempt
    BY <1>3 DEF Add
  <2>2. req'[h].pc = "idle" /\ \A g \in Handlers : g # h => req'[g] = req[g]
    BY <1>3, ReqMoves DEF Return, Idle
  <2>3. Posts'
    <3>1. Numbered' /\ Apart' /\ \A w \in Workers : Given(w)'
      BY <1>1, <1>3, EntryAdded DEF Order, Posts
    <3>2. \A m \in stream' : m.st = "pending" => \E w \in Workers : Holds(w, m)'
      BY <1>1, <2>1 DEF Order, Posts, Holds, WAt
    <3> QED  BY <3>1, <3>2 DEF Posts
  <2>4. Sole'
    BY <1>1, <2>1, <2>2 DEF Order, Sole, Hands, Works, Handing
  <2>5. \A g \in Handlers : RequestKnows(req'[g], tasks')
    BY <1>1, <2>2 DEF Order, Owned, RequestKnows, Handing
  <2>6. \A m \in stream' : EntryKnows(m, tasks')
    BY <1>1, <2>1 DEF Order, Owned, RequestKnows, EntryKnows, Hands
  <2> QED  BY <1>1, <2>3, <2>4, <2>5, <2>6 DEF Order, Owned
<1> QED  BY <1>2, <1>3, NoFault DEF Publish

LEMMA FailTaskOrder == ASSUME Inv, Order, NEW h \in Handlers, FailTask(h) PROVE Order'
<1> DEFINE r == [req[h] EXCEPT !.pc = "fail_read"]
<1>1. /\ Become(h, r) /\ UNCHANGED <<stream, nextID, wrk>> /\ Hands(h)
      /\ \E row : tasks' = [tasks EXCEPT ![req[h].task] = row]
  BY DEF FailTask, At, Hands, Handing, OnlyTasks
<1>2. r.pc \notin Handing
  BY RequestFacts DEF HandlerState, Handing
<1> HIDE DEF r
<1>3. \A t \in DOMAIN tasks : tasks'[t] = tasks[t] \/ (Hands(h) /\ t = req[h].task)
  <2>1. tasks \in Seq(TaskRow)
    BY DEF Inv, StoreFits
  <2> QED  BY <1>1, <2>1
<1>4. RequestKnows(r, tasks')
  BY <1>2 DEF RequestKnows
<1> QED  BY <1>1, <1>2, <1>3, <1>4, RequestOrder

-----------------------------------------------------------------------------
(* Workers *)

LEMMA OwnRow ==
  ASSUME Inv, NEW u, NEW row, tasks' = [tasks EXCEPT ![u] = row]
  PROVE  /\ \A t \in DOMAIN tasks : tasks'[t] = tasks[t] \/ t = u
         /\ u \in DOMAIN tasks => tasks'[u] = row
<1>1. tasks \in Seq(TaskRow)
  BY DEF Inv, StoreFits
<1> QED  BY <1>1

(* What a worker knows of its row when it has just written it.             *)
LEMMA WrittenOrder ==
  ASSUME Inv, Order, NEW w \in Workers, NEW pc, WGoto(w, pc), UNCHANGED <<stream, nextID, req>>,
         \A t \in DOMAIN tasks : tasks'[t] = tasks[t] \/ t = wrk[w].task,
         Works(w), pc \notin {"idle", "ack"},
         NEW row, tasks'[wrk[w].task] = row,
         pc \in {"begin", "retry_read", "retry_write", "republish"} =>
             row.st = "queued" /\ row.attempt = wrk[w].attempt,
         pc \in {"mark_read", "mark_write", "engine", "done_task", "fail_task"} => row.st = "processing",
         pc \in {"done_read", "done_write"} => row.st = "completed",
         pc \in {"fail_read", "fail_write", "retry_task"} => row.st = "failed"
  PROVE  Order'
<1> DEFINE r == [wrk[w] EXCEPT !.pc = pc]
<1>1. WBecome(w, r) /\ r.pc = pc /\ r.msg = wrk[w].msg /\ r.task = wrk[w].task /\ r.attempt = wrk[w].attempt
  BY WorkerFacts DEF WGoto, WorkerState
<1> HIDE DEF r
<1>2. WorkerKnows(r, tasks')
  BY <1>1 DEF WorkerKnows
<1> QED  BY <1>1, <1>2, WorkerOrder

(* A worker that writes no row: what it knew is enough for what it does    *)
(* next.                                                                   *)
LEMMA QuietOrder ==
  ASSUME Inv, Order, NEW w \in Workers, NEW r, WBecome(w, r), UNCHANGED <<tasks, stream, nextID, req>>,
         Works(w), r.msg = wrk[w].msg,
         \/ r.pc = "ack"
         \/ r.pc \notin {"idle", "ack"} /\ r.task = wrk[w].task,
         WorkerKnows(wrk[w], tasks) => WorkerKnows(r, tasks)
  PROVE  Order'
<1>1. WorkerKnows(r, tasks')
  BY DEF Order, Owned
<1> QED  BY <1>1, WorkerOrder

LEMMA WLoadOrder ==
  ASSUME Inv, Order, NEW w \in Workers, NEW pc, WLoad(w, pc), OnlyWrk,
         \/ wrk[w].pc = "mark_read" /\ pc = "mark_write"
         \/ wrk[w].pc = "done_read" /\ pc = "done_write"
         \/ wrk[w].pc = "fail_read" /\ pc = "fail_write"
         \/ wrk[w].pc = "retry_read" /\ pc = "retry_write"
  PROVE  Order'
<1> DEFINE r == [wrk[w] EXCEPT !.pc = pc, !.s = Load]
<1>1. WBecome(w, r) /\ r.pc = pc /\ r.msg = wrk[w].msg /\ r.task = wrk[w].task /\ r.attempt = wrk[w].attempt
  BY WorkerFacts DEF WLoad, WorkerState
<1> HIDE DEF r
<1>2. Works(w) /\ r.pc \notin {"idle", "ack"} /\ UNCHANGED <<tasks, stream, nextID, req>>
  BY <1>1 DEF Works, OnlyWrk
<1>3. WorkerKnows(wrk[w], tasks) => WorkerKnows(r, tasks)
  BY <1>1 DEF WorkerKnows
<1> QED  BY <1>1, <1>2, <1>3, QuietOrder

LEMMA WSaveOrder ==
  ASSUME Inv, Order, NEW w \in Workers, NEW s, NEW pc, WSave(w, s, pc),
         \/ wrk[w].pc = "mark_write" /\ pc = "engine"
         \/ wrk[w].pc = "done_write" /\ pc = "ack"
         \/ wrk[w].pc = "retry_write" /\ pc = "republish"
  PROVE  Order'
<1>1. Works(w) /\ UNCHANGED <<tasks, stream, nextID, req>>
  BY DEF WSave, Works
<1>2. CASE pc = "ack"
  <2> DEFINE r == Settled(wrk[w])
  <2>1. WBecome(w, r) /\ r.pc = "ack" /\ r.msg = wrk[w].msg
    BY <1>2 DEF WSave, Settled, Waiting
  <2> HIDE DEF r
  <2>2. WorkerKnows(r, tasks)
    BY <2>1 DEF WorkerKnows
  <2> QED  BY <1>1, <2>1, <2>2, QuietOrder
<1>3. CASE pc # "ack"
  <2> DEFINE r == [wrk[w] EXCEPT !.pc = pc, !.s = NoSnapshot]
  <2>1. WBecome(w, r) /\ r.pc = pc /\ r.msg = wrk[w].msg /\ r.task = wrk[w].task /\ r.attempt = wrk[w].attempt
    BY <1>3, WorkerFacts DEF WSave, WorkerState
  <2> HIDE DEF r
  <2>2. WorkerKnows(wrk[w], tasks) => WorkerKnows(r, tasks)
    BY <1>3, <2>1 DEF WorkerKnows
  <2>3. r.pc \notin {"idle", "ack"}
    BY <1>3, <2>1
  <2> QED  BY <1>1, <2>1, <2>2, <2>3, QuietOrder
<1> QED  BY <1>2, <1>3

LEMMA ReadsAndSaves ==
  ASSUME Inv, Order, NEW w \in Workers,
         \/ MarkRead(w) \/ MarkWrite(w) \/ DoneRead(w) \/ DoneWrite(w) \/ WFailRead(w)
         \/ RetryTaskRead(w) \/ RetryTaskWrite(w)
  PROVE  Order'
<1>1. CASE MarkRead(w) \/ DoneRead(w) \/ WFailRead(w) \/ RetryTaskRead(w)
  BY <1>1, WLoadOrder DEF MarkRead, DoneRead, WFailRead, RetryTaskRead, WAt
<1>2. CASE MarkWrite(w)
  BY <1>2, WSaveOrder DEF MarkWrite, WAt
<1>3. CASE DoneWrite(w)
  <2>1. PICK s : WSave(w, s, "ack")
    BY <1>3 DEF DoneWrite
  <2> QED  BY <1>3, <2>1, WSaveOrder DEF DoneWrite, WAt
<1>4. CASE RetryTaskWrite(w)
  BY <1>4, WSaveOrder DEF RetryTaskWrite, WAt
<1> QED  BY <1>1, <1>2, <1>3, <1>4

LEMMA BeginOrder == ASSUME Inv, Order, NEW w \in Workers, Begin(w) PROVE Order'
<1> DEFINE u == wrk[w].task
           row == [tasks[u] EXCEPT !.st = "processing", !.attempt = wrk[w].attempt, !.err = "none"]
<1>1. /\ tasks' = [tasks EXCEPT ![u] = row] /\ WGoto(w, "mark_read") /\ UNCHANGED <<stream, nextID, req>>
      /\ Works(w)
  BY DEF Begin, WAt, Works
<1>2. u \in DOMAIN tasks /\ row.st = "processing"
  BY <1>1, OwnersExist, TaskFacts DEF TaskRow
<1> HIDE DEF row
<1>3. tasks'[u] = row /\ \A t \in DOMAIN tasks : tasks'[t] = tasks[t] \/ t = u
  BY <1>1, <1>2, OwnRow
<1> QED  BY <1>1, <1>2, <1>3, WrittenOrder

LEMMA DoneTaskOrder == ASSUME Inv, Order, NEW w \in Workers, DoneTask(w) PROVE Order'
<1> DEFINE u == wrk[w].task
           row == [tasks[u] EXCEPT !.st = "completed", !.attempt = wrk[w].attempt, !.err = "none"]
<1>1. /\ tasks' = [tasks EXCEPT ![u] = row] /\ WGoto(w, "done_read") /\ UNCHANGED <<stream, nextID, req>>
      /\ Works(w)
  BY DEF DoneTask, WAt, Works
<1>2. u \in DOMAIN tasks /\ row.st = "completed"
  BY <1>1, OwnersExist, TaskFacts DEF TaskRow
<1> HIDE DEF row
<1>3. tasks'[u] = row /\ \A t \in DOMAIN tasks : tasks'[t] = tasks[t] \/ t = u
  BY <1>1, <1>2, OwnRow
<1> QED  BY <1>1, <1>2, <1>3, WrittenOrder

LEMMA WFailTaskOrder == ASSUME Inv, Order, NEW w \in Workers, WFailTask(w) PROVE Order'
<1> DEFINE u == wrk[w].task
           row == [tasks[u] EXCEPT !.st = "failed", !.err = wrk[w].err]
<1>1. /\ tasks' = [tasks EXCEPT ![u] = row] /\ WGoto(w, "fail_read") /\ UNCHANGED <<stream, nextID, req>>
      /\ Works(w)
  BY DEF WFailTask, WAt, Works
<1>2. u \in DOMAIN tasks /\ row.st = "failed"
  BY <1>1, OwnersExist, TaskFacts DEF TaskRow
<1> HIDE DEF row
<1>3. tasks'[u] = row /\ \A t \in DOMAIN tasks : tasks'[t] = tasks[t] \/ t = u
  BY <1>1, <1>2, OwnRow
<1> QED  BY <1>1, <1>2, <1>3, WrittenOrder

LEMMA RetryTaskOrder == ASSUME Inv, Order, NEW w \in Workers, RetryTask(w) PROVE Order'
<1> DEFINE u == wrk[w].task
           row == [tasks[u] EXCEPT !.st = "queued", !.attempt = wrk[w].attempt]
<1>1. /\ tasks' = [tasks EXCEPT ![u] = row] /\ WGoto(w, "retry_read") /\ UNCHANGED <<stream, nextID, req>>
      /\ Works(w)
  BY DEF RetryTask, WAt, Works
<1>2. u \in DOMAIN tasks /\ row.st = "queued" /\ row.attempt = wrk[w].attempt
  BY <1>1, OwnersExist, TaskFacts DEF TaskRow
<1> HIDE DEF row
<1>3. tasks'[u] = row /\ \A t \in DOMAIN tasks : tasks'[t] = tasks[t] \/ t = u
  BY <1>1, <1>2, OwnRow
<1> QED  BY <1>1, <1>2, <1>3, WrittenOrder

LEMMA EngineOKOrder == ASSUME Inv, Order, NEW w \in Workers, EngineOK(w) PROVE Order'
<1>1. PICK out : WBecome(w, [wrk[w] EXCEPT !.pc = "done_task", !.out = out])
  BY DEF EngineOK
<1> DEFINE r == [wrk[w] EXCEPT !.pc = "done_task", !.out = out]
<1>2. WBecome(w, r) /\ r.pc = "done_task" /\ r.msg = wrk[w].msg /\ r.task = wrk[w].task
  BY <1>1, WorkerFacts DEF WorkerState
<1> HIDE DEF r
<1>3. /\ Works(w) /\ UNCHANGED <<tasks, stream, nextID, req>> /\ r.pc \notin {"idle", "ack"}
      /\ WorkerKnows(wrk[w], tasks) => WorkerKnows(r, tasks)
  BY <1>2 DEF EngineOK, WAt, Works, WorkerKnows
<1> QED  BY <1>2, <1>3, QuietOrder

LEMMA EngineErrorOrder == ASSUME Inv, Order, NEW w \in Workers, EngineError(w) PROVE Order'
<1>1. PICK e : WBecome(w, [wrk[w] EXCEPT !.pc = "fail_task", !.err = e])
  BY DEF EngineError
<1> DEFINE r == [wrk[w] EXCEPT !.pc = "fail_task", !.err = e]
<1>2. WBecome(w, r) /\ r.pc = "fail_task" /\ r.msg = wrk[w].msg /\ r.task = wrk[w].task
  BY <1>1, WorkerFacts DEF WorkerState
<1> HIDE DEF r
<1>3. /\ Works(w) /\ UNCHANGED <<tasks, stream, nextID, req>> /\ r.pc \notin {"idle", "ack"}
      /\ WorkerKnows(wrk[w], tasks) => WorkerKnows(r, tasks)
  BY <1>2 DEF EngineError, OnlyWrk, WAt, Works, WorkerKnows
<1> QED  BY <1>2, <1>3, QuietOrder

LEMMA WFailWriteOrder == ASSUME Inv, Order, NEW w \in Workers, WFailWrite(w) PROVE Order'
<1> DEFINE a == [wrk[w] EXCEPT !.pc = "retry_task", !.attempt = @ + 1, !.s = NoSnapshot]
           b == [wrk[w] EXCEPT !.pc = "dead", !.s = NoSnapshot]
<1>1. WBecome(w, a) \/ WBecome(w, b)
  BY DEF WFailWrite, Decided
<1>2. /\ a.pc = "retry_task" /\ a.msg = wrk[w].msg /\ a.task = wrk[w].task
      /\ b.pc = "dead" /\ b.msg = wrk[w].msg /\ b.task = wrk[w].task
  BY WorkerFacts DEF WorkerState
<1> HIDE DEF a, b
<1>3. /\ Works(w) /\ UNCHANGED <<tasks, stream, nextID, req>>
      /\ WorkerKnows(wrk[w], tasks) => WorkerKnows(a, tasks) /\ WorkerKnows(b, tasks)
  BY <1>2 DEF WFailWrite, WAt, Works, WorkerKnows
<1> QED  BY <1>1, <1>2, <1>3, QuietOrder

LEMMA SettleOrder ==
  ASSUME Inv, Order, NEW w \in Workers, WSettle(w), UNCHANGED <<tasks, stream, nextID, req>>, Works(w)
  PROVE  Order'
<1> DEFINE r == Settled(wrk[w])
<1>1. WBecome(w, r) /\ r.pc = "ack" /\ r.msg = wrk[w].msg
  BY DEF WSettle, Settled, Waiting
<1> HIDE DEF r
<1>2. WorkerKnows(r, tasks)
  BY <1>1 DEF WorkerKnows
<1> QED  BY <1>1, <1>2, QuietOrder

LEMMA DeadLetterOrder == ASSUME Inv, Order, NEW w \in Workers, DeadLetter(w) PROVE Order'
  BY SettleOrder DEF DeadLetter, WAt, Works

(* The new entry owns the task that the worker gives away.                 *)
LEMMA RepublishOrder == ASSUME Inv, Order, faults' = 0, NEW w \in Workers, Republish(w) PROVE Order'
<1>1. UNCHANGED <<tasks, req>> /\ Works(w) /\ wrk[w].pc = "republish"
  BY DEF Republish, WAt, Works
<1>2. CASE ~QueueRoom
  <2> DEFINE r == [wrk[w] EXCEPT !.pc = "dead"]
  <2>1. WBecome(w, r) /\ UNCHANGED <<stream, nextID>>
    BY <1>2, NoFault DEF Republish, WGoto
  <2>2. r.pc = "dead" /\ r.task = wrk[w].task /\ r.msg = wrk[w].msg
    BY WorkerFacts DEF WorkerState
  <2> HIDE DEF r
  <2>3. WorkerKnows(r, tasks)
    BY <2>2 DEF WorkerKnows
  <2> QED  BY <1>1, <2>1, <2>2, <2>3, QuietOrder
<1>3. CASE Add(wrk[w].task, wrk[w].attempt, wrk[w].plan, wrk[w].fb) /\ WSettle(w)
  <2> PICK e : e = [id |-> nextID, st |-> "new", task |-> wrk[w].task, attempt |-> wrk[w].attempt,
                    plan |-> wrk[w].plan, fb |-> wrk[w].fb]
    OBVIOUS
  <2>1. stream' = stream \cup {e} /\ e.st = "new" /\ e.task = wrk[w].task /\ e.attempt = wrk[w].attempt
    BY <1>3 DEF Add
  <2> PICK r : r = Settled(wrk[w])
    OBVIOUS
  <2>2. /\ wrk'[w] = r /\ r.pc = "ack" /\ r.msg = wrk[w].msg
        /\ \A v \in Workers : v # w => wrk'[v] = wrk[v]
    BY <1>3, WrkMoves DEF WSettle, Settled, Waiting
  <2>3. Posts'
    <3>1. \A v \in Workers : wrk'[v].pc # "idle" =>
             /\ wrk'[v].msg = wrk[v].msg /\ wrk[v].pc # "idle"
             /\ wrk'[v].pc # "ack" => wrk[v].pc # "ack" /\ wrk'[v].task = wrk[v].task
      BY <1>1, <2>2
    <3>2. Numbered' /\ Apart' /\ \A v \in Workers : Given(v)'
      BY <1>3, <3>1, EntryAdded DEF Order, Posts
    <3>3. \A m \in stream' : m.st = "pending" => \E v \in Workers : Holds(v, m)'
      BY <2>1, <2>2 DEF Order, Posts, Holds, WAt
    <3> QED  BY <3>2, <3>3 DEF Posts
  <2>4. Sole'
    BY <1>1, <2>1, <2>2 DEF Order, Sole, Hands, Works
  <2>5. \A v \in Workers : WorkerKnows(wrk'[v], tasks')
    BY <1>1, <2>2 DEF Order, Owned, WorkerKnows
  <2>6. \A m \in stream' : EntryKnows(m, tasks')
    BY <1>1, <2>1 DEF Order, Owned, WorkerKnows, EntryKnows
  <2> QED  BY <1>1, <2>3, <2>4, <2>5, <2>6 DEF Order, Owned
<1> QED  BY <1>2, <1>3, NoFault DEF Republish

LEMMA AckOrder == ASSUME Inv, Order, NEW w \in Workers, Ack(w) PROVE Order'
<1>1. /\ wrk[w].pc = "ack" /\ stream' = {m \in stream : m.id # wrk[w].msg} /\ Drop(w)
      /\ UNCHANGED <<tasks, nextID, req>>
  BY DEF Ack, WAt
<1>2. wrk'[w].pc = "idle" /\ \A v \in Workers : v # w => wrk'[v] = wrk[v]
  BY <1>1, WrkMoves DEF Drop, Waiting
<1>3. Posts'
  <2>1. Numbered' /\ Apart'
    BY <1>1, <1>2 DEF Order, Posts, Numbered, Apart
  <2>2. ASSUME NEW v \in Workers PROVE Given(v)'
    BY <1>1, <1>2 DEF Order, Posts, Given, Apart
  <2>3. ASSUME NEW m \in stream', m.st = "pending" PROVE \E v \in Workers : Holds(v, m)'
    <3>1. PICK v \in Workers : Holds(v, m)
      BY <1>1, <2>3 DEF Order, Posts
    <3>2. Holds(v, m)'
      BY <1>1, <1>2, <3>1 DEF Holds, WAt
    <3> QED  BY <3>2
  <2> QED  BY <2>1, <2>2, <2>3 DEF Posts
<1>4. Sole'
  BY <1>1, <1>2 DEF Order, Sole, Hands, Works
<1>5. Owned'
  BY <1>1, <1>2 DEF Order, Owned, WorkerKnows
<1> QED  BY <1>3, <1>4, <1>5 DEF Order

(* The worker takes over the task of the entry it is given.                *)
LEMMA ReadOrder == ASSUME Inv, Order, NEW w \in Workers, Read(w) PROVE Order'
<1>1. PICK m \in stream : m.st = "new" /\ Deliver(w, m)
  BY DEF Read
<1> DEFINE e == [m EXCEPT !.st = "pending"]
           r == [Waiting EXCEPT !.pc = "begin", !.msg = m.id, !.task = m.task,
                                !.attempt = m.attempt, !.plan = m.plan, !.fb = m.fb]
<1>2. /\ stream' = (stream \ {m}) \cup {e} /\ WBecome(w, r) /\ wrk[w].pc = "idle"
      /\ UNCHANGED <<tasks, nextID, req>>
  BY <1>1 DEF Deliver, Read, WAt
<1>3. /\ e.id = m.id /\ e.task = m.task /\ e.st = "pending"
      /\ r.pc = "begin" /\ r.msg = m.id /\ r.task = m.task /\ r.attempt = m.attempt
  BY DEF Inv, EntryFits, Entry, Waiting
<1> HIDE DEF e, r
<1>4. wrk'[w] = r /\ \A v \in Workers : v # w => wrk'[v] = wrk[v]
  BY <1>2, WrkMoves
<1>5. \A v \in Workers : ~Holds(v, m)
  BY <1>1 DEF Holds, WAt, Order, Posts, Given, Numbered
<1>6. Posts'
  <2>1. Numbered'
    BY <1>2, <1>3 DEF Order, Posts, Numbered
  <2>2. Apart'
    BY <1>2, <1>3, <1>4, <1>5 DEF Order, Posts, Apart, Holds, WAt
  <2>3. ASSUME NEW v \in Workers PROVE Given(v)'
    <3>1. CASE v = w
      BY <1>2, <1>3, <1>4, <3>1 DEF Given
    <3>2. CASE v # w /\ wrk[v].pc = "idle"
      BY <1>4, <3>2 DEF Given
    <3>3. CASE v # w /\ wrk[v].pc # "idle"
      <4>1. PICK n \in stream : /\ n.id = wrk[v].msg /\ n.st = "pending"
                                /\ wrk[v].pc # "ack" => n.task = wrk[v].task
        BY <3>3 DEF Order, Posts, Given
      <4>2. n \in stream'
        BY <1>1, <1>2, <4>1
      <4> QED  BY <1>4, <3>3, <4>1, <4>2 DEF Given
    <3> QED  BY <3>1, <3>2, <3>3
  <2>4. ASSUME NEW n \in stream', n.st = "pending" PROVE \E v \in Workers : Holds(v, n)'
    <3>1. CASE n = e
      BY <1>3, <1>4, <3>1 DEF Holds, WAt
    <3>2. CASE n # e
      <4>1. PICK v \in Workers : Holds(v, n)
        BY <1>2, <2>4, <3>2 DEF Order, Posts
      <4>2. Holds(v, n)'
        BY <1>2, <1>4, <4>1 DEF Holds, WAt
      <4> QED  BY <4>2
    <3> QED  BY <3>1, <3>2
  <2> QED  BY <2>1, <2>2, <2>3, <2>4 DEF Posts
<1>7. Sole'
  BY <1>1, <1>2, <1>3, <1>4 DEF Order, Sole, Hands, Works
<1>8. \A v \in Workers : WorkerKnows(wrk'[v], tasks')
  BY <1>1, <1>2, <1>3, <1>4 DEF Order, Owned, EntryKnows, WorkerKnows
<1>9. \A n \in stream' : EntryKnows(n, tasks')
  BY <1>2, <1>3 DEF Order, Owned, EntryKnows
<1> QED  BY <1>2, <1>6, <1>7, <1>8, <1>9 DEF Order, Owned

(* Every pending entry has its worker, so that a claim is one that drops.  *)
LEMMA ClaimDrops == ASSUME Inv, Order, NEW w \in Workers, Claim(w) PROVE "claim" \in dropped'
<1>1. PICK m \in stream :
         /\ m.st = "pending"
         /\ dropped' = IF \E v \in Workers : Holds(v, m) THEN dropped \cup {"claim"} ELSE dropped
  BY DEF Claim
<1> QED  BY <1>1 DEF Order, Posts

-----------------------------------------------------------------------------
(* The invariant *)

LEMMA InitOrder == Init => Ordered
  BY DEF Init, Ordered, Order, Posts, Numbered, Apart, Given, Sole, Owned, Idle, Waiting, Hands, Works, Handing,
     RequestKnows, WorkerKnows

LEMMA OnceLoud == ASSUME Inv, Next, Quiet' PROVE Quiet
<1>1. dropped \subseteq dropped'
  BY OnceDropped
<1>2. faults' = faults \/ faults' = faults + 1
  <2>1. ASSUME NEW h \in Handlers, Request(h) PROVE UNCHANGED faults
    BY <2>1 DEF Request, Analyze, Correct, Approve, Reject, Retry, Apply, OnlyReq, OnlySession
  <2>2. ASSUME NEW h \in Handlers, HandlerStep(h), ~Publish(h) PROVE UNCHANGED faults
    BY <2>2 DEF HandlerStep, AnalyzeLatest, AnalyzeCreate, CorrectWrite, CorrectCreate, ApproveEdit,
       ApproveWrite, ApproveCreate, ApproveQueue, RejectWrite, RetryRead, RetryCreate, RetryWrite,
       ApplyWrite, FailTask, FailRead, FailWrite, OnlyReq, OnlySession, OnlyTasks
  <2>3. ASSUME NEW h \in Handlers, Publish(h) \/ Abort(h) PROVE UNCHANGED faults \/ Fault
    BY <2>3 DEF Publish, Abort
  <2>4. ASSUME NEW w \in Workers, WorkerStep(w), ~Republish(w) PROVE UNCHANGED faults
    BY <2>4 DEF WorkerStep, Read, Claim, Deliver, Begin, MarkRead, MarkWrite, EngineOK, EngineError, DoneTask,
       DoneRead, DoneWrite, WFailTask, WFailRead, WFailWrite, RetryTask, RetryTaskRead, RetryTaskWrite,
       DeadLetter, Ack, OnlyWrk, WSave
  <2>5. ASSUME NEW w \in Workers, Republish(w) \/ WError(w) \/ WCrash(w) PROVE UNCHANGED faults \/ Fault
    BY <2>5 DEF Republish, WError, WCrash
  <2> QED  BY <2>1, <2>2, <2>3, <2>4, <2>5 DEF Next, Fault
<1> QED  BY <1>1, <1>2 DEF Quiet, Inv, Counters

LEMMA StepOrder == ASSUME Inv, Ordered, [Next]_vars PROVE Ordered'
<1> SUFFICES ASSUME Quiet' PROVE Order'
  BY DEF Ordered
<1>1. CASE UNCHANGED vars
  BY <1>1 DEF vars, Quiet, Ordered, Order, Posts, Numbered, Apart, Given, Holds, WAt, Sole, Hands, Works, Owned
<1>2. CASE Next
  <2>1. Order /\ faults' = 0 /\ "claim" \notin dropped' /\ ~Fault
    BY <1>2, OnceLoud, NoFault DEF Ordered, Quiet
  <2>2. ASSUME NEW h \in Handlers, Request(h) PROVE Order'
    BY <2>1, <2>2, RequestsOrder
  <2>3. ASSUME NEW h \in Handlers, HandlerStep(h) PROVE Order'
    BY <2>1, <2>3, FreeSteps, AnalyzeCreateOrder, CorrectCreateOrder, ApproveCreateOrder, ApproveQueueOrder,
       RetryCreateOrder, RetryWriteOrder, PublishOrder, FailTaskOrder DEF HandlerStep
  <2>4. ASSUME NEW w \in Workers, WorkerStep(w) PROVE Order'
    BY <2>1, <2>4, ReadOrder, ClaimDrops, BeginOrder, ReadsAndSaves, EngineOKOrder, EngineErrorOrder,
       DoneTaskOrder, WFailTaskOrder, WFailWriteOrder, RetryTaskOrder, RepublishOrder, DeadLetterOrder,
       AckOrder DEF WorkerStep
  <2>5. \A h \in Handlers : ~Abort(h)
    BY <2>1 DEF Abort
  <2>6. \A w \in Workers : ~WError(w) /\ ~WCrash(w)
    BY <2>1 DEF WError, WCrash
  <2> QED  BY <1>2, <2>2, <2>3, <2>4, <2>5, <2>6 DEF Next
<1> QED  BY <1>1, <1>2

LEMMA AlwaysOrdered == Spec => [](Inv /\ Ordered)
<1>1. Spec => []Inv
  BY Invariant
<1>2. Init => Ordered
  BY InitOrder
<1>3. Inv /\ Ordered /\ [Next]_vars => Ordered'
  BY StepOrder
<1> QED  BY <1>1, <1>2, <1>3, PTL DEF Spec

(* Only the owner of a task writes its row, and a completed one no owner   *)
(* writes again.                                                           *)
LEMMA CompletedStays ==
  ASSUME Inv, Ordered, [Next]_vars, Quiet', NEW t \in DOMAIN tasks, tasks[t].st = "completed"
  PROVE  tasks'[t].st = "completed"
<1>1. CASE UNCHANGED tasks
  BY <1>1
<1>2. CASE Next /\ ~UNCHANGED tasks
  <2>1. Order /\ ~Fault
    BY <1>2, OnceLoud, NoFault DEF Ordered, Quiet
  <2>2. CASE \E type \in TaskType, attempt \in Nat : CreateTask(type, attempt)
    BY <2>2, CreatedRow
  <2>3. CASE \E h \in Handlers : FailTask(h)
    <3>1. PICK h \in Handlers : FailTask(h)
      BY <2>3
    <3>2. Hands(h) /\ \E row : tasks' = [tasks EXCEPT ![req[h].task] = row]
      BY <3>1 DEF FailTask, At, Hands, Handing
    <3>3. t # req[h].task
      BY <2>1, <3>2 DEF Order, Owned, RequestKnows, Hands
    <3> QED  BY <3>2, <3>3, OwnRow
  <2>4. CASE \E w \in Workers : Begin(w) \/ DoneTask(w) \/ WFailTask(w) \/ RetryTask(w)
    <3>1. PICK w \in Workers : Begin(w) \/ DoneTask(w) \/ WFailTask(w) \/ RetryTask(w)
      BY <2>4
    <3>2. \E row : tasks' = [tasks EXCEPT ![wrk[w].task] = row]
      BY <3>1 DEF Begin, DoneTask, WFailTask, RetryTask
    <3>3. t # wrk[w].task
      BY <2>1, <3>1 DEF Order, Owned, WorkerKnows, Begin, DoneTask, WFailTask, RetryTask, WAt
    <3> QED  BY <3>2, <3>3, OwnRow
  <2>5. ASSUME NEW h \in Handlers, Request(h) PROVE UNCHANGED tasks
    BY <2>5 DEF Request, Analyze, Correct, Approve, Reject, Retry, Apply, OnlyReq, OnlySession
  <2>6. ASSUME NEW h \in Handlers, HandlerStep(h) \/ Abort(h), ~FailTask(h)
        PROVE  UNCHANGED tasks \/ \E type \in TaskType, attempt \in Nat : CreateTask(type, attempt)
    <3>1. CASE RetryCreate(h)
      <4>1. req[h].task \in DOMAIN tasks /\ req[h].attempt \in Nat
        BY <3>1, RequestFacts DEF RetryCreate, At, RequestFits, WithTask
      <4>2. tasks[req[h].task].type \in TaskType
        BY <4>1, TaskFacts
      <4> QED  BY <3>1, <4>1, <4>2 DEF RetryCreate
    <3>2. CASE AnalyzeCreate(h) \/ CorrectCreate(h) \/ ApproveCreate(h)
      BY <3>2 DEF AnalyzeCreate, CorrectCreate, ApproveCreate, TaskType
    <3>3. CASE ~RetryCreate(h) /\ ~AnalyzeCreate(h) /\ ~CorrectCreate(h) /\ ~ApproveCreate(h)
      BY <2>6, <3>3 DEF HandlerStep, AnalyzeLatest, CorrectWrite, ApproveEdit, ApproveWrite, ApproveQueue,
         RejectWrite, RetryRead, RetryWrite, ApplyWrite, Publish, FailRead, FailWrite, Abort, OnlyReq,
         OnlySession
    <3> QED  BY <3>1, <3>2, <3>3
  <2>7. ASSUME NEW w \in Workers, WorkerStep(w) \/ WError(w) \/ WCrash(w),
               ~Begin(w), ~DoneTask(w), ~WFailTask(w), ~RetryTask(w)
        PROVE  UNCHANGED tasks
    BY <2>7 DEF WorkerStep, Read, Claim, Deliver, MarkRead, MarkWrite, EngineOK, EngineError, DoneRead,
       DoneWrite, WFailRead, WFailWrite, RetryTaskRead, RetryTaskWrite, Republish, DeadLetter, Ack,
       OnlyWrk, WSave, WError, WCrash
  <2> QED  BY <1>2, <2>2, <2>3, <2>4, <2>5, <2>6, <2>7 DEF Next
<1> QED  BY <1>1, <1>2 DEF vars

(* While nothing fails, a new entry has the queued row of its own attempt, *)
(* and no task is in the stream twice (workflow.go:107-131, 300-316).      *)
THEOREM RowsAndStreamMatch == Spec => []RowsMatchStream
<1>1. Inv /\ Ordered => RowsMatchStream
  BY DEF Ordered, Quiet, Order, Sole, Owned, EntryKnows, RowsMatchStream
<1> QED  BY <1>1, AlwaysOrdered, PTL

(* While nothing fails and no running entry is claimed, nobody touches the *)
(* row of a completed task (workflow.go:167-173, 318-334).                 *)
THEOREM CompletedRowsAreFinal == Spec => CompletedIsFinal
<1>1. Inv /\ Ordered /\ [Next]_vars =>
         [faults' = 0 /\ "claim" \notin dropped' =>
            \A t \in DOMAIN tasks : tasks[t].st = "completed" => tasks'[t].st = "completed"]_vars
  BY CompletedStays DEF Quiet
<1> QED  BY <1>1, AlwaysOrdered, PTL DEF Spec, CompletedIsFinal

=============================================================================
