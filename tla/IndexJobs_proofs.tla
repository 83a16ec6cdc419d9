-------------------------- MODULE IndexJobs_proofs --------------------------
(***************************************************************************)
(* The safety of background indexing, for any number of requests, jobs,    *)
(* commits, configurations and faults.                                     *)
(***************************************************************************)
EXTENDS IndexJobs, TLAPS

Procs == Callers \cup Jobs

Fresh(r, ix) ==
    IF r.sha = NoCommit THEN r.tree >= r.since
    ELSE ix[r.sha] # NotIndexed /\ ix[r.sha].from >= r.since

(* What a process has read so far is recent enough for the label it will   *)
(* store it under: r is its state, h the head of the branch and ix the     *)
(* index.                                                                  *)
ProcessOK(r, h, ix) ==
    /\ r \in Process /\ r.sha \in 0..h /\ r.since <= h
    /\ r.sha # NoCommit => r.since = r.sha
    /\ r.pc = "status" => r.sha # NoCommit
    /\ r.pc \in {"config", "index"} => r.tree >= r.sha /\ r.tree >= r.since
    /\ r.pc = "ready" => Fresh(r, ix)

Values ==
    /\ head \in Commits /\ config \in Nat /\ faults \in Nat
    /\ index \in [Commits -> [from : Nat, cfg : Nat]]
    /\ job \in [gen : 0..MaxJobs, st : {"none", "running", "completed", "failed"}, fresh : BOOLEAN]
    /\ closed \in SUBSET Nat
    /\ sync \in [Procs -> Process]

(* The registry: a job that has not been started has done nothing, a       *)
(* running job is registered under its own number, and a goroutine closes  *)
(* its own channel.                                                        *)
Registry ==
    /\ job.st = "running" => job.gen \in Jobs
    /\ \A g \in Jobs : g > job.gen => At(g, "idle")
    /\ \A g \in Jobs : At(g, "close") => sync[g].gen = g
    /\ SingleFlight
    /\ NoLostWakeup

Inv ==
    /\ Values
    /\ Registry
    /\ \A p \in Procs : ProcessOK(sync[p], head, index)
    /\ IndexNeverOlder

(* The index only gains commits, and keeps none that is too old.           *)
IndexGrows ==
    /\ index' \in [Commits -> [from : Nat, cfg : Nat]]
    /\ \A c \in Commits : index'[c] # NotIndexed => index'[c].from >= c
    /\ \A c \in Commits : index[c] # NotIndexed => index'[c] # NotIndexed

USE IndexAssumption

-----------------------------------------------------------------------------
(* Lemmas about one step *)

LEMMA BecomeEffect ==
  ASSUME Values, NEW p \in Procs, NEW r \in Process, Become(p, r)
  PROVE  /\ sync' \in [Procs -> Process]
         /\ sync'[p] = r
         /\ \A q \in Procs \ {p} : sync'[q] = sync[q]
  BY DEF Values, Become

(* Whoever does not move stays right while the branch and the index grow.  *)
LEMMA ProcessStays ==
  ASSUME Inv, NEW r, ProcessOK(r, head, index), IndexGrows, head' \in Commits, head' >= head
  PROVE  ProcessOK(r, head', index')
<1>1. r \in Process /\ r.sha \in 0..head /\ r.since \in Nat /\ head \in Nat /\ head \in Commits
  BY DEF ProcessOK, Inv, Values, Commits, Process
<1>2. r.sha \in 0..head' /\ r.since <= head'
  BY <1>1 DEF Commits, ProcessOK
<1>3. r.pc = "ready" => Fresh(r, index')
  <2>1. SUFFICES ASSUME r.pc = "ready", r.sha # NoCommit
                 PROVE  index'[r.sha] # NotIndexed /\ index'[r.sha].from >= r.since
    BY DEF Fresh, ProcessOK
  <2>2. r.sha \in Commits
    BY <1>1, <2>1 DEF Commits, NoCommit
  <2>3. index'[r.sha] # NotIndexed /\ index'[r.sha].from >= r.sha
    BY <2>1, <2>2 DEF ProcessOK, Fresh, IndexGrows
  <2> QED  BY <2>1, <2>3 DEF ProcessOK
<1> QED  BY <1>1, <1>2, <1>3 DEF ProcessOK

LEMMA IndexUnchanged == ASSUME Inv, UNCHANGED index PROVE IndexGrows
  BY DEF Inv, Values, IndexNeverOlder, IndexGrows

(* One process moves.                                                      *)
LEMMA OneMoves ==
  ASSUME Inv, NEW p \in Procs, NEW r, Become(p, r), IndexGrows, head' = head,
         ProcessOK(r, head, index')
  PROVE  /\ sync' \in [Procs -> Process]
         /\ sync'[p] = r
         /\ \A q \in Procs \ {p} : sync'[q] = sync[q]
         /\ \A q \in Procs : ProcessOK(sync'[q], head', index')
<1>1. r \in Process
  BY DEF ProcessOK
<1>2. /\ sync' \in [Procs -> Process]
      /\ sync'[p] = r
      /\ \A q \in Procs \ {p} : sync'[q] = sync[q]
  BY <1>1, BecomeEffect DEF Inv
<1>3. head' \in Commits /\ head' >= head
  BY DEF Inv, Values, Commits
<1>4. ASSUME NEW q \in Procs PROVE ProcessOK(sync'[q], head', index')
  <2>1. CASE q = p
    BY <2>1, <1>2
  <2>2. CASE q # p
    BY <2>2, <1>2, <1>3, ProcessStays DEF Inv
  <2> QED  BY <2>1, <2>2
<1> QED  BY <1>2, <1>4

-----------------------------------------------------------------------------
(* One step of a synchronization, in a job or in a request *)

SyncPC == {"resolve", "status", "tree", "config", "index"}
WorkPC == SyncPC \cup {"finish"}

(* It moves from a working state: a job stays one, a request does not wait. *)
SyncMoves(p) ==
    /\ sync[p].pc \in SyncPC
    /\ IndexGrows
    /\ \E r \in Process :
          /\ Become(p, r)
          /\ ProcessOK(r, head, index')
          /\ p \in Jobs => r.pc \in WorkPC
          /\ r.pc \notin {"wait", "close"}

LEMMA SyncStepMoves == ASSUME Inv, NEW p \in Procs, SyncStep(p) PROVE SyncMoves(p)
<1> DEFINE s == sync[p]
<1>1. /\ s \in Process /\ s.sha \in 0..head /\ s.since <= head /\ s.since \in Nat /\ s.tree \in Nat
      /\ s.sha # NoCommit => s.since = s.sha
      /\ s.pc = "status" => s.sha # NoCommit
      /\ s.pc \in {"config", "index"} => s.tree >= s.sha /\ s.tree >= s.since
      /\ head \in Nat /\ head \in Commits /\ config \in Nat /\ s.sha \in Nat /\ s.cfg \in Nat
  BY DEF Inv, Values, ProcessOK, Commits, Process
<1>2. ASSUME Fail(p), IndexGrows, s.pc \in SyncPC PROVE SyncMoves(p)
  <2>1. Outcome(p, FALSE) \in Process
    BY DEF Outcome, Idle, Process, PC, NoCommit
  <2>2. ProcessOK(Outcome(p, FALSE), head, index')
    BY <1>1, <2>1 DEF Outcome, Idle, ProcessOK, NoCommit
  <2>3. Outcome(p, FALSE).pc = IF p \in Jobs THEN "finish" ELSE "idle"
    BY DEF Outcome, Idle
  <2> QED  BY <1>2, <2>1, <2>2, <2>3 DEF Fail, SyncMoves, WorkPC
<1>3. ASSUME Succeed(p), IndexGrows, Fresh(s, index'), s.pc \in SyncPC PROVE SyncMoves(p)
  <2>1. CASE p \in Jobs
    <3> DEFINE r == [Idle EXCEPT !.pc = "finish", !.ok = TRUE]
    <3>1. Become(p, r)
      BY <1>3, <2>1 DEF Succeed, Outcome
    <3>2. r \in Process
      BY DEF Idle, Process, PC, NoCommit
    <3>3. r.pc = "finish" /\ r.sha = 0 /\ r.since = 0
      BY DEF Idle, NoCommit
    <3> HIDE DEF r
    <3>4. ProcessOK(r, head, index')
      BY <1>1, <3>2, <3>3 DEF ProcessOK, NoCommit
    <3> QED  BY <1>3, <3>1, <3>2, <3>3, <3>4 DEF SyncMoves, WorkPC
  <2>2. CASE p \notin Jobs
    <3> DEFINE r == [s EXCEPT !.pc = "ready", !.cfg = 0]
    <3>1. Become(p, r)
      BY <1>3, <2>2 DEF Succeed, Outcome
    <3>2. r \in Process
      BY <1>1 DEF Process, PC
    <3>3. r.pc = "ready" /\ r.sha = s.sha /\ r.since = s.since /\ r.tree = s.tree
      BY <1>1 DEF Process
    <3> HIDE DEF r
    <3>4. ProcessOK(r, head, index')
      BY <1>1, <1>3, <3>2, <3>3 DEF ProcessOK, Fresh
    <3> QED  BY <1>3, <2>2, <3>1, <3>2, <3>3, <3>4 DEF SyncMoves
  <2> QED  BY <2>1, <2>2
<1>4. ASSUME UNCHANGED index, s.pc \in SyncPC, NEW r \in Process, Become(p, r), ProcessOK(r, head, index),
             r.pc \in SyncPC
      PROVE  SyncMoves(p)
  <2>1. IndexGrows
    BY <1>4, IndexUnchanged
  <2> QED  BY <1>4, <2>1 DEF SyncMoves, SyncPC, WorkPC
<1>5. CASE Resolve(p)
  <2>1. UNCHANGED index /\ s.pc = "resolve"
    BY <1>5 DEF Resolve, OnlySync, At
  <2>2. CASE Become(p, [s EXCEPT !.sha = head, !.since = head, !.pc = "status"])
    <3>1. [s EXCEPT !.sha = head, !.since = head, !.pc = "status"] \in Process
      BY <1>1 DEF Process, PC
    <3>2. ProcessOK([s EXCEPT !.sha = head, !.since = head, !.pc = "status"], head, index)
      BY <1>1, <3>1 DEF ProcessOK, Process, NoCommit, Commits
    <3> QED  BY <1>4, <2>1, <2>2, <3>1, <3>2, <1>1 DEF SyncPC, Process
  <2>3. CASE Become(p, [s EXCEPT !.sha = head, !.since = head, !.pc = "tree"])
    <3>1. [s EXCEPT !.sha = head, !.since = head, !.pc = "tree"] \in Process
      BY <1>1 DEF Process, PC
    <3>2. ProcessOK([s EXCEPT !.sha = head, !.since = head, !.pc = "tree"], head, index)
      BY <1>1, <3>1 DEF ProcessOK, Process, NoCommit, Commits
    <3> QED  BY <1>4, <2>1, <2>3, <3>1, <3>2, <1>1 DEF SyncPC, Process
  <2>4. CASE Become(p, [s EXCEPT !.sha = NoCommit, !.since = head, !.pc = "tree"])
    <3>1. [s EXCEPT !.sha = NoCommit, !.since = head, !.pc = "tree"] \in Process
      BY <1>1 DEF Process, PC, NoCommit
    <3>2. ProcessOK([s EXCEPT !.sha = NoCommit, !.since = head, !.pc = "tree"], head, index)
      BY <1>1, <3>1 DEF ProcessOK, Process, NoCommit, Commits
    <3> QED  BY <1>4, <2>1, <2>4, <3>1, <3>2, <1>1 DEF SyncPC, Process
  <2> QED  BY <1>5, <2>2, <2>3, <2>4 DEF Resolve
<1>6. CASE Status(p)
  <2>1. UNCHANGED index /\ s.pc = "status" /\ s.sha \in Commits /\ IndexGrows
    BY <1>1, <1>6, IndexUnchanged DEF Status, OnlySync, At, Commits, NoCommit
  <2>2. CASE index[s.sha] # NotIndexed /\ Succeed(p)
    <3>1. Fresh(s, index')
      BY <1>1, <2>1, <2>2 DEF Fresh, Inv, IndexNeverOlder
    <3> QED  BY <1>3, <2>1, <2>2, <3>1 DEF SyncPC
  <2>3. CASE Goto(p, "tree")
    <3>1. [s EXCEPT !.pc = "tree"] \in Process
      BY <1>1 DEF Process, PC
    <3>2. ProcessOK([s EXCEPT !.pc = "tree"], head, index)
      BY <1>1, <3>1 DEF ProcessOK, Process
    <3> QED  BY <1>4, <2>1, <2>3, <3>1, <3>2, <1>1 DEF Goto, SyncPC, Process
  <2>4. CASE Fail(p)
    BY <1>2, <2>1, <2>4 DEF SyncPC
  <2> QED  BY <1>6, <2>2, <2>3, <2>4 DEF Status
<1>7. CASE ReadTree(p)
  <2>1. UNCHANGED index /\ s.pc = "tree" /\ IndexGrows
    BY <1>7, IndexUnchanged DEF ReadTree, OnlySync, At
  <2>2. CASE Become(p, [s EXCEPT !.tree = head, !.pc = "config"])
    <3>1. [s EXCEPT !.tree = head, !.pc = "config"] \in Process
      BY <1>1 DEF Process, PC
    <3>2. ProcessOK([s EXCEPT !.tree = head, !.pc = "config"], head, index)
      BY <1>1, <3>1 DEF ProcessOK, Process
    <3> QED  BY <1>4, <2>1, <2>2, <3>1, <3>2, <1>1 DEF SyncPC, Process
  <2>3. CASE Fail(p)
    BY <1>2, <2>1, <2>3 DEF SyncPC
  <2> QED  BY <1>7, <2>2, <2>3 DEF ReadTree
<1>8. CASE ReadConfig(p)
  <2>1. UNCHANGED index /\ s.pc = "config" /\ IndexGrows
    BY <1>8, IndexUnchanged DEF ReadConfig, OnlySync, At
  <2>2. CASE Become(p, [s EXCEPT !.cfg = config, !.pc = "index"])
    <3>1. [s EXCEPT !.cfg = config, !.pc = "index"] \in Process
      BY <1>1 DEF Process, PC
    <3>2. ProcessOK([s EXCEPT !.cfg = config, !.pc = "index"], head, index)
      BY <1>1, <2>1, <3>1 DEF ProcessOK, Process
    <3> QED  BY <1>4, <2>1, <2>2, <3>1, <3>2, <1>1 DEF SyncPC, Process
  <2>3. CASE Fail(p)
    BY <1>2, <2>1, <2>3 DEF SyncPC
  <2> QED  BY <1>8, <2>2, <2>3 DEF ReadConfig
<1>9. CASE Index(p)
  <2>1. s.pc = "index" /\ s.tree >= s.sha /\ s.tree >= s.since
    BY <1>1, <1>9 DEF Index, At
  <2>2. ASSUME Store(p) PROVE IndexGrows /\ Fresh(s, index')
    <3>1. CASE UNCHANGED index /\ (s.sha = NoCommit \/ index[s.sha] # NotIndexed)
      <4>1. IndexGrows
        BY <3>1, IndexUnchanged
      <4>2. CASE s.sha = NoCommit
        BY <2>1, <4>1, <4>2 DEF Fresh
      <4>3. CASE s.sha # NoCommit
        <5>1. s.sha \in Commits
          BY <1>1, <4>3 DEF Commits, NoCommit
        <5> QED  BY <1>1, <3>1, <4>1, <4>3, <5>1 DEF Fresh, Inv, IndexNeverOlder
      <4> QED  BY <4>2, <4>3
    <3>2. CASE s.sha # NoCommit /\ index' = [index EXCEPT ![s.sha] = [from |-> s.tree, cfg |-> s.cfg]]
      <4>1. s.sha \in Commits /\ s.tree # 0
        BY <1>1, <2>1, <3>2 DEF Commits, NoCommit
      <4>2. index' \in [Commits -> [from : Nat, cfg : Nat]]
        BY <1>1, <3>2 DEF Inv, Values
      <4>3. index'[s.sha] = [from |-> s.tree, cfg |-> s.cfg] /\ \A c \in Commits \ {s.sha} : index'[c] = index[c]
        BY <4>1, <3>2 DEF Inv, Values
      <4>4. index'[s.sha].from = s.tree /\ index'[s.sha] # NotIndexed
        BY <4>1, <4>3 DEF NotIndexed
      <4>5. IndexGrows
        BY <2>1, <4>2, <4>3, <4>4 DEF IndexGrows, Inv, IndexNeverOlder
      <4>6. Fresh(s, index')
        BY <2>1, <3>2, <4>4 DEF Fresh
      <4> QED  BY <4>5, <4>6
    <3> QED  BY <2>2, <3>1, <3>2 DEF Store
  <2>3. CASE Store(p) /\ Succeed(p)
    BY <1>3, <2>1, <2>2, <2>3 DEF SyncPC
  <2>4. CASE Fail(p) /\ (UNCHANGED index \/ Store(p))
    BY <1>2, <2>1, <2>2, <2>4, IndexUnchanged DEF SyncPC
  <2> QED  BY <1>9, <2>3, <2>4 DEF Index
<1> QED  BY <1>5, <1>6, <1>7, <1>8, <1>9 DEF SyncStep

-----------------------------------------------------------------------------
(* A request moves *)

LEMMA CallerMoves ==
  ASSUME Inv, NEW c \in Callers, NEW r, Become(c, r), ProcessOK(r, head, index'), IndexGrows,
         UNCHANGED <<head, job, closed>>, config' \in Nat, faults' \in Nat,
         r.pc = "wait" => job.st = "running" /\ r.gen = job.gen
  PROVE  Inv'
<1>0. c \in Procs /\ \A g \in Jobs : g \in Procs /\ g # c
  BY DEF Procs, Jobs, IndexAssumption
<1>1. /\ sync' \in [Procs -> Process]
      /\ sync'[c] = r
      /\ \A q \in Procs \ {c} : sync'[q] = sync[q]
      /\ \A q \in Procs : ProcessOK(sync'[q], head', index')
  BY <1>0, OneMoves
<1>2. Values'
  BY <1>1 DEF Inv, Values, IndexGrows
<1>3. IndexNeverOlder'
  BY DEF IndexGrows, IndexNeverOlder
<1>4. \A g \in Jobs : sync'[g] = sync[g]
  BY <1>0, <1>1
<1>5. \A g \in Jobs : Working(g)' <=> Working(g)
  BY <1>4 DEF Working
<1>6. NoLostWakeup'
  <2> SUFFICES ASSUME NEW d \in Callers, At(d, "wait")'
               PROVE  \/ sync'[d].gen \in closed
                      \/ \E g \in Jobs : g = sync'[d].gen /\ (Working(g) \/ (At(g, "close") /\ sync[g].gen = g))
    BY <1>4, <1>5 DEF NoLostWakeup, At
  <2>1. CASE d = c
    BY <1>1, <2>1 DEF Inv, Registry, SingleFlight, At
  <2>2. CASE d # c
    BY <1>1, <2>2 DEF Inv, Registry, NoLostWakeup, At, Procs
  <2> QED  BY <2>1, <2>2
<1>7. Registry'
  BY <1>4, <1>5, <1>6 DEF Inv, Registry, SingleFlight, At
<1> QED  BY <1>1, <1>2, <1>3, <1>7 DEF Inv

LEMMA IdleOK == ASSUME Inv PROVE ProcessOK(Idle, head, index)
  BY DEF Inv, Values, ProcessOK, Idle, Process, PC, NoCommit, Commits

LEMMA CallerStepInv ==
  ASSUME Inv, NEW c \in Callers,
         \/ SaveConfig(c) \/ Analyze(c) \/ PushEvent(c) \/ GiveUp(c)
         \/ Await(c) \/ Wake(c) \/ SyncStep(c) \/ Proceed(c)
  PROVE  Inv'
<1> DEFINE s == sync[c]
<1>0. /\ c \in Procs /\ c \notin Jobs /\ s \in Process /\ ProcessOK(s, head, index)
      /\ head \in Nat /\ head \in Commits /\ config \in Nat /\ faults \in Nat /\ job.gen \in Nat
  BY DEF Inv, Values, Procs, Jobs, Commits, IndexAssumption
<1>1. ASSUME NEW r, Become(c, r), ProcessOK(r, head, index), UNCHANGED <<head, index, job, closed>>,
             config' \in Nat, faults' \in Nat, r.pc = "wait" => job.st = "running" /\ r.gen = job.gen
      PROVE  Inv'
  <2>1. index' = index /\ IndexGrows
    BY <1>1, IndexUnchanged
  <2>2. ProcessOK(r, head, index')
    BY <1>1, <2>1
  <2> QED  BY <1>1, <2>1, <2>2, CallerMoves
<1>2. CASE GiveUp(c) \/ Proceed(c)
  <2>1. Become(c, Idle) /\ UNCHANGED <<head, index, job, closed, config, faults>>
    BY <1>2 DEF GiveUp, Proceed, OnlySync
  <2>2. ProcessOK(Idle, head, index) /\ Idle.pc = "idle"
    BY IdleOK DEF Idle
  <2> QED  BY <1>0, <1>1, <2>1, <2>2
<1>3. CASE SaveConfig(c)
  <2> DEFINE r == [s EXCEPT !.pc = "begin"]
  <2>1. ProcessOK(r, head, index) /\ r.pc = "begin"
    BY <1>0 DEF ProcessOK, Process, PC
  <2>2. Become(c, r) /\ UNCHANGED <<head, index, job, closed>> /\ config' \in Nat /\ faults' \in Nat
    BY <1>0, <1>3 DEF SaveConfig, Goto
  <2> HIDE DEF r
  <2> QED  BY <1>1, <2>1, <2>2
<1>4. CASE Analyze(c)
  <2>1. PICK sha \in 0..head : Become(c, [Idle EXCEPT !.pc = "await", !.sha = sha, !.since = sha])
    BY <1>4 DEF Analyze
  <2> DEFINE r == [Idle EXCEPT !.pc = "await", !.sha = sha, !.since = sha]
  <2>2. Idle \in Process /\ sha \in Nat
    BY <1>0, <2>1 DEF Idle, Process, PC, NoCommit
  <2>3. r \in Process /\ r.pc = "await" /\ r.sha = sha /\ r.since = sha
    BY <2>2 DEF Process, PC
  <2>4. Become(c, r) /\ UNCHANGED <<head, index, job, closed>> /\ config' \in Nat /\ faults' \in Nat
    BY <1>0, <1>4, <2>1 DEF Analyze, OnlySync
  <2> HIDE DEF r
  <2>5. ProcessOK(r, head, index)
    BY <1>0, <2>3 DEF ProcessOK
  <2> QED  BY <1>1, <2>3, <2>4, <2>5
<1>5. CASE PushEvent(c)
  <2>1. PICK sha \in 1..head \cup {NoCommit} :
            Become(c, [Idle EXCEPT !.pc = IF sha = NoCommit THEN "resolve" ELSE "status",
                                   !.sha = sha, !.since = sha])
    BY <1>5 DEF PushEvent
  <2> DEFINE r == [Idle EXCEPT !.pc = IF sha = NoCommit THEN "resolve" ELSE "status",
                               !.sha = sha, !.since = sha]
  <2>2. Idle \in Process /\ sha \in Nat /\ sha <= head
    BY <1>0, <2>1 DEF Idle, Process, PC, NoCommit
  <2>3. /\ r \in Process /\ r.sha = sha /\ r.since = sha
        /\ r.pc = IF sha = NoCommit THEN "resolve" ELSE "status"
    BY <2>2 DEF Process, PC
  <2>4. Become(c, r) /\ UNCHANGED <<head, index, job, closed>> /\ config' \in Nat /\ faults' \in Nat
    BY <1>0, <1>5, <2>1 DEF PushEvent, OnlySync
  <2> HIDE DEF r
  <2>5. ProcessOK(r, head, index)
    BY <1>0, <2>3 DEF ProcessOK, NoCommit
  <2> QED  BY <1>1, <2>3, <2>4, <2>5
<1>6. ASSUME Synchronize(c), UNCHANGED <<head, index, job, closed, config, faults>> PROVE Inv'
  <2>1. CASE s.sha = NoCommit /\ Become(c, [s EXCEPT !.pc = "resolve", !.gen = 0])
    <3> DEFINE r == [s EXCEPT !.pc = "resolve", !.gen = 0]
    <3>1. ProcessOK(r, head, index) /\ r.pc = "resolve"
      BY <1>0 DEF ProcessOK, Process, PC
    <3>2. Become(c, r)
      BY <2>1
    <3> HIDE DEF r
    <3> QED  BY <1>0, <1>1, <1>6, <3>1, <3>2
  <2>2. CASE s.sha # NoCommit /\ Become(c, [s EXCEPT !.pc = "status", !.gen = 0])
    <3> DEFINE r == [s EXCEPT !.pc = "status", !.gen = 0]
    <3>1. ProcessOK(r, head, index) /\ r.pc = "status"
      BY <1>0, <2>2 DEF ProcessOK, Process, PC
    <3>2. Become(c, r)
      BY <2>2
    <3> HIDE DEF r
    <3> QED  BY <1>0, <1>1, <1>6, <3>1, <3>2
  <2> QED  BY <1>6, <2>1, <2>2 DEF Synchronize
<1>7. CASE Await(c)
  <2>1. CASE job.st = "running"
    <3> DEFINE r == [s EXCEPT !.pc = "wait", !.gen = job.gen]
    <3>1. ProcessOK(r, head, index) /\ r.gen = job.gen
      BY <1>0 DEF ProcessOK, Process, PC
    <3>2. Become(c, r) /\ UNCHANGED <<head, index, job, closed, config, faults>>
      BY <1>7, <2>1 DEF Await, OnlySync
    <3> HIDE DEF r
    <3> QED  BY <1>0, <1>1, <2>1, <3>1, <3>2
  <2>2. CASE job.st # "running"
    BY <1>6, <1>7, <2>2 DEF Await, OnlySync
  <2> QED  BY <2>1, <2>2
<1>8. CASE Wake(c)
  BY <1>6, <1>8 DEF Wake, OnlySync
<1>9. CASE SyncStep(c)
  <2>1. SyncMoves(c)
    BY <1>0, <1>9, SyncStepMoves
  <2>2. PICK r \in Process : Become(c, r) /\ ProcessOK(r, head, index') /\ r.pc \notin {"wait", "close"}
    BY <2>1 DEF SyncMoves
  <2>3. UNCHANGED <<head, job, closed, config>> /\ faults' \in Nat
    BY <1>0, <1>9 DEF SyncStep, Resolve, Status, ReadTree, ReadConfig, Index, OnlySync, Fault
  <2> QED  BY <1>0, <2>1, <2>2, <2>3, CallerMoves DEF SyncMoves
<1> QED  BY <1>2, <1>3, <1>4, <1>5, <1>7, <1>8, <1>9

-----------------------------------------------------------------------------
(* The registry moves *)

LEMMA JobOfIdle ==
  ASSUME NEW force \in BOOLEAN
  PROVE  /\ [Idle EXCEPT !.pc = "resolve", !.force = force] \in Process
         /\ [Idle EXCEPT !.pc = "resolve", !.force = force].pc = "resolve"
         /\ [Idle EXCEPT !.pc = "resolve", !.force = force].sha = 0
         /\ [Idle EXCEPT !.pc = "resolve", !.force = force].since = 0
  BY DEF Idle, Process, PC, NoCommit

(* begin, called by whoever becomes idle by it or stays what it is.        *)
LEMMA BeginInv ==
  ASSUME Inv, NEW force \in BOOLEAN, NEW others \in [Procs -> Process],
         \A g \in Jobs : others[g] = sync[g],
         \A c \in Callers : others[c] = sync[c] \/ others[c] = Idle,
         Begin(force, others), UNCHANGED <<head, config, index, closed, faults>>
  PROVE  Inv'
<1>1. /\ head \in Nat /\ head \in Commits /\ job.gen \in 0..MaxJobs /\ job.gen \in Nat
      /\ \A q \in Procs : ProcessOK(others[q], head, index)
  BY IdleOK DEF Inv, Values, Procs, Commits
<1>2. Idle.pc = "idle"
  BY DEF Idle
<1>3. CASE UNCHANGED job /\ sync' = others
  <2>1. Values' /\ IndexNeverOlder' /\ \A p \in Procs : ProcessOK(sync'[p], head', index')
    BY <1>1, <1>3 DEF Inv, Values, IndexNeverOlder
  <2>2. Registry'
    BY <1>2, <1>3 DEF Inv, Registry, SingleFlight, NoLostWakeup, Working, At
  <2> QED  BY <2>1, <2>2 DEF Inv
<1>4. CASE /\ job.st # "running" /\ job.gen < MaxJobs
           /\ job' = [gen |-> job.gen + 1, st |-> "running", fresh |-> FALSE]
           /\ sync' = [others EXCEPT ![job.gen + 1] = [Idle EXCEPT !.pc = "resolve", !.force = force]]
  <2> DEFINE n == job.gen + 1
             r == [Idle EXCEPT !.pc = "resolve", !.force = force]
  <2>1. n \in Jobs /\ n \in Procs /\ n > job.gen /\ n \in Nat /\ n \in 0..MaxJobs
    BY <1>1, <1>4 DEF Jobs, Procs
  <2>2. r \in Process /\ r.pc = "resolve" /\ r.sha = 0 /\ r.since = 0
    BY JobOfIdle
  <2>3. job'.gen = n /\ job'.st = "running"
    BY <1>4
  <2>4. sync' = [others EXCEPT ![n] = r]
    BY <1>4
  <2>5. job' \in [gen : 0..MaxJobs, st : {"none", "running", "completed", "failed"}, fresh : BOOLEAN]
    BY <1>4, <2>1
  <2> HIDE DEF n, r
  <2>6. /\ sync' \in [Procs -> Process]
        /\ sync'[n] = r
        /\ \A q \in Procs \ {n} : sync'[q] = others[q]
    BY <2>1, <2>2, <2>4
  <2>7. Values' /\ IndexNeverOlder'
    BY <2>5, <2>6 DEF Inv, Values, IndexNeverOlder
  <2>8. ProcessOK(r, head, index)
    BY <1>1, <2>2 DEF ProcessOK, NoCommit
  <2>9. \A p \in Procs : ProcessOK(sync'[p], head', index')
    BY <1>1, <2>6, <2>8
  <2>10. \A g \in Jobs : ~Working(g)
    BY <1>4 DEF Inv, Registry, SingleFlight
  <2>11. At(n, "idle")
    BY <2>1 DEF Inv, Registry
  <2>12. \A g \in Jobs : g # n => sync'[g] = sync[g]
    BY <2>6 DEF Procs
  <2>13. SingleFlight'
    BY <2>2, <2>3, <2>6, <2>10, <2>12 DEF SingleFlight, Working
  <2>14. NoLostWakeup'
    <3> SUFFICES ASSUME NEW d \in Callers, At(d, "wait")'
                 PROVE  \/ sync'[d].gen \in closed
                        \/ \E g \in Jobs : g = sync'[d].gen /\ At(g, "close")' /\ sync'[g].gen = g
      BY DEF NoLostWakeup
    <3>1. d \in Procs /\ d # n
      BY <2>1 DEF Procs, Jobs
    <3>2. sync'[d] = sync[d] /\ At(d, "wait")
      BY <1>2, <2>6, <3>1 DEF At
    <3>3. \/ sync[d].gen \in closed
          \/ \E g \in Jobs : g = sync[d].gen /\ At(g, "close") /\ sync[g].gen = g
      BY <2>10, <3>2 DEF Inv, Registry, NoLostWakeup
    <3> QED  BY <2>11, <2>12, <3>2, <3>3 DEF At
  <2>15. /\ job'.st = "running" => job'.gen \in Jobs
         /\ \A g \in Jobs : g > job'.gen => At(g, "idle")'
    BY <1>1, <2>1, <2>3, <2>12 DEF Inv, Registry, At, n, Jobs
  <2>16. \A g \in Jobs : At(g, "close")' => sync'[g].gen = g
    BY <2>2, <2>6, <2>12 DEF Inv, Registry, At
  <2> QED  BY <2>7, <2>9, <2>13, <2>14, <2>15, <2>16 DEF Inv, Registry
<1> QED  BY <1>3, <1>4 DEF Begin, Reused

LEMMA BrowseInv == ASSUME Inv, NEW force \in BOOLEAN, Browse(force) PROVE Inv'
<1>1. sync \in [Procs -> Process] /\ Begin(force, sync) /\ UNCHANGED <<head, config, index, closed, faults>>
  BY DEF Browse, Inv, Values
<1> QED  BY <1>1, BeginInv

LEMMA SaveConfigBeginInv == ASSUME Inv, NEW c \in Callers, SaveConfigBegin(c) PROVE Inv'
<1> DEFINE others == [sync EXCEPT ![c] = Idle]
<1>1. c \in Procs /\ \A g \in Jobs : g # c
  BY DEF Procs, Jobs
<1>2. Idle \in Process
  BY IdleOK DEF ProcessOK
<1>3. /\ others \in [Procs -> Process]
      /\ \A g \in Jobs : others[g] = sync[g]
      /\ \A d \in Callers : others[d] = sync[d] \/ others[d] = Idle
  BY <1>1, <1>2 DEF Inv, Values, Procs
<1>4. Begin(TRUE, others) /\ UNCHANGED <<head, config, index, closed, faults>>
  BY DEF SaveConfigBegin
<1> HIDE DEF others
<1> QED  BY <1>3, <1>4, BeginInv

-----------------------------------------------------------------------------
(* The goroutine of a job moves *)

LEMMA JobSyncInv == ASSUME Inv, NEW g \in Jobs, SyncStep(g) PROVE Inv'
<1>0. g \in Procs /\ \A c \in Callers : c \in Procs /\ c # g
  BY DEF Procs, Jobs
<1>1. SyncMoves(g) /\ UNCHANGED <<head, config, job, closed>> /\ faults' \in Nat
  <2>1. SyncMoves(g)
    BY <1>0, SyncStepMoves
  <2>2. faults \in Nat
    BY DEF Inv, Values
  <2>3. UNCHANGED <<head, config, job, closed>> /\ faults' \in Nat
    BY <2>2 DEF SyncStep, Resolve, Status, ReadTree, ReadConfig, Index, OnlySync, Fault
  <2> QED  BY <2>1, <2>3
<1>2. PICK r \in Process : Become(g, r) /\ ProcessOK(r, head, index') /\ r.pc \in WorkPC
  BY <1>1 DEF SyncMoves
<1>3. /\ sync' \in [Procs -> Process]
      /\ sync'[g] = r
      /\ \A q \in Procs \ {g} : sync'[q] = sync[q]
      /\ \A q \in Procs : ProcessOK(sync'[q], head', index')
  BY <1>0, <1>1, <1>2, OneMoves DEF SyncMoves
<1>4. Values' /\ IndexNeverOlder'
  BY <1>1, <1>3 DEF Inv, Values, IndexGrows, IndexNeverOlder, SyncMoves
<1>5. \A h \in Jobs : Working(h)' <=> Working(h)
  BY <1>1, <1>2, <1>3 DEF SyncMoves, SyncPC, WorkPC, Working, Procs
<1>6. ~At(g, "close") /\ ~At(g, "idle") /\ ~At(g, "close")'
  BY <1>1, <1>2, <1>3 DEF SyncMoves, SyncPC, WorkPC, At
<1>7. \A h \in Jobs : h # g => sync'[h] = sync[h]
  BY <1>3 DEF Procs
<1>8. NoLostWakeup'
  BY <1>0, <1>1, <1>3, <1>5, <1>6, <1>7 DEF Inv, Registry, NoLostWakeup, At
<1>9. Registry'
  BY <1>1, <1>5, <1>6, <1>7, <1>8 DEF Inv, Registry, SingleFlight, At
<1> QED  BY <1>3, <1>4, <1>9 DEF Inv

LEMMA FinishInv == ASSUME Inv, NEW g \in Jobs, Finish(g) PROVE Inv'
<1>0. g \in Procs /\ \A c \in Callers : c \in Procs /\ c # g
  BY DEF Procs, Jobs
<1>1. At(g, "finish") /\ job.st = "running" /\ job.gen = g /\ g \in Nat /\ UNCHANGED <<head, config, index, closed, faults>>
  BY DEF Finish, Inv, Registry, SingleFlight, Working, At, Jobs
<1>2. sync[g].ok \in BOOLEAN /\ head \in Nat
  BY <1>0 DEF Inv, Values, Process, Commits
<1> DEFINE r == [Idle EXCEPT !.pc = "close", !.gen = job.gen]
<1>3. Become(g, r) /\ job' = [job EXCEPT !.st = IF sync[g].ok THEN "completed" ELSE "failed", !.fresh = sync[g].ok]
  BY <1>1 DEF Finish
<1>4. r \in Process /\ r.pc = "close" /\ r.gen = g /\ r.sha = 0 /\ r.since = 0
  BY <1>1 DEF Idle, Process, PC, NoCommit
<1> HIDE DEF r
<1>5. /\ job'.st \in {"completed", "failed"} /\ job'.gen = g /\ job'.fresh \in BOOLEAN
      /\ job' \in [gen : 0..MaxJobs, st : {"none", "running", "completed", "failed"}, fresh : BOOLEAN]
  BY <1>1, <1>2, <1>3 DEF Inv, Values
<1>6. ProcessOK(r, head, index) /\ index' = index /\ IndexGrows
  BY <1>1, <1>2, <1>4, IndexUnchanged DEF ProcessOK, NoCommit
<1>7. /\ sync' \in [Procs -> Process]
      /\ sync'[g] = r
      /\ \A q \in Procs \ {g} : sync'[q] = sync[q]
      /\ \A q \in Procs : ProcessOK(sync'[q], head', index')
  BY <1>0, <1>1, <1>3, <1>6, OneMoves
<1>8. Values' /\ IndexNeverOlder'
  BY <1>1, <1>5, <1>7 DEF Inv, Values, IndexNeverOlder
<1>9. \A h \in Jobs : h # g => sync'[h] = sync[h] /\ ~Working(h)
  BY <1>1, <1>7 DEF Procs, Inv, Registry, SingleFlight
<1>10. SingleFlight'
  BY <1>4, <1>5, <1>7, <1>9 DEF SingleFlight, Working
<1>11. NoLostWakeup'
  <2> SUFFICES ASSUME NEW d \in Callers, At(d, "wait")'
               PROVE  \/ sync'[d].gen \in closed
                      \/ \E h \in Jobs : h = sync'[d].gen /\ At(h, "close")' /\ sync'[h].gen = h
    BY <1>1 DEF NoLostWakeup
  <2>1. sync'[d] = sync[d] /\ At(d, "wait")
    BY <1>0, <1>7 DEF At
  <2>2. \/ sync[d].gen \in closed
        \/ \E h \in Jobs : h = sync[d].gen /\ (Working(h) \/ (At(h, "close") /\ sync[h].gen = h))
    BY <2>1 DEF Inv, Registry, NoLostWakeup
  <2>3. \A h \in Jobs : h = g \/ (sync'[h] = sync[h] /\ ~Working(h))
    BY <1>9
  <2> QED  BY <1>4, <1>7, <2>1, <2>2, <2>3 DEF At
<1>12. Registry'
  BY <1>1, <1>4, <1>5, <1>7, <1>9, <1>10, <1>11 DEF Inv, Registry, At
<1> QED  BY <1>7, <1>8, <1>12 DEF Inv

LEMMA CloseInv == ASSUME Inv, NEW g \in Jobs, Close(g) PROVE Inv'
<1>0. g \in Procs /\ \A c \in Callers : c \in Procs /\ c # g
  BY DEF Procs, Jobs
<1>1. /\ At(g, "close") /\ sync[g].gen = g /\ Become(g, Gone) /\ g \in Nat
      /\ closed' = closed \cup {g} /\ UNCHANGED <<head, config, index, job, faults>>
  BY DEF Close, Inv, Registry, Jobs
<1>2. Gone \in Process /\ Gone.pc = "gone" /\ Gone.sha = 0 /\ Gone.since = 0
  BY DEF Gone, Idle, Process, PC, NoCommit
<1>3. ProcessOK(Gone, head, index) /\ index' = index /\ IndexGrows
  BY <1>1, <1>2, IndexUnchanged DEF ProcessOK, NoCommit, Inv, Values, Commits
<1>4. /\ sync' \in [Procs -> Process]
      /\ sync'[g] = Gone
      /\ \A q \in Procs \ {g} : sync'[q] = sync[q]
      /\ \A q \in Procs : ProcessOK(sync'[q], head', index')
  BY <1>0, <1>1, <1>3, OneMoves
<1>5. Values' /\ IndexNeverOlder'
  BY <1>1, <1>4 DEF Inv, Values, IndexNeverOlder
<1>6. \A h \in Jobs : Working(h)' <=> Working(h)
  BY <1>1, <1>2, <1>4 DEF Working, At, Procs
<1>7. \A h \in Jobs : h # g => sync'[h] = sync[h]
  BY <1>4 DEF Procs
<1>8. NoLostWakeup'
  <2> SUFFICES ASSUME NEW d \in Callers, At(d, "wait")'
               PROVE  \/ sync'[d].gen \in closed'
                      \/ \E h \in Jobs : h = sync'[d].gen /\ (Working(h)' \/ (At(h, "close")' /\ sync'[h].gen = h))
    BY DEF NoLostWakeup
  <2>1. sync'[d] = sync[d] /\ At(d, "wait")
    BY <1>0, <1>4 DEF At
  <2>2. \/ sync[d].gen \in closed
        \/ \E h \in Jobs : h = sync[d].gen /\ (Working(h) \/ (At(h, "close") /\ sync[h].gen = h))
    BY <2>1 DEF Inv, Registry, NoLostWakeup
  <2> QED  BY <1>1, <1>6, <1>7, <2>1, <2>2 DEF At
<1>9. Registry'
  BY <1>1, <1>2, <1>4, <1>6, <1>7, <1>8 DEF Inv, Registry, SingleFlight, At
<1> QED  BY <1>4, <1>5, <1>9 DEF Inv

-----------------------------------------------------------------------------
(* The environment moves *)

LEMMA ExpireInv == ASSUME Inv, Expire PROVE Inv'
<1>1. job' = [job EXCEPT !.fresh = FALSE] /\ UNCHANGED <<head, config, index, closed, sync, faults>>
  BY DEF Expire
<1>2. job'.gen = job.gen /\ job'.st = job.st
  BY <1>1 DEF Inv, Values
<1>3. Values'
  BY <1>1 DEF Inv, Values
<1>4. Registry'
  BY <1>1, <1>2 DEF Inv, Registry, SingleFlight, NoLostWakeup, Working, At
<1> QED  BY <1>1, <1>3, <1>4 DEF Inv, IndexNeverOlder

LEMMA PushInv == ASSUME Inv, Push PROVE Inv'
<1>1. head' \in Commits /\ head' >= head /\ UNCHANGED <<config, index, job, closed, sync, faults>>
  BY DEF Push, Inv, Values, Commits
<1>2. \A p \in Procs : ProcessOK(sync'[p], head', index')
  BY <1>1, IndexUnchanged, ProcessStays DEF Inv
<1>3. Values' /\ IndexNeverOlder'
  BY <1>1 DEF Inv, Values, IndexNeverOlder
<1>4. Registry'
  BY <1>1 DEF Inv, Registry, SingleFlight, NoLostWakeup, Working, At
<1> QED  BY <1>2, <1>3, <1>4 DEF Inv

LEMMA RestartInv == ASSUME Inv, Restart PROVE Inv'
<1>1. /\ job' = [job EXCEPT !.st = "none", !.fresh = FALSE] /\ faults' \in Nat
      /\ sync' = [p \in Procs |-> IF p \in Jobs /\ p <= job.gen THEN Gone ELSE Idle]
      /\ UNCHANGED <<head, config, index, closed>>
  BY DEF Restart, Fault, Inv, Values, Procs
<1>2. job'.gen = job.gen /\ job'.st = "none" /\ job.gen \in Nat
  BY <1>1 DEF Inv, Values
<1>3. /\ Gone \in Process /\ Gone.pc = "gone" /\ ProcessOK(Gone, head, index)
      /\ Idle \in Process /\ Idle.pc = "idle" /\ ProcessOK(Idle, head, index)
  BY IdleOK DEF Gone, Idle, Process, PC, NoCommit, ProcessOK, Inv, Values, Commits
<1>4. \A p \in Procs : sync'[p] = IF p \in Jobs /\ p <= job.gen THEN Gone ELSE Idle
  BY <1>1
<1>5. Values'
  BY <1>1, <1>3 DEF Inv, Values
<1>6. \A p \in Procs : ProcessOK(sync'[p], head', index')
  BY <1>1, <1>3, <1>4
<1>7. Registry'
  BY <1>2, <1>3, <1>4 DEF Registry, SingleFlight, NoLostWakeup, Working, At, Procs, Jobs
<1> QED  BY <1>1, <1>5, <1>6, <1>7 DEF Inv, IndexNeverOlder

-----------------------------------------------------------------------------
(* The theorems *)

LEMMA InitInv == Init => Inv
<1> SUFFICES ASSUME Init PROVE Inv
  OBVIOUS
<1>1. Idle \in Process /\ Idle.pc = "idle" /\ Idle.sha = 0 /\ Idle.since = 0
  BY DEF Idle, Process, PC, NoCommit
<1>2. Values
  BY <1>1 DEF Init, Values, Commits, NotIndexed, Procs
<1>3. \A p \in Procs : ProcessOK(sync[p], head, index)
  BY <1>1 DEF Init, ProcessOK, NoCommit, Procs
<1>4. Registry /\ IndexNeverOlder
  BY <1>1 DEF Init, Registry, SingleFlight, NoLostWakeup, IndexNeverOlder, Working, At
<1> QED  BY <1>2, <1>3, <1>4 DEF Inv

LEMMA StepInv == Inv /\ [Next]_vars => Inv'
<1> SUFFICES ASSUME Inv, [Next]_vars PROVE Inv'
  OBVIOUS
<1>1. CASE \E force \in BOOLEAN : Browse(force)
  BY <1>1, BrowseInv
<1>2. CASE Expire \/ Push \/ Restart
  BY <1>2, ExpireInv, PushInv, RestartInv
<1>3. ASSUME NEW g \in Jobs, JobStep(g) PROVE Inv'
  BY <1>3, JobSyncInv, FinishInv, CloseInv DEF JobStep
<1>4. ASSUME NEW c \in Callers, SaveConfig(c) \/ Analyze(c) \/ PushEvent(c) \/ GiveUp(c) \/ CallerStep(c)
      PROVE  Inv'
  BY <1>4, CallerStepInv, SaveConfigBeginInv DEF CallerStep
<1>5. CASE UNCHANGED vars
  BY <1>5 DEF vars, Inv, Values, Registry, IndexNeverOlder, SingleFlight, NoLostWakeup, Working, At
<1> QED  BY <1>1, <1>2, <1>3, <1>4, <1>5 DEF Next

LEMMA InvImplies == Inv => TypeOK /\ SingleFlight /\ NoLostWakeup /\ IndexNeverOlder /\ ReadyIsFresh
<1> SUFFICES ASSUME Inv PROVE TypeOK /\ SingleFlight /\ NoLostWakeup /\ IndexNeverOlder /\ ReadyIsFresh
  OBVIOUS
<1>1. TypeOK
  BY DEF Inv, Values, ProcessOK, TypeOK, Procs
<1>2. ReadyIsFresh
  BY DEF Inv, ReadyIsFresh, ProcessOK, Fresh, Procs, At
<1> QED  BY <1>1, <1>2 DEF Inv, Registry

LEMMA Invariant == Spec => []Inv
  BY InitInv, StepInv, PTL DEF Spec

(* Every variable keeps its type whatever requests, jobs and restarts do   *)
(* (repository_index_jobs.go:51-79).                                       *)
THEOREM Types == Spec => []TypeOK
  BY Invariant, InvImplies, PTL

(* For any number of requests and jobs, the registry has one job in flight *)
(* for the repository, and finish records the outcome of that job and of   *)
(* no other (repository_index_jobs.go:91-151).                             *)
THEOREM OneJobInFlight == Spec => []SingleFlight
  BY Invariant, InvImplies, PTL

(* No request waits for a channel nobody will close: wait looks the job up *)
(* under the mutex that finish takes before it closes the channel          *)
(* (repository_index_jobs.go:122-198).                                     *)
THEOREM WaitersAreWoken == Spec => []NoLostWakeup
  BY Invariant, InvImplies, PTL

(* However the branch moves during a job, nothing is stored under a commit *)
(* that was read before it (repository_indexing.go:159-274).               *)
THEOREM IndexIsNeverOlder == Spec => []IndexNeverOlder
  BY Invariant, InvImplies, PTL

(* AI work is queued only for a repository whose index is there and was    *)
(* not stale when the request looked (repository_indexing.go:39-64).       *)
THEOREM RequestsSeeFreshIndex == Spec => []ReadyIsFresh
  BY Invariant, InvImplies, PTL

=============================================================================
