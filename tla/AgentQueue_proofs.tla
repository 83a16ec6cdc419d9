------------------------- MODULE AgentQueue_proofs -------------------------
(***************************************************************************)
(* The agent queue keeps its promise and its bound, for any number of      *)
(* jobs, publishers, workers and faults.                                   *)
(***************************************************************************)
EXTENDS AgentQueue, FiniteSetTheorems, TLAPS

USE QueueAssumption

(* Entries are numbered as they are added; only delivered ones are pending. *)
Ids ==
    /\ delivered <= lastID
    /\ \A m \in stream : m.id <= lastID
    /\ \A m, n \in stream : m.id = n.id => m = n
    /\ \A i \in pending : i <= delivered

(* The queue still answers for job j, or it is settled.                    *)
Kept(j) ==
    \/ j \in done \cup dead
    \/ \E m \in stream : Live(m) /\ m.job = j

Earned(w) ==
    \/ wrk[w].msg.job \in done \cup dead
    \/ \E m \in stream : Live(m) /\ m.job = wrk[w].msg.job /\ m.id > wrk[w].msg.id

(* A worker's message was delivered, and its job is not lost behind its    *)
(* back.                                                                   *)
Holds(w) ==
    /\ wrk[w].msg \in Entry /\ wrk[w].msg.id <= delivered
    /\ \A m \in stream : m.id = wrk[w].msg.id => m.job = wrk[w].msg.job
    /\ Kept(wrk[w].msg.job)

WorkerOK(w) ==
    ~WAt(w, "idle") =>
        /\ Holds(w)
        /\ WAt(w, "xdel") => wrk[w].msg.id \notin pending
        /\ WAt(w, "xack") => Earned(w)

Inv == TypeOK /\ Ids /\ \A w \in Workers : WorkerOK(w)

(* What every step does to the queue: entries get new ids, and a live one  *)
(* stays or has been made up for.                                          *)
QueueStep ==
    /\ delivered' \in Nat /\ delivered <= delivered' /\ stream' \in SUBSET Entry
    /\ done \subseteq done' /\ dead \subseteq dead'
    /\ \A m \in stream : Live(m) =>
          \/ m \in stream' /\ Live(m)'
          \/ m.job \in done' \cup dead'
          \/ \E n \in stream' : Live(n)' /\ n.job = m.job /\ n.id > m.id
    /\ \A m \in stream' : m \in stream \/ m.id > lastID
    /\ \A i \in pending' : i \in pending \/ i > delivered

-----------------------------------------------------------------------------
(* Lemmas about one step *)

LEMMA BecomeEffect ==
  ASSUME TypeOK, NEW w \in Workers, NEW s \in WorkerState, Become(w, s)
  PROVE  /\ wrk' \in [Workers -> WorkerState]
         /\ wrk'[w] = s
         /\ \A v \in Workers \ {w} : wrk'[v] = wrk[v]
  BY DEF TypeOK, Become

LEMMA StateOf ==
  ASSUME TypeOK, NEW w \in Workers
  PROVE  /\ wrk[w] \in WorkerState /\ wrk[w].msg \in Message
         /\ \A pc \in {"idle", "run", "check", "add", "bury", "xack", "xdel"} :
               [pc |-> pc, msg |-> wrk[w].msg] \in WorkerState
         /\ Waiting \in WorkerState
  BY DEF TypeOK, WorkerState, Waiting, Message

LEMMA KeptStays == ASSUME QueueStep PROVE \A j : Kept(j) => Kept(j)'
  BY DEF QueueStep, Kept

LEMMA HoldsStays ==
  ASSUME Inv, QueueStep, NEW v \in Workers, Holds(v),
         wrk'[v].msg \in Entry, wrk'[v].msg.id = wrk[v].msg.id, wrk'[v].msg.job = wrk[v].msg.job
  PROVE  Holds(v)'
<1>1. Kept(wrk[v].msg.job)'
  <2>1. PICK j : j = wrk[v].msg.job
    OBVIOUS
  <2>2. Kept(j)'
    BY <2>1, KeptStays DEF Holds
  <2> QED  BY <2>1, <2>2
<1>2. wrk[v].msg.id \in Nat /\ delivered \in Nat /\ delivered' \in Nat /\ lastID \in Nat
  BY DEF Holds, Inv, TypeOK, Entry, QueueStep
<1>3. wrk'[v].msg.id <= delivered'
  BY <1>2 DEF Holds, QueueStep
<1>4. ASSUME NEW m \in stream', m.id = wrk'[v].msg.id PROVE m.job = wrk'[v].msg.job
  <2>1. ~(m.id > lastID)
    BY <1>2, <1>4 DEF Holds, Inv, Ids
  <2>2. m \in stream /\ m.id = wrk[v].msg.id
    BY <1>4, <2>1 DEF QueueStep
  <2> QED  BY <2>2 DEF Holds
<1> QED  BY <1>1, <1>3, <1>4 DEF Holds

LEMMA OthersStay ==
  ASSUME Inv, QueueStep, NEW v \in Workers, wrk'[v] = wrk[v]
  PROVE  WorkerOK(v)'
<1> SUFFICES ASSUME ~WAt(v, "idle")
             PROVE  /\ Holds(v)'
                    /\ WAt(v, "xdel") => wrk[v].msg.id \notin pending'
                    /\ WAt(v, "xack") => Earned(v)'
  BY DEF WorkerOK, WAt
<1>1. /\ Holds(v) /\ wrk[v].msg.id \in Nat /\ delivered \in Nat /\ wrk[v].msg.id <= delivered
      /\ WAt(v, "xdel") => wrk[v].msg.id \notin pending
      /\ WAt(v, "xack") => Earned(v)
      /\ \A m \in stream : m.id \in Nat
  BY DEF Inv, WorkerOK, Holds, Entry, TypeOK
<1>2. Holds(v)'
  BY <1>1, HoldsStays DEF Holds
<1>3. WAt(v, "xdel") => wrk[v].msg.id \notin pending'
  BY <1>1 DEF QueueStep
<1>4. ASSUME Earned(v) PROVE Earned(v)'
  <2>1. CASE wrk[v].msg.job \in done \cup dead
    BY <2>1 DEF QueueStep, Earned
  <2>2. CASE \E m \in stream : Live(m) /\ m.job = wrk[v].msg.job /\ m.id > wrk[v].msg.id
    <3>1. PICK m \in stream : Live(m) /\ m.job = wrk[v].msg.job /\ m.id > wrk[v].msg.id
      BY <2>2
    <3>2. CASE (m \in stream' /\ Live(m)') \/ m.job \in done' \cup dead'
      BY <3>1, <3>2 DEF Earned
    <3>3. CASE \E n \in stream' : Live(n)' /\ n.job = m.job /\ n.id > m.id
      <4>1. PICK n \in stream' : Live(n)' /\ n.job = m.job /\ n.id > m.id
        BY <3>3
      <4>2. m.id \in Nat /\ n.id \in Nat
        BY <1>1, <3>1, <4>1 DEF QueueStep, Entry
      <4> QED  BY <1>1, <3>1, <4>1, <4>2 DEF Earned
    <3> QED  BY <3>1, <3>2, <3>3 DEF QueueStep
  <2> QED  BY <1>4, <2>1, <2>2 DEF Earned
<1> QED  BY <1>1, <1>2, <1>3, <1>4

(* All of Inv but the workers.                                             *)
QueueOK ==
    /\ stream \in SUBSET Entry /\ IsFiniteSet(stream)
    /\ lastID \in Nat /\ delivered \in Nat /\ pending \in SUBSET Nat
    /\ asked \in SUBSET Jobs /\ pub \in [Requests -> PubState]
    /\ done \in SUBSET Jobs /\ dead \in SUBSET Jobs /\ faults \in Nat
    /\ Ids

LEMMA NobodyMoves == ASSUME Inv, QueueStep, QueueOK', UNCHANGED wrk PROVE Inv'
<1>1. \A v \in Workers : WorkerOK(v)'
  BY OthersStay
<1>2. TypeOK' /\ Ids'
  BY DEF QueueOK, TypeOK, Inv
<1> QED  BY <1>1, <1>2 DEF Inv

(* A worker goes on with its message, or drops it.                         *)
LEMMA WorkerMoves ==
  ASSUME Inv, NEW w \in Workers, NEW s \in WorkerState, Become(w, s), QueueStep, QueueOK',
         \/ s.pc = "idle"
         \/ /\ ~WAt(w, "idle")
            /\ s.msg \in Entry /\ s.msg.id = wrk[w].msg.id /\ s.msg.job = wrk[w].msg.job,
         s.pc = "xdel" => wrk[w].msg.id \notin pending',
         s.pc = "xack" => \/ wrk[w].msg.job \in done' \cup dead'
                          \/ \E m \in stream' : Live(m)' /\ m.job = wrk[w].msg.job /\ m.id > wrk[w].msg.id
  PROVE  Inv'
<1>1. /\ wrk' \in [Workers -> WorkerState]
      /\ wrk'[w] = s
      /\ \A v \in Workers \ {w} : wrk'[v] = wrk[v]
  BY BecomeEffect DEF Inv
<1>2. WorkerOK(w)'
  <2>1. CASE s.pc = "idle"
    BY <1>1, <2>1 DEF WorkerOK, WAt
  <2>2. CASE /\ ~WAt(w, "idle")
             /\ s.msg \in Entry /\ s.msg.id = wrk[w].msg.id /\ s.msg.job = wrk[w].msg.job
    <3>1. Holds(w)
      BY <2>2 DEF Inv, WorkerOK
    <3>2. Holds(w)'
      BY <1>1, <2>2, <3>1, HoldsStays
    <3>3. WAt(w, "xdel")' => wrk'[w].msg.id \notin pending'
      BY <1>1, <2>2 DEF WAt
    <3>4. WAt(w, "xack")' => Earned(w)'
      BY <1>1, <2>2 DEF WAt, Earned
    <3> QED  BY <3>2, <3>3, <3>4 DEF WorkerOK
  <2> QED  BY <2>1, <2>2
<1>3. \A v \in Workers : WorkerOK(v)'
  <2> TAKE v \in Workers
  <2>1. CASE v = w
    BY <1>2, <2>1
  <2>2. CASE v # w
    BY <1>1, <2>2, OthersStay
  <2> QED  BY <2>1, <2>2
<1>4. TypeOK' /\ Ids'
  BY <1>1 DEF QueueOK, TypeOK
<1> QED  BY <1>3, <1>4 DEF Inv

LEMMA Same ==
  ASSUME Inv, UNCHANGED <<stream, lastID, delivered, pending>>,
         done \subseteq done', dead \subseteq dead', done' \in SUBSET Jobs, dead' \in SUBSET Jobs,
         asked' \in SUBSET Jobs, pub' \in [Requests -> PubState], faults' \in Nat
  PROVE  QueueStep /\ QueueOK'
<1>1. QueueStep
  BY DEF Inv, TypeOK, QueueStep, Live
<1>2. QueueOK'
  BY DEF Inv, TypeOK, QueueOK, Ids
<1> QED  BY <1>1, <1>2

LEMMA AddStep ==
  ASSUME Inv, NEW j \in Jobs, NEW a \in Nat, Add(j, a), UNCHANGED <<delivered, pending, asked, done, dead>>,
         pub' \in [Requests -> PubState], faults' \in Nat
  PROVE  /\ QueueStep /\ QueueOK'
         /\ \E m \in stream' : Live(m)' /\ m.job = j /\ m.id > delivered
<1>0. PICK e : e = [id |-> lastID + 1, job |-> j, attempt |-> a]
  OBVIOUS
<1>1. e \in Entry /\ e.id = lastID + 1 /\ e.job = j /\ lastID \in Nat /\ delivered \in Nat /\ delivered <= lastID
  BY <1>0 DEF Entry, Inv, TypeOK, Ids
<1>2. stream' = stream \cup {e} /\ lastID' = lastID + 1
  BY <1>0 DEF Add
<1>3. stream' \in SUBSET Entry /\ IsFiniteSet(stream')
  BY <1>1, <1>2, FS_AddElement DEF Inv, TypeOK
<1>4. QueueStep
  BY <1>1, <1>2, <1>3 DEF Inv, TypeOK, QueueStep, Live
<1>5. \A m \in stream : m.id \in Nat /\ m.id <= lastID
  BY DEF Inv, TypeOK, Entry, Ids
<1>6. Ids'
  BY <1>1, <1>2, <1>5 DEF Inv, Ids
<1>7. QueueOK'
  BY <1>1, <1>2, <1>3, <1>6 DEF QueueOK, Inv, TypeOK
<1>8. Live(e)' /\ e.id > delivered
  BY <1>1 DEF Live
<1> QED  BY <1>1, <1>2, <1>4, <1>7, <1>8

-----------------------------------------------------------------------------
(* The actions *)

LEMMA CheckLengthInv == ASSUME Inv, NEW r \in Requests, CheckLength(r) PROVE Inv'
<1>1. PICK j \in Jobs \ asked :
        /\ asked' = asked \cup {j}
        /\ \/ pub' = [pub EXCEPT ![r] = [pc |-> "add", job |-> j]]
           \/ UNCHANGED pub
        /\ faults' = faults \/ faults' = faults + 1
  BY DEF CheckLength, Fault
<1>2. UNCHANGED <<stream, lastID, delivered, pending, wrk, done, dead>>
  BY DEF CheckLength
<1>3. asked' \in SUBSET Jobs /\ pub' \in [Requests -> PubState] /\ faults' \in Nat /\ done \in SUBSET Jobs /\ dead \in SUBSET Jobs
  BY <1>1 DEF Inv, TypeOK, PubState
<1> QED  BY <1>2, <1>3, Same, NobodyMoves

LEMMA AddJobInv == ASSUME Inv, NEW r \in Requests, AddJob(r) PROVE Inv'
<1>1. pub[r].job \in Jobs /\ pub' \in [Requests -> PubState] /\ faults' \in Nat
  BY DEF AddJob, Return, NoPublish, Fault, Inv, TypeOK, PubState
<1>2. UNCHANGED <<delivered, pending, asked, wrk, done, dead>>
  BY DEF AddJob
<1>3. CASE Add(pub[r].job, 1)
  BY <1>1, <1>2, <1>3, AddStep, NobodyMoves
<1>4. CASE UNCHANGED <<stream, lastID>>
  <2>1. asked' \in SUBSET Jobs /\ done' \in SUBSET Jobs /\ dead' \in SUBSET Jobs
    BY <1>2 DEF Inv, TypeOK
  <2> QED  BY <1>1, <1>2, <1>4, <2>1, Same, NobodyMoves
<1> QED  BY <1>3, <1>4 DEF AddJob

(* A worker takes message m, which is pending by now.                      *)
LEMMA TakeInv ==
  ASSUME Inv, NEW w \in Workers, NEW m \in stream, Take(w, m), QueueStep, QueueOK', m.id \in pending',
         UNCHANGED stream
  PROVE  Inv'
<1> DEFINE s == [pc |-> "run", msg |-> m]
<1>1. m \in Entry /\ s \in WorkerState /\ s.pc = "run" /\ s.msg = m
  BY DEF Inv, TypeOK, WorkerState, Message
<1>2. Become(w, s)
  BY DEF Take
<1> HIDE DEF s
<1>3. /\ wrk' \in [Workers -> WorkerState]
      /\ wrk'[w] = s
      /\ \A v \in Workers \ {w} : wrk'[v] = wrk[v]
  BY <1>1, <1>2, BecomeEffect DEF Inv
<1>4. m.id <= delivered' /\ \A n \in stream' : n.id = m.id => n.job = m.job
  BY DEF QueueOK, Ids
<1>5. Kept(m.job)'
  BY DEF Kept, Live
<1>6. WorkerOK(w)'
  BY <1>1, <1>3, <1>4, <1>5 DEF WorkerOK, Holds, WAt, Kept
<1>7. \A v \in Workers : WorkerOK(v)'
  <2> TAKE v \in Workers
  <2>1. CASE v = w
    BY <1>6, <2>1
  <2>2. CASE v # w
    BY <1>3, <2>2, OthersStay
  <2> QED  BY <2>1, <2>2
<1>8. TypeOK' /\ Ids'
  BY <1>3 DEF QueueOK, TypeOK
<1> QED  BY <1>7, <1>8 DEF Inv

LEMMA ClaimInv == ASSUME Inv, NEW w \in Workers, Claim(w) PROVE Inv'
<1>1. PICK m \in stream : m.id \in pending /\ Take(w, m)
  BY DEF Claim
<1>2. UNCHANGED <<stream, lastID, delivered, pending, asked, pub, done, dead, faults>>
  BY DEF Claim
<1>3. asked \in SUBSET Jobs /\ done \in SUBSET Jobs /\ dead \in SUBSET Jobs /\ pub \in [Requests -> PubState] /\ faults \in Nat
  BY DEF Inv, TypeOK
<1>4. QueueStep /\ QueueOK'
  BY <1>2, <1>3, Same
<1> QED  BY <1>1, <1>2, <1>4, TakeInv

LEMMA ReadStep == ASSUME Inv, NEW w \in Workers, Read(w) PROVE QueueStep /\ QueueOK'
<1>1. PICK m \in stream :
        /\ m.id > delivered
        /\ \A n \in stream : n.id > delivered => m.id <= n.id
        /\ delivered' = m.id
        /\ pending' = pending \cup {m.id}
        /\ faults' = faults \/ faults' = faults + 1
  BY DEF Read, Fault
<1>2. UNCHANGED <<stream, lastID, asked, pub, done, dead>>
  BY DEF Read
<1>3. /\ \A n \in stream : n.id \in Nat /\ n.id <= lastID
      /\ delivered \in Nat /\ lastID \in Nat /\ m.id \in Nat /\ pending \in SUBSET Nat /\ faults \in Nat
      /\ \A i \in pending : i <= delivered
  BY DEF Inv, TypeOK, Entry, Ids
<1>4. \A n \in stream : Live(n) => Live(n)'
  BY <1>1, <1>3 DEF Live
<1>5. QueueStep
  BY <1>1, <1>2, <1>3, <1>4 DEF QueueStep, Inv, TypeOK
<1>6. \A i \in pending' : i <= delivered'
  BY <1>1, <1>3
<1>7. Ids'
  BY <1>1, <1>2, <1>3, <1>6 DEF Inv, Ids
<1>8. lastID' \in Nat /\ delivered' \in Nat /\ pending' \in SUBSET Nat /\ faults' \in Nat
  <2>1. faults' \in Nat
    BY <1>1, <1>3
  <2>2. pending' \in SUBSET Nat
    BY <1>1, <1>3
  <2> QED  BY <1>1, <1>2, <1>3, <2>1, <2>2
<1>9. /\ stream \in SUBSET Entry /\ IsFiniteSet(stream) /\ asked \in SUBSET Jobs
      /\ pub \in [Requests -> PubState] /\ done \in SUBSET Jobs /\ dead \in SUBSET Jobs
  BY DEF Inv, TypeOK
<1>10. QueueOK'
  BY <1>2, <1>7, <1>8, <1>9 DEF QueueOK
<1> QED  BY <1>5, <1>10

LEMMA ReadInv == ASSUME Inv, NEW w \in Workers, Read(w) PROVE Inv'
<1>1. QueueStep /\ QueueOK' /\ UNCHANGED stream
  BY ReadStep DEF Read
<1>2. PICK m \in stream : m.id \in pending' /\ (Take(w, m) \/ UNCHANGED wrk)
  BY DEF Read
<1>3. CASE Take(w, m)
  BY <1>1, <1>2, <1>3, TakeInv
<1>4. CASE UNCHANGED wrk
  BY <1>1, <1>4, NobodyMoves
<1> QED  BY <1>2, <1>3, <1>4

(* The facts the steps of a busy worker start from.                        *)
LEMMA BusyFacts ==
  ASSUME Inv, NEW w \in Workers, ~WAt(w, "idle")
  PROVE  /\ wrk[w].msg \in Entry /\ wrk[w].msg.job \in Jobs /\ wrk[w].msg.attempt \in Nat
         /\ wrk[w].msg.id \in Nat /\ wrk[w].msg.id <= delivered
         /\ \A m \in stream : m.id = wrk[w].msg.id => m.job = wrk[w].msg.job
         /\ Kept(wrk[w].msg.job)
  BY DEF Inv, WorkerOK, Holds, Entry

LEMMA Typed ==
  ASSUME Inv
  PROVE  /\ asked \in SUBSET Jobs /\ pub \in [Requests -> PubState]
         /\ done \in SUBSET Jobs /\ dead \in SUBSET Jobs /\ faults \in Nat
         /\ Waiting \in WorkerState /\ Waiting.pc = "idle"
  BY DEF Inv, TypeOK, Waiting, WorkerState, Message

LEMMA SucceedInv == ASSUME Inv, NEW w \in Workers, Succeed(w) PROVE Inv'
<1> DEFINE s == [pc |-> "xack", msg |-> wrk[w].msg]
<1>1. ~WAt(w, "idle") /\ Become(w, s) /\ done' = done \cup {wrk[w].msg.job}
      /\ UNCHANGED <<stream, lastID, delivered, pending, asked, pub, dead, faults>>
  BY DEF Succeed, WAt, WGoto
<1>2. s \in WorkerState /\ s.pc = "xack" /\ s.msg = wrk[w].msg
  BY StateOf DEF Inv
<1> HIDE DEF s
<1>3. QueueStep /\ QueueOK'
  BY <1>1, BusyFacts, Typed, Same
<1> QED  BY <1>1, <1>2, <1>3, BusyFacts, WorkerMoves

(* Steps that only change what the worker is doing.                        *)
LEMMA OnlyWorkerMoves ==
  ASSUME Inv, NEW w \in Workers, NEW s \in WorkerState, Become(w, s),
         UNCHANGED <<stream, lastID, delivered, pending, asked, pub, done, dead>>, faults' \in Nat,
         s.pc \notin {"xack", "xdel"},
         \/ s.pc = "idle"
         \/ /\ ~WAt(w, "idle")
            /\ s.msg \in Entry /\ s.msg.id = wrk[w].msg.id /\ s.msg.job = wrk[w].msg.job
  PROVE  Inv'
<1>1. QueueStep /\ QueueOK'
  BY Typed, Same
<1> QED  BY <1>1, WorkerMoves

LEMMA DropInv ==
  ASSUME Inv, NEW w \in Workers, Drop(w), QueueStep, QueueOK'
  PROVE  Inv'
<1>1. Become(w, Waiting) /\ Waiting \in WorkerState /\ Waiting.pc = "idle"
  BY Typed DEF Drop
<1> QED  BY <1>1, WorkerMoves

LEMMA FaultType == ASSUME Inv, Fault \/ UNCHANGED faults PROVE faults' \in Nat
  BY DEF Inv, TypeOK, Fault

LEMMA FailForNowInv == ASSUME Inv, NEW w \in Workers, FailForNow(w) PROVE Inv'
<1> DEFINE again == [wrk[w].msg EXCEPT !.attempt = @ + 1]
<1>1. ~WAt(w, "idle") /\ UNCHANGED <<stream, lastID, delivered, pending, asked, pub, done, dead>> /\ faults' \in Nat
  BY FaultType DEF FailForNow, WAt
<1>2. again \in Entry /\ again.id = wrk[w].msg.id /\ again.job = wrk[w].msg.job
  BY <1>1, BusyFacts DEF Entry
<1>3. Become(w, [pc |-> "check", msg |-> again]) \/ Become(w, [pc |-> "bury", msg |-> again])
  BY DEF FailForNow
<1> HIDE DEF again
<1>4. [pc |-> "check", msg |-> again] \in WorkerState /\ [pc |-> "bury", msg |-> again] \in WorkerState
  BY <1>2 DEF WorkerState, Message
<1>5. CASE Become(w, [pc |-> "check", msg |-> again])
  BY <1>1, <1>2, <1>4, <1>5, OnlyWorkerMoves
<1>6. CASE Become(w, [pc |-> "bury", msg |-> again])
  BY <1>1, <1>2, <1>4, <1>6, OnlyWorkerMoves
<1> QED  BY <1>3, <1>5, <1>6

(* Going on with the message as it is.                                     *)
LEMMA GotoInv ==
  ASSUME Inv, NEW w \in Workers, ~WAt(w, "idle"), NEW pc \in {"run", "check", "add", "bury"}, WGoto(w, pc),
         UNCHANGED <<stream, lastID, delivered, pending, asked, pub, done, dead>>, faults' \in Nat
  PROVE  Inv'
<1> DEFINE s == [pc |-> pc, msg |-> wrk[w].msg]
<1>1. Become(w, s) /\ s \in WorkerState /\ s.pc = pc /\ s.msg = wrk[w].msg
  BY StateOf DEF Inv, WGoto
<1> HIDE DEF s
<1> QED  BY <1>1, BusyFacts, OnlyWorkerMoves

LEMMA FailForGoodInv == ASSUME Inv, NEW w \in Workers, FailForGood(w) PROVE Inv'
<1>1. ~WAt(w, "idle") /\ WGoto(w, "bury") /\ UNCHANGED <<stream, lastID, delivered, pending, asked, pub, done, dead>>
      /\ faults' \in Nat
  BY FaultType DEF FailForGood, WAt
<1> QED  BY <1>1, GotoInv

LEMMA RetryCheckInv == ASSUME Inv, NEW w \in Workers, RetryCheck(w) PROVE Inv'
<1>1. ~WAt(w, "idle") /\ (WGoto(w, "add") \/ WGoto(w, "bury"))
      /\ UNCHANGED <<stream, lastID, delivered, pending, asked, pub, done, dead>> /\ faults' \in Nat
  BY FaultType DEF RetryCheck, WAt
<1>2. CASE WGoto(w, "add")
  BY <1>1, <1>2, GotoInv
<1>3. CASE WGoto(w, "bury")
  BY <1>1, <1>3, GotoInv
<1> QED  BY <1>1, <1>2, <1>3

LEMMA RetryAddInv == ASSUME Inv, NEW w \in Workers, RetryAdd(w) PROVE Inv'
<1> DEFINE msg == wrk[w].msg
<1>1. ~WAt(w, "idle") /\ UNCHANGED <<delivered, pending, asked, pub, done, dead>> /\ faults' \in Nat
  BY FaultType DEF RetryAdd, WAt
<1>2. pub' \in [Requests -> PubState]
  BY <1>1, Typed
<1>3. CASE Add(msg.job, msg.attempt)
  <2>1. QueueStep /\ QueueOK' /\ \E m \in stream' : Live(m)' /\ m.job = msg.job /\ m.id > delivered
    BY <1>1, <1>2, <1>3, BusyFacts, AddStep
  <2>2. \E m \in stream' : Live(m)' /\ m.job = msg.job /\ m.id > msg.id
    BY <1>1, <2>1, BusyFacts DEF QueueStep, Entry, Inv, TypeOK
  <2>3. CASE WGoto(w, "xack")
    <3> DEFINE s == [pc |-> "xack", msg |-> msg]
    <3>1. Become(w, s) /\ s \in WorkerState /\ s.pc = "xack" /\ s.msg = msg
      BY <2>3, StateOf DEF Inv, WGoto
    <3> HIDE DEF s
    <3> QED  BY <1>1, <2>1, <2>2, <3>1, BusyFacts, WorkerMoves
  <2>4. CASE WGoto(w, "bury")
    <3> DEFINE s == [pc |-> "bury", msg |-> msg]
    <3>1. Become(w, s) /\ s \in WorkerState /\ s.pc = "bury" /\ s.msg = msg
      BY <2>4, StateOf DEF Inv, WGoto
    <3> HIDE DEF s
    <3> QED  BY <1>1, <2>1, <3>1, BusyFacts, WorkerMoves
  <2> QED  BY <2>3, <2>4 DEF RetryAdd
<1>4. CASE UNCHANGED <<stream, lastID>> /\ WGoto(w, "bury")
  BY <1>1, <1>4, GotoInv
<1> QED  BY <1>3, <1>4 DEF RetryAdd

LEMMA BuryInv == ASSUME Inv, NEW w \in Workers, Bury(w) PROVE Inv'
<1> DEFINE msg == wrk[w].msg
<1>1. ~WAt(w, "idle") /\ UNCHANGED <<stream, lastID, delivered, pending, asked, pub, done>> /\ faults' \in Nat
  BY FaultType DEF Bury, WAt
<1>2. dead' = dead \/ dead' = dead \cup {msg.job}
  BY DEF Bury
<1>3. QueueStep /\ QueueOK'
  BY <1>1, <1>2, BusyFacts, Typed, Same
<1>4. CASE dead' = dead \cup {msg.job} /\ WGoto(w, "xack")
  <2> DEFINE s == [pc |-> "xack", msg |-> msg]
  <2>1. Become(w, s) /\ s \in WorkerState /\ s.pc = "xack" /\ s.msg = msg
    BY <1>4, StateOf DEF Inv, WGoto
  <2> HIDE DEF s
  <2> QED  BY <1>1, <1>3, <1>4, <2>1, BusyFacts, WorkerMoves
<1>5. CASE Drop(w)
  BY <1>3, <1>5, DropInv
<1> QED  BY <1>4, <1>5 DEF Bury

(* XACK of an earned acknowledgement.                                      *)
LEMMA XAckStep ==
  ASSUME Inv, NEW w \in Workers, WAt(w, "xack"),
         pending' = pending \/ pending' = pending \ {wrk[w].msg.id},
         UNCHANGED <<stream, lastID, delivered, asked, pub, done, dead>>, faults' \in Nat
  PROVE  QueueStep /\ QueueOK'
<1>1. CASE UNCHANGED pending
  BY <1>1, Typed, Same
<1>2. CASE pending' = pending \ {wrk[w].msg.id}
  <2>1. Earned(w) /\ ~WAt(w, "idle")
    BY DEF Inv, WorkerOK, WAt
  <2>2. /\ wrk[w].msg.id \in Nat /\ wrk[w].msg.id <= delivered
        /\ \A m \in stream : m.id = wrk[w].msg.id => m.job = wrk[w].msg.job
    BY <2>1, BusyFacts
  <2>3. stream \in SUBSET Entry /\ \A m \in stream : m.id \in Nat
    BY DEF Inv, TypeOK, Entry
  <2>4. ASSUME NEW m \in stream, Live(m)
        PROVE  \/ Live(m)'
               \/ m.job \in done' \cup dead'
               \/ \E n \in stream' : Live(n)' /\ n.job = m.job /\ n.id > m.id
    <3>1. CASE m.id # wrk[w].msg.id
      BY <1>2, <2>4, <3>1 DEF Live
    <3>2. CASE m.id = wrk[w].msg.id
      <4>1. m.job = wrk[w].msg.job
        BY <2>2, <3>2
      <4>2. CASE wrk[w].msg.job \in done \cup dead
        BY <4>1, <4>2
      <4>3. CASE \E n \in stream : Live(n) /\ n.job = wrk[w].msg.job /\ n.id > wrk[w].msg.id
        <5>1. PICK n \in stream : Live(n) /\ n.job = wrk[w].msg.job /\ n.id > wrk[w].msg.id
          BY <4>3
        <5>2. n.id # wrk[w].msg.id
          BY <2>2, <2>3, <5>1
        <5>3. Live(n)'
          BY <1>2, <5>1, <5>2 DEF Live
        <5> QED  BY <3>2, <4>1, <5>1, <5>3
      <4> QED  BY <2>1, <4>2, <4>3 DEF Earned
    <3> QED  BY <3>1, <3>2
  <2>5. QueueStep
    BY <1>2, <2>3, <2>4 DEF QueueStep, Inv, TypeOK
  <2>6. Ids' /\ pending' \in SUBSET Nat
    BY <1>2 DEF Inv, TypeOK, Ids
  <2>7. QueueOK'
    BY <2>6 DEF QueueOK, Inv, TypeOK
  <2> QED  BY <2>5, <2>7
<1> QED  BY <1>1, <1>2

LEMMA XAckInv == ASSUME Inv, NEW w \in Workers, XAck(w) PROVE Inv'
<1>1. /\ WAt(w, "xack") /\ ~WAt(w, "idle") /\ faults' \in Nat
      /\ UNCHANGED <<stream, lastID, delivered, asked, pub, done, dead>>
      /\ pending' = pending \/ pending' = pending \ {wrk[w].msg.id}
  BY FaultType DEF XAck, WAt
<1>2. QueueStep /\ QueueOK'
  BY <1>1, XAckStep
<1>3. CASE pending' = pending \ {wrk[w].msg.id} /\ WGoto(w, "xdel")
  <2> DEFINE s == [pc |-> "xdel", msg |-> wrk[w].msg]
  <2>1. Become(w, s) /\ s \in WorkerState /\ s.pc = "xdel" /\ s.msg = wrk[w].msg
    BY <1>3, StateOf DEF Inv, WGoto
  <2> HIDE DEF s
  <2> QED  BY <1>1, <1>2, <1>3, <2>1, BusyFacts, WorkerMoves
<1>4. CASE Drop(w)
  BY <1>2, <1>4, DropInv
<1> QED  BY <1>3, <1>4 DEF XAck

LEMMA XDelInv == ASSUME Inv, NEW w \in Workers, XDel(w) PROVE Inv'
<1>1. /\ ~WAt(w, "idle") /\ faults' \in Nat /\ Drop(w) /\ wrk[w].msg.id \notin pending
      /\ UNCHANGED <<lastID, delivered, pending, asked, pub, done, dead>>
  BY FaultType DEF XDel, WAt, Inv, WorkerOK
<1>2. CASE UNCHANGED stream
  BY <1>1, <1>2, Typed, Same, DropInv
<1>3. CASE stream' = {m \in stream : m.id # wrk[w].msg.id}
  <2>1. stream' \in SUBSET stream /\ stream' \in SUBSET Entry /\ IsFiniteSet(stream')
    BY <1>3, FS_Subset DEF Inv, TypeOK
  <2>2. \A m \in stream : Live(m) => m \in stream' /\ Live(m)'
    <3>1. wrk[w].msg.id \in Nat /\ wrk[w].msg.id <= delivered /\ delivered \in Nat
      BY <1>1, BusyFacts DEF Inv, TypeOK
    <3> QED  BY <1>1, <1>3, <3>1 DEF Live
  <2>3. QueueStep
    BY <1>1, <2>1, <2>2 DEF QueueStep, Inv, TypeOK
  <2>4. Ids'
    BY <1>1, <2>1 DEF Inv, Ids
  <2>5. QueueOK'
    BY <1>1, <2>1, <2>4 DEF QueueOK, Inv, TypeOK
  <2> QED  BY <1>1, <2>3, <2>5, DropInv
<1> QED  BY <1>2, <1>3 DEF XDel

LEMMA KillInv == ASSUME Inv, NEW w \in Workers, Kill(w) PROVE Inv'
<1>1. Drop(w) /\ faults' \in Nat /\ UNCHANGED <<stream, lastID, delivered, pending, asked, pub, done, dead>>
  BY FaultType DEF Kill
<1>2. QueueStep /\ QueueOK'
  BY <1>1, Typed, Same
<1> QED  BY <1>1, <1>2, DropInv

-----------------------------------------------------------------------------
(* The theorems *)

LEMMA InitInv == Init => Inv
<1> SUFFICES ASSUME Init PROVE Inv
  OBVIOUS
<1>1. \A r \in Requests : pub[r] \in PubState
  BY DEF Init, PubState, NoPublish
<1>2. Waiting \in WorkerState /\ Waiting.pc = "idle"
  BY DEF Waiting, WorkerState, Message
<1>3. TypeOK
  BY <1>1, <1>2, FS_EmptySet DEF Init, TypeOK
<1>4. Ids /\ \A w \in Workers : WorkerOK(w)
  BY <1>2 DEF Init, Ids, WorkerOK, WAt
<1> QED  BY <1>3, <1>4 DEF Inv

LEMMA StutterInv == ASSUME Inv, UNCHANGED vars PROVE Inv'
<1>1. UNCHANGED <<stream, lastID, delivered, pending, asked, pub, wrk, done, dead, faults>>
  BY DEF vars
<1>2. QueueStep /\ QueueOK'
  BY <1>1, Typed, Same
<1> QED  BY <1>1, <1>2, NobodyMoves

LEMMA StepInv == Inv /\ [Next]_vars => Inv'
<1> SUFFICES ASSUME Inv, [Next]_vars PROVE Inv'
  OBVIOUS
<1>1. ASSUME NEW r \in Requests, CheckLength(r) \/ AddJob(r) PROVE Inv'
  BY <1>1, CheckLengthInv, AddJobInv
<1>2. ASSUME NEW w \in Workers, WorkerStep(w) \/ Kill(w) PROVE Inv'
  BY <1>2, ClaimInv, ReadInv, SucceedInv, FailForNowInv, FailForGoodInv, RetryCheckInv, RetryAddInv,
     BuryInv, XAckInv, XDelInv, KillInv DEF WorkerStep
<1> QED  BY <1>1, <1>2, StutterInv DEF Next

LEMMA Invariant == Spec => []Inv
  BY InitInv, StepInv, PTL DEF Spec

(* Every variable keeps its type, whatever fails (queue.go:12-15).         *)
THEOREM Types == Spec => []TypeOK
  BY Invariant, PTL DEF Inv

(* process acknowledges a message only when its job is executed, buried or *)
(* queued again, for any number of workers that claim from each other      *)
(* (main.go:118-151).                                                      *)
THEOREM AcksAreEarned == Spec => []AckIsEarned
<1>1. Inv => AckIsEarned
  BY DEF Inv, WorkerOK, Earned, WAt, AckIsEarned
<1> QED  BY <1>1, Invariant, PTL

-----------------------------------------------------------------------------
(* The length of the stream *)

LEMMA Finiteness ==
  ASSUME TypeOK
  PROVE  /\ IsFiniteSet(stream) /\ IsFiniteSet(Publishers) /\ IsFiniteSet(Republishers)
         /\ Cardinality(stream) \in Nat
         /\ Cardinality(Publishers) \in Nat /\ Cardinality(Publishers) <= Cardinality(Requests)
         /\ Cardinality(Republishers) \in Nat /\ Cardinality(Republishers) <= Cardinality(Workers)
         /\ Cardinality(Requests) \in Nat /\ Cardinality(Workers) \in Nat
<1>1. Publishers \in SUBSET Requests /\ Republishers \in SUBSET Workers
  BY DEF Publishers, Republishers
<1>2. IsFiniteSet(stream) /\ IsFiniteSet(Requests) /\ IsFiniteSet(Workers)
  BY DEF TypeOK
<1>3. IsFiniteSet(Publishers) /\ Cardinality(Publishers) <= Cardinality(Requests)
  BY <1>1, <1>2, FS_Subset
<1>4. IsFiniteSet(Republishers) /\ Cardinality(Republishers) <= Cardinality(Workers)
  BY <1>1, <1>2, FS_Subset
<1> QED  BY <1>2, <1>3, <1>4, FS_CardinalityType

LEMMA FinitenessNext ==
  ASSUME TypeOK'
  PROVE  /\ IsFiniteSet(stream') /\ IsFiniteSet(Publishers') /\ IsFiniteSet(Republishers')
         /\ Cardinality(stream') \in Nat
         /\ Cardinality(Publishers') \in Nat /\ Cardinality(Publishers') <= Cardinality(Requests)
         /\ Cardinality(Republishers') \in Nat /\ Cardinality(Republishers') <= Cardinality(Workers)
         /\ Cardinality(Requests) \in Nat /\ Cardinality(Workers) \in Nat
<1>1. Publishers' \in SUBSET Requests /\ Republishers' \in SUBSET Workers
  BY DEF Publishers, Republishers
<1>2. IsFiniteSet(stream') /\ IsFiniteSet(Requests) /\ IsFiniteSet(Workers)
  BY DEF TypeOK
<1>3. IsFiniteSet(Publishers') /\ Cardinality(Publishers') <= Cardinality(Requests)
  BY <1>1, <1>2, FS_Subset
<1>4. IsFiniteSet(Republishers') /\ Cardinality(Republishers') <= Cardinality(Workers)
  BY <1>1, <1>2, FS_Subset
<1> QED  BY <1>2, <1>3, <1>4, FS_CardinalityType

(* Whoever passed the check was there when there was room.                 *)
LEMMA RoomSuffices == ASSUME TypeOK', HasRoom' PROVE LengthBound'
  BY FinitenessNext DEF HasRoom, LengthBound

(* Nobody starts to publish and nothing is added.                          *)
LEMMA NothingAdded ==
  ASSUME TypeOK, TypeOK', LengthBound, stream' \subseteq stream,
         Publishers' \subseteq Publishers, Republishers' \subseteq Republishers
  PROVE  LengthBound'
<1>1. Cardinality(stream') <= Cardinality(stream)
  BY Finiteness, FS_Subset
<1>2. Cardinality(Publishers') <= Cardinality(Publishers)
  BY Finiteness, FS_Subset
<1>3. Cardinality(Republishers') <= Cardinality(Republishers)
  BY Finiteness, FS_Subset
<1> QED  BY <1>1, <1>2, <1>3, Finiteness, FinitenessNext DEF LengthBound

LEMMA AddedLength ==
  ASSUME TypeOK, NEW j, NEW a, Add(j, a)
  PROVE  Cardinality(stream') <= Cardinality(stream) + 1
<1>1. PICK e : stream' = stream \cup {e}
  BY DEF Add
<1>2. IsFiniteSet(stream) /\ Cardinality(stream) \in Nat
  BY Finiteness
<1>3. Cardinality(stream \cup {e}) = IF e \in stream THEN Cardinality(stream) ELSE Cardinality(stream) + 1
  BY <1>2, FS_AddElement
<1> QED  BY <1>1, <1>2, <1>3

LEMMA RepublishersAfter ==
  ASSUME TypeOK, NEW w \in Workers, NEW s \in WorkerState, Become(w, s), s.pc # "add"
  PROVE  Republishers' = Republishers \ {w}
  BY BecomeEffect DEF Republishers, WAt

LEMMA AddJobLength == ASSUME Inv, Inv', LengthBound, NEW r \in Requests, AddJob(r) PROVE LengthBound'
<1>1. r \in Publishers /\ Publishers' = Publishers \ {r} /\ Republishers' = Republishers
  BY DEF AddJob, Return, NoPublish, Publishers, Republishers, WAt, Inv, TypeOK
<1>2. Cardinality(Publishers') = Cardinality(Publishers) - 1
  BY <1>1, Finiteness, FS_RemoveElement DEF Inv
<1>3. Cardinality(stream') <= Cardinality(stream) + 1
  <2>1. CASE Add(pub[r].job, 1)
    BY <2>1, AddedLength DEF Inv
  <2>2. CASE stream' = stream
    BY <2>2, Finiteness DEF Inv
  <2> QED  BY <2>1, <2>2 DEF AddJob
<1> QED  BY <1>1, <1>2, <1>3, Finiteness, FinitenessNext DEF Inv, LengthBound

LEMMA RetryAddLength == ASSUME Inv, Inv', LengthBound, NEW w \in Workers, RetryAdd(w) PROVE LengthBound'
<1>1. /\ w \in Republishers /\ Publishers' = Publishers
      /\ WGoto(w, "xack") \/ WGoto(w, "bury")
  BY DEF RetryAdd, Publishers, Republishers
<1>2. Republishers' = Republishers \ {w}
  <2>1. \E s \in WorkerState : s.pc # "add" /\ Become(w, s)
    BY <1>1, StateOf DEF Inv, WGoto
  <2> QED  BY <2>1, RepublishersAfter DEF Inv
<1>3. Cardinality(Republishers') = Cardinality(Republishers) - 1
  BY <1>1, <1>2, Finiteness, FS_RemoveElement DEF Inv
<1>4. Cardinality(stream') <= Cardinality(stream) + 1
  <2>1. CASE Add(wrk[w].msg.job, wrk[w].msg.attempt)
    BY <2>1, AddedLength DEF Inv
  <2>2. CASE stream' = stream
    BY <2>2, Finiteness DEF Inv
  <2> QED  BY <2>1, <2>2 DEF RetryAdd
<1> QED  BY <1>1, <1>3, <1>4, Finiteness, FinitenessNext DEF Inv, LengthBound

(* The other steps of a worker, and being killed.                          *)
LEMMA WorkerLength ==
  ASSUME Inv, Inv', LengthBound, NEW w \in Workers, UNCHANGED pub, stream' \subseteq stream,
         UNCHANGED wrk \/ \E s \in WorkerState : s.pc # "add" /\ Become(w, s)
  PROVE  LengthBound'
<1>1. Publishers' = Publishers /\ Republishers' \subseteq Republishers
  <2>1. CASE UNCHANGED wrk
    BY <2>1 DEF Publishers, Republishers, WAt
  <2>2. CASE \E s \in WorkerState : s.pc # "add" /\ Become(w, s)
    BY <2>2, RepublishersAfter DEF Inv, Publishers
  <2> QED  BY <2>1, <2>2
<1> QED  BY <1>1, NothingAdded DEF Inv

LEMMA LengthStep == Inv /\ Inv' /\ LengthBound /\ [Next]_vars => LengthBound'
<1> SUFFICES ASSUME Inv, Inv', LengthBound, [Next]_vars PROVE LengthBound'
  OBVIOUS
<1>1. ASSUME NEW r \in Requests, CheckLength(r) PROVE LengthBound'
  <2>1. CASE HasRoom
    BY <1>1, <2>1, RoomSuffices DEF CheckLength, HasRoom, Inv
  <2>2. CASE UNCHANGED pub
    BY <1>1, <2>2, NothingAdded DEF CheckLength, Publishers, Republishers, WAt, Inv
  <2> QED  BY <1>1, <2>1, <2>2 DEF CheckLength
<1>2. ASSUME NEW r \in Requests, AddJob(r) PROVE LengthBound'
  BY <1>2, AddJobLength
<1>3. ASSUME NEW w \in Workers, WorkerStep(w) \/ Kill(w) PROVE LengthBound'
  <2>0. \A pc \in {"run", "check", "bury", "xack", "xdel"} :
           WGoto(w, pc) => \E s \in WorkerState : s.pc # "add" /\ Become(w, s)
    BY StateOf DEF Inv, WGoto
  <2>1. CASE RetryAdd(w)
    BY <2>1, RetryAddLength
  <2>2. CASE RetryCheck(w)
    <3>1. CASE HasRoom
      BY <2>2, <3>1, RoomSuffices DEF RetryCheck, HasRoom, Inv
    <3>2. CASE ~HasRoom \/ WGoto(w, "bury")
      BY <2>0, <2>2, <3>2, WorkerLength DEF RetryCheck
    <3> QED  BY <3>1, <3>2
  <2>3. ASSUME Drop(w) PROVE \E s \in WorkerState : s.pc # "add" /\ Become(w, s)
    BY <2>3, Typed DEF Drop
  <2>4. CASE Kill(w)
    BY <2>3, <2>4, WorkerLength DEF Kill
  <2>5. ASSUME NEW m \in stream, Take(w, m) PROVE \E s \in WorkerState : s.pc # "add" /\ Become(w, s)
    <3>1. [pc |-> "run", msg |-> m] \in WorkerState
      BY DEF Inv, TypeOK, WorkerState, Message
    <3> QED  BY <2>5, <3>1 DEF Take
  <2>6. CASE Claim(w)
    BY <2>5, <2>6, WorkerLength DEF Claim
  <2>7. CASE Read(w)
    BY <2>5, <2>7, WorkerLength DEF Read
  <2>8. CASE FailForNow(w)
    <3> DEFINE again == [wrk[w].msg EXCEPT !.attempt = @ + 1]
    <3>1. again \in Entry
      BY <2>8, BusyFacts DEF FailForNow, WAt, Entry
    <3>2. Become(w, [pc |-> "check", msg |-> again]) \/ Become(w, [pc |-> "bury", msg |-> again])
      BY <2>8 DEF FailForNow
    <3> HIDE DEF again
    <3>3. [pc |-> "check", msg |-> again] \in WorkerState /\ [pc |-> "bury", msg |-> again] \in WorkerState
      BY <3>1 DEF WorkerState, Message
    <3> QED  BY <2>8, <3>2, <3>3, WorkerLength DEF FailForNow
  <2>9. CASE Succeed(w) \/ FailForGood(w)
    BY <2>0, <2>9, WorkerLength DEF Succeed, FailForGood
  <2>10. CASE Bury(w)
    BY <2>0, <2>3, <2>10, WorkerLength DEF Bury
  <2>11. CASE XAck(w) \/ XDel(w)
    BY <2>0, <2>3, <2>11, WorkerLength DEF XAck, XDel
  <2> QED  BY <1>3, <2>1, <2>2, <2>4, <2>6, <2>7, <2>8, <2>9, <2>10, <2>11 DEF WorkerStep
<1>4. CASE UNCHANGED vars
  BY <1>4, NothingAdded DEF vars, Publishers, Republishers, WAt, Inv
<1> QED  BY <1>1, <1>2, <1>3, <1>4 DEF Next

(* Publish's check is not atomic, but the stream passes its limit by fewer *)
(* entries than there are publishers, however many there are (redis.go:    *)
(* 65-79).                                                                 *)
THEOREM LengthIsBounded == Spec => []LengthBound
<1>1. Init => LengthBound
  <2> SUFFICES ASSUME Init PROVE LengthBound
    OBVIOUS
  <2>1. TypeOK /\ HasRoom
    BY InitInv, FS_EmptySet DEF Inv, Init, HasRoom
  <2> QED  BY <2>1, Finiteness DEF HasRoom, LengthBound
<1> QED  BY <1>1, LengthStep, Invariant, PTL DEF Spec

-----------------------------------------------------------------------------
(* The refinement *)

Custody == {m.job : m \in {n \in stream : Live(n)}}

(* A step that hides no live entry and adds none of another job.           *)
LEMMA CustodySame ==
  ASSUME UNCHANGED <<stream, delivered, pending>>
  PROVE  Custody' = Custody
  BY DEF Custody, Live

LEMMA CustodyAdd ==
  ASSUME Inv, NEW j \in Jobs, NEW a \in Nat, Add(j, a), UNCHANGED <<delivered, pending>>
  PROVE  Custody' = Custody \cup {j}
<1>1. PICK e : e = [id |-> lastID + 1, job |-> j, attempt |-> a]
  OBVIOUS
<1>2. stream' = stream \cup {e} /\ e.job = j /\ e.id > delivered
  BY <1>1 DEF Add, Inv, TypeOK, Ids
<1>3. Live(e)' /\ \A m \in stream : Live(m)' <=> Live(m)
  BY <1>2 DEF Live
<1> QED  BY <1>2, <1>3 DEF Custody

LEMMA CustodyRead == ASSUME Inv, NEW w \in Workers, Read(w) PROVE Custody' = Custody
<1>1. PICK m \in stream :
        /\ m.id > delivered
        /\ \A n \in stream : n.id > delivered => m.id <= n.id
        /\ delivered' = m.id
        /\ pending' = pending \cup {m.id}
        /\ UNCHANGED stream
  BY DEF Read
<1>2. \A n \in stream : n.id \in Nat
  BY DEF Inv, TypeOK, Entry
<1>3. \A n \in stream : Live(n)' <=> Live(n)
  BY <1>1, <1>2 DEF Live, Inv, TypeOK
<1> QED  BY <1>1, <1>3 DEF Custody

LEMMA CustodyXDel == ASSUME Inv, NEW w \in Workers, XDel(w) PROVE Custody' = Custody
<1>1. /\ wrk[w].msg.id \notin pending /\ wrk[w].msg.id \in Nat /\ wrk[w].msg.id <= delivered
      /\ UNCHANGED <<delivered, pending>> /\ delivered \in Nat
  BY BusyFacts DEF XDel, WAt, Inv, WorkerOK, TypeOK
<1>2. CASE UNCHANGED stream
  BY <1>1, <1>2, CustodySame
<1>3. CASE stream' = {m \in stream : m.id # wrk[w].msg.id}
  <2>1. \A m : Live(m)' <=> Live(m)
    BY <1>1 DEF Live
  <2>2. \A m \in stream : Live(m) => m.id # wrk[w].msg.id
    BY <1>1 DEF Live
  <2>3. {n \in stream' : Live(n)'} = {n \in stream : Live(n)}
    BY <1>3, <2>1, <2>2
  <2> QED  BY <2>3 DEF Custody
<1> QED  BY <1>2, <1>3 DEF XDel

(* An acknowledgement releases a job that is settled, or changes nothing   *)
(* because a younger entry keeps it.                                       *)
LEMMA CustodyXAck ==
  ASSUME Inv, NEW w \in Workers, XAck(w)
  PROVE  \/ Custody' = Custody
         \/ Custody' = Custody \ {wrk[w].msg.job} /\ wrk[w].msg.job \in done \cup dead
<1>1. CASE UNCHANGED pending
  BY <1>1, CustodySame DEF XAck
<1>2. CASE pending' = pending \ {wrk[w].msg.id}
  <2>1. /\ UNCHANGED <<stream, delivered>> /\ Earned(w) /\ delivered \in Nat
        /\ wrk[w].msg.id \in Nat /\ wrk[w].msg.id <= delivered
        /\ \A m \in stream : m.id \in Nat
        /\ \A m \in stream : m.id = wrk[w].msg.id => m.job = wrk[w].msg.job
    BY BusyFacts DEF XAck, WAt, Inv, WorkerOK, TypeOK, Entry
  <2>2. \A m \in stream : Live(m)' <=> (Live(m) /\ m.id # wrk[w].msg.id)
    BY <1>2, <2>1 DEF Live
  <2>3. CASE \E n \in stream : Live(n)' /\ n.job = wrk[w].msg.job
    <3>1. Custody' \subseteq Custody
      BY <2>1, <2>2 DEF Custody
    <3>2. Custody \subseteq Custody'
      BY <2>1, <2>2, <2>3 DEF Custody
    <3> QED  BY <3>1, <3>2
  <2>4. CASE ~ \E n \in stream : Live(n)' /\ n.job = wrk[w].msg.job
    <3>1. wrk[w].msg.job \in done \cup dead
      BY <2>1, <2>2, <2>4 DEF Earned
    <3>2. Custody' = Custody \ {wrk[w].msg.job}
      BY <2>1, <2>2, <2>4 DEF Custody
    <3> QED  BY <3>1, <3>2
  <2> QED  BY <2>3, <2>4
<1> QED  BY <1>1, <1>2 DEF XAck

LEMMA DeliveryStep == Inv /\ [Next]_vars => [Delivery!Next]_(Delivery!vars)
<1> SUFFICES ASSUME Inv, [Next]_vars PROVE [Delivery!Next]_(Delivery!vars)
  OBVIOUS
<1> USE DEF Custody
<1>1. ASSUME Custody' = Custody, UNCHANGED <<done, dead>> PROVE [Delivery!Next]_(Delivery!vars)
  BY <1>1 DEF Delivery!vars
<1>2. ASSUME NEW j \in Jobs, Custody' = Custody \cup {j}, UNCHANGED <<done, dead>>
      PROVE  [Delivery!Next]_(Delivery!vars)
  BY <1>2 DEF Delivery!Next, Delivery!Accept
<1>3. ASSUME NEW w \in Workers, ~WAt(w, "idle")
      PROVE  /\ wrk[w].msg.job \in Jobs /\ wrk[w].msg.attempt \in Nat
             /\ wrk[w].msg.job \in Custody \cup done \cup dead
  BY <1>3, BusyFacts DEF Kept
<1>4. ASSUME NEW r \in Requests, CheckLength(r) PROVE [Delivery!Next]_(Delivery!vars)
  <2>1. Custody' = Custody
    BY <1>4, CustodySame DEF CheckLength
  <2> QED  BY <1>1, <1>4, <2>1 DEF CheckLength
<1>5. ASSUME NEW r \in Requests, AddJob(r) PROVE [Delivery!Next]_(Delivery!vars)
  <2>1. pub[r].job \in Jobs
    BY <1>5 DEF AddJob, Inv, TypeOK, PubState
  <2>2. CASE Add(pub[r].job, 1)
    <3>1. Custody' = Custody \cup {pub[r].job}
      BY <1>5, <2>1, <2>2, CustodyAdd DEF AddJob
    <3> QED  BY <1>2, <1>5, <2>1, <3>1 DEF AddJob
  <2>3. CASE UNCHANGED <<stream, lastID>>
    <3>1. Custody' = Custody
      BY <1>5, <2>3, CustodySame DEF AddJob
    <3> QED  BY <1>1, <1>5, <3>1 DEF AddJob
  <2> QED  BY <1>5, <2>2, <2>3 DEF AddJob
<1>6. ASSUME NEW w \in Workers, WorkerStep(w) \/ Kill(w) PROVE [Delivery!Next]_(Delivery!vars)
  <2>1. CASE Claim(w) \/ FailForNow(w) \/ FailForGood(w) \/ RetryCheck(w) \/ Kill(w)
    <3>1. UNCHANGED <<stream, delivered, pending, done, dead>>
      BY <2>1 DEF Claim, FailForNow, FailForGood, RetryCheck, Kill
    <3> QED  BY <1>1, <3>1, CustodySame
  <2>2. CASE Read(w)
    BY <1>1, <2>2, CustodyRead DEF Read
  <2>3. CASE Succeed(w)
    <3>1. Custody' = Custody /\ wrk[w].msg.job \in Jobs /\ wrk[w].msg.job \in Custody \cup done \cup dead
      BY <1>3, <2>3, CustodySame DEF Succeed, WAt
    <3> QED  BY <2>3, <3>1 DEF Succeed, Delivery!Next, Delivery!Execute, Delivery!Known
  <2>4. CASE RetryAdd(w)
    <3>1. wrk[w].msg.job \in Jobs /\ wrk[w].msg.attempt \in Nat /\ UNCHANGED <<done, dead>>
      BY <1>3, <2>4 DEF RetryAdd, WAt
    <3>2. CASE Add(wrk[w].msg.job, wrk[w].msg.attempt)
      <4>1. Custody' = Custody \cup {wrk[w].msg.job}
        BY <2>4, <3>1, <3>2, CustodyAdd DEF RetryAdd
      <4> QED  BY <1>2, <3>1, <4>1
    <3>3. CASE UNCHANGED <<stream, lastID>>
      <4>1. Custody' = Custody
        BY <2>4, <3>3, CustodySame DEF RetryAdd
      <4> QED  BY <1>1, <3>1, <4>1
    <3> QED  BY <2>4, <3>2, <3>3 DEF RetryAdd
  <2>5. CASE Bury(w)
    <3>1. Custody' = Custody /\ wrk[w].msg.job \in Jobs /\ wrk[w].msg.job \in Custody \cup done \cup dead
      BY <1>3, <2>5, CustodySame DEF Bury, WAt
    <3>2. CASE UNCHANGED dead
      BY <1>1, <2>5, <3>1, <3>2 DEF Bury
    <3>3. CASE dead' = dead \cup {wrk[w].msg.job}
      BY <2>5, <3>1, <3>3 DEF Bury, Delivery!Next, Delivery!Bury, Delivery!Known
    <3> QED  BY <2>5, <3>2, <3>3 DEF Bury
  <2>6. CASE XAck(w)
    <3>1. wrk[w].msg.job \in Jobs /\ UNCHANGED <<done, dead>>
      BY <1>3, <2>6 DEF XAck, WAt
    <3>2. CASE Custody' = Custody
      BY <1>1, <3>1, <3>2
    <3>3. CASE Custody' = Custody \ {wrk[w].msg.job} /\ wrk[w].msg.job \in done \cup dead
      BY <3>1, <3>3 DEF Delivery!Next, Delivery!Release
    <3> QED  BY <2>6, <3>2, <3>3, CustodyXAck
  <2>7. CASE XDel(w)
    BY <1>1, <2>7, CustodyXDel DEF XDel
  <2> QED  BY <1>6, <2>1, <2>2, <2>3, <2>4, <2>5, <2>6, <2>7 DEF WorkerStep
<1>7. CASE UNCHANGED vars
  BY <1>1, <1>7, CustodySame DEF vars
<1> QED  BY <1>4, <1>5, <1>6, <1>7 DEF Next

(* The Redis queue implements the abstract one: a job leaves the stream    *)
(* and the pending list only after a worker executed or buried it, for any *)
(* number of publishers and workers, lost replies and kills (redis.go:     *)
(* 65-166 with main.go:69-152).                                            *)
THEOREM ImplementsDelivery == Spec => DeliverySafe
<1>1. Init => Delivery!Init
  BY DEF Init, Delivery!Init
<1> QED  BY <1>1, DeliveryStep, Invariant, PTL DEF Spec, DeliverySafe, Delivery!Safe

-----------------------------------------------------------------------------
(* Entries that only take up room *)

(* Nobody is about to delete them.                                         *)
Orphan(m) == ~Live(m) /\ \A w \in Workers : WAt(w, "xdel") => wrk[w].msg.id # m.id
Orphans == {m \in stream : Orphan(m)}
OrphanBound == Cardinality(Orphans) <= faults

LEMMA FewerOrphans ==
  ASSUME Inv, Inv', OrphanBound, Orphans' \subseteq Orphans, faults' = faults \/ faults' = faults + 1
  PROVE  OrphanBound'
<1>1. IsFiniteSet(Orphans)
  BY FS_Subset DEF Inv, TypeOK, Orphans
<1>2. IsFiniteSet(Orphans') /\ Cardinality(Orphans') <= Cardinality(Orphans)
  BY <1>1, FS_Subset
<1>3. Cardinality(Orphans) \in Nat /\ Cardinality(Orphans') \in Nat /\ faults \in Nat
  BY <1>1, <1>2, FS_CardinalityType DEF Inv, TypeOK
<1> QED  BY <1>2, <1>3 DEF OrphanBound

LEMMA OneMoreOrphan ==
  ASSUME Inv, Inv', OrphanBound, NEW i, \A m \in Orphans' : m \in Orphans \/ m.id = i, faults' = faults + 1
  PROVE  OrphanBound'
<1>1. IsFiniteSet(Orphans) /\ IsFiniteSet(Orphans')
  <2>1. Orphans \in SUBSET stream /\ Orphans' \in SUBSET stream'
    BY DEF Orphans
  <2> QED  BY <2>1, FS_Subset DEF Inv, TypeOK
<1>2. CASE Orphans' \subseteq Orphans
  BY <1>2, FewerOrphans
<1>3. ASSUME NEW e \in Orphans', e \notin Orphans PROVE OrphanBound'
  <2>1. \A m \in Orphans' : m \in Orphans \/ m = e
    BY <1>3 DEF Orphans, Inv, Ids
  <2>2. Orphans' \in SUBSET (Orphans \cup {e})
    BY <2>1
  <2>3. IsFiniteSet(Orphans \cup {e}) /\ Cardinality(Orphans \cup {e}) = Cardinality(Orphans) + 1
    BY <1>1, <1>3, FS_AddElement
  <2>4. Cardinality(Orphans') <= Cardinality(Orphans) + 1
    BY <2>2, <2>3, FS_Subset
  <2>5. Cardinality(Orphans) \in Nat /\ Cardinality(Orphans') \in Nat /\ faults \in Nat
    BY <1>1, FS_CardinalityType DEF Inv, TypeOK
  <2> QED  BY <2>4, <2>5 DEF OrphanBound
<1> QED  BY <1>2, <1>3

(* A worker that is not about to delete moves, and nothing becomes leaked. *)
LEMMA OrphansKept ==
  ASSUME \A m \in stream' : ~Live(m)' => m \in stream /\ ~Live(m),
         \A v \in Workers : WAt(v, "xdel") => wrk'[v] = wrk[v]
  PROVE  Orphans' \subseteq Orphans
  BY DEF Orphans, Orphan, WAt

(* A worker fails or is killed.                                            *)
LEMMA OrphansOfFault ==
  ASSUME NEW w \in Workers, \A v \in Workers \ {w} : wrk'[v] = wrk[v],
         \A m \in stream' : ~Live(m)' => m \in stream /\ (~Live(m) \/ m.id = wrk[w].msg.id)
  PROVE  \A m \in Orphans' : m \in Orphans \/ m.id = wrk[w].msg.id
<1> SUFFICES ASSUME NEW m \in Orphans', m.id # wrk[w].msg.id PROVE m \in Orphans
  OBVIOUS
<1>1. m \in stream /\ ~Live(m)
  BY DEF Orphans, Orphan
<1>2. ASSUME NEW v \in Workers, WAt(v, "xdel") PROVE wrk[v].msg.id # m.id
  <2>1. CASE v = w
    BY <2>1
  <2>2. CASE v # w
    BY <1>2, <2>2 DEF Orphans, Orphan, WAt
  <2> QED  BY <2>1, <2>2
<1> QED  BY <1>1, <1>2 DEF Orphans, Orphan

LEMMA LiveSame == ASSUME UNCHANGED <<delivered, pending>> PROVE \A m : Live(m)' <=> Live(m)
  BY DEF Live

(* Taking a message, adding an entry and all that leaves the queue alone.  *)
LEMMA LeakedOnlyByXAck ==
  ASSUME Inv,
         \/ UNCHANGED <<stream, delivered, pending>>
         \/ UNCHANGED <<delivered, pending>> /\ \E j \in Jobs, a \in Nat : Add(j, a)
         \/ \E w \in Workers : Read(w)
  PROVE  \A m \in stream' : ~Live(m)' => m \in stream /\ ~Live(m)
<1>1. \A m \in stream : m.id \in Nat
  BY DEF Inv, TypeOK, Entry
<1>2. CASE UNCHANGED <<stream, delivered, pending>>
  BY <1>2, LiveSame
<1>3. CASE UNCHANGED <<delivered, pending>> /\ \E j \in Jobs, a \in Nat : Add(j, a)
  <2>1. PICK e : e.id = lastID + 1 /\ stream' = stream \cup {e}
    BY <1>3 DEF Add
  <2>2. Live(e)
    BY <2>1 DEF Live, Inv, TypeOK, Ids
  <2> QED  BY <1>3, <2>1, <2>2, LiveSame
<1>4. CASE \E w \in Workers : Read(w)
  <2>1. PICK n \in stream :
          /\ n.id > delivered
          /\ \A k \in stream : k.id > delivered => n.id <= k.id
          /\ delivered' = n.id
          /\ pending' = pending \cup {n.id}
          /\ UNCHANGED stream
    BY <1>4 DEF Read
  <2> QED  BY <1>1, <2>1 DEF Live, Inv, TypeOK
<1> QED  BY <1>2, <1>3, <1>4

LEMMA OrphanStep == Inv /\ Inv' /\ OrphanBound /\ [Next]_vars => OrphanBound'
<1> SUFFICES ASSUME Inv, Inv', OrphanBound, [Next]_vars PROVE OrphanBound'
  OBVIOUS
<1>1. ASSUME NEW r \in Requests, CheckLength(r) \/ AddJob(r) PROVE OrphanBound'
  <2>1. pub[r].pc = "add" => pub[r].job \in Jobs
    BY DEF Inv, TypeOK, PubState
  <2>2. \/ UNCHANGED <<stream, delivered, pending>>
        \/ UNCHANGED <<delivered, pending>> /\ \E j \in Jobs, a \in Nat : Add(j, a)
    BY <1>1, <2>1 DEF CheckLength, AddJob
  <2>3. UNCHANGED wrk /\ (faults' = faults \/ faults' = faults + 1)
    BY <1>1 DEF CheckLength, AddJob, Fault
  <2> QED  BY <2>2, <2>3, LeakedOnlyByXAck, OrphansKept, FewerOrphans
<1>2. ASSUME NEW w \in Workers, WorkerStep(w) \/ Kill(w) PROVE OrphanBound'
  <2> DEFINE id == wrk[w].msg.id
  <2>1. ASSUME NEW s \in WorkerState, Become(w, s)
        PROVE  wrk'[w] = s /\ \A v \in Workers \ {w} : wrk'[v] = wrk[v]
    BY <2>1, BecomeEffect DEF Inv
  <2>2. ASSUME NEW s \in WorkerState, Become(w, s) \/ UNCHANGED wrk, ~WAt(w, "xdel"), faults' = faults \/ faults' = faults + 1,
               \A m \in stream' : ~Live(m)' => m \in stream /\ ~Live(m)
        PROVE  OrphanBound'
    <3>1. \A v \in Workers : WAt(v, "xdel") => wrk'[v] = wrk[v]
      BY <2>1, <2>2
    <3> QED  BY <2>2, <3>1, OrphansKept, FewerOrphans
  <2>3. /\ \A pc \in {"run", "check", "add", "bury", "xack", "xdel"} :
              WGoto(w, pc) => \E s \in WorkerState : Become(w, s)
        /\ Drop(w) => \E s \in WorkerState : Become(w, s)
        /\ \A m \in stream : Take(w, m) => \E s \in WorkerState : Become(w, s)
    BY StateOf, Typed DEF Inv, TypeOK, WGoto, Drop, Take, WorkerState, Message
  <2>4. CASE Claim(w) \/ Read(w)
    BY <2>2, <2>3, <2>4, LeakedOnlyByXAck, Typed DEF Claim, Read, WAt, Fault
  <2>5. CASE Succeed(w) \/ FailForGood(w) \/ RetryCheck(w) \/ Bury(w)
    <3>1. UNCHANGED <<stream, delivered, pending>> /\ ~WAt(w, "xdel") /\ (faults' = faults \/ faults' = faults + 1)
      BY <2>5 DEF Succeed, FailForGood, RetryCheck, Bury, WAt, Fault
    <3>2. \E s \in WorkerState : Become(w, s)
      BY <2>3, <2>5 DEF Succeed, FailForGood, RetryCheck, Bury
    <3> QED  BY <2>2, <3>1, <3>2, LeakedOnlyByXAck
  <2>6. CASE FailForNow(w)
    <3> DEFINE again == [wrk[w].msg EXCEPT !.attempt = @ + 1]
    <3>1. again \in Entry
      BY <2>6, BusyFacts DEF FailForNow, WAt, Entry
    <3>2. Become(w, [pc |-> "check", msg |-> again]) \/ Become(w, [pc |-> "bury", msg |-> again])
      BY <2>6 DEF FailForNow
    <3> HIDE DEF again
    <3>3. [pc |-> "check", msg |-> again] \in WorkerState /\ [pc |-> "bury", msg |-> again] \in WorkerState
      BY <3>1 DEF WorkerState, Message
    <3>4. UNCHANGED <<stream, delivered, pending>> /\ ~WAt(w, "xdel") /\ (faults' = faults \/ faults' = faults + 1)
      BY <2>6 DEF FailForNow, WAt, Fault
    <3> QED  BY <2>2, <3>2, <3>3, <3>4, LeakedOnlyByXAck
  <2>7. CASE RetryAdd(w)
    <3>1. UNCHANGED <<delivered, pending>> /\ ~WAt(w, "xdel") /\ (faults' = faults \/ faults' = faults + 1)
      BY <2>7 DEF RetryAdd, WAt, Fault
    <3>2. UNCHANGED stream \/ \E j \in Jobs, a \in Nat : Add(j, a)
      BY <2>7, BusyFacts DEF RetryAdd, WAt
    <3>3. \E s \in WorkerState : Become(w, s)
      BY <2>3, <2>7 DEF RetryAdd
    <3> QED  BY <2>2, <3>1, <3>2, <3>3, LeakedOnlyByXAck
  <2>8. CASE XAck(w)
    <3>1. /\ UNCHANGED <<stream, delivered>> /\ WAt(w, "xack")
          /\ pending' = pending \/ pending' = pending \ {id}
      BY <2>8 DEF XAck
    <3>2. \A m \in stream' : ~Live(m)' => m \in stream /\ (~Live(m) \/ m.id = id)
      BY <3>1 DEF Live
    <3>3. \A v \in Workers \ {w} : wrk'[v] = wrk[v]
      BY <2>1, <2>3, <2>8 DEF XAck
    <3>4. \A m \in Orphans' : m \in Orphans \/ m.id = id
      BY <3>2, <3>3, OrphansOfFault
    <3>5. CASE WGoto(w, "xdel") /\ UNCHANGED faults
      <4>1. wrk'[w] = [pc |-> "xdel", msg |-> wrk[w].msg]
        BY <2>1, <3>5, StateOf DEF WGoto, Inv
      <4>2. \A m \in Orphans' : m.id # id
        BY <4>1 DEF Orphans, Orphan, WAt
      <4> QED  BY <3>4, <3>5, <4>2, FewerOrphans
    <3>6. CASE Fault
      BY <3>4, <3>6, OneMoreOrphan DEF Fault
    <3> QED  BY <2>8, <3>5, <3>6 DEF XAck
  <2>9. CASE XDel(w)
    <3>1. UNCHANGED <<delivered, pending>> /\ stream' \subseteq stream /\ Drop(w)
      BY <2>9 DEF XDel
    <3>2. \A m \in stream' : ~Live(m)' => m \in stream /\ (~Live(m) \/ m.id = id)
      BY <3>1, LiveSame
    <3>3. \A v \in Workers \ {w} : wrk'[v] = wrk[v]
      BY <2>1, <2>3, <3>1
    <3>4. \A m \in Orphans' : m \in Orphans \/ m.id = id
      BY <3>2, <3>3, OrphansOfFault
    <3>5. CASE stream' = {m \in stream : m.id # id} /\ UNCHANGED faults
      <4>1. \A m \in Orphans' : m.id # id
        BY <3>5 DEF Orphans
      <4> QED  BY <3>4, <3>5, <4>1, FewerOrphans
    <3>6. CASE Fault
      BY <3>4, <3>6, OneMoreOrphan DEF Fault
    <3> QED  BY <2>9, <3>5, <3>6 DEF XDel
  <2>10. CASE Kill(w)
    <3>1. UNCHANGED <<stream, delivered, pending>> /\ Drop(w) /\ faults' = faults + 1
      BY <2>10 DEF Kill, Fault
    <3>2. \A m \in stream' : ~Live(m)' => m \in stream /\ (~Live(m) \/ m.id = id)
      BY <3>1, LiveSame
    <3>3. \A v \in Workers \ {w} : wrk'[v] = wrk[v]
      BY <2>1, <2>3, <3>1
    <3>4. \A m \in Orphans' : m \in Orphans \/ m.id = id
      BY <3>2, <3>3, OrphansOfFault
    <3> QED  BY <3>1, <3>4, OneMoreOrphan
  <2> QED  BY <1>2, <2>4, <2>5, <2>6, <2>7, <2>8, <2>9, <2>10 DEF WorkerStep
<1>3. CASE UNCHANGED vars
  BY <1>3, LeakedOnlyByXAck, OrphansKept, FewerOrphans DEF vars
<1> QED  BY <1>1, <1>2, <1>3 DEF Next

(* An entry that takes up room is an orphan or the one its worker is just  *)
(* deleting.                                                               *)
LEMMA LeakBoundFromOrphans == Inv /\ OrphanBound => LeakBound
<1> SUFFICES ASSUME Inv, OrphanBound PROVE LeakBound
  OBVIOUS
<1> DEFINE Others == Leaked \ Orphans
           f == [m \in Others |-> CHOOSE w \in Deleting : wrk[w].msg.id = m.id]
<1>1. Orphans \subseteq Leaked /\ Leaked \in SUBSET stream /\ Deleting \in SUBSET Workers
  BY DEF Orphans, Orphan, Leaked, Deleting
<1>2. IsFiniteSet(Leaked) /\ IsFiniteSet(Deleting)
  <2>1. IsFiniteSet(stream) /\ IsFiniteSet(Workers)
    BY DEF Inv, TypeOK
  <2> QED  BY <1>1, <2>1, FS_Subset
<1>3. \A m \in Others : \E w \in Deleting : wrk[w].msg.id = m.id
  BY DEF Orphans, Orphan, Leaked, Deleting
<1>4. \A m \in Others : f[m] \in Deleting /\ wrk[f[m]].msg.id = m.id
  BY <1>3
<1>5. f \in Injection(Others, Deleting)
  <2>1. f \in [Others -> Deleting]
    BY <1>4
  <2>2. ASSUME NEW m \in Others, NEW n \in Others, f[m] = f[n] PROVE m = n
    BY <1>4, <2>2 DEF Leaked, Inv, Ids
  <2> HIDE DEF f
  <2> QED  BY <2>1, <2>2 DEF Injection, IsInjective
<1> HIDE DEF f
<1>6. Cardinality(Others) <= Cardinality(Deleting)
  BY <1>2, <1>5, FS_Injection
<1>7. Cardinality(Others) = Cardinality(Leaked) - Cardinality(Orphans)
  <2>1. Leaked \cap Orphans = Orphans
    BY <1>1
  <2> QED  BY <1>2, <2>1, FS_Difference
<1>8. /\ Cardinality(Leaked) \in Nat /\ Cardinality(Orphans) \in Nat
      /\ Cardinality(Deleting) \in Nat /\ faults \in Nat
  BY <1>1, <1>2, FS_Subset, FS_CardinalityType DEF Inv, TypeOK
<1> QED  BY <1>6, <1>7, <1>8 DEF OrphanBound, LeakBound

(* Room lost to acknowledged entries is bounded by the failed XDELs and    *)
(* killed workers, and never grows by ordinary work (redis.go:150-157).    *)
THEOREM LeaksAreFaults == Spec => []LeakBound
<1>1. Init => OrphanBound
  <2> SUFFICES ASSUME Init PROVE OrphanBound
    OBVIOUS
  <2>1. Orphans = {} /\ faults = 0
    BY DEF Init, Orphans
  <2> QED  BY <2>1, FS_EmptySet DEF OrphanBound
<1> QED  BY <1>1, OrphanStep, LeakBoundFromOrphans, Invariant, PTL DEF Spec

=============================================================================
