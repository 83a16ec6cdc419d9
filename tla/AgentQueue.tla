----------------------------- MODULE AgentQueue -----------------------------
(***************************************************************************)
(* The agent task queue command by command: queue/redis.go on a Redis      *)
(* stream with a consumer group, and the loop of cmd/agent-worker/main.go  *)
(* that consumes it.                                                       *)
(*                                                                         *)
(* One Redis command is one step.  Any command may fail, either before it  *)
(* took effect or after it (the reply is lost), and a worker may be killed *)
(* between any two.  What ExecuteTask does is in Workflow; here it only    *)
(* succeeds, fails for now or fails for good.                              *)
(***************************************************************************)
EXTENDS Naturals, FiniteSets

CONSTANTS
    Jobs,        \* the jobs ever published
    Requests,    \* requests that publish at the same time
    Workers,     \* agent-worker processes
    MaxLength,   \* AGENT_QUEUE_MAX_LENGTH
    MaxRetries,  \* WORKER_MAX_RETRIES
    MaxFaults    \* bound: failed commands and killed workers

ASSUME QueueAssumption ==
    /\ IsFiniteSet(Requests) /\ IsFiniteSet(Workers)
    /\ MaxLength \in Nat \ {0}
    /\ MaxRetries \in Nat \ {0}
    /\ MaxFaults \in Nat

VARIABLES
    stream,     \* entries of the stream, as XLEN counts them
    lastID,     \* id of the newest entry ever added
    delivered,  \* last-delivered-id of the consumer group
    pending,    \* ids in the group's pending list
    asked,      \* jobs that some request has set out to publish
    pub,        \* pub[r]: where request r is in Publish, and with which job
    wrk,        \* wrk[w]: worker w and the message it works on
    done,       \* jobs executed successfully
    dead,       \* jobs in the dead-letter stream
    faults

vars == <<stream, lastID, delivered, pending, asked, pub, wrk, done, dead, faults>>

Entry == [id : Nat, job : Jobs, attempt : Nat]
NoPublish == [pc |-> "idle", job |-> "none"]
NoEntry == [id |-> 0, job |-> "none", attempt |-> 0]
Waiting == [pc |-> "idle", msg |-> NoEntry]

(* Entries that will still be handed to a worker: never delivered, or      *)
(* delivered and not acknowledged. The others only take up room.           *)
Live(m) == m.id > delivered \/ m.id \in pending
Leaked == {m \in stream : ~Live(m)}

Fault == faults < MaxFaults /\ faults' = faults + 1

-----------------------------------------------------------------------------
(* Publish: XLEN, then XADD *)

(* A slip to catch: off by one at the limit. *)
HasRoomAtLimit == Cardinality(stream) <= MaxLength
HasRoom == Cardinality(stream) < MaxLength

Add(job, attempt) ==
    /\ stream' = stream \cup {[id |-> lastID + 1, job |-> job, attempt |-> attempt]}
    /\ lastID' = lastID + 1

Return(r) == pub' = [pub EXCEPT ![r] = NoPublish]

CheckLength(r) ==
    /\ pub[r].pc = "idle"
    /\ \E j \in Jobs \ asked :
          /\ asked' = asked \cup {j}
          /\ \/ HasRoom /\ pub' = [pub EXCEPT ![r] = [pc |-> "add", job |-> j]] /\ UNCHANGED faults
             \/ ~HasRoom /\ UNCHANGED <<pub, faults>>
             \/ Fault /\ UNCHANGED pub
    /\ UNCHANGED <<stream, lastID, delivered, pending, wrk, done, dead>>

AddJob(r) ==
    /\ pub[r].pc = "add"
    /\ \/ Add(pub[r].job, 1) /\ UNCHANGED faults
       \/ Fault /\ Add(pub[r].job, 1)
       \/ Fault /\ UNCHANGED <<stream, lastID>>
    /\ Return(r)
    /\ UNCHANGED <<delivered, pending, asked, wrk, done, dead>>

-----------------------------------------------------------------------------
(* Read: XAUTOCLAIM, then XREADGROUP *)

WAt(w, pc) == wrk[w].pc = pc
Become(w, state) == wrk' = [wrk EXCEPT ![w] = state]
WGoto(w, pc) == Become(w, [pc |-> pc, msg |-> wrk[w].msg])
Drop(w) == Become(w, Waiting)

Take(w, m) == Become(w, [pc |-> "run", msg |-> m])

(* A slip to catch: the claimed message is not taken out of the reply.     *)
ClaimIgnored(w) == WAt(w, "idle") /\ UNCHANGED vars

(* XAUTOCLAIM hands over what has been pending for a minute, though its    *)
(* worker may only be slow. When its reply is lost nobody has the message. *)
Claim(w) ==
    /\ WAt(w, "idle")
    /\ \E m \in stream : m.id \in pending /\ Take(w, m)
    /\ UNCHANGED <<stream, lastID, delivered, pending, asked, pub, done, dead, faults>>

(* A slip to catch: the group is read with NOACK, nothing becomes pending. *)
ReadNoAck(w) ==
    /\ WAt(w, "idle")
    /\ \E m \in stream :
          /\ m.id > delivered
          /\ \A n \in stream : n.id > delivered => m.id <= n.id
          /\ delivered' = m.id
          /\ Take(w, m)
    /\ UNCHANGED <<stream, lastID, pending, asked, pub, done, dead, faults>>

(* XREADGROUP > hands over the oldest entry never delivered. *)
Read(w) ==
    /\ WAt(w, "idle")
    /\ \E m \in stream :
          /\ m.id > delivered
          /\ \A n \in stream : n.id > delivered => m.id <= n.id
          /\ delivered' = m.id
          /\ pending' = pending \cup {m.id}
          /\ \/ Take(w, m) /\ UNCHANGED faults
             \/ Fault /\ UNCHANGED wrk
    /\ UNCHANGED <<stream, lastID, asked, pub, done, dead>>

-----------------------------------------------------------------------------
(* process: execute, then retry, bury or acknowledge *)

Succeed(w) ==
    /\ WAt(w, "run")
    /\ done' = done \cup {wrk[w].msg.job}
    /\ WGoto(w, "xack")
    /\ UNCHANGED <<stream, lastID, delivered, pending, asked, pub, dead, faults>>

(* A temporary failure with attempts left is retried when RetryTask could  *)
(* put the rows back; the attempt has been counted by then.                *)
FailForNow(w) ==
    /\ WAt(w, "run")
    /\ wrk[w].msg.attempt < MaxRetries
    /\ LET again == [wrk[w].msg EXCEPT !.attempt = @ + 1] IN
       \/ Become(w, [pc |-> "check", msg |-> again]) /\ UNCHANGED faults
       \/ Fault /\ Become(w, [pc |-> "bury", msg |-> again])
    /\ UNCHANGED <<stream, lastID, delivered, pending, asked, pub, done, dead>>

(* Permanent, or temporary with no attempts left. *)
FailForGood(w) ==
    /\ WAt(w, "run")
    /\ WGoto(w, "bury")
    /\ UNCHANGED <<stream, lastID, delivered, pending, asked, pub, done, dead, faults>>

RetryCheck(w) ==
    /\ WAt(w, "check")
    /\ \/ WGoto(w, IF HasRoom THEN "add" ELSE "bury") /\ UNCHANGED faults
       \/ Fault /\ WGoto(w, "bury")
    /\ UNCHANGED <<stream, lastID, delivered, pending, asked, pub, done, dead>>

RetryAdd(w) ==
    /\ WAt(w, "add")
    /\ \/ /\ Add(wrk[w].msg.job, wrk[w].msg.attempt)
          /\ WGoto(w, "xack")
          /\ UNCHANGED faults
       \/ /\ Fault
          /\ Add(wrk[w].msg.job, wrk[w].msg.attempt) \/ UNCHANGED <<stream, lastID>>
          /\ WGoto(w, "bury")
    /\ UNCHANGED <<delivered, pending, asked, pub, done, dead>>

(* A slip to catch: the entry is acknowledged though DeadLetter failed. *)
BuryUnchecked(w) ==
    /\ WAt(w, "bury")
    /\ \/ dead' = dead \cup {wrk[w].msg.job} /\ UNCHANGED faults
       \/ Fault /\ UNCHANGED dead
    /\ WGoto(w, "xack")
    /\ UNCHANGED <<stream, lastID, delivered, pending, asked, pub, done>>

(* A slip to catch: the message is buried instead of its job. *)
BuryMessage(w) ==
    /\ WAt(w, "bury")
    /\ dead' = dead \cup {wrk[w].msg}
    /\ WGoto(w, "xack")
    /\ UNCHANGED <<stream, lastID, delivered, pending, asked, pub, done, faults>>

(* DeadLetter; when it fails the entry is left pending. *)
Bury(w) ==
    /\ WAt(w, "bury")
    /\ \/ dead' = dead \cup {wrk[w].msg.job} /\ WGoto(w, "xack") /\ UNCHANGED faults
       \/ /\ Fault
          /\ dead' \in {dead, dead \cup {wrk[w].msg.job}}
          /\ Drop(w)
    /\ UNCHANGED <<stream, lastID, delivered, pending, asked, pub, done>>

-----------------------------------------------------------------------------
(* Ack: XACK, then XDEL *)

XAck(w) ==
    /\ WAt(w, "xack")
    /\ \/ pending' = pending \ {wrk[w].msg.id} /\ WGoto(w, "xdel") /\ UNCHANGED faults
       \/ /\ Fault
          /\ pending' \in {pending, pending \ {wrk[w].msg.id}}
          /\ Drop(w)
    /\ UNCHANGED <<stream, lastID, delivered, asked, pub, done, dead>>

(* A slip to catch: acknowledged entries are never deleted. *)
XDelNothing(w) ==
    /\ WAt(w, "xdel")
    /\ Drop(w)
    /\ UNCHANGED <<stream, lastID, delivered, pending, asked, pub, done, dead, faults>>

XDel(w) ==
    /\ WAt(w, "xdel")
    /\ \/ stream' = {m \in stream : m.id # wrk[w].msg.id} /\ UNCHANGED faults
       \/ Fault /\ UNCHANGED stream
    /\ Drop(w)
    /\ UNCHANGED <<lastID, delivered, pending, asked, pub, done, dead>>

(* The worker is killed: docker's grace period is over, or it crashed. *)
Kill(w) ==
    /\ ~WAt(w, "idle")
    /\ Fault
    /\ Drop(w)
    /\ UNCHANGED <<stream, lastID, delivered, pending, asked, pub, done, dead>>

-----------------------------------------------------------------------------
Init ==
    /\ stream = {} /\ lastID = 0 /\ delivered = 0 /\ pending = {}
    /\ asked = {} /\ pub = [r \in Requests |-> NoPublish]
    /\ wrk = [w \in Workers |-> Waiting]
    /\ done = {} /\ dead = {} /\ faults = 0

WorkerStep(w) ==
    \/ Claim(w) \/ Read(w)
    \/ Succeed(w) \/ FailForNow(w) \/ FailForGood(w)
    \/ RetryCheck(w) \/ RetryAdd(w) \/ Bury(w)
    \/ XAck(w) \/ XDel(w)

Next ==
    \/ \E r \in Requests : CheckLength(r) \/ AddJob(r)
    \/ \E w \in Workers : WorkerStep(w) \/ Kill(w)

(* Workers keep running; requests may come or not. *)
Spec == Init /\ [][Next]_vars
FairSpec == Spec /\ \A w \in Workers : WF_vars(WorkerStep(w))

-----------------------------------------------------------------------------
(* Properties *)

Message == Entry \cup {NoEntry}
WorkerState ==
    [pc : {"idle", "run", "check", "add", "bury", "xack", "xdel"}, msg : Message]
PubState == [pc : {"idle"}, job : {"none"}] \cup [pc : {"add"}, job : Jobs]

(* Every variable keeps its type (queue.go:12-15, redis.go:16-20).         *)
TypeOK ==
    /\ stream \in SUBSET Entry /\ IsFiniteSet(stream)
    /\ lastID \in Nat /\ delivered \in Nat
    /\ pending \in SUBSET Nat
    /\ asked \in SUBSET Jobs
    /\ pub \in [Requests -> PubState]
    /\ wrk \in [Workers -> WorkerState]
    /\ done \in SUBSET Jobs /\ dead \in SUBSET Jobs
    /\ faults \in Nat

(* Publishers between XLEN and XADD. *)
Publishers == {r \in Requests : pub[r].pc = "add"}
Republishers == {w \in Workers : WAt(w, "add")}

(* XLEN and XADD are two commands, so AGENT_QUEUE_MAX_LENGTH can be passed *)
(* (Publish, redis.go:65-79); but never by more than the publishers that   *)
(* run at once, less one: whoever is past the check is already counted.    *)
LengthBound ==
    Cardinality(stream) + Cardinality(Publishers) + Cardinality(Republishers)
        <= MaxLength - 1 + Cardinality(Requests) + Cardinality(Workers)

(* An acknowledged entry takes up room, and lets Publish refuse sooner,    *)
(* only when an XDEL failed or its worker died: at most one per fault      *)
(* (Ack, redis.go:150-157).                                                *)
Deleting == {w \in Workers : WAt(w, "xdel")}
LeakBound == Cardinality(Leaked) <= faults + Cardinality(Deleting)

(* A message is acknowledged only when its job is executed, buried, or     *)
(* queued again by a younger entry (process, main.go:118-151), also while  *)
(* another worker has claimed it.                                          *)
AckIsEarned ==
    \A w \in Workers : WAt(w, "xack") =>
        \/ wrk[w].msg.job \in done \cup dead
        \/ \E m \in stream : Live(m) /\ m.job = wrk[w].msg.job /\ m.id > wrk[w].msg.id

(* The queue (Publish, Read, Ack and DeadLetter of redis.go:65-166 as      *)
(* process, main.go:108-152, uses them) implements its promise: an         *)
(* accepted job stays in custody until it was executed or buried, and that *)
(* happens in the end. It counts on the stream and the pending list alone, *)
(* not on what workers remember.                                           *)
Delivery == INSTANCE JobDelivery WITH
    custody <- {m.job : m \in {n \in stream : Live(n)}}, buried <- dead
DeliverySafe == Delivery!Safe
DeliveryDelivered == Delivery!Delivered

=============================================================================
