---------------------------- MODULE JobDelivery ----------------------------
(***************************************************************************)
(* What the agent queue promises, whatever it is made of: a job that was   *)
(* accepted stays in the queue's custody until a worker has executed it    *)
(* successfully or it has been buried in the dead-letter list, and it gets *)
(* there in the end.  It may be executed more than once.                   *)
(***************************************************************************)
CONSTANT Jobs

VARIABLES custody,  \* jobs the queue still has to deliver
          done,     \* jobs executed successfully
          buried    \* jobs in the dead-letter list

vars == <<custody, done, buried>>

Init == custody = {} /\ done = {} /\ buried = {}

Accept(j) == custody' = custody \cup {j} /\ UNCHANGED <<done, buried>>

(* A job that was executed or buried before may be so again: two workers   *)
(* can hold the same message.                                              *)
Known == custody \cup done \cup buried

Execute(j) == j \in Known /\ done' = done \cup {j} /\ UNCHANGED <<custody, buried>>

Bury(j) == j \in Known /\ buried' = buried \cup {j} /\ UNCHANGED <<custody, done>>

(* Only what was executed or buried may leave. *)
Release(j) == j \in done \cup buried /\ custody' = custody \ {j} /\ UNCHANGED <<done, buried>>

Next == \E j \in Jobs : Accept(j) \/ Execute(j) \/ Bury(j) \/ Release(j)

(* Custody ends: this is what makes it a delivery. A worker reads what is  *)
(* new and claims what others left pending (redis.go:89-119).              *)
Delivered == \A j \in Jobs : j \in custody ~> j \in done \cup buried

Safe == Init /\ [][Next]_vars
Spec == Safe /\ Delivered

=============================================================================
