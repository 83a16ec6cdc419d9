--------------------------- MODULE Webhooks_proofs ---------------------------
(***************************************************************************)
(* The secrets of registrations and the statuses of events, for any number *)
(* of administrators, receivers, commits, deliveries, events and failures, *)
(* any configuration of each commit and any findings.                      *)
(*                                                                         *)
(* The invariant has its parts, each kept by every step: registrations,    *)
(* deliveries and events, the runs and what the goroutine of an event has  *)
(* done, where commits come from, and the cards of a run, which are what   *)
(* the fold of NormalizeRecommendations builds from any findings.          *)
(***************************************************************************)
EXTENDS Webhooks, SequenceTheorems, FiniteSetTheorems, TLAPS

LEMMA Bounds ==
    /\ MaxHead \in Nat \ {0} /\ Commits \subseteq Nat /\ Commits = 1..MaxHead
    /\ 0..MaxHead \subseteq Nat
    /\ \A c \in Commits : c \in 0..MaxHead /\ Config[c] \in {"on", "off", "bad"}
<1>1. MaxHead \in Nat \ {0}
  BY WebhooksAssumption
<1>2. \A c \in Commits : Config[c] \in {"on", "off", "bad"}
  BY WebhooksAssumption
<1> QED  BY <1>1, <1>2 DEF Commits

-----------------------------------------------------------------------------
(* Registrations *)

Hook == [secret : Nat, status : {"active", "disabled"}]
Request == [pc : {"idle", "create", "answer", "disable"}, hook : Nat, secret : Nat]
RequestStep(a) ==
    BeginCreate(a) \/ BeginDisable(a) \/ Create(a) \/ Disable(a) \/ Answer(a) \/ FailRequest(a)
Tables(n) ==
    /\ hooks \in Seq(Hook) /\ created \in Seq(Nat) /\ answered \in Seq(SUBSET Nat)
    /\ Len(hooks) = n /\ Len(created) = n /\ Len(answered) = n
HookOf(x, n) == x.hook <= n /\ (x.pc \in {"answer", "disable"} => x.hook # 0)

Registrations ==
    /\ Tables(Len(hooks))
    /\ newest \in 0..Len(hooks) /\ salts \in Nat
    /\ admin \in [Admins -> Request]
    /\ \A a \in Admins : HookOf(admin[a], Len(hooks))
    /\ ActiveSecretIsNewest

LEMMA HooksCounted == ASSUME Registrations PROVE Len(hooks) \in Nat /\ Hooks = 1..Len(hooks)
  BY DEF Registrations, Tables, Hooks

(* What is known of the secret a registration expects.                     *)
Expected(h) ==
    /\ hooks[h].secret = created[h]
    /\ \/ created[h] \in answered[h]
       \/ \E a \in Admins : admin[a] = [pc |-> "answer", hook |-> h, secret |-> created[h]]
       \/ faulty

(* Failures are never forgotten.                                           *)
LEMMA FaultyStays == ASSUME Calm \/ Fault \/ Harmless PROVE faulty => faulty'
<1>1. faulty' = faulty \/ faulty' = TRUE
  BY DEF Calm, Fault, Harmless, counters
<1> QED  BY <1>1

(* One request moves.                                                      *)
LEMMA OneRequest ==
  ASSUME Registrations, NEW a \in Admins, NEW x \in Request, NEW n \in Nat, Len(hooks) <= n,
         HookOf(x, n), admin' = [admin EXCEPT ![a] = x]
  PROVE  /\ admin' \in [Admins -> Request]
         /\ \A b \in Admins : admin'[b] = IF b = a THEN x ELSE admin[b]
         /\ \A b \in Admins : HookOf(admin'[b], n)
<1>1. admin' \in [Admins -> Request]
      /\ \A b \in Admins : admin'[b] = IF b = a THEN x ELSE admin[b]
  BY DEF Registrations
<1>2. ASSUME NEW b \in Admins PROVE HookOf(admin'[b], n)
  <2>1. CASE b = a
    BY <1>1, <2>1
  <2>2. CASE b # a
    <3>1. admin[b].hook \in Nat /\ HookOf(admin[b], Len(hooks)) /\ Len(hooks) \in Nat
      BY HooksCounted DEF Registrations, Request
    <3> QED  BY <1>1, <2>2, <3>1 DEF HookOf
  <2> QED  BY <2>1, <2>2
<1> QED  BY <1>1, <1>2

LEMMA HooksStayCounted == Registrations => Len(hooks) \in Nat /\ Len(hooks) <= Len(hooks)
  BY HooksCounted
LEMMA NoRequestOK == NoRequest \in Request /\ NoRequest.pc = "idle" /\ \A n \in Nat : HookOf(NoRequest, n)
  BY DEF NoRequest, Request, HookOf

(* A request that is not being answered starts: nothing is written.        *)
LEMMA RequestStarts ==
  ASSUME Registrations, NEW a \in Admins, NEW x \in Request, HookOf(x, Len(hooks)),
         admin[a].pc = "idle", admin' = [admin EXCEPT ![a] = x],
         UNCHANGED <<hooks, created, answered, newest, faulty>>, salts' \in Nat
  PROVE  Registrations'
<1>1. /\ admin' \in [Admins -> Request]
      /\ \A b \in Admins : admin'[b] = IF b = a THEN x ELSE admin[b]
      /\ \A b \in Admins : HookOf(admin'[b], Len(hooks))
  BY OneRequest, HooksStayCounted
<1>2. ActiveSecretIsNewest'
  BY <1>1 DEF Registrations, ActiveSecretIsNewest, Hooks
<1> QED  BY <1>1, <1>2 DEF Registrations, Tables

LEMMA BeginCreatePreserves ==
  ASSUME Registrations, NEW a \in Admins, BeginCreate(a) PROVE Registrations'
<1> DEFINE x == [pc |-> "create", hook |-> newest, secret |-> salts + 1]
<1>1. x \in Request /\ HookOf(x, Len(hooks)) /\ salts + 1 \in Nat
  BY HooksCounted DEF Registrations, Request, HookOf
<1>2. /\ admin' = [admin EXCEPT ![a] = x] /\ salts' = salts + 1 /\ admin[a].pc = "idle"
      /\ UNCHANGED <<hooks, created, answered, newest, faulty>>
  BY DEF BeginCreate, counters
<1> QED  BY <1>1, <1>2, RequestStarts

LEMMA BeginDisablePreserves ==
  ASSUME Registrations, NEW a \in Admins, BeginDisable(a) PROVE Registrations'
<1> DEFINE x == [pc |-> "disable", hook |-> newest, secret |-> hooks[newest].secret]
<1>1. newest \in 1..Len(hooks) /\ newest \in Nat
  BY HooksCounted DEF Registrations, BeginDisable
<1>2. hooks[newest] \in Hook
  BY <1>1, ElementOfSeq DEF Registrations, Tables
<1>3. x \in Request /\ HookOf(x, Len(hooks))
  BY <1>1, <1>2, HooksCounted DEF Request, Hook, HookOf
<1>4. /\ admin' = [admin EXCEPT ![a] = x] /\ admin[a].pc = "idle"
      /\ UNCHANGED <<hooks, created, answered, newest, salts, faulty>>
  BY DEF BeginDisable, counters
<1> QED  BY <1>3, <1>4, RequestStarts DEF Registrations

(* A save writes one registration, which may be a new one.                 *)
LEMMA SaveHook ==
  ASSUME Registrations, NEW h \in 1..(Len(hooks) + 1), NEW secret \in Nat,
         NEW status \in {"active", "disabled"}, SaveGitFlameWebhook(h, secret, status)
  PROVE  /\ hooks' \in Seq(Hook) /\ newest' = h
         /\ Len(hooks') = IF h \in Hooks THEN Len(hooks) ELSE Len(hooks) + 1
         /\ hooks'[h].secret = secret /\ hooks'[h].status = status
         /\ \A g \in Hooks : g # h => hooks'[g] = hooks[g]
<1>0. hooks \in Seq(Hook)
  BY DEF Registrations, Tables
<1>1. CASE h \in Hooks
  <2> DEFINE x == [hooks[h] EXCEPT !.status = status, !.secret = secret]
  <2>1. hooks[h] \in Hook /\ h \in 1..Len(hooks)
    BY <1>0, <1>1, ElementOfSeq DEF Hooks
  <2>2. x \in Hook /\ x.secret = secret /\ x.status = status
    BY <2>1 DEF Hook
  <2>3. hooks' = [hooks EXCEPT ![h] = x]
    BY <1>1 DEF SaveGitFlameWebhook
  <2> HIDE DEF x
  <2>4. /\ hooks' \in Seq(Hook) /\ Len(hooks') = Len(hooks)
        /\ \A g \in 1..Len(hooks) : hooks'[g] = IF g = h THEN x ELSE hooks[g]
    BY <1>0, <2>1, <2>2, <2>3, ExceptSeq
  <2> QED  BY <1>1, <2>1, <2>2, <2>4 DEF SaveGitFlameWebhook, Hooks
<1>2. CASE h \notin Hooks
  <2> DEFINE x == [secret |-> secret, status |-> status]
  <2>1. x \in Hook /\ x.secret = secret /\ x.status = status
    BY DEF Hook
  <2>2. hooks' = Append(hooks, x) /\ newest' = h /\ h = Len(hooks) + 1
    BY <1>2, HooksCounted DEF SaveGitFlameWebhook
  <2> HIDE DEF x
  <2>3. /\ hooks' \in Seq(Hook) /\ Len(hooks') = Len(hooks) + 1
        /\ \A g \in 1..Len(hooks) : hooks'[g] = hooks[g]
        /\ hooks'[Len(hooks) + 1] = x
    BY <1>0, <2>1, <2>2, AppendProperties
  <2> QED  BY <1>2, <2>1, <2>2, <2>3 DEF Hooks
<1> QED  BY <1>1, <1>2

(* The save of a create, whether or not its reply arrives.                 *)
LEMMA SaveCreatedOK ==
  ASSUME Registrations, NEW a \in Admins, SaveCreated(a)
  PROVE  LET h == Target(a) IN
         /\ h \in Nat /\ h # 0 /\ h \in 1..(Len(hooks) + 1) /\ admin[a].secret \in Nat
         /\ newest' = h /\ Len(hooks) <= Len(hooks') /\ Len(hooks') \in Nat /\ h <= Len(hooks')
         /\ Tables(Len(hooks))'
         /\ \A g \in 1..Len(hooks') : g = h \/ g \in Hooks
         /\ hooks'[h].secret = admin[a].secret /\ created'[h] = admin[a].secret
         /\ \A g \in Hooks : g # h => /\ hooks'[g] = hooks[g] /\ created'[g] = created[g]
                                      /\ answered'[g] = answered[g]
<1> DEFINE h == Target(a)
           secret == admin[a].secret
<1>1. h \in 1..(Len(hooks) + 1) /\ secret \in Nat /\ Len(hooks) \in Nat
      /\ Len(created) = Len(hooks) /\ Len(answered) = Len(hooks)
  BY HooksCounted DEF Registrations, Tables, HookOf, Request, Target
<1>2. /\ SaveGitFlameWebhook(h, secret, "active")
      /\ created' = IF h \in Hooks THEN [created EXCEPT ![h] = secret] ELSE Append(created, secret)
      /\ answered' = IF h \in Hooks THEN answered ELSE Append(answered, {})
      /\ created \in Seq(Nat) /\ answered \in Seq(SUBSET Nat)
  BY DEF SaveCreated, Registrations, Tables
<1> HIDE DEF h, secret
<1>3. /\ hooks' \in Seq(Hook) /\ newest' = h
      /\ Len(hooks') = IF h \in Hooks THEN Len(hooks) ELSE Len(hooks) + 1
      /\ hooks'[h].secret = secret
      /\ \A g \in Hooks : g # h => hooks'[g] = hooks[g]
  BY <1>1, <1>2, SaveHook
<1>4. /\ created' \in Seq(Nat) /\ Len(created') = Len(hooks') /\ created'[h] = secret
      /\ \A g \in Hooks : g # h => created'[g] = created[g]
  <2>1. CASE h \in Hooks
    <3>1. created' = [created EXCEPT ![h] = secret] /\ h \in 1..Len(created)
      BY <1>1, <1>2, <2>1 DEF Hooks
    <3>2. /\ created' \in Seq(Nat) /\ Len(created') = Len(created)
          /\ \A g \in 1..Len(created) : created'[g] = IF g = h THEN secret ELSE created[g]
      BY <1>1, <1>2, <3>1, ExceptSeq
    <3> QED  BY <1>1, <1>3, <2>1, <3>1, <3>2 DEF Hooks
  <2>2. CASE h \notin Hooks
    <3>1. created' = Append(created, secret) /\ h = Len(created) + 1
      BY <1>1, <1>2, <2>2 DEF Hooks
    <3>2. /\ created' \in Seq(Nat) /\ Len(created') = Len(created) + 1
          /\ \A g \in 1..Len(created) : created'[g] = created[g]
          /\ created'[Len(created) + 1] = secret
      BY <1>1, <1>2, <3>1, AppendProperties
    <3> QED  BY <1>1, <1>3, <2>2, <3>1, <3>2 DEF Hooks
  <2> QED  BY <2>1, <2>2
<1>5. /\ answered' \in Seq(SUBSET Nat) /\ Len(answered') = Len(hooks')
      /\ \A g \in Hooks : answered'[g] = answered[g]
  <2>1. CASE h \in Hooks
    BY <1>1, <1>2, <1>3, <2>1
  <2>2. CASE h \notin Hooks
    <3>1. answered' = Append(answered, {}) /\ {} \in SUBSET Nat
      BY <1>2, <2>2
    <3>2. /\ answered' \in Seq(SUBSET Nat) /\ Len(answered') = Len(answered) + 1
          /\ \A g \in 1..Len(answered) : answered'[g] = answered[g]
      BY <1>2, <3>1, AppendProperties
    <3> QED  BY <1>1, <1>3, <2>2, <3>2 DEF Hooks
  <2> QED  BY <2>1, <2>2
<1>6. Len(hooks') \in Nat /\ Len(hooks) <= Len(hooks') /\ h \in 1..Len(hooks')
      /\ \A g \in 1..Len(hooks') : g = h \/ g \in Hooks
  BY <1>1, <1>3 DEF Hooks
<1>7. Tables(Len(hooks))'
  BY <1>3, <1>4, <1>5 DEF Tables
<1>8. h = Target(a) /\ secret = admin[a].secret
  BY DEF h, secret
<1> QED  BY <1>1, <1>3, <1>4, <1>5, <1>6, <1>7, <1>8

(* The other registrations keep what they expect, unless the request that  *)
(* moves was about to answer.                                              *)
LEMMA ExpectedStays ==
  ASSUME Registrations, NEW a \in Admins, NEW x \in Request, admin[a].pc # "answer",
         \A b \in Admins : admin'[b] = IF b = a THEN x ELSE admin[b],
         NEW g \in Hooks, hooks[g].status = "active", hooks'[g] = hooks[g], created'[g] = created[g],
         answered'[g] = answered[g], faulty => faulty'
  PROVE  Expected(g)'
<1>1. Expected(g)
  BY DEF Registrations, ActiveSecretIsNewest, Expected
<1>2. CASE created[g] \in answered[g] \/ faulty
  BY <1>1, <1>2 DEF Expected
<1>3. CASE \E b \in Admins : admin[b] = [pc |-> "answer", hook |-> g, secret |-> created[g]]
  <2>1. PICK b \in Admins : admin[b] = [pc |-> "answer", hook |-> g, secret |-> created[g]]
    BY <1>3
  <2>2. b # a /\ admin'[b] = admin[b]
    BY <2>1
  <2> QED  BY <1>1, <2>1, <2>2 DEF Expected
<1> QED  BY <1>1, <1>2, <1>3 DEF Expected

LEMMA CreatePreserves ==
  ASSUME Registrations, NEW a \in Admins,
         SaveCreated(a),
         \/ /\ admin' = [admin EXCEPT ![a] =
                            [pc |-> "answer", hook |-> Target(a), secret |-> admin[a].secret]]
            /\ UNCHANGED faulty
         \/ admin' = [admin EXCEPT ![a] = NoRequest] /\ faulty' = TRUE,
         UNCHANGED salts
  PROVE  Registrations'
<1> DEFINE h == Target(a)
           y == [pc |-> "answer", hook |-> h, secret |-> admin[a].secret]
<1>1. /\ h \in Nat /\ h # 0 /\ h \in 1..(Len(hooks) + 1) /\ admin[a].secret \in Nat
      /\ newest' = h /\ Len(hooks) <= Len(hooks') /\ Len(hooks') \in Nat /\ h <= Len(hooks')
      /\ Tables(Len(hooks))'
      /\ \A g \in 1..Len(hooks') : g = h \/ g \in Hooks
      /\ hooks'[h].secret = admin[a].secret /\ created'[h] = admin[a].secret
      /\ \A g \in Hooks : g # h => /\ hooks'[g] = hooks[g] /\ created'[g] = created[g]
                                   /\ answered'[g] = answered[g]
  BY SaveCreatedOK
<1>2. admin[a] \in Request /\ admin[a].pc = "create"
  BY DEF Registrations, SaveCreated
<1>3. y \in Request /\ HookOf(y, Len(hooks'))
  <2> HIDE DEF h
  <2> QED  BY <1>1 DEF Request, HookOf
<1>4. PICK x \in Request : /\ admin' = [admin EXCEPT ![a] = x] /\ HookOf(x, Len(hooks'))
                           /\ (x = y /\ faulty' = faulty) \/ (x = NoRequest /\ faulty' = TRUE)
  BY <1>1, <1>3, NoRequestOK
<1> HIDE DEF h, y
<1>5. /\ admin' \in [Admins -> Request]
      /\ \A b \in Admins : admin'[b] = IF b = a THEN x ELSE admin[b]
      /\ \A b \in Admins : HookOf(admin'[b], Len(hooks'))
  BY <1>1, <1>4, OneRequest
<1>6. ActiveSecretIsNewest'
  <2>1. ASSUME NEW g \in 1..Len(hooks'), hooks'[g].status = "active" PROVE Expected(g)'
    <3>1. CASE g = h
      BY <1>1, <1>4, <1>5, <3>1 DEF Expected, y
    <3>2. CASE g # h
      BY <1>1, <1>2, <1>4, <1>5, <2>1, <3>2, ExpectedStays
    <3> QED  BY <3>1, <3>2
  <2> QED  BY <2>1 DEF ActiveSecretIsNewest, Expected, Hooks
<1>7. newest' \in 0..Len(hooks')
  BY <1>1
<1> QED  BY <1>1, <1>5, <1>6, <1>7 DEF Registrations

LEMMA DisablePreserves ==
  ASSUME Registrations, NEW a \in Admins, SaveDisabled(a), Ends(a), faulty => faulty', UNCHANGED salts
  PROVE  Registrations'
<1> DEFINE h == admin[a].hook
           secret == admin[a].secret
<1>1. h \in 1..Len(hooks) /\ h \in 1..(Len(hooks) + 1) /\ h \in Hooks /\ secret \in Nat
      /\ Len(hooks) \in Nat /\ admin[a].pc = "disable"
  BY HooksCounted DEF Registrations, HookOf, Request, SaveDisabled
<1>2. /\ SaveGitFlameWebhook(h, secret, "disabled")
      /\ admin' = [admin EXCEPT ![a] = NoRequest] /\ UNCHANGED <<created, answered>>
  BY DEF SaveDisabled, Ends
<1> HIDE DEF h, secret
<1>3. /\ hooks' \in Seq(Hook) /\ newest' = h /\ Len(hooks') = Len(hooks)
      /\ hooks'[h].status = "disabled"
      /\ \A g \in Hooks : g # h => hooks'[g] = hooks[g]
  BY <1>1, <1>2, SaveHook
<1>4. /\ admin' \in [Admins -> Request]
      /\ \A b \in Admins : admin'[b] = IF b = a THEN NoRequest ELSE admin[b]
      /\ \A b \in Admins : HookOf(admin'[b], Len(hooks'))
  <2>1. Len(hooks') \in Nat /\ Len(hooks) <= Len(hooks') /\ NoRequest \in Request
        /\ HookOf(NoRequest, Len(hooks'))
    BY <1>1, <1>3, NoRequestOK
  <2> QED  BY <1>2, <2>1, OneRequest
<1>5. ActiveSecretIsNewest'
  <2>1. ASSUME NEW g \in 1..Len(hooks'), hooks'[g].status = "active" PROVE Expected(g)'
    <3>1. g # h /\ g \in Hooks
      BY <1>3, <2>1 DEF Hooks
    <3> QED  BY <1>1, <1>2, <1>3, <1>4, <2>1, <3>1, ExpectedStays, NoRequestOK
  <2> QED  BY <2>1 DEF ActiveSecretIsNewest, Expected, Hooks
<1> QED  BY <1>1, <1>2, <1>3, <1>4, <1>5 DEF Registrations, Tables

LEMMA AnswerPreserves ==
  ASSUME Registrations, NEW a \in Admins, Answer(a) PROVE Registrations'
<1> DEFINE h == admin[a].hook
           secret == admin[a].secret
           given == answered[h] \cup {secret}
<1>1. h \in 1..Len(answered) /\ secret \in Nat /\ Len(hooks) \in Nat
      /\ Len(answered) = Len(hooks) /\ answered \in Seq(SUBSET Nat) /\ admin[a].pc = "answer"
  BY HooksCounted DEF Registrations, Tables, HookOf, Request, Answer
<1>2. /\ answered' = [answered EXCEPT ![h] = given] /\ admin' = [admin EXCEPT ![a] = NoRequest]
      /\ UNCHANGED <<hooks, created, newest, salts, faulty>>
  BY DEF Answer, Ends, Others, Calm, counters
<1>3. given \in SUBSET Nat
  BY <1>1, ElementOfSeq
<1>4. /\ answered' \in Seq(SUBSET Nat) /\ Len(answered') = Len(answered)
      /\ \A g \in 1..Len(answered) : answered'[g] = IF g = h THEN given ELSE answered[g]
  <2> HIDE DEF given, h
  <2> QED  BY <1>1, <1>2, <1>3, ExceptSeq
<1>5. /\ admin' \in [Admins -> Request]
      /\ \A b \in Admins : admin'[b] = IF b = a THEN NoRequest ELSE admin[b]
      /\ \A b \in Admins : HookOf(admin'[b], Len(hooks))
  <2>1. Len(hooks) \in Nat /\ Len(hooks) <= Len(hooks) /\ NoRequest \in Request
        /\ HookOf(NoRequest, Len(hooks))
    BY HooksStayCounted, NoRequestOK
  <2> QED  BY <1>2, <2>1, OneRequest
<1>6. ASSUME NEW g \in Hooks, hooks[g].status = "active" PROVE Expected(g)'
  <2>1. Expected(g) /\ g \in 1..Len(answered)
    BY <1>1, <1>6, HooksCounted DEF Registrations, ActiveSecretIsNewest, Expected
  <2>2. answered[g] \subseteq answered'[g]
    BY <1>4, <2>1
  <2>3. CASE created[g] \in answered[g] \/ faulty
    BY <1>2, <2>1, <2>2, <2>3 DEF Expected
  <2>4. CASE \E b \in Admins : admin[b] = [pc |-> "answer", hook |-> g, secret |-> created[g]]
    <3>1. PICK b \in Admins : admin[b] = [pc |-> "answer", hook |-> g, secret |-> created[g]]
      BY <2>4
    <3>2. CASE b = a
      <4>1. h = g /\ secret = created[g]
        BY <3>1, <3>2
      <4> QED  BY <1>2, <1>4, <2>1, <4>1 DEF Expected
    <3>3. CASE b # a
      BY <1>2, <1>5, <2>1, <3>1, <3>3 DEF Expected
    <3> QED  BY <3>2, <3>3
  <2> QED  BY <2>1, <2>3, <2>4 DEF Expected
<1>7. ActiveSecretIsNewest'
  BY <1>2, <1>6 DEF ActiveSecretIsNewest, Expected, Hooks
<1> HIDE DEF h, secret, given
<1> QED  BY <1>1, <1>2, <1>4, <1>5, <1>7 DEF Registrations, Tables

(* A request ends without what it was about to do.                         *)
LEMMA RequestLost ==
  ASSUME Registrations, NEW a \in Admins, Ends(a), faulty',
         UNCHANGED <<hooks, created, answered, newest, salts>>
  PROVE  Registrations'
<1>1. /\ admin' \in [Admins -> Request] /\ \A b \in Admins : HookOf(admin'[b], Len(hooks))
  <2>1. Len(hooks) \in Nat /\ Len(hooks) <= Len(hooks) /\ NoRequest \in Request
        /\ HookOf(NoRequest, Len(hooks))
    BY HooksStayCounted, NoRequestOK
  <2> QED  BY <2>1, OneRequest DEF Ends
<1>2. ActiveSecretIsNewest'
  BY DEF Registrations, ActiveSecretIsNewest, Hooks
<1> QED  BY <1>1, <1>2 DEF Registrations, Tables

LEMMA FailRequestPreserves ==
  ASSUME Registrations, NEW a \in Admins, FailRequest(a) PROVE Registrations'
<1>1. Ends(a) /\ faulty' = TRUE /\ UNCHANGED salts
  BY DEF FailRequest, Others, Fault
<1>2. CASE SaveCreated(a)
  BY <1>1, <1>2, CreatePreserves DEF Ends
<1>3. CASE SaveDisabled(a)
  BY <1>1, <1>3, DisablePreserves
<1>4. CASE UNCHANGED <<hooks, created, answered, newest>>
  BY <1>1, <1>4, RequestLost
<1> QED  BY <1>2, <1>3, <1>4 DEF FailRequest

LEMMA RestartKeepsRegistrations == ASSUME Registrations, Restart PROVE Registrations'
<1>1. /\ admin' = [a \in Admins |-> NoRequest] /\ faulty' = TRUE
      /\ UNCHANGED <<hooks, created, answered, newest, salts>>
  BY DEF Restart, Fault
<1>2. /\ admin' \in [Admins -> Request] /\ \A b \in Admins : HookOf(admin'[b], Len(hooks))
  BY <1>1, NoRequestOK, HooksCounted
<1>3. ActiveSecretIsNewest'
  BY <1>1 DEF Registrations, ActiveSecretIsNewest, Hooks
<1> QED  BY <1>1, <1>2, <1>3 DEF Registrations, Tables

LEMMA OthersKeepRegistrations ==
  ASSUME Registrations, UNCHANGED hookVars, faulty => faulty' PROVE Registrations'
<1>1. UNCHANGED <<hooks, created, answered, newest, salts, admin>>
  BY DEF hookVars
<1>2. ActiveSecretIsNewest'
  BY <1>1 DEF Registrations, ActiveSecretIsNewest, Hooks
<1> QED  BY <1>1, <1>2 DEF Registrations, Tables

LEMMA RegistrationsKept == Registrations /\ [Next]_vars => Registrations'
<1> SUFFICES ASSUME Registrations, [Next]_vars PROVE Registrations'
  OBVIOUS
<1>1. ASSUME NEW a \in Admins, BeginCreate(a) \/ BeginDisable(a) PROVE Registrations'
  BY <1>1, BeginCreatePreserves, BeginDisablePreserves
<1>2. ASSUME NEW a \in Admins, Create(a) \/ Disable(a) \/ Answer(a) \/ FailRequest(a)
      PROVE  Registrations'
  <2>1. Create(a) => Registrations'
    BY CreatePreserves DEF Create, Others, Calm, counters
  <2>2. Disable(a) => Registrations'
    BY DisablePreserves DEF Disable, Others, Calm, counters
  <2> QED  BY <1>2, <2>1, <2>2, AnswerPreserves, FailRequestPreserves
<1>3. CASE Push \/ Elsewhere \/ \E type \in Types, h \in Hooks : Deliver(type, h)
  BY <1>3, OthersKeepRegistrations, FaultyStays DEF Push, Elsewhere, Deliver, counters
<1>4. ASSUME NEW r \in Receivers, Receive(r) \/ Check(r) \/ ReadConnection(r) \/ SaveEvent(r)
      PROVE  Registrations'
  <2>1. UNCHANGED hookVars
    BY <1>4 DEF Receive, Check, ReadConnection, SaveEvent, OnlyReceiver
  <2>2. Calm \/ Fault
    BY <1>4 DEF Receive, Check, ReadConnection, SaveEvent
  <2> QED  BY <2>1, <2>2, OthersKeepRegistrations, FaultyStays
<1>5. ASSUME NEW e \in Events, Process(e) \/ FailCall(e) PROVE Registrations'
  <2>1. UNCHANGED hookVars /\ (Calm \/ Fault)
    BY <1>5 DEF Process, Open, Status, Read, Reread, ReadFiles, Index, Save, Finish, FailCall,
       OnlyWork, Calm
  <2> QED  BY <2>1, OthersKeepRegistrations, FaultyStays
<1>6. CASE AnalyzeRecommendations
  BY <1>6, OthersKeepRegistrations, FaultyStays DEF AnalyzeRecommendations
<1>7. ASSUME NEW i, NEW c, NEW state, UpdateRecommendation(i, c, state) PROVE Registrations'
  BY <1>7, OthersKeepRegistrations, FaultyStays DEF UpdateRecommendation
<1>8. CASE Restart
  BY <1>8, RestartKeepsRegistrations
<1>9. CASE UNCHANGED vars
  BY <1>9, OthersKeepRegistrations DEF vars, counters
<1> QED  BY <1>1, <1>2, <1>3, <1>4, <1>5, <1>6, <1>7, <1>8, <1>9 DEF Next

-----------------------------------------------------------------------------
(* Deliveries, events and goroutines *)

Receiver == [pc : {"idle", "check", "connection", "save"}, delivery : Delivery, revoked : BOOLEAN]
Event == [delivery : Delivery, status : {"received", "processed", "failed", "ignored"}]

Deliveries ==
    /\ head \in Commits /\ revoked \in BOOLEAN
    /\ IsFiniteSet(sent) /\ sent \subseteq Delivery /\ \A d \in sent : d.commit <= head
    /\ receiver \in [Receivers -> Receiver]
    /\ \A r \in Receivers : receiver[r].delivery.commit <= head
    /\ events \in Seq(Event) /\ \A e \in Events : events[e].delivery.commit <= head
    /\ work \in Seq(Job) /\ Len(work) = Len(events)
    /\ stored \in {"none", "on", "off"}

LEMMA EventsCounted ==
  ASSUME Deliveries
  PROVE  /\ Len(events) \in Nat /\ Len(work) = Len(events) /\ Events = 1..Len(events)
         /\ head \in Nat /\ head \in 1..MaxHead /\ MaxHead \in Nat
         /\ \A e \in Events : events[e] \in Event /\ work[e] \in Job
<1>1. Len(events) \in Nat /\ Len(work) = Len(events) /\ Events = 1..Len(events)
  BY DEF Deliveries, Events
<1>2. head \in Nat /\ head \in 1..MaxHead /\ MaxHead \in Nat
  BY Bounds DEF Deliveries
<1>3. ASSUME NEW e \in Events PROVE events[e] \in Event /\ work[e] \in Job
  <2>1. e \in 1..Len(events) /\ e \in 1..Len(work)
    BY <1>1
  <2> QED  BY <2>1, ElementOfSeq DEF Deliveries
<1> QED  BY <1>1, <1>2, <1>3

LEMMA DeliveriesStay ==
  ASSUME Deliveries, UNCHANGED <<revoked, sent, receiver, events, work, stored>>,
         head' \in Commits, head <= head'
  PROVE  Deliveries'
<1>1. head \in Nat /\ head' \in Nat
  BY Bounds DEF Deliveries
<1>2. \A d \in Delivery : d.commit \in Nat
  BY Bounds DEF Delivery
<1>3. \A d \in sent : d.commit <= head'
  BY <1>1, <1>2 DEF Deliveries
<1>4. \A r \in Receivers : receiver[r].delivery.commit <= head'
  BY <1>1, <1>2 DEF Deliveries, Receiver
<1>5. \A e \in Events : events[e].delivery.commit <= head'
  BY <1>1, <1>2, EventsCounted DEF Deliveries, Event
<1> QED  BY <1>3, <1>4, <1>5 DEF Deliveries, Events

(* The id of a delivery that GitFlame makes is a number.                   *)
LEMMA Identified == ASSUME Deliveries PROVE Cardinality(sent) \in Nat /\ Cardinality(sent) + 1 \in Nat
<1>1. Cardinality(sent) \in Nat
  BY FS_CardinalityType DEF Deliveries
<1> QED  BY <1>1

LEMMA DeliverPreserves ==
  ASSUME Registrations, Deliveries, NEW type \in Types, NEW h \in Hooks, Deliver(type, h)
  PROVE  Deliveries'
<1> DEFINE id == IF type \in Named THEN Cardinality(sent) + 1 ELSE 0
           d == [type |-> type, hook |-> h, commit |-> head, id |-> id]
<1>1. h \in Nat /\ id \in Nat
  BY HooksCounted, Identified
<1>2. d \in Delivery /\ d.commit = head
  <2> HIDE DEF id
  <2> QED  BY <1>1, EventsCounted DEF Delivery
<1>3. sent' = sent \cup {d}
      /\ UNCHANGED <<head, revoked, receiver, events, work, stored>>
  BY DEF Deliver, eventVars, runVars
<1> HIDE DEF d
<1>4. /\ IsFiniteSet(sent')
      /\ sent' \subseteq Delivery /\ \A x \in sent' : x.commit <= head
  BY <1>2, <1>3, EventsCounted, FS_AddElement DEF Deliveries
<1> QED  BY <1>3, <1>4 DEF Deliveries, Events

(* One receiver moves, to a delivery that was made.                        *)
LEMMA ReceiverMoves ==
  ASSUME Deliveries, NEW r \in Receivers, NEW x \in Receiver, x.delivery.commit <= head,
         receiver' = [receiver EXCEPT ![r] = x]
  PROVE  /\ receiver' \in [Receivers -> Receiver]
         /\ \A s \in Receivers : receiver'[s].delivery.commit <= head
<1>1. receiver' \in [Receivers -> Receiver]
      /\ \A s \in Receivers : receiver'[s] = IF s = r THEN x ELSE receiver[s]
  BY DEF Deliveries
<1>2. ASSUME NEW s \in Receivers PROVE receiver'[s].delivery.commit <= head
  BY <1>1 DEF Deliveries
<1> QED  BY <1>1, <1>2

LEMMA NoReceiverOK ==
  ASSUME Deliveries PROVE NoReceiver \in Receiver /\ NoReceiver.delivery.commit <= head
  BY EventsCounted DEF NoReceiver, NoDelivery, Receiver, Delivery, Types

LEMMA ReceivePreserves ==
  ASSUME Deliveries, NEW r \in Receivers, Receive(r) PROVE Deliveries'
<1>1. PICK d \in sent :
          receiver' = [receiver EXCEPT ![r] = [pc |-> "check", delivery |-> d, revoked |-> FALSE]]
  BY DEF Receive
<1> DEFINE x == [pc |-> "check", delivery |-> d, revoked |-> FALSE]
<1>2. x \in Receiver /\ x.delivery.commit <= head
  BY DEF Deliveries, Receiver
<1>3. UNCHANGED <<head, revoked, sent, events, work, stored>>
  BY DEF Receive, OnlyReceiver, runVars
<1>4. /\ receiver' \in [Receivers -> Receiver]
      /\ \A s \in Receivers : receiver'[s].delivery.commit <= head
  BY <1>1, <1>2, ReceiverMoves
<1> QED  BY <1>3, <1>4 DEF Deliveries, Events

LEMMA CheckPreserves ==
  ASSUME Deliveries, NEW r \in Receivers, Check(r) \/ ReadConnection(r) PROVE Deliveries'
<1> DEFINE x == [receiver[r] EXCEPT !.pc = "save", !.revoked = revoked]
           y == [receiver[r] EXCEPT !.pc = "connection"]
<1>1. /\ x \in Receiver /\ x.delivery.commit <= head
      /\ y \in Receiver /\ y.delivery.commit <= head
  BY DEF Deliveries, Receiver
<1>2. \/ receiver' = [receiver EXCEPT ![r] = NoReceiver]
      \/ receiver' = [receiver EXCEPT ![r] = x]
      \/ receiver' = [receiver EXCEPT ![r] = y]
  BY DEF Check, ReadConnection
<1>3. UNCHANGED <<head, revoked, sent, events, work, stored>>
  BY DEF Check, ReadConnection, OnlyReceiver, runVars
<1> HIDE DEF x, y
<1>4. /\ receiver' \in [Receivers -> Receiver]
      /\ \A s \in Receivers : receiver'[s].delivery.commit <= head
  BY <1>1, <1>2, ReceiverMoves, NoReceiverOK
<1> QED  BY <1>3, <1>4 DEF Deliveries, Events

(* A delivery is stored as the newest event and its goroutine begins, or   *)
(* nothing is.                                                             *)
LEMMA SavedEvent ==
  ASSUME Deliveries, NEW r \in Receivers, SaveEvent(r)
  PROVE  \/ UNCHANGED <<events, work>>
         \/ LET d == receiver[r].delivery IN
            /\ Unique(d) /\ d \in Delivery /\ d.commit <= head
            /\ events' \in Seq(Event) /\ work' \in Seq(Job)
            /\ Len(events') = Len(events) + 1 /\ Len(work') = Len(events')
            /\ \A e \in Events : events'[e] = events[e] /\ work'[e] = work[e]
            /\ events'[Len(events) + 1] = [delivery |-> d, status |-> "received"]
            /\ work'[Len(events) + 1].pc \in {"open", "gone"}
<1> DEFINE d == receiver[r].delivery
           x == [delivery |-> d, status |-> "received"]
           w == [Gone EXCEPT !.pc = "open", !.revoked = receiver[r].revoked]
<1>1. d \in Delivery /\ d.commit <= head /\ receiver[r].revoked \in BOOLEAN
  BY DEF Deliveries, Receiver
<1>2. x \in Event /\ w \in Job /\ w.pc = "open" /\ Gone \in Job /\ Gone.pc = "gone"
  <2>1. x \in Event
    BY <1>1 DEF Event
  <2>2. Gone \in Job /\ Gone.pc = "gone"
    BY EventsCounted DEF Job, Gone
  <2>3. w \in Job /\ w.pc = "open"
    BY <1>1, <2>2 DEF Job
  <2> QED  BY <2>1, <2>2, <2>3
<1> HIDE DEF w
<1>3. ASSUME NEW job \in {w, Gone}, Unique(d) /\ events' = Append(events, x) /\ work' = Append(work, job)
      PROVE  /\ Unique(d) /\ d \in Delivery /\ d.commit <= head
             /\ events' \in Seq(Event) /\ work' \in Seq(Job)
             /\ Len(events') = Len(events) + 1 /\ Len(work') = Len(events')
             /\ \A e \in Events : events'[e] = events[e] /\ work'[e] = work[e]
             /\ events'[Len(events) + 1] = [delivery |-> d, status |-> "received"]
             /\ work'[Len(events) + 1].pc \in {"open", "gone"}
  <2>0. job \in Job /\ job.pc \in {"open", "gone"}
    BY <1>2
  <2>1. /\ events' \in Seq(Event) /\ Len(events') = Len(events) + 1
        /\ \A e \in 1..Len(events) : events'[e] = events[e]
        /\ events'[Len(events) + 1] = x
    BY <1>2, <1>3, AppendProperties DEF Deliveries
  <2>2. /\ work' \in Seq(Job) /\ Len(work') = Len(work) + 1
        /\ \A e \in 1..Len(work) : work'[e] = work[e]
        /\ work'[Len(work) + 1] = job
    BY <2>0, <1>3, AppendProperties DEF Deliveries
  <2> QED  BY <1>1, <1>3, <2>0, <2>1, <2>2, EventsCounted
<1>4. \/ UNCHANGED <<events, work>>
      \/ \E job \in {w, Gone} : Unique(d) /\ events' = Append(events, x) /\ work' = Append(work, job)
  BY DEF SaveEvent, w
<1> QED  BY <1>3, <1>4

LEMMA SaveEventPreserves ==
  ASSUME Deliveries, NEW r \in Receivers, SaveEvent(r) PROVE Deliveries'
<1>1. UNCHANGED <<head, revoked, sent, stored>> /\ receiver' = [receiver EXCEPT ![r] = NoReceiver]
  BY DEF SaveEvent, runVars
<1>2. /\ receiver' \in [Receivers -> Receiver]
      /\ \A s \in Receivers : receiver'[s].delivery.commit <= head
  BY <1>1, ReceiverMoves, NoReceiverOK
<1>3. /\ events' \in Seq(Event) /\ work' \in Seq(Job) /\ Len(work') = Len(events')
      /\ \A e \in 1..Len(events') : events'[e].delivery.commit <= head
  <2>1. CASE UNCHANGED <<events, work>>
    BY <2>1 DEF Deliveries, Events
  <2>2. CASE ~ UNCHANGED <<events, work>>
    <3> DEFINE d == receiver[r].delivery
    <3>1. /\ d.commit <= head
          /\ events' \in Seq(Event) /\ work' \in Seq(Job)
          /\ Len(events') = Len(events) + 1 /\ Len(work') = Len(events')
          /\ \A e \in Events : events'[e] = events[e]
          /\ events'[Len(events) + 1] = [delivery |-> d, status |-> "received"]
      BY <2>2, SavedEvent
    <3>2. ASSUME NEW e \in 1..Len(events') PROVE events'[e].delivery.commit <= head
      <4>1. e \in Events \/ e = Len(events) + 1
        BY <3>1, EventsCounted
      <4> QED  BY <3>1, <4>1 DEF Deliveries
    <3> QED  BY <3>1, <3>2
  <2> QED  BY <2>1, <2>2
<1> QED  BY <1>1, <1>2, <1>3 DEF Deliveries, Events

(* A goroutine changes its own job, and at most the status of its event.   *)
LEMMA GoroutineStep ==
  ASSUME Deliveries, NEW e \in Events, NEW x \in Job, work' = [work EXCEPT ![e] = x],
         UNCHANGED <<head, revoked, sent, receiver>>, stored' \in {"none", "on", "off"},
         NEW status \in {"received", "processed", "failed", "ignored"},
         events' = events \/ events' = [events EXCEPT ![e].status = status]
  PROVE  /\ Deliveries' /\ Events' = Events /\ Len(events') = Len(events)
         /\ work'[e] = x /\ events'[e].delivery = events[e].delivery
         /\ events' = events \/ events'[e].status = status
         /\ \A f \in Events : f # e => work'[f] = work[f] /\ events'[f] = events[f]
<1>1. Len(events) \in Nat /\ Len(work) = Len(events) /\ Events = 1..Len(events)
      /\ events[e] \in Event
  BY EventsCounted
<1>2. /\ work' \in Seq(Job) /\ Len(work') = Len(work)
      /\ \A f \in 1..Len(work) : work'[f] = IF f = e THEN x ELSE work[f]
  BY <1>1, ExceptSeq DEF Deliveries
<1>3. /\ events' \in Seq(Event) /\ Len(events') = Len(events)
      /\ events'[e].delivery = events[e].delivery
      /\ events' = events \/ events'[e].status = status
      /\ \A f \in Events : f # e => events'[f] = events[f]
  <2> DEFINE y == [events[e] EXCEPT !.status = status]
  <2>1. CASE events' = events
    BY <2>1 DEF Deliveries
  <2>2. CASE events' = [events EXCEPT ![e].status = status]
    <3>1. y \in Event /\ y.delivery = events[e].delivery /\ y.status = status
      BY <1>1 DEF Event
    <3>2. events' = [events EXCEPT ![e] = y]
      BY <2>2
    <3> HIDE DEF y
    <3>3. /\ events' \in Seq(Event) /\ Len(events') = Len(events)
          /\ \A f \in 1..Len(events) : events'[f] = IF f = e THEN y ELSE events[f]
      BY <1>1, <3>1, <3>2, ExceptSeq DEF Deliveries
    <3> QED  BY <1>1, <3>1, <3>3
  <2> QED  BY <2>1, <2>2
<1>4. Events' = Events
  BY <1>3 DEF Events
<1>5. \A f \in Events : events'[f].delivery.commit <= head
  BY <1>3 DEF Deliveries
<1>6. Deliveries'
  BY <1>1, <1>2, <1>3, <1>4, <1>5 DEF Deliveries
<1> QED  BY <1>1, <1>2, <1>3, <1>4, <1>6

LEMMA GoneOK == ASSUME Deliveries PROVE Gone \in Job /\ Gone.pc = "gone"
  BY EventsCounted DEF Gone, Job

LEMMA RestartKeepsDeliveries == ASSUME Deliveries, Restart PROVE Deliveries'
<1>1. /\ receiver' = [r \in Receivers |-> NoReceiver] /\ work' = [e \in Events |-> Gone]
      /\ UNCHANGED <<head, revoked, sent, events, stored>>
  BY DEF Restart, runVars
<1>2. Gone \in Job /\ Events = 1..Len(events) /\ Len(events) \in Nat
  BY GoneOK, EventsCounted
<1>3. work' \in Seq(Job) /\ Len(work') = Len(events)
  BY <1>1, <1>2
<1>4. receiver' \in [Receivers -> Receiver] /\ \A r \in Receivers : receiver'[r] = NoReceiver
  BY <1>1, NoReceiverOK
<1> QED  BY <1>1, <1>3, <1>4, NoReceiverOK DEF Deliveries, Events

-----------------------------------------------------------------------------
(* Runs, and what a goroutine has done for its event *)

RunOf(C) == [by : Nat, at : 0..MaxHead, cfg : {"on", "off"}, cards : C]
Own(e) == {i \in DOMAIN runs : runs[i].by = e}

EventOK(e) ==
    LET delivery == events[e].delivery
        job == work[e]
    IN  /\ \A i, j \in Own(e) : i = j
        /\ \A i \in Own(e) : runs[i].at >= delivery.commit
        /\ Own(e) # {} => /\ delivery.type = "push" /\ job.pc \in {"finish", "gone"}
                          /\ job.status # "ignored" /\ events[e].status # "ignored"
        /\ job.pc # "gone" => events[e].status = "received"
        /\ job.pc \in {"status", "read", "reread", "index", "save"} => delivery.type = "push"
        /\ job.pc \in {"index", "save"} => job.at >= delivery.commit /\ job.cfg \in {"on", "off"}
        /\ job.pc = "finish" /\ job.status = "received" /\ delivery.type = "push" => Own(e) # {}
        /\ events[e].status = "processed" /\ delivery.type = "push" => Own(e) # {}

RunsTyped ==
    /\ \E C : runs \in Seq(RunOf(C))
    /\ \A i \in DOMAIN runs : runs[i].by <= Len(events)
RunsTrue == RunsTyped /\ \A e \in Events : EventOK(e)

LEMMA RunsCounted ==
  ASSUME RunsTyped
  PROVE  /\ Len(runs) \in Nat /\ DOMAIN runs = 1..Len(runs)
         /\ \A i \in DOMAIN runs : runs[i].by \in Nat /\ runs[i].at \in 0..MaxHead
<1>1. PICK C : runs \in Seq(RunOf(C))
  BY DEF RunsTyped
<1>2. Len(runs) \in Nat /\ DOMAIN runs = 1..Len(runs)
  BY <1>1
<1>3. \A i \in DOMAIN runs : runs[i] \in RunOf(C)
  BY <1>1, <1>2, ElementOfSeq
<1> QED  BY <1>2, <1>3 DEF RunOf

(* The runs of an event are the ones they were.                            *)
SameRuns(e) == Own(e)' = Own(e) /\ \A i \in Own(e) : runs'[i].at = runs[i].at

LEMMA EventStays ==
  ASSUME NEW e, EventOK(e), SameRuns(e), events'[e] = events[e], work'[e] = work[e]
  PROVE  EventOK(e)'
  BY DEF EventOK, SameRuns

LEMMA RunsStay ==
  ASSUME RunsTyped, runs' = runs, Len(events') \in Nat, Len(events) \in Nat,
         Len(events) <= Len(events')
  PROVE  RunsTyped' /\ \A e : SameRuns(e)
<1>1. \A i \in DOMAIN runs : runs[i].by <= Len(events')
  BY RunsCounted DEF RunsTyped
<1>2. \A e : SameRuns(e)
  BY DEF SameRuns, Own
<1> QED  BY <1>1, <1>2 DEF RunsTyped

(* A run is added for one event, or by a user.                             *)
LEMMA RunAdded ==
  ASSUME RunsTyped, NEW e \in Nat, NEW at \in 0..MaxHead, NEW cfg \in {"on", "off"},
         SaveRecommendations(e, at, cfg), e <= Len(events), UNCHANGED events
  PROVE  /\ RunsTyped' /\ stored' = cfg
         /\ \A f : f # e => SameRuns(f)
         /\ Own(e)' = Own(e) \cup {Len(runs) + 1}
         /\ runs'[Len(runs) + 1].at = at /\ \A i \in Own(e) : runs'[i].at = runs[i].at
<1>1. PICK C : runs \in Seq(RunOf(C))
  BY DEF RunsTyped
<1> DEFINE cards == NormalizeRecommendations(IF cfg = "on" THEN Findings[at] ELSE <<>>)
           D == C \cup {cards}
           run == [by |-> e, at |-> at, cfg |-> cfg, cards |-> cards]
<1>2. runs' = Append(runs, run) /\ stored' = cfg
  BY DEF SaveRecommendations
<1> HIDE DEF cards
<1>3. RunOf(C) \subseteq RunOf(D) /\ run \in RunOf(D) /\ run.by = e /\ run.at = at
  BY DEF RunOf
<1>4. runs \in Seq(RunOf(D))
  BY <1>1, <1>3, SeqMonotonic
<1> HIDE DEF run, D
<1>5. /\ runs' \in Seq(RunOf(D)) /\ Len(runs') = Len(runs) + 1
      /\ \A i \in 1..Len(runs) : runs'[i] = runs[i]
      /\ runs'[Len(runs) + 1] = run
  BY <1>2, <1>3, <1>4, AppendProperties
<1>6. /\ DOMAIN runs = 1..Len(runs) /\ Len(runs) \in Nat
      /\ DOMAIN runs' = (DOMAIN runs) \cup {Len(runs) + 1} /\ Len(runs) + 1 \notin DOMAIN runs
  <2>1. DOMAIN runs = 1..Len(runs) /\ Len(runs) \in Nat
    BY RunsCounted
  <2>2. DOMAIN runs' = 1..(Len(runs) + 1)
    BY <1>5
  <2> QED  BY <2>1, <2>2
<1>7. \A f : f # e => SameRuns(f)
  BY <1>3, <1>5, <1>6 DEF SameRuns, Own
<1>8. Own(e)' = Own(e) \cup {Len(runs) + 1} /\ \A i \in Own(e) : runs'[i].at = runs[i].at
  BY <1>3, <1>5, <1>6 DEF Own
<1>9. \A i \in DOMAIN runs' : runs'[i].by <= Len(events)
  BY <1>3, <1>5, <1>6 DEF RunsTyped
<1> QED  BY <1>2, <1>3, <1>5, <1>7, <1>8, <1>9 DEF RunsTyped

(* A decision on a card leaves the run as it was otherwise.                *)
LEMMA CardDecided ==
  ASSUME RunsTyped, NEW i \in DOMAIN runs, NEW c, NEW state, UpdateRecommendation(i, c, state)
  PROVE  RunsTyped' /\ \A e : SameRuns(e)
<1>1. PICK C : runs \in Seq(RunOf(C))
  BY DEF RunsTyped
<1> DEFINE cards == [runs[i].cards EXCEPT ![c].state = state]
           D == C \cup {cards}
           run == [runs[i] EXCEPT !.cards = cards]
<1>2. runs' = [runs EXCEPT ![i] = run] /\ events' = events
  BY DEF UpdateRecommendation, eventVars
<1> HIDE DEF cards
<1>3. runs[i] \in RunOf(C) /\ DOMAIN runs = 1..Len(runs) /\ Len(runs) \in Nat
  BY <1>1, RunsCounted, ElementOfSeq
<1>4. /\ RunOf(C) \subseteq RunOf(D) /\ run \in RunOf(D)
      /\ run.by = runs[i].by /\ run.at = runs[i].at
  BY <1>3 DEF RunOf
<1>5. runs \in Seq(RunOf(D))
  BY <1>1, <1>4, SeqMonotonic
<1> HIDE DEF run, D
<1>6. /\ runs' \in Seq(RunOf(D)) /\ Len(runs') = Len(runs)
      /\ \A j \in 1..Len(runs) : runs'[j] = IF j = i THEN run ELSE runs[j]
  BY <1>2, <1>3, <1>4, <1>5, ExceptSeq
<1>7. /\ DOMAIN runs' = DOMAIN runs
      /\ \A j \in DOMAIN runs : runs'[j].by = runs[j].by /\ runs'[j].at = runs[j].at
  BY <1>3, <1>4, <1>6
<1> QED  BY <1>2, <1>6, <1>7 DEF RunsTyped, SameRuns, Own

(* One event moves.                                                        *)
LEMMA OneEvent ==
  ASSUME RunsTrue, RunsTyped', NEW e \in Events, Events' = Events, EventOK(e)',
         \A f \in Events : f # e => /\ SameRuns(f)
                                    /\ work'[f] = work[f] /\ events'[f] = events[f]
  PROVE  RunsTrue'
<1>1. ASSUME NEW f \in Events PROVE EventOK(f)'
  <2>1. CASE f = e
    BY <2>1
  <2>2. CASE f # e
    BY <2>2, EventStays DEF RunsTrue
  <2> QED  BY <2>1, <2>2
<1> QED  BY <1>1 DEF RunsTrue

(* A goroutine's step that leaves the tables alone: x is its next state.   *)
JobOK(e, x) ==
    LET delivery == events[e].delivery
    IN  /\ Own(e) # {} => x.pc \in {"finish", "gone"} /\ x.status # "ignored"
        /\ x.pc # "gone" => events[e].status = "received"
        /\ x.pc \in {"status", "read", "reread", "index", "save"} => delivery.type = "push"
        /\ x.pc \in {"index", "save"} => x.at >= delivery.commit /\ x.cfg \in {"on", "off"}
        /\ x.pc = "finish" /\ x.status = "received" /\ delivery.type = "push" => Own(e) # {}

LEMMA QuietGoroutine ==
  ASSUME Deliveries, RunsTrue, NEW e \in Events, NEW x \in Job, JobOK(e, x),
         work' = [work EXCEPT ![e] = x],
         UNCHANGED <<head, revoked, sent, receiver, events, stored, runs>>
  PROVE  Deliveries' /\ RunsTrue'
<1>1. stored' \in {"none", "on", "off"} /\ "received" \in {"received", "processed", "failed", "ignored"}
  BY DEF Deliveries
<1>2. /\ Deliveries' /\ Events' = Events
      /\ work'[e] = x
      /\ \A f \in Events : f # e => work'[f] = work[f] /\ events'[f] = events[f]
  BY <1>1, GoroutineStep
<1>3. RunsTyped' /\ \A f : SameRuns(f)
  BY RunsStay, EventsCounted DEF RunsTrue
<1>4. EventOK(e)'
  BY <1>2, <1>3 DEF RunsTrue, EventOK, JobOK, SameRuns
<1> QED  BY <1>2, <1>3, <1>4, OneEvent

(* What is known of a goroutine that has not ended.                        *)
LEMMA JobKnown ==
  ASSUME Deliveries, RunsTrue, NEW e \in Events
  PROVE  /\ work[e] \in Job /\ events[e] \in Event /\ EventOK(e)
         /\ events[e].delivery.commit <= head /\ events[e].delivery.commit \in Nat
         /\ work[e].pc \notin {"finish", "gone"} => Own(e) = {}
         /\ e \in Nat /\ e <= Len(events) /\ e # 0
<1>1. work[e] \in Job /\ events[e] \in Event /\ EventOK(e) /\ events[e].delivery.commit <= head
  BY EventsCounted DEF RunsTrue, Deliveries
<1>2. events[e].delivery.commit \in Nat
  BY <1>1, Bounds DEF Event, Delivery
<1>3. e \in 1..Len(events) /\ Len(events) \in Nat
  BY EventsCounted
<1> QED  BY <1>1, <1>2, <1>3 DEF EventOK

LEMMA OpenPreserves ==
  ASSUME Deliveries, RunsTrue, NEW e \in Events, Open(e) PROVE Deliveries' /\ RunsTrue'
<1> DEFINE w == work[e]
           type == events[e].delivery.type
           y == [w EXCEPT !.pc = "status"]
           x(status) == [w EXCEPT !.pc = "finish", !.status = status]
<1>1. w \in Job /\ EventOK(e) /\ w.pc = "open" /\ Own(e) = {} /\ events[e].status = "received"
  BY JobKnown DEF Open, Working, EventOK
<1>2. UNCHANGED <<head, revoked, sent, receiver, events, stored, runs>>
  BY DEF Open, OnlyWork, eventVars, runVars
<1>3. CASE type = "push" /\ work' = [work EXCEPT ![e] = y]
  <2>1. y \in Job /\ y.pc = "status"
    BY <1>1 DEF Job
  <2>2. JobOK(e, y)
    BY <1>1, <1>3, <2>1 DEF JobOK
  <2> QED  BY <1>2, <1>3, <2>1, <2>2, QuietGoroutine
<1>4. ASSUME NEW status \in {"received", "failed", "ignored"}, status = "received" => type # "push",
             work' = [work EXCEPT ![e] = x(status)]
      PROVE  Deliveries' /\ RunsTrue'
  <2>1. x(status) \in Job /\ x(status).pc = "finish" /\ x(status).status = status
    BY <1>1 DEF Job
  <2>2. JobOK(e, x(status))
    BY <1>1, <1>4, <2>1 DEF JobOK
  <2> QED  BY <1>2, <1>4, <2>1, <2>2, QuietGoroutine
<1>5. \/ type = "push" /\ work' = [work EXCEPT ![e] = y]
      \/ \E status \in {"received", "failed", "ignored"} :
            (status = "received" => type # "push") /\ work' = [work EXCEPT ![e] = x(status)]
  BY DEF Open, Proceed, Conclude
<1> HIDE DEF x, y
<1> QED  BY <1>3, <1>4, <1>5

LEMMA StatusPreserves ==
  ASSUME Deliveries, RunsTrue, NEW e \in Events, Status(e) PROVE Deliveries' /\ RunsTrue'
<1>1. PICK pc \in {"read", "reread"} : work' = [work EXCEPT ![e].pc = pc]
  BY DEF Status, Proceed
<1> DEFINE x == [work[e] EXCEPT !.pc = pc]
<1>2. /\ work[e] \in Job /\ EventOK(e) /\ work[e].pc = "status" /\ Own(e) = {}
      /\ events[e].status = "received" /\ events[e].delivery.type = "push"
  BY JobKnown DEF Status, Working, EventOK
<1>3. x \in Job /\ x.pc = pc
  BY <1>2 DEF Job
<1>4. JobOK(e, x)
  BY <1>2, <1>3 DEF JobOK
<1>5. UNCHANGED <<head, revoked, sent, receiver, events, stored, runs>>
  BY DEF Status, OnlyWork, eventVars, runVars
<1> QED  BY <1>1, <1>3, <1>4, <1>5, QuietGoroutine

LEMMA ReadFilesPreserves ==
  ASSUME Deliveries, RunsTrue, NEW e \in Events, work[e].pc \in {"read", "reread"},
         NEW cfg \in {"on", "off", "bad"}, NEW pc \in {"index", "save"}, ReadFiles(e, cfg, pc)
  PROVE  Deliveries' /\ RunsTrue'
<1> DEFINE w == work[e]
           failed == [w EXCEPT !.pc = "finish", !.status = "failed"]
           read == [w EXCEPT !.pc = pc, !.at = head, !.cfg = cfg]
<1>1. /\ w \in Job /\ EventOK(e) /\ Own(e) = {} /\ events[e].status = "received"
      /\ events[e].delivery.type = "push" /\ events[e].delivery.commit <= head
      /\ events[e].delivery.commit \in Nat
  BY JobKnown DEF EventOK
<1>2. UNCHANGED <<head, revoked, sent, receiver, events, stored, runs>>
  BY DEF ReadFiles, OnlyWork, eventVars, runVars
<1>3. head \in 0..MaxHead /\ head \in Nat
  BY EventsCounted
<1>4. CASE cfg = "bad"
  <2>1. failed \in Job /\ failed.pc = "finish" /\ failed.status = "failed"
    BY <1>1 DEF Job
  <2>2. work' = [work EXCEPT ![e] = failed]
    BY <1>4 DEF ReadFiles
  <2>3. JobOK(e, failed)
    BY <1>1, <2>1 DEF JobOK
  <2> QED  BY <1>2, <2>1, <2>2, <2>3, QuietGoroutine
<1>5. CASE cfg # "bad"
  <2>1. read \in Job /\ read.pc = pc /\ read.at = head /\ read.cfg = cfg
    BY <1>1, <1>3, <1>5 DEF Job
  <2>2. work' = [work EXCEPT ![e] = read]
    BY <1>5 DEF ReadFiles
  <2>3. JobOK(e, read)
    BY <1>1, <1>3, <1>5, <2>1 DEF JobOK
  <2> QED  BY <1>2, <2>1, <2>2, <2>3, QuietGoroutine
<1> QED  BY <1>4, <1>5

LEMMA ReadPreserves ==
  ASSUME Deliveries, RunsTrue, NEW e \in Events, Read(e) \/ Reread(e)
  PROVE  Deliveries' /\ RunsTrue'
<1>1. Config[head] \in {"on", "off", "bad"}
  BY Bounds DEF Deliveries
<1>2. CASE Read(e)
  <2>1. (IF stored = "none" THEN Config[head] ELSE stored) \in {"on", "off", "bad"}
    BY <1>1 DEF Deliveries
  <2> QED  BY <1>2, <2>1, ReadFilesPreserves DEF Read, Working
<1>3. CASE Reread(e)
  BY <1>1, <1>3, ReadFilesPreserves DEF Reread, Working
<1> QED  BY <1>2, <1>3

LEMMA IndexPreserves ==
  ASSUME Deliveries, RunsTrue, NEW e \in Events, Index(e) PROVE Deliveries' /\ RunsTrue'
<1> DEFINE x == [work[e] EXCEPT !.pc = "save"]
<1>1. /\ work[e] \in Job /\ EventOK(e) /\ work[e].pc = "index" /\ Own(e) = {}
      /\ events[e].status = "received" /\ events[e].delivery.type = "push"
      /\ work[e].at >= events[e].delivery.commit /\ work[e].cfg \in {"on", "off"}
  BY JobKnown DEF Index, Working, EventOK
<1>2. x \in Job /\ x.pc = "save" /\ x.at = work[e].at /\ x.cfg = work[e].cfg
  BY <1>1 DEF Job
<1>3. JobOK(e, x)
  BY <1>1, <1>2 DEF JobOK
<1>4. work' = [work EXCEPT ![e] = x] /\ UNCHANGED <<head, revoked, sent, receiver, events, stored, runs>>
  BY DEF Index, Proceed, OnlyWork, eventVars, runVars
<1> QED  BY <1>2, <1>3, <1>4, QuietGoroutine

(* The run is stored, and the goroutine knows it or takes it for a failure. *)
LEMMA RunSaved ==
  ASSUME Deliveries, RunsTrue, NEW e \in Events, work[e].pc = "save",
         SaveRecommendations(e, work[e].at, work[e].cfg),
         NEW status \in {"received", "failed"}, Conclude(e, status),
         UNCHANGED <<head, revoked, sent, receiver, events>>
  PROVE  Deliveries' /\ RunsTrue'
<1> DEFINE x == [work[e] EXCEPT !.pc = "finish", !.status = status]
           n == Len(runs) + 1
<1>1. /\ work[e] \in Job /\ EventOK(e) /\ Own(e) = {} /\ e \in Nat /\ e <= Len(events)
      /\ events[e].status = "received" /\ events[e].delivery.type = "push"
      /\ work[e].at >= events[e].delivery.commit /\ work[e].cfg \in {"on", "off"}
  BY JobKnown DEF EventOK
<1>2. x \in Job /\ x.pc = "finish" /\ x.status = status /\ work[e].at \in 0..MaxHead
  BY <1>1 DEF Job
<1>3. work' = [work EXCEPT ![e] = x]
  BY DEF Conclude
<1>4. /\ RunsTyped' /\ stored' = work[e].cfg /\ \A f : f # e => SameRuns(f)
      /\ Own(e)' = Own(e) \cup {n} /\ runs'[n].at = work[e].at
  BY <1>1, <1>2, RunAdded DEF RunsTrue
<1>5. stored' \in {"none", "on", "off"} /\ "received" \in {"received", "processed", "failed", "ignored"}
  BY <1>1, <1>4
<1>6. /\ Deliveries' /\ Events' = Events /\ work'[e] = x
      /\ \A f \in Events : f # e => work'[f] = work[f] /\ events'[f] = events[f]
  BY <1>2, <1>3, <1>5, GoroutineStep
<1>7. Own(e)' = {n}
  BY <1>1, <1>4
<1>8. EventOK(e)'
  <2> HIDE DEF x, n
  <2> QED  BY <1>1, <1>2, <1>4, <1>6, <1>7 DEF EventOK
<1> QED  BY <1>4, <1>6, <1>8, OneEvent

LEMMA SavePreserves ==
  ASSUME Deliveries, RunsTrue, NEW e \in Events, Save(e) PROVE Deliveries' /\ RunsTrue'
<1>1. UNCHANGED <<head, revoked, sent, receiver, events>>
  BY DEF Save, OnlyWork, eventVars
<1> QED  BY <1>1, RunSaved DEF Save, Working

LEMMA FailCallPreserves ==
  ASSUME Deliveries, RunsTrue, NEW e \in Events, FailCall(e) PROVE Deliveries' /\ RunsTrue'
<1>1. UNCHANGED <<head, revoked, sent, receiver, events>> /\ Conclude(e, "failed")
  BY DEF FailCall, OnlyWork, eventVars
<1>2. CASE work[e].pc = "save" /\ SaveRecommendations(e, work[e].at, work[e].cfg)
  BY <1>1, <1>2, RunSaved
<1>3. CASE UNCHANGED <<stored, runs>>
  <2> DEFINE x == [work[e] EXCEPT !.pc = "finish", !.status = "failed"]
  <2>1. work[e] \in Job /\ work[e].pc \notin {"finish", "gone"} /\ EventOK(e)
        /\ events[e].status = "received"
    BY JobKnown DEF FailCall, EventOK
  <2>2. x \in Job /\ x.pc = "finish" /\ x.status = "failed"
    BY <2>1 DEF Job
  <2>3. JobOK(e, x)
    BY <2>1, <2>2 DEF JobOK
  <2> QED  BY <1>1, <1>3, <2>2, <2>3, QuietGoroutine DEF Conclude
<1> QED  BY <1>2, <1>3 DEF FailCall, Working, runVars

LEMMA FinishPreserves ==
  ASSUME Deliveries, RunsTrue, NEW e \in Events, Finish(e) PROVE Deliveries' /\ RunsTrue'
<1> DEFINE status == IF work[e].status = "received" THEN "processed" ELSE work[e].status
<1>1. /\ work[e] \in Job /\ EventOK(e) /\ work[e].pc = "finish" /\ events[e].status = "received"
  BY JobKnown DEF Finish, Working, EventOK
<1>2. status \in {"received", "processed", "failed", "ignored"} /\ stored \in {"none", "on", "off"}
  BY <1>1 DEF Job, Deliveries
<1>3. /\ events' = events \/ events' = [events EXCEPT ![e].status = status]
      /\ work' = [work EXCEPT ![e] = Gone]
      /\ UNCHANGED <<head, revoked, sent, receiver, stored, runs>>
  BY DEF Finish, Leave, runVars
<1>4. /\ status = "processed" => work[e].status = "received"
      /\ status = "ignored" => work[e].status = "ignored"
  BY <1>1 DEF Job
<1> HIDE DEF status
<1>5. /\ Deliveries' /\ Events' = Events /\ Len(events') = Len(events)
      /\ work'[e] = Gone /\ events'[e].delivery = events[e].delivery
      /\ events' = events \/ events'[e].status = status
      /\ \A f \in Events : f # e => work'[f] = work[f] /\ events'[f] = events[f]
  BY <1>2, <1>3, GoneOK, GoroutineStep
<1>6. RunsTyped' /\ \A f : SameRuns(f)
  BY <1>3, <1>5, RunsStay, EventsCounted DEF RunsTrue
<1>7. EventOK(e)'
  BY <1>1, <1>4, <1>5, <1>6 DEF EventOK, SameRuns, Gone
<1> QED  BY <1>5, <1>6, <1>7, OneEvent

(* Steps of others.                                                        *)
LEMMA OthersKeepRuns ==
  ASSUME Deliveries, RunsTrue, UNCHANGED <<events, work>>, RunsTyped', \A e \in Events : SameRuns(e)
  PROVE  RunsTrue'
<1>1. Events' = Events
  BY DEF Events
<1>2. ASSUME NEW e \in Events PROVE EventOK(e)'
  BY EventStays DEF RunsTrue
<1> QED  BY <1>1, <1>2 DEF RunsTrue

LEMMA QuietForRuns ==
  ASSUME Deliveries, RunsTrue, UNCHANGED <<events, work, runs>> PROVE RunsTrue'
<1>1. RunsTyped' /\ \A e : SameRuns(e)
  BY RunsStay, EventsCounted DEF RunsTrue
<1> QED  BY <1>1, OthersKeepRuns

LEMMA SaveEventKeepsRuns ==
  ASSUME Deliveries, RunsTrue, NEW r \in Receivers, SaveEvent(r) PROVE RunsTrue'
<1> DEFINE d == receiver[r].delivery
<1>0. PICK n \in Nat : n = Len(events) + 1
  BY EventsCounted
<1>1. runs' = runs /\ Len(events) \in Nat /\ Events = 1..Len(events)
  BY EventsCounted DEF SaveEvent, runVars
<1>2. CASE UNCHANGED <<events, work>>
  BY <1>1, <1>2, QuietForRuns
<1>3. CASE ~ UNCHANGED <<events, work>>
  <2>1. /\ Len(events') = n
        /\ \A e \in Events : events'[e] = events[e] /\ work'[e] = work[e]
        /\ events'[n] = [delivery |-> d, status |-> "received"] /\ work'[n].pc \in {"open", "gone"}
    BY <1>0, <1>3, SavedEvent
  <2>2. RunsTyped' /\ \A e : SameRuns(e)
    BY <1>0, <1>1, <2>1, RunsStay DEF RunsTrue
  <2>3. ASSUME NEW e \in Events PROVE EventOK(e)'
    BY <2>1, <2>2, EventStays DEF RunsTrue
  <2>4. EventOK(n)'
    <3>1. \A i \in DOMAIN runs : runs[i].by # n
      BY <1>0, <1>1, RunsCounted DEF RunsTrue, RunsTyped
    <3>2. Own(n)' = {}
      BY <1>1, <3>1 DEF Own
    <3> HIDE DEF d
    <3> QED  BY <2>1, <3>2 DEF EventOK
  <2>5. Events' = Events \cup {n}
    BY <1>0, <1>1, <2>1 DEF Events
  <2> QED  BY <2>2, <2>3, <2>4, <2>5 DEF RunsTrue
<1> QED  BY <1>2, <1>3

LEMMA AnalyzePreserves ==
  ASSUME Deliveries, RunsTrue, AnalyzeRecommendations PROVE Deliveries' /\ RunsTrue'
<1>1. UNCHANGED <<head, revoked, sent, receiver, events, work>>
  BY DEF AnalyzeRecommendations, eventVars
<1>2. PICK at \in 0..MaxHead, cfg \in {"on", "off"} : SaveRecommendations(0, at, cfg)
  <2>1. 1..head \subseteq 0..MaxHead /\ 0 \in 0..MaxHead
    BY EventsCounted
  <2> QED  BY <2>1 DEF AnalyzeRecommendations
<1>3. RunsTyped' /\ stored' = cfg /\ \A e : e # 0 => SameRuns(e)
  BY <1>1, <1>2, RunAdded, EventsCounted DEF RunsTrue
<1>4. RunsTrue'
  BY <1>1, <1>3, OthersKeepRuns, EventsCounted
<1> QED  BY <1>1, <1>3, <1>4 DEF Deliveries, Events

LEMMA RestartKeepsRuns == ASSUME Deliveries, RunsTrue, Restart PROVE RunsTrue'
<1>1. work' = [e \in Events |-> Gone] /\ UNCHANGED <<events, runs>> /\ Events' = Events
  BY DEF Restart, runVars, Events
<1>2. RunsTyped' /\ \A e : SameRuns(e)
  BY <1>1, RunsStay, EventsCounted DEF RunsTrue
<1>3. ASSUME NEW e \in Events PROVE EventOK(e)'
  BY <1>1, <1>2 DEF RunsTrue, EventOK, SameRuns, Gone
<1> QED  BY <1>1, <1>2, <1>3 DEF RunsTrue

LEMMA DeliveriesKept ==
  Registrations /\ Deliveries /\ RunsTrue /\ [Next]_vars => Deliveries' /\ RunsTrue'
<1> SUFFICES ASSUME Registrations, Deliveries, RunsTrue, [Next]_vars PROVE Deliveries' /\ RunsTrue'
  OBVIOUS
<1>1. ASSUME UNCHANGED <<head, revoked, sent, receiver, events, work, stored, runs>>
      PROVE  Deliveries' /\ RunsTrue'
  BY <1>1, DeliveriesStay, QuietForRuns, EventsCounted DEF Deliveries
<1>2. ASSUME NEW a \in Admins, RequestStep(a) PROVE Deliveries' /\ RunsTrue'
  BY <1>1, <1>2 DEF RequestStep, BeginCreate, BeginDisable, Create, Disable, Answer, FailRequest,
     Others, eventVars, runVars
<1>3. CASE Push
  <2>1. UNCHANGED <<revoked, sent, receiver, events, work, stored, runs>>
    BY <1>3 DEF Push, eventVars, runVars
  <2>2. head' \in Commits /\ head <= head'
    BY <1>3, Bounds, EventsCounted DEF Push
  <2> QED  BY <2>1, <2>2, DeliveriesStay, QuietForRuns
<1>4. CASE Elsewhere
  <2>1. /\ UNCHANGED <<head, sent, receiver, events, work, runs>>
        /\ revoked' \in BOOLEAN /\ stored' \in {"none", "on", "off"}
    BY <1>4 DEF Elsewhere, eventVars, Deliveries
  <2> QED  BY <2>1, QuietForRuns DEF Deliveries, Events
<1>5. ASSUME NEW type \in Types, NEW h \in Hooks, Deliver(type, h)
      PROVE  Deliveries' /\ RunsTrue'
  BY <1>5, DeliverPreserves, QuietForRuns DEF Deliver, eventVars, runVars
<1>6. ASSUME NEW r \in Receivers, Receive(r) \/ Check(r) \/ ReadConnection(r) PROVE Deliveries' /\ RunsTrue'
  BY <1>6, ReceivePreserves, CheckPreserves, QuietForRuns DEF Receive, Check, ReadConnection, OnlyReceiver, runVars
<1>7. ASSUME NEW r \in Receivers, SaveEvent(r) PROVE Deliveries' /\ RunsTrue'
  BY <1>7, SaveEventPreserves, SaveEventKeepsRuns
<1>8. ASSUME NEW e \in Events, Process(e) PROVE Deliveries' /\ RunsTrue'
  BY <1>8, OpenPreserves, StatusPreserves, ReadPreserves, IndexPreserves, SavePreserves,
     FinishPreserves DEF Process
<1>9. ASSUME NEW e \in Events, FailCall(e) PROVE Deliveries' /\ RunsTrue'
  BY <1>9, FailCallPreserves
<1>10. CASE AnalyzeRecommendations
  BY <1>10, AnalyzePreserves
<1>11. ASSUME NEW i \in DOMAIN runs, NEW c, NEW state, UpdateRecommendation(i, c, state)
       PROVE  Deliveries' /\ RunsTrue'
  <2>1. UNCHANGED <<head, revoked, sent, receiver, events, work, stored>>
    BY <1>11 DEF UpdateRecommendation, eventVars
  <2>2. RunsTyped' /\ \A e : SameRuns(e)
    BY <1>11, CardDecided DEF RunsTrue
  <2> QED  BY <2>1, <2>2, DeliveriesStay, OthersKeepRuns, EventsCounted DEF Deliveries
<1>12. CASE Restart
  BY <1>12, RestartKeepsDeliveries, RestartKeepsRuns
<1>13. CASE UNCHANGED vars
  BY <1>1, <1>13 DEF vars, eventVars, runVars
<1> QED  BY <1>2, <1>3, <1>4, <1>5, <1>6, <1>7, <1>8, <1>9, <1>10, <1>11, <1>12, <1>13 DEF Next, RequestStep

-----------------------------------------------------------------------------
(* One event for a delivery with an id *)

LEMMA OnceStays ==
  ASSUME ProcessedOnce, Events' = Events, \A e \in Events : events'[e].delivery = events[e].delivery
  PROVE  ProcessedOnce'
  BY DEF ProcessedOnce

LEMMA OnceKept == Deliveries /\ ProcessedOnce /\ [Next]_vars => ProcessedOnce'
<1> SUFFICES ASSUME Deliveries, ProcessedOnce, [Next]_vars PROVE ProcessedOnce'
  OBVIOUS
<1>1. CASE events' = events
  BY <1>1, OnceStays DEF Events
<1>2. ASSUME NEW r \in Receivers, SaveEvent(r), events' # events PROVE ProcessedOnce'
  <2> DEFINE d == receiver[r].delivery
             n == Len(events) + 1
  <2>1. /\ Unique(d) /\ Len(events') = n
        /\ \A e \in Events : events'[e] = events[e]
        /\ events'[n] = [delivery |-> d, status |-> "received"]
    BY <1>2, SavedEvent
  <2>2. Events' = Events \cup {n}
    BY <2>1, EventsCounted DEF Events
  <2>3. events'[n].delivery = d /\ \A e \in Events : events'[e].delivery = events[e].delivery
    BY <2>1
  <2>4. d.id # 0 => \A e \in Events : ~Same(events[e].delivery, d)
    BY <2>1 DEF Unique
  <2> HIDE DEF d, n
  <2> QED  BY <2>2, <2>3, <2>4 DEF ProcessedOnce, Same
<1>3. ASSUME NEW e \in Events, Finish(e), events' # events PROVE ProcessedOnce'
  <2>1. PICK status : events' = [events EXCEPT ![e].status = status]
    BY <1>3 DEF Finish
  <2>2. DOMAIN events = Events /\ \A f \in Events : events[f] \in Event
    BY EventsCounted DEF Deliveries
  <2>3. \A f \in Events : events'[f].delivery = events[f].delivery
    BY <2>1, <2>2 DEF Event
  <2>4. Events' = Events
    BY <2>1, EventsCounted DEF Events, Deliveries
  <2> QED  BY <2>3, <2>4, OnceStays
<1>4. \/ events' = events
      \/ \E r \in Receivers : SaveEvent(r)
      \/ \E e \in Events : Finish(e)
  <2>1. CASE \E a \in Admins : RequestStep(a)
    BY <2>1 DEF RequestStep, BeginCreate, BeginDisable, Create, Disable, Answer, FailRequest, Others, eventVars
  <2>2. CASE Push \/ Elsewhere \/ \E type \in Types, h \in Hooks : Deliver(type, h)
    BY <2>2 DEF Push, Elsewhere, Deliver, eventVars
  <2>3. CASE \E r \in Receivers : Receive(r) \/ Check(r) \/ ReadConnection(r) \/ SaveEvent(r)
    BY <2>3 DEF Receive, Check, ReadConnection, OnlyReceiver
  <2>4. CASE \E e \in Events : Process(e) \/ FailCall(e)
    BY <2>4 DEF Process, Open, Status, Read, Reread, ReadFiles, Index, Save, FailCall, OnlyWork,
       eventVars
  <2>5. CASE AnalyzeRecommendations \/ Restart \/ UNCHANGED vars
    BY <2>5 DEF AnalyzeRecommendations, Restart, vars, eventVars
  <2>6. CASE \E i \in DOMAIN runs : \E c \in DOMAIN runs[i].cards, state \in {"closed", "deleted"} :
                UpdateRecommendation(i, c, state)
    BY <2>6 DEF UpdateRecommendation, eventVars
  <2> QED  BY <2>1, <2>2, <2>3, <2>4, <2>5, <2>6 DEF Next, RequestStep
<1> QED  BY <1>1, <1>2, <1>3, <1>4

-----------------------------------------------------------------------------
(* The cards of a run *)

Represents(card, found) ==
    \/ card.text = found.text
    \/ found.print # 0 /\ card.print = <<"print", found.print>>

(* The cards made from the first m findings: one for each fingerprint; a   *)
(* card without one is known by its text.                                  *)
Collects(cards, m, found) ==
    /\ cards \in Seq(SavedCard)
    /\ \A c, d \in DOMAIN cards : cards[c].print = cards[d].print => c = d
    /\ \A c \in DOMAIN cards, t \in Nat : cards[c].print = <<"content", t>> => cards[c].text = t
    /\ \A k \in 1..m : \E c \in DOMAIN cards : Represents(cards[c], found[k])

Normalized == INSTANCE SequenceFolds WITH op <- AddCard, Inv <- Collects

LEMMA Normalization ==
  ASSUME NEW found PROVE NormalizeRecommendations(found) = Normalized!Fold(<<>>, found)
BY Zenon DEF NormalizeRecommendations, Normalized!Fold, FoldLeft, Normalized!FoldLeft,
             MapThenFoldSet, Normalized!MapThenFoldSet, Max, Normalized!Max

LEMMA CardAdded ==
  ASSUME NEW found \in Seq(Card), NEW m \in 0..Len(found)-1, NEW cards, Collects(cards, m, found)
  PROVE  Collects(AddCard(cards, found[m+1]), m + 1, found)
<1> DEFINE card == found[m+1]
           print == Fingerprint(card)
           new == [print |-> print, text |-> card.text, state |-> "open"]
<1>0. Len(found) \in Nat
  OBVIOUS
<1>1. m \in Nat /\ m + 1 \in 1..Len(found) /\ \A k \in 1..m+1 : k \in 1..m \/ k = m + 1
  BY <1>0
<1>2. card \in Card
  BY <1>1, ElementOfSeq
<1>3. /\ print = IF card.print # 0 THEN <<"print", card.print>> ELSE <<"content", card.text>>
      /\ print \in {"print", "content"} \X Nat /\ card.text \in Nat
  BY <1>2 DEF Fingerprint, Card
<1>4. CASE \E i \in DOMAIN cards : cards[i].print = print
  <2>1. AddCard(cards, card) = cards
    BY <1>4 DEF AddCard
  <2>2. PICK i \in DOMAIN cards : cards[i].print = print
    BY <1>4
  <2>3. Represents(cards[i], card)
    BY <1>3, <2>2 DEF Represents, Collects
  <2> HIDE DEF card
  <2> QED  BY <1>1, <2>1, <2>2, <2>3 DEF Collects, card
<1>5. CASE ~\E i \in DOMAIN cards : cards[i].print = print
  <2>1. AddCard(cards, card) = Append(cards, new)
    BY <1>5 DEF AddCard
  <2>2. new \in SavedCard /\ new.print = print /\ new.text = card.text
    BY <1>3 DEF SavedCard
  <2>3. cards \in Seq(SavedCard) /\ Len(cards) \in Nat /\ DOMAIN cards = 1..Len(cards)
    BY DEF Collects
  <2> DEFINE next == Append(cards, new)
             n == Len(cards) + 1
  <2> HIDE DEF new, print, card
  <2>4. /\ next \in Seq(SavedCard) /\ next[n] = new
        /\ \A c \in DOMAIN cards : next[c] = cards[c]
        /\ DOMAIN next = (DOMAIN cards) \cup {n} /\ n \notin DOMAIN cards
    <3>1. next \in Seq(SavedCard) /\ Len(next) = n /\ next[n] = new
          /\ \A c \in 1..Len(cards) : next[c] = cards[c]
      BY <2>2, <2>3, AppendProperties
    <3> HIDE DEF next
    <3>2. DOMAIN next = 1..n
      BY <3>1
    <3> QED  BY <2>3, <3>1, <3>2
  <2> HIDE DEF next, n
  <2>5. \A c, d \in DOMAIN next : next[c].print = next[d].print => c = d
    BY <1>5, <2>2, <2>4 DEF Collects
  <2>6. \A c \in DOMAIN next, t \in Nat : next[c].print = <<"content", t>> => next[c].text = t
    <3>1. \A t \in Nat : print = <<"content", t>> => card.text = t
      BY <1>3
    <3> QED  BY <2>2, <2>4, <3>1 DEF Collects
  <2>7. Represents(next[n], card)
    BY <2>2, <2>4 DEF Represents
  <2>8. \A k \in 1..m+1 : \E c \in DOMAIN next : Represents(next[c], found[k])
    BY <1>1, <2>4, <2>7 DEF Collects, card
  <2> QED  BY <2>1, <2>4, <2>5, <2>6, <2>8 DEF Collects, next, card
<1> QED  BY <1>4, <1>5

(* NormalizeRecommendations loses no finding and shows none twice.         *)
LEMMA NormalizedCollects ==
  ASSUME NEW found \in Seq(Card)
  PROVE  Collects(NormalizeRecommendations(found), Len(found), found)
<1>1. Len(found) \in Nat /\ DOMAIN found = 1..Len(found)
  OBVIOUS
<1>2. Collects(<<>>, 0, found)
  BY DEF Collects
<1>3. \A m \in 0..Len(found)-1 : \A v : Collects(v, m, found) => Collects(AddCard(v, found[m+1]), m+1, found)
  BY CardAdded
<1> HIDE DEF Collects
<1>4. Collects(Normalized!Fold(<<>>, found), Len(found), found)
  BY <1>1, <1>2, <1>3, Normalized!FoldInvariant
<1> QED  BY <1>4, Normalization

(* A run that is complete.                                                 *)
Whole(run) ==
    LET cards == run.cards IN
    /\ \A c, d \in DOMAIN cards : cards[c].print = cards[d].print => c = d
    /\ run.cfg = "on" => \A k \in DOMAIN Findings[run.at] :
           \E c \in DOMAIN cards : Represents(cards[c], Findings[run.at][k])

Collected == runs \in Seq(Run) /\ \A i \in DOMAIN runs : Whole(runs[i])

LEMMA CollectedIsEach == Collected => RunHasEachFinding
  BY DEF Collected, Whole, Represents, RunHasEachFinding

LEMMA RunCollected ==
  ASSUME Collected, NEW e \in Nat, NEW at \in 0..MaxHead, NEW cfg \in {"on", "off"},
         cfg = "on" => at \in Commits, SaveRecommendations(e, at, cfg)
  PROVE  Collected'
<1> DEFINE found == IF cfg = "on" THEN Findings[at] ELSE <<>>
           cards == NormalizeRecommendations(found)
           run == [by |-> e, at |-> at, cfg |-> cfg, cards |-> cards]
<1>1. runs' = Append(runs, run)
  BY DEF SaveRecommendations
<1>2. found \in Seq(Card)
  BY WebhooksAssumption
<1> HIDE DEF cards
<1>3. Collects(cards, Len(found), found)
  BY <1>2, NormalizedCollects DEF cards
<1>4. run \in Run /\ run.cards = cards /\ run.cfg = cfg /\ run.at = at
  BY <1>3 DEF Run, Collects
<1> HIDE DEF run
<1>5. Whole(run)
  <2>1. DOMAIN found = 1..Len(found)
    BY <1>2
  <2> HIDE DEF found
  <2>2. \A k \in DOMAIN found : \E c \in DOMAIN cards : Represents(cards[c], found[k])
    BY <1>3, <2>1 DEF Collects
  <2>3. cfg = "on" => found = Findings[at]
    BY DEF found
  <2> QED  BY <1>3, <1>4, <2>2, <2>3 DEF Whole, Collects
<1>6. /\ runs' \in Seq(Run) /\ Len(runs') = Len(runs) + 1 /\ Len(runs) \in Nat
      /\ \A i \in 1..Len(runs) : runs'[i] = runs[i]
      /\ runs'[Len(runs) + 1] = run
  BY <1>1, <1>4, AppendProperties DEF Collected
<1>7. ASSUME NEW i \in DOMAIN runs' PROVE Whole(runs'[i])
  <2>1. i \in 1..Len(runs) \/ i = Len(runs) + 1
    BY <1>6
  <2>2. CASE i \in 1..Len(runs)
    BY <1>6, <2>2 DEF Collected
  <2>3. CASE i = Len(runs) + 1
    BY <1>5, <1>6, <2>3
  <2> QED  BY <2>1, <2>2, <2>3
<1>8. \A i \in DOMAIN runs' : Whole(runs'[i])
  BY <1>7
<1>9. \A i \in DOMAIN runs' : Whole(runs[i])' <=> Whole(runs'[i])
  BY DEF Whole, Represents
<1> QED  BY <1>6, <1>8, <1>9 DEF Collected

(* A decision changes what a card says of its state, nothing else.         *)
LEMMA DecisionCollected ==
  ASSUME Collected, NEW i \in DOMAIN runs, NEW c \in DOMAIN runs[i].cards,
         NEW state \in {"closed", "deleted"}, UpdateRecommendation(i, c, state)
  PROVE  Collected'
<1> DEFINE card == [runs[i].cards[c] EXCEPT !.state = state]
           cards == [runs[i].cards EXCEPT ![c] = card]
           run == [runs[i] EXCEPT !.cards = cards]
<1>1. runs' = [runs EXCEPT ![i] = run]
  BY DEF UpdateRecommendation
<1>2. runs[i] \in Run /\ i \in 1..Len(runs) /\ Whole(runs[i])
  BY ElementOfSeq DEF Collected
<1>3. runs[i].cards \in Seq(SavedCard) /\ c \in 1..Len(runs[i].cards)
  BY <1>2 DEF Run
<1>4. runs[i].cards[c] \in SavedCard
  BY <1>3, ElementOfSeq
<1>5. /\ card \in SavedCard /\ card.print = runs[i].cards[c].print
      /\ card.text = runs[i].cards[c].text
  BY <1>4 DEF SavedCard
<1> HIDE DEF card
<1>6. /\ cards \in Seq(SavedCard) /\ DOMAIN cards = DOMAIN runs[i].cards
      /\ \A d \in DOMAIN cards : cards[d] = IF d = c THEN card ELSE runs[i].cards[d]
  BY <1>3, <1>5, ExceptSeq
<1> HIDE DEF cards
<1>7. /\ run \in Run /\ run.cards = cards /\ run.cfg = runs[i].cfg /\ run.at = runs[i].at
  BY <1>2, <1>6 DEF Run
<1> HIDE DEF run
<1>8. \A d \in DOMAIN cards : /\ cards[d].print = runs[i].cards[d].print
                              /\ cards[d].text = runs[i].cards[d].text
  BY <1>5, <1>6
<1>9. Whole(run)
  <2>1. \A d, b \in DOMAIN cards : cards[d].print = cards[b].print => d = b
    BY <1>2, <1>6, <1>8 DEF Whole
  <2>2. \A d \in DOMAIN cards : \A f : Represents(runs[i].cards[d], f) => Represents(cards[d], f)
    BY <1>8 DEF Represents
  <2>3. ASSUME run.cfg = "on", NEW k \in DOMAIN Findings[run.at]
        PROVE  \E d \in DOMAIN cards : Represents(cards[d], Findings[run.at][k])
    BY <1>2, <1>6, <1>7, <2>2, <2>3 DEF Whole
  <2> QED  BY <1>7, <2>1, <2>3 DEF Whole
<1>10. /\ runs' \in Seq(Run) /\ DOMAIN runs' = DOMAIN runs
       /\ \A j \in DOMAIN runs : runs'[j] = IF j = i THEN run ELSE runs[j]
  BY <1>1, <1>2, <1>7, ExceptSeq DEF Collected
<1>11. \A j \in DOMAIN runs' : Whole(runs'[j])
  BY <1>9, <1>10 DEF Collected
<1>12. \A j \in DOMAIN runs' : Whole(runs[j])' <=> Whole(runs'[j])
  BY DEF Whole, Represents
<1> QED  BY <1>10, <1>11, <1>12 DEF Collected

-----------------------------------------------------------------------------
(* Where commits come from, and the bounds *)

SentDelivery(H) == [type : Types, hook : H, commit : Commits, id : Nat]

Known ==
    /\ sent \subseteq SentDelivery(Hooks)
    /\ \A r \in Receivers : receiver[r].pc # "idle" => receiver[r].delivery.commit \in Commits
    /\ \A e \in Events : /\ events[e].delivery.commit \in Commits
                         /\ work[e].pc \in {"index", "save"} => work[e].at \in Commits
    /\ indexed \subseteq Commits

Counted ==
    /\ salts \in 0..MaxSecrets /\ disables \in 0..MaxDisables
    /\ incidents \in 0..MaxIncidents /\ faulty \in BOOLEAN

LEMMA KnownStays ==
  ASSUME Known, UNCHANGED <<sent, receiver, events, work>>, indexed' \subseteq Commits, Hooks \subseteq Hooks'
  PROVE  Known'
<1>1. SentDelivery(Hooks) \subseteq SentDelivery(Hooks')
  BY DEF SentDelivery
<1> QED  BY <1>1 DEF Known, Events

LEMMA HooksStay ==
  ASSUME Registrations, NEW h \in 1..(Len(hooks) + 1), NEW secret \in Nat,
         NEW status \in {"active", "disabled"}, SaveGitFlameWebhook(h, secret, status)
  PROVE  Hooks \subseteq Hooks'
<1>1. Len(hooks) \in Nat /\ Hooks = 1..Len(hooks) /\ (Len(hooks') = Len(hooks) \/ Len(hooks') = Len(hooks) + 1)
  BY SaveHook, HooksCounted
<1>2. Hooks' = 1..Len(hooks')
  BY DEF Hooks
<1> QED  BY <1>1, <1>2

LEMMA RequestKnown ==
  ASSUME Registrations, Known, NEW a \in Admins, RequestStep(a) PROVE Known'
<1>1. UNCHANGED <<sent, receiver, events, work, indexed>>
  BY DEF RequestStep, BeginCreate, BeginDisable, Create, Disable, Answer, FailRequest, Others, eventVars
<1>2. admin[a].secret \in Nat /\ Len(hooks) \in Nat
      /\ (admin[a].pc = "disable" => admin[a].hook \in 1..(Len(hooks) + 1))
  BY HooksCounted DEF Registrations, Request, HookOf
<1>3. Hooks \subseteq Hooks'
  <2>1. CASE hooks' = hooks
    BY <2>1 DEF Hooks
  <2>2. CASE SaveCreated(a)
    BY <1>2, <2>2, SaveCreatedOK DEF Hooks
  <2>3. CASE SaveDisabled(a)
    BY <1>2, <2>3, HooksStay DEF SaveDisabled
  <2> QED  BY <2>1, <2>2, <2>3 DEF RequestStep, BeginCreate, BeginDisable, Create, Disable, Answer,
              FailRequest
<1> QED  BY <1>1, <1>3, KnownStays DEF Known

LEMMA DeliverKnown ==
  ASSUME Registrations, Deliveries, Known, NEW type \in Types, NEW h \in Hooks, Deliver(type, h)
  PROVE  Known'
<1> DEFINE id == IF type \in Named THEN Cardinality(sent) + 1 ELSE 0
           d == [type |-> type, hook |-> h, commit |-> head, id |-> id]
<1>1. sent' = sent \cup {d} /\ UNCHANGED <<receiver, events, work, indexed, hooks>>
  BY DEF Deliver, eventVars, hookVars
<1>2. id \in Nat /\ head \in Commits
  BY Identified DEF Deliveries
<1> HIDE DEF id
<1>3. d \in SentDelivery(Hooks)
  BY <1>2 DEF SentDelivery
<1> HIDE DEF d
<1> QED  BY <1>1, <1>3 DEF Known, Events, Hooks

LEMMA ReceiverKnown ==
  ASSUME Deliveries, Known, NEW r \in Receivers, Receive(r) \/ Check(r) \/ ReadConnection(r) PROVE Known'
<1>1. UNCHANGED <<sent, events, work, indexed, hooks>>
  BY DEF Receive, Check, ReadConnection, OnlyReceiver, hookVars
<1>2. \A d \in sent : d.commit \in Commits
  BY DEF Known, SentDelivery
<1>3. receiver \in [Receivers -> Receiver] /\ NoReceiver.pc = "idle"
  BY DEF Deliveries, NoReceiver
<1>4. \A s \in Receivers : receiver'[s].pc # "idle" => receiver'[s].delivery.commit \in Commits
  <2>1. CASE Receive(r)
    <3>1. PICK d \in sent : receiver' = [receiver EXCEPT ![r] =
                                            [pc |-> "check", delivery |-> d, revoked |-> FALSE]]
      BY <2>1 DEF Receive
    <3> QED  BY <1>2, <1>3, <3>1 DEF Known
  <2>2. CASE Check(r) \/ ReadConnection(r)
    <3>1. \/ receiver' = [receiver EXCEPT ![r] = NoReceiver]
          \/ receiver' = [receiver EXCEPT ![r].pc = "connection"]
          \/ receiver' = [receiver EXCEPT ![r].pc = "save", ![r].revoked = revoked]
      BY <2>2 DEF Check, ReadConnection
    <3>2. receiver[r].pc # "idle"
      BY <2>2 DEF Check, ReadConnection, Receiving
    <3>3. \A s \in Receivers : receiver[s] \in Receiver
      BY <1>3
    <3>4. CASE receiver' = [receiver EXCEPT ![r] = NoReceiver]
      BY <1>3, <3>4 DEF Known
    <3>5. CASE \/ receiver' = [receiver EXCEPT ![r].pc = "connection"]
               \/ receiver' = [receiver EXCEPT ![r].pc = "save", ![r].revoked = revoked]
      <4>1. \A s \in Receivers : receiver'[s].delivery = receiver[s].delivery
                                 /\ (s # r => receiver'[s] = receiver[s])
        BY <1>3, <3>3, <3>5 DEF Receiver
      <4> QED  BY <3>2, <4>1 DEF Known
    <3> QED  BY <3>1, <3>4, <3>5
  <2> QED  BY <2>1, <2>2
<1> QED  BY <1>1, <1>4 DEF Known, Events, Hooks

LEMMA SaveEventKnown ==
  ASSUME Deliveries, Known, NEW r \in Receivers, SaveEvent(r) PROVE Known'
<1>1. /\ UNCHANGED <<sent, indexed, hooks>> /\ receiver' = [receiver EXCEPT ![r] = NoReceiver]
      /\ receiver[r].pc # "idle"
  BY DEF SaveEvent, hookVars, Receiving
<1>2. \A s \in Receivers : receiver'[s].pc # "idle" => receiver'[s].delivery.commit \in Commits
  BY <1>1 DEF Deliveries, NoReceiver, Known
<1>3. CASE UNCHANGED <<events, work>>
  BY <1>1, <1>2, <1>3 DEF Known, Events, Hooks
<1>4. CASE ~ UNCHANGED <<events, work>>
  <2> DEFINE d == receiver[r].delivery
             n == Len(events) + 1
  <2>1. /\ Len(events') = n
        /\ \A e \in Events : events'[e] = events[e] /\ work'[e] = work[e]
        /\ events'[n] = [delivery |-> d, status |-> "received"] /\ work'[n].pc \in {"open", "gone"}
    BY <1>4, SavedEvent
  <2>2. d.commit \in Commits
    BY <1>1 DEF Known
  <2>3. Events' = Events \cup {n}
    BY <2>1, EventsCounted DEF Events
  <2>4. events'[n].delivery.commit \in Commits
    BY <2>1, <2>2
  <2> HIDE DEF n, d
  <2> QED  BY <1>1, <1>2, <2>1, <2>3, <2>4 DEF Known, Hooks
<1> QED  BY <1>3, <1>4

(* A goroutine's step: x is its next state.                                *)
LEMMA GoroutineKnown ==
  ASSUME Deliveries, Known, NEW e \in Events, NEW x,
         x.pc \in {"index", "save"} => x.at \in Commits,
         work' = [work EXCEPT ![e] = x], indexed' \subseteq Commits,
         UNCHANGED <<sent, receiver, hooks>>, Events' = Events,
         \A f \in Events : events'[f].delivery = events[f].delivery
  PROVE  Known'
<1>1. \A f \in Events : work'[f] = IF f = e THEN x ELSE work[f]
  BY EventsCounted DEF Deliveries
<1> QED  BY <1>1 DEF Known, Hooks

LEMMA ProcessKnown ==
  ASSUME Deliveries, RunsTrue, Known, NEW e \in Events, Process(e) \/ FailCall(e) PROVE Known'
<1>1. /\ UNCHANGED <<sent, receiver, hooks>> /\ work[e] \in Job /\ head \in Commits
      /\ events[e].delivery.commit \in Commits
      /\ (work[e].pc \in {"index", "save"} => work[e].at \in Commits)
  BY EventsCounted DEF Process, Open, Status, Read, Reread, ReadFiles, Index, Save, Finish, FailCall,
     OnlyWork, eventVars, hookVars, Known, Deliveries
<1>2. indexed' \subseteq Commits
  <2>1. indexed' = indexed \/ indexed' = indexed \cup {events[e].delivery.commit}
    BY DEF Process, Open, Status, Read, Reread, ReadFiles, Index, Save, Finish, FailCall
  <2> QED  BY <1>1, <2>1 DEF Known
<1>3. Events' = Events /\ \A f \in Events : events'[f].delivery = events[f].delivery
  <2>1. CASE events' = events
    BY <2>1 DEF Events
  <2>2. CASE Finish(e) /\ events' # events
    <3>1. PICK status : events' = [events EXCEPT ![e].status = status]
      BY <2>2 DEF Finish
    <3>2. DOMAIN events = Events /\ \A f \in Events : events[f] \in Event
      BY EventsCounted DEF Deliveries
    <3>3. \A f \in Events : events'[f].delivery = events[f].delivery
      BY <3>1, <3>2 DEF Event
    <3>4. Events' = Events
      BY <3>1, EventsCounted DEF Events, Deliveries
    <3> QED  BY <3>3, <3>4
  <2> QED  BY <2>1, <2>2 DEF Process, Open, Status, Read, Reread, ReadFiles, Index, Save, FailCall,
               OnlyWork, eventVars
<1>4. PICK x : work' = [work EXCEPT ![e] = x] /\ (x.pc \in {"index", "save"} => x.at \in Commits)
  <2>1. ASSUME NEW pc, pc \notin {"index", "save"} \/ work[e].pc \in {"index", "save"}, Proceed(e, pc)
        PROVE  \E x : work' = [work EXCEPT ![e] = x] /\ (x.pc \in {"index", "save"} => x.at \in Commits)
    <3> DEFINE x == [work[e] EXCEPT !.pc = pc]
    <3>1. x.pc = pc /\ x.at = work[e].at
      BY <1>1 DEF Job
    <3>2. work' = [work EXCEPT ![e] = x]
      BY <2>1 DEF Proceed
    <3> HIDE DEF x
    <3> QED  BY <1>1, <2>1, <3>1, <3>2
  <2>2. ASSUME NEW status, Conclude(e, status)
        PROVE  \E x : work' = [work EXCEPT ![e] = x] /\ (x.pc \in {"index", "save"} => x.at \in Commits)
    <3> DEFINE x == [work[e] EXCEPT !.pc = "finish", !.status = status]
    <3>1. x.pc = "finish"
      BY <1>1 DEF Job
    <3>2. work' = [work EXCEPT ![e] = x]
      BY <2>2 DEF Conclude
    <3> HIDE DEF x
    <3> QED  BY <3>1, <3>2
  <2>3. CASE Leave(e)
    <3>1. Gone.pc = "gone"
      BY DEF Gone
    <3> QED  BY <2>3, <3>1 DEF Leave
  <2>4. ASSUME NEW cfg, NEW pc \in {"index", "save"}, ReadFiles(e, cfg, pc)
        PROVE  \E x : work' = [work EXCEPT ![e] = x] /\ (x.pc \in {"index", "save"} => x.at \in Commits)
    <3> DEFINE x == IF cfg = "bad" THEN [work[e] EXCEPT !.pc = "finish", !.status = "failed"]
                    ELSE [work[e] EXCEPT !.pc = pc, !.at = head, !.cfg = cfg]
    <3>1. x.pc = "finish" \/ x.at = head
      BY <1>1 DEF Job
    <3>2. work' = [work EXCEPT ![e] = x]
      BY <2>4 DEF ReadFiles
    <3> HIDE DEF x
    <3> QED  BY <1>1, <3>1, <3>2
  <2>5. CASE Process(e)
    BY <2>1, <2>2, <2>3, <2>4, <2>5 DEF Process, Open, Status, Read, Reread, Index, Save, Finish, Working
  <2>6. CASE FailCall(e)
    BY <2>2, <2>6 DEF FailCall
  <2> QED  BY <2>5, <2>6
<1> QED  BY <1>1, <1>2, <1>3, <1>4, GoroutineKnown

LEMMA KnownKept == Registrations /\ Deliveries /\ RunsTrue /\ Known /\ [Next]_vars => Known'
<1> SUFFICES ASSUME Registrations, Deliveries, RunsTrue, Known, [Next]_vars PROVE Known'
  OBVIOUS
<1>1. ASSUME NEW a \in Admins, RequestStep(a) PROVE Known'
  BY <1>1, RequestKnown
<1>2. CASE Push \/ Elsewhere
  <2>1. UNCHANGED <<sent, receiver, events, work, hooks>> /\ (indexed' = indexed \/ indexed' = indexed \cup {head})
    BY <1>2 DEF Push, Elsewhere, eventVars, hookVars
  <2>2. indexed' \subseteq Commits
    BY <2>1 DEF Known, Deliveries
  <2> QED  BY <2>1, <2>2, KnownStays DEF Hooks
<1>3. ASSUME NEW type \in Types, NEW h \in Hooks, Deliver(type, h) PROVE Known'
  BY <1>3, DeliverKnown
<1>4. ASSUME NEW r \in Receivers, Receive(r) \/ Check(r) \/ ReadConnection(r) \/ SaveEvent(r) PROVE Known'
  BY <1>4, ReceiverKnown, SaveEventKnown
<1>5. ASSUME NEW e \in Events, Process(e) \/ FailCall(e) PROVE Known'
  BY <1>5, ProcessKnown
<1>6. CASE AnalyzeRecommendations
  BY <1>6, KnownStays DEF AnalyzeRecommendations, eventVars, hookVars, Hooks, Known
<1>7. ASSUME NEW i, NEW c, NEW state, UpdateRecommendation(i, c, state) PROVE Known'
  BY <1>7, KnownStays DEF UpdateRecommendation, eventVars, hookVars, Hooks, Known
<1>8. CASE Restart
  <2>1. /\ UNCHANGED <<hooks, sent, events, indexed>>
        /\ receiver' = [r \in Receivers |-> NoReceiver] /\ work' = [e \in Events |-> Gone]
    BY <1>8 DEF Restart
  <2> QED  BY <2>1 DEF Known, Hooks, Events, NoReceiver, Gone
<1>9. CASE UNCHANGED vars
  BY <1>9, KnownStays DEF vars, eventVars, hookVars, Hooks, Known
<1> QED  BY <1>1, <1>2, <1>3, <1>4, <1>5, <1>6, <1>7, <1>8, <1>9 DEF Next, RequestStep

LEMMA CountedKept == Counted /\ [Next]_vars => Counted'
<1> SUFFICES ASSUME Counted, [Next]_vars PROVE Counted'
  OBVIOUS
<1>0. MaxSecrets \in Nat /\ MaxDisables \in Nat /\ MaxIncidents \in Nat
  BY WebhooksAssumption
<1>1. salts' = salts \/ (salts < MaxSecrets /\ salts' = salts + 1)
  <2>1. CASE \E a \in Admins : RequestStep(a)
    BY <2>1 DEF RequestStep, BeginCreate, BeginDisable, Create, Disable, Answer, FailRequest, Others
  <2>2. CASE UNCHANGED salts
    BY <2>2
  <2> QED  BY <2>1, <2>2 DEF Next, RequestStep, Push, Elsewhere, Deliver, Receive, Check, ReadConnection,
              SaveEvent, OnlyReceiver, Process,
              Open, Status, Read, Reread, ReadFiles, Index, Save, Finish, FailCall, OnlyWork, hookVars, vars,
              AnalyzeRecommendations, UpdateRecommendation, Restart
<1>2. disables' = disables \/ (disables < MaxDisables /\ disables' = disables + 1)
  <2>1. CASE \E a \in Admins : RequestStep(a)
    BY <2>1 DEF RequestStep, BeginCreate, BeginDisable, Create, Disable, Answer, FailRequest, Others
  <2>2. CASE UNCHANGED disables
    BY <2>2
  <2> QED  BY <2>1, <2>2 DEF Next, RequestStep, Push, Elsewhere, Deliver, Receive, Check, ReadConnection,
              SaveEvent, OnlyReceiver, Process,
              Open, Status, Read, Reread, ReadFiles, Index, Save, Finish, FailCall, OnlyWork, hookVars, vars,
              AnalyzeRecommendations, UpdateRecommendation, Restart
<1>3. Calm \/ Fault \/ Harmless
  BY DEF Next, BeginCreate, BeginDisable, Create, Disable, Answer, FailRequest, Others, Push, Elsewhere,
     Deliver, Receive, Check, ReadConnection, SaveEvent, Process, Open, Status, Read, Reread, ReadFiles, Index, Save, Finish, FailCall, vars,
     AnalyzeRecommendations, UpdateRecommendation, Restart, Calm
<1>4. faulty' \in BOOLEAN /\ (incidents' = incidents \/ (incidents < MaxIncidents /\ incidents' = incidents + 1))
  BY <1>3 DEF Counted, Calm, Fault, Harmless, Incident, counters
<1> QED  BY <1>0, <1>1, <1>2, <1>4 DEF Counted

LEMMA CollectedKept ==
  Deliveries /\ RunsTrue /\ Known /\ Collected /\ [Next]_vars => Collected'
<1> SUFFICES ASSUME Deliveries, RunsTrue, Known, Collected, [Next]_vars PROVE Collected'
  OBVIOUS
<1>1. CASE UNCHANGED runs
  BY <1>1 DEF Collected, Whole, Represents
<1>2. ASSUME NEW e \in Events, work[e].pc = "save", SaveRecommendations(e, work[e].at, work[e].cfg)
      PROVE  Collected'
  <2>1. e \in Nat /\ work[e].at \in 0..MaxHead /\ work[e].at \in Commits /\ work[e].cfg \in {"on", "off"}
    BY <1>2, JobKnown DEF EventOK, Job, Known
  <2> QED  BY <1>2, <2>1, RunCollected
<1>3. CASE AnalyzeRecommendations
  <2>1. head \in 1..MaxHead /\ MaxHead \in Nat /\ Commits = 1..MaxHead
    BY EventsCounted, Bounds
  <2>2. CASE SaveRecommendations(0, 0, "off")
    <3>1. 0 \in 0..MaxHead
      BY <2>1
    <3> QED  BY <2>2, <3>1, RunCollected
  <2>3. ASSUME NEW at \in 1..head, SaveRecommendations(0, at, "on") PROVE Collected'
    <3>1. at \in 0..MaxHead /\ at \in Commits
      BY <2>1
    <3> QED  BY <2>3, <3>1, RunCollected
  <2> QED  BY <1>3, <2>2, <2>3 DEF AnalyzeRecommendations
<1>4. ASSUME NEW i \in DOMAIN runs, NEW c \in DOMAIN runs[i].cards, NEW state \in {"closed", "deleted"},
             UpdateRecommendation(i, c, state)
      PROVE  Collected'
  BY <1>4, DecisionCollected
<1>5. ASSUME NEW e \in Events, Process(e) \/ FailCall(e) PROVE Collected'
  <2>1. runs' = runs \/ (Working(e, "save") /\ SaveRecommendations(e, work[e].at, work[e].cfg))
    BY <1>5 DEF Process, Open, Status, Read, Reread, ReadFiles, Index, Save, Finish, FailCall, runVars
  <2> QED  BY <1>1, <1>2, <2>1 DEF Working
<1>6. \/ UNCHANGED runs \/ AnalyzeRecommendations
      \/ \E e \in Events : Process(e) \/ FailCall(e)
      \/ \E i \in DOMAIN runs : \E c \in DOMAIN runs[i].cards, state \in {"closed", "deleted"} :
            UpdateRecommendation(i, c, state)
  BY DEF Next, BeginCreate, BeginDisable, Create, Disable, Answer, FailRequest, Others, Push, Elsewhere,
     Deliver, Receive, Check, ReadConnection, SaveEvent, OnlyReceiver, Restart, vars, runVars
<1> QED  BY <1>1, <1>3, <1>4, <1>5, <1>6

-----------------------------------------------------------------------------
(* The properties *)

Inv == Registrations /\ Deliveries /\ ProcessedOnce /\ RunsTrue /\ Known /\ Counted /\ Collected

LEMMA InitInv == Init => Inv
<1> SUFFICES ASSUME Init PROVE Inv
  OBVIOUS
<1>1. /\ hooks = <<>> /\ created = <<>> /\ answered = <<>> /\ newest = 0 /\ salts = 0
      /\ head = 1 /\ revoked = FALSE /\ sent = {} /\ events = <<>> /\ work = <<>>
      /\ stored = "none" /\ runs = <<>>
      /\ admin = [a \in Admins |-> NoRequest] /\ receiver = [r \in Receivers |-> NoReceiver]
  BY DEF Init
<1>2. /\ NoRequest \in Request /\ NoRequest.hook = 0 /\ NoRequest.pc = "idle"
      /\ Hooks = {} /\ Events = {} /\ Len(hooks) = 0 /\ Len(events) = 0
  BY <1>1 DEF NoRequest, Request, Hooks, Events
<1>3. Registrations
  <2>1. admin \in [Admins -> Request] /\ \A a \in Admins : admin[a] = NoRequest
    BY <1>1, <1>2
  <2>2. \A a \in Admins : HookOf(admin[a], Len(hooks))
    BY <1>2, <2>1, NoRequestOK
  <2> QED  BY <1>1, <1>2, <2>1, <2>2 DEF Registrations, Tables, ActiveSecretIsNewest
<1>4. Deliveries
  <2>1. NoReceiver \in Receiver /\ NoReceiver.delivery.commit = 0
    BY Bounds DEF NoReceiver, NoDelivery, Receiver, Delivery, Types
  <2>2. receiver \in [Receivers -> Receiver] /\ \A r \in Receivers : receiver[r] = NoReceiver
    BY <1>1, <2>1
  <2>3. head \in Commits
    BY <1>1, Bounds
  <2>4. events \in Seq(Event) /\ work \in Seq(Job) /\ Len(work) = Len(events)
    BY <1>1
  <2>5. IsFiniteSet(sent) /\ sent \subseteq Delivery /\ \A d \in sent : d.commit <= head
    BY <1>1, FS_EmptySet
  <2>6. \A r \in Receivers : receiver[r].delivery.commit <= head
    BY <1>1, <2>1, <2>2
  <2>7. revoked \in BOOLEAN /\ stored \in {"none", "on", "off"}
    BY <1>1
  <2> QED  BY <1>2, <2>2, <2>3, <2>4, <2>5, <2>6, <2>7 DEF Deliveries
<1>5. ProcessedOnce
  BY <1>2 DEF ProcessedOnce
<1>6. RunsTrue
  <2>1. runs \in Seq(RunOf({})) /\ DOMAIN runs = {}
    BY <1>1
  <2> QED  BY <1>2, <2>1 DEF RunsTrue, RunsTyped
<1>7. Known
  <2>1. \A r \in Receivers : receiver[r].pc = "idle"
    BY <1>1 DEF NoReceiver
  <2> QED  BY <1>1, <1>2, <2>1 DEF Known, Init
<1>8. Counted
  <2>1. MaxSecrets \in Nat /\ MaxDisables \in Nat /\ MaxIncidents \in Nat
    BY WebhooksAssumption
  <2>2. salts = 0 /\ disables = 0 /\ incidents = 0 /\ faulty = FALSE
    BY DEF Init
  <2>3. salts \in 0..MaxSecrets /\ disables \in 0..MaxDisables /\ incidents \in 0..MaxIncidents
    BY <2>1, <2>2
  <2>4. faulty \in BOOLEAN
    BY <2>2
  <2> QED  BY <2>3, <2>4 DEF Counted
<1>9. Collected
  BY <1>1 DEF Collected
<1> QED  BY <1>3, <1>4, <1>5, <1>6, <1>7, <1>8, <1>9 DEF Inv

LEMMA RunsTrueIsStatus == Deliveries /\ RunsTrue => StatusIsTrue
<1> SUFFICES ASSUME Deliveries, RunsTrue PROVE StatusIsTrue
  OBVIOUS
<1> QED  BY DEF RunsTrue, EventOK, Own, StatusIsTrue

LEMMA InvTypeOK == Inv => TypeOK
<1> SUFFICES ASSUME Inv PROVE TypeOK
  OBVIOUS
<1> DEFINE Typed == [pc : {"idle", "create", "answer", "disable"}, hook : 0..Len(hooks), secret : Nat]
<1>1. admin \in [Admins -> Typed]
  <2>1. \A a \in Admins : admin[a] \in Typed
    BY HooksCounted DEF Inv, Registrations, Request, HookOf
  <2> QED  BY <2>1 DEF Inv, Registrations
<1>2. head \in Commits /\ revoked \in BOOLEAN /\ stored \in {"none", "on", "off"}
  BY DEF Inv, Deliveries
<1>3. hooks \in Seq([secret : Nat, status : {"active", "disabled"}])
      /\ created \in Seq(Nat) /\ Len(created) = Len(hooks)
      /\ answered \in Seq(SUBSET Nat) /\ Len(answered) = Len(hooks) /\ newest \in 0..Len(hooks)
  BY DEF Inv, Registrations, Tables, Hook
<1>4. /\ receiver \in [Receivers -> [pc : {"idle", "check", "connection", "save"},
                                     delivery : Delivery, revoked : BOOLEAN]]
      /\ events \in Seq([delivery : Delivery, status : {"received", "processed", "failed", "ignored"}])
      /\ work \in Seq(Job) /\ Len(work) = Len(events)
  BY DEF Inv, Deliveries, Receiver, Event
<1>5. sent \subseteq [type : Types, hook : Hooks, commit : Commits, id : Nat]
      /\ indexed \subseteq Commits
  BY DEF Inv, Known, SentDelivery
<1>6. runs \in Seq(Run)
  BY DEF Inv, Collected
<1> QED  BY <1>1, <1>2, <1>3, <1>4, <1>5, <1>6 DEF Inv, Counted, TypeOK

(* Every step keeps the registrations, the deliveries and events, one      *)
(* event for each delivery with an id, the runs of each event, and the     *)
(* cards of each run.                                                      *)
THEOREM Invariant == Spec => []Inv
<1>1. Inv /\ [Next]_vars => Inv'
  BY RegistrationsKept, DeliveriesKept, OnceKept, KnownKept, CountedKept, CollectedKept DEF Inv
<1> QED  BY InitInv, <1>1, PTL DEF Spec

(* While a registration is active it expects the secret of the newest      *)
(* create, which the user was or is being given; or a call failed or the   *)
(* backend restarted, and it may be a secret nobody was given.             *)
THEOREM ActiveSecretsAreNewest == Spec => []ActiveSecretIsNewest
<1>1. Inv => ActiveSecretIsNewest
  BY DEF Inv, Registrations
<1> QED  BY Invariant, <1>1, PTL

(* A delivery with an id is one event, however often it is repeated.       *)
THEOREM DeliveriesProcessedOnce == Spec => []ProcessedOnce
<1>1. Inv => ProcessedOnce
  BY DEF Inv
<1> QED  BY Invariant, <1>1, PTL

(* The status of an event tells whether it has a report, and of what.      *)
THEOREM StatusesAreTrue == Spec => []StatusIsTrue
<1>1. Inv => StatusIsTrue
  BY RunsTrueIsStatus DEF Inv
<1> QED  BY Invariant, <1>1, PTL

(* Every variable of the webhooks and the recommendations keeps its type,  *)
(* for any bounds: no configuration that does not parse is stored, and no  *)
(* card leaves the states of the schema.                                   *)
THEOREM TypesAreKept == Spec => []TypeOK
<1> QED  BY Invariant, InvTypeOK, PTL

(* A run has one card at most for a fingerprint, and one for each finding  *)
(* of the service, whatever the findings of each commit are.               *)
THEOREM RunsHaveEachFinding == Spec => []RunHasEachFinding
<1>1. Inv => RunHasEachFinding
  BY CollectedIsEach DEF Inv
<1> QED  BY Invariant, <1>1, PTL

=============================================================================
