------------------------------ MODULE Webhooks ------------------------------
(***************************************************************************)
(* Webhooks of one GitFlame connection and the recommendations they keep   *)
(* fresh: httpapi/webhooks.go, the analysis a user asks for (server.go),   *)
(* and the store's tables of registrations, events and reports.            *)
(*                                                                         *)
(* Handlers read and write the store one call at a time; each event that   *)
(* is stored is processed by a goroutine of its own, on copies, after the  *)
(* delivery has been answered.  The user learns a secret from the answer   *)
(* of a create, which comes after its save and may be lost.  GitFlame      *)
(* signs with a secret the user was given, repeats a delivery as often as  *)
(* it likes, and may leave out its id.  Any call of the store or of        *)
(* another service may fail, before or after its effect, and the process   *)
(* may restart; nothing looks for the events a restart leaves behind.      *)
(*                                                                         *)
(* Abstractions.  A commit is its position on the branch.  Its files are   *)
(* read at one moment (FetchFiles) and indexed under the commit the push   *)
(* names (IndexJobs has the push that names none).  A registration, event  *)
(* or run is its number, for the uuid; a secret is the number of its salt. *)
(* Reports do not expire.                                                  *)
(***************************************************************************)
EXTENDS Sequences, FiniteSets, SequencesExt

CONSTANTS
    Admins,      \* requests about the registration, at once
    Receivers,   \* deliveries received at once
    MaxHead,     \* bound: commits on the branch
    Config,      \* the .ai.yml of each commit: "on", "off" or "bad"
    Findings,    \* what the recommendation service finds at each commit
    Named,       \* the kinds of events whose deliveries carry an id
    Window,      \* the events a delivery is compared with (100)
    MaxSecrets,  \* bound: secrets generated
    MaxDisables, \* bound: registrations disabled
    MaxSent,     \* bound: deliveries that GitFlame makes, their repeats aside
    MaxEvents,   \* bound: events stored
    MaxIncidents \* bound: failed calls, restarts, analyses asked for, decisions on
                 \* cards, and steps of other components

Commits == 1..MaxHead
Types == {"push", "issue", "unknown"}

(* A card of the service: print is the fingerprint, 0 when it is missing   *)
(* or not a SHA-256, and text what the content is hashed from.             *)
Card == [print : Nat, text : Nat]

ASSUME WebhooksAssumption ==
    /\ {MaxHead, MaxSecrets, MaxSent, MaxEvents} \subseteq Nat \ {0}
    /\ {Window, MaxDisables, MaxIncidents} \subseteq Nat /\ Named \subseteq Types
    /\ Config \in [Commits -> {"on", "off", "bad"}] /\ Findings \in [Commits -> Seq(Card)]

VARIABLES
    head,        \* the newest commit
    revoked,     \* the connection is revoked
    hooks,       \* gitflame_webhooks: [secret, status]
    created,     \* history: the secret of the newest create saved, for each of them
    answered,    \* the secrets the user was given, for each of them
    newest,      \* the registration of the connection updated last
    salts,       \* secrets generated
    disables,    \* registrations disabled
    admin,       \* requests about the registration
    sent,        \* deliveries GitFlame has made
    receiver,    \* deliveries being received
    events,      \* gitflame_webhook_events
    work,        \* the goroutine of each event
    indexed,     \* commits CodeRAG has
    stored,      \* the newest ai_configs row, or "none"
    runs,        \* recommendation_runs and their cards
    incidents,   \* failures, and steps of users and other components
    faulty       \* whether one of them was a failure

counters == <<incidents, faulty>>
hookVars == <<hooks, created, answered, newest, salts, disables, admin>>
eventVars == <<receiver, events>>
runVars == <<stored, runs>>
vars == <<head, revoked, hookVars, sent, eventVars, work, indexed, runVars, counters>>

Hooks == 1..Len(hooks)
Events == 1..Len(events)
Calm == UNCHANGED counters
Incident == incidents < MaxIncidents /\ incidents' = incidents + 1
Fault == Incident /\ faulty' = TRUE
Harmless == Incident /\ UNCHANGED faulty

NoRequest == [pc |-> "idle", hook |-> 0, secret |-> 0]
NoDelivery == [type |-> "unknown", hook |-> 0, commit |-> 0, id |-> 0]
NoReceiver == [pc |-> "idle", delivery |-> NoDelivery, revoked |-> FALSE]
Gone == [pc |-> "gone", revoked |-> FALSE, at |-> 0, cfg |-> "none", status |-> "received"]

-----------------------------------------------------------------------------
(* Registrations *)

(* createGitFlameWebhook: a registration that exists is used again, with a *)
(* new secret ...                                                          *)
BeginCreate(a) ==
    /\ admin[a].pc = "idle" /\ salts < MaxSecrets
    /\ salts' = salts + 1
    /\ admin' = [admin EXCEPT ![a] = [pc |-> "create", hook |-> newest, secret |-> salts']]
    /\ UNCHANGED <<head, revoked, hooks, created, answered, newest, disables, sent, eventVars,
                   work, indexed, runVars, counters>>

(* disableGitFlameWebhook reads the registration it will write back.       *)
BeginDisable(a) ==
    /\ admin[a].pc = "idle" /\ newest # 0
    /\ disables < MaxDisables /\ disables' = disables + 1
    /\ admin' = [admin EXCEPT ![a] =
                    [pc |-> "disable", hook |-> newest, secret |-> hooks[newest].secret]]
    /\ UNCHANGED <<head, revoked, hooks, created, answered, newest, salts, sent, eventVars,
                   work, indexed, runVars, counters>>

(* A slip to catch: the upsert leaves the secret of the row alone. *)
KeepSecret(h, secret, status) ==
    /\ hooks' = IF h \in Hooks THEN [hooks EXCEPT ![h].status = status]
                ELSE Append(hooks, [secret |-> secret, status |-> status])
    /\ newest' = h
(* SaveGitFlameWebhook: the URL holds the id, so that its row is found by  *)
(* the URL whenever it exists.                                             *)
SaveGitFlameWebhook(h, secret, status) ==
    /\ hooks' = IF h \in Hooks THEN [hooks EXCEPT ![h].status = status, ![h].secret = secret]
                ELSE Append(hooks, [secret |-> secret, status |-> status])
    /\ newest' = h

Others == UNCHANGED <<head, revoked, salts, disables, sent, eventVars, work, indexed, runVars>>
Ends(a) == admin' = [admin EXCEPT ![a] = NoRequest]

(* ... is active from its save on ...                                      *)
Target(a) == IF admin[a].hook = 0 THEN Len(hooks) + 1 ELSE admin[a].hook
SaveCreated(a) ==
    LET h == Target(a) IN
    /\ admin[a].pc = "create"
    /\ SaveGitFlameWebhook(h, admin[a].secret, "active")
    /\ created' = IF h \in Hooks THEN [created EXCEPT ![h] = admin[a].secret]
                  ELSE Append(created, admin[a].secret)
    /\ answered' = IF h \in Hooks THEN answered ELSE Append(answered, {})
Create(a) ==
    /\ SaveCreated(a)
    /\ admin' = [admin EXCEPT ![a] =
                    [pc |-> "answer", hook |-> Target(a), secret |-> admin[a].secret]]
    /\ Others /\ Calm

(* ... and the answer, in whatever order answers come, has the secret that *)
(* the user enters in GitFlame.                                            *)
Answer(a) ==
    /\ admin[a].pc = "answer"
    /\ answered' = [answered EXCEPT ![admin[a].hook] = @ \cup {admin[a].secret}]
    /\ Ends(a)
    /\ UNCHANGED <<hooks, created, newest>> /\ Others /\ Calm

SaveDisabled(a) ==
    /\ admin[a].pc = "disable"
    /\ SaveGitFlameWebhook(admin[a].hook, admin[a].secret, "disabled")
    /\ UNCHANGED <<created, answered>>
Disable(a) == SaveDisabled(a) /\ Ends(a) /\ Others /\ Calm

(* The save fails, or does what it should and its reply is lost; or the    *)
(* answer is lost.  The user sees an error and no secret.                  *)
FailRequest(a) ==
    /\ admin[a].pc # "idle"
    /\ SaveCreated(a) \/ SaveDisabled(a) \/ UNCHANGED <<hooks, created, answered, newest>>
    /\ Ends(a)
    /\ Others /\ Fault

-----------------------------------------------------------------------------
(* GitFlame: commits, deliveries, and the connection *)

Push ==
    /\ head < MaxHead /\ head' = head + 1
    /\ UNCHANGED <<revoked, hookVars, sent, eventVars, work, indexed, runVars, counters>>

(* An event goes to a registration the user entered in GitFlame. *)
Deliver(type, h) ==
    /\ answered[h] # {}
    /\ sent' = sent \cup {[type |-> type, hook |-> h, commit |-> head,
                           id |-> IF type \in Named THEN Cardinality(sent) + 1 ELSE 0]}
    /\ Cardinality(sent') <= MaxSent
    /\ UNCHANGED <<head, revoked, hookVars, eventVars, work, indexed, runVars, counters>>

(* Other components meanwhile: revokes and new tokens (Connections), and   *)
(* configurations saved and commits indexed (IndexJobs).                   *)
Elsewhere ==
    /\ Harmless
    /\ \/ revoked' = ~revoked /\ UNCHANGED <<stored, indexed>>
       \/ stored' \in {"on", "off"} /\ UNCHANGED <<revoked, indexed>>
       \/ indexed' = indexed \cup {head} /\ UNCHANGED <<revoked, stored>>
    /\ UNCHANGED <<head, hookVars, sent, eventVars, work, runs>>

-----------------------------------------------------------------------------
(* receiveGitFlameWebhook *)

Receiving(r, pc) == receiver[r].pc = pc
OnlyReceiver == UNCHANGED <<head, revoked, hookVars, sent, events, work, indexed, runVars>>

(* validWebhookRequest: the secret, or a signature made with it, which     *)
(* GitFlame has from the user.                                             *)
Valid(delivery) == hooks[delivery.hook].secret \in answered[delivery.hook]

Receive(r) ==
    /\ Receiving(r, "idle")
    /\ \E d \in sent :
          /\ hooks[d.hook].status = "active" /\ Valid(d)
          /\ receiver' = [receiver EXCEPT ![r] =
                             [pc |-> "check", delivery |-> d, revoked |-> FALSE]]
    /\ OnlyReceiver /\ Calm

(* GitFlameWebhookEvents: the newest of a registration. *)
GitFlameWebhookEvents(h) ==
    LET own == {e \in Events : events[e].delivery.hook = h}
    IN  {e \in own : Cardinality({f \in own : f > e}) < Window}

Same(delivery, other) == delivery.hook = other.hook /\ delivery.id = other.id

(* A delivery with an id is compared with earlier ones, if they can be     *)
(* listed.                                                                 *)
Check(r) ==
    LET d == receiver[r].delivery
        known == d.id # 0 /\ \E e \in GitFlameWebhookEvents(d.hook) : Same(events[e].delivery, d)
    IN  /\ Receiving(r, "check")
        /\ \/ known /\ receiver' = [receiver EXCEPT ![r] = NoReceiver] /\ Calm
           \/ /\ receiver' = [receiver EXCEPT ![r].pc = "connection"]
              /\ IF known THEN Fault ELSE Calm
        /\ OnlyReceiver

(* The goroutine will use the connection as it is read here. *)
ReadConnection(r) ==
    /\ Receiving(r, "connection")
    /\ \/ receiver' = [receiver EXCEPT ![r].pc = "save", ![r].revoked = revoked] /\ Calm
       \/ receiver' = [receiver EXCEPT ![r] = NoReceiver] /\ Fault
    /\ OnlyReceiver

(* A slip to catch: nothing but the comparison stops a repeated delivery.  *)
AlwaysUnique(delivery) == TRUE
(* The unique index on webhook_id and delivery_id, where there is one.     *)
Unique(delivery) == delivery.id # 0 => \A e \in Events : ~Same(events[e].delivery, delivery)

(* SaveGitFlameWebhookEvent, the answer, and the goroutine; a repeated     *)
(* delivery is an error of the store, and so is an event that is stored    *)
(* and whose reply is lost: it has no goroutine.                           *)
SaveEvent(r) ==
    LET d == receiver[r].delivery IN
    /\ Receiving(r, "save")
    /\ \/ /\ Unique(d) /\ Len(events) < MaxEvents
          /\ events' = Append(events, [delivery |-> d, status |-> "received"])
          /\ \/ work' = Append(work, [Gone EXCEPT !.pc = "open", !.revoked = receiver[r].revoked])
                /\ Calm
             \/ work' = Append(work, Gone) /\ Fault
       \/ ~Unique(d) /\ UNCHANGED <<events, work>> /\ Calm
       \/ Fault /\ UNCHANGED <<events, work>>
    /\ receiver' = [receiver EXCEPT ![r] = NoReceiver]
    /\ UNCHANGED <<head, revoked, hookVars, sent, indexed, runVars>>

-----------------------------------------------------------------------------
(* processGitFlameWebhookEvent and processRepositoryChange *)

Working(e, pc) == work[e].pc = pc
Proceed(e, pc) == work' = [work EXCEPT ![e].pc = pc]
Leave(e) == work' = [work EXCEPT ![e] = Gone]
(* What is left to do is to record the status. *)
Conclude(e, status) == work' = [work EXCEPT ![e].pc = "finish", ![e].status = status]
OnlyWork == UNCHANGED <<head, revoked, hookVars, sent, eventVars>>

(* A slip to catch: an unknown event returns before its status is saved. *)
OpenKnown(e) ==
    LET type == events[e].delivery.type IN
    /\ Working(e, "open")
    /\ \/ type = "push" /\ ~work[e].revoked /\ Proceed(e, "status")
       \/ type = "push" /\ work[e].revoked /\ Conclude(e, "failed")
       \/ type = "issue" /\ Conclude(e, "received")
       \/ type = "unknown" /\ Leave(e)
    /\ OnlyWork /\ UNCHANGED <<indexed, runVars, counters>>
Open(e) ==
    LET type == events[e].delivery.type IN
    /\ Working(e, "open")
    /\ \/ type = "push" /\ ~work[e].revoked /\ Proceed(e, "status")
       \/ type = "push" /\ work[e].revoked /\ Conclude(e, "failed")
       \/ type = "issue" /\ Conclude(e, "received")
       \/ type = "unknown" /\ Conclude(e, "ignored")
    /\ OnlyWork /\ UNCHANGED <<indexed, runVars, counters>>

(* synchronizeRepositoryIndex for the commit of the push: nothing to do    *)
(* when CodeRAG has it, and then the files are read for the analysis.      *)
Status(e) ==
    /\ Working(e, "status")
    /\ Proceed(e, IF events[e].delivery.commit \in indexed THEN "reread" ELSE "read")
    /\ OnlyWork /\ UNCHANGED <<indexed, runVars, counters>>

(* A slip to catch: the configuration is not parsed before it is used. *)
ReadUnparsed(e, cfg, pc) ==
    /\ work' = [work EXCEPT ![e].pc = pc, ![e].at = head, ![e].cfg = cfg]
    /\ OnlyWork /\ UNCHANGED <<indexed, runVars, counters>>
(* The files of the branch, under the configuration cfg. *)
ReadFiles(e, cfg, pc) ==
    /\ work' = [work EXCEPT ![e] =
           IF cfg = "bad" THEN [@ EXCEPT !.pc = "finish", !.status = "failed"]
           ELSE [@ EXCEPT !.pc = pc, !.at = head, !.cfg = cfg]]
    /\ OnlyWork /\ UNCHANGED <<indexed, runVars, counters>>
(* For the index the stored configuration comes first. *)
Read(e) ==
    /\ Working(e, "read")
    /\ ReadFiles(e, IF stored = "none" THEN Config[head] ELSE stored, "index")
Reread(e) == Working(e, "reread") /\ ReadFiles(e, Config[head], "save")

(* Index, and the snapshot of what was indexed. *)
Index(e) ==
    /\ Working(e, "index")
    /\ indexed' = indexed \cup {events[e].delivery.commit}
    /\ Proceed(e, "save")
    /\ OnlyWork /\ UNCHANGED <<runVars, counters>>

(* NormalizeRecommendations: one card for a fingerprint; a card without    *)
(* one is known by its content.                                            *)
(* A slip to catch: a missing fingerprint is taken for one.                *)
AnyFingerprint(card) == <<"print", card.print>>
Fingerprint(card) ==
    IF card.print # 0 THEN <<"print", card.print>> ELSE <<"content", card.text>>
AddCard(cards, card) ==
    IF \E i \in DOMAIN cards : cards[i].print = Fingerprint(card) THEN cards
    ELSE Append(cards, [print |-> Fingerprint(card), text |-> card.text, state |-> "open"])
NormalizeRecommendations(cards) == FoldLeft(AddCard, <<>>, cards)

(* AnalyzeRecommendations, where the configuration allows it, and          *)
(* SaveRecommendations: a run, by an event or by a user (0), and the       *)
(* configuration it used.                                                  *)
SaveRecommendations(e, at, cfg) ==
    /\ runs' = Append(runs, [by |-> e, at |-> at, cfg |-> cfg, cards |->
                   NormalizeRecommendations(IF cfg = "on" THEN Findings[at] ELSE <<>>)])
    /\ stored' = cfg

(* A slip to catch: an error of the save is ignored. *)
SaveOrSkip(e) ==
    /\ Working(e, "save")
    /\ SaveRecommendations(e, work[e].at, work[e].cfg) \/ UNCHANGED runVars
    /\ Conclude(e, "received")
    /\ OnlyWork /\ UNCHANGED <<indexed, counters>>
Save(e) ==
    /\ Working(e, "save")
    /\ SaveRecommendations(e, work[e].at, work[e].cfg)
    /\ Conclude(e, "received")
    /\ OnlyWork /\ UNCHANGED <<indexed, counters>>

(* A call fails or the ten minutes are over; CodeRAG may have the files    *)
(* already, and the store the run, when the answer is lost.                *)
FailCall(e) ==
    /\ work[e].pc \in {"status", "read", "reread", "index", "save"}
    /\ \/ UNCHANGED <<indexed, runVars>>
       \/ /\ Working(e, "index") /\ UNCHANGED runVars
          /\ indexed' = indexed \cup {events[e].delivery.commit}
       \/ /\ Working(e, "save") /\ UNCHANGED indexed
          /\ SaveRecommendations(e, work[e].at, work[e].cfg)
    /\ Fault /\ Conclude(e, "failed")
    /\ OnlyWork

(* The status is saved, or the error of that is logged. *)
Finish(e) ==
    /\ Working(e, "finish")
    /\ \/ /\ events' = [events EXCEPT ![e].status =
                 IF work[e].status = "received" THEN "processed" ELSE work[e].status]
          /\ Calm
       \/ Fault /\ UNCHANGED events
    /\ Leave(e)
    /\ UNCHANGED <<head, revoked, hookVars, sent, receiver, indexed, runVars>>

Process(e) ==
    \/ Open(e) \/ Status(e) \/ Read(e) \/ Reread(e) \/ Index(e) \/ Save(e) \/ Finish(e)

-----------------------------------------------------------------------------
(* analyzeRecommendations and the decisions on a card *)

(* The configuration is the request's own.  When it turns recommendations  *)
(* off an empty report is saved at once; otherwise the files were read at  *)
(* some earlier moment, and the index and the recommendation service come  *)
(* in between and end the request when they fail.                          *)
AnalyzeRecommendations ==
    /\ SaveRecommendations(0, 0, "off") \/ \E at \in 1..head : SaveRecommendations(0, at, "on")
    /\ Harmless
    /\ UNCHANGED <<head, revoked, hookVars, sent, eventVars, work, indexed>>

(* updateRecommendation: of any run, whatever the card's status is. *)
UpdateRecommendation(i, c, state) ==
    /\ Harmless
    /\ runs' = [runs EXCEPT ![i].cards[c].state = state]
    /\ UNCHANGED <<head, revoked, hookVars, sent, eventVars, work, indexed, stored>>

-----------------------------------------------------------------------------
(* A restart loses requests and goroutines; the tables stay. *)
Restart ==
    /\ Fault
    /\ admin' = [a \in Admins |-> NoRequest] /\ receiver' = [r \in Receivers |-> NoReceiver]
    /\ work' = [e \in Events |-> Gone]
    /\ UNCHANGED <<head, revoked, hooks, created, answered, newest, salts, disables, sent,
                   events, indexed, runVars>>

Init ==
    /\ head = 1 /\ revoked = FALSE
    /\ hooks = <<>> /\ created = <<>> /\ answered = <<>> /\ newest = 0
    /\ salts = 0 /\ disables = 0
    /\ admin = [a \in Admins |-> NoRequest]
    /\ sent = {} /\ receiver = [r \in Receivers |-> NoReceiver] /\ events = <<>> /\ work = <<>>
    /\ indexed = {} /\ stored = "none" /\ runs = <<>>
    /\ incidents = 0 /\ faulty = FALSE

Next ==
    \/ \E a \in Admins : \/ BeginCreate(a) \/ BeginDisable(a) \/ Create(a) \/ Disable(a)
                         \/ Answer(a) \/ FailRequest(a)
    \/ Push \/ Elsewhere
    \/ \E type \in Types, h \in Hooks : Deliver(type, h)
    \/ \E r \in Receivers : Receive(r) \/ Check(r) \/ ReadConnection(r) \/ SaveEvent(r)
    \/ \E e \in Events : Process(e) \/ FailCall(e)
    \/ AnalyzeRecommendations
    \/ \E i \in DOMAIN runs : \E c \in DOMAIN runs[i].cards, state \in {"closed", "deleted"} :
          UpdateRecommendation(i, c, state)
    \/ Restart

Spec == Init /\ [][Next]_vars

(* While goroutines have something to do, one of them goes on.  Each has a *)
(* few steps and starts no other, so all of them end.                      *)
FairSpec == Spec /\ WF_vars(\E e \in Events : Process(e))

-----------------------------------------------------------------------------
(* Properties *)

Delivery == [type : Types, hook : Nat, commit : 0..MaxHead, id : Nat]
Job == [pc : {"open", "status", "read", "reread", "index", "save", "finish", "gone"},
        revoked : BOOLEAN, at : 0..MaxHead, cfg : {"none", "on", "off"},
        status : {"received", "failed", "ignored"}]
SavedCard == [print : {"print", "content"} \X Nat, text : Nat, state : {"open", "closed", "deleted"}]
Run == [by : Nat, at : 0..MaxHead, cfg : {"on", "off"}, cards : Seq(SavedCard)]

(* Every variable has its type; a configuration that does not parse is     *)
(* never stored (postgres.go:500, config.go:14), and a card has one of the *)
(* states of the schema.                                                   *)
TypeOK ==
    /\ head \in Commits /\ revoked \in BOOLEAN
    /\ hooks \in Seq([secret : Nat, status : {"active", "disabled"}])
    /\ created \in Seq(Nat) /\ Len(created) = Len(hooks)
    /\ answered \in Seq(SUBSET Nat) /\ Len(answered) = Len(hooks)
    /\ newest \in 0..Len(hooks) /\ salts \in 0..MaxSecrets /\ disables \in 0..MaxDisables
    /\ admin \in [Admins -> [pc : {"idle", "create", "answer", "disable"}, hook : 0..Len(hooks),
                             secret : Nat]]
    /\ sent \subseteq [type : Types, hook : Hooks, commit : Commits, id : Nat]
    /\ receiver \in [Receivers -> [pc : {"idle", "check", "connection", "save"},
                                   delivery : Delivery, revoked : BOOLEAN]]
    /\ events \in Seq([delivery : Delivery, status : {"received", "processed", "failed", "ignored"}])
    /\ work \in Seq(Job) /\ Len(work) = Len(events)
    /\ indexed \subseteq Commits /\ stored \in {"none", "on", "off"}
    /\ runs \in Seq(Run)
    /\ incidents \in 0..MaxIncidents /\ faulty \in BOOLEAN

(* However often and however fast GitFlame repeats a delivery that has an  *)
(* id, one event is stored and one goroutine processes it (webhooks.go:156 *)
(* -188, initial_schema.sql:422).                                          *)
ProcessedOnce ==
    \A e, f \in Events :
        Same(events[e].delivery, events[f].delivery) /\ events[e].delivery.id # 0 => e = f

(* A status tells the truth: an event has at most one report, a push that  *)
(* counts as processed has one, made from files at least as new as that    *)
(* push, and nothing but a push has any (webhooks.go:191-291).             *)
StatusIsTrue ==
    \A e \in Events :
        LET own == {i \in DOMAIN runs : runs[i].by = e}
            delivery == events[e].delivery
        IN  /\ \A i, j \in own : i = j
            /\ delivery.type = "push" /\ events[e].status = "processed" => own # {}
            /\ own # {} => delivery.type = "push" /\ events[e].status # "ignored"
            /\ \A i \in own : runs[i].at >= delivery.commit

(* While a registration is active it expects the secret of the newest      *)
(* create, though creates race each other and a disable writes back what   *)
(* it has read (webhooks.go:49-64 and 93-99); and the user was given that  *)
(* secret, or its answer is on its way (webhooks.go:62-70), unless a call  *)
(* failed or the backend restarted: then the registration may be active    *)
(* with a secret nobody was given.  Two answers may come in either order,  *)
(* so the secret the user was given last is not always the one expected.   *)
ActiveSecretIsNewest ==
    \A h \in Hooks : hooks[h].status = "active" =>
        /\ hooks[h].secret = created[h]
        /\ \/ created[h] \in answered[h]
           \/ \E a \in Admins : admin[a] = [pc |-> "answer", hook |-> h, secret |-> created[h]]
           \/ faulty

(* "One analysis run contains at most one card for a deterministic         *)
(* analyzer finding" (recommendations.go:12), and it loses none of them,   *)
(* with fingerprints and without.                                          *)
RunHasEachFinding ==
    \A i \in DOMAIN runs :
        LET cards == runs[i].cards IN
        /\ \A c, d \in DOMAIN cards : cards[c].print = cards[d].print => c = d
        /\ runs[i].cfg = "on" => \A k \in DOMAIN Findings[runs[i].at] :
               LET found == Findings[runs[i].at][k] IN
               \E c \in DOMAIN cards :
                   \/ cards[c].text = found.text
                   \/ found.print # 0 /\ cards[c].print = <<"print", found.print>>

(* Every event that is stored leaves the status received, unless a call    *)
(* failed or the backend restarted meanwhile (webhooks.go:186-220).        *)
EventSettles ==
    \A e \in 1..MaxEvents :
        LET Received == e \in Events /\ events[e].status = "received"
        IN  []<>(~Received \/ faulty)

=============================================================================
