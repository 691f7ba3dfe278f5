----------------------------- MODULE DeviceFlow ------------------------------
(***************************************************************************)
(* A device asks for credentials, a person approves, the device polls.     *)
(*                                                                         *)
(* The device was told a device code and a user code and polls with the    *)
(* one; somebody who is logged in approves with the other; the device may  *)
(* cancel.  Each request reads the row of the flow and writes it later,    *)
(* without a lock or a version.  Doctrine writes the columns that differ   *)
(* from what the request read, and nothing if the row is gone.             *)
(*                                                                         *)
(* Time is relative: since is the age of last_polled_at, and both it and   *)
(* the age of a request's own clock count up to the interval, from which   *)
(* on the code makes no difference.                                        *)
(***************************************************************************)
EXTENDS Naturals, FiniteSets

CONSTANTS
    Slot,         \* requests under way at once
    Client,       \* the clients that can be provisioned
    Interval,     \* interval_seconds
    NULL,         \* no row, no request, no client
    MaxEvents     \* bound: requests that die

VARIABLES
    flow,         \* the row in auth_device_flow
    expired,      \* whether expires_at has passed
    registry,     \* the clients in auth_client_registry
    req,          \* what each slot is doing
    given,        \* history: how often a poll was answered with each client's secret
    shared,       \* history: clients whom two polls read before either deleted the row
    lost,         \* history: clients whose secret was lost with a request
    denied,       \* history: a cancel was saved while nobody approved or delivered
    events        \* how many events of MaxEvents have happened

vars == <<flow, expired, registry, req, given, shared, lost, denied, events>>

-----------------------------------------------------------------------------
\* Types

DeviceFlowStatus == {"PENDING", "APPROVED", "DENIED", "EXPIRED"}

Age == 0..Interval

\* creds: approved_client_id and approved_secret_key
Row == [status: DeviceFlowStatus, creds: Client \cup {NULL}, since: Age]

\* A request that has read the row: what it does next, what it read (of what it may
\* overwrite), the age of its clock, and the client it made or delivers.
Request == [op: {"poll", "approve", "cancel"},
            do: {"saveExpired", "savePolled", "delete", "provision", "saveApproved",
                 "saveDenied", "answer"},
            status: DeviceFlowStatus, creds: Client \cup {NULL}, age: Age,
            client: Client \cup {NULL}]

ASSUME DeviceFlowAssumption ==
    /\ Interval \in Nat \ {0} /\ MaxEvents \in Nat
    /\ NULL \notin Client /\ NULL \notin Row /\ NULL \notin Request

\* With what chk_auth_device_flow_approved_status asks of the row.
TypeOK ==
    /\ flow \in Row \cup {NULL}
    /\ flow # NULL /\ flow.status = "APPROVED" => flow.creds # NULL
    /\ expired \in BOOLEAN
    /\ registry \in SUBSET Client
    /\ req \in [Slot -> Request \cup {NULL}]
    /\ given \in [Client -> 0..2]
    /\ shared \in SUBSET Client
    /\ lost \in SUBSET Client
    /\ denied \in BOOLEAN
    /\ events \in 0..MaxEvents

\* startDeviceFlow; last_polled_at is 0, which throttles nobody.
Init ==
    /\ flow = [status |-> "PENDING", creds |-> NULL, since |-> Interval]
    /\ expired = FALSE
    /\ registry = {}
    /\ req = [s \in Slot |-> NULL]
    /\ given = [c \in Client |-> 0]
    /\ shared = {}
    /\ lost = {}
    /\ denied = FALSE
    /\ events = 0

-----------------------------------------------------------------------------
\* Helpers

history == <<given, shared, lost, denied>>

\* A request finds the row, refreshed.  A request that finds none, or that is answered
\* from the row alone, changes nothing: a throttled poll, the approval of a flow that is
\* approved or denied, the cancelling of an expired one.
Begin(s, op, do, client) ==
    /\ req[s] = NULL
    /\ flow # NULL
    /\ req' = [req EXCEPT ![s] =
                 [op |-> op, do |-> do, status |-> flow.status, creds |-> flow.creds,
                  age |-> 0, client |-> client]]

Does(s, do) == req[s] # NULL /\ req[s].do = do

Then(s, do) == req' = [req EXCEPT ![s].do = do]

\* The UPDATE of a flow that may be gone.
Update(row) == flow' = IF flow = NULL THEN NULL ELSE row

saveStatus(s, status) ==
    Update([flow EXCEPT !.status = IF req[s].status = status THEN @ ELSE status])

Throttled == flow.since < Interval

Event == events < MaxEvents /\ events' = events + 1

-----------------------------------------------------------------------------
\* pollDeviceFlow

PollExpired(s) ==
    /\ expired
    /\ Begin(s, "poll", "saveExpired", NULL)
    /\ UNCHANGED <<flow, expired, registry, history, events>>

\* Mutant: a poll that comes too early is noted all the same.
PollPending_Early(s) ==
    /\ ~expired
    /\ Begin(s, "poll", "savePolled", NULL)
    /\ flow.status # "APPROVED" \/ Throttled
    /\ UNCHANGED <<flow, expired, registry, history, events>>

PollPending(s) ==
    /\ ~expired
    /\ Begin(s, "poll", "savePolled", NULL)
    /\ ~Throttled
    /\ flow.status # "APPROVED"
    /\ UNCHANGED <<flow, expired, registry, history, events>>

PollApproved(s) ==
    /\ ~expired
    /\ Begin(s, "poll", "delete", flow.creds)
    /\ ~Throttled
    /\ flow.status = "APPROVED"
    /\ shared' = IF \E r \in Slot : Does(r, "delete") THEN shared \cup {flow.creds} ELSE shared
    /\ UNCHANGED <<flow, expired, registry, given, lost, denied, events>>

\* Poll and approval of an expired flow.
saveExpired(s) ==
    /\ Does(s, "saveExpired")
    /\ saveStatus(s, "EXPIRED")
    /\ Then(s, "answer")
    /\ UNCHANGED <<expired, registry, history, events>>

\* Nothing but last_polled_at differs from what was read.
savePolled(s) ==
    /\ Does(s, "savePolled")
    /\ Update([flow EXCEPT !.since = req[s].age])
    /\ Then(s, "answer")
    /\ UNCHANGED <<expired, registry, history, events>>

\* Mutant: the row is kept for a poll that may come again.
delete_Keep(s) ==
    /\ Does(s, "delete")
    /\ Then(s, "answer")
    /\ UNCHANGED <<flow, expired, registry, history, events>>

\* What somebody else has put into the row since a request read it.
Unread(s) == IF flow = NULL \/ flow.creds \in {NULL, req[s].creds} THEN {} ELSE {flow.creds}

\* The row is deleted before the secret is on its way, whatever is in it by then.
delete(s) ==
    /\ Does(s, "delete")
    /\ flow' = NULL
    /\ lost' = lost \cup Unread(s)
    /\ Then(s, "answer")
    /\ UNCHANGED <<expired, registry, given, shared, denied, events>>

-----------------------------------------------------------------------------
\* approveDeviceFlow

\* Mutant: a person may approve what is denied.
Approve_Denied(s) ==
    /\ Begin(s, "approve", IF expired THEN "saveExpired" ELSE "provision", NULL)
    /\ expired \/ flow.status \in {"PENDING", "DENIED"}
    /\ UNCHANGED <<flow, expired, registry, history, events>>

\* Mutant: approving twice provisions twice.
Approve_Again(s) ==
    /\ Begin(s, "approve", IF expired THEN "saveExpired" ELSE "provision", NULL)
    /\ expired \/ flow.status \in {"PENDING", "APPROVED"}
    /\ UNCHANGED <<flow, expired, registry, history, events>>

Approve(s) ==
    /\ Begin(s, "approve", IF expired THEN "saveExpired" ELSE "provision", NULL)
    /\ expired \/ flow.status = "PENDING"
    /\ UNCHANGED <<flow, expired, registry, history, events>>

\* provisionClient
provision(s) ==
    /\ Does(s, "provision")
    /\ \E client \in Client \ registry :
         /\ registry' = registry \cup {client}
         /\ req' = [req EXCEPT ![s].do = "saveApproved", ![s].client = client]
    /\ UNCHANGED <<flow, expired, history, events>>

\* Mutant: a poll is told of the approval before it can be told the secret.
saveApproved_Status(s) ==
    /\ Does(s, "saveApproved")
    /\ Update([flow EXCEPT !.status = "APPROVED"])
    /\ Then(s, "answer")
    /\ UNCHANGED <<expired, registry, history, events>>

\* status, approved_client_id and approved_secret_key.
saveApproved(s) ==
    /\ Does(s, "saveApproved")
    /\ Update([flow EXCEPT !.status = "APPROVED", !.creds = req[s].client])
    /\ lost' = lost \cup IF flow = NULL THEN {req[s].client} ELSE Unread(s)
    /\ Then(s, "answer")
    /\ UNCHANGED <<expired, registry, given, shared, denied, events>>

-----------------------------------------------------------------------------
\* cancelDeviceFlow, which asks for no status

Cancel(s) ==
    /\ ~expired
    /\ Begin(s, "cancel", "saveDenied", NULL)
    /\ UNCHANGED <<flow, expired, registry, history, events>>

\* Nobody else is about to make of the flow anything but what the cancel makes of it.
Settled(s) ==
    \A r \in Slot \ {s} : req[r] # NULL =>
        /\ req[r].do \notin {"provision", "saveApproved", "delete"}
        /\ req[r].op = "poll" => req[r].client = NULL

saveDenied(s) ==
    /\ Does(s, "saveDenied")
    /\ saveStatus(s, "DENIED")
    /\ denied' = (denied \/ (Settled(s) /\ req[s].status # "DENIED"))
    /\ Then(s, "answer")
    /\ UNCHANGED <<expired, registry, given, shared, lost, events>>

-----------------------------------------------------------------------------
\* Answers, lost answers, time

answer(s) ==
    /\ Does(s, "answer")
    /\ given' = IF req[s].op = "poll" /\ req[s].client # NULL /\ given[req[s].client] < 2
                THEN [given EXCEPT ![req[s].client] = @ + 1] ELSE given
    /\ req' = [req EXCEPT ![s] = NULL]
    /\ UNCHANGED <<flow, expired, registry, shared, lost, denied, events>>

\* The process dies, or its answer does not arrive.
Crash(s) ==
    /\ req[s] # NULL
    /\ Event
    /\ lost' = IF req[s].do \in {"saveApproved", "answer"} /\ req[s].client # NULL
                  /\ (req[s].op = "poll" \/ req[s].do = "saveApproved")
               THEN lost \cup {req[s].client} ELSE lost
    /\ req' = [req EXCEPT ![s] = NULL]
    /\ UNCHANGED <<flow, expired, registry, given, shared, denied>>

Older(age) == IF age < Interval THEN age + 1 ELSE age

Elapse ==
    /\ flow' = IF flow = NULL THEN NULL ELSE [flow EXCEPT !.since = Older(@)]
    /\ req' = [s \in Slot |-> IF req[s] = NULL THEN NULL ELSE [req[s] EXCEPT !.age = Older(@)]]
    /\ UNCHANGED <<expired, registry, history, events>>

Expire ==
    /\ ~expired
    /\ expired' = TRUE
    /\ UNCHANGED <<flow, registry, req, history, events>>

-----------------------------------------------------------------------------
Poll(s) == PollExpired(s) \/ PollPending(s) \/ PollApproved(s)

Step(s) ==
    saveExpired(s) \/ savePolled(s) \/ delete(s) \/ provision(s)
        \/ saveApproved(s) \/ saveDenied(s) \/ answer(s)

Next ==
    \/ \E s \in Slot : Poll(s) \/ Approve(s) \/ Cancel(s) \/ Step(s) \/ Crash(s)
    \/ Elapse \/ Expire

\* A request that has begun goes on, time passes, and the device polls again and again:
\* sooner or later at a moment when it is not too early.
Fairness ==
    /\ \A s \in Slot : WF_vars(Step(s))
    /\ WF_vars(Elapse)
    /\ SF_vars(\E s \in Slot : Poll(s))

Spec == Init /\ [][Next]_vars /\ Fairness

-----------------------------------------------------------------------------
\* Properties

\* The secret is shown once: two polls are answered with it only if both read the
\* approved flow before either had deleted it.
OneShotSecret == \A c \in Client : given[c] > 1 => c \in shared

\* No client is made for nothing: its secret stands in the flow, was given to the
\* device, or is in the hands of a request.  It gets lost only with a request that died
\* between provisioning and saving or deleting and answering, and when two approvals
\* that both read the flow as pending both provision: the later one overwrites the other's
\* client, or comes when the row is gone, or is deleted with a row it has changed.
NoOrphanClients ==
    \A c \in registry \ lost :
        \/ flow # NULL /\ flow.creds = c
        \/ given[c] > 0
        \/ \E s \in Slot : req[s] # NULL /\ req[s].client = c

\* A denial holds: once a cancel was saved while nobody was approving or being answered
\* with the secret, no client is made and no secret is given any more.
DenialHolds == [][denied => given' = given /\ registry' = registry]_vars

\* An approved flow is delivered to a device that goes on polling, however early its
\* polls come, unless it is cancelled or expires first.
ApprovedIsDelivered ==
    flow # NULL /\ flow.status = "APPROVED" ~>
        flow = NULL \/ flow.status # "APPROVED" \/ expired
=============================================================================
