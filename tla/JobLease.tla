------------------------------- MODULE JobLease -------------------------------
(***************************************************************************)
(* The lease protocol of the table processing_job.                         *)
(*                                                                         *)
(* Agents poll for jobs, claim one, keep its lease alive with heartbeats   *)
(* and end it with submit or fail.  Every write is one conditional UPDATE  *)
(* of App\Job\Repository\JobLifecycleWriter, atomic in the database; the   *)
(* reply is built from a SECOND statement (JobRepository::find), so other  *)
(* requests run between a request's write and its reply.  A reply may be   *)
(* lost, an agent may crash, and an agent may present at any later time    *)
(* any (lock_token, fencing_token) pair it was ever given: requests are    *)
(* retried, delayed and sent twice.                                        *)
(*                                                                         *)
(* A lock_token is 16 random bytes.  It is modelled by its position in the *)
(* history of claims, which keeps what matters of it: it is never reused.  *)
(***************************************************************************)
EXTENDS Integers, Sequences

CONSTANTS
    Job,              \* rows of processing_job, by (asset_uuid, job_type, state_version)
    Asset,            \* assets
    AssetOf,          \* the asset of each job
    Agent,            \* actor ids
    NULL,             \* the SQL NULL
    Ttl,              \* seconds a claim or a heartbeat keeps a lease (300 in the code)
    MaxTime,          \* bound: the last second of the run
    MaxTokens,        \* bound: claims in a run
    MaxFencing,       \* bound: fencing_token of a lease
    MaxDisruptions    \* bound: lost replies, crashes, retryable failures and locks of a run

ASSUME ConstantsAssumption ==
    /\ AssetOf \in [Job -> Asset]
    /\ NULL \notin Agent
    /\ NULL \notin Int
    /\ Ttl \in Nat \ {0}
    /\ MaxTime \in Nat
    /\ MaxTokens \in Nat
    /\ MaxFencing \in Nat \ {0}
    /\ MaxDisruptions \in Nat

\* App\Lock\OperationLockType
LockType == {"asset_move_lock", "asset_purge_lock"}

\* App\Job\JobStatus, and "absent" while the row was not inserted.
JobStatus == {"absent", "pending", "claimed", "completed", "failed"}

Op == {"claim", "heartbeat", "submit", "fail", "conflict"}

VARIABLES
    now,         \* the clock, in seconds, as each request reads it for its UPDATE
    job,         \* the rows of processing_job
    locks,       \* the active rows of asset_operation_lock, as the types held per asset
    purged,      \* the assets in state PURGED
    grants,      \* history: the claims that succeeded, in order; a lock_token is an index
    ended,       \* history: the lock tokens whose holder submitted or failed the job
    spent,       \* history: the <<lock_token, fencing_token>> pairs an UPDATE has accepted
    tickets,     \* what agents were told: leases, in replies they received
    inflight,    \* the request of each agent between its UPDATE and its reply
    disruptions  \* how many disruptions have happened

jobVars == <<job, grants, ended, spent>>
agentVars == <<tickets, inflight>>
assetVars == <<locks, purged>>
vars == <<now, job, locks, purged, grants, ended, spent, tickets, inflight, disruptions>>

-----------------------------------------------------------------------------
\* Types

Token == 1..MaxTokens
Fencing == 1..MaxFencing
Time == 0..(MaxTime + Ttl)

\* The columns of a row.  result_token stands for result_payload: the lease
\* under which the payload in it was written.
Row == [status       : JobStatus,
        claimed_by   : Agent \cup {NULL},
        lock_token   : Token \cup {NULL},
        fencing_token: Fencing \cup {NULL},
        locked_until : Time \cup {NULL},
        completed_by : Agent \cup {NULL},
        failed_by    : Agent \cup {NULL},
        result_token : Token \cup {NULL}]

\* What an agent was told of a lease.  prompt is history: it was the answer to a claim
\* or a heartbeat, and came before the lease that was asked for had run out.
Ticket == [agent: Agent, job: Job, token: Token, fencing: Fencing, until: Time,
           prompt: BOOLEAN]

\* token is what the agent sent or, for a claim, what was granted; until is what the
\* UPDATE of a claim or a heartbeat wrote into locked_until.
Request == [op: Op, job: Job, token: Token, until: Time \cup {NULL}]

Grant == [agent: Agent, job: Job]

TypeOK ==
    /\ now \in 0..MaxTime
    /\ job \in [Job -> Row]
    /\ locks \in [Asset -> SUBSET LockType]
    /\ purged \in SUBSET Asset
    /\ grants \in Seq(Grant)
    /\ Len(grants) <= MaxTokens
    /\ ended \in SUBSET Token
    /\ spent \in SUBSET (Token \X Fencing)
    /\ tickets \in SUBSET Ticket
    /\ inflight \in [Agent -> Request \cup {NULL}]
    /\ disruptions \in 0..MaxDisruptions

-----------------------------------------------------------------------------
\* Rows and guards

AbsentRow == [status |-> "absent", claimed_by |-> NULL, lock_token |-> NULL,
              fencing_token |-> NULL, locked_until |-> NULL, completed_by |-> NULL,
              failed_by |-> NULL, result_token |-> NULL]

\* The row JobQueueWriter inserts.
PendingRow == [AbsentRow EXCEPT !.status = "pending"]

\* Mutant: a lease ends a second early for those who wait for the job.
Expired_Early(row) == row.status = "claimed" /\ row.locked_until <= now

\* A claimed row whose lease ran out: locked_until < now.
Expired(row) == row.status = "claimed" /\ row.locked_until < now

\* Mutants: a claim takes over leases that are still running; no claim takes over a
\* lease at all.
Claimable_AnyClaimed(j) ==
    /\ job[j].status \in {"pending", "claimed"}
    /\ AssetOf[j] \notin purged
    /\ locks[AssetOf[j]] = {}

Claimable_PendingOnly(j) ==
    /\ job[j].status = "pending"
    /\ AssetOf[j] \notin purged
    /\ locks[AssetOf[j]] = {}

\* The WHERE clause of the claim, and of the list agents poll.  (It excludes assets
\* in MOVE_QUEUED too, a state a move passes through in memory and never saves.)
Claimable(j) ==
    /\ \/ job[j].status = "pending"
       \/ Expired(job[j])
    /\ AssetOf[j] \notin purged
    /\ locks[AssetOf[j]] = {}

\* Mutant: an agent that claims its lapsed lease again finds its lock token in it.
ClaimedRow_SameToken(row, a, token) ==
    [row EXCEPT !.status = "claimed", !.claimed_by = a,
                !.lock_token = IF row.claimed_by = a THEN @ ELSE token,
                !.fencing_token = 1, !.locked_until = now + Ttl,
                !.completed_by = NULL, !.failed_by = NULL]

\* The row a claim by agent a writes; token is the fresh lock_token.
ClaimedRow(row, a, token) ==
    [row EXCEPT !.status = "claimed", !.claimed_by = a, !.lock_token = token,
                !.fencing_token = 1, !.locked_until = now + Ttl,
                !.completed_by = NULL, !.failed_by = NULL]

\* Mutant: the lock token is not compared.
Accepts_AnyToken(t) ==
    LET row == job[t.job] IN
    /\ row.status = "claimed"
    /\ row.claimed_by = t.agent
    /\ row.fencing_token = t.fencing
    /\ row.locked_until >= now

\* The WHERE clause of heartbeat, submit and fail for ticket t.
Accepts(t) ==
    LET row == job[t.job] IN
    /\ row.status = "claimed"
    /\ row.claimed_by = t.agent
    /\ row.lock_token = t.token
    /\ row.fencing_token = t.fencing
    /\ row.locked_until >= now

\* Mutants: the lease is extended from its old end; the fencing token stays.
HeartbeatRow_Accumulates(row) ==
    [row EXCEPT !.locked_until = @ + Ttl, !.fencing_token = @ + 1]

HeartbeatRow_SameFencing(row) == [row EXCEPT !.locked_until = now + Ttl]

HeartbeatRow(row) ==
    [row EXCEPT !.locked_until = now + Ttl, !.fencing_token = @ + 1]

\* Mutant: the fencing token is left behind.
UnlockedRow_KeepsFencing(row, t) ==
    [row EXCEPT !.lock_token = NULL, !.locked_until = NULL, !.result_token = t.token]

\* Submit and fail clear the lock columns.
UnlockedRow(row, t) ==
    [row EXCEPT !.lock_token = NULL, !.fencing_token = NULL, !.locked_until = NULL,
                !.result_token = t.token]

CompletedRow(row, t) ==
    [UnlockedRow(row, t) EXCEPT !.status = "completed", !.claimed_by = NULL,
                                !.completed_by = t.agent, !.failed_by = NULL]

FailedRow(row, t, retryable) ==
    [UnlockedRow(row, t) EXCEPT
        !.status = IF retryable THEN "pending" ELSE "failed",
        !.claimed_by = IF retryable THEN NULL ELSE t.agent,
        !.failed_by = IF retryable THEN NULL ELSE t.agent,
        !.completed_by = NULL]

-----------------------------------------------------------------------------
Init ==
    /\ now = 0
    /\ job = [j \in Job |-> AbsentRow]
    /\ locks = [x \in Asset |-> {}]
    /\ purged = {}
    /\ grants = <<>>
    /\ ended = {}
    /\ spent = {}
    /\ tickets = {}
    /\ inflight = [a \in Agent |-> NULL]
    /\ disruptions = 0

\* JobQueueWriter: the unique index lets one row per key in.
EnqueuePending(j) ==
    /\ job[j].status = "absent"
    /\ job' = [job EXCEPT ![j] = PendingRow]
    /\ UNCHANGED <<now, grants, ended, spent, assetVars, agentVars, disruptions>>

\* Agent a has a request of kind op on job j between its UPDATE and its reply.
Await(a, op, j, token, until) ==
    /\ inflight[a] = NULL
    /\ inflight' = [inflight EXCEPT ![a] =
                        [op |-> op, job |-> j, token |-> token, until |-> until]]

Claim(a, j) ==
    /\ Claimable(j)
    /\ Len(grants) < MaxTokens
    /\ Await(a, "claim", j, Len(grants) + 1, now + Ttl)
    /\ grants' = Append(grants, [agent |-> a, job |-> j])
    /\ job' = [job EXCEPT ![j] = ClaimedRow(@, a, Len(grants) + 1)]
    /\ UNCHANGED <<now, ended, spent, assetVars, tickets, disruptions>>

Heartbeat(t) ==
    /\ Accepts(t)
    /\ t.fencing < MaxFencing
    /\ Await(t.agent, "heartbeat", t.job, t.token, now + Ttl)
    /\ job' = [job EXCEPT ![t.job] = HeartbeatRow(@)]
    /\ spent' = spent \cup {<<t.token, t.fencing>>}
    /\ UNCHANGED <<now, grants, ended, assetVars, tickets, disruptions>>

Submit(t) ==
    /\ Accepts(t)
    /\ Await(t.agent, "submit", t.job, t.token, NULL)
    /\ job' = [job EXCEPT ![t.job] = CompletedRow(@, t)]
    /\ spent' = spent \cup {<<t.token, t.fencing>>}
    /\ ended' = ended \cup {t.token}
    /\ UNCHANGED <<now, grants, assetVars, tickets, disruptions>>

\* A retryable failure counts as a disruption: the job starts over.
Fail(t, retryable) ==
    /\ Accepts(t)
    /\ Await(t.agent, "fail", t.job, t.token, NULL)
    /\ job' = [job EXCEPT ![t.job] = FailedRow(@, t, retryable)]
    /\ spent' = spent \cup {<<t.token, t.fencing>>}
    /\ ended' = ended \cup {t.token}
    /\ IF retryable
       THEN disruptions < MaxDisruptions /\ disruptions' = disruptions + 1
       ELSE UNCHANGED disruptions
    /\ UNCHANGED <<now, grants, assetVars, tickets>>

\* Heartbeat, submit or fail with a ticket whose UPDATE affects no row.
Refused(t) ==
    /\ ~Accepts(t)
    /\ Await(t.agent, "conflict", t.job, t.token, NULL)
    /\ UNCHANGED <<now, jobVars, assetVars, tickets, disruptions>>

\* A claim or a heartbeat is answered while the lease it wrote still runs.
Prompt(r) == r.until # NULL /\ r.until >= now

\* What the agent learns from the row that JobRepository::find reads for the reply,
\* the lease in it, whoever has it by now.  The answer to a heartbeat holds only
\* locked_until and fencing_token: the agent keeps the lock_token it has sent.
Reread(a, r) ==
    LET row == job[r.job] IN
    IF row.status # "claimed" THEN {}
    ELSE {[agent   |-> a,
           job     |-> r.job,
           token   |-> IF r.op = "heartbeat" THEN r.token ELSE row.lock_token,
           fencing |-> row.fencing_token,
           until   |-> row.locked_until,
           prompt  |-> Prompt(r)]}

\* The second read and the reply, received by the agent.  A 409 tells of no lease.
Reply(a) ==
    /\ inflight[a] # NULL
    /\ tickets' = IF inflight[a].op = "conflict" THEN tickets
                  ELSE tickets \cup Reread(a, inflight[a])
    /\ inflight' = [inflight EXCEPT ![a] = NULL]
    /\ UNCHANGED <<now, jobVars, assetVars, disruptions>>

Disrupt ==
    /\ disruptions < MaxDisruptions
    /\ disruptions' = disruptions + 1

\* The reply never reaches the agent, or the server process dies before it.
LoseReply(a) ==
    /\ inflight[a] # NULL
    /\ inflight' = [inflight EXCEPT ![a] = NULL]
    /\ Disrupt
    /\ UNCHANGED <<now, jobVars, assetVars, tickets>>

\* An agent restarts and forgets every lease it held.
AgentCrash(a) ==
    /\ \E t \in tickets : t.agent = a
    /\ tickets' = {t \in tickets : t.agent # a}
    /\ inflight' = [inflight EXCEPT ![a] = NULL]
    /\ Disrupt
    /\ UNCHANGED <<now, jobVars, assetVars>>

\* OperationLockWriter::acquire and ::release, as moves and purges call them.
AcquireLock(x, type) ==
    /\ type \notin locks[x]
    /\ x \notin purged
    /\ locks' = [locks EXCEPT ![x] = @ \cup {type}]
    /\ Disrupt
    /\ UNCHANGED <<now, jobVars, agentVars, purged>>

ReleaseLock(x, type) ==
    /\ type \in locks[x]
    /\ locks' = [locks EXCEPT ![x] = @ \ {type}]
    /\ UNCHANGED <<now, jobVars, agentVars, purged, disruptions>>

\* BatchPurgeCoordinator::purge saves the asset as PURGED under its lock.
PurgeAsset(x) ==
    /\ "asset_purge_lock" \in locks[x]
    /\ x \notin purged
    /\ purged' = purged \cup {x}
    /\ UNCHANGED <<now, jobVars, agentVars, locks, disruptions>>

Tick ==
    /\ now < MaxTime
    /\ now' = now + 1
    /\ UNCHANGED <<jobVars, assetVars, agentVars, disruptions>>

Next ==
    \/ \E j \in Job : EnqueuePending(j)
    \/ \E a \in Agent, j \in Job : Claim(a, j)
    \/ \E t \in tickets : Heartbeat(t)
    \/ \E t \in tickets : Submit(t)
    \/ \E t \in tickets, retryable \in BOOLEAN : Fail(t, retryable)
    \/ \E t \in tickets : Refused(t)
    \/ \E a \in Agent : Reply(a) \/ LoseReply(a) \/ AgentCrash(a)
    \/ \E x \in Asset, type \in LockType : AcquireLock(x, type) \/ ReleaseLock(x, type)
    \/ \E x \in Asset : PurgeAsset(x)
    \/ Tick

Spec == Init /\ [][Next]_vars

-----------------------------------------------------------------------------
\* Properties

\* The CHECK constraints of processing_job: whatever the order of claims,
\* heartbeats, submits and failures, no UPDATE of JobLifecycleWriter leaves a row
\* the database refuses (it would answer 500 and the job would be stuck).
RowConstraints ==
    \A j \in Job :
        LET row == job[j] IN
        /\ row.status = "claimed" <=> row.lock_token # NULL
        /\ row.status = "claimed" <=> row.fencing_token # NULL
        /\ row.status = "claimed" <=> row.locked_until # NULL
        /\ row.status \in {"claimed", "failed"} <=> row.claimed_by # NULL
        /\ row.status = "completed" <=> row.completed_by # NULL
        /\ row.status = "failed" <=> row.failed_by # NULL

\* A job never seems to be in two hands: neither two agents, nor one agent with two
\* tokens, were told of leases that are still running by what they were told, unless
\* one of them was given up by submit or fail.  A second lease is granted only when
\* the holder of the first can see for itself that its time has run out, however the
\* steps of claims, heartbeats and their answers interleave - provided the answers are
\* prompt: one that comes when the lease has run out is built from a row that may be
\* somebody else's, and lends its expiry to the old token.
LeaseExclusion ==
    \A t, u \in tickets :
        /\ t.job = u.job
        /\ t.agent # u.agent \/ t.token # u.token
        /\ t.prompt /\ u.prompt
        /\ t.until >= now /\ u.until >= now
        => t.token \in ended \/ u.token \in ended

\* A (lock_token, fencing_token) pair works once: a heartbeat, submit or fail
\* that is sent twice, or arrives late, changes nothing the second time.
NoReplay ==
    \A t \in tickets : Accepts(t) => <<t.token, t.fencing>> \notin spent

\* A refusal is final: a ticket with which a heartbeat, submit or fail is refused works
\* never again, whoever claims the job next, the same agent included.  An agent that
\* reads 409 can drop the lease and its work.
RefusalsAreFinal == [][\A t \in tickets : ~Accepts(t) => ~Accepts(t)']_vars

\* The result stored in a finished job was produced under the last lease ever
\* granted on it, by the agent that held that lease: a worker that was replaced
\* never overwrites the work of the one that replaced it.
ResultFromLastLease ==
    \A j \in Job :
        job[j].status \in {"completed", "failed"} =>
            LET token == job[j].result_token IN
            /\ token \in DOMAIN grants
            /\ grants[token].job = j
            /\ grants[token].agent \in {job[j].completed_by, job[j].failed_by}
            /\ \A i \in DOMAIN grants : grants[i].job = j => i <= token

\* The inductive core of the properties above: what ties the rows, the history of
\* claims, the tickets and the requests under way together.
GrantInv ==
    /\ \A j \in Job : job[j].status = "claimed" =>
          LET token == job[j].lock_token IN
          /\ token \in DOMAIN grants
          /\ grants[token] = [agent |-> job[j].claimed_by, job |-> j]
          /\ token \notin ended
          /\ job[j].locked_until <= now + Ttl
          /\ \A i \in DOMAIN grants : grants[i].job = j => i <= token
    /\ ended \subseteq DOMAIN grants

LeaseIs(j, token) == job[j].status = "claimed" /\ job[j].lock_token = token

\* What is known of every ticket, and of those that came promptly.
TruthOf(t) ==
    /\ t.token \in DOMAIN grants
    /\ grants[t.token].job = t.job
    /\ LeaseIs(t.job, t.token) => /\ t.fencing <= job[t.job].fencing_token
                                  /\ t.until <= job[t.job].locked_until
    /\ t.prompt => /\ grants[t.token].agent = t.agent
                   /\ t.token \notin ended => LeaseIs(t.job, t.token) \/ t.until < now

TicketInv == \A t \in tickets : TruthOf(t)

\* While a claim or heartbeat waits for its answer, the lease it wrote stays with the
\* agent until it runs out: the agent, with one request at a time, cannot end it.
HeldFor(a, r) ==
    /\ r.token \in DOMAIN grants
    /\ grants[r.token].job = r.job
    /\ r.until # NULL => grants[r.token].agent = a /\ r.token \notin ended
    /\ Prompt(r) => LeaseIs(r.job, r.token) /\ r.until <= job[r.job].locked_until

InflightInv == \A a \in Agent : inflight[a] # NULL => HeldFor(a, inflight[a])

SpentInv ==
    \A p \in spent :
        /\ p[1] \in DOMAIN grants
        /\ \A j \in Job :
              job[j].status = "claimed" /\ job[j].lock_token = p[1] =>
                  p[2] < job[j].fencing_token

LeaseInv == GrantInv /\ TicketInv /\ InflightInv /\ SpentInv

\* The protocol keeps the promise of ExclusiveWork: at most one holder at a time,
\* handed over only after a lapse or a return, finished once by the live holder.
\* Tokens, fencing, replies, retries and crashes are its means, and stutter there.
Work == INSTANCE ExclusiveWork WITH
    Attempt <- Token,
    phase   <- [j \in Job |-> job[j].status],
    holder  <- [j \in Job |-> IF job[j].status = "claimed" THEN job[j].claimed_by ELSE NULL],
    attempt <- [j \in Job |-> job[j].lock_token],
    lapsed  <- {j \in Job : Expired(job[j])},
    issued  <- DOMAIN grants,
    result  <- [j \in Job |-> job[j].result_token]

WorkSpec == Work!Spec
=============================================================================
