--------------------------- MODULE JobLeaseProofs ---------------------------
(***************************************************************************)
(* Proofs about JobLease, for every set of jobs, agents and assets and     *)
(* every value of the bounds.                                              *)
(***************************************************************************)
EXTENDS JobLease, TLAPS

Coherent == TypeOK /\ RowConstraints

\* What RowConstraints says of one row.
RowCoherent(row) ==
    /\ row.status = "claimed" <=> row.lock_token # NULL
    /\ row.status = "claimed" <=> row.fencing_token # NULL
    /\ row.status = "claimed" <=> row.locked_until # NULL
    /\ row.status \in {"claimed", "failed"} <=> row.claimed_by # NULL
    /\ row.status = "completed" <=> row.completed_by # NULL
    /\ row.status = "failed" <=> row.failed_by # NULL

LEMMA NullIsNoValue ==
    NULL \notin Token /\ NULL \notin Fencing /\ NULL \notin Time /\ NULL \notin Agent
  BY ConstantsAssumption DEF Token, Fencing, Time

\* The rows that claim, heartbeat, submit and fail write are well typed and meet
\* the CHECK constraints.
LEMMA ClaimedRowOK ==
    ASSUME NEW row \in Row, RowCoherent(row), NEW a \in Agent, NEW token \in Token,
           now \in 0..MaxTime
    PROVE  ClaimedRow(row, a, token) \in Row /\ RowCoherent(ClaimedRow(row, a, token))
<1>1. now + Ttl \in Time /\ 1 \in Fencing
  BY ConstantsAssumption DEF Time, Fencing
<1>2. ClaimedRow(row, a, token) \in Row
  BY <1>1 DEF Row, ClaimedRow, JobStatus
<1>3. RowCoherent(ClaimedRow(row, a, token))
  BY <1>1, NullIsNoValue DEF Row, RowCoherent, ClaimedRow
<1>4. QED
  BY <1>2, <1>3

LEMMA HeartbeatRowOK ==
    ASSUME NEW row \in Row, RowCoherent(row), row.status = "claimed",
           row.fencing_token < MaxFencing, now \in 0..MaxTime
    PROVE  HeartbeatRow(row) \in Row /\ RowCoherent(HeartbeatRow(row))
<1>1. row.fencing_token \in Fencing
  BY ConstantsAssumption DEF Row, RowCoherent
<1>2. row.fencing_token + 1 \in Fencing
  BY <1>1, ConstantsAssumption DEF Fencing
<1>3. now + Ttl \in Time
  BY ConstantsAssumption DEF Time
<1>4. HeartbeatRow(row) \in Row
  BY <1>2, <1>3 DEF Row, HeartbeatRow
<1>5. RowCoherent(HeartbeatRow(row))
  BY <1>2, <1>3, NullIsNoValue DEF Row, RowCoherent, HeartbeatRow
<1>6. QED
  BY <1>4, <1>5

LEMMA CompletedRowOK ==
    ASSUME NEW row \in Row, RowCoherent(row), row.status = "claimed", NEW t \in Ticket
    PROVE  CompletedRow(row, t) \in Row /\ RowCoherent(CompletedRow(row, t))
  BY ConstantsAssumption
     DEF Row, RowCoherent, UnlockedRow, CompletedRow, JobStatus, Token, Fencing, Time, Ticket

LEMMA FailedRowOK ==
    ASSUME NEW row \in Row, RowCoherent(row), row.status = "claimed", NEW t \in Ticket,
           NEW retryable \in BOOLEAN
    PROVE  /\ FailedRow(row, t, retryable) \in Row
           /\ RowCoherent(FailedRow(row, t, retryable))
  BY ConstantsAssumption
     DEF Row, RowCoherent, UnlockedRow, FailedRow, JobStatus, Token, Fencing, Time, Ticket

LEMMA PendingRowOK == PendingRow \in Row /\ RowCoherent(PendingRow)
                      /\ AbsentRow \in Row /\ RowCoherent(AbsentRow)
  BY ConstantsAssumption
     DEF Row, RowCoherent, PendingRow, AbsentRow, JobStatus

\* An UPDATE of one row keeps the table well typed and within its constraints.
LEMMA UpdateOK ==
    ASSUME Coherent, NEW j \in Job, NEW row \in Row, RowCoherent(row),
           job' = [job EXCEPT ![j] = row]
    PROVE  job' \in [Job -> Row] /\ RowConstraints'
  BY DEF Coherent, TypeOK, RowConstraints, RowCoherent

LEMMA RowIsCoherent ==
    ASSUME Coherent, NEW j \in Job
    PROVE  job[j] \in Row /\ RowCoherent(job[j])
  BY DEF Coherent, TypeOK, RowConstraints, RowCoherent

-----------------------------------------------------------------------------
\* Type correctness and the CHECK constraints

THEOREM CoherentInit == Init => Coherent
<1> SUFFICES ASSUME Init PROVE Coherent
  OBVIOUS
<1>1. job \in [Job -> Row]
  BY PendingRowOK DEF Init
<1>2. RowConstraints
  BY PendingRowOK DEF Init, RowConstraints, RowCoherent
<1>3. now \in 0..MaxTime /\ disruptions \in 0..MaxDisruptions /\ Len(grants) <= MaxTokens
  BY ConstantsAssumption DEF Init
<1>4. grants \in Seq(Grant)
  BY DEF Init
<1>5. QED
  BY <1>1, <1>2, <1>3, <1>4 DEF Init, Coherent, TypeOK

\* Awaiting a reply keeps the requests in flight well typed.
LEMMA AwaitOK ==
    ASSUME TypeOK, NEW a \in Agent, NEW op \in Op, NEW j \in Job, NEW token \in Token,
           NEW until \in Time \cup {NULL}, Await(a, op, j, token, until)
    PROVE  inflight' \in [Agent -> Request \cup {NULL}]
  BY DEF TypeOK, Await, Request

LEMMA RereadOK ==
    ASSUME Coherent, NEW a \in Agent, NEW r \in Request
    PROVE  Reread(a, r) \in SUBSET Ticket
<1>1. r.job \in Job /\ r.token \in Token
  BY DEF Request
<1>2. job[r.job] \in Row /\ RowCoherent(job[r.job])
  BY <1>1, RowIsCoherent
<1>3. Prompt(r) \in BOOLEAN
  BY DEF Prompt
<1>4. CASE job[r.job].status = "claimed"
  <2>1. /\ job[r.job].lock_token \in Token
        /\ job[r.job].fencing_token \in Fencing
        /\ job[r.job].locked_until \in Time
    BY <1>2, <1>4 DEF Row, RowCoherent
  <2>2. (IF r.op = "heartbeat" THEN r.token ELSE job[r.job].lock_token) \in Token
    BY <1>1, <2>1
  <2>3. QED
    BY <1>1, <1>3, <2>1, <2>2 DEF Reread, Ticket
<1>5. CASE job[r.job].status # "claimed"
  BY <1>5 DEF Reread
<1>6. QED
  BY <1>4, <1>5

LEMMA LeaseEndOK ==
    ASSUME TypeOK
    PROVE  now + Ttl \in Time \cup {NULL} /\ NULL \in Time \cup {NULL}
  BY ConstantsAssumption DEF TypeOK, Time

THEOREM CoherentStep == Coherent /\ [Next]_vars => Coherent'
<1> SUFFICES ASSUME Coherent, [Next]_vars PROVE Coherent'
  OBVIOUS
<1> USE DEF Coherent
<1>0. TypeOK
  OBVIOUS
<1>1. ASSUME NEW j \in Job, EnqueuePending(j) PROVE Coherent'
  <2>1. job' \in [Job -> Row] /\ RowConstraints'
    BY <1>1, UpdateOK, PendingRowOK DEF EnqueuePending
  <2>2. QED
    BY <1>1, <2>1 DEF EnqueuePending, TypeOK, assetVars, agentVars
<1>2. ASSUME NEW a \in Agent, NEW j \in Job, Claim(a, j) PROVE Coherent'
  <2>1. Len(grants) + 1 \in Token
    BY <1>0, <1>2, ConstantsAssumption DEF Claim, TypeOK, Token
  <2>2. job' \in [Job -> Row] /\ RowConstraints'
    BY <1>0, <1>2, <2>1, RowIsCoherent, ClaimedRowOK, UpdateOK DEF Claim, TypeOK
  <2>3. inflight' \in [Agent -> Request \cup {NULL}]
    BY <1>0, <1>2, <2>1, AwaitOK, LeaseEndOK DEF Claim, Op
  <2>4. grants' \in Seq(Grant) /\ Len(grants') <= MaxTokens
    BY <1>0, <1>2, ConstantsAssumption DEF Claim, TypeOK, Grant
  <2>5. QED
    BY <1>0, <1>2, <2>2, <2>3, <2>4 DEF Claim, TypeOK, assetVars
<1>3. ASSUME NEW t \in tickets, Heartbeat(t) PROVE Coherent'
  <2>1. t \in Ticket
    BY <1>0 DEF TypeOK
  <2>2. t.agent \in Agent /\ t.job \in Job /\ t.token \in Token /\ t.fencing \in Fencing
    BY <2>1 DEF Ticket
  <2>3. job' \in [Job -> Row] /\ RowConstraints'
    BY <1>0, <1>3, <2>2, RowIsCoherent, HeartbeatRowOK, UpdateOK DEF Heartbeat, Accepts, TypeOK
  <2>4. inflight' \in [Agent -> Request \cup {NULL}]
    BY <1>0, <1>3, <2>2, AwaitOK, LeaseEndOK DEF Heartbeat, Op
  <2>5. spent' \in SUBSET (Token \X Fencing)
    BY <1>0, <1>3, <2>2 DEF Heartbeat, TypeOK
  <2>6. QED
    BY <1>0, <1>3, <2>3, <2>4, <2>5 DEF Heartbeat, TypeOK, assetVars
<1>4. ASSUME NEW t \in tickets, Submit(t) PROVE Coherent'
  <2>1. t \in Ticket
    BY <1>0 DEF TypeOK
  <2>2. t.agent \in Agent /\ t.job \in Job /\ t.token \in Token /\ t.fencing \in Fencing
    BY <2>1 DEF Ticket
  <2>3. job' \in [Job -> Row] /\ RowConstraints'
    BY <1>4, <2>1, <2>2, RowIsCoherent, CompletedRowOK, UpdateOK DEF Submit, Accepts
  <2>4. inflight' \in [Agent -> Request \cup {NULL}]
    BY <1>0, <1>4, <2>2, AwaitOK, LeaseEndOK DEF Submit, Op
  <2>5. spent' \in SUBSET (Token \X Fencing) /\ ended' \in SUBSET Token
    BY <1>0, <1>4, <2>2 DEF Submit, TypeOK
  <2>6. QED
    BY <1>0, <1>4, <2>3, <2>4, <2>5 DEF Submit, TypeOK, assetVars
<1>5. ASSUME NEW t \in tickets, NEW retryable \in BOOLEAN, Fail(t, retryable) PROVE Coherent'
  <2>1. t \in Ticket
    BY <1>0 DEF TypeOK
  <2>2. t.agent \in Agent /\ t.job \in Job /\ t.token \in Token /\ t.fencing \in Fencing
    BY <2>1 DEF Ticket
  <2>3. job' \in [Job -> Row] /\ RowConstraints'
    BY <1>5, <2>1, <2>2, RowIsCoherent, FailedRowOK, UpdateOK DEF Fail, Accepts
  <2>4. inflight' \in [Agent -> Request \cup {NULL}]
    BY <1>0, <1>5, <2>2, AwaitOK, LeaseEndOK DEF Fail, Op
  <2>5. spent' \in SUBSET (Token \X Fencing) /\ ended' \in SUBSET Token
    BY <1>0, <1>5, <2>2 DEF Fail, TypeOK
  <2>6. disruptions' \in 0..MaxDisruptions
    BY <1>0, <1>5, ConstantsAssumption DEF Fail, TypeOK
  <2>7. QED
    BY <1>0, <1>5, <2>3, <2>4, <2>5, <2>6 DEF Fail, TypeOK, assetVars
<1>6. ASSUME NEW t \in tickets, Refused(t) PROVE Coherent'
  <2>1. t.agent \in Agent /\ t.job \in Job /\ t.token \in Token
    BY <1>0 DEF TypeOK, Ticket
  <2>2. inflight' \in [Agent -> Request \cup {NULL}]
    BY <1>0, <1>6, <2>1, AwaitOK, LeaseEndOK DEF Refused, Op
  <2>3. QED
    BY <1>6, <2>2 DEF Refused, TypeOK, RowConstraints, jobVars, assetVars
<1>7. ASSUME NEW a \in Agent, Reply(a) PROVE Coherent'
  <2>1. inflight[a] \in Request
    BY <1>0, <1>7 DEF Reply, TypeOK
  <2>2. tickets' \in SUBSET Ticket
    BY <1>0, <1>7, <2>1, RereadOK DEF Reply, TypeOK
  <2>3. QED
    BY <1>7, <2>2 DEF Reply, TypeOK, RowConstraints, jobVars, assetVars
<1>8. ASSUME NEW a \in Agent, LoseReply(a) PROVE Coherent'
  BY <1>8, ConstantsAssumption DEF LoseReply, Disrupt, TypeOK, RowConstraints, jobVars, assetVars
<1>9. ASSUME NEW a \in Agent, AgentCrash(a) PROVE Coherent'
  BY <1>9, ConstantsAssumption DEF AgentCrash, Disrupt, TypeOK, RowConstraints, jobVars, assetVars
<1>10. ASSUME NEW x \in Asset, NEW type \in LockType, AcquireLock(x, type) PROVE Coherent'
  BY <1>10, ConstantsAssumption
     DEF AcquireLock, Disrupt, TypeOK, RowConstraints, jobVars, agentVars
<1>11. ASSUME NEW x \in Asset, NEW type \in LockType, ReleaseLock(x, type) PROVE Coherent'
  BY <1>11 DEF ReleaseLock, TypeOK, RowConstraints, jobVars, agentVars
<1>12. ASSUME NEW x \in Asset, PurgeAsset(x) PROVE Coherent'
  BY <1>12 DEF PurgeAsset, TypeOK, RowConstraints, jobVars, agentVars
<1>13. CASE Tick
  BY <1>13, ConstantsAssumption DEF Tick, TypeOK, RowConstraints, jobVars, assetVars, agentVars
<1>14. CASE UNCHANGED vars
  BY <1>14 DEF vars, TypeOK, RowConstraints
<1>15. QED
  BY <1>1, <1>2, <1>3, <1>4, <1>5, <1>6, <1>7, <1>8, <1>9, <1>10, <1>11, <1>12, <1>13, <1>14
     DEF Next

\* Every reachable state is well typed.
THEOREM TypeCorrect == Spec => []TypeOK
<1>1. Coherent => TypeOK
  BY DEF Coherent
<1>2. QED
  BY CoherentInit, CoherentStep, <1>1, PTL DEF Spec

\* No UPDATE ever leaves a row the CHECK constraints of processing_job refuse.
THEOREM RowsMeetConstraints == Spec => []RowConstraints
<1>1. Coherent => RowConstraints
  BY DEF Coherent
<1>2. QED
  BY CoherentInit, CoherentStep, <1>1, PTL DEF Spec

-----------------------------------------------------------------------------
\* Lease safety: LeaseInv is inductive, given that rows are coherent.

THEOREM LeaseInvInit == Init => LeaseInv
  BY DEF Init, AbsentRow, LeaseInv, GrantInv, TicketInv, InflightInv, SpentInv

\* The grant behind a claimed row.
LEMMA ClaimedGrant ==
    ASSUME LeaseInv, NEW k \in Job, job[k].status = "claimed"
    PROVE  /\ job[k].lock_token \in DOMAIN grants
           /\ grants[job[k].lock_token] = [agent |-> job[k].claimed_by, job |-> k]
           /\ grants[job[k].lock_token].job = k
           /\ grants[job[k].lock_token].agent = job[k].claimed_by
           /\ job[k].lock_token \notin ended
           /\ job[k].locked_until <= now + Ttl
           /\ \A i \in DOMAIN grants : grants[i].job = k => i <= job[k].lock_token
<1> DEFINE g == [agent |-> job[k].claimed_by, job |-> k]
<1>1. g.job = k /\ g.agent = job[k].claimed_by
  OBVIOUS
<1>2. grants[job[k].lock_token] = g
  BY DEF LeaseInv, GrantInv
<1>3. grants[job[k].lock_token].job = k /\ grants[job[k].lock_token].agent = job[k].claimed_by
  BY <1>1, <1>2
<1>4. QED
  BY <1>2, <1>3 DEF LeaseInv, GrantInv

\* Requests in flight are as before, gone, or refused ones.
RequestsKept ==
    \A a \in Agent :
        \/ inflight'[a] \in {inflight[a], NULL}
        \/ \E t \in tickets : inflight'[a] = [op |-> "conflict", job |-> t.job,
                                             token |-> t.token, until |-> NULL]

\* A step that touches no row, grant or history, makes no ticket and no request that
\* is not refused, keeps LeaseInv, while time does not go back.
LEMMA LeaseInvFrame ==
    ASSUME Coherent, LeaseInv, UNCHANGED jobVars, tickets' \subseteq tickets,
           RequestsKept, now' \in Int, now <= now'
    PROVE  LeaseInv'
<1>1. \A t \in tickets : t.until \in Int
  BY DEF Coherent, TypeOK, Ticket, Time
<1>2. now \in Int
  BY DEF Coherent, TypeOK
<1>3. GrantInv' /\ SpentInv'
  <2>1. \A j \in Job : job[j].status = "claimed" => job[j].locked_until \in Int
    BY DEF Coherent, TypeOK, RowConstraints, Row, Time
  <2>2. \A j \in Job : job[j].status = "claimed" => job[j].locked_until <= now' + Ttl
    <3> SUFFICES ASSUME NEW j \in Job, job[j].status = "claimed"
                 PROVE  job[j].locked_until <= now' + Ttl
      OBVIOUS
    <3>1. job[j].locked_until <= now + Ttl
      BY DEF LeaseInv, GrantInv
    <3>2. job[j].locked_until \in Int
      BY <2>1
    <3>3. QED
      BY <1>2, <3>1, <3>2, ConstantsAssumption
  <2>3. QED
    BY <2>2 DEF LeaseInv, GrantInv, SpentInv, jobVars
<1>4. TicketInv'
  BY <1>1, <1>2 DEF LeaseInv, TicketInv, TruthOf, LeaseIs, jobVars
<1>5. InflightInv'
  <2> SUFFICES ASSUME NEW a \in Agent, inflight'[a] # NULL
               PROVE  HeldFor(a, inflight[a])'
    BY DEF InflightInv
  <2>1. CASE inflight'[a] = inflight[a]
    <3>1. HeldFor(a, inflight[a])
      BY <2>1 DEF LeaseInv, InflightInv
    <3>2. inflight[a].until \in Int \cup {NULL}
      BY <2>1 DEF Coherent, TypeOK, Request, Time
    <3>3. QED
      BY <1>2, <2>1, <3>1, <3>2 DEF HeldFor, Prompt, LeaseIs, jobVars
  <2>2. ASSUME NEW t \in tickets,
               inflight'[a] = [op |-> "conflict", job |-> t.job,
                               token |-> t.token, until |-> NULL]
        PROVE  HeldFor(a, inflight[a])'
    <3>1. TruthOf(t)
      BY DEF LeaseInv, TicketInv
    <3>2. QED
      BY <2>2, <3>1 DEF HeldFor, Prompt, TruthOf, jobVars
  <2>3. QED
    BY <2>1, <2>2 DEF RequestsKept
<1>6. QED
  BY <1>3, <1>4, <1>5 DEF LeaseInv

\* What an accepted request knows of its row.
LEMMA AcceptedRow ==
    ASSUME Coherent, NEW t \in tickets, Accepts(t)
    PROVE  /\ t \in Ticket
           /\ t.job \in Job
           /\ t.token \in Token
           /\ job[t.job] \in Row
           /\ job[t.job].status = "claimed"
           /\ job[t.job].lock_token = t.token
           /\ job[t.job].fencing_token = t.fencing
           /\ job[t.job].fencing_token \in Fencing
           /\ job[t.job].locked_until \in Time
           /\ job[t.job].claimed_by = t.agent
           /\ job[t.job].locked_until >= now
<1>1. t \in Ticket /\ t.job \in Job /\ t.token \in Token
  BY DEF Coherent, TypeOK, Ticket
<1>2. job[t.job] \in Row /\ RowCoherent(job[t.job])
  BY <1>1, RowIsCoherent
<1>3. QED
  BY <1>1, <1>2 DEF Accepts, Row, RowCoherent

LEMMA LeaseInvClaim ==
    ASSUME Coherent, LeaseInv, NEW a \in Agent, NEW j \in Job, Claim(a, j)
    PROVE  LeaseInv'
<1> DEFINE n == Len(grants) + 1
<1>1. /\ grants \in Seq(Grant)
      /\ grants' = Append(grants, [agent |-> a, job |-> j])
      /\ job' = [job EXCEPT ![j] = ClaimedRow(@, a, n)]
      /\ job \in [Job -> Row]
      /\ UNCHANGED <<ended, spent, tickets, now>>
      /\ tickets \in SUBSET Ticket
      /\ now + Ttl \in Int
  BY ConstantsAssumption DEF Claim, Coherent, TypeOK
<1>2. /\ DOMAIN grants = 1..(n - 1)
      /\ DOMAIN grants' = 1..n
      /\ n \in Nat \ {0}
      /\ \A i \in 1..(n - 1) : grants'[i] = grants[i]
      /\ grants'[n] = [agent |-> a, job |-> j]
  BY <1>1 DEF Grant
<1>3. \A k \in Job : k # j => job'[k] = job[k]
  BY <1>1
<1>4. /\ job'[j].status = "claimed"
      /\ job'[j].lock_token = n
      /\ job'[j].claimed_by = a
      /\ job'[j].fencing_token = 1
      /\ job'[j].locked_until = now + Ttl
  BY <1>1 DEF ClaimedRow, Row
<1>5. GrantInv'
  <2>1. ended' \subseteq DOMAIN grants'
    BY <1>1, <1>2 DEF LeaseInv, GrantInv
  <2>2. ASSUME NEW k \in Job, job'[k].status = "claimed"
        PROVE  /\ job'[k].lock_token \in DOMAIN grants'
               /\ grants'[job'[k].lock_token] = [agent |-> job'[k].claimed_by, job |-> k]
               /\ job'[k].lock_token \notin ended'
               /\ job'[k].locked_until <= now + Ttl
               /\ \A i \in DOMAIN grants' : grants'[i].job = k => i <= job'[k].lock_token
    <3>1. CASE k = j
      BY <1>1, <1>2, <1>4, <3>1 DEF LeaseInv, GrantInv
    <3>2. CASE k # j
      <4>1. /\ job[k].lock_token \in 1..(n - 1)
            /\ grants[job[k].lock_token] = [agent |-> job[k].claimed_by, job |-> k]
            /\ job[k].lock_token \notin ended
            /\ job[k].locked_until <= now + Ttl
            /\ \A i \in 1..(n - 1) : grants[i].job = k => i <= job[k].lock_token
        BY <1>2, <1>3, <2>2, <3>2 DEF LeaseInv, GrantInv
      <4>2. QED
        BY <1>1, <1>2, <1>3, <3>2, <4>1
    <3>3. QED
      BY <3>1, <3>2
  <2>3. QED
    BY <1>1, <2>1, <2>2 DEF GrantInv
<1>6. TicketInv'
  <2> SUFFICES ASSUME NEW t \in tickets PROVE TruthOf(t)'
    BY <1>1 DEF TicketInv
  <2>1. /\ TruthOf(t)
        /\ t.token \in 1..(n - 1)
        /\ t.job \in Job
        /\ t.until \in Int
    BY <1>1, <1>2 DEF LeaseInv, TicketInv, TruthOf, Ticket, Time
  <2>2. t.token # n /\ t.token \in DOMAIN grants' /\ grants'[t.token] = grants[t.token]
    BY <1>2, <2>1
  <2>3. CASE t.job = j
    <3>1. ~LeaseIs(j, t.token)'
      BY <1>4, <2>2 DEF LeaseIs
    <3>2. LeaseIs(j, t.token) => t.until < now
      <4>1. ASSUME LeaseIs(j, t.token) PROVE t.until < now
        <5>1. job[j].status = "claimed" /\ t.until <= job[j].locked_until
          BY <2>1, <2>3, <4>1 DEF TruthOf, LeaseIs
        <5>2. job[j].locked_until < now
          BY <5>1 DEF Claim, Claimable, Expired
        <5>3. now \in Int /\ job[j].locked_until \in Int
          BY <5>1 DEF Coherent, TypeOK, RowConstraints, Row, Time
        <5>4. QED
          BY <2>1, <5>1, <5>2, <5>3
      <4>2. QED
        BY <4>1
    <3>3. QED
      BY <1>1, <2>1, <2>2, <2>3, <3>1, <3>2 DEF TruthOf
  <2>4. CASE t.job # j
    BY <1>1, <1>3, <2>1, <2>2, <2>4 DEF TruthOf, LeaseIs
  <2>5. QED
    BY <2>3, <2>4
<1>7. SpentInv'
  <2> SUFFICES ASSUME NEW p \in spent
               PROVE  /\ p[1] \in DOMAIN grants'
                      /\ \A k \in Job :
                            job'[k].status = "claimed" /\ job'[k].lock_token = p[1] =>
                                p[2] < job'[k].fencing_token
    BY <1>1 DEF SpentInv
  <2>1. p[1] \in 1..(n - 1)
    BY <1>2 DEF LeaseInv, SpentInv
  <2>2. QED
    BY <1>2, <1>3, <1>4, <2>1 DEF LeaseInv, SpentInv
<1>8. InflightInv'
  <2> SUFFICES ASSUME NEW b \in Agent, inflight'[b] # NULL
               PROVE  HeldFor(b, inflight[b])'
    BY DEF InflightInv
  <2>1. CASE b = a
    <3>1. inflight'[a] = [op |-> "claim", job |-> j, token |-> n, until |-> now + Ttl]
      BY DEF Claim, Await, Coherent, TypeOK
    <3>2. n \notin ended
      BY <1>1, <1>2 DEF LeaseInv, GrantInv
    <3>3. now + Ttl <= now + Ttl
      BY <1>1
    <3>4. QED
      BY <1>1, <1>2, <1>4, <2>1, <3>1, <3>2, <3>3 DEF HeldFor, LeaseIs
  <2>2. CASE b # a
    <3>0. PICK r : r = inflight[b]
      OBVIOUS
    <3>1. /\ inflight'[b] = r
          /\ r \in Request
          /\ HeldFor(b, r)
      BY <2>2, <3>0 DEF Claim, Await, Coherent, TypeOK, LeaseInv, InflightInv
    <3>2. r.job \in Job /\ r.token \in 1..(n - 1) /\ r.until \in Int \cup {NULL}
      BY <1>2, <3>1 DEF Request, HeldFor, Time
    <3>3. r.token # n /\ r.token \in DOMAIN grants' /\ grants'[r.token] = grants[r.token]
      BY <1>2, <3>2
    <3>4. Prompt(r) => r.job # j
      <4>1. ASSUME Prompt(r), r.job = j PROVE FALSE
        <5>1. job[j].status = "claimed" /\ r.until <= job[j].locked_until /\ r.until >= now
          BY <3>1, <4>1 DEF HeldFor, LeaseIs, Prompt
        <5>2. job[j].locked_until < now
          BY <5>1 DEF Claim, Claimable, Expired
        <5>3. now \in Int /\ job[j].locked_until \in Int /\ r.until \in Int
          BY <3>2, <4>1, <5>1 DEF Coherent, TypeOK, RowConstraints, Row, Time, Prompt
        <5>4. QED
          BY <5>1, <5>2, <5>3
      <4>2. QED
        BY <4>1
    <3>5. HeldFor(b, r)'
      BY <1>1, <1>3, <3>1, <3>2, <3>3, <3>4 DEF HeldFor, LeaseIs, Prompt
    <3>6. QED
      BY <3>1, <3>5 DEF HeldFor, LeaseIs, Prompt
  <2>3. QED
    BY <2>1, <2>2
<1>9. QED
  BY <1>5, <1>6, <1>7, <1>8 DEF LeaseInv

LEMMA LeaseInvHeartbeat ==
    ASSUME Coherent, LeaseInv, NEW t \in tickets, Heartbeat(t)
    PROVE  LeaseInv'
<1> DEFINE j == t.job
<1>1. /\ Accepts(t)
      /\ job' = [job EXCEPT ![j] = HeartbeatRow(@)]
      /\ spent' = spent \cup {<<t.token, t.fencing>>}
      /\ UNCHANGED <<grants, ended, tickets, now>>
      /\ job \in [Job -> Row]
      /\ tickets \in SUBSET Ticket
      /\ now \in Int /\ now + Ttl \in Int
  BY ConstantsAssumption DEF Heartbeat, Coherent, TypeOK
<1>2. /\ j \in Job /\ job[j] \in Row
      /\ job[j].status = "claimed"
      /\ job[j].lock_token = t.token
      /\ job[j].fencing_token = t.fencing
      /\ job[j].fencing_token \in Int
      /\ job[j].locked_until \in Int
  BY <1>1, AcceptedRow DEF Fencing, Time
<1>3. \A k \in Job : k # j => job'[k] = job[k]
  BY <1>1
<1>4. /\ job'[j].status = "claimed"
      /\ job'[j].lock_token = t.token
      /\ job'[j].claimed_by = job[j].claimed_by
      /\ job'[j].fencing_token = t.fencing + 1
      /\ job'[j].locked_until = now + Ttl
  BY <1>1, <1>2 DEF HeartbeatRow, Row
<1>5. GrantInv'
  BY <1>1, <1>2, <1>3, <1>4 DEF LeaseInv, GrantInv
<1>6. TicketInv'
  <2> SUFFICES ASSUME NEW u \in tickets PROVE TruthOf(u)'
    BY <1>1 DEF TicketInv
  <2>1. /\ TruthOf(u)
        /\ u.job \in Job
        /\ u.until \in 0..(MaxTime + Ttl)
        /\ u.fencing \in 1..MaxFencing
    BY <1>1 DEF Ticket, Time, Fencing, LeaseInv, TicketInv
  <2>2. CASE u.job = j
    <3>1. LeaseIs(j, u.token)' <=> LeaseIs(j, u.token)
      BY <1>2, <1>4 DEF LeaseIs
    <3>2. LeaseIs(j, u.token) =>
              /\ u.fencing <= job'[j].fencing_token
              /\ u.until <= job'[j].locked_until
      <4>1. ASSUME LeaseIs(j, u.token)
            PROVE  u.fencing <= t.fencing + 1 /\ u.until <= now + Ttl
        <5>1. u.fencing <= t.fencing /\ u.until <= job[j].locked_until
          BY <1>2, <2>1, <2>2, <4>1 DEF TruthOf
        <5>2. job[j].locked_until <= now + Ttl
          BY <1>2 DEF LeaseInv, GrantInv
        <5>3. t.fencing \in Int
          BY <1>2
        <5>4. QED
          BY <1>1, <1>2, <2>1, <5>1, <5>2, <5>3, ConstantsAssumption
      <4>2. QED
        BY <1>4, <4>1
    <3>3. QED
      BY <1>1, <2>1, <2>2, <3>1, <3>2 DEF TruthOf
  <2>3. CASE u.job # j
    BY <1>1, <1>3, <2>1, <2>3 DEF TruthOf, LeaseIs
  <2>4. QED
    BY <2>2, <2>3
<1>7. SpentInv'
  <2> SUFFICES ASSUME NEW p \in spent'
               PROVE  /\ p[1] \in DOMAIN grants
                      /\ \A k \in Job :
                            job'[k].status = "claimed" /\ job'[k].lock_token = p[1] =>
                                p[2] < job'[k].fencing_token
    BY <1>1 DEF SpentInv
  <2>1. CASE p = <<t.token, t.fencing>>
    <3>1. p[1] = t.token /\ p[2] = t.fencing
      BY <2>1
    <3>2. t.token \in DOMAIN grants /\ grants[t.token].job = j
      BY <1>2, ClaimedGrant
    <3>3. \A k \in Job : k # j /\ job[k].status = "claimed" => job[k].lock_token # t.token
      BY <3>2, ClaimedGrant
    <3>4. t.fencing < t.fencing + 1
      BY <1>2
    <3>5. QED
      BY <1>3, <1>4, <3>1, <3>2, <3>3, <3>4
  <2>2. CASE p \in spent
    <3>1. /\ p[1] \in DOMAIN grants
          /\ \A k \in Job : job[k].status = "claimed" /\ job[k].lock_token = p[1] =>
                 p[2] < job[k].fencing_token
      BY <2>2 DEF LeaseInv, SpentInv
    <3>2. p[2] \in Int
      BY <2>2 DEF Coherent, TypeOK, Fencing
    <3>3. job'[j].lock_token = p[1] => p[2] < job'[j].fencing_token
      BY <1>2, <1>4, <3>1, <3>2
    <3>4. QED
      BY <1>3, <3>1, <3>3
  <2>3. QED
    BY <1>1, <2>1, <2>2
<1>8. InflightInv'
  <2> SUFFICES ASSUME NEW b \in Agent, inflight'[b] # NULL
               PROVE  HeldFor(b, inflight[b])'
    BY DEF InflightInv
  <2>1. CASE b = t.agent
    <3>1. inflight'[b] = [op |-> "heartbeat", job |-> j, token |-> t.token, until |-> now + Ttl]
      BY <2>1 DEF Heartbeat, Await, Coherent, TypeOK
    <3>2. /\ t.token \in DOMAIN grants
          /\ grants[t.token].job = j
          /\ grants[t.token].agent = b
          /\ t.token \notin ended
      <4>1. job[j].claimed_by = t.agent
        BY <1>1, AcceptedRow
      <4>2. QED
        BY <1>2, <2>1, <4>1, ClaimedGrant
    <3>3. now + Ttl <= now + Ttl
      BY <1>1
    <3>4. QED
      BY <1>1, <1>4, <3>1, <3>2, <3>3 DEF HeldFor, LeaseIs
  <2>2. CASE b # t.agent
    <3>0. PICK r : r = inflight[b]
      OBVIOUS
    <3>1. /\ inflight'[b] = r
          /\ r \in Request
          /\ HeldFor(b, r)
      BY <2>2, <3>0 DEF Heartbeat, Await, Coherent, TypeOK, LeaseInv, InflightInv
    <3>2. r.job \in Job /\ r.until \in Int \cup {NULL}
      BY <3>1 DEF Request, Time
    <3>3. Prompt(r) /\ r.job = j => r.until <= now + Ttl
      <4>1. job[j].locked_until <= now + Ttl
        BY <1>2 DEF LeaseInv, GrantInv
      <4>2. QED
        BY <1>1, <1>2, <3>1, <3>2, <4>1 DEF HeldFor, Prompt
    <3>4. HeldFor(b, r)'
      BY <1>1, <1>2, <1>3, <1>4, <3>1, <3>2, <3>3 DEF HeldFor, LeaseIs, Prompt
    <3>5. QED
      BY <3>1, <3>4 DEF HeldFor, LeaseIs, Prompt
  <2>3. QED
    BY <2>1, <2>2
<1>9. QED
  BY <1>5, <1>6, <1>7, <1>8 DEF LeaseInv

\* Submit and fail alike: the row leaves "claimed" and the token is ended.
LEMMA LeaseInvEnd ==
    ASSUME Coherent, LeaseInv, NEW t \in tickets, Accepts(t),
           NEW row \in Row, row.status # "claimed",
           job' = [job EXCEPT ![t.job] = row],
           spent' = spent \cup {<<t.token, t.fencing>>},
           ended' = ended \cup {t.token},
           UNCHANGED <<grants, tickets, now>>,
           NEW op, Await(t.agent, op, t.job, t.token, NULL)
    PROVE  LeaseInv'
<1> DEFINE j == t.job
<1>1. /\ j \in Job
      /\ job \in [Job -> Row]
      /\ job[j].status = "claimed"
      /\ job[j].lock_token = t.token
      /\ tickets \in SUBSET Ticket
  BY AcceptedRow DEF Coherent, TypeOK
<1>2. /\ \A k \in Job : k # j => job'[k] = job[k]
      /\ job'[j].status # "claimed"
  BY <1>1
<1>3. t.token \in DOMAIN grants /\ grants[t.token].job = j
  BY <1>1, ClaimedGrant
<1>4. \A k \in Job : k # j /\ job[k].status = "claimed" => job[k].lock_token # t.token
  BY <1>3, ClaimedGrant
<1>5. GrantInv'
  BY <1>2, <1>3, <1>4 DEF LeaseInv, GrantInv
<1>6. TicketInv'
  <2> SUFFICES ASSUME NEW u \in tickets PROVE TruthOf(u)'
    BY DEF TicketInv
  <2>1. TruthOf(u) /\ u.job \in Job
    BY <1>1 DEF Ticket, LeaseInv, TicketInv
  <2>2. CASE u.job = j
    BY <1>1, <1>2, <2>1, <2>2 DEF TruthOf, LeaseIs
  <2>3. CASE u.job # j
    BY <1>2, <2>1, <2>3 DEF TruthOf, LeaseIs
  <2>4. QED
    BY <2>2, <2>3
<1>7. SpentInv'
  BY <1>2, <1>3, <1>4 DEF LeaseInv, SpentInv
<1>8. InflightInv'
  <2> SUFFICES ASSUME NEW b \in Agent, inflight'[b] # NULL
               PROVE  HeldFor(b, inflight[b])'
    BY DEF InflightInv
  <2>1. CASE b = t.agent
    <3>1. inflight'[b] = [op |-> op, job |-> j, token |-> t.token, until |-> NULL]
      BY <2>1 DEF Await, Coherent, TypeOK
    <3>2. QED
      BY <1>3, <3>1 DEF HeldFor, Prompt
  <2>2. CASE b # t.agent
    <3>0. PICK r : r = inflight[b]
      OBVIOUS
    <3>1. /\ inflight'[b] = r
          /\ r \in Request
          /\ HeldFor(b, r)
      BY <2>2, <3>0 DEF Await, Coherent, TypeOK, LeaseInv, InflightInv
    <3>2. grants[t.token].agent = t.agent
      BY <1>1, ClaimedGrant, AcceptedRow
    <3>3. r.until # NULL => r.token # t.token
      BY <2>2, <3>1, <3>2 DEF HeldFor
    <3>4. Prompt(r) => r.job # j
      BY <1>1, <3>1, <3>3 DEF HeldFor, LeaseIs, Prompt
    <3>5. r.job \in Job
      BY <3>1 DEF Request
    <3>6. HeldFor(b, r)'
      BY <1>2, <3>1, <3>3, <3>4, <3>5 DEF HeldFor, LeaseIs, Prompt
    <3>7. QED
      BY <3>1, <3>6 DEF HeldFor, LeaseIs, Prompt
  <2>3. QED
    BY <2>1, <2>2
<1>9. QED
  BY <1>5, <1>6, <1>7, <1>8 DEF LeaseInv

\* A reply tells the agent what the row holds at that moment; a prompt one, what it
\* was granted or what it renewed.
LEMMA LeaseInvReply ==
    ASSUME Coherent, LeaseInv, NEW a \in Agent, Reply(a)
    PROVE  LeaseInv'
<1>0. PICK r : r = inflight[a]
  OBVIOUS
<1>1. r \in Request /\ r.job \in Job /\ HeldFor(a, r)
  BY <1>0 DEF Reply, Coherent, TypeOK, Request, LeaseInv, InflightInv
<1>2. /\ UNCHANGED <<now, job, grants, ended, spent>>
      /\ tickets' \subseteq tickets \cup Reread(a, r)
  BY <1>0 DEF Reply, jobVars
<1>3. TicketInv'
  <2> SUFFICES ASSUME NEW u \in tickets' PROVE TruthOf(u)
    BY <1>2 DEF TicketInv, TruthOf, LeaseIs
  <2>1. CASE u \in tickets
    BY <2>1 DEF LeaseInv, TicketInv
  <2>2. CASE u \in Reread(a, r)
    <3>1. /\ job[r.job].status = "claimed"
          /\ u.agent = a
          /\ u.job = r.job
          /\ u.token \in {r.token, job[r.job].lock_token}
          /\ u.fencing = job[r.job].fencing_token
          /\ u.until = job[r.job].locked_until
          /\ u.prompt = Prompt(r)
      BY <2>2 DEF Reread
    <3>2. job[r.job].fencing_token \in Int /\ job[r.job].locked_until \in Int
      BY <1>1, <3>1 DEF Coherent, TypeOK, RowConstraints, Row, Fencing, Time
    <3>3. /\ job[r.job].lock_token \in DOMAIN grants
          /\ grants[job[r.job].lock_token].job = r.job
      BY <1>1, <3>1, ClaimedGrant
    <3>4. u.token \in DOMAIN grants /\ grants[u.token].job = r.job
      BY <1>1, <3>1, <3>3 DEF HeldFor
    <3>5. u.fencing <= job[r.job].fencing_token /\ u.until <= job[r.job].locked_until
      BY <3>1, <3>2
    <3>6. u.prompt => grants[u.token].agent = a /\ LeaseIs(r.job, u.token)
      BY <1>1, <3>1 DEF HeldFor, LeaseIs, Prompt
    <3>7. QED
      BY <3>1, <3>4, <3>5, <3>6 DEF TruthOf
  <2>3. QED
    BY <1>2, <2>1, <2>2
<1>4. InflightInv'
  <2> SUFFICES ASSUME NEW b \in Agent, inflight'[b] # NULL
               PROVE  HeldFor(b, inflight[b])'
    BY DEF InflightInv
  <2>1. inflight'[b] = inflight[b]
    BY DEF Reply, Coherent, TypeOK
  <2>2. HeldFor(b, inflight[b])
    BY <2>1 DEF LeaseInv, InflightInv
  <2>3. QED
    BY <1>2, <2>1, <2>2 DEF HeldFor, LeaseIs, Prompt
<1>5. GrantInv' /\ SpentInv'
  BY <1>2 DEF LeaseInv, GrantInv, SpentInv
<1>6. QED
  BY <1>3, <1>4, <1>5 DEF LeaseInv

THEOREM LeaseInvStep == Coherent /\ LeaseInv /\ [Next]_vars => LeaseInv'
<1> SUFFICES ASSUME Coherent, LeaseInv, [Next]_vars PROVE LeaseInv'
  OBVIOUS
<1>0. now \in Int /\ now <= now
  BY DEF Coherent, TypeOK
<1>1. ASSUME NEW j \in Job, EnqueuePending(j) PROVE LeaseInv'
  <2>1. /\ \A k \in Job : k # j => job'[k] = job[k]
        /\ job[j].status # "claimed" /\ job'[j].status # "claimed"
        /\ UNCHANGED <<now, grants, ended, spent, tickets>>
        /\ tickets \in SUBSET Ticket
    BY <1>1 DEF EnqueuePending, PendingRow, AbsentRow, Coherent, TypeOK, agentVars
  <2>2. GrantInv' /\ SpentInv'
    BY <2>1 DEF LeaseInv, GrantInv, SpentInv
  <2>3. TicketInv'
    BY <2>1 DEF LeaseInv, TicketInv, TruthOf, LeaseIs, Ticket
  <2>4. InflightInv'
    <3>1. inflight' = inflight /\ \A a \in Agent : inflight[a] # NULL => inflight[a].job \in Job
      BY <1>1 DEF EnqueuePending, agentVars, Coherent, TypeOK, Request
    <3>2. QED
      BY <2>1, <3>1 DEF LeaseInv, InflightInv, HeldFor, Prompt, LeaseIs
  <2>5. QED
    BY <2>2, <2>3, <2>4 DEF LeaseInv
<1>2. ASSUME NEW a \in Agent, NEW j \in Job, Claim(a, j) PROVE LeaseInv'
  BY <1>2, LeaseInvClaim
<1>3. ASSUME NEW t \in tickets, Heartbeat(t) PROVE LeaseInv'
  BY <1>3, LeaseInvHeartbeat
<1>4. ASSUME NEW t \in tickets, Submit(t) PROVE LeaseInv'
  <2>1. t \in Ticket /\ job[t.job] \in Row /\ RowCoherent(job[t.job])
        /\ job[t.job].status = "claimed"
    BY <1>4, AcceptedRow, RowIsCoherent DEF Submit
  <2>2. CompletedRow(job[t.job], t) \in Row
    BY <2>1, CompletedRowOK
  <2>3. CompletedRow(job[t.job], t).status # "claimed"
    BY <2>1 DEF CompletedRow, UnlockedRow, Row
  <2>4. QED
    BY <1>4, <2>2, <2>3, LeaseInvEnd DEF Submit
<1>5. ASSUME NEW t \in tickets, NEW retryable \in BOOLEAN, Fail(t, retryable) PROVE LeaseInv'
  <2>1. t \in Ticket /\ job[t.job] \in Row /\ RowCoherent(job[t.job])
        /\ job[t.job].status = "claimed"
    BY <1>5, AcceptedRow, RowIsCoherent DEF Fail
  <2>2. FailedRow(job[t.job], t, retryable) \in Row
    BY <2>1, FailedRowOK
  <2>3. FailedRow(job[t.job], t, retryable).status # "claimed"
    BY <2>1 DEF FailedRow, UnlockedRow, Row
  <2>4. QED
    BY <1>5, <2>2, <2>3, LeaseInvEnd DEF Fail
<1>6. ASSUME NEW t \in tickets, Refused(t) PROVE LeaseInv'
  <2>1. RequestsKept
    BY <1>6 DEF Refused, Await, RequestsKept, Coherent, TypeOK
  <2>2. QED
    BY <1>0, <1>6, <2>1, LeaseInvFrame DEF Refused
<1>7. ASSUME NEW a \in Agent, Reply(a) PROVE LeaseInv'
  BY <1>7, LeaseInvReply
<1>8. ASSUME NEW a \in Agent, LoseReply(a) \/ AgentCrash(a) PROVE LeaseInv'
  <2>1. RequestsKept
    BY <1>8 DEF LoseReply, AgentCrash, RequestsKept, Coherent, TypeOK
  <2>2. QED
    BY <1>0, <1>8, <2>1, LeaseInvFrame DEF LoseReply, AgentCrash
<1>9. ASSUME UNCHANGED <<jobVars, agentVars>>, now' \in Int, now <= now' PROVE LeaseInv'
  BY <1>9, LeaseInvFrame DEF RequestsKept, agentVars
<1>10. ASSUME NEW x \in Asset, NEW type \in LockType,
              AcquireLock(x, type) \/ ReleaseLock(x, type)
       PROVE  LeaseInv'
  BY <1>0, <1>9, <1>10 DEF AcquireLock, ReleaseLock
<1>11. ASSUME NEW x \in Asset, PurgeAsset(x) PROVE LeaseInv'
  BY <1>0, <1>9, <1>11 DEF PurgeAsset
<1>12. CASE Tick
  BY <1>0, <1>9, <1>12 DEF Tick
<1>13. CASE UNCHANGED vars
  BY <1>0, <1>9, <1>13 DEF vars, jobVars, agentVars
<1>14. QED
  BY <1>1, <1>2, <1>3, <1>4, <1>5, <1>6, <1>7, <1>8, <1>10, <1>11, <1>12, <1>13 DEF Next

THEOREM LeaseInvariant == Spec => [](Coherent /\ LeaseInv)
<1>1. Init => Coherent /\ LeaseInv
  BY CoherentInit, LeaseInvInit
<1>2. (Coherent /\ LeaseInv) /\ [Next]_vars => (Coherent /\ LeaseInv)'
  BY CoherentStep, LeaseInvStep
<1>3. QED
  BY <1>1, <1>2, PTL DEF Spec

\* Of any two running leases on one job that agents know from prompt answers, one was
\* given up: no agent needs to fear that a second one works beside it.
THEOREM LeasesExclude == Spec => []LeaseExclusion
<1>1. Coherent /\ LeaseInv => LeaseExclusion
  <2> SUFFICES ASSUME LeaseInv, Coherent, NEW t \in tickets, NEW u \in tickets,
                      t.job = u.job, t.agent # u.agent \/ t.token # u.token,
                      t.prompt, u.prompt, t.until >= now, u.until >= now,
                      t.token \notin ended, u.token \notin ended
               PROVE  FALSE
    BY DEF LeaseExclusion
  <2>1. t.until \in Int /\ u.until \in Int /\ now \in Int
    BY DEF Coherent, TypeOK, Ticket, Time
  <2>2. TruthOf(t) /\ TruthOf(u)
    BY DEF LeaseInv, TicketInv
  <2>3. LeaseIs(t.job, t.token) /\ LeaseIs(u.job, u.token)
    BY <2>1, <2>2 DEF TruthOf
  <2>4. t.token = u.token
    BY <2>3 DEF LeaseIs
  <2>5. t.agent = u.agent
    BY <2>2, <2>4 DEF TruthOf
  <2>6. QED
    BY <2>4, <2>5
<1>2. QED
  BY <1>1, LeaseInvariant, PTL

\* No step makes a ticket work that did not: no claim grants its lock token again, no
\* heartbeat its fencing token, and time only makes it older.
LEMMA NoSecondChance ==
    ASSUME Coherent, LeaseInv, [Next]_vars, NEW t \in tickets, Accepts(t)'
    PROVE  Accepts(t)
<1>1. /\ t \in Ticket /\ t.job \in Job /\ t.token \in Token
      /\ t.fencing \in Int
      /\ TruthOf(t)
      /\ job \in [Job -> Row]
  BY DEF Coherent, TypeOK, Ticket, Fencing, LeaseInv, TicketInv
<1>2. /\ job'[t.job].status = "claimed"
      /\ job'[t.job].claimed_by = t.agent
      /\ job'[t.job].lock_token = t.token
      /\ job'[t.job].fencing_token = t.fencing
      /\ job'[t.job].locked_until >= now'
  BY DEF Accepts
<1>3. ASSUME job'[t.job] = job[t.job], now' \in Int, now \in Int, now <= now'
      PROVE  Accepts(t)
  <2>1. job[t.job].locked_until \in Int
    BY <1>1, <1>2, <1>3 DEF Coherent, RowConstraints, Row, Time
  <2>2. job[t.job].locked_until >= now
    BY <1>2, <1>3, <2>1
  <2>3. QED
    BY <1>2, <1>3, <2>2 DEF Accepts
<1>4. now \in Int /\ now <= now
  BY DEF Coherent, TypeOK
<1>5. ASSUME NEW j \in Job, EnqueuePending(j) PROVE Accepts(t)
  <2>1. t.job # j
    BY <1>1, <1>2, <1>5 DEF EnqueuePending, PendingRow, AbsentRow
  <2>2. QED
    BY <1>1, <1>3, <1>4, <1>5, <2>1 DEF EnqueuePending
<1>6. ASSUME NEW a \in Agent, NEW j \in Job, Claim(a, j) PROVE Accepts(t)
  <2>1. ClaimedRow(job[j], a, Len(grants) + 1).lock_token = Len(grants) + 1
    BY <1>1 DEF ClaimedRow, Row
  <2>2. t.token # Len(grants) + 1
    BY <1>1 DEF TruthOf, Coherent, TypeOK
  <2>3. t.job # j
    BY <1>1, <1>2, <1>6, <2>1, <2>2 DEF Claim
  <2>4. QED
    BY <1>1, <1>3, <1>4, <1>6, <2>3 DEF Claim
<1>7. ASSUME NEW u \in tickets, Heartbeat(u) PROVE Accepts(t)
  <2>1. /\ u.job \in Job
        /\ job[u.job] \in Row
        /\ job[u.job].status = "claimed"
        /\ job[u.job].fencing_token \in Int
        /\ UNCHANGED now
        /\ job' = [job EXCEPT ![u.job] = HeartbeatRow(@)]
    BY <1>7, AcceptedRow DEF Heartbeat, Fencing
  <2>2. /\ HeartbeatRow(job[u.job]).lock_token = job[u.job].lock_token
        /\ HeartbeatRow(job[u.job]).fencing_token = job[u.job].fencing_token + 1
    BY <2>1 DEF HeartbeatRow, Row
  <2>3. ASSUME t.job = u.job PROVE FALSE
    <3>1. job'[u.job] = HeartbeatRow(job[u.job])
      BY <1>1, <2>1
    <3>2. LeaseIs(t.job, t.token) /\ t.fencing = job[u.job].fencing_token + 1
      BY <1>2, <2>1, <2>2, <2>3, <3>1 DEF LeaseIs
    <3>3. t.fencing <= job[u.job].fencing_token
      BY <1>1, <2>3, <3>2 DEF TruthOf
    <3>4. QED
      BY <1>1, <2>1, <3>2, <3>3
  <2>4. QED
    BY <1>1, <1>3, <1>4, <2>1, <2>3
<1>8. ASSUME NEW u \in tickets, NEW row, u.job \in Job, row.status # "claimed",
             job' = [job EXCEPT ![u.job] = row], UNCHANGED now
      PROVE  Accepts(t)
  <2>1. t.job # u.job
    BY <1>1, <1>2, <1>8
  <2>2. QED
    BY <1>1, <1>3, <1>4, <1>8, <2>1
<1>9. ASSUME NEW u \in tickets, Submit(u) PROVE Accepts(t)
  <2>1. u.job \in Job /\ job[u.job] \in Row
    BY <1>9, AcceptedRow DEF Submit
  <2>2. CompletedRow(job[u.job], u).status # "claimed"
    BY <2>1 DEF CompletedRow, UnlockedRow, Row
  <2>3. QED
    BY <1>8, <1>9, <2>1, <2>2 DEF Submit
<1>10. ASSUME NEW u \in tickets, NEW retryable \in BOOLEAN, Fail(u, retryable)
       PROVE  Accepts(t)
  <2>1. u.job \in Job /\ job[u.job] \in Row
    BY <1>10, AcceptedRow DEF Fail
  <2>2. FailedRow(job[u.job], u, retryable).status # "claimed"
    BY <2>1 DEF FailedRow, UnlockedRow, Row
  <2>3. QED
    BY <1>8, <1>10, <2>1, <2>2 DEF Fail
<1>11. ASSUME UNCHANGED job, now' \in {now, now + 1} PROVE Accepts(t)
  BY <1>3, <1>4, <1>11
<1>12. QED
  BY <1>5, <1>6, <1>7, <1>9, <1>10, <1>11
     DEF Next, Refused, Reply, LoseReply, AgentCrash, AcquireLock, ReleaseLock,
         PurgeAsset, Tick, vars, jobVars

\* A ticket that is refused is refused for ever.
THEOREM RefusedForGood == Spec => RefusalsAreFinal
<1>1. Coherent /\ LeaseInv /\ [Next]_vars
        => [\A t \in tickets : ~Accepts(t) => ~Accepts(t)']_vars
  BY NoSecondChance
<1>2. QED
  BY <1>1, LeaseInvariant, PTL DEF Spec, RefusalsAreFinal

\* A spent (lock_token, fencing_token) pair is never accepted again.
THEOREM PairsWorkOnce == Spec => []NoReplay
<1>1. Coherent /\ LeaseInv => NoReplay
  <2> SUFFICES ASSUME Coherent, LeaseInv, NEW t \in tickets, Accepts(t),
                      <<t.token, t.fencing>> \in spent
               PROVE  FALSE
    BY DEF NoReplay
  <2>1. /\ t.job \in Job
        /\ job[t.job].status = "claimed"
        /\ job[t.job].lock_token = t.token
        /\ job[t.job].fencing_token = t.fencing
        /\ job[t.job].fencing_token \in Int
    BY AcceptedRow DEF Fencing
  <2>2. t.fencing < job[t.job].fencing_token
    BY <2>1 DEF LeaseInv, SpentInv
  <2>3. QED
    BY <2>1, <2>2
<1>2. QED
  BY <1>1, LeaseInvariant, PTL

-----------------------------------------------------------------------------
\* The result of a finished job: ResultFromLastLease is inductive, given LeaseInv.

\* What the property says of one row.
LastResult(row, j) ==
    row.status \in {"completed", "failed"} =>
        LET token == row.result_token IN
        /\ token \in DOMAIN grants
        /\ grants[token].job = j
        /\ grants[token].agent \in {row.completed_by, row.failed_by}
        /\ \A i \in DOMAIN grants : grants[i].job = j => i <= token

\* Submit and fail store the result of the lease they end, which is the last one.
LEMMA EndedRowResult ==
    ASSUME Coherent, LeaseInv, NEW t \in tickets, Accepts(t), NEW retryable \in BOOLEAN
    PROVE  /\ LastResult(CompletedRow(job[t.job], t), t.job)
           /\ LastResult(FailedRow(job[t.job], t, retryable), t.job)
<1>1. /\ t.job \in Job
      /\ job[t.job] \in Row
      /\ job[t.job].status = "claimed"
      /\ job[t.job].lock_token = t.token
      /\ job[t.job].claimed_by = t.agent
  BY AcceptedRow
<1>2. /\ t.token \in DOMAIN grants
      /\ grants[t.token].job = t.job
      /\ grants[t.token].agent = t.agent
      /\ \A i \in DOMAIN grants : grants[i].job = t.job => i <= t.token
  BY <1>1, ClaimedGrant
<1>3. CompletedRow(job[t.job], t).result_token = t.token
      /\ CompletedRow(job[t.job], t).completed_by = t.agent
  BY <1>1 DEF CompletedRow, UnlockedRow, Row
<1>4. LET row == FailedRow(job[t.job], t, retryable) IN
      /\ row.result_token = t.token
      /\ row.status = "failed" => row.failed_by = t.agent
      /\ row.status \in {"pending", "failed"}
  BY <1>1 DEF FailedRow, UnlockedRow, Row
<1>5. QED
  BY <1>2, <1>3, <1>4 DEF LastResult

\* An UPDATE that leaves the grants alone and a row with the last result keeps the
\* property.
LEMMA ResultUpdate ==
    ASSUME Coherent, ResultFromLastLease, UNCHANGED grants, NEW j \in Job, NEW row,
           LastResult(row, j), job' = [job EXCEPT ![j] = row]
    PROVE  ResultFromLastLease'
<1> SUFFICES ASSUME NEW k \in Job PROVE LastResult(job[k], k)'
  BY DEF ResultFromLastLease, LastResult
<1>1. CASE k = j
  BY <1>1 DEF LastResult, Coherent, TypeOK
<1>2. CASE k # j
  BY <1>2 DEF LastResult, ResultFromLastLease, Coherent, TypeOK
<1>3. QED
  BY <1>1, <1>2

LEMMA ResultFrame ==
    ASSUME ResultFromLastLease, UNCHANGED jobVars
    PROVE  ResultFromLastLease'
  BY DEF ResultFromLastLease, jobVars

LEMMA ResultClaim ==
    ASSUME Coherent, ResultFromLastLease, NEW a \in Agent, NEW j \in Job, Claim(a, j)
    PROVE  ResultFromLastLease'
<1> DEFINE n == Len(grants) + 1
<1>1. /\ grants \in Seq(Grant)
      /\ grants' = Append(grants, [agent |-> a, job |-> j])
      /\ job \in [Job -> Row]
      /\ job' = [job EXCEPT ![j] = ClaimedRow(@, a, n)]
  BY DEF Claim, Coherent, TypeOK
<1>2. /\ DOMAIN grants = 1..(n - 1)
      /\ DOMAIN grants' = 1..n
      /\ n \in Nat \ {0}
      /\ \A i \in 1..(n - 1) : grants'[i] = grants[i]
      /\ grants'[n] = [agent |-> a, job |-> j]
  BY <1>1 DEF Grant
<1>3. grants'[n].job = j
  BY <1>2
<1>4. job'[j].status = "claimed"
  BY <1>1 DEF ClaimedRow, Row
<1>5. ASSUME NEW k \in Job, job'[k].status \in {"completed", "failed"}
      PROVE  /\ job'[k].result_token \in DOMAIN grants'
             /\ grants'[job'[k].result_token].job = k
             /\ grants'[job'[k].result_token].agent \in {job'[k].completed_by, job'[k].failed_by}
             /\ \A i \in DOMAIN grants' : grants'[i].job = k => i <= job'[k].result_token
  <2>1. k # j /\ job'[k] = job[k]
    BY <1>1, <1>4, <1>5
  <2>2. /\ job[k].result_token \in 1..(n - 1)
        /\ grants[job[k].result_token].job = k
        /\ grants[job[k].result_token].agent \in {job[k].completed_by, job[k].failed_by}
        /\ \A i \in 1..(n - 1) : grants[i].job = k => i <= job[k].result_token
    BY <1>2, <1>5, <2>1 DEF ResultFromLastLease
  <2>3. QED
    BY <1>2, <1>3, <2>1, <2>2
<1>6. QED
  BY <1>5 DEF ResultFromLastLease

THEOREM ResultStep ==
    Coherent /\ LeaseInv /\ ResultFromLastLease /\ [Next]_vars => ResultFromLastLease'
<1> SUFFICES ASSUME Coherent, LeaseInv, ResultFromLastLease, [Next]_vars
             PROVE  ResultFromLastLease'
  OBVIOUS
<1>1. ASSUME NEW j \in Job, EnqueuePending(j) PROVE ResultFromLastLease'
  <2>1. LastResult(PendingRow, j)
    BY DEF LastResult, PendingRow, AbsentRow
  <2>2. QED
    BY <1>1, <2>1, ResultUpdate DEF EnqueuePending
<1>2. ASSUME NEW a \in Agent, NEW j \in Job, Claim(a, j) PROVE ResultFromLastLease'
  BY <1>2, ResultClaim
<1>3. ASSUME NEW t \in tickets, Heartbeat(t) PROVE ResultFromLastLease'
  <2>1. Accepts(t) /\ t.job \in Job /\ job[t.job] \in Row /\ job[t.job].status = "claimed"
    BY <1>3, AcceptedRow DEF Heartbeat
  <2>2. HeartbeatRow(job[t.job]).status = "claimed"
    BY <2>1 DEF HeartbeatRow, Row
  <2>3. LastResult(HeartbeatRow(job[t.job]), t.job)
    BY <2>2 DEF LastResult
  <2>4. QED
    BY <1>3, <2>1, <2>3, ResultUpdate DEF Heartbeat
<1>4. ASSUME NEW t \in tickets, Submit(t) PROVE ResultFromLastLease'
  <2>1. t.job \in Job /\ LastResult(CompletedRow(job[t.job], t), t.job)
    BY <1>4, AcceptedRow, EndedRowResult DEF Submit
  <2>2. QED
    BY <1>4, <2>1, ResultUpdate DEF Submit
<1>5. ASSUME NEW t \in tickets, NEW retryable \in BOOLEAN, Fail(t, retryable)
      PROVE  ResultFromLastLease'
  <2>1. t.job \in Job /\ LastResult(FailedRow(job[t.job], t, retryable), t.job)
    BY <1>5, AcceptedRow, EndedRowResult DEF Fail
  <2>2. QED
    BY <1>5, <2>1, ResultUpdate DEF Fail
<1>6. ASSUME UNCHANGED jobVars PROVE ResultFromLastLease'
  BY <1>6, ResultFrame
<1>7. QED
  BY <1>1, <1>2, <1>3, <1>4, <1>5, <1>6
     DEF Next, Refused, Reply, LoseReply, AgentCrash, AcquireLock, ReleaseLock, PurgeAsset,
         Tick, vars, jobVars

\* The result in a finished job is that of the last lease granted on it.
THEOREM LastLeaseReports == Spec => []ResultFromLastLease
<1>1. Init => ResultFromLastLease
  BY DEF Init, ResultFromLastLease, AbsentRow
<1>2. Coherent /\ LeaseInv /\ ResultFromLastLease /\ [Next]_vars => ResultFromLastLease'
  BY ResultStep
<1>3. QED
  BY <1>1, <1>2, LeaseInvariant, PTL DEF Spec

-----------------------------------------------------------------------------
(***************************************************************************)
(* JobLease implements ExclusiveWork: each of its steps is a step of the   *)
(* abstract specification or leaves the abstract state alone.              *)
(***************************************************************************)

\* A row not inserted yet holds no result.
AbsentIsBlank == \A j \in Job : job[j].status = "absent" => job[j].result_token = NULL

\* What the steps below need of the reachable states.
RefInv == Coherent /\ LeaseInv /\ AbsentIsBlank

LEMMA AbsentIsBlankStep == Coherent /\ AbsentIsBlank /\ [Next]_vars => AbsentIsBlank'
<1> SUFFICES ASSUME Coherent, AbsentIsBlank, [Next]_vars PROVE AbsentIsBlank'
  OBVIOUS
<1>0. job \in [Job -> Row]
  BY DEF Coherent, TypeOK
<1>1. ASSUME NEW j \in Job, EnqueuePending(j) PROVE AbsentIsBlank'
  BY <1>0, <1>1 DEF EnqueuePending, PendingRow, AbsentRow, AbsentIsBlank
<1>2. ASSUME NEW a \in Agent, NEW j \in Job, Claim(a, j) PROVE AbsentIsBlank'
  <2>1. ClaimedRow(job[j], a, Len(grants) + 1).status = "claimed"
    BY <1>0 DEF ClaimedRow, Row
  <2>2. QED
    BY <1>0, <1>2, <2>1 DEF Claim, AbsentIsBlank
<1>3. ASSUME NEW t \in tickets, Heartbeat(t) PROVE AbsentIsBlank'
  <2>1. job[t.job].status = "claimed" /\ job[t.job] \in Row
    BY <1>3, AcceptedRow DEF Heartbeat
  <2>2. HeartbeatRow(job[t.job]).status = "claimed"
    BY <2>1 DEF HeartbeatRow, Row
  <2>3. QED
    BY <1>0, <1>3, <2>2 DEF Heartbeat, AbsentIsBlank
<1>4. ASSUME NEW t \in tickets, Submit(t) PROVE AbsentIsBlank'
  <2>1. job[t.job] \in Row
    BY <1>4, AcceptedRow DEF Submit
  <2>2. CompletedRow(job[t.job], t).status = "completed"
    BY <2>1 DEF CompletedRow, UnlockedRow, Row
  <2>3. QED
    BY <1>0, <1>4, <2>2 DEF Submit, AbsentIsBlank
<1>5. ASSUME NEW t \in tickets, NEW retryable \in BOOLEAN, Fail(t, retryable) PROVE AbsentIsBlank'
  <2>1. job[t.job] \in Row
    BY <1>5, AcceptedRow DEF Fail
  <2>2. FailedRow(job[t.job], t, retryable).status # "absent"
    BY <2>1 DEF FailedRow, UnlockedRow, Row
  <2>3. QED
    BY <1>0, <1>5, <2>2 DEF Fail, AbsentIsBlank
<1>6. ASSUME UNCHANGED jobVars PROVE AbsentIsBlank'
  BY <1>6 DEF jobVars, AbsentIsBlank
<1>7. QED
  BY <1>1, <1>2, <1>3, <1>4, <1>5, <1>6
     DEF Next, Refused, Reply, LoseReply, AgentCrash, AcquireLock, ReleaseLock, PurgeAsset,
         Tick, vars, jobVars

THEOREM RefInvariant == Spec => []RefInv
<1>1. Init => AbsentIsBlank
  BY DEF Init, AbsentRow, AbsentIsBlank
<1>2. QED
  BY <1>1, AbsentIsBlankStep, LeaseInvariant, PTL DEF Spec, RefInv

-----------------------------------------------------------------------------
\* Steps

THEOREM WorkInit == Init => Work!Init
  BY DEF Init, AbsentRow, Expired, Work!Init

LEMMA WorkEnqueue ==
    ASSUME RefInv, NEW j \in Job, EnqueuePending(j)
    PROVE  Work!Enqueue(j)
<1>1. /\ job \in [Job -> Row]
      /\ job' = [job EXCEPT ![j] = PendingRow]
      /\ job[j].status = "absent"
      /\ job[j].lock_token = NULL
      /\ job[j].result_token = NULL
      /\ UNCHANGED <<now, grants>>
  BY DEF EnqueuePending, RefInv, Coherent, TypeOK, RowConstraints, AbsentIsBlank
<1>2. /\ \A k \in Job : k # j => job'[k] = job[k]
      /\ job'[j].status = "pending"
      /\ job'[j].lock_token = NULL
      /\ job'[j].result_token = NULL
  BY <1>1 DEF PendingRow, AbsentRow
<1>3. \A k \in Job : Expired(job[k])' <=> Expired(job[k])
  BY <1>1, <1>2 DEF Expired
<1>4. QED
  BY <1>1, <1>2, <1>3 DEF Work!Enqueue

LEMMA WorkGrant ==
    ASSUME RefInv, NEW a \in Agent, NEW j \in Job, Claim(a, j)
    PROVE  \E n \in Token : Work!Grant(j, a, n)
<1>0. PICK n : n = Len(grants) + 1
  OBVIOUS
<1>1. /\ job \in [Job -> Row]
      /\ job' = [job EXCEPT ![j] = ClaimedRow(@, a, n)]
      /\ grants \in Seq(Grant)
      /\ grants' = Append(grants, [agent |-> a, job |-> j])
      /\ now \in Int /\ now' = now
      /\ Len(grants) < MaxTokens
  BY <1>0 DEF Claim, RefInv, Coherent, TypeOK
<1>2. /\ \A k \in Job : k # j => job'[k] = job[k]
      /\ job'[j].status = "claimed"
      /\ job'[j].claimed_by = a
      /\ job'[j].lock_token = n
      /\ job'[j].locked_until = now + Ttl
      /\ job'[j].result_token = job[j].result_token
  BY <1>1 DEF ClaimedRow, Row
<1>3. n \in Token /\ n \notin DOMAIN grants /\ DOMAIN grants' = DOMAIN grants \cup {n}
  BY <1>0, <1>1, ConstantsAssumption DEF Token, Grant
<1>4. /\ ~Expired(job[j])'
      /\ \A k \in Job : k # j => (Expired(job[k])' <=> Expired(job[k]))
  BY <1>1, <1>2, ConstantsAssumption DEF Expired
<1>5. job[j].status = "pending" \/ Expired(job[j])
  BY DEF Claim, Claimable
<1>6. Work!Grant(j, a, n)
  BY <1>1, <1>2, <1>3, <1>4, <1>5 DEF Work!Grant
<1>7. QED
  BY <1>3, <1>6

LEMMA WorkHeartbeat ==
    ASSUME RefInv, NEW t \in tickets, Heartbeat(t)
    PROVE  UNCHANGED Work!vars
<1> DEFINE j == t.job
<1>1. /\ job \in [Job -> Row]
      /\ job' = [job EXCEPT ![j] = HeartbeatRow(@)]
      /\ now \in Int /\ now' = now
      /\ grants' = grants
  BY DEF Heartbeat, RefInv, Coherent, TypeOK
<1>2. /\ j \in Job
      /\ job[j] \in Row
      /\ job[j].status = "claimed"
      /\ job[j].locked_until \in Int
      /\ job[j].locked_until >= now
  BY AcceptedRow DEF Heartbeat, RefInv, Time
<1>3. /\ \A k \in Job : k # j => job'[k] = job[k]
      /\ job'[j].status = "claimed"
      /\ job'[j].claimed_by = job[j].claimed_by
      /\ job'[j].lock_token = job[j].lock_token
      /\ job'[j].result_token = job[j].result_token
      /\ job'[j].locked_until = now + Ttl
  BY <1>1, <1>2 DEF HeartbeatRow, Row
<1>4. \A k \in Job : Expired(job[k])' <=> Expired(job[k])
  BY <1>1, <1>2, <1>3, ConstantsAssumption DEF Expired
<1>5. QED
  BY <1>1, <1>2, <1>3, <1>4 DEF Work!vars

\* Submit and fail alike.
LEMMA WorkReport ==
    ASSUME RefInv, NEW t \in tickets, Accepts(t), NEW row \in Row,
           row.status # "claimed", row.lock_token = NULL, row.result_token = t.token,
           job' = [job EXCEPT ![t.job] = row], UNCHANGED <<now, grants>>
    PROVE  t.job \in Job /\ Work!Report(t.job, row.status)
<1> DEFINE j == t.job
<1>1. /\ job \in [Job -> Row]
      /\ now \in Int
      /\ j \in Job
      /\ job[j].status = "claimed"
      /\ job[j].lock_token = t.token
      /\ job[j].locked_until \in Int
      /\ job[j].locked_until >= now
  BY AcceptedRow DEF RefInv, Coherent, TypeOK, Time
<1>2. /\ \A k \in Job : k # j => job'[k] = job[k]
      /\ job'[j] = row
  BY <1>1
<1>3. ~Expired(job[j]) /\ (\A k \in Job : Expired(job[k])' <=> Expired(job[k]))
  BY <1>1, <1>2 DEF Expired
<1> HIDE DEF j
<1>4. Work!Report(j, row.status)
  BY <1>1, <1>2, <1>3 DEF Work!Report
<1>5. QED
  BY <1>1, <1>4 DEF j

LEMMA WorkLapse ==
    ASSUME RefInv, Tick
    PROVE  \E S \in SUBSET Job : Work!Lapse(S)
<1> DEFINE S == {j \in Job : Expired(job[j])'}
<1>1. job' = job /\ grants' = grants /\ now \in Int /\ now' = now + 1
  BY DEF Tick, RefInv, Coherent, TypeOK, jobVars
<1>2. \A j \in Job : job[j].status = "claimed" => job[j].locked_until \in Int
  BY DEF RefInv, Coherent, TypeOK, RowConstraints, Row, Time
<1>3. \A j \in Job : Expired(job[j]) => Expired(job[j])'
  BY <1>1, <1>2 DEF Expired
<1>4. \A j \in S : job[j].status = "claimed"
  BY <1>1 DEF Expired
<1>5. Work!Lapse(S)
  BY <1>1, <1>3, <1>4 DEF Work!Lapse
<1>6. QED
  BY <1>5

\* A step that touches neither rows, grants nor the clock.
LEMMA WorkStutter ==
    ASSUME UNCHANGED <<now, job, grants>>
    PROVE  UNCHANGED Work!vars
  BY DEF Work!vars, Expired

THEOREM WorkStep == RefInv /\ [Next]_vars => [Work!Next]_(Work!vars)
<1> SUFFICES ASSUME RefInv, [Next]_vars PROVE [Work!Next]_(Work!vars)
  OBVIOUS
<1>1. ASSUME NEW j \in Job, EnqueuePending(j) PROVE Work!Next
  BY <1>1, WorkEnqueue DEF Work!Next
<1>2. ASSUME NEW a \in Agent, NEW j \in Job, Claim(a, j) PROVE Work!Next
  BY <1>2, WorkGrant DEF Work!Next
<1>3. ASSUME NEW t \in tickets, Heartbeat(t) PROVE UNCHANGED Work!vars
  BY <1>3, WorkHeartbeat
<1>4. ASSUME NEW t \in tickets, Submit(t) PROVE Work!Next
  <2> DEFINE row == CompletedRow(job[t.job], t)
  <2>1. /\ Accepts(t) /\ t \in Ticket /\ job[t.job] \in Row /\ RowCoherent(job[t.job])
        /\ job[t.job].status = "claimed"
    BY <1>4, AcceptedRow, RowIsCoherent DEF Submit, RefInv
  <2>2. row \in Row
    BY <2>1, CompletedRowOK
  <2>3. row.status = "completed" /\ row.lock_token = NULL /\ row.result_token = t.token
    BY <2>1 DEF CompletedRow, UnlockedRow, Row
  <2>4. t.job \in Job /\ Work!Report(t.job, "completed")
    BY <1>4, <2>1, <2>2, <2>3, WorkReport DEF Submit
  <2>5. QED
    BY <2>4 DEF Work!Next
<1>5. ASSUME NEW t \in tickets, NEW retryable \in BOOLEAN, Fail(t, retryable) PROVE Work!Next
  <2>1. PICK row : row = FailedRow(job[t.job], t, retryable)
    OBVIOUS
  <2>2. /\ Accepts(t) /\ t \in Ticket /\ job[t.job] \in Row /\ RowCoherent(job[t.job])
        /\ job[t.job].status = "claimed"
    BY <1>5, AcceptedRow, RowIsCoherent DEF Fail, RefInv
  <2>3. row \in Row
    BY <2>1, <2>2, FailedRowOK
  <2>4. row.status \in {"pending", "failed"} /\ row.lock_token = NULL
        /\ row.result_token = t.token
    BY <2>1, <2>2 DEF FailedRow, UnlockedRow, Row
  <2>5. job' = [job EXCEPT ![t.job] = row] /\ UNCHANGED <<now, grants>>
    BY <1>5, <2>1 DEF Fail
  <2>6. t.job \in Job /\ Work!Report(t.job, row.status)
    <3>1. row.status # "claimed"
      BY <2>4
    <3>2. QED
      BY <2>2, <2>3, <2>4, <2>5, <3>1, WorkReport
  <2>7. QED
    <3>1. row.status \in {"pending", "completed", "failed"}
      BY <2>4
    <3>2. QED
      BY <2>6, <3>1 DEF Work!Next
<1>6. CASE Tick
  BY <1>6, WorkLapse DEF Work!Next
<1>7. ASSUME UNCHANGED <<now, job, grants>> PROVE UNCHANGED Work!vars
  BY <1>7, WorkStutter
<1>8. QED
  BY <1>1, <1>2, <1>3, <1>4, <1>5, <1>6, <1>7
     DEF Next, Refused, Reply, LoseReply, AgentCrash, AcquireLock, ReleaseLock, PurgeAsset,
         vars, jobVars

\* The job queue implements ExclusiveWork, for every set of jobs, agents and
\* assets and every bound.
THEOREM ImplementsWork == Spec => WorkSpec
  BY WorkInit, WorkStep, RefInvariant, PTL DEF Spec, WorkSpec, Work!Spec
=============================================================================
