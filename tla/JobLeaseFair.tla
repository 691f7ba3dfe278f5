---------------------------- MODULE JobLeaseFair ----------------------------
(***************************************************************************)
(* JobLease with the fairness its deployment provides: agents poll, report *)
(* what they finish and renew a lease in time; time passes; locks of moves *)
(* and purges are released (by their holder, or by the watchdog command).  *)
(* Agents may still crash and replies may still be lost, MaxDisruptions    *)
(* times in all.                                                           *)
(***************************************************************************)
EXTENDS JobLease

\* The holder of job j's lease has what it needs to renew or end it, or is about
\* to be told.
Attended(j) ==
    \/ \E t \in tickets : t.job = j /\ Accepts(t)
    \/ \E a \in Agent, op \in {"claim", "heartbeat"} :
          /\ inflight[a] # NULL
          /\ inflight[a].op = op
          /\ inflight[a].job = j
          /\ inflight[a].token = job[j].lock_token

\* An agent renews long before the 300 seconds are over: only a lease that nobody
\* attends to any more runs out.  Seconds are counted while some lease runs; once
\* all have run out, a later second tells nothing new.
TimelyTick ==
    /\ Tick
    /\ \E j \in Job : job[j].status = "claimed" /\ ~Expired(job[j])
    /\ \A j \in Job : Attended(j) /\ job[j].status = "claimed" => job[j].locked_until > now

Finish(a) ==
    \E t \in tickets : t.agent = a /\ (Submit(t) \/ Fail(t, FALSE))

FairNext ==
    \/ \E j \in Job : EnqueuePending(j)
    \/ \E a \in Agent, j \in Job : Claim(a, j)
    \/ \E t \in tickets : Heartbeat(t) \/ Refused(t)
    \/ \E a \in Agent : Finish(a) \/ Reply(a) \/ LoseReply(a) \/ AgentCrash(a)
    \/ \E t \in tickets : Fail(t, TRUE)
    \/ \E x \in Asset, type \in LockType : AcquireLock(x, type) \/ ReleaseLock(x, type)
    \/ \E x \in Asset : PurgeAsset(x)
    \/ TimelyTick

\* Strong fairness of claiming and finishing: an agent that polls and reports for
\* ever is not for ever refused by requests that only sometimes come first.
Fairness ==
    /\ WF_vars(TimelyTick)
    /\ \A a \in Agent : WF_vars(Reply(a)) /\ SF_vars(Finish(a))
    /\ \A j \in Job : SF_vars(\E a \in Agent : Claim(a, j))
    /\ \A x \in Asset, type \in LockType : WF_vars(ReleaseLock(x, type))

FairSpec == Init /\ [][FairNext]_vars /\ Fairness

\* No job is stranded: whatever crashes, lost replies, retryable failures and
\* operation locks come in between, a queued job is finished in the end, unless
\* its asset is purged.
EveryJobSettles ==
    \A j \in Job :
        job[j].status = "pending" ~>
            job[j].status \in {"completed", "failed"} \/ AssetOf[j] \in purged
=============================================================================
