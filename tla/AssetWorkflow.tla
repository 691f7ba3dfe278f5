---------------------------- MODULE AssetWorkflow ----------------------------
(***************************************************************************)
(* The life of an asset under everything that writes it at the same time:  *)
(* results of processing jobs, human mutations, batch moves, purges and    *)
(* the watchdog of operation locks.                                        *)
(*                                                                         *)
(* A request is a PHP process.  It reads the row once (the entity stays in *)
(* the identity map), looks at the locks, and later flushes: Doctrine then *)
(* UPDATEs the columns that differ from what the request READ, whatever    *)
(* the row holds by then; the JSON column `fields` is one column.  Each    *)
(* SQL statement commits on its own, so other requests run between any two *)
(* steps, and a process may die between any two steps.                     *)
(*                                                                         *)
(* A batch (moves, decisions, purges) is modelled as one request per asset *)
(* of it: each reads, checks and writes its own row, with other steps in   *)
(* between.  Leases of jobs are at the level of ExclusiveWork: JobLease    *)
(* says how a job comes to be claimed by one agent.                        *)
(***************************************************************************)
EXTENDS Naturals

CONSTANTS
    Asset,        \* assets
    Request,      \* slots for requests under way
    Kind,         \* the job types queued for an asset
    NULL,         \* no request, no lock
    Orphan,       \* the holder of a lock whose process died
    InitState,    \* states assets may start in
    InitDone,     \* the flags of an asset that was not reviewed yet
    MaxVersion    \* bound: review_processing_version

\* App\Asset\AssetState, and the transitions AssetStateMachine allows.
State == {"DISCOVERED", "READY", "PROCESSING_REVIEW", "PROCESSED", "DECISION_PENDING",
          "DECIDED_KEEP", "DECIDED_REJECT", "MOVE_QUEUED", "ARCHIVED", "REJECTED", "PURGED"}

Transitions ==
    [DISCOVERED        |-> {"READY"},
     READY             |-> {"PROCESSING_REVIEW"},
     PROCESSING_REVIEW |-> {"PROCESSED", "READY"},
     PROCESSED         |-> {"DECISION_PENDING", "READY"},
     DECISION_PENDING  |-> {"DECIDED_KEEP", "DECIDED_REJECT"},
     DECIDED_KEEP      |-> {"MOVE_QUEUED", "DECIDED_REJECT", "DECISION_PENDING"},
     DECIDED_REJECT    |-> {"MOVE_QUEUED", "DECIDED_KEEP", "DECISION_PENDING"},
     MOVE_QUEUED       |-> {"ARCHIVED", "REJECTED"},
     ARCHIVED          |-> {"DECISION_PENDING", "READY"},
     REJECTED          |-> {"DECISION_PENDING", "READY", "PURGED"},
     PURGED            |-> {}]

\* Mutant: the table is not consulted.
CanTransition_Unchecked(from, to) == TRUE

\* AssetStateMachine::transition: to the same state it does nothing.
CanTransition(from, to) == from = to \/ to \in Transitions[from]

\* The states decide, reopen and PATCH may ask for.
HumanTarget == {"DECISION_PENDING", "DECIDED_KEEP", "DECIDED_REJECT", "ARCHIVED", "REJECTED"}

\* The flags job results leave in `fields`; Review is what a profile needs.
Flag == {"facts", "proxy", "thumbs", "waveform"}
Review == {"facts", "proxy", "thumbs"}
isProcessingProfileComplete(done) == Review \subseteq done

\* The job types that are queued (transcribe_audio and suggest_tags are accepted by
\* submit, and nothing queues them), and the flags a result of each may set: those
\* of the kinds in its derived manifest, whatever the type of the job.
JobType == {"extract_facts", "generate_preview", "generate_thumbnails",
            "generate_audio_waveform"}
applyFlags(kind) == IF kind = "extract_facts" THEN {{"facts"}}
                    ELSE SUBSET {"proxy", "thumbs", "waveform"}

\* The states only an asset whose review was complete gets to.
Reviewable == {"PROCESSED", "DECISION_PENDING", "DECIDED_KEEP", "DECIDED_REJECT",
               "MOVE_QUEUED", "ARCHIVED", "REJECTED", "PURGED"}

LockType == {"asset_move_lock", "asset_purge_lock"}
Version == 1..MaxVersion

\* A claim whose lease ran out is pending again for all this module can tell.
Phase == {"absent", "pending", "claimed", "completed", "failed"}
Op == {"edit", "reprocess", "move", "purge", "submit"}
Step == {"load", "check_lock", "check_claims", "acquire", "delete", "write", "release"}

Row == [state: State, done: SUBSET Flag, version: Version]

\* read is the entity as it was loaded; to, the state the request asks for; flags,
\* what a submitted result sets; touches, whether the payload changes `fields`
\* beyond the flags, so that the column is written.
RequestRecord == [op: Op, step: Step, asset: Asset, read: Row,
                  to: State, flags: SUBSET Flag, touches: BOOLEAN]

ASSUME WorkflowAssumption ==
    /\ NULL \notin Request /\ NULL \notin RequestRecord
    /\ Orphan \notin Request /\ NULL # Orphan
    /\ Kind \subseteq JobType
    /\ InitState \subseteq State \ {"MOVE_QUEUED"}   \* which no request ever saves
    /\ InitDone \subseteq Flag
    /\ MaxVersion \in Nat \ {0}

VARIABLES
    asset,      \* the columns state and fields (flags, version) of each asset
    job,        \* the phase of each job <<asset, kind, version>>
    locks,      \* asset_operation_lock: who acquired the active row, by asset and type
    req,        \* requests under way
    reviewed,   \* history: assets whose complete profile was once written
    spoilt      \* history: assets of which a submit died before it had written its result, or
                \* whose fields somebody wrote who had read them before another writer

vars == <<asset, job, locks, req, reviewed, spoilt>>

Job == Asset \X Kind \X Version

TypeOK ==
    /\ asset \in [Asset -> Row]
    /\ job \in [Job -> Phase]
    /\ locks \in [Asset -> [LockType -> Request \cup {NULL, Orphan}]]
    /\ req \in [Request -> RequestRecord \cup {NULL}]
    /\ reviewed \in SUBSET Asset
    /\ spoilt \in SUBSET Asset

Init ==
    /\ \E state \in [Asset -> InitState] :
          /\ asset = [x \in Asset |->
                [state |-> state[x], version |-> 1,
                 done |-> IF state[x] \in Reviewable THEN Review \cup InitDone ELSE InitDone]]
          /\ job = [j \in Job |-> IF j[3] # 1 THEN "absent"
                                  ELSE IF state[j[1]] \in Reviewable THEN "completed"
                                  ELSE "pending"]
          /\ reviewed = {x \in Asset : state[x] \in Reviewable}
    /\ locks = [x \in Asset |-> [type \in LockType |-> NULL]]
    /\ req = [r \in Request |-> NULL]
    /\ spoilt = {}

-----------------------------------------------------------------------------
\* Helpers

hasActiveLock(x) == \E type \in LockType : locks[x][type] # NULL

LockOf(op) == IF op = "purge" THEN "asset_purge_lock" ELSE "asset_move_lock"

\* Request r goes to a step, or is answered.
GoTo(r, step) == req' = [req EXCEPT ![r].step = step]
Answer(r) == req' = [req EXCEPT ![r] = NULL]

At(r, step) == req[r] # NULL /\ req[r].step = step

\* Mutant: the facts alone complete a profile.
AfterResult_FactsOnly(state, done) ==
    IF state \in {"READY", "PROCESSING_REVIEW", "PROCESSED"}
    THEN IF "facts" \in done THEN "DECISION_PENDING" ELSE "PROCESSING_REVIEW"
    ELSE state

\* Mutant: a complete profile is put up for decision whatever the asset has become.
AfterResult_Always(state, done) ==
    IF isProcessingProfileComplete(done) THEN "DECISION_PENDING"
    ELSE IF state = "READY" THEN "PROCESSING_REVIEW" ELSE state

\* SubmitJobAssetMutator: READY goes to review, a complete profile to decision.
AfterResult(state, done) ==
    IF state \in {"READY", "PROCESSING_REVIEW", "PROCESSED"}
    THEN IF isProcessingProfileComplete(done) THEN "DECISION_PENDING"
         ELSE IF state = "READY" THEN "PROCESSING_REVIEW" ELSE state
    ELSE state

\* Mutant: the version stays.
ReprocessedRow_SameVersion(read) ==
    [state |-> "READY", done |-> read.done \ Review, version |-> read.version]

ReprocessedRow(read) ==
    [state |-> "READY", done |-> read.done \ Review, version |-> read.version + 1]

\* The row a request would leave if nothing had happened since it read it.
NewRow(q) ==
    LET read == q.read
        flags == read.done \cup q.flags
    IN  CASE q.op = "edit"      -> [read EXCEPT !.state = q.to]
          [] q.op = "reprocess" -> ReprocessedRow(read)
          [] q.op = "move"      -> [read EXCEPT !.state = IF @ = "DECIDED_KEEP"
                                                          THEN "ARCHIVED" ELSE "REJECTED"]
          [] q.op = "purge"     -> [read EXCEPT !.state = "PURGED"]
          [] q.op = "submit"    -> [read EXCEPT !.done = flags,
                                                !.state = AfterResult(@, flags)]

\* Whether a request writes the column `fields`.
FieldsChanged(q) ==
    \/ q.touches
    \/ NewRow(q).done # q.read.done
    \/ NewRow(q).version # q.read.version

\* AssetRepository::save: the columns that differ from what was read.
Saved(row, q) ==
    LET new == NewRow(q) IN
    [state   |-> IF new.state # q.read.state THEN new.state ELSE row.state,
     done    |-> IF FieldsChanged(q) THEN new.done ELSE row.done,
     version |-> IF FieldsChanged(q) THEN new.version ELSE row.version]

\* The fields a request writes over are not those it read.
Overwrites(row, q) ==
    FieldsChanged(q) /\ <<row.done, row.version>> # <<q.read.done, q.read.version>>

-----------------------------------------------------------------------------
\* Requests.  A request its own state check would refuse changes nothing and is
\* left out: the guards of these actions are those checks, on the row just read.

Begin(r, op, x, to, touches) ==
    /\ req[r] = NULL
    /\ req' = [req EXCEPT ![r] =
          [op |-> op, step |-> "check_lock", asset |-> x, read |-> asset[x],
           to |-> to, flags |-> {}, touches |-> touches]]
    /\ UNCHANGED <<asset, job, locks, reviewed, spoilt>>

\* decide, reopen and PATCH, which may change other fields at the same time, or
\* only those and leave the state as it read it.
Edit(r, x, to, touches) ==
    /\ asset[x].state # "PURGED"
    /\ to \in HumanTarget \cup {asset[x].state}
    /\ CanTransition(asset[x].state, to)
    /\ asset[x].state # to \/ touches
    /\ Begin(r, "edit", x, to, touches)

Reprocess(r, x) ==
    /\ CanTransition(asset[x].state, "READY")
    /\ asset[x].version < MaxVersion
    /\ Begin(r, "reprocess", x, "READY", FALSE)

applyMoves(r, x) ==
    /\ asset[x].state \in {"DECIDED_KEEP", "DECIDED_REJECT"}
    /\ Begin(r, "move", x, "MOVE_QUEUED", FALSE)

purge(r, x) ==
    /\ asset[x].state = "REJECTED"
    /\ Begin(r, "purge", x, "PURGED", FALSE)

CheckLock(r) ==
    /\ At(r, "check_lock")
    /\ IF hasActiveLock(req[r].asset)
       THEN Answer(r)
       ELSE GoTo(r, CASE req[r].op = "purge" -> "check_claims"
                      [] req[r].op = "move"  -> "acquire"
                      [] OTHER               -> "write")
    /\ UNCHANGED <<asset, job, locks, reviewed, spoilt>>

\* The count of live claims a purge does before it takes its lock.
CheckClaims(r) ==
    /\ At(r, "check_claims")
    /\ IF \E j \in Job : j[1] = req[r].asset /\ job[j] = "claimed"
       THEN Answer(r)
       ELSE GoTo(r, "acquire")
    /\ UNCHANGED <<asset, job, locks, reviewed, spoilt>>

\* Mutant: the result of acquire is not looked at.
Acquire_Unchecked(r) ==
    /\ At(r, "acquire")
    /\ locks' = [locks EXCEPT ![req[r].asset][LockOf(req[r].op)] =
                    IF @ # NULL THEN @ ELSE r]
    /\ GoTo(r, IF req[r].op = "purge" THEN "delete" ELSE "write")
    /\ UNCHANGED <<asset, job, reviewed, spoilt>>

\* OperationLockWriter::acquire: the unique index admits one active row per type.
Acquire(r) ==
    /\ At(r, "acquire")
    /\ LET x == req[r].asset
           type == LockOf(req[r].op)
       IN  IF locks[x][type] # NULL
           THEN Answer(r) /\ UNCHANGED locks
           ELSE /\ locks' = [locks EXCEPT ![x][type] = r]
                /\ GoTo(r, IF req[r].op = "purge" THEN "delete" ELSE "write")
    /\ UNCHANGED <<asset, job, reviewed, spoilt>>

\* AssetPurgeStorageService: all files are deleted, or the purge is given up.
Delete(r) ==
    /\ At(r, "delete")
    /\ GoTo(r, "write") \/ GoTo(r, "release")
    /\ UNCHANGED <<asset, job, locks, reviewed, spoilt>>

Write(r) ==
    /\ At(r, "write")
    /\ LET q == req[r] IN
       /\ asset' = [asset EXCEPT ![q.asset] = Saved(@, q)]
       /\ reviewed' = IF isProcessingProfileComplete(NewRow(q).done)
                      THEN reviewed \cup {q.asset} ELSE reviewed
       /\ spoilt' = IF Overwrites(asset[q.asset], q) THEN spoilt \cup {q.asset} ELSE spoilt
       /\ IF q.op \in {"move", "purge"} THEN GoTo(r, "release") ELSE Answer(r)
    /\ UNCHANGED <<job, locks>>

\* The finally block: OperationLockWriter::release frees the active row of the
\* type, whoever acquired it.
Release(r) ==
    /\ At(r, "release")
    /\ locks' = [locks EXCEPT ![req[r].asset][LockOf(req[r].op)] = NULL]
    /\ Answer(r)
    /\ UNCHANGED <<asset, job, reviewed, spoilt>>

\* The process dies; a lock it acquired stays in the table.  (The same is left when
\* acquire inserts the row and then fails to record its metric: it answers false.)
Crash(r) ==
    /\ req[r] # NULL
    /\ Answer(r)
    /\ locks' = [x \in Asset |-> [type \in LockType |->
                    IF locks[x][type] = r THEN Orphan ELSE locks[x][type]]]
    /\ spoilt' = IF req[r].op = "submit" THEN spoilt \cup {req[r].asset} ELSE spoilt
    /\ UNCHANGED <<asset, job, reviewed>>

\* Mutant: only moves are recovered.
Stale_MoveOnly(x, type) == locks[x][type] = Orphan /\ type = "asset_move_lock"

\* app:locks:watchdog-recover and POST /ops/locks/recover.  Their threshold (30
\* minutes) is taken to be longer than any process lives: only locks whose
\* process died get that old.
Stale(x, type) == locks[x][type] = Orphan

Watchdog(x, type) ==
    /\ Stale(x, type)
    /\ locks' = [locks EXCEPT ![x][type] = NULL]
    /\ UNCHANGED <<asset, job, req, reviewed, spoilt>>

-----------------------------------------------------------------------------
\* Processing jobs

SetPhase(j, phase) ==
    /\ job' = [job EXCEPT ![j] = phase]
    /\ UNCHANGED <<asset, locks, req, reviewed, spoilt>>

\* enqueueRequiredJobs, at the asset's version; POST /ops/ingest/requeue, at 1.
Enqueue(j) ==
    /\ job[j] = "absent"
    /\ j[3] \in {asset[j[1]].version, 1}
    /\ SetPhase(j, "pending")

Claim(j) ==
    /\ job[j] = "pending"
    /\ asset[j[1]].state \notin {"MOVE_QUEUED", "PURGED"}
    /\ ~hasActiveLock(j[1])
    /\ SetPhase(j, "claimed")

\* The lease of the claim runs out, or the agent reports a failure.
Lapse(j) == job[j] = "claimed" /\ SetPhase(j, "pending")

Fail(j) == job[j] = "claimed" /\ \E phase \in {"pending", "failed"} : SetPhase(j, phase)

\* Submit: the job is completed in the database, then SubmitJobAssetMutator loads
\* the asset (LoadForResult) and writes the result into it (Write), with no lock.
\* A facts patch may change `fields` beyond its flag.
Submit(r, j, flags, touches) ==
    /\ req[r] = NULL
    /\ job[j] = "claimed"
    /\ flags \in applyFlags(j[2])
    /\ touches => j[2] = "extract_facts"
    /\ job' = [job EXCEPT ![j] = "completed"]
    /\ req' = [req EXCEPT ![r] =
          [op |-> "submit", step |-> "load", asset |-> j[1], read |-> asset[j[1]],
           to |-> asset[j[1]].state, flags |-> flags, touches |-> touches]]
    /\ UNCHANGED <<asset, locks, reviewed, spoilt>>

LoadForResult(r) ==
    /\ At(r, "load")
    /\ req' = [req EXCEPT ![r].read = asset[req[r].asset], ![r].step = "write"]
    /\ UNCHANGED <<asset, job, locks, reviewed, spoilt>>

-----------------------------------------------------------------------------
\* What a request does on its own once begun.
Proceed(r) ==
    \/ LoadForResult(r) \/ CheckLock(r) \/ CheckClaims(r) \/ Acquire(r)
    \/ Delete(r) \/ Write(r) \/ Release(r)

Next ==
    \/ \E r \in Request, x \in Asset :
          \/ \E to \in State, touches \in BOOLEAN : Edit(r, x, to, touches)
          \/ Reprocess(r, x)
          \/ applyMoves(r, x)
          \/ purge(r, x)
    \/ \E r \in Request : Proceed(r) \/ Crash(r)
    \/ \E r \in Request, j \in Job, flags \in SUBSET Flag, touches \in BOOLEAN :
          Submit(r, j, flags, touches)
    \/ \E j \in Job : Enqueue(j) \/ Claim(j) \/ Lapse(j) \/ Fail(j)
    \/ \E x \in Asset, type \in LockType : Watchdog(x, type)

\* A process runs on until it answers or dies, and cron runs the watchdog.
Fairness ==
    /\ \A r \in Request : WF_vars(Proceed(r))
    /\ \A x \in Asset, type \in LockType : WF_vars(Watchdog(x, type))

Spec == Init /\ [][Next]_vars /\ Fairness

-----------------------------------------------------------------------------
\* Properties

\* A request between the acquisition and the release of its operation lock.
Holds(r, x, type) ==
    /\ req[r] # NULL
    /\ req[r].asset = x
    /\ req[r].op \in {"move", "purge"}
    /\ LockOf(req[r].op) = type
    /\ req[r].step \in {"delete", "write", "release"}

\* A move or a purge works on an asset only while the lock row it acquired is
\* active and its own, so no two of a kind work on one asset at a time: releases
\* name no owner and the watchdog asks nobody, yet neither ever frees the lock of
\* a process that is at work.
LockOwnership ==
    \A r \in Request, x \in Asset, type \in LockType :
        Holds(r, x, type) => locks[x][type] = r

\* However requests interleave, an asset becomes ARCHIVED, REJECTED or PURGED only
\* by the hand of a move or a purge whose lock is in place: PATCH, which lists
\* ARCHIVED and REJECTED among its states, never takes it there.
FinalStatesUnderLock ==
    [][\A x \in Asset :
          asset'[x].state # asset[x].state =>
              /\ asset'[x].state \in {"ARCHIVED", "REJECTED"} =>
                    locks[x]["asset_move_lock"] \in Request
              /\ asset'[x].state = "PURGED" =>
                    locks[x]["asset_purge_lock"] \in Request]_vars

\* No asset is up for decision, decided, moved or purged unless all results its
\* profile needs were once in its row together, although every writer works from
\* its own reading of the row and none of them locks it.
ReviewedBeforeDecision ==
    \A x \in Asset : asset[x].state \in Reviewable => x \in reviewed

\* The asset is purged, and whoever will yet write its state has read it so.
PurgeSettled(x) ==
    /\ asset[x].state = "PURGED"
    /\ \A r \in Request : req[r] # NULL /\ req[r].asset = x =>
          req[r].read.state = "PURGED" \/ req[r].step \in {"load", "release"}

\* A purge can be written over by who read the asset before it and checked the locks
\* too early.  Once none of these is left it is final: results of jobs that were claimed
\* before, edits, reprocesses and moves leave the asset purged for good.
PurgeIsFinal == [][\A x \in Asset : PurgeSettled(x) => PurgeSettled(x)']_vars

\* What a request under way carries from its checks to its write, and the
\* inductive core of the properties above: the checks were made on the row as it
\* was read, and what was read of a reviewed asset does not become untrue.
RequestInv ==
    \A r \in Request :
        LET q == req[r] IN
        q # NULL =>
            /\ q.read.state # "MOVE_QUEUED"
            /\ q.read.state \in Reviewable => q.asset \in reviewed
            /\ q.op = "edit" => /\ q.read.state # "PURGED"
                               /\ q.to \in HumanTarget \cup {q.read.state}
                               /\ CanTransition(q.read.state, q.to)
            /\ q.op = "reprocess" => /\ q.read.version < MaxVersion
                                    /\ CanTransition(q.read.state, "READY")
            /\ q.op = "move" => q.read.state \in {"DECIDED_KEEP", "DECIDED_REJECT"}
            /\ q.op = "purge" => q.read.state = "REJECTED"
            /\ q.op = "submit" => q.step \in {"load", "write"}
            /\ q.step \in {"acquire", "release"} => q.op \in {"move", "purge"}
            /\ q.step \in {"check_claims", "delete"} => q.op = "purge"
            /\ q.step = "load" => q.op = "submit"

NeverQueued == \A x \in Asset : asset[x].state # "MOVE_QUEUED"

WorkflowInv ==
    TypeOK /\ RequestInv /\ NeverQueued /\ LockOwnership /\ ReviewedBeforeDecision

\* An operation lock does not outlive the process that acquired it for ever: claims,
\* decisions and purges it blocks become possible again, whatever step it died at.
LocksAreFreed ==
    \A x \in Asset, type \in LockType : locks[x][type] # NULL ~> locks[x][type] = NULL

\* Once the facts of the asset's current version are extracted and submitted, and
\* no request on the asset is under way, they are in its row.
FactsArrived(x) ==
    (\A r \in Request : req[r] # NULL => req[r].asset # x) =>
        \A j \in Job :
            (j[1] = x /\ j[2] = "extract_facts" /\ j[3] = asset[x].version
             /\ job[j] = "completed") => "facts" \in asset[x].done

\* Neither a crash nor a concurrent writer loses the result of a job that will not
\* run again.
ResultsReachTheAsset == \A x \in Asset : FactsArrived(x)

\* Results are lost in two ways only: the process dies between the job's UPDATE and the
\* asset's, or somebody writes fields that another writer has changed since they were
\* read.  Whatever else overlaps - moves, edits of the state, reprocessing in
\* between, results of older rounds, locks, lapsed leases - the result of a completed
\* job is in the row as soon as nobody is at work on the asset.
ResultsAreKept == \A x \in Asset \ spoilt : FactsArrived(x)
=============================================================================
