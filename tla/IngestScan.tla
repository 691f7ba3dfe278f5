----------------------------- MODULE IngestScan ------------------------------
(***************************************************************************)
(* From files in the INBOX to assets under review.                         *)
(*                                                                         *)
(* Every minute a tick polls the INBOX, notes which files have not changed *)
(* since the last poll, and works down the list of those: an original      *)
(* becomes an asset with processing jobs, a sidecar or a proxy beside its  *)
(* original is attached to it.  Each file is one database transaction; the *)
(* move of a proxy to .derived happens on the storage in the middle of it. *)
(*                                                                         *)
(* Two things make this hard.  In PostgreSQL an INSERT that meets a unique *)
(* index aborts the transaction, though enqueuePendingIfMissing catches    *)
(* the exception: the next statement throws, everything is rolled back and *)
(* the file is noted as missing.  And a rollback does not reach the        *)
(* identity map: what it took back is still there for the rest of the tick.*)
(***************************************************************************)
EXTENDS Naturals, FiniteSets

CONSTANTS
    Asset,        \* originals by path, from which the uuid is made
    File,         \* the files that may come: <<asset, "original" | "sidecar" | "proxy">>
    Rank,         \* the files as the poller sorts their paths
    PollLimit,    \* --poll-limit
    NULL,         \* no file, no row, no tick
    LastStamp,    \* bound: the last content of each file
    MaxVersion,   \* bound: review_processing_version
    MaxEvents     \* bound: removals, crashes, storage failures, requeueings

Part == {"original", "sidecar", "proxy"}

\* generate_thumbnails (and generate_audio_waveform) are queued whenever extract_facts
\* is: it stands for them too, and the flag facts for thumbs.
Type == {"extract_facts", "generate_preview"}

\* What a result of each type sets, and what a review needs.
FlagOf == [extract_facts |-> "facts", generate_preview |-> "proxy"]
Review == {"facts", "proxy"}

State == {"DISCOVERED", "READY", "PROCESSING_REVIEW", "DECISION_PENDING", "ARCHIVED"}

VARIABLES
    disk,         \* the content of each file in the INBOX: size and time of change
    scan,         \* ingest_scan_file
    asset,        \* the rows of the assets
    jobs,         \* processing_job: <<asset, type, version>>
    derived,      \* of each asset: its proxy in .derived, and the row for it
    tick,         \* the tick under way
    threw,        \* history: assets with whom the storage failed a tick
    requeued,     \* history: assets of which somebody requeued jobs
    events        \* how many events of MaxEvents have happened

vars == <<disk, scan, asset, jobs, derived, tick, threw, requeued, events>>

-----------------------------------------------------------------------------
\* Types

\* Content 0 is empty.
Stamp == UNION {0..LastStamp[f] : f \in File}
Version == 1..MaxVersion

\* stable is the status of that name.  Of the others, discovered, queued and missing,
\* only logs and counters tell one from another: any poll can make them stable again.
ScanRow == [stamp: Stamp, stable: BOOLEAN]

\* The column fields: review_processing_version, the flags, and whether
\* paths.sidecars_relative names the sidecar.
Fields == [version: Version, done: SUBSET Review, sidecar: BOOLEAN]

Row == [state: State, fields: Fields]

Job == Asset \X Type \X Version

\* A transaction that has moved a proxy: its file, the fields it found the asset with
\* and those it is to save.
Work == [file: File, before: Fields, fields: Fields]

\* todo: what is left of the list; known: the identity map.
Tick == [todo: SUBSET File, known: [Asset -> Fields \cup {NULL}], work: Work \cup {NULL}]

ASSUME IngestAssumption ==
    /\ File \subseteq Asset \X Part
    /\ Rank \in [File -> Nat]
    /\ \A f, g \in File : Rank[f] = Rank[g] => f = g
    /\ PollLimit \in Nat \ {0}
    /\ NULL \notin Stamp /\ NULL \notin ScanRow /\ NULL \notin Row
    /\ NULL \notin Fields /\ NULL \notin Work /\ NULL \notin Tick
    /\ LastStamp \in [File -> Nat] /\ MaxVersion \in Nat \ {0} /\ MaxEvents \in Nat

TypeOK ==
    /\ disk \in [File -> Stamp \cup {NULL}]
    /\ scan \in [File -> ScanRow \cup {NULL}]
    /\ asset \in [Asset -> Row \cup {NULL}]
    /\ jobs \in [Job -> {"absent", "pending", "completed"}]
    /\ derived \in [Asset -> [file: BOOLEAN, row: BOOLEAN]]
    /\ tick \in Tick \cup {NULL}
    /\ threw \in SUBSET Asset
    /\ requeued \in SUBSET Asset
    /\ events \in 0..MaxEvents

Init ==
    /\ disk = [f \in File |-> NULL]
    /\ scan = [f \in File |-> NULL]
    /\ asset = [a \in Asset |-> NULL]
    /\ jobs = [j \in Job |-> "absent"]
    /\ derived = [a \in Asset |-> [file |-> FALSE, row |-> FALSE]]
    /\ tick = NULL
    /\ threw = {}
    /\ requeued = {}
    /\ events = 0

-----------------------------------------------------------------------------
\* Helpers

Here(a, part) == <<a, part>> \in File /\ disk[<<a, part>>] # NULL

\* isFile and fileSize > 0
Usable(a) == Here(a, "proxy") /\ disk[<<a, "proxy">>] > 0

NewFields == [version |-> 1, done |-> {}, sidecar |-> FALSE]

\* findOrCreateAsset: the entity of the identity map, of the row, or a new one.
Entity(a) ==
    IF tick.known[a] # NULL THEN tick.known[a]
    ELSE IF asset[a] # NULL THEN asset[a].fields ELSE NewFields

\* enqueueRequiredJobs
Required(hasProxy) == IF hasProxy THEN Type \ {"generate_preview"} ELSE Type

Exists(a, types, version) == \E type \in types : jobs[<<a, type, version>>] # "absent"

\* File f of the list is done with; the identity map keeps the entity.  The tick ends
\* with its list.
Noted(f, fields) ==
    /\ tick' = IF tick.todo = {f} THEN NULL
               ELSE [tick EXCEPT !.todo = @ \ {f}, !.known[f[1]] = fields, !.work = NULL]
    /\ scan' = [scan EXCEPT ![f].stable = FALSE]

\* Mutant: a new asset is not persisted.
Saved_UpdateOnly(a, before, fields) ==
    IF asset[a] # NULL /\ fields # before THEN [asset EXCEPT ![a].fields = fields] ELSE asset

\* What the transaction leaves of the asset's row: it is inserted if it is new, and
\* its fields are written, as they were read but for the changes, if there are any.  An entity whose
\* INSERT was rolled back is not inserted again: its UPDATE meets no row.
Saved(a, before, fields) ==
    IF asset[a] # NULL
    THEN IF fields # before THEN [asset EXCEPT ![a].fields = fields] ELSE asset
    ELSE IF tick.known[a] = NULL
         THEN [asset EXCEPT ![a] = [state |-> "DISCOVERED", fields |-> fields]] ELSE asset

Queued(a, types, version) ==
    [j \in Job |-> IF j[1] = a /\ j[2] \in types /\ j[3] = version THEN "pending" ELSE jobs[j]]

\* Mutant: the unique violation does not abort the transaction (as in SQLite).
Commit_GoesOn(f, before, fields, hasProxy) ==
    LET a == f[1] IN
    /\ asset' = Saved(a, before, fields)
    /\ jobs' = [j \in Job |-> IF jobs[j] = "absent"
                             THEN Queued(a, Required(hasProxy), fields.version)[j] ELSE jobs[j]]
    /\ derived' = [derived EXCEPT ![a].row = @ \/ hasProxy]
    /\ Noted(f, fields)

\* The end of a transaction for file f: enqueueRequiredJobs, markQueued, COMMIT - or,
\* when one of the jobs is there already, the rollback and markMissing.
Commit(f, before, fields, hasProxy) ==
    LET a == f[1] IN
    /\ IF Exists(a, Required(hasProxy), fields.version)
       THEN UNCHANGED <<asset, jobs, derived>>
       ELSE /\ asset' = Saved(a, before, fields)
            /\ jobs' = Queued(a, Required(hasProxy), fields.version)
            /\ derived' = [derived EXCEPT ![a].row = @ \/ hasProxy]
    /\ Noted(f, fields)

Event == events < MaxEvents /\ events' = events + 1

history == <<threw, requeued>>

Idle == tick # NULL /\ tick.work = NULL

-----------------------------------------------------------------------------
\* Files

\* A file comes, or somebody goes on writing it.
Write(f) ==
    /\ disk[f] # LastStamp[f]
    /\ disk' = [disk EXCEPT ![f] = IF @ = NULL THEN 0 ELSE @ + 1]
    /\ UNCHANGED <<scan, asset, jobs, derived, tick, history, events>>

Remove(f) ==
    /\ disk[f] # NULL
    /\ Event
    /\ disk' = [disk EXCEPT ![f] = NULL]
    /\ UNCHANGED <<scan, asset, jobs, derived, tick, history>>

-----------------------------------------------------------------------------
\* The tick

\* FilesystemFilePoller::poll: the first files by path.
Polled ==
    {f \in File : /\ disk[f] # NULL
                  /\ Cardinality({g \in File : disk[g] # NULL /\ Rank[g] < Rank[f]}) < PollLimit}

\* ScanStateStore::recordDetectedFile: stable_count reaches 2 when size and time are
\* what they were at the last poll.
recordDetectedFile(f) ==
    [stamp |-> disk[f], stable |-> scan[f] # NULL /\ scan[f].stamp = disk[f]]

\* poll, and the list of enqueue-stable
Poll ==
    /\ tick = NULL
    /\ scan' = [f \in File |-> IF f \in Polled THEN recordDetectedFile(f) ELSE scan[f]]
    /\ LET stable == {f \in File : scan'[f] # NULL /\ scan'[f].stable} IN
       tick' = IF stable = {} THEN NULL
               ELSE [todo |-> stable, known |-> [a \in Asset |-> NULL], work |-> NULL]
    /\ UNCHANGED <<disk, asset, jobs, derived, history, events>>

\* A listed original that is gone; a sidecar or a proxy without its original.
Skip(a, part) ==
    /\ Idle
    /\ <<a, part>> \in tick.todo
    /\ ~Here(a, "original")
    /\ Noted(<<a, part>>, tick.known[a])
    /\ UNCHANGED <<disk, asset, jobs, derived, history, events>>

\* What an original attaches: the sidecars that are beside it.
WithSidecar(a) == [Entity(a) EXCEPT !.sidecar = @ \/ Here(a, "sidecar")]

\* processStableFile for an original without a usable proxy
Original(a) ==
    /\ Idle
    /\ <<a, "original">> \in tick.todo
    /\ Here(a, "original")
    /\ ~Usable(a)
    /\ Commit(<<a, "original">>, Entity(a), WithSidecar(a), FALSE)
    /\ UNCHANGED <<disk, history, events>>

\* handleAuxiliarySidecarCandidate.  It does not ask whether the sidecar is still there,
\* nor whether the original is stable.
Sidecar(a) ==
    /\ Idle
    /\ <<a, "sidecar">> \in tick.todo
    /\ Here(a, "original")
    /\ Commit(<<a, "sidecar">>, Entity(a), [Entity(a) EXCEPT !.sidecar = TRUE], FALSE)
    /\ UNCHANGED <<disk, history, events>>

\* handleSidecarOrProxyCandidate for a proxy that cannot be used, being empty or gone:
\* the asset is created, without jobs.
UselessProxy(a) ==
    /\ Idle
    /\ <<a, "proxy">> \in tick.todo
    /\ Here(a, "original")
    /\ ~Usable(a)
    /\ Here(a, "proxy") \/ ~derived[a].row \/ ~derived[a].file
    /\ asset' = Saved(a, Entity(a), Entity(a))
    /\ Noted(<<a, "proxy">>, Entity(a))
    /\ UNCHANGED <<disk, jobs, derived, history, events>>

\* The files for which a proxy is moved: the original that has one beside it, or the
\* proxy; for the latter one moved before will do.
MovesProxy(a, part) ==
    /\ Here(a, "original")
    /\ \/ part \in {"original", "proxy"} /\ Usable(a)
       \/ part = "proxy" /\ ~Here(a, "proxy") /\ derived[a].row /\ derived[a].file

EntityBeforeMove(a, part) == IF part = "original" THEN WithSidecar(a) ELSE Entity(a)

\* attachToAsset: the proxy leaves the INBOX, unless one is in .derived already ...
Materialize(a, part) ==
    /\ Idle
    /\ <<a, part>> \in tick.todo
    /\ MovesProxy(a, part)
    /\ tick' = [tick EXCEPT !.work =
          [file |-> <<a, part>>, before |-> Entity(a),
           fields |-> [EntityBeforeMove(a, part) EXCEPT !.done = @ \cup {"proxy"}]]]
    /\ disk' = IF derived[a].file THEN disk ELSE [disk EXCEPT ![<<a, "proxy">>] = NULL]
    /\ derived' = [derived EXCEPT ![a].file = TRUE]
    /\ UNCHANGED <<scan, asset, jobs, history, events>>

\* ... and the database follows.
Attach ==
    /\ tick # NULL
    /\ tick.work # NULL
    /\ Commit(tick.work.file, tick.work.before, tick.work.fields, TRUE)
    /\ UNCHANGED <<disk, history, events>>

\* The storage refuses the move: rollback, and the entity stays in the identity map.
MaterializeFails(a, part) ==
    /\ Idle
    /\ <<a, part>> \in tick.todo
    /\ MovesProxy(a, part) /\ ~derived[a].file
    /\ Event
    /\ Noted(<<a, part>>, EntityBeforeMove(a, part))
    /\ threw' = threw \cup {a}
    /\ UNCHANGED <<disk, asset, jobs, derived, requeued>>

Crash ==
    /\ tick # NULL
    /\ Event
    /\ tick' = NULL
    /\ UNCHANGED <<disk, scan, asset, jobs, derived, history>>

-----------------------------------------------------------------------------
\* Everybody else

\* SubmitJobAssetMutator::apply: from READY on, a result moves the asset along.
ReviewState(state, done) ==
    IF state \notin {"READY", "PROCESSING_REVIEW"} THEN state
    ELSE IF Review \subseteq done THEN "DECISION_PENDING" ELSE "PROCESSING_REVIEW"

\* A job is done and its result applied: whatever its version, and to an asset that
\* exists.  (AssetWorkflow has the steps of this.)
Report(a, type, version) ==
    /\ jobs[<<a, type, version>>] = "pending"
    /\ jobs' = [jobs EXCEPT ![<<a, type, version>>] = "completed"]
    /\ asset' = IF asset[a] = NULL THEN asset ELSE
          LET done == asset[a].fields.done \cup {FlagOf[type]} IN
          [asset EXCEPT ![a].fields.done = done, ![a].state = ReviewState(@, done)]
    /\ UNCHANGED <<disk, scan, derived, tick, history, events>>

\* Mutant: the version stays.
Reprocess_SameVersion(a) ==
    /\ asset[a] # NULL
    /\ asset[a].state # "DECISION_PENDING"
    /\ asset[a].fields.version < MaxVersion
    /\ asset' = [asset EXCEPT ![a].state = "READY", ![a].fields.done = {}]
    /\ UNCHANGED <<disk, scan, jobs, derived, tick, history, events>>

\* AssetWorkflowGateway::reprocess, from all states that can go to READY
Reprocess(a) ==
    /\ asset[a] # NULL
    /\ asset[a].state # "DECISION_PENDING"
    /\ asset[a].fields.version < MaxVersion
    /\ asset' = [asset EXCEPT ![a].state = "READY", ![a].fields.done = {},
                              ![a].fields.version = @ + 1]
    /\ UNCHANGED <<disk, scan, jobs, derived, tick, history, events>>

\* Decided to keep, moved, and the original taken out of the INBOX (Outbox has the steps).
Archive(a) ==
    /\ asset[a] # NULL
    /\ asset[a].state = "DECISION_PENDING"
    /\ asset' = [asset EXCEPT ![a].state = "ARCHIVED"]
    /\ disk' = [disk EXCEPT ![<<a, "original">>] = NULL]
    /\ UNCHANGED <<scan, jobs, derived, tick, history, events>>

\* OpsIngestController::requeueJobsForAsset: jobs of version 1, whatever the asset's.
Requeue(a) ==
    /\ asset[a] # NULL
    /\ Event
    /\ \E types \in {{"extract_facts"}, Required("proxy" \in asset[a].fields.done)} :
          jobs' = [j \in Job |-> IF j[1] = a /\ j[2] \in types /\ j[3] = 1 /\ jobs[j] = "absent"
                                 THEN "pending" ELSE jobs[j]]
    /\ requeued' = requeued \cup {a}
    /\ UNCHANGED <<disk, scan, asset, derived, tick, threw>>

-----------------------------------------------------------------------------
processStableFile ==
    \/ \E a \in Asset : Original(a) \/ Sidecar(a) \/ UselessProxy(a)
    \/ \E a \in Asset, part \in Part : Skip(a, part) \/ Materialize(a, part)
    \/ Attach

Next ==
    \/ \E f \in File : Write(f) \/ Remove(f)
    \/ Poll \/ processStableFile \/ Crash
    \/ \E a \in Asset, part \in Part : MaterializeFails(a, part)
    \/ \E a \in Asset : Reprocess(a) \/ Archive(a) \/ Requeue(a)
    \/ \E a \in Asset, type \in Type, version \in Version : Report(a, type, version)

\* Cron ticks, and agents do their jobs.
Fairness ==
    /\ WF_vars(Poll)
    /\ WF_vars(processStableFile)
    /\ WF_vars(\E a \in Asset, type \in Type, version \in Version : Report(a, type, version))

Spec == Init /\ [][Next]_vars /\ Fairness

-----------------------------------------------------------------------------
\* Properties

\* No round of processing is stranded: once jobs of an asset's version are queued, each
\* thing its review needs is there or a job that will bring it is waiting - whatever
\* of sidecars, proxies, rollbacks, crashes and reprocessing came in between.  A
\* version without a preview job has a proxy, on the storage and as a row.  (Not so if
\* an operator requeued parts of a round, or the storage failed: see JobsHaveAnAsset.)
NothingIsStranded ==
    \A a \in Asset \ (requeued \cup threw) : asset[a] # NULL =>
        LET v == asset[a].fields.version IN
        Exists(a, Type, v) =>
            /\ \A type \in Type :
                  FlagOf[type] \in asset[a].fields.done \/ jobs[<<a, type, v>>] = "pending"
            /\ jobs[<<a, "generate_preview", v>>] = "absent" => derived[a].row /\ derived[a].file

\* Jobs have an asset, whose results are not thrown away.  The exception is a tick in
\* which the storage refused to move a proxy: the asset it had created is rolled back
\* but not forgotten, and the next file of the asset queues jobs without a row - which
\* no later tick can make good, for the jobs are in its way.
JobsHaveAnAsset ==
    \A a \in Asset \ threw : Exists(a, Type, 1) => asset[a] # NULL

\* A step takes a reprocess back, or results of the round the asset is in.
TakesBack(a) ==
    LET old == asset[a].fields
        new == asset'[a].fields
    IN  \/ new.version < old.version
        \/ new.version = old.version /\ ~(old.done \subseteq new.done)

\* Ticks save whole columns which they read a while ago, or which a rollback left in
\* the identity map.  What such a save takes back - a reprocess, or results that came
\* in meanwhile - is of a round of which nothing was queued yet, and the same
\* transaction queues the round it leaves the row in, so that all of it is done again.
\* The asset and its sidecar are never taken back.
StaleSavesAreMadeGood ==
    [][\A a \in Asset : asset[a] # NULL =>
          /\ asset'[a] # NULL
          /\ asset[a].fields.sidecar => asset'[a].fields.sidecar
          /\ a \notin threw /\ TakesBack(a) =>
                /\ ~Exists(a, Type, asset[a].fields.version)
                /\ jobs'[<<a, "extract_facts", asset'[a].fields.version>>] = "pending"]_vars

\* PollLimit other files sort before the original.
Crowded(a) == Here(a, "original") /\ <<a, "original">> \notin Polled

\* What the round was for is there, and the asset is where it waits for a person.
Reviewed(a) ==
    /\ asset[a] # NULL
    /\ Review \subseteq asset[a].fields.done
    /\ \/ asset[a].state \in {"DECISION_PENDING", "ARCHIVED"}
       \/ asset[a].state = "DISCOVERED" /\ asset[a].fields.version = 1

\* An original that stays in the INBOX is ingested and comes to the end of its round,
\* the first one as well as one that reprocess asked for: a tick queues its jobs, they
\* are done, and the asset has what its review needs and is put up for decision -
\* through crashes, changes of the file and whatever else is polled with it, unless
\* PollLimit other files sort before it or one of the two histories applies.  A new
\* asset stays DISCOVERED, which apply leaves alone: nothing but a reprocess takes it
\* from there.
OriginalsAreReviewed ==
    \A a \in Asset :
        Here(a, "original") ~>
            ~Here(a, "original") \/ Crowded(a) \/ a \in threw \cup requeued \/ Reviewed(a)

\* A sidecar that lies beside the original of an asset gets attached to it.
SidecarsAreAttached ==
    \A a \in Asset :
        Here(a, "sidecar") /\ Here(a, "original") ~>
            \/ ~Here(a, "sidecar") \/ ~Here(a, "original")
            \/ asset[a] # NULL /\ asset[a].fields.sidecar
=============================================================================
