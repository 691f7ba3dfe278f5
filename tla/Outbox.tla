-------------------------------- MODULE Outbox --------------------------------
(***************************************************************************)
(* Where the files of decided assets are, and where their rows say they    *)
(* are.                                                                    *)
(*                                                                         *)
(* app:ingest:apply-outbox lists the newest ARCHIVED and REJECTED assets,  *)
(* then works down that list: for each it moves the file into the folder   *)
(* of the decision, moves the derived files after it, and saves the new    *)
(* path.  In a cron tick the same process has enqueued files before: the   *)
(* assets it met there stay as they were, in the list as well.             *)
(* Storage and database know no common transaction and the command takes   *)
(* no operation lock: a process may die between any two steps, and in      *)
(* between people reopen and decide, purges delete files, and writers of   *)
(* `fields` (results, PATCH, reprocess) save the whole column as they read *)
(* it, the path included.                                                  *)
(***************************************************************************)
EXTENDS Naturals, Sequences, FiniteSets

CONSTANTS
    Asset,        \* assets, each with the file it was ingested from
    Base,         \* basenames of files
    BaseOf,       \* the basename of each asset's file
    Derived,      \* assets with a derived file
    Rank,         \* the assets from the newest to the oldest, as the list query orders them
    Limit,        \* rows that the query of each state returns: --limit, at most 200
    Worker,       \* processes that run the command
    NULL,         \* no file, no row, no process
    MaxTags,      \* suffixes that fit into a file name
    MaxNest,      \* folders that fit before a path in storage_path, VARCHAR(255)
    MaxAttempt,   \* bound: the numbers tried for a free name
    MaxEvents     \* bound: reopenings, purges, writes of `fields`, crashes and failures

Folder == {"ARCHIVE", "REJECTS"}

\* OPEN stands for all states in which the outbox leaves an asset alone and from
\* which, or to which, people take it by deciding and reopening.
State == {"OPEN", "ARCHIVED", "REJECTED", "PURGED"}

FinalState == {"ARCHIVED", "REJECTED"}

VARIABLES
    at,         \* the path of each asset's file on the storage, NULL once it is gone
    derivedAt,  \* where its derived file is: the folders in front of .derived/<uuid>
    row,        \* the columns state and fields.paths.original_relative
    derivedRow, \* asset_derived_file.storage_path, likewise
    worker,     \* the processes of the outbox
    editor,     \* a request that read `fields` and will write it back
    purge,      \* a purge under way
    disturbed,  \* history: assets for whom the steps of several did not fit together
    events      \* how many events of MaxEvents have happened

vars == <<at, derivedAt, row, derivedRow, worker, editor, purge, disturbed, events>>

-----------------------------------------------------------------------------
\* Types

\* A suffix of a file name, `__abc123` or `__abc123_1`: the asset and the attempt.
Tag == Asset \X (0..MaxAttempt)

\* The directory of an asset's file below INBOX is named by the asset.
Path == [dir: Folder \cup Asset, base: Base, tags: Seq(Tag)]

Row == [state: State, path: Path]

Step == {"enqueue", "pick", "move", "derived", "derived_row", "save"}

\* list is what the process has in hand of an asset: while it enqueues files, what it
\* read of those it met; later what the list query returned, NULL for the others and for
\* those done.  asset, step and target say where the process is with one of them.
Process == [list: [Asset -> Row \cup {NULL}],
            asset: Asset \cup {NULL}, step: Step, target: Path \cup {NULL}]

Editor == [asset: Asset, path: Path]

Purge == [asset: Asset, path: Path, step: {"delete", "derived", "write"}]

ASSUME OutboxAssumption ==
    /\ BaseOf \in [Asset -> Base]
    /\ Derived \subseteq Asset
    /\ Rank \in [Asset -> Nat]
    /\ \A a, b \in Asset : Rank[a] = Rank[b] => a = b
    /\ Limit \in Nat \ {0}
    /\ Asset \cap Folder = {}
    /\ NULL \notin Asset /\ NULL \notin Path /\ NULL \notin Seq(Folder)
    /\ NULL \notin Row /\ NULL \notin Process /\ NULL \notin Editor /\ NULL \notin Purge
    /\ MaxTags \in Nat /\ MaxNest \in Nat /\ MaxAttempt \in Nat
    /\ MaxEvents \in Nat

TypeOK ==
    /\ at \in [Asset -> Path \cup {NULL}]
    /\ derivedAt \in [Asset -> Seq(Folder) \cup {NULL}]
    /\ row \in [Asset -> Row]
    /\ derivedRow \in [Asset -> Seq(Folder) \cup {NULL}]
    /\ worker \in [Worker -> Process \cup {NULL}]
    /\ editor \in Editor \cup {NULL}
    /\ purge \in Purge \cup {NULL}
    /\ disturbed \in SUBSET Asset
    /\ events \in 0..MaxEvents

Inbox(a) == [dir |-> a, base |-> BaseOf[a], tags |-> <<>>]

Init ==
    /\ at = [a \in Asset |-> Inbox(a)]
    /\ derivedAt = [a \in Asset |-> IF a \in Derived THEN <<>> ELSE NULL]
    /\ row = [a \in Asset |-> [state |-> "OPEN", path |-> Inbox(a)]]
    /\ derivedRow = derivedAt
    /\ worker = [w \in Worker |-> NULL]
    /\ editor = NULL
    /\ purge = NULL
    /\ disturbed = {}
    /\ events = 0

-----------------------------------------------------------------------------
\* Helpers

fileExists(p) == \E a \in Asset : at[a] = p

FolderOf(state) == IF state = "ARCHIVED" THEN "ARCHIVE" ELSE "REJECTS"

\* $targetFolder.'/'.basename($sourcePath)
targetRelative(q) == [q.path EXCEPT !.dir = FolderOf(q.state)]

Suffixed(a, q, k) ==
    [targetRelative(q) EXCEPT !.tags = Append(@, <<a, k>>)]

\* Mutant: the default name is taken whether it is free or not.
resolveAvailableTarget_Blind(a, q) == {targetRelative(q)}

\* resolveAvailableTarget: the default name if it is free, else the first suffix
\* that is (as a set of one element).
resolveAvailableTarget(a, q) ==
    IF ~fileExists(targetRelative(q)) THEN {targetRelative(q)}
    ELSE {Suffixed(a, q, k) : k \in
            {k \in 0..MaxAttempt : /\ ~fileExists(Suffixed(a, q, k))
                                   /\ \A j \in 0..(k - 1) : fileExists(Suffixed(a, q, j))}}

Nested(state, folders) == <<FolderOf(state)>> \o folders

\* The derived file of a is where a move to the folder of the state takes it.
derivedAtTarget(a, state) ==
    derivedRow[a] # NULL /\ derivedAt[a] = Nested(state, derivedRow[a])

\* The process w is with asset a, past the move of its file and not yet at the end.
AfterMove(w, a) ==
    /\ worker[w] # NULL
    /\ worker[w].asset = a
    /\ worker[w].step \in {"derived", "derived_row", "save"}

Moving(a) == \E w \in Worker : AfterMove(w, a)

\* The list that the outbox works down holds the asset.
Listed(a) ==
    \E w \in Worker :
        worker[w] # NULL /\ worker[w].step # "enqueue" /\ worker[w].list[a] # NULL

Purging(a) == purge # NULL /\ purge.asset = a
Deleting(a) == Purging(a) /\ purge.step # "delete"

\* Row q leads to the file of a: directly, or in the one way the next tick repairs,
\* the file having left the INBOX for the default name and its path not saved.
Leads(a, q) ==
    \/ at[a] = q.path /\ derivedAt[a] = derivedRow[a]
    \/ /\ q.path = Inbox(a)
       /\ q.state \in FinalState
       /\ at[a] = targetRelative(q)
       /\ derivedAt[a] = derivedRow[a] \/ derivedAtTarget(a, q.state)

\* What an interruption leaves of the row of asset a, once nobody is at work on it.
Disturbed(a, q) ==
    IF q.state = "PURGED" \/ Leads(a, q)
    THEN disturbed ELSE disturbed \cup {a}

\* Process w takes on asset a, and is done with it.  It ends with the last of its list.
Take(w, a, step, target) ==
    worker' = [worker EXCEPT ![w].asset = a, ![w].step = step, ![w].target = target]

Done(w, a) ==
    worker' = [worker EXCEPT ![w] =
        IF \A b \in Asset \ {a} : @.list[b] = NULL THEN NULL
        ELSE [@ EXCEPT !.list[a] = NULL, !.asset = NULL, !.step = "pick", !.target = NULL]]

Event == events < MaxEvents /\ events' = events + 1

GoTo(w, step) == worker' = [worker EXCEPT ![w].step = step]

At(w, a, step) == worker[w] # NULL /\ worker[w].asset = a /\ worker[w].step = step

storageVars == <<at, derivedAt>>
rowVars == <<row, derivedRow>>
otherVars == <<editor, purge>>

-----------------------------------------------------------------------------
\* IngestOutboxMoveService

\* listAssets: the newest of the assets in a state.
listAssets(state) ==
    LET found == {a \in Asset : row[a].state = state}
    IN  {a \in found : Cardinality({b \in found : Rank[b] < Rank[a]}) < Limit}

Decided == listAssets("ARCHIVED") \cup listAssets("REJECTED")

\* A process that has just started, and the process as it is or will start.
Idle == [list |-> [a \in Asset |-> NULL], asset |-> NULL, step |-> "enqueue", target |-> NULL]

Held(w) == IF worker[w] = NULL THEN Idle ELSE worker[w]

\* The first half of a cron tick: a file of the asset is in the INBOX, its original or a
\* sidecar or proxy that came later, and the asset is read.  The process manages it then.
findOrCreateAsset(w, a) ==
    /\ Held(w).step = "enqueue"
    /\ Held(w).list[a] = NULL
    /\ worker' = [worker EXCEPT ![w] = [Held(w) EXCEPT !.list[a] = row[a]]]
    /\ UNCHANGED <<storageVars, rowVars, otherVars, disturbed, events>>

\* apply: the rows of the query become entities, but those the process manages already
\* stay as they were read then; all of them keep what they have while it works.  A tick
\* with an empty list ends here.
apply(w) ==
    /\ Held(w).step = "enqueue"
    /\ worker[w] # NULL \/ Decided # {}
    /\ worker' = [worker EXCEPT ![w] =
          IF Decided = {} THEN NULL
          ELSE [Held(w) EXCEPT !.step = "pick",
                               !.list = [a \in Asset |->
                                   IF a \notin Decided THEN NULL
                                   ELSE IF @[a] = NULL THEN row[a] ELSE @[a]]]]
    /\ disturbed' = disturbed \cup {a \in Decided : Purging(a)}
    /\ UNCHANGED <<storageVars, rowVars, otherVars, events>>

\* Mutant: the second half of processAsset, the file that is there already, is missing.
Look_Once(w, a) ==
    /\ worker[w] # NULL
    /\ worker[w].step = "pick"
    /\ worker[w].list[a] # NULL
    /\ LET q == worker[w].list[a] IN
       \/ /\ fileExists(q.path)
          /\ \E target \in resolveAvailableTarget(a, q) :
                IF Len(target.tags) > MaxTags THEN Done(w, a)
                ELSE Take(w, a, "move", target)
       \/ ~fileExists(q.path) /\ Done(w, a)
    /\ UNCHANGED <<storageVars, rowVars, otherVars, disturbed, events>>

\* The first half of processAsset: is the file where the row says, or already where
\* it should be?  A name that outgrows the file system makes the move fail.
Look(w, a) ==
    /\ worker[w] # NULL
    /\ worker[w].step = "pick"
    /\ worker[w].list[a] # NULL
    /\ LET q == worker[w].list[a] IN
       \/ /\ fileExists(q.path)
          /\ \E target \in resolveAvailableTarget(a, q) :
                IF Len(target.tags) > MaxTags THEN Done(w, a)
                ELSE Take(w, a, "move", target)
       \/ /\ ~fileExists(q.path)
          /\ fileExists(targetRelative(q))
          /\ Take(w, a, "derived", targetRelative(q))
       \/ /\ ~fileExists(q.path)
          /\ ~fileExists(targetRelative(q))
          /\ Done(w, a)
    /\ UNCHANGED <<storageVars, rowVars, otherVars, disturbed, events>>

\* A rename: it takes whatever file is at the source, and replaces one at the target.
\* It throws if there is none at the source any more.
Move(w, a) ==
    /\ At(w, a, "move")
    /\ LET source == worker[w].list[a].path
           target == worker[w].target
       IN  IF fileExists(source)
           THEN /\ at' = [b \in Asset |-> IF at[b] = source THEN target
                                          ELSE IF at[b] = target THEN NULL ELSE at[b]]
                /\ GoTo(w, "derived")
           ELSE Done(w, a) /\ UNCHANGED at
    /\ UNCHANGED <<derivedAt, rowVars, otherVars, disturbed, events>>

\* The storage refuses the move: the asset counts as failed.
MoveFails(w, a) ==
    /\ At(w, a, "move")
    /\ Event
    /\ Done(w, a)
    /\ UNCHANGED <<storageVars, rowVars, otherVars, disturbed>>

\* IngestDerivedOutboxMover::moveForAsset: the file first, unless there is none, or it
\* is neither where the row says nor where it is to go.
moveForAsset(w, a) ==
    /\ At(w, a, "derived")
    /\ \/ /\ derivedRow[a] # NULL
          /\ derivedAt[a] = derivedRow[a]
          /\ derivedAt' = [derivedAt EXCEPT ![a] = Nested(worker[w].list[a].state, @)]
          /\ GoTo(w, "derived_row")
       \/ /\ derivedRow[a] # derivedAt[a]
          /\ GoTo(w, IF derivedAtTarget(a, worker[w].list[a].state)
                     THEN "derived_row" ELSE "save")
          /\ UNCHANGED derivedAt
       \/ /\ derivedRow[a] = NULL
          /\ derivedAt[a] = NULL
          /\ GoTo(w, "save")
          /\ UNCHANGED derivedAt
    /\ UNCHANGED <<at, rowVars, otherVars, disturbed, events>>

\* Then the column.  A path too long for it fails the asset, whose file has moved.
UpdateDerived(w, a) ==
    /\ At(w, a, "derived_row")
    /\ IF derivedRow[a] # NULL /\ Len(derivedRow[a]) = MaxNest
       THEN /\ Done(w, a)
            /\ disturbed' = disturbed \cup {a}
            /\ UNCHANGED derivedRow
       ELSE /\ derivedRow' = [derivedRow EXCEPT ![a] =
                  IF @ = NULL THEN NULL ELSE Nested(worker[w].list[a].state, @)]
            /\ GoTo(w, "save")
            /\ UNCHANGED disturbed
    /\ UNCHANGED <<storageVars, row, otherVars, events>>

\* Mutant: the default name is saved, whatever name was free.
persistPathUpdate_Default(w, a) ==
    /\ At(w, a, "save")
    /\ row' = [row EXCEPT ![a].path = targetRelative(worker[w].list[a])]
    /\ Done(w, a)
    /\ UNCHANGED <<storageVars, derivedRow, otherVars, disturbed, events>>

\* IngestAssetPathUpdater::persistPathUpdate
persistPathUpdate(w, a) ==
    /\ At(w, a, "save")
    /\ row' = [row EXCEPT ![a].path =
          IF worker[w].list[a].path = worker[w].target THEN @ ELSE worker[w].target]
    /\ Done(w, a)
    /\ UNCHANGED <<storageVars, derivedRow, otherVars, disturbed, events>>

\* The process dies.
Crash(w) ==
    /\ worker[w] # NULL
    /\ Event
    /\ worker' = [worker EXCEPT ![w] = NULL]
    /\ disturbed' = IF worker[w].asset = NULL \/ Deleting(worker[w].asset) THEN disturbed
                    ELSE Disturbed(worker[w].asset, row[worker[w].asset])
    /\ UNCHANGED <<storageVars, rowVars, otherVars>>

-----------------------------------------------------------------------------
\* Everybody else

\* Decisions and their moves, reopening, reprocessing: the column state.
SetState(a, state) ==
    /\ \/ row[a].state = "OPEN" /\ state \in FinalState /\ UNCHANGED events
       \/ row[a].state \in FinalState /\ state = "OPEN" /\ Event
    /\ row' = [row EXCEPT ![a].state = state]
    /\ disturbed' = IF Moving(a) \/ Deleting(a) THEN disturbed ELSE Disturbed(a, row'[a])
    /\ UNCHANGED <<storageVars, derivedRow, worker, otherVars>>

\* A result, a PATCH or a reprocess reads the row ...
ReadFields(a) ==
    /\ editor = NULL
    /\ Event
    /\ row[a].state # "PURGED"
    /\ editor' = [asset |-> a, path |-> row[a].path]
    /\ UNCHANGED <<storageVars, rowVars, worker, purge, disturbed>>

\* ... and writes the column `fields` as it was read but for its own changes.
WriteFields ==
    /\ editor # NULL
    /\ LET a == editor.asset IN
       /\ row' = [row EXCEPT ![a].path = editor.path]
       /\ disturbed' = IF Moving(a) \/ Deleting(a) THEN disturbed ELSE Disturbed(a, row'[a])
    /\ editor' = NULL
    /\ UNCHANGED <<storageVars, derivedRow, worker, purge, events>>

\* BatchPurgeCoordinator::purge, past its checks and its lock.
PurgeStart(a) ==
    /\ purge = NULL
    /\ Event
    /\ row[a].state = "REJECTED"
    /\ purge' = [asset |-> a, path |-> row[a].path, step |-> "delete"]
    /\ disturbed' = IF at[a] = row[a].path /\ derivedAt[a] = derivedRow[a] /\ ~Listed(a)
                    THEN disturbed ELSE disturbed \cup {a}
    /\ UNCHANGED <<storageVars, rowVars, worker, editor>>

\* deleteAssetAndDerivedFiles: the file at the path that was read, ...
PurgeFile ==
    /\ purge # NULL
    /\ purge.step = "delete"
    /\ at' = [b \in Asset |-> IF at[b] = purge.path THEN NULL ELSE at[b]]
    /\ purge' = [purge EXCEPT !.step = "derived"]
    /\ UNCHANGED <<derivedAt, rowVars, worker, editor, disturbed, events>>

\* ... then the derived file the row leads to, the rows, and the directories in which
\* a derived file may be.
PurgeDerived ==
    /\ purge # NULL
    /\ purge.step = "derived"
    /\ LET a == purge.asset IN
       /\ derivedAt' = [derivedAt EXCEPT ![a] =
             IF @ = derivedRow[a] \/ @ = NULL \/ Len(@) <= 1 THEN NULL ELSE @]
       /\ derivedRow' = [derivedRow EXCEPT ![a] = NULL]
    /\ purge' = [purge EXCEPT !.step = "write"]
    /\ UNCHANGED <<at, row, worker, editor, disturbed, events>>

PurgeWrite ==
    /\ purge # NULL
    /\ purge.step = "write"
    /\ row' = [row EXCEPT ![purge.asset].state = "PURGED"]
    /\ purge' = NULL
    /\ UNCHANGED <<storageVars, derivedRow, worker, editor, disturbed, events>>

\* A deletion fails, or the process dies.
PurgeEnds ==
    /\ purge # NULL
    /\ purge' = NULL
    /\ disturbed' = IF purge.step = "delete" THEN disturbed
                    ELSE disturbed \cup {purge.asset}
    /\ UNCHANGED <<storageVars, rowVars, worker, editor, events>>

-----------------------------------------------------------------------------
processAsset(w, a) ==
    Look(w, a) \/ Move(w, a) \/ moveForAsset(w, a) \/ UpdateDerived(w, a)
               \/ persistPathUpdate(w, a)

Next ==
    \/ \E w \in Worker : apply(w) \/ Crash(w)
    \/ \E w \in Worker, a \in Asset :
          findOrCreateAsset(w, a) \/ processAsset(w, a) \/ MoveFails(w, a)
    \/ \E a \in Asset : ReadFields(a) \/ PurgeStart(a)
    \/ \E a \in Asset, state \in State : SetState(a, state)
    \/ WriteFields \/ PurgeFile \/ PurgeDerived \/ PurgeWrite \/ PurgeEnds

\* Cron runs the command, and a process works down its list until it dies.
Fairness ==
    \A w \in Worker :
        /\ WF_vars(apply(w))
        /\ WF_vars(\E a \in Asset : processAsset(w, a))

Spec == Init /\ [][Next]_vars /\ Fairness

-----------------------------------------------------------------------------
\* Properties

\* Damage stays among files of one name: an asset is safe from what happened to
\* assets whose files are called otherwise.
Undamaged(a) == \A b \in Asset : BaseOf[b] = BaseOf[a] => b \notin disturbed

\* While one process at a time runs the outbox, the row of an asset leads to its own
\* file, or the file is where the next tick will find it; and of a purged asset
\* nothing is left.  Only what `disturbed` records can break this, and only for files
\* of the same name: a crash or a failed UPDATE after a move to a suffixed name or
\* out of a folder, a change of state or a stale write of `fields` that undoes or
\* outruns a move, and a purge that overlaps a move or ends half way.
PathLeadsHome ==
    \A a \in Asset :
        Undamaged(a) =>
            IF row[a].state = "PURGED" THEN at[a] = NULL /\ derivedAt[a] = NULL
            ELSE ~Moving(a) /\ ~Deleting(a) =>
                    Leads(a, row[a])

\* While one process at a time runs the outbox, no file disappears but by a purge,
\* whatever is disturbed: a move never lands on another file.
MovesOverwriteNothing ==
    [][\A a \in Asset : at[a] # NULL /\ at'[a] = NULL =>
          purge # NULL /\ purge.step = "delete" /\ at[a] = purge.path]_vars

\* The inductive core of the two.  FilesApart and Owned keep the files and the paths
\* of different names apart.
OneWorker == \A v, w \in Worker : v = w

FilesApart == \A a, b \in Asset : at[a] = at[b] /\ at[a] # NULL => a = b

Owns(a, p) == p.base = BaseOf[a] /\ (p.dir \in Asset => p = Inbox(a))

\* The paths that a process holds of an asset.
ProcessOwns(k) ==
    /\ \A a \in Asset : k.list[a] # NULL => Owns(a, k.list[a].path)
    /\ k.step \in {"enqueue", "pick"} => k.asset = NULL
    /\ k.step \notin {"enqueue", "pick"} =>
          /\ k.asset # NULL
          /\ k.list[k.asset] # NULL
          /\ k.target # NULL
          /\ k.target # k.list[k.asset].path
          /\ k.target.dir \in Folder
          /\ Owns(k.asset, k.target)

Owned ==
    /\ \A a \in Asset : (at[a] # NULL => Owns(a, at[a])) /\ Owns(a, row[a].path)
    /\ \A w \in Worker : worker[w] # NULL => ProcessOwns(worker[w])
    /\ editor # NULL => Owns(editor.asset, editor.path)
    /\ purge # NULL => Owns(purge.asset, purge.path)

TargetFree ==
    \A w \in Worker :
        worker[w] # NULL /\ worker[w].step = "move" => ~fileExists(worker[w].target)

\* What holds of an undamaged asset under way: before its move what was read of it
\* leads to its file, after it the target does; it is not purged at the same time.
\* Of one met while enqueuing, the reading leads to the file until a purge takes it.
SafeListed(w, a) ==
    LET k == worker[w] IN
    k # NULL /\ k.list[a] # NULL =>
        IF k.step = "enqueue"
        THEN row[a].state # "PURGED" /\ ~Deleting(a) => Leads(a, k.list[a])
        ELSE /\ ~Purging(a) /\ row[a].state # "PURGED"
             /\ k.asset # a => Leads(a, k.list[a])
             /\ k.asset = a =>
                   CASE k.step = "move" ->
                           at[a] = k.list[a].path /\ derivedAt[a] = derivedRow[a]
                     [] k.step = "derived" ->
                           /\ at[a] = k.target
                           /\ \/ derivedAt[a] = derivedRow[a]
                              \/ derivedAtTarget(a, k.list[a].state)
                     [] k.step = "derived_row" ->
                           at[a] = k.target /\ derivedAtTarget(a, k.list[a].state)
                     [] k.step = "save" -> at[a] = k.target /\ derivedAt[a] = derivedRow[a]
                     [] OTHER -> TRUE

SafePurge(a) ==
    Purging(a) =>
        CASE purge.step = "delete"  -> at[a] = purge.path /\ derivedAt[a] = derivedRow[a]
          [] purge.step = "derived" -> at[a] = NULL /\ derivedAt[a] = derivedRow[a]
          [] purge.step = "write"   -> /\ at[a] = NULL
                                       /\ derivedAt[a] = NULL /\ derivedRow[a] = NULL

SafeRow(a) ==
    IF row[a].state = "PURGED" THEN at[a] = NULL /\ derivedAt[a] = NULL /\ ~Purging(a)
    ELSE ~Moving(a) /\ ~Deleting(a) => Leads(a, row[a])

Safe ==
    \A a \in Asset : Undamaged(a) =>
        SafeRow(a) /\ SafePurge(a) /\ \A w \in Worker : SafeListed(w, a)

OutboxInv == TypeOK /\ Owned /\ FilesApart /\ TargetFree /\ Safe

\* The file of an archived or rejected asset gets to its folder and its row says so,
\* unless the asset changes state again, damage was done among its namesakes, or newer
\* assets push it off the list: one that is older than the newest Limit of its state
\* is not reached, for the list does not get shorter.  A stale reading of a tick may
\* take the file to the wrong folder first; a later one takes it on.
FilesArrive ==
    \A a \in Asset, state \in FinalState :
        a \in listAssets(state) ~>
            \/ a \notin listAssets(state)
            \/ ~Undamaged(a)
            \/ at[a] = row[a].path /\ row[a].path.dir = FolderOf(state)
=============================================================================
