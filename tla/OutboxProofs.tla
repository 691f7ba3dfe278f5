----------------------------- MODULE OutboxProofs -----------------------------
(***************************************************************************)
(* Proofs about Outbox, for any sets of assets, names and derived files,   *)
(* any bound on suffixes, folders, attempts and events: types for any      *)
(* number of processes, the safety properties for one at a time.           *)
(***************************************************************************)
EXTENDS Outbox, TLAPS

-----------------------------------------------------------------------------
\* What the helpers return

LEMMA InboxType == \A a \in Asset : Inbox(a) \in Path /\ Owns(a, Inbox(a))
  BY OutboxAssumption DEF Inbox, Path, Owns

LEMMA TargetType ==
    ASSUME NEW q \in Row, NEW a \in Asset, Owns(a, q.path)
    PROVE  /\ targetRelative(q) \in Path
           /\ targetRelative(q).dir \in Folder
           /\ Owns(a, targetRelative(q))
  BY OutboxAssumption DEF Row, Path, targetRelative, FolderOf, Folder, Owns

LEMMA SuffixedType ==
    ASSUME NEW q \in Row, NEW a \in Asset, Owns(a, q.path), NEW k \in 0..MaxAttempt
    PROVE  /\ Suffixed(a, q, k) \in Path
           /\ Suffixed(a, q, k).dir \in Folder
           /\ Owns(a, Suffixed(a, q, k))
<1>1. <<a, k>> \in Tag
  BY DEF Tag
<1>2. targetRelative(q).tags \in Seq(Tag)
  BY TargetType DEF Path
<1>3. Append(targetRelative(q).tags, <<a, k>>) \in Seq(Tag)
  BY <1>1, <1>2
<1>4. QED
  BY <1>3, TargetType, OutboxAssumption DEF Suffixed, Path, Owns, Folder

\* A target that resolveAvailableTarget returns is a free path in a folder.
LEMMA AvailableTarget ==
    ASSUME NEW q \in Row, NEW a \in Asset, Owns(a, q.path),
           NEW target \in resolveAvailableTarget(a, q)
    PROVE  /\ target \in Path /\ target.dir \in Folder /\ Owns(a, target)
           /\ ~fileExists(target)
  BY TargetType, SuffixedType DEF resolveAvailableTarget

LEMMA NestedType ==
    ASSUME NEW state, NEW folders \in Seq(Folder)
    PROVE  Nested(state, folders) \in Seq(Folder)
<1>1. FolderOf(state) \in Folder
  BY DEF FolderOf, Folder
<1>2. <<FolderOf(state)>> \in Seq(Folder)
  BY <1>1
<1>3. QED
  BY <1>2 DEF Nested

-----------------------------------------------------------------------------
\* What Done and GoTo make of a process

LEMMA DoneOK ==
    ASSUME worker \in [Worker -> Process \cup {NULL}], NEW w \in Worker, NEW a \in Asset,
           worker[w] # NULL, Done(w, a)
    PROVE  /\ worker' \in [Worker -> Process \cup {NULL}]
           /\ \A v \in Worker \ {w} : worker'[v] = worker[v]
           /\ worker'[w] # NULL =>
                 /\ worker'[w].list[a] = NULL
                 /\ \A b \in Asset \ {a} : worker'[w].list[b] = worker[w].list[b]
                 /\ worker'[w].asset = NULL
                 /\ worker'[w].step = "pick"
<1> DEFINE next == [worker[w] EXCEPT !.list[a] = NULL, !.asset = NULL, !.step = "pick",
                                     !.target = NULL]
<1>1. worker[w] \in Process
  OBVIOUS
<1>2. /\ next \in Process
      /\ next.list[a] = NULL
      /\ \A b \in Asset \ {a} : next.list[b] = worker[w].list[b]
      /\ next.asset = NULL
      /\ next.step = "pick"
  BY <1>1 DEF Process, Step
<1> HIDE DEF next
<1>3. worker' = [worker EXCEPT ![w] =
          IF \A b \in Asset \ {a} : worker[w].list[b] = NULL THEN NULL ELSE next]
  BY DEF Done, next
<1>4. QED
  BY <1>2, <1>3

LEMMA GoToOK ==
    ASSUME worker \in [Worker -> Process \cup {NULL}], NEW w \in Worker, NEW step \in Step,
           worker[w] # NULL, GoTo(w, step)
    PROVE  /\ worker' \in [Worker -> Process \cup {NULL}]
           /\ \A v \in Worker \ {w} : worker'[v] = worker[v]
           /\ worker'[w] \in Process
           /\ worker'[w].list = worker[w].list
           /\ worker'[w].asset = worker[w].asset
           /\ worker'[w].step = step
           /\ worker'[w].target = worker[w].target
<1>1. worker[w] \in Process
  OBVIOUS
<1>2. QED
  BY <1>1 DEF GoTo, Process

\* The first step of a process with an asset.
LEMMA TakeOK ==
    ASSUME worker \in [Worker -> Process \cup {NULL}], NEW w \in Worker, NEW a \in Asset,
           NEW step \in Step, NEW target \in Path, worker[w] # NULL,
           Take(w, a, step, target)
    PROVE  /\ worker' \in [Worker -> Process \cup {NULL}]
           /\ \A v \in Worker \ {w} : worker'[v] = worker[v]
           /\ worker'[w] \in Process
           /\ worker'[w].list = worker[w].list
           /\ worker'[w].asset = a
           /\ worker'[w].step = step
           /\ worker'[w].target = target
<1>1. worker[w] \in Process
  OBVIOUS
<1>2. QED
  BY <1>1 DEF Take, Process

-----------------------------------------------------------------------------
\* Types, and the paths that belong to an asset

Typed == TypeOK /\ Owned

LEMMA InitTyped == Init => Typed
<1> SUFFICES ASSUME Init PROVE Typed
  OBVIOUS
<1>1. <<>> \in Seq(Folder)
  OBVIOUS
<1>2. TypeOK
  BY <1>1, InboxType, OutboxAssumption DEF Init, TypeOK, Row, State
<1>3. Owned
  BY InboxType DEF Init, Owned
<1>4. QED
  BY <1>2, <1>3 DEF Typed

LEMMA DisturbedType ==
    ASSUME disturbed \subseteq Asset, NEW a \in Asset, NEW q
    PROVE  Disturbed(a, q) \subseteq Asset
  BY DEF Disturbed

\* A step of the outbox that leaves the row of assets and the requests alone.
LEMMA WorkerStepTyped ==
    ASSUME Typed, NEW w \in Worker,
           worker' \in [Worker -> Process \cup {NULL}],
           \A v \in Worker \ {w} : worker'[v] = worker[v],
           worker'[w] # NULL => ProcessOwns(worker'[w]),
           UNCHANGED <<at, row, editor, purge>>,
           derivedAt' \in [Asset -> Seq(Folder) \cup {NULL}],
           derivedRow' \in [Asset -> Seq(Folder) \cup {NULL}],
           disturbed' \subseteq Asset, events' \in 0..MaxEvents
    PROVE  Typed'
<1>1. TypeOK'
  BY DEF Typed, TypeOK
<1>2. \A v \in Worker : worker'[v] # NULL => ProcessOwns(worker'[v])
  BY DEF Typed, Owned
<1>3. Owned'
  BY <1>2 DEF Typed, Owned, Owns, Inbox, ProcessOwns
<1>4. QED
  BY <1>1, <1>3 DEF Typed

LEMMA DecidedFinal == \A a \in Decided : a \in Asset /\ row[a].state \in FinalState
  BY DEF Decided, listAssets, FinalState

LEMMA HeldOK ==
    ASSUME Typed, NEW w \in Worker
    PROVE  Held(w) \in Process /\ ProcessOwns(Held(w))
<1>1. Idle \in Process /\ ProcessOwns(Idle)
  BY DEF Idle, Process, Step, ProcessOwns
<1>2. CASE worker[w] = NULL
  BY <1>1, <1>2 DEF Held
<1>3. CASE worker[w] # NULL
  BY <1>3 DEF Held, Typed, TypeOK, Owned
<1>4. QED
  BY <1>2, <1>3

\* A process that has not begun with its list has taken no asset from it.
LEMMA HeldEnqueues ==
    ASSUME Typed, NEW w \in Worker, Held(w).step = "enqueue"
    PROVE  Held(w).asset = NULL
  BY HeldOK DEF ProcessOwns

\* The process becomes k.
LEMMA BecomesTyped ==
    ASSUME Typed, NEW w \in Worker, NEW k, k = NULL \/ (k \in Process /\ ProcessOwns(k)),
           worker' = [worker EXCEPT ![w] = k],
           UNCHANGED <<storageVars, rowVars, otherVars, events>>, disturbed' \subseteq Asset
    PROVE  Typed'
<1>1. /\ worker' \in [Worker -> Process \cup {NULL}]
      /\ \A v \in Worker \ {w} : worker'[v] = worker[v]
      /\ worker'[w] = k
  BY DEF Typed, TypeOK
<1>2. QED
  BY <1>1, WorkerStepTyped DEF Typed, TypeOK, storageVars, rowVars, otherVars

\* What the two actions that fill the list make of a process.
Met(w, a) == [Held(w) EXCEPT !.list[a] = row[a]]

Working(w) ==
    [Held(w) EXCEPT !.step = "pick",
                    !.list = [a \in Asset |-> IF a \notin Decided THEN NULL
                                              ELSE IF @[a] = NULL THEN row[a] ELSE @[a]]]

LEMMA MetOK ==
    ASSUME Typed, NEW w \in Worker, NEW a \in Asset, Held(w).step = "enqueue"
    PROVE  /\ Met(w, a) \in Process /\ ProcessOwns(Met(w, a))
           /\ Met(w, a).step = "enqueue"
           /\ Met(w, a).list[a] = row[a]
           /\ \A b \in Asset \ {a} : Met(w, a).list[b] = Held(w).list[b]
<1>1. Held(w) \in Process /\ ProcessOwns(Held(w)) /\ Held(w).asset = NULL
  BY HeldOK, HeldEnqueues
<1>2. row[a] \in Row /\ Owns(a, row[a].path)
  BY DEF Typed, TypeOK, Owned
<1>3. /\ Met(w, a) \in Process
      /\ Met(w, a).step = "enqueue" /\ Met(w, a).asset = NULL
      /\ Met(w, a).list[a] = row[a]
      /\ \A b \in Asset \ {a} : Met(w, a).list[b] = Held(w).list[b]
  BY <1>1, <1>2 DEF Met, Process
<1>4. QED
  BY <1>1, <1>2, <1>3 DEF ProcessOwns

LEMMA WorkingOK ==
    ASSUME Typed, NEW w \in Worker, Held(w).step = "enqueue"
    PROVE  /\ Working(w) \in Process /\ ProcessOwns(Working(w))
           /\ Working(w).step = "pick" /\ Working(w).asset = NULL
           /\ \A a \in Asset :
                 Working(w).list[a] = IF a \notin Decided THEN NULL
                                      ELSE IF Held(w).list[a] = NULL THEN row[a]
                                      ELSE Held(w).list[a]
<1>1. Held(w) \in Process /\ ProcessOwns(Held(w)) /\ Held(w).asset = NULL
  BY HeldOK, HeldEnqueues
<1>2. \A a \in Asset : row[a] \in Row /\ Owns(a, row[a].path)
  BY DEF Typed, TypeOK, Owned
<1> DEFINE list == [a \in Asset |-> IF a \notin Decided THEN NULL
                                    ELSE IF Held(w).list[a] = NULL THEN row[a]
                                    ELSE Held(w).list[a]]
<1>3. list \in [Asset -> Row \cup {NULL}]
  BY <1>1, <1>2 DEF Process
<1>4. Working(w) = [Held(w) EXCEPT !.step = "pick", !.list = list]
  BY DEF Working
<1> HIDE DEF list
<1>5. /\ Working(w) \in Process
      /\ Working(w).step = "pick" /\ Working(w).asset = NULL
      /\ Working(w).list = list
  BY <1>1, <1>3, <1>4 DEF Process, Step
<1>6. \A a \in Asset : Working(w).list[a] = IF a \notin Decided THEN NULL
                                            ELSE IF Held(w).list[a] = NULL THEN row[a]
                                            ELSE Held(w).list[a]
  BY <1>5 DEF list
<1>7. \A a \in Asset : Working(w).list[a] # NULL => Owns(a, Working(w).list[a].path)
  BY <1>1, <1>2, <1>6 DEF ProcessOwns
<1>8. QED
  BY <1>5, <1>6, <1>7 DEF ProcessOwns

LEMMA findOrCreateTyped ==
    ASSUME Typed, NEW w \in Worker, NEW a \in Asset, findOrCreateAsset(w, a)
    PROVE  Typed'
<1>1. /\ Held(w).step = "enqueue"
      /\ worker' = [worker EXCEPT ![w] = Met(w, a)]
      /\ UNCHANGED <<storageVars, rowVars, otherVars, events>>
      /\ disturbed' \subseteq Asset
  BY DEF findOrCreateAsset, Met, Typed, TypeOK
<1>2. QED
  BY <1>1, MetOK, BecomesTyped

LEMMA applyTyped ==
    ASSUME Typed, NEW w \in Worker, apply(w)
    PROVE  Typed'
<1>1. /\ Held(w).step = "enqueue"
      /\ worker' = [worker EXCEPT ![w] = IF Decided = {} THEN NULL ELSE Working(w)]
      /\ UNCHANGED <<storageVars, rowVars, otherVars, events>>
      /\ disturbed' \subseteq Asset
  BY DecidedFinal DEF apply, Working, Typed, TypeOK
<1>2. CASE Decided = {}
  BY <1>1, <1>2, BecomesTyped
<1>3. CASE Decided # {}
  BY <1>1, <1>3, WorkingOK, BecomesTyped
<1>4. QED
  BY <1>2, <1>3

LEMMA DoneOwns ==
    ASSUME Typed, NEW w \in Worker, NEW a \in Asset, worker[w] # NULL, Done(w, a)
    PROVE  worker'[w] # NULL => ProcessOwns(worker'[w])
<1>1. ProcessOwns(worker[w]) /\ worker[w] \in Process
  BY DEF Typed, TypeOK, Owned
<1>2. QED
  BY <1>1, DoneOK DEF ProcessOwns, Process, Typed, TypeOK

LEMMA TakeOwns ==
    ASSUME Typed, NEW w \in Worker, NEW a \in Asset, NEW step \in Step, NEW target \in Path,
           worker[w] # NULL, worker[w].list[a] # NULL, step \notin {"enqueue", "pick"},
           target.dir \in Folder, Owns(a, target), target # worker[w].list[a].path,
           Take(w, a, step, target)
    PROVE  ProcessOwns(worker'[w])
<1>1. worker \in [Worker -> Process \cup {NULL}] /\ ProcessOwns(worker[w])
  BY DEF Typed, TypeOK, Owned
<1>2. /\ worker'[w].list = worker[w].list
      /\ worker'[w].asset = a
      /\ worker'[w].step = step
      /\ worker'[w].target = target
  BY <1>1, TakeOK
<1>3. a # NULL /\ target # NULL
  BY OutboxAssumption
<1>4. QED
  BY <1>1, <1>2, <1>3 DEF ProcessOwns

LEMMA LookTyped ==
    ASSUME Typed, NEW w \in Worker, NEW a \in Asset, Look(w, a)
    PROVE  Typed'
<1> DEFINE q == worker[w].list[a]
<1>1. /\ worker[w] # NULL /\ worker[w] \in Process /\ ProcessOwns(worker[w])
      /\ q \in Row /\ Owns(a, q.path)
  BY DEF Look, Typed, TypeOK, Owned, ProcessOwns, Process
<1>2. worker' \in [Worker -> Process \cup {NULL}]
      /\ (\A v \in Worker \ {w} : worker'[v] = worker[v])
      /\ (worker'[w] # NULL => ProcessOwns(worker'[w]))
  <2>1. CASE Done(w, a)
    BY <1>1, <2>1, DoneOK, DoneOwns DEF Typed, TypeOK
  <2>2. CASE fileExists(q.path)
             /\ \E target \in resolveAvailableTarget(a, q) :
                   Take(w, a, "move", target)
    <3>1. PICK target \in resolveAvailableTarget(a, q) :
              Take(w, a, "move", target)
      BY <2>2
    <3>2. target \in Path /\ target.dir \in Folder /\ Owns(a, target)
          /\ target # q.path
      BY <1>1, <2>2, AvailableTarget
    <3>3. "move" \in Step
      BY DEF Step
    <3>4. QED
      BY <1>1, <3>1, <3>2, <3>3, TakeOK, TakeOwns DEF Typed, TypeOK, Look
  <2>3. CASE ~fileExists(q.path) /\ fileExists(targetRelative(q))
             /\ Take(w, a, "derived", targetRelative(q))
    <3>1. /\ targetRelative(q) # q.path
          /\ targetRelative(q) \in Path /\ targetRelative(q).dir \in Folder
          /\ Owns(a, targetRelative(q))
      BY <1>1, <2>3, TargetType
    <3>2. "derived" \in Step
      BY DEF Step
    <3>3. QED
      BY <1>1, <2>3, <3>1, <3>2, TakeOK, TakeOwns DEF Typed, TypeOK, Look
  <2>4. QED
    BY <2>1, <2>2, <2>3 DEF Look
<1>3. UNCHANGED <<at, derivedAt, row, derivedRow, editor, purge, disturbed, events>>
  BY DEF Look, storageVars, rowVars, otherVars
<1>4. QED
  BY <1>2, <1>3, WorkerStepTyped DEF Typed, TypeOK

LEMMA GoToOwns ==
    ASSUME Typed, NEW w \in Worker, worker[w] # NULL,
           NEW step \in Step \ {"enqueue", "pick"},
           worker[w].step \notin {"enqueue", "pick"}, GoTo(w, step)
    PROVE  ProcessOwns(worker'[w])
<1>1. worker \in [Worker -> Process \cup {NULL}] /\ ProcessOwns(worker[w])
  BY DEF Typed, TypeOK, Owned
<1>2. /\ worker'[w].list = worker[w].list
      /\ worker'[w].asset = worker[w].asset
      /\ worker'[w].step = step
      /\ worker'[w].target = worker[w].target
  BY <1>1, GoToOK
<1>3. QED
  BY <1>1, <1>2 DEF ProcessOwns

\* What is known of a process w at its steps with asset a.
LEMMA AtStep ==
    ASSUME Typed, NEW w \in Worker, NEW a \in Asset,
           NEW step \in Step \ {"enqueue", "pick"}, At(w, a, step)
    PROVE  /\ worker[w] # NULL /\ worker[w].asset = a /\ worker[w].step = step
           /\ worker[w].list[a] \in Row /\ worker[w].list[a] # NULL
           /\ Owns(a, worker[w].list[a].path)
           /\ worker[w].target \in Path /\ worker[w].target.dir \in Folder
           /\ Owns(a, worker[w].target)
           /\ worker[w].target # worker[w].list[a].path
  BY OutboxAssumption DEF At, Typed, TypeOK, Owned, ProcessOwns, Process

\* Such a step leads to a process that is done or goes on.
LEMMA StepOK ==
    ASSUME Typed, NEW w \in Worker, NEW a \in Asset, worker[w] # NULL,
           worker[w].step \notin {"enqueue", "pick"},
           NEW step \in Step \ {"enqueue", "pick"},
           Done(w, a) \/ GoTo(w, step)
    PROVE  /\ worker' \in [Worker -> Process \cup {NULL}]
           /\ \A v \in Worker \ {w} : worker'[v] = worker[v]
           /\ worker'[w] # NULL => ProcessOwns(worker'[w])
<1>1. CASE Done(w, a)
  BY <1>1, DoneOK, DoneOwns DEF Typed, TypeOK
<1>2. CASE GoTo(w, step)
  BY <1>2, GoToOK, GoToOwns DEF Typed, TypeOK
<1>3. QED
  BY <1>1, <1>2

\* Files move to paths that belong to their assets.
LEMMA FilesTyped ==
    ASSUME Typed, at' \in [Asset -> Path \cup {NULL}],
           \A b \in Asset : at'[b] # NULL => Owns(b, at'[b]),
           worker' \in [Worker -> Process \cup {NULL}],
           \A v \in Worker : worker'[v] # NULL => ProcessOwns(worker'[v]),
           UNCHANGED <<derivedAt, rowVars, otherVars, disturbed, events>>
    PROVE  Typed'
  BY DEF Typed, TypeOK, Owned, rowVars, otherVars, Owns, Inbox, ProcessOwns

LEMMA MoveTyped ==
    ASSUME Typed, NEW w \in Worker, NEW a \in Asset, Move(w, a)
    PROVE  Typed'
<1> DEFINE source == worker[w].list[a].path
           target == worker[w].target
<1>1. /\ worker[w] # NULL /\ worker[w].step = "move"
      /\ target \in Path /\ target.dir \in Folder /\ Owns(a, target)
      /\ source \in Path /\ Owns(a, source)
  BY AtStep DEF Move, Step, Row
<1>2. /\ worker' \in [Worker -> Process \cup {NULL}]
      /\ \A v \in Worker : worker'[v] # NULL => ProcessOwns(worker'[v])
  <2>1. Done(w, a) \/ GoTo(w, "derived")
    BY DEF Move
  <2>2. "derived" \in Step \ {"enqueue", "pick"}
    BY DEF Step
  <2>3. QED
    BY <1>1, <2>1, <2>2, StepOK DEF Typed, Owned
<1>3. \/ at' = at
      \/ at' = [b \in Asset |-> IF at[b] = source THEN target
                               ELSE IF at[b] = target THEN NULL ELSE at[b]]
  BY DEF Move
<1>4. at \in [Asset -> Path \cup {NULL}] /\ \A b \in Asset : at[b] # NULL => Owns(b, at[b])
  BY DEF Typed, TypeOK, Owned
<1> HIDE DEF target, source
<1>5. at' \in [Asset -> Path \cup {NULL}]
  BY <1>1, <1>3, <1>4
<1>6. \A b \in Asset : at'[b] # NULL => Owns(b, at'[b])
  <2> TAKE b \in Asset
  <2>1. CASE at[b] = source /\ at'[b] = target
    BY <1>1, <1>4, <2>1, OutboxAssumption DEF Owns
  <2>2. CASE at'[b] = at[b] \/ at'[b] = NULL
    BY <1>4, <2>2
  <2>3. QED
    BY <1>3, <2>1, <2>2
<1>7. QED
  BY <1>2, <1>5, <1>6, FilesTyped DEF Move

LEMMA MoveFailsTyped ==
    ASSUME Typed, NEW w \in Worker, NEW a \in Asset, MoveFails(w, a)
    PROVE  Typed'
<1>1. /\ worker[w] # NULL /\ worker[w].step = "move" /\ Done(w, a)
      /\ UNCHANGED <<at, derivedAt, row, derivedRow, editor, purge, disturbed>>
  BY DEF MoveFails, At, storageVars, rowVars, otherVars
<1>2. events' \in 0..MaxEvents
  BY OutboxAssumption DEF MoveFails, Event, Typed, TypeOK
<1>3. QED
  BY <1>1, <1>2, DoneOK, DoneOwns, WorkerStepTyped DEF Typed, TypeOK

LEMMA moveForAssetTyped ==
    ASSUME Typed, NEW w \in Worker, NEW a \in Asset, moveForAsset(w, a)
    PROVE  Typed'
<1>1. worker[w] # NULL /\ worker[w].step = "derived"
  BY DEF moveForAsset, At
<1>2. PICK step \in {"derived_row", "save"} : GoTo(w, step)
  BY DEF moveForAsset
<1>3. derivedAt' \in [Asset -> Seq(Folder) \cup {NULL}]
  BY NestedType DEF moveForAsset, Typed, TypeOK
<1>4. step \in Step \ {"enqueue", "pick"}
  BY DEF Step
<1>5. UNCHANGED <<at, row, derivedRow, editor, purge, disturbed, events>>
  BY DEF moveForAsset, rowVars, otherVars
<1>6. QED
  BY <1>1, <1>2, <1>3, <1>4, <1>5, StepOK, WorkerStepTyped DEF Typed, TypeOK

LEMMA UpdateDerivedTyped ==
    ASSUME Typed, NEW w \in Worker, NEW a \in Asset, UpdateDerived(w, a)
    PROVE  Typed'
<1>1. worker[w] # NULL /\ worker[w].step = "derived_row"
  BY DEF UpdateDerived, At
<1>2. Done(w, a) \/ GoTo(w, "save")
  BY DEF UpdateDerived
<1>3. derivedRow' \in [Asset -> Seq(Folder) \cup {NULL}] /\ disturbed' \subseteq Asset
  BY NestedType DEF UpdateDerived, Typed, TypeOK
<1>4. "save" \in Step \ {"enqueue", "pick"}
  BY DEF Step
<1>5. UNCHANGED <<at, derivedAt, row, editor, purge, events>>
  BY DEF UpdateDerived, storageVars, otherVars
<1>6. QED
  BY <1>1, <1>2, <1>3, <1>4, <1>5, StepOK, WorkerStepTyped DEF Typed, TypeOK

\* A write of rows, or of the requests that hold paths.
LEMMA RowsTyped ==
    ASSUME Typed,
           row' \in [Asset -> Row], \A a \in Asset : Owns(a, row'[a].path),
           worker' \in [Worker -> Process \cup {NULL}],
           \A v \in Worker : worker'[v] # NULL => ProcessOwns(worker'[v]),
           UNCHANGED <<storageVars, derivedRow>>,
           editor' \in Editor \cup {NULL}, editor' # NULL => Owns(editor'.asset, editor'.path),
           purge' \in Purge \cup {NULL}, purge' # NULL => Owns(purge'.asset, purge'.path),
           disturbed' \subseteq Asset, events' \in 0..MaxEvents
    PROVE  Typed'
  BY DEF Typed, TypeOK, Owned, storageVars, Owns, Inbox, ProcessOwns

LEMMA persistPathUpdateTyped ==
    ASSUME Typed, NEW w \in Worker, NEW a \in Asset, persistPathUpdate(w, a)
    PROVE  Typed'
<1>1. /\ worker[w] # NULL /\ worker[w].target \in Path /\ Owns(a, worker[w].target)
      /\ Done(w, a)
  BY AtStep DEF persistPathUpdate, Step
<1>2. /\ worker' \in [Worker -> Process \cup {NULL}]
      /\ \A v \in Worker : worker'[v] # NULL => ProcessOwns(worker'[v])
  BY <1>1, DoneOK, DoneOwns DEF Typed, TypeOK, Owned
<1>3. row' \in [Asset -> Row] /\ \A b \in Asset : Owns(b, row'[b].path)
  BY <1>1 DEF persistPathUpdate, Typed, TypeOK, Owned, Row
<1>4. QED
  BY <1>2, <1>3, RowsTyped
     DEF persistPathUpdate, Typed, TypeOK, Owned, storageVars, otherVars

LEMMA CrashTyped ==
    ASSUME Typed, NEW w \in Worker, Crash(w)
    PROVE  Typed'
<1>1. /\ worker' = [worker EXCEPT ![w] = NULL]
      /\ UNCHANGED <<at, derivedAt, row, derivedRow, editor, purge>>
  BY DEF Crash, storageVars, rowVars, otherVars
<1>2. disturbed' \subseteq Asset
  <2>1. worker[w].asset \in Asset \cup {NULL}
    BY DEF Crash, Typed, TypeOK, Process
  <2>2. CASE worker[w].asset = NULL \/ disturbed' = disturbed
    BY <2>2 DEF Crash, Typed, TypeOK
  <2>3. CASE worker[w].asset \in Asset
             /\ disturbed' = Disturbed(worker[w].asset, row[worker[w].asset])
    BY <2>3, DisturbedType DEF Typed, TypeOK
  <2>4. QED
    BY <2>1, <2>2, <2>3 DEF Crash
<1>3. events' \in 0..MaxEvents
  BY OutboxAssumption DEF Crash, Event, Typed, TypeOK
<1>4. QED
  BY <1>1, <1>2, <1>3, WorkerStepTyped DEF Typed, TypeOK

LEMMA SetStateTyped ==
    ASSUME Typed, NEW a \in Asset, NEW state \in State, SetState(a, state)
    PROVE  Typed'
<1>1. row' \in [Asset -> Row] /\ \A b \in Asset : Owns(b, row'[b].path)
  BY DEF SetState, Typed, TypeOK, Owned, Row
<1>2. disturbed' \subseteq Asset
  BY DisturbedType DEF SetState, Typed, TypeOK
<1>3. events' \in 0..MaxEvents
  BY OutboxAssumption DEF SetState, Event, Typed, TypeOK
<1>4. QED
  BY <1>1, <1>2, <1>3, RowsTyped DEF SetState, Typed, TypeOK, Owned, storageVars, otherVars

LEMMA EditorTyped ==
    ASSUME Typed, (\E a \in Asset : ReadFields(a)) \/ WriteFields
    PROVE  Typed'
<1>1. CASE \E a \in Asset : ReadFields(a)
  <2>1. PICK a \in Asset : ReadFields(a)
    BY <1>1
  <2>2. editor' \in Editor /\ Owns(editor'.asset, editor'.path)
    BY <2>1 DEF ReadFields, Typed, TypeOK, Owned, Row, Editor
  <2>3. events' \in 0..MaxEvents
    BY <2>1, OutboxAssumption DEF ReadFields, Event, Typed, TypeOK
  <2>4. QED
    BY <2>1, <2>2, <2>3, RowsTyped
       DEF ReadFields, Typed, TypeOK, Owned, storageVars, rowVars
<1>2. CASE WriteFields
  <2>1. editor \in Editor /\ Owns(editor.asset, editor.path)
    BY <1>2 DEF WriteFields, Typed, TypeOK, Owned
  <2>2. row' \in [Asset -> Row] /\ \A b \in Asset : Owns(b, row'[b].path)
    BY <1>2, <2>1 DEF WriteFields, Typed, TypeOK, Owned, Row, Editor
  <2>3. disturbed' \subseteq Asset
    BY <1>2, <2>1, DisturbedType DEF WriteFields, Typed, TypeOK, Editor
  <2>4. QED
    BY <1>2, <2>2, <2>3, RowsTyped
       DEF WriteFields, Typed, TypeOK, Owned, storageVars
<1>3. QED
  BY <1>1, <1>2

LEMMA PurgeTyped ==
    ASSUME Typed, \/ \E a \in Asset : PurgeStart(a)
                  \/ PurgeFile \/ PurgeDerived \/ PurgeWrite \/ PurgeEnds
    PROVE  Typed'
<1>1. CASE \E a \in Asset : PurgeStart(a)
  <2>1. PICK a \in Asset : PurgeStart(a)
    BY <1>1
  <2>2. purge' \in Purge /\ Owns(purge'.asset, purge'.path)
    BY <2>1 DEF PurgeStart, Typed, TypeOK, Owned, Row, Purge
  <2>3. events' \in 0..MaxEvents /\ disturbed' \subseteq Asset
    BY <2>1, OutboxAssumption DEF PurgeStart, Event, Typed, TypeOK
  <2>4. QED
    BY <2>1, <2>2, <2>3, RowsTyped
       DEF PurgeStart, Typed, TypeOK, Owned, storageVars, rowVars
<1>2. CASE PurgeFile
  <2>1. /\ purge' \in Purge
        /\ purge'.asset = purge.asset /\ purge'.path = purge.path
    BY <1>2 DEF PurgeFile, Typed, TypeOK, Purge
  <2>2. at' \in [Asset -> Path \cup {NULL}]
        /\ \A b \in Asset : at'[b] # NULL => Owns(b, at'[b])
    BY <1>2 DEF PurgeFile, Typed, TypeOK, Owned
  <2>3. TypeOK'
    BY <1>2, <2>1, <2>2 DEF PurgeFile, Typed, TypeOK, rowVars
  <2>4. Owned'
    BY <1>2, <2>1, <2>2 DEF PurgeFile, Typed, Owned, rowVars, Owns, Inbox, ProcessOwns
  <2>5. QED
    BY <2>3, <2>4 DEF Typed
<1>3. CASE PurgeDerived
  <2>1. /\ purge' \in Purge
        /\ purge'.asset = purge.asset /\ purge'.path = purge.path
    BY <1>3 DEF PurgeDerived, Typed, TypeOK, Purge
  <2>2. derivedAt' \in [Asset -> Seq(Folder) \cup {NULL}]
        /\ derivedRow' \in [Asset -> Seq(Folder) \cup {NULL}]
    BY <1>3 DEF PurgeDerived, Typed, TypeOK
  <2>3. TypeOK'
    BY <1>3, <2>1, <2>2 DEF PurgeDerived, Typed, TypeOK
  <2>4. Owned'
    BY <1>3, <2>1 DEF PurgeDerived, Typed, Owned, Owns, Inbox, ProcessOwns
  <2>5. QED
    BY <2>3, <2>4 DEF Typed
<1>4. CASE PurgeWrite
  <2>1. row' \in [Asset -> Row] /\ \A b \in Asset : Owns(b, row'[b].path)
    BY <1>4 DEF PurgeWrite, Typed, TypeOK, Owned, Row, State
  <2>2. QED
    BY <1>4, <2>1, RowsTyped DEF PurgeWrite, Typed, TypeOK, Owned, storageVars
<1>5. CASE PurgeEnds
  <2>1. disturbed' \subseteq Asset
    BY <1>5 DEF PurgeEnds, Typed, TypeOK, Purge
  <2>2. QED
    BY <1>5, <2>1, RowsTyped DEF PurgeEnds, Typed, TypeOK, Owned, storageVars, rowVars
<1>6. QED
  BY <1>1, <1>2, <1>3, <1>4, <1>5

LEMMA NextTyped == Typed /\ [Next]_vars => Typed'
<1> SUFFICES ASSUME Typed, [Next]_vars PROVE Typed'
  OBVIOUS
<1>1. CASE UNCHANGED vars
  BY <1>1 DEF vars, Typed, TypeOK, Owned, Owns, Inbox, ProcessOwns
<1>2. ASSUME NEW w \in Worker, apply(w) \/ Crash(w)
      PROVE Typed'
  BY <1>2, applyTyped, CrashTyped
<1>3. ASSUME NEW w \in Worker, NEW a \in Asset,
             findOrCreateAsset(w, a) \/ processAsset(w, a) \/ MoveFails(w, a)
      PROVE Typed'
  BY <1>3, findOrCreateTyped, LookTyped, MoveTyped, MoveFailsTyped, moveForAssetTyped, UpdateDerivedTyped,
     persistPathUpdateTyped DEF processAsset
<1>4. ASSUME NEW a \in Asset, ReadFields(a) \/ PurgeStart(a)
      PROVE Typed'
  BY <1>4, EditorTyped, PurgeTyped
<1>5. ASSUME NEW a \in Asset, NEW state \in State, SetState(a, state)
      PROVE Typed'
  BY <1>5, SetStateTyped
<1>6. CASE WriteFields \/ PurgeFile \/ PurgeDerived \/ PurgeWrite \/ PurgeEnds
  BY <1>6, EditorTyped, PurgeTyped
<1>7. QED
  BY <1>1, <1>2, <1>3, <1>4, <1>5, <1>6 DEF Next

\* Any number of processes keep the types of rows, paths and processes; in particular
\* a path is only ever saved once one has been chosen.
THEOREM OutboxTypes == Spec => []TypeOK
<1>1. Typed => TypeOK
  BY DEF Typed
<1>2. QED
  BY InitTyped, NextTyped, <1>1, PTL DEF Spec

-----------------------------------------------------------------------------
\* One process at a time: what no step can do to an undamaged asset

Fit(b) == SafeRow(b) /\ SafePurge(b) /\ \A w \in Worker : SafeListed(w, b)

\* Safe of everything that is known of one process.
Inv == Typed /\ FilesApart /\ TargetFree /\ Safe

LEMMA InvIsOutboxInv == Inv <=> OutboxInv
  BY DEF Inv, OutboxInv, Typed

LEMMA SafeIsFit == Safe <=> \A b \in Asset : Undamaged(b) => Fit(b)
  BY DEF Safe, Fit

\* Damage is not undone, and is shared among namesakes.
LEMMA DamageStays ==
    ASSUME disturbed \subseteq disturbed', NEW b \in Asset, Undamaged(b)'
    PROVE  Undamaged(b) /\ b \notin disturbed'
  BY DEF Undamaged

LEMMA DisturbedGrows ==
    ASSUME NEW a, NEW q
    PROVE  /\ disturbed \subseteq Disturbed(a, q)
           /\ a \notin Disturbed(a, q) => q.state = "PURGED" \/ Leads(a, q)
  BY DEF Disturbed

LEMMA Namesakes ==
    ASSUME NEW a \in Asset, NEW b \in Asset, NEW p, Owns(a, p), Owns(b, p)
    PROVE  Undamaged(a) <=> Undamaged(b)
  BY DEF Owns, Undamaged

\* An asset whose file and rows stay, and which no process is with, stays fit.
LEMMA Frame ==
    ASSUME NEW b \in Asset, Fit(b),
           at'[b] = at[b], derivedAt'[b] = derivedAt[b],
           row'[b] = row[b], derivedRow'[b] = derivedRow[b],
           purge' = purge \/ (~Purging(b) /\ ~Purging(b)'),
           \A v \in Worker :
               \/ worker'[v] = worker[v]
               \/ /\ worker[v] # NULL /\ worker[v].asset # b
                  /\ worker'[v] # NULL => /\ worker'[v].list[b] = worker[v].list[b]
                                          /\ worker'[v].asset # b
                                          /\ worker[v].step # "enqueue"
                                          /\ worker'[v].step # "enqueue"
    PROVE  Fit(b)'
<1>1. Leads(b, row[b])' <=> Leads(b, row[b])
  BY DEF Leads, derivedAtTarget, Inbox, targetRelative, FolderOf, Nested
<1>2. Moving(b)' <=> Moving(b)
  BY DEF Moving, AfterMove
<1>3. /\ Purging(b)' <=> Purging(b)
      /\ Deleting(b)' <=> Deleting(b)
  BY DEF Purging, Deleting
<1>4. SafeRow(b)'
  BY <1>1, <1>2, <1>3 DEF Fit, SafeRow
<1>5. SafePurge(b)'
  BY <1>3 DEF Fit, SafePurge, Purging
<1>6. ASSUME NEW v \in Worker PROVE SafeListed(v, b)'
  <2>1. SafeListed(v, b)
    BY DEF Fit
  <2>2. CASE worker'[v] = worker[v]
    BY <1>3, <2>1, <2>2
       DEF SafeListed, Leads, derivedAtTarget, Inbox, targetRelative, FolderOf, Nested
  <2>3. CASE /\ worker[v] # NULL /\ worker[v].asset # b
             /\ worker'[v] # NULL => /\ worker'[v].list[b] = worker[v].list[b]
                                     /\ worker'[v].asset # b
                                     /\ worker[v].step # "enqueue"
                                     /\ worker'[v].step # "enqueue"
    BY <1>3, <2>1, <2>3
       DEF SafeListed, Leads, derivedAtTarget, Inbox, targetRelative, FolderOf, Nested
  <2>4. QED
    BY <2>2, <2>3
<1>7. QED
  BY <1>4, <1>5, <1>6 DEF Fit

\* An asset that a process is done with is fit if its row leads to its file.
LEMMA DoneFit ==
    ASSUME OneWorker, NEW w \in Worker, NEW a \in Asset,
           worker'[w] # NULL => worker'[w].list[a] = NULL /\ worker'[w].asset # a,
           row'[a].state # "PURGED", ~Purging(a)', Leads(a, row[a])'
    PROVE  Fit(a)'
<1>1. \A v \in Worker : v = w
  BY DEF OneWorker
<1>2. QED
  BY <1>1 DEF Fit, SafeRow, SafePurge, SafeListed

\* So is one that a process is at work with, if its file is where that step needs it.
LEMMA AtWorkFit ==
    ASSUME OneWorker, NEW w \in Worker, NEW a \in Asset, NEW step,
           worker'[w] # NULL, worker'[w].asset = a, worker'[w].step = step,
           row'[a].state # "PURGED", ~Purging(a)',
           \/ /\ step = "move"
              /\ at'[a] = worker'[w].list[a].path /\ derivedAt'[a] = derivedRow'[a]
              /\ Leads(a, row[a])'
           \/ /\ step = "derived"
              /\ at'[a] = worker'[w].target
              /\ \/ derivedAt'[a] = derivedRow'[a]
                 \/ derivedAtTarget(a, worker[w].list[a].state)'
           \/ /\ step = "derived_row"
              /\ at'[a] = worker'[w].target
              /\ derivedAtTarget(a, worker[w].list[a].state)'
           \/ /\ step = "save"
              /\ at'[a] = worker'[w].target /\ derivedAt'[a] = derivedRow'[a]
    PROVE  Fit(a)'
<1>1. \A v \in Worker : v = w
  BY DEF OneWorker
<1>2. SafeListed(w, a)'
  BY DEF SafeListed
<1>3. SafePurge(a)'
  BY DEF SafePurge
<1>4. SafeRow(a)'
  BY DEF SafeRow, Moving, AfterMove
<1>5. QED
  BY <1>1, <1>2, <1>3, <1>4 DEF Fit

-----------------------------------------------------------------------------
\* The steps of the outbox

\* What is known of an undamaged asset that a process is with.
LEMMA FitAtStep ==
    ASSUME Inv, NEW w \in Worker, NEW a \in Asset, worker[w] # NULL, worker[w].list[a] # NULL,
           worker[w].step # "enqueue", Undamaged(a)
    PROVE  /\ Fit(a) /\ SafeListed(w, a)
           /\ ~Purging(a) /\ ~Deleting(a) /\ row[a].state # "PURGED"
  BY DEF Inv, Safe, Fit, SafeListed, Deleting

LEMMA OthersIdle ==
    ASSUME OneWorker, NEW w \in Worker,
           worker[w] = NULL \/ worker[w].step \in {"enqueue", "pick", "move"}
    PROVE  \A a \in Asset : ~Moving(a)
  BY DEF OneWorker, Moving, AfterMove

\* A step that moves no file to a path.
LEMMA NoFileMoves ==
    ASSUME FilesApart, \A a \in Asset : at'[a] = at[a] \/ at'[a] = NULL
    PROVE  FilesApart' /\ \A p : p # NULL /\ ~fileExists(p) => ~fileExists(p)'
  BY DEF FilesApart, fileExists

\* A process that enqueues, or starts, moves nothing, and what it reads of an
\* undamaged asset leads to the file.
LEMMA EnqueueSafe ==
    ASSUME OneWorker, Inv, NEW w \in Worker, Held(w).step = "enqueue", NEW k,
           k = NULL \/ (k.step \in {"enqueue", "pick"} /\ k.asset = NULL),
           worker' = [worker EXCEPT ![w] = k],
           UNCHANGED <<storageVars, rowVars, otherVars, events>>, disturbed \subseteq disturbed',
           \A b \in Asset :
               k # NULL /\ k.list[b] # NULL /\ b \notin disturbed' =>
                   /\ Fit(b) /\ row[b].state # "PURGED" /\ ~Deleting(b) =>
                         Leads(b, k.list[b])
                   /\ k.step = "pick" => row[b].state # "PURGED" /\ ~Purging(b)
    PROVE  FilesApart' /\ TargetFree' /\ Safe'
<1>1. worker'[w] = k /\ \A v \in Worker : v = w
  BY DEF Inv, Typed, TypeOK, OneWorker
<1>2. UNCHANGED <<at, derivedAt, row, derivedRow, editor, purge>>
  BY DEF storageVars, rowVars, otherVars
<1>3. FilesApart' /\ TargetFree'
  BY <1>1, <1>2 DEF Inv, FilesApart, TargetFree
<1>4. ASSUME NEW b \in Asset, Undamaged(b)' PROVE Fit(b)'
  <2>1. Fit(b) /\ b \notin disturbed' /\ b # NULL
    BY <1>4, DamageStays, SafeIsFit, OutboxAssumption DEF Inv
  <2>2. ~Moving(b)
    BY OthersIdle DEF Held
  <2>3. ~Moving(b)'
    BY <1>1, <2>1 DEF Moving, AfterMove
  <2>4. SafeRow(b)' /\ SafePurge(b)'
    BY <1>2, <2>1, <2>2, <2>3
       DEF Fit, SafeRow, SafePurge, Purging, Deleting, Leads, derivedAtTarget, Inbox,
           targetRelative, FolderOf, Nested
  <2>5. SafeListed(w, b)'
    <3>1. CASE k = NULL \/ k.list[b] = NULL
      BY <1>1, <3>1 DEF SafeListed
    <3>2. CASE k # NULL /\ k.list[b] # NULL
      <4>1. row[b].state # "PURGED" /\ ~Deleting(b) => Leads(b, k.list[b])
        BY <2>1, <3>2
      <4>2. /\ Purging(b)' <=> Purging(b)
            /\ Deleting(b)' <=> Deleting(b)
            /\ Leads(b, worker[w].list[b])' <=> Leads(b, k.list[b])
        BY <1>1, <1>2 DEF Purging, Deleting, Leads, derivedAtTarget, Inbox,
           targetRelative, FolderOf, Nested
      <4>3. CASE k.step = "enqueue"
        BY <1>1, <1>2, <4>1, <4>2, <4>3 DEF SafeListed
      <4>4. CASE k.step = "pick"
        <5>1. row[b].state # "PURGED" /\ ~Purging(b) /\ ~Deleting(b)
          BY <2>1, <3>2, <4>4 DEF Deleting
        <5>2. QED
          BY <1>1, <1>2, <2>1, <3>2, <4>1, <4>2, <4>4, <5>1 DEF SafeListed
      <4>5. QED
        BY <3>2, <4>3, <4>4
    <3>3. QED
      BY <3>1, <3>2
  <2>6. QED
    BY <1>1, <2>4, <2>5 DEF Fit
<1>5. QED
  BY <1>3, <1>4 DEF Safe, Fit

\* What such a process has read of an asset, and what it would read now.
LEMMA ReadingLeads ==
    ASSUME OneWorker, NEW w \in Worker, Held(w).step = "enqueue", NEW b \in Asset, Fit(b),
           row[b].state # "PURGED", ~Deleting(b)
    PROVE  /\ Leads(b, row[b])
           /\ Held(w).list[b] # NULL => Leads(b, Held(w).list[b])
<1>1. ~Moving(b)
  BY OthersIdle DEF Held
<1>2. Leads(b, row[b])
  BY <1>1 DEF Fit, SafeRow
<1>3. CASE worker[w] = NULL
  BY <1>2, <1>3 DEF Held, Idle
<1>4. CASE worker[w] # NULL
  BY <1>2, <1>4 DEF Held, Fit, SafeListed
<1>5. QED
  BY <1>2, <1>3, <1>4

LEMMA findOrCreateSafe ==
    ASSUME OneWorker, Inv, NEW w \in Worker, NEW a \in Asset, findOrCreateAsset(w, a)
    PROVE  FilesApart' /\ TargetFree' /\ Safe'
<1>1. /\ Held(w).step = "enqueue"
      /\ worker' = [worker EXCEPT ![w] = Met(w, a)]
      /\ UNCHANGED <<storageVars, rowVars, otherVars, disturbed, events>>
  BY DEF findOrCreateAsset, Met
<1>2. /\ Met(w, a).step = "enqueue" /\ Met(w, a).asset = NULL
      /\ Met(w, a).list[a] = row[a]
      /\ \A b \in Asset \ {a} : Met(w, a).list[b] = Held(w).list[b]
  BY <1>1, MetOK DEF Inv, ProcessOwns
<1>3. ASSUME NEW b \in Asset, Fit(b), Met(w, a).list[b] # NULL,
             row[b].state # "PURGED", ~Deleting(b)
      PROVE  Leads(b, Met(w, a).list[b])
  BY <1>1, <1>2, <1>3, ReadingLeads
<1>4. QED
  BY <1>1, <1>2, <1>3, EnqueueSafe

LEMMA applySafe ==
    ASSUME OneWorker, Inv, NEW w \in Worker, apply(w)
    PROVE  FilesApart' /\ TargetFree' /\ Safe'
<1> DEFINE k == IF Decided = {} THEN NULL ELSE Working(w)
<1>1. /\ Held(w).step = "enqueue"
      /\ worker' = [worker EXCEPT ![w] = k]
      /\ UNCHANGED <<storageVars, rowVars, otherVars, events>>
      /\ disturbed' = disturbed \cup {a \in Decided : Purging(a)}
  BY DEF apply, Working
<1>2. k = NULL \/ (k.step = "pick" /\ k.asset = NULL)
  BY <1>1, WorkingOK DEF Inv
<1>3. ASSUME NEW b \in Asset, k # NULL, k.list[b] # NULL
      PROVE  b \in Decided /\ (k.list[b] = row[b] \/ k.list[b] = Held(w).list[b])
  BY <1>1, <1>3, WorkingOK DEF Inv
<1> HIDE DEF k
<1>4. ASSUME NEW b \in Asset, Fit(b), k # NULL, k.list[b] # NULL,
             row[b].state # "PURGED", ~Deleting(b)
      PROVE  Leads(b, k.list[b])
  BY <1>1, <1>3, <1>4, ReadingLeads
<1>5. ASSUME NEW b \in Asset, b \notin disturbed', k # NULL, k.list[b] # NULL
      PROVE  row[b].state # "PURGED" /\ ~Purging(b)
  BY <1>1, <1>3, <1>5, DecidedFinal DEF FinalState
<1>6. QED
  BY <1>1, <1>2, <1>4, <1>5, EnqueueSafe

LEMMA LookSafe ==
    ASSUME OneWorker, Inv, NEW w \in Worker, NEW a \in Asset, Look(w, a)
    PROVE  FilesApart' /\ TargetFree' /\ Safe'
<1> DEFINE q == worker[w].list[a]
<1>1. /\ worker[w] # NULL /\ worker[w] \in Process /\ worker[w].step = "pick"
      /\ q \in Row /\ q # NULL /\ Owns(a, q.path) /\ worker[w].asset = NULL
      /\ worker \in [Worker -> Process \cup {NULL}]
  BY DEF Look, Inv, Typed, TypeOK, Owned, ProcessOwns, Process
<1>2. \A v \in Worker : v = w
  BY DEF OneWorker
<1>3. UNCHANGED <<at, derivedAt, row, derivedRow, editor, purge, disturbed>>
  BY DEF Look, storageVars, rowVars, otherVars
<1>4. FilesApart' /\ \A p : ~fileExists(p) => ~fileExists(p)'
  BY <1>3 DEF Inv, FilesApart, fileExists
\* Which of the three ways it goes.
<1>5. \/ Done(w, a)
      \/ /\ fileExists(q.path)
         /\ \E target \in resolveAvailableTarget(a, q) : Take(w, a, "move", target)
      \/ /\ ~fileExists(q.path) /\ fileExists(targetRelative(q))
         /\ Take(w, a, "derived", targetRelative(q))
  BY DEF Look
<1>6. /\ "move" \in Step /\ "derived" \in Step /\ targetRelative(q) \in Path
  BY <1>1, TargetType DEF Step
<1>7. TargetFree'
  <2>1. CASE Done(w, a)
    BY <1>1, <1>2, <2>1, DoneOK DEF TargetFree
  <2>2. CASE \E target \in resolveAvailableTarget(a, q) : Take(w, a, "move", target)
    <3>1. PICK target \in resolveAvailableTarget(a, q) : Take(w, a, "move", target)
      BY <2>2
    <3>2. target \in Path /\ ~fileExists(target)
      BY <1>1, AvailableTarget
    <3>3. worker'[w].target = target
      BY <1>1, <1>6, <3>1, <3>2, TakeOK
    <3>4. QED
      BY <1>2, <1>4, <3>2, <3>3 DEF TargetFree
  <2>3. CASE Take(w, a, "derived", targetRelative(q))
    <3>1. worker'[w].step = "derived"
      BY <1>1, <1>6, <2>3, TakeOK
    <3>2. QED
      BY <1>2, <3>1 DEF TargetFree
  <2>4. QED
    BY <1>5, <2>1, <2>2, <2>3
<1>8. ASSUME NEW b \in Asset, Undamaged(b)' PROVE Fit(b)'
  <2>1. Undamaged(b) /\ Fit(b)
    BY <1>3, <1>8, DamageStays, SafeIsFit DEF Inv
  <2>2. b # NULL
    BY OutboxAssumption
  <2>3. CASE Done(w, a) /\ b # a
    <3>1. worker'[w] # NULL => /\ worker'[w].list[b] = worker[w].list[b]
                               /\ worker'[w].asset # b /\ worker'[w].step # "enqueue"
      BY <1>1, <2>2, <2>3, DoneOK DEF Process
    <3>2. QED
      BY <1>1, <1>2, <1>3, <2>1, <2>2, <3>1, Frame
  <2>4. CASE ~Done(w, a) /\ b # a
    <3>1. /\ worker'[w].list = worker[w].list /\ worker'[w].asset = a
          /\ worker'[w].step # "enqueue"
      BY <1>1, <1>5, <1>6, <2>4, TakeOK, AvailableTarget
    <3>2. QED
      BY <1>1, <1>2, <1>3, <2>1, <2>2, <2>4, <3>1, Frame
  <2>5. CASE b = a
    <3>1. /\ Leads(a, q)
          /\ ~Purging(a) /\ ~Purging(a)' /\ row[a].state # "PURGED"
      BY <1>1, <1>3, <2>1, <2>2, <2>5, FitAtStep DEF SafeListed, Purging
    <3>2. Leads(a, row[a])'
      <4>1. Leads(a, row[a])
        BY <1>1, <1>2, <2>1, <2>5, <3>1, OthersIdle DEF Fit, SafeRow, Deleting
      <4>2. QED
        BY <1>3, <4>1
           DEF Leads, derivedAtTarget, Inbox, targetRelative, FolderOf, Nested
    <3>3. CASE Done(w, a)
      <4>1. worker'[w] # NULL => worker'[w].list[a] = NULL /\ worker'[w].asset # a
        BY <1>1, <2>2, <2>5, <3>3, DoneOK
      <4>2. QED
        BY <1>3, <2>5, <3>1, <3>2, <4>1, DoneFit
    <3>4. CASE fileExists(q.path)
               /\ \E target \in resolveAvailableTarget(a, q) : Take(w, a, "move", target)
      <4>1. PICK target \in resolveAvailableTarget(a, q) : Take(w, a, "move", target)
        BY <3>4
      <4>2. /\ worker'[w] \in Process /\ worker'[w].list = worker[w].list
            /\ worker'[w].asset = a /\ worker'[w].step = "move"
        BY <1>1, <1>6, <4>1, TakeOK, AvailableTarget
      <4>3. at[a] = q.path /\ derivedAt[a] = derivedRow[a]
        <5>1. ASSUME q.path = Inbox(a) PROVE at[a] = Inbox(a)
          <6>1. PICK c \in Asset : at[c] = Inbox(a)
            BY <3>4, <5>1 DEF fileExists
          <6>2. at[c] # NULL
            BY <6>1, InboxType, OutboxAssumption
          <6>3. Owns(c, Inbox(a))
            BY <6>1, <6>2 DEF Inv, Typed, Owned
          <6>4. Inbox(a) = Inbox(c)
            BY <6>3 DEF Owns, Inbox
          <6>5. a = c
            BY <6>4 DEF Inbox
          <6>6. QED
            BY <6>1, <6>5
        <5>2. targetRelative(q) # Inbox(a)
          BY <1>1, TargetType, OutboxAssumption DEF Inbox
        <5>3. QED
          BY <3>1, <5>1, <5>2 DEF Leads
      <4>4. QED
        BY <1>3, <2>5, <3>1, <3>2, <4>2, <4>3, OutboxAssumption, AtWorkFit
    <3>5. CASE ~fileExists(q.path) /\ Take(w, a, "derived", targetRelative(q))
      <4>1. /\ worker'[w] \in Process /\ worker'[w].list = worker[w].list
            /\ worker'[w].asset = a /\ worker'[w].step = "derived"
            /\ worker'[w].target = targetRelative(q)
        BY <1>1, <1>6, <3>5, TakeOK
      <4>2. /\ at[a] = targetRelative(q)
            /\ derivedAt[a] = derivedRow[a] \/ derivedAtTarget(a, q.state)
        BY <3>1, <3>5 DEF Leads, fileExists
      <4>3. derivedAt'[a] = derivedRow'[a] \/ derivedAtTarget(a, worker[w].list[a].state)'
        BY <1>3, <4>1, <4>2 DEF derivedAtTarget, Nested, FolderOf
      <4>4. QED
        BY <1>3, <2>5, <3>1, <4>1, <4>2, <4>3, OutboxAssumption, AtWorkFit
    <3>6. QED
      BY <1>5, <3>3, <3>4, <3>5
  <2>6. QED
    BY <2>3, <2>4, <2>5
<1>9. QED
  BY <1>4, <1>7, <1>8 DEF Safe, Fit

\* The other assets, when a process that was with asset a is done with it or goes on.
LEMMA OthersFit ==
    ASSUME OneWorker, Inv, NEW w \in Worker, NEW a \in Asset, worker[w] # NULL,
           worker[w].asset = a, NEW step \in Step \ {"enqueue"}, Done(w, a) \/ GoTo(w, step),
           NEW b \in Asset \ {a}, Fit(b), purge' = purge,
           at'[b] = at[b], derivedAt'[b] = derivedAt[b],
           row'[b] = row[b], derivedRow'[b] = derivedRow[b]
    PROVE  Fit(b)'
<1>1. worker[w] \in Process /\ worker \in [Worker -> Process \cup {NULL}] /\ b # NULL
  BY OutboxAssumption DEF Inv, Typed, TypeOK
<1>2. worker'[w] # NULL => /\ worker'[w].list[b] = worker[w].list[b]
                           /\ worker'[w].asset # b /\ worker'[w].step # "enqueue"
  BY <1>1, DoneOK, GoToOK DEF Process
<1>3. worker[w].step # "enqueue"
  BY OutboxAssumption DEF Inv, Typed, Owned, ProcessOwns
<1>4. \A v \in Worker : v = w
  BY DEF OneWorker
<1>5. QED
  BY <1>2, <1>3, <1>4, Frame

LEMMA DoneLeaves ==
    ASSUME Inv, NEW w \in Worker, NEW a \in Asset, worker[w] # NULL, Done(w, a)
    PROVE  worker'[w] # NULL => worker'[w].list[a] = NULL /\ worker'[w].asset # a
                                /\ worker'[w].step = "pick"
  BY OutboxAssumption, DoneOK DEF Inv, Typed, TypeOK

\* No process is before a move once this one is done or goes on to another step.
LEMMA FreeOfMoves ==
    ASSUME OneWorker, Inv, NEW w \in Worker, NEW a \in Asset, worker[w] # NULL,
           NEW step \in Step \ {"move"}, Done(w, a) \/ GoTo(w, step)
    PROVE  TargetFree'
<1>1. worker'[w] # NULL => worker'[w].step # "move"
  BY DoneLeaves, GoToOK DEF Inv, Typed, TypeOK
<1>2. QED
  BY <1>1 DEF OneWorker, TargetFree

LEMMA LeadsSame ==
    ASSUME NEW a \in Asset, at'[a] = at[a], derivedAt'[a] = derivedAt[a],
           row'[a] = row[a], derivedRow'[a] = derivedRow[a], Leads(a, row[a])
    PROVE  Leads(a, row[a])'
  BY DEF Leads, derivedAtTarget, Inbox, targetRelative, FolderOf, Nested

LEMMA MoveSafe ==
    ASSUME OneWorker, Inv, NEW w \in Worker, NEW a \in Asset, Move(w, a)
    PROVE  FilesApart' /\ TargetFree' /\ Safe'
<1> DEFINE source == worker[w].list[a].path
           target == worker[w].target
<1>1. /\ worker[w] # NULL /\ worker[w].asset = a /\ worker[w].step = "move"
      /\ worker[w].list[a] # NULL
      /\ target \in Path /\ target # source
      /\ source \in Path /\ Owns(a, source)
  BY AtStep DEF Move, Step, Row, Inv
<1>2. target # NULL /\ source # NULL
  BY <1>1, OutboxAssumption
<1>3. \A c \in Asset : at[c] # target
  BY <1>1 DEF Inv, TargetFree, fileExists
<1>4. /\ "derived" \in Step \ {"move"}
      /\ \/ Done(w, a) /\ UNCHANGED at /\ ~fileExists(source)
         \/ GoTo(w, "derived")
            /\ at' = [b \in Asset |-> IF at[b] = source THEN target ELSE
                                      IF at[b] = target THEN NULL ELSE at[b]]
      /\ UNCHANGED <<derivedAt, row, derivedRow, editor, purge, disturbed>>
  BY DEF Move, Step, rowVars, otherVars
<1>5. TargetFree'
  BY <1>1, <1>4, FreeOfMoves
<1> HIDE DEF source, target
<1>6. /\ \A b \in Asset : at[b] = source => at'[b] \in {source, target}
      /\ \A b \in Asset : at[b] # source => at'[b] = at[b]
      /\ GoTo(w, "derived") => \A b \in Asset : at[b] = source => at'[b] = target
  <2>1. CASE Done(w, a) /\ UNCHANGED at /\ ~fileExists(source)
    BY <2>1 DEF fileExists
  <2>2. CASE at' = [b \in Asset |-> IF at[b] = source THEN target ELSE
                                   IF at[b] = target THEN NULL ELSE at[b]]
    BY <1>3, <2>2
  <2>3. QED
    BY <1>4, <2>1, <2>2
<1>7. FilesApart'
  <2> SUFFICES ASSUME NEW b \in Asset, NEW c \in Asset, at'[b] = at'[c], at'[b] # NULL
               PROVE  b = c
    BY DEF FilesApart
  <2>1. at[b] # NULL /\ at[c] # NULL
    BY <1>2, <1>6
  <2>2. at[b] = at[c]
    BY <1>3, <1>4, <1>6 DEF fileExists
  <2>3. QED
    BY <2>1, <2>2 DEF Inv, FilesApart
<1>8. ASSUME NEW b \in Asset, Undamaged(b)' PROVE Fit(b)'
  <2>1. Undamaged(b) /\ Fit(b)
    BY <1>4, <1>8, DamageStays, SafeIsFit DEF Inv
  <2>2. ASSUME at[b] = source PROVE b = a
    <3>1. Owns(b, source)
      BY <1>2, <2>2 DEF Inv, Typed, Owned
    <3>2. Undamaged(a)
      BY <1>1, <2>1, <3>1, Namesakes
    <3>3. at[a] = source
      BY <1>1, <3>2, FitAtStep DEF SafeListed, source
    <3>4. QED
      BY <1>2, <2>2, <3>3 DEF Inv, FilesApart
  <2>3. CASE b # a
    BY <1>1, <1>4, <1>6, <2>1, <2>2, <2>3, OthersFit
  <2>4. CASE b = a
    <3>1. /\ at[a] = source /\ derivedAt[a] = derivedRow[a]
          /\ ~Purging(a) /\ row[a].state # "PURGED"
      BY <1>1, <2>1, <2>4, FitAtStep DEF SafeListed, source
    <3>2. GoTo(w, "derived")
      BY <1>4, <3>1 DEF fileExists
    <3>3. /\ worker'[w] # NULL /\ worker'[w].asset = a /\ worker'[w].step = "derived"
          /\ worker'[w].target = target
      BY <1>1, <1>4, <3>2, GoToOK, OutboxAssumption DEF target, Inv, Typed, TypeOK
    <3>4. ~Purging(a)'
      BY <1>4, <3>1 DEF Purging
    <3>5. QED
      BY <1>4, <1>6, <2>4, <3>1, <3>2, <3>3, <3>4, AtWorkFit
  <2>5. QED
    BY <2>3, <2>4
<1>9. QED
  BY <1>5, <1>7, <1>8 DEF Safe, Fit

LEMMA MoveFailsSafe ==
    ASSUME OneWorker, Inv, NEW w \in Worker, NEW a \in Asset, MoveFails(w, a)
    PROVE  FilesApart' /\ TargetFree' /\ Safe'
<1>1. /\ worker[w] # NULL /\ worker[w].asset = a /\ worker[w].step = "move"
      /\ worker[w].list[a] # NULL /\ Done(w, a)
      /\ UNCHANGED <<at, derivedAt, row, derivedRow, editor, purge, disturbed>>
  BY AtStep DEF MoveFails, At, Step, storageVars, rowVars, otherVars, Inv
<1>2. "pick" \in Step \ {"move"}
  BY DEF Step
<1>3. FilesApart' /\ TargetFree'
  BY <1>1, <1>2, FreeOfMoves DEF Inv, FilesApart
<1>4. ASSUME NEW b \in Asset, Undamaged(b)' PROVE Fit(b)'
  <2>1. Undamaged(b) /\ Fit(b)
    BY <1>1, <1>4, DamageStays, SafeIsFit DEF Inv
  <2>2. CASE b # a
    BY <1>1, <1>2, <2>1, <2>2, OthersFit
  <2>3. CASE b = a
    <3>1. ~Purging(a) /\ ~Deleting(a) /\ row[a].state # "PURGED" /\ ~Moving(a)
      BY <1>1, <2>1, <2>3, FitAtStep, OthersIdle
    <3>2. Leads(a, row[a])'
      BY <1>1, <2>1, <2>3, <3>1, LeadsSame DEF Fit, SafeRow
    <3>3. ~Purging(a)'
      BY <1>1, <3>1 DEF Purging
    <3>4. QED
      BY <1>1, <2>3, <3>1, <3>2, <3>3, DoneLeaves, DoneFit
  <2>4. QED
    BY <2>2, <2>3
<1>5. QED
  BY <1>3, <1>4 DEF Safe, Fit

LEMMA moveForAssetSafe ==
    ASSUME OneWorker, Inv, NEW w \in Worker, NEW a \in Asset, moveForAsset(w, a)
    PROVE  FilesApart' /\ TargetFree' /\ Safe'
<1>1. /\ worker[w] # NULL /\ worker[w].asset = a /\ worker[w].step = "derived"
      /\ worker[w].list[a] # NULL
      /\ UNCHANGED <<at, row, derivedRow, editor, purge, disturbed>>
  BY AtStep DEF moveForAsset, At, Step, rowVars, otherVars, Inv
<1>2. PICK step \in {"derived_row", "save"} :
          /\ GoTo(w, step)
          /\ \/ /\ step = "derived_row" /\ derivedRow[a] # NULL
                /\ derivedAt[a] = derivedRow[a]
                /\ derivedAt' = [derivedAt EXCEPT ![a] = Nested(worker[w].list[a].state, @)]
             \/ /\ derivedRow[a] # derivedAt[a] /\ UNCHANGED derivedAt
                /\ derivedAtTarget(a, worker[w].list[a].state) => step = "derived_row"
             \/ /\ step = "save" /\ UNCHANGED derivedAt
                /\ derivedRow[a] = NULL /\ derivedAt[a] = NULL
  BY DEF moveForAsset
<1>3. step \in Step \ {"move"}
  BY DEF Step
<1>4. FilesApart' /\ TargetFree'
  BY <1>1, <1>2, <1>3, FreeOfMoves DEF Inv, FilesApart
<1>5. ASSUME NEW b \in Asset, Undamaged(b)' PROVE Fit(b)'
  <2>1. Undamaged(b) /\ Fit(b)
    BY <1>1, <1>5, DamageStays, SafeIsFit DEF Inv
  <2>2. CASE b # a
    <3>1. derivedAt'[b] = derivedAt[b]
      BY <1>2, <2>2 DEF Inv, Typed, TypeOK
    <3>2. QED
      BY <1>1, <1>2, <1>3, <2>1, <2>2, <3>1, OthersFit
  <2>3. CASE b = a
    <3>1. /\ at[a] = worker[w].target
          /\ derivedAt[a] = derivedRow[a] \/ derivedAtTarget(a, worker[w].list[a].state)
          /\ ~Purging(a) /\ row[a].state # "PURGED"
      BY <1>1, <2>1, <2>3, FitAtStep DEF SafeListed
    <3>2. /\ worker'[w] # NULL /\ worker'[w].asset = a /\ worker'[w].step = step
          /\ worker'[w].list = worker[w].list /\ worker'[w].target = worker[w].target
      BY <1>1, <1>2, <1>3, GoToOK, OutboxAssumption DEF Inv, Typed, TypeOK
    <3>3. IF step = "derived_row" /\ derivedRow[a] # NULL
          THEN derivedAt'[a] = Nested(worker[w].list[a].state, derivedRow[a])
          ELSE step = "save" /\ derivedAt'[a] = derivedRow[a]
      BY <1>2, <3>1 DEF derivedAtTarget, Inv, Typed, TypeOK
    <3>4. \/ step = "derived_row" /\ derivedAtTarget(a, worker[w].list[a].state)'
          \/ step = "save" /\ derivedAt'[a] = derivedRow'[a]
      BY <1>1, <3>2, <3>3 DEF derivedAtTarget, Nested, FolderOf
    <3>5. ~Purging(a)'
      BY <1>1, <3>1 DEF Purging
    <3>6. QED
      BY <1>1, <2>3, <3>1, <3>2, <3>4, <3>5, AtWorkFit
  <2>4. QED
    BY <2>2, <2>3
<1>6. QED
  BY <1>4, <1>5 DEF Safe, Fit

LEMMA UpdateDerivedSafe ==
    ASSUME OneWorker, Inv, NEW w \in Worker, NEW a \in Asset, UpdateDerived(w, a)
    PROVE  FilesApart' /\ TargetFree' /\ Safe'
<1>1. /\ worker[w] # NULL /\ worker[w].asset = a /\ worker[w].step = "derived_row"
      /\ worker[w].list[a] # NULL
      /\ UNCHANGED <<at, derivedAt, row, editor, purge>>
  BY AtStep DEF UpdateDerived, At, Step, storageVars, otherVars, Inv
<1>2. "save" \in Step \ {"move"}
  BY DEF Step
<1>3. \/ Done(w, a) /\ disturbed' = disturbed \cup {a} /\ UNCHANGED derivedRow
      \/ /\ GoTo(w, "save") /\ UNCHANGED disturbed
         /\ derivedRow' = [derivedRow EXCEPT ![a] =
                IF @ = NULL THEN NULL ELSE Nested(worker[w].list[a].state, @)]
  BY DEF UpdateDerived
<1>4. FilesApart' /\ TargetFree'
  BY <1>1, <1>2, <1>3, FreeOfMoves DEF Inv, FilesApart
<1>5. ASSUME NEW b \in Asset, Undamaged(b)' PROVE Fit(b)'
  <2>1. Undamaged(b) /\ Fit(b) /\ b \notin disturbed'
    BY <1>3, <1>5, DamageStays, SafeIsFit DEF Inv
  <2>2. CASE b # a
    <3>1. derivedRow'[b] = derivedRow[b]
      BY <1>3, <2>2 DEF Inv, Typed, TypeOK
    <3>2. QED
      BY <1>1, <1>2, <1>3, <2>1, <2>2, <3>1, OthersFit
  <2>3. CASE b = a
    <3>1. /\ at[a] = worker[w].target
          /\ derivedAtTarget(a, worker[w].list[a].state)
          /\ ~Purging(a) /\ row[a].state # "PURGED"
      BY <1>1, <2>1, <2>3, FitAtStep DEF SafeListed
    <3>2. GoTo(w, "save")
          /\ derivedRow'[a] = Nested(worker[w].list[a].state, derivedRow[a])
      BY <1>3, <2>1, <2>3, <3>1 DEF derivedAtTarget, Inv, Typed, TypeOK
    <3>3. /\ worker'[w] # NULL /\ worker'[w].asset = a /\ worker'[w].step = "save"
          /\ worker'[w].target = worker[w].target
      BY <1>1, <1>2, <3>2, GoToOK, OutboxAssumption DEF Inv, Typed, TypeOK
    <3>4. derivedAt'[a] = derivedRow'[a] /\ ~Purging(a)'
      BY <1>1, <3>1, <3>2 DEF derivedAtTarget, Purging
    <3>5. QED
      BY <1>1, <2>3, <3>1, <3>3, <3>4, AtWorkFit
  <2>4. QED
    BY <2>2, <2>3
<1>6. QED
  BY <1>4, <1>5 DEF Safe, Fit

LEMMA persistPathUpdateSafe ==
    ASSUME OneWorker, Inv, NEW w \in Worker, NEW a \in Asset, persistPathUpdate(w, a)
    PROVE  FilesApart' /\ TargetFree' /\ Safe'
<1>1. /\ worker[w] # NULL /\ worker[w].asset = a /\ worker[w].step = "save"
      /\ worker[w].list[a] # NULL /\ worker[w].target # worker[w].list[a].path
      /\ Done(w, a)
      /\ UNCHANGED <<at, derivedAt, derivedRow, editor, purge, disturbed>>
  BY AtStep DEF persistPathUpdate, At, Step, storageVars, otherVars, Inv
<1>2. row' = [row EXCEPT ![a].path = worker[w].target]
  BY <1>1 DEF persistPathUpdate
<1>3. "pick" \in Step \ {"move"}
  BY DEF Step
<1>4. FilesApart' /\ TargetFree'
  BY <1>1, <1>3, FreeOfMoves DEF Inv, FilesApart
<1>5. ASSUME NEW b \in Asset, Undamaged(b)' PROVE Fit(b)'
  <2>1. Undamaged(b) /\ Fit(b)
    BY <1>1, <1>5, DamageStays, SafeIsFit DEF Inv
  <2>2. CASE b # a
    <3>1. row'[b] = row[b]
      BY <1>2, <2>2 DEF Inv, Typed, TypeOK
    <3>2. QED
      BY <1>1, <1>3, <2>1, <2>2, <3>1, OthersFit
  <2>3. CASE b = a
    <3>1. /\ at[a] = worker[w].target /\ derivedAt[a] = derivedRow[a]
          /\ ~Purging(a) /\ row[a].state # "PURGED"
      BY <1>1, <2>1, <2>3, FitAtStep DEF SafeListed
    <3>2. row'[a].path = worker[w].target /\ row'[a].state = row[a].state
      BY <1>2 DEF Inv, Typed, TypeOK, Row
    <3>3. Leads(a, row[a])' /\ ~Purging(a)'
      BY <1>1, <3>1, <3>2 DEF Leads, Purging
    <3>4. QED
      BY <1>1, <2>3, <3>1, <3>2, <3>3, DoneLeaves, DoneFit
  <2>4. QED
    BY <2>2, <2>3
<1>6. QED
  BY <1>4, <1>5 DEF Safe, Fit

LEMMA CrashSafe ==
    ASSUME OneWorker, Inv, NEW w \in Worker, Crash(w)
    PROVE  FilesApart' /\ TargetFree' /\ Safe'
<1>1. /\ worker[w] # NULL /\ worker'[w] = NULL /\ \A v \in Worker : v = w
      /\ UNCHANGED <<at, derivedAt, row, derivedRow, editor, purge>>
  BY DEF Crash, OneWorker, storageVars, rowVars, otherVars, Inv, Typed, TypeOK
<1>2. /\ disturbed \subseteq disturbed'
      /\ worker[w].asset # NULL /\ ~Deleting(worker[w].asset)
            /\ worker[w].asset \notin disturbed' =>
         row[worker[w].asset].state = "PURGED"
            \/ Leads(worker[w].asset, row[worker[w].asset])
  <2>1. CASE worker[w].asset = NULL \/ Deleting(worker[w].asset)
    BY <2>1 DEF Crash
  <2>2. CASE disturbed' = Disturbed(worker[w].asset, row[worker[w].asset])
    BY <2>2 DEF Disturbed
  <2>3. QED
    BY <2>1, <2>2 DEF Crash
<1>3. FilesApart' /\ TargetFree'
  BY <1>1 DEF Inv, FilesApart, TargetFree
<1>4. ASSUME NEW b \in Asset, Undamaged(b)' PROVE Fit(b)'
  <2>1. Fit(b) /\ b \notin disturbed' /\ b # NULL
    BY <1>2, <1>4, DamageStays, SafeIsFit, OutboxAssumption DEF Inv
  <2>2. CASE worker[w].asset # b
    BY <1>1, <2>1, <2>2, Frame
  <2>3. CASE worker[w].asset = b
    <3>1. row[b].state = "PURGED" \/ Deleting(b) \/ Leads(b, row[b])
      BY <1>2, <2>1, <2>3
    <3>2. Leads(b, row[b]) => Leads(b, row[b])'
      BY <1>1, LeadsSame
    <3>3. (Purging(b)' <=> Purging(b)) /\ (Deleting(b)' <=> Deleting(b))
      BY <1>1 DEF Purging, Deleting
    <3>4. SafeRow(b)' /\ SafePurge(b)'
      BY <1>1, <2>1, <3>1, <3>2, <3>3 DEF Fit, SafeRow, SafePurge
    <3>5. QED
      BY <1>1, <3>4 DEF Fit, SafeListed
  <2>4. QED
    BY <2>2, <2>3
<1>5. QED
  BY <1>3, <1>4 DEF Safe, Fit

-----------------------------------------------------------------------------
\* The steps of everybody else

\* A write of the row of an asset, which leads to its file unless somebody is at work.
LEMMA RowFit ==
    ASSUME NEW a \in Asset, Fit(a),
           UNCHANGED <<at, derivedAt, derivedRow, worker, purge>>,
           row'[a].state = "PURGED" <=> row[a].state = "PURGED",
           row[a].state # "PURGED" /\ ~Moving(a) /\ ~Deleting(a) => Leads(a, row[a])'
    PROVE  Fit(a)'
<1>1. /\ Purging(a)' <=> Purging(a)
      /\ Deleting(a)' <=> Deleting(a)
      /\ Moving(a)' <=> Moving(a)
  BY DEF Purging, Deleting, Moving, AfterMove
<1>2. SafeRow(a)' /\ SafePurge(a)'
  BY <1>1 DEF Fit, SafeRow, SafePurge
<1>3. ASSUME NEW v \in Worker PROVE SafeListed(v, a)'
  BY <1>1 DEF Fit, SafeListed, Leads, derivedAtTarget, Inbox, targetRelative, FolderOf, Nested
<1>4. QED
  BY <1>2, <1>3 DEF Fit

\* A step of nobody in the outbox, which changes one asset at most.
LEMMA OneAssetSafe ==
    ASSUME Inv, NEW a \in Asset, UNCHANGED worker, disturbed \subseteq disturbed',
           \A b \in Asset : at'[b] = at[b] \/ at'[b] = NULL,
           \A b \in Asset \ {a} :
               /\ Undamaged(b) /\ Fit(b) => at'[b] = at[b]
               /\ derivedAt'[b] = derivedAt[b]
               /\ row'[b] = row[b] /\ derivedRow'[b] = derivedRow[b]
               /\ purge' = purge \/ (~Purging(b) /\ ~Purging(b)'),
           Undamaged(a) /\ a \notin disturbed' /\ Fit(a) => Fit(a)'
    PROVE  FilesApart' /\ TargetFree' /\ Safe'
<1>1. FilesApart' /\ TargetFree'
  <2>1. ASSUME NEW w \in Worker, worker[w] # NULL, worker[w].step = "move"
        PROVE  ~fileExists(worker[w].target)'
    <3>1. worker[w].target # NULL
      BY <2>1 DEF Inv, Typed, Owned, ProcessOwns
    <3>2. ~fileExists(worker[w].target)
      BY <2>1 DEF Inv, TargetFree
    <3>3. QED
      BY <3>1, <3>2 DEF fileExists
  <2>2. QED
    BY <2>1 DEF Inv, FilesApart, TargetFree
<1>2. ASSUME NEW b \in Asset, Undamaged(b)' PROVE Fit(b)'
  <2>1. Undamaged(b) /\ Fit(b) /\ b \notin disturbed'
    BY <1>2, DamageStays, SafeIsFit DEF Inv
  <2>2. CASE b = a
    BY <2>1, <2>2
  <2>3. CASE b # a
    BY <2>1, <2>3, Frame
  <2>4. QED
    BY <2>2, <2>3
<1>3. QED
  BY <1>1, <1>2 DEF Safe, Fit

LEMMA SetStateSafe ==
    ASSUME Inv, NEW a \in Asset, NEW state \in State, SetState(a, state)
    PROVE  FilesApart' /\ TargetFree' /\ Safe'
<1>1. UNCHANGED <<at, derivedAt, derivedRow, worker, purge>>
  BY DEF SetState, storageVars, otherVars
<1>2. \A b \in Asset \ {a} : row'[b] = row[b]
  BY DEF SetState, Inv, Typed, TypeOK
<1>3. row[a].state # "PURGED" /\ row'[a].state # "PURGED"
  BY DEF SetState, FinalState, Inv, Typed, TypeOK, Row
<1>4. disturbed \subseteq disturbed'
  BY DEF SetState, Disturbed
<1>5. ASSUME a \notin disturbed', Fit(a) PROVE Fit(a)'
  <2>1. Moving(a) \/ Deleting(a) \/ Leads(a, row'[a])
    BY <1>3, <1>5 DEF SetState, Disturbed
  <2>2. Leads(a, row'[a]) => Leads(a, row[a])'
    BY <1>1 DEF Leads, derivedAtTarget, Inbox, targetRelative, FolderOf, Nested
  <2>3. QED
    BY <1>1, <1>3, <1>5, <2>1, <2>2, RowFit
<1>6. QED
  BY <1>1, <1>2, <1>4, <1>5, OneAssetSafe

LEMMA EditorSafe ==
    ASSUME Inv, (\E a \in Asset : ReadFields(a)) \/ WriteFields
    PROVE  FilesApart' /\ TargetFree' /\ Safe'
<1>1. UNCHANGED <<at, derivedAt, derivedRow, worker, purge>>
  BY DEF ReadFields, WriteFields, storageVars, rowVars
<1>2. CASE \E a \in Asset : ReadFields(a)
  <2>1. PICK a \in Asset : ReadFields(a)
    BY <1>2
  <2>2. UNCHANGED row /\ disturbed' = disturbed
    BY <2>1 DEF ReadFields, rowVars
  <2>3. Fit(a) => Fit(a)'
    BY <1>1, <2>2, Frame
  <2>4. QED
    BY <1>1, <2>2, <2>3, OneAssetSafe
<1>3. CASE WriteFields
  <2>1. PICK a \in Asset : a = editor.asset
    BY <1>3 DEF WriteFields, Inv, Typed, TypeOK, Editor
  <2>2. /\ \A b \in Asset \ {a} : row'[b] = row[b]
        /\ row'[a].state = row[a].state
    BY <1>3, <2>1 DEF WriteFields, Inv, Typed, TypeOK, Row
  <2>3. disturbed \subseteq disturbed'
    BY <1>3 DEF WriteFields, Disturbed
  <2>4. ASSUME a \notin disturbed', Fit(a) PROVE Fit(a)'
    <3>1. row'[a].state = "PURGED" \/ Moving(a) \/ Deleting(a) \/ Leads(a, row'[a])
      BY <1>3, <2>1, <2>4 DEF WriteFields, Disturbed
    <3>2. Leads(a, row'[a]) => Leads(a, row[a])'
      BY <1>1, <1>3 DEF Leads, derivedAtTarget, Inbox, targetRelative, FolderOf, Nested
    <3>3. QED
      BY <1>1, <2>2, <2>4, <3>1, <3>2, RowFit
  <2>5. QED
    BY <1>1, <2>2, <2>3, <2>4, OneAssetSafe
<1>4. QED
  BY <1>2, <1>3

\* A purge frees the file of its asset, and no undamaged asset but that one has it.
LEMMA PurgeStartSafe ==
    ASSUME Inv, NEW a \in Asset, PurgeStart(a)
    PROVE  FilesApart' /\ TargetFree' /\ Safe'
<1>1. /\ UNCHANGED <<at, derivedAt, row, derivedRow, worker>>
      /\ disturbed \subseteq disturbed' /\ purge = NULL
      /\ purge' = [asset |-> a, path |-> row[a].path, step |-> "delete"]
      /\ row[a].state = "REJECTED"
  BY DEF PurgeStart, storageVars, rowVars
<1>2. \A b \in Asset \ {a} : ~Purging(b) /\ ~Purging(b)'
  BY <1>1 DEF Purging
<1>3. ASSUME a \notin disturbed', Fit(a) PROVE Fit(a)'
  <2>1. at[a] = row[a].path /\ derivedAt[a] = derivedRow[a] /\ ~Listed(a)
    BY <1>3 DEF PurgeStart
  <2>2. Leads(a, row[a])'
    BY <1>1, <2>1 DEF Leads
  <2>3. SafeRow(a)' /\ SafePurge(a)'
    BY <1>1, <2>1, <2>2 DEF SafeRow, SafePurge
  <2>4. ASSUME NEW v \in Worker PROVE SafeListed(v, a)'
    <3>1. CASE worker[v] # NULL /\ worker[v].step # "enqueue"
      BY <1>1, <2>1, <3>1 DEF Listed, SafeListed
    <3>2. CASE worker[v] # NULL /\ worker[v].step = "enqueue"
      <4>1. ~Deleting(a)
        BY <1>1 DEF Deleting, Purging
      <4>2. worker[v].list[a] # NULL => Leads(a, worker[v].list[a])
        BY <1>1, <1>3, <3>2, <4>1 DEF Fit, SafeListed
      <4>3. worker[v].list[a] # NULL => Leads(a, worker[v].list[a])'
        BY <1>1, <4>2 DEF Leads, derivedAtTarget, Inbox, targetRelative, FolderOf, Nested
      <4>4. QED
        BY <1>1, <3>2, <4>3 DEF SafeListed
    <3>3. QED
      BY <1>1, <3>1, <3>2 DEF SafeListed
  <2>5. QED
    BY <2>3, <2>4 DEF Fit
<1>4. QED
  BY <1>1, <1>2, <1>3, OneAssetSafe

\* What is known of an undamaged asset under purge: no process works down to it.
LEMMA PurgingFit ==
    ASSUME NEW a \in Asset, Fit(a), Purging(a)
    PROVE  /\ SafeRow(a) /\ SafePurge(a) /\ row[a].state # "PURGED"
           /\ ~Listed(a)
  BY DEF Fit, SafeRow, SafeListed, Listed

\* What a process that enqueues has read of it matters no more once files are deleted.
LEMMA PurgedListed ==
    ASSUME NEW a \in Asset, ~Listed(a), UNCHANGED worker,
           row'[a].state = "PURGED" \/ Deleting(a)'
    PROVE  \A v \in Worker : SafeListed(v, a)'
  BY DEF Listed, SafeListed

LEMMA PurgeFileSafe ==
    ASSUME Inv, PurgeFile
    PROVE  FilesApart' /\ TargetFree' /\ Safe'
<1>1. PICK a \in Asset : purge # NULL /\ purge.asset = a /\ purge \in Purge
  BY DEF PurgeFile, Inv, Typed, TypeOK, Purge
<1>2. /\ UNCHANGED <<derivedAt, row, derivedRow, worker, disturbed>>
      /\ at' = [b \in Asset |-> IF at[b] = purge.path THEN NULL ELSE at[b]]
      /\ purge.step = "delete"
      /\ purge'.step = "derived" /\ purge'.asset = a /\ purge' \in Purge
  BY <1>1 DEF PurgeFile, rowVars, Purge
<1>3. purge' # NULL /\ Purging(a) /\ Purging(a)' /\ Deleting(a)'
  BY <1>1, <1>2, OutboxAssumption DEF Purging, Deleting
<1>4. \A b \in Asset \ {a} : ~Purging(b) /\ ~Purging(b)'
  BY <1>1, <1>2 DEF Purging
<1>5. ASSUME NEW b \in Asset \ {a}, Undamaged(b) /\ Fit(b) PROVE at'[b] = at[b]
  <2>1. SUFFICES ASSUME at[b] = purge.path, at[b] # NULL PROVE FALSE
    BY <1>2
  <2>2. Owns(a, purge.path) /\ Owns(b, purge.path)
    BY <1>1, <2>1 DEF Inv, Typed, Owned
  <2>3. Fit(a)
    BY <1>5, <2>2, Namesakes, SafeIsFit DEF Inv
  <2>4. at[a] = purge.path
    BY <1>2, <1>3, <2>3 DEF Fit, SafePurge
  <2>5. QED
    BY <2>1, <2>4 DEF Inv, FilesApart
<1>6. ASSUME Fit(a) PROVE Fit(a)'
  <2>1. /\ row'[a].state # "PURGED"
        /\ at'[a] = NULL /\ derivedAt'[a] = derivedRow'[a]
        /\ ~Listed(a)
    BY <1>2, <1>3, <1>6, PurgingFit DEF SafePurge
  <2>2. SafeRow(a)' /\ SafePurge(a)'
    BY <1>2, <1>3, <2>1 DEF SafeRow, SafePurge
  <2>3. QED
    BY <1>2, <1>3, <2>1, <2>2, PurgedListed DEF Fit
<1>7. \A b \in Asset : at'[b] = at[b] \/ at'[b] = NULL
  BY <1>2
<1>8. QED
  BY <1>2, <1>4, <1>5, <1>6, <1>7, OneAssetSafe

LEMMA PurgeDerivedSafe ==
    ASSUME Inv, PurgeDerived
    PROVE  FilesApart' /\ TargetFree' /\ Safe'
<1>1. PICK a \in Asset : purge # NULL /\ purge.asset = a /\ purge \in Purge
  BY DEF PurgeDerived, Inv, Typed, TypeOK, Purge
<1>2. /\ UNCHANGED <<at, row, worker, disturbed>>
      /\ purge.step = "derived"
      /\ purge'.step = "write" /\ purge'.asset = a /\ purge' \in Purge
      /\ \A b \in Asset \ {a} : derivedAt'[b] = derivedAt[b] /\ derivedRow'[b] = derivedRow[b]
      /\ derivedRow'[a] = NULL
      /\ derivedAt[a] = derivedRow[a] => derivedAt'[a] = NULL
  BY <1>1 DEF PurgeDerived, Purge, Inv, Typed, TypeOK
<1>3. purge' # NULL /\ Purging(a) /\ Purging(a)' /\ Deleting(a)'
  BY <1>1, <1>2, OutboxAssumption DEF Purging, Deleting
<1>4. \A b \in Asset \ {a} : ~Purging(b) /\ ~Purging(b)'
  BY <1>1, <1>2 DEF Purging
<1>5. ASSUME Fit(a) PROVE Fit(a)'
  <2>1. /\ row'[a].state # "PURGED"
        /\ at'[a] = NULL /\ derivedAt'[a] = NULL /\ derivedRow'[a] = NULL
        /\ ~Listed(a)
    BY <1>2, <1>3, <1>5, PurgingFit DEF SafePurge
  <2>2. SafeRow(a)' /\ SafePurge(a)'
    BY <1>2, <1>3, <2>1 DEF SafeRow, SafePurge
  <2>3. QED
    BY <1>2, <1>3, <2>1, <2>2, PurgedListed DEF Fit
<1>6. QED
  BY <1>2, <1>4, <1>5, OneAssetSafe

LEMMA PurgeWriteSafe ==
    ASSUME Inv, PurgeWrite
    PROVE  FilesApart' /\ TargetFree' /\ Safe'
<1>1. PICK a \in Asset : purge # NULL /\ purge.asset = a
  BY DEF PurgeWrite, Inv, Typed, TypeOK, Purge
<1>2. /\ UNCHANGED <<at, derivedAt, derivedRow, worker, disturbed>>
      /\ purge.step = "write" /\ purge' = NULL
      /\ \A b \in Asset \ {a} : row'[b] = row[b]
      /\ row'[a].state = "PURGED"
  BY <1>1 DEF PurgeWrite, storageVars, Inv, Typed, TypeOK, Row
<1>3. Purging(a) /\ \A b \in Asset : ~Purging(b)'
  BY <1>1, <1>2 DEF Purging
<1>4. \A b \in Asset \ {a} : ~Purging(b)
  BY <1>1 DEF Purging
<1>5. ASSUME Fit(a) PROVE Fit(a)'
  <2>1. /\ at'[a] = NULL /\ derivedAt'[a] = NULL
        /\ ~Listed(a)
    BY <1>2, <1>3, <1>5, PurgingFit DEF SafePurge
  <2>2. SafeRow(a)' /\ SafePurge(a)'
    BY <1>2, <1>3, <2>1 DEF SafeRow, SafePurge
  <2>3. QED
    BY <1>2, <2>1, <2>2, PurgedListed DEF Fit
<1>6. QED
  BY <1>2, <1>3, <1>4, <1>5, OneAssetSafe

LEMMA PurgeEndsSafe ==
    ASSUME Inv, PurgeEnds
    PROVE  FilesApart' /\ TargetFree' /\ Safe'
<1>1. PICK a \in Asset : purge # NULL /\ purge.asset = a
  BY DEF PurgeEnds, Inv, Typed, TypeOK, Purge
<1>2. /\ UNCHANGED <<at, derivedAt, row, derivedRow, worker>>
      /\ purge' = NULL /\ disturbed \subseteq disturbed'
      /\ a \notin disturbed' => purge.step = "delete"
  BY <1>1 DEF PurgeEnds, storageVars, rowVars
<1>3. Purging(a) /\ \A b \in Asset : ~Purging(b)'
  BY <1>1, <1>2 DEF Purging
<1>4. \A b \in Asset \ {a} : ~Purging(b)
  BY <1>1 DEF Purging
<1>5. ASSUME a \notin disturbed', Fit(a) PROVE Fit(a)'
  <2>1. purge.step = "delete"
    BY <1>2, <1>5
  <2>2. /\ row[a].state # "PURGED" /\ ~Deleting(a)
        /\ ~Listed(a)
    BY <1>3, <1>5, <2>1, PurgingFit DEF Deleting
  <2>3. ~Moving(a) => Leads(a, row[a])
    BY <1>5, <2>2 DEF Fit, SafeRow
  <2>4. Moving(a)' <=> Moving(a)
    BY <1>2 DEF Moving, AfterMove
  <2>5. SafeRow(a)' /\ SafePurge(a)'
    BY <1>2, <1>3, <2>2, <2>3, <2>4, LeadsSame DEF SafeRow, SafePurge
  <2>6. ASSUME NEW v \in Worker PROVE SafeListed(v, a)'
    <3>1. worker[v] # NULL /\ worker[v].list[a] # NULL => Leads(a, worker[v].list[a])
      BY <1>5, <2>2 DEF Fit, SafeListed, Listed
    <3>2. worker[v] # NULL /\ worker[v].list[a] # NULL => Leads(a, worker[v].list[a])'
      BY <1>2, <3>1 DEF Leads, derivedAtTarget, Inbox, targetRelative, FolderOf, Nested
    <3>3. QED
      BY <1>2, <2>2, <3>2 DEF SafeListed, Listed
  <2>7. QED
    BY <2>5, <2>6 DEF Fit
<1>6. QED
  BY <1>2, <1>3, <1>4, <1>5, OneAssetSafe

-----------------------------------------------------------------------------
\* Theorems

LEMMA InitInv == Init => Inv
<1> SUFFICES ASSUME Init PROVE Inv
  OBVIOUS
<1>1. Typed
  BY InitTyped
<1>2. FilesApart /\ TargetFree
  BY DEF Init, Inbox, FilesApart, TargetFree
<1>3. Safe
  BY DEF Init, Safe, SafeRow, SafePurge, SafeListed, Leads, Purging
<1>4. QED
  BY <1>1, <1>2, <1>3 DEF Inv

LEMMA NextInv ==
    ASSUME OneWorker, Inv, [Next]_vars
    PROVE  Inv'
<1>1. Typed'
  BY NextTyped DEF Inv
<1>2. CASE UNCHANGED vars
  <2>1. ASSUME NEW b \in Asset, Undamaged(b)' PROVE Fit(b)'
    BY <1>2, <2>1, Frame, SafeIsFit DEF vars, Undamaged, Inv
  <2>2. Safe'
    BY <2>1 DEF Safe, Fit
  <2>3. QED
    BY <1>1, <1>2, <2>2 DEF vars, Inv, FilesApart, TargetFree, fileExists
<1>3. ASSUME NEW w \in Worker, apply(w) \/ Crash(w)
      PROVE Inv'
  BY <1>1, <1>3, applySafe, CrashSafe DEF Inv
<1>4. ASSUME NEW w \in Worker, NEW a \in Asset,
             findOrCreateAsset(w, a) \/ processAsset(w, a) \/ MoveFails(w, a)
      PROVE Inv'
  <2>1. FilesApart' /\ TargetFree' /\ Safe'
    BY <1>4, findOrCreateSafe, LookSafe, MoveSafe, MoveFailsSafe, moveForAssetSafe, UpdateDerivedSafe,
       persistPathUpdateSafe DEF processAsset
  <2>2. QED
    BY <1>1, <2>1 DEF Inv
<1>5. ASSUME NEW a \in Asset, ReadFields(a) \/ PurgeStart(a)
      PROVE Inv'
  <2>1. FilesApart' /\ TargetFree' /\ Safe'
    BY <1>5, EditorSafe, PurgeStartSafe
  <2>2. QED
    BY <1>1, <2>1 DEF Inv
<1>6. ASSUME NEW a \in Asset, NEW state \in State, SetState(a, state)
      PROVE Inv'
  BY <1>1, <1>6, SetStateSafe DEF Inv
<1>7. CASE WriteFields \/ PurgeFile \/ PurgeDerived \/ PurgeWrite \/ PurgeEnds
  <2>1. FilesApart' /\ TargetFree' /\ Safe'
    BY <1>7, EditorSafe, PurgeFileSafe, PurgeDerivedSafe, PurgeWriteSafe, PurgeEndsSafe
  <2>2. QED
    BY <1>1, <2>1 DEF Inv
<1>8. QED
  BY <1>2, <1>3, <1>4, <1>5, <1>6, <1>7 DEF Next

\* The inductive invariant of Outbox, for one process at a time.
THEOREM OutboxInvariant ==
    ASSUME OneWorker
    PROVE  Spec => []OutboxInv
<1>1. Inv /\ [Next]_vars => Inv'
  BY NextInv
<1>2. Inv => OutboxInv
  BY InvIsOutboxInv
<1>3. QED
  BY InitInv, <1>1, <1>2, PTL DEF Spec

\* While one process at a time runs app:ingest:apply-outbox, the row of every asset
\* leads to its file, or to where the next tick finds it, except among namesakes of
\* an asset that an interruption damaged.
THEOREM RowsLeadHome ==
    ASSUME OneWorker
    PROVE  Spec => []PathLeadsHome
<1>1. OutboxInv => PathLeadsHome
  BY DEF OutboxInv, Safe, SafeRow, PathLeadsHome
<1>2. QED
  BY OutboxInvariant, <1>1, PTL

\* While one process at a time runs app:ingest:apply-outbox, no move replaces a file,
\* even where an interruption did damage: a file disappears by a purge only.
THEOREM NothingOverwritten ==
    ASSUME OneWorker
    PROVE  Spec => MovesOverwriteNothing
<1> DEFINE Kept ==
        \A a \in Asset : at[a] # NULL /\ at'[a] = NULL =>
            purge # NULL /\ purge.step = "delete" /\ at[a] = purge.path
<1>1. ASSUME OutboxInv, [Next]_vars PROVE Kept
  <2> SUFFICES ASSUME NEW a \in Asset, at[a] # NULL, at'[a] = NULL
               PROVE  purge # NULL /\ purge.step = "delete" /\ at[a] = purge.path
    OBVIOUS
  <2>1. \/ \E w \in Worker, b \in Asset : Move(w, b)
        \/ PurgeFile
    BY <1>1 DEF Next, processAsset, vars, findOrCreateAsset, apply, Crash, Look, MoveFails, moveForAsset,
       UpdateDerived, persistPathUpdate, ReadFields, PurgeStart, SetState, WriteFields,
       PurgeDerived, PurgeWrite, PurgeEnds, storageVars
  <2>2. CASE \E w \in Worker, b \in Asset : Move(w, b)
    <3>1. PICK w \in Worker, b \in Asset : Move(w, b)
      BY <2>2
    <3>2. Typed /\ ~fileExists(worker[w].target)
      BY <1>1, <3>1 DEF OutboxInv, TargetFree, Move, At, Typed
    <3>3. worker[w].target # NULL
      BY <3>1, <3>2, AtStep, OutboxAssumption DEF Move, Step
    <3>4. QED
      BY <3>1, <3>2, <3>3 DEF Move, fileExists
  <2>3. CASE PurgeFile
    BY <2>3 DEF PurgeFile
  <2>4. QED
    BY <2>1, <2>2, <2>3
<1>2. OutboxInv /\ [Next]_vars => [Kept]_vars
  BY <1>1
<1>3. QED
  BY OutboxInvariant, <1>2, PTL DEF Spec, MovesOverwriteNothing

=============================================================================
