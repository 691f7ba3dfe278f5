-------------------------- MODULE IngestScanProofs ---------------------------
(***************************************************************************)
(* Proofs about IngestScan, for every set of files, every order of their   *)
(* paths and every value of the bounds.                                    *)
(***************************************************************************)
EXTENDS IngestScan, TLAPS

\* What has come of a file.
WrittenSoFar == \A f \in File : disk[f] # NULL => disk[f] \in 0..LastStamp[f]

\* No job of asset a is of a later round than v.
Behind(a, v) ==
    \A type \in Type, w \in Version : jobs[<<a, type, w>>] # "absent" => w <= v

\* Nothing was queued for what is no asset, nor for rounds to come.
JobsBehind ==
    \A a \in Asset \ threw :
        Behind(a, IF asset[a] = NULL THEN 0 ELSE asset[a].fields.version)

\* A reading r of the fields of asset a, held by the tick, may be old; but it is no
\* later than the row, jobs of later rounds have not been queued in the meantime, and
\* of its own round it has no result that the row has not, unless that round is queued:
\* then it will not be written any more.
Follows(a, r) ==
    /\ Behind(a, r.version)
    /\ asset[a] = NULL => r.version = 1
    /\ asset[a] # NULL =>
          /\ r.version <= asset[a].fields.version
          /\ r.version = asset[a].fields.version =>
                \/ r.done \subseteq asset[a].fields.done
                \/ jobs[<<a, "extract_facts", r.version>>] # "absent"

\* What is on the list has been scanned; what is moved is still on it.
Listed ==
    tick # NULL => /\ \A f \in tick.todo : scan[f] # NULL
                   /\ tick.work # NULL => tick.work.file \in tick.todo

KnownInv ==
    tick # NULL => \A a \in Asset \ threw :
        tick.known[a] # NULL => asset[a] # NULL /\ Follows(a, tick.known[a])

WorkInv ==
    tick # NULL /\ tick.work # NULL =>
        LET w == tick.work IN
        /\ w.fields.version = w.before.version
        /\ w.fields.done = w.before.done \cup {"proxy"}
        /\ derived[w.file[1]].file
        /\ w.file[1] \notin threw => Follows(w.file[1], w.before)

IInv ==
    /\ TypeOK /\ WrittenSoFar /\ Listed
    /\ JobsBehind /\ KnownInv /\ WorkInv
    /\ NothingIsStranded

-----------------------------------------------------------------------------
\* Helpers

LEMMA FileParts ==
    ASSUME NEW f \in File PROVE f[1] \in Asset /\ f[2] \in Part /\ f = <<f[1], f[2]>>
  BY IngestAssumption

LEMMA NewFieldsOK == NewFields \in Fields /\ NewFields.version = 1 /\ NewFields.done = {}
<1>1. 1 \in Version
  BY IngestAssumption DEF Version
<1>2. QED
  BY <1>1 DEF NewFields, Fields

LEMMA JobIsTriple ==
    /\ \A a \in Asset, type \in Type, v \in Version : <<a, type, v>> \in Job
    /\ \A j \in Job : /\ j[1] \in Asset /\ j[2] \in Type /\ j[3] \in Version
                      /\ j = <<j[1], j[2], j[3]>>
  BY DEF Job

\* findOrCreateAsset returns an entity that follows the row.
LEMMA EntityFollows ==
    ASSUME TypeOK, JobsBehind, KnownInv, tick # NULL, NEW a \in Asset
    PROVE  /\ Entity(a) \in Fields
           /\ a \notin threw => Follows(a, Entity(a))
<1>1. tick \in Tick /\ tick.known[a] \in Fields \cup {NULL} /\ asset[a] \in Row \cup {NULL}
  BY DEF TypeOK, Tick
<1>2. CASE tick.known[a] # NULL
  BY <1>1, <1>2 DEF Entity, KnownInv
<1>3. CASE tick.known[a] = NULL /\ asset[a] # NULL
  <2>1. asset[a].fields \in Fields /\ Entity(a) = asset[a].fields
    BY <1>1, <1>3 DEF Entity, Row
  <2>2. Entity(a).version <= asset[a].fields.version
    BY <2>1 DEF Fields, Version
  <2>3. a \notin threw => Behind(a, Entity(a).version)
    BY <1>3, <2>1 DEF JobsBehind
  <2>4. QED
    BY <1>3, <2>1, <2>2, <2>3 DEF Follows
<1>4. CASE tick.known[a] = NULL /\ asset[a] = NULL
  <2>1. Entity(a) = NewFields
    BY <1>4 DEF Entity
  <2>2. a \notin threw => Behind(a, 0)
    BY <1>4 DEF JobsBehind
  <2>3. a \notin threw => Behind(a, 1)
    BY <2>2 DEF Behind, Version
  <2>4. QED
    BY <1>4, <2>1, <2>3, NewFieldsOK DEF Follows
<1>5. QED
  BY <1>2, <1>3, <1>4

\* A file of the list is done with.
LEMMA NotedType ==
    ASSUME TypeOK, Listed, tick # NULL, NEW f \in tick.todo, NEW fields \in Fields \cup {NULL},
           Noted(f, fields)
    PROVE  /\ tick' \in Tick \cup {NULL}
           /\ scan' \in [File -> ScanRow \cup {NULL}]
           /\ Listed'
           /\ tick' # NULL =>
                 /\ tick'.work = NULL
                 /\ \A a \in Asset :
                       tick'.known[a] = IF a = f[1] THEN fields ELSE tick.known[a]
<1>1. tick \in Tick /\ f \in File
  BY DEF TypeOK, Tick
<1>2. f[1] \in Asset
  BY <1>1, FileParts
<1>3. /\ scan' \in [File -> ScanRow \cup {NULL}]
      /\ \A g \in File : scan[g] # NULL => scan'[g] # NULL
  <2>1. scan' = [scan EXCEPT ![f] = [scan[f] EXCEPT !.stable = FALSE]]
    BY DEF Noted
  <2>2. scan \in [File -> ScanRow \cup {NULL}] /\ scan[f] \in ScanRow
    BY <1>1 DEF TypeOK, Listed
  <2>3. [scan[f] EXCEPT !.stable = FALSE] \in ScanRow
    BY <2>2 DEF ScanRow
  <2>4. QED
    BY <1>1, <2>1, <2>2, <2>3, IngestAssumption
<1>4. CASE tick.todo = {f}
  <2>1. tick' = NULL
    BY <1>4 DEF Noted
  <2>2. QED
    BY <1>3, <2>1 DEF Listed
<1>5. CASE tick.todo # {f}
  <2>1. tick' = [tick EXCEPT !.todo = @ \ {f},
                             !.known = [tick.known EXCEPT ![f[1]] = fields], !.work = NULL]
    BY <1>5 DEF Noted
  <2>2. [tick.known EXCEPT ![f[1]] = fields] \in [Asset -> Fields \cup {NULL}]
    BY <1>1, <1>2 DEF Tick
  <2>3. /\ tick'.known = [tick.known EXCEPT ![f[1]] = fields]
        /\ tick'.work = NULL
        /\ tick'.todo = tick.todo \ {f}
        /\ tick' \in Tick
    BY <1>1, <2>1, <2>2 DEF Tick
  <2>4. \A a \in Asset : tick'.known[a] = IF a = f[1] THEN fields ELSE tick.known[a]
    BY <1>1, <1>2, <2>3 DEF Tick
  <2>5. Listed'
    BY <1>1, <1>3, <2>3 DEF Listed, Tick
  <2>6. QED
    BY <1>3, <2>3, <2>4, <2>5
<1>6. QED
  BY <1>4, <1>5

-----------------------------------------------------------------------------
\* The end of a transaction

\* Rolled back, for one of the jobs was there: the tick remembers what is not in the row,
\* but the round is queued.
LEMMA Rollback ==
    ASSUME IInv, tick # NULL, NEW f \in tick.todo, NEW before \in Fields, NEW fields \in Fields,
           NEW hasProxy \in BOOLEAN, fields.version = before.version,
           fields.done = IF hasProxy THEN before.done \cup {"proxy"} ELSE before.done,
           f[1] \notin threw => Follows(f[1], before),
           Exists(f[1], Required(hasProxy), fields.version),
           UNCHANGED <<asset, jobs, derived>>, Noted(f, fields), UNCHANGED <<disk, history, events>>
    PROVE  IInv'
<1> DEFINE a == f[1]
<1>1. f \in File /\ a \in Asset
  BY FileParts DEF IInv, TypeOK, Tick
<1>2. /\ tick' \in Tick \cup {NULL}
      /\ scan' \in [File -> ScanRow \cup {NULL}]
      /\ Listed'
      /\ tick' # NULL =>
            /\ tick'.work = NULL
            /\ \A b \in Asset : tick'.known[b] = IF b = a THEN fields ELSE tick.known[b]
  BY NotedType DEF IInv
<1>3. TypeOK' /\ WrittenSoFar' /\ JobsBehind' /\ NothingIsStranded' /\ WorkInv'
  BY <1>2 DEF IInv, TypeOK, WrittenSoFar, JobsBehind, Behind, NothingIsStranded, Exists, WorkInv,
       history
<1>4. ASSUME a \notin threw PROVE asset[a] # NULL /\ Follows(a, fields)
  <2>1. PICK type \in Required(hasProxy) : jobs[<<a, type, fields.version>>] # "absent"
    BY DEF Exists
  <2>2. type \in Type /\ fields.version \in Version
    BY DEF Required, Fields
  <2>3. asset[a] # NULL
    BY <1>1, <1>4, <2>1, <2>2 DEF IInv, JobsBehind, Behind, Version
  <2>4. CASE hasProxy
    <3>1. type = "extract_facts"
      BY <2>1, <2>4 DEF Required, Type
    <3>2. QED
      BY <1>4, <2>1, <2>3, <3>1 DEF Follows
  <2>5. CASE ~hasProxy
    BY <1>4, <2>3, <2>5 DEF Follows
  <2>6. QED
    BY <2>3, <2>4, <2>5
<1>5. KnownInv'
  <2> SUFFICES ASSUME tick' # NULL, NEW b \in Asset, b \notin threw, tick'.known[b] # NULL
               PROVE  asset[b] # NULL /\ Follows(b, tick'.known[b])
    BY DEF KnownInv, Follows, Behind, history
  <2>1. CASE b = a
    BY <1>2, <1>4, <2>1
  <2>2. CASE b # a
    BY <1>2, <2>2 DEF IInv, KnownInv
  <2>3. QED
    BY <2>1, <2>2
<1>6. QED
  BY <1>2, <1>3, <1>5 DEF IInv

\* The row after a transaction: it is there, of the round whose jobs were queued or of
\* a later one, and of that round it has what the transaction had.
LEMMA SavedRow ==
    ASSUME IInv, tick # NULL, NEW a \in Asset \ threw, NEW before \in Fields, NEW fields \in Fields,
           fields.version = before.version, Follows(a, before),
           asset' = Saved(a, before, fields)
    PROVE  /\ asset'[a] # NULL
           /\ \/ asset'[a].fields = fields
              \/ asset[a] # NULL /\ asset'[a] = asset[a] /\ fields = before
           /\ fields.version <= asset'[a].fields.version
<1>1. asset \in [Asset -> Row \cup {NULL}] /\ NULL \notin Row
  BY IngestAssumption DEF IInv, TypeOK
<1>2. CASE asset[a] = NULL
  <2>1. tick.known[a] = NULL
    BY <1>2 DEF IInv, KnownInv
  <2>2. asset' = [asset EXCEPT ![a] = [state |-> "DISCOVERED", fields |-> fields]]
    BY <1>2, <2>1 DEF Saved
  <2>3. asset'[a] = [state |-> "DISCOVERED", fields |-> fields]
    BY <1>1, <2>2
  <2>4. asset'[a] \in Row /\ asset'[a].fields = fields
    BY <2>3 DEF Row, State
  <2>5. QED
    BY <1>1, <2>4 DEF Fields, Version
<1>3. CASE asset[a] # NULL /\ fields # before
  <2>1. asset' = [asset EXCEPT ![a] = [asset[a] EXCEPT !.fields = fields]]
    BY <1>3 DEF Saved
  <2>2. asset'[a] = [asset[a] EXCEPT !.fields = fields] /\ asset[a] \in Row
    BY <1>1, <1>3, <2>1
  <2>3. asset'[a] \in Row /\ asset'[a].fields = fields
    BY <2>2 DEF Row
  <2>4. QED
    BY <1>1, <2>3 DEF Fields, Version
<1>4. CASE asset[a] # NULL /\ fields = before
  <2>1. asset' = asset
    BY <1>4 DEF Saved
  <2>2. QED
    BY <1>4, <2>1 DEF Follows
<1>5. QED
  BY <1>2, <1>3, <1>4

LEMMA SavedType ==
    ASSUME TypeOK, NEW a \in Asset, NEW before, NEW fields \in Fields,
           asset' = Saved(a, before, fields)
    PROVE  /\ asset' \in [Asset -> Row \cup {NULL}]
           /\ \A b \in Asset : b # a => asset'[b] = asset[b]
<1>1. asset \in [Asset -> Row \cup {NULL}]
  BY DEF TypeOK
<1>2. asset[a] # NULL => [asset[a] EXCEPT !.fields = fields] \in Row
  BY <1>1 DEF Row
<1>3. [state |-> "DISCOVERED", fields |-> fields] \in Row
  BY DEF Row, State
<1>4. \/ asset' = asset
      \/ asset' = [asset EXCEPT ![a] = [state |-> "DISCOVERED", fields |-> fields]]
      \/ asset[a] # NULL /\ asset' = [asset EXCEPT ![a] = [asset[a] EXCEPT !.fields = fields]]
  BY DEF Saved
<1>5. QED
  BY <1>1, <1>2, <1>3, <1>4

\* Carried out.
LEMMA Committed ==
    ASSUME IInv, tick # NULL, NEW f \in tick.todo, NEW before \in Fields, NEW fields \in Fields,
           NEW hasProxy \in BOOLEAN, fields.version = before.version,
           fields.done = IF hasProxy THEN before.done \cup {"proxy"} ELSE before.done,
           hasProxy => derived[f[1]].file,
           f[1] \notin threw => Follows(f[1], before),
           ~Exists(f[1], Required(hasProxy), fields.version),
           asset' = Saved(f[1], before, fields),
           jobs' = Queued(f[1], Required(hasProxy), fields.version),
           derived' = [derived EXCEPT ![f[1]].row = @ \/ hasProxy],
           Noted(f, fields), UNCHANGED <<disk, history, events>>
    PROVE  IInv'
<1>0. PICK a, v, types : a = f[1] /\ v = fields.version /\ types = Required(hasProxy)
  OBVIOUS
<1>1. /\ f \in File /\ a \in Asset /\ v \in Version
      /\ types \subseteq Type /\ "extract_facts" \in types
      /\ "generate_preview" \in types <=> ~hasProxy
  BY <1>0, FileParts DEF IInv, TypeOK, Tick, Required, Type, Fields
<1>2. /\ tick' \in Tick \cup {NULL}
      /\ scan' \in [File -> ScanRow \cup {NULL}]
      /\ Listed'
      /\ tick' # NULL =>
            /\ tick'.work = NULL
            /\ \A b \in Asset : tick'.known[b] = IF b = a THEN fields ELSE tick.known[b]
  BY <1>0, NotedType DEF IInv
<1>3. /\ asset' \in [Asset -> Row \cup {NULL}]
      /\ \A b \in Asset : b # a => asset'[b] = asset[b]
  BY <1>0, <1>1, SavedType DEF IInv
<1>4. jobs' \in [Job -> {"absent", "pending", "completed"}]
  BY <1>0 DEF Queued, IInv, TypeOK
<1>5. \A b \in Asset, type \in Type, w \in Version :
        jobs'[<<b, type, w>>] = IF b = a /\ type \in types /\ w = v THEN "pending"
                                ELSE jobs[<<b, type, w>>]
  BY <1>0, JobIsTriple DEF Queued
<1>6. /\ derived' \in [Asset -> [file: BOOLEAN, row: BOOLEAN]]
      /\ \A b \in Asset : /\ derived'[b].file = derived[b].file
                          /\ derived[b].row => derived'[b].row
      /\ hasProxy => derived'[a].row /\ derived'[a].file
  BY <1>0, <1>1 DEF IInv, TypeOK
<1>7. TypeOK' /\ WrittenSoFar' /\ WorkInv'
  BY <1>2, <1>3, <1>4, <1>6 DEF IInv, TypeOK, WrittenSoFar, WorkInv, history
<1>8. ASSUME a \notin threw
      PROVE  /\ asset'[a] # NULL
             /\ v <= asset'[a].fields.version
             /\ Behind(a, v)'
             /\ \/ asset'[a].fields = fields
                \/ asset[a] # NULL /\ asset'[a] = asset[a] /\ fields = before
             /\ asset'[a].fields.version = v => fields.done \subseteq asset'[a].fields.done
  <2>1. /\ asset'[a] # NULL
        /\ v <= asset'[a].fields.version
        /\ \/ asset'[a].fields = fields
           \/ asset[a] # NULL /\ asset'[a] = asset[a] /\ fields = before
    BY <1>0, <1>1, <1>8, SavedRow
  <2>2. Behind(a, v)
    BY <1>0, <1>8 DEF Follows
  <2>3. Behind(a, v)'
    BY <1>1, <1>5, <2>2 DEF Behind, Version
  <2>4. jobs[<<a, "extract_facts", v>>] = "absent"
    BY <1>0, <1>1 DEF Exists
  <2>5. ASSUME asset[a] # NULL, asset'[a] = asset[a], fields = before,
               asset'[a].fields.version = v
        PROVE  fields.done \subseteq asset'[a].fields.done
    BY <1>0, <1>8, <2>4, <2>5 DEF Follows
  <2>6. QED
    BY <2>1, <2>3, <2>5
<1>9. JobsBehind'
  <2> SUFFICES ASSUME NEW b \in Asset, b \notin threw
               PROVE  Behind(b, IF asset[b] = NULL THEN 0 ELSE asset[b].fields.version)'
    BY DEF JobsBehind, history
  <2>1. CASE b = a
    <3>1. asset'[a].fields.version \in Nat
      BY <1>1, <1>3, <1>8, <2>1 DEF Row, Fields, Version
    <3>2. Behind(a, asset[a].fields.version)'
      BY <1>1, <1>8, <2>1, <3>1 DEF Behind, Version
    <3>3. QED
      BY <1>8, <2>1, <3>2 DEF Behind
  <2>2. CASE b # a
    BY <1>3, <1>5, <2>2 DEF IInv, JobsBehind, Behind
  <2>3. QED
    BY <2>1, <2>2
<1>10. KnownInv'
  <2> SUFFICES ASSUME tick' # NULL, NEW b \in Asset, b \notin threw, tick'.known[b] # NULL
               PROVE  asset'[b] # NULL /\ Follows(b, tick.known[b])'
    BY DEF KnownInv, history
  <2>1. CASE b = a
    <3>1. tick'.known[b] = fields
      BY <1>2, <2>1
    <3>2. QED
      BY <1>0, <1>8, <2>1, <3>1 DEF Follows, Behind
  <2>2. CASE b # a
    <3>1. tick'.known[b] = tick.known[b]
      BY <1>2, <2>2
    <3>2. asset[b] # NULL /\ Follows(b, tick.known[b]) /\ tick.known[b] \in Fields
      BY <3>1 DEF IInv, KnownInv, TypeOK, Tick
    <3>3. tick.known[b].version \in Version
      BY <3>2 DEF Fields
    <3>4. QED
      BY <1>3, <1>5, <2>2, <3>1, <3>2, <3>3 DEF Follows, Behind, Type
  <2>3. QED
    BY <2>1, <2>2
<1>11. NothingIsStranded'
  <2> SUFFICES ASSUME NEW b \in Asset, b \notin requeued, b \notin threw, asset'[b] # NULL,
                      Exists(b, Type, asset[b].fields.version)'
               PROVE  /\ \A type \in Type :
                            \/ FlagOf[type] \in asset'[b].fields.done
                            \/ jobs'[<<b, type, asset'[b].fields.version>>] = "pending"
                      /\ jobs'[<<b, "generate_preview", asset'[b].fields.version>>] = "absent" =>
                            derived'[b].row /\ derived'[b].file
    BY DEF NothingIsStranded, history
  <2>0. asset'[b].fields.version \in Version
    BY <1>3 DEF Row, Fields
  <2>1. CASE b = a /\ asset'[b].fields.version = v
    <3>1. \A type \in types : jobs'[<<a, type, v>>] = "pending"
      BY <1>1, <1>5
    <3>2. \A type \in Type \ types : hasProxy /\ FlagOf[type] = "proxy"
      BY <1>1 DEF Type, FlagOf
    <3>3. hasProxy => "proxy" \in asset'[a].fields.done
      BY <1>8, <2>1
    <3>4. QED
      BY <1>1, <1>6, <2>1, <3>1, <3>2, <3>3 DEF Type
  <2>2. CASE b # a \/ asset'[b].fields.version # v
    <3>1. asset[b] # NULL /\ asset'[b] = asset[b]
      BY <1>0, <1>3, <1>8, <2>2
    <3>2. \A type \in Type : jobs'[<<b, type, asset[b].fields.version>>]
                               = jobs[<<b, type, asset[b].fields.version>>]
      BY <1>5, <2>0, <2>2, <3>1
    <3>3. Exists(b, Type, asset[b].fields.version)
      BY <3>1, <3>2 DEF Exists
    <3>4. QED
      BY <1>6, <3>1, <3>2, <3>3 DEF IInv, NothingIsStranded, Type
  <2>3. QED
    BY <2>1, <2>2
<1>12. QED
  BY <1>2, <1>7, <1>9, <1>10, <1>11 DEF IInv

LEMMA CommitStep ==
    ASSUME IInv, tick # NULL, NEW f \in tick.todo, NEW before \in Fields, NEW fields \in Fields,
           NEW hasProxy \in BOOLEAN, fields.version = before.version,
           fields.done = IF hasProxy THEN before.done \cup {"proxy"} ELSE before.done,
           hasProxy => derived[f[1]].file,
           f[1] \notin threw => Follows(f[1], before),
           Commit(f, before, fields, hasProxy), UNCHANGED <<disk, history, events>>
    PROVE  IInv'
  BY Rollback, Committed DEF Commit

-----------------------------------------------------------------------------
\* The steps of a tick

LEMMA PollStep == IInv /\ Poll => IInv'
<1> SUFFICES ASSUME IInv, Poll PROVE IInv'
  OBVIOUS
<1>1. /\ scan' = [f \in File |-> IF f \in Polled THEN recordDetectedFile(f) ELSE scan[f]]
      /\ UNCHANGED <<disk, asset, jobs, derived, history, events>>
  BY DEF Poll
<1>2. PICK stable : /\ stable = {f \in File : scan'[f] # NULL /\ scan'[f].stable}
                    /\ tick' = IF stable = {} THEN NULL
                               ELSE [todo |-> stable, known |-> [a \in Asset |-> NULL],
                                     work |-> NULL]
  BY DEF Poll
<1>3. scan' \in [File -> ScanRow \cup {NULL}]
  <2>1. ASSUME NEW f \in Polled PROVE recordDetectedFile(f) \in ScanRow
    BY DEF Polled, recordDetectedFile, ScanRow, IInv, TypeOK
  <2>2. QED
    BY <1>1, <2>1 DEF IInv, TypeOK
<1>4. tick' \in Tick \cup {NULL}
  BY <1>2 DEF Tick
<1>5. tick' # NULL => /\ tick'.todo = stable
                      /\ tick'.work = NULL
                      /\ \A a \in Asset : tick'.known[a] = NULL
  BY <1>2
<1>6. TypeOK' /\ WrittenSoFar'
  BY <1>1, <1>3, <1>4 DEF IInv, TypeOK, WrittenSoFar, history
<1>7. Listed' /\ KnownInv' /\ WorkInv'
  BY <1>2, <1>5 DEF Listed, KnownInv, WorkInv
<1>8. JobsBehind' /\ NothingIsStranded'
  BY <1>1 DEF IInv, JobsBehind, Behind, NothingIsStranded, Exists, history
<1>9. QED
  BY <1>6, <1>7, <1>8 DEF IInv

\* A file that is passed over: the tick knows no more than before.
LEMMA SkipStep ==
    ASSUME IInv, NEW a \in Asset, NEW part \in Part, Skip(a, part)
    PROVE  IInv'
<1> DEFINE f == <<a, part>>
<1>1. /\ tick # NULL /\ f \in tick.todo /\ f[1] = a
      /\ Noted(f, tick.known[a])
      /\ UNCHANGED <<disk, asset, jobs, derived, history, events>>
  BY DEF Skip, Idle
<1>2. tick.known[a] \in Fields \cup {NULL}
  BY <1>1 DEF IInv, TypeOK, Tick
<1> HIDE DEF f
<1>3. /\ tick' \in Tick \cup {NULL}
      /\ scan' \in [File -> ScanRow \cup {NULL}]
      /\ Listed'
      /\ tick' # NULL => tick'.work = NULL /\ \A b \in Asset : tick'.known[b] = tick.known[b]
  BY <1>1, <1>2, NotedType DEF IInv
<1>4. QED
  BY <1>1, <1>3
     DEF IInv, TypeOK, WrittenSoFar, JobsBehind, Behind, KnownInv, Follows, WorkInv,
         NothingIsStranded, Exists, history

LEMMA OriginalStep ==
    ASSUME IInv, NEW a \in Asset, Original(a)
    PROVE  IInv'
<1> DEFINE f == <<a, "original">>
<1>1. /\ tick # NULL /\ f \in tick.todo /\ f[1] = a
      /\ Commit(f, Entity(a), WithSidecar(a), FALSE)
      /\ UNCHANGED <<disk, history, events>>
  BY DEF Original, Idle
<1>2. Entity(a) \in Fields /\ (a \notin threw => Follows(a, Entity(a)))
  BY <1>1, EntityFollows DEF IInv
<1>3. /\ WithSidecar(a) \in Fields
      /\ WithSidecar(a).version = Entity(a).version
      /\ WithSidecar(a).done = Entity(a).done
  BY <1>2 DEF WithSidecar, Fields, Here
<1> HIDE DEF f
<1>4. QED
  BY <1>1, <1>2, <1>3, CommitStep

LEMMA SidecarStep ==
    ASSUME IInv, NEW a \in Asset, Sidecar(a)
    PROVE  IInv'
<1> DEFINE f == <<a, "sidecar">>
           fields == [Entity(a) EXCEPT !.sidecar = TRUE]
<1>1. /\ tick # NULL /\ f \in tick.todo /\ f[1] = a
      /\ Commit(f, Entity(a), fields, FALSE)
      /\ UNCHANGED <<disk, history, events>>
  BY DEF Sidecar, Idle
<1>2. Entity(a) \in Fields /\ (a \notin threw => Follows(a, Entity(a)))
  BY <1>1, EntityFollows DEF IInv
<1>3. fields \in Fields /\ fields.version = Entity(a).version /\ fields.done = Entity(a).done
  BY <1>2 DEF Fields
<1> HIDE DEF f, fields
<1>4. QED
  BY <1>1, <1>2, <1>3, CommitStep

LEMMA AttachStep == IInv /\ Attach => IInv'
<1> SUFFICES ASSUME IInv, Attach PROVE IInv'
  OBVIOUS
<1>1. PICK f, before, fields : /\ f = tick.work.file
                               /\ before = tick.work.before
                               /\ fields = tick.work.fields
  OBVIOUS
<1>2. /\ tick # NULL /\ tick.work # NULL
      /\ Commit(f, before, fields, TRUE)
      /\ UNCHANGED <<disk, history, events>>
  BY <1>1 DEF Attach
<1>3. tick.work \in Work /\ f \in tick.todo
  BY <1>1, <1>2 DEF IInv, TypeOK, Tick, Listed
<1>4. before \in Fields /\ fields \in Fields
  BY <1>1, <1>3 DEF Work
<1>5. /\ fields.version = before.version
      /\ fields.done = before.done \cup {"proxy"}
      /\ derived[f[1]].file
      /\ f[1] \notin threw => Follows(f[1], before)
  BY <1>1, <1>2 DEF IInv, WorkInv
<1>6. QED
  BY <1>2, <1>3, <1>4, <1>5, CommitStep

\* A proxy that cannot be used creates the asset, if it is not there.
LEMMA UselessProxyStep ==
    ASSUME IInv, NEW a \in Asset, UselessProxy(a)
    PROVE  IInv'
<1> DEFINE f == <<a, "proxy">>
<1>0. PICK fields : fields = Entity(a)
  OBVIOUS
<1>1. /\ tick # NULL /\ f \in tick.todo /\ f[1] = a
      /\ asset' = Saved(a, fields, fields)
      /\ Noted(f, fields)
      /\ UNCHANGED <<disk, jobs, derived, history, events>>
  BY <1>0 DEF UselessProxy, Idle
<1>2. fields \in Fields /\ (a \notin threw => Follows(a, fields))
  BY <1>0, <1>1, EntityFollows DEF IInv
<1> HIDE DEF f
<1>3. /\ tick' \in Tick \cup {NULL}
      /\ scan' \in [File -> ScanRow \cup {NULL}]
      /\ Listed'
      /\ tick' # NULL =>
            /\ tick'.work = NULL
            /\ \A b \in Asset : tick'.known[b] = IF b = a THEN fields ELSE tick.known[b]
  BY <1>1, <1>2, NotedType DEF IInv
<1>4. /\ asset' \in [Asset -> Row \cup {NULL}]
      /\ \A b \in Asset : b # a => asset'[b] = asset[b]
  BY <1>1, <1>2, SavedType DEF IInv
<1>5. asset[a] # NULL => asset' = asset
  BY <1>1 DEF Saved
<1>6. a \notin threw =>
        /\ asset'[a] # NULL
        /\ asset[a] = NULL => asset'[a].fields = fields
  BY <1>1, <1>2, SavedRow DEF IInv
<1>7. a \notin threw /\ asset[a] = NULL =>
        \A type \in Type, w \in Version : jobs[<<a, type, w>>] = "absent"
  BY DEF IInv, JobsBehind, Behind, Version
<1>8. TypeOK' /\ WrittenSoFar' /\ WorkInv'
  BY <1>1, <1>3, <1>4 DEF IInv, TypeOK, WrittenSoFar, WorkInv, history
<1>9. JobsBehind'
  BY <1>1, <1>4, <1>5, <1>7 DEF IInv, JobsBehind, Behind, history
<1>10. KnownInv'
  <2> SUFFICES ASSUME tick' # NULL, NEW b \in Asset, b \notin threw, tick'.known[b] # NULL
               PROVE  asset'[b] # NULL /\ Follows(b, tick.known[b])'
    BY <1>1 DEF KnownInv, history
  <2>1. CASE b = a
    <3>1. tick'.known[b] = fields /\ fields.version \in Version
      BY <1>2, <1>3, <2>1 DEF Fields
    <3>2. QED
      BY <1>1, <1>2, <1>5, <1>6, <2>1, <3>1 DEF Follows, Behind, Version
  <2>2. CASE b # a
    BY <1>1, <1>3, <1>4, <2>2 DEF IInv, KnownInv, Follows, Behind
  <2>3. QED
    BY <2>1, <2>2
<1>11. NothingIsStranded'
  <2> SUFFICES ASSUME NEW b \in Asset, b \notin requeued, b \notin threw, asset'[b] # NULL,
                      Exists(b, Type, asset[b].fields.version)'
               PROVE  /\ \A type \in Type :
                            \/ FlagOf[type] \in asset'[b].fields.done
                            \/ jobs'[<<b, type, asset'[b].fields.version>>] = "pending"
                      /\ jobs'[<<b, "generate_preview", asset'[b].fields.version>>] = "absent" =>
                            derived'[b].row /\ derived'[b].file
    BY <1>1 DEF NothingIsStranded, history
  <2>1. asset'[b].fields.version \in Version
    BY <1>4 DEF Row, Fields
  <2>2. asset[b] # NULL /\ asset'[b] = asset[b]
    BY <1>1, <1>4, <1>5, <1>7, <2>1 DEF Exists
  <2>3. QED
    BY <1>1, <2>2 DEF IInv, NothingIsStranded, Exists
<1>12. QED
  BY <1>3, <1>8, <1>9, <1>10, <1>11 DEF IInv

\* The fields with which a proxy is moved.
LEMMA BeforeMove ==
    ASSUME IInv, tick # NULL, NEW a \in Asset, NEW part
    PROVE  /\ EntityBeforeMove(a, part) \in Fields
           /\ EntityBeforeMove(a, part).version = Entity(a).version
           /\ EntityBeforeMove(a, part).done = Entity(a).done
<1>1. Entity(a) \in Fields
  BY EntityFollows DEF IInv
<1>2. QED
  BY <1>1 DEF EntityBeforeMove, WithSidecar, Fields, Here

LEMMA MaterializeStep ==
    ASSUME IInv, NEW a \in Asset, NEW part \in Part, Materialize(a, part)
    PROVE  IInv'
<1> DEFINE f == <<a, part>>
           fields == [EntityBeforeMove(a, part) EXCEPT !.done = @ \cup {"proxy"}]
<1>1. /\ tick # NULL /\ tick \in Tick /\ f \in tick.todo /\ f[1] = a /\ f \in File
      /\ tick' = [tick EXCEPT !.work = [file |-> f, before |-> Entity(a), fields |-> fields]]
      /\ disk' = IF derived[a].file THEN disk ELSE [disk EXCEPT ![<<a, "proxy">>] = NULL]
      /\ derived' = [derived EXCEPT ![a].file = TRUE]
      /\ UNCHANGED <<scan, asset, jobs, history, events>>
  BY DEF Materialize, Idle, IInv, TypeOK, Tick
<1>2. Entity(a) \in Fields /\ (a \notin threw => Follows(a, Entity(a)))
  BY <1>1, EntityFollows DEF IInv
<1>3. /\ fields \in Fields
      /\ fields.version = Entity(a).version
      /\ fields.done = Entity(a).done \cup {"proxy"}
  BY <1>1, BeforeMove DEF Fields, Review
<1>4. PICK before, next : before = Entity(a) /\ next = fields
  OBVIOUS
<1> HIDE DEF f, fields
<1>5. [file |-> f, before |-> before, fields |-> next] \in Work
  BY <1>1, <1>2, <1>3, <1>4 DEF Work
<1>6. /\ tick' \in Tick /\ tick' # NULL
      /\ tick'.todo = tick.todo /\ tick'.known = tick.known
      /\ tick'.work = [file |-> f, before |-> before, fields |-> next]
  BY <1>1, <1>4, <1>5, IngestAssumption DEF Tick
<1>7. /\ derived' \in [Asset -> [file: BOOLEAN, row: BOOLEAN]]
      /\ derived'[a].file
      /\ \A b \in Asset : /\ derived'[b].row = derived[b].row
                          /\ derived[b].file => derived'[b].file
  BY <1>1 DEF IInv, TypeOK
<1>8. /\ disk' \in [File -> Stamp \cup {NULL}]
      /\ \A g \in File : disk'[g] \in {disk[g], NULL}
  BY <1>1 DEF IInv, TypeOK
<1>9. TypeOK' /\ WrittenSoFar'
  BY <1>1, <1>6, <1>7, <1>8 DEF IInv, TypeOK, WrittenSoFar, history
<1>10. Listed'
  BY <1>1, <1>6 DEF IInv, Listed
<1>11. JobsBehind' /\ KnownInv'
  BY <1>1, <1>6 DEF IInv, JobsBehind, Behind, KnownInv, Follows, history
<1>12. WorkInv'
  BY <1>1, <1>2, <1>3, <1>4, <1>6, <1>7 DEF WorkInv, Follows, Behind, history
<1>13. NothingIsStranded'
  BY <1>1, <1>7 DEF IInv, NothingIsStranded, Exists, history
<1>14. QED
  BY <1>9, <1>10, <1>11, <1>12, <1>13 DEF IInv

\* The storage fails: of this asset nothing is promised any more.
LEMMA MaterializeFailsStep ==
    ASSUME IInv, NEW a \in Asset, NEW part \in Part, MaterializeFails(a, part)
    PROVE  IInv'
<1> DEFINE f == <<a, part>>
<1>1. /\ tick # NULL /\ f \in tick.todo /\ f[1] = a
      /\ Noted(f, EntityBeforeMove(a, part))
      /\ threw' = threw \cup {a}
      /\ events < MaxEvents /\ events' = events + 1
      /\ UNCHANGED <<disk, asset, jobs, derived, requeued>>
  BY DEF MaterializeFails, Idle, Event
<1>2. EntityBeforeMove(a, part) \in Fields
  BY <1>1, BeforeMove
<1> HIDE DEF f
<1>3. /\ tick' \in Tick \cup {NULL}
      /\ scan' \in [File -> ScanRow \cup {NULL}]
      /\ Listed'
      /\ tick' # NULL =>
            /\ tick'.work = NULL
            /\ \A b \in Asset : b # a => tick'.known[b] = tick.known[b]
  BY <1>1, <1>2, NotedType DEF IInv
<1>4. TypeOK'
  BY <1>1, <1>3, IngestAssumption DEF IInv, TypeOK
<1>5. KnownInv'
  BY <1>1, <1>3 DEF IInv, KnownInv, Follows, Behind
<1>6. WrittenSoFar' /\ JobsBehind' /\ WorkInv' /\ NothingIsStranded'
  BY <1>1, <1>3
     DEF IInv, WrittenSoFar, JobsBehind, Behind, WorkInv, NothingIsStranded, Exists
<1>7. QED
  BY <1>3, <1>4, <1>5, <1>6 DEF IInv

LEMMA CrashStep == IInv /\ Crash => IInv'
<1> SUFFICES ASSUME IInv, Crash PROVE IInv'
  OBVIOUS
<1>1. /\ tick' = NULL
      /\ events < MaxEvents /\ events' = events + 1
      /\ UNCHANGED <<disk, scan, asset, jobs, derived, history>>
  BY DEF Crash, Event
<1>2. TypeOK'
  BY <1>1, IngestAssumption DEF IInv, TypeOK, history
<1>3. QED
  BY <1>1, <1>2 DEF IInv, WrittenSoFar, Listed, JobsBehind, Behind, KnownInv, WorkInv,
                    NothingIsStranded, Exists, history

-----------------------------------------------------------------------------
\* Everybody else

\* A step in which the tick has no part: jobs stay, the jobs it brings are of the first
\* round, rows stay, and a row goes on to a later round or keeps its results.
LEMMA OtherStep ==
    ASSUME IInv, UNCHANGED <<tick, derived, threw>>,
           \A a \in Asset, type \in Type, v \in Version :
              /\ jobs[<<a, type, v>>] # "absent" => jobs'[<<a, type, v>>] # "absent"
              /\ jobs'[<<a, type, v>>] # "absent" =>
                    jobs[<<a, type, v>>] # "absent" \/ (v = 1 /\ asset[a] # NULL),
           asset' \in [Asset -> Row \cup {NULL}],
           \A a \in Asset :
              /\ asset[a] = NULL <=> asset'[a] = NULL
              /\ asset[a] # NULL =>
                    \/ asset[a].fields.version < asset'[a].fields.version
                    \/ /\ asset[a].fields.version = asset'[a].fields.version
                       /\ asset[a].fields.done \subseteq asset'[a].fields.done
    PROVE  JobsBehind' /\ KnownInv' /\ WorkInv'
<1>1. ASSUME NEW a \in Asset, asset[a] # NULL
      PROVE  asset[a].fields.version \in Version /\ asset'[a].fields.version \in Version
  BY <1>1 DEF IInv, TypeOK, Row, Fields
<1>2. ASSUME NEW a \in Asset, NEW r \in Fields, Follows(a, r)
      PROVE  /\ \A type \in Type, w \in Version : jobs'[<<a, type, w>>] # "absent" => w <= r.version
             /\ asset'[a] = NULL => r.version = 1
             /\ asset'[a] # NULL =>
                   /\ r.version <= asset'[a].fields.version
                   /\ r.version = asset'[a].fields.version =>
                         \/ r.done \subseteq asset'[a].fields.done
                         \/ jobs'[<<a, "extract_facts", r.version>>] # "absent"
  <2>1. r.version \in Version
    BY DEF Fields
  <2>2. \A type \in Type, w \in Version : jobs'[<<a, type, w>>] # "absent" => w <= r.version
    BY <1>2, <2>1 DEF Follows, Behind, Version
  <2>3. asset[a] # NULL =>
          /\ r.version <= asset'[a].fields.version
          /\ r.version = asset'[a].fields.version =>
               /\ r.version = asset[a].fields.version
               /\ asset[a].fields.done \subseteq asset'[a].fields.done
    BY <1>1, <1>2, <2>1 DEF Follows, Version
  <2>4. asset[a] # NULL /\ r.version = asset'[a].fields.version =>
          \/ r.done \subseteq asset'[a].fields.done
          \/ jobs'[<<a, "extract_facts", r.version>>] # "absent"
    BY <1>2, <2>1, <2>3 DEF Follows, Type
  <2>5. QED
    BY <1>2, <2>2, <2>3, <2>4 DEF Follows
<1>3. JobsBehind'
  <2> SUFFICES ASSUME NEW a \in Asset, a \notin threw
               PROVE  Behind(a, IF asset[a] = NULL THEN 0 ELSE asset[a].fields.version)'
    BY DEF JobsBehind
  <2>1. Behind(a, IF asset[a] = NULL THEN 0 ELSE asset[a].fields.version)
    BY DEF IInv, JobsBehind
  <2>2. CASE asset[a] = NULL
    BY <2>1, <2>2 DEF Behind
  <2>3. CASE asset[a] # NULL
    BY <1>1, <2>1, <2>3 DEF Behind, Version
  <2>4. QED
    BY <2>2, <2>3
<1>4. KnownInv'
  <2> SUFFICES ASSUME tick # NULL, NEW a \in Asset, a \notin threw, tick.known[a] # NULL
               PROVE  asset'[a] # NULL /\ Follows(a, tick.known[a])'
    BY DEF KnownInv
  <2>1. asset[a] # NULL /\ Follows(a, tick.known[a]) /\ tick.known[a] \in Fields
    BY DEF IInv, TypeOK, Tick, KnownInv
  <2>2. QED
    BY <1>2, <2>1 DEF Follows, Behind
<1>5. WorkInv'
  <2> SUFFICES ASSUME tick # NULL, tick.work # NULL,
                      tick.work.file[1] \notin threw
               PROVE  Follows(tick.work.file[1], tick.work.before)'
    BY DEF WorkInv, IInv
  <2>1. /\ tick.work.file[1] \in Asset
        /\ tick.work.before \in Fields
        /\ Follows(tick.work.file[1], tick.work.before)
    BY FileParts DEF IInv, TypeOK, Tick, Work, WorkInv
  <2>2. QED
    BY <1>2, <2>1 DEF Follows, Behind
<1>6. QED
  BY <1>3, <1>4, <1>5

LEMMA WriteStep ==
    ASSUME IInv, NEW f \in File, Write(f)
    PROVE  IInv'
<1>1. /\ disk[f] # LastStamp[f]
      /\ disk' = [disk EXCEPT ![f] = IF disk[f] = NULL THEN 0 ELSE disk[f] + 1]
      /\ UNCHANGED <<scan, asset, jobs, derived, tick, history, events>>
  BY DEF Write
<1>2. (IF disk[f] = NULL THEN 0 ELSE disk[f] + 1) \in 0..LastStamp[f]
  <2>1. LastStamp[f] \in Nat
    BY IngestAssumption
  <2>2. CASE disk[f] = NULL
    BY <2>1, <2>2
  <2>3. CASE disk[f] # NULL
    <3>1. disk[f] \in 0..LastStamp[f]
      BY <2>3 DEF IInv, WrittenSoFar
    <3>2. QED
      BY <1>1, <2>1, <2>3, <3>1
  <2>4. QED
    BY <2>2, <2>3
<1>3. 0..LastStamp[f] \subseteq Stamp
  BY DEF Stamp
<1>4. TypeOK' /\ WrittenSoFar'
  BY <1>1, <1>2, <1>3 DEF IInv, TypeOK, WrittenSoFar, history
<1>5. QED
  BY <1>1, <1>4
     DEF IInv, Listed, JobsBehind, Behind, KnownInv, Follows, WorkInv, NothingIsStranded, Exists,
         history

LEMMA RemoveStep ==
    ASSUME IInv, NEW f \in File, Remove(f)
    PROVE  IInv'
<1>1. /\ disk' = [disk EXCEPT ![f] = NULL]
      /\ events < MaxEvents /\ events' = events + 1
      /\ UNCHANGED <<scan, asset, jobs, derived, tick, history>>
  BY DEF Remove, Event
<1>2. TypeOK' /\ WrittenSoFar'
  BY <1>1, IngestAssumption DEF IInv, TypeOK, WrittenSoFar, history
<1>3. QED
  BY <1>1, <1>2
     DEF IInv, Listed, JobsBehind, Behind, KnownInv, Follows, WorkInv, NothingIsStranded, Exists,
         history

\* A result is worth its flag, and its job is the only one that no longer waits.
LEMMA ReportStep ==
    ASSUME IInv, NEW a \in Asset, NEW type \in Type, NEW v \in Version, Report(a, type, v)
    PROVE  IInv'
<1>0. PICK done, next :
        /\ done = asset[a].fields.done \cup {FlagOf[type]}
        /\ next = [asset[a] EXCEPT !.fields = [asset[a].fields EXCEPT !.done = done],
                                   !.state = ReviewState(asset[a].state, done)]
  OBVIOUS
<1>1. /\ jobs[<<a, type, v>>] = "pending"
      /\ jobs' = [jobs EXCEPT ![<<a, type, v>>] = "completed"]
      /\ asset' = IF asset[a] = NULL THEN asset ELSE [asset EXCEPT ![a] = next]
      /\ UNCHANGED <<disk, scan, derived, tick, history, events>>
  BY <1>0 DEF Report
<1>2. /\ jobs' \in [Job -> {"absent", "pending", "completed"}]
      /\ \A b \in Asset, t \in Type, w \in Version :
            /\ jobs'[<<b, t, w>>] = IF b = a /\ t = type /\ w = v THEN "completed"
                                    ELSE jobs[<<b, t, w>>]
            /\ jobs'[<<b, t, w>>] = "absent" <=> jobs[<<b, t, w>>] = "absent"
  BY <1>1, JobIsTriple DEF IInv, TypeOK
<1>3. FlagOf[type] \in Review
  BY DEF FlagOf, Type, Review
<1>4. asset[a] # NULL =>
        /\ next \in Row
        /\ next.fields.version = asset[a].fields.version
        /\ next.fields.done = asset[a].fields.done \cup {FlagOf[type]}
  <2> SUFFICES ASSUME asset[a] # NULL
               PROVE  /\ next \in Row
                      /\ next.fields.version = asset[a].fields.version
                      /\ next.fields.done = asset[a].fields.done \cup {FlagOf[type]}
    OBVIOUS
  <2>1. asset[a] \in Row /\ asset[a].fields \in Fields
    BY DEF IInv, TypeOK, Row
  <2>2. done \in SUBSET Review
    BY <1>0, <1>3, <2>1 DEF Fields
  <2>3. ReviewState(asset[a].state, done) \in State
    BY <2>1 DEF ReviewState, Row, State
  <2>4. PICK fields : fields = [asset[a].fields EXCEPT !.done = done]
    OBVIOUS
  <2>5. fields \in Fields /\ fields.version = asset[a].fields.version /\ fields.done = done
    BY <2>1, <2>2, <2>4 DEF Fields
  <2>6. next \in Row /\ next.fields = fields
    BY <1>0, <2>1, <2>3, <2>4, <2>5 DEF Row
  <2>7. QED
    BY <1>0, <2>5, <2>6
<1>5. /\ asset' \in [Asset -> Row \cup {NULL}]
      /\ \A b \in Asset :
            /\ asset[b] = NULL <=> asset'[b] = NULL
            /\ b # a => asset'[b] = asset[b]
            /\ b = a /\ asset[a] # NULL => asset'[b] = next
  BY <1>1, <1>4, IngestAssumption DEF IInv, TypeOK
<1>6. \A b \in Asset : asset[b] # NULL =>
        /\ asset'[b].fields.version = asset[b].fields.version
        /\ asset[b].fields.done \subseteq asset'[b].fields.done
        /\ b = a => FlagOf[type] \in asset'[b].fields.done
  BY <1>4, <1>5
<1>7. JobsBehind' /\ KnownInv' /\ WorkInv'
  <2>1. \A b \in Asset, t \in Type, w \in Version :
          /\ jobs[<<b, t, w>>] # "absent" => jobs'[<<b, t, w>>] # "absent"
          /\ jobs'[<<b, t, w>>] # "absent" =>
                jobs[<<b, t, w>>] # "absent" \/ (w = 1 /\ asset[b] # NULL)
    BY <1>2
  <2>2. \A b \in Asset :
          /\ asset[b] = NULL <=> asset'[b] = NULL
          /\ asset[b] # NULL =>
                \/ asset[b].fields.version < asset'[b].fields.version
                \/ /\ asset[b].fields.version = asset'[b].fields.version
                   /\ asset[b].fields.done \subseteq asset'[b].fields.done
    BY <1>5, <1>6
  <2>3. UNCHANGED <<tick, derived, threw>> /\ asset' \in [Asset -> Row \cup {NULL}]
    BY <1>1, <1>5 DEF history
  <2>4. QED
    BY <2>1, <2>2, <2>3, OtherStep
<1>8. TypeOK' /\ WrittenSoFar' /\ Listed'
  BY <1>1, <1>2, <1>5 DEF IInv, TypeOK, WrittenSoFar, Listed, history
<1>9. NothingIsStranded'
  <2> SUFFICES ASSUME NEW b \in Asset, b \notin requeued, b \notin threw, asset'[b] # NULL,
                      Exists(b, Type, asset[b].fields.version)'
               PROVE  /\ \A t \in Type :
                            \/ FlagOf[t] \in asset'[b].fields.done
                            \/ jobs'[<<b, t, asset'[b].fields.version>>] = "pending"
                      /\ jobs'[<<b, "generate_preview", asset'[b].fields.version>>] = "absent" =>
                            derived'[b].row /\ derived'[b].file
    BY <1>1 DEF NothingIsStranded, history
  <2>1. asset[b] # NULL /\ asset'[b].fields.version = asset[b].fields.version
    BY <1>5, <1>6
  <2>2. asset[b].fields.version \in Version
    BY <2>1 DEF IInv, TypeOK, Row, Fields
  <2>3. Exists(b, Type, asset[b].fields.version)
    BY <1>2, <2>1, <2>2 DEF Exists
  <2>4. /\ \A t \in Type : FlagOf[t] \in asset[b].fields.done
                           \/ jobs[<<b, t, asset[b].fields.version>>] = "pending"
        /\ jobs[<<b, "generate_preview", asset[b].fields.version>>] = "absent" =>
              derived[b].row /\ derived[b].file
    BY <2>1, <2>3 DEF IInv, NothingIsStranded
  <2>5. QED
    BY <1>1, <1>2, <1>6, <2>1, <2>2, <2>4 DEF Type
<1>10. QED
  BY <1>7, <1>8, <1>9 DEF IInv

\* A new round begins with nothing queued, for nothing was queued ahead.
LEMMA ReprocessStep ==
    ASSUME IInv, NEW a \in Asset, Reprocess(a)
    PROVE  IInv'
<1>0. PICK fields, next :
        /\ fields = [asset[a].fields EXCEPT !.done = {}, !.version = asset[a].fields.version + 1]
        /\ next = [asset[a] EXCEPT !.state = "READY", !.fields = fields]
  OBVIOUS
<1>1. /\ asset[a] # NULL
      /\ asset[a].fields.version < MaxVersion
      /\ asset' = [asset EXCEPT ![a] = next]
      /\ UNCHANGED <<disk, scan, jobs, derived, tick, history, events>>
  BY <1>0 DEF Reprocess
<1>2. /\ asset[a] \in Row /\ asset[a].fields \in Fields
      /\ asset[a].fields.version \in Version
  BY <1>1 DEF IInv, TypeOK, Row, Fields
<1>3. asset[a].fields.version + 1 \in Version
  BY <1>1, <1>2, IngestAssumption DEF Version
<1>4. fields \in Fields /\ fields.version = asset[a].fields.version + 1
  BY <1>0, <1>2, <1>3 DEF Fields
<1>5. next \in Row /\ next.fields = fields
  BY <1>0, <1>2, <1>4 DEF Row, State
<1>6. /\ asset' \in [Asset -> Row \cup {NULL}]
      /\ \A b \in Asset : b # a => asset'[b] = asset[b]
      /\ asset'[a] = next /\ asset'[a] # NULL
  BY <1>1, <1>5, IngestAssumption DEF IInv, TypeOK
<1>7. JobsBehind' /\ KnownInv' /\ WorkInv'
  <2>1. \A b \in Asset, t \in Type, w \in Version : jobs'[<<b, t, w>>] = jobs[<<b, t, w>>]
    BY <1>1
  <2>2. asset[a].fields.version < asset'[a].fields.version
    BY <1>2, <1>4, <1>5, <1>6 DEF Version
  <2>3. \A b \in Asset :
          /\ asset[b] = NULL <=> asset'[b] = NULL
          /\ asset[b] # NULL =>
                \/ asset[b].fields.version < asset'[b].fields.version
                \/ /\ asset[b].fields.version = asset'[b].fields.version
                   /\ asset[b].fields.done \subseteq asset'[b].fields.done
    BY <1>1, <1>6, <2>2
  <2>4. UNCHANGED <<tick, derived, threw>>
    BY <1>1 DEF history
  <2>5. QED
    BY <1>6, <2>1, <2>3, <2>4, OtherStep
<1>8. TypeOK' /\ WrittenSoFar' /\ Listed'
  BY <1>1, <1>6 DEF IInv, TypeOK, WrittenSoFar, Listed, history
<1>9. NothingIsStranded'
  <2>1. a \notin threw => ~Exists(a, Type, asset[a].fields.version)'
    <3>1. a \notin threw => Behind(a, asset[a].fields.version)
      BY <1>1 DEF IInv, JobsBehind
    <3>2. ~(asset[a].fields.version + 1 <= asset[a].fields.version)
      BY <1>2 DEF Version
    <3>3. asset'[a].fields.version = asset[a].fields.version + 1
      BY <1>4, <1>5, <1>6
    <3>4. QED
      BY <1>1, <1>3, <3>1, <3>2, <3>3 DEF Behind, Exists
  <2>2. QED
    BY <1>1, <1>6, <2>1 DEF IInv, NothingIsStranded, Exists, history
<1>10. QED
  BY <1>7, <1>8, <1>9 DEF IInv

LEMMA ArchiveStep ==
    ASSUME IInv, NEW a \in Asset, Archive(a)
    PROVE  IInv'
<1>0. PICK next : next = [asset[a] EXCEPT !.state = "ARCHIVED"]
  OBVIOUS
<1>1. /\ asset[a] # NULL
      /\ asset' = [asset EXCEPT ![a] = next]
      /\ disk' = [disk EXCEPT ![<<a, "original">>] = NULL]
      /\ UNCHANGED <<scan, jobs, derived, tick, history, events>>
  BY <1>0 DEF Archive
<1>2. next \in Row /\ next.fields = asset[a].fields
  BY <1>0, <1>1 DEF IInv, TypeOK, Row, State
<1>3. /\ asset' \in [Asset -> Row \cup {NULL}]
      /\ \A b \in Asset : /\ asset[b] = NULL <=> asset'[b] = NULL
                          /\ asset[b] # NULL => asset'[b].fields = asset[b].fields
  BY <1>1, <1>2, IngestAssumption DEF IInv, TypeOK
<1>4. TypeOK' /\ WrittenSoFar' /\ Listed'
  BY <1>1, <1>3 DEF IInv, TypeOK, WrittenSoFar, Listed, history
<1>5. JobsBehind' /\ KnownInv' /\ WorkInv'
  <2>1. \A b \in Asset, t \in Type, w \in Version : jobs'[<<b, t, w>>] = jobs[<<b, t, w>>]
    BY <1>1
  <2>2. \A b \in Asset :
          /\ asset[b] = NULL <=> asset'[b] = NULL
          /\ asset[b] # NULL =>
                \/ asset[b].fields.version < asset'[b].fields.version
                \/ /\ asset[b].fields.version = asset'[b].fields.version
                   /\ asset[b].fields.done \subseteq asset'[b].fields.done
    BY <1>3
  <2>3. UNCHANGED <<tick, derived, threw>>
    BY <1>1 DEF history
  <2>4. QED
    BY <1>3, <2>1, <2>2, <2>3, OtherStep
<1>6. NothingIsStranded'
  BY <1>1, <1>3 DEF IInv, NothingIsStranded, Exists, history
<1>7. QED
  BY <1>4, <1>5, <1>6 DEF IInv

LEMMA RequeueStep ==
    ASSUME IInv, NEW a \in Asset, Requeue(a)
    PROVE  IInv'
<1>1. PICK types :
        jobs' = [j \in Job |-> IF j[1] = a /\ j[2] \in types /\ j[3] = 1 /\ jobs[j] = "absent"
                               THEN "pending" ELSE jobs[j]]
  BY DEF Requeue
<1>2. /\ asset[a] # NULL
      /\ events < MaxEvents /\ events' = events + 1
      /\ requeued' = requeued \cup {a}
      /\ UNCHANGED <<disk, scan, asset, derived, tick, threw>>
  BY DEF Requeue, Event
<1>3. \A b \in Asset, t \in Type, w \in Version :
        /\ jobs[<<b, t, w>>] # "absent" => jobs'[<<b, t, w>>] # "absent"
        /\ jobs'[<<b, t, w>>] # "absent" => jobs[<<b, t, w>>] # "absent" \/ (w = 1 /\ b = a)
        /\ b # a => jobs'[<<b, t, w>>] = jobs[<<b, t, w>>]
  BY <1>1, JobIsTriple
<1>4. JobsBehind' /\ KnownInv' /\ WorkInv'
  <2>1. \A b \in Asset, t \in Type, w \in Version :
          /\ jobs[<<b, t, w>>] # "absent" => jobs'[<<b, t, w>>] # "absent"
          /\ jobs'[<<b, t, w>>] # "absent" =>
                jobs[<<b, t, w>>] # "absent" \/ (w = 1 /\ asset[b] # NULL)
    BY <1>2, <1>3
  <2>2. \A b \in Asset :
          /\ asset[b] = NULL <=> asset'[b] = NULL
          /\ asset[b] # NULL =>
                \/ asset[b].fields.version < asset'[b].fields.version
                \/ /\ asset[b].fields.version = asset'[b].fields.version
                   /\ asset[b].fields.done \subseteq asset'[b].fields.done
    BY <1>2
  <2>3. asset' \in [Asset -> Row \cup {NULL}]
    BY <1>2 DEF IInv, TypeOK
  <2>4. QED
    BY <1>2, <2>1, <2>2, <2>3, OtherStep
<1>5. TypeOK' /\ WrittenSoFar' /\ Listed'
  <2>1. jobs' \in [Job -> {"absent", "pending", "completed"}]
    BY <1>1 DEF IInv, TypeOK
  <2>2. events' \in 0..MaxEvents
    BY <1>2, IngestAssumption DEF IInv, TypeOK
  <2>3. QED
    BY <1>2, <2>1, <2>2 DEF IInv, TypeOK, WrittenSoFar, Listed
<1>6. NothingIsStranded'
  <2> SUFFICES ASSUME NEW b \in Asset, b \notin requeued', b \notin threw, asset[b] # NULL,
                      Exists(b, Type, asset[b].fields.version)'
               PROVE  /\ \A t \in Type :
                            \/ FlagOf[t] \in asset[b].fields.done
                            \/ jobs'[<<b, t, asset[b].fields.version>>] = "pending"
                      /\ jobs'[<<b, "generate_preview", asset[b].fields.version>>] = "absent" =>
                            derived[b].row /\ derived[b].file
    BY <1>2 DEF NothingIsStranded
  <2>1. b # a /\ b \notin requeued
    BY <1>2
  <2>2. asset[b].fields.version \in Version
    BY DEF IInv, TypeOK, Row, Fields
  <2>3. \A t \in Type : jobs'[<<b, t, asset[b].fields.version>>]
                          = jobs[<<b, t, asset[b].fields.version>>]
    BY <1>3, <2>1, <2>2
  <2>4. Exists(b, Type, asset[b].fields.version)
    BY <1>2, <2>3 DEF Exists
  <2>5. QED
    BY <2>1, <2>3, <2>4 DEF IInv, NothingIsStranded, Type
<1>7. QED
  BY <1>4, <1>5, <1>6 DEF IInv

-----------------------------------------------------------------------------
\* Every step

LEMMA IngestInit == Init => IInv
<1> SUFFICES ASSUME Init PROVE IInv
  OBVIOUS
<1>1. TypeOK
  BY IngestAssumption DEF Init, TypeOK
<1>2. \A a \in Asset, type \in Type, v \in Version : jobs[<<a, type, v>>] = "absent"
  BY JobIsTriple DEF Init
<1>3. JobsBehind
  BY <1>2 DEF JobsBehind, Behind
<1>4. WrittenSoFar /\ Listed /\ KnownInv /\ WorkInv /\ NothingIsStranded
  BY DEF Init, WrittenSoFar, Listed, KnownInv, WorkInv, NothingIsStranded
<1>5. QED
  BY <1>1, <1>3, <1>4 DEF IInv

LEMMA IngestStep == IInv /\ [Next]_vars => IInv'
<1> SUFFICES ASSUME IInv, [Next]_vars PROVE IInv'
  OBVIOUS
<1>1. CASE UNCHANGED vars
  BY <1>1 DEF vars, IInv, TypeOK, WrittenSoFar, Listed, JobsBehind, Behind, KnownInv, Follows,
              WorkInv, NothingIsStranded, Exists
<1>2. CASE processStableFile
  BY <1>2, OriginalStep, SidecarStep, UselessProxyStep, SkipStep, MaterializeStep, AttachStep
     DEF processStableFile
<1>3. CASE Next /\ ~processStableFile
  BY <1>3, WriteStep, RemoveStep, PollStep, CrashStep, MaterializeFailsStep, ReprocessStep,
     ArchiveStep, RequeueStep, ReportStep
     DEF Next
<1>4. QED
  BY <1>1, <1>2, <1>3

THEOREM IngestInvariant == Spec => []IInv
  BY IngestInit, IngestStep, PTL DEF Spec

\* Types, for every set of files.
THEOREM IngestTypes == Spec => []TypeOK
<1>1. IInv => TypeOK
  BY DEF IInv
<1>2. QED
  BY <1>1, IngestInvariant, PTL

\* enqueueRequiredJobs: once a round is queued, each thing its review needs is there or
\* on its way, whatever rollbacks, stale entities, crashes and reprocessing did.
THEOREM RoundsAreWhole == Spec => []NothingIsStranded
<1>1. IInv => NothingIsStranded
  BY DEF IInv
<1>2. QED
  BY <1>1, IngestInvariant, PTL

\* enqueueRequiredJobs queues for no asset that a rollback took away, unless the storage
\* failed the tick.
THEOREM JobsOfAssets == Spec => []JobsHaveAnAsset
<1>1. IInv => JobsHaveAnAsset
  <2> SUFFICES ASSUME IInv, NEW a \in Asset, a \notin threw, Exists(a, Type, 1)
               PROVE  asset[a] # NULL
    BY DEF JobsHaveAnAsset
  <2>1. 1 \in Version
    BY IngestAssumption DEF Version
  <2>2. QED
    BY <2>1 DEF IInv, JobsBehind, Behind, Exists
<1>2. QED
  BY <1>1, IngestInvariant, PTL

-----------------------------------------------------------------------------
\* What stale saves take back

\* A preview is queued with, or after, the extraction of facts.
FactsFirst ==
    \A a \in Asset, v \in Version :
        jobs[<<a, "generate_preview", v>>] # "absent" => jobs[<<a, "extract_facts", v>>] # "absent"

HasSidecar(a) == asset[a] # NULL /\ asset[a].fields.sidecar

\* Nobody but the tick attaches sidecars, so what it holds of an asset has those of the row.
SidecarsKnown ==
    tick # NULL =>
        /\ \A a \in Asset : HasSidecar(a) /\ tick.known[a] # NULL => tick.known[a].sidecar
        /\ tick.work # NULL =>
              /\ HasSidecar(tick.work.file[1]) => tick.work.before.sidecar
              /\ tick.work.before.sidecar => tick.work.fields.sidecar

\* The row of asset a keeps what a tick never takes back.
RowKept(a) ==
    asset[a] # NULL => /\ asset'[a] # NULL
                       /\ asset[a].fields.sidecar => asset'[a].fields.sidecar

\* Nothing is taken back, or it will be done again.
MadeGood(a) ==
    asset[a] # NULL /\ a \notin threw /\ TakesBack(a) =>
        /\ ~Exists(a, Type, asset[a].fields.version)
        /\ jobs'[<<a, "extract_facts", asset'[a].fields.version>>] = "pending"

\* Of the jobs of each asset and round, extract_facts is queued first or never.
LEMMA FactsFirstStep == TypeOK /\ FactsFirst /\ [Next]_vars => FactsFirst'
<1> SUFFICES ASSUME TypeOK, FactsFirst, [Next]_vars,
                    NEW a \in Asset, NEW v \in Version,
                    jobs'[<<a, "generate_preview", v>>] # "absent"
             PROVE  jobs'[<<a, "extract_facts", v>>] # "absent"
  BY DEF FactsFirst
<1>1. /\ <<a, "generate_preview", v>> \in Job /\ <<a, "extract_facts", v>> \in Job
  BY JobIsTriple DEF Type
<1>2. CASE UNCHANGED jobs
  BY <1>2 DEF FactsFirst
<1>3. ASSUME NEW b \in Asset, NEW hasProxy \in BOOLEAN, NEW w,
             jobs' = Queued(b, Required(hasProxy), w)
      PROVE  jobs'[<<a, "extract_facts", v>>] # "absent"
  BY <1>1, <1>3 DEF Queued, Required, Type, FactsFirst
<1>4. ASSUME NEW f, NEW before, NEW fields, NEW hasProxy \in BOOLEAN, f[1] \in Asset,
             Commit(f, before, fields, hasProxy)
      PROVE  jobs'[<<a, "extract_facts", v>>] # "absent"
  BY <1>2, <1>3, <1>4 DEF Commit
<1>5. ASSUME NEW b \in Asset, Original(b) \/ Sidecar(b)
      PROVE  jobs'[<<a, "extract_facts", v>>] # "absent"
  <2>1. CASE Original(b)
    <3>1. Commit(<<b, "original">>, Entity(b), WithSidecar(b), FALSE)
      BY <2>1 DEF Original
    <3>2. QED
      BY <1>4, <3>1
  <2>2. CASE Sidecar(b)
    <3>1. Commit(<<b, "sidecar">>, Entity(b), [Entity(b) EXCEPT !.sidecar = TRUE], FALSE)
      BY <2>2 DEF Sidecar
    <3>2. QED
      BY <1>4, <3>1
  <2>3. QED
    BY <1>5, <2>1, <2>2
<1>6. CASE Attach
  <2>1. tick.work \in Work /\ Commit(tick.work.file, tick.work.before, tick.work.fields, TRUE)
    BY <1>6 DEF Attach, TypeOK, Tick
  <2>2. tick.work.file[1] \in Asset
    BY <2>1, FileParts DEF Work
  <2>3. QED
    BY <1>4, <2>1, <2>2
<1>7. ASSUME NEW b \in Asset, NEW type \in Type, NEW w \in Version, Report(b, type, w)
      PROVE  jobs'[<<a, "extract_facts", v>>] # "absent"
  <2>1. jobs' = [jobs EXCEPT ![<<b, type, w>>] = "completed"]
    BY <1>7 DEF Report
  <2>2. jobs[<<b, type, w>>] = "pending"
    BY <1>7 DEF Report
  <2>3. QED
    BY <1>1, <2>1, <2>2 DEF TypeOK, FactsFirst
<1>8. ASSUME NEW b \in Asset, Requeue(b)
      PROVE  jobs'[<<a, "extract_facts", v>>] # "absent"
  <2>1. PICK types \in {{"extract_facts"}, Required("proxy" \in asset[b].fields.done)} :
          jobs' = [j \in Job |-> IF j[1] = b /\ j[2] \in types /\ j[3] = 1 /\ jobs[j] = "absent"
                                 THEN "pending" ELSE jobs[j]]
    BY <1>8 DEF Requeue
  <2>2. "extract_facts" \in types
    BY DEF Required, Type
  <2>3. QED
    BY <1>1, <2>1, <2>2 DEF FactsFirst
<1>9. QED
  BY <1>2, <1>5, <1>6, <1>7, <1>8
     DEF Next, vars, processStableFile, UselessProxy, Skip, Materialize, Write, Remove, Poll,
         Crash, MaterializeFails, Reprocess, Archive

LEMMA EntitySidecar ==
    ASSUME SidecarsKnown, tick # NULL, NEW a \in Asset, HasSidecar(a)
    PROVE  Entity(a).sidecar
  BY DEF SidecarsKnown, HasSidecar, Entity

\* A save, carried out or rolled back, from a reading that has the sidecar of the row.
LEMMA SaveKeeps ==
    ASSUME IInv, SidecarsKnown, tick # NULL, NEW f \in tick.todo,
           NEW before \in Fields, NEW fields \in Fields,
           HasSidecar(f[1]) => before.sidecar, before.sidecar => fields.sidecar,
           asset' = asset \/ asset' = Saved(f[1], before, fields), Noted(f, fields)
    PROVE  SidecarsKnown' /\ \A a \in Asset : RowKept(a)
<1> DEFINE a == f[1]
<1>1. a \in Asset
  BY FileParts DEF IInv, TypeOK, Tick
<1>2. tick' # NULL =>
        /\ tick'.work = NULL
        /\ \A b \in Asset : tick'.known[b] = IF b = a THEN fields ELSE tick.known[b]
  BY NotedType DEF IInv
<1>3. \A b \in Asset : b # a => asset'[b] = asset[b]
  BY <1>1, SavedType DEF IInv
<1>4. /\ asset[a] # NULL => asset'[a] # NULL
      /\ asset'[a] # NULL => \/ asset'[a].fields = fields
                             \/ asset[a] # NULL /\ asset'[a] = asset[a]
  <2>1. CASE asset' = asset
    BY <2>1
  <2>2. CASE asset' = [asset EXCEPT ![a] = [state |-> "DISCOVERED", fields |-> fields]]
    <3>1. asset'[a] = [state |-> "DISCOVERED", fields |-> fields]
      BY <1>1, <2>2 DEF IInv, TypeOK
    <3>2. asset'[a] \in Row
      BY <3>1 DEF Row, State
    <3>3. QED
      BY <3>1, <3>2, IngestAssumption
  <2>3. CASE asset[a] # NULL /\ asset' = [asset EXCEPT ![a] = [asset[a] EXCEPT !.fields = fields]]
    <3>1. asset'[a] = [asset[a] EXCEPT !.fields = fields] /\ asset[a] \in Row
      BY <1>1, <2>3 DEF IInv, TypeOK
    <3>2. asset'[a] \in Row /\ asset'[a].fields = fields
      BY <3>1 DEF Row
    <3>3. QED
      BY <2>3, <3>2, IngestAssumption
  <2>4. QED
    BY <2>1, <2>2, <2>3 DEF Saved
<1>5. asset[a] # NULL /\ asset[a].fields.sidecar => fields.sidecar
  BY DEF HasSidecar
<1>6. \A b \in Asset : RowKept(b)
  BY <1>3, <1>4, <1>5 DEF RowKept
<1>7. SidecarsKnown'
  <2> SUFFICES ASSUME tick' # NULL, NEW b \in Asset, HasSidecar(b)', tick'.known[b] # NULL
               PROVE  tick'.known[b].sidecar
    BY <1>2 DEF SidecarsKnown
  <2>1. CASE b = a
    BY <1>2, <1>4, <1>5, <2>1 DEF HasSidecar
  <2>2. CASE b # a
    BY <1>2, <1>3, <2>2 DEF SidecarsKnown, HasSidecar
  <2>3. QED
    BY <2>1, <2>2
<1>8. QED
  BY <1>6, <1>7

\* A commit that goes through has found none of the round's jobs.
LEMMA CommitMakesGood ==
    ASSUME IInv, FactsFirst, tick # NULL, NEW f \in tick.todo, NEW before \in Fields,
           NEW fields \in Fields, NEW hasProxy \in BOOLEAN, fields.version = before.version,
           f[1] \notin threw => Follows(f[1], before),
           Commit(f, before, fields, hasProxy)
    PROVE  \A a \in Asset : MadeGood(a)
<1> SUFFICES ASSUME NEW a \in Asset, asset[a] # NULL, a \notin threw, TakesBack(a)
             PROVE  /\ ~Exists(a, Type, asset[a].fields.version)
                    /\ jobs'[<<a, "extract_facts", asset'[a].fields.version>>] = "pending"
  BY DEF MadeGood
<1>1. asset' # asset
  <2>1. asset[a].fields.version \in Version
    BY DEF IInv, TypeOK, Row, Fields
  <2>2. QED
    BY <2>1 DEF TakesBack, Version
<1>2. /\ ~Exists(f[1], Required(hasProxy), fields.version)
      /\ asset' = Saved(f[1], before, fields)
      /\ jobs' = Queued(f[1], Required(hasProxy), fields.version)
  BY <1>1 DEF Commit
<1>3. f[1] \in Asset
  BY FileParts DEF IInv, TypeOK, Tick
<1>4. a = f[1]
  <2>1. asset[a].fields.version \in Version
    BY DEF IInv, TypeOK, Row, Fields
  <2>2. a # f[1] => asset'[a] = asset[a]
    BY <1>2, <1>3, SavedType DEF IInv
  <2>3. QED
    BY <2>1, <2>2 DEF TakesBack, Version
<1>5. asset'[a].fields = fields
  <2>1. asset[a].fields.version \in Version
    BY DEF IInv, TypeOK, Row, Fields
  <2>2. asset'[a] # asset[a]
    BY <2>1 DEF TakesBack, Version
  <2>3. QED
    BY <1>2, <1>4, <2>2, SavedRow
<1>6. fields.version \in Version /\ asset[a].fields.version \in Version
  BY DEF IInv, TypeOK, Row, Fields
<1>7. jobs[<<a, "extract_facts", fields.version>>] = "absent"
  BY <1>2, <1>4 DEF Exists, Required, Type
<1>8. jobs'[<<a, "extract_facts", fields.version>>] = "pending"
  BY <1>2, <1>4, <1>6, JobIsTriple DEF Queued, Required, Type
<1>9. CASE fields.version < asset[a].fields.version
  <2>1. Behind(a, fields.version)
    BY <1>4 DEF Follows
  <2>2. ~(asset[a].fields.version <= fields.version)
    BY <1>6, <1>9 DEF Version
  <2>3. ~Exists(a, Type, asset[a].fields.version)
    BY <1>6, <2>1, <2>2 DEF Behind, Exists
  <2>4. QED
    BY <1>5, <1>8, <2>3
<1>10. CASE fields.version = asset[a].fields.version
  <2>1. jobs[<<a, "generate_preview", fields.version>>] = "absent"
    BY <1>6, <1>7 DEF FactsFirst
  <2>2. ~Exists(a, Type, asset[a].fields.version)
    BY <1>7, <1>10, <2>1 DEF Exists, Type
  <2>3. QED
    BY <1>5, <1>8, <2>2
<1>11. QED
  BY <1>5, <1>9, <1>10 DEF TakesBack

\* What a step owes to the rows.
Kept == SidecarsKnown' /\ \A a \in Asset : RowKept(a) /\ MadeGood(a)

LEMMA RowsUntouched ==
    ASSUME IInv, UNCHANGED asset
    PROVE  \A a \in Asset : RowKept(a) /\ MadeGood(a)
<1> SUFFICES ASSUME NEW a \in Asset, asset[a] # NULL PROVE RowKept(a) /\ MadeGood(a)
  BY DEF RowKept, MadeGood
<1>1. asset[a].fields.version \in Version
  BY DEF IInv, TypeOK, Row, Fields
<1>2. QED
  BY <1>1 DEF RowKept, MadeGood, TakesBack, Version

LEMMA CommitKeeps ==
    ASSUME IInv, SidecarsKnown, FactsFirst, tick # NULL, NEW f \in tick.todo,
           NEW before \in Fields, NEW fields \in Fields, NEW hasProxy \in BOOLEAN,
           fields.version = before.version, f[1] \notin threw => Follows(f[1], before),
           HasSidecar(f[1]) => before.sidecar, before.sidecar => fields.sidecar,
           Commit(f, before, fields, hasProxy)
    PROVE  Kept
<1>1. \A a \in Asset : MadeGood(a)
  BY CommitMakesGood
<1>2. /\ asset' = asset \/ asset' = Saved(f[1], before, fields)
      /\ Noted(f, fields)
  BY DEF Commit
<1>3. QED
  BY <1>1, <1>2, SaveKeeps DEF Kept

\* The steps of the tick that end with a commit.
LEMMA CommitsKeep ==
    ASSUME IInv, SidecarsKnown, FactsFirst,
           (\E a \in Asset : Original(a) \/ Sidecar(a)) \/ Attach
    PROVE  Kept
<1>1. ASSUME NEW a \in Asset, Original(a) PROVE Kept
  <2>1. PICK f : f = <<a, "original">>
    OBVIOUS
  <2>2. /\ tick # NULL /\ f \in tick.todo /\ f[1] = a
        /\ Commit(f, Entity(a), WithSidecar(a), FALSE)
    BY <1>1, <2>1 DEF Original, Idle
  <2>3. Entity(a) \in Fields /\ (a \notin threw => Follows(a, Entity(a)))
    BY <2>2, EntityFollows DEF IInv
  <2>4. /\ WithSidecar(a) \in Fields
        /\ WithSidecar(a).version = Entity(a).version
        /\ Entity(a).sidecar => WithSidecar(a).sidecar
    BY <2>3 DEF WithSidecar, Fields, Here
  <2>5. HasSidecar(a) => Entity(a).sidecar
    BY <2>2, EntitySidecar
  <2>6. QED
    BY <2>2, <2>3, <2>4, <2>5, CommitKeeps
<1>2. ASSUME NEW a \in Asset, Sidecar(a) PROVE Kept
  <2>1. PICK f, fields : f = <<a, "sidecar">> /\ fields = [Entity(a) EXCEPT !.sidecar = TRUE]
    OBVIOUS
  <2>2. /\ tick # NULL /\ f \in tick.todo /\ f[1] = a
        /\ Commit(f, Entity(a), fields, FALSE)
    BY <1>2, <2>1 DEF Sidecar, Idle
  <2>3. Entity(a) \in Fields /\ (a \notin threw => Follows(a, Entity(a)))
    BY <2>2, EntityFollows DEF IInv
  <2>4. fields \in Fields /\ fields.version = Entity(a).version /\ fields.sidecar
    BY <2>1, <2>3 DEF Fields
  <2>5. HasSidecar(a) => Entity(a).sidecar
    BY <2>2, EntitySidecar
  <2>6. QED
    BY <2>2, <2>3, <2>4, <2>5, CommitKeeps
<1>3. CASE Attach
  <2>1. PICK f, before, fields : /\ f = tick.work.file
                                 /\ before = tick.work.before
                                 /\ fields = tick.work.fields
    OBVIOUS
  <2>2. tick # NULL /\ tick.work # NULL /\ Commit(f, before, fields, TRUE)
    BY <1>3, <2>1 DEF Attach
  <2>3. tick.work \in Work /\ f \in tick.todo
    BY <2>1, <2>2 DEF IInv, TypeOK, Tick, Listed
  <2>4. /\ before \in Fields /\ fields \in Fields
        /\ fields.version = before.version
        /\ f[1] \notin threw => Follows(f[1], before)
        /\ HasSidecar(f[1]) => before.sidecar
        /\ before.sidecar => fields.sidecar
    BY <2>1, <2>2, <2>3 DEF Work, IInv, WorkInv, SidecarsKnown
  <2>5. QED
    BY <2>2, <2>3, <2>4, CommitKeeps
<1>4. QED
  BY <1>1, <1>2, <1>3

\* The other steps of the tick.
LEMMA TickKeeps ==
    ASSUME IInv, SidecarsKnown, FactsFirst, NEW a \in Asset, NEW part \in Part,
           \/ UselessProxy(a) \/ Skip(a, part) \/ Materialize(a, part)
           \/ MaterializeFails(a, part)
    PROVE  Kept
<1>0. PICK before : before = Entity(a)
  OBVIOUS
<1>1. tick # NULL /\ tick \in Tick
  BY DEF UselessProxy, Skip, Materialize, MaterializeFails, Idle, IInv, TypeOK
<1>2. before \in Fields /\ (HasSidecar(a) => before.sidecar)
  BY <1>0, <1>1, EntityFollows, EntitySidecar DEF IInv
<1>3. CASE UselessProxy(a)
  <2>1. PICK f : f = <<a, "proxy">>
    OBVIOUS
  <2>2. f \in tick.todo /\ f[1] = a /\ asset' = Saved(a, before, before) /\ Noted(f, before)
    BY <1>0, <1>3, <2>1 DEF UselessProxy
  <2>3. SidecarsKnown' /\ \A b \in Asset : RowKept(b)
    BY <1>1, <1>2, <2>2, SaveKeeps
  <2>4. \A b \in Asset : asset[b] # NULL => asset'[b] = asset[b]
    <3>1. asset[a] # NULL => asset' = asset
      BY <2>2 DEF Saved
    <3>2. QED
      BY <1>2, <2>2, <3>1, SavedType DEF IInv
  <2>5. \A b \in Asset : asset[b] # NULL => asset[b].fields.version \in Version
    BY DEF IInv, TypeOK, Row, Fields
  <2>6. \A b \in Asset : MadeGood(b)
    BY <2>4, <2>5 DEF MadeGood, TakesBack, Version
  <2>7. QED
    BY <2>3, <2>6 DEF Kept
<1>4. CASE Skip(a, part)
  <2>1. PICK f : f = <<a, part>>
    OBVIOUS
  <2>2. f \in tick.todo /\ f[1] = a /\ Noted(f, tick.known[a]) /\ UNCHANGED asset
    BY <1>4, <2>1 DEF Skip
  <2>3. tick.known[a] \in Fields \cup {NULL}
    BY <1>1 DEF Tick
  <2>4. tick' # NULL => tick'.work = NULL /\ \A b \in Asset : tick'.known[b] = tick.known[b]
    BY <1>1, <2>2, <2>3, NotedType DEF IInv
  <2>5. SidecarsKnown'
    BY <1>1, <2>2, <2>4 DEF SidecarsKnown, HasSidecar
  <2>6. QED
    BY <2>2, <2>5, RowsUntouched DEF Kept
<1>5. CASE Materialize(a, part)
  <2>1. PICK f, fields : /\ f = <<a, part>>
                         /\ fields = [EntityBeforeMove(a, part) EXCEPT !.done = @ \cup {"proxy"}]
    OBVIOUS
  <2>2. /\ tick' = [tick EXCEPT !.work = [file |-> f, before |-> before, fields |-> fields]]
        /\ f[1] = a /\ f \in File
        /\ UNCHANGED asset
    BY <1>0, <1>1, <1>5, <2>1 DEF Materialize, Tick
  <2>3. EntityBeforeMove(a, part) \in Fields /\ (before.sidecar => EntityBeforeMove(a, part).sidecar)
    BY <1>0, <1>1, <1>2 DEF EntityBeforeMove, WithSidecar, Fields, Here
  <2>4. before.sidecar => fields.sidecar
    BY <2>1, <2>3 DEF Fields
  <2>5. PICK work : work = [file |-> f, before |-> before, fields |-> fields]
    OBVIOUS
  <2>6. work.file = f /\ work.before = before /\ work.fields = fields
    BY <2>5
  <2>7. tick'.known = tick.known /\ tick'.work = work
    BY <1>1, <2>2, <2>5 DEF Tick
  <2>8. SidecarsKnown'
    BY <1>1, <1>2, <2>2, <2>4, <2>6, <2>7 DEF SidecarsKnown, HasSidecar
  <2>9. QED
    BY <2>2, <2>8, RowsUntouched DEF Kept
<1>6. CASE MaterializeFails(a, part)
  <2>1. PICK f, fields : f = <<a, part>> /\ fields = EntityBeforeMove(a, part)
    OBVIOUS
  <2>2. f \in tick.todo /\ f[1] = a /\ Noted(f, fields) /\ UNCHANGED asset
    BY <1>6, <2>1 DEF MaterializeFails
  <2>3. fields \in Fields /\ (before.sidecar => fields.sidecar)
    BY <1>0, <1>2, <2>1 DEF EntityBeforeMove, WithSidecar, Fields, Here
  <2>4. SidecarsKnown'
    BY <1>1, <1>2, <2>2, <2>3, SaveKeeps
  <2>5. QED
    BY <2>2, <2>4, RowsUntouched DEF Kept
<1>7. QED
  BY <1>3, <1>4, <1>5, <1>6

\* Everybody else: results are added, a round follows the other, sidecars stay.
LEMMA OthersKeep ==
    ASSUME IInv, SidecarsKnown,
           \E a \in Asset : \/ Reprocess(a) \/ Archive(a)
                            \/ \E type \in Type, v \in Version : Report(a, type, v)
    PROVE  Kept
<1>1. PICK a \in Asset : \/ Reprocess(a) \/ Archive(a)
                         \/ \E type \in Type, v \in Version : Report(a, type, v)
  OBVIOUS
<1>2. UNCHANGED tick
  BY <1>1 DEF Reprocess, Archive, Report
<1>3. asset[a] # NULL => asset[a] \in Row /\ asset[a].fields \in Fields
                         /\ asset[a].fields.version \in Version
  BY DEF IInv, TypeOK, Row, Fields
<1>4. \/ asset' = asset
      \/ /\ asset[a] # NULL
         /\ \E state \in State, fields \in Fields :
               /\ asset' = [asset EXCEPT ![a] = [asset[a] EXCEPT !.state = state, !.fields = fields]]
               /\ fields.sidecar = asset[a].fields.sidecar
               /\ \/ asset[a].fields.version < fields.version
                  \/ /\ fields.version = asset[a].fields.version
                     /\ asset[a].fields.done \subseteq fields.done
  <2>1. CASE Reprocess(a)
    <3>1. PICK fields : fields = [asset[a].fields EXCEPT !.done = {}, !.version = @ + 1]
      OBVIOUS
    <3>2. /\ asset[a] # NULL
          /\ asset' = [asset EXCEPT ![a] = [asset[a] EXCEPT !.state = "READY", !.fields = fields]]
      BY <2>1, <3>1 DEF Reprocess
    <3>3. asset[a].fields.version < MaxVersion
      BY <2>1 DEF Reprocess
    <3>4. asset[a].fields.version + 1 \in Version
      BY <1>3, <3>2, <3>3, IngestAssumption DEF Version
    <3>5. /\ fields \in Fields
          /\ fields.sidecar = asset[a].fields.sidecar
          /\ asset[a].fields.version < fields.version
      <4>1. PICK old \in Fields : old = asset[a].fields /\ old.version \in Nat
        BY <1>3, <3>2 DEF Version
      <4>2. fields = [old EXCEPT !.done = {}, !.version = @ + 1] /\ old.version + 1 \in Version
        BY <3>1, <3>4, <4>1
      <4>3. fields \in Fields /\ fields.sidecar = old.sidecar /\ fields.version = old.version + 1
        BY <4>2 DEF Fields
      <4>4. QED
        BY <4>1, <4>3
    <3>6. QED
      BY <3>2, <3>5 DEF State
  <2>2. CASE Archive(a)
    <3>1. asset[a] # NULL /\ asset' = [asset EXCEPT ![a] = [asset[a] EXCEPT !.state = "ARCHIVED"]]
      BY <2>2 DEF Archive
    <3>2. [asset[a] EXCEPT !.state = "ARCHIVED"]
            = [asset[a] EXCEPT !.state = "ARCHIVED", !.fields = asset[a].fields]
      BY <1>3, <3>1 DEF Row
    <3>3. QED
      BY <1>3, <3>1, <3>2 DEF State
  <2>3. ASSUME NEW type \in Type, NEW v \in Version, Report(a, type, v), asset[a] # NULL
        PROVE  \E state \in State, fields \in Fields :
                  /\ asset' = [asset EXCEPT ![a] = [asset[a] EXCEPT !.state = state, !.fields = fields]]
                  /\ fields.sidecar = asset[a].fields.sidecar
                  /\ fields.version = asset[a].fields.version
                  /\ asset[a].fields.done \subseteq fields.done
    <3>1. PICK done, state, fields :
             /\ done = asset[a].fields.done \cup {FlagOf[type]}
             /\ state = ReviewState(asset[a].state, done)
             /\ fields = [asset[a].fields EXCEPT !.done = done]
      OBVIOUS
    <3>2. asset' = [asset EXCEPT ![a] = [asset[a] EXCEPT !.state = state, !.fields = fields]]
      <4>1. asset' = [asset EXCEPT ![a].fields.done = done, ![a].state = ReviewState(@, done)]
        BY <2>3, <3>1 DEF Report
      <4>2. asset[a] \in Row /\ asset \in [Asset -> Row \cup {NULL}]
        BY <1>3, <2>3 DEF IInv, TypeOK
      <4>3. [asset[a] EXCEPT !.fields.done = done, !.state = ReviewState(@, done)]
              = [asset[a] EXCEPT !.state = state, !.fields = fields]
        BY <3>1, <4>2 DEF Row
      <4>4. asset' = [asset EXCEPT ![a] = [asset[a] EXCEPT !.fields.done = done,
                                                           !.state = ReviewState(@, done)]]
        BY <4>1, <4>2 DEF Row
      <4>5. QED
        BY <4>3, <4>4
    <3>3. /\ fields \in Fields
          /\ fields.sidecar = asset[a].fields.sidecar
          /\ fields.version = asset[a].fields.version
          /\ asset[a].fields.done \subseteq fields.done
      BY <1>3, <2>3, <3>1 DEF Fields, FlagOf, Type, Review
    <3>4. state \in State
      BY <1>3, <2>3, <3>1 DEF ReviewState, Row, State
    <3>5. QED
      BY <3>2, <3>3, <3>4
  <2>4. (\E type \in Type, v \in Version : Report(a, type, v)) /\ asset[a] = NULL => asset' = asset
    BY DEF Report
  <2>5. QED
    BY <1>1, <2>1, <2>2, <2>3, <2>4
<1>5. CASE asset' = asset
  BY <1>2, <1>5, RowsUntouched DEF Kept, SidecarsKnown, HasSidecar
<1>6. CASE asset' # asset
  <2>1. PICK state \in State, fields \in Fields :
          /\ asset[a] # NULL
          /\ asset' = [asset EXCEPT ![a] = [asset[a] EXCEPT !.state = state, !.fields = fields]]
          /\ fields.sidecar = asset[a].fields.sidecar
          /\ \/ asset[a].fields.version < fields.version
             \/ /\ fields.version = asset[a].fields.version
                /\ asset[a].fields.done \subseteq fields.done
    BY <1>4, <1>6
  <2>2. asset'[a] = [asset[a] EXCEPT !.state = state, !.fields = fields]
    BY <2>1 DEF IInv, TypeOK
  <2>3. asset'[a].fields = fields /\ asset'[a] # NULL
    <3>1. asset'[a] \in Row /\ asset'[a].fields = fields
      BY <1>3, <2>1, <2>2 DEF Row
    <3>2. QED
      BY <3>1, IngestAssumption
  <2>4. \A b \in Asset : b # a => asset'[b] = asset[b]
    BY <2>1 DEF IInv, TypeOK
  <2>5. \A b \in Asset : RowKept(b)
    BY <2>1, <2>3, <2>4 DEF RowKept
  <2>6. SidecarsKnown'
    BY <1>2, <2>1, <2>3, <2>4 DEF SidecarsKnown, HasSidecar, IInv, TypeOK, Tick, Listed
  <2>7. ASSUME NEW b \in Asset, asset[b] # NULL PROVE MadeGood(b)
    <3>1. asset[b].fields.version \in Version
      BY <2>7 DEF IInv, TypeOK, Row, Fields
    <3>2. CASE b # a
      BY <2>4, <3>1, <3>2 DEF MadeGood, TakesBack, Version
    <3>3. CASE b = a
      BY <2>1, <2>3, <3>1, <3>3 DEF MadeGood, TakesBack, Fields, Version
    <3>4. QED
      BY <3>2, <3>3
  <2>8. QED
    BY <2>5, <2>6, <2>7 DEF Kept, MadeGood
<1>7. QED
  BY <1>5, <1>6

LEMMA EveryStepKeeps == IInv /\ FactsFirst /\ SidecarsKnown /\ [Next]_vars => Kept
<1> SUFFICES ASSUME IInv, FactsFirst, SidecarsKnown, [Next]_vars PROVE Kept
  OBVIOUS
<1>1. CASE UNCHANGED <<asset, tick>>
  BY <1>1, RowsUntouched DEF Kept, SidecarsKnown, HasSidecar
<1>2. CASE Poll
  <2>1. tick' # NULL => tick'.work = NULL /\ \A a \in Asset : tick'.known[a] = NULL
    <3>1. PICK stable : tick' = IF stable = {} THEN NULL
                                ELSE [todo |-> stable, known |-> [a \in Asset |-> NULL],
                                      work |-> NULL]
      BY <1>2 DEF Poll
    <3>2. QED
      BY <3>1
  <2>2. UNCHANGED asset
    BY <1>2 DEF Poll
  <2>3. QED
    BY <2>1, <2>2, RowsUntouched DEF Kept, SidecarsKnown
<1>3. CASE Crash
  BY <1>3, RowsUntouched DEF Crash, Kept, SidecarsKnown
<1>4. CASE \E a \in Asset, part \in Part :
             UselessProxy(a) \/ Skip(a, part) \/ Materialize(a, part) \/ MaterializeFails(a, part)
  BY <1>4, TickKeeps
<1>5. CASE (\E a \in Asset : Original(a) \/ Sidecar(a)) \/ Attach
  BY <1>5, CommitsKeep
<1>6. CASE \E a \in Asset : \/ Reprocess(a) \/ Archive(a)
                            \/ \E type \in Type, v \in Version : Report(a, type, v)
  BY <1>6, OthersKeep
<1>7. CASE (\E f \in File : Write(f) \/ Remove(f)) \/ (\E a \in Asset : Requeue(a))
  <2>1. UNCHANGED <<asset, tick>>
    BY <1>7 DEF Write, Remove, Requeue
  <2>2. QED
    BY <1>1, <2>1
<1>8. CASE \E a \in Asset : UselessProxy(a)
  <2>1. PICK a \in Asset : UselessProxy(a)
    BY <1>8
  <2>2. "proxy" \in Part
    BY DEF Part
  <2>3. QED
    BY <2>1, <2>2, TickKeeps
<1>9. QED
  BY <1>1, <1>2, <1>3, <1>4, <1>5, <1>6, <1>7, <1>8 DEF Next, processStableFile, vars

\* What a tick's save takes back of a row is of a round nothing was queued for, and is
\* queued again by the same transaction; sidecars and assets stay.
THEOREM StaleSavesRequeue == Spec => StaleSavesAreMadeGood
<1>1. Init => FactsFirst /\ SidecarsKnown
  <2> SUFFICES ASSUME Init PROVE FactsFirst /\ SidecarsKnown
    OBVIOUS
  <2>1. \A a \in Asset, v \in Version : jobs[<<a, "generate_preview", v>>] = "absent"
    BY JobIsTriple DEF Init, Type
  <2>2. QED
    BY <2>1 DEF Init, FactsFirst, SidecarsKnown
<1>2. IInv /\ FactsFirst /\ SidecarsKnown /\ [Next]_vars => (FactsFirst /\ SidecarsKnown)'
  BY FactsFirstStep, EveryStepKeeps DEF IInv, Kept
<1>3. IInv /\ FactsFirst /\ SidecarsKnown /\ [Next]_vars =>
        [\A a \in Asset : asset[a] # NULL =>
            /\ asset'[a] # NULL
            /\ asset[a].fields.sidecar => asset'[a].fields.sidecar
            /\ a \notin threw /\ TakesBack(a) =>
                  /\ ~Exists(a, Type, asset[a].fields.version)
                  /\ jobs'[<<a, "extract_facts", asset'[a].fields.version>>] = "pending"]_vars
  BY EveryStepKeeps DEF Kept, RowKept, MadeGood
<1>4. QED
  BY <1>1, <1>2, <1>3, IngestInvariant, PTL DEF Spec, StaleSavesAreMadeGood
=============================================================================
