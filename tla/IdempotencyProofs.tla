-------------------------- MODULE IdempotencyProofs --------------------------
(***************************************************************************)
(* Proofs about Idempotency, for any keys, targets, bodies, processes and  *)
(* seconds, and any number of crashes, retries and changes by others:      *)
(* types, one answer per key, effects, job reports and reprocess tags.     *)
(***************************************************************************)
EXTENDS Idempotency, TLAPS

-----------------------------------------------------------------------------
\* The inductive invariant

\* Reprocess alone decides on what the precondition has read.
Shape ==
    \A s \in Slot : req[s] # NULL =>
        /\ req[s].step = "write" => req[s].key \in Guarded
        /\ req[s].step \in {"lookup", "run", "write"} /\ req[s].key \in Guarded =>
             req[s].read.updated = req[s].match

\* What is about to be answered is the entry.
Answers ==
    /\ OneAnswer
    /\ \A s \in Slot : At(s, "answer") =>
         /\ entry[req[s].key] # NULL
         /\ entry[req[s].key].body = req[s].body
         /\ entry[req[s].key].answer = req[s].answer

Runs(s, k) == Running(s) /\ req[s].key = k

\* One request of a key runs, as long as there is no entry; the entry says what it did.
Once ==
    \A k \in Key \ (torn \cup overlapped \cup TooLong) :
        /\ entry[k] # NULL => effects[k] = IF entry[k].answer = "done" THEN 1 ELSE 0
        /\ entry[k] = NULL /\ (\A s \in Slot : ~Runs(s, k)) => effects[k] = 0
        /\ \A s \in Slot : Runs(s, k) =>
             /\ entry[k] = NULL
             /\ \A r \in Slot : Runs(r, k) => r = s
             /\ effects[k] = IF req[s].step = "insert" /\ req[s].answer = "done" THEN 1 ELSE 0

\* An open job has seen no effect, a closed one that of one key.
Jobs ==
    \A t \in Target : kind[t] = "job" =>
        /\ row[t].version <= 1
        /\ row[t].open => row[t].version = 0 /\ \A k \in Key : TargetOf[k] = t => effects[k] = 0
        /\ \A k, l \in Key :
             TargetOf[k] = t /\ TargetOf[l] = t /\ k # l => effects[k] + effects[l] <= 1

\* A tag that was spent lies before the row's.
Tags ==
    /\ \A t \in Target : row[t].updated <= clock
    /\ \A k \in Key : \A m \in spent[k] : m < row[TargetOf[k]].updated

IInv == TypeOK /\ Shape /\ Answers /\ Once /\ Jobs /\ Tags

LEMMA InitOK == Init => IInv
<1> SUFFICES ASSUME Init PROVE IInv
  OBVIOUS
<1>1. NewRow \in Row
  BY IdempotencyAssumption DEF NewRow, Row
<1>2. /\ row \in [Target -> Row] /\ clock \in 0..MaxTime /\ events \in 0..MaxEvents
      /\ entry \in [Key -> Entry \cup {NULL}] /\ req \in [Slot -> RequestRecord \cup {NULL}]
      /\ sent \in [Key -> SUBSET Body] /\ told \in [Key -> SUBSET Entry]
      /\ effects \in [Key -> Nat] /\ spent \in [Key -> SUBSET (0..MaxTime)]
  BY <1>1, IdempotencyAssumption DEF Init
<1>3. TypeOK
  BY <1>2 DEF Init, TypeOK
<1>4. Shape /\ Answers /\ Once
  BY DEF Init, Shape, Answers, OneAnswer, At, Once, Runs, Running
<1>5. Jobs /\ Tags
  BY IdempotencyAssumption DEF Init, Jobs, Tags, NewRow
<1>6. QED
  BY <1>3, <1>4, <1>5 DEF IInv

-----------------------------------------------------------------------------
\* What the helpers do

Steps == {"precondition", "lookup", "run", "write", "insert", "answer"}

LEMMA GoToFields ==
    ASSUME TypeOK, NEW s \in Slot, req[s] # NULL, NEW step \in Steps, GoTo(s, step)
    PROVE  /\ req[s] \in RequestRecord
           /\ req' \in [Slot -> RequestRecord \cup {NULL}]
           /\ \A r \in Slot \ {s} : req'[r] = req[r]
           /\ req'[s] # NULL
           /\ req'[s].step = step
           /\ req'[s].key = req[s].key /\ req'[s].body = req[s].body
           /\ req'[s].match = req[s].match /\ req'[s].read = req[s].read
           /\ req'[s].answer = req[s].answer
<1>1. req \in [Slot -> RequestRecord \cup {NULL}] /\ req[s] \in RequestRecord
  BY DEF TypeOK
<1>2. PICK new : new = [req[s] EXCEPT !.step = step]
  OBVIOUS
<1>3. /\ new \in RequestRecord /\ new.step = step
      /\ new.key = req[s].key /\ new.body = req[s].body /\ new.match = req[s].match
      /\ new.read = req[s].read /\ new.answer = req[s].answer
  BY <1>1, <1>2 DEF RequestRecord, Steps
<1>4. req' = [req EXCEPT ![s] = new]
  BY <1>2 DEF GoTo
<1>5. req'[s] = new /\ new # NULL
  BY <1>1, <1>3, <1>4, IdempotencyAssumption
<1>6. QED
  BY <1>1, <1>3, <1>4, <1>5

LEMMA OutcomeFields ==
    ASSUME TypeOK, NEW s \in Slot, req[s] # NULL, NEW step \in Steps, NEW answer \in Answer,
           Outcome(s, step, answer)
    PROVE  /\ req[s] \in RequestRecord
           /\ req' \in [Slot -> RequestRecord \cup {NULL}]
           /\ \A r \in Slot \ {s} : req'[r] = req[r]
           /\ req'[s] # NULL
           /\ req'[s].step = step /\ req'[s].answer = answer
           /\ req'[s].key = req[s].key /\ req'[s].body = req[s].body
<1>1. req \in [Slot -> RequestRecord \cup {NULL}] /\ req[s] \in RequestRecord
  BY DEF TypeOK
<1>2. NewRow \in Row /\ 0 \in 0..MaxTime
  BY IdempotencyAssumption DEF NewRow, Row
<1>3. PICK new : new = [req[s] EXCEPT !.step = step, !.answer = answer, !.match = 0,
                                      !.read = NewRow]
  OBVIOUS
<1>4. /\ new \in RequestRecord /\ new.step = step /\ new.answer = answer
      /\ new.key = req[s].key /\ new.body = req[s].body
  BY <1>1, <1>2, <1>3 DEF RequestRecord, Steps
<1>5. req' = [req EXCEPT ![s] = new]
  BY <1>3 DEF Outcome
<1>6. req'[s] = new /\ new # NULL
  BY <1>1, <1>4, <1>5, IdempotencyAssumption
<1>7. QED
  BY <1>1, <1>4, <1>5, <1>6

LEMMA FreeFields ==
    ASSUME TypeOK, NEW s \in Slot, Free(s)
    PROVE  /\ req' \in [Slot -> RequestRecord \cup {NULL}]
           /\ \A r \in Slot \ {s} : req'[r] = req[r]
           /\ req'[s] = NULL
  BY DEF TypeOK, Free

\* The request in s moves on, and neither a row nor an entry is written.
LEMMA MoveOK ==
    ASSUME IInv, NEW s \in Slot,
           UNCHANGED <<kind, row, entry, clock, effects, spent>>,
           sent' \in [Key -> SUBSET Body], events' \in 0..MaxEvents,
           told' \in [Key -> SUBSET Entry], \A k \in Key : \A e \in told'[k] : e = entry[k],
           torn \subseteq torn', torn' \in SUBSET Key,
           overlapped \subseteq overlapped', overlapped' \in SUBSET Key,
           req' \in [Slot -> RequestRecord \cup {NULL}],
           \A r \in Slot \ {s} : req'[r] = req[r],
           req'[s] # NULL =>
             /\ req'[s].step = "write" => req'[s].key \in Guarded
             /\ req'[s].step \in {"lookup", "run", "write"} /\ req'[s].key \in Guarded =>
                  req'[s].read.updated = req'[s].match
             /\ req'[s].step = "answer" =>
                  /\ entry[req'[s].key] # NULL
                  /\ entry[req'[s].key].body = req'[s].body
                  /\ entry[req'[s].key].answer = req'[s].answer,
           \A k \in Key \ (torn' \cup overlapped' \cup TooLong) :
             /\ Runs(s, k)' =>
                  /\ entry[k] = NULL
                  /\ \A r \in Slot \ {s} : ~Runs(r, k)
                  /\ effects[k] = IF req'[s].step = "insert" /\ req'[s].answer = "done"
                                  THEN 1 ELSE 0
             /\ Runs(s, k) /\ ~Runs(s, k)' => effects[k] = 0
    PROVE  IInv'
<1>1. TypeOK'
  BY DEF IInv, TypeOK
<1>2. Guarded' = Guarded
  BY DEF Guarded
<1>3. Shape'
  BY <1>2 DEF IInv, Shape
<1>4. Answers'
  BY DEF IInv, Answers, OneAnswer, At
<1>5. Once'
  <2>1. SUFFICES ASSUME NEW k \in Key \ (torn' \cup overlapped' \cup TooLong)
                 PROVE  /\ entry[k] # NULL =>
                             effects[k] = IF entry[k].answer = "done" THEN 1 ELSE 0
                        /\ entry[k] = NULL /\ (\A r \in Slot : ~Runs(r, k)') => effects[k] = 0
                        /\ \A r \in Slot : Runs(r, k)' =>
                             /\ entry[k] = NULL
                             /\ \A q \in Slot : Runs(q, k)' => q = r
                             /\ effects[k] = IF req'[r].step = "insert" /\ req'[r].answer = "done"
                                             THEN 1 ELSE 0
    BY DEF Once
  <2>2. \A r \in Slot \ {s} : Runs(r, k)' <=> Runs(r, k)
    BY DEF Runs, Running
  <2>3. /\ entry[k] # NULL => effects[k] = IF entry[k].answer = "done" THEN 1 ELSE 0
        /\ entry[k] = NULL /\ (\A r \in Slot : ~Runs(r, k)) => effects[k] = 0
        /\ \A r \in Slot : Runs(r, k) =>
             /\ entry[k] = NULL
             /\ \A q \in Slot : Runs(q, k) => q = r
             /\ effects[k] = IF req[r].step = "insert" /\ req[r].answer = "done" THEN 1 ELSE 0
    BY <2>1 DEF IInv, Once
  <2>4. entry[k] = NULL /\ (\A r \in Slot : ~Runs(r, k)') => effects[k] = 0
    BY <2>1, <2>2, <2>3
  <2>5. ASSUME NEW r \in Slot, Runs(r, k)'
        PROVE  /\ entry[k] = NULL
               /\ \A q \in Slot : Runs(q, k)' => q = r
               /\ effects[k] = IF req'[r].step = "insert" /\ req'[r].answer = "done"
                               THEN 1 ELSE 0
    <3>1. CASE r = s
      BY <2>1, <2>2, <2>5, <3>1
    <3>2. CASE r # s
      BY <2>1, <2>2, <2>3, <2>5, <3>2
    <3>3. QED
      BY <3>1, <3>2
  <2>6. QED
    BY <2>3, <2>4, <2>5
<1>6. Jobs'
  BY DEF IInv, Jobs
<1>7. Tags'
  BY DEF IInv, Tags
<1>8. QED
  BY <1>1, <1>3, <1>4, <1>5, <1>6, <1>7 DEF IInv

\* The handler's write: on a job if it was open, to close it.
LEMMA EffectOK ==
    ASSUME IInv, NEW s \in Slot, NEW newRow \in Row,
           req[s] # NULL, req[s].step \in {"run", "write"},
           TakeEffect(s, newRow),
           newRow.updated = clock,
           kind[TargetAt(s)] = "job" =>
             /\ row[TargetAt(s)].open /\ ~newRow.open
             /\ newRow.version = row[TargetAt(s)].version + 1,
           UNCHANGED <<kind, entry, clock, sent, told, torn, overlapped, events>>
    PROVE  IInv'
<1> DEFINE k0 == req[s].key
           t0 == TargetOf[k0]
<1>1. /\ req[s] \in RequestRecord /\ k0 \in Key /\ t0 \in Target /\ TargetAt(s) = t0
      /\ req[s].match \in 0..MaxTime
  BY IdempotencyAssumption DEF IInv, TypeOK, RequestRecord, TargetAt
<1>2. /\ req' \in [Slot -> RequestRecord \cup {NULL}]
      /\ \A r \in Slot \ {s} : req'[r] = req[r]
      /\ req'[s] # NULL
      /\ req'[s].step = "insert" /\ req'[s].answer = "done"
      /\ req'[s].key = k0 /\ req'[s].body = req[s].body
  BY OutcomeFields DEF TakeEffect, IInv, Steps, Answer
<1> HIDE DEF k0, t0
<1>3. /\ row' \in [Target -> Row]
      /\ row'[t0] = newRow
      /\ \A t \in Target \ {t0} : row'[t] = row[t]
  BY <1>1 DEF TakeEffect, IInv, TypeOK
<1>4. /\ effects' \in [Key -> Nat]
      /\ effects'[k0] = effects[k0] + 1
      /\ \A k \in Key \ {k0} : effects'[k] = effects[k]
  BY <1>1 DEF TakeEffect, IInv, TypeOK, k0
<1>5. /\ spent' \in [Key -> SUBSET (0..MaxTime)]
      /\ \A m \in spent'[k0] : m \in spent[k0] \/ m < clock
      /\ \A k \in Key \ {k0} : spent'[k] = spent[k]
  <2>1. PICK new : new = IF req[s].match < clock THEN spent[k0] \cup {req[s].match} ELSE spent[k0]
    OBVIOUS
  <2>2. spent' = [spent EXCEPT ![k0] = new]
    BY <2>1 DEF TakeEffect, k0
  <2>3. spent \in [Key -> SUBSET (0..MaxTime)]
    BY DEF IInv, TypeOK
  <2>4. new \in SUBSET (0..MaxTime) /\ \A m \in new : m \in spent[k0] \/ m < clock
    BY <1>1, <2>1, <2>3
  <2>5. QED
    BY <1>1, <2>2, <2>3, <2>4
<1>6. TypeOK'
  BY <1>2, <1>3, <1>4, <1>5 DEF IInv, TypeOK
<1>7. Guarded' = Guarded
  BY DEF Guarded
<1>8. Shape'
  BY <1>2, <1>7 DEF IInv, Shape
<1>9. Answers'
  BY <1>2 DEF IInv, Answers, OneAnswer, At
<1>10. Once'
  <2>1. Runs(s, k0) /\ \A k \in Key : Runs(s, k) => k = k0
    BY DEF Runs, Running, k0
  <2>2. \A r \in Slot, k \in Key : Runs(r, k)' <=> Runs(r, k)
    BY <1>2 DEF Runs, Running, k0
  <2>3. ASSUME NEW k \in Key \ (torn \cup overlapped \cup TooLong)
        PROVE  /\ entry[k] # NULL => effects'[k] = IF entry[k].answer = "done" THEN 1 ELSE 0
               /\ entry[k] = NULL /\ (\A r \in Slot : ~Runs(r, k)) => effects'[k] = 0
               /\ \A r \in Slot : Runs(r, k) =>
                    /\ entry[k] = NULL
                    /\ \A q \in Slot : Runs(q, k) => q = r
                    /\ effects'[k] = IF req'[r].step = "insert" /\ req'[r].answer = "done"
                                     THEN 1 ELSE 0
    <3>1. CASE k = k0
      <4>1. effects[k0] = 0 /\ entry[k0] = NULL /\ \A q \in Slot : Runs(q, k0) => q = s
        BY <2>1, <2>3, <3>1 DEF IInv, Once
      <4>2. QED
        BY <1>2, <1>4, <2>1, <3>1, <4>1
    <3>2. CASE k # k0
      BY <1>2, <1>4, <2>1, <2>3, <3>2 DEF IInv, Once
    <3>3. QED
      BY <3>1, <3>2
  <2>4. QED
    BY <2>2, <2>3 DEF Once
<1>11. Jobs'
  <2>1. SUFFICES ASSUME NEW t \in Target, kind[t] = "job"
                 PROVE  /\ row'[t].version <= 1
                        /\ row'[t].open => /\ row'[t].version = 0
                                           /\ \A k \in Key : TargetOf[k] = t => effects'[k] = 0
                        /\ \A k, l \in Key :
                             TargetOf[k] = t /\ TargetOf[l] = t /\ k # l =>
                               effects'[k] + effects'[l] <= 1
    BY DEF Jobs
  <2>2. CASE t = t0
    <3>1. row[t].version = 0 /\ \A k \in Key : TargetOf[k] = t => effects[k] = 0
      BY <1>1, <2>1, <2>2 DEF IInv, Jobs
    <3>2. ~newRow.open /\ newRow.version = 1
      BY <1>1, <2>1, <2>2, <3>1
    <3>3. QED
      BY <1>3, <1>4, <2>2, <3>1, <3>2
  <2>3. CASE t # t0
    <3>1. \A k \in Key : TargetOf[k] = t => effects'[k] = effects[k]
      BY <1>4, <2>3 DEF t0
    <3>2. QED
      BY <1>3, <2>1, <2>3, <3>1 DEF IInv, Jobs
  <2>4. QED
    BY <2>2, <2>3
<1>12. Tags'
  <2>1. \A t \in Target : row'[t].updated <= clock
    BY <1>1, <1>3 DEF IInv, Tags, TypeOK
  <2>2. ASSUME NEW k \in Key, NEW m \in spent'[k]
        PROVE  m < row'[TargetOf[k]].updated
    <3>1. TargetOf[k] \in Target /\ m \in 0..MaxTime /\ clock \in 0..MaxTime
          /\ row[TargetOf[k]].updated \in 0..MaxTime /\ row[TargetOf[k]].updated <= clock
      BY <1>5, <2>2, IdempotencyAssumption DEF IInv, TypeOK, Row, Tags
    <3>2. CASE k = k0
      <4>1. m \in spent[k] => m < row[TargetOf[k]].updated
        BY DEF IInv, Tags
      <4>2. m < clock
        BY <1>5, <2>2, <3>1, <3>2, <4>1
      <4>3. QED
        BY <1>3, <3>2, <4>2 DEF t0
    <3>3. CASE k # k0
      <4>1. m < row[TargetOf[k]].updated
        BY <1>5, <2>2, <3>3 DEF IInv, Tags
      <4>2. m < clock
        BY <3>1, <4>1
      <4>3. QED
        BY <1>3, <3>1, <4>1, <4>2
    <3>4. QED
      BY <3>2, <3>3
  <2>3. QED
    BY <2>1, <2>2 DEF Tags
<1>13. QED
  BY <1>6, <1>8, <1>9, <1>10, <1>11, <1>12 DEF IInv

-----------------------------------------------------------------------------
\* One lemma per action

LEMMA SendOK ==
    ASSUME IInv, NEW s \in Slot, NEW k \in Key, NEW body \in Body, NEW match \in 0..clock,
           Send(s, k, body, match)
    PROVE  IInv'
<1>1. match \in 0..MaxTime /\ clock \in 0..MaxTime
  BY IdempotencyAssumption DEF IInv, TypeOK
<1>2. NewRow \in Row /\ NewRow.updated = 0
  BY IdempotencyAssumption DEF NewRow, Row
<1>3. PICK new : new = [key |-> k, body |-> body, match |-> match, read |-> NewRow,
                        answer |-> "refused",
                        step |-> IF k \in Guarded THEN "precondition" ELSE "lookup"]
  OBVIOUS
<1>4. /\ new \in RequestRecord /\ new.key = k
      /\ new.step = IF k \in Guarded THEN "precondition" ELSE "lookup"
  BY <1>1, <1>2, <1>3 DEF RequestRecord, Answer
<1>5. req' = [req EXCEPT ![s] = new] /\ req[s] = NULL /\ req \in [Slot -> RequestRecord \cup {NULL}]
  BY <1>3 DEF Send, IInv, TypeOK
<1>6. /\ req' \in [Slot -> RequestRecord \cup {NULL}]
      /\ \A r \in Slot \ {s} : req'[r] = req[r]
      /\ req'[s] = new
  BY <1>4, <1>5
<1>7. /\ UNCHANGED <<kind, row, entry, clock, told, effects, torn, overlapped, spent>>
      /\ sent' \in [Key -> SUBSET Body]
      /\ events' \in 0..MaxEvents
  BY IdempotencyAssumption DEF Send, Event, IInv, TypeOK
<1>8. told' \in [Key -> SUBSET Entry] /\ \A l \in Key : \A e \in told'[l] : e = entry[l]
  BY <1>7 DEF IInv, TypeOK, Answers, OneAnswer
<1>9. \A l \in Key : ~Runs(s, l) /\ ~Runs(s, l)'
  BY <1>4, <1>5, <1>6 DEF Runs, Running
<1>10. torn' \in SUBSET Key /\ overlapped' \in SUBSET Key
  BY <1>7 DEF IInv, TypeOK
<1>11. QED
  BY <1>4, <1>6, <1>7, <1>8, <1>9, <1>10, MoveOK

\* What MoveOK asks of the histories, where they do not change.
LEMMA HistoryFacts ==
    IInv => /\ sent \in [Key -> SUBSET Body] /\ events \in 0..MaxEvents
            /\ told \in [Key -> SUBSET Entry] /\ \A k \in Key : \A e \in told[k] : e = entry[k]
            /\ torn \in SUBSET Key /\ overlapped \in SUBSET Key
  BY DEF IInv, TypeOK, Answers, OneAnswer

LEMMA ViolationResponseOK ==
    ASSUME IInv, NEW s \in Slot, violationResponse(s) PROVE IInv'
<1>1. /\ req[s] # NULL /\ req[s].step = "precondition" /\ req[s] \in RequestRecord
      /\ TargetAt(s) \in Target
  BY IdempotencyAssumption
     DEF violationResponse, At, IInv, TypeOK, RequestRecord, TargetAt
<1>2. /\ UNCHANGED <<kind, row, entry, clock, sent, told, effects, torn, overlapped, spent>>
      /\ UNCHANGED events
  BY DEF violationResponse, history
<1>3. /\ req' \in [Slot -> RequestRecord \cup {NULL}]
      /\ \A r \in Slot \ {s} : req'[r] = req[r]
      /\ req'[s] # NULL => req'[s].step = "lookup" /\ req'[s].read.updated = req'[s].match
  <2>1. CASE req[s].match = row[TargetAt(s)].updated
    <3>1. PICK new : new = [req[s] EXCEPT !.step = "lookup", !.read = row[TargetAt(s)]]
      OBVIOUS
    <3>2. row[TargetAt(s)] \in Row
      BY <1>1 DEF IInv, TypeOK
    <3>3. /\ new \in RequestRecord /\ new.step = "lookup" /\ new.read.updated = new.match
      BY <1>1, <2>1, <3>1, <3>2 DEF RequestRecord
    <3>4. req' = [req EXCEPT ![s] = new] /\ req \in [Slot -> RequestRecord \cup {NULL}]
      BY <2>1, <3>1 DEF violationResponse, IInv, TypeOK
    <3>5. QED
      BY <3>3, <3>4
  <2>2. CASE req[s].match # row[TargetAt(s)].updated
    BY <2>2, FreeFields DEF violationResponse, IInv
  <2>3. QED
    BY <2>1, <2>2
<1>4. \A k \in Key : ~Runs(s, k) /\ ~Runs(s, k)'
  BY <1>1, <1>3 DEF Runs, Running
<1>5. QED
  BY <1>2, <1>3, <1>4, HistoryFacts, MoveOK

LEMMA LookupOK == ASSUME IInv, NEW s \in Slot, Lookup(s) PROVE IInv'
<1> DEFINE k0 == req[s].key
<1>1. req[s] # NULL /\ req[s].step = "lookup" /\ req[s] \in RequestRecord /\ k0 \in Key
  BY DEF Lookup, At, IInv, TypeOK, RequestRecord
<1>2. UNCHANGED <<kind, row, entry, clock, sent, told, effects, torn, spent, events>>
  BY DEF Lookup
<1>3. \A k \in Key : ~Runs(s, k)
  BY <1>1 DEF Runs, Running
<1>4. CASE entry[k0] = NULL
  <2>1. GoTo(s, "run")
        /\ overlapped' = IF RunningKey(k0) THEN overlapped \cup {k0} ELSE overlapped
    BY <1>4 DEF Lookup
  <2>2. /\ req' \in [Slot -> RequestRecord \cup {NULL}]
        /\ \A r \in Slot \ {s} : req'[r] = req[r]
        /\ req'[s] # NULL /\ req'[s].step = "run" /\ req'[s].key = k0
        /\ req'[s].match = req[s].match /\ req'[s].read = req[s].read
    BY <1>1, <2>1, GoToFields DEF IInv, Steps
  <2>3. req'[s].key \in Guarded => req'[s].read.updated = req'[s].match
    BY <1>1, <2>2 DEF IInv, Shape
  <2>4. overlapped \subseteq overlapped' /\ overlapped' \in SUBSET Key
    BY <1>1, <2>1 DEF IInv, TypeOK
  <2>5. ASSUME NEW k \in Key \ (torn \cup overlapped' \cup TooLong), Runs(s, k)'
        PROVE  entry[k] = NULL /\ (\A r \in Slot \ {s} : ~Runs(r, k)) /\ effects[k] = 0
    <3>1. k = k0
      BY <2>2, <2>5 DEF Runs
    <3>2. \A r \in Slot : ~Runs(r, k0)
      BY <1>3, <2>1, <2>5, <3>1 DEF Runs, RunningKey
    <3>3. k \in Key \ (torn \cup overlapped \cup TooLong)
      BY <2>4, <2>5
    <3>4. effects[k] = 0
      BY <1>4, <3>1, <3>2, <3>3 DEF IInv, Once
    <3>5. QED
      BY <1>4, <3>1, <3>2, <3>4
  <2>6. QED
    BY <1>2, <1>3, <2>2, <2>3, <2>4, <2>5, HistoryFacts, MoveOK
<1>5. CASE entry[k0] # NULL
  <2>1. entry[k0] \in Entry /\ UNCHANGED overlapped
        /\ IF entry[k0].body = req[s].body THEN Outcome(s, "answer", entry[k0].answer) ELSE Free(s)
    BY <1>1, <1>5 DEF Lookup, IInv, TypeOK
  <2>2. entry[k0].answer \in Answer
    BY <2>1 DEF Entry
  <2>3. /\ req' \in [Slot -> RequestRecord \cup {NULL}]
        /\ \A r \in Slot \ {s} : req'[r] = req[r]
        /\ req'[s] # NULL =>
             /\ req'[s].step = "answer" /\ req'[s].key = k0
             /\ entry[k0].body = req'[s].body /\ entry[k0].answer = req'[s].answer
    <3>1. CASE entry[k0].body = req[s].body
      BY <1>1, <2>1, <2>2, <3>1, OutcomeFields DEF IInv, Steps
    <3>2. CASE entry[k0].body # req[s].body
      BY <2>1, <3>2, FreeFields DEF IInv
    <3>3. QED
      BY <3>1, <3>2
  <2>4. \A k \in Key : ~Runs(s, k)'
    BY <2>3 DEF Runs, Running
  <2>5. QED
    BY <1>2, <1>3, <1>5, <2>1, <2>3, <2>4, HistoryFacts, MoveOK
<1>6. QED
  BY <1>4, <1>5

\* The handler refuses.
LEMMA RefusedOK ==
    ASSUME IInv, NEW s \in Slot, At(s, "run"), Outcome(s, "insert", "refused"),
           events' \in 0..MaxEvents,
           UNCHANGED <<kind, row, entry, clock, sent, told, effects, torn, overlapped, spent>>
    PROVE  IInv'
<1>1. /\ req[s] # NULL /\ req[s].step = "run"
      /\ req' \in [Slot -> RequestRecord \cup {NULL}]
      /\ \A r \in Slot \ {s} : req'[r] = req[r]
      /\ req'[s] # NULL /\ req'[s].step = "insert" /\ req'[s].answer = "refused"
      /\ req'[s].key = req[s].key
  BY OutcomeFields DEF At, IInv, Steps, Answer
<1>2. \A k \in Key : Runs(s, k)' <=> Runs(s, k)
  BY <1>1 DEF Runs, Running
<1>3. \A k \in Key \ (torn \cup overlapped \cup TooLong) : Runs(s, k) =>
        entry[k] = NULL /\ (\A r \in Slot \ {s} : ~Runs(r, k)) /\ effects[k] = 0
  BY <1>1 DEF IInv, Once
<1>4. QED
  BY <1>1, <1>2, <1>3, HistoryFacts, MoveOK

LEMMA ReportOK == ASSUME IInv, NEW s \in Slot, Report(s) PROVE IInv'
<1>1. /\ req[s] # NULL /\ req[s].step = "run" /\ req[s].key \in Key \ Guarded
      /\ TargetAt(s) \in Target /\ kind[TargetAt(s)] = "job"
      /\ row[TargetAt(s)] \in Row /\ clock \in 0..MaxTime
  BY IdempotencyAssumption DEF Report, At, IInv, TypeOK, RequestRecord, TargetAt, Guarded
<1>2. UNCHANGED <<kind, entry, clock, sent, told, torn, overlapped, events>>
  BY DEF Report
<1>3. CASE row[TargetAt(s)].open
  <2>1. PICK new : new = [open |-> FALSE, version |-> row[TargetAt(s)].version + 1,
                          updated |-> clock]
    OBVIOUS
  <2>2. /\ new \in Row /\ ~new.open /\ new.version = row[TargetAt(s)].version + 1
        /\ new.updated = clock
    BY <1>1, <2>1 DEF Row
  <2>3. TakeEffect(s, new)
    BY <1>3, <2>1 DEF Report
  <2>4. QED
    BY <1>1, <1>2, <1>3, <2>2, <2>3, EffectOK
<1>4. CASE ~row[TargetAt(s)].open
  BY <1>2, <1>4, HistoryFacts, RefusedOK DEF Report
<1>5. QED
  BY <1>3, <1>4

LEMMA ReprocessOK == ASSUME IInv, NEW s \in Slot, Reprocess(s) PROVE IInv'
<1>1. /\ At(s, "run") /\ req[s] # NULL /\ req[s].step = "run" /\ req[s].key \in Guarded
      /\ UNCHANGED <<kind, row, entry, clock, sent, told, effects, torn, overlapped, spent>>
      /\ events' \in 0..MaxEvents
  BY IdempotencyAssumption DEF Reprocess, At, history, Event, IInv, TypeOK
<1>2. CASE Outcome(s, "insert", "refused")
  BY <1>1, <1>2, RefusedOK
<1>3. CASE GoTo(s, "write")
  <2>1. /\ req' \in [Slot -> RequestRecord \cup {NULL}]
        /\ \A r \in Slot \ {s} : req'[r] = req[r]
        /\ req'[s] # NULL /\ req'[s].step = "write" /\ req'[s].key = req[s].key
        /\ req'[s].match = req[s].match /\ req'[s].read = req[s].read
    BY <1>1, <1>3, GoToFields DEF IInv, Steps
  <2>2. req'[s].read.updated = req'[s].match
    BY <1>1, <2>1 DEF IInv, Shape
  <2>3. \A k \in Key : Runs(s, k)' <=> Runs(s, k)
    BY <1>1, <2>1 DEF Runs, Running
  <2>4. \A k \in Key \ (torn \cup overlapped \cup TooLong) : Runs(s, k) =>
          entry[k] = NULL /\ (\A r \in Slot \ {s} : ~Runs(r, k)) /\ effects[k] = 0
    BY <1>1 DEF IInv, Once
  <2>5. QED
    BY <1>1, <2>1, <2>2, <2>3, <2>4, HistoryFacts, MoveOK
<1>4. QED
  BY <1>2, <1>3 DEF Reprocess

LEMMA SaveOK == ASSUME IInv, NEW s \in Slot, Save(s) PROVE IInv'
<1>1. /\ req[s] # NULL /\ req[s].step = "write" /\ req[s] \in RequestRecord
      /\ clock \in 0..MaxTime
      /\ UNCHANGED <<kind, entry, clock, sent, told, torn, overlapped, events>>
  BY DEF Save, At, IInv, TypeOK
<1>2. kind[TargetAt(s)] # "job"
  BY <1>1 DEF IInv, Shape, Guarded, TargetAt
<1>3. PICK new : new = [open |-> TRUE, version |-> req[s].read.version + 1, updated |-> clock]
  OBVIOUS
<1>4. new \in Row /\ new.updated = clock
  BY <1>1, <1>3 DEF Row, RequestRecord
<1>5. TakeEffect(s, new)
  BY <1>3 DEF Save
<1>6. QED
  BY <1>1, <1>2, <1>4, <1>5, EffectOK

LEMMA InsertOK == ASSUME IInv, NEW s \in Slot, Insert(s) PROVE IInv'
<1> DEFINE k0 == req[s].key
<1>1. /\ req[s] # NULL /\ req[s].step = "insert" /\ req[s] \in RequestRecord /\ k0 \in Key
      /\ req[s].body \in Body /\ req[s].answer \in Answer
      /\ UNCHANGED <<kind, row, clock, sent, told, effects, torn, overlapped, spent, events>>
  BY DEF Insert, At, IInv, TypeOK, RequestRecord, history
<1>2. Runs(s, k0) /\ \A k \in Key : Runs(s, k) => k = k0
  BY <1>1 DEF Runs, Running
<1>3. CASE entry[k0] = NULL /\ k0 \notin TooLong
  <2>1. PICK new : new = [body |-> req[s].body, answer |-> req[s].answer]
    OBVIOUS
  <2>2. new \in Entry /\ new.body = req[s].body /\ new.answer = req[s].answer /\ new # NULL
    BY <1>1, <2>1, IdempotencyAssumption DEF Entry
  <2>3. GoTo(s, "answer") /\ entry' = [entry EXCEPT ![k0] = new]
    BY <1>3, <2>1 DEF Insert
  <2>4. /\ entry' \in [Key -> Entry \cup {NULL}]
        /\ entry'[k0] = new
        /\ \A k \in Key \ {k0} : entry'[k] = entry[k]
    BY <1>1, <2>2, <2>3 DEF IInv, TypeOK
  <2>5. /\ req' \in [Slot -> RequestRecord \cup {NULL}]
        /\ \A r \in Slot \ {s} : req'[r] = req[r]
        /\ req'[s] # NULL /\ req'[s].step = "answer" /\ req'[s].key = k0
        /\ req'[s].body = req[s].body /\ req'[s].answer = req[s].answer
    BY <1>1, <2>3, GoToFields DEF IInv, Steps
  <2>6. TypeOK'
    BY <1>1, <2>4, <2>5 DEF IInv, TypeOK
  <2>7. Guarded' = Guarded
    BY <1>1 DEF Guarded
  <2>8. Shape'
    BY <2>5, <2>7 DEF IInv, Shape
  <2>9. Answers'
    <3>1. told[k0] = {}
      BY <1>1, <1>3, IdempotencyAssumption DEF IInv, TypeOK, Answers, OneAnswer
    <3>2. OneAnswer'
      BY <1>1, <2>4, <3>1 DEF IInv, Answers, OneAnswer
    <3>3. ASSUME NEW r \in Slot, At(r, "answer")'
          PROVE  /\ entry'[req'[r].key] # NULL
                 /\ entry'[req'[r].key].body = req'[r].body
                 /\ entry'[req'[r].key].answer = req'[r].answer
      <4>1. CASE r = s
        BY <2>2, <2>4, <2>5, <4>1
      <4>2. CASE r # s
        <5>1. /\ req'[r] = req[r] /\ At(r, "answer") /\ req[r].key \in Key
              /\ entry[req[r].key] # NULL
              /\ entry[req[r].key].body = req[r].body
              /\ entry[req[r].key].answer = req[r].answer
          BY <2>5, <3>3, <4>2 DEF At, IInv, Answers, TypeOK, RequestRecord
        <5>2. QED
          BY <1>3, <2>4, <5>1
      <4>3. QED
        BY <4>1, <4>2
    <3>4. QED
      BY <3>2, <3>3 DEF Answers
  <2>10. Once'
    <3>1. \A r \in Slot, k \in Key : Runs(r, k)' <=> Runs(r, k) /\ r # s
      BY <2>5 DEF Runs, Running
    <3>2. ASSUME NEW k \in Key \ (torn \cup overlapped \cup TooLong)
          PROVE  /\ entry'[k] # NULL => effects[k] = IF entry'[k].answer = "done" THEN 1 ELSE 0
                 /\ entry'[k] = NULL /\ (\A r \in Slot : ~Runs(r, k)') => effects[k] = 0
                 /\ \A r \in Slot : Runs(r, k)' =>
                      /\ entry'[k] = NULL
                      /\ \A q \in Slot : Runs(q, k)' => q = r
                      /\ effects[k] = IF req'[r].step = "insert" /\ req'[r].answer = "done"
                                      THEN 1 ELSE 0
      <4>1. CASE k = k0
        <5>1. /\ \A q \in Slot : Runs(q, k) => q = s
              /\ effects[k] = IF req[s].answer = "done" THEN 1 ELSE 0
          BY <1>1, <1>2, <3>2, <4>1 DEF IInv, Once
        <5>2. QED
          BY <2>2, <2>4, <3>1, <4>1, <5>1
      <4>2. CASE k # k0
        <5>1. entry'[k] = entry[k] /\ \A r \in Slot : Runs(r, k)' <=> Runs(r, k)
          BY <1>2, <2>4, <3>1, <4>2
        <5>2. \A r \in Slot : Runs(r, k) => req'[r] = req[r]
          BY <1>2, <2>5, <4>2
        <5>3. QED
          BY <3>2, <5>1, <5>2 DEF IInv, Once
      <4>3. QED
        BY <4>1, <4>2
    <3>3. QED
      BY <1>1, <3>2 DEF Once
  <2>11. Jobs' /\ Tags'
    BY <1>1 DEF IInv, Jobs, Tags
  <2>12. QED
    BY <2>6, <2>8, <2>9, <2>10, <2>11 DEF IInv
<1>4. CASE ~(entry[k0] = NULL /\ k0 \notin TooLong)
  <2>1. UNCHANGED entry /\ Free(s)
    BY <1>4 DEF Insert
  <2>2. /\ req' \in [Slot -> RequestRecord \cup {NULL}]
        /\ \A r \in Slot \ {s} : req'[r] = req[r]
        /\ req'[s] = NULL
    BY <2>1, FreeFields DEF IInv
  <2>3. \A k \in Key \ (torn \cup overlapped \cup TooLong) : ~Runs(s, k)
    BY <1>2, <1>4 DEF IInv, Once
  <2>4. \A k \in Key : ~Runs(s, k)'
    BY <2>2 DEF Runs, Running
  <2>5. QED
    BY <1>1, <2>1, <2>2, <2>3, <2>4, HistoryFacts, MoveOK
<1>5. QED
  BY <1>3, <1>4

LEMMA RespondOK == ASSUME IInv, NEW s \in Slot, Respond(s) PROVE IInv'
<1> DEFINE k0 == req[s].key
<1>1. /\ req[s] # NULL /\ req[s].step = "answer" /\ req[s] \in RequestRecord /\ k0 \in Key
      /\ Free(s)
      /\ UNCHANGED <<kind, row, entry, clock, sent, effects, torn, overlapped, spent, events>>
  BY DEF Respond, At, IInv, TypeOK, RequestRecord
<1>2. /\ req' \in [Slot -> RequestRecord \cup {NULL}]
      /\ \A r \in Slot \ {s} : req'[r] = req[r]
      /\ req'[s] = NULL
  BY <1>1, FreeFields DEF IInv
<1>3. PICK new : new = [body |-> req[s].body, answer |-> req[s].answer]
  OBVIOUS
<1>4. new \in Entry /\ entry[k0] \in Entry
      /\ new.body = entry[k0].body /\ new.answer = entry[k0].answer
  BY <1>1, <1>3 DEF IInv, Answers, At, TypeOK, RequestRecord, Entry
<1>5. new = entry[k0]
  BY <1>4 DEF Entry
<1>6. told' = [told EXCEPT ![k0] = told[k0] \cup {new}]
  BY <1>3 DEF Respond
<1>7. told' \in [Key -> SUBSET Entry] /\ \A k \in Key : \A e \in told'[k] : e = entry[k]
  BY <1>1, <1>4, <1>5, <1>6, HistoryFacts
<1>8. \A k \in Key : ~Runs(s, k) /\ ~Runs(s, k)'
  BY <1>1, <1>2 DEF Runs, Running
<1>9. QED
  BY <1>1, <1>2, <1>7, <1>8, HistoryFacts, MoveOK

LEMMA CrashOK == ASSUME IInv, NEW s \in Slot, Crash(s) PROVE IInv'
<1>1. /\ req[s] # NULL /\ req[s] \in RequestRecord /\ req[s].key \in Key /\ Free(s)
      /\ UNCHANGED <<kind, row, entry, clock, sent, told, effects, overlapped, spent>>
      /\ events' \in 0..MaxEvents
  BY IdempotencyAssumption DEF Crash, Event, IInv, TypeOK, RequestRecord
<1>2. /\ req' \in [Slot -> RequestRecord \cup {NULL}]
      /\ \A r \in Slot \ {s} : req'[r] = req[r]
      /\ req'[s] = NULL
  BY <1>1, FreeFields DEF IInv
<1>3. /\ torn \subseteq torn' /\ torn' \in SUBSET Key
      /\ req[s].step = "insert" /\ req[s].answer = "done" => req[s].key \in torn'
  BY <1>1 DEF Crash, At, IInv, TypeOK
<1>4. \A k \in Key \ (torn' \cup overlapped \cup TooLong) : Runs(s, k) => effects[k] = 0
  BY <1>3 DEF IInv, Once, Runs
<1>5. \A k \in Key : ~Runs(s, k)'
  BY <1>2 DEF Runs, Running
<1>6. QED
  BY <1>1, <1>2, <1>3, <1>4, <1>5, HistoryFacts, MoveOK

LEMMA ChangeOK == ASSUME IInv, NEW t \in Target, Change(t) PROVE IInv'
<1>1. PICK open \in BOOLEAN :
        /\ open => row[t].open \/ kind[t] = "asset"
        /\ row' = [row EXCEPT ![t].open = open, ![t].updated = clock]
  BY DEF Change
<1>2. UNCHANGED <<kind, entry, req, clock, sent, told, effects, torn, overlapped, spent>>
      /\ events' \in 0..MaxEvents
  BY IdempotencyAssumption DEF Change, Event, history, IInv, TypeOK
<1>3. /\ row' \in [Target -> Row]
      /\ row'[t].open = open /\ row'[t].version = row[t].version /\ row'[t].updated = clock
      /\ \A u \in Target \ {t} : row'[u] = row[u]
  <2>1. PICK new : new = [row[t] EXCEPT !.open = open, !.updated = clock]
    OBVIOUS
  <2>2. row[t] \in Row /\ clock \in 0..MaxTime /\ row \in [Target -> Row]
    BY DEF IInv, TypeOK
  <2>3. /\ new \in Row /\ new.open = open /\ new.version = row[t].version /\ new.updated = clock
    BY <2>1, <2>2 DEF Row
  <2>4. row' = [row EXCEPT ![t] = new]
    BY <1>1, <2>1
  <2>5. QED
    BY <2>2, <2>3, <2>4
<1>4. TypeOK'
  BY <1>2, <1>3 DEF IInv, TypeOK
<1>5. Guarded' = Guarded
  BY <1>2 DEF Guarded
<1>6. Shape' /\ Answers' /\ Once'
  BY <1>2, <1>5 DEF IInv, Shape, Answers, OneAnswer, At, Once, Runs, Running
<1>7. Jobs'
  BY <1>1, <1>2, <1>3 DEF IInv, Jobs
<1>8. Tags'
  <2>1. \A u \in Target : row'[u].updated <= clock
    BY <1>3 DEF IInv, Tags, TypeOK
  <2>2. ASSUME NEW k \in Key, NEW m \in spent[k]
        PROVE  m < row'[TargetOf[k]].updated
    <3>1. /\ m < row[TargetOf[k]].updated /\ TargetOf[k] \in Target
          /\ row[TargetOf[k]].updated <= clock
          /\ m \in 0..MaxTime /\ clock \in 0..MaxTime /\ row[TargetOf[k]].updated \in 0..MaxTime
      BY IdempotencyAssumption DEF IInv, Tags, TypeOK, Row
    <3>2. m < clock
      BY <3>1
    <3>3. QED
      BY <1>3, <3>1, <3>2
  <2>3. QED
    BY <1>2, <2>1, <2>2 DEF Tags
<1>9. QED
  BY <1>4, <1>6, <1>7, <1>8 DEF IInv

LEMMA TickOK == IInv /\ Tick => IInv'
<1> SUFFICES ASSUME IInv, Tick PROVE IInv'
  OBVIOUS
<1>1. clock' = clock + 1 /\ clock' \in 0..MaxTime /\ clock \in 0..MaxTime
  BY IdempotencyAssumption DEF Tick, IInv, TypeOK
<1>2. UNCHANGED <<kind, row, entry, req, sent, told, effects, torn, overlapped, spent, events>>
  BY DEF Tick, history
<1>3. TypeOK'
  BY <1>1, <1>2 DEF IInv, TypeOK
<1>4. Shape' /\ Answers' /\ Once' /\ Jobs'
  BY <1>2 DEF IInv, Shape, Guarded, Answers, OneAnswer, At, Once, Runs, Running, Jobs
<1>5. Tags'
  <2>1. \A t \in Target : row[t].updated \in 0..MaxTime
    BY DEF IInv, TypeOK, Row
  <2>2. QED
    BY <1>1, <1>2, <2>1 DEF IInv, Tags
<1>6. QED
  BY <1>3, <1>4, <1>5 DEF IInv

-----------------------------------------------------------------------------
\* Every step keeps the invariant

LEMMA NextOK == IInv /\ [Next]_vars => IInv'
<1> SUFFICES ASSUME IInv, [Next]_vars PROVE IInv'
  OBVIOUS
<1>1. CASE UNCHANGED vars
  BY <1>1 DEF vars, IInv, TypeOK, Shape, Guarded, Answers, OneAnswer, At, Once, Runs, Running,
       Jobs, Tags
<1>2. QED
  BY <1>1, SendOK, ViolationResponseOK, LookupOK, ReportOK, ReprocessOK, SaveOK, InsertOK,
     RespondOK, CrashOK, ChangeOK, TickOK
  DEF Next, execute

LEMMA Invariance == Spec => []IInv
<1>1. QED
  BY InitOK, NextOK, PTL DEF Spec

-----------------------------------------------------------------------------
\* The theorems

\* Types.
THEOREM TypeCorrect == Spec => []TypeOK
<1>1. IInv => TypeOK
  BY DEF IInv
<1>2. QED
  BY <1>1, Invariance, PTL

\* IdempotencyService gives all requests of a key one answer, that of the entry, however
\* they overlap, die and are sent again.
THEOREM AnswersAreOne == Spec => []OneAnswer
<1>1. IInv => OneAnswer
  BY DEF IInv, Answers
<1>2. QED
  BY <1>1, Invariance, PTL

\* A key takes effect once, and who is told of a refusal can rely on it, except where two
\* requests found no entry, one died between effect and entry, or the key is too long.
THEOREM KeysTakeEffectOnce == Spec => []OnceAndTruthful
<1>1. ASSUME IInv PROVE OnceAndTruthful
  <2>1. SUFFICES ASSUME NEW k \in Key \ (torn \cup overlapped \cup TooLong)
                 PROVE  /\ effects[k] <= 1
                        /\ \A e \in told[k] : e.answer = "refused" => effects[k] = 0
    BY DEF OnceAndTruthful
  <2>2. effects[k] \in {0, 1} /\ (entry[k] # NULL /\ entry[k].answer = "refused" => effects[k] = 0)
    BY <1>1, <2>1 DEF IInv, Once
  <2>3. \A e \in told[k] : e = entry[k] /\ e # NULL
    BY <1>1, IdempotencyAssumption DEF IInv, TypeOK, Answers, OneAnswer
  <2>4. QED
    BY <2>2, <2>3
<1>2. QED
  BY <1>1, Invariance, PTL

\* AssetRequestPreconditionService: a tag that has been used up lets nobody write on what
\* the row holds now.
THEOREM SpentTagsGuard == Spec => []TagsGuard
<1>1. ASSUME IInv PROVE TagsGuard
  <2>1. SUFFICES ASSUME NEW s \in Slot, At(s, "write"), req[s].match \in spent[req[s].key]
                 PROVE  req[s].read # row[TargetAt(s)]
    BY DEF TagsGuard
  <2>2. req[s].key \in Key /\ req[s].read.updated = req[s].match
    BY <1>1, <2>1 DEF IInv, Shape, At, TypeOK, RequestRecord
  <2>3. req[s].match < row[TargetAt(s)].updated
    BY <1>1, <2>1, <2>2 DEF IInv, Tags, TargetAt
  <2>4. req[s].match \in 0..MaxTime
    BY <1>1, <2>1 DEF IInv, At, TypeOK, RequestRecord
  <2>5. QED
    BY <2>2, <2>3, <2>4
<1>2. QED
  BY <1>1, Invariance, PTL

-----------------------------------------------------------------------------
\* Reports as ExclusiveWork sees them

\* A step that changes nothing of a job but its time is none of ExclusiveWork.
LEMMA WorkStutter ==
    ASSUME kind' = kind,
           \A x \in Target : kind[x] = "job" =>
               row'[x].version = row[x].version /\ row'[x].open = row[x].open
    PROVE  UNCHANGED Work!vars
<1>1. \A x \in Target : Unreported(x)' = Unreported(x) /\ Reported(x)' = Reported(x)
  BY DEF Unreported, Reported
<1>2. \A x \in Target : Reported(x) => row'[x].version = row[x].version
  BY DEF Reported
<1>3. \A x \in Target : Unreported(x) => row'[x].open = row[x].open
  BY DEF Unreported
<1>4. QED
  BY <1>1, <1>2, <1>3 DEF Work!vars

\* A report that takes effect is that of the attempt under way.
LEMMA WorkReport ==
    ASSUME IInv, NEW s \in Slot, Report(s), row[TargetAt(s)].open
    PROVE  Work!Report(TargetAt(s), "completed")
<1>1. PICK t \in Target : t = TargetAt(s) /\ kind[t] = "job"
  BY IdempotencyAssumption DEF Report, At, IInv, TypeOK, RequestRecord, TargetAt, Guarded
<1>2. row[t].open /\ row[t].version = 0
  BY <1>1 DEF IInv, Jobs
<1>3. row' = [row EXCEPT ![t] = [open |-> FALSE, version |-> 1, updated |-> clock]]
      /\ kind' = kind
  BY <1>1, <1>2 DEF Report, TakeEffect
<1>4. row'[t].version = 1 /\ \A x \in Target \ {t} : row'[x] = row[x]
  BY <1>3 DEF IInv, TypeOK
<1>5. /\ Unreported(t) /\ ~Reported(t) /\ ~Unreported(t)' /\ Reported(t)'
      /\ \A x \in Target \ {t} : Unreported(x)' = Unreported(x) /\ Reported(x)' = Reported(x)
  BY <1>1, <1>2, <1>3, <1>4 DEF Unreported, Reported
<1>6. QED
  BY <1>1, <1>2, <1>4, <1>5 DEF Work!Report

\* The lease of a job runs out, or somebody edits an asset.
LEMMA WorkChange ==
    ASSUME IInv, NEW t \in Target, Change(t)
    PROVE  [\E S \in SUBSET Target : Work!Lapse(S)]_(Work!vars)
<1>1. PICK open \in BOOLEAN :
        /\ open => row[t].open \/ kind[t] = "asset"
        /\ row' = [row EXCEPT ![t].open = open, ![t].updated = clock]
  BY DEF Change
<1>2. row[t] \in Row /\ kind' = kind /\ row[t].open \in BOOLEAN
  BY DEF Change, IInv, TypeOK, Row
<1>3. row'[t].open = open /\ row'[t].version = row[t].version
      /\ \A x \in Target \ {t} : row'[x] = row[x]
  BY <1>1, <1>2 DEF IInv, TypeOK, Row
<1>4. CASE Unreported(t) /\ row[t].open /\ ~open
  <2>1. \A x \in Target : Unreported(x)' = Unreported(x) /\ Reported(x)' = Reported(x)
    BY <1>2, <1>3 DEF Unreported, Reported
  <2>2. \A x \in Target : Unreported(x) /\ ~row'[x].open <=>
                          x = t \/ (Unreported(x) /\ ~row[x].open)
    BY <1>3, <1>4
  <2>3. \A x \in Target : Reported(x) => row'[x].version = row[x].version
    BY <1>3
  <2>4. Work!Lapse({t})
    BY <1>4, <2>1, <2>2, <2>3 DEF Work!Lapse
  <2>5. QED
    BY <2>4
<1>5. CASE ~(Unreported(t) /\ row[t].open /\ ~open)
  <2>1. kind[t] = "job" => row'[t].open = row[t].open
    <3>1. CASE kind[t] = "job" /\ row[t].version = 0
      BY <1>1, <1>2, <1>3, <1>5, <3>1 DEF Unreported
    <3>2. CASE kind[t] = "job" /\ row[t].version # 0
      BY <1>1, <1>2, <1>3, <3>2 DEF IInv, Jobs
    <3>3. QED
      BY <3>1, <3>2
  <2>2. UNCHANGED Work!vars
    BY <1>2, <1>3, <2>1, WorkStutter
  <2>3. QED
    BY <2>2
<1>6. QED
  BY <1>4, <1>5

LEMMA WorkStep == IInv /\ [Next]_vars => [Work!Next]_(Work!vars)
<1> SUFFICES ASSUME IInv, [Next]_vars PROVE [Work!Next]_(Work!vars)
  OBVIOUS
<1>1. ASSUME NEW s \in Slot, Report(s) PROVE [Work!Next]_(Work!vars)
  <2>1. CASE row[TargetAt(s)].open
    <3>1. TargetAt(s) \in Target
      BY <1>1, IdempotencyAssumption DEF Report, At, IInv, TypeOK, RequestRecord, TargetAt
    <3>2. QED
      BY <1>1, <2>1, <3>1, WorkReport DEF Work!Next
  <2>2. CASE ~row[TargetAt(s)].open
    BY <1>1, <2>2, WorkStutter DEF Report
  <2>3. QED
    BY <2>1, <2>2
<1>2. ASSUME NEW s \in Slot, Save(s) PROVE [Work!Next]_(Work!vars)
  <2>1. kind[TargetAt(s)] # "job"
    BY <1>2 DEF Save, At, IInv, Shape, Guarded, TargetAt
  <2>2. kind' = kind /\ \A x \in Target : x # TargetAt(s) => row'[x] = row[x]
    BY <1>2 DEF Save, TakeEffect, IInv, TypeOK
  <2>3. QED
    BY <2>1, <2>2, WorkStutter
<1>3. ASSUME NEW t \in Target, Change(t) PROVE [Work!Next]_(Work!vars)
  BY <1>3, WorkChange DEF Work!Next
<1>4. CASE UNCHANGED <<kind, row>>
  BY <1>4, WorkStutter
<1>5. QED
  BY <1>1, <1>2, <1>3, <1>4
     DEF Next, execute, violationResponse, Lookup, Reprocess, Insert, Respond, Crash, Send,
         Tick, history, vars

\* submit and fail under retries, deaths and overlaps report on a claimed job once, and
\* only while its lease runs: to the queue of jobs they are the reports that come once.
THEOREM ReportsAreSteps == Spec => ReportsAreWork
  BY Invariance, WorkStep, PTL DEF Spec, ReportsAreWork
=============================================================================
