------------------------- MODULE AssetWorkflowProofs -------------------------
(***************************************************************************)
(* Proofs about AssetWorkflow, for any sets of assets, requests and job    *)
(* types and any bound on versions.                                        *)
(*                                                                         *)
(* LockOwnership is inductive once types and the shape of requests are     *)
(* known.  ReviewedBeforeDecision is not: a request writes a state it      *)
(* computed from a row that is out of date by then.  RequestInv carries    *)
(* what was true of that row to the moment of the write; it survives the   *)
(* steps of others because `reviewed` only grows.                          *)
(***************************************************************************)
EXTENDS AssetWorkflow, TLAPS

-----------------------------------------------------------------------------
\* The transition table

LEMMA HumanReviewable ==
    ASSUME NEW from \in State, NEW to \in HumanTarget \cup {from}, CanTransition(from, to),
           to \in Reviewable
    PROVE  from \in Reviewable
  BY DEF State, HumanTarget, CanTransition, Transitions, Reviewable

LEMMA HumanNotFinal ==
    ASSUME NEW from \in State, NEW to \in HumanTarget \cup {from}, CanTransition(from, to),
           from # "MOVE_QUEUED", to # from
    PROVE  to \notin {"ARCHIVED", "REJECTED", "PURGED", "MOVE_QUEUED"}
  BY DEF State, HumanTarget, CanTransition, Transitions

LEMMA AfterResultOK ==
    ASSUME NEW state \in State, NEW done \in SUBSET Flag, state # "MOVE_QUEUED"
    PROVE  /\ AfterResult(state, done) \in State \ {"MOVE_QUEUED"}
           /\ AfterResult(state, done) # state =>
                 AfterResult(state, done) \in {"DECISION_PENDING", "PROCESSING_REVIEW"}
           /\ AfterResult(state, done) \in Reviewable =>
                 state \in Reviewable \/ isProcessingProfileComplete(done)
  BY DEF State, AfterResult, Reviewable

-----------------------------------------------------------------------------
\* What a request writes

\* The state, flags and version a request computes are legal, and differ from what
\* it read only in ways its checks allow.
LEMMA NewRowOK ==
    ASSUME NEW q \in RequestRecord,
           q.read.state # "MOVE_QUEUED",
           q.op = "edit" => q.to \in HumanTarget \cup {q.read.state}
                            /\ CanTransition(q.read.state, q.to),
           q.op = "reprocess" => q.read.version < MaxVersion
    PROVE  /\ NewRow(q) \in Row
           /\ NewRow(q).state # "MOVE_QUEUED"
           /\ NewRow(q).state \in Reviewable =>
                 \/ q.read.state \in Reviewable
                 \/ isProcessingProfileComplete(NewRow(q).done)
                 \/ q.op \in {"move", "purge"}
           /\ NewRow(q).state # q.read.state =>
                 /\ NewRow(q).state \in {"ARCHIVED", "REJECTED"} => q.op = "move"
                 /\ NewRow(q).state = "PURGED" => q.op = "purge"
<1> DEFINE read == q.read
<1>1. /\ read \in Row
      /\ read.state \in State
      /\ read.done \in SUBSET Flag
      /\ read.version \in Version
      /\ q.to \in State
      /\ q.flags \in SUBSET Flag
      /\ q.op \in Op
  BY DEF RequestRecord, Row
<1>2. CASE q.op = "edit"
  <2>1. NewRow(q) = [read EXCEPT !.state = q.to]
    BY <1>2 DEF NewRow
  <2>2. NewRow(q) \in Row /\ NewRow(q).state = q.to
    BY <1>1, <2>1 DEF Row
  <2>3. q.to \in Reviewable => read.state \in Reviewable
    BY <1>1, <1>2, HumanReviewable
  <2>4. q.to # read.state => q.to \notin {"ARCHIVED", "REJECTED", "PURGED", "MOVE_QUEUED"}
    BY <1>1, <1>2, HumanNotFinal
  <2>5. QED
    BY <2>2, <2>3, <2>4
<1>3. CASE q.op = "reprocess"
  <2>1. NewRow(q) = ReprocessedRow(read)
    BY <1>3 DEF NewRow
  <2>2. NewRow(q) \in Row /\ NewRow(q).state = "READY"
    BY <1>1, <1>3, <2>1, WorkflowAssumption DEF ReprocessedRow, Row, State, Version
  <2>3. QED
    BY <2>2 DEF Reviewable
<1>4. CASE q.op = "move"
  <2>1. NewRow(q) = [read EXCEPT !.state = IF @ = "DECIDED_KEEP" THEN "ARCHIVED"
                                           ELSE "REJECTED"]
    BY <1>4 DEF NewRow
  <2>2. NewRow(q) \in Row /\ NewRow(q).state \in {"ARCHIVED", "REJECTED"}
    BY <1>1, <2>1 DEF Row, State
  <2>3. QED
    BY <1>4, <2>2
<1>5. CASE q.op = "purge"
  <2>1. NewRow(q) = [read EXCEPT !.state = "PURGED"]
    BY <1>5 DEF NewRow
  <2>2. NewRow(q) \in Row /\ NewRow(q).state = "PURGED"
    BY <1>1, <2>1 DEF Row, State
  <2>3. QED
    BY <1>5, <2>2
<1>6. CASE q.op = "submit"
  <2> DEFINE done == read.done \cup q.flags
             state == AfterResult(read.state, done)
  <2>1. NewRow(q) = [read EXCEPT !.done = done, !.state = AfterResult(@, done)]
    BY <1>6 DEF NewRow
  <2>2. NewRow(q).state = state /\ NewRow(q).done = done
    BY <1>1, <2>1 DEF Row
  <2>3. /\ state \in State \ {"MOVE_QUEUED"}
        /\ state # read.state => state \in {"DECISION_PENDING", "PROCESSING_REVIEW"}
        /\ state \in Reviewable =>
              read.state \in Reviewable \/ isProcessingProfileComplete(done)
    BY <1>1, AfterResultOK
  <2>4. NewRow(q) \in Row
    BY <1>1, <2>1, <2>3 DEF Row
  <2>5. QED
    BY <2>2, <2>3, <2>4
<1>7. QED
  BY <1>1, <1>2, <1>3, <1>4, <1>5, <1>6 DEF Op

LEMMA SavedOK ==
    ASSUME NEW q \in RequestRecord, NEW row \in Row, NewRow(q) \in Row
    PROVE  /\ Saved(row, q) \in Row
           /\ Saved(row, q).state = IF NewRow(q).state # q.read.state
                                    THEN NewRow(q).state ELSE row.state
  BY DEF Saved, Row

-----------------------------------------------------------------------------
\* Types and requests

\* The condition RequestInv puts on one request.
RequestOK(q) ==
    /\ q.read.state # "MOVE_QUEUED"
    /\ q.read.state \in Reviewable => q.asset \in reviewed
    /\ q.op = "edit" => /\ q.read.state # "PURGED"
                       /\ q.to \in HumanTarget \cup {q.read.state}
                       /\ CanTransition(q.read.state, q.to)
    /\ q.op = "reprocess" => /\ q.read.version < MaxVersion
                            /\ CanTransition(q.read.state, "READY")
    /\ q.op = "move" => q.read.state \in {"DECIDED_KEEP", "DECIDED_REJECT"}
    /\ q.op = "purge" => q.read.state = "REJECTED"
    /\ q.op = "submit" => q.step \in {"load", "write"}
    /\ q.step \in {"acquire", "release"} => q.op \in {"move", "purge"}
    /\ q.step \in {"check_claims", "delete"} => q.op = "purge"
    /\ q.step = "load" => q.op = "submit"

LEMMA RequestInvIs == RequestInv <=> \A r \in Request : req[r] # NULL => RequestOK(req[r])
  BY DEF RequestInv, RequestOK

\* A step that gives request r a legal form, or ends it, keeps RequestInv as long
\* as no asset ceases to be reviewed.
LEMMA RequestInvKept ==
    ASSUME TypeOK, RequestInv, NEW r \in Request, NEW q \in RequestRecord \cup {NULL},
           req' = [req EXCEPT ![r] = q], reviewed \subseteq reviewed',
           q # NULL => RequestOK(q)
    PROVE  req' \in [Request -> RequestRecord \cup {NULL}] /\ RequestInv'
<1>1. req' \in [Request -> RequestRecord \cup {NULL}]
  BY DEF TypeOK
<1>2. \A s \in Request : req'[s] = IF s = r THEN q ELSE req[s]
  BY DEF TypeOK
<1>3. \A s \in Request : req[s] # NULL => RequestOK(req[s])
  BY RequestInvIs
<1>4. QED
  BY <1>1, <1>2, <1>3 DEF RequestInv, RequestOK

\* A request under way, as a value of its own.
LEMMA RequestTyped ==
    ASSUME TypeOK, RequestInv, NEW r \in Request, req[r] # NULL
    PROVE  \E q \in RequestRecord : q = req[r] /\ RequestOK(q)
  BY RequestInvIs DEF TypeOK

\* Request r goes on to another step, one that fits its operation.
LEMMA GoToOK ==
    ASSUME TypeOK, RequestInv, NEW r \in Request, req[r] # NULL, reviewed \subseteq reviewed',
           NEW step \in Step, GoTo(r, step),
           req[r].op = "submit" => step = "write",
           step \in {"acquire", "release"} => req[r].op \in {"move", "purge"},
           step \in {"check_claims", "delete"} => req[r].op = "purge",
           step # "load"
    PROVE  req' \in [Request -> RequestRecord \cup {NULL}] /\ RequestInv'
<1>1. PICK q \in RequestRecord : q = req[r] /\ RequestOK(q)
  BY RequestTyped
<1>2. PICK n : n = [q EXCEPT !.step = step]
  OBVIOUS
<1>3. n \in RequestRecord
  BY <1>1, <1>2 DEF RequestRecord
<1>4. n.step = step /\ n.op = q.op /\ n.read = q.read /\ n.to = q.to /\ n.asset = q.asset
  BY <1>1, <1>2 DEF RequestRecord
<1>5. RequestOK(n)
  BY <1>1, <1>4 DEF RequestOK
<1>6. req' = [req EXCEPT ![r] = n]
  BY <1>1, <1>2 DEF GoTo, TypeOK
<1>7. QED
  BY <1>3, <1>5, <1>6, RequestInvKept

LEMMA AnswerOK ==
    ASSUME TypeOK, RequestInv, NEW r \in Request, reviewed \subseteq reviewed', Answer(r)
    PROVE  req' \in [Request -> RequestRecord \cup {NULL}] /\ RequestInv'
  BY RequestInvKept DEF Answer

LEMMA BeginOK ==
    ASSUME WorkflowInv, NEW r \in Request, NEW op \in Op, NEW x \in Asset, NEW to \in State,
           NEW touches \in BOOLEAN, Begin(r, op, x, to, touches),
           op # "submit",
           op = "edit" => /\ asset[x].state # "PURGED"
                          /\ to \in HumanTarget \cup {asset[x].state}
                          /\ CanTransition(asset[x].state, to),
           op = "reprocess" => /\ asset[x].version < MaxVersion
                               /\ CanTransition(asset[x].state, "READY"),
           op = "move" => asset[x].state \in {"DECIDED_KEEP", "DECIDED_REJECT"},
           op = "purge" => asset[x].state = "REJECTED"
    PROVE  req' \in [Request -> RequestRecord \cup {NULL}] /\ RequestInv'
<1>1. PICK q : q = [op |-> op, step |-> "check_lock", asset |-> x, read |-> asset[x],
                    to |-> to, flags |-> {}, touches |-> touches]
  OBVIOUS
<1>2. asset[x] \in Row /\ asset[x].state # "MOVE_QUEUED"
      /\ (asset[x].state \in Reviewable => x \in reviewed)
  BY DEF WorkflowInv, TypeOK, NeverQueued, ReviewedBeforeDecision
<1>3. q \in RequestRecord
  BY <1>1, <1>2 DEF RequestRecord, Step
<1>4. /\ q.step = "check_lock" /\ q.op = op /\ q.read = asset[x] /\ q.to = to
      /\ q.asset = x
  BY <1>1
<1>5. RequestOK(q)
  BY <1>2, <1>4 DEF RequestOK
<1>6. req' = [req EXCEPT ![r] = q] /\ reviewed' = reviewed
  BY <1>1 DEF Begin
<1>7. QED
  BY <1>3, <1>5, <1>6, RequestInvKept DEF WorkflowInv

LEMMA RequestStep ==
    ASSUME WorkflowInv, [Next]_vars
    PROVE  req' \in [Request -> RequestRecord \cup {NULL}] /\ RequestInv'
<1> DEFINE Goal == req' \in [Request -> RequestRecord \cup {NULL}] /\ RequestInv'
<1> USE DEF WorkflowInv
<1>1. ASSUME NEW r \in Request, NEW x \in Asset, NEW to \in State, NEW touches \in BOOLEAN,
             Edit(r, x, to, touches)
      PROVE  Goal
  BY <1>1, BeginOK DEF Edit, Op
<1>2. ASSUME NEW r \in Request, NEW x \in Asset, Reprocess(r, x) PROVE Goal
  BY <1>2, BeginOK DEF Reprocess, Op, State
<1>3. ASSUME NEW r \in Request, NEW x \in Asset, applyMoves(r, x) PROVE Goal
  BY <1>3, BeginOK DEF applyMoves, Op, State
<1>4. ASSUME NEW r \in Request, NEW x \in Asset, purge(r, x) PROVE Goal
  BY <1>4, BeginOK DEF purge, Op, State
<1>5. ASSUME NEW r \in Request, LoadForResult(r) PROVE Goal
  <2>1. PICK q \in RequestRecord : q = req[r] /\ RequestOK(q)
    BY <1>5, RequestTyped DEF LoadForResult, At
  <2>2. q.step = "load" /\ q.op = "submit" /\ q.asset \in Asset
    BY <1>5, <2>1 DEF LoadForResult, At, RequestOK, RequestRecord
  <2>3. PICK n : n = [q EXCEPT !.read = asset[q.asset], !.step = "write"]
    OBVIOUS
  <2>4. asset[q.asset] \in Row /\ asset[q.asset].state # "MOVE_QUEUED"
        /\ (asset[q.asset].state \in Reviewable => q.asset \in reviewed)
    BY <2>2 DEF TypeOK, NeverQueued, ReviewedBeforeDecision
  <2>5. n \in RequestRecord
    BY <2>3, <2>4 DEF RequestRecord, Step
  <2>6. n.step = "write" /\ n.op = "submit" /\ n.read = asset[q.asset] /\ n.asset = q.asset
    BY <2>2, <2>3 DEF RequestRecord
  <2>7. RequestOK(n)
    BY <2>4, <2>6 DEF RequestOK
  <2>8. req' = [req EXCEPT ![r] = n] /\ reviewed' = reviewed
    BY <1>5, <2>1, <2>3 DEF LoadForResult, TypeOK
  <2>9. QED
    BY <2>5, <2>7, <2>8, RequestInvKept
<1>6. ASSUME NEW r \in Request, CheckLock(r) PROVE Goal
  <2>1. PICK q \in RequestRecord : q = req[r] /\ RequestOK(q)
    BY <1>6, RequestTyped DEF CheckLock, At
  <2>2. q.step = "check_lock" /\ q.op # "submit" /\ req[r] # NULL /\ reviewed' = reviewed
    BY <1>6, <2>1 DEF CheckLock, At, RequestOK
  <2>3. CASE Answer(r)
    BY <2>2, <2>3, AnswerOK
  <2>4. CASE q.op = "purge" /\ GoTo(r, "check_claims")
    BY <2>1, <2>2, <2>4, GoToOK DEF Step
  <2>5. CASE q.op = "move" /\ GoTo(r, "acquire")
    BY <2>1, <2>2, <2>5, GoToOK DEF Step
  <2>6. CASE q.op \notin {"purge", "move"} /\ GoTo(r, "write")
    BY <2>1, <2>2, <2>6, GoToOK DEF Step
  <2>7. QED
    BY <1>6, <2>1, <2>3, <2>4, <2>5, <2>6 DEF CheckLock
<1>7. ASSUME NEW r \in Request, CheckClaims(r) PROVE Goal
  <2>1. PICK q \in RequestRecord : q = req[r] /\ RequestOK(q)
    BY <1>7, RequestTyped DEF CheckClaims, At
  <2>2. q.op = "purge" /\ req[r] # NULL /\ reviewed' = reviewed
    BY <1>7, <2>1 DEF CheckClaims, At, RequestOK
  <2>3. CASE Answer(r)
    BY <2>2, <2>3, AnswerOK
  <2>4. CASE GoTo(r, "acquire")
    BY <2>1, <2>2, <2>4, GoToOK DEF Step
  <2>5. QED
    BY <1>7, <2>3, <2>4 DEF CheckClaims
<1>8. ASSUME NEW r \in Request, Acquire(r) PROVE Goal
  <2>1. PICK q \in RequestRecord : q = req[r] /\ RequestOK(q)
    BY <1>8, RequestTyped DEF Acquire, At
  <2>2. q.op \in {"move", "purge"} /\ req[r] # NULL /\ reviewed' = reviewed
    BY <1>8, <2>1 DEF Acquire, At, RequestOK
  <2>3. CASE Answer(r)
    BY <2>2, <2>3, AnswerOK
  <2>4. CASE q.op = "purge" /\ GoTo(r, "delete")
    BY <2>1, <2>2, <2>4, GoToOK DEF Step
  <2>5. CASE q.op # "purge" /\ GoTo(r, "write")
    BY <2>1, <2>2, <2>5, GoToOK DEF Step
  <2>6. QED
    BY <1>8, <2>1, <2>3, <2>4, <2>5 DEF Acquire
<1>9. ASSUME NEW r \in Request, Delete(r) PROVE Goal
  <2>1. PICK q \in RequestRecord : q = req[r] /\ RequestOK(q)
    BY <1>9, RequestTyped DEF Delete, At
  <2>2. q.op = "purge" /\ req[r] # NULL /\ reviewed' = reviewed
    BY <1>9, <2>1 DEF Delete, At, RequestOK
  <2>3. CASE GoTo(r, "write")
    BY <2>1, <2>2, <2>3, GoToOK DEF Step
  <2>4. CASE GoTo(r, "release")
    BY <2>1, <2>2, <2>4, GoToOK DEF Step
  <2>5. QED
    BY <1>9, <2>3, <2>4 DEF Delete
<1>10. ASSUME NEW r \in Request, Write(r) PROVE Goal
  <2>1. PICK q \in RequestRecord : q = req[r] /\ RequestOK(q)
    BY <1>10, RequestTyped DEF Write, At
  <2>2. req[r] # NULL /\ reviewed \subseteq reviewed'
    BY <1>10 DEF Write, At
  <2>3. CASE Answer(r)
    BY <2>2, <2>3, AnswerOK
  <2>4. CASE q.op \in {"move", "purge"} /\ GoTo(r, "release")
    BY <2>1, <2>2, <2>4, GoToOK DEF Step
  <2>5. QED
    BY <1>10, <2>1, <2>3, <2>4 DEF Write
<1>11. ASSUME NEW r \in Request, Release(r) PROVE Goal
  BY <1>11, AnswerOK DEF Release
<1>12. ASSUME NEW r \in Request, Crash(r) PROVE Goal
  BY <1>12, AnswerOK DEF Crash
<1>13. ASSUME NEW r \in Request, NEW j \in Job, NEW flags \in SUBSET Flag,
              NEW touches \in BOOLEAN, Submit(r, j, flags, touches)
       PROVE  Goal
  <2>1. PICK q : q = [op |-> "submit", step |-> "load", asset |-> j[1], read |-> asset[j[1]],
                      to |-> asset[j[1]].state, flags |-> flags, touches |-> touches]
    OBVIOUS
  <2>2. j[1] \in Asset
    BY DEF Job
  <2>3. asset[j[1]] \in Row /\ asset[j[1]].state # "MOVE_QUEUED"
        /\ (asset[j[1]].state \in Reviewable => j[1] \in reviewed)
    BY <2>2 DEF TypeOK, NeverQueued, ReviewedBeforeDecision
  <2>4. asset[j[1]].state \in State
    BY <2>3 DEF Row
  <2>5. q \in RequestRecord
    BY <2>1, <2>2, <2>3, <2>4 DEF RequestRecord, Step, Op
  <2>6. /\ q.step = "load" /\ q.op = "submit" /\ q.read = asset[j[1]] /\ q.asset = j[1]
    BY <2>1
  <2>7. RequestOK(q)
    BY <2>3, <2>6 DEF RequestOK
  <2>8. req' = [req EXCEPT ![r] = q] /\ reviewed' = reviewed
    BY <1>13, <2>1 DEF Submit
  <2>9. QED
    BY <2>5, <2>7, <2>8, RequestInvKept
<1>14. ASSUME UNCHANGED <<req, reviewed>> PROVE Goal
  BY <1>14, RequestInvIs DEF TypeOK, RequestInv
<1>15. QED
  BY <1>1, <1>2, <1>3, <1>4, <1>5, <1>6, <1>7, <1>8, <1>9, <1>10, <1>11, <1>12, <1>13, <1>14
     DEF Next, Proceed, Enqueue, Claim, Lapse, Fail, SetPhase, Watchdog, vars

-----------------------------------------------------------------------------
\* Assets and locks

\* What a write leaves in the row of its asset.
LEMMA WriteOK ==
    ASSUME WorkflowInv, NEW r \in Request, Write(r)
    PROVE  \E q \in RequestRecord, row \in Row :
              /\ q = req[r]
              /\ RequestOK(q)
              /\ q.step = "write"
              /\ asset' = [asset EXCEPT ![q.asset] = row]
              /\ reviewed' = IF isProcessingProfileComplete(NewRow(q).done)
                             THEN reviewed \cup {q.asset} ELSE reviewed
              /\ row.state # "MOVE_QUEUED"
              /\ row.state \in Reviewable => q.asset \in reviewed'
              /\ row.state # asset[q.asset].state =>
                    /\ row.state \in {"ARCHIVED", "REJECTED"} => q.op = "move"
                    /\ row.state = "PURGED" => q.op = "purge"
<1>1. PICK q \in RequestRecord : q = req[r] /\ RequestOK(q)
  BY RequestTyped DEF Write, At, WorkflowInv
<1>2. PICK row : row = Saved(asset[q.asset], q)
  OBVIOUS
<1>3. /\ q.asset \in Asset
      /\ asset[q.asset] \in Row
      /\ asset[q.asset].state # "MOVE_QUEUED"
      /\ asset[q.asset].state \in Reviewable => q.asset \in reviewed
  BY <1>1 DEF WorkflowInv, TypeOK, NeverQueued, ReviewedBeforeDecision, RequestRecord
<1>4. /\ q.step = "write"
      /\ asset' = [asset EXCEPT ![q.asset] = row]
      /\ reviewed' = IF isProcessingProfileComplete(NewRow(q).done)
                     THEN reviewed \cup {q.asset} ELSE reviewed
  BY <1>1, <1>2, <1>3 DEF Write, At
<1>5. /\ NewRow(q) \in Row
      /\ NewRow(q).state # "MOVE_QUEUED"
      /\ NewRow(q).state \in Reviewable =>
            \/ q.read.state \in Reviewable
            \/ isProcessingProfileComplete(NewRow(q).done)
            \/ q.op \in {"move", "purge"}
      /\ NewRow(q).state # q.read.state =>
            /\ NewRow(q).state \in {"ARCHIVED", "REJECTED"} => q.op = "move"
            /\ NewRow(q).state = "PURGED" => q.op = "purge"
  BY <1>1, NewRowOK DEF RequestOK
<1>6. q.op \in {"move", "purge"} => q.read.state \in Reviewable
  BY <1>1 DEF RequestOK, Reviewable
<1>7. /\ row \in Row
      /\ row.state = IF NewRow(q).state # q.read.state
                     THEN NewRow(q).state ELSE asset[q.asset].state
  BY <1>2, <1>3, <1>5, SavedOK
<1>8. row.state \in Reviewable => q.asset \in reviewed'
  BY <1>1, <1>3, <1>4, <1>5, <1>6, <1>7 DEF RequestOK
<1>9. QED
  BY <1>1, <1>3, <1>4, <1>5, <1>7, <1>8

\* The rest of WorkflowInv: rows, jobs, locks and history.
LEMMA AssetStep ==
    ASSUME WorkflowInv, [Next]_vars
    PROVE  /\ asset' \in [Asset -> Row]
           /\ reviewed' \in SUBSET Asset
           /\ NeverQueued'
           /\ ReviewedBeforeDecision'
<1> USE DEF WorkflowInv
<1>1. ASSUME NEW r \in Request, Write(r)
      PROVE  /\ asset' \in [Asset -> Row]
             /\ reviewed' \in SUBSET Asset
             /\ NeverQueued'
             /\ ReviewedBeforeDecision'
  <2>1. PICK q \in RequestRecord, row \in Row :
           /\ asset' = [asset EXCEPT ![q.asset] = row]
           /\ reviewed' = IF isProcessingProfileComplete(NewRow(q).done)
                          THEN reviewed \cup {q.asset} ELSE reviewed
           /\ row.state # "MOVE_QUEUED"
           /\ row.state \in Reviewable => q.asset \in reviewed'
    BY <1>1, WriteOK
  <2>2. q.asset \in Asset
    BY DEF RequestRecord
  <2>3. \A x \in Asset : asset'[x] = IF x = q.asset THEN row ELSE asset[x]
    BY <2>1 DEF TypeOK
  <2>4. reviewed \subseteq reviewed' /\ reviewed' \subseteq Asset
    BY <2>1, <2>2 DEF TypeOK
  <2>5. QED
    BY <2>1, <2>2, <2>3, <2>4 DEF TypeOK, NeverQueued, ReviewedBeforeDecision
<1>2. ASSUME UNCHANGED <<asset, reviewed>>
      PROVE  /\ asset' \in [Asset -> Row]
             /\ reviewed' \in SUBSET Asset
             /\ NeverQueued'
             /\ ReviewedBeforeDecision'
  BY <1>2 DEF TypeOK, NeverQueued, ReviewedBeforeDecision
<1>3. QED
  BY <1>1, <1>2
     DEF Next, Proceed, Edit, Reprocess, applyMoves, purge, Begin, LoadForResult, CheckLock,
         CheckClaims, Acquire, Delete, Release, Crash, Submit, Enqueue, Claim, Lapse, Fail,
         SetPhase, Watchdog, vars

LEMMA JobStep ==
    ASSUME TypeOK, [Next]_vars
    PROVE  job' \in [Job -> Phase]
<1>1. ASSUME NEW j \in Job, NEW phase \in Phase, job' = [job EXCEPT ![j] = phase]
      PROVE  job' \in [Job -> Phase]
  BY <1>1 DEF TypeOK
<1>2. ASSUME NEW j \in Job, Enqueue(j) \/ Claim(j) \/ Lapse(j) \/ Fail(j)
      PROVE  job' \in [Job -> Phase]
  BY <1>1, <1>2 DEF Enqueue, Claim, Lapse, Fail, SetPhase, Phase
<1>3. ASSUME NEW r \in Request, NEW j \in Job, NEW flags \in SUBSET Flag,
             NEW touches \in BOOLEAN, Submit(r, j, flags, touches)
      PROVE  job' \in [Job -> Phase]
  BY <1>1, <1>3 DEF Submit, Phase
<1>4. ASSUME UNCHANGED job PROVE job' \in [Job -> Phase]
  BY <1>4 DEF TypeOK
<1>5. QED
  BY <1>2, <1>3, <1>4
     DEF Next, Proceed, Edit, Reprocess, applyMoves, purge, Begin, LoadForResult, CheckLock,
         CheckClaims, Acquire, Delete, Write, Release, Crash, Watchdog, vars

LEMMA LockTypeStep ==
    ASSUME TypeOK, [Next]_vars
    PROVE  locks' \in [Asset -> [LockType -> Request \cup {NULL, Orphan}]]
<1> DEFINE Holder == Request \cup {NULL, Orphan}
<1>1. ASSUME NEW x, NEW type, NEW h \in Holder, locks' = [locks EXCEPT ![x][type] = h]
      PROVE  locks' \in [Asset -> [LockType -> Holder]]
  BY <1>1 DEF TypeOK
<1>2. ASSUME NEW r \in Request, Acquire(r) PROVE locks' \in [Asset -> [LockType -> Holder]]
  <2>1. CASE UNCHANGED locks
    BY <2>1 DEF TypeOK
  <2>2. CASE locks' = [locks EXCEPT ![req[r].asset][LockOf(req[r].op)] = r]
    BY <1>1, <2>2
  <2>3. QED
    BY <1>2, <2>1, <2>2 DEF Acquire
<1>3. ASSUME NEW r \in Request, Release(r) PROVE locks' \in [Asset -> [LockType -> Holder]]
  BY <1>1, <1>3 DEF Release
<1>4. ASSUME NEW r \in Request, Crash(r) PROVE locks' \in [Asset -> [LockType -> Holder]]
  BY <1>4 DEF Crash, TypeOK
<1>5. ASSUME NEW x \in Asset, NEW type \in LockType, Watchdog(x, type)
      PROVE  locks' \in [Asset -> [LockType -> Holder]]
  BY <1>1, <1>5 DEF Watchdog
<1>6. ASSUME UNCHANGED locks PROVE locks' \in [Asset -> [LockType -> Holder]]
  BY <1>6 DEF TypeOK
<1>7. QED
  BY <1>2, <1>3, <1>4, <1>5, <1>6
     DEF Next, Proceed, Edit, Reprocess, applyMoves, purge, Begin, LoadForResult, CheckLock,
         CheckClaims, Delete, Write, Submit, Enqueue, Claim, Lapse, Fail, SetPhase, vars

LEMMA SpoiltStep ==
    ASSUME TypeOK, [Next]_vars
    PROVE  spoilt' \in SUBSET Asset
<1>1. ASSUME NEW r \in Request, Write(r) \/ Crash(r) PROVE spoilt' \in SUBSET Asset
  <2>1. req[r].asset \in Asset
    BY <1>1 DEF TypeOK, RequestRecord, Write, Crash, At
  <2>2. spoilt' \in {spoilt, spoilt \cup {req[r].asset}}
    BY <1>1 DEF Write, Crash
  <2>3. QED
    BY <2>1, <2>2 DEF TypeOK
<1>2. ASSUME UNCHANGED spoilt PROVE spoilt' \in SUBSET Asset
  BY <1>2 DEF TypeOK
<1>3. QED
  BY <1>1, <1>2
     DEF Next, Proceed, Edit, Reprocess, applyMoves, purge, Begin, LoadForResult, CheckLock,
         CheckClaims, Acquire, Delete, Release, Submit, Enqueue, Claim, Lapse, Fail,
         SetPhase, Watchdog, vars

THEOREM TypeStep == WorkflowInv /\ [Next]_vars => TypeOK'
  BY RequestStep, AssetStep, JobStep, LockTypeStep, SpoiltStep DEF WorkflowInv, TypeOK

-----------------------------------------------------------------------------
\* Ownership of locks

\* What a request looks like after GoTo.
LEMMA GoToIs ==
    ASSUME TypeOK, NEW r \in Request, req[r] # NULL, NEW step, GoTo(r, step)
    PROVE  /\ \A s \in Request : s # r => req'[s] = req[s]
           /\ req'[r].step = step
           /\ req'[r].op = req[r].op
           /\ req'[r].asset = req[r].asset
<1>1. req[r] \in RequestRecord
  BY DEF TypeOK
<1>2. req'[r] = [req[r] EXCEPT !.step = step] /\ \A s \in Request : s # r => req'[s] = req[s]
  BY DEF GoTo, TypeOK
<1>3. QED
  BY <1>1, <1>2 DEF RequestRecord

\* A step that gives no request a lock and leaves the lock rows alone.
LEMMA LocksUntouched ==
    ASSUME LockOwnership, UNCHANGED locks,
           \A r \in Request, x \in Asset, type \in LockType :
               Holds(r, x, type)' => Holds(r, x, type)
    PROVE  LockOwnership'
  BY DEF LockOwnership

LEMMA LockOwnershipStep ==
    ASSUME WorkflowInv, [Next]_vars
    PROVE  LockOwnership'
<1> USE DEF WorkflowInv
<1>1. ASSUME NEW r \in Request, NEW op, NEW x, NEW to, NEW touches, Begin(r, op, x, to, touches)
      PROVE  LockOwnership'
  <2>1. req'[r].step = "check_lock" /\ \A s \in Request : s # r => req'[s] = req[s]
    BY <1>1 DEF Begin, TypeOK
  <2>2. QED
    BY <1>1, <2>1, LocksUntouched DEF Begin, Holds
<1>2. ASSUME NEW r \in Request, NEW j \in Job, NEW flags \in SUBSET Flag,
             NEW touches \in BOOLEAN, Submit(r, j, flags, touches)
      PROVE  LockOwnership'
  <2>1. req'[r].step = "load" /\ \A s \in Request : s # r => req'[s] = req[s]
    BY <1>2 DEF Submit, TypeOK
  <2>2. QED
    BY <1>2, <2>1, LocksUntouched DEF Submit, Holds
<1>3. ASSUME NEW r \in Request, LoadForResult(r) PROVE LockOwnership'
  <2>1. req[r].op = "submit" /\ req[r] \in RequestRecord
    BY <1>3, RequestTyped DEF LoadForResult, At, RequestOK
  <2>2. req'[r].op = "submit" /\ \A s \in Request : s # r => req'[s] = req[s]
    BY <1>3, <2>1 DEF LoadForResult, TypeOK, RequestRecord
  <2>3. QED
    BY <1>3, <2>2, LocksUntouched DEF LoadForResult, Holds
<1>4. ASSUME NEW r \in Request, Answer(r), UNCHANGED locks PROVE LockOwnership'
  <2>1. req'[r] = NULL /\ \A s \in Request : s # r => req'[s] = req[s]
    BY <1>4 DEF Answer, TypeOK
  <2>2. QED
    BY <1>4, <2>1, LocksUntouched DEF Holds
<1>5. ASSUME NEW r \in Request, req[r] # NULL, NEW step, GoTo(r, step), UNCHANGED locks,
             \/ step \notin {"delete", "write", "release"}
             \/ req[r].op \notin {"move", "purge"}
             \/ req[r].step \in {"delete", "write", "release"}
      PROVE  LockOwnership'
  <2>1. /\ \A s \in Request : s # r => req'[s] = req[s]
        /\ req'[r].step = step
        /\ req'[r].op = req[r].op
        /\ req'[r].asset = req[r].asset
    BY <1>5, GoToIs
  <2>2. QED
    BY <1>5, <2>1, LocksUntouched DEF Holds
<1>6. ASSUME NEW r \in Request, CheckLock(r) PROVE LockOwnership'
  <2>1. CASE Answer(r)
    BY <1>4, <1>6, <2>1 DEF CheckLock
  <2>2. CASE GoTo(r, "check_claims") \/ GoTo(r, "acquire")
    BY <1>5, <1>6, <2>2 DEF CheckLock, At
  <2>3. CASE req[r].op \notin {"move", "purge"} /\ GoTo(r, "write")
    BY <1>5, <1>6, <2>3 DEF CheckLock, At
  <2>4. QED
    BY <1>6, <2>1, <2>2, <2>3 DEF CheckLock
<1>7. ASSUME NEW r \in Request, CheckClaims(r) PROVE LockOwnership'
  BY <1>4, <1>5, <1>7 DEF CheckClaims, At
<1>8. ASSUME NEW r \in Request, Acquire(r) PROVE LockOwnership'
  <2>1. CASE Answer(r) /\ UNCHANGED locks
    BY <1>4, <2>1
  <2>2. ASSUME NEW step, GoTo(r, step),
               locks[req[r].asset][LockOf(req[r].op)] = NULL,
               locks' = [locks EXCEPT ![req[r].asset][LockOf(req[r].op)] = r]
        PROVE  LockOwnership'
    <3>1. /\ \A s \in Request : s # r => req'[s] = req[s]
          /\ req'[r].op = req[r].op
          /\ req'[r].asset = req[r].asset
      BY <1>8, <2>2, GoToIs DEF Acquire, At
    <3>2. req[r].asset \in Asset /\ LockOf(req[r].op) \in LockType
      BY <1>8 DEF Acquire, At, TypeOK, RequestRecord, LockOf, LockType
    <3>3. \A x \in Asset, type \in LockType :
             locks'[x][type] = IF x = req[r].asset /\ type = LockOf(req[r].op)
                               THEN r ELSE locks[x][type]
      BY <2>2, <3>2 DEF TypeOK
    <3>4. ASSUME NEW s \in Request, NEW x \in Asset, NEW type \in LockType, Holds(s, x, type)'
          PROVE  locks'[x][type] = s
      <4>1. CASE s = r
        BY <3>1, <3>3, <3>4, <4>1 DEF Holds
      <4>2. CASE s # r
        <5>1. locks[x][type] = s
          BY <3>1, <3>4, <4>2 DEF Holds, LockOwnership
        <5>2. locks[x][type] # NULL
          BY <5>1, WorkflowAssumption
        <5>3. QED
          BY <2>2, <3>3, <5>1, <5>2
      <4>3. QED
        BY <4>1, <4>2
    <3>5. QED
      BY <3>4 DEF LockOwnership
  <2>3. QED
    BY <1>8, <2>1, <2>2 DEF Acquire
<1>9. ASSUME NEW r \in Request, Delete(r) PROVE LockOwnership'
  BY <1>5, <1>9 DEF Delete, At
<1>10. ASSUME NEW r \in Request, Write(r) PROVE LockOwnership'
  BY <1>4, <1>5, <1>10 DEF Write, At
<1>11. ASSUME NEW r \in Request, Release(r) PROVE LockOwnership'
  <2>1. req'[r] = NULL /\ \A s \in Request : s # r => req'[s] = req[s]
    BY <1>11 DEF Release, Answer, TypeOK
  <2>2. PICK q \in RequestRecord : q = req[r] /\ RequestOK(q)
    BY <1>11, RequestTyped DEF Release, At
  <2>3. /\ q.asset \in Asset /\ LockOf(q.op) \in LockType
        /\ Holds(r, q.asset, LockOf(q.op))
    BY <1>11, <2>2 DEF Release, At, Holds, RequestOK, RequestRecord, LockOf, LockType
  <2>4. locks[q.asset][LockOf(q.op)] = r
    BY <2>3 DEF LockOwnership
  <2>5. \A x \in Asset, type \in LockType :
           locks'[x][type] = IF x = q.asset /\ type = LockOf(q.op) THEN NULL ELSE locks[x][type]
    BY <1>11, <2>2, <2>3 DEF Release, TypeOK
  <2>6. ASSUME NEW s \in Request, NEW x \in Asset, NEW type \in LockType, Holds(s, x, type)'
        PROVE  locks'[x][type] = s
    <3>1. s # r /\ Holds(s, x, type)
      BY <2>1, <2>6 DEF Holds
    <3>2. locks[x][type] = s
      BY <3>1 DEF LockOwnership
    <3>3. QED
      BY <2>4, <2>5, <3>1, <3>2
  <2>7. QED
    BY <2>6 DEF LockOwnership
<1>12. ASSUME NEW r \in Request, Crash(r) PROVE LockOwnership'
  <2>1. req'[r] = NULL /\ \A s \in Request : s # r => req'[s] = req[s]
    BY <1>12 DEF Crash, Answer, TypeOK
  <2>2. ASSUME NEW s \in Request, NEW x \in Asset, NEW type \in LockType, Holds(s, x, type)'
        PROVE  locks'[x][type] = s
    <3>1. s # r /\ Holds(s, x, type)
      BY <2>1, <2>2 DEF Holds
    <3>2. locks[x][type] = s
      BY <3>1 DEF LockOwnership
    <3>3. QED
      BY <1>12, <3>1, <3>2 DEF Crash
  <2>3. QED
    BY <2>2 DEF LockOwnership
<1>13. ASSUME NEW y \in Asset, NEW kind \in LockType, Watchdog(y, kind) PROVE LockOwnership'
  <2>1. ASSUME NEW s \in Request, NEW x \in Asset, NEW type \in LockType, Holds(s, x, type)'
        PROVE  locks'[x][type] = s
    <3>1. locks[x][type] = s
      BY <1>13, <2>1 DEF Watchdog, Holds, LockOwnership
    <3>2. s # Orphan
      BY WorkflowAssumption
    <3>3. QED
      BY <1>13, <3>1, <3>2 DEF Watchdog, Stale, TypeOK
  <2>2. QED
    BY <2>1 DEF LockOwnership
<1>14. ASSUME UNCHANGED <<req, locks>> PROVE LockOwnership'
  BY <1>14, LocksUntouched DEF Holds
<1>15. QED
  BY <1>1, <1>2, <1>3, <1>6, <1>7, <1>8, <1>9, <1>10, <1>11, <1>12, <1>13, <1>14
     DEF Next, Proceed, Edit, Reprocess, applyMoves, purge, Enqueue, Claim, Lapse, Fail,
         SetPhase, vars

-----------------------------------------------------------------------------
\* The invariant and what follows from it

LEMMA WorkflowInit == Init => WorkflowInv
<1> SUFFICES ASSUME Init PROVE WorkflowInv
  OBVIOUS
<1>1. PICK state \in [Asset -> InitState] :
        /\ asset = [x \in Asset |->
              [state |-> state[x], version |-> 1,
               done |-> IF state[x] \in Reviewable THEN Review \cup InitDone ELSE InitDone]]
        /\ job = [j \in Job |-> IF j[3] # 1 THEN "absent"
                                ELSE IF state[j[1]] \in Reviewable THEN "completed"
                                ELSE "pending"]
        /\ reviewed = {x \in Asset : state[x] \in Reviewable}
  BY DEF Init
<1>2. /\ locks = [x \in Asset |-> [type \in LockType |-> NULL]]
      /\ req = [r \in Request |-> NULL]
      /\ spoilt = {}
  BY DEF Init
<1>3. 1 \in Version /\ Review \cup InitDone \in SUBSET Flag /\ InitDone \in SUBSET Flag
  BY WorkflowAssumption DEF Version, Review, Flag
<1>4. \A x \in Asset : asset[x] \in Row /\ asset[x].state = state[x]
                      /\ state[x] \in State \ {"MOVE_QUEUED"}
  BY <1>1, <1>3, WorkflowAssumption DEF Row
<1>5. asset \in [Asset -> Row]
  BY <1>1, <1>4
<1>6. job \in [Job -> Phase]
  BY <1>1 DEF Phase
<1>7. TypeOK
  BY <1>1, <1>2, <1>5, <1>6 DEF TypeOK
<1>8. NeverQueued /\ ReviewedBeforeDecision
  BY <1>1, <1>4 DEF NeverQueued, ReviewedBeforeDecision
<1>9. RequestInv /\ LockOwnership
  BY <1>2 DEF RequestInv, LockOwnership, Holds
<1>10. QED
  BY <1>7, <1>8, <1>9 DEF WorkflowInv

LEMMA WorkflowStep == WorkflowInv /\ [Next]_vars => WorkflowInv'
  BY TypeStep, RequestStep, AssetStep, LockOwnershipStep DEF WorkflowInv

\* WorkflowInv holds of every reachable state.
THEOREM WorkflowInvariant == Spec => []WorkflowInv
  BY WorkflowInit, WorkflowStep, PTL DEF Spec

\* Rows, jobs, locks and requests keep their types.
THEOREM WorkflowTypes == Spec => []TypeOK
  BY WorkflowInvariant, PTL DEF WorkflowInv

\* However many requests race, crash and are cleaned up after, a move or a purge
\* works only under the lock it took.
THEOREM LocksOwned == Spec => []LockOwnership
  BY WorkflowInvariant, PTL DEF WorkflowInv

\* An asset is reviewed before it is up for decision, with any number of writers that
\* work from stale readings of its row.
THEOREM ReviewFirst == Spec => []ReviewedBeforeDecision
  BY WorkflowInvariant, PTL DEF WorkflowInv

\* The step condition of FinalStatesUnderLock.
FinalStep ==
    \A x \in Asset :
        asset'[x].state # asset[x].state =>
            /\ asset'[x].state \in {"ARCHIVED", "REJECTED"} =>
                  locks[x]["asset_move_lock"] \in Request
            /\ asset'[x].state = "PURGED" =>
                  locks[x]["asset_purge_lock"] \in Request

LEMMA FinalStepHolds == WorkflowInv /\ [Next]_vars => FinalStep
<1> SUFFICES ASSUME WorkflowInv, [Next]_vars PROVE FinalStep
  OBVIOUS
<1>1. ASSUME NEW r \in Request, Write(r) PROVE FinalStep
  <2>1. PICK q \in RequestRecord, row \in Row :
           /\ q = req[r]
           /\ q.step = "write"
           /\ asset' = [asset EXCEPT ![q.asset] = row]
           /\ row.state # asset[q.asset].state =>
                 /\ row.state \in {"ARCHIVED", "REJECTED"} => q.op = "move"
                 /\ row.state = "PURGED" => q.op = "purge"
    BY <1>1, WriteOK
  <2>2. \A x \in Asset : asset'[x] = IF x = q.asset THEN row ELSE asset[x]
    BY <2>1 DEF WorkflowInv, TypeOK
  <2>3. q.asset \in Asset /\ req[r] # NULL
    BY <1>1 DEF RequestRecord, Write, At
  <2>4. q.op = "move" => locks[q.asset]["asset_move_lock"] = r
    BY <2>1, <2>3 DEF WorkflowInv, LockOwnership, Holds, LockOf, LockType
  <2>5. q.op = "purge" => locks[q.asset]["asset_purge_lock"] = r
    BY <2>1, <2>3 DEF WorkflowInv, LockOwnership, Holds, LockOf, LockType
  <2>6. QED
    BY <2>1, <2>2, <2>4, <2>5 DEF FinalStep
<1>2. ASSUME UNCHANGED asset PROVE FinalStep
  BY <1>2 DEF FinalStep
<1>3. QED
  BY <1>1, <1>2
     DEF Next, Proceed, Edit, Reprocess, applyMoves, purge, Begin, LoadForResult, CheckLock,
         CheckClaims, Acquire, Delete, Release, Crash, Submit, Enqueue, Claim, Lapse, Fail,
         SetPhase, Watchdog, vars

\* No asset becomes archived, rejected or purged except under the lock of the move
\* or the purge that does it.
THEOREM FinalUnderLock == Spec => FinalStatesUnderLock
  BY WorkflowInvariant, FinalStepHolds, PTL DEF Spec, FinalStatesUnderLock, FinalStep

-----------------------------------------------------------------------------
\* Purges

\* A request that read the asset as PURGED computes no other state.
LEMMA PurgedStays ==
    ASSUME NEW q \in RequestRecord, RequestOK(q), q.read.state = "PURGED"
    PROVE  NewRow(q).state = "PURGED"
<1>1. q.read \in Row /\ q.op \in {"submit"}
  BY DEF RequestOK, RequestRecord, Op, CanTransition, Transitions
<1>2. NewRow(q) = [q.read EXCEPT !.done = q.read.done \cup q.flags,
                                 !.state = AfterResult(@, q.read.done \cup q.flags)]
  BY <1>1 DEF NewRow
<1>3. QED
  BY <1>1, <1>2 DEF Row, AfterResult

\* Request r begins, having read the asset as it is, or goes on from a step that asked
\* it to have read the asset as PURGED, or ends.
LEMMA SettledKept ==
    ASSUME TypeOK, NEW x \in Asset, PurgeSettled(x), asset'[x].state = "PURGED",
           NEW r \in Request, \A s \in Request : s # r => req'[s] = req[s],
           \/ req'[r] = NULL
           \/ req'[r].read = asset[req'[r].asset]
           \/ /\ req[r] # NULL
              /\ req'[r].asset = req[r].asset
              /\ req'[r].read = req[r].read
              /\ req[r].step \notin {"load", "release"}
    PROVE  PurgeSettled(x)'
  BY DEF PurgeSettled

\* A request at a step between its reading and its end goes on or ends.
LEMMA SettledOn ==
    ASSUME TypeOK, NEW x \in Asset, PurgeSettled(x), asset'[x].state = "PURGED",
           NEW r \in Request, req[r] # NULL, req[r].step \notin {"load", "release"},
           Answer(r) \/ \E step \in Step : GoTo(r, step)
    PROVE  PurgeSettled(x)'
<1>1. \A s \in Request : s # r => req'[s] = req[s]
  BY DEF Answer, GoTo, TypeOK
<1>2. CASE Answer(r)
  BY <1>1, <1>2, SettledKept DEF Answer, TypeOK
<1>3. ASSUME NEW step \in Step, GoTo(r, step) PROVE PurgeSettled(x)'
  <2>1. req[r] \in RequestRecord
    BY DEF TypeOK
  <2>2. req'[r] = [req[r] EXCEPT !.step = step]
    BY <1>3 DEF GoTo, TypeOK
  <2>3. req'[r].asset = req[r].asset /\ req'[r].read = req[r].read
    BY <2>1, <2>2 DEF RequestRecord
  <2>4. QED
    BY <1>1, <2>3, SettledKept
<1>4. QED
  BY <1>2, <1>3

LEMMA PurgeStep ==
    ASSUME WorkflowInv, [Next]_vars, NEW x \in Asset, PurgeSettled(x)
    PROVE  PurgeSettled(x)'
<1> DEFINE Goal == PurgeSettled(x)'
<1>1. TypeOK /\ RequestInv /\ asset[x].state = "PURGED"
  BY DEF WorkflowInv, PurgeSettled
<1>2. ASSUME NEW r \in Request, NEW op, NEW y, NEW to, NEW touches, Begin(r, op, y, to, touches)
      PROVE  Goal
  <2>1. req'[r].asset = y /\ req'[r].read = asset[y]
        /\ \A s \in Request : s # r => req'[s] = req[s]
    BY <1>1, <1>2 DEF Begin, TypeOK
  <2>2. QED
    BY <1>1, <1>2, <2>1, SettledKept DEF Begin
<1>3. ASSUME NEW r \in Request, NEW j \in Job, NEW flags \in SUBSET Flag,
             NEW touches \in BOOLEAN, Submit(r, j, flags, touches)
      PROVE  Goal
  <2>1. req'[r].asset = j[1] /\ req'[r].read = asset[j[1]]
        /\ \A s \in Request : s # r => req'[s] = req[s]
    BY <1>1, <1>3 DEF Submit, TypeOK
  <2>2. QED
    BY <1>1, <1>3, <2>1, SettledKept DEF Submit
<1>4. ASSUME NEW r \in Request, LoadForResult(r) PROVE Goal
  <2>1. PICK q \in RequestRecord : q = req[r] /\ RequestOK(q)
    BY <1>1, <1>4, RequestTyped DEF LoadForResult, At
  <2>2. PICK n : n = [q EXCEPT !.read = asset[q.asset], !.step = "write"]
    OBVIOUS
  <2>3. req' = [req EXCEPT ![r] = n]
    BY <1>1, <1>4, <2>1, <2>2 DEF LoadForResult, TypeOK
  <2>4. n.asset = q.asset /\ n.read = asset[q.asset]
    BY <2>2 DEF RequestRecord
  <2>5. req'[r] = n /\ \A s \in Request : s # r => req'[s] = req[s]
    BY <1>1, <2>3 DEF TypeOK
  <2>6. QED
    BY <1>1, <1>4, <2>4, <2>5, SettledKept DEF LoadForResult
<1>5. ASSUME NEW r \in Request,
             \/ CheckLock(r) \/ CheckClaims(r) \/ Acquire(r) \/ Delete(r)
      PROVE  Goal
  <2>1. /\ req[r] # NULL /\ req[r].step \notin {"load", "release"}
        /\ asset' = asset
        /\ Answer(r) \/ \E step \in Step : GoTo(r, step)
    BY <1>5 DEF CheckLock, CheckClaims, Acquire, Delete, At, Step
  <2>2. QED
    BY <1>1, <2>1, SettledOn
<1>6. ASSUME NEW r \in Request, Write(r) PROVE Goal
  <2>1. PICK q \in RequestRecord : q = req[r] /\ RequestOK(q)
    BY <1>1, <1>6, RequestTyped DEF Write, At
  <2>2. /\ req[r] # NULL /\ q.step = "write"
        /\ asset' = [asset EXCEPT ![q.asset] = Saved(@, q)]
        /\ Answer(r) \/ \E step \in Step : GoTo(r, step)
    BY <1>6, <2>1 DEF Write, At, Step
  <2>3. asset'[x].state = "PURGED"
    <3>1. CASE q.asset # x
      BY <1>1, <2>2, <3>1 DEF TypeOK
    <3>2. CASE q.asset = x
      <4>1. q.read.state = "PURGED"
        BY <2>1, <2>2, <3>2 DEF PurgeSettled
      <4>2. NewRow(q).state = q.read.state
        BY <2>1, <4>1, PurgedStays
      <4>3. Saved(asset[x], q).state = asset[x].state
        BY <4>2 DEF Saved
      <4>4. QED
        BY <1>1, <2>2, <3>2, <4>3 DEF TypeOK
    <3>3. QED
      BY <3>1, <3>2
  <2>4. QED
    BY <1>1, <2>1, <2>2, <2>3, SettledOn
<1>7. ASSUME NEW r \in Request, Release(r) \/ Crash(r) PROVE Goal
  <2>1. req'[r] = NULL /\ asset' = asset /\ \A s \in Request : s # r => req'[s] = req[s]
    BY <1>1, <1>7 DEF Release, Crash, Answer, TypeOK
  <2>2. QED
    BY <1>1, <2>1, SettledKept
<1>8. ASSUME UNCHANGED <<asset, req>> PROVE Goal
  BY <1>8 DEF PurgeSettled
<1>9. QED
  BY <1>2, <1>3, <1>4, <1>5, <1>6, <1>7, <1>8
     DEF Next, Proceed, Edit, Reprocess, applyMoves, purge, Enqueue, Claim, Lapse, Fail,
         SetPhase, Watchdog, vars

\* Once nobody at work on a purged asset has read it before the purge, no result, edit,
\* reprocess or move ever makes it anything else, with any number of them in flight.
THEOREM PurgesAreFinal == Spec => PurgeIsFinal
<1> DEFINE SettledStep == \A x \in Asset : PurgeSettled(x) => PurgeSettled(x)'
<1>1. WorkflowInv /\ [Next]_vars => SettledStep
  BY PurgeStep
<1>2. QED
  BY <1>1, WorkflowInvariant, PTL DEF Spec, PurgeIsFinal

-----------------------------------------------------------------------------
\* Results on their way to the row

\* Request r will leave the facts in the row of asset x: it has yet to read the row, or
\* has read it in the present round.
Carries(r, x) ==
    /\ req[r] # NULL
    /\ req[r].asset = x
    /\ req[r].op = "submit"
    /\ "facts" \in req[r].flags
    /\ \/ req[r].step = "load"
       \/ req[r].step = "write" /\ req[r].read.version = asset[x].version

\* No job is of a round to come.
RoundsBehind(x) == \A j \in Job : j[1] = x /\ job[j] # "absent" => j[3] <= asset[x].version

\* Readings are of past rounds, or have no results that the row has not.
ReadingsBehind(x) ==
    \A r \in Request : req[r] # NULL /\ req[r].asset = x =>
        /\ req[r].read.version <= asset[x].version
        /\ req[r].read.version = asset[x].version => req[r].read.done \subseteq asset[x].done

FactsOnTheWay(x) ==
    \A j \in Job :
        j[1] = x /\ j[2] = "extract_facts" /\ j[3] = asset[x].version /\ job[j] = "completed" =>
            "facts" \in asset[x].done \/ \E r \in Request : Carries(r, x)

ResultsOf(x) == RoundsBehind(x) /\ ReadingsBehind(x) /\ FactsOnTheWay(x)

ResultsInv == \A x \in Asset \ spoilt : ResultsOf(x)

\* A step that leaves the row of asset x alone, and every request that carries facts to it.
LEMMA RowLeftAlone ==
    ASSUME TypeOK, NEW x \in Asset, ResultsOf(x), asset'[x] = asset[x],
           \A j \in Job : j[1] = x /\ job'[j] # "absent" =>
               job[j] # "absent" \/ j[3] <= asset[x].version,
           \A j \in Job : j[1] = x /\ j[2] = "extract_facts" /\ job'[j] = "completed" =>
               job[j] = "completed" \/ \E r \in Request : Carries(r, x)',
           \A r \in Request : req'[r] # NULL /\ req'[r].asset = x =>
               \/ req[r] # NULL /\ req[r].asset = x /\ req'[r].read = req[r].read
               \/ req'[r].read = asset[x],
           \A r \in Request : Carries(r, x) => Carries(r, x)'
    PROVE  ResultsOf(x)'
<1>1. asset[x] \in Row /\ asset[x].version \in Version
  BY DEF TypeOK, Row
<1>2. RoundsBehind(x)'
  BY DEF ResultsOf, RoundsBehind
<1>3. ReadingsBehind(x)'
  BY <1>1 DEF ResultsOf, ReadingsBehind, Version
<1>4. FactsOnTheWay(x)'
  BY DEF ResultsOf, FactsOnTheWay
<1>5. QED
  BY <1>2, <1>3, <1>4 DEF ResultsOf

\* A request other than a submit goes on or ends.
LEMMA OthersLeaveAlone ==
    ASSUME TypeOK, NEW x \in Asset, ResultsOf(x), NEW r \in Request, req[r] # NULL,
           req[r].asset = x => req[r].op # "submit",
           Answer(r) \/ \E step \in Step : GoTo(r, step), UNCHANGED <<asset, job>>
    PROVE  ResultsOf(x)'
<1>1. req[r] \in RequestRecord
  BY DEF TypeOK
<1>2. \A s \in Request : s # r => req'[s] = req[s]
  BY DEF Answer, GoTo, TypeOK
<1>3. \/ req'[r] = NULL
      \/ req'[r].asset = req[r].asset /\ req'[r].read = req[r].read
  <2>1. CASE Answer(r)
    BY <2>1 DEF Answer, TypeOK
  <2>2. ASSUME NEW step \in Step, GoTo(r, step)
        PROVE  req'[r].asset = req[r].asset /\ req'[r].read = req[r].read
    <3>1. req'[r] = [req[r] EXCEPT !.step = step]
      BY <2>2 DEF GoTo, TypeOK
    <3>2. QED
      BY <1>1, <3>1 DEF RequestRecord
  <2>3. QED
    BY <2>1, <2>2
<1>4. \A s \in Request : Carries(s, x) => Carries(s, x)'
  BY <1>2 DEF Carries
<1>5. QED
  BY <1>2, <1>3, <1>4, RowLeftAlone

\* What the fields of a row become by a request of each kind.
LEMMA NewFields ==
    ASSUME NEW q \in RequestRecord
    PROVE  /\ q.op = "reprocess" => NewRow(q).version = q.read.version + 1
           /\ q.op # "reprocess" => NewRow(q).version = q.read.version
                                    /\ q.read.done \subseteq NewRow(q).done
           /\ q.op = "submit" => q.flags \subseteq NewRow(q).done
<1>1. q.read \in Row /\ q.op \in Op
  BY DEF RequestRecord
<1>2. CASE q.op = "reprocess"
  BY <1>2 DEF NewRow, ReprocessedRow
<1>3. CASE q.op = "edit"
  <2>1. NewRow(q) = [q.read EXCEPT !.state = q.to]
    BY <1>3 DEF NewRow
  <2>2. QED
    BY <1>1, <1>3, <2>1 DEF Row
<1>4. CASE q.op = "move"
  <2>1. NewRow(q) = [q.read EXCEPT !.state = IF @ = "DECIDED_KEEP" THEN "ARCHIVED"
                                             ELSE "REJECTED"]
    BY <1>4 DEF NewRow
  <2>2. QED
    BY <1>1, <1>4, <2>1 DEF Row
<1>5. CASE q.op = "purge"
  <2>1. NewRow(q) = [q.read EXCEPT !.state = "PURGED"]
    BY <1>5 DEF NewRow
  <2>2. QED
    BY <1>1, <1>5, <2>1 DEF Row
<1>6. CASE q.op = "submit"
  <2>1. NewRow(q) = [q.read EXCEPT !.done = q.read.done \cup q.flags,
                                   !.state = AfterResult(@, q.read.done \cup q.flags)]
    BY <1>6 DEF NewRow
  <2>2. NewRow(q).done = q.read.done \cup q.flags /\ NewRow(q).version = q.read.version
    BY <1>1, <2>1 DEF Row
  <2>3. QED
    BY <1>6, <2>2
<1>7. QED
  BY <1>1, <1>2, <1>3, <1>4, <1>5, <1>6 DEF Op

\* A write that overwrites nobody opens a new round or adds to the flags of the row; a
\* submit's own flags are in the row after it.
LEMMA SavedAdds ==
    ASSUME NEW q \in RequestRecord, NEW row \in Row, ~Overwrites(row, q),
           q.read.version <= row.version,
           q.read.version = row.version => q.read.done \subseteq row.done
    PROVE  \/ Saved(row, q).version = row.version + 1
           \/ /\ Saved(row, q).version = row.version
              /\ row.done \subseteq Saved(row, q).done
              /\ q.op = "submit" /\ q.read.version = row.version =>
                     q.flags \subseteq Saved(row, q).done
<1>1. Saved(row, q).done = (IF FieldsChanged(q) THEN NewRow(q).done ELSE row.done)
      /\ Saved(row, q).version = (IF FieldsChanged(q) THEN NewRow(q).version ELSE row.version)
  BY DEF Saved
<1>2. CASE FieldsChanged(q)
  <2>1. q.read.done = row.done /\ q.read.version = row.version
    BY <1>2 DEF Overwrites
  <2>2. QED
    BY <1>1, <1>2, <2>1, NewFields
<1>3. CASE ~FieldsChanged(q)
  <2>1. NewRow(q).done = q.read.done
    BY <1>3 DEF FieldsChanged
  <2>2. q.op = "submit" => q.flags \subseteq q.read.done
    BY <2>1, NewFields
  <2>3. QED
    BY <1>1, <1>3, <2>2
<1>4. QED
  BY <1>2, <1>3

\* What a write leaves of the other requests, and of its own.
LEMMA WriteRequests ==
    ASSUME TypeOK, NEW r \in Request, Write(r)
    PROVE  /\ \A s \in Request : s # r => req'[s] = req[s]
           /\ \/ req'[r] = NULL
              \/ /\ req[r].op # "submit"
                 /\ req'[r].asset = req[r].asset
                 /\ req'[r].read = req[r].read
<1>1. req[r] \in RequestRecord
  BY DEF Write, At, TypeOK
<1>2. CASE Answer(r)
  BY <1>2 DEF Answer, TypeOK
<1>3. CASE req[r].op \in {"move", "purge"} /\ GoTo(r, "release")
  <2>1. req' = [req EXCEPT ![r].step = "release"]
    BY <1>3 DEF GoTo
  <2>2. req'[r] = [req[r] EXCEPT !.step = "release"] /\ \A s \in Request : s # r => req'[s] = req[s]
    BY <2>1 DEF TypeOK
  <2>3. QED
    BY <1>1, <1>3, <2>2 DEF RequestRecord
<1>4. QED
  BY <1>2, <1>3 DEF Write

LEMMA WriteKeepsResults ==
    ASSUME WorkflowInv, NEW r \in Request, Write(r), NEW x \in Asset, x \notin spoilt',
           ResultsOf(x)
    PROVE  ResultsOf(x)'
<1> USE DEF WorkflowInv
<1>1. PICK q \in RequestRecord : q = req[r]
  BY RequestTyped DEF Write, At
<1>2. /\ req[r] # NULL /\ q.step = "write" /\ q.asset \in Asset
      /\ asset' = [asset EXCEPT ![q.asset] = Saved(@, q)]
      /\ job' = job
  BY <1>1 DEF Write, At, RequestRecord
<1>3. asset'[q.asset] = Saved(asset[q.asset], q)
      /\ \A y \in Asset : y # q.asset => asset'[y] = asset[y]
  BY <1>2 DEF TypeOK
<1>4. /\ \A s \in Request : s # r => req'[s] = req[s]
      /\ \/ req'[r] = NULL
         \/ q.op # "submit" /\ req'[r].asset = q.asset /\ req'[r].read = q.read
  BY <1>1, WriteRequests
<1>5. CASE x # q.asset
  <2>1. asset'[x] = asset[x]
    BY <1>3, <1>5
  <2>2. \A s \in Request : Carries(s, x) => s # r
    BY <1>1, <1>5 DEF Carries
  <2>3. \A s \in Request : Carries(s, x) => Carries(s, x)'
    BY <1>4, <2>1, <2>2 DEF Carries
  <2>4. QED
    BY <1>1, <1>2, <1>4, <2>1, <2>3, RowLeftAlone
<1>6. CASE x = q.asset
  <2>1. ~Overwrites(asset[x], q)
    BY <1>1, <1>6 DEF Write
  <2>2. q.read.version <= asset[x].version
        /\ (q.read.version = asset[x].version => q.read.done \subseteq asset[x].done)
    BY <1>1, <1>2, <1>6 DEF ResultsOf, ReadingsBehind
  <2>3. asset[x] \in Row /\ asset[x].version \in Nat
    BY DEF TypeOK, Row, Version
  <2>4. asset'[x] = Saved(asset[x], q)
    BY <1>3, <1>6
  <2>5. \/ asset'[x].version = asset[x].version + 1
        \/ /\ asset'[x].version = asset[x].version
           /\ asset[x].done \subseteq asset'[x].done
           /\ q.op = "submit" /\ q.read.version = asset[x].version =>
                  q.flags \subseteq asset'[x].done
    BY <2>1, <2>2, <2>3, <2>4, SavedAdds
  <2>6. \A s \in Request : req'[s] # NULL /\ req'[s].asset = x =>
            req[s] # NULL /\ req[s].asset = x /\ req'[s].read = req[s].read
    BY <1>1, <1>2, <1>4, <1>6
  <2>7. \A s \in Request : req'[s] # NULL /\ req'[s].asset = x => req[s].read.version \in Nat
    BY <2>6 DEF TypeOK, RequestRecord, Row, Version
  <2>8. \A j \in Job : j[3] \in Nat
    BY DEF Job, Version
  <2>9. CASE asset'[x].version = asset[x].version + 1
    <3>1. RoundsBehind(x)' /\ FactsOnTheWay(x)'
      BY <1>2, <2>3, <2>8, <2>9 DEF ResultsOf, RoundsBehind, FactsOnTheWay
    <3>2. ReadingsBehind(x)'
      BY <2>3, <2>6, <2>7, <2>9 DEF ResultsOf, ReadingsBehind
    <3>3. QED
      BY <3>1, <3>2 DEF ResultsOf
  <2>10. CASE /\ asset'[x].version = asset[x].version
              /\ asset[x].done \subseteq asset'[x].done
              /\ q.op = "submit" /\ q.read.version = asset[x].version =>
                     q.flags \subseteq asset'[x].done
    <3>1. RoundsBehind(x)'
      BY <1>2, <2>10 DEF ResultsOf, RoundsBehind
    <3>2. ReadingsBehind(x)'
      BY <2>6, <2>10 DEF ResultsOf, ReadingsBehind
    <3>3. \A s \in Request : Carries(s, x) => Carries(s, x)' \/ "facts" \in asset'[x].done
      BY <1>1, <1>2, <1>4, <2>10 DEF Carries
    <3>4. FactsOnTheWay(x)'
      BY <1>2, <2>10, <3>3 DEF ResultsOf, FactsOnTheWay
    <3>5. QED
      BY <3>1, <3>2, <3>4 DEF ResultsOf
  <2>11. QED
    BY <2>5, <2>9, <2>10
<1>7. QED
  BY <1>5, <1>6

\* A request begins: what it reads is the row.
LEMMA BeginKeepsResults ==
    ASSUME WorkflowInv, NEW r \in Request, NEW op, NEW y, NEW to, NEW touches,
           Begin(r, op, y, to, touches), NEW x \in Asset, ResultsOf(x)
    PROVE  ResultsOf(x)'
<1>1. /\ req[r] = NULL
      /\ req'[r].asset = y /\ req'[r].read = asset[y]
      /\ \A s \in Request : s # r => req'[s] = req[s]
  BY DEF Begin, WorkflowInv, TypeOK
<1>2. asset' = asset /\ job' = job
  BY DEF Begin
<1>3. \A s \in Request : Carries(s, x) => Carries(s, x)'
  BY <1>1, <1>2 DEF Carries
<1>4. QED
  BY <1>1, <1>2, <1>3, RowLeftAlone DEF WorkflowInv

\* The result of a job is on its way from the moment the job is completed.
LEMMA SubmitKeepsResults ==
    ASSUME WorkflowInv, NEW r \in Request, NEW j \in Job, NEW flags \in SUBSET Flag,
           NEW touches \in BOOLEAN, Submit(r, j, flags, touches), NEW x \in Asset, ResultsOf(x)
    PROVE  ResultsOf(x)'
<1>1. /\ req[r] = NULL
      /\ req'[r] = [op |-> "submit", step |-> "load", asset |-> j[1], read |-> asset[j[1]],
                    to |-> asset[j[1]].state, flags |-> flags, touches |-> touches]
      /\ \A s \in Request : s # r => req'[s] = req[s]
  BY DEF Submit, WorkflowInv, TypeOK
<1>2. /\ asset' = asset
      /\ \A k \in Job : job'[k] = IF k = j THEN "completed" ELSE job[k]
      /\ job[j] = "claimed"
  BY DEF Submit, WorkflowInv, TypeOK
<1>3. \A s \in Request : Carries(s, x) => Carries(s, x)'
  BY <1>1, <1>2 DEF Carries
<1>4. j[1] = x /\ j[2] = "extract_facts" => Carries(r, x)'
  <2>1. j[2] = "extract_facts" => flags = {"facts"}
    BY DEF Submit, applyFlags
  <2>2. req'[r] # NULL
    <3>1. PICK row \in Row : row = asset[j[1]]
      BY DEF WorkflowInv, TypeOK, Job
    <3>2. req'[r] \in RequestRecord
      BY <1>1, <3>1 DEF RequestRecord, Row, Job, Op, Step
    <3>3. QED
      BY <3>2, WorkflowAssumption
  <2>3. QED
    BY <1>1, <2>1, <2>2 DEF Carries
<1>5. QED
  BY <1>1, <1>2, <1>3, <1>4, RowLeftAlone DEF WorkflowInv

\* The result of a submit that has read the row is written, or its asset is spoilt.
LEMMA LoadKeepsResults ==
    ASSUME WorkflowInv, NEW r \in Request, LoadForResult(r), NEW x \in Asset, ResultsOf(x)
    PROVE  ResultsOf(x)'
<1>1. PICK q \in RequestRecord : q = req[r]
  BY RequestTyped DEF WorkflowInv, LoadForResult, At
<1>2. /\ q.asset \in Asset
      /\ req' = [req EXCEPT ![r] = [q EXCEPT !.read = asset[q.asset], !.step = "write"]]
      /\ asset' = asset /\ job' = job
  BY <1>1 DEF LoadForResult, WorkflowInv, TypeOK, RequestRecord
<1>3. /\ \A s \in Request : s # r => req'[s] = req[s]
      /\ req'[r] = [q EXCEPT !.read = asset[q.asset], !.step = "write"]
  BY <1>2 DEF WorkflowInv, TypeOK
<1>4. PICK n : n = req'[r]
  OBVIOUS
<1>5. /\ n.asset = q.asset /\ n.op = q.op /\ n.flags = q.flags
      /\ n.read = asset[q.asset] /\ n.step = "write"
  BY <1>3, <1>4 DEF RequestRecord
<1>6. n \in RequestRecord
  <2>1. asset[q.asset] \in Row
    BY <1>2 DEF WorkflowInv, TypeOK
  <2>2. QED
    BY <1>3, <1>4, <2>1 DEF RequestRecord, Step
<1>7. \A s \in Request : Carries(s, x) => Carries(s, x)'
  BY <1>1, <1>2, <1>3, <1>4, <1>5, <1>6, WorkflowAssumption DEF Carries
<1>8. QED
  BY <1>2, <1>3, <1>4, <1>5, <1>7, RowLeftAlone DEF WorkflowInv

LEMMA CrashKeepsResults ==
    ASSUME WorkflowInv, NEW r \in Request, Crash(r), NEW x \in Asset, x \notin spoilt',
           ResultsOf(x)
    PROVE  ResultsOf(x)'
<1>1. req[r] # NULL /\ Answer(r) /\ UNCHANGED <<asset, job>>
  BY DEF Crash
<1>2. req[r].asset = x => req[r].op # "submit"
  BY DEF Crash
<1>3. QED
  BY <1>1, <1>2, OthersLeaveAlone DEF WorkflowInv

\* A step of a job other than its completion.
LEMMA JobKeepsResults ==
    ASSUME WorkflowInv, NEW j \in Job, Enqueue(j) \/ Claim(j) \/ Lapse(j) \/ Fail(j),
           NEW x \in Asset, ResultsOf(x)
    PROVE  ResultsOf(x)'
<1>1. PICK phase \in {"pending", "claimed", "failed"} : SetPhase(j, phase)
  BY DEF Enqueue, Claim, Lapse, Fail
<1>2. /\ \A k \in Job : job'[k] = IF k = j THEN phase ELSE job[k]
      /\ asset' = asset /\ req' = req
  BY <1>1 DEF SetPhase, WorkflowInv, TypeOK
<1>3. job[j] # "absent" \/ j[3] <= asset[j[1]].version
  <2>1. asset[j[1]].version \in Version /\ j[3] \in Version
    BY DEF WorkflowInv, TypeOK, Row, Job
  <2>2. QED
    BY <2>1 DEF Enqueue, Claim, Lapse, Fail, Version
<1>4. \A k \in Job : k[1] = x /\ job'[k] # "absent" =>
          job[k] # "absent" \/ k[3] <= asset[x].version
  BY <1>2, <1>3
<1>5. \A k \in Job : job'[k] = "completed" => job[k] = "completed"
  BY <1>2
<1>6. \A r \in Request : Carries(r, x) => Carries(r, x)'
  BY <1>2 DEF Carries
<1>7. QED
  BY <1>2, <1>4, <1>5, <1>6, RowLeftAlone DEF WorkflowInv

\* A request checks, locks, deletes or releases: no submit does.
LEMMA ProceedKeepsResults ==
    ASSUME WorkflowInv, NEW r \in Request,
           CheckLock(r) \/ CheckClaims(r) \/ Acquire(r) \/ Delete(r) \/ Release(r),
           NEW x \in Asset, ResultsOf(x)
    PROVE  ResultsOf(x)'
<1>1. PICK q \in RequestRecord : q = req[r] /\ RequestOK(q)
  BY RequestTyped DEF WorkflowInv, CheckLock, CheckClaims, Acquire, Delete, Release, At
<1>2. req[r] # NULL /\ q.step \notin {"load", "write"}
  BY <1>1 DEF CheckLock, CheckClaims, Acquire, Delete, Release, At
<1>3. req[r].op # "submit"
  BY <1>1, <1>2 DEF RequestOK
<1>4. UNCHANGED <<asset, job>>
  BY DEF CheckLock, CheckClaims, Acquire, Delete, Release
<1>5. Answer(r) \/ \E step \in Step : GoTo(r, step)
  BY DEF CheckLock, CheckClaims, Acquire, Delete, Release, Step
<1>6. QED
  BY <1>2, <1>3, <1>4, <1>5, OthersLeaveAlone DEF WorkflowInv

LEMMA ResultsStep ==
    ASSUME WorkflowInv, ResultsInv, [Next]_vars
    PROVE  ResultsInv'
<1> SUFFICES ASSUME NEW x \in Asset, x \notin spoilt' PROVE ResultsOf(x)'
  BY DEF ResultsInv
<1>1. spoilt \subseteq spoilt'
  BY DEF Next, Proceed, Edit, Reprocess, applyMoves, purge, Begin, LoadForResult, CheckLock,
         CheckClaims, Acquire, Delete, Write, Release, Crash, Submit, Enqueue, Claim, Lapse,
         Fail, SetPhase, Watchdog, vars
<1>2. ResultsOf(x)
  BY <1>1 DEF ResultsInv
<1>3. ASSUME NEW r \in Request, NEW y \in Asset,
             \/ \E to \in State, touches \in BOOLEAN : Edit(r, y, to, touches)
             \/ Reprocess(r, y) \/ applyMoves(r, y) \/ purge(r, y)
      PROVE  ResultsOf(x)'
  BY <1>2, <1>3, BeginKeepsResults DEF Edit, Reprocess, applyMoves, purge
<1>4. ASSUME NEW r \in Request, Proceed(r) PROVE ResultsOf(x)'
  <2>1. CASE Write(r)
    BY <1>2, <2>1, WriteKeepsResults
  <2>2. CASE LoadForResult(r)
    BY <1>2, <2>2, LoadKeepsResults
  <2>3. QED
    BY <1>2, <1>4, <2>1, <2>2, ProceedKeepsResults DEF Proceed
<1>5. ASSUME NEW r \in Request, Crash(r) PROVE ResultsOf(x)'
  BY <1>2, <1>5, CrashKeepsResults
<1>6. ASSUME NEW r \in Request, NEW j \in Job, NEW flags \in SUBSET Flag,
             NEW touches \in BOOLEAN, Submit(r, j, flags, touches)
      PROVE  ResultsOf(x)'
  BY <1>2, <1>6, SubmitKeepsResults
<1>7. ASSUME NEW j \in Job, Enqueue(j) \/ Claim(j) \/ Lapse(j) \/ Fail(j)
      PROVE  ResultsOf(x)'
  BY <1>2, <1>7, JobKeepsResults
<1>8. ASSUME UNCHANGED <<asset, job, req>> PROVE ResultsOf(x)'
  BY <1>2, <1>8 DEF ResultsOf, RoundsBehind, ReadingsBehind, FactsOnTheWay, Carries
<1>9. QED
  BY <1>3, <1>4, <1>5, <1>6, <1>7, <1>8 DEF Next, Watchdog, vars

\* Jobs that are completed at the start are of assets whose review is.
LEMMA ResultsInit == Init => ResultsInv
<1> SUFFICES ASSUME Init, NEW x \in Asset PROVE ResultsOf(x)
  BY DEF ResultsInv
<1>1. PICK state \in [Asset -> InitState] :
        /\ asset = [y \in Asset |->
              [state |-> state[y], version |-> 1,
               done |-> IF state[y] \in Reviewable THEN Review \cup InitDone ELSE InitDone]]
        /\ job = [j \in Job |-> IF j[3] # 1 THEN "absent"
                                ELSE IF state[j[1]] \in Reviewable THEN "completed"
                                ELSE "pending"]
  BY DEF Init
<1>2. asset[x].version = 1
  BY <1>1
<1>3. state[x] \in Reviewable => "facts" \in asset[x].done
  BY <1>1 DEF Review
<1>4. \A r \in Request : req[r] = NULL
  BY DEF Init
<1>5. \A j \in Job : /\ job[j] # "absent" => j[3] = 1
                     /\ job[j] = "completed" => state[j[1]] \in Reviewable
  BY <1>1
<1>6. QED
  BY <1>2, <1>3, <1>4, <1>5 DEF ResultsOf, RoundsBehind, ReadingsBehind, FactsOnTheWay

\* Of all that can go wrong between the completion of a job and the end of the requests
\* on its asset, only a submit that dies and a write over unread fields lose facts.
THEOREM ResultsKept == Spec => []ResultsAreKept
<1>1. WorkflowInv /\ ResultsInv /\ [Next]_vars => WorkflowInv' /\ ResultsInv'
  BY WorkflowStep, ResultsStep
<1>2. ResultsInv => ResultsAreKept
  BY DEF ResultsInv, ResultsOf, FactsOnTheWay, Carries, ResultsAreKept, FactsArrived
<1>3. QED
  BY <1>1, <1>2, WorkflowInit, ResultsInit, PTL DEF Spec

=============================================================================
