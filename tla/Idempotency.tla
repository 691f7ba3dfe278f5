----------------------------- MODULE Idempotency -----------------------------
(***************************************************************************)
(* What an Idempotency-Key and an If-Match header are worth.               *)
(*                                                                         *)
(* IdempotencyService looks the key up, runs the handler if there is no    *)
(* entry, inserts one with the answer, and only then answers.  The three   *)
(* statements commit one by one: requests with one key overlap, and a      *)
(* process may die between the handler's write and the entry.  Reprocess   *)
(* looks at If-Match before any of this (as purge does), and the ETag is   *)
(* made of a time in seconds.                                              *)
(***************************************************************************)
EXTENDS Naturals, FiniteSets

CONSTANTS
    Key,          \* a key together with actor, method and path, which scope it
    Target,       \* the jobs and assets the requests are about
    TargetOf,     \* the target of each key: it is part of the path
    TooLong,      \* keys that do not fit into idempotency_key, VARCHAR(128)
    Body,         \* request bodies
    First,        \* the body that a key is used with first
    Slot,         \* PHP processes
    NULL,         \* no request, no entry
    MaxTime,      \* bound: seconds
    MaxVersion,   \* bound: the version from which on nobody asks for a reprocess
    MaxEvents     \* bound: crashes, lost replies, mistaken retries, changes and locks by others

VARIABLES
    kind,         \* what each target is; never changes
    row,          \* the job or asset of each target
    entry,        \* idempotency_entry
    req,          \* requests under way
    clock,        \* the time in seconds
    sent,         \* history: the bodies sent with each key
    told,         \* history: bodies and handler's answers that reached a client, by key
    effects,      \* history: how often a request of each key took effect
    torn,         \* history: keys of which a process died between effect and entry
    overlapped,   \* history: keys of which two requests found no entry
    spent,        \* history: tags with which a request of each key took effect in a
                  \* later second than the tag's
    events        \* how many events of MaxEvents have happened

vars == <<kind, row, entry, req, clock, sent, told, effects, torn, overlapped, spent, events>>

-----------------------------------------------------------------------------
\* Types

Answer == {"done", "refused"}

\* open: the job is claimed with the token of the bodies, or the asset is in a state
\* that can go to READY.  version counts effects, updated is updated_at.
Row == [open: BOOLEAN, version: Nat, updated: 0..MaxTime]

\* A job just claimed, an asset just reviewed; also the record of a request that has
\* loaded nothing yet.
NewRow == [open |-> TRUE, version |-> 0, updated |-> 0]

Entry == [body: Body, answer: Answer]

\* read is the entity as the precondition loaded it.
RequestRecord ==
    [key: Key, body: Body, match: 0..MaxTime, read: Row, answer: Answer,
     step: {"precondition", "lookup", "run", "write", "insert", "answer"}]

ASSUME IdempotencyAssumption ==
    /\ TargetOf \in [Key -> Target]
    /\ TooLong \subseteq Key
    /\ First \in Body
    /\ NULL \notin Entry /\ NULL \notin RequestRecord
    /\ MaxTime \in Nat /\ MaxVersion \in Nat /\ MaxEvents \in Nat

TypeOK ==
    /\ kind \in [Target -> {"job", "asset"}]
    /\ row \in [Target -> Row]
    /\ entry \in [Key -> Entry \cup {NULL}]
    /\ req \in [Slot -> RequestRecord \cup {NULL}]
    /\ clock \in 0..MaxTime
    /\ sent \in [Key -> SUBSET Body]
    /\ told \in [Key -> SUBSET Entry]
    /\ effects \in [Key -> Nat]
    /\ torn \in SUBSET Key
    /\ overlapped \in SUBSET Key
    /\ spent \in [Key -> SUBSET (0..MaxTime)]
    /\ events \in 0..MaxEvents

Init ==
    /\ kind \in [Target -> {"job", "asset"}]
    /\ row = [t \in Target |-> NewRow]
    /\ entry = [k \in Key |-> NULL]
    /\ req = [s \in Slot |-> NULL]
    /\ clock = 0
    /\ sent = [k \in Key |-> {}]
    /\ told = [k \in Key |-> {}]
    /\ effects = [k \in Key |-> 0]
    /\ torn = {}
    /\ overlapped = {}
    /\ spent = [k \in Key |-> {}]
    /\ events = 0

-----------------------------------------------------------------------------
\* Helpers

At(s, step) == req[s] # NULL /\ req[s].step = step

Free(s) == req' = [req EXCEPT ![s] = NULL]

GoTo(s, step) == req' = [req EXCEPT ![s].step = step]

\* The outcome is known; nothing else of the request matters from here.
Outcome(s, step, answer) ==
    req' = [req EXCEPT ![s] = [@ EXCEPT !.step = step, !.answer = answer,
                                        !.match = 0, !.read = NewRow]]

TargetAt(s) == TargetOf[req[s].key]

\* The keys of reprocess requests: with If-Match, and repeatable.  The others are those
\* of submit and fail.
Guarded == {k \in Key : kind[TargetOf[k]] = "asset"}

Event == events < MaxEvents /\ events' = events + 1

\* Past the lookup, without an answer from it.
Running(s) == req[s] # NULL /\ req[s].step \in {"run", "write", "insert"}

RunningKey(k) == \E s \in Slot : Running(s) /\ req[s].key = k

history == <<sent, told, effects, torn, overlapped, spent>>

-----------------------------------------------------------------------------
\* A request

\* The first request with a key, or a retry: of the same body or, by mistake, of
\* another one; with the tag of the first time or a newer one.
Send(s, k, body, match) ==
    /\ req[s] = NULL
    /\ sent[k] = {} => body = First
    /\ IF k \in Guarded THEN row[TargetOf[k]].version < MaxVersion ELSE match = 0
    /\ req' = [req EXCEPT ![s] =
          [key |-> k, body |-> body, match |-> match, read |-> NewRow,
           answer |-> "refused",
           step |-> IF k \in Guarded THEN "precondition" ELSE "lookup"]]
    /\ sent' = [sent EXCEPT ![k] = @ \cup {body}]
    /\ IF sent[k] \subseteq {body} THEN UNCHANGED events ELSE Event
    /\ UNCHANGED <<kind, row, entry, clock, told, effects, torn, overlapped, spent>>

\* Mutant: the tag is not compared.
violationResponse_Off(s) ==
    /\ At(s, "precondition")
    /\ req' = [req EXCEPT ![s].step = "lookup", ![s].read = row[TargetAt(s)]]
    /\ UNCHANGED <<kind, row, entry, clock, history, events>>

\* AssetRequestPreconditionService: 412 unless the tag is the row's.  The entity that is
\* loaded here is the one the handler finds in the identity map.
violationResponse(s) ==
    /\ At(s, "precondition")
    /\ IF req[s].match = row[TargetAt(s)].updated
       THEN req' = [req EXCEPT ![s].step = "lookup", ![s].read = row[TargetAt(s)]]
       ELSE Free(s)
    /\ UNCHANGED <<kind, row, entry, clock, history, events>>

\* Mutant: a stored answer is only used for an equal body, another body runs.
Lookup_ByBody(s) ==
    /\ At(s, "lookup")
    /\ LET e == entry[req[s].key] IN
       IF e = NULL \/ e.body # req[s].body
       THEN /\ GoTo(s, "run")
            /\ overlapped' = IF RunningKey(req[s].key) THEN overlapped \cup {req[s].key}
                             ELSE overlapped
       ELSE /\ Outcome(s, "answer", e.answer)
            /\ UNCHANGED overlapped
    /\ UNCHANGED <<kind, row, entry, clock, sent, told, effects, torn, spent, events>>

\* Mutant: a refusal is not taken for an answer, and the handler runs again.
Lookup_DoneOnly(s) ==
    /\ At(s, "lookup")
    /\ LET e == entry[req[s].key] IN
       IF e = NULL \/ e.answer = "refused"
       THEN GoTo(s, "run")
       ELSE IF e.body = req[s].body THEN Outcome(s, "answer", e.answer) ELSE Free(s)
    /\ UNCHANGED <<kind, row, entry, clock, history, events>>

\* The SELECT: the stored answer, 409 for another body, or on to the handler.
Lookup(s) ==
    /\ At(s, "lookup")
    /\ LET k == req[s].key
           e == entry[k]
       IN
       \/ /\ e = NULL
          /\ GoTo(s, "run")
          /\ overlapped' = IF RunningKey(k) THEN overlapped \cup {k} ELSE overlapped
       \/ /\ e # NULL
          /\ IF e.body = req[s].body
             THEN Outcome(s, "answer", e.answer)
             ELSE Free(s)
          /\ UNCHANGED overlapped
    /\ UNCHANGED <<kind, row, entry, clock, sent, told, effects, torn, spent, events>>

\* The handler's write, by the request in s.
TakeEffect(s, newRow) ==
    /\ row' = [row EXCEPT ![TargetAt(s)] = newRow]
    /\ effects' = [effects EXCEPT ![req[s].key] = @ + 1]
    /\ spent' = [spent EXCEPT ![req[s].key] =
          IF req[s].match < clock THEN @ \cup {req[s].match} ELSE @]
    /\ Outcome(s, "insert", "done")

\* Mutant: the UPDATE does not ask whether the lease still runs.
Report_Lapsed(s) ==
    /\ At(s, "run")
    /\ req[s].key \notin Guarded
    /\ IF row[TargetAt(s)].version = 0
       THEN TakeEffect(s, [open |-> FALSE, version |-> 1, updated |-> clock])
       ELSE Outcome(s, "insert", "refused") /\ UNCHANGED <<row, effects, spent>>
    /\ UNCHANGED <<kind, entry, clock, sent, told, torn, overlapped, events>>

\* The handler of submit and fail: one conditional UPDATE ...
Report(s) ==
    /\ At(s, "run")
    /\ req[s].key \notin Guarded
    /\ IF row[TargetAt(s)].open
       THEN TakeEffect(s, [open |-> FALSE, version |-> row[TargetAt(s)].version + 1,
                           updated |-> clock])
       ELSE Outcome(s, "insert", "refused") /\ UNCHANGED <<row, effects, spent>>
    /\ UNCHANGED <<kind, entry, clock, sent, told, torn, overlapped, events>>

\* ... and that of reprocess: it decides on the entity it has, and on whether an
\* operation lock is active, ...
Reprocess(s) ==
    /\ At(s, "run")
    /\ req[s].key \in Guarded
    /\ \/ /\ req[s].read.open
          /\ GoTo(s, "write")
          /\ UNCHANGED events
       \/ /\ Outcome(s, "insert", "refused")
          /\ IF req[s].read.open THEN Event ELSE UNCHANGED events
    /\ UNCHANGED <<kind, row, entry, clock, history>>

\* ... and writes it whatever the row holds by then.  READY can go to READY again.
Save(s) ==
    /\ At(s, "write")
    /\ TakeEffect(s, [open |-> TRUE, version |-> req[s].read.version + 1, updated |-> clock])
    /\ UNCHANGED <<kind, entry, clock, sent, told, torn, overlapped, events>>

\* Mutant: the entry is replaced (an upsert).
Insert_Upsert(s) ==
    /\ At(s, "insert")
    /\ entry' = [entry EXCEPT ![req[s].key] =
          [body |-> req[s].body, answer |-> req[s].answer]]
    /\ GoTo(s, "answer")
    /\ UNCHANGED <<kind, row, clock, history, events>>

\* The INSERT.  A unique violation, or a key that does not fit, throws: 500.
Insert(s) ==
    /\ At(s, "insert")
    /\ LET k == req[s].key IN
       IF entry[k] = NULL /\ k \notin TooLong
       THEN /\ entry' = [entry EXCEPT ![k] = [body |-> req[s].body, answer |-> req[s].answer]]
            /\ GoTo(s, "answer")
       ELSE Free(s) /\ UNCHANGED entry
    /\ UNCHANGED <<kind, row, clock, history, events>>

\* The answer arrives ...
Respond(s) ==
    /\ At(s, "answer")
    /\ told' = [told EXCEPT ![req[s].key] =
          @ \cup {[body |-> req[s].body, answer |-> req[s].answer]}]
    /\ Free(s)
    /\ UNCHANGED <<kind, row, entry, clock, sent, effects, torn, overlapped, spent, events>>

\* ... or it is lost, or the process dies before.
Crash(s) ==
    /\ req[s] # NULL
    /\ Event
    /\ torn' = IF At(s, "insert") /\ req[s].answer = "done" THEN torn \cup {req[s].key} ELSE torn
    /\ Free(s)
    /\ UNCHANGED <<kind, row, entry, clock, sent, told, effects, overlapped, spent>>

\* Somebody else writes the row: a lease runs out, an asset is edited.
Change(t) ==
    /\ Event
    /\ \E open \in BOOLEAN :
          /\ open => row[t].open \/ kind[t] = "asset"
          /\ row' = [row EXCEPT ![t].open = open, ![t].updated = clock]
    /\ UNCHANGED <<kind, entry, req, clock, history>>

Tick ==
    /\ clock < MaxTime
    /\ clock' = clock + 1
    /\ UNCHANGED <<kind, row, entry, req, history, events>>

-----------------------------------------------------------------------------
execute(s) ==
    violationResponse(s) \/ Lookup(s) \/ Report(s) \/ Reprocess(s) \/ Save(s)
        \/ Insert(s) \/ Respond(s)

Next ==
    \/ \E s \in Slot : execute(s) \/ Crash(s)
    \/ \E s \in Slot, k \in Key, body \in Body, match \in 0..clock : Send(s, k, body, match)
    \/ \E t \in Target : Change(t)
    \/ Tick

\* A client sends again what it has no answer to; the server serves.
Retry(k) ==
    /\ told[k] = {}
    /\ \A s \in Slot : req[s] # NULL => req[s].key # k
    /\ \E s \in Slot, body \in sent[k] : Send(s, k, body, 0)

Fairness ==
    /\ \A s \in Slot : WF_vars(execute(s))
    /\ \A k \in Key \ TooLong : SF_vars(Retry(k))

Spec == Init /\ [][Next]_vars /\ Fairness

-----------------------------------------------------------------------------
\* Properties

\* Whatever overlaps, dies or is sent again: all answers that the handler's outcome
\* ever gave to requests of one key are one and the same, and were given to one body.
OneAnswer ==
    \A k \in Key : \A e \in told[k] : e = entry[k]

\* The requests of a key take effect once at most, and a client that is told
\* "refused" can rely on it that none did - unless two requests both found no entry,
\* or a process died between effect and entry, or the key does not fit its column and
\* never gets an entry.  In the first two cases the refusal of the second request is
\* what every retry is told.
OnceAndTruthful ==
    \A k \in Key \ (torn \cup overlapped \cup TooLong) :
        /\ effects[k] <= 1
        /\ \A e \in told[k] : e.answer = "refused" => effects[k] = 0

\* A job from its claim on, as ExclusiveWork sees it: the lease its token is of is the
\* attempt under way, until a report takes effect.  Assets are no work.
Unreported(t) == kind[t] = "job" /\ row[t].version = 0
Reported(t) == kind[t] = "job" /\ row[t].version > 0

Work == INSTANCE ExclusiveWork WITH
    Job <- Target, Agent <- Target, Attempt <- Target \X {1},
    phase <- [t \in Target |-> IF Unreported(t) THEN "claimed"
                               ELSE IF Reported(t) THEN "completed" ELSE "absent"],
    holder <- [t \in Target |-> IF Unreported(t) THEN t ELSE NULL],
    attempt <- [t \in Target |-> IF Unreported(t) THEN <<t, 1>> ELSE NULL],
    lapsed <- {t \in Target : Unreported(t) /\ ~row[t].open},
    issued <- Target \X {1},
    result <- [t \in Target |-> IF Reported(t) THEN <<t, row[t].version>> ELSE NULL]

\* All that requests with any keys, retries of them, deaths and lost answers do to a
\* claimed job amounts to steps of ExclusiveWork: one report, by the attempt whose lease
\* has not lapsed.  So what JobLease shows of reports that come once holds of reports
\* that are sent again.
ReportsAreWork == [][Work!Next]_(Work!vars)

\* A reprocess that is sent again with the tag of the first time has no second effect,
\* whether or not its entry was lost with a process: the tag it carries was used up.
\* The exceptions are a retry that read the row before the first one wrote it, and an
\* effect in the very second the tag was made of, which leaves the tag as it was.
TagsGuard ==
    \A s \in Slot :
        At(s, "write") /\ req[s].match \in spent[req[s].key] => req[s].read # row[TargetAt(s)]

\* Who sends a job report again and again under one key is answered, whatever is lost,
\* if all sent with that key has one body.
RetriesAreAnswered ==
    \A k \in Key \ TooLong :
        k \notin Guarded /\ sent[k] # {} ~> told[k] # {} \/ Cardinality(sent[k]) > 1
=============================================================================
