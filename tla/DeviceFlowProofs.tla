-------------------------- MODULE DeviceFlowProofs ---------------------------
(***************************************************************************)
(* Proofs about DeviceFlow, for any number of requests at once, of clients *)
(* and of deaths, and any interval: types, the secret that is shown once,  *)
(* clients that are not made for nothing, and denials that hold.           *)
(***************************************************************************)
EXTENDS DeviceFlow, TLAPS

-----------------------------------------------------------------------------
\* The inductive invariant

\* What a request may be carrying, by what it does next.
Shape ==
    \A s \in Slot : req[s] # NULL =>
        /\ req[s].do = "delete" =>
             req[s].op = "poll" /\ req[s].client = req[s].creds /\ req[s].client # NULL
        /\ req[s].do \in {"provision", "saveApproved"} =>
             req[s].op = "approve" /\ req[s].creds = NULL
        /\ req[s].do = "saveApproved" => req[s].client # NULL
        /\ req[s].do = "saveDenied" => req[s].op = "cancel"
        /\ req[s].do \in {"saveExpired", "savePolled", "saveDenied"} => req[s].client = NULL

\* No status leads back to PENDING: nobody has approved a pending flow before.
PendingIsBare == flow # NULL /\ flow.status = "PENDING" => flow.creds = NULL

\* Slot s is a poll that will be answered, or was, with c's secret.
Delivers(s, c) == req[s] # NULL /\ req[s].op = "poll" /\ req[s].client = c

\* Who is answered with a secret has deleted the row, and what two deliver both had read.
DeliveredOnce ==
    /\ \A c \in Client : given[c] > 0 => flow = NULL
    /\ \A s \in Slot, c \in Client : Delivers(s, c) /\ req[s].do = "answer" => flow = NULL
    /\ \A s \in Slot, c \in Client : Delivers(s, c) => req[s].do \in {"delete", "answer"}
    /\ \A c \in Client \ shared :
         /\ given[c] < 2
         /\ \A s \in Slot : Delivers(s, c) =>
              given[c] = 0 /\ \A r \in Slot : Delivers(r, c) => r = s

\* The request in whose hands alone a secret may be.
Holds(s, c) ==
    /\ req[s] # NULL
    /\ req[s].client = c
    /\ req[s].do = "saveApproved" \/ (req[s].op = "poll" /\ req[s].do = "answer")

Kept ==
    \A c \in registry \ lost :
        \/ flow # NULL /\ flow.creds = c
        \/ given[c] > 0
        \/ \E s \in Slot : Holds(s, c)

\* After a denial nobody makes a client or delivers a secret, or will find a reason to.
DeniedIsOver ==
    denied =>
        /\ flow # NULL => flow.status \in {"DENIED", "EXPIRED"}
        /\ \A s \in Slot : req[s] # NULL =>
             /\ req[s].do \notin {"provision", "saveApproved", "delete"}
             /\ req[s].op = "poll" => req[s].client = NULL

IInv == TypeOK /\ Shape /\ PendingIsBare /\ DeliveredOnce /\ Kept /\ DeniedIsOver

-----------------------------------------------------------------------------
\* What the helpers do

LEMMA BeginOK ==
    ASSUME TypeOK, NEW s \in Slot, NEW op \in {"poll", "approve", "cancel"},
           NEW do \in {"saveExpired", "savePolled", "delete", "provision", "saveApproved",
                       "saveDenied", "answer"},
           NEW client \in Client \cup {NULL}, Begin(s, op, do, client)
    PROVE  /\ flow \in Row
           /\ req[s] = NULL
           /\ req' \in [Slot -> Request \cup {NULL}]
           /\ \A r \in Slot \ {s} : req'[r] = req[r]
           /\ req'[s] # NULL
           /\ req'[s].op = op /\ req'[s].do = do /\ req'[s].client = client
           /\ req'[s].status = flow.status /\ req'[s].creds = flow.creds
<1>1. flow \in Row /\ flow # NULL /\ req[s] = NULL
  BY DEF TypeOK, Begin
<1>2. PICK new : new = [op |-> op, do |-> do, status |-> flow.status, creds |-> flow.creds,
                        age |-> 0, client |-> client]
  OBVIOUS
<1>3. /\ new \in Request
      /\ new.op = op /\ new.do = do /\ new.client = client
      /\ new.status = flow.status /\ new.creds = flow.creds
  BY <1>1, <1>2, DeviceFlowAssumption DEF Request, Row, Age
<1>4. req' = [req EXCEPT ![s] = new]
  BY <1>2 DEF Begin
<1>5. req \in [Slot -> Request \cup {NULL}]
  BY DEF TypeOK
<1>6. new # NULL
  BY <1>3, DeviceFlowAssumption
<1>7. req'[s] = new
  BY <1>4, <1>5
<1>8. QED
  BY <1>1, <1>3, <1>4, <1>5, <1>6, <1>7

LEMMA ThenOK ==
    ASSUME TypeOK, NEW s \in Slot, req[s] # NULL,
           NEW do \in {"saveExpired", "savePolled", "delete", "provision", "saveApproved",
                       "saveDenied", "answer"},
           Then(s, do)
    PROVE  /\ req[s] \in Request
           /\ req' \in [Slot -> Request \cup {NULL}]
           /\ \A r \in Slot \ {s} : req'[r] = req[r]
           /\ req'[s] # NULL
           /\ req'[s].do = do
           /\ req'[s].op = req[s].op /\ req'[s].client = req[s].client
           /\ req'[s].status = req[s].status /\ req'[s].creds = req[s].creds
<1>1. req[s] \in Request /\ req \in [Slot -> Request \cup {NULL}]
  BY DEF TypeOK
<1>2. PICK new : new = [req[s] EXCEPT !.do = do]
  OBVIOUS
<1>3. /\ new \in Request
      /\ new.do = do
      /\ new.op = req[s].op /\ new.client = req[s].client
      /\ new.status = req[s].status /\ new.creds = req[s].creds
  BY <1>1, <1>2 DEF Request
<1>4. req' = [req EXCEPT ![s] = new]
  BY <1>2 DEF Then
<1>5. new # NULL
  BY <1>3, DeviceFlowAssumption
<1>6. req'[s] = new
  BY <1>4, <1>1
<1>7. QED
  BY <1>1, <1>3, <1>4, <1>5, <1>6

LEMMA SaveStatusOK ==
    ASSUME TypeOK, NEW s \in Slot, req[s] # NULL, NEW status \in {"DENIED", "EXPIRED"},
           saveStatus(s, status)
    PROVE  /\ flow = NULL <=> flow' = NULL
           /\ flow # NULL =>
                /\ flow' \in Row
                /\ flow'.creds = flow.creds
                /\ flow'.status \in {flow.status, status}
                /\ req[s].status # status => flow'.status = status
<1>1. CASE flow = NULL
  BY <1>1 DEF saveStatus, Update
<1>2. CASE flow # NULL
  <2>1. flow \in Row
    BY <1>2 DEF TypeOK
  <2>2. PICK new : new = [flow EXCEPT !.status = IF req[s].status = status THEN @ ELSE status]
    OBVIOUS
  <2>3. flow' = new
    BY <1>2, <2>2 DEF saveStatus, Update
  <2>4. /\ new \in Row
        /\ new.creds = flow.creds
        /\ new.status = IF req[s].status = status THEN flow.status ELSE status
    BY <2>1, <2>2 DEF Row, DeviceFlowStatus
  <2>5. QED
    BY <1>2, <2>3, <2>4, DeviceFlowAssumption
<1>3. QED
  BY <1>1, <1>2

-----------------------------------------------------------------------------
\* One lemma per kind of step

LEMMA InitOK == Init => IInv
<1> SUFFICES ASSUME Init PROVE IInv
  OBVIOUS
<1>1. flow \in Row /\ flow # NULL /\ flow.creds = NULL /\ flow.status = "PENDING"
  BY DeviceFlowAssumption DEF Init, Row, DeviceFlowStatus, Age
<1>2. events \in 0..MaxEvents /\ given \in [Client -> 0..2]
  BY DeviceFlowAssumption DEF Init
<1>3. TypeOK
  BY <1>1, <1>2 DEF Init, TypeOK
<1>4. QED
  BY <1>1, <1>3 DEF Init, IInv, Shape, PendingIsBare, DeliveredOnce, Delivers, Kept,
       DeniedIsOver

\* A request has read the row, to note a poll or an expiry, to deny or to approve it.
LEMMA BegunOK ==
    ASSUME IInv, NEW s \in Slot, NEW op \in {"poll", "approve", "cancel"},
           NEW do \in {"saveExpired", "savePolled", "provision", "saveDenied"},
           Begin(s, op, do, NULL),
           do = "provision" => op = "approve" /\ flow.status = "PENDING",
           do = "saveDenied" => op = "cancel",
           UNCHANGED <<flow, expired, registry, history, events>>
    PROVE  IInv'
<1>1. /\ flow \in Row /\ flow # NULL
      /\ req[s] = NULL
      /\ req' \in [Slot -> Request \cup {NULL}]
      /\ \A r \in Slot \ {s} : req'[r] = req[r]
      /\ req'[s] # NULL
      /\ req'[s].op = op /\ req'[s].do = do /\ req'[s].client = NULL
      /\ req'[s].creds = flow.creds
  <2>1. flow # NULL
    BY DEF Begin
  <2>2. TypeOK /\ NULL \in Client \cup {NULL}
    BY DEF IInv
  <2>3. QED
    BY <2>1, <2>2, BeginOK
<1>2. UNCHANGED <<flow, expired, registry, given, shared, lost, denied, events>>
  BY DEF history
<1>3. TypeOK'
  BY <1>1, <1>2 DEF IInv, TypeOK
<1>4. Shape'
  BY <1>1 DEF IInv, Shape, PendingIsBare
<1>5. PendingIsBare'
  BY <1>2 DEF IInv, PendingIsBare
<1>6. \A r \in Slot, c \in Client : Delivers(r, c)' <=> Delivers(r, c) /\ r # s
  BY <1>1, DeviceFlowAssumption DEF Delivers
<1>7. DeliveredOnce'
  BY <1>1, <1>2, <1>6 DEF IInv, DeliveredOnce
<1>8. \A r \in Slot, c \in Client : Holds(r, c) => Holds(r, c)'
  BY <1>1 DEF Holds
<1>9. registry \subseteq Client
  BY DEF IInv, TypeOK
<1>10. Kept'
  BY <1>2, <1>8, <1>9 DEF IInv, Kept
<1>11. DeniedIsOver'
  BY <1>1, <1>2 DEF IInv, DeniedIsOver
<1>12. QED
  BY <1>3, <1>4, <1>5, <1>7, <1>10, <1>11 DEF IInv

LEMMA PollApprovedOK ==
    ASSUME IInv, NEW s \in Slot, PollApproved(s)
    PROVE  IInv'
<1>1. flow # NULL /\ flow.status = "APPROVED" /\ flow \in Row /\ flow.creds \in Client
  BY DEF PollApproved, Begin, IInv, TypeOK, Row
<1>2. /\ req[s] = NULL
      /\ req' \in [Slot -> Request \cup {NULL}]
      /\ \A r \in Slot \ {s} : req'[r] = req[r]
      /\ req'[s] # NULL
      /\ req'[s].op = "poll" /\ req'[s].do = "delete" /\ req'[s].client = flow.creds
      /\ req'[s].creds = flow.creds
  <2>1. TypeOK /\ Begin(s, "poll", "delete", flow.creds)
    BY DEF IInv, PollApproved
  <2>2. QED
    BY <1>1, <2>1, BeginOK
<1>3. UNCHANGED <<flow, expired, registry, given, lost, denied, events>>
  BY DEF PollApproved
<1>4. /\ shared' \in SUBSET Client
      /\ shared \subseteq shared'
      /\ (\E r \in Slot : Does(r, "delete")) => flow.creds \in shared'
  BY <1>1 DEF PollApproved, IInv, TypeOK
<1>5. TypeOK'
  BY <1>2, <1>3, <1>4 DEF IInv, TypeOK
<1>6. Shape'
  BY <1>1, <1>2, DeviceFlowAssumption DEF IInv, Shape
<1>7. PendingIsBare'
  BY <1>3 DEF IInv, PendingIsBare
<1>8. DeliveredOnce'
  <2>1. \A r \in Slot, c \in Client :
          Delivers(r, c)' <=> IF r = s THEN c = flow.creds ELSE Delivers(r, c)
    BY <1>2 DEF Delivers
  <2>2. \A c \in Client : given'[c] > 0 => flow' = NULL
    BY <1>3 DEF IInv, DeliveredOnce
  <2>3. \A r \in Slot, c \in Client : Delivers(r, c)' =>
          req'[r].do \in {"delete", "answer"} /\ (req'[r].do = "answer" => flow' = NULL)
    BY <1>2, <1>3, <2>1 DEF IInv, DeliveredOnce
  <2>4. ASSUME NEW c \in Client \ shared'
        PROVE  /\ given'[c] < 2
               /\ \A r \in Slot : Delivers(r, c)' =>
                    given'[c] = 0 /\ \A q \in Slot : Delivers(q, c)' => q = r
    <3>1. c \in Client \ shared
      BY <1>4
    <3>2. given[c] = 0
      BY <1>1 DEF IInv, DeliveredOnce, TypeOK
    <3>3. c = flow.creds => \A r \in Slot : ~Delivers(r, c)
      BY <1>1, <1>4 DEF IInv, DeliveredOnce, Does, Delivers
    <3>4. QED
      BY <1>3, <2>1, <3>1, <3>2, <3>3 DEF IInv, DeliveredOnce
  <2>5. QED
    BY <2>2, <2>3, <2>4 DEF DeliveredOnce
<1>9. \A r \in Slot, c \in Client : Holds(r, c) => Holds(r, c)'
  BY <1>2 DEF Holds
<1>10. registry \subseteq Client
  BY DEF IInv, TypeOK
<1>11. Kept'
  BY <1>3, <1>9, <1>10 DEF IInv, Kept
<1>12. DeniedIsOver'
  BY <1>1, <1>3 DEF IInv, DeniedIsOver
<1>13. QED
  BY <1>5, <1>6, <1>7, <1>8, <1>11, <1>12 DEF IInv

\* A request that carries no secret has written the row, if at all a status that is over.
LEMMA SavedOK ==
    ASSUME IInv, NEW s \in Slot, req[s] # NULL,
           req[s].do \in {"saveExpired", "savePolled", "saveDenied"},
           Then(s, "answer"),
           flow = NULL <=> flow' = NULL,
           flow # NULL => /\ flow' \in Row
                          /\ flow'.creds = flow.creds
                          /\ flow'.status \in {flow.status, "DENIED", "EXPIRED"},
           UNCHANGED <<expired, registry, given, shared, lost, events>>,
           denied' \in BOOLEAN,
           denied' /\ ~denied =>
             /\ Settled(s) /\ req[s].op # "poll"
             /\ flow # NULL => flow'.status = "DENIED"
    PROVE  IInv'
<1>1. /\ req' \in [Slot -> Request \cup {NULL}]
      /\ \A r \in Slot \ {s} : req'[r] = req[r]
      /\ req'[s] # NULL
      /\ req'[s].do = "answer"
      /\ req'[s].op = req[s].op /\ req'[s].client = NULL /\ req[s].client = NULL
  BY ThenOK DEF IInv, Shape
<1>2. TypeOK'
  BY <1>1 DEF IInv, TypeOK
<1>3. Shape'
  BY <1>1 DEF IInv, Shape
<1>4. PendingIsBare'
  BY DEF IInv, PendingIsBare
<1>5. \A r \in Slot, c \in Client :
        /\ Delivers(r, c)' <=> Delivers(r, c)
        /\ Delivers(r, c) => r # s
  BY <1>1, DeviceFlowAssumption DEF Delivers
<1>6. DeliveredOnce'
  BY <1>1, <1>5 DEF IInv, DeliveredOnce
<1>7. \A r \in Slot, c \in Client : Holds(r, c) => Holds(r, c)'
  BY <1>1, DeviceFlowAssumption DEF Holds
<1>8. registry \subseteq Client
  BY DEF IInv, TypeOK
<1>9. Kept'
  BY <1>7, <1>8 DEF IInv, Kept
<1>10. DeniedIsOver'
  <2>1. CASE denied
    BY <1>1, <2>1 DEF IInv, DeniedIsOver
  <2>2. CASE denied' /\ ~denied
    BY <1>1, <2>2 DEF DeniedIsOver, Settled
  <2>3. QED
    BY <2>1, <2>2 DEF DeniedIsOver
<1>11. QED
  BY <1>2, <1>3, <1>4, <1>6, <1>9, <1>10 DEF IInv

LEMMA DeleteOK ==
    ASSUME IInv, NEW s \in Slot, delete(s)
    PROVE  IInv'
<1>1. req[s] # NULL /\ req[s].do = "delete" /\ Then(s, "answer")
  BY DEF delete, Does
<1>2. /\ req[s].op = "poll" /\ req[s].client = req[s].creds /\ req[s].client # NULL
      /\ req' \in [Slot -> Request \cup {NULL}]
      /\ \A r \in Slot \ {s} : req'[r] = req[r]
      /\ req'[s] # NULL
      /\ req'[s].do = "answer"
      /\ req'[s].op = "poll" /\ req'[s].client = req[s].client
  BY <1>1, ThenOK DEF IInv, Shape
<1>3. /\ flow' = NULL
      /\ lost' = lost \cup Unread(s)
      /\ UNCHANGED <<expired, registry, given, shared, denied, events>>
  BY DEF delete
<1>4. TypeOK'
  <2>1. Unread(s) \subseteq Client
    BY DEF Unread, IInv, TypeOK, Row
  <2>2. QED
    BY <1>2, <1>3, <2>1 DEF IInv, TypeOK
<1>5. Shape'
  BY <1>2 DEF IInv, Shape
<1>6. PendingIsBare'
  BY <1>3 DEF PendingIsBare
<1>7. \A r \in Slot, c \in Client : Delivers(r, c)' <=> Delivers(r, c)
  BY <1>1, <1>2 DEF Delivers
<1>8. DeliveredOnce'
  BY <1>2, <1>3, <1>7 DEF IInv, DeliveredOnce
<1>9. Kept'
  <2>1. SUFFICES ASSUME NEW c \in registry \ lost, c \notin Unread(s)
                 PROVE  given[c] > 0 \/ \E r \in Slot : Holds(r, c)'
    BY <1>3 DEF Kept
  <2>2. c \in Client
    BY DEF IInv, TypeOK
  <2>3. CASE flow # NULL /\ flow.creds = c
    <3>1. req[s].creds = c
      BY <2>1, <2>2, <2>3, DeviceFlowAssumption DEF Unread
    <3>2. QED
      BY <1>2, <3>1 DEF Holds
  <2>4. CASE given[c] > 0
    BY <2>4
  <2>5. ASSUME NEW r \in Slot, Holds(r, c) PROVE Holds(r, c)'
    BY <1>1, <1>2, <2>5 DEF Holds
  <2>6. QED
    BY <2>3, <2>4, <2>5 DEF IInv, Kept
<1>10. DeniedIsOver'
  BY <1>1, <1>3 DEF IInv, DeniedIsOver
<1>11. QED
  BY <1>4, <1>5, <1>6, <1>8, <1>9, <1>10 DEF IInv

LEMMA ProvisionOK ==
    ASSUME IInv, NEW s \in Slot, provision(s)
    PROVE  IInv'
<1>1. req[s] # NULL /\ req[s].do = "provision" /\ req[s] \in Request
      /\ req[s].op = "approve" /\ req[s].creds = NULL
  BY DEF provision, Does, IInv, Shape, TypeOK
<1>2. PICK client \in Client \ registry :
        /\ registry' = registry \cup {client}
        /\ req' = [req EXCEPT ![s].do = "saveApproved", ![s].client = client]
  BY DEF provision
<1>3. /\ req' \in [Slot -> Request \cup {NULL}]
      /\ \A r \in Slot \ {s} : req'[r] = req[r]
      /\ req'[s] # NULL
      /\ req'[s].op = "approve" /\ req'[s].do = "saveApproved"
      /\ req'[s].client = client /\ req'[s].creds = NULL
  <2>1. PICK new : new = [req[s] EXCEPT !.do = "saveApproved", !.client = client]
    OBVIOUS
  <2>2. /\ new \in Request
        /\ new.op = "approve" /\ new.do = "saveApproved"
        /\ new.client = client /\ new.creds = NULL
    BY <1>1, <2>1 DEF Request
  <2>3. req' = [req EXCEPT ![s] = new] /\ req \in [Slot -> Request \cup {NULL}]
    BY <1>2, <2>1 DEF IInv, TypeOK
  <2>4. new # NULL /\ req'[s] = new
    BY <2>2, <2>3, DeviceFlowAssumption
  <2>5. QED
    BY <2>2, <2>3, <2>4
<1>4. UNCHANGED <<flow, expired, given, shared, lost, denied, events>>
  BY DEF provision, history
<1>5. TypeOK'
  BY <1>2, <1>3, <1>4 DEF IInv, TypeOK
<1>6. Shape'
  BY <1>3, DeviceFlowAssumption DEF IInv, Shape
<1>7. PendingIsBare'
  BY <1>4 DEF IInv, PendingIsBare
<1>8. \A r \in Slot, c \in Client : Delivers(r, c)' <=> Delivers(r, c) /\ r # s
  BY <1>1, <1>3 DEF Delivers
<1>9. DeliveredOnce'
  BY <1>3, <1>4, <1>8 DEF IInv, DeliveredOnce
<1>10. Kept'
  <2>1. \A r \in Slot, c \in Client : Holds(r, c) => Holds(r, c)'
    BY <1>1, <1>3 DEF Holds
  <2>2. Holds(s, client)'
    BY <1>3 DEF Holds
  <2>3. registry \subseteq Client
    BY DEF IInv, TypeOK
  <2>4. QED
    BY <1>2, <1>4, <2>1, <2>2, <2>3 DEF IInv, Kept
<1>11. DeniedIsOver'
  BY <1>1, <1>4 DEF IInv, DeniedIsOver
<1>12. QED
  BY <1>5, <1>6, <1>7, <1>9, <1>10, <1>11 DEF IInv

LEMMA SaveApprovedOK ==
    ASSUME IInv, NEW s \in Slot, saveApproved(s)
    PROVE  IInv'
<1>1. req[s] # NULL /\ req[s].do = "saveApproved" /\ Then(s, "answer")
  BY DEF saveApproved, Does
<1>2. /\ req[s].op = "approve" /\ req[s].creds = NULL /\ req[s].client \in Client
      /\ req' \in [Slot -> Request \cup {NULL}]
      /\ \A r \in Slot \ {s} : req'[r] = req[r]
      /\ req'[s] # NULL
      /\ req'[s].do = "answer"
      /\ req'[s].op = "approve" /\ req'[s].client = req[s].client
  BY <1>1, ThenOK DEF IInv, Shape, Request
<1>3. /\ flow = NULL => flow' = NULL
      /\ flow # NULL => /\ flow' # NULL /\ flow' \in Row
                        /\ flow'.status = "APPROVED" /\ flow'.creds = req[s].client
  <2>1. CASE flow = NULL
    BY <2>1 DEF saveApproved, Update
  <2>2. CASE flow # NULL
    <3>1. PICK new : new = [flow EXCEPT !.status = "APPROVED", !.creds = req[s].client]
      OBVIOUS
    <3>2. flow' = new /\ flow \in Row
      BY <2>2, <3>1 DEF saveApproved, Update, IInv, TypeOK
    <3>3. new \in Row /\ new.status = "APPROVED" /\ new.creds = req[s].client
      BY <1>2, <3>1, <3>2 DEF Row, DeviceFlowStatus
    <3>4. QED
      BY <2>2, <3>2, <3>3, DeviceFlowAssumption
  <2>3. QED
    BY <2>1, <2>2
<1>4. /\ lost' = lost \cup IF flow = NULL THEN {req[s].client} ELSE Unread(s)
      /\ UNCHANGED <<expired, registry, given, shared, denied, events>>
  BY DEF saveApproved
<1>5. Unread(s) \subseteq Client
  BY DEF Unread, IInv, TypeOK, Row
<1>6. TypeOK'
  <2>1. lost' \in SUBSET Client
    BY <1>2, <1>4, <1>5 DEF IInv, TypeOK
  <2>2. flow' \in Row \cup {NULL} /\ (flow' # NULL => flow'.creds # NULL)
    BY <1>2, <1>3, DeviceFlowAssumption
  <2>3. QED
    BY <1>2, <1>4, <2>1, <2>2 DEF IInv, TypeOK
<1>7. Shape'
  BY <1>2 DEF IInv, Shape
<1>8. PendingIsBare'
  BY <1>3 DEF PendingIsBare
<1>9. \A r \in Slot, c \in Client :
        /\ Delivers(r, c)' <=> Delivers(r, c)
        /\ Delivers(r, c) => r # s
  BY <1>1, <1>2 DEF Delivers
<1>10. DeliveredOnce'
  BY <1>2, <1>3, <1>4, <1>9 DEF IInv, DeliveredOnce
<1>11. Kept'
  <2>1. SUFFICES ASSUME NEW c \in registry \ lost'
                 PROVE  \/ flow' # NULL /\ flow'.creds = c
                        \/ given[c] > 0
                        \/ \E r \in Slot : Holds(r, c)'
    BY <1>4 DEF Kept
  <2>2. c \in Client /\ c \in registry \ lost
    BY <1>4 DEF IInv, TypeOK
  <2>3. CASE flow # NULL /\ flow.creds = c
    BY <1>2, <1>4, <2>1, <2>2, <2>3, DeviceFlowAssumption DEF Unread
  <2>4. CASE given[c] > 0
    BY <2>4
  <2>5. ASSUME NEW r \in Slot, Holds(r, c)
        PROVE  (flow' # NULL /\ flow'.creds = c) \/ Holds(r, c)'
    <3>1. CASE r = s
      BY <1>3, <1>4, <2>1, <2>5, <3>1 DEF Holds
    <3>2. CASE r # s
      BY <1>2, <2>5, <3>2 DEF Holds
    <3>3. QED
      BY <3>1, <3>2
  <2>6. QED
    BY <2>2, <2>3, <2>4, <2>5 DEF IInv, Kept
<1>12. DeniedIsOver'
  BY <1>1, <1>4 DEF IInv, DeniedIsOver
<1>13. QED
  BY <1>6, <1>7, <1>8, <1>10, <1>11, <1>12 DEF IInv

LEMMA AnswerOK ==
    ASSUME IInv, NEW s \in Slot, answer(s)
    PROVE  IInv'
<1>1. req[s] # NULL /\ req[s].do = "answer" /\ req[s] \in Request
  BY DEF answer, Does, IInv, TypeOK
<1>2. /\ req' \in [Slot -> Request \cup {NULL}]
      /\ req'[s] = NULL
      /\ \A r \in Slot \ {s} : req'[r] = req[r]
  BY DEF answer, IInv, TypeOK
<1>3. UNCHANGED <<flow, expired, registry, shared, lost, denied, events>>
  BY DEF answer
<1>4. /\ given' \in [Client -> 0..2]
      /\ \A c \in Client : given'[c] = IF Delivers(s, c) /\ given[c] < 2 THEN given[c] + 1
                                       ELSE given[c]
  <2>1. given \in [Client -> 0..2] /\ req[s].client \in Client \cup {NULL}
    BY <1>1 DEF IInv, TypeOK, Request
  <2>2. CASE req[s].op = "poll" /\ req[s].client # NULL /\ given[req[s].client] < 2
    <3>1. given' = [given EXCEPT ![req[s].client] = @ + 1]
      BY <2>2 DEF answer
    <3>2. QED
      BY <1>1, <2>1, <2>2, <3>1 DEF Delivers
  <2>3. CASE ~(req[s].op = "poll" /\ req[s].client # NULL /\ given[req[s].client] < 2)
    <3>1. given' = given
      BY <2>3 DEF answer
    <3>2. QED
      BY <2>1, <2>3, <3>1, DeviceFlowAssumption DEF Delivers
  <2>4. QED
    BY <2>2, <2>3
<1>5. TypeOK'
  BY <1>2, <1>3, <1>4 DEF IInv, TypeOK
<1>6. Shape'
  BY <1>2 DEF IInv, Shape
<1>7. PendingIsBare'
  BY <1>3 DEF IInv, PendingIsBare
<1>8. \A r \in Slot, c \in Client : Delivers(r, c)' <=> Delivers(r, c) /\ r # s
  BY <1>2 DEF Delivers
<1>9. DeliveredOnce'
  <2>1. given \in [Client -> 0..2]
    BY DEF IInv, TypeOK
  <2>2. \A c \in Client : given'[c] > 0 => flow = NULL
    BY <1>1, <1>4, <2>1 DEF IInv, DeliveredOnce
  <2>3. ASSUME NEW c \in Client \ shared
        PROVE  /\ given'[c] < 2
               /\ \A r \in Slot : Delivers(r, c) /\ r # s =>
                    given'[c] = 0 /\ \A q \in Slot : Delivers(q, c) /\ q # s => q = r
    BY <1>4, <2>1 DEF IInv, DeliveredOnce
  <2>4. QED
    BY <1>2, <1>3, <1>8, <2>2, <2>3 DEF IInv, DeliveredOnce
<1>10. Kept'
  <2>1. SUFFICES ASSUME NEW c \in registry \ lost
                 PROVE  \/ flow # NULL /\ flow.creds = c
                        \/ given'[c] > 0
                        \/ \E r \in Slot : Holds(r, c)'
    BY <1>3 DEF Kept
  <2>2. c \in Client /\ given[c] \in 0..2
    BY DEF IInv, TypeOK
  <2>3. CASE given[c] > 0
    BY <1>4, <2>2, <2>3
  <2>4. ASSUME NEW r \in Slot, Holds(r, c)
        PROVE  given'[c] > 0 \/ Holds(r, c)'
    <3>1. CASE r = s
      BY <1>1, <1>4, <2>2, <2>4, <3>1 DEF Holds, Delivers
    <3>2. CASE r # s
      BY <1>2, <2>4, <3>2 DEF Holds
    <3>3. QED
      BY <3>1, <3>2
  <2>5. QED
    BY <2>2, <2>3, <2>4 DEF IInv, Kept
<1>11. DeniedIsOver'
  BY <1>2, <1>3 DEF IInv, DeniedIsOver
<1>12. QED
  BY <1>5, <1>6, <1>7, <1>9, <1>10, <1>11 DEF IInv

LEMMA CrashOK ==
    ASSUME IInv, NEW s \in Slot, Crash(s)
    PROVE  IInv'
<1>1. req[s] # NULL /\ req[s] \in Request
  BY DEF Crash, IInv, TypeOK
<1>2. /\ req' \in [Slot -> Request \cup {NULL}]
      /\ req'[s] = NULL
      /\ \A r \in Slot \ {s} : req'[r] = req[r]
  BY DEF Crash, IInv, TypeOK
<1>3. UNCHANGED <<flow, expired, registry, given, shared, denied>>
  BY DEF Crash
<1>4. events' \in 0..MaxEvents
  BY DeviceFlowAssumption DEF Crash, Event, IInv, TypeOK
<1>5. /\ lost' \in SUBSET Client
      /\ lost \subseteq lost'
      /\ \A c \in Client : Holds(s, c) => c \in lost'
  BY <1>1, DeviceFlowAssumption DEF Crash, Holds, Request, IInv, TypeOK
<1>6. TypeOK'
  BY <1>2, <1>3, <1>4, <1>5 DEF IInv, TypeOK
<1>7. Shape'
  BY <1>2 DEF IInv, Shape
<1>8. PendingIsBare'
  BY <1>3 DEF IInv, PendingIsBare
<1>9. \A r \in Slot, c \in Client : Delivers(r, c)' <=> Delivers(r, c) /\ r # s
  BY <1>2 DEF Delivers
<1>10. DeliveredOnce'
  BY <1>2, <1>3, <1>9 DEF IInv, DeliveredOnce
<1>11. Kept'
  <2>1. \A r \in Slot, c \in Client : Holds(r, c) => Holds(r, c)' \/ c \in lost'
    BY <1>2, <1>5 DEF Holds
  <2>2. registry \subseteq Client
    BY DEF IInv, TypeOK
  <2>3. QED
    BY <1>3, <1>5, <2>1, <2>2 DEF IInv, Kept
<1>12. DeniedIsOver'
  BY <1>2, <1>3 DEF IInv, DeniedIsOver
<1>13. QED
  BY <1>6, <1>7, <1>8, <1>10, <1>11, <1>12 DEF IInv

\* Time makes everything older and changes nothing else.
LEMMA ElapseOK == IInv /\ Elapse => IInv'
<1> SUFFICES ASSUME IInv, Elapse PROVE IInv'
  OBVIOUS
<1>1. \A age \in Age : Older(age) \in Age
  BY DeviceFlowAssumption DEF Older, Age
<1>2. /\ flow = NULL <=> flow' = NULL
      /\ flow # NULL => /\ flow' \in Row
                        /\ flow'.status = flow.status /\ flow'.creds = flow.creds
  <2>1. CASE flow = NULL
    BY <2>1 DEF Elapse
  <2>2. CASE flow # NULL
    <3>1. PICK new : new = [flow EXCEPT !.since = Older(@)]
      OBVIOUS
    <3>2. flow' = new /\ flow \in Row
      BY <2>2, <3>1 DEF Elapse, IInv, TypeOK
    <3>3. new \in Row /\ new.status = flow.status /\ new.creds = flow.creds
      BY <1>1, <3>1, <3>2 DEF Row
    <3>4. QED
      BY <2>2, <3>2, <3>3, DeviceFlowAssumption
  <2>3. QED
    BY <2>1, <2>2
<1>3. ASSUME NEW r \in Slot
      PROVE  /\ req[r] = NULL <=> req'[r] = NULL
             /\ req[r] # NULL =>
                  /\ req'[r] \in Request
                  /\ req'[r].op = req[r].op /\ req'[r].do = req[r].do
                  /\ req'[r].creds = req[r].creds /\ req'[r].client = req[r].client
  <2>1. CASE req[r] = NULL
    BY <2>1 DEF Elapse
  <2>2. CASE req[r] # NULL
    <3>1. PICK new : new = [req[r] EXCEPT !.age = Older(@)]
      OBVIOUS
    <3>2. req'[r] = new /\ req[r] \in Request
      BY <2>2, <3>1 DEF Elapse, IInv, TypeOK
    <3>3. /\ new \in Request
          /\ new.op = req[r].op /\ new.do = req[r].do
          /\ new.creds = req[r].creds /\ new.client = req[r].client
      BY <1>1, <3>1, <3>2 DEF Request
    <3>4. QED
      BY <2>2, <3>2, <3>3, DeviceFlowAssumption
  <2>3. QED
    BY <2>1, <2>2
<1>4. UNCHANGED <<expired, registry, given, shared, lost, denied, events>>
  BY DEF Elapse, history
<1>5. TypeOK'
  <2>1. req' \in [Slot -> Request \cup {NULL}]
    <3>1. \A r \in Slot : req'[r] \in Request \cup {NULL}
      BY <1>3
    <3>2. req' = [r \in Slot |-> req'[r]]
      BY DEF Elapse
    <3>3. QED
      BY <3>1, <3>2
  <2>2. QED
    BY <1>2, <1>4, <2>1 DEF IInv, TypeOK
<1>6. Shape'
  BY <1>3 DEF IInv, Shape
<1>7. PendingIsBare'
  BY <1>2 DEF IInv, PendingIsBare
<1>8. \A r \in Slot, c \in Client :
        (Delivers(r, c)' <=> Delivers(r, c)) /\ (Holds(r, c)' <=> Holds(r, c))
  BY <1>3 DEF Delivers, Holds
<1>9. DeliveredOnce'
  BY <1>2, <1>3, <1>4, <1>8 DEF IInv, DeliveredOnce, Delivers
<1>10. registry \subseteq Client
  BY DEF IInv, TypeOK
<1>11. Kept'
  BY <1>2, <1>4, <1>8, <1>10 DEF IInv, Kept
<1>12. DeniedIsOver'
  BY <1>2, <1>3, <1>4 DEF IInv, DeniedIsOver
<1>13. QED
  BY <1>5, <1>6, <1>7, <1>9, <1>11, <1>12 DEF IInv

-----------------------------------------------------------------------------
\* Every step keeps the invariant

LEMMA NextOK == IInv /\ [Next]_vars => IInv'
<1> SUFFICES ASSUME IInv, [Next]_vars PROVE IInv'
  OBVIOUS
<1>1. CASE UNCHANGED vars
  BY <1>1 DEF vars, IInv, TypeOK, Shape, PendingIsBare, DeliveredOnce, Delivers, Kept,
       Holds, DeniedIsOver
<1>2. ASSUME NEW s \in Slot, PollExpired(s) PROVE IInv'
  BY <1>2, BegunOK DEF PollExpired
<1>3. ASSUME NEW s \in Slot, PollPending(s) PROVE IInv'
  BY <1>3, BegunOK DEF PollPending
<1>4. ASSUME NEW s \in Slot, Approve(s) PROVE IInv'
  <2>1. CASE expired
    BY <1>4, <2>1, BegunOK DEF Approve
  <2>2. CASE ~expired
    BY <1>4, <2>2, BegunOK DEF Approve
  <2>3. QED
    BY <2>1, <2>2
<1>5. ASSUME NEW s \in Slot, Cancel(s) PROVE IInv'
  BY <1>5, BegunOK DEF Cancel
<1>6. ASSUME NEW s \in Slot, saveExpired(s) PROVE IInv'
  <2>1. /\ req[s] # NULL /\ req[s].do = "saveExpired"
        /\ saveStatus(s, "EXPIRED") /\ Then(s, "answer")
        /\ UNCHANGED <<expired, registry, given, shared, lost, denied, events>>
    BY <1>6 DEF saveExpired, Does, history
  <2>2. TypeOK
    BY DEF IInv
  <2>3. /\ flow = NULL <=> flow' = NULL
        /\ flow # NULL => /\ flow' \in Row
                          /\ flow'.creds = flow.creds
                          /\ flow'.status \in {flow.status, "DENIED", "EXPIRED"}
    BY <2>1, <2>2, SaveStatusOK
  <2>4. denied' \in BOOLEAN
    BY <2>1, <2>2 DEF TypeOK
  <2>5. QED
    BY <2>1, <2>3, <2>4, SavedOK
<1>7. ASSUME NEW s \in Slot, savePolled(s) PROVE IInv'
  <2>1. /\ req[s] # NULL /\ req[s].do = "savePolled" /\ Then(s, "answer")
        /\ UNCHANGED <<expired, registry, given, shared, lost, denied, events>>
    BY <1>7 DEF savePolled, Does, history
  <2>2. /\ flow = NULL <=> flow' = NULL
        /\ flow # NULL => /\ flow' \in Row
                          /\ flow'.creds = flow.creds
                          /\ flow'.status \in {flow.status, "DENIED", "EXPIRED"}
    <3>1. CASE flow = NULL
      BY <1>7, <3>1 DEF savePolled, Update
    <3>2. CASE flow # NULL
      <4>1. PICK new : new = [flow EXCEPT !.since = req[s].age]
        OBVIOUS
      <4>2. flow' = new /\ flow \in Row /\ req[s].age \in Age
        BY <1>7, <2>1, <3>2, <4>1 DEF savePolled, Update, IInv, TypeOK, Request
      <4>3. new \in Row /\ new.creds = flow.creds /\ new.status = flow.status
        BY <4>1, <4>2 DEF Row
      <4>4. QED
        BY <3>2, <4>2, <4>3, DeviceFlowAssumption
    <3>3. QED
      BY <3>1, <3>2
  <2>3. denied' \in BOOLEAN
    BY <2>1 DEF IInv, TypeOK
  <2>4. QED
    BY <2>1, <2>2, <2>3, SavedOK
<1>8. ASSUME NEW s \in Slot, saveDenied(s) PROVE IInv'
  <2>1. /\ req[s] # NULL /\ req[s].do = "saveDenied" /\ req[s].op = "cancel"
        /\ saveStatus(s, "DENIED") /\ Then(s, "answer")
        /\ UNCHANGED <<expired, registry, given, shared, lost, events>>
        /\ denied' = (denied \/ (Settled(s) /\ req[s].status # "DENIED"))
    BY <1>8 DEF saveDenied, Does, IInv, Shape
  <2>2. TypeOK
    BY DEF IInv
  <2>3. /\ flow = NULL <=> flow' = NULL
        /\ flow # NULL => /\ flow' \in Row
                          /\ flow'.creds = flow.creds
                          /\ flow'.status \in {flow.status, "DENIED", "EXPIRED"}
                          /\ req[s].status # "DENIED" => flow'.status = "DENIED"
    BY <2>1, <2>2, SaveStatusOK
  <2>4. denied' \in BOOLEAN
    BY <2>1, <2>2 DEF TypeOK
  <2>5. denied' /\ ~denied =>
          /\ Settled(s) /\ req[s].op # "poll"
          /\ flow # NULL => flow'.status = "DENIED"
    BY <2>1, <2>3
  <2>6. QED
    BY <2>1, <2>3, <2>4, <2>5, SavedOK
<1>9. ASSUME Expire PROVE IInv'
  BY <1>9 DEF Expire, history, IInv, TypeOK, Shape, PendingIsBare, DeliveredOnce, Delivers,
       Kept, Holds, DeniedIsOver
<1>10. QED
  BY <1>1, <1>2, <1>3, <1>4, <1>5, <1>6, <1>7, <1>8, <1>9, PollApprovedOK, DeleteOK,
     ProvisionOK, SaveApprovedOK, AnswerOK, CrashOK, ElapseOK
  DEF Next, Poll, Step

LEMMA Invariance == Spec => []IInv
<1>1. QED
  BY InitOK, NextOK, PTL DEF Spec

-----------------------------------------------------------------------------
\* The theorems

\* Types, with chk_auth_device_flow_approved_status: whatever two requests write over each
\* other, an approved row names a client and its secret.
THEOREM TypeCorrect == Spec => []TypeOK
<1>1. IInv => TypeOK
  BY DEF IInv
<1>2. QED
  BY <1>1, Invariance, PTL

\* pollDeviceFlow answers with a secret once, but to polls that read the approved flow
\* before either of them had deleted it.
THEOREM SecretIsShownOnce == Spec => []OneShotSecret
<1>1. IInv => OneShotSecret
  BY DEF IInv, TypeOK, DeliveredOnce, OneShotSecret
<1>2. QED
  BY <1>1, Invariance, PTL

\* The secret of a client that approveDeviceFlow provisions is lost in no other way than
\* those the history variable notes.
THEOREM ClientsAreNotOrphaned == Spec => []NoOrphanClients
<1>1. IInv => NoOrphanClients
  BY DEF IInv, Kept, Holds, NoOrphanClients
<1>2. QED
  BY <1>1, Invariance, PTL

\* After a cancel that nobody crossed no client is provisioned and no secret given.
THEOREM DenialsHold == Spec => DenialHolds
<1>1. IInv /\ [Next]_vars => [denied => given' = given /\ registry' = registry]_vars
  <2> SUFFICES ASSUME IInv, Next, denied
               PROVE  given' = given /\ registry' = registry
    OBVIOUS
  <2>1. \A s \in Slot : ~provision(s)
    BY DEF IInv, DeniedIsOver, provision, Does
  <2>2. \A s \in Slot : answer(s) => UNCHANGED <<given, registry>>
    BY DEF IInv, DeniedIsOver, answer, Does
  <2>3. QED
    BY <2>1, <2>2 DEF Next, Poll, Step, PollExpired, PollPending, PollApproved, Approve, Cancel,
         saveExpired, savePolled, delete, saveApproved, saveDenied, Crash, Elapse, Expire,
         history
<1>2. QED
  BY <1>1, Invariance, PTL DEF Spec, DenialHolds
=============================================================================
