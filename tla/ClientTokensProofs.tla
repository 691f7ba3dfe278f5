------------------------- MODULE ClientTokensProofs --------------------------
(***************************************************************************)
(* Proofs about ClientTokens, for any clients, fingerprints, challenges    *)
(* and requests at once, and any number of rotations and deaths: types,    *)
(* tokens of old secrets, tokens per challenge and unique fingerprints.    *)
(***************************************************************************)
EXTENDS ClientTokens, TLAPS

-----------------------------------------------------------------------------
\* The inductive invariant

Minting == {"useChallenge", "findToken", "updateToken", "insertToken"}
Seeking == {"register", "rotateKey"}

\* What a request is about, by what it does next.
ShapeOf(r) ==
    /\ r.do \in Minting => r.client \in Client
    /\ r.do = "useChallenge" => r.challenge # NULL
    /\ r.do \notin Minting => r.challenge = NULL
    /\ r.do \in {"saveSecret", "deleteToken"} => r.client \in Agent /\ r.cred \in Secret
    /\ r.do \in Seeking => r.cred \in Fingerprint
    /\ r.do = "rotateKey" => r.client \in Mcp

Shape == \A s \in Slot : req[s] # NULL => ShapeOf(req[s])

Deletes(a) == \E s \in Slot : Does(s, "deleteToken") /\ req[s].client = a

\* What holds of a token holds of those that are on their way.
Secrets ==
    \A a \in Agent \ died :
        /\ token[a] # NULL /\ token[a].cred # cred[a] => token[a].late \/ Deletes(a)
        /\ \A s \in Slot : Mints(req[s], a) /\ req[s].cred # cred[a] =>
             req[s].late \/ Deletes(a)

Carries(s, h) == req[s] # NULL /\ req[s].challenge = h

\* A challenge that was used, or is being used up, is taken by nobody else.
Challenges ==
    /\ \A h \in Challenge : challenge[h] # NULL \/ minted[h] > 0 => h \in issued
    /\ \A h \in Challenge : minted[h] > 0 => challenge[h] = NULL \/ challenge[h].used
    /\ \A s \in Slot, h \in Challenge : Carries(s, h) =>
         /\ h \in issued
         /\ req[s].do # "useChallenge" => challenge[h] = NULL \/ challenge[h].used
    /\ \A h \in Challenge \ shared :
         /\ minted[h] < 2
         /\ \A s \in Slot : Carries(s, h) =>
              minted[h] = 0 /\ \A r \in Slot : Carries(r, h) => r = s

Seeks(s, f) == req[s] # NULL /\ req[s].do \in Seeking /\ req[s].cred = f

\* A fingerprint belongs to one client, or to one request that will save it.
Keys ==
    \A f \in Fingerprint \ raced :
        /\ \A m, n \in Mcp : cred[m] = f /\ cred[n] = f => m = n
        /\ \A s \in Slot : Seeks(s, f) =>
             (\A m \in Mcp : cred[m] # f) /\ \A r \in Slot : Seeks(r, f) => r = s

IInv == TypeOK /\ Shape /\ Secrets /\ Challenges /\ Keys

LEMMA InitOK == Init => IInv
<1> SUFFICES ASSUME Init PROVE IInv
  OBVIOUS
<1>1. 0 \in Secret /\ 0 \in Cred
  BY ClientTokensAssumption DEF Secret, Cred
<1>2. /\ cred \in [Client -> Cred \cup {NULL}]
      /\ \A a \in Agent : cred[a] = 0
      /\ \A m \in Mcp : cred[m] = NULL
  BY <1>1, ClientTokensAssumption DEF Init, Client
<1>3. /\ token \in [Client -> Token \cup {NULL}] /\ req \in [Slot -> Request \cup {NULL}]
      /\ challenge \in [Challenge -> ChallengeRow \cup {NULL}]
      /\ secrets \in [Agent -> Secret] /\ minted \in [Challenge -> 0..2]
      /\ events \in 0..MaxEvents
  BY <1>1, ClientTokensAssumption DEF Init
<1>4. TypeOK
  BY <1>1, <1>2, <1>3 DEF Init, TypeOK
<1>5. Shape /\ Secrets /\ Challenges
  BY DEF Init, Shape, Secrets, Client, Mints, Challenges, Carries
<1>6. Keys
  BY <1>2, ClientTokensAssumption DEF Init, Keys, Seeks, Cred
<1>7. QED
  BY <1>4, <1>5, <1>6 DEF IInv

-----------------------------------------------------------------------------
\* What the helpers do

Steps == Minting \cup Seeking \cup {"saveSecret", "deleteToken"}

LEMMA BeginFields ==
    ASSUME TypeOK, NEW s \in Slot, NEW do \in Steps, NEW client \in Client \cup {NULL},
           NEW c \in Cred, NEW h \in Challenge \cup {NULL}, Begin(s, do, client, c, h)
    PROVE  /\ req[s] = NULL
           /\ req' \in [Slot -> Request \cup {NULL}]
           /\ \A r \in Slot \ {s} : req'[r] = req[r]
           /\ req'[s] # NULL
           /\ req'[s].do = do /\ req'[s].client = client /\ req'[s].cred = c
           /\ req'[s].challenge = h /\ ~req'[s].late
<1>1. PICK new : new = [do |-> do, client |-> client, cred |-> c, challenge |-> h, late |-> FALSE]
  OBVIOUS
<1>2. /\ new \in Request
      /\ new.do = do /\ new.client = client /\ new.cred = c /\ new.challenge = h /\ ~new.late
  BY <1>1 DEF Request, Steps, Minting, Seeking
<1>3. req' = [req EXCEPT ![s] = new] /\ req[s] = NULL /\ req \in [Slot -> Request \cup {NULL}]
  BY <1>1 DEF Begin, TypeOK
<1>4. req'[s] = new /\ new # NULL
  BY <1>2, <1>3, ClientTokensAssumption
<1>5. QED
  BY <1>2, <1>3, <1>4

LEMMA ThenFields ==
    ASSUME TypeOK, NEW s \in Slot, req[s] # NULL, NEW do \in Steps, Then(s, do)
    PROVE  /\ req[s] \in Request
           /\ req' \in [Slot -> Request \cup {NULL}]
           /\ \A r \in Slot \ {s} : req'[r] = req[r]
           /\ req'[s] # NULL
           /\ req'[s].do = do /\ req'[s].client = req[s].client /\ req'[s].cred = req[s].cred
           /\ req'[s].challenge = req[s].challenge /\ req'[s].late = req[s].late
<1>1. req[s] \in Request /\ req \in [Slot -> Request \cup {NULL}]
  BY DEF TypeOK
<1>2. PICK new : new = [req[s] EXCEPT !.do = do]
  OBVIOUS
<1>3. /\ new \in Request
      /\ new.do = do /\ new.client = req[s].client /\ new.cred = req[s].cred
      /\ new.challenge = req[s].challenge /\ new.late = req[s].late
  BY <1>1, <1>2 DEF Request, Steps, Minting, Seeking
<1>4. req' = [req EXCEPT ![s] = new]
  BY <1>2 DEF Then
<1>5. req'[s] = new /\ new # NULL
  BY <1>1, <1>3, <1>4, ClientTokensAssumption
<1>6. QED
  BY <1>1, <1>3, <1>4, <1>5

LEMMA DoneFields ==
    ASSUME TypeOK, NEW s \in Slot, Done(s)
    PROVE  /\ req' \in [Slot -> Request \cup {NULL}]
           /\ \A r \in Slot \ {s} : req'[r] = req[r]
           /\ req'[s] = NULL
  BY DEF TypeOK, Done

LEMMA LateFields ==
    ASSUME NEW rs \in [Slot -> Request \cup {NULL}], NEW c \in Client
    PROVE  /\ Late(rs, c) \in [Slot -> Request \cup {NULL}]
           /\ \A s \in Slot :
                /\ rs[s] = NULL <=> Late(rs, c)[s] = NULL
                /\ rs[s] # NULL =>
                     /\ Late(rs, c)[s].do = rs[s].do /\ Late(rs, c)[s].client = rs[s].client
                     /\ Late(rs, c)[s].cred = rs[s].cred
                     /\ Late(rs, c)[s].challenge = rs[s].challenge
                     /\ rs[s].late => Late(rs, c)[s].late
                     /\ Mints(rs[s], c) => Late(rs, c)[s].late
<1>1. ASSUME NEW s \in Slot
      PROVE  /\ Late(rs, c)[s] \in Request \cup {NULL}
             /\ rs[s] = NULL <=> Late(rs, c)[s] = NULL
             /\ rs[s] # NULL =>
                  /\ Late(rs, c)[s].do = rs[s].do /\ Late(rs, c)[s].client = rs[s].client
                  /\ Late(rs, c)[s].cred = rs[s].cred
                  /\ Late(rs, c)[s].challenge = rs[s].challenge
                  /\ rs[s].late => Late(rs, c)[s].late
                  /\ Mints(rs[s], c) => Late(rs, c)[s].late
  <2>1. CASE ~Mints(rs[s], c)
    BY <2>1 DEF Late
  <2>2. CASE Mints(rs[s], c)
    <3>1. PICK new : new = [rs[s] EXCEPT !.late = TRUE]
      OBVIOUS
    <3>2. Late(rs, c)[s] = new /\ rs[s] \in Request
      BY <2>2, <3>1 DEF Late, Mints
    <3>3. /\ new \in Request
          /\ new.do = rs[s].do /\ new.client = rs[s].client /\ new.cred = rs[s].cred
          /\ new.challenge = rs[s].challenge /\ new.late
      BY <3>1, <3>2 DEF Request
    <3>4. QED
      BY <3>2, <3>3, ClientTokensAssumption
  <2>3. QED
    BY <2>1, <2>2
<1>2. Late(rs, c) = [s \in Slot |-> Late(rs, c)[s]]
  BY DEF Late
<1>3. QED
  BY <1>1, <1>2

\* The request in s begins, moves on or ends, and no row is written.
LEMMA MoveOK ==
    ASSUME IInv, NEW s \in Slot,
           UNCHANGED <<cred, token, challenge, issued, minted>>,
           secrets' \in [Agent -> Secret], events' \in 0..MaxEvents,
           shared \subseteq shared', shared' \in SUBSET Challenge,
           raced \subseteq raced', raced' \in SUBSET Fingerprint,
           died \subseteq died', died' \in SUBSET Agent,
           req' \in [Slot -> Request \cup {NULL}],
           \A r \in Slot \ {s} : req'[r] = req[r],
           req'[s] # NULL => ShapeOf(req'[s]),
           Does(s, "deleteToken") => req[s].client \in died',
           \A a \in Agent : Mints(req'[s], a) =>
             \/ req'[s].cred = cred[a]
             \/ Mints(req[s], a) /\ req'[s].cred = req[s].cred /\ req'[s].late = req[s].late,
           \A h \in Challenge : Carries(s, h)' =>
             \/ Carries(s, h) /\ req[s].do # "useChallenge"
             \/ /\ req'[s].do = "useChallenge"
                /\ challenge[h] # NULL /\ ~challenge[h].used
                /\ (\E r \in Slot : Carries(r, h) /\ req[r].do = "useChallenge") => h \in shared',
           \A f \in Fingerprint : Seeks(s, f)' =>
             /\ \A m \in Mcp : cred[m] # f
             /\ (\E r \in Slot : Seeks(r, f)) => f \in raced'
    PROVE  IInv'
<1>1. TypeOK'
  BY DEF IInv, TypeOK
<1>2. Shape'
  BY DEF IInv, Shape
<1>3. Secrets'
  <2>1. SUFFICES ASSUME NEW a \in Agent \ died'
                 PROVE  /\ token[a] # NULL /\ token[a].cred # cred[a] =>
                             token[a].late \/ Deletes(a)'
                        /\ \A r \in Slot : Mints(req'[r], a) /\ req'[r].cred # cred[a] =>
                             req'[r].late \/ Deletes(a)'
    BY DEF Secrets
  <2>2. Deletes(a) => Deletes(a)'
    BY <2>1 DEF Deletes, Does
  <2>3. QED
    BY <2>1, <2>2 DEF IInv, Secrets
<1>4. Challenges'
  <2>1. \A r \in Slot \ {s}, h \in Challenge : Carries(r, h)' <=> Carries(r, h)
    BY DEF Carries
  <2>2. \A h \in Challenge : minted[h] > 0 => challenge[h] = NULL \/ challenge[h].used
    BY DEF IInv, Challenges
  <2>3. ASSUME NEW r \in Slot, NEW h \in Challenge, Carries(r, h)'
        PROVE  /\ h \in issued
               /\ req'[r].do # "useChallenge" => challenge[h] = NULL \/ challenge[h].used
    BY <2>1, <2>3 DEF IInv, Challenges
  <2>4. ASSUME NEW h \in Challenge \ shared'
        PROVE  /\ minted[h] < 2
               /\ \A r \in Slot : Carries(r, h)' =>
                    minted[h] = 0 /\ \A q \in Slot : Carries(q, h)' => q = r
    <3>1. /\ minted[h] < 2
          /\ \A r \in Slot : Carries(r, h) =>
               minted[h] = 0 /\ \A q \in Slot : Carries(q, h) => q = r
      BY <2>4 DEF IInv, Challenges
    <3>2. CASE ~Carries(s, h)'
      BY <2>1, <3>1, <3>2
    <3>3. CASE Carries(s, h)' /\ Carries(s, h)
      BY <2>1, <3>1, <3>3
    <3>4. CASE Carries(s, h)' /\ ~Carries(s, h)
      <4>1. /\ challenge[h] # NULL /\ ~challenge[h].used
            /\ ~\E r \in Slot : Carries(r, h) /\ req[r].do = "useChallenge"
        BY <2>4, <3>4
      <4>2. \A r \in Slot : ~Carries(r, h)
        BY <4>1 DEF IInv, Challenges
      <4>3. minted[h] = 0
        BY <2>2, <4>1 DEF IInv, TypeOK
      <4>4. QED
        BY <2>1, <3>1, <4>2, <4>3
    <3>5. QED
      BY <3>2, <3>3, <3>4
  <2>5. QED
    BY <2>2, <2>3, <2>4 DEF IInv, Challenges
<1>5. Keys'
  <2>1. \A r \in Slot \ {s}, f \in Fingerprint : Seeks(r, f)' <=> Seeks(r, f)
    BY DEF Seeks
  <2>2. QED
    BY <2>1 DEF IInv, Keys
<1>6. QED
  BY <1>1, <1>2, <1>3, <1>4, <1>5 DEF IInv

-----------------------------------------------------------------------------
\* Tokens

\* What MoveOK asks of the bounds and histories, where they do not change.
LEMMA HistoryFacts ==
    TypeOK => /\ secrets \in [Agent -> Secret] /\ events \in 0..MaxEvents
              /\ shared \in SUBSET Challenge /\ raced \in SUBSET Fingerprint
              /\ died \in SUBSET Agent
  BY DEF TypeOK

LEMMA MintOK == ASSUME IInv, NEW s \in Slot, NEW a \in Agent, Mint(s, a) PROVE IInv'
<1>1. TypeOK /\ cred[a] \in Secret /\ cred[a] \in Cred /\ a \in Client
  BY DEF IInv, TypeOK, Cred, Client
<1>2. /\ req[s] = NULL
      /\ req' \in [Slot -> Request \cup {NULL}]
      /\ \A r \in Slot \ {s} : req'[r] = req[r]
      /\ req'[s] # NULL
      /\ req'[s].do = "findToken" /\ req'[s].client = a /\ req'[s].cred = cred[a]
      /\ req'[s].challenge = NULL
  BY <1>1, BeginFields DEF Mint, Steps, Minting
<1>3. UNCHANGED <<cred, token, challenge, issued, secrets, minted, shared, raced, died, events>>
  BY DEF Mint, history
<1>4. ShapeOf(req'[s])
  BY <1>1, <1>2 DEF ShapeOf, Minting, Seeking
<1>5. \A b \in Agent : Mints(req'[s], b) => req'[s].cred = cred[b]
  BY <1>2 DEF Mints
<1>6. /\ \A h \in Challenge : ~Carries(s, h)'
      /\ \A f \in Fingerprint : ~Seeks(s, f)'
      /\ ~Does(s, "deleteToken")
  BY <1>2, ClientTokensAssumption DEF Carries, Seeks, Seeking, Does
<1>7. QED
  BY <1>1, <1>2, <1>3, <1>4, <1>5, <1>6, HistoryFacts, MoveOK

LEMMA FindTokenOK == ASSUME IInv, NEW s \in Slot, findToken(s) PROVE IInv'
<1>1. TypeOK /\ req[s] # NULL /\ req[s].do = "findToken" /\ ShapeOf(req[s])
  BY DEF findToken, Does, IInv, Shape
<1>2. /\ req' \in [Slot -> Request \cup {NULL}]
      /\ \A r \in Slot \ {s} : req'[r] = req[r]
      /\ req'[s] # NULL
      /\ req'[s].do \in {"insertToken", "updateToken"}
      /\ req'[s].client = req[s].client /\ req'[s].cred = req[s].cred
      /\ req'[s].challenge = req[s].challenge /\ req'[s].late = req[s].late
  BY <1>1, ThenFields DEF findToken, Steps, Minting
<1>3. UNCHANGED <<cred, token, challenge, issued, secrets, minted, shared, raced, died, events>>
  BY DEF findToken, history
<1>4. ShapeOf(req'[s])
  BY <1>1, <1>2 DEF ShapeOf, Minting, Seeking
<1>5. \A b \in Agent : Mints(req'[s], b) => Mints(req[s], b)
  BY <1>1, <1>2 DEF Mints
<1>6. \A h \in Challenge : Carries(s, h)' => Carries(s, h)
  BY <1>1, <1>2 DEF Carries
<1>7. /\ \A f \in Fingerprint : ~Seeks(s, f)'
      /\ ~Does(s, "deleteToken")
  BY <1>1, <1>2 DEF Seeks, Seeking, Does
<1>8. QED
  BY <1>1, <1>2, <1>3, <1>4, <1>5, <1>6, <1>7, HistoryFacts, MoveOK

\* A token is saved, or not, and the request in s is done.
LEMMA TokenOK ==
    ASSUME IInv, NEW s \in Slot, req[s] # NULL, req[s].do \in {"updateToken", "insertToken"},
           \/ token' = [token EXCEPT ![req[s].client] = NewToken(s)]
           \/ token' = token
           \/ token' = [token EXCEPT ![req[s].client] = NULL],
           Answered(s) \/ UNCHANGED minted,
           Done(s),
           UNCHANGED <<cred, challenge, issued, secrets, shared, raced, died, events>>
    PROVE  IInv'
<1> DEFINE c == req[s].client
           h0 == req[s].challenge
<1>1. /\ req[s] \in Request /\ c \in Client /\ h0 \in Challenge \cup {NULL}
      /\ req[s].cred \in Cred /\ req[s].late \in BOOLEAN
  BY DEF IInv, TypeOK, Shape, ShapeOf, Minting, Request
<1>2. /\ req' \in [Slot -> Request \cup {NULL}]
      /\ \A r \in Slot \ {s} : req'[r] = req[r]
      /\ req'[s] = NULL
  BY DoneFields DEF IInv
<1>3. NewToken(s) \in Token /\ NewToken(s).cred = req[s].cred /\ NewToken(s).late = req[s].late
  BY <1>1 DEF NewToken, Token
<1>4. /\ token' \in [Client -> Token \cup {NULL}]
      /\ \A d \in Client : token'[d] \in {token[d], NULL} \/ (d = c /\ token'[d] = NewToken(s))
  BY <1>1, <1>3 DEF IInv, TypeOK
<1>5. /\ minted' \in [Challenge -> 0..2]
      /\ \A h \in Challenge :
           minted'[h] = minted[h] \/ (h = h0 /\ minted'[h] = minted[h] + 1)
  <2>1. minted \in [Challenge -> 0..2]
    BY DEF IInv, TypeOK
  <2>2. CASE UNCHANGED minted
    BY <2>1, <2>2
  <2>3. CASE Answered(s)
    <3>1. CASE h0 # NULL /\ minted[h0] < 2
      <4>1. minted' = [minted EXCEPT ![h0] = @ + 1] /\ h0 \in Challenge
        BY <1>1, <2>3, <3>1 DEF Answered
      <4>2. QED
        BY <2>1, <3>1, <4>1
    <3>2. CASE ~(h0 # NULL /\ minted[h0] < 2)
      BY <2>1, <2>3, <3>2 DEF Answered
    <3>3. QED
      BY <3>1, <3>2
  <2>4. QED
    BY <2>2, <2>3
<1> HIDE DEF c, h0
<1>6. TypeOK'
  BY <1>2, <1>4, <1>5 DEF IInv, TypeOK
<1>7. Shape'
  BY <1>2 DEF IInv, Shape
<1>8. Secrets'
  <2>1. SUFFICES ASSUME NEW a \in Agent \ died
                 PROVE  /\ token'[a] # NULL /\ token'[a].cred # cred[a] =>
                             token'[a].late \/ Deletes(a)'
                        /\ \A r \in Slot : Mints(req'[r], a) /\ req'[r].cred # cred[a] =>
                             req'[r].late \/ Deletes(a)'
    BY DEF Secrets
  <2>2. Deletes(a) => Deletes(a)'
    BY <1>2 DEF Deletes, Does
  <2>3. a = c => Mints(req[s], a)
    BY DEF Mints, c
  <2>4. a \in Client
    BY DEF Client
  <2>5. token'[a] # NULL /\ token'[a].cred # cred[a] => token'[a].late \/ Deletes(a)
    BY <1>3, <1>4, <2>3, <2>4 DEF IInv, Secrets
  <2>6. \A r \in Slot : Mints(req'[r], a) => req'[r] = req[r] /\ r # s
    BY <1>2 DEF Mints
  <2>7. QED
    BY <2>2, <2>5, <2>6 DEF IInv, Secrets
<1>9. Challenges'
  <2>1. \A r \in Slot, h \in Challenge : Carries(r, h)' <=> Carries(r, h) /\ r # s
    BY <1>2 DEF Carries
  <2>2. \A h \in Challenge : h = h0 => Carries(s, h)
    BY DEF Carries, h0
  <2>3. \A h \in Challenge :
          minted'[h] > 0 => h \in issued /\ (challenge[h] = NULL \/ challenge[h].used)
    BY <1>5, <2>2 DEF IInv, Challenges
  <2>4. ASSUME NEW h \in Challenge \ shared
        PROVE  /\ minted'[h] < 2
               /\ \A r \in Slot : Carries(r, h) /\ r # s =>
                    minted'[h] = 0 /\ \A q \in Slot : Carries(q, h) /\ q # s => q = r
    BY <1>5, <2>2 DEF IInv, Challenges, TypeOK
  <2>5. QED
    BY <1>2, <2>1, <2>3, <2>4 DEF IInv, Challenges
<1>10. Keys'
  <2>1. \A r \in Slot, f \in Fingerprint : Seeks(r, f)' => Seeks(r, f)
    BY <1>2 DEF Seeks
  <2>2. QED
    BY <2>1 DEF IInv, Keys
<1>11. QED
  BY <1>6, <1>7, <1>8, <1>9, <1>10 DEF IInv

LEMMA UpdateTokenOK == ASSUME IInv, NEW s \in Slot, updateToken(s) PROVE IInv'
<1>1. /\ req[s] # NULL /\ req[s].do = "updateToken" /\ Answered(s) /\ Done(s)
      /\ UNCHANGED <<cred, challenge, issued, secrets, shared, raced, died, events>>
      /\ token' = [token EXCEPT ![req[s].client] =
                     IF token[req[s].client] = NULL THEN NULL ELSE NewToken(s)]
  BY DEF updateToken, Does
<1>2. CASE token[req[s].client] = NULL
  BY <1>1, <1>2, TokenOK
<1>3. CASE token[req[s].client] # NULL
  BY <1>1, <1>3, TokenOK
<1>4. QED
  BY <1>2, <1>3

LEMMA InsertTokenOK == ASSUME IInv, NEW s \in Slot, insertToken(s) PROVE IInv'
  BY TokenOK DEF insertToken, Does

\* The token of client c is deleted, and the requests that are to save one come late.
LEMMA CutOK ==
    ASSUME IInv, NEW c \in Client, NEW rs \in [Slot -> Request \cup {NULL}],
           \A s \in Slot : rs[s] # req[s] =>
             rs[s] = NULL /\ req[s] # NULL /\ req[s].do = "deleteToken" /\ req[s].client = c,
           token' = [token EXCEPT ![c] = NULL],
           req' = Late(rs, c),
           UNCHANGED <<cred, challenge, history>>
    PROVE  IInv'
<1>1. /\ token' \in [Client -> Token \cup {NULL}]
      /\ token'[c] = NULL
      /\ \A d \in Client \ {c} : token'[d] = token[d]
  BY DEF IInv, TypeOK
<1>2. UNCHANGED <<issued, secrets, minted, shared, raced, died, events>>
  BY DEF history
<1>3. /\ req' \in [Slot -> Request \cup {NULL}]
      /\ \A s \in Slot : req'[s] # NULL =>
           /\ req[s] # NULL
           /\ req'[s].do = req[s].do /\ req'[s].client = req[s].client
           /\ req'[s].cred = req[s].cred /\ req'[s].challenge = req[s].challenge
           /\ req[s].late => req'[s].late
           /\ Mints(req[s], c) => req'[s].late
  BY LateFields
<1>4. TypeOK'
  BY <1>1, <1>2, <1>3 DEF IInv, TypeOK
<1>5. Shape'
  BY <1>3 DEF IInv, Shape, ShapeOf
<1>6. Secrets'
  <2>1. SUFFICES ASSUME NEW a \in Agent \ died
                 PROVE  /\ token'[a] # NULL /\ token'[a].cred # cred[a] =>
                             token'[a].late \/ Deletes(a)'
                        /\ \A s \in Slot : Mints(req'[s], a) /\ req'[s].cred # cred[a] =>
                             req'[s].late \/ Deletes(a)'
    BY <1>2 DEF Secrets
  <2>2. a \in Client /\ \A s \in Slot : Mints(req'[s], a) => Mints(req[s], a)
    BY <1>3 DEF Client, Mints
  <2>3. CASE a = c
    BY <1>1, <1>3, <2>2, <2>3 DEF Mints
  <2>4. CASE a # c
    <3>1. Deletes(a) => Deletes(a)'
      <4>1. SUFFICES ASSUME NEW s \in Slot, Does(s, "deleteToken"), req[s].client = a
                     PROVE  Does(s, "deleteToken")' /\ req'[s].client = a
        BY DEF Deletes
      <4>2. rs[s] = req[s] /\ req[s] # NULL
        BY <2>4, <4>1 DEF Does
      <4>3. QED
        BY <4>1, <4>2, LateFields DEF Does
    <3>2. token'[a] = token[a]
      BY <1>1, <2>2, <2>4
    <3>3. QED
      BY <1>3, <2>1, <2>2, <3>1, <3>2 DEF IInv, Secrets, Mints
  <2>5. QED
    BY <2>3, <2>4
<1>7. Challenges'
  <2>1. \A s \in Slot, h \in Challenge : Carries(s, h)' => Carries(s, h)
    BY <1>3 DEF Carries
  <2>2. \A s \in Slot, h \in Challenge : Carries(s, h)' => req'[s].do = req[s].do
    BY <1>3 DEF Carries
  <2>3. QED
    BY <1>2, <2>1, <2>2 DEF IInv, Challenges
<1>8. Keys'
  <2>1. \A s \in Slot, f \in Fingerprint : Seeks(s, f)' => Seeks(s, f)
    BY <1>3 DEF Seeks
  <2>2. QED
    BY <1>2, <2>1 DEF IInv, Keys
<1>9. QED
  BY <1>4, <1>5, <1>6, <1>7, <1>8 DEF IInv

LEMMA DeleteTokenOK == ASSUME IInv, NEW s \in Slot, deleteToken(s) PROVE IInv'
<1>1. /\ req[s] # NULL /\ req[s].do = "deleteToken" /\ req[s].client \in Client
      /\ req \in [Slot -> Request \cup {NULL}]
  BY DEF deleteToken, Does, IInv, Shape, ShapeOf, TypeOK, Client
<1>2. PICK rs : rs = [req EXCEPT ![s] = NULL]
  OBVIOUS
<1>3. rs \in [Slot -> Request \cup {NULL}] /\ rs[s] = NULL /\ \A r \in Slot \ {s} : rs[r] = req[r]
  BY <1>1, <1>2
<1>4. /\ token' = [token EXCEPT ![req[s].client] = NULL]
      /\ req' = Late(rs, req[s].client)
      /\ UNCHANGED <<cred, challenge, history>>
  BY <1>2 DEF deleteToken
<1>5. PICK c \in Client : c = req[s].client
  BY <1>1
<1>6. \A r \in Slot : rs[r] # req[r] =>
        rs[r] = NULL /\ req[r] # NULL /\ req[r].do = "deleteToken" /\ req[r].client = c
  BY <1>1, <1>3, <1>5
<1>7. token' = [token EXCEPT ![c] = NULL] /\ req' = Late(rs, c)
      /\ UNCHANGED <<cred, challenge, history>>
  BY <1>4, <1>5
<1>8. QED
  BY <1>3, <1>6, <1>7, CutOK

LEMMA RevokeOK == ASSUME IInv, NEW c \in Client, Revoke(c) PROVE IInv'
  BY CutOK DEF Revoke, IInv, TypeOK

LEMMA RotateOK == ASSUME IInv, NEW s \in Slot, NEW a \in Agent, Rotate(s, a) PROVE IInv'
<1>1. TypeOK /\ a \in Client /\ secrets[a] + 1 \in Secret /\ secrets[a] + 1 \in Cred
  BY ClientTokensAssumption DEF IInv, TypeOK, Client, Rotate, Secret, Cred
<1>2. /\ req[s] = NULL
      /\ req' \in [Slot -> Request \cup {NULL}]
      /\ \A r \in Slot \ {s} : req'[r] = req[r]
      /\ req'[s] # NULL
      /\ req'[s].do = "saveSecret" /\ req'[s].client = a /\ req'[s].cred = secrets[a] + 1
      /\ req'[s].challenge = NULL
  BY <1>1, BeginFields DEF Rotate, Steps
<1>3. /\ UNCHANGED <<cred, token, challenge, issued, minted, shared, raced, died, events>>
      /\ secrets' \in [Agent -> Secret]
  BY <1>1 DEF Rotate, TypeOK
<1>4. ShapeOf(req'[s])
  BY <1>1, <1>2 DEF ShapeOf, Minting, Seeking
<1>5. /\ \A b \in Agent : ~Mints(req'[s], b)
      /\ \A h \in Challenge : ~Carries(s, h)'
      /\ \A f \in Fingerprint : ~Seeks(s, f)'
      /\ ~Does(s, "deleteToken")
  BY <1>2, ClientTokensAssumption DEF Mints, Carries, Seeks, Seeking, Does
<1>6. QED
  BY <1>1, <1>2, <1>3, <1>4, <1>5, HistoryFacts, MoveOK

LEMMA SaveSecretOK == ASSUME IInv, NEW s \in Slot, saveSecret(s) PROVE IInv'
<1> DEFINE a0 == req[s].client
<1>1. /\ req[s] # NULL /\ req[s].do = "saveSecret" /\ a0 \in Agent /\ req[s].cred \in Secret
      /\ req[s].challenge = NULL
  BY DEF saveSecret, Does, IInv, Shape, ShapeOf, Minting
<1>2. /\ req' \in [Slot -> Request \cup {NULL}]
      /\ \A r \in Slot \ {s} : req'[r] = req[r]
      /\ req'[s] # NULL
      /\ req'[s].do = "deleteToken"
      /\ req'[s].client = a0 /\ req'[s].cred = req[s].cred /\ req'[s].challenge = NULL
  BY <1>1, ThenFields DEF saveSecret, Steps, IInv
<1>3. UNCHANGED <<token, challenge, issued, secrets, minted, shared, raced, died, events>>
  BY DEF saveSecret, history
<1>4. /\ cred' \in [Client -> Cred \cup {NULL}]
      /\ cred'[a0] \in Secret
      /\ \A c \in Client \ {a0} : cred'[c] = cred[c]
  BY <1>1 DEF saveSecret, IInv, TypeOK, Cred, Client
<1> HIDE DEF a0
<1>5. /\ \A a \in Agent : cred'[a] \in Secret
      /\ \A m \in Mcp : cred'[m] = cred[m]
  BY <1>1, <1>4, ClientTokensAssumption DEF IInv, TypeOK, Client
<1>6. TypeOK'
  BY <1>2, <1>3, <1>4, <1>5 DEF IInv, TypeOK
<1>7. Shape'
  BY <1>1, <1>2 DEF IInv, Shape, ShapeOf, Minting, Seeking
<1>8. Secrets'
  <2>1. ASSUME NEW a \in Agent \ died
        PROVE  /\ token[a] # NULL /\ token[a].cred # cred'[a] => token[a].late \/ Deletes(a)'
               /\ \A r \in Slot : Mints(req'[r], a) /\ req'[r].cred # cred'[a] =>
                    req'[r].late \/ Deletes(a)'
    <3>1. CASE a = a0
      BY <1>2, <3>1 DEF Deletes, Does
    <3>2. CASE a # a0
      <4>1. cred'[a] = cred[a]
        BY <1>4, <3>2 DEF Client
      <4>2. Deletes(a) => Deletes(a)'
        BY <1>1, <1>2 DEF Deletes, Does
      <4>3. \A r \in Slot : Mints(req'[r], a) => r # s /\ req'[r] = req[r]
        BY <1>2 DEF Mints
      <4>4. QED
        BY <4>1, <4>2, <4>3 DEF IInv, Secrets
    <3>3. QED
      BY <3>1, <3>2
  <2>2. QED
    BY <1>3, <2>1 DEF Secrets
<1>9. Challenges'
  <2>1. \A r \in Slot, h \in Challenge : Carries(r, h)' => Carries(r, h) /\ req'[r] = req[r]
    BY <1>2, ClientTokensAssumption DEF Carries
  <2>2. QED
    BY <1>3, <2>1 DEF IInv, Challenges
<1>10. Keys'
  <2>1. \A r \in Slot, f \in Fingerprint : Seeks(r, f)' => Seeks(r, f)
    BY <1>2 DEF Seeks, Seeking
  <2>2. QED
    BY <1>3, <1>5, <2>1 DEF IInv, Keys
<1>11. QED
  BY <1>6, <1>7, <1>8, <1>9, <1>10 DEF IInv

-----------------------------------------------------------------------------
\* Fingerprints

\* A place for fingerprint f was looked for, and there is none in the table.
LEMMA SeekOK ==
    ASSUME IInv, NEW s \in Slot, NEW f \in Fingerprint, NEW do \in Seeking,
           NEW client \in Mcp \cup {NULL}, do = "rotateKey" => client \in Mcp,
           \A m \in Mcp : cred[m] # f,
           Begin(s, do, client, f, NULL),
           Racing(f),
           UNCHANGED <<cred, token, challenge, issued, secrets, minted, shared, died, events>>
    PROVE  IInv'
<1>1. TypeOK /\ f \in Cred /\ client \in Client \cup {NULL} /\ do \in Steps
  BY DEF IInv, Cred, Client, Steps
<1>2. /\ req[s] = NULL
      /\ req' \in [Slot -> Request \cup {NULL}]
      /\ \A r \in Slot \ {s} : req'[r] = req[r]
      /\ req'[s] # NULL
      /\ req'[s].do = do /\ req'[s].client = client /\ req'[s].cred = f
      /\ req'[s].challenge = NULL
  BY <1>1, BeginFields
<1>3. /\ raced \subseteq raced' /\ raced' \in SUBSET Fingerprint
      /\ (\E r \in Slot : Seeks(r, f)) => f \in raced'
  BY <1>1 DEF Racing, Seeks, Seeking, TypeOK
<1>4. ShapeOf(req'[s])
  BY <1>2 DEF ShapeOf, Minting, Seeking
<1>5. /\ \A b \in Agent : ~Mints(req'[s], b)
      /\ \A h \in Challenge : ~Carries(s, h)'
      /\ \A g \in Fingerprint : Seeks(s, g)' => g = f
      /\ ~Does(s, "deleteToken")
  BY <1>2, ClientTokensAssumption DEF Mints, Carries, Seeks, Seeking, Does
<1>6. QED
  BY <1>1, <1>2, <1>3, <1>4, <1>5, HistoryFacts, MoveOK

LEMMA RegisterOK == ASSUME IInv, NEW s \in Slot, NEW f \in Fingerprint, Register(s, f) PROVE IInv'
  BY SeekOK DEF Register, Seeking

LEMMA RotateKeyOK ==
    ASSUME IInv, NEW s \in Slot, NEW m \in Mcp, NEW f \in Fingerprint, RotateKey(s, m, f)
    PROVE  IInv'
  BY SeekOK DEF RotateKey, Seeking

\* The fingerprint is saved for the client it was found free for.
LEMMA KeySavedOK ==
    ASSUME IInv, NEW s \in Slot, NEW m \in Mcp, req[s] # NULL, req[s].do \in Seeking,
           cred' = [cred EXCEPT ![m] = req[s].cred],
           Done(s),
           UNCHANGED <<token, challenge, history>>
    PROVE  IInv'
<1> DEFINE f0 == req[s].cred
<1>1. f0 \in Fingerprint /\ Seeks(s, f0)
  BY DEF IInv, Shape, ShapeOf, Seeks
<1>2. /\ req' \in [Slot -> Request \cup {NULL}]
      /\ \A r \in Slot \ {s} : req'[r] = req[r]
      /\ req'[s] = NULL
  BY DoneFields DEF IInv
<1>3. /\ cred' \in [Client -> Cred \cup {NULL}]
      /\ cred'[m] = f0
      /\ \A c \in Client \ {m} : cred'[c] = cred[c]
  BY <1>1 DEF IInv, TypeOK, Cred, Client
<1> HIDE DEF f0
<1>4. /\ \A a \in Agent : cred'[a] = cred[a]
      /\ \A n \in Mcp \ {m} : cred'[n] = cred[n]
  BY <1>3, ClientTokensAssumption DEF Client
<1>5. UNCHANGED <<issued, secrets, minted, shared, raced, died, events>>
  BY DEF history
<1>6. TypeOK'
  BY <1>1, <1>2, <1>3, <1>4, <1>5 DEF IInv, TypeOK
<1>7. Shape'
  BY <1>2 DEF IInv, Shape
<1>8. Secrets'
  <2>1. \A a \in Agent : Deletes(a) => Deletes(a)'
    BY <1>2 DEF Deletes, Does, Seeking
  <2>2. \A r \in Slot, a \in Agent : Mints(req'[r], a) => req'[r] = req[r]
    BY <1>2 DEF Mints
  <2>3. QED
    BY <1>4, <1>5, <2>1, <2>2 DEF IInv, Secrets
<1>9. Challenges'
  <2>1. \A r \in Slot, h \in Challenge : Carries(r, h)' => Carries(r, h) /\ req'[r] = req[r]
    BY <1>2 DEF Carries
  <2>2. QED
    BY <1>5, <2>1 DEF IInv, Challenges
<1>10. Keys'
  <2>1. \A r \in Slot, f \in Fingerprint : Seeks(r, f)' => Seeks(r, f) /\ r # s
    BY <1>2 DEF Seeks
  <2>2. ASSUME NEW f \in Fingerprint \ raced
        PROVE  /\ \A n, p \in Mcp : cred'[n] = f /\ cred'[p] = f => n = p
               /\ \A r \in Slot : Seeks(r, f) /\ r # s =>
                    (\A n \in Mcp : cred'[n] # f)
                      /\ \A q \in Slot : Seeks(q, f) /\ q # s => q = r
    <3>1. CASE f = f0
      BY <1>1, <1>3, <1>4, <2>2, <3>1 DEF IInv, Keys
    <3>2. CASE f # f0
      BY <1>3, <1>4, <2>2, <3>2 DEF IInv, Keys
    <3>3. QED
      BY <3>1, <3>2
  <2>3. QED
    BY <1>5, <2>1, <2>2 DEF Keys
<1>11. QED
  BY <1>6, <1>7, <1>8, <1>9, <1>10 DEF IInv

LEMMA RegisterStepOK == ASSUME IInv, NEW s \in Slot, register(s) PROVE IInv'
  BY KeySavedOK DEF register, Does, Seeking

LEMMA RotateKeyStepOK == ASSUME IInv, NEW s \in Slot, rotateKey(s) PROVE IInv'
<1>1. /\ req[s] # NULL /\ req[s].do = "rotateKey" /\ req[s].client \in Mcp /\ Done(s)
      /\ cred' = [cred EXCEPT ![req[s].client] = req[s].cred]
      /\ UNCHANGED <<token, challenge, history>>
  BY DEF rotateKey, Does, IInv, Shape, ShapeOf
<1>2. QED
  BY <1>1, KeySavedOK DEF Seeking

-----------------------------------------------------------------------------
\* Challenges

LEMMA CreateChallengeOK ==
    ASSUME IInv, NEW m \in Mcp, NEW h \in Challenge, createChallenge(m, h) PROVE IInv'
<1>1. PICK new : new = [client |-> m, fingerprint |-> cred[m], used |-> FALSE]
  OBVIOUS
<1>2. new \in ChallengeRow
  BY <1>1 DEF createChallenge, ChallengeRow, IInv, TypeOK
<1>3. /\ challenge' \in [Challenge -> ChallengeRow \cup {NULL}]
      /\ challenge'[h] = new
      /\ \A g \in Challenge \ {h} : challenge'[g] = challenge[g]
  BY <1>1, <1>2 DEF createChallenge, IInv, TypeOK
<1>4. /\ UNCHANGED <<cred, token, req, secrets, minted, shared, raced, died, events>>
      /\ issued' = issued \cup {h} /\ h \notin issued
  BY DEF createChallenge
<1>5. TypeOK'
  BY <1>3, <1>4 DEF IInv, TypeOK
<1>6. Shape' /\ Secrets' /\ Keys'
  BY <1>4 DEF IInv, Shape, ShapeOf, Secrets, Deletes, Does, Keys, Seeks
<1>7. Challenges'
  <2>1. minted[h] = 0 /\ \A s \in Slot : ~Carries(s, h)
    BY <1>4 DEF IInv, Challenges, TypeOK
  <2>2. \A s \in Slot, g \in Challenge : Carries(s, g)' <=> Carries(s, g)
    BY <1>4 DEF Carries
  <2>3. \A g \in Challenge : minted[g] > 0 => g # h
    BY <2>1
  <2>4. QED
    BY <1>3, <1>4, <2>1, <2>2, <2>3 DEF IInv, Challenges
<1>8. QED
  BY <1>5, <1>6, <1>7 DEF IInv

\* A challenge is deleted: Expire and RefuseChallenge.
LEMMA ChallengeDeletedOK ==
    ASSUME IInv, NEW h \in Challenge, challenge' = [challenge EXCEPT ![h] = NULL],
           UNCHANGED <<cred, token, req, history>>
    PROVE  IInv'
<1>1. /\ challenge' \in [Challenge -> ChallengeRow \cup {NULL}]
      /\ challenge'[h] = NULL
      /\ \A g \in Challenge \ {h} : challenge'[g] = challenge[g]
  BY DEF IInv, TypeOK
<1>2. UNCHANGED <<issued, secrets, minted, shared, raced, died, events>>
  BY DEF history
<1>3. TypeOK'
  BY <1>1, <1>2 DEF IInv, TypeOK
<1>4. Shape' /\ Secrets' /\ Keys'
  BY <1>2 DEF IInv, Shape, ShapeOf, Secrets, Deletes, Does, Keys, Seeks
<1>5. \A s \in Slot, g \in Challenge : Carries(s, g)' <=> Carries(s, g)
  BY DEF Carries
<1>6. Challenges'
  BY <1>1, <1>2, <1>5 DEF IInv, Challenges
<1>7. QED
  BY <1>3, <1>4, <1>6 DEF IInv

LEMMA TakeChallengeOK ==
    ASSUME IInv, NEW s \in Slot, NEW m \in Mcp, NEW h \in Challenge, TakeChallenge(s, m, h)
    PROVE  IInv'
<1>1. /\ TypeOK /\ m \in Client /\ cred[m] \in Cred
      /\ challenge[h] # NULL /\ ~challenge[h].used
  BY DEF IInv, TypeOK, Cred, Client, TakeChallenge
<1>2. /\ req[s] = NULL
      /\ req' \in [Slot -> Request \cup {NULL}]
      /\ \A r \in Slot \ {s} : req'[r] = req[r]
      /\ req'[s] # NULL
      /\ req'[s].do = "useChallenge" /\ req'[s].client = m /\ req'[s].cred = cred[m]
      /\ req'[s].challenge = h
  BY <1>1, BeginFields DEF TakeChallenge, Steps, Minting
<1>3. UNCHANGED <<cred, token, challenge, issued, secrets, minted, raced, died, events>>
  BY DEF TakeChallenge
<1>4. /\ shared \subseteq shared' /\ shared' \in SUBSET Challenge
      /\ (\E r \in Slot : Carries(r, h) /\ req[r].do = "useChallenge") => h \in shared'
  BY <1>1 DEF TakeChallenge, Does, Carries, TypeOK
<1>5. ShapeOf(req'[s])
  BY <1>1, <1>2, ClientTokensAssumption DEF ShapeOf, Minting, Seeking
<1>6. /\ \A b \in Agent : ~Mints(req'[s], b)
      /\ \A g \in Challenge : Carries(s, g)' => g = h
      /\ \A f \in Fingerprint : ~Seeks(s, f)'
      /\ ~Does(s, "deleteToken")
  BY <1>2, ClientTokensAssumption DEF Mints, Carries, Seeks, Seeking, Does
<1>7. QED
  BY <1>1, <1>2, <1>3, <1>4, <1>5, <1>6, HistoryFacts, MoveOK

LEMMA UseChallengeOK == ASSUME IInv, NEW s \in Slot, useChallenge(s) PROVE IInv'
<1> DEFINE h0 == req[s].challenge
<1>1. /\ req[s] # NULL /\ req[s].do = "useChallenge" /\ ShapeOf(req[s]) /\ h0 \in Challenge
  BY DEF useChallenge, Does, IInv, Shape, ShapeOf, TypeOK, Request
<1>2. /\ req' \in [Slot -> Request \cup {NULL}]
      /\ \A r \in Slot \ {s} : req'[r] = req[r]
      /\ req'[s] # NULL
      /\ req'[s].do = "findToken"
      /\ req'[s].client = req[s].client /\ req'[s].cred = req[s].cred
      /\ req'[s].challenge = h0 /\ req'[s].late = req[s].late
  BY <1>1, ThenFields DEF useChallenge, Steps, Minting, IInv
<1> HIDE DEF h0
<1>3. /\ challenge' \in [Challenge -> ChallengeRow \cup {NULL}]
      /\ challenge'[h0] = NULL \/ challenge'[h0].used
      /\ challenge'[h0] # NULL => challenge[h0] # NULL
      /\ \A g \in Challenge \ {h0} : challenge'[g] = challenge[g]
  <2>1. challenge \in [Challenge -> ChallengeRow \cup {NULL}]
    BY DEF IInv, TypeOK
  <2>2. CASE challenge[h0] = NULL
    BY <2>1, <2>2 DEF useChallenge, h0
  <2>3. CASE challenge[h0] # NULL
    <3>1. PICK new : new = [challenge[h0] EXCEPT !.used = TRUE]
      OBVIOUS
    <3>2. new \in ChallengeRow /\ new.used
      BY <1>1, <2>1, <2>3, <3>1 DEF ChallengeRow
    <3>3. challenge' = [challenge EXCEPT ![h0] = new]
      BY <2>3, <3>1 DEF useChallenge, h0
    <3>4. QED
      BY <1>1, <2>1, <2>3, <3>2, <3>3
  <2>4. QED
    BY <2>2, <2>3
<1>4. UNCHANGED <<cred, token, issued, secrets, minted, shared, raced, died, events>>
  BY DEF useChallenge, history
<1>5. TypeOK'
  BY <1>2, <1>3, <1>4 DEF IInv, TypeOK
<1>6. Shape'
  BY <1>1, <1>2 DEF IInv, Shape, ShapeOf, Minting, Seeking
<1>7. Secrets'
  <2>1. \A a \in Agent : Deletes(a) => Deletes(a)'
    BY <1>1, <1>2 DEF Deletes, Does
  <2>2. \A r \in Slot, a \in Agent : Mints(req'[r], a) =>
          Mints(req[r], a) /\ req'[r].cred = req[r].cred /\ req'[r].late = req[r].late
    BY <1>1, <1>2 DEF Mints
  <2>3. QED
    BY <1>4, <2>1, <2>2 DEF IInv, Secrets
<1>8. Challenges'
  <2>1. \A r \in Slot, h \in Challenge : Carries(r, h)' <=> Carries(r, h)
    BY <1>1, <1>2 DEF Carries, h0
  <2>2. Carries(s, h0)
    BY <1>1 DEF Carries, h0
  <2>3. \A r \in Slot, h \in Challenge : Carries(r, h) /\ req'[r].do # "useChallenge" =>
          challenge'[h] = NULL \/ challenge'[h].used
    BY <1>1, <1>2, <1>3 DEF IInv, Challenges, Carries, h0
  <2>4. \A h \in Challenge : minted[h] > 0 => challenge'[h] = NULL \/ challenge'[h].used
    BY <1>3 DEF IInv, Challenges
  <2>5. \A h \in Challenge : challenge'[h] # NULL => challenge[h] # NULL
    BY <1>3
  <2>6. QED
    BY <1>4, <2>1, <2>3, <2>4, <2>5 DEF IInv, Challenges
<1>9. Keys'
  <2>1. \A r \in Slot, f \in Fingerprint : Seeks(r, f)' => Seeks(r, f)
    BY <1>2 DEF Seeks, Seeking
  <2>2. QED
    BY <1>4, <2>1 DEF IInv, Keys
<1>10. QED
  BY <1>5, <1>6, <1>7, <1>8, <1>9 DEF IInv

-----------------------------------------------------------------------------
\* Every step keeps the invariant

LEMMA CrashOK == ASSUME IInv, NEW s \in Slot, Crash(s) PROVE IInv'
<1>1. /\ TypeOK /\ Done(s) /\ events' \in 0..MaxEvents
      /\ UNCHANGED <<cred, token, challenge, issued, secrets, minted, shared, raced>>
  BY ClientTokensAssumption DEF Crash, IInv, TypeOK
<1>2. /\ req' \in [Slot -> Request \cup {NULL}]
      /\ \A r \in Slot \ {s} : req'[r] = req[r]
      /\ req'[s] = NULL
  BY <1>1, DoneFields
<1>3. /\ died \subseteq died' /\ died' \in SUBSET Agent
      /\ Does(s, "deleteToken") => req[s].client \in died'
  BY DEF Crash, Does, IInv, Shape, ShapeOf, TypeOK
<1>4. /\ \A b \in Agent : ~Mints(req'[s], b)
      /\ \A h \in Challenge : ~Carries(s, h)'
      /\ \A f \in Fingerprint : ~Seeks(s, f)'
  BY <1>2 DEF Mints, Carries, Seeks
<1>5. QED
  BY <1>1, <1>2, <1>3, <1>4, HistoryFacts, MoveOK

LEMMA NextOK == IInv /\ [Next]_vars => IInv'
<1> SUFFICES ASSUME IInv, [Next]_vars PROVE IInv'
  OBVIOUS
<1>1. CASE UNCHANGED vars
  BY <1>1 DEF vars, IInv, TypeOK, Shape, ShapeOf, Secrets, Deletes, Does, Challenges, Carries,
       Keys, Seeks
<1>2. ASSUME NEW m \in Mcp, NEW h \in Challenge, RefuseChallenge(m, h) PROVE IInv'
  BY <1>2, ChallengeDeletedOK DEF RefuseChallenge
<1>3. ASSUME NEW h \in Challenge, Expire(h) PROVE IInv'
  BY <1>3, ChallengeDeletedOK DEF Expire
<1>4. QED
  BY <1>1, <1>2, <1>3, MintOK, FindTokenOK, UpdateTokenOK, InsertTokenOK, RotateOK, SaveSecretOK,
     DeleteTokenOK, RevokeOK, RegisterOK, RegisterStepOK, RotateKeyOK, RotateKeyStepOK,
     CreateChallengeOK, TakeChallengeOK, UseChallengeOK, CrashOK
  DEF Next

LEMMA Invariance == Spec => []IInv
<1>1. QED
  BY InitOK, NextOK, PTL DEF Spec

-----------------------------------------------------------------------------
\* The theorems

\* Types: the requests of agents and of MCP clients do not get into each other's rows.
THEOREM TypeCorrect == Spec => []TypeOK
<1>1. IInv => TypeOK
  BY DEF IInv
<1>2. QED
  BY <1>1, Invariance, PTL

\* rotateSecret ends the tokens of the old secret, but for those of mints that were under
\* way and those of a rotation that died.
THEOREM RotationEndsTokens == Spec => []OldSecretsAreOver
<1>1. IInv => OldSecretsAreOver
  BY DEF IInv, Secrets, Deletes, OldSecretsAreOver
<1>2. QED
  BY <1>1, Invariance, PTL

\* AuthMcpChallengeService::mintToken answers one token for a challenge, but to requests
\* that had read it unused together.
THEOREM ChallengesAreSpentOnce == Spec => []OneTokenPerChallenge
<1>1. IInv => OneTokenPerChallenge
  BY DEF IInv, TypeOK, Challenges, OneTokenPerChallenge
<1>2. QED
  BY <1>1, Invariance, PTL

\* register and rotateKey give a fingerprint to one client, but for those that looked for
\* it together.
THEOREM FingerprintsBelongToOne == Spec => []FingerprintsAreUnique
<1>1. IInv => FingerprintsAreUnique
  BY DEF IInv, TypeOK, Keys, FingerprintsAreUnique
<1>2. QED
  BY <1>1, Invariance, PTL
=============================================================================
