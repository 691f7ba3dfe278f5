---------------------------- MODULE ClientTokens -----------------------------
(***************************************************************************)
(* Clients, what they prove themselves by, and their tokens.               *)
(*                                                                         *)
(* An agent has a secret and gets a token for it; an operator rotates the  *)
(* secret or revokes the token.  An MCP client registers the fingerprint   *)
(* of its key, may change it, and gets a token for a signed challenge.     *)
(* A client has one token at most, the row of its id.                      *)
(*                                                                         *)
(* A request reads and writes row by row, without a transaction around it, *)
(* a lock or a version; an UPDATE of a row that is gone changes nothing.   *)
(***************************************************************************)
EXTENDS Naturals

CONSTANTS
    Agent, Mcp,   \* the clients of either kind
    Fingerprint,  \* of the keys of MCP clients
    Challenge,    \* the challenges that can be issued
    Slot,         \* requests under way at once
    NULL,         \* no row, no request
    MaxSecret,    \* bound: rotations of each secret
    MaxEvents     \* bound: requests that die

Client == Agent \cup Mcp

VARIABLES
    cred,         \* auth_client_registry: each client's secret or fingerprint
    token,        \* auth_client_access_token
    challenge,    \* auth_mcp_challenge
    req,          \* what each slot is doing
    issued,       \* the challenges that have been issued
    secrets,      \* how many secrets were drawn for each agent
    minted,       \* history: tokens answered for each challenge
    shared,       \* history: challenges two requests read before either used them
    raced,        \* history: fingerprints two requests looked for before either saved
    died,         \* history: agents of whom a rotation died half way
    events        \* how many events of MaxEvents have happened

vars == <<cred, token, challenge, req, issued, secrets, minted, shared, raced, died, events>>

-----------------------------------------------------------------------------
\* Types

Secret == 0..MaxSecret
Cred == Secret \cup Fingerprint

\* The credential a token was issued for; late: its request had found the client before
\* a rotation or a revocation deleted the token there was.
Token == [cred: Cred, late: BOOLEAN]

ChallengeRow == [client: Mcp, fingerprint: Fingerprint, used: BOOLEAN]

Request == [do: {"useChallenge", "findToken", "updateToken", "insertToken",
                 "saveSecret", "deleteToken", "register", "rotateKey"},
            client: Client \cup {NULL}, cred: Cred, challenge: Challenge \cup {NULL},
            late: BOOLEAN]

ASSUME ClientTokensAssumption ==
    /\ Agent \cap Mcp = {} /\ Secret \cap Fingerprint = {}
    /\ NULL \notin Client /\ NULL \notin Cred /\ NULL \notin Challenge
    /\ NULL \notin ChallengeRow /\ NULL \notin Token /\ NULL \notin Request
    /\ MaxSecret \in Nat /\ MaxEvents \in Nat

TypeOK ==
    /\ cred \in [Client -> Cred \cup {NULL}]
    /\ \A a \in Agent : cred[a] \in Secret
    /\ \A m \in Mcp : cred[m] \in Fingerprint \cup {NULL}
    /\ token \in [Client -> Token \cup {NULL}]
    /\ challenge \in [Challenge -> ChallengeRow \cup {NULL}]
    /\ req \in [Slot -> Request \cup {NULL}]
    /\ issued \in SUBSET Challenge
    /\ secrets \in [Agent -> Secret]
    /\ minted \in [Challenge -> 0..2]
    /\ shared \in SUBSET Challenge
    /\ raced \in SUBSET Fingerprint
    /\ died \in SUBSET Agent
    /\ events \in 0..MaxEvents

\* The agents were provisioned (DeviceFlow has the steps of that).
Init ==
    /\ cred = [c \in Client |-> IF c \in Agent THEN 0 ELSE NULL]
    /\ token = [c \in Client |-> NULL]
    /\ challenge = [h \in Challenge |-> NULL]
    /\ issued = {}
    /\ req = [s \in Slot |-> NULL]
    /\ secrets = [a \in Agent |-> 0]
    /\ minted = [h \in Challenge |-> 0]
    /\ shared = {}
    /\ raced = {}
    /\ died = {}
    /\ events = 0

-----------------------------------------------------------------------------
\* Helpers

history == <<issued, secrets, minted, shared, raced, died, events>>

Begin(s, do, client, c, h) ==
    /\ req[s] = NULL
    /\ req' = [req EXCEPT ![s] =
                 [do |-> do, client |-> client, cred |-> c, challenge |-> h, late |-> FALSE]]

Does(s, do) == req[s] # NULL /\ req[s].do = do

Then(s, do) == req' = [req EXCEPT ![s].do = do]

Done(s) == req' = [req EXCEPT ![s] = NULL]

\* The requests of client c that are about to save a token come late from now on.
Mints(r, c) ==
    r # NULL /\ r.client = c /\ r.do \in {"useChallenge", "findToken", "updateToken", "insertToken"}

Late(rs, c) == [s \in Slot |-> IF Mints(rs[s], c) THEN [rs[s] EXCEPT !.late = TRUE] ELSE rs[s]]

-----------------------------------------------------------------------------
\* Tokens of agents

\* AuthClientTokenMintingService::mintToken, with the secret that is valid
Mint(s, a) ==
    /\ Begin(s, "findToken", a, cred[a], NULL)
    /\ UNCHANGED <<cred, token, challenge, history>>

\* TechnicalAccessTokenRepository::save: is there a row to UPDATE?
findToken(s) ==
    /\ Does(s, "findToken")
    /\ Then(s, IF token[req[s].client] = NULL THEN "insertToken" ELSE "updateToken")
    /\ UNCHANGED <<cred, token, challenge, history>>

NewToken(s) == [cred |-> req[s].cred, late |-> req[s].late]

\* The token is answered whether or not the row is still there.
Answered(s) ==
    minted' = IF req[s].challenge # NULL /\ minted[req[s].challenge] < 2
              THEN [minted EXCEPT ![req[s].challenge] = @ + 1] ELSE minted

updateToken(s) ==
    /\ Does(s, "updateToken")
    /\ token' = [token EXCEPT ![req[s].client] = IF @ = NULL THEN NULL ELSE NewToken(s)]
    /\ Answered(s)
    /\ Done(s)
    /\ UNCHANGED <<cred, challenge, issued, secrets, shared, raced, died, events>>

\* The INSERT fails if another request was faster, and there is no answer.
insertToken(s) ==
    /\ Does(s, "insertToken")
    /\ IF token[req[s].client] = NULL
       THEN /\ token' = [token EXCEPT ![req[s].client] = NewToken(s)]
            /\ Answered(s)
       ELSE UNCHANGED <<token, minted>>
    /\ Done(s)
    /\ UNCHANGED <<cred, challenge, issued, secrets, shared, raced, died, events>>

\* rotateSecret, which draws the new secret ...
Rotate(s, a) ==
    /\ secrets[a] < MaxSecret
    /\ Begin(s, "saveSecret", a, secrets[a] + 1, NULL)
    /\ secrets' = [secrets EXCEPT ![a] = @ + 1]
    /\ UNCHANGED <<cred, token, challenge, issued, minted, shared, raced, died, events>>

\* Mutant: the token is left to expire.
saveSecret_KeepToken(s) ==
    /\ Does(s, "saveSecret")
    /\ cred' = [cred EXCEPT ![req[s].client] = req[s].cred]
    /\ Done(s)
    /\ UNCHANGED <<token, challenge, history>>

\* ... saves it ...
saveSecret(s) ==
    /\ Does(s, "saveSecret")
    /\ cred' = [cred EXCEPT ![req[s].client] = req[s].cred]
    /\ Then(s, "deleteToken")
    /\ UNCHANGED <<token, challenge, history>>

\* ... and deletes the token.
deleteToken(s) ==
    /\ Does(s, "deleteToken")
    /\ token' = [token EXCEPT ![req[s].client] = NULL]
    /\ req' = Late([req EXCEPT ![s] = NULL], req[s].client)
    /\ UNCHANGED <<cred, challenge, history>>

\* revokeToken
Revoke(c) ==
    /\ cred[c] # NULL
    /\ token' = [token EXCEPT ![c] = NULL]
    /\ req' = Late(req, c)
    /\ UNCHANGED <<cred, challenge, history>>

-----------------------------------------------------------------------------
\* MCP clients

\* Another request looks for a place for fingerprint f, or has found one.
Racing(f) ==
    raced' = IF \E s \in Slot : req[s] # NULL /\ req[s].do \in {"register", "rotateKey"}
                                /\ req[s].cred = f
             THEN raced \cup {f} ELSE raced

\* Mutant: the other clients are not looked at.
Register_Blind(s, f) ==
    /\ Begin(s, "register", NULL, f, NULL)
    /\ Racing(f)
    /\ UNCHANGED <<cred, token, challenge, issued, secrets, minted, shared, died, events>>

\* register, of a fingerprint no client has: else the client that has it is updated.
Register(s, f) ==
    /\ \A m \in Mcp : cred[m] # f
    /\ Begin(s, "register", NULL, f, NULL)
    /\ Racing(f)
    /\ UNCHANGED <<cred, token, challenge, issued, secrets, minted, shared, died, events>>

register(s) ==
    /\ Does(s, "register")
    /\ \E m \in Mcp : cred[m] = NULL /\ cred' = [cred EXCEPT ![m] = req[s].cred]
    /\ Done(s)
    /\ UNCHANGED <<token, challenge, history>>

\* rotateKey, to a fingerprint no other client has
RotateKey(s, m, f) ==
    /\ cred[m] \notin {NULL, f}
    /\ \A n \in Mcp : cred[n] # f
    /\ Begin(s, "rotateKey", m, f, NULL)
    /\ Racing(f)
    /\ UNCHANGED <<cred, token, challenge, issued, secrets, minted, shared, died, events>>

\* The tokens of the old key stay.
rotateKey(s) ==
    /\ Does(s, "rotateKey")
    /\ cred' = [cred EXCEPT ![req[s].client] = req[s].cred]
    /\ Done(s)
    /\ UNCHANGED <<token, challenge, history>>

\* createChallenge, of a client that gives the fingerprint it is registered with
createChallenge(m, h) ==
    /\ cred[m] # NULL
    /\ h \notin issued
    /\ challenge' = [challenge EXCEPT ![h] =
                       [client |-> m, fingerprint |-> cred[m], used |-> FALSE]]
    /\ issued' = issued \cup {h}
    /\ UNCHANGED <<cred, token, req, secrets, minted, shared, raced, died, events>>

Expire(h) ==
    /\ challenge[h] # NULL
    /\ challenge' = [challenge EXCEPT ![h] = NULL]
    /\ UNCHANGED <<cred, token, req, history>>

\* AuthMcpChallengeService::mintToken of client m, whose fingerprint is the registered
\* one: a challenge that was used, or is not for it, is deleted ...
RefuseChallenge(m, h) ==
    /\ cred[m] # NULL /\ challenge[h] # NULL
    /\ challenge[h].used \/ challenge[h].client # m \/ challenge[h].fingerprint # cred[m]
    /\ challenge' = [challenge EXCEPT ![h] = NULL]
    /\ UNCHANGED <<cred, token, req, history>>

\* ... and any other, with its signature, is taken.
TakeChallenge(s, m, h) ==
    /\ cred[m] # NULL /\ challenge[h] # NULL
    /\ ~challenge[h].used /\ challenge[h].client = m /\ challenge[h].fingerprint = cred[m]
    /\ Begin(s, "useChallenge", m, cred[m], h)
    /\ shared' = IF \E r \in Slot : Does(r, "useChallenge") /\ req[r].challenge = h
                 THEN shared \cup {h} ELSE shared
    /\ UNCHANGED <<cred, token, challenge, issued, secrets, minted, raced, died, events>>

\* Mutant: the challenge is not marked.
useChallenge_Not(s) ==
    /\ Does(s, "useChallenge")
    /\ Then(s, "findToken")
    /\ UNCHANGED <<cred, token, challenge, history>>

\* It is marked as used, if it is there, before the token is issued.
useChallenge(s) ==
    /\ Does(s, "useChallenge")
    /\ LET h == req[s].challenge IN
       challenge' = IF challenge[h] # NULL THEN [challenge EXCEPT ![h].used = TRUE] ELSE challenge
    /\ Then(s, "findToken")
    /\ UNCHANGED <<cred, token, history>>

-----------------------------------------------------------------------------
Crash(s) ==
    /\ req[s] # NULL
    /\ events < MaxEvents
    /\ events' = events + 1
    /\ died' = IF Does(s, "deleteToken") THEN died \cup {req[s].client} ELSE died
    /\ Done(s)
    /\ UNCHANGED <<cred, token, challenge, issued, secrets, minted, shared, raced>>

Next ==
    \/ \E s \in Slot :
         \/ \E a \in Agent : Mint(s, a) \/ Rotate(s, a)
         \/ findToken(s) \/ updateToken(s) \/ insertToken(s) \/ saveSecret(s) \/ deleteToken(s)
         \/ \E f \in Fingerprint : Register(s, f) \/ \E m \in Mcp : RotateKey(s, m, f)
         \/ \E m \in Mcp, h \in Challenge : TakeChallenge(s, m, h)
         \/ register(s) \/ rotateKey(s) \/ useChallenge(s) \/ Crash(s)
    \/ \E c \in Client : Revoke(c)
    \/ \E m \in Mcp, h \in Challenge : createChallenge(m, h) \/ RefuseChallenge(m, h)
    \/ \E h \in Challenge : Expire(h)

Spec == Init /\ [][Next]_vars

-----------------------------------------------------------------------------
\* Properties

\* When a secret has been rotated no token of an older one is left, but for the rotation
\* that died before it deleted the token, and the request that had found the client
\* before the token was deleted and saves its own after that: this token lives on until
\* the next mint, rotation or revocation.  (Keys of MCP clients promise no such thing.)
OldSecretsAreOver ==
    \A a \in Agent \ died :
        token[a] # NULL /\ token[a].cred # cred[a] =>
            \/ token[a].late
            \/ \E s \in Slot : Does(s, "deleteToken") /\ req[s].client = a

\* A challenge is good for one token, unless two requests read it before either had
\* marked it as used.
OneTokenPerChallenge == \A h \in Challenge : minted[h] > 1 => h \in shared

\* No two MCP clients have one fingerprint, unless two requests looked for it before
\* either had saved it: the table has no index that would stop them.
FingerprintsAreUnique ==
    \A m, n \in Mcp : cred[m] # NULL /\ cred[m] = cred[n] /\ cred[m] \notin raced => m = n
=============================================================================
