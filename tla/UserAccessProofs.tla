-------------------------- MODULE UserAccessProofs ---------------------------
(***************************************************************************)
(* Proofs about UserAccess, for any number of sessions, of requests at     *)
(* once, of sets of codes, of token pairs and of deaths: types, recovery   *)
(* codes that open one session, switches of the second factor, revoked     *)
(* sessions and refresh tokens.                                            *)
(***************************************************************************)
EXTENDS UserAccess, TLAPS

-----------------------------------------------------------------------------
\* The inductive invariant

\* What a request may be about to save or to do.
Shape ==
    \A s \in Slot : req[s] # NULL =>
        /\ req[s].do = "save" =>
             /\ req[s].next.enabled => req[s].next.secret
             /\ req[s].op \notin {"enable", "disable"} =>
                  req[s].next.enabled = req[s].seen.enabled
             /\ req[s].draw = 0 => req[s].next.codes \subseteq saved
             /\ req[s].draw # 0 => req[s].next.codes = Codes(req[s].draw)
        /\ req[s].code # NULL =>
             /\ req[s].code \in saved
             /\ req[s].do \in {"save", "login"}
             /\ req[s].do = "save" => /\ req[s].then = "login" /\ req[s].draw = 0
                                      /\ req[s].code \notin req[s].next.codes
        /\ req[s].do = "refresh" => req[s].pair \in 1..pairs

\* Slot s has consumed code c and opens a session with it.
Opens(s, c) == req[s] # NULL /\ req[s].do = "login" /\ req[s].code = c

\* A code that nothing brought back is in the row, in the hands of one login, or used.
CodesOnce ==
    /\ mfa.codes \subseteq saved
    /\ \A c \in Code : used[c] > 0 => c \in saved
    /\ \A c \in Code \ restored :
         /\ used[c] < 2
         /\ c \in mfa.codes => c[1] = latest /\ used[c] = 0 /\ \A s \in Slot : ~Opens(s, c)
         /\ \A s \in Slot : Opens(s, c) =>
              used[c] = 0 /\ \A r \in Slot : Opens(r, c) => r = s

\* Slot s has read the pair p and will replace it.
Replaces(s, p) == req[s] # NULL /\ req[s].do = "refresh" /\ req[s].pair = p

\* A pair belongs to one session, and to the request that goes on to refresh that session;
\* once it is answered it belongs to none.
PairsOnce ==
    /\ \A x \in Session : session[x] # NULL => session[x] \in 1..pairs
    /\ \A p \in Pair : refreshed[p] > 0 => p <= pairs /\ \A x \in Session : session[x] # p
    /\ \A x, y \in Session : session[x] # NULL /\ session[x] = session[y] => x = y
    /\ \A s \in Slot, p \in Pair : Replaces(s, p) =>
         \E x \in Session : req[s].todo = {x} /\ \A y \in Session : session[y] = p => y = x
    /\ \A p \in Pair \ shared :
         /\ refreshed[p] < 2
         /\ \A s \in Slot : Replaces(s, p) =>
              refreshed[p] = 0 /\ \A r \in Slot : Replaces(r, p) => r = s

IInv == TypeOK /\ Shape /\ CodesOnce /\ PairsOnce /\ RevokedIsOver

LEMMA InitOK == Init => IInv
<1> SUFFICES ASSUME Init PROVE IInv
  OBVIOUS
<1>1. mfa \in Mfa /\ ~mfa.enabled /\ mfa.codes = {}
  BY DEF Init, Off, Mfa
<1>2. /\ draws \in 0..MaxDraw /\ latest \in 0..MaxDraw /\ pairs \in 0..MaxPair
      /\ events \in 0..MaxEvents
      /\ used \in [Code -> 0..2] /\ refreshed \in [Pair -> 0..2]
      /\ session \in [Session -> Pair \cup {NULL}] /\ req \in [Slot -> Request \cup {NULL}]
  BY UserAccessAssumption DEF Init
<1>3. TypeOK
  BY <1>1, <1>2 DEF Init, TypeOK
<1>4. CodesOnce
  BY <1>1 DEF Init, CodesOnce, Opens
<1>5. PairsOnce
  BY UserAccessAssumption DEF Init, PairsOnce, Replaces, Pair
<1>6. QED
  BY <1>3, <1>4, <1>5 DEF Init, IInv, Shape, RevokedIsOver

-----------------------------------------------------------------------------
\* What the helpers do

LEMMA WorkFields ==
    ASSUME TypeOK, NEW s \in Slot,
           NEW op \in {"setup", "enable", "disable", "regenerate", "login"},
           NEW next \in Mfa, NEW then \in {"regenerate", "login", "done"},
           NEW code \in Code \cup {NULL},
           Work(s, op, next, then, code)
    PROVE  /\ req[s] = NULL
           /\ req' \in [Slot -> Request \cup {NULL}]
           /\ \A r \in Slot \ {s} : req'[r] = req[r]
           /\ req'[s] # NULL
           /\ req'[s].op = op /\ req'[s].then = then /\ req'[s].code = code
           /\ req'[s].seen = mfa /\ req'[s].next = next /\ req'[s].draw = 0
           /\ req'[s].do = IF next = mfa /\ then # "done" THEN then ELSE "save"
<1>1. PICK new : new = [Request0 EXCEPT
                          !.op = op, !.do = IF next = mfa /\ then # "done" THEN then ELSE "save",
                          !.then = then, !.seen = mfa, !.next = next, !.code = code]
  OBVIOUS
<1>2. Off \in Mfa /\ mfa \in Mfa /\ 0 \in 0..MaxDraw
  BY UserAccessAssumption DEF Off, Mfa, TypeOK
<1>3. /\ new \in Request
      /\ new.op = op /\ new.then = then /\ new.code = code
      /\ new.seen = mfa /\ new.next = next /\ new.draw = 0
      /\ new.do = IF next = mfa /\ then # "done" THEN then ELSE "save"
  BY <1>1, <1>2 DEF Request0, Request
<1>4. req' = [req EXCEPT ![s] = new] /\ req[s] = NULL /\ req \in [Slot -> Request \cup {NULL}]
  BY <1>1 DEF Work, TypeOK
<1>5. new # NULL /\ req'[s] = new
  BY <1>3, <1>4, UserAccessAssumption
<1>6. QED
  BY <1>3, <1>4, <1>5

\* What follows where neither the row, nor a session, nor a history changes, and one slot
\* is given another request or none.
LEMMA SlotKeeps ==
    ASSUME IInv, NEW s \in Slot,
           UNCHANGED <<mfa, session, pairs, ended, refreshed, used, saved, restored, latest>>,
           shared \subseteq shared', shared' \in SUBSET Pair,
           draws' \in 0..MaxDraw, events' \in 0..MaxEvents,
           req' \in [Slot -> Request \cup {NULL}],
           \A r \in Slot \ {s} : req'[r] = req[r],
           Shape',
           \A c \in Code : ~Opens(s, c)',
           \A p \in Pair : ~Replaces(s, p)'
    PROVE  IInv'
<1>1. TypeOK'
  BY DEF IInv, TypeOK
<1>2. \A r \in Slot, c \in Code : Opens(r, c)' => Opens(r, c)
  BY DEF Opens
<1>3. CodesOnce'
  BY <1>2 DEF IInv, CodesOnce
<1>4. \A r \in Slot, p \in Pair : Replaces(r, p)' => Replaces(r, p) /\ req'[r] = req[r]
  BY DEF Replaces
<1>5. PairsOnce'
  BY <1>4 DEF IInv, PairsOnce
<1>6. QED
  BY <1>1, <1>3, <1>5 DEF IInv, RevokedIsOver

\* A request that has read the row and changed its copy.
LEMMA WorkOK ==
    ASSUME IInv, NEW s \in Slot,
           NEW op \in {"setup", "enable", "disable", "regenerate", "login"},
           NEW next \in Mfa, NEW then \in {"regenerate", "login", "done"},
           NEW code \in Code \cup {NULL},
           Work(s, op, next, then, code),
           next.enabled => next.secret,
           next.codes \subseteq mfa.codes,
           op \notin {"enable", "disable"} => next.enabled = mfa.enabled,
           code # NULL => then = "login" /\ code \in mfa.codes /\ code \notin next.codes
    PROVE  IInv'
<1>1. TypeOK
  BY DEF IInv
<1>2. /\ req[s] = NULL
      /\ req' \in [Slot -> Request \cup {NULL}]
      /\ \A r \in Slot \ {s} : req'[r] = req[r]
      /\ req'[s] # NULL
      /\ req'[s].op = op /\ req'[s].then = then /\ req'[s].code = code
      /\ req'[s].seen = mfa /\ req'[s].next = next /\ req'[s].draw = 0
      /\ req'[s].do = IF next = mfa /\ then # "done" THEN then ELSE "save"
  BY <1>1, WorkFields
<1>3. UNCHANGED <<mfa, session, pairs, ended, refreshed, shared, draws, used, saved, restored,
                  latest, events>>
  BY DEF Work, tokens, codes
<1>4. mfa.codes \subseteq saved
  BY DEF IInv, CodesOnce
<1>5. code # NULL => next # mfa
  OBVIOUS
<1>6. Shape'
  BY <1>2, <1>3, <1>4, <1>5 DEF IInv, Shape
<1>7. \A c \in Code : ~Opens(s, c)'
  BY <1>2, <1>5, UserAccessAssumption DEF Opens
<1>8. \A p \in Pair : ~Replaces(s, p)'
  BY <1>2 DEF Replaces
<1>9. QED
  BY <1>1, <1>2, <1>3, <1>6, <1>7, <1>8, SlotKeeps DEF TypeOK

-----------------------------------------------------------------------------
\* The second factor

LEMMA SetupOK == ASSUME IInv, NEW s \in Slot, Setup(s) PROVE IInv'
<1>1. PICK next : next = [mfa EXCEPT !.pending = TRUE]
  OBVIOUS
<1>2. mfa \in Mfa /\ (mfa.enabled => mfa.secret)
  BY DEF IInv, TypeOK
<1>3. /\ next \in Mfa
      /\ next.enabled = mfa.enabled /\ next.secret = mfa.secret /\ next.codes = mfa.codes
  BY <1>1, <1>2 DEF Mfa
<1>4. Work(s, "setup", next, "done", NULL)
  BY <1>1 DEF Setup
<1>5. QED
  BY <1>2, <1>3, <1>4, WorkOK

LEMMA EnableOK == ASSUME IInv, NEW s \in Slot, Enable(s) PROVE IInv'
<1>1. PICK next : next = [Encrypted(mfa) EXCEPT !.enabled = TRUE, !.secret = TRUE,
                                                !.pending = FALSE]
  OBVIOUS
<1>2. mfa \in Mfa
  BY DEF IInv, TypeOK
<1>3. next \in Mfa /\ next.enabled = TRUE /\ next.secret = TRUE /\ next.codes = mfa.codes
  BY <1>1, <1>2 DEF Mfa, Encrypted
<1>4. Work(s, "enable", next, "regenerate", NULL)
  BY <1>1 DEF Enable
<1>5. QED
  BY <1>3, <1>4, WorkOK

LEMMA DisableOK == ASSUME IInv, NEW s \in Slot, Disable(s) PROVE IInv'
<1>1. Off \in Mfa /\ ~Off.enabled /\ Off.codes = {}
  BY DEF Off, Mfa
<1>2. QED
  BY <1>1, WorkOK DEF Disable

\* Regenerate, LoginPlain and LoginOtp.
LEMMA EncryptedOK ==
    mfa \in Mfa => /\ Encrypted(mfa) \in Mfa
                   /\ Encrypted(mfa).enabled = mfa.enabled
                   /\ Encrypted(mfa).secret = mfa.secret
                   /\ Encrypted(mfa).codes = mfa.codes
  BY DEF Encrypted, Mfa

LEMMA RegenerateOK == ASSUME IInv, NEW s \in Slot, Regenerate(s) PROVE IInv'
  BY EncryptedOK, WorkOK DEF Regenerate, IInv, TypeOK

LEMMA LoginPlainOK == ASSUME IInv, NEW s \in Slot, LoginPlain(s) PROVE IInv'
  BY WorkOK DEF LoginPlain, IInv, TypeOK

LEMMA LoginOtpOK == ASSUME IInv, NEW s \in Slot, LoginOtp(s) PROVE IInv'
  BY EncryptedOK, WorkOK DEF LoginOtp, IInv, TypeOK

LEMMA LoginCodeOK ==
    ASSUME IInv, NEW s \in Slot, NEW code \in Code, LoginCode(s, code) PROVE IInv'
<1>1. PICK next : next = [mfa EXCEPT !.codes = @ \ {code}]
  OBVIOUS
<1>2. mfa \in Mfa /\ (mfa.enabled => mfa.secret)
  BY DEF IInv, TypeOK
<1>3. /\ next \in Mfa /\ next.enabled = mfa.enabled /\ next.secret = mfa.secret
      /\ next.codes = mfa.codes \ {code}
  BY <1>1, <1>2 DEF Mfa
<1>4. Work(s, "login", next, "login", code) /\ code \in mfa.codes
  BY <1>1 DEF LoginCode
<1>5. QED
  BY <1>2, <1>3, <1>4, WorkOK

LEMMA RegenerateStepOK == ASSUME IInv, NEW s \in Slot, regenerate(s) PROVE IInv'
<1>1. /\ req[s] # NULL /\ req[s] \in Request /\ req[s].do = "regenerate" /\ req[s].code = NULL
      /\ mfa \in Mfa /\ (mfa.enabled => mfa.secret)
      /\ draws + 1 \in 1..MaxDraw /\ draws + 1 \in 0..MaxDraw
  BY UserAccessAssumption DEF regenerate, Does, IInv, TypeOK, Shape
<1>2. PICK next : next = [mfa EXCEPT !.codes = Codes(draws + 1)]
  OBVIOUS
<1>3. /\ next \in Mfa /\ next.enabled = mfa.enabled /\ next.secret = mfa.secret
      /\ next.codes = Codes(draws + 1)
  BY <1>1, <1>2 DEF Mfa, Codes, Code, Draw
<1>4. PICK new : new = [req[s] EXCEPT !.do = "save", !.then = "done", !.seen = mfa,
                                      !.draw = draws + 1, !.next = next]
  OBVIOUS
<1>5. /\ new \in Request
      /\ new.do = "save" /\ new.seen = mfa /\ new.draw = draws + 1 /\ new.next = next
      /\ new.code = NULL
  BY <1>1, <1>3, <1>4 DEF Request
<1>6. req' = [req EXCEPT ![s] = new] /\ req \in [Slot -> Request \cup {NULL}]
  BY <1>2, <1>4 DEF regenerate, IInv, TypeOK
<1>7. /\ req' \in [Slot -> Request \cup {NULL}]
      /\ \A r \in Slot \ {s} : req'[r] = req[r]
      /\ req'[s] = new /\ new # NULL
  BY <1>5, <1>6, UserAccessAssumption
<1>8. UNCHANGED <<mfa, session, pairs, ended, refreshed, shared, used, saved, restored, latest,
                  events>> /\ draws' = draws + 1
  BY DEF regenerate, tokens
<1>9. Shape'
  <2>1. draws + 1 # 0
    BY <1>1
  <2>2. QED
    BY <1>1, <1>3, <1>5, <1>7, <1>8, <2>1 DEF IInv, Shape
<1>10. (\A c \in Code : ~Opens(s, c)') /\ (\A p \in Pair : ~Replaces(s, p)')
  BY <1>5, <1>7 DEF Opens, Replaces
<1>11. draws' \in 0..MaxDraw /\ shared' \in SUBSET Pair /\ events' \in 0..MaxEvents
  BY <1>1, <1>8 DEF IInv, TypeOK
<1>12. QED
  BY <1>7, <1>8, <1>9, <1>10, <1>11, SlotKeeps

\* A slot becomes free and nothing else changes.
LEMMA FreeOK ==
    ASSUME IInv, NEW s \in Slot, req' = [req EXCEPT ![s] = NULL],
           UNCHANGED <<mfa, tokens, codes>>, events' \in 0..MaxEvents
    PROVE  IInv'
<1>1. /\ req' \in [Slot -> Request \cup {NULL}]
      /\ \A r \in Slot \ {s} : req'[r] = req[r]
      /\ req'[s] = NULL
  BY DEF IInv, TypeOK
<1>2. UNCHANGED <<mfa, session, pairs, ended, refreshed, shared, draws, used, saved, restored,
                  latest>>
  BY DEF tokens, codes
<1>3. Shape'
  BY <1>1, <1>2 DEF IInv, Shape
<1>4. (\A c \in Code : ~Opens(s, c)') /\ (\A p \in Pair : ~Replaces(s, p)')
  BY <1>1 DEF Opens, Replaces
<1>5. draws' \in 0..MaxDraw /\ shared' \in SUBSET Pair
  BY <1>2 DEF IInv, TypeOK
<1>6. QED
  BY <1>1, <1>2, <1>3, <1>4, <1>5, SlotKeeps

\* The whole row is written: what was in it and is not, is gone; what it brings back, is
\* noted.
LEMMA SaveOK == ASSUME IInv, NEW s \in Slot, save(s) PROVE IInv'
<1> DEFINE n == req[s].next
<1>1. /\ req[s] # NULL /\ req[s].do = "save" /\ req[s] \in Request
      /\ n \in Mfa /\ n.codes \subseteq Code /\ (n.enabled => n.secret)
      /\ req[s].draw \in 0..MaxDraw /\ req[s].code \in Code \cup {NULL}
  BY DEF save, Does, IInv, TypeOK, Shape, Request, Mfa
<1>2. /\ mfa' = n
      /\ saved' = saved \cup n.codes
      /\ restored' = restored \cup ((n.codes \ mfa.codes) \cap saved)
                              \cup ({req[s].code} \ (mfa.codes \cup {NULL}))
      /\ latest' = IF req[s].draw # 0 THEN req[s].draw ELSE latest
      /\ UNCHANGED <<session, pairs, ended, refreshed, shared, draws, used, events>>
  BY DEF save, tokens
<1>3. /\ req' \in [Slot -> Request \cup {NULL}]
      /\ \A r \in Slot \ {s} : req'[r] = req[r]
      /\ req'[s] # NULL => /\ req'[s].do \in {"regenerate", "login"}
                           /\ req'[s].do = req[s].then
                           /\ req'[s].code = req[s].code
  <2>1. req \in [Slot -> Request \cup {NULL}]
    BY DEF IInv, TypeOK
  <2>2. CASE req[s].then = "done"
    BY <2>1, <2>2 DEF save, After
  <2>3. CASE req[s].then # "done"
    <3>1. PICK new : new = [req[s] EXCEPT !.do = req[s].then, !.seen = Off, !.next = Off]
      OBVIOUS
    <3>2. Off \in Mfa /\ req[s].then \in {"regenerate", "login"}
      BY <1>1, <2>3 DEF Off, Mfa, Request
    <3>3. /\ new \in Request /\ new.do = req[s].then /\ new.code = req[s].code
      BY <1>1, <3>1, <3>2 DEF Request
    <3>4. req' = [req EXCEPT ![s] = new]
      BY <2>3, <3>1 DEF save, After
    <3>5. QED
      BY <2>1, <3>2, <3>3, <3>4
  <2>4. QED
    BY <2>2, <2>3
<1> HIDE DEF n
<1>4. TypeOK'
  <2>1. restored' \in SUBSET Code /\ saved' \in SUBSET Code /\ latest' \in 0..MaxDraw
    BY <1>1, <1>2 DEF IInv, TypeOK
  <2>2. QED
    BY <1>1, <1>2, <1>3, <2>1 DEF IInv, TypeOK
<1>5. req[s].code # NULL =>
        /\ req[s].code \in saved /\ req[s].then = "login" /\ req[s].draw = 0
        /\ req[s].code \notin n.codes
  BY <1>1 DEF IInv, Shape, n
<1>6. /\ req[s].draw = 0 => n.codes \subseteq saved
      /\ req[s].draw # 0 => n.codes = Codes(req[s].draw)
  BY <1>1 DEF IInv, Shape, n
<1>7. Shape'
  BY <1>2, <1>3, <1>5 DEF IInv, Shape
<1>8. CodesOnce'
  <2>1. ASSUME NEW c \in Code \ restored'
        PROVE  /\ used[c] < 2
               /\ c \in n.codes => c[1] = latest' /\ used[c] = 0 /\ \A r \in Slot : ~Opens(r, c)'
               /\ \A r \in Slot : Opens(r, c)' =>
                    used[c] = 0 /\ \A q \in Slot : Opens(q, c)' => q = r
    <3>1. c \in Code \ restored
      BY <1>2, <2>1
    <3>2. c \in n.codes => c \in mfa.codes \/ c \notin saved
      BY <1>2, <2>1
    <3>3. req[s].code = c => c \in mfa.codes /\ c \notin n.codes
      BY <1>2, <1>5, <2>1, UserAccessAssumption
    <3>4. \A r \in Slot : Opens(r, c)' => Opens(r, c) \/ (r = s /\ req[s].code = c)
      BY <1>3 DEF Opens
    <3>5. \A r \in Slot : Opens(r, c) => c \in saved
      BY UserAccessAssumption DEF IInv, Shape, Opens
    <3>6. c \in mfa.codes => c[1] = latest /\ used[c] = 0 /\ \A r \in Slot : ~Opens(r, c)
      BY <3>1 DEF IInv, CodesOnce
    <3>7. c \notin saved => used[c] = 0
      BY DEF IInv, CodesOnce, TypeOK
    <3>8. ASSUME c \in n.codes
          PROVE  c[1] = latest' /\ used[c] = 0 /\ \A r \in Slot : ~Opens(r, c)'
      <4>1. used[c] = 0 /\ \A r \in Slot : ~Opens(r, c)
        BY <3>2, <3>5, <3>6, <3>7, <3>8
      <4>2. \A r \in Slot : ~Opens(r, c)'
        BY <3>3, <3>4, <3>8, <4>1
      <4>3. CASE req[s].draw = 0
        BY <1>2, <1>6, <3>2, <3>6, <3>8, <4>1, <4>2, <4>3
      <4>4. CASE req[s].draw # 0
        BY <1>2, <1>6, <3>8, <4>1, <4>2, <4>4 DEF Codes
      <4>5. QED
        BY <4>3, <4>4
    <3>9. ASSUME NEW r \in Slot, Opens(r, c)'
          PROVE  used[c] = 0 /\ \A q \in Slot : Opens(q, c)' => q = r
      <4>1. CASE req[s].code = c
        BY <3>3, <3>4, <3>6, <3>9, <4>1
      <4>2. CASE req[s].code # c
        BY <3>1, <3>4, <3>9, <4>2 DEF IInv, CodesOnce
      <4>3. QED
        BY <4>1, <4>2
    <3>10. QED
      BY <3>1, <3>8, <3>9 DEF IInv, CodesOnce
  <2>2. \A c \in Code : used[c] > 0 => c \in saved'
    BY <1>2 DEF IInv, CodesOnce
  <2>3. QED
    BY <1>2, <2>1, <2>2 DEF CodesOnce
<1>9. \A r \in Slot, p \in Pair : Replaces(r, p)' => Replaces(r, p) /\ req'[r] = req[r]
  BY <1>3 DEF Replaces
<1>10. PairsOnce'
  BY <1>2, <1>9 DEF IInv, PairsOnce
<1>11. QED
  BY <1>2, <1>4, <1>7, <1>8, <1>10 DEF IInv, RevokedIsOver

LEMMA RotateKeyOK == IInv /\ RotateKey => IInv'
<1> SUFFICES ASSUME IInv, RotateKey PROVE IInv'
  OBVIOUS
<1>1. mfa' = [mfa EXCEPT !.old = TRUE] /\ mfa \in Mfa
  BY DEF RotateKey, IInv, TypeOK
<1>2. /\ mfa' \in Mfa /\ mfa'.enabled = mfa.enabled /\ mfa'.secret = mfa.secret
      /\ mfa'.codes = mfa.codes
  BY <1>1 DEF Mfa
<1>3. events' \in 0..MaxEvents
  BY UserAccessAssumption DEF RotateKey, IInv, TypeOK
<1>4. UNCHANGED <<session, req, draws, pairs, used, saved, restored, latest, ended, refreshed,
                  shared>>
  BY DEF RotateKey, tokens, codes
<1>5. TypeOK'
  BY <1>2, <1>3, <1>4 DEF IInv, TypeOK
<1>6. QED
  BY <1>2, <1>4, <1>5 DEF IInv, Shape, CodesOnce, Opens, PairsOnce, Replaces, RevokedIsOver

-----------------------------------------------------------------------------
\* Logins and sessions

LEMMA LoginOK == ASSUME IInv, NEW s \in Slot, login(s) PROVE IInv'
<1>1. /\ req[s] # NULL /\ req[s].do = "login" /\ req[s] \in Request
      /\ req[s].code \in Code \cup {NULL}
      /\ pairs' = pairs + 1 /\ pairs + 1 \in Pair /\ pairs \in Nat
  BY UserAccessAssumption DEF login, Does, IInv, TypeOK, Request, Pair
<1>2. PICK x \in Session : /\ session[x] = NULL /\ x \notin ended
                           /\ session' = [session EXCEPT ![x] = pairs + 1]
  BY DEF login
<1>3. /\ session' \in [Session -> Pair \cup {NULL}]
      /\ session'[x] = pairs + 1
      /\ \A y \in Session \ {x} : session'[y] = session[y]
  BY <1>1, <1>2 DEF IInv, TypeOK
<1>4. /\ req' \in [Slot -> Request \cup {NULL}]
      /\ \A r \in Slot \ {s} : req'[r] = req[r]
      /\ req'[s] = NULL
  BY DEF login, IInv, TypeOK
<1>5. UNCHANGED <<mfa, draws, saved, restored, latest, ended, refreshed, shared, events>>
  BY DEF login
<1>6. /\ used' \in [Code -> 0..2]
      /\ \A c \in Code : used'[c] = IF Opens(s, c) /\ used[c] < 2 THEN used[c] + 1 ELSE used[c]
  <2>1. used \in [Code -> 0..2]
    BY DEF IInv, TypeOK
  <2>2. CASE req[s].code # NULL /\ used[req[s].code] < 2
    <3>1. used' = [used EXCEPT ![req[s].code] = @ + 1]
      BY <2>2 DEF login
    <3>2. QED
      BY <1>1, <2>1, <2>2, <3>1 DEF Opens
  <2>3. CASE ~(req[s].code # NULL /\ used[req[s].code] < 2)
    <3>1. used' = used
      BY <2>3 DEF login
    <3>2. QED
      BY <2>1, <2>3, <3>1, UserAccessAssumption DEF Opens
  <2>4. QED
    BY <2>2, <2>3
<1>7. TypeOK'
  BY <1>1, <1>3, <1>4, <1>5, <1>6 DEF IInv, TypeOK, Pair
<1>8. Shape'
  <2>1. ASSUME NEW r \in Slot, req'[r] # NULL, req'[r].do = "refresh"
        PROVE  req'[r].pair \in 1..pairs'
    <3>1. req'[r] = req[r] /\ req[r].pair \in 1..pairs
      BY <1>4, <2>1 DEF IInv, Shape
    <3>2. QED
      BY <1>1, <3>1
  <2>2. QED
    BY <1>4, <1>5, <2>1 DEF IInv, Shape
<1>9. CodesOnce'
  <2>1. \A r \in Slot, c \in Code : Opens(r, c)' <=> Opens(r, c) /\ r # s
    BY <1>4 DEF Opens
  <2>2. \A c \in Code : used'[c] > 0 => c \in saved
    BY <1>6, UserAccessAssumption DEF IInv, CodesOnce, Shape, Opens
  <2>3. ASSUME NEW c \in Code \ restored
        PROVE  /\ used'[c] < 2
               /\ c \in mfa.codes => c[1] = latest /\ used'[c] = 0
               /\ \A r \in Slot : Opens(r, c) /\ r # s =>
                    used'[c] = 0 /\ \A q \in Slot : Opens(q, c) /\ q # s => q = r
    BY <1>6 DEF IInv, CodesOnce
  <2>4. QED
    BY <1>5, <2>1, <2>2, <2>3 DEF IInv, CodesOnce
<1>10. PairsOnce'
  <2>1. \A r \in Slot, p \in Pair : Replaces(r, p)' =>
          Replaces(r, p) /\ req'[r] = req[r] /\ p # pairs + 1
    BY <1>1, <1>4 DEF Replaces, IInv, Shape
  <2>2. \A y \in Session : session'[y] # NULL => session'[y] \in 1..pairs'
    <3>1. \A y \in Session : session[y] # NULL => session[y] \in 1..pairs
      BY DEF IInv, PairsOnce
    <3>2. QED
      BY <1>1, <1>3, <3>1
  <2>3. \A p \in Pair : refreshed[p] > 0 => p <= pairs' /\ \A y \in Session : session'[y] # p
    BY <1>1, <1>3 DEF IInv, PairsOnce, Pair
  <2>4. \A y, z \in Session : session'[y] # NULL /\ session'[y] = session'[z] => y = z
    BY <1>1, <1>3 DEF IInv, PairsOnce
  <2>5. \A r \in Slot, p \in Pair : Replaces(r, p)' =>
          \E y \in Session : req'[r].todo = {y} /\ \A z \in Session : session'[z] = p => z = y
    BY <1>3, <2>1 DEF IInv, PairsOnce
  <2>6. QED
    BY <1>5, <2>1, <2>2, <2>3, <2>4, <2>5 DEF IInv, PairsOnce
<1>11. RevokedIsOver'
  BY <1>2, <1>3, <1>5 DEF IInv, RevokedIsOver, TypeOK
<1>12. QED
  BY <1>7, <1>8, <1>9, <1>10, <1>11 DEF IInv

LEMMA RefreshOK == ASSUME IInv, NEW s \in Slot, NEW x \in Session, Refresh(s, x) PROVE IInv'
<1>1. session[x] \in Pair /\ session[x] # NULL /\ req[s] = NULL
  BY DEF Refresh, IInv, TypeOK
<1>2. PICK new : new = [Request0 EXCEPT !.op = "refresh", !.do = "refresh", !.todo = {x},
                                        !.pair = session[x]]
  OBVIOUS
<1>3. /\ new \in Request
      /\ new.do = "refresh" /\ new.todo = {x} /\ new.pair = session[x] /\ new.code = NULL
  <2>1. Off \in Mfa /\ 0 \in 0..MaxDraw
    BY UserAccessAssumption DEF Off, Mfa
  <2>2. QED
    BY <1>1, <1>2, <2>1 DEF Request0, Request
<1>4. /\ req' \in [Slot -> Request \cup {NULL}]
      /\ \A r \in Slot \ {s} : req'[r] = req[r]
      /\ req'[s] = new /\ new # NULL
  <2>1. req' = [req EXCEPT ![s] = new]
    BY <1>2 DEF Refresh
  <2>2. QED
    BY <1>3, <2>1, UserAccessAssumption DEF IInv, TypeOK
<1>5. UNCHANGED <<mfa, session, pairs, ended, refreshed, draws, used, saved, restored, latest,
                  events>>
  BY DEF Refresh, codes
<1>6. /\ shared \subseteq shared' /\ shared' \in SUBSET Pair
      /\ (\E r \in Slot : Replaces(r, session[x])) => session[x] \in shared'
  BY <1>1 DEF Refresh, Does, Replaces, IInv, TypeOK
<1>7. TypeOK'
  BY <1>4, <1>5, <1>6 DEF IInv, TypeOK
<1>8. session[x] \in 1..pairs
  BY <1>1 DEF IInv, PairsOnce
<1>9. Shape'
  BY <1>3, <1>4, <1>5, <1>8 DEF IInv, Shape
<1>10. CodesOnce'
  <2>1. \A r \in Slot, c \in Code : Opens(r, c)' => Opens(r, c)
    BY <1>3, <1>4 DEF Opens
  <2>2. QED
    BY <1>5, <2>1 DEF IInv, CodesOnce
<1>11. PairsOnce'
  <2>1. \A r \in Slot, p \in Pair : Replaces(r, p)' <=>
          IF r = s THEN p = session[x] ELSE Replaces(r, p)
    BY <1>3, <1>4 DEF Replaces
  <2>2. \A r \in Slot, p \in Pair : Replaces(r, p)' =>
          \E y \in Session : req'[r].todo = {y} /\ \A z \in Session : session[z] = p => z = y
    BY <1>1, <1>3, <1>4, <2>1 DEF IInv, PairsOnce
  <2>3. ASSUME NEW p \in Pair \ shared'
        PROVE  /\ refreshed[p] < 2
               /\ \A r \in Slot : Replaces(r, p)' =>
                    refreshed[p] = 0 /\ \A q \in Slot : Replaces(q, p)' => q = r
    <3>1. p \in Pair \ shared
      BY <1>6
    <3>2. p = session[x] => refreshed[p] = 0 /\ \A r \in Slot : ~Replaces(r, p)
      BY <1>1, <1>6 DEF IInv, PairsOnce, TypeOK
    <3>3. QED
      BY <2>1, <3>1, <3>2 DEF IInv, PairsOnce
  <2>4. QED
    BY <1>5, <2>2, <2>3 DEF IInv, PairsOnce
<1>12. QED
  BY <1>5, <1>7, <1>9, <1>10, <1>11 DEF IInv, RevokedIsOver

LEMMA RefreshStepOK == ASSUME IInv, NEW s \in Slot, refresh(s) PROVE IInv'
<1> DEFINE p == req[s].pair
<1>1. /\ req[s] # NULL /\ req[s].do = "refresh" /\ req[s] \in Request
      /\ pairs' = pairs + 1 /\ pairs + 1 \in Pair /\ pairs \in Nat
      /\ p \in 1..pairs /\ p \in Pair
  BY UserAccessAssumption DEF refresh, Does, IInv, TypeOK, Shape, Pair
<1> HIDE DEF p
<1>2. Replaces(s, p)
  BY <1>1 DEF Replaces, p
<1>3. PICK x \in Session : req[s].todo = {x} /\ \A y \in Session : session[y] = p => y = x
  BY <1>1, <1>2 DEF IInv, PairsOnce
<1>4. session' = Replaced(x)
  BY <1>3 DEF refresh
<1>5. /\ session' \in [Session -> Pair \cup {NULL}]
      /\ session'[x] = IF session[x] = NULL THEN NULL ELSE pairs + 1
      /\ \A y \in Session \ {x} : session'[y] = session[y]
  BY <1>1, <1>4 DEF Replaced, IInv, TypeOK
<1>6. /\ req' \in [Slot -> Request \cup {NULL}]
      /\ \A r \in Slot \ {s} : req'[r] = req[r]
      /\ req'[s] = NULL
  BY DEF refresh, IInv, TypeOK
<1>7. UNCHANGED <<mfa, ended, shared, draws, used, saved, restored, latest, events>>
  BY DEF refresh, codes
<1>8. /\ refreshed' \in [Pair -> 0..2]
      /\ \A q \in Pair : refreshed'[q] = IF q = p /\ refreshed[q] < 2 THEN refreshed[q] + 1
                                         ELSE refreshed[q]
  BY <1>1 DEF refresh, p, IInv, TypeOK
<1>9. TypeOK'
  BY <1>1, <1>5, <1>6, <1>7, <1>8 DEF IInv, TypeOK, Pair
<1>10. Shape'
  <2>1. ASSUME NEW r \in Slot, req'[r] # NULL, req'[r].do = "refresh"
        PROVE  req'[r].pair \in 1..pairs'
    <3>1. req'[r] = req[r] /\ req[r].pair \in 1..pairs
      BY <1>6, <2>1 DEF IInv, Shape
    <3>2. QED
      BY <1>1, <3>1
  <2>2. QED
    BY <1>6, <1>7, <2>1 DEF IInv, Shape
<1>11. CodesOnce'
  <2>1. \A r \in Slot, c \in Code : Opens(r, c)' => Opens(r, c)
    BY <1>6 DEF Opens
  <2>2. QED
    BY <1>7, <2>1 DEF IInv, CodesOnce
<1>12. PairsOnce'
  <2>1. \A r \in Slot, q \in Pair : Replaces(r, q)' <=> Replaces(r, q) /\ r # s
    BY <1>6 DEF Replaces
  <2>2. \A r \in Slot, q \in Pair : Replaces(r, q) => q # pairs + 1
    BY <1>1 DEF Replaces, IInv, Shape
  <2>3. \A y \in Session : session'[y] # NULL => session'[y] \in 1..pairs'
    <3>1. \A y \in Session : session[y] # NULL => session[y] \in 1..pairs
      BY DEF IInv, PairsOnce
    <3>2. QED
      BY <1>1, <1>5, <3>1
  <2>4. ASSUME NEW q \in Pair, refreshed'[q] > 0
        PROVE  q <= pairs' /\ \A y \in Session : session'[y] # q
    <3>1. CASE q = p
      <4>1. q <= pairs' /\ q # pairs + 1 /\ q # NULL
        BY <1>1, <2>4, <3>1, UserAccessAssumption
      <4>2. QED
        BY <1>3, <1>5, <3>1, <4>1
    <3>2. CASE q # p
      <4>1. refreshed[q] > 0
        BY <1>8, <2>4, <3>2
      <4>2. q <= pairs /\ \A y \in Session : session[y] # q
        BY <4>1 DEF IInv, PairsOnce
      <4>3. q # pairs + 1 /\ q <= pairs' /\ q # NULL
        BY <1>1, <4>2, UserAccessAssumption DEF Pair
      <4>4. QED
        BY <1>5, <4>2, <4>3
    <3>3. QED
      BY <3>1, <3>2
  <2>5. \A y, z \in Session : session'[y] # NULL /\ session'[y] = session'[z] => y = z
    <3>1. \A y \in Session : session[y] # pairs + 1
      BY <1>1, UserAccessAssumption DEF IInv, PairsOnce
    <3>2. QED
      BY <1>5, <3>1 DEF IInv, PairsOnce
  <2>6. \A r \in Slot, q \in Pair : Replaces(r, q)' =>
          \E y \in Session : req'[r].todo = {y} /\ \A z \in Session : session'[z] = q => z = y
    <3>1. SUFFICES ASSUME NEW r \in Slot, NEW q \in Pair, Replaces(r, q), r # s
                   PROVE  \E y \in Session : /\ req[r].todo = {y}
                                             /\ \A z \in Session : session'[z] = q => z = y
      BY <1>6, <2>1
    <3>2. PICK y \in Session : req[r].todo = {y} /\ \A z \in Session : session[z] = q => z = y
      BY <3>1 DEF IInv, PairsOnce
    <3>3. q # NULL /\ q # pairs + 1
      BY <2>2, <3>1, UserAccessAssumption
    <3>4. \A z \in Session : session'[z] = q => session[z] = q
      BY <1>5, <3>3
    <3>5. QED
      BY <3>2, <3>4
  <2>7. ASSUME NEW q \in Pair \ shared
        PROVE  /\ refreshed'[q] < 2
               /\ \A r \in Slot : Replaces(r, q) /\ r # s =>
                    refreshed'[q] = 0 /\ \A t \in Slot : Replaces(t, q) /\ t # s => t = r
    BY <1>2, <1>8 DEF IInv, PairsOnce
  <2>8. QED
    BY <1>7, <2>1, <2>3, <2>4, <2>5, <2>6, <2>7 DEF PairsOnce
<1>13. RevokedIsOver'
  BY <1>5, <1>7 DEF IInv, RevokedIsOver, TypeOK
<1>14. QED
  BY <1>9, <1>10, <1>11, <1>12, <1>13 DEF IInv

LEMMA RevokeOK == ASSUME IInv, NEW s \in Slot, Revoke(s) PROVE IInv'
<1>1. PICK xs \in SUBSET Session :
        req' = [req EXCEPT ![s] = [Request0 EXCEPT !.op = "delete", !.do = "delete", !.todo = xs]]
  BY DEF Revoke
<1>2. PICK new : new = [Request0 EXCEPT !.op = "delete", !.do = "delete", !.todo = xs]
  OBVIOUS
<1>3. new \in Request /\ new.do = "delete" /\ new.code = NULL
  <2>1. Off \in Mfa /\ 0 \in 0..MaxDraw
    BY UserAccessAssumption DEF Off, Mfa
  <2>2. QED
    BY <1>2, <2>1 DEF Request0, Request
<1>4. /\ req' \in [Slot -> Request \cup {NULL}]
      /\ \A r \in Slot \ {s} : req'[r] = req[r]
      /\ req'[s] = new /\ new # NULL
  BY <1>1, <1>2, <1>3, UserAccessAssumption DEF IInv, TypeOK
<1>5. UNCHANGED <<mfa, session, pairs, ended, refreshed, shared, draws, used, saved, restored,
                  latest, events>>
  BY DEF Revoke, tokens, codes
<1>6. Shape'
  BY <1>3, <1>4, <1>5 DEF IInv, Shape
<1>7. (\A c \in Code : ~Opens(s, c)') /\ (\A p \in Pair : ~Replaces(s, p)')
  BY <1>3, <1>4 DEF Opens, Replaces
<1>8. draws' \in 0..MaxDraw /\ shared' \in SUBSET Pair /\ events' \in 0..MaxEvents
  BY <1>5 DEF IInv, TypeOK
<1>9. QED
  BY <1>4, <1>5, <1>6, <1>7, <1>8, SlotKeeps

LEMMA DeleteOK == ASSUME IInv, NEW s \in Slot, delete(s) PROVE IInv'
<1>1. req[s] # NULL /\ req[s].do = "delete" /\ req[s] \in Request /\ req[s].todo \subseteq Session
  BY DEF delete, Does, IInv, TypeOK, Request
<1>2. PICK x \in req[s].todo :
        /\ session' = [session EXCEPT ![x] = NULL]
        /\ ended' = ended \cup {x}
        /\ req' = [req EXCEPT ![s] = IF req[s].todo = {x} THEN NULL
                                     ELSE [req[s] EXCEPT !.todo = @ \ {x}]]
  BY DEF delete
<1>3. /\ session' \in [Session -> Pair \cup {NULL}]
      /\ session'[x] = NULL
      /\ \A y \in Session \ {x} : session'[y] = session[y]
  BY <1>1, <1>2 DEF IInv, TypeOK
<1>4. /\ req' \in [Slot -> Request \cup {NULL}]
      /\ \A r \in Slot \ {s} : req'[r] = req[r]
      /\ req'[s] # NULL => req'[s].do = "delete" /\ req'[s].code = req[s].code
  <2>1. PICK new : new = [req[s] EXCEPT !.todo = @ \ {x}]
    OBVIOUS
  <2>2. new \in Request /\ new.do = "delete" /\ new.code = req[s].code
    BY <1>1, <2>1 DEF Request
  <2>3. req \in [Slot -> Request \cup {NULL}]
    BY DEF IInv, TypeOK
  <2>4. CASE req[s].todo = {x}
    BY <1>2, <2>3, <2>4
  <2>5. CASE req[s].todo # {x}
    <3>1. req' = [req EXCEPT ![s] = new]
      BY <1>2, <2>1, <2>5
    <3>2. QED
      BY <2>2, <2>3, <3>1
  <2>6. QED
    BY <2>4, <2>5
<1>5. UNCHANGED <<mfa, pairs, refreshed, shared, draws, used, saved, restored, latest, events>>
  BY DEF delete, codes
<1>6. TypeOK'
  BY <1>1, <1>2, <1>3, <1>4, <1>5 DEF IInv, TypeOK
<1>7. Shape'
  BY <1>1, <1>4, <1>5 DEF IInv, Shape
<1>8. CodesOnce'
  <2>1. \A r \in Slot, c \in Code : Opens(r, c)' => Opens(r, c)
    BY <1>4 DEF Opens
  <2>2. QED
    BY <1>5, <2>1 DEF IInv, CodesOnce
<1>9. PairsOnce'
  <2>1. \A r \in Slot, p \in Pair : Replaces(r, p)' => Replaces(r, p) /\ req'[r] = req[r]
    BY <1>4 DEF Replaces
  <2>2. \A y \in Session, p \in Pair : session'[y] = p => session[y] = p
    BY <1>3, UserAccessAssumption
  <2>3. \A y \in Session : session'[y] # NULL => session'[y] = session[y]
    BY <1>3
  <2>4. \A y, z \in Session : session'[y] # NULL /\ session'[y] = session'[z] => y = z
    BY <2>3 DEF IInv, PairsOnce
  <2>5. QED
    BY <1>5, <2>1, <2>2, <2>3, <2>4 DEF IInv, PairsOnce
<1>10. RevokedIsOver'
  BY <1>1, <1>2, <1>3 DEF IInv, RevokedIsOver, TypeOK
<1>11. QED
  BY <1>6, <1>7, <1>8, <1>9, <1>10 DEF IInv

-----------------------------------------------------------------------------
\* Every step keeps the invariant

LEMMA NextOK == IInv /\ [Next]_vars => IInv'
<1> SUFFICES ASSUME IInv, [Next]_vars PROVE IInv'
  OBVIOUS
<1>1. CASE UNCHANGED vars
  BY <1>1 DEF vars, IInv, TypeOK, Shape, CodesOnce, Opens, PairsOnce, Replaces, RevokedIsOver
<1>2. ASSUME NEW s \in Slot, regenerateFails(s) PROVE IInv'
  BY <1>2, FreeOK DEF regenerateFails, IInv, TypeOK
<1>3. ASSUME NEW s \in Slot, Crash(s) PROVE IInv'
  <2>1. events' \in 0..MaxEvents
    BY <1>3, UserAccessAssumption DEF Crash, IInv, TypeOK
  <2>2. QED
    BY <1>3, <2>1, FreeOK DEF Crash
<1>4. QED
  BY <1>1, <1>2, <1>3, SetupOK, EnableOK, DisableOK, RegenerateOK, RegenerateStepOK, SaveOK,
     LoginPlainOK, LoginOtpOK, LoginCodeOK, LoginOK, RefreshOK, RefreshStepOK, RevokeOK,
     DeleteOK, RotateKeyOK
  DEF Next

LEMMA Invariance == Spec => []IInv
<1>1. QED
  BY InitOK, NextOK, PTL DEF Spec

-----------------------------------------------------------------------------
\* The theorems

\* Types, with chk_user_two_factor_state_enabled_secret: no save enables the factor
\* without a secret, whatever it overwrites.
THEOREM TypeCorrect == Spec => []TypeOK
<1>1. IInv => TypeOK
  BY DEF IInv
<1>2. QED
  BY <1>1, Invariance, PTL

\* consumeRecoveryCode: a code opens one session, but for the saves that bring it back.
THEOREM CodesOpenOneSession == Spec => []OneShotCodes
<1>1. IInv => OneShotCodes
  BY DEF IInv, TypeOK, CodesOnce, OneShotCodes
<1>2. QED
  BY <1>1, Invariance, PTL

\* regenerateRecoveryCodes and disable end the codes there were.
THEOREM OldCodesEnd == Spec => []OldCodesAreOver
<1>1. IInv => OldCodesAreOver
  BY DEF IInv, TypeOK, Mfa, CodesOnce, OldCodesAreOver
<1>2. QED
  BY <1>1, Invariance, PTL

\* A session that revoke, revokeSession or revokeOtherSessions deleted stays deleted.
THEOREM RevokedStaysRevoked == Spec => []RevokedIsOver
<1>1. IInv => RevokedIsOver
  BY DEF IInv
<1>2. QED
  BY <1>1, Invariance, PTL

\* refresh answers a refresh token once, but to requests that had read it together.
THEOREM RefreshTokensAreSpentOnce == Spec => []OneRefreshPerToken
<1>1. IInv => OneRefreshPerToken
  BY DEF IInv, TypeOK, PairsOnce, OneRefreshPerToken
<1>2. QED
  BY <1>1, Invariance, PTL

\* Only enable and disable switch the second factor, and saves of a row that has changed.
THEOREM SwitchesAreMeant == Spec => SwitchedOnPurpose
<1>1. IInv /\ [Next]_vars =>
        [mfa'.enabled # mfa.enabled =>
           \E s \in Slot : /\ Does(s, "save")
                           /\ req[s].op \in {"enable", "disable"} \/ req[s].seen # mfa]_vars
  <2> SUFFICES ASSUME IInv, Next, mfa'.enabled # mfa.enabled
               PROVE  \E s \in Slot : /\ Does(s, "save")
                                      /\ req[s].op \in {"enable", "disable"} \/ req[s].seen # mfa
    OBVIOUS
  <2>1. RotateKey => mfa'.enabled = mfa.enabled
    BY DEF RotateKey, IInv, TypeOK, Mfa
  <2>2. ASSUME NEW s \in Slot, save(s)
        PROVE  Does(s, "save") /\ (req[s].op \in {"enable", "disable"} \/ req[s].seen # mfa)
    BY <2>2 DEF save, Does, IInv, Shape
  <2>3. QED
    BY <2>1, <2>2 DEF Next, Setup, Enable, Disable, Regenerate, regenerate, regenerateFails,
         LoginPlain, LoginOtp, LoginCode, login, Refresh, refresh, Revoke, delete, Crash, Work,
         tokens, codes
<1>2. QED
  BY <1>1, Invariance, PTL DEF Spec, SwitchedOnPurpose
=============================================================================
