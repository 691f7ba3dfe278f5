----------------------------- MODULE UserAccess ------------------------------
(***************************************************************************)
(* A user's second factor, and the sessions that logging in opens.         *)
(*                                                                         *)
(* The state of the second factor is one row.  A request reads it, works   *)
(* on the copy and writes all of it back, so that two requests can undo    *)
(* what the other did.  A session is one row with the current pair of an   *)
(* access and a refresh token; it is written through Doctrine, which only  *)
(* updates what has changed and does nothing if the row is gone.           *)
(***************************************************************************)
EXTENDS Naturals, FiniteSets

CONSTANTS
    Session,      \* the sessions that can be opened
    Slot,         \* requests under way at once
    Place,        \* the places of a set of recovery codes: ten in the code
    NULL,         \* no session, no request, no code
    MaxDraw,      \* bound: sets of recovery codes that are drawn
    MaxPair,      \* bound: pairs of tokens that are issued
    MaxEvents     \* bound: rotations of the encryption key, requests that die

VARIABLES
    mfa,          \* the row in user_two_factor_state
    session,      \* user_auth_session: the pair of each session
    req,          \* what each slot is doing
    draws,        \* how many sets of codes were drawn
    pairs,        \* how many pairs were issued
    used,         \* history: logins with each code
    saved,        \* history: codes that have been in the row
    restored,     \* history: codes that a save brought back, or that two logins read
    latest,       \* history: the set of codes saved last
    ended,        \* history: sessions that were deleted
    refreshed,    \* history: answers to each refresh token
    shared,       \* history: pairs that two refreshes read before either replaced them
    events        \* how many events of MaxEvents have happened

vars == <<mfa, session, req, draws, pairs, used, saved, restored, latest, ended, refreshed,
          shared, events>>

-----------------------------------------------------------------------------
\* Types

\* A code is the set it was drawn in and its place there.
Draw == 1..MaxDraw
Code == Draw \X Place
Codes(d) == {d} \X Place

Pair == 1..MaxPair

\* old: secret_encrypted names a key that is not the active one.
Mfa == [enabled: BOOLEAN, pending: BOOLEAN, secret: BOOLEAN, old: BOOLEAN, codes: SUBSET Code]

\* What the request read and what it will save; what it does now, and after the save.
Request == [op: {"setup", "enable", "disable", "regenerate", "login", "refresh", "delete"},
            do: {"save", "regenerate", "login", "refresh", "delete"},
            then: {"regenerate", "login", "done"},
            seen: Mfa, next: Mfa, draw: 0..MaxDraw, code: Code \cup {NULL},
            todo: SUBSET Session, pair: Pair \cup {NULL}]

ASSUME UserAccessAssumption ==
    /\ NULL \notin Session /\ NULL \notin Request /\ NULL \notin Code /\ NULL \notin Pair
    /\ MaxDraw \in Nat /\ MaxPair \in Nat /\ MaxEvents \in Nat

\* With what chk_user_two_factor_state_enabled_secret asks of the row.
TypeOK ==
    /\ mfa \in Mfa
    /\ mfa.enabled => mfa.secret
    /\ session \in [Session -> Pair \cup {NULL}]
    /\ req \in [Slot -> Request \cup {NULL}]
    /\ draws \in 0..MaxDraw
    /\ pairs \in 0..MaxPair
    /\ used \in [Code -> 0..2]
    /\ saved \in SUBSET Code
    /\ restored \in SUBSET Code
    /\ latest \in 0..MaxDraw
    /\ ended \in SUBSET Session
    /\ refreshed \in [Pair -> 0..2]
    /\ shared \in SUBSET Pair
    /\ events \in 0..MaxEvents

Off == [enabled |-> FALSE, pending |-> FALSE, secret |-> FALSE, old |-> FALSE, codes |-> {}]

\* A user who has disabled the second factor.
Init ==
    /\ mfa = Off
    /\ session = [x \in Session |-> NULL]
    /\ req = [s \in Slot |-> NULL]
    /\ draws = 0
    /\ pairs = 0
    /\ used = [c \in Code |-> 0]
    /\ saved = {}
    /\ restored = {}
    /\ latest = 0
    /\ ended = {}
    /\ refreshed = [p \in Pair |-> 0]
    /\ shared = {}
    /\ events = 0

-----------------------------------------------------------------------------
\* Helpers

tokens == <<session, pairs, ended, refreshed, shared>>
codes == <<draws, used, saved, restored, latest>>

Request0 == [op |-> "login", do |-> "login", then |-> "done", seen |-> Off, next |-> Off,
             draw |-> 0, code |-> NULL, todo |-> {}, pair |-> NULL]

\* A request that has read the row and changed its copy.
Work(s, op, next, then, code) ==
    /\ req[s] = NULL
    /\ req' = [req EXCEPT ![s] = [Request0 EXCEPT
                 !.op = op, !.do = IF next = mfa /\ then # "done" THEN then ELSE "save", !.then = then,
                 !.seen = mfa, !.next = next, !.code = code]]
    /\ UNCHANGED <<mfa, tokens, codes, events>>

Does(s, do) == req[s] # NULL /\ req[s].do = do

\* What comes after the save; the copies are of no use any more.
After(s) ==
    req' = [req EXCEPT ![s] =
              IF @.then = "done" THEN NULL
              ELSE [@ EXCEPT !.do = req[s].then, !.seen = Off, !.next = Off]]

\* The authenticator's codes are those of the secret that was read: a request with
\* another changes nothing.  resolveSecretFromState encrypts the secret anew.
Encrypted(row) == [row EXCEPT !.old = FALSE]

-----------------------------------------------------------------------------
\* TwoFactorService

\* Mutant: setting up begins from nothing, whether or not the factor is enabled.
Setup_Over(s) == Work(s, "setup", [Off EXCEPT !.pending = TRUE], "done", NULL)

\* A pending secret is replaced by another one, with the same state.
Setup(s) ==
    /\ ~mfa.enabled
    /\ Work(s, "setup", [mfa EXCEPT !.pending = TRUE], "done", NULL)

\* Mutant: the pending secret does not become the secret.
Enable_NoSecret(s) ==
    /\ ~mfa.enabled /\ mfa.pending
    /\ Work(s, "enable", [Encrypted(mfa) EXCEPT !.enabled = TRUE, !.pending = FALSE],
            "regenerate", NULL)

\* EnableTwoFactorHandler goes on to draw the recovery codes.
Enable(s) ==
    /\ ~mfa.enabled /\ mfa.pending
    /\ Work(s, "enable", [Encrypted(mfa) EXCEPT !.enabled = TRUE, !.secret = TRUE, !.pending = FALSE],
            "regenerate", NULL)

Disable(s) ==
    /\ mfa.enabled
    /\ Work(s, "disable", Off, "done", NULL)

\* RegenerateTwoFactorRecoveryCodesHandler: verifyOtp first
Regenerate(s) ==
    /\ mfa.enabled
    /\ Work(s, "regenerate", Encrypted(mfa), "regenerate", NULL)

\* Mutant: the codes there are stay good.
regenerate_Keep(s) ==
    /\ Does(s, "regenerate")
    /\ mfa.enabled /\ draws < MaxDraw
    /\ req' = [req EXCEPT ![s].do = "save", ![s].then = "done", ![s].seen = mfa,
                          ![s].draw = draws + 1,
                          ![s].next = [mfa EXCEPT !.codes = @ \cup Codes(draws + 1)]]
    /\ draws' = draws + 1
    /\ UNCHANGED <<mfa, tokens, used, saved, restored, latest, events>>

\* regenerateRecoveryCodes reads the row again.
regenerate(s) ==
    /\ Does(s, "regenerate")
    /\ mfa.enabled /\ draws < MaxDraw
    /\ req' = [req EXCEPT ![s].do = "save", ![s].then = "done", ![s].seen = mfa,
                          ![s].draw = draws + 1,
                          ![s].next = [mfa EXCEPT !.codes = Codes(draws + 1)]]
    /\ draws' = draws + 1
    /\ UNCHANGED <<mfa, tokens, used, saved, restored, latest, events>>

\* MFA_NOT_ENABLED, if it was disabled since.
regenerateFails(s) ==
    /\ Does(s, "regenerate")
    /\ ~mfa.enabled
    /\ req' = [req EXCEPT ![s] = NULL]
    /\ UNCHANGED <<mfa, tokens, codes, events>>

\* The whole row is written, whatever it has become.
save(s) ==
    /\ Does(s, "save")
    /\ mfa' = req[s].next
    /\ saved' = saved \cup req[s].next.codes
    /\ restored' = restored \cup ((req[s].next.codes \ mfa.codes) \cap saved)
                            \cup ({req[s].code} \ (mfa.codes \cup {NULL}))
    /\ latest' = IF req[s].draw # 0 THEN req[s].draw ELSE latest
    /\ After(s)
    /\ UNCHANGED <<tokens, draws, used, events>>

\* An operator makes another key the active one.
RotateKey ==
    /\ mfa.secret /\ ~mfa.old
    /\ events < MaxEvents /\ events' = events + 1
    /\ mfa' = [mfa EXCEPT !.old = TRUE]
    /\ UNCHANGED <<req, tokens, codes>>

-----------------------------------------------------------------------------
\* Logging in: the password is right; the second factor is asked for if it is enabled.

LoginPlain(s) == ~mfa.enabled /\ Work(s, "login", mfa, "login", NULL)

\* verifyLoginOtp
LoginOtp(s) == mfa.enabled /\ Work(s, "login", Encrypted(mfa), "login", NULL)

\* Mutant: the code is checked but not consumed.
LoginCode_Check(s, code) ==
    /\ mfa.enabled /\ code \in mfa.codes
    /\ Work(s, "login", mfa, "login", code)

\* consumeRecoveryCode
LoginCode(s, code) ==
    /\ mfa.enabled /\ code \in mfa.codes
    /\ Work(s, "login", [mfa EXCEPT !.codes = @ \ {code}], "login", code)

\* UserAccessTokenService::issue
login(s) ==
    /\ Does(s, "login")
    /\ pairs < MaxPair
    /\ pairs' = pairs + 1
    /\ \E x \in Session :
         /\ session[x] = NULL /\ x \notin ended
         /\ session' = [session EXCEPT ![x] = pairs + 1]
    /\ used' = IF req[s].code # NULL /\ used[req[s].code] < 2
               THEN [used EXCEPT ![req[s].code] = @ + 1] ELSE used
    /\ req' = [req EXCEPT ![s] = NULL]
    /\ UNCHANGED <<mfa, draws, saved, restored, latest, ended, refreshed, shared, events>>

-----------------------------------------------------------------------------
\* Sessions

\* refresh, with the refresh token that is valid: a request for session x
Refresh(s, x) ==
    /\ req[s] = NULL
    /\ session[x] # NULL
    /\ req' = [req EXCEPT ![s] = [Request0 EXCEPT
                 !.op = "refresh", !.do = "refresh", !.todo = {x}, !.pair = session[x]]]
    /\ shared' = IF \E r \in Slot : Does(r, "refresh") /\ req[r].pair = session[x]
                 THEN shared \cup {session[x]} ELSE shared
    /\ UNCHANGED <<mfa, session, pairs, ended, refreshed, codes, events>>

\* Mutant: the row is inserted if it is gone.
Replaced_Upsert(x) == [session EXCEPT ![x] = pairs + 1]

Replaced(x) == IF session[x] = NULL THEN session ELSE [session EXCEPT ![x] = pairs + 1]

\* Mutant: the refresh token stays.
refresh_Keep(s) ==
    /\ Does(s, "refresh")
    /\ refreshed' = IF refreshed[req[s].pair] < 2
                    THEN [refreshed EXCEPT ![req[s].pair] = @ + 1] ELSE refreshed
    /\ req' = [req EXCEPT ![s] = NULL]
    /\ UNCHANGED <<mfa, session, pairs, ended, shared, codes, events>>

\* issueForPrincipal: a new pair for the session, if it is still there; the answer is the
\* same.
refresh(s) ==
    /\ Does(s, "refresh")
    /\ pairs < MaxPair
    /\ pairs' = pairs + 1
    /\ \E x \in req[s].todo : session' = Replaced(x)
    /\ refreshed' = IF refreshed[req[s].pair] < 2
                    THEN [refreshed EXCEPT ![req[s].pair] = @ + 1] ELSE refreshed
    /\ req' = [req EXCEPT ![s] = NULL]
    /\ UNCHANGED <<mfa, ended, shared, codes, events>>

\* A request reads sessions it will delete: the one of its own token (revoke), another
\* one (revokeSession), one that it found expired, or all but the current one
\* (revokeOtherSessions).
Revoke(s) ==
    /\ req[s] = NULL
    /\ LET live == {x \in Session : session[x] # NULL} IN
       \E xs \in {{x} : x \in live} \cup {live \ {x} : x \in live} :
          /\ xs # {}
          /\ req' = [req EXCEPT ![s] = [Request0 EXCEPT !.op = "delete", !.do = "delete", !.todo = xs]]
    /\ UNCHANGED <<mfa, tokens, codes, events>>

\* One row after the other, however often it was refreshed in between.
delete(s) ==
    /\ Does(s, "delete")
    /\ \E x \in req[s].todo :
         /\ session' = [session EXCEPT ![x] = NULL]
         /\ ended' = ended \cup {x}
         /\ req' = [req EXCEPT ![s] = IF req[s].todo = {x} THEN NULL
                                      ELSE [req[s] EXCEPT !.todo = @ \ {x}]]
    /\ UNCHANGED <<mfa, pairs, refreshed, shared, codes, events>>

Crash(s) ==
    /\ req[s] # NULL
    /\ events < MaxEvents /\ events' = events + 1
    /\ req' = [req EXCEPT ![s] = NULL]
    /\ UNCHANGED <<mfa, tokens, codes>>

-----------------------------------------------------------------------------
Next ==
    \/ \E s \in Slot :
         \/ Setup(s) \/ Enable(s) \/ Disable(s) \/ Regenerate(s)
         \/ regenerate(s) \/ regenerateFails(s) \/ save(s)
         \/ LoginPlain(s) \/ LoginOtp(s) \/ login(s)
         \/ \E code \in Code : LoginCode(s, code)
         \/ \E x \in Session : Refresh(s, x)
         \/ refresh(s) \/ Revoke(s) \/ delete(s) \/ Crash(s)
    \/ RotateKey

Spec == Init /\ [][Next]_vars

-----------------------------------------------------------------------------
\* Properties

\* A recovery code opens one session, unless a second login had read it before the first
\* had consumed it, or a save that began before brought it back - that of any request,
\* a login with a one-time password included when it encrypts the secret anew.
OneShotCodes == \A c \in Code : used[c] > 1 => c \in restored

\* Drawing new codes ends the old ones, and disabling ends them all: the row has codes of
\* the set that was saved last, and no consumed one, but for those a save brought back.
OldCodesAreOver ==
    \A c \in mfa.codes \ restored : c[1] = latest /\ used[c] = 0

\* The second factor is switched on and off by enable and disable alone, unless a save
\* overwrites what it has not read.
SwitchedOnPurpose ==
    [][mfa'.enabled # mfa.enabled =>
          \E s \in Slot : /\ Does(s, "save")
                          /\ req[s].op \in {"enable", "disable"} \/ req[s].seen # mfa]_vars

\* A session that was revoked does not come back, whatever refreshes were under way.
RevokedIsOver == \A x \in ended : session[x] = NULL

\* A refresh token is answered with new tokens once, unless two requests had read it
\* before either replaced it: of these pairs one was dead when it was answered.
OneRefreshPerToken == \A p \in Pair : refreshed[p] > 1 => p \in shared
=============================================================================
