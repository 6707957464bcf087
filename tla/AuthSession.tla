----------------------------- MODULE AuthSession -----------------------------
(***************************************************************************)
(* The login session of processor/auth, and the startup status that        *)
(* app/http/services derives from it.  A session is its refresh token,     *)
(* numbered in the order the account server issued it; 0 is "no session".  *)
(* It is kept twice: in SQLite (db) and in currentUserInfo (mem).  The     *)
(* server rotates: a refresh invalidates the token it was made with.       *)
(*                                                                         *)
(* RefreshSession is serialised by refreshSessionMu; RestoreSession,       *)
(* LoginWithPassword, LogoutUser and UpdateUserProfile write the same two  *)
(* copies without it.  Every access to SQLite, to currentUserInfo, to the  *)
(* startup status and to the network is one step.                          *)
(*                                                                         *)
(* Each member of the call sets is one call: of AuthService.RefreshSession *)
(* (Refreshes), of the ticker's refreshUserInfo (Ticks), RestoreSession    *)
(* (Restores), Login (Logins), LogoutUser (Logouts), UpdateUserProfile     *)
(* (Updates).                                                              *)
(***************************************************************************)
EXTENDS Naturals, FiniteSets

CONSTANTS
    Refreshes, Ticks, Restores, Logins, Logouts, Updates,
    Free,            \* value of lock when nobody holds refreshSessionMu
    Scenarios,       \* which calls are made together, and whether it is harsh
    InitialSession,  \* sessions the process may start with (0: none, 1: one)
    MaxToken         \* bound: tokens the server issues

Refreshers == Refreshes \cup Ticks \cup Restores     \* callers of RefreshSession
Calls == Refreshers \cup Logins \cup Logouts \cup Updates

ASSUME CallKindsDisjoint ==
    /\ Refreshes \cap Ticks = {}
    /\ (Refreshes \cup Ticks) \cap Restores = {}
    /\ Logins \cap Refreshers = {}
    /\ Logouts \cap (Refreshers \cup Logins) = {}
    /\ Updates \cap (Refreshers \cup Logins \cup Logouts) = {}
    /\ Free \notin Calls
ASSUME ScenariosAssumption == Scenarios \subseteq [calls : SUBSET Calls, harsh : BOOLEAN]
ASSUME MaxTokenAssumption == MaxToken \in Nat \ {0}
ASSUME InitialSessionAssumption == InitialSession \subseteq {0, 1}

VARIABLES
    db, mem,         \* the persisted session and currentUserInfo
    issued,          \* number of tokens issued by the server
    valid,           \* tokens the server accepts
    superseded,      \* tokens a refresh has rotated away
    lock,            \* the call that holds refreshSessionMu, or Free
    status,          \* StartupState.status
    refresherOn,     \* the token refresher is running
    pc,              \* where each call stands
    tok,             \* the token a call works with
    fresh,           \* the token it has just obtained from the server
    harsh,           \* environment: what follows the server's answer may fail
                     \* (reading the response, fetching the profile, a write to
                     \* SQLite), and the server may revoke a session by itself
    began,           \* the process started with a session (never changes)
    loading          \* LoadUserInfo has read this from SQLite and is about to
                     \* store it in currentUserInfo (0: no load under way)

serverVars == <<issued, valid, superseded>>
localVars == <<tok, fresh, loading>>
env == <<harsh, began>>
vars == <<db, mem, serverVars, lock, status, refresherOn, pc, env, localVars>>

Session == 0..MaxToken
\* "absent": a call that is never made
Pcs == {"absent", "idle", "lock", "reuse", "send", "profile", "saveDb", "saveMem", "clearStop",
        "clearDb", "clearMem", "fallback", "sync", "unsync", "remote",
        "stop", "request", "current", "done"}

TypeOK ==
    /\ db \in Session /\ mem \in Session /\ issued \in Session
    /\ valid \subseteq 1..issued
    /\ superseded \subseteq 1..issued
    /\ lock \in Refreshers \cup {Free}
    /\ status \in {"UNCONFIGURED", "READY"}
    /\ refresherOn \in BOOLEAN
    /\ pc \in [Calls -> Pcs]
    /\ harsh \in BOOLEAN /\ began \in BOOLEAN
    /\ tok \in [Calls -> Session]
    /\ fresh \in [Calls -> Session]
    /\ loading \in [Calls -> Session]

\* What InitializeUser leaves behind when it has found a session, or none.
Init ==
    /\ db \in InitialSession
    /\ mem = db /\ issued = db
    /\ began = (db # 0)
    /\ status = IF db = 0 THEN "UNCONFIGURED" ELSE "READY"
    /\ refresherOn = (db # 0)
    /\ valid = 1..issued
    /\ superseded = {}
    /\ lock = Free
    /\ \E scenario \in Scenarios :
          /\ pc = [p \in Calls |-> IF p \in scenario.calls THEN "idle" ELSE "absent"]
          /\ harsh = scenario.harsh
    /\ tok = [p \in Calls |-> 0]
    /\ fresh = [p \in Calls |-> 0]
    /\ loading = [p \in Calls |-> 0]

-----------------------------------------------------------------------------
(* Helpers *)

\* GetCurrentUserInfoOrLoad: memory when it holds a session, else SQLite.
Current == IF mem # 0 THEN mem ELSE db

\* A call at this point of its code, with no load of its own under way.
At(p, point) == pc[p] = point /\ loading[p] = 0

Goto(p, point) == pc' = [pc EXCEPT ![p] = point]

\* The load that GetCurrentUserInfoOrLoad starts when memory is empty.
StartLoadIfEmpty(p) ==
    loading' = [loading EXCEPT ![p] = IF mem = 0 THEN db ELSE 0]

\* LoadUserInfo's second half: memory becomes what SQLite held when it was read.
FinishLoad(p) ==
    /\ loading[p] # 0
    /\ mem' = loading[p]
    /\ loading' = [loading EXCEPT ![p] = 0]
    /\ UNCHANGED <<env, db, serverVars, lock, status, refresherOn, pc, tok, fresh>>

\* The server issues the next token, in place of `old` or beside it.
Issue(p, old) ==
    /\ issued < MaxToken
    /\ issued' = issued + 1
    /\ valid' = (valid \ old) \cup {issued + 1}
    /\ superseded' = superseded \cup old
    /\ fresh' = [fresh EXCEPT ![p] = issued + 1]

-----------------------------------------------------------------------------
(* The callers of RefreshSession *)

\* POST /api/auth/refresh: with the token of the request, one the client has
\* held at some time, or with the current one.
RefreshBegin(p) ==
    /\ At(p, "idle") /\ p \in Refreshes
    /\ \/ \E given \in superseded \cup ({db, mem} \ {0}) :
             tok' = [tok EXCEPT ![p] = given] /\ Goto(p, "lock") /\ UNCHANGED loading
       \/ /\ Current # 0
          /\ tok' = [tok EXCEPT ![p] = Current]
          /\ StartLoadIfEmpty(p)
          /\ Goto(p, "lock")
       \/ Current = 0 /\ Goto(p, "done") /\ UNCHANGED <<tok, loading>>
    /\ UNCHANGED <<env, db, mem, serverVars, lock, status, refresherOn, fresh>>

\* A tick of the refresher: "no user info to refresh", or the current token.
TickBegin(p) ==
    /\ At(p, "idle") /\ p \in Ticks /\ refresherOn
    /\ tok' = [tok EXCEPT ![p] = Current]
    /\ StartLoadIfEmpty(p)
    /\ Goto(p, IF Current = 0 THEN "done" ELSE "lock")
    /\ UNCHANGED <<env, db, mem, serverVars, lock, status, refresherOn, fresh>>

\* RestoreSession always reads SQLite; without a session it only returns an error.
RestoreBegin(p) ==
    /\ At(p, "idle") /\ p \in Restores
    /\ tok' = [tok EXCEPT ![p] = db]
    /\ loading' = [loading EXCEPT ![p] = db]
    /\ Goto(p, IF db = 0 THEN "done" ELSE "lock")
    /\ UNCHANGED <<env, db, mem, serverVars, lock, status, refresherOn, fresh>>

-----------------------------------------------------------------------------
(* RefreshSession *)

\* Variant for checking the properties: the session is not looked at again.
RefreshLockBlind(p) ==
    /\ At(p, "lock") /\ lock = Free
    /\ StartLoadIfEmpty(p)
    /\ Goto(p, "send") /\ lock' = p
    /\ UNCHANGED <<env, db, mem, serverVars, status, refresherOn, tok, fresh>>

\* Takes refreshSessionMu and looks at the session again: a different one is
\* returned as it is, otherwise the refresh is made with `tok`.
RefreshLock(p) ==
    /\ At(p, "lock") /\ lock = Free
    /\ lock' = p
    /\ StartLoadIfEmpty(p)
    /\ Goto(p, IF Current \notin {0, tok[p]} THEN "reuse" ELSE "send")
    /\ UNCHANGED <<env, db, mem, serverVars, status, refresherOn, tok, fresh>>

RefreshReuse(p) ==
    /\ At(p, "reuse")
    /\ lock' = Free
    /\ Goto(p, "sync")
    /\ UNCHANGED <<env, db, mem, serverVars, status, refresherOn, localVars>>

\* Variant for checking the properties: an error path without the Unlock.
RefreshFailLocked(p) ==
    /\ lock' = lock
    /\ Goto(p, IF p \in Restores THEN "fallback" ELSE "done")

\* An error return that is not ErrRefreshTokenInvalid: the deferred Unlock
\* runs, and RestoreSession goes on with what it had loaded.
RefreshFail(p) ==
    /\ lock' = Free
    /\ Goto(p, IF p \in Restores THEN "fallback" ELSE "done")

\* The request.  The server refuses a token that is not valid, otherwise it
\* answers with a new one or leaves refresh_token empty and keeps the old one.
RefreshSend(p) ==
    /\ At(p, "send")
    /\ \/ RefreshFail(p) /\ UNCHANGED <<serverVars, fresh>>
       \/ /\ tok[p] \notin valid
          /\ Goto(p, "clearStop")
          /\ UNCHANGED <<serverVars, fresh, lock>>
       \/ /\ tok[p] \in valid
          /\ Issue(p, {tok[p]})
          /\ \/ Goto(p, "profile") /\ UNCHANGED lock
             \/ harsh /\ RefreshFail(p)
       \/ /\ tok[p] \in valid
          /\ fresh' = [fresh EXCEPT ![p] = tok[p]]
          /\ Goto(p, "profile")
          /\ UNCHANGED <<serverVars, lock>>
    /\ UNCHANGED <<env, db, mem, status, refresherOn, tok, loading>>

\* GetUserProfileWithToken, and the transaction of saveUserInfoWithDB.
RefreshProfile(p) ==
    /\ At(p, "profile") /\ p \in Refreshers
    /\ \/ Goto(p, "saveDb") /\ UNCHANGED lock
       \/ harsh /\ RefreshFail(p)
    /\ UNCHANGED <<env, db, mem, serverVars, status, refresherOn, localVars>>

\* Variant for checking the properties: the response's token is not stored,
\* the session keeps the token of the request.
RefreshSaveDbOld(p) ==
    /\ At(p, "saveDb") /\ p \in Refreshers /\ lock = p
    /\ \/ db' = tok[p] /\ Goto(p, "saveMem") /\ UNCHANGED lock
       \/ harsh /\ RefreshFail(p) /\ UNCHANGED db
    /\ UNCHANGED <<env, mem, serverVars, status, refresherOn, localVars>>

RefreshSaveDb(p) ==
    /\ At(p, "saveDb") /\ p \in Refreshers /\ lock = p
    /\ \/ db' = fresh[p] /\ Goto(p, "saveMem") /\ UNCHANGED lock
       \/ harsh /\ RefreshFail(p) /\ UNCHANGED db
    /\ UNCHANGED <<env, mem, serverVars, status, refresherOn, localVars>>

\* SaveUserInfo's second half, startTokenRefresh and the Unlock.
RefreshSaveMem(p) ==
    /\ At(p, "saveMem") /\ p \in Refreshers /\ lock = p
    /\ mem' = fresh[p]
    /\ refresherOn' = TRUE
    /\ lock' = Free
    /\ Goto(p, "sync")
    /\ UNCHANGED <<env, db, serverVars, status, localVars>>

-----------------------------------------------------------------------------
(* clearLocalSessionAfterInvalidRefreshToken, with refreshSessionMu held *)

ClearStop(p) ==
    /\ At(p, "clearStop")
    /\ refresherOn' = FALSE
    /\ Goto(p, "clearDb")
    /\ UNCHANGED <<env, db, mem, serverVars, lock, status, localVars>>

ClearDb(p) ==
    /\ At(p, "clearDb") /\ p \in Refreshers
    /\ db' = 0 \/ (harsh /\ db' = db)
    /\ Goto(p, "clearMem")
    /\ UNCHANGED <<env, mem, serverVars, lock, status, refresherOn, localVars>>

\* Memory is cleared in either case; then handleAuthExpired and the Unlock.
ClearMem(p) ==
    /\ At(p, "clearMem") /\ p \in Refreshers
    /\ mem' = 0
    /\ status' = "UNCONFIGURED"
    /\ lock' = Free
    /\ Goto(p, IF p \in Ticks THEN "done" ELSE "unsync")
    /\ UNCHANGED <<env, db, serverVars, refresherOn, localVars>>

-----------------------------------------------------------------------------
(* RestoreSession after a refresh that failed for another reason *)

\* The profile is fetched with the old access token; when that works, the
\* session that was loaded is saved again, with its old tokens.
RestoreFallback(p) ==
    /\ At(p, "fallback")
    /\ \/ /\ Goto(p, "saveDb")
          /\ fresh' = [fresh EXCEPT ![p] = tok[p]]
          /\ UNCHANGED refresherOn
       \/ /\ Goto(p, "sync")
          /\ refresherOn' = TRUE
          /\ UNCHANGED fresh
    /\ UNCHANGED <<env, db, mem, serverVars, lock, status, tok, loading>>

-----------------------------------------------------------------------------
(* LoginWithPassword and UpdateUserProfile; saves without refreshSessionMu *)

LoginSend(p) ==
    /\ At(p, "idle") /\ p \in Logins
    /\ \/ Issue(p, {}) /\ Goto(p, "profile")
       \/ Goto(p, "done") /\ UNCHANGED <<serverVars, fresh>>
    /\ UNCHANGED <<env, db, mem, lock, status, refresherOn, tok, loading>>

LoginProfile(p) ==
    /\ At(p, "profile") /\ p \in Logins
    /\ Goto(p, "saveDb") \/ (harsh /\ Goto(p, "done"))
    /\ UNCHANGED <<env, db, mem, serverVars, lock, status, refresherOn, localVars>>

\* UpdateUserProfile: the session must exist; the request; then a copy of
\* currentUserInfo, whose token is saved again with the new profile.
UpdateBegin(p) ==
    /\ At(p, "idle") /\ p \in Updates
    /\ StartLoadIfEmpty(p)
    /\ Goto(p, IF Current = 0 THEN "done" ELSE "request")
    /\ UNCHANGED <<env, db, mem, serverVars, lock, status, refresherOn, tok, fresh>>

UpdateRequest(p) ==
    /\ At(p, "request")
    /\ Goto(p, "current") \/ Goto(p, "done")
    /\ UNCHANGED <<env, db, mem, serverVars, lock, status, refresherOn, localVars>>

UpdateCurrent(p) ==
    /\ At(p, "current")
    /\ fresh' = [fresh EXCEPT ![p] = mem]
    /\ Goto(p, IF mem = 0 THEN "done" ELSE "saveDb")
    /\ UNCHANGED <<env, db, mem, serverVars, lock, status, refresherOn, tok, loading>>

\* SaveUserInfo outside the lock.  A failed SQLite write leaves memory alone;
\* LoginWithPassword and RestoreSession only log it.
UnlockedSaveDb(p) ==
    /\ At(p, "saveDb") /\ lock # p
    /\ \/ db' = fresh[p] /\ Goto(p, "saveMem") /\ UNCHANGED refresherOn
       \/ /\ harsh
          /\ Goto(p, IF p \in Updates THEN "done" ELSE "sync")
          /\ refresherOn' = (refresherOn \/ p \notin Updates)
          /\ UNCHANGED db
    /\ UNCHANGED <<env, mem, serverVars, lock, status, localVars>>

UnlockedSaveMem(p) ==
    /\ At(p, "saveMem") /\ lock # p
    /\ mem' = fresh[p]
    /\ refresherOn' = (refresherOn \/ p \notin Updates)
    /\ Goto(p, IF p \in Updates THEN "done" ELSE "sync")
    /\ UNCHANGED <<env, db, serverVars, lock, status, localVars>>

-----------------------------------------------------------------------------
(* LogoutUser *)

LogoutBegin(p) ==
    /\ At(p, "idle") /\ p \in Logouts
    /\ tok' = [tok EXCEPT ![p] = Current]
    /\ StartLoadIfEmpty(p)
    /\ Goto(p, "remote")
    /\ UNCHANGED <<env, db, mem, serverVars, lock, status, refresherOn, fresh>>

\* LogoutSession's request; a failure is only logged.
LogoutRemote(p) ==
    /\ At(p, "remote")
    /\ valid' = valid \ {tok[p]} \/ valid' = valid
    /\ Goto(p, "stop")
    /\ UNCHANGED <<env, db, mem, issued, superseded, lock, status, refresherOn, localVars>>

LogoutStop(p) ==
    /\ At(p, "stop")
    /\ refresherOn' = FALSE
    /\ Goto(p, "clearDb")
    /\ UNCHANGED <<env, db, mem, serverVars, lock, status, localVars>>

\* DeleteUserInfo: when SQLite fails, memory keeps the session.
LogoutDeleteDb(p) ==
    /\ At(p, "clearDb") /\ p \in Logouts
    /\ \/ db' = 0 /\ Goto(p, "clearMem")
       \/ harsh /\ Goto(p, "unsync") /\ UNCHANGED db
    /\ UNCHANGED <<env, mem, serverVars, lock, status, refresherOn, localVars>>

LogoutDeleteMem(p) ==
    /\ At(p, "clearMem") /\ p \in Logouts
    /\ mem' = 0
    /\ Goto(p, "unsync")
    /\ UNCHANGED <<env, db, serverVars, lock, status, refresherOn, localVars>>

-----------------------------------------------------------------------------
(* AuthService, after the call into processor/auth has returned *)

\* syncStartupStateForAuthenticatedUser; the refresher does not call it.
SyncReady(p) ==
    /\ At(p, "sync")
    /\ status' = IF p \in Ticks THEN status ELSE "READY"
    /\ Goto(p, "done")
    /\ UNCHANGED <<env, db, mem, serverVars, lock, refresherOn, localVars>>

\* clearStartupStateAfterLogout
SyncCleared(p) ==
    /\ At(p, "unsync")
    /\ status' = "UNCONFIGURED"
    /\ Goto(p, "done")
    /\ UNCHANGED <<env, db, mem, serverVars, lock, refresherOn, localVars>>

\* The server ends a session by itself (an administrator, an expiry).
ServerRevoke ==
    /\ harsh
    /\ \E t \in valid : valid' = valid \ {t}
    /\ UNCHANGED <<env, db, mem, issued, superseded, lock, status, refresherOn, pc, localVars>>

Step(p) ==
    \/ FinishLoad(p)
    \/ RefreshBegin(p) \/ TickBegin(p) \/ RestoreBegin(p)
    \/ RefreshLock(p) \/ RefreshReuse(p) \/ RefreshSend(p) \/ RefreshProfile(p)
    \/ RefreshSaveDb(p) \/ RefreshSaveMem(p)
    \/ ClearStop(p) \/ ClearDb(p) \/ ClearMem(p) \/ RestoreFallback(p)
    \/ LoginSend(p) \/ LoginProfile(p) \/ UnlockedSaveDb(p) \/ UnlockedSaveMem(p)
    \/ UpdateBegin(p) \/ UpdateRequest(p) \/ UpdateCurrent(p)
    \/ LogoutBegin(p) \/ LogoutRemote(p) \/ LogoutStop(p)
    \/ LogoutDeleteDb(p) \/ LogoutDeleteMem(p)
    \/ SyncReady(p) \/ SyncCleared(p)

Next == (\E p \in Calls : Step(p)) \/ ServerRevoke

Spec == Init /\ [][Next]_vars

\* A call that has begun runs on: no step of it waits for anything but the
\* mutex, and every request has apiTimeout.
Fairness == \A p \in Calls : WF_vars(pc[p] # "idle" /\ Step(p))
LiveSpec == Spec /\ Fairness

-----------------------------------------------------------------------------
(* Properties *)

\* RefreshSession looks at the session again once it holds refreshSessionMu "to
\* avoid sending an already-invalidated refresh token again": the token of a
\* refresh request is never one that an earlier refresh rotated away.
NoSupersededTokenSent ==
    \A p \in Refreshers : pc[p] = "send" => tok[p] \notin superseded

\* A process that started with a session; refreshes, ticks and logins only, and nothing
\* fails once the server has answered.  Without a session at the start memory is empty
\* when a login writes SQLite: a refresh can then load the login's token and rotate it
\* away before the login, or another load, puts it into memory.
Orderly == began /\ ~harsh /\ \A p \in Restores \cup Logouts \cup Updates : pc[p] \in {"absent", "idle"}

\* The second look does avoid it among refreshes, ticks and logins, however they
\* overlap and whichever requests fail.
RotatedTokenNotReused == Orderly => NoSupersededTokenSent

\* Whenever no refresh is under way the process and a restart of it both hold a
\* session that the server accepts: no interleaving of refreshes and logins has lost
\* the session or overwritten a copy with a token that was rotated away.
SessionUsable == Orderly /\ lock = Free => mem \in valid /\ db \in valid

Quiet == \A p \in Calls : pc[p] \in {"absent", "idle", "done"}

\* Every call that has begun returns: refreshSessionMu is released on every path
\* out of RefreshSession, so no caller waits for it for ever.
CallsReturn == []<>Quiet

==============================================================================
