-------------------------- MODULE AuthSession_proofs --------------------------
(***************************************************************************)
(* For any number of refreshes, ticks and logins that overlap in any way,  *)
(* in a process that started with a session: no refresh sends a token that *)
(* was rotated away, and between refreshes both copies of the session are  *)
(* ones the server accepts.                                                *)
(*                                                                         *)
(* Neither is inductive.  A refresh may send only the token that is in     *)
(* memory while it holds refreshSessionMu, so the invariant has to say     *)
(* that the tokens of logins that are still being stored are in nobody     *)
(* else's hands (Unshared): they cannot be rotated away before they are    *)
(* stored.                                                                 *)
(***************************************************************************)
EXTENDS AuthSession, TLAPS

\* The calls of an orderly run that refresh.
Active == Refreshes \cup Ticks

\* Where such a call holds refreshSessionMu, and where it has an answer to store.
Holding == {"reuse", "send", "profile", "saveDb", "saveMem"}
Storing == {"profile", "saveDb", "saveMem"}

\* Memory and SQLite hold a session, and nobody loads one into memory.
Present ==
    /\ mem \in 1..issued /\ db \in 1..issued
    /\ \A p \in Calls : loading[p] = 0

\* What the server accepts is what it issued and has not rotated away.
Accepted == valid = (1..issued) \ superseded

\* The control points of an orderly run; nobody clears the session.
Control ==
    /\ \A p \in Active : /\ pc[p] \in {"absent", "idle", "lock", "sync", "done"} \cup Holding
                         /\ pc[p] \in Holding <=> lock = p
    /\ \A p \in Logins : pc[p] \in {"absent", "idle", "sync", "done"} \cup Storing
    /\ lock \in Active \cup {Free}

\* Tokens to be sent or stored are accepted, and so are both copies unless a
\* refresh is about to overwrite them.
Good ==
    /\ \A p \in Active : pc[p] = "send" => tok[p] \in valid
    /\ \A p \in Active \cup Logins : pc[p] \in Storing => fresh[p] \in valid
    /\ (\A p \in Active : pc[p] \notin Storing) => mem \in valid
    /\ (\A p \in Active : pc[p] \notin {"profile", "saveDb"}) => db \in valid

\* The token of a login that is not stored yet is in nobody else's hands.
Unshared ==
    \A l \in Logins : pc[l] \in Storing =>
        /\ fresh[l] # mem
        /\ \A p \in Active : pc[p] = "send" => tok[p] # fresh[l]
        /\ \A p \in Active \cup Logins : pc[p] \in Storing /\ p # l => fresh[p] # fresh[l]

Ordered == Present /\ Accepted /\ Control /\ Good /\ Unshared

IInv == TypeOK /\ (Orderly => Ordered)

-----------------------------------------------------------------------------
(* Types *)

\* Only the callers of RefreshSession get to its control points.
Refreshing == \A p \in Calls : pc[p] \in {"lock", "reuse", "send"} => p \in Refreshers

\* A new token is the next number, in place of one that was issued before.
LEMMA IssueTypes ==
  ASSUME TypeOK, NEW p \in Calls, NEW old \in SUBSET (1..issued), Issue(p, old)
  PROVE  /\ issued' \in Session /\ issued' = issued + 1
         /\ valid' \subseteq 1..issued' /\ superseded' \subseteq 1..issued'
         /\ fresh' \in [Calls -> Session] /\ fresh' = [fresh EXCEPT ![p] = issued + 1]
BY MaxTokenAssumption DEF TypeOK, Session, Issue

LEMMA StepTypes ==
  ASSUME TypeOK, Refreshing, NEW p \in Calls, Step(p)
  PROVE  TypeOK' /\ Refreshing'
<1> USE CallKindsDisjoint, MaxTokenAssumption DEF TypeOK, Refreshing, Refreshers, Calls, env, serverVars, localVars
<1>1. CASE FinishLoad(p)
  BY <1>1 DEF FinishLoad, Session
<1>2. CASE RefreshBegin(p)
  <2>1. superseded \cup {db, mem, Current} \subseteq Session
    BY DEF Session, Current
  <2>2. tok' \in [Calls -> Session]
    BY <1>2, <2>1 DEF RefreshBegin
  <2>3. loading' \in [Calls -> Session]
    BY <1>2 DEF RefreshBegin, StartLoadIfEmpty, Session
  <2> QED
    BY <1>2, <2>2, <2>3 DEF RefreshBegin, Goto, Pcs
<1>3. CASE TickBegin(p)
  BY <1>3 DEF TickBegin, At, Goto, Pcs, Current, StartLoadIfEmpty, Session
<1>4. CASE RestoreBegin(p)
  BY <1>4 DEF RestoreBegin, At, Goto, Pcs, Session
<1>5. CASE RefreshLock(p)
  BY <1>5 DEF RefreshLock, At, Goto, Pcs, Current, StartLoadIfEmpty, Session
<1>6. CASE RefreshReuse(p)
  BY <1>6 DEF RefreshReuse, At, Goto, Pcs, Session
<1>7. CASE RefreshSend(p)
  <2>1. CASE Issue(p, {tok[p]}) /\ tok[p] \in valid
    <3>1. {tok[p]} \in SUBSET (1..issued)
      BY <2>1
    <3>2. UNCHANGED <<env, db, mem, status, refresherOn, tok, loading>> /\ At(p, "send")
      BY <1>7 DEF RefreshSend
    <3>3. (Goto(p, "profile") /\ UNCHANGED lock) \/ RefreshFail(p) \/ (Goto(p, "clearStop") /\ UNCHANGED lock)
      BY <1>7 DEF RefreshSend
    <3> QED
      BY <2>1, <3>1, <3>2, <3>3, IssueTypes DEF RefreshFail, At, Goto, Pcs
  <2>2. CASE ~(Issue(p, {tok[p]}) /\ tok[p] \in valid)
    BY <1>7, <2>2 DEF RefreshSend, RefreshFail, At, Goto, Pcs, Session
  <2> QED
    BY <2>1, <2>2
<1>8. CASE RefreshProfile(p)
  BY <1>8 DEF RefreshProfile, At, Goto, Pcs, RefreshFail, Session
<1>9. CASE RefreshSaveDb(p)
  BY <1>9 DEF RefreshSaveDb, At, Goto, Pcs, RefreshFail, Session
<1>10. CASE RefreshSaveMem(p)
  BY <1>10 DEF RefreshSaveMem, At, Goto, Pcs, Session
<1>11. CASE ClearStop(p)
  BY <1>11 DEF ClearStop, At, Goto, Pcs, Session
<1>12. CASE ClearDb(p)
  BY <1>12 DEF ClearDb, At, Goto, Pcs, Session
<1>13. CASE ClearMem(p)
  BY <1>13 DEF ClearMem, At, Goto, Pcs, Session
<1>14. CASE RestoreFallback(p)
  BY <1>14 DEF RestoreFallback, At, Goto, Pcs, Session
<1>15. CASE LoginSend(p)
  <2>1. CASE Issue(p, {})
    BY <1>15, <2>1, IssueTypes DEF LoginSend, At, Goto, Pcs
  <2>2. CASE ~Issue(p, {})
    BY <1>15, <2>2 DEF LoginSend, At, Goto, Pcs
  <2> QED
    BY <2>1, <2>2
<1>16. CASE LoginProfile(p)
  BY <1>16 DEF LoginProfile, At, Goto, Pcs, Session
<1>17. CASE UnlockedSaveDb(p)
  BY <1>17 DEF UnlockedSaveDb, At, Goto, Pcs, Session
<1>18. CASE UnlockedSaveMem(p)
  BY <1>18 DEF UnlockedSaveMem, At, Goto, Pcs, Session
<1>19. CASE UpdateBegin(p)
  BY <1>19 DEF UpdateBegin, At, Goto, Pcs, Current, StartLoadIfEmpty, Session
<1>20. CASE UpdateRequest(p)
  BY <1>20 DEF UpdateRequest, At, Goto, Pcs, Session
<1>21. CASE UpdateCurrent(p)
  BY <1>21 DEF UpdateCurrent, At, Goto, Pcs, Session
<1>22. CASE LogoutBegin(p)
  BY <1>22 DEF LogoutBegin, At, Goto, Pcs, Current, StartLoadIfEmpty, Session
<1>23. CASE LogoutRemote(p)
  BY <1>23 DEF LogoutRemote, At, Goto, Pcs, Session
<1>24. CASE LogoutStop(p)
  BY <1>24 DEF LogoutStop, At, Goto, Pcs, Session
<1>25. CASE LogoutDeleteDb(p)
  BY <1>25 DEF LogoutDeleteDb, At, Goto, Pcs, Session
<1>26. CASE LogoutDeleteMem(p)
  BY <1>26 DEF LogoutDeleteMem, At, Goto, Pcs, Session
<1>27. CASE SyncReady(p)
  BY <1>27 DEF SyncReady, At, Goto, Pcs, Session
<1>28. CASE SyncCleared(p)
  BY <1>28 DEF SyncCleared, At, Goto, Pcs, Session
<1> QED
  BY <1>1, <1>2, <1>3, <1>4, <1>5, <1>6, <1>7, <1>8, <1>9, <1>10, <1>11, <1>12, <1>13, <1>14, <1>15, <1>16, <1>17, <1>18, <1>19, <1>20, <1>21, <1>22, <1>23, <1>24, <1>25, <1>26, <1>27, <1>28 DEF Step

\* Every variable keeps its type, and refreshSessionMu is held by nobody but callers of
\* RefreshSession.
THEOREM TypeInvariance == Spec => []TypeOK
<1>1. Init => TypeOK /\ Refreshing
  BY InitialSessionAssumption, ScenariosAssumption, MaxTokenAssumption
     DEF Init, Pcs, TypeOK, Refreshing, Session, Refreshers, Calls
<1>2. TypeOK /\ Refreshing /\ [Next]_vars => TypeOK' /\ Refreshing'
  <2> SUFFICES ASSUME TypeOK, Refreshing, [Next]_vars
               PROVE  TypeOK' /\ Refreshing'
    OBVIOUS
  <2>1. CASE ServerRevoke
    BY <2>1 DEF ServerRevoke, TypeOK, Refreshing, env, localVars
  <2>2. CASE UNCHANGED vars
    BY <2>2 DEF vars, TypeOK, Refreshing, env, serverVars, localVars
  <2> QED
    BY <2>1, <2>2, StepTypes DEF Next
<1> QED
  BY <1>1, <1>2, PTL DEF Spec

-----------------------------------------------------------------------------
(* Orderly runs *)

\* A step of an orderly run is one of a refresh, a tick or a login that is not loading.
LEMMA OrderlyCallers ==
  ASSUME TypeOK, Orderly, Ordered, Orderly', NEW p \in Calls, Step(p)
  PROVE  p \in Active \cup Logins /\ loading[p] = 0
<1>1. loading[p] = 0
  BY DEF Ordered, Present
<1>2. CASE p \in Restores \cup Logouts \cup Updates
  <2>1. pc[p] \in {"absent", "idle"} /\ pc'[p] \in {"absent", "idle"}
    BY <1>2 DEF Orderly
  <2>2. pc'[p] \notin {"absent", "idle"}
    BY <1>1, <2>1, CallKindsDisjoint DEF Step, TypeOK, FinishLoad, RefreshBegin, TickBegin,
       RestoreBegin, RefreshLock, RefreshReuse, RefreshSend, RefreshProfile, RefreshSaveDb,
       RefreshSaveMem, ClearStop, ClearDb, ClearMem, RestoreFallback, LoginSend, LoginProfile,
       UnlockedSaveDb, UnlockedSaveMem, UpdateBegin, UpdateRequest, UpdateCurrent, LogoutBegin,
       LogoutRemote, LogoutStop, LogoutDeleteDb, LogoutDeleteMem, SyncReady, SyncCleared, At, Goto
  <2> QED
    BY <2>1, <2>2
<1> QED
  BY <1>1, <1>2 DEF Calls, Refreshers, Active

\* Which of the steps that leaves.
LEMMA OrderlySteps ==
  ASSUME TypeOK, Orderly, Ordered, Orderly', NEW p \in Calls, Step(p)
  PROVE  \/ p \in Active /\ \/ RefreshBegin(p) \/ TickBegin(p) \/ RefreshLock(p) \/ RefreshReuse(p)
                            \/ RefreshSend(p) \/ RefreshProfile(p) \/ RefreshSaveDb(p)
                            \/ RefreshSaveMem(p) \/ SyncReady(p)
         \/ p \in Logins /\ \/ LoginSend(p) \/ LoginProfile(p) \/ UnlockedSaveDb(p)
                            \/ UnlockedSaveMem(p) \/ SyncReady(p)
<1>1. p \in Active \cup Logins /\ loading[p] = 0
  BY OrderlyCallers
<1>2. CASE p \in Active
  <2>1. /\ pc[p] \in {"absent", "idle", "lock", "sync", "done"} \cup Holding
        /\ pc[p] \in Holding <=> lock = p
        /\ p \notin Logins \cup Restores \cup Logouts \cup Updates
    BY <1>2, CallKindsDisjoint DEF Ordered, Control, Active, Refreshers
  <2> QED
    BY <1>1, <1>2, <2>1 DEF Step, Holding, FinishLoad, RestoreBegin, ClearStop, ClearDb, ClearMem,
       RestoreFallback, LoginSend, LoginProfile, UnlockedSaveDb, UnlockedSaveMem, UpdateBegin,
       UpdateRequest, UpdateCurrent, LogoutBegin, LogoutRemote, LogoutStop, LogoutDeleteDb,
       LogoutDeleteMem, SyncCleared, At
<1>3. CASE p \in Logins
  <2>1. /\ pc[p] \in {"absent", "idle", "sync", "done"} \cup Storing
        /\ p \notin Refreshers \cup Logouts \cup Updates
    BY <1>3, CallKindsDisjoint DEF Ordered, Control
  <2> QED
    BY <1>1, <1>3, <2>1 DEF Step, Storing, Refreshers, FinishLoad, RefreshBegin, TickBegin, RestoreBegin,
       RefreshLock, RefreshReuse, RefreshSend, RefreshProfile, RefreshSaveDb, RefreshSaveMem,
       ClearStop, ClearDb, ClearMem, RestoreFallback, UpdateBegin, UpdateRequest, UpdateCurrent,
       LogoutBegin, LogoutRemote, LogoutStop, LogoutDeleteDb, LogoutDeleteMem, SyncCleared, At
<1> QED
  BY <1>1, <1>2, <1>3


\* Every step keeps an orderly run in order.
LEMMA OrderedStep ==
  ASSUME TypeOK, Orderly, Ordered, Orderly', NEW p \in Calls, Step(p)
  PROVE  Ordered'
<1>0. /\ Active \cap Logins = {} /\ Free \notin Active \cup Logins /\ Active \cup Logins \subseteq Calls
      /\ Active \cap Restores = {} /\ ~harsh
  BY CallKindsDisjoint DEF Active, Calls, Refreshers, Orderly
<1> USE <1>0 DEF TypeOK, At, Goto, env, serverVars, localVars
<1>1. CASE p \in Active /\ RefreshBegin(p)
  <2>1. Present'
    BY <1>1 DEF RefreshBegin, StartLoadIfEmpty, Ordered, Present, Accepted, Control, Good, Session
  <2>2. Accepted'
    BY <1>1 DEF RefreshBegin, StartLoadIfEmpty, Ordered, Accepted, Session
  <2>3. Control'
    BY <1>1 DEF RefreshBegin, StartLoadIfEmpty, Ordered, Present, Control, Good, Holding, Storing
  <2>4. Good'
    BY <1>1 DEF RefreshBegin, StartLoadIfEmpty, Ordered, Present, Accepted, Control, Good, Unshared, Holding, Storing
  <2>5. Unshared'
    BY <1>1 DEF RefreshBegin, StartLoadIfEmpty, Ordered, Present, Accepted, Control, Good, Unshared, Holding, Storing
  <2> QED
    BY <2>1, <2>2, <2>3, <2>4, <2>5 DEF Ordered
<1>2. CASE p \in Active /\ TickBegin(p)
  <2>1. Present'
    BY <1>2 DEF TickBegin, StartLoadIfEmpty, Current, Ordered, Present, Accepted, Control, Good, Session
  <2>2. Accepted'
    BY <1>2 DEF TickBegin, StartLoadIfEmpty, Current, Ordered, Accepted, Session
  <2>3. Control'
    BY <1>2 DEF TickBegin, StartLoadIfEmpty, Current, Ordered, Present, Control, Good, Holding, Storing
  <2>4. Good'
    BY <1>2 DEF TickBegin, StartLoadIfEmpty, Current, Ordered, Present, Accepted, Control, Good, Unshared, Holding, Storing
  <2>5. Unshared'
    BY <1>2 DEF TickBegin, StartLoadIfEmpty, Current, Ordered, Present, Accepted, Control, Good, Unshared, Holding, Storing
  <2> QED
    BY <2>1, <2>2, <2>3, <2>4, <2>5 DEF Ordered
<1>3. CASE p \in Active /\ RefreshLock(p)
  <2>1. Present'
    BY <1>3 DEF RefreshLock, StartLoadIfEmpty, Current, Ordered, Present, Accepted, Control, Good, Session
  <2>2. Accepted'
    BY <1>3 DEF RefreshLock, StartLoadIfEmpty, Current, Ordered, Accepted, Session
  <2>3. Control'
    BY <1>3 DEF RefreshLock, StartLoadIfEmpty, Current, Ordered, Present, Control, Good, Holding, Storing
  <2>4. Good'
    BY <1>3 DEF RefreshLock, StartLoadIfEmpty, Current, Ordered, Present, Accepted, Control, Good, Unshared, Holding, Storing
  <2>5. Unshared'
    BY <1>3 DEF RefreshLock, StartLoadIfEmpty, Current, Ordered, Present, Accepted, Control, Good, Unshared, Holding, Storing
  <2> QED
    BY <2>1, <2>2, <2>3, <2>4, <2>5 DEF Ordered
<1>4. CASE p \in Active /\ RefreshReuse(p)
  <2>1. Present'
    BY <1>4 DEF RefreshReuse, Ordered, Present, Accepted, Control, Good, Session
  <2>2. Accepted'
    BY <1>4 DEF RefreshReuse, Ordered, Accepted, Session
  <2>3. Control'
    BY <1>4 DEF RefreshReuse, Ordered, Present, Control, Good, Holding, Storing
  <2>4. Good'
    BY <1>4 DEF RefreshReuse, Ordered, Present, Accepted, Control, Good, Unshared, Holding, Storing
  <2>5. Unshared'
    BY <1>4 DEF RefreshReuse, Ordered, Present, Accepted, Control, Good, Unshared, Holding, Storing
  <2> QED
    BY <2>1, <2>2, <2>3, <2>4, <2>5 DEF Ordered
<1>5. CASE p \in Active /\ RefreshSend(p)
  <2>1. Present'
    BY <1>5 DEF RefreshSend, RefreshFail, Issue, Ordered, Present, Accepted, Control, Good, Session
  <2>2. Accepted'
    BY <1>5 DEF RefreshSend, RefreshFail, Issue, Ordered, Accepted, Session
  <2>3. Control'
    BY <1>5 DEF RefreshSend, RefreshFail, Issue, Ordered, Present, Control, Good, Holding, Storing
  <2>4. Good'
    BY <1>5 DEF RefreshSend, RefreshFail, Issue, Ordered, Present, Accepted, Control, Good, Unshared, Holding, Storing
  <2>5. Unshared'
    BY <1>5 DEF RefreshSend, RefreshFail, Issue, Ordered, Present, Accepted, Control, Good, Unshared, Holding, Storing
  <2> QED
    BY <2>1, <2>2, <2>3, <2>4, <2>5 DEF Ordered
<1>6. CASE p \in Active /\ RefreshProfile(p)
  <2>1. Present'
    BY <1>6 DEF RefreshProfile, RefreshFail, Ordered, Present, Accepted, Control, Good, Session
  <2>2. Accepted'
    BY <1>6 DEF RefreshProfile, RefreshFail, Ordered, Accepted, Session
  <2>3. Control'
    BY <1>6 DEF RefreshProfile, RefreshFail, Ordered, Present, Control, Good, Holding, Storing
  <2>4. Good'
    BY <1>6 DEF RefreshProfile, RefreshFail, Ordered, Present, Accepted, Control, Good, Unshared, Holding, Storing
  <2>5. Unshared'
    BY <1>6 DEF RefreshProfile, RefreshFail, Ordered, Present, Accepted, Control, Good, Unshared, Holding, Storing
  <2> QED
    BY <2>1, <2>2, <2>3, <2>4, <2>5 DEF Ordered
<1>7. CASE p \in Active /\ RefreshSaveDb(p)
  <2>1. Present'
    BY <1>7 DEF RefreshSaveDb, RefreshFail, Ordered, Present, Good, Storing
  <2>2. Accepted'
    BY <1>7 DEF RefreshSaveDb, RefreshFail, Ordered, Accepted, Session
  <2>3. Control'
    BY <1>7 DEF RefreshSaveDb, RefreshFail, Ordered, Present, Control, Good, Holding, Storing
  <2>4. Good'
    BY <1>7 DEF RefreshSaveDb, RefreshFail, Ordered, Present, Accepted, Control, Good, Unshared, Holding, Storing
  <2>5. Unshared'
    BY <1>7 DEF RefreshSaveDb, RefreshFail, Ordered, Present, Accepted, Control, Good, Unshared, Holding, Storing
  <2> QED
    BY <2>1, <2>2, <2>3, <2>4, <2>5 DEF Ordered
<1>8. CASE p \in Active /\ RefreshSaveMem(p)
  <2>1. Present'
    BY <1>8 DEF RefreshSaveMem, Ordered, Present, Good, Storing
  <2>2. Accepted'
    BY <1>8 DEF RefreshSaveMem, Ordered, Accepted, Session
  <2>3. Control'
    BY <1>8 DEF RefreshSaveMem, Ordered, Present, Control, Good, Holding, Storing
  <2>4. Good'
    BY <1>8 DEF RefreshSaveMem, Ordered, Present, Accepted, Control, Good, Unshared, Holding, Storing
  <2>5. Unshared'
    BY <1>8 DEF RefreshSaveMem, Ordered, Present, Accepted, Control, Good, Unshared, Holding, Storing
  <2> QED
    BY <2>1, <2>2, <2>3, <2>4, <2>5 DEF Ordered
<1>9. CASE p \in Active \cup Logins /\ SyncReady(p)
  <2>1. Present'
    BY <1>9 DEF SyncReady, Ordered, Present, Accepted, Control, Good, Session
  <2>2. Accepted'
    BY <1>9 DEF SyncReady, Ordered, Accepted, Session
  <2>3. Control'
    BY <1>9 DEF SyncReady, Ordered, Present, Control, Good, Holding, Storing
  <2>4. Good'
    BY <1>9 DEF SyncReady, Ordered, Present, Accepted, Control, Good, Unshared, Holding, Storing
  <2>5. Unshared'
    BY <1>9 DEF SyncReady, Ordered, Present, Accepted, Control, Good, Unshared, Holding, Storing
  <2> QED
    BY <2>1, <2>2, <2>3, <2>4, <2>5 DEF Ordered
<1>10. CASE p \in Logins /\ LoginSend(p)
  <2>1. Present'
    BY <1>10 DEF LoginSend, Issue, Ordered, Present, Accepted, Control, Good, Session
  <2>2. Accepted'
    BY <1>10 DEF LoginSend, Issue, Ordered, Accepted, Session
  <2>3. Control'
    BY <1>10 DEF LoginSend, Issue, Ordered, Present, Control, Good, Holding, Storing
  <2>4. Good'
    BY <1>10 DEF LoginSend, Issue, Ordered, Present, Accepted, Control, Good, Unshared, Holding, Storing
  <2>5. Unshared'
    BY <1>10 DEF LoginSend, Issue, Ordered, Present, Accepted, Control, Good, Unshared, Holding, Storing
  <2> QED
    BY <2>1, <2>2, <2>3, <2>4, <2>5 DEF Ordered
<1>11. CASE p \in Logins /\ LoginProfile(p)
  <2>1. Present'
    BY <1>11 DEF LoginProfile, Ordered, Present, Accepted, Control, Good, Session
  <2>2. Accepted'
    BY <1>11 DEF LoginProfile, Ordered, Accepted, Session
  <2>3. Control'
    BY <1>11 DEF LoginProfile, Ordered, Present, Control, Good, Holding, Storing
  <2>4. Good'
    BY <1>11 DEF LoginProfile, Ordered, Present, Accepted, Control, Good, Unshared, Holding, Storing
  <2>5. Unshared'
    BY <1>11 DEF LoginProfile, Ordered, Present, Accepted, Control, Good, Unshared, Holding, Storing
  <2> QED
    BY <2>1, <2>2, <2>3, <2>4, <2>5 DEF Ordered
<1>12. CASE p \in Logins /\ UnlockedSaveDb(p)
  <2>1. Present'
    BY <1>12 DEF UnlockedSaveDb, Ordered, Present, Accepted, Control, Good, Session
  <2>2. Accepted'
    BY <1>12 DEF UnlockedSaveDb, Ordered, Accepted, Session
  <2>3. Control'
    BY <1>12 DEF UnlockedSaveDb, Ordered, Present, Control, Good, Holding, Storing
  <2>4. Good'
    BY <1>12 DEF UnlockedSaveDb, Ordered, Present, Accepted, Control, Good, Unshared, Holding, Storing
  <2>5. Unshared'
    BY <1>12 DEF UnlockedSaveDb, Ordered, Present, Accepted, Control, Good, Unshared, Holding, Storing
  <2> QED
    BY <2>1, <2>2, <2>3, <2>4, <2>5 DEF Ordered
<1>13. CASE p \in Logins /\ UnlockedSaveMem(p)
  <2>1. Present'
    BY <1>13 DEF UnlockedSaveMem, Ordered, Present, Accepted, Control, Good, Session
  <2>2. Accepted'
    BY <1>13 DEF UnlockedSaveMem, Ordered, Accepted, Session
  <2>3. Control'
    BY <1>13 DEF UnlockedSaveMem, Ordered, Present, Control, Good, Holding, Storing
  <2>4. Good'
    BY <1>13 DEF UnlockedSaveMem, Ordered, Present, Accepted, Control, Good, Unshared, Holding, Storing
  <2>5. Unshared'
    BY <1>13 DEF UnlockedSaveMem, Ordered, Present, Accepted, Control, Good, Unshared, Holding, Storing
  <2> QED
    BY <2>1, <2>2, <2>3, <2>4, <2>5 DEF Ordered
<1> QED
  BY OrderlySteps, <1>1, <1>2, <1>3, <1>4, <1>5, <1>6, <1>7, <1>8, <1>9, <1>10, <1>11, <1>12, <1>13

\* Orderly runs have been orderly from the start.
LEMMA IInvStep ==
  ASSUME IInv, Refreshing, [Next]_vars
  PROVE  IInv' /\ Refreshing'
<1>1. CASE UNCHANGED vars
  BY <1>1 DEF vars, env, serverVars, localVars, IInv, Refreshing, TypeOK, Orderly, Ordered,
     Present, Accepted, Control, Good, Unshared
<1>2. CASE ServerRevoke
  BY <1>2 DEF ServerRevoke, env, localVars, IInv, Refreshing, TypeOK, Orderly
<1>3. ASSUME NEW p \in Calls, Step(p)
      PROVE  IInv' /\ Refreshing'
  <2>1. TypeOK' /\ Refreshing'
    BY <1>3, StepTypes DEF IInv
  <2>2. ASSUME Orderly'
        PROVE  Orderly
    <3>1. UNCHANGED env
      BY <1>3 DEF Step, FinishLoad, RefreshBegin, TickBegin, RestoreBegin, RefreshLock,
         RefreshReuse, RefreshSend, RefreshProfile, RefreshSaveDb, RefreshSaveMem, ClearStop,
         ClearDb, ClearMem, RestoreFallback, LoginSend, LoginProfile, UnlockedSaveDb,
         UnlockedSaveMem, UpdateBegin, UpdateRequest, UpdateCurrent, LogoutBegin, LogoutRemote,
         LogoutStop, LogoutDeleteDb, LogoutDeleteMem, SyncReady, SyncCleared
    <3>2. \A q \in Calls : pc'[q] \in {"absent", "idle"} => pc[q] \in {"absent", "idle"}
      BY <1>3 DEF IInv, TypeOK, Step, FinishLoad, RefreshBegin, TickBegin, RestoreBegin, RefreshLock,
         RefreshReuse, RefreshSend, RefreshProfile, RefreshFail, RefreshSaveDb, RefreshSaveMem,
         ClearStop, ClearDb, ClearMem, RestoreFallback, LoginSend, LoginProfile, UnlockedSaveDb,
         UnlockedSaveMem, UpdateBegin, UpdateRequest, UpdateCurrent, LogoutBegin, LogoutRemote,
         LogoutStop, LogoutDeleteDb, LogoutDeleteMem, SyncReady, SyncCleared, Goto, At
    <3> QED
      BY <2>2, <3>1, <3>2 DEF Orderly, env, Calls, Refreshers
  <2> QED
    BY <1>3, <2>1, <2>2, OrderedStep DEF IInv
<1> QED
  BY <1>1, <1>2, <1>3 DEF Next

LEMMA IInvInvariant == Spec => []IInv
<1>1. Init => IInv /\ Refreshing
  <2> SUFFICES ASSUME Init
               PROVE  IInv /\ Refreshing
    OBVIOUS
  <2>1. TypeOK /\ Refreshing
    BY InitialSessionAssumption, ScenariosAssumption, MaxTokenAssumption
       DEF Init, Pcs, TypeOK, Refreshing, Session, Refreshers, Calls
  <2>2. ASSUME Orderly
        PROVE  Ordered
    <3>1. db = 1 /\ mem = 1 /\ issued = 1 /\ superseded = {} /\ lock = Free
      BY <2>2, InitialSessionAssumption DEF Init, Orderly
    <3>3. valid = {1}
      BY <3>1 DEF Init
    <3>2. \A p \in Calls : pc[p] \in {"absent", "idle"} /\ loading[p] = 0
      BY DEF Init
    <3> QED
      BY <3>1, <3>2, <3>3, CallKindsDisjoint DEF Ordered, Present, Accepted, Control, Good, Unshared,
         Active, Holding, Storing, Calls, Refreshers
  <2> QED
    BY <2>1, <2>2 DEF IInv
<1>2. IInv /\ Refreshing /\ [Next]_vars => IInv' /\ Refreshing'
  BY IInvStep
<1> QED
  BY <1>1, <1>2, PTL DEF Spec

\* RefreshSession's second look at the session under refreshSessionMu keeps every
\* refresh and every tick from sending a token that an earlier one rotated away, for
\* any number of refreshes, ticks and logins, whichever requests fail.
THEOREM NoTokenReused == Spec => []RotatedTokenNotReused
<1>1. IInv => RotatedTokenNotReused
  <2> SUFFICES ASSUME IInv, Orderly, NEW p \in Refreshers, pc[p] = "send"
               PROVE  tok[p] \notin superseded
    BY DEF RotatedTokenNotReused, NoSupersededTokenSent
  <2>1. p \in Active
    BY DEF Orderly, Refreshers, Active
  <2> QED
    BY <2>1 DEF IInv, Ordered, Good, Accepted
<1> QED
  BY <1>1, IInvInvariant, PTL

\* Whenever refreshSessionMu is free, currentUserInfo and SQLite both hold a session
\* the server accepts, though logins store theirs without the mutex.
THEOREM SessionKept == Spec => []SessionUsable
<1>1. IInv => SessionUsable
  <2> SUFFICES ASSUME IInv, Orderly, lock = Free
               PROVE  mem \in valid /\ db \in valid
    BY DEF SessionUsable
  <2>1. \A p \in Active : pc[p] \notin Storing
    BY CallKindsDisjoint DEF IInv, Ordered, Control, Active, Calls, Refreshers, Holding, Storing
  <2> QED
    BY <2>1 DEF IInv, Ordered, Good, Storing
<1> QED
  BY <1>1, IInvInvariant, PTL

=============================================================================
