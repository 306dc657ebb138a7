--------------------------- MODULE AdminAuthProofs ---------------------------
(***************************************************************************)
(* Proofs about AdminAuth, for any number of users, sessions, addresses and*)
(* handlers.                                                               *)
(***************************************************************************)
EXTENDS AdminAuth, FiniteSetTheorems, TLAPS

USE AuthAssumption

(* What a handler holds at each label.                                     *)
RequestShape ==
  \A h \in Handlers :
    /\ at[h] \in {"lookup", "refuse", "create"} => guess[h] # None /\ h \notin stale
    /\ at[h] \in {"session", "user", "token", "act"} => cred[h] \in drawn
    /\ at[h] \in {"create", "user"} => who[h] # None

(* A credential that was void stays void, so its request gets nowhere.     *)
StaleStaysVoid ==
  \A h \in stale : at[h] \in {"session", "token"} /\ ~ Valid(cred[h])

AuthInv == AuthTypeOK /\ RequestShape /\ SessionsHaveUsers /\ StaleStaysVoid

(* Nobody has done anything yet.                                           *)
LEMMA AuthInitInv == Init => AuthInv
  BY DEF Init, AuthInv, AuthTypeOK, RequestShape, SessionsHaveUsers, StaleStaysVoid,
         UserRows, SessionRows, Labels

(* An answer leaves a handler idle, empty-handed and without a stale mark. *)
LEMMA AnswerShape ==
  ASSUME AuthTypeOK, RequestShape, NEW h \in Handlers, Answer(h), drawn \subseteq drawn'
  PROVE  /\ at' \in [Handlers -> Labels] /\ guess' \in [Handlers -> Guess \cup {None}]
         /\ cred' \in [Handlers -> Credentials \cup {None}]
         /\ who' \in [Handlers -> Users \cup {None}] /\ stale' \subseteq Handlers
         /\ RequestShape'
         /\ \A g \in stale' : g \in stale /\ at'[g] = at[g] /\ cred'[g] = cred[g]
  BY DEF AuthTypeOK, RequestShape, Answer, Labels

(* A login keeps the invariant.                                            *)
LEMMA LoginStepInv ==
  ASSUME AuthInv, NEW h \in Handlers, LoginStep(h)
  PROVE  AuthInv'
<1> USE DEF AuthInv, SessionsHaveUsers, UserRows, SessionRows, Valid
<1>1. ASSUME NEW g \in Guess, Login(h, g)
      PROVE  AuthInv'
  BY <1>1 DEF Login, Goto, AuthTypeOK, RequestShape, StaleStaysVoid, dbVars, Labels
<1>2. CASE LookupUser(h)
  BY <1>2 DEF LookupUser, Goto, AuthTypeOK, RequestShape, StaleStaysVoid, dbVars, Labels
<1>3. CASE LookupRefused(h)
  BY <1>3 DEF LookupRefused, Goto, AuthTypeOK, RequestShape, StaleStaysVoid, dbVars, Labels
<1>4. CASE RecordFailure(h)
  <2>1. guess[h].ip \in IPs /\ drawn' = drawn
    BY <1>4 DEF RecordFailure, AuthTypeOK, RequestShape, Guess, dbVars
  <2> QED
    BY <1>4, <2>1, AnswerShape DEF RecordFailure, AuthTypeOK, StaleStaysVoid, dbVars
<1>5. CASE LoginFails(h)
  BY <1>5, AnswerShape DEF LoginFails, AuthTypeOK, StaleStaysVoid, dbVars
<1>6. ASSUME NEW s \in Sessions, CreateSession(h, s)
      PROVE  AuthInv'
  <2>1. /\ at[h] = "create" /\ who[h] \in Users /\ user[who[h]] # None /\ s \notin drawn
        /\ owner' = [owner EXCEPT ![s] = who[h]] /\ drawn' = drawn \cup {s}
        /\ Answer(h) /\ UNCHANGED <<user, expired, token, fails>>
    BY <1>6 DEF CreateSession, IsNext, UserExists, AuthTypeOK, RequestShape
  <2>2. AuthTypeOK'
    BY <2>1, AnswerShape DEF AuthTypeOK, Credentials
  <2>3. RequestShape' /\ SessionsHaveUsers'
    BY <2>1, AnswerShape DEF AuthTypeOK
  <2>4. StaleStaysVoid'
    <3>1. \A g \in stale : cred[g] # s
      BY <2>1 DEF StaleStaysVoid, RequestShape, AuthTypeOK
    <3> QED
      BY <2>1, <3>1, AnswerShape DEF StaleStaysVoid, AuthTypeOK
  <2> QED
    BY <2>2, <2>3, <2>4
<1> QED
  BY <1>1, <1>2, <1>3, <1>4, <1>5, <1>6 DEF LoginStep

(* A request with a credential keeps the invariant.                        *)
LEMMA RequestStepInv ==
  ASSUME AuthInv, NEW h \in Handlers, RequestStep(h)
  PROVE  AuthInv'
<1> USE DEF AuthInv, SessionsHaveUsers, UserRows, SessionRows, Valid
<1>1. ASSUME NEW c \in Credentials, Request(h, c)
      PROVE  AuthInv'
  BY <1>1 DEF Request, Goto, AuthTypeOK, RequestShape, StaleStaysVoid, dbVars, Labels
<1>2. CASE FindSession(h)
  BY <1>2 DEF FindSession, ActiveSessions, Goto, AuthTypeOK, RequestShape, StaleStaysVoid,
              dbVars, Labels
<1>3. CASE NoSession(h)
  BY <1>3 DEF NoSession, Goto, AuthTypeOK, RequestShape, StaleStaysVoid, dbVars, Labels
<1>4. CASE FindUser(h)
  BY <1>4 DEF FindUser, Goto, AuthTypeOK, RequestShape, StaleStaysVoid, dbVars, Labels
<1>5. CASE NoUser(h)
  BY <1>5 DEF NoUser, Goto, AuthTypeOK, RequestShape, StaleStaysVoid, dbVars, Labels
<1>6. CASE FindToken(h)
  BY <1>6 DEF FindToken, Goto, AuthTypeOK, RequestShape, StaleStaysVoid, dbVars, Labels
<1>7. CASE NoToken(h) \/ Act(h)
  BY <1>7, AnswerShape DEF NoToken, Act, AuthTypeOK, StaleStaysVoid, dbVars
<1>8. CASE Logout(h)
  BY <1>8, AnswerShape DEF Logout, AuthTypeOK, StaleStaysVoid
<1> QED
  BY <1>1, <1>2, <1>3, <1>4, <1>5, <1>6, <1>7, <1>8 DEF RequestStep

(* The command line, the clock and a restart keep the invariant.           *)
LEMMA OtherStepInv ==
  ASSUME AuthInv,
         \/ CommandLine \/ ReapSessions \/ Restart
         \/ \E i \in IPs : FailureAges(i)
         \/ \E s \in Sessions : Expire(s)
         \/ UNCHANGED vars
  PROVE  AuthInv'
<1> USE DEF AuthInv, SessionsHaveUsers, UserRows, SessionRows, Valid, reqVars, dbVars
<1>1. ASSUME NEW u \in Users, NEW n \in Names, NEW p \in Passwords, CreateUser(u, n, p)
      PROVE  AuthInv'
  BY <1>1 DEF CreateUser, IsNext, AuthTypeOK, RequestShape, StaleStaysVoid, User
<1>2. ASSUME NEW u \in Users, NEW p \in Passwords, UpdatePassword(u, p)
      PROVE  AuthInv'
  <2>1. [user[u] EXCEPT !.pw = p] \in User
    BY <1>2 DEF UpdatePassword, AuthTypeOK, User
  <2> QED
    BY <1>2, <2>1 DEF UpdatePassword, AuthTypeOK, RequestShape, StaleStaysVoid
<1>3. ASSUME NEW u \in Users, DeleteUser(u)
      PROVE  AuthInv'
  BY <1>3 DEF DeleteUser, AuthTypeOK, RequestShape, StaleStaysVoid
<1>4. ASSUME NEW t \in Tokens, CreateToken(t)
      PROVE  AuthInv'
  BY <1>4 DEF CreateToken, IsNext, AuthTypeOK, RequestShape, StaleStaysVoid, Credentials
<1>5. ASSUME NEW t \in Tokens, RevokeToken(t)
      PROVE  AuthInv'
  BY <1>5 DEF RevokeToken, AuthTypeOK, RequestShape, StaleStaysVoid
<1>6. CASE ReapSessions
  BY <1>6 DEF ReapSessions, AuthTypeOK, RequestShape, StaleStaysVoid
<1>7. CASE Restart
  BY <1>7 DEF Restart, AuthTypeOK, RequestShape, StaleStaysVoid, Labels
<1>8. ASSUME NEW i \in IPs, FailureAges(i)
      PROVE  AuthInv'
  BY <1>8 DEF FailureAges, AuthTypeOK, RequestShape, StaleStaysVoid
<1>9. ASSUME NEW s \in Sessions, Expire(s)
      PROVE  AuthInv'
  BY <1>9 DEF Expire, AuthTypeOK, RequestShape, StaleStaysVoid
<1>10. CASE UNCHANGED vars
  BY <1>10 DEF vars, AuthTypeOK, RequestShape, StaleStaysVoid
<1> QED
  BY <1>1, <1>2, <1>3, <1>4, <1>5, <1>6, <1>7, <1>8, <1>9, <1>10 DEF CommandLine

(* Users, sessions and the requests under way never contradict each other. *)
THEOREM AuthInvariant == Spec => []AuthInv
<1>1. Init => AuthInv
  BY AuthInitInv
<1>2. AuthInv /\ [Next]_vars => AuthInv'
  BY LoginStepInv, RequestStepInv, OtherStepInv DEF Next
<1> QED
  BY <1>1, <1>2, PTL DEF Spec

(* Types.                                                                  *)
THEOREM AuthTypeCorrect == Spec => []AuthTypeOK
<1>1. AuthInv => AuthTypeOK
  BY DEF AuthInv
<1> QED
  BY <1>1, AuthInvariant, PTL

(* Deleting a user throws out all its sessions, those still being made too.*)
THEOREM DeletedUsersHaveNoSessions == Spec => []SessionsHaveUsers
<1>1. AuthInv => SessionsHaveUsers
  BY DEF AuthInv
<1> QED
  BY <1>1, AuthInvariant, PTL

(* No request with a void credential reaches an admin handler.             *)
THEOREM VoidCredentialsStayOut == Spec => []VoidCredentialsRefused
<1>1. AuthInv => VoidCredentialsRefused
  BY DEF AuthInv, StaleStaysVoid, VoidCredentialsRefused, AuthTypeOK
<1> QED
  BY <1>1, AuthInvariant, PTL

-----------------------------------------------------------------------------
(* The rate limit. *)

(* The logins from address i that may still fail.                          *)
InFlight(i) == {h \in Handlers : at[h] \in {"lookup", "refuse"} /\ guess[h].ip = i}

(* What has failed and what may still fail stays within one budget.        *)
WithinBudget ==
  \A i \in IPs : fails[i] + Cardinality(InFlight(i)) < MaxFail + Cardinality(Handlers)

(* A part of the handlers has a size, and it is no larger than the whole.  *)
LEMMA InFlightSize ==
  ASSUME NEW S \in SUBSET Handlers, NEW T \in SUBSET S
  PROVE  /\ Cardinality(S) \in Nat /\ Cardinality(T) \in Nat
         /\ Cardinality(Handlers) \in Nat
         /\ Cardinality(T) <= Cardinality(S) /\ Cardinality(S) <= Cardinality(Handlers)
<1>1. IsFiniteSet(S) /\ Cardinality(S) <= Cardinality(Handlers)
  BY FS_Subset
<1>2. IsFiniteSet(T) /\ Cardinality(T) <= Cardinality(S)
  BY <1>1, FS_Subset
<1> QED
  BY <1>1, <1>2, FS_CardinalityType

(* A step that lets no new login through and records no failure.           *)
LEMMA BudgetKept ==
  ASSUME AuthTypeOK, WithinBudget, AuthTypeOK',
         \A i \in IPs : fails'[i] <= fails[i] /\ InFlight(i)' \subseteq InFlight(i)
  PROVE  WithinBudget'
<1> SUFFICES ASSUME NEW i \in IPs
             PROVE  fails'[i] + Cardinality(InFlight(i)') < MaxFail + Cardinality(Handlers)
  BY DEF WithinBudget
<1>1. InFlight(i) \in SUBSET Handlers /\ InFlight(i)' \in SUBSET InFlight(i)
  BY DEF InFlight
<1>2. fails[i] \in Nat /\ fails'[i] \in Nat /\ fails'[i] <= fails[i]
  BY DEF AuthTypeOK
<1>3. fails[i] + Cardinality(InFlight(i)) < MaxFail + Cardinality(Handlers)
  BY DEF WithinBudget
<1> HIDE DEF InFlight
<1> QED
  BY <1>1, <1>2, <1>3, InFlightSize

(* A login is let through only below the limit.                            *)
LEMMA LoginBudget ==
  ASSUME AuthInv, WithinBudget, NEW h \in Handlers, NEW g \in Guess, Login(h, g)
  PROVE  WithinBudget'
<1> SUFFICES ASSUME NEW i \in IPs
             PROVE  fails'[i] + Cardinality(InFlight(i)') < MaxFail + Cardinality(Handlers)
  BY DEF WithinBudget
<1>0. fails[i] \in Nat /\ fails'[i] = fails[i]
  BY DEF Login, AuthInv, AuthTypeOK
<1>1. CASE i = g.ip
  <2>1. fails[i] < MaxFail
    BY <1>1 DEF Login, Allow
  <2>2. InFlight(i)' \in SUBSET Handlers
    BY DEF InFlight
  <2> HIDE DEF InFlight
  <2> QED
    BY <1>0, <2>1, <2>2, InFlightSize
<1>2. CASE i # g.ip
  <2>1. InFlight(i)' \in SUBSET InFlight(i) /\ InFlight(i) \in SUBSET Handlers
    BY <1>2 DEF Login, Goto, InFlight, AuthInv, AuthTypeOK
  <2>2. fails[i] + Cardinality(InFlight(i)) < MaxFail + Cardinality(Handlers)
    BY DEF WithinBudget
  <2> HIDE DEF InFlight
  <2> QED
    BY <1>0, <2>1, <2>2, InFlightSize
<1> QED
  BY <1>1, <1>2

(* A failure that is recorded is one that no longer may happen.            *)
LEMMA FailureBudget ==
  ASSUME AuthInv, WithinBudget, NEW h \in Handlers, RecordFailure(h)
  PROVE  WithinBudget'
<1> SUFFICES ASSUME NEW i \in IPs
             PROVE  fails'[i] + Cardinality(InFlight(i)') < MaxFail + Cardinality(Handlers)
  BY DEF WithinBudget
<1>0. fails[i] \in Nat /\ guess[h] \in Guess /\ guess[h].ip \in IPs /\ at[h] = "refuse"
  BY DEF RecordFailure, AuthInv, AuthTypeOK, RequestShape, Guess
<1>1. fails[i] + Cardinality(InFlight(i)) < MaxFail + Cardinality(Handlers)
  BY DEF WithinBudget
<1>2. InFlight(i) \in SUBSET Handlers
  BY DEF InFlight
<1>3. CASE i = guess[h].ip
  <2>1. h \in InFlight(i) /\ InFlight(i)' = InFlight(i) \ {h}
    BY <1>0, <1>3 DEF RecordFailure, Answer, InFlight, AuthInv, AuthTypeOK
  <2>2. fails'[i] = fails[i] + 1
    BY <1>0, <1>3 DEF RecordFailure, AuthInv, AuthTypeOK
  <2> HIDE DEF InFlight
  <2>3. IsFiniteSet(InFlight(i)) /\ Cardinality(InFlight(i)) \in Nat
    BY <1>2, FS_Subset, FS_CardinalityType
  <2>4. Cardinality(InFlight(i)') = Cardinality(InFlight(i)) - 1
    BY <2>1, <2>3, FS_RemoveElement
  <2>5. Cardinality(Handlers) \in Nat
    BY FS_CardinalityType
  <2> QED
    BY <1>0, <1>1, <2>2, <2>3, <2>4, <2>5
<1>4. CASE i # guess[h].ip
  <2>1. InFlight(i)' \in SUBSET InFlight(i) /\ fails'[i] = fails[i]
    BY <1>0, <1>4 DEF RecordFailure, Answer, InFlight, AuthInv, AuthTypeOK
  <2> HIDE DEF InFlight
  <2> QED
    BY <1>0, <1>1, <1>2, <2>1, InFlightSize
<1> QED
  BY <1>3, <1>4

(* Everything else only ends logins and forgets failures.                  *)
LEMMA OtherBudget ==
  ASSUME AuthInv, AuthInv', WithinBudget, [Next]_vars,
         \A h \in Handlers : ~ RecordFailure(h) /\ \A g \in Guess : ~ Login(h, g)
  PROVE  WithinBudget'
<1>1. ASSUME NEW h \in Handlers, LoginStep(h) \/ RequestStep(h)
      PROVE  \A i \in IPs : fails'[i] <= fails[i] /\ InFlight(i)' \subseteq InFlight(i)
  BY <1>1 DEF LoginStep, LookupUser, LookupRefused, LoginFails, CreateSession, RequestStep,
     Request, FindSession, NoSession, FindUser, NoUser, FindToken, NoToken, Act, Logout,
     Goto, Answer, InFlight, AuthInv, AuthTypeOK, dbVars
<1>2. CASE CommandLine \/ ReapSessions \/ UNCHANGED vars \/ \E s \in Sessions : Expire(s)
  <2>1. fails' = fails /\ at' = at /\ guess' = guess
    BY <1>2 DEF CommandLine, CreateUser, DeleteUser, UpdatePassword, CreateToken, RevokeToken,
       ReapSessions, Expire, vars, reqVars
  <2>2. \A i \in IPs : fails'[i] <= fails[i] /\ InFlight(i)' \subseteq InFlight(i)
    BY <2>1 DEF InFlight, AuthInv, AuthTypeOK
  <2> QED
    BY <2>2, BudgetKept DEF AuthInv
<1>3. CASE \E i \in IPs : FailureAges(i)
  <2>1. \A i \in IPs : fails'[i] <= fails[i] /\ InFlight(i)' \subseteq InFlight(i)
    BY <1>3 DEF FailureAges, InFlight, AuthInv, AuthTypeOK, reqVars
  <2> QED
    BY <2>1, BudgetKept DEF AuthInv
<1>4. CASE Restart
  <2>1. \A i \in IPs : fails'[i] <= fails[i] /\ InFlight(i)' \subseteq InFlight(i)
    BY <1>4 DEF Restart, InFlight, AuthInv, AuthTypeOK
  <2> QED
    BY <2>1, BudgetKept DEF AuthInv
<1>5. ASSUME NEW h \in Handlers, LoginStep(h) \/ RequestStep(h)
      PROVE  WithinBudget'
  BY <1>1, <1>5, BudgetKept DEF AuthInv
<1> QED
  BY <1>2, <1>3, <1>4, <1>5 DEF Next

(* An address exceeds the limit by no more than the logins under way.      *)
THEOREM LoginFailuresBounded == Spec => []FailuresBounded
<1>1. Init => WithinBudget
  <2> SUFFICES ASSUME Init, NEW i \in IPs
               PROVE  fails[i] + Cardinality(InFlight(i)) < MaxFail + Cardinality(Handlers)
    BY DEF WithinBudget
  <2>1. fails[i] = 0 /\ InFlight(i) = {}
    BY DEF Init, InFlight
  <2> QED
    BY <2>1, FS_EmptySet, FS_CardinalityType
<1>2. AuthInv /\ AuthInv' /\ WithinBudget /\ [Next]_vars => WithinBudget'
  BY LoginBudget, FailureBudget, OtherBudget
<1>3. AuthInv /\ WithinBudget => FailuresBounded
  <2> SUFFICES ASSUME AuthInv, WithinBudget, NEW i \in IPs
               PROVE  fails[i] < MaxFail + Cardinality(Handlers)
    BY DEF FailuresBounded
  <2>1. InFlight(i) \in SUBSET Handlers
    BY DEF InFlight
  <2>2. fails[i] \in Nat /\ fails[i] + Cardinality(InFlight(i)) < MaxFail + Cardinality(Handlers)
    BY DEF WithinBudget, AuthInv, AuthTypeOK
  <2> HIDE DEF InFlight
  <2> QED
    BY <2>1, <2>2, InFlightSize
<1> QED
  BY <1>1, <1>2, <1>3, AuthInvariant, PTL DEF Spec

-----------------------------------------------------------------------------
(* AdminAuth implements AccessControl. *)

USE DEF AuthInv

(* An idle handler is about nothing.                                       *)
LEMMA AboutNothing ==
  ASSUME NEW g, NEW c, NEW u, NEW m
  PROVE  About("idle", g, c, u, m) = None
  BY DEF About

(* A login that is verified, or refused and not yet answered.              *)
LEMMA AboutLogin ==
  ASSUME NEW l \in {"lookup", "refuse"}, NEW g, NEW c, NEW u, NEW m
  PROVE  About(l, g, c, u, m) = Access!Claiming([name |-> g.name, pw |-> g.pw])
  BY DEF About, Access!Claiming

(* A login whose password was right.                                       *)
LEMMA AboutSession ==
  ASSUME NEW g, NEW c, NEW u, NEW m
  PROVE  About("create", g, c, u, m) = Access!Vouched(u)
  BY DEF About, Access!Vouched

(* A request whose credential is being looked up.                          *)
LEMMA AboutRequest ==
  ASSUME NEW l \in {"session", "user", "token"}, NEW g, NEW c, NEW u, NEW m
  PROVE  About(l, g, c, u, m) = [is |-> m, key |-> c]
  BY DEF About

(* A request that is served.                                               *)
LEMMA AboutService ==
  ASSUME NEW g, NEW c, NEW u, NEW m
  PROVE  About("act", g, c, u, m) = Access!Inside(c)
  BY DEF About, Access!Inside

(* What a client is about depends on its own handler only.                 *)
LEMMA VisitFrame ==
  ASSUME NEW h \in Handlers,
         \A g \in Handlers \ {h} :
           /\ at'[g] = at[g] /\ guess'[g] = guess[g]
           /\ cred'[g] = cred[g] /\ who'[g] = who[g]
           /\ g \in stale' <=> g \in stale
  PROVE  /\ VisitOf[h] = About(at[h], guess[h], cred[h], who[h], Mark(h))
         /\ VisitOf' = [VisitOf EXCEPT
              ![h] = About(at'[h], guess'[h], cred'[h], who'[h], Mark(h)')]
<1>1. \A g \in Handlers \ {h} : Mark(g)' = Mark(g)
  BY DEF Mark
<1> QED
  BY <1>1 DEF VisitOf

(* A step that no handler takes leaves every client as it was.             *)
LEMMA VisitStays ==
  ASSUME UNCHANGED reqVars
  PROVE  VisitOf' = VisitOf
  BY DEF VisitOf, Mark, reqVars

(* A handler that answers or is idle is about nothing.                     *)
LEMMA VisitEnds ==
  ASSUME AuthInv, NEW h \in Handlers, Answer(h)
  PROVE  VisitOf' = [VisitOf EXCEPT ![h] = None]
<1>1. at'[h] = "idle"
  BY DEF Answer, AuthTypeOK
<1>2. VisitOf' = [VisitOf EXCEPT
        ![h] = About(at'[h], guess'[h], cred'[h], who'[h], Mark(h)')]
  BY VisitFrame DEF Answer, AuthTypeOK
<1> QED
  BY <1>1, <1>2, AboutNothing

(* The middleware and AccessControl judge a credential alike.              *)
LEMMA GoodIsValid ==
  ASSUME AuthInv, NEW c \in Credentials
  PROVE  Access!Good(c) <=> Valid(c)
  BY DEF Access!Good, GoodUntil, Valid, SessionRows, Credentials, AuthTypeOK

-----------------------------------------------------------------------------
(* A step of a login is one of AccessControl. *)
LEMMA LoginStepAccess ==
  ASSUME AuthInv, NEW h \in Handlers, LoginStep(h)
  PROVE  Access!Next \/ UNCHANGED Access!vars
<1> DEFINE About0 == About(at[h], guess[h], cred[h], who[h], Mark(h))
           About1 == About(at'[h], guess'[h], cred'[h], who'[h], Mark(h)')
<1>0. at \in [Handlers -> Labels] /\ at[h] \in Labels
  BY DEF AuthTypeOK
<1>1. ASSUME NEW g \in Guess, Login(h, g)
      PROVE  Access!Next
  <2> DEFINE p == [name |-> g.name, pw |-> g.pw]
  <2>1. p \in Access!Pass
    BY DEF Guess, Access!Pass
  <2>2. About0 = None
    BY <1>1, AboutNothing DEF Login, Goto
  <2>3. at'[h] = "lookup" /\ guess'[h] = g
    BY <1>1 DEF Login, Goto, AuthTypeOK
  <2>4. About1 = Access!Claiming(p)
    BY <2>3, AboutLogin
  <2>5. VisitOf[h] = About0 /\ VisitOf' = [VisitOf EXCEPT ![h] = About1]
    BY <1>1, VisitFrame DEF Login, Goto, AuthTypeOK
  <2> HIDE DEF About0, About1
  <2>6. Access!Claim(h, p)
    BY <1>1, <2>2, <2>4, <2>5 DEF Login, dbVars, GoodUntil, Access!Claim, Access!Becomes
  <2> QED
    BY <2>1, <2>6 DEF Access!Next
<1>2. CASE LookupUser(h)
  <2>1. PICK u \in UserRows : /\ user[u] = [name |-> guess[h].name, pw |-> guess[h].pw]
                              /\ who' = [who EXCEPT ![h] = u]
    BY <1>2 DEF LookupUser
  <2>2. About0 = Access!Claiming(user[u])
    BY <1>2, <2>1, AboutLogin DEF LookupUser, Goto
  <2>3. at'[h] = "create" /\ who'[h] = u
    BY <1>2, <2>1 DEF LookupUser, Goto, AuthTypeOK
  <2>4. About1 = Access!Vouched(u)
    BY <2>3, AboutSession
  <2>5. VisitOf[h] = About0 /\ VisitOf' = [VisitOf EXCEPT ![h] = About1]
    BY <1>2, <2>1, VisitFrame DEF LookupUser, Goto, AuthTypeOK
  <2> HIDE DEF About0, About1
  <2>6. u \in Users /\ user[u] # None
    BY DEF UserRows
  <2>7. Access!Vouch(h, u)
    BY <1>2, <2>2, <2>4, <2>5, <2>6 DEF LookupUser, dbVars, GoodUntil, Access!Vouch,
       Access!Becomes
  <2> QED
    BY <2>6, <2>7 DEF Access!Next
<1>3. CASE LookupRefused(h)
  <2>1. at[h] = "lookup" /\ at'[h] = "refuse" /\ guess' = guess
    BY <1>3 DEF LookupRefused, Goto, AuthTypeOK
  <2> DEFINE p == [name |-> guess[h].name, pw |-> guess[h].pw]
  <2>2. About1 = Access!Claiming(p) /\ About0 = Access!Claiming(p)
    BY <2>1, AboutLogin
  <2>3. VisitOf[h] = About0 /\ VisitOf' = [VisitOf EXCEPT ![h] = About1]
    BY <1>3, VisitFrame DEF LookupRefused, Goto, AuthTypeOK
  <2> HIDE DEF About0, About1
  <2>4. VisitOf' = VisitOf
    BY <2>2, <2>3 DEF VisitOf
  <2> QED
    BY <1>3, <2>4 DEF LookupRefused, dbVars, GoodUntil, Access!vars
<1>4. CASE RecordFailure(h) \/ LoginFails(h)
  <2>1. Answer(h) /\ UNCHANGED dbVars
    BY <1>4 DEF RecordFailure, LoginFails
  <2>2. Access!Leave(h)
    BY <2>1, VisitEnds DEF Access!Leave, dbVars, GoodUntil
  <2> QED
    BY <2>2 DEF Access!Next
<1>5. ASSUME NEW s \in Sessions, CreateSession(h, s)
      PROVE  Access!Next
  <2>1. /\ at[h] = "create" /\ who[h] \in Users /\ user[who[h]] # None
        /\ s \notin drawn /\ s \notin expired
        /\ owner' = [owner EXCEPT ![s] = who[h]] /\ drawn' = drawn \cup {s}
        /\ Answer(h) /\ UNCHANGED <<user, expired, token>>
    BY <1>5 DEF CreateSession, IsNext, UserExists, AuthTypeOK, RequestShape
  <2>2. VisitOf[h] = Access!Vouched(who[h])
    BY <2>1, AboutSession DEF VisitOf
  <2>3. GoodUntil' = [GoodUntil EXCEPT ![s] = who[h]]
    BY <2>1 DEF GoodUntil, AuthTypeOK
  <2>4. Access!Open(h, who[h], s)
    BY <2>1, <2>2, <2>3, VisitEnds DEF Access!Open, Access!Becomes
  <2> QED
    BY <2>1, <2>4 DEF Access!Next
<1> QED
  BY <1>1, <1>2, <1>3, <1>4, <1>5 DEF LoginStep
(* The three look-ups of the middleware are one judgement.                 *)
LEMMA RequestStepAccess ==
  ASSUME AuthInv, NEW h \in Handlers, RequestStep(h)
  PROVE  Access!Next \/ UNCHANGED Access!vars
<1> DEFINE About0 == About(at[h], guess[h], cred[h], who[h], Mark(h))
           About1 == About(at'[h], guess'[h], cred'[h], who'[h], Mark(h)')
<1>0. at \in [Handlers -> Labels] /\ at[h] \in Labels
  BY DEF AuthTypeOK
<1>1. ASSUME NEW c \in Credentials, Request(h, c)
      PROVE  Access!Next
  <2>1. About0 = None
    BY <1>1, AboutNothing DEF Request, Goto
  <2>2. at'[h] = "session" /\ cred'[h] = c /\ Mark(h)' = IF Valid(c) THEN "knocking" ELSE "refused"
    <3>1. h \notin stale
      BY <1>1 DEF Request, Goto, StaleStaysVoid
    <3> QED
      BY <1>1, <3>1 DEF Request, Goto, AuthTypeOK, Mark
  <2>3. About1 = [is |-> Mark(h)', key |-> c]
    BY <2>2, AboutRequest
  <2>4. About1 = IF Access!Good(c) THEN Access!Knocking(c) ELSE Access!Refused(c)
    BY <2>2, <2>3, GoodIsValid DEF Access!Knocking, Access!Refused
  <2>5. VisitOf[h] = About0 /\ VisitOf' = [VisitOf EXCEPT ![h] = About1]
    BY <1>1, VisitFrame DEF Request, Goto, AuthTypeOK
  <2> HIDE DEF About0, About1
  <2>6. Access!Knock(h, c)
    BY <1>1, <2>1, <2>4, <2>5 DEF Request, dbVars, GoodUntil, Access!Knock, Access!Becomes
  <2> QED
    BY <2>6 DEF Access!Next, Credentials
<1>2. CASE FindSession(h) \/ NoSession(h) \/ NoUser(h)
  <2>1. /\ at[h] \in {"session", "user", "token"} /\ at'[h] \in {"session", "user", "token"}
        /\ cred' = cred /\ stale' = stale /\ UNCHANGED dbVars
    BY <1>2 DEF FindSession, NoSession, NoUser, Goto, AuthTypeOK
  <2>2. Mark(h)' = Mark(h)
    BY <2>1 DEF Mark
  <2> DEFINE v == [is |-> Mark(h), key |-> cred[h]]
  <2>3. About1 = v /\ About0 = v
    BY <2>1, <2>2, AboutRequest
  <2>4. VisitOf[h] = About0 /\ VisitOf' = [VisitOf EXCEPT ![h] = About1]
    BY <1>2, VisitFrame DEF FindSession, NoSession, NoUser, Goto, AuthTypeOK
  <2> HIDE DEF About0, About1
  <2>5. VisitOf' = VisitOf
    BY <2>3, <2>4 DEF VisitOf
  <2> QED
    BY <2>1, <2>5 DEF dbVars, GoodUntil, Access!vars
<1>3. CASE FindUser(h) \/ FindToken(h)
  <2>1. /\ at[h] \in {"session", "user", "token"} /\ at'[h] = "act"
        /\ cred' = cred /\ cred[h] \in drawn /\ UNCHANGED dbVars
    BY <1>3 DEF FindUser, FindToken, Goto, AuthTypeOK, RequestShape
  <2>2. h \notin stale
    BY <1>3 DEF FindUser, FindToken, Goto, StaleStaysVoid, Valid
  <2>3. About0 = Access!Knocking(cred[h])
    BY <2>1, <2>2, AboutRequest DEF Mark, Access!Knocking
  <2>4. About1 = Access!Inside(cred[h])
    BY <2>1, AboutService
  <2>5. VisitOf[h] = About0 /\ VisitOf' = [VisitOf EXCEPT ![h] = About1]
    BY <1>3, VisitFrame DEF FindUser, FindToken, Goto, AuthTypeOK
  <2>6. cred[h] \in Sessions \cup Tokens
    BY <2>1, <1>3 DEF FindUser, FindToken, Goto, AuthTypeOK, RequestShape, Credentials
  <2> HIDE DEF About0, About1
  <2>7. Access!Enter(h, cred[h])
    BY <2>1, <2>3, <2>4, <2>5 DEF dbVars, GoodUntil, Access!Enter, Access!Becomes
  <2> QED
    BY <2>6, <2>7 DEF Access!Next
<1>4. CASE NoToken(h) \/ Act(h)
  <2>1. Answer(h) /\ UNCHANGED dbVars
    BY <1>4 DEF NoToken, Act
  <2>2. Access!Leave(h)
    BY <2>1, VisitEnds DEF Access!Leave, dbVars, GoodUntil
  <2> QED
    BY <2>2 DEF Access!Next
<1>5. CASE Logout(h)
  <2> DEFINE s == cred[h]
  <2>1. /\ at[h] = "act" /\ s \in Sessions /\ owner' = [owner EXCEPT ![s] = None]
        /\ Answer(h) /\ UNCHANGED <<user, expired, token, drawn>>
    BY <1>5 DEF Logout, SessionRows
  <2>2. VisitOf[h] = Access!Inside(s)
    BY <2>1, AboutService DEF VisitOf
  <2>3. GoodUntil' = [GoodUntil EXCEPT ![s] = None]
    BY <2>1 DEF GoodUntil, AuthTypeOK
  <2>4. Access!Logout(h, s)
    BY <2>1, <2>2, <2>3, VisitEnds DEF Access!Logout, Access!Becomes
  <2> QED
    BY <2>1, <2>4 DEF Access!Next
<1> QED
  BY <1>1, <1>2, <1>3, <1>4, <1>5 DEF RequestStep

(* The command line, the clock, the reaper and a restart.                  *)
LEMMA OtherStepAccess ==
  ASSUME AuthInv,
         \/ CommandLine \/ ReapSessions \/ Restart
         \/ \E i \in IPs : FailureAges(i)
         \/ \E s \in Sessions : Expire(s)
         \/ UNCHANGED vars
  PROVE  Access!Next \/ UNCHANGED Access!vars
<1>1. ASSUME NEW u \in Users, NEW n \in Names, NEW p \in Passwords, CreateUser(u, n, p)
      PROVE  Access!Next
  <2> DEFINE account == [name |-> n, pw |-> p]
  <2>1. account \in Access!Pass
    BY DEF Access!Pass
  <2>2. Access!Hire(u, account)
    BY <1>1, VisitStays DEF CreateUser, NameTaken, UserRows, IsNext, GoodUntil, Access!Hire
  <2> QED
    BY <2>1, <2>2 DEF Access!Next
<1>2. ASSUME NEW u \in Users, NEW p \in Passwords, UpdatePassword(u, p)
      PROVE  Access!Next
  <2>1. [user[u] EXCEPT !.pw = p] = [name |-> user[u].name, pw |-> p]
    BY <1>2 DEF UpdatePassword, AuthTypeOK, User
  <2>2. Access!ChangePassword(u, p)
    BY <1>2, <2>1, VisitStays DEF UpdatePassword, GoodUntil, Access!ChangePassword, AuthTypeOK
  <2> QED
    BY <2>2 DEF Access!Next
<1>3. ASSUME NEW u \in Users, DeleteUser(u)
      PROVE  Access!Next
  <2>1. GoodUntil' = [s \in Sessions |-> IF GoodUntil[s] = u THEN None ELSE GoodUntil[s]]
    BY <1>3 DEF DeleteUser, GoodUntil, AuthTypeOK
  <2>2. Access!Dismiss(u)
    BY <1>3, <2>1, VisitStays DEF DeleteUser, Access!Dismiss
  <2> QED
    BY <2>2 DEF Access!Next
<1>4. ASSUME NEW t \in Tokens, CreateToken(t) \/ RevokeToken(t)
      PROVE  Access!Next
  <2>1. Access!Issue(t) \/ Access!Revoke(t)
    BY <1>4, VisitStays DEF CreateToken, RevokeToken, IsNext, GoodUntil, Access!Issue,
       Access!Revoke
  <2> QED
    BY <2>1 DEF Access!Next
<1>5. CASE ReapSessions
  <2>1. GoodUntil' = GoodUntil
    BY <1>5 DEF ReapSessions, GoodUntil
  <2> QED
    BY <1>5, <2>1, VisitStays DEF ReapSessions, Access!vars
<1>6. CASE Restart
  <2>1. VisitOf' = [h \in Handlers |-> None]
    BY <1>6, AboutNothing DEF Restart, VisitOf
  <2>2. Access!AllLeave
    BY <1>6, <2>1 DEF Restart, dbVars, GoodUntil, Access!AllLeave
  <2> QED
    BY <2>2 DEF Access!Next
<1>7. ASSUME NEW s \in Sessions, Expire(s)
      PROVE  Access!Next
  <2>1. GoodUntil[s] # None /\ GoodUntil' = [GoodUntil EXCEPT ![s] = None]
    BY <1>7 DEF Expire, GoodUntil, SessionRows
  <2>2. Access!Lapse(s)
    BY <1>7, <2>1, VisitStays DEF Expire, Access!Lapse
  <2> QED
    BY <2>2 DEF Access!Next
<1>8. CASE (\E i \in IPs : FailureAges(i)) \/ UNCHANGED vars
  BY <1>8, VisitStays DEF FailureAges, vars, dbVars, reqVars, GoodUntil, Access!vars
<1> QED
  BY <1>1, <1>2, <1>3, <1>4, <1>5, <1>6, <1>7, <1>8 DEF CommandLine

(* Look-ups, verifications, expired rows and restarts implement access     *)
(* control in which each of these is one step.                             *)
THEOREM AuthImplementsAccess == Spec => AccessSpec
<1>1. Init => Access!Init
  <2> SUFFICES ASSUME Init PROVE Access!Init
    OBVIOUS
  <2>1. VisitOf = [h \in Handlers |-> None]
    BY AboutNothing DEF Init, VisitOf
  <2> QED
    BY <2>1 DEF Init, GoodUntil, Access!Init
<1>2. AuthInv /\ [Next]_vars => [Access!Next]_(Access!vars)
  BY LoginStepAccess, RequestStepAccess, OtherStepAccess DEF Next
<1> QED
  BY <1>1, <1>2, AuthInvariant, PTL DEF Spec, AccessSpec, Access!Spec

=============================================================================
