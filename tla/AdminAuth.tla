------------------------------ MODULE AdminAuth ------------------------------
(***************************************************************************)
(* Who may administer: password logins and their rate limit, sessions,     *)
(* admin tokens, the middleware in front of /api/admin, and the command    *)
(* line that edits users and tokens in the same database.                  *)
(*                                                                         *)
(* Grain: one SQL statement, one call on the limiter (mutex), one password *)
(* verification (argon2id, slow).  Ids and tokens are random and never     *)
(* come back.  A command-line set that looks the user up first is one step,*)
(* because UPDATE of a missing user and INSERT of a taken name do nothing. *)
(***************************************************************************)
EXTENDS Naturals, FiniteSets

CONSTANTS
  Users,      \* user ids
  Names,      \* user names
  Passwords,
  Sessions,   \* session ids, each with its secret
  Tokens,     \* admin tokens
  IPs,
  Handlers,   \* goroutines serving HTTP requests
  MaxFail,    \* failures that a minute may see before an address has to wait
  None

Credentials == Sessions \cup Tokens
User  == [name : Names, pw : Passwords]
Guess == [ip : IPs, name : Names, pw : Passwords]

ASSUME AuthAssumption ==
  /\ MaxFail \in Nat \ {0}
  /\ IsFiniteSet(Handlers)
  /\ Sessions \cap Tokens = {}
  /\ None \notin Users \cup Credentials \cup User \cup Guess

VARIABLES
  user,     \* admin_users: the row of each id, or None
  owner,    \* sessions: the user id of each row, or None
  expired,  \* sessions whose expires_at has passed
  token,    \* admin_tokens
  drawn,    \* ids and tokens handed out so far
  fails,    \* LoginRateLimiter: failures of each address within the window
  at,       \* where each handler is
  guess,    \* the login request being served, or None
  cred,     \* the credential of the request being served, or None
  who,      \* the user a handler has read, or None
  stale     \* history: handlers whose credential was void when they began

dbVars  == <<user, owner, expired, token, drawn>>
reqVars == <<at, guess, cred, who, stale>>
vars == <<dbVars, fails, reqVars>>

Labels == {"idle", "lookup", "refuse", "create", "session", "user", "token", "act"}

UserRows    == {u \in Users : user[u] # None}
SessionRows == {s \in Sessions : owner[s] # None}

(* A credential that a request beginning now would be let in with.         *)
Valid(c) == c \in token \/ c \in SessionRows \ expired

AuthTypeOK ==
  /\ user \in [Users -> User \cup {None}]
  /\ owner \in [Sessions -> Users \cup {None}]
  /\ expired \subseteq Sessions
  /\ token \subseteq Tokens
  /\ drawn \subseteq Users \cup Credentials
  /\ fails \in [IPs -> Nat]
  /\ at \in [Handlers -> Labels]
  /\ guess \in [Handlers -> Guess \cup {None}]
  /\ cred \in [Handlers -> Credentials \cup {None}]
  /\ who \in [Handlers -> Users \cup {None}]
  /\ stale \subseteq Handlers
  /\ UserRows \cup SessionRows \cup expired \cup token \subseteq drawn

Init ==
  /\ user = [u \in Users |-> None]
  /\ owner = [s \in Sessions |-> None]
  /\ expired = {} /\ token = {} /\ drawn = {}
  /\ fails = [i \in IPs |-> 0]
  /\ at = [h \in Handlers |-> "idle"]
  /\ guess = [h \in Handlers |-> None]
  /\ cred = [h \in Handlers |-> None]
  /\ who = [h \in Handlers |-> None]
  /\ stale = {}

IsNext(i, ids) == i \notin drawn /\ i = CHOOSE j \in ids : j \notin drawn

Goto(h, from, to) == at[h] = from /\ at' = [at EXCEPT ![h] = to]

Answer(h) ==
  /\ at'    = [at EXCEPT ![h] = "idle"]
  /\ guess' = [guess EXCEPT ![h] = None]
  /\ cred'  = [cred EXCEPT ![h] = None]
  /\ who'   = [who EXCEPT ![h] = None]
  /\ stale' = stale \ {h}

-----------------------------------------------------------------------------
(* POST /api/auth/login. *)

(* Mutant: one failure too many.                                           *)
AllowOneMore(i) == fails[i] <= MaxFail

(* LoginRateLimiter.Allow, which forgets what is older than the window.    *)
Allow(i) == fails[i] < MaxFail

(* An address over the limit is answered 429; that changes nothing.        *)
Login(h, g) ==
  /\ Allow(g.ip)
  /\ Goto(h, "idle", "lookup")
  /\ guess' = [guess EXCEPT ![h] = g]
  /\ UNCHANGED <<dbVars, fails, cred, who, stale>>

(* Mutant: the result of VerifyPassword is not looked at.                  *)
LookupUserByName(h) ==
  /\ Goto(h, "lookup", "create")
  /\ \E u \in UserRows :
       /\ user[u].name = guess[h].name
       /\ who' = [who EXCEPT ![h] = u]
  /\ UNCHANGED <<dbVars, fails, guess, cred, stale>>

(* GetAdminUserByUsername, then VerifyPassword on the hash that was read:  *)
(* a login that is being verified does not see a later change.             *)
LookupUser(h) ==
  /\ Goto(h, "lookup", "create")
  /\ \E u \in UserRows :
       /\ user[u] = [name |-> guess[h].name, pw |-> guess[h].pw]
       /\ who' = [who EXCEPT ![h] = u]
  /\ UNCHANGED <<dbVars, fails, guess, cred, stale>>

(* No such user, or another password: both are refused alike.              *)
LookupRefused(h) ==
  /\ Goto(h, "lookup", "refuse")
  /\ \A u \in UserRows : user[u] # [name |-> guess[h].name, pw |-> guess[h].pw]
  /\ UNCHANGED <<dbVars, fails, guess, cred, who, stale>>

(* RecordFailure, then 401.                                                *)
RecordFailure(h) ==
  /\ at[h] = "refuse"
  /\ fails' = [fails EXCEPT ![guess[h].ip] = @ + 1]
  /\ Answer(h)
  /\ UNCHANGED dbVars

(* A failure leaves the window.                                            *)
FailureAges(i) ==
  /\ fails[i] > 0
  /\ fails' = [fails EXCEPT ![i] = @ - 1]
  /\ UNCHANGED <<dbVars, reqVars>>

(* Mutant: sessions.user_id is not a foreign key.                          *)
AnyUser(u) == u \in Users

(* FOREIGN KEY sessions.user_id.                                           *)
UserExists(u) == user[u] # None

(* Mutant: the id of a session may be drawn again.                         *)
CreateSessionIdAgain(h, s) ==
  /\ at[h] = "create"
  /\ IsNext(s, Sessions)
  /\ UserExists(who[h])
  /\ owner' = [owner EXCEPT ![s] = who[h]]
  /\ Answer(h)
  /\ UNCHANGED <<user, expired, token, drawn, fails>>

(* CreateSession, then 200 with the token.                                 *)
CreateSession(h, s) ==
  /\ at[h] = "create"
  /\ IsNext(s, Sessions)
  /\ UserExists(who[h])
  /\ owner' = [owner EXCEPT ![s] = who[h]]
  /\ drawn' = drawn \cup {s}
  /\ Answer(h)
  /\ UNCHANGED <<user, expired, token, fails>>

(* A store error, at the look-up too, or the user is gone: 500.            *)
LoginFails(h) ==
  /\ at[h] \in {"lookup", "create"}
  /\ Answer(h)
  /\ UNCHANGED <<dbVars, fails>>

-----------------------------------------------------------------------------
(* AuthAdminMiddleware in front of an admin handler. *)

(* A credential that was handed out once, valid or not; the others, which  *)
(* nobody can guess, are refused.                                          *)
Request(h, c) ==
  /\ Goto(h, "idle", "session")
  /\ c \in drawn
  /\ cred' = [cred EXCEPT ![h] = c]
  /\ stale' = IF Valid(c) THEN stale ELSE stale \cup {h}
  /\ UNCHANGED <<dbVars, fails, guess, who>>

(* Mutant: the query has lost "AND expires_at > ?".                        *)
AnySession == SessionRows

ActiveSessions == SessionRows \ expired

(* GetActiveSessionByHash.                                                 *)
FindSession(h) ==
  /\ cred[h] \in ActiveSessions
  /\ Goto(h, "session", "user")
  /\ who' = [who EXCEPT ![h] = owner[cred[h]]]
  /\ UNCHANGED <<dbVars, fails, guess, cred, stale>>

(* No active session, or a store error.                                    *)
NoSession(h) ==
  /\ Goto(h, "session", "token")
  /\ UNCHANGED <<dbVars, fails, guess, cred, who, stale>>

(* GetAdminUserByID; TouchSession changes nothing that matters here.       *)
FindUser(h) ==
  /\ Goto(h, "user", "act")
  /\ user[who[h]] # None
  /\ UNCHANGED <<dbVars, fails, guess, cred, who, stale>>

NoUser(h) ==
  /\ Goto(h, "user", "token")
  /\ who' = [who EXCEPT ![h] = None]
  /\ UNCHANGED <<dbVars, fails, guess, cred, stale>>

(* GetAdminTokenByHash.                                                    *)
FindToken(h) ==
  /\ cred[h] \in token
  /\ Goto(h, "token", "act")
  /\ UNCHANGED <<dbVars, fails, guess, cred, who, stale>>

(* 401.                                                                    *)
NoToken(h) ==
  /\ at[h] = "token"
  /\ Answer(h)
  /\ UNCHANGED <<dbVars, fails>>

(* The admin handler that the middleware goes on to: any but those below,  *)
(* whatever it does to other tables.                                       *)
Act(h) ==
  /\ at[h] = "act"
  /\ Answer(h)
  /\ UNCHANGED <<dbVars, fails>>

(* POST /api/auth/logout: DeleteSessionByHash, whose failure is ignored;   *)
(* an admin token stays valid.                                             *)
Logout(h) ==
  /\ at[h] = "act"
  /\ cred[h] \in SessionRows
  /\ owner' = [owner EXCEPT ![cred[h]] = None]
  /\ Answer(h)
  /\ UNCHANGED <<user, expired, token, drawn, fails>>

-----------------------------------------------------------------------------
(* Sessions age. *)

Expire(s) ==
  /\ s \in SessionRows \ expired
  /\ expired' = expired \cup {s}
  /\ UNCHANGED <<user, owner, token, drawn, fails, reqVars>>

(* runSessionReaper: DeleteExpiredSessions.                                *)
ReapSessions ==
  /\ SessionRows \cap expired # {}
  /\ owner' = [s \in Sessions |-> IF s \in expired THEN None ELSE owner[s]]
  /\ UNCHANGED <<user, expired, token, drawn, fails, reqVars>>

-----------------------------------------------------------------------------
(* omlserver admin user set / delete, omlserver admin token create / revoke:*)
(* another process on the same database. *)

NameTaken(n) == \E u \in UserRows : user[u].name = n

CreateUser(u, n, p) ==
  /\ ~ NameTaken(n)
  /\ IsNext(u, Users)
  /\ user' = [user EXCEPT ![u] = [name |-> n, pw |-> p]]
  /\ drawn' = drawn \cup {u}
  /\ UNCHANGED <<owner, expired, token, fails, reqVars>>

UpdatePassword(u, p) ==
  /\ user[u] # None
  /\ user' = [user EXCEPT ![u].pw = p]
  /\ UNCHANGED <<owner, expired, token, drawn, fails, reqVars>>

(* Mutant: sessions.user_id has no ON DELETE CASCADE.                      *)
DeleteUserOnly(u) ==
  /\ user[u] # None
  /\ user' = [user EXCEPT ![u] = None]
  /\ UNCHANGED <<owner, expired, token, drawn, fails, reqVars>>

DeleteUser(u) ==
  /\ user[u] # None
  /\ user' = [user EXCEPT ![u] = None]
  /\ owner' = [s \in Sessions |-> IF owner[s] = u THEN None ELSE owner[s]]
  /\ UNCHANGED <<expired, token, drawn, fails, reqVars>>

CreateToken(t) ==
  /\ IsNext(t, Tokens)
  /\ token' = token \cup {t}
  /\ drawn' = drawn \cup {t}
  /\ UNCHANGED <<user, owner, expired, fails, reqVars>>

RevokeToken(t) ==
  /\ t \in token
  /\ token' = token \ {t}
  /\ UNCHANGED <<user, owner, expired, drawn, fails, reqVars>>

(* The server process is restarted: the limiter forgets, requests end.     *)
Restart ==
  /\ fails' = [i \in IPs |-> 0]
  /\ at' = [h \in Handlers |-> "idle"]
  /\ guess' = [h \in Handlers |-> None]
  /\ cred' = [h \in Handlers |-> None]
  /\ who' = [h \in Handlers |-> None]
  /\ stale' = {}
  /\ UNCHANGED dbVars

-----------------------------------------------------------------------------
LoginStep(h) ==
  \/ \E g \in Guess : Login(h, g)
  \/ LookupUser(h) \/ LookupRefused(h) \/ RecordFailure(h) \/ LoginFails(h)
  \/ \E s \in Sessions : CreateSession(h, s)

RequestStep(h) ==
  \/ \E c \in Credentials : Request(h, c)
  \/ FindSession(h) \/ NoSession(h) \/ FindUser(h) \/ NoUser(h)
  \/ FindToken(h) \/ NoToken(h) \/ Act(h) \/ Logout(h)

CommandLine ==
  \/ \E u \in Users, n \in Names, p \in Passwords : CreateUser(u, n, p)
  \/ \E u \in Users : DeleteUser(u) \/ \E p \in Passwords : UpdatePassword(u, p)
  \/ \E t \in Tokens : CreateToken(t) \/ RevokeToken(t)

Next ==
  \/ \E h \in Handlers : LoginStep(h) \/ RequestStep(h)
  \/ \E i \in IPs : FailureAges(i)
  \/ \E s \in Sessions : Expire(s)
  \/ ReapSessions \/ CommandLine \/ Restart

Spec == Init /\ [][Next]_vars

-----------------------------------------------------------------------------
(* Properties. *)

(* main.go:168: to throw every session of a user out at once, delete the   *)
(* user and create it again.  No session outlives the user id it was made  *)
(* for, not even that of a login which was verified before the deletion and*)
(* enters its session afterwards.                                          *)
SessionsHaveUsers == \A s \in SessionRows : user[owner[s]] # None

(* A request that began after its credential was revoked, had expired, was *)
(* logged out or lost its user never reaches an admin handler, whatever    *)
(* happens between the three look-ups of the middleware.                   *)
VoidCredentialsRefused == \A h \in Handlers : at[h] = "act" => h \notin stale

(* Allow and RecordFailure are two calls with an argon2id between them, so *)
(* an address may fail more than MaxFail times in one window, but only by  *)
(* the logins that were under way.                                         *)
FailuresBounded ==
  \A i \in IPs : fails[i] < MaxFail + Cardinality(Handlers)

(* What a client is about, as AccessControl sees it: a login that was      *)
(* refused and waits for its answer is still claiming, and the three       *)
(* look-ups of the middleware are one.                                     *)
About(label, g, c, u, mark) ==
  CASE label = "idle" -> None
    [] label \in {"lookup", "refuse"} ->
         [is |-> "claiming", pass |-> [name |-> g.name, pw |-> g.pw]]
    [] label = "create" -> [is |-> "vouched", user |-> u]
    [] label \in {"session", "user", "token"} -> [is |-> mark, key |-> c]
    [] label = "act" -> [is |-> "inside", key |-> c]

Mark(h)   == IF h \in stale THEN "refused" ELSE "knocking"
VisitOf   == [h \in Handlers |-> About(at[h], guess[h], cred[h], who[h], Mark(h))]
GoodUntil == [s \in Sessions |-> IF s \in expired THEN None ELSE owner[s]]

Access == INSTANCE AccessControl WITH
  account <- user, holder <- GoodUntil, spent <- drawn, visit <- VisitOf,
  Clients <- Handlers

(* The look-ups, the rows that wait for the reaper, the verification that  *)
(* takes its time and the restarts add up to access control in which a     *)
(* credential is judged once, on arrival, and a user leaves together with  *)
(* its sessions.                                                           *)
AccessSpec == Access!Spec

=============================================================================
