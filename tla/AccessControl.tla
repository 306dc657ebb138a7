--------------------------- MODULE AccessControl ---------------------------
(***************************************************************************)
(* What admin authentication promises: nobody is served whose credential   *)
(* was not good on arrival, a session is opened only for a user that is    *)
(* there and whose password the client gave, an id serves once, and a user *)
(* that is removed takes its sessions along in the same step.  There are no*)
(* look-ups, no rows that outlive their use and no rate limit.             *)
(***************************************************************************)
CONSTANTS Users, Names, Passwords, Sessions, Tokens, Clients, None

VARIABLES
  account,  \* the name and password of each user, or None
  holder,   \* the user each good session belongs to, or None
  token,    \* the admin tokens that are good
  spent,    \* ids of users, sessions and tokens that were handed out
  visit     \* what each client is about: see the five shapes below

vars == <<account, holder, token, spent, visit>>

Claiming(p) == [is |-> "claiming", pass |-> p]
Vouched(u)  == [is |-> "vouched", user |-> u]
Knocking(c) == [is |-> "knocking", key |-> c]  \* came with a good credential
Refused(c)  == [is |-> "refused", key |-> c]   \* came with a void one
Inside(c)   == [is |-> "inside", key |-> c]

Pass    == [name : Names, pw : Passwords]
Good(c) == c \in token \cup {s \in Sessions : holder[s] # None}

Init ==
  /\ account = [u \in Users |-> None]
  /\ holder = [s \in Sessions |-> None]
  /\ token = {} /\ spent = {}
  /\ visit = [h \in Clients |-> None]

Becomes(h, from, to) == visit[h] = from /\ visit' = [visit EXCEPT ![h] = to]

Claim(h, p) ==
  /\ Becomes(h, None, Claiming(p))
  /\ UNCHANGED <<account, holder, token, spent>>

Vouch(h, u) ==
  /\ account[u] # None
  /\ Becomes(h, Claiming(account[u]), Vouched(u))
  /\ UNCHANGED <<account, holder, token, spent>>

Open(h, u, s) ==
  /\ account[u] # None
  /\ s \notin spent
  /\ Becomes(h, Vouched(u), None)
  /\ holder' = [holder EXCEPT ![s] = u]
  /\ spent' = spent \cup {s}
  /\ UNCHANGED <<account, token>>

Knock(h, c) ==
  /\ c \in spent
  /\ Becomes(h, None, IF Good(c) THEN Knocking(c) ELSE Refused(c))
  /\ UNCHANGED <<account, holder, token, spent>>

Enter(h, c) ==
  /\ Becomes(h, Knocking(c), Inside(c))
  /\ UNCHANGED <<account, holder, token, spent>>

Logout(h, s) ==
  /\ Becomes(h, Inside(s), None)
  /\ holder' = [holder EXCEPT ![s] = None]
  /\ UNCHANGED <<account, token, spent>>

Leave(h) ==
  /\ visit' = [visit EXCEPT ![h] = None]
  /\ UNCHANGED <<account, holder, token, spent>>

Lapse(s) ==
  /\ holder[s] # None
  /\ holder' = [holder EXCEPT ![s] = None]
  /\ UNCHANGED <<account, token, spent, visit>>

Hire(u, p) ==
  /\ u \notin spent
  /\ \A v \in Users : account[v] # None => account[v].name # p.name
  /\ account' = [account EXCEPT ![u] = p]
  /\ spent' = spent \cup {u}
  /\ UNCHANGED <<holder, token, visit>>

ChangePassword(u, w) ==
  /\ account[u] # None
  /\ account' = [account EXCEPT ![u] = [name |-> account[u].name, pw |-> w]]
  /\ UNCHANGED <<holder, token, spent, visit>>

Dismiss(u) ==
  /\ account[u] # None
  /\ account' = [account EXCEPT ![u] = None]
  /\ holder' = [s \in Sessions |-> IF holder[s] = u THEN None ELSE holder[s]]
  /\ UNCHANGED <<token, spent, visit>>

Issue(t) ==
  /\ t \notin spent
  /\ token' = token \cup {t}
  /\ spent' = spent \cup {t}
  /\ UNCHANGED <<account, holder, visit>>

Revoke(t) ==
  /\ t \in token
  /\ token' = token \ {t}
  /\ UNCHANGED <<account, holder, spent, visit>>

AllLeave ==
  /\ visit' = [h \in Clients |-> None]
  /\ UNCHANGED <<account, holder, token, spent>>

Next ==
  \/ \E h \in Clients :
       \/ \E p \in Pass : Claim(h, p)
       \/ \E u \in Users : Vouch(h, u) \/ \E s \in Sessions : Open(h, u, s)
       \/ \E c \in Sessions \cup Tokens : Knock(h, c) \/ Enter(h, c)
       \/ \E s \in Sessions : Logout(h, s)
       \/ Leave(h)
  \/ \E u \in Users :
       \/ Dismiss(u)
       \/ \E p \in Pass : Hire(u, p)
       \/ \E w \in Passwords : ChangePassword(u, w)
  \/ \E s \in Sessions : Lapse(s)
  \/ \E t \in Tokens : Issue(t) \/ Revoke(t)
  \/ AllLeave

Spec == Init /\ [][Next]_vars

=============================================================================
