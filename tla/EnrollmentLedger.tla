-------------------------- MODULE EnrollmentLedger --------------------------
(***************************************************************************)
(* What enrolment promises, without handlers, crashes or roll-backs: a     *)
(* token admits at most one device, a name belongs to at most one device   *)
(* at a time, and a device that has left never comes back.                 *)
(***************************************************************************)
CONSTANTS Devices, Names, Tokens, None, Founders

VARIABLES
  token,     \* absent, open or spent
  holder,    \* the device that has each name, None when it is free
  admitted   \* every device ever admitted

vars == <<token, holder, admitted>>

Init ==
  /\ token = [t \in Tokens |-> "absent"]
  /\ holder \in [Names -> Founders \cup {None}]
  /\ \A d \in Founders : \E n \in Names : holder[n] = d
  /\ \A m, n \in Names : holder[m] = holder[n] /\ holder[m] # None => m = n
  /\ admitted = Founders

Issue(t) ==
  /\ token[t] = "absent"
  /\ token' = [token EXCEPT ![t] = "open"]
  /\ UNCHANGED <<holder, admitted>>

Admit(t, n, d) ==
  /\ token[t] = "open"
  /\ holder[n] = None
  /\ d \notin admitted
  /\ token' = [token EXCEPT ![t] = "spent"]
  /\ holder' = [holder EXCEPT ![n] = d]
  /\ admitted' = admitted \cup {d}

Leave(n) ==
  /\ holder[n] # None
  /\ holder' = [holder EXCEPT ![n] = None]
  /\ UNCHANGED <<token, admitted>>

Next ==
  \/ \E t \in Tokens : Issue(t)
  \/ \E t \in Tokens, n \in Names, d \in Devices : Admit(t, n, d)
  \/ \E n \in Names : Leave(n)

Spec == Init /\ [][Next]_vars

=============================================================================
