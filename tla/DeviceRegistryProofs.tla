------------------------ MODULE DeviceRegistryProofs ------------------------
(***************************************************************************)
(* Proofs about DeviceRegistry, for any sets of devices, names, tokens and *)
(* handlers.  Each step lemma shows that one group of the conjuncts of     *)
(* IInv survives a step, given IInv before it.                             *)
(***************************************************************************)
EXTENDS DeviceRegistryInv, TLAPS

USE NoneAssumption, SeededAssumption, CrashesAssumption

(* The start state satisfies every part of the invariant.                  *)
LEMMA InitIInv == Init => IInv
<1> SUFFICES ASSUME Init PROVE IInv
  OBVIOUS
<1> USE DEF Init
<1>1. TypeOK
  BY DEF TypeOK, ReaperIdle, Labels, Request
<1>2. Born = Seeded /\ Rows = Seeded
  <2>1. Born = Seeded
    BY DEF Born
  <2>2. PICK nm \in [Seeded -> Names] :
               row = [d \in Devices |-> IF d \in Seeded THEN nm[d] ELSE None]
    OBVIOUS
  <2>3. ASSUME NEW d \in Devices PROVE row[d] # None <=> d \in Seeded
    <3>1. CASE d \in Seeded
      <4>1. row[d] = nm[d] /\ nm[d] \in Names
        BY <2>2, <3>1
      <4> QED
        BY <3>1, <4>1
    <3>2. CASE d \notin Seeded
      BY <2>2, <3>2
    <3> QED
      BY <3>1, <3>2
  <2> QED
    BY <2>1, <2>3 DEF Rows
<1>3. HandlerShape /\ DownIsIdle /\ UnbornUnknown
  BY <1>2 DEF HandlerShape, DownIsIdle, UnbornUnknown, ReaperIdle
<1>4. TokensSpent /\ TokenSingleUse
  BY DEF TokensSpent, TokenSingleUse
<1>5. EnrolmentExclusive /\ RevokeDeleted
  BY DEF EnrolmentExclusive, RevokeDeleted, Enrolling
<1>6. ReaperTargets
  BY DEF ReaperTargets, ReaperForgetsNoAccount, ReaperIdle
<1>7. AccountKept /\ UserKept
  BY <1>2 DEF AccountKept, UserKept
<1>8. LateUserKnown /\ PhantomUserExplained
  BY DEF LateUserKnown, PhantomUserExplained, WillAddUser, At
<1>9. LateAccountKnown /\ OrphanAccountExplained
  BY DEF LateAccountKnown, OrphanAccountExplained, WillOpenAccount, At, Provisioning
<1> QED
  BY <1>1, <1>3, <1>4, <1>5, <1>6, <1>7, <1>8, <1>9 DEF IInv

(* Every step keeps the variables in their types and every handler with    *)
(* what its label needs.                                                   *)
LEMMA StepType ==
  ASSUME TypeOK, HandlerShape, [Next]_vars
  PROVE  TypeOK' /\ HandlerShape'
<1> USE DEF TypeOK, HandlerShape, Labels, ReaperIdle, Request
<1>1. ASSUME NEW t \in Tokens, IssueToken(t) \/ ExpireToken(t)
      PROVE  TypeOK' /\ HandlerShape'
  BY <1>1 DEF IssueToken, ExpireToken, handlerVars, history
<1>2. ASSUME NEW h \in Handlers, NEW t \in Tokens, NEW n \in Names, EnrollCheck(h, t, n)
      PROVE  TypeOK' /\ HandlerShape'
  <2>1. [tok |-> t, name |-> n] \in Request
    OBVIOUS
  <2>2. [tok |-> t, name |-> n] # None
    BY <2>1 DEF Request
  <2> QED
    BY <1>2, <2>1, <2>2 DEF EnrollCheck, Goto, dbVars, history
<1>3. ASSUME NEW h \in Handlers, ConsumeToken(h)
      PROVE  TypeOK' /\ HandlerShape'
  <2>1. PICK d \in Devices :
          /\ row' = [row EXCEPT ![d] = req[h].name]
          /\ origin' = [origin EXCEPT ![d] = req[h].tok]
          /\ dev' = [dev EXCEPT ![h] = d]
    BY <1>3 DEF ConsumeToken, FreshIds
  <2>2. req[h] \in Request
    BY <1>3 DEF ConsumeToken, Goto
  <2> QED
    BY <1>3, <2>1, <2>2 DEF ConsumeToken, Goto
<1>4. ASSUME NEW h \in Handlers, ConsumeRefused(h) \/ RevokeDeleteFails(h)
      PROVE  TypeOK' /\ HandlerShape'
  BY <1>4 DEF ConsumeRefused, RevokeDeleteFails, Finish, dbVars, history
<1>5. ASSUME NEW h \in Handlers,
             EnrollAddUser(h) \/ UndoUser(h) \/ KickRemove(h) \/ RevokeRemoveUser(h)
      PROVE  TypeOK' /\ HandlerShape'
  BY <1>5 DEF EnrollAddUser, UndoUser, KickRemove, RevokeRemoveUser, Goto, dbVars, history
<1>6. ASSUME NEW h \in Handlers, Useradd(h) \/ UseraddFails(h) \/ WriteAuthorizedKeys(h)
      PROVE  TypeOK' /\ HandlerShape'
  BY <1>6 DEF Useradd, UseraddFails, WriteAuthorizedKeys, Goto, dbVars, history
<1>7. ASSUME NEW h \in Handlers, WriteAuthorizedKeysFails(h)
      PROVE  TypeOK' /\ HandlerShape'
  BY <1>7 DEF WriteAuthorizedKeysFails, Goto, dbVars
<1>8. ASSUME NEW h \in Handlers, EnrollRecord(h)
      PROVE  TypeOK' /\ HandlerShape'
  BY <1>8 DEF EnrollRecord, Finish
<1>9. ASSUME NEW h \in Handlers, UndoRow(h)
      PROVE  TypeOK' /\ HandlerShape'
  BY <1>9 DEF UndoRow, Finish, DropRow, NoteOverlap, dbVars
<1>10. ASSUME NEW h \in Handlers, KickAdd(h)
      PROVE  TypeOK' /\ HandlerShape'
  BY <1>10 DEF KickAdd, Finish, dbVars
<1>11. ASSUME NEW h \in Handlers, RevokeMark(h)
      PROVE  TypeOK' /\ HandlerShape'
  BY <1>11 DEF RevokeMark, Goto, history
<1>12. ASSUME NEW h \in Handlers, RevokeDelete(h)
      PROVE  TypeOK' /\ HandlerShape'
  BY <1>12 DEF RevokeDelete, Goto, DropRow, NoteOverlap
<1>13. ASSUME NEW h \in Handlers, RevokeLock(h)
      PROVE  TypeOK' /\ HandlerShape'
  BY <1>13 DEF RevokeLock, Finish, LockedKeys, dbVars
<1>14. ASSUME NEW h \in Handlers, NEW d \in Devices, NEW op \in {"kickRemove", "mark"},
              AdminRequest(h, d, op)
      PROVE  TypeOK' /\ HandlerShape'
  BY <1>14 DEF AdminRequest, Goto, dbVars, history
<1>15. ASSUME NEW d \in Devices, CliRevoke(d)
      PROVE  TypeOK' /\ HandlerShape'
  BY <1>15 DEF CliRevoke, DropRow, handlerVars
<1>16. ASSUME NEW d \in Devices, GraceElapses(d) \/ ReaperUserdel(d) \/ ReaperUserdelFails(d)
      PROVE  TypeOK' /\ HandlerShape'
  BY <1>16 DEF GraceElapses, ReaperUserdel, ReaperUserdelFails, handlerVars, dbVars, history
<1>17. CASE ReaperScan
  BY <1>17 DEF ReaperScan, SSHLockedBefore, handlerVars, dbVars, history
<1>18. CASE ReaperDeleteRow \/ ReaperDeleteRowFails
  BY <1>18 DEF ReaperDeleteRow, ReaperDeleteRowFails, DropRow, handlerVars, dbVars, history
<1>19. CASE Crash
  BY <1>19 DEF Crash, dbVars
<1>20. CASE BootList \/ BootAdd
  BY <1>20 DEF BootList, BootAdd, Rows, handlerVars, dbVars, history
<1>21. CASE UNCHANGED vars
  BY <1>21 DEF vars, handlerVars, dbVars, history
<1> QED
  BY <1>1, <1>2, <1>3, <1>4, <1>5, <1>6, <1>7, <1>8, <1>9, <1>10, <1>11, <1>12, <1>13,
     <1>14, <1>15, <1>16, <1>17, <1>18, <1>19, <1>20, <1>21 DEF Next, HandlerStep

(* What ConsumeToken(h) does, with the fresh id d named.                   *)
Consumed(h, d) ==
  /\ row[d] = None /\ acct[d] = "none" /\ reply[d] = "none"
  /\ d \notin users \cup boot \cup reaper.todo \cup sshRow \cup locked \cup due
  /\ reaper.at # d
  /\ \A g \in Handlers : dev[g] # d
  /\ row' = [row EXCEPT ![d] = req[h].name]
  /\ origin' = [origin EXCEPT ![d] = req[h].tok]
  /\ dev' = [dev EXCEPT ![h] = d]
  /\ pc[h] = "consume" /\ dev[h] = None /\ pc' = [pc EXCEPT ![h] = "addUser"]
  /\ req[h].tok \in Tokens /\ req[h].name \in Names
  /\ tok' = [tok EXCEPT ![req[h].tok] = "used"]
  /\ tok[req[h].tok] \in {"fresh", "expired"}
  /\ NameFree(req[h].name)
  /\ UNCHANGED <<sshRow, locked, due, users, acct, server, boot, reaper,
                 crashes, reply, revoked, lateUser, lateAcct>>

(* A spent token buys exactly one id that nothing in the system knew.      *)
LEMMA ConsumeEffect ==
  ASSUME TypeOK, HandlerShape, UnbornUnknown, NEW h \in Handlers, ConsumeToken(h)
  PROVE  \E d \in Devices \ Born : Consumed(h, d)
<1>1. PICK d \in FreshIds :
        /\ row' = [row EXCEPT ![d] = req[h].name]
        /\ origin' = [origin EXCEPT ![d] = req[h].tok]
        /\ dev' = [dev EXCEPT ![h] = d]
  BY DEF ConsumeToken
<1>2. pc[h] = "consume" /\ pc' = [pc EXCEPT ![h] = "addUser"] /\ req[h] \in Request
      /\ dev[h] = None
  BY DEF ConsumeToken, Goto, TypeOK, HandlerShape
<1>3. req[h].tok \in Tokens /\ req[h].name \in Names
  BY <1>2 DEF Request
<1>4. d \in Devices \ Born
  BY DEF FreshIds
<1>5. /\ row[d] = None /\ acct[d] = "none" /\ reply[d] = "none"
      /\ d \notin users \cup boot \cup reaper.todo \cup sshRow \cup locked \cup due
      /\ reaper.at # d
      /\ \A g \in Handlers : dev[g] # d
  BY <1>4 DEF UnbornUnknown, TypeOK, Rows
<1>6. /\ tok' = [tok EXCEPT ![req[h].tok] = "used"]
      /\ tok[req[h].tok] \in {"fresh", "expired"}
      /\ NameFree(req[h].name)
      /\ UNCHANGED <<sshRow, locked, due, users, acct, server, boot, reaper,
                     crashes, reply, revoked, lateUser, lateAcct>>
  BY DEF ConsumeToken, Unspent
<1> QED
  BY <1>1, <1>2, <1>3, <1>4, <1>5, <1>6 DEF Consumed

(* Ids are drawn once, and a spent token stays with the device it admitted.*)
LEMMA StepIdentity ==
  ASSUME IInv, TypeOK', HandlerShape', [Next]_vars
  PROVE  DownIsIdle' /\ UnbornUnknown' /\ TokensSpent' /\ TokenSingleUse'
<1> USE DEF IInv, TypeOK, HandlerShape, DownIsIdle, UnbornUnknown, TokensSpent, TokenSingleUse,
       Rows, Born, ReaperIdle
<1>1. ASSUME NEW t \in Tokens, IssueToken(t) \/ ExpireToken(t)
      PROVE  DownIsIdle' /\ UnbornUnknown' /\ TokensSpent' /\ TokenSingleUse'
  BY <1>1 DEF IssueToken, ExpireToken, handlerVars, history
<1>2. ASSUME NEW h \in Handlers, NEW t \in Tokens, NEW n \in Names, EnrollCheck(h, t, n)
      PROVE  DownIsIdle' /\ UnbornUnknown' /\ TokensSpent' /\ TokenSingleUse'
  BY <1>2 DEF EnrollCheck, Goto, dbVars, history
<1>3. ASSUME NEW h \in Handlers, ConsumeToken(h)
      PROVE  DownIsIdle' /\ UnbornUnknown' /\ TokensSpent' /\ TokenSingleUse'
  <2>1. PICK d \in Devices \ Born : Consumed(h, d)
    BY <1>3, ConsumeEffect DEF IInv
  <2> USE <2>1 DEF Consumed
  <2>2. Born' = Born \cup {d} /\ Rows \subseteq Rows' /\ Rows' \subseteq Rows \cup {d}
    OBVIOUS
  <2>3. DownIsIdle'
    OBVIOUS
  <2>4. UnbornUnknown'
    BY <2>2
  <2>5. TokensSpent'
    OBVIOUS
  <2>6. TokenSingleUse'
    OBVIOUS
  <2> QED
    BY <2>3, <2>4, <2>5, <2>6
<1>4. ASSUME NEW h \in Handlers, ConsumeRefused(h) \/ RevokeDeleteFails(h)
      PROVE  DownIsIdle' /\ UnbornUnknown' /\ TokensSpent' /\ TokenSingleUse'
  BY <1>4 DEF ConsumeRefused, Finish, dbVars, history, RevokeDeleteFails
<1>5. ASSUME NEW h \in Handlers, EnrollAddUser(h) \/ UndoUser(h) \/ KickRemove(h) \/
       RevokeRemoveUser(h)
      PROVE  DownIsIdle' /\ UnbornUnknown' /\ TokensSpent' /\ TokenSingleUse'
  BY <1>5 DEF EnrollAddUser, Goto, dbVars, history, UndoUser, KickRemove, RevokeRemoveUser
<1>6. ASSUME NEW h \in Handlers, Useradd(h) \/ UseraddFails(h) \/ WriteAuthorizedKeys(h)
      PROVE  DownIsIdle' /\ UnbornUnknown' /\ TokensSpent' /\ TokenSingleUse'
  BY <1>6 DEF Useradd, Goto, dbVars, history, UseraddFails, WriteAuthorizedKeys
<1>7. ASSUME NEW h \in Handlers, WriteAuthorizedKeysFails(h)
      PROVE  DownIsIdle' /\ UnbornUnknown' /\ TokensSpent' /\ TokenSingleUse'
  BY <1>7 DEF WriteAuthorizedKeysFails, Goto, dbVars
<1>8. ASSUME NEW h \in Handlers, EnrollRecord(h)
      PROVE  DownIsIdle' /\ UnbornUnknown' /\ TokensSpent' /\ TokenSingleUse'
  BY <1>8 DEF EnrollRecord, Finish
<1>9. ASSUME NEW h \in Handlers, UndoRow(h)
      PROVE  DownIsIdle' /\ UnbornUnknown' /\ TokensSpent' /\ TokenSingleUse'
  BY <1>9 DEF UndoRow, Finish, DropRow, NoteOverlap, dbVars
<1>10. ASSUME NEW h \in Handlers, KickAdd(h)
      PROVE  DownIsIdle' /\ UnbornUnknown' /\ TokensSpent' /\ TokenSingleUse'
  BY <1>10 DEF KickAdd, Finish, dbVars
<1>11. ASSUME NEW h \in Handlers, RevokeMark(h)
      PROVE  DownIsIdle' /\ UnbornUnknown' /\ TokensSpent' /\ TokenSingleUse'
  BY <1>11 DEF RevokeMark, Goto, history
<1>12. ASSUME NEW h \in Handlers, RevokeDelete(h)
      PROVE  DownIsIdle' /\ UnbornUnknown' /\ TokensSpent' /\ TokenSingleUse'
  BY <1>12 DEF RevokeDelete, Goto, DropRow, NoteOverlap
<1>13. ASSUME NEW h \in Handlers, RevokeLock(h)
      PROVE  DownIsIdle' /\ UnbornUnknown' /\ TokensSpent' /\ TokenSingleUse'
  BY <1>13 DEF RevokeLock, Finish, LockedKeys, dbVars
<1>14. ASSUME NEW h \in Handlers, NEW d \in Devices, NEW op \in {"kickRemove", "mark"},
              AdminRequest(h, d, op)
      PROVE  DownIsIdle' /\ UnbornUnknown' /\ TokensSpent' /\ TokenSingleUse'
  BY <1>14 DEF AdminRequest, Goto, dbVars, history
<1>15. ASSUME NEW d \in Devices, CliRevoke(d)
      PROVE  DownIsIdle' /\ UnbornUnknown' /\ TokensSpent' /\ TokenSingleUse'
  BY <1>15 DEF CliRevoke, DropRow, handlerVars
<1>16. ASSUME NEW d \in Devices, GraceElapses(d) \/ ReaperUserdel(d) \/ ReaperUserdelFails(d)
      PROVE  DownIsIdle' /\ UnbornUnknown' /\ TokensSpent' /\ TokenSingleUse'
  BY <1>16 DEF GraceElapses, handlerVars, history, ReaperUserdel, dbVars, ReaperUserdelFails
<1>17. CASE ReaperScan
  BY <1>17 DEF ReaperScan, SSHLockedBefore, handlerVars, dbVars, history
<1>18. CASE ReaperDeleteRow \/ ReaperDeleteRowFails
  BY <1>18 DEF ReaperDeleteRow, DropRow, handlerVars, ReaperDeleteRowFails, dbVars, history
<1>19. CASE Crash
  BY <1>19 DEF Crash, dbVars
<1>20. CASE BootList \/ BootAdd
  BY <1>20 DEF BootList, handlerVars, dbVars, history, BootAdd
<1>21. CASE UNCHANGED vars
  BY <1>21 DEF vars, handlerVars, dbVars, history
<1> QED
  BY <1>1, <1>2, <1>3, <1>4, <1>5, <1>6, <1>7, <1>8, <1>9, <1>10, <1>11, <1>12, <1>13, <1>14,
     <1>15, <1>16, <1>17, <1>18, <1>19, <1>20, <1>21 DEF Next, HandlerStep

(* A handler owns the device it enrols; revoke and the reaper work on       *)
(* devices that nobody is enrolling any more.                              *)
LEMMA StepTargets ==
  ASSUME IInv, TypeOK', HandlerShape', UnbornUnknown', [Next]_vars
  PROVE  EnrolmentExclusive' /\ RevokeDeleted' /\ ReaperTargets'
<1> USE DEF IInv, TypeOK, HandlerShape, EnrolmentExclusive, RevokeDeleted, ReaperTargets,
       ReaperForgetsNoAccount, Enrolling, At, ReaperIdle
<1>1. ASSUME NEW t \in Tokens, IssueToken(t) \/ ExpireToken(t)
      PROVE  EnrolmentExclusive' /\ RevokeDeleted' /\ ReaperTargets'
  BY <1>1 DEF IssueToken, ExpireToken, handlerVars, history
<1>2. ASSUME NEW h \in Handlers, NEW t \in Tokens, NEW n \in Names, EnrollCheck(h, t, n)
      PROVE  EnrolmentExclusive' /\ RevokeDeleted' /\ ReaperTargets'
  BY <1>2 DEF EnrollCheck, Goto, dbVars, history
<1>3. ASSUME NEW h \in Handlers, ConsumeToken(h)
      PROVE  EnrolmentExclusive' /\ RevokeDeleted' /\ ReaperTargets'
  <2>1. PICK d \in Devices \ Born : Consumed(h, d)
    BY <1>3, ConsumeEffect DEF IInv
  <2> USE <2>1 DEF Consumed
  <2>2. EnrolmentExclusive'
    BY <2>1
  <2>3. RevokeDeleted'
    BY <2>1
  <2>4. ReaperTargets'
    BY <2>1
  <2> QED
    BY <2>2, <2>3, <2>4
<1>4. ASSUME NEW h \in Handlers, ConsumeRefused(h) \/ RevokeDeleteFails(h)
      PROVE  EnrolmentExclusive' /\ RevokeDeleted' /\ ReaperTargets'
  BY <1>4 DEF ConsumeRefused, Finish, dbVars, history, RevokeDeleteFails
<1>5. ASSUME NEW h \in Handlers, EnrollAddUser(h) \/ UndoUser(h) \/ KickRemove(h) \/
       RevokeRemoveUser(h)
      PROVE  EnrolmentExclusive' /\ RevokeDeleted' /\ ReaperTargets'
  BY <1>5 DEF EnrollAddUser, Goto, dbVars, history, UndoUser, KickRemove, RevokeRemoveUser
<1>6. ASSUME NEW h \in Handlers, Useradd(h) \/ UseraddFails(h) \/ WriteAuthorizedKeys(h)
      PROVE  EnrolmentExclusive' /\ RevokeDeleted' /\ ReaperTargets'
  BY <1>6 DEF Useradd, Goto, dbVars, history, UseraddFails, WriteAuthorizedKeys
<1>7. ASSUME NEW h \in Handlers, WriteAuthorizedKeysFails(h)
      PROVE  EnrolmentExclusive' /\ RevokeDeleted' /\ ReaperTargets'
  BY <1>7 DEF WriteAuthorizedKeysFails, Goto, dbVars
<1>8. ASSUME NEW h \in Handlers, EnrollRecord(h)
      PROVE  EnrolmentExclusive' /\ RevokeDeleted' /\ ReaperTargets'
  BY <1>8 DEF EnrollRecord, Finish
<1>9. ASSUME NEW h \in Handlers, UndoRow(h)
      PROVE  EnrolmentExclusive' /\ RevokeDeleted' /\ ReaperTargets'
  BY <1>9 DEF UndoRow, Finish, DropRow, NoteOverlap, dbVars
<1>10. ASSUME NEW h \in Handlers, KickAdd(h)
      PROVE  EnrolmentExclusive' /\ RevokeDeleted' /\ ReaperTargets'
  BY <1>10 DEF KickAdd, Finish, dbVars
<1>11. ASSUME NEW h \in Handlers, RevokeMark(h)
      PROVE  EnrolmentExclusive' /\ RevokeDeleted' /\ ReaperTargets'
  BY <1>11 DEF RevokeMark, Goto, history
<1>12. ASSUME NEW h \in Handlers, RevokeDelete(h)
      PROVE  EnrolmentExclusive' /\ RevokeDeleted' /\ ReaperTargets'
  BY <1>12 DEF RevokeDelete, Goto, DropRow, NoteOverlap
<1>13. ASSUME NEW h \in Handlers, RevokeLock(h)
      PROVE  EnrolmentExclusive' /\ RevokeDeleted' /\ ReaperTargets'
  BY <1>13 DEF RevokeLock, Finish, LockedKeys, dbVars
<1>14. ASSUME NEW h \in Handlers, NEW d \in Devices, NEW op \in {"kickRemove", "mark"},
              AdminRequest(h, d, op)
      PROVE  EnrolmentExclusive' /\ RevokeDeleted' /\ ReaperTargets'
  BY <1>14 DEF AdminRequest, Goto, dbVars, history
<1>15. ASSUME NEW d \in Devices, CliRevoke(d)
      PROVE  EnrolmentExclusive' /\ RevokeDeleted' /\ ReaperTargets'
  BY <1>15 DEF CliRevoke, DropRow, handlerVars
<1>16. ASSUME NEW d \in Devices, GraceElapses(d) \/ ReaperUserdel(d) \/ ReaperUserdelFails(d)
      PROVE  EnrolmentExclusive' /\ RevokeDeleted' /\ ReaperTargets'
  BY <1>16 DEF GraceElapses, handlerVars, history, ReaperUserdel, dbVars, ReaperUserdelFails
<1>17. CASE ReaperScan
  BY <1>17 DEF ReaperScan, SSHLockedBefore, handlerVars, dbVars, history
<1>18. CASE ReaperDeleteRow \/ ReaperDeleteRowFails
  BY <1>18 DEF ReaperDeleteRow, DropRow, handlerVars, ReaperDeleteRowFails, dbVars, history
<1>19. CASE Crash
  BY <1>19 DEF Crash, dbVars
<1>20. CASE BootList \/ BootAdd
  BY <1>20 DEF BootList, handlerVars, dbVars, history, BootAdd
<1>21. CASE UNCHANGED vars
  BY <1>21 DEF vars, handlerVars, dbVars, history
<1> QED
  BY <1>1, <1>2, <1>3, <1>4, <1>5, <1>6, <1>7, <1>8, <1>9, <1>10, <1>11, <1>12, <1>13, <1>14,
     <1>15, <1>16, <1>17, <1>18, <1>19, <1>20, <1>21 DEF Next, HandlerStep

(* The account and the chisel user of a live device survive every step.    *)
LEMMA StepKept ==
  ASSUME IInv, TypeOK', HandlerShape', [Next]_vars
  PROVE  AccountKept' /\ UserKept'
<1> USE DEF IInv, TypeOK, HandlerShape, EnrolmentExclusive, ReaperTargets, ReaperForgetsNoAccount,
       AccountKept, UserKept, Known, Enrolling, At, Rows
<1>1. ASSUME NEW t \in Tokens, IssueToken(t) \/ ExpireToken(t)
      PROVE  AccountKept' /\ UserKept'
  BY <1>1 DEF IssueToken, ExpireToken, handlerVars, history
<1>2. ASSUME NEW h \in Handlers, NEW t \in Tokens, NEW n \in Names, EnrollCheck(h, t, n)
      PROVE  AccountKept' /\ UserKept'
  BY <1>2 DEF EnrollCheck, Goto, dbVars, history
<1>3. ASSUME NEW h \in Handlers, ConsumeToken(h)
      PROVE  AccountKept' /\ UserKept'
  <2>1. PICK d \in Devices \ Born : Consumed(h, d)
    BY <1>3, ConsumeEffect DEF IInv
  <2> USE <2>1 DEF Consumed
  <2>2. AccountKept'
    BY <2>1
  <2>3. UserKept'
    BY <2>1
  <2> QED
    BY <2>2, <2>3
<1>4. ASSUME NEW h \in Handlers, ConsumeRefused(h) \/ RevokeDeleteFails(h)
      PROVE  AccountKept' /\ UserKept'
  BY <1>4 DEF ConsumeRefused, Finish, dbVars, history, RevokeDeleteFails
<1>5. ASSUME NEW h \in Handlers, EnrollAddUser(h) \/ UndoUser(h) \/ KickRemove(h)
      PROVE  AccountKept' /\ UserKept'
  BY <1>5 DEF EnrollAddUser, Goto, dbVars, history, UndoUser, KickRemove
<1>6. ASSUME NEW h \in Handlers, Useradd(h) \/ UseraddFails(h) \/ WriteAuthorizedKeys(h)
      PROVE  AccountKept' /\ UserKept'
  BY <1>6 DEF Useradd, Goto, dbVars, history, UseraddFails, WriteAuthorizedKeys
<1>7. ASSUME NEW h \in Handlers, WriteAuthorizedKeysFails(h)
      PROVE  AccountKept' /\ UserKept'
  BY <1>7 DEF WriteAuthorizedKeysFails, Goto, dbVars
<1>8. ASSUME NEW h \in Handlers, EnrollRecord(h)
      PROVE  AccountKept' /\ UserKept'
  BY <1>8 DEF EnrollRecord, Finish
<1>9. ASSUME NEW h \in Handlers, UndoRow(h)
      PROVE  AccountKept' /\ UserKept'
  BY <1>9 DEF UndoRow, Finish, DropRow, NoteOverlap, dbVars
<1>10. ASSUME NEW h \in Handlers, KickAdd(h)
      PROVE  AccountKept' /\ UserKept'
  BY <1>10 DEF KickAdd, Finish, dbVars
<1>11. ASSUME NEW h \in Handlers, RevokeMark(h)
      PROVE  AccountKept' /\ UserKept'
  BY <1>11 DEF RevokeMark, Goto, history
<1>12. ASSUME NEW h \in Handlers, RevokeDelete(h)
      PROVE  AccountKept' /\ UserKept'
  BY <1>12 DEF RevokeDelete, Goto, DropRow, NoteOverlap
<1>13. ASSUME NEW h \in Handlers, RevokeRemoveUser(h)
      PROVE  AccountKept' /\ UserKept'
  BY <1>13 DEF RevokeRemoveUser, Goto, dbVars, history, RevokeDeleted
<1>14. ASSUME NEW h \in Handlers, RevokeLock(h)
      PROVE  AccountKept' /\ UserKept'
  BY <1>14 DEF RevokeLock, Finish, LockedKeys, dbVars, RevokeDeleted
<1>15. ASSUME NEW h \in Handlers, NEW d \in Devices, NEW op \in {"kickRemove", "mark"},
              AdminRequest(h, d, op)
      PROVE  AccountKept' /\ UserKept'
  BY <1>15 DEF AdminRequest, Goto, dbVars, history
<1>16. ASSUME NEW d \in Devices, CliRevoke(d)
      PROVE  AccountKept' /\ UserKept'
  BY <1>16 DEF CliRevoke, DropRow, handlerVars
<1>17. ASSUME NEW d \in Devices, GraceElapses(d) \/ ReaperUserdel(d) \/ ReaperUserdelFails(d)
      PROVE  AccountKept' /\ UserKept'
  BY <1>17 DEF GraceElapses, handlerVars, history, ReaperUserdel, dbVars, ReaperUserdelFails
<1>18. CASE ReaperScan
  BY <1>18 DEF ReaperScan, SSHLockedBefore, handlerVars, dbVars, history
<1>19. CASE ReaperDeleteRow \/ ReaperDeleteRowFails
  BY <1>19 DEF ReaperDeleteRow, DropRow, handlerVars, ReaperDeleteRowFails, dbVars, history
<1>20. CASE Crash
  BY <1>20 DEF Crash, dbVars
<1>21. CASE BootList \/ BootAdd
  BY <1>21 DEF BootList, handlerVars, dbVars, history, BootAdd, DownIsIdle
<1>22. CASE UNCHANGED vars
  BY <1>22 DEF vars, handlerVars, dbVars, history
<1> HIDE DEF IInv, TypeOK, HandlerShape, EnrolmentExclusive, ReaperTargets,
       ReaperForgetsNoAccount,
       AccountKept, UserKept, Known, Enrolling, At, Rows
<1> QED
  BY <1>1, <1>2, <1>3, <1>4, <1>5, <1>6, <1>7, <1>8, <1>9, <1>10, <1>11, <1>12, <1>13, <1>14,
     <1>15, <1>16, <1>17, <1>18, <1>19, <1>20, <1>21, <1>22 DEF Next, HandlerStep

(* Every user without a row has its cause on record.                       *)
LEMMA StepUser ==
  ASSUME IInv, TypeOK', HandlerShape', [Next]_vars
  PROVE  LateUserKnown' /\ PhantomUserExplained'
<1> USE DEF IInv, TypeOK, HandlerShape, LateUserKnown, PhantomUserExplained,
       WillAddUser, At, DownIsIdle, Rows
<1>1. ASSUME NEW t \in Tokens, IssueToken(t) \/ ExpireToken(t)
      PROVE  LateUserKnown' /\ PhantomUserExplained'
  BY <1>1 DEF IssueToken, ExpireToken, handlerVars, history
<1>2. ASSUME NEW h \in Handlers, NEW t \in Tokens, NEW n \in Names, EnrollCheck(h, t, n)
      PROVE  LateUserKnown' /\ PhantomUserExplained'
  BY <1>2 DEF EnrollCheck, Goto, dbVars, history
<1>3. ASSUME NEW h \in Handlers, ConsumeToken(h)
      PROVE  LateUserKnown' /\ PhantomUserExplained'
  <2>1. PICK d \in Devices \ Born : Consumed(h, d)
    BY <1>3, ConsumeEffect DEF IInv
  <2> USE <2>1 DEF Consumed
  <2>2. LateUserKnown'
    BY <2>1
  <2>3. PhantomUserExplained'
    BY <2>1
  <2> QED
    BY <2>2, <2>3
<1>4. ASSUME NEW h \in Handlers, ConsumeRefused(h) \/ RevokeDeleteFails(h)
      PROVE  LateUserKnown' /\ PhantomUserExplained'
  BY <1>4 DEF ConsumeRefused, Finish, dbVars, history, RevokeDeleteFails
<1>5. ASSUME NEW h \in Handlers, EnrollAddUser(h) \/ UndoUser(h) \/ KickRemove(h) \/
       RevokeRemoveUser(h)
      PROVE  LateUserKnown' /\ PhantomUserExplained'
  BY <1>5 DEF EnrollAddUser, Goto, dbVars, history, UndoUser, KickRemove, RevokeRemoveUser,
     EnrolmentExclusive, Enrolling
<1>6. ASSUME NEW h \in Handlers, Useradd(h) \/ UseraddFails(h) \/ WriteAuthorizedKeys(h)
      PROVE  LateUserKnown' /\ PhantomUserExplained'
  BY <1>6 DEF Useradd, Goto, dbVars, history, UseraddFails, WriteAuthorizedKeys
<1>7. ASSUME NEW h \in Handlers, WriteAuthorizedKeysFails(h)
      PROVE  LateUserKnown' /\ PhantomUserExplained'
  BY <1>7 DEF WriteAuthorizedKeysFails, Goto, dbVars
<1>8. ASSUME NEW h \in Handlers, EnrollRecord(h)
      PROVE  LateUserKnown' /\ PhantomUserExplained'
  BY <1>8 DEF EnrollRecord, Finish
<1>9. ASSUME NEW h \in Handlers, UndoRow(h)
      PROVE  LateUserKnown' /\ PhantomUserExplained'
  BY <1>9 DEF UndoRow, Finish, DropRow, NoteOverlap, dbVars
<1>10. ASSUME NEW h \in Handlers, KickAdd(h)
      PROVE  LateUserKnown' /\ PhantomUserExplained'
  BY <1>10 DEF KickAdd, Finish, dbVars
<1>11. ASSUME NEW h \in Handlers, RevokeMark(h)
      PROVE  LateUserKnown' /\ PhantomUserExplained'
  BY <1>11 DEF RevokeMark, Goto, history
<1>12. ASSUME NEW h \in Handlers, RevokeDelete(h)
      PROVE  LateUserKnown' /\ PhantomUserExplained'
  BY <1>12 DEF RevokeDelete, Goto, DropRow, NoteOverlap
<1>13. ASSUME NEW h \in Handlers, RevokeLock(h)
      PROVE  LateUserKnown' /\ PhantomUserExplained'
  BY <1>13 DEF RevokeLock, Finish, LockedKeys, dbVars
<1>14. ASSUME NEW h \in Handlers, NEW d \in Devices, NEW op \in {"kickRemove", "mark"},
              AdminRequest(h, d, op)
      PROVE  LateUserKnown' /\ PhantomUserExplained'
  BY <1>14 DEF AdminRequest, Goto, dbVars, history
<1>15. ASSUME NEW d \in Devices, CliRevoke(d)
      PROVE  LateUserKnown' /\ PhantomUserExplained'
  BY <1>15 DEF CliRevoke, DropRow, handlerVars
<1>16. ASSUME NEW d \in Devices, GraceElapses(d) \/ ReaperUserdel(d) \/ ReaperUserdelFails(d)
      PROVE  LateUserKnown' /\ PhantomUserExplained'
  BY <1>16 DEF GraceElapses, handlerVars, history, ReaperUserdel, dbVars, ReaperUserdelFails
<1>17. CASE ReaperScan
  BY <1>17 DEF ReaperScan, SSHLockedBefore, handlerVars, dbVars, history
<1>18. CASE ReaperDeleteRow \/ ReaperDeleteRowFails
  BY <1>18 DEF ReaperDeleteRow, DropRow, handlerVars, ReaperDeleteRowFails, dbVars, history
<1>19. CASE Crash
  BY <1>19 DEF Crash, dbVars
<1>20. CASE BootList \/ BootAdd
  BY <1>20 DEF BootList, handlerVars, dbVars, history, BootAdd
<1>21. CASE UNCHANGED vars
  BY <1>21 DEF vars, handlerVars, dbVars, history
<1> HIDE DEF IInv, TypeOK, HandlerShape, LateUserKnown, PhantomUserExplained, WillAddUser, At,
       DownIsIdle,
       Rows
<1> QED
  BY <1>1, <1>2, <1>3, <1>4, <1>5, <1>6, <1>7, <1>8, <1>9, <1>10, <1>11, <1>12, <1>13, <1>14,
     <1>15, <1>16, <1>17, <1>18, <1>19, <1>20, <1>21 DEF Next, HandlerStep

(* Every open account without a row has its cause on record.               *)
LEMMA StepAccount ==
  ASSUME IInv, TypeOK', HandlerShape', [Next]_vars
  PROVE  LateAccountKnown' /\ OrphanAccountExplained'
<1> USE DEF IInv, TypeOK, HandlerShape, LateAccountKnown, OrphanAccountExplained, WillOpenAccount,
       Provisioning, At, Rows
<1>1. ASSUME NEW t \in Tokens, IssueToken(t) \/ ExpireToken(t)
      PROVE  LateAccountKnown' /\ OrphanAccountExplained'
  BY <1>1 DEF IssueToken, ExpireToken, handlerVars, history
<1>2. ASSUME NEW h \in Handlers, NEW t \in Tokens, NEW n \in Names, EnrollCheck(h, t, n)
      PROVE  LateAccountKnown' /\ OrphanAccountExplained'
  BY <1>2 DEF EnrollCheck, Goto, dbVars, history
<1>3. ASSUME NEW h \in Handlers, ConsumeToken(h)
      PROVE  LateAccountKnown' /\ OrphanAccountExplained'
  <2>1. PICK d \in Devices \ Born : Consumed(h, d)
    BY <1>3, ConsumeEffect DEF IInv
  <2> USE <2>1 DEF Consumed
  <2>2. LateAccountKnown'
    BY <2>1
  <2>3. OrphanAccountExplained'
    BY <2>1
  <2> QED
    BY <2>2, <2>3
<1>4. ASSUME NEW h \in Handlers, ConsumeRefused(h) \/ RevokeDeleteFails(h)
      PROVE  LateAccountKnown' /\ OrphanAccountExplained'
  BY <1>4 DEF ConsumeRefused, Finish, dbVars, history, RevokeDeleteFails
<1>5. ASSUME NEW h \in Handlers, EnrollAddUser(h) \/ UndoUser(h) \/ KickRemove(h) \/
       RevokeRemoveUser(h)
      PROVE  LateAccountKnown' /\ OrphanAccountExplained'
  BY <1>5 DEF EnrollAddUser, Goto, dbVars, history, UndoUser, KickRemove, RevokeRemoveUser
<1>6. ASSUME NEW h \in Handlers, Useradd(h) \/ UseraddFails(h) \/ WriteAuthorizedKeys(h)
      PROVE  LateAccountKnown' /\ OrphanAccountExplained'
  BY <1>6 DEF Useradd, Goto, dbVars, history, UseraddFails, WriteAuthorizedKeys,
     EnrolmentExclusive, Enrolling
<1>7. ASSUME NEW h \in Handlers, WriteAuthorizedKeysFails(h)
      PROVE  LateAccountKnown' /\ OrphanAccountExplained'
  BY <1>7 DEF WriteAuthorizedKeysFails, Goto, dbVars, EnrolmentExclusive, Enrolling
<1>8. ASSUME NEW h \in Handlers, EnrollRecord(h)
      PROVE  LateAccountKnown' /\ OrphanAccountExplained'
  BY <1>8 DEF EnrollRecord, Finish
<1>9. ASSUME NEW h \in Handlers, UndoRow(h)
      PROVE  LateAccountKnown' /\ OrphanAccountExplained'
  BY <1>9 DEF UndoRow, Finish, DropRow, NoteOverlap, dbVars
<1>10. ASSUME NEW h \in Handlers, KickAdd(h)
      PROVE  LateAccountKnown' /\ OrphanAccountExplained'
  BY <1>10 DEF KickAdd, Finish, dbVars
<1>11. ASSUME NEW h \in Handlers, RevokeMark(h)
      PROVE  LateAccountKnown' /\ OrphanAccountExplained'
  BY <1>11 DEF RevokeMark, Goto, history
<1>12. ASSUME NEW h \in Handlers, RevokeDelete(h)
      PROVE  LateAccountKnown' /\ OrphanAccountExplained'
  BY <1>12 DEF RevokeDelete, Goto, DropRow, NoteOverlap
<1>13. ASSUME NEW h \in Handlers, RevokeLock(h)
      PROVE  LateAccountKnown' /\ OrphanAccountExplained'
  BY <1>13 DEF RevokeLock, Finish, LockedKeys, dbVars
<1>14. ASSUME NEW h \in Handlers, NEW d \in Devices, NEW op \in {"kickRemove", "mark"},
              AdminRequest(h, d, op)
      PROVE  LateAccountKnown' /\ OrphanAccountExplained'
  BY <1>14 DEF AdminRequest, Goto, dbVars, history
<1>15. ASSUME NEW d \in Devices, CliRevoke(d)
      PROVE  LateAccountKnown' /\ OrphanAccountExplained'
  BY <1>15 DEF CliRevoke, DropRow, handlerVars
<1>16. ASSUME NEW d \in Devices, GraceElapses(d) \/ ReaperUserdel(d) \/ ReaperUserdelFails(d)
      PROVE  LateAccountKnown' /\ OrphanAccountExplained'
  BY <1>16 DEF GraceElapses, handlerVars, history, ReaperUserdel, dbVars, ReaperUserdelFails
<1>17. CASE ReaperScan
  BY <1>17 DEF ReaperScan, SSHLockedBefore, handlerVars, dbVars, history
<1>18. CASE ReaperDeleteRow \/ ReaperDeleteRowFails
  BY <1>18 DEF ReaperDeleteRow, DropRow, handlerVars, ReaperDeleteRowFails, dbVars, history,
     ReaperTargets, ReaperForgetsNoAccount, Enrolling
<1>19. CASE Crash
  BY <1>19 DEF Crash, dbVars
<1>20. CASE BootList \/ BootAdd
  BY <1>20 DEF BootList, handlerVars, dbVars, history, BootAdd
<1>21. CASE UNCHANGED vars
  BY <1>21 DEF vars, handlerVars, dbVars, history
<1> HIDE DEF IInv, TypeOK, HandlerShape, LateAccountKnown, OrphanAccountExplained,
       WillOpenAccount,
       Provisioning, At, Rows
<1> QED
  BY <1>1, <1>2, <1>3, <1>4, <1>5, <1>6, <1>7, <1>8, <1>9, <1>10, <1>11, <1>12, <1>13, <1>14,
     <1>15, <1>16, <1>17, <1>18, <1>19, <1>20, <1>21 DEF Next, HandlerStep


(* IInv is inductive.                                                      *)
LEMMA StepIInv == IInv /\ [Next]_vars => IInv'
<1> SUFFICES ASSUME IInv, [Next]_vars PROVE IInv'
  OBVIOUS
<1>1. TypeOK' /\ HandlerShape'
  BY StepType DEF IInv
<1>2. DownIsIdle' /\ UnbornUnknown' /\ TokensSpent' /\ TokenSingleUse'
  BY <1>1, StepIdentity
<1>3. EnrolmentExclusive' /\ RevokeDeleted' /\ ReaperTargets'
  BY <1>1, <1>2, StepTargets
<1>4. AccountKept' /\ UserKept'
  BY <1>1, StepKept
<1>5. LateUserKnown' /\ PhantomUserExplained'
  BY <1>1, StepUser
<1>6. LateAccountKnown' /\ OrphanAccountExplained'
  BY <1>1, StepAccount
<1> QED
  BY <1>1, <1>2, <1>3, <1>4, <1>5, <1>6 DEF IInv

(* The invariant holds for every set of devices, names, tokens and handlers*)
(* and any number of crashes.                                              *)
THEOREM RegistryInvariant == Spec => []IInv
<1>1. Init => IInv
  BY InitIInv
<1>2. IInv /\ [Next]_vars => IInv'
  BY StepIInv
<1> QED
  BY <1>1, <1>2, PTL DEF Spec

(* Types, a single use of every token and the reaper's order of deletion.  *)
THEOREM TypeCorrect == Spec => []TypeOK
  BY RegistryInvariant, PTL DEF IInv

(* No token ever admits two devices, whatever the interleaving of handlers.*)
THEOREM TokensAdmitOnce == Spec => []TokenSingleUse
  BY RegistryInvariant, PTL DEF IInv

(* The reaper never deletes the row of an account that still exists.       *)
THEOREM ReaperKeepsTrack == Spec => []ReaperForgetsNoAccount
  BY RegistryInvariant, PTL DEF IInv, ReaperTargets

(* chisel's users without a row all have a recorded cause.                 *)
THEOREM PhantomUsersExplained == Spec => []PhantomUserExplained
  BY RegistryInvariant, PTL DEF IInv

(* The open accounts without a row all have a recorded cause.              *)
THEOREM OrphanAccountsExplained == Spec => []OrphanAccountExplained
  BY RegistryInvariant, PTL DEF IInv

(* A device that was told 201 and is not being revoked can log in.         *)
THEOREM EnrolledDevicesUsable == Spec => []EnrolledDeviceUsable
<1>1. IInv => EnrolledDeviceUsable
  BY DEF IInv, AccountKept, UserKept, Known, At, EnrolledDeviceUsable
<1> QED
  BY <1>1, RegistryInvariant, PTL

-----------------------------------------------------------------------------
(* DeviceRegistry implements EnrollmentLedger. *)

NamesUnique == \A d, e \in Devices : row[d] = row[e] /\ row[d] # None => d = e

(* Only four kinds of step touch what the ledger sees.                     *)
LEMMA LedgerSteps ==
  ASSUME IInv, [Next]_vars
  PROVE  \/ \E h \in Handlers : ConsumeToken(h)
         \/ \E t \in Tokens : IssueToken(t) \/ ExpireToken(t)
         \/ /\ UNCHANGED <<tok, origin>>
            /\ \E d \in Devices : row[d] # None /\ row' = [row EXCEPT ![d] = None]
         \/ UNCHANGED <<tok, row, origin>>
<1> USE DEF IInv, TypeOK, HandlerShape
<1>1. ASSUME NEW h \in Handlers, HandlerStep(h), ~ ConsumeToken(h)
      PROVE  \/ UNCHANGED <<tok, row, origin>>
             \/ /\ UNCHANGED <<tok, origin>>
                /\ \E d \in Devices : row[d] # None /\ row' = [row EXCEPT ![d] = None]
  <2>1. CASE UndoRow(h)
    BY <2>1 DEF UndoRow, DropRow, dbVars
  <2>2. CASE RevokeDelete(h)
    <3>1. dev[h] \in Devices
      BY <2>2 DEF RevokeDelete, Goto
    <3> QED
      BY <2>2, <3>1 DEF RevokeDelete, DropRow
  <2>3. CASE ConsumeRefused(h) \/ EnrollAddUser(h) \/ Useradd(h) \/ UseraddFails(h)
             \/ WriteAuthorizedKeys(h) \/ WriteAuthorizedKeysFails(h) \/ EnrollRecord(h)
    BY <2>3 DEF ConsumeRefused, EnrollAddUser, Useradd, UseraddFails, WriteAuthorizedKeys,
                WriteAuthorizedKeysFails, EnrollRecord, dbVars, history
  <2>4. CASE UndoUser(h) \/ KickRemove(h) \/ KickAdd(h) \/ RevokeMark(h)
             \/ RevokeDeleteFails(h) \/ RevokeRemoveUser(h) \/ RevokeLock(h)
    BY <2>4 DEF UndoUser, KickRemove, KickAdd, RevokeMark, RevokeDeleteFails,
                RevokeRemoveUser, RevokeLock, dbVars, history
  <2> QED
    BY <1>1, <2>1, <2>2, <2>3, <2>4 DEF HandlerStep
<1>2. ASSUME NEW d \in Devices, CliRevoke(d)
      PROVE  UNCHANGED <<tok, origin>> /\ row[d] # None /\ row' = [row EXCEPT ![d] = None]
  BY <1>2 DEF CliRevoke, DropRow
<1>3. CASE ReaperDeleteRow
  BY <1>3 DEF ReaperDeleteRow, DropRow
<1>4. ASSUME NEW h \in Handlers, NEW t \in Tokens, NEW n \in Names, EnrollCheck(h, t, n)
      PROVE  UNCHANGED <<tok, row, origin>>
  BY <1>4 DEF EnrollCheck, dbVars, history
<1>5. ASSUME NEW h \in Handlers, NEW d \in Devices, NEW op \in {"kickRemove", "mark"},
             AdminRequest(h, d, op)
      PROVE  UNCHANGED <<tok, row, origin>>
  BY <1>5 DEF AdminRequest, dbVars, history
<1>6. ASSUME NEW d \in Devices, GraceElapses(d) \/ ReaperUserdel(d) \/ ReaperUserdelFails(d)
      PROVE  UNCHANGED <<tok, row, origin>>
  BY <1>6 DEF GraceElapses, ReaperUserdel, ReaperUserdelFails, dbVars, history
<1>7. CASE ReaperScan \/ ReaperDeleteRowFails \/ Crash \/ BootList \/ BootAdd \/ UNCHANGED vars
  BY <1>7 DEF ReaperScan, ReaperDeleteRowFails, Crash, BootList, BootAdd, vars, dbVars, history
<1> QED
  BY <1>1, <1>2, <1>3, <1>4, <1>5, <1>6, <1>7 DEF Next

(* The UNIQUE index on devices.name, kept by every step.                   *)
LEMMA NamesStayUnique ==
  ASSUME IInv, NamesUnique, [Next]_vars
  PROVE  NamesUnique'
<1> USE DEF NamesUnique
<1>1. ASSUME NEW h \in Handlers, ConsumeToken(h) PROVE NamesUnique'
  <2>1. PICK d \in Devices \ Born : Consumed(h, d)
    BY <1>1, ConsumeEffect DEF IInv
  <2> QED
    BY <2>1 DEF Consumed, NameFree, IInv, TypeOK
<1>2. ASSUME NEW t \in Tokens, IssueToken(t) \/ ExpireToken(t) PROVE NamesUnique'
  BY <1>2 DEF IssueToken, ExpireToken
<1>3. ASSUME NEW d \in Devices, row' = [row EXCEPT ![d] = None] PROVE NamesUnique'
  BY <1>3 DEF IInv, TypeOK
<1> QED
  BY <1>1, <1>2, <1>3, LedgerSteps

(* A name that one row has determines the device.                          *)
LEMMA OneDeviceChosen ==
  ASSUME NEW r, NEW n \in Names, NEW d \in Devices, r[d] = n,
         \A a, b \in Devices : r[a] = r[b] /\ r[a] # None => a = b
  PROVE  (CHOOSE e \in Devices : r[e] = n) = d
<1>1. \A e \in Devices : r[e] = n => e = d
  OBVIOUS
<1> QED
  BY <1>1

(* A function that differs from another at one point is its update there.  *)
LEMMA FunctionUpdate ==
  ASSUME NEW S, NEW f, NEW g, NEW a \in S, NEW v,
         f = [x \in S |-> f[x]], g = [x \in S |-> g[x]],
         g[a] = v, \A x \in S : x # a => g[x] = f[x]
  PROVE  g = [f EXCEPT ![a] = v]
  OBVIOUS

(* The domain of LedgerHolder, before and after a step.                    *)
LEMMA HolderIsFunction ==
  /\ LedgerHolder = [n \in Names |-> LedgerHolder[n]]
  /\ LedgerHolder' = [n \in Names |-> LedgerHolder'[n]]
<1>1. LedgerHolder = [n \in Names |-> LedgerHolder[n]]
  BY DEF LedgerHolder
<1>2. LedgerHolder' = [n \in Names |-> LedgerHolder'[n]]
  BY DEF LedgerHolder
<1> QED
  BY <1>1, <1>2

(* LedgerHolder[n] is the device whose row is named n.                     *)
LEMMA HolderOf ==
  ASSUME NamesUnique, TypeOK, NEW n \in Names
  PROVE  /\ \A d \in Devices : row[d] = n => LedgerHolder[n] = d
         /\ NameFree(n) => LedgerHolder[n] = None
         /\ LedgerHolder[n] # None => LedgerHolder[n] \in Devices /\ row[LedgerHolder[n]] = n
<1>1. ASSUME NEW d \in Devices, row[d] = n PROVE LedgerHolder[n] = d
  BY <1>1, OneDeviceChosen DEF LedgerHolder, NameFree, NamesUnique
<1>2. NameFree(n) => LedgerHolder[n] = None
  BY DEF LedgerHolder
<1>3. NameFree(n) \/ \E d \in Devices : row[d] = n
  BY DEF NameFree
<1> QED
  BY <1>1, <1>2, <1>3

(* The founders hold the names of their rows.                              *)
LEMMA LedgerInit == Init => Ledger!Init /\ NamesUnique
<1> SUFFICES ASSUME Init PROVE Ledger!Init /\ NamesUnique
  OBVIOUS
<1>1. PICK nm \in [Seeded -> Names] :
        /\ \A a, b \in Seeded : nm[a] = nm[b] => a = b
        /\ row = [d \in Devices |-> IF d \in Seeded THEN nm[d] ELSE None]
  BY DEF Init
<1>2. \A d \in Seeded : row[d] = nm[d] /\ row[d] \in Names /\ row[d] # None
  BY <1>1
<1>3. \A d \in Devices : row[d] # None => d \in Seeded
  BY <1>1
<1>4. NamesUnique
  BY <1>1, <1>2, <1>3 DEF NamesUnique
<1>5. TypeOK
  BY InitIInv DEF IInv
<1>6. LedgerToken = [t \in Tokens |-> "absent"]
  BY DEF Init, LedgerToken
<1>7. \A n \in Names : LedgerHolder[n] # None =>
        LedgerHolder[n] \in Seeded /\ row[LedgerHolder[n]] = n
  BY <1>3, <1>4, <1>5, HolderOf
<1>8. LedgerHolder \in [Names -> Seeded \cup {None}]
  BY <1>7 DEF LedgerHolder
<1>9. \A d \in Seeded : \E n \in Names : LedgerHolder[n] = d
  BY <1>2, <1>4, <1>5, HolderOf
<1>10. Born = Seeded
  BY DEF Init, Born
<1> QED
  BY <1>4, <1>6, <1>7, <1>8, <1>9, <1>10 DEF Ledger!Init

(* Every step of the registry is a step of the ledger or leaves it alone.  *)
LEMMA LedgerStep ==
  ASSUME IInv, NamesUnique, [Next]_vars
  PROVE  [Ledger!Next]_Ledger!vars
<1> USE DEF Ledger!vars, Ledger!Next
<1>1. TypeOK /\ TypeOK' /\ NamesUnique'
  BY StepIInv, NamesStayUnique DEF IInv
<1>2. UNCHANGED row => UNCHANGED LedgerHolder
  BY DEF LedgerHolder, NameFree
<1>3. UNCHANGED origin => UNCHANGED Born
  BY DEF Born
<1>4. UNCHANGED tok => UNCHANGED LedgerToken
  BY DEF LedgerToken
<1>5. ASSUME NEW h \in Handlers, ConsumeToken(h)
      PROVE  \E t \in Tokens, n \in Names, d \in Devices : Ledger!Admit(t, n, d)
  <2>1. PICK d \in Devices \ Born : Consumed(h, d)
    BY <1>5, ConsumeEffect DEF IInv
  <2> DEFINE t == req[h].tok
             n == req[h].name
  <2>2. t \in Tokens /\ n \in Names
    BY <2>1 DEF Consumed
  <2>3. LedgerToken[t] = "open" /\ LedgerToken' = [LedgerToken EXCEPT ![t] = "spent"]
    BY <1>1, <2>1, <2>2 DEF Consumed, LedgerToken, TypeOK
  <2>4. LedgerHolder[n] = None
    BY <1>1, <2>1, <2>2, HolderOf DEF Consumed
  <2>5. LedgerHolder' = [LedgerHolder EXCEPT ![n] = d]
    <3>1. row'[d] = n /\ row[d] = None /\ \A e \in Devices : e # d => row'[e] = row[e]
      BY <1>1, <2>1 DEF Consumed, TypeOK
    <3>2. LedgerHolder'[n] = d
      BY <3>1, <2>1, <2>2, <1>1, OneDeviceChosen DEF LedgerHolder, NameFree, NamesUnique
    <3>3. ASSUME NEW m \in Names, m # n PROVE LedgerHolder'[m] = LedgerHolder[m]
      <4>1. CASE NameFree(m)
        BY <4>1, <3>1, <3>3 DEF LedgerHolder, NameFree
      <4>2. ASSUME NEW e \in Devices, row[e] = m PROVE LedgerHolder'[m] = LedgerHolder[m]
        <5>1. row'[e] = m /\ e # d
          BY <4>2, <3>1
        <5>2. LedgerHolder'[m] = e
          BY <5>1, <1>1, OneDeviceChosen DEF LedgerHolder, NameFree, NamesUnique
        <5> QED
          BY <5>2, <4>2, <1>1, HolderOf
      <4> QED
        BY <4>1, <4>2 DEF NameFree
    <3> QED
      BY <3>2, <3>3, <2>2, HolderIsFunction, FunctionUpdate
  <2>6. Born' = Born \cup {d}
    BY <1>1, <2>1, <2>2 DEF Consumed, Born, TypeOK
  <2> QED
    BY <2>1, <2>2, <2>3, <2>4, <2>5, <2>6 DEF Ledger!Admit
<1>6. ASSUME NEW t \in Tokens, IssueToken(t) PROVE Ledger!Issue(t)
  BY <1>6, <1>1, <1>2, <1>3 DEF IssueToken, history, Ledger!Issue, LedgerToken, TypeOK
<1>7. ASSUME NEW t \in Tokens, ExpireToken(t) PROVE UNCHANGED Ledger!vars
  BY <1>7, <1>1, <1>2, <1>3 DEF ExpireToken, history, LedgerToken, TypeOK
<1>8. ASSUME UNCHANGED <<tok, origin>>, NEW d \in Devices, row[d] # None,
             row' = [row EXCEPT ![d] = None]
      PROVE  \E n \in Names : Ledger!Leave(n)
  <2>1. row[d] \in Names
    BY <1>1, <1>8 DEF TypeOK
  <2>2. LedgerHolder[row[d]] = d
    BY <1>1, <2>1, HolderOf
  <2>3. LedgerHolder'[row[d]] = None
    BY <1>1, <1>8, <2>1 DEF LedgerHolder, NameFree, NamesUnique, TypeOK
  <2>4. ASSUME NEW m \in Names, m # row[d] PROVE LedgerHolder'[m] = LedgerHolder[m]
    <3>1. CASE NameFree(m)
      BY <3>1, <1>1, <1>8 DEF LedgerHolder, NameFree, TypeOK
    <3>2. ASSUME NEW e \in Devices, row[e] = m PROVE LedgerHolder'[m] = LedgerHolder[m]
      <4>1. row'[e] = m
        BY <1>1, <1>8, <2>4, <3>2 DEF TypeOK
      <4>2. LedgerHolder'[m] = e
        BY <4>1, <1>1, OneDeviceChosen DEF LedgerHolder, NameFree, NamesUnique
      <4> QED
        BY <4>2, <3>2, <1>1, HolderOf
    <3> QED
      BY <3>1, <3>2 DEF NameFree
  <2>5. LedgerHolder' = [LedgerHolder EXCEPT ![row[d]] = None]
    BY <2>1, <2>3, <2>4, HolderIsFunction, FunctionUpdate
  <2> QED
    BY <1>3, <1>4, <1>8, <2>1, <2>2, <2>5 DEF Ledger!Leave
<1> QED
  BY <1>2, <1>3, <1>4, <1>5, <1>6, <1>7, <1>8, LedgerSteps

(* Enrolment by several handlers, with crashes and roll-backs, implements  *)
(* the atomic ledger: one device per token, one device per name, and no    *)
(* device that comes back.                                                 *)
THEOREM RegistryImplementsLedger == Spec => LedgerSpec
<1>1. Init => Ledger!Init /\ NamesUnique
  BY LedgerInit
<1>2. IInv /\ NamesUnique /\ [Next]_vars => NamesUnique'
  BY NamesStayUnique
<1>3. IInv /\ NamesUnique /\ [Next]_vars => [Ledger!Next]_Ledger!vars
  BY LedgerStep
<1> QED
  BY <1>1, <1>2, <1>3, RegistryInvariant, PTL DEF Spec, LedgerSpec, Ledger!Spec

=============================================================================
