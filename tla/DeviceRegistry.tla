--------------------------- MODULE DeviceRegistry ---------------------------
(***************************************************************************)
(* Who may use the relay.  A device is known in three places that no       *)
(* transaction spans: its row in SQLite, its entry in the chisel user      *)
(* index (memory, rebuilt at start-up) and its restricted SSH account on   *)
(* the host (survives everything).  Enrolment, the admin's kick and revoke,*)
(* the command line's revoke, the seven-day account reaper and a restart   *)
(* each change them one call at a time.                                    *)
(*                                                                         *)
(* Grain of atomicity: one SQL statement or transaction (the pool has one  *)
(* connection), one call on the chisel server (mutex), one external        *)
(* command.  Everything between two of them may interleave.  A call that   *)
(* can fail has a failing branch: a client that disconnects cancels        *)
(* r.Context(), and every later statement and command of its handler fails.*)
(***************************************************************************)
EXTENDS Naturals

CONSTANTS
  Devices,     \* device ids; enrolment draws one that was never used
  Names,       \* device names, UNIQUE among the rows
  Tokens,      \* enrolment tokens
  Handlers,    \* goroutines serving HTTP requests
  Seeded,      \* devices already in the database when the behaviour begins
  MaxCrashes,  \* bound on the number of times the server process dies
  None

ASSUME SeededAssumption  == Seeded \subseteq Devices
ASSUME CrashesAssumption == MaxCrashes \in Nat

Request == [tok : Tokens, name : Names]

ASSUME NoneAssumption == None \notin Devices \cup Names \cup Tokens \cup Request

VARIABLES
  tok,      \* enrollment_tokens: absent, fresh, expired or used
  row,      \* devices: the row's name, None without a row
  sshRow,   \* rows with ssh_pubkey and ssh_username filled in
  locked,   \* rows with ssh_locked_at set
  due,      \* rows whose ssh_locked_at is older than the grace period
  users,    \* the chisel user index
  acct,     \* the SSH account: none, shut (no key in it) or open
  server,   \* down, booting or up
  boot,     \* ListDevices result that reloadChiselUsers is injecting
  pc,       \* where each handler is
  dev,      \* the device each handler works on
  req,      \* token and name of an enrolment before it has a device
  reaper,   \* runSSHAccountReaper: rows still to do, row being deleted
  crashes

(* History: what was answered, which token made a device, and which        *)
(* devices met one of the events that can strand a user or an account.     *)
VARIABLES origin, reply, revoked, lateUser, lateAcct

dbVars      == <<tok, row, sshRow, locked, due>>
handlerVars == <<pc, dev, req>>
history     == <<origin, reply, revoked, lateUser, lateAcct>>
vars == <<dbVars, users, acct, server, boot, handlerVars, reaper, crashes, history>>

Labels == {"idle", "consume", "addUser", "useradd", "authkeys", "record",
           "undoUser", "undoRow", "kickRemove", "kickAdd",
           "mark", "delete", "removeUser", "lock"}

ReaperIdle == [todo |-> {}, at |-> None]

TypeOK ==
  /\ tok \in [Tokens -> {"absent", "fresh", "expired", "used"}]
  /\ row \in [Devices -> Names \cup {None}]
  /\ sshRow \subseteq Devices
  /\ locked \subseteq Devices
  /\ due \subseteq locked
  /\ users \subseteq Devices
  /\ acct \in [Devices -> {"none", "shut", "open"}]
  /\ server \in {"down", "booting", "up"}
  /\ boot \subseteq Devices
  /\ pc \in [Handlers -> Labels]
  /\ dev \in [Handlers -> Devices \cup {None}]
  /\ req \in [Handlers -> Request \cup {None}]
  /\ reaper \in [todo : SUBSET Devices, at : Devices \cup {None}]
  /\ crashes \in Nat
  /\ origin \in [Devices -> Tokens \cup {None}]
  /\ reply \in [Devices -> {"none", "created", "failed"}]
  /\ revoked \subseteq Devices
  /\ lateUser \subseteq Devices
  /\ lateAcct \subseteq Devices

Rows == {d \in Devices : row[d] # None}
Born == Seeded \cup {d \in Devices : origin[d] # None}

(* The server has not started; the database holds the Seeded devices, each *)
(* with the SSH account its enrolment gave it.                             *)
Init ==
  /\ tok = [t \in Tokens |-> "absent"]
  /\ \E nm \in [Seeded -> Names] :
       /\ \A a, b \in Seeded : nm[a] = nm[b] => a = b
       /\ row = [d \in Devices |-> IF d \in Seeded THEN nm[d] ELSE None]
  /\ sshRow = Seeded
  /\ locked = {} /\ due = {}
  /\ users = {}
  /\ acct = [d \in Devices |-> IF d \in Seeded THEN "open" ELSE "none"]
  /\ server = "down" /\ boot = {}
  /\ pc = [h \in Handlers |-> "idle"]
  /\ dev = [h \in Handlers |-> None]
  /\ req = [h \in Handlers |-> None]
  /\ reaper = ReaperIdle
  /\ crashes = 0
  /\ origin = [d \in Devices |-> None]
  /\ reply = [d \in Devices |-> IF d \in Seeded THEN "created" ELSE "none"]
  /\ revoked = {} /\ lateUser = {} /\ lateAcct = {}

-----------------------------------------------------------------------------
(* Steps of a handler. *)

Goto(h, from, to) == pc[h] = from /\ pc' = [pc EXCEPT ![h] = to]

Finish(h) ==
  /\ pc'  = [pc EXCEPT ![h] = "idle"]
  /\ dev' = [dev EXCEPT ![h] = None]
  /\ req' = [req EXCEPT ![h] = None]

At(d, labels) == \E h \in Handlers : dev[h] = d /\ pc[h] \in labels

(* Somebody who read d's row earlier will still put d into the user index. *)
WillAddUser(d) == d \in boot \/ At(d, {"addUser", "kickRemove", "kickAdd"})

(* Somebody who created d's row earlier will still open its SSH account.   *)
WillOpenAccount(d) == At(d, {"addUser", "useradd", "authkeys"})

(* Mutant: the row goes, its ssh_locked_at stays due for the reaper.        *)
DropRowKeepsDue(d) ==
  /\ row'    = [row EXCEPT ![d] = None]
  /\ sshRow' = sshRow \ {d}
  /\ locked' = locked \ {d}
  /\ UNCHANGED <<due, tok>>

(* DELETE FROM devices: the row and all its columns.                       *)
DropRow(d) ==
  /\ row'    = [row EXCEPT ![d] = None]
  /\ sshRow' = sshRow \ {d}
  /\ locked' = locked \ {d}
  /\ due'    = due \ {d}
  /\ UNCHANGED tok

(* The two excuses of a deletion that overlaps work on the same device.    *)
NoteOverlap(d) ==
  /\ lateUser' = IF WillAddUser(d) THEN lateUser \cup {d} ELSE lateUser
  /\ lateAcct' = IF WillOpenAccount(d) THEN lateAcct \cup {d} ELSE lateAcct

-----------------------------------------------------------------------------
(* Enrolment tokens. *)

IssueToken(t) ==
  /\ tok[t] = "absent"
  /\ tok' = [tok EXCEPT ![t] = "fresh"]
  /\ UNCHANGED <<row, sshRow, locked, due, users, acct, server, boot,
                 handlerVars, reaper, crashes, history>>

ExpireToken(t) ==
  /\ tok[t] = "fresh"
  /\ tok' = [tok EXCEPT ![t] = "expired"]
  /\ UNCHANGED <<row, sshRow, locked, due, users, acct, server, boot,
                 handlerVars, reaper, crashes, history>>

-----------------------------------------------------------------------------
(* POST /api/devices/enroll. *)

(* The token is looked up and must be neither used nor expired.            *)
EnrollCheck(h, t, n) ==
  /\ server = "up"
  /\ tok[t] = "fresh"
  /\ Goto(h, "idle", "consume")
  /\ req' = [req EXCEPT ![h] = [tok |-> t, name |-> n]]
  /\ UNCHANGED <<dbVars, users, acct, server, boot, dev, reaper, crashes, history>>

(* Mutant: the transaction trusts the look-up made before it.              *)
AssumedUnspent(t) == tok[t] # "absent"

(* used_at IS NULL, read inside the transaction.                           *)
Unspent(t) == tok[t] \in {"fresh", "expired"}

(* UNIQUE(devices.name).                                                   *)
NameFree(n) == \A d \in Devices : row[d] # n

(* Mutant: the id is drawn among the ids without a row.                    *)
RowlessIds == Devices \ Rows

(* NewDeviceID: sixteen random bytes never meet an id used before.         *)
FreshIds == Devices \ Born

(* ConsumeEnrollmentToken: one transaction that reads used_at again (but   *)
(* not expires_at), inserts the device and marks the token used.           *)
ConsumeToken(h) ==
  /\ Goto(h, "consume", "addUser")
  /\ Unspent(req[h].tok)
  /\ NameFree(req[h].name)
  /\ \E d \in FreshIds :
       /\ row' = [row EXCEPT ![d] = req[h].name]
       /\ origin' = [origin EXCEPT ![d] = req[h].tok]
       /\ dev' = [dev EXCEPT ![h] = d]
  /\ tok' = [tok EXCEPT ![req[h].tok] = "used"]
  /\ req' = [req EXCEPT ![h] = None]
  /\ UNCHANGED <<sshRow, locked, due, users, acct, server, boot, reaper, crashes,
                 reply, revoked, lateUser, lateAcct>>

(* Used meanwhile (401), name taken (409) or store error (400): rolled back.*)
ConsumeRefused(h) ==
  /\ pc[h] = "consume"
  /\ Finish(h)
  /\ UNCHANGED <<dbVars, users, acct, server, boot, reaper, crashes, history>>

EnrollAddUser(h) ==
  /\ Goto(h, "addUser", "useradd")
  /\ users' = users \cup {dev[h]}
  /\ UNCHANGED <<dbVars, acct, server, boot, dev, req, reaper, crashes, history>>

(* Provision: useradd, then the key file.                                  *)
Useradd(h) ==
  /\ Goto(h, "useradd", "authkeys")
  /\ acct' = [acct EXCEPT ![dev[h]] = "shut"]
  /\ UNCHANGED <<dbVars, users, server, boot, dev, req, reaper, crashes, history>>

UseraddFails(h) ==
  /\ Goto(h, "useradd", "undoUser")
  /\ UNCHANGED <<dbVars, users, acct, server, boot, dev, req, reaper, crashes, history>>

WriteAuthorizedKeys(h) ==
  /\ Goto(h, "authkeys", "record")
  /\ acct' = [acct EXCEPT ![dev[h]] = "open"]
  /\ UNCHANGED <<dbVars, users, server, boot, dev, req, reaper, crashes, history>>

(* mkdir, write or chown fails and Provision removes the account again;    *)
(* the userdel may fail too, before or after the key was written.          *)
WriteAuthorizedKeysFails(h) ==
  /\ Goto(h, "authkeys", "undoUser")
  /\ \/ /\ acct' = [acct EXCEPT ![dev[h]] = "none"]
        /\ UNCHANGED lateAcct
     \/ /\ \E a \in {"shut", "open"} : acct' = [acct EXCEPT ![dev[h]] = a]
        /\ lateAcct' = lateAcct \cup {dev[h]}
  /\ UNCHANGED <<dbVars, users, server, boot, dev, req, reaper, crashes,
                 origin, reply, revoked, lateUser>>

(* SetDeviceSSH, whose error is ignored, then 201.                         *)
EnrollRecord(h) ==
  /\ pc[h] = "record"
  /\ \/ row[dev[h]] # None /\ sshRow' = sshRow \cup {dev[h]}
     \/ UNCHANGED sshRow
  /\ Finish(h)
  /\ reply' = [reply EXCEPT ![dev[h]] = "created"]
  /\ UNCHANGED <<tok, row, locked, due, users, acct, server, boot, reaper, crashes,
                 origin, revoked, lateUser, lateAcct>>

(* Roll-back of a failed Provision: RemoveDevice, DeleteDevice, then 500.  *)
UndoUser(h) ==
  /\ Goto(h, "undoUser", "undoRow")
  /\ users' = users \ {dev[h]}
  /\ UNCHANGED <<dbVars, acct, server, boot, dev, req, reaper, crashes, history>>

UndoRow(h) ==
  /\ pc[h] = "undoRow"
  /\ \/ /\ row[dev[h]] # None
        /\ DropRow(dev[h])
        /\ NoteOverlap(dev[h])
     \/ UNCHANGED <<dbVars, lateUser, lateAcct>>
  /\ Finish(h)
  /\ reply' = [reply EXCEPT ![dev[h]] = "failed"]
  /\ UNCHANGED <<users, acct, server, boot, reaper, crashes, origin, revoked>>

-----------------------------------------------------------------------------
(* POST /api/admin/devices/<id>/kick and /revoke. *)

(* GetDeviceByID; without a row the answer is 404.                         *)
AdminRequest(h, d, first) ==
  /\ server = "up"
  /\ row[d] # None
  /\ Goto(h, "idle", first)
  /\ dev' = [dev EXCEPT ![h] = d]
  /\ UNCHANGED <<dbVars, users, acct, server, boot, req, reaper, crashes, history>>

KickRemove(h) ==
  /\ Goto(h, "kickRemove", "kickAdd")
  /\ users' = users \ {dev[h]}
  /\ UNCHANGED <<dbVars, acct, server, boot, dev, req, reaper, crashes, history>>

KickAdd(h) ==
  /\ pc[h] = "kickAdd"
  /\ users' = users \cup {dev[h]}
  /\ lateUser' = IF At(dev[h], {"undoRow"}) THEN lateUser \cup {dev[h]} ELSE lateUser
  /\ Finish(h)
  /\ UNCHANGED <<dbVars, acct, server, boot, reaper, crashes,
                 origin, reply, revoked, lateAcct>>

(* MarkDeviceSSHLocked, which also restarts the grace period of a row that *)
(* was marked before; an error is logged and the handler goes on.          *)
RevokeMark(h) ==
  /\ Goto(h, "mark", "delete")
  /\ \/ row[dev[h]] # None /\ locked' = locked \cup {dev[h]} /\ due' = due \ {dev[h]}
     \/ UNCHANGED <<locked, due>>
  /\ UNCHANGED <<tok, row, sshRow, users, acct, server, boot, dev, req, reaper,
                 crashes, history>>

RevokeDelete(h) ==
  /\ Goto(h, "delete", "removeUser")
  /\ row[dev[h]] # None
  /\ DropRow(dev[h])
  /\ NoteOverlap(dev[h])
  /\ UNCHANGED <<users, acct, server, boot, dev, req, reaper, crashes,
                 origin, reply, revoked>>

(* No such row any more, or a store error: 500, nothing else is undone.    *)
RevokeDeleteFails(h) ==
  /\ pc[h] = "delete"
  /\ Finish(h)
  /\ UNCHANGED <<dbVars, users, acct, server, boot, reaper, crashes, history>>

(* Mutant: revoke leaves the user to the next restart.                     *)
RevokeKeepsUser(h) ==
  /\ Goto(h, "removeUser", "lock")
  /\ UNCHANGED <<dbVars, users, acct, server, boot, dev, req, reaper, crashes, history>>

RevokeRemoveUser(h) ==
  /\ Goto(h, "removeUser", "lock")
  /\ users' = users \ {dev[h]}
  /\ UNCHANGED <<dbVars, acct, server, boot, dev, req, reaper, crashes, history>>

(* Mutant: Lock kills the sessions and leaves the key file.                *)
KeptKeys(a) == a

(* Lock empties authorized_keys; an account that does not exist is skipped.*)
LockedKeys(a) == IF a = "none" THEN "none" ELSE "shut"

(* SSHAcct.Lock; its failure is logged, then 204.  *)
RevokeLock(h) ==
  /\ pc[h] = "lock"
  /\ \/ /\ acct' = [acct EXCEPT ![dev[h]] = LockedKeys(@)]
        /\ UNCHANGED lateAcct
     \/ /\ lateAcct' = lateAcct \cup {dev[h]}
        /\ UNCHANGED acct
  /\ Finish(h)
  /\ revoked' = revoked \cup {dev[h]}
  /\ UNCHANGED <<dbVars, users, server, boot, reaper, crashes, origin, reply, lateUser>>

-----------------------------------------------------------------------------
(* omlserver device revoke <id>: another process, the database only.       *)
CliRevoke(d) ==
  /\ row[d] # None
  /\ DropRow(d)
  /\ lateUser' = lateUser \cup {d}
  /\ lateAcct' = lateAcct \cup {d}
  /\ UNCHANGED <<users, acct, server, boot, handlerVars, reaper, crashes,
                 origin, reply, revoked>>

-----------------------------------------------------------------------------
(* runSSHAccountReaper. *)

(* ssh_locked_at passes SSHGracePeriod.  No request lasts seven days: the  *)
(* enrolment that made the row and the revoke that marked it have ended.   *)
GraceElapses(d) ==
  /\ d \in locked \ due
  /\ ~ At(d, {"addUser", "useradd", "authkeys", "record", "undoUser", "undoRow", "delete"})
  /\ due' = due \cup {d}
  /\ UNCHANGED <<tok, row, sshRow, locked, users, acct, server, boot, handlerVars,
                 reaper, crashes, history>>

(* Mutant: the query forgets "ssh_locked_at IS NOT NULL".                  *)
AllRows == Rows

(* ListSSHLockedBefore(now - SSHGracePeriod).                              *)
SSHLockedBefore == due

ReaperScan ==
  /\ server = "up"
  /\ reaper = ReaperIdle
  /\ SSHLockedBefore # {}
  /\ reaper' = [reaper EXCEPT !.todo = SSHLockedBefore]
  /\ UNCHANGED <<dbVars, users, acct, server, boot, handlerVars, crashes, history>>

(* Mutant: the account goes, the row is left to be reaped again.           *)
ReaperUserdelOnly(d) ==
  /\ reaper.at = None
  /\ d \in reaper.todo
  /\ acct' = [acct EXCEPT ![d] = "none"]
  /\ reaper' = [reaper EXCEPT !.todo = @ \ {d}]
  /\ UNCHANGED <<dbVars, users, server, boot, handlerVars, crashes, history>>

(* sshacct.Delete: userdel -r.                                             *)
ReaperUserdel(d) ==
  /\ reaper.at = None
  /\ d \in reaper.todo
  /\ acct' = [acct EXCEPT ![d] = "none"]
  /\ reaper' = [todo |-> reaper.todo \ {d}, at |-> d]
  /\ UNCHANGED <<dbVars, users, server, boot, handlerVars, crashes, history>>

(* Mutant: a failed userdel does not skip to the next row.                 *)
ReaperUserdelIgnored(d) ==
  /\ reaper.at = None
  /\ d \in reaper.todo
  /\ reaper' = [todo |-> reaper.todo \ {d}, at |-> d]
  /\ UNCHANGED <<dbVars, users, acct, server, boot, handlerVars, crashes, history>>

(* Logged; the row waits for the next tick.                                *)
ReaperUserdelFails(d) ==
  /\ reaper.at = None
  /\ d \in reaper.todo
  /\ reaper' = [reaper EXCEPT !.todo = @ \ {d}]
  /\ UNCHANGED <<dbVars, users, acct, server, boot, handlerVars, crashes, history>>

(* DeleteDevice; the user index is not told.                               *)
ReaperDeleteRow ==
  /\ reaper.at # None
  /\ row[reaper.at] # None
  /\ DropRow(reaper.at)
  /\ lateUser' = lateUser \cup {reaper.at}
  /\ reaper' = [reaper EXCEPT !.at = None]
  /\ UNCHANGED <<users, acct, server, boot, handlerVars, crashes,
                 origin, reply, revoked, lateAcct>>

ReaperDeleteRowFails ==
  /\ reaper.at # None
  /\ reaper' = [reaper EXCEPT !.at = None]
  /\ UNCHANGED <<dbVars, users, acct, server, boot, handlerVars, crashes, history>>

-----------------------------------------------------------------------------
(* The process dies and is started again. *)

Crash ==
  /\ server # "down"
  /\ crashes < MaxCrashes
  /\ crashes' = crashes + 1
  /\ server' = "down" /\ boot' = {} /\ users' = {}
  /\ pc'  = [h \in Handlers |-> "idle"]
  /\ dev' = [h \in Handlers |-> None]
  /\ req' = [h \in Handlers |-> None]
  /\ reaper' = ReaperIdle
  /\ lateUser' = {}
  /\ lateAcct' = lateAcct \cup {d \in Devices : At(d, {"removeUser", "lock"})}
  /\ UNCHANGED <<dbVars, acct, origin, reply, revoked>>

(* reloadChiselUsers reads the table ...                                   *)
BootList ==
  /\ server = "down"
  /\ server' = "booting"
  /\ boot' = Rows
  /\ UNCHANGED <<dbVars, users, acct, handlerVars, reaper, crashes, history>>

(* ... and injects every row it read, then the listeners start.            *)
BootAdd ==
  /\ server = "booting"
  /\ server' = "up"
  /\ users' = boot
  /\ boot' = {}
  /\ UNCHANGED <<dbVars, acct, handlerVars, reaper, crashes, history>>

-----------------------------------------------------------------------------
HandlerStep(h) ==
  \/ ConsumeToken(h) \/ ConsumeRefused(h) \/ EnrollAddUser(h)
  \/ Useradd(h) \/ UseraddFails(h)
  \/ WriteAuthorizedKeys(h) \/ WriteAuthorizedKeysFails(h)
  \/ EnrollRecord(h) \/ UndoUser(h) \/ UndoRow(h)
  \/ KickRemove(h) \/ KickAdd(h)
  \/ RevokeMark(h) \/ RevokeDelete(h) \/ RevokeDeleteFails(h)
  \/ RevokeRemoveUser(h) \/ RevokeLock(h)

Next ==
  \/ \E t \in Tokens : IssueToken(t) \/ ExpireToken(t)
  \/ \E h \in Handlers : HandlerStep(h)
  \/ \E h \in Handlers, t \in Tokens, n \in Names : EnrollCheck(h, t, n)
  \/ \E h \in Handlers, d \in Devices, op \in {"kickRemove", "mark"} : AdminRequest(h, d, op)
  \/ \E d \in Devices : CliRevoke(d) \/ GraceElapses(d) \/ ReaperUserdel(d) \/ ReaperUserdelFails(d)
  \/ ReaperScan \/ ReaperDeleteRow \/ ReaperDeleteRowFails
  \/ Crash \/ BootList \/ BootAdd

Spec == Init /\ [][Next]_vars

(* The tickers fire and the service manager restarts the process; a handler*)
(* runs to its end; userdel and DELETE do not fail for ever; and time      *)
(* passes, also between requests that keep naming the same device.         *)
Fairness ==
  /\ WF_vars(BootList) /\ WF_vars(BootAdd)
  /\ WF_vars(ReaperScan) /\ WF_vars(ReaperDeleteRow \/ ReaperDeleteRowFails)
  /\ \A h \in Handlers : WF_vars(HandlerStep(h))
  /\ \A d \in Devices :
       /\ SF_vars(GraceElapses(d))
       /\ WF_vars(ReaperUserdel(d) \/ ReaperUserdelFails(d))
       /\ SF_vars(ReaperUserdel(d))
       /\ SF_vars(ReaperDeleteRow /\ reaper.at = d)

FairSpec == Spec /\ Fairness

-----------------------------------------------------------------------------
(* Properties. *)

(* A token admits one device at most, however many handlers looked it up   *)
(* while it was fresh (ConsumeEnrollmentToken reads used_at again).        *)
TokenSingleUse ==
  \A d, e \in Devices : origin[d] = origin[e] /\ origin[d] # None => d = e

(* A device that was told 201, or whose SSH identity is on its row, and    *)
(* that nobody began to revoke can log in: its SSH account is open and     *)
(* chisel knows it, but for the instant inside a kick.  Across crashes,    *)
(* restarts, roll-backs of other enrolments and the reaper.                *)
EnrolledDeviceUsable ==
  server = "up" =>
    \A d \in Rows \ locked :
      reply[d] = "created" \/ d \in sshRow =>
        acct[d] = "open" /\ (d \in users \/ At(d, {"kickAdd"}))

(* chisel keeps a user that has no row only while a revoke is about to     *)
(* remove it, or after one of: a deletion that overlapped a kick, an       *)
(* enrolment or the start-up list; a kick that fell between the two steps  *)
(* of a roll-back; a command-line revoke; the reaper.                      *)
PhantomUserExplained ==
  \A d \in users : row[d] # None \/ d \in lateUser \/ At(d, {"removeUser"})

(* An SSH account with a key outlives its row only while a revoke is about *)
(* to lock it, or after one of: a deletion that overlapped Provision, a    *)
(* command-line revoke, a Lock or a roll-back that failed, a crash inside  *)
(* revoke.                                                                 *)
OrphanAccountExplained ==
  \A d \in Devices :
    acct[d] = "open" => row[d] # None \/ d \in lateAcct \/ At(d, {"removeUser", "lock"})

(* The reaper deletes a row only after its account is gone, so a failing   *)
(* userdel is retried on the next tick instead of being forgotten.         *)
ReaperForgetsNoAccount == reaper.at # None => acct[reaper.at] = "none"

(* The registry as the ledger sees it.                                     *)
LedgerToken ==
  [t \in Tokens |-> CASE tok[t] = "absent" -> "absent"
                      [] tok[t] = "used"   -> "spent"
                      [] OTHER             -> "open"]

LedgerHolder ==
  [n \in Names |-> IF NameFree(n) THEN None ELSE CHOOSE d \in Devices : row[d] = n]

(* Enrolment, spread over several handlers' statements and interrupted by  *)
(* crashes and roll-backs, still is the ledger's atomic Admit.             *)
Ledger == INSTANCE EnrollmentLedger WITH
  Founders <- Seeded, token <- LedgerToken, holder <- LedgerHolder, admitted <- Born

LedgerSpec == Ledger!Spec

(* A half-revoked device (row marked, DELETE failed) is reaped in the end, *)
(* unless new revokes of it keep restarting its grace period.              *)
LockedEventuallyReaped ==
  \A d \in Devices : <>[] ~ At(d, {"mark"}) => (d \in locked ~> d \notin locked)

(* admin.go:390-394 and TestAdminDeviceKick_RaceWithRevoke: a device whose *)
(* revoke was answered is not in the chisel user index.                    *)
RevokedHasNoUser == \A d \in revoked : d \notin users

(* security-via-ssh-tunnel.md:55-56 and admin.go:416-417: seven days after *)
(* a revoke, userdel -r removes the account.                               *)
RevokedAccountDeleted == \A d \in Devices : d \in revoked ~> acct[d] = "none"

=============================================================================
