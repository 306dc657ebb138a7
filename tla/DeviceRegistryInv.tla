------------------------- MODULE DeviceRegistryInv -------------------------
(***************************************************************************)
(* The inductive invariant of DeviceRegistry, in named parts.  A run checks*)
(* it on a small instance; DeviceRegistryProofs proves it.                 *)
(***************************************************************************)
EXTENDS DeviceRegistry

Enrolling    == {"addUser", "useradd", "authkeys", "record", "undoUser", "undoRow"}
Provisioning == {"addUser", "useradd", "authkeys"}
AddingUser   == {"addUser", "kickRemove", "kickAdd"}

(* What a handler holds at each label.                                     *)
HandlerShape ==
  \A h \in Handlers :
    /\ pc[h] = "consume" <=> req[h] # None
    /\ pc[h] \in {"idle", "consume"} <=> dev[h] = None

(* No handler and no reaper pass outlives the process.                     *)
DownIsIdle ==
  /\ server # "up" => reaper = ReaperIdle /\ \A h \in Handlers : pc[h] = "idle"
  /\ server = "booting" => Rows \subseteq boot
  /\ server = "up" => boot = {}

(* An id that was never handed out is unknown everywhere.                  *)
UnbornUnknown ==
  /\ \A d \in Devices \ Born :
       /\ row[d] = None /\ acct[d] = "none" /\ reply[d] = "none"
       /\ d \notin users \cup boot \cup revoked \cup reaper.todo
       /\ reaper.at # d
       /\ \A h \in Handlers : dev[h] # d
  /\ locked \cup sshRow \subseteq Rows

TokensSpent == \A d \in Devices : origin[d] # None => tok[origin[d]] = "used"

(* One handler enrols a device, and until it answers nobody was told of it.*)
EnrolmentExclusive ==
  \A h \in Handlers : pc[h] \in Enrolling =>
    /\ dev[h] \notin sshRow
    /\ reply[dev[h]] = "none"
    /\ \A g \in Handlers : pc[g] \in Enrolling /\ dev[g] = dev[h] => g = h

(* After its DELETE a revoke works on a device without a row.              *)
RevokeDeleted ==
  \A h \in Handlers : pc[h] \in {"removeUser", "lock"} => row[dev[h]] = None

(* The reaper works on locked rows, long after their enrolment ended.      *)
ReaperTargets ==
  /\ \A d \in due \cup reaper.todo \cup ({reaper.at} \ {None}) :
       /\ row[d] # None => d \in locked
       /\ ~ At(d, Enrolling)
  /\ ReaperForgetsNoAccount

(* The account and the user of a live, enrolled device.                    *)
Known(d) == reply[d] = "created" \/ d \in sshRow

AccountKept ==
  \A d \in Rows \ locked : Known(d) \/ At(d, {"record"}) => acct[d] = "open"

UserKept ==
  server = "up" => \A d \in Rows :
    Known(d) \/ At(d, {"useradd", "authkeys", "record"})
      => d \in users \/ At(d, {"kickAdd"})

(* A handler that will recreate access of a deleted device is on record.   *)
LateUserKnown ==
  /\ \A d \in Devices : row[d] = None /\ WillAddUser(d) => d \in lateUser
  /\ \A h \in Handlers : pc[h] = "undoRow" /\ dev[h] \in users => dev[h] \in lateUser

LateAccountKnown ==
  /\ \A d \in Devices : row[d] = None /\ WillOpenAccount(d) => d \in lateAcct
  /\ \A h \in Handlers : pc[h] \in Provisioning => acct[dev[h]] # "open"
  /\ \A h \in Handlers :
       pc[h] \in {"undoUser", "undoRow"} /\ acct[dev[h]] = "open" => dev[h] \in lateAcct

IInv ==
  /\ TypeOK /\ HandlerShape /\ DownIsIdle /\ UnbornUnknown /\ TokensSpent
  /\ TokenSingleUse /\ EnrolmentExclusive /\ RevokeDeleted /\ ReaperTargets
  /\ AccountKept /\ UserKept
  /\ LateUserKnown /\ PhantomUserExplained
  /\ LateAccountKnown /\ OrphanAccountExplained

=============================================================================
