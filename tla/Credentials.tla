----------------------------- MODULE Credentials -----------------------------
(***************************************************************************)
(* What an enrolment leaves on the disks of the two machines: the client's *)
(* key pair and state file (internal/client/sshkey.go, state.go,           *)
(* EnrollNew), the public key that the server installs for the account, and*)
(* the server's chisel seed (internal/server/keyseed.go).                  *)
(*                                                                         *)
(* "omlctl enroll" works through its files one by one and asks the server  *)
(* in between; it may end after any step, and it may run twice at a time.  *)
(* Its request lives on without it: the server may make the account after  *)
(* the command was killed, and while the next one is already under way.    *)
(* A write that is cut short (process killed, disk full) leaves the file   *)
(* empty: os.WriteFile truncates first, and the contents are one block.    *)
(* The loss of written data in a power cut is not modelled.                *)
(***************************************************************************)
EXTENDS Naturals

CONSTANTS
  Procs,     \* runs of "omlctl enroll", with the request of each
  Keys,      \* ed25519 key pairs
  Devices,   \* device ids
  Seeds,     \* chisel seeds, and so fingerprints
  None,      \* no file, no value
  Empty      \* the contents of a file whose write was cut short

ASSUME ValuesAssumption ==
  /\ None \notin Keys \cup Devices \cup Seeds
  /\ Empty \notin Keys \cup Devices \cup Seeds
  /\ None # Empty

VARIABLES
  pc,         \* the next step of each enroll command
  key,        \* the key pair in its hands
  dev,        \* the device id of the server's answer
  priv,       \* ssh_key
  pub,        \* ssh_key.pub
  tmp,        \* state.json.tmp
  state,      \* state.json
  request,    \* the key in a command's request on its way to the server, or None
  installed,  \* the server: the key in the account of each device, or None
  seed,       \* chisel.seed
  newSeed,    \* the server process: a seed not yet on disk
  chisel,     \* the seed of the running chisel server, or None
  pinned,     \* the fingerprint that the running daemon was given, or None
  abandoned,  \* ghost: keys given up because ssh_key.pub could not be read
  overlap     \* ghost: two enroll commands overlapped, and nothing settled since

files == <<priv, pub, tmp, state>>
clientVars == <<pc, key, dev, files, request, installed, abandoned>>
serverVars == <<seed, newSeed, chisel>>
vars == <<clientVars, serverVars, pinned, overlap>>

Busy(e) == pc[e] # "idle"

CredentialsTypeOK ==
  /\ pc \in [Procs -> {"idle", "read", "priv", "pub", "post", "wait", "save", "rename"}]
  /\ key \in [Procs -> Keys \cup {None}]
  /\ dev \in [Procs -> Devices \cup {None}]
  /\ priv \in Keys \cup {None, Empty}
  /\ pub \in Keys \cup {None, Empty}
  /\ tmp \in Devices \cup {None, Empty}
  /\ state \in Devices \cup {None, Empty}
  /\ request \in [Procs -> Keys \cup {None}]
  /\ installed \in [Devices -> Keys \cup {None}]
  /\ abandoned \subseteq Keys
  /\ seed \in Seeds \cup {None, Empty}
  /\ newSeed \in Seeds \cup {None}
  /\ chisel \in Seeds \cup {None}
  /\ pinned \in Seeds \cup {None}
  /\ overlap \in BOOLEAN
  /\ \A e \in Procs : key[e] # None <=> pc[e] \in {"priv", "pub", "post"}
  /\ \A e \in Procs : dev[e] # None <=> pc[e] \in {"save", "rename"}

Init ==
  /\ pc = [e \in Procs |-> "idle"]
  /\ key = [e \in Procs |-> None]
  /\ dev = [e \in Procs |-> None]
  /\ priv = None
  /\ pub = None
  /\ tmp = None
  /\ state = None
  /\ request = [e \in Procs |-> None]
  /\ installed = [d \in Devices |-> None]
  /\ abandoned = {}
  /\ seed = None
  /\ newSeed = None
  /\ chisel = None
  /\ pinned = None
  /\ overlap = FALSE

(* Mutant: a command that ends keeps what it had in its hands.             *)
GoesOnly(e, s, k, d) ==
  /\ pc'  = [pc EXCEPT ![e] = s]
  /\ key' = IF s = "idle" THEN key ELSE [key EXCEPT ![e] = k]
  /\ dev' = [dev EXCEPT ![e] = d]

(* The command goes on at step s with this key and this device.            *)
Goes(e, s, k, d) ==
  /\ pc'  = [pc EXCEPT ![e] = s]
  /\ key' = [key EXCEPT ![e] = k]
  /\ dev' = [dev EXCEPT ![e] = d]

(* It ends: done, failed or killed.                                        *)
Ends(e) == Goes(e, "idle", None, None)

FreshKey(k) ==
  /\ k \notin {priv, pub}
  /\ \A e \in Procs : k \notin {key[e], request[e]}
  /\ \A d \in Devices : installed[d] # k

-----------------------------------------------------------------------------
(* omlctl enroll: EnsureSSHKey *)

Begin(e) ==
  /\ pc[e] = "idle" /\ request[e] = None
  /\ Goes(e, "read", None, None)
  /\ UNCHANGED <<files, request, installed, abandoned>>

(* A public key on disk is trusted; the private one is not looked at.      *)
TrustPub(e) ==
  /\ pc[e] = "read"
  /\ pub \in Keys
  /\ Goes(e, "post", pub, None)
  /\ UNCHANGED <<files, request, installed, abandoned>>

(* Mutant: every enrolment makes a key pair.                               *)
GenerateAnyway(e, k) ==
  /\ pc[e] = "read"
  /\ FreshKey(k)
  /\ Goes(e, "priv", k, None)
  /\ UNCHANGED <<files, request, installed, abandoned>>

(* ssh_key.pub is missing or empty.                                        *)
Generate(e, k) ==
  /\ pc[e] = "read"
  /\ pub \notin Keys
  /\ FreshKey(k)
  /\ abandoned' = abandoned \ {k}
  /\ Goes(e, "priv", k, None)
  /\ UNCHANGED <<files, request, installed>>

(* It is there, but the read fails: any error counts as "not there".       *)
GenerateUnread(e, k) ==
  /\ pc[e] = "read"
  /\ pub \in Keys
  /\ FreshKey(k)
  /\ abandoned' = (abandoned \ {k}) \cup {pub}
  /\ Goes(e, "priv", k, None)
  /\ UNCHANGED <<files, request, installed>>

WritePriv(e) ==
  /\ pc[e] = "priv"
  /\ priv' = key[e]
  /\ Goes(e, "pub", key[e], None)
  /\ UNCHANGED <<pub, tmp, state, request, installed, abandoned>>

WritePub(e) ==
  /\ pc[e] = "pub"
  /\ pub' = key[e]
  /\ Goes(e, "post", key[e], None)
  /\ UNCHANGED <<priv, tmp, state, request, installed, abandoned>>

-----------------------------------------------------------------------------
(* omlctl enroll: EnrollNew *)

(* The request leaves.                                                     *)
Post(e) ==
  /\ pc[e] = "post"
  /\ request' = [request EXCEPT ![e] = key[e]]
  /\ Goes(e, "wait", None, None)
  /\ UNCHANGED <<files, installed, abandoned>>

(* The server makes the device and installs the key, and answers a command *)
(* that still waits.  That the answer gets lost is a Stop after this step. *)
PostAccepted(e, d) ==
  /\ request[e] # None
  /\ chisel # None
  /\ installed[d] = None /\ d \notin {tmp, state} /\ \A f \in Procs : dev[f] # d
  /\ installed' = [installed EXCEPT ![d] = request[e]]
  /\ request' = [request EXCEPT ![e] = None]
  /\ IF pc[e] = "wait" THEN Goes(e, "save", None, d) ELSE UNCHANGED <<pc, key, dev>>
  /\ UNCHANGED <<files, abandoned>>

(* The server refuses it, or it gets lost: a command that waits can Stop.  *)
PostFails(e) ==
  /\ request[e] # None
  /\ request' = [request EXCEPT ![e] = None]
  /\ UNCHANGED <<pc, key, dev, files, installed, abandoned>>

(* SaveState: the temporary file, then its rename, which fails if another  *)
(* command was faster.                                                     *)
SaveTmp(e) ==
  /\ pc[e] = "save"
  /\ tmp' = dev[e]
  /\ Goes(e, "rename", None, dev[e])
  /\ UNCHANGED <<priv, pub, state, request, installed, abandoned>>

RenameState(e) ==
  /\ pc[e] = "rename"
  /\ state' = IF tmp = None THEN state ELSE tmp
  /\ tmp' = None
  /\ Ends(e)
  /\ UNCHANGED <<priv, pub, request, installed, abandoned>>

(* An error, a refusal of the server, a lost answer, a kill.  A request on *)
(* its way is not recalled.                                                *)
Stop(e) ==
  /\ Busy(e)
  /\ Ends(e)
  /\ UNCHANGED <<files, request, installed, abandoned>>

(* Mutant: SaveState writes state.json itself.                             *)
StopInSaveInPlace(e) ==
  /\ pc[e] \in {"priv", "pub", "save"}
  /\ priv'  = IF pc[e] = "priv" THEN Empty ELSE priv
  /\ pub'   = IF pc[e] = "pub"  THEN Empty ELSE pub
  /\ state' = IF pc[e] = "save" THEN Empty ELSE state
  /\ Ends(e)
  /\ UNCHANGED <<tmp, request, installed, abandoned>>

(* The command ends within a write.                                        *)
StopInWrite(e) ==
  /\ pc[e] \in {"priv", "pub", "save"}
  /\ priv' = IF pc[e] = "priv" THEN Empty ELSE priv
  /\ pub'  = IF pc[e] = "pub"  THEN Empty ELSE pub
  /\ tmp'  = IF pc[e] = "save" THEN Empty ELSE tmp
  /\ Ends(e)
  /\ UNCHANGED <<state, request, installed, abandoned>>

(* The administrator revokes a device.                                     *)
Revoke(d) ==
  /\ installed[d] # None
  /\ installed' = [installed EXCEPT ![d] = None]
  /\ UNCHANGED <<pc, key, dev, files, request, abandoned>>

-----------------------------------------------------------------------------
(* The server process: loadOrCreateKeySeed, then the chisel server *)

Down == chisel = None /\ newSeed = None

(* An empty file is an error: no action.                                   *)
StartWithSeed ==
  /\ Down
  /\ seed \in Seeds
  /\ chisel' = seed
  /\ UNCHANGED <<seed, newSeed, pinned>>

(* Mutant: every start draws a seed.                                       *)
NewSeedAlways(s) ==
  /\ Down
  /\ s # seed /\ s # pinned
  /\ newSeed' = s
  /\ UNCHANGED <<seed, chisel, pinned>>

(* No file: a new seed is drawn.                                           *)
NewSeed(s) ==
  /\ Down
  /\ seed = None
  /\ s # pinned
  /\ newSeed' = s
  /\ UNCHANGED <<seed, chisel, pinned>>

WriteSeed ==
  /\ newSeed # None
  /\ seed' = newSeed
  /\ chisel' = newSeed
  /\ newSeed' = None
  /\ UNCHANGED pinned

(* The server ends, perhaps before or within the write of its seed.        *)
ServerStops ==
  /\ ~Down
  /\ seed' \in IF newSeed # None THEN {seed, Empty} ELSE {seed}
  /\ newSeed' = None
  /\ chisel' = None
  /\ UNCHANGED pinned

(* A daemon loads state.json, and its bootstrap reply brings the           *)
(* fingerprint, which the chisel client keeps over reconnections.          *)
DaemonPins ==
  /\ state \in Devices
  /\ chisel # None
  /\ pinned' = chisel
  /\ UNCHANGED serverVars

DaemonEnds ==
  /\ pinned # None
  /\ pinned' = None
  /\ UNCHANGED serverVars

-----------------------------------------------------------------------------
Alone == \A e, f \in Procs : Busy(e) /\ Busy(f) => e = f

(* No command is under way, the key pair is one, state.json is whole, and  *)
(* no account or request has another key, but for those given up.          *)
Settled ==
  /\ \A e \in Procs : ~Busy(e)
  /\ state # Empty
  /\ pub \in Keys \ abandoned => priv = pub
  /\ \A d \in Devices : installed[d] \in {None, pub} \cup abandoned
  /\ \A e \in Procs : request[e] \in {None, pub} \cup abandoned

Overlapping == overlap' = ((overlap \/ ~Alone') /\ ~Settled')

EnrollStep(e) ==
  \/ Begin(e) \/ TrustPub(e) \/ WritePriv(e) \/ WritePub(e)
  \/ Post(e) \/ PostFails(e) \/ SaveTmp(e) \/ RenameState(e)
  \/ Stop(e) \/ StopInWrite(e)
  \/ \E k \in Keys : Generate(e, k) \/ GenerateUnread(e, k)
  \/ \E d \in Devices : PostAccepted(e, d)

Next ==
  /\ \/ /\ \/ \E e \in Procs : EnrollStep(e)
           \/ \E d \in Devices : Revoke(d)
        /\ UNCHANGED <<serverVars, pinned>>
     \/ /\ \/ StartWithSeed \/ WriteSeed \/ ServerStops \/ DaemonPins \/ DaemonEnds
           \/ \E s \in Seeds : NewSeed(s)
        /\ UNCHANGED clientVars
  /\ Overlapping

Spec == Init /\ [][Next]_vars

-----------------------------------------------------------------------------
(* Properties *)

(* Every account that this machine's enrolments made on the server opens   *)
(* with the private key on its disk, whatever step a command ended at, also*)
(* one whose answer got lost or that was made after the command was killed *)
(* (sshkey.go:6: a re-enrolment keeps the key) -- unless two commands      *)
(* overlapped, or its key was given up because a later enrolment could not *)
(* read ssh_key.pub (sshkey.go:43).                                        *)
KeyOpensAccounts ==
  ~overlap => \A d \in Devices : installed[d] \in {None, priv} \cup abandoned

(* Whatever command is killed, LoadState finds no file or a whole one.     *)
StateWhole == ~overlap => state # Empty

(* The fingerprint that a daemon was given stays the server's, however     *)
(* often the server restarts (keyseed.go:12-13).                           *)
FingerprintKept ==
  pinned # None /\ chisel # None => chisel = pinned

=============================================================================
