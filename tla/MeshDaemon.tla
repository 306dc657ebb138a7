----------------------------- MODULE MeshDaemon -----------------------------
(***************************************************************************)
(* The client daemons (internal/client/daemon.go) against the tables of    *)
(* Mesh and the relay's listeners.  A daemon fetches a bootstrap reply,    *)
(* runs a chisel client with it, polls for a different reply and starts    *)
(* over; a 401 ends it.  The two queries behind a reply are two steps, so  *)
(* a reply may mix two states of the tables.                               *)
(*                                                                         *)
(* chisel is external: a client with all its listeners refused keeps       *)
(* retrying (MaxRetryCount -1), the relay grants all reverse listeners of  *)
(* a session or none, and notices a lost session only after a while.       *)
(***************************************************************************)
EXTENDS Mesh

CONSTANT MaxFaults   \* bound on lost links, failed calls and clients, kills and restarts

ASSUME FaultsAssumption == MaxFaults \in Nat

VARIABLES
  phase,    \* fetch, run, backoff, exited (after a 401) or off (not running)
  got,      \* the reply under way: the remotes read so far, or None
  run,      \* the specs of the running chisel client, or None
  linked,   \* daemons whose client has a session
  listen,   \* the relay: who listens on each public port, or None
  faults

daemonVars == <<phase, got, run, linked, listen, faults>>
vars == <<meshVars, daemonVars>>

Remote   == [port : Ports, target : Targets, bindLocal : Binds]
Local    == [lport : LocalPorts, port : Ports]
Specs    == [remotes : SUBSET Remote, locals : SUBSET Local]
Listener == [dev : Devices, target : Targets, bindLocal : Binds, dead : BOOLEAN]

ASSUME ListenerAssumption ==
  None \notin Listener /\ \A R \in SUBSET Remote : R # None

TypeOK ==
  /\ MeshTypeOK
  /\ phase \in [Devices -> {"fetch", "run", "backoff", "exited", "off"}]
  /\ got \in [Devices -> (SUBSET Remote) \cup {None}]
  /\ run \in [Devices -> Specs \cup {None}]
  /\ \A d \in Devices : IF phase[d] = "run" THEN run[d] \in Specs ELSE run[d] = None
  /\ linked \subseteq {d \in Devices : phase[d] = "run"}
  /\ listen \in [Ports -> Listener \cup {None}]
  /\ faults \in 0..MaxFaults

Init ==
  /\ MeshInit
  /\ phase = [d \in Devices |-> "off"]
  /\ got = [d \in Devices |-> None]
  /\ run = [d \in Devices |-> None]
  /\ linked = {}
  /\ listen = [p \in Ports |-> None]
  /\ faults = 0

Fault == faults < MaxFaults /\ faults' = faults + 1

Holds(d) == {p \in Ports : listen[p] # None /\ listen[p].dev = d}

Dead(d)  == {p \in Holds(d) : listen[p].dead}

(* Mutant: the client still counts as connected.                           *)
OrphanKeepsLink(d) ==
  /\ UNCHANGED linked
  /\ listen' = [p \in Ports |-> IF p \in Holds(d) THEN [listen[p] EXCEPT !.dead = TRUE]
                                                  ELSE listen[p]]

(* Mutant: the relay never finds out.                                      *)
OrphanForEver(d) ==
  /\ linked' = linked \ {d}
  /\ UNCHANGED listen

(* The listeners of d's session outlive it until the relay finds out.      *)
Orphan(d) ==
  /\ linked' = linked \ {d}
  /\ listen' = [p \in Ports |-> IF p \in Holds(d) THEN [listen[p] EXCEPT !.dead = TRUE]
                                                  ELSE listen[p]]

(* cli.Close.                                                              *)
Close(d, next) ==
  /\ phase'  = [phase EXCEPT ![d] = next]
  /\ run'    = [run EXCEPT ![d] = None]
  /\ got'    = [got EXCEPT ![d] = None]
  /\ Orphan(d)

(* Mutant: the forwards are left out of the hash.                          *)
HashRemotes(c) ==
  [remotes |-> {[port |-> r.port, target |-> r.target] : r \in c.remotes}, locals |-> {}]

(* hashSpecs: every field of the specs but BindLocal.  The code hashes the *)
(* protocol too, which is the same for all specs here.                     *)
HashSpecs(c) ==
  [remotes |-> {[port |-> r.port, target |-> r.target] : r \in c.remotes},
   locals  |-> c.locals]

-----------------------------------------------------------------------------
(* Starting and stopping the process. *)

StartDaemon(d) ==
  /\ phase[d] = "off"
  /\ phase' = [phase EXCEPT ![d] = "fetch"]
  /\ UNCHANGED <<meshVars, got, run, linked, listen, faults>>

KillDaemon(d) ==
  /\ phase[d] \in {"fetch", "run", "backoff"}
  /\ Fault
  /\ Close(d, "off")
  /\ UNCHANGED meshVars

-----------------------------------------------------------------------------
(* api.Bootstrap, from runOnce (phase fetch) and from watchReload (run). *)

Polling(d) == phase[d] \in {"fetch", "run"} /\ got[d] = None

(* AuthenticateDevice finds the device's row, and the services are read.   *)
(* The keepalive in between is Keepalive of Presence.  A row that is       *)
(* deleted in between counts as deleted after this step, or before it.     *)
BootstrapServices(d) ==
  /\ Polling(d)
  /\ d \in devs
  /\ got' = [got EXCEPT ![d] = Remotes(d)]
  /\ UNCHANGED <<meshVars, phase, run, linked, listen, faults>>

(* Mutant: a 401 is retried like any failed request.                       *)
UnauthorizedRetried(d) ==
  /\ Polling(d)
  /\ d \notin devs
  /\ phase' = [phase EXCEPT ![d] = IF @ = "fetch" THEN "backoff" ELSE @]
  /\ UNCHANGED <<meshVars, got, run, linked, listen, faults>>

(* 401: no row.  Also after a store error, which AuthenticateDevice does   *)
(* not tell from a missing row.                                            *)
BootstrapUnauthorized(d) ==
  /\ Polling(d)
  /\ \/ d \notin devs /\ UNCHANGED faults
     \/ d \in devs /\ Fault
  /\ Close(d, "exited")
  /\ UNCHANGED meshVars

(* The request fails in any other way: runOnce backs off, watchReload waits*)
(* for its next tick.                                                      *)
BootstrapFails(d) ==
  /\ phase[d] \in {"fetch", "run"}
  /\ Fault
  /\ got' = [got EXCEPT ![d] = None]
  /\ phase' = [phase EXCEPT ![d] = IF @ = "fetch" THEN "backoff" ELSE @]
  /\ UNCHANGED <<meshVars, run, linked, listen>>

BackoffEnds(d) ==
  /\ phase[d] = "backoff"
  /\ phase' = [phase EXCEPT ![d] = "fetch"]
  /\ UNCHANGED <<meshVars, got, run, linked, listen, faults>>

(* The forwards are read and the reply is complete.                        *)
Reply(d) == [remotes |-> got[d], locals |-> Locals(d)]

(* runOnce starts a client with the reply.                                 *)
StartClient(d) ==
  /\ phase[d] = "fetch"
  /\ got[d] # None
  /\ phase' = [phase EXCEPT ![d] = "run"]
  /\ run'   = [run EXCEPT ![d] = Reply(d)]
  /\ got'   = [got EXCEPT ![d] = None]
  /\ UNCHANGED <<meshVars, linked, listen, faults>>

(* watchReload finds the reply it started from ...                         *)
KeepClient(d) ==
  /\ phase[d] = "run"
  /\ got[d] # None
  /\ HashSpecs(Reply(d)) = HashSpecs(run[d])
  /\ got' = [got EXCEPT ![d] = None]
  /\ UNCHANGED <<meshVars, phase, run, linked, listen, faults>>

(* Mutant: every poll restarts the client.                                 *)
ReloadAlways(d) ==
  /\ phase[d] = "run"
  /\ got[d] # None
  /\ Close(d, "fetch")
  /\ UNCHANGED <<meshVars, faults>>

(* ... or another one, and runOnce starts over without a pause.            *)
Reload(d) ==
  /\ phase[d] = "run"
  /\ got[d] # None
  /\ HashSpecs(Reply(d)) # HashSpecs(run[d])
  /\ Close(d, "fetch")
  /\ UNCHANGED <<meshVars, faults>>

(* cli.Run returns, with an error (a local port is taken) or without one   *)
(* (chisel gives up after a refused login): with or without a pause.       *)
ClientEnds(d) ==
  /\ phase[d] = "run"
  /\ Fault
  /\ \E next \in {"fetch", "backoff"} : Close(d, next)
  /\ UNCHANGED meshVars

-----------------------------------------------------------------------------
(* chisel. *)

(* A listener as the relay opens it for a reverse spec.                    *)
ListenerFor(d, r) ==
  [dev |-> d, target |-> r.target, bindLocal |-> r.bindLocal, dead |-> FALSE]

(* Mutant: a busy port is skipped instead of refusing the session.         *)
SkipBusyPorts(d) == run[d] # None

(* Every reverse listener of the session can be opened.                    *)
CanListen(d) == \A r \in run[d].remotes : listen[r.port] = None

(* Whether a device without a row still has a chisel user is               *)
(* DeviceRegistry's affair; here it may connect.                           *)
Connect(d) ==
  /\ phase[d] = "run"
  /\ d \notin linked
  /\ CanListen(d)
  /\ linked' = linked \cup {d}
  /\ listen' = [p \in Ports |->
                  IF \E r \in run[d].remotes : r.port = p
                  THEN ListenerFor(d, CHOOSE r \in run[d].remotes : r.port = p)
                  ELSE listen[p]]
  /\ UNCHANGED <<meshVars, phase, got, run, faults>>

(* The link breaks; the relay still holds the session's listeners.         *)
LinkLost(d) ==
  /\ d \in linked
  /\ Fault
  /\ Orphan(d)
  /\ UNCHANGED <<meshVars, phase, got, run>>

SessionExpires(d) ==
  /\ Dead(d) # {}
  /\ listen' = [p \in Ports |-> IF p \in Dead(d) THEN None ELSE listen[p]]
  /\ UNCHANGED <<meshVars, phase, got, run, linked, faults>>

(* The server process dies and is started again: its handlers, its replies *)
(* under way and its listeners are gone, the tables stay.                  *)
ServerRestart ==
  /\ Fault
  /\ add' = [h \in Handlers |-> None]
  /\ got' = [d \in Devices |-> None]
  /\ phase' = [d \in Devices |->
                 IF phase[d] = "fetch" /\ got[d] # None THEN "backoff" ELSE phase[d]]
  /\ linked' = {}
  /\ listen' = [p \in Ports |-> None]
  /\ UNCHANGED <<tables, issued, run>>

-----------------------------------------------------------------------------
Bootstrap(d) ==
  \/ BootstrapServices(d) \/ BootstrapUnauthorized(d) \/ BootstrapFails(d)
  \/ StartClient(d) \/ KeepClient(d) \/ Reload(d) \/ ClientEnds(d) \/ BackoffEnds(d)

Next ==
  \/ MeshNext /\ UNCHANGED daemonVars
  \/ \E d \in Devices :
       \/ StartDaemon(d) \/ KillDaemon(d)
       \/ Bootstrap(d)
       \/ Connect(d) \/ LinkLost(d) \/ SessionExpires(d)
  \/ ServerRestart

Spec == Init /\ [][Next]_vars

(* The service manager starts the daemon, its ticker fires and requests are*)
(* answered; chisel retries and the relay notices a dead session.          *)
DaemonStep(d) ==
  \/ StartDaemon(d) \/ BackoffEnds(d)
  \/ BootstrapServices(d) \/ BootstrapUnauthorized(d)
  \/ StartClient(d) \/ KeepClient(d) \/ Reload(d)

Fairness ==
  \A d \in Devices :
    WF_vars(DaemonStep(d)) /\ WF_vars(Connect(d)) /\ WF_vars(SessionExpires(d))

FairSpec == Spec /\ Fairness

-----------------------------------------------------------------------------
(* Properties. *)

(* What a set of remotes routes to where, bind address aside.              *)
Routes(R) == {<<r.port, r.target>> : r \in R}

(* d runs what a reply read in one instant would tell it, bind address     *)
(* aside.                                                                  *)
UpToDate(d) ==
  /\ phase[d] = "run"
  /\ run[d].locals = Locals(d)
  /\ Routes(run[d].remotes) = Routes(Remotes(d))

(* A connection to a local port of device d ends at the very service its   *)
(* forward names, provided that d runs what the tables say now and that the*)
(* device that holds the listener does so too.  A port freed by one service*)
(* and given to another can cross the wires only while one of the two      *)
(* daemons is behind.                                                      *)
ForwardsReachTheirService ==
  \A d \in Devices : UpToDate(d) =>
    \A l \in run[d].locals :
      LET at == listen[l.port] IN
      at # None /\ ~ at.dead /\ UpToDate(at.dev) =>
        \E f \in Kept :
          /\ fwd[f].owner = d /\ fwd[f].lport = l.lport /\ Usable(f)
          /\ svc[fwd[f].remote].dev = at.dev
          /\ svc[fwd[f].remote].target = at.target

(* The relay's listeners of a connected daemon are those of the specs it   *)
(* runs, so a reload, a lost link or a restart never mixes two sessions.   *)
SessionMatchesSpecs ==
  \A d \in linked :
    {[port |-> p, target |-> listen[p].target, bindLocal |-> listen[p].bindLocal] :
       p \in Holds(d) \ Dead(d)} = run[d].remotes

Settled(d) ==
  IF phase[d] \in {"exited", "off"} THEN Holds(d) = {} ELSE UpToDate(d) /\ d \in linked

TablesRest == <>[][UNCHANGED tables]_vars

(* When the tables stop changing, every daemon ends up connected with what *)
(* they say, whatever replies it had read half-way, ports that changed     *)
(* hands, lost links, failed requests and restarts.                        *)
DaemonsConverge == TablesRest => <>[](\A d \in Devices : Settled(d))

(* DaemonsConverge without time: how far d is from what the tables say.  A *)
(* reply that was read half-way is stale when the tables changed since.    *)
Current(d) ==
  /\ d \in devs /\ UpToDate(d)
  /\ got[d] = None \/ Routes(got[d]) = Routes(Remotes(d))

Distance(d) ==
  LET fresh == d \in devs /\ Routes(got[d]) = Routes(Remotes(d)) IN
  CASE phase[d] = "exited" \/ Current(d)                      -> 0
    [] phase[d] \in {"off", "backoff"}                        -> 3
    [] phase[d] = "fetch" /\ got[d] = None                    -> 2
    [] phase[d] = "run"   /\ got[d] = None /\ ~ Current(d)    -> 4
    [] OTHER -> IF ~ fresh THEN 5 ELSE IF phase[d] = "fetch" THEN 1 ELSE 3

(* A step during which nothing fails and the tables rest.                  *)
Calm == UNCHANGED <<tables, faults>>

(* While all is calm no step of anybody takes a daemon further away, and   *)
(* each of its own steps takes it nearer, however stale its reply is:      *)
(* nothing goes round in circles (Run, runOnce, watchReload).  Where it    *)
(* ends it stays, polls included, until a device is revoked.               *)
DaemonsApproach ==
  [][Calm => \A d \in Devices :
       /\ Distance(d)' <= Distance(d)
       /\ DaemonStep(d) /\ ~ Current(d) => Distance(d)' < Distance(d)]_vars

(* Connected with what the tables say, d stays so while all is calm: no    *)
(* poll, no other daemon and no end of an old session disturbs it.         *)
SessionsLast ==
  [][Calm => \A d \in linked : Current(d) => d \in linked' /\ Current(d)']_vars

(* A daemon that is up to date and cannot connect waits for a dead listener*)
(* or for a daemon that is behind itself, never for one that is not: two   *)
(* daemons that exchange ports do not block each other.                    *)
OnlyThePastBlocks ==
  \A d \in Devices \ linked : UpToDate(d) =>
    \A r \in run[d].remotes :
      LET at == listen[r.port] IN at = None \/ at.dead \/ ~ UpToDate(at.dev)

(* A revoked device leaves the relay: its daemon polls, is told 401 and    *)
(* exits, and its listeners go (architecture.md:162).                      *)
RevokedDeviceLeaves ==
  <>[](\A d \in Devices \ devs : phase[d] = "exited" /\ Holds(d) = {})

(* daemon.go:232 ("to detect a change") and spec.go:74 (the bind address is*)
(* the server's decision): listeners end up bound as the tables say.       *)
BindAddressConverges ==
  TablesRest =>
    <>[](\A p \in Ports : listen[p] # None =>
           \E s \in Live : svc[s].port = p /\ svc[s].bindLocal = listen[p].bindLocal)

=============================================================================
