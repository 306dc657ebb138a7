-------------------------- MODULE MeshDaemonProofs --------------------------
(***************************************************************************)
(* Proofs about MeshDaemon, for any tables, daemons and number of faults.  *)
(***************************************************************************)
EXTENDS MeshDaemon, MeshProofs

PortsUnique(R) == \A a, b \in R : a.port = b.port => a = b

(* A reply that was read, whole or in part, asks for no port twice, however*)
(* old it is, and nobody but a daemon that polls has one.                  *)
RepliesKept ==
  /\ \A d \in Devices : got[d] # None => PortsUnique(got[d]) /\ phase[d] \in {"fetch", "run"}
  /\ \A d \in Devices : phase[d] = "run" => PortsUnique(run[d].remotes)

(* What a device holds on the relay without a session is dead.             *)
Loose == \A d \in Devices \ linked : Holds(d) = Dead(d)

IInv ==
  /\ MeshInv
  /\ TypeOK
  /\ RepliesKept
  /\ Loose
  /\ SessionMatchesSpecs

-----------------------------------------------------------------------------
(* The queries return what their types promise. *)

LEMMA RemotesType ==
  ASSUME MeshTypeOK, NEW d \in Devices
  PROVE  Remotes(d) \in SUBSET Remote
  BY DEF MeshTypeOK, Remotes, Remote, Live, Service

LEMMA LocalsType ==
  ASSUME MeshInv, NEW d \in Devices
  PROVE  Locals(d) \in SUBSET Local
<1>1. ASSUME NEW f \in Kept
      PROVE  [lport |-> fwd[f].lport, port |-> svc[fwd[f].remote].port] \in Local
  <2>1. fwd[f] \in Forward
    BY DEF MeshInv, MeshTypeOK, Kept
  <2>2. svc[fwd[f].remote] \in Service
    BY DEF MeshInv, MeshTypeOK, NothingDangles, Live
  <2>3. QED
    BY <2>1, <2>2 DEF Local, Forward, Service
<1>2. QED
  BY <1>1 DEF Locals

LEMMA ReplyType ==
  ASSUME IInv, NEW d \in Devices, got[d] # None
  PROVE  Reply(d) \in Specs /\ Reply(d).remotes = got[d]
  BY LocalsType DEF IInv, TypeOK, Reply, Specs

-----------------------------------------------------------------------------
(* The relay's listeners. *)

(* Orphan leaves nothing of d's but dead listeners.                        *)
LEMMA OrphanStep ==
  ASSUME TypeOK, Loose, SessionMatchesSpecs, NEW d \in Devices, Orphan(d),
         \A e \in linked \ {d} : run'[e] = run[e]
  PROVE  /\ listen' \in [Ports -> Listener \cup {None}]
         /\ Loose'
         /\ SessionMatchesSpecs'
<1>1. \A p \in Ports : /\ listen'[p] = IF p \in Holds(d) THEN [listen[p] EXCEPT !.dead = TRUE]
                                                         ELSE listen[p]
                       /\ p \in Holds(d) => listen[p] \in Listener
  BY DEF Orphan, TypeOK, Holds
<1>2. \A p \in Holds(d) : /\ listen'[p] \in Listener
                          /\ listen'[p].dev = listen[p].dev /\ listen'[p].dead
  <2>1. \A r \in Listener : LET q == [r EXCEPT !.dead = TRUE]
                            IN  q \in Listener /\ q.dev = r.dev /\ q.dead
    BY DEF Listener
  <2>2. Holds(d) \subseteq Ports
    BY DEF Holds
  <2>3. QED
    BY <1>1, <2>1, <2>2
<1>3. listen' \in [Ports -> Listener \cup {None}]
  BY <1>1, <1>2 DEF Orphan, TypeOK
<1>4. ASSUME NEW e \in Devices
      PROVE  /\ Holds(e)' = Holds(e)
             /\ e # d => Dead(e)' = Dead(e)
             /\ Dead(d)' = Holds(d)
  <2>1. \A p \in Holds(d) : listen'[p] # None
    BY <1>2, ListenerAssumption
  <2>2. \A p \in Holds(d) : p \in Ports /\ listen[p] # None /\ listen[p].dev = d
    BY DEF Holds
  <2>3. \A p \in Ports \ Holds(d) : listen'[p] = listen[p]
    BY <1>1
  <2>4. Holds(e)' = Holds(e)
    BY <1>2, <2>1, <2>2, <2>3 DEF Holds
  <2>5. e # d => Dead(e)' = Dead(e)
    BY <2>2, <2>3, <2>4 DEF Holds, Dead
  <2>6. Dead(d)' = Holds(d)
    BY <1>2, <2>1, <2>2, <2>3 DEF Holds, Dead
  <2>7. QED
    BY <2>4, <2>5, <2>6
<1>5. linked' = linked \ {d} /\ linked \subseteq Devices
  BY DEF Orphan, TypeOK
<1>6. Loose'
  BY <1>4, <1>5 DEF Loose
<1>7. ASSUME NEW e \in linked'
      PROVE  {[port |-> p, target |-> listen'[p].target, bindLocal |-> listen'[p].bindLocal] :
                p \in Holds(e)' \ Dead(e)'} = run'[e].remotes
  <2>1. e \in linked /\ e # d /\ e \in Devices /\ run'[e] = run[e]
    BY <1>5
  <2>2. \A p \in Holds(e) : listen'[p] = listen[p]
    BY <1>1, <2>1 DEF Holds
  <2>3. Holds(e)' \ Dead(e)' = Holds(e) \ Dead(e)
    BY <1>4, <2>1
  <2>4. QED
    BY <2>1, <2>2, <2>3 DEF SessionMatchesSpecs
<1>8. QED
  BY <1>3, <1>6, <1>7 DEF SessionMatchesSpecs

(* A step that leaves the sessions alone.                                  *)
LEMMA SessionsKept ==
  ASSUME Loose, SessionMatchesSpecs, UNCHANGED <<linked, listen>>,
         \A e \in linked : run'[e] = run[e]
  PROVE  Loose' /\ SessionMatchesSpecs'
  BY DEF Loose, SessionMatchesSpecs, Holds, Dead

(* A new session opens exactly the listeners of the specs.                 *)
LEMMA ConnectStep ==
  ASSUME TypeOK, RepliesKept, Loose, SessionMatchesSpecs, NEW d \in Devices, Connect(d)
  PROVE  /\ listen' \in [Ports -> Listener \cup {None}]
         /\ Loose'
         /\ SessionMatchesSpecs'
<1> DEFINE R == run[d].remotes
           Mine == {p \in Ports : \E r \in R : r.port = p}
           Asked(p) == CHOOSE r \in R : r.port = p
<1>1. R \in SUBSET Remote /\ PortsUnique(R)
  BY DEF Connect, RepliesKept, TypeOK, Specs
<1>2. \A p \in Mine : Asked(p) \in R /\ Asked(p).port = p /\ listen[p] = None
  BY DEF Connect, CanListen
<1>3. \A p \in Ports : listen'[p] = IF p \in Mine THEN ListenerFor(d, Asked(p)) ELSE listen[p]
  BY DEF Connect
<1>4. \A r \in R : r.port \in Mine /\ Asked(r.port) = r
  <2>1. \A r \in R : r.port \in Mine
    BY <1>1 DEF Remote
  <2>2. QED
    BY <1>1, <1>2, <2>1 DEF PortsUnique
<1>5. DOMAIN listen' = Ports /\ listen' = [p \in Ports |-> listen'[p]]
      /\ linked' = linked \cup {d} /\ run' = run /\ d \notin linked
  BY DEF Connect
<1> HIDE DEF R, Mine, Asked
<1>6. \A r \in R : ListenerFor(d, r) \in Listener
  BY <1>1 DEF ListenerFor, Listener, Remote
<1>7. listen' \in [Ports -> Listener \cup {None}]
  BY <1>2, <1>3, <1>5, <1>6 DEF TypeOK
<1>8. \A p \in Mine : /\ listen'[p] # None
                      /\ listen'[p].dev = d
                      /\ ~ listen'[p].dead
                      /\ listen'[p].target = Asked(p).target
                      /\ listen'[p].bindLocal = Asked(p).bindLocal
                      /\ p \in Ports
  <2>1. Mine \subseteq Ports
    BY DEF Mine
  <2>2. ASSUME NEW p \in Mine
        PROVE  LET r == Asked(p) IN
               /\ listen'[p] = ListenerFor(d, r)
               /\ ListenerFor(d, r) # None
               /\ ListenerFor(d, r).dev = d
               /\ ~ ListenerFor(d, r).dead
               /\ ListenerFor(d, r).target = r.target
               /\ ListenerFor(d, r).bindLocal = r.bindLocal
    <3>1. listen'[p] = ListenerFor(d, Asked(p))
      BY <1>3, <2>1
    <3>2. ListenerFor(d, Asked(p)) # None
      BY <1>2, <1>6, ListenerAssumption
    <3>3. QED
      BY <3>1, <3>2 DEF ListenerFor
  <2>3. QED
    BY <2>1, <2>2
<1>9. ASSUME NEW e \in Devices
      PROVE  /\ Holds(e)' = IF e = d THEN Holds(d) \cup Mine ELSE Holds(e)
             /\ Dead(e)' = Dead(e)
             /\ Holds(e) \cap Mine = {}
  <2>1. Holds(e) \cap Mine = {}
    BY <1>2 DEF Holds
  <2>2. Mine \subseteq Ports /\ \A p \in Ports \ Mine : listen'[p] = listen[p]
    BY <1>3, <1>8
  <2>3. ASSUME NEW p \in Ports
        PROVE  p \in Holds(e)' <=> p \in Holds(e) \/ (e = d /\ p \in Mine)
    <3>1. CASE p \in Mine
      BY <1>8, <2>1, <3>1 DEF Holds
    <3>2. CASE p \notin Mine
      BY <2>2, <3>2 DEF Holds
    <3>3. QED
      BY <3>1, <3>2
  <2>4. Holds(e)' = IF e = d THEN Holds(d) \cup Mine ELSE Holds(e)
    BY <2>2, <2>3 DEF Holds
  <2>5. Dead(e)' = Dead(e)
    <3>1. \A p \in Holds(e) : listen'[p] = listen[p]
      BY <2>1, <2>2 DEF Holds
    <3>2. QED
      BY <1>8, <2>1, <2>4, <3>1 DEF Dead
  <2>6. QED
    BY <2>1, <2>4, <2>5
<1>10. Loose'
  BY <1>5, <1>9 DEF Loose
<1>11. ASSUME NEW e \in linked'
       PROVE  {[port |-> p, target |-> listen'[p].target, bindLocal |-> listen'[p].bindLocal] :
                 p \in Holds(e)' \ Dead(e)'} = run'[e].remotes
  <2>1. CASE e = d
    <3>1. Holds(e)' \ Dead(e)' = Mine
      BY <1>5, <1>9, <2>1 DEF Loose
    <3>2. \A p \in Mine :
            [port |-> p, target |-> listen'[p].target, bindLocal |-> listen'[p].bindLocal]
            = Asked(p)
      BY <1>1, <1>2, <1>8 DEF Remote
    <3>3. {[port |-> p, target |-> listen'[p].target, bindLocal |-> listen'[p].bindLocal] :
             p \in Mine} = R
      BY <1>2, <1>4, <3>2
    <3>4. QED
      BY <1>5, <2>1, <3>1, <3>3 DEF R
  <2>2. CASE e # d
    <3>1. e \in linked /\ e \in Devices
      BY <1>5, <2>2 DEF TypeOK
    <3>2. \A p \in Holds(e) : listen'[p] = listen[p]
      BY <1>3, <1>9, <3>1 DEF Holds
    <3>3. QED
      BY <1>5, <1>9, <2>2, <3>1, <3>2 DEF SessionMatchesSpecs
  <2>3. QED
    BY <2>1, <2>2
<1>12. QED
  BY <1>7, <1>10, <1>11 DEF SessionMatchesSpecs

(* An expired session takes its dead listeners along, and nothing else.    *)
LEMMA ExpiryStep ==
  ASSUME TypeOK, Loose, SessionMatchesSpecs, NEW d \in Devices, SessionExpires(d)
  PROVE  /\ listen' \in [Ports -> Listener \cup {None}]
         /\ Loose'
         /\ SessionMatchesSpecs'
<1>1. \A p \in Ports : listen'[p] = IF p \in Dead(d) THEN None ELSE listen[p]
  BY DEF SessionExpires
<1>2. ASSUME NEW e \in Devices
      PROVE  /\ Holds(e)' = Holds(e) \ Dead(d)
             /\ Dead(e)' = Dead(e) \ Dead(d)
             /\ (Holds(e) \ Dead(e)) \cap Dead(d) = {}
  BY <1>1 DEF Holds, Dead
<1>3. Loose'
  BY <1>2 DEF Loose, SessionExpires
<1>4. ASSUME NEW e \in linked'
      PROVE  {[port |-> p, target |-> listen'[p].target, bindLocal |-> listen'[p].bindLocal] :
                p \in Holds(e)' \ Dead(e)'} = run'[e].remotes
  <2>1. e \in linked /\ e \in Devices /\ run' = run
    BY DEF SessionExpires, TypeOK
  <2>2. Holds(e)' \ Dead(e)' = Holds(e) \ Dead(e)
    BY <1>2, <2>1
  <2>3. \A p \in Holds(e) \ Dead(e) : listen'[p] = listen[p]
    BY <1>1, <1>2, <2>1 DEF Holds
  <2>4. QED
    BY <2>1, <2>2, <2>3 DEF SessionMatchesSpecs
<1>5. listen' \in [Ports -> Listener \cup {None}]
  BY DEF SessionExpires, TypeOK
<1>6. QED
  BY <1>3, <1>4, <1>5 DEF SessionMatchesSpecs

-----------------------------------------------------------------------------
(* The steps. *)

LEMMA InitInv == Init => IInv
<1> SUFFICES ASSUME Init PROVE IInv
  OBVIOUS
<1>1. MeshInv
  BY MeshInitInv DEF Init
<1>2. TypeOK
  BY <1>1, FaultsAssumption DEF Init, TypeOK, MeshInv
<1>3. RepliesKept /\ Loose /\ SessionMatchesSpecs
  BY DEF Init, RepliesKept, Loose, SessionMatchesSpecs, Holds, Dead
<1>4. QED
  BY <1>1, <1>2, <1>3 DEF IInv

LEMMA TablesKept ==
  ASSUME MeshInv, UNCHANGED meshVars
  PROVE  MeshInv'
  BY MeshStepInv

(* A counted fault keeps within its bound.                                 *)
LEMMA FaultCount == TypeOK /\ (Fault \/ UNCHANGED faults) => faults' \in 0..MaxFaults
  BY FaultsAssumption DEF TypeOK, Fault

(* cli.Close, whatever it is called for.                                   *)
LEMMA CloseStep ==
  ASSUME IInv, NEW d \in Devices,
         NEW next \in {"fetch", "run", "backoff", "exited", "off"}, next # "run",
         Close(d, next), UNCHANGED meshVars, Fault \/ UNCHANGED faults
  PROVE  IInv'
<1>1. MeshInv'
  BY TablesKept DEF IInv
<1>2. Orphan(d) /\ linked' = linked \ {d} /\ d \notin linked'
  BY DEF Close, Orphan
<1>3. \A e \in linked \ {d} : run'[e] = run[e]
  BY DEF Close, IInv, TypeOK
<1>4. listen' \in [Ports -> Listener \cup {None}] /\ Loose' /\ SessionMatchesSpecs'
  BY <1>2, <1>3, OrphanStep DEF IInv
<1>5. TypeOK'
  <2>1. MeshTypeOK'
    BY <1>1 DEF MeshInv
  <2>2. /\ phase' \in [Devices -> {"fetch", "run", "backoff", "exited", "off"}]
        /\ linked' \subseteq {e \in Devices : phase'[e] = "run"}
    BY <1>2 DEF Close, IInv, TypeOK
  <2>3. /\ got' \in [Devices -> (SUBSET Remote) \cup {None}]
        /\ run' \in [Devices -> Specs \cup {None}]
    BY DEF Close, IInv, TypeOK
  <2>4. \A e \in Devices : IF phase'[e] = "run" THEN run'[e] \in Specs ELSE run'[e] = None
    BY DEF Close, IInv, TypeOK
  <2>5. QED
    BY <1>4, <2>1, <2>2, <2>3, <2>4, FaultCount DEF IInv, TypeOK
<1>6. RepliesKept'
  BY DEF Close, IInv, TypeOK, RepliesKept
<1>7. QED
  BY <1>1, <1>4, <1>5, <1>6 DEF IInv

(* A step of d that leaves the tables and the sessions alone.              *)
LEMMA QuietStep ==
  ASSUME IInv, NEW d \in Devices, UNCHANGED <<meshVars, linked, listen>>,
         Fault \/ UNCHANGED faults,
         \/ StartDaemon(d) \/ BackoffEnds(d) \/ BootstrapServices(d) \/ BootstrapFails(d)
         \/ StartClient(d) \/ KeepClient(d)
  PROVE  IInv'
<1> DEFINE NewPhase == {"fetch", "run", "backoff", "exited", "off"}
<1>1. MeshInv'
  BY TablesKept DEF IInv
<1>2. /\ Remotes(d) \in SUBSET Remote
      /\ PortsUnique(Remotes(d))
      /\ got[d] # None => Reply(d) \in Specs /\ Reply(d).remotes = got[d]
  BY RemotesType, ReplyType, InvRunnable DEF IInv, MeshInv, ReplyIsRunnable, PortsUnique
<1>3. /\ phase' \in [Devices -> NewPhase]
      /\ \A e \in Devices : phase[e] = "run" => phase'[e] = "run"
  BY DEF StartDaemon, BackoffEnds, BootstrapServices, BootstrapFails, StartClient, KeepClient,
         IInv, TypeOK
<1>4. /\ got' \in [Devices -> (SUBSET Remote) \cup {None}]
      /\ \A e \in Devices : got'[e] # None => PortsUnique(got'[e])
  BY <1>2 DEF StartDaemon, BackoffEnds, BootstrapServices, BootstrapFails, StartClient, KeepClient,
         IInv, TypeOK, RepliesKept
<1>5. run' \in [Devices -> Specs \cup {None}]
  BY <1>2 DEF StartDaemon, BackoffEnds, BootstrapServices, BootstrapFails, StartClient,
         KeepClient, IInv, TypeOK
<1>6. \A e \in Devices : /\ IF phase'[e] = "run" THEN run'[e] \in Specs ELSE run'[e] = None
                         /\ phase'[e] = "run" => PortsUnique(run'[e].remotes)
                         /\ phase[e] = "run" => run'[e] = run[e]
  <2>1. CASE StartClient(d)
    BY <1>2, <2>1 DEF StartClient, IInv, TypeOK, RepliesKept
  <2>2. CASE StartDaemon(d) \/ BackoffEnds(d) \/ BootstrapServices(d) \/ BootstrapFails(d)
             \/ KeepClient(d)
    BY <2>2 DEF StartDaemon, BackoffEnds, BootstrapServices, BootstrapFails, KeepClient,
         IInv, TypeOK, RepliesKept
  <2>3. QED
    BY <2>1, <2>2
<1>7. Loose' /\ SessionMatchesSpecs'
  <2>1. \A e \in linked : run'[e] = run[e]
    BY <1>6 DEF IInv, TypeOK
  <2>2. QED
    BY <2>1, SessionsKept DEF IInv
<1>8. TypeOK'
  <2>1. linked' \subseteq {e \in Devices : phase'[e] = "run"}
    BY <1>3 DEF IInv, TypeOK
  <2>2. listen' \in [Ports -> Listener \cup {None}]
    BY DEF IInv, TypeOK
  <2>3. QED
    BY <1>1, <1>3, <1>4, <1>5, <1>6, <2>1, <2>2, FaultCount DEF IInv, TypeOK, MeshInv
<1>9. \A e \in Devices : got'[e] # None => phase'[e] \in {"fetch", "run"}
  BY DEF StartDaemon, BackoffEnds, BootstrapServices, BootstrapFails, StartClient, KeepClient,
         Polling, IInv, TypeOK, RepliesKept
<1>10. RepliesKept'
  BY <1>4, <1>6, <1>9 DEF RepliesKept
<1>11. QED
  BY <1>1, <1>7, <1>8, <1>10 DEF IInv

(* A step that only touches the sessions.                                  *)
LEMMA SessionStep ==
  ASSUME IInv, UNCHANGED <<meshVars, phase, got, run>>, Fault \/ UNCHANGED faults,
         linked' \subseteq {e \in Devices : phase[e] = "run"},
         listen' \in [Ports -> Listener \cup {None}], Loose', SessionMatchesSpecs'
  PROVE  IInv'
<1>1. MeshInv'
  BY TablesKept DEF IInv
<1>2. TypeOK'
  BY <1>1, FaultCount DEF IInv, TypeOK, MeshInv
<1>3. RepliesKept'
  BY DEF IInv, RepliesKept
<1>4. QED
  BY <1>1, <1>2, <1>3 DEF IInv

(* The tables change under the daemons.                                    *)
LEMMA TablesStep ==
  ASSUME IInv, MeshNext, UNCHANGED daemonVars
  PROVE  IInv'
<1> USE DEF daemonVars
<1>1. MeshInv'
  BY MeshStepInv DEF IInv
<1>2. TypeOK'
  BY <1>1 DEF IInv, TypeOK, MeshInv
<1>3. RepliesKept' /\ Loose' /\ SessionMatchesSpecs'
  BY DEF IInv, RepliesKept, Loose, SessionMatchesSpecs, Holds, Dead
<1>4. QED
  BY <1>1, <1>2, <1>3 DEF IInv

LEMMA RestartStep ==
  ASSUME IInv, ServerRestart
  PROVE  IInv'
<1>1. MeshInv'
  BY DEF ServerRestart, IInv, MeshInv, MeshTypeOK, PublicPortsDistinct, LocalPortsDistinct,
         NothingDangles, Live, Kept, tables
<1>2. TypeOK'
  <2>1. /\ phase' \in [Devices -> {"fetch", "run", "backoff", "exited", "off"}]
        /\ \A e \in Devices : phase'[e] = "run" <=> phase[e] = "run"
        /\ run' = run /\ linked' = {}
    BY DEF ServerRestart, IInv, TypeOK
  <2>2. /\ got' \in [Devices -> (SUBSET Remote) \cup {None}]
        /\ listen' \in [Ports -> Listener \cup {None}]
    BY DEF ServerRestart
  <2>3. faults' \in 0..MaxFaults
    BY FaultCount DEF ServerRestart, IInv
  <2>4. QED
    BY <1>1, <2>1, <2>2, <2>3 DEF IInv, TypeOK, MeshInv
<1>3. RepliesKept'
  BY DEF ServerRestart, IInv, TypeOK, RepliesKept
<1>4. Loose' /\ SessionMatchesSpecs'
  BY DEF ServerRestart, Loose, SessionMatchesSpecs, Holds, Dead
<1>5. QED
  BY <1>1, <1>2, <1>3, <1>4 DEF IInv

LEMMA StepInv == IInv /\ [Next]_vars => IInv'
<1> SUFFICES ASSUME IInv, [Next]_vars PROVE IInv'
  OBVIOUS
<1>1. CASE MeshNext /\ UNCHANGED daemonVars
  BY <1>1, TablesStep
<1>2. ASSUME NEW d \in Devices,
             \/ StartDaemon(d) \/ BackoffEnds(d) \/ BootstrapServices(d) \/ BootstrapFails(d)
             \/ StartClient(d) \/ KeepClient(d)
      PROVE  IInv'
  <2>1. UNCHANGED <<meshVars, linked, listen>> /\ (Fault \/ UNCHANGED faults)
    BY <1>2 DEF StartDaemon, BackoffEnds, BootstrapServices, BootstrapFails, StartClient,
                KeepClient
  <2>2. QED
    BY <1>2, <2>1, QuietStep
<1>3. ASSUME NEW d \in Devices,
             KillDaemon(d) \/ BootstrapUnauthorized(d) \/ Reload(d) \/ ClientEnds(d)
      PROVE  IInv'
  <2>1. PICK next \in {"off", "exited", "fetch", "backoff"} :
          Close(d, next) /\ UNCHANGED meshVars /\ (Fault \/ UNCHANGED faults)
    BY <1>3 DEF KillDaemon, BootstrapUnauthorized, Reload, ClientEnds
  <2>2. QED
    BY <2>1, CloseStep
<1>4. ASSUME NEW d \in Devices, Connect(d)
      PROVE  IInv'
  <2>1. listen' \in [Ports -> Listener \cup {None}] /\ Loose' /\ SessionMatchesSpecs'
    BY <1>4, ConnectStep DEF IInv
  <2>2. linked' \subseteq {e \in Devices : phase[e] = "run"}
    BY <1>4 DEF Connect, IInv, TypeOK
  <2>3. QED
    BY <1>4, <2>1, <2>2, SessionStep DEF Connect
<1>5. ASSUME NEW d \in Devices, LinkLost(d)
      PROVE  IInv'
  <2>1. listen' \in [Ports -> Listener \cup {None}] /\ Loose' /\ SessionMatchesSpecs'
    BY <1>5, OrphanStep DEF LinkLost, IInv
  <2>2. linked' \subseteq {e \in Devices : phase[e] = "run"}
    BY <1>5 DEF LinkLost, Orphan, IInv, TypeOK
  <2>3. QED
    BY <1>5, <2>1, <2>2, SessionStep DEF LinkLost
<1>6. ASSUME NEW d \in Devices, SessionExpires(d)
      PROVE  IInv'
  <2>1. listen' \in [Ports -> Listener \cup {None}] /\ Loose' /\ SessionMatchesSpecs'
    BY <1>6, ExpiryStep DEF IInv
  <2>2. QED
    BY <1>6, <2>1, SessionStep DEF SessionExpires, IInv, TypeOK
<1>7. CASE ServerRestart
  BY <1>7, RestartStep
<1>8. CASE UNCHANGED vars
  <2>1. UNCHANGED <<meshVars, phase, got, run, linked, listen, faults>>
    BY <1>8 DEF vars, daemonVars
  <2>2. Loose' /\ SessionMatchesSpecs'
    BY <2>1, SessionsKept DEF IInv
  <2>3. QED
    BY <2>1, <2>2, SessionStep DEF IInv, TypeOK
<1>9. QED
  BY <1>1, <1>2, <1>3, <1>4, <1>5, <1>6, <1>7, <1>8 DEF Next, Bootstrap

-----------------------------------------------------------------------------
(* The theorems. *)

THEOREM Invariance == Spec => []IInv
  BY InitInv, StepInv, PTL DEF Spec

(* Types.                                                                  *)
THEOREM TypeCorrect == Spec => []TypeOK
<1>1. IInv => TypeOK
  BY DEF IInv
<1>2. QED
  BY <1>1, Invariance, PTL

(* Whatever daemons, replies and the relay do, the tables stay such that no*)
(* reply asks for two tunnels on one port of either side ...               *)
THEOREM DaemonRepliesRunnable == Spec => []ReplyIsRunnable
<1>1. IInv => ReplyIsRunnable
  BY InvRunnable DEF IInv
<1>2. QED
  BY <1>1, Invariance, PTL

(* ... and every port somebody is told to dial is served by one device.    *)
THEOREM DaemonLocalsServed == Spec => []EveryLocalIsServed
<1>1. IInv => EveryLocalIsServed
  BY InvServed DEF IInv
<1>2. QED
  BY <1>1, Invariance, PTL

(* The relay's listeners of a connected daemon are those of its specs.     *)
THEOREM SessionsMatch == Spec => []SessionMatchesSpecs
<1>1. IInv => SessionMatchesSpecs
  BY DEF IInv
<1>2. QED
  BY <1>1, Invariance, PTL

LEMMA InvReaches == IInv => ForwardsReachTheirService
<1> SUFFICES ASSUME IInv, NEW d \in Devices, UpToDate(d), NEW l \in run[d].locals,
                    listen[l.port] # None, ~ listen[l.port].dead,
                    UpToDate(listen[l.port].dev)
             PROVE  \E f \in Kept :
                      /\ fwd[f].owner = d /\ fwd[f].lport = l.lport /\ Usable(f)
                      /\ svc[fwd[f].remote].dev = listen[l.port].dev
                      /\ svc[fwd[f].remote].target = listen[l.port].target
  BY DEF ForwardsReachTheirService
<1> DEFINE at == listen[l.port]
           e  == at.dev
<1>1. PICK f \in Kept : fwd[f].owner = d /\ Usable(f) /\ l.lport = fwd[f].lport
                        /\ l.port = svc[fwd[f].remote].port
  BY DEF UpToDate, Locals
<1>2. fwd[f].remote \in Live /\ l.port \in Ports
  <2>1. fwd[f].remote \in Live
    BY DEF IInv, MeshInv, NothingDangles
  <2>2. svc[fwd[f].remote] \in Service
    BY <2>1 DEF IInv, MeshInv, MeshTypeOK, Live
  <2>3. QED
    BY <1>1, <2>1, <2>2 DEF Service
<1>3. e \in Devices /\ l.port \in Holds(e) \ Dead(e)
  <2>1. at \in Listener
    BY <1>2 DEF IInv, TypeOK
  <2>2. QED
    BY <1>2, <2>1 DEF Listener, Holds, Dead
<1>4. [port |-> l.port, target |-> at.target, bindLocal |-> at.bindLocal] \in run[e].remotes
  <2>1. e \in linked
    BY <1>3 DEF IInv, Loose
  <2>2. QED
    BY <1>3, <2>1 DEF IInv, SessionMatchesSpecs
<1>5. PICK r \in Remotes(e) : r.port = l.port /\ r.target = at.target
  <2> DEFINE a == [port |-> l.port, target |-> at.target, bindLocal |-> at.bindLocal]
  <2>1. <<a.port, a.target>> \in {<<r.port, r.target>> : r \in run[e].remotes}
    BY <1>4
  <2>2. <<l.port, at.target>> \in {<<r.port, r.target>> : r \in Remotes(e)}
    BY <2>1 DEF UpToDate, Routes
  <2>3. QED
    BY <2>2
<1>6. PICK s \in Live : svc[s].dev = e /\ svc[s].port = r.port /\ svc[s].target = r.target
  BY <1>5 DEF Remotes
<1>7. s = fwd[f].remote
  BY <1>1, <1>2, <1>5, <1>6 DEF IInv, MeshInv, PublicPortsDistinct
<1>8. QED
  BY <1>1, <1>5, <1>6, <1>7

(* A connection between two daemons that are up to date ends at the service*)
(* its forward names.                                                      *)
THEOREM ForwardsReach == Spec => []ForwardsReachTheirService
  BY InvReaches, Invariance, PTL


-----------------------------------------------------------------------------
(* Convergence: what a calm step does to the distance of a daemon. *)

(* The hash tells replies apart by their routes and their forwards.        *)
LEMMA HashRoutes ==
  ASSUME NEW a \in Specs, NEW b \in Specs
  PROVE  HashSpecs(a) = HashSpecs(b) <=>
           a.locals = b.locals /\ Routes(a.remotes) = Routes(b.remotes)
<1> DEFINE Plain(R) == {[port |-> r.port, target |-> r.target] : r \in R}
           Covers(R, S) == \A r \in R : \E s \in S : r.port = s.port /\ r.target = s.target
<1>1. ASSUME NEW R, NEW S
      PROVE  /\ Routes(R) \subseteq Routes(S) <=> Covers(R, S)
             /\ Plain(R) \subseteq Plain(S) <=> Covers(R, S)
  <2>1. \A r, s : <<r.port, r.target>> = <<s.port, s.target>>
                   <=> r.port = s.port /\ r.target = s.target
    OBVIOUS
  <2>2. \A r, s : [port |-> r.port, target |-> r.target] = [port |-> s.port, target |-> s.target]
                   <=> r.port = s.port /\ r.target = s.target
    OBVIOUS
  <2>3. Routes(R) \subseteq Routes(S)
          <=> \A r \in R : \E s \in S : <<r.port, r.target>> = <<s.port, s.target>>
    BY DEF Routes
  <2>4. Plain(R) \subseteq Plain(S)
          <=> \A r \in R : \E s \in S :
                [port |-> r.port, target |-> r.target] = [port |-> s.port, target |-> s.target]
    OBVIOUS
  <2>5. QED
    BY <2>1, <2>2, <2>3, <2>4
<1>2. Plain(a.remotes) = Plain(b.remotes) <=> Routes(a.remotes) = Routes(b.remotes)
  <2> HIDE DEF Plain, Covers
  <2>1. \A R, S : R = S <=> R \subseteq S /\ S \subseteq R
    OBVIOUS
  <2>2. \A R, S : Plain(R) \subseteq Plain(S) <=> Routes(R) \subseteq Routes(S)
    BY <1>1
  <2>3. QED
    BY <2>1, <2>2
<1>3. QED
  BY <1>2 DEF HashSpecs

(* The answers of the two queries stay the same while the tables do.       *)
LEMMA CalmQueries ==
  ASSUME Calm, NEW d \in Devices
  PROVE  Remotes(d)' = Remotes(d) /\ Locals(d)' = Locals(d) /\ devs' = devs
  BY DEF Calm, tables, Remotes, Locals, Live, Kept, Usable

LEMMA DistanceFrame ==
  ASSUME Calm, NEW d \in Devices,
         phase'[d] = phase[d], got'[d] = got[d], run'[d] = run[d]
  PROVE  Current(d)' = Current(d) /\ Distance(d)' = Distance(d)
<1>1. UpToDate(d)' = UpToDate(d) /\ Current(d)' = Current(d)
  BY CalmQueries DEF UpToDate, Current
<1>2. QED
  BY <1>1, CalmQueries DEF Distance

LEMMA DistanceType == \A d \in Devices : Distance(d) \in 0..5
  BY DEF Distance, Current, UpToDate

(* The values of the distance, one by one.                                 *)
LEMMA DistanceValues ==
  ASSUME TypeOK, NEW d \in Devices
  PROVE  LET fresh == d \in devs /\ Routes(got[d]) = Routes(Remotes(d)) IN
         /\ phase[d] = "exited" => Distance(d) = 0
         /\ Current(d) => Distance(d) = 0
         /\ phase[d] \in {"off", "backoff"} => Distance(d) = 3
         /\ phase[d] = "fetch" /\ got[d] = None => Distance(d) = 2
         /\ phase[d] = "fetch" /\ got[d] # None /\ fresh => Distance(d) = 1
         /\ phase[d] = "fetch" /\ got[d] # None /\ ~ fresh => Distance(d) = 5
         /\ phase[d] = "run" /\ got[d] = None /\ ~ Current(d) => Distance(d) = 4
         /\ phase[d] = "run" /\ got[d] # None /\ fresh /\ ~ Current(d) => Distance(d) = 3
         /\ phase[d] = "run" /\ got[d] # None /\ ~ fresh => Distance(d) = 5
  BY DEF Distance, Current, UpToDate

(* A daemon's own step.                                                    *)
LEMMA OwnStepApproaches ==
  ASSUME IInv, Calm, NEW d \in Devices, DaemonStep(d)
  PROVE  /\ Distance(d)' <= Distance(d)
         /\ ~ Current(d) => Distance(d)' < Distance(d)
<1> DEFINE fresh == d \in devs /\ Routes(got[d]) = Routes(Remotes(d))
<1>1. /\ TypeOK /\ RepliesKept /\ TypeOK'
      /\ Remotes(d)' = Remotes(d) /\ Locals(d)' = Locals(d) /\ devs' = devs
  <2>1. Next
    BY DEF DaemonStep, Next, Bootstrap
  <2>2. QED
    BY <2>1, StepInv, CalmQueries DEF IInv
<1>2. Distance(d) \in 0..5
  BY DistanceType
<1>3. CASE StartDaemon(d) \/ BackoffEnds(d)
  <2>1. phase[d] \in {"off", "backoff"} /\ got[d] = None /\ phase'[d] = "fetch" /\ got'[d] = None
    BY <1>1, <1>3 DEF StartDaemon, BackoffEnds, TypeOK, RepliesKept
  <2>2. Distance(d) = 3
    BY <1>1, <2>1, DistanceValues
  <2>3. Distance(d)' = 2
    BY <2>1 DEF Distance, Current, UpToDate
  <2>4. QED
    BY <2>2, <2>3
<1>4. CASE BootstrapServices(d)
  <2>1. /\ phase[d] \in {"fetch", "run"} /\ got[d] = None /\ d \in devs
        /\ phase' = phase /\ run' = run /\ got'[d] = Remotes(d)
    BY <1>1, <1>4 DEF BootstrapServices, Polling, TypeOK
  <2>2. got'[d] # None
    BY <1>1, <2>1, RemotesType, ListenerAssumption DEF TypeOK
  <2>3. UpToDate(d)' = UpToDate(d)
    BY <1>1, <2>1 DEF UpToDate
  <2>4. Current(d)' = Current(d)
    BY <1>1, <2>1, <2>3 DEF Current
  <2>5. CASE Current(d)
    <3>1. Distance(d) = 0 /\ Distance(d)' = 0
      BY <2>4, <2>5 DEF Distance, Current, UpToDate
    <3>2. QED
      BY <2>5, <3>1
  <2>6. CASE ~ Current(d) /\ phase[d] = "fetch"
    <3>1. Distance(d) = 2
      BY <1>1, <2>1, <2>6, DistanceValues
    <3>2. Distance(d)' = 1
      BY <1>1, <2>1, <2>2, <2>4, <2>6 DEF Distance
    <3>3. QED
      BY <3>1, <3>2
  <2>7. CASE ~ Current(d) /\ phase[d] = "run"
    <3>1. Distance(d) = 4
      BY <1>1, <2>1, <2>7, DistanceValues
    <3>2. Distance(d)' = 3
      BY <1>1, <2>1, <2>2, <2>4, <2>7 DEF Distance
    <3>3. QED
      BY <3>1, <3>2
  <2>8. QED
    BY <2>1, <2>5, <2>6, <2>7
<1>5. CASE BootstrapUnauthorized(d)
  <2>1. phase[d] \in {"fetch", "run"} /\ got[d] = None /\ phase'[d] = "exited"
    BY <1>1, <1>5 DEF BootstrapUnauthorized, Polling, Close, TypeOK
  <2>2. Distance(d)' = 0
    BY <2>1 DEF Distance, Current, UpToDate
  <2>3. ~ Current(d) => Distance(d) > 0
    BY <1>1, <2>1, DistanceValues
  <2>4. QED
    BY <1>2, <2>2, <2>3
<1>6. CASE StartClient(d)
  <2>1. /\ phase[d] = "fetch" /\ got[d] # None /\ phase'[d] = "run" /\ got'[d] = None
        /\ run'[d].locals = Locals(d) /\ run'[d].remotes = got[d]
    BY <1>1, <1>6 DEF StartClient, Reply, TypeOK
  <2>2. CASE fresh
    <3>1. Distance(d) = 1
      BY <1>1, <2>1, <2>2, DistanceValues
    <3>2. Current(d)'
      BY <1>1, <2>1, <2>2 DEF Current, UpToDate
    <3>3. Distance(d)' = 0
      BY <2>1, <3>2 DEF Distance
    <3>4. QED
      BY <3>1, <3>3
  <2>3. CASE ~ fresh
    <3>1. Distance(d) = 5
      BY <1>1, <2>1, <2>3, DistanceValues
    <3>2. Distance(d)' \in {0, 4}
      BY <2>1 DEF Distance
    <3>3. QED
      BY <3>1, <3>2
  <2>4. QED
    BY <2>2, <2>3
<1>7. CASE KeepClient(d) \/ Reload(d)
  <2>1. /\ phase[d] = "run" /\ got[d] # None /\ run[d] \in Specs /\ Reply(d) \in Specs
        /\ Reply(d).remotes = got[d] /\ Reply(d).locals = Locals(d)
    BY <1>1, <1>7, ReplyType DEF KeepClient, Reload, Reply, TypeOK
  <2>2. fresh => (HashSpecs(Reply(d)) = HashSpecs(run[d]) <=> Current(d))
    BY <2>1, HashRoutes DEF Current, UpToDate
  <2>3. Current(d) => fresh
    BY <2>1 DEF Current
  <2>4. /\ fresh /\ ~ Current(d) => Distance(d) = 3
        /\ ~ fresh => Distance(d) = 5
    BY <1>1, <2>1, DistanceValues
  <2>5. CASE KeepClient(d)
    <3>1. phase'[d] = "run" /\ got'[d] = None /\ run' = run
      BY <1>1, <2>1, <2>5 DEF KeepClient, TypeOK
    <3>2. Current(d) => Current(d)'
      BY <1>1, <2>1, <3>1 DEF Current, UpToDate
    <3>3. /\ Distance(d)' \in {0, 4}
          /\ Current(d)' => Distance(d)' = 0
      BY <3>1 DEF Distance
    <3>4. ~ fresh \/ Current(d)
      BY <2>2, <2>5 DEF KeepClient
    <3>5. QED
      BY <1>2, <2>3, <2>4, <3>2, <3>3, <3>4
  <2>6. CASE Reload(d)
    <3>1. phase'[d] = "fetch" /\ got'[d] = None
      BY <1>1, <2>6 DEF Reload, Close, TypeOK
    <3>2. Distance(d)' = 2
      BY <3>1 DEF Distance, Current, UpToDate
    <3>3. ~ Current(d)
      BY <2>2, <2>3, <2>6 DEF Reload
    <3>4. QED
      BY <2>4, <3>2, <3>3
  <2>7. QED
    BY <1>7, <2>5, <2>6
<1>8. QED
  BY <1>3, <1>4, <1>5, <1>6, <1>7 DEF DaemonStep

(* While nothing fails the other steps leave a daemon where it is.         *)
LEMMA OthersLeaveIt ==
  ASSUME IInv, [Next]_vars, Calm, NEW d \in Devices, ~ DaemonStep(d)
  PROVE  phase'[d] = phase[d] /\ got'[d] = got[d] /\ run'[d] = run[d]
<1>1. TypeOK /\ ~ Fault
  BY FaultsAssumption DEF IInv, TypeOK, Calm, Fault
<1>2. CASE MeshNext /\ UNCHANGED daemonVars
  BY <1>2 DEF daemonVars
<1>3. ASSUME NEW e \in Devices,
             \/ StartDaemon(e) \/ BackoffEnds(e) \/ BootstrapServices(e)
             \/ StartClient(e) \/ KeepClient(e) \/ Reload(e)
             \/ BootstrapUnauthorized(e)
      PROVE  phase'[d] = phase[d] /\ got'[d] = got[d] /\ run'[d] = run[d]
  <2>1. e # d
    BY <1>3 DEF DaemonStep
  <2>2. QED
    BY <1>1, <1>3, <2>1 DEF StartDaemon, BackoffEnds, BootstrapServices, StartClient, KeepClient,
         Reload, BootstrapUnauthorized, Close, TypeOK
<1>4. ASSUME NEW e \in Devices,
             KillDaemon(e) \/ BootstrapFails(e) \/ ClientEnds(e) \/ LinkLost(e) \/ ServerRestart
      PROVE  FALSE
  BY <1>1, <1>4 DEF KillDaemon, BootstrapFails, ClientEnds, LinkLost, ServerRestart
<1>5. ASSUME NEW e \in Devices, Connect(e) \/ SessionExpires(e)
      PROVE  phase' = phase /\ got' = got /\ run' = run
  BY <1>5 DEF Connect, SessionExpires
<1>6. CASE UNCHANGED vars
  BY <1>6 DEF vars, daemonVars
<1>7. QED
  BY <1>2, <1>3, <1>4, <1>5, <1>6 DEF Next, Bootstrap

LEMMA StepApproaches ==
  ASSUME IInv, [Next]_vars, Calm, NEW d \in Devices
  PROVE  /\ Distance(d)' <= Distance(d)
         /\ DaemonStep(d) /\ ~ Current(d) => Distance(d)' < Distance(d)
<1>1. CASE DaemonStep(d)
  BY <1>1, OwnStepApproaches
<1>2. CASE ~ DaemonStep(d)
  <2>1. Distance(d)' = Distance(d) /\ Distance(d) \in 0..5
    BY <1>2, OthersLeaveIt, DistanceFrame, DistanceType
  <2>2. QED
    BY <1>2, <2>1
<1>3. QED
  BY <1>1, <1>2

(* While all is calm nothing takes a daemon further from what the tables   *)
(* say, and each of its own steps takes it nearer: since the distance is a *)
(* natural number at most five, five of its steps bring it there.          *)
THEOREM Approach == Spec => DaemonsApproach
<1>1. IInv /\ [Next]_vars =>
        [Calm => \A d \in Devices :
           /\ Distance(d)' <= Distance(d)
           /\ DaemonStep(d) /\ ~ Current(d) => Distance(d)' < Distance(d)]_vars
  BY StepApproaches
<1>2. QED
  BY <1>1, Invariance, PTL DEF Spec, DaemonsApproach

(* Connected and up to date, a daemon stays so.                            *)
LEMMA StepKeepsSession ==
  ASSUME IInv, [Next]_vars, Calm, NEW d \in linked, Current(d)
  PROVE  d \in linked' /\ Current(d)'
<1>1. /\ TypeOK /\ ~ Fault /\ d \in Devices /\ d \in devs /\ phase[d] = "run"
      /\ Remotes(d)' = Remotes(d) /\ Locals(d)' = Locals(d) /\ devs' = devs
  BY CalmQueries, FaultsAssumption DEF IInv, TypeOK, Calm, Fault, Current, UpToDate
<1>2. ~ Reload(d)
  <2>1. SUFFICES ASSUME Reload(d) PROVE FALSE
    OBVIOUS
  <2>2. /\ got[d] # None /\ run[d] \in Specs /\ Reply(d) \in Specs
        /\ Reply(d).remotes = got[d] /\ Reply(d).locals = Locals(d)
    BY <1>1, <2>1, ReplyType DEF Reload, Reply, TypeOK
  <2>3. HashSpecs(Reply(d)) = HashSpecs(run[d])
    BY <2>2, HashRoutes DEF Current, UpToDate
  <2>4. QED
    BY <2>1, <2>3 DEF Reload
<1>3. /\ phase'[d] = "run" /\ run'[d] = run[d]
      /\ got'[d] \in {got[d], None, Remotes(d)}
  <2>1. CASE DaemonStep(d)
    <3>1. BootstrapServices(d) \/ KeepClient(d)
      BY <1>1, <1>2, <2>1 DEF DaemonStep, StartDaemon, BackoffEnds, BootstrapUnauthorized,
           StartClient
    <3>2. QED
      BY <1>1, <3>1 DEF BootstrapServices, KeepClient, TypeOK
  <2>2. CASE ~ DaemonStep(d)
    BY <1>1, <2>2, OthersLeaveIt
  <2>3. QED
    BY <2>1, <2>2
<1>4. Current(d)'
  BY <1>1, <1>3 DEF Current, UpToDate
<1>5. d \in linked'
  <2>1. CASE MeshNext /\ UNCHANGED daemonVars
    BY <2>1 DEF daemonVars
  <2>2. ASSUME NEW e \in Devices,
               \/ StartDaemon(e) \/ BackoffEnds(e) \/ BootstrapServices(e)
               \/ StartClient(e) \/ KeepClient(e) \/ Connect(e) \/ SessionExpires(e)
        PROVE  d \in linked'
    BY <2>2 DEF StartDaemon, BackoffEnds, BootstrapServices, StartClient, KeepClient, Connect,
         SessionExpires
  <2>3. ASSUME NEW e \in Devices, Reload(e) \/ BootstrapUnauthorized(e)
        PROVE  d \in linked'
    <3>1. e # d
      BY <1>1, <1>2, <2>3 DEF BootstrapUnauthorized
    <3>2. QED
      BY <2>3, <3>1 DEF Reload, BootstrapUnauthorized, Close, Orphan
  <2>4. ASSUME NEW e \in Devices,
               KillDaemon(e) \/ BootstrapFails(e) \/ ClientEnds(e) \/ LinkLost(e) \/ ServerRestart
        PROVE  FALSE
    BY <1>1, <2>4 DEF KillDaemon, BootstrapFails, ClientEnds, LinkLost, ServerRestart
  <2>5. CASE UNCHANGED vars
    BY <2>5 DEF vars, daemonVars
  <2>6. QED
    BY <1>1, <2>1, <2>2, <2>3, <2>4, <2>5 DEF Next, Bootstrap
<1>6. QED
  BY <1>4, <1>5

(* ... while all is calm, whatever others do and however often it polls.   *)
THEOREM SessionsStay == Spec => SessionsLast
<1>1. IInv /\ [Next]_vars =>
        [Calm => \A d \in linked : Current(d) => d \in linked' /\ Current(d)']_vars
  BY StepKeepsSession
<1>2. QED
  BY <1>1, Invariance, PTL DEF Spec, SessionsLast

(* A live listener on a port that is due to somebody else belongs to a     *)
(* daemon that is behind: the tables give a port to one service only.      *)
LEMMA InvUnblocked == IInv => OnlyThePastBlocks
<1> SUFFICES ASSUME IInv, NEW d \in Devices \ linked, UpToDate(d), NEW r \in run[d].remotes,
                    listen[r.port] # None, ~ listen[r.port].dead, UpToDate(listen[r.port].dev)
             PROVE  FALSE
  BY DEF OnlyThePastBlocks
<1> DEFINE at == listen[r.port]
           e  == at.dev
<1>1. r \in Remote /\ r.port \in Ports
  BY DEF IInv, TypeOK, UpToDate, Specs, Remote
<1>2. e \in Devices /\ r.port \in Holds(e) \ Dead(e)
  <2>1. at \in Listener
    BY <1>1 DEF IInv, TypeOK
  <2>2. QED
    BY <1>1, <2>1 DEF Listener, Holds, Dead
<1>3. e \in linked /\ e # d
  BY <1>2 DEF IInv, Loose
<1>4. PICK s \in Live : svc[s].dev = e /\ svc[s].port = r.port
  <2> DEFINE a == [port |-> r.port, target |-> at.target, bindLocal |-> at.bindLocal]
  <2>1. a \in run[e].remotes
    BY <1>2, <1>3 DEF IInv, SessionMatchesSpecs
  <2>2. <<a.port, a.target>> \in Routes(Remotes(e))
    BY <2>1 DEF UpToDate, Routes
  <2>3. QED
    BY <2>2 DEF Routes, Remotes
<1>5. PICK t \in Live : svc[t].dev = d /\ svc[t].port = r.port
  <2>1. <<r.port, r.target>> \in Routes(Remotes(d))
    BY DEF UpToDate, Routes
  <2>2. QED
    BY <2>1 DEF Routes, Remotes
<1>6. QED
  BY <1>3, <1>4, <1>5 DEF IInv, MeshInv, PublicPortsDistinct

(* Daemons that exchange ports do not block each other.                    *)
THEOREM NobodyBlocked == Spec => []OnlyThePastBlocks
  BY InvUnblocked, Invariance, PTL

=============================================================================
