-------------------------------- MODULE Mesh --------------------------------
(***************************************************************************)
(* What the devices publish and consume: the services and forwards tables, *)
(* the port allocator, and the two queries of a bootstrap reply.           *)
(*                                                                         *)
(* Grain: one SQL statement.  A handler that first reads a row by its id   *)
(* and then changes it is one action, because the read decides nothing the *)
(* statement does not decide again: an id is random, so it never comes     *)
(* back, its owner never changes, and a statement on a missing id, or an   *)
(* INSERT that breaks a key, changes nothing.  Adding a service is two     *)
(* actions: the allocator gives up its lock before the INSERT.             *)
(* Service names are left out; UNIQUE(device_id, name) only refuses.       *)
(***************************************************************************)
EXTENDS Naturals, FiniteSets

CONSTANTS
  Devices,
  Services,    \* service ids
  Forwards,    \* forward ids
  Ports,       \* the allocator's pool, min..max
  LocalPorts,  \* local ports of forwards
  Targets,     \* local_addr and protocol of a service
  Binds,       \* values of bind_local that requests ask for
  Handlers,    \* goroutines serving HTTP requests
  None

ASSUME PortsAssumption == Ports \subseteq Nat
ASSUME BindsAssumption == Binds \subseteq BOOLEAN

Service == [dev : Devices, port : Ports, target : Targets, bindLocal : Binds, on : BOOLEAN]
Forward == [owner : Devices, remote : Services, lport : LocalPorts, on : BOOLEAN]

ASSUME MeshNoneAssumption ==
  /\ None \notin Devices \cup Services \cup Forwards \cup Service \cup Forward
  /\ Services \cap Forwards = {}

VARIABLES
  devs,     \* devices with a row
  svc,      \* services: the row of each id, or None
  fwd,      \* forwards: the row of each id, or None
  issued,   \* ids that were drawn so far
  add       \* the row each handler is about to INSERT, or None

tables   == <<devs, svc, fwd>>
meshVars == <<devs, svc, fwd, issued, add>>

Live == {s \in Services : svc[s] # None}
Kept == {f \in Forwards : fwd[f] # None}

MeshTypeOK ==
  /\ devs \subseteq Devices
  /\ svc \in [Services -> Service \cup {None}]
  /\ fwd \in [Forwards -> Forward \cup {None}]
  /\ issued \subseteq Services \cup Forwards
  /\ add \in [Handlers -> Service \cup {None}]
  /\ Live \cup Kept \subseteq issued

MeshInit ==
  /\ devs = Devices
  /\ svc = [s \in Services |-> None]
  /\ fwd = [f \in Forwards |-> None]
  /\ issued = {}
  /\ add = [h \in Handlers |-> None]

-----------------------------------------------------------------------------
(* POST /api/services and POST /api/admin/services. *)

(* A random id; ids are only compared, so which one is drawn is all one.   *)
IsNextId(i, ids) == i \notin issued /\ i = CHOOSE j \in ids : j \notin issued

UsedPublicPorts == {svc[s].port : s \in Live}

FreePorts == Ports \ UsedPublicPorts

(* The device exists; PortAllocator.Allocate returns the lowest free port. *)
(* An exhausted pool is answered 503.                                      *)
Allocate(h, d, a, b) ==
  /\ add[h] = None
  /\ d \in devs
  /\ \E p \in FreePorts :
       /\ \A q \in FreePorts : p <= q
       /\ add' = [add EXCEPT ![h] =
                    [dev |-> d, port |-> p, target |-> a, bindLocal |-> b, on |-> TRUE]]
  /\ UNCHANGED <<devs, svc, fwd, issued>>

(* Mutant: the column has no UNIQUE constraint.                            *)
AnyPortFits(p) == p \in Ports

(* UNIQUE(services.public_port).                                           *)
PortUnused(p) == p \notin UsedPublicPorts

(* The INSERT, under its UNIQUE and FOREIGN KEY constraints.               *)
CreateService(h, s) ==
  /\ add[h] # None
  /\ IsNextId(s, Services)
  /\ PortUnused(add[h].port)
  /\ add[h].dev \in devs
  /\ svc' = [svc EXCEPT ![s] = add[h]]
  /\ issued' = issued \cup {s}
  /\ add' = [add EXCEPT ![h] = None]
  /\ UNCHANGED <<devs, fwd>>

(* The port or the name was taken meanwhile (409), or the device went (500).*)
CreateServiceFails(h) ==
  /\ add[h] # None
  /\ add' = [add EXCEPT ![h] = None]
  /\ UNCHANGED <<devs, svc, fwd, issued>>

(* POST .../enable and .../disable.                                        *)
SetServiceEnabled(s, on) ==
  /\ svc[s] # None
  /\ svc[s].on # on
  /\ svc' = [svc EXCEPT ![s].on = on]
  /\ UNCHANGED <<devs, fwd, issued, add>>

(* ON DELETE CASCADE of forwards.remote_service_id.                        *)
ForwardsTo(ss) == {f \in Kept : fwd[f].remote \in ss}

(* ON DELETE CASCADE of forwards.owner_device_id.                          *)
ForwardsOf(d) == {f \in Kept : fwd[f].owner = d}

DeleteService(s) ==
  /\ svc[s] # None
  /\ svc' = [svc EXCEPT ![s] = None]
  /\ fwd' = [f \in Forwards |-> IF f \in ForwardsTo({s}) THEN None ELSE fwd[f]]
  /\ UNCHANGED <<devs, issued, add>>

-----------------------------------------------------------------------------
(* POST /api/forwards and POST /api/admin/forwards.  The owner is looked up *)
(* once more after the INSERT; a failure there is answered 500 although the*)
(* forward exists, which changes nothing here.                             *)
CreateForward(f, d, s, l) ==
  /\ IsNextId(f, Forwards)
  /\ d \in devs
  /\ svc[s] # None
  /\ \A g \in Kept : fwd[g].owner = d => fwd[g].lport # l
  /\ fwd' = [fwd EXCEPT ![f] = [owner |-> d, remote |-> s, lport |-> l, on |-> TRUE]]
  /\ issued' = issued \cup {f}
  /\ UNCHANGED <<devs, svc, add>>

SetForwardEnabled(f, on) ==
  /\ fwd[f] # None
  /\ fwd[f].on # on
  /\ fwd' = [fwd EXCEPT ![f].on = on]
  /\ UNCHANGED <<devs, svc, issued, add>>

DeleteForward(f) ==
  /\ fwd[f] # None
  /\ fwd' = [fwd EXCEPT ![f] = None]
  /\ UNCHANGED <<devs, svc, issued, add>>

(* DeleteDevice cascades to the device's services and forwards and to the  *)
(* forwards of others to those services.                                   *)
DeleteDevice(d) ==
  /\ d \in devs
  /\ devs' = devs \ {d}
  /\ LET gone == {s \in Live : svc[s].dev = d} IN
       /\ svc' = [s \in Services |-> IF s \in gone THEN None ELSE svc[s]]
       /\ fwd' = [f \in Forwards |->
                    IF f \in ForwardsTo(gone) \cup ForwardsOf(d)
                    THEN None ELSE fwd[f]]
  /\ UNCHANGED <<issued, add>>

-----------------------------------------------------------------------------
(* GET /api/devices/me/bootstrap: what device d should run.                *)

(* First query: ListServicesByDevice, without the disabled ones.           *)
Remotes(d) ==
  {[port |-> svc[s].port, target |-> svc[s].target, bindLocal |-> svc[s].bindLocal] :
     s \in {s \in Live : svc[s].dev = d /\ svc[s].on}}

(* Mutant: a forward to a disabled service stays in the reply.             *)
UsableOrDisabled(f) == fwd[f].on

(* The forward and its service are both enabled.                           *)
Usable(f) == fwd[f].on /\ svc[fwd[f].remote].on

(* Mutant: the query has lost its WHERE f.owner_device_id.                 *)
LocalsOfAll(d) ==
  {[lport |-> fwd[f].lport, port |-> svc[fwd[f].remote].port] :
     f \in {f \in Kept : d \in devs /\ Usable(f)}}

(* Second query: ListForwardsJoined.                                       *)
Locals(d) ==
  {[lport |-> fwd[f].lport, port |-> svc[fwd[f].remote].port] :
     f \in {f \in Kept : fwd[f].owner = d /\ Usable(f)}}

-----------------------------------------------------------------------------
AddService ==
  \/ \E h \in Handlers, d \in Devices, a \in Targets, b \in Binds : Allocate(h, d, a, b)
  \/ \E h \in Handlers, s \in Services : CreateService(h, s)
  \/ \E h \in Handlers : CreateServiceFails(h)

EditTables ==
  \/ \E s \in Services : DeleteService(s) \/ \E on \in BOOLEAN : SetServiceEnabled(s, on)
  \/ \E f \in Forwards : DeleteForward(f) \/ \E on \in BOOLEAN : SetForwardEnabled(f, on)
  \/ \E f \in Forwards, d \in Devices, s \in Services, l \in LocalPorts :
       CreateForward(f, d, s, l)
  \/ \E d \in Devices : DeleteDevice(d)

MeshNext == AddService \/ EditTables

MeshSpec == MeshInit /\ [][MeshNext]_meshVars

-----------------------------------------------------------------------------
(* Properties. *)

(* One listener per local port: the bootstrap reply of a device never asks *)
(* for two tunnels on one port of either side.                             *)
ReplyIsRunnable ==
  \A d \in Devices :
    /\ \A a, b \in Remotes(d) : a.port = b.port => a = b
    /\ \A a, b \in Locals(d) : a.lport = b.lport => a = b

(* A forward leads to an enabled service, and when its tunnel is in one    *)
(* reply the service's own tunnel is in another: at any moment, every port *)
(* that some device is told to dial is one that exactly one device is told *)
(* to serve.                                                               *)
EveryLocalIsServed ==
  \A d \in Devices : \A l \in Locals(d) :
    \E e \in devs : /\ \E r \in Remotes(e) : r.port = l.port
                    /\ \A c \in Devices : (\E r \in Remotes(c) : r.port = l.port) => c = e

=============================================================================
