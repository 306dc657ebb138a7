----------------------------- MODULE MeshProofs -----------------------------
(***************************************************************************)
(* Proofs about Mesh, for any pool, any devices and any number of handlers.*)
(***************************************************************************)
EXTENDS Mesh, TLAPS

USE PortsAssumption, BindsAssumption, MeshNoneAssumption

(* Two services never share a public port, although two handlers may be    *)
(* given the same free one.                                                *)
PublicPortsDistinct == \A s, t \in Live : svc[s].port = svc[t].port => s = t

(* Two forwards of a device never share a local port.                      *)
LocalPortsDistinct ==
  \A f, g \in Kept : fwd[f].owner = fwd[g].owner /\ fwd[f].lport = fwd[g].lport => f = g

(* A service's device, a forward's device and a forward's service exist.   *)
NothingDangles ==
  /\ \A s \in Live : svc[s].dev \in devs
  /\ \A f \in Kept : fwd[f].owner \in devs /\ fwd[f].remote \in Live

MeshInv == MeshTypeOK /\ PublicPortsDistinct /\ LocalPortsDistinct /\ NothingDangles

(* The empty tables satisfy the invariant.                                 *)
LEMMA MeshInitInv == MeshInit => MeshInv
  BY DEF MeshInit, MeshInv, MeshTypeOK, PublicPortsDistinct, LocalPortsDistinct,
         NothingDangles, Live, Kept

(* A row is not None.                                                      *)
LEMMA RowsAreRows ==
  /\ \A r \in Service : r # None
  /\ \A r \in Forward : r # None
  OBVIOUS

(* Every statement keeps the tables consistent.                            *)
LEMMA MeshStepInv ==
  ASSUME MeshInv, [MeshNext]_meshVars
  PROVE  MeshInv'
<1> USE DEF MeshInv, MeshTypeOK, PublicPortsDistinct, LocalPortsDistinct, NothingDangles,
            Live, Kept
<1>1. ASSUME NEW h \in Handlers, NEW d \in Devices, NEW a \in Targets, NEW b \in Binds,
             Allocate(h, d, a, b)
      PROVE  MeshInv'
  <2>1. PICK p \in FreePorts :
          add' = [add EXCEPT ![h] =
                    [dev |-> d, port |-> p, target |-> a, bindLocal |-> b, on |-> TRUE]]
    BY <1>1 DEF Allocate
  <2>2. [dev |-> d, port |-> p, target |-> a, bindLocal |-> b, on |-> TRUE] \in Service
    BY DEF Service, FreePorts
  <2> QED
    BY <1>1, <2>1, <2>2 DEF Allocate
<1>2. ASSUME NEW h \in Handlers, NEW s \in Services, CreateService(h, s)
      PROVE  MeshInv'
  <2>1. add[h] \in Service /\ s \notin Live /\ s \in Services
    BY <1>2 DEF CreateService, IsNextId
  <2>2. Live' = Live \cup {s} /\ Kept' = Kept /\ svc'[s] = add[h]
        /\ \A t \in Live : svc'[t] = svc[t]
    BY <1>2, <2>1, RowsAreRows DEF CreateService
  <2>3. MeshTypeOK'
    BY <1>2, <2>1, <2>2 DEF CreateService
  <2>4. PublicPortsDistinct'
    BY <1>2, <2>1, <2>2 DEF CreateService, PortUnused, UsedPublicPorts
  <2>5. LocalPortsDistinct' /\ NothingDangles'
    BY <1>2, <2>1, <2>2 DEF CreateService
  <2> QED
    BY <2>3, <2>4, <2>5
<1>3. ASSUME NEW h \in Handlers, CreateServiceFails(h)
      PROVE  MeshInv'
  BY <1>3 DEF CreateServiceFails
<1>4. ASSUME NEW s \in Services, NEW on \in BOOLEAN, SetServiceEnabled(s, on)
      PROVE  MeshInv'
  <2>1. svc[s] \in Service /\ [svc[s] EXCEPT !.on = on] \in Service
    BY <1>4 DEF SetServiceEnabled, Service
  <2>2. /\ \A t \in Services : t # s => svc'[t] = svc[t]
        /\ svc'[s] = [svc[s] EXCEPT !.on = on]
        /\ svc'[s].dev = svc[s].dev /\ svc'[s].port = svc[s].port
    BY <1>4, <2>1 DEF SetServiceEnabled, Service
  <2>3. Live' = Live /\ Kept' = Kept
    BY <1>4, <2>1, <2>2, RowsAreRows DEF SetServiceEnabled
  <2>4. MeshTypeOK'
    BY <1>4, <2>1, <2>3 DEF SetServiceEnabled
  <2>5. PublicPortsDistinct' /\ LocalPortsDistinct' /\ NothingDangles'
    BY <1>4, <2>2, <2>3 DEF SetServiceEnabled
  <2> QED
    BY <2>4, <2>5
<1>5. ASSUME NEW s \in Services, DeleteService(s)
      PROVE  MeshInv'
  BY <1>5 DEF DeleteService, ForwardsTo
<1>6. ASSUME NEW f \in Forwards, NEW d \in Devices, NEW s \in Services, NEW l \in LocalPorts,
             CreateForward(f, d, s, l)
      PROVE  MeshInv'
  <2> DEFINE r == [owner |-> d, remote |-> s, lport |-> l, on |-> TRUE]
  <2>1. r \in Forward /\ f \notin Kept /\ f \in Forwards
    <3>1. f \notin issued
      BY <1>6 DEF CreateForward, IsNextId
    <3> QED
      BY <3>1 DEF Forward
  <2>2. Kept' = Kept \cup {f} /\ Live' = Live /\ fwd'[f] = r
        /\ \A g \in Kept : fwd'[g] = fwd[g]
    <3>1. fwd' = [fwd EXCEPT ![f] = r] /\ svc' = svc /\ r # None
      BY <1>6, <2>1, RowsAreRows DEF CreateForward
    <3> HIDE DEF r
    <3>2. fwd'[f] = r /\ \A g \in Forwards : g # f => fwd'[g] = fwd[g]
      BY <3>1
    <3>3. f \notin Kept
      BY <2>1
    <3> QED
      BY <3>1, <3>2, <3>3
  <2>3. MeshTypeOK'
    BY <1>6, <2>1, <2>2 DEF CreateForward
  <2>4. LocalPortsDistinct'
    BY <1>6, <2>1, <2>2 DEF CreateForward
  <2>5. PublicPortsDistinct' /\ NothingDangles'
    BY <1>6, <2>1, <2>2 DEF CreateForward
  <2> QED
    BY <2>3, <2>4, <2>5
<1>7. ASSUME NEW f \in Forwards, NEW on \in BOOLEAN, SetForwardEnabled(f, on)
      PROVE  MeshInv'
  <2>1. fwd[f] \in Forward /\ [fwd[f] EXCEPT !.on = on] \in Forward
    BY <1>7 DEF SetForwardEnabled, Forward
  <2>2. /\ \A g \in Forwards : g # f => fwd'[g] = fwd[g]
        /\ fwd'[f] = [fwd[f] EXCEPT !.on = on]
        /\ fwd'[f].owner = fwd[f].owner /\ fwd'[f].lport = fwd[f].lport
        /\ fwd'[f].remote = fwd[f].remote
    BY <1>7, <2>1 DEF SetForwardEnabled, Forward
  <2>3. Live' = Live /\ Kept' = Kept
    BY <1>7, <2>1, <2>2, RowsAreRows DEF SetForwardEnabled
  <2>4. MeshTypeOK'
    BY <1>7, <2>1, <2>3 DEF SetForwardEnabled
  <2>5. PublicPortsDistinct' /\ LocalPortsDistinct' /\ NothingDangles'
    BY <1>7, <2>2, <2>3 DEF SetForwardEnabled
  <2> QED
    BY <2>4, <2>5
<1>8. ASSUME NEW f \in Forwards, DeleteForward(f)
      PROVE  MeshInv'
  BY <1>8 DEF DeleteForward
<1>9. ASSUME NEW d \in Devices, DeleteDevice(d)
      PROVE  MeshInv'
  BY <1>9 DEF DeleteDevice, ForwardsTo, ForwardsOf
<1>10. CASE UNCHANGED meshVars
  BY <1>10 DEF meshVars
<1> HIDE DEF MeshInv
<1> QED
  BY <1>1, <1>2, <1>3, <1>4, <1>5, <1>6, <1>7, <1>8, <1>9, <1>10
     DEF MeshNext, AddService, EditTables

(* The tables never contradict each other.                                 *)
THEOREM MeshInvariant == MeshSpec => []MeshInv
<1>1. MeshInit => MeshInv
  BY MeshInitInv
<1>2. MeshInv /\ [MeshNext]_meshVars => MeshInv'
  BY MeshStepInv
<1> QED
  BY <1>1, <1>2, PTL DEF MeshSpec

(* Types.                                                                  *)
THEOREM MeshTypeCorrect == MeshSpec => []MeshTypeOK
<1>1. MeshInv => MeshTypeOK
  BY DEF MeshInv
<1> QED
  BY <1>1, MeshInvariant, PTL

LEMMA InvRunnable == MeshInv => ReplyIsRunnable
  BY DEF MeshInv, ReplyIsRunnable, Remotes, Locals, PublicPortsDistinct, LocalPortsDistinct

(* No bootstrap reply asks for two tunnels on one port of either side.     *)
THEOREM RepliesRunnable == MeshSpec => []ReplyIsRunnable
  BY InvRunnable, MeshInvariant, PTL

LEMMA InvServed == MeshInv => EveryLocalIsServed
<1>1. ASSUME MeshInv, NEW d \in Devices, NEW l \in Locals(d)
      PROVE  \E e \in devs : /\ \E r \in Remotes(e) : r.port = l.port
                             /\ \A c \in Devices : (\E r \in Remotes(c) : r.port = l.port) => c = e
  <2>1. PICK f \in Kept : Usable(f) /\ l.port = svc[fwd[f].remote].port
    BY <1>1 DEF Locals
  <2> DEFINE s == fwd[f].remote
  <2>2. s \in Live /\ svc[s].dev \in devs /\ svc[s].on /\ svc[s].port = l.port
    BY <1>1, <2>1 DEF MeshInv, NothingDangles, Usable
  <2>3. \E r \in Remotes(svc[s].dev) : r.port = l.port
    <3> DEFINE t == [port |-> svc[s].port, target |-> svc[s].target,
                     bindLocal |-> svc[s].bindLocal]
    <3> HIDE DEF s
    <3>1. t \in Remotes(svc[s].dev)
      BY <2>2 DEF Remotes
    <3>2. t.port = l.port
      BY <2>2
    <3> QED
      BY <3>1, <3>2
  <2>4. ASSUME NEW c \in Devices, NEW r \in Remotes(c), r.port = l.port
        PROVE  c = svc[s].dev
    <3>1. PICK t \in Live : svc[t].dev = c /\ svc[t].port = r.port
      BY <2>4 DEF Remotes
    <3> QED
      BY <1>1, <2>2, <2>4, <3>1 DEF MeshInv, PublicPortsDistinct
  <2> QED
    BY <2>2, <2>3, <2>4
<1>2. MeshInv => EveryLocalIsServed
  BY <1>1 DEF EveryLocalIsServed
<1> QED
  BY <1>2

(* Every port that some device is told to dial is one that exactly one     *)
(* device is told to serve.                                                *)
THEOREM LocalsServed == MeshSpec => []EveryLocalIsServed
  BY InvServed, MeshInvariant, PTL

=============================================================================
