-------------------------- MODULE CredentialsProofs --------------------------
(* Proofs about Credentials.                                               *)
EXTENDS Credentials, TLAPS

-----------------------------------------------------------------------------
(* While no two commands have overlapped: the public key is the last thing *)
(* that EnsureSSHKey writes, so no other is sent to the server before it is*)
(* there, and nothing changes the pair afterwards but a read error, which  *)
(* gives the key up.  A request that outlives its command carries the same *)
(* key.                                                                    *)
Pure ==
  /\ Alone
  /\ state # Empty
  /\ pub \in Keys \ abandoned => priv = pub
  /\ \A d \in Devices : installed[d] \in {None, pub} \cup abandoned
  /\ \A e \in Procs : request[e] \in {None, pub} \cup abandoned
  /\ \A e \in Procs : pc[e] \in {"priv", "pub"} => pub \notin Keys \ abandoned
  /\ \A e \in Procs : pc[e] = "pub" => priv = key[e]
  /\ \A e \in Procs : pc[e] = "post" => pub = key[e]
  /\ \A e \in Procs : pc[e] = "rename" => tmp = dev[e]

(* A daemon's fingerprint is that of the seed on disk, and so is chisel's. *)
Seeded ==
  /\ pinned # None => seed = pinned
  /\ chisel # None => seed = chisel
  /\ newSeed # None => seed = None

IInv ==
  /\ CredentialsTypeOK
  /\ Seeded
  /\ ~overlap => Pure

LEMMA InitInv == Init => IInv
  BY ValuesAssumption
  DEF Init, IInv, CredentialsTypeOK, Seeded, Pure, Alone, Busy

-----------------------------------------------------------------------------
(* The client's half of the type invariant. *)

LEMMA ClientTypeStep ==
  ASSUME CredentialsTypeOK,
         \/ \E e \in Procs : EnrollStep(e)
         \/ \E d \in Devices : Revoke(d)
  PROVE  /\ pc' \in [Procs -> {"idle", "read", "priv", "pub", "post", "wait", "save", "rename"}]
         /\ key' \in [Procs -> Keys \cup {None}]
         /\ dev' \in [Procs -> Devices \cup {None}]
         /\ priv' \in Keys \cup {None, Empty}
         /\ pub' \in Keys \cup {None, Empty}
         /\ tmp' \in Devices \cup {None, Empty}
         /\ state' \in Devices \cup {None, Empty}
         /\ request' \in [Procs -> Keys \cup {None}]
         /\ installed' \in [Devices -> Keys \cup {None}]
         /\ abandoned' \subseteq Keys
         /\ \A e \in Procs : key'[e] # None <=> pc'[e] \in {"priv", "pub", "post"}
         /\ \A e \in Procs : dev'[e] # None <=> pc'[e] \in {"save", "rename"}
<1> USE ValuesAssumption DEF CredentialsTypeOK, files
<1> DEFINE Types ==
         /\ pc' \in [Procs -> {"idle", "read", "priv", "pub", "post", "wait", "save", "rename"}]
         /\ key' \in [Procs -> Keys \cup {None}]
         /\ dev' \in [Procs -> Devices \cup {None}]
         /\ priv' \in Keys \cup {None, Empty}
         /\ pub' \in Keys \cup {None, Empty}
         /\ tmp' \in Devices \cup {None, Empty}
         /\ state' \in Devices \cup {None, Empty}
         /\ request' \in [Procs -> Keys \cup {None}]
         /\ installed' \in [Devices -> Keys \cup {None}]
         /\ abandoned' \subseteq Keys
         /\ \A e \in Procs : key'[e] # None <=> pc'[e] \in {"priv", "pub", "post"}
         /\ \A e \in Procs : dev'[e] # None <=> pc'[e] \in {"save", "rename"}
<1>1. ASSUME NEW e \in Procs, Begin(e) PROVE Types
  BY <1>1 DEF Begin, Goes
<1>2. ASSUME NEW e \in Procs, TrustPub(e) PROVE Types
  BY <1>2 DEF TrustPub, Goes
<1>3. ASSUME NEW e \in Procs, WritePriv(e) PROVE Types
  BY <1>3 DEF WritePriv, Goes
<1>4. ASSUME NEW e \in Procs, WritePub(e) PROVE Types
  BY <1>4 DEF WritePub, Goes
<1>5. ASSUME NEW e \in Procs, SaveTmp(e) PROVE Types
  BY <1>5 DEF SaveTmp, Goes
<1>6. ASSUME NEW e \in Procs, RenameState(e) PROVE Types
  BY <1>6 DEF RenameState, Goes, Ends
<1>7. ASSUME NEW e \in Procs, Stop(e) PROVE Types
  BY <1>7 DEF Stop, Goes, Ends
<1>8. ASSUME NEW e \in Procs, StopInWrite(e) PROVE Types
  BY <1>8 DEF StopInWrite, Goes, Ends
<1>9. ASSUME NEW e \in Procs, NEW k \in Keys, Generate(e, k) PROVE Types
  BY <1>9 DEF Generate, Goes
<1>10. ASSUME NEW e \in Procs, NEW d \in Devices, PostAccepted(e, d) PROVE Types
  BY <1>10 DEF PostAccepted, Goes
<1>11. ASSUME NEW d \in Devices, Revoke(d) PROVE Types
  BY <1>11 DEF Revoke
<1>12. ASSUME NEW e \in Procs, NEW k \in Keys, GenerateUnread(e, k) PROVE Types
  BY <1>12 DEF GenerateUnread, Goes
<1>13. ASSUME NEW e \in Procs, Post(e) PROVE Types
  BY <1>13 DEF Post, Goes
<1>14. ASSUME NEW e \in Procs, PostFails(e) PROVE Types
  BY <1>14 DEF PostFails
<1>15. QED
  BY <1>1, <1>2, <1>3, <1>4, <1>5, <1>6, <1>7, <1>8, <1>9, <1>10, <1>11, <1>12,
     <1>13, <1>14
  DEF EnrollStep

-----------------------------------------------------------------------------
(* A step of the one command under way, or a revocation. *)

LEMMA PureStep ==
  ASSUME CredentialsTypeOK, Pure, Alone',
         \/ \E e \in Procs : EnrollStep(e)
         \/ \E d \in Devices : Revoke(d)
  PROVE  Pure'
<1> USE ValuesAssumption DEF CredentialsTypeOK, Pure, Alone, Busy, files
<1>1. ASSUME NEW e \in Procs, Begin(e) PROVE Pure'
  BY <1>1 DEF Begin, Goes
<1>2. ASSUME NEW e \in Procs, TrustPub(e) PROVE Pure'
  BY <1>2 DEF TrustPub, Goes
<1>3. ASSUME NEW e \in Procs, WritePriv(e) PROVE Pure'
  BY <1>3 DEF WritePriv, Goes
<1>4. ASSUME NEW e \in Procs, WritePub(e) PROVE Pure'
  BY <1>4 DEF WritePub, Goes
<1>5. ASSUME NEW e \in Procs, SaveTmp(e) PROVE Pure'
  BY <1>5 DEF SaveTmp, Goes
<1>6. ASSUME NEW e \in Procs, RenameState(e) PROVE Pure'
  BY <1>6 DEF RenameState, Goes, Ends
<1>7. ASSUME NEW e \in Procs, Stop(e) PROVE Pure'
  BY <1>7 DEF Stop, Goes, Ends
<1>8. ASSUME NEW e \in Procs, StopInWrite(e) PROVE Pure'
  BY <1>8 DEF StopInWrite, Goes, Ends
<1>9. ASSUME NEW e \in Procs, NEW k \in Keys, Generate(e, k) PROVE Pure'
  BY <1>9 DEF Generate, Goes, FreshKey
<1>10. ASSUME NEW e \in Procs, NEW d \in Devices, PostAccepted(e, d) PROVE Pure'
  BY <1>10 DEF PostAccepted, Goes
<1>11. ASSUME NEW d \in Devices, Revoke(d) PROVE Pure'
  BY <1>11 DEF Revoke
<1>12. ASSUME NEW e \in Procs, NEW k \in Keys, GenerateUnread(e, k) PROVE Pure'
  BY <1>12 DEF GenerateUnread, Goes, FreshKey
<1>13. ASSUME NEW e \in Procs, Post(e) PROVE Pure'
  BY <1>13 DEF Post, Goes
<1>14. ASSUME NEW e \in Procs, PostFails(e) PROVE Pure'
  BY <1>14 DEF PostFails
<1>15. QED
  BY <1>1, <1>2, <1>3, <1>4, <1>5, <1>6, <1>7, <1>8, <1>9, <1>10, <1>11, <1>12,
     <1>13, <1>14
  DEF EnrollStep

-----------------------------------------------------------------------------
(* The server process and the daemon. *)

LEMMA SeededStep ==
  ASSUME CredentialsTypeOK, Seeded,
         \/ StartWithSeed \/ WriteSeed \/ ServerStops \/ DaemonPins \/ DaemonEnds
         \/ \E s \in Seeds : NewSeed(s)
  PROVE  /\ Seeded'
         /\ seed' \in Seeds \cup {None, Empty}
         /\ newSeed' \in Seeds \cup {None}
         /\ chisel' \in Seeds \cup {None}
         /\ pinned' \in Seeds \cup {None}
<1> USE ValuesAssumption DEF CredentialsTypeOK, Seeded, serverVars
<1> DEFINE ServerTypes ==
         /\ seed' \in Seeds \cup {None, Empty}
         /\ newSeed' \in Seeds \cup {None}
         /\ chisel' \in Seeds \cup {None}
         /\ pinned' \in Seeds \cup {None}
<1>1. ASSUME StartWithSeed PROVE Seeded' /\ ServerTypes
  BY <1>1 DEF StartWithSeed
<1>2. ASSUME WriteSeed PROVE Seeded' /\ ServerTypes
  BY <1>2 DEF WriteSeed
<1>3. ASSUME ServerStops PROVE Seeded' /\ ServerTypes
  BY <1>3 DEF ServerStops, Down
<1>4. ASSUME DaemonPins PROVE Seeded' /\ ServerTypes
  BY <1>4 DEF DaemonPins
<1>5. ASSUME DaemonEnds PROVE Seeded' /\ ServerTypes
  BY <1>5 DEF DaemonEnds
<1>6. ASSUME NEW s \in Seeds, NewSeed(s) PROVE Seeded' /\ ServerTypes
  BY <1>6 DEF NewSeed, Down
<1>7. QED
  BY <1>1, <1>2, <1>3, <1>4, <1>5, <1>6

-----------------------------------------------------------------------------
(* The theorems. *)

LEMMA IInvStep ==
  ASSUME IInv, [Next]_vars
  PROVE  IInv'
<1> USE DEF IInv
<1>1. CASE UNCHANGED vars
  BY <1>1 DEF vars, clientVars, files, serverVars, CredentialsTypeOK, Seeded, Pure, Alone, Busy
<1> DEFINE Client == /\ \/ \E e \in Procs : EnrollStep(e)
                        \/ \E d \in Devices : Revoke(d)
                     /\ UNCHANGED <<serverVars, pinned>>
           Server == /\ \/ StartWithSeed \/ WriteSeed \/ ServerStops
                        \/ DaemonPins \/ DaemonEnds
                        \/ \E s \in Seeds : NewSeed(s)
                     /\ UNCHANGED clientVars
<1>3. CASE Client /\ Overlapping
  <2>1. CredentialsTypeOK'
    BY <1>3, ClientTypeStep DEF CredentialsTypeOK, serverVars, Overlapping
  <2>2. Seeded'
    BY <1>3 DEF Seeded, serverVars
  <2>3. ASSUME ~overlap, Alone' PROVE Pure'
    BY <1>3, <2>3, PureStep
  <2>4. ASSUME Settled' PROVE Pure'
    BY <2>1, <2>4, ValuesAssumption DEF Settled, Pure, Alone, Busy, CredentialsTypeOK
  <2>5. QED
    BY <1>3, <2>1, <2>2, <2>3, <2>4 DEF Overlapping
<1>4. CASE Server /\ Overlapping
  <2>1. CredentialsTypeOK' /\ Seeded'
    BY <1>4, SeededStep DEF CredentialsTypeOK, clientVars, files, Overlapping
  <2>2. Pure => Pure'
    BY <1>4 DEF Pure, Alone, Busy, clientVars, files
  <2>3. ASSUME Settled' PROVE Pure'
    BY <2>1, <2>3, ValuesAssumption DEF Settled, Pure, Alone, Busy, CredentialsTypeOK
  <2>4. QED
    BY <1>4, <2>1, <2>2, <2>3 DEF Overlapping
<1>5. QED
  BY <1>1, <1>3, <1>4 DEF Next

THEOREM Invariance == Spec => []IInv
<1>1. IInv /\ [Next]_vars => IInv'
  BY IInvStep
<1>2. QED
  BY InitInv, <1>1, PTL DEF Spec

(* Files, answers and keys keep their types: a command has a key or a      *)
(* device in its hands exactly while it needs it.                          *)
THEOREM TypeCorrect == Spec => []CredentialsTypeOK
<1>1. IInv => CredentialsTypeOK
  BY DEF IInv
<1>2. QED
  BY Invariance, <1>1, PTL

(* Without overlapping commands, every account made from this machine opens*)
(* with its private key, at whatever step earlier commands ended and their *)
(* requests arrived, but for keys that a failed read of ssh_key.pub gave up*)
(* (EnsureSSHKey).                                                         *)
THEOREM KeyOpensEveryAccount == Spec => []KeyOpensAccounts
<1>1. IInv => KeyOpensAccounts
  BY DEF IInv, Pure, KeyOpensAccounts, CredentialsTypeOK
<1>2. QED
  BY Invariance, <1>1, PTL

(* state.json is missing or whole (SaveState).                             *)
THEOREM StateNeverTorn == Spec => []StateWhole
<1>1. IInv => StateWhole
  BY DEF IInv, Pure, StateWhole
<1>2. QED
  BY Invariance, <1>1, PTL

(* The server keeps its fingerprint over restarts (loadOrCreateKeySeed).   *)
THEOREM FingerprintIsKept == Spec => []FingerprintKept
<1>1. IInv => FingerprintKept
  BY DEF IInv, Seeded, FingerprintKept
<1>2. QED
  BY Invariance, <1>1, PTL

=============================================================================
