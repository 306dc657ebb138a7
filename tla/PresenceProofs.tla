--------------------------- MODULE PresenceProofs ---------------------------
(***************************************************************************)
(* Proofs about Presence, for any devices, intervals and thresholds.       *)
(***************************************************************************)
EXTENDS Presence, TLAPS

(* A device that keeps its interval has been heard of within it, except    *)
(* right after a restart; the reaper's first tick comes later than that.   *)
Heard ==
  /\ \A d \in alive : age[d] \in Nat
  /\ Up /\ sinceUp < Poll => ticked <= sinceUp
  /\ phase = "down" => ticked = 0
  /\ ticked > Poll \/ phase = "scan" => \A d \in alive : age[d] <= Poll

(* What is known of a silence that may not be reported again: its alert is *)
(* under way and nobody was told, or it arrived and has a row, or is about *)
(* to have one; and the device is silent for longer than the threshold.    *)
Known(d) ==
  /\ told[d] <= 1
  /\ job[d] = "push" /\ d \notin late =>
       told[d] = 0 /\ (d \in Live => d \in Offline)
  /\ told[d] = 1 =>
       \/ d \in alerted /\ d \in Offline
       \/ job[d] = "mark" /\ d \notin late /\ (d \in Live => d \in Offline)

Unborn == \A d \in Devices : row[d] = "unborn" => told[d] = 0 /\ job[d] = "none"

(* After a tick that marked what was stale, a device that is shown online  *)
(* can have grown older by the time since that tick only.                  *)
Marked ==
  marked =>
    /\ Up
    /\ \A d \in online : age[d] \in Nat /\ age[d] <= OfflineAfter + ticked

(* A device that is back while its goroutine works has been heard of since *)
(* the tick, and so has one whose row is left over, up to the next scan; a *)
(* process that dies leaves only rows that are excused.                    *)
BackSinceTick ==
  /\ \A d \in late : job[d] # "none"
  /\ \A d \in Live :
       /\ job[d] = "mark" /\ d \notin late => told[d] > 0
       /\ d \in late => age[d] \in Nat /\ age[d] <= ticked

LeftoverYoung ==
  /\ phase = "down" => Leftover \subseteq excused
  /\ \A d \in Leftover \ excused :
       /\ age[d] \in Nat /\ age[d] <= Period
       /\ phase # "scan" => age[d] <= ticked

IInv ==
  /\ PresenceTypeOK
  /\ HealthyStaysOnline
  /\ Heard
  /\ Unborn
  /\ Marked
  /\ BackSinceTick
  /\ LeftoverYoung
  /\ \A d \in Devices \ again : Known(d)

USE PresenceAssumption, PollAssumption

(* The empty database satisfies the invariant.                             *)
LEMMA InitInv == Init => IInv
  BY DEF Init, IInv, PresenceTypeOK, HealthyStaysOnline, Heard, Unborn, Known,
         Marked, BackSinceTick, LeftoverYoung, Leftover, Up, Live

(* Types.                                                                  *)
LEMMA TypeStep ==
  ASSUME IInv, [Next]_vars
  PROVE  PresenceTypeOK'
<1>1. ASSUME NEW d \in Devices, Enroll(d)
      PROVE  PresenceTypeOK'
  BY <1>1 DEF IInv, PresenceTypeOK, Enroll, Live, Up, reaperVars, history
<1>2. ASSUME NEW d \in Devices, Keepalive(d)
      PROVE  PresenceTypeOK'
  BY <1>2 DEF IInv, PresenceTypeOK, Keepalive, Live, Up, reaperVars
<1>3. ASSUME NEW d \in Devices, FallSilent(d)
      PROVE  PresenceTypeOK'
  BY <1>3 DEF IInv, PresenceTypeOK, FallSilent, Live, reaperVars, history
<1>4. ASSUME NEW d \in Devices, DeleteDevice(d)
      PROVE  PresenceTypeOK'
  BY <1>4 DEF IInv, PresenceTypeOK, DeleteDevice, Live, reaperVars
<1>5. ASSUME NEW s \in [on : BOOLEAN, after : Thresholds], SetBark(s)
      PROVE  PresenceTypeOK'
  BY <1>5 DEF IInv, PresenceTypeOK, SetBark, Live, Up, Reported, deviceVars,
          reaperVars
<1>6. CASE Tick
  <2>1. \A d \in Devices : Older(age[d]) \in 0..MaxAge \cup {Never}
    <3>1. age \in [Devices -> 0..MaxAge \cup {Never}]
      BY DEF IInv, PresenceTypeOK
    <3>2. QED
      BY <3>1 DEF Older
  <2>2. age' \in [Devices -> 0..MaxAge \cup {Never}]
    BY <1>6, <2>1 DEF Tick
  <2>3. ticked' \in 0..Period /\ sinceUp' \in 0..Poll
    <3>1. PresenceTypeOK /\ Heard
      BY DEF IInv
    <3>2. QED
      BY <1>6, <3>1 DEF PresenceTypeOK, Heard, Tick, Up
  <2>4. QED
    BY <1>6, <2>2, <2>3 DEF IInv, PresenceTypeOK, Tick, Live, history
<1>7. CASE Crash
  <2>1. marked' \in BOOLEAN
    BY <1>7 DEF Crash
  <2>2. QED
    BY <1>7, <2>1 DEF IInv, PresenceTypeOK, Crash, Live, Up, Fault, Leftover,
            deviceVars
<1>8. CASE Restart
  BY <1>8 DEF IInv, PresenceTypeOK, Restart, Live, deviceVars, history
<1>9. CASE MarkStaleOffline
  BY <1>9 DEF IInv, PresenceTypeOK, MarkStaleOffline, Live, Stale, history
<1>10. CASE MarkStaleFails
  <2>1. marked' \in BOOLEAN
    BY <1>10 DEF MarkStaleFails
  <2>2. QED
    BY <1>10, <2>1 DEF IInv, PresenceTypeOK, MarkStaleFails, Live, Fault, Leftover,
            deviceVars
<1>11. CASE BarkScan
  <2>1. PICK missed \in SUBSET alerted :
          /\ (missed = {} /\ UNCHANGED faults) \/ Fault
          /\ alerted' = StillAlerted(missed)
          /\ job' = [d \in Devices |-> IF d \in ToPush(missed) THEN "push" ELSE "none"]
          /\ again' = again \cup (missed \cap Offline)
          /\ excused' \subseteq StillAlerted(missed)
    BY <1>11 DEF BarkScan
  <2>2. UNCHANGED <<deviceVars, bark, ticked, sinceUp, told, late, marked, revoking>>
        /\ phase' = "push"
    BY <1>11 DEF BarkScan
  <2>3. again' \subseteq Devices /\ faults' \in 0..MaxFaults
    BY <2>1 DEF IInv, PresenceTypeOK, Live, Fault
  <2>4. QED
    BY <2>1, <2>2, <2>3 DEF IInv, PresenceTypeOK, Live, StillAlerted, deviceVars
<1>12. CASE BarkSkip
  BY <1>12 DEF IInv, PresenceTypeOK, BarkSkip, Live, Fault, Leftover, deviceVars,
          history
<1>13. ASSUME NEW d \in Devices, PushSucceeds(d)
      PROVE  PresenceTypeOK'
  BY <1>13 DEF IInv, PresenceTypeOK, PushSucceeds, Live, Tell, deviceVars
<1>14. ASSUME NEW d \in Devices, PushFails(d)
      PROVE  PresenceTypeOK'
  BY <1>14 DEF IInv, PresenceTypeOK, PushFails, Live, Fault, Tell, deviceVars
<1>15. ASSUME NEW d \in Devices, MarkAlerted(d)
      PROVE  PresenceTypeOK'
  BY <1>15 DEF IInv, PresenceTypeOK, MarkAlerted, Live, deviceVars
<1>16. ASSUME NEW d \in Devices, MarkAlertedFails(d)
      PROVE  PresenceTypeOK'
  BY <1>16 DEF IInv, PresenceTypeOK, MarkAlertedFails, Live, Fault, deviceVars
<1>17. CASE PushesDone
  BY <1>17 DEF IInv, PresenceTypeOK, PushesDone, Live, deviceVars, history
<1>18. CASE UNCHANGED vars
  BY <1>18 DEF IInv, vars, PresenceTypeOK, deviceVars, reaperVars, history, Live
<1>19. ASSUME NEW d \in Devices, MarkSSHLocked(d)
      PROVE  PresenceTypeOK'
  BY <1>19 DEF IInv, PresenceTypeOK, MarkSSHLocked, Live, Up, reaperVars
<1>20. QED
  BY <1>1, <1>2, <1>3, <1>4, <1>5, <1>6, <1>7, <1>8, <1>9, <1>10, <1>11, <1>12,
          <1>13, <1>14, <1>15, <1>16, <1>17, <1>18,
          <1>19
     DEF Next, Reaper, Goroutine

(* Keepalives outrun the reaper.                                           *)
LEMMA HeardStep ==
  ASSUME IInv, [Next]_vars
  PROVE  HealthyStaysOnline' /\ Heard'
<1>1. ASSUME NEW d \in Devices, Enroll(d)
      PROVE  HealthyStaysOnline' /\ Heard'
  BY <1>1 DEF IInv, PresenceTypeOK, HealthyStaysOnline, Heard, Enroll, Live, Up,
          reaperVars, history
<1>2. ASSUME NEW d \in Devices, Keepalive(d)
      PROVE  HealthyStaysOnline' /\ Heard'
  BY <1>2 DEF IInv, PresenceTypeOK, HealthyStaysOnline, Heard, Keepalive, Live,
          Up, reaperVars
<1>3. ASSUME NEW d \in Devices, FallSilent(d)
      PROVE  HealthyStaysOnline' /\ Heard'
  BY <1>3 DEF IInv, PresenceTypeOK, HealthyStaysOnline, Heard, FallSilent, Live,
          Up, reaperVars, history
<1>4. ASSUME NEW d \in Devices, DeleteDevice(d)
      PROVE  HealthyStaysOnline' /\ Heard'
  BY <1>4 DEF IInv, PresenceTypeOK, HealthyStaysOnline, Heard, DeleteDevice,
          Live, Up, reaperVars
<1>5. ASSUME NEW s \in [on : BOOLEAN, after : Thresholds], SetBark(s)
      PROVE  HealthyStaysOnline' /\ Heard'
  BY <1>5 DEF IInv, PresenceTypeOK, HealthyStaysOnline, Heard, SetBark, Live,
          Up, Reported, deviceVars, reaperVars
<1>6. CASE Tick
  BY <1>6 DEF IInv, PresenceTypeOK, HealthyStaysOnline, Heard, Tick, Live, Up,
          Older, history
<1>7. CASE Crash
  BY <1>7 DEF IInv, PresenceTypeOK, HealthyStaysOnline, Heard, Crash, Live, Up,
          Fault, deviceVars
<1>8. CASE Restart
  BY <1>8 DEF IInv, PresenceTypeOK, HealthyStaysOnline, Heard, Restart, Live,
          Up, deviceVars, history
<1>9. CASE MarkStaleOffline
  BY <1>9 DEF IInv, PresenceTypeOK, HealthyStaysOnline, Heard, MarkStaleOffline,
          Live, Up, Stale, history
<1>10. CASE MarkStaleFails
  BY <1>10 DEF IInv, PresenceTypeOK, HealthyStaysOnline, Heard, MarkStaleFails,
          Live, Up, Fault, deviceVars, history
<1>11. CASE BarkScan
  BY <1>11 DEF IInv, PresenceTypeOK, HealthyStaysOnline, Heard, BarkScan, Live,
          Up, StillAlerted, ToPush, deviceVars, history, Offline
<1>12. CASE BarkSkip
  BY <1>12 DEF IInv, PresenceTypeOK, HealthyStaysOnline, Heard, BarkSkip, Live,
          Up, Fault, deviceVars, history
<1>13. ASSUME NEW d \in Devices, PushSucceeds(d)
      PROVE  HealthyStaysOnline' /\ Heard'
  BY <1>13 DEF IInv, PresenceTypeOK, HealthyStaysOnline, Heard, PushSucceeds,
          Live, Up, Tell, deviceVars
<1>14. ASSUME NEW d \in Devices, PushFails(d)
      PROVE  HealthyStaysOnline' /\ Heard'
  BY <1>14 DEF IInv, PresenceTypeOK, HealthyStaysOnline, Heard, PushFails, Live,
          Up, Fault, Tell, deviceVars
<1>15. ASSUME NEW d \in Devices, MarkAlerted(d)
      PROVE  HealthyStaysOnline' /\ Heard'
  BY <1>15 DEF IInv, PresenceTypeOK, HealthyStaysOnline, Heard, MarkAlerted,
          Live, Up, deviceVars
<1>16. ASSUME NEW d \in Devices, MarkAlertedFails(d)
      PROVE  HealthyStaysOnline' /\ Heard'
  BY <1>16 DEF IInv, PresenceTypeOK, HealthyStaysOnline, Heard,
          MarkAlertedFails, Live, Up, Fault, deviceVars
<1>17. CASE PushesDone
  BY <1>17 DEF IInv, PresenceTypeOK, HealthyStaysOnline, Heard, PushesDone,
          Live, Up, deviceVars, history
<1>18. CASE UNCHANGED vars
  BY <1>18 DEF IInv, vars, PresenceTypeOK, HealthyStaysOnline, Heard,
          deviceVars, reaperVars, history, Live, Up
<1>19. ASSUME NEW d \in Devices, MarkSSHLocked(d)
      PROVE  HealthyStaysOnline' /\ Heard'
  BY <1>19 DEF IInv, PresenceTypeOK, HealthyStaysOnline, Heard,
          MarkSSHLocked, Live, Up, reaperVars
<1>20. QED
  BY <1>1, <1>2, <1>3, <1>4, <1>5, <1>6, <1>7, <1>8, <1>9, <1>10, <1>11, <1>12,
          <1>13, <1>14, <1>15, <1>16, <1>17, <1>18,
          <1>19
     DEF Next, Reaper, Goroutine

(* Nobody hears of a device that never enrolled.                           *)
LEMMA UnbornStep ==
  ASSUME IInv, [Next]_vars
  PROVE  Unborn'
<1>1. ASSUME NEW d \in Devices, Enroll(d)
      PROVE  Unborn'
  BY <1>1 DEF IInv, PresenceTypeOK, Unborn, Enroll, Live, Up, reaperVars,
          history
<1>2. ASSUME NEW d \in Devices, Keepalive(d)
      PROVE  Unborn'
  BY <1>2 DEF IInv, PresenceTypeOK, Unborn, Keepalive, Live, Up, reaperVars
<1>3. ASSUME NEW d \in Devices, FallSilent(d)
      PROVE  Unborn'
  BY <1>3 DEF IInv, PresenceTypeOK, Unborn, FallSilent, Live, reaperVars,
          history
<1>4. ASSUME NEW d \in Devices, DeleteDevice(d)
      PROVE  Unborn'
  BY <1>4 DEF IInv, PresenceTypeOK, Unborn, DeleteDevice, Live, reaperVars
<1>5. ASSUME NEW s \in [on : BOOLEAN, after : Thresholds], SetBark(s)
      PROVE  Unborn'
  BY <1>5 DEF IInv, PresenceTypeOK, Unborn, SetBark, Live, Up, Reported,
          deviceVars, reaperVars
<1>6. CASE Tick
  BY <1>6 DEF IInv, PresenceTypeOK, Unborn, Tick, Live, Up, Older, history
<1>7. CASE Crash
  BY <1>7 DEF IInv, PresenceTypeOK, Unborn, Crash, Live, Up, Fault, deviceVars
<1>8. CASE Restart
  BY <1>8 DEF IInv, PresenceTypeOK, Unborn, Restart, Live, deviceVars, history
<1>9. CASE MarkStaleOffline
  BY <1>9 DEF IInv, PresenceTypeOK, Unborn, MarkStaleOffline, Live, Stale,
          history
<1>10. CASE MarkStaleFails
  BY <1>10 DEF IInv, PresenceTypeOK, Unborn, MarkStaleFails, Live, Fault,
          deviceVars, history
<1>11. CASE BarkScan
  BY <1>11 DEF IInv, PresenceTypeOK, Unborn, BarkScan, Live, StillAlerted,
          ToPush, deviceVars, history, Offline
<1>12. CASE BarkSkip
  BY <1>12 DEF IInv, PresenceTypeOK, Unborn, BarkSkip, Live, Fault, deviceVars,
          history
<1>13. ASSUME NEW d \in Devices, PushSucceeds(d)
      PROVE  Unborn'
  BY <1>13 DEF IInv, PresenceTypeOK, Unborn, PushSucceeds, Live, Tell,
          deviceVars
<1>14. ASSUME NEW d \in Devices, PushFails(d)
      PROVE  Unborn'
  BY <1>14 DEF IInv, PresenceTypeOK, Unborn, PushFails, Live, Fault, Tell,
          deviceVars
<1>15. ASSUME NEW d \in Devices, MarkAlerted(d)
      PROVE  Unborn'
  BY <1>15 DEF IInv, PresenceTypeOK, Unborn, MarkAlerted, Live, deviceVars
<1>16. ASSUME NEW d \in Devices, MarkAlertedFails(d)
      PROVE  Unborn'
  BY <1>16 DEF IInv, PresenceTypeOK, Unborn, MarkAlertedFails, Live, Fault,
          deviceVars
<1>17. CASE PushesDone
  BY <1>17 DEF IInv, PresenceTypeOK, Unborn, PushesDone, Live, deviceVars,
          history
<1>18. CASE UNCHANGED vars
  BY <1>18 DEF IInv, vars, PresenceTypeOK, Unborn, deviceVars, reaperVars,
          history, Live
<1>19. ASSUME NEW d \in Devices, MarkSSHLocked(d)
      PROVE  Unborn'
  BY <1>19 DEF IInv, PresenceTypeOK, Unborn, MarkSSHLocked, Live, Up, reaperVars
<1>20. QED
  BY <1>1, <1>2, <1>3, <1>4, <1>5, <1>6, <1>7, <1>8, <1>9, <1>10, <1>11, <1>12,
          <1>13, <1>14, <1>15, <1>16, <1>17, <1>18,
          <1>19
     DEF Next, Reaper, Goroutine

(* Between two ticks nothing that is online grows too old.                 *)
LEMMA MarkedStep ==
  ASSUME IInv, [Next]_vars
  PROVE  Marked'
<1>1. ASSUME NEW d \in Devices, Enroll(d) \/ FallSilent(d)
                             \/ MarkSSHLocked(d) \/ DeleteDevice(d)
      PROVE  Marked'
  BY <1>1 DEF Enroll, FallSilent, MarkSSHLocked, DeleteDevice, IInv, PresenceTypeOK, Marked, Up,
          Live, reaperVars, history
<1>2. ASSUME NEW d \in Devices, Keepalive(d)
      PROVE  Marked'
  BY <1>2 DEF Keepalive, IInv, PresenceTypeOK, Marked, Up, Live, reaperVars
<1>3. ASSUME NEW s \in [on : BOOLEAN, after : Thresholds], SetBark(s)
      PROVE  Marked'
  BY <1>3 DEF SetBark, IInv, Marked, Up, deviceVars, reaperVars
<1>4. CASE Tick
  <2>1. \A d \in Devices : age[d] \in Nat => age'[d] \in Nat /\ age'[d] <= age[d] + 1
    BY <1>4 DEF Tick, Older, IInv, PresenceTypeOK
  <2>2. marked' = marked /\ online' = online /\ phase' = phase
        /\ (Up => ticked' = ticked + 1) /\ ticked \in Nat /\ online \subseteq Devices
    BY <1>4 DEF Tick, IInv, PresenceTypeOK, Live, history, Up
  <2>3. QED
    BY <2>1, <2>2 DEF IInv, Marked, Up
<1>5. CASE Crash \/ MarkStaleFails
  BY <1>5 DEF Crash, MarkStaleFails, Marked
<1>6. CASE MarkStaleOffline
  <2>1. \A d \in online' : d \in Devices /\ age[d] # Never /\ ~ (age[d] > OfflineAfter)
    BY <1>6 DEF MarkStaleOffline, Stale, IInv, PresenceTypeOK, Live
  <2>2. \A d \in online' : age[d] \in Nat /\ age[d] <= OfflineAfter + 0
    BY <2>1 DEF IInv, PresenceTypeOK
  <2>3. QED
    BY <1>6, <2>2 DEF MarkStaleOffline, Marked, Up
<1>7. CASE Restart \/ BarkScan \/ BarkSkip \/ PushesDone
  BY <1>7 DEF Restart, BarkScan, BarkSkip, PushesDone, IInv, Marked, Up, deviceVars, history
<1>8. ASSUME NEW d \in Devices, Goroutine(d)
      PROVE  Marked'
  BY <1>8 DEF Goroutine, PushSucceeds, PushFails, MarkAlerted, MarkAlertedFails, IInv,
          Marked, Up, deviceVars
<1>9. CASE UNCHANGED vars
  BY <1>9 DEF vars, deviceVars, reaperVars, history, IInv, Marked, Up
<1>10. QED
  BY <1>1, <1>2, <1>3, <1>4, <1>5, <1>6, <1>7, <1>8, <1>9 DEF Next, Reaper

(* The goroutines of a scan end before the next one.                       *)
LEMMA BackStep ==
  ASSUME IInv, [Next]_vars
  PROVE  BackSinceTick'
<1> USE DEF IInv, PresenceTypeOK, BackSinceTick, Unborn, Live, Up,
            deviceVars, reaperVars, history
<1>1. ASSUME NEW d \in Devices, Enroll(d)
      PROVE  BackSinceTick'
  BY <1>1 DEF Enroll
<1>2. ASSUME NEW d \in Devices, Keepalive(d)
      PROVE  BackSinceTick'
  BY <1>2 DEF Keepalive
<1>3. ASSUME NEW d \in Devices, FallSilent(d)
      PROVE  BackSinceTick'
  BY <1>3 DEF FallSilent
<1>4. ASSUME NEW d \in Devices, DeleteDevice(d)
      PROVE  BackSinceTick'
  BY <1>4 DEF DeleteDevice
<1>5. ASSUME NEW s \in [on : BOOLEAN, after : Thresholds], SetBark(s)
      PROVE  BackSinceTick'
  BY <1>5 DEF SetBark, Reported
<1>6. CASE Tick
  BY <1>6 DEF Tick, Up, Older
<1>7. CASE Crash
  BY <1>7 DEF Crash, Fault, Up
<1>8. CASE Restart
  BY <1>8 DEF Restart
<1>9. CASE MarkStaleOffline
  BY <1>9 DEF MarkStaleOffline
<1>10. CASE MarkStaleFails
  BY <1>10 DEF MarkStaleFails, Fault
<1>11. CASE BarkScan
  BY <1>11 DEF BarkScan, StillAlerted, ToPush, Offline
<1>12. CASE BarkSkip
  BY <1>12 DEF BarkSkip, Fault
<1>13. ASSUME NEW d \in Devices, PushSucceeds(d)
      PROVE  BackSinceTick'
  BY <1>13 DEF PushSucceeds, Tell
<1>14. ASSUME NEW d \in Devices, PushFails(d)
      PROVE  BackSinceTick'
  BY <1>14 DEF PushFails, Tell, Fault
<1>15. ASSUME NEW d \in Devices, MarkAlerted(d)
      PROVE  BackSinceTick'
  BY <1>15 DEF MarkAlerted
<1>16. ASSUME NEW d \in Devices, MarkAlertedFails(d)
      PROVE  BackSinceTick'
  BY <1>16 DEF MarkAlertedFails, Fault
<1>17. CASE PushesDone
  BY <1>17 DEF PushesDone
<1>18. CASE UNCHANGED vars
  BY <1>18 DEF vars
<1>19. ASSUME NEW d \in Devices, MarkSSHLocked(d)
      PROVE  BackSinceTick'
  BY <1>19 DEF MarkSSHLocked
<1> QED
  BY <1>1, <1>2, <1>3, <1>4, <1>5, <1>6, <1>7, <1>8, <1>9,
     <1>10, <1>11, <1>12, <1>13, <1>14, <1>15, <1>16, <1>17, <1>18,
     <1>19
     DEF Next, Reaper, Goroutine

(* A scan takes every row away that it may, and until then they are young. *)
LEMMA LeftoverStep ==
  ASSUME IInv, [Next]_vars
  PROVE  LeftoverYoung'
<1> USE DEF IInv, PresenceTypeOK, BackSinceTick, LeftoverYoung, Leftover, Live, Up,
            deviceVars, reaperVars, history
<1>1. ASSUME NEW d \in Devices, Enroll(d)
      PROVE  LeftoverYoung'
  BY <1>1 DEF Enroll
<1>2. ASSUME NEW d \in Devices, Keepalive(d)
      PROVE  LeftoverYoung'
  BY <1>2 DEF Keepalive
<1>3. ASSUME NEW d \in Devices, FallSilent(d)
      PROVE  LeftoverYoung'
  BY <1>3 DEF FallSilent
<1>4. ASSUME NEW d \in Devices, DeleteDevice(d)
      PROVE  LeftoverYoung'
  BY <1>4 DEF DeleteDevice
<1>5. ASSUME NEW s \in [on : BOOLEAN, after : Thresholds], SetBark(s)
      PROVE  LeftoverYoung'
  BY <1>5 DEF SetBark, Reported
<1>6. CASE Tick
  BY <1>6 DEF Tick, Up, Older
<1>7. CASE Crash
  BY <1>7 DEF Crash, Fault, Up
<1>8. CASE Restart
  BY <1>8 DEF Restart
<1>9. CASE MarkStaleOffline
  BY <1>9 DEF MarkStaleOffline
<1>10. CASE MarkStaleFails
  BY <1>10 DEF MarkStaleFails, Fault
<1>11. CASE BarkScan
  BY <1>11 DEF BarkScan, StillAlerted, ToPush, Offline
<1>12. CASE BarkSkip
  BY <1>12 DEF BarkSkip, Fault
<1>13. ASSUME NEW d \in Devices, PushSucceeds(d)
      PROVE  LeftoverYoung'
  BY <1>13 DEF PushSucceeds, Tell
<1>14. ASSUME NEW d \in Devices, PushFails(d)
      PROVE  LeftoverYoung'
  BY <1>14 DEF PushFails, Tell, Fault
<1>15. ASSUME NEW d \in Devices, MarkAlerted(d)
      PROVE  LeftoverYoung'
  BY <1>15 DEF MarkAlerted
<1>16. ASSUME NEW d \in Devices, MarkAlertedFails(d)
      PROVE  LeftoverYoung'
  BY <1>16 DEF MarkAlertedFails, Fault
<1>17. CASE PushesDone
  BY <1>17 DEF PushesDone
<1>18. CASE UNCHANGED vars
  BY <1>18 DEF vars
<1>19. ASSUME NEW d \in Devices, MarkSSHLocked(d)
      PROVE  LeftoverYoung'
  BY <1>19 DEF MarkSSHLocked
<1> QED
  BY <1>1, <1>2, <1>3, <1>4, <1>5, <1>6, <1>7, <1>8, <1>9,
     <1>10, <1>11, <1>12, <1>13, <1>14, <1>15, <1>16, <1>17, <1>18,
     <1>19
     DEF Next, Reaper, Goroutine

(* An alert, its row and the silence it reports stay together.             *)
LEMMA KnownStep ==
  ASSUME IInv, [Next]_vars
  PROVE  \A e \in Devices \ again' : Known(e)'
<1>1. ASSUME NEW d \in Devices, Enroll(d)
      PROVE  \A e \in Devices \ again' : Known(e)'
  BY <1>1 DEF IInv, PresenceTypeOK, Unborn, Known, Enroll, Live, Offline, Up,
          reaperVars, history
<1>2. ASSUME NEW d \in Devices, Keepalive(d)
      PROVE  \A e \in Devices \ again' : Known(e)'
  BY <1>2 DEF IInv, PresenceTypeOK, Unborn, Known, Keepalive, Live, Offline, Up,
          reaperVars
<1>3. ASSUME NEW d \in Devices, FallSilent(d)
      PROVE  \A e \in Devices \ again' : Known(e)'
  BY <1>3 DEF IInv, PresenceTypeOK, Unborn, Known, FallSilent, Live, Offline,
          reaperVars, history
<1>4. ASSUME NEW d \in Devices, DeleteDevice(d)
      PROVE  \A e \in Devices \ again' : Known(e)'
  BY <1>4 DEF IInv, PresenceTypeOK, Unborn, Known, DeleteDevice, Live, Offline,
          reaperVars
<1>5. ASSUME NEW s \in [on : BOOLEAN, after : Thresholds], SetBark(s)
      PROVE  \A e \in Devices \ again' : Known(e)'
  BY <1>5 DEF IInv, PresenceTypeOK, Unborn, Known, SetBark, Live, Offline, Up,
          Reported, deviceVars, reaperVars
<1>6. CASE Tick
  BY <1>6 DEF IInv, PresenceTypeOK, Unborn, Known, Tick, Live, Offline, Up,
          Older, history
<1>7. CASE Crash
  BY <1>7 DEF IInv, PresenceTypeOK, Unborn, Known, Crash, Live, Offline, Up,
          Fault, deviceVars
<1>8. CASE Restart
  BY <1>8 DEF IInv, PresenceTypeOK, Unborn, Known, Restart, Live, Offline,
          deviceVars, history
<1>9. CASE MarkStaleOffline
  BY <1>9 DEF IInv, PresenceTypeOK, Unborn, Known, MarkStaleOffline, Live,
          Offline, Stale, history
<1>10. CASE MarkStaleFails
  BY <1>10 DEF IInv, PresenceTypeOK, Unborn, Known, MarkStaleFails, Live,
          Offline, Fault, deviceVars, history
<1>11. CASE BarkScan
  BY <1>11 DEF IInv, PresenceTypeOK, Unborn, Known, BarkScan, Live, Offline,
          StillAlerted, ToPush, deviceVars, history
<1>12. CASE BarkSkip
  BY <1>12 DEF IInv, PresenceTypeOK, Unborn, Known, BarkSkip, Live, Offline,
          Fault, deviceVars, history
<1>13. ASSUME NEW d \in Devices, PushSucceeds(d)
      PROVE  \A e \in Devices \ again' : Known(e)'
  BY <1>13 DEF IInv, PresenceTypeOK, Unborn, Known, PushSucceeds, Live, Offline,
          Tell, deviceVars
<1>14. ASSUME NEW d \in Devices, PushFails(d)
      PROVE  \A e \in Devices \ again' : Known(e)'
  BY <1>14 DEF IInv, PresenceTypeOK, Unborn, Known, PushFails, Live, Offline,
          Fault, Tell, deviceVars
<1>15. ASSUME NEW d \in Devices, MarkAlerted(d)
      PROVE  \A e \in Devices \ again' : Known(e)'
  BY <1>15 DEF IInv, PresenceTypeOK, Unborn, Known, MarkAlerted, Live, Offline,
          deviceVars
<1>16. ASSUME NEW d \in Devices, MarkAlertedFails(d)
      PROVE  \A e \in Devices \ again' : Known(e)'
  BY <1>16 DEF IInv, PresenceTypeOK, Unborn, Known, MarkAlertedFails, Live,
          Offline, Fault, deviceVars
<1>17. CASE PushesDone
  BY <1>17 DEF IInv, PresenceTypeOK, Unborn, Known, PushesDone, Live, Offline,
          deviceVars, history
<1>18. CASE UNCHANGED vars
  BY <1>18 DEF IInv, vars, PresenceTypeOK, Unborn, Known, deviceVars,
          reaperVars, history, Live, Offline
<1>19. ASSUME NEW d \in Devices, MarkSSHLocked(d)
      PROVE  \A e \in Devices \ again' : Known(e)'
  BY <1>19 DEF IInv, PresenceTypeOK, Unborn, Known, MarkSSHLocked, Live, Offline,
          Up, reaperVars
<1>20. QED
  BY <1>1, <1>2, <1>3, <1>4, <1>5, <1>6, <1>7, <1>8, <1>9, <1>10, <1>11, <1>12,
          <1>13, <1>14, <1>15, <1>16, <1>17, <1>18,
          <1>19
     DEF Next, Reaper, Goroutine

LEMMA StepInv == IInv /\ [Next]_vars => IInv'
  BY TypeStep, HeardStep, UnbornStep, MarkedStep, BackStep, LeftoverStep, KnownStep DEF IInv

-----------------------------------------------------------------------------
(* The theorems. *)

THEOREM Invariance == Spec => []IInv
  BY InitInv, StepInv, PTL DEF Spec

(* Types.                                                                  *)
THEOREM TypeCorrect == Spec => []PresenceTypeOK
<1>1. IInv => PresenceTypeOK
  BY DEF IInv
<1>2. QED
  BY <1>1, Invariance, PTL

(* A daemon that keeps its interval is shown offline by a revoke only.     *)
THEOREM StaysOnline == Spec => []HealthyStaysOnline
<1>1. IInv => HealthyStaysOnline
  BY DEF IInv
<1>2. QED
  BY <1>1, Invariance, PTL

(* A silent device is shown online for a threshold and a period at most.   *)
THEOREM SilentShown == Spec => []SilentShownOffline
<1>1. IInv => SilentShownOffline
  <2> SUFFICES ASSUME IInv, marked, NEW d \in online
               PROVE  age[d] # Never /\ age[d] <= OfflineAfter + Period
    BY DEF SilentShownOffline
  <2>1. age[d] \in Nat /\ age[d] <= OfflineAfter + ticked
    BY DEF IInv, Marked
  <2>2. ticked \in Nat /\ ticked <= Period
    BY DEF IInv, PresenceTypeOK
  <2> QED
    BY <2>1, <2>2
<1>2. QED
  BY <1>1, Invariance, PTL

(* When a silence is over its alert row goes with the next scan.           *)
THEOREM LeftoversAreTaken == Spec => []LeftoversGo
<1>1. IInv => LeftoversGo
  BY DEF IInv, LeftoverYoung, LeftoversGo
<1>2. QED
  BY <1>1, Invariance, PTL

(* One silence is alerted once, unless one of the listed accidents happens.*)
THEOREM OneAlert == Spec => []OneAlertPerSilence
<1>1. IInv => OneAlertPerSilence
  BY DEF IInv, PresenceTypeOK, Known, OneAlertPerSilence
<1>2. QED
  BY <1>1, Invariance, PTL

(* A push starts only in a scan, and a scan finds a healthy daemon heard of*)
(* within every threshold.                                                 *)
LEMMA AlarmStep ==
  ASSUME IInv, [Next]_vars, NEW d \in alive, job[d] = "none"
  PROVE  job'[d] = "none"
<1>1. CASE BarkScan
  <2>1. age[d] \in Nat /\ age[d] <= Poll /\ d \in Devices
    BY <1>1 DEF BarkScan, IInv, Heard, PresenceTypeOK, Live
  <2>2. \A missed : d \notin ToPush(missed)
    BY <2>1 DEF ToPush, Offline, IInv, PresenceTypeOK
  <2>3. QED
    BY <1>1, <2>1, <2>2 DEF BarkScan
<1>2. CASE ~ BarkScan
  BY <1>2 DEF Next, Reaper, Goroutine, Enroll, Keepalive, FallSilent,
         MarkSSHLocked, DeleteDevice, SetBark, Tick, Crash, Restart, MarkStaleOffline,
         MarkStaleFails,
         BarkSkip, PushSucceeds, PushFails, MarkAlerted, MarkAlertedFails,
         PushesDone, vars, reaperVars, IInv, PresenceTypeOK, Live
<1>3. QED
  BY <1>1, <1>2

(* No alert is ever started for a daemon that keeps its interval.          *)
THEOREM FalseAlarmNever == Spec => NoFalseAlarm
<1>1. IInv /\ [Next]_vars =>
        [\A d \in alive : job[d] = "none" => job'[d] = "none"]_vars
  BY AlarmStep
<1>2. QED
  BY <1>1, Invariance, PTL DEF Spec, NoFalseAlarm

=============================================================================
