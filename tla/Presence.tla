------------------------------ MODULE Presence ------------------------------
(***************************************************************************)
(* Which devices are online, and who is told when one is not: keepalives,  *)
(* the offline reaper (lifecycle.go) and its bark alerts (server/bark.go). *)
(*                                                                         *)
(* Time is discrete.  A database statement takes no time; a push takes one *)
(* unit at most (SendBarkPush gives up after ten seconds).  The reaper has *)
(* one goroutine and waits for its pushes, so alert rows change between its*)
(* statements only with their device: one look at the settings, the devices*)
(* and their alert rows is one step.  The wait may last although no push   *)
(* is under way here; then it is for a device the model leaves out.        *)
(***************************************************************************)
EXTENDS Naturals

CONSTANTS
  Devices,
  Period,        \* ticker of the reaper, OfflineThreshold / 2
  OfflineAfter,  \* OfflineThreshold
  Poll,          \* a daemon's keepalive interval, request included
  Thresholds,    \* bark thresholds that an admin may set
  MaxAge,        \* silences are counted up to here
  MaxFaults,     \* bound on crashes, failed statements and failed pushes
  Never          \* last_seen_at IS NULL

ASSUME PresenceAssumption ==
  /\ {Period, OfflineAfter, Poll, MaxAge} \cup Thresholds \subseteq Nat \ {0}
  /\ MaxAge > OfflineAfter + Period /\ \A t \in Thresholds : MaxAge > t
  /\ MaxFaults \in Nat
  /\ Never \notin Nat

(* A daemon that polls at its default interval is heard of between any two *)
(* ticks and within every threshold.  The code has 30 s against 45 s, 90 s *)
(* and at least 30 s: an alert threshold at that minimum leaves no time for*)
(* the request.  A daemon that backs off before it connects again, up to   *)
(* 60 s, or was given a longer interval is not alive in this sense: it     *)
(* falls silent and is heard of again.                                     *)
ASSUME PollAssumption ==
  /\ Poll < Period
  /\ Poll <= OfflineAfter
  /\ \A t \in Thresholds : Poll <= t

VARIABLES
  row,      \* devices: unborn, live or deleted
  age,      \* time since last_seen_at, or Never
  online,   \* rows with status online
  alive,    \* devices whose keepalives arrive in time and are recorded
  alerted,  \* device_alert_state
  bark,     \* bark_settings: enabled, and the threshold
  phase,    \* the reaper: down (no process), wait, scan or push
  ticked,   \* time since the ticker's last tick
  sinceUp,  \* time since the process started, up to Poll
  job,      \* each device's push goroutine: none, push or mark
  faults

(* History: alerts that arrived since the last keepalive; goroutines whose *)
(* device came back meanwhile; silences that may be reported again; whether*)
(* this process' reaper has done what was to be done at its last tick; the *)
(* alert rows that a scan should have taken away and could not; devices    *)
(* that a revoke has marked and that were not heard of since.              *)
VARIABLES told, late, again, marked, excused, revoking

reaperVars == <<phase, ticked, sinceUp, job>>
deviceVars == <<row, age, online, alive>>
history    == <<told, late, again, marked, excused, revoking>>
vars == <<deviceVars, alerted, bark, reaperVars, faults, history>>

Live == {d \in Devices : row[d] = "live"}

PresenceTypeOK ==
  /\ row \in [Devices -> {"unborn", "live", "deleted"}]
  /\ age \in [Devices -> 0..MaxAge \cup {Never}]
  /\ online \subseteq Live
  /\ alive \subseteq Live
  /\ alerted \subseteq Live
  /\ bark \in [on : BOOLEAN, after : Thresholds]
  /\ phase \in {"down", "wait", "scan", "push"}
  /\ ticked \in 0..Period
  /\ sinceUp \in 0..Poll
  /\ job \in [Devices -> {"none", "push", "mark"}]
  /\ \A d \in Devices : job[d] # "none" => phase = "push"
  /\ faults \in 0..MaxFaults
  /\ told \in [Devices -> 0..2]
  /\ late \subseteq Devices
  /\ again \subseteq Devices
  /\ marked \in BOOLEAN
  /\ excused \subseteq alerted
  /\ revoking \subseteq Live

Init ==
  /\ row = [d \in Devices |-> "unborn"]
  /\ age = [d \in Devices |-> Never]
  /\ online = {} /\ alive = {} /\ alerted = {}
  /\ bark \in [on : BOOLEAN, after : Thresholds]
  /\ phase = "wait" /\ ticked = 0 /\ sinceUp = 0
  /\ job = [d \in Devices |-> "none"]
  /\ faults = 0
  /\ told = [d \in Devices |-> 0]
  /\ late = {} /\ again = {}
  /\ marked = TRUE /\ excused = {} /\ revoking = {}

Up == phase # "down"

Fault == faults < MaxFaults /\ faults' = faults + 1

Older(a) == IF a = Never \/ a = MaxAge THEN a ELSE a + 1

-----------------------------------------------------------------------------
(* Devices. *)

Enroll(d) ==
  /\ Up
  /\ row[d] = "unborn"
  /\ row' = [row EXCEPT ![d] = "live"]
  /\ UNCHANGED <<age, online, alive, alerted, bark, reaperVars, faults, history>>

(* Mutant: the keepalive forgets the status column.                        *)
KeepaliveKeepsStatus(d) ==
  /\ Up
  /\ d \in Live
  /\ age' = [age EXCEPT ![d] = 0]
  /\ alive' = alive \cup {d}
  /\ told' = [told EXCEPT ![d] = 0]
  /\ late' = IF job[d] # "none" THEN late \cup {d} ELSE late
  /\ again' = again \ {d}
  /\ excused' = excused \ {d}
  /\ revoking' = revoking \ {d}
  /\ UNCHANGED <<row, online, alerted, bark, reaperVars, faults, marked>>

(* UpdateDeviceStatus at the head of a bootstrap request.                  *)
Keepalive(d) ==
  /\ Up
  /\ d \in Live
  /\ age' = [age EXCEPT ![d] = 0]
  /\ online' = online \cup {d}
  /\ alive' = alive \cup {d}
  /\ told' = [told EXCEPT ![d] = 0]
  /\ late' = IF job[d] # "none" THEN late \cup {d} ELSE late
  /\ again' = again \ {d}
  /\ excused' = excused \ {d}
  /\ revoking' = revoking \ {d}
  /\ UNCHANGED <<row, alerted, bark, reaperVars, faults, marked>>

(* The machine, its link or its daemon stops, or its keepalives fail or    *)
(* come too late: runOnce failed and Run waits before the next bootstrap.  *)
FallSilent(d) ==
  /\ d \in alive
  /\ alive' = alive \ {d}
  /\ UNCHANGED <<row, age, online, alerted, bark, reaperVars, faults, history>>

(* The first write of a revoke: MarkDeviceSSHLocked shows the device as    *)
(* offline.  The DELETE that follows may fail or come after a keepalive.   *)
MarkSSHLocked(d) ==
  /\ Up
  /\ d \in Live
  /\ online' = online \ {d}
  /\ revoking' = revoking \cup {d}
  /\ UNCHANGED <<row, age, alive, alerted, bark, reaperVars, faults,
                 told, late, again, marked, excused>>

(* The alert row goes with the device's row.                               *)
DeleteDevice(d) ==
  /\ d \in Live
  /\ row' = [row EXCEPT ![d] = "deleted"]
  /\ age' = [age EXCEPT ![d] = Never]
  /\ online' = online \ {d}
  /\ alive' = alive \ {d}
  /\ alerted' = alerted \ {d}
  /\ told' = [told EXCEPT ![d] = 0]
  /\ again' = again \ {d}
  /\ excused' = excused \ {d}
  /\ revoking' = revoking \ {d}
  /\ UNCHANGED <<bark, reaperVars, faults, late, marked>>

(* History: the alert rows of silences that are over.                      *)
Leftover == {d \in alerted : told[d] = 0}

(* History: the devices with an alert row, or about to have one.           *)
Reported == alerted \cup {d \in Devices : job[d] # "none"}

(* PUT /api/admin/bark.  A higher threshold makes a silence that was       *)
(* reported count as short again.                                          *)
SetBark(s) ==
  /\ Up
  /\ bark' = s
  /\ again' = IF s.after > bark.after THEN again \cup Reported ELSE again
  /\ UNCHANGED <<deviceVars, alerted, reaperVars, faults, told, late, marked, excused, revoking>>

-----------------------------------------------------------------------------
(* Time and the process. *)

(* A daemon that is alive polls in time, as soon as there is a server; the *)
(* reaper starts when its ticker fires, unless it still waits for a push.  *)
Tick ==
  /\ Up => \A d \in alive : sinceUp < Poll \/ age[d] < Poll
  /\ phase # "scan"
  /\ ticked < Period \/ phase = "down"
  /\ phase = "push" => ticked = 0
  /\ age' = [d \in Devices |-> Older(age[d])]
  /\ ticked' = IF Up THEN ticked + 1 ELSE ticked
  /\ sinceUp' = IF Up /\ sinceUp < Poll THEN sinceUp + 1 ELSE sinceUp
  /\ UNCHANGED <<row, online, alive, alerted, bark, phase, job, faults, history>>

(* The process dies; a push under way may have arrived.                    *)
Crash ==
  /\ Up
  /\ Fault
  /\ phase' = "down"
  /\ ticked' = 0 /\ sinceUp' = 0
  /\ job' = [d \in Devices |-> "none"]
  /\ \E arrived \in SUBSET {d \in Devices : job[d] = "push" /\ d \notin late} :
       /\ told' = [d \in Devices |-> IF d \in arrived /\ told[d] < 2 THEN told[d] + 1 ELSE told[d]]
       /\ again' = again \cup arrived \cup {d \in Devices \ late : job[d] = "mark"}
  /\ late' = {} /\ marked' = FALSE
  /\ excused' = excused \cup Leftover
  /\ UNCHANGED <<deviceVars, alerted, bark, revoking>>

Restart ==
  /\ phase = "down"
  /\ phase' = "wait"
  /\ UNCHANGED <<deviceVars, alerted, bark, ticked, sinceUp, job, faults, history>>

-----------------------------------------------------------------------------
(* runOfflineReaper. *)

(* Mutant: the cutoff is taken twice over.                                 *)
StaleTwiceOver == {d \in online : age[d] = Never \/ age[d] > 2 * OfflineAfter}

Stale == {d \in online : age[d] = Never \/ age[d] > OfflineAfter}

MarkStaleOffline ==
  /\ phase = "wait" /\ ticked = Period
  /\ phase' = "scan"
  /\ ticked' = 0
  /\ online' = online \ Stale
  /\ marked' = TRUE
  /\ UNCHANGED <<row, age, alive, alerted, bark, sinceUp, job, faults, told, late, again, excused, revoking>>

(* The statement failed: this tick pushes nothing either.                  *)
MarkStaleFails ==
  /\ phase = "wait" /\ ticked = Period
  /\ Fault
  /\ ticked' = 0
  /\ marked' = FALSE
  /\ excused' = excused \cup Leftover
  /\ UNCHANGED <<deviceVars, alerted, bark, phase, sinceUp, job, told, late, again, revoking>>

(* Mutant: without a row in bark_settings the threshold is zero.           *)
OfflineAtOnce == {d \in Live : age[d] = Never \/ age[d] > 0}

(* Silent for longer than the threshold, or never heard of.                *)
Offline == {d \in Live : age[d] = Never \/ age[d] > bark.after}

(* Mutant: an alerted device is pushed again.                              *)
ToPushAlways(missed) == Offline

ToPush(missed) == Offline \ (alerted \ missed)

(* Mutant: nobody takes the alert row of a device back.                    *)
StillAlertedKept(missed) == alerted

StillAlerted(missed) == alerted \cap (Offline \cup missed)

(* maybePushBarkAlerts: the rows of devices that are back go, and one      *)
(* goroutine is started for each silent one that was not reported.  Where  *)
(* the look-up of the row or its DELETE fails, the error is dropped: the   *)
(* row stays and counts as missing.                                        *)
BarkScan ==
  /\ phase = "scan"
  /\ bark.on
  /\ phase' = "push"
  /\ \E missed \in SUBSET alerted :
       /\ \/ missed = {} /\ UNCHANGED faults
          \/ missed # {} /\ Fault
       /\ alerted' = StillAlerted(missed)
       /\ job' = [d \in Devices |-> IF d \in ToPush(missed) THEN "push" ELSE "none"]
       /\ again' = again \cup (missed \cap Offline)
       /\ excused' = StillAlerted(missed) \cap
            (excused \cup IF bark.after < Period THEN Leftover ELSE Leftover \cap missed)
  /\ UNCHANGED <<deviceVars, bark, ticked, sinceUp, told, late, marked, revoking>>

(* Disabled, or one of the two reads failed.                               *)
BarkSkip ==
  /\ phase = "scan"
  /\ \/ ~ bark.on /\ UNCHANGED faults
     \/ Fault
  /\ phase' = "wait"
  /\ excused' = excused \cup Leftover
  /\ UNCHANGED <<deviceVars, alerted, bark, ticked, sinceUp, job, told, late, again, marked, revoking>>

(* History: an alert arrives.                                              *)
Tell(d) ==
  told' = IF d \in late \/ told[d] = 2 THEN told ELSE [told EXCEPT ![d] = @ + 1]

PushSucceeds(d) ==
  /\ job[d] = "push"
  /\ job' = [job EXCEPT ![d] = "mark"]
  /\ Tell(d)
  /\ UNCHANGED <<deviceVars, alerted, bark, phase, ticked, sinceUp, faults, late, again, marked, excused, revoking>>

(* The answer is an error or does not come in time; the alert may have     *)
(* arrived all the same.                                                   *)
PushFails(d) ==
  /\ job[d] = "push"
  /\ Fault
  /\ job' = [job EXCEPT ![d] = "none"]
  /\ late' = late \ {d}
  /\ \/ UNCHANGED <<told, again>>
     \/ Tell(d) /\ again' = IF d \in late THEN again ELSE again \cup {d}
  /\ UNCHANGED <<deviceVars, alerted, bark, phase, ticked, sinceUp, marked, excused, revoking>>

(* Mutant: device_alert_state has no foreign key.                          *)
MarkAlertedGone(d) ==
  /\ job[d] = "mark"
  /\ alerted' = alerted \cup {d}
  /\ job' = [job EXCEPT ![d] = "none"]
  /\ late' = late \ {d}
  /\ UNCHANGED <<deviceVars, bark, phase, ticked, sinceUp, faults, told, again, marked, excused, revoking>>

MarkAlerted(d) ==
  /\ job[d] = "mark"
  /\ d \in Live
  /\ alerted' = alerted \cup {d}
  /\ job' = [job EXCEPT ![d] = "none"]
  /\ late' = late \ {d}
  /\ UNCHANGED <<deviceVars, bark, phase, ticked, sinceUp, faults, told, again, marked, excused, revoking>>

(* The device is gone (FOREIGN KEY), or the store failed.                  *)
MarkAlertedFails(d) ==
  /\ job[d] = "mark"
  /\ \/ d \notin Live /\ UNCHANGED faults
     \/ Fault
  /\ job' = [job EXCEPT ![d] = "none"]
  /\ late' = late \ {d}
  /\ again' = IF d \in late THEN again ELSE again \cup {d}
  /\ UNCHANGED <<deviceVars, alerted, bark, phase, ticked, sinceUp, told, marked, excused, revoking>>

(* wg.Wait returns.                                                        *)
PushesDone ==
  /\ phase = "push"
  /\ \A d \in Devices : job[d] = "none"
  /\ phase' = "wait"
  /\ UNCHANGED <<deviceVars, alerted, bark, ticked, sinceUp, job, faults, history>>

-----------------------------------------------------------------------------
Goroutine(d) ==
  PushSucceeds(d) \/ PushFails(d) \/ MarkAlerted(d) \/ MarkAlertedFails(d)

Reaper == MarkStaleOffline \/ MarkStaleFails \/ BarkScan \/ BarkSkip \/ PushesDone

Next ==
  \/ Tick \/ Crash \/ Restart \/ Reaper
  \/ \E s \in [on : BOOLEAN, after : Thresholds] : SetBark(s)
  \/ \E d \in Devices :
       \/ Enroll(d) \/ Keepalive(d) \/ FallSilent(d) \/ Goroutine(d)
       \/ MarkSSHLocked(d) \/ DeleteDevice(d)

Spec == Init /\ [][Next]_vars

(* The clock runs, the service manager restarts the process, the reaper and*)
(* its goroutines are scheduled.                                           *)
Fairness ==
  /\ WF_vars(Tick) /\ WF_vars(Restart) /\ WF_vars(Reaper)
  /\ \A d \in Devices : WF_vars(Goroutine(d))
  /\ \A d \in Devices : WF_vars(d \in alive /\ Keepalive(d))

FairSpec == Spec /\ Fairness

-----------------------------------------------------------------------------
(* Properties. *)

(* A daemon that keeps its interval is never shown offline, through        *)
(* restarts of the server, failed statements and slow pushes (HandleBoot-  *)
(* strap against MarkStaleDevicesOffline).  Only a revoke shows it offline,*)
(* and one whose DELETE failed does so up to the next keepalive only.      *)
HealthyStaysOnline == alive \ revoking \subseteq online

(* A device that went silent is shown online for the threshold and one     *)
(* period of the ticker at most, also while the reaper waits for slow      *)
(* pushes (lifecycle.go:32), unless the statement failed at the last tick  *)
(* or the process was restarted since.                                     *)
SilentShownOffline ==
  marked => \A d \in online : age[d] # Never /\ age[d] <= OfflineAfter + Period

(* And no alert is ever started for it, on the first scan after an outage  *)
(* of the server either.                                                   *)
NoFalseAlarm ==
  [][\A d \in alive : job[d] = "none" => job'[d] = "none"]_vars

(* One silence is reported once (0006_bark_settings.sql:23), unless the    *)
(* server died or a statement failed between the alert and its row, a push *)
(* arrived without its answer, the row could not be looked up at a later   *)
(* scan (bark.go:42), or the threshold was raised meanwhile.               *)
OneAlertPerSilence == \A d \in Devices : told[d] > 1 => d \in again

(* When a silence is over its alert row goes with the next tick of the     *)
(* reaper, also a row that was written after the device was back, so that  *)
(* the next silence can be reported (bark.go:45) -- unless that scan was   *)
(* left out, its look-up or its DELETE failed, or the threshold is shorter *)
(* than the ticker.                                                        *)
LeftoversGo ==
  \A d \in Leftover \ excused : age[d] # Never /\ age[d] <= Period

SilentForGood(d) == <>[](d \in Live \ alive)

(* A device that goes silent is reported, also if it was reported before   *)
(* and whatever push or statement failed in between, once the process lives*)
(* and alerts are on for good -- unless its alert row of an earlier silence*)
(* is one that a scan could not take away.                                 *)
SilenceIsReported ==
  \A d \in Devices :
    SilentForGood(d) /\ <>[](Up /\ bark.on /\ d \notin excused) => <>[](told[d] > 0)

(* bark.go:45: back online the alert row goes, the next silence is pushed. *)
NextSilenceIsReported ==
  \A d \in Devices : [](Up /\ bark.on) /\ SilentForGood(d) => <>[](told[d] > 0)

=============================================================================
