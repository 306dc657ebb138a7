---------------------------- MODULE PidFileProofs ----------------------------
(* Proofs about PidFile.                                                   *)
EXTENDS PidFile, TLAPS

-----------------------------------------------------------------------------
Serving == {"wrote", "run", "exit"}

(* What holds while no two windows have overlapped and no dropped error has*)
(* left a daemon behind: at most one window is open, the file names the one*)
(* daemon that serves, and a daemon that is about to write the file has    *)
(* outlived every other.                                                   *)
Alone ==
  /\ ~Crowded
  /\ \A p \in Pids : proc[p] \in {"wrote", "run"} => file = p /\ ~Removing
  /\ \A p \in Pids : proc[p] = "exit" =>
       IF killPc = "scan" THEN TRUE
       ELSE IF killPc = "reap" THEN p \in victims
       ELSE file = p
  /\ shellPc = "stopPid" => file \in {None, shellPid}
  /\ \A p, q \in Pids : proc[p] \in {"write", "rename"} => proc[q] \notin Serving
  /\ \A p, q \in Pids : proc[p] = "preempt" /\ proc[q] \in Serving => q = old[p]
  /\ \A p \in Pids : proc[p] = "rename" => tmp = p

(* What a "daemon kill" has still to deal with.                            *)
KillCovers == killPc = "reap" => Daemons \subseteq spared \cup victims

IInv ==
  /\ TypeOK
  /\ KillCovers
  /\ ~overlap => Alone

-----------------------------------------------------------------------------
(* The type invariant.                                                     *)

LEMMA TypeInit == Init => TypeOK
  BY PidsAssumption DEF Init, TypeOK, Daemon

(* A step of any action types the variables that Bookkeeping leaves alone. *)
LEMMA TypeStep ==
  ASSUME TypeOK, [Next]_vars
  PROVE  TypeOK'
<1> USE PidsAssumption DEF Daemon
<1>0. CASE UNCHANGED vars
  BY <1>0 DEF TypeOK, vars
<1> SUFFICES ASSUME Next PROVE TypeOK'
  BY <1>0
<1> DEFINE Types ==
      /\ proc' \in [Pids -> Daemon \cup {"free", "zombie", "stranger"}]
      /\ file' \in Pids \cup {None}
      /\ tmp' \in Pids \cup {None}
      /\ shellPc' \in {"idle", "spawn", "grace", "stopChild", "stopPid"}
      /\ child' \in Pids \cup {None}
      /\ shellPid' \in Pids \cup {None}
      /\ killPc' \in {"idle", "wait", "scan", "reap"}
      /\ victims' \subseteq Pids
      /\ \A p \in Pids : proc'[p] = "preempt" /\ proc[p] # "preempt" => file # None
      /\ \A p \in Pids : proc'[p] = "zombie" => child' = p
      /\ shellPc' = "grace" => child' # None
      /\ shellPc' = "stopPid" <=> shellPid' # None
<1> USE DEF TypeOK, shellVars, killVars
<1>1. ASSUME NEW p \in Pids, Start(p) PROVE Types
  BY <1>1 DEF Start
<1>2. ASSUME NEW p \in Pids, NobodyToPreempt(p) PROVE Types
  BY <1>2 DEF NobodyToPreempt
<1>3. ASSUME NEW p \in Pids, Preempt(p) PROVE Types
  BY <1>3 DEF Preempt, Rival, Alive, Term, Remains
<1>4. ASSUME NEW p \in Pids, PreemptDone(p) PROVE Types
  BY <1>4 DEF PreemptDone
<1>5. ASSUME NEW p \in Pids, PreemptTimeout(p) PROVE Types
  BY <1>5 DEF PreemptTimeout, Kill, Remains, Alive
<1>6. ASSUME NEW p \in Pids, WriteTmp(p) PROVE Types
  BY <1>6 DEF WriteTmp
<1>7. ASSUME NEW p \in Pids, Rename(p) PROVE Types
  BY <1>7 DEF Rename
<1>8. ASSUME NEW p \in Pids, WriteFails(p) PROVE Types
  BY <1>8 DEF WriteFails, Ends, Remains
<1>9. ASSUME NEW p \in Pids, Listen(p) PROVE Types
  BY <1>9 DEF Listen
<1>10. ASSUME NEW p \in Pids, RunReturns(p) PROVE Types
  BY <1>10 DEF RunReturns
<1>11. ASSUME NEW p \in Pids, CleanUp(p) PROVE Types
  BY <1>11 DEF CleanUp, Ends, Remains
<1>12. ASSUME NEW p \in Pids, Crash(p) PROVE Types
  BY <1>12 DEF Crash, Ends, Remains
<1>13. ASSUME NEW p \in Pids, Stranger(p) PROVE Types
  BY <1>13 DEF Stranger
<1>14. ASSUME KillRead PROVE Types
  BY <1>14 DEF KillRead, Term, Remains
<1>15. ASSUME KillRemove PROVE Types
  BY <1>15 DEF KillRemove
<1>16. ASSUME KillScan PROVE Types
  BY <1>16 DEF KillScan, Term, Remains, Daemons
<1>17. ASSUME NEW p \in Pids, KillReap(p) PROVE Types
  BY <1>17 DEF KillReap, Kill, Remains
<1>18. ASSUME KillEnd PROVE Types
  BY <1>18 DEF KillEnd
<1>19. ASSUME ShellStart PROVE Types
  BY <1>19 DEF ShellStart
<1>20. ASSUME ShellBusy PROVE Types
  BY <1>20 DEF ShellBusy
<1>21. ASSUME NEW p \in Pids, ShellSpawn(p) PROVE Types
  BY <1>21 DEF ShellSpawn, Reaped
<1>22. ASSUME ShellGrace PROVE Types
  BY <1>22 DEF ShellGrace, Reaped, ChildRuns
<1>23. ASSUME ShellStatus PROVE Types
  BY <1>23 DEF ShellStatus, Reaped, ChildRuns
<1>24. ASSUME ShellStop PROVE Types
  BY <1>24 DEF ShellStop, Term, Remains
<1>25. ASSUME ShellProbe PROVE Types
  BY <1>25 DEF ShellProbe, Term, Remains
<1>26. ASSUME ShellRemove PROVE Types
  BY <1>26 DEF ShellRemove, Kill, Remains
<1>27. ASSUME ShellQuits PROVE Types
  BY <1>27 DEF ShellQuits, Reaped, ChildRuns
<1>28. ASSUME ShellStartUnread PROVE Types
  BY <1>28 DEF ShellStartUnread
<1>29. ASSUME ShellSpawnFails PROVE Types
  BY <1>29 DEF ShellSpawnFails, Reaped, ChildRuns
<1>30. ASSUME ShellStopFails PROVE Types
  BY <1>30 DEF ShellStopFails, Alive
<1>31. ASSUME NEW p \in Pids, PreemptSkipped(p) PROVE Types
  BY <1>31 DEF PreemptSkipped, Rival, Alive, LooksLikeOmlctl
<1>32. ASSUME NEW p \in Pids, PreemptInVain(p) PROVE Types
  BY <1>32 DEF PreemptInVain, Alive
<1>33. ASSUME NEW p \in Pids, KillReapRefused(p) PROVE Types
  BY <1>33 DEF KillReapRefused
<1>34. ASSUME KillReadFails PROVE Types
  BY <1>34 DEF KillReadFails
<1>35. ASSUME KillReadRefused PROVE Types
  BY <1>35 DEF KillReadRefused, Alive
<1>36. ASSUME KillScanPartly PROVE Types
  BY <1>36 DEF KillScanPartly, Term, Remains, Daemons
<1>37. ASSUME KillCutShort PROVE Types
  BY <1>37 DEF KillCutShort
<1>38. ASSUME ShellProbeRefused PROVE Types
  BY <1>38 DEF ShellProbeRefused
<1>50. ASSUME ShellProbeUnread PROVE Types
  BY <1>50 DEF ShellProbeUnread
<1>39. Types
  BY <1>1, <1>2, <1>3, <1>4, <1>5, <1>6, <1>7, <1>8, <1>9, <1>10, <1>11, <1>12,
     <1>13, <1>14, <1>15, <1>16, <1>17, <1>18, <1>19, <1>20, <1>21, <1>22, <1>23,
     <1>24, <1>25, <1>26, <1>27, <1>28, <1>29, <1>30, <1>31, <1>32, <1>33, <1>34,
     <1>35, <1>36, <1>37, <1>38, <1>50
  DEF Next, Step, ErrorDropped, StartStep, KillStep, ShellStep
<1>40. \A p \in Pids : (proc'[p] = "preempt") => proc[p] = "preempt" \/ file \in Pids
  BY <1>39
<1>41. \E err \in {"yes", "no"} : Bookkeeping(err = "yes")
  <2>1. Bookkeeping(TRUE) \/ Bookkeeping(FALSE)
    BY DEF Next
  <2>2. QED
    BY <2>1
<1>42. PICK err \in {"yes", "no"} : Bookkeeping(err = "yes")
  BY <1>41
<1>43. old' \in [Pids -> Pids \cup {None}]
  BY <1>40, <1>42 DEF Bookkeeping
<1>44. \A p \in Pids : proc'[p] = "preempt" <=> old'[p] # None
  BY <1>40, <1>42 DEF Bookkeeping
<1>45. spared' \subseteq Pids
  BY <1>42 DEF Bookkeeping, Daemons
<1>46. overlap' \in BOOLEAN
  BY <1>42 DEF Bookkeeping
<1>47. QED
  BY <1>39, <1>43, <1>44, <1>45, <1>46

-----------------------------------------------------------------------------
(* "daemon kill" knows every daemon that was there when it scanned.        *)

LEMMA KillCoversStep ==
  ASSUME TypeOK, KillCovers, [Next]_vars
  PROVE  KillCovers'
<1> USE PidsAssumption DEF Daemon
<1>0. CASE UNCHANGED vars
  BY <1>0 DEF KillCovers, Daemons, vars
<1> SUFFICES ASSUME Next PROVE KillCovers'
  BY <1>0
<1> DEFINE Covered ==
      killPc' = "reap" =>
        \A p \in Pids : proc'[p] \in Daemon =>
          \/ p \in victims'
          \/ killPc = "reap" /\ (p \in spared \/ proc[p] \notin Daemon)
<1> DEFINE CoveredOrMissed ==
      killPc' = "reap" =>
        \A p \in Pids : proc'[p] \in Daemon =>
          \/ p \in victims'
          \/ killPc = "scan"
          \/ p \in victims
          \/ killPc = "reap" /\ (p \in spared \/ proc[p] \notin Daemon)
<1> USE DEF TypeOK, KillCovers, Daemons, shellVars, killVars
<1>1. ASSUME NEW p \in Pids, Start(p) PROVE Covered
  BY <1>1 DEF Start, Awaited
<1>2. ASSUME NEW p \in Pids, NobodyToPreempt(p) PROVE Covered
  BY <1>2 DEF NobodyToPreempt, Rival, Alive, LooksLikeOmlctl
<1>3. ASSUME NEW p \in Pids, Preempt(p) PROVE Covered
  BY <1>3 DEF Preempt, Rival, Alive, LooksLikeOmlctl, Term, Remains
<1>4. ASSUME NEW p \in Pids, PreemptDone(p) PROVE Covered
  BY <1>4 DEF PreemptDone, Alive
<1>5. ASSUME NEW p \in Pids, PreemptTimeout(p) PROVE Covered
  BY <1>5 DEF PreemptTimeout, Kill, Remains, Alive
<1>6. ASSUME NEW p \in Pids, WriteTmp(p) PROVE Covered
  BY <1>6 DEF WriteTmp
<1>7. ASSUME NEW p \in Pids, Rename(p) PROVE Covered
  BY <1>7 DEF Rename
<1>8. ASSUME NEW p \in Pids, WriteFails(p) PROVE Covered
  BY <1>8 DEF WriteFails, Ends, Remains
<1>9. ASSUME NEW p \in Pids, Listen(p) PROVE Covered
  BY <1>9 DEF Listen
<1>10. ASSUME NEW p \in Pids, RunReturns(p) PROVE Covered
  BY <1>10 DEF RunReturns
<1>11. ASSUME NEW p \in Pids, CleanUp(p) PROVE Covered
  BY <1>11 DEF CleanUp, Ends, Remains
<1>12. ASSUME NEW p \in Pids, Crash(p) PROVE Covered
  BY <1>12 DEF Crash, Ends, Remains
<1>13. ASSUME NEW p \in Pids, Stranger(p) PROVE Covered
  BY <1>13 DEF Stranger
<1>14. ASSUME KillRead PROVE Covered
  BY <1>14 DEF KillRead, Term, Remains
<1>15. ASSUME KillRemove PROVE Covered
  BY <1>15 DEF KillRemove
<1>16. ASSUME KillScan PROVE Covered
  BY <1>16 DEF KillScan, Term, Remains
<1>17. ASSUME NEW p \in Pids, KillReap(p) PROVE Covered
  BY <1>17 DEF KillReap, Kill, Remains
<1>18. ASSUME KillEnd PROVE Covered
  BY <1>18 DEF KillEnd
<1>19. ASSUME ShellStart PROVE Covered
  BY <1>19 DEF ShellStart
<1>20. ASSUME ShellBusy PROVE Covered
  BY <1>20 DEF ShellBusy
<1>21. ASSUME NEW p \in Pids, ShellSpawn(p) PROVE Covered
  BY <1>21 DEF ShellSpawn, Reaped, ChildRuns, Awaited
<1>22. ASSUME ShellGrace PROVE Covered
  BY <1>22 DEF ShellGrace, Reaped, ChildRuns
<1>23. ASSUME ShellStatus PROVE Covered
  BY <1>23 DEF ShellStatus, Reaped, ChildRuns
<1>24. ASSUME ShellStop PROVE Covered
  BY <1>24 DEF ShellStop, Term, Remains
<1>25. ASSUME ShellProbe PROVE Covered
  BY <1>25 DEF ShellProbe, Term, Remains
<1>26. ASSUME ShellRemove PROVE Covered
  BY <1>26 DEF ShellRemove, Kill, Remains
<1>27. ASSUME ShellQuits PROVE Covered
  BY <1>27 DEF ShellQuits, Reaped, ChildRuns
<1>28. ASSUME ShellStartUnread PROVE Covered
  BY <1>28 DEF ShellStartUnread
<1>29. ASSUME ShellSpawnFails PROVE Covered
  BY <1>29 DEF ShellSpawnFails, Reaped, ChildRuns
<1>30. ASSUME ShellStopFails PROVE Covered
  BY <1>30 DEF ShellStopFails, Alive
<1>31. ASSUME NEW p \in Pids, PreemptSkipped(p) PROVE CoveredOrMissed
  BY <1>31 DEF PreemptSkipped, Rival, Alive, LooksLikeOmlctl
<1>32. ASSUME NEW p \in Pids, PreemptInVain(p) PROVE CoveredOrMissed
  BY <1>32 DEF PreemptInVain, Alive
<1>33. ASSUME NEW p \in Pids, KillReapRefused(p) PROVE CoveredOrMissed
  BY <1>33 DEF KillReapRefused
<1>34. ASSUME KillReadFails PROVE CoveredOrMissed
  BY <1>34 DEF KillReadFails
<1>35. ASSUME KillReadRefused PROVE CoveredOrMissed
  BY <1>35 DEF KillReadRefused, Alive
<1>36. ASSUME KillScanPartly PROVE CoveredOrMissed
  BY <1>36 DEF KillScanPartly, Term, Remains, Daemons
<1>37. ASSUME KillCutShort PROVE CoveredOrMissed
  BY <1>37 DEF KillCutShort
<1>38. ASSUME ShellProbeRefused PROVE CoveredOrMissed
  BY <1>38 DEF ShellProbeRefused
<1>50. ASSUME ShellProbeUnread PROVE Covered
  BY <1>50 DEF ShellProbeUnread
<1>39. Step => Covered
  BY <1>1, <1>2, <1>3, <1>4, <1>5, <1>6, <1>7, <1>8, <1>9, <1>10, <1>11, <1>12, <1>13, <1>14, <1>15, <1>16,
     <1>17, <1>18, <1>19, <1>20, <1>21, <1>22, <1>23, <1>24, <1>25, <1>26, <1>27, <1>28, <1>29, <1>30,
     <1>50
  DEF Step, StartStep, KillStep, ShellStep
<1>40. ErrorDropped => CoveredOrMissed
  BY <1>31, <1>32, <1>33, <1>34, <1>35, <1>36, <1>37, <1>38
  DEF ErrorDropped
<1>41. CASE Step /\ Bookkeeping(FALSE)
  BY <1>39, <1>41 DEF Bookkeeping
<1>42. CASE ErrorDropped /\ Bookkeeping(TRUE)
  BY <1>40, <1>42 DEF Bookkeeping
<1>43. QED
  BY <1>41, <1>42 DEF Next

-----------------------------------------------------------------------------
(* Without an overlap, a step leaves one daemon in charge.                 *)

LEMMA AloneStep ==
  ASSUME TypeOK, TypeOK', Alone, Step, Bookkeeping(FALSE), ~Crowded'
  PROVE  Alone'
<1> USE PidsAssumption DEF Daemon, Serving
<1> USE DEF TypeOK, Alone, Crowded, Starting, Removing, shellVars, killVars
<1> DEFINE Old == old' = [p \in Pids |-> IF proc'[p] # "preempt" THEN None
                            ELSE IF proc[p] = "preempt" THEN old[p] ELSE file]
<1>o. Old
  BY DEF Bookkeeping
<1>1. ASSUME NEW p \in Pids, Start(p) PROVE Alone'
  BY <1>1, <1>o DEF Start, Awaited
<1>2. ASSUME NEW p \in Pids, NobodyToPreempt(p) PROVE Alone'
  BY <1>2, <1>o DEF NobodyToPreempt, Rival, Alive, LooksLikeOmlctl
<1>3. ASSUME NEW p \in Pids, Preempt(p) PROVE Alone'
  <2>1. ~Removing
    <3>1. proc'[p] = "preempt" /\ UNCHANGED <<shellVars, killVars>>
      BY <1>3 DEF Preempt, Term
    <3>2. QED
      BY <3>1
  <2>2. \A q \in Pids : proc[q] \in Serving => q = file
    BY <2>1
  <2>3. /\ \A q \in Pids : proc'[q] \in Serving => proc[q] \in Serving
        /\ \A q \in Pids : proc'[q] \in {"wrote", "run"} => q # file
        /\ \A q \in Pids : q # p /\ proc'[q] \in {"preempt", "write", "rename"} =>
                            proc[q] = proc'[q]
        /\ proc'[p] = "preempt"
    BY <1>3 DEF Preempt, Rival, Term, Remains
  <2>4. \A q \in Pids : q # p => proc'[q] \notin {"preempt", "write", "rename"}
    BY <2>3
  <2>5. old'[p] = file
    BY <1>3, <1>o, <2>3 DEF Preempt
  <2>6. UNCHANGED <<file, tmp, shellVars, killVars>>
    BY <1>3 DEF Preempt
  <2>7. QED
    BY <2>1, <2>2, <2>3, <2>4, <2>5, <2>6
<1>4. ASSUME NEW p \in Pids, PreemptDone(p) PROVE Alone'
  BY <1>4, <1>o DEF PreemptDone, Alive
<1>5. ASSUME NEW p \in Pids, PreemptTimeout(p) PROVE Alone'
  BY <1>5, <1>o DEF PreemptTimeout, Kill, Remains, Alive
<1>6. ASSUME NEW p \in Pids, WriteTmp(p) PROVE Alone'
  BY <1>6, <1>o DEF WriteTmp
<1>7. ASSUME NEW p \in Pids, Rename(p) PROVE Alone'
  BY <1>7, <1>o DEF Rename
<1>8. ASSUME NEW p \in Pids, WriteFails(p) PROVE Alone'
  BY <1>8, <1>o DEF WriteFails, Ends, Remains
<1>9. ASSUME NEW p \in Pids, Listen(p) PROVE Alone'
  BY <1>9, <1>o DEF Listen
<1>10. ASSUME NEW p \in Pids, RunReturns(p) PROVE Alone'
  BY <1>10, <1>o DEF RunReturns
<1>11. ASSUME NEW p \in Pids, CleanUp(p) PROVE Alone'
  BY <1>11, <1>o DEF CleanUp, Ends, Remains
<1>12. ASSUME NEW p \in Pids, Crash(p) PROVE Alone'
  BY <1>12, <1>o DEF Crash, Ends, Remains
<1>13. ASSUME NEW p \in Pids, Stranger(p) PROVE Alone'
  BY <1>13, <1>o DEF Stranger
<1>14. ASSUME KillRead PROVE Alone'
  BY <1>14, <1>o DEF KillRead, Term, Remains
<1>15. ASSUME KillRemove PROVE Alone'
  BY <1>15, <1>o DEF KillRemove
<1>16. ASSUME KillScan PROVE Alone'
  BY <1>16, <1>o DEF KillScan, Daemons, Term, Remains
<1>17. ASSUME NEW p \in Pids, KillReap(p) PROVE Alone'
  BY <1>17, <1>o DEF KillReap, Kill, Remains
<1>18. ASSUME KillEnd PROVE Alone'
  BY <1>18, <1>o DEF KillEnd
<1>19. ASSUME ShellStart PROVE Alone'
  BY <1>19, <1>o DEF ShellStart
<1>20. ASSUME ShellBusy PROVE Alone'
  BY <1>20, <1>o DEF ShellBusy
<1>21. ASSUME NEW p \in Pids, ShellSpawn(p) PROVE Alone'
  BY <1>21, <1>o DEF ShellSpawn, Reaped, ChildRuns, Awaited
<1>22. ASSUME ShellGrace PROVE Alone'
  BY <1>22, <1>o DEF ShellGrace, Reaped, ChildRuns
<1>23. ASSUME ShellStatus PROVE Alone'
  BY <1>23, <1>o DEF ShellStatus, Reaped, ChildRuns
<1>24. ASSUME ShellStop PROVE Alone'
  BY <1>24, <1>o DEF ShellStop, Term, Remains
<1>25. ASSUME ShellProbe PROVE Alone'
  <2>1. /\ UNCHANGED <<file, tmp, killVars>>
        /\ shellPc = "stopChild"
        /\ \/ shellPc' = "idle"
           \/ shellPc' = "stopPid" /\ shellPid' = file
    BY <1>25 DEF ShellProbe
  <2>2. /\ \A q \in Pids : proc'[q] = "exit" => proc[q] \in {"run", "exit"}
        /\ \A q \in Pids : proc'[q] \in (Daemon \ {"exit"}) => proc[q] = proc'[q]
    BY <1>25 DEF ShellProbe, Term, Remains
  <2>3. \A q \in Pids : proc'[q] \in {"wrote", "run"} => shellPc' # "stopPid"
    <3>1. SUFFICES ASSUME NEW q \in Pids, proc'[q] \in {"wrote", "run"},
                          shellPc' = "stopPid"
                   PROVE  FALSE
      OBVIOUS
    <3>2. q = file
      BY <2>2, <3>1
    <3>3. QED
      BY <1>25, <3>1, <3>2 DEF ShellProbe, Term, Remains
  <2>4. \A q \in Pids : old'[q] = IF proc'[q] # "preempt" THEN None ELSE old[q]
    BY <1>o, <2>2
  <2>5. \A q \in Pids : proc'[q] \in Serving => proc[q] \in Serving
    BY <2>2
  <2>6. QED
    BY <2>1, <2>2, <2>3, <2>4, <2>5
<1>26. ASSUME ShellRemove PROVE Alone'
  BY <1>26, <1>o DEF ShellRemove, Kill, Remains
<1>27. ASSUME ShellQuits PROVE Alone'
  BY <1>27, <1>o DEF ShellQuits, Reaped, ChildRuns
<1>28. ASSUME ShellStartUnread PROVE Alone'
  BY <1>28, <1>o DEF ShellStartUnread
<1>29. ASSUME ShellSpawnFails PROVE Alone'
  BY <1>29, <1>o DEF ShellSpawnFails, Reaped, ChildRuns
<1>30. ASSUME ShellStopFails PROVE Alone'
  BY <1>30, <1>o DEF ShellStopFails, Alive
<1>31. ASSUME ShellProbeUnread PROVE Alone'
  BY <1>31, <1>o DEF ShellProbeUnread
<1>32. QED
  BY <1>1, <1>2, <1>3, <1>4, <1>5, <1>6, <1>7, <1>8, <1>9, <1>10, <1>11, <1>12,
     <1>13, <1>14, <1>15, <1>16, <1>17, <1>18, <1>19, <1>20, <1>21, <1>22, <1>23,
     <1>24, <1>25, <1>26, <1>27, <1>28, <1>29, <1>30, <1>31
  DEF Step, StartStep, KillStep, ShellStep

-----------------------------------------------------------------------------
(* The theorems.                                                           *)

LEMMA IInvInit == Init => IInv
  BY TypeInit, PidsAssumption
  DEF Init, IInv, KillCovers, Alone, Crowded, Starting, Serving, Daemon

LEMMA IInvStep ==
  ASSUME IInv, [Next]_vars
  PROVE  IInv'
<1>1. TypeOK' /\ KillCovers'
  BY TypeStep, KillCoversStep DEF IInv
<1>2. CASE UNCHANGED vars
  BY <1>1, <1>2 DEF IInv, Alone, Crowded, Starting, Removing, Serving, vars
<1>3. CASE Next
  <2>1. SUFFICES ASSUME ~overlap' PROVE Alone'
    BY <1>1 DEF IInv
  <2>2. CASE Settled'
    BY <1>1, <2>2
    DEF Settled, Alone, Crowded, Starting, Removing, Serving, TypeOK
  <2>3. CASE Step /\ Bookkeeping(FALSE) /\ ~Settled'
    <3>1. ~overlap /\ ~Crowded'
      BY <2>1, <2>3 DEF Bookkeeping
    <3>2. QED
      BY <1>1, <2>3, <3>1, AloneStep DEF IInv
  <2>4. CASE ErrorDropped /\ Bookkeeping(TRUE)
    BY <2>1, <2>2, <2>4 DEF Bookkeeping
  <2>5. QED
    BY <1>3, <2>2, <2>3, <2>4 DEF Next
<1>4. QED
  BY <1>2, <1>3

THEOREM Invariance == Spec => []IInv
<1>1. IInv /\ [Next]_vars => IInv'
  BY IInvStep
<1>2. QED
  BY IInvInit, <1>1, PTL DEF Spec

(* Processes, files and the shell's records keep their types: a zombie is  *)
(* the shell's child, a start that waits knows for whom (daemon.rs).       *)
THEOREM TypeCorrect == Spec => []TypeOK
<1>1. IInv => TypeOK
  BY DEF IInv
<1>2. QED
  BY Invariance, <1>1, PTL

(* Unless two commands overlapped, or one could not see or signal what it  *)
(* should have, since the last time that all was well, the daemon that     *)
(* serves is the one the pid file names, for any number of processes       *)
(* (main.go, comment on the preemption in RunE).                           *)
THEOREM OneDaemonNamed == Spec => []OneNamedDaemon
<1>1. IInv => OneNamedDaemon
  BY DEF IInv, Alone, OneNamedDaemon
<1>2. QED
  BY Invariance, <1>1, PTL

(* When "daemon kill" is through, no daemon is left that it saw and may    *)
(* kill (killOmlctlByConfig).                                              *)
THEOREM KillIsThorough == Spec => []KillLeavesNone
<1>1. IInv => KillLeavesNone
  BY DEF IInv, KillCovers, KillLeavesNone
<1>2. QED
  BY Invariance, <1>1, PTL

=============================================================================
