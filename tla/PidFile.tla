------------------------------- MODULE PidFile -------------------------------
(***************************************************************************)
(* Who runs the client daemon of one configuration: "omlctl daemon start   *)
(* --pid-file" (cmd/omlctl/main.go), "omlctl daemon kill", and the Tauri   *)
(* shell's daemon_start, daemon_stop and daemon_status (lib.rs, daemon.rs).*)
(* Nothing but the pid file ties them together, and every command reads it,*)
(* acts on what it read, and writes or removes it later.                   *)
(*                                                                         *)
(* A process is its pid.  Pids are reused, by daemons and by strangers, but*)
(* not by a stranger while somebody waits for the old owner to die: the    *)
(* waits poll every 50 or 100 ms, the system reuses a pid much later.      *)
(* Deadlines (3 s, 5 s) may pass at any moment.  The Unix build is meant;  *)
(* on Windows TERM is KILL, here a TERM that is followed by a Crash, and no*)
(* process is ever listed: every scan is a KillScanPartly.                 *)
(*                                                                         *)
(* The commands drop nearly every error: of reading the file, of ps, of the*)
(* signals.  Each has an action of its own, and what such a command leaves *)
(* behind is judged like what commands that overlap leave behind.          *)
(***************************************************************************)
EXTENDS Naturals, FiniteSets

CONSTANTS
  Pids,        \* process ids that come to be used
  None,        \* no pid
  ErrorsPile   \* whether errors occur also while something is already wrong

ASSUME PidsAssumption == None \notin Pids /\ ErrorsPile \in BOOLEAN

VARIABLES
  proc,     \* what the process with this pid is, see the type invariant
  old,      \* the pid whose end a start waits for
  file,     \* the pid in daemon.pid, or None
  tmp,      \* the pid in daemon.pid.tmp, or None
  shellPc,  \* the shell's command under way
  child,    \* the process in the shell's DaemonManager, or None
  shellPid, \* the pid that daemon_stop found in the file
  killPc,   \* "daemon kill": idle, wait, scan, reap
  victims,  \* the pids that it waits for
  spared,   \* ghost: the daemons that its scan is not about
  overlap   \* ghost: commands overlapped or failed since the last Settled

vars == <<proc, old, file, tmp, shellPc, child, shellPid,
          killPc, victims, spared, overlap>>

shellVars == <<shellPc, child, shellPid>>
killVars  == <<killPc, victims>>

(* boot: RunE has begun; preempt: waits for old; write, rename: in         *)
(* writePidFile; wrote: no signal handler yet; run; exit: Run returned or  *)
(* its context was cancelled; zombie: a dead child of the shell, not reaped*)
Daemon  == {"boot", "preempt", "write", "rename", "wrote", "run", "exit"}

TypeOK ==
  /\ proc \in [Pids -> Daemon \cup {"free", "zombie", "stranger"}]
  /\ old \in [Pids -> Pids \cup {None}]
  /\ file \in Pids \cup {None}
  /\ tmp \in Pids \cup {None}
  /\ shellPc \in {"idle", "spawn", "grace", "stopChild", "stopPid"}
  /\ child \in Pids \cup {None}
  /\ shellPid \in Pids \cup {None}
  /\ killPc \in {"idle", "wait", "scan", "reap"}
  /\ victims \subseteq Pids
  /\ spared \subseteq Pids
  /\ overlap \in BOOLEAN
  /\ \A p \in Pids : proc[p] = "preempt" <=> old[p] # None
  /\ \A p \in Pids : proc[p] = "zombie" => child = p
  /\ shellPc = "grace" => child # None
  /\ shellPc = "stopPid" <=> shellPid # None

Init ==
  /\ proc = [p \in Pids |-> "free"]
  /\ old = [p \in Pids |-> None]
  /\ file = None
  /\ tmp = None
  /\ shellPc = "idle"
  /\ child = None
  /\ shellPid = None
  /\ killPc = "idle"
  /\ victims = {}
  /\ spared = {}
  /\ overlap = FALSE

Daemons == {p \in Pids : proc[p] \in Daemon}

(* isProcessAlive, pid_alive: kill(pid, 0) finds zombies and strangers too.*)
Alive(p) == p # None /\ proc[p] # "free"

(* processLooksLikeOmlctl, where ps works: it shows the name of a zombie   *)
(* as well.                                                                *)
LooksLikeOmlctl(p) == proc[p] \in Daemon \cup {"zombie"}

(* What is left of p when it dies.                                         *)
Remains(p) == IF p = child THEN "zombie" ELSE "free"

(* The processes after a TERM that reaches the pids in S: before Notify-   *)
(* Context is installed the signal's default action ends the process.      *)
Term(S) ==
  [p \in Pids |->
     IF p \notin S \/ proc[p] \in {"free", "zombie", "exit"} THEN proc[p]
     ELSE IF proc[p] = "run" THEN "exit"
     ELSE Remains(p)]

(* The processes after a KILL that reaches p.                              *)
Kill(p) ==
  IF proc[p] \in {"free", "zombie"} THEN proc
                                    ELSE [proc EXCEPT ![p] = Remains(p)]

Ends(p) == proc' = [proc EXCEPT ![p] = Remains(p)]

(* Somebody waits for the end of p.                                        *)
Awaited(p) ==
  \/ \E q \in Pids : proc[q] = "preempt" /\ old[q] = p
  \/ shellPc = "stopPid" /\ shellPid = p
  \/ killPc \in {"wait", "reap"} /\ p \in victims

-----------------------------------------------------------------------------
(* omlctl daemon start *)

(* RunE begins: from a terminal, by launchd or by systemd.            *)
Start(p) ==
  /\ proc[p] = "free"
  /\ ~Awaited(p)
  /\ proc' = [proc EXCEPT ![p] = "boot"]
  /\ UNCHANGED <<file, tmp, shellVars, killVars>>

Rival(p) == file # p /\ Alive(file) /\ LooksLikeOmlctl(file)

(* Nobody to take over from: no file, an own or a dead pid, a stranger.    *)
NobodyToPreempt(p) ==
  /\ proc[p] = "boot"
  /\ ~Rival(p)
  /\ proc' = [proc EXCEPT ![p] = "write"]
  /\ UNCHANGED <<file, tmp, shellVars, killVars>>

(* Mutant: the new daemon does not wait for the old one to exit.           *)
PreemptAtOnce(p) ==
  /\ proc[p] = "boot"
  /\ Rival(p)
  /\ proc' = [Term({file}) EXCEPT ![p] = "write"]
  /\ UNCHANGED <<file, tmp, shellVars, killVars>>

(* preemptOldDaemon: TERM to the daemon in the file.                       *)
Preempt(p) ==
  /\ proc[p] = "boot"
  /\ Rival(p)
  /\ proc' = [Term({file}) EXCEPT ![p] = "preempt"]
  /\ UNCHANGED <<file, tmp, shellVars, killVars>>

PreemptDone(p) ==
  /\ proc[p] = "preempt"
  /\ ~Alive(old[p])
  /\ proc' = [proc EXCEPT ![p] = "write"]
  /\ UNCHANGED <<file, tmp, shellVars, killVars>>

(* Mutant: a daemon that hangs is waited for.                              *)
PreemptWaits(p) == FALSE /\ PreemptDone(p)

(* The 5 s are over: KILL.                                                 *)
PreemptTimeout(p) ==
  /\ proc[p] = "preempt"
  /\ Alive(old[p])
  /\ proc' = [Kill(old[p]) EXCEPT ![p] = "write"]
  /\ UNCHANGED <<file, tmp, shellVars, killVars>>

(* preemptOldDaemon does nothing about a rival: the file cannot be read, ps*)
(* fails (and the process does not look like omlctl), or TERM and KILL are *)
(* refused (it is another user's).                                         *)
PreemptSkipped(p) ==
  /\ proc[p] = "boot"
  /\ Rival(p)
  /\ proc' = [proc EXCEPT ![p] = "write"]
  /\ UNCHANGED <<file, tmp, shellVars, killVars>>

(* The KILL is refused, or takes longer than the 200 ms that follow it.    *)
PreemptInVain(p) ==
  /\ proc[p] = "preempt"
  /\ Alive(old[p])
  /\ proc' = [proc EXCEPT ![p] = "write"]
  /\ UNCHANGED <<file, tmp, shellVars, killVars>>

(* writePidFile: the temporary file, whose name all starts share.          *)
WriteTmp(p) ==
  /\ proc[p] = "write"
  /\ tmp' = p
  /\ proc' = [proc EXCEPT ![p] = "rename"]
  /\ UNCHANGED <<file, shellVars, killVars>>

Rename(p) ==
  /\ proc[p] = "rename"
  /\ tmp # None
  /\ file' = tmp
  /\ tmp' = None
  /\ proc' = [proc EXCEPT ![p] = "wrote"]
  /\ UNCHANGED <<shellVars, killVars>>

(* Another start renamed the file away: the command ends with an error,    *)
(* before its deferred removal is in place.  So does a failed write.       *)
WriteFails(p) ==
  /\ proc[p] \in {"write", "rename"}
  /\ Ends(p)
  /\ UNCHANGED <<file, tmp, shellVars, killVars>>

(* signal.NotifyContext, then daemon.Run.                                  *)
Listen(p) ==
  /\ proc[p] = "wrote"
  /\ proc' = [proc EXCEPT ![p] = "run"]
  /\ UNCHANGED <<file, tmp, shellVars, killVars>>

(* Run returns: Ctrl-C, a TERM from elsewhere, a 401 of the server.        *)
RunReturns(p) ==
  /\ proc[p] = "run"
  /\ proc' = [proc EXCEPT ![p] = "exit"]
  /\ UNCHANGED <<file, tmp, shellVars, killVars>>

(* The deferred os.Remove, whoever the file names, and the end.  A removal *)
(* that fails is a Crash at this point.                                    *)
CleanUp(p) ==
  /\ proc[p] = "exit"
  /\ file' = None
  /\ Ends(p)
  /\ UNCHANGED <<tmp, shellVars, killVars>>

(* KILL from elsewhere, out of memory, a power cut: no deferred call runs. *)
(* RunE's errors before the pid file is touched end a boot the same way.   *)
Crash(p) ==
  /\ proc[p] \in Daemon
  /\ Ends(p)
  /\ UNCHANGED <<file, tmp, shellVars, killVars>>

(* A process that is no omlctl takes a pid, or leaves.                     *)
Stranger(p) ==
  /\ \/ proc[p] = "free" /\ ~Awaited(p) /\ proc' = [proc EXCEPT ![p] = "stranger"]
     \/ proc[p] = "stranger" /\ proc' = [proc EXCEPT ![p] = "free"]
  /\ UNCHANGED <<file, tmp, shellVars, killVars>>

-----------------------------------------------------------------------------
(* omlctl daemon kill *)

(* sigTermAndWait on the pid in the file, whatever process has it now.     *)
KillRead ==
  /\ killPc = "idle"
  /\ killPc' = IF file = None THEN "scan" ELSE "wait"
  /\ victims' = {file} \ {None}
  /\ proc' = Term({file})
  /\ UNCHANGED <<file, tmp, shellVars>>

(* The file cannot be read: neither signal nor removal.                    *)
KillReadFails ==
  /\ killPc = "idle"
  /\ file # None
  /\ killPc' = "scan"
  /\ UNCHANGED <<proc, file, tmp, shellVars, victims>>

(* TERM is refused: the wait returns at once.                              *)
KillReadRefused ==
  /\ killPc = "idle"
  /\ Alive(file)
  /\ killPc' = "wait"
  /\ victims' = {file}
  /\ UNCHANGED <<proc, file, tmp, shellVars>>

(* The victim is gone or 3 s are over.  The error of os.Remove is dropped. *)
KillRemove ==
  /\ killPc = "wait"
  /\ file' \in {None, file}
  /\ killPc' = "scan"
  /\ victims' = {}
  /\ UNCHANGED <<proc, tmp, shellVars>>

(* killOmlctlByConfig: TERM to every daemon that ps shows.  Here it shows  *)
(* all of them.                                                            *)
KillScan ==
  /\ killPc = "scan"
  /\ killPc' = "reap"
  /\ victims' = Daemons
  /\ proc' = Term(Daemons)
  /\ UNCHANGED <<file, tmp, shellVars>>

(* ps fails, or shows daemons whose command line does not contain the      *)
(* config path as it was given to the command or as an absolute path: only *)
(* some are seen, maybe none.  TERM reaches some of these.                 *)
KillScanPartly ==
  /\ killPc = "scan"
  /\ killPc' = "reap"
  /\ \E seen \in SUBSET Daemons : \E reached \in SUBSET seen :
       /\ victims' = seen
       /\ proc' = Term(reached)
  /\ UNCHANGED <<file, tmp, shellVars>>

(* Mutant: nobody waits for the goroutine that sends the KILL.             *)
KillReapTermOnly(p) ==
  /\ killPc = "reap"
  /\ p \in victims
  /\ victims' = victims \ {p}
  /\ UNCHANGED <<proc, file, tmp, shellVars, killPc>>

(* The wait for one of them: it is gone, or KILL after 3 s.                *)
KillReap(p) ==
  /\ killPc = "reap"
  /\ p \in victims
  /\ victims' = victims \ {p}
  /\ proc' = Kill(p)
  /\ UNCHANGED <<file, tmp, shellVars, killPc>>

(* The KILL is refused.                                                    *)
KillReapRefused(p) ==
  /\ killPc = "reap"
  /\ p \in victims
  /\ Alive(p)
  /\ victims' = victims \ {p}
  /\ UNCHANGED <<proc, file, tmp, shellVars, killPc>>

(* The command itself ends half-way: Ctrl-C, a KILL.                       *)
KillCutShort ==
  /\ killPc # "idle"
  /\ killPc' = "idle"
  /\ victims' = {}
  /\ UNCHANGED <<proc, file, tmp, shellVars>>

(* wg.Wait returns.                                                        *)
KillEnd ==
  /\ killPc = "reap"
  /\ victims = {}
  /\ killPc' = "idle"
  /\ UNCHANGED <<proc, file, tmp, shellVars, victims>>

-----------------------------------------------------------------------------
(* The shell: its commands run on one thread, one after the other. *)

(* daemon_start: refused while the file names a process that is alive.     *)
ShellStart ==
  /\ shellPc = "idle"
  /\ ~Alive(file)
  /\ shellPc' = "spawn"
  /\ UNCHANGED <<proc, file, tmp, child, shellPid, killVars>>

(* probe_pidfile cannot read the file.                                     *)
ShellStartUnread ==
  /\ shellPc = "idle"
  /\ Alive(file)
  /\ shellPc' = "spawn"
  /\ UNCHANGED <<proc, file, tmp, child, shellPid, killVars>>

ChildRuns == child # None /\ proc[child] \in Daemon

Reaped == IF child # None /\ proc[child] = "zombie"
          THEN [proc EXCEPT ![child] = "free"] ELSE proc

(* start_inner with a child that still runs: an error.                     *)
ShellBusy ==
  /\ shellPc = "spawn"
  /\ ChildRuns
  /\ shellPc' = "idle"
  /\ UNCHANGED <<proc, file, tmp, child, shellPid, killVars>>

(* start_inner: a dead child is reaped, a new one is spawned.              *)
ShellSpawn(p) ==
  /\ shellPc = "spawn"
  /\ ~ChildRuns
  /\ proc[p] = "free" /\ ~Awaited(p)
  /\ proc' = [Reaped EXCEPT ![p] = "boot"]
  /\ child' = p
  /\ shellPc' = "grace"
  /\ UNCHANGED <<file, tmp, shellPid, killVars>>

(* The stderr file cannot be opened, or omlctl not be executed.            *)
ShellSpawnFails ==
  /\ shellPc = "spawn"
  /\ ~ChildRuns
  /\ proc' = Reaped
  /\ child' = None
  /\ shellPc' = "idle"
  /\ UNCHANGED <<file, tmp, shellPid, killVars>>

(* The 500 ms are over, or the child is dead before.                       *)
ShellGrace ==
  /\ shellPc = "grace"
  /\ shellPc' = "idle"
  /\ child' = IF ChildRuns THEN child ELSE None
  /\ proc' = Reaped
  /\ UNCHANGED <<file, tmp, shellPid, killVars>>

(* daemon_status, which the window polls: it reaps a dead child.           *)
ShellStatus ==
  /\ shellPc = "idle"
  /\ child # None /\ ~ChildRuns
  /\ proc' = Reaped
  /\ child' = None
  /\ UNCHANGED <<file, tmp, shellPc, shellPid, killVars>>

(* daemon_stop: TERM to the child.                                         *)
ShellStop ==
  /\ shellPc = "idle"
  /\ shellPc' = "stopChild"
  /\ proc' = Term({child})
  /\ UNCHANGED <<file, tmp, child, shellPid, killVars>>

(* The child is dead or killed after 3 s, and reaped; then TERM to the     *)
(* pid in the file if there is such a process.                             *)
ShellProbe ==
  LET left == IF child = None THEN proc ELSE [proc EXCEPT ![child] = "free"]
      seen == file # None /\ left[file] # "free"
  IN
  /\ shellPc = "stopChild"
  /\ proc' = IF seen THEN [left EXCEPT ![file] = Term({file})[file]] ELSE left
  /\ child' = None
  /\ shellPid' = IF seen THEN file ELSE None
  /\ shellPc' = IF seen THEN "stopPid" ELSE "idle"
  /\ UNCHANGED <<file, tmp, killVars>>

(* The TERM is refused; signal_terminate does not look.                    *)
ShellProbeRefused ==
  /\ shellPc = "stopChild"
  /\ proc' = IF child = None THEN proc ELSE [proc EXCEPT ![child] = "free"]
  /\ child' = None
  /\ file # None /\ proc'[file] # "free"
  /\ shellPid' = file
  /\ shellPc' = "stopPid"
  /\ UNCHANGED <<file, tmp, killVars>>

(* probe_pidfile cannot read the file: the command is done.                *)
ShellProbeUnread ==
  /\ shellPc = "stopChild"
  /\ proc' = IF child = None THEN proc ELSE [proc EXCEPT ![child] = "free"]
  /\ child' = None
  /\ shellPc' = "idle"
  /\ UNCHANGED <<file, tmp, shellPid, killVars>>

(* signal_terminate: dead, or KILL after 3 s; the file is removed, or      *)
(* remove_file fails.                                                      *)
ShellRemove ==
  /\ shellPc = "stopPid"
  /\ proc' = Kill(shellPid)
  /\ file' \in {None, file}
  /\ shellPid' = None
  /\ shellPc' = "idle"
  /\ UNCHANGED <<tmp, child, killVars>>

(* It lives on 100 ms after the KILL: an error, and the file stays.        *)
ShellStopFails ==
  /\ shellPc = "stopPid"
  /\ Alive(shellPid)
  /\ shellPid' = None
  /\ shellPc' = "idle"
  /\ UNCHANGED <<proc, file, tmp, child, killVars>>

(* Mutant: the dead child stays a zombie.                                  *)
ShellQuitsUnreaped ==
  /\ shellPc = "idle"
  /\ child # None
  /\ child' = None
  /\ UNCHANGED <<proc, file, tmp, shellPc, shellPid, killVars>>

(* The application is closed: its daemon goes on, with another parent.     *)
ShellQuits ==
  /\ shellPc = "idle"
  /\ child # None
  /\ proc' = Reaped
  /\ child' = None
  /\ UNCHANGED <<file, tmp, shellPc, shellPid, killVars>>
-----------------------------------------------------------------------------
(* The commands between the read of the file and the write or removal that *)
(* rests on it.                                                            *)
Starting == {p \in Pids : proc[p] \in {"preempt", "write", "rename"}}
Removing == killPc # "idle" \/ shellPc = "stopPid"

Crowded ==
  \/ \E p, q \in Starting : p # q
  \/ Starting # {} /\ Removing

(* Nothing is under way, and the file names whoever has written it.        *)
Settled ==
  /\ Starting = {} /\ ~Removing
  /\ \A p \in Pids : proc[p] \in {"wrote", "run", "exit"} => file = p

(* The local variable of preemptOldDaemon, and the two ghosts; err: an     *)
(* error that the command drops.                                           *)
Bookkeeping(err) ==
  /\ old' = [p \in Pids |-> IF proc'[p] # "preempt" THEN None
                            ELSE IF proc[p] = "preempt" THEN old[p] ELSE file]
  /\ spared' = {p \in Daemons' :
                  /\ killPc' = "reap"
                  /\ \/ killPc = "reap" /\ (p \in spared \/ proc[p] \notin Daemon)
                     \/ err /\ (killPc = "scan" \/ p \in victims) /\ p \notin victims'}
  /\ overlap' = ((overlap \/ err \/ Crowded') /\ ~Settled')

StartStep(p) ==
  \/ NobodyToPreempt(p) \/ Preempt(p) \/ PreemptDone(p) \/ PreemptTimeout(p)
  \/ WriteTmp(p) \/ Rename(p) \/ WriteFails(p) \/ Listen(p)

KillStep ==
  \/ KillRemove \/ KillScan \/ KillEnd
  \/ \E p \in Pids : KillReap(p)

ShellStep ==
  \/ ShellStartUnread \/ ShellBusy \/ ShellSpawnFails \/ ShellGrace
  \/ ShellProbe \/ ShellProbeUnread \/ ShellRemove \/ ShellStopFails
  \/ \E p \in Pids : ShellSpawn(p)

Step ==
  \/ \E p \in Pids :
       \/ Start(p) \/ StartStep(p)
       \/ RunReturns(p) \/ CleanUp(p) \/ Crash(p) \/ Stranger(p)
  \/ KillRead \/ KillStep
  \/ ShellStart \/ ShellStatus \/ ShellStop \/ ShellQuits \/ ShellStep

(* A daemon survives that should not, and the command goes on.             *)
ErrorDropped ==
  \/ \E p \in Pids : PreemptSkipped(p) \/ PreemptInVain(p) \/ KillReapRefused(p)
  \/ KillReadFails \/ KillReadRefused \/ KillScanPartly \/ KillCutShort
  \/ ShellProbeRefused

Next ==
  \/ Step /\ Bookkeeping(FALSE)
  \/ (overlap => ErrorsPile) /\ ErrorDropped /\ Bookkeeping(TRUE)

Spec == Init /\ [][Next]_vars

(* A start runs on: every wait in it has a deadline.  Nothing is assumed   *)
(* of a daemon that was told to end: it may hang.                          *)
FairStart(p) == WF_vars(StartStep(p) /\ Bookkeeping(FALSE))

-----------------------------------------------------------------------------
(* Properties *)

(* The purpose of the preemption (main.go, comment in RunE): unless two    *)
(* commands overlapped, or one could not see or signal what it should have,*)
(* since the last time that all was well, the daemon that serves is the one*)
(* daemon there is and the pid file names it -- whatever crashed, hung, was*)
(* left as a zombie or had its pid reused in between.                      *)
OneNamedDaemon ==
  ~overlap => \A p \in Pids : proc[p] \in {"wrote", "run"} => file = p

(* When "daemon kill" is through, every daemon is gone that ps showed to it*)
(* with this config path and that may be killed, also one that hangs or    *)
(* that the pid file does not name (main.go, comment on                    *)
(* killOmlctlByConfig): what is left was started since or was out of reach.*)
KillLeavesNone ==
  killPc = "reap" /\ victims = {} => Daemons \subseteq spared

(* No start waits for ever, even behind a daemon that hangs: it serves, or *)
(* it has ended.                                                           *)
StartSettles(p) ==
  proc[p] = "boot" ~>
    proc[p] \notin {"boot", "preempt", "write", "rename", "wrote"}

=============================================================================
