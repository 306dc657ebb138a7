# oh-my-lan in TLA+

oh-my-lan connects a person's machines through one relay. A Go server
(`omlserver`) keeps devices, services and forwards in SQLite, embeds a chisel
tunnel server, and manages one restricted SSH account per device. Each machine
runs a client daemon (`omlctl daemon`) that polls the server for what to publish
and what to dial. An administrator works through a web page, a Tauri shell or the
command line.

This directory models the parts whose correctness depends on the order in which
several actors do things, checks them with TLC on small instances and proves
some of the results with TLAPS for every instance.

Run a model with `tlc -config <run>.cfg <module>` (the modules are listed
below), a proof with `tlapm <module>Proofs.tla`.

## 1. Inventory

| Component | State | Operations | What is hard |
| --- | --- | --- | --- |
| Device registry (`server/device`, `server/admin`, `enroll`, `store/device.go`, `store/token.go`) | rows of `devices` and `enrollment_tokens` | issue token, enrol, kick, revoke, `omlserver device revoke` | a device lives in the database, in chisel's memory and as an SSH account; no transaction spans the three |
| chisel user index (`tunnel/server.go`) | map in memory | AddDevice, RemoveDevice, reload at start-up | lost on restart, changed from several goroutines |
| SSH accounts (`sshacct`) | `/etc/passwd`, `authorized_keys` | Provision, Lock, Delete | external commands that fail one by one; survive everything |
| SSH account reaper (`lifecycle.go`) | its list of rows | every six hours: userdel, DELETE | works from a list read earlier |
| Services and forwards (`store/service.go`, `store/forward.go`, handlers) | two tables, cascades | create, enable, disable, delete | references between devices; a lock that ends before the INSERT |
| Bootstrap (`server/device`) | none | two queries | a reply that mixes two states |
| Client daemon (`client/daemon.go`) | current specs, back-off | poll, compare, restart the tunnel, exit on 401 | lost links, listeners that outlive their session, ports that change hands |
| Presence (`lifecycle.go`, `server/bark.go`) | `status`, `last_seen_at`, `device_alert_state` | keepalive, offline reaper, alerts | three clocks (30 s, 45 s, 90 s), goroutines that outlast the state they read |
| Admin authentication (`server/auth`, `server/api`) | users, sessions, tokens, rate limiter | login, logout, middleware, session reaper, command line | slow password check between two calls on the limiter; three look-ups that fall through |
| Health prober, audit log, metrics | columns nobody reads back | periodic writes | nothing of interest |
| `omlctl daemon start`, `daemon kill` (`cmd/omlctl`), Tauri shell (`daemon.rs`, `lib.rs`) | pid file, processes, the shell's child | preempt, write, remove, signal, scan | decisions on a pid that was read a while ago; daemons that hang; zombies; pids that are reused |
| Client files (`client/state.go`, `client/sshkey.go`, `EnrollNew`) | `state.json`, key pair | generate, write, rename | an end after any step or within a write; answers that get lost |
| chisel seed (`server/keyseed.go`) | `chisel.seed` | read or create at start-up | a seed that is used before it is on disk |
| Log ring buffer (`logging/buffer.go`) | ring of lines | Add, Snapshot | wrap-around, under one mutex |
| Configuration, DTOs, web page, scripts | – | – | parsing and presentation |

Components interact by calls inside the server process (handler → store, chisel,
sshacct), by HTTP between daemon and server, by the chisel session between
daemon and relay, and by the shared database between the server and the
`omlserver` subcommands, which are processes of their own.

What makes them correct:

* **registry** – a token admits one device; an enrolled device can log in; a
  revoked one cannot, and leaves nothing behind; every exception is known;
* **tables** – no port is served twice; whatever a device is told to dial,
  exactly one device is told to serve;
* **daemon** – it ends up running what the tables say; a connection to a forward
  reaches the service that it names; a revoked device leaves;
* **presence** – a healthy device is never shown offline or reported; a silent
  one is reported, once;
* **authentication** – a void credential opens nothing; no session without its
  user; guessing is bounded;
* **daemon process** – one daemon per machine, named by the pid file; a start
  never waits for ever; `daemon kill` leaves none behind;
* **files** – the key on disk opens every account made for it; the state file is
  absent or whole; a fingerprint that was given out stays the server's.

`PROJECT.json` lists the hazards of the code line by line with the properties
that watch them.

## 2. Modules

| Module | Models | Checked in | Proofs |
| --- | --- | --- | --- |
| `DeviceRegistry` | enrolment, kick, revoke, command line, account reaper, crash and restart | `registry_safety`, `registry_reaper`, `revoked_account`, `kick_revoke_race` | `DeviceRegistryProofs` |
| `EnrollmentLedger` | what enrolment promises, in atomic steps | `registry_safety` (refinement) | `DeviceRegistryProofs` |
| `DeviceRegistryInv` | the inductive invariant | `registry_safety` | – |
| `Mesh` | services, forwards, port allocator, bootstrap queries | `mesh_daemon` | `MeshProofs` |
| `MeshDaemon` (extends `Mesh`) | daemons, chisel sessions, relay listeners | `mesh_daemon`, `mesh_converge`, `bind_address` | `MeshDaemonProofs` |
| `Presence` | keepalives, offline reaper, bark alerts, in discrete time | `presence`, `bark_blip` | `PresenceProofs` |
| `AdminAuth` | login, limiter, sessions, tokens, middleware, command line | `admin_auth` | `AdminAuthProofs` |
| `AccessControl` | what authentication promises, without look-ups, expired rows or a limiter | `admin_auth` (refinement) | `AdminAuthProofs` |
| `PidFile` | `daemon start`, `daemon kill`, the Tauri shell, the processes they signal | `pid_file` | `PidFileProofs` |
| `Credentials` | `enroll` on the client, the accounts it makes, the chisel seed and the pinned fingerprint | `client_files` | `CredentialsProofs` |
| `MC…` | symmetry sets for TLC, the process whose start is watched | | |

**Grain.** The store has one SQL connection, so a statement or a transaction is
one action; so is one call on the chisel server or the rate limiter (each takes a
mutex) and one external command. Everything between two of them may interleave.
A look-up by id that decides nothing the following statement does not decide
again is merged with it (ids are random and never come back); where the look-up
does decide something – kick reads the row and re-adds the user later, revoke
answers 404 – it is an action of its own.

**Failure.** A call whose failure leads to another state than the models' success
and crash do has an action for it: failed statements, external commands, reads,
signals, pushes, lost answers. Where the code drops an error and goes on, the
action says what it then leaves behind, and the property names that case
(`missed` in `BarkScan`, `ErrorDropped` in `PidFile`, `GenerateUnread` in
`Credentials`). Left out are errors that only change the answer or the log, and
reads within a step whose failure ends a handler as a refusal does. A client that
disconnects cancels `r.Context()`, so in a handler every later statement and
command may fail together; this is what breaks the roll-back of an enrolment.
`chisel.AddUser` fails only for a bad address pattern, and the pattern is fixed,
so that branch is left out. A crash may happen between any two steps.

**Code to model.** In `DeviceRegistry` each handler has a program counter `pc`,
its device `dev` and the enrolment it serves, `req`; the labels follow the calls
of `HandleEnrollDevice` and `HandleAdminDeviceItem` in order. `row`, `sshRow`,
`locked` and `due` are the columns `name`, `ssh_pubkey`, `ssh_locked_at` and
"`ssh_locked_at` is past the grace period"; `users` is chisel's index; `acct` is
the SSH account, *open* when `authorized_keys` holds a key. In `MeshDaemon`,
`phase` is where `Run` and `runOnce` are, `got` a reply whose first query has
been made, `run` the specs of the running chisel client, `listen` the relay's
listeners, marked `dead` when their session is gone but not yet noticed. In
`Presence` one unit of time is 15 s: the ticker of the reaper is 3, the offline
threshold 6, a poll 2; `job` is the goroutine that pushes a device's alert and
then writes its row. A device is `alive` while its daemon polls at the default
interval of 30 s: one that waits in `Run`'s back-off (up to 60 s), or whose
`reload_interval_seconds` is longer, counts as having fallen silent, and no
promise is made that it stays online. `MarkSSHLocked` is the first statement of a
revoke, which shows the device as offline whatever becomes of the DELETE. In `AdminAuth`, `at` follows `HandleLogin` and
`AuthAdminMiddleware` call by call.

In `PidFile`, `proc` is what each pid is: a daemon at some step of `RunE`
(*preempt* waits for `old`, *write* and *rename* are inside `writePidFile`,
*wrote* serves without a signal handler yet, *run* has one, *exit* is on its way
to the deferred removal), a zombie of the shell, or another program. A daemon in
*run* that gets TERM is in *exit* and may stay there for ever: it hangs. Waits of
3 s and 5 s end at any moment, because nothing bounds how long the other process
takes. What the commands do when they cannot read the file, when `ps` fails or
does not show a daemon, when a signal is refused, or when `daemon kill` itself is
interrupted are actions of their own, collected in `ErrorDropped` where a daemon
may survive by it. With `ErrorsPile = FALSE` such an error happens only while
nothing is wrong yet, which bounds the instance; the proofs do without. The
shell's commands run one after the other, as its main thread does;
`shellPc` is where the current one waits, `child` the process that it spawned and
has not reaped. The actions follow the Unix build; on Windows TERM kills, which
here is a TERM followed by a crash, and the scan by command line finds nothing.
Daemons without `--pid-file` are left out; so are `omlctl` commands other than
these, which could be taken for a daemon when they get the pid in the file.
`daemon kill` looks for the file beside the data directory, the shell beside the
configuration; in the layout that the shell sets up these are one file.

In `Credentials`, `pc` follows `EnsureSSHKey`, `EnrollNew` and `SaveState`; the
files hold a key, a device, nothing, or *Empty* after a write that was cut short
(`os.WriteFile` truncates first; each file is one block). What a power cut does
to data that was written but not synced is left out. `installed` is the server's
side: the key in the account of each device. `request` is a command's request
until the server has dealt with it; it outlives the command, so that the account
may be made when the next command is already under way. `GenerateUnread` is the
read error that `EnsureSSHKey` takes for a missing file.

**History variables** record what the properties speak of and decide nothing:
`origin`, `reply`, `revoked`, `lateUser`, `lateAcct` (registry); `told`, `late`,
`again`, `marked`, `excused`, `revoking` (presence); `stale` (authentication); `spared`, `overlap`
(pid file); `abandoned`, `overlap` (files). Some of them are excuses that a
property grants: `revoking` is a device whose revoke has begun and that has not
polled since, `spared` the daemons that a `daemon kill` could not see or kill or
that were started since, `abandoned` the keys that a read error gave up, and
`overlap` the time from two commands overlapping, or one dropping an error, until
everything is in order again.

## 3. Runs

| Run | Question and answer | Bounds |
| --- | --- | --- |
| `registry_safety` | Can access be lost or kept by mistake? Only in the listed ways (`PhantomUserExplained`, `OrphanAccountExplained`); a device told 201 stays usable; tokens are single-use; enrolment refines `EnrollmentLedger`; the invariant used in the proofs holds. | three devices, one of them already enrolled, two names, one token, two handlers, one crash |
| `registry_reaper` | Is a device reaped whose revoke failed half-way? Yes, unless new revokes keep restarting its grace period. | two enrolled devices, one handler, one crash |
| `mesh_daemon` | Are the tables consistent for their readers at every moment? Yes. Can a forward reach a wrong service? Only while a daemon is behind the tables. Who keeps a port from its daemon? A dead session, or a daemon that is behind itself. | two devices, two services on one port, two targets, one forward, two handlers, one fault |
| `mesh_converge` | Do daemons settle, do they stay, do revoked ones leave? Yes; while nothing changes, no step takes a daemon farther from its goal. | as above, one target |
| `presence` | Is a healthy device ever shown offline or reported, is a silent one shown and reported, once? No and yes, but for a device whose revoke stopped half-way, which is shown offline until its next poll; second alerts have one of the listed causes (a lost answer, a crash, a failed write or look-up of the alert row, a raised threshold). What keeps a silence from being reported? Only the alert row of an earlier one that no scan could take away in between. | one device, thresholds 30 s, 45 s and 180 s, five faults |
| `admin_auth` | Does a void credential get through? No. How many guesses? Below the limit plus the number of requests in flight. Is all of it the access control that it is meant to be? It refines `AccessControl`. | two users, two passwords, two sessions, one token, one address, two handlers, limit two |
| `pid_file` | Is the daemon that serves the only one, and named by the file? Yes, unless commands overlapped or one dropped an error since a daemon last ran alone. Does `daemon kill` leave one behind? Only what was started since its scan, what `ps` did not show with this config path, and what it may not kill. Does a start wait for ever? No. | three pids, one `daemon kill` at a time, one shell, dropped errors only while nothing is wrong (`ErrorsPile`) |
| `client_files` | Does the key on disk open every account, is the state file whole, does a fingerprint last? Yes; the first two unless two enrolments overlapped, and the first but for keys that were given up because `ssh_key.pub` could not be read. | two enrolments at a time, each again and again and each with a request on its way, three keys, three devices, two seeds |

The bounds are the smallest at which the interesting cases happen. Two handlers
are enough for every pair of operations on one device to overlap; a third one
would repeat a role. One port for two services forces every hand-over of a port
and lets two handlers be given the same one. With one forward the clause of
`ReplyIsRunnable` about local ports has nothing to compare; it is proved for any
number. Devices do not interact in `Presence` except that the reaper waits for
all pushes, and that wait is in the model for a device that is not. Three pids
are an old daemon, a new one and a third that starts or takes over a pid in
between. Three keys are one on disk and in accounts, and one in the hands of each of two
commands. The proofs remove all these bounds for safety.

Deadlock is not checked: every id, token and name is used up in the end, and a
behaviour then really stops. `MaxCrashes` and `MaxFaults` bound crashes and
faults, `MaxAge` stops the age of a silence from growing past every threshold.
Symmetry is used in safety runs only.

Four runs end in a violation; each contradicts a line of the repository quoted in
`PROJECT.json`:

* `kick_revoke_race` – a kick that overlaps a revoke brings the chisel user of
  the revoked device back. The comment says that no window is left;
* `revoked_account` – revoke deletes the row that holds `ssh_locked_at`, so the
  reaper never deletes the account;
* `bind_address` – the comparison of replies leaves `BindLocal` out;
* `bark_blip` – with a threshold shorter than the reaper's ticker a short return
  goes unnoticed and the next silence is never reported.

Other disagreements are in the models without a run of their own. A refused
enrolment may leave its row when the client has gone (`UndoRow`).
`AuthenticateDevice` (`api.go:456`) turns a store error into 401, on which a
daemon ends for good (`BootstrapUnauthorized`; `Settled` excuses such a daemon).
A threshold of 30 s leaves a healthy daemon, which polls every 30 s, no time for
the request; `PollAssumption` of `Presence` leaves such thresholds out. Two
starts that overlap both go on to serve, and a daemon that ends late removes the
pid file of its successor: `OneNamedDaemon` speaks of the times without overlap,
and `overlap` says exactly when that was. `daemon kill` and `daemon_stop` signal
whatever process has the pid. Two enrolments that overlap may leave a private key
and a public key of different pairs, which later enrolments trust. Dropped errors have worse ends than the comments say: a read error of
`ssh_key.pub` overwrites the private key of all earlier accounts
(`sshkey.go:43`), a failing `ps` lets two daemons serve or `daemon kill` find
nobody (`kill_unix.go:33`, `:43`), a config path in another spelling hides a daemon
from it (`:65`), a failing look-up sends an alert twice (`bark.go:42`), and a
revoke whose DELETE fails shows a polling device as offline (`device.go:144`). An empty
`chisel.seed`, left by a write that was cut short, makes every start fail until it
is removed. `UpdateAllowedPorts` and `SetServiceBindLocal` have no caller.

**Fairness.** `registry_reaper`: the tickers fire, the service manager restarts
the process (`scripts/deploy/oml-server.service`, `Restart=on-failure`), a handler
runs to its end, and `userdel` and `DELETE` do not fail for ever (strong fairness
of their success). `mesh_converge`: the daemon's own steps, chisel's unlimited
retries (`MaxRetryCount: -1`) and the relay noticing a dead session, all weakly
fair; faults are finite. `presence`: the clock, the reaper, its goroutines and the
restart, weakly fair; a push ends within ten seconds. `pid_file`: only the steps of a start, each of
which has a deadline in the code; a daemon that was told to end may hang, and
nothing is assumed of `daemon kill` or of the shell. One start is watched (`Observed` in
`MCPidFile`) and only its steps are assumed to go on; nothing is assumed of the
others. No fairness is assumed of
administrators or of devices that fall silent.

## 4. Proofs

`DeviceRegistryProofs` proves `IInv` (in `DeviceRegistryInv`) inductive, and from
it type correctness and the five safety properties of `registry_safety`, and the
refinement of `EnrollmentLedger`. The properties are not inductive alone.
`EnrolledDeviceUsable` needs to know that one handler at a time enrols a device
and that nobody was told of it before it answers (`EnrolmentExclusive`), that the
reaper only touches locked rows whose enrolment is over (`ReaperTargets`), and
what start-up will inject (`DownIsIdle`). `PhantomUserExplained` needs every
handler that will yet add a user for a deleted row to be on record
(`LateUserKnown`); `OrphanAccountExplained` likewise (`LateAccountKnown`).
Refinement rests on `TokensSpent` and `UnbornUnknown`: an id that is drawn is new
to the ledger too. The assumption that a request does not last seven days is the
guard of `GraceElapses`.

`MeshProofs` proves that ports, local ports and references of the tables stay
consistent, and from it `ReplyIsRunnable` and `EveryLocalIsServed`.
`MeshDaemonProofs` carries them over to the daemons. Its invariant adds that no
reply that was read asks for a port twice, however old it is (`RepliesKept`), and
that a device without a session holds only dead listeners (`Loose`).
`ForwardsReachTheirService` follows: a live listener belongs to a connected
daemon, is one of its specs, and so, if that daemon is up to date, a service of
the tables; public ports are distinct, so it is the forward's. By the same
argument a port that an up-to-date daemon waits for can only be held by a dead
listener or by a daemon that is behind (`OnlyThePastBlocks`): no two daemons wait
for each other.

What a proof can say of `DaemonsConverge` is everything but fairness. `Distance`
counts the steps that a daemon still has to take; it is compared across a step
that leaves the tables alone and is no fault. A step of one daemon leaves the
distance of every other (`OthersLeaveIt`), a step of its own lowers it
(`OwnStepApproaches`) until it is connected with what the tables say, and then it
stays (`SessionsLast`). `DaemonsApproach` and `SessionsLast` together leave to
TLC that the steps are taken: weak fairness and ENABLED.

`PresenceProofs` shows that keepalives outrun the reaper: when the ticker has run
for longer than a poll, every healthy daemon has been heard of within a poll
(`Heard`), also after an outage of the server. For `OneAlertPerSilence` it tracks
where an alert is (`Known`): under way with nobody told, or told with a row
written or about to be. `PollAssumption` is what is assumed of the intervals.
`SilentShownOffline` adds the time since the tick to the threshold (`Marked`).
`LeftoversGo` is the part of `SilenceIsReported` that needs no fairness. A row
that outlives its silence hides the next one. The device of such a row has been
heard of since the last tick (`LeftoverYoung`), because the scan of that tick took
all others away, and a row that is written after the device was back is written
before the next tick (`BackSinceTick`). The bound needs a threshold no shorter
than the ticker and a scan at every tick; `excused` is exactly the rows for which
one of the two failed, so `SilenceIsReported` holds of every other device,
whatever the number of faults.

`PidFileProofs` and `CredentialsProofs` prove the invariants behind
`OneNamedDaemon` and `KeyOpensAccounts`: which steps a command can be at while
nothing overlaps and no error is dropped, and what it then knows of the file it
read; a step of `ErrorDropped` sets `overlap`, and `Settled` alone is enough to
have the invariant back. `KillLeavesNone` needs that every daemon that is not
`spared` is still waited for (`KillCovers`). For `KeyOpensAccounts`, a request that
outlives its command carries the one public key that the file holds or an
abandoned one, so it does not matter when the server gets to it (`Pure`).

`AdminAuthProofs` strengthens the properties of `AdminAuth` with what each
handler knows at each label – a request that began with a void credential keeps
one, because credentials are never made valid again – and counts, for the
limiter's bound, the logins that passed `Allow` and have not yet failed. It also
proves that `AdminAuth` implements `AccessControl`. There a session that has
expired is no session (`GoodUntil`), the middleware is one judgement, made when
the request comes, and a password is compared with the account as it is when
the login is vouched for (`VisitOf`). The look-ups in between are stuttering steps,
and so is the session reaper. That they are rests on the invariant: a request that
`AccessControl` refused can never find a session or a token later, and an id that
is drawn is that of no expired session.

The assumptions are those named in the modules: constants are disjoint from
`None`, bounds are natural numbers, handlers are finite in number.

Only model-checked: all liveness (the prover does not do fairness or ENABLED),
that is `LockedEventuallyReaped`, `DaemonsConverge`, `RevokedDeviceLeaves`,
`SilenceIsReported` and `StartsSettle`. Every invariant, every action property and
every refinement of a passing run is proved.

## 5. Not modelled

The health prober, audit log and metrics write what nobody reads back. The log
ring buffer is one slice under one mutex. The order of RFC 3339 strings
(`session.go:40`) differs from the order of times below one second only, which no
model resolves. A composition of `DeviceRegistry` and `MeshDaemon`, in which only
a chisel user may connect, is out of TLC's reach at the sizes where either is
interesting; `Connect` lets a device without a row connect instead. The
configuration, DTOs, web page and the text of alerts and key files are parsing
and presentation. `UsernameFor` keeps eight hex digits of a device id, so two
devices share an account with probability 2⁻³² per pair; the model gives each
device its own. Argon2id, SHA-256 and random secrets are perfect. chisel is
modelled from its use.

## 6. Plan

Done, in this order: registry, tables, daemon, presence and authentication,
because access and reachability are what the system is for; then the pid file and
the files of enrolment; then proofs for all of them, the safety part of convergence
and of alerts among them, and the refinement of `AccessControl`.

Left, in the order of what they would add:

1. a composition of `DeviceRegistry` and `MeshDaemon` on abstractions of both
   small enough for TLC: who may open a session, and until when;
2. the order of RFC 3339 strings used by `expires_at > ?` and `last_seen_at < ?`
   against the order of the times they stand for;
3. `Add` and `Snapshot` of the ring buffer against "the last N lines".
