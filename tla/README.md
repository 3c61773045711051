# TabVM: specifications, model checking and proofs

TabVM is a desktop agent (Go, `src/apps/desktop-agent`) that drives Oracle
VirtualBox through `VBoxManage` and COM, and a browser UI
(`src/apps/web-ui`, React) that talks to it over HTTP and WebSockets on the
loopback interface. Almost all the state that matters is not the agent's:
VirtualBox keeps the machines, the host keeps image files and ports, and the
agent reads both with one command and changes them with a later one. What can
go wrong is therefore between the commands: another request, another job,
another program or the user acts in between; a command is killed after it took
effect; a request is cancelled; the agent quits. These specifications are about
that.

Contents: 1 inventory, 2 plan, 3 modules and their correspondence to the code,
4 runs, 5 bounds, 6 fairness, 7 proofs, 8 findings, 9 what is not modelled.

## 1. Inventory

Paths are relative to `src/apps/desktop-agent/` unless they start with `src/`.

| Component | State it keeps | Operations | Interacts with | Hard behaviours | What makes it correct |
|---|---|---|---|---|---|
| Gate and runner: `internal/vbox/gate.go`, `internal/runner/runner.go` | per-VM 1-slot channels made on first use, one global channel of slots | `runForVM`, `exec`, `acquireSlot`, `chanFor`, `RunContext` | every VBoxManage command of the agent goes through it | two nested semaphores; cancellation and a slot timeout at every wait; refused starts; kills | one command per VM, at most `maxConcurrentVBox` processes, nothing leaked, nobody stuck |
| Console ports: `internal/vbox/service.go`, `internal/store/store.go` | a persisted port per VM; VRDE settings in VirtualBox | `PrepareVmConsole`, `DisableVmConsole`, `findConsolePort` | scans every other VM; probes the host's ports | choice and assignment are separate commands; modifyvm killed after it applied; ports taken by other programs | a collision takes overlapping prepares; every candidate is in the range; the store agrees with what was configured |
| VM operations: `internal/server/server.go`, `internal/vbox/{service,snapshot,deletevm,clonevm,exportvm}.go` | per-VM mutexes (`Server.ops`) | start, save, power off, restore, delete and every other mutating handler | the gate; jobs; `main.go`'s Quit | try-lock without an owner; the state is read, then acted on; retries; an asynchronous power-off | the checked state still holds when the command is sent; every lock is released once |
| Background jobs: `internal/server/createvm.go` | the job table with outcomes and end times | `startCreateJob`, the sweep, job polling | take over the lock of the request that started them | panics, timeouts, the sweep, Quit | a job that is told running has a worker; it ends; its outcome stays until it is old |
| Creation and media: `internal/vbox/{createvm,storage,dvd,deletevm,filetransfer}.go` | image files, attachments (VirtualBox), a password file | two creates and their cleanup, `AddDisk`, `DetachDisk`, `MountDvd`, `EjectDvd`, `DeleteVM` | jobs (no VM lock), requests (with one) | eight-step creates cut off anywhere; choices of port and path used commands later; a path that stands for an image | a failed create leaves nothing, a success is whole, no disk is displaced, kept images stay |
| Screen stream: `internal/server/screenstream.go`, `internal/vmscreen/vmscreen.go` | current capturer, last frame, resolution candidate; a COM thread and a shared VM lock per capturer | stream loop, reader goroutine, `New`, `Grab`, `Send*`, `Close` | the browser; VirtualBox COM; VBoxManage outside the gate | swap of the capturer under a reader that uses it; rendezvous with a thread that stops; debounce | a lasting resolution is followed, the stream ends with either end |
| Canvas: `src/apps/web-ui/src/lib/screenTiles.ts`, `components/ScreenConsole.tsx`, `ConsolePreview.tsx` | the canvas and the tiles being decoded | message handler, `paintTiles` | the screen stream | asynchronous decoding, messages not serialised | the canvas is the last frame that was sent |
| Serial terminal: `internal/server/serialstream.go`, `internal/serialterm`, `internal/vbox/serialconsole.go` | a pipe per VM, two pumps | connect, pump, close; wiring of the port | guest, browser | a pipe with one reader; half-closed pumps; a pipe name copied by clone and import | both pumps end; one VM per pipe |
| Network: `internal/vbox/{network,portforwarding}.go` | NICs and NAT rules (VirtualBox) | mode, link, add and delete a rule | scans every other VM | the adapter, the VM's rules and those of all VMs are read by separate commands, under the lock of one VM; a failed read skips its check | what an add has read, or at least what is older than it, still holds when its command runs |
| Devices: `internal/vbox/{usb,clipboard,hardware}.go` | device settings (VirtualBox) | attach, detach, set | VM operations | live and stopped commands | the command fits the state that was read |
| Guest access: `internal/vbox/{guestcontrol,guestadditions,filetransfer,guestos,serialgetty,sharedfolder,sharedfolder_parser}.go` | credential and upload files on the host, the password's copy in the guest; shared folders (VirtualBox) | run, copy out, copy in, serial login, update and insert of the Guest Additions, add and remove a folder | VM operations; the agent's exit | a copy made by one command and removed by the next; one path in the guest for two operations; deferred removals that an exit skips; a destination checked long before it is written | no file or copy outlives its request but for a failure or an exit; no script is fed another's password; no older file is replaced |
| Parsers, telemetry: `internal/vbox/*parser*.go` | none | text to records | all reads | none: stateless | they report what VBoxManage printed |
| Store: `internal/store` | SQLite: settings, console ports, operation log | get, set, append and trim, migrate | console ports, every operation's log entry | two statements per append | the log is bounded |
| Update check: `internal/updatecheck` | a cached answer with its time | `Check` | GitHub | concurrent misses, last one wins | a newer answer is not replaced by an older |
| Launcher and agent processes: `cmd/launcher/main.go`, `main.go`, `tray_windows.go` | the loopback port, the agent's release, the session token with its file | probe, kill, wait, start, open the browser; read or make the token, bind, Quit | each other, through the port, taskkill and a file; the installer | a failed probe is taken for a stopped agent; kills that miss; two launches at once; a file that is emptied and then written | an agent of the own release stays, the tab shows the own release, a page is let in by the next agent |
| HTTP entry: token, origin, headers; configuration | a token, settings | checks of one request | everything | none across requests | |
| Web UI: hooks and views | the VM list, a refresh in flight, job polling | `useVmStatus`, polling | the agent | superseded loads, overlapping polls | a refresh shows a state after it was asked for |
| Pickers, installer, scripts | none | dialogs | | | |

The components meet in three places. A mutating request takes the lock of its
VM (VM operations), then sends commands through the gate, which orders those of
one VM again and bounds all of them; a job keeps the request's lock. VirtualBox
is shared by everything, and anyone may use it beside the agent. The agent's
process is shared too: Quit, or a taskkill, ends everything at once, and what
VirtualBox, the host and the guest hold then is found by the next agent.

Hazards are listed in `PROJECT.json`, each at its line with the properties that
would catch it.

## 2. Plan

Done, in this order, the most depended upon first:

1. `GateSpec`, `VmGate`, `VmGateProofs`: every command passes the gate.
2. `ConsolePort`, `ConsolePortProofs`: the one place where a VM's operation
   depends on all the other VMs.
3. `LockSpec`, `JobSpec`, `VmOps`, `VmOpsProofs`: locks, lifecycle and jobs.
4. `VmMedia`, `VmMediaProofs`: the only operations that destroy data.
5. `ScreenStream`: the agent's largest concurrent structure, with its browser
   end.
6. `SerialTerminal`: the pipe that a clone or an import carries to a second VM,
   and the stream with its two pumps. `StreamProofs` is about both streams of a
   tab, which share nothing; `SerialTerminal` prefixes the names the two have in
   common.
7. `PortForwarding`, `PortForwardingProofs`: adapters and NAT rules, which depend
   on all the other VMs as console ports do.
8. `VmGuest`, `VmGuestProofs`: what handles the user's password, over several
   commands and an exit of the agent.
9. `AgentLife`, `AgentLifeProofs`: the processes themselves.

Modules compose by INSTANCE, along two promises. `VmGate` implements `GateSpec`, the
gate's promise that commands of one VM do not overlap; the other modules take it as
the atomicity of their steps. `VmOps` implements `JobSpec`, which extends `LockSpec`:
what `tryLockVm` and the job table promise. The modules of operations that only use
the lock (`VmMedia`, `VmGuest`, `PortForwarding`, `SerialTerminal`) have it as the
guard `Locked` of their arrivals, and each implements `LockSpec` too (`UsesLock`):
the lock they assume is one that `LockSpec` gives, as `VmOps` does. They still live in
separate state spaces; no module has all operations at once.

Every invariant, every action property and both refinements that a passing run checks
are theorems. Worth doing next, none of it begun: a crash in the middle of `VmMedia`'s
creates; the path of an export in `VmOps`; USB on a live or a stopped VM; the update
check's cache and the list's refresh (`useVmStatus`), two small caches that concurrent
fetches fill.

## 3. Modules

Each definition's source lines are in `PROJECT.json` under `map`. Definitions
commented "Mutant:" are the code with one plausible mistake; nothing uses them
but the runs that show that a property notices.

### GateSpec, VmGate

`GateSpec` is the promise: processes start for a VM only while none exists for
it, and never above the cap. `VmGate` is the code. A *call* is a goroutine
inside `runForVM` or `exec`; its `pc` is the blocking point it is at. A channel
used as a semaphore is the number of its tokens, because that is all a send and
a receive see. `LookUp` and `Insert` are `vmLocker.chanFor`, which makes the per-VM
channel on first use: two steps, between which other calls run and only the map's
mutex (`mu`) keeps them from making a second channel. `AbandonVmWait`/`AbandonSlotWait` are
the other arms of the two `select`s, `StartCommand` covers the refused start,
`KillCancelled` the context that kills the process, `ReleaseSlot`/`ReleaseVm`
the two deferred receives, in their order.

`ImplementsPromise` is the refinement: the live processes of `VmGate` behave as
`GateSpec` allows, the cap included, which `Cap` proves on its own.

### ConsolePort

One variable per place where a port is kept: VirtualBox (`vrde`), the running
VMs that listen, other programs (`host`), the store, and the locals of the
handler (`mem`). The steps are the commands of `PrepareVmConsole`: read the own
port, read each other VM's port in any order (`ScanVm`), choose
(`findConsolePort`: the current port, the persisted one, then the probe from the
hash), enable, verify and persist. Each may fail, and modifyvm may have applied
when it fails. Prepares of different VMs interleave freely, as in the code, whose
lock is per VM; `since` remembers, for each prepare, the VMs that were given a
port by a prepare of their own after it began.

### VmOps

A thread is the goroutine of a request, and after `StartCreateJob` the
goroutine of its job, which inherits the lock. `TryLockVm` refuses rather than
waits. `NextPc` is the decision each handler makes from the state it has read;
`Effect` is what VirtualBox accepts. Operations with the same control are one:
clone and export are "copy", import and the two creates are "create", and every
handler that sends one command which leaves the power state alone is "modify".
`Leave` is every return path with its deferred unlock, and `Report` the job's
last write, after the unlock, as the deferred calls run. `Quit` and `Exit` are
`Shutdown` and `os.Exit`. `StartedOutside` is the user in VirtualBox's window.

`LockSpec` has one variable, who is at work on which VM, and says that an operation
begins only on a VM on which none is at work. `JobSpec` adds who is at work on which
job and what a poll of each job is told: an identifier in use is not given again,
what has expired is forgotten by the next start and nothing else is, and a job's
outcome is told once, by its own goroutine, when that goroutine has no VM any more,
so whoever polls and sees the end finds the VM free of that job. `ImplementsPromise`
is the refinement; the mapping takes a thread as at work on its VM from its
`tryLockVm` to its `Leave` (`AtWorkOn`) and on its job from `StartCreateJob` to
`Report` (`Workers`). Neither specification has the mutexes, so what is refined is
that an ownerless mutex (`locked`), handed from a request to its job, does the work.

### VmMedia

VirtualBox is registered VMs with ports; the host is image paths, each with the
VM its image was made for, which is what tells a VM's disk from another image
at the same path. A create goes through its steps (`OnSuccess`), and from any
failure to `cleanupFailedCreate` (`OnFailure`), which goes on whatever fails. A
request on an existing VM reads, chooses a port and a path (`Plan`), and sends
its commands. A command that fails may have been applied. `late` is the job's
expired context, `dirty` that the host itself refused a step of the cleanup, `blind`
that createvm made a VM the create never learned of (`CreateVmFails`: createvm was
killed, timed out or answered without an identifier after it had registered the VM,
and the create returns without any cleanup), `kept` remembers what a user was told, and `early` the VMs that a request named
while their create was at work: VirtualBox lists such a VM, and the create holds no
lock on it, so nothing refuses the request. Inserting the Guest Additions disc is one of
the requests: it takes an empty drive, a free bay or, last, an occupied drive
(`AdditionsTargets`), and never grows the controller.

### ScreenStream

One stream end to end. The handler's goroutine (`srv`) is at the `select`, or in
one of its arms; a second goroutine (`rdr`) reads input and uses the capturer it
loaded; each capturer (`cap`) has a COM thread that serves one rendezvous at a
time and ends when told. `Debounce` is the resolution poll's decision, `Reopen`
and `SwapDone` the swap, which waits for the old thread. Messages go to the
browser in order (`out`), whose canvas (`cli`) is cleared by a resolution and
painted tile by tile. A resolution is its number of tiles, and a tile is a
colour.

### SerialTerminal

A pipe is named after a VM, so a VM's COM1 is the VM its pipe names (`vm[v].pipe`),
or none. VirtualBox makes that pipe when the VM starts, unless another running VM
has made it (`server`), and the pipe has one `client`. A clone and an import
carry the pipe of their source (`CloneVm`, `Import`); the job of a clone then
looks at the copy and wires it (`Look`, `Wire`), best effort, with no lock on the
copy, which may be started meanwhile. `EnabledFor` is what the tab asks before it
offers a terminal. A stream is the handler (`pc`), its two goroutines (`out`,
`in`), each blocked on one end or the other, and the channel `done` the handler
waits for. `left` remembers the VMs that were left with the pipe of another (an import, a
wiring that failed) or ran before their job had wired them; nothing in the code
knows it.

### PortForwarding

VirtualBox has a mode for each adapter and a port for each rule; a rule is known
by its adapter and its name, and a port is a host port with its protocol. The
adapters there are is a constant, since the agent adds and removes none; one that
is off is in mode "other". The three requests are steps of one kind of thread,
which ends wherever the code returns. An add reads its adapter (`ReadAdapter`), the
VM's rules (`ReadOwn`; `OwnFails` goes on without them), the list of VMs (`List`)
and each other VM in any order (`Scan`; `ScanFails` skips one), then sends its
command. Two fields remember what the code does not know: `blind`, that the VM's
own rules were not read, and `older`, the VMs that have had a rule for the port
since the request arrived. Whether a command goes to a live or a stopped VM
changes its spelling only; one that no longer fits the VM fails, which every
command may do.

### VmGuest

A thread is a request with its VM's lock; `pc` is the command it is about to send,
`Steps` the commands its operation may come to. `temp` has the files on the host
(the upload, the password), `copy` says whose password lies at the one path in a
guest that the serial login and the update both use, `file` who wrote the host file
that a copy out or a write into a shared folder goes to. `Go` is every return with
its deferred removals and the unlock. A command that fails may have taken effect
(`CommandFails`), and a command run for the user is "ok" with any exit code that is
not negative, VBoxManage's own errors included (guestcontrol.go:82-88). `Exit` ends
the agent anywhere: its files stay, its commands become `orphans` that may still
take effect, and the next agent holds no lock. `late` and `cut` remember what the
code does not know: which requests had looked at the destination before it
appeared, and which copies were left by a command that failed or an agent that
ended.

What the model shows beside its properties: nothing at startup removes credential
files that an exit left; `os.WriteFile` into a shared folder replaces a file of that
name, where the copy out refuses; the update goes on when the disc could not be
inserted; the installer it starts in the guest is detached and reboots the guest
after the lock was released (`GoDown` at any time). The comment at
guestadditions.go:156-159 places the password file under %TEMP%, where the code
has used the credential directory since filetransfer.go:193.

### AgentLife

A launcher is where `main` of the launcher is, with its release and the kills it
has tried; an agent process where `main` of the agent is, with its release and its
token. `port` is the agent that listens, `file` the agent whose token the file
holds. A probe fails when nobody listens, or at any time, since 600 ms may pass
before an answer (`ProbeFails`, `AgentGone`). `KillAgentProcess` ends any of the
agents there are, since taskkill's error is ignored. `os.WriteFile` empties the
file (`TruncateToken`) and then writes it. An agent has the file's token only from a
read that succeeds and is not blank (`ReadToken`); everything else, any error of
`os.ReadFile` included, makes it go on to a new token and write it over whatever the
file holds (`ReadNothing`). `news` remembers the launchers that have not looked since
the port was taken; `mishap` that two agents were making the token together ("race")
or that one made a token because it could not read the one there was ("unread").

What the exceptions of its properties are: a launcher with an old look can kill the
agent that another launch has just started, and a launcher of an older release
replaces a newer agent; two first starts can each make a token, and the file then
has the last writer's while the winner of the port serves the other; and an agent that
cannot read the file replaces the token in it. "Stable per-machine session token"
(main.go:102) needs neither to happen.

## 4. Runs

| Run | Shows |
|---|---|
| `gate` | exclusion, from the making of a VM's channel on, and the cap (as the refinement of `GateSpec`), slot accounting; liveness of calls under three different premises |
| `console` | a VM is put on another's port only by a prepare that overlapped the other's; the store names what was configured |
| `ops` | copies are alone, the checked state holds, locks and jobs balance and end; lock and job table (as the refinement of `JobSpec`) |
| `ops_restore` (violation) | the restore is sent while the VM is still stopping |
| `media` | what failed creates leave behind, successes are whole, the password file is bounded by its create, no disk is displaced, and only a create under its VM's name can delete a kept image |
| `stream` | the canvas is the last frame; messages painted one after the other |
| `stream_live` | the stream ends with either end, a lasting resolution is followed |
| `stream_canvas` (violation) | with asynchronous decoding the canvas is not the last frame |
| `serial` | whose guest a terminal reaches, that an offered terminal has a pipe, and when handler and pumps end |
| `forwarding` | which of an add's readings still hold when its command runs |
| `guest` | where passwords and uploads may be left, whose password a script reads, which file a copy replaces, what is left of a removed folder |
| `agent` | whom a launcher kills, whose UI it opens, whether a page is let in by the next agent, and the two ways in which it is not |

A property of a passing run is broken by at least one mutant of the code it is
about, listed in `PROJECT.json`.

What the less obvious properties say:

- `SourceStaysStopped` (action): a VM enters a copy, removal or rollback only
  when it is not live, and stays so until the command ends, except for a start
  from outside. A state formula could not say the exception.
- `CallsReturn`: three statements under three premises. A call returns if commands
  end and queues serve; a cancelled call returns although commands never end; a call
  leaves a saturated cap although no slot is ever released.
- `CollisionNeedsOverlap` (action): a port scanned free, the current one and the
  persisted one are all judged against readings of other moments. The exception is
  what the code does not prevent, since its lock is per VM; it happens.
- `WorkIsOwned`, `ImplementsPromise` of `VmOps`, `EverythingEnds`: the lock map, the
  job table and the goroutines agree, through panics, sweeps and refusals; a running job is
  never swept although its end time is zero, and is told ended only after its unlock;
  no VM stays locked and no job running.
- `FailedCreateLeavesNothing`: speaks of a create that failed on any step, createvm
  itself included. The password file is gone in any case of the premise, the disk
  too, and the VM unless it is one that createvm registered without the create
  learning of it (`blind`); then that VM is all that is left. Its premise is that the
  host refused no step of the cleanup. Without `blind`, TLC finds the property
  violated at once (section 8).
- `DiskNotDisplaced`: speaks of all ports of all VMs, so it relates the port a
  request chose from an old reading to what others attached since. It,
  `CreatedIsWhole` and `OnlyNamesakesTakeKept` except the VMs that a request named
  while their create was at work (`early`), since neither request nor create knows of
  the other (storage.go:203, dvd.go:243). The exception is needed:
  without it TLC finds each of the three violated. `FailedCreateLeavesNothing`
  holds of such VMs too.
- `OnlyNamesakesTakeKept` (action): `closemedium --delete` and `unregistervm --delete`
  name a path or a VM, and `kept` is what a user was told. The one exception is the
  cleanup of a create under the same name.
- `CanvasIsCurrent`: relates the agent's `prev` to what the browser drew. It is
  what makes sending only changed tiles right.
- `OnlyLeftCopiesMislead`: the handler dials a name, so what it reaches is
  decided by which VM made the pipe of that name, which another start, clone or
  import may have changed since the tab was offered the terminal. The exception is
  what the code does not prevent: an import is never wired, a clone's wiring is
  best effort. The exceptions happen; TLC shows an import whose guest is reached
  by the terminal of the VM it was exported from.
- `StreamsEnd`: a stream whose VM has gone ends; and the handler learns from the pump
  to the guest that the tab is gone, so a guest that never takes what was typed keeps
  it, and nothing else does.
- `CopyLeftOnlyByFailure`, `OwnPasswordIsRead`: relate what lies in the guest to the
  requests and to an agent that has ended. With one exit, TLC shows the exceptions: an
  orphaned copy lands after the next agent has copied its own.
- `RemovedFolderIsGone` (action): the three scopes are separate in VirtualBox, the
  request names one, read a command earlier, and the VM may have stopped or been
  changed by an orphan since. It is stated for an agent that has ended at most once:
  an attempt to prove it without that showed that the commands two ended agents left
  running can put the folder into both scopes after the scope was chosen.
- `CurrentNotKilled`, `NoStaleTab`: relate what a launcher saw to who has the port now,
  through the deaths and starts of others; `news` names the one excuse.
- `TokenIsStable`: relates processes that never meet. A token that somebody uses is
  lost in two ways, a race of first starts and a read that fails while the file has a
  token (`mishap`); the property says that there is no third, so none by a crash
  between emptying and writing, a Quit or a lost port. TLC reaches both.
- `OnePortPerVm`, `OlderRulesKept` (actions): an add is judged at the step that
  adds the rule, against the rules of that moment, while the code judged readings of
  four different moments before it. The first rests on the VM's lock. No lock
  covers the other VMs: two adds on two VMs that overlap may both get a port, so
  the second speaks of the rules that were there before the request and have
  stayed. Each names the one reading whose failure excuses it.
- `FollowsResolution`: the debounce does not lose a change that lasts, unless
  polls or reopens keep failing.

## 5. Bounds

| Bound | Value | Why it is enough |
|---|---|---|
| calls, VMs, cap of the gate | 3, 1, 2 (4 in the code) | one call holds the VM, one the other slot, one waits at either layer. A call without a VM competes for the cap as calls on other VMs do. The proofs have no bound |
| console ports | 2 VMs, 2 ports (1000 in the code), one hash for both | equal hashes are the worst start of the probe; two ports wrap and fill. The proofs have no bound |
| threads, VMs, jobs of VmOps | 2, 1, 2 | VMs share only the job table; a second job exists while the first is swept. `JobBound` keeps a request from running out of identifiers, which are random in the code. The proofs have no bound |
| `MaxAttempts` | 2 (3 in the code) | one retry and its end |
| `Expire` | at any time after the end | stands for the hour of `createJobRetention` |
| `MaxExtra`, `MaxPorts` | 1 (1000 in the code), 3 (30 in VirtualBox) | one additional disk; a create's two ports and one to grow by |
| threads, VMs of VmMedia | 2, 2 | a create and a request, on its VM or another, or two creates under one name: 2.6 million states. The proofs have no bound |
| threads, VMs, exits of VmGuest | 2, 2, 1 | the requests (`OnTwo`) are one of each control flow on one VM (running a command, copying in, updating the Guest Additions as a user, adding and removing a folder) and copies out of another, so that two requests share the host file: 2.1 million states. The serial login differs from an update by its first command only, and root's requests take the path of a run. One exit leaves commands that meet one later agent. The proofs have no bound |
| launches, agents, releases of AgentLife | 2, 3, 2 | each launch starts one agent, and the third is the one from before or one that has ended; two releases replace each other. An agent process is used once, so three is also how many there ever are, and a launch begins only while one is left for it. The proofs have no bound |
| VMs, adapters of PortForwarding | 3, of which one has two adapters | the VM that is changed, one that can be read and one that cannot; a port taken on another adapter. One name, one port: other names and ports do not meet. The proofs have no bound |
| requests of PortForwarding | 2 | an add and whatever changes what it has read |
| capturers, sizes, colours | 2, {1, 2}, 2 (1 in `stream_live`) | current and successor; a change and a change back; an old and a new content. The proofs have no bound |
| VMs, threads, streams of SerialTerminal | 2, 2, 1 | a VM and a copy with its pipe; one thread clones, the other wires a port or unwires it (`CopyAndPort`), be it that of the source or of the copy. A second stream would only find the pipe busy, which `DialFails` covers. The proofs have no bound |
| `MaxQueue` | 1 | a second message waits in the writer. The proofs are for any |
| `SlowDecode` | FALSE but in `stream_canvas` | FALSE is a browser that finishes a message first; the difference is the finding |

Threads and calls are reused: a behaviour has unboundedly many requests, only
their overlap is bounded. The runs with `CHECK_DEADLOCK FALSE` are those where
the system may really stop: the agent has exited, VirtualBox has no identifier
left for a new VM, or the stream has ended; and `forwarding`, whose specification
has no liveness, and `guest` and `agent`, which are bounded by exits and processes.

## 6. Fairness

- `VmGate`: weak fairness of what a goroutine does on its own, and strong fairness of
  taking the map's mutex, since a `sync.Mutex` is handed to a goroutine that has waited
  too long. Three premises
  are left to the properties that need them: `CommandsEnd` (the runner puts a
  timeout on every command), `QueuesServe` (strong fairness of the two
  acquisitions: blocked senders of a Go channel are served in order) and
  `TimersFire`. `EveryCallReturns` needs the first two; `CancelledCallReturns`
  and `SaturatedCapIsLeft` must not assume that commands end, and do not.
- `VmOps`: weak fairness of a handler's next step, because each
  command and each wait has a timeout. Arrivals, the guest and Quit have none.
- `ScreenStream`: weak fairness of the goroutines, the COM threads and the
  browser's event loop; strong fairness of the cases of a `select` and of the
  rendezvous with a COM thread, since Go chooses at random among ready cases and
  serves waiting senders in order. It assumes that VBoxManage and COM calls end;
  the two VBoxManage commands of the stream have no timeout in the code, which is
  a listed hazard.
- `SerialTerminal`: weak fairness of the handler and of either pump. The guest
  need not speak or read, and the user need not type or close the tab: an open
  terminal may stay for ever.
- `ConsolePort`, `VmMedia`, `PortForwarding`, `VmGuest`, `AgentLife`: none; every
  property of theirs is about what a step may not do.

## 7. Proofs

Checked by TLAPS for every value of the constants that satisfies the named
assumptions, which are those of the modules (finite calls, a cap of at least
one, a non-empty port range with the hash inside it, at least one attempt, and
that the "none" values are none of the others). No other assumption is made.

**VmGateProofs.** `GateInv` is the inductive invariant. `OneCommandPerVm` is
not inductive: a channel is a count, so nothing in the state says who owns a
token. The chain is: what a call has read of the map is still so when it inserts,
because the mutex is its own (`MapLocked`), so distinct VMs have distinct channels
(`ChannelsDistinct`),
a call inside holds the channel of its own target (`ChannelOfTarget`), a token
is there exactly while some call owns it (`TokensOwned`) and only one does
(`OneOwner`); and the global count is the number of its owners
(`SlotsCounted`), from which the cap follows by cardinality. Theorems:
`GateCorrect`, `TypeCorrect`, `SlotsBalance`, `MutualExclusion`, `Cap`, and
`Implements`, the refinement of `GateSpec` step by step.

**ConsolePortProofs.** `TypeCorrect`: every candidate is in the range
(`CandidateInRange`). `CollisionsNeedOverlap` rests on `ScanIsFresh`: what a prepare
has scanned is still so of every VM that is not in its `since`, whether or not
prepares overlap. It assumes nothing about how they do. `StoreIsTrue` needs one more
fact, `SetStays`: between the enabling of a port and its verification nothing else
sets the VM's port, since a disable of the same VM waits for its lock.

**VmOpsProofs.** `Inv` ties the ownerless mutexes to threads: at most one
thread is between `tryLockVm` and unlock of a VM (`Exclusive`), and the VM is
locked exactly while there is one (`HeldIsLocked`, `NoLeakedLock`); and the job
table to goroutines (`JobsTold`, `RunningJobHasWorker`). From it `TypeCorrect`,
`WorkHasOwner`, `CopiesAreAlone`, and two action properties:
`SourcesStayStopped`, whose argument is that whoever has the VM's lock is the
only one whose command can start it, and `JobsKeepTheirHistory`.

`Implements` is the refinement of `JobSpec`, step by step. What `JobSpec` sees of a
state is `Seen`; `NotSeen` is a step within an operation. Each of the others has a
lemma: a `tryLockVm` that succeeds is `Lock` (`TryLockIsLock`), for the VM's mutex is
free only if nobody is at work on it (`HeldIsLocked`); a return is `Release`
(`LeaveIsRelease`), a start of a job is `StartJob`, since the identifiers are the
job table's and `JobsTold` says who works on them; and `Report` is `EndJob`, since
`Leave` has released the VM before (`ReportIsEndJob`).

**The lock in the modules that use it.** `GuestLocks`, `ForwardingLocks`,
`SerialLocks` and `MediaLocks` show `Spec => UsesLock`, the refinement of `LockSpec`
by what each module's threads are at work on. An arrival is `TryLock`, by its guard;
any other step keeps the thread's VM, so it is a stutter or `Unlock`
(`MoveUnlocks`); an exit (`VmGuest`) is `AllEnd`. They need the invariants for
the VM of a thread at work to be a VM, and in `VmMedia` for a create, which has no
lock, not to become a request that has one (`Shape`).

**VmMediaProofs.** `Inv` adds to the types what they rest on: a port that an
operation chose exists or is the one its controller grows by, and the image it
will create or has detached is a real path (`Chosen`), and a registered VM has a
name for `nextDiskPath` to build on (`Named`); and it holds `CredentialLifetime`
itself, which is inductive with the types. `GoKeeps` and `MoveKeeps` carry the
threads' part of every step, `AppliedTyped` VirtualBox's. From `MediaCorrect`
follow `TypeCorrect` and `CredentialsRemoved`: on no path out of a create, timed
out or failing, is the password file left.

The properties that relate images, ports and threads rest on a second invariant,
`ImagesInv`. None of them is inductive, because each judges an effect by what a
thread has decided several commands before: a create that deletes an image must
know that the image is one it made, an attach that the port it chose is still
free. The parts follow that:

- `Shape`: a thread takes the steps of its operation. `Machines`: names are
  unique among registered VMs, an attached image bears its VM's name and is in one
  port. `Files`: an image was made for a VM of its name.
- `Alone`: two threads are at work on a VM only if it was named early, and never
  two creates. It is what makes the others inductive, and where `early` enters.
- `Paired`, `ReadHolds`, `PortsEnd`: a thread's image bears its VM's name; what a
  request read still holds when it acts; ports past the controller's end are free.
- `CreateHolds`, `CleanupHolds`: how far a create, or its cleanup, has come.
- `Claims`: an image that a VM holds, or that a thread is about to attach or
  detach, was made for that VM or nobody. `KeptApart`: a kept image is in no port
  and in the hands of no thread that would attach, remove or take it for its own.

`Kinds` reduces every step to one of seven effects (`Started`, `Chose`, `Quiet`,
`Ran`, `Made`, `NotMade`, `Removed`), so each part has one lemma with one case per
effect instead of one per action and operation. From it `ImagesCorrect`,
`FailedCreateCleansUp` (with the password file from `Inv`), `CreatesAreWhole`, `DisksAreNotDisplaced`,
`KeptImagesStay`, for any number of VMs and threads, any ports and any number of
disks.

**StreamProofs, the serial terminal.** `SerialInv` adds to the types: a VM has
made a pipe only while it runs (`ServedWhileOn`); the client of a pipe dialled its
name and has not hung up (`ClientOfPipe`); a job knows its copy exactly while it
looks at it or wires it (`CopiesKnown`); and a VM with the pipe of another is off
and waits for its job, or was left with it (`ForeignIsLeft`). With them
`OfferedIsServed` is inductive, and `OthersAreNotReached` follows from the client's
pipe being the one it dialled. Theorems: `SerialCorrect`, `SerialTyped`,
`OthersAreNotReached`, `OfferedPipesAreMade`.

**StreamProofs, the screen stream.** `StreamInv` adds to the types what the handler,
its reader and the COM threads hold of one another (`InUse`: the current capturer
has its lock and is not told to close before the handler leaves it; a thread that
works is waited for) and that the last frame is one of the current capturer
(`Compared`), from which `ScreenTyped`. `CanvasIsCurrent` speaks of the moments when
nothing is on its way; the invariant must speak of all of them. `Converges` says
what the canvas *will* be: `EndSize` and `EndTile` give the size it has, and the
colour of each tile, when all messages of the queue and all tiles being decoded are
handled, and these are those of the last frame, but for the tiles still to be sent.
They say it without recursion, by the last message that sets the size or the tile.
A write adds a last message (`AppendEnds`), the browser takes the first
(`MessageCanvas`) or paints a tile (`PaintCanvas`), and a grab changes exactly the
tiles it then sends (`GrabCanvas`). `CanvasStaysCurrent` has one hypothesis,
`~SlowDecode`: a browser that finishes a message before it reads the next. It is
needed, since `stream_canvas` is the counterexample without it, and the run `stream`
has it too.

**PortForwardingProofs.** `Inv` adds to the types that a VM has one request at a
time (`Exclusive`), that a request is on an adapter of its VM (`Addressed`), and
that what an add has read still holds (`ReadsHold`): the mode once it is past
`ReadAdapter`, the free port once it is past `ReadOwn` and not blind, and that the
older rules it has not seen are on VMs yet to be scanned or not readable.
`CommandKeeps` is the heart: a command changes its own VM only, which by
`Exclusive` is no other request's. `AddsByCommand` says that the step that adds a
rule is the command of an add of that rule, and the three action properties follow
from the invariant in the state before it. Theorems: `ForwardingCorrect`,
`TypeCorrect`, `RulesAreOnNat`, `PortsAreDistinct`, `OlderRulesStay`.

**VmGuestProofs.** `Inv` adds to the types and the three invariants that requests have
a VM to themselves (`LockExclusive`) and that a destination that exists now appeared
after its request had looked (`Watched`). `StepTables` is what each operation may come
to, `AppliedFacts` what a command changes, `GoFacts` what going on does; `StepInv`
joins them for the steps of a request and `OtherInv` for everything else. Theorems:
`GuestCorrect`, `TypeCorrect`, `HostFilesRemoved`, `CopiesAreRemoved`,
`PasswordsAreNotMixed`, `OlderFilesAreKept`, for any number of exits. For
`FoldersAreRemoved`, `Folders` adds that a folder of the session needs a VM that
runs (`SessionRuns`), that one ended agent leaves at most one command on a VM
(`OneOrphan`), and that while a removal is to take the session's folder and the
machine has one too, the session's is gone already and no command is left that would
add one (`ScopeHolds`).

**AgentLifeProofs.** `Inv` adds that a launcher kills at most twice (`KillsCounted`)
and that, as long as no `mishap` happened, whoever makes the token is alone and there
is none in the file (`MakesAlone`). `TokenIsStable` is not inductive without the
latter: a second maker would empty the file under an agent that serves. Theorems: `LifeCorrect`,
`TypeCorrect`, `CurrentAgentsStay`, `TabsAreCurrent`, `TokensAreStable`.

Only model-checked: the liveness properties, `CallsReturn`, `EverythingEnds`,
`StreamEnds`, `FollowsResolution` and `StreamsEnd` (fairness and ENABLED are out of
the prover's reach), and the two properties that violation runs refute.

What the proofs found of the model, now corrected: `RemovedFolderIsGone` without a
bound on exits was false; the failure steps of `VmMedia` had two overlapping arms
for one command; and the run of `VmMedia` used to forbid requests on a VM that is
still being created, where the code allows them, so that the properties are now
stated with the exception they need.

## 8. Findings

Two violation runs, each a comment in the code against what the code does; the
quotations are in `PROJECT.json`.

- Restore: `vmStateIsLive` does not list "stopping", so the wait for the
  power-off ends early (sharedfolder.go:170, snapshot.go:176).
- Canvas: tiles of successive messages are drawn in decoding order
  (screenTiles.ts:21, screenstream.go:360).

More are the exceptions that a passing property names, and TLC reaches each of them:

- Console ports: two VMs prepared at once get one port, while service.go:764-766
  says that the scan "avoids assigning a port that would collide with another VM's"
  (`CollisionNeedsOverlap`).
- Kept images: `cleanupFailedCreate` decides by path and deletes an image a user
  detached and kept, when a create under the name of its VM fails before making its
  own disk; storage.go:382-383 calls the detach "fully reversible"
  (`OnlyNamesakesTakeKept`).
- A VM left by createvm: a create whose `createvm --register` was killed, timed out or
  printed no identifier after VirtualBox had registered the VM returns without cleanup
  (createvm.go:135-143, 231-239), and the VM stays, under a name that every later
  create is then refused, while createvm.go:283-284 has the cleanup undo "a create that
  failed after `createvm --register` succeeded" (`FailedCreateLeavesNothing`, `blind`).
- A token that cannot be read: an agent for which `os.ReadFile` fails while the file
  holds a token, because it is locked or denied, makes another and writes it over the
  first (main.go:119-134), so the pages of earlier agents are refused without any race,
  while main.go:102 speaks of a "stable per-machine session token" (`TokenIsStable`,
  `mishap`); two first starts that race are the other way to it.
- Requests during a create: nothing refuses a request on a VM that VirtualBox lists
  and whose create is still at work, and the two may choose one port, while
  storage.go:175-176 attaches to "a free SATA port" (`DiskNotDisplaced`,
  `CreatedIsWhole`, `early`).

And some that no run shows, because a model says no more than the lines do. Quit
waits for requests, five seconds at most, and not for jobs, while main.go:81-83
says that Shutdown lets the command in flight finish. Overlapping adds of one host
port on two VMs are both made; the comment at portforwarding.go:172-175 calls the
check best effort. When the cleanup's unregister fails and the VM stays registered,
the cleanup goes on to delete the image that VM boots from: closemedium is refused
while the image is attached, the direct removal (createvm.go:308-313) is not, although
the comment at 302-303 takes an image that survived to be one that was never attached.
The session lock of a capturer is released after Close has returned (vmscreen.go:221,
129). After a console port was enabled and its verification failed, the store keeps the
older port. A command run in the guest is reported finished when VBoxManage
itself failed with a positive code, while guestcontrol.go:82-86 speaks of the guest's.

## 9. What is not modelled

- Text: parsers, arguments, messages, logging, JPEG and the wire format. What
  a parser decides (is the VM live, which port) is modelled by what it decides.
- In `VmOps`: what a clone does to the new VM, snapshots as a tree, the path of
  an export. In `VmMedia`: `ResizeDisk`, hardware settings, the serial port of a
  new VM, and Quit in the middle of a create. A create whose disk path cannot be made
  out (vmDiskPath) goes to the cleanup with an empty path; that is the failure of
  `modifyvm`, after which there is no image either.
- In `SerialTerminal`: the bytes and the deletion of a VM.
- In `VmGuest`: the parts of a multipart upload that net/http spools, what is inside
  the guest but the password's copy, a second shared folder, and the gate.
- In `AgentLife`: a foreign program on the port, the log, and liveness: a launch may
  be given up at any wait.
- In `ConsolePort`: the status response. In `ScreenStream`: the kinds of input,
  the periodic redraw, which changes nothing the properties see, and a capturer
  that fails after it locked the VM, which unlocks it at once.
- `PortForwarding` takes the rules of a VM to be readable whatever the mode of their
  adapter is. The code reads them from `showvminfo` and nothing in the repository says
  whether it lists the rules of an adapter that is not on NAT; if it does not, an add
  does not see them either, and `OnePortPerVm` and `OlderRulesKept` hold of the rules
  on NAT adapters only.
- In `PortForwarding`: the cable of an adapter, the host interface of a mode, and
  modes and rules changed in VirtualBox's window.
- Components without a module: USB, clipboard and hardware (a read, a check and one
  command each, which `VmOps` has as the operation that leaves the power state alone);
  the update check (a cache of one answer, shown and not acted on); the rest of the
  store (migrations at startup, a log nobody reads back); telemetry and parsers, the
  HTTP entry, pickers and the installer (no state across requests); and the Web UI's
  hooks, which the next poll corrects. `PROJECT.json` gives the reason for each.
