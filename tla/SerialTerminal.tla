--------------------------- MODULE SerialTerminal ---------------------------
(***************************************************************************)
(* The serial terminal: which host pipe a VM's COM1 is wired to            *)
(* (internal/vbox/serialconsole.go), how a copy of a VM comes by its own   *)
(* (clonevm.go), and the stream between that pipe and the browser          *)
(* (internal/server/serialstream.go, internal/serialterm, and              *)
(* web-ui/src/components/TerminalTab.tsx, SerialTerminal.tsx).             *)
(*                                                                         *)
(* A pipe is named after a VM.  VirtualBox creates the pipe that a VM's    *)
(* settings name when the VM starts, unless it exists, and serves one      *)
(* client.  Bytes, the login inside the guest and the emulation in the     *)
(* browser are left out.                                                   *)
(***************************************************************************)
EXTENDS Integers

CONSTANTS
  Vms, NoVm,         \* VMs; the name of a pipe is that of its VM
  Streams, NoStream, \* terminals of the browser with their handlers
  Threads,           \* requests, and the job of a clone
  Requests           \* which operations each of them asks for

Ops == {"enable", "disable", "clone"}

ASSUME NoVmAssumption     == NoVm \notin Vms
ASSUME NoStreamAssumption == NoStream \notin Streams
ASSUME RequestsAssumption == Requests \subseteq Threads \X Ops

VARIABLES
  vm,  \* VirtualBox: each VM, its COM1 and the client of the pipe it made
  thr, \* where each request or job is
  str, \* each stream: the tab, the handler and its two pumps
  left \* VMs left with the pipe of another: nothing wired them, or they ran before

\* Names are prefixed where ScreenStream has them: StreamProofs is about both.
serialVars == <<vm, thr, str, left>>

\* pipe is NoVm while the port is off; server while the VM made its pipe.
Vm     == [st : {"absent", "off", "on"}, pipe : Vms \cup {NoVm},
           server : BOOLEAN, client : Streams \cup {NoStream}]
Off(p) == [st |-> "off", pipe |-> p, server |-> FALSE, client |-> NoStream]
Absent == [Off(NoVm) EXCEPT !.st = "absent"]

Thread == [op : Ops \cup {"none"}, pc : {"idle", "read", "modify", "clone", "look", "wire"},
           vm : Vms \cup {NoVm}, new : Vms \cup {NoVm}]
Idle   == [op |-> "none", pc |-> "idle", vm |-> NoVm, new |-> NoVm]

\* out is the pump to the browser, in the pump to the guest, done its channel.
Stream == [pc : {"none", "dial", "upgrade", "run", "closed"}, vm : Vms \cup {NoVm},
           tab : BOOLEAN, out : {"read", "write", "end"}, in : {"read", "write", "end"},
           done : BOOLEAN]
UnusedStream == [pc |-> "none", vm |-> NoVm, tab |-> FALSE, out |-> "end", in |-> "end",
           done |-> FALSE]

-----------------------------------------------------------------------------

Active(t) == thr[t].pc # "idle"

\* tryLockVm would fail.
Locked(v) == \E t \in Threads : Active(t) /\ thr[t].vm = v

\* v is a copy whose job has not ended.
Copying(v) == \E t \in Threads : Active(t) /\ thr[t].new = v

\* parseSerialConsole
Wired(v) == vm[v].pipe # NoVm

\* The pipe is that of another VM.
Foreign(v, p) == p \notin {v, NoVm}

\* Mutant: any port that is wired counts.
EnabledForAnyPipe(v) == Wired(v)

\* serialConsoleEnabledFor: wired to the pipe that the terminal of v dials.
EnabledFor(v) == vm[v].pipe = v

\* The pipe named after v exists: w made it.
Serves(w, v) == vm[w].st = "on" /\ vm[w].server /\ vm[w].pipe = v

Connected(s) == \E v \in Vms : vm[v].client = s

Ended(s) == str[s].pc \in {"none", "closed"} /\ str[s].out = "end" /\ str[s].in = "end"

SerialInit ==
  /\ vm \in [Vms -> {Absent, Off(NoVm)} \cup {Off(v) : v \in Vms}]
  /\ \A v \in Vms : vm[v].pipe \in {v, NoVm}
  /\ thr = [t \in Threads |-> Idle]
  /\ str = [s \in Streams |-> UnusedStream]
  /\ left = {}

-----------------------------------------------------------------------------

(***************************************************************************)
(* Requests and the job of a clone.                                        *)
(***************************************************************************)
At(t, pc) == thr' = [thr EXCEPT ![t] = IF pc = "idle" THEN Idle ELSE [thr[t] EXCEPT !.pc = pc]]

Arrive(t, op, v) ==
  /\ ~Active(t)
  /\ <<t, op>> \in Requests /\ vm[v].st # "absent" /\ ~Locked(v)
  /\ thr' = [thr EXCEPT ![t] = [op |-> op, pc |-> "read", vm |-> v, new |-> NoVm]]
  /\ UNCHANGED <<vm, str, left>>

\* showvminfo: the VM is powered off (and for "enable", runs Linux).
Read(t) ==
  /\ thr[t].pc = "read"
  /\ vm[thr[t].vm].st = "off"
  /\ At(t, IF thr[t].op = "clone" THEN "clone" ELSE "modify")
  /\ UNCHANGED <<vm, str, left>>

\* It is not, or the command fails.
Refused(t) ==
  /\ thr[t].pc = "read"
  /\ At(t, "idle")
  /\ UNCHANGED <<vm, str, left>>

\* modifyvm: VirtualBox refuses it while the VM runs.
Modified(v, p) ==
  /\ vm[v].st = "off"
  /\ vm' = [vm EXCEPT ![v] = [vm[v] EXCEPT !.pipe = p]]

\* Mutant: the port is wired to a pipe named "off".
PortForOff(t) == IF thr[t].op = "enable" THEN thr[t].vm ELSE "off"

\* enableSerialConsoleArgs, disableSerialConsoleArgs
PortFor(t) == IF thr[t].op = "enable" THEN thr[t].vm ELSE NoVm

Modify(t) ==
  /\ thr[t].pc = "modify"
  /\ Modified(thr[t].vm, PortFor(t))
  /\ At(t, "idle")
  /\ UNCHANGED <<str, left>>

ModifyFails(t) ==
  /\ thr[t].pc = "modify"
  /\ At(t, "idle")
  /\ UNCHANGED <<vm, str, left>>

\* A VM that nothing wires is registered with pipe p.
Appears(v, p) ==
  /\ vm[v].st = "absent"
  /\ vm' = [vm EXCEPT ![v] = Off(p)]
  /\ left' = IF Foreign(v, p) THEN left \cup {v} ELSE left

\* clonevm: the copy carries the pipe of its source.
CloneVm(t) ==
  /\ thr[t].pc = "clone"
  /\ vm[thr[t].vm].st = "off"
  /\ \E v \in Vms :
       /\ vm[v].st = "absent"
       /\ vm' = [vm EXCEPT ![v] = Off(vm[thr[t].vm].pipe)]
       /\ thr' = [thr EXCEPT ![t] = [thr[t] EXCEPT !.pc = "look", !.new = v]]
  /\ UNCHANGED <<str, left>>

\* It fails, or is cut off when the copy is there already.
CloneFails(t) ==
  /\ thr[t].pc = "clone"
  /\ \/ UNCHANGED <<vm, left>>
     \/ \E v \in Vms : Appears(v, vm[thr[t].vm].pipe)
  /\ At(t, "idle")
  /\ UNCHANGED str

\* Mutant: a port wired to another machine's pipe counts as not wired.
LookForOwn(t) ==
  /\ thr[t].pc = "look"
  /\ At(t, IF EnabledFor(thr[t].new) THEN "wire" ELSE "idle")
  /\ UNCHANGED <<vm, str, left>>

\* resolveVmUUID, and the copy is read: without a serial port there is nothing to wire.
Look(t) ==
  /\ thr[t].pc = "look"
  /\ At(t, IF Wired(thr[t].new) THEN "wire" ELSE "idle")
  /\ UNCHANGED <<vm, str, left>>

\* wireSerialConsole
Wire(t) ==
  /\ thr[t].pc = "wire"
  /\ Modified(thr[t].new, thr[t].new)
  /\ At(t, "idle")
  /\ UNCHANGED <<str, left>>

\* A failure on the way, be it that the copy was started meanwhile, is logged at
\* most and leaves the copy as it is.
StepFails(t) ==
  /\ thr[t].pc \in {"look", "wire"}
  /\ left' = IF Foreign(thr[t].new, vm[thr[t].new].pipe) THEN left \cup {thr[t].new} ELSE left
  /\ At(t, "idle")
  /\ UNCHANGED <<vm, str>>

\* ImportAppliance, or VirtualBox itself: a VM arrives with the pipe of the VM
\* it was exported from.  Nothing wires it.
Import(v, p) ==
  /\ Appears(v, p)
  /\ UNCHANGED <<thr, str>>

(***************************************************************************)
(* VirtualBox and the guests.                                              *)
(***************************************************************************)
\* A VM that finds its pipe taken runs without one (or is refused).  A copy may be
\* started before its job has wired it.
Start(v) ==
  /\ vm[v].st = "off"
  /\ vm' = [vm EXCEPT ![v] = [vm[v] EXCEPT !.st = "on",
              !.server = Wired(v) /\ \A w \in Vms : ~Serves(w, vm[v].pipe)]]
  /\ left' = IF Copying(v) /\ Foreign(v, vm[v].pipe) THEN left \cup {v} ELSE left
  /\ UNCHANGED <<thr, str>>

Stop(v) ==
  /\ vm[v].st = "on"
  /\ vm' = [vm EXCEPT ![v] = Off(vm[v].pipe)]
  /\ UNCHANGED <<thr, str, left>>

-----------------------------------------------------------------------------

(***************************************************************************)
(* A stream: the tab and the handler.                                      *)
(***************************************************************************)
\* The tab has read the status of v and mounts the terminal; what the status
\* said may no longer hold when the request is served.
OpenTerminal(s, v) ==
  /\ Ended(s)
  /\ vm[v].st = "on" /\ EnabledFor(v)
  /\ str' = [str EXCEPT ![s] = [UnusedStream EXCEPT !.pc = "dial", !.vm = v, !.tab = TRUE]]
  /\ UNCHANGED <<vm, thr, left>>

\* The tab is closed or the socket breaks.
CloseTerminal(s) ==
  /\ str[s].tab
  /\ str' = [str EXCEPT ![s].tab = FALSE]
  /\ UNCHANGED <<vm, thr, left>>

\* serialterm.Dial: the pipe named after the VM, whoever made it.
Dial(s) ==
  /\ str[s].pc = "dial"
  /\ \E v \in Vms :
       /\ Serves(v, str[s].vm) /\ vm[v].client = NoStream
       /\ vm' = [vm EXCEPT ![v] = [vm[v] EXCEPT !.client = s]]
  /\ str' = [str EXCEPT ![s].pc = "upgrade"]
  /\ UNCHANGED <<thr, left>>

\* There is none, or it stays busy for dialTimeout.
DialFails(s) ==
  /\ str[s].pc = "dial"
  /\ str' = [str EXCEPT ![s].pc = "closed", ![s].tab = FALSE]
  /\ UNCHANGED <<vm, thr, left>>

\* pipe.Close
Hangup(s) ==
  vm' = [v \in Vms |-> IF vm[v].client = s THEN [vm[v] EXCEPT !.client = NoStream] ELSE vm[v]]

UpgradeSocket(s) ==
  /\ str[s].pc = "upgrade" /\ str[s].tab
  /\ str' = [str EXCEPT ![s].pc = "run", ![s].out = "read", ![s].in = "read"]
  /\ UNCHANGED <<vm, thr, left>>

UpgradeSocketFails(s) ==
  /\ str[s].pc = "upgrade"
  /\ Hangup(s)
  /\ str' = [str EXCEPT ![s].pc = "closed", ![s].tab = FALSE]
  /\ UNCHANGED <<thr, left>>

\* Mutant: the socket is not closed when the handler returns.
ReturnLeavesSocket(s) ==
  /\ str[s].pc = "run" /\ str[s].done
  /\ str[s].in = "end"
  /\ Hangup(s)
  /\ str' = [str EXCEPT ![s].pc = "closed", ![s].tab = FALSE]
  /\ UNCHANGED <<thr, left>>

\* <-done: the handler returns and closes both ends.
Return(s) ==
  /\ str[s].pc = "run" /\ str[s].done
  /\ Hangup(s)
  /\ str' = [str EXCEPT ![s].pc = "closed", ![s].tab = FALSE]
  /\ UNCHANGED <<thr, left>>

(***************************************************************************)
(* The pump to the browser, blocked in pipe.Read or in conn.WriteMessage.  *)
(***************************************************************************)
SocketOpen(s) == str[s].pc = "run" /\ str[s].tab

GuestSpeaks(s) ==
  /\ str[s].out = "read" /\ Connected(s)
  /\ str' = [str EXCEPT ![s].out = "write"]
  /\ UNCHANGED <<vm, thr, left>>

OutWrites(s) ==
  /\ str[s].out = "write" /\ SocketOpen(s)
  /\ str' = [str EXCEPT ![s].out = "read"]
  /\ UNCHANGED <<vm, thr, left>>

OutEnds(s) ==
  /\ \/ str[s].out = "read" /\ ~Connected(s)
     \/ str[s].out = "write" /\ ~SocketOpen(s)
  /\ str' = [str EXCEPT ![s].out = "end", ![s].done = TRUE]
  /\ UNCHANGED <<vm, thr, left>>

(***************************************************************************)
(* The pump to the guest, blocked in conn.ReadMessage or in pipe.Write.    *)
(***************************************************************************)
UserTypes(s) ==
  /\ str[s].in = "read" /\ SocketOpen(s)
  /\ str' = [str EXCEPT ![s].in = "write"]
  /\ UNCHANGED <<vm, thr, left>>

\* The guest takes the bytes; it may leave them for as long as it likes.
GuestReads(s) ==
  /\ str[s].in = "write" /\ Connected(s)
  /\ str' = [str EXCEPT ![s].in = "read"]
  /\ UNCHANGED <<vm, thr, left>>

\* Mutant: this pump ends without telling the handler.
InEndsSilently(s) ==
  /\ \/ str[s].in = "read" /\ ~SocketOpen(s)
     \/ str[s].in = "write" /\ ~Connected(s)
  /\ str' = [str EXCEPT ![s].in = "end"]
  /\ UNCHANGED <<vm, thr, left>>

InEnds(s) ==
  /\ \/ str[s].in = "read" /\ ~SocketOpen(s)
     \/ str[s].in = "write" /\ ~Connected(s)
  /\ str' = [str EXCEPT ![s].in = "end", ![s].done = TRUE]
  /\ UNCHANGED <<vm, thr, left>>

-----------------------------------------------------------------------------

\* What the agent's goroutines do by themselves.
SerialHandler(s) ==
  \/ Dial(s)
  \/ DialFails(s)
  \/ UpgradeSocket(s)
  \/ UpgradeSocketFails(s)
  \/ Return(s)

Out(s) == OutWrites(s) \/ OutEnds(s)

Request(t) ==
  \/ \E op \in Ops, v \in Vms : Arrive(t, op, v)
  \/ Read(t)
  \/ Refused(t)
  \/ Modify(t)
  \/ ModifyFails(t)
  \/ CloneVm(t)
  \/ CloneFails(t)
  \/ Look(t)
  \/ Wire(t)
  \/ StepFails(t)

SerialNext ==
  \/ \E t \in Threads : Request(t)
  \/ \E v \in Vms, p \in Vms \cup {NoVm} : Import(v, p)
  \/ \E v \in Vms : Start(v)
  \/ \E v \in Vms : Stop(v)
  \/ \E s \in Streams, v \in Vms : OpenTerminal(s, v)
  \/ \E s \in Streams :
       \/ CloseTerminal(s)
       \/ SerialHandler(s)
       \/ GuestSpeaks(s)
       \/ Out(s)
       \/ UserTypes(s)
       \/ GuestReads(s)
       \/ InEnds(s)

SerialSpec == SerialInit /\ [][SerialNext]_serialVars

\* Goroutines run and a browser that is there takes what it is sent.  Neither
\* the guest nor the user owes anything.
SerialFairSpec ==
  /\ SerialSpec
  /\ \A s \in Streams :
       WF_serialVars(SerialHandler(s)) /\ WF_serialVars(Out(s)) /\ WF_serialVars(InEnds(s))

-----------------------------------------------------------------------------

SerialTypeOK ==
  /\ vm \in [Vms -> Vm]
  /\ thr \in [Threads -> Thread]
  /\ str \in [Streams -> Stream]
  /\ left \subseteq Vms

\* A terminal is bridged to the COM1 of another VM than its own only if that VM
\* is a copy that was left with the pipe of its source or ran before it was wired
\* (serialconsole.go:118-127, clonevm.go:79-82).
OnlyLeftCopiesMislead ==
  \A v \in Vms : vm[v].client # NoStream /\ str[vm[v].client].vm # v => v \in left

\* A running VM whose terminal is offered made the pipe that the terminal
\* dials, unless such a copy may have taken it.
OfferedIsServed ==
  \A v \in Vms : vm[v].st = "on" /\ EnabledFor(v) /\ ~vm[v].server
                 => \E w \in left : w # v

\* What the theorems about it in StreamProofs rest on.  A VM has made a pipe only
\* while it runs.
ServedWhileOn ==
  \A v \in Vms : vm[v].server => vm[v].st = "on" /\ vm[v].pipe # NoVm

\* The client of a pipe dialled the name of that pipe, and has not hung up.
ClientOfPipe ==
  \A v \in Vms : vm[v].client # NoStream
    => /\ vm[v].server
       /\ str[vm[v].client].vm = vm[v].pipe
       /\ str[vm[v].client].pc \in {"upgrade", "run"}

\* A job knows its copy exactly while it looks at it or wires it.
CopiesKnown ==
  \A t \in Threads :
    /\ Active(t) => thr[t].vm \in Vms
    /\ thr[t].new # NoVm <=> thr[t].pc \in {"look", "wire"}

\* A VM with the pipe of another was left with it, or its job is still to wire it.
ForeignIsLeft ==
  \A v \in Vms : Foreign(v, vm[v].pipe)
    => v \in left \/ (Copying(v) /\ vm[v].st = "off")

SerialInv ==
  /\ SerialTypeOK
  /\ ServedWhileOn
  /\ ClientOfPipe
  /\ CopiesKnown
  /\ ForeignIsLeft
  /\ OfferedIsServed

\* When the VM stops, or the pipe breaks otherwise, handler and pumps end.
VmGoneEndsStream ==
  \A s \in Streams : str[s].pc = "run" /\ ~Connected(s) ~> Ended(s)

\* When the tab is gone the stream ends too, with one exception: a guest that
\* never takes what was typed keeps the pump to it, and so the handler and the
\* pipe.
OnlyDeafGuestHolds ==
  \A s \in Streams :
    \/ []<>Ended(s)
    \/ []<>(str[s].tab)
    \/ <>[](str[s].in = "write" /\ Connected(s))

\* Whichever end goes first, handler, pumps and pipe go with it.
StreamsEnd == VmGoneEndsStream /\ OnlyDeafGuestHolds

-----------------------------------------------------------------------------

\* The lock seen from the outside: which request is at work on which VM.
AtWorkOn == {<<thr[t].vm, t>> : t \in {u \in Threads : Active(u)}}

VmLock == INSTANCE LockSpec WITH held <- AtWorkOn

\* What these requests do to a VM they do under its lock, taken and given back
\* as LockSpec allows (server.go:1555-1571).
UsesLock == VmLock!LockOnly

=============================================================================
