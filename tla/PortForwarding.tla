--------------------------- MODULE PortForwarding ---------------------------
(***************************************************************************)
(* Network adapters and NAT port forwarding (internal/vbox/network.go,     *)
(* portforwarding.go and their handlers): an adapter changes its mode, a   *)
(* rule is added to an adapter or deleted from it.                         *)
(*                                                                         *)
(* A host port belongs to one listener on the whole host, so an add reads  *)
(* the adapter, the VM's own rules and those of every other VM, one        *)
(* command each, before the command that adds the rule.  It has the lock   *)
(* of its own VM only.  A port here is a host port with its protocol.      *)
(* Whether the command goes to a running VM (controlvm) or to a stopped    *)
(* one (modifyvm) makes no difference to what it changes; one that no      *)
(* longer fits the VM fails.                                               *)
(*                                                                         *)
(* Assumed of VirtualBox, since nothing in the repository says either way: *)
(* showvminfo lists the rules of an adapter whatever its mode is.          *)
(***************************************************************************)
EXTENDS Integers

CONSTANTS
  Vms, NoVm,
  Slots,
  Adapters,       \* the network adapters there are, each a VM and a slot of it
  Names,          \* names of rules
  Ports, NoPort,
  Threads         \* requests

ASSUME NoVmAssumption     == NoVm \notin Vms
ASSUME NoPortAssumption   == NoPort \notin Ports
ASSUME AdaptersAssumption == Adapters \subseteq Vms \X Slots

VARIABLES
  mode, \* VirtualBox: the mode of each adapter; "other" is off, too
  rule, \* VirtualBox: the port that each rule forwards
  thr   \* where each request is

vars == <<mode, rule, thr>>

Modes == {"nat", "other"}
Ids   == Adapters \X Names \* a rule is known by its adapter and its name
Ops   == {"add", "delete", "mode"}

VmOf(i) == i[1][1]

\* todo are the VMs still to be scanned, unread those that could not be read, and
\* blind is that the VM's own rules could not.  older are the VMs that have had a
\* rule for the port since the request arrived; the code does not know them.
Thread == [op : Ops \cup {"none"}, pc : {"idle", "read", "own", "list", "scan", "command"},
           vm : Vms \cup {NoVm}, id : Ids \cup {<<>>}, port : Ports \cup {NoPort},
           mode : Modes, todo : SUBSET Vms, unread : SUBSET Vms, blind : BOOLEAN,
           older : SUBSET Vms]
Idle   == [op |-> "none", pc |-> "idle", vm |-> NoVm, id |-> <<>>, port |-> NoPort,
           mode |-> "other", todo |-> {}, unread |-> {}, blind |-> FALSE, older |-> {}]

-----------------------------------------------------------------------------

Active(t) == thr[t].pc # "idle"

\* tryLockVm would fail.
Locked(v) == \E t \in Threads : Active(t) /\ thr[t].vm = v

\* parseForwardingRules over the rules of v
Forwards(rules, v, p) == \E i \in Ids : VmOf(i) = v /\ rules[i] = p

Init ==
  /\ mode \in [Adapters -> Modes]
  /\ rule \in [Ids -> Ports \cup {NoPort}]
  /\ thr = [t \in Threads |-> Idle]

Go(t, pc)    == thr' = [thr EXCEPT ![t].pc = pc]
Return(t)    == thr' = [thr EXCEPT ![t] = Idle]
NothingSet   == UNCHANGED <<mode, rule>>

-----------------------------------------------------------------------------

(***************************************************************************)
(* The handlers.                                                           *)
(***************************************************************************)
Arrive(t, op, i, p, m) ==
  /\ ~Active(t) /\ ~Locked(VmOf(i))
  /\ thr' = [thr EXCEPT ![t] =
       [op |-> op, pc |-> "read", vm |-> VmOf(i), id |-> i, port |-> p, mode |-> m,
        todo |-> {}, unread |-> {}, blind |-> FALSE,
        older |-> {w \in Vms \ {VmOf(i)} : Forwards(rule, w, p)}]]
  /\ NothingSet

\* The read fails, or the request is not valid; the adapter may be off.
ReadFails(t) ==
  /\ thr[t].pc = "read"
  /\ Return(t)
  /\ NothingSet

\* readShowVmInfo: an add needs the adapter in NAT mode.
ReadAdapter(t) ==
  /\ thr[t].pc = "read"
  /\ IF thr[t].op # "add" THEN Go(t, "command")
     ELSE IF mode[thr[t].id[1]] = "nat" THEN Go(t, "own")
     ELSE Return(t)
  /\ NothingSet

\* Mutant: the port is looked for on the adapter only.
ReadOwnAdapter(t) ==
  /\ thr[t].pc = "own"
  /\ IF rule[thr[t].id] # NoPort \/ \E n \in Names : rule[<<thr[t].id[1], n>>] = thr[t].port
     THEN Return(t)
     ELSE Go(t, "list")
  /\ NothingSet

\* The rules of the VM itself: the name is free on the adapter, and the port on
\* all of them.
ReadOwn(t) ==
  /\ thr[t].pc = "own"
  /\ IF rule[thr[t].id] # NoPort \/ Forwards(rule, thr[t].vm, thr[t].port)
     THEN Return(t)
     ELSE Go(t, "list")
  /\ NothingSet

\* They cannot be read: the add goes on, and VirtualBox alone decides.
OwnFails(t) ==
  /\ thr[t].pc = "own"
  /\ thr' = [thr EXCEPT ![t].pc = "list", ![t].blind = TRUE]
  /\ NothingSet

\* hostPortForwardedByOtherVM: every other registered VM is to be read ...
List(t) ==
  /\ thr[t].pc = "list"
  /\ thr' = [thr EXCEPT ![t].pc = "scan", ![t].todo = Vms \ {thr[t].vm}]
  /\ NothingSet

\* ... or none, if they cannot be listed ...
ListFails(t) ==
  /\ thr[t].pc = "list"
  /\ thr' = [thr EXCEPT ![t].pc = "command", ![t].unread = Vms]
  /\ NothingSet

\* ... and the first that has the port ends the request.
Scan(t, v) ==
  /\ thr[t].pc = "scan" /\ v \in thr[t].todo
  /\ IF Forwards(rule, v, thr[t].port)
     THEN Return(t)
     ELSE thr' = [thr EXCEPT ![t].todo = thr[t].todo \ {v}]
  /\ NothingSet

\* Mutant: the scan ends at the first VM that cannot be read.
ScanFailsStops(t, v) ==
  /\ thr[t].pc = "scan" /\ v \in thr[t].todo
  /\ thr' = [thr EXCEPT ![t].todo = {}, ![t].unread = thr[t].unread \cup {v}]
  /\ NothingSet

\* A VM that cannot be read is skipped.
ScanFails(t, v) ==
  /\ thr[t].pc = "scan" /\ v \in thr[t].todo
  /\ thr' = [thr EXCEPT ![t].todo = thr[t].todo \ {v}, ![t].unread = thr[t].unread \cup {v}]
  /\ NothingSet

ScanDone(t) ==
  /\ thr[t].pc = "scan" /\ thr[t].todo = {}
  /\ Go(t, "command")
  /\ NothingSet

-----------------------------------------------------------------------------

\* natpf and natpf delete: VirtualBox refuses a name that the adapter has, and the
\* deletion of a rule it has not.  A port it has is refused only for the same host
\* address; that is CommandFails.
Accepts(t) ==
  /\ thr[t].op = "add"    => rule[thr[t].id] = NoPort
  /\ thr[t].op = "delete" => rule[thr[t].id] # NoPort

\* Mutant: the mode is used as it was sent.
ModeForRaw(t) == IF thr[t].mode = "nat" THEN "NAT" ELSE thr[t].mode

\* controlvmNicArgs, modifyvmNicArgs
ModeFor(t) == thr[t].mode

RuleFor(t) == IF thr[t].op = "add" THEN thr[t].port ELSE NoPort

\* The command of the request, which succeeds.
Command(t) ==
  /\ thr[t].pc = "command" /\ Accepts(t)
  /\ IF thr[t].op = "mode"
     THEN mode' = [mode EXCEPT ![thr[t].id[1]] = ModeFor(t)] /\ UNCHANGED rule
     ELSE rule' = [rule EXCEPT ![thr[t].id] = RuleFor(t)] /\ UNCHANGED mode
  /\ thr' = [u \in Threads |->
       IF u = t THEN Idle
       ELSE [thr[u] EXCEPT !.older = {w \in thr[u].older : Forwards(rule', w, thr[u].port)}]]

\* It is refused or fails; that it took effect and was killed then is Command.
CommandFails(t) ==
  /\ thr[t].pc = "command"
  /\ Return(t)
  /\ NothingSet

-----------------------------------------------------------------------------

Next ==
  \E t \in Threads :
    \/ \E op \in Ops, i \in Ids, p \in Ports, m \in Modes : Arrive(t, op, i, p, m)
    \/ ReadFails(t)
    \/ ReadAdapter(t)
    \/ ReadOwn(t)
    \/ OwnFails(t)
    \/ List(t)
    \/ ListFails(t)
    \/ \E v \in Vms : Scan(t, v)
    \/ \E v \in Vms : ScanFails(t, v)
    \/ ScanDone(t)
    \/ Command(t)
    \/ CommandFails(t)

Spec == Init /\ [][Next]_vars

-----------------------------------------------------------------------------

TypeOK ==
  /\ mode \in [Adapters -> Modes]
  /\ rule \in [Ids -> Ports \cup {NoPort}]
  /\ thr \in [Threads -> Thread]

-----------------------------------------------------------------------------

\* The parts of the inductive invariant: a VM has one request at a time, ...
Exclusive ==
  \A t, u \in Threads : Active(t) /\ Active(u) /\ thr[t].vm = thr[u].vm => t = u

\* ... which is on one of its adapters, ...
Addressed(x) ==
  x.pc # "idle" => /\ x.id \in Ids /\ x.vm = VmOf(x.id)
                   /\ x.port \in Ports /\ x.op \in Ops

\* ... and what an add has read still holds: the mode, the VM's own rules and those
\* of the VMs that were there before it, which it has yet to read or could not.
ReadsHold(x) ==
  /\ x.pc \in {"own", "list", "scan"} => x.op = "add"
  /\ x.pc # "idle" /\ x.op = "add" =>
       /\ x.pc # "read" => mode[x.id[1]] = "nat"
       /\ x.pc \notin {"read", "own"} => x.blind \/ ~Forwards(rule, x.vm, x.port)
       /\ \A w \in x.older : w # x.vm /\ Forwards(rule, w, x.port)
       /\ x.pc = "scan"    => x.older \subseteq x.todo \cup x.unread
       /\ x.pc = "command" => x.older \subseteq x.unread

Inv ==
  /\ TypeOK
  /\ Exclusive
  /\ \A t \in Threads : Addressed(thr[t]) /\ ReadsHold(thr[t])

-----------------------------------------------------------------------------

\* t's command adds the rule i for port p.
Adds(t, i, p) ==
  /\ thr[t].pc = "command" /\ thr[t].vm = VmOf(i)
  /\ rule[i] # p /\ rule'[i] = p

\* A rule is added only to an adapter that is in NAT mode then, although the mode
\* was read several commands earlier (portforwarding.go:129-144).
RulesGoToNat ==
  [][\A i \in Ids, p \in Ports, t \in Threads :
       Adds(t, i, p) => mode[i[1]] = "nat"]_vars

\* No add gives a VM a second rule for a host port, on whichever adapter, unless
\* it could not read the VM's rules (portforwarding.go:163-171).
OnePortPerVm ==
  [][\A i \in Ids, p \in Ports, t \in Threads :
       Adds(t, i, p) => ~Forwards(rule, VmOf(i), p) \/ thr[t].blind]_vars

\* No add takes a host port from another VM whose rule is older than the request,
\* unless that VM could not be read; VMs that can be read are read whatever
\* happens to the others (portforwarding.go:172-178, 276-283).
OlderRulesKept ==
  [][\A i \in Ids, p \in Ports, t \in Threads :
       Adds(t, i, p) => thr[t].older \subseteq thr[t].unread]_vars

-----------------------------------------------------------------------------

\* The lock seen from the outside: which request is at work on which VM.
AtWorkOn == {<<thr[t].vm, t>> : t \in {u \in Threads : Active(u)}}

VmLock == INSTANCE LockSpec WITH held <- AtWorkOn

\* What these requests do to a VM they do under its lock, taken and given back
\* as LockSpec allows (server.go:1555-1571).
UsesLock == VmLock!LockOnly

=============================================================================
