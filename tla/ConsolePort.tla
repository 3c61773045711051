------------------------------ MODULE ConsolePort ------------------------------
(***************************************************************************)
(* Remote display (VRDE) port assignment: PrepareVmConsole, its port       *)
(* search, DisableVmConsole (internal/vbox/service.go) and the stored      *)
(* assignment (internal/store/store.go).                                   *)
(*                                                                         *)
(* The server runs at most one operation per VM, so a VM stands for the    *)
(* handler that prepares it.  Nothing orders the handlers of different     *)
(* VMs; since records what an overlap did.                                 *)
(*                                                                         *)
(* VirtualBox keeps the VRDE settings and the power state; they may be     *)
(* anything when the agent starts.  Port 0 stands for "none", and for a    *)
(* configured port outside the range.                                      *)
(***************************************************************************)
EXTENDS Integers, FiniteSets, FiniteSetsExt

CONSTANTS
  Vms,
  MinConsolePort, MaxConsolePort,
  HashPort       \* VmIDToConsolePort: where a VM's search starts

Ports == MinConsolePort..MaxConsolePort

ASSUME PortsAssumption ==
  /\ MinConsolePort \in Nat \ {0} /\ MaxConsolePort \in Nat
  /\ MinConsolePort <= MaxConsolePort
ASSUME HashAssumption == HashPort \in [Vms -> Ports]

VARIABLES
  vrde,     \* VirtualBox: [enabled, local, port] of each VM
  on,       \* VirtualBox: the VM is powered on
  host,     \* ports other programs listen on
  store,    \* vm_console_ports: the persisted port, 0 for no row
  pc,       \* where the VM's prepare is
  mem,      \* its local variables
  since     \* VMs whose own prepare gave them a port since its prepare began

vars == <<vrde, on, host, store, pc, mem, since>>

Port0   == Ports \cup {0}
Vrde    == [enabled : BOOLEAN, local : BOOLEAN, port : Port0]
Pc      == {"idle", "current", "scan", "choose", "enable", "verify"}
Locals  == [persisted : Port0, current : Port0, unread : SUBSET Vms,
            used : SUBSET Ports, port : Port0]
Unset   == [persisted |-> 0, current |-> 0, unread |-> {}, used |-> {}, port |-> 0]

-----------------------------------------------------------------------------

\* A VM's port as readCurrentVRDEPort and collectUsedVRDEPorts see it.
PortOf(v) == IF vrde[v].enabled THEN vrde[v].port ELSE 0

\* A remote display server listens on its port while its VM runs.
Listening == {PortOf(v) : v \in {w \in Vms : on[w]}}

PortAvailable(p) == p \notin host \cup Listening

IsPortOccupied(v, p) == p \in mem[v].used \/ ~PortAvailable(p)

\* The probe: forward from the hash port, wrapping at the end of the range.
RangeSize == MaxConsolePort - MinConsolePort + 1

\* Mutant: no wrap at the end of the range.
CandidateNoWrap(v, offset) == HashPort[v] + offset

Candidate(v, offset) ==
  MinConsolePort + ((HashPort[v] - MinConsolePort + offset) % RangeSize)

Offsets == 0..(RangeSize - 1)

FreeOffsets(v) == {o \in Offsets : ~IsPortOccupied(v, Candidate(v, o))}

\* Mutant: a persisted port is reused without the collision check.
FindPortTrustsStore(v) ==
  LET cur == mem[v].current  per == mem[v].persisted
  IN CASE cur # 0 /\ ~IsPortOccupied(v, cur) -> cur
       [] (cur = 0 \/ IsPortOccupied(v, cur)) /\ per # 0 -> per
       [] OTHER -> IF FreeOffsets(v) = {} THEN 0 ELSE Candidate(v, Min(FreeOffsets(v)))

\* findConsolePort's choice: the current port, else the persisted one, else the
\* first free candidate, else none.
FindPort(v) ==
  LET cur == mem[v].current  per == mem[v].persisted
      keeps(p) == p # 0 /\ ~IsPortOccupied(v, p)
  IN CASE keeps(cur) -> cur
       [] ~keeps(cur) /\ keeps(per) -> per
       [] ~keeps(cur) /\ ~keeps(per) /\ FreeOffsets(v) # {} ->
            Candidate(v, Min(FreeOffsets(v)))
       [] OTHER -> 0

-----------------------------------------------------------------------------

Init ==
  /\ vrde \in [Vms -> Vrde]
  /\ on \in [Vms -> BOOLEAN]
  /\ host = {}
  /\ store = [v \in Vms |-> 0]
  /\ pc = [v \in Vms |-> "idle"]
  /\ mem = [v \in Vms |-> Unset]
  /\ since = [v \in Vms |-> {}]

\* The handler returns: its locals are gone.
Return(v) == pc' = [pc EXCEPT ![v] = "idle"] /\ mem' = [mem EXCEPT ![v] = Unset]

\* loadPersistedConsolePort.  (When the row cannot be read the handler returns
\* without having done anything.)
BeginPrepare(v) ==
  /\ pc[v] = "idle"
  /\ pc' = [pc EXCEPT ![v] = "current"]
  /\ mem' = [mem EXCEPT ![v].persisted = store[v]]
  /\ since' = [since EXCEPT ![v] = {}]
  /\ UNCHANGED <<vrde, on, host, store>>

ReadCurrentVRDEPort(v) ==
  /\ pc[v] = "current"
  /\ pc' = [pc EXCEPT ![v] = "scan"]
  /\ mem' = [mem EXCEPT ![v] = [mem[v] EXCEPT !.current = PortOf(v),
                                              !.unread = Vms \ {v}]]
  /\ UNCHANGED <<vrde, on, host, store, since>>

\* collectUsedVRDEPorts, one showvminfo per other VM.
ScanVm(v, w) ==
  /\ pc[v] = "scan" /\ w \in mem[v].unread
  /\ mem' = [mem EXCEPT ![v] =
                [mem[v] EXCEPT !.unread = mem[v].unread \ {w},
                               !.used = mem[v].used \cup ({PortOf(w)} \ {0})]]
  /\ UNCHANGED <<vrde, on, host, store, pc, since>>

ScanDone(v) ==
  /\ pc[v] = "scan" /\ mem[v].unread = {}
  /\ pc' = [pc EXCEPT ![v] = "choose"]
  /\ UNCHANGED <<vrde, on, host, store, mem, since>>

\* A read fails or times out: the prepare is given up before anything changed,
\* a failed scan of another VM included.
ReadFails(v) ==
  /\ pc[v] \in {"current", "scan", "verify"}
  /\ Return(v)
  /\ UNCHANGED <<vrde, on, host, store, since>>

ChoosePort(v) ==
  /\ pc[v] = "choose"
  /\ FindPort(v) # 0
  /\ pc' = [pc EXCEPT ![v] = "enable"]
  /\ mem' = [mem EXCEPT ![v].port = FindPort(v)]
  /\ UNCHANGED <<vrde, on, host, store, since>>

\* "No available VRDE port in the configured range".
NoPort(v) ==
  /\ pc[v] = "choose"
  /\ FindPort(v) = 0
  /\ Return(v)
  /\ UNCHANGED <<vrde, on, host, store, since>>

\* modifyvm --vrde on --vrdeaddress 127.0.0.1 --vrdeport: only a powered-off VM
\* can be modified.
SetVrde(v) ==
  /\ ~on[v]
  /\ vrde' = [vrde EXCEPT ![v] = [enabled |-> TRUE, local |-> TRUE, port |-> mem[v].port]]
  /\ since' = [w \in Vms |-> IF pc[w] = "idle" THEN since[w] ELSE since[w] \cup {v}]

EnableVrde(v) ==
  /\ pc[v] = "enable"
  /\ SetVrde(v)
  /\ pc' = [pc EXCEPT ![v] = "verify"]
  /\ UNCHANGED <<on, host, store, mem>>

\* Mutant: the port is persisted whatever modifyvm says.
EnableFailsPersists(v) ==
  /\ pc[v] = "enable"
  /\ SetVrde(v) \/ UNCHANGED <<vrde, since>>
  /\ store' = [store EXCEPT ![v] = mem[v].port]
  /\ Return(v)
  /\ UNCHANGED <<on, host>>

\* modifyvm is refused, fails, or is killed by its timeout once VirtualBox has
\* already applied it.
EnableFails(v) ==
  /\ pc[v] = "enable"
  /\ SetVrde(v) \/ UNCHANGED <<vrde, since>>
  /\ Return(v)
  /\ UNCHANGED <<on, host, store>>

\* VmConsoleStatus, then persistConsolePort with the port it verified; a failed
\* write is only logged.
VerifyAndPersist(v) ==
  LET ready == vrde[v].enabled /\ vrde[v].local /\ vrde[v].port # 0
  IN /\ pc[v] = "verify"
     /\ \/ store' = [store EXCEPT ![v] = IF ready THEN vrde[v].port ELSE mem[v].port]
        \/ UNCHANGED store
     /\ Return(v)
     /\ UNCHANGED <<vrde, on, host, since>>

\* DisableVmConsole; the persisted port stays for the next prepare.
DisableVmConsole(v) ==
  /\ pc[v] = "idle"
  /\ ~on[v]
  /\ vrde' = [vrde EXCEPT ![v].enabled = FALSE]
  /\ UNCHANGED <<on, host, store, pc, mem, since>>

\* VirtualBox: a VM is started or ends, by whatever means.
Power(v) ==
  /\ on' = [on EXCEPT ![v] = ~@]
  /\ UNCHANGED <<vrde, host, store, pc, mem, since>>

\* Another program on the host opens or closes a port.
HostPort(p) ==
  /\ host' = IF p \in host THEN host \ {p} ELSE host \cup {p}
  /\ UNCHANGED <<vrde, on, store, pc, mem, since>>

Step(v) ==
  \/ ReadCurrentVRDEPort(v)
  \/ \E w \in Vms : ScanVm(v, w)
  \/ ScanDone(v)
  \/ ReadFails(v)
  \/ ChoosePort(v)
  \/ NoPort(v)
  \/ EnableVrde(v)
  \/ EnableFails(v)
  \/ VerifyAndPersist(v)

Next ==
  \/ \E v \in Vms : BeginPrepare(v) \/ Step(v) \/ DisableVmConsole(v) \/ Power(v)
  \/ \E p \in Ports : HostPort(p)

Spec == Init /\ [][Next]_vars

-----------------------------------------------------------------------------

TypeOK ==
  /\ vrde \in [Vms -> Vrde]
  /\ on \in [Vms -> BOOLEAN]
  /\ host \subseteq Ports
  /\ store \in [Vms -> Port0]
  /\ pc \in [Vms -> Pc]
  /\ mem \in [Vms -> Locals]
  /\ since \in [Vms -> SUBSET Vms]

Collide(v, w) == v # w /\ PortOf(v) # 0 /\ PortOf(v) = PortOf(w)

\* A VM is put on a port another VM has enabled only where the other got it
\* while this one's prepare was under way: neither a kept port, nor one persisted
\* before another VM took it, nor a probed one, nor a prepare that fails after
\* modifyvm applied does it (service.go:628-632, 764-766).
CollisionNeedsOverlap ==
  [][\A v, w \in Vms :
       Collide(v, w)' /\ ~Collide(v, w) /\ vrde'[v] # vrde[v] => w \in since[v]]_vars

\* What a prepare that ran to its end persists is a port the VM was verified
\* to have, so the store never names a port VirtualBox was not given.
StoredWasConfigured ==
  [][\A v \in Vms : store'[v] # store[v] => store'[v] = PortOf(v)]_vars

-----------------------------------------------------------------------------

\* What a prepare has scanned stays true until it enables its port, but for the
\* VMs that got a port since it began: a disable only frees one.
ScanIsFresh ==
  \A v, w \in Vms :
    v # w /\ PortOf(w) # 0 /\ w \notin since[v] =>
      /\ pc[v] = "scan" => w \in mem[v].unread \/ PortOf(w) \in mem[v].used
      /\ pc[v] = "choose" => PortOf(w) \in mem[v].used
      /\ pc[v] = "enable" => mem[v].port # PortOf(w)

\* The port a prepare has set is still the VM's when it is verified: nothing
\* else sets it, and a disable waits for the handler.
SetStays == \A v \in Vms : pc[v] = "verify" => PortOf(v) = mem[v].port

=============================================================================
