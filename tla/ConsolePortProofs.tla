-------------------------- MODULE ConsolePortProofs --------------------------
(* Proofs about ConsolePort, for any VMs, port range and hash. *)
EXTENDS ConsolePort, WellFoundedInduction, TLAPS

\* A non-empty set of naturals has the minimum that Min chooses.
LEMMA MinInSet ==
  ASSUME NEW S \in SUBSET Nat, S # {}
  PROVE  Min(S) \in S
<1>1. \E x \in S : \A y \in S : ~(<<y, x>> \in OpToRel(<, Nat))
  <2>1. IsWellFoundedOn(OpToRel(<, Nat), Nat) /\ S \subseteq Nat /\ S # {}
    BY NatLessThanWellFounded
  <2> QED
    BY <2>1, WFMin, Zenon
<1>2. PICK x \in S : \A y \in S : ~(<<y, x>> \in OpToRel(<, Nat))
  BY <1>1
<1>3. \A y \in S : x <= y
  <2> TAKE y \in S
  <2>1. ~(y < x)
    BY <1>2 DEF OpToRel
  <2> QED
    BY <2>1
<1> QED
  BY <1>3 DEF Min

\* Every candidate of the probe is in the range.
LEMMA CandidateInRange ==
  ASSUME NEW v \in Vms, NEW o \in Nat
  PROVE  Candidate(v, o) \in Ports
<1>1. /\ RangeSize \in Nat \ {0} /\ MinConsolePort \in Nat /\ MaxConsolePort \in Nat
      /\ RangeSize = MaxConsolePort - MinConsolePort + 1
  BY PortsAssumption DEF RangeSize
<1>2. HashPort[v] - MinConsolePort + o \in Int
  BY <1>1, HashAssumption DEF Ports
<1>3. (HashPort[v] - MinConsolePort + o) % RangeSize \in 0..(RangeSize - 1)
  BY <1>1, <1>2
<1> QED
  BY <1>1, <1>3 DEF Candidate, Ports

\* What findConsolePort returns is 0 or a port of the range that nothing known
\* to the handler occupies.
LEMMA FindPortIsFree ==
  ASSUME TypeOK, NEW v \in Vms
  PROVE  /\ FindPort(v) \in Port0
         /\ FindPort(v) # 0 => FindPort(v) \notin mem[v].used
<1> DEFINE cur == mem[v].current
           per == mem[v].persisted
           keeps(p) == p # 0 /\ ~IsPortOccupied(v, p)
<1>1. cur \in Port0 /\ per \in Port0
  BY DEF TypeOK, Locals
<1>2. CASE keeps(cur)
  <2>1. FindPort(v) = cur
    BY <1>2 DEF FindPort
  <2> QED
    BY <1>1, <1>2, <2>1 DEF IsPortOccupied
<1>3. CASE ~keeps(cur) /\ keeps(per)
  <2>1. FindPort(v) = per
    BY <1>3 DEF FindPort
  <2> QED
    BY <1>1, <1>3, <2>1 DEF IsPortOccupied
<1>4. CASE ~keeps(cur) /\ ~keeps(per) /\ FreeOffsets(v) # {}
  <2>1. FindPort(v) = Candidate(v, Min(FreeOffsets(v)))
    BY <1>4 DEF FindPort
  <2>2. FreeOffsets(v) \in SUBSET Nat
    BY DEF FreeOffsets, Offsets
  <2>3. Min(FreeOffsets(v)) \in FreeOffsets(v)
    BY <1>4, <2>2, MinInSet
  <2>4. Candidate(v, Min(FreeOffsets(v))) \in Ports
    BY <2>2, <2>3, CandidateInRange
  <2>5. ~IsPortOccupied(v, Candidate(v, Min(FreeOffsets(v))))
    BY <2>3 DEF FreeOffsets
  <2> QED
    BY <2>1, <2>4, <2>5 DEF IsPortOccupied, Port0
<1>5. CASE ~keeps(cur) /\ ~keeps(per) /\ FreeOffsets(v) = {}
  <2>1. FindPort(v) = 0
    BY <1>5 DEF FindPort
  <2> QED
    BY <2>1 DEF Port0
<1> QED
  BY <1>2, <1>3, <1>4, <1>5

-----------------------------------------------------------------------------
(* Types of the pieces. *)

LEMMA PortOfType == ASSUME TypeOK, NEW v \in Vms PROVE PortOf(v) \in Port0
BY DEF TypeOK, Vrde, PortOf, Port0

LEMMA UnsetType == Unset \in Locals
BY DEF Unset, Locals, Port0

LEMMA SetVrdeType ==
  ASSUME TypeOK, NEW v \in Vms, SetVrde(v)
  PROVE  vrde' \in [Vms -> Vrde] /\ since' \in [Vms -> SUBSET Vms]
<1>1. [enabled |-> TRUE, local |-> TRUE, port |-> mem[v].port] \in Vrde
  BY DEF TypeOK, Vrde, Locals
<1> QED
  BY <1>1 DEF SetVrde, TypeOK

\* The state is well typed: in particular only ports of the range, or none, are
\* ever configured or persisted by the agent.
THEOREM TypeCorrect == Spec => []TypeOK
<1> USE DEF TypeOK, Pc
<1>1. Init => TypeOK
  BY DEF Init, Locals, Port0, Unset
<1>2. TypeOK /\ [Next]_vars => TypeOK'
  <2> SUFFICES ASSUME TypeOK, [Next]_vars PROVE TypeOK'
    OBVIOUS
  <2>1. ASSUME NEW v \in Vms, BeginPrepare(v) PROVE TypeOK'
    <3>a. mem[v] \in Locals /\ store[v] \in Port0
      OBVIOUS
    <3>1. [mem[v] EXCEPT !.persisted = store[v]] \in Locals
      BY <3>a DEF Locals
    <3> QED
      BY <2>1, <3>1 DEF BeginPrepare
  <2>2. ASSUME NEW v \in Vms, ReadCurrentVRDEPort(v) PROVE TypeOK'
    <3>a. mem[v] \in Locals /\ PortOf(v) \in Port0 /\ Vms \ {v} \in SUBSET Vms
      BY PortOfType
    <3>1. [mem[v] EXCEPT !.current = PortOf(v), !.unread = Vms \ {v}] \in Locals
      BY <3>a DEF Locals
    <3> QED
      BY <2>2, <3>1 DEF ReadCurrentVRDEPort
  <2>3. ASSUME NEW v \in Vms, NEW w \in Vms, ScanVm(v, w) PROVE TypeOK'
    <3>1. mem[v] \in Locals /\ {PortOf(w)} \ {0} \subseteq Ports
      BY PortOfType DEF Port0
    <3>2. /\ mem[v].unread \ {w} \in SUBSET Vms
          /\ mem[v].used \cup ({PortOf(w)} \ {0}) \in SUBSET Ports
      BY <3>1 DEF Locals
    <3>3. [mem[v] EXCEPT !.unread = mem[v].unread \ {w},
                         !.used = mem[v].used \cup ({PortOf(w)} \ {0})] \in Locals
      BY <3>1, <3>2 DEF Locals
    <3> QED
      BY <2>3, <3>3 DEF ScanVm
  <2>4. ASSUME NEW v \in Vms, ScanDone(v) PROVE TypeOK'
    BY <2>4 DEF ScanDone
  <2>5. ASSUME NEW v \in Vms, ReadFails(v) \/ NoPort(v) PROVE TypeOK'
    BY <2>5, UnsetType DEF ReadFails, NoPort, Return
  <2>6. ASSUME NEW v \in Vms, ChoosePort(v) PROVE TypeOK'
    <3>1. [mem[v] EXCEPT !.port = FindPort(v)] \in Locals
      BY FindPortIsFree DEF Locals
    <3> QED
      BY <2>6, <3>1 DEF ChoosePort
  <2>7. ASSUME NEW v \in Vms, EnableVrde(v) PROVE TypeOK'
    BY <2>7, SetVrdeType DEF EnableVrde
  <2>8. ASSUME NEW v \in Vms, EnableFails(v) PROVE TypeOK'
    <3>1. vrde' \in [Vms -> Vrde] /\ since' \in [Vms -> SUBSET Vms]
      BY <2>8, SetVrdeType DEF EnableFails
    <3> QED
      BY <2>8, <3>1, UnsetType DEF EnableFails, Return
  <2>9. ASSUME NEW v \in Vms, VerifyAndPersist(v) PROVE TypeOK'
    <3>1. store' \in [Vms -> Port0]
      BY <2>9 DEF VerifyAndPersist, Vrde, Locals
    <3> QED
      BY <2>9, <3>1, UnsetType DEF VerifyAndPersist, Return
  <2>10. ASSUME NEW v \in Vms, DisableVmConsole(v) PROVE TypeOK'
    <3>1. [vrde[v] EXCEPT !.enabled = FALSE] \in Vrde
      BY DEF Vrde
    <3> QED
      BY <2>10, <3>1 DEF DisableVmConsole
  <2>11. ASSUME NEW v \in Vms, Power(v) PROVE TypeOK'
    BY <2>11 DEF Power
  <2>12. ASSUME NEW p \in Ports, HostPort(p) PROVE TypeOK'
    BY <2>12 DEF HostPort
  <2>13. CASE UNCHANGED vars
    BY <2>13 DEF vars
  <2> QED
    BY <2>1, <2>2, <2>3, <2>4, <2>5, <2>6, <2>7, <2>8, <2>9, <2>10, <2>11,
       <2>12, <2>13 DEF Next, Step
<1> QED
  BY <1>1, <1>2, PTL DEF Spec

-----------------------------------------------------------------------------
(* Two VMs come to share a port only through prepares that overlap. *)

\* Where the ports of the other VMs are unchanged and no handler has moved, what
\* was scanned is still true.
LEMMA StillFresh ==
  ASSUME ScanIsFresh, pc' = pc, mem' = mem, since' = since,
         \A w \in Vms : (PortOf(w))' \in {0, PortOf(w)}
  PROVE  ScanIsFresh'
BY DEF ScanIsFresh

LEMMA FreshStep ==
  ASSUME TypeOK, ScanIsFresh, [Next]_vars
  PROVE  ScanIsFresh'
<1> USE DEF Pc
<1>a. /\ pc \in [Vms -> Pc] /\ mem \in [Vms -> Locals] /\ vrde \in [Vms -> Vrde]
      /\ since \in [Vms -> SUBSET Vms]
  BY DEF TypeOK
<1>b. \A v \in Vms : mem[v].unread \subseteq Vms /\ PortOf(v) \in Port0
  BY <1>a, PortOfType DEF Locals
\* A step of v's handler that leaves VirtualBox's settings alone.
<1>c. ASSUME NEW v \in Vms, vrde' = vrde,
             \A u \in Vms \ {v} : pc'[u] = pc[u] /\ mem'[u] = mem[u] /\ since'[u] = since[u],
             \A w \in Vms : v # w /\ PortOf(w) # 0 /\ w \notin since'[v] =>
               /\ pc'[v] = "scan" => w \in mem'[v].unread \/ PortOf(w) \in mem'[v].used
               /\ pc'[v] = "choose" => PortOf(w) \in mem'[v].used
               /\ pc'[v] = "enable" => mem'[v].port # PortOf(w)
      PROVE  ScanIsFresh'
  <2>1. \A w \in Vms : (PortOf(w))' = PortOf(w)
    BY <1>c DEF PortOf
  <2> SUFFICES ASSUME NEW u \in Vms, NEW w \in Vms, u # w, PortOf(w) # 0, w \notin since'[u]
               PROVE  /\ pc'[u] = "scan" => w \in mem'[u].unread \/ PortOf(w) \in mem'[u].used
                      /\ pc'[u] = "choose" => PortOf(w) \in mem'[u].used
                      /\ pc'[u] = "enable" => mem'[u].port # PortOf(w)
    BY <2>1 DEF ScanIsFresh
  <2>2. CASE u = v
    BY <1>c, <2>2
  <2>3. CASE u # v
    BY <1>c, <2>3 DEF ScanIsFresh
  <2> QED
    BY <2>2, <2>3
<1>1. ASSUME NEW v \in Vms, BeginPrepare(v) PROVE ScanIsFresh'
  <2>1. /\ pc' = [pc EXCEPT ![v] = "current"] /\ vrde' = vrde
        /\ since' = [since EXCEPT ![v] = {}]
        /\ mem' = [mem EXCEPT ![v].persisted = store[v]]
    BY <1>1 DEF BeginPrepare
  <2> QED
    BY <1>a, <1>c, <2>1
<1>2. ASSUME NEW v \in Vms, ReadCurrentVRDEPort(v) PROVE ScanIsFresh'
  <2> DEFINE new == [mem[v] EXCEPT !.current = PortOf(v), !.unread = Vms \ {v}]
  <2>1. /\ vrde' = vrde /\ pc' = [pc EXCEPT ![v] = "scan"] /\ since' = since
        /\ mem' = [mem EXCEPT ![v] = new]
    BY <1>2 DEF ReadCurrentVRDEPort
  <2>2. new.unread = Vms \ {v}
    BY <1>a DEF Locals
  <2> HIDE DEF new
  <2> QED
    BY <1>a, <1>c, <2>1, <2>2
<1>3. ASSUME NEW v \in Vms, NEW w \in Vms, ScanVm(v, w)
      PROVE  ScanIsFresh'
  <2> DEFINE new == [mem[v] EXCEPT !.unread = mem[v].unread \ {w},
                                   !.used = mem[v].used \cup ({PortOf(w)} \ {0})]
  <2>1. /\ vrde' = vrde /\ pc[v] = "scan" /\ pc' = pc /\ since' = since
        /\ mem' = [mem EXCEPT ![v] = new]
    BY <1>3 DEF ScanVm
  <2>2. /\ new.unread = mem[v].unread \ {w}
        /\ new.used = mem[v].used \cup ({PortOf(w)} \ {0})
    BY <1>a DEF Locals
  <2> HIDE DEF new
  <2>3. mem'[v] = new /\ \A u \in Vms \ {v} : mem'[u] = mem[u]
    BY <1>a, <2>1
  <2>4. \A u \in Vms : v # u /\ PortOf(u) # 0 /\ u \notin since[v] =>
          u \in mem'[v].unread \/ PortOf(u) \in mem'[v].used
    BY <1>a, <2>1, <2>2, <2>3 DEF ScanIsFresh
  <2> QED
    BY <1>c, <2>1, <2>3, <2>4
<1>4. ASSUME NEW v \in Vms, ScanDone(v) PROVE ScanIsFresh'
  <2>1. /\ vrde' = vrde /\ pc[v] = "scan" /\ pc' = [pc EXCEPT ![v] = "choose"]
        /\ mem' = mem /\ since' = since /\ mem[v].unread = {}
    BY <1>4 DEF ScanDone
  <2>2. \A w \in Vms : v # w /\ PortOf(w) # 0 /\ w \notin since[v] => PortOf(w) \in mem[v].used
    BY <1>a, <2>1 DEF ScanIsFresh
  <2> QED
    BY <1>a, <1>c, <2>1, <2>2
<1>5. ASSUME NEW v \in Vms, ChoosePort(v) PROVE ScanIsFresh'
  <2> DEFINE new == [mem[v] EXCEPT !.port = FindPort(v)]
  <2>1. /\ vrde' = vrde /\ pc[v] = "choose" /\ pc' = [pc EXCEPT ![v] = "enable"]
        /\ mem' = [mem EXCEPT ![v] = new] /\ since' = since /\ FindPort(v) # 0
    BY <1>5 DEF ChoosePort
  <2>2. new.port = FindPort(v) /\ FindPort(v) \notin mem[v].used
    BY <1>a, <2>1, FindPortIsFree DEF Locals
  <2> HIDE DEF new
  <2>3. mem'[v] = new /\ pc'[v] = "enable"
        /\ \A u \in Vms \ {v} : mem'[u] = mem[u] /\ pc'[u] = pc[u]
    BY <1>a, <2>1
  <2>4. \A w \in Vms : v # w /\ PortOf(w) # 0 /\ w \notin since[v] => mem'[v].port # PortOf(w)
    BY <1>a, <2>1, <2>2, <2>3 DEF ScanIsFresh
  <2> QED
    BY <1>c, <2>1, <2>3, <2>4
<1>6. ASSUME NEW v \in Vms, ReadFails(v) \/ NoPort(v) \/ VerifyAndPersist(v)
      PROVE  ScanIsFresh'
  <2>1. /\ vrde' = vrde /\ pc' = [pc EXCEPT ![v] = "idle"] /\ since' = since
        /\ mem' = [mem EXCEPT ![v] = Unset]
    BY <1>6 DEF ReadFails, NoPort, VerifyAndPersist, Return
  <2> QED
    BY <1>a, <1>c, <2>1
<1>7. ASSUME NEW v \in Vms, EnableVrde(v) \/ EnableFails(v)
      PROVE  ScanIsFresh'
  <2>1. /\ pc[v] = "enable" /\ pc'[v] \in {"verify", "idle"}
        /\ \A u \in Vms \ {v} : pc'[u] = pc[u] /\ mem'[u] = mem[u]
        /\ SetVrde(v) \/ (vrde' = vrde /\ since' = since)
    BY <1>7, <1>a DEF EnableVrde, EnableFails, Return
  <2>2. CASE vrde' = vrde /\ since' = since
    BY <1>c, <2>1, <2>2
  <2>3. CASE SetVrde(v)
    <3> SUFFICES ASSUME NEW u \in Vms, NEW w \in Vms, u # w, (PortOf(w))' # 0, w \notin since'[u],
                        pc'[u] \in {"scan", "choose", "enable"}
                 PROVE  /\ pc'[u] = "scan" => w \in mem'[u].unread \/ (PortOf(w))' \in mem'[u].used
                        /\ pc'[u] = "choose" => (PortOf(w))' \in mem'[u].used
                        /\ pc'[u] = "enable" => mem'[u].port # (PortOf(w))'
      BY DEF ScanIsFresh
    <3>1. u # v
      BY <2>1
    <3>2. since'[u] = since[u] \cup {v}
      BY <2>1, <2>3, <3>1 DEF SetVrde
    <3>3. w # v /\ w \notin since[u]
      BY <3>2
    <3>4. (PortOf(w))' = PortOf(w)
      BY <1>a, <2>3, <3>3 DEF SetVrde, PortOf
    <3> QED
      BY <2>1, <3>1, <3>3, <3>4 DEF ScanIsFresh
  <2> QED
    BY <2>1, <2>2, <2>3
<1>8. ASSUME NEW v \in Vms, DisableVmConsole(v) PROVE ScanIsFresh'
  <2>1. pc' = pc /\ mem' = mem /\ since' = since
    BY <1>8 DEF DisableVmConsole
  <2>2. vrde' = [vrde EXCEPT ![v] = [vrde[v] EXCEPT !.enabled = FALSE]]
    BY <1>8 DEF DisableVmConsole
  <2>3. \A w \in Vms : (PortOf(w))' \in {0, PortOf(w)}
    BY <1>a, <2>2 DEF PortOf, Vrde
  <2> QED
    BY <2>1, <2>3, StillFresh
<1>9. ASSUME vrde' = vrde, pc' = pc, mem' = mem, since' = since PROVE ScanIsFresh'
  <2>1. \A w \in Vms : (PortOf(w))' = PortOf(w)
    BY <1>9 DEF PortOf
  <2> QED
    BY <1>9, <2>1, StillFresh
<1>10. ASSUME \/ \E v \in Vms : Power(v)
              \/ \E p \in Ports : HostPort(p)
              \/ UNCHANGED vars
       PROVE  ScanIsFresh'
  BY <1>9, <1>10 DEF Power, HostPort, vars
<1> QED
  BY <1>1, <1>2, <1>3, <1>4, <1>5, <1>6, <1>7, <1>8, <1>10 DEF Next, Step

\* Where the scan is fresh, a step puts a VM on another's port only if that one
\* got it during the prepare.
LEMMA NoCollision ==
  ASSUME TypeOK, ScanIsFresh, [Next]_vars, NEW v \in Vms, NEW w \in Vms,
         Collide(v, w)', ~Collide(v, w), vrde'[v] # vrde[v]
  PROVE  w \in since[v]
<1>a. vrde \in [Vms -> Vrde]
  BY DEF TypeOK
<1>1. ASSUME NEW u \in Vms, pc[u] = "enable", SetVrde(u) PROVE w \in since[v]
  <2>1. \A x \in Vms \ {u} : (PortOf(x))' = PortOf(x) /\ vrde'[x] = vrde[x]
    BY <1>1, <1>a DEF SetVrde, PortOf
  <2>2. u = v /\ w # v
    BY <2>1 DEF Collide
  <2>3. (PortOf(v))' = mem[v].port
    BY <1>1, <1>a, <2>2 DEF SetVrde, PortOf
  <2>4. PortOf(w) # 0 /\ mem[v].port = PortOf(w)
    BY <2>1, <2>2, <2>3 DEF Collide
  <2> QED
    BY <1>1, <2>2, <2>4 DEF ScanIsFresh
<1>2. ASSUME NEW u \in Vms, DisableVmConsole(u) PROVE FALSE
  <2>1. vrde' = [vrde EXCEPT ![u] = [vrde[u] EXCEPT !.enabled = FALSE]]
    BY <1>2 DEF DisableVmConsole
  <2>2. \A x \in Vms : (PortOf(x))' \in {0, PortOf(x)}
    BY <1>a, <2>1 DEF PortOf, Vrde
  <2> QED
    BY <2>2 DEF Collide
<1>3. \/ vrde' = vrde
      \/ \E u \in Vms : pc[u] = "enable" /\ SetVrde(u)
      \/ \E u \in Vms : DisableVmConsole(u)
  BY DEF Next, Step, vars, BeginPrepare, ReadCurrentVRDEPort, ScanVm, ScanDone, ReadFails,
         ChoosePort, NoPort, EnableVrde, EnableFails, VerifyAndPersist, Power, HostPort
<1> QED
  BY <1>1, <1>2, <1>3

\* A VM is put on a port that another VM has enabled only if that VM was given
\* it while the prepare was under way, for any port range, hash function,
\* failures and host programs (service.go:764-766).
THEOREM CollisionsNeedOverlap == Spec => CollisionNeedsOverlap
<1>1. Init => ScanIsFresh
  BY DEF Init, ScanIsFresh
<1>2. TypeOK /\ ScanIsFresh /\ [Next]_vars => ScanIsFresh'
  BY FreshStep
<1>3. TypeOK /\ ScanIsFresh /\ [Next]_vars
        => [\A v, w \in Vms :
              Collide(v, w)' /\ ~Collide(v, w) /\ vrde'[v] # vrde[v] => w \in since[v]]_vars
  BY NoCollision
<1> QED
  BY <1>1, <1>2, <1>3, TypeCorrect, PTL DEF Spec, CollisionNeedsOverlap

-----------------------------------------------------------------------------
(* What is stored is what was configured. *)

LEMMA SetStep ==
  ASSUME TypeOK, SetStays, [Next]_vars
  PROVE  SetStays'
<1>a. pc \in [Vms -> Pc] /\ mem \in [Vms -> Locals] /\ vrde \in [Vms -> Vrde]
  BY DEF TypeOK
\* A step of v's handler that leaves VirtualBox's settings alone and does not
\* come to the verification.
<1>b. ASSUME NEW v \in Vms, vrde' = vrde, pc'[v] # "verify",
             \A u \in Vms \ {v} : pc'[u] = pc[u] /\ mem'[u] = mem[u]
      PROVE  SetStays'
  BY <1>b DEF SetStays, PortOf
<1>1. ASSUME NEW v \in Vms,
             \/ BeginPrepare(v) \/ ReadCurrentVRDEPort(v) \/ ChoosePort(v) \/ ScanDone(v)
             \/ \E w \in Vms : ScanVm(v, w)
      PROVE  SetStays'
  <2>1. /\ vrde' = vrde /\ pc'[v] # "verify"
        /\ \A u \in Vms \ {v} : pc'[u] = pc[u] /\ mem'[u] = mem[u]
    BY <1>1, <1>a DEF BeginPrepare, ReadCurrentVRDEPort, ChoosePort, ScanDone, ScanVm
  <2> QED
    BY <1>b, <2>1
<1>2. ASSUME NEW v \in Vms, ReadFails(v) \/ NoPort(v) \/ VerifyAndPersist(v)
      PROVE  SetStays'
  <2>1. /\ vrde' = vrde /\ pc'[v] # "verify"
        /\ \A u \in Vms \ {v} : pc'[u] = pc[u] /\ mem'[u] = mem[u]
    BY <1>2, <1>a DEF ReadFails, NoPort, VerifyAndPersist, Return
  <2> QED
    BY <1>b, <2>1
<1>3. ASSUME NEW v \in Vms, EnableVrde(v) PROVE SetStays'
  <2>1. /\ vrde' = [vrde EXCEPT ![v] = [enabled |-> TRUE, local |-> TRUE, port |-> mem[v].port]]
        /\ pc' = [pc EXCEPT ![v] = "verify"] /\ mem' = mem
    BY <1>3 DEF EnableVrde, SetVrde
  <2> QED
    BY <1>a, <2>1 DEF SetStays, PortOf
<1>4. ASSUME NEW v \in Vms, EnableFails(v) PROVE SetStays'
  <2>1. /\ pc' = [pc EXCEPT ![v] = "idle"]
        /\ \A u \in Vms \ {v} : vrde'[u] = vrde[u] /\ mem'[u] = mem[u]
    BY <1>4, <1>a DEF EnableFails, SetVrde, Return
  <2> QED
    BY <1>a, <2>1 DEF SetStays, PortOf
<1>5. ASSUME NEW v \in Vms, DisableVmConsole(v) PROVE SetStays'
  <2>1. /\ vrde' = [vrde EXCEPT ![v] = [vrde[v] EXCEPT !.enabled = FALSE]]
        /\ pc' = pc /\ mem' = mem /\ pc[v] = "idle"
    BY <1>5 DEF DisableVmConsole
  <2> QED
    BY <1>a, <2>1 DEF SetStays, PortOf
<1>6. ASSUME (\E v \in Vms : Power(v)) \/ (\E p \in Ports : HostPort(p)) \/ UNCHANGED vars
      PROVE  SetStays'
  BY <1>6 DEF Power, HostPort, vars, SetStays, PortOf
<1> QED
  BY <1>1, <1>2, <1>3, <1>4, <1>5, <1>6 DEF Next, Step

LEMMA StoreStep ==
  ASSUME TypeOK, SetStays, [Next]_vars, NEW v \in Vms, store'[v] # store[v]
  PROVE  store'[v] = PortOf(v)
<1>1. VerifyAndPersist(v)
  <2>1. store \in [Vms -> Port0]
    BY DEF TypeOK
  <2>2. PICK u \in Vms : VerifyAndPersist(u)
    BY DEF Next, Step, vars, BeginPrepare, ReadCurrentVRDEPort, ScanVm, ScanDone, ReadFails,
           ChoosePort, NoPort, EnableVrde, EnableFails, DisableVmConsole, Power, HostPort
  <2> QED
    BY <2>1, <2>2 DEF VerifyAndPersist
<1>2. PortOf(v) = mem[v].port
  BY <1>1 DEF SetStays, VerifyAndPersist
<1>3. store'[v] \in {PortOf(v), mem[v].port}
  BY <1>1 DEF VerifyAndPersist, TypeOK, PortOf
<1> QED
  BY <1>2, <1>3

\* What a prepare persists is the port that VirtualBox has enabled for the VM at
\* that moment, whatever fails around it (service.go:598-617).
THEOREM StoreIsTrue == Spec => StoredWasConfigured
<1>1. Init => SetStays
  BY DEF Init, SetStays
<1>2. TypeOK /\ SetStays /\ [Next]_vars => SetStays'
  BY SetStep
<1>3. TypeOK /\ SetStays /\ [Next]_vars
        => [\A v \in Vms : store'[v] # store[v] => store'[v] = PortOf(v)]_vars
  BY StoreStep
<1> QED
  BY <1>1, <1>2, <1>3, TypeCorrect, PTL DEF Spec, StoredWasConfigured

=============================================================================
