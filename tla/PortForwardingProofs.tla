------------------------ MODULE PortForwardingProofs ------------------------
(***************************************************************************)
(* Proofs about PortForwarding, for any number of VMs, adapters, rules,    *)
(* ports and requests.                                                     *)
(***************************************************************************)
EXTENDS PortForwarding, TLAPS

LEMMA IdleTyped == Idle \in Thread
  BY DEF Idle, Thread, Modes

\* A rule belongs to a VM.
LEMMA IdsTyped ==
  ASSUME NEW i \in Ids
  PROVE  i[1] \in Adapters /\ VmOf(i) \in Vms
  BY AdaptersAssumption DEF Ids, VmOf

LEMMA InitInv == Init => Inv
<1> SUFFICES ASSUME Init PROVE Inv
  OBVIOUS
<1>1. \A t \in Threads : thr[t] = Idle
  BY DEF Init
<1> QED
  BY <1>1, IdleTyped
     DEF Init, Inv, TypeOK, Exclusive, Active, Addressed, ReadsHold, Idle

\* A request that goes on, or ends, and has changed nothing keeps the invariant,
\* if what it has read by now holds.
LEMMA MoveKeeps ==
  ASSUME Inv, NEW t \in Threads, NEW x \in Thread, Addressed(x), ReadsHold(x),
         thr' = [thr EXCEPT ![t] = x], NothingSet,
         x.pc # "idle" => \A u \in Threads : u # t /\ Active(u) => thr[u].vm # x.vm
  PROVE  Inv'
<1>1. /\ thr'[t] = x /\ thr' \in [Threads -> Thread]
      /\ \A u \in Threads : u # t => thr'[u] = thr[u]
  BY DEF Inv, TypeOK
<1>2. TypeOK'
  BY <1>1 DEF Inv, TypeOK, NothingSet
<1>3. Exclusive'
  BY <1>1 DEF Inv, Exclusive, Active
<1>4. ASSUME NEW u \in Threads PROVE Addressed(thr[u])' /\ ReadsHold(thr[u])'
  <2>1. CASE u = t
    BY <1>1, <2>1 DEF Addressed, ReadsHold, NothingSet, Forwards
  <2>2. CASE u # t
    BY <1>1, <2>2 DEF Inv, Addressed, ReadsHold, NothingSet, Forwards
  <2> QED
    BY <2>1, <2>2
<1> QED
  BY <1>2, <1>3, <1>4 DEF Inv

LEMMA ReturnKeeps ==
  ASSUME Inv, NEW t \in Threads, Return(t), NothingSet
  PROVE  Inv'
<1>1. Addressed(Idle) /\ ReadsHold(Idle) /\ Idle.pc = "idle"
  BY DEF Addressed, ReadsHold, Idle
<1> QED
  BY <1>1, IdleTyped, MoveKeeps DEF Return

\* A request that goes on with its VM.
LEMMA GoKeeps ==
  ASSUME Inv, NEW t \in Threads, Active(t), NEW x \in Thread, x.pc # "idle",
         x.vm = thr[t].vm, x.id = thr[t].id, x.port = thr[t].port, x.op = thr[t].op,
         ReadsHold(x), thr' = [thr EXCEPT ![t] = x], NothingSet
  PROVE  Inv'
<1>1. Addressed(x)
  BY DEF Inv, Addressed, Active
<1>2. \A u \in Threads : u # t /\ Active(u) => thr[u].vm # x.vm
  BY DEF Inv, Exclusive
<1> QED
  BY <1>1, <1>2, MoveKeeps

LEMMA ArriveKeeps ==
  ASSUME Inv, NEW t \in Threads, NEW op \in Ops, NEW i \in Ids, NEW p \in Ports,
         NEW m \in Modes, Arrive(t, op, i, p, m)
  PROVE  Inv'
<1> DEFINE older == {w \in Vms \ {VmOf(i)} : Forwards(rule, w, p)}
           x == [op |-> op, pc |-> "read", vm |-> VmOf(i), id |-> i, port |-> p, mode |-> m,
                 todo |-> {}, unread |-> {}, blind |-> FALSE, older |-> older]
<1>2. x \in Thread
  BY IdsTyped DEF Thread
<1>3. Addressed(x) /\ ReadsHold(x)
  BY DEF Addressed, ReadsHold
<1>4. \A u \in Threads : u # t /\ Active(u) => thr[u].vm # x.vm
  BY DEF Arrive, Locked
<1>5. thr' = [thr EXCEPT ![t] = x] /\ NothingSet
  BY DEF Arrive
<1> QED
  BY <1>2, <1>3, <1>4, <1>5, MoveKeeps

\* The steps of a request up to its command.
LEMMA ReadsKeep ==
  ASSUME Inv, NEW t \in Threads,
         \/ ReadFails(t) \/ ReadAdapter(t) \/ ReadOwn(t) \/ OwnFails(t)
         \/ List(t) \/ ListFails(t) \/ ScanDone(t)
  PROVE  Inv'
<1>1. thr[t] \in Thread /\ Addressed(thr[t]) /\ ReadsHold(thr[t]) /\ NothingSet
  BY DEF Inv, TypeOK, ReadFails, ReadAdapter, ReadOwn, OwnFails, List, ListFails, ScanDone
<1>2. CASE Return(t)
  BY <1>1, <1>2, ReturnKeeps
<1>3. ASSUME NEW pc \in {"own", "list", "command"}, Go(t, pc), Active(t),
             ReadsHold([thr[t] EXCEPT !.pc = pc])
      PROVE  Inv'
  <2> DEFINE x == [thr[t] EXCEPT !.pc = pc]
  <2>1. /\ x \in Thread /\ x.pc = pc /\ x.vm = thr[t].vm /\ x.id = thr[t].id
        /\ x.port = thr[t].port /\ x.op = thr[t].op
    BY <1>1 DEF Thread
  <2>2. thr' = [thr EXCEPT ![t] = x]
    BY <1>3 DEF Go
  <2> QED
    BY <1>1, <1>3, <2>1, <2>2, GoKeeps
<1>4. CASE ReadAdapter(t) /\ ~Return(t)
  <2>1. /\ thr[t].pc = "read"
        /\ \/ thr[t].op # "add" /\ Go(t, "command")
           \/ thr[t].op = "add" /\ mode[thr[t].id[1]] = "nat" /\ Go(t, "own")
    BY <1>4 DEF ReadAdapter
  <2> DEFINE x(pc) == [thr[t] EXCEPT !.pc = pc]
  <2>2. ASSUME NEW pc \in {"own", "command"}
        PROVE  /\ x(pc).pc = pc /\ x(pc).id = thr[t].id /\ x(pc).op = thr[t].op
               /\ x(pc).port = thr[t].port /\ x(pc).vm = thr[t].vm /\ x(pc).older = thr[t].older
    BY <1>1 DEF Thread
  <2>3. CASE thr[t].op # "add" /\ Go(t, "command")
    BY <1>3, <2>1, <2>2, <2>3 DEF ReadsHold, Active
  <2>4. CASE thr[t].op = "add" /\ mode[thr[t].id[1]] = "nat" /\ Go(t, "own")
    BY <1>1, <1>3, <2>1, <2>2, <2>4 DEF ReadsHold, Active
  <2> QED
    BY <2>1, <2>3, <2>4
<1>5. CASE ReadOwn(t) /\ ~Return(t)
  <2>1. /\ thr[t].pc = "own" /\ Go(t, "list")
        /\ ~Forwards(rule, thr[t].vm, thr[t].port)
    BY <1>5 DEF ReadOwn
  <2> DEFINE x == [thr[t] EXCEPT !.pc = "list"]
  <2>2. /\ x.pc = "list" /\ x.id = thr[t].id /\ x.op = thr[t].op /\ x.port = thr[t].port
        /\ x.vm = thr[t].vm /\ x.older = thr[t].older
    BY <1>1 DEF Thread
  <2>3. ReadsHold(x)
    BY <1>1, <2>1, <2>2 DEF ReadsHold
  <2> QED
    BY <1>3, <2>1, <2>3 DEF Active
<1>6. CASE ScanDone(t)
  <2>1. thr[t].pc = "scan" /\ thr[t].todo = {} /\ Go(t, "command")
    BY <1>6 DEF ScanDone
  <2> DEFINE x == [thr[t] EXCEPT !.pc = "command"]
  <2>2. /\ x.pc = "command" /\ x.id = thr[t].id /\ x.op = thr[t].op /\ x.port = thr[t].port
        /\ x.vm = thr[t].vm /\ x.older = thr[t].older /\ x.unread = thr[t].unread
        /\ x.blind = thr[t].blind
    BY <1>1 DEF Thread
  <2>3. ReadsHold(x)
    BY <1>1, <2>1, <2>2 DEF ReadsHold
  <2> QED
    BY <1>3, <2>1, <2>3 DEF Active
<1>7. CASE OwnFails(t)
  <2> DEFINE x == [thr[t] EXCEPT !.pc = "list", !.blind = TRUE]
  <2>1. /\ x \in Thread /\ x.pc = "list" /\ x.vm = thr[t].vm /\ x.id = thr[t].id
        /\ x.port = thr[t].port /\ x.op = thr[t].op /\ x.blind /\ x.older = thr[t].older
    BY <1>1 DEF Thread
  <2>2. thr[t].pc = "own" /\ thr' = [thr EXCEPT ![t] = x]
    BY <1>7 DEF OwnFails
  <2>3. ReadsHold(x)
    BY <1>1, <2>1, <2>2 DEF ReadsHold
  <2> QED
    BY <1>1, <2>1, <2>2, <2>3, GoKeeps DEF Active
<1>8. CASE List(t)
  <2> DEFINE x == [thr[t] EXCEPT !.pc = "scan", !.todo = Vms \ {thr[t].vm}]
  <2>1. /\ x \in Thread /\ x.pc = "scan" /\ x.vm = thr[t].vm /\ x.id = thr[t].id
        /\ x.port = thr[t].port /\ x.op = thr[t].op /\ x.blind = thr[t].blind
        /\ x.older = thr[t].older /\ x.todo = Vms \ {thr[t].vm} /\ x.older \subseteq Vms
    BY <1>1 DEF Thread
  <2>2. thr[t].pc = "list" /\ thr' = [thr EXCEPT ![t] = x]
    BY <1>8 DEF List
  <2>3. ReadsHold(x)
    BY <1>1, <2>1, <2>2 DEF ReadsHold
  <2> QED
    BY <1>1, <2>1, <2>2, <2>3, GoKeeps DEF Active
<1>9. CASE ListFails(t)
  <2> DEFINE x == [thr[t] EXCEPT !.pc = "command", !.unread = Vms]
  <2>1. /\ x \in Thread /\ x.pc = "command" /\ x.vm = thr[t].vm /\ x.id = thr[t].id
        /\ x.port = thr[t].port /\ x.op = thr[t].op /\ x.blind = thr[t].blind
        /\ x.older = thr[t].older /\ x.unread = Vms /\ x.older \subseteq Vms
    BY <1>1 DEF Thread
  <2>2. thr[t].pc = "list" /\ thr' = [thr EXCEPT ![t] = x]
    BY <1>9 DEF ListFails
  <2>3. ReadsHold(x)
    BY <1>1, <2>1, <2>2 DEF ReadsHold
  <2> QED
    BY <1>1, <2>1, <2>2, <2>3, GoKeeps DEF Active
<1> QED
  BY <1>2, <1>4, <1>5, <1>6, <1>7, <1>8, <1>9 DEF ReadFails

\* A VM that has been read has not the port, or the request has ended.
LEMMA ScanKeeps ==
  ASSUME Inv, NEW t \in Threads, NEW v \in Vms, Scan(t, v) \/ ScanFails(t, v)
  PROVE  Inv'
<1>1. thr[t] \in Thread /\ Addressed(thr[t]) /\ ReadsHold(thr[t]) /\ NothingSet
  BY DEF Inv, TypeOK, Scan, ScanFails
<1>2. CASE Return(t)
  BY <1>1, <1>2, ReturnKeeps
<1>3. CASE Scan(t, v) /\ ~Return(t)
  <2> DEFINE x == [thr[t] EXCEPT !.todo = thr[t].todo \ {v}]
  <2>1. /\ x \in Thread /\ x.pc = thr[t].pc /\ x.vm = thr[t].vm /\ x.id = thr[t].id
        /\ x.port = thr[t].port /\ x.op = thr[t].op /\ x.blind = thr[t].blind
        /\ x.older = thr[t].older /\ x.unread = thr[t].unread /\ x.todo = thr[t].todo \ {v}
    BY <1>1 DEF Thread
  <2>2. /\ thr[t].pc = "scan" /\ thr' = [thr EXCEPT ![t] = x]
        /\ ~Forwards(rule, v, thr[t].port)
    BY <1>3 DEF Scan
  <2>3. ReadsHold(x)
    BY <1>1, <2>1, <2>2 DEF ReadsHold
  <2> QED
    BY <1>1, <2>1, <2>2, <2>3, GoKeeps DEF Active
<1>4. CASE ScanFails(t, v)
  <2> DEFINE x == [thr[t] EXCEPT !.todo = thr[t].todo \ {v}, !.unread = thr[t].unread \cup {v}]
  <2>1. /\ x \in Thread /\ x.pc = thr[t].pc /\ x.vm = thr[t].vm /\ x.id = thr[t].id
        /\ x.port = thr[t].port /\ x.op = thr[t].op /\ x.blind = thr[t].blind
        /\ x.older = thr[t].older /\ x.unread = thr[t].unread \cup {v}
        /\ x.todo = thr[t].todo \ {v}
    BY <1>1 DEF Thread
  <2>2. thr[t].pc = "scan" /\ thr' = [thr EXCEPT ![t] = x]
    BY <1>4 DEF ScanFails
  <2>3. ReadsHold(x)
    BY <1>1, <2>1, <2>2 DEF ReadsHold
  <2> QED
    BY <1>1, <2>1, <2>2, <2>3, GoKeeps DEF Active
<1> QED
  BY <1>2, <1>3, <1>4

\* What a command leaves: its request has ended, and the others know what they
\* knew, since they are on other VMs; the older rules that went are forgotten.
LEMMA CommandKeeps ==
  ASSUME Inv, NEW t \in Threads, Command(t)
  PROVE  Inv'
<1>1. /\ thr[t] \in Thread /\ thr[t].pc = "command" /\ Addressed(thr[t])
      /\ mode \in [Adapters -> Modes] /\ rule \in [Ids -> Ports \cup {NoPort}]
  BY DEF Inv, TypeOK, Command
<1>2. /\ thr[t].id \in Ids /\ thr[t].id[1] \in Adapters /\ thr[t].vm = VmOf(thr[t].id)
      /\ thr[t].port \in Ports /\ thr[t].mode \in Modes
  BY <1>1, IdsTyped DEF Addressed, Thread
<1>3. /\ mode' \in [Adapters -> Modes] /\ rule' \in [Ids -> Ports \cup {NoPort}]
      /\ \A i \in Ids : VmOf(i) # thr[t].vm => rule'[i] = rule[i]
      /\ \A i \in Ids : VmOf(i) # thr[t].vm => mode'[i[1]] = mode[i[1]]
  <2>1. CASE thr[t].op = "mode"
    <3>1. mode' = [mode EXCEPT ![thr[t].id[1]] = thr[t].mode] /\ rule' = rule
      BY <2>1 DEF Command, ModeFor
    <3>2. \A i \in Ids : VmOf(i) # thr[t].vm => i[1] # thr[t].id[1] /\ i[1] \in Adapters
      BY <1>2, IdsTyped DEF VmOf
    <3> QED
      BY <1>1, <1>2, <3>1, <3>2
  <2>2. CASE thr[t].op # "mode"
    <3>1. rule' = [rule EXCEPT ![thr[t].id] = RuleFor(t)] /\ mode' = mode
      BY <2>2 DEF Command
    <3>2. RuleFor(t) \in Ports \cup {NoPort}
      BY <1>2 DEF RuleFor
    <3> QED
      BY <1>1, <1>2, <3>1, <3>2
  <2> QED
    BY <2>1, <2>2
<1> DEFINE older(u) == {w \in thr[u].older : Forwards(rule', w, thr[u].port)}
           x(u) == IF u = t THEN Idle ELSE [thr[u] EXCEPT !.older = older(u)]
<1>4. thr' = [u \in Threads |-> x(u)]
  BY DEF Command
<1>5. ASSUME NEW u \in Threads, u # t
      PROVE  /\ x(u) \in Thread /\ x(u).pc = thr[u].pc /\ x(u).vm = thr[u].vm
             /\ x(u).id = thr[u].id /\ x(u).port = thr[u].port /\ x(u).op = thr[u].op
             /\ x(u).blind = thr[u].blind /\ x(u).older = older(u)
             /\ x(u).unread = thr[u].unread /\ x(u).todo = thr[u].todo
  <2>1. thr[u] \in Thread
    BY DEF Inv, TypeOK
  <2>2. older(u) \subseteq Vms
    BY <2>1 DEF Thread
  <2> HIDE DEF older
  <2>3. [thr[u] EXCEPT !.older = older(u)] \in Thread
    BY <2>1, <2>2 DEF Thread
  <2> QED
    BY <1>5, <2>1, <2>3 DEF Thread
<1>6. ASSUME NEW u \in Threads PROVE thr'[u] = x(u) /\ x(u) \in Thread
  <2>1. CASE u = t
    BY <1>4, <2>1, IdleTyped
  <2>2. CASE u # t
    <3>1. x(u) \in Thread
      BY <1>5, <2>2
    <3> HIDE DEF x
    <3> QED
      BY <1>4, <3>1
  <2> QED
    BY <2>1, <2>2
<1>7. TypeOK'
  <2>1. thr' \in [Threads -> Thread]
    <3> HIDE DEF x
    <3> QED
      BY <1>4, <1>6
  <2> QED
    BY <1>3, <2>1 DEF TypeOK
<1>8. thr'[t].pc = "idle" /\ thr'[t].op = "none"
  <2>1. thr'[t] = Idle
    BY <1>4
  <2> QED
    BY <2>1 DEF Idle
<1>9. \A u \in Threads : u # t => thr'[u].pc = thr[u].pc /\ thr'[u].vm = thr[u].vm
  <2> HIDE DEF x
  <2> QED
    BY <1>5, <1>6
<1>10. Exclusive'
  BY <1>8, <1>9 DEF Inv, Exclusive, Active
<1>11. ASSUME NEW u \in Threads PROVE Addressed(thr[u])' /\ ReadsHold(thr[u])'
  <2>1. CASE u = t
    BY <1>8, <2>1 DEF Addressed, ReadsHold
  <2>2. CASE u # t /\ ~Active(u)
    BY <1>9, <2>2 DEF Active, Addressed, ReadsHold
  <2>3. CASE u # t /\ Active(u)
    <3>1. /\ thr'[u].pc = thr[u].pc /\ thr'[u].vm = thr[u].vm /\ thr'[u].id = thr[u].id
          /\ thr'[u].port = thr[u].port /\ thr'[u].op = thr[u].op
          /\ thr'[u].blind = thr[u].blind /\ thr'[u].unread = thr[u].unread
          /\ thr'[u].todo = thr[u].todo
          /\ thr'[u].older \subseteq thr[u].older
          /\ \A w \in thr'[u].older : Forwards(rule', w, thr[u].port)
      BY <1>5, <1>6, <2>3
    <3>2. Addressed(thr[u]) /\ ReadsHold(thr[u]) /\ thr[u].vm # thr[t].vm
      BY <1>1, <2>3 DEF Inv, Exclusive, Active
    <3>3. Addressed(thr[u])'
      BY <3>1, <3>2 DEF Addressed
    <3>4. thr[u].id \in Ids /\ thr[u].vm = VmOf(thr[u].id)
      BY <2>3, <3>2 DEF Addressed, Active
    <3>5. mode'[thr[u].id[1]] = mode[thr[u].id[1]]
      BY <1>3, <3>2, <3>4
    <3>6. Forwards(rule', thr[u].vm, thr[u].port) <=> Forwards(rule, thr[u].vm, thr[u].port)
      BY <1>3, <3>2 DEF Forwards
    <3>7. ReadsHold(thr[u])'
      BY <2>3, <3>1, <3>2, <3>5, <3>6 DEF ReadsHold
    <3> QED
      BY <3>3, <3>7
  <2> QED
    BY <2>1, <2>2, <2>3
<1> QED
  BY <1>7, <1>10, <1>11 DEF Inv

LEMMA NextKeeps == Inv /\ [Next]_vars => Inv'
<1> SUFFICES ASSUME Inv, [Next]_vars PROVE Inv'
  OBVIOUS
<1>1. CASE UNCHANGED vars
  BY <1>1 DEF vars, Inv, TypeOK, Exclusive, Active, Addressed, ReadsHold, Forwards
<1>2. CASE Next
  <2>1. PICK t \in Threads :
          \/ \E op \in Ops, i \in Ids, p \in Ports, m \in Modes : Arrive(t, op, i, p, m)
          \/ ReadFails(t) \/ ReadAdapter(t) \/ ReadOwn(t) \/ OwnFails(t)
          \/ List(t) \/ ListFails(t) \/ ScanDone(t)
          \/ \E v \in Vms : Scan(t, v) \/ ScanFails(t, v)
          \/ Command(t)
          \/ CommandFails(t)
    BY <1>2 DEF Next
  <2>2. CASE CommandFails(t)
    BY <2>2, ReturnKeeps DEF CommandFails
  <2> QED
    BY <2>1, <2>2, ArriveKeeps, ReadsKeep, ScanKeeps, CommandKeeps
<1> QED
  BY <1>1, <1>2

\* Every reachable state is well typed, a VM has one request at a time, and what an
\* add has read of its adapter, its VM and the VMs before it still holds.
THEOREM ForwardingCorrect == Spec => []Inv
  BY InitInv, NextKeeps, PTL DEF Spec

\* Every reachable state is well typed, for any number of VMs, adapters, rules and
\* requests (network.go, portforwarding.go).
THEOREM TypeCorrect == Spec => []TypeOK
<1>1. Inv => TypeOK
  BY DEF Inv
<1> QED
  BY <1>1, ForwardingCorrect, PTL

\* The step that adds a rule is the command of an add of exactly that rule.
LEMMA AddsByCommand ==
  ASSUME Inv, [Next]_vars, NEW i \in Ids, NEW p \in Ports, NEW t \in Threads, Adds(t, i, p)
  PROVE  thr[t].op = "add" /\ thr[t].id = i /\ thr[t].port = p
<1>1. rule' # rule
  BY DEF Adds
<1>2. PICK u \in Threads : Command(u)
  BY <1>1 DEF Next, vars, NothingSet, Arrive, ReadFails, ReadAdapter, ReadOwn, OwnFails,
              List, ListFails, Scan, ScanFails, ScanDone, CommandFails
<1>3. /\ thr[u].pc = "command" /\ thr[u].op # "mode"
      /\ rule' = [rule EXCEPT ![thr[u].id] = RuleFor(u)]
  BY <1>1, <1>2 DEF Command
<1>4. thr[u].id = i /\ RuleFor(u) = p
  BY <1>3 DEF Adds, Inv, TypeOK
<1>5. thr[u].vm = VmOf(i) /\ u = t
  BY <1>3, <1>4 DEF Adds, Inv, Exclusive, Addressed, Active
<1> QED
  BY <1>4, <1>5, NoPortAssumption DEF RuleFor

\* A rule is added only to an adapter that is in NAT mode when the command runs
\* (portforwarding.go:129-144).
THEOREM RulesAreOnNat == Spec => RulesGoToNat
<1>1. ASSUME Inv, [Next]_vars, NEW i \in Ids, NEW p \in Ports, NEW t \in Threads, Adds(t, i, p)
      PROVE  mode[i[1]] = "nat"
  BY <1>1, AddsByCommand DEF Inv, ReadsHold, Adds
<1>2. Inv /\ [Next]_vars =>
        [\A i \in Ids, p \in Ports, t \in Threads : Adds(t, i, p) => mode[i[1]] = "nat"]_vars
  BY <1>1
<1> QED
  BY <1>2, ForwardingCorrect, PTL DEF Spec, RulesGoToNat

\* No add gives a VM a second rule for a host port, unless it could not read the
\* VM's rules (portforwarding.go:163-171).
THEOREM PortsAreDistinct == Spec => OnePortPerVm
<1>1. ASSUME Inv, [Next]_vars, NEW i \in Ids, NEW p \in Ports, NEW t \in Threads, Adds(t, i, p)
      PROVE  ~Forwards(rule, VmOf(i), p) \/ thr[t].blind
  BY <1>1, AddsByCommand DEF Inv, ReadsHold, Adds
<1>2. Inv /\ [Next]_vars =>
        [\A i \in Ids, p \in Ports, t \in Threads :
           Adds(t, i, p) => ~Forwards(rule, VmOf(i), p) \/ thr[t].blind]_vars
  BY <1>1
<1> QED
  BY <1>2, ForwardingCorrect, PTL DEF Spec, OnePortPerVm

\* No add takes a host port from another VM whose rule is older than the request,
\* unless that VM could not be read (portforwarding.go:172-178, 276-283).
THEOREM OlderRulesStay == Spec => OlderRulesKept
<1>1. ASSUME Inv, [Next]_vars, NEW i \in Ids, NEW p \in Ports, NEW t \in Threads, Adds(t, i, p)
      PROVE  thr[t].older \subseteq thr[t].unread
  BY <1>1, AddsByCommand DEF Inv, ReadsHold, Adds
<1>2. Inv /\ [Next]_vars =>
        [\A i \in Ids, p \in Ports, t \in Threads :
           Adds(t, i, p) => thr[t].older \subseteq thr[t].unread]_vars
  BY <1>1
<1> QED
  BY <1>2, ForwardingCorrect, PTL DEF Spec, OlderRulesKept

-----------------------------------------------------------------------------

(***************************************************************************)
(* The requests use the lock of LockSpec.                                  *)
(***************************************************************************)

LEMMA WorkMembers ==
  \A v, u : <<v, u>> \in AtWorkOn <=> u \in Threads /\ Active(u) /\ thr[u].vm = v
  BY DEF AtWorkOn

\* A step of one request, which keeps its VM or ends, and moves no other between
\* working and not.
LEMMA MoveUnlocks ==
  ASSUME NEW t \in Threads, Active(t), thr[t].vm \in Vms,
         \A u \in Threads : u # t => thr'[u].pc = thr[u].pc /\ thr'[u].vm = thr[u].vm,
         Active(t)' => thr'[t].vm = thr[t].vm
  PROVE  [VmLock!LockNext]_AtWorkOn
<1>1. \A u \in Threads : u # t => (Active(u)' <=> Active(u))
  BY DEF Active
<1>2. CASE Active(t)'
  BY <1>1, <1>2 DEF AtWorkOn
<1>3. CASE ~Active(t)'
  <2>1. AtWorkOn' = AtWorkOn \ {<<thr[t].vm, t>>}
    BY <1>1, <1>3 DEF AtWorkOn
  <2>2. <<thr[t].vm, t>> \in AtWorkOn
    BY WorkMembers
  <2> QED
    BY <2>1, <2>2 DEF VmLock!LockNext, VmLock!Unlock
<1> QED
  BY <1>2, <1>3

LEMMA ArriveLocks ==
  ASSUME NEW t \in Threads, ~Active(t), NEW v \in Vms, ~Locked(v),
         Active(t)', thr'[t].vm = v,
         \A u \in Threads : u # t => thr'[u] = thr[u]
  PROVE  VmLock!LockNext
<1>1. \A u \in Threads : u # t => (Active(u)' <=> Active(u))
  BY DEF Active
<1>2. AtWorkOn' = AtWorkOn \cup {<<v, t>>}
  BY <1>1 DEF AtWorkOn
<1>3. /\ \A u \in Threads : <<v, u>> \notin AtWorkOn
      /\ \A w \in Vms : <<w, t>> \notin AtWorkOn
  BY WorkMembers DEF Locked
<1> QED
  BY <1>2, <1>3 DEF VmLock!LockNext, VmLock!TryLock

LEMMA LockStep == Inv /\ [Next]_vars => [VmLock!LockNext]_AtWorkOn
<1> SUFFICES ASSUME Inv, Next PROVE [VmLock!LockNext]_AtWorkOn
  BY DEF vars, AtWorkOn, Active
<1>1. PICK t \in Threads :
        \/ \E op \in Ops, i \in Ids, p \in Ports, m \in Modes : Arrive(t, op, i, p, m)
        \/ ReadFails(t) \/ ReadAdapter(t) \/ ReadOwn(t) \/ OwnFails(t)
        \/ List(t) \/ ListFails(t) \/ ScanDone(t)
        \/ \E v \in Vms : Scan(t, v) \/ ScanFails(t, v)
        \/ Command(t)
        \/ CommandFails(t)
  BY DEF Next
<1>2. thr \in [Threads -> Thread] /\ Addressed(thr[t])
  BY DEF Inv, TypeOK
<1>3. CASE ~Active(t)
  <2>1. PICK op \in Ops, i \in Ids, p \in Ports, m \in Modes : Arrive(t, op, i, p, m)
    BY <1>1, <1>3 DEF Active, ReadFails, ReadAdapter, ReadOwn, OwnFails, List, ListFails,
                      ScanDone, Scan, ScanFails, Command, CommandFails
  <2>2. VmOf(i) \in Vms
    BY IdsTyped
  <2>3. /\ Active(t)' /\ thr'[t].vm = VmOf(i) /\ ~Locked(VmOf(i))
        /\ \A u \in Threads : u # t => thr'[u] = thr[u]
    BY <1>2, <2>1 DEF Arrive, Active
  <2> QED
    BY <1>3, <2>2, <2>3, ArriveLocks
<1>4. CASE Active(t)
  <2>1. thr[t].vm \in Vms
    BY <1>2, <1>4, IdsTyped DEF Addressed, Active
  <2>2. CASE Command(t)
    <3>1. /\ thr'[t] = Idle
          /\ \A u \in Threads : u # t => thr'[u].pc = thr[u].pc /\ thr'[u].vm = thr[u].vm
      BY <1>2, <2>2 DEF Command, Thread
    <3> QED
      BY <1>4, <2>1, <3>1, MoveUnlocks DEF Active, Idle
  <2>3. CASE ~Command(t)
    <3>1. /\ Active(t)' => thr'[t].vm = thr[t].vm
          /\ \A u \in Threads : u # t => thr'[u] = thr[u]
      <4>1. CASE \/ ReadFails(t) \/ ReadAdapter(t) \/ ReadOwn(t) \/ ScanDone(t)
                 \/ CommandFails(t)
        BY <1>2, <4>1 DEF ReadFails, ReadAdapter, ReadOwn, ScanDone, CommandFails, Go, Return,
                          Thread, Active, Idle
      <4>2. CASE OwnFails(t) \/ List(t) \/ ListFails(t)
        BY <1>2, <4>2 DEF OwnFails, List, ListFails, Thread
      <4>3. CASE \E v \in Vms : Scan(t, v) \/ ScanFails(t, v)
        BY <1>2, <4>3 DEF Scan, ScanFails, Return, Thread, Active, Idle
      <4>4. \A op \in Ops, i \in Ids, p \in Ports, m \in Modes : ~Arrive(t, op, i, p, m)
        BY <1>4 DEF Arrive
      <4> QED
        BY <1>1, <2>3, <4>1, <4>2, <4>3, <4>4
    <3> QED
      BY <1>4, <2>1, <3>1, MoveUnlocks
  <2> QED
    BY <2>2, <2>3
<1> QED
  BY <1>3, <1>4

\* A request reads and changes a VM's rules under the lock of that VM, from its
\* first read to its return; the other VMs it reads it has not locked
\* (server.go:1555-1571).
THEOREM ForwardingLocks == Spec => UsesLock
<1>1. Init => VmLock!LockInit
  BY DEF Init, Idle, Active, AtWorkOn, VmLock!LockInit
<1> QED
  BY <1>1, LockStep, ForwardingCorrect, PTL DEF Spec, UsesLock, VmLock!LockOnly

=============================================================================
