---------------------------- MODULE VmMediaProofs ----------------------------
(***************************************************************************)
(* Proofs about VmMedia, for any number of VMs, names, threads and ports.  *)
(***************************************************************************)
EXTENDS VmMedia, TLAPS


\* The constants that records of the model take their fields from.
LEMMA Constants ==
  /\ Slots \subseteq 0..MaxPorts
  /\ \A i \in Slots : i + 1 \in 0..MaxPorts
  /\ 0 \in Slots /\ 1 \in Slots /\ 2 \in 0..MaxPorts
  /\ \A n \in Names : <<n, 0>> \in Paths
  BY BoundAssumption DEF Slots, Paths

LEMMA IdleTyped == Idle \in Thread
  BY Constants DEF Idle, Thread, Pc, Ended

\* Going on keeps the record of a thread in shape, and changes no other; the
\* password file goes when a create ends.  A thread keeps what it works on, but
\* for a request that has returned.
LEMMA GoTyped ==
  ASSUME TypeOK, NEW t \in Threads, thr[t].port \in Slots,
         NEW pc \in Pc \ {"idle"}, NEW dirty \in BOOLEAN, Go(t, pc, dirty)
  PROVE  /\ thr' \in [Threads -> Thread]
         /\ thr'[t].port \in Slots
         /\ \/ thr'[t] = Idle /\ pc \in Ended /\ thr[t].op \notin Creates
            \/ /\ thr'[t].pc = pc /\ thr'[t].op = thr[t].op /\ thr'[t].vm = thr[t].vm
               /\ thr'[t].path = thr[t].path /\ thr'[t].dirty = dirty
               /\ thr'[t].port \in {0, thr[t].port}
               /\ pc \notin Ended => thr'[t].port = thr[t].port /\ thr'[t].grow = thr[t].grow
               /\ pc \in Ended => thr[t].op \in Creates
         /\ \A u \in Threads : u # t => thr'[u] = thr[u]
         /\ cred' = IF pc \in Ended THEN cred \ {t} ELSE cred
<1> DEFINE on   == [thr[t] EXCEPT !.pc = pc, !.dirty = dirty]
           over == [Idle EXCEPT !.op = thr[t].op, !.vm = thr[t].vm, !.path = thr[t].path,
                                !.pc = pc, !.dirty = dirty]
           new  == IF pc \notin Ended THEN on ELSE IF thr[t].op \notin Creates THEN Idle ELSE over
<1>1. thr[t] \in Thread /\ thr \in [Threads -> Thread]
  BY DEF TypeOK
<1>2. on \in Thread /\ over \in Thread /\ Idle \in Thread
  BY <1>1, IdleTyped DEF Thread
<1>3. thr' = [thr EXCEPT ![t] = new] /\ cred' = IF pc \in Ended THEN cred \ {t} ELSE cred
  BY DEF Go, At
<1>4. thr' \in [Threads -> Thread] /\ thr'[t] = new /\ \A u \in Threads : u # t => thr'[u] = thr[u]
  BY <1>1, <1>2, <1>3
<1>5. /\ on.pc = pc /\ on.op = thr[t].op /\ on.vm = thr[t].vm /\ on.path = thr[t].path
      /\ on.dirty = dirty /\ on.port = thr[t].port /\ on.grow = thr[t].grow
  BY <1>1 DEF Thread
<1>6. /\ over.pc = pc /\ over.op = thr[t].op /\ over.vm = thr[t].vm /\ over.path = thr[t].path
      /\ over.dirty = dirty /\ over.port = 0 /\ Idle.port = 0
  BY DEF Idle
<1> HIDE DEF on, over
<1>7. CASE pc \notin Ended
  BY <1>3, <1>4, <1>5, <1>7
<1>8. CASE pc \in Ended /\ thr[t].op \notin Creates
  BY <1>3, <1>4, <1>6, <1>8, Constants
<1>9. CASE pc \in Ended /\ thr[t].op \in Creates
  BY <1>3, <1>4, <1>6, <1>9, Constants
<1> QED
  BY <1>7, <1>8, <1>9

\* The step tables stay within the program counters, and none but the password
\* file leads to the command that reads it.
LEMMA NextSteps ==
  ASSUME NEW op, NEW pc \in Commands, NEW grow
  PROVE  /\ OnSuccess(op, pc, grow) \in Pc \ {"idle", "unattended", "createvm", "read"}
         /\ OnFailure(op, pc) \in Pc \ {"idle", "unattended", "createvm", "read"}
         /\ FirstCommand(op, grow) \in Pc \ (Ended \cup {"unattended", "createvm", "read"})
  BY DEF OnSuccess, OnFailure, FirstCommand, Pc, Commands, Ended, Creates

\* A port that is planned exists or is the next one, and a path is one of the
\* VM's own.
LEMMA PlanTyped ==
  ASSUME Inv, NEW t \in Threads, thr[t].pc = "read", vm[thr[t].vm].st = "registered",
         NEW c \in Plan(t)
  PROVE  /\ c[1] \in Slots /\ c[2] \in Paths \cup {Free}
         /\ thr[t].op = "detach" => c[2] = thr[t].path
<1> DEFINE v == thr[t].vm
<1>1. v \in Vms /\ thr[t] \in Thread /\ vm[v] \in Vm
  BY DEF Inv, TypeOK, Chosen
<1>2. vm[v].name \in Names /\ vm[v].ports \in 0..MaxPorts
  BY <1>1 DEF Vm, Inv, Named
<1>3. TargetPorts(v) \subseteq Slots
  BY <1>2, BoundAssumption DEF TargetPorts, Slots
<1>4. FirstDrive(v) \subseteq Slots
  BY DEF FirstDrive, Drives
<1>5. DvdTargets(v) \subseteq Slots
  BY <1>3, <1>4 DEF DvdTargets
<1>6. NextDiskPath(vm[v].name) \subseteq Paths
  <2> DEFINE n == vm[v].name
  <2> SUFFICES ASSUME NEW q \in NextDiskPath(n) PROVE q \in Paths
    OBVIOUS
  <2>1. PICK k \in 1..MaxExtra : q = <<n, k>>
    BY DEF NextDiskPath
  <2>2. k \in 0..MaxExtra
    BY BoundAssumption
  <2> QED
    BY <1>2, <2>1, <2>2 DEF Paths
<1>7. thr[t].path \in Paths \cup {Free}
  BY <1>1 DEF Thread
<1>8. CASE thr[t].op = "add"
  BY <1>8, <1>3, <1>6 DEF Plan
<1>9. CASE thr[t].op = "mount"
  BY <1>9, <1>5 DEF Plan
<1>10. CASE thr[t].op = "eject"
  BY <1>10, <1>4 DEF Plan
<1>11. CASE thr[t].op = "delete"
  BY <1>11, Constants DEF Plan
<1>12. CASE thr[t].op = "additions"
  BY <1>12, <1>3 DEF Plan, AdditionsTargets, Drives
<1>13. CASE thr[t].op \notin {"add", "mount", "eject", "additions", "delete"}
  BY <1>13, <1>7 DEF Plan
<1> QED
  BY <1>8, <1>9, <1>10, <1>11, <1>12, <1>13

\* A VM whose controller is emptied is still a VM.
LEMMA GoneTyped ==
  ASSUME NEW w \in Vm, NEW slots \in [Slots -> Paths \cup {Free, Dvd}]
  PROVE  /\ [w EXCEPT !.st = "gone", !.ports = 0, !.slot = slots] \in Vm
         /\ [w EXCEPT !.st = "gone", !.ports = 0, !.slot = slots].st = "gone"
<1> DEFINE a == [w EXCEPT !.st = "gone"]
           b == [a EXCEPT !.ports = 0]
           c == [b EXCEPT !.slot = slots]
<1>1. a \in Vm /\ a.st = "gone"
  BY DEF Vm
<1>2. 0 \in 0..MaxPorts
  BY BoundAssumption
<1>3. [w EXCEPT !.st = "gone", !.ports = 0, !.slot = slots] = c
  OBVIOUS
<1> HIDE DEF a
<1>4. b \in Vm /\ b.st = "gone"
  BY <1>1, <1>2 DEF Vm
<1> HIDE DEF b
<1>5. c \in Vm /\ c.st = "gone"
  BY <1>4 DEF Vm
<1> QED
  BY <1>3, <1>5

\* What VirtualBox changes is well typed, and registers nobody.
LEMMA AppliedTyped ==
  ASSUME Inv, NEW t \in Threads, Applied(t)
  PROVE  /\ vm' \in [Vms -> Vm] /\ file' \in [Paths -> Vms \cup {NoVm}]
         /\ Named'
<1> DEFINE v == thr[t].vm
           p == thr[t].path
<1>1. /\ thr[t] \in Thread /\ vm \in [Vms -> Vm] /\ file \in [Paths -> Vms \cup {NoVm}]
      /\ v \in Vms \cup {NoVm} /\ p \in Paths \cup {Free} /\ thr[t].port \in Slots
      /\ Named
  BY DEF Inv, TypeOK, Chosen, Thread
<1>2. ASSUME NEW i \in Slots, NEW m \in Paths \cup {Free, Dvd}, SetSlot(v, i, m)
      PROVE  vm' \in [Vms -> Vm] /\ Named'
  <2> DEFINE new == [vm[v] EXCEPT !.slot = [vm[v].slot EXCEPT ![i] = m]]
  <2>1. vm' = [vm EXCEPT ![v] = new]
    BY <1>2 DEF SetSlot
  <2>2. v \in Vms => new \in Vm /\ new.st = vm[v].st /\ new.name = vm[v].name
    BY <1>1 DEF Vm
  <2> QED
    BY <1>1, <2>1, <2>2 DEF Named
<1>3. ASSUME NEW n \in 0..MaxPorts, SetPorts(v, n)
      PROVE  vm' \in [Vms -> Vm] /\ Named'
  <2> DEFINE new == [vm[v] EXCEPT !.ports = n]
  <2>1. vm' = [vm EXCEPT ![v] = new]
    BY <1>3 DEF SetPorts
  <2>2. v \in Vms => new \in Vm /\ new.st = vm[v].st /\ new.name = vm[v].name
    BY <1>1 DEF Vm
  <2> QED
    BY <1>1, <2>1, <2>2 DEF Named
<1>4. UNCHANGED vm => vm' \in [Vms -> Vm] /\ Named'
  BY <1>1 DEF Named
<1>5. UNCHANGED file => file' \in [Paths -> Vms \cup {NoVm}]
  BY <1>1
<1>6. CASE thr[t].pc = "disk"
  BY <1>6, <1>1, <1>4 DEF Applied
<1>7. CASE thr[t].pc = "ctl"
  BY <1>7, <1>3, <1>5, Constants DEF Applied
<1>8. CASE thr[t].pc = "grow"
  BY <1>8, <1>1, <1>3, <1>5, Constants DEF Applied
<1>9. CASE thr[t].pc = "attach"
  BY <1>9, <1>1, <1>2, <1>5 DEF Applied
<1>10. CASE thr[t].pc = "dvd"
  <2>1. (IF thr[t].op = "manual" THEN 1 ELSE thr[t].port) \in Slots
    BY <1>1, Constants
  <2> QED
    BY <1>10, <2>1, <1>2, <1>5 DEF Applied
<1>11. CASE thr[t].pc = "detach"
  BY <1>11, <1>1, <1>2, <1>5 DEF Applied
<1>12. CASE thr[t].pc = "unregister"
  <2> DEFINE none == [i \in Slots |-> Free]
             new  == [vm[v] EXCEPT !.st = "gone", !.ports = 0, !.slot = none]
  <2>1. /\ vm' = [vm EXCEPT ![v] = new]
        /\ file' = [q \in Paths |-> IF Holds(v, q) THEN NoVm ELSE file[q]]
    BY <1>12 DEF Applied, Unregisters
  <2>2. none \in [Slots -> Paths \cup {Free, Dvd}]
    OBVIOUS
  <2> HIDE DEF none
  <2>3. v \in Vms => new \in Vm /\ new.st = "gone"
    BY <1>1, <2>2, GoneTyped
  <2> HIDE DEF new
  <2> QED
    BY <1>1, <2>1, <2>3 DEF Named
<1>13. CASE thr[t].pc = "close"
  BY <1>13, <1>1, <1>4 DEF Applied, Closes
<1>14. CASE thr[t].pc \notin {"disk", "ctl", "grow", "attach", "dvd", "detach", "unregister", "close"}
  BY <1>14, <1>4, <1>5 DEF Applied
<1> QED
  BY <1>6, <1>7, <1>8, <1>9, <1>10, <1>11, <1>12, <1>13, <1>14

-----------------------------------------------------------------------------

\* A thread that goes on keeps the invariant, the host's part given.
LEMMA GoKeeps ==
  ASSUME Inv, NEW t \in Threads, Active(t),
         NEW pc \in Pc \ {"idle", "unattended", "createvm", "read"}, NEW dirty \in BOOLEAN,
         Go(t, pc, dirty),
         vm' \in [Vms -> Vm], file' \in [Paths -> Vms \cup {NoVm}], kept' \subseteq Paths,
         UNCHANGED early, Named'
  PROVE  Inv'
<1>1. /\ thr' \in [Threads -> Thread] /\ thr'[t].port \in Slots
      /\ \/ thr'[t] = Idle /\ pc \in Ended
         \/ thr'[t].pc = pc /\ thr'[t].op = thr[t].op /\ thr'[t].path = thr[t].path
      /\ \A u \in Threads : u # t => thr'[u] = thr[u]
      /\ cred' = IF pc \in Ended THEN cred \ {t} ELSE cred
  BY GoTyped DEF Inv, Chosen
<1> USE DEF Idle
<1>2. TypeOK'
  BY <1>1 DEF Inv, TypeOK
<1>3. Chosen'
  BY <1>1 DEF Inv, Chosen
<1>4. CredentialLifetime'
  <2>1. ASSUME NEW u \in Threads, thr'[u].pc = "unattended" PROVE u \in cred'
    BY <1>1, <2>1 DEF Inv, CredentialLifetime
  <2>2. ASSUME NEW u \in cred' PROVE Active(u)'
    BY <1>1, <2>2 DEF Inv, CredentialLifetime, Active, TypeOK
  <2> QED
    BY <2>1, <2>2 DEF CredentialLifetime
<1> QED
  BY <1>2, <1>3, <1>4 DEF Inv

\* A step of a thread that leaves the host's part alone and does not end keeps
\* the invariant.
LEMMA MoveKeeps ==
  ASSUME Inv, NEW t \in Threads, NEW new \in Thread,
         thr' = [thr EXCEPT ![t] = new],
         new.port \in Slots,
         new.pc = "createvm" => new.path \in Paths,
         new.pc = "read" => new.vm \in Vms,
         new.op = "detach" => new.path \in Paths,
         new.pc = "unattended" => t \in cred',
         new.pc \in Ended => t \notin cred',
         cred' \in {cred, cred \cup {t}, cred \ {t}},
         vm' \in [Vms -> Vm], Named', UNCHANGED <<file, kept>>,
         UNCHANGED early \/ early' \subseteq Vms
  PROVE  Inv'
<1>1. /\ thr' \in [Threads -> Thread] /\ thr'[t] = new
      /\ \A u \in Threads : u # t => thr'[u] = thr[u]
  BY DEF Inv, TypeOK
<1>2. TypeOK'
  BY <1>1 DEF Inv, TypeOK
<1>3. Chosen'
  BY <1>1 DEF Inv, Chosen
<1>4. CredentialLifetime'
  <2>1. ASSUME NEW u \in Threads, thr'[u].pc = "unattended" PROVE u \in cred'
    BY <1>1, <2>1 DEF Inv, CredentialLifetime
  <2>2. ASSUME NEW u \in cred' PROVE Active(u)'
    BY <1>1, <2>2 DEF Inv, CredentialLifetime, Active, TypeOK
  <2> QED
    BY <2>1, <2>2 DEF CredentialLifetime
<1> QED
  BY <1>2, <1>3, <1>4 DEF Inv

\* A new VM is well typed and has a name.
LEMMA RegistersTyped ==
  ASSUME Inv, NEW v \in Vms, NEW n \in Names, Registers(v, n)
  PROVE  vm' \in [Vms -> Vm] /\ Named'
<1> DEFINE new == [vm[v] EXCEPT !.st = "registered", !.name = n]
<1>1. vm' = [vm EXCEPT ![v] = new]
  BY DEF Registers
<1>2. vm \in [Vms -> Vm] /\ Named
  BY DEF Inv, TypeOK
<1>3. new \in Vm /\ new.name = n
  BY <1>2 DEF Vm
<1> QED
  BY <1>1, <1>2, <1>3 DEF Named

-----------------------------------------------------------------------------

LEMMA InitInv == Init => Inv
<1> SUFFICES ASSUME Init PROVE Inv
  OBVIOUS
<1>1. [st |-> "new", name |-> NoName, ports |-> 0, slot |-> [i \in Slots |-> Free]] \in Vm
  BY BoundAssumption DEF Vm
<1>2. TypeOK
  BY <1>1, IdleTyped DEF Init, TypeOK
<1>3. Chosen /\ Named /\ CredentialLifetime
  BY Constants DEF Init, Chosen, Named, CredentialLifetime, Idle
<1> QED
  BY <1>2, <1>3 DEF Inv

\* A step starts a request or a create job, is a timeout, or goes on with one.
LEMMA StepKinds ==
  ASSUME Next
  PROVE  \E t \in Threads :
           \/ \E op \in Ops, n \in Names : ArriveCreate(t, op, n)
           \/ \E op \in Ops, v \in Vms, p \in Paths \cup {Free} : Arrive(t, op, v, p)
           \/ Timeout(t)
           \/ Step(t)
  BY DEF Next

\* A request or a create job starts.
LEMMA ArriveKeeps ==
  ASSUME Inv, NEW t \in Threads,
         \/ \E op \in Ops, n \in Names : ArriveCreate(t, op, n)
         \/ \E op \in Ops, v \in Vms, p \in Paths \cup {Free} : Arrive(t, op, v, p)
  PROVE  Inv'
<1>1. vm \in [Vms -> Vm] /\ Named
  BY DEF Inv, TypeOK
<1>2. CASE \E op \in Ops, n \in Names : ArriveCreate(t, op, n)
  <2>1. PICK op \in Ops, n \in Names : ArriveCreate(t, op, n)
    BY <1>2
  <2> DEFINE new == [Idle EXCEPT !.op = op, !.path = <<n, 0>>, !.pc = "createvm"]
  <2>2. thr' = [thr EXCEPT ![t] = new] /\ UNCHANGED <<vm, file, cred, kept, early>>
    BY <2>1 DEF ArriveCreate
  <2>3. new \in Thread /\ new.port \in Slots /\ new.path \in Paths /\ new.pc = "createvm"
    BY IdleTyped, Constants DEF Thread, Idle, Pc, Commands
  <2>4. Named'
    BY <1>1, <2>2 DEF Named
  <2> QED
    BY <1>1, <2>2, <2>3, <2>4, MoveKeeps DEF Ended
<1>3. CASE \E op \in Ops, v \in Vms, p \in Paths \cup {Free} : Arrive(t, op, v, p)
  <2>1. PICK op \in Ops, v \in Vms, p \in Paths \cup {Free} : Arrive(t, op, v, p)
    BY <1>3
  <2> DEFINE new == [Idle EXCEPT !.op = op, !.vm = v, !.path = p, !.pc = "read"]
  <2>2. /\ thr' = [thr EXCEPT ![t] = new] /\ UNCHANGED <<vm, file, cred, kept>>
        /\ early' \subseteq Vms
    BY <2>1 DEF Arrive, Inv, TypeOK
  <2>3. /\ new \in Thread /\ new.port \in Slots /\ new.vm \in Vms /\ new.pc = "read"
        /\ new.op = "detach" => new.path \in Paths
    BY <2>1, IdleTyped, Constants DEF Thread, Idle, Pc, Arrive
  <2>4. Named'
    BY <1>1, <2>2 DEF Named
  <2> QED
    BY <1>1, <2>2, <2>3, <2>4, MoveKeeps DEF Ended
<1> QED
  BY <1>2, <1>3

\* A create runs out of time.
LEMMA TimeoutKeeps ==
  ASSUME Inv, NEW t \in Threads, Timeout(t)
  PROVE  Inv'
<1> DEFINE new == [thr[t] EXCEPT !.late = TRUE]
<1>1. /\ thr' = [thr EXCEPT ![t] = new] /\ UNCHANGED <<vm, file, cred, kept, early>>
      /\ Active(t)
  BY DEF Timeout
<1>2. vm \in [Vms -> Vm] /\ Named /\ thr[t] \in Thread
  BY DEF Inv, TypeOK
<1>3. /\ new \in Thread /\ new.port = thr[t].port /\ new.pc = thr[t].pc
      /\ new.path = thr[t].path /\ new.vm = thr[t].vm /\ new.op = thr[t].op
  BY <1>2 DEF Thread
<1>4. /\ new.port \in Slots
      /\ new.pc = "createvm" => new.path \in Paths
      /\ new.pc = "read" => new.vm \in Vms
      /\ new.op = "detach" => new.path \in Paths
      /\ new.pc = "unattended" => t \in cred'
      /\ new.pc \notin Ended
  BY <1>1, <1>3 DEF Inv, Chosen, CredentialLifetime, Active
<1>5. Named'
  BY <1>1, <1>2 DEF Named
<1> QED
  BY <1>1, <1>2, <1>3, <1>4, <1>5, MoveKeeps

\* The machine is read and the port and the image are chosen from it.
LEMMA ReadKeeps ==
  ASSUME Inv, NEW t \in Threads, Read(t)
  PROVE  Inv'
<1>1. PICK c \in Plan(t) :
        LET grow == c[1] >= vm[thr[t].vm].ports
        IN thr' = [thr EXCEPT ![t] = [thr[t] EXCEPT
                     !.port = c[1], !.path = c[2], !.grow = grow,
                     !.pc = FirstCommand(thr[t].op, grow)]]
  BY DEF Read
<1> DEFINE grow == c[1] >= vm[thr[t].vm].ports
           pc   == FirstCommand(thr[t].op, grow)
           new  == [thr[t] EXCEPT !.port = c[1], !.path = c[2], !.grow = grow, !.pc = pc]
<1>2. thr' = [thr EXCEPT ![t] = new] /\ UNCHANGED <<vm, file, cred, kept, early>>
  BY <1>1 DEF Read
<1>3. vm \in [Vms -> Vm] /\ Named /\ thr[t] \in Thread
  BY DEF Inv, TypeOK
<1>4. /\ c[1] \in Slots /\ c[2] \in Paths \cup {Free}
      /\ thr[t].op = "detach" => c[2] \in Paths
  BY PlanTyped DEF Read, Inv, Chosen
<1>5. pc \in Pc \ (Ended \cup {"unattended", "createvm", "read"})
  BY NextSteps, "detach" \in Commands DEF Commands
<1>6. grow \in BOOLEAN
  OBVIOUS
<1> HIDE DEF grow, pc
<1>7. /\ new \in Thread /\ new.port = c[1] /\ new.pc = pc
      /\ new.op = thr[t].op /\ new.path = c[2]
  BY <1>3, <1>4, <1>5, <1>6, Constants DEF Thread
<1>8. Named'
  BY <1>2, <1>3 DEF Named
<1> QED
  BY <1>2, <1>3, <1>4, <1>5, <1>7, <1>8, MoveKeeps

\* createvm succeeds.
LEMMA CreateVmKeeps ==
  ASSUME Inv, NEW t \in Threads, CreateVm(t)
  PROVE  Inv'
<1>1. PICK v \in Vms :
        /\ Registers(v, thr[t].path[1])
        /\ thr' = [thr EXCEPT ![t] = [thr[t] EXCEPT !.vm = v, !.pc = "modify"]]
  BY DEF CreateVm
<1> DEFINE new == [thr[t] EXCEPT !.vm = v, !.pc = "modify"]
<1>2. /\ thr[t] \in Thread /\ thr[t].port \in Slots
      /\ thr[t].path \in Paths /\ thr[t].path[1] \in Names
  BY DEF CreateVm, Inv, TypeOK, Chosen, Paths
<1>3. vm' \in [Vms -> Vm] /\ Named'
  BY <1>1, <1>2, RegistersTyped
<1>4. /\ new \in Thread /\ new.port = thr[t].port /\ new.pc = "modify"
      /\ new.path = thr[t].path
  BY <1>2 DEF Thread, Pc, Commands
<1> QED
  BY <1>1, <1>2, <1>3, <1>4, MoveKeeps DEF CreateVm, Ended

\* A create that ends without knowing that it made v.
Blind(t, v) ==
  [Idle EXCEPT !.op = thr[t].op, !.vm = v, !.path = thr[t].path, !.pc = "failed",
               !.blind = TRUE]

LEMMA BlindFields ==
  ASSUME NEW t, NEW v
  PROVE  /\ Blind(t, v).op = thr[t].op /\ Blind(t, v).vm = v
         /\ Blind(t, v).path = thr[t].path /\ Blind(t, v).pc = "failed"
         /\ Blind(t, v).port = 0 /\ Blind(t, v).blind
  BY DEF Blind, Idle

\* The steps that read or write on the host beside VirtualBox.
LEMMA HostKeeps ==
  ASSUME Inv, NEW t \in Threads,
         \/ ReadFails(t) \/ CreateVmFails(t) \/ WriteFails(t) \/ StatDisk(t) \/ RemoveDisk(t)
  PROVE  Inv'
<1>1. /\ vm \in [Vms -> Vm] /\ file \in [Paths -> Vms \cup {NoVm}] /\ kept \subseteq Paths
      /\ Named /\ thr[t] \in Thread /\ thr[t].dirty \in BOOLEAN
  BY DEF Inv, TypeOK, Thread
<1>2. {"failed", "close", "unregister"} \subseteq Pc \ {"idle", "unattended", "createvm", "read"}
  BY DEF Pc, Ended, Commands
<1>3. Active(t)
  BY DEF Active, Ended, ReadFails, CreateVmFails, WriteFails, StatDisk, RemoveDisk
<1>4. UNCHANGED vm => vm' \in [Vms -> Vm] /\ Named'
  BY <1>1 DEF Named
<1>5. CASE ReadFails(t)
  BY <1>5, <1>1, <1>2, <1>3, <1>4, GoKeeps DEF ReadFails
<1>6. CASE CreateVmFails(t)
  <2>1. CASE UNCHANGED vm /\ Go(t, "failed", FALSE)
    BY <1>6, <2>1, <1>1, <1>2, <1>3, <1>4, GoKeeps DEF CreateVmFails
  <2>2. ASSUME NEW v \in Vms, Registers(v, thr[t].path[1]), cred' = cred \ {t},
               thr' = [thr EXCEPT ![t] = Blind(t, v)]
        PROVE  Inv'
    <3>1. thr[t].path \in Paths /\ thr[t].path[1] \in Names
      BY <1>6 DEF CreateVmFails, Inv, Chosen, Paths
    <3>2. vm' \in [Vms -> Vm] /\ Named'
      BY <2>2, <3>1, RegistersTyped
    <3>3. Blind(t, v) \in Thread
      BY <1>1, IdleTyped DEF Blind, Thread, Pc, Ended
    <3>4. /\ Blind(t, v).port \in Slots /\ Blind(t, v).pc = "failed"
          /\ Blind(t, v).path \in Paths
      BY <3>1, BlindFields, Constants
    <3> QED
      BY <1>6, <2>2, <3>1, <3>2, <3>3, <3>4, MoveKeeps DEF CreateVmFails
  <2> QED
    BY <1>6, <2>1, <2>2 DEF CreateVmFails, Blind
<1>7. CASE WriteFails(t)
  BY <1>7, <1>1, <1>2, <1>3, <1>4, GoKeeps DEF WriteFails
<1>8. CASE StatDisk(t)
  BY <1>8, <1>1, <1>2, <1>3, <1>4, GoKeeps DEF StatDisk
<1>9. CASE RemoveDisk(t)
  <2>1. PICK dirty \in BOOLEAN : Go(t, "failed", dirty)
    BY <1>9, <1>1 DEF RemoveDisk
  <2>2. file' \in [Paths -> Vms \cup {NoVm}]
    BY <1>9, <1>1 DEF RemoveDisk
  <2> QED
    BY <1>9, <2>1, <2>2, <1>1, <1>2, <1>3, <1>4, GoKeeps DEF RemoveDisk
<1> QED
  BY <1>5, <1>6, <1>7, <1>8, <1>9

\* A VBoxManage command ends, well or not.
LEMMA CommandKeeps ==
  ASSUME Inv, NEW t \in Threads, CommandDone(t) \/ CommandFails(t)
  PROVE  Inv'
<1>1. /\ vm \in [Vms -> Vm] /\ file \in [Paths -> Vms \cup {NoVm}] /\ kept \subseteq Paths
      /\ Named /\ thr[t].dirty \in BOOLEAN /\ thr[t].path \in Paths \cup {Free}
  BY DEF Inv, TypeOK, Thread
<1>2. thr[t].pc \in Commands /\ Active(t)
  BY DEF CommandDone, CommandFails, Active, Commands, Ended
<1>3. UNCHANGED <<vm, file>> =>
        vm' \in [Vms -> Vm] /\ Named' /\ file' \in [Paths -> Vms \cup {NoVm}]
  BY <1>1 DEF Named
<1>4. vm' \in [Vms -> Vm] /\ Named' /\ file' \in [Paths -> Vms \cup {NoVm}]
  BY <1>3, AppliedTyped DEF CommandDone, CommandFails
<1>5. CASE CommandDone(t)
  <2>1. kept' \subseteq Paths
    BY <1>5, <1>1 DEF CommandDone, Inv, Chosen
  <2> QED
    BY <1>5, <2>1, <1>1, <1>2, <1>4, NextSteps, GoKeeps DEF CommandDone
<1>6. CASE CommandFails(t)
  <2> DEFINE dirty == thr[t].dirty \/ (thr[t].pc = "unregister" /\ ~Blocked(t))
  <2>1. dirty \in BOOLEAN
    BY <1>1
  <2>2. /\ Go(t, OnFailure(thr[t].op, thr[t].pc), dirty) /\ kept' \subseteq Paths
        /\ UNCHANGED early
    BY <1>6, <1>1 DEF CommandFails
  <2> QED
    BY <2>1, <2>2, <1>2, <1>4, NextSteps, GoKeeps
<1> QED
  BY <1>5, <1>6

\* The password file is written.
LEMMA WriteKeeps ==
  ASSUME Inv, NEW t \in Threads, WriteCredentialFile(t)
  PROVE  Inv'
<1> DEFINE new == [thr[t] EXCEPT !.pc = "unattended"]
<1>1. /\ thr[t] \in Thread /\ thr[t].port \in Slots /\ vm \in [Vms -> Vm] /\ Named
      /\ thr[t].op = "detach" => thr[t].path \in Paths
  BY DEF Inv, TypeOK, Chosen
<1>2. /\ new \in Thread /\ new.port = thr[t].port /\ new.pc = "unattended"
      /\ new.op = thr[t].op /\ new.path = thr[t].path
  BY <1>1 DEF Thread, Pc, Commands
<1>3. Named' /\ vm' \in [Vms -> Vm]
  BY <1>1 DEF Named, WriteCredentialFile
<1> QED
  BY <1>1, <1>2, <1>3, MoveKeeps DEF WriteCredentialFile, Ended

LEMMA NextKeeps == Inv /\ [Next]_vars => Inv'
<1> SUFFICES ASSUME Inv, [Next]_vars PROVE Inv'
  OBVIOUS
<1>1. CASE UNCHANGED vars
  BY <1>1 DEF vars, Inv, TypeOK, Chosen, Named, CredentialLifetime, Active
<1>2. CASE Next
  <2>1. PICK t \in Threads :
          \/ \E op \in Ops, n \in Names : ArriveCreate(t, op, n)
          \/ \E op \in Ops, v \in Vms, p \in Paths \cup {Free} : Arrive(t, op, v, p)
          \/ Timeout(t)
          \/ Step(t)
    BY <1>2, StepKinds
  <2>2. CASE Step(t)
    BY <2>2, ReadKeeps, CreateVmKeeps, HostKeeps, CommandKeeps, WriteKeeps DEF Step
  <2> QED
    BY <2>1, <2>2, ArriveKeeps, TimeoutKeeps
<1> QED
  BY <1>1, <1>2

\* Every reachable state is well typed, a registered VM has a name, and a
\* thread acts on a port that its controller has or can grow by.
THEOREM MediaCorrect == Spec => []Inv
  BY InitInv, NextKeeps, PTL DEF Spec

\* Every reachable state is well typed, for any number of VMs and threads and
\* any controller size (createvm.go, storage.go, dvd.go, deletevm.go).
THEOREM TypeCorrect == Spec => []TypeOK
<1>1. Inv => TypeOK
  BY DEF Inv
<1> QED
  BY <1>1, MediaCorrect, PTL

\* The password file of an unattended install is on the host whenever
\* VBoxManage runs with its name, and no create that has returned, by whichever
\* path, leaves one behind (createvm.go:176-199).
THEOREM CredentialsRemoved == Spec => []CredentialLifetime
<1>1. Inv => CredentialLifetime
  BY DEF Inv
<1> QED
  BY <1>1, MediaCorrect, PTL

-----------------------------------------------------------------------------

(***************************************************************************)
(* The images.  What a step does to the VM and the files it touches is     *)
(* stated once (AppliedEffect, After); each part of ImagesInv is then      *)
(* proved over it.                                                         *)
(***************************************************************************)

\* An empty port, a disc and an image are three things.
LEMMA PathFacts ==
  /\ Free \notin Paths /\ Dvd \notin Paths /\ Free # Dvd
  /\ \A p \in Names \X {0} : p \in Paths /\ p[1] \in Names /\ p[2] = 0
  /\ \A p \in Paths : p[1] \in Names
  BY NoNameAssumption, BoundAssumption DEF Free, Dvd, Paths

\* The port that the command of t acts on, and what it puts there.
Target(t) == IF thr[t].pc = "dvd" /\ thr[t].op = "manual" THEN 1 ELSE thr[t].port
Put(t)    == CASE thr[t].pc = "attach" -> thr[t].path
               [] thr[t].pc = "dvd"    -> Dvd
               [] OTHER                -> Free

\* The command that thread t runs works on a VM and a port of it, and the image
\* it puts there is one.
LEMMA CommandTyped ==
  ASSUME Inv, Shape, NEW t \in Threads, thr[t].pc \in Commands \ {"createvm"}
  PROVE  /\ thr[t].vm \in Vms /\ vm[thr[t].vm] \in Vm /\ thr[t] \in Thread
         /\ Target(t) \in Slots
<1>1. thr[t] \in Thread /\ thr[t].port \in Slots /\ vm \in [Vms -> Vm]
  BY DEF Inv, TypeOK, Chosen
<1>2. thr[t].op \in Ops \cup {"none"} /\ thr[t].pc \in StepsOf(thr[t].op)
  BY <1>1 DEF Shape, Thread
<1>3. thr[t].op # "none" /\ thr[t].pc # "failed"
  BY <1>2 DEF StepsOf, Commands
<1>4. thr[t].vm \in Vms
  BY <1>2, <1>3 DEF Shape
<1>5. Target(t) \in Slots
  BY <1>1, Constants DEF Target
<1> QED
  BY <1>1, <1>4, <1>5

\* What a command that takes effect changes of the VM.
LEMMA AppliedEffect ==
  ASSUME Inv, Shape, NEW t \in Threads, thr[t].pc \in Commands \ {"createvm"}, Applied(t)
  PROVE  LET v  == thr[t].vm
             pc == thr[t].pc
         IN /\ v \in Vms
            /\ \A w \in Vms \ {v} : vm'[w] = vm[w]
            /\ vm'[v].name = vm[v].name
            /\ pc # "unregister" => vm'[v].st = vm[v].st
            /\ pc = "unregister" => /\ vm'[v].st = "gone" /\ vm'[v].ports = 0
                                    /\ \A i \in Slots : vm'[v].slot[i] = Free
            /\ pc \notin {"disk", "close"} => vm[v].st = "registered"
            /\ pc \in {"attach", "dvd", "detach"} =>
                 /\ Target(t) < vm[v].ports
                 /\ \A i \in Slots :
                      vm'[v].slot[i] = IF i = Target(t) THEN Put(t) ELSE vm[v].slot[i]
            /\ pc \notin {"attach", "dvd", "detach", "unregister"} => vm'[v].slot = vm[v].slot
            /\ pc \notin {"ctl", "grow", "unregister"} => vm'[v].ports = vm[v].ports
            /\ pc = "ctl" => vm'[v].ports = 2
            /\ pc = "grow" => vm'[v].ports = thr[t].port + 1
<1> DEFINE v  == thr[t].vm
           pc == thr[t].pc
<1>1. /\ v \in Vms /\ vm[v] \in Vm /\ vm \in [Vms -> Vm] /\ Target(t) \in Slots
      /\ thr[t] \in Thread /\ v # NoVm
  BY CommandTyped, NoVmAssumption DEF Inv, TypeOK
<1>2. ASSUME NEW m, SetSlot(v, Target(t), m)
      PROVE  /\ \A w \in Vms \ {v} : vm'[w] = vm[w]
             /\ vm'[v].name = vm[v].name /\ vm'[v].st = vm[v].st /\ vm'[v].ports = vm[v].ports
             /\ vm[v].st = "registered" /\ Target(t) < vm[v].ports
             /\ \A i \in Slots : vm'[v].slot[i] = IF i = Target(t) THEN m ELSE vm[v].slot[i]
  <2> DEFINE new == [vm[v] EXCEPT !.slot = [vm[v].slot EXCEPT ![Target(t)] = m]]
  <2>1. vm' = [vm EXCEPT ![v] = new]
    BY <1>2 DEF SetSlot
  <2>2. /\ new.name = vm[v].name /\ new.st = vm[v].st /\ new.ports = vm[v].ports
        /\ \A i \in Slots : new.slot[i] = IF i = Target(t) THEN m ELSE vm[v].slot[i]
    BY <1>1 DEF Vm
  <2> QED
    BY <1>1, <1>2, <2>1, <2>2 DEF SetSlot
<1>3. ASSUME NEW n, SetPorts(v, n)
      PROVE  /\ \A w \in Vms \ {v} : vm'[w] = vm[w]
             /\ vm'[v].name = vm[v].name /\ vm'[v].st = vm[v].st /\ vm'[v].ports = n
             /\ vm[v].st = "registered" /\ vm'[v].slot = vm[v].slot
  <2> DEFINE new == [vm[v] EXCEPT !.ports = n]
  <2>1. vm' = [vm EXCEPT ![v] = new]
    BY <1>3 DEF SetPorts
  <2>2. new.name = vm[v].name /\ new.st = vm[v].st /\ new.ports = n /\ new.slot = vm[v].slot
    BY <1>1 DEF Vm
  <2> QED
    BY <1>1, <1>3, <2>1, <2>2 DEF SetPorts
<1>4. CASE pc \in {"disk", "close"}
  BY <1>1, <1>4 DEF Applied, Closes
<1>5. CASE pc = "ctl"
  BY <1>1, <1>3, <1>5 DEF Applied
<1>6. CASE pc = "grow"
  BY <1>1, <1>3, <1>6 DEF Applied
<1>7. CASE pc = "attach"
  <2>1. SetSlot(v, Target(t), thr[t].path) /\ Put(t) = thr[t].path
    BY <1>7 DEF Applied, Target, Put
  <2> QED
    BY <1>1, <1>2, <1>7, <2>1
<1>8. CASE pc = "dvd"
  <2>1. SetSlot(v, Target(t), Dvd) /\ Put(t) = Dvd
    BY <1>8 DEF Applied, Target, Put
  <2> QED
    BY <1>1, <1>2, <1>8, <2>1
<1>9. CASE pc = "detach"
  <2>1. SetSlot(v, Target(t), Free) /\ Put(t) = Free
    BY <1>9 DEF Applied, Target, Put
  <2> QED
    BY <1>1, <1>2, <1>9, <2>1
<1>10. CASE pc = "unregister"
  <2> DEFINE new == [vm[v] EXCEPT !.st = "gone", !.ports = 0, !.slot = [i \in Slots |-> Free]]
  <2>1. vm[v].st = "registered" /\ vm' = [vm EXCEPT ![v] = new]
    BY <1>10 DEF Applied, Unregisters
  <2>2. /\ new.name = vm[v].name /\ new.st = "gone" /\ new.ports = 0
        /\ \A i \in Slots : new.slot[i] = Free
    BY <1>1 DEF Vm
  <2> QED
    BY <1>1, <1>10, <2>1, <2>2
<1>11. CASE pc \in {"modify", "unattended"}
  BY <1>1, <1>11 DEF Applied
<1> QED
  BY <1>4, <1>5, <1>6, <1>7, <1>8, <1>9, <1>10, <1>11 DEF Commands

\* What it changes of the files.
LEMMA FileEffect ==
  ASSUME Inv, Shape, NEW t \in Threads, thr[t].pc \in Commands \ {"createvm"}, Applied(t)
  PROVE  LET v  == thr[t].vm
             pc == thr[t].pc
             p  == thr[t].path
         IN /\ pc \notin {"disk", "unregister", "close"} => file' = file
            /\ pc = "disk" => file[p] = NoVm /\ file' = [file EXCEPT ![p] = v]
            /\ pc = "unregister" => \A q \in Paths : file'[q] = IF Holds(v, q) THEN NoVm ELSE file[q]
            /\ pc = "close" => /\ \A w \in Vms : ~Holds(w, p)
                               /\ file' = [file EXCEPT ![p] = NoVm]
            /\ pc = "attach" => file[p] # NoVm /\ \A w \in Vms : ~Holds(w, p)
  BY DEF Applied, Unregisters, Closes, Commands
\* Thread t has gone on at pc; the others stay where they are.
After(t, pc, dirty) ==
  /\ \A u \in Threads \ {t} : thr'[u] = thr[u]
  /\ \/ thr'[t] = Idle /\ thr[t].op \notin Creates /\ pc \in Ended
     \/ /\ thr'[t].pc = pc /\ thr'[t].dirty = dirty
        /\ thr'[t].op = thr[t].op /\ thr'[t].vm = thr[t].vm
        /\ thr'[t].path = thr[t].path /\ thr'[t].port = thr[t].port
        /\ pc \in Ended => thr[t].op \in Creates
        /\ pc \notin Ended => thr'[t].grow = thr[t].grow

LEMMA GoAfter ==
  ASSUME Inv, Shape, NEW t \in Threads, NEW pc \in Pc \ {"idle"}, NEW dirty \in BOOLEAN,
         Go(t, pc, dirty)
  PROVE  After(t, pc, dirty)
<1>1. TypeOK /\ thr[t].port \in Slots
  BY DEF Inv, Chosen
<1>2. thr[t].op \in Creates => thr[t].port = 0
  BY DEF Shape
<1> QED
  BY <1>1, <1>2, GoTyped DEF After

\* The steps that touch neither VirtualBox nor an image.
Quiet(t, pc, dirty) ==
  /\ UNCHANGED <<vm, file, kept, early>>
  /\ After(t, pc, dirty) /\ Active(t)
  /\ \/ pc = thr[t].pc /\ dirty = thr[t].dirty /\ thr[t].op \in Creates
     \/ pc = "failed" /\ thr[t].pc = "read"
     \/ pc \in {"unattended", "unregister"} /\ thr[t].pc = "cred"
     \/ pc = "close" /\ thr[t].pc = "stat" /\ dirty = thr[t].dirty
     \/ /\ pc = "failed" /\ thr[t].pc = "stat" /\ dirty = thr[t].dirty
        /\ file[thr[t].path] = NoVm

LEMMA QuietSteps ==
  ASSUME Inv, Shape, NEW t \in Threads,
         Timeout(t) \/ ReadFails(t) \/ WriteCredentialFile(t) \/ WriteFails(t) \/ StatDisk(t)
  PROVE  \E pc, dirty : Quiet(t, pc, dirty)
<1>1. thr[t] \in Thread /\ thr \in [Threads -> Thread] /\ thr[t].dirty \in BOOLEAN
  BY DEF Inv, TypeOK, Thread
<1>2. {"failed", "unregister", "close"} \subseteq Pc \ {"idle"}
  BY DEF Pc, Ended, Commands
<1>3. CASE Timeout(t)
  <2> DEFINE new == [thr[t] EXCEPT !.late = TRUE]
  <2>1. /\ new.op = thr[t].op /\ new.vm = thr[t].vm /\ new.path = thr[t].path
        /\ new.pc = thr[t].pc /\ new.port = thr[t].port /\ new.dirty = thr[t].dirty
        /\ new.grow = thr[t].grow
    BY <1>1 DEF Thread
  <2>2. thr' = [thr EXCEPT ![t] = new]
    BY <1>3 DEF Timeout
  <2>3. After(t, thr[t].pc, thr[t].dirty)
    BY <1>1, <1>3, <2>1, <2>2 DEF After, Timeout
  <2> QED
    BY <1>3, <2>3 DEF Quiet, Timeout
<1>4. CASE ReadFails(t)
  <2>1. After(t, "failed", FALSE)
    BY <1>2, <1>4, GoAfter DEF ReadFails
  <2>2. Active(t)
    BY <1>4 DEF ReadFails, Active, Ended
  <2> QED
    BY <1>4, <2>1, <2>2 DEF Quiet, ReadFails
<1>5. CASE WriteCredentialFile(t)
  <2> DEFINE new == [thr[t] EXCEPT !.pc = "unattended"]
  <2>1. /\ new.op = thr[t].op /\ new.vm = thr[t].vm /\ new.path = thr[t].path
        /\ new.pc = "unattended" /\ new.port = thr[t].port /\ new.dirty = thr[t].dirty
        /\ new.grow = thr[t].grow
    BY <1>1 DEF Thread
  <2>2. thr' = [thr EXCEPT ![t] = new] /\ Active(t)
    BY <1>5 DEF WriteCredentialFile, Active, Ended
  <2>3. After(t, "unattended", thr[t].dirty)
    BY <1>1, <2>1, <2>2 DEF After, Ended
  <2> QED
    BY <1>5, <2>2, <2>3 DEF Quiet, WriteCredentialFile
<1>6. CASE WriteFails(t)
  <2>1. After(t, "unregister", thr[t].dirty)
    BY <1>1, <1>2, <1>6, GoAfter DEF WriteFails
  <2>2. Active(t)
    BY <1>6 DEF WriteFails, Active, Ended
  <2> QED
    BY <1>6, <2>1, <2>2 DEF Quiet, WriteFails
<1>7. CASE StatDisk(t)
  <2> DEFINE pc == IF file[thr[t].path] = NoVm THEN "failed" ELSE "close"
  <2>1. pc \in Pc \ {"idle"} /\ Go(t, pc, thr[t].dirty)
    BY <1>2, <1>7 DEF StatDisk
  <2>2. After(t, pc, thr[t].dirty)
    BY <1>1, <2>1, GoAfter
  <2>3. Active(t)
    BY <1>7 DEF StatDisk, Active, Ended
  <2> QED
    BY <1>7, <2>2, <2>3 DEF Quiet, StatDisk
<1> QED
  BY <1>3, <1>4, <1>5, <1>6, <1>7

\* A command of t has ended, and took effect or not; t goes on as the tables say.
Ran(t, pc, dirty) ==
  /\ thr[t].pc \in Commands \ {"createvm"}
  /\ After(t, pc, dirty) /\ Active(t)
  /\ UNCHANGED early
  /\ \/ /\ Applied(t) /\ pc = OnSuccess(thr[t].op, thr[t].pc, thr[t].grow)
        /\ dirty = thr[t].dirty
        /\ kept' = {p \in IF thr[t].op = "detach" THEN kept \cup {thr[t].path} ELSE kept :
                      file'[p] # NoVm}
     \/ /\ Applied(t) \/ UNCHANGED <<vm, file>>
        /\ pc = OnFailure(thr[t].op, thr[t].pc)
        /\ ~dirty => ~thr[t].dirty
        /\ thr[t].pc = "unregister" /\ thr[t].op \in Creates => dirty
        /\ kept' = {p \in kept : file'[p] # NoVm}

LEMMA CommandSteps ==
  ASSUME Inv, Shape, NEW t \in Threads, CommandDone(t) \/ CommandFails(t)
  PROVE  \E pc, dirty : Ran(t, pc, dirty)
<1>1. thr[t] \in Thread /\ thr[t].dirty \in BOOLEAN
  BY DEF Inv, TypeOK, Thread
<1>2. thr[t].pc \in Commands \ {"createvm"} /\ Active(t)
  BY DEF CommandDone, CommandFails, Active, Commands, Ended
<1>3. /\ OnSuccess(thr[t].op, thr[t].pc, thr[t].grow) \in Pc \ {"idle"}
      /\ OnFailure(thr[t].op, thr[t].pc) \in Pc \ {"idle"}
  BY <1>2, NextSteps
<1>4. CASE CommandDone(t)
  BY <1>1, <1>2, <1>3, <1>4, GoAfter DEF CommandDone, Ran
<1>5. CASE CommandFails(t)
  <2> DEFINE dirty == thr[t].dirty \/ (thr[t].pc = "unregister" /\ ~Blocked(t))
  <2>1. dirty \in BOOLEAN /\ (~dirty => ~thr[t].dirty)
    BY <1>1
  <2>2. thr[t].pc = "unregister" /\ thr[t].op \in Creates => dirty
    BY DEF Blocked, InCleanup
  <2>3. /\ Go(t, OnFailure(thr[t].op, thr[t].pc), dirty)
        /\ Applied(t) \/ UNCHANGED <<vm, file>>
        /\ UNCHANGED early /\ kept' = {p \in kept : file'[p] # NoVm}
    BY <1>5 DEF CommandFails
  <2> HIDE DEF dirty
  <2>4. After(t, OnFailure(thr[t].op, thr[t].pc), dirty)
    BY <1>3, <2>1, <2>3, GoAfter
  <2> QED
    BY <1>2, <2>1, <2>2, <2>3, <2>4 DEF Ran
<1> QED
  BY <1>4, <1>5

\* The last step of a cleanup.
Removed(t, dirty) ==
  /\ thr[t].pc = "recheck" /\ Active(t)
  /\ After(t, "failed", dirty)
  /\ UNCHANGED <<vm, early>>
  /\ \/ file' = [file EXCEPT ![thr[t].path] = NoVm] /\ dirty = thr[t].dirty
     \/ UNCHANGED file /\ dirty
  /\ kept' = {p \in kept : file'[p] # NoVm}

LEMMA RemoveSteps ==
  ASSUME Inv, Shape, NEW t \in Threads, RemoveDisk(t)
  PROVE  \E dirty : Removed(t, dirty)
<1>1. thr[t].dirty \in BOOLEAN /\ "failed" \in Pc \ {"idle"}
  BY DEF Inv, TypeOK, Thread, Pc, Ended
<1>2. Active(t)
  BY DEF RemoveDisk, Active, Ended
<1>3. CASE file' = [file EXCEPT ![thr[t].path] = NoVm] /\ Go(t, "failed", thr[t].dirty)
  BY <1>1, <1>2, <1>3, GoAfter DEF RemoveDisk, Removed
<1>4. CASE UNCHANGED file /\ Go(t, "failed", TRUE)
  BY <1>1, <1>2, <1>4, GoAfter DEF RemoveDisk, Removed
<1> QED
  BY <1>3, <1>4 DEF RemoveDisk

\* VM v comes to be, under name n.
Appeared(v, n) ==
  /\ vm[v].st = "new"
  /\ \A u \in Vms : vm[u].st = "registered" => vm[u].name # n
  /\ \A w \in Vms \ {v} : vm'[w] = vm[w]
  /\ vm'[v].st = "registered" /\ vm'[v].name = n
  /\ vm'[v].slot = vm[v].slot /\ vm'[v].ports = vm[v].ports

LEMMA RegistersEffect ==
  ASSUME Inv, NEW v \in Vms, NEW n, Registers(v, n)
  PROVE  Appeared(v, n)
<1> DEFINE new == [vm[v] EXCEPT !.st = "registered", !.name = n]
<1>1. vm[v] \in Vm /\ vm \in [Vms -> Vm]
  BY DEF Inv, TypeOK
<1>2. vm' = [vm EXCEPT ![v] = new]
  BY DEF Registers
<1>3. /\ new.st = "registered" /\ new.name = n
      /\ new.slot = vm[v].slot /\ new.ports = vm[v].ports
  BY <1>1 DEF Vm
<1> QED
  BY <1>1, <1>2, <1>3 DEF Registers, Appeared

\* createvm makes v for t, which goes on with it or never learns of it ...
Made(t, v) ==
  /\ thr[t].pc = "createvm" /\ v \in Vms
  /\ Appeared(v, thr[t].path[1])
  /\ \A u \in Threads \ {t} : thr'[u] = thr[u]
  /\ thr'[t].vm = v
  /\ \/ thr'[t].pc = "modify"
     \/ thr'[t].pc = "failed" /\ thr'[t].blind
  /\ thr'[t].op = thr[t].op /\ thr'[t].path = thr[t].path
  /\ thr'[t].port = thr[t].port
  /\ UNCHANGED <<file, kept, early>>

\* ... or makes none.
NotMade(t) ==
  /\ thr[t].pc = "createvm" /\ Active(t)
  /\ UNCHANGED vm
  /\ After(t, "failed", FALSE)
  /\ UNCHANGED <<file, kept, early>>

LEMMA CreateSteps ==
  ASSUME Inv, Shape, NEW t \in Threads, CreateVm(t) \/ CreateVmFails(t)
  PROVE  (\E v \in Vms : Made(t, v)) \/ NotMade(t)
<1>1. CASE CreateVm(t)
  <2>1. PICK v \in Vms :
          /\ Registers(v, thr[t].path[1])
          /\ thr' = [thr EXCEPT ![t] = [thr[t] EXCEPT !.vm = v, !.pc = "modify"]]
    BY <1>1 DEF CreateVm
  <2> DEFINE new == [thr[t] EXCEPT !.vm = v, !.pc = "modify"]
  <2>2. thr[t] \in Thread /\ thr \in [Threads -> Thread]
    BY DEF Inv, TypeOK
  <2>3. /\ new.vm = v /\ new.pc = "modify" /\ new.op = thr[t].op
        /\ new.path = thr[t].path /\ new.port = thr[t].port
    BY <2>2 DEF Thread
  <2>4. Appeared(v, thr[t].path[1])
    BY <2>1, RegistersEffect
  <2> HIDE DEF new
  <2>6. thr'[t] = new /\ \A u \in Threads \ {t} : thr'[u] = thr[u]
    BY <2>1, <2>2 DEF new
  <2>7. thr[t].pc = "createvm" /\ UNCHANGED <<file, kept, early>>
    BY <1>1 DEF CreateVm
  <2>8. /\ thr'[t].vm = v /\ thr'[t].pc = "modify" /\ thr'[t].op = thr[t].op
        /\ thr'[t].path = thr[t].path /\ thr'[t].port = thr[t].port
    BY <2>3, <2>6
  <2>5. Made(t, v)
    BY <2>4, <2>6, <2>7, <2>8 DEF Made
  <2> QED
    BY <2>5
<1>2. CASE CreateVmFails(t)
  <2>1. CASE UNCHANGED vm /\ Go(t, "failed", FALSE)
    <3>1. After(t, "failed", FALSE)
      BY <2>1, GoAfter DEF Pc, Ended
    <3>2. Active(t)
      BY <1>2 DEF CreateVmFails, Active, Ended
    <3> QED
      BY <1>2, <2>1, <3>1, <3>2 DEF NotMade, CreateVmFails
  <2>2. ASSUME NEW v \in Vms, Registers(v, thr[t].path[1]),
               thr' = [thr EXCEPT ![t] = Blind(t, v)]
        PROVE  Made(t, v)
    <3>1. thr'[t] = Blind(t, v) /\ \A u \in Threads \ {t} : thr'[u] = thr[u]
      BY <2>2 DEF Inv, TypeOK
    <3>2. thr[t].port = 0
      <4>1. thr[t].op \in Ops \cup {"none"} /\ thr[t].pc \in StepsOf(thr[t].op)
        BY DEF Inv, TypeOK, Thread, Shape
      <4>2. thr[t].op \in Creates
        BY <1>2, <4>1 DEF CreateVmFails, StepsOf, Creates, Ops
      <4> QED
        BY <4>2 DEF Shape
    <3>3. Appeared(v, thr[t].path[1])
      BY <2>2, RegistersEffect
    <3>4. thr[t].pc = "createvm" /\ UNCHANGED <<file, kept, early>>
      BY <1>2 DEF CreateVmFails
    <3>5. /\ thr'[t].vm = v /\ thr'[t].pc = "failed" /\ thr'[t].blind
          /\ thr'[t].op = thr[t].op /\ thr'[t].path = thr[t].path
          /\ thr'[t].port = thr[t].port
      BY <3>1, <3>2, BlindFields
    <3> QED
      BY <3>1, <3>3, <3>4, <3>5 DEF Made
  <2> QED
    BY <1>2, <2>1, <2>2 DEF CreateVmFails, Blind
<1> QED
  BY <1>1, <1>2

\* A request on v, or a create, starts at t.
Started(t) ==
  /\ \A u \in Threads \ {t} : thr'[u] = thr[u]
  /\ UNCHANGED <<vm, file, kept>>
  /\ \/ /\ thr'[t].op \in Creates /\ thr'[t].pc = "createvm" /\ thr'[t].vm = NoVm
        /\ thr'[t].path \in Names \X {0} /\ thr'[t].port = 0
        /\ UNCHANGED early
     \/ /\ thr'[t].op \in Ops \ Creates /\ thr'[t].pc = "read" /\ thr'[t].vm \in Vms
        /\ thr'[t].op \in {"detach", "remove"} => thr'[t].path \in Paths
        /\ vm[thr'[t].vm].st # "new" /\ ~Locked(thr'[t].vm)
        /\ early' = IF Creating(thr'[t].vm) THEN early \cup {thr'[t].vm} ELSE early

LEMMA StartSteps ==
  ASSUME Inv, NEW t \in Threads,
         \/ \E op \in Ops, n \in Names : ArriveCreate(t, op, n)
         \/ \E op \in Ops, v \in Vms, p \in Paths \cup {Free} : Arrive(t, op, v, p)
  PROVE  Started(t)
<1>1. thr \in [Threads -> Thread]
  BY DEF Inv, TypeOK
<1>2. CASE \E op \in Ops, n \in Names : ArriveCreate(t, op, n)
  <2>1. PICK op \in Ops, n \in Names : ArriveCreate(t, op, n)
    BY <1>2
  <2> DEFINE new == [Idle EXCEPT !.op = op, !.path = <<n, 0>>, !.pc = "createvm"]
  <2>2. new.op = op /\ new.path = <<n, 0>> /\ new.pc = "createvm" /\ new.vm = NoVm /\ new.port = 0
    BY DEF Idle
  <2>3. thr'[t] = new /\ \A u \in Threads \ {t} : thr'[u] = thr[u]
    BY <1>1, <2>1 DEF ArriveCreate
  <2>4. <<n, 0>> \in Names \X {0}
    OBVIOUS
  <2> HIDE DEF new
  <2> QED
    BY <2>1, <2>2, <2>3, <2>4 DEF ArriveCreate, Started
<1>3. CASE \E op \in Ops, v \in Vms, p \in Paths \cup {Free} : Arrive(t, op, v, p)
  <2>1. PICK op \in Ops, v \in Vms, p \in Paths \cup {Free} : Arrive(t, op, v, p)
    BY <1>3
  <2> DEFINE new == [Idle EXCEPT !.op = op, !.vm = v, !.path = p, !.pc = "read"]
  <2>2. new.op = op /\ new.path = p /\ new.pc = "read" /\ new.vm = v
    BY DEF Idle
  <2>3. thr'[t] = new /\ \A u \in Threads \ {t} : thr'[u] = thr[u]
    BY <1>1, <2>1 DEF Arrive
  <2> HIDE DEF new
  <2> QED
    BY <2>1, <2>2, <2>3 DEF Arrive, Started
<1> QED
  BY <1>2, <1>3

\* A request has read its VM and chosen the port and the image c.
Chose(t, c) ==
  /\ thr[t].pc = "read" /\ c \in Plan(t)
  /\ vm[thr[t].vm].st = "registered"
  /\ \A u \in Threads \ {t} : thr'[u] = thr[u]
  /\ thr'[t].op = thr[t].op /\ thr'[t].vm = thr[t].vm
  /\ thr'[t].port = c[1] /\ thr'[t].path = c[2]
  /\ thr'[t].grow => c[1] >= vm[thr[t].vm].ports
  /\ thr'[t].pc = FirstCommand(thr[t].op, c[1] >= vm[thr[t].vm].ports)
  /\ UNCHANGED <<vm, file, kept, early>>

LEMMA ReadSteps ==
  ASSUME Inv, NEW t \in Threads, Read(t)
  PROVE  \E c \in Plan(t) : Chose(t, c)
<1>1. PICK c \in Plan(t) :
        LET grow == c[1] >= vm[thr[t].vm].ports
        IN thr' = [thr EXCEPT ![t] = [thr[t] EXCEPT
                     !.port = c[1], !.path = c[2], !.grow = grow,
                     !.pc = FirstCommand(thr[t].op, grow)]]
  BY DEF Read
<1> DEFINE grow == c[1] >= vm[thr[t].vm].ports
           pc   == FirstCommand(thr[t].op, grow)
           new  == [thr[t] EXCEPT !.port = c[1], !.path = c[2], !.grow = grow, !.pc = pc]
<1>2. thr[t] \in Thread /\ thr \in [Threads -> Thread]
  BY DEF Inv, TypeOK
<1>3. thr' = [thr EXCEPT ![t] = new]
  BY <1>1
<1>4. FirstCommand(thr[t].op, c[1] >= vm[thr[t].vm].ports) = pc
  OBVIOUS
<1> HIDE DEF grow, pc
<1>5. /\ new.op = thr[t].op /\ new.vm = thr[t].vm /\ new.port = c[1] /\ new.path = c[2]
      /\ new.pc = pc /\ new.grow = grow
  BY <1>2 DEF Thread
<1>6. grow => c[1] >= vm[thr[t].vm].ports
  BY DEF grow
<1>7. Chose(t, c)
  BY <1>2, <1>3, <1>4, <1>5, <1>6 DEF Chose, Read
<1> QED
  BY <1>7

\* Every step is one of these.
LEMMA Kinds ==
  ASSUME Inv, Shape, Next
  PROVE  \E t \in Threads :
           \/ Started(t)
           \/ \E c \in Plan(t) : Chose(t, c)
           \/ \E pc, dirty : Quiet(t, pc, dirty) \/ Ran(t, pc, dirty)
           \/ \E v \in Vms : Made(t, v)
           \/ NotMade(t)
           \/ \E dirty : Removed(t, dirty)
<1>1. PICK t \in Threads :
        \/ \E op \in Ops, n \in Names : ArriveCreate(t, op, n)
        \/ \E op \in Ops, v \in Vms, p \in Paths \cup {Free} : Arrive(t, op, v, p)
        \/ Timeout(t)
        \/ Step(t)
  BY StepKinds
<1> QED
  BY <1>1, StartSteps, ReadSteps, QuietSteps, CommandSteps, CreateSteps, RemoveSteps DEF Step

\* The step of t after a command, by its operation.
LEMMA Tables ==
  ASSUME Inv, Shape, NEW t \in Threads, NEW pc, NEW dirty, Ran(t, pc, dirty)
  PROVE  /\ thr[t].op \in Ops /\ thr[t].pc \in StepsOf(thr[t].op) \ {"createvm", "read"}
         /\ thr[t].op \in Creates => pc \in StepsOf(thr[t].op) \ {"createvm"}
         /\ thr[t].op \notin Creates => pc \in StepsOf(thr[t].op) \cup Ended
         /\ pc \notin {"createvm", "read"}
         /\ thr[t].op \notin Creates /\ pc = OnFailure(thr[t].op, thr[t].pc) => pc = "failed"
<1>1. /\ thr[t].op \in Ops \cup {"none"} /\ thr[t].pc \in StepsOf(thr[t].op)
      /\ thr[t].pc \in Commands \ {"createvm"}
  BY DEF Inv, TypeOK, Thread, Shape, Ran
<1>2. thr[t].op \in Ops
  BY <1>1 DEF StepsOf, Commands
<1>3. pc \in {OnSuccess(thr[t].op, thr[t].pc, thr[t].grow), OnFailure(thr[t].op, thr[t].pc)}
  BY DEF Ran
<1>4. CASE thr[t].op \in Creates
  BY <1>1, <1>3, <1>4 DEF StepsOf, OnSuccess, OnFailure, Creates, Commands
<1>5. CASE thr[t].op \notin Creates
  BY <1>1, <1>2, <1>3, <1>5 DEF StepsOf, OnSuccess, OnFailure, Creates, Commands, Ops, Ended
<1>6. thr[t].op \notin Creates /\ pc = OnFailure(thr[t].op, thr[t].pc) => pc = "failed"
  BY DEF OnFailure
<1>7. /\ OnSuccess(thr[t].op, thr[t].pc, thr[t].grow) \notin {"createvm", "read"}
      /\ OnFailure(thr[t].op, thr[t].pc) \notin {"createvm", "read"}
  BY <1>1, NextSteps
<1>8. thr[t].pc \notin {"createvm", "read"}
  BY <1>1 DEF Commands
<1>9. pc \notin {"createvm", "read"}
  BY <1>3, <1>7
<1> HIDE DEF Ran
<1> QED
  BY <1>1, <1>2, <1>4, <1>5, <1>6, <1>8, <1>9

LEMMA IdleShape ==
  /\ Idle.op = "none" /\ Idle.pc = "idle" /\ Idle.vm = NoVm /\ Idle.port = 0
  /\ "none" \notin Creates /\ "idle" \in StepsOf("none")
  BY DEF Idle, Creates, StepsOf

\* A thread that goes on by its operation's steps keeps its shape.
LEMMA AfterShape ==
  ASSUME Inv, Shape, NEW t \in Threads, NEW pc, NEW dirty, After(t, pc, dirty),
         thr[t].op \in Ops,
         pc \in StepsOf(thr[t].op) \cup IF thr[t].op \in Creates THEN {} ELSE Ended,
         thr[t].op \in Creates /\ pc # thr[t].pc => pc # "createvm",
         thr[t].op \in Creates /\ thr[t].pc = "createvm" => pc \in {"createvm", "failed"},
         thr[t].op \in Creates /\ thr[t].pc = "failed" => pc = "failed"
  PROVE  Shape'
<1> SUFFICES ASSUME NEW u \in Threads
             PROVE  /\ thr'[u].pc \in StepsOf(thr'[u].op)
                    /\ thr'[u].op = "none" => thr'[u].vm = NoVm
                    /\ thr'[u].op \in Creates =>
                         /\ thr'[u].path \in Names \X {0} /\ thr'[u].port = 0
                         /\ thr'[u].pc = "createvm" => thr'[u].vm = NoVm
                         /\ thr'[u].pc \notin {"createvm", "failed"} => thr'[u].vm \in Vms
                    /\ thr'[u].op \notin Creates \cup {"none"} => thr'[u].vm \in Vms
                    /\ thr'[u].op \in {"detach", "remove"} => thr'[u].path \in Paths
  BY DEF Shape
<1>1. CASE u # t
  BY <1>1 DEF After, Shape
<1>2. CASE u = t /\ thr'[t] = Idle
  BY <1>2, IdleShape
<1>3. CASE u = t /\ thr'[t] # Idle
  BY <1>3 DEF After, Shape
<1> QED
  BY <1>1, <1>2, <1>3

\* Threads take the steps of their operations.
LEMMA ShapeKept ==
  ASSUME Inv, ImagesInv, Next
  PROVE  Shape'
<1> USE DEF ImagesInv
<1>1. PICK t \in Threads :
        \/ Started(t)
        \/ \E c \in Plan(t) : Chose(t, c)
        \/ \E pc, dirty : Quiet(t, pc, dirty) \/ Ran(t, pc, dirty)
        \/ \E v \in Vms : Made(t, v)
        \/ NotMade(t)
        \/ \E dirty : Removed(t, dirty)
  BY Kinds
<1>2. thr[t].op \in Ops \cup {"none"} /\ thr[t].pc \in StepsOf(thr[t].op)
  BY DEF Inv, TypeOK, Thread, Shape
<1>3. Active(t) => thr[t].op \in Ops
  BY <1>2 DEF StepsOf, Active, Ended
<1>4. CASE \E dirty : Removed(t, dirty)
  <2>1. PICK dirty : Removed(t, dirty)
    BY <1>4
  <2>2. thr[t].op \in Creates /\ "failed" \in StepsOf(thr[t].op)
    BY <1>2, <1>3, <2>1 DEF Removed, StepsOf, Creates, Ops
  <2> QED
    BY <1>3, <2>1, <2>2, AfterShape DEF Removed
<1>5. CASE NotMade(t)
  <2>1. thr[t].op \in Creates /\ "failed" \in StepsOf(thr[t].op)
    BY <1>2, <1>3, <1>5 DEF NotMade, StepsOf, Creates, Ops
  <2> QED
    BY <1>3, <1>5, <2>1, AfterShape DEF NotMade
<1>6. CASE \E pc, dirty : Ran(t, pc, dirty)
  <2>1. PICK pc, dirty : Ran(t, pc, dirty)
    BY <1>6
  <2>2. thr[t].pc # "failed"
    BY <2>1 DEF Ran, Commands
  <2> QED
    BY <2>1, <2>2, Tables, AfterShape DEF Ran
<1>7. CASE \E pc, dirty : Quiet(t, pc, dirty)
  <2>1. PICK pc, dirty : Quiet(t, pc, dirty)
    BY <1>7
  <2>2. thr[t].op \in Ops /\ thr[t].pc # "failed"
    BY <1>3, <2>1 DEF Quiet, Active, Ended
  <2>3. /\ pc \in StepsOf(thr[t].op) \cup IF thr[t].op \in Creates THEN {} ELSE Ended
        /\ pc # thr[t].pc => thr[t].pc # "createvm" /\ pc # "createvm"
    BY <1>2, <2>1, <2>2 DEF Quiet, StepsOf, Creates, Ops, Ended
  <2> QED
    BY <2>1, <2>2, <2>3, AfterShape DEF Quiet
<1>8. CASE \E v \in Vms : Made(t, v)
  <2>1. PICK v \in Vms : Made(t, v)
    BY <1>8
  <2>2. thr[t].op \in Creates /\ {"modify", "failed"} \subseteq StepsOf(thr[t].op)
    BY <1>2, <1>3, <2>1 DEF Made, StepsOf, Creates, Ops
  <2>3. /\ thr[t].path \in Names \X {0} /\ thr[t].port = 0
        /\ thr'[t].op = thr[t].op /\ thr'[t].path = thr[t].path
        /\ thr'[t].port = thr[t].port /\ thr'[t].vm = v
    BY <2>1, <2>2 DEF Made, Shape
  <2>4. thr'[t].pc \in {"modify", "failed"}
    BY <2>1 DEF Made
  <2>5. thr[t].op # "none" /\ thr[t].op \notin {"detach", "remove"}
    BY <2>2 DEF Creates
  <2>6. \A u \in Threads \ {t} : thr'[u] = thr[u]
    BY <2>1 DEF Made
  <2> QED
    BY <2>2, <2>3, <2>4, <2>5, <2>6 DEF Shape
<1>9. CASE \E c \in Plan(t) : Chose(t, c)
  <2>1. PICK c \in Plan(t) : Chose(t, c)
    BY <1>9
  <2>2. thr[t].op \in Ops \ Creates
    BY <1>2, <2>1 DEF Chose, StepsOf, Creates, Ops
  <2>3. \A grow : FirstCommand(thr[t].op, grow) \in StepsOf(thr[t].op)
    BY <2>2 DEF FirstCommand, StepsOf, Creates, Ops
  <2>4. thr[t].op \in {"detach", "remove"} => c[2] = thr[t].path
    BY DEF Plan
  <2> QED
    BY <2>1, <2>2, <2>3, <2>4 DEF Chose, Shape
<1>10. CASE Started(t)
  <2>1. /\ thr'[t].pc \in StepsOf(thr'[t].op) /\ thr'[t].op # "none"
        /\ thr'[t].op \in Creates =>
             /\ thr'[t].path \in Names \X {0} /\ thr'[t].port = 0
             /\ thr'[t].pc = "createvm" /\ thr'[t].vm = NoVm
        /\ thr'[t].op \notin Creates \cup {"none"} => thr'[t].vm \in Vms
        /\ thr'[t].op \in {"detach", "remove"} => thr'[t].path \in Paths
    BY <1>10 DEF Started, StepsOf, Creates, Ops
  <2> QED
    BY <1>10, <2>1 DEF Started, Shape
<1> QED
  BY <1>1, <1>4, <1>5, <1>6, <1>7, <1>8, <1>9, <1>10

\* Which operations take a step.
LEMMA StepOps ==
  ASSUME Inv, Shape, NEW t \in Threads
  PROVE  LET op == thr[t].op
             pc == thr[t].pc
         IN /\ Active(t) => op \in Ops
            /\ pc \in {"disk", "attach"} => op \in Creates \cup {"add"}
            /\ pc = "grow" => op \in {"add", "mount"}
            /\ pc = "dvd" => op \in {"manual", "mount", "eject", "additions"}
            /\ pc = "detach" => op \in {"detach", "remove"}
            /\ pc = "unregister" => op \in Creates \cup {"delete"}
            /\ pc = "close" => op \in Creates \cup {"remove"}
            /\ pc \in {"createvm", "modify", "ctl", "cred", "unattended", "stat", "recheck",
                       "ok", "failed"} => op \in Creates
            /\ pc = "read" => op \in Ops \ Creates
<1>1. thr[t].op \in Ops \cup {"none"} /\ thr[t].pc \in StepsOf(thr[t].op)
  BY DEF Inv, TypeOK, Thread, Shape
<1> QED
  BY <1>1 DEF StepsOf, Active, Ended, Creates, Ops

\* An image that a thread attaches, or is about to, has its VM's name.
LEMMA PathName ==
  ASSUME Inv, ImagesInv, NEW t \in Threads, thr[t].vm \in Vms,
         thr[t].op \in Creates \cup {"add", "detach", "remove"}, thr[t].pc # "read"
  PROVE  thr[t].path \in Paths /\ thr[t].path[1] = vm[thr[t].vm].name
  BY PathFacts DEF ImagesInv, Shape, Paired

\* A registered VM keeps its name to itself, and its images bear it.
LEMMA MachinesKept ==
  ASSUME Inv, ImagesInv, Next
  PROVE  Machines'
<1> USE DEF ImagesInv
<1>1. PICK t \in Threads :
        \/ Started(t)
        \/ \E c \in Plan(t) : Chose(t, c)
        \/ \E pc, dirty : Quiet(t, pc, dirty) \/ Ran(t, pc, dirty)
        \/ \E v \in Vms : Made(t, v)
        \/ NotMade(t)
        \/ \E dirty : Removed(t, dirty)
  BY Kinds
<1>2. CASE UNCHANGED vm
  BY <1>2 DEF Machines
<1>3. ASSUME NEW v \in Vms, NEW n, Appeared(v, n)
      PROVE  Machines'
  BY <1>3, PathFacts DEF Machines, Appeared
<1>4. CASE Applied(t) /\ thr[t].pc \in Commands \ {"createvm"}
  <2> DEFINE v == thr[t].vm
  <2>1. /\ v \in Vms
        /\ \A w \in Vms \ {v} : vm'[w] = vm[w]
        /\ vm'[v].name = vm[v].name
        /\ vm'[v].st = "registered" => vm[v].st = "registered"
    BY <1>4, AppliedEffect
  <2>2. vm'[v].st # "registered" => \A i \in Slots : vm'[v].slot[i] = Free
    BY <1>4, AppliedEffect DEF Machines
  <2>3. ASSUME NEW i \in Slots, vm'[v].slot[i] \in Paths
        PROVE  vm'[v].slot[i][1] = vm[v].name
    <3>1. CASE vm'[v].slot[i] = vm[v].slot[i]
      BY <2>1, <2>3, <3>1 DEF Machines
    <3>2. CASE vm'[v].slot[i] # vm[v].slot[i]
      <4>1. thr[t].pc \in {"attach", "dvd", "detach"} /\ vm'[v].slot[i] = Put(t)
        BY <1>4, <2>3, <3>2, AppliedEffect, PathFacts
      <4>2. thr[t].pc = "attach" /\ vm'[v].slot[i] = thr[t].path
        BY <2>3, <4>1, PathFacts DEF Put
      <4> QED
        BY <2>1, <4>2, StepOps, PathName
    <3> QED
      BY <3>1, <3>2
  <2>4. ASSUME NEW i \in Slots, NEW j \in Slots, i # j, vm'[v].slot[i] \in Paths
        PROVE  vm'[v].slot[i] # vm'[v].slot[j]
    <3>1. CASE vm'[v].slot[i] = vm[v].slot[i] /\ vm'[v].slot[j] = vm[v].slot[j]
      BY <2>1, <2>4, <3>1 DEF Machines
    <3>2. CASE vm'[v].slot[i] # vm[v].slot[i] \/ vm'[v].slot[j] # vm[v].slot[j]
      <4>1. \/ vm'[v].slot[i] = Free
            \/ /\ thr[t].pc \in {"attach", "dvd", "detach"}
               /\ \A k \in Slots :
                    vm'[v].slot[k] = IF k = Target(t) THEN Put(t) ELSE vm[v].slot[k]
        BY <1>4, <3>2, AppliedEffect
      <4>2. CASE Put(t) \notin Paths
        BY <2>1, <2>4, <3>2, <4>1, <4>2, PathFacts DEF Machines
      <4>3. CASE Put(t) \in Paths /\ thr[t].pc \in {"attach", "dvd", "detach"}
        <5>1. thr[t].pc = "attach" /\ Put(t) = thr[t].path
          BY <4>3, PathFacts DEF Put
        <5>2. vm[v].st = "registered"
          BY <1>4, <5>1, AppliedEffect
        <5>3. ~Holds(v, thr[t].path)
          BY <1>4, <2>1, <5>1, FileEffect
        <5>4. \A k \in Slots : vm[v].slot[k] # thr[t].path
          BY <5>2, <5>3 DEF Holds
        <5>5. \A k \in Slots :
                vm'[v].slot[k] = IF k = Target(t) THEN thr[t].path ELSE vm[v].slot[k]
          BY <2>4, <4>1, <5>1, PathFacts
        <5>6. \A k \in Slots : vm[v].slot[k] \in Paths => vm[v].slot[k] # vm[v].slot[j] \/ k = j
          BY <2>1, <2>4 DEF Machines
        <5> QED
          BY <2>4, <5>4, <5>5, <5>6
      <4> QED
        BY <2>4, <4>1, <4>2, <4>3, PathFacts
    <3> QED
      BY <3>1, <3>2
  <2> QED
    BY <2>1, <2>2, <2>3, <2>4 DEF Machines
<1> QED
  BY <1>1, <1>2, <1>3, <1>4 DEF Started, Chose, Quiet, Ran, Made, NotMade, Removed

\* An image was made for a VM of its name, and a kept one is there.
LEMMA FilesKept ==
  ASSUME Inv, ImagesInv, Next
  PROVE  Files'
<1> USE DEF ImagesInv
<1>1. PICK t \in Threads :
        \/ Started(t)
        \/ \E c \in Plan(t) : Chose(t, c)
        \/ \E pc, dirty : Quiet(t, pc, dirty) \/ Ran(t, pc, dirty)
        \/ \E v \in Vms : Made(t, v)
        \/ NotMade(t)
        \/ \E dirty : Removed(t, dirty)
  BY Kinds
<1>2. file \in [Paths -> Vms \cup {NoVm}] /\ kept \subseteq Paths
  BY DEF Inv, TypeOK
<1>3. CASE UNCHANGED <<vm, file, kept>>
  BY <1>3 DEF Files
<1>4. ASSUME NEW v \in Vms, NEW n, Appeared(v, n), UNCHANGED <<file, kept>>
      PROVE  Files'
  BY <1>2, <1>4 DEF Files, Appeared
<1>5. CASE \E dirty : Removed(t, dirty)
  BY <1>2, <1>5 DEF Removed, Files
<1>6. CASE \E pc, dirty : Ran(t, pc, dirty)
  <2> DEFINE v == thr[t].vm
             p == thr[t].path
  <2>1. PICK pc, dirty : Ran(t, pc, dirty)
    BY <1>6
  <2>2. \A q \in kept' : file'[q] # NoVm
    BY <2>1 DEF Ran
  <2>3. CASE UNCHANGED <<vm, file>>
    BY <2>2, <2>3 DEF Files
  <2>4. CASE Applied(t)
    <3>1. thr[t].pc \in Commands \ {"createvm"}
      BY <2>1 DEF Ran
    <3>2. \A w \in Vms : vm'[w].name = vm[w].name /\ (vm[w].st # "new" => vm'[w].st # "new")
      BY <2>4, <3>1, AppliedEffect
    <3>3. v \in Vms /\ vm[v].st # "new"
      BY <3>1, CommandTyped DEF Paired
    <3>4. thr[t].pc = "disk" => p \in Paths /\ p[1] = vm[v].name
      BY <3>3, StepOps, PathName
    <3>5. \A q \in Paths : \/ file'[q] \in {file[q], NoVm}
                           \/ file'[q] = v /\ q[1] = vm[v].name
      BY <1>2, <2>4, <3>1, <3>4, FileEffect DEF Commands
    <3> QED
      BY <1>2, <2>2, <3>2, <3>3, <3>5 DEF Files
  <2> QED
    BY <2>1, <2>3, <2>4 DEF Ran
<1> QED
  BY <1>1, <1>3, <1>4, <1>5, <1>6 DEF Started, Chose, Quiet, Made, NotMade

\* Two threads are at work on a VM only if it was named early.
LEMMA AloneKept ==
  ASSUME Inv, ImagesInv, Next
  PROVE  Alone'
<1> USE DEF ImagesInv
<1>1. PICK t \in Threads :
        \/ Started(t)
        \/ \E c \in Plan(t) : Chose(t, c)
        \/ \E pc, dirty : Quiet(t, pc, dirty) \/ Ran(t, pc, dirty)
        \/ \E v \in Vms : Made(t, v)
        \/ NotMade(t)
        \/ \E dirty : Removed(t, dirty)
  BY Kinds
<1>2. NoVm \notin Vms /\ "none" \notin Creates
  BY NoVmAssumption DEF Creates
<1>3. ASSUME NEW pc, NEW dirty, After(t, pc, dirty), Active(t) \/ thr'[t].pc \in Ended,
             UNCHANGED early
      PROVE  Alone'
  <2>1. CASE thr'[t] = Idle
    BY <1>2, <1>3, <2>1, IdleShape DEF After, Alone, Active
  <2>2. CASE thr'[t] # Idle
    BY <1>3, <2>2 DEF After, Alone, Active
  <2> QED
    BY <2>1, <2>2
<1>4. CASE \E pc, dirty : Quiet(t, pc, dirty) \/ Ran(t, pc, dirty)
  BY <1>3, <1>4 DEF Quiet, Ran
<1>5. CASE NotMade(t) \/ \E dirty : Removed(t, dirty)
  BY <1>3, <1>5 DEF NotMade, Removed
<1>6. CASE \E v \in Vms : Made(t, v)
  BY <1>6 DEF Made, Appeared, Alone, Active, Paired
<1>7. CASE \E c \in Plan(t) : Chose(t, c)
  <2>1. thr[t].pc = "read" /\ Active(t)
    BY <1>7 DEF Chose, Active, Ended
  <2> QED
    BY <1>7, <2>1 DEF Chose, Alone, Active
<1>8. CASE Started(t)
  <2>1. CASE thr'[t].vm = NoVm
    BY <1>2, <1>8, <2>1 DEF Started, Alone, Active
  <2>2. CASE thr'[t].vm # NoVm
    <3>1. ASSUME NEW u \in Threads \ {t}, thr[u].vm = thr'[t].vm, Active(u)
          PROVE  thr'[t].vm \in early'
      BY <1>2, <1>8, <2>2, <3>1 DEF Started, Locked, Creating
    <3>2. thr'[t].op \notin Creates /\ early \subseteq early'
      BY <1>2, <1>8, <2>2 DEF Started
    <3> QED
      BY <1>8, <3>1, <3>2 DEF Started, Alone, Active
  <2> QED
    BY <2>1, <2>2
<1> QED
  BY <1>1, <1>4, <1>5, <1>6, <1>7, <1>8

\* A thread that has a VM is at work on it, unless it is a create that has ended;
\* when two are, the VM was named early.
LEMMA TwoAtWork ==
  ASSUME Inv, ImagesInv, NEW t \in Threads, NEW u \in Threads, t # u,
         thr[t].vm = thr[u].vm, thr[t].vm \in Vms,
         Active(t) \/ thr[t].op \notin Creates, Active(u) \/ thr[u].op \notin Creates
  PROVE  thr[t].vm \in early
<1>1. ASSUME NEW x \in Threads, thr[x].vm \in Vms, thr[x].op \notin Creates
      PROVE  Active(x)
  <2>1. thr[x].op # "none"
    BY <1>1, NoVmAssumption DEF ImagesInv, Shape
  <2> QED
    BY <1>1, <2>1, StepOps DEF ImagesInv, Active, Ended, Shape, StepsOf
<1> QED
  BY <1>1 DEF ImagesInv, Alone

\* A thread's VM exists, and its image bears the VM's name.
LEMMA PairedKept ==
  ASSUME Inv, ImagesInv, Next
  PROVE  Paired'
<1> USE DEF ImagesInv
<1>1. PICK t \in Threads :
        \/ Started(t)
        \/ \E c \in Plan(t) : Chose(t, c)
        \/ \E pc, dirty : Quiet(t, pc, dirty) \/ Ran(t, pc, dirty)
        \/ \E v \in Vms : Made(t, v)
        \/ NotMade(t)
        \/ \E dirty : Removed(t, dirty)
  BY Kinds
<1>2. NoVm \notin Vms /\ Idle.vm = NoVm
  BY NoVmAssumption DEF Idle
<1>3. ASSUME \A w \in Vms : vm[w].st # "new" => vm'[w].st # "new" /\ vm'[w].name = vm[w].name,
             NEW pc, NEW dirty, After(t, pc, dirty), thr[t].pc = "read" => thr'[t] = Idle
      PROVE  Paired'
  <2> SUFFICES ASSUME NEW u \in Threads, thr'[u].vm \in Vms
               PROVE  /\ vm'[thr'[u].vm].st # "new"
                      /\ thr'[u].op \in Creates => vm'[thr'[u].vm].name = thr'[u].path[1]
                      /\ thr'[u].op \in {"add", "detach", "remove"} /\ thr'[u].pc # "read" =>
                           thr'[u].path \in Paths /\ thr'[u].path[1] = vm'[thr'[u].vm].name
                      /\ thr'[u].op = "add" /\ thr'[u].pc # "read" => thr'[u].path[2] # 0
                      /\ thr'[u].op = "mount" /\ thr'[u].pc # "read" => thr'[u].path = Free
    BY DEF Paired
  <2>1. CASE u # t
    BY <1>3, <2>1 DEF After, Paired
  <2>2. CASE u = t /\ thr'[t] # Idle
    BY <1>3, <2>2 DEF After, Paired
  <2> QED
    BY <1>2, <2>1, <2>2
<1>4. CASE NotMade(t)
  BY <1>3, <1>4 DEF NotMade, Appeared
<1>5. CASE \E dirty : Removed(t, dirty)
  BY <1>3, <1>5 DEF Removed
<1>6. CASE \E pc, dirty : Ran(t, pc, dirty)
  <2>1. PICK pc, dirty : Ran(t, pc, dirty)
    BY <1>6
  <2>2. \A w \in Vms : vm[w].st # "new" => vm'[w].st # "new" /\ vm'[w].name = vm[w].name
    BY <2>1, AppliedEffect DEF Ran
  <2>3. thr[t].pc # "read"
    BY <2>1 DEF Ran, Commands
  <2> QED
    BY <1>3, <2>1, <2>2, <2>3 DEF Ran
<1>7. CASE \E pc, dirty : Quiet(t, pc, dirty)
  <2>1. PICK pc, dirty : Quiet(t, pc, dirty)
    BY <1>7
  <2>2. thr[t].pc = "read" => thr'[t] = Idle
    BY <2>1, StepOps DEF Quiet, After, Ended
  <2> QED
    BY <1>3, <2>1, <2>2 DEF Quiet
<1>8. CASE \E v \in Vms : Made(t, v)
  <2>1. PICK v \in Vms : Made(t, v)
    BY <1>8
  <2>2. \A u \in Threads : thr[u].vm # v
    BY <2>1 DEF Made, Appeared, Paired
  <2>3. thr[t].op \in Creates /\ thr[t].op \notin {"add", "mount", "detach", "remove"}
    BY <2>1, StepOps DEF Made, Creates
  <2> QED
    BY <2>1, <2>2, <2>3 DEF Made, Appeared, Paired
<1>9. CASE Started(t)
  BY <1>2, <1>9 DEF Started, Paired, Creates
<1>10. CASE \E c \in Plan(t) : Chose(t, c)
  <2>1. PICK c \in Plan(t) : Chose(t, c)
    BY <1>10
  <2> DEFINE v == thr[t].vm
  <2>2. thr[t].op \in Ops \ Creates /\ v \in Vms /\ v # NoVm
    BY <2>1, StepOps, NoVmAssumption DEF Chose, Inv, Chosen
  <2>3. CASE thr[t].op = "add"
    <3>1. c[2] \in NextDiskPath(vm[v].name)
      BY <2>3 DEF Plan
    <3>2. PICK k \in 1..MaxExtra : c[2] = <<vm[v].name, k>>
      BY <3>1 DEF NextDiskPath
    <3>3. vm[v].name \in Names
      BY <2>1, <2>2 DEF Chose, Inv, Named
    <3>4. c[2] \in Paths /\ c[2][1] = vm[v].name /\ c[2][2] # 0
      BY <3>2, <3>3, BoundAssumption DEF Paths
    <3> QED
      BY <2>1, <2>2, <2>3, <3>4 DEF Chose, Paired
  <2>4. CASE thr[t].op \in {"detach", "remove"}
    <3>1. c[2] = thr[t].path /\ thr[t].path \in Paths /\ \E i \in Slots : vm[v].slot[i] = thr[t].path
      BY <2>4 DEF Plan, Shape
    <3>2. c[2][1] = vm[v].name
      BY <2>2, <3>1 DEF Machines
    <3> QED
      BY <2>1, <2>2, <2>4, <3>1, <3>2 DEF Chose, Paired
  <2>5. CASE thr[t].op = "mount"
    BY <2>1, <2>2, <2>5 DEF Chose, Paired, Plan
  <2>6. CASE thr[t].op \notin {"add", "mount", "detach", "remove"}
    BY <2>1, <2>2, <2>6 DEF Chose, Paired
  <2> QED
    BY <2>3, <2>4, <2>5, <2>6
<1> QED
  BY <1>1, <1>4, <1>5, <1>6, <1>7, <1>8, <1>9, <1>10

\* A request chooses a port that holds no disk, or the disk it names.
LEMMA PlanFits ==
  ASSUME Inv, ImagesInv, NEW t \in Threads, thr[t].pc = "read", thr[t].vm \in Vms \ early,
         NEW c \in Plan(t), vm[thr[t].vm].st = "registered"
  PROVE  LET s == vm[thr[t].vm].slot
         IN /\ thr[t].op \in {"add", "mount", "eject", "additions"} => s[c[1]] \notin Paths
            /\ thr[t].op \in {"detach", "remove"} => s[c[1]] = c[2]
<1> DEFINE v == thr[t].vm
<1>1. vm[v] \in Vm
  BY DEF Inv, TypeOK
<1>2. \A i \in TargetPorts(v) : vm[v].slot[i] = Free
  BY <1>1 DEF TargetPorts, ImagesInv, PortsEnd, Vm
<1>3. \A i \in Drives(v) : vm[v].slot[i] = Dvd
  BY DEF Drives
<1>4. CASE thr[t].op = "add"
  BY <1>2, <1>4, PathFacts DEF Plan
<1>5. CASE thr[t].op = "mount"
  BY <1>2, <1>3, <1>5, PathFacts DEF Plan, DvdTargets, FirstDrive
<1>6. CASE thr[t].op = "eject"
  BY <1>2, <1>3, <1>6, PathFacts DEF Plan, FirstDrive
<1>7. CASE thr[t].op = "additions"
  BY <1>2, <1>3, <1>7, PathFacts DEF Plan, AdditionsTargets
<1>8. CASE thr[t].op \in {"detach", "remove"}
  BY <1>8 DEF Plan
<1> QED
  BY <1>4, <1>5, <1>6, <1>7, <1>8

\* The other threads' VMs are left alone by a step, unless they were named early.
LEMMA OthersVm ==
  ASSUME Inv, ImagesInv, NEW t \in Threads, NEW pc, NEW dirty, Ran(t, pc, dirty),
         NEW u \in Threads, u # t, thr[u].vm \in Vms \ early,
         Active(u) \/ thr[u].op \notin Creates
  PROVE  vm'[thr[u].vm] = vm[thr[u].vm]
<1>1. thr[u].vm # thr[t].vm
  BY TwoAtWork DEF Ran
<1> QED
  BY <1>1, AppliedEffect DEF Ran, ImagesInv

\* What a request has read of its VM is so when it acts.
LEMMA ReadHoldsKept ==
  ASSUME Inv, ImagesInv, Next
  PROVE  ReadHolds'
<1> USE DEF ImagesInv
<1>1. PICK t \in Threads :
        \/ Started(t)
        \/ \E c \in Plan(t) : Chose(t, c)
        \/ \E pc, dirty : Quiet(t, pc, dirty) \/ Ran(t, pc, dirty)
        \/ \E v \in Vms : Made(t, v)
        \/ NotMade(t)
        \/ \E dirty : Removed(t, dirty)
  BY Kinds
<1> DEFINE Holding(u) ==
      LET v == thr[u].vm
          i == thr[u].port
      IN v \in Vms \ early /\ thr[u].op \notin Creates /\ thr[u].pc # "read" =>
        /\ vm[v].st = "registered"
        /\ thr[u].op \in {"add", "mount", "eject", "additions"} => vm[v].slot[i] \notin Paths
        /\ thr[u].pc = "grow" \/ (thr[u].pc = "disk" /\ thr[u].grow) => vm[v].ports <= i
        /\ thr[u].pc = "detach" => vm[v].slot[i] = thr[u].path
<1>2. \A u \in Threads : Holding(u)
  BY DEF ReadHolds
<1>3. early \subseteq early' /\ Idle.vm \notin Vms
  BY <1>1, NoVmAssumption
     DEF Started, Chose, Quiet, Ran, Made, NotMade, Removed, Idle
<1>4. ASSUME NEW u \in Threads \ {t}
      PROVE  Holding(u)'
  <2>1. thr'[u] = thr[u]
    BY <1>1 DEF Started, Chose, Quiet, Ran, Made, NotMade, Removed, After
  <2>2. CASE UNCHANGED vm
    BY <1>2, <1>3, <2>1, <2>2
  <2>3. CASE \E v \in Vms : \E n : Appeared(v, n)
    BY <1>2, <1>3, <2>1, <2>3 DEF Appeared, Paired
  <2>4. CASE \E pc, dirty : Ran(t, pc, dirty)
    BY <1>2, <1>3, <2>1, <2>4, OthersVm
  <2> QED
    BY <1>1, <2>2, <2>3, <2>4 DEF Started, Chose, Quiet, Made, NotMade, Removed
<1>5. Holding(t)'
  <2>1. CASE thr'[t].op \in Creates \/ thr'[t].pc = "read" \/ thr'[t].vm \notin Vms
    BY <2>1
  <2>2. CASE \E c \in Plan(t) : Chose(t, c)
    <3>1. PICK c \in Plan(t) : Chose(t, c)
      BY <2>2
    <3>2. thr[t].op \in Ops \ Creates
      BY <3>1, StepOps DEF Chose
    <3>3. thr'[t].pc = "detach" => thr[t].op \in {"detach", "remove"}
      BY <3>1, <3>2 DEF Chose, FirstCommand, Ops, Creates
    <3>4. thr'[t].pc = "grow" => c[1] >= vm[thr[t].vm].ports
      BY <3>1, <3>2 DEF Chose, FirstCommand, Ops, Creates
    <3>5. thr'[t].vm \in Vms \ early' =>
            /\ thr[t].op \in {"add", "mount", "eject", "additions"} =>
                 vm[thr[t].vm].slot[c[1]] \notin Paths
            /\ thr[t].op \in {"detach", "remove"} => vm[thr[t].vm].slot[c[1]] = c[2]
      BY <3>1, PlanFits DEF Chose
    <3>6. c[1] \in Int /\ (thr'[t].vm \in Vms => vm[thr[t].vm].ports \in Int)
      BY <3>1, PlanTyped DEF Chose, Slots, Inv, TypeOK, Vm
    <3> QED
      BY <3>1, <3>3, <3>4, <3>5, <3>6 DEF Chose
  <2>3. CASE \E pc, dirty : Quiet(t, pc, dirty)
    BY <2>1, <2>3, <1>3, StepOps DEF Quiet, After, Ended
  <2>4. CASE \E pc, dirty : Ran(t, pc, dirty)
    <3>1. PICK pc, dirty : Ran(t, pc, dirty)
      BY <2>4
    <3> SUFFICES ASSUME thr[t].op \notin Creates, thr'[t] # Idle, thr[t].vm \in Vms \ early
                 PROVE  Holding(t)'
      BY <1>3, <2>1, <3>1 DEF Ran, After
    <3>2. /\ pc \notin Ended /\ thr'[t].pc = pc /\ thr'[t].op = thr[t].op /\ thr'[t].vm = thr[t].vm
          /\ thr'[t].path = thr[t].path /\ thr'[t].port = thr[t].port /\ thr'[t].grow = thr[t].grow
      BY <3>1 DEF Ran, After
    <3>3. pc = OnSuccess(thr[t].op, thr[t].pc, thr[t].grow) /\ Applied(t)
      BY <3>1, <3>2, Tables DEF Ran, Ended
    <3>4. thr[t].pc \in Commands \ {"createvm"}
      BY <3>1 DEF Ran
    <3>5. CASE thr[t].pc = "disk"
      <4>1. pc = IF thr[t].grow THEN "grow" ELSE "attach"
        BY <3>3, <3>5 DEF OnSuccess
      <4>2. UNCHANGED vm
        BY <3>3, <3>5 DEF Applied
      <4> QED
        BY <1>2, <3>1, <3>2, <3>5, <4>1, <4>2 DEF Ran
    <3>6. CASE thr[t].pc = "grow"
      <4>1. pc \in {"attach", "dvd"}
        BY <3>3, <3>6 DEF OnSuccess
      <4>2. vm'[thr[t].vm].slot = vm[thr[t].vm].slot /\ vm'[thr[t].vm].st = vm[thr[t].vm].st
        BY <3>3, <3>6, AppliedEffect DEF Commands
      <4> QED
        BY <1>2, <3>1, <3>2, <3>6, <4>1, <4>2 DEF Ran
    <3>7. CASE thr[t].pc = "detach"
      <4>1. thr[t].op = "remove" /\ pc = "close"
        BY <3>2, <3>3, <3>7, StepOps DEF OnSuccess, Ended
      <4>2. vm'[thr[t].vm].st = vm[thr[t].vm].st
        BY <3>3, <3>4, <3>7, AppliedEffect
      <4> QED
        BY <1>2, <3>1, <3>2, <3>7, <4>1, <4>2 DEF Ran
    <3>8. CASE thr[t].pc \notin {"disk", "grow", "detach"}
      BY <3>2, <3>3, <3>4, <3>8, StepOps DEF OnSuccess, Ended, Commands, Creates
    <3> QED
      BY <3>5, <3>6, <3>7, <3>8
  <2> QED
    BY <1>1, <2>1, <2>2, <2>3, <2>4, StepOps DEF Started, Made, NotMade, Removed, After
<1> QED
  BY <1>4, <1>5 DEF ReadHolds

\* Ports past the end of a controller are free.
LEMMA PortsEndKept ==
  ASSUME Inv, ImagesInv, Next
  PROVE  PortsEnd'
<1> USE DEF ImagesInv
<1>1. PICK t \in Threads :
        \/ Started(t)
        \/ \E c \in Plan(t) : Chose(t, c)
        \/ \E pc, dirty : Quiet(t, pc, dirty) \/ Ran(t, pc, dirty)
        \/ \E v \in Vms : Made(t, v)
        \/ NotMade(t)
        \/ \E dirty : Removed(t, dirty)
  BY Kinds
<1>2. early \subseteq early'
  BY <1>1 DEF Started, Chose, Quiet, Ran, Made, NotMade, Removed
<1>3. CASE UNCHANGED vm
  BY <1>2, <1>3 DEF PortsEnd
<1>4. CASE \E v \in Vms : \E n : Appeared(v, n)
  BY <1>2, <1>4 DEF PortsEnd, Appeared
<1>5. CASE \E pc, dirty : Ran(t, pc, dirty) /\ Applied(t)
  <2> DEFINE v == thr[t].vm
  <2>1. thr[t].pc \in Commands \ {"createvm"}
    BY <1>5 DEF Ran
  <2>2. v \in Vms /\ \A w \in Vms \ {v} : vm'[w] = vm[w]
    BY <1>5, <2>1, AppliedEffect
  <2> SUFFICES ASSUME v \notin early, NEW i \in Slots, i >= vm'[v].ports
               PROVE  vm'[v].slot[i] = Free
    BY <1>2, <2>2 DEF PortsEnd
  <2>3. i \in Int /\ vm[v].ports \in Int /\ thr[t].port \in Int /\ Target(t) \in Int
    BY <2>1, CommandTyped DEF Vm, Slots, Inv, Chosen
  <2>4. CASE thr[t].pc \in {"attach", "dvd", "detach"}
    <3>1. Target(t) < vm[v].ports /\ vm'[v].ports = vm[v].ports
      BY <1>5, <2>1, <2>4, AppliedEffect
    <3>2. vm'[v].slot[i] = IF i = Target(t) THEN Put(t) ELSE vm[v].slot[i]
      BY <1>5, <2>1, <2>4, AppliedEffect
    <3> QED
      BY <2>2, <2>3, <3>1, <3>2 DEF PortsEnd
  <2>5. CASE thr[t].pc = "ctl"
    <3>1. thr[t].op \in Creates /\ vm'[v].slot = vm[v].slot
      BY <1>5, <2>1, <2>5, AppliedEffect, StepOps
    <3> QED
      BY <2>2, <2>5, <3>1 DEF CreateHolds
  <2>6. CASE thr[t].pc = "grow"
    <3>1. thr[t].op \notin Creates
      BY <2>6, StepOps DEF Creates
    <3>2. vm[v].ports <= thr[t].port
      BY <2>2, <2>6, <3>1 DEF ReadHolds
    <3>3. vm'[v].ports = thr[t].port + 1 /\ vm'[v].slot = vm[v].slot
      BY <1>5, <2>1, <2>6, AppliedEffect
    <3> QED
      BY <2>2, <2>3, <3>2, <3>3 DEF PortsEnd
  <2>7. CASE thr[t].pc = "unregister"
    BY <1>5, <2>1, <2>7, AppliedEffect
  <2>8. CASE thr[t].pc \notin {"attach", "dvd", "detach", "ctl", "grow", "unregister"}
    <3>1. vm'[v].ports = vm[v].ports /\ vm'[v].slot = vm[v].slot
      BY <1>5, <2>1, <2>8, AppliedEffect
    <3> QED
      BY <2>2, <3>1 DEF PortsEnd
  <2> QED
    BY <2>4, <2>5, <2>6, <2>7, <2>8
<1> QED
  BY <1>1, <1>3, <1>4, <1>5 DEF Started, Chose, Quiet, Ran, Made, NotMade, Removed

\* The system disk a create has made stays, but for another VM of its name.
DiskThere(v, p) ==
  \/ file[p] = v
  \/ \E u \in Vms \ {v} : vm[u].st # "new" /\ vm[u].name = vm[v].name

LEMMA DiskStays ==
  ASSUME Inv, ImagesInv, NEW t \in Threads,
         (\E pc, dirty : Ran(t, pc, dirty)) \/ \E dirty : Removed(t, dirty),
         NEW u \in Threads, u # t, Active(u), thr[u].op \in Creates, thr[u].vm \in Vms \ early,
         DiskThere(thr[u].vm, thr[u].path)
  PROVE  DiskThere(thr[u].vm, thr[u].path)'
<1> USE DEF ImagesInv
<1> DEFINE v == thr[u].vm
           p == thr[u].path
           w == thr[t].vm
<1>1. /\ p \in Paths /\ p[1] = vm[v].name /\ thr'[u] = thr[u]
      /\ file \in [Paths -> Vms \cup {NoVm}] /\ v # NoVm /\ Active(t)
  BY PathFacts, NoVmAssumption DEF Shape, Paired, Ran, Removed, After, Inv, TypeOK
<1>2. w # v
  BY <1>1, TwoAtWork
<1>3. \A x \in Vms : vm'[x].name = vm[x].name /\ (vm[x].st # "new" => vm'[x].st # "new")
  BY AppliedEffect DEF Ran, Removed
<1>4. w \in Vms
  <2>1. CASE \E pc, dirty : Ran(t, pc, dirty)
    BY <2>1, CommandTyped DEF Ran
  <2>2. CASE \E dirty : Removed(t, dirty)
    BY <2>2, StepOps DEF Removed, Shape
  <2> QED
    BY <2>1, <2>2
<1>5. ASSUME thr[t].path = p, thr[t].pc \in {"close", "recheck"}
      PROVE  vm[w].name = vm[v].name
  BY <1>1, <1>4, <1>5, StepOps, PathName
<1>6. ASSUME file[p] = v, file'[p] # v
      PROVE  vm[w].name = vm[v].name
  <2>1. CASE \E dirty : Removed(t, dirty)
    BY <1>1, <1>5, <1>6, <2>1 DEF Removed
  <2>2. CASE \E pc, dirty : Ran(t, pc, dirty)
    <3>1. Applied(t) /\ thr[t].pc \in Commands \ {"createvm"}
      BY <1>6, <2>2 DEF Ran
    <3>2. CASE thr[t].pc = "unregister"
      <4>1. Holds(w, p)
        BY <1>1, <1>6, <3>1, <3>2, FileEffect
      <4> QED
        BY <1>1, <1>4, <4>1 DEF Holds, Machines
    <3>3. CASE thr[t].pc = "close"
      <4>1. thr[t].path = p
        BY <1>1, <1>6, <3>1, <3>3, FileEffect
      <4> QED
        BY <1>5, <3>3, <4>1
    <3>4. CASE thr[t].pc \notin {"unregister", "close"}
      BY <1>1, <1>6, <3>1, <3>4, FileEffect
    <3> QED
      BY <3>2, <3>3, <3>4
  <2> QED
    BY <2>1, <2>2
<1>7. vm[w].st # "new"
  BY <1>4 DEF Paired
<1> QED
  BY <1>1, <1>2, <1>3, <1>4, <1>6, <1>7 DEF DiskThere

\* What is so of a create at work stays so.
LEMMA CreateHoldsKept ==
  ASSUME Inv, ImagesInv, Next
  PROVE  CreateHolds'
<1> USE DEF ImagesInv
<1>1. PICK t \in Threads :
        \/ Started(t)
        \/ \E c \in Plan(t) : Chose(t, c)
        \/ \E pc, dirty : Quiet(t, pc, dirty) \/ Ran(t, pc, dirty)
        \/ \E v \in Vms : Made(t, v)
        \/ NotMade(t)
        \/ \E dirty : Removed(t, dirty)
  BY Kinds
<1> DEFINE Come(u) ==
      LET v == thr[u].vm
          p == thr[u].path
      IN v \in Vms \ early /\ thr[u].op \in Creates =>
        /\ thr[u].pc \in {"modify", "disk", "ctl", "attach", "dvd", "cred", "unattended"} =>
             vm[v].st = "registered"
        /\ thr[u].pc \in {"modify", "disk", "ctl", "attach"} =>
             \A i \in Slots : vm[v].slot[i] = Free
        /\ thr[u].pc = "dvd" => vm[v].slot[1] \notin Paths
        /\ thr[u].pc \in {"dvd", "cred", "unattended"} => vm[v].slot[0] = p
        /\ thr[u].pc \in {"ctl", "attach", "dvd", "cred", "unattended"} => DiskThere(v, p)
<1>2. \A u \in Threads : Come(u)
  BY DEF CreateHolds, DiskThere
<1>3. early \subseteq early' /\ Idle.vm \notin Vms
  BY <1>1, NoVmAssumption
     DEF Started, Chose, Quiet, Ran, Made, NotMade, Removed, Idle
<1>4. ASSUME NEW u \in Threads \ {t}
      PROVE  Come(u)'
  <2>1. thr'[u] = thr[u]
    BY <1>1 DEF Started, Chose, Quiet, Ran, Made, NotMade, Removed, After
  <2> DEFINE v == thr[u].vm
             p == thr[u].path
  <2> SUFFICES ASSUME Active(u), v \in Vms \ early, thr[u].op \in Creates
               PROVE  vm'[v] = vm[v] /\ (DiskThere(v, p) => DiskThere(v, p)')
    <3> HIDE DEF Come
    <3> SUFFICES ASSUME Active(u), v \in Vms \ early, thr[u].op \in Creates,
                        vm'[v] = vm[v], DiskThere(v, p) => DiskThere(v, p)'
                 PROVE  Come(u)'
      BY <1>3, <2>1 DEF Come, Active, Ended
    <3>1. (DiskThere(thr[u].vm, thr[u].path))' = DiskThere(v, p)'
      OBVIOUS
    <3> QED
      BY <1>2, <2>1 DEF Come, DiskThere
  <2>2. vm[v].st # "new"
    BY DEF Paired
  <2>3. CASE UNCHANGED <<vm, file>>
    BY <2>1, <2>3 DEF DiskThere
  <2>4. CASE UNCHANGED file /\ \E w \in Vms : \E n : Appeared(w, n)
    BY <2>1, <2>2, <2>4 DEF DiskThere, Appeared
  <2>5. CASE \E pc, dirty : Ran(t, pc, dirty)
    BY <2>5, OthersVm, DiskStays
  <2>6. CASE \E dirty : Removed(t, dirty)
    BY <2>6, DiskStays DEF Removed
  <2> QED
    BY <1>1, <2>3, <2>4, <2>5, <2>6 DEF Started, Chose, Quiet, Made, NotMade
<1>5. Come(t)'
  <2>1. CASE \/ thr'[t].op \notin Creates \/ thr'[t].vm \notin Vms
             \/ thr'[t].pc \in {"createvm", "unregister", "stat", "close", "recheck"} \cup Ended
    BY <2>1 DEF Ended
  <2>2. CASE \E pc, dirty : Quiet(t, pc, dirty)
    <3>1. PICK pc, dirty : Quiet(t, pc, dirty)
      BY <2>2
    <3>2. thr'[t] # Idle => thr'[t].vm = thr[t].vm /\ thr'[t].op = thr[t].op /\ thr'[t].path = thr[t].path
                            /\ thr'[t].pc = pc
      BY <3>1 DEF Quiet, After
    <3>3. CASE pc = thr[t].pc /\ thr'[t] # Idle
      BY <1>2, <3>1, <3>2, <3>3 DEF Quiet, DiskThere
    <3>4. CASE pc = "unattended" /\ thr[t].pc = "cred" /\ thr'[t] # Idle
      BY <1>2, <3>1, <3>2, <3>4 DEF Quiet, DiskThere
    <3> QED
      BY <1>3, <2>1, <3>1, <3>2, <3>3, <3>4 DEF Quiet, Ended
  <2>3. CASE \E v \in Vms : Made(t, v)
    <3>1. PICK v \in Vms : Made(t, v)
      BY <2>3
    <3> QED
      BY <3>1 DEF Made, Appeared, Machines
  <2>4. CASE \E pc, dirty : Ran(t, pc, dirty)
    <3>1. PICK pc, dirty : Ran(t, pc, dirty)
      BY <2>4
    <3> DEFINE v == thr[t].vm
               p == thr[t].path
    <3> SUFFICES ASSUME thr[t].op \in Creates, thr'[t] # Idle, v \in Vms \ early,
                        pc \notin {"createvm", "unregister", "stat", "close", "recheck"} \cup Ended
                 PROVE  Come(t)'
      BY <1>3, <2>1, <3>1, IdleShape DEF Ran, After
    <3>2. /\ thr'[t].pc = pc /\ thr'[t].op = thr[t].op /\ thr'[t].vm = v /\ thr'[t].path = p
          /\ early' = early
      BY <3>1 DEF Ran, After
    <3>3. thr[t].pc \in Commands \ {"createvm"} /\ thr[t].pc \in StepsOf(thr[t].op) /\ thr[t].port = 0
      BY <3>1 DEF Ran, Shape
    <3>4. pc = OnSuccess(thr[t].op, thr[t].pc, thr[t].grow) /\ Applied(t)
      BY <3>1, <3>3 DEF Ran, OnFailure, Ended
    <3>5. thr[t].pc \in {"modify", "disk", "ctl", "attach"}
      BY <3>3, <3>4 DEF OnSuccess, StepsOf, Creates, Ended
    <3>6. p \in Paths /\ 0 \in Slots /\ 1 \in Slots /\ Free \notin Paths
          /\ file \in [Paths -> Vms \cup {NoVm}]
      BY PathFacts, Constants DEF Shape, Inv, TypeOK
    <3>7. vm[v].st = "registered" /\ vm'[v].st = "registered" /\ vm'[v].name = vm[v].name
          /\ \A i \in Slots : vm[v].slot[i] = Free
      BY <1>2, <3>3, <3>4, <3>5, AppliedEffect
    <3>8. \A w \in Vms : w # v => vm'[w] = vm[w]
      BY <3>3, <3>4, AppliedEffect
    <3>9. thr[t].pc # "disk" => file' = file
      BY <3>3, <3>4, <3>5, FileEffect
    <3>10. CASE thr[t].pc = "modify"
      <4>1. pc = "disk" /\ vm'[v].slot = vm[v].slot
        BY <3>3, <3>4, <3>10, AppliedEffect DEF OnSuccess
      <4> QED
        BY <3>2, <3>7, <4>1
    <3>11. CASE thr[t].pc = "disk"
      <4>1. pc = "ctl" /\ vm'[v].slot = vm[v].slot
        BY <3>3, <3>4, <3>11, AppliedEffect DEF OnSuccess
      <4>2. file'[p] = v
        BY <3>3, <3>4, <3>6, <3>11, FileEffect
      <4> QED
        BY <3>2, <3>7, <4>1, <4>2 DEF DiskThere
    <3>12. CASE thr[t].pc = "ctl"
      <4>1. pc = "attach" /\ vm'[v].slot = vm[v].slot
        BY <3>3, <3>4, <3>12, AppliedEffect DEF OnSuccess
      <4>2. DiskThere(v, p)
        BY <1>2, <3>12
      <4>3. (DiskThere(thr[t].vm, thr[t].path))'
        BY <3>2, <3>7, <3>8, <3>9, <3>12, <4>2 DEF DiskThere
      <4> QED
        BY <3>2, <3>7, <4>1, <4>3
    <3>13. CASE thr[t].pc = "attach"
      <4>1. pc \in {"dvd", "cred"}
        BY <3>4, <3>13 DEF OnSuccess, Creates
      <4>2. Target(t) = 0 /\ Put(t) = p
        BY <3>3, <3>13 DEF Target, Put
      <4>3. \A i \in Slots : vm'[v].slot[i] = IF i = 0 THEN p ELSE vm[v].slot[i]
        BY <3>3, <3>4, <3>13, <4>2, AppliedEffect
      <4>4. vm'[v].slot[0] = p /\ vm'[v].slot[1] = Free
        BY <3>6, <3>7, <4>3
      <4>5. DiskThere(v, p)
        BY <1>2, <3>13
      <4>6. (DiskThere(thr[t].vm, thr[t].path))'
        BY <3>2, <3>7, <3>8, <3>9, <3>13, <4>5 DEF DiskThere
      <4>7. Free \notin Paths'
        BY <3>6
      <4> QED
        BY <3>2, <3>6, <3>7, <4>1, <4>4, <4>6
    <3> QED
      BY <3>5, <3>10, <3>11, <3>12, <3>13
  <2> QED
    BY <1>1, <2>1, <2>2, <2>3, <2>4, StepOps
       DEF Started, Chose, NotMade, Removed, After, Ended, Creates
<1> HIDE DEF Come
<1>6. \A u \in Threads : Come(u)'
  BY <1>4, <1>5
<1> QED
  BY <1>6 DEF Come, CreateHolds, DiskThere

\* What a cleanup has done stays done.
LEMMA CleanupHoldsKept ==
  ASSUME Inv, ImagesInv, Next
  PROVE  CleanupHolds'
<1> USE DEF ImagesInv
<1>1. PICK t \in Threads :
        \/ Started(t)
        \/ \E c \in Plan(t) : Chose(t, c)
        \/ \E pc, dirty : Quiet(t, pc, dirty) \/ Ran(t, pc, dirty)
        \/ \E v \in Vms : Made(t, v)
        \/ NotMade(t)
        \/ \E dirty : Removed(t, dirty)
  BY Kinds
<1>2. /\ file \in [Paths -> Vms \cup {NoVm}] /\ NoVm \notin Vms
      /\ \A u \in Threads : thr[u].op \in Creates => thr[u].path \in Paths /\ thr[u].path[2] = 0
  BY NoVmAssumption, PathFacts DEF Inv, TypeOK, Shape
<1>3. ASSUME NEW v \in Vms, vm[v].st = "gone"
      PROVE  vm'[v].st = "gone"
  <2>1. CASE \E pc, dirty : Ran(t, pc, dirty) /\ Applied(t)
    BY <1>3, <2>1, AppliedEffect DEF Ran
  <2>2. CASE \E w \in Vms : \E n : Appeared(w, n)
    BY <1>3, <2>2 DEF Appeared
  <2> QED
    BY <1>1, <1>3, <2>1, <2>2 DEF Started, Chose, Quiet, Ran, Made, NotMade, Removed
<1>4. ASSUME NEW u \in Threads \ {t}, thr[u].op \in Creates, thr[u].vm \in Vms,
             file[thr[u].path] # thr[u].vm
      PROVE  file'[thr[u].path] # thr[u].vm
  <2>1. CASE \E pc, dirty : Ran(t, pc, dirty) /\ Applied(t)
    <3>1. thr[t].pc \in Commands \ {"createvm"} /\ Applied(t)
      BY <2>1 DEF Ran
    <3>2. CASE thr[t].pc = "disk"
      <4>1. thr[t].op \in Creates \/ thr[t].path[2] # 0
        BY <3>1, <3>2, StepOps, CommandTyped DEF Paired
      <4>2. thr[t].vm # thr[u].vm \/ thr[t].path # thr[u].path
        BY <1>2, <1>4, <4>1 DEF Alone
      <4> QED
        BY <1>2, <1>4, <3>1, <3>2, <4>2, FileEffect
    <3>3. CASE thr[t].pc # "disk"
      <4>1. file'[thr[u].path] \in {file[thr[u].path], NoVm}
        BY <1>2, <1>4, <3>1, <3>3, FileEffect
      <4> QED
        BY <1>2, <1>4, <4>1
    <3> QED
      BY <3>2, <3>3
  <2>2. CASE \E dirty : Removed(t, dirty)
    BY <1>2, <1>4, <2>2 DEF Removed
  <2> QED
    BY <1>1, <1>4, <2>1, <2>2 DEF Started, Chose, Quiet, Ran, Made, NotMade
<1> DEFINE Clean(u) ==
      thr[u].op \in Creates /\ thr[u].vm \in Vms /\ ~thr[u].dirty =>
        /\ thr[u].pc \in {"stat", "close", "recheck"} => vm[thr[u].vm].st = "gone"
        /\ thr[u].pc = "failed" =>
             /\ vm[thr[u].vm].st = "gone" \/ thr[u].blind
             /\ file[thr[u].path] # thr[u].vm
<1>5. \A u \in Threads : Clean(u)
  BY DEF CleanupHolds
<1>6. ASSUME NEW u \in Threads \ {t}
      PROVE  Clean(u)'
  <2>1. thr'[u] = thr[u]
    BY <1>1 DEF Started, Chose, Quiet, Ran, Made, NotMade, Removed, After
  <2> QED
    BY <1>3, <1>4, <1>5, <2>1
<1>7. Clean(t)'
  <2>1. CASE \/ thr'[t].op \notin Creates \/ thr'[t].vm \notin Vms \/ thr'[t].dirty
             \/ thr'[t].pc \notin {"stat", "close", "recheck", "failed"}
    BY <2>1
  <2>2. CASE \E pc, dirty : Quiet(t, pc, dirty)
    <3>1. PICK pc, dirty : Quiet(t, pc, dirty)
      BY <2>2
    <3> SUFFICES ASSUME thr[t].op \in Creates, thr'[t] # Idle, thr[t].vm \in Vms
                 PROVE  Clean(t)'
      BY <2>1, <3>1, IdleShape, StepOps DEF Quiet, After
    <3>2. /\ thr'[t].pc = pc /\ thr'[t].op = thr[t].op /\ thr'[t].vm = thr[t].vm
          /\ thr'[t].path = thr[t].path /\ thr'[t].dirty = dirty
          /\ UNCHANGED <<vm, file>>
      BY <3>1 DEF Quiet, After
    <3>3. thr[t].pc # "read" /\ thr[t].pc # "failed"
      BY <3>1, StepOps DEF Quiet, Active, Ended
    <3>4. pc \in {"stat", "close", "recheck", "failed"} /\ ~dirty =>
            /\ ~thr[t].dirty /\ thr[t].pc \in {"stat", "close", "recheck"}
            /\ pc = "failed" => file[thr[t].path] = NoVm
      BY <3>1, <3>3 DEF Quiet
    <3>5. thr[t].pc \in {"stat", "close", "recheck"} /\ ~thr[t].dirty =>
            vm[thr[t].vm].st = "gone"
      BY <1>5
    <3> QED
      BY <1>2, <3>2, <3>4, <3>5
  <2>3. CASE \E pc, dirty : Ran(t, pc, dirty)
    <3>1. PICK pc, dirty : Ran(t, pc, dirty)
      BY <2>3
    <3> SUFFICES ASSUME thr[t].op \in Creates, thr'[t] # Idle, ~dirty,
                        pc \in {"stat", "close", "recheck", "failed"}
                 PROVE  Clean(t)'
      BY <2>1, <3>1, IdleShape DEF Ran, After
    <3>2. /\ thr'[t].pc = pc /\ thr'[t].vm = thr[t].vm
          /\ thr'[t].path = thr[t].path /\ thr'[t].dirty = dirty
          /\ ~thr[t].dirty
      BY <3>1 DEF Ran, After
    <3>3. thr[t].pc \in Commands \ {"createvm"} /\ thr[t].vm \in Vms
          /\ thr[t].pc \in StepsOf(thr[t].op)
      BY <3>1, CommandTyped DEF Ran, Shape
    <3>4. thr[t].pc \in {"unregister", "close"} /\ pc # "failed"
      BY <3>1, <3>3 DEF Ran, OnSuccess, OnFailure, StepsOf, Creates, Commands
    <3>5. CASE thr[t].pc = "unregister"
      <4>1. Applied(t)
        BY <3>1, <3>5 DEF Ran
      <4>2. vm'[thr[t].vm].st = "gone"
        BY <3>3, <3>5, <4>1, AppliedEffect
      <4> QED
        BY <3>2, <3>4, <4>2
    <3>6. CASE thr[t].pc = "close"
      BY <1>3, <1>5, <3>2, <3>3, <3>4, <3>6
    <3> QED
      BY <3>4, <3>5, <3>6
  <2>4. CASE \E dirty : Removed(t, dirty)
    <3>1. PICK dirty : Removed(t, dirty)
      BY <2>4
    <3>2. thr[t].op \in Creates /\ thr[t].pc = "recheck"
      BY <3>1, StepOps DEF Removed
    <3> QED
      BY <1>2, <1>3, <1>5, <2>1, <3>1, <3>2, IdleShape DEF Removed, After
  <2>5. CASE NotMade(t)
    BY <1>2, <2>1, <2>5, StepOps, IdleShape DEF NotMade, After, Shape
  <2>6. CASE \E v \in Vms : Made(t, v)
    <3>1. PICK v \in Vms : Made(t, v)
      BY <2>6
    <3>2. thr[t].op \in Creates /\ thr[t].path \in Paths
      BY <1>2, <3>1, StepOps DEF Made
    <3>3. file[thr[t].path] # v
      BY <1>2, <3>1, <3>2 DEF Made, Appeared, Files
    <3>4. /\ thr'[t].pc \notin {"stat", "close", "recheck"}
          /\ thr'[t].pc = "failed" => thr'[t].blind
          /\ thr'[t].vm = v /\ thr'[t].path = thr[t].path /\ file' = file
      BY <3>1 DEF Made
    <3> QED
      BY <3>3, <3>4
  <2> QED
    BY <1>1, <2>1, <2>2, <2>3, <2>4, <2>5, <2>6, StepOps DEF Started, Chose
<1> HIDE DEF Clean
<1>8. \A u \in Threads : Clean(u)'
  BY <1>6, <1>7
<1> QED
  BY <1>8 DEF Clean, CleanupHolds

\* The image that a VM or its thread claims bears the VM's name.
LEMMA ClaimName ==
  ASSUME Inv, ImagesInv, NEW v \in Vms, NEW p \in Paths, Claimed(v, p)
  PROVE  p[1] = vm[v].name
<1> USE DEF ImagesInv
<1>1. CASE Holds(v, p)
  BY <1>1 DEF Holds, Machines
<1>2. CASE \E t \in Threads : /\ thr[t].vm = v /\ thr[t].path = p
                              /\ thr[t].pc \in {"ctl", "grow", "attach", "detach"}
  <2>1. PICK t \in Threads : /\ thr[t].vm = v /\ thr[t].path = p
                             /\ thr[t].pc \in {"ctl", "grow", "attach", "detach"}
    BY <1>2
  <2>2. thr[t].op # "mount"
    BY <2>1, PathFacts DEF Paired
  <2>3. thr[t].op \in Creates \cup {"add", "detach", "remove"}
    BY <2>1, <2>2, StepOps
  <2> QED
    BY <2>1, <2>3, PathName
<1> QED
  BY <1>1, <1>2 DEF Claimed

\* A claim is made on an image that was claimed before or is made by the step.
LEMMA ClaimGrows ==
  ASSUME Inv, ImagesInv, Next, NEW v \in Vms, NEW p \in Paths,
         vm'[v].st = "registered", Claimed(v, p)'
  PROVE  \/ vm[v].st = "registered" /\ Claimed(v, p)
         \/ file'[p] = v
<1> USE DEF ImagesInv
<1>1. PICK t \in Threads :
        \/ Started(t)
        \/ \E c \in Plan(t) : Chose(t, c)
        \/ \E pc, dirty : Quiet(t, pc, dirty) \/ Ran(t, pc, dirty)
        \/ \E w \in Vms : Made(t, w)
        \/ NotMade(t)
        \/ \E dirty : Removed(t, dirty)
  BY Kinds
<1> DEFINE Acts == {"ctl", "grow", "attach", "detach"}
<1>2. Free # p /\ Dvd # p /\ file \in [Paths -> Vms \cup {NoVm}] /\ NoVm # v
  BY PathFacts, NoVmAssumption DEF Inv, TypeOK
<1>3. \A u \in Threads \ {t} : thr'[u] = thr[u]
  BY <1>1 DEF Started, Chose, Quiet, Ran, Made, NotMade, Removed, After
<1>4. vm[v].st = "registered" \/ (vm[v].st = "new" /\ \E n : Appeared(v, n))
  <2>1. CASE \E pc, dirty : Ran(t, pc, dirty) /\ Applied(t)
    BY <2>1, AppliedEffect DEF Ran
  <2>2. CASE \E w \in Vms : \E n : Appeared(w, n)
    BY <2>2 DEF Appeared
  <2> QED
    BY <1>1, <2>1, <2>2 DEF Started, Chose, Quiet, Ran, Made, NotMade, Removed
<1>5. CASE Holds(v, p)'
  <2>1. PICK i \in Slots : vm'[v].slot[i] = p
    BY <1>5 DEF Holds
  <2>2. CASE vm'[v].slot[i] = vm[v].slot[i]
    <3>1. vm[v].st = "registered"
      BY <1>2, <2>1, <2>2 DEF Machines
    <3> QED
      BY <2>1, <2>2, <3>1 DEF Claimed, Holds
  <2>3. CASE vm'[v].slot[i] # vm[v].slot[i]
    <3>1. \E pc, dirty : Ran(t, pc, dirty) /\ Applied(t)
      BY <1>1, <2>3 DEF Started, Chose, Quiet, Ran, Made, NotMade, Removed, Appeared
    <3>2. thr[t].pc \in Commands \ {"createvm"} /\ Applied(t)
      BY <3>1 DEF Ran
    <3>3. v = thr[t].vm /\ thr[t].pc \in {"attach", "dvd", "detach"} /\ vm'[v].slot[i] = Put(t)
      BY <1>2, <2>1, <2>3, <3>2, AppliedEffect
    <3>4. thr[t].pc = "attach" /\ thr[t].path = p
      BY <1>2, <2>1, <3>3 DEF Put
    <3>5. vm[v].st = "registered"
      BY <3>2, <3>3, AppliedEffect
    <3> QED
      BY <3>3, <3>4, <3>5 DEF Claimed
  <2> QED
    BY <2>2, <2>3
<1>6. CASE \E u \in Threads : thr'[u].vm = v /\ thr'[u].path = p /\ thr'[u].pc \in Acts
  <2>1. PICK u \in Threads : thr'[u].vm = v /\ thr'[u].path = p /\ thr'[u].pc \in Acts
    BY <1>6
  <2>2. CASE thr[u].vm = v /\ thr[u].path = p /\ thr[u].pc \in Acts
    <3>1. vm[v].st = "registered"
      BY <1>4, <2>2 DEF Paired
    <3> QED
      BY <2>2, <3>1 DEF Claimed
  <2>3. CASE u = t /\ ~(thr[t].vm = v /\ thr[t].path = p /\ thr[t].pc \in Acts)
    <3>1. CASE \E c \in Plan(t) : Chose(t, c)
      <4>1. PICK c \in Plan(t) : Chose(t, c)
        BY <3>1
      <4>2. thr[t].op \in Ops \ Creates /\ thr[t].vm = v /\ c[2] = p
        BY <2>1, <2>3, <4>1, StepOps DEF Chose
      <4>3. thr[t].op # "mount"
        BY <1>2, <4>2 DEF Plan
      <4>4. thr[t].op \in {"detach", "remove"}
        BY <2>1, <2>3, <4>1, <4>2, <4>3 DEF Chose, FirstCommand, Ops, Creates
      <4>5. Holds(v, p)
        BY <4>1, <4>2, <4>4 DEF Plan
      <4> QED
        BY <4>5 DEF Claimed, Holds
    <3>2. CASE \E pc, dirty : Ran(t, pc, dirty)
      <4>1. PICK pc, dirty : Ran(t, pc, dirty)
        BY <3>2
      <4>2. thr'[t].pc = pc /\ thr[t].vm = v /\ thr[t].path = p /\ pc \in Acts
        BY <2>1, <2>3, <4>1, IdleShape DEF Ran, After
      <4>3. thr[t].pc \in Commands \ {"createvm"}
        BY <4>1 DEF Ran
      <4>4. pc = OnSuccess(thr[t].op, thr[t].pc, thr[t].grow) /\ Applied(t)
        BY <4>1, <4>2 DEF Ran, OnFailure
      <4>5. thr[t].pc = "disk"
        BY <2>3, <4>2, <4>3, <4>4 DEF OnSuccess, Commands
      <4> QED
        BY <1>2, <4>2, <4>3, <4>4, <4>5, FileEffect
    <3> QED
      BY <1>1, <2>1, <2>3, <3>1, <3>2, IdleShape
         DEF Started, Quiet, Made, NotMade, Removed, After
  <2> QED
    BY <1>3, <2>1, <2>2, <2>3
<1> QED
  BY <1>5, <1>6 DEF Claimed

\* An image appears for a VM that is there, under its name.
LEMMA FileGrows ==
  ASSUME Inv, ImagesInv, Next, NEW p \in Paths, file'[p] \notin {file[p], NoVm}
  PROVE  /\ file[p] = NoVm /\ file'[p] \in Vms /\ UNCHANGED vm
         /\ file'[p] \in early \/ vm[file'[p]].st = "registered"
         /\ vm[file'[p]].name = p[1]
<1> USE DEF ImagesInv
<1>1. PICK t \in Threads :
        \/ Started(t)
        \/ \E c \in Plan(t) : Chose(t, c)
        \/ \E pc, dirty : Quiet(t, pc, dirty) \/ Ran(t, pc, dirty)
        \/ \E w \in Vms : Made(t, w)
        \/ NotMade(t)
        \/ \E dirty : Removed(t, dirty)
  BY Kinds
<1>2. file \in [Paths -> Vms \cup {NoVm}]
  BY DEF Inv, TypeOK
<1>3. ~(\E dirty : Removed(t, dirty))
  BY <1>2 DEF Removed
<1>4. \E pc, dirty : Ran(t, pc, dirty) /\ Applied(t)
  BY <1>1, <1>3 DEF Started, Chose, Quiet, Ran, Made, NotMade
<1>5. thr[t].pc \in Commands \ {"createvm"} /\ Applied(t)
  BY <1>4 DEF Ran
<1>6. thr[t].pc = "disk" /\ thr[t].path = p /\ file'[p] = thr[t].vm /\ file[p] = NoVm
  BY <1>2, <1>5, FileEffect
<1>7. thr[t].vm \in Vms /\ UNCHANGED vm
  BY <1>5, <1>6, CommandTyped DEF Applied
<1>8. thr[t].op \in Creates \cup {"add"}
  BY <1>6, StepOps
<1>9. vm[thr[t].vm].name = p[1]
  BY <1>6, <1>7, <1>8, PathName
<1>10. thr[t].vm \in early \/ vm[thr[t].vm].st = "registered"
  BY <1>6, <1>7, <1>8 DEF ReadHolds, CreateHolds
<1> QED
  BY <1>6, <1>7, <1>9, <1>10

\* What a VM claims was made for it.
LEMMA ClaimsKept ==
  ASSUME Inv, ImagesInv, Next
  PROVE  Claims'
<1> USE DEF ImagesInv
<1>1. early \subseteq early'
  BY Kinds DEF Started, Chose, Quiet, Ran, Made, NotMade, Removed
<1> SUFFICES ASSUME NEW v \in Vms, NEW p \in Paths,
                    vm'[v].st = "registered", Claimed(v, p)'
             PROVE  file'[p] \in {v, NoVm} \cup early'
  BY DEF Claims
<1>2. CASE file'[p] = v
  BY <1>2
<1>3. CASE vm[v].st = "registered" /\ Claimed(v, p)
  <2>1. CASE file'[p] \in {file[p], NoVm}
    BY <1>1, <1>3, <2>1 DEF Claims
  <2>2. CASE file'[p] \notin {file[p], NoVm}
    <3>1. p[1] = vm[v].name
      BY <1>3, ClaimName
    <3> QED
      BY <1>1, <1>3, <2>2, <3>1, FileGrows DEF Machines
  <2> QED
    BY <2>1, <2>2
<1> QED
  BY <1>2, <1>3, ClaimGrows

\* An image that is kept already stays apart.
LEMMA KeptStaysApart ==
  ASSUME Inv, ImagesInv, Next, NEW p \in kept, p \in kept'
  PROVE  /\ \A v \in Vms \ early' : ~Holds(v, p)'
         /\ \A u \in Threads :
              thr'[u].vm \in Vms \ early' /\ thr'[u].path = p =>
                /\ thr'[u].pc \notin {"grow", "ctl", "attach"}
                /\ thr'[u].op = "remove" => thr'[u].pc # "close"
                /\ thr'[u].op \in Creates /\ thr'[u].pc \notin Ended => file'[p] # thr'[u].vm
<1> USE DEF ImagesInv
<1>1. PICK t \in Threads :
        \/ Started(t)
        \/ \E c \in Plan(t) : Chose(t, c)
        \/ \E pc, dirty : Quiet(t, pc, dirty) \/ Ran(t, pc, dirty)
        \/ \E w \in Vms : Made(t, w)
        \/ NotMade(t)
        \/ \E dirty : Removed(t, dirty)
  BY Kinds
<1>2. /\ p \in Paths /\ Free # p /\ Dvd # p
      /\ file \in [Paths -> Vms \cup {NoVm}] /\ NoVm \notin Vms
  BY PathFacts, NoVmAssumption DEF Inv, TypeOK
<1>3. /\ early \subseteq early'
      /\ \A u \in Threads \ {t} : thr'[u] = thr[u]
  BY <1>1 DEF Started, Chose, Quiet, Ran, Made, NotMade, Removed, After
<1>4. file[p] # NoVm /\ file'[p] = file[p]
  <2>1. file[p] # NoVm
    BY DEF Files
  <2>2. file'[p] # NoVm
    BY FilesKept DEF Files
  <2> QED
    BY <1>2, <2>1, <2>2, FileGrows
<1> DEFINE Apart(u) ==
      thr[u].vm \in Vms \ early /\ thr[u].path = p =>
        /\ thr[u].pc \notin {"grow", "ctl", "attach"}
        /\ thr[u].op = "remove" => thr[u].pc # "close"
        /\ thr[u].op \in Creates /\ thr[u].pc \notin Ended => file[p] # thr[u].vm
<1>5. (\A v \in Vms \ early : ~Holds(v, p)) /\ \A u \in Threads : Apart(u)
  BY DEF KeptApart, Active
<1>6. ASSUME NEW v \in Vms \ early', Holds(v, p)'
      PROVE  FALSE
  <2>1. PICK i \in Slots : vm'[v].slot[i] = p
    BY <1>6 DEF Holds
  <2>2. ~(vm[v].st = "registered" /\ vm[v].slot[i] = p)
    BY <1>3, <1>5 DEF Holds
  <2>3. vm[v].slot[i] # p
    BY <1>2, <2>2 DEF Machines
  <2>4. \E pc, dirty : Ran(t, pc, dirty) /\ Applied(t)
    BY <1>1, <2>1, <2>3 DEF Started, Chose, Quiet, Ran, Made, NotMade, Removed, Appeared
  <2>5. thr[t].pc \in Commands \ {"createvm"} /\ Applied(t)
    BY <2>4 DEF Ran
  <2>6. v = thr[t].vm /\ thr[t].pc \in {"attach", "dvd", "detach"} /\ vm'[v].slot[i] = Put(t)
    BY <1>2, <2>1, <2>3, <2>5, AppliedEffect
  <2>7. thr[t].pc = "attach" /\ thr[t].path = p
    BY <1>2, <2>1, <2>6 DEF Put
  <2> QED
    BY <1>3, <1>5, <2>6, <2>7
<1>7. ASSUME NEW u \in Threads \ {t}
      PROVE  Apart(u)'
  BY <1>3, <1>4, <1>5
<1>8. Apart(t)'
  <2> SUFFICES ASSUME thr'[t].vm \in Vms \ early', thr'[t].path = p
               PROVE  Apart(t)'
    OBVIOUS
  <2>1. CASE Started(t)
    BY <1>2, <2>1 DEF Started, Creates
  <2>2. CASE \E c \in Plan(t) : Chose(t, c)
    <3>1. PICK c \in Plan(t) : Chose(t, c)
      BY <2>2
    <3>2. thr[t].op \in Ops \ Creates /\ c[2] = p
      BY <3>1, StepOps DEF Chose
    <3>3. thr[t].op # "mount"
      BY <1>2, <3>2 DEF Plan
    <3>4. thr'[t].pc \notin {"grow", "ctl", "attach", "close"} /\ thr'[t].op \notin Creates
      BY <3>1, <3>2, <3>3 DEF Chose, FirstCommand, Ops, Creates
    <3> QED
      BY <3>4
  <2>3. CASE \E pc, dirty : Quiet(t, pc, dirty)
    <3>1. PICK pc, dirty : Quiet(t, pc, dirty)
      BY <2>3
    <3>2. /\ thr'[t].pc = pc /\ thr'[t].op = thr[t].op /\ thr'[t].vm = thr[t].vm
          /\ thr'[t].path = thr[t].path /\ thr[t].pc \notin Ended
      BY <1>2, <3>1, IdleShape DEF Quiet, After, Active
    <3>3. thr[t].pc = "stat" => thr[t].op # "remove"
      BY StepOps DEF Creates
    <3> QED
      BY <1>3, <1>4, <1>5, <3>1, <3>2, <3>3 DEF Quiet
  <2>4. CASE \E pc, dirty : Ran(t, pc, dirty)
    <3>1. PICK pc, dirty : Ran(t, pc, dirty)
      BY <2>4
    <3>2. /\ thr'[t].pc = pc /\ thr'[t].op = thr[t].op /\ thr'[t].vm = thr[t].vm
          /\ thr'[t].path = thr[t].path /\ thr[t].pc \notin Ended
          /\ thr[t].pc \in Commands \ {"createvm"} /\ thr[t].pc \in StepsOf(thr[t].op)
      BY <1>2, <3>1, IdleShape DEF Ran, After, Active, Shape
    <3>3. thr[t].vm \in Vms \ early /\ thr[t].path = p
      BY <1>3, <3>2
    <3>4. thr'[t].op \in Creates => file'[p] # thr'[t].vm
      BY <1>4, <1>5, <3>2, <3>3
    <3>5. ASSUME pc \in {"grow", "ctl", "attach"} PROVE FALSE
      <4>1. pc = OnSuccess(thr[t].op, thr[t].pc, thr[t].grow) /\ Applied(t)
        BY <3>1, <3>5 DEF Ran, OnFailure
      <4>2. thr[t].pc \in {"disk", "ctl", "grow"}
        BY <3>2, <3>5, <4>1 DEF OnSuccess, Commands
      <4>3. thr[t].pc # "disk"
        BY <1>4, <3>2, <3>3, <4>1, FileEffect
      <4> QED
        BY <1>5, <3>3, <4>2, <4>3
    <3>6. ASSUME thr[t].op = "remove", pc = "close" PROVE FALSE
      <4>1. thr[t].pc \in {"detach", "close"}
        BY <3>2, <3>6 DEF StepsOf, Commands
      <4>2. thr[t].pc = "detach"
        BY <1>5, <3>3, <3>6, <4>1
      <4>3. vm[thr[t].vm].st = "registered" /\ vm[thr[t].vm].slot[thr[t].port] = p
        BY <3>3, <3>6, <4>2 DEF ReadHolds, Creates
      <4>4. thr[t].port \in Slots
        BY DEF Inv, Chosen
      <4> QED
        BY <1>5, <3>3, <4>3, <4>4 DEF Holds
    <3> QED
      BY <3>2, <3>4, <3>5, <3>6
  <2>5. CASE \E w \in Vms : Made(t, w)
    <3>1. PICK w \in Vms : Made(t, w)
      BY <2>5
    <3>2. file[p] # w
      BY <1>2, <3>1 DEF Made, Appeared, Files
    <3> QED
      BY <1>4, <3>1, <3>2, StepOps DEF Made, Creates
  <2>6. CASE NotMade(t) \/ \E dirty : Removed(t, dirty)
    BY <1>2, <2>6, IdleShape DEF NotMade, Removed, After, Ended
  <2> QED
    BY <1>1, <2>1, <2>2, <2>3, <2>4, <2>5, <2>6
<1> HIDE DEF Apart
<1>9. \A u \in Threads : Apart(u)'
  BY <1>7, <1>8
<1> QED
  BY <1>6, <1>9 DEF Apart

\* An image that is detached to be kept is apart then.
LEMMA DetachedIsApart ==
  ASSUME Inv, ImagesInv, NEW t \in Threads, NEW pc, NEW dirty, Ran(t, pc, dirty),
         NEW p \in kept', p \notin kept
  PROVE  /\ \A v \in Vms \ early' : ~Holds(v, p)'
         /\ \A u \in Threads :
              thr'[u].vm \in Vms \ early' /\ thr'[u].path = p =>
                /\ thr'[u].pc \notin {"grow", "ctl", "attach"}
                /\ thr'[u].op = "remove" => thr'[u].pc # "close"
                /\ thr'[u].op \in Creates /\ thr'[u].pc \notin Ended => file'[p] # thr'[u].vm
<1> USE DEF ImagesInv
<1> DEFINE w == thr[t].vm
<1>1. /\ thr[t].op = "detach" /\ thr[t].path = p /\ Applied(t) /\ file'[p] # NoVm
      /\ thr[t].pc \in Commands \ {"createvm"} /\ early' = early
      /\ pc = OnSuccess(thr[t].op, thr[t].pc, thr[t].grow)
  BY DEF Ran
<1>2. thr[t].pc = "detach" /\ pc = "ok"
  BY <1>1 DEF Shape, StepsOf, Commands, OnSuccess
<1>3. /\ w \in Vms /\ vm[w].st = "registered" /\ NoVm \notin Vms
      /\ vm'[w].st = vm[w].st /\ thr[t].port \in Slots
      /\ \A x \in Vms \ {w} : vm'[x] = vm[x]
      /\ \A i \in Slots : vm'[w].slot[i] = IF i = thr[t].port THEN Free ELSE vm[w].slot[i]
  <2>1. Target(t) = thr[t].port /\ Put(t) = Free
    BY <1>2 DEF Target, Put
  <2> QED
    BY <1>1, <1>2, <2>1, AppliedEffect, NoVmAssumption DEF Inv, Chosen
<1>4. p \in Paths /\ Free # p /\ Claimed(w, p) /\ p[1] = vm[w].name /\ file' = file
  <2>1. p \in Paths
    BY <1>1, <1>2, <1>3 DEF Paired
  <2>2. Claimed(w, p)
    BY <1>1, <1>2 DEF Claimed
  <2>3. file' = file
    BY <1>1, <1>2, FileEffect
  <2> QED
    BY <1>3, <2>1, <2>2, <2>3, PathFacts, ClaimName
<1>5. file[p] \in {w} \cup early
  BY <1>1, <1>3, <1>4 DEF Claims
<1>6. ASSUME NEW v \in Vms, vm[v].st = "registered", Claimed(v, p)
      PROVE  v = w
  BY <1>3, <1>4, <1>6, ClaimName DEF Machines
<1>7. ASSUME NEW v \in Vms \ early', Holds(v, p)'
      PROVE  FALSE
  <2>1. PICK i \in Slots : vm'[v].slot[i] = p /\ vm'[v].st = "registered"
    BY <1>7 DEF Holds
  <2>2. vm[v].st = "registered" /\ vm[v].slot[i] = p /\ (v = w => i # thr[t].port)
    BY <1>3, <1>4, <2>1
  <2>3. v = w
    BY <1>6, <2>2 DEF Claimed, Holds
  <2>4. vm[w].slot[thr[t].port] = p
    BY <1>1, <1>2, <2>3 DEF ReadHolds, Creates
  <2> QED
    BY <1>3, <1>4, <2>2, <2>3, <2>4 DEF Machines
<1>8. ASSUME NEW u \in Threads, thr'[u].vm \in Vms \ early', thr'[u].path = p
      PROVE  /\ thr'[u].pc \notin {"grow", "ctl", "attach"}
             /\ thr'[u].op = "remove" => thr'[u].pc # "close"
             /\ thr'[u].op \in Creates /\ thr'[u].pc \notin Ended => file'[p] # thr'[u].vm
  <2>1. u # t
    BY <1>1, <1>2, <1>3, <1>8, IdleShape DEF Ran, After, Ended, Creates
  <2>2. thr'[u] = thr[u]
    BY <2>1 DEF Ran, After
  <2> DEFINE v == thr[u].vm
  <2>3. v \in Vms \ early /\ thr[u].path = p
    BY <1>1, <1>8, <2>2
  <2>4. v # w \/ ~(Active(u) \/ thr[u].op \notin Creates)
    BY <2>1, <2>3, TwoAtWork DEF Ran
  <2>5. ASSUME thr[u].pc \in {"grow", "ctl", "attach"} \/ (thr[u].op = "remove" /\ thr[u].pc = "close")
        PROVE  FALSE
    <3>1. vm[v].st = "registered"
      <4>1. CASE thr[u].op \in Creates
        <5>1. thr[u].pc \in {"ctl", "attach"}
          BY <2>5, <4>1, StepOps DEF Creates
        <5> QED
          BY <2>3, <4>1, <5>1 DEF CreateHolds
      <4>2. CASE thr[u].op \notin Creates
        BY <2>3, <2>5, <4>2 DEF ReadHolds
      <4> QED
        BY <4>1, <4>2
    <3>2. Active(u) /\ vm[v].name = p[1]
      <4>1. CASE thr[u].pc \in {"grow", "ctl", "attach"}
        BY <2>3, <4>1, ClaimName, <1>4 DEF Claimed, Active, Ended
      <4>2. CASE thr[u].op = "remove" /\ thr[u].pc = "close"
        BY <2>3, <4>2, PathName DEF Active, Ended
      <4> QED
        BY <2>5, <4>1, <4>2
    <3>3. v = w
      BY <1>3, <1>4, <2>3, <3>1, <3>2 DEF Machines
    <3> QED
      BY <2>4, <3>2, <3>3
  <2>6. ASSUME thr[u].op \in Creates, thr[u].pc \notin Ended
        PROVE  file[p] # v
    BY <1>5, <2>3, <2>4, <2>6 DEF Active
  <2> QED
    BY <1>4, <2>2, <2>5, <2>6
<1> QED
  BY <1>7, <1>8

\* A kept image is in nobody's port and in nobody's hands.
LEMMA KeptApartKept ==
  ASSUME Inv, ImagesInv, Next
  PROVE  KeptApart'
<1> SUFFICES ASSUME NEW p \in kept'
             PROVE  /\ \A v \in Vms \ early' : ~Holds(v, p)'
                    /\ \A u \in Threads :
                         thr'[u].vm \in Vms \ early' /\ thr'[u].path = p =>
                           /\ thr'[u].pc \notin {"grow", "ctl", "attach"}
                           /\ thr'[u].op = "remove" => thr'[u].pc # "close"
                           /\ thr'[u].op \in Creates /\ thr'[u].pc \notin Ended =>
                                file'[p] # thr'[u].vm
  BY DEF KeptApart, Active
<1>1. CASE p \in kept
  BY <1>1, KeptStaysApart
<1>2. CASE p \notin kept
  <2>1. \E t \in Threads : \E pc, dirty : Ran(t, pc, dirty)
    BY <1>2, Kinds DEF ImagesInv, Started, Chose, Quiet, Made, NotMade, Removed
  <2> QED
    BY <1>2, <2>1, DetachedIsApart
<1> QED
  BY <1>1, <1>2

LEMMA InitImages == Init => ImagesInv
<1> SUFFICES ASSUME Init PROVE ImagesInv
  OBVIOUS
<1>1. \A t \in Threads : /\ thr[t].op = "none" /\ thr[t].pc = "idle" /\ thr[t].vm = NoVm
                         /\ thr[t].op \notin Creates /\ thr[t].pc \in StepsOf(thr[t].op)
                         /\ thr[t].op \notin {"detach", "remove"}
  BY IdleShape DEF Init
<1>2. NoVm \notin Vms /\ Free \notin Paths /\ kept = {} /\ \A p \in Paths : file[p] = NoVm
  BY NoVmAssumption, PathFacts DEF Init
<1>3. \A v \in Vms : vm[v].st = "new" /\ \A i \in Slots : vm[v].slot[i] = Free
  BY DEF Init
<1>4. Shape
  BY <1>1 DEF Shape
<1>5. Machines /\ Files /\ PortsEnd
  BY <1>2, <1>3 DEF Machines, Files, PortsEnd
<1>6. Alone /\ Paired /\ ReadHolds /\ CreateHolds /\ CleanupHolds
  BY <1>1, <1>2 DEF Alone, Paired, ReadHolds, CreateHolds, CleanupHolds
<1>7. Claims /\ KeptApart
  BY <1>2, <1>3 DEF Claims, KeptApart
<1> QED
  BY <1>4, <1>5, <1>6, <1>7 DEF ImagesInv

LEMMA ImagesKept == Inv /\ ImagesInv /\ [Next]_vars => ImagesInv'
<1> SUFFICES ASSUME Inv, ImagesInv, [Next]_vars PROVE ImagesInv'
  OBVIOUS
<1>1. CASE UNCHANGED vars
  <2>1. vm' = vm /\ file' = file /\ kept' = kept /\ early' = early /\ thr' = thr
    BY <1>1 DEF vars
  <2>2. Shape' /\ Machines' /\ Files' /\ PortsEnd'
    BY <2>1 DEF ImagesInv, Shape, Machines, Files, PortsEnd
  <2>3. Alone' /\ Paired' /\ ReadHolds' /\ CreateHolds' /\ CleanupHolds'
    BY <2>1 DEF ImagesInv, Alone, Active, Paired, ReadHolds, CreateHolds, CleanupHolds
  <2>4. Claims' /\ KeptApart'
    BY <2>1 DEF ImagesInv, Claims, Claimed, KeptApart, Holds, Active
  <2> QED
    BY <2>2, <2>3, <2>4 DEF ImagesInv
<1>2. CASE Next
  <2>1. Shape' /\ Machines' /\ Files' /\ Alone' /\ Paired' /\ ReadHolds' /\ PortsEnd'
    BY <1>2, ShapeKept, MachinesKept, FilesKept, AloneKept, PairedKept, ReadHoldsKept, PortsEndKept
  <2>2. CreateHolds' /\ CleanupHolds' /\ Claims' /\ KeptApart'
    BY <1>2, CreateHoldsKept, CleanupHoldsKept, ClaimsKept, KeptApartKept
  <2> QED
    BY <2>1, <2>2 DEF ImagesInv
<1> QED
  BY <1>1, <1>2

\* Every reachable state satisfies the invariant of the images: a request's view
\* of its VM holds until it acts, unless the VM was named during its create.
THEOREM ImagesCorrect == Spec => [](Inv /\ ImagesInv)
<1>1. Init => Inv /\ ImagesInv
  BY InitInv, InitImages
<1>2. Inv /\ ImagesInv /\ [Next]_vars => (Inv /\ ImagesInv)'
  BY NextKeeps, ImagesKept
<1> QED
  BY <1>1, <1>2, PTL DEF Spec

\* A create that failed, was killed or ran out of time has left no password file
\* and, unless the host refused a step of the cleanup (cleanupFailedCreate,
\* createvm.go:283-305), no system disk and no VM but one that createvm made
\* without the create learning of it (createvm.go:135-143, 231-239), whatever
\* else ran meanwhile and whoever named its VM.
THEOREM FailedCreateCleansUp == Spec => []FailedCreateLeavesNothing
<1>1. Inv /\ ImagesInv => FailedCreateLeavesNothing
  BY DEF Inv, CredentialLifetime, Active, Ended, ImagesInv, CleanupHolds,
         FailedCreateLeavesNothing
<1> QED
  BY <1>1, ImagesCorrect, PTL

LEMMA CreatedWholeStep ==
  ASSUME Inv, ImagesInv, Next, NEW t \in Threads,
         thr[t].op \in Creates, Active(t), thr'[t].pc = "ok", thr[t].vm \notin early,
         \A u \in Vms \ {thr[t].vm} : vm[u].name # vm[thr[t].vm].name
  PROVE  /\ vm'[thr[t].vm].st = "registered"
         /\ vm'[thr[t].vm].slot[0] = thr[t].path
         /\ file'[thr[t].path] = thr[t].vm
<1> USE DEF ImagesInv
<1>1. PICK x \in Threads :
        \/ Started(x)
        \/ \E c \in Plan(x) : Chose(x, c)
        \/ \E pc, dirty : Quiet(x, pc, dirty) \/ Ran(x, pc, dirty)
        \/ \E w \in Vms : Made(x, w)
        \/ NotMade(x)
        \/ \E dirty : Removed(x, dirty)
  BY Kinds
<1>2. x = t
  BY <1>1 DEF Started, Chose, Quiet, Ran, Made, NotMade, Removed, After, Active, Ended
<1>3. \E pc, dirty : Ran(t, pc, dirty)
  <2>1. \A op, grow : FirstCommand(op, grow) # "ok"
    BY DEF FirstCommand
  <2>2. ~(\E c \in Plan(t) : Chose(t, c))
    BY <2>1 DEF Chose
  <2> QED
    BY <1>1, <1>2, <2>2, IdleShape
       DEF Started, Quiet, Made, NotMade, Removed, After, Active, Ended
<1>4. PICK pc, dirty : Ran(t, pc, dirty)
  BY <1>3
<1> DEFINE v == thr[t].vm
           p == thr[t].path
<1>5. pc = "ok" /\ thr[t].pc \in Commands \ {"createvm"} /\ thr[t].pc \in StepsOf(thr[t].op)
  BY <1>4, IdleShape DEF Ran, After, Shape
<1>6. pc = OnSuccess(thr[t].op, thr[t].pc, thr[t].grow) /\ Applied(t)
  BY <1>4, <1>5 DEF Ran, OnFailure
<1>7. (thr[t].pc = "dvd" /\ thr[t].op = "manual") \/ thr[t].pc = "unattended"
  BY <1>5, <1>6 DEF OnSuccess, StepsOf, Creates, Commands
<1>8. v \in Vms /\ 0 \in Slots
  BY <1>5, CommandTyped, Constants
<1>9. vm[v].st = "registered" /\ vm[v].slot[0] = p /\ file[p] = v
  BY <1>7, <1>8 DEF CreateHolds
<1>10. vm'[v].st = "registered" /\ file' = file
  BY <1>5, <1>6, <1>7, <1>9, AppliedEffect, FileEffect
<1>11. vm'[v].slot[0] = p
  <2>1. CASE thr[t].pc = "dvd" /\ thr[t].op = "manual"
    <3>1. Target(t) = 1
      BY <2>1 DEF Target
    <3> QED
      BY <1>5, <1>6, <1>8, <1>9, <2>1, <3>1, AppliedEffect
  <2>2. CASE thr[t].pc = "unattended"
    BY <1>5, <1>6, <1>9, <2>2, AppliedEffect
  <2> QED
    BY <1>7, <2>1, <2>2
<1> QED
  BY <1>9, <1>10, <1>11

\* A create that answers with success has left a registered VM whose first port
\* holds the image that it made, unless another VM bears the name or a request
\* named the VM while it was being made (createvm.go:176-281).
THEOREM CreatesAreWhole == Spec => CreatedIsWhole
<1> DEFINE Whole ==
      \A t \in Threads :
        LET v == thr[t].vm
        IN /\ thr[t].op \in Creates /\ Active(t) /\ thr'[t].pc = "ok"
           /\ v \notin early /\ \A u \in Vms \ {v} : vm[u].name # vm[v].name
           => /\ vm'[v].st = "registered"
              /\ vm'[v].slot[0] = thr[t].path
              /\ file'[thr[t].path] = v
<1>1. Inv /\ ImagesInv /\ [Next]_vars => [Whole]_vars
  BY CreatedWholeStep
<1> QED
  BY <1>1, ImagesCorrect, PTL DEF Spec, CreatedIsWhole

LEMMA NotDisplacedStep ==
  ASSUME Inv, ImagesInv, Next, NEW v \in Vms \ early, NEW i \in Slots, vm[v].slot[i] \in Paths
  PROVE  vm'[v].slot[i] \in {vm[v].slot[i], Free}
<1> USE DEF ImagesInv
<1>1. PICK t \in Threads :
        \/ Started(t)
        \/ \E c \in Plan(t) : Chose(t, c)
        \/ \E pc, dirty : Quiet(t, pc, dirty) \/ Ran(t, pc, dirty)
        \/ \E w \in Vms : Made(t, w)
        \/ NotMade(t)
        \/ \E dirty : Removed(t, dirty)
  BY Kinds
<1>2. CASE vm'[v].slot = vm[v].slot
  BY <1>2
<1>3. CASE \E pc, dirty : Ran(t, pc, dirty) /\ Applied(t)
  <2>1. thr[t].pc \in Commands \ {"createvm"} /\ Applied(t)
    BY <1>3 DEF Ran
  <2>2. CASE thr[t].vm = v /\ thr[t].pc = "unregister"
    BY <2>1, <2>2, AppliedEffect
  <2>3. CASE thr[t].vm = v /\ thr[t].pc \in {"attach", "dvd", "detach"}
    <3>1. vm'[v].slot[i] = IF i = Target(t) THEN Put(t) ELSE vm[v].slot[i]
      BY <2>1, <2>3, AppliedEffect
    <3>2. CASE thr[t].pc = "detach"
      BY <3>1, <3>2 DEF Put
    <3>3. CASE thr[t].pc = "attach"
      <4>1. vm[v].slot[Target(t)] \notin Paths
        <5>1. Target(t) = thr[t].port /\ Target(t) \in Slots
          BY <2>1, <3>3, CommandTyped DEF Target
        <5>2. thr[t].op \in Creates \cup {"add"}
          BY <3>3, StepOps
        <5> QED
          BY <2>3, <3>3, <5>1, <5>2, PathFacts DEF CreateHolds, ReadHolds
      <4> QED
        BY <3>1, <4>1
    <3>4. CASE thr[t].pc = "dvd"
      <4>1. vm[v].slot[Target(t)] \notin Paths
        <5>1. CASE thr[t].op = "manual"
          BY <2>3, <3>4, <5>1 DEF Target, CreateHolds, Creates
        <5>2. CASE thr[t].op \in {"mount", "eject", "additions"}
          BY <2>3, <3>4, <5>2 DEF Target, ReadHolds, Creates
        <5> QED
          BY <3>4, <5>1, <5>2, StepOps
      <4> QED
        BY <3>1, <4>1
    <3> QED
      BY <2>3, <3>2, <3>3, <3>4
  <2>4. CASE thr[t].vm # v \/ thr[t].pc \notin {"attach", "dvd", "detach", "unregister"}
    BY <2>1, <2>4, AppliedEffect
  <2> QED
    BY <2>2, <2>3, <2>4
<1> QED
  BY <1>1, <1>2, <1>3 DEF Started, Chose, Quiet, Ran, Made, NotMade, Removed, Appeared

\* A port that holds a disk keeps it until the disk is detached or the VM goes:
\* no attach, mount or Guest Additions disc takes its place, unless the VM was
\* named during its create (storage.go:175-176, dvd.go, guestadditions.go).
THEOREM DisksAreNotDisplaced == Spec => DiskNotDisplaced
<1> DEFINE Kept ==
      \A v \in Vms, i \in Slots :
        v \notin early /\ vm[v].slot[i] \in Paths => vm'[v].slot[i] \in {vm[v].slot[i], Free}
<1>1. Inv /\ ImagesInv /\ [Next]_vars => [Kept]_vars
  BY NotDisplacedStep
<1> QED
  BY <1>1, ImagesCorrect, PTL DEF Spec, DiskNotDisplaced

LEMMA KeptGoesStep ==
  ASSUME Inv, ImagesInv, Next, NEW p \in kept \ kept'
  PROVE  \E t \in Threads :
           /\ thr'[t] # thr[t]
           /\ \/ thr[t].vm \in early
              \/ InCleanup(t) /\ thr[t].path = p /\ file[p] # thr[t].vm
<1> USE DEF ImagesInv
<1>1. PICK t \in Threads :
        \/ Started(t)
        \/ \E c \in Plan(t) : Chose(t, c)
        \/ \E pc, dirty : Quiet(t, pc, dirty) \/ Ran(t, pc, dirty)
        \/ \E w \in Vms : Made(t, w)
        \/ NotMade(t)
        \/ \E dirty : Removed(t, dirty)
  BY Kinds
<1>2. p \in Paths /\ file[p] # NoVm /\ file \in [Paths -> Vms \cup {NoVm}]
  BY DEF Inv, TypeOK, Files
<1>3. CASE \E dirty : Removed(t, dirty)
  <2>1. thr[t].path = p /\ thr[t].pc = "recheck" /\ Active(t) /\ thr'[t].pc # "recheck"
    BY <1>2, <1>3, IdleShape DEF Removed, After
  <2>2. thr[t].op \in Creates /\ thr[t].vm \in Vms
    BY <2>1, StepOps DEF Shape
  <2>3. thr[t].vm \in early \/ file[p] # thr[t].vm
    BY <2>1, <2>2 DEF KeptApart
  <2> QED
    BY <2>1, <2>2, <2>3 DEF InCleanup
<1>4. CASE \E pc, dirty : Ran(t, pc, dirty)
  <2>1. PICK pc, dirty : Ran(t, pc, dirty)
    BY <1>4
  <2>2. file'[p] = NoVm
    BY <2>1 DEF Ran
  <2>3. Applied(t) /\ thr[t].pc \in Commands \ {"createvm"} /\ Active(t)
    BY <1>2, <2>1, <2>2 DEF Ran
  <2>4. thr[t].vm \in Vms
    BY <2>3, CommandTyped
  <2>5. thr[t].pc \in {"disk", "unregister", "close"}
    BY <1>2, <2>2, <2>3, FileEffect
  <2>6. thr[t].pc # "disk"
    BY <1>2, <2>2, <2>3, <2>4, FileEffect, NoVmAssumption
  <2>7. thr'[t] # thr[t]
    <3>1. pc # thr[t].pc
      BY <2>1, <2>5, <2>6 DEF Ran, OnSuccess, OnFailure
    <3>2. thr'[t] = Idle \/ thr'[t].pc = pc
      BY <2>1 DEF Ran, After
    <3> QED
      BY <2>5, <3>1, <3>2, IdleShape
  <2>8. CASE thr[t].pc = "unregister"
    <3>1. Holds(thr[t].vm, p)
      BY <1>2, <2>2, <2>3, <2>8, FileEffect
    <3> QED
      BY <2>4, <2>7, <3>1 DEF KeptApart
  <2>9. CASE thr[t].pc = "close"
    <3>1. thr[t].path = p
      BY <1>2, <2>2, <2>3, <2>9, FileEffect
    <3>2. thr[t].op \in Creates \/ thr[t].op = "remove"
      BY <2>9, StepOps
    <3>3. \/ thr[t].vm \in early
          \/ thr[t].op \in Creates /\ file[p] # thr[t].vm
      BY <2>3, <2>4, <2>9, <3>1, <3>2 DEF KeptApart
    <3> QED
      BY <2>7, <2>9, <3>1, <3>3 DEF InCleanup
  <2> QED
    BY <2>5, <2>6, <2>8, <2>9
<1> QED
  BY <1>1, <1>3, <1>4 DEF Started, Chose, Quiet, Made, NotMade

\* An image that a user detached to keep goes only with the cleanup of a create
\* under its VM's name, or with a step on a VM that was named during its create:
\* no removal, deletion, mount or eject reaches it (storage.go:382-384,
\* createvm.go:299).
THEOREM KeptImagesStay == Spec => OnlyNamesakesTakeKept
<1> DEFINE Taken ==
      \A p \in kept \ kept' :
        \E t \in Threads :
          /\ thr'[t] # thr[t]
          /\ \/ thr[t].vm \in early
             \/ InCleanup(t) /\ thr[t].path = p /\ file[p] # thr[t].vm
<1>1. Inv /\ ImagesInv /\ [Next]_vars => [Taken]_vars
  BY KeptGoesStep
<1> QED
  BY <1>1, ImagesCorrect, PTL DEF Spec, OnlyNamesakesTakeKept

-----------------------------------------------------------------------------

(***************************************************************************)
(* The requests on an existing VM use the lock of LockSpec.                *)
(***************************************************************************)

Working(t) == Active(t) /\ thr[t].op \notin Creates

LEMMA WorkMembers ==
  \A v, u : <<v, u>> \in AtWorkOn <=> u \in Threads /\ Working(u) /\ thr[u].vm = v
  BY DEF AtWorkOn, Working

\* A thread that had locked a VM keeps it or gives it back; no other locks one.
LEMMA MoveUnlocks ==
  ASSUME NEW t \in Threads, \A u \in Threads \ {t} : thr'[u] = thr[u],
         Working(t) => thr[t].vm \in Vms,
         Working(t)' => Working(t) /\ thr'[t].vm = thr[t].vm
  PROVE  [VmLock!LockNext]_AtWorkOn
<1>1. \A u \in Threads \ {t} : Working(u)' <=> Working(u)
  BY DEF Working, Active
<1>2. CASE Working(t)' <=> Working(t)
  <2>1. \A u \in Threads : Working(u)' <=> Working(u)
    BY <1>1, <1>2
  <2>2. \A u \in Threads : Working(u) => thr'[u].vm = thr[u].vm
    BY <1>2
  <2>3. AtWorkOn = {<<thr[u].vm, u>> : u \in {x \in Threads : Working(x)}}
    BY DEF AtWorkOn, Working
  <2>4. AtWorkOn' = {<<thr'[u].vm, u>> : u \in {x \in Threads : Working(x)'}}
    BY DEF AtWorkOn, Working, Active
  <2>5. AtWorkOn' = AtWorkOn
    BY <2>1, <2>2, <2>3, <2>4
  <2> QED
    BY <2>5
<1>3. CASE Working(t) /\ ~Working(t)'
  <2>1. \A u : u \in Threads /\ Working(u)' <=> u \in Threads \ {t} /\ Working(u)
    BY <1>1, <1>3
  <2>2. AtWorkOn' = AtWorkOn \ {<<thr[t].vm, t>>}
    BY <2>1 DEF AtWorkOn, Working, Active
  <2>3. <<thr[t].vm, t>> \in AtWorkOn
    BY <1>3, WorkMembers
  <2> QED
    BY <1>3, <2>2, <2>3 DEF VmLock!LockNext, VmLock!Unlock
<1> QED
  BY <1>2, <1>3

\* A request that arrives locks its VM; a create locks none.
LEMMA StartLocks ==
  ASSUME NEW t \in Threads, ~Active(t), Started(t)
  PROVE  [VmLock!LockNext]_AtWorkOn
<1>1. \A u \in Threads \ {t} : thr'[u] = thr[u]
  BY DEF Started
<1>2. ~Working(t)
  BY DEF Working
<1>3. CASE thr'[t].op \in Creates
  BY <1>1, <1>2, <1>3, MoveUnlocks DEF Working
<1>4. CASE thr'[t].op \notin Creates
  <2> DEFINE v == thr'[t].vm
  <2>1. v \in Vms /\ ~Locked(v) /\ Working(t)'
    BY <1>4 DEF Started, Working, Active, Ended
  <2>2. AtWorkOn' = AtWorkOn \cup {<<v, t>>}
    BY <1>1, <1>2, <2>1 DEF AtWorkOn, Working, Active
  <2>3. /\ \A u \in Threads : <<v, u>> \notin AtWorkOn
        /\ \A w \in Vms : <<w, t>> \notin AtWorkOn
    BY <1>2, <2>1, WorkMembers DEF Locked, Working
  <2> QED
    BY <2>1, <2>2, <2>3 DEF VmLock!LockNext, VmLock!TryLock
<1> QED
  BY <1>3, <1>4

LEMMA LockStep == Inv /\ ImagesInv /\ [Next]_vars => [VmLock!LockNext]_AtWorkOn
<1> SUFFICES ASSUME Inv, ImagesInv, Next PROVE [VmLock!LockNext]_AtWorkOn
  BY DEF vars, AtWorkOn, Active
<1>1. Shape
  BY DEF ImagesInv
<1>2. PICK t \in Threads :
        \/ /\ ~Active(t)
           /\ \/ \E op \in Ops, n \in Names : ArriveCreate(t, op, n)
              \/ \E op \in Ops, v \in Vms, p \in Paths \cup {Free} : Arrive(t, op, v, p)
        \/ Timeout(t)
        \/ Step(t)
  BY DEF Next
<1>3. Working(t) => thr[t].vm \in Vms
  BY <1>1 DEF Working, Active, Ended, Shape, StepsOf
<1>4. ASSUME NEW pc, NEW dirty, After(t, pc, dirty), Active(t)
      PROVE  [VmLock!LockNext]_AtWorkOn
  <2>1. Working(t)' => Working(t) /\ thr'[t].vm = thr[t].vm
    BY <1>4, IdleShape DEF After, Working, Active, Ended
  <2> QED
    BY <1>3, <1>4, <2>1, MoveUnlocks DEF After
<1>5. CASE Timeout(t) \/ ReadFails(t) \/ WriteCredentialFile(t) \/ WriteFails(t) \/ StatDisk(t)
  BY <1>1, <1>4, <1>5, QuietSteps DEF Quiet
<1>6. CASE CommandDone(t) \/ CommandFails(t)
  BY <1>1, <1>4, <1>6, CommandSteps DEF Ran
<1>7. CASE RemoveDisk(t)
  BY <1>1, <1>4, <1>7, RemoveSteps DEF Removed
<1>8. CASE CreateVm(t) \/ CreateVmFails(t)
  <2>1. ASSUME NEW v \in Vms, Made(t, v) PROVE [VmLock!LockNext]_AtWorkOn
    <3>1. thr[t].op \in Creates
      BY <1>1, <2>1 DEF Made, Shape, StepsOf, Creates
    <3> QED
      BY <2>1, <3>1, MoveUnlocks DEF Made, Working
  <2> QED
    BY <1>1, <1>4, <1>8, <2>1, CreateSteps DEF NotMade
<1>9. CASE Read(t)
  <2>1. PICK c \in Plan(t) : Chose(t, c)
    BY <1>9, ReadSteps
  <2>2. Active(t)
    BY <2>1 DEF Chose, Active, Ended
  <2>3. Working(t)' => Working(t) /\ thr'[t].vm = thr[t].vm
    BY <2>1, <2>2 DEF Chose, Working
  <2> QED
    BY <1>3, <2>1, <2>3, MoveUnlocks DEF Chose
<1>10. CASE /\ ~Active(t)
            /\ \/ \E op \in Ops, n \in Names : ArriveCreate(t, op, n)
               \/ \E op \in Ops, v \in Vms, p \in Paths \cup {Free} : Arrive(t, op, v, p)
  BY <1>10, StartSteps, StartLocks
<1> QED
  BY <1>2, <1>5, <1>6, <1>7, <1>8, <1>9, <1>10 DEF Step

\* What a request does to the disks, the drive and the existence of a VM it does
\* under the VM's lock; only a create works on a VM it has not locked
\* (server.go:1555-1571, createvm.go:139-151).
THEOREM MediaLocks == Spec => UsesLock
<1>1. Init => VmLock!LockInit
  BY DEF Init, Idle, Active, Ended, AtWorkOn, VmLock!LockInit
<1> QED
  BY <1>1, LockStep, ImagesCorrect, PTL DEF Spec, UsesLock, VmLock!LockOnly

=============================================================================
