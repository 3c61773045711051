---------------------------- MODULE StreamProofs ----------------------------
(***************************************************************************)
(* Proofs about the two streams of a VM's tab: SerialTerminal, for any     *)
(* number of VMs, streams and threads, and ScreenStream, for any number of *)
(* capturers, any sizes and colours and any length of the queue.           *)
(***************************************************************************)
EXTENDS SerialTerminal, ScreenStream, SequenceTheorems, TLAPS

LEMMA IdleTyped == Idle \in Thread
  BY DEF Idle, Thread

LEMMA OffTyped ==
  ASSUME NEW p \in Vms \cup {NoVm}
  PROVE  /\ Off(p) \in Vm /\ Off(p).st = "off" /\ Off(p).pipe = p
         /\ Off(p).server = FALSE /\ Off(p).client = NoStream
  BY DEF Off, Vm

LEMMA UnusedTyped == UnusedStream \in Stream
  BY DEF UnusedStream, Stream

\* A thread that moves on stays typed, and no other moves.
LEMMA AtTyped ==
  ASSUME SerialInv, NEW t \in Threads,
         NEW pc \in {"idle", "modify", "clone", "look", "wire"}, At(t, pc)
  PROVE  /\ thr' \in [Threads -> Thread]
         /\ \A u \in Threads : u # t => thr'[u] = thr[u]
         /\ thr'[t].pc = pc
         /\ pc = "idle" => thr'[t].new = NoVm
         /\ pc # "idle" => thr'[t].new = thr[t].new /\ thr'[t].vm = thr[t].vm
<1> DEFINE moved == IF pc = "idle" THEN Idle ELSE [thr[t] EXCEPT !.pc = pc]
<1>1. thr \in [Threads -> Thread] /\ thr[t] \in Thread
  BY DEF SerialInv, SerialTypeOK
<1>2. moved \in Thread /\ moved.pc = pc
  BY <1>1, IdleTyped DEF Thread, Idle
<1>3. pc = "idle" => moved.new = NoVm
  BY DEF Idle
<1>4. pc # "idle" => moved.new = thr[t].new /\ moved.vm = thr[t].vm
  BY <1>1 DEF Thread
<1>5. thr' = [thr EXCEPT ![t] = moved]
  BY DEF At
<1> HIDE DEF moved
<1> QED
  BY <1>1, <1>2, <1>3, <1>4, <1>5

\* Only the thread that has a copy can stop being the one that has it.
LEMMA CopyingKept ==
  ASSUME NEW t \in Threads, NEW v \in Vms, Copying(v),
         \A u \in Threads : u # t => thr'[u] = thr[u],
         thr[t].new = v => Active(t)' /\ thr'[t].new = v
  PROVE  Copying(v)'
<1>1. PICK u \in Threads : Active(u) /\ thr[u].new = v
  BY DEF Copying
<1>2. CASE u = t
  BY <1>1, <1>2 DEF Copying
<1>3. CASE u # t
  BY <1>1, <1>3 DEF Copying, Active
<1> QED
  BY <1>2, <1>3

LEMMA Initially == SerialInit => SerialInv
<1> SUFFICES ASSUME SerialInit PROVE SerialInv
  OBVIOUS
<1>1. \A v \in Vms :
        /\ vm[v] \in Vm /\ vm[v].server = FALSE /\ vm[v].client = NoStream
        /\ vm[v].st # "on" /\ vm[v].pipe \in {v, NoVm}
  <2> SUFFICES ASSUME NEW v \in Vms
               PROVE  /\ vm[v] \in Vm /\ vm[v].server = FALSE /\ vm[v].client = NoStream
                      /\ vm[v].st # "on" /\ vm[v].pipe \in {v, NoVm}
    OBVIOUS
  <2>1. Absent \in Vm /\ Absent.st = "absent" /\ Absent.server = FALSE /\ Absent.client = NoStream
    BY DEF Absent, Off, Vm
  <2>2. vm[v] \in {Absent, Off(NoVm)} \cup {Off(w) : w \in Vms} /\ vm[v].pipe \in {v, NoVm}
    BY DEF SerialInit
  <2>3. CASE vm[v] = Absent
    BY <2>1, <2>2, <2>3
  <2>4. ASSUME NEW p \in Vms \cup {NoVm}, vm[v] = Off(p)
        PROVE  /\ vm[v] \in Vm /\ vm[v].server = FALSE /\ vm[v].client = NoStream
               /\ vm[v].st # "on"
    BY <2>4, OffTyped
  <2> QED
    BY <2>2, <2>3, <2>4
<1>2. SerialTypeOK
  BY <1>1, IdleTyped, UnusedTyped DEF SerialInit, SerialTypeOK
<1>3. ServedWhileOn /\ ClientOfPipe /\ ForeignIsLeft /\ OfferedIsServed
  BY <1>1 DEF ServedWhileOn, ClientOfPipe, ForeignIsLeft, Foreign, OfferedIsServed
<1>4. CopiesKnown
  BY DEF SerialInit, CopiesKnown, Idle, Active
<1> QED
  BY <1>2, <1>3, <1>4 DEF SerialInv

-----------------------------------------------------------------------------

\* A step that leaves VirtualBox and the streams alone.
LEMMA ThreadsMove ==
  ASSUME SerialInv, UNCHANGED <<vm, str>>, thr' \in [Threads -> Thread], CopiesKnown',
         left \subseteq left', left' \subseteq Vms,
         \A v \in Vms : vm[v].pipe \notin {v, NoVm} /\ Copying(v)
                        => Copying(v)' \/ v \in left'
  PROVE  SerialInv'
<1>1. SerialTypeOK'
  BY DEF SerialInv, SerialTypeOK
<1>2. ServedWhileOn' /\ ClientOfPipe'
  BY DEF SerialInv, ServedWhileOn, ClientOfPipe
<1>3. ForeignIsLeft'
  BY DEF SerialInv, ForeignIsLeft, Foreign
<1>4. OfferedIsServed'
  BY DEF SerialInv, OfferedIsServed, EnabledFor
<1> QED
  BY <1>1, <1>2, <1>3, <1>4 DEF SerialInv

\* A VM that is not running gets another pipe, or appears.
LEMMA PipeChanges ==
  ASSUME SerialInv, NEW v \in Vms, NEW p \in Vms \cup {NoVm},
         vm[v].st # "on",
         vm' = [vm EXCEPT ![v] = Off(p)], UNCHANGED str,
         thr' \in [Threads -> Thread], CopiesKnown',
         left \subseteq left', left' \subseteq Vms,
         p \notin {v, NoVm} => v \in left' \/ Copying(v)',
         \A w \in Vms \ {v} : Copying(w) => Copying(w)'
  PROVE  SerialInv'
<1>1. vm \in [Vms -> Vm] /\ vm[v] \in Vm
  BY DEF SerialInv, SerialTypeOK
<1>2. \A w \in Vms : w # v => vm'[w] = vm[w]
  BY <1>1
<1>3. vm'[v] = Off(p)
  BY <1>1
<1>4. SerialTypeOK'
  BY <1>1, OffTyped DEF SerialInv, SerialTypeOK
<1>5. vm'[v].server = FALSE /\ vm'[v].client = NoStream /\ vm'[v].pipe = p /\ vm'[v].st = "off"
  BY <1>3, OffTyped
<1>6. ServedWhileOn'
  BY <1>2, <1>5 DEF SerialInv, ServedWhileOn
<1>7. ClientOfPipe'
  BY <1>2, <1>5 DEF SerialInv, ClientOfPipe
<1>8. ForeignIsLeft'
  BY <1>2, <1>5 DEF SerialInv, ForeignIsLeft, Foreign
<1>9. OfferedIsServed'
  BY <1>2, <1>3, OffTyped DEF SerialInv, OfferedIsServed, EnabledFor
<1> QED
  BY <1>4, <1>6, <1>7, <1>8, <1>9 DEF SerialInv

\* Changing the pipe of a VM that is off is replacing its record.
LEMMA ModifiedIsOff ==
  ASSUME SerialInv, NEW v \in Vms, NEW p \in Vms \cup {NoVm}, Modified(v, p)
  PROVE  vm' = [vm EXCEPT ![v] = Off(p)] /\ vm[v].st # "on"
<1>1. vm \in [Vms -> Vm] /\ vm[v] \in Vm /\ vm[v].st = "off"
  BY DEF SerialInv, SerialTypeOK, Modified
<1>2. vm[v].server = FALSE
  BY <1>1 DEF SerialInv, ServedWhileOn, Vm
<1>3. vm[v].client = NoStream
  BY <1>1, <1>2 DEF SerialInv, ClientOfPipe
<1>4. [vm[v] EXCEPT !.pipe = p] = Off(p)
  <2>1. [vm[v] EXCEPT !.pipe = p] = [st |-> vm[v].st, pipe |-> p, server |-> vm[v].server,
                                     client |-> vm[v].client]
    BY <1>1 DEF Vm
  <2> QED
    BY <1>1, <1>2, <1>3, <2>1 DEF Off
<1> QED
  BY <1>1, <1>4 DEF Modified

LEMMA RequestKeeps ==
  ASSUME SerialInv, NEW t \in Threads, Request(t)
  PROVE  SerialInv'
<1>1. /\ thr \in [Threads -> Thread] /\ thr[t] \in Thread /\ vm \in [Vms -> Vm]
      /\ left \subseteq Vms /\ CopiesKnown
  BY DEF SerialInv, SerialTypeOK
<1>2. ASSUME NEW pc \in {"idle", "modify", "clone"}, At(t, pc), thr[t].new = NoVm,
             pc # "idle" => Active(t)
      PROVE  /\ thr' \in [Threads -> Thread] /\ CopiesKnown'
             /\ \A w \in Vms : Copying(w) => Copying(w)'
  <2>1. thr' \in [Threads -> Thread] /\ CopiesKnown'
    BY <1>1, <1>2, AtTyped DEF CopiesKnown, Active
  <2>2. \A w \in Vms : thr[t].new # w
    BY <1>2, NoVmAssumption
  <2> QED
    BY <1>2, <2>1, <2>2, AtTyped, CopyingKept
<1>3. ASSUME NEW op \in Ops, NEW v \in Vms, Arrive(t, op, v)
      PROVE  SerialInv'
  <2> DEFINE new == [op |-> op, pc |-> "read", vm |-> v, new |-> NoVm]
  <2>1. new \in Thread /\ new.pc = "read" /\ new.new = NoVm /\ new.vm = v
    BY DEF Thread
  <2>2. thr' = [thr EXCEPT ![t] = new] /\ ~Active(t)
    BY <1>3 DEF Arrive
  <2> HIDE DEF new
  <2>3. thr' \in [Threads -> Thread] /\ CopiesKnown'
    BY <1>1, <2>1, <2>2 DEF CopiesKnown, Active
  <2>4. \A w \in Vms : thr[t].new # w
    BY <1>1, <2>2, NoVmAssumption DEF CopiesKnown, Active
  <2>5. \A w \in Vms : Copying(w) => Copying(w)'
    BY <1>1, <2>2, <2>4, CopyingKept
  <2> QED
    BY <1>1, <1>3, <2>3, <2>5, ThreadsMove DEF Arrive
<1>4. CASE Read(t) \/ Refused(t) \/ ModifyFails(t)
  <2>1. thr[t].new = NoVm /\ Active(t)
    BY <1>1, <1>4 DEF CopiesKnown, Read, Refused, ModifyFails, Active
  <2>2. \E pc \in {"idle", "modify", "clone"} : At(t, pc)
    BY <1>4 DEF Read, Refused, ModifyFails
  <2> QED
    BY <1>1, <1>2, <1>4, <2>1, <2>2, ThreadsMove DEF Read, Refused, ModifyFails
<1>5. CASE Modify(t)
  <2>1. thr[t].new = NoVm /\ thr[t].vm \in Vms
    BY <1>1, <1>5 DEF CopiesKnown, Modify, Active
  <2>2. PortFor(t) \in {thr[t].vm, NoVm}
    BY DEF PortFor
  <2>3. At(t, "idle") /\ UNCHANGED <<str, left>> /\ Modified(thr[t].vm, PortFor(t))
    BY <1>5 DEF Modify
  <2> QED
    BY <1>1, <1>2, <2>1, <2>2, <2>3, ModifiedIsOff, PipeChanges
<1>6. ASSUME CloneVm(t) PROVE SerialInv'
  <2>1. PICK v \in Vms :
          /\ vm[v].st = "absent"
          /\ vm' = [vm EXCEPT ![v] = Off(vm[thr[t].vm].pipe)]
          /\ thr' = [thr EXCEPT ![t] = [thr[t] EXCEPT !.pc = "look", !.new = v]]
    BY <1>6 DEF CloneVm
  <2> DEFINE new == [thr[t] EXCEPT !.pc = "look", !.new = v]
             p   == vm[thr[t].vm].pipe
  <2>2. thr[t].pc = "clone" /\ thr[t].vm \in Vms /\ thr[t].new = NoVm
    BY <1>1, <1>6 DEF CloneVm, CopiesKnown, Active
  <2>3. new \in Thread /\ new.pc = "look" /\ new.new = v /\ new.vm = thr[t].vm
    BY <1>1, <2>2 DEF Thread
  <2>4. p \in Vms \cup {NoVm}
    BY <1>1, <2>2 DEF Vm
  <2>5. thr' = [thr EXCEPT ![t] = new]
    BY <2>1
  <2> HIDE DEF new
  <2>6. thr' \in [Threads -> Thread] /\ CopiesKnown'
    BY <1>1, <2>2, <2>3, <2>5, NoVmAssumption DEF CopiesKnown, Active
  <2>7. Copying(v)'
    BY <1>1, <2>3, <2>5 DEF Copying, Active
  <2>8. \A w \in Vms : Copying(w) => Copying(w)'
    BY <1>1, <2>2, <2>5, CopyingKept, NoVmAssumption
  <2> QED
    BY <1>1, <1>6, <2>1, <2>4, <2>6, <2>7, <2>8, PipeChanges DEF CloneVm
<1>7. ASSUME CloneFails(t) PROVE SerialInv'
  <2>1. thr[t].pc = "clone" /\ thr[t].vm \in Vms /\ thr[t].new = NoVm
        /\ At(t, "idle") /\ UNCHANGED str
    BY <1>1, <1>7 DEF CloneFails, CopiesKnown, Active
  <2>2. CASE UNCHANGED <<vm, left>>
    BY <1>1, <1>2, <2>1, <2>2, ThreadsMove
  <2>3. ASSUME NEW v \in Vms, Appears(v, vm[thr[t].vm].pipe) PROVE SerialInv'
    <3>1. vm[thr[t].vm].pipe \in Vms \cup {NoVm}
      BY <1>1, <2>1 DEF Vm
    <3> QED
      BY <1>1, <1>2, <2>1, <2>3, <3>1, PipeChanges DEF Appears, Foreign
  <2> QED
    BY <1>7, <2>2, <2>3 DEF CloneFails
<1>8. ASSUME Look(t) PROVE SerialInv'
  <2>1. thr[t].pc = "look" /\ thr[t].new \in Vms
    BY <1>1, <1>8 DEF Look, CopiesKnown, Thread
  <2>2. CASE Wired(thr[t].new)
    <3>1. At(t, "wire")
      BY <1>8, <2>2 DEF Look
    <3>2. thr' \in [Threads -> Thread] /\ CopiesKnown'
      BY <1>1, <2>1, <3>1, AtTyped DEF CopiesKnown, Active
    <3>3. \A w \in Vms : Copying(w) => Copying(w)'
      BY <3>1, AtTyped, CopyingKept DEF Active
    <3> QED
      BY <1>1, <1>8, <3>2, <3>3, ThreadsMove DEF Look
  <2>3. CASE ~Wired(thr[t].new)
    <3>1. At(t, "idle")
      BY <1>8, <2>3 DEF Look
    <3>2. thr' \in [Threads -> Thread] /\ CopiesKnown'
      BY <1>1, <2>1, <3>1, AtTyped DEF CopiesKnown, Active
    <3>3. \A w \in Vms : w # thr[t].new /\ Copying(w) => Copying(w)'
      BY <3>1, AtTyped, CopyingKept
    <3> QED
      BY <1>1, <1>8, <2>3, <3>2, <3>3, ThreadsMove DEF Look, Wired
  <2> QED
    BY <2>2, <2>3
<1>9. ASSUME Wire(t) \/ StepFails(t) PROVE SerialInv'
  <2>1. thr[t].new \in Vms /\ At(t, "idle")
    BY <1>1, <1>9 DEF Wire, StepFails, CopiesKnown, Thread
  <2>2. thr' \in [Threads -> Thread] /\ CopiesKnown'
    BY <1>1, <2>1, AtTyped DEF CopiesKnown, Active
  <2>3. \A w \in Vms : w # thr[t].new /\ Copying(w) => Copying(w)'
    BY <2>1, AtTyped, CopyingKept
  <2>4. CASE Wire(t)
    BY <1>1, <2>1, <2>2, <2>3, <2>4, ModifiedIsOff, PipeChanges DEF Wire
  <2>5. CASE StepFails(t)
    BY <1>1, <2>1, <2>2, <2>3, <2>5, ThreadsMove DEF StepFails, Foreign
  <2> QED
    BY <1>9, <2>4, <2>5
<1> QED
  BY <1>3, <1>4, <1>5, <1>6, <1>7, <1>8, <1>9 DEF Request

-----------------------------------------------------------------------------

LEMMA StartKeeps ==
  ASSUME SerialInv, NEW v \in Vms, Start(v)
  PROVE  SerialInv'
<1> DEFINE made == Wired(v) /\ \A w \in Vms : ~Serves(w, vm[v].pipe)
           new  == [vm[v] EXCEPT !.st = "on", !.server = made]
<1>1. /\ vm \in [Vms -> Vm] /\ vm[v] \in Vm /\ vm[v].st = "off" /\ left \subseteq Vms
      /\ UNCHANGED <<thr, str>>
  BY DEF SerialInv, SerialTypeOK, Start
<1>2. vm' = [vm EXCEPT ![v] = new]
  BY DEF Start
<1>3. /\ left \subseteq left' /\ left' \subseteq Vms
      /\ Copying(v) /\ Foreign(v, vm[v].pipe) => v \in left'
  BY <1>1 DEF Start
<1>4. made \in BOOLEAN
  OBVIOUS
<1>5. new.st = "on" /\ new.pipe = vm[v].pipe /\ new.server = made /\ new.client = vm[v].client
      /\ new \in Vm
  <2> HIDE DEF made
  <2> QED
    BY <1>1, <1>4 DEF Vm
<1> HIDE DEF new
<1>6. \A w \in Vms : w # v => vm'[w] = vm[w]
  BY <1>1, <1>2
<1>7. vm'[v] = new
  BY <1>1, <1>2
<1>8. vm[v].server = FALSE /\ vm[v].client = NoStream
  BY <1>1 DEF SerialInv, ServedWhileOn, ClientOfPipe, Vm
<1>9. SerialTypeOK'
  BY <1>1, <1>2, <1>3, <1>5 DEF SerialInv, SerialTypeOK
<1>10. ServedWhileOn'
  BY <1>5, <1>6, <1>7 DEF SerialInv, ServedWhileOn, Wired
<1>11. ClientOfPipe'
  <2> HIDE DEF made
  <2> QED
    BY <1>1, <1>5, <1>6, <1>7, <1>8 DEF SerialInv, ClientOfPipe
<1>12. CopiesKnown' /\ \A w \in Vms : Copying(w)' <=> Copying(w)
  BY <1>1 DEF SerialInv, CopiesKnown, Active, Copying
<1>13. ForeignIsLeft'
  <2> HIDE DEF made
  <2> QED
    BY <1>1, <1>3, <1>5, <1>6, <1>7, <1>12 DEF SerialInv, ForeignIsLeft, Foreign
<1>14. OfferedIsServed'
  <2> SUFFICES ASSUME NEW u \in Vms, vm'[u].st = "on", vm'[u].pipe = u, ~vm'[u].server
               PROVE  \E w \in left' : w # u
    BY DEF OfferedIsServed, EnabledFor
  <2>1. CASE u # v
    BY <2>1, <1>3, <1>6 DEF SerialInv, OfferedIsServed, EnabledFor
  <2>2. CASE u = v
    <3>1. vm[v].pipe = v /\ Wired(v)
      BY <2>2, <1>5, <1>7, NoVmAssumption DEF Wired
    <3>2. PICK w \in Vms : Serves(w, v)
      BY <2>2, <3>1, <1>5, <1>7
    <3>3. w # v /\ vm[w].pipe = v /\ vm[w].st = "on"
      BY <1>1, <3>2 DEF Serves
    <3>4. w \in left
      BY <3>3, NoVmAssumption DEF SerialInv, ForeignIsLeft, Foreign
    <3> QED
      BY <1>3, <2>2, <3>3, <3>4
  <2> QED
    BY <2>1, <2>2
<1> QED
  BY <1>9, <1>10, <1>11, <1>12, <1>13, <1>14 DEF SerialInv

LEMMA StopKeeps ==
  ASSUME SerialInv, NEW v \in Vms, Stop(v)
  PROVE  SerialInv'
<1> DEFINE new == Off(vm[v].pipe)
<1>1. /\ vm \in [Vms -> Vm] /\ vm[v] \in Vm /\ vm[v].st = "on"
      /\ UNCHANGED <<thr, str, left>> /\ vm' = [vm EXCEPT ![v] = new]
  BY DEF SerialInv, SerialTypeOK, Stop
<1>2. /\ new \in Vm /\ new.st = "off" /\ new.pipe = vm[v].pipe
      /\ new.server = FALSE /\ new.client = NoStream
  BY <1>1, OffTyped DEF Vm
<1> HIDE DEF new
<1>3. vm'[v] = new /\ \A w \in Vms : w # v => vm'[w] = vm[w]
  BY <1>1
<1>4. SerialTypeOK'
  BY <1>1, <1>2 DEF SerialInv, SerialTypeOK
<1>5. ServedWhileOn'
  BY <1>2, <1>3 DEF SerialInv, ServedWhileOn
<1>6. ClientOfPipe'
  BY <1>1, <1>2, <1>3 DEF SerialInv, ClientOfPipe
<1>7. CopiesKnown' /\ \A w \in Vms : Copying(w)' <=> Copying(w)
  BY <1>1 DEF SerialInv, CopiesKnown, Active, Copying
<1>8. ForeignIsLeft'
  BY <1>1, <1>2, <1>3, <1>7 DEF SerialInv, ForeignIsLeft, Foreign
<1>9. OfferedIsServed'
  BY <1>1, <1>2, <1>3 DEF SerialInv, OfferedIsServed, EnabledFor
<1> QED
  BY <1>4, <1>5, <1>6, <1>7, <1>8, <1>9 DEF SerialInv

LEMMA ImportKeeps ==
  ASSUME SerialInv, NEW v \in Vms, NEW p \in Vms \cup {NoVm}, Import(v, p)
  PROVE  SerialInv'
<1>1. /\ vm[v].st # "on" /\ vm' = [vm EXCEPT ![v] = Off(p)] /\ left' = IF Foreign(v, p) THEN left \cup {v} ELSE left
      /\ UNCHANGED <<thr, str>>
  BY DEF Import, Appears
<1>2. thr' \in [Threads -> Thread] /\ left \subseteq left' /\ left' \subseteq Vms
  BY <1>1 DEF SerialInv, SerialTypeOK
<1>3. CopiesKnown' /\ \A w \in Vms : Copying(w) => Copying(w)'
  BY <1>1 DEF SerialInv, CopiesKnown, Active, Copying
<1>4. p \notin {v, NoVm} => v \in left'
  BY <1>1 DEF Foreign
<1> QED
  BY <1>1, <1>2, <1>3, <1>4, PipeChanges

-----------------------------------------------------------------------------

\* A step of one stream: it may take a free pipe of its own name, keep what it
\* has, or hang up.
LEMMA StreamMoves ==
  ASSUME SerialInv, NEW s \in Streams, NEW new \in Stream, str' = [str EXCEPT ![s] = new],
         UNCHANGED <<thr, left>>,
         vm' \in [Vms -> Vm],
         \A v \in Vms : /\ vm'[v].st = vm[v].st /\ vm'[v].pipe = vm[v].pipe
                        /\ vm'[v].server = vm[v].server
                        /\ \/ vm'[v].client = NoStream
                           \/ vm'[v].client = vm[v].client /\ vm[v].client # s
                           \/ /\ vm'[v].client = s /\ vm[v].server
                              /\ new.vm = vm[v].pipe /\ new.pc \in {"upgrade", "run"}
  PROVE  SerialInv'
<1>1. str \in [Streams -> Stream] /\ vm \in [Vms -> Vm]
  BY DEF SerialInv, SerialTypeOK
<1>2. str'[s] = new /\ \A u \in Streams : u # s => str'[u] = str[u]
  BY <1>1
<1>3. SerialTypeOK'
  BY <1>1 DEF SerialInv, SerialTypeOK
<1>4. ServedWhileOn'
  BY DEF SerialInv, ServedWhileOn
<1>5. ClientOfPipe'
  <2> SUFFICES ASSUME NEW v \in Vms, vm'[v].client # NoStream
               PROVE  /\ vm'[v].server
                      /\ str'[vm'[v].client].vm = vm'[v].pipe
                      /\ str'[vm'[v].client].pc \in {"upgrade", "run"}
    BY DEF ClientOfPipe
  <2>1. CASE vm'[v].client = s
    BY <1>2, <2>1
  <2>2. CASE vm'[v].client # s
    <3>1. vm'[v].client = vm[v].client /\ vm[v].client \in Streams
      BY <1>1, <2>2 DEF Vm
    <3> QED
      BY <1>2, <2>2, <3>1 DEF SerialInv, ClientOfPipe
  <2> QED
    BY <2>1, <2>2
<1>6. CopiesKnown' /\ \A w \in Vms : Copying(w)' <=> Copying(w)
  BY DEF SerialInv, CopiesKnown, Active, Copying
<1>7. ForeignIsLeft'
  BY <1>6 DEF SerialInv, ForeignIsLeft, Foreign
<1>8. OfferedIsServed'
  BY DEF SerialInv, OfferedIsServed, EnabledFor
<1> QED
  BY <1>3, <1>4, <1>5, <1>6, <1>7, <1>8 DEF SerialInv

\* VirtualBox is left alone, and a stream that has the pipe stays at work on it.
LEMMA StreamOnlyMoves ==
  ASSUME SerialInv, NEW s \in Streams, NEW new \in Stream, str' = [str EXCEPT ![s] = new],
         UNCHANGED <<vm, thr, left>>,
         str[s].pc \in {"upgrade", "run"}
           => new.vm = str[s].vm /\ new.pc \in {"upgrade", "run"}
  PROVE  SerialInv'
<1>1. vm \in [Vms -> Vm]
  BY DEF SerialInv, SerialTypeOK
<1>2. \A v \in Vms : vm[v].client = s
        => vm[v].server /\ new.vm = vm[v].pipe /\ new.pc \in {"upgrade", "run"}
  <2> SUFFICES ASSUME NEW v \in Vms, vm[v].client = s
               PROVE  vm[v].server /\ new.vm = vm[v].pipe /\ new.pc \in {"upgrade", "run"}
    OBVIOUS
  <2>1. s # NoStream
    BY NoStreamAssumption
  <2> QED
    BY <2>1 DEF SerialInv, ClientOfPipe
<1> QED
  BY <1>1, <1>2, StreamMoves

\* A stream that closes has hung up.
LEMMA StreamCloses ==
  ASSUME SerialInv, NEW s \in Streams, NEW new \in Stream, str' = [str EXCEPT ![s] = new],
         UNCHANGED <<thr, left>>, Hangup(s)
  PROVE  SerialInv'
<1>1. vm \in [Vms -> Vm]
  BY DEF SerialInv, SerialTypeOK
<1>2. ASSUME NEW v \in Vms
      PROVE  /\ vm'[v] \in Vm /\ vm'[v].st = vm[v].st /\ vm'[v].pipe = vm[v].pipe
             /\ vm'[v].server = vm[v].server
             /\ \/ vm'[v].client = NoStream
                \/ vm'[v].client = vm[v].client /\ vm[v].client # s
  <2>1. vm'[v] = IF vm[v].client = s THEN [vm[v] EXCEPT !.client = NoStream] ELSE vm[v]
    BY DEF Hangup
  <2> QED
    BY <1>1, <2>1 DEF Vm
<1>3. vm' \in [Vms -> Vm]
  <2>1. vm' = [v \in Vms |-> vm'[v]]
    BY DEF Hangup
  <2> QED
    BY <1>2, <2>1
<1> QED
  BY <1>2, <1>3, StreamMoves

LEMMA HandlerKeeps ==
  ASSUME SerialInv, NEW s \in Streams, SerialHandler(s)
  PROVE  SerialInv'
<1>1. str[s] \in Stream /\ vm \in [Vms -> Vm]
  BY DEF SerialInv, SerialTypeOK
<1>2. ASSUME Dial(s) PROVE SerialInv'
  <2> DEFINE new == [str[s] EXCEPT !.pc = "upgrade"]
  <2>1. PICK v \in Vms :
          /\ Serves(v, str[s].vm) /\ vm[v].client = NoStream
          /\ vm' = [vm EXCEPT ![v] = [vm[v] EXCEPT !.client = s]]
    BY <1>2 DEF Dial
  <2>2. new \in Stream /\ new.pc = "upgrade" /\ new.vm = str[s].vm
    BY <1>1 DEF Stream
  <2>3. str' = [str EXCEPT ![s] = new] /\ UNCHANGED <<thr, left>> /\ str[s].pc = "dial"
    BY <1>2 DEF Dial
  <2> HIDE DEF new
  <2>4. \A w \in Vms : w # v => vm'[w] = vm[w] /\ vm[w].client # s
    <3>1. s # NoStream
      BY NoStreamAssumption
    <3> QED
      BY <1>1, <2>1, <2>3, <3>1 DEF SerialInv, ClientOfPipe
  <2>5. /\ vm'[v].st = vm[v].st /\ vm'[v].pipe = vm[v].pipe /\ vm'[v].server = vm[v].server
        /\ vm'[v].client = s /\ vm'[v] \in Vm
    BY <1>1, <2>1 DEF Vm
  <2>6. vm[v].server /\ new.vm = vm[v].pipe
    BY <2>1, <2>2 DEF Serves
  <2>7. vm' \in [Vms -> Vm]
    BY <1>1, <2>1, <2>5
  <2>8. ASSUME NEW w \in Vms
        PROVE  /\ vm'[w].st = vm[w].st /\ vm'[w].pipe = vm[w].pipe
               /\ vm'[w].server = vm[w].server
               /\ \/ vm'[w].client = NoStream
                  \/ vm'[w].client = vm[w].client /\ vm[w].client # s
                  \/ /\ vm'[w].client = s /\ vm[w].server
                     /\ new.vm = vm[w].pipe /\ new.pc \in {"upgrade", "run"}
    <3>1. CASE w = v
      BY <2>2, <2>5, <2>6, <3>1
    <3>2. CASE w # v
      BY <2>4, <3>2
    <3> QED
      BY <3>1, <3>2
  <2> QED
    BY <2>2, <2>3, <2>7, <2>8, StreamMoves
<1>3. CASE DialFails(s)
  <2> DEFINE new == [str[s] EXCEPT !.pc = "closed", !.tab = FALSE]
  <2>1. new \in Stream
    BY <1>1 DEF Stream
  <2>2. str' = [str EXCEPT ![s] = new] /\ UNCHANGED <<vm, thr, left>> /\ str[s].pc = "dial"
    BY <1>3 DEF DialFails
  <2> QED
    BY <2>1, <2>2, StreamOnlyMoves
<1>4. CASE UpgradeSocket(s)
  <2> DEFINE new == [str[s] EXCEPT !.pc = "run", !.out = "read", !.in = "read"]
  <2>1. new \in Stream /\ new.vm = str[s].vm /\ new.pc = "run"
    BY <1>1 DEF Stream
  <2>2. str' = [str EXCEPT ![s] = new] /\ UNCHANGED <<vm, thr, left>>
    BY <1>4 DEF UpgradeSocket
  <2> HIDE DEF new
  <2> QED
    BY <2>1, <2>2, StreamOnlyMoves
<1>5. CASE UpgradeSocketFails(s) \/ Return(s)
  <2> DEFINE new == [str[s] EXCEPT !.pc = "closed", !.tab = FALSE]
  <2>1. new \in Stream
    BY <1>1 DEF Stream
  <2>2. str' = [str EXCEPT ![s] = new] /\ UNCHANGED <<thr, left>> /\ Hangup(s)
    BY <1>5 DEF UpgradeSocketFails, Return
  <2> HIDE DEF new
  <2> QED
    BY <2>1, <2>2, StreamCloses
<1> QED
  BY <1>2, <1>3, <1>4, <1>5 DEF SerialHandler

\* The tab and the pumps: the stream's place and its VM stay.
LEMMA PumpsKeep ==
  ASSUME SerialInv, NEW s \in Streams,
         CloseTerminal(s) \/ GuestSpeaks(s) \/ Out(s) \/ UserTypes(s) \/ GuestReads(s) \/ InEnds(s)
  PROVE  SerialInv'
<1>1. str \in [Streams -> Stream] /\ str[s] \in Stream
  BY DEF SerialInv, SerialTypeOK
<1>2. ASSUME NEW new \in Stream, str' = [str EXCEPT ![s] = new],
             new.pc = str[s].pc, new.vm = str[s].vm, UNCHANGED <<vm, thr, left>>
      PROVE  SerialInv'
  BY <1>2, StreamOnlyMoves
<1>3. CASE CloseTerminal(s)
  <2> DEFINE new == [str[s] EXCEPT !.tab = FALSE]
  <2>1. new \in Stream /\ new.pc = str[s].pc /\ new.vm = str[s].vm
    BY <1>1 DEF Stream
  <2>2. str' = [str EXCEPT ![s] = new] /\ UNCHANGED <<vm, thr, left>>
    BY <1>3 DEF CloseTerminal
  <2> HIDE DEF new
  <2> QED
    BY <1>2, <2>1, <2>2
<1>4. ASSUME NEW p \in {"read", "write"}, str' = [str EXCEPT ![s].out = p],
             UNCHANGED <<vm, thr, left>>
      PROVE  SerialInv'
  <2> DEFINE new == [str[s] EXCEPT !.out = p]
  <2>1. new \in Stream /\ new.pc = str[s].pc /\ new.vm = str[s].vm
    BY <1>1 DEF Stream
  <2>2. str' = [str EXCEPT ![s] = new]
    BY <1>4
  <2> HIDE DEF new
  <2> QED
    BY <1>2, <1>4, <2>1, <2>2
<1>5. ASSUME NEW p \in {"read", "write"}, str' = [str EXCEPT ![s].in = p],
             UNCHANGED <<vm, thr, left>>
      PROVE  SerialInv'
  <2> DEFINE new == [str[s] EXCEPT !.in = p]
  <2>1. new \in Stream /\ new.pc = str[s].pc /\ new.vm = str[s].vm
    BY <1>1 DEF Stream
  <2>2. str' = [str EXCEPT ![s] = new]
    BY <1>5
  <2> HIDE DEF new
  <2> QED
    BY <1>2, <1>5, <2>1, <2>2
<1>6. CASE OutEnds(s)
  <2> DEFINE new == [str[s] EXCEPT !.out = "end", !.done = TRUE]
  <2>1. new \in Stream /\ new.pc = str[s].pc /\ new.vm = str[s].vm
    BY <1>1 DEF Stream
  <2>2. str' = [str EXCEPT ![s] = new] /\ UNCHANGED <<vm, thr, left>>
    BY <1>6 DEF OutEnds
  <2> HIDE DEF new
  <2> QED
    BY <1>2, <2>1, <2>2
<1>7. CASE InEnds(s)
  <2> DEFINE new == [str[s] EXCEPT !.in = "end", !.done = TRUE]
  <2>1. new \in Stream /\ new.pc = str[s].pc /\ new.vm = str[s].vm
    BY <1>1 DEF Stream
  <2>2. str' = [str EXCEPT ![s] = new] /\ UNCHANGED <<vm, thr, left>>
    BY <1>7 DEF InEnds
  <2> HIDE DEF new
  <2> QED
    BY <1>2, <2>1, <2>2
<1> QED
  BY <1>3, <1>4, <1>5, <1>6, <1>7 DEF GuestSpeaks, Out, OutWrites, UserTypes, GuestReads

LEMMA OpenTabKeeps ==
  ASSUME SerialInv, NEW s \in Streams, NEW v \in Vms, OpenTerminal(s, v)
  PROVE  SerialInv'
<1> DEFINE new == [UnusedStream EXCEPT !.pc = "dial", !.vm = v, !.tab = TRUE]
<1>1. new \in Stream
  BY UnusedTyped DEF Stream
<1>2. str' = [str EXCEPT ![s] = new] /\ UNCHANGED <<vm, thr, left>>
      /\ str[s].pc \in {"none", "closed"}
  BY DEF OpenTerminal, Ended
<1> QED
  BY <1>1, <1>2, StreamOnlyMoves

-----------------------------------------------------------------------------

LEMMA NextKeeps == SerialInv /\ [SerialNext]_serialVars => SerialInv'
<1> SUFFICES ASSUME SerialInv, [SerialNext]_serialVars PROVE SerialInv'
  OBVIOUS
<1>1. CASE UNCHANGED serialVars
  <2>1. SerialTypeOK' /\ ServedWhileOn' /\ ClientOfPipe' /\ CopiesKnown'
    BY <1>1 DEF serialVars, SerialInv, SerialTypeOK, ServedWhileOn, ClientOfPipe, CopiesKnown, Active
  <2>2. ForeignIsLeft' /\ OfferedIsServed'
    BY <1>1 DEF serialVars, SerialInv, ForeignIsLeft, OfferedIsServed, Copying, Active, EnabledFor
  <2> QED
    BY <2>1, <2>2 DEF SerialInv
<1>2. CASE \E t \in Threads : Request(t)
  BY <1>2, RequestKeeps
<1>3. CASE \E v \in Vms, p \in Vms \cup {NoVm} : Import(v, p)
  BY <1>3, ImportKeeps
<1>4. CASE \E v \in Vms : Start(v)
  BY <1>4, StartKeeps
<1>5. CASE \E v \in Vms : Stop(v)
  BY <1>5, StopKeeps
<1>6. CASE \E s \in Streams, v \in Vms : OpenTerminal(s, v)
  BY <1>6, OpenTabKeeps
<1>7. CASE \E s \in Streams : SerialHandler(s)
  BY <1>7, HandlerKeeps
<1>8. CASE \E s \in Streams :
             CloseTerminal(s) \/ GuestSpeaks(s) \/ Out(s) \/ UserTypes(s) \/ GuestReads(s) \/ InEnds(s)
  BY <1>8, PumpsKeep
<1> QED
  BY <1>1, <1>2, <1>3, <1>4, <1>5, <1>6, <1>7, <1>8 DEF SerialNext

\* The invariant holds for any number of VMs, streams and threads: who made a
\* pipe, who dialled it, and which VMs carry the name of another.
THEOREM SerialCorrect == SerialSpec => []SerialInv
<1>1. SerialInit => SerialInv
  BY Initially
<1>2. SerialInv /\ [SerialNext]_serialVars => SerialInv'
  BY NextKeeps
<1> QED
  BY <1>1, <1>2, PTL DEF SerialSpec

\* The state stays well typed.
THEOREM SerialTyped == SerialSpec => []SerialTypeOK
<1>1. SerialInv => SerialTypeOK
  BY DEF SerialInv
<1> QED
  BY <1>1, SerialCorrect, PTL

\* A terminal reaches another VM's COM1 only through a copy that was left with the
\* pipe of its source or ran before its job wired it (clonevm.go:68-78).
THEOREM OthersAreNotReached == SerialSpec => []OnlyLeftCopiesMislead
<1>1. SerialInv => OnlyLeftCopiesMislead
  <2> SUFFICES ASSUME SerialInv, NEW v \in Vms, vm[v].client # NoStream, str[vm[v].client].vm # v
               PROVE  v \in left
    BY DEF OnlyLeftCopiesMislead
  <2>1. vm[v].server /\ vm[v].pipe # v
    BY DEF SerialInv, ClientOfPipe
  <2>2. vm[v].pipe # NoVm /\ vm[v].st = "on"
    BY <2>1 DEF SerialInv, ServedWhileOn
  <2> QED
    BY <2>1, <2>2 DEF SerialInv, ForeignIsLeft, Foreign
<1> QED
  BY <1>1, SerialCorrect, PTL

\* A running VM whose terminal is offered made its pipe, unless there is such a copy
\* to take it (serialconsole.go:118-131).
THEOREM OfferedPipesAreMade == SerialSpec => []OfferedIsServed
<1>1. SerialInv => OfferedIsServed
  BY DEF SerialInv
<1> QED
  BY <1>1, SerialCorrect, PTL

-----------------------------------------------------------------------------

(***************************************************************************)
(* The requests use the lock of LockSpec.                                  *)
(***************************************************************************)

LEMMA WorkMembers ==
  \A v, u : <<v, u>> \in AtWorkOn <=> u \in Threads /\ Active(u) /\ thr[u].vm = v
  BY DEF AtWorkOn

\* A step of one request, which keeps its VM or ends, and moves no other between
\* working and not.
LEMMA MoveUnlocks ==
  ASSUME NEW t \in Threads, Active(t), thr[t].vm \in Vms,
         \A u \in Threads : u # t => thr'[u].pc = thr[u].pc /\ thr'[u].vm = thr[u].vm,
         Active(t)' => thr'[t].vm = thr[t].vm
  PROVE  [VmLock!LockNext]_AtWorkOn
<1>1. \A u \in Threads : u # t => (Active(u)' <=> Active(u))
  BY DEF Active
<1>2. CASE Active(t)'
  BY <1>1, <1>2 DEF AtWorkOn
<1>3. CASE ~Active(t)'
  <2>1. AtWorkOn' = AtWorkOn \ {<<thr[t].vm, t>>}
    BY <1>1, <1>3 DEF AtWorkOn
  <2>2. <<thr[t].vm, t>> \in AtWorkOn
    BY WorkMembers
  <2> QED
    BY <2>1, <2>2 DEF VmLock!LockNext, VmLock!Unlock
<1> QED
  BY <1>2, <1>3

LEMMA ArriveLocks ==
  ASSUME NEW t \in Threads, ~Active(t), NEW v \in Vms, ~Locked(v),
         Active(t)', thr'[t].vm = v,
         \A u \in Threads : u # t => thr'[u] = thr[u]
  PROVE  VmLock!LockNext
<1>1. \A u \in Threads : u # t => (Active(u)' <=> Active(u))
  BY DEF Active
<1>2. AtWorkOn' = AtWorkOn \cup {<<v, t>>}
  BY <1>1 DEF AtWorkOn
<1>3. /\ \A u \in Threads : <<v, u>> \notin AtWorkOn
      /\ \A w \in Vms : <<w, t>> \notin AtWorkOn
  BY WorkMembers DEF Locked
<1> QED
  BY <1>2, <1>3 DEF VmLock!LockNext, VmLock!TryLock

LEMMA RequestLocks ==
  ASSUME SerialInv, NEW t \in Threads, Request(t)
  PROVE  [VmLock!LockNext]_AtWorkOn
<1>1. thr \in [Threads -> Thread] /\ thr[t] \in Thread
  BY DEF SerialInv, SerialTypeOK
<1>2. ASSUME NEW op \in Ops, NEW v \in Vms, Arrive(t, op, v) PROVE VmLock!LockNext
  <2>1. /\ Active(t)' /\ thr'[t].vm = v /\ ~Active(t) /\ ~Locked(v)
        /\ \A u \in Threads : u # t => thr'[u] = thr[u]
    BY <1>1, <1>2 DEF Arrive, Active
  <2> QED
    BY <2>1, ArriveLocks
<1>3. ASSUME Active(t), NEW pc \in {"idle", "modify", "clone", "look", "wire"}, At(t, pc)
      PROVE  [VmLock!LockNext]_AtWorkOn
  <2>1. /\ \A u \in Threads : u # t => thr'[u] = thr[u]
        /\ thr'[t].pc = pc /\ (pc # "idle" => thr'[t].vm = thr[t].vm)
    BY <1>3, AtTyped
  <2>2. thr[t].vm \in Vms
    BY <1>3 DEF SerialInv, CopiesKnown
  <2> QED
    BY <1>3, <2>1, <2>2, MoveUnlocks DEF Active
<1>4. ASSUME CloneVm(t) PROVE [VmLock!LockNext]_AtWorkOn
  <2>1. PICK v \in Vms : thr' = [thr EXCEPT ![t] = [thr[t] EXCEPT !.pc = "look", !.new = v]]
    BY <1>4 DEF CloneVm
  <2>2. thr'[t].vm = thr[t].vm /\ \A u \in Threads : u # t => thr'[u] = thr[u]
    BY <1>1, <2>1 DEF Thread
  <2>3. Active(t) /\ thr[t].vm \in Vms
    BY <1>4 DEF CloneVm, Active, SerialInv, CopiesKnown
  <2> QED
    BY <2>2, <2>3, MoveUnlocks
<1>5. CASE Read(t) \/ Refused(t) \/ Modify(t) \/ ModifyFails(t)
  BY <1>3, <1>5 DEF Read, Refused, Modify, ModifyFails, Active
<1>6. CASE CloneFails(t) \/ Look(t) \/ Wire(t) \/ StepFails(t)
  BY <1>3, <1>6 DEF CloneFails, Look, Wire, StepFails, Active
<1> QED
  BY <1>2, <1>4, <1>5, <1>6 DEF Request

LEMMA LockStep == SerialInv /\ [SerialNext]_serialVars => [VmLock!LockNext]_AtWorkOn
<1> SUFFICES ASSUME SerialInv, [SerialNext]_serialVars PROVE [VmLock!LockNext]_AtWorkOn
  OBVIOUS
<1>1. ASSUME UNCHANGED thr PROVE UNCHANGED AtWorkOn
  BY <1>1 DEF AtWorkOn, Active
<1>2. ASSUME \/ \E v \in Vms, p \in Vms \cup {NoVm} : Import(v, p)
             \/ \E v \in Vms : Start(v) \/ Stop(v)
             \/ \E s \in Streams, v \in Vms : OpenTerminal(s, v)
             \/ UNCHANGED serialVars
      PROVE  UNCHANGED thr
  BY <1>2 DEF Import, Start, Stop, OpenTerminal, serialVars
<1>3. ASSUME NEW s \in Streams,
             \/ CloseTerminal(s) \/ SerialHandler(s) \/ GuestSpeaks(s) \/ Out(s)
             \/ UserTypes(s) \/ GuestReads(s) \/ InEnds(s)
      PROVE  UNCHANGED thr
  BY <1>3 DEF CloseTerminal, SerialHandler, Dial, DialFails, UpgradeSocket, UpgradeSocketFails,
              Return, GuestSpeaks, Out, OutWrites, OutEnds, UserTypes, GuestReads, InEnds
<1> QED
  BY <1>1, <1>2, <1>3, RequestLocks DEF SerialNext

\* A VM's COM1 is wired, and a copy made of it, under the VM's lock; the copy
\* itself has none (server.go:1555-1571).
THEOREM SerialLocks == SerialSpec => UsesLock
<1>1. SerialInit => VmLock!LockInit
  BY DEF SerialInit, Idle, Active, AtWorkOn, VmLock!LockInit
<1> QED
  BY <1>1, LockStep, SerialCorrect, PTL DEF SerialSpec, UsesLock, VmLock!LockOnly

-----------------------------------------------------------------------------

(***************************************************************************)
(* The screen stream: what the handler, its reader and the COM threads     *)
(* hold of one another.                                                    *)
(***************************************************************************)

\* The size of a frame is its number of tiles.
LEMMA SizeFacts ==
  ASSUME NEW s \in Sizes
  PROVE  s \in Nat \ {0} /\ 1..s \subseteq Tiles /\ s # 0 /\ 0 \notin Sizes
  BY SizesAssumption DEF Tiles

LEMMA FrameFacts ==
  ASSUME NEW f \in Frames \cup {NoFrame}
  PROVE  /\ f.size \in Sizes \cup {0}
         /\ f.size = 0 <=> f = NoFrame
         /\ f.size # 0 => /\ f = [size |-> f.size, pix |-> f.pix]
                          /\ f.pix \in [1..f.size -> Colours \cup {Blank}]
  BY SizeFacts DEF Frames, NoFrame

LEMMA FrameMade ==
  ASSUME NEW s \in Sizes, NEW p \in [1..s -> Colours \cup {Blank}]
  PROVE  [size |-> s, pix |-> p] \in Frames
  BY DEF Frames

LEMMA ChangedFacts ==
  ASSUME NEW prev, NEW cur
  PROVE  /\ ChangedTiles(prev, cur) \subseteq 1..cur.size
         /\ \A t \in (1..cur.size) \ ChangedTiles(prev, cur) :
              prev.size = cur.size /\ prev.pix[t] = cur.pix[t]
  BY DEF ChangedTiles

LEMMA OpenedFacts ==
  ASSUME TypeOK, NEW c
  PROVE  /\ Opened(c) \in Capturer /\ Opened(c).st = "idle" /\ Opened(c).size \in Sizes
         /\ ~Opened(c).closing
  BY DEF Opened, Capturer, TypeOK

LEMMA UnusedFacts == Unused \in Capturer /\ Unused.st = "unused"
  BY DEF Unused, Capturer

\* A capturer changes its state.
LEMMA StateFacts ==
  ASSUME NEW k \in [Caps -> Capturer], NEW c \in Caps,
         NEW st \in {"idle", "grab", "input", "unlock"}, NEW l, l = [k EXCEPT ![c].st = st]
  PROVE  /\ l \in [Caps -> Capturer]
         /\ l[c].st = st /\ l[c].size = k[c].size /\ l[c].closing = k[c].closing
         /\ \A d \in Caps \ {c} : l[d] = k[d]
<1> DEFINE n == [k[c] EXCEPT !.st = st]
<1>1. n \in Capturer /\ n.st = st /\ n.size = k[c].size /\ n.closing = k[c].closing
  BY DEF Capturer
<1>2. l = [k EXCEPT ![c] = n]
  OBVIOUS
<1> HIDE DEF n
<1> QED
  BY <1>1, <1>2

\* A capturer is told to close.
LEMMA ClosingFacts ==
  ASSUME NEW k \in [Caps -> Capturer], NEW c \in Caps, NEW l, l = [k EXCEPT ![c].closing = TRUE]
  PROVE  /\ l \in [Caps -> Capturer]
         /\ l[c].st = k[c].st /\ l[c].size = k[c].size
         /\ \A d \in Caps \ {c} : l[d] = k[d]
<1> DEFINE n == [k[c] EXCEPT !.closing = TRUE]
<1>1. n \in Capturer /\ n.st = k[c].st /\ n.size = k[c].size
  BY DEF Capturer
<1>2. l = [k EXCEPT ![c] = n]
  OBVIOUS
<1> HIDE DEF n
<1> QED
  BY <1>1, <1>2

\* The handler leaves: the capturers are as in k, and the current one is closed.
LEMMA LeaveInv ==
  ASSUME StreamInv, NEW k \in [Caps -> Capturer], srv.cur \in Caps,
         \A c \in Caps : k[c].st # "unused" => k[c].size \in Sizes,
         rdr.pc = "wait" => k[rdr.cap].st = "input",
         Leave(k), UNCHANGED <<guest, rdr, out, cli>>
  PROVE  StreamInv'
<1>1. cap' \in [Caps -> Capturer] /\ \A c \in Caps : cap'[c].st = k[c].st /\ cap'[c].size = k[c].size
  BY ClosingFacts DEF Leave
<1>2. srv' = [srv EXCEPT !.pc = "close", !.prev = NoFrame, !.send = {}, !.pend = 0]
      /\ conn' = FALSE /\ seen' = 0
  BY DEF Leave
<1>3. TypeOK'
  BY <1>1, <1>2, QueueAssumption DEF StreamInv, TypeOK
<1>4. Sent'
  BY DEF StreamInv, Sent
<1>5. InUse'
  BY <1>1, <1>2 DEF StreamInv, TypeOK, InUse, Streaming
<1>6. Compared'
  BY <1>2 DEF StreamInv, TypeOK, Compared, Streaming, NoFrame
<1> QED
  BY <1>3, <1>4, <1>5, <1>6 DEF StreamInv

LEMMA LeavesInv ==
  ASSUME StreamInv, UpgradeFails \/ WriteFails \/ TakeDone \/ GrabFails
  PROVE  StreamInv'
<1>1. CASE UpgradeFails \/ WriteFails \/ TakeDone
  BY <1>1, LeaveInv DEF StreamInv, TypeOK, InUse, Streaming, UpgradeFails, WriteFails, TakeDone
<1>2. CASE GrabFails
  <2> DEFINE k == [cap EXCEPT ![srv.cur].st = "idle"]
  <2>1. srv.cur \in Caps /\ cap[srv.cur].st = "grab" /\ cap \in [Caps -> Capturer]
    BY <1>2 DEF StreamInv, TypeOK, InUse, Streaming, GrabFails
  <2>0. k = [cap EXCEPT ![srv.cur].st = "idle"]
    OBVIOUS
  <2> HIDE DEF k
  <2>2. k \in [Caps -> Capturer] /\ k[srv.cur].st = "idle" /\ k[srv.cur].size = cap[srv.cur].size
        /\ \A d \in Caps \ {srv.cur} : k[d] = cap[d]
    BY <2>1, <2>0, StateFacts
  <2>3. \A c \in Caps : k[c].st # "unused" => k[c].size \in Sizes
    BY <2>1, <2>2 DEF StreamInv, TypeOK
  <2>4. rdr.pc = "wait" => k[rdr.cap].st = "input"
    BY <2>1, <2>2 DEF StreamInv, InUse
  <2>5. Leave(k) /\ UNCHANGED <<guest, rdr, out, cli>>
    BY <1>2, <2>0 DEF GrabFails
  <2> QED
    BY <2>1, <2>2, <2>3, <2>4, <2>5, LeaveInv
<1> QED
  BY <1>1, <1>2


\* Steps that move only the handler or the reader.
LEMMA MovesInv ==
  ASSUME StreamInv,
         \/ NewFails \/ Upgrade \/ StartPoll \/ StartGrab \/ Poll \/ PollFails \/ ReopenFails
         \/ SwapDone \/ Closed \/ Receive \/ InputRefused \/ ReadEnds
  PROVE  StreamInv'
<1>1. CASE NewFails
  <2>1. TypeOK'
    BY <1>1 DEF StreamInv, TypeOK, InUse, Streaming, NewFails
  <2>2. Sent'
    BY <1>1 DEF StreamInv, Sent, NewFails
  <2>3. InUse'
    BY <1>1 DEF StreamInv, TypeOK, InUse, Streaming, NewFails
  <2>4. Compared'
    BY <1>1 DEF StreamInv, TypeOK, Compared, Streaming, NewFails
  <2> QED
    BY <2>1, <2>2, <2>3, <2>4 DEF StreamInv
<1>2. CASE Upgrade
  <2>1. TypeOK'
    BY <1>2 DEF StreamInv, TypeOK, InUse, Streaming, Upgrade
  <2>2. Sent'
    BY <1>2 DEF StreamInv, Sent, Upgrade
  <2>3. InUse'
    BY <1>2 DEF StreamInv, TypeOK, InUse, Streaming, Upgrade
  <2>4. Compared'
    BY <1>2 DEF StreamInv, TypeOK, Compared, Streaming, Upgrade
  <2> QED
    BY <2>1, <2>2, <2>3, <2>4 DEF StreamInv
<1>3. CASE StartPoll
  <2>1. TypeOK'
    BY <1>3 DEF StreamInv, TypeOK, InUse, Streaming, StartPoll
  <2>2. Sent'
    BY <1>3 DEF StreamInv, Sent, StartPoll
  <2>3. InUse'
    BY <1>3 DEF StreamInv, TypeOK, InUse, Streaming, StartPoll
  <2>4. Compared'
    BY <1>3 DEF StreamInv, TypeOK, Compared, Streaming, StartPoll
  <2> QED
    BY <2>1, <2>2, <2>3, <2>4 DEF StreamInv
<1>4. CASE StartGrab
  <2>1. TypeOK'
    BY <1>4 DEF StreamInv, TypeOK, InUse, Streaming, StartGrab
  <2>2. Sent'
    BY <1>4 DEF StreamInv, Sent, StartGrab
  <2>3. InUse'
    BY <1>4 DEF StreamInv, TypeOK, InUse, Streaming, StartGrab
  <2>4. Compared'
    BY <1>4 DEF StreamInv, TypeOK, Compared, Streaming, StartGrab
  <2> QED
    BY <2>1, <2>2, <2>3, <2>4 DEF StreamInv
<1>5. CASE Poll
  <2>1. TypeOK'
    BY <1>5 DEF StreamInv, TypeOK, InUse, Streaming, Poll, Debounce
  <2>2. Sent'
    BY <1>5 DEF StreamInv, Sent, Poll
  <2>3. InUse'
    BY <1>5 DEF StreamInv, TypeOK, InUse, Streaming, Poll, Debounce
  <2>4. Compared'
    BY <1>5 DEF StreamInv, TypeOK, Compared, Streaming, Poll, Debounce
  <2> QED
    BY <2>1, <2>2, <2>3, <2>4 DEF StreamInv
<1>6. CASE PollFails
  <2>1. TypeOK'
    BY <1>6 DEF StreamInv, TypeOK, InUse, Streaming, PollFails, Debounce
  <2>2. Sent'
    BY <1>6 DEF StreamInv, Sent, PollFails
  <2>3. InUse'
    BY <1>6 DEF StreamInv, TypeOK, InUse, Streaming, PollFails, Debounce
  <2>4. Compared'
    BY <1>6 DEF StreamInv, TypeOK, Compared, Streaming, PollFails, Debounce
  <2> QED
    BY <2>1, <2>2, <2>3, <2>4 DEF StreamInv
<1>7. CASE ReopenFails
  <2>1. TypeOK'
    BY <1>7 DEF StreamInv, TypeOK, InUse, Streaming, ReopenFails
  <2>2. Sent'
    BY <1>7 DEF StreamInv, Sent, ReopenFails
  <2>3. InUse'
    BY <1>7 DEF StreamInv, TypeOK, InUse, Streaming, ReopenFails
  <2>4. Compared'
    BY <1>7 DEF StreamInv, TypeOK, Compared, Streaming, ReopenFails
  <2> QED
    BY <2>1, <2>2, <2>3, <2>4 DEF StreamInv
<1>8. CASE SwapDone
  <2>1. TypeOK'
    BY <1>8 DEF StreamInv, TypeOK, InUse, Streaming, SwapDone, NoFrame
  <2>2. Sent'
    BY <1>8 DEF StreamInv, Sent, SwapDone
  <2>3. InUse'
    BY <1>8 DEF StreamInv, TypeOK, InUse, Streaming, SwapDone, NoFrame
  <2>4. Compared'
    BY <1>8 DEF StreamInv, TypeOK, Compared, Streaming, SwapDone, NoFrame
  <2> QED
    BY <2>1, <2>2, <2>3, <2>4 DEF StreamInv
<1>9. CASE Closed
  <2>1. TypeOK'
    BY <1>9 DEF StreamInv, TypeOK, InUse, Streaming, Closed
  <2>2. Sent'
    BY <1>9 DEF StreamInv, Sent, Closed
  <2>3. InUse'
    BY <1>9 DEF StreamInv, TypeOK, InUse, Streaming, Closed
  <2>4. Compared'
    BY <1>9 DEF StreamInv, TypeOK, Compared, Streaming, Closed
  <2> QED
    BY <2>1, <2>2, <2>3, <2>4 DEF StreamInv
<1>10. CASE Receive
  <2>1. TypeOK'
    BY <1>10 DEF StreamInv, TypeOK, InUse, Streaming, Receive
  <2>2. Sent'
    BY <1>10 DEF StreamInv, Sent, Receive
  <2>3. InUse'
    BY <1>10 DEF StreamInv, TypeOK, InUse, Streaming, Receive
  <2>4. Compared'
    BY <1>10 DEF StreamInv, TypeOK, Compared, Streaming, Receive
  <2> QED
    BY <2>1, <2>2, <2>3, <2>4 DEF StreamInv
<1>11. CASE InputRefused
  <2>1. TypeOK'
    BY <1>11 DEF StreamInv, TypeOK, InUse, Streaming, InputRefused
  <2>2. Sent'
    BY <1>11 DEF StreamInv, Sent, InputRefused
  <2>3. InUse'
    BY <1>11 DEF StreamInv, TypeOK, InUse, Streaming, InputRefused
  <2>4. Compared'
    BY <1>11 DEF StreamInv, TypeOK, Compared, Streaming, InputRefused
  <2> QED
    BY <2>1, <2>2, <2>3, <2>4 DEF StreamInv
<1>12. CASE ReadEnds
  <2>1. TypeOK'
    BY <1>12 DEF StreamInv, TypeOK, InUse, Streaming, ReadEnds
  <2>2. Sent'
    BY <1>12 DEF StreamInv, Sent, ReadEnds
  <2>3. InUse'
    BY <1>12 DEF StreamInv, TypeOK, InUse, Streaming, ReadEnds
  <2>4. Compared'
    BY <1>12 DEF StreamInv, TypeOK, Compared, Streaming, ReadEnds
  <2> QED
    BY <2>1, <2>2, <2>3, <2>4 DEF StreamInv
<1> QED
  BY <1>1, <1>2, <1>3, <1>4, <1>5, <1>6, <1>7, <1>8, <1>9, <1>10, <1>11, <1>12

\* Steps of a capturer: c is in another state and the rest of the state fits it.
LEMMA CapturersInv ==
  ASSUME StreamInv,
         \/ GrabTaken \/ InputTaken \/ InputDone
         \/ \E c \in Caps : ComCloses(c) \/ Unlocks(c)
  PROVE  StreamInv'
<1> USE DEF StreamInv
<1>1. CASE GrabTaken
  <2>1. srv.cur \in Caps /\ cap[srv.cur].st = "idle" /\ cap \in [Caps -> Capturer]
    BY <1>1 DEF TypeOK, InUse, Streaming, GrabTaken
  <2>2. /\ cap' \in [Caps -> Capturer] /\ cap'[srv.cur].st = "grab"
        /\ cap'[srv.cur].size = cap[srv.cur].size /\ cap'[srv.cur].closing = cap[srv.cur].closing
        /\ \A d \in Caps \ {srv.cur} : cap'[d] = cap[d]
    <3>1. cap' = [cap EXCEPT ![srv.cur].st = "grab"]
      BY <1>1 DEF GrabTaken
    <3> QED
      BY <2>1, <3>1, StateFacts
  <2>3. srv' = [srv EXCEPT !.pc = "answer"] /\ UNCHANGED <<guest, rdr, conn, out, cli, seen>>
    BY <1>1 DEF GrabTaken
  <2>4. TypeOK'
    <3>1. \A d \in Caps : cap'[d].st # "unused" => cap'[d].size \in Sizes
      BY <2>1, <2>2, <2>3 DEF TypeOK
    <3> QED
      BY <2>1, <2>2, <2>3, <3>1 DEF TypeOK
  <2>5. Sent' /\ InUse' /\ Compared'
    BY <1>1, <2>1, <2>2, <2>3 DEF TypeOK, Sent, InUse, Compared, Streaming, GrabTaken
  <2> QED
    BY <2>4, <2>5
<1>2. CASE InputTaken
  <2>1. rdr.cap \in Caps /\ cap[rdr.cap].st = "idle" /\ cap \in [Caps -> Capturer]
    BY <1>2 DEF TypeOK, InUse, InputTaken
  <2>2. /\ cap' \in [Caps -> Capturer] /\ cap'[rdr.cap].st = "input"
        /\ cap'[rdr.cap].size = cap[rdr.cap].size /\ cap'[rdr.cap].closing = cap[rdr.cap].closing
        /\ \A d \in Caps \ {rdr.cap} : cap'[d] = cap[d]
    <3>1. cap' = [cap EXCEPT ![rdr.cap].st = "input"]
      BY <1>2 DEF InputTaken
    <3> QED
      BY <2>1, <3>1, StateFacts
  <2>3. rdr' = [rdr EXCEPT !.pc = "wait"] /\ UNCHANGED <<guest, srv, conn, out, cli, seen>>
    BY <1>2 DEF InputTaken
  <2>4. TypeOK'
    <3>1. \A d \in Caps : cap'[d].st # "unused" => cap'[d].size \in Sizes
      BY <2>1, <2>2, <2>3 DEF TypeOK
    <3> QED
      BY <2>1, <2>2, <2>3, <3>1 DEF TypeOK
  <2>5. Sent' /\ InUse' /\ Compared'
    BY <2>1, <2>2, <2>3 DEF TypeOK, Sent, InUse, Compared, Streaming
  <2> QED
    BY <2>4, <2>5
<1>3. CASE InputDone
  <2>1. rdr.cap \in Caps /\ cap[rdr.cap].st = "input" /\ cap \in [Caps -> Capturer]
    BY <1>3 DEF TypeOK, InUse, InputDone
  <2>2. /\ cap' \in [Caps -> Capturer] /\ cap'[rdr.cap].st = "idle"
        /\ cap'[rdr.cap].size = cap[rdr.cap].size /\ cap'[rdr.cap].closing = cap[rdr.cap].closing
        /\ \A d \in Caps \ {rdr.cap} : cap'[d] = cap[d]
    <3>1. cap' = [cap EXCEPT ![rdr.cap].st = "idle"]
      BY <1>3 DEF InputDone
    <3> QED
      BY <2>1, <3>1, StateFacts
  <2>3. rdr' = [pc |-> "read", cap |-> NoCap] /\ UNCHANGED <<guest, srv, conn, out, cli, seen>>
    BY <1>3 DEF InputDone
  <2>4. TypeOK'
    <3>1. \A d \in Caps : cap'[d].st # "unused" => cap'[d].size \in Sizes
      BY <2>1, <2>2, <2>3 DEF TypeOK
    <3> QED
      BY <2>1, <2>2, <2>3, <3>1 DEF TypeOK
  <2>5. Sent' /\ InUse' /\ Compared'
    BY <2>1, <2>2, <2>3 DEF TypeOK, Sent, InUse, Compared, Streaming
  <2> QED
    BY <2>4, <2>5
<1>4. ASSUME NEW c \in Caps, ComCloses(c) \/ Unlocks(c) PROVE StreamInv'
  <2>1. \/ cap[c].st = "idle" /\ cap[c].closing /\ cap' = [cap EXCEPT ![c].st = "unlock"]
        \/ cap[c].st = "unlock" /\ cap' = [cap EXCEPT ![c] = Unused]
    BY <1>4 DEF ComCloses, Unlocks
  <2>2. cap \in [Caps -> Capturer] /\ UNCHANGED <<guest, srv, rdr, conn, out, cli, seen>>
    BY <1>4 DEF TypeOK, ComCloses, Unlocks
  <2>3. /\ cap' \in [Caps -> Capturer] /\ cap'[c].st \in {"unlock", "unused"}
        /\ cap'[c].st = "unlock" => cap'[c].size = cap[c].size
        /\ \A d \in Caps \ {c} : cap'[d] = cap[d]
    BY <2>1, <2>2, StateFacts, UnusedFacts
  <2>4. TypeOK'
    <3>1. \A d \in Caps : cap'[d].st # "unused" => cap'[d].size \in Sizes
      BY <2>1, <2>2, <2>3 DEF TypeOK
    <3> QED
      BY <2>1, <2>2, <2>3, <3>1 DEF TypeOK
  <2>5. srv.pc \in Streaming \cup {"upgrade"} => srv.cur # c
    BY <2>1 DEF InUse
  <2>6. Sent' /\ InUse'
    BY <2>1, <2>2, <2>3, <2>5 DEF Sent, InUse, Streaming
  <2>7. Compared'
    BY <2>2, <2>3, <2>5 DEF TypeOK, InUse, Compared, Streaming
  <2> QED
    BY <2>4, <2>6, <2>7
<1> QED
  BY <1>1, <1>2, <1>3, <1>4

\* A capturer is opened, at first or for a swap.
LEMMA OpenInv ==
  ASSUME StreamInv, NEW c \in Caps, New(c) \/ Reopen(c)
  PROVE  StreamInv'
<1> USE DEF StreamInv
<1>1. /\ cap \in [Caps -> Capturer] /\ cap[c].st = "unused"
      /\ Opened(c) \in Capturer /\ Opened(c).st = "idle" /\ Opened(c).size \in Sizes
      /\ ~Opened(c).closing
      /\ UNCHANGED <<guest, rdr, conn, out, cli, seen>>
  BY OpenedFacts DEF TypeOK, New, Reopen, Fresh
<1>2. ~(rdr.pc = "wait" /\ rdr.cap = c)
  BY <1>1 DEF InUse
<1>3. CASE New(c)
  <2>1. cap' = [cap EXCEPT ![c] = Opened(c)] /\ srv' = [srv EXCEPT !.pc = "upgrade", !.cur = c]
        /\ srv.pc = "new"
    BY <1>3 DEF New
  <2>2. /\ cap' \in [Caps -> Capturer] /\ cap'[c] = Opened(c)
        /\ \A d \in Caps \ {c} : cap'[d] = cap[d]
    BY <1>1, <2>1
  <2>3. TypeOK'
    <3>1. \A d \in Caps : cap'[d].st # "unused" => cap'[d].size \in Sizes
      BY <1>1, <2>1, <2>2 DEF TypeOK
    <3> QED
      BY <1>1, <2>1, <2>2, <3>1 DEF TypeOK
  <2>4. Sent' /\ InUse'
    BY <1>1, <1>2, <2>1, <2>2 DEF TypeOK, Sent, InUse, Streaming
  <2>5. Compared'
    BY <1>1, <2>1, <2>2 DEF TypeOK, Compared, Streaming
  <2> QED
    BY <2>3, <2>4, <2>5
<1>4. CASE Reopen(c)
  <2> DEFINE k == [cap EXCEPT ![c] = Opened(c)]
  <2>1. srv.cur \in Caps /\ cap[srv.cur].st # "unused" /\ srv.pc = "reopen" /\ srv.cur # c
    BY <1>1, <1>4 DEF InUse, Streaming, Reopen
  <2>2. /\ k \in [Caps -> Capturer] /\ k[c] = Opened(c)
        /\ \A d \in Caps \ {c} : k[d] = cap[d]
    BY <1>1
  <2>3. cap' = [k EXCEPT ![srv.cur].closing = TRUE]
        /\ srv' = [srv EXCEPT !.pc = "swap", !.cur = c, !.old = srv.cur]
    BY <1>1, <1>4, <2>1 DEF Reopen
  <2> HIDE DEF k
  <2>4. /\ cap' \in [Caps -> Capturer] /\ cap'[c] = Opened(c)
        /\ \A d \in Caps \ {c} : cap'[d].st = cap[d].st /\ cap'[d].size = cap[d].size
    BY <2>1, <2>2, <2>3, ClosingFacts
  <2>5. TypeOK'
    <3>1. \A d \in Caps : cap'[d].st # "unused" => cap'[d].size \in Sizes
      BY <1>1, <2>1, <2>3, <2>4 DEF TypeOK
    <3> QED
      BY <1>1, <2>1, <2>3, <2>4, <3>1 DEF TypeOK
  <2>6. Sent' /\ InUse'
    BY <1>1, <1>2, <2>1, <2>3, <2>4 DEF TypeOK, Sent, InUse, Streaming
  <2>7. Compared'
    BY <1>1, <2>1, <2>3, <2>4 DEF TypeOK, Compared, Streaming
  <2> QED
    BY <2>5, <2>6, <2>7
<1> QED
  BY <1>3, <1>4

\* Steps of the guest, and the end of a hint to it.
LEMMA GuestInv ==
  ASSUME StreamInv, GuestChanges \/ HintDone
  PROVE  StreamInv'
<1> USE DEF StreamInv
<1>1. guest' \in [on : BOOLEAN, size : Sizes, pix : [Tiles -> Colours]]
  <2>1. guest \in [on : BOOLEAN, size : Sizes, pix : [Tiles -> Colours]]
    BY DEF TypeOK
  <2>2. ASSUME NEW t \in Tiles, NEW c \in Colours, guest' = [guest EXCEPT !.pix[t] = c]
        PROVE  guest' = [guest EXCEPT !.pix = [guest.pix EXCEPT ![t] = c]]
    BY <2>1, <2>2
  <2>3. \A t \in Tiles, c \in Colours : [guest.pix EXCEPT ![t] = c] \in [Tiles -> Colours]
    BY <2>1
  <2>4. \A p \in [Tiles -> Colours] :
          [guest EXCEPT !.pix = p] \in [on : BOOLEAN, size : Sizes, pix : [Tiles -> Colours]]
    BY <2>1
  <2>5. \A size \in Sizes :
          [guest EXCEPT !.size = size] \in [on : BOOLEAN, size : Sizes, pix : [Tiles -> Colours]]
    BY <2>1
  <2>6. [guest EXCEPT !.on = FALSE] \in [on : BOOLEAN, size : Sizes, pix : [Tiles -> Colours]]
    BY <2>1
  <2> QED
    BY <2>1, <2>2, <2>3, <2>4, <2>5, <2>6 DEF GuestChanges, HintDone
<1>2. rdr' = rdr \/ rdr' = [rdr EXCEPT !.pc = "read"]
  BY DEF GuestChanges, HintDone
<1>3. UNCHANGED <<cap, srv, conn, out, cli, seen>>
  BY DEF GuestChanges, HintDone
<1>4. TypeOK'
  BY <1>1, <1>2, <1>3 DEF TypeOK
<1>5. Sent' /\ Compared'
  BY <1>3 DEF Sent, Compared
<1>6. InUse'
  BY <1>2, <1>3 DEF TypeOK, InUse
<1> QED
  BY <1>4, <1>5, <1>6

\* The frame that a grab answers, of the size its capturer has read.
LEMMA GrabFrame ==
  ASSUME StreamInv, GrabDone
  PROVE  \E frame \in Frames :
           /\ frame.size = cap[srv.cur].size
           /\ \A t \in 1..frame.size : frame.pix[t] \in Colours
           /\ srv' = [srv EXCEPT !.pc = IF ChangedTiles(srv.prev, frame) = {} THEN "select" ELSE "send",
                                 !.prev = frame, !.send = ChangedTiles(srv.prev, frame)]
<1> DEFINE size  == cap[srv.cur].size
           frame == [size |-> size, pix |-> [t \in 1..size |-> guest.pix[t]]]
<1>1. srv.cur \in Caps /\ size \in Sizes
  BY DEF StreamInv, TypeOK, InUse, Streaming, GrabDone
<1>2. [t \in 1..size |-> guest.pix[t]] \in [1..size -> Colours \cup {Blank}]
  BY <1>1, SizeFacts DEF StreamInv, TypeOK
<1>3. frame \in Frames /\ frame.size = size
      /\ \A t \in 1..frame.size : frame.pix[t] \in Colours
  BY <1>1, <1>2, FrameMade, SizeFacts DEF StreamInv, TypeOK
<1>4. srv' = [srv EXCEPT !.pc = IF ChangedTiles(srv.prev, frame) = {} THEN "select" ELSE "send",
                         !.prev = frame, !.send = ChangedTiles(srv.prev, frame)]
  BY DEF GrabDone
<1> HIDE DEF frame
<1> QED
  BY <1>3, <1>4

LEMMA GrabInv == ASSUME StreamInv, GrabDone PROVE StreamInv'
<1> USE DEF StreamInv
<1>1. srv.cur \in Caps /\ cap[srv.cur].st = "grab" /\ cap \in [Caps -> Capturer] /\ srv.pc = "answer"
  BY DEF TypeOK, InUse, Streaming, GrabDone
<1>2. /\ cap' \in [Caps -> Capturer] /\ cap'[srv.cur].st = "idle"
      /\ cap'[srv.cur].size = cap[srv.cur].size /\ cap'[srv.cur].closing = cap[srv.cur].closing
      /\ \A d \in Caps \ {srv.cur} : cap'[d] = cap[d]
  <2>1. cap' = [cap EXCEPT ![srv.cur].st = "idle"]
    BY DEF GrabDone
  <2> QED
    BY <1>1, <2>1, StateFacts
<1>3. PICK frame \in Frames :
        /\ frame.size = cap[srv.cur].size
        /\ \A t \in 1..frame.size : frame.pix[t] \in Colours
        /\ srv' = [srv EXCEPT !.pc = IF ChangedTiles(srv.prev, frame) = {} THEN "select" ELSE "send",
                              !.prev = frame, !.send = ChangedTiles(srv.prev, frame)]
  BY GrabFrame
<1> DEFINE changed == ChangedTiles(srv.prev, frame)
<1>4. changed \subseteq 1..frame.size /\ frame.size \in Sizes /\ 1..frame.size \subseteq Tiles
  BY <1>1, <1>3, ChangedFacts, SizeFacts DEF TypeOK
<1> HIDE DEF changed
<1>5. srv' = [srv EXCEPT !.pc = IF changed = {} THEN "select" ELSE "send",
                         !.prev = frame, !.send = changed]
  BY <1>3 DEF changed
<1>6. UNCHANGED <<guest, rdr, conn, out, cli, seen>>
  BY DEF GrabDone
<1>7. TypeOK'
  <2>1. \A d \in Caps : cap'[d].st # "unused" => cap'[d].size \in Sizes
    BY <1>1, <1>2 DEF TypeOK
  <2> QED
    BY <1>2, <1>4, <1>5, <1>6, <2>1 DEF TypeOK
<1>8. Sent' /\ InUse'
  BY <1>1, <1>2, <1>5, <1>6 DEF TypeOK, Sent, InUse, Streaming
<1>9. srv'.send = changed /\ srv'.prev = frame /\ srv'.pc = (IF changed = {} THEN "select" ELSE "send")
       /\ srv'.cur = srv.cur
  BY <1>5 DEF TypeOK
<1>10. Compared'
  BY <1>1, <1>2, <1>3, <1>4, <1>9 DEF Compared, Streaming
<1> QED
  BY <1>7, <1>8, <1>10

-----------------------------------------------------------------------------

\* A message is written, or lost on a browser that is gone.
LEMMA WriteFacts ==
  ASSUME Sent, Len(out) <= MaxQueue, NEW m \in Messages, Write(m)
  PROVE  /\ out' \in Seq(Messages) /\ Len(out') <= MaxQueue
         /\ cli.open => /\ Len(out') = Len(out) + 1 /\ out'[Len(out) + 1] = m
                        /\ \A i \in 1..Len(out) : out'[i] = out[i]
<1>1. out \in Seq(Messages) /\ Len(out) \in Nat /\ MaxQueue \in Nat
  BY QueueAssumption DEF Sent
<1>2. CASE cli.open /\ Len(out) < MaxQueue /\ out' = Append(out, m)
  BY <1>1, <1>2, AppendProperties
<1>3. CASE ~cli.open /\ out' = out
  BY <1>1, <1>3
<1> QED
  BY <1>2, <1>3 DEF Write

\* The messages of the handler.
LEMMA AnnounceFacts ==
  ASSUME StreamInv, Announce
  PROVE  /\ srv.cur \in Caps /\ cap[srv.cur].size \in Sizes
         /\ [type |-> "resolution", size |-> cap[srv.cur].size, tiles |-> <<>>] \in Messages
  BY DEF StreamInv, TypeOK, InUse, Streaming, Announce, Messages

LEMMA SendFacts ==
  ASSUME StreamInv, Send, NEW tiles, tiles = [t \in srv.send |-> srv.prev.pix[t]]
  PROVE  /\ srv.prev.size \in Sizes /\ srv.send \subseteq 1..srv.prev.size
         /\ [type |-> "tiles", size |-> srv.prev.size, tiles |-> tiles] \in Messages
<1>1. srv.prev # NoFrame
  BY DEF StreamInv, Compared, Send, NoFrame
<1>2. srv.prev.size \in Sizes /\ srv.send \subseteq 1..srv.prev.size
  BY <1>1, FrameFacts DEF StreamInv, TypeOK, Compared
<1>3. tiles \in [srv.send -> Colours]
  BY <1>2 DEF StreamInv, Compared
<1>4. tiles \in Jobs
  BY <1>3 DEF Jobs, StreamInv, TypeOK
<1> QED
  BY <1>2, <1>4 DEF Messages

LEMMA WritesInv ==
  ASSUME StreamInv, Announce \/ Send
  PROVE  StreamInv'
<1> USE DEF StreamInv
<1>1. CASE Announce
  <2> DEFINE m == [type |-> "resolution", size |-> cap[srv.cur].size, tiles |-> <<>>]
  <2>1. m \in Messages /\ Write(m)
    BY <1>1, AnnounceFacts DEF Announce
  <2> HIDE DEF m
  <2>2. out' \in Seq(Messages) /\ Len(out') <= MaxQueue
    BY <2>1, WriteFacts DEF TypeOK
  <2>3. TypeOK'
    BY <1>1, <2>2 DEF TypeOK, Announce
  <2>4. Sent' /\ InUse' /\ Compared'
    BY <1>1, <2>2 DEF TypeOK, Sent, InUse, Compared, Streaming, Announce
  <2> QED
    BY <2>3, <2>4
<1>2. CASE Send
  <2> DEFINE tiles == [t \in srv.send |-> srv.prev.pix[t]]
             m     == [type |-> "tiles", size |-> srv.prev.size, tiles |-> tiles]
  <2>1. m \in Messages /\ Write(m)
    BY <1>2, SendFacts DEF Send
  <2> HIDE DEF m
  <2>2. out' \in Seq(Messages) /\ Len(out') <= MaxQueue
    BY <2>1, WriteFacts DEF TypeOK
  <2>3. TypeOK'
    BY <1>2, <2>2 DEF TypeOK, Send
  <2>4. Sent' /\ InUse' /\ Compared'
    BY <1>2, <2>2 DEF TypeOK, Sent, InUse, Compared, Streaming, Send
  <2> QED
    BY <2>3, <2>4
<1> QED
  BY <1>1, <1>2

-----------------------------------------------------------------------------

\* The first message, and those behind it.
LEMMA HeadFacts ==
  ASSUME Sent, Len(out) <= MaxQueue, out # <<>>, out' = Tail(out)
  PROVE  /\ Len(out) \in Nat \ {0} /\ Head(out) = out[1] /\ out[1] \in Messages
         /\ out' \in Seq(Messages) /\ Len(out') = Len(out) - 1 /\ Len(out') <= MaxQueue
         /\ \A i \in 1..Len(out') : out'[i] = out[i + 1]
  BY HeadTailProperties, QueueAssumption DEF Sent

LEMMA MessageFacts ==
  ASSUME NEW m \in Messages
  PROVE  \/ m.type = "resolution" /\ m.size \in Sizes
         \/ m.type = "tiles" /\ m.tiles \in Jobs
  BY DEF Messages

LEMMA ClearedFacts ==
  ASSUME NEW s \in Sizes
  PROVE  Cleared(s) \in Frames /\ Cleared(s).size = s
  BY DEF Cleared, Frames

\* What a message changes in the browser.
LEMMA MessageMoves ==
  ASSUME StreamInv, Message
  PROVE  /\ cli' \in [open : BOOLEAN, canvas : Frames \cup {NoFrame}, jobs : Seq(Jobs)]
         /\ cli'.open = cli.open
         /\ \/ /\ out[1].type = "resolution"
               /\ cli'.canvas.size = out[1].size /\ cli'.jobs = cli.jobs
            \/ /\ out[1].type = "tiles"
               /\ cli'.canvas = cli.canvas /\ cli'.jobs = Append(cli.jobs, out[1].tiles)
<1>1. Head(out) = out[1] /\ out[1] \in Messages
  BY HeadFacts DEF StreamInv, TypeOK, Message
<1>2. cli \in [open : BOOLEAN, canvas : Frames \cup {NoFrame}, jobs : Seq(Jobs)]
  BY DEF StreamInv, Sent
<1>3. CASE out[1].type = "resolution"
  <2>1. cli' = [cli EXCEPT !.canvas = Cleared(out[1].size)]
    BY <1>1, <1>3 DEF Message
  <2>2. out[1].size \in Sizes
    BY <1>1, <1>3, MessageFacts
  <2>3. Cleared(out[1].size) \in Frames /\ Cleared(out[1].size).size = out[1].size
    BY <2>2, ClearedFacts
  <2> QED
    BY <1>2, <1>3, <2>1, <2>3
<1>4. CASE out[1].type # "resolution"
  <2>1. out[1].type = "tiles" /\ out[1].tiles \in Jobs
    BY <1>1, <1>4, MessageFacts
  <2>2. cli' = [cli EXCEPT !.jobs = Append(cli.jobs, out[1].tiles)]
    BY <1>1, <1>4 DEF Message
  <2>3. Append(cli.jobs, out[1].tiles) \in Seq(Jobs)
    BY <1>2, <2>1, AppendProperties
  <2> QED
    BY <1>2, <2>1, <2>2, <2>3
<1> QED
  BY <1>3, <1>4

LEMMA MessageInv ==
  ASSUME StreamInv, Message
  PROVE  StreamInv'
<1>1. out' \in Seq(Messages) /\ Len(out') <= MaxQueue
  BY HeadFacts DEF StreamInv, TypeOK, Message
<1>2. cli' \in [open : BOOLEAN, canvas : Frames \cup {NoFrame}, jobs : Seq(Jobs)]
  BY MessageMoves
<1>3. UNCHANGED <<guest, cap, srv, rdr, conn, seen>>
  BY DEF Message
<1>4. TypeOK'
  BY <1>1, <1>2, <1>3 DEF StreamInv, TypeOK
<1>5. Sent' /\ InUse' /\ Compared'
  BY <1>1, <1>2, <1>3 DEF StreamInv, Sent, InUse, Compared
<1> QED
  BY <1>4, <1>5 DEF StreamInv

\* What the painting of a tile changes.
LEMMA PaintMoves ==
  ASSUME StreamInv, NEW i \in DOMAIN cli.jobs, NEW t \in Tiles, Paint(i, t)
  PROVE  /\ i \in 1..Len(cli.jobs) /\ cli.jobs[i] \in Jobs /\ t \in DOMAIN cli.jobs[i]
         /\ cli' \in [open : BOOLEAN, canvas : Frames \cup {NoFrame}, jobs : Seq(Jobs)]
         /\ cli'.open = cli.open /\ cli'.canvas.size = cli.canvas.size
         /\ t <= cli.canvas.size => cli'.canvas.pix[t] = cli.jobs[i][t]
         /\ \A u \in 1..cli.canvas.size : u # t => cli'.canvas.pix[u] = cli.canvas.pix[u]
         /\ LET rest == [u \in DOMAIN cli.jobs[i] \ {t} |-> cli.jobs[i][u]]
            IN cli'.jobs = IF DOMAIN rest = {} THEN RemoveAt(cli.jobs, i)
                           ELSE [cli.jobs EXCEPT ![i] = rest]
<1> DEFINE job  == cli.jobs[i]
           rest == [u \in DOMAIN job \ {t} |-> job[u]]
           canvas == IF t <= cli.canvas.size
                     THEN [cli.canvas EXCEPT !.pix[t] = job[t]] ELSE cli.canvas
           jobs == IF DOMAIN rest = {} THEN RemoveAt(cli.jobs, i) ELSE [cli.jobs EXCEPT ![i] = rest]
<1>1. cli \in [open : BOOLEAN, canvas : Frames \cup {NoFrame}, jobs : Seq(Jobs)]
  BY DEF StreamInv, Sent
<1>2. i \in 1..Len(cli.jobs) /\ job \in Jobs
  BY <1>1
<1>3. t \in DOMAIN job /\ job[t] \in Colours /\ cli' = [cli EXCEPT !.canvas = canvas, !.jobs = jobs]
  BY <1>2 DEF Paint, Jobs
<1>4. rest \in Jobs
  <2>1. PICK d \in SUBSET Tiles : job \in [d -> Colours]
    BY <1>2 DEF Jobs
  <2>2. d \ {t} \in SUBSET Tiles /\ rest \in [d \ {t} -> Colours]
    BY <2>1
  <2> HIDE DEF rest
  <2> QED
    BY <2>2 DEF Jobs
<1>5. jobs \in Seq(Jobs)
  <2>1. RemoveAt(cli.jobs, i) \in Seq(Jobs)
    BY <1>1, <1>2, SubSeqProperties, ConcatProperties DEF RemoveAt
  <2>2. [cli.jobs EXCEPT ![i] = rest] \in Seq(Jobs)
    BY <1>1, <1>2, <1>4, ExceptSeq
  <2> QED
    BY <2>1, <2>2
<1>6. /\ canvas \in Frames \cup {NoFrame} /\ canvas.size = cli.canvas.size
      /\ t <= cli.canvas.size => canvas.pix[t] = job[t]
      /\ \A u \in 1..cli.canvas.size : u # t => canvas.pix[u] = cli.canvas.pix[u]
  <2>1. CASE t <= cli.canvas.size
    <3>1. t \in Nat \ {0} /\ cli.canvas \in Frames \cup {NoFrame}
      BY <1>1, SizesAssumption DEF Tiles
    <3>2. cli.canvas.size \in Sizes
      BY <2>1, <3>1, FrameFacts
    <3>3. t \in 1..cli.canvas.size /\ cli.canvas.pix \in [1..cli.canvas.size -> Colours \cup {Blank}]
      BY <2>1, <3>1, <3>2, FrameFacts, SizeFacts
    <3> DEFINE pix == [cli.canvas.pix EXCEPT ![t] = job[t]]
    <3>4. /\ pix \in [1..cli.canvas.size -> Colours \cup {Blank}] /\ pix[t] = job[t]
          /\ \A u \in 1..cli.canvas.size : u # t => pix[u] = cli.canvas.pix[u]
      BY <1>3, <3>3
    <3>5. canvas = [size |-> cli.canvas.size, pix |-> pix]
      BY <2>1, <3>1, <3>2, FrameFacts, SizeFacts
    <3> HIDE DEF pix
    <3> QED
      BY <3>2, <3>4, <3>5, FrameMade
  <2>2. CASE ~(t <= cli.canvas.size)
    BY <1>1, <2>2
  <2> QED
    BY <2>1, <2>2
<1> HIDE DEF canvas, jobs
<1>7. cli'.canvas = canvas /\ cli'.jobs = jobs /\ cli'.open = cli.open
      /\ cli' \in [open : BOOLEAN, canvas : Frames \cup {NoFrame}, jobs : Seq(Jobs)]
  BY <1>1, <1>3, <1>5, <1>6
<1> QED
  BY <1>2, <1>3, <1>6, <1>7 DEF jobs

LEMMA BrowserInv ==
  ASSUME StreamInv, PaintSome \/ CloseTab
  PROVE  StreamInv'
<1>1. UNCHANGED <<guest, cap, srv, rdr, conn, seen>> /\ (out' = out \/ out' = <<>>)
  BY DEF PaintSome, Paint, CloseTab
<1>2. cli' \in [open : BOOLEAN, canvas : Frames \cup {NoFrame}, jobs : Seq(Jobs)]
  <2>1. CASE PaintSome
    BY <2>1, PaintMoves DEF PaintSome
  <2>2. CASE CloseTab
    BY <2>2 DEF CloseTab
  <2> QED
    BY <2>1, <2>2
<1>3. TypeOK'
  BY <1>1, <1>2, QueueAssumption DEF StreamInv, TypeOK
<1>4. Sent'
  <2>1. out \in Seq(Messages) /\ <<>> \in Seq(Messages)
    BY DEF StreamInv, Sent
  <2> QED
    BY <1>1, <1>2, <2>1 DEF Sent
<1>5. InUse' /\ Compared'
  BY <1>1 DEF StreamInv, InUse, Compared
<1> QED
  BY <1>3, <1>4, <1>5 DEF StreamInv

LEMMA StreamInit == ASSUME Init PROVE StreamInv
<1>1. TypeOK
  <2>1. cap \in [Caps -> Capturer] /\ \A c \in Caps : cap[c].st = "unused"
    BY UnusedFacts DEF Init
  <2>2. guest \in [on : BOOLEAN, size : Sizes, pix : [Tiles -> Colours]]
    BY DEF Init
  <2>3. Len(out) <= MaxQueue
    BY QueueAssumption DEF Init
  <2> QED
    BY <2>1, <2>2, <2>3 DEF Init, TypeOK, NoFrame
<1>2. Sent /\ InUse /\ Compared
  BY DEF Init, Sent, InUse, Compared, Streaming, NoFrame
<1> QED
  BY <1>1, <1>2 DEF StreamInv

LEMMA StreamStep ==
  ASSUME StreamInv, [Next]_vars
  PROVE  StreamInv'
<1>1. CASE UNCHANGED vars
  BY <1>1 DEF vars, StreamInv, TypeOK, Sent, InUse, Compared
<1>2. CASE Handler
  BY <1>2, OpenInv, MovesInv, LeavesInv, CapturersInv, GrabInv, WritesInv DEF Handler
<1>3. CASE Reader \/ Receive
  BY <1>3, MovesInv, CapturersInv, GuestInv DEF Reader
<1>4. CASE TakeDone \/ StartPoll \/ StartGrab
  BY <1>4, MovesInv, LeavesInv
<1>5. CASE \E c \in Caps : ComThread(c)
  BY <1>5, CapturersInv DEF ComThread
<1>6. CASE Message \/ PaintSome \/ CloseTab \/ GuestChanges
  BY <1>6, MessageInv, BrowserInv, GuestInv
<1> QED
  BY <1>1, <1>2, <1>3, <1>4, <1>5, <1>6 DEF Next

-----------------------------------------------------------------------------
(***************************************************************************)
(* The canvas.                                                             *)
(***************************************************************************)

\* The states of the loop after an announcement.
Announced == Streaming \ {"announce", "swap"}

LEMMA EndsUnchanged ==
  ASSUME UNCHANGED <<out, cli>>
  PROVE  /\ \A s : EndSize(s)' <=> EndSize(s)
         /\ \A t, c : EndTile(t, c)' <=> EndTile(t, c)
  BY DEF EndSize, EndTile, Spares

\* A step that sends nothing, paints nothing and grabs nothing.
LEMMA KeepsCanvas ==
  ASSUME Converges, UNCHANGED <<out, cli>>,
         srv'.pc \in Announced => srv.pc \in Announced /\ cap'[srv'.cur].size = cap[srv.cur].size,
         srv'.prev = NoFrame \/ (srv'.prev = srv.prev /\ srv'.send = srv.send)
  PROVE  Converges'
  BY EndsUnchanged DEF Converges, Announced, NoFrame

LEMMA QuietCanvas ==
  ASSUME StreamInv, Converges,
         \/ \E c \in Caps : New(c) \/ Reopen(c) \/ ComCloses(c) \/ Unlocks(c)
         \/ NewFails \/ Upgrade \/ UpgradeFails \/ WriteFails \/ TakeDone \/ StartPoll \/ StartGrab
         \/ Poll \/ PollFails \/ ReopenFails \/ SwapDone \/ GrabTaken \/ GrabFails \/ Closed
         \/ Receive \/ InputTaken \/ InputDone \/ InputRefused \/ HintDone \/ ReadEnds
         \/ GuestChanges
  PROVE  Converges'
<1> USE DEF Announced, Streaming
<1>1. srv.pc \in {"new", "upgrade", "close", "ended"} => srv.prev = NoFrame
  BY DEF StreamInv, Compared
<1>2. CASE UpgradeFails \/ WriteFails \/ TakeDone \/ GrabFails
  <2>1. UNCHANGED <<out, cli>> /\ srv'.pc = "close" /\ srv'.prev = NoFrame
    BY <1>2 DEF UpgradeFails, WriteFails, TakeDone, GrabFails, Leave, StreamInv, TypeOK
  <2> QED
    BY <2>1, KeepsCanvas
<1>3. CASE NewFails \/ Upgrade \/ Closed \/ SwapDone
  <2>1. UNCHANGED <<out, cli>> /\ srv'.pc \in {"ended", "announce"} /\ srv'.prev = NoFrame
    BY <1>1, <1>3 DEF NewFails, Upgrade, Closed, SwapDone, StreamInv, TypeOK
  <2> QED
    BY <2>1, KeepsCanvas
<1>4. ASSUME NEW c \in Caps, New(c) \/ Reopen(c)
      PROVE  Converges'
  <2>1. UNCHANGED <<out, cli>> /\ srv'.pc \in {"upgrade", "swap"}
        /\ srv'.prev = srv.prev /\ srv'.send = srv.send
    BY <1>4 DEF New, Reopen, StreamInv, TypeOK
  <2> QED
    BY <2>1, KeepsCanvas
<1>5. CASE StartPoll \/ StartGrab \/ Poll \/ PollFails \/ ReopenFails
  <2>1. /\ UNCHANGED <<out, cli, cap>> /\ srv.pc \in Announced /\ srv'.cur = srv.cur
        /\ srv'.prev = srv.prev /\ srv'.send = srv.send
    BY <1>5 DEF StartPoll, StartGrab, Poll, PollFails, ReopenFails, Debounce, StreamInv, TypeOK
  <2> QED
    BY <2>1, KeepsCanvas
<1>6. CASE Receive \/ InputRefused \/ HintDone \/ ReadEnds \/ GuestChanges
  <2>1. UNCHANGED <<out, cli, cap, srv>>
    BY <1>6 DEF Receive, InputRefused, HintDone, ReadEnds, GuestChanges
  <2> QED
    BY <2>1, KeepsCanvas
<1>7. CASE GrabTaken \/ InputTaken \/ InputDone
  <2>1. /\ UNCHANGED <<out, cli>> /\ srv'.cur = srv.cur
        /\ srv'.prev = srv.prev /\ srv'.send = srv.send
        /\ srv'.pc = srv.pc \/ srv.pc = "grab"
    BY <1>7 DEF GrabTaken, InputTaken, InputDone, StreamInv, TypeOK
  <2>2. cap \in [Caps -> Capturer]
    BY DEF StreamInv, TypeOK
  <2>3. \A c \in Caps : cap'[c].size = cap[c].size
    <3>1. \E d \in Caps, st \in {"grab", "input", "idle"} : cap' = [cap EXCEPT ![d].st = st]
      BY <1>7 DEF GrabTaken, InputTaken, InputDone, StreamInv, InUse
    <3> QED
      BY <2>2, <3>1, StateFacts
  <2>4. srv.pc \in Announced => srv.cur \in Caps
    BY DEF StreamInv, InUse
  <2> QED
    BY <2>1, <2>3, <2>4, KeepsCanvas
<1>8. ASSUME NEW c \in Caps, ComCloses(c) \/ Unlocks(c)
      PROVE  Converges'
  <2>1. UNCHANGED <<out, cli, srv>>
    BY <1>8 DEF ComCloses, Unlocks
  <2>2. srv.pc \in Announced => srv.cur \in Caps /\ srv.cur # c
    BY <1>8 DEF StreamInv, InUse, ComCloses, Unlocks
  <2>3. \A d \in Caps \ {c} : cap'[d] = cap[d]
    BY <1>8 DEF ComCloses, Unlocks, StreamInv, TypeOK
  <2> QED
    BY <2>1, <2>2, <2>3, KeepsCanvas
<1> QED
  BY <1>2, <1>3, <1>4, <1>5, <1>6, <1>7, <1>8

\* A grab: the tiles that are not to be sent are as the browser will have them.
LEMMA GrabCanvas ==
  ASSUME StreamInv, Converges, GrabDone
  PROVE  Converges'
<1>1. PICK frame \in Frames :
        /\ frame.size = cap[srv.cur].size
        /\ \A t \in 1..frame.size : frame.pix[t] \in Colours
        /\ srv' = [srv EXCEPT !.pc = IF ChangedTiles(srv.prev, frame) = {} THEN "select" ELSE "send",
                              !.prev = frame, !.send = ChangedTiles(srv.prev, frame)]
  BY GrabFrame
<1> DEFINE changed == ChangedTiles(srv.prev, frame)
<1>2. \A t \in (1..frame.size) \ changed : srv.prev.size = frame.size /\ srv.prev.pix[t] = frame.pix[t]
  BY ChangedFacts
<1> HIDE DEF changed
<1>3. srv'.prev = frame /\ srv'.send = changed /\ srv'.cur = srv.cur
  BY <1>1 DEF StreamInv, TypeOK, changed
<1>4. srv.cur \in Caps /\ cap'[srv.cur].size = cap[srv.cur].size /\ frame.size \in Sizes
  <2>1. srv.cur \in Caps /\ cap \in [Caps -> Capturer] /\ cap[srv.cur].st = "grab"
    BY DEF StreamInv, TypeOK, InUse, Streaming, GrabDone
  <2>2. cap' = [cap EXCEPT ![srv.cur].st = "idle"]
    BY DEF GrabDone
  <2> QED
    BY <1>1, <2>1, <2>2, StateFacts DEF StreamInv, TypeOK
<1>5. UNCHANGED <<out, cli>> /\ srv.pc = "answer" /\ srv.send = {}
  BY DEF GrabDone, StreamInv, Compared
<1>6. cli.open => EndSize(frame.size) /\ \A t \in (1..frame.size) \ changed : EndTile(t, frame.pix[t])
  <2> SUFFICES ASSUME cli.open
               PROVE  EndSize(frame.size) /\ \A t \in (1..frame.size) \ changed : EndTile(t, frame.pix[t])
    OBVIOUS
  <2>1. EndSize(frame.size)
    BY <1>1, <1>5 DEF Converges, Streaming
  <2>2. ASSUME NEW t \in (1..frame.size) \ changed PROVE EndTile(t, frame.pix[t])
    <3>1. srv.prev.size = frame.size /\ srv.prev.pix[t] = frame.pix[t]
      BY <1>2
    <3>2. srv.prev # NoFrame
      BY <1>4, <3>1, SizeFacts DEF NoFrame
    <3> QED
      BY <1>5, <3>1, <3>2 DEF Converges
  <2> QED
    BY <2>1, <2>2
<1> QED
  BY <1>1, <1>3, <1>4, <1>5, <1>6, EndsUnchanged DEF Converges

\* A message behind the others decides what it touches and leaves the rest.
LEMMA AppendEnds ==
  ASSUME Sent, NEW m \in Messages, cli' = cli, Len(out') = Len(out) + 1,
         out'[Len(out) + 1] = m, \A i \in 1..Len(out) : out'[i] = out[i]
  PROVE  /\ m.type = "resolution" => EndSize(m.size)'
         /\ m.type = "tiles" => \A s : EndSize(s) => EndSize(s)'
         /\ m.type = "tiles" => \A t : t \in DOMAIN m.tiles => EndTile(t, m.tiles[t])'
         /\ m.type = "tiles" => \A t, c : t \notin DOMAIN m.tiles /\ EndTile(t, c) => EndTile(t, c)'
<1>1. Len(out) \in Nat
  BY DEF Sent
<1>2. m.type = "resolution" => EndSize(m.size)'
  BY <1>1 DEF EndSize
<1>3. ASSUME m.type = "tiles", NEW s, EndSize(s) PROVE EndSize(s)'
  BY <1>1, <1>3 DEF EndSize
<1>4. ASSUME m.type = "tiles", NEW t, t \in DOMAIN m.tiles PROVE EndTile(t, m.tiles[t])'
  BY <1>1, <1>4 DEF EndTile
<1>5. ASSUME m.type = "tiles", NEW t, NEW c, t \notin DOMAIN m.tiles, EndTile(t, c)
      PROVE  EndTile(t, c)'
  <2>1. Spares(m, t)
    BY <1>5 DEF Spares
  <2>2. ASSUME NEW i \in 1..Len(out),
               out[i].type = "tiles", t \in DOMAIN out[i].tiles, out[i].tiles[t] = c,
               \A j \in i+1..Len(out) : Spares(out[j], t)
        PROVE  EndTile(t, c)'
    <3>1. \A j \in i+1..Len(out') : Spares(out'[j], t)
      BY <1>1, <2>1, <2>2
    <3> QED
      BY <1>1, <2>2, <3>1 DEF EndTile, Spares
  <2>3. ASSUME \A i \in 1..Len(out) : Spares(out[i], t)
        PROVE  \A i \in 1..Len(out') : Spares(out'[i], t)
    BY <1>1, <2>1, <2>3
  <2> QED
    BY <1>5, <2>2, <2>3 DEF EndTile, Spares
<1> QED
  BY <1>2, <1>3, <1>4, <1>5

LEMMA WriteCanvas ==
  ASSUME StreamInv, Converges, Announce \/ Send
  PROVE  Converges'
<1> SUFFICES ASSUME cli'.open PROVE Converges'
  BY DEF Converges
<1>1. CASE Announce
  <2>1. PICK size : size = cap[srv.cur].size
    OBVIOUS
  <2>2. PICK m : m = [type |-> "resolution", size |-> size, tiles |-> <<>>]
    OBVIOUS
  <2>3. /\ m \in Messages /\ Write(m) /\ cli' = cli /\ cap' = cap
        /\ m.type = "resolution" /\ m.size = size
    BY <1>1, <2>1, <2>2, AnnounceFacts DEF Announce
  <2>4. EndSize(size)'
    BY <2>3, WriteFacts, AppendEnds DEF StreamInv, TypeOK
  <2>5. srv'.cur = srv.cur /\ srv'.prev = NoFrame
    BY <1>1 DEF Announce, StreamInv, TypeOK, Compared, Streaming
  <2>6. Len(cli'.jobs) <= 1
    BY <2>3 DEF Converges
  <2> QED
    BY <2>1, <2>3, <2>4, <2>5, <2>6 DEF Converges
<1>2. CASE Send
  <2>1. PICK tiles : tiles = [t \in srv.send |-> srv.prev.pix[t]]
    OBVIOUS
  <2>2. PICK m : m = [type |-> "tiles", size |-> srv.prev.size, tiles |-> tiles]
    OBVIOUS
  <2>3. PICK send, prev, size : send = srv.send /\ prev = srv.prev /\ size = cap[srv.cur].size
    OBVIOUS
  <2>4. m \in Messages /\ Write(m) /\ m.type = "tiles" /\ m.tiles = tiles /\ cli' = cli /\ cap' = cap
    BY <1>2, <2>1, <2>2, SendFacts DEF Send
  <2>5. DOMAIN tiles = send /\ \A t \in send : tiles[t] = prev.pix[t]
    BY <2>1, <2>3
  <2>6. /\ \A s : EndSize(s) => EndSize(s)'
        /\ \A t \in send : EndTile(t, tiles[t])'
        /\ \A t, c : t \notin send /\ EndTile(t, c) => EndTile(t, c)'
    BY <2>4, <2>5, WriteFacts, AppendEnds DEF StreamInv, TypeOK
  <2>7. srv'.cur = srv.cur /\ srv'.prev = prev /\ srv'.send = {} /\ srv.pc = "send"
    BY <1>2, <2>3 DEF Send, StreamInv, TypeOK
  <2>8. Len(cli'.jobs) <= 1 /\ EndSize(size)'
    BY <2>3, <2>4, <2>6, <2>7 DEF Converges, Streaming
  <2>9. ASSUME prev # NoFrame PROVE EndSize(prev.size)'
    BY <2>3, <2>4, <2>6, <2>9 DEF Converges
  <2>10. ASSUME prev # NoFrame, NEW t \in 1..prev.size PROVE EndTile(t, prev.pix[t])'
    <3>1. CASE t \in send
      BY <2>5, <2>6, <3>1
    <3>2. CASE t \notin send
      BY <2>3, <2>4, <2>6, <2>10, <3>2 DEF Converges
    <3> QED
      BY <3>1, <3>2
  <2> QED
    BY <2>3, <2>4, <2>7, <2>8, <2>9, <2>10 DEF Converges
<1> QED
  BY <1>1, <1>2

\* A message that the browser handles was counted with.
LEMMA MessageCanvas ==
  ASSUME StreamInv, Converges, ~SlowDecode, Message
  PROVE  Converges'
<1>1. /\ Len(out) \in Nat \ {0} /\ Len(out') = Len(out) - 1 /\ out[1] \in Messages
      /\ \A i \in 1..Len(out') : out'[i] = out[i + 1]
  BY HeadFacts DEF StreamInv, TypeOK, Message
<1>2. cli.jobs = <<>> /\ cli.open /\ UNCHANGED <<cap, srv>>
  BY DEF Message
<1>3. \/ /\ out[1].type = "resolution"
         /\ cli'.canvas.size = out[1].size /\ cli'.jobs = <<>> /\ Len(cli'.jobs) = 0
      \/ /\ out[1].type = "tiles" /\ cli'.canvas = cli.canvas
         /\ cli'.jobs # <<>> /\ Len(cli'.jobs) = 1 /\ cli'.jobs[1] = out[1].tiles
  <2>1. PICK job : job = out[1].tiles
    OBVIOUS
  <2>2. Append(<<>>, job) # <<>> /\ Len(Append(<<>>, job)) = 1 /\ Append(<<>>, job)[1] = job
    OBVIOUS
  <2>3. Len(<<>>) = 0
    OBVIOUS
  <2> QED
    BY <1>2, <2>1, <2>2, <2>3, MessageMoves
<1>4. cli'.jobs # <<>> => out[1].type = "tiles" /\ cli'.jobs[1] = out[1].tiles
  BY <1>3
<1>5. ASSUME NEW s, EndSize(s) PROVE EndSize(s)'
  <2>1. CASE \A i \in 1..Len(out) : out[i].type # "resolution"
    BY <1>1, <1>3, <1>5, <2>1 DEF EndSize
  <2>2. ASSUME NEW i \in 1..Len(out), out[i].type = "resolution", out[i].size = s,
               \A j \in i+1..Len(out) : out[j].type # "resolution"
        PROVE  EndSize(s)'
    <3>1. \A j \in i..Len(out') : out'[j].type # "resolution"
      BY <1>1, <2>2
    <3>2. CASE i = 1
      BY <1>1, <1>3, <2>2, <3>1, <3>2 DEF EndSize
    <3>3. CASE i # 1
      <4>1. i - 1 \in 1..Len(out') /\ out'[i - 1] = out[i] /\ (i - 1) + 1 = i
        BY <1>1, <3>3
      <4> QED
        BY <2>2, <3>1, <4>1 DEF EndSize
    <3> QED
      BY <3>2, <3>3
  <2> QED
    BY <1>5, <2>1, <2>2 DEF EndSize
<1>6. ASSUME NEW t, NEW c, EndTile(t, c) PROVE EndTile(t, c)'
  <2>1. ASSUME \A i \in 1..Len(out) : Spares(out[i], t),
               t <= cli.canvas.size /\ cli.canvas.pix[t] = c
        PROVE  EndTile(t, c)'
    <3>1. \A i \in 1..Len(out') : Spares(out'[i], t)
      BY <1>1, <2>1
    <3>2. Spares(out[1], t)
      BY <1>1, <2>1
    <3> QED
      BY <1>3, <2>1, <3>1, <3>2 DEF EndTile, Spares
  <2>2. ASSUME NEW i \in 1..Len(out),
               out[i].type = "tiles", t \in DOMAIN out[i].tiles, out[i].tiles[t] = c,
               \A j \in i+1..Len(out) : Spares(out[j], t)
        PROVE  EndTile(t, c)'
    <3>1. \A j \in i..Len(out') : Spares(out'[j], t)
      BY <1>1, <2>2
    <3>2. CASE i = 1
      BY <1>1, <1>3, <2>2, <3>1, <3>2 DEF EndTile, Spares
    <3>3. CASE i # 1
      <4>1. i - 1 \in 1..Len(out') /\ out'[i - 1] = out[i] /\ (i - 1) + 1 = i
        BY <1>1, <3>3
      <4> QED
        BY <2>2, <3>1, <4>1 DEF EndTile, Spares
    <3> QED
      BY <3>2, <3>3
  <2> QED
    BY <1>2, <1>6, <2>1, <2>2 DEF EndTile
<1>7. Len(cli'.jobs) <= 1
  <2>1. Len(cli'.jobs) \in {0, 1}
    BY <1>3
  <2>2. \A n \in {0, 1} : n <= 1
    OBVIOUS
  <2> QED
    BY <2>1, <2>2, Zenon
<1> QED
  BY <1>2, <1>5, <1>6, <1>7 DEF Converges

\* A tile that is drawn was counted with.
LEMMA PaintCanvas ==
  ASSUME StreamInv, Converges, PaintSome
  PROVE  Converges'
<1>1. PICK i \in DOMAIN cli.jobs, t \in Tiles : Paint(i, t)
  BY DEF PaintSome
<1>2. UNCHANGED <<out, cap, srv>>
  BY <1>1 DEF Paint
<1>3. cli.jobs \in Seq(Jobs)
  BY DEF StreamInv, Sent
<1>4. CASE ~cli.open
  <2>1. ~cli'.open
    BY <1>1, <1>4, PaintMoves
  <2> QED
    BY <2>1 DEF Converges
<1>5. CASE cli.open
  <2>1. i = 1 /\ Len(cli.jobs) = 1 /\ cli.jobs # <<>>
    <3>1. i \in 1..Len(cli.jobs) /\ Len(cli.jobs) \in Nat
      BY <1>3
    <3>2. Len(cli.jobs) <= 1
      BY <1>5 DEF Converges
    <3>0. \A n \in Nat : n <= 1 => \A k \in 1..n : k = 1 /\ n = 1
      OBVIOUS
    <3>3. i = 1 /\ Len(cli.jobs) = 1
      BY <3>1, <3>2, <3>0, Zenon
    <3>4. cli.jobs # <<>>
      BY <1>3, <3>3
    <3> QED
      BY <3>3, <3>4
  <2> DEFINE job  == cli.jobs[1]
             rest == [u \in DOMAIN job \ {t} |-> job[u]]
  <2>2. /\ t \in DOMAIN job /\ cli'.canvas.size = cli.canvas.size
        /\ t <= cli.canvas.size => cli'.canvas.pix[t] = job[t]
        /\ \A u \in 1..cli.canvas.size : u # t => cli'.canvas.pix[u] = cli.canvas.pix[u]
        /\ cli'.jobs = IF DOMAIN rest = {} THEN RemoveAt(cli.jobs, 1) ELSE [cli.jobs EXCEPT ![1] = rest]
    BY <1>1, <2>1, PaintMoves
  <2>3. DOMAIN rest = DOMAIN job \ {t} /\ \A u \in DOMAIN job \ {t} : rest[u] = job[u]
    OBVIOUS
  <2> HIDE DEF rest
  <2>4. \/ DOMAIN job = {t} /\ cli'.jobs = <<>> /\ Len(cli'.jobs) = 0
        \/ DOMAIN job # {t} /\ cli'.jobs # <<>> /\ Len(cli'.jobs) = 1 /\ cli'.jobs[1] = rest
    <3>1. RemoveAt(cli.jobs, 1) = <<>> /\ Len(<<>>) = 0
      BY <1>3, <2>1 DEF RemoveAt
    <3>2. /\ [cli.jobs EXCEPT ![1] = rest] # <<>> /\ Len([cli.jobs EXCEPT ![1] = rest]) = 1
          /\ [cli.jobs EXCEPT ![1] = rest][1] = rest
      BY <1>3, <2>1
    <3> QED
      BY <2>2, <2>3, <3>1, <3>2
  <2>5. ASSUME NEW s, EndSize(s) PROVE EndSize(s)'
    BY <1>2, <2>2, <2>5 DEF EndSize
  <2>6. ASSUME NEW s \in Nat, EndSize(s), NEW u \in 1..s, NEW c, EndTile(u, c)
        PROVE  EndTile(u, c)'
    <3>1. CASE \E k \in 1..Len(out) :
                 /\ out[k].type = "tiles" /\ u \in DOMAIN out[k].tiles /\ out[k].tiles[u] = c
                 /\ \A j \in k+1..Len(out) : Spares(out[j], u)
      BY <1>2, <3>1 DEF EndTile
    <3>2. CASE /\ \A k \in 1..Len(out) : Spares(out[k], u)
               /\ u \in DOMAIN job /\ job[u] = c
      <4>1. cli.canvas.size = s
        BY <2>6, <3>2 DEF EndSize, Spares
      <4>2. CASE u = t
        BY <1>2, <2>2, <2>3, <2>4, <2>6, <3>2, <4>1, <4>2 DEF EndTile
      <4>3. CASE u # t
        BY <1>2, <2>3, <2>4, <3>2, <4>3 DEF EndTile
      <4> QED
        BY <4>2, <4>3
    <3>3. CASE /\ \A k \in 1..Len(out) : Spares(out[k], u)
               /\ u \notin DOMAIN job /\ u <= cli.canvas.size /\ cli.canvas.pix[u] = c
      <4>1. cli.canvas.size = s /\ u # t
        BY <2>2, <2>6, <3>3 DEF EndSize, Spares
      <4>2. cli'.canvas.pix[u] = c /\ u <= cli'.canvas.size
        BY <2>2, <2>6, <3>3, <4>1
      <4>3. cli'.jobs # <<>> => u \notin DOMAIN cli'.jobs[1]
        BY <2>3, <2>4, <3>3
      <4> QED
        BY <1>2, <3>3, <4>2, <4>3 DEF EndTile
    <3> QED
      BY <2>1, <2>6, <3>1, <3>2, <3>3 DEF EndTile
  <2>7. srv.prev.size \in Nat
    BY FrameFacts, SizeFacts DEF StreamInv, TypeOK
  <2>8. Len(cli'.jobs) <= 1
    <3>1. Len(cli'.jobs) \in {0, 1}
      BY <2>4
    <3>2. \A n \in {0, 1} : n <= 1
      OBVIOUS
    <3> QED
      BY <3>1, <3>2, Zenon
  <2> QED
    BY <1>2, <1>5, <2>5, <2>6, <2>7, <2>8 DEF Converges
<1> QED
  BY <1>4, <1>5

LEMMA CanvasStep ==
  ASSUME ~SlowDecode, StreamInv, Converges, [Next]_vars
  PROVE  Converges'
<1>1. CASE UNCHANGED vars
  BY <1>1, EndsUnchanged DEF vars, Converges
<1>2. CASE Handler
  BY <1>2, QuietCanvas, GrabCanvas, WriteCanvas DEF Handler
<1>3. CASE Reader \/ Receive \/ TakeDone \/ StartPoll \/ StartGrab \/ GuestChanges
  BY <1>3, QuietCanvas DEF Reader
<1>4. CASE \E c \in Caps : ComThread(c)
  BY <1>4, QuietCanvas DEF ComThread
<1>5. CASE Message \/ PaintSome
  BY <1>5, MessageCanvas, PaintCanvas
<1>6. CASE CloseTab
  BY <1>6 DEF CloseTab, Converges
<1> QED
  BY <1>1, <1>2, <1>3, <1>4, <1>5, <1>6 DEF Next

\* Two functions that agree everywhere are one.
LEMMA SameFunction ==
  ASSUME NEW D, NEW A, NEW f \in [D -> A], NEW g \in [D -> A], \A t \in D : f[t] = g[t]
  PROVE  f = g
  OBVIOUS

\* A canvas that has everything is the last frame.
LEMMA ConvergedIsCurrent ==
  ASSUME StreamInv, Converges
  PROVE  CanvasIsCurrent
<1> SUFFICES ASSUME cli.open, out = <<>>, cli.jobs = <<>>, srv.pc # "send", srv.prev # NoFrame
             PROVE  cli.canvas = srv.prev
  BY DEF CanvasIsCurrent
<1>1. srv.send = {}
  BY DEF StreamInv, Compared
<1>2. cli.canvas.size = srv.prev.size
  BY DEF Converges, EndSize
<1>3. \A t \in 1..srv.prev.size : cli.canvas.pix[t] = srv.prev.pix[t]
  BY <1>1 DEF Converges, EndTile
<1>4. srv.prev \in Frames \cup {NoFrame} /\ cli.canvas \in Frames \cup {NoFrame}
  BY DEF StreamInv, TypeOK
<1>5. /\ srv.prev.size # 0
      /\ srv.prev = [size |-> srv.prev.size, pix |-> srv.prev.pix]
      /\ srv.prev.pix \in [1..srv.prev.size -> Colours \cup {Blank}]
      /\ cli.canvas = [size |-> cli.canvas.size, pix |-> cli.canvas.pix]
      /\ cli.canvas.pix \in [1..cli.canvas.size -> Colours \cup {Blank}]
  BY <1>2, <1>4, FrameFacts
<1>6. cli.canvas.pix = srv.prev.pix
  <2> DEFINE D == 1..srv.prev.size
             A == Colours \cup {Blank}
             f == cli.canvas.pix
             g == srv.prev.pix
  <2>1. f \in [D -> A] /\ g \in [D -> A]
    BY <1>2, <1>5
  <2>2. \A t \in D : f[t] = g[t]
    BY <1>3
  <2>3. f = g
    <3> HIDE DEF D, A, f, g
    <3> QED
      BY <2>1, <2>2, SameFunction
  <2> QED
    BY <2>3
<1> QED
  BY <1>2, <1>5, <1>6

-----------------------------------------------------------------------------

\* The stream stays well typed, and the queue of the socket never holds more than
\* it has room for.
THEOREM ScreenTyped == Spec => []TypeOK
<1>1. Init => StreamInv
  BY StreamInit
<1>2. StreamInv /\ [Next]_vars => StreamInv'
  BY StreamStep
<1>3. StreamInv => TypeOK
  BY DEF StreamInv
<1> QED
  BY <1>1, <1>2, <1>3, PTL DEF Spec

\* A browser that finishes painting a message before it reads the next shows the
\* last frame whenever nothing is on its way (screenstream.go:346-364): no tile
\* that changed is skipped, and a change of resolution loses none.
THEOREM CanvasStaysCurrent ==
  ASSUME ~SlowDecode
  PROVE  Spec => []CanvasIsCurrent
<1>1. Init => StreamInv /\ Converges
  <2>1. ASSUME Init PROVE Converges
    BY <2>1 DEF Init, Converges, Streaming
  <2> QED
    BY <2>1, StreamInit
<1>2. StreamInv /\ Converges /\ [Next]_vars => (StreamInv /\ Converges)'
  BY StreamStep, CanvasStep
<1>3. StreamInv /\ Converges => CanvasIsCurrent
  BY ConvergedIsCurrent
<1> QED
  BY <1>1, <1>2, <1>3, PTL DEF Spec

=============================================================================
