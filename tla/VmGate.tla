-------------------------------- MODULE VmGate --------------------------------
(***************************************************************************)
(* The two gates every VBoxManage invocation of the agent passes through   *)
(* (internal/vbox/gate.go, internal/runner/runner.go):                     *)
(*                                                                         *)
(*   - one 1-slot channel per VM id, made on first use by chanFor under    *)
(*     the mutex of vmLocker, so that commands for the same machine run    *)
(*     one at a time;                                                      *)
(*   - one channel of maxConcurrentVBox slots shared by all commands.      *)
(*                                                                         *)
(* A "call" is a goroutine inside runForVM or exec.  Calls are reused: one *)
(* that has returned may be made again for any VM.  NoVm is the target of  *)
(* a call that goes straight to exec (host queries and the bulk reads).    *)
(*                                                                         *)
(* A buffered channel used as a semaphore is its number of tokens: sending *)
(* adds one and blocks when full, receiving removes one, whichever it is.  *)
(***************************************************************************)
EXTENDS Integers, Sequences, FiniteSets

CONSTANTS
  Calls,               \* the goroutines that may be running a command
  Vms,                 \* VM ids
  NoVm,                \* the empty vmID
  MaxConcurrentVBox    \* capacity of vboxSlots

ASSUME CallsAssumption == IsFiniteSet(Calls)
ASSUME NoVmAssumption  == NoVm \notin Vms
ASSUME CapAssumption   == MaxConcurrentVBox \in Nat \ {0}

VARIABLES
  mu,          \* vmLocker.mu: the calls inside its critical section
  locks,       \* vmLocker.locks: VM id -> index of its channel, 0 when absent
  sems,        \* the per-VM channels made so far, as their token counts
  vboxSlots,   \* tokens in the global channel
  pc,          \* where each call is
  target,      \* the vmID a call was made with
  ch,          \* the channel chanFor found or made for the call, 0 for none
  cancelled    \* the call's ctx is done

vars == <<mu, locks, sems, vboxSlots, pc, target, ch, cancelled>>

\* idle       not inside the gate
\* lookup     chanFor: l.mu.Lock() is next
\* insert     chanFor: the mutex is held, the map has been read
\* waitVm     runForVM: select on the per-VM channel
\* waitSlot   acquireSlot: select on vboxSlots
\* starting   slot held, RunContext has not started the process yet
\* running    the VBoxManage process exists
\* unslot     RunContext has returned, the deferred <-vboxSlots is next
\* unlock     the deferred <-ch is next
Pc == {"idle", "lookup", "insert", "waitVm", "waitSlot", "starting", "running",
       "unslot", "unlock"}

-----------------------------------------------------------------------------

Gated(c) == target[c] # NoVm

\* The call owns a token of its VM's channel.
HoldsVm(c) ==
  /\ Gated(c)
  /\ pc[c] \in {"waitSlot", "starting", "running", "unslot", "unlock"}

\* The call owns a token of vboxSlots.
HoldsSlot(c) == pc[c] \in {"starting", "running", "unslot"}

SlotHolders == {c \in Calls : HoldsSlot(c)}

\* The calls whose VBoxManage process exists.
Live == {c \in Calls : pc[c] = "running"}

\* Mutant: runForVM without its deferred <-ch.
LeaveWithoutUnlock(c) == "idle"

\* Where a call goes once it holds no global slot any more: runForVM still has
\* its per-VM slot to give back, a bare exec has nothing.
Leave(c) == IF Gated(c) THEN "unlock" ELSE "idle"

\* The call goes on at p; once it has returned, what it knew is gone.
GoOn(c, p) ==
  /\ pc' = [pc EXCEPT ![c] = p]
  /\ IF p = "idle"
       THEN /\ target' = [target EXCEPT ![c] = NoVm]
            /\ ch' = [ch EXCEPT ![c] = 0]
            /\ cancelled' = [cancelled EXCEPT ![c] = FALSE]
       ELSE UNCHANGED <<target, ch, cancelled>>

-----------------------------------------------------------------------------

Init ==
  /\ mu = {}
  /\ locks = [v \in Vms |-> 0]
  /\ sems = << >>
  /\ vboxSlots = 0
  /\ pc = [c \in Calls |-> "idle"]
  /\ target = [c \in Calls |-> NoVm]
  /\ ch = [c \in Calls |-> 0]
  /\ cancelled = [c \in Calls |-> FALSE]

\* runForVM with a VM id.
RunForVm(c, v) ==
  /\ pc[c] = "idle"
  /\ target' = [target EXCEPT ![c] = v]
  /\ pc' = [pc EXCEPT ![c] = "lookup"]
  /\ UNCHANGED <<mu, locks, sems, vboxSlots, ch, cancelled>>

\* Mutant: chanFor without its mutex.
LookUpUnlocked(c) ==
  /\ pc[c] = "lookup"
  /\ mu' = mu \cup {c}
  /\ ch' = [ch EXCEPT ![c] = locks[target[c]]]
  /\ pc' = [pc EXCEPT ![c] = "insert"]
  /\ UNCHANGED <<locks, sems, vboxSlots, target, cancelled>>

\* chanFor: take the mutex, look the id up in the map.
LookUp(c) ==
  /\ pc[c] = "lookup"
  /\ mu = {}
  /\ mu' = {c}
  /\ ch' = [ch EXCEPT ![c] = locks[target[c]]]
  /\ pc' = [pc EXCEPT ![c] = "insert"]
  /\ UNCHANGED <<locks, sems, vboxSlots, target, cancelled>>

\* Mutant: chanFor without "if !ok", a fresh channel for every call.
InsertAlways(c) ==
  /\ pc[c] = "insert"
  /\ sems' = Append(sems, 0)
  /\ locks' = [locks EXCEPT ![target[c]] = Len(sems) + 1]
  /\ ch' = [ch EXCEPT ![c] = Len(sems) + 1]
  /\ mu' = mu \ {c}
  /\ pc' = [pc EXCEPT ![c] = "waitVm"]
  /\ UNCHANGED <<vboxSlots, target, cancelled>>

\* chanFor: an id without a channel gets an empty one; the mutex is given back
\* and runForVM waits for the channel's slot.
Insert(c) ==
  /\ pc[c] = "insert"
  /\ IF ch[c] = 0
       THEN /\ sems' = Append(sems, 0)
            /\ locks' = [locks EXCEPT ![target[c]] = Len(sems) + 1]
            /\ ch' = [ch EXCEPT ![c] = Len(sems) + 1]
       ELSE UNCHANGED <<sems, locks, ch>>
  /\ mu' = mu \ {c}
  /\ pc' = [pc EXCEPT ![c] = "waitVm"]
  /\ UNCHANGED <<vboxSlots, target, cancelled>>

\* exec called directly, or through runForVM with an empty id.
Exec(c) ==
  /\ pc[c] = "idle"
  /\ pc' = [pc EXCEPT ![c] = "waitSlot"]
  /\ UNCHANGED <<mu, locks, sems, vboxSlots, target, ch, cancelled>>

\* The client gives up, or the request's deadline passes.
Cancel(c) ==
  /\ pc[c] # "idle"
  /\ ~cancelled[c]
  /\ cancelled' = [cancelled EXCEPT ![c] = TRUE]
  /\ UNCHANGED <<mu, locks, sems, vboxSlots, pc, target, ch>>

\* select, arm "ch <- struct{}{}".  A select with two ready arms takes either,
\* so a cancelled call may still get its slot.
AcquireVm(c) ==
  /\ pc[c] = "waitVm"
  /\ sems[ch[c]] < 1
  /\ sems' = [sems EXCEPT ![ch[c]] = @ + 1]
  /\ pc' = [pc EXCEPT ![c] = "waitSlot"]
  /\ UNCHANGED <<mu, locks, vboxSlots, target, ch, cancelled>>

\* Mutant: runForVM goes on to exec after the ctx.Done() arm.
AbandonVmWaitNoReturn(c) ==
  /\ pc[c] = "waitVm"
  /\ cancelled[c]
  /\ pc' = [pc EXCEPT ![c] = "waitSlot"]
  /\ UNCHANGED <<mu, locks, sems, vboxSlots, target, ch, cancelled>>

\* Mutant: a plain "ch <- struct{}{}" in place of the select.
AbandonVmWaitNever(c) == FALSE

\* select, arm "<-ctx.Done()": return without having taken anything.
AbandonVmWait(c) ==
  /\ pc[c] = "waitVm"
  /\ cancelled[c]
  /\ GoOn(c, "idle")
  /\ UNCHANGED <<mu, locks, sems, vboxSlots>>

\* Mutant: one slot too many in vboxSlots.
AcquireSlotOneMore(c) ==
  /\ pc[c] = "waitSlot"
  /\ vboxSlots <= MaxConcurrentVBox
  /\ vboxSlots' = vboxSlots + 1
  /\ pc' = [pc EXCEPT ![c] = "starting"]
  /\ UNCHANGED <<mu, locks, sems, target, ch, cancelled>>

\* acquireSlot, arm "sem <- struct{}{}".
AcquireSlot(c) ==
  /\ pc[c] = "waitSlot"
  /\ vboxSlots < MaxConcurrentVBox
  /\ vboxSlots' = vboxSlots + 1
  /\ pc' = [pc EXCEPT ![c] = "starting"]
  /\ UNCHANGED <<mu, locks, sems, target, ch, cancelled>>

\* Mutant: acquireSlot waits on the caller's ctx alone.
AbandonSlotWaitNoTimeout(c) ==
  /\ pc[c] = "waitSlot"
  /\ cancelled[c]
  /\ GoOn(c, Leave(c))
  /\ UNCHANGED <<mu, locks, sems, vboxSlots>>

\* acquireSlot, arm "<-waitCtx.Done()": the ctx is done or the command's own
\* timeout has passed, which needs no guard since it may be at any time.
AbandonSlotWait(c) ==
  /\ pc[c] = "waitSlot"
  /\ GoOn(c, Leave(c))
  /\ UNCHANGED <<mu, locks, sems, vboxSlots>>

\* Mutant: a refused start returns past the release of the global slot.
StartCommandLeaks(c) ==
  /\ pc[c] = "starting"
  /\ GoOn(c, IF cancelled[c] THEN Leave(c) ELSE "running")
  /\ UNCHANGED <<mu, locks, sems, vboxSlots>>

\* RunContext: cmd.Start refuses a ctx that is already done.
StartCommand(c) ==
  /\ pc[c] = "starting"
  /\ pc' = [pc EXCEPT ![c] = IF cancelled[c] THEN "unslot" ELSE "running"]
  /\ UNCHANGED <<mu, locks, sems, vboxSlots, target, ch, cancelled>>

\* RunContext returns: the process has exited, or was killed by the timeout.
CommandEnds(c) ==
  /\ pc[c] = "running"
  /\ pc' = [pc EXCEPT ![c] = "unslot"]
  /\ UNCHANGED <<mu, locks, sems, vboxSlots, target, ch, cancelled>>

\* RunContext returns because CommandContext killed the process of a done ctx.
KillCancelled(c) == cancelled[c] /\ CommandEnds(c)

\* exec's deferred <-vboxSlots.
ReleaseSlot(c) ==
  /\ pc[c] = "unslot"
  /\ vboxSlots > 0
  /\ vboxSlots' = vboxSlots - 1
  /\ GoOn(c, Leave(c))
  /\ UNCHANGED <<mu, locks, sems>>

\* runForVM's deferred <-ch.
ReleaseVm(c) ==
  /\ pc[c] = "unlock"
  /\ sems[ch[c]] > 0
  /\ sems' = [sems EXCEPT ![ch[c]] = @ - 1]
  /\ GoOn(c, "idle")
  /\ UNCHANGED <<mu, locks, vboxSlots>>

Next ==
  \E c \in Calls :
    \/ \E v \in Vms : RunForVm(c, v)
    \/ LookUp(c)
    \/ Insert(c)
    \/ Exec(c)
    \/ Cancel(c)
    \/ AcquireVm(c)
    \/ AbandonVmWait(c)
    \/ AcquireSlot(c)
    \/ AbandonSlotWait(c)
    \/ StartCommand(c)
    \/ CommandEnds(c)
    \/ ReleaseSlot(c)
    \/ ReleaseVm(c)

Spec == Init /\ [][Next]_vars

\* Go runs a goroutine that can run, and a sync.Mutex is handed to the goroutine
\* that has waited for it longest once its wait exceeds a bound.
FairSpec ==
  /\ Spec
  /\ \A c \in Calls : /\ SF_vars(LookUp(c))
                      /\ WF_vars(Insert(c))
                      /\ WF_vars(AbandonVmWait(c))
                      /\ WF_vars(StartCommand(c))
                      /\ WF_vars(KillCancelled(c))
                      /\ WF_vars(ReleaseSlot(c))
                      /\ WF_vars(ReleaseVm(c))

\* Every process ends: RunContext puts a timeout on all of them (30s when the
\* caller gives none).  Blocked senders of a Go channel queue in order and are
\* handed the slot a receive frees, hence strong fairness on the acquisitions.
CommandsEnd == \A c \in Calls : WF_vars(CommandEnds(c))
QueuesServe == \A c \in Calls : SF_vars(AcquireVm(c)) /\ SF_vars(AcquireSlot(c))

\* A wait for a slot is ended by its timer or by the caller's context.
TimersFire == \A c \in Calls : WF_vars(AbandonSlotWait(c))

-----------------------------------------------------------------------------

TypeOK ==
  /\ mu \subseteq Calls
  /\ locks \in [Vms -> 0..Len(sems)]
  /\ sems \in Seq({0, 1})
  /\ vboxSlots \in 0..MaxConcurrentVBox
  /\ pc \in [Calls -> Pc]
  /\ target \in [Calls -> Vms \cup {NoVm}]
  /\ ch \in [Calls -> 0..Len(sems)]
  /\ cancelled \in [Calls -> BOOLEAN]

\* Commands for the same VM run one at a time: no two processes that went
\* through runForVM for the same id exist together (vmLocker).
OneCommandPerVm ==
  \A c, d \in Live : Gated(c) /\ target[c] = target[d] => c = d

\* Never more than maxConcurrentVBox VBoxManage processes, whatever they are
\* for (vboxSlots).
CapRespected == Cardinality(Live) <= MaxConcurrentVBox

\* The tokens in the global channel are those of the calls between acquireSlot
\* and the deferred receive.
SlotsCounted == vboxSlots = Cardinality(SlotHolders)

\* A per-VM channel has a token exactly while some call owns it.
TokensOwned ==
  \A i \in 1..Len(sems) :
    sems[i] = 1 <=> \E c \in Calls : HoldsVm(c) /\ ch[c] = i

\* No path out of exec or runForVM (give up, refused start, kill, exit) leaks a
\* slot of either layer or gives one back twice.
NoLeakedSlot == SlotsCounted /\ TokensOwned

\* If commands end, a call that enters the gate comes out, however the other
\* calls interleave and even if no wait for a slot ever times out: the two
\* layers never deadlock and no call starves (gate.go:98).
EveryCallReturns ==
  CommandsEnd /\ QueuesServe => \A c \in Calls : pc[c] # "idle" ~> pc[c] = "idle"

\* A request that gives up comes out even when the commands it waits behind
\* never end (gate.go:93-97): it does not hang behind the previous command.
CancelledCallReturns ==
  TimersFire => \A c \in Calls : cancelled[c] /\ pc[c] # "idle" ~> pc[c] = "idle"

\* A saturated cap is a bounded failure: a call leaves acquireSlot even when no
\* slot is ever released (gate.go:55-60).
SaturatedCapIsLeft ==
  TimersFire => \A c \in Calls : pc[c] = "waitSlot" ~> pc[c] # "waitSlot"

\* Nobody is stuck in the gate: not while commands end, and not when they never
\* do, as long as a waiting call's own context and timer work.
CallsReturn == EveryCallReturns /\ CancelledCallReturns /\ SaturatedCapIsLeft

\* What each existing process is for.
Aim == [c \in Calls |-> IF c \in Live THEN target[c] ELSE NoVm]

\* The gate seen from the outside: only the processes that exist.
Promise == INSTANCE GateSpec WITH active <- Live, aim <- Aim

\* The gate does what GateSpec says: a process for a VM starts only while none
\* exists for it, and no process starts above the cap.
ImplementsPromise == Promise!Spec

-----------------------------------------------------------------------------

(***************************************************************************)
(* The inductive invariant.  Mutual exclusion rests on a chain of facts:   *)
(* distinct VMs have distinct channels, a call holds the channel of its    *)
(* own target, a channel's token has exactly one owner.  What a call read   *)
(* of the map is still so when it inserts, because the mutex is its own.    *)
(***************************************************************************)

MapLocked ==
  /\ mu = {c \in Calls : pc[c] = "insert"}
  /\ \A c, d \in mu : c = d


ChannelsDistinct ==
  \A v, w \in Vms : locks[v] # 0 /\ locks[v] = locks[w] => v = w

ChannelOfTarget ==
  \A c \in Calls :
    /\ pc[c] = "idle" => ~Gated(c)
    /\ pc[c] \in {"lookup", "insert", "waitVm", "unlock"} => Gated(c)
    /\ pc[c] \notin {"idle", "lookup"} /\ Gated(c) => ch[c] = locks[target[c]]
    /\ pc[c] \notin {"idle", "lookup", "insert"} /\ Gated(c) => ch[c] # 0

OneOwner ==
  \A c, d \in Calls : HoldsVm(c) /\ HoldsVm(d) /\ ch[c] = ch[d] => c = d

GateInv ==
  /\ TypeOK /\ MapLocked /\ ChannelsDistinct /\ ChannelOfTarget
  /\ OneOwner /\ NoLeakedSlot

=============================================================================
