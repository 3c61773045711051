----------------------------- MODULE VmGateProofs -----------------------------
(* Proofs about VmGate, for every number of calls, VMs and slots. *)
EXTENDS VmGate, FiniteSetTheorems, SequenceTheorems, TLAPS

\* A list of channels is a function on its indices with a token count for each.
LEMMA ChannelTokens ==
  ASSUME NEW s \in Seq({0, 1})
  PROVE  /\ Len(s) \in Nat
         /\ DOMAIN s = 1..Len(s)
         /\ \A i \in 1..Len(s) : s[i] \in {0, 1}
BY ElementOfSeq, LenProperties

\* Putting a token count back into a list of channels changes that channel only.
LEMMA PutToken ==
  ASSUME NEW s \in Seq({0, 1}), NEW i \in 1..Len(s), NEW n \in {0, 1}
  PROVE  /\ [s EXCEPT ![i] = n] \in Seq({0, 1})
         /\ Len([s EXCEPT ![i] = n]) = Len(s)
         /\ \A j \in 1..Len(s) : [s EXCEPT ![i] = n][j] = IF j = i THEN n ELSE s[j]
BY ExceptSeq

\* Making a channel leaves the existing ones as they are.
LEMMA NewChannel ==
  ASSUME NEW s \in Seq({0, 1})
  PROVE  /\ Append(s, 0) \in Seq({0, 1})
         /\ Len(Append(s, 0)) = Len(s) + 1
         /\ \A j \in 1..Len(s) : Append(s, 0)[j] = s[j]
         /\ Append(s, 0)[Len(s) + 1] = 0
BY AppendProperties

-----------------------------------------------------------------------------
(* Consequences of the invariant that several steps use. *)

\* A call that waits for or owns a per-VM channel has a real one.
LEMMA RealChannel ==
  ASSUME TypeOK, ChannelOfTarget, NEW c \in Calls,
         pc[c] \in {"waitVm", "unlock"}
  PROVE  ch[c] \in 1..Len(sems)
BY DEF TypeOK, ChannelOfTarget

\* A call that goes on changes nobody else's state.
LEMMA GoOnEffect ==
  ASSUME TypeOK, NEW c \in Calls, NEW p \in Pc, GoOn(c, p)
  PROVE  /\ pc' \in [Calls -> Pc] /\ target' \in [Calls -> Vms \cup {NoVm}]
         /\ ch' \in [Calls -> 0..Len(sems)] /\ cancelled' \in [Calls -> BOOLEAN]
         /\ pc'[c] = p
         /\ p = "idle" => target'[c] = NoVm
         /\ p # "idle" => target'[c] = target[c] /\ ch'[c] = ch[c]
         /\ \A d \in Calls \ {c} : /\ pc'[d] = pc[d] /\ target'[d] = target[d]
                                   /\ ch'[d] = ch[d]
<1>1. Len(sems) \in Nat /\ p \in Pc
  BY ChannelTokens DEF TypeOK
<1>2. CASE p = "idle"
  <2>1. /\ pc' = [pc EXCEPT ![c] = p] /\ target' = [target EXCEPT ![c] = NoVm]
        /\ ch' = [ch EXCEPT ![c] = 0] /\ cancelled' = [cancelled EXCEPT ![c] = FALSE]
    BY <1>2 DEF GoOn
  <2> QED
    BY <1>1, <1>2, <2>1 DEF TypeOK
<1>3. CASE p # "idle"
  <2>1. /\ pc' = [pc EXCEPT ![c] = p]
        /\ target' = target /\ ch' = ch /\ cancelled' = cancelled
    BY <1>3 DEF GoOn
  <2> QED
    BY <1>1, <1>3, <2>1 DEF TypeOK
<1> QED
  BY <1>2, <1>3

\* A call leaves the global channel for one of two places.
LEMMA LeaveTo ==
  ASSUME NEW c \in Calls
  PROVE  Leave(c) \in Pc /\ Leave(c) = IF Gated(c) THEN "unlock" ELSE "idle"
BY DEF Leave, Pc

\* The call that inserts is the one that holds the mutex of the map.
LEMMA InsertAlone ==
  ASSUME MapLocked, NEW c \in Calls, pc[c] = "insert"
  PROVE  mu = {c} /\ \A d \in Calls \ {c} : pc[d] # "insert"
BY DEF MapLocked

-----------------------------------------------------------------------------
(* Each conjunct of the invariant is kept by every step. *)

LEMMA TypeStep == GateInv /\ [Next]_vars => TypeOK'
<1> SUFFICES ASSUME GateInv, [Next]_vars PROVE TypeOK'
  OBVIOUS
<1> USE CapAssumption DEF TypeOK, Pc
<1> TypeOK /\ ChannelOfTarget
  BY DEF GateInv
<1>a. Len(sems) \in Nat /\ \A i \in 1..Len(sems) : sems[i] \in {0, 1}
  BY ChannelTokens
<1>1. ASSUME NEW c \in Calls, NEW v \in Vms, RunForVm(c, v) PROVE TypeOK'
  BY <1>1 DEF RunForVm
<1>13. ASSUME NEW c \in Calls, LookUp(c) PROVE TypeOK'
  <2>1. locks[target[c]] \in 0..Len(sems)
    BY <1>13 DEF LookUp, ChannelOfTarget, Gated
  <2> QED
    BY <1>13, <2>1 DEF LookUp
<1>14. ASSUME NEW c \in Calls, Insert(c) PROVE TypeOK'
  <2>1. CASE ch[c] = 0
    <3>1. /\ sems' \in Seq({0, 1}) /\ Len(sems') = Len(sems) + 1
          /\ locks' = [locks EXCEPT ![target[c]] = Len(sems) + 1]
          /\ ch' = [ch EXCEPT ![c] = Len(sems) + 1]
      BY <1>14, <2>1, NewChannel DEF Insert
    <3>2. 0..Len(sems) \subseteq 0..Len(sems') /\ Len(sems) + 1 \in 0..Len(sems')
      BY <1>a, <3>1
    <3>3. locks' \in [Vms -> 0..Len(sems')] /\ ch' \in [Calls -> 0..Len(sems')]
      BY <3>1, <3>2
    <3> QED
      BY <1>14, <3>1, <3>3 DEF Insert
  <2>2. CASE ch[c] # 0
    BY <1>14, <2>2 DEF Insert
  <2> QED
    BY <2>1, <2>2
<1>2. ASSUME NEW c \in Calls, Exec(c) PROVE TypeOK'
  BY <1>2 DEF Exec
<1>3. ASSUME NEW c \in Calls, Cancel(c) PROVE TypeOK'
  BY <1>3 DEF Cancel
<1>4. ASSUME NEW c \in Calls, AcquireVm(c) PROVE TypeOK'
  <2>1. ch[c] \in 1..Len(sems) /\ sems[ch[c]] + 1 = 1
    <3>1. ch[c] \in 1..Len(sems)
      BY <1>4, RealChannel DEF AcquireVm
    <3> QED
      BY <1>4, <1>a, <3>1 DEF AcquireVm
  <2>2. sems' = [sems EXCEPT ![ch[c]] = 1]
    BY <1>4, <2>1 DEF AcquireVm
  <2> QED
    BY <1>4, <2>1, <2>2, PutToken DEF AcquireVm
<1>5. ASSUME NEW c \in Calls, AbandonVmWait(c) PROVE TypeOK'
  BY <1>5, GoOnEffect DEF AbandonVmWait
<1>6. ASSUME NEW c \in Calls, AcquireSlot(c) PROVE TypeOK'
  BY <1>6 DEF AcquireSlot
<1>7. ASSUME NEW c \in Calls, AbandonSlotWait(c) PROVE TypeOK'
  BY <1>7, LeaveTo, GoOnEffect DEF AbandonSlotWait
<1>8. ASSUME NEW c \in Calls, StartCommand(c) PROVE TypeOK'
  BY <1>8 DEF StartCommand
<1>9. ASSUME NEW c \in Calls, CommandEnds(c) PROVE TypeOK'
  BY <1>9 DEF CommandEnds
<1>10. ASSUME NEW c \in Calls, ReleaseSlot(c) PROVE TypeOK'
  BY <1>10, LeaveTo, GoOnEffect DEF ReleaseSlot
<1>11. ASSUME NEW c \in Calls, ReleaseVm(c) PROVE TypeOK'
  <2>1. ch[c] \in 1..Len(sems) /\ sems[ch[c]] - 1 = 0
    <3>1. ch[c] \in 1..Len(sems)
      BY <1>11, RealChannel DEF ReleaseVm
    <3> QED
      BY <1>11, <1>a, <3>1 DEF ReleaseVm
  <2>2. sems' = [sems EXCEPT ![ch[c]] = 0]
    BY <1>11, <2>1 DEF ReleaseVm
  <2>3. sems' \in Seq({0, 1}) /\ Len(sems') = Len(sems)
    BY <2>1, <2>2, PutToken
  <2> QED
    BY <1>11, <2>3, GoOnEffect DEF ReleaseVm
<1>12. CASE UNCHANGED vars
  BY <1>12 DEF vars
<1> QED
  BY <1>1, <1>2, <1>3, <1>4, <1>5, <1>6, <1>7, <1>8, <1>9, <1>10, <1>11,
     <1>12, <1>13, <1>14 DEF Next

\* The mutex of the map has one holder: the call that is about to insert.
LEMMA MapStep == GateInv /\ [Next]_vars => MapLocked'
<1> SUFFICES ASSUME GateInv, [Next]_vars PROVE MapLocked'
  OBVIOUS
<1> USE DEF Pc, MapLocked
<1> TypeOK /\ MapLocked /\ pc \in [Calls -> Pc]
  BY DEF GateInv, TypeOK
<1>1. ASSUME mu' = mu, \A d \in Calls : pc'[d] = "insert" <=> pc[d] = "insert"
      PROVE  MapLocked'
  BY <1>1
<1>2. ASSUME NEW c \in Calls, LookUp(c) PROVE MapLocked'
  BY <1>2 DEF LookUp
<1>3. ASSUME NEW c \in Calls, Insert(c) PROVE MapLocked'
  BY <1>3, InsertAlone DEF Insert
<1>4. ASSUME NEW c \in Calls, NEW v \in Vms, RunForVm(c, v) PROVE MapLocked'
  BY <1>1, <1>4 DEF RunForVm
<1>5. ASSUME NEW c \in Calls,
             \/ Exec(c) \/ Cancel(c) \/ AcquireVm(c) \/ AcquireSlot(c)
             \/ StartCommand(c) \/ CommandEnds(c)
      PROVE  MapLocked'
  BY <1>1, <1>5 DEF Exec, Cancel, AcquireVm, AcquireSlot, StartCommand, CommandEnds
<1>6. ASSUME NEW c \in Calls,
             \/ AbandonVmWait(c) \/ AbandonSlotWait(c) \/ ReleaseSlot(c) \/ ReleaseVm(c)
      PROVE  MapLocked'
  <2>1. PICK p \in {"idle", "unlock"} : GoOn(c, p)
    BY <1>6, LeaveTo DEF AbandonVmWait, AbandonSlotWait, ReleaseSlot, ReleaseVm
  <2>2. pc[c] # "insert" /\ mu' = mu
    BY <1>6 DEF AbandonVmWait, AbandonSlotWait, ReleaseSlot, ReleaseVm
  <2> QED
    BY <1>1, <2>1, <2>2, GoOnEffect
<1>7. CASE UNCHANGED vars
  BY <1>7 DEF vars
<1> QED
  BY <1>2, <1>3, <1>4, <1>5, <1>6, <1>7 DEF Next

\* Channels are only ever added, at an index no VM has yet.
LEMMA ChannelStep == GateInv /\ [Next]_vars => ChannelsDistinct' /\ ChannelOfTarget'
<1> SUFFICES ASSUME GateInv, [Next]_vars
             PROVE  ChannelsDistinct' /\ ChannelOfTarget'
  OBVIOUS
<1> USE DEF TypeOK, Pc, ChannelsDistinct, ChannelOfTarget, Gated
<1> TypeOK /\ MapLocked /\ ChannelsDistinct /\ ChannelOfTarget
  BY DEF GateInv
<1>1. ASSUME NEW c \in Calls, NEW v \in Vms, RunForVm(c, v)
      PROVE  ChannelsDistinct' /\ ChannelOfTarget'
  BY <1>1, NoVmAssumption DEF RunForVm
<1>2. ASSUME NEW c \in Calls, LookUp(c) PROVE ChannelsDistinct' /\ ChannelOfTarget'
  BY <1>2 DEF LookUp
<1>3. ASSUME NEW c \in Calls, Insert(c) PROVE ChannelsDistinct' /\ ChannelOfTarget'
  <2>1. CASE ch[c] = 0
    <3>1. /\ locks' = [locks EXCEPT ![target[c]] = Len(sems) + 1]
          /\ ch' = [ch EXCEPT ![c] = Len(sems) + 1]
          /\ pc' = [pc EXCEPT ![c] = "waitVm"] /\ target' = target
      BY <1>3, <2>1 DEF Insert
    <3>2. Len(sems) \in Nat /\ \A w \in Vms : locks[w] \in Nat /\ locks[w] < Len(sems) + 1
      BY ChannelTokens
    <3>3. target[c] \in Vms /\ locks[target[c]] = 0
      BY <1>3, <2>1 DEF Insert
    <3>4. ChannelsDistinct'
      BY <3>1, <3>2
    <3>5. \A d \in Calls \ {c} : pc[d] # "insert"
      BY <1>3, InsertAlone DEF Insert
    <3>7. /\ pc'[c] = "waitVm" /\ target'[c] \in Vms
          /\ ch'[c] = Len(sems) + 1 /\ locks'[target'[c]] = Len(sems) + 1
      BY <3>1, <3>3
    <3>8. ASSUME NEW d \in Calls \ {c}, Gated(d), pc[d] \notin {"idle", "lookup"}
          PROVE  /\ locks'[target'[d]] = locks[target[d]]
                 /\ ch'[d] = ch[d] /\ ch[d] = locks[target[d]] /\ ch[d] # 0
      <4>1. ch[d] = locks[target[d]] /\ ch[d] # 0 /\ target[d] \in Vms
        BY <3>5, <3>8
      <4> QED
        BY <3>1, <3>3, <4>1
    <3>9. \A d \in Calls \ {c} : pc'[d] = pc[d] /\ target'[d] = target[d]
      BY <3>1
    <3>6. ChannelOfTarget'
      BY <3>2, <3>7, <3>8, <3>9, NoVmAssumption
    <3> QED
      BY <3>4, <3>6
  <2>2. CASE ch[c] # 0
    BY <1>3, <2>2 DEF Insert
  <2> QED
    BY <2>1, <2>2
<1>4. ASSUME NEW c \in Calls,
             \/ Exec(c) \/ Cancel(c) \/ AcquireVm(c) \/ AcquireSlot(c)
             \/ StartCommand(c) \/ CommandEnds(c)
      PROVE  ChannelsDistinct' /\ ChannelOfTarget'
  BY <1>4 DEF Exec, Cancel, AcquireVm, AcquireSlot, StartCommand, CommandEnds
<1>5. ASSUME NEW c \in Calls, AbandonVmWait(c) \/ ReleaseVm(c)
      PROVE  ChannelsDistinct' /\ ChannelOfTarget'
  <2>1. GoOn(c, "idle") /\ locks' = locks
    BY <1>5 DEF AbandonVmWait, ReleaseVm
  <2> QED
    BY <2>1, GoOnEffect
<1>6. ASSUME NEW c \in Calls, AbandonSlotWait(c) \/ ReleaseSlot(c)
      PROVE  ChannelsDistinct' /\ ChannelOfTarget'
  <2>1. GoOn(c, Leave(c)) /\ locks' = locks /\ pc[c] \in {"waitSlot", "unslot"}
    BY <1>6 DEF AbandonSlotWait, ReleaseSlot
  <2> QED
    BY <2>1, GoOnEffect, LeaveTo
<1>7. CASE UNCHANGED vars
  BY <1>7 DEF vars
<1> QED
  BY <1>1, <1>2, <1>3, <1>4, <1>5, <1>6, <1>7 DEF Next

\* A channel's token goes to one call at a time, and only a call that owns it
\* takes it back.
LEMMA OwnerStep == GateInv /\ [Next]_vars => OneOwner' /\ TokensOwned'
<1> SUFFICES ASSUME GateInv, [Next]_vars PROVE OneOwner' /\ TokensOwned'
  OBVIOUS
<1> USE DEF TypeOK, Pc, OneOwner, TokensOwned, HoldsVm, Gated
<1> TypeOK /\ ChannelOfTarget /\ OneOwner /\ TokensOwned
  BY DEF GateInv, NoLeakedSlot
<1>a. Len(sems) \in Nat /\ \A i \in 1..Len(sems) : sems[i] \in {0, 1}
  BY ChannelTokens
<1>1. ASSUME NEW c \in Calls, NEW v \in Vms, RunForVm(c, v)
      PROVE  OneOwner' /\ TokensOwned'
  <2>1. \A d \in Calls : (HoldsVm(d))' = HoldsVm(d)
    BY <1>1 DEF RunForVm
  <2> HIDE DEF HoldsVm
  <2> QED
    BY <1>1, <2>1 DEF RunForVm
<1>13. ASSUME NEW c \in Calls, LookUp(c) PROVE OneOwner' /\ TokensOwned'
  <2>1. \A d \in Calls : /\ (HoldsVm(d))' = HoldsVm(d)
                         /\ HoldsVm(d) => ch'[d] = ch[d]
    BY <1>13 DEF LookUp
  <2> HIDE DEF HoldsVm
  <2> QED
    BY <1>13, <2>1 DEF LookUp
<1>14. ASSUME NEW c \in Calls, Insert(c) PROVE OneOwner' /\ TokensOwned'
  <2>1. \A d \in Calls : /\ (HoldsVm(d))' = HoldsVm(d)
                         /\ HoldsVm(d) => ch'[d] = ch[d]
    BY <1>14 DEF Insert
  <2>2. CASE ch[c] = 0
    <3>1. /\ sems' = Append(sems, 0) /\ Len(sems') = Len(sems) + 1
          /\ \A j \in 1..Len(sems) : sems'[j] = sems[j]
          /\ sems'[Len(sems) + 1] = 0
      BY <1>14, <2>2, NewChannel DEF Insert
    <3>2. \A d \in Calls : ch[d] # Len(sems) + 1
      BY <1>a
    <3> HIDE DEF HoldsVm
    <3>3. OneOwner'
      BY <2>1
    <3>4. ASSUME NEW i \in 1..Len(sems')
          PROVE  sems'[i] = 1 <=> \E d \in Calls : (HoldsVm(d))' /\ ch'[d] = i
      <4>1. CASE i \in 1..Len(sems)
        <5>1. sems'[i] = 1 <=> \E d \in Calls : HoldsVm(d) /\ ch[d] = i
          BY <3>1, <4>1
        <5>2. \A d \in Calls : HoldsVm(d) /\ ch[d] = i <=> (HoldsVm(d))' /\ ch'[d] = i
          BY <2>1
        <5> QED
          BY <5>1, <5>2
      <4>2. CASE i = Len(sems) + 1
        BY <2>1, <3>1, <3>2, <4>2
      <4> QED
        BY <1>a, <3>1, <4>1, <4>2
    <3> QED
      BY <3>3, <3>4
  <2>3. CASE ch[c] # 0
    <3>1. sems' = sems
      BY <1>14, <2>3 DEF Insert
    <3> HIDE DEF HoldsVm
    <3> QED
      BY <2>1, <3>1
  <2> QED
    BY <2>2, <2>3
<1>2. ASSUME NEW c \in Calls, Exec(c) PROVE OneOwner' /\ TokensOwned'
  <2>1. \A d \in Calls : (HoldsVm(d))' = HoldsVm(d)
    BY <1>2 DEF Exec, ChannelOfTarget
  <2> HIDE DEF HoldsVm
  <2> QED
    BY <1>2, <2>1 DEF Exec
<1>3. ASSUME NEW c \in Calls, Cancel(c) PROVE OneOwner' /\ TokensOwned'
  BY <1>3 DEF Cancel
<1>4. ASSUME NEW c \in Calls, AcquireVm(c) PROVE OneOwner' /\ TokensOwned'
  <2>1. ch[c] \in 1..Len(sems) /\ sems[ch[c]] = 0
    BY <1>4, RealChannel DEF AcquireVm
  <2>2. /\ sems' = [sems EXCEPT ![ch[c]] = 1] /\ Len(sems') = Len(sems)
        /\ \A j \in 1..Len(sems) : sems'[j] = IF j = ch[c] THEN 1 ELSE sems[j]
    BY <1>4, <2>1, PutToken DEF AcquireVm
  <2>3. \A d \in Calls : HoldsVm(d) => ch[d] # ch[c]
    BY <2>1
  <2>4. /\ ch' = ch /\ (HoldsVm(c))'
        /\ \A d \in Calls \ {c} : (HoldsVm(d))' = HoldsVm(d)
    BY <1>4 DEF AcquireVm, ChannelOfTarget
  <2> HIDE DEF HoldsVm
  <2>5. OneOwner'
    BY <2>3, <2>4
  <2>6. ASSUME NEW i \in 1..Len(sems')
        PROVE  sems'[i] = 1 <=> \E d \in Calls : (HoldsVm(d))' /\ ch'[d] = i
    <3>1. CASE i = ch[c]
      BY <2>2, <2>4, <3>1
    <3>2. CASE i # ch[c]
      <4>1. sems'[i] = sems[i] /\ i \in 1..Len(sems)
        BY <2>2, <3>2
      <4>2. \A d \in Calls : (HoldsVm(d))' /\ ch'[d] = i <=> HoldsVm(d) /\ ch[d] = i
        BY <2>4, <3>2
      <4> QED
        BY <4>1, <4>2
    <3> QED
      BY <3>1, <3>2
  <2> QED
    BY <2>5, <2>6
<1>b. ASSUME NEW c \in Calls, NEW p \in Pc, GoOn(c, p), sems' = sems,
             p \in {"idle", "unlock"}, p = "unlock" <=> HoldsVm(c)
      PROVE  OneOwner' /\ TokensOwned'
  <2>2. \A d \in Calls \ {c} : (HoldsVm(d))' = HoldsVm(d) /\ ch'[d] = ch[d]
    BY <1>b, GoOnEffect
  <2>3. (HoldsVm(c))' = HoldsVm(c) /\ (HoldsVm(c) => ch'[c] = ch[c])
    <3>1. CASE p = "idle"
      BY <1>b, <3>1, GoOnEffect
    <3>2. CASE p = "unlock"
      BY <1>b, <3>2, GoOnEffect
    <3> QED
      BY <1>b, <3>1, <3>2
  <2>1. \A d \in Calls : /\ (HoldsVm(d))' = HoldsVm(d)
                         /\ HoldsVm(d) => ch'[d] = ch[d]
    BY <2>2, <2>3
  <2> HIDE DEF HoldsVm
  <2> QED
    BY <1>b, <2>1
<1>5. ASSUME NEW c \in Calls, AbandonVmWait(c) PROVE OneOwner' /\ TokensOwned'
  BY <1>b, <1>5 DEF AbandonVmWait
<1>6. ASSUME NEW c \in Calls, AcquireSlot(c) PROVE OneOwner' /\ TokensOwned'
  BY <1>6 DEF AcquireSlot
<1>7. ASSUME NEW c \in Calls, AbandonSlotWait(c) PROVE OneOwner' /\ TokensOwned'
  BY <1>b, <1>7, LeaveTo DEF AbandonSlotWait
<1>8. ASSUME NEW c \in Calls, StartCommand(c) PROVE OneOwner' /\ TokensOwned'
  BY <1>8 DEF StartCommand
<1>9. ASSUME NEW c \in Calls, CommandEnds(c) PROVE OneOwner' /\ TokensOwned'
  BY <1>9 DEF CommandEnds
<1>10. ASSUME NEW c \in Calls, ReleaseSlot(c) PROVE OneOwner' /\ TokensOwned'
  BY <1>b, <1>10, LeaveTo DEF ReleaseSlot
<1>11. ASSUME NEW c \in Calls, ReleaseVm(c) PROVE OneOwner' /\ TokensOwned'
  <2>1. ch[c] \in 1..Len(sems) /\ HoldsVm(c)
    BY <1>11, RealChannel DEF ReleaseVm, ChannelOfTarget
  <2>2. /\ sems' = [sems EXCEPT ![ch[c]] = 0] /\ Len(sems') = Len(sems)
        /\ \A j \in 1..Len(sems) : sems'[j] = IF j = ch[c] THEN 0 ELSE sems[j]
    <3>1. sems[ch[c]] = 1
      BY <2>1
    <3> QED
      BY <1>11, <2>1, <3>1, PutToken DEF ReleaseVm
  <2>3. /\ ~(HoldsVm(c))'
        /\ \A d \in Calls \ {c} : (HoldsVm(d))' = HoldsVm(d) /\ ch'[d] = ch[d]
    BY <1>11, GoOnEffect DEF ReleaseVm
  <2> HIDE DEF HoldsVm
  <2>4. OneOwner'
    BY <2>3
  <2>5. ASSUME NEW i \in 1..Len(sems')
        PROVE  sems'[i] = 1 <=> \E d \in Calls : (HoldsVm(d))' /\ ch'[d] = i
    <3>1. CASE i = ch[c]
      <4>1. sems'[i] = 0
        BY <2>2, <3>1
      <4>2. \A d \in Calls : ~((HoldsVm(d))' /\ ch'[d] = i)
        BY <2>1, <2>3, <3>1
      <4> QED
        BY <4>1, <4>2
    <3>2. CASE i # ch[c]
      <4>1. sems'[i] = sems[i] /\ i \in 1..Len(sems)
        BY <2>2, <3>2
      <4>2. \A d \in Calls : (HoldsVm(d))' /\ ch'[d] = i <=> HoldsVm(d) /\ ch[d] = i
        BY <2>3, <3>2
      <4> QED
        BY <4>1, <4>2
    <3> QED
      BY <3>1, <3>2
  <2> QED
    BY <2>4, <2>5
<1>12. CASE UNCHANGED vars
  BY <1>12 DEF vars
<1> QED
  BY <1>1, <1>2, <1>3, <1>4, <1>5, <1>6, <1>7, <1>8, <1>9, <1>10, <1>11,
     <1>12, <1>13, <1>14 DEF Next

\* The counter of the global channel follows the set of its owners.
LEMMA SlotStep == GateInv /\ [Next]_vars => SlotsCounted'
<1> SUFFICES ASSUME GateInv, [Next]_vars PROVE SlotsCounted'
  OBVIOUS
<1> USE DEF Pc, SlotsCounted, SlotHolders, HoldsSlot
<1>a. /\ TypeOK /\ pc \in [Calls -> Pc] /\ vboxSlots \in Nat
      /\ SlotsCounted /\ IsFiniteSet(SlotHolders)
  BY CallsAssumption, CapAssumption, FS_Subset DEF GateInv, NoLeakedSlot, TypeOK
<1>1. ASSUME vboxSlots' = vboxSlots, SlotHolders' = SlotHolders
      PROVE  SlotsCounted'
  BY <1>1, <1>a
<1>2. ASSUME NEW c \in Calls, AcquireSlot(c) PROVE SlotsCounted'
  <2>1. c \notin SlotHolders /\ SlotHolders' = SlotHolders \cup {c}
    BY <1>2, <1>a DEF AcquireSlot
  <2> QED
    BY <1>2, <1>a, <2>1, FS_AddElement DEF AcquireSlot
<1>3. ASSUME NEW c \in Calls, ReleaseSlot(c) PROVE SlotsCounted'
  <2>1. c \in SlotHolders /\ SlotHolders' = SlotHolders \ {c}
    BY <1>3, <1>a, GoOnEffect, LeaveTo DEF ReleaseSlot
  <2> QED
    BY <1>3, <1>a, <2>1, FS_RemoveElement DEF ReleaseSlot
<1>4. ASSUME NEW c \in Calls, NEW v \in Vms, RunForVm(c, v) PROVE SlotsCounted'
  <2>1. vboxSlots' = vboxSlots /\ SlotHolders' = SlotHolders
    BY <1>4, <1>a DEF RunForVm
  <2> QED
    BY <1>1, <2>1
<1>5. ASSUME NEW c \in Calls, Exec(c) \/ Cancel(c) PROVE SlotsCounted'
  <2>1. vboxSlots' = vboxSlots /\ SlotHolders' = SlotHolders
    BY <1>5, <1>a DEF Exec, Cancel
  <2> QED
    BY <1>1, <2>1
<1>6. ASSUME NEW c \in Calls, AbandonVmWait(c) \/ ReleaseVm(c) \/ AbandonSlotWait(c)
      PROVE  SlotsCounted'
  <2>1. PICK p \in {"idle", "unlock"} : GoOn(c, p)
    BY <1>6, LeaveTo DEF AbandonVmWait, ReleaseVm, AbandonSlotWait
  <2>2. vboxSlots' = vboxSlots /\ c \notin SlotHolders
    BY <1>6 DEF AbandonVmWait, ReleaseVm, AbandonSlotWait
  <2>3. SlotHolders' = SlotHolders
    BY <1>a, <2>1, <2>2, GoOnEffect
  <2> QED
    BY <1>1, <2>2, <2>3
<1>7. ASSUME NEW c \in Calls,
             AcquireVm(c) \/ LookUp(c) \/ Insert(c) \/ StartCommand(c) \/ CommandEnds(c)
      PROVE  SlotsCounted'
  <2>1. vboxSlots' = vboxSlots /\ SlotHolders' = SlotHolders
    BY <1>7, <1>a DEF AcquireVm, LookUp, Insert, StartCommand, CommandEnds
  <2> QED
    BY <1>1, <2>1
<1>8. CASE UNCHANGED vars
  BY <1>8, <1>a DEF vars
<1> QED
  BY <1>2, <1>3, <1>4, <1>5, <1>6, <1>7, <1>8 DEF Next

-----------------------------------------------------------------------------

LEMMA InitInv == Init => GateInv
<1> SUFFICES ASSUME Init PROVE GateInv
  OBVIOUS
<1> USE DEF Init
<1>1. TypeOK
  BY CapAssumption, EmptySeq DEF TypeOK, Pc
<1>2. ChannelsDistinct /\ ChannelOfTarget
  BY DEF ChannelsDistinct, ChannelOfTarget, Gated
<1>5. MapLocked
  BY DEF MapLocked
<1>3. OneOwner /\ TokensOwned
  BY EmptySeq DEF OneOwner, TokensOwned, HoldsVm
<1>4. SlotsCounted
  <2>1. SlotHolders = {}
    BY DEF SlotHolders, HoldsSlot
  <2> QED
    BY <2>1, FS_EmptySet DEF SlotsCounted
<1> QED
  BY <1>1, <1>2, <1>3, <1>4, <1>5 DEF GateInv, NoLeakedSlot

\* The inductive invariant holds of every behaviour.
THEOREM GateCorrect == Spec => []GateInv
<1>1. GateInv /\ [Next]_vars => GateInv'
  BY TypeStep, MapStep, ChannelStep, OwnerStep, SlotStep DEF GateInv, NoLeakedSlot
<1> QED
  BY InitInv, <1>1, PTL DEF Spec

\* The state is well typed: no channel ever holds more tokens than its capacity
\* and no index of a channel dangles.
THEOREM TypeCorrect == Spec => []TypeOK
<1>1. GateInv => TypeOK
  BY DEF GateInv
<1> QED
  BY <1>1, GateCorrect, PTL

\* No path through exec and runForVM leaks a slot or gives one back twice.
THEOREM SlotsBalance == Spec => []NoLeakedSlot
<1>1. GateInv => NoLeakedSlot
  BY DEF GateInv
<1> QED
  BY <1>1, GateCorrect, PTL

\* Two commands for the same VM never run together: they would own the same
\* channel's token.
LEMMA InvExcludes == GateInv => OneCommandPerVm
<1> SUFFICES ASSUME GateInv, NEW c \in Live, NEW d \in Live,
                    Gated(c), target[c] = target[d]
             PROVE  c = d
  BY DEF OneCommandPerVm
<1>1. HoldsVm(c) /\ HoldsVm(d)
  BY DEF Live, HoldsVm, Gated
<1>2. ch[c] = ch[d]
  BY <1>1 DEF Live, Gated, GateInv, ChannelOfTarget
<1> QED
  BY <1>1, <1>2 DEF GateInv, OneOwner, Live

THEOREM MutualExclusion == Spec => []OneCommandPerVm
BY InvExcludes, GateCorrect, PTL

\* At most maxConcurrentVBox processes exist: each belongs to a slot owner.
LEMMA InvCaps == GateInv => CapRespected
<1> SUFFICES ASSUME GateInv PROVE CapRespected
  OBVIOUS
<1>1. IsFiniteSet(SlotHolders)
  BY CallsAssumption, FS_Subset DEF SlotHolders
<1>2. Cardinality(Live) <= Cardinality(SlotHolders)
  BY <1>1, FS_Subset DEF Live, SlotHolders, HoldsSlot
<1>3. Cardinality(SlotHolders) <= MaxConcurrentVBox
  BY CapAssumption DEF GateInv, NoLeakedSlot, SlotsCounted, TypeOK
<1>4. IsFiniteSet(Live)
  BY CallsAssumption, FS_Subset DEF Live
<1> QED
  BY <1>1, <1>2, <1>3, <1>4, CapAssumption, FS_CardinalityType DEF CapRespected

THEOREM Cap == Spec => []CapRespected
BY InvCaps, GateCorrect, PTL

-----------------------------------------------------------------------------
(* VmGate implements GateSpec. *)

\* A step that leaves the processes, and what they are for, alone is a stutter.
LEMMA Stutter ==
  ASSUME Live' = Live, \A c \in Live : target'[c] = target[c]
  PROVE  <<Live, Aim>>' = <<Live, Aim>>
BY DEF Aim

\* GateSpec's own copy of Cardinality counts as the gate's does.
LEMMA SameCount == Promise!Cardinality(Live) = Cardinality(Live)
BY DEF Cardinality, Promise!Cardinality, IsFiniteSet, Promise!IsFiniteSet

\* A step of the gate starts one allowed process, ends one, or changes nothing
\* that GateSpec can see.
LEMMA StepImplements ==
  GateInv /\ GateInv' /\ [Next]_vars => [Promise!Next]_<<Live, Aim>>
<1> SUFFICES ASSUME GateInv, GateInv', [Next]_vars
             PROVE  [Promise!Next]_<<Live, Aim>>
  OBVIOUS
<1> USE DEF Live
<1>a. /\ pc \in [Calls -> Pc] /\ target \in [Calls -> Vms \cup {NoVm}]
      /\ MaxConcurrentVBox \in Nat
  BY CapAssumption DEF GateInv, TypeOK
<1>1. ASSUME NEW c \in Calls, StartCommand(c)
      PROVE  [Promise!Next]_<<Live, Aim>>
  <2>1. CASE cancelled[c]
    <3>1. Live' = Live /\ target' = target
      BY <1>1, <1>a, <2>1 DEF StartCommand
    <3> QED
      BY <3>1, Stutter
  <2>2. CASE ~cancelled[c]
    <3>1. c \notin Live /\ Live' = Live \cup {c} /\ target' = target
      BY <1>1, <1>a, <2>2 DEF StartCommand, Pc
    <3>2. Cardinality(Live) < MaxConcurrentVBox
      <4>1. IsFiniteSet(Live)
        BY CallsAssumption, FS_Subset
      <4>2. Cardinality(Live') = Cardinality(Live) + 1
        BY <3>1, <4>1, FS_AddElement
      <4>3. Cardinality(Live') <= MaxConcurrentVBox
        <5>1. GateInv' => CapRespected'
          BY InvCaps, PTL
        <5> QED
          BY <5>1 DEF CapRespected
      <4> QED
        BY <1>a, <4>1, <4>2, <4>3, FS_CardinalityType
    <3>3. target[c] # NoVm => \A d \in Live : Aim[d] # target[c]
      <4>1. OneCommandPerVm'
        BY InvExcludes, PTL
      <4> QED
        BY <3>1, <4>1 DEF OneCommandPerVm, Gated, Aim
    <3>4. Aim' = [Aim EXCEPT ![c] = target[c]]
      BY <3>1 DEF Aim
    <3>5. PICK v \in Vms \cup {NoVm} : v = target[c]
      BY <1>a
    <3>6. Promise!Start(c, v)
      BY <3>1, <3>2, <3>3, <3>4, <3>5, SameCount DEF Promise!Start
    <3> QED
      BY <3>6 DEF Promise!Next
  <2> QED
    BY <2>1, <2>2
<1>2. ASSUME NEW c \in Calls, CommandEnds(c)
      PROVE  [Promise!Next]_<<Live, Aim>>
  <2>1. c \in Live /\ Live' = Live \ {c} /\ target' = target
    BY <1>2, <1>a DEF CommandEnds
  <2>2. Aim' = [Aim EXCEPT ![c] = NoVm]
    BY <2>1 DEF Aim
  <2> QED
    BY <2>1, <2>2 DEF Promise!Next, Promise!End, Aim
<1>3. ASSUME NEW c \in Calls, NEW v \in Vms, RunForVm(c, v)
      PROVE  [Promise!Next]_<<Live, Aim>>
  <2>1. c \notin Live /\ Live' = Live
    BY <1>3, <1>a DEF RunForVm
  <2>2. \A d \in Live : target'[d] = target[d]
    BY <1>3, <1>a, <2>1 DEF RunForVm
  <2> QED
    BY <2>1, <2>2, Stutter
<1>4. ASSUME NEW c \in Calls,
             \/ AbandonVmWait(c) \/ AbandonSlotWait(c) \/ ReleaseSlot(c) \/ ReleaseVm(c)
      PROVE  [Promise!Next]_<<Live, Aim>>
  <2>1. PICK p \in {"idle", "unlock"} : GoOn(c, p)
    BY <1>4, LeaveTo DEF AbandonVmWait, AbandonSlotWait, ReleaseSlot, ReleaseVm
  <2>2. c \notin Live
    BY <1>4 DEF AbandonVmWait, AbandonSlotWait, ReleaseSlot, ReleaseVm
  <2>3. p \in Pc /\ TypeOK
    BY <2>1 DEF Pc, GateInv
  <2>4. Live' = Live /\ \A d \in Live : target'[d] = target[d]
    BY <2>1, <2>2, <2>3, GoOnEffect
  <2> QED
    BY <2>4, Stutter
<1>5. ASSUME NEW c \in Calls,
             Exec(c) \/ Cancel(c) \/ LookUp(c) \/ Insert(c) \/ AcquireVm(c) \/ AcquireSlot(c)
      PROVE  [Promise!Next]_<<Live, Aim>>
  <2>1. Live' = Live /\ target' = target
    BY <1>5, <1>a DEF Exec, Cancel, LookUp, Insert, AcquireVm, AcquireSlot
  <2> QED
    BY <2>1, Stutter
<1>6. CASE UNCHANGED vars
  <2>1. Live' = Live /\ target' = target
    BY <1>6 DEF vars
  <2> QED
    BY <2>1, Stutter
<1> QED
  BY <1>1, <1>2, <1>3, <1>4, <1>5, <1>6 DEF Next

LEMMA InitImplements == Init => Promise!Init
BY DEF Init, Promise!Init, Live, Aim

\* The gate implements its promise: every behaviour of VmGate is, seen from the
\* outside, a behaviour of GateSpec.
THEOREM Implements == Spec => ImplementsPromise
BY InitImplements, StepImplements, GateCorrect, PTL
   DEF Spec, ImplementsPromise, Promise!Spec

=============================================================================
