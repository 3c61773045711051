---------------------------- MODULE VmGuestProofs ----------------------------
(***************************************************************************)
(* Proofs about VmGuest, for any number of VMs, requests and exits.        *)
(***************************************************************************)
EXTENDS VmGuest, FiniteSetTheorems, TLAPS

\* No two requests work on a VM at once.
LockExclusive ==
  \A t, u \in Threads :
    Active(t) /\ Active(u) /\ thr[t].vm = thr[u].vm => t = u

\* A destination that exists appeared after its request had looked.
Watched == \A t \in Looked : file # None => t \in late

Inv ==
  /\ TypeOK
  /\ LockExclusive
  /\ HostFilesAreRemoved
  /\ CopyLeftOnlyByFailure
  /\ OwnPasswordIsRead
  /\ Watched

-----------------------------------------------------------------------------

LEMMA NamesDiffer == None # Former /\ None # User /\ Former # User
<1>1. ASSUME None = Former \/ None = User \/ Former = User PROVE FALSE
  <2>1. PICK a, b : {None, Former, User} = {a, b}
    BY <1>1
  <2>2. IsFiniteSet({a}) /\ Cardinality({a}) = 1
    BY FS_Singleton
  <2>3. Cardinality({a} \cup {b}) <= 2
    BY <2>2, FS_AddElement
  <2>4. {a, b} = {a} \cup {b}
    OBVIOUS
  <2> QED
    BY <2>1, <2>3, <2>4, NamesAssumption
<1> QED
  BY <1>1

LEMMA IdleTyped == Idle \in Thread /\ \A pc \in Ended : [Idle EXCEPT !.pc = pc] \in Thread
  BY DEF Idle, Thread, Pc, Ended, Ops, Logins, Scopes

\* A request goes on only to what its operation may come to.
LEMMA StepTables ==
  ASSUME NEW r \in Thread, r.pc \in Steps(r.op), r.pc \in Commands
  PROVE  /\ OnSuccess(r.pc) \in Steps(r.op) \cup Ended
         /\ OnFailure(r.op, r.pc) \subseteq Steps(r.op) \cup Ended
         /\ OnSuccess(r.pc) \in Pc /\ OnFailure(r.op, r.pc) \subseteq Pc
         /\ OnSuccess(r.pc) \in Reading => r.pc \in Reading
         /\ OnFailure(r.op, r.pc) \cap Reading # {} => r.pc \in Reading
         /\ OnSuccess(r.pc) = "sudo" => r.pc = "copypw"
         /\ "sudo" \notin OnFailure(r.op, r.pc)
         /\ {OnSuccess(r.pc)} \cup OnFailure(r.op, r.pc) \subseteq {"password", "copyto", "sudo", "ok", "failed"}
  BY DEF Thread, Steps, Commands, Ops, OnSuccess, OnFailure, Ended, Pc, Reading

LEMMA ActiveFacts ==
  ASSUME TypeOK, NEW t \in Threads, Active(t)
  PROVE  thr[t] \in Thread /\ thr[t].vm \in Vms /\ thr[t].op \in Ops
         /\ thr[t].scope \in Scopes /\ thr[t].pc \in Steps(thr[t].op)
  BY DEF TypeOK, Thread

\* What going on does.
LEMMA GoFacts ==
  ASSUME TypeOK, NEW t \in Threads, Active(t), NEW pc \in Pc, Go(t, pc)
  PROVE  /\ thr' \in [Threads -> Thread]
         /\ thr'[t].pc = pc
         /\ \A u \in Threads : u # t => thr'[u] = thr[u]
         /\ pc \notin Ended => /\ thr'[t].vm = thr[t].vm
                               /\ thr'[t].op = thr[t].op
                               /\ temp' = temp
         /\ pc \in Ended => thr'[t].op = "run" /\ temp' = {f \in temp : f[1] # t}
<1>1. thr[t] \in Thread
  BY DEF TypeOK
<1>2. CASE pc \in Ended
  <2>1. thr' = [thr EXCEPT ![t] = [Idle EXCEPT !.pc = pc]]
    BY <1>2 DEF Go
  <2>2. [Idle EXCEPT !.pc = pc] \in Thread
    BY <1>2, IdleTyped
  <2>3. [Idle EXCEPT !.pc = pc].pc = pc /\ [Idle EXCEPT !.pc = pc].op = "run"
    BY DEF Idle
  <2> QED
    BY <1>2, <2>1, <2>2, <2>3 DEF TypeOK, Go
<1>3. CASE pc \notin Ended
  <2>1. thr' = [thr EXCEPT ![t] = [thr[t] EXCEPT !.pc = pc]] /\ temp' = temp
    BY <1>3 DEF Go
  <2>2. [thr[t] EXCEPT !.pc = pc] \in Thread
    BY <1>1 DEF Thread
  <2> QED
    BY <1>1, <1>3, <2>1, <2>2 DEF TypeOK, Thread
<1> QED
  BY <1>2, <1>3

\* What a command changes.
LEMMA AppliedFacts ==
  ASSUME TypeOK, NEW v \in Vms, NEW cmd \in Commands, NEW scope \in Scopes,
         NEW w \in Threads \cup {Former},
         Applied(v, cmd, scope, w) \/ UNCHANGED <<share, copy, file>>
  PROVE  /\ share' \in [Vms -> SUBSET Scopes]
         /\ copy' \in [Vms -> Owners]
         /\ file' \in {file, w}
         /\ cmd # "copyfrom" => file' = file
         /\ cmd \notin {"copypw", "sudo"} => copy' = copy
         /\ \A x \in Vms : x # v => copy'[x] = copy[x]
         /\ Applied(v, cmd, scope, w) => /\ cmd = "copypw" => copy'[v] = w
                                         /\ cmd = "sudo" => copy'[v] = None
         /\ cmd = "copypw" => copy'[v] \in {copy[v], w}
         /\ cmd = "sudo" => copy'[v] \in {copy[v], None}
<1>1. CASE UNCHANGED <<share, copy, file>> /\ ~Applied(v, cmd, scope, w)
  BY <1>1 DEF TypeOK
<1>2. CASE Applied(v, cmd, scope, w)
  <2>1. CASE cmd = "copypw"
    BY <1>2, <2>1 DEF Applied, TypeOK, Owners
  <2>2. CASE cmd = "sudo"
    BY <1>2, <2>2 DEF Applied, RunsSudo, TypeOK, Owners
  <2>3. CASE cmd = "copyfrom"
    BY <1>2, <2>3 DEF Applied, TypeOK
  <2>4. CASE cmd = "share"
    BY <1>2, <2>4 DEF Applied, Shares, TypeOK
  <2>5. CASE cmd = "unshare"
    BY <1>2, <2>5 DEF Applied, Unshares, TypeOK
  <2>6. CASE cmd \in {"insert", "guest", "mkdir", "copyto"}
    BY <1>2, <2>6 DEF Applied, TypeOK
  <2> QED
    BY <2>1, <2>2, <2>3, <2>4, <2>5, <2>6 DEF Commands
<1> QED
  BY <1>1, <1>2

\* What a step of a request does to its record.
Moved(t) ==
  /\ thr' \in [Threads -> Thread]
  /\ \A u \in Threads : u # t => thr'[u] = thr[u]
  /\ Active(t)' => /\ thr'[t].vm = thr[t].vm /\ thr'[t].op = thr[t].op
                   /\ thr'[t].pc \in Steps(thr[t].op)
                   /\ temp \subseteq temp'
                   /\ temp' \subseteq temp \cup ({t} \X {"upload", "password"})
  /\ ~Active(t)' => thr'[t].op = "run" /\ temp' = {f \in temp : f[1] # t}

\* What a step of a request may do: it moves on within its operation, its
\* credentials being there where they are read; the copy of the password is its
\* own when the script is about to read it, and is otherwise changed only by a
\* command that fails or by the script.
Moves(t) ==
  /\ Active(t)
  /\ Moved(t)
  /\ thr'[t].pc \in Reading => thr[t].pc \in Reading \/ <<t, "password">> \in temp'
  /\ thr'[t].pc = "sudo" => copy'[thr[t].vm] = t
  /\ t \in Looked' => t \in Looked \/ file' = None
  /\ share' \in [Vms -> SUBSET Scopes] /\ copy' \in [Vms -> Owners]
  /\ file' \in {file, t}
  /\ \A v \in Vms : v # thr[t].vm => copy'[v] = copy[v]
  /\ LET v == thr[t].vm
     IN \/ copy' = copy /\ thr[t].pc # "sudo"
        \/ copy'[v] = None
        \/ copy'[v] = t /\ thr'[t].pc = "sudo"
        \/ v \in cut'
  /\ cut' \subseteq Vms
  /\ \A v \in cut : v \in cut' \/ copy'[v] = None
  /\ UNCHANGED <<on, orphans, exits>>
  /\ late' = Noticed \/ (late' = late /\ file' = file /\ Active(t)')

LEMMA GoMoves ==
  ASSUME TypeOK, NEW t \in Threads, Active(t), NEW pc \in Pc, Go(t, pc),
         pc \in Steps(thr[t].op) \cup Ended
  PROVE  Moved(t) /\ thr'[t].pc = pc
<1>1. CASE pc \in Ended
  BY <1>1, GoFacts DEF Moved, Active
<1>2. CASE pc \notin Ended
  BY <1>2, GoFacts DEF Moved, Active
<1> QED
  BY <1>1, <1>2

\* The steps that leave the guest alone.
LEMMA HostMoves ==
  ASSUME TypeOK, NEW t \in Threads,
         \/ Check(t) \/ Refuse(t) \/ Read(t) \/ ReadFails(t)
         \/ StageUpload(t) \/ WritePassword(t) \/ WriteFails(t) \/ WriteShare(t)
  PROVE  Moves(t)
<1>1. Active(t) /\ thr[t].pc \notin Reading /\ thr[t].pc # "sudo"
  BY DEF Check, Refuse, Read, ReadFails, StageUpload, WritePassword, WriteFails, WriteShare,
         Active, Ended, Reading
<1>2. thr[t] \in Thread /\ thr[t].pc \in Steps(thr[t].op) /\ thr[t].op \in Ops
  BY <1>1, ActiveFacts
<1>3. share' = share /\ copy' = copy /\ cut' = cut /\ UNCHANGED <<on, orphans, exits>>
      /\ file' \in {file, t}
  BY DEF Check, Refuse, Read, ReadFails, StageUpload, WritePassword, WriteFails, WriteShare
<1>4. SUFFICES /\ Moved(t)
               /\ thr'[t].pc \in Reading => <<t, "password">> \in temp'
               /\ thr'[t].pc # "sudo"
               /\ t \in Looked' => t \in Looked \/ file' = None
               /\ late' = Noticed \/ (late' = late /\ file' = file /\ Active(t)')
  BY <1>1, <1>3 DEF Moves, TypeOK
<1>5. CASE Check(t)
  <2>1. Go(t, "read") /\ "read" \in Pc /\ "read" \in Steps(thr[t].op)
    BY <1>5 DEF Check, Pc, Steps
  <2>2. Moved(t) /\ thr'[t].pc = "read"
    BY <1>1, <2>1, GoMoves
  <2>3. thr'[t].op = thr[t].op
    BY <2>2 DEF Moved, Active, Ended
  <2> QED
    BY <1>5, <2>2, <2>3 DEF Check, Accepts, Looked, Reading
<1>6. CASE Refuse(t)
  <2>1. Go(t, "failed") /\ "failed" \in Pc /\ "failed" \in Ended
    BY <1>6 DEF Refuse, Pc, Ended
  <2>2. Moved(t) /\ thr'[t].pc = "failed"
    BY <1>1, <2>1, GoMoves
  <2> QED
    BY <1>6, <2>2 DEF Refuse, Looked, Reading
<1>7. CASE Read(t)
  <2>1. PICK pc \in AfterRead(t) :
          \/ pc \in Ended /\ Go(t, pc)
          \/ /\ pc \notin Ended
             /\ thr' = [thr EXCEPT ![t] = [thr[t] EXCEPT !.pc = pc, !.scope = ScopeFor(t)]]
             /\ UNCHANGED temp
    BY <1>7 DEF Read
  <2>2. pc \in Steps(thr[t].op) \cup Ended /\ pc \in Pc /\ pc \notin Reading /\ pc # "sudo"
    BY <1>2 DEF AfterRead, Steps, Ended, Ops, Pc, Commands, Reading
  <2>3. late' = Noticed /\ thr[t].pc = "read"
    BY <1>7 DEF Read
  <2>4. ScopeFor(t) \in Scopes
    BY DEF ScopeFor, FirstScope, Scopes
  <2>5. CASE pc \in Ended
    <3>1. Moved(t) /\ thr'[t].pc = pc
      BY <1>1, <2>1, <2>2, <2>5, GoMoves
    <3> QED
      BY <2>2, <2>3, <2>5, <3>1 DEF Looked, Ended
  <2>6. CASE pc \notin Ended
    <3> DEFINE new == [thr[t] EXCEPT !.pc = pc, !.scope = ScopeFor(t)]
    <3>1. new \in Thread /\ new.pc = pc /\ new.op = thr[t].op /\ new.vm = thr[t].vm
      BY <1>2, <2>2, <2>4 DEF Thread
    <3>2. thr'[t] = new /\ thr' \in [Threads -> Thread] /\ temp' = temp
          /\ \A u \in Threads : u # t => thr'[u] = thr[u]
      BY <2>1, <2>6, <3>1 DEF TypeOK
    <3> HIDE DEF new
    <3> QED
      BY <2>2, <2>3, <2>6, <3>1, <3>2 DEF Moved, Active, Looked, Reading
  <2> QED
    BY <2>5, <2>6
<1>8. CASE ReadFails(t)
  <2> DEFINE pc == IF thr[t].op \in Sudoers THEN "password" ELSE "failed"
  <2>1. Go(t, pc) /\ pc \in Pc /\ pc \in Steps(thr[t].op) \cup Ended /\ thr[t].pc = "read"
        /\ pc \notin Reading /\ late' = Noticed /\ pc # "sudo"
    BY <1>8 DEF ReadFails, Pc, Steps, Ended, Sudoers, Reading
  <2> HIDE DEF pc
  <2>2. Moved(t) /\ thr'[t].pc = pc
    BY <1>1, <2>1, GoMoves
  <2>3. t \in Looked' => t \in Looked
    BY <2>1, <2>2 DEF Moved, Active, Ended, Looked
  <2> QED
    BY <2>1, <2>2, <2>3
<1>9. CASE StageUpload(t)
  <2>1. thr[t].pc = "upload" /\ thr' = [thr EXCEPT ![t] = [thr[t] EXCEPT !.pc = "password"]]
        /\ temp' = temp \cup {<<t, "upload">>} /\ late' = late /\ file' = file
    BY <1>9 DEF StageUpload
  <2>2. thr[t].op = "transfer"
    BY <1>2, <2>1 DEF Steps, Ops
  <2> DEFINE new == [thr[t] EXCEPT !.pc = "password"]
  <2>3. new \in Thread /\ new.pc = "password" /\ new.op = thr[t].op /\ new.vm = thr[t].vm
    BY <1>2 DEF Thread, Pc
  <2>4. thr'[t] = new /\ thr' \in [Threads -> Thread]
        /\ \A u \in Threads : u # t => thr'[u] = thr[u]
    BY <2>1, <2>3 DEF TypeOK
  <2> HIDE DEF new
  <2>5. "password" \in Steps(thr[t].op)
    BY <2>2 DEF Steps
  <2> QED
    BY <2>1, <2>2, <2>3, <2>4, <2>5 DEF Moved, Active, Ended, Looked, Reading
<1>10. CASE WritePassword(t)
  <2>1. thr[t].pc = "password" /\ thr' = [thr EXCEPT ![t] = [thr[t] EXCEPT !.pc = FirstUse(t)]]
        /\ temp' = temp \cup {<<t, "password">>} /\ late' = late /\ file' = file
    BY <1>10 DEF WritePassword
  <2>2. FirstUse(t) \in Steps(thr[t].op) /\ FirstUse(t) \in Pc \ Ended /\ FirstUse(t) # "sudo"
    BY <1>2, <2>1 DEF FirstUse, Steps, Ops, Pc, Commands, Ended, Sudoers
  <2> DEFINE new == [thr[t] EXCEPT !.pc = FirstUse(t)]
  <2>3. new \in Thread /\ new.pc = FirstUse(t) /\ new.op = thr[t].op /\ new.vm = thr[t].vm
    BY <1>2, <2>2 DEF Thread
  <2>4. thr'[t] = new /\ thr' \in [Threads -> Thread]
        /\ \A u \in Threads : u # t => thr'[u] = thr[u]
    BY <2>1, <2>3 DEF TypeOK
  <2> HIDE DEF new
  <2> QED
    BY <2>1, <2>2, <2>3, <2>4 DEF Moved, Active, Looked
<1>11. CASE WriteFails(t)
  <2>1. Go(t, "failed") /\ "failed" \in Pc /\ "failed" \in Ended /\ late' = Noticed
    BY <1>11 DEF WriteFails, Pc, Ended
  <2>2. Moved(t) /\ thr'[t].pc = "failed"
    BY <1>1, <2>1, GoMoves
  <2> QED
    BY <2>1, <2>2 DEF Looked, Reading
<1>12. CASE WriteShare(t)
  <2>1. PICK pc \in Ended : Go(t, pc)
    BY <1>12 DEF WriteShare, Ended
  <2>2. pc \in Pc /\ pc \notin Reading /\ pc # "sudo" /\ pc \notin {"read", "password", "copyfrom"}
    BY DEF Pc, Ended, Reading
  <2>3. Moved(t) /\ thr'[t].pc = pc
    BY <1>1, <2>1, <2>2, GoMoves
  <2> QED
    BY <1>12, <2>2, <2>3 DEF WriteShare, Looked
<1> QED
  BY <1>5, <1>6, <1>7, <1>8, <1>9, <1>10, <1>11, <1>12

\* The commands.
LEMMA CommandMoves ==
  ASSUME TypeOK, NEW t \in Threads, CommandDone(t) \/ CommandFails(t)
  PROVE  Moves(t)
<1> DEFINE c == thr[t]
           v == thr[t].vm
<1>1. Active(t) /\ c.pc \in Commands /\ late' = Noticed /\ UNCHANGED <<on, orphans, exits>>
  BY DEF CommandDone, CommandFails, Active, Commands, Ended
<1>2. c \in Thread /\ v \in Vms /\ c.scope \in Scopes /\ c.pc \in Steps(c.op)
  BY <1>1, ActiveFacts
<1>3. Applied(v, c.pc, c.scope, t) \/ UNCHANGED <<share, copy, file>>
  BY DEF CommandDone, CommandFails
<1>4. /\ share' \in [Vms -> SUBSET Scopes] /\ copy' \in [Vms -> Owners] /\ file' \in {file, t}
      /\ \A x \in Vms : x # v => copy'[x] = copy[x]
      /\ c.pc \notin {"copypw", "sudo"} => copy' = copy
  BY <1>1, <1>2, <1>3, AppliedFacts
<1>5. /\ OnSuccess(c.pc) \in Steps(c.op) \cup Ended
      /\ OnFailure(c.op, c.pc) \subseteq Steps(c.op) \cup Ended
      /\ OnSuccess(c.pc) \in Pc /\ OnFailure(c.op, c.pc) \subseteq Pc
      /\ OnSuccess(c.pc) \in Reading => c.pc \in Reading
      /\ OnFailure(c.op, c.pc) \cap Reading # {} => c.pc \in Reading
      /\ OnSuccess(c.pc) = "sudo" => c.pc = "copypw"
      /\ "sudo" \notin OnFailure(c.op, c.pc)
      /\ {OnSuccess(c.pc)} \cup OnFailure(c.op, c.pc) \subseteq {"password", "copyto", "sudo", "ok", "failed"}
  BY <1>1, <1>2, StepTables
<1>6. ASSUME NEW pc \in {OnSuccess(c.pc)} \cup OnFailure(c.op, c.pc), Go(t, pc)
      PROVE  /\ Moved(t) /\ thr'[t].pc = pc
             /\ thr'[t].pc \in Reading => c.pc \in Reading
             /\ t \notin Looked'
  <2>1. Moved(t) /\ thr'[t].pc = pc
    BY <1>1, <1>5, <1>6, GoMoves
  <2>2. pc = "password" => c.op = "update"
    BY <1>1, <1>2, <1>6 DEF OnSuccess, OnFailure, Commands, Steps, Thread, Ops
  <2>3. thr'[t].op \in {c.op, "run"}
    BY <2>1 DEF Moved
  <2>4. t \notin Looked'
    <3>1. ASSUME t \in Looked' PROVE FALSE
      <4>1. thr'[t].pc \in {"read", "password", "copyfrom"} /\ thr'[t].op = "copyfrom"
        BY <3>1 DEF Looked
      <4>2. pc = "password"
        BY <1>5, <2>1, <4>1
      <4> QED
        BY <2>2, <2>3, <4>1, <4>2
    <3> QED
      BY <3>1
  <2> QED
    BY <1>5, <1>6, <2>1, <2>4
<1>7. CASE CommandDone(t)
  <2>1. Go(t, OnSuccess(c.pc)) /\ Applied(v, c.pc, c.scope, t)
        /\ cut' = {w \in cut : copy'[w] # None}
    BY <1>7 DEF CommandDone
  <2>2. /\ c.pc = "copypw" => copy'[v] = t /\ OnSuccess(c.pc) = "sudo"
        /\ c.pc = "sudo" => copy'[v] = None
    BY <1>1, <1>2, <2>1, AppliedFacts DEF OnSuccess
  <2>3. cut' \subseteq Vms /\ \A w \in cut : w \in cut' \/ copy'[w] = None
    BY <2>1 DEF TypeOK
  <2> QED
    BY <1>1, <1>4, <1>5, <1>6, <2>1, <2>2, <2>3 DEF Moves
<1>8. CASE CommandFails(t)
  <2>1. PICK pc \in OnFailure(c.op, c.pc) : Go(t, pc)
    BY <1>8 DEF CommandFails
  <2>2. CutOff(v, c.pc)
    BY <1>8 DEF CommandFails
  <2>3. cut' \subseteq Vms /\ (\A w \in cut : w \in cut' \/ copy'[w] = None)
        /\ (c.pc \in {"copypw", "sudo"} => v \in cut' \/ copy'[v] = None)
    BY <1>2, <2>2 DEF TypeOK, CutOff
  <2>4. c.pc \in {"copypw", "sudo"} \/ copy' = copy
    BY <1>4
  <2> QED
    BY <1>1, <1>4, <1>5, <1>6, <2>1, <2>3, <2>4 DEF Moves
<1> QED
  BY <1>7, <1>8

-----------------------------------------------------------------------------

\* A step of a request keeps the invariant.
LEMMA StepInv ==
  ASSUME Inv, NEW t \in Threads, Moves(t)
  PROVE  Inv'
<1> DEFINE v == thr[t].vm
<1>1. TypeOK /\ Active(t) /\ Moved(t) /\ v \in Vms
  BY ActiveFacts DEF Inv, Moves
<1>2. \A u \in Threads : u # t => thr'[u] = thr[u]
  BY <1>1 DEF Moved
<1>3. \A u \in Threads : u # t => (Active(u)' <=> Active(u))
  BY <1>2 DEF Active
<1>4. TypeOK'
  <2>1. thr' \in [Threads -> Thread]
        /\ \A u \in Threads : Active(u)' => thr'[u].vm # None /\ thr'[u].pc \in Steps(thr'[u].op)
    <3> SUFFICES ASSUME NEW u \in Threads, Active(u)'
                 PROVE  thr'[u].vm # None /\ thr'[u].pc \in Steps(thr'[u].op)
      BY <1>1 DEF Moved
    <3>1. CASE u = t
      BY <1>1, <3>1 DEF Moved, TypeOK
    <3>2. CASE u # t
      BY <1>1, <1>2, <1>3, <3>2 DEF TypeOK
    <3> QED
      BY <3>1, <3>2
  <2>2. temp' \subseteq (Threads \cup {Former}) \X {"upload", "password"}
    BY <1>1 DEF Moved, TypeOK
  <2>3. file' \in Owners \cup {User}
    BY <1>1 DEF Moves, TypeOK, Owners
  <2>4. late' \subseteq Threads
    BY <1>1 DEF Moves, TypeOK, Noticed, Looked
  <2> QED
    BY <1>1, <2>1, <2>2, <2>3, <2>4 DEF Moves, TypeOK
<1>5. LockExclusive'
  <2> SUFFICES ASSUME NEW a \in Threads, NEW b \in Threads, Active(a)', Active(b)',
                      thr'[a].vm = thr'[b].vm
               PROVE  a = b
    BY DEF LockExclusive
  <2>1. Active(a) /\ Active(b) /\ thr[a].vm = thr'[a].vm /\ thr[b].vm = thr'[b].vm
    BY <1>1, <1>2, <1>3 DEF Moved
  <2> QED
    BY <2>1 DEF Inv, LockExclusive
<1>6. HostFilesAreRemoved'
  <2>1. ASSUME NEW u \in Threads, thr'[u].pc \in Reading
        PROVE  <<u, "password">> \in temp'
    <3>1. CASE u = t
      <4>1. Active(t)'
        BY <2>1, <3>1 DEF Active, Reading, Ended
      <4> QED
        BY <1>1, <2>1, <3>1, <4>1 DEF Moves, Moved, Inv, HostFilesAreRemoved
    <3>2. CASE u # t
      <4>1. <<u, "password">> \in temp
        BY <1>2, <2>1, <3>2 DEF Inv, HostFilesAreRemoved
      <4> QED
        BY <1>1, <3>2, <4>1 DEF Moved
    <3> QED
      BY <3>1, <3>2
  <2>2. ASSUME NEW f \in temp'
        PROVE  IF f[1] \in Threads THEN Active(f[1])' ELSE exits' > 0
    <3>1. exits' = exits
      BY DEF Moves
    <3>2. CASE f \in temp /\ f[1] # t
      BY <1>3, <3>1, <3>2 DEF Inv, HostFilesAreRemoved
    <3>3. CASE f[1] = t
      BY <1>1, <2>2, <3>3 DEF Moved
    <3>4. f \in temp \/ f[1] = t
      BY <1>1, <2>2 DEF Moved
    <3> QED
      BY <3>2, <3>3, <3>4
  <2> QED
    BY <2>1, <2>2 DEF HostFilesAreRemoved
<1>7. CopyLeftOnlyByFailure'
  <2> SUFFICES ASSUME NEW x \in Vms, copy'[x] # None
               PROVE  x \in cut' \/ \E u \in Threads : thr'[u].vm = x /\ thr'[u].pc = "sudo"
    BY DEF CopyLeftOnlyByFailure
  <2>1. CASE x # v
    <3>1. copy[x] # None
      BY <1>1, <2>1 DEF Moves
    <3>2. CASE x \in cut
      BY <3>2 DEF Moves
    <3>3. CASE \E u \in Threads : thr[u].vm = x /\ thr[u].pc = "sudo"
      BY <1>2, <2>1, <3>3
    <3> QED
      BY <3>1, <3>2, <3>3 DEF Inv, CopyLeftOnlyByFailure
  <2>2. CASE x = v
    <3>1. CASE copy' = copy /\ thr[t].pc # "sudo"
      <4>1. CASE x \in cut
        BY <4>1 DEF Moves
      <4>2. CASE \E u \in Threads : thr[u].vm = x /\ thr[u].pc = "sudo"
        BY <1>2, <3>1, <4>2
      <4> QED
        BY <3>1, <4>1, <4>2 DEF Inv, CopyLeftOnlyByFailure
    <3>2. CASE copy'[v] = t /\ thr'[t].pc = "sudo"
      <4>1. Active(t)'
        BY <3>2 DEF Active, Ended
      <4> QED
        BY <1>1, <2>2, <3>2, <4>1 DEF Moved
    <3> QED
      BY <2>2, <3>1, <3>2 DEF Moves
  <2> QED
    BY <2>1, <2>2
<1>8. OwnPasswordIsRead'
  <2> SUFFICES ASSUME NEW u \in Threads, thr'[u].pc = "sudo"
               PROVE  \/ copy'[thr'[u].vm] \in {u, None}
                      \/ copy'[thr'[u].vm] = Former /\ thr'[u].vm \in cut'
    BY DEF OwnPasswordIsRead
  <2>1. Active(u)'
    BY DEF Active, Ended
  <2>2. CASE u = t
    BY <1>1, <2>1, <2>2 DEF Moves, Moved
  <2>3. CASE u # t
    <3>1. thr'[u] = thr[u] /\ Active(u) /\ thr[u].vm \in Vms
      BY <1>1, <1>2, <1>3, <2>1, <2>3, ActiveFacts
    <3>2. thr[u].vm # v
      BY <1>1, <2>3, <3>1 DEF Inv, LockExclusive
    <3>3. copy'[thr[u].vm] = copy[thr[u].vm]
      BY <3>1, <3>2 DEF Moves
    <3>4. thr[u].vm \in cut => thr[u].vm \in cut' \/ copy'[thr[u].vm] = None
      BY DEF Moves
    <3>5. \/ copy[thr[u].vm] \in {u, None}
          \/ copy[thr[u].vm] = Former /\ thr[u].vm \in cut
      BY <3>1 DEF Inv, OwnPasswordIsRead
    <3> QED
      BY <3>1, <3>3, <3>4, <3>5
  <2> QED
    BY <2>2, <2>3
<1>9. Watched'
  <2> SUFFICES ASSUME NEW u \in Looked', file' # None PROVE u \in late'
    BY DEF Watched
  <2>1. u \in Threads /\ thr'[u].pc \notin Ended
    BY DEF Looked, Ended
  <2>2. u \in Looked
    BY <1>2, <2>1 DEF Looked, Moves
  <2>3. CASE late' = Noticed
    BY <2>1, <2>2, <2>3 DEF Noticed, Inv, Watched
  <2>4. CASE late' = late /\ file' = file
    BY <2>2, <2>4 DEF Inv, Watched
  <2> QED
    BY <2>3, <2>4 DEF Moves
<1> QED
  BY <1>4, <1>5, <1>6, <1>7, <1>8, <1>9 DEF Inv

\* So do the steps that are not a request's.
LEMMA ArriveInv ==
  ASSUME Inv, NEW t \in Threads, NEW v \in Vms, NEW op \in Ops, NEW login \in Logins,
         Arrive(t, v, op, login)
  PROVE  Inv'
<1> DEFINE new == [Idle EXCEPT !.op = op, !.vm = v, !.login = login, !.pc = "check"]
<1>1. new \in Thread /\ new.pc = "check" /\ new.vm = v /\ new.op = op
  BY DEF Idle, Thread, Pc, Ops, Logins, Scopes
<1>2. thr' = [thr EXCEPT ![t] = new] /\ ~Active(t) /\ ~Locked(v)
      /\ UNCHANGED <<on, share, copy, cut, file, late, temp, orphans, exits>>
  BY DEF Arrive
<1> HIDE DEF new
<1>3. thr'[t] = new /\ thr' \in [Threads -> Thread] /\ \A u \in Threads : u # t => thr'[u] = thr[u]
  BY <1>1, <1>2 DEF Inv, TypeOK
<1>4. Active(t)' /\ \A u \in Threads : u # t => (Active(u)' <=> Active(u))
  BY <1>1, <1>3 DEF Active, Ended
<1>5. v # None
  BY NamesAssumption
<1>6. TypeOK'
  BY <1>1, <1>2, <1>3, <1>4, <1>5 DEF Inv, TypeOK, Steps
<1>7. LockExclusive'
  BY <1>1, <1>2, <1>3, <1>4 DEF Inv, LockExclusive, Locked
<1>8. HostFilesAreRemoved'
  BY <1>1, <1>2, <1>3, <1>4 DEF Inv, HostFilesAreRemoved, Reading
<1>9. CopyLeftOnlyByFailure'
  <2> SUFFICES ASSUME NEW x \in Vms, copy[x] # None, x \notin cut
               PROVE  \E u \in Threads : thr'[u].vm = x /\ thr'[u].pc = "sudo"
    BY <1>2 DEF CopyLeftOnlyByFailure
  <2>1. PICK u \in Threads : thr[u].vm = x /\ thr[u].pc = "sudo"
    BY DEF Inv, CopyLeftOnlyByFailure
  <2>2. u # t
    BY <1>2, <2>1 DEF Active, Ended
  <2> QED
    BY <1>3, <2>1, <2>2
<1>10. OwnPasswordIsRead'
  BY <1>1, <1>2, <1>3 DEF Inv, OwnPasswordIsRead
<1>11. Watched'
  BY <1>1, <1>2, <1>3 DEF Inv, Watched, Looked
<1> QED
  BY <1>6, <1>7, <1>8, <1>9, <1>10, <1>11 DEF Inv

\* Requests stand still while others write host files, a guest starts or goes
\* down, or a command of an ended agent ends.
LEMMA OtherInv ==
  ASSUME Inv, UNCHANGED <<thr, temp, exits>>, TypeOK',
         \A v \in Vms : copy'[v] \in {copy[v], None} \/ (copy'[v] = Former /\ v \in cut'),
         \A v \in cut : v \in cut' \/ copy'[v] = None,
         late' = Noticed \/ (late' = late /\ file' = file)
  PROVE  Inv'
<1>1. LockExclusive' /\ HostFilesAreRemoved'
  BY DEF Inv, LockExclusive, HostFilesAreRemoved, Active
<1>2. CopyLeftOnlyByFailure'
  BY DEF Inv, CopyLeftOnlyByFailure
<1>3. OwnPasswordIsRead'
  <2> SUFFICES ASSUME NEW u \in Threads, thr[u].pc = "sudo"
               PROVE  \/ copy'[thr[u].vm] \in {u, None}
                      \/ copy'[thr[u].vm] = Former /\ thr[u].vm \in cut'
    BY DEF OwnPasswordIsRead
  <2>1. thr[u].vm \in Vms
    BY ActiveFacts DEF Inv, Active, Ended
  <2>2. \/ copy[thr[u].vm] \in {u, None}
        \/ copy[thr[u].vm] = Former /\ thr[u].vm \in cut
    BY DEF Inv, OwnPasswordIsRead
  <2> QED
    BY <2>1, <2>2
<1>4. Watched'
  <2> SUFFICES ASSUME NEW u \in Looked, file' # None PROVE u \in late'
    BY DEF Watched, Looked
  <2>1. u \in Threads /\ thr'[u].pc \notin Ended
    BY DEF Looked, Ended
  <2> QED
    BY <2>1 DEF Noticed, Inv, Watched
<1> QED
  BY <1>1, <1>2, <1>3, <1>4 DEF Inv

LEMMA OrphanInv ==
  ASSUME Inv, NEW o \in orphans, OrphanEnds(o)
  PROVE  Inv'
<1>1. o \in Command /\ o.vm \in Vms /\ o.cmd \in Commands /\ o.scope \in Scopes /\ TypeOK
  BY DEF Inv, TypeOK, Command
<1>2. /\ share' \in [Vms -> SUBSET Scopes] /\ copy' \in [Vms -> Owners]
      /\ file' \in {file, Former}
      /\ o.cmd \notin {"copypw", "sudo"} => copy' = copy
      /\ \A x \in Vms : x # o.vm => copy'[x] = copy[x]
      /\ o.cmd = "copypw" => copy'[o.vm] \in {copy[o.vm], Former}
      /\ o.cmd = "sudo" => copy'[o.vm] \in {copy[o.vm], None}
  BY <1>1, AppliedFacts DEF OrphanEnds
<1>3. cut' = {w \in IF o.cmd \in {"copypw", "sudo"} THEN cut \cup {o.vm} ELSE cut : copy'[w] # None}
  BY DEF OrphanEnds, CutOff
<1>4. late' = Noticed /\ UNCHANGED <<on, temp, thr, exits>> /\ orphans' \subseteq orphans
  BY DEF OrphanEnds
<1>5. TypeOK'
  <2>1. late' \subseteq Threads
    BY <1>1, <1>4 DEF TypeOK, Noticed, Looked
  <2>2. cut' \subseteq Vms
    BY <1>1, <1>3 DEF TypeOK
  <2>3. file' \in Owners \cup {User}
    BY <1>1, <1>2 DEF TypeOK, Owners
  <2> QED
    BY <1>1, <1>2, <1>4, <2>1, <2>2, <2>3 DEF TypeOK, Active
<1>6. \A v \in Vms : copy'[v] \in {copy[v], None} \/ (copy'[v] = Former /\ v \in cut')
  <2> SUFFICES ASSUME NEW v \in Vms
               PROVE  copy'[v] \in {copy[v], None} \/ (copy'[v] = Former /\ v \in cut')
    OBVIOUS
  <2>1. CASE v # o.vm \/ o.cmd # "copypw"
    BY <1>2, <2>1
  <2>2. CASE v = o.vm /\ o.cmd = "copypw"
    BY <1>1, <1>2, <1>3, <2>2, NamesDiffer
  <2> QED
    BY <2>1, <2>2
<1>7. \A v \in cut : v \in cut' \/ copy'[v] = None
  BY <1>3
<1> QED
  BY <1>4, <1>5, <1>6, <1>7, OtherInv

LEMMA ExitInv == ASSUME Inv, Exit PROVE Inv'
<1>1. /\ thr' = [t \in Threads |-> Idle] /\ late' = {} /\ exits' = exits + 1 /\ exits < MaxExits
      /\ temp' = {<<Former, f[2]>> : f \in temp}
      /\ copy' = [v \in Vms |-> IF copy[v] = None THEN None ELSE Former]
      /\ cut' = {v \in Vms : copy[v] # None}
      /\ UNCHANGED <<on, share, file>>
  BY DEF Exit
<1>2. \A t \in Threads : thr'[t] = Idle /\ Idle.pc = "failed" /\ Idle.op = "run"
  BY <1>1 DEF Idle
<1>3. TypeOK'
  <2>1. orphans' \subseteq Command
    <3>1. \A u \in Threads : thr[u].pc \in Commands =>
            thr[u].vm \in Vms /\ thr[u].scope \in Scopes
      BY ActiveFacts DEF Inv, Active, Ended, Commands
    <3>2. \A u \in Threads : thr[u].pc \in Commands =>
            [vm |-> thr[u].vm, cmd |-> thr[u].pc, scope |-> thr[u].scope] \in Command
      BY <3>1 DEF Command
    <3>3. orphans \subseteq Command
      BY DEF Inv, TypeOK
    <3> QED
      BY <3>2, <3>3 DEF Exit
  <2>2. thr' \in [Threads -> Thread] /\ \A t \in Threads : ~Active(t)'
    BY <1>1, <1>2, IdleTyped DEF Active, Ended
  <2>3. temp' \subseteq (Threads \cup {Former}) \X {"upload", "password"}
    <3>1. \A f \in temp : f[2] \in {"upload", "password"}
      BY DEF Inv, TypeOK
    <3> QED
      BY <1>1, <3>1
  <2>4. copy' \in [Vms -> Owners] /\ cut' \subseteq Vms
    BY <1>1 DEF Owners
  <2>5. exits' \in 0..MaxExits
    BY <1>1, ExitsAssumption DEF Inv, TypeOK
  <2> QED
    BY <1>1, <2>1, <2>2, <2>3, <2>4, <2>5 DEF Inv, TypeOK
<1>4. LockExclusive'
  BY <1>2 DEF LockExclusive, Active, Ended
<1>5. HostFilesAreRemoved'
  <2>1. \A f \in temp' : f[1] \notin Threads
    BY <1>1, NamesAssumption
  <2>2. exits' > 0
    BY <1>1 DEF Inv, TypeOK
  <2> QED
    BY <1>2, <2>1, <2>2 DEF HostFilesAreRemoved, Reading
<1>6. CopyLeftOnlyByFailure'
  BY <1>1 DEF CopyLeftOnlyByFailure
<1>7. OwnPasswordIsRead' /\ Watched'
  BY <1>2 DEF OwnPasswordIsRead, Watched, Looked
<1> QED
  BY <1>3, <1>4, <1>5, <1>6, <1>7 DEF Inv

LEMMA InitInv == Init => Inv
<1> SUFFICES ASSUME Init PROVE Inv
  OBVIOUS
<1>1. \A t \in Threads : thr[t] = Idle /\ Idle.pc = "failed" /\ Idle.op = "run" /\ ~Active(t)
  BY DEF Init, Idle, Active, Ended
<1>2. TypeOK
  BY <1>1, IdleTyped, ExitsAssumption DEF Init, TypeOK, Owners
<1>3. LockExclusive /\ HostFilesAreRemoved /\ CopyLeftOnlyByFailure /\ OwnPasswordIsRead /\ Watched
  BY <1>1 DEF Init, LockExclusive, HostFilesAreRemoved, CopyLeftOnlyByFailure, OwnPasswordIsRead,
              Watched, Looked, Reading
<1> QED
  BY <1>2, <1>3 DEF Inv

LEMMA NextInv == Inv /\ [Next]_vars => Inv'
<1> SUFFICES ASSUME Inv, [Next]_vars PROVE Inv'
  OBVIOUS
<1>1. CASE UNCHANGED vars
  BY <1>1 DEF vars, Inv, TypeOK, LockExclusive, HostFilesAreRemoved, CopyLeftOnlyByFailure,
              OwnPasswordIsRead, Watched, Looked, Active
<1>2. ASSUME NEW t \in Threads, Step(t) PROVE Inv'
  <2>1. Moves(t)
    BY <1>2, HostMoves, CommandMoves DEF Step, Inv
  <2> QED
    BY <2>1, StepInv
<1>3. ASSUME NEW v \in Vms, Start(v) PROVE Inv'
  <2>1. TypeOK'
    BY <1>3 DEF Start, Inv, TypeOK, Active
  <2> QED
    BY <1>3, <2>1, OtherInv DEF Start
<1>4. ASSUME NEW v \in Vms, GoDown(v) PROVE Inv'
  <2>1. \/ copy' = [copy EXCEPT ![v] = None] /\ cut' = cut \ {v}
        \/ UNCHANGED <<copy, cut>>
    BY <1>4 DEF GoDown
  <2>2. UNCHANGED <<file, late, temp, thr, orphans, exits>>
    BY <1>4 DEF GoDown
  <2>3. share' \in [Vms -> SUBSET Scopes] /\ on' \subseteq Vms
    BY <1>4 DEF GoDown, Inv, TypeOK
  <2>4. TypeOK'
    BY <2>1, <2>2, <2>3 DEF Inv, TypeOK, Owners, Active
  <2>5. \A x \in Vms : copy'[x] \in {copy[x], None}
    BY <2>1 DEF Inv, TypeOK
  <2>6. \A x \in cut : x \in cut' \/ copy'[x] = None
    BY <2>1 DEF Inv, TypeOK
  <2> QED
    BY <2>2, <2>4, <2>5, <2>6, OtherInv
<1>5. CASE UserFile
  <2>1. file' \in {None, User} /\ UNCHANGED <<on, share, copy, cut, temp, thr, orphans, exits>>
        /\ late' = Noticed
    BY <1>5 DEF UserFile
  <2>2. TypeOK'
    BY <2>1 DEF Inv, TypeOK, Owners, Noticed, Looked, Active
  <2> QED
    BY <2>1, <2>2, OtherInv
<1>6. ASSUME NEW t \in Threads, NEW r \in Requests, Arrive(t, r[1], r[2], r[3]) PROVE Inv'
  <2>1. r[1] \in Vms /\ r[2] \in Ops /\ r[3] \in Logins
    BY RequestsAssumption
  <2> QED
    BY <1>6, <2>1, ArriveInv
<1> QED
  BY <1>1, <1>2, <1>3, <1>4, <1>5, <1>6, OrphanInv, ExitInv DEF Next

-----------------------------------------------------------------------------

\* The invariant, for every set of VMs, threads and requests and any number of
\* exits.
THEOREM GuestCorrect == Spec => []Inv
  BY InitInv, NextInv, PTL DEF Spec

\* The state stays well typed: no request leaves the steps of its operation.
THEOREM TypeCorrect == Spec => []TypeOK
<1>1. Inv => TypeOK
  BY DEF Inv
<1> QED
  BY GuestCorrect, <1>1, PTL

\* The files a request made on the host are there while VBoxManage reads them
\* and gone when it has returned, on every path but the end of the agent
\* (filetransfer.go:82-94).
THEOREM HostFilesRemoved == Spec => []HostFilesAreRemoved
<1>1. Inv => HostFilesAreRemoved
  BY DEF Inv
<1> QED
  BY GuestCorrect, <1>1, PTL

\* Only a failed command leaves the password in the guest (serialgetty.go:60-64).
THEOREM CopiesAreRemoved == Spec => []CopyLeftOnlyByFailure
<1>1. Inv => CopyLeftOnlyByFailure
  BY DEF Inv
<1> QED
  BY GuestCorrect, <1>1, PTL

\* No script is fed the password of another request (guestadditions.go:285).
THEOREM PasswordsAreNotMixed == Spec => []OwnPasswordIsRead
<1>1. Inv => OwnPasswordIsRead
  BY DEF Inv
<1> QED
  BY GuestCorrect, <1>1, PTL

\* A copy out replaces only files that appeared behind its back
\* (guestcontrol.go:117-118).
THEOREM OlderFilesAreKept == Spec => OlderFileKept
<1>1. Inv => \A t \in Threads : thr[t].pc = "copyfrom" /\ file # None => t \in late
  <2> SUFFICES ASSUME Inv, NEW t \in Threads, thr[t].pc = "copyfrom", file # None
               PROVE  t \in late
    OBVIOUS
  <2>1. thr[t].op = "copyfrom"
    <3>1. thr[t].op \in Ops /\ "copyfrom" \in Steps(thr[t].op)
      BY ActiveFacts DEF Inv, Active, Ended
    <3> QED
      BY <3>1 DEF Steps, Ops
  <2> QED
    BY <2>1 DEF Inv, Watched, Looked
<1>2. Inv /\ [Next]_vars =>
        [\A t \in Threads :
           thr[t].pc = "copyfrom" /\ thr'[t] # thr[t] /\ file # None /\ file' = t
             => t \in late]_vars
  BY <1>1
<1> QED
  BY GuestCorrect, <1>2, PTL DEF Spec, OlderFileKept

-----------------------------------------------------------------------------
(***************************************************************************)
(* The folder that is removed is the one that was found.                   *)
(***************************************************************************)

\* A folder of the session is there while its guest runs.
SessionRuns == \A v \in Vms : "transient" \in share[v] => v \in on

\* An agent that ended left at most one command on each VM.
OneOrphan ==
  /\ exits = 0 => orphans = {}
  /\ exits < 2 => \A o, p \in orphans : o.vm = p.vm => o = p

\* While a folder of the session is to be removed the VM has none of the machine,
\* or none of the session any more, and no command is left that would add one.
ScopeHolds ==
  exits < 2 =>
    \A t \in Threads :
      LET v == thr[t].vm
      IN thr[t].pc = "unshare" /\ thr[t].scope = "transient" /\ "machine" \in share[v] =>
           /\ "transient" \notin share[v]
           /\ \A o \in orphans : o.vm = v => o.cmd # "share"

Folders == SessionRuns /\ OneOrphan /\ ScopeHolds

\* What a command does to the folders.
LEMMA ShareFacts ==
  ASSUME TypeOK, NEW v \in Vms, NEW cmd \in Commands, NEW scope \in Scopes,
         NEW w, Applied(v, cmd, scope, w) \/ UNCHANGED <<share, copy, file>>
  PROVE  /\ \A x \in Vms \ {v} : share'[x] = share[x]
         /\ \/ share'[v] = share[v]
            \/ /\ cmd = "share" /\ (scope = "transient" <=> v \in on)
               /\ share'[v] = share[v] \cup {scope}
            \/ cmd = "unshare" /\ share'[v] = share[v] \ {scope}
<1>1. CASE cmd = "share"
  BY <1>1 DEF Applied, Shares, TypeOK
<1>2. CASE cmd = "unshare"
  BY <1>2 DEF Applied, Unshares, TypeOK
<1>3. CASE cmd \notin {"share", "unshare"}
  <2>1. share' = share
    BY <1>3 DEF Applied, RunsSudo, Commands
  <2> QED
    BY <2>1
<1> QED
  BY <1>1, <1>2, <1>3

\* A request comes to the removal by reading the VM.
LEMMA RemovalIsChosen ==
  ASSUME Inv, NEW t \in Threads, Step(t), thr'[t].pc = "unshare"
  PROVE  /\ UNCHANGED share /\ thr'[t].vm = thr[t].vm
         /\ thr'[t].scope = "transient" => "machine" \notin share[thr[t].vm]
<1>1. Active(t)
  BY DEF Step, Check, Refuse, Read, ReadFails, StageUpload, WritePassword, WriteFails, WriteShare,
         CommandDone, CommandFails, Active, Ended, Commands
<1>2. thr[t] \in Thread /\ thr[t].op \in Ops /\ thr[t].pc \in Steps(thr[t].op) /\ TypeOK
  BY <1>1, ActiveFacts DEF Inv
<1>3. \A pc \in Pc : Go(t, pc) => thr'[t].pc = pc
  BY <1>1, <1>2, GoFacts
<1>4. ~(CommandDone(t) \/ CommandFails(t))
  <2>1. thr[t].pc \in Commands =>
          {OnSuccess(thr[t].pc)} \cup OnFailure(thr[t].op, thr[t].pc) \subseteq
            {"password", "copyto", "sudo", "ok", "failed"}
    BY <1>2, StepTables
  <2>2. {"password", "copyto", "sudo", "ok", "failed"} \subseteq Pc
    BY DEF Pc, Ended, Commands
  <2> QED
    BY <1>3, <2>1, <2>2 DEF CommandDone, CommandFails
<1>5. ~(Check(t) \/ Refuse(t) \/ ReadFails(t) \/ WriteFails(t) \/ WriteShare(t))
  BY <1>3 DEF Check, Refuse, ReadFails, WriteFails, WriteShare, Pc, Ended
<1>6. ~(StageUpload(t) \/ WritePassword(t))
  <2>1. thr \in [Threads -> Thread]
    BY <1>2 DEF TypeOK
  <2>2. FirstUse(t) # "unshare"
    BY DEF FirstUse
  <2>3. ASSUME NEW pc, thr' = [thr EXCEPT ![t] = [thr[t] EXCEPT !.pc = pc]]
        PROVE  thr'[t].pc = pc
    BY <1>2, <2>1, <2>3 DEF Thread
  <2> QED
    BY <2>2, <2>3 DEF StageUpload, WritePassword
<1>7. Read(t)
  BY <1>4, <1>5, <1>6 DEF Step
<1>8. PICK pc \in AfterRead(t) :
        \/ pc \in Ended /\ Go(t, pc)
        \/ /\ pc \notin Ended
           /\ thr' = [thr EXCEPT ![t] = [thr[t] EXCEPT !.pc = pc, !.scope = ScopeFor(t)]]
  BY <1>7 DEF Read
<1> DEFINE new == [thr[t] EXCEPT !.pc = pc, !.scope = ScopeFor(t)]
<1>9. pc \notin Ended
  BY <1>3, <1>8 DEF Ended, Pc
<1>10. new.pc = pc /\ new.scope = ScopeFor(t) /\ new.vm = thr[t].vm
  BY <1>2 DEF Thread
<1>11. thr'[t] = new
  BY <1>2, <1>8, <1>9 DEF TypeOK
<1> HIDE DEF new
<1>12. pc = "unshare"
  BY <1>10, <1>11
<1>13. thr[t].op = "unshare" /\ share[thr[t].vm] # {}
  BY <1>2, <1>8, <1>12 DEF AfterRead, Ops
<1>14. ScopeFor(t) = FirstScope(share[thr[t].vm])
  BY <1>13 DEF ScopeFor
<1> QED
  BY <1>7, <1>10, <1>11, <1>14 DEF Read, FirstScope

\* A step of a request.
LEMMA StepFolders ==
  ASSUME Inv, Folders, NEW t \in Threads, Step(t)
  PROVE  Folders'
<1> DEFINE v == thr[t].vm
<1>1. Moves(t) /\ TypeOK /\ LockExclusive
  BY HostMoves, CommandMoves DEF Inv, Step
<1>2. Active(t) /\ UNCHANGED <<on, orphans, exits>> /\ v \in Vms /\ thr[t].scope \in Scopes
      /\ \A u \in Threads : u # t => thr'[u] = thr[u]
  BY <1>1, ActiveFacts DEF Moves, Moved
<1>3. /\ \A x \in Vms \ {v} : share'[x] = share[x]
      /\ \/ share'[v] = share[v]
         \/ thr[t].scope = "transient" /\ v \in on
         \/ "transient" \in share'[v] => "transient" \in share[v]
  <2>1. CASE CommandDone(t) \/ CommandFails(t)
    <3>1. thr[t].pc \in Commands
      BY <2>1 DEF CommandDone, CommandFails
    <3>2. Applied(v, thr[t].pc, thr[t].scope, t) \/ UNCHANGED <<share, copy, file>>
      BY <2>1 DEF CommandDone, CommandFails
    <3> QED
      BY <1>1, <1>2, <3>1, <3>2, ShareFacts
  <2>2. CASE ~(CommandDone(t) \/ CommandFails(t))
    BY <2>2 DEF Step, Check, Refuse, Read, ReadFails, StageUpload, WritePassword, WriteFails, WriteShare
  <2> QED
    BY <2>1, <2>2
<1>4. SessionRuns'
  BY <1>2, <1>3 DEF Folders, SessionRuns
<1>5. OneOrphan'
  BY <1>2 DEF Folders, OneOrphan
<1>6. ScopeHolds'
  <2> SUFFICES ASSUME exits < 2, NEW u \in Threads, thr'[u].pc = "unshare",
                      thr'[u].scope = "transient", "machine" \in share'[thr'[u].vm]
               PROVE  /\ "transient" \notin share'[thr'[u].vm]
                      /\ \A o \in orphans : o.vm = thr'[u].vm => o.cmd # "share"
    BY <1>2 DEF ScopeHolds
  <2>1. u # t
    BY RemovalIsChosen
  <2>2. thr'[u] = thr[u] /\ Active(u)
    BY <1>2, <2>1 DEF Active, Ended
  <2>3. thr[u].vm \in Vms \ {v}
    BY <1>1, <1>2, <2>1, <2>2, ActiveFacts DEF LockExclusive
  <2> QED
    BY <1>3, <2>2, <2>3 DEF Folders, ScopeHolds
<1> QED
  BY <1>4, <1>5, <1>6 DEF Folders

\* A command that an ended agent left running.
LEMMA OrphanFolders ==
  ASSUME Inv, Folders, NEW o \in orphans, OrphanEnds(o)
  PROVE  Folders'
<1>1. o \in Command /\ o.vm \in Vms /\ o.cmd \in Commands /\ o.scope \in Scopes /\ TypeOK
  BY DEF Inv, TypeOK, Command
<1>2. /\ \A x \in Vms \ {o.vm} : share'[x] = share[x]
      /\ \/ share'[o.vm] = share[o.vm]
         \/ /\ o.cmd = "share" /\ (o.scope = "transient" <=> o.vm \in on)
            /\ share'[o.vm] = share[o.vm] \cup {o.scope}
         \/ o.cmd = "unshare" /\ share'[o.vm] = share[o.vm] \ {o.scope}
  BY <1>1, ShareFacts DEF OrphanEnds
<1>3. UNCHANGED <<on, thr, exits>> /\ orphans' = orphans \ {o}
  BY DEF OrphanEnds
<1>4. SessionRuns'
  BY <1>1, <1>2, <1>3 DEF Folders, SessionRuns
<1>5. OneOrphan'
  BY <1>3 DEF Folders, OneOrphan
<1>6. ScopeHolds'
  <2> SUFFICES ASSUME exits < 2, NEW u \in Threads, thr[u].pc = "unshare",
                      thr[u].scope = "transient", "machine" \in share'[thr[u].vm]
               PROVE  /\ "transient" \notin share'[thr[u].vm]
                      /\ \A p \in orphans' : p.vm = thr[u].vm => p.cmd # "share"
    BY <1>3 DEF ScopeHolds
  <2>1. thr[u].vm \in Vms
    BY <1>1, ActiveFacts DEF Active, Ended
  <2>2. CASE thr[u].vm # o.vm
    BY <1>2, <1>3, <2>1, <2>2 DEF Folders, ScopeHolds
  <2>3. CASE thr[u].vm = o.vm
    <3>1. \A p \in orphans' : p.vm # o.vm
      BY <1>3 DEF Folders, OneOrphan
    <3>2. "transient" \notin share'[o.vm]
      <4>1. CASE "machine" \in share[o.vm]
        BY <1>2, <2>3, <4>1 DEF Folders, ScopeHolds
      <4>2. CASE "machine" \notin share[o.vm]
        <5>1. "machine" \in share'[o.vm]
          BY <2>3
        <5>2. /\ o.cmd = "share" /\ (o.scope = "transient" <=> o.vm \in on)
              /\ share'[o.vm] = share[o.vm] \cup {o.scope}
          BY <1>2, <4>2, <5>1
        <5>3. o.scope = "machine"
          BY <4>2, <5>1, <5>2
        <5>4. o.vm \notin on'
          BY <1>3, <5>2, <5>3
        <5> QED
          BY <1>1, <1>4, <5>4 DEF SessionRuns
      <4> QED
        BY <4>1, <4>2
    <3> QED
      BY <2>3, <3>1, <3>2
  <2> QED
    BY <2>2, <2>3
<1> QED
  BY <1>4, <1>5, <1>6 DEF Folders

LEMMA FoldersKept == Inv /\ Folders /\ [Next]_vars => Folders'
<1> SUFFICES ASSUME Inv, Folders, [Next]_vars PROVE Folders'
  OBVIOUS
<1>1. ASSUME NEW t \in Threads, Step(t) PROVE Folders'
  BY <1>1, StepFolders
<1>2. ASSUME NEW o \in orphans, OrphanEnds(o) PROVE Folders'
  BY <1>2, OrphanFolders
<1>3. ASSUME NEW t \in Threads, NEW r \in Requests, Arrive(t, r[1], r[2], r[3]) PROVE Folders'
  <2>1. /\ UNCHANGED <<on, share, orphans, exits>> /\ thr'[t].pc = "check"
        /\ \A u \in Threads : u # t => thr'[u] = thr[u]
    BY <1>3 DEF Arrive, Idle, Inv, TypeOK
  <2> QED
    BY <2>1 DEF Folders, SessionRuns, OneOrphan, ScopeHolds
<1>4. ASSUME NEW v \in Vms, Start(v) PROVE Folders'
  BY <1>4 DEF Start, Folders, SessionRuns, OneOrphan, ScopeHolds
<1>5. ASSUME NEW v \in Vms, GoDown(v) PROVE Folders'
  <2>1. /\ share'[v] = share[v] \ {"transient"} /\ \A x \in Vms \ {v} : share'[x] = share[x]
        /\ on' = on \ {v} /\ UNCHANGED <<thr, orphans, exits>>
    BY <1>5 DEF GoDown, Inv, TypeOK
  <2>2. SessionRuns' /\ OneOrphan'
    BY <2>1 DEF Folders, SessionRuns, OneOrphan
  <2>3. \A u \in Threads : thr[u].pc = "unshare" => thr[u].vm \in Vms
    BY ActiveFacts DEF Active, Ended, Inv
  <2>4. ScopeHolds'
    BY <2>1, <2>3 DEF Folders, ScopeHolds
  <2> QED
    BY <2>2, <2>4 DEF Folders
<1>6. ASSUME Exit PROVE Folders'
  <2>1. /\ exits' = exits + 1 /\ exits \in Nat /\ UNCHANGED <<on, share>>
        /\ orphans' = orphans \cup {[vm |-> thr[t].vm, cmd |-> thr[t].pc, scope |-> thr[t].scope] :
                                      t \in {u \in Threads : thr[u].pc \in Commands}}
        /\ \A t \in Threads : thr'[t].pc = "failed"
    BY <1>6, ExitsAssumption DEF Exit, Inv, TypeOK, Idle
  <2>2. SessionRuns' /\ ScopeHolds'
    BY <2>1 DEF Folders, SessionRuns, ScopeHolds
  <2>3. OneOrphan'
    <3>1. exits' # 0
      BY <2>1
    <3>2. ASSUME exits' < 2, NEW o \in orphans', NEW p \in orphans', o.vm = p.vm
          PROVE  o = p
      <4>1. orphans = {}
        BY <2>1, <3>2 DEF Folders, OneOrphan
      <4>2. PICK t \in Threads : /\ thr[t].pc \in Commands
                                 /\ o = [vm |-> thr[t].vm, cmd |-> thr[t].pc, scope |-> thr[t].scope]
        BY <2>1, <4>1
      <4>3. PICK u \in Threads : /\ thr[u].pc \in Commands
                                 /\ p = [vm |-> thr[u].vm, cmd |-> thr[u].pc, scope |-> thr[u].scope]
        BY <2>1, <4>1
      <4>4. thr[t].vm = thr[u].vm /\ Active(t) /\ Active(u)
        BY <3>2, <4>2, <4>3 DEF Active, Commands, Ended
      <4>5. t = u
        BY <4>4 DEF Inv, LockExclusive
      <4> QED
        BY <4>2, <4>3, <4>5
    <3> QED
      BY <3>1, <3>2 DEF OneOrphan
  <2> QED
    BY <2>2, <2>3 DEF Folders
<1>7. ASSUME UserFile \/ UNCHANGED vars PROVE Folders'
  BY <1>7 DEF UserFile, vars, Folders, SessionRuns, OneOrphan, ScopeHolds
<1> QED
  BY <1>1, <1>2, <1>3, <1>4, <1>5, <1>6, <1>7 DEF Next

LEMMA RemovalStep ==
  ASSUME Inv, Folders, [Next]_vars, NEW t \in Threads,
         thr[t].pc = "unshare", thr'[t].pc = "ok", "global" \notin share[thr[t].vm], exits < 2
  PROVE  share'[thr[t].vm] = {}
<1> DEFINE v == thr[t].vm
<1>1. Active(t) /\ TypeOK
  BY DEF Active, Ended, Inv
<1>2. v \in Vms /\ thr[t].scope \in Scopes /\ thr[t].op \in Ops /\ thr[t].pc \in Steps(thr[t].op)
      /\ thr[t] \in Thread
  BY <1>1, ActiveFacts
<1>3. Step(t)
  <2>1. ASSUME NEW u \in Threads, Step(u) PROVE u = t
    <3>1. Moves(u)
      BY <1>1, <2>1, HostMoves, CommandMoves DEF Step
    <3> QED
      BY <3>1 DEF Moves, Moved
  <2>2. ASSUME NEW u \in Threads, NEW r \in Requests, Arrive(u, r[1], r[2], r[3]) PROVE FALSE
    BY <1>1, <2>2 DEF Arrive, TypeOK, Idle
  <2>3. ~Exit
    BY DEF Exit, Idle
  <2>4. thr' # thr
    OBVIOUS
  <2> QED
    BY <2>1, <2>2, <2>3, <2>4 DEF Next, Start, GoDown, OrphanEnds, UserFile, vars
<1>4. CommandDone(t)
  <2>1. CommandDone(t) \/ CommandFails(t)
    BY <1>3 DEF Step, Check, Refuse, Read, ReadFails, StageUpload, WritePassword, WriteFails, WriteShare
  <2>2. ASSUME CommandFails(t) PROVE FALSE
    <3>1. thr[t].op = "unshare"
      BY <1>2 DEF Steps, Ops
    <3>2. OnFailure(thr[t].op, thr[t].pc) = {"failed"}
      BY <3>1 DEF OnFailure
    <3>3. Go(t, "failed") /\ "failed" \in Pc
      BY <2>2, <3>2 DEF CommandFails, Pc, Ended
    <3> QED
      BY <1>1, <3>3, GoFacts
  <2> QED
    BY <2>1, <2>2
<1>5. Unshares(v, thr[t].scope)
  BY <1>4 DEF CommandDone, Applied
<1>6. share'[v] = share[v] \ {thr[t].scope} /\ thr[t].scope \in share[v] /\ share[v] \subseteq Scopes
  BY <1>1, <1>2, <1>5 DEF Unshares, TypeOK
<1>7. thr[t].scope \in {"machine", "transient"}
  BY <1>2, <1>6 DEF Scopes
<1>8. CASE thr[t].scope = "machine"
  <2>1. "transient" \notin share[v]
    BY <1>2, <1>5, <1>8 DEF Unshares, Folders, SessionRuns
  <2> QED
    BY <1>6, <1>8, <2>1 DEF Scopes
<1>9. CASE thr[t].scope = "transient"
  <2>1. "machine" \notin share[v]
    BY <1>6, <1>9 DEF Folders, ScopeHolds
  <2> QED
    BY <1>6, <1>9, <2>1 DEF Scopes
<1> QED
  BY <1>7, <1>8, <1>9

\* A folder that is reported removed is gone from the machine and from the
\* session, whatever the guest does between the reading of its scope and the
\* removal, and whatever command an ended agent left (sharedfolder.go:101-143).
THEOREM FoldersAreRemoved == Spec => RemovedFolderIsGone
<1> DEFINE Gone ==
      \A t \in Threads :
        LET v == thr[t].vm
        IN /\ thr[t].pc = "unshare" /\ thr'[t].pc = "ok"
           /\ "global" \notin share[v] /\ exits < 2
           => share'[v] = {}
<1>1. Init => Folders
  BY DEF Init, Folders, SessionRuns, OneOrphan, ScopeHolds, Idle
<1>2. Inv /\ Folders /\ [Next]_vars => Folders'
  BY FoldersKept
<1>3. Inv /\ Folders /\ [Next]_vars => [Gone]_vars
  BY RemovalStep
<1> QED
  BY <1>1, <1>2, <1>3, GuestCorrect, PTL DEF Spec, RemovedFolderIsGone

-----------------------------------------------------------------------------

(***************************************************************************)
(* The requests use the lock of LockSpec.                                  *)
(***************************************************************************)

LEMMA WorkMembers ==
  \A v, u : <<v, u>> \in AtWorkOn <=> u \in Threads /\ Active(u) /\ thr[u].vm = v
  BY DEF AtWorkOn

\* A request that goes on keeps the lock; one that ends gives it back.
LEMMA MoveUnlocks ==
  ASSUME Inv, NEW t \in Threads, Moves(t)
  PROVE  [VmLock!LockNext]_AtWorkOn
<1>1. Active(t) /\ thr[t].vm \in Vms /\ \A u \in Threads : u # t => thr'[u] = thr[u]
  BY ActiveFacts DEF Inv, Moves, Moved
<1>2. \A u \in Threads : u # t => (Active(u)' <=> Active(u))
  BY <1>1 DEF Active
<1>3. CASE Active(t)'
  <2>1. thr'[t].vm = thr[t].vm
    BY <1>3 DEF Moves, Moved
  <2>2. AtWorkOn' = AtWorkOn
    BY <1>1, <1>2, <1>3, <2>1 DEF AtWorkOn
  <2> QED
    BY <2>2
<1>4. CASE ~Active(t)'
  <2>1. AtWorkOn' = AtWorkOn \ {<<thr[t].vm, t>>}
    BY <1>1, <1>2, <1>4 DEF AtWorkOn
  <2>2. <<thr[t].vm, t>> \in AtWorkOn
    BY <1>1, WorkMembers
  <2> QED
    BY <1>1, <2>1, <2>2 DEF VmLock!LockNext, VmLock!Unlock
<1> QED
  BY <1>3, <1>4

LEMMA ArriveLocks ==
  ASSUME Inv, NEW t \in Threads, NEW v \in Vms, NEW op \in Ops, NEW login \in Logins,
         Arrive(t, v, op, login)
  PROVE  VmLock!LockNext
<1> DEFINE new == [Idle EXCEPT !.op = op, !.vm = v, !.login = login, !.pc = "check"]
<1>1. new.pc = "check" /\ new.vm = v
  BY DEF Idle
<1>2. thr' = [thr EXCEPT ![t] = new] /\ ~Active(t) /\ ~Locked(v)
  BY DEF Arrive
<1> HIDE DEF new
<1>3. thr'[t] = new /\ \A u \in Threads : u # t => thr'[u] = thr[u]
  BY <1>2 DEF Inv, TypeOK
<1>4. Active(t)' /\ \A u \in Threads : u # t => (Active(u)' <=> Active(u))
  BY <1>1, <1>3 DEF Active, Ended
<1>5. AtWorkOn' = AtWorkOn \cup {<<v, t>>}
  BY <1>1, <1>2, <1>3, <1>4 DEF AtWorkOn
<1>6. \A u \in Threads : <<v, u>> \notin AtWorkOn
  BY <1>2, WorkMembers DEF Locked
<1>7. \A w \in Vms : <<w, t>> \notin AtWorkOn
  BY <1>2, WorkMembers
<1> QED
  BY <1>5, <1>6, <1>7 DEF VmLock!LockNext, VmLock!TryLock

LEMMA LockStep == Inv /\ [Next]_vars => [VmLock!LockNext]_AtWorkOn
<1> SUFFICES ASSUME Inv, [Next]_vars PROVE [VmLock!LockNext]_AtWorkOn
  OBVIOUS
<1>1. ASSUME UNCHANGED thr PROVE UNCHANGED AtWorkOn
  BY <1>1 DEF AtWorkOn, Active
<1>2. ASSUME NEW t \in Threads, Step(t) PROVE [VmLock!LockNext]_AtWorkOn
  BY <1>2, HostMoves, CommandMoves, MoveUnlocks DEF Step, Inv
<1>3. ASSUME NEW t \in Threads, NEW r \in Requests, Arrive(t, r[1], r[2], r[3])
      PROVE  VmLock!LockNext
  <2>1. r[1] \in Vms /\ r[2] \in Ops /\ r[3] \in Logins
    BY RequestsAssumption
  <2> QED
    BY <1>3, <2>1, ArriveLocks
<1>4. ASSUME Exit PROVE VmLock!LockNext
  <2>1. \A u \in Threads : ~Active(u)'
    BY <1>4 DEF Exit, Active, Idle, Ended
  <2>2. AtWorkOn' = {}
    BY <2>1 DEF AtWorkOn
  <2> QED
    BY <2>2 DEF VmLock!LockNext, VmLock!AllEnd
<1>5. ASSUME \/ \E v \in Vms : Start(v) \/ GoDown(v)
             \/ \E o \in orphans : OrphanEnds(o)
             \/ UserFile
             \/ UNCHANGED vars
      PROVE  UNCHANGED thr
  BY <1>5 DEF Start, GoDown, OrphanEnds, UserFile, vars
<1> QED
  BY <1>1, <1>2, <1>3, <1>4, <1>5 DEF Next

\* What is done with a guest's password is done under the lock of its VM: a
\* request takes it before its first check and gives it back when it returns,
\* and an agent that ends gives back all of them (server.go:1555-1567).
THEOREM GuestLocks == Spec => UsesLock
<1>1. Init => VmLock!LockInit
  BY DEF Init, Idle, Active, Ended, AtWorkOn, VmLock!LockInit
<1> QED
  BY <1>1, LockStep, GuestCorrect, PTL DEF Spec, UsesLock, VmLock!LockOnly

=============================================================================
