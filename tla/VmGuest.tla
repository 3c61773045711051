-------------------------------- MODULE VmGuest --------------------------------
(***************************************************************************)
(* Access to a guest with its user's password: running a command and       *)
(* copying a file out (internal/vbox/guestcontrol.go), copying a file in   *)
(* (filetransfer.go), enabling the serial login (serialgetty.go), updating *)
(* the Guest Additions (guestadditions.go), and the shared folders a file  *)
(* may go through instead (sharedfolder.go).                               *)
(*                                                                         *)
(* A thread is the goroutine of a request; it holds the lock of its VM.    *)
(* The password passes through a file on the host and, for an account that *)
(* is not root, through a copy at one fixed path in the guest.  One host   *)
(* path stands for the destination of the copies out and for what is       *)
(* written into the shared folder; one name stands for the folders.        *)
(*                                                                         *)
(* Exit ends the agent where it is, with Quit's timeout or the launcher's  *)
(* taskkill: deferred removals do not run and the VBoxManage processes go  *)
(* on, while the next agent starts with nothing locked.  The gate          *)
(* (VmGate), what a command prints, and which disc is in the drive are     *)
(* left out.                                                               *)
(***************************************************************************)
EXTENDS FiniteSets, Naturals

CONSTANTS
  Vms, Threads,
  Requests,      \* which operations are asked for, on which VM, as whom
  None, Former,  \* nobody; an agent that has ended
  User,          \* whoever else writes files on the host
  MaxExits       \* bound on how often the agent ends

Ops     == {"run", "copyfrom", "transfer", "getty", "update", "share", "unshare"}
Sudoers == {"getty", "update"}
Logins  == {"none", "root", "user"}
Scopes  == {"machine", "global", "transient"}

ASSUME RequestsAssumption == Requests \subseteq Vms \X Ops \X Logins
ASSUME ExitsAssumption    == MaxExits \in Nat
ASSUME NamesAssumption    == /\ None \notin Threads /\ Former \notin Threads
                             /\ User \notin Threads /\ None \notin Vms
                             /\ Cardinality({None, Former, User}) = 3

VARIABLES
  on,       \* the VMs whose guest runs
  share,    \* the scopes in which a VM has the folder
  copy,     \* whose password lies at guestPwPath in the guest
  cut,      \* VMs whose copy was written or kept by a command that failed
  file,     \* who wrote the file at the host path
  late,     \* threads whose destination appeared after they looked
  temp,     \* temporary files on the host, with who made them
  thr,      \* the requests
  orphans,  \* commands of an ended agent that still run
  exits     \* how often the agent has ended

vars == <<on, share, copy, cut, file, late, temp, thr, orphans, exits>>

Commands == {"insert", "guest", "copyfrom", "mkdir", "copyto", "copypw", "sudo",
             "share", "unshare"}
Ended    == {"ok", "failed"}
Pc       == Commands \cup Ended \cup {"check", "read", "upload", "password", "write"}
\* The commands that are given the password file.
Reading  == {"guest", "copyfrom", "mkdir", "copyto", "copypw", "sudo"}

\* What a request may come to.
Steps(op) ==
  {"check", "read"} \cup
  CASE op = "run"      -> {"password", "guest"}
    [] op = "copyfrom" -> {"password", "copyfrom"}
    [] op = "transfer" -> {"write", "upload", "password", "mkdir", "copyto"}
    [] op = "getty"    -> {"password", "guest", "copypw", "sudo"}
    [] op = "update"   -> {"insert", "password", "guest", "copypw", "sudo"}
    [] OTHER           -> {op}

Owners  == Threads \cup {None, Former}
Thread  == [op : Ops, vm : Vms \cup {None}, login : Logins, pc : Pc,
            scope : Scopes]
Idle    == [op |-> "run", vm |-> None, login |-> "none", pc |-> "failed",
            scope |-> "machine"]
Command == [vm : Vms, cmd : Commands, scope : Scopes]

Active(t) == thr[t].pc \notin Ended

\* Mutant: updating the Guest Additions takes no lock.
LockedButUpdate(v) == \E t \in Threads : Active(t) /\ thr[t].vm = v /\ thr[t].op # "update"

\* tryLockVm.
Locked(v) == \E t \in Threads : Active(t) /\ thr[t].vm = v

\* Mutant: folders of the session come first.
FirstScopeOfSession(S) == IF "transient" \in S THEN "transient"
                          ELSE IF "machine" \in S THEN "machine" ELSE "global"

\* parseSharedFolders lists the machine's folders, then the global ones, then
\* those of the session; RemoveSharedFolder takes the first of the name.
FirstScope(S) == IF "machine" \in S THEN "machine"
                 ELSE IF "global" \in S THEN "global" ELSE "transient"

-----------------------------------------------------------------------------

Init ==
  /\ on \in SUBSET Vms
  /\ share \in [Vms -> SUBSET Scopes]
  /\ \A v \in Vms : /\ "transient" \in share[v] => v \in on
                    /\ (\A l \in Logins : <<v, "unshare", l>> \notin Requests) => share[v] = {}
  /\ copy = [v \in Vms |-> None]
  /\ cut = {}
  /\ file \in {None, User}
  /\ late = {}
  /\ temp = {}
  /\ thr = [t \in Threads |-> Idle]
  /\ orphans = {}
  /\ exits = 0

\* Mutant: the files are removed only after a success.
GoRemovesOnSuccess(t, pc) ==
  /\ thr' = [thr EXCEPT ![t] = IF pc \in Ended THEN [Idle EXCEPT !.pc = pc]
                               ELSE [thr[t] EXCEPT !.pc = pc]]
  /\ temp' = IF pc = "ok" THEN {f \in temp : f[1] # t} ELSE temp

\* t goes on at pc; when the handler returns, the deferred removals of its
\* temporary files run and the VM's lock is released.
Go(t, pc) ==
  /\ thr' = [thr EXCEPT ![t] = IF pc \in Ended THEN [Idle EXCEPT !.pc = pc]
                               ELSE [thr[t] EXCEPT !.pc = pc]]
  /\ temp' = IF pc \in Ended THEN {f \in temp : f[1] # t} ELSE temp

\* Threads that have looked at the destination of their copy.
Looked == {t \in Threads : thr[t].op = "copyfrom" /\ thr[t].pc \in {"read", "password", "copyfrom"}}

\* late after a step that settles thr' and file'.
Noticed ==
  {t \in late \cup (IF file = None /\ file' # None THEN Looked ELSE {}) :
     thr'[t].pc \notin Ended}

\* A request takes the lock of its VM.
Arrive(t, v, op, login) ==
  /\ ~Active(t) /\ ~Locked(v)
  /\ thr' = [thr EXCEPT ![t] = [Idle EXCEPT !.op = op, !.vm = v, !.login = login,
                                            !.pc = "check"]]
  /\ UNCHANGED <<on, share, copy, cut, file, late, temp, orphans, exits>>

\* The checks before the first command: a command in the guest needs the user
\* and the password (a file can do without), and the destination of a copy out
\* must not exist.
Accepts(t) ==
  /\ thr[t].op \in {"run", "copyfrom"} \cup Sudoers => thr[t].login # "none"
  /\ thr[t].op = "copyfrom" => file = None

\* Mutant: the destination is not looked at.
CheckNotFile(t) ==
  /\ thr[t].pc = "check"
  /\ thr[t].op \in {"run", "copyfrom"} \cup Sudoers => thr[t].login # "none"
  /\ Go(t, "read")
  /\ UNCHANGED <<on, share, copy, cut, file, orphans, exits>>
  /\ late' = Noticed

Check(t) ==
  /\ thr[t].pc = "check"
  /\ Accepts(t)
  /\ Go(t, "read")
  /\ UNCHANGED <<on, share, copy, cut, file, orphans, exits>>
  /\ late' = Noticed

\* The request is refused: by the above, for a name, path or argument that is
\* malformed, or because VBoxManage is not found.
Refuse(t) ==
  /\ thr[t].pc = "check"
  /\ Go(t, "failed")
  /\ UNCHANGED <<on, share, copy, cut, file, orphans, exits>>
  /\ late' = Noticed

\* Where the reading of the VM sends a request.  A file goes into the first
\* folder whose directory exists, if any.  An update inserts the disc where it
\* finds room for it.
AfterRead(t) ==
  LET v == thr[t].vm
      live == v \in on
      guest == IF live /\ thr[t].login # "none" THEN {"upload"} ELSE {"failed"}
  IN CASE thr[t].op \in {"run", "copyfrom"} -> IF live THEN {"password"} ELSE {"failed"}
       [] thr[t].op = "transfer" -> guest \cup (IF share[v] = {} THEN {} ELSE {"write"})
       [] thr[t].op = "getty"    -> {"password", "failed"}
       [] thr[t].op = "update"   -> {"insert", "password"}
       [] thr[t].op = "share"    -> {"share"}
       [] thr[t].op = "unshare"  -> IF share[v] = {} THEN {"failed"} ELSE {"unshare"}

\* Which scope the command will name: a folder is added to the session of a
\* live VM, and removed from the scope it was found in.
ScopeFor(t) ==
  LET v == thr[t].vm
  IN CASE thr[t].op = "share" -> IF v \in on THEN "transient" ELSE "machine"
       [] thr[t].op = "unshare" /\ share[v] # {} -> FirstScope(share[v])
       [] OTHER -> "machine"

\* showvminfo.
Read(t) ==
  /\ thr[t].pc = "read"
  /\ \E pc \in AfterRead(t) :
       \/ pc \in Ended /\ Go(t, pc)
       \/ /\ pc \notin Ended
          /\ thr' = [thr EXCEPT ![t] = [thr[t] EXCEPT !.pc = pc, !.scope = ScopeFor(t)]]
          /\ UNCHANGED temp
  /\ UNCHANGED <<on, share, copy, cut, file, orphans, exits>>
  /\ late' = Noticed

\* A reading that fails ends the request, except where it is best effort.
ReadFails(t) ==
  /\ thr[t].pc = "read"
  /\ Go(t, IF thr[t].op \in Sudoers THEN "password" ELSE "failed")
  /\ UNCHANGED <<on, share, copy, cut, file, orphans, exits>>
  /\ late' = Noticed

\* writeTempFile: the upload is staged on the host.
StageUpload(t) ==
  /\ thr[t].pc = "upload"
  /\ thr' = [thr EXCEPT ![t] = [thr[t] EXCEPT !.pc = "password"]]
  /\ temp' = temp \cup {<<t, "upload">>}
  /\ UNCHANGED <<on, share, copy, cut, file, late, orphans, exits>>

\* Mutant: a command run for the user is treated as one under sudo.
FirstUseSudoes(t) ==
  CASE thr[t].op = "copyfrom" -> "copyfrom"
    [] thr[t].op = "transfer" -> "mkdir"
    [] thr[t].login # "root"  -> "copypw"
    [] OTHER -> "guest"

\* What the password file is first used for.
FirstUse(t) ==
  CASE thr[t].op = "copyfrom" -> "copyfrom"
    [] thr[t].op = "transfer" -> "mkdir"
    [] thr[t].op \in Sudoers /\ thr[t].login # "root" -> "copypw"
    [] OTHER -> "guest"

\* writeCredentialFile.
WritePassword(t) ==
  /\ thr[t].pc = "password"
  /\ thr' = [thr EXCEPT ![t] = [thr[t] EXCEPT !.pc = FirstUse(t)]]
  /\ temp' = temp \cup {<<t, "password">>}
  /\ UNCHANGED <<on, share, copy, cut, file, late, orphans, exits>>

\* Either file cannot be written, and is removed.
WriteFails(t) ==
  /\ thr[t].pc \in {"upload", "password"}
  /\ Go(t, "failed")
  /\ UNCHANGED <<on, share, copy, cut, file, orphans, exits>>
  /\ late' = Noticed

\* os.WriteFile into the shared folder, over whatever is there; it may fail,
\* and may have written by then.
WriteShare(t) ==
  /\ thr[t].pc = "write"
  /\ \/ file' = t /\ \E pc \in Ended : Go(t, pc)
     \/ UNCHANGED file /\ Go(t, "failed")
  /\ late' = Noticed
  /\ UNCHANGED <<on, share, copy, cut, orphans, exits>>

-----------------------------------------------------------------------------

(***************************************************************************)
(* What a command does where VirtualBox and the guest accept it, on behalf *)
(* of w.  A command in the guest needs the guest to run.                   *)
(***************************************************************************)

\* Mutant: the script keeps the copy.
RunsSudoKeeps(v) == v \in on /\ copy[v] # None /\ UNCHANGED copy

\* The script under sudo reads the copy and removes it, whatever it returns.
RunsSudo(v) ==
  /\ v \in on /\ copy[v] # None
  /\ copy' = [copy EXCEPT ![v] = None]

\* A folder is added to or removed from a machine that is off, or a session.
Shares(v, scope) ==
  /\ scope = "transient" <=> v \in on
  /\ scope \notin share[v]
  /\ share' = [share EXCEPT ![v] = @ \cup {scope}]

Unshares(v, scope) ==
  /\ scope = "transient" => v \in on
  /\ scope = "machine" => v \notin on
  /\ scope \in share[v]
  /\ share' = [share EXCEPT ![v] = @ \ {scope}]

Applied(v, cmd, scope, w) ==
  CASE cmd = "copypw"   -> v \in on /\ copy' = [copy EXCEPT ![v] = w] /\ UNCHANGED <<share, file>>
    [] cmd = "sudo"     -> RunsSudo(v) /\ UNCHANGED <<share, file>>
    [] cmd = "copyfrom" -> v \in on /\ file' = w /\ UNCHANGED <<share, copy>>
    [] cmd = "share"    -> Shares(v, scope) /\ UNCHANGED <<copy, file>>
    [] cmd = "unshare"  -> Unshares(v, scope) /\ UNCHANGED <<copy, file>>
    [] cmd = "insert"   -> UNCHANGED <<share, copy, file>>
    [] OTHER            -> v \in on /\ UNCHANGED <<share, copy, file>>

\* What follows a success.
OnSuccess(pc) ==
  CASE pc = "insert" -> "password"
    [] pc = "mkdir"  -> "copyto"
    [] pc = "copypw" -> "sudo"
    [] OTHER         -> "ok"

\* What follows a failure: the disc and the directory are best effort, and a
\* command run for the user is reported completed with any exit code of
\* VBoxManage that is not negative, an error of its own included.
OnFailure(op, pc) ==
  CASE pc = "insert" -> {"password"}
    [] pc = "mkdir"  -> {"copyto"}
    [] op = "run"    -> {"ok", "failed"}
    [] OTHER         -> {"failed"}

\* A command on v is cut off: what it left of the copy is nobody's to remove.
CutOff(v, cmd) ==
  cut' = {w \in IF cmd \in {"copypw", "sudo"} THEN cut \cup {v} ELSE cut : copy'[w] # None}

\* A command succeeds.
CommandDone(t) ==
  LET c == thr[t]
  IN /\ c.pc \in Commands
     /\ Applied(c.vm, c.pc, c.scope, t)
     /\ Go(t, OnSuccess(c.pc))
     /\ late' = Noticed
     /\ cut' = {v \in cut : copy'[v] # None}
     /\ UNCHANGED <<on, orphans, exits>>

\* A command is refused, fails in the guest, or is killed by its timeout or
\* because the client has gone, before or after it took effect.
CommandFails(t) ==
  LET c == thr[t]
  IN /\ c.pc \in Commands
     /\ Applied(c.vm, c.pc, c.scope, t) \/ UNCHANGED <<share, copy, file>>
     /\ \E pc \in OnFailure(c.op, c.pc) : Go(t, pc)
     /\ late' = Noticed
     /\ CutOff(c.vm, c.pc)
     /\ UNCHANGED <<on, orphans, exits>>

-----------------------------------------------------------------------------

\* The agent ends, and is started again.
Exit ==
  /\ exits < MaxExits
  /\ exits' = exits + 1
  /\ thr' = [t \in Threads |-> Idle]
  /\ late' = {}
  /\ temp' = {<<Former, f[2]>> : f \in temp}
  /\ copy' = [v \in Vms |-> IF copy[v] = None THEN None ELSE Former]
  /\ cut' = {v \in Vms : copy[v] # None}
  /\ orphans' = orphans \cup {[vm |-> thr[t].vm, cmd |-> thr[t].pc, scope |-> thr[t].scope] :
                                t \in {u \in Threads : thr[u].pc \in Commands}}
  /\ UNCHANGED <<on, share, file>>

\* A command of an agent that has ended ends too.
OrphanEnds(o) ==
  /\ Applied(o.vm, o.cmd, o.scope, Former) \/ UNCHANGED <<share, copy, file>>
  /\ orphans' = orphans \ {o}
  /\ CutOff(o.vm, o.cmd)
  /\ UNCHANGED <<on, temp, thr, exits>>
  /\ late' = Noticed

\* The guest is started, or goes down: by itself, by the user, or at the end of
\* an update.  The folders of the session go with it, and the copy may, being
\* under /tmp.
Start(v) ==
  /\ v \notin on
  /\ on' = on \cup {v}
  /\ UNCHANGED <<share, copy, cut, file, late, temp, thr, orphans, exits>>

GoDown(v) ==
  /\ v \in on
  /\ on' = on \ {v}
  /\ share' = [share EXCEPT ![v] = @ \ {"transient"}]
  /\ \/ copy' = [copy EXCEPT ![v] = None] /\ cut' = cut \ {v}
     \/ UNCHANGED <<copy, cut>>
  /\ UNCHANGED <<file, late, temp, thr, orphans, exits>>

\* Somebody else writes or removes the host file.
UserFile ==
  /\ file' = IF file = None THEN User ELSE None
  /\ UNCHANGED <<on, share, copy, cut, temp, thr, orphans, exits>>
  /\ late' = Noticed

Step(t) ==
  \/ Check(t)
  \/ Refuse(t)
  \/ Read(t)
  \/ ReadFails(t)
  \/ StageUpload(t)
  \/ WritePassword(t)
  \/ WriteFails(t)
  \/ WriteShare(t)
  \/ CommandDone(t)
  \/ CommandFails(t)

Next ==
  \/ \E t \in Threads :
       \/ \E r \in Requests : Arrive(t, r[1], r[2], r[3])
       \/ Step(t)
  \/ \E v \in Vms : Start(v) \/ GoDown(v)
  \/ \E o \in orphans : OrphanEnds(o)
  \/ Exit
  \/ UserFile

Spec == Init /\ [][Next]_vars

-----------------------------------------------------------------------------

TypeOK ==
  /\ on \subseteq Vms
  /\ share \in [Vms -> SUBSET Scopes]
  /\ copy \in [Vms -> Owners]
  /\ cut \subseteq Vms
  /\ file \in Owners \cup {User}
  /\ late \subseteq Threads
  /\ temp \subseteq (Threads \cup {Former}) \X {"upload", "password"}
  /\ thr \in [Threads -> Thread]
  /\ \A t \in Threads : Active(t) => thr[t].vm # None /\ thr[t].pc \in Steps(thr[t].op)
  /\ orphans \subseteq Command
  /\ exits \in 0..MaxExits

\* The password and the upload are on the host while a command of their request
\* may read them and no longer, unless the agent ended under the request: then
\* nothing removes them, the next agent included (filetransfer.go:189-196).
HostFilesAreRemoved ==
  /\ \A t \in Threads : thr[t].pc \in Reading => <<t, "password">> \in temp
  /\ \A f \in temp : IF f[1] \in Threads THEN Active(f[1]) ELSE exits > 0

\* The copy of the password in the guest is gone when the request has ended,
\* whatever its script returned in the guest: what leaves it there is a command
\* that failed, or that an ended agent had started (serialgetty.go:60-64).
CopyLeftOnlyByFailure ==
  \A v \in Vms :
    copy[v] # None =>
      v \in cut \/ \E t \in Threads : thr[t].vm = v /\ thr[t].pc = "sudo"

\* The serial login and the update use one path in the guest.  No script is fed
\* the password of another request of this agent, nor one an earlier agent left
\* there, only one that a command of an earlier agent wrote since
\* (guestadditions.go:285).
OwnPasswordIsRead ==
  \A t \in Threads :
    thr[t].pc = "sudo" =>
      LET c == copy[thr[t].vm]
      IN c \in {t, None} \/ (c = Former /\ thr[t].vm \in cut)

\* A copy out of the guest replaces a file only if that file appeared after the
\* request looked for one: "it refuses to overwrite an existing file"
\* (guestcontrol.go:117-118).
OlderFileKept ==
  [][\A t \in Threads :
       thr[t].pc = "copyfrom" /\ thr'[t] # thr[t] /\ file # None /\ file' = t
         => t \in late]_vars

\* When a folder is reported removed, the VM has none of that name, unless
\* there is a global one: no folder of the session is left behind one of the
\* machine (sharedfolder.go:98-100).  Two commands that ended agents left running
\* may put it into both scopes once the scope has been chosen, which takes an
\* agent that ended twice.
RemovedFolderIsGone ==
  [][\A t \in Threads :
       LET v == thr[t].vm
       IN /\ thr[t].pc = "unshare" /\ thr'[t].pc = "ok"
          /\ "global" \notin share[v] /\ exits < 2
          => share'[v] = {}]_vars

-----------------------------------------------------------------------------

\* The lock seen from the outside: which request is at work on which VM.
AtWorkOn == {<<thr[t].vm, t>> : t \in {u \in Threads : Active(u)}}

VmLock == INSTANCE LockSpec WITH held <- AtWorkOn

\* What these requests do to a VM they do under its lock, taken and given back
\* as LockSpec allows (server.go:1555-1571).
UsesLock == VmLock!LockOnly

=============================================================================
