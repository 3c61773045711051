----------------------------- MODULE AgentLife -----------------------------
(***************************************************************************)
(* The processes of TabVM: the launcher (cmd/launcher/main.go), which is   *)
(* started by a double click, probes the agent's health endpoint, replaces *)
(* an agent of another version and opens the browser; and the agent        *)
(* (main.go), which reads or makes the machine's session token, takes the  *)
(* loopback port and serves until it is quit or killed.                    *)
(*                                                                         *)
(* Launches of several versions may be at work together: a portable copy   *)
(* of an older release keeps its own launcher.  A launcher starts the      *)
(* agent in its own directory, which has its version.  Left out: a foreign *)
(* program on the port, and the wording of failures.                       *)
(***************************************************************************)
EXTENDS Naturals, FiniteSets

CONSTANTS
  Launches,   \* launcher processes, one double click after another each
  Agents,     \* agent processes, each used once: this bounds how many there are
  Versions,   \* releases on the machine
  None        \* no process, no token, no release

ASSUME NoneAssumption == None \notin Agents \cup Versions

VARIABLES
  launch,   \* per launcher: where it is, its release, the kills it has tried
  agent,    \* per agent process: where it is, its release, its session token
  port,     \* the agent that listens on 127.0.0.1:5230
  file,     \* session.token: the agent whose token it holds, None when blank
  news,     \* ghost: launchers that have not looked since the port was taken
  mishap    \* ghost: how another token may have come to be made, see Mishaps

vars == <<launch, agent, port, file, news, mishap>>

LaunchPc == {"off", "probe", "kill", "gone", "start", "up", "open"}
AgentPc ==
  {"unused", "token", "write", "fill", "bind", "serving", "quitting", "ended"}

Launch == [pc : LaunchPc, version : Versions \cup {None}, kills : 0..2]
Agent ==
  [pc : AgentPc, version : Versions \cup {None}, token : Agents \cup {None}]

\* Two agents were making the token at the same time; or an agent made one
\* because it could not read the one that was there.
Mishaps == {"race", "unread"}

\* The processes that exist.
Running == {a \in Agents : agent[a].pc \notin {"unused", "ended"}}

\* Those between the read that found no token and the end of the write.
Making == {a \in Agents : agent[a].pc \in {"write", "fill"}}

Unused == {a \in Agents : agent[a].pc = "unused"}

Init ==
  /\ launch = [l \in Launches |-> [pc |-> "off", version |-> None, kills |-> 0]]
  /\ agent = [a \in Agents |-> [pc |-> "unused", version |-> None, token |-> None]]
  /\ port = None
  /\ file = None
  /\ news = {}
  /\ mishap = {}

-----------------------------------------------------------------------------

(***************************************************************************)
(* The launcher.                                                           *)
(***************************************************************************)

Goes(l, pc) == launch' = [launch EXCEPT ![l].pc = pc]

\* The user opens TabVM from the directory of release v.  Each launch starts at
\* most one agent, so one is kept for it.
Begin(l, v) ==
  /\ launch[l].pc = "off"
  /\ Cardinality(Unused) > Cardinality({m \in Launches : launch[m].pc # "off"})
  /\ launch' = [launch EXCEPT ![l] = [pc |-> "probe", version |-> v, kills |-> 0]]
  /\ news' = news \ {l}
  /\ UNCHANGED <<agent, port, file, mishap>>

\* probeAgent gets an answer: launchAction compares the releases.
ProbeAnswered(l) ==
  /\ launch[l].pc = "probe"
  /\ port # None
  /\ Goes(l, IF agent[port].version = launch[l].version THEN "open" ELSE "kill")
  /\ news' = news \ {l}
  /\ UNCHANGED <<agent, port, file, mishap>>

\* Mutant: a probe without an answer is taken for a stale agent.
ProbeFailsRestarts(l) ==
  /\ launch[l].pc = "probe"
  /\ Goes(l, "kill")
  /\ UNCHANGED <<agent, port, file, news, mishap>>

\* probeAgent gets no answer: nobody listens, or the answer takes longer than
\* the 600 ms of the client, which may happen at any time.
ProbeFails(l) ==
  /\ launch[l].pc = "probe"
  /\ Goes(l, "start")
  /\ UNCHANGED <<agent, port, file, news, mishap>>

\* Processes of S end from outside: the port goes with its holder.
End(S) ==
  /\ agent' = [a \in Agents |-> IF a \in S THEN [agent[a] EXCEPT !.pc = "ended"] ELSE agent[a]]
  /\ port' = IF port \in S THEN None ELSE port

\* taskkill by image name ends every agent it may end; its error is ignored.
KillAgentProcess(l) ==
  /\ launch[l].pc = "kill"
  /\ \E S \in SUBSET Running : End(S)
  /\ launch' = [launch EXCEPT ![l].pc = "gone", ![l].kills = @ + 1]
  /\ UNCHANGED <<file, news, mishap>>

\* waitForAgentGone: the first probe that fails, for whatever reason, is the
\* end of the old agent.
AgentGone(l) ==
  /\ launch[l].pc = "gone"
  /\ Goes(l, "start")
  /\ UNCHANGED <<agent, port, file, news, mishap>>

\* waitForAgentGone passes its deadline: the kill is tried once more, and then
\* the launch is given up.
StillThere(l) ==
  /\ launch[l].pc = "gone"
  /\ Goes(l, IF launch[l].kills < 2 THEN "kill" ELSE "off")
  /\ UNCHANGED <<agent, port, file, news, mishap>>

\* startAgent starts the binary next to the launcher.
StartAgent(l) ==
  /\ launch[l].pc = "start"
  /\ \E a \in Unused :
       agent' = [agent EXCEPT ![a].pc = "token", ![a].version = launch[l].version]
  /\ Goes(l, "up")
  /\ UNCHANGED <<port, file, news, mishap>>

StartFails(l) ==
  /\ launch[l].pc = "start"
  /\ Goes(l, "off")
  /\ UNCHANGED <<agent, port, file, news, mishap>>

\* Mutant: waitForAgent takes any agent that answers.
WaitAnsweredAny(l) ==
  /\ launch[l].pc = "up"
  /\ port # None
  /\ Goes(l, "open")
  /\ news' = news \ {l}
  /\ UNCHANGED <<agent, port, file, mishap>>

\* waitForAgent: an agent of the launcher's own release answered.
WaitAnswered(l) ==
  /\ launch[l].pc = "up"
  /\ port # None
  /\ agent[port].version = launch[l].version
  /\ Goes(l, "open")
  /\ news' = news \ {l}
  /\ UNCHANGED <<agent, port, file, mishap>>

\* waitForAgent passes its deadline: failLaunch.
WaitOver(l) ==
  /\ launch[l].pc = "up"
  /\ Goes(l, "off")
  /\ UNCHANGED <<agent, port, file, news, mishap>>

OpenBrowser(l) ==
  /\ launch[l].pc = "open"
  /\ Goes(l, "off")
  /\ UNCHANGED <<agent, port, file, news, mishap>>

\* The installer ends a launcher that is at work.
LauncherKilled(l) ==
  /\ launch[l].pc # "off"
  /\ Goes(l, "off")
  /\ UNCHANGED <<agent, port, file, news, mishap>>

-----------------------------------------------------------------------------

(***************************************************************************)
(* The agent.                                                              *)
(***************************************************************************)

Becomes(a, pc) == agent' = [agent EXCEPT ![a].pc = pc]

\* ensureSessionToken reads the token of the file ...
ReadToken(a) ==
  /\ agent[a].pc = "token"
  /\ file # None
  /\ agent' = [agent EXCEPT ![a].pc = "bind", ![a].token = file]
  /\ UNCHANGED <<launch, port, file, news, mishap>>

\* ... or goes on to make one.  Nothing but a successful read of a token ends
\* there: a file that is missing or blank, and any error of os.ReadFile, that of
\* a file another process has locked or that is denied included, come to the same.
ReadNothing(a) ==
  /\ agent[a].pc = "token"
  /\ Becomes(a, "write")
  /\ mishap' = mishap \cup {m \in Mishaps : \/ m = "race" /\ Making # {}
                                            \/ m = "unread" /\ file # None}
  /\ UNCHANGED <<launch, port, file, news>>

\* os.WriteFile opens the file and cuts it to nothing ...
TruncateToken(a) ==
  /\ agent[a].pc = "write"
  /\ file' = None
  /\ Becomes(a, "fill")
  /\ UNCHANGED <<launch, port, news, mishap>>

\* Mutant: the token that is made is not saved.
WriteTokenNowhere(a) ==
  /\ agent[a].pc = "fill"
  /\ file' = None
  /\ agent' = [agent EXCEPT ![a].pc = "bind", ![a].token = a]
  /\ UNCHANGED <<launch, port, news, mishap>>

\* ... and writes the new token.
WriteToken(a) ==
  /\ agent[a].pc = "fill"
  /\ file' = a
  /\ agent' = [agent EXCEPT ![a].pc = "bind", ![a].token = a]
  /\ UNCHANGED <<launch, port, news, mishap>>

\* Configuration, token file or database fail: os.Exit(1).
StartupFails(a) ==
  /\ agent[a].pc \in {"token", "write", "fill", "bind"}
  /\ Becomes(a, "ended")
  /\ UNCHANGED <<launch, port, file, news, mishap>>

\* Mutant: the port is shared with the agent that has it.
BindShared(a) ==
  /\ agent[a].pc = "bind"
  /\ port' = a
  /\ Becomes(a, "serving")
  /\ news' = Launches
  /\ UNCHANGED <<launch, file, mishap>>

\* ListenAndServe takes the port ...
Bind(a) ==
  /\ agent[a].pc = "bind"
  /\ port = None
  /\ port' = a
  /\ Becomes(a, "serving")
  /\ news' = Launches
  /\ UNCHANGED <<launch, file, mishap>>

\* ... or finds it taken, and the process exits.
BindFails(a) ==
  /\ agent[a].pc = "bind"
  /\ port # None
  /\ Becomes(a, "ended")
  /\ UNCHANGED <<launch, port, file, news, mishap>>

\* The tray's Quit: Shutdown closes the listener first.
Quit(a) ==
  /\ agent[a].pc \in {"bind", "serving"}
  /\ Becomes(a, "quitting")
  /\ port' = IF port = a THEN None ELSE port
  /\ UNCHANGED <<launch, file, news, mishap>>

\* Shutdown and Close return: os.Exit(0).
Exit(a) ==
  /\ agent[a].pc = "quitting"
  /\ Becomes(a, "ended")
  /\ UNCHANGED <<launch, port, file, news, mishap>>

\* The installer, the task manager or the end of the session kill an agent.
Killed(a) ==
  /\ a \in Running
  /\ End({a})
  /\ UNCHANGED <<launch, file, news, mishap>>

-----------------------------------------------------------------------------

LaunchStep(l) ==
  \/ \E v \in Versions : Begin(l, v)
  \/ ProbeAnswered(l)
  \/ ProbeFails(l)
  \/ KillAgentProcess(l)
  \/ AgentGone(l)
  \/ StillThere(l)
  \/ StartAgent(l)
  \/ StartFails(l)
  \/ WaitAnswered(l)
  \/ WaitOver(l)
  \/ OpenBrowser(l)
  \/ LauncherKilled(l)

AgentStep(a) ==
  \/ ReadToken(a)
  \/ ReadNothing(a)
  \/ TruncateToken(a)
  \/ WriteToken(a)
  \/ StartupFails(a)
  \/ Bind(a)
  \/ BindFails(a)
  \/ Quit(a)
  \/ Exit(a)
  \/ Killed(a)

Next ==
  \/ \E l \in Launches : LaunchStep(l)
  \/ \E a \in Agents : AgentStep(a)

Spec == Init /\ [][Next]_vars

-----------------------------------------------------------------------------

\* An agent serves exactly while it has the port, so two never serve together.
TypeOK ==
  /\ launch \in [Launches -> Launch]
  /\ agent \in [Agents -> Agent]
  /\ port \in Agents \cup {None}
  /\ file \in Agents \cup {None}
  /\ news \subseteq Launches
  /\ mishap \subseteq Mishaps
  /\ \A a \in Agents : agent[a].pc = "serving" <=> port = a

\* An agent of the installed release is left alone: whatever probes failed or
\* answered late, a launcher is about to kill an agent of its own release only
\* if that one took the port after the launcher had looked, which takes a
\* second launch in between (launcher main.go:81-96, 126-131).
CurrentNotKilled ==
  \A l \in Launches :
    launch[l].pc \in {"kill", "gone"} /\ port # None /\ l \notin news =>
      agent[port].version # launch[l].version

\* The browser is never opened on the UI of another release, even when the old
\* agent survived the kill, answered late and kept the port from the new one,
\* unless the other release took the port after the launcher's last look
\* (launcher main.go:4-7, 161-164).
NoStaleTab ==
  \A l \in Launches :
    launch[l].pc = "open" /\ port # None /\ l \notin news =>
      agent[port].version = launch[l].version

\* The token of a machine is stable: a page that any earlier agent served is
\* let in by every later one, whatever ended the agents in between, at whatever
\* point of making the token.  Two things make another: first starts that make
\* the token at the same time, and a read of the token that fails, after which
\* ensureSessionToken writes a new one over it (main.go:102-105, 119-124).
TokenIsStable ==
  mishap = {} => \A a \in Agents : agent[a].token # None => agent[a].token = file

-----------------------------------------------------------------------------

(***************************************************************************)
(* The inductive invariant.  A token exists only after its write, and      *)
(* nobody makes a second one while the file has one; without a mishap the  *)
(* agent that makes it is alone and no agent has a token yet.              *)
(***************************************************************************)

MakesAlone ==
  mishap = {} => /\ \A a, b \in Making : a = b
                 /\ Making # {} => file = None

\* A launcher kills at most twice.
KillsCounted ==
  \A l \in Launches : /\ launch[l].pc = "probe" => launch[l].kills = 0
                      /\ launch[l].pc = "kill" => launch[l].kills < 2

Inv ==
  /\ TypeOK /\ KillsCounted
  /\ CurrentNotKilled /\ NoStaleTab
  /\ TokenIsStable /\ MakesAlone

=============================================================================
