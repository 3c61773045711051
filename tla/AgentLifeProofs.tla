--------------------------- MODULE AgentLifeProofs ---------------------------
(***************************************************************************)
(* Proofs about AgentLife, for any number of launchers, agents and         *)
(* releases.  The launchers' part of the invariant is disturbed by who has *)
(* the port, the agents' part by who is making a token.                    *)
(***************************************************************************)
EXTENDS AgentLife, TLAPS

USE NoneAssumption

\* What the launchers rely on, and what the agents do.
Looks == KillsCounted /\ CurrentNotKilled /\ NoStaleTab
Tokens == TokenIsStable /\ MakesAlone

LEMMA InvSplits == Inv <=> TypeOK /\ Looks /\ Tokens
  BY DEF Inv, Looks, Tokens

LEMMA InitInv == Init => Inv
<1>1. ASSUME Init PROVE Inv
  <2>1. TypeOK
    <3>1. /\ [pc |-> "off", version |-> None, kills |-> 0] \in Launch
          /\ [pc |-> "unused", version |-> None, token |-> None] \in Agent
      BY DEF Launch, Agent, LaunchPc, AgentPc
    <3> QED
      BY <1>1, <3>1 DEF Init, TypeOK
  <2>2. Looks
    BY <1>1 DEF Init, Looks, KillsCounted, CurrentNotKilled, NoStaleTab
  <2>3. Tokens
    BY <1>1 DEF Init, Tokens, TokenIsStable, MakesAlone, Making
  <2> QED
    BY <2>1, <2>2, <2>3, InvSplits
<1> QED
  BY <1>1

\* Whoever has the port serves.
LEMMA PortServes ==
  ASSUME TypeOK, port # None
  PROVE  port \in Agents /\ agent[port].pc = "serving"
  BY DEF TypeOK

\* A step that leaves the agents' processes and the file alone keeps the tokens.
LEMMA TokensKept ==
  ASSUME TypeOK, Tokens, file' = file, mishap' = mishap,
         \A a \in Agents :
           /\ agent'[a].token = agent[a].token
           /\ agent'[a].pc \in {"write", "fill"} => agent[a].pc \in {"write", "fill"}
  PROVE  Tokens'
  BY DEF Tokens, TokenIsStable, MakesAlone, Making

\* A step that moves one launcher and leaves the port with the agent that has
\* it, if any, keeps what the others rely on.
LEMMA LooksKept ==
  ASSUME TypeOK, Looks, NEW l \in Launches,
         \A m \in Launches \ {l} : launch'[m] = launch[m] /\ (m \notin news' => m \notin news),
         port' \in {port, None},
         port' # None => agent'[port].version = agent[port].version,
         launch'[l].pc = "probe" => launch'[l].kills = 0,
         launch'[l].pc = "kill" => launch'[l].kills < 2,
         launch'[l].pc \in {"kill", "gone"} /\ port' # None /\ l \notin news' =>
           agent'[port].version # launch'[l].version,
         launch'[l].pc = "open" /\ port' # None /\ l \notin news' =>
           agent'[port].version = launch'[l].version
  PROVE  Looks'
  BY DEF Looks, KillsCounted, CurrentNotKilled, NoStaleTab

\* A step that moves no launcher and does not give the port away keeps it too.
LEMMA LooksStand ==
  ASSUME TypeOK, Looks, launch' = launch, news' = news,
         port' \in {port, None},
         port' # None => agent'[port].version = agent[port].version
  PROVE  Looks'
  BY DEF Looks, KillsCounted, CurrentNotKilled, NoStaleTab

\* Ending processes keeps the types, and the port goes with its holder.
LEMMA EndFacts ==
  ASSUME TypeOK, NEW S \in SUBSET Running, End(S)
  PROVE  /\ agent' \in [Agents -> Agent]
         /\ port' \in {port, None}
         /\ \A a \in Agents : agent'[a].pc = "serving" <=> port' = a
         /\ \A a \in Agents : /\ agent'[a].version = agent[a].version
                              /\ agent'[a].token = agent[a].token
                              /\ agent'[a].pc \in {agent[a].pc, "ended"}
<1>1. \A a \in Agents : agent[a] \in Agent
  BY DEF TypeOK
<1>2. \A a \in Agents : /\ agent'[a] = IF a \in S THEN [agent[a] EXCEPT !.pc = "ended"] ELSE agent[a]
                        /\ [agent[a] EXCEPT !.pc = "ended"] \in Agent
  BY <1>1 DEF End, Agent, AgentPc
<1>3. agent' \in [Agents -> Agent]
  BY <1>1, <1>2 DEF End
<1>4. \A a \in Agents : /\ agent'[a].version = agent[a].version
                        /\ agent'[a].token = agent[a].token
                        /\ agent'[a].pc = IF a \in S THEN "ended" ELSE agent[a].pc
  BY <1>1, <1>2 DEF Agent
<1>5. \A a \in Agents : agent'[a].pc = "serving" <=> port' = a
  BY <1>4 DEF End, TypeOK
<1> QED
  BY <1>3, <1>4, <1>5 DEF End

\* A launcher that goes on to another point stays well typed.
LEMMA GoesFacts ==
  ASSUME TypeOK, NEW l \in Launches, NEW pc \in LaunchPc, Goes(l, pc)
  PROVE  /\ launch' \in [Launches -> Launch]
         /\ launch'[l].pc = pc /\ launch'[l].version = launch[l].version
         /\ launch'[l].kills = launch[l].kills
         /\ \A m \in Launches \ {l} : launch'[m] = launch[m]
  BY DEF TypeOK, Goes, Launch

-----------------------------------------------------------------------------

\* A launcher that moves on its own to a point where it neither kills nor
\* opens, or to a second kill.
LEMMA PlainLaunchStep ==
  ASSUME Inv, NEW l \in Launches,
         \/ ProbeFails(l) \/ AgentGone(l) \/ StillThere(l) \/ StartFails(l)
         \/ WaitOver(l) \/ OpenBrowser(l) \/ LauncherKilled(l)
  PROVE  Inv'
<1>1. TypeOK /\ Looks /\ Tokens
  BY InvSplits
<1>2. PICK pc \in {"start", "kill", "off"} :
        /\ Goes(l, pc)
        /\ pc = "kill" => launch[l].pc = "gone" /\ launch[l].kills < 2
        /\ UNCHANGED <<agent, port, file, news, mishap>>
  BY DEF ProbeFails, AgentGone, StillThere, StartFails, WaitOver, OpenBrowser, LauncherKilled
<1>3. pc \in LaunchPc
  BY <1>2 DEF LaunchPc
<1>4. TypeOK'
  BY <1>1, <1>2, <1>3, GoesFacts DEF TypeOK
<1>5. launch'[l].pc \in {"kill", "gone"} => launch[l].pc = "gone"
  BY <1>1, <1>2, <1>3, GoesFacts
<1>6. Looks'
  <2>1. launch'[l].pc \in {"kill", "gone"} /\ port' # None /\ l \notin news' =>
          agent'[port].version # launch'[l].version
    BY <1>1, <1>2, <1>3, <1>5, GoesFacts DEF Looks, CurrentNotKilled
  <2>2. launch'[l].pc # "open"
    BY <1>1, <1>2, <1>3, GoesFacts
  <2> QED
    BY <1>1, <1>2, <1>3, <2>1, <2>2, GoesFacts, LooksKept
<1>7. Tokens'
  BY <1>1, <1>2, TokensKept
<1> QED
  BY <1>4, <1>6, <1>7, InvSplits DEF Inv, Looks, Tokens

\* A look decides by the release of the agent that has the port.
LEMMA LookStep ==
  ASSUME Inv, NEW l \in Launches, ProbeAnswered(l) \/ WaitAnswered(l)
  PROVE  Inv'
<1>1. TypeOK /\ Looks /\ Tokens
  BY InvSplits
<1>2. PICK pc \in {"open", "kill"} :
        /\ Goes(l, pc)
        /\ pc = "open" <=> agent[port].version = launch[l].version
        /\ pc = "kill" => launch[l].pc = "probe"
        /\ news' = news \ {l}
        /\ UNCHANGED <<agent, port, file, mishap>>
  BY DEF ProbeAnswered, WaitAnswered
<1>3. pc \in LaunchPc
  BY <1>2 DEF LaunchPc
<1>4. TypeOK'
  BY <1>1, <1>2, <1>3, GoesFacts DEF TypeOK
<1>5. Looks'
  <2>1. launch'[l].pc = pc /\ (pc = "kill" => launch'[l].kills < 2)
    BY <1>1, <1>2, <1>3, GoesFacts DEF Looks, KillsCounted
  <2>2. \A m \in Launches \ {l} : launch'[m] = launch[m] /\ (m \notin news' => m \notin news)
    BY <1>1, <1>2, <1>3, GoesFacts
  <2>3. launch'[l].version = launch[l].version /\ l \notin news'
    BY <1>1, <1>2, <1>3, GoesFacts
  <2>4. launch'[l].pc # "probe" /\ (launch'[l].pc = "kill" => launch'[l].kills < 2)
    BY <1>2, <2>1
  <2>5. /\ launch'[l].pc \in {"kill", "gone"} => agent'[port'].version # launch'[l].version
        /\ launch'[l].pc = "open" => agent'[port'].version = launch'[l].version
    BY <1>2, <2>1, <2>3
  <2> QED
    BY <1>1, <1>2, <2>2, <2>4, <2>5, LooksKept
<1>6. Tokens'
  BY <1>1, <1>2, TokensKept
<1> QED
  BY <1>4, <1>5, <1>6 DEF Inv, Looks, Tokens

LEMMA BeginStep ==
  ASSUME Inv, NEW l \in Launches, NEW v \in Versions, Begin(l, v)
  PROVE  Inv'
<1>1. TypeOK /\ Looks /\ Tokens
  BY InvSplits
<1>2. launch'[l].pc = "probe" /\ \A m \in Launches \ {l} : launch'[m] = launch[m]
  BY <1>1 DEF Begin, TypeOK
<1>3. TypeOK'
  BY <1>1 DEF Begin, TypeOK, Launch, LaunchPc
<1>4. Looks'
  BY <1>1, <1>2, LooksKept DEF Begin
<1>5. Tokens'
  BY <1>1, TokensKept DEF Begin
<1> QED
  BY <1>3, <1>4, <1>5 DEF Inv, Looks, Tokens

LEMMA KillStep ==
  ASSUME Inv, NEW l \in Launches, KillAgentProcess(l)
  PROVE  Inv'
<1>1. TypeOK /\ Looks /\ Tokens
  BY InvSplits
<1>2. PICK S \in SUBSET Running : End(S)
  BY DEF KillAgentProcess
<1>3. /\ launch'[l].pc = "gone" /\ launch'[l].version = launch[l].version
      /\ \A m \in Launches \ {l} : launch'[m] = launch[m]
  BY <1>1 DEF KillAgentProcess, TypeOK, Launch
<1>4. launch' \in [Launches -> Launch]
  <2>1. launch[l].kills + 1 \in 0..2
    BY <1>1 DEF KillAgentProcess, TypeOK, Launch, Looks, KillsCounted
  <2> QED
    BY <1>1, <2>1 DEF KillAgentProcess, TypeOK, Launch, LaunchPc
<1>5. TypeOK'
  BY <1>1, <1>2, <1>4, EndFacts DEF KillAgentProcess, TypeOK
<1>6. launch[l].pc = "kill" /\ UNCHANGED <<file, news, mishap>>
  BY DEF KillAgentProcess
<1>7. port' # None => agent'[port].version = agent[port].version
  BY <1>1, <1>2, EndFacts, PortServes
<1>8. Looks'
  <2>1. port' # None /\ l \notin news' => agent'[port].version # launch'[l].version
    BY <1>1, <1>2, <1>3, <1>6, <1>7, EndFacts DEF Looks, CurrentNotKilled
  <2> QED
    BY <1>1, <1>2, <1>3, <1>6, <1>7, <2>1, EndFacts, LooksKept
<1>9. Tokens'
  BY <1>1, <1>2, <1>6, EndFacts, TokensKept
<1> QED
  BY <1>5, <1>8, <1>9 DEF Inv, Looks, Tokens

LEMMA StartStep ==
  ASSUME Inv, NEW l \in Launches, StartAgent(l)
  PROVE  Inv'
<1>1. TypeOK /\ Looks /\ Tokens
  BY InvSplits
<1>2. PICK a \in Unused :
        agent' = [agent EXCEPT ![a].pc = "token", ![a].version = launch[l].version]
  BY DEF StartAgent
<1>3. a \in Agents /\ agent[a].pc = "unused" /\ launch[l].version \in Versions \cup {None}
  BY <1>1, <1>2 DEF Unused, TypeOK, Launch
<1>4. Goes(l, "up") /\ UNCHANGED <<port, file, news, mishap>>
  BY DEF StartAgent
<1>5. /\ agent' \in [Agents -> Agent]
      /\ agent'[a].pc = "token" /\ agent'[a].token = agent[a].token
      /\ \A b \in Agents \ {a} : agent'[b] = agent[b]
  BY <1>1, <1>2, <1>3 DEF TypeOK, Agent, AgentPc
<1>6. "up" \in LaunchPc
  BY DEF LaunchPc
<1>7. TypeOK'
  BY <1>1, <1>3, <1>4, <1>5, <1>6, GoesFacts DEF TypeOK
<1>8. Looks'
  BY <1>1, <1>3, <1>4, <1>5, <1>6, GoesFacts, PortServes, LooksKept
<1>9. Tokens'
  BY <1>1, <1>4, <1>5, TokensKept
<1> QED
  BY <1>7, <1>8, <1>9 DEF Inv, Looks, Tokens

-----------------------------------------------------------------------------

\* An agent that moves on.
LEMMA BecomesFacts ==
  ASSUME TypeOK, NEW a \in Agents, NEW pc \in AgentPc, Becomes(a, pc)
  PROVE  /\ agent' \in [Agents -> Agent]
         /\ agent'[a].pc = pc
         /\ agent'[a].version = agent[a].version /\ agent'[a].token = agent[a].token
         /\ \A b \in Agents \ {a} : agent'[b] = agent[b]
  BY DEF TypeOK, Becomes, Agent

\* An agent that comes to an end, or that quits.
LEMMA PlainAgentStep ==
  ASSUME Inv, NEW a \in Agents,
         StartupFails(a) \/ BindFails(a) \/ Quit(a) \/ Exit(a)
  PROVE  Inv'
<1>1. TypeOK /\ Looks /\ Tokens
  BY InvSplits
<1>2. PICK pc \in {"ended", "quitting"} :
        /\ Becomes(a, pc)
        /\ port' = IF port = a THEN None ELSE port
        /\ UNCHANGED <<launch, file, news, mishap>>
  BY <1>1 DEF StartupFails, BindFails, Quit, Exit, TypeOK
<1>3. pc \in AgentPc
  BY <1>2 DEF AgentPc
<1>4. TypeOK'
  BY <1>1, <1>2, <1>3, BecomesFacts DEF TypeOK
<1>5. \A b \in Agents : /\ agent'[b].version = agent[b].version
                        /\ agent'[b].token = agent[b].token
                        /\ agent'[b].pc \in {"write", "fill"} => agent[b].pc \in {"write", "fill"}
  BY <1>1, <1>2, <1>3, BecomesFacts
<1>6. Looks'
  BY <1>1, <1>2, <1>5, PortServes, LooksStand
<1>7. Tokens'
  BY <1>1, <1>2, <1>5, TokensKept
<1> QED
  BY <1>4, <1>6, <1>7 DEF Inv, Looks, Tokens

LEMMA KilledStep ==
  ASSUME Inv, NEW a \in Agents, Killed(a)
  PROVE  Inv'
<1>1. TypeOK /\ Looks /\ Tokens
  BY InvSplits
<1>2. {a} \in SUBSET Running /\ End({a}) /\ UNCHANGED <<launch, file, news, mishap>>
  BY DEF Killed
<1>3. TypeOK'
  BY <1>1, <1>2, EndFacts DEF TypeOK
<1>4. Looks'
  BY <1>1, <1>2, EndFacts, PortServes, LooksStand
<1>5. Tokens'
  BY <1>1, <1>2, EndFacts, TokensKept
<1> QED
  BY <1>3, <1>4, <1>5 DEF Inv, Looks, Tokens

\* The port goes to an agent only while it is free, and every launcher has
\* news of it.
LEMMA BindStep ==
  ASSUME Inv, NEW a \in Agents, Bind(a)
  PROVE  Inv'
<1>1. TypeOK /\ Looks /\ Tokens
  BY InvSplits
<1>2. /\ Becomes(a, "serving") /\ "serving" \in AgentPc
      /\ port = None /\ port' = a /\ news' = Launches
      /\ UNCHANGED <<launch, file, mishap>>
  BY DEF Bind, AgentPc
<1>3. TypeOK'
  BY <1>1, <1>2, BecomesFacts DEF TypeOK
<1>4. Looks'
  BY <1>1, <1>2 DEF Looks, KillsCounted, CurrentNotKilled, NoStaleTab
<1>5. Tokens'
  BY <1>1, <1>2, BecomesFacts, TokensKept
<1> QED
  BY <1>3, <1>4, <1>5 DEF Inv, Looks, Tokens

\* An agent that reads the token of the file has that one.
LEMMA ReadStep ==
  ASSUME Inv, NEW a \in Agents, ReadToken(a)
  PROVE  Inv'
<1>1. TypeOK /\ Looks /\ Tokens
  BY InvSplits
<1>2. /\ agent[a].pc = "token" /\ file # None
      /\ agent' = [agent EXCEPT ![a].pc = "bind", ![a].token = file]
      /\ UNCHANGED <<launch, port, file, news, mishap>>
  BY DEF ReadToken
<1>3. /\ agent' \in [Agents -> Agent]
      /\ agent'[a].pc = "bind" /\ agent'[a].token = file
      /\ agent'[a].version = agent[a].version
      /\ \A b \in Agents \ {a} : agent'[b] = agent[b]
  <2>1. file \in Agents /\ agent[a] \in Agent
    BY <1>1, <1>2 DEF TypeOK
  <2>2. [[agent[a] EXCEPT !.pc = "bind"] EXCEPT !.token = file] \in Agent
    BY <2>1 DEF Agent, AgentPc
  <2>3. /\ agent'[a] = [[agent[a] EXCEPT !.pc = "bind"] EXCEPT !.token = file]
        /\ \A b \in Agents \ {a} : agent'[b] = agent[b]
    BY <1>1, <1>2 DEF TypeOK
  <2>4. agent' \in [Agents -> Agent]
    BY <1>1, <1>2, <2>2, <2>3 DEF TypeOK
  <2> QED
    BY <2>1, <2>3, <2>4 DEF Agent
<1>4. TypeOK'
  BY <1>1, <1>2, <1>3 DEF TypeOK
<1>5. Looks'
  BY <1>1, <1>2, <1>3, PortServes, LooksStand
<1>6. Tokens'
  BY <1>1, <1>2, <1>3 DEF Tokens, TokenIsStable, MakesAlone, Making
<1> QED
  BY <1>4, <1>5, <1>6 DEF Inv, Looks, Tokens

\* One that reads none enters the section in which it makes one: alone and
\* before there is any, or with a mishap.
LEMMA ReadNothingStep ==
  ASSUME Inv, NEW a \in Agents, ReadNothing(a)
  PROVE  Inv'
<1>1. TypeOK /\ Looks /\ Tokens
  BY InvSplits
<1>2. /\ agent[a].pc = "token" /\ Becomes(a, "write") /\ "write" \in AgentPc
      /\ UNCHANGED <<launch, port, file, news>>
  BY DEF ReadNothing, AgentPc
<1>3. /\ mishap' \subseteq Mishaps
      /\ mishap' = {} => mishap = {} /\ Making = {} /\ file = None
  BY <1>1 DEF ReadNothing, TypeOK, Mishaps
<1>4. TypeOK'
  BY <1>1, <1>2, <1>3, BecomesFacts DEF TypeOK
<1>5. Looks'
  BY <1>1, <1>2, BecomesFacts, PortServes, LooksStand
<1>6. Tokens'
  <2>1. \A b \in Agents : agent'[b].token = agent[b].token
    BY <1>1, <1>2, BecomesFacts
  <2>2. Making' = Making \cup {a}
    BY <1>1, <1>2, BecomesFacts DEF Making
  <2> QED
    BY <1>1, <1>2, <1>3, <2>1, <2>2 DEF Tokens, TokenIsStable, MakesAlone
<1> QED
  BY <1>4, <1>5, <1>6 DEF Inv, Looks, Tokens

LEMMA TruncateStep ==
  ASSUME Inv, NEW a \in Agents, TruncateToken(a)
  PROVE  Inv'
<1>1. TypeOK /\ Looks /\ Tokens
  BY InvSplits
<1>2. /\ agent[a].pc = "write" /\ Becomes(a, "fill") /\ "fill" \in AgentPc
      /\ file' = None /\ UNCHANGED <<launch, port, news, mishap>>
  BY DEF TruncateToken, AgentPc
<1>3. TypeOK'
  BY <1>1, <1>2, BecomesFacts DEF TypeOK
<1>4. Looks'
  BY <1>1, <1>2, BecomesFacts, PortServes, LooksStand
<1>5. Tokens'
  <2>1. \A b \in Agents : agent'[b].token = agent[b].token
    BY <1>1, <1>2, BecomesFacts
  <2>2. Making' = Making /\ a \in Making
    BY <1>1, <1>2, BecomesFacts DEF Making
  <2> QED
    BY <1>1, <1>2, <2>1, <2>2 DEF Tokens, TokenIsStable, MakesAlone
<1> QED
  BY <1>3, <1>4, <1>5 DEF Inv, Looks, Tokens

\* The agent that writes a token alone is the first that has one.
LEMMA WriteStep ==
  ASSUME Inv, NEW a \in Agents, WriteToken(a)
  PROVE  Inv'
<1>1. TypeOK /\ Looks /\ Tokens
  BY InvSplits
<1>2. /\ agent[a].pc = "fill" /\ file' = a /\ UNCHANGED <<launch, port, news, mishap>>
      /\ agent' = [agent EXCEPT ![a].pc = "bind", ![a].token = a]
  BY DEF WriteToken
<1>3. /\ agent' \in [Agents -> Agent]
      /\ agent'[a].pc = "bind" /\ agent'[a].token = a
      /\ agent'[a].version = agent[a].version
      /\ \A b \in Agents \ {a} : agent'[b] = agent[b]
  BY <1>1, <1>2 DEF TypeOK, Agent, AgentPc
<1>4. TypeOK'
  BY <1>1, <1>2, <1>3 DEF TypeOK
<1>5. Looks'
  BY <1>1, <1>2, <1>3, PortServes, LooksStand
<1>6. Tokens'
  <2>1. a \in Making /\ Making' = Making \ {a}
    BY <1>1, <1>2, <1>3 DEF Making
  <2>2. mishap = {} => Making' = {} /\ \A b \in Agents \ {a} : agent[b].token = None
    BY <1>1, <2>1 DEF Tokens, TokenIsStable, MakesAlone, Making
  <2> QED
    BY <1>2, <1>3, <2>2 DEF Tokens, TokenIsStable, MakesAlone
<1> QED
  BY <1>4, <1>5, <1>6 DEF Inv, Looks, Tokens

-----------------------------------------------------------------------------

\* The invariant holds in every state, for any number of launchers, agents and
\* releases.
THEOREM LifeCorrect == Spec => []Inv
<1>1. Inv /\ [Next]_vars => Inv'
  <2> SUFFICES ASSUME Inv, [Next]_vars PROVE Inv'
    OBVIOUS
  <2>1. ASSUME NEW l \in Launches, LaunchStep(l) PROVE Inv'
    BY <2>1, BeginStep, LookStep, PlainLaunchStep, KillStep, StartStep DEF LaunchStep
  <2>2. ASSUME NEW a \in Agents, AgentStep(a) PROVE Inv'
    BY <2>2, ReadStep, ReadNothingStep, TruncateStep, WriteStep, BindStep, PlainAgentStep, KilledStep
       DEF AgentStep
  <2>3. CASE UNCHANGED vars
    BY <2>3 DEF vars, Inv, TypeOK, KillsCounted, CurrentNotKilled, NoStaleTab,
                TokenIsStable, MakesAlone, Making
  <2> QED
    BY <2>1, <2>2, <2>3 DEF Next
<1> QED
  BY <1>1, InitInv, PTL DEF Spec

\* The state stays well typed and an agent serves exactly while it has the
\* port: main.go:71-78 leaves no second agent serving.
THEOREM TypeCorrect == Spec => []TypeOK
<1>1. Inv => TypeOK
  BY DEF Inv
<1> QED
  BY <1>1, LifeCorrect, PTL

\* No launcher kills an agent of its own release that had the port when the
\* launcher last looked.
THEOREM CurrentAgentsStay == Spec => []CurrentNotKilled
<1>1. Inv => CurrentNotKilled
  BY DEF Inv
<1> QED
  BY <1>1, LifeCorrect, PTL

\* No launcher opens the browser on an agent of another release that had the
\* port when the launcher last looked.
THEOREM TabsAreCurrent == Spec => []NoStaleTab
<1>1. Inv => NoStaleTab
  BY DEF Inv
<1> QED
  BY <1>1, LifeCorrect, PTL

\* Every agent has the token of the file, unless two first starts made it
\* together or a read of it failed: nothing else that starts, ends or kills
\* agents at any point of ensureSessionToken (main.go:106-135) changes it.
THEOREM TokensAreStable == Spec => []TokenIsStable
<1>1. Inv => TokenIsStable
  BY DEF Inv
<1> QED
  BY <1>1, LifeCorrect, PTL

=============================================================================
