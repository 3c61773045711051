---------------------------- MODULE ScreenStream ----------------------------
(***************************************************************************)
(* One screen stream, end to end: the handler's loop and its reader        *)
(* goroutine (internal/server/screenstream.go), the capturers with their   *)
(* COM threads (internal/vmscreen/vmscreen.go), and the canvas the browser *)
(* paints (web-ui/src/lib/screenTiles.ts, components/ScreenConsole.tsx).   *)
(*                                                                         *)
(* A resolution is its number of tiles, a tile's content a colour; JPEG    *)
(* coding, scaling and the kind of an input are left out.  VBoxManage and  *)
(* COM calls may fail at any time.                                         *)
(***************************************************************************)
EXTENDS Integers, Sequences, SequencesExt

CONSTANTS
  Caps, NoCap, \* capturers; one is reused when its COM thread has ended
  Sizes,       \* resolutions, in tiles
  Colours,
  Blank,       \* a tile of the canvas that was not painted yet
  MaxQueue,    \* messages on their way to the browser
  SlowDecode   \* tiles may still be decoding when the next message is handled

ASSUME NoCapAssumption   == NoCap \notin Caps
ASSUME SizesAssumption   == Sizes \subseteq Nat \ {0}
ASSUME BlankAssumption   == Blank \notin Colours
ASSUME QueueAssumption   == MaxQueue \in Nat \ {0}
ASSUME DecodeAssumption  == SlowDecode \in BOOLEAN

VARIABLES
  guest, \* the VM: whether it runs, its resolution and its screen
  cap,   \* capturers
  srv,   \* the handler's goroutine
  rdr,   \* its reader goroutine, and the capturer it loaded
  conn,  \* the handler holds the WebSocket open
  out,   \* messages on their way to the browser
  cli,   \* the browser: canvas and tiles being decoded
  seen   \* the last reading of a resolution poll, 0 for a failure

vars == <<guest, cap, srv, rdr, conn, out, cli, seen>>

Tiles   == UNION {1..s : s \in Sizes}
Frames  == UNION {[size : {s}, pix : [1..s -> Colours \cup {Blank}]] : s \in Sizes}
NoFrame == [size |-> 0, pix |-> <<>>]
Cleared(s) == [size |-> s, pix |-> [t \in 1..s |-> Blank]]

Capturer == [st : {"unused", "idle", "grab", "input", "unlock"},
             size : Sizes \cup {0}, closing : BOOLEAN]
Unused   == [st |-> "unused", size |-> 0, closing |-> FALSE]

-----------------------------------------------------------------------------

\* doneCh is closed: the COM thread has left its loop.
Done(c) == cap[c].st \in {"unlock", "unused"}

\* Tiles to send: those that changed, or all after a change of size.
ChangedTiles(prev, cur) ==
  {t \in 1..cur.size : prev.size # cur.size \/ prev.pix[t] # cur.pix[t]}

Init ==
  /\ guest \in [on : {TRUE}, size : Sizes, pix : [Tiles -> Colours]]
  /\ cap = [c \in Caps |-> Unused]
  /\ srv = [pc |-> "new", cur |-> NoCap, old |-> NoCap, pend |-> 0,
            prev |-> NoFrame, send |-> {}]
  /\ rdr = [pc |-> "none", cap |-> NoCap]
  /\ conn = FALSE
  /\ out = <<>>
  /\ cli = [open |-> TRUE, canvas |-> NoFrame, jobs |-> <<>>]
  /\ seen = 0

\* The handler returns: deferred, conn.Close and then Close of the current
\* capturer, which waits for its thread.
Leave(k) ==
  /\ srv' = [srv EXCEPT !.pc = "close", !.prev = NoFrame, !.send = {}, !.pend = 0]
  /\ conn' = FALSE
  /\ seen' = 0
  /\ cap' = [k EXCEPT ![srv.cur].closing = TRUE]

(***************************************************************************)
(* vmscreen.New: reads the resolution, starts the COM thread, which takes  *)
(* a shared lock on the running VM.                                        *)
(***************************************************************************)
\* c is not used by anybody, the reader included.
Fresh(c) == cap[c].st = "unused" /\ ~(rdr.pc = "inject" /\ rdr.cap = c)

\* Mutant: an unreadable size is taken for one.
OpenedUnchecked(c) == [st |-> "idle", size |-> 0, closing |-> FALSE]

\* A capturer that has read the resolution and has its lock.
Opened(c) == [st |-> "idle", size |-> guest.size, closing |-> FALSE]

New(c) ==
  /\ srv.pc = "new" /\ guest.on /\ Fresh(c)
  /\ cap' = [cap EXCEPT ![c] = Opened(c)]
  /\ srv' = [srv EXCEPT !.pc = "upgrade", !.cur = c]
  /\ UNCHANGED <<guest, rdr, conn, out, cli, seen>>

NewFails ==
  /\ srv.pc = "new"
  /\ srv' = [srv EXCEPT !.pc = "ended"]
  /\ UNCHANGED <<guest, cap, rdr, conn, out, cli, seen>>

Upgrade ==
  /\ srv.pc = "upgrade" /\ cli.open
  /\ conn' = TRUE
  /\ srv' = [srv EXCEPT !.pc = "announce"]
  /\ UNCHANGED <<guest, cap, rdr, out, cli, seen>>

UpgradeFails ==
  /\ srv.pc = "upgrade"
  /\ Leave(cap)
  /\ UNCHANGED <<guest, rdr, out, cli>>

\* A write to the WebSocket: it waits while the browser is behind, and to a
\* browser that is gone it is lost until the connection is known to be dead.
Write(msg) ==
  \/ cli.open /\ Len(out) < MaxQueue /\ out' = Append(out, msg)
  \/ ~cli.open /\ out' = out

\* announceResolution, and at first the start of the reader.
Announce ==
  /\ srv.pc = "announce"
  /\ Write([type |-> "resolution", size |-> cap[srv.cur].size, tiles |-> <<>>])
  /\ srv' = [srv EXCEPT !.pc = "select"]
  /\ rdr' = IF rdr.pc = "none" THEN [rdr EXCEPT !.pc = "read"] ELSE rdr
  /\ UNCHANGED <<guest, cap, conn, cli, seen>>

WriteFails ==
  /\ srv.pc \in {"announce", "send"} /\ ~cli.open
  /\ Leave(cap)
  /\ UNCHANGED <<guest, rdr, out, cli>>

(***************************************************************************)
(* The loop's select.                                                      *)
(***************************************************************************)
TakeDone ==
  /\ srv.pc = "select" /\ rdr.pc = "done"
  /\ Leave(cap)
  /\ UNCHANGED <<guest, rdr, out, cli>>

StartPoll ==
  /\ srv.pc = "select"
  /\ srv' = [srv EXCEPT !.pc = "poll"]
  /\ UNCHANGED <<guest, cap, rdr, conn, out, cli, seen>>

StartGrab ==
  /\ srv.pc = "select"
  /\ srv' = [srv EXCEPT !.pc = "grab"]
  /\ UNCHANGED <<guest, cap, rdr, conn, out, cli, seen>>

\* Mutant: every reading starts the streak anew.
DebounceForgets(r) == [srv EXCEPT !.pc = "select", !.pend = r]

\* What a reading r of the resolution does: a candidate must be read twice in a
\* row.  pend is the candidate while pendStreak is 1, and 0 while it is 0 (the
\* code's pendW and pendH then have no effect).
Debounce(r) ==
  IF r \in {0, cap[srv.cur].size} THEN [srv EXCEPT !.pc = "select", !.pend = 0]
  ELSE IF r = srv.pend THEN [srv EXCEPT !.pc = "reopen", !.pend = 0]
  ELSE [srv EXCEPT !.pc = "select", !.pend = r]

Poll ==
  /\ srv.pc = "poll" /\ guest.on
  /\ srv' = Debounce(guest.size)
  /\ seen' = guest.size
  /\ UNCHANGED <<guest, cap, rdr, conn, out, cli>>

PollFails ==
  /\ srv.pc = "poll"
  /\ srv' = Debounce(0)
  /\ seen' = 0
  /\ UNCHANGED <<guest, cap, rdr, conn, out, cli>>

\* A second capturer, at the resolution it reads itself, takes the place of the
\* current one, which is told to close.
Reopen(c) ==
  /\ srv.pc = "reopen" /\ guest.on /\ Fresh(c)
  /\ cap' = [cap EXCEPT ![c] = Opened(c), ![srv.cur].closing = TRUE]
  /\ srv' = [srv EXCEPT !.pc = "swap", !.cur = c, !.old = srv.cur]
  /\ UNCHANGED <<guest, rdr, conn, out, cli, seen>>

ReopenFails ==
  /\ srv.pc = "reopen"
  /\ srv' = [srv EXCEPT !.pc = "select"]
  /\ UNCHANGED <<guest, cap, rdr, conn, out, cli, seen>>

\* Mutant: the last frame is kept across the swap.
SwapDoneKeepsFrame ==
  /\ srv.pc = "swap" /\ Done(srv.old)
  /\ srv' = [srv EXCEPT !.pc = "announce", !.old = NoCap]
  /\ UNCHANGED <<guest, cap, rdr, conn, out, cli, seen>>

\* Close returned: everything is repainted at the new size.
SwapDone ==
  /\ srv.pc = "swap" /\ Done(srv.old)
  /\ srv' = [srv EXCEPT !.pc = "announce", !.old = NoCap, !.prev = NoFrame]
  /\ UNCHANGED <<guest, cap, rdr, conn, out, cli, seen>>

\* Grab hands its request to the COM thread.  (Nobody but the handler closes the
\* current capturer, so the "capturer closed" branch of Grab is not taken.)
GrabTaken ==
  /\ srv.pc = "grab" /\ cap[srv.cur].st = "idle"
  /\ cap' = [cap EXCEPT ![srv.cur].st = "grab"]
  /\ srv' = [srv EXCEPT !.pc = "answer"]
  /\ UNCHANGED <<guest, rdr, conn, out, cli, seen>>

\* The frame is answered and compared with the last one.
GrabDone ==
  LET size    == cap[srv.cur].size
      frame   == [size |-> size, pix |-> [t \in 1..size |-> guest.pix[t]]]
      changed == ChangedTiles(srv.prev, frame)
  IN /\ srv.pc = "answer" /\ guest.on
     /\ cap' = [cap EXCEPT ![srv.cur].st = "idle"]
     /\ srv' = [srv EXCEPT !.pc = IF changed = {} THEN "select" ELSE "send",
                           !.prev = frame, !.send = changed]
     /\ UNCHANGED <<guest, rdr, conn, out, cli, seen>>

GrabFails ==
  /\ srv.pc = "answer"
  /\ Leave([cap EXCEPT ![srv.cur].st = "idle"])
  /\ UNCHANGED <<guest, rdr, out, cli>>

Send ==
  /\ srv.pc = "send"
  /\ Write([type |-> "tiles", size |-> srv.prev.size,
            tiles |-> [t \in srv.send |-> srv.prev.pix[t]]])
  /\ srv' = [srv EXCEPT !.pc = "select", !.send = {}]
  /\ UNCHANGED <<guest, cap, rdr, conn, cli, seen>>

Closed ==
  /\ srv.pc = "close" /\ Done(srv.cur)
  /\ srv' = [srv EXCEPT !.pc = "ended"]
  /\ UNCHANGED <<guest, cap, rdr, conn, out, cli, seen>>

-----------------------------------------------------------------------------

(***************************************************************************)
(* The COM thread of a capturer.                                           *)
(***************************************************************************)
ComCloses(c) ==
  /\ cap[c].st = "idle" /\ cap[c].closing
  /\ cap' = [cap EXCEPT ![c].st = "unlock"]
  /\ UNCHANGED <<guest, srv, rdr, conn, out, cli, seen>>

\* The deferred UnlockMachine, after doneCh was closed.
Unlocks(c) ==
  /\ cap[c].st = "unlock"
  /\ cap' = [cap EXCEPT ![c] = Unused]
  /\ UNCHANGED <<guest, srv, rdr, conn, out, cli, seen>>

(***************************************************************************)
(* The reader goroutine.                                                   *)
(***************************************************************************)
\* A keyboard or mouse event, for the capturer current now, or a resize.
Receive ==
  /\ rdr.pc = "read" /\ conn /\ cli.open
  /\ \/ rdr' = [pc |-> "inject", cap |-> srv.cur]
     \/ rdr' = [rdr EXCEPT !.pc = "hint"]
  /\ UNCHANGED <<guest, cap, srv, conn, out, cli, seen>>

InputTaken ==
  /\ rdr.pc = "inject" /\ cap[rdr.cap].st = "idle"
  /\ cap' = [cap EXCEPT ![rdr.cap].st = "input"]
  /\ rdr' = [rdr EXCEPT !.pc = "wait"]
  /\ UNCHANGED <<guest, srv, conn, out, cli, seen>>

InputDone ==
  /\ rdr.pc = "wait"
  /\ cap' = [cap EXCEPT ![rdr.cap].st = "idle"]
  /\ rdr' = [pc |-> "read", cap |-> NoCap]
  /\ UNCHANGED <<guest, srv, conn, out, cli, seen>>

\* Mutant: an input waits for the COM thread only.
InputRefusedNever == FALSE /\ UNCHANGED vars

\* The capturer was closed meanwhile: the event is dropped.
InputRefused ==
  /\ rdr.pc = "inject" /\ Done(rdr.cap)
  /\ rdr' = [pc |-> "read", cap |-> NoCap]
  /\ UNCHANGED <<guest, cap, srv, conn, out, cli, seen>>

\* setvideomodehint has ended; a guest with Guest Additions honours it.
HintDone ==
  /\ rdr.pc = "hint"
  /\ rdr' = [rdr EXCEPT !.pc = "read"]
  /\ \E s \in Sizes : guest' = IF guest.on THEN [guest EXCEPT !.size = s] ELSE guest
  /\ UNCHANGED <<cap, srv, conn, out, cli, seen>>

\* ReadMessage fails: either side has closed the connection.
ReadEnds ==
  /\ rdr.pc = "read" /\ ~(conn /\ cli.open)
  /\ rdr' = [rdr EXCEPT !.pc = "done"]
  /\ UNCHANGED <<guest, cap, srv, conn, out, cli, seen>>

-----------------------------------------------------------------------------

(***************************************************************************)
(* The browser.                                                            *)
(***************************************************************************)
\* A message: setting its size clears a canvas; tiles start decoding.
Message ==
  /\ cli.open /\ out # <<>>
  /\ SlowDecode \/ cli.jobs = <<>>
  /\ out' = Tail(out)
  /\ cli' = IF Head(out).type = "resolution"
            THEN [cli EXCEPT !.canvas = Cleared(Head(out).size)]
            ELSE [cli EXCEPT !.jobs = Append(cli.jobs, Head(out).tiles)]
  /\ UNCHANGED <<guest, cap, srv, rdr, conn, seen>>

\* A tile of a message is decoded and drawn, outside the canvas to no effect.
Paint(i, t) ==
  LET job  == cli.jobs[i]
      rest == [u \in DOMAIN job \ {t} |-> job[u]]
  IN /\ t \in DOMAIN job
     /\ cli' = [cli EXCEPT
          !.canvas = IF t <= cli.canvas.size
                     THEN [cli.canvas EXCEPT !.pix[t] = job[t]] ELSE cli.canvas,
          !.jobs = IF DOMAIN rest = {} THEN RemoveAt(cli.jobs, i)
                   ELSE [cli.jobs EXCEPT ![i] = rest]]
     /\ UNCHANGED <<guest, cap, srv, rdr, conn, out, seen>>

PaintSome == \E i \in DOMAIN cli.jobs : \E t \in Tiles : Paint(i, t)

\* The tab is closed or the socket breaks.
CloseTab ==
  /\ cli.open
  /\ cli' = [open |-> FALSE, canvas |-> NoFrame, jobs |-> <<>>]
  /\ out' = <<>>
  /\ UNCHANGED <<guest, cap, srv, rdr, conn, seen>>

(***************************************************************************)
(* The guest.                                                              *)
(***************************************************************************)
GuestChanges ==
  /\ guest.on
  /\ \/ \E t \in Tiles, c \in Colours : guest' = [guest EXCEPT !.pix[t] = c]
     \/ \E s \in Sizes : guest' = [guest EXCEPT !.size = s]
     \/ guest' = [guest EXCEPT !.on = FALSE]
  /\ UNCHANGED <<cap, srv, rdr, conn, out, cli, seen>>

-----------------------------------------------------------------------------

Handler ==
  \/ \E c \in Caps : New(c) \/ Reopen(c)
  \/ NewFails
  \/ Upgrade
  \/ UpgradeFails
  \/ Announce
  \/ WriteFails
  \/ Poll
  \/ PollFails
  \/ ReopenFails
  \/ SwapDone
  \/ GrabTaken
  \/ GrabDone
  \/ GrabFails
  \/ Send
  \/ Closed

Reader ==
  \/ InputTaken
  \/ InputDone
  \/ InputRefused
  \/ HintDone
  \/ ReadEnds

ComThread(c) == ComCloses(c) \/ Unlocks(c)

Next ==
  \/ Handler
  \/ TakeDone
  \/ StartPoll
  \/ StartGrab
  \/ Reader
  \/ Receive
  \/ \E c \in Caps : ComThread(c)
  \/ Message
  \/ PaintSome
  \/ CloseTab
  \/ GuestChanges

Spec == Init /\ [][Next]_vars

\* Goroutines and the browser's event loop run, commands and COM calls end.  A
\* select chooses at random among the cases that are ready, so a case that is
\* ready again and again is taken, and so is a rendezvous with the COM thread.
FairSpec ==
  /\ Spec
  /\ WF_vars(Handler) /\ SF_vars(GrabTaken)
  /\ SF_vars(TakeDone) /\ SF_vars(StartPoll) /\ SF_vars(StartGrab)
  /\ WF_vars(Reader) /\ SF_vars(InputTaken)
  /\ \A c \in Caps : WF_vars(ComThread(c))
  /\ WF_vars(Message \/ PaintSome)

-----------------------------------------------------------------------------

TypeOK ==
  /\ guest \in [on : BOOLEAN, size : Sizes, pix : [Tiles -> Colours]]
  /\ cap \in [Caps -> Capturer]
  /\ \A c \in Caps : cap[c].st # "unused" => cap[c].size \in Sizes
  /\ srv \in [pc : {"new", "upgrade", "announce", "select", "poll", "reopen", "swap",
                    "grab", "answer", "send", "close", "ended"},
              cur : Caps \cup {NoCap}, old : Caps \cup {NoCap},
              pend : Sizes \cup {0},
              prev : Frames \cup {NoFrame}, send : SUBSET Tiles]
  /\ rdr \in [pc : {"none", "read", "inject", "wait", "hint", "done"},
              cap : Caps \cup {NoCap}]
  /\ conn \in BOOLEAN
  /\ Len(out) <= MaxQueue
  /\ cli.canvas \in Frames \cup {NoFrame}
  /\ seen \in Sizes \cup {0}

\* Once everything that was sent is painted, the canvas shows the frame the
\* next one is compared with: a tile that does not change again is not sent
\* again (screenstream.go:360, "nothing changed; keep the client's canvas
\* as-is").
CanvasIsCurrent ==
  /\ cli.open /\ out = <<>> /\ cli.jobs = <<>>
  /\ srv.pc \notin {"send", "announce"} /\ srv.prev # NoFrame
  => cli.canvas = srv.prev

\* When the browser or the VM is gone the stream ends: the handler returns, the
\* reader stops, and no lock on the VM is kept.
StreamEnds ==
  ~(cli.open /\ guest.on) ~>
    /\ srv.pc = "ended"
    /\ rdr.pc \in {"none", "done"}
    /\ \A c \in Caps : cap[c].st = "unused"

\* A resolution that lasts is followed, unless commands keep failing.
FollowsResolution ==
  \A s \in Sizes :
    <>[](cli.open /\ guest.on /\ guest.size = s) /\ <>[][~PollFails /\ ~ReopenFails]_vars
      => <>[](srv.pc = "ended" \/ (cli.canvas.size = s /\ cap[srv.cur].size = s))

-----------------------------------------------------------------------------

(***************************************************************************)
(* The inductive invariant, for a browser that finishes a message first.   *)
(***************************************************************************)
Jobs     == UNION {[d -> Colours] : d \in SUBSET Tiles}
Messages == [type : {"resolution"}, size : Sizes, tiles : {<<>>}]
              \cup [type : {"tiles"}, size : Sizes, tiles : Jobs]

Streaming == {"announce", "select", "poll", "reopen", "swap", "grab", "answer", "send"}

\* What is on its way is what was sent, and tiles are of frames.
Sent ==
  /\ out \in Seq(Messages)
  /\ cli \in [open : BOOLEAN, canvas : Frames \cup {NoFrame}, jobs : Seq(Jobs)]

\* The current capturer has its lock and is not told to close before the handler
\* leaves it, and a COM thread works for the one that waits for its answer.
InUse ==
  /\ srv.pc \in Streaming \cup {"upgrade"} =>
       /\ srv.cur \in Caps
       /\ cap[srv.cur].st \in {"idle", "grab", "input"} /\ ~cap[srv.cur].closing
  /\ srv.pc = "close" => srv.cur \in Caps
  /\ srv.pc = "swap" => srv.old \in Caps
  /\ srv.pc = "answer" => cap[srv.cur].st = "grab"
  /\ rdr.pc \in {"inject", "wait"} => rdr.cap \in Caps
  /\ rdr.pc = "wait" => cap[rdr.cap].st = "input"
  /\ conn => srv.pc \in Streaming

\* The last frame is one of the current capturer, from its first grab to the swap.
Compared ==
  /\ srv.pc = "send" <=> srv.send # {}
  /\ srv.pc \notin Streaming \ {"announce"} => srv.prev = NoFrame
  /\ srv.prev # NoFrame /\ srv.pc # "swap" => srv.prev.size = cap[srv.cur].size
  /\ srv.send \subseteq 1..srv.prev.size
  /\ \A t \in 1..srv.prev.size : srv.prev.pix[t] \in Colours

\* The size the canvas has when every message is handled.
EndSize(s) ==
  \/ \E i \in 1..Len(out) :
       /\ out[i].type = "resolution" /\ out[i].size = s
       /\ \A j \in i+1..Len(out) : out[j].type # "resolution"
  \/ /\ \A i \in 1..Len(out) : out[i].type # "resolution"
     /\ cli.canvas.size = s

\* The message m leaves tile t as it is.
Spares(m, t) == m.type = "tiles" /\ t \notin DOMAIN m.tiles

\* The colour tile t has when every message is handled and painted.
EndTile(t, c) ==
  \/ \E i \in 1..Len(out) :
       /\ out[i].type = "tiles" /\ t \in DOMAIN out[i].tiles /\ out[i].tiles[t] = c
       /\ \A j \in i+1..Len(out) : Spares(out[j], t)
  \/ /\ \A i \in 1..Len(out) : Spares(out[i], t)
     /\ \/ cli.jobs # <<>> /\ t \in DOMAIN cli.jobs[1] /\ cli.jobs[1][t] = c
        \/ /\ cli.jobs # <<>> => t \notin DOMAIN cli.jobs[1]
           /\ t <= cli.canvas.size /\ cli.canvas.pix[t] = c

\* What the browser has and is to get makes the last frame, but for the tiles
\* that are still to be sent.
Converges ==
  cli.open =>
    /\ Len(cli.jobs) <= 1
    /\ srv.pc \in Streaming \ {"announce", "swap"} => EndSize(cap[srv.cur].size)
    /\ srv.prev # NoFrame =>
         /\ EndSize(srv.prev.size)
         /\ \A t \in (1..srv.prev.size) \ srv.send : EndTile(t, srv.prev.pix[t])

StreamInv == TypeOK /\ Sent /\ InUse /\ Compared

=============================================================================
