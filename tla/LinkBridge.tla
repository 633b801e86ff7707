----------------------------- MODULE LinkBridge -----------------------------
(***************************************************************************)
(* The host link above the frames: link/link_session.c, link_dispatch.c    *)
(* and apps/link_bridge.c on the board, scripts/link_codec.py on the host, *)
(* and between them a line that keeps the order and may lose frames.  A    *)
(* frame is a unit of room in a transmit buffer.  A host of another        *)
(* version or key id is one that is not ok.                                *)
(***************************************************************************)
EXTENDS Lists

CONSTANTS Calls,      \* [method, app, text] records, as a host may send them
          Slots,      \* LINK_MSG_SLOTS
          TxCap,      \* frames the transmit buffer of one read takes
          MaxHellos, MaxSends, MaxResets,  \* bounds on what the host does
          MaxTx       \* bound: the count up to which the board sends unasked

VARIABLES dev,        \* g_session, g_stream, g_msgs and the shell's output
          host,       \* the Session of link_codec.py
          up, down,   \* the line in both directions
          link_log,   \* history: what was sent, done by the board, and refused
          resets      \* restarts so far, of either side

linkVars == <<dev, host, up, down, link_log, resets>>

Session == [open |-> FALSE, tx |-> 0, rx |-> 0]
Free == [app |-> "", text |-> 0]

-----------------------------------------------------------------------------
(* link_session.c, and Session of link_codec.py, which does the same.      *)

link_session_accept_hello_keeps(s) ==  \* mutant: the counter of the last session stays
    [s EXCEPT !.open = TRUE, !.tx = 0]
link_session_accept_hello(s) == [open |-> TRUE, tx |-> 0, rx |-> 0]

\* n more frames sealed
Counted(s, n) == [s EXCEPT !.tx = @ + n]

link_session_seal(s, what, id) ==
    [s |-> Counted(s, 1),
     f |-> [hello |-> FALSE, ok |-> TRUE, n |-> s.tx + 1, what |-> what, id |-> id]]

Hello(ok) == [hello |-> TRUE, ok |-> ok, n |-> 0, what |-> "hello", id |-> 0]

Opens(s, f) == s.open /\ ~f.hello /\ f.n > s.rx

link_session_open(s, f) == [s EXCEPT !.rx = f.n]

-----------------------------------------------------------------------------
(* link_dispatch.c and the handlers of link_bridge.c.  b is the board in a *)
(* read: its session, messages and shell output, the frames gathered for   *)
(* the answer in b.out, and whether one had no room.                       *)

on_message(b, c) ==
    LET free == {i \in 1..Slots : b.msgs[i] = Free}
    IN  CASE c.app = "nobody" -> [b |-> b, rc |-> "unknown app"]
          [] c.app # "nobody" /\ free = {} -> [b |-> b, rc |-> "busy"]
          [] OTHER -> [b |-> [b EXCEPT !.msgs = [@ EXCEPT ![First(free)] = [app |-> c.app, text |-> c.text]]],
                       rc |-> "ok"]

\* What notify_post and os_event_publish say is up to their own queues: took.
on_event(c, took) ==
    CASE c.app = "nobody" -> "unknown app" [] c.app # "nobody" /\ took -> "ok" [] OTHER -> "bad args"

link_dispatch_call(b, c, took) ==
    CASE c.method = "notify" ->
           [b |-> b, rc |-> IF c.text # 0 /\ took THEN "ok" ELSE "bad args"]
      [] c.method \in {"message", "event"} /\ (c.app = "" \/ c.text = 0) ->
           [b |-> b, rc |-> "bad args"]
      [] c.method = "message" /\ c.app # "" /\ c.text # 0 -> on_message(b, c)
      [] c.method = "event" /\ c.app # "" /\ c.text # 0 -> [b |-> b, rc |-> on_event(c, took)]
      [] c.method = "key" -> [b |-> b, rc |-> IF c.text = 0 \/ ~took THEN "bad args" ELSE "ok"]
      [] OTHER -> [b |-> b, rc |-> "unknown method"]

tx_append(b, f) ==
    IF Len(b.out) < TxCap THEN [b EXCEPT !.out = Append(@, f)] ELSE [b EXCEPT !.failed = TRUE]

Sealed(b, what, id) ==
    LET r == link_session_seal(b.s, what, id) IN tx_append([b EXCEPT !.s = r.s], r.f)

\* While a whole frame fits, the shell's output goes out; the rest waits.
seal_tty(b) ==
    LET room == TxCap - Len(b.out)
        n    == IF b.tty < room THEN b.tty ELSE room
    IN  [b EXCEPT !.tty = @ - n, !.s = Counted(@, n),
                  !.out = @ \o [i \in 1..n |-> link_session_seal(Counted(b.s, i - 1), "tty", 0).f]]

OnHello(b, f) ==
    IF ~f.ok THEN tx_append(b, [Hello(FALSE) EXCEPT !.what = "error"])
    ELSE LET b2 == tx_append([b EXCEPT !.s = link_session_accept_hello(@)], Hello(TRUE))
         IN  IF b2.failed THEN b2 ELSE seal_tty([b2 EXCEPT !.tty = @ + 1])  \* tty_service_open

OnSealed(b, f, took) ==
    LET b2 == [b EXCEPT !.s = link_session_open(@, f)]
        r  == link_dispatch_call(b2, f.what, took)
    IN  IF f.what.method = "tty" THEN seal_tty([b2 EXCEPT !.tty = @ + 1])
        ELSE Sealed(r.b, r.rc, f.id)

\* A sealed frame that does not open is dropped.
on_wire(b, f, took) ==
    CASE f.hello -> OnHello(b, f)
      [] ~f.hello /\ Opens(b.s, f) -> OnSealed(b, f, took)
      [] OTHER -> b

-----------------------------------------------------------------------------
(* The board.  A read brings n frames behind those the stream still holds; *)
(* one that fails ends it, keeps its frame and sends nothing.              *)

\* A frame of the read; done and refused are history.
FrameRead(r, f, took) ==
    LET b == on_wire(r.b, f, took)
    IN  IF r.b.failed THEN r
        ELSE [b       |-> b,
              used    |-> IF b.failed THEN r.used ELSE r.used + 1,
              done    |-> IF Opens(r.b.s, f) THEN Append(r.done, f.id) ELSE r.done,
              refused |-> IF r.b.s.open /\ ~f.hello /\ ~Opens(r.b.s, f)
                          THEN Append(r.refused, f.id) ELSE r.refused]

ReadStart ==
    [b |-> [s |-> dev.s, msgs |-> dev.msgs, tty |-> dev.tty, out |-> <<>>, failed |-> FALSE],
     used |-> 0, done |-> link_log.done, refused |-> link_log.refused]

\* The state of the read after each of the frames.
Reads(frames, took) ==
    LET after[k \in 0..Len(frames)] ==
            IF k = 0 THEN ReadStart ELSE FrameRead(after[k - 1], frames[k], took)
    IN  after

link_bridge_rx(n, took) ==
    /\ n <= Len(up)
    /\ \E frames \in {dev.stream \o SubSeq(up, 1, n)} :
       \E r \in {Reads(frames, took)[Len(frames)]} :
          /\ dev' = [s |-> r.b.s, msgs |-> r.b.msgs, tty |-> r.b.tty,
                     stream |-> SubSeq(frames, r.used + 1, Len(frames))]
          /\ down' = IF r.b.failed THEN down ELSE down \o r.b.out
          /\ link_log' = [link_log EXCEPT !.done = r.done, !.refused = r.refused]
    /\ up' = SubSeq(up, n + 1, Len(up))
    /\ UNCHANGED <<host, resets>>

\* tty_service_poll may add to the shell's output (htop).
link_bridge_poll(more) ==
    LET b == seal_tty([s |-> dev.s, msgs |-> dev.msgs, tty |-> dev.tty + more, out |-> <<>>, failed |-> FALSE])
    IN  /\ dev.s.open /\ dev.tty + more > 0 /\ dev.s.tx + dev.tty + more <= MaxTx
        /\ dev' = [dev EXCEPT !.s = b.s, !.tty = b.tty]
        /\ down' = down \o b.out
        /\ UNCHANGED <<host, up, link_log, resets>>

link_message_take(app) ==
    LET mine == {i \in 1..Slots : dev.msgs[i].app = app}
    IN  /\ mine # {}
        /\ dev' = [dev EXCEPT !.msgs = [@ EXCEPT ![First(mine)] = Free]]
        /\ UNCHANGED <<host, up, down, link_log, resets>>

Board == [s |-> Session, msgs |-> [i \in 1..Slots |-> Free], tty |-> 0, stream |-> <<>>]

\* Opening the USB port can reset the chip.
link_bridge_init ==
    /\ resets < MaxResets
    /\ resets' = resets + 1
    /\ dev' = Board
    /\ UNCHANGED <<host, up, down, link_log>>

-----------------------------------------------------------------------------
(* The host, and the line.                                                 *)

\* _handshake offers a hello again whenever no frame came in time.
HostHello ==
    /\ ~host.s.open /\ host.hellos < MaxHellos
    /\ host' = [host EXCEPT !.hellos = @ + 1]
    /\ up' = Append(up, Hello(host.ok))
    /\ UNCHANGED <<dev, down, link_log, resets>>

\* The first hello that comes is accepted; later ones and what does not open
\* are dropped (take_tty, poll).
HostReceive ==
    LET f == Head(down)
    IN  /\ down # <<>>
        /\ down' = Tail(down)
        /\ host' = CASE ~host.s.open /\ host.hellos > 0 /\ f.hello /\ f.ok /\ host.ok ->
                          [host EXCEPT !.s = link_session_accept_hello(@)]
                     [] Opens(host.s, f) -> [host EXCEPT !.s = link_session_open(@, f)]
                     [] OTHER -> host
        /\ UNCHANGED <<dev, up, link_log, resets>>

HostSend(c) ==
    LET text == IF c.text = 0 THEN 0 ELSE link_log.sent + 1  \* texts tell the order
        r    == link_session_seal(host.s, [c EXCEPT !.text = text], link_log.sent + 1)
    IN  /\ host.s.open /\ link_log.sent < MaxSends
        /\ host' = [host EXCEPT !.s = r.s]
        /\ up' = Append(up, r.f)
        /\ link_log' = [link_log EXCEPT !.sent = @ + 1]
        /\ UNCHANGED <<dev, down, resets>>

\* The program ends and is started again: open_usb drops what was not read yet.
HostRestart(ok) ==
    /\ resets < MaxResets
    /\ resets' = resets + 1
    /\ host' = [s |-> Session, hellos |-> 0, ok |-> ok]
    /\ down' = <<>>
    /\ UNCHANGED <<dev, up, link_log>>

Lose ==
    /\ \/ up # <<>> /\ up' = Tail(up) /\ down' = down
          /\ link_log' = [link_log EXCEPT !.hello_lost = @ \/ Head(up).hello]
       \/ down # <<>> /\ down' = Tail(down) /\ UNCHANGED <<up, link_log>>
    /\ UNCHANGED <<dev, host, resets>>

LinkInit ==
    /\ dev = Board /\ host = [s |-> Session, hellos |-> 0, ok |-> TRUE]
    /\ up = <<>> /\ down = <<>> /\ resets = 0
    /\ link_log = [sent |-> 0, done |-> <<>>, refused |-> <<>>,
                   hello_lost |-> FALSE]

LinkNext ==
    \/ \E n \in 0..2, took \in BOOLEAN : link_bridge_rx(n, took)
    \/ \E more \in 0..1 : link_bridge_poll(more)
    \/ \E app \in {c.app : c \in Calls} \ {"", "nobody"} : link_message_take(app)
    \/ link_bridge_init
    \/ HostHello
    \/ HostReceive
    \/ \E c \in Calls : HostSend(c)
    \/ \E ok \in BOOLEAN : HostRestart(ok)
    \/ Lose

LinkSpec == LinkInit /\ [][LinkNext]_linkVars

-----------------------------------------------------------------------------
\* Whatever is lost, retried, restarted or cut off for want of room, a sealed
\* frame of the host that reaches a board with an open session is acted on
\* exactly once and in the order of sending: the board refuses only a frame it
\* has acted on before, the one a read without room for the answer left in the
\* stream (on_wire, link_session_open).  A host that lost its hello and took the
\* late answer to an earlier one is the exception.
ActedOnOnce ==
    /\ \A i, j \in DOMAIN link_log.done : i < j => link_log.done[i] < link_log.done[j]
    /\ link_log.hello_lost \/
         \A i \in DOMAIN link_log.refused : \E j \in DOMAIN link_log.done :
            link_log.refused[i] = link_log.done[j]

=============================================================================
