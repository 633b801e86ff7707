----------------------------- MODULE LinkProofs -----------------------------
(***************************************************************************)
(* Proofs about the host link: a call is acted on once and in order,       *)
(* whatever is lost and whoever restarts (LinkInv: among the frames on     *)
(* their way the counters rise within a session, from the board's to the   *)
(* host's, and no frame but the one a failed read left behind is one the   *)
(* board has seen).                                                        *)
(***************************************************************************)
EXTENDS LinkBridge, ListsProofs

-----------------------------------------------------------------------------
(* The host link.                                                          *)

\* Frames of the host.
UpWhat == {"hello"} \cup {[c EXCEPT !.text = t] : c \in Calls, t \in Nat}
UpFrame == [hello : BOOLEAN, ok : BOOLEAN, n : Nat, what : UpWhat, id : Nat]

OkHello(f) == f.hello /\ f.ok

IsFrame(f) ==
    /\ f.hello \in BOOLEAN /\ f.ok \in BOOLEAN /\ f.n \in Nat /\ f.id \in Nat
    /\ ~f.hello => f.n > 0

\* A frame the board has acted on already: its counter is used up.
Used(f, s, done) == s.open /\ f.n <= s.rx /\ \E k \in DOMAIN done : done[k] = f.id

\* The frames from place u + 1 of q on, for a board in session s that has acted
\* on done: sealed frames come in the order of sending, and are new to it, but
\* for the first where held says so.
InOrder(q, u, s, done, held, sent) ==
    /\ \A i \in (u + 1)..Len(q) : ~q[i].hello =>
         /\ q[i].id <= sent
         /\ \/ \A k \in DOMAIN done : done[k] < q[i].id
            \/ i = u + 1 /\ held /\ Used(q[i], s, done)
    /\ \A i, j \in (u + 1)..Len(q) : ~q[i].hello /\ ~q[j].hello /\ i < j => q[i].id < q[j].id

\* No hello that opens a session lies in the range.
SameSession(q, i, j) == \A k \in i..j : ~OkHello(q[k])

\* The counters: within a session they rise, from the board's through the frames
\* on their way to that of the host h; a host that waits for an answer has sent
\* nothing since its hello.
CountersRise(q, u, s, done, held, h) ==
    /\ \A i, j \in (u + 1)..Len(q) :
         ~q[i].hello /\ ~q[j].hello /\ i < j /\ SameSession(q, i, j) => q[i].n < q[j].n
    /\ \A j \in (u + 1)..Len(q) :
         ~q[j].hello /\ s.open /\ SameSession(q, u + 1, j) =>
            s.rx < q[j].n \/ (j = u + 1 /\ held /\ Used(q[j], s, done))
    /\ h.s.open =>
         /\ \A i \in (u + 1)..Len(q) :
              ~q[i].hello /\ SameSession(q, i, Len(q)) => q[i].n <= h.s.tx
         /\ s.open /\ SameSession(q, u + 1, Len(q)) => s.rx <= h.s.tx
    /\ ~h.s.open /\ h.hellos > 0 /\ h.ok =>
         /\ \A i \in (u + 1)..Len(q) : ~q[i].hello => ~SameSession(q, i, Len(q))
         /\ s.open /\ SameSession(q, u + 1, Len(q)) => s.rx = 0

\* What was done and refused.
LogSound(done, refused, sent, lost) ==
    /\ \A i \in DOMAIN done : done[i] <= sent
    /\ \A i, j \in DOMAIN done : i < j => done[i] < done[j]
    /\ lost \/ \A i \in DOMAIN refused : \E j \in DOMAIN done : refused[i] = done[j]

BoardSound(q, u, s, done, refused, held, h, sent, lost) ==
    /\ InOrder(q, u, s, done, held, sent)
    /\ lost \/ CountersRise(q, u, s, done, held, h)
    /\ LogSound(done, refused, sent, lost)

\* The values the invariant is about have their types.
LinkTypes(q, s, done, refused, h, sent) ==
    /\ Len(q) \in Nat /\ \A i \in 1..Len(q) : IsFrame(q[i])
    /\ s.open \in BOOLEAN /\ s.rx \in Nat
    /\ done \in Seq(Nat) /\ refused \in Seq(Nat)
    /\ h.s.open \in BOOLEAN /\ h.s.tx \in Nat /\ h.hellos \in Nat /\ h.ok \in BOOLEAN
    /\ sent \in Nat

IsSession(s) == s = [open |-> s.open, tx |-> s.tx, rx |-> s.rx]
IsHost(h) == h = [s |-> h.s, hellos |-> h.hellos, ok |-> h.ok]
IsDev(d) == d = [s |-> d.s, msgs |-> d.msgs, tty |-> d.tty, stream |-> d.stream]
IsLog(l) == l = [sent |-> l.sent, done |-> l.done, refused |-> l.refused, hello_lost |-> l.hello_lost]

\* What is on its way to the board: what its stream holds, then the line.
Incoming == dev.stream \o up

LinkInv ==
    /\ IsDev(dev) /\ IsSession(dev.s) /\ IsHost(host) /\ IsSession(host.s) /\ IsLog(link_log)
    /\ dev.stream \in Seq(UpFrame) /\ up \in Seq(UpFrame)
    /\ LinkTypes(Incoming, dev.s, link_log.done, link_log.refused, host, link_log.sent)
    /\ BoardSound(Incoming, 0, dev.s, link_log.done, link_log.refused, dev.stream # <<>>,
                  host, link_log.sent, link_log.hello_lost)

-----------------------------------------------------------------------------
(* What a frame does to the invariant.                                      *)

\* A hello the board accepts starts a session: the counter is zero.
LEMMA HelloAccepted ==
    ASSUME NEW q, NEW u \in Nat, u < Len(q), NEW s, NEW done, NEW refused, NEW held \in BOOLEAN, NEW h,
           NEW sent, NEW lost, NEW s2,
           LinkTypes(q, s, done, refused, h, sent),
           BoardSound(q, u, s, done, refused, held, h, sent, lost),
           OkHello(q[u + 1])
    PROVE  BoardSound(q, u, s2, done, refused, TRUE, h, sent, lost)
<1> DEFINE f == q[u + 1]
<1>1. Len(q) \in Nat /\ u + 1 \in (u + 1)..Len(q) /\ f.hello
  BY DEF LinkTypes, OkHello
<1>2. \A j \in (u + 1)..Len(q) : ~SameSession(q, u + 1, j)
  BY <1>1 DEF SameSession
<1>3. InOrder(q, u, s2, done, TRUE, sent)
  BY <1>1, Zenon DEF BoardSound, InOrder
<1>4. CountersRise(q, u, s, done, held, h) => CountersRise(q, u, s2, done, TRUE, h)
  BY <1>1, <1>2, SMTT(30) DEF CountersRise
<1> QED
  BY <1>3, <1>4, Zenon DEF BoardSound

\* The board acts on a frame that opens.
LEMMA FrameActedOn ==
    ASSUME NEW q, NEW u \in Nat, u < Len(q), NEW s, NEW done, NEW refused, NEW held \in BOOLEAN, NEW h,
           NEW sent, NEW lost, NEW s2,
           LinkTypes(q, s, done, refused, h, sent),
           BoardSound(q, u, s, done, refused, held, h, sent, lost),
           Opens(s, q[u + 1]), s2.open = s.open, s2.rx = q[u + 1].n
    PROVE  BoardSound(q, u, s2, Append(done, q[u + 1].id), refused, TRUE, h, sent, lost)
<1> DEFINE f == q[u + 1]
           more == Append(done, f.id)
<1>1. /\ Len(q) \in Nat /\ u + 1 \in (u + 1)..Len(q) /\ ~f.hello /\ IsFrame(f)
      /\ s.open /\ f.n > s.rx /\ s.rx \in Nat /\ f.n \in Nat /\ f.id \in Nat
  BY SMTT(30) DEF LinkTypes, Opens, IsFrame
<1>2. /\ DOMAIN more = 1..(Len(done) + 1) /\ DOMAIN done = 1..Len(done) /\ Len(done) \in Nat
      /\ \A k \in 1..Len(done) : more[k] = done[k] /\ done[k] \in Nat
      /\ more[Len(done) + 1] = f.id
  BY <1>1, SMTT(30) DEF LinkTypes
<1>3. f.id <= sent /\ \A k \in DOMAIN done : done[k] < f.id
  <2>1. ~Used(f, s, done)
    BY <1>1, SMTT(30) DEF Used
  <2> QED BY <1>1, <2>1, Zenon DEF BoardSound, InOrder
<1>4. Used(f, s2, more)
  BY <1>1, <1>2, SMTT(30) DEF Used
<1> HIDE DEF more
<1>5. InOrder(q, u, s2, more, TRUE, sent)
  <2>1. ASSUME NEW i \in (u + 1)..Len(q), ~q[i].hello
        PROVE  q[i].id <= sent /\ ((\A k \in DOMAIN more : more[k] < q[i].id)
                                    \/ (i = u + 1 /\ Used(q[i], s2, more)))
    <3>1. CASE i = u + 1
      BY <1>3, <1>4, <3>1, Zenon
    <3>2. CASE i # u + 1
      <4>1. q[i].id <= sent /\ (\A k \in DOMAIN done : done[k] < q[i].id) /\ f.id < q[i].id
        BY <1>1, <2>1, <3>2, SMTT(30) DEF BoardSound, InOrder
      <4> QED BY <1>2, <4>1, SMTT(30)
    <3> QED BY <3>1, <3>2, Zenon
  <2> QED BY <2>1, Zenon DEF BoardSound, InOrder
<1>6. CountersRise(q, u, s, done, held, h) => CountersRise(q, u, s2, more, TRUE, h)
  <2> SUFFICES ASSUME CountersRise(q, u, s, done, held, h) PROVE CountersRise(q, u, s2, more, TRUE, h)
    BY Zenon
  <2>1. ASSUME NEW j \in (u + 1)..Len(q), ~q[j].hello, SameSession(q, u + 1, j)
        PROVE  s2.rx < q[j].n \/ (j = u + 1 /\ Used(q[j], s2, more))
    <3>1. CASE j = u + 1
      BY <1>4, <3>1, Zenon
    <3>2. CASE j # u + 1
      BY <1>1, <2>1, <3>2, SMTT(30) DEF CountersRise
    <3> QED BY <3>1, <3>2, Zenon
  <2>2. h.s.open /\ SameSession(q, u + 1, Len(q)) => s2.rx <= h.s.tx
    BY <1>1, Zenon DEF CountersRise
  <2>3. ~h.s.open /\ h.hellos > 0 /\ h.ok => ~SameSession(q, u + 1, Len(q))
    BY <1>1, Zenon DEF CountersRise
  <2> QED BY <2>1, <2>2, <2>3, Zenon DEF CountersRise
<1>7. LogSound(more, refused, sent, lost)
  <2>1. \A i \in DOMAIN more : more[i] <= sent
    BY <1>2, <1>3 DEF BoardSound, LogSound
  <2>2. \A i, j \in DOMAIN more : i < j => more[i] < more[j]
    BY <1>2, <1>3, SMTT(30) DEF BoardSound, LogSound
  <2>3. lost \/ \A i \in DOMAIN refused : \E j \in DOMAIN more : refused[i] = more[j]
    BY <1>2, SMTT(30) DEF BoardSound, LogSound
  <2> QED BY <2>1, <2>2, <2>3, Zenon DEF LogSound
<1> QED
  BY <1>5, <1>6, <1>7, Zenon DEF BoardSound, more

\* A frame it refuses is one it has acted on.
LEMMA FrameRefused ==
    ASSUME NEW q, NEW u \in Nat, u < Len(q), NEW s, NEW done, NEW refused, NEW held \in BOOLEAN, NEW h,
           NEW sent, NEW lost,
           LinkTypes(q, s, done, refused, h, sent),
           BoardSound(q, u, s, done, refused, held, h, sent, lost),
           s.open, ~q[u + 1].hello, ~Opens(s, q[u + 1])
    PROVE  BoardSound(q, u, s, done, Append(refused, q[u + 1].id), held, h, sent, lost)
<1> DEFINE f == q[u + 1]
           more == Append(refused, f.id)
<1>1. /\ Len(q) \in Nat /\ u + 1 \in (u + 1)..Len(q) /\ IsFrame(f)
      /\ f.n <= s.rx /\ s.rx \in Nat /\ f.n \in Nat /\ f.id \in Nat
  BY SMTT(30) DEF LinkTypes, Opens, IsFrame
<1>2. /\ DOMAIN more = 1..(Len(refused) + 1) /\ DOMAIN refused = 1..Len(refused) /\ Len(refused) \in Nat
      /\ \A k \in 1..Len(refused) : more[k] = refused[k]
      /\ more[Len(refused) + 1] = f.id
  BY <1>1, SMTT(30) DEF LinkTypes
<1>3. lost \/ \E j \in DOMAIN done : f.id = done[j]
  <2>1. SameSession(q, u + 1, u + 1)
    BY SMTT(30) DEF SameSession, OkHello
  <2> QED BY <1>1, <2>1 DEF BoardSound, CountersRise, Used
<1> HIDE DEF more
<1>4. LogSound(done, more, sent, lost)
  BY <1>2, <1>3 DEF BoardSound, LogSound
<1> QED
  BY <1>4, Zenon DEF BoardSound, more

\* A frame is taken off the stream.
LEMMA FirstDropped ==
    ASSUME NEW q, NEW u \in Nat, u < Len(q), NEW s, NEW done, NEW refused, NEW held \in BOOLEAN, NEW h,
           NEW sent, NEW lost,
           LinkTypes(q, s, done, refused, h, sent),
           BoardSound(q, u, s, done, refused, held, h, sent, lost),
           OkHello(q[u + 1]) => s.rx = 0
    PROVE  BoardSound(q, u + 1, s, done, refused, FALSE, h, sent, lost)
<1> DEFINE v == u + 1
<1>1. /\ Len(q) \in Nat /\ v \in Nat /\ v \in (u + 1)..Len(q)
      /\ \A i \in (v + 1)..Len(q) : i \in (u + 1)..Len(q) /\ i # u + 1
  BY SMTT(30) DEF LinkTypes
<1>2. \A j \in (v + 1)..Len(q) : ~OkHello(q[v]) /\ SameSession(q, v + 1, j) => SameSession(q, v, j)
  BY <1>1 DEF SameSession
<1>3. ~OkHello(q[v]) /\ SameSession(q, v + 1, Len(q)) => SameSession(q, v, Len(q))
  BY <1>1 DEF SameSession
<1>4. \A j \in (v + 1)..Len(q) : ~q[j].hello => 0 < q[j].n
  BY <1>1, SMTT(30) DEF LinkTypes, IsFrame
<1>5. InOrder(q, v, s, done, FALSE, sent)
  BY <1>1, Zenon DEF BoardSound, InOrder
<1>6. CountersRise(q, u, s, done, held, h) => CountersRise(q, v, s, done, FALSE, h)
  <2> SUFFICES ASSUME CountersRise(q, u, s, done, held, h) PROVE CountersRise(q, v, s, done, FALSE, h)
    BY Zenon
  <2>1. \A i, j \in (v + 1)..Len(q) :
          ~q[i].hello /\ ~q[j].hello /\ i < j /\ SameSession(q, i, j) => q[i].n < q[j].n
    BY <1>1, Zenon DEF CountersRise
  <2>2. \A j \in (v + 1)..Len(q) : ~q[j].hello /\ s.open /\ SameSession(q, v + 1, j) => s.rx < q[j].n
    BY <1>1, <1>2, <1>4, Zenon DEF CountersRise
  <2>3. h.s.open =>
         /\ \A i \in (v + 1)..Len(q) : ~q[i].hello /\ SameSession(q, i, Len(q)) => q[i].n <= h.s.tx
         /\ s.open /\ SameSession(q, v + 1, Len(q)) => s.rx <= h.s.tx
    BY <1>1, <1>3, SMTT(30) DEF CountersRise, LinkTypes
  <2>4. ~h.s.open /\ h.hellos > 0 /\ h.ok =>
         /\ \A i \in (v + 1)..Len(q) : ~q[i].hello => ~SameSession(q, i, Len(q))
         /\ s.open /\ SameSession(q, v + 1, Len(q)) => s.rx = 0
    BY <1>1, <1>3, Zenon DEF CountersRise
  <2> HIDE DEF v
  <2> QED BY <2>1, <2>2, <2>3, <2>4, Zenon DEF CountersRise
<1> QED
  BY <1>5, <1>6, Zenon DEF BoardSound

-----------------------------------------------------------------------------
(* What a frame does to the board.                                          *)

IsBoard(b) == b = [s |-> b.s, msgs |-> b.msgs, tty |-> b.tty, out |-> b.out, failed |-> b.failed]

\* The session of b is that of a up to the count of frames sent.
Answered(a, b) == IsBoard(b) /\ IsSession(b.s) /\ b.s.open = a.s.open /\ b.s.rx = a.s.rx

\* Appending a frame to the answer leaves the session alone.
LEMMA AppendAnswers ==
    ASSUME NEW b, IsBoard(b), IsSession(b.s), NEW f
    PROVE  Answered(b, tx_append(b, f))
BY Zenon DEF tx_append, IsBoard, Answered

\* A number of frames counted is a session like the one before.
LEMMA CountKeeps ==
    ASSUME NEW s, IsSession(s), NEW n
    PROVE  IsSession(Counted(s, n)) /\ Counted(s, n).open = s.open /\ Counted(s, n).rx = s.rx
BY DEF IsSession, Counted

\* Sealing an answer counts it.
LEMMA SealAnswers ==
    ASSUME NEW b, IsBoard(b), IsSession(b.s), NEW what, NEW id
    PROVE  Answered(b, Sealed(b, what, id))
<1> DEFINE s == Counted(b.s, 1)
           c == [b EXCEPT !.s = s]
<1>1. IsSession(s) /\ s.open = b.s.open /\ s.rx = b.s.rx
  BY CountKeeps, Zenon
<1> HIDE DEF s
<1>2. IsBoard(c) /\ c.s = s
  BY DEF IsBoard
<1> HIDE DEF c
<1>3. \A f : Answered(c, tx_append(c, f))
  BY <1>1, <1>2, AppendAnswers, Zenon
<1>4. \E f : Sealed(b, what, id) = tx_append(c, f)
  <2> DEFINE r == link_session_seal(b.s, what, id)
  <2>1. Sealed(b, what, id) = tx_append([b EXCEPT !.s = r.s], r.f)
    BY Zenon DEF Sealed
  <2>2. r.s = s
    BY Zenon DEF link_session_seal, s
  <2> HIDE DEF r
  <2> QED BY <2>1, <2>2, Zenon DEF c
<1> QED
  BY <1>1, <1>2, <1>3, <1>4, Zenon DEF Answered

\* So does sealing the output of the shell.
LEMMA TtyAnswers ==
    ASSUME NEW b, IsBoard(b), IsSession(b.s)
    PROVE  Answered(b, seal_tty(b))
<1> DEFINE room == TxCap - Len(b.out)
           n == IF b.tty < room THEN b.tty ELSE room
           s == Counted(b.s, n)
           o == b.out \o [i \in 1..n |-> link_session_seal(Counted(b.s, i - 1), "tty", 0).f]
<1>1. IsSession(s) /\ s.open = b.s.open /\ s.rx = b.s.rx
  BY CountKeeps, Zenon
<1>2. seal_tty(b) = [b EXCEPT !.tty = b.tty - n, !.s = s, !.out = o]
  BY Zenon DEF seal_tty
<1> HIDE DEF n, s, o
<1> DEFINE t == b.tty - n
<1> HIDE DEF t
<1> DEFINE b1 == [b EXCEPT !.tty = t]
           b2 == [b1 EXCEPT !.s = s]
           b3 == [b2 EXCEPT !.out = o]
<1>3. seal_tty(b) = b3
  BY <1>2, Zenon DEF t
<1>4. IsBoard(b1)
  BY DEF IsBoard
<1> HIDE DEF b1
<1>5. IsBoard(b2) /\ b2.s = s
  BY <1>4 DEF IsBoard
<1> HIDE DEF b2
<1>6. IsBoard(b3) /\ b3.s = s
  BY <1>5 DEF IsBoard
<1> HIDE DEF b3
<1> QED
  BY <1>1, <1>3, <1>6, Zenon DEF Answered

\* A call changes the messages at most.
LEMMA CallAnswers ==
    ASSUME NEW b, IsBoard(b), IsSession(b.s), NEW c, NEW took
    PROVE  Answered(b, link_dispatch_call(b, c, took).b)
<1>1. Answered(b, b)
  BY Zenon DEF Answered
<1>2. ASSUME NEW m PROVE Answered(b, [b EXCEPT !.msgs = m])
  BY DEF Answered, IsBoard
<1>3. Answered(b, on_message(b, c).b)
  <2> DEFINE free == {i \in 1..Slots : b.msgs[i] = Free}
             m == [b.msgs EXCEPT ![First(free)] = [app |-> c.app, text |-> c.text]]
  <2>1. on_message(b, c).b \in {b, [b EXCEPT !.msgs = m]}
    BY Zenon DEF on_message
  <2> HIDE DEF m
  <2> QED BY <1>1, <1>2, <2>1, Zenon
<1>4. link_dispatch_call(b, c, took).b \in {b, on_message(b, c).b}
  BY Zenon DEF link_dispatch_call
<1> QED
  BY <1>1, <1>3, <1>4, Zenon

\* What a frame does to the session.
SessionAfter(s, f, t) ==
    /\ OkHello(f) => t.open = TRUE /\ t.rx = 0
    /\ f.hello /\ ~f.ok => t.open = s.open /\ t.rx = s.rx
    /\ Opens(s, f) => t.open = s.open /\ t.rx = f.n

\* The handler of a frame does that, and drops what does not open.
LEMMA WireSession ==
    ASSUME NEW b, IsBoard(b), IsSession(b.s), NEW f, NEW took
    PROVE  /\ IsBoard(on_wire(b, f, took)) /\ IsSession(on_wire(b, f, took).s)
           /\ SessionAfter(b.s, f, on_wire(b, f, took).s)
           /\ ~f.hello /\ ~Opens(b.s, f) => on_wire(b, f, took) = b
<1>1. CASE f.hello /\ ~f.ok
  <2>1. \E g : on_wire(b, f, took) = tx_append(b, g)
    BY <1>1, Zenon DEF on_wire, OnHello
  <2>2. Answered(b, on_wire(b, f, took))
    BY <2>1, AppendAnswers, Zenon
  <2> QED BY <1>1, <2>2, Zenon DEF Answered, SessionAfter, OkHello, Opens
<1>2. CASE f.hello /\ f.ok
  <2> DEFINE s == link_session_accept_hello(b.s)
             c == [b EXCEPT !.s = s]
             d == tx_append(c, Hello(TRUE))
  <2>1. IsSession(s) /\ s.open = TRUE /\ s.rx = 0
    BY Zenon DEF link_session_accept_hello, IsSession
  <2> HIDE DEF s
  <2>2. IsBoard(c) /\ c.s = s
    BY DEF IsBoard
  <2> HIDE DEF c
  <2>3. Answered(c, d)
    BY <2>1, <2>2, AppendAnswers, Zenon
  <2> DEFINE e == [d EXCEPT !.tty = d.tty + 1]
  <2>4. on_wire(b, f, took) = IF d.failed THEN d ELSE seal_tty(e)
    BY <1>2, Zenon DEF on_wire, OnHello, c, s
  <2> HIDE DEF d
  <2>5. IsBoard(e) /\ e.s = d.s
    BY <2>3 DEF IsBoard, Answered
  <2> HIDE DEF e
  <2>6. Answered(e, seal_tty(e))
    BY <2>3, <2>5, TtyAnswers, Zenon DEF Answered
  <2>7. Answered(c, on_wire(b, f, took))
    BY <2>3, <2>4, <2>5, <2>6, Zenon DEF Answered
  <2> QED BY <1>2, <2>1, <2>2, <2>7, Zenon DEF Answered, SessionAfter, OkHello, Opens
<1>3. CASE ~f.hello /\ Opens(b.s, f)
  <2> DEFINE s == link_session_open(b.s, f)
             c == [b EXCEPT !.s = s]
             e == [c EXCEPT !.tty = c.tty + 1]
             r == link_dispatch_call(c, f.what, took)
  <2>1. IsSession(s) /\ s.open = b.s.open /\ s.rx = f.n
    BY DEF link_session_open, IsSession
  <2>2. on_wire(b, f, took) = IF f.what.method = "tty" THEN seal_tty(e) ELSE Sealed(r.b, r.rc, f.id)
    BY <1>3, Zenon DEF on_wire, OnSealed
  <2> HIDE DEF s
  <2>3. IsBoard(c) /\ c.s = s
    BY DEF IsBoard
  <2> HIDE DEF c
  <2>4. IsBoard(e) /\ e.s = s
    BY <2>3 DEF IsBoard
  <2>5. Answered(c, r.b)
    BY <2>1, <2>3, CallAnswers, Zenon
  <2> HIDE DEF e, r
  <2>6. Answered(e, seal_tty(e))
    BY <2>1, <2>4, TtyAnswers, Zenon
  <2>7. Answered(r.b, Sealed(r.b, r.rc, f.id))
    BY <2>5, SealAnswers, SMTT(30) DEF Answered
  <2>8. Answered(c, on_wire(b, f, took))
    BY <2>2, <2>3, <2>4, <2>5, <2>6, <2>7, Zenon DEF Answered
  <2> QED BY <1>3, <2>1, <2>3, <2>8, Zenon DEF Answered, SessionAfter, OkHello
<1>4. CASE ~f.hello /\ ~Opens(b.s, f)
  <2>1. on_wire(b, f, took) = b
    BY <1>4, Zenon DEF on_wire
  <2> QED BY <1>4, <2>1, Zenon DEF SessionAfter, OkHello
<1> QED
  BY <1>1, <1>2, <1>3, <1>4, Zenon

-----------------------------------------------------------------------------
(* A read: frame after frame, until one fails.                              *)

\* The state r of a read of q that has come to its k-th frame.
ReadSound(q, k, r) ==
    /\ IsBoard(r.b) /\ IsSession(r.b.s) /\ r.used \in 0..k
    /\ ~r.b.failed => r.used = k
    /\ r.b.failed => r.used < k
    /\ LinkTypes(q, r.b.s, r.done, r.refused, host, link_log.sent)
    /\ BoardSound(q, r.used, r.b.s, r.done, r.refused,
                  (r.b.failed = TRUE) \/ (r.used = 0 /\ dev.stream # <<>>),
                  host, link_log.sent, link_log.hello_lost)

\* A frame may be held where it may not have been.
LEMMA MayBeHeld ==
    ASSUME NEW q, NEW u, NEW s, NEW done, NEW refused, NEW held, NEW h, NEW sent, NEW lost,
           BoardSound(q, u, s, done, refused, held, h, sent, lost)
    PROVE  BoardSound(q, u, s, done, refused, TRUE, h, sent, lost)
BY Zenon DEF BoardSound, InOrder, CountersRise

\* What on_wire leaves behind the frame at place u + 1 is sound again.
AfterWire(q, u, b, done, refused, h, sent, lost, took) ==
    \A f, s, done2, refused2 :
       /\ f = q[u + 1]
       /\ s = on_wire(b, f, took).s
       /\ done2 = (IF Opens(b.s, f) THEN Append(done, f.id) ELSE done)
       /\ refused2 = (IF b.s.open /\ ~f.hello /\ ~Opens(b.s, f)
                      THEN Append(refused, f.id) ELSE refused)
       => /\ LinkTypes(q, s, done2, refused2, h, sent)
          /\ BoardSound(q, u, s, done2, refused2, TRUE, h, sent, lost)
          /\ OkHello(f) => s.rx = 0

\* A frame leaves the board sound with the frame still there, as one that may
\* have been acted on.
LEMMA WireSound ==
    ASSUME NEW q, NEW u \in Nat, u < Len(q), NEW b, NEW done, NEW refused, NEW held \in BOOLEAN, NEW h,
           NEW sent, NEW lost, NEW took, IsBoard(b), IsSession(b.s),
           LinkTypes(q, b.s, done, refused, h, sent),
           BoardSound(q, u, b.s, done, refused, held, h, sent, lost)
    PROVE  AfterWire(q, u, b, done, refused, h, sent, lost, took)
<1> SUFFICES
      ASSUME NEW f, NEW s, NEW done2, NEW refused2, f = q[u + 1], s = on_wire(b, f, took).s,
             done2 = IF Opens(b.s, f) THEN Append(done, f.id) ELSE done,
             refused2 = IF b.s.open /\ ~f.hello /\ ~Opens(b.s, f) THEN Append(refused, f.id) ELSE refused
      PROVE  /\ LinkTypes(q, s, done2, refused2, h, sent)
             /\ BoardSound(q, u, s, done2, refused2, TRUE, h, sent, lost)
             /\ OkHello(f) => s.rx = 0
  BY ZenonT(40) DEF AfterWire
<1>1. SessionAfter(b.s, f, s) /\ (~f.hello /\ ~Opens(b.s, f) => s = b.s)
  BY WireSession, Zenon
<1>2. u + 1 \in 1..Len(q) /\ IsFrame(f) /\ f.id \in Nat /\ f.n \in Nat /\ f.hello \in BOOLEAN /\ f.ok \in BOOLEAN
  BY SMTT(30) DEF LinkTypes, IsFrame
<1>3. s.open \in BOOLEAN /\ s.rx \in Nat
  <2>1. b.s.open \in BOOLEAN /\ b.s.rx \in Nat
    BY Zenon DEF LinkTypes
  <2>2. CASE OkHello(f)
    <3>1. s.open = TRUE /\ s.rx = 0
      BY <1>1, <2>2, Zenon DEF SessionAfter
    <3>2. s.open \in BOOLEAN
      BY <3>1, Zenon
    <3>3. s.rx \in Nat
      BY <3>1
    <3> QED BY <3>2, <3>3, Zenon
  <2>3. CASE f.hello /\ ~f.ok
    <3>1. s.open = b.s.open /\ s.rx = b.s.rx
      BY <1>1, <2>3, Zenon DEF SessionAfter
    <3> QED BY <2>1, <3>1, Zenon
  <2>4. CASE ~f.hello /\ Opens(b.s, f)
    <3>1. s.open = b.s.open /\ s.rx = f.n
      BY <1>1, <2>4, Zenon DEF SessionAfter
    <3> QED BY <1>2, <2>1, <3>1, Zenon
  <2>5. CASE ~f.hello /\ ~Opens(b.s, f)
    BY <1>1, <2>1, <2>5, Zenon
  <2> QED BY <1>2, <2>2, <2>3, <2>4, <2>5, Zenon DEF OkHello
<1>4. done2 \in Seq(Nat) /\ refused2 \in Seq(Nat)
  <2>1. done \in Seq(Nat) /\ refused \in Seq(Nat)
    BY Zenon DEF LinkTypes
  <2>2. Append(done, f.id) \in Seq(Nat) /\ Append(refused, f.id) \in Seq(Nat)
    BY <1>2, <2>1, SMTT(30)
  <2> QED BY <2>1, <2>2, Zenon
<1>5. LinkTypes(q, s, done2, refused2, h, sent)
  BY <1>3, <1>4, Zenon DEF LinkTypes
<1>6. ASSUME OkHello(f)
      PROVE  BoardSound(q, u, s, done2, refused2, TRUE, h, sent, lost) /\ s.rx = 0
  <2>1. done2 = done /\ refused2 = refused /\ s.rx = 0
    BY <1>1, <1>6, Zenon DEF OkHello, Opens, SessionAfter
  <2>2. BoardSound(q, u, s, done, refused, TRUE, h, sent, lost)
    BY <1>6, HelloAccepted, Zenon
  <2> QED BY <2>1, <2>2, Zenon
<1>7. ASSUME f.hello, ~f.ok
      PROVE  BoardSound(q, u, s, done2, refused2, TRUE, h, sent, lost)
  <2>1. done2 = done /\ refused2 = refused /\ s.open = b.s.open /\ s.rx = b.s.rx
    BY <1>1, <1>7, Zenon DEF OkHello, Opens, SessionAfter
  <2>2. BoardSound(q, u, b.s, done, refused, TRUE, h, sent, lost)
    BY MayBeHeld, Zenon
  <2>3. BoardSound(q, u, s, done, refused, TRUE, h, sent, lost)
    BY <2>1, <2>2, Zenon DEF BoardSound, InOrder, CountersRise, Used
  <2> QED BY <2>1, <2>3, Zenon
<1>8. ASSUME ~f.hello, Opens(b.s, f)
      PROVE  BoardSound(q, u, s, done2, refused2, TRUE, h, sent, lost)
  <2>1. done2 = Append(done, f.id) /\ refused2 = refused /\ s.open = b.s.open /\ s.rx = f.n
    BY <1>1, <1>8, Zenon DEF SessionAfter
  <2>2. BoardSound(q, u, s, Append(done, f.id), refused, TRUE, h, sent, lost)
    BY <1>8, <2>1, FrameActedOn, Zenon
  <2> QED BY <2>1, <2>2, Zenon
<1>9. ASSUME ~f.hello, ~Opens(b.s, f)
      PROVE  BoardSound(q, u, s, done2, refused2, TRUE, h, sent, lost)
  <2>1. s = b.s /\ done2 = done
    BY <1>1, <1>9, Zenon
  <2>2. BoardSound(q, u, b.s, done, refused2, held, h, sent, lost)
    <3>1. CASE b.s.open
      BY <1>9, <3>1, FrameRefused, Zenon
    <3>2. CASE ~b.s.open
      BY <3>2, Zenon
    <3> QED BY <3>1, <3>2, Zenon
  <2>3. BoardSound(q, u, b.s, done, refused2, TRUE, h, sent, lost)
    BY <2>2, MayBeHeld, Zenon
  <2> QED BY <2>1, <2>3, Zenon
<1>10. /\ BoardSound(q, u, s, done2, refused2, TRUE, h, sent, lost)
       /\ OkHello(f) => s.rx = 0
  <2> QED BY <1>2, <1>6, <1>7, <1>8, <1>9, Zenon DEF OkHello
<1> QED
  BY <1>5, <1>10, Zenon

\* Every frame of a read keeps it sound.
LEMMA ReadKeeps ==
    ASSUME NEW q, NEW k \in Nat, k < Len(q), NEW r, NEW took, ReadSound(q, k, r)
    PROVE  ReadSound(q, k + 1, FrameRead(r, q[k + 1], took))
<1> DEFINE f == q[k + 1]
           b == on_wire(r.b, f, took)
           done2 == IF Opens(r.b.s, f) THEN Append(r.done, f.id) ELSE r.done
           refused2 == IF r.b.s.open /\ ~f.hello /\ ~Opens(r.b.s, f)
                       THEN Append(r.refused, f.id) ELSE r.refused
           used2 == IF b.failed THEN r.used ELSE r.used + 1
<1>1. CASE r.b.failed
  <2>1. FrameRead(r, f, took) = r
    BY <1>1, Zenon DEF FrameRead
  <2> QED BY <1>1, <2>1, SMTT(30) DEF ReadSound
<1>2. CASE ~r.b.failed
  <2>1. FrameRead(r, f, took) = [b |-> b, used |-> used2, done |-> done2, refused |-> refused2]
    BY <1>2, Zenon DEF FrameRead
  <2>2. r.used = k /\ IsBoard(r.b) /\ IsSession(r.b.s)
    BY <1>2, Zenon DEF ReadSound
  <2>3. /\ LinkTypes(q, b.s, done2, refused2, host, link_log.sent)
        /\ BoardSound(q, k, b.s, done2, refused2, TRUE, host, link_log.sent, link_log.hello_lost)
        /\ OkHello(f) => b.s.rx = 0
    <3> DEFINE held == (r.b.failed = TRUE) \/ (r.used = 0 /\ dev.stream # <<>>)
               h == host
               sent == link_log.sent
               lost == link_log.hello_lost
               done1 == r.done
               refused1 == r.refused
               b1 == r.b
    <3>1. held \in BOOLEAN
      BY Zenon
    <3>2. /\ LinkTypes(q, b1.s, done1, refused1, h, sent)
          /\ BoardSound(q, k, b1.s, done1, refused1, held, h, sent, lost)
          /\ IsBoard(b1) /\ IsSession(b1.s)
      BY <2>2, Zenon DEF ReadSound
    <3> HIDE DEF held, h, sent, lost, done1, refused1, b1
    <3>3. AfterWire(q, k, b1, done1, refused1, h, sent, lost, took)
      BY <3>1, <3>2, WireSound, Zenon
    <3>4. /\ LinkTypes(q, b.s, done2, refused2, h, sent)
          /\ BoardSound(q, k, b.s, done2, refused2, TRUE, h, sent, lost)
          /\ OkHello(f) => b.s.rx = 0
      BY <3>3, Zenon DEF AfterWire, done1, refused1, b1
    <3> QED BY <3>4, Zenon DEF h, sent, lost
  <2>4. IsBoard(b) /\ IsSession(b.s)
    BY <2>2, WireSession, Zenon
  <2> HIDE DEF b, done2, refused2
  <2> DEFINE t == [b |-> b, used |-> used2, done |-> done2, refused |-> refused2]
  <2>5. t.b = b /\ t.used = used2 /\ t.done = done2 /\ t.refused = refused2
    BY Zenon
  <2>6. BoardSound(q, k + 1, b.s, done2, refused2, FALSE, host, link_log.sent, link_log.hello_lost)
    BY <2>3, FirstDropped, Zenon
  <2>7. CASE b.failed
    <3>1. t.used = k /\ t.used < k + 1 /\ t.used \in 0..(k + 1)
      BY <2>2, <2>5, <2>7, SMTT(30)
    <3> DEFINE held == (t.b.failed = TRUE) \/ (t.used = 0 /\ dev.stream # <<>>)
    <3>2. BoardSound(q, k, b.s, done2, refused2, held, host, link_log.sent, link_log.hello_lost)
      BY <2>3, <2>5, <2>7, Zenon
    <3> QED BY <2>1, <2>3, <2>4, <2>5, <2>7, <3>1, <3>2, Zenon DEF ReadSound
  <2>8. CASE ~b.failed
    <3>1. t.used = k + 1 /\ t.used \in 0..(k + 1) /\ t.used # 0
      BY <2>2, <2>5, <2>8, SMTT(30)
    <3>2. BoardSound(q, k + 1, b.s, done2, refused2,
                     (t.b.failed = TRUE) \/ (t.used = 0 /\ dev.stream # <<>>),
                     host, link_log.sent, link_log.hello_lost)
      BY <2>5, <2>6, <2>8, <3>1, Zenon
    <3> QED BY <2>1, <2>3, <2>4, <2>5, <2>8, <3>1, <3>2, Zenon DEF ReadSound
  <2> QED BY <2>7, <2>8, Zenon
<1> QED
  BY <1>1, <1>2, Zenon

\* f runs the read of frames from start through n of them.
IsReads(f, start, frames, took, n) ==
    f = [k \in 0..n |-> IF k = 0 THEN start ELSE FrameRead(f[k - 1], frames[k], took)]

\* Reads is defined: a read runs through any number of frames.
LEMMA ReadRuns ==
    ASSUME NEW start, NEW frames, NEW took
    PROVE  \A n \in Nat : \E f : IsReads(f, start, frames, took, n)
<1> DEFINE Bad == {n \in Nat : ~ \E f : IsReads(f, start, frames, took, n)}
           m == First(Bad)
<1>1. SUFFICES ASSUME Bad # {} PROVE FALSE
  BY Zenon
<1>2. m \in Bad /\ \A y \in Bad : m <= y
  BY <1>1, FirstIsFirst, Zenon
<1>3. /\ m \in Nat /\ ~ \E f : IsReads(f, start, frames, took, m)
      /\ \A y \in Nat : y < m => \E f : IsReads(f, start, frames, took, y)
  BY <1>2, SMTT(30)
<1> HIDE DEF Bad, m
<1>4. CASE m = 0
  <2> DEFINE g == [k \in 0..0 |-> start]
  <2>1. IsReads(g, start, frames, took, 0)
    BY DEF IsReads
  <2> QED BY <1>3, <1>4, <2>1, Zenon
<1>5. CASE m # 0
  <2>1. PICK f : IsReads(f, start, frames, took, m - 1)
    BY <1>3, <1>5
  <2> DEFINE last == FrameRead(f[m - 1], frames[m], took)
             g == [k \in 0..m |-> IF k = m THEN last ELSE f[k]]
  <2>2. \A k \in 0..(m - 1) : f[k] = IF k = 0 THEN start ELSE FrameRead(f[k - 1], frames[k], took)
    BY <2>1, Zenon DEF IsReads
  <2>3. \A k \in 0..m : g[k] = IF k = m THEN last ELSE f[k]
    BY Zenon
  <2>4. last = FrameRead(g[m - 1], frames[m], took)
    BY <1>3, <1>5, <2>3, SMTT(30)
  <2>5. ASSUME NEW k \in 0..m
        PROVE  g[k] = IF k = 0 THEN start ELSE FrameRead(g[k - 1], frames[k], took)
    <3>1. CASE k = m
      BY <1>5, <2>3, <2>4, <3>1, Zenon
    <3>2. CASE k # m
      <4>1. k \in 0..(m - 1) /\ (k # 0 => k - 1 \in 0..m /\ k - 1 # m)
        BY <1>3, <3>2
      <4> QED BY <2>2, <2>3, <3>2, <4>1, Zenon
    <3> QED BY <3>1, <3>2, Zenon
  <2>6. g = [k \in 0..m |-> g[k]]
    BY Zenon
  <2> HIDE DEF g, last
  <2>7. IsReads(g, start, frames, took, m)
    BY <2>5, <2>6, Zenon DEF IsReads
  <2> QED BY <1>3, <2>7, Zenon
<1> QED BY <1>4, <1>5, Zenon

\* A read of the first frames of q is sound to its end.
LEMMA ReadsSound ==
    ASSUME NEW q, NEW frames, NEW took, Len(frames) \in Nat, Len(q) \in Nat, Len(frames) <= Len(q),
           \A k \in 1..Len(frames) : frames[k] = q[k], ReadSound(q, 0, ReadStart)
    PROVE  ReadSound(q, Len(frames), Reads(frames, took)[Len(frames)])
<1> DEFINE L == Len(frames)
           f == Reads(frames, took)
           start == ReadStart
<1>1. IsReads(f, start, frames, took, L)
  <2>1. f = CHOOSE g : IsReads(g, start, frames, took, L)
    BY Zenon DEF Reads, IsReads
  <2>2. \E g : IsReads(g, start, frames, took, L)
    BY ReadRuns, Zenon
  <2> HIDE DEF f, L, start
  <2> QED BY <2>1, <2>2, Zenon
<1>2. L \in Nat /\ ReadSound(q, 0, start)
  BY Zenon
<1> HIDE DEF f, start
<1>3. \A k \in 0..L : f[k] = IF k = 0 THEN start ELSE FrameRead(f[k - 1], frames[k], took)
  BY <1>1, Zenon DEF IsReads
<1> DEFINE Bad == {n \in 0..L : ~ReadSound(q, n, f[n])}
           m == First(Bad)
<1>4. SUFFICES ASSUME Bad # {} PROVE FALSE
  BY <1>2 DEF f
<1>12. Bad \in SUBSET Nat
  BY <1>2, SMTT(30)
<1> HIDE DEF Bad
<1>5. m \in Bad /\ \A y \in Bad : m <= y
  BY <1>4, <1>12, FirstIsFirst, Zenon
<1> HIDE DEF m
<1>6. m \in 0..L /\ ~ReadSound(q, m, f[m]) /\ \A y \in 0..L : y < m => ReadSound(q, y, f[y])
  BY <1>2, <1>5, SMTT(30) DEF Bad
<1>7. m # 0
  BY <1>2, <1>3, <1>6, Zenon
<1>8. m - 1 \in 0..L /\ m - 1 \in Nat /\ m - 1 < m /\ m \in 1..L /\ m - 1 < Len(q) /\ (m - 1) + 1 = m
  BY <1>2, <1>6, <1>7, SMTT(30)
<1> DEFINE p == m - 1
<1>9. ReadSound(q, p, f[p]) /\ p \in Nat /\ p < Len(q) /\ p + 1 = m
  BY <1>6, <1>8, Zenon
<1>10. f[m] = FrameRead(f[p], q[m], took)
  BY <1>3, <1>7, <1>8, SMTT(30)
<1> HIDE DEF p
<1>11. ReadSound(q, p + 1, FrameRead(f[p], q[p + 1], took))
  BY <1>9, ReadKeeps, Zenon
<1> QED
  BY <1>6, <1>9, <1>10, <1>11, Zenon

-----------------------------------------------------------------------------
(* The line.                                                                *)

\* The frames left of q once u of them are gone.
LEMMA Shifted ==
    ASSUME NEW q, NEW q2, NEW u \in Nat, u <= Len(q), NEW s, NEW done, NEW refused,
           NEW held, NEW held2, NEW h, NEW sent, NEW lost,
           LinkTypes(q, s, done, refused, h, sent),
           BoardSound(q, u, s, done, refused, held, h, sent, lost),
           Len(q2) = Len(q) - u, \A i \in 1..Len(q2) : q2[i] = q[u + i], held => held2
    PROVE  /\ LinkTypes(q2, s, done, refused, h, sent)
           /\ BoardSound(q2, 0, s, done, refused, held2, h, sent, lost)
<1>1. Len(q) \in Nat /\ Len(q2) \in Nat
  BY SMTT(30) DEF LinkTypes
<1>2. \A i \in 1..Len(q2) : u + i \in (u + 1)..Len(q) /\ u + i \in 1..Len(q)
  BY <1>1, SMTT(30)
<1>3. LinkTypes(q2, s, done, refused, h, sent)
  BY <1>1, <1>2, Zenon DEF LinkTypes
<1>4. \A i, j \in 1..Len(q2) : SameSession(q2, i, j) <=> SameSession(q, u + i, u + j)
  <2> SUFFICES ASSUME NEW i \in 1..Len(q2), NEW j \in 1..Len(q2)
               PROVE  SameSession(q2, i, j) <=> SameSession(q, u + i, u + j)
    BY Zenon
  <2>1. ASSUME SameSession(q, u + i, u + j), NEW k \in i..j
        PROVE  ~OkHello(q2[k])
    <3>1. u + k \in (u + i)..(u + j) /\ k \in 1..Len(q2)
      BY <1>1
    <3> QED BY <2>1, <3>1, Zenon DEF SameSession
  <2>2. ASSUME SameSession(q2, i, j), NEW k \in (u + i)..(u + j)
        PROVE  ~OkHello(q[k])
    <3>1. k - u \in i..j /\ k - u \in 1..Len(q2) /\ u + (k - u) = k
      BY <1>1, SMTT(30)
    <3> QED BY <2>2, <3>1, Zenon DEF SameSession
  <2> QED BY <2>1, <2>2, Zenon DEF SameSession
<1>5. u + Len(q2) = Len(q) /\ (Len(q2) # 0 => Len(q2) \in 1..Len(q2) /\ 1 \in 1..Len(q2))
  BY <1>1, SMTT(30)
<1>6. SameSession(q2, 1, Len(q2)) <=> SameSession(q, u + 1, Len(q))
  <2>1. CASE Len(q2) = 0
    BY <1>1, <1>5, <2>1, SMTT(30) DEF SameSession
  <2>2. CASE Len(q2) # 0
    BY <1>4, <1>5, <2>2, Zenon
  <2> QED BY <2>1, <2>2, Zenon
<1>7. \A i \in 1..Len(q2) : SameSession(q2, i, Len(q2)) <=> SameSession(q, u + i, Len(q))
  <2> TAKE i \in 1..Len(q2)
  <2>1. Len(q2) \in 1..Len(q2)
    BY <1>1, SMTT(30)
  <2> QED BY <1>4, <1>5, <2>1, Zenon
<1>8. \A j \in 1..Len(q2) : SameSession(q2, 1, j) <=> SameSession(q, u + 1, u + j)
  BY <1>1, <1>4, SMTT(30)
<1>9. InOrder(q2, 0, s, done, held2, sent)
  <2>1. InOrder(q, u, s, done, held, sent)
    BY Zenon DEF BoardSound
  <2>2. ASSUME NEW i \in 1..Len(q2), ~q2[i].hello
        PROVE  /\ q2[i].id <= sent
               /\ \/ \A k \in DOMAIN done : done[k] < q2[i].id
                  \/ i = 1 /\ held2 /\ Used(q2[i], s, done)
    <3>1. u + i \in (u + 1)..Len(q) /\ q2[i] = q[u + i] /\ (u + i = u + 1 <=> i = 1)
      BY <1>1, <1>2, SMTT(30)
    <3> QED BY <2>1, <2>2, <3>1, Zenon DEF InOrder
  <2>3. ASSUME NEW i \in 1..Len(q2), NEW j \in 1..Len(q2), ~q2[i].hello, ~q2[j].hello, i < j
        PROVE  q2[i].id < q2[j].id
    BY <1>1, <1>2, <2>1, <2>3, SMTT(30) DEF InOrder
  <2>4. 0 + 1 = 1
    OBVIOUS
  <2> QED BY <2>2, <2>3, <2>4, Zenon DEF InOrder
<1>10. ASSUME CountersRise(q, u, s, done, held, h)
       PROVE  CountersRise(q2, 0, s, done, held2, h)
  <2>1. \A i, j \in 1..Len(q2) :
           ~q2[i].hello /\ ~q2[j].hello /\ i < j /\ SameSession(q2, i, j) => q2[i].n < q2[j].n
    <3> TAKE i, j \in 1..Len(q2)
    <3>1. /\ u + i \in (u + 1)..Len(q) /\ q2[i] = q[u + i] /\ (i < j => u + i < u + j)
          /\ u + j \in (u + 1)..Len(q) /\ q2[j] = q[u + j]
      BY <1>1, <1>2, SMTT(30)
    <3> QED BY <1>4, <1>10, <3>1, Zenon DEF CountersRise
  <2>2. \A j \in 1..Len(q2) :
           ~q2[j].hello /\ s.open /\ SameSession(q2, 1, j) =>
              s.rx < q2[j].n \/ (j = 1 /\ held2 /\ Used(q2[j], s, done))
    BY <1>1, <1>2, <1>8, <1>10, SMTT(30) DEF CountersRise
  <2>3. h.s.open =>
           /\ \A i \in 1..Len(q2) :
                ~q2[i].hello /\ SameSession(q2, i, Len(q2)) => q2[i].n <= h.s.tx
           /\ s.open /\ SameSession(q2, 1, Len(q2)) => s.rx <= h.s.tx
    BY <1>1, <1>2, <1>6, <1>7, <1>10, Zenon DEF CountersRise
  <2>4. ~h.s.open /\ h.hellos > 0 /\ h.ok =>
           /\ \A i \in 1..Len(q2) : ~q2[i].hello => ~SameSession(q2, i, Len(q2))
           /\ s.open /\ SameSession(q2, 1, Len(q2)) => s.rx = 0
    BY <1>1, <1>2, <1>6, <1>7, <1>10, Zenon DEF CountersRise
  <2>5. 0 + 1 = 1
    OBVIOUS
  <2> QED BY <2>1, <2>2, <2>3, <2>4, <2>5, Zenon DEF CountersRise
<1> QED
  BY <1>3, <1>9, <1>10, Zenon DEF BoardSound

\* c is a with b behind it; c is the first n of a; c is a without the first n.
IsJoin(c, a, b, S) ==
    /\ c \in Seq(S) /\ Len(c) = Len(a) + Len(b)
    /\ \A i \in 1..Len(a) : c[i] = a[i]
    /\ \A i \in 1..Len(b) : c[Len(a) + i] = b[i]
IsFirst(c, a, n, S) == c \in Seq(S) /\ Len(c) = n /\ \A i \in 1..n : c[i] = a[i]
IsRest(c, a, n, S) == c \in Seq(S) /\ Len(c) = Len(a) - n /\ \A i \in 1..(Len(a) - n) : c[i] = a[n + i]

\* q2 is what is left of q once u are gone.
IsLeft(q2, q, u) == Len(q2) = Len(q) - u /\ \A i \in 1..Len(q2) : q2[i] = q[u + i]

\* What the operators on sequences make: concatenation.
LEMMA JoinIs ==
    ASSUME NEW S, NEW a \in Seq(S), NEW b \in Seq(S)
    PROVE  IsJoin(a \o b, a, b, S)
BY DEF IsJoin
\* SubSeq from the front.
LEMMA FirstIs ==
    ASSUME NEW S, NEW a \in Seq(S), NEW n \in Nat, n <= Len(a)
    PROVE  IsFirst(SubSeq(a, 1, n), a, n, S)
BY DEF IsFirst
\* SubSeq to the end.
LEMMA RestIs ==
    ASSUME NEW S, NEW a \in Seq(S), NEW n \in Nat, n <= Len(a)
    PROVE  IsRest(SubSeq(a, n + 1, Len(a)), a, n, S)
BY SMTT(30) DEF IsRest

\* A read takes n frames off the line behind those of the stream and uses u of
\* them: what is on its way afterwards is what was, without the u used.
LEMMA LineMoves ==
    ASSUME NEW S, NEW stream \in Seq(S), NEW line \in Seq(S), NEW n \in Nat, n <= Len(line),
           NEW part, IsFirst(part, line, n, S), NEW frames, IsJoin(frames, stream, part, S),
           NEW u \in Nat, u <= Len(frames), NEW rest, IsRest(rest, frames, u, S),
           NEW line2, IsRest(line2, line, n, S), NEW q, IsJoin(q, stream, line, S),
           NEW q2, IsJoin(q2, rest, line2, S)
    PROVE  IsLeft(q2, q, u)
<1>1. /\ Len(frames) = Len(stream) + n /\ Len(rest) = Len(frames) - u /\ Len(line2) = Len(line) - n
      /\ Len(q) = Len(stream) + Len(line) /\ Len(q2) = Len(rest) + Len(line2)
  BY Zenon DEF IsFirst, IsJoin, IsRest
<1>2. Len(stream) \in Nat /\ Len(line) \in Nat /\ Len(rest) \in Nat /\ Len(q2) \in Nat
  <2>1. rest \in Seq(S) /\ q2 \in Seq(S)
    BY Zenon DEF IsRest, IsJoin
  <2> QED BY <2>1
<1>3. ASSUME NEW i \in 1..Len(q2)
      PROVE  q2[i] = q[u + i]
  <2>1. CASE i <= Len(rest) /\ u + i <= Len(stream)
    <3>1. i \in 1..Len(rest) /\ i \in 1..(Len(frames) - u) /\ u + i \in 1..Len(stream)
      BY <1>1, <1>2, <2>1, SMTT(30)
    <3>2. q2[i] = rest[i] /\ rest[i] = frames[u + i]
      BY <3>1, Zenon DEF IsJoin, IsRest
    <3>3. frames[u + i] = stream[u + i] /\ q[u + i] = stream[u + i]
      BY <3>1, Zenon DEF IsJoin
    <3> QED BY <3>2, <3>3, Zenon
  <2>2. CASE i <= Len(rest) /\ u + i > Len(stream)
    <3> DEFINE j == u + i - Len(stream)
    <3>1. /\ i \in 1..Len(rest) /\ i \in 1..(Len(frames) - u) /\ j \in 1..n /\ j \in 1..Len(line)
          /\ Len(stream) + j = u + i
      BY <1>1, <1>2, <2>2, SMTT(30)
    <3> HIDE DEF j
    <3>2. q2[i] = rest[i] /\ rest[i] = frames[u + i]
      BY <3>1, Zenon DEF IsJoin, IsRest
    <3>3. frames[Len(stream) + j] = part[j] /\ part[j] = line[j] /\ q[Len(stream) + j] = line[j]
      BY <3>1, Zenon DEF IsJoin, IsFirst
    <3> QED BY <3>1, <3>2, <3>3, Zenon
  <2>3. CASE i > Len(rest)
    <3> DEFINE j == i - Len(rest)
    <3>1. /\ j \in 1..(Len(line) - n) /\ j \in 1..Len(line2) /\ Len(rest) + j = i
          /\ n + j \in 1..Len(line) /\ Len(stream) + (n + j) = u + i
      BY <1>1, <1>2, <2>3, SMTT(30)
    <3> HIDE DEF j
    <3>2. q2[Len(rest) + j] = line2[j] /\ line2[j] = line[n + j]
      BY <3>1, Zenon DEF IsJoin, IsRest
    <3>3. q[Len(stream) + (n + j)] = line[n + j]
      BY <3>1, Zenon DEF IsJoin
    <3> QED BY <3>1, <3>2, <3>3, Zenon
  <2> QED BY <1>2, <2>1, <2>2, <2>3, SMTT(30)
<1> QED
  BY <1>1, <1>2, <1>3, SMTT(30) DEF IsLeft

\* The read that is to come starts sound.
LEMMA StartSound == LinkInv => ReadSound(Incoming, 0, ReadStart)
<1> SUFFICES ASSUME LinkInv PROVE ReadSound(Incoming, 0, ReadStart)
  BY Zenon
<1> DEFINE q == Incoming
           b == [s |-> dev.s, msgs |-> dev.msgs, tty |-> dev.tty, out |-> <<>>, failed |-> FALSE]
           r == ReadStart
<1>1. /\ r.b = b /\ r.used = 0 /\ r.done = link_log.done /\ r.refused = link_log.refused
      /\ b.s = dev.s /\ b.failed = FALSE
  BY Zenon DEF ReadStart
<1>2. IsBoard(b)
  BY Zenon DEF IsBoard
<1>3. /\ LinkTypes(q, dev.s, link_log.done, link_log.refused, host, link_log.sent) /\ IsSession(dev.s)
      /\ BoardSound(q, 0, dev.s, link_log.done, link_log.refused, dev.stream # <<>>,
                    host, link_log.sent, link_log.hello_lost)
  BY Zenon DEF LinkInv
<1> HIDE DEF q, b, r
<1>4. ((r.b.failed = TRUE) \/ (r.used = 0 /\ dev.stream # <<>>)) = (dev.stream # <<>>)
  BY <1>1, Zenon
<1>5. BoardSound(q, r.used, r.b.s, r.done, r.refused,
                 (r.b.failed = TRUE) \/ (r.used = 0 /\ dev.stream # <<>>),
                 host, link_log.sent, link_log.hello_lost)
  BY <1>1, <1>3, <1>4, Zenon
<1>6. ReadSound(q, 0, r)
  BY <1>1, <1>2, <1>3, <1>5, SMTT(30) DEF ReadSound
<1> QED
  BY <1>6, Zenon DEF q, r

\* A read of the board, with every frame it comes to.
LEMMA RxKeeps ==
    ASSUME LinkInv, NEW n \in 0..2, NEW took, link_bridge_rx(n, took)
    PROVE  LinkInv'
<1> DEFINE q == Incoming
           part == SubSeq(up, 1, n)
           frames == dev.stream \o part
           L == Len(frames)
           r == Reads(frames, took)[L]
           rest == SubSeq(frames, r.used + 1, L)
<1>1. dev.stream \in Seq(UpFrame) /\ up \in Seq(UpFrame) /\ n \in Nat /\ n <= Len(up)
  BY SMTT(30) DEF LinkInv, link_bridge_rx
<1>2. /\ dev' = [s |-> r.b.s, msgs |-> r.b.msgs, tty |-> r.b.tty, stream |-> rest]
      /\ link_log' = [link_log EXCEPT !.done = r.done, !.refused = r.refused]
      /\ up' = SubSeq(up, n + 1, Len(up)) /\ host' = host
  BY Zenon DEF link_bridge_rx
<1>3. IsFirst(part, up, n, UpFrame) /\ IsJoin(q, dev.stream, up, UpFrame) /\ IsRest(up', up, n, UpFrame)
  BY <1>1, <1>2, FirstIs, JoinIs, RestIs, Zenon DEF Incoming
<1>4. ReadSound(q, 0, ReadStart)
  BY StartSound, Zenon
<1> HIDE DEF q, part
<1>5. part \in Seq(UpFrame)
  BY <1>3, Zenon DEF IsFirst
<1>6. IsJoin(frames, dev.stream, part, UpFrame)
  BY <1>1, <1>5, JoinIs, Zenon
<1> HIDE DEF frames
<1>7. L \in Nat /\ Len(q) \in Nat /\ L <= Len(q) /\ L = Len(dev.stream) + n
  BY <1>1, <1>3, <1>6 DEF IsJoin, IsFirst
<1>8. \A k \in 1..L : frames[k] = q[k]
  <2> TAKE k \in 1..L
  <2>1. CASE k <= Len(dev.stream)
    <3>1. k \in 1..Len(dev.stream)
      BY <1>1, <2>1, SMTT(30)
    <3> QED BY <1>3, <1>6, <3>1, Zenon DEF IsJoin
  <2>2. CASE k > Len(dev.stream)
    <3> DEFINE j == k - Len(dev.stream)
    <3>1. j \in 1..n /\ j \in 1..Len(up) /\ Len(dev.stream) + j = k
      BY <1>1, <1>7, <2>2, SMTT(30)
    <3> HIDE DEF j
    <3>2. frames[Len(dev.stream) + j] = part[j] /\ part[j] = up[j] /\ q[Len(dev.stream) + j] = up[j]
      BY <1>3, <1>6, <3>1, Zenon DEF IsJoin, IsFirst
    <3> QED BY <3>1, <3>2, Zenon
  <2> QED BY <1>1, <1>7, <2>1, <2>2, SMTT(30)
<1>9. ReadSound(q, L, r)
  BY <1>4, <1>7, <1>8, ReadsSound, Zenon
<1> HIDE DEF r
<1> DEFINE held == (r.b.failed = TRUE) \/ (r.used = 0 /\ dev.stream # <<>>)
<1>10. /\ IsSession(r.b.s) /\ r.used \in 0..L /\ (r.b.failed = TRUE => r.used < L)
       /\ LinkTypes(q, r.b.s, r.done, r.refused, host, link_log.sent)
       /\ BoardSound(q, r.used, r.b.s, r.done, r.refused, held, host, link_log.sent, link_log.hello_lost)
  BY <1>9, Zenon DEF ReadSound
<1> DEFINE q2 == rest \o up'
           u == r.used
<1>16. u \in Nat /\ u <= L /\ u <= Len(q)
  BY <1>7, <1>10
<1>17. IsRest(rest, frames, u, UpFrame)
  <2>1. frames \in Seq(UpFrame)
    BY <1>6, Zenon DEF IsJoin
  <2> HIDE DEF u
  <2> QED BY <1>16, <2>1, RestIs, ZenonT(40) DEF u
<1> HIDE DEF rest
<1>18. IsJoin(q2, rest, up', UpFrame)
  <2>1. rest \in Seq(UpFrame) /\ up' \in Seq(UpFrame)
    BY <1>3, <1>17, Zenon DEF IsRest
  <2> QED BY <2>1, JoinIs, Zenon
<1> HIDE DEF q2, u
<1>11. /\ rest \in Seq(UpFrame) /\ up' \in Seq(UpFrame) /\ Len(rest) = L - u
       /\ Len(q2) = Len(q) - u /\ \A i \in 1..Len(q2) : q2[i] = q[u + i]
  <2>1. rest \in Seq(UpFrame) /\ up' \in Seq(UpFrame) /\ Len(rest) = L - u
    BY <1>3, <1>17, Zenon DEF IsRest
  <2>2. IsLeft(q2, q, u)
    BY <1>1, <1>3, <1>6, <1>16, <1>17, <1>18, LineMoves, ZenonT(40)
  <2> QED BY <2>1, <2>2, Zenon DEF IsLeft
<1> HIDE DEF L
<1>12. held => rest # <<>>
  BY <1>1, <1>7, <1>10, <1>11, SMTT(30) DEF u
<1>13. /\ LinkTypes(q2, r.b.s, r.done, r.refused, host, link_log.sent)
       /\ BoardSound(q2, 0, r.b.s, r.done, r.refused, rest # <<>>, host, link_log.sent, link_log.hello_lost)
  <2> DEFINE held2 == rest # <<>>
  <2>1. (held => held2)
        /\ BoardSound(q, u, r.b.s, r.done, r.refused, held, host, link_log.sent, link_log.hello_lost)
    BY <1>10, <1>12, Zenon DEF u
  <2> HIDE DEF held, held2
  <2>2. /\ LinkTypes(q2, r.b.s, r.done, r.refused, host, link_log.sent)
        /\ BoardSound(q2, 0, r.b.s, r.done, r.refused, held2, host, link_log.sent, link_log.hello_lost)
    BY ONLY <1>10, <1>11, <1>16, <2>1, Shifted, SMTT(30)
  <2> QED BY <2>2, Zenon DEF held2
<1>14. Incoming' = q2 /\ IsDev(dev') /\ dev'.s = r.b.s /\ dev'.stream = rest
  BY <1>2, Zenon DEF q2, Incoming, IsDev
<1>15. /\ IsLog(link_log') /\ link_log'.sent = link_log.sent /\ link_log'.hello_lost = link_log.hello_lost
       /\ link_log'.done = r.done /\ link_log'.refused = r.refused
  BY <1>2, Zenon DEF LinkInv, IsLog
<1> QED
  BY <1>2, <1>10, <1>11, <1>13, <1>14, <1>15, Zenon DEF LinkInv

-----------------------------------------------------------------------------
(* What the other steps do to the invariant.                                *)

\* Only whether the session is open and its last counter matter.
LEMMA SentOnly ==
    ASSUME NEW q, NEW u, NEW s, NEW done, NEW refused, NEW held, NEW h, NEW sent, NEW lost, NEW s2,
           LinkTypes(q, s, done, refused, h, sent),
           BoardSound(q, u, s, done, refused, held, h, sent, lost),
           s2.open = s.open, s2.rx = s.rx
    PROVE  /\ LinkTypes(q, s2, done, refused, h, sent)
           /\ BoardSound(q, u, s2, done, refused, held, h, sent, lost)
BY Zenon DEF LinkTypes, BoardSound, InOrder, CountersRise, Used

\* A board that starts anew has no session, and whatever its stream held is gone.
LEMMA Closed ==
    ASSUME NEW q, NEW u \in Nat, NEW s, NEW done, NEW refused, NEW held, NEW h, NEW sent, NEW lost, NEW s2,
           LinkTypes(q, s, done, refused, h, sent),
           BoardSound(q, 0, s, done, refused, held, h, sent, lost),
           held => u > 0, s2.open = FALSE, s2.rx = 0
    PROVE  /\ LinkTypes(q, s2, done, refused, h, sent)
           /\ BoardSound(q, u, s2, done, refused, FALSE, h, sent, lost)
<1>1. Len(q) \in Nat /\ \A i \in (u + 1)..Len(q) : i \in 1..Len(q) /\ (i = 1 => ~held)
  BY SMTT(30) DEF LinkTypes
<1>2. LinkTypes(q, s2, done, refused, h, sent)
  <2>1. s2.open \in BOOLEAN
    BY Zenon
  <2>2. s2.rx \in Nat
    BY SMTT(30)
  <2> QED BY <2>1, <2>2, Zenon DEF LinkTypes
<1>3. InOrder(q, u, s2, done, FALSE, sent)
  BY <1>1, SMTT(30) DEF BoardSound, InOrder
<1>4. CountersRise(q, 0, s, done, held, h) => CountersRise(q, u, s2, done, FALSE, h)
  BY <1>1, SMTT(30) DEF CountersRise
<1> QED
  BY <1>2, <1>3, <1>4, Zenon DEF BoardSound

\* q2 is q with f behind it.
IsMore(q2, q, f) ==
    /\ Len(q2) = Len(q) + 1 /\ q2[Len(q) + 1] = f
    /\ \A i \in 1..Len(q) : q2[i] = q[i]

\* A session goes on among the frames before the last one.
LEMMA SessionMore ==
    ASSUME NEW q, NEW q2, NEW f, Len(q) \in Nat, IsMore(q2, q, f)
    PROVE  /\ \A i, j \in 1..Len(q) : SameSession(q2, i, j) <=> SameSession(q, i, j)
           /\ \A i \in 1..(Len(q) + 1) :
                 SameSession(q2, i, Len(q2)) <=> SameSession(q, i, Len(q)) /\ ~OkHello(f)
<1>1. ASSUME NEW i \in 1..Len(q), NEW j \in 1..Len(q)
      PROVE  SameSession(q2, i, j) <=> SameSession(q, i, j)
  <2>1. \A k \in i..j : q2[k] = q[k]
    BY SMTT(30) DEF IsMore
  <2> QED BY <2>1, Zenon DEF SameSession
<1>2. ASSUME NEW i \in 1..(Len(q) + 1)
      PROVE  SameSession(q2, i, Len(q2)) <=> SameSession(q, i, Len(q)) /\ ~OkHello(f)
  <2>1. \A k \in i..Len(q) : q2[k] = q[k] /\ k \in i..Len(q2)
    BY SMTT(30) DEF IsMore
  <2>2. Len(q2) = Len(q) + 1 /\ q2[Len(q) + 1] = f /\ Len(q) + 1 \in i..Len(q2)
    BY SMTT(30) DEF IsMore
  <2>3. \A k \in i..Len(q2) : k \in i..Len(q) \/ k = Len(q) + 1
    BY <2>2, SMTT(30)
  <2> QED BY <2>1, <2>2, <2>3, Zenon DEF SameSession
<1> QED
  BY <1>1, <1>2, Zenon

\* The host sends a hello: nothing it sent before is of the session to come.
LEMMA HelloSent ==
    ASSUME NEW q, NEW q2, NEW f, NEW s, NEW done, NEW refused, NEW held, NEW h, NEW h2, NEW sent, NEW lost,
           LinkTypes(q, s, done, refused, h, sent), LinkTypes(q2, s, done, refused, h2, sent),
           BoardSound(q, 0, s, done, refused, held, h, sent, lost),
           IsMore(q2, q, f), f.hello, f.ok = h2.ok, ~h2.s.open
    PROVE  BoardSound(q2, 0, s, done, refused, held, h2, sent, lost)
<1>1. Len(q) \in Nat /\ Len(q2) = Len(q) + 1
  BY Zenon DEF LinkTypes, IsMore
<1>2. \A i \in 1..Len(q2) : ~q2[i].hello => i \in 1..Len(q) /\ q2[i] = q[i]
  BY <1>1, SMTT(30) DEF IsMore
<1>3. InOrder(q2, 0, s, done, held, sent)
  BY <1>1, <1>2, SMTT(30) DEF BoardSound, InOrder
<1>4. ASSUME CountersRise(q, 0, s, done, held, h)
      PROVE  CountersRise(q2, 0, s, done, held, h2)
  <2>1. \A i, j \in 1..Len(q2) :
           ~q2[i].hello /\ ~q2[j].hello /\ i < j /\ SameSession(q2, i, j) => q2[i].n < q2[j].n
    BY <1>1, <1>2, <1>4, SessionMore, SMTT(30) DEF CountersRise
  <2>2. \A j \in 1..Len(q2) :
           ~q2[j].hello /\ s.open /\ SameSession(q2, 1, j) =>
              s.rx < q2[j].n \/ (j = 1 /\ held /\ Used(q2[j], s, done))
    <3> TAKE j \in 1..Len(q2)
    <3> HAVE ~q2[j].hello /\ s.open /\ SameSession(q2, 1, j)
    <3>1. j \in 1..Len(q) /\ 1 \in 1..Len(q) /\ q2[j] = q[j]
      BY <1>1, <1>2, SMTT(30)
    <3>2. SameSession(q, 1, j)
      BY <1>1, <3>1, SessionMore, Zenon
    <3> QED BY <1>4, <3>1, <3>2, SMTT(30) DEF CountersRise
  <2>3. h2.ok => \A i \in 1..Len(q2) : ~SameSession(q2, i, Len(q2))
    BY <1>1, SessionMore, Zenon DEF OkHello
  <2>4. h2.ok => ~SameSession(q2, 1, Len(q2))
    BY <1>1, <2>3, SMTT(30)
  <2>5. 0 + 1 = 1
    OBVIOUS
  <2> QED BY <2>1, <2>2, <2>3, <2>4, <2>5, ZenonT(40) DEF CountersRise
<1> QED
  BY <1>3, <1>4, Zenon DEF BoardSound

\* The host sends a sealed frame, with the next counter.
LEMMA FrameSent ==
    ASSUME NEW q, NEW q2, NEW f, NEW s, NEW done, NEW refused, NEW held, NEW h, NEW h2, NEW sent, NEW sent2,
           NEW lost, LinkTypes(q, s, done, refused, h, sent), LinkTypes(q2, s, done, refused, h2, sent2),
           BoardSound(q, 0, s, done, refused, held, h, sent, lost),
           IsMore(q2, q, f), ~f.hello, f.n = h.s.tx + 1, f.id = sent + 1, sent2 = sent + 1,
           h.s.open, h2.s.open, h2.s.tx = h.s.tx + 1
    PROVE  BoardSound(q2, 0, s, done, refused, held, h2, sent2, lost)
<1>1. Len(q) \in Nat /\ Len(q2) = Len(q) + 1 /\ sent \in Nat /\ h.s.tx \in Nat /\ s.rx \in Nat
  BY Zenon DEF LinkTypes, IsMore
<1>2. \A i \in 1..Len(q2) : \/ i \in 1..Len(q) /\ q2[i] = q[i]
                            \/ i = Len(q2) /\ q2[i] = f
  BY <1>1, SMTT(30) DEF IsMore
<1>3. /\ \A i \in 1..Len(q) : q[i].id \in Nat /\ q[i].n \in Nat
      /\ \A k \in DOMAIN done : done[k] \in Nat /\ done[k] <= sent
  BY SMTT(30) DEF LinkTypes, IsFrame, BoardSound, LogSound
<1>4. InOrder(q2, 0, s, done, held, sent2)
  <2>1. ASSUME NEW i \in 1..Len(q2), ~q2[i].hello
        PROVE  /\ q2[i].id <= sent2
               /\ \/ \A k \in DOMAIN done : done[k] < q2[i].id
                  \/ i = 1 /\ held /\ Used(q2[i], s, done)
    <3>1. CASE i \in 1..Len(q) /\ q2[i] = q[i]
      BY <1>1, <1>3, <2>1, <3>1, SMTT(30) DEF BoardSound, InOrder
    <3>2. CASE q2[i] = f
      BY <1>1, <1>3, <3>2, SMTT(30)
    <3> QED BY <1>2, <3>1, <3>2, Zenon
  <2>2. ASSUME NEW i \in 1..Len(q2), NEW j \in 1..Len(q2), ~q2[i].hello, ~q2[j].hello, i < j
        PROVE  q2[i].id < q2[j].id
    <3>1. i \in 1..Len(q) /\ q2[i] = q[i] /\ q[i].id <= sent /\ q[i].id \in Nat
      BY <1>1, <1>2, <1>3, <2>2, SMTT(30) DEF BoardSound, InOrder
    <3>2. CASE j \in 1..Len(q) /\ q2[j] = q[j]
      BY <2>2, <3>1, <3>2, SMTT(30) DEF BoardSound, InOrder
    <3>3. CASE q2[j] = f
      BY <1>1, <3>1, <3>3, SMTT(30)
    <3> QED BY <1>2, <3>2, <3>3, ZenonT(40)
  <2>3. 0 + 1 = 1
    BY SMTT(30)
  <2> QED BY <2>1, <2>2, <2>3, Zenon DEF InOrder
<1>5. LogSound(done, refused, sent2, lost)
  BY <1>1, <1>3, SMTT(30) DEF BoardSound, LogSound
<1>6. ASSUME CountersRise(q, 0, s, done, held, h)
      PROVE  CountersRise(q2, 0, s, done, held, h2)
  <2>1. /\ \A i \in 1..Len(q) :
              ~q[i].hello /\ SameSession(q2, i, Len(q2)) => q[i].n <= h.s.tx
        /\ s.open /\ SameSession(q2, 1, Len(q2)) => s.rx <= h.s.tx
    <3>1. \A i \in 1..(Len(q) + 1) : SameSession(q2, i, Len(q2)) => SameSession(q, i, Len(q))
      BY <1>1, SessionMore, ZenonT(40)
    <3>2. 1 \in 1..(Len(q) + 1) /\ \A i \in 1..Len(q) : i \in 1..(Len(q) + 1)
      BY <1>1, SMTT(30)
    <3> QED BY <1>6, <3>1, <3>2, SMTT(30) DEF CountersRise
  <2>2. ASSUME NEW i \in 1..Len(q2), NEW j \in 1..Len(q2), ~q2[i].hello, ~q2[j].hello, i < j,
               SameSession(q2, i, j)
        PROVE  q2[i].n < q2[j].n
    <3>1. i \in 1..Len(q) /\ q2[i] = q[i] /\ q[i].n \in Nat
      BY <1>1, <1>2, <1>3, <2>2, SMTT(30)
    <3>2. CASE j \in 1..Len(q) /\ q2[j] = q[j]
      <4>1. SameSession(q, i, j)
        BY <1>1, <2>2, <3>1, <3>2, SessionMore, ZenonT(40)
      <4> QED BY <1>6, <2>2, <3>1, <3>2, <4>1, SMTT(30) DEF CountersRise
    <3>3. CASE j = Len(q2) /\ q2[j] = f
      BY <1>1, <2>1, <2>2, <3>1, <3>3, SMTT(30)
    <3> QED BY <1>2, <3>2, <3>3, ZenonT(40)
  <2>3. ASSUME NEW j \in 1..Len(q2), ~q2[j].hello, s.open, SameSession(q2, 1, j)
        PROVE  s.rx < q2[j].n \/ (j = 1 /\ held /\ Used(q2[j], s, done))
    <3>1. CASE j \in 1..Len(q) /\ q2[j] = q[j]
      <4>1. SameSession(q, 1, j)
        BY <1>1, <2>3, <3>1, SessionMore, SMTT(30)
      <4> QED BY <1>6, <2>3, <3>1, <4>1, SMTT(30) DEF CountersRise
    <3>2. CASE j = Len(q2) /\ q2[j] = f
      BY <1>1, <2>1, <2>3, <3>2, SMTT(30)
    <3> QED BY <1>2, <3>1, <3>2, ZenonT(40)
  <2>4. /\ \A i \in 1..Len(q2) :
              ~q2[i].hello /\ SameSession(q2, i, Len(q2)) => q2[i].n <= h2.s.tx
        /\ s.open /\ SameSession(q2, 1, Len(q2)) => s.rx <= h2.s.tx
    <3>1. ASSUME NEW i \in 1..Len(q2), ~q2[i].hello, SameSession(q2, i, Len(q2))
          PROVE  q2[i].n <= h2.s.tx
      <4>1. CASE i \in 1..Len(q) /\ q2[i] = q[i]
        BY <1>1, <1>3, <2>1, <3>1, <4>1, SMTT(30)
      <4>2. CASE q2[i] = f
        BY <1>1, <4>2, SMTT(30)
      <4> QED BY <1>2, <4>1, <4>2, ZenonT(40)
    <3>2. s.open /\ SameSession(q2, 1, Len(q2)) => s.rx <= h2.s.tx
      BY <1>1, <2>1, SMTT(30)
    <3> QED BY <3>1, <3>2, Zenon
  <2>5. 0 + 1 = 1
    OBVIOUS
  <2> QED BY <2>2, <2>3, <2>4, <2>5, ZenonT(40) DEF CountersRise
<1> QED
  BY <1>4, <1>5, <1>6, Zenon DEF BoardSound

\* The host accepts the board's hello, opens a frame of the board, or forgets
\* everything with a restart.
LEMMA HostMoves ==
    ASSUME NEW q, NEW s, NEW done, NEW refused, NEW held, NEW h, NEW h2, NEW sent, NEW lost,
           LinkTypes(q, s, done, refused, h, sent),
           BoardSound(q, 0, s, done, refused, held, h, sent, lost),
           \/ h2.s.open = h.s.open /\ h2.s.tx = h.s.tx /\ h2.hellos = h.hellos /\ h2.ok = h.ok
           \/ ~h.s.open /\ h.hellos > 0 /\ h.ok /\ h2.s.open /\ h2.s.tx = 0
           \/ ~h2.s.open /\ h2.hellos = 0
    PROVE  BoardSound(q, 0, s, done, refused, held, h2, sent, lost)
<1>1. CountersRise(q, 0, s, done, held, h) => CountersRise(q, 0, s, done, held, h2)
  BY SMTT(30) DEF LinkTypes, CountersRise
<1> QED
  BY <1>1, ZenonT(40) DEF BoardSound

\* q2 is q without place p.
IsWithout(q2, q, p) ==
    /\ Len(q2) = Len(q) - 1
    /\ \A i \in 1..Len(q2) : q2[i] = q[IF i < p THEN i ELSE i + 1]

\* A frame that opens no session may go without joining two sessions.
LEMMA SessionLess ==
    ASSUME NEW q, NEW q2, NEW p \in 1..Len(q), Len(q) \in Nat, IsWithout(q2, q, p), ~OkHello(q[p]),
           NEW i \in 1..Len(q), NEW j \in 0..Len(q2), SameSession(q2, i, j), NEW a \in Nat, NEW b \in Nat,
           a >= i, b <= j + 1, p <= j + 1 \/ b <= j, p >= i \/ a >= i + 1
    PROVE  SameSession(q, a, b)
<1> SUFFICES ASSUME NEW k \in a..b PROVE ~OkHello(q[k])
  BY Zenon DEF SameSession
<1>1. CASE k < p
  <2>1. k \in i..j /\ k \in 1..Len(q2)
    BY <1>1, SMTT(30) DEF IsWithout
  <2>2. q2[k] = q[k]
    BY <1>1, <2>1, Zenon DEF IsWithout
  <2> QED BY <2>1, <2>2, Zenon DEF SameSession
<1>2. CASE k > p
  <2> DEFINE m == k - 1
  <2>1. m \in i..j /\ m \in 1..Len(q2) /\ ~(m < p) /\ m + 1 = k
    BY <1>2, SMTT(30) DEF IsWithout
  <2> HIDE DEF m
  <2>2. q2[m] = q[k]
    BY <2>1, Zenon DEF IsWithout
  <2> QED BY <2>1, <2>2, Zenon DEF SameSession
<1> QED
  BY <1>1, <1>2, SMTT(30)

\* A frame is lost on the way; a hello that is lost leaves the counters open.
LEMMA FrameLost ==
    ASSUME NEW q, NEW q2, NEW p \in 1..Len(q), NEW s, NEW done, NEW refused, NEW held, NEW h, NEW sent,
           NEW lost, NEW lost2,
           LinkTypes(q, s, done, refused, h, sent),
           BoardSound(q, 0, s, done, refused, held, h, sent, lost),
           IsWithout(q2, q, p), held => p > 1, lost \/ q[p].hello => lost2
    PROVE  /\ LinkTypes(q2, s, done, refused, h, sent)
           /\ BoardSound(q2, 0, s, done, refused, held, h, sent, lost2)
<1> DEFINE at(i) == IF i < p THEN i ELSE i + 1
<1>1. Len(q) \in Nat /\ Len(q2) = Len(q) - 1 /\ Len(q2) \in Nat
  BY SMTT(30) DEF LinkTypes, IsWithout
<1>2. /\ \A i \in 1..Len(q2) : q2[i] = q[at(i)] /\ at(i) \in 1..Len(q) /\ (held /\ at(i) = 1 => i = 1)
      /\ \A i, j \in 1..Len(q2) : i < j => at(i) < at(j)
  BY <1>1, SMTT(30) DEF IsWithout
<1>3. LinkTypes(q2, s, done, refused, h, sent)
  BY <1>1, <1>2, Zenon DEF LinkTypes
<1>4. InOrder(q2, 0, s, done, held, sent)
  <2>1. InOrder(q, 0, s, done, held, sent) /\ 0 + 1 = 1
    BY SMTT(30) DEF BoardSound
  <2> HIDE DEF at
  <2>2. ASSUME NEW i \in 1..Len(q2), ~q2[i].hello
        PROVE  /\ q2[i].id <= sent
               /\ \/ \A k \in DOMAIN done : done[k] < q2[i].id
                  \/ i = 1 /\ held /\ Used(q2[i], s, done)
    BY <1>2, <2>1, <2>2, SMTT(30) DEF InOrder
  <2>3. \A i, j \in 1..Len(q2) : ~q2[i].hello /\ ~q2[j].hello /\ i < j => q2[i].id < q2[j].id
    BY <1>2, <2>1, SMTT(30) DEF InOrder
  <2> QED BY <2>1, <2>2, <2>3, Zenon DEF InOrder
<1>5. LogSound(done, refused, sent, lost2)
  BY Zenon DEF BoardSound, LogSound
<1>6. ASSUME ~q[p].hello, CountersRise(q, 0, s, done, held, h)
      PROVE  CountersRise(q2, 0, s, done, held, h)
  <2>1. ~OkHello(q[p])
    BY <1>6, Zenon DEF OkHello
  <2>2. ASSUME NEW i \in 1..Len(q2), NEW j \in 1..Len(q2), SameSession(q2, i, j)
        PROVE  SameSession(q, at(i), at(j))
    <3>1. /\ i \in 1..Len(q) /\ j \in 0..Len(q2) /\ at(i) \in Nat /\ at(j) \in Nat
          /\ at(i) >= i /\ at(j) <= j + 1 /\ (p <= j + 1 \/ at(j) <= j) /\ (p >= i \/ at(i) >= i + 1)
      BY <1>1, SMTT(30)
    <3> HIDE DEF at
    <3> QED BY <1>1, <2>1, <2>2, <3>1, SessionLess, Zenon
  <2>3. ASSUME NEW j \in 1..Len(q2), SameSession(q2, 1, j)
        PROVE  SameSession(q, 1, at(j))
    <3>1. /\ 1 \in 1..Len(q) /\ j \in 0..Len(q2) /\ 1 \in Nat /\ at(j) \in Nat
          /\ 1 >= 1 /\ at(j) <= j + 1 /\ (p <= j + 1 \/ at(j) <= j) /\ (p >= 1 \/ 1 >= 1 + 1)
      BY <1>1, SMTT(30)
    <3> HIDE DEF at
    <3> QED BY <1>1, <2>1, <2>3, <3>1, SessionLess, Zenon
  <2>4. ASSUME NEW i \in 1..Len(q2), SameSession(q2, i, Len(q2))
        PROVE  SameSession(q, at(i), Len(q))
    <3>1. /\ i \in 1..Len(q) /\ Len(q2) \in 0..Len(q2) /\ at(i) \in Nat
          /\ at(i) >= i /\ Len(q) <= Len(q2) + 1 /\ p <= Len(q2) + 1 /\ (p >= i \/ at(i) >= i + 1)
      BY <1>1, SMTT(30)
    <3> HIDE DEF at
    <3> QED BY <1>1, <2>1, <2>4, <3>1, SessionLess, Zenon
  <2>5. ASSUME SameSession(q2, 1, Len(q2))
        PROVE  SameSession(q, 1, Len(q))
    <3>1. /\ 1 \in 1..Len(q) /\ Len(q2) \in 0..Len(q2) /\ 1 \in Nat
          /\ 1 >= 1 /\ Len(q) <= Len(q2) + 1 /\ p <= Len(q2) + 1 /\ (p >= 1 \/ 1 >= 1 + 1)
      BY <1>1, SMTT(30)
    <3> QED BY <1>1, <2>1, <2>5, <3>1, SessionLess, Zenon
  <2> HIDE DEF at
  <2>6. 0 + 1 = 1
    OBVIOUS
  <2>7. /\ \A i, j \in 1..Len(q) :
             ~q[i].hello /\ ~q[j].hello /\ i < j /\ SameSession(q, i, j) => q[i].n < q[j].n
        /\ \A j \in 1..Len(q) :
             ~q[j].hello /\ s.open /\ SameSession(q, 1, j) =>
                s.rx < q[j].n \/ (j = 1 /\ held /\ Used(q[j], s, done))
        /\ h.s.open =>
             /\ \A i \in 1..Len(q) : ~q[i].hello /\ SameSession(q, i, Len(q)) => q[i].n <= h.s.tx
             /\ s.open /\ SameSession(q, 1, Len(q)) => s.rx <= h.s.tx
        /\ ~h.s.open /\ h.hellos > 0 /\ h.ok =>
             /\ \A i \in 1..Len(q) : ~q[i].hello => ~SameSession(q, i, Len(q))
             /\ s.open /\ SameSession(q, 1, Len(q)) => s.rx = 0
    BY <1>6, <2>6, Zenon DEF CountersRise
  <2>8. \A i, j \in 1..Len(q2) :
           ~q2[i].hello /\ ~q2[j].hello /\ i < j /\ SameSession(q2, i, j) => q2[i].n < q2[j].n
    BY <1>2, <2>2, <2>7, Zenon
  <2>9. \A j \in 1..Len(q2) :
           ~q2[j].hello /\ s.open /\ SameSession(q2, 1, j) =>
              s.rx < q2[j].n \/ (j = 1 /\ held /\ Used(q2[j], s, done))
    BY <1>2, <2>3, <2>7, Zenon
  <2>10. h.s.open =>
           /\ \A i \in 1..Len(q2) :
                ~q2[i].hello /\ SameSession(q2, i, Len(q2)) => q2[i].n <= h.s.tx
           /\ s.open /\ SameSession(q2, 1, Len(q2)) => s.rx <= h.s.tx
    BY <1>2, <2>4, <2>5, <2>7, Zenon
  <2>11. ~h.s.open /\ h.hellos > 0 /\ h.ok =>
           /\ \A i \in 1..Len(q2) : ~q2[i].hello => ~SameSession(q2, i, Len(q2))
           /\ s.open /\ SameSession(q2, 1, Len(q2)) => s.rx = 0
    BY <1>2, <2>4, <2>5, <2>7, Zenon
  <2> QED BY <2>6, <2>8, <2>9, <2>10, <2>11, Zenon DEF CountersRise
<1> QED
  BY <1>3, <1>4, <1>5, <1>6, ZenonT(40) DEF BoardSound

\* A step of the board that leaves stream and session alone, but for what was sent.
LEMMA BoardKeeps ==
    ASSUME LinkInv, IsDev(dev'), IsSession(dev'.s), dev'.stream = dev.stream,
           dev'.s.open = dev.s.open, dev'.s.rx = dev.s.rx, UNCHANGED <<host, up, link_log>>
    PROVE  LinkInv'
<1>1. Incoming' = Incoming
  BY Zenon DEF Incoming
<1> DEFINE held == dev.stream # <<>>
           q == Incoming
<1>2. /\ LinkTypes(q, dev.s, link_log.done, link_log.refused, host, link_log.sent)
      /\ BoardSound(q, 0, dev.s, link_log.done, link_log.refused, held, host, link_log.sent, link_log.hello_lost)
  BY Zenon DEF LinkInv
<1> HIDE DEF held, q
<1>3. /\ LinkTypes(q, dev'.s, link_log.done, link_log.refused, host, link_log.sent)
      /\ BoardSound(q, 0, dev'.s, link_log.done, link_log.refused, held, host, link_log.sent, link_log.hello_lost)
  BY <1>2, SentOnly, Zenon
<1> QED
  BY <1>1, <1>3, Zenon DEF LinkInv, held, q

\* The shell's output goes out.
LEMMA PollKeeps ==
    ASSUME LinkInv, NEW more, link_bridge_poll(more)
    PROVE  LinkInv'
<1> DEFINE c == [s |-> dev.s, msgs |-> dev.msgs, tty |-> dev.tty + more, out |-> <<>>, failed |-> FALSE]
           b == seal_tty(c)
<1>1. IsBoard(c) /\ c.s = dev.s
  BY Zenon DEF IsBoard
<1>2. dev' = [dev EXCEPT !.s = b.s, !.tty = b.tty] /\ UNCHANGED <<host, up, link_log>>
  BY ZenonT(40) DEF link_bridge_poll
<1> HIDE DEF c
<1>3. Answered(c, b)
  BY <1>1, TtyAnswers, Zenon DEF LinkInv
<1> HIDE DEF b
<1> DEFINE d == [dev EXCEPT !.s = b.s]
           e == [d EXCEPT !.tty = b.tty]
<1>4. dev' = e
  BY <1>2, Zenon
<1>5. IsDev(d) /\ d.s = b.s /\ d.stream = dev.stream
  BY DEF LinkInv, IsDev
<1> HIDE DEF d
<1>6. IsDev(e) /\ e.s = b.s /\ e.stream = dev.stream
  BY <1>5, SMTT(30) DEF IsDev
<1> HIDE DEF e
<1> QED
  BY <1>1, <1>2, <1>3, <1>4, <1>6, BoardKeeps, Zenon DEF Answered

\* An app takes a message.
LEMMA TakeKeeps ==
    ASSUME LinkInv, NEW app, link_message_take(app)
    PROVE  LinkInv'
<1>1. UNCHANGED <<host, up, link_log>> /\ \E m : dev' = [dev EXCEPT !.msgs = m]
  BY Zenon DEF link_message_take
<1>2. IsDev(dev') /\ dev'.s = dev.s /\ dev'.stream = dev.stream
  BY <1>1, ZenonT(40) DEF LinkInv, IsDev
<1> QED
  BY <1>1, <1>2, BoardKeeps, Zenon DEF LinkInv

\* The board starts anew.
LEMMA BootKeeps ==
    ASSUME LinkInv, link_bridge_init
    PROVE  LinkInv'
<1> DEFINE held == dev.stream # <<>>
           q == Incoming
           q2 == Incoming'
           u == Len(dev.stream)
           s2 == dev'.s
<1>1. dev.stream \in Seq(UpFrame) /\ up \in Seq(UpFrame) /\ u \in Nat
  BY SMTT(30) DEF LinkInv
<1>2. /\ dev'.stream = <<>> /\ IsDev(dev') /\ IsSession(dev'.s) /\ s2.open = FALSE /\ s2.rx = 0
      /\ UNCHANGED <<host, up, link_log>>
  BY Zenon DEF link_bridge_init, Board, Session, IsDev, IsSession
<1>3. /\ LinkTypes(q, dev.s, link_log.done, link_log.refused, host, link_log.sent)
      /\ BoardSound(q, 0, dev.s, link_log.done, link_log.refused, held, host, link_log.sent, link_log.hello_lost)
  BY Zenon DEF LinkInv
<1>4. held => u > 0
  BY <1>1
<1>5. IsJoin(q, dev.stream, up, UpFrame)
  BY <1>1, JoinIs, ZenonT(40) DEF Incoming
<1>6. IsLeft(q2, q, u) /\ u <= Len(q) /\ up' \in Seq(UpFrame)
  <2>1. q2 = <<>> \o up
    BY <1>2, Zenon DEF Incoming
  <2>2. Len(q2) = Len(up) /\ \A i \in 1..Len(up) : q2[i] = up[i]
    BY <1>1, <2>1, SMTT(30)
  <2>3. Len(q) = u + Len(up) /\ \A i \in 1..Len(up) : q[u + i] = up[i]
    BY <1>5, Zenon DEF IsJoin
  <2> HIDE DEF q, q2, u
  <2>4. Len(up) \in Nat
    BY <1>1, SMTT(30)
  <2> QED BY <1>1, <1>2, <2>2, <2>3, <2>4, SMTT(30) DEF IsLeft
<1> HIDE DEF held, q, q2, u, s2
<1>7. /\ LinkTypes(q, s2, link_log.done, link_log.refused, host, link_log.sent)
      /\ BoardSound(q, u, s2, link_log.done, link_log.refused, FALSE, host, link_log.sent, link_log.hello_lost)
  BY <1>1, <1>2, <1>3, <1>4, Closed, Zenon
<1> DEFINE no == FALSE
<1> HIDE DEF no
<1>8. /\ LinkTypes(q2, s2, link_log.done, link_log.refused, host, link_log.sent)
      /\ BoardSound(q2, 0, s2, link_log.done, link_log.refused, no, host, link_log.sent, link_log.hello_lost)
  BY <1>1, <1>6, <1>7, Shifted, Zenon DEF IsLeft
<1>9. (dev'.stream # <<>>) = no
  BY <1>2, Zenon DEF no
<1> QED
  BY <1>2, <1>6, <1>8, <1>9, SMTT(30) DEF LinkInv, q2, s2

\* A frame goes on the line.
LEMMA LineGrows ==
    ASSUME LinkInv, NEW f \in UpFrame, IsFrame(f), up' = Append(up, f), dev' = dev
    PROVE  /\ up' \in Seq(UpFrame) /\ IsMore(Incoming', Incoming, f)
           /\ \A i \in 1..Len(Incoming') : IsFrame(Incoming'[i])
<1> DEFINE q == Incoming
           q2 == Incoming'
           d == dev.stream
           line == up'
<1>1. /\ d \in Seq(UpFrame) /\ up \in Seq(UpFrame) /\ line \in Seq(UpFrame)
      /\ Len(line) = Len(up) + 1 /\ line[Len(up) + 1] = f /\ \A i \in 1..Len(up) : line[i] = up[i]
  BY SMTT(30) DEF LinkInv
<1>2. q2 = d \o line /\ q = d \o up
  BY Zenon DEF Incoming
<1>3. \A i \in 1..Len(q) : IsFrame(q[i])
  BY Zenon DEF LinkInv, LinkTypes
<1> HIDE DEF q, q2, d, line
<1>4. IsJoin(q, d, up, UpFrame) /\ IsJoin(q2, d, line, UpFrame)
  BY <1>1, <1>2, JoinIs, Zenon
<1>5. Len(d) \in Nat /\ Len(up) \in Nat /\ Len(q) = Len(d) + Len(up) /\ Len(q2) = Len(q) + 1
  BY <1>1, <1>4, SMTT(30) DEF IsJoin
<1>6. q2[Len(q) + 1] = f
  <2>1. Len(up) + 1 \in 1..Len(line) /\ Len(d) + (Len(up) + 1) = Len(q) + 1
    BY <1>1, <1>5, SMTT(30)
  <2>2. q2[Len(d) + (Len(up) + 1)] = line[Len(up) + 1]
    BY <1>4, <2>1, Zenon DEF IsJoin
  <2> QED BY <1>1, <2>1, <2>2, Zenon
<1>7. ASSUME NEW i \in 1..Len(q) PROVE q2[i] = q[i]
  <2>1. CASE i <= Len(d)
    <3>1. i \in 1..Len(d)
      BY <1>5, <2>1, SMTT(30)
    <3> QED BY <1>4, <3>1, Zenon DEF IsJoin
  <2>2. CASE i > Len(d)
    <3> DEFINE j == i - Len(d)
    <3>1. j \in 1..Len(up) /\ j \in 1..Len(line) /\ Len(d) + j = i
      BY <1>1, <1>5, <2>2, SMTT(30)
    <3> HIDE DEF j
    <3>2. q2[Len(d) + j] = line[j] /\ line[j] = up[j] /\ q[Len(d) + j] = up[j]
      BY <1>1, <1>4, <3>1, Zenon DEF IsJoin
    <3> QED BY <3>1, <3>2, Zenon
  <2> QED BY <1>5, <2>1, <2>2, SMTT(30)
<1>8. IsMore(q2, q, f)
  BY <1>5, <1>6, <1>7, Zenon DEF IsMore
<1>9. \A i \in 1..Len(q2) : IsFrame(q2[i])
  <2> TAKE i \in 1..Len(q2)
  <2>1. i \in 1..Len(q) \/ i = Len(q) + 1
    BY <1>5, SMTT(30)
  <2> QED BY <1>3, <1>6, <1>7, <2>1, Zenon
<1> QED
  BY <1>1, <1>8, <1>9, Zenon DEF q, q2, line

\* The host offers a hello.
LEMMA HelloKeeps ==
    ASSUME LinkInv, HostHello
    PROVE  LinkInv'
<1> DEFINE f == Hello(host.ok)
           q == Incoming
           q2 == Incoming'
           held == dev.stream # <<>>
           h2 == host'
<1>1. host.ok \in BOOLEAN /\ host.hellos \in Nat /\ IsHost(host)
  BY Zenon DEF LinkInv, LinkTypes
<1>2. /\ f.hello = TRUE /\ f.ok = host.ok /\ f.n = 0 /\ f.id = 0
      /\ f = [hello |-> TRUE, ok |-> host.ok, n |-> 0, what |-> "hello", id |-> 0]
  BY Zenon DEF Hello
<1>3. f \in UpFrame /\ IsFrame(f)
  <2> HIDE DEF f
  <2>1. "hello" \in UpWhat
    BY DEF UpWhat
  <2>2. 0 \in Nat
    BY Zenon
  <2>3. f \in UpFrame
    BY <1>1, <1>2, <2>1, <2>2, Zenon DEF UpFrame
  <2>4. IsFrame(f)
    BY <1>1, <1>2, <2>2, Zenon DEF IsFrame
  <2> QED BY <2>3, <2>4, Zenon
<1>4. /\ h2.s = host.s /\ h2.ok = host.ok /\ h2.hellos = host.hellos + 1 /\ IsHost(h2)
      /\ ~host.s.open /\ up' = Append(up, f) /\ UNCHANGED <<dev, link_log>>
  BY <1>1, Zenon DEF HostHello, IsHost
<1> HIDE DEF f
<1>5. up' \in Seq(UpFrame) /\ IsMore(q2, q, f) /\ \A i \in 1..Len(q2) : IsFrame(q2[i])
  BY <1>3, <1>4, LineGrows, Zenon
<1>6. /\ LinkTypes(q, dev.s, link_log.done, link_log.refused, host, link_log.sent)
      /\ BoardSound(q, 0, dev.s, link_log.done, link_log.refused, held, host, link_log.sent, link_log.hello_lost)
  BY Zenon DEF LinkInv
<1> HIDE DEF q, q2, held, h2
<1>7. LinkTypes(q2, dev.s, link_log.done, link_log.refused, h2, link_log.sent)
  <2>1. Len(q2) \in Nat
    BY <1>5, <1>6, SMTT(30) DEF IsMore, LinkTypes
  <2> QED BY <1>1, <1>4, <1>5, <1>6, <2>1, SMTT(30) DEF LinkTypes
<1>8. BoardSound(q2, 0, dev.s, link_log.done, link_log.refused, held, h2, link_log.sent, link_log.hello_lost)
  BY <1>2, <1>4, <1>5, <1>6, <1>7, HelloSent, SMTT(30)
<1> QED
  BY <1>4, <1>5, <1>7, <1>8, Zenon DEF LinkInv, q2, held, h2

\* The host sends a call.
LEMMA SendKeeps ==
    ASSUME LinkInv, NEW c \in Calls, HostSend(c)
    PROVE  LinkInv'
<1> DEFINE text == IF c.text = 0 THEN 0 ELSE link_log.sent + 1
           what == [c EXCEPT !.text = text]
           n == host.s.tx + 1
           id == link_log.sent + 1
           f == [hello |-> FALSE, ok |-> TRUE, n |-> n, what |-> what, id |-> id]
           q == Incoming
           q2 == Incoming'
           held == dev.stream # <<>>
           h2 == host'
           sent2 == link_log'.sent
<1>1. /\ host.s.open \in BOOLEAN /\ host.s.tx \in Nat /\ link_log.sent \in Nat
      /\ host.ok \in BOOLEAN /\ host.hellos \in Nat /\ IsHost(host) /\ IsSession(host.s) /\ IsLog(link_log)
  BY Zenon DEF LinkInv, LinkTypes
<1>2. n \in Nat /\ n > 0 /\ id \in Nat /\ text \in Nat
  BY <1>1
<1>3. what \in UpWhat
  <2> HIDE DEF text
  <2>1. text \in Nat /\ c \in Calls
    BY <1>2, Zenon
  <2>2. \E d \in Calls, t \in Nat : what = [d EXCEPT !.text = t]
    BY <2>1, Zenon
  <2> HIDE DEF what
  <2> QED BY <2>2, SMTT(30) DEF UpWhat
<1>4. /\ up' = Append(up, f) /\ host.s.open /\ UNCHANGED dev
      /\ host' = [host EXCEPT !.s = Counted(host.s, 1)]
      /\ link_log' = [link_log EXCEPT !.sent = id]
  <2> DEFINE r == link_session_seal(host.s, what, id)
  <2>1. r.s = Counted(host.s, 1) /\ r.f = f
    BY Zenon DEF link_session_seal
  <2>2. /\ up' = Append(up, r.f) /\ host.s.open /\ UNCHANGED dev
        /\ host' = [host EXCEPT !.s = r.s] /\ link_log' = [link_log EXCEPT !.sent = id]
    BY Zenon DEF HostSend
  <2> HIDE DEF r, f
  <2> QED BY <2>1, <2>2, Zenon
<1> HIDE DEF text, what
<1>5. f.hello = FALSE /\ f.ok = TRUE /\ f.n = n /\ f.id = id
  BY Zenon
<1>6. f \in UpFrame /\ IsFrame(f)
  <2> HIDE DEF n, id
  <2>1. f \in UpFrame
    BY <1>2, <1>3, Zenon DEF UpFrame
  <2> HIDE DEF f
  <2>2. f.hello \in BOOLEAN /\ f.ok \in BOOLEAN
    BY <1>5, Zenon
  <2>3. f.n \in Nat /\ f.id \in Nat /\ f.n > 0
    BY <1>2, <1>5, Zenon
  <2> QED BY <2>1, <2>2, <2>3, Zenon DEF IsFrame
<1> HIDE DEF f
<1>7. /\ IsHost(h2) /\ IsSession(h2.s) /\ h2.s.open = host.s.open /\ h2.s.tx = host.s.tx + 1
      /\ h2.hellos = host.hellos /\ h2.ok = host.ok
  BY <1>1, <1>4, Zenon DEF IsHost, IsSession, Counted
<1>8. /\ IsLog(link_log') /\ sent2 = link_log.sent + 1 /\ link_log'.done = link_log.done
      /\ link_log'.refused = link_log.refused /\ link_log'.hello_lost = link_log.hello_lost
  BY <1>1, <1>4, Zenon DEF IsLog
<1>9. up' \in Seq(UpFrame) /\ IsMore(q2, q, f) /\ \A i \in 1..Len(q2) : IsFrame(q2[i])
  BY <1>4, <1>6, LineGrows, Zenon
<1>10. /\ LinkTypes(q, dev.s, link_log.done, link_log.refused, host, link_log.sent)
       /\ BoardSound(q, 0, dev.s, link_log.done, link_log.refused, held, host, link_log.sent, link_log.hello_lost)
  BY Zenon DEF LinkInv
<1> HIDE DEF q, q2, held, h2, sent2
<1>11. LinkTypes(q2, dev.s, link_log.done, link_log.refused, h2, sent2)
  <2>1. Len(q2) \in Nat /\ h2.s.tx \in Nat /\ sent2 \in Nat
    <3>1. Len(q) \in Nat /\ host.s.tx \in Nat /\ link_log.sent \in Nat
      BY <1>10, Zenon DEF LinkTypes
    <3>2. Len(q2) = Len(q) + 1
      BY <1>9, Zenon DEF IsMore
    <3> QED BY ONLY <1>7, <1>8, <3>1, <3>2
  <2> QED BY <1>1, <1>7, <1>9, <1>10, <2>1, ZenonT(40) DEF LinkTypes
<1>12. BoardSound(q2, 0, dev.s, link_log.done, link_log.refused, held, h2, sent2, link_log.hello_lost)
  BY <1>4, <1>5, <1>7, <1>8, <1>9, <1>10, <1>11, FrameSent, ZenonT(40)
<1> QED
  BY <1>4, <1>7, <1>8, <1>9, <1>11, <1>12, Zenon DEF LinkInv, q2, held, h2, sent2

\* A step of the host that sends nothing.
LEMMA HostKeeps ==
    ASSUME LinkInv, UNCHANGED <<dev, up, link_log>>, IsHost(host'), IsSession(host'.s),
           host'.s.open \in BOOLEAN, host'.s.tx \in Nat, host'.hellos \in Nat, host'.ok \in BOOLEAN,
           \/ /\ host'.s.open = host.s.open /\ host'.s.tx = host.s.tx
              /\ host'.hellos = host.hellos /\ host'.ok = host.ok
           \/ ~host.s.open /\ host.hellos > 0 /\ host.ok /\ host'.s.open /\ host'.s.tx = 0
           \/ ~host'.s.open /\ host'.hellos = 0
    PROVE  LinkInv'
<1> DEFINE q == Incoming
           held == dev.stream # <<>>
           h2 == host'
<1>1. Incoming' = q
  BY Zenon DEF Incoming
<1>2. /\ LinkTypes(q, dev.s, link_log.done, link_log.refused, host, link_log.sent)
      /\ BoardSound(q, 0, dev.s, link_log.done, link_log.refused, held, host, link_log.sent, link_log.hello_lost)
  BY Zenon DEF LinkInv
<1>3. LinkTypes(q, dev.s, link_log.done, link_log.refused, h2, link_log.sent)
  <2> HIDE DEF q
  <2> QED BY <1>2, ZenonT(40) DEF LinkTypes
<1>4. \/ h2.s.open = host.s.open /\ h2.s.tx = host.s.tx /\ h2.hellos = host.hellos /\ h2.ok = host.ok
      \/ ~host.s.open /\ host.hellos > 0 /\ host.ok /\ h2.s.open /\ h2.s.tx = 0
      \/ ~h2.s.open /\ h2.hellos = 0
  BY Zenon
<1> HIDE DEF q, held, h2
<1>5. BoardSound(q, 0, dev.s, link_log.done, link_log.refused, held, h2, link_log.sent, link_log.hello_lost)
  BY <1>2, <1>4, HostMoves, Zenon
<1> QED
  BY <1>1, <1>3, <1>5, Zenon DEF LinkInv, held, h2

\* The host takes what came, or drops it.
LEMMA ReceiveKeeps ==
    ASSUME LinkInv, HostReceive
    PROVE  LinkInv'
<1> DEFINE f == Head(down)
<1>1. /\ host.s.open \in BOOLEAN /\ host.s.tx \in Nat /\ host.ok \in BOOLEAN /\ host.hellos \in Nat
      /\ IsHost(host) /\ IsSession(host.s)
  BY Zenon DEF LinkInv, LinkTypes
<1>2. /\ UNCHANGED <<dev, up, link_log>>
      /\ \/ /\ ~host.s.open /\ host.hellos > 0 /\ host.ok
            /\ host' = [host EXCEPT !.s = link_session_accept_hello(host.s)]
         \/ host' = [host EXCEPT !.s = link_session_open(host.s, f)]
         \/ host' = host
  BY DEF HostReceive
<1> HIDE DEF f
<1>3. CASE /\ ~host.s.open /\ host.hellos > 0 /\ host.ok
           /\ host' = [host EXCEPT !.s = link_session_accept_hello(host.s)]
  <2>1. /\ host'.s = [open |-> TRUE, tx |-> 0, rx |-> 0] /\ host'.hellos = host.hellos
        /\ host'.ok = host.ok /\ IsHost(host')
    BY <1>1, <1>3, ZenonT(40) DEF IsHost, link_session_accept_hello
  <2>2. host'.s.open = TRUE /\ host'.s.tx = 0 /\ IsSession(host'.s)
    BY <2>1 DEF IsSession
  <2>3. host'.s.open \in BOOLEAN
    BY <2>2, Zenon
  <2>4. ~host.s.open /\ host.hellos > 0 /\ host.ok /\ host'.s.open /\ host'.s.tx = 0
    BY <1>3, <2>2, Zenon
  <2>5. host'.s.tx \in Nat /\ host'.hellos \in Nat /\ host'.ok \in BOOLEAN
    BY <1>1, <2>1, <2>2, SMTT(30)
  <2> QED BY <1>2, <2>1, <2>2, <2>3, <2>4, <2>5, HostKeeps, Zenon
<1>4. CASE host' = [host EXCEPT !.s = link_session_open(host.s, f)]
  <2>1. /\ host'.s = link_session_open(host.s, f) /\ host'.hellos = host.hellos
        /\ host'.ok = host.ok /\ IsHost(host')
    BY <1>1, <1>4, Zenon DEF IsHost
  <2>2. host'.s.open = host.s.open /\ host'.s.tx = host.s.tx /\ IsSession(host'.s)
    BY <1>1, <2>1, Zenon DEF IsSession, link_session_open
  <2> QED BY <1>1, <1>2, <2>1, <2>2, HostKeeps, Zenon
<1>5. CASE host' = host
  BY <1>1, <1>2, <1>5, HostKeeps, ZenonT(40)
<1> QED
  BY <1>2, <1>3, <1>4, <1>5, Zenon

\* The host's program is started again.
LEMMA RestartKeeps ==
    ASSUME LinkInv, NEW ok \in BOOLEAN, HostRestart(ok)
    PROVE  LinkInv'
<1>1. host' = [s |-> Session, hellos |-> 0, ok |-> ok] /\ UNCHANGED <<dev, up, link_log>>
  BY Zenon DEF HostRestart
<1>2. /\ host'.s = [open |-> FALSE, tx |-> 0, rx |-> 0] /\ host'.hellos = 0 /\ host'.ok = ok /\ IsHost(host')
  BY <1>1, Zenon DEF IsHost, Session
<1>3. host'.s.open = FALSE /\ host'.s.tx = 0 /\ IsSession(host'.s)
  BY <1>2 DEF IsSession
<1>4. host'.s.open \in BOOLEAN /\ host'.ok \in BOOLEAN
  BY <1>2, <1>3, Zenon
<1> QED
  BY <1>1, <1>2, <1>3, <1>4, HostKeeps, SMTT(30)

\* A frame of the line is lost.
LEMMA LoseKeeps ==
    ASSUME LinkInv, Lose
    PROVE  LinkInv'
<1> DEFINE q == Incoming
           q2 == Incoming'
           d == dev.stream
           line == up'
           p == Len(d) + 1
           held == d # <<>>
           lost2 == link_log'.hello_lost
<1>1. d \in Seq(UpFrame) /\ up \in Seq(UpFrame) /\ IsLog(link_log)
  BY Zenon DEF LinkInv
<1>2. /\ LinkTypes(q, dev.s, link_log.done, link_log.refused, host, link_log.sent)
      /\ BoardSound(q, 0, dev.s, link_log.done, link_log.refused, held, host, link_log.sent, link_log.hello_lost)
  BY Zenon DEF LinkInv
<1>3. CASE UNCHANGED <<up, link_log>>
  <2>1. UNCHANGED <<dev, host, up, link_log>>
    BY <1>3, Zenon DEF Lose
  <2> QED BY <2>1, Zenon DEF LinkInv, Incoming
<1>4. CASE up # <<>> /\ up' = Tail(up) /\ link_log' = [link_log EXCEPT !.hello_lost = @ \/ Head(up).hello]
  <2>1. UNCHANGED <<dev, host>>
    BY Zenon DEF Lose
  <2>2. /\ IsLog(link_log') /\ link_log'.sent = link_log.sent /\ link_log'.done = link_log.done
        /\ link_log'.refused = link_log.refused
        /\ lost2 = (link_log.hello_lost \/ Head(up).hello)
    BY <1>1, <1>4, Zenon DEF IsLog
  <2>3. /\ line \in Seq(UpFrame) /\ Len(line) = Len(up) - 1 /\ Len(up) \in Nat /\ Len(up) > 0
        /\ \A i \in 1..Len(line) : line[i] = up[i + 1]
        /\ Head(up) = up[1]
    BY <1>1, <1>4, SMTT(30)
  <2>4. q = d \o up /\ q2 = d \o line
    BY <2>1, Zenon DEF Incoming
  <2> HIDE DEF q, q2, d, line, lost2
  <2>5. IsJoin(q, d, up, UpFrame) /\ IsJoin(q2, d, line, UpFrame)
    BY <1>1, <2>3, <2>4, JoinIs, ZenonT(40)
  <2>6. Len(d) \in Nat /\ Len(q) = Len(d) + Len(up) /\ Len(q2) = Len(q) - 1 /\ p \in 1..Len(q)
    BY <1>1, <2>3, <2>5, SMTT(30) DEF IsJoin
  <2>7. q[p] = Head(up)
    <3>1. 1 \in 1..Len(up)
      BY <2>3, SMTT(30)
    <3> QED BY <2>3, <2>5, <3>1, Zenon DEF IsJoin
  <2>8. ASSUME NEW i \in 1..Len(q2) PROVE q2[i] = q[IF i < p THEN i ELSE i + 1]
    <3>1. CASE i < p
      <4>1. i \in 1..Len(d)
        BY <2>6, <3>1, SMTT(30)
      <4> QED BY <2>5, <3>1, <4>1, Zenon DEF IsJoin
    <3>2. CASE ~(i < p)
      <4> DEFINE j == i - Len(d)
      <4>1. j \in 1..Len(line) /\ j + 1 \in 1..Len(up) /\ Len(d) + j = i /\ Len(d) + (j + 1) = i + 1
        BY <2>3, <2>6, <3>2, SMTT(30)
      <4> HIDE DEF j
      <4>2. q2[Len(d) + j] = line[j] /\ line[j] = up[j + 1] /\ q[Len(d) + (j + 1)] = up[j + 1]
        BY <2>3, <2>5, <4>1, Zenon DEF IsJoin
      <4> QED BY <3>2, <4>1, <4>2, Zenon
    <3> QED BY <3>1, <3>2, Zenon
  <2>9. IsWithout(q2, q, p)
    BY <2>6, <2>8, Zenon DEF IsWithout
  <2>10. held => p > 1
    BY <1>1, <2>6, SMTT(30)
  <2>11. link_log.hello_lost \/ q[p].hello => lost2
    BY <2>2, <2>7, ZenonT(40)
  <2> HIDE DEF p, held
  <2>12. /\ LinkTypes(q2, dev.s, link_log.done, link_log.refused, host, link_log.sent)
         /\ BoardSound(q2, 0, dev.s, link_log.done, link_log.refused, held, host, link_log.sent, lost2)
    BY <1>2, <2>6, <2>9, <2>10, <2>11, FrameLost, SMTT(30)
  <2> QED BY <2>1, <2>2, <2>3, <2>12, Zenon DEF LinkInv, q2, held, lost2, d, line
<1> QED
  BY <1>3, <1>4, Zenon DEF Lose

\* Nothing is on its way at the start.
LEMMA LinkStart == LinkInit => LinkInv
<1> SUFFICES ASSUME LinkInit PROVE LinkInv
  BY Zenon
<1>1. /\ dev.s = [open |-> FALSE, tx |-> 0, rx |-> 0] /\ dev.stream = <<>> /\ IsDev(dev)
      /\ host.s = [open |-> FALSE, tx |-> 0, rx |-> 0] /\ host.hellos = 0 /\ host.ok = TRUE /\ IsHost(host)
      /\ IsLog(link_log) /\ link_log.sent = 0 /\ link_log.done = <<>> /\ link_log.refused = <<>>
      /\ up = <<>>
  BY ZenonT(40) DEF LinkInit, Board, Session, IsDev, IsHost, IsLog
<1>2. /\ IsSession(dev.s) /\ IsSession(host.s) /\ dev.s.open = FALSE /\ dev.s.rx = 0
      /\ host.s.open = FALSE /\ host.s.tx = 0
  BY <1>1, SMTT(30) DEF IsSession
<1>3. Incoming = <<>> /\ Len(Incoming) = 0
  BY <1>1, SMTT(30) DEF Incoming
<1>4. dev.s.open \in BOOLEAN /\ host.s.open \in BOOLEAN /\ host.ok \in BOOLEAN
  BY <1>1, <1>2, Zenon
<1>5. LinkTypes(Incoming, dev.s, link_log.done, link_log.refused, host, link_log.sent)
  BY <1>1, <1>2, <1>3, <1>4, SMTT(30) DEF LinkTypes
<1>6. BoardSound(Incoming, 0, dev.s, link_log.done, link_log.refused, dev.stream # <<>>,
                 host, link_log.sent, link_log.hello_lost)
  BY <1>1, <1>2, <1>3, SMTT(30) DEF BoardSound, InOrder, CountersRise, LogSound
<1> QED
  BY <1>1, <1>2, <1>5, <1>6, SMTT(30) DEF LinkInv

\* Every step keeps the invariant.
LEMMA LinkStep == LinkInv /\ [LinkNext]_linkVars => LinkInv'
<1> SUFFICES ASSUME LinkInv, [LinkNext]_linkVars PROVE LinkInv'
  BY Zenon
<1>1. ASSUME NEW n \in 0..2, NEW took \in BOOLEAN, link_bridge_rx(n, took)
      PROVE  LinkInv'
  BY <1>1, RxKeeps, Zenon
<1>2. CASE UNCHANGED linkVars
  BY <1>2, Zenon DEF linkVars, LinkInv, Incoming
<1> QED
  BY <1>1, <1>2, PollKeeps, TakeKeeps, BootKeeps, HelloKeeps, ReceiveKeeps, SendKeeps, RestartKeeps,
     LoseKeeps, ZenonT(40) DEF LinkNext

\* Calls of the host are acted on in the order of sending, none twice, and a
\* board refuses only what it has acted on (link_session_open, link_bridge_rx),
\* for any calls and any room for answers, messages and frames, whatever is
\* lost and whoever restarts.
THEOREM CallsActedOnOnce == LinkSpec => []ActedOnOnce
<1>1. LinkInv => ActedOnOnce
  BY Zenon DEF LinkInv, BoardSound, LogSound, ActedOnOnce
<1> QED
  BY <1>1, LinkStart, LinkStep, PTL DEF LinkSpec

=============================================================================
