--------------------------------- MODULE Tty ---------------------------------
(***************************************************************************)
(* The shell behind the host link, apps/tty_service.c: three modes, escape *)
(* sequences, a line buffer and an output buffer that drops what does not  *)
(* fit.  Output is counted; a command is one letter.  Two fields of the    *)
(* shell are history: screen, the last line of a terminal from the prompt  *)
(* on once all output is read, and lost, that output was cut or a half     *)
(* typed line outlived its session, which the next whole prompt mends.     *)
(***************************************************************************)
EXTENDS Integers, Sequences

CONSTANTS LineCap,    \* TTY_LINE
          OutCap,     \* TTY_OUT
          HtopMs,     \* TTY_HTOP_MS
          TimeMod     \* the range of now_ms

ASSUME TtyAssumption == {LineCap, OutCap, HtopMs, TimeMod} \subseteq Nat \ {0}

VARIABLES tty,        \* the g_ variables of the shell
          tty_now     \* now_ms of the last poll

ttyVars == <<tty, tty_now>>

Printable == {"x", "f", "h", "A", "["}
InputBytes == Printable \cup {"^C", "^Z", "CR", "BS", "ESC"}
KeyBytes == {"x", "f", "h", "A", "CR"}

ButLast(s) == SubSeq(s, 1, Len(s) - 1)

\* The last line of a terminal from the prompt on, after one more cell.
Shown(s, c) ==
    CASE c = "$" -> <<c>>
      [] c = "del" -> IF s = <<>> THEN s ELSE ButLast(s)
      [] c \in Printable -> IF s = <<>> THEN s ELSE Append(s, c)
      [] OTHER -> <<>>

-----------------------------------------------------------------------------
(* Operators on t, the shell.                                              *)

\* A cell of output, dropped when there is no room.
tty_puts(t, cell) ==
    LET room == t.out < OutCap - 1
    IN  [t EXCEPT !.out = IF room THEN @ + 1 ELSE @, !.lost = @ \/ ~room,
                  !.screen = IF t.lost \/ ~room THEN <<>> ELSE Shown(@, cell)]

\* A line of text.
TextLine(t) == tty_puts(tty_puts(t, "text"), "nl")

tty_prompt(t) ==
    LET p == tty_puts(t, "$")
    IN  IF p.out > t.out /\ t.line = <<>> THEN [p EXCEPT !.lost = FALSE, !.screen = <<"$">>]
        ELSE p

tty_service_reset ==
    [line |-> <<>>, out |-> 0, mode |-> "line", esc |-> "normal", armed |-> FALSE,
     closed |-> FALSE, ms |-> 0, screen |-> <<>>, lost |-> FALSE]

\* A hello opens the shell again; the line and a half read sequence stay.
tty_service_open(t) ==
    tty_prompt([t EXCEPT !.closed = FALSE, !.mode = "line", !.lost = @ \/ t.line # <<>>])

leave_mode(t) ==
    tty_prompt(tty_puts([t EXCEPT !.mode = "line", !.esc = "normal", !.line = <<>>], "nl"))

\* tap_key presses and releases; the key itself goes to the focused app.
attach_key(t) == TextLine(t)

focus_app(t, found) ==
    IF found THEN TextLine([t EXCEPT !.mode = "attach", !.esc = "normal"])
    ELSE TextLine(t)

cmd_htop(t) ==
    TextLine([t EXCEPT !.mode = "htop", !.armed = FALSE, !.ms = 0])

cmd_exit(t) == [tty_puts(TextLine(t), "eot") EXCEPT !.closed = TRUE]

\* version, date, mem, uptime, ls, cat, notify, msg, event: text, and not every
\* file that cat shows ends its last line.
Reports(t, ends) == IF ends THEN TextLine(t) ELSE tty_puts(t, "text")

exec_line_kept(t, env) ==  \* mutant: the line is not emptied
    CASE t.line = <<>> -> t
      [] t.line = <<"f">> -> focus_app(t, env)
      [] t.line = <<"h">> -> cmd_htop(t)
      [] t.line = <<"x">> -> cmd_exit(t)
      [] t.line = <<"A">> -> Reports(t, env)
      [] OTHER -> TextLine(t)

exec_line(t, env) ==
    LET e == [t EXCEPT !.line = <<>>]
    IN  CASE t.line = <<>> -> e
          [] t.line = <<"f">> -> focus_app(e, env)
          [] t.line = <<"h">> -> cmd_htop(e)
          [] t.line = <<"x">> -> cmd_exit(e)
          [] t.line = <<"A">> -> Reports(e, env)
          [] OTHER -> TextLine(e)

line_byte(t, b, env) ==
    LET ran == exec_line(tty_puts(t, "nl"), env)
    IN  CASE b = "^C" -> tty_prompt(tty_puts(tty_puts([t EXCEPT !.line = <<>>], "^"), "nl"))
          [] b = "CR" -> IF ran.mode = "line" /\ ~ran.closed THEN tty_prompt(ran) ELSE ran
          [] b = "BS" -> IF t.line = <<>> THEN t
                         ELSE tty_puts([t EXCEPT !.line = ButLast(@)], "del")
          [] b = "^Z" -> t
          [] OTHER -> IF Len(t.line) + 1 >= LineCap THEN t
                      ELSE tty_puts([t EXCEPT !.line = Append(@, b)], b)

AfterEsc(t, b) == [t EXCEPT !.esc = IF b = "[" THEN "csi" ELSE "normal"]

attach_byte(t, b) ==
    CASE b \in {"^C", "^Z"} -> leave_mode(t)
      [] b \notin {"^C", "^Z"} /\ t.esc = "esc" ->
           IF b = "[" THEN AfterEsc(t, b) ELSE attach_key(AfterEsc(t, b))
      [] b \notin {"^C", "^Z"} /\ t.esc = "csi" ->
           LET n == [t EXCEPT !.esc = "normal"] IN IF b = "A" THEN attach_key(n) ELSE n
      [] OTHER -> IF b = "ESC" THEN [t EXCEPT !.esc = "esc"]
                  ELSE IF b \in KeyBytes THEN attach_key(t) ELSE t

tty_service_input(t, b, env) ==
    CASE t.mode = "htop" -> IF b = "^C" THEN leave_mode(t) ELSE t
      [] t.mode = "attach" -> attach_byte(t, b)
      [] t.mode = "line" /\ t.esc = "esc" -> AfterEsc(t, b)
      [] t.mode = "line" /\ t.esc = "csi" -> [t EXCEPT !.esc = "normal"]
      [] OTHER -> IF b = "ESC" THEN [t EXCEPT !.esc = "esc"] ELSE line_byte(t, b, env)

tty_service_poll(t, now) ==
    CASE t.mode # "htop" -> t
      [] t.mode = "htop" /\ ~t.armed -> [t EXCEPT !.armed = TRUE, !.ms = now]
      [] OTHER -> IF (now - t.ms) % TimeMod < HtopMs THEN t
                  ELSE TextLine([t EXCEPT !.ms = now])

tty_service_read(t, n) == [t EXCEPT !.out = @ - n]

-----------------------------------------------------------------------------
Input(b, env) == tty' = tty_service_input(tty, b, env) /\ UNCHANGED tty_now
Open == tty' = tty_service_open(tty) /\ UNCHANGED tty_now
Read == \E n \in 1..tty.out : tty' = tty_service_read(tty, n) /\ UNCHANGED tty_now
Poll == tty_now' = (tty_now + 1) % TimeMod /\ tty' = tty_service_poll(tty, tty_now')

\* Nothing reaches the shell before the first hello opens it.
TtyInit == tty = tty_service_open(tty_service_reset) /\ tty_now = TimeMod - 1

TtyNext ==
    \/ \E b \in InputBytes, env \in BOOLEAN : Input(b, env)
    \/ Open
    \/ Read
    \/ Poll

TtySpec == TtyInit /\ [][TtyNext]_ttyVars

-----------------------------------------------------------------------------
\* What the terminal shows behind the last prompt is what return will run: in
\* line mode the prompt is followed by the characters of the line and no more,
\* through every change of mode, escape sequence and poll, unless output was cut
\* or the line is left from an earlier session; and the buffer keeps its bound
\* (line_byte, leave_mode, exec_line, tty_puts).
ShownIsTyped ==
    /\ tty.out < OutCap /\ Len(tty.line) < LineCap
    /\ (tty.mode = "line" /\ ~tty.closed /\ ~tty.lost)
         => tty.screen = <<"$">> \o tty.line

=============================================================================
