------------------------------- MODULE Notify -------------------------------
(***************************************************************************)
(* apps/notify_service.c: cards in a ring of NOTIFY_QUEUE_CAP places.  The *)
(* oldest is on the screen: it slides in, holds and slides out, by the     *)
(* millisecond clock, a 32-bit counter that wraps at NoteMod.  The loop of *)
(* the focused app (app_kit_run) drops cards that have had their time and  *)
(* repaints while one moves; sim_gpio_handle_key offers every key to the   *)
(* card before the pins of the app see it.                                 *)
(*                                                                         *)
(* Texts and the layout of a card are left out; its height is CardHeight.  *)
(***************************************************************************)
EXTENDS Integers, Sequences

CONSTANTS CardCap,      \* NOTIFY_QUEUE_CAP
          AnimMs,       \* NOTIFY_ANIM_MS
          HoldMs,       \* NOTIFY_HOLD_MS, for a card without a duration
          Durations,    \* durations posted; 0 is the default
          NoteMod,      \* range of the millisecond clock
          CardHeight    \* rows of a card

\* the life of a card, the longest that is posted too, fits the clock
ASSUME NotifyAssumption ==
    /\ {CardCap, AnimMs, HoldMs, NoteMod, CardHeight} \cup Durations \subseteq Nat
    /\ AnimMs > 0
    /\ \A d \in Durations \cup {HoldMs} : AnimMs + d + AnimMs <= NoteMod

VARIABLES g_q,          \* the cards from g_head on, g_count of them
          note_now,     \* notify_now
          g_painted,    \* a card was drawn by the last composite
          note_key,     \* external: the key is "up", or its press went to
                        \* the "card" or to the "app"
          note_hist     \* history, see below

noteVars == <<g_q, note_now, g_painted, note_key, note_hist>>

\* history: age is the time the card on the screen has been there, up to its
\* life; short: a card left before its time without being dismissed
NotifyInit ==
    /\ g_q = <<>>
    /\ note_now \in 0..(NoteMod - 1)
    /\ g_painted = FALSE
    /\ note_key = "up"
    /\ note_hist = [age |-> 0, short |-> FALSE]

NoteAfter(t, ms) == (t + ms) % NoteMod
Elapsed(now, t) == (now - t) % NoteMod

hold_ms(card) == IF card.duration_ms = 0 THEN HoldMs ELSE card.duration_ms
Life(card) == AnimMs + hold_ms(card) + AnimMs

card_finished(card, now) ==
    IF card.dismissed
    THEN now >= card.exit_at /\ Elapsed(now, card.exit_at) >= AnimMs
    ELSE now >= card.show_at /\ Elapsed(now, card.show_at) >= Life(card)

notify_service_phase(q) ==
    IF q = <<>> THEN "IDLE" ELSE
    LET card      == q[1]
        enter_end == NoteAfter(card.show_at, AnimMs)
        hold_end  == NoteAfter(enter_end, hold_ms(card))
    IN  CASE card.dismissed -> "EXIT"
          [] ~card.dismissed /\ note_now < enter_end -> "ENTER"
          [] ~card.dismissed /\ note_now >= enter_end /\ note_now < hold_end -> "HOLD"
          [] OTHER -> "EXIT"

\* C division truncates towards zero
Scaled(h, elapsed) == (h * elapsed) \div AnimMs

\* minus the rows of the card still above the edge of the screen
notify_service_slide_offset ==
    LET card      == g_q[1]
        h         == CardHeight
        enter_end == NoteAfter(card.show_at, AnimMs)
        hold_end  == NoteAfter(enter_end, hold_ms(card))
        moved(t)  == Elapsed(note_now, t)
    IN  IF card.dismissed
        THEN IF note_now < card.exit_at THEN card.exit_from
             ELSE IF moved(card.exit_at) >= AnimMs THEN -h
             ELSE card.exit_from - Scaled(h + card.exit_from, moved(card.exit_at))
        ELSE IF note_now < card.show_at THEN -h
             ELSE IF note_now < enter_end THEN Scaled(h, moved(card.show_at)) - h
             ELSE IF note_now < hold_end THEN 0
             ELSE IF moved(hold_end) >= AnimMs THEN -h
             ELSE -Scaled(h, moved(hold_end))

notify_service_needs_present(q) ==
    \/ notify_service_phase(q) \in {"ENTER", "EXIT"}
    \/ notify_service_phase(q) = "IDLE" /\ g_painted

(***************************************************************************)
(* Operations.                                                             *)
(***************************************************************************)
\* a card behind others gets its show_at when its turn comes
notify_post(duration) ==
    /\ Len(g_q) < CardCap
    /\ g_q' = Append(g_q, [duration_ms |-> duration,
                           show_at |-> IF g_q = <<>> THEN note_now ELSE 0,
                           exit_at |-> 0, exit_from |-> 0, dismissed |-> FALSE])
    /\ note_hist' = [note_hist EXCEPT !.age = IF g_q = <<>> THEN 0 ELSE @]
    /\ UNCHANGED <<note_now, g_painted, note_key>>

\* mutant: the next card keeps the time it was posted with
pop_card_stale(q) == Tail(q)

\* the next card starts its life now
pop_card(q) ==
    IF Len(q) = 1 THEN <<>>
    ELSE [Tail(q) EXCEPT ![1] = [@ EXCEPT !.show_at = note_now, !.dismissed = FALSE,
                                          !.exit_at = 0, !.exit_from = 0]]

\* notify_service_pump, then the composite if the loop repaints: because a card
\* moves, or (by_app) for a reason of the app's own.  A life is longer than 0,
\* so the loop of the pump ends after one card
Frame(by_app) ==
    LET pops == g_q # <<>> /\ card_finished(g_q[1], note_now)
        q    == IF pops THEN pop_card(g_q) ELSE g_q
    IN
    /\ g_q' = q
    /\ note_hist' = IF pops
                    THEN [note_hist EXCEPT !.age = 0,
                             !.short = @ \/ (~g_q[1].dismissed /\ note_hist.age < Life(g_q[1]))]
                    ELSE note_hist
    /\ g_painted' = IF by_app \/ notify_service_needs_present(q)
                    THEN notify_service_phase(q) # "IDLE" ELSE g_painted
    /\ UNCHANGED <<note_now, note_key>>

OnCard == notify_service_phase(g_q) # "IDLE"

\* a press dismisses a card that is not leaving by a key already
Dismissed(q) ==
    IF q[1].dismissed THEN q
    ELSE [q EXCEPT ![1].exit_from = notify_service_slide_offset,
                   ![1].exit_at = note_now, ![1].dismissed = TRUE]

\* notify_service_on_key, then sim_gpio_handle_key
KeyPressed ==
    /\ note_key = "up"
    /\ IF OnCard
       THEN g_q' = Dismissed(g_q) /\ note_key' = "card"
       ELSE note_key' = "app" /\ UNCHANGED g_q
    /\ UNCHANGED <<note_now, g_painted, note_hist>>

KeyReleased ==
    /\ note_key # "up"
    /\ note_key' = "up"
    /\ UNCHANGED <<g_q, note_now, g_painted, note_hist>>

NoteTick ==
    /\ note_now' = (note_now + 1) % NoteMod
    /\ note_hist' = [note_hist EXCEPT
                       !.age = IF g_q # <<>> /\ @ < Life(g_q[1]) THEN @ + 1 ELSE @]
    /\ UNCHANGED <<g_q, g_painted, note_key>>

NotifyNext ==
    \/ \E d \in Durations : notify_post(d)
    \/ \E by_app \in BOOLEAN : Frame(by_app)
    \/ KeyPressed \/ KeyReleased
    \/ NoteTick

NotifySpec == NotifyInit /\ [][NotifyNext]_noteVars

(***************************************************************************)
(* Properties.                                                             *)
(***************************************************************************)
\* A card that nobody dismisses stays for its whole life, counted from the
\* moment its turn came and not from when it was posted, and it never leaves
\* the range between hidden and fully shown, also where the clock wraps
CardsGetTheirTime ==
    /\ ~note_hist.short
    /\ g_q # <<>> => notify_service_slide_offset \in (-CardHeight)..0

=============================================================================
