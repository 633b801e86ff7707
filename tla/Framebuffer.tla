---------------------------- MODULE Framebuffer ----------------------------
(***************************************************************************)
(* The colour panel of the ESP32-C6 board: hal/display_fb.c keeps the      *)
(* picture in memory and the range of rows drawn to since the last flush,  *)
(* hal_display_esp32_arduino.cpp draws through it and sends only those     *)
(* rows to the panel.  A row that is drawn to but not marked stays stale   *)
(* on the panel until something else happens to touch it.                  *)
(* Left out: rotation, back light and the conversion of colours.           *)
(***************************************************************************)
EXTENDS Integers, Sequences, FiniteSetsExt, SequencesExt

CONSTANTS FbW, FbH,    \* ESP32C6_LCD_FB_W, ESP32C6_LCD_FB_H
          Inks,        \* rgb565 values; 0 is the black of init
          Points,      \* <<x, y>> given to the drawing calls
          Extents,     \* <<w, h>> of rectangles and bitmaps
          Int16Mod     \* 2^16 in the code

ASSUME FbAssumption ==
    /\ FbW \in Nat \ {0} /\ FbH \in Nat \ {0}
    /\ 0 \in Inks /\ Inks \subseteq Nat
    /\ Int16Mod \in Nat /\ Int16Mod > 2 * (FbW + FbH)
    /\ Points \subseteq Int \X Int /\ Extents \subseteq Int \X Int

VARIABLES
    fb_px,      \* g_fb_px
    fb_dirty,   \* [on, y0, y1]: dirty, dirty_y0, dirty_y1
    fb_ready,   \* display->initialized
    fb_panel,   \* what the panel shows
    fb_wanted   \* history: the picture by the definition of each shape

fb_vars == <<fb_px, fb_dirty, fb_ready, fb_panel, fb_wanted>>

Screen == (0 .. FbW - 1) \X (0 .. FbH - 1)
Clean == [on |-> FALSE, y0 |-> 0, y1 |-> 0]
Black == [p \in Screen |-> 0]

\* (int16_t) of a sum
Int16(n) == ((n + Int16Mod \div 2) % Int16Mod) - Int16Mod \div 2

FbInit ==
    /\ fb_px = Black /\ fb_panel \in {Black, [p \in Screen |-> 1]}
    /\ fb_dirty = Clean
    /\ fb_ready = FALSE
    /\ fb_wanted = Black

----------------------------------------------------------------------------
\* A drawing call maps a buffer [px, dirty] to the next one.

\* mutant: the rows replace the ones already marked
mark_rows_replaced(dirty, y0, y1) ==
    IF y0 >= y1 THEN dirty ELSE [on |-> TRUE, y0 |-> y0, y1 |-> y1]

mark_rows(dirty, y0, y1) ==
    CASE y0 >= y1             -> dirty
      [] y0 < y1 /\ ~dirty.on -> [on |-> TRUE, y0 |-> y0, y1 |-> y1]
      [] OTHER                -> [on |-> TRUE, y0 |-> Min({y0, dirty.y0}), y1 |-> Max({y1, dirty.y1})]

Painted(px, points, ink) == [p \in Screen |-> IF p \in points THEN ink ELSE px[p]]

display_fb_draw_pixel(fb, p, ink) ==
    IF p \notin Screen THEN fb
    ELSE [px |-> Painted(fb.px, {p}, ink), dirty |-> mark_rows(fb.dirty, p[2], p[2] + 1)]

\* The rectangle between two corners already clipped.
Filled(fb, x0, y0, x1, y1, ink) ==
    IF x0 >= x1 \/ y0 >= y1 THEN fb
    ELSE [px |-> Painted(fb.px, (x0 .. x1 - 1) \X (y0 .. y1 - 1), ink),
          dirty |-> mark_rows(fb.dirty, y0, y1)]

display_fb_fill_rect(fb, x, y, w, h, ink) ==
    IF w <= 0 \/ h <= 0 THEN fb
    ELSE Filled(fb, Max({x, 0}), Max({y, 0}),
                    Min({Int16(x + w), FbW}), Min({Int16(y + h), FbH}), ink)

\* One turn of the line's loop from [at, err]: which of the two ifs are taken.
LineStep(line, dx, dy, sx, sy) ==
    [at  |-> <<line.at[1] + (IF 2 * line.err >= dy THEN sx ELSE 0),
               line.at[2] + (IF 2 * line.err <= dx THEN sy ELSE 0)>>,
     err |-> line.err + (IF 2 * line.err >= dy THEN dy ELSE 0)
                      + (IF 2 * line.err <= dx THEN dx ELSE 0)]

Sign(a, b) == IF a < b THEN 1 ELSE -1
Span(a, b) == IF a < b THEN b - a ELSE a - b

\* The points of the line; a turn moves along the longer side.
LinePoints(from, to) ==
    FoldLeft(LAMBDA done, i :
                 Append(done, LineStep(Last(done), Span(from[1], to[1]), -Span(from[2], to[2]),
                                       Sign(from[1], to[1]), Sign(from[2], to[2]))),
             <<[at |-> from, err |-> Span(from[1], to[1]) - Span(from[2], to[2])]>>,
             [i \in 1 .. Max({Span(from[1], to[1]), Span(from[2], to[2])}) |-> i])

display_fb_draw_line(fb, from, to, ink) ==
    FoldLeft(LAMBDA b, line : display_fb_draw_pixel(b, line.at, ink), fb, LinePoints(from, to))

\* hal_display_draw_rect: four bars one pixel thick.
hal_display_draw_rect(fb, x, y, w, h, ink) ==
    IF w = 0 \/ h = 0 THEN fb
    ELSE display_fb_fill_rect(
             display_fb_fill_rect(
                 display_fb_fill_rect(
                     display_fb_fill_rect(fb, x, y, w, 1, ink),
                     x, Int16(y + h - 1), w, 1, ink),
                 x, y, 1, h, ink),
             Int16(x + w - 1), y, 1, h, ink)

\* hal_display_draw_bitmap: pixel by pixel, here of one colour.
hal_display_draw_bitmap(fb, x, y, w, h, ink) ==
    FoldLeft(LAMBDA b, i : display_fb_draw_pixel(b, <<Int16(x + (i % w)), Int16(y + (i \div w))>>, ink),
             fb, [i \in 1 .. w * h |-> i - 1])

----------------------------------------------------------------------------
\* Every drawing call is refused until the display is initialised.  wanted is
\* the set of points that belong to the shape, on the screen or not.
Draws(result, wanted, ink) ==
    /\ fb_ready
    /\ fb_px' = result.px
    /\ fb_dirty' = result.dirty
    /\ fb_wanted' = Painted(fb_wanted, wanted, ink)
    /\ UNCHANGED <<fb_ready, fb_panel>>

Buffer == [px |-> fb_px, dirty |-> fb_dirty]

\* The points of a w by h rectangle; none when an edge does not fit an int16.
Box(x, y, w, h) ==
    IF Int16(x + w) = x + w /\ Int16(y + h) = y + h THEN (x .. x + w - 1) \X (y .. y + h - 1) ELSE {}

DrawPixel(p, ink) == Draws(display_fb_draw_pixel(Buffer, p, ink), {p}, ink)

FillRect(p, e, ink) ==
    Draws(display_fb_fill_rect(Buffer, p[1], p[2], e[1], e[2], ink), Box(p[1], p[2], e[1], e[2]), ink)

\* A line visits its two ends and one point of every column, or of every row.
DrawLine(from, to, ink) ==
    Draws(display_fb_draw_line(Buffer, from, to, ink), {q.at : q \in Range(LinePoints(from, to))}, ink)

DrawRect(p, e, ink) ==
    /\ Int16(p[1] + e[1]) = p[1] + e[1] /\ Int16(p[2] + e[2]) = p[2] + e[2]
    /\ Draws(hal_display_draw_rect(Buffer, p[1], p[2], e[1], e[2], ink),
             Box(p[1], p[2], e[1], e[2]) \ Box(p[1] + 1, p[2] + 1, e[1] - 2, e[2] - 2), ink)

DrawBitmap(p, e, ink) ==
    /\ e[1] > 0 /\ e[2] > 0
    /\ Int16(p[1] + e[1]) = p[1] + e[1] /\ Int16(p[2] + e[2]) = p[2] + e[2]
    /\ Draws(hal_display_draw_bitmap(Buffer, p[1], p[2], e[1], e[2], ink), Box(p[1], p[2], e[1], e[2]), ink)

\* begin() failing leaves the display uninitialised.
hal_display_init ==
    /\ ~fb_ready
    /\ fb_ready' = TRUE
    /\ fb_px' = Black /\ fb_wanted' = Black
    /\ fb_panel' = Black
    /\ fb_dirty' = Clean

hal_display_deinit ==
    /\ fb_ready
    /\ fb_ready' = FALSE
    /\ UNCHANGED <<fb_px, fb_dirty, fb_panel, fb_wanted>>

\* draw16bitRGBBitmap of the dirty rows, then display_fb_clear_dirty.
hal_display_flush ==
    /\ fb_ready
    /\ fb_dirty.on
    /\ fb_panel' = [p \in Screen |-> IF p[2] \in fb_dirty.y0 .. fb_dirty.y1 - 1 THEN fb_px[p] ELSE fb_panel[p]]
    /\ fb_dirty' = Clean
    /\ UNCHANGED <<fb_px, fb_ready, fb_wanted>>

FbNext ==
    \/ hal_display_init \/ hal_display_deinit \/ hal_display_flush
    \/ \E p \in Points, ink \in Inks :
          \/ DrawPixel(p, ink)
          \/ \E q \in Points : DrawLine(p, q, ink)
          \/ \E e \in Extents : FillRect(p, e, ink) \/ DrawRect(p, e, ink) \/ DrawBitmap(p, e, ink)

FbSpec == FbInit /\ [][FbNext]_fb_vars

----------------------------------------------------------------------------
\* After a flush the panel shows the whole picture: every row outside the
\* marked range is on the panel already, and the marked range, which the
\* flush reads from the buffer, lies inside it.  The picture is what the
\* shapes' definitions say, clipped to the screen.
FlushShowsPicture ==
    fb_ready =>
        /\ fb_px = fb_wanted
        /\ fb_dirty.on => 0 <= fb_dirty.y0 /\ fb_dirty.y0 < fb_dirty.y1 /\ fb_dirty.y1 <= FbH
        /\ \A p \in Screen :
              fb_panel[p] = fb_px[p] \/ (fb_dirty.on /\ p[2] \in fb_dirty.y0 .. fb_dirty.y1 - 1)
=============================================================================
