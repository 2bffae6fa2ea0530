----------------------------- MODULE Compositor -----------------------------
(***************************************************************************)
(* The drawing half of the window manager (kernel/src/drivers/wm.rs): the  *)
(* framebuffer is never redrawn as a whole.  Every operation marks or      *)
(* repaints only some rectangles, and what is on the screen is right only  *)
(* if those rectangles were chosen right.  A pixel is what was last painted *)
(* there: the desktop, a title (its colour tells whether the window had the *)
(* focus) or a version of a client's contents, and the cursor over it.     *)
(* The stack lists windows by z; windows in OnTop form a layer above it.   *)
(***************************************************************************)
EXTENDS Tables, SequencesExt, FiniteSetsExt

CONSTANTS
    Windows,     \* window ids
    OnTop,       \* the windows with ALWAYS_ON_TOP_HINT
    Rects,       \* rectangles windows may have
    Cursors,     \* places of the cursor
    ScreenW, ScreenH,
    MaxPieces    \* 64

VARIABLES
    win,         \* window -> [rect, ver]
    stack,       \* windows by z
    focus,       \* the focused window, if any: a set of at most one
    fb,          \* the framebuffer: cell -> [of, look, cur]
    dirty,       \* the region to repaint
    cursor,
    flipping     \* windows whose new contents are copied but not yet composed

compVars == <<win, stack, focus, fb, dirty, cursor, flipping>>

Screen == (0..ScreenW - 1) \X (0..ScreenH - 1)

(***************************************************************************)
(* DirtyRect                                                               *)
(***************************************************************************)
Rect(x, y, w, h) == [x |-> x, y |-> y, w |-> w, h |-> h]
Nothing == Rect(0, 0, 0, 0)
IsEmpty(r) == r.w = 0 \/ r.h = 0
Right(r) == r.x + r.w
Bottom(r) == r.y + r.h
Cells(r) == (r.x..Right(r) - 1) \X (r.y..Bottom(r) - 1)

Intersects(r, s) == r.x < Right(s) /\ s.x < Right(r) /\ r.y < Bottom(s) /\ s.y < Bottom(r)

Within(x1, y1, x2, y2) == Rect(x1, y1, x2 - x1, y2 - y1)

Intersection(r, s) ==
    Within(Max({r.x, s.x}), Max({r.y, s.y}),
           AtMost(Right(r), Right(s)), AtMost(Bottom(r), Bottom(s)))

\* The smallest rectangle around both.
Union(r, s) ==
    IF IsEmpty(r) THEN s
    ELSE IF IsEmpty(s) THEN r
    ELSE Within(AtMost(r.x, s.x), AtMost(r.y, s.y), Max({Right(r), Right(s)}), Max({Bottom(r), Bottom(s)}))

\* Mutant: the strip left of the hole is forgotten.
Around_left(r, hole) ==
    {p \in {Rect(r.x, r.y, r.w, hole.y - r.y),
            Rect(r.x, Bottom(hole), r.w, Bottom(r) - Bottom(hole)),
            Rect(Right(hole), hole.y, Right(r) - Right(hole), hole.h)} : ~IsEmpty(p)}

\* r without the hole: above, below, left and right of it.
Around(r, hole) ==
    {p \in {Rect(r.x, r.y, r.w, hole.y - r.y),
            Rect(r.x, Bottom(hole), r.w, Bottom(r) - Bottom(hole)),
            Rect(r.x, hole.y, hole.x - r.x, hole.h),
            Rect(Right(hole), hole.y, Right(r) - Right(hole), hole.h)} : ~IsEmpty(p)}

(***************************************************************************)
(* Painting                                                                *)
(***************************************************************************)
\* sorted_ids: by layer, then by z.
sorted_ids(st) == SelectSeq(st, LAMBDA i : i \notin OnTop) \o SelectSeq(st, LAMBDA i : i \in OnTop)

\* What window i shows in a cell: its first row is the title bar.
Look(ws, foc, i, c) ==
    IF c[2] # ws[i].rect.y THEN ws[i].ver ELSE IF i \in foc THEN 2 ELSE 3

Desktop(withCursor) == [of |-> "desktop", look |-> 0, cur |-> withCursor]

draw_window_clipped(f, ws, foc, i, clip) ==
    [c \in Screen |-> IF c \in Cells(ws[i].rect) \cap Cells(clip)
                      THEN [of |-> i, look |-> Look(ws, foc, i, c), cur |-> FALSE] ELSE f[c]]

draw_cursor_overlay(f, at, clip) ==
    [c \in Screen |-> IF c \in Cells(clip) /\ c = at THEN [f[c] EXCEPT !.cur = TRUE] ELSE f[c]]

\* compose_region: the desktop, then every window that meets the region, bottom up.
compose_region(f, ws, st, foc, at, r) ==
    LET bare == [c \in Screen |-> IF c \in Cells(r) THEN Desktop(FALSE) ELSE f[c]]
    IN  draw_cursor_overlay(
            FoldLeft(LAMBDA g, i : draw_window_clipped(g, ws, foc, i, r), bare, sorted_ids(st)), at, r)

StackIndex(st, i) == CHOOSE k \in 1..Len(st) : st[k] = i

\* Mutant: the window just above is not cut out.
Above_next(st, i) == {st[k] : k \in StackIndex(st, i) + 2..Len(st)}

\* The windows compose_opaque_region cuts out: those with a greater z.
Above(st, i) == {st[k] : k \in StackIndex(st, i) + 1..Len(st)}

\* The pieces of r that no window above covers.
pieces(ws, st, i, r) ==
    FoldLeft(LAMBDA ps, j :
                 UNION {IF Intersects(p, ws[j].rect) THEN Around(p, Intersection(p, ws[j].rect)) ELSE {p} : p \in ps},
             {Intersection(ws[i].rect, r)},
             SelectSeq(sorted_ids(st), LAMBDA j : j \in Above(st, i)))

\* With too many pieces nothing is drawn.
compose_opaque_region(f, ws, st, foc, at, i, r) ==
    LET ps == IF Intersects(ws[i].rect, r) THEN pieces(ws, st, i, r) ELSE {} IN
    IF ps = {} \/ Cardinality(ps) > MaxPieces THEN f
    ELSE draw_cursor_overlay(FoldSet(LAMBDA p, g : draw_window_clipped(g, ws, foc, i, p), f, ps), at, r)

\* compose_dirty with `marked` added to the region: it is repainted and taken.
Redraw(marked, ws, st, foc) ==
    /\ fb' = compose_region(fb, ws, st, foc, cursor, Union(dirty, marked))
    /\ dirty' = Nothing

(***************************************************************************)
(* The operations                                                          *)
(***************************************************************************)
\* init: the whole screen once.
CompInit ==
    /\ win = NoEntries /\ stack = <<>> /\ focus = {} /\ dirty = Nothing /\ flipping = {}
    /\ cursor \in Cursors
    /\ fb = [c \in Screen |-> Desktop(c = cursor)]

FocusRect == IF focus = {} THEN Nothing ELSE win[CHOOSE i \in focus : TRUE].rect

comp_create(i, r) ==
    LET ws == Put(win, i, [rect |-> r, ver |-> 0]) IN
    /\ i \notin DOMAIN win /\ flipping = {}
    /\ win' = ws /\ stack' = Append(stack, i) /\ focus' = {i}
    /\ Redraw(Union(FocusRect, r), ws, Append(stack, i), {i})
    /\ UNCHANGED <<cursor, flipping>>

comp_destroy(i) ==
    /\ i \in DOMAIN win /\ flipping = {}
    /\ win' = Drop(win, {i}) /\ stack' = Remove(stack, i) /\ focus' = focus \ {i}
    /\ Redraw(win[i].rect, Drop(win, {i}), Remove(stack, i), focus \ {i})
    /\ UNCHANGED <<cursor, flipping>>

\* focus_window, and a click into a window that has not the focus.
comp_focus(i) ==
    LET st == Append(Remove(stack, i), i) IN
    /\ i \in DOMAIN win
    /\ stack' = st /\ focus' = {i}
    /\ Redraw(Union(FocusRect, win[i].rect), win, st, {i})
    /\ UNCHANGED <<win, cursor, flipping>>

\* move_window, or a step of a resize: the old and the new rectangle.
comp_place(i, r) ==
    LET ws == [win EXCEPT ![i].rect = r] IN
    /\ i \in DOMAIN win /\ r # win[i].rect
    /\ win' = ws
    /\ Redraw(Union(win[i].rect, r), ws, stack, focus)
    /\ UNCHANGED <<stack, focus, cursor, flipping>>

\* Mutant: what the window uncovers is repainted only when it left for good.
compose_move_far(f, ws, i, old, new) ==
    LET g == compose_opaque_region(f, ws, stack, focus, cursor, i, new) IN
    IF Intersects(old, new) THEN g ELSE compose_region(g, ws, stack, focus, cursor, old)

\* compose_move: the new place first, then what the old one uncovered.
compose_move(f, ws, i, old, new) ==
    LET g == compose_opaque_region(f, ws, stack, focus, cursor, i, new)
        strips == IF Intersects(old, new) THEN Around(old, Intersection(old, new)) ELSE {old}
    IN  FoldSet(LAMBDA s, h : compose_region(h, ws, stack, focus, cursor, s), g, strips)

\* A step of a title drag.
comp_drag(i, r) ==
    LET ws == [win EXCEPT ![i].rect = r] IN
    /\ i \in DOMAIN win /\ r # win[i].rect
    /\ win' = ws
    /\ fb' = compose_move(fb, ws, i, win[i].rect, r)
    /\ UNCHANGED <<stack, focus, dirty, cursor, flipping>>

ClientRect(ws, i) == Rect(ws[i].rect.x, ws[i].rect.y + 1, ws[i].rect.w, ws[i].rect.h - 1)

\* flip copies the pixels, lets go of the lock, and takes it again to compose; the
\* kernel lock keeps other system calls out meanwhile, interrupts not.
flip_copy(i) ==
    /\ i \in DOMAIN win /\ flipping = {}
    /\ win' = [win EXCEPT ![i].ver = 1 - @] /\ flipping' = flipping \cup {i}
    /\ UNCHANGED <<stack, focus, fb, dirty, cursor>>

flip_compose(i) ==
    /\ i \in flipping /\ flipping' = flipping \ {i}
    /\ fb' = IF i \in DOMAIN win
             THEN compose_opaque_region(fb, win, stack, focus, cursor, i, ClientRect(win, i)) ELSE fb
    /\ UNCHANGED <<win, stack, focus, dirty, cursor>>

CursorRect(c) == Rect(c[1], c[2], 1, 1)

\* Mutant: a busy framebuffer loses the damage.
redraw_cursor_busy(old, new) == UNCHANGED <<fb, dirty>>

\* redraw_cursor_transition when another processor holds the framebuffer.
redraw_cursor_later(old, new) ==
    /\ dirty' = Union(dirty, Union(CursorRect(old), CursorRect(new)))
    /\ UNCHANGED fb

redraw_cursor_now(old, new) ==
    /\ fb' = compose_region(fb, win, stack, focus, new, Union(CursorRect(old), CursorRect(new)))
    /\ UNCHANGED dirty

comp_pointer(c) ==
    /\ c # cursor /\ cursor' = c
    /\ redraw_cursor_now(cursor, c) \/ redraw_cursor_later(cursor, c)
    /\ UNCHANGED <<win, stack, focus, flipping>>

CompNext ==
    \/ \E i \in Windows : \E r \in Rects : comp_create(i, r) \/ comp_place(i, r) \/ comp_drag(i, r)
    \/ \E i \in Windows : comp_destroy(i) \/ comp_focus(i) \/ flip_copy(i) \/ flip_compose(i)
    \/ \E c \in Cursors : comp_pointer(c)

CompSpec == CompInit /\ [][CompNext]_compVars

(***************************************************************************)
(* Properties.                                                             *)
(***************************************************************************)
\* The window a cell belongs to: the top one of the upper layer, or of the lower.
Owner(c) ==
    LET over == {k \in 1..Len(stack) : c \in Cells(win[sorted_ids(stack)[k]].rect)}
    IN  IF over = {} THEN "desktop" ELSE sorted_ids(stack)[Max(over)]

Wanted(c) ==
    IF Owner(c) = "desktop" THEN Desktop(c = cursor)
    ELSE [of |-> Owner(c), look |-> Look(win, focus, Owner(c), c), cur |-> c = cursor]

\* compose_*: whatever sequence of operations, each repainting only its own
\* rectangles, led here, every cell shows the topmost window with its present
\* contents, or is marked dirty, or waits for the flip under way.
PixelsCurrent ==
    \A c \in Screen \ Cells(dirty) : Owner(c) \in flipping \/ fb[c] = Wanted(c)
=============================================================================
