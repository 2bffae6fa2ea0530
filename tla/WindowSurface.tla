---------------------------- MODULE WindowSurface ----------------------------
(* The pixels of a window: two buffers that the program (popugos::window) and the
   compositor (wm.rs) share, or a private buffer that is copied to the compositor
   (lib/src/wm.rs, and popugos when the buffers cannot be mapped).  The compositor
   resizes the window on its own; the program learns of it from an event.

   A surface is one row of cells and its size is the number of cells; a cell holds
   the number of the painting that drew it, 0 when nothing did.  A program presents
   what it draws before it polls for events, unless presenting fails.  *)
EXTENDS Tables, Sequences

CONSTANTS SurfaceSizes, \* sizes the user may give the window
          MaxPaints,    \* bound on paintings
          MaxResizes,   \* bound on resizes
          ResizeBacklog \* resize events that may wait for the program

VARIABLES app,    \* the program's Window
          srf,    \* the compositor's window: size, shared buffers, front, private pixels
          inbox,  \* resize events not polled yet
          wanted, \* the picture the program has drawn so far (ghost)
          fresh,  \* cells drawn since the last present (ghost)
          paints, resizes
surfaceVars == <<app, srf, inbox, wanted, fresh, paints, resizes>>

Unset == -1
Unpainted(n) == SubSeq([c \in 1..n |-> 0], 1, n)
Drawn(row, cells, v) == SubSeq([c \in 1..Len(row) |-> IF c \in cells THEN v ELSE row[c]], 1, Len(row))
Copied(from, to, cells) == SubSeq([c \in 1..Len(to) |-> IF c \in cells /\ c <= Len(from) THEN from[c] ELSE to[c]], 1, Len(to))
OtherBuffer(b) == 1 - b
SurfaceCells == 1..app.size
Shown == IF srf.shared THEN srf.bufs[srf.front] ELSE srf.pixels

-----------------------------------------------------------------------------
(* The compositor.  New buffers are zeroed; old ones of the right size are kept.
   When the buffers cannot be allocated or mapped the window is left without.  *)
NewShared == [srf EXCEPT !.shared = TRUE, !.front = 0, !.pixels = <<>>, !.bufs = [b \in 0..1 |-> Unpainted(srf.size)]]
map_shared_surfaces(ok) ==
    IF srf.shared /\ Len(srf.bufs[0]) = srf.size THEN srf
    ELSE IF ok THEN NewShared ELSE [srf EXCEPT !.shared = FALSE]
present_shared_ok == srf.shared /\ Len(srf.bufs[0]) = srf.size
ensure_pixels(k) == IF k.pixels = <<>> THEN Unpainted(k.size) ELSE k.pixels
flip(k, buffer, cells) == [k EXCEPT !.pixels = Copied(buffer, ensure_pixels(k), cells)]
(* The user lets go of the resize grip; the surface itself may be refused.  *)
wm_apply_resize(n) ==
    /\ resizes < MaxResizes /\ Len(inbox) < ResizeBacklog /\ resizes' = resizes + 1
    /\ \E got \in {n, srf.size} :
         /\ srf' = [srf EXCEPT !.size = got, !.pixels = IF got = srf.size THEN @ ELSE <<>>]
         /\ inbox' = Append(inbox, got)
    /\ UNCHANGED <<app, wanted, fresh, paints>>

-----------------------------------------------------------------------------
(* The program.  *)
create(shared, n) ==
    [size |-> n, shared |-> shared, front |-> 0, pending |-> Unset, partial |-> FALSE, coherent |-> TRUE,
     buffer |-> IF shared THEN <<>> ELSE Unpainted(n), redraw |-> FALSE, open |-> TRUE]
buffer_mut(a) == [a EXCEPT !.pending = OtherBuffer(a.front), !.partial = FALSE, !.coherent = FALSE]
KeepsOldBack == srf.bufs
FrontCopied == IF app.coherent THEN srf.bufs ELSE [srf.bufs EXCEPT ![OtherBuffer(app.front)] = srf.bufs[app.front]]
partial_buffer_mut(a) ==
    IF a.pending = OtherBuffer(a.front) THEN a
    ELSE [a EXCEPT !.pending = OtherBuffer(a.front), !.partial = TRUE, !.coherent = FALSE]
PartialBufs == IF app.pending = OtherBuffer(app.front) THEN srf.bufs ELSE FrontCopied

Paint(a, bufs, cells) ==
    /\ app.open /\ paints < MaxPaints /\ paints' = paints + 1
    /\ wanted' = Drawn(wanted, cells, paints') /\ fresh' = fresh \cup cells
    /\ IF app.shared
       THEN /\ app' = [a EXCEPT !.redraw = FALSE]
            /\ srf' = [srf EXCEPT !.bufs = [bufs EXCEPT ![a.pending] = Drawn(@, cells, paints')]]
       ELSE app' = [app EXCEPT !.redraw = FALSE, !.buffer = Drawn(@, cells, paints')] /\ UNCHANGED srf
    /\ UNCHANGED <<inbox, resizes>>
(* A whole frame, and a drawing clipped to some cells; after a resize all is drawn.  *)
draw_frame == Paint(buffer_mut(app), srf.bufs, SurfaceCells)
draw_clipped(cells) == (app.redraw => cells = SurfaceCells) /\ Paint(partial_buffer_mut(app), PartialBufs, cells)

PresentedIndex == IF app.pending = Unset THEN app.front ELSE app.pending
MirroredNot(index, cells) == srf.bufs
Mirrored(index, cells) ==
    IF index # app.front /\ app.partial
    THEN [srf.bufs EXCEPT ![app.front] = Copied(srf.bufs[index], @, cells)] ELSE srf.bufs
(* A failed present is an error the program may ignore or end with, as UiRuntime::run does.  *)
Presented(cells, bufs, coherent) ==
    /\ app.open /\ ~app.redraw
    /\ IF ~app.shared
       THEN srf' = flip(srf, app.buffer, cells) /\ fresh' = {} /\ UNCHANGED app
       ELSE IF present_shared_ok
       THEN /\ srf' = [srf EXCEPT !.bufs = bufs, !.front = PresentedIndex]
            /\ app' = [app EXCEPT !.front = PresentedIndex, !.pending = Unset, !.partial = FALSE, !.coherent = coherent]
            /\ fresh' = {}
       ELSE (\E on \in BOOLEAN : app' = [app EXCEPT !.open = on]) /\ UNCHANGED <<srf, fresh>>
    /\ UNCHANGED <<inbox, wanted, paints, resizes>>
present == Presented(SurfaceCells, srf.bufs, app.coherent)
present_rect ==
    fresh # {} /\ Presented(fresh, Mirrored(PresentedIndex, fresh),
        IF PresentedIndex = app.front THEN app.coherent ELSE app.partial)

(* EV_RESIZE: map again, or build a new private buffer from the old one and flip it.  *)
Resized(n) == [app EXCEPT !.size = n, !.pending = Unset, !.partial = FALSE]
FrontKept(n) == IF n = app.size THEN Resized(n) ELSE [Resized(n) EXCEPT !.coherent = TRUE, !.redraw = TRUE]
AppResized(n) ==
    IF n = app.size THEN Resized(n)
    ELSE [Resized(n) EXCEPT !.front = 0, !.coherent = TRUE, !.redraw = TRUE]
PrivateAgain(n, k, old) ==
    LET buffer == Copied(old, Unpainted(n), 1..n)
    IN /\ app' = [Resized(n) EXCEPT !.shared = FALSE, !.buffer = buffer, !.redraw = app.shared \/ @]
       /\ srf' = flip(k, buffer, 1..n)
poll_event(ok) ==
    LET n == Head(inbox)
        k == map_shared_surfaces(ok)
    IN /\ app.open /\ inbox # <<>> /\ inbox' = Tail(inbox)
       /\ fresh = {} \/ ~app.shared \/ ~present_shared_ok
       /\ wanted' = Copied(wanted, Unpainted(n), 1..n) /\ fresh' = IF app.shared THEN {} ELSE fresh \cap 1..n
       /\ IF app.shared /\ k.shared THEN app' = AppResized(n) /\ srf' = k
          ELSE PrivateAgain(n, IF app.shared THEN k ELSE srf, app.buffer)
       /\ UNCHANGED <<paints, resizes>>

SurfaceInit ==
    /\ inbox = <<>> /\ fresh = {} /\ paints = 0 /\ resizes = 0
    /\ \E n \in SurfaceSizes, shared \in BOOLEAN :
         /\ app = create(shared, n) /\ wanted = Unpainted(n)
         /\ srf = [size |-> n, shared |-> shared, front |-> 0, bufs |-> [b \in 0..1 |-> Unpainted(n)],
                   pixels |-> IF shared THEN <<>> ELSE Unpainted(n)]

SurfaceNext ==
    \/ \E n \in SurfaceSizes : wm_apply_resize(n)
    \/ draw_frame \/ (\E cells \in SUBSET SurfaceCells : cells # {} /\ draw_clipped(cells))
    \/ present \/ present_rect
    \/ \E ok \in BOOLEAN : poll_event(ok)

SurfaceSpec == SurfaceInit /\ [][SurfaceNext]_surfaceVars

-----------------------------------------------------------------------------
(* What the compositor scans is the picture the program has drawn, once everything
   drawn has been presented and every resize handled, however whole frames, clipped
   drawings, resizes and failed presents alternate over the two buffers.  *)
PictureIsShown ==
    app.open /\ inbox = <<>> /\ fresh = {} /\ ~app.redraw /\ app.pending = Unset => Shown = wanted

(* The buffer the program draws in is not the one the compositor is scanning
   (window.rs: buffer_mut "never aliases the buffer the compositor is currently
   scanning").  *)
BackNotScanned == app.open /\ app.shared /\ srf.shared => OtherBuffer(app.front) # srf.front
=============================================================================
