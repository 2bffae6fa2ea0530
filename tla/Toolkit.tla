------------------------------- MODULE Toolkit -------------------------------
(* The user-interface tree of popui (ui.rs) under its event loop (runtime.rs) with
   a menu (menu.rs), a tool button (toolbar_button.rs, button.rs) and a content
   view that takes the keyboard and opens the context menu.

   The window is a set of cells; layout, which taffy computes, gives each widget its
   cells for each size of the window.  A popup is the sequence of the cells of its
   items, the last of which is disabled.  The buffer is new, and blank, after a
   resize.  *)
EXTENDS Tables, Sequences

CONSTANTS UiRects,    \* size |-> widget |-> cells, the layout
          UiHeadings, \* cells of the headings of the menu bar
          UiPopups,   \* heading or cell of a context click |-> cells of the items
          MaxEvents   \* bound on window events and messages

VARIABLES ui,    \* Ui and its widgets
          seen,  \* what the window shows, cell by cell
          button, \* whether the left button is down
          events
uiVars == <<ui, seen, button, events>>

NoWidget == "none"
Shut == 0
Widgets == {"menu", "tool", "view"}
ScreenOf(u) == UNION {UiRects[u.size][w] : w \in Widgets}
Area(u, w) == UiRects[u.size][w]

-----------------------------------------------------------------------------
(* Damage: a rectangle, or none with dirty set, which stands for everything.  *)
mark_dirty_rect(u, cells) == [u EXCEPT !.dirty = TRUE, !.part = TRUE, !.region = IF u.part THEN @ \cup cells ELSE cells]
AllDirty(u) == [u EXCEPT !.dirty = TRUE, !.part = FALSE]
Touch(u, w) == [u EXCEPT !.touched = @ \cup {w}]
Marked(u, w, result) == IF result # "ignored" \/ w \in u.touched THEN mark_dirty_rect(u, Area(u, w)) ELSE u
request_full_redraw(u) == [AllDirty(u) EXCEPT !.layout = TRUE]

(* Menu.  *)
PopupOf(u) == IF u.open = Shut THEN <<>> ELSE UiPopups[u.open]
overlay_contains(u, c) == \E i \in DOMAIN PopupOf(u) : PopupOf(u)[i] = c
menu_item_at(u, c) == IF overlay_contains(u, c) THEN CHOOSE i \in DOMAIN PopupOf(u) : PopupOf(u)[i] = c ELSE 0
heading_at(u, c) == IF c \in Area(u, "menu") /\ c \in UiHeadings THEN c ELSE Shut
dismiss(u) == IF u.open = Shut /\ u.hotTop = Shut /\ u.hotItem = 0 THEN u
              ELSE Touch([u EXCEPT !.open = Shut, !.hotTop = Shut, !.hotItem = 0], "menu")
show_context(u, c) == Touch([u EXCEPT !.open = c, !.hotItem = 0], "menu")
activate_item(u, i) ==
    IF i = Len(PopupOf(u)) THEN [u |-> u, r |-> "consumed"]
    ELSE [u |-> Touch([u EXCEPT !.open = Shut, !.hotItem = 0], "menu"), r |-> "clicked"]
MenuDown(u, c) ==
    LET top == heading_at(u, c)
    IN IF top # Shut
       THEN [u |-> Touch([u EXCEPT !.open = IF @ = top THEN Shut ELSE top, !.hotTop = top, !.hotItem = 0], "menu"), r |-> "consumed"]
       ELSE IF overlay_contains(u, c) THEN activate_item(u, menu_item_at(u, c)) ELSE [u |-> u, r |-> "ignored"]
MenuMove(u, c) ==
    LET top == heading_at(u, c)
        item == menu_item_at(u, c)
        switch == u.open \in UiHeadings /\ top # Shut /\ top # u.open
    IN IF top = u.hotTop /\ item = u.hotItem /\ ~switch THEN [u |-> u, r |-> "ignored"]
       ELSE [u |-> Touch([u EXCEPT !.open = IF switch THEN top ELSE @, !.hotTop = top, !.hotItem = item], "menu"), r |-> "changed"]
MenuLeave(u) ==
    IF u.hotTop = Shut /\ u.hotItem = 0 THEN [u |-> u, r |-> "ignored"]
    ELSE [u |-> Touch([u EXCEPT !.hotTop = Shut, !.hotItem = IF u.hotTop # Shut THEN @ ELSE 0], "menu"), r |-> "changed"]
MenuEvent(u, kind, c) ==
    CASE kind = "down" -> MenuDown(u, c)
      [] kind = "move" -> MenuMove(u, c)
      [] kind = "leave" -> MenuLeave(u)
      [] kind \in {"up", "context"} -> [u |-> u, r |-> IF c \in Area(u, "menu") \/ overlay_contains(u, c) THEN "consumed" ELSE "ignored"]
      [] OTHER -> [u |-> u, r |-> "ignored"]

(* ToolbarButton and Button.  *)
ToolEvent(u, kind, c) ==
    LET in == c \in Area(u, "tool")
    IN IF ~u.enabled THEN [u |-> u, r |-> "ignored"]
       ELSE CASE kind = "down" /\ in -> [u |-> Touch([u EXCEPT !.down = TRUE, !.hot = TRUE], "tool"), r |-> "consumed"]
              [] kind = "up" /\ u.down -> [u |-> Touch([u EXCEPT !.down = FALSE, !.hot = in], "tool"), r |-> IF in THEN "clicked" ELSE "consumed"]
              [] kind = "move" /\ in # u.hot -> [u |-> Touch([u EXCEPT !.hot = in], "tool"), r |-> "changed"]
              [] kind = "leave" /\ u.hot -> [u |-> Touch([u EXCEPT !.hot = FALSE], "tool"), r |-> "changed"]
              [] OTHER -> [u |-> u, r |-> "ignored"]
EnabledOnly(u, on) == IF u.enabled = on THEN u ELSE Touch([u EXCEPT !.enabled = on], "tool")
set_enabled(u, on) ==
    IF u.enabled = on THEN u ELSE Touch([u EXCEPT !.enabled = on, !.hot = on /\ @, !.down = on /\ @], "tool")

(* The view: a press or a key changes what it shows.  *)
ViewEvent(u, kind, c) ==
    CASE kind \in {"down", "key", "wheel"} -> [u |-> Touch([u EXCEPT !.text = 1 - @], "view"), r |-> "changed"]
      [] kind = "up" -> [u |-> u, r |-> "consumed"]
      [] kind = "context" -> [u |-> Touch(u, "view"), r |-> "context"]
      [] OTHER -> [u |-> u, r |-> "ignored"]

-----------------------------------------------------------------------------
(* Ui.  *)
event(u, w, kind, c) ==
    LET e == CASE w = "menu" -> MenuEvent(u, kind, c) [] w = "tool" -> ToolEvent(u, kind, c) [] OTHER -> ViewEvent(u, kind, c)
    IN [u |-> Marked(e.u, w, e.r), r |-> e.r]
hit_test(u, c) ==
    IF overlay_contains(u, c) THEN "menu"
    ELSE IF \E w \in Widgets : c \in Area(u, w) THEN CHOOSE w \in Widgets : c \in Area(u, w) ELSE NoWidget
dismiss_overlays_outside(u, c) ==
    IF u.open # Shut /\ ~overlay_contains(u, c) /\ c \notin Area(u, "menu") THEN AllDirty(dismiss(u)) ELSE u
set_focus(u, w) ==
    LET left == IF u.focus = NoWidget THEN u ELSE mark_dirty_rect(u, Area(u, u.focus))
    IN IF u.focus = w THEN u ELSE mark_dirty_rect([left EXCEPT !.focus = w], Area(u, w))
compute(u) ==
    LET old == [w \in Widgets |-> IF u.placed = NoWidget THEN {} ELSE UiRects[u.placed][w]]
    IN AllDirty([u EXCEPT !.layout = FALSE, !.placed = u.size, !.touched = @ \cup {w \in Widgets : old[w] # Area(u, w)}])
PointerDown(u, c) ==
    LET w == hit_test(u, c)
        v == [u EXCEPT !.hovered = w, !.pressed = w]
    IN IF w = NoWidget THEN [u |-> v, w |-> w, r |-> "ignored"]
       ELSE LET e == event(IF w = "menu" THEN v ELSE set_focus(v, w), w, "down", c) IN [u |-> e.u, w |-> w, r |-> e.r]
Move(u, c) ==
    LET w == hit_test(u, c)
        v == [u EXCEPT !.hovered = w]
        out == IF u.hovered \in {w, NoWidget} THEN v ELSE event(v, u.hovered, "leave", c).u
        to == IF u.pressed # NoWidget THEN u.pressed ELSE w
    IN IF to = NoWidget THEN [u |-> out, w |-> to, r |-> "ignored"]
       ELSE LET e == event(out, to, "move", c) IN [u |-> e.u, w |-> to, r |-> IF e.r = "clicked" THEN "changed" ELSE e.r]
Up(u, c) ==
    LET w == IF u.pressed # NoWidget THEN u.pressed ELSE hit_test(u, c)
        v == [u EXCEPT !.pressed = NoWidget, !.hovered = hit_test(u, c)]
    IN IF w = NoWidget THEN [u |-> v, w |-> w, r |-> "ignored"] ELSE LET e == event(v, w, "up", c) IN [u |-> e.u, w |-> w, r |-> e.r]
Leave(u) ==
    IF u.hovered = NoWidget THEN u ELSE event([u EXCEPT !.hovered = NoWidget], u.hovered, "leave", 0).u

FullWhenDirtyNever(u) == FALSE
full_redraw_when_dirty(u) == "menu" \in u.touched
(* What a redraw of everything would show in a cell: the popup above the widgets.  *)
MenuLook(u, c) == IF overlay_contains(u, c) THEN <<"popup", u.open, u.hotItem>> ELSE <<"menu", u.open, u.hotTop>>
ToolLook(u) == <<"tool", u.hot /\ u.enabled, u.down /\ u.hot /\ u.enabled, u.enabled>>
Picture(u, c) ==
    IF overlay_contains(u, c) \/ c \in Area(u, "menu") THEN MenuLook(u, c)
    ELSE IF c \in Area(u, "tool") THEN ToolLook(u)
    ELSE <<"view", u.focus = "view", u.text>>
frame(u0, shows) ==
    LET u1 == IF u0.layout THEN compute(u0) ELSE u0
        parts == UNION {Area(u1, w) : w \in u1.touched \ {"menu"}}
        u2 == IF parts = {} THEN u1 ELSE mark_dirty_rect(u1, parts)
        u3 == IF full_redraw_when_dirty(u1) THEN AllDirty(u2) ELSE u2
        drawn == IF u3.part THEN u3.region \cap ScreenOf(u3) ELSE ScreenOf(u3)
    IN /\ ui' = IF u3.dirty THEN [u3 EXCEPT !.dirty = FALSE, !.part = FALSE, !.region = {}, !.touched = {}] ELSE u3
       /\ seen' = [c \in ScreenOf(u3) |-> IF u3.dirty /\ c \in drawn THEN Picture(u3, c)
                                          ELSE IF c \in DOMAIN shows THEN shows[c] ELSE <<>>]

(* One turn of UiRuntime::run: an event or a message, its callbacks, and a frame.
   A click may change whether the button is enabled.  *)
Turn(d) == \E u \in IF d.r = "clicked" THEN {d.u, set_enabled(d.u, ~d.u.enabled)} ELSE {d.u} : frame(u, seen)
Counted == events < MaxEvents /\ events' = events + 1
Ready == IF ui.layout THEN compute(ui) ELSE ui
mouse_down(c) == Counted /\ ~button /\ button' = TRUE /\ Turn(PointerDown(dismiss_overlays_outside(Ready, c), c))
mouse_up(c) == Counted /\ button /\ button' = FALSE /\ Turn(Up(Ready, c))
mouse_move(c) == Counted /\ UNCHANGED button /\ Turn(Move(Ready, c))
mouse_leave == Counted /\ UNCHANGED button /\ frame(Leave(Ready), seen)
ui_wheel(c) ==
    Counted /\ UNCHANGED button /\ hit_test(Ready, c) # NoWidget /\ frame(event(Ready, hit_test(Ready, c), "wheel", c).u, seen)
key_down == Counted /\ UNCHANGED button /\ ui.focus # NoWidget /\ frame(event(Ready, ui.focus, "key", 0).u, seen)
context_click(c) ==
    LET u == dismiss_overlays_outside(Ready, c)
        w == hit_test(u, c)
        e == event(u, w, "context", c)
    IN Counted /\ UNCHANGED button /\ w # NoWidget /\ frame(IF e.r = "context" THEN show_context(e.u, c) ELSE e.u, seen)
resize_window(n) == Counted /\ UNCHANGED button /\ n # ui.size /\ frame(request_full_redraw([ui EXCEPT !.size = n]), <<>>)
message(on) == Counted /\ UNCHANGED button /\ frame(set_enabled(ui, on), seen)

UiInit ==
    /\ button = FALSE /\ events = 0 /\ seen = <<>>
    /\ \E n \in DOMAIN UiRects :
         ui = [size |-> n, placed |-> NoWidget, layout |-> TRUE, focus |-> NoWidget, hovered |-> NoWidget, pressed |-> NoWidget, dirty |-> TRUE,
               part |-> FALSE, region |-> {}, touched |-> Widgets, open |-> Shut, hotTop |-> Shut, hotItem |-> 0,
               hot |-> FALSE, down |-> FALSE, enabled |-> TRUE, text |-> 0]
first_frame == ui.layout /\ UNCHANGED <<button, events>> /\ frame(ui, seen)
UiNext ==
    \/ first_frame
    \/ /\ ~ui.layout
       /\ \/ \E c \in ScreenOf(ui) : mouse_down(c) \/ mouse_up(c) \/ mouse_move(c) \/ context_click(c) \/ ui_wheel(c)
          \/ mouse_leave \/ key_down
          \/ (\E n \in DOMAIN UiRects : resize_window(n)) \/ (\E on \in BOOLEAN : message(on))
UiSpec == UiInit /\ [][UiNext]_uiVars

-----------------------------------------------------------------------------
(* After every frame the window shows what drawing everything would show: no popup
   that was closed or moved leaves pixels behind, and no hover, focus, key or
   disabled button goes unpainted, though only damaged parts are drawn.  *)
WindowIsCurrent == ~ui.layout => \A c \in ScreenOf(ui) : seen[c] = Picture(ui, c)

(* A tool button is down only while it has the mouse, which the press captured: it
   cannot stay down, and be clicked later by a release alone, when it is disabled, left
   or covered by a popup in the middle of a press.  *)
DownIsCaptured == ui.down => button /\ ui.pressed = "tool" /\ ui.enabled
=============================================================================
