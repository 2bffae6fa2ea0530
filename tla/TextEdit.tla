------------------------------ MODULE TextEdit ------------------------------
(* The text widgets of the two toolkits: TextArea and TextInput of popui
   (popui/src/widgets) and of the no_std library (lib/src/ui/widgets).

   A text is a sequence of bytes, the way the code counts its offsets: "a" an
   identifier character, "n" the newline, " ", "." and brackets (a tab
   stop is two blanks here), and "W",
   "w" the two bytes of a character outside ASCII, which can be set but not
   typed.  An offset is the number of bytes before it.  Lines and columns
   count from 0; a size is <<rows, columns beside the scrollbar>>.  *)
EXTENDS Integers, Sequences, FiniteSets, Tables

CONSTANTS EditTexts,  \* texts an application may set
          EditSizes,  \* sizes of a text area
          EditMaxLen, \* max_len, in bytes
          MaxEdits    \* events in a run

VARIABLES ed,      \* the widget
          edits,   \* events so far
          edLast   \* the class of the last event

editVars == <<ed, edits, edLast>>

Nowhere == -1
EdKinds == {"area", "libarea", "input", "libinput"}
Areas == {"area", "libarea"}
NoMenu == [at |-> Nowhere, value |-> <<>>]

EdBlank(k, rhai, sz) ==
    [kind |-> k, rhai |-> rhai, size |-> sz, text |-> <<>>, cursor |-> 0, top |-> 0, left |-> 0,
     anchor |-> Nowhere, drag |-> "no", menu |-> NoMenu, hover |-> <<>>, limit |-> EditMaxLen, dead |-> FALSE]

-----------------------------------------------------------------------------
LessBy(a, b) == IF a > b THEN a - b ELSE 0

(* Characters, lines and columns of a text.  *)
Boundary(t, i) == i \in 0..Len(t) /\ (i < Len(t) => t[i + 1] # "w")
Columns(t, a, b) == Cardinality({i \in a + 1..b : t[i] # "w"})
Breaks(t) == {i \in 1..Len(t) : t[i] = "n"}
cursor_line_col(t, at) ==
    LET before == {i \in Breaks(t) : i <= at}
        start == IF before = {} THEN 0 ELSE CHOOSE i \in before : \A j \in before : j <= i
    IN <<Cardinality(before), Columns(t, start, at)>>
line_count(t) == Cardinality(Breaks(t)) + 1
line_bounds(t, wanted) ==
    LET ends == Breaks(t) \cup {Len(t) + 1}
        end == CHOOSE i \in ends : Cardinality({j \in ends : j < i}) = wanted
        starts == {j \in Breaks(t) : j < end}
    IN <<IF starts = {} THEN 0 ELSE CHOOSE j \in starts : \A k \in starts : k <= j, end - 1>>
ColumnOf(t, start, end, col) ==
    LET hits == {i \in start..end : Boundary(t, i) /\ Columns(t, start, i) = col}
    IN IF hits = {} THEN end ELSE Least(hits)
byte_at_line_col(t, line, col) ==
    IF line >= line_count(t) THEN Len(t)
    ELSE LET b == line_bounds(t, line) IN ColumnOf(t, b[1], b[2], col)
PrevByte(t, at) == LessBy(at, 1)
prev_char(t, at) == IF at = 0 THEN 0 ELSE CHOOSE i \in 0..at - 1 : Boundary(t, i) /\ \A j \in i + 1..at - 1 : ~Boundary(t, j)
next_char(t, at) == IF at >= Len(t) THEN Len(t) ELSE Least({i \in at + 1..Len(t) : Boundary(t, i)})
Outside(t, r) == r # <<>> /\ ~(Boundary(t, r[1]) /\ Boundary(t, r[2]))
Splice(t, a, b, s) == SubSeq(t, 1, a) \o s \o SubSeq(t, b + 1, Len(t))

(* The viewport.  The scrollbar takes a column when the lines do not fit.  *)
max_scroll_line(e) == LessBy(line_count(e.text), e.size[1])
viewport_cols(e) == IF max_scroll_line(e) > 0 THEN e.size[2] ELSE e.size[2] + 1
FollowOff(first, n, at) == IF at < first THEN at ELSE IF at > first + n THEN at - n ELSE first
Follow(first, n, at) == IF at < first THEN at ELSE IF at >= first + n THEN at + 1 - n ELSE first
FollowLate(first, n, at) == IF at < first THEN at ELSE IF at > first + n THEN at - n ELSE first
ensure_cursor_visible(e) ==
    LET p == cursor_line_col(e.text, e.cursor)
        d == [e EXCEPT !.top = AtMost(Follow(@, e.size[1], p[1]), max_scroll_line(e))]
    IN [d EXCEPT !.left = Follow(@, viewport_cols(d), p[2])]
LibEnsureVisible(e) ==
    LET p == cursor_line_col(e.text, e.cursor)
    IN [e EXCEPT !.top = AtMost(Follow(@, e.size[1], p[1]), max_scroll_line(e)),
                 !.left = Follow(@, viewport_cols(e), p[2])]

-----------------------------------------------------------------------------
(* popui TextArea: selection, completion and the editing operations.  *)
selection(e) == IF e.anchor = Nowhere \/ e.anchor = e.cursor THEN <<>>
                ELSE <<AtMost(e.anchor, e.cursor), e.anchor + e.cursor - AtMost(e.anchor, e.cursor)>>
Selected(e) == IF selection(e) = <<>> THEN 0 ELSE selection(e)[2] - selection(e)[1]
delete_selection(e) ==
    IF selection(e) = <<>> THEN e
    ELSE IF Outside(e.text, selection(e)) THEN [e EXCEPT !.dead = TRUE]
    ELSE LET s == selection(e)
         IN ensure_cursor_visible([e EXCEPT !.text = Splice(@, s[1], s[2], <<>>), !.cursor = s[1],
                                            !.anchor = Nowhere, !.menu = NoMenu])
WordStart(e) == CHOOSE i \in 0..e.cursor : /\ \A j \in i + 1..e.cursor : e.text[j] = "a"
                                           /\ i = 0 \/ e.text[i] # "a"
(* found: the list, or the members of the receiver's type, hold a longer name.  *)
refresh_completion(e, open, found) ==
    LET s == WordStart(e)
        ask == IF s > 0 /\ e.text[s] = "." THEN s > 1 /\ e.text[s - 1] = "a" ELSE e.cursor - s >= 2
    IN [e EXCEPT !.anchor = Nowhere,
                 !.menu = IF e.rhai /\ open /\ found /\ ask
                          THEN [at |-> s, value |-> SubSeq(e.text, s + 1, e.cursor) \o <<"a">>] ELSE NoMenu]
insert_str(e, s, open, found) ==
    IF Len(e.text) - Selected(e) + Len(s) > e.limit THEN e
    ELSE LET d == delete_selection(e)
         IN IF d.dead THEN d ELSE refresh_completion(ensure_cursor_visible(
               [d EXCEPT !.text = Splice(@, d.cursor, d.cursor, s), !.cursor = @ + Len(s)]), open, found)
(* A new line repeats the indentation and indents more after a bracket.  *)
insert_newline(e) ==
    LET d == delete_selection(e)
        start == line_bounds(d.text, cursor_line_col(d.text, d.cursor)[1])[1]
        lead == CHOOSE i \in start..d.cursor :
                    (\A j \in start + 1..i : d.text[j] = " ") /\ (i = d.cursor \/ d.text[i + 1] # " ")
        ink == {j \in start + 1..d.cursor : d.text[j] # " "}
        extra == ink # {} /\ d.text[CHOOSE j \in ink : \A k \in ink : k <= j] = "("
    IN IF d.dead THEN d ELSE insert_str(d, <<"n">> \o SubSeq(d.text, start + 1, lead) \o IF extra THEN <<" ", " ">> ELSE <<>>, FALSE, FALSE)
Erase2(e, a, b, open, found) ==
    IF Outside(e.text, selection(e)) THEN delete_selection(e)
    ELSE IF selection(e) # <<>> THEN refresh_completion(delete_selection(e), open, found)
    ELSE IF a = b THEN e
    ELSE refresh_completion(ensure_cursor_visible([e EXCEPT !.text = Splice(@, a, b, <<>>), !.cursor = a]), open, found)
backspace(e, found) == Erase2(e, prev_char(e.text, e.cursor), e.cursor, TRUE, found)
delete(e) == Erase2(e, e.cursor, next_char(e.text, e.cursor), FALSE, FALSE)
prepare_navigation(e, shift) ==
    [e EXCEPT !.anchor = IF ~shift THEN Nowhere ELSE IF @ = Nowhere THEN e.cursor ELSE @]
GoTo(e, at) == ensure_cursor_visible([e EXCEPT !.cursor = at])
move_vertical(e, delta) ==
    LET p == cursor_line_col(e.text, e.cursor)
        line == IF delta < 0 THEN LessBy(p[1], -delta) ELSE AtMost(p[1] + delta, line_count(e.text) - 1)
    IN GoTo(e, byte_at_line_col(e.text, line, p[2]))
(* replace_range panics when the caret has moved before the prefix.  *)
accept_completion(e, callable) ==
    IF e.menu.at > e.cursor THEN [e EXCEPT !.dead = TRUE]
    ELSE LET t == Splice(e.text, e.menu.at, e.cursor, e.menu.value)
             at == e.menu.at + Len(e.menu.value)
             call == callable /\ Len(t) + 2 <= e.limit
         IN ensure_cursor_visible([e EXCEPT !.text = IF call THEN Splice(t, at, at, <<"(", ")">>) ELSE t,
                                            !.cursor = IF call THEN at + 1 ELSE at, !.menu = NoMenu])
byte_from_point(e, row, col) ==
    byte_at_line_col(e.text, AtMost(e.top + row, line_count(e.text) - 1), e.left + col)
click_to_cursor(e, row, col) == GoTo([e EXCEPT !.menu = NoMenu], byte_from_point(e, row, col))
identifier_at(t, at) ==
    LET on == IF at < Len(t) /\ t[at + 1] = "a" THEN at + 1 ELSE IF at > 0 /\ t[at] = "a" THEN at ELSE 0
    IN IF on = 0 THEN <<>>
       ELSE <<CHOOSE i \in 0..on - 1 : (\A j \in i + 1..on : t[j] = "a") /\ (i = 0 \/ t[i] # "a"),
              CHOOSE i \in on..Len(t) : (\A j \in on..i : t[j] = "a") /\ (i = Len(t) \/ t[i + 1] # "a")>>

(* The keys of a text area.  *)
Keys == {"a", ".", "BS", "DEL", "ENTER", "TAB", "LEFT", "RIGHT", "UP", "DOWN", "PGUP", "PGDN", "HOME", "END"}
Arrow(e, key) ==
    LET p == cursor_line_col(e.text, e.cursor)
    IN CASE key = "LEFT" -> GoTo(e, prev_char(e.text, e.cursor))
         [] key = "RIGHT" -> GoTo(e, next_char(e.text, e.cursor))
         [] key = "UP" -> move_vertical(e, -1)
         [] key = "DOWN" -> move_vertical(e, 1)
         [] key = "PGUP" -> move_vertical(e, -e.size[1])
         [] key = "PGDN" -> move_vertical(e, e.size[1])
         [] key = "HOME" -> GoTo(e, byte_at_line_col(e.text, p[1], 0))
         [] key = "END" -> GoTo(e, line_bounds(e.text, p[1])[2])
AreaKey(e, key, shift, found) ==
    CASE key \in {"a", "."} -> insert_str(e, <<key>>, TRUE, found)
      [] e.menu # NoMenu /\ key \in {"UP", "DOWN"} -> e
      [] e.menu # NoMenu /\ key \in {"TAB", "ENTER"} -> accept_completion(e, found)
      [] key = "BS" -> backspace(e, found)
      [] key = "DEL" -> delete(e)
      [] e.menu = NoMenu /\ key = "ENTER" -> insert_newline(e)
      [] e.menu = NoMenu /\ key = "TAB" -> insert_str(e, <<" ", " ">>, FALSE, FALSE)
      [] OTHER -> Arrow(prepare_navigation(e, shift), key)

(* lib TextArea: no selection and no completion.  *)
LibInsert(e, s) ==
    IF Len(e.text) + Len(s) > e.limit THEN e
    ELSE LibEnsureVisible([e EXCEPT !.text = Splice(@, e.cursor, e.cursor, s), !.cursor = @ + Len(s)])
LibErase(e, a, b) == LibEnsureVisible([e EXCEPT !.text = Splice(@, a, b, <<>>), !.cursor = a])
LibMove(e, key) == LibEnsureVisible([e EXCEPT !.cursor = Arrow(e, key).cursor])
LibKey(e, key) ==
    CASE key \in {"a", "."} -> LibInsert(e, <<key>>)
      [] key = "BS" -> IF e.cursor = 0 THEN e ELSE LibErase(e, prev_char(e.text, e.cursor), e.cursor)
      [] key = "DEL" -> IF e.cursor >= Len(e.text) THEN e ELSE LibErase(e, e.cursor, next_char(e.text, e.cursor))
      [] key = "ENTER" -> LibInsert(e, <<"n">>)
      [] key = "TAB" -> LibInsert(e, <<" ", " ">>)
      [] OTHER -> LibMove(e, key)

(* set_max_len of lib cuts the text back to a character boundary.  *)
LibSetMaxLen(e, n) ==
    LET end == CHOOSE i \in 0..n : Boundary(e.text, i) /\ \A j \in i + 1..n : ~Boundary(e.text, j)
    IN IF Len(e.text) <= n THEN [e EXCEPT !.limit = n]
       ELSE LibEnsureVisible([e EXCEPT !.limit = n, !.text = SubSeq(@, 1, end), !.cursor = AtMost(@, end)])

-----------------------------------------------------------------------------
(* TextInput: one line; popui's has a caret, lib's edits at the end.  *)
InputVisible(e) ==
    LET n == e.size[2]
        c == Columns(e.text, 0, e.cursor)
    IN [e EXCEPT !.left = AtMost(FollowLate(@, n, c), LessBy(Columns(e.text, 0, Len(e.text)), n))]
move_cursor(e, at) == IF e.cursor = at THEN e ELSE InputVisible([e EXCEPT !.cursor = at])
byte_at_col(e, col) == ColumnOf(e.text, 0, Len(e.text), col)
(* An edit without a selection keeps the anchor, which then may lie outside
   the text: replace_range panics.  *)
InputCut(e) == IF selection(e) = <<>> THEN e
               ELSE IF Outside(e.text, selection(e)) THEN [e EXCEPT !.dead = TRUE]
               ELSE InputVisible([e EXCEPT !.text = Splice(@, selection(e)[1], selection(e)[2], <<>>),
                                           !.cursor = selection(e)[1], !.anchor = Nowhere])
InputType(e, c) == IF Len(e.text) >= e.limit /\ selection(e) = <<>> THEN e
                   ELSE LET d == InputCut(e)
                        IN IF d.dead \/ Len(d.text) >= d.limit THEN d
                           ELSE InputVisible([d EXCEPT !.text = Splice(@, d.cursor, d.cursor, <<c>>), !.cursor = @ + 1])
InputErase(e, a, b) == IF selection(e) # <<>> THEN InputCut(e)
                       ELSE IF a = b THEN e
                       ELSE InputVisible([e EXCEPT !.text = Splice(@, a, b, <<>>), !.cursor = a])
InputKey(e, key, shift) ==
    LET d == prepare_navigation(e, shift)
    IN CASE key \in {"a", "."} -> InputType(e, key)
         [] key = "BS" -> InputErase(e, prev_char(e.text, e.cursor), e.cursor)
         [] key = "DEL" -> InputErase(e, e.cursor, next_char(e.text, e.cursor))
         [] key = "LEFT" -> move_cursor(d, prev_char(e.text, e.cursor))
         [] key = "RIGHT" -> move_cursor(d, next_char(e.text, e.cursor))
         [] key = "HOME" -> move_cursor(d, 0)
         [] key = "END" -> move_cursor(d, Len(e.text))
         [] OTHER -> e
InputDrag(e, col) ==
    IF col < 0 THEN LET d == [e EXCEPT !.left = LessBy(@, 1)] IN move_cursor(d, byte_at_col(d, d.left))
    ELSE IF col > e.size[2] THEN move_cursor(e, byte_at_col(e, e.left + e.size[2] + 1))
    ELSE move_cursor(e, byte_at_col(e, e.left + col))
LibInputKey(e, key) ==
    LET t == e.text
    IN CASE key = "BS" -> [e EXCEPT !.text = SubSeq(t, 1, prev_char(t, Len(t)))]
         [] key \in {"a", "."} /\ Len(t) < e.limit -> [e EXCEPT !.text = Append(t, key)]
         [] OTHER -> e

-----------------------------------------------------------------------------
EditInit ==
    /\ ed \in {EdBlank(k, r, s) : k \in EdKinds, r \in BOOLEAN, s \in EditSizes}
    /\ ed.rhai => ed.kind = "area"
    /\ edits = 0 /\ edLast = "set"

Became(e, class) == /\ ~ed.dead /\ edits < MaxEdits
                    /\ ed' = e /\ edits' = edits + 1 /\ edLast' = class

(* An area scrolls back to its first line and leaves the caret at the end; an
   input keeps its caret in view; lib's input has none.  *)
set_text(t) == /\ ed.kind = "area"
               /\ Became([ed EXCEPT !.text = t, !.cursor = Len(t), !.top = 0, !.left = 0, !.anchor = Nowhere,
                                    !.hover = <<>>, !.menu = NoMenu], "set")
lib_set_text(t) == /\ ed.kind = "libarea"
                   /\ Became([ed EXCEPT !.text = t, !.cursor = Len(t), !.top = 0, !.left = 0], "set")
input_set_text(t) ==
    /\ ed.kind = "input" /\ Breaks(t) = {} /\ t # ed.text
    /\ Became(InputVisible([ed EXCEPT !.text = t, !.cursor = Len(t), !.anchor = Nowhere]), "set")
lib_input_set_text(t) == ed.kind = "libinput" /\ Breaks(t) = {} /\ Became([ed EXCEPT !.text = t], "set")
area_key(key, shift, found) == ed.kind = "area" /\ Became(AreaKey(ed, key, shift, found), "key")
escape == ed.kind = "area" /\ ed.menu # NoMenu /\ Became([ed EXCEPT !.menu = NoMenu], "menu")
lib_key(key) == ed.kind = "libarea" /\ Became(LibKey(ed, key), "key")
lib_limit(n) == ed.kind = "libarea" /\ ed.limit # n /\ Became(LibSetMaxLen(ed, n), "key")
input_key(key, shift) == ed.kind = "input" /\ Became(InputKey(ed, key, shift), "key")
lib_input_key(key) == ed.kind = "libinput" /\ Became(LibInputKey(ed, key), "key")

(* The mouse, in character cells.  *)
area_down(row, col) ==
    /\ ed.kind = "area"
    /\ LET e == click_to_cursor(ed, row, col)
       IN Became([e EXCEPT !.anchor = e.cursor, !.drag = "text"], "key")
lib_down(row, col) ==
    /\ ed.kind = "libarea"
    /\ Became(LibEnsureVisible([ed EXCEPT !.cursor = byte_from_point(ed, row, col)]), "key")
input_down(col) ==
    /\ ed.kind = "input"
    /\ LET e == move_cursor(ed, byte_at_col(ed, ed.left + col))
       IN Became([e EXCEPT !.anchor = e.cursor, !.drag = "text"], "key")
(* Above, below or left of the text the drag scrolls by one first.  *)
area_drag(row, col) ==
    /\ ed.kind = "area" /\ ed.drag = "text"
    /\ LET d == [ed EXCEPT !.top = IF row < 0 THEN LessBy(@, 1)
                                   ELSE IF row >= ed.size[1] THEN AtMost(@ + 1, max_scroll_line(ed)) ELSE @,
                           !.left = IF col < 0 THEN LessBy(@, 1) ELSE @]
           r == IF row < 0 THEN 0 ELSE AtMost(row, ed.size[1] - 1)
       IN Became(click_to_cursor(d, r, IF col < 0 THEN 0 ELSE col), "key")
input_drag(col) == ed.kind = "input" /\ ed.drag = "text" /\ Became(InputDrag(ed, col), "key")
BarTo(e, line) == [e EXCEPT !.top = IF max_scroll_line(e) = 0 THEN @ ELSE line]
bar_down(line) ==
    /\ ed.kind = "area" /\ max_scroll_line(ed) > 0 /\ line <= max_scroll_line(ed)
    /\ Became([BarTo(ed, line) EXCEPT !.anchor = Nowhere, !.drag = "bar"], "scroll")
lib_bar_down(line) ==
    /\ ed.kind = "libarea" /\ max_scroll_line(ed) > 0 /\ line <= max_scroll_line(ed)
    /\ Became([BarTo(ed, line) EXCEPT !.drag = "bar"], "scroll")
bar_drag(line) == ed.drag = "bar" /\ line <= max_scroll_line(ed) /\ Became(BarTo(ed, line), "scroll")
up == ed.drag # "no" /\ Became([ed EXCEPT !.drag = "no"], "scroll")
wheel(delta) ==
    /\ ed.kind = "area"
    /\ Became([ed EXCEPT !.top = IF delta > 0 THEN AtMost(@ + 3, max_scroll_line(ed)) ELSE LessBy(@, 3)], "scroll")
update_hover(row, col) ==
    /\ ed.rhai /\ ed.drag = "no"
    /\ Became([ed EXCEPT !.hover = identifier_at(ed.text, byte_from_point(ed, row, col))], "scroll")
leave == ed.hover # <<>> /\ Became([ed EXCEPT !.hover = <<>>], "scroll")
set_editor_rect(s) ==
    /\ s # ed.size /\ ed.kind # "libinput"
    /\ Became(LET e == [ed EXCEPT !.size = s]
              IN IF ed.kind = "input" THEN InputVisible(e)
                 ELSE ensure_cursor_visible([e EXCEPT !.top = AtMost(@, max_scroll_line(e))]), "key")
(* Drawing slices the hovered word and the selection out of the text.  *)
draw ==
    /\ Outside(ed.text, ed.hover) \/ Outside(ed.text, selection(ed))
    /\ Became([ed EXCEPT !.dead = TRUE], "scroll")

EditNext ==
    \/ \E t \in EditTexts : set_text(t) \/ lib_set_text(t) \/ input_set_text(t) \/ lib_input_set_text(t)
    \/ \E key \in Keys, shift, found \in BOOLEAN : area_key(key, shift, found)
    \/ escape
    \/ \E key \in Keys : lib_key(key) \/ lib_input_key(key)
    \/ \E n \in {2} : lib_limit(n)
    \/ \E key \in Keys, shift \in BOOLEAN : input_key(key, shift)
    \/ \E row \in {0, 1}, col \in 0..2 : area_down(row, col) \/ lib_down(row, col)
    \/ \E col \in 0..2 : input_down(col)
    \/ \E row \in {-1, 0, 2}, col \in {-1, 1, 3} : area_drag(row, col)
    \/ \E col \in {-1, 1, 3} : input_drag(col)
    \/ \E line \in 0..3 : bar_down(line) \/ lib_bar_down(line) \/ bar_drag(line)
    \/ up
    \/ \E delta \in {-1, 1} : wheel(delta)
    \/ \E row \in {0, 1}, col \in 0..1 : update_hover(row, col)
    \/ leave
    \/ \E s \in EditSizes : set_editor_rect(s)
    \/ draw

EditSpec == EditInit /\ [][EditNext]_editVars

-----------------------------------------------------------------------------
(* The cells TextArea::draw fills on a line for the selection.  *)
ShownBytes(e, line) ==
    LET b == line_bounds(e.text, line)
        first == ColumnOf(e.text, b[1], b[2], e.left)
    IN <<first, ColumnOf(e.text, first, b[2], viewport_cols(e))>>
FilledBytes(e, line) ==
    IF selection(e) = <<>> THEN {}
    ELSE {b - ShownBytes(e, line)[1] : b \in selection(e)[1]..selection(e)[2] - 1}
FilledCells(e, line) ==
    LET s == selection(e)
        v == ShownBytes(e, line)
        end == line_bounds(e.text, line)[2]
        a == IF s[1] > v[1] THEN s[1] ELSE v[1]
        b == AtMost(s[2], v[2])
        newline == s[1] <= end /\ s[2] > end /\ end \in v[1]..v[2]
        first == Columns(e.text, v[1], AtMost(a, v[2]))
        count == (IF a < b THEN Columns(e.text, a, b) ELSE 0) + IF newline /\ b = end THEN 1 ELSE 0
    IN IF s = <<>> \/ ~(a < b \/ newline) THEN {}
       ELSE first..first + (IF count = 0 THEN 1 ELSE count) - 1

(* The caret of a text widget, and the selection's other end in a plain text
   area, is never inside a character or past the text, whatever is set, typed, cut,
   dragged over or truncated.  *)
CaretOnCharacter ==
    ~ed.dead => /\ Boundary(ed.text, ed.cursor) \/ ed.kind = "libinput"
                /\ ed.anchor # Nowhere /\ ed.kind = "area" /\ ~ed.rhai => Boundary(ed.text, ed.anchor)

(* The highlight drawn in a text area covers exactly the visible characters
   that the next edit would replace, also with characters of two bytes, a
   scrolled view, and lines that end before the view begins.  *)
HighlightIsSelection ==
    LET e == ed
    IN e.kind = "area" /\ ~e.dead /\ (e.anchor # Nowhere => Boundary(e.text, e.anchor)) =>
        \A line \in e.top..AtMost(e.top + e.size[1], line_count(e.text)) - 1 :
            LET v == ShownBytes(e, line)
            IN \A b \in v[1]..v[2] - 1 : Boundary(e.text, b) =>
                (Columns(e.text, v[1], b) \in FilledCells(e, line)
                     <=> selection(e) # <<>> /\ selection(e)[1] <= b /\ b < selection(e)[2])

(* An event that edits the text or moves the caret leaves the caret in view,
   whatever was scrolled or resized before it.  *)
CaretFollowsEdits ==
    [][edLast' = "key" /\ ~ed'.dead /\ <<ed'.text, ed'.cursor>> # <<ed.text, ed.cursor>> =>
        LET e == ed'
            p == cursor_line_col(e.text, e.cursor)
        IN CASE e.kind \in Areas -> p[1] \in e.top..e.top + e.size[1] - 1 /\ p[2] \in e.left..e.left + viewport_cols(e) - 1
             [] e.kind = "input" -> p[2] \in e.left..e.left + e.size[2]
             [] OTHER -> TRUE]_editVars
=============================================================================
