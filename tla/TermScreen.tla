----------------------------- MODULE TermScreen -----------------------------
(* The screen of the terminal application (apps/terminal/src/terminal.rs): the
   grid, its soft-wrapped rows, the scrollback, cursor control, reflow on
   resize, and what the shell's line editor makes of them when it redraws its
   line (apps/shell/src/main.rs, redraw_editor).

   A cell is a character; "_" is the blank.  Rows count from 1; col is the
   number of cells left of the cursor, so col = cols is the pending wrap.
   Colours are left out.  *)
EXTENDS Naturals, Sequences, SequencesExt, Tables

CONSTANTS Sizes,         \* the <<cols, rows>> a resize may ask for
          ScrollbackMax, \* SCROLLBACK_MAX
          Texts,         \* lines the shell's editor may show
          MaxOps         \* operations in a run

VARIABLES scr,  \* Screen
          view, \* view_off
          ops,
          last  \* the operation just done, for the properties

screenVars == <<scr, view, ops, last>>

(* The sequence of F(1) to F(n).  *)
Make(n, F(_)) == SubSeq([k \in 1..n |-> F(k)], 1, n)
Blanks(n) == Make(n, LAMBDA i : "_")
NewScreen(c, r) == [cols |-> c, rows |-> r, cells |-> Make(r, LAMBDA i : Blanks(c)),
                    soft |-> Make(r, LAMBDA i : FALSE), sb |-> <<>>, row |-> 1, col |-> 0, cr |-> FALSE]
Newest(s, n) == IF Len(s) > n THEN SubSeq(s, Len(s) - n + 1, Len(s)) ELSE s
LastInk(r) == CHOOSE n \in 0..Len(r) : (\A i \in n + 1..Len(r) : r[i] = "_") /\ (n = 0 \/ r[n] # "_")
trim_cells(r) == SubSeq(r, 1, LastInk(r))

-----------------------------------------------------------------------------
(* Output.  *)
scroll_up(s) ==
    [s EXCEPT !.sb = Newest(Append(@, [cells |-> s.cells[1], soft |-> s.soft[1]]), ScrollbackMax),
              !.cells = Append(Tail(@), Blanks(s.cols)), !.soft = Append(Tail(@), FALSE)]
line_feed(s) == IF s.row < s.rows THEN [s EXCEPT !.row = @ + 1] ELSE scroll_up(s)
hard_break(s) == line_feed([s EXCEPT !.soft[s.row] = FALSE, !.col = 0, !.cr = FALSE])
SetCell(s, c) == [s EXCEPT !.cells[s.row][s.col + 1] = c, !.col = @ + 1]

(* wrap_current_word: the unfinished word moves to the next row.  *)
LastBlank(r) == CHOOSE n \in 0..Len(r) : (\A i \in n + 1..Len(r) : r[i] # "_") /\ (n = 0 \/ r[n] = "_")
wrap_current_word(s) ==
    LET r == s.cells[s.row]
        sp == LastBlank(r)
        word == IF sp = 0 THEN <<>> ELSE SubSeq(r, sp + 1, s.cols)
        kept == IF sp = 0 THEN r ELSE SubSeq(r, 1, sp) \o Blanks(s.cols - sp)
    IN FoldLeft(SetCell, line_feed([s EXCEPT !.cells[s.row] = kept, !.soft[s.row] = TRUE, !.col = 0]), word)
put(s, c) == SetCell(IF s.col >= s.cols THEN wrap_current_word([s EXCEPT !.cr = FALSE])
                     ELSE [s EXCEPT !.cr = FALSE], c)

(* execute: the control characters.  A tab stop is eight columns.  *)
Tab(s) == LET c == (s.col \div 8 + 1) * 8
          IN IF c >= s.cols THEN line_feed([s EXCEPT !.soft[s.row] = TRUE, !.col = 0, !.cr = FALSE])
             ELSE [s EXCEPT !.col = c, !.cr = FALSE]
execute(s, b) ==
    CASE b = "BS" -> [s EXCEPT !.col = IF @ > 0 THEN @ - 1 ELSE @, !.cr = FALSE]
      [] b = "HT" -> Tab(s)
      [] b = "LF" -> hard_break(s)
      [] b = "CR" -> [s EXCEPT !.col = 0, !.cr = TRUE]

-----------------------------------------------------------------------------
(* Cursor movement and erasing: csi_dispatch.  clear_range counts cells from
   the start of the screen, so a range may cross rows.  *)
LineStart(s, r) == (r - 1) * s.cols
clear_range(s, from, to) ==
    LET At(r, c) == IF LineStart(s, r) + c - 1 \in from..to - 1 THEN "_" ELSE s.cells[r][c]
    IN [s EXCEPT !.cells = Make(s.rows, LAMBDA r : Make(s.cols, LAMBDA c : At(r, c)))]
clear_all(s) == [s EXCEPT !.cells = Make(s.rows, LAMBDA r : Blanks(s.cols)), !.soft = Make(s.rows, LAMBDA r : FALSE)]

FirstRow(s) == CHOOSE f \in 1..s.row : (\A r \in f..s.row - 1 : s.soft[r]) /\ (f = 1 \/ ~s.soft[f - 1])
LastRow(s) == CHOOSE l \in s.row..s.rows : (\A r \in s.row..l - 1 : s.soft[r]) /\ (l = s.rows \/ ~s.soft[l])
ClearRowOnly(s) == clear_range(s, LineStart(s, s.row), LineStart(s, s.row) + s.cols)
clear_logical_line(s) ==
    LET f == FirstRow(s)
        l == LastRow(s)
    IN [clear_range(s, LineStart(s, f), LineStart(s, l) + s.cols)
           EXCEPT !.soft = Make(s.rows, LAMBDA r : s.soft[r] /\ r \notin f..l), !.row = f, !.col = 0]

soft_row_end(s, r) == LET n == LastInk(s.cells[r]) IN IF n = 0 THEN 0 ELSE AtMost(n + 1, s.cols)
LeftStep(m, k) ==
    IF m.n = 0 THEN m
    ELSE IF m.n <= m.s.col THEN [s |-> [m.s EXCEPT !.col = @ - m.n], n |-> 0]
    ELSE IF m.s.row = 1 THEN [s |-> [m.s EXCEPT !.col = 0], n |-> 0]
    ELSE IF ~m.s.soft[m.s.row - 1] THEN [s |-> [m.s EXCEPT !.col = 0], n |-> 0]
    ELSE [s |-> [m.s EXCEPT !.row = @ - 1, !.col = soft_row_end(m.s, m.s.row - 1)], n |-> m.n - m.s.col]
move_left(s, n) == FoldLeft(LeftStep, [s |-> s, n |-> n], [k \in 1..s.rows |-> k]).s

cursor_clamp(s) == [s EXCEPT !.col = AtMost(@, s.cols - 1), !.cr = FALSE]
Erase(s, how) ==
    LET line == LineStart(s, s.row)
        cur == line + s.col
    IN CASE how = "J0" -> clear_range(s, cur, s.rows * s.cols)
         [] how = "J1" -> clear_range(s, 0, cur + 1)
         [] how = "J2" -> clear_all(s)
         [] how = "K0" -> clear_range(s, cur, line + s.cols)
         [] how = "K1" -> clear_range(s, line, cur + 1)
         [] how = "K2" -> IF s.cr THEN clear_logical_line(s) ELSE ClearRowOnly(s)
DownFree(s) == [s EXCEPT !.row = @ + 1]
Down(s) == [s EXCEPT !.row = AtMost(@ + 1, s.rows)]
csi_dispatch(s, a) ==
    cursor_clamp(CASE a = "A" -> [s EXCEPT !.row = IF @ > 1 THEN @ - 1 ELSE 1]
                   [] a = "B" -> Down(s)
                   [] a = "C" -> [s EXCEPT !.col = AtMost(@ + 1, s.cols - 1)]
                   [] a = "D" -> move_left(s, 1)
                   [] a = "H" -> [s EXCEPT !.row = 1, !.col = 0]
                   [] OTHER -> Erase(s, a))

-----------------------------------------------------------------------------
(* Reflow.  collect_physical takes the scrollback and the screen down to the
   last row with content; a full last cell counts as a soft break.  *)
CursorRowOnly(s) == s.row
last_content_row(s) == CHOOSE n \in s.row..s.rows : /\ \A r \in n + 1..s.rows : LastInk(s.cells[r]) = 0
                                                    /\ n = s.row \/ LastInk(s.cells[n]) > 0
Refit(r, n) == Make(n, LAMBDA i : IF i <= Len(r) THEN r[i] ELSE "_")
collect_physical(s) ==
    LET last_row == last_content_row(s)
        old == [k \in DOMAIN s.sb |-> LET r == Refit(s.sb[k].cells, s.cols)
                                      IN [cells |-> r, soft |-> s.sb[k].soft \/ r[s.cols] # "_"]]
        now == [r \in 1..last_row |-> [cells |-> s.cells[r],
                                       soft |-> s.soft[r] \/ (s.cells[r][s.cols] # "_" /\ r < last_row)]]
    IN old \o now

Join(acc, p) ==
    LET cells == acc.cur \o trim_cells(p.cells)
    IN IF ~p.soft THEN [out |-> Append(acc.out, cells), cur |-> <<>>]
       ELSE [acc EXCEPT !.cur = IF cells # <<>> /\ Last(cells) # "_" THEN Append(cells, "_") ELSE cells]
Logical(phys) ==
    LET end == FoldLeft(Join, [out |-> <<>>, cur |-> <<>>], phys)
        lines == IF end.cur = <<>> THEN end.out ELSE Append(end.out, end.cur)
    IN IF lines = <<>> THEN <<<<>>>> ELSE lines

(* wrap_words: runs of blanks and words, broken at `width`.  *)
AddToRun(rs, c) == IF rs # <<>> /\ ((Last(Last(rs)) = "_") <=> (c = "_"))
                   THEN Front(rs) \o <<Append(Last(rs), c)>> ELSE Append(rs, <<c>>)
Row(r, w, soft) == [cells |-> Refit(r, w), soft |-> soft]
Flush(st, w) == [out |-> Append(st.out, Row(st.row, w, TRUE)), row |-> <<>>]
PlaceRun(st, run, w, more) ==
    LET fits == Len(st.row) + Len(run) <= w
        f == IF st.row # <<>> /\ ~fits THEN Flush(st, w) ELSE st
        full == Len(run) \div w
    IN IF run[1] = "_"
       THEN IF st.row = <<>> THEN st ELSE IF fits THEN [st EXCEPT !.row = @ \o run] ELSE f
       ELSE IF Len(run) <= w THEN [f EXCEPT !.row = @ \o run]
       ELSE [out |-> f.out \o [k \in 1..full |-> Row(SubSeq(run, (k - 1) * w + 1, k * w), w,
                                                     k * w < Len(run) \/ more)],
             row |-> SubSeq(run, full * w + 1, Len(run))]
wrap_words(src, w) ==
    LET runs == FoldLeft(AddToRun, <<>>, src)
        end == FoldLeftDomain(LAMBDA st, k : PlaceRun(st, runs[k], w, k < Len(runs)),
                              [out |-> <<>>, row |-> <<>>], runs)
    IN Append(end.out, Row(end.row, w, FALSE))

resize(s, c, r) ==
    IF c = s.cols /\ r = s.rows THEN s
    ELSE LET lines == Logical(collect_physical(s))
             all == Newest(FlattenSeq([k \in DOMAIN lines |-> wrap_words(lines[k], c)]), ScrollbackMax + r)
             n == AtMost(Len(all), r)
             shown == SubSeq(all, Len(all) - n + 1, Len(all))
         IN [NewScreen(c, r) EXCEPT
                !.sb = SubSeq(all, 1, Len(all) - n),
                !.cells = Make(r, LAMBDA k : IF k <= n THEN shown[k].cells ELSE Blanks(c)),
                !.soft = Make(r, LAMBDA k : k <= n /\ shown[k].soft),
                !.row = n,
                !.col = AtMost(LastInk(shown[n].cells), c - 1),
                !.cr = s.cr]
-----------------------------------------------------------------------------
Did(what) == [what |-> what, text |-> <<>>, back |-> 0]
ScreenInit ==
    /\ \E z \in Sizes : scr = NewScreen(z[1], z[2])
    /\ view = 0 /\ ops = 0 /\ last = Did("none")

(* process: output of the shell or of a program; it ends the scrolled view.  *)
Output(s, what) ==
    /\ ops < MaxOps /\ ops' = ops + 1
    /\ scr' = s /\ view' = 0 /\ last' = what
print(c) == Output(put(scr, c), Did("print"))
control(b) == Output(execute(scr, b), Did("control"))
csi(a) == Output(csi_dispatch(scr, a), Did("csi"))
resized(c, r) == Output(resize(scr, c, r), Did("resize"))
(* scroll_view: PageUp and PageDown move by a page within the scrollback.  *)
scroll_view(up) ==
    /\ ops < MaxOps /\ ops' = ops + 1
    /\ view' = IF up THEN Len(scr.sb) ELSE 0
    /\ last' = Did("view")
    /\ UNCHANGED scr
(* redraw_editor: CR, CSI 2 K, the line, and CSI n D back to the cursor.  *)
Redrawn(t, back) ==
    LET line == FoldLeft(put, csi_dispatch(execute(scr, "CR"), "K2"), t)
    IN IF back = 0 THEN line ELSE cursor_clamp(move_left(line, back))
redraw_editor(t, back) == Output(Redrawn(t, back), [Did("redraw") EXCEPT !.text = t, !.back = back])

ScreenNext ==
    \/ \E c \in {"a", "_"} : print(c)
    \/ \E b \in {"BS", "HT", "LF", "CR"} : control(b)
    \/ \E a \in {"A", "B", "C", "D", "H", "J0", "J1", "J2", "K0", "K1", "K2"} : csi(a)
    \/ \E z \in Sizes : resized(z[1], z[2])
    \/ \E up \in BOOLEAN : scroll_view(up)
    \/ \E t \in Texts : \E back \in 0..Len(t) : redraw_editor(t, back)
ScreenSpec == ScreenInit /\ [][ScreenNext]_screenVars

-----------------------------------------------------------------------------
Ink(r) == SelectSeq(r, LAMBDA c : c # "_")
History(s) == Ink(FlattenSeq([k \in DOMAIN s.sb |-> s.sb[k].cells]))
RowsInk(s, a, b) == IF b < a THEN <<>> ELSE Ink(FlattenSeq(SubSeq(s.cells, a, b)))

(* Every access of put, of the erasing ranges and of the drawing loop is inside
   the grid after any sequence of output, cursor control, and resizes.  *)
CursorOnScreen ==
    /\ scr.row \in 1..scr.rows /\ scr.col \in 0..scr.cols
    /\ DOMAIN scr.cells = 1..scr.rows /\ DOMAIN scr.soft = 1..scr.rows
    /\ \A r \in 1..scr.rows : Len(scr.cells[r]) = scr.cols
    /\ Len(scr.sb) <= ScrollbackMax /\ view <= Len(scr.sb)

(* A resize reflows the text and loses none of it: every visible character
   stays, in order, except what falls off the far end of the scrollback.  *)
AllInk(s) == History(s) \o RowsInk(s, 1, s.rows)
ResizeKeepsText ==
    [][last'.what = "resize" =>
        /\ IsSuffix(AllInk(scr'), AllInk(scr))
        /\ Len(scr'.sb) < ScrollbackMax => AllInk(scr') = AllInk(scr)]_screenVars

(* Redrawing the shell's line replaces it: wherever the cursor stood in a line
   that wrapped over several rows, the screen then shows the text above it and
   the new line once, and the cursor stands at its place in it.  The line is
   the last on the screen and begins on it.  *)
LineIsWhole(s) == /\ RowsInk(s, LastRow(s) + 1, s.rows) = <<>>
                  /\ FirstRow(s) > 1 \/ s.sb = <<>> \/ ~Last(s.sb).soft
RedrawIsExact ==
    [][(last'.what = "redraw" /\ LineIsWhole(scr)) =>
        LET above == History(scr) \o RowsInk(scr, 1, FirstRow(scr) - 1)
            t == last'.text
            prefix == SubSeq(t, 1, Len(t) - last'.back)
        IN /\ IsSuffix(AllInk(scr'), above \o Ink(t))
           /\ IsSuffix(Ink(t), AllInk(scr'))
           /\ IsSuffix(History(scr') \o RowsInk(scr', 1, scr'.row - 1)
                          \o Ink(SubSeq(scr'.cells[scr'.row], 1, scr'.col)),
                       above \o Ink(prefix))]_screenVars
=============================================================================
