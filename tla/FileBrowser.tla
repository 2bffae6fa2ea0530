----------------------------- MODULE FileBrowser -----------------------------
(* The file manager (std-apps/filemanager) with its two widgets, TreeView and
   FileView, of popui and of the no_std library (lib/src/ui/widgets).  The tree
   is a flat sequence of nodes in preorder that is read from the disk as it is
   expanded, while other programs make and remove directories.

   A path is a sequence of names; the depth of a node is the length of its path.
   Indices count from 0, as in the code; None is Nil.  Sizes are in rows of the
   tree and cells of the view: a row, the header of the details and the
   scrollbar are 1, an icon is 2 by 2.  *)
EXTENDS Tables, SequencesExt, FiniteSetsExt

CONSTANTS BrowseDirs,  \* directories that may exist, the root apart
          BrowseFiles, \* files
          StartDirs,   \* directories at the start
          TreeRows,    \* height of the tree
          ViewWidths,  \* widths of the file view
          ViewRows,    \* height of the file view
          MaxHistory,  \* MAX_HISTORY
          MaxBrowse    \* bound on events

VARIABLES br, folders, browsed
browseVars == <<br, folders, browsed>>

Nil == -1
Modes == {"icons", "list", "details"}
TopOf(a) == IF a < 0 THEN 0 ELSE a
Bounded(y, most) == IF y < 0 THEN 0 ELSE AtMost(y, TopOf(most))

(* The disk: sub-directories in order of name, then files.  *)
SubDirs(path) == {q \in folders : Len(q) = Len(path) + 1 /\ IsPrefix(path, q)}
SortedDirs(path) == SelectSeq(BrowseDirs, LAMBDA q : q \in SubDirs(path))
Exists(path) == path = <<>> \/ path \in folders
Listing(path) == SortedDirs(path) \o SelectSeq(BrowseFiles, LAMBDA q : Len(q) = Len(path) + 1 /\ IsPrefix(path, q))

-----------------------------------------------------------------------------
(* TreeView.  *)
NodeOf(path, kids) == [path |-> path, expanded |-> FALSE, loaded |-> FALSE, kids |-> kids]
NodeAt(b, i) == b.nodes[i + 1]
Depth(b, i) == Len(NodeAt(b, i).path)
LastNode(b) == Len(b.nodes) - 1
Hides(b, j, i) == j < i /\ ~NodeAt(b, j).expanded /\ \A k \in j + 1..i : Depth(b, k) > Depth(b, j)
for_each_visible(b) == SelectSeq([i \in 1..Len(b.nodes) |-> i - 1], LAMBDA i : ~\E j \in 0..i - 1 : Hides(b, j, i))
visible_count(b) == Len(for_each_visible(b))
visible_node_at(b, pos) == IF pos < visible_count(b) THEN for_each_visible(b)[pos + 1] ELSE Nil
visible_position_of(b, i) ==
    LET at == {p \in 1..visible_count(b) : for_each_visible(b)[p] = i} IN IF at = {} THEN Nil ELSE Least(at) - 1
tree_max_scroll(b) == TopOf(visible_count(b) - TreeRows)
tree_scroll_to(b, y) == [b EXCEPT !.top = Bounded(y, tree_max_scroll(b))]
ensure_selected_late(b) ==
    LET pos == visible_position_of(b, b.sel)
    IN IF b.sel = Nil \/ pos = Nil THEN b ELSE IF pos < b.top THEN tree_scroll_to(b, pos)
       ELSE IF pos > b.top + TreeRows THEN tree_scroll_to(b, pos - TreeRows) ELSE b
ensure_selected_visible(b) ==
    LET pos == visible_position_of(b, b.sel)
    IN IF b.sel = Nil \/ pos = Nil THEN b
       ELSE IF pos < b.top THEN tree_scroll_to(b, pos)
       ELSE IF pos + 1 > b.top + TreeRows THEN tree_scroll_to(b, pos + 1 - TreeRows) ELSE b

directory_has_children(b, path) == b.kit = "lib" \/ SubDirs(path) # {}
InsertedBefore(b, i, new) == SubSeq(b.nodes, 1, i) \o new \o SubSeq(b.nodes, i + 1, Len(b.nodes))
InsertedAfter(b, i, new) == SubSeq(b.nodes, 1, i + 1) \o new \o SubSeq(b.nodes, i + 2, Len(b.nodes))
expand_index(b, i) ==
    LET n == NodeAt(b, i)
        dirs == SortedDirs(n.path)
        made == SubSeq([k \in 1..Len(dirs) |-> NodeOf(dirs[k], directory_has_children(b, dirs[k]))], 1, Len(dirs))
    IN IF n.loaded THEN [b |-> [b EXCEPT !.nodes[i + 1].expanded = n.kids \/ @], ok |-> TRUE]
       ELSE IF ~Exists(n.path) THEN [b |-> b, ok |-> FALSE]
       ELSE [b |-> [b EXCEPT !.nodes = InsertedAfter([b EXCEPT !.nodes[i + 1] =
                        [n EXCEPT !.loaded = TRUE, !.kids = dirs # <<>>, !.expanded = dirs # <<>>]], i, made)], ok |-> TRUE]
collapse_index(b, i) == [b EXCEPT !.nodes[i + 1].expanded = FALSE]
toggle_index(b, i) == IF NodeAt(b, i).expanded THEN collapse_index(b, i) ELSE expand_index(b, i).b
load_root(b) ==
    expand_index([b EXCEPT !.nodes = <<NodeOf(<<>>, TRUE)>>, !.sel = 0, !.pressed = Nil, !.top = 0], 0).b
(* One name of the path at a time: expand, then look among the children.  *)
Descend(s, path) ==
    LET e == expand_index(s.b, s.at)
        below == {i \in s.at + 1..LastNode(e.b) : \A k \in s.at + 1..i : Depth(e.b, k) > Depth(e.b, s.at)}
        found == {i \in below : NodeAt(e.b, i).path = path}
    IN IF ~s.ok \/ ~e.ok THEN [b |-> IF s.ok THEN e.b ELSE s.b, at |-> s.at, ok |-> FALSE]
       ELSE IF found = {} THEN [b |-> e.b, at |-> s.at, ok |-> FALSE]
       ELSE [b |-> e.b, at |-> Least(found), ok |-> TRUE]
select_path(b, target) ==
    LET s == FoldLeft(LAMBDA acc, n : Descend(acc, SubSeq(target, 1, n)), [b |-> b, at |-> 0, ok |-> TRUE],
                      [n \in 1..Len(target) |-> n])
    IN IF s.ok THEN ensure_selected_visible([s.b EXCEPT !.sel = s.at]) ELSE s.b
move_selection(b, delta) ==
    LET pos == visible_position_of(b, b.sel)
    IN ensure_selected_visible([b EXCEPT !.sel =
           visible_node_at(b, Bounded((IF b.sel = Nil \/ pos = Nil THEN 0 ELSE pos) + delta, visible_count(b) - 1))])
select_parent(b) ==
    LET up == {i \in 0..b.sel - 1 : Depth(b, i) + 1 = Depth(b, b.sel)}
    IN IF up = {} THEN b ELSE ensure_selected_visible([b EXCEPT !.sel = CHOOSE i \in up : \A j \in up : j <= i])
TreeKey(b, key) ==
    CASE key = "UP" -> move_selection(b, -1)
      [] key = "DOWN" -> move_selection(b, 1)
      [] key = "HOME" -> ensure_selected_visible([b EXCEPT !.sel = visible_node_at(b, 0)])
      [] key = "END" -> ensure_selected_visible([b EXCEPT !.sel = visible_node_at(b, visible_count(b) - 1)])
      [] key = "PGUP" -> tree_scroll_to(b, b.top - TreeRows)
      [] key = "PGDN" -> tree_scroll_to(b, b.top + TreeRows)
      [] key = "RIGHT" -> IF b.sel = Nil THEN b ELSE expand_index(b, b.sel).b
      [] key = "LEFT" ->
           IF b.sel = Nil THEN b
           ELSE IF NodeAt(b, b.sel).expanded THEN collapse_index(b, b.sel) ELSE select_parent(b)
row_at(b, row) == visible_node_at(b, row + b.top)
TreeDown(b, row, onExpander) ==
    LET hit == row_at(b, row)
    IN IF hit = Nil THEN [b EXCEPT !.pressed = Nil]
       ELSE IF onExpander /\ NodeAt(b, hit).kids THEN toggle_index([b EXCEPT !.pressed = Nil], hit)
       ELSE [b EXCEPT !.pressed = hit, !.sel = hit]

-----------------------------------------------------------------------------
(* FileView.  *)
icon_columns(width) == IF width < 2 THEN 1 ELSE width \div 2
content_height(b, width) ==
    LET n == Len(b.items)
    IN CASE b.mode = "icons" -> 2 * ((n + icon_columns(width) - 1) \div icon_columns(width))
         [] b.mode = "list" -> n
         [] OTHER -> 1 + n
max_scroll_for_width(b, width) == TopOf(content_height(b, width) - ViewRows)
content_width(b) == IF max_scroll_for_width(b, b.wide) > 0 THEN b.wide - 1 ELSE b.wide
max_scroll(b) == max_scroll_for_width(b, content_width(b))
scroll_to(b, y) == [b EXCEPT !.fscroll = Bounded(y, max_scroll(b))]
(* The place of an item: left, top, width, height in the view.  *)
item_rect(b, i) ==
    LET cols == icon_columns(content_width(b))
    IN CASE b.mode = "icons" -> <<2 * (i % cols), 2 * (i \div cols) - b.fscroll, 2, 2>>
         [] b.mode = "list" -> <<0, i - b.fscroll, content_width(b), 1>>
         [] OTHER -> <<0, 1 + i - b.fscroll, content_width(b), 1>>
item_at_wide(b, x, y) ==
    LET cols == icon_columns(b.wide)
        i == CASE b.mode = "icons" -> IF x \div 2 >= cols THEN Nil ELSE ((y + b.fscroll) \div 2) * cols + x \div 2
               [] b.mode = "list" -> y + b.fscroll
               [] OTHER -> y + b.fscroll - 1
    IN IF (max_scroll(b) > 0 /\ x = b.wide - 1) \/ i < 0 \/ i >= Len(b.items) THEN Nil ELSE i
item_at(b, x, y) ==
    LET cols == icon_columns(content_width(b))
        i == CASE b.mode = "icons" -> IF x \div 2 >= cols THEN Nil ELSE ((y + b.fscroll) \div 2) * cols + x \div 2
               [] b.mode = "list" -> y + b.fscroll
               [] OTHER -> y + b.fscroll - 1
    IN IF (max_scroll(b) > 0 /\ x = b.wide - 1) \/ i < 0 \/ i >= Len(b.items) THEN Nil ELSE i
show_selected(b) ==
    LET r == item_rect(b, b.fsel)
        top == IF b.mode = "details" THEN 1 ELSE 0
    IN IF b.fsel = Nil THEN b
       ELSE IF r[2] < top THEN scroll_to(b, b.fscroll + r[2] - top)
       ELSE IF r[2] + r[4] > ViewRows THEN scroll_to(b, b.fscroll + r[2] + r[4] - ViewRows) ELSE b
select(b, i) == IF i = b.fsel THEN b ELSE show_selected([b EXCEPT !.fsel = i])
FileMove(b, delta) == select(b, Bounded((IF b.fsel = Nil THEN 0 ELSE b.fsel) + delta, Len(b.items) - 1))
FileStep(b) == IF b.mode = "icons" THEN icon_columns(content_width(b)) ELSE 1
FileKey(b, key) ==
    IF b.items = <<>> THEN b
    ELSE CASE key = "HOME" -> select(b, 0)
           [] key = "END" -> select(b, Len(b.items) - 1)
           [] key = "LEFT" -> FileMove(b, -1)
           [] key = "RIGHT" -> FileMove(b, 1)
           [] key = "UP" -> FileMove(b, -FileStep(b))
           [] key = "DOWN" -> FileMove(b, FileStep(b))
           [] key = "PGUP" -> scroll_to(b, b.fscroll - ViewRows)
           [] OTHER -> scroll_to(b, b.fscroll + ViewRows)
set_items(b, items) == [b EXCEPT !.items = items, !.fsel = Nil, !.fpressed = Nil, !.fscroll = 0, !.clicked = Nil]
load_dir(b, path) == set_items([b EXCEPT !.path = path], Listing(path))
set_mode(b, mode) == IF b.mode = mode THEN b ELSE [b EXCEPT !.mode = mode, !.fscroll = 0]
set_browser_rect(b, w) == [b EXCEPT !.wide = w, !.fscroll = AtMost(@, max_scroll([b EXCEPT !.wide = w]))]
FileDown(b, x, y) == [b EXCEPT !.fpressed = item_at(b, x, y), !.fsel = item_at(b, x, y)]

-----------------------------------------------------------------------------
(* NavState and the handlers of the file manager.  *)
current(b) == b.hist[b.pos]
record(b, path) ==
    LET kept == SubSeq(b.hist, 1, b.pos)
        room == IF Len(kept) = MaxHistory THEN Tail(kept) ELSE kept
    IN IF current(b) = path THEN b ELSE [b EXCEPT !.hist = Append(room, path), !.pos = Len(room) + 1]
navigate(b, path, keep) == select_path(IF keep THEN record(load_dir(b, path), path) ELSE load_dir(b, path), path)
TravelLost(b, to) == IF Exists(b.hist[to]) THEN navigate([b EXCEPT !.pos = to], b.hist[to], FALSE) ELSE [b EXCEPT !.pos = to]
Travel(b, to) == IF Exists(b.hist[to]) THEN navigate([b EXCEPT !.pos = to], b.hist[to], FALSE) ELSE b
refresh_current(b) ==
    LET f == IF Exists(b.path) THEN load_dir(b, b.path) ELSE b IN select_path(load_root(f), current(b))
IsFolder(path) == path \in ToSet(BrowseDirs)

(* The program opens on the root; one directory may have been visited since.  *)
BrowseInit ==
    /\ folders = StartDirs /\ browsed = 0
    /\ \E k \in {"popui", "lib"}, w \in ViewWidths, m \in Modes, visited \in StartDirs \cup {<<>>} :
         br = navigate(load_root(load_dir([kit |-> k, nodes |-> <<>>, sel |-> Nil, pressed |-> Nil, top |-> 0, path |-> <<>>,
                items |-> <<>>, fsel |-> Nil, fpressed |-> Nil, clicked |-> Nil, mode |-> m, fscroll |-> 0, wide |-> w,
                hist |-> << <<>> >>, pos |-> 1], <<>>)), visited, TRUE)
BrBecome(b) == br' = b /\ UNCHANGED folders
Goes(path) == Exists(path) /\ BrBecome(navigate(br, path, TRUE))
BrowseKeys == {"UP", "DOWN", "HOME", "END", "PGUP", "PGDN", "LEFT", "RIGHT"}
TreeUp(row) ==
    LET hit == row_at(br, row)
        b == [br EXCEPT !.pressed = Nil, !.sel = IF hit = br.pressed THEN hit ELSE @]
    IN br.pressed # Nil /\ (IF hit = br.pressed /\ br.kit = "popui" /\ Exists(NodeAt(br, hit).path)
                            THEN BrBecome(navigate(b, NodeAt(br, hit).path, TRUE)) ELSE BrBecome(b))
FileUp(x, y, fast) ==
    LET hit == item_at(br, x, y)
        again == hit = br.clicked /\ fast
        b == [br EXCEPT !.fpressed = Nil, !.clicked = IF hit # br.fpressed THEN @ ELSE IF again THEN Nil ELSE hit]
    IN /\ br.fpressed # Nil
       /\ IF hit = br.fpressed /\ again /\ br.kit = "popui" /\ Exists(br.items[hit + 1]) /\ IsFolder(br.items[hit + 1])
          THEN BrBecome(navigate(b, br.items[hit + 1], TRUE)) ELSE BrBecome(b)
tree_key(key) == BrBecome(TreeKey(br, key))
tree_down(row, onExpander) == BrBecome(TreeDown(br, row, onExpander))
tree_bar(y) == tree_max_scroll(br) > 0 /\ BrBecome(tree_scroll_to(br, y))
tree_context(row) == br.kit = "popui" /\ BrBecome(ensure_selected_visible([br EXCEPT !.sel = row_at(br, row)]))
tree_enter == br.kit = "popui" /\ br.sel # Nil /\ Goes(NodeAt(br, br.sel).path)
file_key(key) == BrBecome(FileKey(br, key))
file_down(x, y) == BrBecome(FileDown(br, x, y))
file_context(x, y) == br.kit = "popui" /\ BrBecome(select(br, item_at(br, x, y)))
file_bar(y) == max_scroll(br) > 0 /\ BrBecome(scroll_to(br, y))
file_enter == br.kit = "popui" /\ br.fsel # Nil /\ IsFolder(br.items[br.fsel + 1]) /\ Goes(br.items[br.fsel + 1])
view_mode(m) == BrBecome(set_mode(br, m))
resize_browser(w) == BrBecome(set_browser_rect(br, w))
back == br.kit = "popui" /\ br.pos > 1 /\ BrBecome(Travel(br, br.pos - 1))
forward == br.kit = "popui" /\ br.pos < Len(br.hist) /\ BrBecome(Travel(br, br.pos + 1))
go_up == br.kit = "popui" /\ current(br) # <<>> /\ Goes(Front(current(br)))
go(path) == br.kit = "popui" /\ Goes(path)
refresh == br.kit = "popui" /\ BrBecome(refresh_current(br))
make_dir(q) == q \notin folders /\ Exists(Front(q)) /\ folders' = folders \cup {q} /\ UNCHANGED br
remove_dir(q) == q \in folders /\ SubDirs(q) = {} /\ folders' = folders \ {q} /\ UNCHANGED br

BrowseNext ==
    /\ browsed < MaxBrowse /\ browsed' = browsed + 1
    /\ \/ \E key \in BrowseKeys : tree_key(key) \/ file_key(key)
       \/ \E row \in 0..TreeRows - 1 : TreeUp(row) \/ tree_context(row) \/ \E e \in BOOLEAN : tree_down(row, e)
       \/ \E y \in 0..3 : tree_bar(y) \/ file_bar(y)
       \/ \E x \in 0..br.wide - 1, y \in 0..ViewRows - 1 :
            file_down(x, y) \/ file_context(x, y) \/ \E fast \in BOOLEAN : FileUp(x, y, fast)
       \/ \E m \in Modes : view_mode(m)
       \/ \E w \in ViewWidths : resize_browser(w)
       \/ tree_enter \/ file_enter \/ back \/ forward \/ go_up \/ refresh
       \/ \E q \in ToSet(BrowseDirs) : go(q) \/ make_dir(q) \/ remove_dir(q)

BrowseSpec == BrowseInit /\ [][BrowseNext]_browseVars

-----------------------------------------------------------------------------
(* The directory shown is the one the history is at, also after going back to a
   directory that is gone and after the history has dropped its oldest entry.  *)
HistoryIsShown == br.path = current(br)

(* However it is expanded, collapsed and refreshed while the disk changes, the tree
   is a preorder: a node follows its parent with only descendants of the parent
   between them, no directory is listed twice, and the selection is a node.  *)
TreeIsPreorder ==
    /\ \A i \in 1..LastNode(br) :
         \E p \in 0..i - 1 : /\ NodeAt(br, p).path = Front(NodeAt(br, i).path) /\ NodeAt(br, p).loaded
                             /\ \A k \in p + 1..i : IsPrefix(NodeAt(br, p).path, NodeAt(br, k).path)
    /\ \A i, j \in 0..LastNode(br) : NodeAt(br, i).path = NodeAt(br, j).path => i = j
    /\ br.sel \in {Nil} \cup 0..LastNode(br)

(* A point of the view belongs to the item that is drawn there, and to none where
   nothing is drawn; the header of the details covers what is scrolled under it.  *)
PointHitsDrawnItem ==
    \A x \in 0..br.wide - 1, y \in 0..ViewRows - 1 :
        LET over == {i \in 0..Len(br.items) - 1 : LET r == item_rect(br, i)
                        IN x \in r[1]..r[1] + r[3] - 1 /\ y \in r[2]..r[2] + r[4] - 1 /\ ~(max_scroll(br) > 0 /\ x = br.wide - 1)}
        IN (br.mode = "details" /\ y = 0) \/ over = {item_at(br, x, y)} \ {Nil}

(* After a navigation the directory, if the tree lists it, is selected in the tree and
   its row is in view, even when it was collapsed away or scrolled out.  *)
NavigationIsShown ==
    [][br'.path # br.path /\ (\E i \in 0..LastNode(br)' : NodeAt(br', i).path = br'.path)
       => /\ NodeAt(br', br'.sel).path = br'.path
          /\ visible_position_of(br', br'.sel) \in br'.top..br'.top + TreeRows - 1]_browseVars
=============================================================================
