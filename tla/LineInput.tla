----------------------------- MODULE LineInput -----------------------------
(* Typing at the shell's prompt: the terminal turns a key into bytes
   (apps/terminal/src/main.rs, key_bytes), the bytes cross the pty and arrive in
   pieces of any size, the shell's InputDecoder turns them back into keys and
   handle_key edits the line and walks the history (apps/shell/src/main.rs,
   line_editor.rs).

   The text is a sequence of bytes and the cursor a byte offset, as in
   LineEditor.  "a" is a letter and "_" a blank; a character of two bytes is
   "u1" followed by "u2".  The bytes a letter ends an escape sequence with are
   letters too, so a lost ESC would type them.  *)
EXTENDS Naturals, Sequences, SequencesExt, Tables

CONSTANTS MaxKeys,    \* keys typed in a run
          MaxInput,   \* MAX_INPUT: a longer line takes no more characters
          HistoryMax  \* CMD_HISTORY_MAX

VARIABLES sent,     \* keys typed
          wire,     \* bytes on their way from the terminal to the shell
          esc,      \* InputDecoder.esc
          utf8,     \* InputDecoder.utf8: the bytes of a character so far
          keysGot,      \* keys decoded
          lineText, lineCursor,          \* LineEditor
          hist, hist_pos, draft, \* the history, the entry shown (0: none) and the line set aside
          ideal,                 \* the line as the keys should have made it: characters before and after the cursor
          typed                  \* the line as the last edit left it

inputVars == <<sent, wire, esc, utf8, keysGot, lineText, lineCursor, hist, hist_pos, draft, ideal, typed>>

-----------------------------------------------------------------------------
(* key_bytes: one byte for a character or a control key, an escape sequence for
   the others.  *)
LineKeys == {"a", "_", "wide", "Enter", "Backspace", "Delete", "Left", "Home", "Up", "Down", "KillBefore", "KillAfter", "KillWord"}
key_bytes(k) ==
    CASE k \in {"a", "_"} -> <<k>>
      [] k = "wide" -> <<"u1", "u2">>
      [] k = "Up" -> <<"esc", "[", "A">>
      [] k = "Down" -> <<"esc", "[", "B">>
      [] k = "Left" -> <<"esc", "[", "D">>
      [] k = "Home" -> <<"esc", "[", "H">>
      [] k = "Delete" -> <<"esc", "[", "3", "~">>
      [] OTHER -> <<k>>

press(k) ==
    /\ Len(sent) < MaxKeys /\ Len(wire) <= 1
    /\ sent' = Append(sent, k)
    /\ wire' = wire \o key_bytes(k)
    /\ UNCHANGED <<esc, utf8, keysGot, lineText, lineCursor, hist, hist_pos, draft, ideal, typed>>

-----------------------------------------------------------------------------
(* LineEditor on bytes.  *)
IsBoundary(s, i) == i = Len(s) \/ s[i + 1] # "u2"
Cut(s, i, j) == SubSeq(s, 1, i) \o SubSeq(s, j + 1, Len(s))
LinePrev(s, c) == c - 1
prev_boundary(s, c) == IF IsBoundary(s, c - 1) THEN c - 1 ELSE c - 2
next_boundary(s, c) == IF IsBoundary(s, c + 1) THEN c + 1 ELSE c + 2

(* delete_prev_word: the blanks before the cursor, then the word before them. *)
BlankRun(s, c) == CHOOSE b \in 0..c : /\ \A i \in b + 1..c : s[i] = "_"
                                      /\ b = 0 \/ s[b] # "_"
WordRun(s, c) == CHOOSE b \in 0..c : /\ \A i \in b + 1..c : s[i] # "_"
                                     /\ b = 0 \/ s[b] = "_"
LineWordStart(s, c) == WordRun(s, BlankRun(s, c))

Bytes2(k) == IF k = "wide" THEN <<"u1", "u2">> ELSE <<k>>
EditInsert(k) ==
    /\ lineText' = SubSeq(lineText, 1, lineCursor) \o Bytes2(k) \o SubSeq(lineText, lineCursor + 1, Len(lineText))
    /\ lineCursor' = lineCursor + Len(Bytes2(k))
Cuts(i, j) == lineText' = Cut(lineText, i, j) /\ lineCursor' = i
MovesTo(c) == lineCursor' = c /\ UNCHANGED lineText
Shows(s) == lineText' = s /\ lineCursor' = Len(s)
Same == UNCHANGED <<lineText, lineCursor>>

(* The same keys on a line of characters: `b` before the cursor, `f` after. *)
Chars2(s) == SelectSeq(s, LAMBDA x : x # "u2")
FromBytes(s) == [b |-> Chars2(s), f |-> <<>>]
KeepWord(b) == LET n == Len(b)
                   BlanksTo == CHOOSE k \in 0..n : (\A i \in k + 1..n : b[i] = "_") /\ (k = 0 \/ b[k] # "_")
               IN CHOOSE k \in 0..BlanksTo : (\A i \in k + 1..BlanksTo : b[i] # "_") /\ (k = 0 \/ b[k] = "_")
Ideal(k, l) ==
    CASE k \in {"a", "_"} -> [l EXCEPT !.b = Append(@, k)]
      [] k = "wide" -> [l EXCEPT !.b = Append(@, "u1")]
      [] k = "Backspace" -> IF l.b = <<>> THEN l ELSE [l EXCEPT !.b = Front(@)]
      [] k = "Delete" -> IF l.f = <<>> THEN l ELSE [l EXCEPT !.f = Tail(@)]
      [] k = "Left" -> IF l.b = <<>> THEN l ELSE [b |-> Front(l.b), f |-> <<Last(l.b)>> \o l.f]
      [] k = "Home" -> [b |-> <<>>, f |-> l.b \o l.f]
      [] k = "KillBefore" -> [l EXCEPT !.b = <<>>]
      [] k = "KillAfter" -> [l EXCEPT !.f = <<>>]
      [] k = "KillWord" -> [l EXCEPT !.b = SubSeq(@, 1, KeepWord(@))]
      [] OTHER -> l

-----------------------------------------------------------------------------
(* handle_key.  An edit leaves the history (hist_pos becomes None) and keeps
   the draft; the cursor keys leave both alone, apart from ^A.  *)
Edit(k) ==
    \/ /\ k \in {"a", "_", "wide"}
       /\ IF Len(lineText) < MaxInput
          THEN EditInsert(k) /\ hist_pos' = 0 /\ ideal' = Ideal(k, ideal)
          ELSE Same /\ UNCHANGED <<hist_pos, ideal>>
       /\ UNCHANGED <<hist, draft>>
    \/ /\ k \in {"Backspace", "Delete", "KillBefore", "KillAfter", "KillWord"}
       /\ IF \/ k \in {"Backspace", "KillBefore", "KillWord"} /\ lineCursor = 0
             \/ k \in {"Delete", "KillAfter"} /\ lineCursor = Len(lineText)
          THEN Same /\ UNCHANGED hist_pos
          ELSE /\ CASE k = "Backspace" -> Cuts(prev_boundary(lineText, lineCursor), lineCursor)
                    [] k = "Delete" -> Cuts(lineCursor, next_boundary(lineText, lineCursor))
                    [] k = "KillBefore" -> Cuts(0, lineCursor)
                    [] k = "KillAfter" -> Cuts(lineCursor, Len(lineText))
                    [] k = "KillWord" -> Cuts(LineWordStart(lineText, lineCursor), lineCursor)
               /\ hist_pos' = 0
       /\ ideal' = Ideal(k, ideal)
       /\ UNCHANGED <<hist, draft>>
    \/ /\ k \in {"Left", "Home"}
       /\ IF lineCursor = 0 THEN Same ELSE MovesTo(IF k = "Home" THEN 0 ELSE prev_boundary(lineText, lineCursor))
       /\ ideal' = Ideal(k, ideal)
       /\ UNCHANGED <<hist, hist_pos, draft>>

(* Up keeps the line being typed as the draft the first time; Down past the
   newest entry brings it back.  *)
WalkUp == IF hist_pos = 0 THEN Len(hist) ELSE IF hist_pos = 1 THEN 1 ELSE hist_pos - 1
DraftAlways == lineText
DraftOnUp == IF hist_pos = 0 THEN lineText ELSE draft
Walk(k) ==
    /\ k \in {"Up", "Down"}
    /\ IF (k = "Up" /\ hist = <<>>) \/ (k = "Down" /\ hist_pos = 0)
       THEN Same /\ UNCHANGED <<hist_pos, draft, ideal>>
       ELSE LET p == IF k = "Up" THEN WalkUp ELSE IF hist_pos < Len(hist) THEN hist_pos + 1 ELSE 0
            IN /\ hist_pos' = p
               /\ draft' = IF k = "Up" THEN DraftOnUp ELSE draft
               /\ Shows(IF p = 0 THEN draft ELSE hist[p])
               /\ ideal' = FromBytes(lineText')
    /\ UNCHANGED hist

(* Enter: the line joins the history unless it is blank or repeats the newest
   entry; the oldest entry makes room.  *)
Remembered == IF Len(hist) = HistoryMax THEN Append(Tail(hist), lineText) ELSE Append(hist, lineText)
IsBlank == \A i \in DOMAIN lineText : lineText[i] = "_"
EnterKey(k) ==
    /\ k = "Enter"
    /\ hist' = IF IsBlank \/ (hist # <<>> /\ Last(hist) = lineText) THEN hist ELSE Remembered
    /\ hist_pos' = 0 /\ draft' = <<>>
    /\ Shows(<<>>)
    /\ ideal' = FromBytes(<<>>)

handle_key(k) ==
    /\ keysGot' = Append(keysGot, k)
    /\ Edit(k) \/ Walk(k) \/ EnterKey(k)
    /\ typed' = IF k \notin {"Up", "Down"} /\ hist_pos' = 0 THEN lineText' ELSE typed
NoKey == UNCHANGED <<keysGot, lineText, lineCursor, hist, hist_pos, draft, ideal, typed>>

(* InputDecoder::feed on one byte: inside a character, inside an escape
   sequence (a letter or ~ ends it), or at rest.  *)
Escapes == [A |-> "Up", B |-> "Down", D |-> "Left", H |-> "Home"]
EndsEarly(b) == b \in {"[", "~"}
Ended(b) == b \in {"A", "B", "D", "H", "a", "~"}
SequenceKey(s) == IF Len(s) = 3 /\ s[2] = "[" /\ s[3] \in DOMAIN Escapes THEN Escapes[s[3]]
                  ELSE IF s = <<"esc", "[", "3", "~">> THEN "Delete" ELSE "none"
(* At rest any other byte is a key of its own; the printable ones type.  *)
PlainKey(b) == IF b \in {"A", "B", "D", "H", "[", "3", "~"} THEN "a" ELSE b
feed ==
    /\ wire # <<>>
    /\ LET b == Head(wire)
       IN \/ /\ utf8 # <<>>
             /\ utf8' = <<>> /\ UNCHANGED esc
             /\ IF b = "u2" THEN handle_key("wide") ELSE NoKey
          \/ /\ utf8 = <<>> /\ esc # <<>>
             /\ esc' = IF Ended(b) THEN <<>> ELSE Append(esc, b)
             /\ IF Ended(b) /\ SequenceKey(Append(esc, b)) # "none"
                THEN handle_key(SequenceKey(Append(esc, b))) ELSE NoKey
             /\ UNCHANGED utf8
          \/ /\ utf8 = <<>> /\ esc = <<>>
             /\ esc' = IF b = "esc" THEN <<b>> ELSE <<>>
             /\ utf8' = IF b = "u1" THEN <<b>> ELSE <<>>
             /\ IF b \in {"esc", "u1", "u2"} THEN NoKey ELSE handle_key(PlainKey(b))
    /\ wire' = Tail(wire)
    /\ UNCHANGED sent

InputInit ==
    /\ sent = <<>> /\ wire = <<>> /\ esc = <<>> /\ utf8 = <<>> /\ keysGot = <<>>
    /\ lineText = <<>> /\ lineCursor = 0
    /\ hist = <<<<"a">>>> /\ hist_pos = 0 /\ draft = <<>>
    /\ ideal = FromBytes(<<>>) /\ typed = <<>>
InputNext == (\E k \in LineKeys : press(k)) \/ feed
InputSpec == InputInit /\ [][InputNext]_inputVars

-----------------------------------------------------------------------------
(* What was typed is what is decoded: however the bytes are cut into reads,
   the keys come out in order, none lost and none made up.  *)
KeysArrive == IsPrefix(keysGot, sent) /\ (wire = <<>> => keysGot = sent)

(* The byte editor edits characters: the text is always whole characters, the
   cursor stands between two of them ("always kept on a UTF-8 boundary"), and
   both are what the same keys do to a line of characters.  *)
EditsCharacters ==
    /\ Chars2(SubSeq(lineText, 1, lineCursor)) = ideal.b
    /\ Chars2(SubSeq(lineText, lineCursor + 1, Len(lineText))) = ideal.f
    /\ IsBoundary(lineText, lineCursor)

(* Walking up into the history and down again restores the line being typed:
   whenever no entry is shown, the line is the one the last edit left.  *)
DraftIsRestored == hist_pos = 0 => lineText = typed
=============================================================================
