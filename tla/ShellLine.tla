----------------------------- MODULE ShellLine -----------------------------
(* A command line of the user shell, from characters to the commands that run:
   tokenize and parse_line (apps/shell/src/parser.rs) and the connectors that
   interpret (executor.rs) follows.

   A character is one of the classes tokenize tells apart: "a" stands for any
   ordinary character, "2" for a digit, "_" for a blank.  *)
EXTENDS Naturals, Sequences, SequencesExt, FiniteSets, Tables

CONSTANTS MaxChars,   \* length of the lines that are tokenized
          MaxTokens,  \* length of the token sequences that are parsed
          MaxCommands \* command lines interpreted in a run

Chars == {"a", "2", "_", "'", "q", "b", ";", "|", "&", ">"}  \* q: double quote, b: backslash
Tokens == {"word", "pipe", "semi", "and", "or", "bg", "redir", "dup"}

VARIABLES text,    \* characters typed so far, to be tokenized
          toks,    \* tokens so far, to be parsed
          left,    \* the command groups interpret has still to look at
          status,  \* interpret's status: 0 is success
          prev,    \* the connector before the next group
          ran,     \* what interpret did with each group so far
          count    \* lines interpreted

lineVars == <<text, toks, left, status, prev, ran, count>>

-----------------------------------------------------------------------------
(* tokenize, one character at a time.  st.skip marks a character the previous
   one consumed; a token keeps the place it starts at only through its order. *)
Start == [mode |-> "plain", cur |-> <<>>, started |-> FALSE, out |-> <<>>, skip |-> FALSE, err |-> FALSE]
flush_word(st) ==
    IF st.started THEN [st EXCEPT !.out = Append(@, "word"), !.started = FALSE, !.cur = <<>>] ELSE st
InWord(st, c) == [st EXCEPT !.started = TRUE, !.cur = Append(@, c)]
Emit(st, tok, two) == [flush_word(st) EXCEPT !.out = Append(@, tok), !.skip = two]
FdPrefix(st) == st.started /\ st.cur # <<>> /\ \A k \in DOMAIN st.cur : st.cur[k] = "2"
CharAt(s, k) == IF k \in DOMAIN s THEN s[k] ELSE "end"

Dup(st, s, k) == IF CharAt(s, k + 2) # "2" THEN [st EXCEPT !.err = TRUE]
                 ELSE [st EXCEPT !.out = Append(@, "dup"), !.mode = "dup", !.skip = TRUE]
Redirect(st, s, k) ==
    LET f == IF FdPrefix(st) THEN [st EXCEPT !.started = FALSE, !.cur = <<>>] ELSE flush_word(st)
    IN CASE CharAt(s, k + 1) = ">" -> [f EXCEPT !.out = Append(@, "redir"), !.skip = TRUE]
         [] CharAt(s, k + 1) = "&" -> Dup(f, s, k)
         [] OTHER -> [f EXCEPT !.out = Append(@, "redir")]

Plain(st, s, k) ==
    CASE s[k] = "'" -> [st EXCEPT !.mode = "single", !.started = TRUE]
      [] s[k] = "q" -> [st EXCEPT !.mode = "double", !.started = TRUE]
      [] s[k] = "b" -> IF CharAt(s, k + 1) = "end" THEN [st EXCEPT !.err = TRUE]
                       ELSE [InWord(st, s[k + 1]) EXCEPT !.skip = TRUE]
      [] s[k] = "_" -> flush_word(st)
      [] s[k] = ";" -> Emit(st, "semi", FALSE)
      [] s[k] = "|" -> IF CharAt(s, k + 1) = "|" THEN Emit(st, "or", TRUE) ELSE Emit(st, "pipe", FALSE)
      [] s[k] = "&" -> IF CharAt(s, k + 1) = "&" THEN Emit(st, "and", TRUE) ELSE Emit(st, "bg", FALSE)
      [] s[k] = ">" -> Redirect(st, s, k)
      [] OTHER -> InWord(st, s[k])
Single(st, s, k) == IF s[k] = "'" THEN [st EXCEPT !.mode = "plain"] ELSE InWord(st, s[k])
DoubleEndsAtSpace(st, s, k) ==
    IF s[k] \in {"q", "_"} THEN [st EXCEPT !.mode = "plain"] ELSE InWord(st, s[k])
Double(st, s, k) ==
    CASE s[k] = "q" -> [st EXCEPT !.mode = "plain"]
      [] s[k] = "b" -> IF CharAt(s, k + 1) = "end" THEN [st EXCEPT !.err = TRUE]
                       ELSE [InWord(st, s[k + 1]) EXCEPT !.skip = TRUE]
      [] OTHER -> InWord(st, s[k])
(* The digits after n>& belong to the token; the first other character is read
   as usual.  *)
Step(st, s, k) ==
    IF st.err THEN st
    ELSE IF st.skip THEN [st EXCEPT !.skip = FALSE]
    ELSE CASE st.mode = "dup" -> IF s[k] = "2" THEN st ELSE Plain([st EXCEPT !.mode = "plain"], s, k)
           [] st.mode = "single" -> Single(st, s, k)
           [] st.mode = "double" -> Double(st, s, k)
           [] OTHER -> Plain(st, s, k)
tokenize(s) ==
    LET end == flush_word(FoldLeftDomain(LAMBDA st, k : Step(st, s, k), Start, s))
    IN IF end.err \/ end.mode \in {"single", "double"} THEN <<"error">> ELSE end.out

-----------------------------------------------------------------------------
(* parse_line: finish_cmd and finish_group as the fold over the tokens goes.
   A command counts its words and redirections.  *)
NoCmd == [args |-> 0, redirs |-> 0]
ParseStart == [groups |-> <<>>, pipe |-> 0, cmd |-> NoCmd, want |-> FALSE, err |-> FALSE]
Failed(p) == [p EXCEPT !.err = TRUE]
RedirIsEnough(p) == IF p.cmd = NoCmd THEN Failed(p) ELSE [p EXCEPT !.pipe = @ + 1, !.cmd = NoCmd]
finish_cmd(p) == IF p.cmd.args = 0 THEN Failed(p) ELSE [p EXCEPT !.pipe = @ + 1, !.cmd = NoCmd]
finish_group(p, bgd, conn) ==
    LET f == finish_cmd(p)
    IN IF f.err THEN f
       ELSE [f EXCEPT !.groups = Append(@, [len |-> f.pipe, bg |-> bgd, conn |-> conn]), !.pipe = 0]
ParseStep(p, t) ==
    IF p.err THEN p
    ELSE IF p.want THEN IF t = "word" THEN [p EXCEPT !.want = FALSE, !.cmd.redirs = @ + 1] ELSE Failed(p)
    ELSE CASE t = "word" -> [p EXCEPT !.cmd.args = @ + 1]
           [] t = "redir" -> [p EXCEPT !.want = TRUE]
           [] t = "dup" -> [p EXCEPT !.cmd.redirs = @ + 1]
           [] t = "pipe" -> finish_cmd(p)
           [] t = "semi" -> finish_group(p, FALSE, "always")
           [] t = "bg" -> finish_group(p, TRUE, "always")
           [] t \in {"and", "or"} -> finish_group(p, FALSE, t)
ParseEnd(p, ts) ==
    IF p.err \/ p.want THEN Failed(p)
    ELSE LET f == IF p.cmd # NoCmd \/ p.pipe > 0 THEN finish_group(p, FALSE, "always") ELSE p
         IN IF ts # <<>> /\ Last(ts) \in {"and", "or", "pipe"} THEN Failed(f) ELSE f
parse_line(ts) == ParseEnd(FoldLeft(ParseStep, ParseStart, ts), ts)

-----------------------------------------------------------------------------
LineInit ==
    /\ text = <<>> /\ toks = <<>>
    /\ left = <<>> /\ status = 0 /\ prev = "always" /\ ran = <<>>
    /\ count = 0

typeChar(c) ==
    /\ toks = <<>> /\ count = 0 /\ Len(text) < MaxChars
    /\ text' = Append(text, c)
    /\ UNCHANGED <<toks, left, status, prev, ran, count>>
addToken(t) ==
    /\ text = <<>> /\ left = <<>> /\ count < MaxCommands /\ Len(toks) < MaxTokens
    /\ toks' = Append(toks, t)
    /\ UNCHANGED <<text, left, status, prev, ran, count>>

(* interpret: a line that does not parse sets the status to 2.  *)
enter ==
    /\ text = <<>> /\ left = <<>> /\ toks # <<>>
    /\ LET p == parse_line(toks)
       IN /\ status' = IF p.err THEN 2 ELSE status
          /\ left' = IF p.err THEN <<>> ELSE p.groups
    /\ prev' = "always" /\ ran' = <<>>
    /\ toks' = <<>> /\ count' = count + 1
    /\ UNCHANGED text

(* One group of the line; s is the status execute_group returns, 0 at once for
   a pipeline it leaves in the background.  A group that is passed over leaves
   the status alone.  *)
Runs(c) == CASE c = "always" -> TRUE [] c = "and" -> status = 0 [] c = "or" -> status # 0
SkipFails(go, g, s) == IF ~go THEN 1 ELSE IF g.bg THEN 0 ELSE s
StatusAfter(go, g, s) == IF ~go THEN status ELSE IF g.bg THEN 0 ELSE s
interpret(s) ==
    /\ left # <<>>
    /\ LET g == Head(left)
           go == Runs(prev)
       IN /\ status' = StatusAfter(go, g, s)
          /\ ran' = Append(ran, [conn |-> prev, run |-> go, status |-> status'])
          /\ prev' = g.conn
    /\ left' = Tail(left)
    /\ UNCHANGED <<text, toks, count>>

LineNext ==
    \/ \E c \in Chars : typeChar(c)
    \/ \E t \in Tokens : addToken(t)
    \/ enter
    \/ \E s \in {0, 1} : interpret(s)
LineSpec == LineInit /\ [][LineNext]_lineVars

-----------------------------------------------------------------------------
(* Quoting is opaque: a line in which the character after a backslash is
   replaced by an ordinary one, or every character between two equal quotes of
   a line with no other quote or backslash, has the same tokens.  Digits are
   kept: a quoted number before > is still taken for a descriptor.  *)
EscapedAt(s, k) == s[k] = "b" /\ k < Len(s) /\ s[k + 1] # "2" /\ \A j \in 1..k - 1 : s[j] \notin {"b", "'", "q"}
OnlyQuotes(s, i, j) == i < j /\ s[i] \in {"'", "q"} /\ s[j] = s[i]
                       /\ \A k \in DOMAIN s \ {i, j} :
                              s[k] \notin {"b", s[i]} /\ (k \notin i..j => s[k] \notin {"'", "q"})
QuotingIsOpaque ==
    /\ \A k \in DOMAIN text : EscapedAt(text, k) =>
            tokenize(text) = tokenize([text EXCEPT ![k + 1] = "a"])
    /\ \A i, j \in DOMAIN text : OnlyQuotes(text, i, j) =>
            tokenize(text) = tokenize([k \in DOMAIN text |-> IF i < k /\ k < j /\ text[k] # "2" THEN "a" ELSE text[k]])

(* parse_line accepts exactly the lines of the grammar: every segment between
   two separators has a word that is not the path of a redirection, every
   redirection has its path, and only a line that ends in ; or & may end in an
   empty segment.  It makes one group per separator other than a pipe.  *)
Separators == {"pipe", "semi", "bg", "and", "or"}
SegmentOK(ts, a, b) ==
    /\ \A i \in a..b : ts[i] = "redir" => i < b /\ ts[i + 1] = "word"
    /\ \E i \in a..b : ts[i] = "word" /\ (i = a \/ ts[i - 1] # "redir")
Segments(ts) ==
    {<<a, b>> \in (1..Len(ts) + 1) \X (0..Len(ts)) :
        /\ b >= a - 1
        /\ a = 1 \/ ts[a - 1] \in Separators
        /\ b = Len(ts) \/ ts[b + 1] \in Separators
        /\ \A i \in a..b : ts[i] \notin Separators}
InGrammar(ts) ==
    \A s \in Segments(ts) :
        \/ SegmentOK(ts, s[1], s[2])
        \/ s[1] > Len(ts) /\ (ts = <<>> \/ Last(ts) \in {"semi", "bg"})
GroupCount(ts) == Cardinality({i \in DOMAIN ts : ts[i] \in Separators \ {"pipe"}})
                  + (IF ts = <<>> \/ Last(ts) \in {"semi", "bg"} THEN 0 ELSE 1)
ParseMatchesGrammar ==
    LET p == parse_line(toks)
    IN /\ ~p.err <=> InGrammar(toks)
       /\ ~p.err => Len(p.groups) = GroupCount(toks)

(* A group after && runs exactly when the last group that ran succeeded, one
   after || exactly when it failed; groups passed over in between change
   nothing.  *)
LastRun(k) == CHOOSE j \in 1..k - 1 : ran[j].run /\ \A i \in j + 1..k - 1 : ~ran[i].run
ConnectorsFollowLastRun ==
    \A k \in DOMAIN ran :
        /\ ran[k].conn = "and" => (ran[k].run <=> ran[LastRun(k)].status = 0)
        /\ ran[k].conn = "or" => (ran[k].run <=> ran[LastRun(k)].status # 0)
=============================================================================
