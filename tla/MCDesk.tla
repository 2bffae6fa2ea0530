------------------------------- MODULE MCDesk --------------------------------
(***************************************************************************)
(* Instances for TLC of the programs and how they are seen: the bytes in   *)
(* the pipes between them, the picture the window manager composes, the    *)
(* surface of a window, the file browser, the text editor and the toolkit  *)
(* that draws them; the prompt and the grammar of the shell and the screen *)
(* of its terminal.                                                        *)
(*                                                                         *)
(* The components of this module share no variable and call each other     *)
(* only through what each of them models of the others, so their runs are  *)
(* checked side by side: `part` chooses one of them at the start and the   *)
(* others stay where they are. A property of one component holds of every  *)
(* behaviour here exactly when it holds of that component's own            *)
(* specification.                                                          *)
(***************************************************************************)
EXTENDS Descriptors, Compositor, WindowSurface, FileBrowser, TextEdit, Toolkit, ShellLine,
        LineInput, TermScreen

VARIABLE part   \* the component that runs

Streaming == {"pipe", "close", "read", "write", "spawn"}

mcVars == <<part, vars, compVars, surfaceVars, browseVars, editVars, uiVars, lineVars, inputVars,
            screenVars>>

CompRects == {Rect(0, 0, 3, 1), Rect(1, 0, 1, 2)}
CompCursors == {<<1, 1>>, <<2, 1>>}
BrDirs == <<<<"a">>, <<"b">>, <<"a", "a">>, <<"a", "b">>>>
BrFiles == <<<<"f">>>>
BrStart == {<<"a">>, <<"b">>, <<"a", "a">>}
SetTexts == {<<"a", "a">>, <<"W", "w", "n", "a">>, <<"a", "W", "w", "a">>, <<"n", "a", "a", "n">>}
EditorSizes == {<<1, 1>>, <<2, 2>>}
TkRects == [n \in {"narrow", "wide"} |->
    IF n = "narrow" THEN [menu |-> {1, 2}, tool |-> {3}, view |-> {4}]
    ELSE [menu |-> {1, 2, 5}, tool |-> {3}, view |-> {4, 6}]]
TkHeadings == {1, 2}
TkPopups == [h \in {1, 2, 4, 6} |-> CASE h = 1 -> <<3, 4>>
                                  [] h = 2 -> <<4, 6>>
                                  [] h = 4 -> <<4, 3>>
                                  [] OTHER -> <<6, 4>>]
TermSizes == {<<3, 3>>, <<2, 3>>, <<4, 2>>}
EditLines == {<<"a", "b">>, <<"a", "b", "c", "d">>, <<"a", "_", "b", "c">>, <<"a", "b", "_", "c">>}

(* Only the chosen component leaves its initial state; where a component has several,
   the others take one of them.  *)
MCInit ==
    /\ part \in {"pipe", "compositor", "surface", "browser", "edit", "toolkit", "line", "input",
                "screen"}
    /\ Init
    /\ CompInit
    /\ part # "compositor" => cursor = CHOOSE c \in Cursors : TRUE
    /\ SurfaceInit
    /\ part # "surface" => srf.shared /\ srf.size = CHOOSE n \in SurfaceSizes : TRUE
    /\ BrowseInit
    /\ part # "browser" => /\ br.kit = "lib" /\ br.path = <<>>
                           /\ br.wide = CHOOSE w \in ViewWidths : TRUE
                           /\ br.mode = CHOOSE m \in Modes : TRUE
    /\ EditInit
    /\ part # "edit" => ed = EdBlank("area", FALSE, CHOOSE s \in EditSizes : TRUE)
    /\ UiInit
    /\ part # "toolkit" => ui.size = CHOOSE n \in DOMAIN UiRects : TRUE
    /\ LineInit
    /\ InputInit
    /\ ScreenInit
    /\ part # "screen" => scr = LET z == CHOOSE z \in Sizes : TRUE IN NewScreen(z[1], z[2])

MCNext ==
    \/ /\ part = "pipe" /\ Next
       /\ UNCHANGED <<part, compVars, surfaceVars, browseVars, editVars, uiVars, lineVars,
                       inputVars, screenVars>>
    \/ /\ part = "compositor" /\ CompNext
       /\ UNCHANGED <<part, vars, surfaceVars, browseVars, editVars, uiVars, lineVars,
                       inputVars, screenVars>>
    \/ /\ part = "surface" /\ SurfaceNext
       /\ UNCHANGED <<part, vars, compVars, browseVars, editVars, uiVars, lineVars, inputVars,
                       screenVars>>
    \/ /\ part = "browser" /\ BrowseNext
       /\ UNCHANGED <<part, vars, compVars, surfaceVars, editVars, uiVars, lineVars, inputVars,
                       screenVars>>
    \/ /\ part = "edit" /\ EditNext
       /\ UNCHANGED <<part, vars, compVars, surfaceVars, browseVars, uiVars, lineVars,
                       inputVars, screenVars>>
    \/ /\ part = "toolkit" /\ UiNext
       /\ UNCHANGED <<part, vars, compVars, surfaceVars, browseVars, editVars, lineVars,
                       inputVars, screenVars>>
    \/ /\ part = "line" /\ LineNext
       /\ UNCHANGED <<part, vars, compVars, surfaceVars, browseVars, editVars, uiVars,
                       inputVars, screenVars>>
    \/ /\ part = "input" /\ InputNext
       /\ UNCHANGED <<part, vars, compVars, surfaceVars, browseVars, editVars, uiVars,
                       lineVars, screenVars>>
    \/ /\ part = "screen" /\ ScreenNext
       /\ UNCHANGED <<part, vars, compVars, surfaceVars, browseVars, editVars, uiVars,
                       lineVars, inputVars>>

MCSpec == MCInit /\ [][MCNext]_mcVars

-----------------------------------------------------------------------------
(* After every composition each cell of the screen shows the window on top of it,
   also after moves that copy pixels and flips that drop the lock (wm.rs); and a
   window shows what its program drew, which never draws into the buffer being
   scanned (popugos/src/window.rs).  *)
ScreenIsCurrent ==
    /\ part = "compositor" => PixelsCurrent
    /\ part = "surface" => PictureIsShown /\ BackNotScanned

(* Widgets (popui, lib/src/ui, filemanager): the file browser shows where its history
   is, its tree is a preorder and a point hits the item drawn there; the caret and
   the highlight of a text area stand on whole characters; the window is what drawing
   everything would give and a button is down only while it has the mouse.  *)
WidgetsSound ==
    /\ part = "browser" => HistoryIsShown /\ TreeIsPreorder /\ PointHitsDrawnItem
    /\ part = "edit" => CaretOnCharacter /\ HighlightIsSelection
    /\ part = "toolkit" => WindowIsCurrent /\ DownIsCaptured

(* The prompt (apps/shell, apps/terminal): quoting is opaque, a parse is what the
   grammar says and connectors follow the status of the last command that ran
   (parser.rs, main.rs); keys arrive in order however their bytes are cut into reads,
   the byte editor edits whole characters, the draft survives a walk through the
   history, and the cursor of the terminal stays on its grid.  *)
PromptSound ==
    /\ part = "line" => QuotingIsOpaque /\ ParseMatchesGrammar /\ ConnectorsFollowLastRun
    /\ part = "input" => KeysArrive /\ EditsCharacters /\ DraftIsRestored
    /\ part = "screen" => CursorOnScreen

(* What is shown follows what happens: the file browser shows the directory it
   navigates to (select_path), the editor scrolls so that the caret it moved is in
   view (ensure_cursor_visible), and the terminal keeps its text when it is resized
   and replaces exactly the line it redraws (screen.rs).  *)
ViewsFollow ==
    /\ NavigationIsShown /\ CaretFollowsEdits /\ ResizeKeepsText /\ RedrawIsExact
=============================================================================
