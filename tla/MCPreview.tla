------------------------------- MODULE MCPreview ------------------------------
(* A small instance of Preview, and of Ansi: glyphs with every reason not to be drawn as *)
(* they are. *)
EXTENDS Preview

MCText  == {"", "l", "busy"}
MCRaw   == {"A", " "}
MCBusy  == {"busy"}
MCKnown == {"A"}

\* A program with a title has come and gone.
MCPast ==
  LET ev(o, a) == [op |-> o, arg |-> a]
  IN {<<>>, <<ev("title", "A"), ev("push", ""), ev("enter", ""), ev("leave", "")>>}

MCGlyphs ==
  {Empty, Cell("a", "whole", "red", <<"m">>), Cell(Tab, "whole", Plain, <<>>),
   Cell(Tab, "whole", "red", <<"m">>), Cell("W", "wide", Hidden, <<>>),
   Cell("W", "wide", "red", <<"m">>), Cell(" ", "spacer", Hidden, <<>>),
   Cell(" ", "spacer", "red", <<>>), Cell(Tab, "spacer", "red", <<"m">>)}
MCFew == {Empty, Cell("a", "whole", "red", <<>>), Cell("W", "wide", "red", <<"m">>),
          Cell(" ", "spacer", "red", <<>>)}
MCGrid(lines, rows, offsets, cols) ==
  {[lines |-> l, rows |-> rows, offset |-> o, row |-> r, col |-> c[1], wrap |-> c[2],
    shown |-> ~c[2]] :
     l \in lines, o \in offsets, r \in 1 .. rows, c \in ((1 .. cols) \X {FALSE}) \cup {<<cols, TRUE>>}}

\* One row of three cells, two rows of two, and one row of two with a row of history.
MCGrids ==
  MCGrid([1 .. 1 -> [1 .. 3 -> MCGlyphs]], 1, {0}, 3)
    \cup MCGrid([1 .. 2 -> [1 .. 2 -> MCFew]], 2, {0}, 2)
    \cup MCGrid([1 .. 2 -> [1 .. 2 -> MCFew]], 1, {0, 1}, 2)
================================================================================
