------------------------------ MODULE Terminal ------------------------------
(***************************************************************************)
(* The terminal at the other end of the IOAdapter, as far as the line      *)
(* editor relies on it: the row the prompt is on, from the prompt's end,   *)
(* and the column of the terminal's cursor in it.  It is external to the   *)
(* program, and each operator is what one of the sequences it writes does. *)
(***************************************************************************)
EXTENDS Naturals, Sequences

CONSTANT Blank      \* what an unwritten cell shows

Screens(Glyph) == [row : Seq(Glyph), col : Nat]

FreshPrompt == [row |-> <<>>, col |-> 0]

(* The row made at least n cells long.                                     *)
Stretched(row, n) ==
    [i \in 1..(IF Len(row) < n THEN n ELSE Len(row)) |->
        IF i <= Len(row) THEN row[i] ELSE Blank]

(* Printable characters overwrite the row and move the cursor along.       *)
Written(scr, s) ==
    LET wide == Stretched(scr.row, scr.col + Len(s)) IN
    [row |-> [i \in 1..Len(wide) |->
                IF i \in (scr.col + 1)..(scr.col + Len(s)) THEN s[i - scr.col] ELSE wide[i]],
     col |-> scr.col + Len(s)]

(* Backspace characters and ESC [ n D; neither goes left of the prompt as  *)
(* long as the program counts its columns correctly.                       *)
MovedBack(scr, n) == [scr EXCEPT !.col = IF scr.col < n THEN 0 ELSE scr.col - n]

(* ESC [ C, and ESC O C, which the program sends for the same purpose.     *)
MovedForward(scr) == [scr EXCEPT !.col = scr.col + 1]

(* ESC [ K                                                                 *)
ErasedToEnd(scr) ==
    [scr EXCEPT !.row = SubSeq(scr.row, 1, IF scr.col < Len(scr.row) THEN scr.col ELSE Len(scr.row))]

(* ESC [ 2K, CR, the prompt and a text.                                    *)
Redrawn(s) == [row |-> s, col |-> Len(s)]

=============================================================================
