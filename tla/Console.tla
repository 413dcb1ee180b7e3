------------------------------ MODULE Console -------------------------------
(***************************************************************************)
(* The text screen of kernel/drivers/vga.c and what forth_run echoes on it *)
(* (vm/core/forth.c), as operators.  A console c is the screen's cells     *)
(* from the top left, row by row, and the cursor; colours are left out.    *)
(***************************************************************************)
EXTENDS Integers, Sequences

CONSTANTS VGA_WIDTH, VGA_HEIGHT

ASSUME ScreenAssumption == /\ VGA_WIDTH \in Nat \ {0, 1}
                           /\ VGA_HEIGHT \in Nat \ {0, 1}

Cells == 0 .. VGA_WIDTH * VGA_HEIGHT - 1

vga_clear == [buffer |-> [i \in Cells |-> " "], row |-> 0, col |-> 0]

Cursor(c) == c.row * VGA_WIDTH + c.col

vga_scroll(c) ==
    IF c.row < VGA_HEIGHT THEN c
    ELSE [c EXCEPT !.buffer = [i \in Cells |-> IF i + VGA_WIDTH \in Cells
                                               THEN @[i + VGA_WIDTH] ELSE " "],
                   !.row = VGA_HEIGHT - 1]

\* To column k, or to the start of the next row.
Column(c, k) == IF k < VGA_WIDTH THEN [c EXCEPT !.col = k]
                ELSE [c EXCEPT !.col = 0, !.row = @ + 1]

\* A backspace blanks the cell before the cursor, but stops at column 0.
vga_putchar(c, ch) ==
    vga_scroll(
      CASE ch = "NL"  -> [c EXCEPT !.col = 0, !.row = @ + 1]
        [] ch = "CR"  -> [c EXCEPT !.col = 0]
        [] ch = "TAB" -> Column(c, ((c.col + 8) \div 8) * 8)
        [] ch = "BS"  -> IF c.col = 0 THEN c
                         ELSE [c EXCEPT !.col = @ - 1, !.buffer[Cursor(c) - 1] = " "]
        [] OTHER      -> Column([c EXCEPT !.buffer[Cursor(c)] = ch], c.col + 1))

vga_puts(c, str) ==
    LET Put[n \in 0 .. Len(str)] == IF n = 0 THEN c ELSE vga_putchar(Put[n - 1], str[n])
    IN  Put[Len(str)]

vga_put_at(c, x, y, ch) == [c EXCEPT !.buffer[y * VGA_WIDTH + x] = ch]

----------------------------------------------------------------------------
(* forth_run's line and its echo; limit is INPUT_BUF_SIZE.  Neither what   *)
(* the evaluated line prints nor other tasks' output is included, but for  *)
(* background_worker's spinner in the last cell of the first row.          *)

Prompt(c) == vga_puts(c, <<">", " ">>)

\* crossed: a character was rubbed out that stands on the row above.
Line0 == [con |-> Prompt(vga_clear), text |-> <<>>, crossed |-> FALSE]

MutRubout(c) == vga_puts(c, <<"BS", " ">>)      \* mutant: the cursor stays behind

Rubout(c) == vga_puts(c, <<"BS", " ", "BS">>)

EditLine(r, key, limit) ==
    CASE key = "NL" -> [con |-> Prompt(vga_putchar(r.con, "NL")), text |-> <<>>,
                        crossed |-> FALSE]
      [] key = "BS" -> IF r.text = <<>> THEN r
                       ELSE [con |-> Rubout(r.con), text |-> SubSeq(r.text, 1, Len(r.text) - 1),
                             crossed |-> r.crossed \/ r.con.col = 0]
      [] OTHER -> IF Len(r.text) >= limit - 1 THEN r
                  ELSE [r EXCEPT !.con = vga_putchar(@, key), !.text = Append(@, key)]

Spin(r) == [r EXCEPT !.con = vga_put_at(@, VGA_WIDTH - 1, 0, "*")]

\* The lines n keys, or turns of the spinner, lead to.
LinesAfter(n, keys, limit) ==
    LET L[i \in 0 .. n] ==
          IF i = 0 THEN {Line0}
          ELSE LET M == L[i - 1]
               IN  M \cup {EditLine(r, k, limit) : r \in M, k \in keys} \cup {Spin(r) : r \in M}
    IN  L[n]

\* The cells before the cursor are the prompt and the text, the spinner's
\* cell aside, and nothing stands after the cursor.
Shows(r) ==
    LET shown == <<">", " ">> \o r.text
        first == Cursor(r.con) - Len(shown)
    IN  \A i \in Cells \ {VGA_WIDTH - 1} :
            /\ i \in first .. Cursor(r.con) - 1 => r.con.buffer[i] = shown[i - first + 1]
            /\ i >= Cursor(r.con) => r.con.buffer[i] = " "
=============================================================================
