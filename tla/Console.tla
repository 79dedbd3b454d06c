------------------------------ MODULE Console ------------------------------
(***************************************************************************)
(* The text console of the runtime library: putchar and puts of libt32, on *)
(* the framebuffer as one array of cells, row after row.  A console is a   *)
(* record of the cells and the library's cursor, an offset into them.      *)
(***************************************************************************)
EXTENDS Integers, Sequences

CONSTANTS
    Columns, Rows,
    FirstRow,     \* the row of the cursor's initial value
    Space

ASSUME ConsoleAssumption ==
    /\ Columns \in Nat \ {0} /\ Rows \in Nat \ {0}
    /\ FirstRow \in 0 .. Rows - 1

Backspace == 8
LineFeed == 10
CarriageReturn == 13

End == Columns * Rows
Cells == 0 .. End - 1
FreshConsole == [cells |-> [i \in Cells |-> Space], cursor |-> FirstRow * Columns]

\* putchar_scroll.
Scrolled(cells) ==
    [cells |-> [i \in Cells |-> IF i + Columns < End THEN cells[i + Columns] ELSE Space],
     cursor |-> End - Columns]

\* The cursor has moved on; past the last cell the rows scroll.
Advanced(cells, cursor) ==
    IF cursor = End THEN Scrolled(cells) ELSE [cells |-> cells, cursor |-> cursor]

\* Defect: a backspace moves the cursor and leaves the character.
PutCharKeepsErased(console, ch) ==
    LET cells == console.cells
        at == console.cursor
        row == at \div Columns
    IN  CASE ch = Backspace -> [console EXCEPT !.cursor = IF at = 0 THEN 0 ELSE at - 1]
          [] ch = LineFeed -> Advanced(cells, (row + 1) * Columns)
          [] ch = CarriageReturn -> [console EXCEPT !.cursor = row * Columns]
          [] OTHER -> Advanced([cells EXCEPT ![at] = ch], at + 1)

PutChar(console, ch) ==
    LET cells == console.cells
        at == console.cursor
        row == at \div Columns
    IN  CASE ch = Backspace ->
               IF at = 0 THEN console
               ELSE [cells |-> [cells EXCEPT ![at - 1] = Space], cursor |-> at - 1]
          [] ch = LineFeed -> Advanced(cells, (row + 1) * Columns)
          [] ch = CarriageReturn -> [console EXCEPT !.cursor = row * Columns]
          [] OTHER -> Advanced([cells EXCEPT ![at] = ch], at + 1)

Write(console, text) ==
    LET after[n \in 0 .. Len(text)] ==
            IF n = 0 THEN console ELSE PutChar(after[n - 1], text[n])
    IN  after[Len(text)]
Puts(console, text) == PutChar(Write(console, text), LineFeed)
PutLines(console, texts) ==
    LET after[n \in 0 .. Len(texts)] ==
            IF n = 0 THEN console ELSE Puts(after[n - 1], texts[n])
    IN  after[Len(texts)]
=============================================================================
