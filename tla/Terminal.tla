-------------------------------- MODULE Terminal --------------------------------
(***************************************************************************)
(* What lib/screen.c promises whoever prints: rows of characters, a place  *)
(* for the next one, a new row when a row is full or ends, and at the      *)
(* bottom the oldest row gives way to an empty one.                        *)
(***************************************************************************)
EXTENDS Naturals, Sequences

CONSTANTS ROWS, COLS, Chars, EMPTY

VARIABLES rows,   \* rows[r][c], counted from 1
          row, col,
          quiet   \* nobody else has printed in the middle of a character

place == <<rows, row, col>>

Init == /\ row \in 1 .. ROWS /\ col \in 1 .. COLS
        /\ rows \in Seq(Seq(Chars \cup {EMPTY}))

EmptyRow == [c \in 1 .. COLS |-> EMPTY]

\* The cursor goes to the start of the next row of rs.
NextRow(rs) ==
    /\ col' = 1
    /\ IF row < ROWS
       THEN row' = row + 1 /\ rows' = rs
       ELSE row' = row /\ rows' = Append(Tail(rs), EmptyRow)

Put(c) ==
    LET rs == [rows EXCEPT ![row][col] = c]
    IN  IF col < COLS THEN col' = col + 1 /\ row' = row /\ rows' = rs
        ELSE NextRow(rs)

NewLine == NextRow(rows)

\* A character is placed without the cursor.
Mark(r, c, ch) == rows' = [rows EXCEPT ![r][c] = ch] /\ UNCHANGED <<row, col>>

\* The whole screen is filled with one character and the cursor goes home.
Fill(ch) ==
    /\ rows' = [r \in 1 .. ROWS |-> [c \in 1 .. COLS |-> ch]]
    /\ row' = 1 /\ col' = 1

Next ==
    \/ NewLine
    \/ \E ch \in Chars :
         \/ Put(ch) \/ Fill(ch)
         \/ \E r \in 1 .. ROWS, c \in 1 .. COLS : Mark(r, c, ch)

Spec == Init /\ [][quiet' => Next]_place
===============================================================================
