--------------------------------- MODULE Screen ---------------------------------
(***************************************************************************)
(* The text screen: lib/screen.c with the registers of the VGA controller  *)
(* it keeps the cursor in, the "1 second" of lib/timer.c, the keyboard     *)
(* handler of interrupt/handlers.c, draw_panic_screen of lib/panic.c, and  *)
(* the messages of boot() in kernel/start.c.                               *)
(*                                                                         *)
(* print_char is taken apart at its accesses to the controller's ports.    *)
(* Interrupts are off until idt_init; from then on a handler may come      *)
(* between any two of them, and runs to its end.  What a second thread     *)
(* prints after a preemption has the same effect as what a handler prints. *)
(***************************************************************************)
EXTENDS Integers, Sequences

CONSTANTS
  MAX_ROWS, MAX_COLS,
  Byte,        \* 256: what a register of the controller holds
  Second,      \* 18: ticks of the timer between two messages
  StackSize    \* 128: entries of attempt_stack

Cells == 0 .. MAX_ROWS * MAX_COLS - 1

ASSUME ScreenAssumption ==
  /\ MAX_ROWS \in Nat \ {0} /\ MAX_COLS \in Nat /\ MAX_COLS >= 3
  /\ Byte \in Nat /\ 2 * MAX_ROWS * MAX_COLS < Byte * Byte
  /\ Second \in Nat \ {0} /\ StackSize \in Nat \ {0}

VARIABLES
  vidmem,        \* the character in each cell
  ctrl,          \* REG_SCREEN_CTRL: the register that is selected
  reg,           \* registers 14 and 15: the cursor
  attempt_stack, stack_idx,
  ticks,         \* of timer.c
  irq,           \* interrupts are on
  todo,          \* what is still to be done, character by character
  at, offset,    \* inside print_char or push_row: where, and its variable
  frame,         \* what the handler under way has interrupted
  torn,          \* history: a handler has printed in the middle of a print_char
  scrolled,      \* history: how often the screen scrolled since push_row
  stray          \* a character was written outside the screen

port == <<ctrl, reg>>
attempts == <<attempt_stack, stack_idx, scrolled>>
handler == <<ticks, irq, frame, torn>>
vars == <<vidmem, port, attempts, handler, todo, at, offset, stray>>

Chars == {"a", "s", "bracket", "blank", "K", "k", "space"}
ZERO == "0"

\* "\n" and a line; "[    ] " with one blank, in which print_ok puts its OK, and the
\* row remembered before the message follows.
println == <<"NL", "a">>
print_attempt == <<"NL", "bracket", "blank", "push_row", "a">>

\* An attempt with what is attempted.
attempt(does) == print_attempt \o <<does, "print_ok">>

\* boot() and main(): what they print, and what they do that concerns the screen.
\* "work" may print any number of lines, or PANIC.
boot ==
  println \o attempt("clear_bss") \o attempt("work") \o attempt("idt_init")
  \o attempt("work") \o <<"work">>

PANIC == <<"draw_panic_screen">> \o println \o <<"halt">>

\* The cursor is where the BIOS left it; what is on the screen does not matter.
Init ==
  /\ vidmem = [c \in Cells |-> ZERO]
  /\ ctrl = 15
  /\ \E c \in Cells : reg = [r \in {14, 15} |-> IF r = 15 THEN c % Byte ELSE c \div Byte]
  /\ attempt_stack = [i \in 0 .. StackSize - 1 |-> 0] /\ stack_idx = 0
  /\ ticks = 0 /\ irq = FALSE /\ frame = <<>>
  /\ todo = boot /\ at = "idle" /\ offset = 0
  /\ torn = FALSE /\ scrolled = 0 /\ stray = FALSE
-------------------------------------------------------------------------------
(* Offsets. *)

get_screen_offset(c, row) == (row * MAX_COLS + c) * 2

\* handle_scrolling: the test, the shuffle of the rows, the row that is empty then.
OnScreen(o) == o < MAX_ROWS * MAX_COLS * 2
Shuffled(v) ==
  [c \in Cells |-> IF c + MAX_COLS \in Cells THEN v[c + MAX_COLS] ELSE ZERO]

\* Mutant: "\n" goes to the next row without regard of the column.
LineEndColumn(o) == o - 2 + 2 * MAX_COLS

\* '\n' sets the offset to the last character of the row, "so it wraps around".
LineEnd(o) == get_screen_offset(MAX_COLS - 1, o \div (2 * MAX_COLS))
-------------------------------------------------------------------------------
(* Ports.  get_cursor reads register 15, then 14; set_cursor writes 14, then 15. *)

Ready == ~stray /\ todo # <<>>

Steps(from, to) == Ready /\ at = from /\ at' = to

Select(r, from, to) ==
  /\ Steps(from, to) /\ ctrl' = r
  /\ UNCHANGED <<vidmem, reg, attempts, handler, todo, offset, stray>>

UsesCursor == todo # <<>> /\ (Head(todo) \in Chars \cup {"NL", "push_row"})

In(from, to, value) ==
  /\ Steps(from, to) /\ offset' = value
  /\ UNCHANGED <<vidmem, port, attempts, handler, todo, stray>>

\* "convert from cell to char offset".
CharOffset(o) == o \div 2

\* What port_byte_out takes of an int: an unsigned char.
LowByte(n) == n % Byte

Out(from, to, value) ==
  /\ Steps(from, to) /\ reg' = [reg EXCEPT ![ctrl] = LowByte(value)]
  /\ todo' = IF to = "idle" THEN Tail(todo) ELSE todo
  /\ UNCHANGED <<vidmem, ctrl, attempts, handler, offset, stray>>

\* The number is a uint16_t: two registers wide.
get_cursor ==
  \/ UsesCursor /\ Select(15, "idle", "in15")
  \/ In("in15", "read15", reg[ctrl])
  \/ Select(14, "read15", "in14")
  \/ In("in14", "read14", (2 * (offset + Byte * reg[ctrl])) % (Byte * Byte))

set_cursor ==
  \/ Select(14, "set", "out14")
  \/ Out("out14", "wrote14", CharOffset(offset) \div Byte)
  \/ Select(15, "wrote14", "out15")
  \/ Out("out15", "idle", CharOffset(offset))
-------------------------------------------------------------------------------
(* Printing. *)

\* print_char between get_cursor and set_cursor.
print_char ==
  LET c     == Head(todo)
      cell  == offset \div 2
      moved == (IF c = "NL" THEN LineEnd(offset) ELSE offset) + 2
      drawn == IF c = "NL" THEN vidmem ELSE [vidmem EXCEPT ![cell] = c]
  IN  /\ Ready /\ at = "read14" /\ c # "push_row"
      /\ IF c # "NL" /\ cell \notin Cells
         THEN stray' = TRUE /\ UNCHANGED <<vidmem, offset, at, scrolled>>
         ELSE /\ IF OnScreen(moved)
                 THEN vidmem' = drawn /\ offset' = moved /\ UNCHANGED scrolled
                 ELSE /\ vidmem' = Shuffled(drawn) /\ offset' = moved - 2 * MAX_COLS
                      /\ scrolled' = IF scrolled < MAX_ROWS THEN scrolled + 1 ELSE scrolled
              /\ at' = "set" /\ UNCHANGED stray
      /\ UNCHANGED <<port, attempt_stack, stack_idx, handler, todo>>

push_row ==
  /\ Ready /\ at = "read14" /\ Head(todo) = "push_row"
  /\ attempt_stack' = [attempt_stack EXCEPT ![stack_idx] = offset \div (2 * MAX_COLS)]
  /\ stack_idx' = stack_idx + 1 /\ scrolled' = 0
  /\ todo' = Tail(todo) /\ at' = "idle"
  /\ UNCHANGED <<vidmem, port, handler, offset, stray>>

\* print_char_loc: no cursor.
print_char_loc(c, col, row) ==
  LET cell == get_screen_offset(col, row) \div 2
  IN  IF cell \in Cells
      THEN vidmem' = [vidmem EXCEPT ![cell] = c] /\ UNCHANGED stray
      ELSE stray' = TRUE /\ UNCHANGED vidmem

\* t is what main() or a handler does next, and now does in one step.
Does(t) == Ready /\ at = "idle" /\ Head(todo) = t

\* Mutant: the row is looked at and stays on the stack.
Peeked(idx) == idx

\* pop_row: the index the row is read at then.
Popped(idx) == idx - 1

\* pop_row, and the OK in the second place of that row.
print_ok ==
  /\ Does("print_ok")
  /\ stack_idx' = Popped(stack_idx)
  /\ print_char_loc("K", 1, attempt_stack[stack_idx - 1])
  /\ todo' = Tail(todo)
  /\ UNCHANGED <<port, attempt_stack, scrolled, handler, at, offset>>

draw_panic_screen ==
  /\ Does("draw_panic_screen")
  /\ vidmem' = [c \in Cells |-> "space"]
  /\ offset' = get_screen_offset(0, 0) /\ at' = "set"
  /\ UNCHANGED <<port, attempts, handler, todo, stray>>
-------------------------------------------------------------------------------
(* The rest of the kernel. *)

\* Mutant: the section is cleared, and stack_idx lies in it.
ClearedAll == attempt_stack' = [i \in 0 .. StackSize - 1 |-> 0] /\ stack_idx' = 0

\* clear_bss takes the words it finds at the two ends of the section for the ends: both
\* are 0, and nothing is cleared.  It runs between an attempt and its OK.
Cleared == UNCHANGED <<attempt_stack, stack_idx>>

clear_bss ==
  /\ Does("clear_bss") /\ Cleared
  /\ todo' = Tail(todo)
  /\ UNCHANGED <<vidmem, port, scrolled, handler, at, offset, stray>>

\* idt_init ends with sti.
idt_init ==
  /\ Does("idt_init") /\ irq' = TRUE
  /\ todo' = Tail(todo)
  /\ UNCHANGED <<vidmem, port, attempts, ticks, frame, torn, at, offset, stray>>

\* The next part of boot() prints a line, or panics, or is done; main() never is.
Work ==
  /\ Does("work")
  /\ \/ todo' = println \o todo
     \/ todo' = PANIC
     \/ Len(todo) > 1 /\ todo' = Tail(todo)
  /\ UNCHANGED <<vidmem, port, attempts, handler, at, offset, stray>>

\* A handler that prints nothing, and one for whose line the interrupted print_char
\* waits.
Silent == UNCHANGED <<irq, frame, torn, todo, at, offset>>
Prints ==
  /\ irq' = FALSE
  /\ frame' = <<todo, at, offset>>
  /\ torn' = (torn \/ at # "idle")
  /\ todo' = <<"NL", "s", "iret">> /\ at' = "idle" /\ offset' = 0

\* A timer interrupt: time_tick has a message on every Second-th tick, and schedule one
\* whenever the end of the slice switches to another thread.
Tick ==
  /\ irq /\ ~stray /\ Head(todo) # "halt"
  /\ ticks' = (ticks + 1) % Second
  /\ (ticks' # 0 /\ Silent) \/ Prints
  /\ UNCHANGED <<vidmem, port, attempts, stray>>

Iret ==
  /\ Does("iret")
  /\ todo' = frame[1] /\ at' = frame[2] /\ offset' = frame[3]
  /\ frame' = <<>> /\ irq' = TRUE
  /\ UNCHANGED <<vidmem, port, attempts, ticks, torn, stray>>

\* keyboard_handler: the character of the key, or what lies behind the table of 58
\* characters for a key that is released, in the corner.
keyboard_handler ==
  /\ irq /\ ~stray /\ Head(todo) # "halt"
  /\ print_char_loc("k", 0, 0)
  /\ UNCHANGED <<port, attempts, handler, todo, at, offset>>

Next ==
  \/ get_cursor \/ print_char \/ set_cursor \/ push_row \/ print_ok
  \/ draw_panic_screen \/ clear_bss \/ idt_init \/ Work
  \/ Tick \/ Iret \/ keyboard_handler

Spec == Init /\ [][Next]_vars
-------------------------------------------------------------------------------
(* What the screen guarantees. *)

Items == Chars \cup {"NL", "push_row", "print_ok", "draw_panic_screen", "clear_bss",
                     "idt_init", "work", "iret", "halt"}

TypeOK ==
  /\ vidmem \in [Cells -> Chars \cup {ZERO}]
  /\ ctrl \in {14, 15} /\ reg \in [{14, 15} -> 0 .. Byte - 1]
  /\ attempt_stack \in [0 .. StackSize - 1 -> Nat] /\ stack_idx \in 0 .. StackSize
  /\ ticks \in 0 .. Second - 1 /\ irq \in BOOLEAN /\ torn \in BOOLEAN
  /\ todo \in Seq(Items) /\ offset \in 0 .. Byte * Byte
  /\ at \in {"idle", "in15", "read15", "in14", "read14", "set", "out14", "wrote14", "out15"}
  /\ Len(frame) \in {0, 3} /\ scrolled \in 0 .. MAX_ROWS /\ stray \in BOOLEAN

\* Where the next character goes: the cursor's registers, or on the way to set_cursor
\* its argument.
Cursor == IF at \in {"set", "out14", "wrote14", "out15"} THEN offset \div 2
          ELSE Byte * reg[14] + reg[15]

Abs == INSTANCE Terminal WITH
         ROWS <- MAX_ROWS, COLS <- MAX_COLS, EMPTY <- ZERO,
         rows <- [r \in 1 .. MAX_ROWS |->
                    [c \in 1 .. MAX_COLS |-> vidmem[(r - 1) * MAX_COLS + c - 1]]],
         row <- (Cursor \div MAX_COLS) + 1, col <- (Cursor % MAX_COLS) + 1,
         quiet <- ~torn

\* As long as no handler has printed in the middle of a print_char, whoever prints sees
\* a terminal: arithmetic on one offset, split over two registers, with '\n' as a jump
\* to the last column, is a walk over rows and columns that scrolls at the bottom.
ScreenIsTerminal == Abs!Spec

\* An attempt that began with interrupts off (the last one does not: a tick may print
\* between its bracket and push_row) stays on top of the stack until its OK, also over
\* clear_bss, and the row remembered for it is where its bracket is (or a key of the
\* keyboard, in the corner), but for the rows the screen has scrolled since.
AttemptMarked ==
  LET main == IF frame = <<>> THEN todo ELSE frame[1]
      open == \E i, j \in DOMAIN main :
                 /\ main[i] = "print_ok" /\ i < j /\ main[j] = "push_row"
                 /\ \A k \in 1 .. i - 1 : main[k] # "push_row"
      row  == attempt_stack[0] - scrolled
  IN  open /\ ~torn /\ ~stray =>
        /\ stack_idx = 1
        /\ row >= 0 => \/ vidmem[row * MAX_COLS] = "bracket"
                       \/ row = 0 /\ vidmem[0] = "k"

\* "Once they have been selected we can read or write a byte on the data register":
\* the offset print_char reads is that of a character on the screen.
WritesOnScreen == ~stray
===============================================================================
