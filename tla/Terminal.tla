------------------------------- MODULE Terminal ------------------------------
(***************************************************************************)
(* kernel/src/terminal.rs: the text screen behind the log macros.  A log   *)
(* line is several write_str calls, each a print() of its own under the    *)
(* terminal's spin lock; cursor, colour and escape mode are shared by all. *)
(*                                                                         *)
(* A core prints in two contexts: its own code and, above it, an interrupt *)
(* handler (arch/x86_64/interrupt/mod.rs).  Interrupts are never disabled  *)
(* around the lock, and while the handler runs the code below it does not. *)
(*                                                                         *)
(* Characters are their code points, with one glyph TEXT for all printable *)
(* text.  What the pixels of a glyph look like is left out.                *)
(***************************************************************************)
EXTENDS Integers, Sequences

CONSTANTS Cores,        \* the cores that print
          Interrupted,  \* the cores among them that take interrupts
          Macros,       \* the log macros in use
          WIDTH,        \* screen_width, in pixels
          HEIGHT,       \* screen_height
          SCAN_WIDTH    \* screen_scanline_width, at least the width

MARGIN == 16

ASSUME CoresAssumption == Interrupted \subseteq Cores

ASSUME MacrosAssumption == Macros \subseteq {"verbose", "info", "warning", "error"}

ASSUME ScreenAssumption ==
  /\ WIDTH \in Nat /\ HEIGHT \in Nat /\ SCAN_WIDTH \in Nat
  /\ WIDTH >= 2 * MARGIN /\ HEIGHT >= 2 * MARGIN /\ SCAN_WIDTH >= WIDTH

VARIABLES locked,       \* INFO.lock
          cursor_x, cursor_y,
          color,        \* <<color_r, color_g, color_b>>
          mode,
          pc,           \* where each context is
          macro,        \* the macro, "clear" or "panic" it executes
          pieces,       \* the write_str calls its line still has to make
          text          \* the characters its print() still has to print

info == <<cursor_x, cursor_y, color, mode>>
call == <<pc, macro, pieces, text>>
vars == <<locked, info, call>>

Contexts == Cores \X {"main", "handler"}

-----------------------------------------------------------------------------
(* The lines.                                                              *)

ESC == 27
NEW_LINE == 10
TEXT == 65

White == <<255, 255, 255>>

(* The colours of the macros' tags; the panic handler logs with error!. *)
Tag == [verbose |-> <<136, 136, 136>>, info |-> <<0, 255, 0>>, warning |-> <<255, 255, 0>>,
        error |-> <<255, 0, 0>>, panic |-> <<255, 0, 0>>]

Color(m) == IF m \in DOMAIN Tag THEN Tag[m] ELSE White

(* Mutant: only info! switches back to white. *)
Line_keeps_color(m, args) ==
  LET tag == <<<<ESC>> \o Color(m) \o <<TEXT>>, <<TEXT>>>>
      first == IF m = "info" THEN <<TEXT, ESC>> \o White \o <<TEXT>> ELSE <<TEXT>>
  IN  tag \o IF args = 0 THEN <<first \o <<NEW_LINE>>>> ELSE <<first, <<TEXT>>, <<NEW_LINE>>>>

(***************************************************************************)
(* What writeln! makes of a macro without or with an argument: a write_str *)
(* for each literal between two arguments (the tag is the first of them)   *)
(* and one for each argument.  The literals hold the escape sequences:     *)
(* info! turns white after the tag, the others at the end of the line.     *)
(***************************************************************************)
Line(m, args) ==
  LET reset == <<ESC>> \o White
      tag == <<<<ESC>> \o Color(m) \o <<TEXT>>, <<TEXT>>>>
      first == IF m = "info" THEN <<TEXT>> \o reset \o <<TEXT>> ELSE <<TEXT>>
      last == IF m = "info" THEN <<NEW_LINE>> ELSE reset \o <<NEW_LINE>>
  IN  tag \o IF args = 0 THEN <<first \o last>> ELSE <<first, <<TEXT>>, last>>

-----------------------------------------------------------------------------
(* The screen.                                                             *)

columns == (WIDTH - MARGIN * 2) \div 8
rows == (HEIGHT - MARGIN * 2) \div 8

(* Mutant: the last column is not the end of a row. *)
advance_cursor_late ==
  IF cursor_x + 1 > columns
  THEN /\ cursor_x' = 0
       /\ cursor_y' = IF cursor_y + 1 >= rows THEN 0 ELSE cursor_y + 1
  ELSE /\ cursor_x' = cursor_x + 1
       /\ cursor_y' = cursor_y

advance_cursor ==
  IF cursor_x + 1 >= columns
  THEN /\ cursor_x' = 0
       /\ cursor_y' = IF cursor_y + 1 >= rows THEN 0 ELSE cursor_y + 1
  ELSE /\ cursor_x' = cursor_x + 1
       /\ cursor_y' = cursor_y

new_line ==
  /\ cursor_x' = 0
  /\ cursor_y' = IF cursor_y + 1 >= rows THEN 0 ELSE cursor_y + 1

(* The three modes that take the next character as a part of the colour. *)
Component == [SetR |-> 1, SetG |-> 2, SetB |-> 3]
After == [SetR |-> "SetG", SetG |-> "SetB", SetB |-> "Print"]

set_color(c) ==
  /\ mode \in DOMAIN Component
  /\ color' = [color EXCEPT ![Component[mode]] = c % 256]
  /\ mode' = After[mode]
  /\ UNCHANGED <<cursor_x, cursor_y>>

start_escape(c) ==
  /\ mode = "Print" /\ c = ESC
  /\ mode' = "SetR"
  /\ UNCHANGED <<cursor_x, cursor_y, color>>

put_char(c) ==
  /\ mode = "Print" /\ c # ESC
  /\ IF c = NEW_LINE THEN new_line ELSE advance_cursor
  /\ UNCHANGED <<color, mode>>

-----------------------------------------------------------------------------
(* The steps of a context.                                                 *)

(* The code of a core stands still while its interrupt handler runs. *)
Runs(t) == t[2] = "main" => pc[<<t[1], "handler">>] = "idle"

Goto(t, label) == pc' = [pc EXCEPT ![t] = label]

Start(t, m, label, lines) ==
  /\ pc[t] = "idle" /\ Runs(t)
  /\ Goto(t, label)
  /\ macro' = [macro EXCEPT ![t] = m]
  /\ pieces' = [pieces EXCEPT ![t] = lines]
  /\ UNCHANGED <<locked, info, text>>

(* verbose!, info!, warning! or error! in the code of a core. *)
Log(c) ==
  \E m \in Macros, args \in 0 .. 1 : Start(<<c, "main">>, m, "line", Line(m, args))

(* clear() takes the lock to overwrite the framebuffer; the cursor stays. *)
clear(c) == Start(<<c, "main">>, "clear", "lock", <<>>)

(* panic_handler: an error! line, then `loop {}`. *)
panic_handler(c) == Start(<<c, "main">>, "panic", "line", Line("panic", 1))

(* An interrupt, at any instruction: isr_default_handler logs a warning. *)
isr_default_handler(c) ==
  /\ c \in Interrupted
  /\ Start(<<c, "handler">>, "warning", "line", Line("warning", 1))

(* Mutant: the lock is taken for each character, not for the string. *)
write_str_by_char(t) ==
  /\ pc[t] = "line" /\ pieces[t] # <<>> /\ Runs(t)
  /\ Goto(t, "lock")
  /\ LET s == Head(pieces[t])
         more == IF Len(s) = 1 THEN <<>> ELSE <<Tail(s)>>
     IN  /\ text' = [text EXCEPT ![t] = <<Head(s)>>]
         /\ pieces' = [pieces EXCEPT ![t] = more \o Tail(pieces[t])]
  /\ UNCHANGED <<locked, info, macro>>

(* The next write_str of the line, which is a print(). *)
write_str(t) ==
  /\ pc[t] = "line" /\ pieces[t] # <<>> /\ Runs(t)
  /\ Goto(t, "lock")
  /\ text' = [text EXCEPT ![t] = Head(pieces[t])]
  /\ pieces' = [pieces EXCEPT ![t] = Tail(pieces[t])]
  /\ UNCHANGED <<locked, info, macro>>

(* The end of the line: the macro, or the handler, returns. *)
Return(t) ==
  /\ pc[t] = "line" /\ pieces[t] = <<>> /\ Runs(t)
  /\ Goto(t, IF macro[t] = "panic" THEN "panicked" ELSE "idle")
  /\ macro' = [macro EXCEPT ![t] = "none"]
  /\ UNCHANGED <<locked, info, pieces, text>>

(* Mutant: the old value of the flag is not looked at. *)
try_lock_always(t) ==
  /\ pc[t] = "lock" /\ Runs(t)
  /\ locked' = TRUE
  /\ Goto(t, "print")
  /\ UNCHANGED <<info, macro, pieces, text>>

try_lock(t) ==
  /\ pc[t] = "lock" /\ Runs(t)
  /\ locked' = TRUE
  /\ IF locked THEN UNCHANGED pc ELSE Goto(t, "print")
  /\ UNCHANGED <<info, macro, pieces, text>>

(* Mutant: the loop over the string does not advance at a new line. *)
print_char_stays(t) ==
  /\ pc[t] = "print" /\ text[t] # <<>> /\ Runs(t)
  /\ LET c == Head(text[t])
     IN  /\ set_color(c) \/ start_escape(c) \/ put_char(c)
         /\ text' = IF c = NEW_LINE THEN text ELSE [text EXCEPT ![t] = Tail(text[t])]
  /\ UNCHANGED <<locked, pc, macro, pieces>>

(* One character of the string: a colour byte, an escape or a glyph. *)
print_char(t) ==
  /\ pc[t] = "print" /\ text[t] # <<>> /\ Runs(t)
  /\ LET c == Head(text[t]) IN set_color(c) \/ start_escape(c) \/ put_char(c)
  /\ text' = [text EXCEPT ![t] = Tail(text[t])]
  /\ UNCHANGED <<locked, pc, macro, pieces>>

(* The end of print() or clear(): the guard is dropped. *)
unlock(t) ==
  /\ pc[t] = "print" /\ text[t] = <<>> /\ Runs(t)
  /\ locked' = FALSE
  /\ Goto(t, "line")
  /\ UNCHANGED <<info, macro, pieces, text>>

PanicLoop(t) == pc[t] = "panicked" /\ Runs(t) /\ UNCHANGED vars

(* terminal::init, before anything is printed. *)
Init ==
  /\ locked = FALSE
  /\ cursor_x = 0 /\ cursor_y = 0
  /\ color = White
  /\ mode = "Print"
  /\ pc = [t \in Contexts |-> "idle"]
  /\ macro = [t \in Contexts |-> "none"]
  /\ pieces = [t \in Contexts |-> <<>>]
  /\ text = [t \in Contexts |-> <<>>]

Step(t) == write_str(t) \/ Return(t) \/ try_lock(t) \/ print_char(t) \/ unlock(t)

Call(c) == Log(c) \/ clear(c) \/ panic_handler(c) \/ isr_default_handler(c)

Next ==
  \/ \E t \in Contexts : Step(t) \/ PanicLoop(t)
  \/ \E c \in Cores : Call(c)

Spec == Init /\ [][Next]_vars

FairSpec == Spec /\ \A t \in Contexts : WF_vars(Step(t))

-----------------------------------------------------------------------------
(* The properties.                                                         *)

(***************************************************************************)
(* Wherever lines wrapped and started over, the next glyph of print_char   *)
(* keeps out of the margin (if the screen has room for a glyph at all),    *)
(* and the three bytes it writes for each pixel are inside the slice it    *)
(* makes of the framebuffer.                                               *)
(***************************************************************************)
PixelsOnScreen ==
  \A dx, dy \in 0 .. 7 :
    LET x == MARGIN + cursor_x * 8 + dx
        y == MARGIN + cursor_y * 8 + dy
    IN  /\ columns > 0 => x < WIDTH - MARGIN
        /\ rows > 0 => y < HEIGHT - MARGIN
        /\ (x + y * SCAN_WIDTH) * 4 + 2 < SCAN_WIDTH * HEIGHT * 4

(***************************************************************************)
(* Escape sequences are never torn: when print() gets the lock, no other   *)
(* context is between the escape character and the last colour byte, so    *)
(* text is never taken for a colour nor a colour for text.                 *)
(***************************************************************************)
EscapesAreWhole ==
  /\ ~ locked => mode = "Print"
  /\ \A t \in Contexts : pc[t] = "print" /\ mode # "Print" => text[t] # <<>>

(***************************************************************************)
(* The macros share one colour, and lines of several contexts overlap.     *)
(* Still the colour is always white or that of a line that is not finished *)
(* yet, never a mixture and never left over: when nobody is in the middle  *)
(* of a line, text is white again.                                         *)
(***************************************************************************)
ColorHasOwner ==
  mode = "Print" /\ color # White => \E t \in Contexts : Color(macro[t]) = color

(* The terminal's contexts use the flag as SpinLock says. *)
At(t) == CASE pc[t] = "lock" -> "spinning"
           [] pc[t] = "print" -> "holding"
           [] OTHER -> "outside"

Mutex == INSTANCE SpinLock WITH Cores <- Contexts, at <- [t \in Contexts |-> At(t)]

ImplementsSpinLock == Mutex!Spec

(* The handler of a core waits for the lock that the code below it holds. *)
SelfBlocked(c) == pc[<<c, "main">>] = "print" /\ pc[<<c, "handler">>] = "lock"

(***************************************************************************)
(* A context waits for ever only behind others that take the lock again    *)
(* and again (its own core's handler among them), or because an interrupt  *)
(* hit a core that holds the lock: neither print() nor clear() keeps it    *)
(* otherwise.                                                              *)
(***************************************************************************)
StuckOnlyByInterrupt ==
  \A t \in Contexts :
    <>[](pc[t] = "lock") => \/ []<>(~ locked)
                            \/ <>[](\E c \in Cores : SelfBlocked(c))

(***************************************************************************)
(* isr_default_handler, as documented, "Just prints out a warning and      *)
(* returns", also if it hits print() or clear().                           *)
(***************************************************************************)
HandlerReturns ==
  \A c \in Cores : pc[<<c, "handler">>] # "idle" ~> pc[<<c, "handler">>] = "idle"

=============================================================================
