------------------------------ MODULE LcdChar ------------------------------
(***************************************************************************)
(* The character display (extdrv/lcd_char.c) on four or eight data lines.  *)
(* A byte goes over four lines in two halves and nothing tells the chip    *)
(* which half it gets: the board may restart between two of them, with the *)
(* display left under power in the middle of a byte.                       *)
(***************************************************************************)
EXTENDS Integers, Sequences, SequencesExt

CONSTANTS
  Lines,        \* nb_lines
  Cols,         \* bytes_per_line
  MaxCalls,     \* bound: calls
  MaxRestarts   \* bound: restarts of the board

LcdAssumption ==
  /\ Lines \in 1 .. 4 /\ Cols \in 1 .. 20
  /\ MaxCalls \in Nat /\ MaxRestarts \in Nat

VARIABLES
  lcd,    \* struct lcdc_definition: the width of the bus, the direction
  chip,   \* the display
  call,   \* the call under way, or the last one: what is left to put on the bus
  count   \* calls and restarts so far

vars == <<lcd, chip, call, count>>

NoCall == [name |-> "none", line |-> 0, ops |-> <<>>]

Init ==
  /\ lcd \in [eight : BOOLEAN, increment : BOOLEAN]
  /\ chip = [eight |-> TRUE, half |-> -1, addr |-> 0, cgram |-> FALSE, up |-> TRUE, wrote |-> <<>>]
  /\ call = [NoCall EXCEPT !.name = "off"]
  /\ count = [calls |-> 0, restarts |-> 0]

-----------------------------------------------------------------------------
(* The display, external (HD44780).  Anything it does with a byte depends  *)
(* on the highest bit that is set; clearing also sets it to increment.     *)

Executed(rs, b) ==
  LET next(c) == [c EXCEPT !.addr = (@ + (IF c.up THEN 1 ELSE 127)) % 128] IN
  CASE rs       -> next([chip EXCEPT !.wrote = Append(@, <<chip.cgram, chip.addr>>)])
    [] ~rs /\ b >= 128 -> [chip EXCEPT !.addr = b - 128, !.cgram = FALSE]
    [] ~rs /\ b \in 64 .. 127 -> [chip EXCEPT !.addr = b - 64, !.cgram = TRUE]
    [] ~rs /\ b \in 32 .. 63  -> [chip EXCEPT !.eight = b >= 48]
    [] ~rs /\ b \in 16 .. 23  -> [chip EXCEPT !.addr = (@ + (IF b >= 20 THEN 1 ELSE 127)) % 128]
    [] ~rs /\ b \in 24 .. 31  -> chip
    [] ~rs /\ b \in 8 .. 15   -> chip
    [] ~rs /\ b \in 4 .. 7    -> [chip EXCEPT !.up = b >= 6]
    [] ~rs /\ b \in 2 .. 3    -> [chip EXCEPT !.addr = 0, !.cgram = FALSE]
    [] ~rs /\ b < 2           -> [chip EXCEPT !.addr = 0, !.cgram = FALSE, !.up = TRUE]

\* One pulse of the enable line: over four lines the display gets the high
\* half of a byte if it expects whole ones.
Pulse(op) ==
  LET byte == IF lcd.eight THEN op.v ELSE 16 * op.v IN
  IF op.read
  THEN IF chip.eight THEN chip ELSE [chip EXCEPT !.half = IF @ = -1 THEN 0 ELSE -1]
  ELSE IF chip.eight THEN Executed(op.rs, byte)
       ELSE IF chip.half = -1 THEN [chip EXCEPT !.half = byte \div 16]
            ELSE [Executed(op.rs, 16 * chip.half + byte \div 16) EXCEPT !.half = -1]

-----------------------------------------------------------------------------
(* What the calls put on the bus.                                          *)

lcdc_write_byte(rs, v) == <<[read |-> FALSE, rs |-> rs, v |-> v]>>
lcdc_read_byte == <<[read |-> TRUE, rs |-> FALSE, v |-> 0]>>

lcdc_perform_read == IF lcd.eight THEN lcdc_read_byte ELSE lcdc_read_byte \o lcdc_read_byte
lcdc_busy == lcdc_perform_read

\* An instruction is followed by a look at the busy flag.
lcdc_perform_write(b, data) ==
  (IF lcd.eight THEN lcdc_write_byte(data, b)
   ELSE lcdc_write_byte(data, b \div 16) \o lcdc_write_byte(data, b % 16))
  \o (IF data THEN <<>> ELSE lcdc_busy)

Instr(b) == lcdc_perform_write(b, FALSE)
Bit(b) == IF b THEN 1 ELSE 0

LineOffsets == <<0, 64, 20, 84>>
LineOf(line) == IF line >= Lines THEN Lines - 1 ELSE line
\* LCDC_SET_DDRAM_ADDR
CursorPosition(line, col) == Instr(128 + ((col + LineOffsets[LineOf(line) + 1]) % 128))
Mode(inc) == Instr(4 + 2 * Bit(inc))

\* Mutant: the display is told its width only once.
InitOpsShort ==
  Instr(50) \o Instr(32 + 16 * Bit(lcd.eight) + 8) \o Instr(8) \o Instr(1) \o Mode(lcd.increment)
\* 3, 3, then 3 and 2: whatever half the display is at.
InitOps ==
  LET three == lcdc_write_byte(FALSE, IF lcd.eight THEN 48 ELSE 3) IN
  three \o three \o InitOpsShort

Data(n) == FlattenSeq([i \in 1 .. n |-> lcdc_perform_write(0, TRUE)])

Ready == call.ops = <<>> /\ call.name # "off" /\ count.calls < MaxCalls
Do(name, line, ops) ==
  /\ Ready
  /\ call' = [name |-> name, line |-> line, ops |-> ops]
  /\ chip' = [chip EXCEPT !.wrote = <<>>]
  /\ count' = [count EXCEPT !.calls = @ + 1]
  /\ UNCHANGED lcd

lcdc_init ==
  /\ call.name = "off"
  /\ call' = [NoCall EXCEPT !.name = "init", !.ops = InitOps]
  /\ UNCHANGED <<lcd, chip, count>>

lcdc_on_off == \E v \in {8, 15} : Do("on_off", 0, Instr(v))
lcdc_clear == Do("clear", 0, Instr(1))
lcdc_move_cursor_home == Do("home", 0, Instr(2))
lcdc_move_cursor == \E b \in {16, 20} : Do("move", 0, Instr(b))
lcdc_shift_display == \E b \in {24, 28} : Do("shift", 0, Instr(b))
\* The structure keeps the direction it was set up with.
lcdc_set_inc_and_shift_mode == \E inc \in BOOLEAN : Do("mode", 0, Mode(inc))
lcdc_write == Do("write", 0, Data(1))
lcdc_set_cursor_position ==
  \E line \in 0 .. Lines, col \in {0, Cols - 1} :
    Do("position", line, CursorPosition(line, col))
lcdc_get_cursor_position == Do("get", 0, lcdc_busy \o lcdc_perform_read)
lcdc_read == Do("read", 0, lcdc_perform_read)

\* lcdc_send_data_line starts at column bytes_per_line when it counts down.
lcdc_send_data_line ==
  \E line \in 0 .. Lines, len \in {1, Cols + 1} :
    Do("line", line, CursorPosition(line, IF lcd.increment THEN 0 ELSE Cols)
                     \o Data(IF len > Cols THEN Cols ELSE len))

create_char == \E n \in {0, 7} : Do("char", n, Instr(64 + 8 * n) \o Data(8))

\* One access to the display.
Access ==
  /\ call.ops # <<>>
  /\ chip' = Pulse(Head(call.ops))
  /\ call' = [call EXCEPT !.ops = Tail(@)]
  /\ UNCHANGED <<lcd, count>>

\* The board restarts, the display does not notice.
Restart ==
  /\ call.name # "off" /\ count.restarts < MaxRestarts
  /\ call' = [NoCall EXCEPT !.name = "off"]
  /\ count' = [count EXCEPT !.restarts = @ + 1]
  /\ UNCHANGED <<lcd, chip>>

Next ==
  \/ lcdc_init \/ lcdc_on_off \/ lcdc_clear \/ lcdc_move_cursor_home \/ lcdc_move_cursor \/ lcdc_shift_display
  \/ lcdc_set_inc_and_shift_mode \/ lcdc_write
  \/ lcdc_set_cursor_position \/ lcdc_get_cursor_position \/ lcdc_read \/ lcdc_send_data_line
  \/ create_char \/ Access \/ Restart

Spec == Init /\ [][Next]_vars

-----------------------------------------------------------------------------
(* Properties.                                                             *)

Over == call.ops = <<>> /\ call.name # "off"

\* Once the initialisation is over, whatever half byte a restart left in the
\* display, it counts in the direction that was asked, it is as wide as the
\* board believes and between two bytes; and every later call leaves it there.
InStep ==
  Over => /\ chip.eight = lcd.eight /\ chip.half = -1
          /\ call.name = "init" => chip.up = lcd.increment

\* A line lands in the cells of its line, and the rows of a character in its
\* eight rows, on a display that counts up.  (Counting down a line starts one
\* cell too far, and clearing makes the display count up.)
DataLands ==
  Over /\ lcd.increment /\ chip.up =>
    /\ call.name = "line" => \A i \in DOMAIN chip.wrote :
         chip.wrote[i] = <<FALSE, LineOffsets[LineOf(call.line) + 1] + i - 1>>
    /\ call.name = "char" => chip.wrote = [i \in 1 .. 8 |-> <<TRUE, 8 * call.line + i - 1>>]

LcdInStep == InStep /\ DataLands
=============================================================================
