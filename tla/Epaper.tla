------------------------------- MODULE Epaper -------------------------------
(***************************************************************************)
(* The e-paper display (extdrv/epaper.c): the sequences of pins and        *)
(* registers that bring its power up and down, which a restart of the      *)
(* board may cut anywhere, and the code of two bits each pixel is sent as. *)
(***************************************************************************)
EXTENDS Integers, Sequences, SequencesExt

CONSTANTS
  Lines,         \* lines of the panel
  BytesPerScan,  \* four lines each
  Bytes,         \* the bytes images are made of
  MaxFrames,     \* bound: frames
  MaxRestarts    \* bound: restarts

EpaperAssumption ==
  /\ Lines \in Nat \ {0} /\ BytesPerScan \in Nat /\ Lines <= 4 * BytesPerScan
  /\ Bytes \subseteq 0 .. 255
  /\ MaxFrames \in Nat /\ MaxRestarts \in Nat

VARIABLES
  pins,   \* the outputs of the board, and whether the PWM runs
  regs,   \* the registers of the panel's controller
  todo,   \* what the call under way has still to do
  mode,   \* "off", "on": the calls that may come
  sent,   \* the last line: its number, image, stage and bytes
  count   \* frames and restarts so far

vars == <<pins, regs, todo, mode, sent, count>>

BytesPerLine == 2
Stages == {"compensate", "white", "inverse", "normal"}
Outputs == {"reset", "power", "discharge", "border", "cs", "pwm"}

\* Pins nobody drives, from the reset of the board until they are set up.
Floating == [p \in Outputs |-> 2]

Init ==
  /\ pins = Floating
  /\ regs = [r \in 2 .. 9 |-> 0]
  /\ todo = <<>> /\ mode = "none"
  /\ sent = [line |-> -1, image |-> <<>>, stage |-> "none", odd |-> <<>>, scan |-> <<>>, even |-> <<>>]
  /\ count = [frames |-> 0, restarts |-> 0]

-----------------------------------------------------------------------------
(* The code of the pixels.  The operators of C on bytes, bit by bit.       *)

Bit(a, k)  == (a \div 2^k) % 2
Byte(b(_)) == b(0) + 2 * b(1) + 4 * b(2) + 8 * b(3) + 16 * b(4) + 32 * b(5) + 64 * b(6) + 128 * b(7)
And(a, b) == LET bit(k) == Bit(a, k) * Bit(b, k) IN Byte(bit)
Or(a, b)  == LET bit(k) == IF Bit(a, k) + Bit(b, k) = 0 THEN 0 ELSE 1 IN Byte(bit)
Xor(a, b) == LET bit(k) == (Bit(a, k) + Bit(b, k)) % 2 IN Byte(bit)

OddWhite(pixels) == 85 + Xor(pixels, 170) \div 2

OddCode(byte, stage) ==
  LET pixels == And(byte, 170) IN
  CASE stage = "compensate" -> Or(170, Xor(pixels, 170) \div 2)
    [] stage = "white"      -> OddWhite(pixels)
    [] stage = "inverse"    -> Or(85, Xor(pixels, 170))
    [] stage = "normal"     -> Or(170, pixels \div 2)

\* The even pixels, and their four pairs in the other order.
EvenCode(byte, stage) ==
  LET pixels == And(byte, 85)
      tmp == CASE stage = "compensate" -> Or(170, Xor(pixels, 85))
               [] stage = "white"      -> 85 + Xor(pixels, 85)
               [] stage = "inverse"    -> Or(85, Xor(pixels, 85) * 2)
               [] stage = "normal"     -> Or(170, pixels)
  IN  Or(And(tmp, 3) * 64, Or(And(tmp, 12) * 4, Or(And(tmp, 48) \div 4, And(tmp, 192) \div 64)))

Scan(line) ==
  [i \in 1 .. BytesPerScan |-> IF i - 1 = line \div 4 THEN 192 \div 4 ^ (line % 4) ELSE 0]

\* epaper_send_data_line
DataLine(line, image, stage) ==
  [line |-> line, image |-> image, stage |-> stage, scan |-> Scan(line),
   odd  |-> [i \in 1 .. BytesPerLine |-> OddCode(image[BytesPerLine + 1 - i], stage)],
   even |-> [i \in 1 .. BytesPerLine |-> EvenCode(image[i], stage)]]

FixedLine(line, value) ==
  [line |-> line, image |-> <<>>, stage |-> "fixed", scan |-> Scan(line),
   odd |-> [i \in 1 .. BytesPerLine |-> value], even |-> [i \in 1 .. BytesPerLine |-> value]]

-----------------------------------------------------------------------------
(* The sequences: pins, registers and lines in the order of the code.      *)

Pin(p, v)  == <<[do |-> "pin", key |-> p, val |-> v]>>
epaper_spi_send(r, v) == <<[do |-> "reg", key |-> r, val |-> v]>>
Line(l)    == <<[do |-> "line", key |-> l.line, val |-> l]>>

epaper_cog_power_on ==
  Pin("border", 0) \o Pin("power", 0) \o Pin("discharge", 0) \o Pin("cs", 0) \o Pin("reset", 0)
  \o Pin("pwm", 1) \o Pin("power", 1) \o Pin("cs", 1) \o Pin("border", 1)
  \o Pin("reset", 1) \o Pin("reset", 0) \o Pin("reset", 1)

epaper_cog_initialize ==
  epaper_spi_send(6, 255) \o epaper_spi_send(7, 157) \o epaper_spi_send(8, 0)
  \o epaper_spi_send(9, 208) \o epaper_spi_send(4, 3) \o epaper_spi_send(3, 1) \o epaper_spi_send(3, 0)
  \o epaper_spi_send(5, 1) \o Pin("pwm", 0) \o epaper_spi_send(5, 3) \o epaper_spi_send(5, 15)
  \o epaper_spi_send(2, 36)

\* Mutant: the discharge pin is raised before the power is cut.
PowerOffEarly == Pin("border", 0) \o Pin("discharge", 1) \o Pin("reset", 0) \o Pin("power", 0)
PowerOff == Pin("border", 0) \o Pin("reset", 0) \o Pin("power", 0) \o Pin("discharge", 1)

Blank(value) == FlattenSeq([i \in 1 .. Lines |-> Line(FixedLine(i - 1, value))])

OffSequence ==
  Blank(85) \o Line(FixedLine(255, 85)) \o Pin("border", 0) \o Pin("border", 1)
  \o epaper_spi_send(3, 1) \o epaper_spi_send(2, 5) \o epaper_spi_send(5, 14)
  \o epaper_spi_send(5, 2) \o epaper_spi_send(4, 12) \o epaper_spi_send(5, 0)
  \o epaper_spi_send(7, 13) \o epaper_spi_send(4, 80) \o epaper_spi_send(4, 160)
  \o epaper_spi_send(4, 0) \o PowerOff \o Pin("discharge", 0)

Call(from, to, steps) ==
  /\ todo = <<>> /\ mode = from
  /\ mode' = to /\ todo' = steps
  /\ UNCHANGED <<pins, regs, sent>>

epaper_config ==
  /\ Call("none", "off",
       Pin("reset", 0) \o Pin("power", 0) \o Pin("discharge", 0) \o Pin("border", 0) \o Pin("cs", 1))
  /\ UNCHANGED count

epaper_on  == Call("off", "on", epaper_cog_power_on \o epaper_cog_initialize) /\ UNCHANGED count
epaper_off == Call("on", "off", OffSequence) /\ UNCHANGED count

Frame(steps) ==
  /\ count.frames < MaxFrames
  /\ Call("on", "on", steps)
  /\ count' = [count EXCEPT !.frames = @ + 1]

\* One pass over the lines; the passes that fill stage_time are the same.
epaper_send_frame ==
  \E b \in Bytes, stage \in Stages :
    Frame(FlattenSeq([i \in 1 .. Lines |-> Line(DataLine(i - 1, <<b, (b * 3) % 256>>, stage))]))

epaper_send_partial_frame ==
  \E b \in Bytes : Frame(Line(DataLine(Lines - 1, <<b, 255 - b>>, "normal")))

epaper_uniform_display == \E value \in {170, 255} : Frame(Blank(value))

Step ==
  /\ todo # <<>>
  /\ todo' = Tail(todo)
  /\ LET s == Head(todo) IN
       /\ pins' = CASE s.do = "pin"  -> [pins EXCEPT ![s.key] = s.val]
                    [] s.do = "line" -> [pins EXCEPT !["cs"] = 1]
                    [] OTHER         -> pins
       \* the controller forgets its registers with its power
       /\ regs' = CASE s.do = "pin" /\ s.key = "power" /\ s.val = 0 -> [r \in DOMAIN regs |-> 0]
                    [] s.do = "reg" -> [regs EXCEPT ![s.key] = s.val]
                    [] s.do = "line" -> [regs EXCEPT ![4] = 3, ![2] = 47]
                    [] OTHER -> regs
       /\ sent' = IF s.do = "line" THEN s.val ELSE sent
  /\ UNCHANGED <<mode, count>>

\* The board restarts in the middle of a call; epaper_config comes first.
Restart ==
  /\ mode # "none" /\ count.restarts < MaxRestarts
  /\ mode' = "none" /\ todo' = <<>>
  /\ pins' = Floating
  /\ count' = [count EXCEPT !.restarts = @ + 1]
  /\ UNCHANGED <<regs, sent>>

Next ==
  \/ epaper_config \/ epaper_on \/ epaper_off \/ epaper_send_frame
  \/ epaper_send_partial_frame \/ epaper_uniform_display \/ Step \/ Restart

Spec == Init /\ [][Next]_vars

-----------------------------------------------------------------------------
(* Properties.                                                             *)

\* The code of a pixel at a stage: 3 black, 2 white, 1 leave it.
Wanted(stage, black) ==
  CASE stage = "compensate" -> IF black THEN 2 ELSE 3
    [] stage = "white"      -> IF black THEN 1 ELSE 2
    [] stage = "inverse"    -> IF black THEN 1 ELSE 3
    [] stage = "normal"     -> IF black THEN 3 ELSE 2

Pixel(image, x) == (image[(x \div 8) + 1] \div (2 ^ (x % 8))) % 2 = 1
\* The k-th pair of bits that goes out.
Pair(bytes, k) == (bytes[(k \div 4) + 1] \div (4 ^ (3 - (k % 4)))) % 4

\* Every pixel of a line goes out once with the code of its stage, the odd
\* ones from the last to the first and the even ones from the first to the
\* last, and the scan bytes select that line and no other
\* (epaper_send_data_line).
PixelsCoded ==
  sent.stage \in Stages =>
    /\ \A k \in 0 .. 4 * BytesPerLine - 1 :
         /\ Pair(sent.odd, k) = Wanted(sent.stage, Pixel(sent.image, 8 * BytesPerLine - 1 - 2 * k))
         /\ Pair(sent.even, k) = Wanted(sent.stage, Pixel(sent.image, 2 * k))
    /\ \A k \in 0 .. 4 * BytesPerScan - 1 : Pair(sent.scan, k) = IF k = sent.line THEN 3 ELSE 0

\* The board never discharges the panel while it powers it, and between two
\* calls the converters run just when the panel is on: also after a restart in
\* the middle of a sequence.
NeverShorted ==
  /\ pins["discharge"] = 1 => pins["power"] = 0 /\ pins["reset"] = 0
  /\ todo = <<>> /\ mode # "none" => (regs[5] # 0) = (mode = "on")

EpaperSound == PixelsCoded /\ NeverShorted
=============================================================================
