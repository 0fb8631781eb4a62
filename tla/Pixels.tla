------------------------------- MODULE Pixels -------------------------------
(***************************************************************************)
(* What is shown on LEDs and on the graphic display, before a bus carries  *)
(* it: the strip of WS2812 LEDs with its buffer (extdrv/ws2812.c), and the *)
(* images uncompress_image writes (extdrv/ssd130x_oled_buffer.c), in C and *)
(* in assembly.                                                            *)
(***************************************************************************)
EXTENDS Integers, Sequences, FiniteSetsExt

CONSTANTS
  NB_LEDS,   \* the LEDs of the strip
  Colors,    \* the colours there may be, <<red, green, blue>>
  Streams,   \* the compressed images, each a sequence of signed bytes
  ImageSize  \* the bytes of an image

Leds == 0 .. NB_LEDS - 1
Dark == <<0, 0, 0>>

VARIABLES
  ws2812, \* the buffer, the highest LED set, the pixels set since it was cleared,
          \* and whether a frame of no given length was the last thing sent
  strip,  \* the colour each LED of the strip has
  image   \* the stream, the bytes either routine has written, and where they are

-----------------------------------------------------------------------------
(* The strip.                                                              *)

\* The order of the colours in the buffer and on the wire.
Bytes(red, green, blue) == <<green, red, blue>>

ws2812_set_pixel(n, c) ==
  /\ n \in Leds
  /\ ws2812' = [ws2812 EXCEPT !.data[n] = Bytes(c[1], c[2], c[3]), !.max = Max({@, n}),
                              !.set[n] = c, !.sent = FALSE]
  /\ UNCHANGED <<strip, image>>

Cleared == [data |-> [n \in Leds |-> Dark], max |-> 0, set |-> [n \in Leds |-> "never"],
            sent |-> FALSE]
ws2812_clear_buffer == ws2812' = Cleared

\* A frame ends one LED behind the number asked for; behind the buffer there
\* are other bytes of the program, for an LED that is not there.  An LED takes
\* green, red and blue.
Frame(data, nb) ==
  strip' = [n \in Leds |-> IF n <= nb THEN <<data[n][2], data[n][1], data[n][3]>> ELSE strip[n]]
LastLed(nb_leds) == IF nb_leds = 0 THEN ws2812.max ELSE nb_leds

ws2812_send_frame(nb_leds) ==
  /\ nb_leds <= NB_LEDS
  /\ Frame(ws2812.data, LastLed(nb_leds))
  /\ ws2812' = [ws2812 EXCEPT !.sent = @ \/ nb_leds = 0]
  /\ UNCHANGED image

ws2812_clear ==
  /\ ws2812_clear_buffer
  /\ Frame([n \in Leds |-> Dark], NB_LEDS)
  /\ UNCHANGED image

ws2812_get_pixel(n) == <<ws2812.data[n][2], ws2812.data[n][1], ws2812.data[n][3]>>

-----------------------------------------------------------------------------
(* The images, a run at a time.  A negative byte is followed by as many    *)
(* bytes to copy, another by one to repeat three times more than it says.  *)

Run(in) ==
  LET b == image.stream[in] IN
  IF b < 0 THEN SubSeq(image.stream, in + 1, in - b)
  ELSE [i \in 1 .. b + 3 |-> image.stream[in + 1]]
Behind(in) == LET b == image.stream[in] IN IF b < 0 THEN in + 1 - b ELSE in + 2

\* The C routine ends at or behind the end of the image, the assembly one only
\* at the end: past it, it goes on with what follows the stream.
Ends(which, out) == Len(out) = ImageSize \/ (which = "c" /\ Len(out) > ImageSize)

\* Each routine takes a run; the stream is over for a routine that goes past it.
Take(which) ==
  LET r == image[which] IN
  /\ image.stream # <<>> /\ ~ r.done
  /\ r.in <= Len(image.stream) /\ Behind(r.in) - 1 <= Len(image.stream)
  /\ LET out == r.out \o Run(r.in) IN
       image' = [image EXCEPT ![which] = [in |-> Behind(r.in), out |-> out, done |-> Ends(which, out)]]
  /\ UNCHANGED <<ws2812, strip>>
uncompress_image     == Take("c")
uncompress_image_asm == Take("asm")

-----------------------------------------------------------------------------
Fresh == [in |-> 1, out |-> <<>>, done |-> FALSE]
Init ==
  /\ ws2812 = Cleared
  /\ strip = [n \in Leds |-> Dark]
  /\ image \in [stream : Streams \union {<<>>}, c : {Fresh}, asm : {Fresh}]

Next ==
  \/ /\ image.stream = <<>>
     /\ \/ \E n \in Leds, c \in Colors : ws2812_set_pixel(n, c)
        \/ \E nb \in 0 .. NB_LEDS : ws2812_send_frame(nb)
        \/ ws2812_clear
        \/ ws2812_clear_buffer /\ UNCHANGED <<strip, image>>
  \/ uncompress_image
  \/ uncompress_image_asm

-----------------------------------------------------------------------------
(* Properties.                                                             *)

\* A frame of no given length shows every pixel set since the buffer was
\* cleared, in its colour; a pixel reads as it was set (ws2812.c:130, 160).
PixelsKept ==
  \A n \in Leds : ws2812.set[n] # "never" =>
    /\ ws2812_get_pixel(n) = ws2812.set[n]
    /\ ws2812.sent => strip[n] = ws2812.set[n]

\* An image that ends with a run at its size is the same from both routines,
\* and C never stops short of it (ssd130x_oled_buffer.c:59, 82).
ImagesAgree ==
  /\ image.c.done => Len(image.c.out) >= ImageSize
  /\ image.c.done /\ image.asm.done => image.c.out = image.asm.out
  /\ image.c.done /\ Len(image.c.out) = ImageSize => Len(image.asm.out) <= ImageSize

PixelsSound == PixelsKept /\ ImagesAgree
=============================================================================
