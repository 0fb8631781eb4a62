-------------------------------- MODULE Oled --------------------------------
(***************************************************************************)
(* The graphic display (extdrv/ssd130x_oled_driver.c and ..._buffer.c): an *)
(* image buffer in the board, a panel with a window and a pointer of its   *)
(* own, and a flag by which the driver remembers that the window is the    *)
(* whole screen.  Commands and data may be cut on the way.                 *)
(*                                                                         *)
(* A cell is a tile; its content is the number of the change that drew it. *)
(***************************************************************************)
EXTENDS Integers, Sequences, SequencesExt

CONSTANTS
  Width, Height,   \* the panel, in tiles
  MaxDraws,        \* bound: changes of the buffer
  MaxShows,        \* bound: calls that send
  MaxCuts          \* bound: transfers that fail

OledAssumption ==
  /\ Width \in Nat \ {0} /\ Height \in Nat \ {0}
  /\ MaxDraws \in Nat /\ MaxShows \in Nat /\ MaxCuts \in Nat

VARIABLES
  oled,    \* struct oled_display: bus, async, fullscreen
  gddram,  \* the image buffer
  panel,   \* the display: power, pump, window, pointer and cells
  call,    \* the call under way, or the last one
  flight,  \* the asynchronous transfer under way: the cells still to send
  count    \* draws, shows and cuts so far; draws since the last show

vars == <<oled, gddram, panel, call, flight, count>>

Cells == (0 .. Width - 1) \X (0 .. Height - 1)
Whole == [c0 |-> 0, c1 |-> Width - 1, p0 |-> 0, p1 |-> Height - 1]
ResetPanel(p) == [p EXCEPT !.on = FALSE, !.horizontal = FALSE, !.win = Whole, !.col = 0, !.page = 0]

Init ==
  /\ oled \in [bus : {"spi", "i2c"}, async : BOOLEAN, fullscreen : {FALSE}]
  /\ gddram = [c \in Cells |-> 0]
  /\ panel = [on |-> FALSE, horizontal |-> FALSE, win |-> Whole, col |-> 0, page |-> 0,
              cell |-> [c \in Cells |-> 0]]
  /\ call = [name |-> "off", todo |-> <<>>, ret |-> "none", tile |-> <<0, 0>>]
  /\ flight = <<>>
  /\ count = [draws |-> 0, shows |-> 0, cuts |-> 0, since |-> 0, shifted |-> FALSE]

-----------------------------------------------------------------------------
(* The panel, external: in horizontal mode the pointer goes through the    *)
(* window line by line and starts again at its end.                        *)

Cmd(name, a, b)  == [op |-> "cmd", name |-> name, a |-> a, b |-> b, cells |-> <<>>]
Send(cells)      == [op |-> "data", name |-> "data", a |-> 0, b |-> 0, cells |-> cells]

Commanded(c) ==
  CASE c.name = "col"   -> [panel EXCEPT !.win.c0 = c.a, !.win.c1 = c.b, !.col = c.a]
    [] c.name = "page"  -> [panel EXCEPT !.win.p0 = c.a, !.win.p1 = c.b, !.page = c.a]
    [] c.name = "mode"  -> [panel EXCEPT !.horizontal = TRUE]
    [] c.name = "power" -> [panel EXCEPT !.on = (c.a = 1)]
    [] OTHER            -> panel

Written(v) ==
  LET over == panel.col = panel.win.c1 IN
  [panel EXCEPT !.cell[<<panel.col, panel.page>>] = v,
     !.col = IF over THEN panel.win.c0 ELSE @ + 1,
     !.page = CASE ~over -> @ [] over /\ @ = panel.win.p1 -> panel.win.p0 [] OTHER -> @ + 1]

-----------------------------------------------------------------------------
(* The buffer.                                                             *)

\* ssd130x_buffer_set, _set_pixel and _set_tile change the buffer at any time.
Draw(cells) ==
  /\ count.draws < MaxDraws
  /\ gddram' = [c \in Cells |-> IF c \in cells THEN count.draws + 1 ELSE gddram[c]]
  /\ count' = [count EXCEPT !.draws = @ + 1, !.since = @ + 1]
  /\ UNCHANGED <<oled, panel, call, flight>>

ssd130x_buffer_set       == Draw(Cells)
ssd130x_buffer_set_pixel == \E c \in Cells : Draw({c})
ssd130x_buffer_set_tile  == \E c \in Cells : Draw({c})

-----------------------------------------------------------------------------
(* The calls: lists of commands and data.                                  *)

ssd130x_set_column_address(a, b)     == Cmd("col", a, b)
ssd130x_set_page_address(a, b)       == Cmd("page", a, b)
ssd130x_set_mem_addressing_mode      == Cmd("mode", 0, 0)
ssd130x_display_power(on)            == Cmd("power", on, 0)
ssd130x_set_scan_direction           == Cmd("look", 0, 0)
ssd130x_set_read_direction           == Cmd("look", 1, 0)
ssd130x_set_display_on               == Cmd("look", 2, 0)
Settings == {"contrast", "reverse", "offset"}

Start(name, tile, steps) ==
  /\ call.todo = <<>> /\ count.shows < MaxShows
  /\ call' = [name |-> name, todo |-> steps, ret |-> "none", tile |-> tile]
  /\ count' = [count EXCEPT !.shows = @ + 1, !.since = 0]

\* A pulse on the reset line, then the set up.
ssd130x_display_on ==
  /\ Start("on", <<0, 0>>,
       <<ssd130x_display_power(0), ssd130x_set_mem_addressing_mode, ssd130x_set_scan_direction,
         ssd130x_set_read_direction, ssd130x_set_display_on, ssd130x_display_power(1)>>)
  /\ oled' = [oled EXCEPT !.fullscreen = FALSE]
  /\ panel' = ResetPanel(panel)
  /\ UNCHANGED <<gddram, flight>>

ssd130x_display_off ==
  /\ call.name # "off" /\ Start("power", <<0, 0>>, <<ssd130x_display_power(0)>>)
  /\ UNCHANGED <<oled, gddram, panel, flight>>

ssd130x_set_contrast ==
  /\ call.name # "off" /\ \E s \in Settings : Start("setting", <<0, 0>>, <<Cmd(s, 0, 0)>>)
  /\ UNCHANGED <<oled, gddram, panel, flight>>

AllCells == [i \in 1 .. Width * Height |-> <<(i - 1) % Width, (i - 1) \div Width>>]
Window(x0, x1, y0, y1) == <<ssd130x_set_column_address(x0, x1), ssd130x_set_page_address(y0, y1)>>

\* Images are shown once the set up has chosen the mode.
ssd130x_display_full_screen ==
  /\ panel.horizontal
  /\ Start("full", <<0, 0>>,
       (IF oled.fullscreen THEN <<>> ELSE Window(0, Width - 1, 0, Height - 1)) \o <<Send(AllCells)>>)
  /\ UNCHANGED <<oled, gddram, panel, flight>>

FlagAfterTile == FALSE

ssd130x_update_tile ==
  /\ panel.horizontal
  /\ \E c \in Cells :
       Start("tile", c, Window(c[1], c[1], c[2], c[2]) \o <<Send(<<c>>)>>)
  /\ oled' = [oled EXCEPT !.fullscreen = FlagAfterTile]
  /\ UNCHANGED <<gddram, panel, flight>>

\* A transfer waits for the bus while an asynchronous one goes on.
BusFree == flight = <<>>
MayFail == oled.bus = "i2c" /\ count.cuts < MaxCuts
Ends(ret) == call' = [call EXCEPT !.todo = <<>>, !.ret = ret]
Goes == call' = [call EXCEPT !.todo = Tail(@), !.ret = IF Len(@) = 1 THEN "done" ELSE @]

ssd130x_send_command ==
  /\ call.todo # <<>> /\ Head(call.todo).op = "cmd" /\ BusFree
  /\ \/ panel' = Commanded(Head(call.todo)) /\ Goes /\ UNCHANGED count
     \/ MayFail /\ Ends("error") /\ count' = [count EXCEPT !.cuts = @ + 1] /\ UNCHANGED panel
  /\ UNCHANGED <<oled, gddram, flight>>

\* The flag is raised between the window and the first data.
Flag == IF call.name = "full" THEN TRUE ELSE oled.fullscreen

\* The data of a call: sent here, or left to the interrupt, which the call does
\* not wait for.  A tile that is left to the interrupt goes to no one: the
\* address in front of it is taken away before it is sent.
ssd130x_send_data ==
  /\ call.todo # <<>> /\ Head(call.todo).op = "data" /\ BusFree
  /\ oled' = [oled EXCEPT !.fullscreen = Flag]
  /\ LET cells == Head(call.todo).cells IN
     \/ /\ oled.bus = "i2c" /\ oled.async
        /\ flight' = IF call.name = "full" THEN cells ELSE <<>>
        /\ Goes /\ UNCHANGED <<panel, count>>
     \/ /\ ~(oled.bus = "i2c" /\ oled.async) /\ cells # <<>>
        /\ panel' = Written(gddram[Head(cells)])
        /\ call' = IF Len(cells) = 1
                   THEN [call EXCEPT !.todo = Tail(@), !.ret = "done"]
                   ELSE [call EXCEPT !.todo[1].cells = Tail(@)]
        /\ UNCHANGED <<flight, count>>
     \/ /\ ~oled.async /\ MayFail /\ Ends("error")
        /\ count' = [count EXCEPT !.cuts = @ + 1, !.shifted = TRUE]
        /\ UNCHANGED <<panel, flight>>
  /\ UNCHANGED gddram

\* The interrupt sends one more cell, as the buffer is now, or is refused.
Interrupt ==
  /\ flight # <<>>
  /\ \/ panel' = Written(gddram[Head(flight)]) /\ flight' = Tail(flight) /\ UNCHANGED count
     \/ MayFail /\ flight' = <<>> /\ count' = [count EXCEPT !.cuts = @ + 1, !.shifted = TRUE]
        /\ UNCHANGED panel
  /\ UNCHANGED <<oled, gddram, call>>

Next ==
  \/ ssd130x_buffer_set \/ ssd130x_buffer_set_pixel \/ ssd130x_buffer_set_tile
  \/ ssd130x_display_on \/ ssd130x_display_off \/ ssd130x_set_contrast
  \/ ssd130x_display_full_screen \/ ssd130x_update_tile
  \/ ssd130x_send_command \/ ssd130x_send_data \/ Interrupt

Spec == Init /\ [][Next]_vars

-----------------------------------------------------------------------------
(* Properties.                                                             *)

\* When a call that shows the buffer has returned success and its transfer is
\* over, the panel shows what the buffer holds: the whole image, or the tile,
\* whatever windows the calls before it set.  The buffer was not drawn in
\* since, no transfer of data was ever cut, and a tile is not sent
\* asynchronously.
PanelShows ==
  (call.ret = "done" /\ BusFree /\ count.since = 0 /\ ~count.shifted) =>
    /\ call.name = "full" => panel.cell = gddram
    /\ (call.name = "tile" /\ ~(oled.bus = "i2c" /\ oled.async))
         => panel.cell[call.tile] = gddram[call.tile]
=============================================================================
