------------------------------- MODULE MCUart -------------------------------
(***************************************************************************)
(* The three users of a UART for TLC, each on its own: the driver          *)
(* (Serial), the line input of rf_data (UartInput) and the transceiver     *)
(* driver (Ncn5120).  A behaviour is one of one part; the others rest.     *)
(* Init, Next, Loop and vars are those of the line input.                  *)
(***************************************************************************)
EXTENDS UartInput

CONSTANTS
  OutSize, Lengths, MaxCalls, MaxQuick, RxWhenMasked,
  Size, Reload, Gaps, MaxRequests, MaxFrame

VARIABLES
  part,
  masks, uart, fifo, txi, rxi, callers, wire, accepted, quick,
  bus, dev, call, chip, count, mixed, timing

S == INSTANCE Serial
N == INSTANCE Ncn5120 WITH MaxCalls <- MaxRequests

ASSUME PartAssumptions ==
  S!SerialAssumption /\ UartAssumption /\ N!NcnAssumption

serial  == <<masks, uart, fifo, txi, rxi, callers, wire, accepted, quick>>
knx     == <<bus, dev, call, chip, count, mixed, timing>>
allVars == <<part, serial, vars, knx>>

AllInit ==
  /\ part \in {"serial", "input", "ncn5120"}
  /\ S!Init /\ (part # "serial" => ~masks)
  /\ Init /\ (part # "input" => polite)
  /\ N!Init /\ (part # "ncn5120" => bus = "busy")

AllNext ==
  \/ part = "serial" /\ S!Next /\ UNCHANGED <<part, vars, knx>>
  \/ part = "input" /\ Next /\ UNCHANGED <<part, serial, knx>>
  \/ part = "ncn5120" /\ N!Next /\ UNCHANGED <<part, serial, vars>>

AllSpec ==
  /\ AllInit /\ [][AllNext]_allVars
  /\ WF_allVars(part = "serial" /\ S!ShiftOut /\ UNCHANGED <<part, vars, knx>>)
  /\ WF_allVars(part = "serial" /\ S!UartHandler /\ UNCHANGED <<part, vars, knx>>)
  /\ \A c \in {"main", "irq"} :
       SF_allVars(part = "serial" /\ S!Busy(c) /\ UNCHANGED <<part, vars, knx>>)
  /\ WF_allVars(part = "input" /\ Loop /\ UNCHANGED <<part, serial, knx>>)
  /\ WF_allVars(part = "ncn5120" /\ N!Step /\ UNCHANGED <<part, serial, vars>>)
  /\ WF_allVars(part = "ncn5120" /\ N!Chip /\ UNCHANGED <<part, serial, vars>>)

\* The properties of the parts, and LinesSound of the line input.
MessagesWhole   == S!MessagesWhole
TransceiverKept == N!RepliesMatch /\ N!LongGapsMarked
NobodyWaits     == S!WritesReturn /\ LinesLeave /\ N!CallsReturn
=============================================================================
