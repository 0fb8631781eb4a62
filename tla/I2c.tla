-------------------------------- MODULE I2c --------------------------------
(***************************************************************************)
(* drivers/i2c.c: the I2C engine of the microcontroller as a bus master.   *)
(* A call fills struct i2c_bus and sets the START flag; the bus then runs  *)
(* on interrupts, one per bus event, whose handler reads the status code   *)
(* and sets the flags for the next event; the caller spins on the state.   *)
(* The bus itself and the devices on it belong to the modules that extend  *)
(* this one: they raise a status when none is pending (Event).             *)
(*                                                                         *)
(* A byte is [k, v]: an address with the write or read bit ("w", "r"), the *)
(* address of another chip ("other") or data ("d").  Buffers are           *)
(* sequences, so that byte 0 of the code is byte 1 here.                   *)
(***************************************************************************)
EXTENDS Integers, Sequences

VARIABLES
  state,      \* i2c->state
  outBuff,    \* out_buff, write_length bytes
  ctrlBuff,   \* repeated_start_restart, <<>> for NULL
  writeIndex, \* write_index
  inBuff,     \* in_buff, <<>> for NULL
  readLength, \* read_length
  readIndex,  \* read_index
  sta,        \* the START flag
  sto,        \* the STOP flag
  aa,         \* the ASSERT_ACK flag
  dat,        \* the data register
  status      \* the status code while the interrupt is pending, or None

callVars == <<outBuff, ctrlBuff, inBuff, readLength>>
i2cVars == <<state, callVars, writeIndex, readIndex, sta, sto, aa, dat, status>>

None == "none"
NoByte == [k |-> "d", v |-> 0]

I2cInit ==
  /\ state = "ok"
  /\ outBuff = <<>> /\ ctrlBuff = <<>> /\ writeIndex = 0
  /\ inBuff = <<>> /\ readLength = 0 /\ readIndex = 0
  /\ sta = FALSE /\ sto = FALSE /\ aa = FALSE
  /\ dat = NoByte /\ status = None

-----------------------------------------------------------------------------
(* The calls.                                                              *)

\* i2c_read up to its wait.  A state left by the last call is overwritten.
StartRead(cmd, ctrl, count) ==
  /\ state # "busy"
  /\ state' = "busy"
  /\ outBuff' = cmd /\ ctrlBuff' = ctrl
  /\ inBuff' = [i \in 1 .. count |-> NoByte]
  /\ readLength' = count /\ readIndex' = 0
  /\ sta' = TRUE
  /\ UNCHANGED <<writeIndex, sto, aa, dat, status>>

\* i2c_write_async.
StartWrite(cmd) ==
  /\ state # "busy"
  /\ state' = "busy"
  /\ outBuff' = cmd /\ ctrlBuff' = <<>>
  /\ inBuff' = <<>> /\ readLength' = 0
  /\ sta' = TRUE
  /\ UNCHANGED <<writeIndex, readIndex, sto, aa, dat, status>>

\* The end of the wait, and what i2c_state makes of the state.
Finished == state # "busy"
Success  == state \in {"ok", "no_data"}

-----------------------------------------------------------------------------
(* I2C_0_Handler, one action per status code.                              *)

Pending(codes) == status \in codes /\ status' = None

SendNext ==
  /\ dat' = outBuff[writeIndex + 1]
  /\ writeIndex' = writeIndex + 1
End(s) == state' = s /\ sto' = TRUE

BusError ==      \* 0x00
  /\ Pending({"00"})
  /\ aa' = TRUE /\ End("bus_error")
  /\ UNCHANGED <<callVars, writeIndex, readIndex, sta, dat>>

Started ==       \* 0x08
  /\ Pending({"08"})
  /\ sta' = FALSE
  /\ IF outBuff # <<>>
     THEN /\ dat' = outBuff[1] /\ writeIndex' = 1
          /\ UNCHANGED <<state, sto>>
     ELSE End("no_data") /\ writeIndex' = 0 /\ UNCHANGED dat
  /\ UNCHANGED <<callVars, readIndex, aa>>

Restarted ==     \* 0x10
  /\ Pending({"10"})
  /\ sta' = FALSE
  /\ readIndex' = 0
  /\ SendNext
  /\ UNCHANGED <<state, callVars, sto, aa>>

ArbitrationLost == \* 0x38
  /\ Pending({"38"})
  /\ state' = "arbitration"
  /\ UNCHANGED <<callVars, writeIndex, readIndex, sta, sto, aa, dat>>

\* The condition to execute after the byte that was just sent.
Condition == IF ctrlBuff = <<>> THEN "cont" ELSE ctrlBuff[writeIndex]
Execute(stopped) ==
  IF Condition = "cont" THEN SendNext /\ UNCHANGED <<state, sta, sto>>
  ELSE /\ UNCHANGED <<dat, writeIndex>>
       /\ IF Condition = "stop" THEN End(stopped) /\ UNCHANGED sta
          ELSE /\ sta' = TRUE /\ UNCHANGED state
               /\ IF Condition = "stop_start" THEN sto' = TRUE ELSE UNCHANGED sto

AddressAcked ==  \* 0x18
  /\ Pending({"18"})
  /\ IF Len(outBuff) = 1
     THEN End("no_data") /\ UNCHANGED <<writeIndex, sta, dat>>
     ELSE Execute("no_data")
  /\ UNCHANGED <<callVars, readIndex, aa>>

\* Mutant: the exchange starts over instead of ending.
NackedStartsOver == sto' = TRUE /\ sta' = TRUE /\ UNCHANGED state
NackedEnds == End("nack") /\ UNCHANGED sta
Nacked ==        \* 0x20, 0x30, 0x48
  /\ Pending({"20", "30", "48"})
  /\ NackedEnds
  /\ UNCHANGED <<callVars, writeIndex, readIndex, aa, dat>>

DataAcked ==     \* 0x28
  /\ Pending({"28"})
  /\ IF writeIndex < Len(outBuff) THEN Execute("ok")
     ELSE /\ IF readLength # 0 THEN sta' = TRUE /\ UNCHANGED <<state, sto>>
             ELSE End("ok") /\ UNCHANGED sta
          /\ UNCHANGED <<dat, writeIndex>>
  /\ UNCHANGED <<callVars, readIndex, aa>>

\* After the byte being received, one more is wanted.
WantsMore(i) == i + 1 < readLength
AddressRAcked == \* 0x40
  /\ Pending({"40"})
  /\ aa' = WantsMore(readIndex)
  /\ UNCHANGED <<state, callVars, writeIndex, readIndex, sta, sto, dat>>

StoreByte ==
  /\ inBuff' = IF inBuff = <<>> THEN inBuff ELSE [inBuff EXCEPT ![readIndex + 1] = dat]
  /\ readIndex' = readIndex + 1
  /\ UNCHANGED <<outBuff, ctrlBuff, readLength>>

DataReceived ==  \* 0x50
  /\ Pending({"50"})
  /\ StoreByte
  /\ aa' = WantsMore(readIndex + 1)
  /\ UNCHANGED <<state, writeIndex, sta, sto, dat>>

\* The last byte.
LastEnds == End("ok") /\ UNCHANGED sta
LastReceived ==  \* 0x58
  /\ Pending({"58"})
  /\ StoreByte
  /\ LastEnds
  /\ UNCHANGED <<writeIndex, aa, dat>>

I2c_0_Handler ==
  \/ BusError \/ Started \/ Restarted \/ ArbitrationLost \/ AddressAcked
  \/ Nacked \/ DataAcked \/ AddressRAcked \/ DataReceived \/ LastReceived
=============================================================================
