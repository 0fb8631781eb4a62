----------------------------- MODULE MCDrivers -----------------------------
(***************************************************************************)
(* What the other drivers wait on, for TLC: the system tick and the time   *)
(* (Clock), and the I2C engine under the EEPROM (Eeprom).  A behaviour is  *)
(* one of one part.                                                        *)
(***************************************************************************)
EXTENDS Clock, Sequences

CONSTANTS
  Ops, Chips, Size, LoSize, SmallPage, BigPage, MaxFaults, MaxRestarts, RoughProbe

\* Writes inside a page, across two and across three, and reads.
SomeOps ==
  {[kind |-> "write", off |-> 1, data |-> <<1, 2, 1>>],
   [kind |-> "write", off |-> 2, data |-> <<2, 2>>],
   [kind |-> "write", off |-> 4, data |-> <<1>>],
   [kind |-> "read", off |-> 0, data |-> <<0, 0, 0, 0, 0>>],
   [kind |-> "read", off |-> 3, data |-> <<0>>]}

VARIABLES
  part,
  state, outBuff, ctrlBuff, writeIndex, inBuff, readLength, readIndex,
  sta, sto, aa, dat, status,
  eepromType, caller, op, written, answer, chip, mem, page, ptr, phase, busy,
  bus, faults, restarts

E == INSTANCE Eeprom WITH pc <- caller

ASSUME EepromAssumptions == E!SizeAssumption /\ E!OpAssumption /\ E!BoundAssumption

store   == <<state, outBuff, ctrlBuff, writeIndex, inBuff, readLength, readIndex,
             sta, sto, aa, dat, status, eepromType, caller, op, written, answer,
             chip, mem, page, ptr, phase, busy, bus, faults, restarts>>
allVars == <<part, vars, store>>

BothInit ==
  /\ part \in {"clock", "eeprom"}
  /\ Init /\ (part # "clock" => client = CHOOSE c \in Clients : TRUE)
  /\ E!Init /\ (part # "eeprom" => chip = (CHOOSE c \in Chips : TRUE)
                                   /\ op = CHOOSE o \in Ops : TRUE)

BothNext ==
  \/ part = "clock" /\ Next /\ UNCHANGED <<part, store>>
  \/ part = "eeprom" /\ E!Next /\ UNCHANGED <<part, vars>>

\* The fairness of each part, for the behaviours of that part.
Calling == pc # "idle" /\ (Sleeping \/ Registering \/ TimeKeeping)
BothSpec ==
  /\ BothInit /\ [][BothNext]_allVars
  /\ WF_allVars(part = "clock" /\ Cycle /\ UNCHANGED <<part, store>>)
  /\ WF_allVars(part = "clock" /\ SysTick_Handler /\ UNCHANGED <<part, store>>)
  /\ SF_allVars(part = "clock" /\ Calling /\ UNCHANGED <<part, store>>)
  /\ WF_allVars(part = "eeprom" /\ E!Handler /\ UNCHANGED <<part, vars>>)
  /\ WF_allVars(part = "eeprom" /\ E!Events /\ UNCHANGED <<part, vars>>)
  /\ WF_allVars(part = "eeprom" /\ E!WriteCycleEnds /\ UNCHANGED <<part, vars>>)
  /\ WF_allVars(part = "eeprom" /\ E!Driver /\ UNCHANGED <<part, vars>>)

\* The properties of the EEPROM, and that every call of both parts ends.
EepromInStep    == E!EepromInStep
ImplementsStore == E!ImplementsStore
CallsEnd        == SleepsEnd /\ E!CallsReturn
=============================================================================
