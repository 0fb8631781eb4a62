----------------------------- MODULE UartInput -----------------------------
(***************************************************************************)
(* How a typed line becomes a message: the UART interrupt appends          *)
(* characters to uart_buff (uartInput.c), the button's interrupt replaces  *)
(* them by a one-character command, and the main loop copies, sends, wipes *)
(* and rewinds the buffer (main.c).  Nothing is masked: an interrupt may   *)
(* come between any two accesses of the loop.                              *)
(*                                                                         *)
(* A character is the index of the event that produced it, 0 stands for    *)
(* the '0' of memset.                                                      *)
(***************************************************************************)
EXTENDS Integers, Sequences, FiniteSetsExt

CONSTANTS
  BuffLen,    \* UART_BUFF_LEN
  BlockLen,   \* ENCRYPT_BLOCK_LEN
  MaxChars,   \* bound: characters typed, ends of line included
  MaxPresses  \* bound: releases of the button

UartAssumption ==
  /\ BuffLen \in Nat \ {0}
  /\ BlockLen \in Nat \ {0}
  /\ MaxChars \in Nat
  /\ MaxPresses \in Nat

VARIABLES
  polite,     \* whether whoever types waits for the line to be taken
  input,      \* the events so far: "char", "eol" or "button"
  uart_buff,  \* the event in each slot
  uart_ptr,
  uart_done,
  pc,         \* where loop() is in its uart_done block
  nb_bloc,    \* the block count, from its own reading of uart_ptr
  buff,       \* the slots memcpy has copied so far
  outbox      \* the messages given to send_message

mainVars == <<pc, nb_bloc, buff, outbox>>
vars == <<polite, input, uart_buff, uart_ptr, uart_done, mainVars>>

Slot == 0 .. BuffLen - 1
Count(kinds) == Cardinality({k \in DOMAIN input : input[k] \in kinds})

Init ==
  /\ polite \in BOOLEAN
  /\ input = <<>>
  /\ uart_buff = [i \in Slot |-> 0]
  /\ uart_ptr = 0
  /\ uart_done = FALSE
  /\ pc = "poll"
  /\ nb_bloc = 0
  /\ buff = <<>>
  /\ outbox = <<>>

-----------------------------------------------------------------------------
(* The interrupts.                                                         *)

RaisesDone(c) == c = "eol"

Fits == uart_ptr < BuffLen

\* handle_uart_cmd: c is "eol" for '\n' and for '\r'.
handle_uart_cmd(c) ==
  /\ Count({"char", "eol"}) < MaxChars
  /\ polite => ~uart_done
  /\ input' = Append(input, c)
  /\ IF Fits
     THEN /\ uart_buff' = [uart_buff EXCEPT ![uart_ptr] = Len(input) + 1]
          /\ uart_ptr' = uart_ptr + 1
     ELSE UNCHANGED <<uart_buff, uart_ptr>>
  /\ uart_done' = (uart_done \/ RaisesDone(c))
  /\ UNCHANGED <<polite, mainVars>>

\* activate_chenillard: the command takes the first slot, whatever it held.
activate_chenillard ==
  /\ Count({"button"}) < MaxPresses
  /\ polite => ~uart_done /\ uart_ptr = 0
  /\ input' = Append(input, "button")
  /\ uart_buff' = [uart_buff EXCEPT ![0] = Len(input) + 1]
  /\ uart_ptr' = 1
  /\ uart_done' = TRUE
  /\ UNCHANGED <<polite, mainVars>>

-----------------------------------------------------------------------------
(* The uart_done block of loop(), one step per access an interrupt can     *)
(* come between.                                                           *)

Poll ==
  /\ pc = "poll"
  /\ uart_done
  /\ nb_bloc' = uart_ptr \div BlockLen
  /\ buff' = <<>>
  /\ pc' = "copy"
  /\ UNCHANGED <<polite, input, uart_buff, uart_ptr, uart_done, outbox>>

\* memcpy, one slot at a time.
CopySlot ==
  /\ pc = "copy"
  /\ buff' = Append(buff, uart_buff[Len(buff)])
  /\ pc' = IF Len(buff') = BuffLen THEN "send" ELSE "copy"
  /\ UNCHANGED <<polite, input, uart_buff, uart_ptr, uart_done, nb_bloc, outbox>>

\* encrypt and send_message, which is given uart_ptr as it is now.
Send ==
  /\ pc = "send"
  /\ outbox' = Append(outbox, [data |-> SubSeq(buff, 1, uart_ptr), blocks |-> nb_bloc])
  /\ pc' = "wipe"
  /\ UNCHANGED <<polite, input, uart_buff, uart_ptr, uart_done, nb_bloc, buff>>

\* Mutant: the buffer is not wiped.
WipedNot(b) == b
Wiped(b) == [i \in DOMAIN b |-> 0]

Wipe ==
  /\ pc = "wipe"
  /\ uart_buff' = Wiped(uart_buff)
  /\ pc' = "rewind"
  /\ UNCHANGED <<polite, input, uart_ptr, uart_done, nb_bloc, buff, outbox>>

Rewound == 0

Rewind ==
  /\ pc = "rewind"
  /\ uart_ptr' = Rewound
  /\ pc' = "release"
  /\ UNCHANGED <<polite, input, uart_buff, uart_done, nb_bloc, buff, outbox>>

Release ==
  /\ pc = "release"
  /\ uart_done' = FALSE
  /\ pc' = "poll"
  /\ UNCHANGED <<polite, input, uart_buff, uart_ptr, nb_bloc, buff, outbox>>

Loop == Poll \/ CopySlot \/ Send \/ Wipe \/ Rewind \/ Release
Interrupt == (\E c \in {"char", "eol"} : handle_uart_cmd(c)) \/ activate_chenillard

Next == Loop \/ Interrupt
Spec == Init /\ [][Next]_vars

\* loop() runs for ever; nobody has to type.
FairSpec == Spec /\ WF_vars(Loop)

-----------------------------------------------------------------------------
(* Properties.                                                             *)

\* Where event k went: its places in the messages.
Places(k) == {at \in (DOMAIN outbox) \X (1 .. BuffLen) :
                LET data == outbox[at[1]].data
                IN  at[2] \in DOMAIN data /\ data[at[2]] = k}

\* However the interrupts fall between the copy, the wipe and the rewind, no
\* character leaves in two messages or twice in one.
NoCharTwice == \A k \in DOMAIN input : Cardinality(Places(k)) <= 1

\* The events that end a line, and the line that event k ends.
Ends == {k \in DOMAIN input : input[k] \in {"eol", "button"}}
Line(k) ==
  LET prev == Max({e \in Ends : e < k} \cup {0})
  IN  [i \in 1 .. Min({k - prev, BuffLen}) |-> prev + i]

\* For someone who waits for a line to be taken before typing the next, the
\* messages are the lines: the i-th message is the i-th line, cut to the
\* buffer, with as many encrypted blocks as its length says.
MessagesAreLines ==
  polite =>
    \A m \in DOMAIN outbox : \E k \in Ends :
      /\ Cardinality({e \in Ends : e <= k}) = m
      /\ outbox[m].data = Line(k)
      /\ outbox[m].blocks = Len(Line(k)) \div BlockLen

\* What loop() sends is what was typed: nothing twice, and whole lines from
\* whoever waits for them.
LinesSound == NoCharTwice /\ MessagesAreLines

\* Every line of such a typist leaves.
LinesLeave == []<>(polite => Len(outbox) >= Cardinality(Ends))
=============================================================================
