------------------------------ MODULE Console -------------------------------
(***************************************************************************)
(* The console input: the receive interrupt of serial.c stores characters  *)
(* in a ring and indicates them to finsh, which releases the semaphore     *)
(* rx_sem (module Semaphore); the finsh thread takes it and reads the      *)
(* ring, a line at a time.  The interrupt comes between any two sections   *)
(* of the thread.                                                          *)
(***************************************************************************)
EXTENDS Semaphore

CONSTANTS shell,               \* the finsh thread
          Plain,               \* characters that are no end of line
          NoChar,
          UART_RX_BUFFER_SIZE,
          MaxBurst             \* bound: characters one interrupt finds in the USART

ASSUME ConsoleAssumption ==
  /\ shell \in Thread \ {Idle}
  /\ UART_RX_BUFFER_SIZE \in Nat \ {0, 1} /\ MaxBurst \in Nat \ {0}
  /\ {"CR", "LF", NoChar} \cap Plain = {} /\ NoChar \notin {"CR", "LF"}

Char == Plain \cup {"CR", "LF"}

VARIABLES
  rx,   \* uart->int_rx (rx_buffer, read_index, save_index) and burst, the
        \* characters the interrupt that runs has stored
  fin,  \* the finsh thread: take, wait (in rt_sem_take), read, got (it has the
        \* character ch), next and last (the same, after a CR)
  owed  \* history: characters in the ring that no release of their own announced

console == <<rx, fin, owed>>
consoleVars == <<k, pc, own, console>>

Index == 0 .. UART_RX_BUFFER_SIZE - 1

(* rt_serial_init, finsh_system_init and finsh_set_device *)
ConsoleInit ==
  /\ Init /\ value = 0 /\ flag = "FIFO"
  /\ rx = [buffer |-> [i \in Index |-> NoChar], read |-> 0, save |-> 0, burst |-> 0]
  /\ fin = [op |-> "take", ch |-> NoChar]
  /\ owed = 0

Following(i) == IF i + 1 >= UART_RX_BUFFER_SIZE THEN 0 ELSE i + 1

(* The characters in the ring, oldest first. *)
Unread ==
  LET n == (rx.save - rx.read) % UART_RX_BUFFER_SIZE
  IN  [i \in 1 .. n |-> rx.buffer[(rx.read + i - 1) % UART_RX_BUFFER_SIZE]]
-----------------------------------------------------------------------------
(* The receive interrupt *)

(* Mutant: stores and forgets to look whether the ring is full. *)
StoreUnchecked(c) ==
  [rx EXCEPT !.buffer[rx.save] = c, !.save = Following(rx.save), !.burst = @ + 1]

(* One pass of its loop: the character is stored, and if the ring is full  *)
(* the oldest one discarded.                                               *)
Store(c) ==
  LET save == Following(rx.save)
  IN  [ rx EXCEPT !.buffer[rx.save] = c, !.save = save, !.burst = @ + 1,
                  !.read = IF save = @ THEN Following(@) ELSE @ ]

ReceiveChar(c) ==
  /\ k.isr /\ rx.burst < MaxBurst /\ value < MaxValue
  /\ rx' = Store(c)
  /\ owed' = IF rx.burst > 0 /\ owed < UART_RX_BUFFER_SIZE THEN owed + 1 ELSE owed
  /\ UNCHANGED <<k, pc, own, fin>>

(* Mutant: no release for a character that comes behind others. *)
IndicateFirst ==
  /\ k.isr /\ rx.burst > 0
  /\ IF Len(Unread) = 1 THEN ReleaseInHandler ELSE UNCHANGED <<k, pc, own>>
  /\ rx' = [rx EXCEPT !.burst = 0]
  /\ UNCHANGED <<fin, owed>>

(* device->rx_indicate, finsh_rx_ind *)
Indicate ==
  /\ k.isr /\ rx.burst > 0
  /\ ReleaseInHandler
  /\ rx' = [rx EXCEPT !.burst = 0]
  /\ UNCHANGED <<fin, owed>>
-----------------------------------------------------------------------------
(* The finsh thread *)

Runs(op) == Calls /\ me = shell /\ fin.op = op

(* rt_sem_take(&shell->rx_sem, RT_WAITING_FOREVER) *)
ShellTake ==
  /\ Runs("take")
  /\ rt_sem_take("forever")
  /\ fin' = [fin EXCEPT !.op = IF value > 0 THEN "read" ELSE "wait"]
  /\ UNCHANGED <<rx, owed>>

ShellWoken ==
  /\ me = shell /\ TakeReturn
  /\ fin' = [fin EXCEPT !.op = IF k.error[shell] = "EOK" THEN "read" ELSE "take"]
  /\ UNCHANGED <<rx, owed>>

(* rt_serial_read of one character, which is handled where op goes, and    *)
(* what the thread does if there is none.                                  *)
rt_serial_read(op) ==
  IF rx.read # rx.save
  THEN /\ fin' = [op |-> op, ch |-> rx.buffer[rx.read]]
       /\ rx' = [rx EXCEPT !.read = Following(@)]
       /\ owed' = IF Len(Unread) = 1 THEN 0 ELSE owed
  ELSE /\ fin' = [op |-> "take", ch |-> NoChar]
       /\ UNCHANGED <<rx, owed>>

ShellRead ==
  /\ \/ Runs("read") /\ rt_serial_read("got")
     \/ Runs("next") /\ rt_serial_read("last")
  /\ UNCHANGED <<k, pc, own>>

(* Mutant: goes on with the character it has. *)
ShellCharAgain ==
  /\ Runs("got") \/ Runs("last")
  /\ IF fin.ch \in Plain THEN UNCHANGED fin
     ELSE fin' = [ op |-> IF fin.ch = "CR" /\ fin.op = "got" THEN "next" ELSE "take",
                   ch |-> NoChar ]
  /\ UNCHANGED <<k, pc, own, rx, owed>>

(* After a CR it looks for the LF that may follow: the next character      *)
(* takes the place of the CR.  The loop is left at the end of a line, with *)
(* the line run.                                                           *)
ShellChar ==
  /\ Runs("got") \/ Runs("last")
  /\ fin' = [ op |-> CASE fin.ch \in Plain -> "read"
                       [] fin.ch = "CR" /\ fin.op = "got" -> "next"
                       [] OTHER -> "take",
              ch |-> NoChar ]
  /\ UNCHANGED <<k, pc, own, rx, owed>>
-----------------------------------------------------------------------------
KernelStep ==
  /\ CallEnd \/ (Tick /\ UNCHANGED own) \/ (rx.burst = 0 /\ TickEnd /\ UNCHANGED own)
  /\ UNCHANGED console

ConsoleNext ==
  \/ \E c \in Char : ReceiveChar(c)
  \/ Indicate
  \/ ShellTake \/ ShellWoken \/ ShellRead \/ ShellChar
  \/ KernelStep

(* An interrupt comes to its end, and a thread on the processor gets on:   *)
(* the finsh thread does nothing but wait for rx_sem.                      *)
ConsoleFairness ==
  /\ WF_consoleVars(Indicate)
  /\ WF_consoleVars(rx.burst = 0 /\ TickEnd /\ UNCHANGED <<own, console>>)
  /\ SF_consoleVars(CallEnd /\ UNCHANGED console)
  /\ SF_consoleVars(ShellTake \/ ShellWoken \/ ShellRead \/ ShellChar)

ConsoleSpec == ConsoleInit /\ [][ConsoleNext]_consoleVars /\ ConsoleFairness
-----------------------------------------------------------------------------
(* Properties *)

Line ==
  INSTANCE Channel WITH
    Thread <- {shell}, Message <- Char, NoMessage <- NoChar,
    Size <- UART_RX_BUFFER_SIZE - 1,
    queue <- Unread, hand <- [t \in {shell} |-> fin.ch]

(* The ring and its two indices are a queue that forgets its oldest        *)
(* character when it is full: finsh gets the others as they came.          *)
RingIsChannel == Line!LossySpec

(* finsh does not wait for rx_sem while a character is in the ring, unless *)
(* one interrupt has stored several and an end of line made finsh leave    *)
(* the loop before the last of them.                                       *)
NothingLeftUnread ==
  (~k.isr /\ k.stat[shell] = "SUSPEND" /\ owed = 0) => Unread = <<>>

(* The oldest character does not stay in the ring: finsh reads it, or it   *)
(* is forgotten, however interrupts come, if each brings one character.    *)
ConsoleRead ==
  [](owed = 0) =>
    \A i \in Index : (rx.read = i /\ Unread # <<>>) ~> rx.read # i

=============================================================================
