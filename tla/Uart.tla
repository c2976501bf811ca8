-------------------------------- MODULE Uart --------------------------------
(***************************************************************************)
(* hw/uart.c: a thread that reads lines with uart_in_string and echoes them*)
(* with uart_out_byte, and the transmit interrupt, which moves bytes from  *)
(* the software fifo tx_fifo to the hardware's.  tx_fifo is the ring of    *)
(* module RingFifo, with the thread as its producer and the handler as its *)
(* consumer; its steps are joined with those of the driver.                *)
(*                                                                         *)
(* Thread and handler share one core and the thread does not mask          *)
(* interrupts: the handler may come between any two accesses of the thread,*)
(* never the other way round.  The hardware sends bytes at any time.       *)
(***************************************************************************)
EXTENDS RingFifo

CONSTANTS
  Thread, Handler,
  Chars,           \* printable input
  BS, SP, CR, LF,  \* 0x08 (or 0x7F), ' ', '\r', '\n'
  buff_size,       \* of uart_in_string
  Depth,           \* of the hardware's transmit fifo
  Trigger          \* the level at which its interrupt is raised

ASSUME UartAssumption ==
  /\ Thread \in Producers /\ Handler \in Consumers
  /\ Chars \cup {BS, SP, CR, LF} \subseteq Values
  /\ BS \notin Chars \cup {SP, CR, LF} /\ CR \notin Chars \cup {SP, LF}
  /\ LF \notin Chars \cup {SP}
  /\ buff_size \in Nat \ {0} /\ Depth \in Nat \ {0}
  /\ Trigger \in Nat /\ Trigger < Depth
  /\ Lengths = Wrap \* of fifo_size_nonblocking

VARIABLES
  hw,       \* the hardware's transmit fifo
  ris,      \* its raw interrupt status, UARTRIS bit 5
  isr,      \* the handler: "off", "loop", "get" or "write" (to UARTDR)
  out,      \* the bytes the thread still has to pass to uart_out_byte
  call,     \* where it is in uart_out_byte
  line,     \* uart_in_string: what it has written to buff
  reading,  \* it has not returned
  end,      \* where in buff it has written the last terminating zero
  screen    \* what the terminal shows: the cells of a row, and the column

thread == <<out, call, line, reading, end>>
hardware == <<hw, ris, screen>>
uartVars == <<vars, thread, hardware, isr>>

-----------------------------------------------------------------------------
(* The hardware: UARTDR, UARTRIS and the line.                             *)

Full == Len(hw) >= Depth

(* A byte written to UARTDR; lost when the fifo is full.                   *)
WriteDR(b) ==
  /\ hw' = IF Full THEN hw ELSE Append(hw, b)
  /\ ris' = (ris /\ Len(hw') <= Trigger)
  /\ UNCHANGED screen

(* The terminal: a byte overwrites a cell or moves the cursor; a new row is*)
(* blank up to the cursor.                                                 *)
Show(s, b) ==
  CASE b = BS -> [s EXCEPT !.col = IF @ = 0 THEN 0 ELSE @ - 1]
    [] b = CR -> [s EXCEPT !.col = 0]
    [] b = LF -> [s EXCEPT !.cells = [i \in 1 .. s.col |-> SP]]
    [] OTHER  -> [cells |-> SubSeq(s.cells, 1, s.col) \o <<b>>
                            \o SubSeq(s.cells, s.col + 2, Len(s.cells)),
                  col |-> s.col + 1]

(* A byte leaves; the interrupt is raised when the level falls to Trigger. *)
Send ==
  /\ hw # <<>>
  /\ hw' = Tail(hw)
  /\ screen' = Show(screen, Head(hw))
  /\ ris' = (ris \/ Len(hw) = Trigger + 1)
  /\ UNCHANGED <<vars, thread, isr>>

-----------------------------------------------------------------------------
(* The interrupt.                                                          *)

(* uart0_handler: the status is cleared before the bytes are moved.        *)
Interrupt ==
  /\ ris /\ isr = "off"
  /\ isr' = "loop"
  /\ ris' = FALSE
  /\ UNCHANGED <<vars, thread, hw, screen>>

(* Mutant of TxLoop: the test of the flag is the wrong way round.          *)
TxLoopInverted ==
  /\ isr = "loop"
  /\ isr' = IF Full THEN "get" ELSE "off"
  /\ UNCHANGED <<vars, thread, hardware>>

(* uart_tx_interrupt: the loop's condition, fifo_get_nonblocking, UARTDR.  *)
TxLoop ==
  /\ isr = "loop"
  /\ isr' = IF Full THEN "off" ELSE "get"
  /\ UNCHANGED <<vars, thread, hardware>>

(* Mutant of TxGet: the loop does not end when tx_fifo is empty.           *)
TxGetGoesOn ==
  /\ isr = "get"
  /\ Get(Handler)
  /\ isr' = IF pc'[Handler] # "idle" THEN "get"
             ELSE IF pc[Handler] = "idle" THEN "loop"
             ELSE "write"
  /\ UNCHANGED <<thread, hardware>>

TxGet ==
  /\ isr = "get"
  /\ Get(Handler)
  /\ isr' = IF pc'[Handler] # "idle" THEN "get"
             ELSE IF pc[Handler] = "idle" THEN "off"  \* tx_fifo is empty
             ELSE "write"
  /\ UNCHANGED <<thread, hardware>>

TxWrite ==
  /\ isr = "write"
  /\ WriteDR(got[Handler])
  /\ isr' = "loop"
  /\ UNCHANGED <<vars, thread>>

-----------------------------------------------------------------------------
(* The thread: it runs while no interrupt is pending or served.            *)

Runs == ~ris /\ isr = "off"

(* Mutant of More: one character more than the buffer has room for.        *)
MoreLate(l) == Len(l) <= buff_size

More(l) == Len(l) < buff_size

(* One round of uart_in_string, in which fifo_get has returned c.  The     *)
(* caller passes a line that is complete on and then prints an answer.  The*)
(* terminating zero goes where the next character would: behind the line,  *)
(* and behind the buffer when the line fills it.  (It is written after the *)
(* echo, which makes no difference: only the caller reads it.)             *)
InString(c) ==
  /\ Runs /\ out = <<>> /\ reading
  /\ \/ /\ c = CR
        /\ out' = <<CR, LF>> /\ line' = <<>> /\ reading' = FALSE
        /\ end' = Len(line)
     \/ /\ c = BS /\ line # <<>>
        /\ out' = <<BS, SP, BS>>
        /\ line' = SubSeq(line, 1, Len(line) - 1)
        /\ UNCHANGED <<reading, end>>
     \/ /\ c \in Chars /\ More(line)
        /\ out' = <<c>> /\ line' = Append(line, c)
        /\ reading' = More(line')
        /\ end' = IF More(line') THEN end ELSE Len(line')
  /\ call' = "size"
  /\ UNCHANGED <<vars, hardware, isr>>

(* uart_out_string, with the end of an answer; uart_in_string is called    *)
(* again.                                                                  *)
OutString ==
  /\ Runs /\ out = <<>> /\ ~reading
  /\ out' = <<CR, LF>> /\ line' = <<>> /\ reading' = TRUE
  /\ call' = "size"
  /\ UNCHANGED <<vars, hardware, isr, end>>

(* uart_out_byte has done its work.                                        *)
Return ==
  /\ out' = Tail(out)
  /\ call' = IF Len(out) = 1 THEN "none" ELSE "size"

(* uart_out_byte: fifo_size_nonblocking ...                                *)
OutSize ==
  /\ Runs /\ call = "size"
  /\ SizeTest(Thread)
  /\ call' = "length"
  /\ UNCHANGED <<out, line, reading, end, hardware, isr>>

OutLength ==
  /\ Runs /\ call = "length"
  /\ SizeResult(Thread)
  /\ call' = "flags"
  /\ UNCHANGED <<out, line, reading, end, hardware, isr>>

(* Mutant of Direct: tx_fifo is not looked at.                             *)
DirectAlways == ~Full

(* ... is zero, and the hardware's fifo is not full.                       *)
Direct == length[Thread] = 0 /\ ~Full

OutFlags ==
  /\ Runs /\ call = "flags"
  /\ call' = IF Direct THEN "direct" ELSE "put"
  /\ UNCHANGED <<vars, out, line, reading, end, hardware, isr>>

OutDirect ==
  /\ Runs /\ call = "direct"
  /\ WriteDR(Head(out))
  /\ Return
  /\ UNCHANGED <<vars, line, reading, end, isr>>

(* fifo_put_nonblock, again and again while the fifo is full.              *)
OutPut ==
  /\ Runs /\ call = "put"
  /\ \/ PutTest(Thread, Head(out)) /\ UNCHANGED <<out, call>>
     \/ PutWrite(Thread) /\ UNCHANGED <<out, call>>
     \/ PutAdvance(Thread) /\ Return
  /\ UNCHANGED <<line, reading, end, hardware, isr>>

-----------------------------------------------------------------------------
UartInit ==
  /\ Init
  /\ hw = <<>> /\ ris = FALSE /\ isr = "off"
  /\ out = <<>> /\ call = "none" /\ line = <<>> /\ reading = TRUE /\ end = 0
  /\ screen = [cells |-> <<>>, col |-> 0]

OutByte == OutSize \/ OutLength \/ OutFlags \/ OutDirect \/ OutPut

TxInterrupt == Interrupt \/ TxLoop \/ TxGet \/ TxWrite

UartNext ==
  \/ \E c \in Chars \cup {BS, CR} : InString(c)
  \/ OutString
  \/ OutByte
  \/ TxInterrupt
  \/ Send

(* The thread is scheduled, interrupts are taken, the line runs.           *)
Fairness == WF_uartVars(OutByte) /\ WF_uartVars(TxInterrupt) /\ WF_uartVars(Send)

UartSpec == UartInit /\ [][UartNext]_uartVars /\ Fairness

-----------------------------------------------------------------------------
(* Every variable has its type.  The characters of a line go to buff[0] to *)
(* buff[buff_size - 1]; the zero of uart.c:105 may go to buff[buff_size],  *)
(* which is one byte behind the array that interpreter.c:33-40 passes.     *)
UartTypeOK ==
  /\ RingTypeOK
  /\ hw \in Seq(Values)
  /\ ris \in BOOLEAN /\ isr \in {"off", "loop", "get", "write"}
  /\ out \in Seq(Values) /\ Len(out) <= 3
  /\ call \in {"none", "size", "length", "flags", "direct", "put"}
  /\ line \in Seq(Chars) /\ Len(line) <= buff_size
  /\ reading \in BOOLEAN /\ end \in 0 .. buff_size
  /\ screen.cells \in Seq(Values) /\ screen.col \in 0 .. Len(screen.cells)

(* What is on its way to the terminal, in the order of its arrival.        *)
InHandler ==
  IF isr = "write" THEN <<got[Handler]>> ELSE <<>>

OnTheWay == hw \o InHandler \o Content \o out

ShowAll(s, bytes) ==
  LET shown[i \in 0 .. Len(bytes)] ==
        IF i = 0 THEN s ELSE Show(shown[i - 1], bytes[i])
  IN  shown[Len(bytes)]

(* uart.c:80, "updates the terminal (echos back input)": when everything on*)
(* its way has arrived, the terminal shows the line of uart_in_string, with*)
(* the cursor at its end and blanks to its right.  No byte is lost,        *)
(* duplicated or overtaken on its way through the two fifos.               *)
EchoMatchesLine ==
  LET s == ShowAll(screen, OnTheWay)
  IN /\ SubSeq(s.cells, 1, s.col) = line
     /\ \A i \in s.col + 1 .. Len(s.cells) : s.cells[i] = SP

(* uart.c:65-67 and :48-51: between a test of UARTFR and the write to      *)
(* UARTDR the handler may run, or the thread in turn; still the hardware's *)
(* fifo has room for every byte that is written to it.                     *)
EveryByteAccepted == call = "direct" \/ isr = "write" => ~Full

(* A byte in tx_fifo that nothing is going to fetch: no interrupt is       *)
(* pending or served, and none will be raised, because the hardware's fifo *)
(* is at the trigger level or below already.                               *)
Stranded == Content # <<>> /\ ~ris /\ isr = "off" /\ Len(hw) <= Trigger

(* uart.c:65-70: the output stops by one step only, the put into a tx_fifo *)
(* that is empty (the caller has seen it otherwise, or the hardware's full,*)
(* and the interrupt has come in between).  A handler that ends, a byte    *)
(* that is sent and one that is written directly strand none.  And it stops*)
(* for good: later bytes find tx_fifo not empty and join the stranded one. *)
StrandedOnlyByPut ==
  [][Stranded' # Stranded => PutAdvance(Thread) /\ head = tail]_uartVars

(* Every call of uart_out_byte ends, unless the output has stopped: nothing*)
(* but a stranded byte makes a caller wait for ever at uart.c:70.  (With a *)
(* stranded byte it does, once the bytes after it have filled tx_fifo.)    *)
OutputEnds == (out # <<>>) ~> (out = <<>> \/ Stranded)
=============================================================================
