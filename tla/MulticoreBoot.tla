---------------------------- MODULE MulticoreBoot ---------------------------
(***************************************************************************)
(* How CPU0 starts CPU1: the first half of init_scheduler (os/schedule.c)  *)
(* sends wake_seq through the inter-core mailbox (multicore_fifo_* of      *)
(* os/ipc.c) and starts over when a word does not come back; core1_entry   *)
(* then receives the timeslice.                                            *)
(*                                                                         *)
(* CPU1 runs the boot ROM of the RP2040, which is not part of the          *)
(* repository: it echoes every word, starts over at a 0, and after 0, 1    *)
(* takes the next three words as vector table, stack and entry point.  It  *)
(* may be anywhere in this order, and the mailbox may hold words from      *)
(* before: any number that CPU0 has not read, and as many that the ROM has *)
(* not as do not make it leave by themselves, Leftover at most.            *)
(*                                                                         *)
(* A core tests the mailbox in one step and executes WFE in another, and   *)
(* an event may come in between.  Whether WFE has begun is not recorded:   *)
(* it ends when the event register is set, be that before or after.        *)
(***************************************************************************)
EXTENDS Naturals, Sequences

CONSTANTS
  vector_table, CPU1_STACK_TOP, initial_pc1,
  timeslice,
  Depth,     \* of the mailbox, in each direction
  Leftover,  \* bound: words from before that the ROM has still to read
  Junk,      \* any other word
  NULL

wake_seq == <<0, 0, 1, vector_table, CPU1_STACK_TOP, initial_pc1>>

Words == {0, 1, vector_table, CPU1_STACK_TOP, initial_pc1, timeslice, Junk}

ASSUME BootAssumption ==
  /\ Depth \in Nat \ {0} /\ Leftover \in 0 .. Depth
  /\ {0, 1} \cap {vector_table, CPU1_STACK_TOP, initial_pc1, timeslice, Junk} = {}
  /\ vector_table # CPU1_STACK_TOP
  /\ NULL \notin Words

VARIABLES
  to0, to1,  \* the words in the mailbox to CPU0 and to CPU1
  event,     \* the event register of each core
  waiting,   \* the core has found nothing to do and is at WFE, or in it
  pc,        \* CPU0: "drain", "push", "pop", "timeslice" or "done"
  idx,       \* its position in wake_seq
  rom,       \* CPU1: the word the boot ROM expects, 1 .. 5, 6 after the last,
             \* 7 when it has left the ROM
  echo,      \* the word it has to send back, or NULL
  regs,      \* vector table, stack and entry point, as far as received
  slice      \* what core1_entry has received, or NULL

cpu0 == <<pc, idx>>
cpu1 == <<rom, echo, regs, slice>>
mailbox == <<to0, to1>>
vars == <<mailbox, event, waiting, cpu0, cpu1>>

-----------------------------------------------------------------------------
(* SEV: the event registers of both cores are set.                         *)
Sev == event' = [c \in 0 .. 1 |-> TRUE]

(* The test of the mailbox fails: WFE is next.                             *)
MustWait(c) ==
  /\ ~waiting[c]
  /\ waiting' = [waiting EXCEPT ![c] = TRUE]
  /\ UNCHANGED event

(* multicore_fifo_drain, one word or the end of it.                        *)
Drain ==
  /\ pc = "drain"
  /\ \/ /\ to0 # <<>>
        /\ to0' = Tail(to0)
        /\ UNCHANGED <<event, pc>>
     \/ /\ to0 = <<>>
        /\ Sev
        /\ pc' = "push"
        /\ UNCHANGED to0
  /\ UNCHANGED <<to1, waiting, idx, cpu1>>

(* multicore_fifo_push_blocking polls until there is room.                 *)
PushWord(w) ==
  /\ Len(to1) < Depth
  /\ to1' = Append(to1, w)
  /\ Sev
  /\ UNCHANGED <<to0, waiting, idx, cpu1>>

Push == pc = "push" /\ PushWord(wake_seq[idx]) /\ pc' = "pop"

PushTimeslice == pc = "timeslice" /\ PushWord(timeslice) /\ pc' = "done"

(* Mutant of NextIdx: the response is not compared.                        *)
NextIdxAnyway(response) == idx + 1

(* Mutant of NextIdx: only the word that was not echoed is sent again.     *)
NextIdxRepeats(response) == IF response = wake_seq[idx] THEN idx + 1 ELSE idx

(* Mutant of NextIdx: an echoed 0 is taken for no response.                *)
NextIdxZero(response) ==
  IF response # 0 /\ response = wake_seq[idx] THEN idx + 1 ELSE 1

NextIdx(response) == IF response = wake_seq[idx] THEN idx + 1 ELSE 1

(* multicore_fifo_pop_blocking: the test, and the word if there is one.    *)
Pop ==
  /\ pc = "pop"
  /\ \/ /\ to0 = <<>>
        /\ MustWait(0)
        /\ UNCHANGED <<to0, cpu0>>
     \/ /\ to0 # <<>> /\ ~waiting[0]
        /\ to0' = Tail(to0)
        /\ idx' = NextIdx(Head(to0))
        /\ pc' = CASE idx' = 7 -> "timeslice"
                   [] idx' \in 1 .. 2 -> "drain"
                   [] OTHER -> "push"
        /\ UNCHANGED <<event, waiting>>
  /\ UNCHANGED <<to1, cpu1>>

-----------------------------------------------------------------------------
(* CPU1.                                                                   *)

Expects(w) ==
  CASE w = 0 -> 2
    [] rom = 2 /\ w = 1 -> 3
    [] rom \in 3 .. 5 /\ w # 0 -> rom + 1
    [] OTHER -> 1

Receive ==
  /\ rom < 6 /\ echo = NULL
  /\ \/ /\ to1 = <<>>
        /\ MustWait(1)
        /\ UNCHANGED <<to1, rom, echo, regs>>
     \/ /\ to1 # <<>> /\ ~waiting[1]
        /\ to1' = Tail(to1)
        /\ echo' = Head(to1)
        /\ rom' = Expects(Head(to1))
        /\ regs' = IF rom' > 3 THEN Append(regs, Head(to1)) ELSE <<>>
        /\ UNCHANGED <<event, waiting>>
  /\ UNCHANGED <<to0, cpu0, slice>>

Echo ==
  /\ echo # NULL
  /\ \/ /\ Len(to0) = Depth
        /\ MustWait(1)
        /\ UNCHANGED <<to0, echo, rom>>
     \/ /\ Len(to0) < Depth /\ ~waiting[1]
        /\ to0' = Append(to0, echo)
        /\ Sev
        /\ echo' = NULL
        /\ rom' = IF rom = 6 THEN 7 ELSE rom
        /\ UNCHANGED waiting
  /\ UNCHANGED <<to1, cpu0, regs, slice>>

(* core1_entry: multicore_fifo_pop_blocking; init_scheduler follows.       *)
Core1Entry ==
  /\ rom = 7 /\ slice = NULL
  /\ \/ /\ to1 = <<>>
        /\ MustWait(1)
        /\ UNCHANGED <<to1, slice>>
     \/ /\ to1 # <<>> /\ ~waiting[1]
        /\ to1' = Tail(to1)
        /\ slice' = Head(to1)
        /\ UNCHANGED <<event, waiting>>
  /\ UNCHANGED <<to0, cpu0, rom, echo, regs>>

(* WFE sleeps until the event register is set, as it may be already, and   *)
(* clears it; then the mailbox is tested again.                            *)
Wfe(c) ==
  /\ waiting[c] /\ event[c]
  /\ waiting' = [waiting EXCEPT ![c] = FALSE]
  /\ event' = [event EXCEPT ![c] = FALSE]
  /\ UNCHANGED <<mailbox, cpu0, cpu1>>

-----------------------------------------------------------------------------
Stale(most) == UNION {[1 .. n -> {0, 1, Junk}] : n \in 0 .. most}

(* The word the ROM has taken last.                                        *)
LastReceived == CASE rom = 2 -> 0 [] rom = 3 -> 1 [] OTHER -> Junk

Init ==
  /\ to0 \in Stale(Depth) /\ to1 \in Stale(Leftover)
  /\ event = [c \in 0 .. 1 |-> FALSE] /\ waiting = event
  /\ pc = "drain" /\ idx = 1
  /\ rom \in 1 .. 5 /\ rom + Len(to1) <= 5
  /\ regs = [i \in 1 .. rom - 3 |-> Junk] /\ slice = NULL
  /\ echo \in {NULL, LastReceived}

Cpu0 == Drain \/ Push \/ Pop \/ PushTimeslice \/ Wfe(0)

Cpu1 == Receive \/ Echo \/ Core1Entry \/ Wfe(1)

(* Both schedulers run.                                                    *)
Started == pc = "done" /\ slice # NULL /\ UNCHANGED vars

Next == Cpu0 \/ Cpu1 \/ Started

(* Both cores run.                                                         *)
Fairness == WF_vars(Cpu0) /\ WF_vars(Cpu1)

Spec == Init /\ [][Next]_vars /\ Fairness

-----------------------------------------------------------------------------
(* Every variable has its type; neither direction of the mailbox overflows.*)
BootTypeOK ==
  /\ to0 \in Seq(Words) /\ Len(to0) <= Depth
  /\ to1 \in Seq(Words) /\ Len(to1) <= Depth
  /\ event \in [0 .. 1 -> BOOLEAN] /\ waiting \in [0 .. 1 -> BOOLEAN]
  /\ pc \in {"drain", "push", "pop", "timeslice", "done"}
  /\ idx \in 1 .. 7
  /\ rom \in 1 .. 7
  /\ echo \in Words \cup {NULL} /\ slice \in Words \cup {NULL}
  /\ regs \in Seq(Words) /\ Len(regs) <= 3

(* CPU1 starts with the kernel's vector table, stack and entry point and   *)
(* its first word is the timeslice, whatever words the mailbox held before *)
(* and however the retries interleave with late echoes.                    *)
StartsInKernel ==
  /\ rom = 7 => regs = <<vector_table, CPU1_STACK_TOP, initial_pc1>>
  /\ slice \in {NULL, timeslice}

(* CPU0 leaves the protocol only when CPU1 has left the boot ROM, with no  *)
(* word on its way but the timeslice: the mailbox is free for other use,   *)
(* and it has never overflowed.                                            *)
LeavesInStep ==
  /\ BootTypeOK
  /\ pc \in {"timeslice", "done"} =>
       /\ rom = 7 /\ echo = NULL /\ to0 = <<>>
       /\ to1 = IF pc = "done" /\ slice = NULL THEN <<timeslice>> ELSE <<>>

(* The words in the mailbox or the ROM that answer none of CPU0's.         *)
Surplus ==
  Len(to0) + Len(to1) + (IF echo = NULL THEN 0 ELSE 1) - (IF pc = "pop" THEN 1 ELSE 0)

(* As soon as the drains have removed every word from before, CPU1 is      *)
(* started and told its timeslice, however often either core has slept.    *)
(* (An echo that arrives just after each drain can delay that for ever.)   *)
Cpu1Starts == Surplus = 0 ~> slice # NULL
=============================================================================
