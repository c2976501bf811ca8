----------------------------- MODULE SleepQueue -----------------------------
(***************************************************************************)
(* sleep() and unsleep() of os/schedule.c with their times, which module   *)
(* Scheduler leaves out: the list of sleepers sorted by resume_tick, and   *)
(* alarm 0 of the timer, armed for the first of them.                      *)
(*                                                                         *)
(* The timer counts 64 bits, resume_tick and the alarm have 32.  Both      *)
(* functions are one region under the lock SCHEDULER.  The rest of the     *)
(* scheduler is reduced to who sleeps: an awake thread may sleep again at  *)
(* any time.                                                               *)
(***************************************************************************)
EXTENDS Integers, Sequences, SequencesExt, FiniteSets

CONSTANTS
  Threads,
  Durations,  \* sleep_time * 1000: the ticks for which threads sleep
  Slack,      \* the 10 ticks of unsleep's "hack"
  Wrap,       \* 2^32
  Delay,      \* bound: from a match of the alarm to unsleep
  NULL

Times == 0 .. Wrap - 1

(* The slowest wake-up: all threads are due at once, and it is the last.   *)
Late == Delay + (Cardinality(Threads) - 1) * (Slack + Delay)

ASSUME SleepAssumption ==
  /\ IsFiniteSet(Threads) /\ Threads # {}
  /\ Wrap \in Nat /\ Slack \in 1 .. Wrap - 1 /\ Delay \in Nat
  /\ Durations \subseteq Slack + Delay + 1 .. Wrap - Late - 1
  /\ NULL \notin Times

VARIABLES
  sleepers,     \* the list from SleepScheduleRoot on
  resume_tick,  \* of each thread; 0 while it is awake, when nothing reads it
  left,         \* history: ticks until each sleeper should wake up, else 0
  alarm,        \* the armed value of alarm 0, or NULL
  pending,      \* its interrupt is pending
  now,          \* the low half of the timer
  high,         \* its high half is not zero
  waited,       \* ticks since the alarm matched
  firstLap      \* history: neither now nor a resume_tick has wrapped around

timer == <<alarm, pending, now, high, waited>>
vars == <<sleepers, resume_tick, left, timer, firstLap>>

Asleep == Range(sleepers)

(* Mutant of Position: an equal or later time does not end the search.     *)
PositionLast(tick) == Len(sleepers) + 1

(* The first sleeper that is due later.                                    *)
Position(tick) ==
  Min({i \in DOMAIN sleepers : tick < resume_tick[sleepers[i]]}
        \cup {Len(sleepers) + 1})

(* Mutant of NewRoot: the alarm is armed for the first sleeper ever only.  *)
NewRootEmpty(tick) == sleepers = <<>>

(* The new sleeper becomes SleepScheduleRoot, and the alarm is armed.      *)
NewRoot(tick) == sleepers = <<>> \/ tick < resume_tick[Head(sleepers)]

Sleep(t, d) ==
  LET tick == (now + d) % Wrap
  IN /\ t \notin Asleep
     /\ resume_tick' = [resume_tick EXCEPT ![t] = tick]
     /\ sleepers' = InsertAt(sleepers, Position(tick), t)
     /\ alarm' = IF NewRoot(tick) THEN tick ELSE alarm
     /\ left' = [left EXCEPT ![t] = d]
     /\ firstLap' = (firstLap /\ tick > now)
     /\ UNCHANGED <<pending, now, high, waited>>

(* Mutant of Soon: no allowance for a time that is about to pass.          *)
SoonNever(tick) == FALSE

(* The comparison with get_raw_time() + 10 has 64 bits.                    *)
Soon(tick) == high \/ tick < now + Slack

(* Mutant of Rearm: no alarm for a time that is about to pass.             *)
RearmUnlessSoon ==
  IF Len(sleepers) = 1 \/ Soon(resume_tick[sleepers[2]]) THEN alarm
  ELSE resume_tick[sleepers[2]]

(* unsleep's alarm for the next sleeper.                                   *)
Rearm ==
  IF Len(sleepers) = 1 THEN alarm
  ELSE LET tick == resume_tick[sleepers[2]]
       IN IF Soon(tick) THEN (now + Slack) % Wrap ELSE tick

(* timer0_interrupt and unsleep, which the pending alarm finds with a      *)
(* sleeper: see AlarmHasSleeper.                                           *)
Unsleep ==
  /\ pending /\ sleepers # <<>>
  /\ pending' = FALSE /\ waited' = 0
  /\ sleepers' = Tail(sleepers)
  /\ resume_tick' = [resume_tick EXCEPT ![Head(sleepers)] = 0]
  /\ left' = [left EXCEPT ![Head(sleepers)] = 0]
  /\ alarm' = Rearm
  /\ UNCHANGED <<now, high, firstLap>>

(* The timer counts; its interrupt is served within Delay ticks.           *)
Tick ==
  /\ pending => waited < Delay
  /\ now' = (now + 1) % Wrap
  /\ high' = (high \/ now' = 0)
  /\ pending' = (pending \/ alarm = now')
  /\ alarm' = IF alarm = now' THEN NULL ELSE alarm
  /\ waited' = IF pending THEN waited + 1 ELSE 0
  /\ left' = [t \in Threads |->
                IF t \in Asleep /\ left[t] >= -Late THEN left[t] - 1 ELSE left[t]]
  /\ firstLap' = (firstLap /\ now' # 0)
  /\ UNCHANGED <<sleepers, resume_tick>>

Init ==
  /\ sleepers = <<>>
  /\ resume_tick = [t \in Threads |-> 0] /\ left = resume_tick
  /\ alarm = NULL /\ pending = FALSE
  /\ now = 0 /\ high = FALSE /\ waited = 0 /\ firstLap = TRUE

Next == (\E t \in Threads, d \in Durations : Sleep(t, d)) \/ Unsleep \/ Tick

(* Time passes, and a pending interrupt is taken.                          *)
Fairness == WF_vars(Tick) /\ WF_vars(Unsleep)

Spec == Init /\ [][Next]_vars /\ Fairness

-----------------------------------------------------------------------------
(* Every variable has its type; a thread is in the list once.              *)
SleepTypeOK ==
  /\ sleepers \in Seq(Threads) /\ IsInjective(sleepers)
  /\ resume_tick \in [Threads -> Times]
  /\ left \in [Threads -> -(Late + 1) .. Wrap]
  /\ alarm \in Times \cup {NULL}
  /\ pending \in BOOLEAN /\ high \in BOOLEAN /\ firstLap \in BOOLEAN
  /\ now \in Times /\ waited \in 0 .. Delay

(* "this shouldn't happen" (schedule.c:324): whoever joined or left the    *)
(* list in the meantime, an alarm that is armed or has matched finds a     *)
(* sleeper to wake, and a sleeper an alarm.                                *)
AlarmHasSleeper ==
  /\ SleepTypeOK
  /\ (alarm # NULL \/ pending) <=> sleepers # <<>>

(* "wake them precisely when needed" (README.md): no sleeper is later than *)
(* the allowances of those that are due with it.                           *)
WakesInTime == firstLap => \A t \in Asleep : left[t] >= -Late

(* "sleeps thread for <sleep_time> ms": none is woken earlier.             *)
SleepsLongEnough == [][firstLap /\ Unsleep => left[Head(sleepers)] <= 0]_vars
=============================================================================
