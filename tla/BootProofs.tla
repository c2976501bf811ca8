----------------------------- MODULE BootProofs -----------------------------
(***************************************************************************)
(* What is proved of module MulticoreBoot, for a mailbox of any depth.     *)
(*                                                                         *)
(* Until CPU1 leaves the boot ROM, CPU0 reads every word that it has sent  *)
(* or that was on its way before: to0, the echo and to1 are one queue.     *)
(* Surplus words in it delay the answers.  An answer that is late by no    *)
(* more than four words differs from the word that CPU0 compares it with   *)
(* before CPU0 has sent the entry point, which comes after five others.    *)
(***************************************************************************)
EXTENDS MulticoreBoot, SharedLemmas

Echoing == IF echo = NULL THEN <<>> ELSE <<echo>>

Loop == to0 \o (Echoing \o to1)

(* How many words of wake_seq CPU0 has sent since it last began.           *)
Popping == IF pc = "pop" THEN 1 ELSE 0

Sent == idx - 1 + Popping

Kernel == <<vector_table, CPU1_STACK_TOP, initial_pc1>>

(* The ROM, when it has received the first j words of wake_seq.            *)
RomAt(j) == IF j <= 2 THEN 2 ELSE j

RegsAt(j) ==
  CASE j <= 3 -> <<>>
    [] j = 4 -> <<vector_table>>
    [] j = 5 -> <<vector_table, CPU1_STACK_TOP>>
    [] j = 6 -> Kernel

-----------------------------------------------------------------------------
(* The inductive invariant while CPU1 is in the ROM.                       *)

ControlOK ==
  /\ pc \in {"drain", "push", "pop"} /\ idx \in 1 .. 6 /\ slice = NULL
  /\ pc = "drain" => idx <= 2
  /\ Len(regs) = IF rom <= 3 THEN 0 ELSE rom - 3

(* There are at most four surplus words, and none with the last word.     *)
LagOK ==
  /\ \/ Len(Loop) <= 4 + Popping
     \/ pc = "drain" /\ idx = 1 /\ Len(Echoing) + Len(to1) <= 4
  /\ idx = 6 => Len(Loop) = Popping

(* The end of the queue is what CPU0 has sent since it began.              *)
Agree(queue, n) ==
  \A k \in 1 .. n : k <= Len(queue) => queue[Len(queue) + 1 - k] = wake_seq[n + 1 - k]

AgreesOK == Agree(Loop, Sent)

(* The ROM has received what is not in to1 any more.                       *)
ExactOK ==
  Len(to1) < Sent =>
    /\ rom = RomAt(Sent - Len(to1))
    /\ regs = RegsAt(Sent - Len(to1))

(* No word in to1 but the last of wake_seq makes the ROM leave: not those  *)
(* before the first 0, and not those between one 0 and the next.           *)
StaysNow(state, words) ==
  \A i \in 1 .. Len(words) : (\A h \in 1 .. i : words[h] # 0) => state + i <= 5

StaysLater(words) ==
  \A h, i \in 1 .. Len(words) :
    h < i /\ words[h] = 0 /\ (\A g \in h + 1 .. i : words[g] # 0) => i - h <= 3

StaysOK == idx < 6 \/ pc # "pop" => StaysNow(rom, to1) /\ StaysLater(to1)

InRom ==
  rom <= 5 /\ ControlOK /\ LagOK /\ AgreesOK /\ ExactOK /\ StaysOK

Leaving ==
  /\ rom = 6 /\ echo = initial_pc1 /\ regs = Kernel /\ slice = NULL
  /\ pc = "pop" /\ idx = 6 /\ to0 = <<>> /\ to1 = <<>>

HasLeft ==
  /\ rom = 7 /\ echo = NULL /\ regs = Kernel
  /\ \/ /\ pc = "pop" /\ idx = 6 /\ slice = NULL
        /\ to0 = <<initial_pc1>> /\ to1 = <<>>
     \/ /\ pc = "timeslice" /\ idx = 7 /\ slice = NULL
        /\ to0 = <<>> /\ to1 = <<>>
     \/ /\ pc = "done" /\ idx = 7 /\ to0 = <<>>
        /\ \/ slice = NULL /\ to1 = <<timeslice>>
           \/ slice = timeslice /\ to1 = <<>>

BootInv == BootTypeOK /\ (InRom \/ Leaving \/ HasLeft)

(* The ROM has at most three words to read that CPU0 has not sent.         *)
FewLeftover == Leftover <= 3

-----------------------------------------------------------------------------
(* Sequences, and the words of wake_seq.                                  *)

LEMMA WakeSeq ==
  /\ wake_seq \in Seq(Words) /\ Len(wake_seq) = 6
  /\ wake_seq[1] = 0 /\ wake_seq[2] = 0 /\ wake_seq[3] = 1
  /\ wake_seq[4] = vector_table /\ wake_seq[5] = CPU1_STACK_TOP /\ wake_seq[6] = initial_pc1
  /\ \A i \in 1 .. 6 : wake_seq[i] \in Words
  /\ \A i \in 3 .. 6 : wake_seq[i] # 0
  /\ \A i \in 1 .. 4 : wake_seq[i] # wake_seq[5]
<1>1. /\ wake_seq \in Seq(Words) /\ Len(wake_seq) = 6
      /\ wake_seq[1] = 0 /\ wake_seq[2] = 0 /\ wake_seq[3] = 1
      /\ wake_seq[4] = vector_table /\ wake_seq[5] = CPU1_STACK_TOP /\ wake_seq[6] = initial_pc1
  BY DEF wake_seq, Words
<1>2. /\ vector_table # 0 /\ CPU1_STACK_TOP # 0 /\ initial_pc1 # 0
      /\ CPU1_STACK_TOP # 1 /\ vector_table # CPU1_STACK_TOP
  BY BootAssumption
<1>3. ASSUME NEW i \in 3 .. 6 PROVE wake_seq[i] # 0
  <2>1. i = 3 \/ i = 4 \/ i = 5 \/ i = 6
    OBVIOUS
  <2> QED BY <2>1, <1>1, <1>2
<1>4. ASSUME NEW i \in 1 .. 4 PROVE wake_seq[i] # wake_seq[5]
  <2>1. i = 1 \/ i = 2 \/ i = 3 \/ i = 4
    OBVIOUS
  <2> QED BY <2>1, <1>1, <1>2
<1>5. \A i \in 1 .. 6 : wake_seq[i] \in Words
  BY SMTT(30), <1>1
<1> QED BY <1>1, <1>3, <1>4, <1>5

LEMMA NullIsNoWord == NULL \notin Words
BY BootAssumption

LEMMA TailFits ==
  ASSUME NEW s \in Seq(Words), s # <<>>, Len(s) <= Depth
  PROVE  Head(s) \in Words /\ Tail(s) \in Seq(Words) /\ Len(Tail(s)) <= Depth
<1>1. /\ Head(s) \in Words /\ Tail(s) \in Seq(Words)
      /\ Len(s) \in Nat \ {0} /\ Len(Tail(s)) = Len(s) - 1
  OBVIOUS
<1>2. Depth \in Nat
  BY BootAssumption
<1> QED BY <1>1, <1>2

LEMMA JoinPush ==
  ASSUME NEW a \in Seq(Words), NEW b \in Seq(Words), NEW c \in Seq(Words), NEW w \in Words
  PROVE  a \o (b \o Append(c, w)) = Append(a \o (b \o c), w)
<1>1. b \o Append(c, w) = Append(b \o c, w)
  OBVIOUS
<1>2. b \o c \in Seq(Words)
  OBVIOUS
<1>3. \A d \in Seq(Words) : a \o Append(d, w) = Append(a \o d, w)
  OBVIOUS
<1> QED BY <1>1, <1>2, <1>3

LEMMA JoinPop ==
  ASSUME NEW a \in Seq(Words), NEW b \in Seq(Words), a # <<>>
  PROVE  Tail(a) \o b = Tail(a \o b) /\ Head(a \o b) = Head(a) /\ a \o b # <<>>
OBVIOUS

LEMMA JoinReceive ==
  ASSUME NEW a \in Seq(Words), NEW c \in Seq(Words), c # <<>>
  PROVE  a \o (<<Head(c)>> \o Tail(c)) = a \o (<<>> \o c)
<1>1. <<Head(c)>> \o Tail(c) = <<>> \o c
  OBVIOUS
<1> QED BY <1>1

LEMMA JoinEcho ==
  ASSUME NEW a \in Seq(Words), NEW c \in Seq(Words), NEW w \in Words
  PROVE  Append(a, w) \o (<<>> \o c) = a \o (<<w>> \o c)
<1>1. <<>> \o c = c
  OBVIOUS
<1>2. Append(a, w) \o c = a \o (<<w>> \o c)
  OBVIOUS
<1> QED BY <1>1, <1>2

LEMMA AgreeAppend ==
  ASSUME NEW s \in Seq(Words), NEW n \in 0 .. 5, Agree(s, n)
  PROVE  Agree(Append(s, wake_seq[n + 1]), n + 1)
<1> DEFINE u == Append(s, wake_seq[n + 1])
<1>1. Len(s) \in Nat /\ Len(u) = Len(s) + 1 /\ u[Len(s) + 1] = wake_seq[n + 1]
      /\ \A i \in 1 .. Len(s) : u[i] = s[i]
  OBVIOUS
<1> HIDE DEF u
<1>2. ASSUME NEW k \in 1 .. n + 1, k <= Len(u)
      PROVE  u[Len(u) + 1 - k] = wake_seq[(n + 1) + 1 - k]
  <2>1. CASE k = 1
    BY <1>1, <2>1
  <2>2. CASE k > 1
    <3>1. k - 1 \in 1 .. n /\ k - 1 <= Len(s)
      BY <1>1, <1>2, <2>2
    <3>2. s[Len(s) + 1 - (k - 1)] = wake_seq[n + 1 - (k - 1)]
      BY <3>1 DEF Agree
    <3>3. /\ Len(s) + 1 - (k - 1) = Len(u) + 1 - k /\ n + 1 - (k - 1) = (n + 1) + 1 - k
          /\ Len(u) + 1 - k \in 1 .. Len(s)
      BY <1>1, <1>2, <2>2
    <3> QED BY <1>1, <3>2, <3>3
  <2> QED BY <2>1, <2>2
<1> QED BY <1>2 DEF Agree, u

LEMMA AgreeTail ==
  ASSUME NEW s \in Seq(Words), NEW n \in Nat, s # <<>>, Agree(s, n)
  PROVE  Agree(Tail(s), n)
<1>1. Len(s) \in Nat /\ Len(Tail(s)) = Len(s) - 1 /\ Len(s) >= 1
      /\ \A i \in 1 .. Len(s) - 1 : Tail(s)[i] = s[i + 1]
  OBVIOUS
<1> DEFINE u == Tail(s)
<1> HIDE DEF u
<1>2. ASSUME NEW k \in 1 .. n, k <= Len(u)
      PROVE  u[Len(u) + 1 - k] = wake_seq[n + 1 - k]
  <2>1. Len(u) + 1 - k \in 1 .. Len(s) - 1 /\ Len(u) + 1 - k + 1 = Len(s) + 1 - k /\ k <= Len(s)
    BY <1>1, <1>2 DEF u
  <2>2. u[Len(u) + 1 - k] = s[Len(u) + 1 - k + 1]
    BY <1>1, <2>1 DEF u
  <2> QED BY <2>1, <2>2 DEF Agree
<1> QED BY <1>2 DEF Agree, u

LEMMA AgreeSuffix ==
  ASSUME NEW s \in Seq(Words), NEW t \in Seq(Words), NEW n \in Nat, Agree(s \o t, n)
  PROVE  Agree(t, n)
<1> DEFINE u == s \o t
<1>1. /\ Len(s) \in Nat /\ Len(t) \in Nat /\ Len(u) = Len(s) + Len(t)
      /\ \A i \in 1 .. Len(t) : u[Len(s) + i] = t[i]
  OBVIOUS
<1> HIDE DEF u
<1>2. ASSUME NEW k \in 1 .. n, k <= Len(t)
      PROVE  t[Len(t) + 1 - k] = wake_seq[n + 1 - k]
  <2>1. Len(t) + 1 - k \in 1 .. Len(t) /\ k <= Len(u)
        /\ Len(s) + (Len(t) + 1 - k) = Len(u) + 1 - k
    BY <1>1, <1>2
  <2>2. u[Len(u) + 1 - k] = wake_seq[n + 1 - k]
    BY <2>1 DEF Agree, u
  <2> QED BY <1>1, <2>1, <2>2
<1> QED BY <1>2 DEF Agree

(* Which word the last but so many are.                                   *)
LEMMA AgreeAt ==
  ASSUME NEW s, NEW n \in Nat, Agree(s, n), Len(s) \in Nat,
         NEW i \in 1 .. Len(s), Len(s) - i < n
  PROVE  s[i] = wake_seq[n - (Len(s) - i)]
<1> DEFINE k == Len(s) + 1 - i
<1>1. k \in 1 .. n /\ k <= Len(s) /\ Len(s) + 1 - k = i /\ n + 1 - k = n - (Len(s) - i)
  OBVIOUS
<1> HIDE DEF k
<1>2. s[Len(s) + 1 - k] = wake_seq[n + 1 - k]
  BY <1>1 DEF Agree
<1> QED BY <1>1, <1>2

-----------------------------------------------------------------------------
(* The ROM.                                                               *)

LEMMA RegsAtIs ==
  /\ \A j \in 1 .. 3 : RegsAt(j) = <<>>
  /\ RegsAt(4) = <<vector_table>> /\ RegsAt(5) = <<vector_table, CPU1_STACK_TOP>>
  /\ RegsAt(6) = Kernel
BY DEF RegsAt

(* A 0 resets it, any other word takes it at most one state further.      *)
LEMMA ExpectsIs ==
  ASSUME rom \in 1 .. 5, NEW w \in Words
  PROVE  /\ w = 0 => Expects(w) = 2
         /\ w # 0 => Expects(w) \in 1 .. rom + 1
         /\ Expects(w) > 3 => rom >= 3 /\ Expects(w) = rom + 1
BY DEF Expects

LEMMA ReceiveStays ==
  ASSUME NEW s \in Seq(Words), s # <<>>, NEW r \in 1 .. 5, NEW q,
         StaysNow(r, s), StaysLater(s),
         Head(s) = 0 => q = 2, Head(s) # 0 => q \in 1 .. r + 1
  PROVE  q \in 1 .. 5 /\ StaysNow(q, Tail(s)) /\ StaysLater(Tail(s))
<1> DEFINE u == Tail(s)
<1>1. /\ Len(s) \in Nat /\ Len(s) >= 1 /\ Len(u) = Len(s) - 1 /\ Head(s) = s[1]
      /\ \A i \in 1 .. Len(u) : u[i] = s[i + 1]
  OBVIOUS
<1> HIDE DEF u
<1>2. q \in 1 .. 5
  <2>1. CASE s[1] = 0
    BY <1>1, <2>1
  <2>2. CASE s[1] # 0
    <3>1. r + 1 <= 5
      BY <1>1, <2>2 DEF StaysNow
    <3> QED BY <1>1, <2>2, <3>1
  <2> QED BY <2>1, <2>2
<1>3. ASSUME NEW i \in 1 .. Len(u), \A h \in 1 .. i : u[h] # 0
      PROVE  q + i <= 5
  <2>1. \A g \in 2 .. i + 1 : s[g] # 0
    <3> SUFFICES ASSUME NEW g \in 2 .. i + 1 PROVE s[g] # 0
      OBVIOUS
    <3>1. g - 1 \in 1 .. i /\ g - 1 \in 1 .. Len(u) /\ g - 1 + 1 = g
      BY <1>1
    <3> QED BY <1>1, <1>3, <3>1
  <2>2. CASE s[1] = 0
    <3>1. (i + 1) - 1 <= 3
      <4>1. 1 \in 1 .. Len(s) /\ i + 1 \in 1 .. Len(s) /\ 1 < i + 1
        BY <1>1
      <4>2. \A g \in 1 + 1 .. i + 1 : s[g] # 0
        BY <2>1
      <4> QED BY <2>2, <4>1, <4>2 DEF StaysLater
    <3> QED BY <1>1, <2>2, <3>1
  <2>3. CASE s[1] # 0
    <3>1. i + 1 \in 1 .. Len(s) /\ \A h \in 1 .. i + 1 : s[h] # 0
      BY <1>1, <2>1, <2>3
    <3>2. r + (i + 1) <= 5
      BY <3>1 DEF StaysNow
    <3> QED BY <1>1, <2>3, <3>2
  <2> QED BY <2>2, <2>3
<1>4. ASSUME NEW h \in 1 .. Len(u), NEW i \in 1 .. Len(u), h < i, u[h] = 0,
             \A g \in h + 1 .. i : u[g] # 0
      PROVE  i - h <= 3
  <2>1. h + 1 \in 1 .. Len(s) /\ i + 1 \in 1 .. Len(s) /\ h + 1 < i + 1 /\ s[h + 1] = 0
    BY <1>1, <1>4
  <2>2. \A g \in h + 1 + 1 .. i + 1 : s[g] # 0
    <3> SUFFICES ASSUME NEW g \in h + 1 + 1 .. i + 1 PROVE s[g] # 0
      OBVIOUS
    <3>1. g - 1 \in h + 1 .. i /\ g - 1 \in 1 .. Len(u) /\ g - 1 + 1 = g
      BY <1>1
    <3> QED BY <1>1, <1>4, <3>1
  <2>3. (i + 1) - (h + 1) <= 3
    BY <2>1, <2>2 DEF StaysLater
  <2> QED BY <2>3
<1>5. StaysNow(q, u)
  BY <1>3 DEF StaysNow
<1>6. StaysLater(u)
  BY <1>4 DEF StaysLater
<1> QED BY <1>2, <1>5, <1>6 DEF u

(* The next word of wake_seq, unless it is the last.                      *)
LEMMA PushStays ==
  ASSUME NEW s \in Seq(Words), NEW n \in 0 .. 4, NEW r \in 1 .. 5, Agree(s, n),
         Len(s) < n => r = RomAt(n - Len(s)), StaysNow(r, s), StaysLater(s)
  PROVE  LET u == Append(s, wake_seq[n + 1]) IN StaysNow(r, u) /\ StaysLater(u)
<1> DEFINE m == Len(s)
           u == Append(s, wake_seq[n + 1])
<1>1. /\ m \in Nat /\ Len(u) = m + 1 /\ u[m + 1] = wake_seq[n + 1]
      /\ \A i \in 1 .. m : u[i] = s[i]
  OBVIOUS
<1>2. \A i \in 1 .. m : m - i < n => s[i] = wake_seq[n - (m - i)]
  BY <1>1, AgreeAt
<1> HIDE DEF m, u
<1>3. n <= 1 => u[m + 1] = 0
  <2>1. n <= 1 => n + 1 = 1 \/ n + 1 = 2
    OBVIOUS
  <2> QED BY <1>1, <2>1, WakeSeq
<1>4. ASSUME NEW i \in 1 .. Len(u), \A h \in 1 .. i : u[h] # 0
      PROVE  r + i <= 5
  <2>1. CASE i <= m
    <3>1. i \in 1 .. Len(s) /\ \A h \in 1 .. i : s[h] # 0
      BY <1>1, <1>4, <2>1 DEF m
    <3> QED BY <3>1 DEF StaysNow
  <2>2. CASE i = m + 1
    <3>1. n >= 2
      BY <1>1, <1>3, <1>4, <2>2
    <3>2. m <= n - 2
      <4> SUFFICES ASSUME m >= n - 1 PROVE FALSE
        BY <1>1
      <4> DEFINE h == m - (n - 2)
      <4>1. h \in 1 .. m /\ m - h = n - 2
        BY <1>1, <3>1
      <4>2. s[h] = wake_seq[2]
        <5> HIDE DEF h
        <5>1. n - (m - h) = 2 /\ m - h < n
          BY <4>1, <3>1
        <5> QED BY <1>2, <4>1, <5>1
      <4> QED BY <1>1, <1>4, <2>2, <4>1, <4>2, WakeSeq
    <3>3. r = n - m
      <4>1. r = RomAt(n - m) /\ n - m \in Nat /\ n - m >= 2
        BY <3>1, <3>2, <1>1 DEF m
      <4> QED BY <4>1 DEF RomAt
    <3> QED BY <3>3, <2>2, <1>1
  <2> QED BY <2>1, <2>2, <1>1
<1>5. ASSUME NEW h \in 1 .. Len(u), NEW i \in 1 .. Len(u), h < i, u[h] = 0,
             \A g \in h + 1 .. i : u[g] # 0
      PROVE  i - h <= 3
  <2>1. CASE i <= m
    <3>1. i \in 1 .. Len(s) /\ h \in 1 .. Len(s) /\ s[h] = 0 /\ \A g \in h + 1 .. i : s[g] # 0
      BY <1>1, <1>5, <2>1 DEF m
    <3> QED BY <3>1, <1>5 DEF StaysLater
  <2>2. CASE i = m + 1
    <3>1. n >= 2 /\ h \in 1 .. m /\ s[h] = 0
      BY <1>1, <1>3, <1>5, <2>2
    <3>2. m - h >= n - 2
      <4> SUFFICES ASSUME m - h < n - 2 PROVE FALSE
        BY <1>1, <3>1
      <4>1. s[h] = wake_seq[n - (m - h)] /\ n - (m - h) \in 3 .. 6
        BY <1>1, <1>2, <3>1
      <4> QED BY <3>1, <4>1, WakeSeq
    <3>3. m - h <= n - 2
      <4> SUFFICES ASSUME m - h > n - 2 PROVE FALSE
        BY <1>1, <3>1
      <4> DEFINE g == m - (n - 2)
      <4>1. g \in 1 .. m /\ g \in h + 1 .. i /\ n - (m - g) = 2 /\ m - g < n
        BY <1>1, <2>2, <3>1
      <4> HIDE DEF g
      <4>2. s[g] = 0
        BY <1>2, <4>1, WakeSeq
      <4> QED BY <1>1, <1>5, <4>1, <4>2
    <3> QED BY <1>1, <2>2, <3>1, <3>2, <3>3
  <2> QED BY <2>1, <2>2, <1>1
<1>6. StaysNow(r, u)
  BY <1>4 DEF StaysNow
<1>7. StaysLater(u)
  BY <1>5 DEF StaysLater
<1> QED BY <1>6, <1>7 DEF u

(* The ROM takes the word that follows those of wake_seq it has received. *)
LEMMA ReceiveExact ==
  ASSUME rom \in 1 .. 5, NEW j \in 0 .. 5, NEW w, w = wake_seq[j + 1],
         j >= 1 => rom = RomAt(j) /\ regs = RegsAt(j)
  PROVE  /\ Expects(w) = RomAt(j + 1)
         /\ (IF Expects(w) > 3 THEN Append(regs, w) ELSE <<>>) = RegsAt(j + 1)
<1>1. vector_table # 0 /\ CPU1_STACK_TOP # 0 /\ initial_pc1 # 0
  BY BootAssumption
<1>2. CASE j <= 1
  <2>1. w = 0 /\ j + 1 \in 1 .. 3 /\ RomAt(j + 1) = 2
    <3>1. j = 0 \/ j = 1
      BY <1>2
    <3> QED BY <3>1, WakeSeq DEF RomAt
  <2>2. Expects(w) = 2
    BY <2>1 DEF Expects
  <2> QED BY <2>1, <2>2, RegsAtIs
<1>3. CASE j = 2
  <2>1. w = 1 /\ rom = 2 /\ RomAt(j + 1) = 3
    BY <1>3, WakeSeq DEF RomAt
  <2>2. Expects(w) = 3
    BY <2>1 DEF Expects
  <2> QED BY <1>3, <2>1, <2>2, RegsAtIs
<1>4. CASE j = 3
  <2>1. w = vector_table /\ rom = 3 /\ RomAt(j + 1) = 4 /\ regs = <<>>
    BY <1>4, WakeSeq, RegsAtIs DEF RomAt
  <2>2. Expects(w) = 4
    BY <1>1, <2>1 DEF Expects
  <2> QED BY <1>4, <2>1, <2>2, RegsAtIs
<1>5. CASE j = 4
  <2>1. w = CPU1_STACK_TOP /\ rom = 4 /\ RomAt(j + 1) = 5 /\ regs = <<vector_table>>
    BY <1>5, WakeSeq, RegsAtIs DEF RomAt
  <2>2. Expects(w) = 5
    BY <1>1, <2>1 DEF Expects
  <2> QED BY <1>5, <2>1, <2>2, RegsAtIs
<1>6. CASE j = 5
  <2>1. w = initial_pc1 /\ rom = 5 /\ RomAt(j + 1) = 6 /\ regs = <<vector_table, CPU1_STACK_TOP>>
    BY <1>6, WakeSeq, RegsAtIs DEF RomAt
  <2>2. Expects(w) = 6
    BY <1>1, <2>1 DEF Expects
  <2> QED BY <1>6, <2>1, <2>2, RegsAtIs DEF Kernel
<1> QED BY <1>2, <1>3, <1>4, <1>5, <1>6

-----------------------------------------------------------------------------
(* The steps while CPU1 is in the ROM.                                    *)

LEMMA LoopTypes ==
  ASSUME BootTypeOK
  PROVE  /\ to0 \in Seq(Words) /\ to1 \in Seq(Words) /\ Echoing \in Seq(Words)
         /\ Loop \in Seq(Words) /\ Len(Loop) = Len(to0) + Len(Echoing) + Len(to1)
         /\ Len(to0) \in Nat /\ Len(to1) \in Nat /\ Len(Echoing) \in 0 .. 1
<1>1. to0 \in Seq(Words) /\ to1 \in Seq(Words) /\ echo \in Words \cup {NULL}
  BY DEF BootTypeOK
<1>2. Echoing \in Seq(Words) /\ Len(Echoing) \in 0 .. 1
  BY <1>1 DEF Echoing
<1>3. Echoing \o to1 \in Seq(Words) /\ Len(Echoing \o to1) = Len(Echoing) + Len(to1)
  BY <1>1, <1>2
<1> DEFINE u == Echoing \o to1
<1> HIDE DEF u
<1>4. to0 \o u \in Seq(Words) /\ Len(to0 \o u) = Len(to0) + Len(u)
  BY <1>1, <1>3 DEF u
<1>5. Len(to0) \in Nat /\ Len(to1) \in Nat
  BY <1>1
<1> QED BY <1>1, <1>2, <1>3, <1>4, <1>5 DEF Loop, u

LEMMA SentIs ==
  ASSUME BootTypeOK, ControlOK
  PROVE  /\ Sent \in 0 .. 6
         /\ pc = "pop" => Sent = idx /\ Popping = 1
         /\ pc # "pop" => Sent = idx - 1 /\ Popping = 0
BY DEF ControlOK, Sent, Popping

(* What is in to1 agrees with what CPU0 has sent, too.                    *)
LEMMA ToRomAgrees ==
  ASSUME BootTypeOK, InRom
  PROVE  Agree(to1, Sent)
<1> DEFINE s == to0 \o Echoing
<1>1. to0 \in Seq(Words) /\ to1 \in Seq(Words) /\ Echoing \in Seq(Words)
  BY LoopTypes
<1>2. s \in Seq(Words) /\ Loop = s \o to1
  BY <1>1 DEF Loop
<1>3. Sent \in Nat /\ Agree(Loop, Sent)
  BY SentIs DEF InRom, AgreesOK
<1> HIDE DEF s
<1> QED BY <1>1, <1>2, <1>3, AgreeSuffix

LEMMA PushInRom ==
  ASSUME BootTypeOK, InRom, Push
  PROVE  InRom'
<1> DEFINE n == idx - 1
           w == wake_seq[n + 1]
<1>1. /\ rom \in 1 .. 5 /\ ControlOK /\ LagOK /\ AgreesOK /\ ExactOK /\ StaysOK
      /\ idx \in 1 .. 6
  BY DEF InRom, BootTypeOK, ControlOK
<1>2. /\ pc = "push" /\ pc' = "pop" /\ to1' = Append(to1, w)
      /\ to0' = to0 /\ idx' = idx /\ rom' = rom /\ echo' = echo /\ regs' = regs /\ slice' = slice
  <2>1. n + 1 = idx
    BY <1>1
  <2> QED BY <2>1 DEF Push, PushWord, cpu1
<1>3. Sent = n /\ n \in 0 .. 5 /\ Popping = 0 /\ Popping' = 1 /\ Sent' = n + 1
  BY <1>1, <1>2 DEF Sent, Popping
<1>4. w \in Words
  <2>1. n + 1 \in 1 .. 6
    BY <1>3
  <2> HIDE DEF n
  <2> QED BY <2>1, WakeSeq
<1>5. /\ to0 \in Seq(Words) /\ to1 \in Seq(Words) /\ Echoing \in Seq(Words)
      /\ Loop \in Seq(Words) /\ Len(to1) \in Nat /\ Len(Loop) \in Nat
  BY LoopTypes
<1>6. Loop' = Append(Loop, w)
  <2>1. Loop' = to0 \o (Echoing \o Append(to1, w))
    BY <1>2 DEF Loop, Echoing
  <2> HIDE DEF w
  <2>2. to0 \o (Echoing \o Append(to1, w)) = Append(to0 \o (Echoing \o to1), w)
    BY <1>4, <1>5, JoinPush
  <2> QED BY <2>1, <2>2 DEF Loop
<1>7. Len(Loop') = Len(Loop) + 1 /\ Len(to1') = Len(to1) + 1
  BY <1>2, <1>4, <1>5, <1>6
<1>8. ControlOK'
  BY <1>1, <1>2 DEF ControlOK
<1>9. LagOK'
  <2>1. Len(Loop) <= 4 /\ (idx = 6 => Len(Loop) = 0)
    BY <1>1, <1>2, <1>3 DEF LagOK
  <2> QED BY <2>1, <1>2, <1>3, <1>5, <1>7 DEF LagOK
<1>10. AgreesOK'
  BY <1>1, <1>3, <1>5, <1>6, AgreeAppend DEF AgreesOK
<1>11. ExactOK'
  <2>1. /\ Len(to1') < Sent' <=> Len(to1) < Sent
        /\ Sent' - Len(to1') = Sent - Len(to1)
    BY SMTT(30), <1>3, <1>5, <1>7
  <2> QED BY <1>1, <1>2, <2>1 DEF ExactOK
<1>12. StaysOK'
  <2> SUFFICES ASSUME idx < 6 PROVE StaysNow(rom, to1') /\ StaysLater(to1')
    BY <1>1, <1>2 DEF StaysOK
  <2>1. n \in 0 .. 4 /\ StaysNow(rom, to1) /\ StaysLater(to1)
    BY <1>1, <1>2 DEF StaysOK
  <2>2. Agree(to1, n) /\ (Len(to1) < n => rom = RomAt(n - Len(to1)))
    BY <1>1, <1>3, ToRomAgrees DEF ExactOK
  <2> HIDE DEF n
  <2> QED BY <1>1, <1>2, <1>5, <2>1, <2>2, PushStays
<1> QED BY <1>1, <1>2, <1>8, <1>9, <1>10, <1>11, <1>12 DEF InRom

LEMMA DrainInRom ==
  ASSUME BootTypeOK, InRom, Drain
  PROVE  InRom'
<1>1. /\ rom \in 1 .. 5 /\ ControlOK /\ LagOK /\ AgreesOK /\ ExactOK /\ StaysOK
      /\ idx \in 1 .. 6 /\ idx <= 2 /\ pc = "drain" /\ pc' \in {"drain", "push"}
      /\ to1' = to1 /\ idx' = idx /\ rom' = rom /\ echo' = echo /\ regs' = regs /\ slice' = slice
  BY DEF InRom, BootTypeOK, ControlOK, Drain, cpu1
<1>2. Sent' = Sent /\ Sent \in Nat /\ Popping = 0 /\ Popping' = 0 /\ Echoing' = Echoing
  BY <1>1 DEF Sent, Popping, Echoing
<1>3. /\ to0 \in Seq(Words) /\ to1 \in Seq(Words) /\ Echoing \in Seq(Words)
      /\ Loop \in Seq(Words) /\ Len(Loop) = Len(to0) + Len(Echoing) + Len(to1)
      /\ Len(to0) \in Nat /\ Len(to1) \in Nat /\ Len(Echoing) \in Nat
  BY LoopTypes
<1>4. ControlOK' /\ ExactOK' /\ StaysOK'
  BY <1>1, <1>2 DEF ControlOK, ExactOK, StaysOK
<1>5. CASE to0 # <<>> /\ to0' = Tail(to0) /\ pc' = pc
  <2>1. Loop' = Tail(Loop) /\ Loop # <<>>
    <3>1. Loop' = Tail(to0) \o (Echoing \o to1) /\ Echoing \o to1 \in Seq(Words)
      BY <1>1, <1>2, <1>3, <1>5 DEF Loop
    <3> QED BY <3>1, <1>3, <1>5, JoinPop DEF Loop
  <2>2. AgreesOK'
    BY <1>1, <1>2, <1>3, <2>1, AgreeTail DEF AgreesOK
  <2>3. Len(Loop') = Len(Loop) - 1
    BY <1>3, <2>1
  <2>4. LagOK'
    BY <1>1, <1>2, <1>3, <1>5, <2>3 DEF LagOK
  <2> QED BY <1>1, <1>4, <2>2, <2>4 DEF InRom
<1>6. CASE to0 = <<>> /\ to0' = to0
  <2>1. Loop' = Loop
    BY <1>1, <1>2, <1>6 DEF Loop
  <2>2. AgreesOK'
    BY <1>1, <1>2, <2>1 DEF AgreesOK
  <2>3. LagOK'
    <3>1. Len(to0) = 0
      BY <1>6
    <3>2. Len(Loop) <= 4
      BY <1>1, <1>2, <1>3, <3>1 DEF LagOK
    <3> QED BY <1>1, <1>2, <2>1, <3>2 DEF LagOK
  <2> QED BY <1>1, <1>4, <2>2, <2>3 DEF InRom
<1> QED BY <1>5, <1>6 DEF Drain

LEMMA PopInRom ==
  ASSUME BootTypeOK, InRom, Pop, to0 # <<>>
  PROVE  InRom'
<1> DEFINE w == Head(to0)
<1>1. /\ rom \in 1 .. 5 /\ ControlOK /\ LagOK /\ AgreesOK /\ ExactOK /\ StaysOK
      /\ idx \in 1 .. 6 /\ pc = "pop" /\ to0' = Tail(to0)
      /\ idx' = (IF w = wake_seq[idx] THEN idx + 1 ELSE 1)
      /\ pc' = (CASE idx' = 7 -> "timeslice" [] idx' \in 1 .. 2 -> "drain" [] OTHER -> "push")
      /\ to1' = to1 /\ rom' = rom /\ echo' = echo /\ regs' = regs /\ slice' = slice
  BY DEF InRom, BootTypeOK, ControlOK, Pop, NextIdx, cpu1
<1>2. Sent = idx /\ Popping = 1 /\ Echoing' = Echoing
  BY <1>1 DEF Sent, Popping, Echoing
<1>3. /\ to0 \in Seq(Words) /\ to1 \in Seq(Words) /\ Echoing \in Seq(Words)
      /\ Loop \in Seq(Words) /\ Len(Loop) = Len(to0) + Len(Echoing) + Len(to1)
      /\ Len(to0) \in Nat /\ Len(to1) \in Nat /\ Len(Echoing) \in Nat /\ Len(Loop) \in Nat
  BY LoopTypes
<1>4. Loop' = Tail(Loop) /\ Loop # <<>> /\ Head(Loop) = w
  <2>1. Loop' = Tail(to0) \o (Echoing \o to1) /\ Echoing \o to1 \in Seq(Words)
    BY <1>1, <1>2, <1>3 DEF Loop
  <2> QED BY <2>1, <1>3, JoinPop DEF Loop
<1> HIDE DEF w
<1>5. Len(Loop') = Len(Loop) - 1 /\ Len(Loop) >= 1 /\ Len(Loop) <= 5 /\ Loop[1] = w
  <2>1. Len(Loop') = Len(Loop) - 1 /\ Len(Loop) >= 1 /\ Loop[1] = w
    BY <1>3, <1>4
  <2> QED BY <2>1, <1>1, <1>2 DEF LagOK
<1>6. Agree(Loop, idx) /\ Agree(Loop', idx)
  BY SMTT(30), <1>1, <1>2, <1>3, <1>4, AgreeTail DEF AgreesOK
(* The answer to the last word comes from CPU1 when it leaves the ROM, and *)
(* before the last word is sent there are no surplus words.                *)
<1>7. idx < 6
  <2> SUFFICES ASSUME idx = 6 PROVE FALSE
    BY <1>1
  <2>1. Len(Loop) = 1 /\ Len(to0) >= 1
    BY <1>1, <1>2, <1>3 DEF LagOK
  <2>2. Len(to1) = 0
    BY SMTT(30), <2>1, <1>3
  <2>3. rom = RomAt(6)
    BY <2>2, <1>1, <1>2 DEF ExactOK
  <2> QED BY <2>3, <1>1 DEF RomAt
<1>8. ASSUME idx = 5, w = wake_seq[5] PROVE Len(Loop) = 1
  <2>1. w = wake_seq[5 - (Len(Loop) - 1)]
    <3>1. 1 \in 1 .. Len(Loop) /\ Len(Loop) - 1 < 5
      BY <1>3, <1>5
    <3> QED BY <3>1, <1>3, <1>5, <1>6, <1>8, AgreeAt
  <2>2. 5 - (Len(Loop) - 1) \in 1 .. 5
    BY SMTT(30), <1>3, <1>5
  <2>3. ~(5 - (Len(Loop) - 1) \in 1 .. 4)
    BY <2>1, <1>8, WakeSeq
  <2> QED BY <2>2, <2>3, <1>3
<1>9. /\ idx' \in 1 .. 6 /\ pc' \in {"drain", "push"} /\ (pc' = "drain" => idx' <= 2)
      /\ Popping' = 0 /\ Sent' = idx' - 1
  BY <1>1, <1>7 DEF Popping, Sent
<1>10. ControlOK'
  BY <1>1, <1>9 DEF ControlOK
<1>11. LagOK'
  <2>1. ASSUME idx' = 6 PROVE Len(Loop) = 1
    BY <2>1, <1>1, <1>8
  <2> QED BY <2>1, <1>3, <1>5, <1>9 DEF LagOK
<1>12. AgreesOK'
  <2>1. CASE w = wake_seq[idx]
    <3>1. Sent' = idx
      BY <2>1, <1>1, <1>9
    <3> QED BY <3>1, <1>6 DEF AgreesOK
  <2>2. CASE w # wake_seq[idx]
    <3>1. Sent' = 0
      BY <2>2, <1>1, <1>9
    <3> QED BY <3>1 DEF AgreesOK, Agree
  <2> QED BY <2>1, <2>2
<1>13. ExactOK'
  <2>1. CASE w = wake_seq[idx]
    <3>1. Sent' = Sent
      BY <2>1, <1>1, <1>2, <1>9
    <3> QED BY <3>1, <1>1 DEF ExactOK
  <2>2. CASE w # wake_seq[idx]
    <3>1. Sent' = 0
      BY <2>2, <1>1, <1>9
    <3> QED BY <3>1, <1>1, <1>3 DEF ExactOK
  <2> QED BY <2>1, <2>2
<1>14. StaysOK'
  BY <1>1, <1>7 DEF StaysOK
<1> QED BY <1>1, <1>10, <1>11, <1>12, <1>13, <1>14 DEF InRom

LEMMA ReceiveInRom ==
  ASSUME BootTypeOK, InRom, Receive, to1 # <<>>
  PROVE  InRom' \/ Leaving'
<1> DEFINE w == Head(to1)
           n == Sent
           m == Len(to1)
           j == n - m
<1>1. /\ rom \in 1 .. 5 /\ ControlOK /\ LagOK /\ AgreesOK /\ ExactOK /\ StaysOK
      /\ idx \in 1 .. 6 /\ slice = NULL /\ regs \in Seq(Words)
  BY DEF InRom, BootTypeOK, ControlOK
<1>2. /\ echo = NULL /\ to1' = Tail(to1) /\ echo' = w /\ rom' = Expects(w)
      /\ regs' = (IF Expects(w) > 3 THEN Append(regs, w) ELSE <<>>)
      /\ to0' = to0 /\ pc' = pc /\ idx' = idx /\ slice' = slice
  BY DEF Receive, cpu0
<1>3. Sent' = Sent /\ Popping' = Popping /\ Sent \in 0 .. 6
  BY <1>1, <1>2, SentIs DEF Sent, Popping
<1>4. /\ to0 \in Seq(Words) /\ to1 \in Seq(Words) /\ Loop \in Seq(Words)
      /\ Len(Loop) = Len(to0) + Len(Echoing) + Len(to1)
      /\ Len(to0) \in Nat /\ Len(to1) \in Nat /\ Len(Echoing) \in Nat
  BY LoopTypes
<1>5. Len(to1) >= 1 /\ Len(Tail(to1)) = Len(to1) - 1 /\ w = to1[1] /\ w \in Words
  BY <1>4
<1> HIDE DEF w, n, m
<1>6. Len(Echoing) = 0 /\ Len(Echoing') = 1 /\ Echoing = <<>> /\ Echoing' = <<w>>
  BY <1>2, <1>5, NullIsNoWord DEF Echoing
<1>7. Loop' = Loop
  <2>1. to0 \o (<<Head(to1)>> \o Tail(to1)) = to0 \o (<<>> \o to1)
    BY <1>4, JoinReceive
  <2> QED BY <2>1, <1>2, <1>6 DEF Loop, w
<1>8. n \in 0 .. 6 /\ m \in Nat /\ m >= 1
  BY <1>3, <1>4, <1>5 DEF n, m
<1>9. ASSUME j \in 0 .. 5
      PROVE  rom' = RomAt(j + 1) /\ regs' = RegsAt(j + 1)
  <2>1. w = wake_seq[j + 1]
    <3>1. 1 \in 1 .. m /\ m - 1 < n /\ n - (m - 1) = j + 1
      BY <1>9, <1>8
    <3>2. Agree(to1, n) /\ n \in Nat
      BY <1>3, ToRomAgrees DEF n
    <3> HIDE DEF j
    <3> QED BY <3>1, <3>2, <1>4, <1>5, AgreeAt DEF m
  <2>2. j >= 1 => rom = RomAt(j) /\ regs = RegsAt(j)
    <3>1. j >= 1 => m < n
      BY <1>8
    <3> QED BY <3>1, <1>1 DEF ExactOK, n, m
  <2> HIDE DEF j
  <2> QED BY <1>1, <1>2, <1>9, <2>1, <2>2, ReceiveExact
<1>10. CASE idx = 6 /\ pc = "pop"
  <2>1. Popping = 1 /\ Sent = 6
    BY <1>10 DEF Popping, Sent
  <2>2. Len(to1) = 1 /\ Len(to0) = 0
    BY <2>1, <1>1, <1>4, <1>5, <1>6, <1>10 DEF LagOK
  <2>3. rom' = 6 /\ regs' = Kernel
    <3>1. j = 5
      BY <2>1, <2>2 DEF n, m
    <3> HIDE DEF j
    <3> QED BY <1>9, <3>1, RegsAtIs DEF RomAt
  <2>4. w = initial_pc1
    <3>1. to1[1] = wake_seq[6 - (1 - 1)]
      BY <2>1, <2>2, <1>4, ToRomAgrees, AgreeAt
    <3> QED BY <3>1, <1>5, WakeSeq
  <2>5. to1' = <<>> /\ to0' = <<>>
    BY <2>2, <1>2, <1>4
  <2> QED BY <2>3, <2>4, <2>5, <1>1, <1>2, <1>10 DEF Leaving
<1>11. CASE idx < 6 \/ pc # "pop"
  <2>1. StaysNow(rom, to1) /\ StaysLater(to1)
    BY <1>1, <1>11 DEF StaysOK
  <2>2. rom' \in 1 .. 5 /\ StaysNow(rom', Tail(to1)) /\ StaysLater(Tail(to1))
    <3>1. (w = 0 => rom' = 2) /\ (w # 0 => rom' \in 1 .. rom + 1)
      BY <1>1, <1>2, <1>5, ExpectsIs
    <3> QED BY <3>1, <2>1, <1>1, <1>4, ReceiveStays DEF w
  <2>3. StaysOK'
    BY <2>2, <1>2 DEF StaysOK
  <2>4. ControlOK'
    <3>1. Expects(w) > 3 => rom >= 3 /\ Expects(w) = rom + 1
      BY <1>1, <1>5, ExpectsIs
    <3>2. rom >= 3 => Len(regs) = rom - 3
      BY <1>1 DEF ControlOK
    <3>3. Expects(w) > 3 => Len(regs') = Expects(w) - 3
      BY <3>1, <3>2, <1>1, <1>2, <1>5
    <3>4. ~(Expects(w) > 3) => Len(regs') = 0
      BY <1>2
    <3>5. Len(regs') = IF rom' <= 3 THEN 0 ELSE rom' - 3
      BY <3>3, <3>4, <2>2, <1>2
    <3> QED BY <3>5, <1>1, <1>2 DEF ControlOK
  <2>5. LagOK'
    <3>1. /\ Len(Loop') = Len(Loop) /\ Popping' = Popping /\ pc' = pc /\ idx' = idx
          /\ Len(Echoing') + Len(to1') = Len(Echoing) + Len(to1)
      BY <1>2, <1>3, <1>4, <1>5, <1>6, <1>7
    <3> QED BY <3>1, <1>1 DEF LagOK
  <2>6. AgreesOK'
    BY <1>1, <1>3, <1>7 DEF AgreesOK
  <2>7. ExactOK'
    <3> SUFFICES ASSUME Len(to1') < Sent'
                 PROVE  rom' = RomAt(Sent' - Len(to1')) /\ regs' = RegsAt(Sent' - Len(to1'))
      BY DEF ExactOK
    <3>1. Sent' = n /\ Len(to1') = m - 1
      BY <1>2, <1>3, <1>5 DEF n, m
    <3>2. j \in 0 .. 5 /\ Sent' - Len(to1') = j + 1
      BY <3>1, <1>8
    <3> HIDE DEF j
    <3> QED BY <3>2, <1>9
  <2> QED BY <2>2, <2>3, <2>4, <2>5, <2>6, <2>7 DEF InRom
<1> QED BY <1>1, <1>10, <1>11

LEMMA EchoInRom ==
  ASSUME BootTypeOK, InRom, Echo, Len(to0) < Depth
  PROVE  InRom'
<1>1. /\ rom \in 1 .. 5 /\ ControlOK /\ LagOK /\ AgreesOK /\ ExactOK /\ StaysOK
      /\ idx \in 1 .. 6 /\ echo \in Words
  BY DEF InRom, BootTypeOK, ControlOK, Echo
<1>2. /\ to0' = Append(to0, echo) /\ echo' = NULL /\ rom' = rom /\ to1' = to1
      /\ pc' = pc /\ idx' = idx /\ regs' = regs /\ slice' = slice
  <2>1. Len(to0) # Depth
    BY BootAssumption, LoopTypes
  <2> QED BY <2>1, <1>1 DEF Echo, cpu0
<1>3. Sent' = Sent /\ Popping' = Popping
  BY <1>2 DEF Sent, Popping
<1>4. /\ to0 \in Seq(Words) /\ to1 \in Seq(Words)
      /\ Len(to0) \in Nat /\ Len(to1) \in Nat /\ Len(Echoing) \in Nat
  BY LoopTypes
<1>5. Echoing = <<echo>> /\ Echoing' = <<>> /\ Len(Echoing) = 1 /\ Len(Echoing') = 0
  BY <1>1, <1>2, NullIsNoWord DEF Echoing
<1>6. Loop' = Loop
  <2>1. Append(to0, echo) \o (<<>> \o to1) = to0 \o (<<echo>> \o to1)
    BY <1>1, <1>4, JoinEcho
  <2> QED BY <2>1, <1>2, <1>5 DEF Loop
<1>7. LagOK'
  BY <1>1, <1>2, <1>3, <1>4, <1>5, <1>6 DEF LagOK
<1>8. ControlOK' /\ AgreesOK' /\ ExactOK' /\ StaysOK'
  BY <1>1, <1>2, <1>3, <1>6 DEF ControlOK, AgreesOK, ExactOK, StaysOK
<1> QED BY <1>1, <1>2, <1>7, <1>8 DEF InRom

-----------------------------------------------------------------------------
(* All steps.                                                             *)

(* To wait, and the end of WFE, change nothing else.                      *)
LEMMA SleepKeeps ==
  ASSUME UNCHANGED <<mailbox, cpu0, cpu1>>
  PROVE  (InRom => InRom') /\ (Leaving => Leaving') /\ (HasLeft => HasLeft')
<1>1. UNCHANGED <<to0, to1, pc, idx, rom, echo, regs, slice>>
  BY DEF mailbox, cpu0, cpu1
<1>2. Loop' = Loop /\ Sent' = Sent /\ Popping' = Popping /\ Echoing' = Echoing
  BY <1>1 DEF Loop, Sent, Popping, Echoing
<1>3. /\ ControlOK' = ControlOK /\ LagOK' = LagOK /\ AgreesOK' = AgreesOK
      /\ ExactOK' = ExactOK /\ StaysOK' = StaysOK
  BY <1>1, <1>2 DEF ControlOK, LagOK, AgreesOK, ExactOK, StaysOK
<1>4. InRom => InRom'
  BY <1>1, <1>3 DEF InRom
<1>5. Leaving => Leaving'
  BY <1>1 DEF Leaving
<1>6. HasLeft => HasLeft'
  BY <1>1 DEF HasLeft
<1> QED BY <1>4, <1>5, <1>6

LEMMA BootTypeNext ==
  ASSUME BootTypeOK, InRom \/ Leaving \/ HasLeft, Next
  PROVE  BootTypeOK'
<1>1. /\ to0 \in Seq(Words) /\ to1 \in Seq(Words) /\ regs \in Seq(Words)
      /\ Len(to0) <= Depth /\ Len(to1) <= Depth /\ Len(regs) <= 3 /\ Depth \in Nat \ {0}
      /\ event \in [0 .. 1 -> BOOLEAN] /\ waiting \in [0 .. 1 -> BOOLEAN]
      /\ pc \in {"drain", "push", "pop", "timeslice", "done"}
      /\ idx \in 1 .. 7 /\ rom \in 1 .. 7
      /\ echo \in Words \cup {NULL} /\ slice \in Words \cup {NULL}
  BY BootAssumption DEF BootTypeOK
<1>2. ASSUME UNCHANGED <<mailbox, cpu0, cpu1>>, waiting' \in [0 .. 1 -> BOOLEAN],
             event' \in [0 .. 1 -> BOOLEAN]
      PROVE  BootTypeOK'
  BY <1>1, <1>2 DEF mailbox, cpu0, cpu1, BootTypeOK
<1>3. ASSUME NEW c \in 0 .. 1, MustWait(c)
      PROVE  waiting' \in [0 .. 1 -> BOOLEAN] /\ event' \in [0 .. 1 -> BOOLEAN]
  BY <1>1, <1>3 DEF MustWait
<1>4. Sev => event' \in [0 .. 1 -> BOOLEAN]
  BY DEF Sev
<1>0. /\ to0 # <<>> => Tail(to0) \in Seq(Words) /\ Len(Tail(to0)) <= Depth
      /\ to1 # <<>> => /\ Head(to1) \in Words
                       /\ Tail(to1) \in Seq(Words) /\ Len(Tail(to1)) <= Depth
  BY TailFits DEF BootTypeOK
<1>5. CASE Drain
  <2>1. to0' \in Seq(Words) /\ Len(to0') <= Depth
    <3>1. to0' = to0 \/ (to0 # <<>> /\ to0' = Tail(to0))
      BY <1>5 DEF Drain
    <3> QED BY <3>1, <1>1, <1>0
  <2> QED BY <2>1, <1>1, <1>4, <1>5 DEF Drain, cpu1, BootTypeOK
<1>6. ASSUME NEW w \in Words, PushWord(w), pc' \in {"pop", "done"}, UNCHANGED idx
      PROVE  BootTypeOK'
  BY <1>1, <1>4, <1>6 DEF PushWord, cpu1, BootTypeOK
<1>7. CASE Push
  <2>1. idx \in 1 .. 6
    BY <1>7 DEF Push, InRom, ControlOK, Leaving, HasLeft
  <2>2. wake_seq[idx] \in Words
    BY <2>1, WakeSeq
  <2>3. PushWord(wake_seq[idx]) /\ pc' = "pop" /\ UNCHANGED idx
    BY <1>7 DEF Push, PushWord
  <2> QED BY <2>2, <2>3, <1>6
<1>8. CASE PushTimeslice
  BY <1>6, <1>8 DEF PushTimeslice, PushWord, Words
<1>9. CASE Pop
  <2>1. CASE to0 = <<>> /\ MustWait(0) /\ UNCHANGED <<to0, cpu0>>
    BY <2>1, <1>2, <1>3, <1>9 DEF Pop, mailbox
  <2>2. CASE to0 # <<>>
    <3>1. idx \in 1 .. 6
      BY <1>9 DEF Pop, InRom, ControlOK, Leaving, HasLeft
    <3>2. idx' \in 1 .. 7 /\ pc' \in {"drain", "push", "timeslice"}
      BY <2>2, <3>1, <1>9 DEF Pop, NextIdx
    <3>3. to0' \in Seq(Words) /\ Len(to0') <= Depth /\ UNCHANGED <<to1, event, waiting, cpu1>>
      BY <2>2, <1>0, <1>9 DEF Pop
    <3> QED BY <3>2, <3>3, <1>1 DEF cpu1, BootTypeOK
  <2> QED BY <2>1, <2>2, <1>9 DEF Pop
<1>10. CASE Receive
  <2>1. CASE to1 = <<>> /\ MustWait(1) /\ UNCHANGED <<to1, rom, echo, regs>>
    BY <2>1, <1>2, <1>3, <1>10 DEF Receive, mailbox, cpu1
  <2>2. CASE to1 # <<>>
    <3> DEFINE w == Head(to1)
    <3>1. w \in Words /\ to1' \in Seq(Words) /\ Len(to1') <= Depth
      BY <2>2, <1>0, <1>10 DEF Receive
    <3>2. rom \in 1 .. 5 /\ Len(regs) = IF rom <= 3 THEN 0 ELSE rom - 3
      BY <1>1, <1>10 DEF Receive, InRom, ControlOK, Leaving, HasLeft
    <3>3. /\ echo' = w /\ rom' = Expects(w)
          /\ regs' = (IF Expects(w) > 3 THEN Append(regs, w) ELSE <<>>)
          /\ UNCHANGED <<to0, pc, idx, event, waiting, slice>>
      BY <2>2, <1>10 DEF Receive, cpu0
    <3> HIDE DEF w
    <3>4. Expects(w) \in 1 .. 6 /\ (Expects(w) > 3 => rom >= 3 /\ Expects(w) = rom + 1)
      BY <3>1, <3>2, ExpectsIs
    <3>5. regs' \in Seq(Words) /\ Len(regs') <= 3
      <4>1. CASE Expects(w) > 3
        BY <4>1, <3>1, <3>2, <3>3, <3>4, <1>1
      <4>2. CASE ~(Expects(w) > 3)
        BY <4>2, <3>3
      <4> QED BY <4>1, <4>2
    <3> QED BY <3>1, <3>3, <3>4, <3>5, <1>1 DEF BootTypeOK
  <2> QED BY <2>1, <2>2, <1>10 DEF Receive
<1>11. CASE Echo
  <2>1. CASE MustWait(1) /\ UNCHANGED <<to0, echo, rom>>
    BY <2>1, <1>2, <1>3, <1>11 DEF Echo, mailbox, cpu1
  <2>2. CASE Len(to0) < Depth /\ to0' = Append(to0, echo) /\ Sev /\ echo' = NULL
             /\ rom' = (IF rom = 6 THEN 7 ELSE rom) /\ UNCHANGED waiting
    <3>1. echo \in Words
      BY <1>1, <1>11 DEF Echo
    <3>2. to0' \in Seq(Words) /\ Len(to0') <= Depth
      BY <3>1, <2>2, <1>1
    <3>3. rom' \in 1 .. 7
      BY <2>2, <1>1
    <3> QED BY <3>2, <3>3, <2>2, <1>1, <1>4, <1>11 DEF Echo, cpu0, BootTypeOK
  <2> QED BY <2>1, <2>2, <1>11 DEF Echo
<1>12. CASE Core1Entry
  <2>1. CASE to1 = <<>> /\ MustWait(1) /\ UNCHANGED <<to1, slice>>
    BY <2>1, <1>2, <1>3, <1>12 DEF Core1Entry, mailbox, cpu1
  <2>2. CASE to1 # <<>>
    <3>1. slice' \in Words /\ to1' \in Seq(Words) /\ Len(to1') <= Depth
      BY <2>2, <1>0, <1>12 DEF Core1Entry
    <3> QED BY <3>1, <2>2, <1>1, <1>12 DEF Core1Entry, cpu0, BootTypeOK
  <2> QED BY <2>1, <2>2, <1>12 DEF Core1Entry
<1>13. ASSUME NEW c \in 0 .. 1, Wfe(c) PROVE BootTypeOK'
  BY <1>1, <1>2, <1>13 DEF Wfe
<1>14. CASE Started
  BY <1>1, <1>2, <1>14 DEF Started, vars
<1> QED
  BY <1>5, <1>7, <1>8, <1>9, <1>10, <1>11, <1>12, <1>13, <1>14 DEF Next, Cpu0, Cpu1

LEMMA InRomNext ==
  ASSUME BootTypeOK, InRom, Next
  PROVE  InRom' \/ Leaving'
<1>1. rom \in 1 .. 5 /\ slice = NULL /\ pc \in {"drain", "push", "pop"}
  BY DEF BootTypeOK, InRom, ControlOK
<1>2. CASE Drain
  BY <1>2, DrainInRom
<1>3. CASE Push
  BY <1>3, PushInRom
<1>4. CASE Pop
  <2>1. CASE to0 # <<>>
    BY <2>1, <1>4, PopInRom
  <2>2. CASE to0 = <<>>
    BY <2>2, <1>4, SleepKeeps DEF Pop, mailbox
  <2> QED BY <2>1, <2>2
<1>5. CASE Receive
  <2>1. CASE to1 # <<>>
    BY <2>1, <1>5, ReceiveInRom
  <2>2. CASE to1 = <<>>
    BY <2>2, <1>5, SleepKeeps DEF Receive, mailbox, cpu1
  <2> QED BY <2>1, <2>2
<1>6. CASE Echo
  <2>1. CASE Len(to0) < Depth
    BY <2>1, <1>6, EchoInRom
  <2>2. CASE Len(to0) = Depth
    <3>1. UNCHANGED <<mailbox, cpu0, cpu1>>
      BY <2>2, <1>6, BootAssumption DEF Echo, mailbox, cpu1
    <3> QED BY <3>1, SleepKeeps
  <2> QED BY <2>1, <2>2, <1>6 DEF Echo
<1>7. ASSUME NEW c \in 0 .. 1, Wfe(c) PROVE InRom'
  BY <1>7, SleepKeeps DEF Wfe
<1> QED
  BY <1>1, <1>2, <1>3, <1>4, <1>5, <1>6, <1>7
  DEF Next, Cpu0, Cpu1, PushTimeslice, Core1Entry, Started

LEMMA LeavingNext ==
  ASSUME BootTypeOK, Leaving, Next
  PROVE  Leaving' \/ HasLeft'
<1>1. /\ rom = 6 /\ echo = initial_pc1 /\ regs = Kernel /\ slice = NULL
      /\ pc = "pop" /\ idx = 6 /\ to0 = <<>> /\ to1 = <<>> /\ Depth \in Nat \ {0}
  BY BootAssumption DEF Leaving
<1>2. CASE Pop
  BY <1>1, <1>2, SleepKeeps DEF Pop, mailbox
<1>3. CASE Echo
  <2>1. Len(to0) # Depth
    BY <1>1
  <2>2. /\ to0' = <<initial_pc1>> /\ echo' = NULL /\ rom' = 7
        /\ UNCHANGED <<to1, pc, idx, regs, slice>>
    BY <1>1, <1>3, <2>1 DEF Echo, cpu0
  <2> QED BY <1>1, <2>2 DEF HasLeft
<1>4. ASSUME NEW c \in 0 .. 1, Wfe(c) PROVE Leaving'
  BY <1>4, SleepKeeps DEF Wfe
<1> QED
  BY <1>1, <1>2, <1>3, <1>4
  DEF Next, Cpu0, Cpu1, Drain, Push, PushTimeslice, Receive, Core1Entry, Started

LEMMA HasLeftNext ==
  ASSUME BootTypeOK, HasLeft, Next
  PROVE  HasLeft'
<1>1. rom = 7 /\ echo = NULL /\ regs = Kernel
  BY DEF HasLeft
<1>2. timeslice # NULL /\ slice # NULL => slice = timeslice
  BY BootAssumption DEF HasLeft, Words
<1>3. CASE Pop
  <2>1. CASE to0 = <<>>
    BY <2>1, <1>3, SleepKeeps DEF Pop, mailbox
  <2>2. CASE to0 # <<>>
    <3>1. pc = "pop" /\ idx = 6 /\ slice = NULL /\ to0 = <<initial_pc1>> /\ to1 = <<>>
      BY <1>3 DEF Pop, HasLeft
    <3>2. NextIdx(initial_pc1) = 7
      BY <3>1, WakeSeq DEF NextIdx
    <3>3. idx' = 7 /\ pc' = "timeslice" /\ to0' = <<>> /\ UNCHANGED <<to1, cpu1>>
      BY <2>2, <3>1, <3>2, <1>3 DEF Pop
    <3> QED BY <3>1, <3>3, <1>1 DEF HasLeft, cpu1
  <2> QED BY <2>1, <2>2
<1>4. CASE PushTimeslice
  <2>1. pc = "timeslice" /\ idx = 7 /\ slice = NULL /\ to0 = <<>> /\ to1 = <<>>
    BY <1>4 DEF PushTimeslice, HasLeft
  <2>2. to1' = <<timeslice>> /\ pc' = "done" /\ UNCHANGED <<to0, idx, cpu1>>
    BY <2>1, <1>4 DEF PushTimeslice, PushWord
  <2> QED BY <2>1, <2>2, <1>1 DEF HasLeft, cpu1
<1>5. CASE Core1Entry
  <2>1. CASE to1 = <<>>
    BY <2>1, <1>5, SleepKeeps DEF Core1Entry, mailbox, cpu1
  <2>2. CASE to1 # <<>>
    <3>1. pc = "done" /\ idx = 7 /\ to0 = <<>> /\ to1 = <<timeslice>>
      BY <2>2 DEF HasLeft
    <3>2. slice' = timeslice /\ to1' = <<>> /\ UNCHANGED <<to0, cpu0, rom, echo, regs>>
      BY <2>2, <3>1, <1>5 DEF Core1Entry
    <3> QED BY <3>1, <3>2, <1>1 DEF HasLeft, cpu0
  <2> QED BY <2>1, <2>2
<1>6. ASSUME NEW c \in 0 .. 1, Wfe(c) PROVE HasLeft'
  BY <1>6, SleepKeeps DEF Wfe
<1>7. CASE Started
  BY <1>7, SleepKeeps DEF Started, vars
<1>8. pc \in {"pop", "timeslice", "done"}
  BY DEF HasLeft
<1> QED
  BY <1>1, <1>3, <1>4, <1>5, <1>6, <1>7, <1>8
  DEF Next, Cpu0, Cpu1, Drain, Push, Receive, Echo

-----------------------------------------------------------------------------
(* The first state.                                                       *)

LEMMA StaleIs ==
  ASSUME NEW most \in Nat, NEW s \in Stale(most)
  PROVE  s \in Seq(Words) /\ Len(s) \in 0 .. most
<1>1. PICK n \in 0 .. most : s \in [1 .. n -> {0, 1, Junk}]
  BY DEF Stale
<1>2. s \in [1 .. n -> Words] /\ n \in Nat
  BY <1>1 DEF Words
<1>3. s \in Seq(Words) /\ Len(s) = n
  BY <1>2
<1> QED BY <1>1, <1>3

LEMMA BootInit ==
  ASSUME FewLeftover, Init
  PROVE  BootInv
<1>1. /\ Depth \in Nat \ {0} /\ Leftover \in Nat /\ Leftover <= Depth /\ Leftover <= 3
      /\ NULL \notin Words
  BY BootAssumption DEF FewLeftover
<1>2. /\ to0 \in Seq(Words) /\ Len(to0) \in Nat /\ Len(to0) <= Depth
      /\ to1 \in Seq(Words) /\ Len(to1) \in Nat /\ Len(to1) <= Depth /\ Len(to1) <= 3
  <2>1. to0 \in Seq(Words) /\ Len(to0) \in 0 .. Depth
    BY <1>1, StaleIs DEF Init
  <2>2. to1 \in Seq(Words) /\ Len(to1) \in 0 .. Leftover
    BY <1>1, StaleIs DEF Init
  <2> QED BY <2>1, <2>2, <1>1
<1>3. /\ event \in [0 .. 1 -> BOOLEAN] /\ waiting \in [0 .. 1 -> BOOLEAN]
      /\ pc = "drain" /\ idx = 1 /\ rom \in 1 .. 5 /\ rom + Len(to1) <= 5 /\ slice = NULL
      /\ echo \in Words \cup {NULL}
  BY DEF Init, LastReceived, Words
<1>4. /\ BootTypeOK
      /\ Len(regs) = IF rom <= 3 THEN 0 ELSE rom - 3
  <2>1. /\ regs \in Seq(Words) /\ Len(regs) <= 3
        /\ Len(regs) = IF rom <= 3 THEN 0 ELSE rom - 3
    <3>1. Junk \in Words /\ regs = [i \in 1 .. rom - 3 |-> Junk]
      BY DEF Init, Words
    <3>2. CASE rom <= 3
      <4>1. 1 .. rom - 3 = {}
        BY <3>2, <1>3
      <4>2. regs = <<>>
        BY <3>1, <4>1
      <4> QED BY <3>2, <4>2
    <3>3. CASE rom > 3
      <4> DEFINE m == rom - 3
      <4>1. m \in 1 .. 2 /\ regs = [i \in 1 .. m |-> Junk]
        BY <3>1, <3>3, <1>3
      <4> HIDE DEF m
      <4>2. regs \in [1 .. m -> Words] /\ m \in Nat
        BY <3>1, <4>1
      <4>3. regs \in Seq(Words) /\ Len(regs) = m
        BY <4>2
      <4> QED BY <3>3, <4>1, <4>3, <1>3 DEF m
    <3> QED BY <3>2, <3>3, <1>3
  <2> QED BY <2>1, <1>2, <1>3 DEF BootTypeOK
<1>5. ControlOK
  BY <1>3, <1>4 DEF ControlOK
<1>6. Sent = 0 /\ Popping = 0
  BY <1>3 DEF Sent, Popping
<1>7. AgreesOK /\ ExactOK
  BY <1>2, <1>6 DEF AgreesOK, Agree, ExactOK
<1>8. LagOK
  <2> DEFINE e == Len(Echoing)
             m == Len(to1)
  <2>1. e \in 0 .. 1 /\ m \in Nat /\ m <= 3
    BY <1>2, <1>4, LoopTypes
  <2> HIDE DEF e, m
  <2>2. e + m <= 4
    BY <2>1
  <2> QED BY <2>2, <1>3 DEF LagOK, e, m
<1>9. StaysOK
  <2>1. ASSUME NEW i \in 1 .. Len(to1) PROVE i \in Nat /\ i <= 3
    BY <1>2
  <2>2. StaysNow(rom, to1)
    BY <2>1, <1>3 DEF StaysNow
  <2>3. StaysLater(to1)
    <3>1. ASSUME NEW h \in 1 .. Len(to1), NEW i \in 1 .. Len(to1) PROVE i - h <= 3
      BY <1>2
    <3> QED BY <3>1 DEF StaysLater
  <2> QED BY <2>2, <2>3 DEF StaysOK
<1> QED BY <1>3, <1>4, <1>5, <1>7, <1>8, <1>9 DEF BootInv, InRom

LEMMA BootNext ==
  ASSUME BootInv, [Next]_vars
  PROVE  BootInv'
<1>1. CASE Next
  BY <1>1, BootTypeNext, InRomNext, LeavingNext, HasLeftNext DEF BootInv
<1>2. CASE UNCHANGED vars
  <2>1. UNCHANGED <<mailbox, cpu0, cpu1>>
    BY <1>2 DEF vars
  <2>2. BootTypeOK'
    BY <1>2 DEF vars, mailbox, cpu0, cpu1, BootInv, BootTypeOK
  <2> QED BY <2>1, <2>2, SleepKeeps DEF BootInv
<1> QED BY <1>1, <1>2

-----------------------------------------------------------------------------
(* The inductive invariant of the start of CPU1: the words between CPU0   *)
(* and the ROM are those that CPU0 has sent since it began, after at most *)
(* four others, and the ROM has received a beginning of wake_seq.         *)
THEOREM BootInvariant == FewLeftover => (Spec => []BootInv)
<1> SUFFICES ASSUME FewLeftover PROVE Spec => []BootInv
  OBVIOUS
<1>1. Init => BootInv
  BY BootInit
<1>2. BootInv /\ [Next]_vars => BootInv'
  BY BootNext
<1> QED BY <1>1, <1>2, PTL DEF Spec

(* CPU1 starts with the kernel's vector table, stack and entry point, and *)
(* the first word it reads is the timeslice, for a mailbox of any depth,  *)
(* full or not when init_scheduler begins, however often it starts over.  *)
THEOREM Cpu1StartsInKernel == FewLeftover => (Spec => []StartsInKernel)
<1> SUFFICES ASSUME FewLeftover PROVE Spec => []StartsInKernel
  OBVIOUS
<1>1. BootInv => StartsInKernel
  <2>1. InRom => rom # 7 /\ slice = NULL
    BY DEF BootInv, InRom, ControlOK
  <2> QED BY <2>1 DEF BootInv, Leaving, HasLeft, Kernel, StartsInKernel
<1>2. Spec => []BootInv
  BY BootInvariant
<1> QED BY <1>1, <1>2, PTL

(* init_scheduler returns on CPU0 only when CPU1 has left the boot ROM,   *)
(* and it leaves no word in the mailbox but the timeslice: no late echo   *)
(* is taken for a message afterwards.                                     *)
THEOREM CoresLeaveInStep == FewLeftover => (Spec => []LeavesInStep)
<1> SUFFICES ASSUME FewLeftover PROVE Spec => []LeavesInStep
  OBVIOUS
<1>1. BootInv => LeavesInStep
  <2> SUFFICES ASSUME BootInv PROVE LeavesInStep
    OBVIOUS
  <2>1. CASE InRom \/ Leaving
    BY <2>1 DEF BootInv, InRom, ControlOK, Leaving, LeavesInStep
  <2>2. CASE HasLeft
    <3>1. timeslice # NULL
      BY BootAssumption DEF Words
    <3> QED BY <2>2, <3>1 DEF BootInv, HasLeft, LeavesInStep
  <2> QED BY <2>1, <2>2 DEF BootInv
<1>2. Spec => []BootInv
  BY BootInvariant
<1> QED BY <1>1, <1>2, PTL
=============================================================================
