-------------------------- MODULE Mc60PairingProofs --------------------------
(***************************************************************************)
(* The driver takes no line for the answer to a command it does not answer *)
(* (MC60).  The states in which that matters are told apart from the rest: *)
(* what they ask has not been asked before and is answered once, and where *)
(* a state must know that nothing older is on its way, the answer it waits *)
(* for is the last thing the chip has to say of itself.                    *)
(***************************************************************************)
EXTENDS Mc60TypeProofs

-----------------------------------------------------------------------------
(* Sequences of lines. *)

(* After an element of A only elements of B follow. *)
Behind(queue, A, B) ==
    \A i, j \in 1..Len(queue) : i < j /\ queue[i] \in A => queue[j] \in B

LEMMA ShortRanges ==
    /\ Range(<< >>) = {}
    /\ \A a : Range(<<a>>) = {a}
    /\ \A a, b : Range(<<a, b>>) = {a, b}
    /\ \A a, b, c : Range(<<a, b, c>>) = {a, b, c}
    /\ \A a, b, c, d : Range(<<a, b, c, d>>) = {a, b, c, d}
  <1>1. Range(<< >>) = {}
    BY DEF Range
  <1>2. ASSUME NEW a PROVE Range(<<a>>) = {a}
    BY DEF Range
  <1>3. ASSUME NEW a, NEW b PROVE Range(<<a, b>>) = {a, b}
    BY DEF Range
  <1>4. ASSUME NEW a, NEW b, NEW c PROVE Range(<<a, b, c>>) = {a, b, c}
    BY DEF Range
  <1>5. ASSUME NEW a, NEW b, NEW c, NEW d PROVE Range(<<a, b, c, d>>) = {a, b, c, d}
    BY DEF Range
  <1>6. QED
    BY <1>1, <1>2, <1>3, <1>4, <1>5

Within(new, S) == Range(new) \subseteq S

LEMMA ShortWithin ==
    /\ \A S : \A a \in S : Within(<<a>>, S)
    /\ \A S : \A a, b \in S : Within(<<a, b>>, S)
    /\ \A S : \A a, b, c \in S : Within(<<a, b, c>>, S)
    /\ \A S : \A a, b, c, d \in S : Within(<<a, b, c, d>>, S)
  BY ShortRanges DEF Within

LEMMA HeadAndTail ==
    ASSUME NEW S, NEW queue \in Seq(S), queue # << >>
    PROVE  /\ Len(queue) \in Nat /\ 1 \in 1..Len(queue)
           /\ Head(queue) = queue[1] /\ Head(queue) \in Range(queue)
           /\ Tail(queue) \in Seq(S) /\ Len(Tail(queue)) = Len(queue) - 1
           /\ \A i \in 1..Len(Tail(queue)) : i + 1 \in 1..Len(queue) /\ Tail(queue)[i] = queue[i + 1]
           /\ Range(Tail(queue)) \subseteq Range(queue)
  <1>1. /\ Len(queue) \in Nat /\ Len(queue) # 0
        /\ Tail(queue) \in Seq(S) /\ Len(Tail(queue)) = Len(queue) - 1
        /\ \A i \in 1..Len(Tail(queue)) : Tail(queue)[i] = queue[i + 1]
        /\ Head(queue) = queue[1]
    BY EmptySeq, HeadTailProperties, LenProperties
  <1>2. \A i \in 1..Len(Tail(queue)) : i + 1 \in 1..Len(queue)
    BY <1>1
  <1>3. 1 \in 1..Len(queue)
    BY <1>1
  <1>4. Range(queue) = {queue[i] : i \in 1..Len(queue)}
    BY RangeEquality
  <1>5. Range(Tail(queue)) = {Tail(queue)[i] : i \in 1..Len(Tail(queue))}
    BY <1>1, RangeEquality
  <1>6. QED
    BY <1>1, <1>2, <1>3, <1>4, <1>5

LEMMA BehindTail ==
    ASSUME NEW S, NEW queue \in Seq(S), queue # << >>, NEW A, NEW B, Behind(queue, A, B)
    PROVE  /\ Behind(Tail(queue), A, B)
           /\ Head(queue) \in A => Range(Tail(queue)) \subseteq B
  <1> DEFINE rest == Tail(queue)
  <1>1. /\ Len(queue) \in Nat /\ Len(rest) = Len(queue) - 1 /\ 1 \in 1..Len(queue)
        /\ Head(queue) = queue[1] /\ rest \in Seq(S)
        /\ \A i \in 1..Len(rest) : i + 1 \in 1..Len(queue) /\ rest[i] = queue[i + 1]
    BY HeadAndTail
  <1> HIDE DEF rest
  <1>2. Behind(rest, A, B)
    <2> SUFFICES ASSUME NEW i \in 1..Len(rest), NEW j \in 1..Len(rest), i < j, rest[i] \in A
                 PROVE  rest[j] \in B
      BY DEF Behind
    <2>1. i + 1 < j + 1
      BY <1>1
    <2>2. QED
      BY <1>1, <2>1 DEF Behind
  <1>3. ASSUME Head(queue) \in A, NEW x \in Range(rest) PROVE x \in B
    <2>1. PICK i \in 1..Len(rest) : x = rest[i]
      BY <1>1, RangeEquality
    <2>2. 1 < i + 1
      BY <1>1
    <2>3. QED
      BY <1>1, <1>3, <2>1, <2>2 DEF Behind
  <1>4. QED
    BY <1>2, <1>3 DEF rest

(* The queue with new lines behind it, as many as fit. *)
LEMMA QueuedElements ==
    ASSUME NEW queue \in Seq(Lines), NEW new \in Seq(Lines)
    PROVE  LET all == Queued(queue, new) IN
           /\ all \in Seq(Lines)
           /\ Len(queue) \in Nat /\ Len(new) \in Nat /\ Len(all) \in Nat
           /\ Len(all) <= Len(queue) + Len(new)
           /\ \A i \in 1..Len(all) : i <= Len(queue) => all[i] = queue[i]
           /\ \A i \in 1..Len(all) :
                 i > Len(queue) => /\ i - Len(queue) \in 1..Len(new)
                                   /\ all[i] = new[i - Len(queue)]
           /\ Len(queue) + Len(new) <= EVENT_QUEUE_SIZE => Len(all) = Len(queue) + Len(new)
  <1> DEFINE both == queue \o new
             n == IF Len(both) < EVENT_QUEUE_SIZE THEN Len(both) ELSE EVENT_QUEUE_SIZE
             all == Queued(queue, new)
  <1>1. /\ both \in Seq(Lines) /\ Len(both) = Len(queue) + Len(new)
        /\ Len(queue) \in Nat /\ Len(new) \in Nat
        /\ \A i \in 1..Len(both) : both[i] = IF i <= Len(queue) THEN queue[i] ELSE new[i - Len(queue)]
    BY ConcatProperties, LenProperties
  <1>2. EVENT_QUEUE_SIZE \in Nat
    BY ChipAssumption
  <1>3. n \in 0..Len(both)
    BY <1>1, <1>2
  <1>4. all = SubSeq(both, 1, n)
    BY DEF Queued
  <1> HIDE DEF both
  <1>5. \A i \in 1..n : both[i] \in Lines
    BY <1>1, <1>3, ElementOfSeq
  <1>6. all \in Seq(Lines) /\ Len(all) = n /\ \A i \in 1..n : all[i] = both[i]
    <2> HIDE DEF n, all
    <2>1. n \in Int /\ 1 \in Int /\ n - 1 + 1 = n /\ (~(1 <= n) => n = 0)
          /\ \A i \in 1..n : 1 + i - 1 = i
      BY <1>1, <1>3
    <2>2. QED
      BY <1>4, <1>5, <2>1, SubSeqProperties
  <1>7. \A i \in 1..n : i \in 1..Len(both) /\ (i > Len(queue) => i - Len(queue) \in 1..Len(new))
    BY <1>1, <1>2
  <1>8. n \in Nat /\ n <= Len(queue) + Len(new)
        /\ (Len(queue) + Len(new) <= EVENT_QUEUE_SIZE => n = Len(queue) + Len(new))
    BY <1>1, <1>2
  <1> HIDE DEF n
  <1>9. \A i \in 1..n : i <= Len(queue) => all[i] = queue[i]
    BY <1>1, <1>6, <1>7
  <1>10. \A i \in 1..n : i > Len(queue) => all[i] = new[i - Len(queue)]
    <2> SUFFICES ASSUME NEW i \in 1..n, i > Len(queue) PROVE all[i] = new[i - Len(queue)]
      OBVIOUS
    <2>1. ~(i <= Len(queue))
      BY <1>1, <1>8
    <2>2. QED
      BY <1>1, <1>6, <1>7, <2>1
  <1> HIDE DEF all
  <1>11. QED
    BY <1>1, <1>6, <1>7, <1>8, <1>9, <1>10 DEF all

LEMMA QueuedRange ==
    ASSUME NEW queue \in Seq(Lines), NEW new \in Seq(Lines)
    PROVE  Range(Queued(queue, new)) \subseteq Range(queue) \cup Range(new)
  <1> DEFINE all == Queued(queue, new)
  <1> SUFFICES ASSUME NEW x \in Range(all) PROVE x \in Range(queue) \cup Range(new)
    OBVIOUS
  <1>1. /\ all \in Seq(Lines) /\ Len(all) \in Nat /\ Len(queue) \in Nat
        /\ \A i \in 1..Len(all) : i <= Len(queue) => all[i] = queue[i]
        /\ \A i \in 1..Len(all) :
              i > Len(queue) => i - Len(queue) \in 1..Len(new) /\ all[i] = new[i - Len(queue)]
    BY QueuedElements
  <1> HIDE DEF all
  <1>2. PICK i \in 1..Len(all) : x = all[i]
    BY <1>1, RangeEquality
  <1>3. Range(queue) = {queue[j] : j \in 1..Len(queue)} /\ Range(new) = {new[j] : j \in 1..Len(new)}
    BY RangeEquality
  <1>4. CASE i <= Len(queue)
    <2>1. i \in 1..Len(queue)
      BY <1>1, <1>4
    <2>2. QED
      BY <1>1, <1>2, <1>3, <1>4, <2>1
  <1>5. CASE i > Len(queue)
    BY <1>1, <1>2, <1>3, <1>5
  <1>6. QED
    BY <1>1, <1>4, <1>5

(* New lines keep the order if they all belong behind, or if they are the first *)
(* with an answer among them.                                                  *)
LEMMA BehindQueued ==
    ASSUME NEW queue \in Seq(Lines), NEW new \in Seq(Lines), NEW A, NEW B,
           Behind(queue, A, B),
           Range(new) \subseteq B \/ (Range(queue) \cap A = {} /\ Behind(new, A, B))
    PROVE  Behind(Queued(queue, new), A, B)
  <1> DEFINE all == Queued(queue, new)
  <1> SUFFICES ASSUME NEW i \in 1..Len(all), NEW j \in 1..Len(all), i < j, all[i] \in A
               PROVE  all[j] \in B
    BY DEF Behind
  <1>1. /\ Len(all) \in Nat /\ Len(queue) \in Nat /\ Len(new) \in Nat
        /\ \A k \in 1..Len(all) : k <= Len(queue) => all[k] = queue[k]
        /\ \A k \in 1..Len(all) :
              k > Len(queue) => k - Len(queue) \in 1..Len(new) /\ all[k] = new[k - Len(queue)]
    BY QueuedElements
  <1> HIDE DEF all
  <1>2. Range(queue) = {queue[k] : k \in 1..Len(queue)} /\ Range(new) = {new[k] : k \in 1..Len(new)}
    BY RangeEquality
  <1>3. CASE j <= Len(queue)
    <2>1. i \in 1..Len(queue) /\ j \in 1..Len(queue) /\ i <= Len(queue)
      BY <1>1, <1>3
    <2>2. QED
      BY <1>1, <1>3, <2>1 DEF Behind
  <1>4. CASE j > Len(queue) /\ Range(new) \subseteq B
    BY <1>1, <1>2, <1>4
  <1>5. CASE j > Len(queue) /\ Range(queue) \cap A = {} /\ Behind(new, A, B)
    <2>1. i > Len(queue)
      <3>1. CASE i <= Len(queue)
        <4>1. i \in 1..Len(queue)
          BY <1>1, <3>1
        <4>2. queue[i] \in Range(queue) /\ queue[i] \in A
          BY <1>1, <1>2, <3>1, <4>1
        <4>3. QED
          BY <1>5, <4>2
      <3>2. QED
        BY <1>1, <3>1
    <2>2. i - Len(queue) < j - Len(queue)
      BY <1>1
    <2>3. QED
      BY <1>1, <1>5, <2>1, <2>2 DEF Behind
  <1>6. QED
    BY <1>1, <1>3, <1>4, <1>5

LEMMA BehindNone ==
    ASSUME NEW S, NEW queue \in Seq(S), NEW A, NEW B, Range(queue) \cap A = {}
    PROVE  Behind(queue, A, B)
  BY RangeEquality DEF Behind

(* The last element may be anything. *)
LEMMA BehindShort ==
    ASSUME NEW A, NEW B
    PROVE  /\ Behind(<< >>, A, B)
           /\ \A a : Behind(<<a>>, A, B)
           /\ \A a, b : (a \in A => b \in B) => Behind(<<a, b>>, A, B)
           /\ \A a, b, c : a \notin A /\ (b \in A => c \in B) => Behind(<<a, b, c>>, A, B)
           /\ \A a, b, c : (a \in A => b \in B /\ c \in B) /\ (b \in A => c \in B) => Behind(<<a, b, c>>, A, B)
           /\ \A a, b, c, d : a \notin A /\ b \notin A /\ c \notin A => Behind(<<a, b, c, d>>, A, B)
  BY DEF Behind

-----------------------------------------------------------------------------
(* Asking and answering. *)

(* What the chip has been asked and has not served, and what it has told the  *)
(* driver that still can count.                                              *)
Asked == {chipIn[i].text : i \in 1..Len(chipIn)}
Told == Range(lines) \cup seen

(* None of these commands is on its way, nor any of these answers. *)
Fresh(commands, answers) == Asked \cap commands = {} /\ Told \cap answers = {}

(* Of these commands at most one is on its way, the last one sent; when its   *)
(* answer is told nothing is left to be answered, and of what follows the     *)
(* answer everything is in "after".  Some answers tell that there is no       *)
(* connection, and it is still true.                                          *)
Sync(commands, answers, after, down) ==
    /\ Asked \cap commands # {} => Told \cap answers = {}
    /\ \A i \in 1..Len(chipIn) : chipIn[i].text \in commands => i = Len(chipIn)
    /\ Behind(lines, answers, after)
    /\ seen \cap answers # {} => Range(lines) \subseteq after
    /\ Told \cap answers # {} => chipIn = << >> /\ link # "OPENING"
    /\ Told \cap down # {} => link = "DOWN"

(* What the driver may read of its own accord. *)
Async == {"RDY", "+QIRDI", "CLOSED", "+PDP: DEACT", "_OFF", "SEND OK", "SEND FAIL"}

QueuesOK ==
    lines \in Seq(Lines) /\ Len(lines) <= EVENT_QUEUE_SIZE /\ chipIn \in Seq(Commands)

LEMMA AskedNone == chipIn = << >> => Asked = {}
  BY EmptySeq DEF Asked

LEMMA AskedServed ==
    ASSUME QueuesOK, chipIn # << >>, chipIn' = Tail(chipIn)
    PROVE  /\ Head(chipIn).text \in Asked
           /\ Asked' \subseteq Asked
           /\ Len(chipIn) \in Nat /\ 1 \in 1..Len(chipIn) /\ Head(chipIn) = chipIn[1]
           /\ Len(chipIn') = Len(chipIn) - 1
           /\ \A i \in 1..Len(chipIn') : i + 1 \in 1..Len(chipIn) /\ chipIn'[i] = chipIn[i + 1]
  <1>1. /\ Len(chipIn) \in Nat /\ 1 \in 1..Len(chipIn) /\ Head(chipIn) = chipIn[1]
        /\ Len(chipIn') = Len(chipIn) - 1
        /\ \A i \in 1..Len(chipIn') : i + 1 \in 1..Len(chipIn) /\ chipIn'[i] = chipIn[i + 1]
    BY HeadAndTail DEF QueuesOK
  <1>2. QED
    BY <1>1 DEF Asked

LEMMA AskedSent ==
    ASSUME QueuesOK, NEW text, NEW data, Transmit(<<Command(text, data)>>)
    PROVE  /\ Asked' \subseteq Asked \cup {text}
           /\ \/ UNCHANGED chipIn
              \/ /\ Len(chipIn) \in Nat /\ Len(chipIn') = Len(chipIn) + 1
                 /\ power = "on"
                 /\ \A i \in 1..Len(chipIn') :
                       IF i = Len(chipIn') THEN chipIn'[i].text = text
                       ELSE i \in 1..Len(chipIn) /\ chipIn'[i] = chipIn[i]
  <1>1. CASE UNCHANGED chipIn
    BY <1>1 DEF Asked
  <1>2. CASE power = "on" /\ chipIn' = chipIn \o <<Command(text, data)>>
    <2> DEFINE all == Commands \cup {Command(text, data)}
    <2>1. chipIn \in Seq(all) /\ <<Command(text, data)>> \in Seq(all)
      BY SeqMonotonic, OneElement DEF QueuesOK
    <2>2. /\ Len(chipIn) \in Nat /\ Len(chipIn') = Len(chipIn) + 1
          /\ \A i \in 1..Len(chipIn') :
                chipIn'[i] = IF i <= Len(chipIn) THEN chipIn[i]
                             ELSE <<Command(text, data)>>[i - Len(chipIn)]
      BY <1>2, <2>1, ConcatProperties, LenProperties
    <2>3. Command(text, data).text = text
      BY DEF Command
    <2>4. \A i \in 1..Len(chipIn') :
             IF i = Len(chipIn') THEN chipIn'[i].text = text
             ELSE i \in 1..Len(chipIn) /\ chipIn'[i] = chipIn[i]
      BY <2>2, <2>3
    <2>5. QED
      BY <1>2, <2>2, <2>4 DEF Asked
  <1>3. QED
    BY <1>1, <1>2 DEF Transmit, Received

(* Reading a line. *)
Reads ==
    \/ lines' = Rest /\ (seen' = {} \/ seen' = seen \cup ({line} \ Unlatched))
    \/ UNCHANGED <<lines, seen>>

LEMMA LineIsRead ==
    ASSUME QueuesOK
    PROVE  /\ line \in Range(lines) \/ line = NoLine
           /\ Range(Rest) \subseteq Range(lines)
           /\ Rest \in Seq(Lines)
           /\ \A A, B : Behind(lines, A, B) => Behind(Rest, A, B)
           /\ \A A, B : Behind(lines, A, B) /\ line \in A /\ line # NoLine => Range(Rest) \subseteq B
  <1>1. CASE lines = << >>
    BY <1>1, ShortRanges DEF QueuesOK, line, Rest
  <1>2. CASE lines # << >>
    BY <1>2, HeadAndTail, BehindTail DEF QueuesOK, line, Rest
  <1>3. QED
    BY <1>1, <1>2

LEMMA ReadIsTold ==
    ASSUME QueuesOK, Reads
    PROVE  /\ Told' \subseteq Told
           /\ \A l : l # NoLine /\ Heard(l) => l \in Told
  <1>1. NoLine \in Unlatched
    BY DEF Unlatched
  <1>2. QED
    BY <1>1, LineIsRead DEF Reads, Told, Heard

(* After the line is read and before a command is sent. *)
Ready(commands, answers) == Asked \cap commands = {} /\ Told' \cap answers = {}

LEMMA FreshIsReady ==
    ASSUME QueuesOK, Reads, NEW C, NEW A, Fresh(C, A) PROVE Ready(C, A)
  BY ReadIsTold DEF Fresh, Ready

LEMMA ReadyIsFresh ==
    ASSUME NEW C, NEW A, Ready(C, A), NEW sent, Asked' \subseteq Asked \cup sent, sent \cap C = {}
    PROVE  Fresh(C, A)'
  BY DEF Fresh, Ready

(* Only one command is sent at a time. *)
Sends == UNCHANGED chipIn \/ \E text, data : Transmit(<<Command(text, data)>>)

LEMMA ReadyIsSync ==
    ASSUME QueuesOK, lines' \in Seq(Lines), NEW C, NEW A, NEW B, NEW D, D \subseteq A,
           Ready(C, A), Sends
    PROVE  Sync(C, A, B, D)'
  <1>1. Told' \cap A = {} /\ Told' \cap D = {} /\ seen' \cap A = {} /\ Range(lines') \cap A = {}
    BY DEF Ready, Told
  <1>2. Behind(lines', A, B)
    BY <1>1, BehindNone
  <1>3. \A i \in 1..Len(chipIn') : chipIn'[i].text \in C => i = Len(chipIn')
    <2>1. \A i \in 1..Len(chipIn) : chipIn[i].text \notin C
      BY DEF Ready, Asked
    <2>2. CASE UNCHANGED chipIn
      BY <2>1, <2>2
    <2>3. ASSUME NEW text, NEW data, Transmit(<<Command(text, data)>>)
          PROVE  \A i \in 1..Len(chipIn') : chipIn'[i].text \in C => i = Len(chipIn')
      BY <2>1, <2>3, AskedSent
    <2>4. QED
      BY <2>2, <2>3 DEF Sends
  <1>4. QED
    BY <1>1, <1>2, <1>3 DEF Sync

LEMMA SyncReads ==
    ASSUME QueuesOK, NEW C, NEW A, NEW B, NEW D, Sync(C, A, B, D),
           Reads, UNCHANGED <<chipIn, link>>
    PROVE  Sync(C, A, B, D)'
  <1>1. Told' \subseteq Told /\ UNCHANGED Asked
    BY ReadIsTold DEF Asked
  <1>2. Behind(lines', A, B)
    BY LineIsRead DEF Sync, Reads
  <1>3. ASSUME seen' \cap A # {} PROVE Range(lines') \subseteq B
    <2>1. CASE UNCHANGED <<lines, seen>>
      BY <1>3, <2>1 DEF Sync
    <2>2. CASE lines' = Rest /\ seen \cap A # {}
      BY <2>2, LineIsRead DEF Sync
    <2>3. CASE lines' = Rest /\ line \in A /\ line \notin Unlatched
      BY <2>3, LineIsRead DEF Sync, Unlatched
    <2>4. QED
      BY <1>3, <2>1, <2>2, <2>3 DEF Reads
  <1>4. QED
    BY <1>1, <1>2, <1>3 DEF Sync

(* When an answer is heard, what is left is known. *)
LEMMA SyncHeard ==
    ASSUME QueuesOK, NEW C, NEW A, NEW B, NEW D, Sync(C, A, B, D),
           NEW answer \in A, answer # NoLine, Heard(answer)
    PROVE  /\ chipIn = << >> /\ link # "OPENING"
           /\ Range(Rest) \subseteq B
           /\ answer \in D => link = "DOWN"
  <1>1. answer \in Told
    BY LineIsRead DEF Heard, Told
  <1>2. Range(Rest) \subseteq B
    BY LineIsRead DEF Heard, Sync
  <1>3. QED
    BY <1>1, <1>2 DEF Sync

(* What the chip and the network do, as far as the queues are concerned. *)
Tells(new) ==
    /\ new \in Seq(Lines) /\ lines' = Queued(lines, new) /\ UNCHANGED seen
    /\ \/ UNCHANGED chipIn
       \/ chipIn # << >> /\ chipIn' = Tail(chipIn)
       \/ chipIn' = << >>
    /\ chipIn = << >> /\ link # "OPENING" =>
          Range(new) \subseteq Async /\ link' \in {link, "DOWN"} /\ chipIn' = << >>

(* None of these answers comes without one of these commands being served. *)
AnswersOnly(commands, answers, new) ==
    Range(new) \cap answers # {} =>
        chipIn # << >> /\ chipIn' = Tail(chipIn) /\ Head(chipIn).text \in commands

LEMMA Telling ==
    ASSUME QueuesOK, NEW new, Tells(new)
    PROVE  /\ Asked' \subseteq Asked
           /\ Told' \subseteq Told \cup Range(new)
           /\ Range(lines') \subseteq Range(lines) \cup Range(new)
  <1>1. CASE chipIn' = << >>
    BY <1>1, EmptySeq, QueuedRange DEF Tells, Asked, Told, QueuesOK
  <1>2. CASE UNCHANGED chipIn
    BY <1>2, QueuedRange DEF Tells, Asked, Told, QueuesOK
  <1>3. CASE chipIn # << >> /\ chipIn' = Tail(chipIn)
    BY <1>3, AskedServed, QueuedRange DEF Tells, Told, QueuesOK
  <1>4. QED
    BY <1>1, <1>2, <1>3 DEF Tells

LEMMA FreshStays ==
    ASSUME QueuesOK, NEW new, Tells(new), NEW C, NEW A, Fresh(C, A), AnswersOnly(C, A, new)
    PROVE  Fresh(C, A)'
  <1>1. Range(new) \cap A = {}
    BY AskedServed DEF Fresh, AnswersOnly
  <1>2. QED
    BY <1>1, Telling DEF Fresh

LEMMA SyncStays ==
    ASSUME QueuesOK, NEW new, Tells(new),
           NEW C, NEW A, NEW B, NEW D, D \subseteq A, Async \subseteq B, A \cap Async = {},
           Sync(C, A, B, D), AnswersOnly(C, A, new), Behind(new, A, B),
           Range(new) \cap A # {} => link' # "OPENING",
           Range(new) \cap D # {} => link' = "DOWN"
    PROVE  Sync(C, A, B, D)'
  <1>1. /\ Asked' \subseteq Asked /\ Told' \subseteq Told \cup Range(new)
        /\ Range(lines') \subseteq Range(lines) \cup Range(new)
    BY Telling
  <1>2. CASE Told \cap A # {}
    <2>1. chipIn = << >> /\ link # "OPENING"
      BY <1>2 DEF Sync
    <2>2. Range(new) \subseteq Async /\ link' \in {link, "DOWN"} /\ chipIn' = << >>
      BY <2>1 DEF Tells
    <2>3. Asked' = {} /\ link' # "OPENING" /\ \A i \in 1..Len(chipIn') : FALSE
      BY <1>1, <2>1, <2>2, AskedNone, EmptySeq
    <2>4. Behind(lines', A, B)
      BY <2>2, BehindQueued DEF Sync, Tells, QueuesOK
    <2>5. Told' \cap D # {} => link' = "DOWN"
      BY <1>1, <2>2 DEF Sync
    <2>6. seen' \cap A # {} => Range(lines') \subseteq B
      BY <1>1, <2>2 DEF Sync, Tells
    <2>7. QED
      BY <2>2, <2>3, <2>4, <2>5, <2>6 DEF Sync
  <1>3. CASE Told \cap A = {}
    <2>1. Range(lines) \cap A = {} /\ seen' \cap A = {}
      BY <1>3 DEF Told, Tells
    <2>2. Behind(lines', A, B)
      BY <2>1, BehindQueued DEF Sync, Tells, QueuesOK
    <2>3. \A i \in 1..Len(chipIn') : chipIn'[i].text \in C => i = Len(chipIn')
      <3>1. CASE chipIn' = << >>
        BY <3>1, EmptySeq
      <3>2. CASE UNCHANGED chipIn
        BY <3>2 DEF Sync
      <3>3. CASE chipIn # << >> /\ chipIn' = Tail(chipIn)
        <4> SUFFICES ASSUME NEW i \in 1..Len(chipIn'), chipIn'[i].text \in C
                     PROVE  i = Len(chipIn')
          OBVIOUS
        <4>1. i + 1 \in 1..Len(chipIn) /\ chipIn[i + 1].text \in C
              /\ Len(chipIn) \in Nat /\ Len(chipIn') = Len(chipIn) - 1
          BY <3>3, AskedServed
        <4>2. i + 1 = Len(chipIn)
          BY <4>1 DEF Sync
        <4>3. QED
          BY <4>1, <4>2
      <3>4. QED
        BY <3>1, <3>2, <3>3 DEF Tells
    <2>4. CASE Range(new) \cap A = {}
      <3>1. Told' \cap A = {} /\ Told' \cap D = {}
        BY <1>1, <1>3, <2>4
      <3>2. QED
        BY <2>1, <2>2, <2>3, <3>1 DEF Sync
    <2>5. CASE Range(new) \cap A # {}
      <3>1. chipIn # << >> /\ chipIn' = Tail(chipIn) /\ Head(chipIn).text \in C
        BY <2>5 DEF AnswersOnly
      <3>2. Len(chipIn) = 1
        BY <3>1, AskedServed DEF Sync
      <3>3. chipIn' = << >>
        <4>1. Len(chipIn') = 0 /\ chipIn' \in Seq(Commands)
          BY <3>1, <3>2, HeadAndTail DEF QueuesOK
        <4>2. QED
          BY <4>1, EmptySeq
      <3>4. Asked' = {}
        BY <3>3, EmptySeq DEF Asked
      <3>5. Told' \cap D # {} => link' = "DOWN"
        BY <1>1, <1>3, <2>5
      <3>6. QED
        BY <2>1, <2>2, <2>3, <2>5, <3>3, <3>4, <3>5 DEF Sync
    <2>6. QED
      BY <2>4, <2>5
  <1>4. QED
    BY <1>2, <1>3

-----------------------------------------------------------------------------
(* The exchanges that matter: the commands and their answers. *)

ShutAsk == {"AT+CIPSHUT"}
ShutAnswer == {"SHUT OK"}
StateAsk == {"AT+QISTATE"}
StateAnswer == {"STATE: CONNECT OK", "STATE: other"}
Closing == {"AT+QICLOSE"}
OpenAsk == {"AT+QIOPEN"}
OpenAnswer == {"CONNECT OK", "ALREADY CONNECT"}
Context == {"AT+QIFGCNT=0"}
Apn == {"AT+QICSGP"}
OkAsk == SimpleCommands \cup
         {"AT+QISTATE", "AT+QIOPEN", "AT+QICLOSE", "AT+QISACK", "AT+QIRD", "sms body"}
OkAnswer == {"OK", "+CMS ERROR"}

Counting == ShutAnswer \cup StateAnswer \cup Closing \cup OpenAnswer \cup Context \cup Apn \cup OkAnswer

Serves1(text) == chipIn # << >> /\ Head(chipIn).text = text /\ chipIn' = Tail(chipIn)

(* What the chip says: nothing that counts, or the end of an AT+QIOPEN, or the  *)
(* answer to the command it serves.                                          *)
Murmurs(new) == Range(new) \cap Counting = {} /\ link' \in {link, "DOWN"}
TellsConnected(new) ==
    link = "OPENING" /\ link' = "UP" /\ new = <<"CONNECT OK">> /\ UNCHANGED chipIn
TellsShut(new) ==
    Serves1("AT+CIPSHUT") /\ new = <<"AT+CIPSHUT", "SHUT OK">> /\ link' = "DOWN"
TellsState(new) ==
    /\ Serves1("AT+QISTATE") /\ UNCHANGED link
    /\ new = <<"AT+QISTATE", "OK", IF link = "UP" THEN "STATE: CONNECT OK" ELSE "STATE: other">>
TellsClosed(new) ==
    Serves1("AT+QICLOSE") /\ new = <<"AT+QICLOSE", "OK">> /\ link' = "DOWN"
TellsOpen(new) ==
    /\ Serves1("AT+QIOPEN")
    /\ \/ new = <<"AT+QIOPEN", "OK", "ALREADY CONNECT">> /\ link = "UP" /\ UNCHANGED link
       \/ new = <<"AT+QIOPEN", "OK">> /\ link = "DOWN" /\ link' = "OPENING"
BootReplies ==
    {"+CPIN: READY", "+CPIN: SIM PIN", "+CSQ: n", "+CSQ: 99", "+CREG: registered",
     "+CREG: not registered", "+CGATT: 0", "+CGATT: 1"}
TellsSimple(new) ==
    \E text \in SimpleCommands :
       /\ Serves1(text) /\ UNCHANGED link
       /\ \/ \E a \in {"OK", "ERROR", "+CME ERROR: 100"} : new = <<text, a>>
          \/ /\ text \notin Context \cup Apn
             /\ \E a \in BootReplies : new = <<text, a, "OK">>
TellsOk(new) ==
    /\ UNCHANGED link
    /\ \/ /\ Serves1("AT+QISACK")
          /\ \E a \in {"+QISACK: some", "+QISACK: all"} : new = <<"AT+QISACK", a, "OK">>
       \/ /\ Serves1("AT+QIRD")
          /\ new \in {<<"AT+QIRD", "+QIRD: n", "payload", "OK">>, <<"AT+QIRD", "OK">>}
       \/ /\ Serves1("sms body") /\ smsAnswered' = smsAnswered + 1
          /\ new \in {<<"OK">>, <<"+CMS ERROR">>}

Speech(new) ==
    \/ Murmurs(new) \/ TellsConnected(new) \/ TellsShut(new) \/ TellsState(new)
    \/ TellsClosed(new) \/ TellsOpen(new) \/ TellsSimple(new) \/ TellsOk(new)

LEMMA QueuedNothing == ASSUME QueuesOK PROVE Queued(lines, << >>) = lines
  <1> DEFINE all == Queued(lines, << >>)
  <1>1. << >> \in Seq(Lines) /\ Len(<< >>) = 0 /\ Len(lines) \in Nat
        /\ lines \in Seq(Lines) /\ Len(lines) <= EVENT_QUEUE_SIZE
    BY EmptySeq, LenProperties DEF QueuesOK
  <1>2. /\ all \in Seq(Lines) /\ Len(all) \in Nat
        /\ \A i \in 1..Len(all) : i <= Len(lines) => all[i] = lines[i]
        /\ Len(lines) + Len(<< >>) <= EVENT_QUEUE_SIZE => Len(all) = Len(lines) + Len(<< >>)
    BY <1>1, QueuedElements
  <1> HIDE DEF all
  <1>3. Len(all) = Len(lines) /\ \A i \in 1..Len(lines) : all[i] = lines[i]
    BY <1>1, <1>2
  <1>4. QED
    BY <1>1, <1>2, <1>3, SeqEqual DEF all

(* The configuration commands, by name. *)
LEMMA SimpleNames ==
    SimpleCommands =
      {"ATE1", "AT", "AT+QBTPWR", "AT+QBTVISB", "AT+QBTGATSREG", "AT+QBTGATSL", "AT+CPIN?",
       "AT+CPIN=", "AT+CIMI", "AT+CSQ", "AT+CREG?", "AT+CGATT?", "AT+CMGF=1", "AT+CSCS",
       "AT+QIFGCNT=0", "AT+QICSGP", "AT+QIMUX", "AT+QIMODE=0", "AT+QIDNSIP", "AT+QINDI=1",
       "AT+QISDE=0", "AT+QSCLK=2"}
  BY DEF SimpleCommands, BootStates, BootCommand

LEMMA SimpleReplies ==
    ASSUME NEW text \in SimpleCommands, NEW a \in {BootAnswer(text)} \cup BootRefusals(text)
    PROVE  \/ \E x \in {"OK", "ERROR", "+CME ERROR: 100"} : a = <<x>>
           \/ /\ text \notin Context \cup Apn
              /\ \E x \in BootReplies : a = <<x, "OK">>
  BY DEF BootAnswer, BootRefusals, Context, Apn, BootReplies

LEMMA Joined ==
    /\ \A t, a : <<t>> \o <<a>> = <<t, a>>
    /\ \A t, a, b : <<t>> \o <<a, b>> = <<t, a, b>>
  <1>1. ASSUME NEW t, NEW a PROVE <<t>> \o <<a>> = <<t, a>>
    <2>1. <<t>> \in Seq({t, a}) /\ <<a>> \in Seq({t, a}) /\ <<t, a>> \in Seq({t, a})
      OBVIOUS
    <2>2. /\ <<t>> \o <<a>> \in Seq({t, a}) /\ Len(<<t>> \o <<a>>) = 2
          /\ \A i \in 1..2 : (<<t>> \o <<a>>)[i] = <<t, a>>[i]
      BY <2>1, ConcatProperties
    <2>3. QED
      BY <2>1, <2>2, SeqEqual
  <1>2. ASSUME NEW t, NEW a, NEW b PROVE <<t>> \o <<a, b>> = <<t, a, b>>
    <2>1. /\ <<t>> \in Seq({t, a, b}) /\ <<a, b>> \in Seq({t, a, b})
          /\ <<t, a, b>> \in Seq({t, a, b})
      OBVIOUS
    <2>2. /\ <<t>> \o <<a, b>> \in Seq({t, a, b}) /\ Len(<<t>> \o <<a, b>>) = 3
          /\ \A i \in 1..3 : (<<t>> \o <<a, b>>)[i] = <<t, a, b>>[i]
      BY <2>1, ConcatProperties
    <2>3. QED
      BY <2>1, <2>2, SeqEqual
  <1>3. QED
    BY <1>1, <1>2

(* What the chip says that is no answer that counts. *)
Mumbles ==
    {<< >>, <<"AT+CIPSHUT", "ERROR">>, <<"CONNECT FAIL">>, <<"CLOSED">>, <<"+PDP: DEACT">>,
     <<"SEND OK">>, <<"SEND FAIL">>, <<"+QIRDI">>, <<"RDY">>, <<"AT+CMGS">>, <<"ERROR">>,
     <<"> -">>, <<"AT+QISEND">>, <<"AT+QISEND", "ERROR">>, <<"AT+QIRD", "ERROR">>,
     <<"AT+QIOPEN", "ERROR">>, <<"AT+QISACK", "ERROR">>}

LEMMA MumblesCount == \A new \in Mumbles : new \in Seq(Lines) /\ Range(new) \cap Counting = {}
  <1>1. {"AT+CIPSHUT", "ERROR", "CONNECT FAIL", "CLOSED", "+PDP: DEACT", "SEND OK", "SEND FAIL",
         "+QIRDI", "RDY", "AT+CMGS", "> -", "AT+QISEND", "AT+QIRD", "AT+QIOPEN", "AT+QISACK"}
        \subseteq Lines \ Counting
    BY DEF Lines, BootLines, LinkLines, Counting, ShutAnswer, StateAnswer, Closing, OpenAnswer,
       Context, Apn, OkAnswer
  <1>2. << >> \in Seq(Lines) /\ Range(<< >>) = {}
    BY ShortRanges, EmptySeq
  <1>3. ASSUME NEW a \in Lines \ Counting
        PROVE  <<a>> \in Seq(Lines) /\ Range(<<a>>) \cap Counting = {}
    BY ShortRanges
  <1>4. ASSUME NEW a \in Lines \ Counting, NEW b \in Lines \ Counting
        PROVE  <<a, b>> \in Seq(Lines) /\ Range(<<a, b>>) \cap Counting = {}
    BY ShortRanges
  <1> DEFINE Quiet(new) == new \in Seq(Lines) /\ Range(new) \cap Counting = {}
  <1>5. \A a \in Lines \ Counting : Quiet(<<a>>)
    BY <1>3
  <1>6. \A a, b \in Lines \ Counting : Quiet(<<a, b>>)
    BY <1>4
  <1>7. Quiet(<< >>)
    BY <1>2
  <1> HIDE DEF Quiet
  <1>8. /\ Quiet(<<"CONNECT FAIL">>) /\ Quiet(<<"CLOSED">>) /\ Quiet(<<"+PDP: DEACT">>)
        /\ Quiet(<<"SEND OK">>) /\ Quiet(<<"SEND FAIL">>) /\ Quiet(<<"+QIRDI">>)
        /\ Quiet(<<"RDY">>) /\ Quiet(<<"AT+CMGS">>) /\ Quiet(<<"ERROR">>) /\ Quiet(<<"> -">>)
        /\ Quiet(<<"AT+QISEND">>)
    BY <1>1, <1>5
  <1>9. /\ Quiet(<<"AT+CIPSHUT", "ERROR">>) /\ Quiet(<<"AT+QISEND", "ERROR">>)
        /\ Quiet(<<"AT+QIRD", "ERROR">>) /\ Quiet(<<"AT+QIOPEN", "ERROR">>)
        /\ Quiet(<<"AT+QISACK", "ERROR">>)
    BY <1>1, <1>6
  <1>10. \A new \in Mumbles : Quiet(new)
    BY <1>7, <1>8, <1>9 DEF Mumbles
  <1>11. QED
    BY <1>10 DEF Quiet

LEMMA Says ==
    ASSUME QueuesOK, rxOn, UNCHANGED seen, ChipTakes,
           NEW new \in Seq(Lines), Say(new) \/ (UNCHANGED lines /\ new = << >>),
           chipIn = << >> /\ link # "OPENING" =>
               Range(new) \subseteq Async /\ link' \in {link, "DOWN"} /\ chipIn' = << >>
    PROVE  Tells(new)
  BY QueuedNothing DEF Say, ChipTakes, Tells

LEMMA SimpleSpeaks ==
    ASSUME QueuesOK, rxOn, UNCHANGED seen, ChipObeys \/ ChipRefuses
    PROVE  \E new : Tells(new) /\ TellsSimple(new)
  <1> DEFINE text == Head(chipIn).text
  <1>1. /\ chipIn # << >> /\ text \in SimpleCommands /\ chipIn' = Tail(chipIn)
        /\ UNCHANGED link
    BY DEF ChipObeys, ChipRefuses, Serve, linkVars
  <1>2. PICK a \in {BootAnswer(text)} \cup BootRefusals(text) : Say(<<text>> \o a)
    BY <1>1 DEF ChipObeys, ChipRefuses, Answer
  <1> HIDE DEF text
  <1>3. a \in Seq(Lines) /\ <<text>> \in Seq(Lines) /\ <<text>> \o a \in Seq(Lines)
    <2>1. a \in Seq(Lines)
      BY BootAnswerLines, BootRefusalLines
    <2>2. <<text>> \in Seq(Lines)
      BY <1>1, SimpleLines, OneElement
    <2>3. QED
      BY <2>1, <2>2, ConcatProperties
  <1>4. Tells(<<text>> \o a)
    BY <1>1, <1>2, <1>3, Says DEF ChipTakes
  <1>5. Serves1(text)
    BY <1>1 DEF Serves1, text
  <1>6. CASE \E x \in {"OK", "ERROR", "+CME ERROR: 100"} : a = <<x>>
    <2>1. PICK x \in {"OK", "ERROR", "+CME ERROR: 100"} : a = <<x>>
      BY <1>6
    <2>2. <<text>> \o a = <<text, x>>
      BY <2>1, Joined
    <2>3. QED
      BY <1>1, <1>4, <1>5, <2>1, <2>2 DEF TellsSimple
  <1>7. CASE text \notin Context \cup Apn /\ \E x \in BootReplies : a = <<x, "OK">>
    <2>1. PICK x \in BootReplies : a = <<x, "OK">>
      BY <1>7
    <2>2. <<text>> \o a = <<text, x, "OK">>
      BY <2>1, Joined
    <2>3. QED
      BY <1>1, <1>4, <1>5, <1>7, <2>1, <2>2 DEF TellsSimple
  <1>8. QED
    BY <1>1, <1>6, <1>7, SimpleReplies

(* Steps that say nothing that counts. *)
LEMMA Murmuring ==
    ASSUME QueuesOK, rxOn, UNCHANGED seen, ChipTakes, link' \in {link, "DOWN"},
           NEW new \in Mumbles, Say(new) \/ (UNCHANGED lines /\ new = << >>),
           \/ chipIn # << >> \/ link = "OPENING"
           \/ chipIn' = << >> /\ \A i \in 1..Len(new) : new[i] \in Async
    PROVE  \E all : Tells(all) /\ Speech(all)
  <1>1. new \in Seq(Lines) /\ Murmurs(new)
    BY MumblesCount DEF Murmurs
  <1>2. Range(new) = {new[i] : i \in 1..Len(new)}
    BY <1>1, RangeEquality
  <1>3. Tells(new)
    BY <1>1, <1>2, Says
  <1>4. QED
    BY <1>1, <1>3 DEF Speech

(* What a step that serves a command other than a simple one says. *)
LEMMA Served ==
    ASSUME QueuesOK, rxOn, UNCHANGED seen, NEW text, Serves1(text),
           NEW new \in Seq(Lines), Say(new)
    PROVE  Tells(new)
  BY Says DEF Serves1, ChipTakes

LEMMA OpenAnswers == {<<"AT+QIOPEN", "OK", "ALREADY CONNECT">>, <<"AT+QIOPEN", "OK">>} \subseteq Seq(Lines)
  <1>1. "AT+QIOPEN" \in Lines /\ "OK" \in Lines /\ "ALREADY CONNECT" \in Lines
    BY DEF Lines, BootLines, LinkLines
  <1>2. QED
    BY <1>1, ShortSeqs

LEMMA AckAnswers ==
    \A a \in {"+QISACK: some", "+QISACK: all"} : <<"AT+QISACK", a, "OK">> \in Seq(Lines)
  <1>1. /\ "AT+QISACK" \in Lines /\ "OK" \in Lines /\ "+QISACK: some" \in Lines
        /\ "+QISACK: all" \in Lines
    BY DEF Lines, BootLines, LinkLines
  <1>2. QED
    BY <1>1, ShortSeqs

(* What the chip says without being asked. *)
Whispers ==
    {<< >>, <<"CLOSED">>, <<"+PDP: DEACT">>, <<"SEND OK">>, <<"SEND FAIL">>, <<"+QIRDI">>, <<"RDY">>}

LEMMA WhispersAsync ==
    \A new \in Whispers : new \in Mumbles /\ \A i \in 1..Len(new) : new[i] \in Async
  <1>1. \A a \in Async : \A i \in 1..Len(<<a>>) : <<a>>[i] \in Async
    OBVIOUS
  <1>2. {"CLOSED", "+PDP: DEACT", "SEND OK", "SEND FAIL", "+QIRDI", "RDY"} \subseteq Async
    BY DEF Async
  <1>3. \A i \in 1..Len(<< >>) : << >>[i] \in Async
    OBVIOUS
  <1>4. \A new \in Whispers : new = << >> \/ \E a \in Async : new = <<a>>
    BY <1>2 DEF Whispers
  <1>5. Whispers \subseteq Mumbles
    BY DEF Whispers, Mumbles
  <1>6. QED
    BY <1>1, <1>3, <1>4, <1>5

LEMMA EnvironmentSpeaks ==
    ASSUME QueuesOK, link \in Links, rxOn, UNCHANGED seen, Environment
    PROVE  \E new : Tells(new) /\ Speech(new)
  <1>1. CASE ChipObeys \/ ChipRefuses
    BY <1>1, SimpleSpeaks DEF Speech
  <1>2. CASE \/ ChipAbsorbs \/ ChipMissesCommand \/ ChipTakesData \/ ChipIgnoresPulse
             \/ NetDelivers \/ NetAcks
    <2>1. /\ link' \in {link, "DOWN"} /\ ChipTakes /\ UNCHANGED lines
          /\ chipIn # << >> \/ chipIn' = << >>
      BY <1>2 DEF ChipAbsorbs, ChipMissesCommand, ChipTakesData, ChipIgnoresPulse, NetDelivers,
         NetAcks, ChipTakes, linkVars
    <2>2. << >> \in Mumbles /\ \A i \in 1..Len(<< >>) : << >>[i] \in Async
      BY DEF Mumbles
    <2>3. QED
      BY <2>1, <2>2, Murmuring
  <1>3. CASE \/ ChipPrompts \/ ChipCancels \/ ChipConnectFails \/ LinkLost \/ ChipSendOk
             \/ ChipSendFails \/ PeerSends \/ ChipSmsNumber \/ ChipShutFails
    <2>1. \E new \in Mumbles :
             /\ Say(new)
             /\ chipIn # << >> \/ link = "OPENING" \/
                (chipIn' = << >> /\ \A i \in 1..Len(new) : new[i] \in Async)
      <3>1. CASE ChipPrompts \/ ChipCancels \/ ChipSmsNumber \/ ChipShutFails \/ ChipConnectFails
        BY <1>3, <3>1 DEF ChipPrompts, ChipCancels, ChipConnectFails, ChipSmsNumber,
           ChipShutFails, Serve, Mumbles
      <3>2. CASE LinkLost \/ ChipSendOk \/ ChipSendFails \/ PeerSends
        <4>1. \E new \in Whispers : Say(new)
          BY <3>2 DEF LinkLost, ChipSendOk, ChipSendFails, PeerSends, Whispers
        <4>2. UNCHANGED chipIn
          BY <3>2 DEF LinkLost, ChipSendOk, ChipSendFails, PeerSends
        <4>3. QED
          BY <4>1, <4>2, WhispersAsync
      <3>3. QED
        BY <1>3, <3>1, <3>2
    <2>2. link' \in {link, "DOWN"} /\ ChipTakes
      BY <1>3 DEF ChipPrompts, ChipCancels, ChipConnectFails, LinkLost, ChipSendOk, ChipSendFails,
         PeerSends, ChipSmsNumber, ChipShutFails, Serve, Hangup, linkVars, ChipTakes
    <2>3. QED
      BY <2>1, <2>2, Murmuring
  <1>4. CASE ChipToggles \/ ChipReboots
    <2>1. \E new \in Mumbles :
             /\ Say(new) \/ (UNCHANGED lines /\ new = << >>)
             /\ \A i \in 1..Len(new) : new[i] \in Async
      <3>1. \E new \in Whispers : Say(new) \/ (UNCHANGED lines /\ new = << >>)
        BY <1>4 DEF ChipToggles, ChipReboots, Whispers
      <3>2. QED
        BY <3>1, WhispersAsync
    <2>2. link' = "DOWN" /\ ChipTakes /\ chipIn' = << >>
      BY <1>4 DEF ChipToggles, ChipReboots, Hangup, ChipTakes
    <2>3. QED
      BY <2>1, <2>2, Murmuring
  <1>5. CASE ChipState
    <2>1. Serves1("AT+QISTATE") /\ UNCHANGED link
      BY <1>5 DEF ChipState, Serve, Serves1, linkVars
    <2>2. PICK new \in Phrases :
             /\ Say(new)
             /\ new = <<"AT+QISTATE", "OK", IF link = "UP" THEN "STATE: CONNECT OK" ELSE "STATE: other">>
      BY <1>5 DEF ChipState, Phrases
    <2>3. Tells(new)
      BY <2>1, <2>2, PhraseLines, Served
    <2>4. QED
      BY <2>1, <2>2, <2>3 DEF TellsState, Speech
  <1>6. CASE ChipOpens
    <2> DEFINE possible == Head(chipIn).text = "AT+QIOPEN" /\ link # "OPENING"
    <2>1. CASE ~possible
      <3>1. <<"AT+QIOPEN">> \o <<"ERROR">> = <<"AT+QIOPEN", "ERROR">>
        BY Joined
      <3>2. Say(<<"AT+QIOPEN", "ERROR">>)
        BY <1>6, <2>1, <3>1 DEF ChipOpens
      <3>3. chipIn # << >> /\ ChipTakes /\ UNCHANGED link
        BY <1>6, <2>1 DEF ChipOpens, Serve, ChipTakes
      <3>4. <<"AT+QIOPEN", "ERROR">> \in Mumbles
        BY DEF Mumbles
      <3>5. QED
        BY <3>2, <3>3, <3>4, Murmuring
    <2>2. CASE possible /\ link = "UP"
      <3>1. <<"AT+QIOPEN">> \o <<"OK", "ALREADY CONNECT">> = <<"AT+QIOPEN", "OK", "ALREADY CONNECT">>
        BY Joined
      <3>2. /\ Say(<<"AT+QIOPEN", "OK", "ALREADY CONNECT">>)
            /\ Serves1("AT+QIOPEN") /\ UNCHANGED link
        BY <1>6, <2>2, <3>1 DEF ChipOpens, Serve, Serves1
      <3>3. Tells(<<"AT+QIOPEN", "OK", "ALREADY CONNECT">>)
        BY <3>2, OpenAnswers, Served
      <3>4. QED
        BY <2>2, <3>2, <3>3 DEF TellsOpen, Speech
    <2>3. CASE possible /\ link # "UP"
      <3>1. <<"AT+QIOPEN">> \o <<"OK">> = <<"AT+QIOPEN", "OK">>
        BY Joined
      <3>2. Say(<<"AT+QIOPEN", "OK">>) /\ Serves1("AT+QIOPEN")
        BY <1>6, <2>3, <3>1 DEF ChipOpens, Serve, Serves1
      <3>3. link = "DOWN" /\ link' = "OPENING"
        BY <1>6, <2>3 DEF ChipOpens, Links
      <3>4. Tells(<<"AT+QIOPEN", "OK">>)
        BY <3>2, OpenAnswers, Served
      <3>5. QED
        BY <2>3, <3>2, <3>3, <3>4 DEF TellsOpen, Speech
    <2>4. QED
      BY <2>1, <2>2, <2>3
  <1>7. CASE ChipConnected
    <2>1. /\ link = "OPENING" /\ link' = "UP" /\ UNCHANGED chipIn /\ Say(<<"CONNECT OK">>)
          /\ <<"CONNECT OK">> \in Seq(Lines)
      BY <1>7, PhraseLines DEF ChipConnected, Phrases
    <2>2. Tells(<<"CONNECT OK">>)
      BY <2>1, Says DEF ChipTakes
    <2>3. QED
      BY <2>1, <2>2 DEF TellsConnected, Speech
  <1>8. CASE ChipCloses \/ ChipShuts
    <2>1. CASE ChipCloses
      <3>1. /\ Serves1("AT+QICLOSE") /\ link' = "DOWN" /\ Say(<<"AT+QICLOSE", "OK">>)
            /\ <<"AT+QICLOSE", "OK">> \in Seq(Lines)
        BY <2>1, PhraseLines DEF ChipCloses, Serve, Serves1, Hangup, Phrases
      <3>2. QED
        BY <3>1, Served DEF TellsClosed, Speech
    <2>2. CASE ChipShuts
      <3>1. /\ Serves1("AT+CIPSHUT") /\ link' = "DOWN" /\ Say(<<"AT+CIPSHUT", "SHUT OK">>)
            /\ <<"AT+CIPSHUT", "SHUT OK">> \in Seq(Lines)
        BY <2>2, PhraseLines DEF ChipShuts, Serve, Serves1, Hangup, Phrases
      <3>2. QED
        BY <3>1, Served DEF TellsShut, Speech
    <2>3. QED
      BY <1>8, <2>1, <2>2
  <1>9. CASE ChipAcks
    <2>1. Serves1("AT+QISACK") /\ UNCHANGED link
      BY <1>9 DEF ChipAcks, Serve, Serves1, linkVars
    <2>2. CASE Say(<<"AT+QISACK">> \o <<"ERROR">>)
      <3>1. <<"AT+QISACK">> \o <<"ERROR">> = <<"AT+QISACK", "ERROR">>
        BY Joined
      <3>2. <<"AT+QISACK", "ERROR">> \in Mumbles
        BY DEF Mumbles
      <3>3. QED
        BY <2>1, <2>2, <3>1, <3>2, Murmuring DEF Serves1, ChipTakes
    <2>3. ASSUME NEW a \in {"+QISACK: some", "+QISACK: all"},
                 Say(<<"AT+QISACK">> \o <<a, "OK">>)
          PROVE  \E new : Tells(new) /\ Speech(new)
      <3>1. <<"AT+QISACK">> \o <<a, "OK">> = <<"AT+QISACK", a, "OK">>
        BY Joined
      <3>2. Tells(<<"AT+QISACK", a, "OK">>)
        BY <2>1, <2>3, <3>1, AckAnswers, Served
      <3>3. QED
        BY <2>1, <3>2 DEF TellsOk, Speech
    <2>4. QED
      BY <1>9, <2>2, <2>3 DEF ChipAcks
  <1>10. CASE ChipReads
    <2>1. Serves1("AT+QIRD") /\ UNCHANGED link
      BY <1>10 DEF ChipReads, Serve, Serves1
    <2>2. CASE Say(<<"AT+QIRD", "ERROR">>)
      <3>1. <<"AT+QIRD", "ERROR">> \in Mumbles
        BY DEF Mumbles
      <3>2. QED
        BY <2>1, <2>2, <3>1, Murmuring DEF Serves1, ChipTakes
    <2>3. ASSUME NEW new \in {<<"AT+QIRD", "+QIRD: n", "payload", "OK">>, <<"AT+QIRD", "OK">>}, Say(new)
          PROVE  Tells(new) /\ Speech(new)
      <3>1. new \in Seq(Lines)
        BY PhraseLines DEF Phrases
      <3>2. QED
        BY <2>1, <2>3, <3>1, Served DEF TellsOk, Speech
    <2>4. QED
      BY <1>10, <2>2, <2>3 DEF ChipReads
  <1>11. CASE ChipSmsBody
    <2>1. Serves1("sms body") /\ UNCHANGED link /\ smsAnswered' = smsAnswered + 1
      BY <1>11 DEF ChipSmsBody, Serve, Serves1, linkVars
    <2>2. PICK new \in {<<"OK">>, <<"+CMS ERROR">>} : Say(new)
      BY <1>11 DEF ChipSmsBody
    <2>3. new \in Seq(Lines)
      BY PhraseLines DEF Phrases
    <2>4. QED
      BY <2>1, <2>2, <2>3, Served DEF TellsOk, Speech
  <1>12. QED
    BY <1>1, <1>2, <1>3, <1>4, <1>5, <1>6, <1>7, <1>8, <1>9, <1>10, <1>11
       DEF Environment, ChipServes, ChipReports, ChipFails

-----------------------------------------------------------------------------
(* What the chip says fits the exchanges. *)

LEMMA SimpleCountless ==
    /\ SimpleCommands \cap (ShutAnswer \cup StateAnswer \cup Closing \cup OpenAnswer \cup OkAnswer) = {}
    /\ BootReplies \cap Counting = {} /\ {"ERROR", "+CME ERROR: 100"} \cap Counting = {}
  <1>1. SimpleCommands \cap (ShutAnswer \cup StateAnswer \cup Closing \cup OpenAnswer \cup OkAnswer) = {}
    BY SimpleNames DEF ShutAnswer, StateAnswer, Closing, OpenAnswer, OkAnswer
  <1>2. QED
    BY <1>1 DEF BootReplies, Counting, ShutAnswer, StateAnswer, Closing, OpenAnswer, Context, Apn,
       OkAnswer

Exchange(commands, answers, after, new) ==
    AnswersOnly(commands, answers, new) /\ Behind(new, answers, after)

LEMMA NoExchange ==
    ASSUME NEW new \in Seq(Lines), NEW A, Range(new) \cap A = {}
    PROVE  \A C, B : Exchange(C, A, B, new)
  BY BehindNone DEF Exchange, AnswersOnly

Echoed == {"OK", "ERROR", "+CME ERROR: 100"}

Fitting(new) ==
    /\ Exchange(ShutAsk, ShutAnswer, Async, new)
    /\ Exchange(StateAsk, StateAnswer, Async, new)
    /\ Exchange(Closing, Closing, Async \cup {"OK"}, new)
    /\ Exchange(Context, Context, Async \cup Echoed, new)
    /\ Exchange(Apn, Apn, Async \cup Echoed, new)
    /\ AnswersOnly(OkAsk, OkAnswer, new)
    /\ "AT+QISTATE" \notin Asked /\ "AT+QIOPEN" \notin Asked => Behind(new, OkAnswer, Async)
    /\ \/ TellsConnected(new) \/ TellsOpen(new)
       \/ Range(new) \cap OpenAnswer = {} /\ link' \in {link, "DOWN"}
    /\ Range(new) \cap (ShutAnswer \cup Closing) # {} => link' = "DOWN"
    /\ "STATE: other" \in Range(new) => UNCHANGED link /\ link # "UP"
    /\ "STATE: CONNECT OK" \in Range(new) => link = "UP"
    /\ Range(new) \cap OkAnswer # {} /\ Head(chipIn).text = "sms body" =>
          smsAnswered' = smsAnswered + 1

LEMMA MurmursFit == ASSUME NEW new \in Seq(Lines), Murmurs(new) PROVE Fitting(new)
  <1>1. /\ Range(new) \cap ShutAnswer = {} /\ Range(new) \cap StateAnswer = {}
        /\ Range(new) \cap Closing = {} /\ Range(new) \cap Context = {} /\ Range(new) \cap Apn = {}
        /\ Range(new) \cap OkAnswer = {} /\ Range(new) \cap OpenAnswer = {}
        /\ link' \in {link, "DOWN"}
        /\ "STATE: other" \notin Range(new) /\ "STATE: CONNECT OK" \notin Range(new)
    BY DEF Murmurs, Counting, StateAnswer
  <1>2. \A C, B : /\ Exchange(C, ShutAnswer, B, new) /\ Exchange(C, StateAnswer, B, new)
                  /\ Exchange(C, Closing, B, new) /\ Exchange(C, Context, B, new)
                  /\ Exchange(C, Apn, B, new) /\ Exchange(C, OkAnswer, B, new)
                  /\ Exchange(C, OpenAnswer, B, new)
    BY <1>1, NoExchange
  <1>3. QED
    BY <1>1, <1>2 DEF Fitting, Exchange

LEMMA ConnectedFits == ASSUME NEW new \in Seq(Lines), TellsConnected(new) PROVE Fitting(new)
  <1>1. Range(new) = {"CONNECT OK"}
    BY ShortRanges DEF TellsConnected
  <1>2. /\ Range(new) \cap ShutAnswer = {} /\ Range(new) \cap StateAnswer = {}
        /\ Range(new) \cap Closing = {} /\ Range(new) \cap Context = {} /\ Range(new) \cap Apn = {}
        /\ Range(new) \cap OkAnswer = {}
        /\ "STATE: other" \notin Range(new) /\ "STATE: CONNECT OK" \notin Range(new)
    BY <1>1 DEF ShutAnswer, StateAnswer, Closing, Context, Apn, OkAnswer
  <1>3. \A C, B : /\ Exchange(C, ShutAnswer, B, new) /\ Exchange(C, StateAnswer, B, new)
                  /\ Exchange(C, Closing, B, new) /\ Exchange(C, Context, B, new)
                  /\ Exchange(C, Apn, B, new) /\ Exchange(C, OkAnswer, B, new)
    BY <1>2, NoExchange
  <1>4. link = "OPENING"
    BY DEF TellsConnected
  <1>5. QED
    BY <1>2, <1>3, <1>4 DEF Fitting, Exchange

LEMMA ShutFits == ASSUME NEW new \in Seq(Lines), TellsShut(new) PROVE Fitting(new)
  <1>1. Range(new) = {"AT+CIPSHUT", "SHUT OK"} /\ link' = "DOWN"
    BY ShortRanges DEF TellsShut
  <1>2. /\ Range(new) \cap StateAnswer = {}
        /\ Range(new) \cap Closing = {} /\ Range(new) \cap Context = {} /\ Range(new) \cap Apn = {}
        /\ Range(new) \cap OkAnswer = {} /\ Range(new) \cap OpenAnswer = {}
        /\ "STATE: other" \notin Range(new) /\ "STATE: CONNECT OK" \notin Range(new)
    BY <1>1 DEF StateAnswer, Closing, Context, Apn, OkAnswer, OpenAnswer
  <1>3. \A C, B : /\ Exchange(C, StateAnswer, B, new)
                  /\ Exchange(C, Closing, B, new) /\ Exchange(C, Context, B, new)
                  /\ Exchange(C, Apn, B, new) /\ Exchange(C, OkAnswer, B, new)
                  /\ Exchange(C, OpenAnswer, B, new)
    BY <1>2, NoExchange
  <1>4. Exchange(ShutAsk, ShutAnswer, Async, new)
    <2>1. AnswersOnly(ShutAsk, ShutAnswer, new)
      BY DEF TellsShut, AnswersOnly, Serves1, ShutAsk
    <2>2. "AT+CIPSHUT" \notin ShutAnswer
      BY DEF ShutAnswer
    <2>3. Behind(new, ShutAnswer, Async)
      BY <2>2, BehindShort DEF TellsShut
    <2>4. QED
      BY <2>1, <2>3 DEF Exchange
  <1>5. QED
    BY <1>1, <1>2, <1>3, <1>4 DEF Fitting, Exchange

LEMMA StateFits == ASSUME QueuesOK, NEW new \in Seq(Lines), TellsState(new) PROVE Fitting(new)
  <1> DEFINE told == IF link = "UP" THEN "STATE: CONNECT OK" ELSE "STATE: other"
  <1>a. new = <<"AT+QISTATE", "OK", told>> /\ UNCHANGED link /\ Serves1("AT+QISTATE")
    BY DEF TellsState
  <1>b. /\ told \in StateAnswer /\ (told = "STATE: other" => link # "UP")
        /\ (told = "STATE: CONNECT OK" => link = "UP")
    BY DEF StateAnswer
  <1> HIDE DEF told
  <1>1. Range(new) = {"AT+QISTATE", "OK", told} /\ new = <<"AT+QISTATE", "OK", told>>
        /\ UNCHANGED link /\ Serves1("AT+QISTATE")
    BY <1>a, ShortRanges
  <1>2. /\ Range(new) \cap ShutAnswer = {} /\ Range(new) \cap Closing = {}
        /\ Range(new) \cap Context = {} /\ Range(new) \cap Apn = {}
        /\ Range(new) \cap OpenAnswer = {} /\ ("STATE: other" \in Range(new) => link # "UP")
        /\ ("STATE: CONNECT OK" \in Range(new) => link = "UP")
    BY <1>1, <1>b DEF ShutAnswer, StateAnswer, Closing, Context, Apn, OpenAnswer
  <1>3. \A C, B : /\ Exchange(C, ShutAnswer, B, new)
                  /\ Exchange(C, Closing, B, new) /\ Exchange(C, Context, B, new)
                  /\ Exchange(C, Apn, B, new) /\ Exchange(C, OpenAnswer, B, new)
    BY <1>2, NoExchange
  <1>4. Exchange(StateAsk, StateAnswer, Async, new)
    <2>1. AnswersOnly(StateAsk, StateAnswer, new)
      BY <1>1 DEF AnswersOnly, Serves1, StateAsk
    <2>2. "AT+QISTATE" \notin StateAnswer /\ "OK" \notin StateAnswer
      BY DEF StateAnswer
    <2>3. Behind(new, StateAnswer, Async)
      BY <1>1, <2>2, BehindShort
    <2>4. QED
      BY <2>1, <2>3 DEF Exchange
  <1>5. AnswersOnly(OkAsk, OkAnswer, new)
    BY <1>1 DEF AnswersOnly, Serves1, OkAsk
  <1>6. "AT+QISTATE" \in Asked
    BY <1>1, AskedServed DEF Serves1
  <1>7. Head(chipIn).text # "sms body"
    BY <1>1 DEF Serves1
  <1>8. QED
    BY <1>1, <1>2, <1>3, <1>4, <1>5, <1>6, <1>7 DEF Fitting, Exchange

LEMMA ClosedFits == ASSUME NEW new \in Seq(Lines), TellsClosed(new) PROVE Fitting(new)
  <1>1. Range(new) = {"AT+QICLOSE", "OK"} /\ new = <<"AT+QICLOSE", "OK">>
        /\ link' = "DOWN" /\ Serves1("AT+QICLOSE")
    BY ShortRanges DEF TellsClosed
  <1>2. /\ Range(new) \cap ShutAnswer = {} /\ Range(new) \cap StateAnswer = {}
        /\ Range(new) \cap Context = {} /\ Range(new) \cap Apn = {}
        /\ Range(new) \cap OpenAnswer = {}
        /\ "STATE: other" \notin Range(new) /\ "STATE: CONNECT OK" \notin Range(new)
    BY <1>1 DEF ShutAnswer, StateAnswer, Context, Apn, OpenAnswer
  <1>3. \A C, B : /\ Exchange(C, ShutAnswer, B, new) /\ Exchange(C, StateAnswer, B, new)
                  /\ Exchange(C, Context, B, new)
                  /\ Exchange(C, Apn, B, new) /\ Exchange(C, OpenAnswer, B, new)
    BY <1>2, NoExchange
  <1>4. AnswersOnly(Closing, Closing, new) /\ AnswersOnly(OkAsk, OkAnswer, new)
    BY <1>1 DEF AnswersOnly, Serves1, Closing, OkAsk
  <1>5. Behind(new, Closing, Async \cup {"OK"})
    BY <1>1, BehindShort
  <1>6. Behind(new, OkAnswer, Async)
    <2>1. "AT+QICLOSE" \notin OkAnswer
      BY DEF OkAnswer
    <2>2. QED
      BY <1>1, <2>1, BehindShort
  <1>7. Head(chipIn).text # "sms body"
    BY <1>1 DEF Serves1
  <1>8. QED
    BY <1>1, <1>2, <1>3, <1>4, <1>5, <1>6, <1>7 DEF Fitting, Exchange

LEMMA OpenFits == ASSUME QueuesOK, NEW new \in Seq(Lines), TellsOpen(new) PROVE Fitting(new)
  <1>1. /\ Serves1("AT+QIOPEN")
        /\ Range(new) \subseteq {"AT+QIOPEN", "OK", "ALREADY CONNECT"}
    <2> DEFINE words == {"AT+QIOPEN", "OK", "ALREADY CONNECT"}
    <2>1. Serves1("AT+QIOPEN")
      BY DEF TellsOpen
    <2>2. "AT+QIOPEN" \in words /\ "OK" \in words /\ "ALREADY CONNECT" \in words
      OBVIOUS
    <2> HIDE DEF words
    <2>3. Within(<<"AT+QIOPEN", "OK", "ALREADY CONNECT">>, words) /\ Within(<<"AT+QIOPEN", "OK">>, words)
      BY <2>2, ShortWithin
    <2>4. Within(new, words)
      BY <2>3 DEF TellsOpen
    <2>5. QED
      BY <2>1, <2>4 DEF Within, words
  <1>2. /\ Range(new) \cap ShutAnswer = {} /\ Range(new) \cap StateAnswer = {}
        /\ Range(new) \cap Closing = {} /\ Range(new) \cap Context = {} /\ Range(new) \cap Apn = {}
        /\ "STATE: other" \notin Range(new) /\ "STATE: CONNECT OK" \notin Range(new)
    BY <1>1 DEF ShutAnswer, StateAnswer, Closing, Context, Apn
  <1>3. \A C, B : /\ Exchange(C, ShutAnswer, B, new) /\ Exchange(C, StateAnswer, B, new)
                  /\ Exchange(C, Closing, B, new) /\ Exchange(C, Context, B, new)
                  /\ Exchange(C, Apn, B, new)
    BY <1>2, NoExchange
  <1>4. AnswersOnly(OkAsk, OkAnswer, new)
    BY <1>1 DEF AnswersOnly, Serves1, OkAsk
  <1>5. "AT+QIOPEN" \in Asked
    BY <1>1, AskedServed DEF Serves1
  <1>6. Head(chipIn).text # "sms body"
    BY <1>1 DEF Serves1
  <1>7. QED
    BY <1>2, <1>3, <1>4, <1>5, <1>6 DEF Fitting, Exchange

LEMMA SimpleFits == ASSUME NEW new \in Seq(Lines), TellsSimple(new) PROVE Fitting(new)
  <1>1. PICK text \in SimpleCommands :
          /\ Serves1(text) /\ UNCHANGED link
          /\ \/ \E a \in Echoed : new = <<text, a>>
             \/ text \notin Context \cup Apn /\ \E a \in BootReplies : new = <<text, a, "OK">>
    BY DEF TellsSimple, Echoed
  <1>2. /\ text \in Range(new)
        /\ Range(new) \subseteq {text} \cup Echoed \cup BootReplies
    <2>1. \A a : Range(<<text, a>>) = {text, a} /\ Range(<<text, a, "OK">>) = {text, a, "OK"}
      BY ShortRanges
    <2>2. "OK" \in Echoed
      BY DEF Echoed
    <2>3. QED
      BY <1>1, <2>1, <2>2
  <1>3. /\ Range(new) \cap ShutAnswer = {} /\ Range(new) \cap StateAnswer = {}
        /\ Range(new) \cap Closing = {} /\ Range(new) \cap OpenAnswer = {}
        /\ "STATE: other" \notin Range(new) /\ "STATE: CONNECT OK" \notin Range(new)
    <2>1. (Echoed \cup BootReplies)
             \cap (ShutAnswer \cup StateAnswer \cup Closing \cup OpenAnswer) = {}
      BY DEF Echoed, BootReplies, ShutAnswer, StateAnswer, Closing, OpenAnswer
    <2>2. "STATE: other" \in StateAnswer /\ "STATE: CONNECT OK" \in StateAnswer
      BY DEF StateAnswer
    <2>3. QED
      BY <1>2, <2>1, <2>2, SimpleCountless
  <1>4. \A C, B : /\ Exchange(C, ShutAnswer, B, new) /\ Exchange(C, StateAnswer, B, new)
                  /\ Exchange(C, Closing, B, new) /\ Exchange(C, OpenAnswer, B, new)
    BY <1>3, NoExchange
  <1>5. ASSUME NEW A \in {Context, Apn} PROVE Exchange(A, A, Async \cup Echoed, new)
    <2>1. (Echoed \cup BootReplies) \cap A = {}
      BY DEF Echoed, BootReplies, Context, Apn
    <2>2. CASE text \notin A
      BY <1>2, <2>1, <2>2, NoExchange
    <2>3. CASE text \in A
      <3>1. AnswersOnly(A, A, new)
        BY <1>1, <2>3 DEF AnswersOnly, Serves1
      <3>2. PICK a \in Echoed : new = <<text, a>>
        BY <1>1, <2>3
      <3>3. Behind(new, A, Async \cup Echoed)
        BY <3>2, BehindShort
      <3>4. QED
        BY <3>1, <3>3 DEF Exchange
    <2>4. QED
      BY <2>2, <2>3
  <1>6. AnswersOnly(OkAsk, OkAnswer, new)
    BY <1>1 DEF AnswersOnly, Serves1, OkAsk
  <1>7. Behind(new, OkAnswer, Async)
    <2>1. text \notin OkAnswer /\ \A a \in BootReplies : a \notin OkAnswer
      BY SimpleCountless DEF Counting
    <2>2. \A a : Behind(<<text, a>>, OkAnswer, Async)
      BY <2>1, BehindShort
    <2>3. \A a \in BootReplies : Behind(<<text, a, "OK">>, OkAnswer, Async)
      BY <2>1, BehindShort
    <2>4. QED
      BY <1>1, <2>2, <2>3
  <1>8. Head(chipIn).text # "sms body"
    <2>1. "sms body" \notin SimpleCommands
      BY SimpleNames
    <2>2. QED
      BY <1>1, <2>1 DEF Serves1
  <1>9. QED
    BY <1>1, <1>3, <1>4, <1>5, <1>6, <1>7, <1>8 DEF Fitting, Exchange

LEMMA OkFits == ASSUME NEW new \in Seq(Lines), TellsOk(new) PROVE Fitting(new)
  <1> DEFINE words == {"AT+QISACK", "+QISACK: some", "+QISACK: all", "OK", "AT+QIRD", "+QIRD: n",
                       "payload", "+CMS ERROR"}
  <1>1. Range(new) \subseteq words /\ UNCHANGED link
        /\ (Serves1("AT+QISACK") \/ Serves1("AT+QIRD") \/ Serves1("sms body"))
    <2>1. UNCHANGED link /\ (Serves1("AT+QISACK") \/ Serves1("AT+QIRD") \/ Serves1("sms body"))
      BY DEF TellsOk
    <2>2. /\ "AT+QISACK" \in words /\ "+QISACK: some" \in words /\ "+QISACK: all" \in words
          /\ "OK" \in words /\ "AT+QIRD" \in words /\ "+QIRD: n" \in words
          /\ "payload" \in words /\ "+CMS ERROR" \in words
      OBVIOUS
    <2> HIDE DEF words
    <2>3. /\ \A a \in {"+QISACK: some", "+QISACK: all"} : Within(<<"AT+QISACK", a, "OK">>, words)
          /\ Within(<<"AT+QIRD", "+QIRD: n", "payload", "OK">>, words)
          /\ Within(<<"AT+QIRD", "OK">>, words)
          /\ Within(<<"OK">>, words) /\ Within(<<"+CMS ERROR">>, words)
      BY <2>2, ShortWithin
    <2>4. Within(new, words)
      BY <2>3 DEF TellsOk
    <2>5. QED
      BY <2>1, <2>4 DEF Within
  <1>2. /\ Range(new) \cap ShutAnswer = {} /\ Range(new) \cap StateAnswer = {}
        /\ Range(new) \cap Closing = {} /\ Range(new) \cap Context = {} /\ Range(new) \cap Apn = {}
        /\ Range(new) \cap OpenAnswer = {}
        /\ "STATE: other" \notin Range(new) /\ "STATE: CONNECT OK" \notin Range(new)
    BY <1>1 DEF ShutAnswer, StateAnswer, Closing, Context, Apn, OpenAnswer
  <1>3. \A C, B : /\ Exchange(C, ShutAnswer, B, new) /\ Exchange(C, StateAnswer, B, new)
                  /\ Exchange(C, Closing, B, new) /\ Exchange(C, Context, B, new)
                  /\ Exchange(C, Apn, B, new) /\ Exchange(C, OpenAnswer, B, new)
    BY <1>2, NoExchange
  <1>4. AnswersOnly(OkAsk, OkAnswer, new)
    BY <1>1 DEF AnswersOnly, Serves1, OkAsk
  <1>5. Behind(new, OkAnswer, Async)
    <2>1. \A x \in {"AT+QISACK", "+QISACK: some", "+QISACK: all", "AT+QIRD", "+QIRD: n", "payload"} :
             x \notin OkAnswer
      BY DEF OkAnswer
    <2>2. /\ \A a \in {"+QISACK: some", "+QISACK: all"} : Behind(<<"AT+QISACK", a, "OK">>, OkAnswer, Async)
          /\ Behind(<<"AT+QIRD", "+QIRD: n", "payload", "OK">>, OkAnswer, Async)
          /\ Behind(<<"AT+QIRD", "OK">>, OkAnswer, Async)
          /\ Behind(<<"OK">>, OkAnswer, Async) /\ Behind(<<"+CMS ERROR">>, OkAnswer, Async)
      BY <2>1, BehindShort
    <2>3. QED
      BY <2>2 DEF TellsOk
  <1>6. Head(chipIn).text = "sms body" => smsAnswered' = smsAnswered + 1
    <2>1. "AT+QISACK" # "sms body" /\ "AT+QIRD" # "sms body"
      OBVIOUS
    <2>2. QED
      BY <2>1 DEF TellsOk, Serves1
  <1>7. QED
    BY <1>1, <1>2, <1>3, <1>4, <1>5, <1>6 DEF Fitting, Exchange

LEMMA SpeechFits == ASSUME QueuesOK, NEW new, Tells(new), Speech(new) PROVE Fitting(new)
  BY MurmursFit, ConnectedFits, ShutFits, StateFits, ClosedFits, OpenFits, SimpleFits, OkFits
     DEF Speech, Tells

-----------------------------------------------------------------------------
(* The invariant. *)

Hearing == rxOn /\ state \notin ShutDownStates
(* The driver hears the chip after a soft reset or switching it on. *)
Lap == Hearing /\ state # "GPRS_RESET"

(* In these states the exchange is under way, outside them there is none. *)
Kind(states, commands, answers, after, down) ==
    IF state \in states THEN Sync(commands, answers, after, down) ELSE Fresh(commands, answers)

Querying == {"CHECK_CONNECTION", "CHECK_CONNECTION_PRE_SEND"}
(* The states that wait for an "OK", and those in which none is on its way. *)
OneOk == {"NETWORK_GPS_USART_ECHO_OFF", "NETWORK_BEGIN_RECEIVE", "NETWORK_RECEIVE",
          "NETWORK_ACK_CHECK", "SMS_SEND_SINGLE_BODY"}
NoOk == {"NETWORK_CHECK_RECEIVE", "NETWORK_BEGIN_SEND", "NETWORK_PREPARE_SEND", "NETWORK_SEND",
         "NETWORK_ACK_CHECK_PARSE", "NETWORK_DECLARE_READ", "SMS_BEGIN_SEND",
         "SMS_SEND_SINGLE_NUMBER", "SMS_SEND_SINGLE_REMOVE"}
(* The states in which there is no connection. *)
Unlinked == BootStates \cup {"CONTROL_WAIT_FOR_CONNECT", "CLOSE_DELAY"}

ShutPaired == Hearing => Kind({"GPRS_RESET"}, ShutAsk, ShutAnswer, Async, ShutAnswer)
StatePaired == Lap => Kind(Querying, StateAsk, StateAnswer, Async, {"STATE: other"})
ClosePaired == Lap => Kind({"CLOSE_AND_RECONNECT"}, Closing, Closing, Async \cup {"OK"}, Closing)
ContextPaired == Lap => Kind({"SET_CONTEXT"}, Context, Context, Async \cup Echoed, {})
ApnPaired == Lap => Kind({"APN_USER_PASSWD_INPUT"}, Apn, Apn, Async \cup Echoed, {})

(* While AT+QIOPEN is under way nothing else is. *)
Opening ==
    /\ Asked \cap OpenAsk # {} => link = "DOWN"
    /\ link = "OPENING" => chipIn = << >> /\ Told \cap OpenAnswer = {}
OpenPaired ==
    Lap => /\ state = "CONNECT_TO_SERVER" => Sync(OpenAsk, OpenAnswer, Async, {}) /\ Opening
           /\ state \notin {"CONNECT_TO_SERVER", "CLOSE_AND_RECONNECT"} =>
                 Fresh(OpenAsk, OpenAnswer) /\ link # "OPENING"

OkPaired ==
    Lap => /\ state \in OneOk => Sync(OkAsk, OkAnswer, Async, {})
           /\ state \in NoOk => Fresh(OkAsk, OkAnswer)

LinkDown ==
    Lap /\ (state \in Unlinked \/ (state = "CHECK_CONNECTION" /\ ~connected)) => link = "DOWN"

(* A connection that was never announced is not found, either. *)
Unannounced ==
    Lap /\ state = "CHECK_CONNECTION" /\ ~connected => "STATE: CONNECT OK" \notin Told

Paired ==
    /\ ShutPaired /\ StatePaired /\ ClosePaired /\ ContextPaired /\ ApnPaired
    /\ OpenPaired /\ OkPaired /\ LinkDown /\ Unannounced

LEMMA KindParts ==
    /\ Async \cap (ShutAnswer \cup StateAnswer \cup Closing \cup Context \cup Apn \cup OpenAnswer
                   \cup OkAnswer \cup Echoed) = {}
    /\ Echoed \cap (Closing \cup Context \cup Apn) = {} /\ {"STATE: other"} \subseteq StateAnswer
    /\ "OK" \notin Closing /\ NoLine \notin Counting
  BY DEF Async, Echoed, Counting, ShutAnswer, StateAnswer, Closing, Context, Apn, OpenAnswer,
     OkAnswer, NoLine

(* The chip speaks. *)
Hears(new) == Tells(new) /\ Fitting(new) /\ UNCHANGED <<state, rxOn, connected, smsRemoved>>

LEMMA KindStays ==
    ASSUME QueuesOK, NEW new, Hears(new), NEW S, NEW C, NEW A, NEW B, NEW D,
           D \subseteq A, Async \subseteq B, A \cap Async = {}, Exchange(C, A, B, new),
           Kind(S, C, A, B, D),
           state \in S /\ Range(new) \cap A # {} => link' # "OPENING",
           state \in S /\ Range(new) \cap D # {} => link' = "DOWN"
    PROVE  Kind(S, C, A, B, D)'
  <1>1. CASE state \in S
    <2>1. Sync(C, A, B, D)
      BY <1>1 DEF Kind
    <2>2. Sync(C, A, B, D)'
      BY <1>1, <2>1, SyncStays DEF Hears, Exchange
    <2>3. QED
      BY <1>1, <2>2 DEF Kind, Hears
  <1>2. CASE state \notin S
    <2>1. Fresh(C, A)
      BY <1>2 DEF Kind
    <2>2. Fresh(C, A)'
      BY <2>1, FreshStays DEF Hears, Exchange
    <2>3. QED
      BY <1>2, <2>2 DEF Kind, Hears
  <1>3. QED
    BY <1>1, <1>2

(* Where no AT+QIOPEN is under way the link does not come up. *)
LEMMA LinkSettled ==
    ASSUME QueuesOK, NEW new, Hears(new), Paired,
           Lap, state # "CLOSE_AND_RECONNECT", state # "CONNECT_TO_SERVER"
    PROVE  /\ link' \in {link, "DOWN"} /\ link' # "OPENING"
           /\ Range(new) \cap OpenAnswer = {} /\ "AT+QIOPEN" \notin Asked
  <1>1. Fresh(OpenAsk, OpenAnswer) /\ link # "OPENING"
    BY DEF Paired, OpenPaired
  <1>2. "AT+QIOPEN" \notin Asked
    BY <1>1 DEF Fresh, OpenAsk
  <1>3. ~Serves1("AT+QIOPEN")
    BY <1>2, AskedServed DEF Serves1
  <1>4. ~TellsConnected(new) /\ ~TellsOpen(new)
    BY <1>1, <1>3 DEF TellsConnected, TellsOpen
  <1>5. Range(new) \cap OpenAnswer = {} /\ link' \in {link, "DOWN"}
    BY <1>4 DEF Fitting, Hears
  <1>6. QED
    BY <1>1, <1>2, <1>5

LEMMA SimplePairingsStay ==
    ASSUME QueuesOK, link \in Links, NEW new, Hears(new), Paired
    PROVE  ShutPaired' /\ StatePaired' /\ ClosePaired' /\ ContextPaired' /\ ApnPaired'
  <1>1. Fitting(new) /\ UNCHANGED <<state, rxOn, connected>>
        /\ (Hearing' <=> Hearing) /\ (Lap' <=> Lap)
    BY DEF Hears, Hearing, Lap
  <1>2. Range(new) \cap (ShutAnswer \cup Closing) # {} => link' = "DOWN"
    BY <1>1 DEF Fitting
  <1>3. "DOWN" # "OPENING" /\ "DOWN" # "UP" /\ "OPENING" # "UP"
    OBVIOUS
  <1>4. ShutPaired'
    <2> SUFFICES ASSUME Hearing
                 PROVE  Kind({"GPRS_RESET"}, ShutAsk, ShutAnswer, Async, ShutAnswer)'
      BY <1>1 DEF ShutPaired
    <2>1. Exchange(ShutAsk, ShutAnswer, Async, new)
      BY <1>1 DEF Fitting
    <2>2. Kind({"GPRS_RESET"}, ShutAsk, ShutAnswer, Async, ShutAnswer)
      BY DEF Paired, ShutPaired
    <2>3. ShutAnswer \cap Async = {}
      BY KindParts
    <2>4. QED
      BY <1>2, <1>3, <2>1, <2>2, <2>3, KindStays
  <1>5. ASSUME Lap, state # "CLOSE_AND_RECONNECT", state # "CONNECT_TO_SERVER"
        PROVE  link' \in {link, "DOWN"} /\ link' # "OPENING"
    BY <1>5, LinkSettled
  <1>6. StatePaired'
    <2> SUFFICES ASSUME Lap
                 PROVE  Kind(Querying, StateAsk, StateAnswer, Async, {"STATE: other"})'
      BY <1>1 DEF StatePaired
    <2>1. Exchange(StateAsk, StateAnswer, Async, new)
      BY <1>1 DEF Fitting
    <2>2. Kind(Querying, StateAsk, StateAnswer, Async, {"STATE: other"})
      BY DEF Paired, StatePaired
    <2>3. StateAnswer \cap Async = {} /\ {"STATE: other"} \subseteq StateAnswer
      BY KindParts
    <2>4. ASSUME state \in Querying
          PROVE  link' # "OPENING" /\ (Range(new) \cap {"STATE: other"} # {} => link' = "DOWN")
      <3>1. state # "CLOSE_AND_RECONNECT" /\ state # "CONNECT_TO_SERVER"
        BY <2>4 DEF Querying
      <3>2. link # "OPENING"
        BY <3>1 DEF Paired, OpenPaired
      <3>3. link' # "OPENING"
        BY <3>1, <1>5
      <3>4. "STATE: other" \in Range(new) => UNCHANGED link /\ link # "UP"
        BY <1>1 DEF Fitting
      <3>5. QED
        BY <3>2, <3>3, <3>4 DEF Links
    <2>5. QED
      BY <2>1, <2>2, <2>3, <2>4, KindStays
  <1>7. ClosePaired'
    <2> SUFFICES ASSUME Lap
                 PROVE  Kind({"CLOSE_AND_RECONNECT"}, Closing, Closing, Async \cup {"OK"}, Closing)'
      BY <1>1 DEF ClosePaired
    <2>1. Exchange(Closing, Closing, Async \cup {"OK"}, new)
      BY <1>1 DEF Fitting
    <2>2. Kind({"CLOSE_AND_RECONNECT"}, Closing, Closing, Async \cup {"OK"}, Closing)
      BY DEF Paired, ClosePaired
    <2>3. Closing \cap Async = {}
      BY KindParts
    <2>4. QED
      BY <1>2, <1>3, <2>1, <2>2, <2>3, KindStays
  <1>8. ContextPaired'
    <2> SUFFICES ASSUME Lap
                 PROVE  Kind({"SET_CONTEXT"}, Context, Context, Async \cup Echoed, {})'
      BY <1>1 DEF ContextPaired
    <2>1. Exchange(Context, Context, Async \cup Echoed, new)
      BY <1>1 DEF Fitting
    <2>2. Kind({"SET_CONTEXT"}, Context, Context, Async \cup Echoed, {})
      BY DEF Paired, ContextPaired
    <2>3. Context \cap Async = {}
      BY KindParts
    <2>4. state \in {"SET_CONTEXT"} => link' # "OPENING"
      BY <1>5
    <2>5. QED
      BY <2>1, <2>2, <2>3, <2>4, KindStays
  <1>9. ApnPaired'
    <2> SUFFICES ASSUME Lap
                 PROVE  Kind({"APN_USER_PASSWD_INPUT"}, Apn, Apn, Async \cup Echoed, {})'
      BY <1>1 DEF ApnPaired
    <2>1. Exchange(Apn, Apn, Async \cup Echoed, new)
      BY <1>1 DEF Fitting
    <2>2. Kind({"APN_USER_PASSWD_INPUT"}, Apn, Apn, Async \cup Echoed, {})
      BY DEF Paired, ApnPaired
    <2>3. Apn \cap Async = {}
      BY KindParts
    <2>4. state \in {"APN_USER_PASSWD_INPUT"} => link' # "OPENING"
      BY <1>5
    <2>5. QED
      BY <2>1, <2>2, <2>3, <2>4, KindStays
  <1>10. QED
    BY <1>4, <1>6, <1>7, <1>8, <1>9

LEMMA OpenPairingStays ==
    ASSUME QueuesOK, NEW new, Hears(new), Paired
    PROVE  OpenPaired'
  <1>1. Fitting(new) /\ Tells(new) /\ UNCHANGED <<state, rxOn, connected>> /\ (Lap' <=> Lap)
    BY DEF Hears, Hearing, Lap
  <1>2. ASSUME Lap, state \notin {"CONNECT_TO_SERVER", "CLOSE_AND_RECONNECT"}
        PROVE  Fresh(OpenAsk, OpenAnswer)' /\ link' # "OPENING"
    <2>1. Fresh(OpenAsk, OpenAnswer)
      BY <1>2 DEF Paired, OpenPaired
    <2>2. link' # "OPENING" /\ Range(new) \cap OpenAnswer = {}
      BY <1>2, LinkSettled
    <2>3. AnswersOnly(OpenAsk, OpenAnswer, new)
      BY <2>2 DEF AnswersOnly
    <2>4. QED
      BY <1>1, <2>1, <2>2, <2>3, FreshStays
  <1>3. ASSUME Lap, state = "CONNECT_TO_SERVER"
        PROVE  Sync(OpenAsk, OpenAnswer, Async, {})' /\ Opening'
    <2>1. Sync(OpenAsk, OpenAnswer, Async, {}) /\ Opening
      BY <1>3 DEF Paired, OpenPaired
    <2>2. /\ Asked' \subseteq Asked /\ Told' \subseteq Told \cup Range(new)
          /\ Range(lines') \subseteq Range(lines) \cup Range(new)
      BY <1>1, Telling
    <2>3. CASE TellsConnected(new)
      <3>1. chipIn = << >> /\ Told \cap OpenAnswer = {} /\ UNCHANGED chipIn /\ link' = "UP"
        BY <2>1, <2>3 DEF Opening, TellsConnected
      <3>2. Asked' = {} /\ \A i \in 1..Len(chipIn') : FALSE
        BY <2>2, <3>1, AskedNone, EmptySeq
      <3>3. Range(lines) \cap OpenAnswer = {} /\ seen' \cap OpenAnswer = {}
        BY <1>1, <3>1 DEF Told, Tells
      <3>4. Behind(new, OpenAnswer, Async)
        BY <2>3, BehindShort DEF TellsConnected
      <3>5. Behind(lines', OpenAnswer, Async)
        BY <1>1, <2>1, <3>3, <3>4, BehindQueued DEF Sync, Tells, QueuesOK
      <3>6. Sync(OpenAsk, OpenAnswer, Async, {})'
        BY <3>1, <3>2, <3>3, <3>5 DEF Sync
      <3>7. Opening'
        BY <3>1, <3>2 DEF Opening
      <3>8. QED
        BY <3>6, <3>7
    <2>4. CASE TellsOpen(new)
      <3>1. Serves1("AT+QIOPEN") /\ "AT+QIOPEN" \in Asked
        BY <2>4, AskedServed DEF TellsOpen, Serves1
      <3>2. Told \cap OpenAnswer = {} /\ link = "DOWN"
        BY <2>1, <3>1 DEF Sync, Opening, OpenAsk
      <3>3. new = <<"AT+QIOPEN", "OK">> /\ link' = "OPENING"
        BY <2>4, <3>2 DEF TellsOpen
      <3>4. Range(new) \cap OpenAnswer = {}
        <4>1. Range(new) = {"AT+QIOPEN", "OK"}
          BY <3>3, ShortRanges
        <4>2. QED
          BY <4>1 DEF OpenAnswer
      <3>5. chipIn' = << >>
        <4>1. Len(chipIn) = 1
          BY <2>1, <3>1, AskedServed DEF Sync, Serves1, OpenAsk
        <4>2. Len(chipIn') = 0 /\ chipIn' \in Seq(Commands)
          BY <3>1, <4>1, HeadAndTail DEF QueuesOK, Serves1
        <4>3. QED
          BY <4>2, EmptySeq
      <3>6. Asked' = {} /\ \A i \in 1..Len(chipIn') : FALSE
        BY <3>5, EmptySeq DEF Asked
      <3>7. Told' \cap OpenAnswer = {} /\ Range(lines') \cap OpenAnswer = {} /\ seen' \cap OpenAnswer = {}
        BY <2>2, <3>2, <3>4 DEF Told
      <3>8. Behind(lines', OpenAnswer, Async)
        <4>1. lines' \in Seq(Lines)
          BY <1>1, QueuedElements DEF Tells, QueuesOK
        <4>2. QED
          BY <3>7, <4>1, BehindNone
      <3>9. QED
        BY <3>5, <3>6, <3>7, <3>8 DEF Sync, Opening
    <2>5. CASE Range(new) \cap OpenAnswer = {} /\ link' \in {link, "DOWN"}
      <3>1. Exchange(OpenAsk, OpenAnswer, Async, new)
        BY <1>1, <2>5, NoExchange DEF Tells
      <3>2. OpenAnswer \cap Async = {}
        BY KindParts
      <3>3. Sync(OpenAsk, OpenAnswer, Async, {})'
        BY <1>1, <2>1, <2>5, <3>1, <3>2, SyncStays DEF Exchange
      <3>4. link' = "OPENING" => link = "OPENING" /\ chipIn' = << >> /\ Told' \cap OpenAnswer = {}
        <4>1. "DOWN" # "OPENING"
          OBVIOUS
        <4>2. link' = "OPENING" => link = "OPENING" /\ chipIn = << >> /\ Told \cap OpenAnswer = {}
          BY <2>1, <2>5, <4>1 DEF Opening
        <4>3. chipIn = << >> => chipIn' = << >>
          BY <1>1 DEF Tells
        <4>4. QED
          BY <2>2, <2>5, <4>2, <4>3
      <3>5. Asked' \cap OpenAsk # {} => link' = "DOWN"
        BY <2>1, <2>2, <2>5 DEF Opening
      <3>6. QED
        BY <3>3, <3>4, <3>5 DEF Opening
    <2>6. QED
      BY <1>1, <2>3, <2>4, <2>5 DEF Fitting
  <1>4. QED
    BY <1>1, <1>2, <1>3 DEF OpenPaired

LEMMA OkPairingStays ==
    ASSUME QueuesOK, NEW new, Hears(new), Paired
    PROVE  OkPaired' /\ LinkDown'
  <1>1. Fitting(new) /\ Tells(new) /\ UNCHANGED <<state, rxOn, connected>> /\ (Lap' <=> Lap)
    BY DEF Hears, Hearing, Lap
  <1>2. ASSUME Lap, state \in OneOk PROVE Sync(OkAsk, OkAnswer, Async, {})'
    <2>1. Sync(OkAsk, OkAnswer, Async, {})
      BY <1>2 DEF Paired, OkPaired
    <2>2. state # "CLOSE_AND_RECONNECT" /\ state # "CONNECT_TO_SERVER" /\ state \notin Querying
      BY <1>2 DEF OneOk, Querying
    <2>3. link' # "OPENING" /\ "AT+QIOPEN" \notin Asked
      BY <1>2, <2>2, LinkSettled
    <2>4. "AT+QISTATE" \notin Asked
      BY <1>2, <2>2 DEF Paired, StatePaired, Kind, Fresh, StateAsk
    <2>5. AnswersOnly(OkAsk, OkAnswer, new) /\ Behind(new, OkAnswer, Async)
      BY <1>1, <2>3, <2>4 DEF Fitting
    <2>6. OkAnswer \cap Async = {}
      BY KindParts
    <2>7. QED
      BY <1>1, <2>1, <2>3, <2>5, <2>6, SyncStays
  <1>3. ASSUME Lap, state \in NoOk PROVE Fresh(OkAsk, OkAnswer)'
    <2>1. Fresh(OkAsk, OkAnswer)
      BY <1>3 DEF Paired, OkPaired
    <2>2. AnswersOnly(OkAsk, OkAnswer, new)
      BY <1>1 DEF Fitting
    <2>3. QED
      BY <1>1, <2>1, <2>2, FreshStays
  <1>4. LinkDown'
    <2> SUFFICES ASSUME Lap, state \in Unlinked \/ (state = "CHECK_CONNECTION" /\ ~connected)
                 PROVE  link' = "DOWN"
      BY <1>1 DEF LinkDown
    <2>1. link = "DOWN"
      BY DEF Paired, LinkDown
    <2>2. state # "CLOSE_AND_RECONNECT" /\ state # "CONNECT_TO_SERVER"
      BY DEF Unlinked, BootStates
    <2>3. QED
      BY <2>1, <2>2, LinkSettled
  <1>5. QED
    BY <1>1, <1>2, <1>3, <1>4 DEF OkPaired

LEMMA StaysUnannounced ==
    ASSUME QueuesOK, NEW new, Hears(new), Paired PROVE Unannounced'
  <1> SUFFICES ASSUME Lap, state = "CHECK_CONNECTION", ~connected
               PROVE  "STATE: CONNECT OK" \notin Told'
    BY DEF Unannounced, Hears, Lap, Hearing
  <1>1. link = "DOWN" /\ "STATE: CONNECT OK" \notin Told
    BY DEF Paired, LinkDown, Unannounced
  <1>2. "STATE: CONNECT OK" \notin Range(new)
    BY <1>1 DEF Hears, Fitting
  <1>3. QED
    BY <1>1, <1>2, Telling DEF Hears

LEMMA PairingStays ==
    ASSUME QueuesOK, link \in Links, NEW new, Hears(new), Paired PROVE Paired'
  BY SimplePairingsStay, OpenPairingStays, OkPairingStays, StaysUnannounced DEF Paired

-----------------------------------------------------------------------------
(* Switching the modem off and on, and what the driver does while it does not *)
(* hear the chip.                                                            *)

SwitchedOff == power = "off" => link = "DOWN" /\ chipIn = << >>
Silent ==
    state \in {"RESET_STAGE_DECIDE", "RESET_STAGE_POWER_OFF", "RESET_STAGE_POWER_ON"} => ~rxOn
Restarting == state = "RESET_STAGE_POWER_ON" => link = "DOWN" /\ chipIn = << >>

(* The configuration states before the one that needs the echo of AT+QIFGCNT. *)
EarlyBoot ==
    {"GPS_USART_ECHO_ON", "INIT", "AT_QBTPWR", "AT_QBTVISB", "AT_QBTGATSREG", "AT_QBTGATSL",
     "PIN_STATUS_CHECK", "ENTER_PIN", "GET_SIM_IMSI", "SIGNAL_QUALITY_CHECK",
     "REGISTRATION_CHECK", "GPRS_ATTACH_CHECK", "SMS_TEXT_MODE", "SMS_CHARACTER_SET"}
DeafStates ==
    ResetStates \cup ShutDownStates \cup EarlyBoot \cup {"SET_CONTEXT", "APN_USER_PASSWD_INPUT"}

(* A driver that hears nothing has old lines only.  They do not hold both     *)
(* echoes the configuration needs one after the other, so it gets stuck there. *)
NotBoth == rxOn => Fresh(Context, Context) \/ Fresh(Apn, Apn)
Deaf ==
    ~rxOn => /\ Told \cap Context = {} \/ Told \cap Apn = {}
             /\ state \in DeafStates
             /\ state = "APN_USER_PASSWD_INPUT" => Told \cap Apn = {}

SmsAsk == {"sms body"}
(* In SMS_SEND_SINGLE_BODY only the text of the message is answered "OK".     *)
SmsPaired ==
    /\ smsRemoved <= smsAnswered
    /\ state = "SMS_SEND_SINGLE_BODY" =>
          /\ Told \cap OkAnswer # {} => smsRemoved < smsAnswered
          /\ Asked \cap OkAsk \subseteq SmsAsk

PairInv ==
    /\ Paired /\ SwitchedOff /\ Silent /\ Restarting /\ NotBoth /\ Deaf /\ SmsPaired
    /\ OnlineStatesConnected

LEMMA EnvironmentPins == Environment => UNCHANGED rxOn
  BY DEF Environment, ChipServes, ChipReports, ChipFails, Serve, pinVars, ChipObeys, ChipRefuses,
     ChipMissesCommand, ChipAbsorbs, ChipState, ChipOpens, ChipConnected, ChipConnectFails,
     ChipCloses, ChipShuts, ChipShutFails, LinkLost, ChipPrompts, ChipTakesData, ChipSendOk,
     ChipSendFails, ChipCancels, ChipAcks, ChipReads, ChipSmsNumber, ChipSmsBody, NetDelivers,
     NetAcks, PeerSends, ChipToggles, ChipIgnoresPulse, ChipReboots

LEMMA EnvironmentPower ==
    Environment => UNCHANGED power \/ (link' = "DOWN" /\ chipIn' = << >>)
  BY DEF Environment, ChipServes, ChipReports, ChipFails, Serve, pinVars, ChipObeys, ChipRefuses,
     ChipMissesCommand, ChipAbsorbs, ChipState, ChipOpens, ChipConnected, ChipConnectFails,
     ChipCloses, ChipShuts, ChipShutFails, LinkLost, ChipPrompts, ChipTakesData, ChipSendOk,
     ChipSendFails, ChipCancels, ChipAcks, ChipReads, ChipSmsNumber, ChipSmsBody, NetDelivers,
     NetAcks, PeerSends, ChipToggles, ChipIgnoresPulse, ChipReboots, Hangup

(* A chip that has no connection and nothing to do stays that way. *)
LEMMA EnvironmentIdle ==
    ASSUME Environment, link = "DOWN", chipIn = << >> PROVE link' = "DOWN" /\ chipIn' = << >>
  BY DEF Environment, ChipServes, ChipReports, ChipFails, Serve, linkVars, ChipObeys, ChipRefuses,
     ChipMissesCommand, ChipAbsorbs, ChipState, ChipOpens, ChipConnected, ChipConnectFails,
     ChipCloses, ChipShuts, ChipShutFails, LinkLost, ChipPrompts, ChipTakesData, ChipSendOk,
     ChipSendFails, ChipCancels, ChipAcks, ChipReads, ChipSmsNumber, ChipSmsBody, NetDelivers,
     NetAcks, PeerSends, ChipToggles, ChipIgnoresPulse, ChipReboots, Hangup

LEMMA EnvironmentSms ==
    Environment => smsAnswered' \in {smsAnswered, smsAnswered + 1, smsAnswered + 0}
  BY DEF Environment, ChipServes, ChipReports, ChipFails, Serve, netVars, ChipObeys, ChipRefuses,
     ChipMissesCommand, ChipAbsorbs, ChipState, ChipOpens, ChipConnected, ChipConnectFails,
     ChipCloses, ChipShuts, ChipShutFails, LinkLost, ChipPrompts, ChipTakesData, ChipSendOk,
     ChipSendFails, ChipCancels, ChipAcks, ChipReads, ChipSmsNumber, ChipSmsBody, NetDelivers,
     NetAcks, PeerSends, ChipToggles, ChipIgnoresPulse, ChipReboots

LEMMA DeafToChip == ASSUME ~rxOn, Environment PROVE UNCHANGED lines
  BY EnvironmentSays DEF ChipSays, Say

LEMMA UnheardPaired == ~rxOn => Paired
  BY DEF Paired, ShutPaired, StatePaired, ClosePaired, ContextPaired, ApnPaired, OpenPaired,
     OkPaired, LinkDown, Unannounced, Lap, Hearing

LEMMA NotBothStays == ASSUME QueuesOK, NEW new, Hears(new), NotBoth PROVE NotBoth'
  <1> SUFFICES ASSUME rxOn PROVE (Fresh(Context, Context) \/ Fresh(Apn, Apn))'
    BY DEF NotBoth, Hears
  <1>1. Tells(new) /\ AnswersOnly(Context, Context, new) /\ AnswersOnly(Apn, Apn, new)
    BY DEF Hears, Fitting, Exchange
  <1>2. Fresh(Context, Context) => Fresh(Context, Context)'
    BY <1>1, FreshStays
  <1>3. Fresh(Apn, Apn) => Fresh(Apn, Apn)'
    BY <1>1, FreshStays
  <1>4. QED
    BY <1>2, <1>3 DEF NotBoth

(* In SMS_SEND_SINGLE_BODY the driver hears the chip. *)
LEMMA BodyHeard == ASSUME Deaf, state = "SMS_SEND_SINGLE_BODY" PROVE Lap
  BY DEF Deaf, DeafStates, ResetStates, ShutDownStates, EarlyBoot, Lap, Hearing

LEMMA EnvironmentKeepsSms ==
    ASSUME QueuesOK, smsAnswered \in Nat, smsRemoved \in Nat, NEW new, Hears(new),
           smsAnswered' \in {smsAnswered, smsAnswered + 1, smsAnswered + 0}, SmsPaired
    PROVE  SmsPaired'
  <1>1. UNCHANGED <<state, smsRemoved>> /\ Fitting(new) /\ Tells(new)
    BY DEF Hears
  <1>2. /\ smsAnswered' \in Nat /\ smsAnswered' >= smsAnswered
        /\ smsRemoved' <= smsAnswered'
        /\ smsRemoved < smsAnswered => smsRemoved' < smsAnswered'
        /\ smsAnswered' = smsAnswered + 1 => smsRemoved' < smsAnswered'
    BY <1>1 DEF SmsPaired
  <1>3. Asked' \subseteq Asked /\ Told' \subseteq Told \cup Range(new)
    BY <1>1, Telling
  <1>4. ASSUME state = "SMS_SEND_SINGLE_BODY" PROVE Asked' \cap OkAsk \subseteq SmsAsk
    BY <1>3, <1>4 DEF SmsPaired
  <1>5. ASSUME state = "SMS_SEND_SINGLE_BODY", Range(new) \cap OkAnswer # {}
        PROVE  smsAnswered' = smsAnswered + 1
    <2>1. chipIn # << >> /\ chipIn' = Tail(chipIn) /\ Head(chipIn).text \in OkAsk
      BY <1>1, <1>5 DEF Fitting, AnswersOnly
    <2>2. Head(chipIn).text \in Asked
      BY <2>1, AskedServed
    <2>3. Head(chipIn).text = "sms body"
      BY <1>5, <2>1, <2>2 DEF SmsPaired, SmsAsk
    <2>4. QED
      BY <1>1, <1>5, <2>3 DEF Fitting
  <1>6. ASSUME state = "SMS_SEND_SINGLE_BODY", Told' \cap OkAnswer # {}
        PROVE  smsRemoved' < smsAnswered'
    <2>1. Told \cap OkAnswer # {} \/ Range(new) \cap OkAnswer # {}
      BY <1>3, <1>6
    <2>2. QED
      BY <1>2, <1>5, <1>6, <2>1 DEF SmsPaired
  <1>7. QED
    BY <1>1, <1>2, <1>4, <1>6 DEF SmsPaired

LEMMA EnvironmentKeepsPairs ==
    ASSUME QueuesOK, link \in Links, smsAnswered \in Nat, smsRemoved \in Nat, rxOn \in BOOLEAN,
           Environment, UNCHANGED modemVars, PairInv
    PROVE  PairInv'
  <1>1. UNCHANGED <<state, seen, connected, smsRemoved, rxOn>>
    BY EnvironmentPins DEF modemVars, machineVars, smsVars
  <1>2. SwitchedOff'
    BY EnvironmentPower, EnvironmentIdle DEF PairInv, SwitchedOff
  <1>3. Silent'
    BY <1>1 DEF PairInv, Silent
  <1>4. Restarting'
    BY <1>1, EnvironmentIdle DEF PairInv, Restarting
  <1>5. OnlineStatesConnected'
    BY <1>1 DEF PairInv, OnlineStatesConnected
  <1>6. CASE rxOn
    <2>1. PICK new : Tells(new) /\ Speech(new)
      BY <1>1, <1>6, EnvironmentSpeaks
    <2>2. Hears(new)
      BY <1>1, <2>1, SpeechFits DEF Hears
    <2>3. Paired' /\ NotBoth'
      BY <2>2, PairingStays, NotBothStays DEF PairInv
    <2>4. Deaf'
      BY <1>1, <1>6 DEF Deaf
    <2>5. SmsPaired'
      BY <2>2, EnvironmentSms, EnvironmentKeepsSms DEF PairInv
    <2>6. QED
      BY <1>2, <1>3, <1>4, <1>5, <2>3, <2>4, <2>5 DEF PairInv
  <1>7. CASE ~rxOn
    <2>1. UNCHANGED lines /\ UNCHANGED Told
      BY <1>1, <1>7, DeafToChip DEF Told
    <2>2. Paired' /\ NotBoth'
      BY <1>1, <1>7, UnheardPaired DEF NotBoth, Paired, ShutPaired, StatePaired, ClosePaired,
         ContextPaired, ApnPaired, OpenPaired, OkPaired, LinkDown, Unannounced, Lap, Hearing
    <2>3. Deaf'
      BY <1>1, <2>1 DEF PairInv, Deaf
    <2>4. SmsPaired'
      <3>1. state # "SMS_SEND_SINGLE_BODY"
        BY <1>7, BodyHeard DEF PairInv, Lap, Hearing
      <3>2. smsRemoved <= smsAnswered'
        BY EnvironmentSms DEF PairInv, SmsPaired
      <3>3. QED
        BY <1>1, <3>1, <3>2 DEF SmsPaired
    <2>5. QED
      BY <1>2, <1>3, <1>4, <1>5, <2>2, <2>3, <2>4 DEF PairInv
  <1>8. QED
    BY <1>6, <1>7

-----------------------------------------------------------------------------
(* The driver's side: what a step of the machine reads, sends and awaits. *)

(* The texts a state can transmit when it is entered. *)
Entry(s) ==
    IF s \in BootStates THEN {BootCommand(s)}
    ELSE IF s = "NETWORK_PREPARE_SEND" THEN {"AT+QISEND"}
    ELSE IF s = "NETWORK_SEND" THEN {"data"}
    ELSE {LinkCommand(s)}

Enters(s) == UNCHANGED chipIn \/ \E text \in Entry(s) : \E data : Transmit(<<Command(text, data)>>)

LateBoot == {"MULTIPLE_CONNECTIONS_OFF", "SET_MODEM_MODE", "USE_DNS", "SET_RECEIVE_MODE"}
Busy == OneOk \cup NoOk \cup {"SLEEP", "WAKE", "CANCEL_SEND"}
Pausing == {"CHECK_CONNECTION", "CHECK_CONNECTION_PRE_SEND", "SLEEP", "WAKE", "CANCEL_SEND"}

Plain == UNCHANGED <<rxOn, connected, smsRemoved>>
Hear(answers) == \E answer \in answers : Heard(answer)

(* The machine goes from one of these states to one of those. *)
Moves(from, to) ==
    state \in from /\ state' \in to /\ seen' = {} /\ lines' = Rest

Waits == UNCHANGED <<state, chipIn, rxOn, connected, smsRemoved>>
GivesUp ==
    /\ state \notin ShutDownStates \cup {"GPRS_RESET"} /\ state' = "GPRS_RESET"
    /\ seen' = {} /\ UNCHANGED <<rxOn, smsRemoved>>
TurnsOff ==
    /\ state' \in ShutDownStates /\ rxOn' \in {rxOn, FALSE} /\ UNCHANGED <<connected, smsRemoved>>
StartsAgain == state' = "RESET_STAGE_DECIDE" /\ ~rxOn' /\ UNCHANGED smsRemoved
Powers ==
    \/ /\ Moves({"RESET_STAGE_DECIDE", "RESET_STAGE_POWER_OFF"},
                {"RESET_STAGE_POWER_OFF", "RESET_STAGE_POWER_ON"}) /\ Plain
       /\ state' = "RESET_STAGE_POWER_ON" => power = "off"
    \/ Moves({"RESET_STAGE_DECIDE", "RESET_STAGE_POWER_ON"}, {"PIN_STATUS_CHECK"}) /\ Plain
    \/ Moves({"RESET_STAGE_POWER_ON"}, {"INIT"}) /\ rxOn' /\ UNCHANGED <<connected, smsRemoved>>
Boots ==
    \/ Moves({"GPRS_RESET"}, {"GPS_USART_ECHO_ON"}) /\ Hear(ShutAnswer)
    \/ Moves(EarlyBoot, EarlyBoot \cup {"SET_CONTEXT"})
    \/ Moves({"SET_CONTEXT"}, {"APN_USER_PASSWD_INPUT"}) /\ Hear(Context)
    \/ Moves({"APN_USER_PASSWD_INPUT"}, {"MULTIPLE_CONNECTIONS_OFF"}) /\ Hear(Apn)
    \/ Moves(LateBoot, LateBoot \cup {"CONTROL_WAIT_FOR_CONNECT"})
    \/ Moves({"CONTROL_WAIT_FOR_CONNECT"}, {"CHECK_CONNECTION"})
FindsLink ==
    \/ Moves({"CHECK_CONNECTION"}, {"NETWORK_GPS_USART_ECHO_OFF"})
    \/ Moves({"CHECK_CONNECTION_PRE_SEND"}, {"NETWORK_PREPARE_SEND"})
Connects ==
    \/ FindsLink /\ Heard("STATE: CONNECT OK") /\ Plain
    \/ Moves(Querying, {"CONNECT_TO_SERVER"}) /\ Heard("STATE: other") /\ Plain
    \/ /\ Moves({"CONNECT_TO_SERVER"}, {"NETWORK_GPS_USART_ECHO_OFF"}) /\ Hear(OpenAnswer)
       /\ connected' /\ UNCHANGED <<rxOn, smsRemoved>>
    \/ Moves({"CONNECT_TO_SERVER"} \cup Busy, {"CLOSE_AND_RECONNECT"}) /\ Plain
    \/ /\ Moves({"CLOSE_AND_RECONNECT"}, {"CLOSE_DELAY"}) /\ Hear(Closing)
       /\ UNCHANGED <<rxOn, smsRemoved>>
    \/ /\ state = "CLOSE_DELAY" /\ state' = "CONNECT_TO_SERVER" /\ Plain
Exchanges ==
    \/ Moves(OneOk, NoOk) /\ Hear(OkAnswer) /\ UNCHANGED <<rxOn, connected>>
       /\ \/ UNCHANGED smsRemoved
          \/ state = "SMS_SEND_SINGLE_BODY" /\ smsRemoved' \in {smsRemoved, smsRemoved + 1}
    \/ Moves({"NETWORK_BEGIN_RECEIVE"}, {"NETWORK_RECEIVE"}) /\ UNCHANGED chipIn /\ Plain
    \/ Moves(NoOk \cup {"SLEEP", "WAKE", "CANCEL_SEND"}, Pausing) /\ Plain
    \/ Moves(NoOk, NoOk \cup OneOk) /\ Plain

Step ==
    \/ Waits \/ GivesUp \/ TurnsOff \/ StartsAgain \/ Powers \/ (Boots /\ Plain)
    \/ Connects \/ Exchanges

Turn == Reads /\ Enters(state') /\ UNCHANGED <<link, power, smsAnswered>> /\ Step

LEMMA NothingSent == ASSUME QueuesOK, Transmit(<< >>) PROVE UNCHANGED chipIn
  <1>1. chipIn \o << >> = chipIn
    BY DEF QueuesOK
  <1>2. QED
    BY <1>1 DEF Transmit, Received

LEMMA EntrySent ==
    ASSUME QueuesOK, NEW s, Transmit(EntryCommand(s)) PROVE Enters(s)
  <1> DEFINE text == IF s \in BootStates THEN BootCommand(s) ELSE LinkCommand(s)
  <1>1. CASE text = NoCommand
    BY <1>1, NothingSent DEF EntryCommand, Enters
  <1>2. CASE text # NoCommand
    <2>1. Transmit(<<Command(text, << >>)>>)
      BY <1>2 DEF EntryCommand
    <2>2. text \in Entry(s)
      <3>1. CASE s \notin {"NETWORK_PREPARE_SEND", "NETWORK_SEND"}
        BY <3>1 DEF Entry
      <3>2. CASE s \in {"NETWORK_PREPARE_SEND", "NETWORK_SEND"}
        <4>1. s \notin BootStates /\ LinkCommand(s) = NoCommand
          BY <3>2 DEF BootStates, LinkCommand
        <4>2. QED
          BY <1>2, <4>1
      <3>3. QED
        BY <3>1, <3>2
    <2>3. QED
      BY <2>1, <2>2 DEF Enters
  <1>3. QED
    BY <1>1, <1>2

LEMMA SkipTurns == ASSUME Skip PROVE Turn
  BY DEF Skip, Turn, Reads, Enters, Step, Waits, DriverFrame, linkVars, netVars, smsVars

LEMMA GotoReads ==
    ASSUME NEW next, Goto(next)
    PROVE  /\ Reads /\ state' = next /\ seen' = {} /\ lines' = Rest
           /\ UNCHANGED <<link, power, smsAnswered>>
  BY DEF Goto, Reads, DriverFrame, linkVars, netVars

LEMMA EnterWithReads ==
    ASSUME QueuesOK, NEW next, EnterWith(next)
    PROVE  /\ Reads /\ state' = next /\ seen' = {} /\ lines' = Rest /\ Enters(next)
           /\ UNCHANGED <<link, power, smsAnswered>>
  BY GotoReads, EntrySent DEF EnterWith

LEMMA EnterReads ==
    ASSUME QueuesOK, NEW next, Enter(next)
    PROVE  /\ Reads /\ state' = next /\ seen' = {} /\ lines' = Rest /\ Enters(next)
           /\ UNCHANGED <<link, power, smsAnswered>> /\ Plain
  BY EnterWithReads DEF Enter, Plain, smsVars

LEMMA EnterDecideReads ==
    ASSUME EnterDecide PROVE Turn
  BY GotoReads DEF EnterDecide, Turn, Step, StartsAgain, Enters, UsartAction, smsVars

LEMMA EnterPulsingReads ==
    ASSUME QueuesOK, NEW next, NEW rx, EnterPulsing(next, rx)
    PROVE  /\ Reads /\ state' = next /\ seen' = {} /\ lines' = Rest /\ Enters(next)
           /\ UNCHANGED <<link, power, smsAnswered, connected, smsRemoved>> /\ rxOn' = rx
  BY EnterWithReads DEF EnterPulsing, UsartAction, smsVars

LEMMA AtIs == ASSUME NEW s, At(s) PROVE state = s
  BY DEF At

LEMMA ResetTurns ==
    ASSUME QueuesOK,
           \/ ResetStageDecide \/ ResetStagePowerOff \/ ResetStagePowerOn \/ GprsReset
    PROVE  Turn
  <1>1. CASE Skip
    BY <1>1, SkipTurns
  <1>2. CASE Enter("PIN_STATUS_CHECK") /\ state \in {"RESET_STAGE_DECIDE", "RESET_STAGE_POWER_ON"}
    <2>1. Moves({"RESET_STAGE_DECIDE", "RESET_STAGE_POWER_ON"}, {"PIN_STATUS_CHECK"})
          /\ Plain /\ Reads /\ Enters(state') /\ UNCHANGED <<link, power, smsAnswered>>
      BY <1>2, EnterReads DEF Moves
    <2>2. QED
      BY <2>1 DEF Turn, Step, Powers
  <1>3. CASE /\ EnterPulsing("RESET_STAGE_POWER_OFF", rxOn)
             /\ state \in {"RESET_STAGE_DECIDE", "RESET_STAGE_POWER_OFF"}
    BY <1>3, EnterPulsingReads DEF Turn, Step, Powers, Moves, Plain
  <1>4. CASE /\ EnterPulsing("RESET_STAGE_POWER_ON", rxOn) /\ power = "off"
             /\ state \in {"RESET_STAGE_DECIDE", "RESET_STAGE_POWER_OFF"}
    BY <1>4, EnterPulsingReads DEF Turn, Step, Powers, Moves, Plain
  <1>5. CASE /\ state = "RESET_STAGE_POWER_ON" /\ EnterWith("INIT") /\ UsartAction(TRUE)
             /\ UNCHANGED <<bufferVars, counterVars, connected, smsVars, pulse, faults>>
    BY <1>5, EnterWithReads DEF Turn, Step, Powers, Moves, UsartAction, smsVars
  <1>6. CASE state = "GPRS_RESET" /\ line = "SHUT OK" /\ Enter("GPS_USART_ECHO_ON")
    <2>1. Hear(ShutAnswer)
      BY <1>6 DEF Hear, Heard, ShutAnswer
    <2>2. QED
      BY <1>6, <2>1, EnterReads DEF Turn, Step, Boots, Moves
  <1>7. CASE EnterDecide
    BY <1>7, EnterDecideReads
  <1>8. CASE ResetStageDecide
    BY <1>8, <1>1, <1>2, <1>3, <1>4, AtIs DEF ResetStageDecide, statusLow
  <1>9. CASE ResetStagePowerOff
    BY <1>9, <1>1, <1>4, AtIs DEF ResetStagePowerOff, statusLow
  <1>10. CASE ResetStagePowerOn
    BY <1>10, <1>1, <1>2, <1>5, AtIs DEF ResetStagePowerOn
  <1>11. CASE GprsReset
    BY <1>11, <1>1, <1>6, <1>7, AtIs DEF GprsReset
  <1>12. QED
    BY <1>8, <1>9, <1>10, <1>11

(* Where the rules of the configuration lead. *)
Leads(from, needs, next) ==
    \/ from \in EarlyBoot /\ next \in EarlyBoot \cup {"SET_CONTEXT"}
    \/ /\ from = "SET_CONTEXT" /\ next = "APN_USER_PASSWD_INPUT"
       /\ "AT+QIFGCNT=0" \in needs
    \/ /\ from = "APN_USER_PASSWD_INPUT" /\ next = "MULTIPLE_CONNECTIONS_OFF"
       /\ "AT+QICSGP" \in needs
    \/ from = "APN_USER_PASSWD_INPUT" /\ next = "GPRS_RESET"
    \/ from \in LateBoot /\ next \in LateBoot \cup {"CONTROL_WAIT_FOR_CONNECT"}

LEMMA RulesLead == ASSUME NEW rule \in BootRules PROVE Leads(rule.from, rule.needs, rule.next)
  <1> DEFINE early == EarlyBoot \cup {"SET_CONTEXT"}
             late == LateBoot \cup {"CONTROL_WAIT_FOR_CONNECT"}
  <1>1. {"INIT", "GPS_USART_ECHO_ON", "AT_QBTPWR", "AT_QBTVISB", "AT_QBTGATSREG", "AT_QBTGATSL",
         "PIN_STATUS_CHECK", "ENTER_PIN", "GET_SIM_IMSI", "SIGNAL_QUALITY_CHECK",
         "REGISTRATION_CHECK", "GPRS_ATTACH_CHECK", "SMS_TEXT_MODE", "SMS_CHARACTER_SET"}
        \subseteq EarlyBoot
    BY DEF EarlyBoot
  <1>2. EarlyBoot \subseteq early /\ "SET_CONTEXT" \in early
    OBVIOUS
  <1>3. {"MULTIPLE_CONNECTIONS_OFF", "SET_MODEM_MODE", "USE_DNS", "SET_RECEIVE_MODE"}
        \subseteq LateBoot
    BY DEF LateBoot
  <1>4. LateBoot \subseteq late /\ "CONTROL_WAIT_FOR_CONNECT" \in late
    OBVIOUS
  <1>5. \A from \in EarlyBoot, next \in early : \A needs : Leads(from, needs, next)
    BY DEF Leads
  <1>6. \A from \in LateBoot, next \in late : \A needs : Leads(from, needs, next)
    BY DEF Leads
  <1>7. /\ Leads("SET_CONTEXT", {"AT+QIFGCNT=0", "OK"}, "APN_USER_PASSWD_INPUT")
        /\ Leads("APN_USER_PASSWD_INPUT", {"AT+QICSGP", "OK"}, "MULTIPLE_CONNECTIONS_OFF")
        /\ Leads("APN_USER_PASSWD_INPUT", {"ERROR"}, "GPRS_RESET")
    BY DEF Leads
  <1> HIDE DEF early, late
  <1> DEFINE Fine(r) == \E from, needs, next : r = Rule(from, needs, next) /\ Leads(from, needs, next)
  <1>a. /\ \A from \in EarlyBoot, next \in early : \A needs : Fine(Rule(from, needs, next))
        /\ \A from \in LateBoot, next \in late : \A needs : Fine(Rule(from, needs, next))
    BY <1>5, <1>6
  <1>b. /\ Fine(Rule("SET_CONTEXT", {"AT+QIFGCNT=0", "OK"}, "APN_USER_PASSWD_INPUT"))
        /\ Fine(Rule("APN_USER_PASSWD_INPUT", {"AT+QICSGP", "OK"}, "MULTIPLE_CONNECTIONS_OFF"))
        /\ Fine(Rule("APN_USER_PASSWD_INPUT", {"ERROR"}, "GPRS_RESET"))
    BY <1>7
  <1> HIDE DEF Fine
  <1>c. /\ Fine(Rule("GPS_USART_ECHO_ON", {"OK"}, "INIT"))
        /\ Fine(Rule("AT_QBTPWR", {"AT+QBTPWR", "OK"}, "AT_QBTVISB"))
        /\ Fine(Rule("AT_QBTVISB", {"AT+QBTVISB", "OK"}, "AT_QBTGATSREG"))
        /\ Fine(Rule("AT_QBTGATSREG", {"AT+QBTGATSREG", "OK"}, "AT_QBTGATSL"))
        /\ Fine(Rule("AT_QBTGATSREG", {"+CME ERROR: 100"}, "PIN_STATUS_CHECK"))
        /\ Fine(Rule("AT_QBTGATSL", {"AT+QBTGATSL", "OK"}, "PIN_STATUS_CHECK"))
        /\ Fine(Rule("AT_QBTGATSL", {"AT+QBTGATSL", "+CME ERROR: 100"}, "PIN_STATUS_CHECK"))
        /\ Fine(Rule("PIN_STATUS_CHECK", {"+CPIN: READY", "OK"}, "GET_SIM_IMSI"))
        /\ Fine(Rule("PIN_STATUS_CHECK", {"+CPIN: SIM PIN", "OK"}, "ENTER_PIN"))
        /\ Fine(Rule("PIN_STATUS_CHECK", {"ERROR"}, "PIN_STATUS_CHECK"))
        /\ Fine(Rule("ENTER_PIN", {"AT+CPIN=", "OK"}, "PIN_STATUS_CHECK"))
        /\ Fine(Rule("ENTER_PIN", {"ERROR"}, "PIN_STATUS_CHECK"))
        /\ Fine(Rule("GET_SIM_IMSI", {"OK"}, "SIGNAL_QUALITY_CHECK"))
        /\ Fine(Rule("SIGNAL_QUALITY_CHECK", {"+CSQ: 99", "OK"}, "SIGNAL_QUALITY_CHECK"))
        /\ Fine(Rule("SIGNAL_QUALITY_CHECK", {"+CSQ: n", "OK"}, "REGISTRATION_CHECK"))
        /\ Fine(Rule("REGISTRATION_CHECK", {"+CREG: not registered", "OK"}, "SIGNAL_QUALITY_CHECK"))
        /\ Fine(Rule("REGISTRATION_CHECK", {"ERROR"}, "INIT"))
        /\ Fine(Rule("REGISTRATION_CHECK", {"+CREG: registered", "OK"}, "GPRS_ATTACH_CHECK"))
        /\ Fine(Rule("GPRS_ATTACH_CHECK", {"+CGATT: 0", "OK"}, "GPRS_ATTACH_CHECK"))
        /\ Fine(Rule("GPRS_ATTACH_CHECK", {"+CGATT: 1", "OK"}, "SMS_TEXT_MODE"))
        /\ Fine(Rule("SMS_TEXT_MODE", {"OK"}, "SMS_CHARACTER_SET"))
        /\ Fine(Rule("SMS_CHARACTER_SET", {"OK"}, "SET_CONTEXT"))
    BY <1>1, <1>2, <1>a
  <1>d. /\ Fine(Rule("MULTIPLE_CONNECTIONS_OFF", {"AT+QIMUX", "OK"}, "SET_MODEM_MODE"))
        /\ Fine(Rule("SET_MODEM_MODE", {"AT+QIMODE=0", "OK"}, "USE_DNS"))
        /\ Fine(Rule("USE_DNS", {"AT+QIDNSIP", "OK"}, "SET_RECEIVE_MODE"))
        /\ Fine(Rule("SET_RECEIVE_MODE", {"AT+QINDI=1", "OK"}, "CONTROL_WAIT_FOR_CONNECT"))
    BY <1>3, <1>4, <1>a
  <1>8. Fine(rule)
    BY <1>b, <1>c, <1>d DEF BootRules
  <1>9. \A from, needs, next : /\ Rule(from, needs, next).from = from
                               /\ Rule(from, needs, next).needs = needs
                               /\ Rule(from, needs, next).next = next
    BY DEF Rule
  <1>10. QED
    BY <1>8, <1>9 DEF Fine

LEMMA BootTurns ==
    ASSUME QueuesOK, Init_AT \/ Configure \/ ControlWaitForConnect
    PROVE  Turn
  <1>1. CASE Skip
    BY <1>1, SkipTurns
  <1>2. CASE Init_AT
    <2>1. CASE /\ EnterWith("AT_QBTPWR")
               /\ UNCHANGED <<bufferVars, allAcked, ackQueryRetryNo, connected, smsVars,
                              pulse, rxOn, faults>>
      <3>1. state = "INIT" /\ Plain
        BY <1>2, <2>1, AtIs DEF Init_AT, Plain, smsVars
      <3>2. Moves(EarlyBoot, EarlyBoot \cup {"SET_CONTEXT"})
        BY <2>1, <3>1, EnterWithReads DEF Moves, EarlyBoot
      <3>3. QED
        BY <2>1, <3>1, <3>2, EnterWithReads DEF Turn, Step, Boots
    <2>2. QED
      BY <1>1, <1>2, <2>1 DEF Init_AT
  <1>3. CASE Configure
    <2>1. CASE \E rule \in BootRules : rule.from = state /\ Satisfied(rule) /\ Enter(rule.next)
      <3>1. PICK rule \in BootRules : rule.from = state /\ Satisfied(rule) /\ Enter(rule.next)
        BY <2>1
      <3>2. /\ Reads /\ state' = rule.next /\ seen' = {} /\ lines' = Rest /\ Enters(state')
            /\ UNCHANGED <<link, power, smsAnswered>> /\ Plain
        BY <3>1, EnterReads
      <3>0. Leads(rule.from, rule.needs, rule.next)
        BY <3>1, RulesLead
      <3>3. CASE rule.from \in EarlyBoot /\ rule.next \in EarlyBoot \cup {"SET_CONTEXT"}
        BY <3>1, <3>2, <3>3 DEF Turn, Step, Boots, Moves
      <3>4. CASE rule.from = "SET_CONTEXT" /\ rule.next = "APN_USER_PASSWD_INPUT"
                 /\ "AT+QIFGCNT=0" \in rule.needs
        <4>1. Hear(Context)
          BY <3>1, <3>4 DEF Satisfied, Hear, Context
        <4>2. QED
          BY <3>1, <3>2, <3>4, <4>1 DEF Turn, Step, Boots, Moves
      <3>5. CASE rule.from = "APN_USER_PASSWD_INPUT" /\ rule.next = "MULTIPLE_CONNECTIONS_OFF"
                 /\ "AT+QICSGP" \in rule.needs
        <4>1. Hear(Apn)
          BY <3>1, <3>5 DEF Satisfied, Hear, Apn
        <4>2. QED
          BY <3>1, <3>2, <3>5, <4>1 DEF Turn, Step, Boots, Moves
      <3>6. CASE rule.from = "APN_USER_PASSWD_INPUT" /\ rule.next = "GPRS_RESET"
        BY <3>1, <3>2, <3>6 DEF Turn, Step, GivesUp, Plain, ShutDownStates
      <3>7. CASE rule.from \in LateBoot /\ rule.next \in LateBoot \cup {"CONTROL_WAIT_FOR_CONNECT"}
        BY <3>1, <3>2, <3>7 DEF Turn, Step, Boots, Moves
      <3>8. QED
        BY <3>0, <3>3, <3>4, <3>5, <3>6, <3>7 DEF Leads
    <2>2. QED
      BY <1>1, <1>3, <2>1 DEF Configure
  <1>4. CASE ControlWaitForConnect
    <2>1. CASE state = "CONTROL_WAIT_FOR_CONNECT" /\ Enter("CHECK_CONNECTION")
      BY <2>1, EnterReads DEF Turn, Step, Boots, Moves
    <2>2. QED
      BY <1>1, <1>4, <2>1, AtIs DEF ControlWaitForConnect
  <1>5. QED
    BY <1>2, <1>3, <1>4

(* A transition that only transmits. *)
LEMMA MoveTurns ==
    ASSUME QueuesOK, NEW next, Enter(next), NEW from, NEW to, state \in from, next \in to,
           Moves(from, to) /\ Plain => Step
    PROVE  Turn
  BY EnterReads DEF Turn, Moves

LEMMA ClosesTurn ==
    ASSUME QueuesOK, state \in {"CONNECT_TO_SERVER"} \cup Busy, Enter("CLOSE_AND_RECONNECT")
    PROVE  Turn
  <1>1. Moves({"CONNECT_TO_SERVER"} \cup Busy, {"CLOSE_AND_RECONNECT"}) /\ Plain => Step
    BY DEF Step, Connects
  <1>2. QED
    BY <1>1, MoveTurns

LEMMA PauseTurns ==
    ASSUME QueuesOK, state \in NoOk \cup {"SLEEP", "WAKE", "CANCEL_SEND"},
           NEW next \in Pausing, Enter(next)
    PROVE  Turn
  <1>1. Moves(NoOk \cup {"SLEEP", "WAKE", "CANCEL_SEND"}, Pausing) /\ Plain => Step
    BY DEF Step, Exchanges
  <1>2. QED
    BY <1>1, MoveTurns

LEMMA NextTurns ==
    ASSUME QueuesOK, state \in NoOk, NEW next \in NoOk \cup OneOk, Enter(next)
    PROVE  Turn
  <1>1. Moves(NoOk, NoOk \cup OneOk) /\ Plain => Step
    BY DEF Step, Exchanges
  <1>2. QED
    BY <1>1, MoveTurns

LEMMA AnsweredTurns ==
    ASSUME QueuesOK, state \in OneOk, Heard("OK"), NEW next \in NoOk, Enter(next)
    PROVE  Turn
  <1>1. Hear(OkAnswer)
    BY DEF Hear, OkAnswer
  <1>2. Moves(OneOk, NoOk) /\ Plain => Step
    BY <1>1 DEF Step, Exchanges, Plain
  <1>3. QED
    BY <1>2, MoveTurns

LEMMA DataStateNames ==
    /\ DataStates = {"NETWORK_BEGIN_SEND", "SLEEP", "WAKE", "CHECK_CONNECTION_PRE_SEND",
                     "NETWORK_PREPARE_SEND", "NETWORK_DECLARE_READ", "CANCEL_SEND",
                     "NETWORK_SEND", "NETWORK_ACK_CHECK", "NETWORK_ACK_CHECK_PARSE",
                     "NETWORK_CHECK_RECEIVE", "NETWORK_BEGIN_RECEIVE", "NETWORK_RECEIVE",
                     "SMS_BEGIN_SEND", "SMS_SEND_SINGLE_NUMBER", "SMS_SEND_SINGLE_BODY",
                     "SMS_SEND_SINGLE_REMOVE", "NETWORK_GPS_USART_ECHO_OFF"}
    /\ DataStates = OneOk \cup NoOk \cup {"SLEEP", "WAKE", "CHECK_CONNECTION_PRE_SEND", "CANCEL_SEND"}
  BY DEF DataStates, SendStates, BatchStates, ReceiveStates, SmsStates, OneOk, NoOk

LEMMA LinkTurns ==
    ASSUME QueuesOK,
           \/ CloseAndReconnect \/ CloseDelay \/ CheckConnection \/ ConnectToServer \/ EchoOff
           \/ CheckConnectionPreSend
    PROVE  Turn
  <1>1. CASE Skip
    BY <1>1, SkipTurns
  <1>2. CASE CloseAndReconnect
    <2>1. CASE /\ Answered("AT+QICLOSE")
               /\ Goto("CLOSE_DELAY") /\ OnDisconnected /\ QirdiRule
               /\ UNCHANGED <<counterVars, smsVars, chipIn, pulse, rxOn, faults>>
      <3>1. Hear(Closing)
        BY <2>1 DEF Answered, Hear, Closing
      <3>2. state = "CLOSE_AND_RECONNECT"
        BY <1>2, AtIs DEF CloseAndReconnect
      <3>3. QED
        BY <2>1, <3>1, <3>2, GotoReads DEF Turn, Step, Connects, Moves, Enters, smsVars
    <2>2. QED
      BY <1>1, <1>2, <2>1 DEF CloseAndReconnect
  <1>3. CASE CloseDelay
    <2>1. Enters(state')
      BY <1>3, EntrySent DEF CloseDelay
    <2>2. QED
      BY <1>3, <2>1 DEF CloseDelay, Turn, Step, Connects, Plain, Reads, DriverFrame, linkVars,
         netVars, smsVars
  <1>4. ASSUME state \in Querying, Heard("STATE: other"), Enter("CONNECT_TO_SERVER") PROVE Turn
    <2>1. Moves(Querying, {"CONNECT_TO_SERVER"}) /\ Plain => Step
      BY <1>4 DEF Step, Connects
    <2>2. QED
      BY <1>4, <2>1, MoveTurns
  <1>5. CASE CheckConnection
    <2>1. state = "CHECK_CONNECTION" /\ state \in Querying
      BY <1>5, AtIs DEF CheckConnection, QueryState, Querying
    <2>2. ASSUME Heard("STATE: CONNECT OK"), Enter("NETWORK_GPS_USART_ECHO_OFF") PROVE Turn
      <3>1. Moves({"CHECK_CONNECTION"}, {"NETWORK_GPS_USART_ECHO_OFF"}) /\ Plain => Step
        BY <2>2 DEF Step, Connects, FindsLink
      <3>2. QED
        BY <2>1, <2>2, <3>1, EnterReads DEF Turn, Moves
    <2>3. QED
      BY <1>1, <1>4, <1>5, <2>1, <2>2 DEF CheckConnection, QueryState
  <1>6. CASE CheckConnectionPreSend
    <2>1. state = "CHECK_CONNECTION_PRE_SEND" /\ state \in Querying
      BY <1>6, AtIs DEF CheckConnectionPreSend, QueryState, Querying
    <2>2. ASSUME Heard("STATE: CONNECT OK"), EnterPrepare PROVE Turn
      <3>1. /\ Reads /\ state' = "NETWORK_PREPARE_SEND" /\ seen' = {} /\ lines' = Rest
            /\ UNCHANGED <<link, power, smsAnswered>> /\ Plain
        BY <2>2, GotoReads DEF EnterPrepare, Plain, smsVars
      <3>2. FindsLink
        BY <2>1, <3>1 DEF FindsLink, Moves
      <3>3. Step
        BY <2>2, <3>1, <3>2 DEF Step, Connects
      <3>4. Enters(state')
        <4>1. CASE Transmit(<< >>)
          BY <4>1, NothingSent DEF Enters
        <4>2. CASE Transmit(<<Command("AT+QISEND", << >>)>>)
          <5>1. "AT+QISEND" \in Entry(state')
            BY <3>1 DEF Entry, BootStates
          <5>2. QED
            BY <4>2, <5>1 DEF Enters
        <4>3. QED
          BY <2>2, <4>1, <4>2 DEF EnterPrepare
      <3>5. QED
        BY <3>1, <3>3, <3>4 DEF Turn
    <2>3. QED
      BY <1>1, <1>4, <1>6, <2>1, <2>2 DEF CheckConnectionPreSend, QueryState
  <1>7. CASE ConnectToServer
    <2>1. state = "CONNECT_TO_SERVER"
      BY <1>7, AtIs DEF ConnectToServer
    <2>2. CASE /\ Heard("OK") /\ (Heard("CONNECT OK") \/ Heard("ALREADY CONNECT"))
               /\ EnterWith("NETWORK_GPS_USART_ECHO_OFF")
               /\ OnConnected
               /\ UNCHANGED <<bufferVars, counterVars, smsVars, pulse, rxOn, faults>>
      <3>1. Hear(OpenAnswer)
        BY <2>2 DEF Hear, OpenAnswer
      <3>2. Moves({"CONNECT_TO_SERVER"}, {"NETWORK_GPS_USART_ECHO_OFF"}) /\ connected'
            /\ UNCHANGED <<rxOn, smsRemoved>>
        BY <2>1, <2>2, EnterWithReads DEF Moves, OnConnected, smsVars
      <3>3. QED
        BY <2>2, <3>1, <3>2, EnterWithReads DEF Turn, Step, Connects
    <2>3. CASE Enter("CLOSE_AND_RECONNECT")
      BY <2>1, <2>3, ClosesTurn
    <2>4. QED
      BY <1>1, <1>7, <2>2, <2>3 DEF ConnectToServer
  <1>8. CASE EchoOff
    <2>1. state \in OneOk
      BY <1>8, AtIs DEF EchoOff, OneOk
    <2>2. "NETWORK_CHECK_RECEIVE" \in NoOk
      BY DEF NoOk
    <2>3. CASE Answered("AT+QISDE=0") /\ Enter("NETWORK_CHECK_RECEIVE")
      BY <2>1, <2>2, <2>3, AnsweredTurns DEF Answered
    <2>4. QED
      BY <1>1, <1>8, <2>3 DEF EchoOff
  <1>9. QED
    BY <1>2, <1>3, <1>5, <1>6, <1>7, <1>8

LEMMA StateGroups ==
    /\ {"NETWORK_CHECK_RECEIVE", "NETWORK_BEGIN_SEND", "NETWORK_PREPARE_SEND", "NETWORK_SEND",
        "NETWORK_ACK_CHECK_PARSE", "NETWORK_DECLARE_READ", "SMS_BEGIN_SEND",
        "SMS_SEND_SINGLE_NUMBER", "SMS_SEND_SINGLE_REMOVE"} \subseteq NoOk
    /\ {"NETWORK_GPS_USART_ECHO_OFF", "NETWORK_BEGIN_RECEIVE", "NETWORK_RECEIVE",
        "NETWORK_ACK_CHECK", "SMS_SEND_SINGLE_BODY"} \subseteq OneOk
    /\ {"CHECK_CONNECTION", "CHECK_CONNECTION_PRE_SEND", "SLEEP", "WAKE", "CANCEL_SEND"}
        \subseteq Pausing
    /\ NoOk \cup OneOk \cup {"SLEEP", "WAKE", "CANCEL_SEND"} \subseteq {"CONNECT_TO_SERVER"} \cup Busy
  BY DEF NoOk, OneOk, Pausing, Busy

LEMMA ReceiveTurns ==
    ASSUME QueuesOK, CheckReceive \/ BeginReceive \/ Receive
    PROVE  Turn
  <1>1. CASE Skip
    BY <1>1, SkipTurns
  <1>2. CASE CheckReceive
    <2>1. state \in NoOk
      BY <1>2, AtIs DEF CheckReceive, NoOk
    <2>2. PICK next \in {"NETWORK_BEGIN_RECEIVE", "NETWORK_BEGIN_SEND"} : Enter(next)
      BY <1>2 DEF CheckReceive
    <2>3. next \in NoOk \cup OneOk
      BY <2>2 DEF NoOk, OneOk
    <2>4. QED
      BY <2>1, <2>2, <2>3, NextTurns
  <1>3. CASE BeginReceive
    <2>1. state = "NETWORK_BEGIN_RECEIVE"
      BY <1>3, AtIs DEF BeginReceive
    <2>2. state \in OneOk /\ state \in {"CONNECT_TO_SERVER"} \cup Busy
      BY <2>1, StateGroups
    <2>3. CASE Enter("NETWORK_RECEIVE")
      <3>1. Transmit(<< >>)
        <4>1. EntryCommand("NETWORK_RECEIVE") = << >>
          BY DEF EntryCommand, LinkCommand, BootStates
        <4>2. QED
          BY <2>3, <4>1 DEF Enter, EnterWith
      <3>2. UNCHANGED chipIn
        BY <3>1, NothingSent
      <3>3. QED
        BY <2>1, <2>3, <3>2, EnterReads DEF Turn, Step, Exchanges, Moves
    <2>4. CASE /\ Answered("AT+QIRD")
               /\ Goto("NETWORK_BEGIN_SEND") /\ UNCHANGED chipIn
               /\ UNCHANGED <<bufferVars, counterVars, connected, smsVars, pulse, rxOn, faults>>
      <3>1. Hear(OkAnswer)
        BY <2>4 DEF Answered, Hear, OkAnswer
      <3>2. Moves(OneOk, NoOk) /\ Plain
        BY <2>2, <2>4, GotoReads, StateGroups DEF Moves, Plain, smsVars
      <3>3. Step
        BY <3>1, <3>2 DEF Step, Exchanges, Plain
      <3>4. QED
        BY <2>4, <3>3, GotoReads DEF Turn, Enters
    <2>5. CASE Enter("CLOSE_AND_RECONNECT")
      BY <2>2, <2>5, ClosesTurn
    <2>6. QED
      BY <1>1, <1>3, <2>3, <2>4, <2>5 DEF BeginReceive
  <1>4. CASE Receive
    <2>1. state \in OneOk
      BY <1>4, AtIs DEF Receive, OneOk
    <2>2. CASE Heard("OK") /\ Enter("NETWORK_CHECK_RECEIVE")
      BY <2>1, <2>2, AnsweredTurns, StateGroups
    <2>3. QED
      BY <1>1, <1>4, <2>2 DEF Receive
  <1>5. QED
    BY <1>2, <1>3, <1>4

LEMMA BeginTurns ==
    ASSUME QueuesOK, BeginSend \/ Sleep \/ Wake
    PROVE  Turn
  <1>1. CASE Skip
    BY <1>1, SkipTurns
  <1>2. state \in NoOk \cup {"SLEEP", "WAKE", "CANCEL_SEND"} /\ state \in {"CONNECT_TO_SERVER"} \cup Busy
    <2>1. state \in {"NETWORK_BEGIN_SEND", "SLEEP", "WAKE"}
      BY AtIs DEF BeginSend, Sleep, Wake
    <2>2. QED
      BY <2>1, StateGroups
  <1>3. CASE Enter("CLOSE_AND_RECONNECT")
    BY <1>2, <1>3, ClosesTurn
  <1>4. ASSUME NEW next \in {"CHECK_CONNECTION_PRE_SEND", "SLEEP", "WAKE"}, Enter(next) PROVE Turn
    BY <1>2, <1>4, StateGroups, PauseTurns
  <1>5. QED
    BY <1>1, <1>3, <1>4 DEF BeginSend, Sleep, Wake

LEMMA EnterSendTurns ==
    ASSUME QueuesOK, state = "NETWORK_PREPARE_SEND", EnterSend PROVE Turn
  <1>1. /\ Reads /\ state' = "NETWORK_SEND" /\ seen' = {} /\ lines' = Rest
        /\ UNCHANGED <<link, power, smsAnswered>> /\ Plain
    BY GotoReads DEF EnterSend, Plain, smsVars
  <1>2. Enters(state')
    <2>1. "data" \in Entry(state')
      BY <1>1 DEF Entry, BootStates
    <2>2. QED
      BY <2>1 DEF EnterSend, Enters
  <1>3. Moves(NoOk, NoOk \cup OneOk)
    BY <1>1, StateGroups DEF Moves
  <1>4. QED
    BY <1>1, <1>2, <1>3 DEF Turn, Step, Exchanges

LEMMA CountingTurns ==
    ASSUME QueuesOK, state \in NoOk, NEW next, NEW count, EnterCounting(next, count),
           next \in {"CANCEL_SEND", "NETWORK_ACK_CHECK"}
    PROVE  Turn
  <1>1. EnterWith(next) /\ Plain
    BY DEF EnterCounting, Plain, smsVars
  <1>2. Moves(NoOk, NoOk \cup OneOk) \/ Moves(NoOk \cup {"SLEEP", "WAKE", "CANCEL_SEND"}, Pausing)
    BY <1>1, EnterWithReads, StateGroups DEF Moves
  <1>3. QED
    BY <1>1, <1>2, EnterWithReads DEF Turn, Step, Exchanges

LEMMA SendTurns ==
    ASSUME QueuesOK, PrepareSend \/ Send \/ AckCheck \/ AckCheckParse \/ DeclareRead \/ CancelSend
    PROVE  Turn
  <1>1. CASE Skip
    BY <1>1, SkipTurns
  <1>2. state \in {"NETWORK_PREPARE_SEND", "NETWORK_SEND", "NETWORK_ACK_CHECK",
                   "NETWORK_ACK_CHECK_PARSE", "NETWORK_DECLARE_READ", "CANCEL_SEND"}
    BY AtIs DEF PrepareSend, Send, AckCheck, AckCheckParse, DeclareRead, CancelSend
  <1>3. state \in {"CONNECT_TO_SERVER"} \cup Busy
    BY <1>2, StateGroups
  <1>4. CASE Enter("CLOSE_AND_RECONNECT")
    BY <1>3, <1>4, ClosesTurn
  <1>5. CASE state # "NETWORK_ACK_CHECK" /\ Enter("CHECK_CONNECTION")
    <2>1. state \in NoOk \cup {"SLEEP", "WAKE", "CANCEL_SEND"} /\ "CHECK_CONNECTION" \in Pausing
      BY <1>2, <1>5, StateGroups
    <2>2. QED
      BY <1>5, <2>1, PauseTurns
  <1>6. CASE PrepareSend
    <2>1. state = "NETWORK_PREPARE_SEND"
      BY <1>6, AtIs DEF PrepareSend
    <2>2. CASE EnterSend
      BY <2>1, <2>2, EnterSendTurns
    <2>3. QED
      BY <1>1, <1>4, <1>5, <1>6, <2>1, <2>2 DEF PrepareSend
  <1>7. CASE Send
    <2>1. state \in NoOk
      BY <1>7, AtIs, StateGroups DEF Send
    <2>2. CASE EnterCounting("NETWORK_ACK_CHECK", 0)
      BY <2>1, <2>2, CountingTurns
    <2>3. QED
      BY <1>1, <1>4, <1>7, <2>2 DEF Send
  <1>8. CASE AckCheck
    <2>1. state \in OneOk
      BY <1>8, AtIs, StateGroups DEF AckCheck
    <2>2. CASE /\ Answered("AT+QISACK")
               /\ EnterWith("NETWORK_ACK_CHECK_PARSE")
               /\ UNCHANGED <<bufferVars, ackQueryRetryNo, atQueryRetryNo, connected, smsVars,
                              pulse, rxOn, faults>>
      <3>1. Hear(OkAnswer)
        BY <2>2 DEF Answered, Hear, OkAnswer
      <3>2. Moves(OneOk, NoOk) /\ Plain
        BY <2>1, <2>2, EnterWithReads, StateGroups DEF Moves, Plain, smsVars
      <3>3. Step
        BY <3>1, <3>2 DEF Step, Exchanges, Plain
      <3>4. QED
        BY <2>2, <3>3, EnterWithReads DEF Turn
    <2>3. QED
      BY <1>1, <1>8, <2>2 DEF AckCheck
  <1>9. CASE AckCheckParse
    <2>1. state \in NoOk
      BY <1>9, AtIs, StateGroups DEF AckCheckParse
    <2>2. ASSUME NEW next \in {"CANCEL_SEND", "NETWORK_ACK_CHECK"}, NEW count,
                 EnterCounting(next, count)
          PROVE  Turn
      BY <2>1, <2>2, CountingTurns
    <2>3. CASE EnterDeclare
      <3>1. Moves(NoOk, NoOk \cup OneOk) /\ Plain
        BY <2>1, <2>3, GotoReads, StateGroups DEF EnterDeclare, Moves, Plain, smsVars
      <3>2. QED
        BY <2>3, <3>1, GotoReads DEF EnterDeclare, Turn, Enters, Step, Exchanges
    <2>4. QED
      BY <1>4, <1>9, <2>2, <2>3 DEF AckCheckParse
  <1>10. CASE DeclareRead
    <2>1. state \in NoOk
      BY <1>10, AtIs, StateGroups DEF DeclareRead
    <2>2. CASE Enter("SMS_BEGIN_SEND")
      BY <2>1, <2>2, NextTurns, StateGroups
    <2>3. QED
      BY <1>4, <1>10, <2>2 DEF DeclareRead
  <1>11. CASE CancelSend
    <2>1. state = "CANCEL_SEND"
      BY <1>11, AtIs DEF CancelSend
    <2>2. CASE /\ EnterWith("GPRS_RESET") /\ OnDisconnected
               /\ UNCHANGED <<counterVars, smsVars, pulse, rxOn, faults>>
      <3>1. GivesUp
        BY <2>1, <2>2, EnterWithReads DEF GivesUp, ShutDownStates, smsVars
      <3>2. QED
        BY <2>2, <3>1, EnterWithReads DEF Turn, Step
    <2>3. QED
      BY <1>1, <1>5, <1>11, <2>1, <2>2 DEF CancelSend
  <1>12. QED
    BY <1>6, <1>7, <1>8, <1>9, <1>10, <1>11

LEMMA SmsTurns ==
    ASSUME QueuesOK, smsCollection \in Nat, smsRemoved \in Nat,
           SmsBeginSend \/ SmsSendSingleNumber \/ SmsSendSingleBody \/ SmsSendSingleRemove
    PROVE  Turn
  <1>1. CASE Skip
    BY <1>1, SkipTurns
  <1>2. CASE SmsBeginSend \/ SmsSendSingleNumber \/ SmsSendSingleRemove
    <2>1. state \in {"SMS_BEGIN_SEND", "SMS_SEND_SINGLE_NUMBER", "SMS_SEND_SINGLE_REMOVE"}
      BY <1>2, AtIs DEF SmsBeginSend, SmsSendSingleNumber, SmsSendSingleRemove
    <2>2. state \in NoOk
      BY <2>1, StateGroups
    <2>3. CASE Enter("CHECK_CONNECTION")
      BY <2>2, <2>3, PauseTurns, StateGroups
    <2>4. ASSUME NEW next \in {"SMS_SEND_SINGLE_NUMBER", "SMS_SEND_SINGLE_BODY", "SMS_BEGIN_SEND"},
                 Enter(next)
          PROVE  Turn
      BY <2>2, <2>4, NextTurns, StateGroups
    <2>5. QED
      BY <1>2, <2>3, <2>4 DEF SmsBeginSend, SmsSendSingleNumber, SmsSendSingleRemove
  <1>3. CASE SmsSendSingleBody
    <2>1. state = "SMS_SEND_SINGLE_BODY"
      BY <1>3, AtIs DEF SmsSendSingleBody
    <2>2. CASE /\ Answered("AT+CMGS") \/ line = "+CMS ERROR"
               /\ EnterWith("SMS_SEND_SINGLE_REMOVE")
               /\ RemoveSms
               /\ UNCHANGED <<bufferVars, counterVars, connected, pulse, rxOn, faults>>
      <3>1. Hear(OkAnswer)
        BY <2>2 DEF Answered, Hear, Heard, OkAnswer
      <3>2. Moves(OneOk, NoOk) /\ UNCHANGED <<rxOn, connected>>
        BY <2>1, <2>2, EnterWithReads, StateGroups DEF Moves
      <3>3. smsRemoved' \in {smsRemoved, smsRemoved + 1}
        <4>1. RemoveSms
          BY <2>2
        <4>2. QED
          BY <4>1 DEF RemoveSms
      <3>4. Exchanges
        BY <2>1, <3>1, <3>2, <3>3 DEF Exchanges
      <3>5. QED
        BY <2>2, <3>4, EnterWithReads DEF Turn, Step
    <2>3. QED
      BY <1>1, <1>3, <2>2 DEF SmsSendSingleBody
  <1>4. QED
    BY <1>2, <1>3

LEMMA OffTurns ==
    ASSUME QueuesOK, TurnOff \/ ShutDownStageStart \/ ShutDownStagePowerOff \/ ShutDown
    PROVE  Turn
  <1>1. CASE Skip
    BY <1>1, SkipTurns
  <1>2. CASE Enter("SHUT_DOWN_STAGE_START") \/ Enter("SHUT_DOWN")
    <2>1. PICK next \in ShutDownStates : Enter(next)
      BY <1>2 DEF ShutDownStates
    <2>2. QED
      BY <2>1, EnterReads DEF Turn, Step, TurnsOff, Plain
  <1>3. CASE EnterPulsing("SHUT_DOWN_STAGE_POWER_OFF", FALSE)
    BY <1>3, EnterPulsingReads DEF Turn, Step, TurnsOff, ShutDownStates
  <1>4. QED
    BY <1>1, <1>2, <1>3 DEF TurnOff, ShutDownStageStart, ShutDownStagePowerOff, ShutDown

LEMMA TimerTurns == ASSUME QueuesOK, TimerExpires PROVE Turn
  <1>1. CASE EnterDecide
    BY <1>1, EnterDecideReads
  <1>2. ASSUME NEW next, next = AfterTimer(state), next # "RESET_STAGE_DECIDE", EnterWith(next),
               UNCHANGED <<bufferVars, allAcked, ackQueryRetryNo, connected, smsVars, pulse, rxOn>>
        PROVE  Turn
    <2>1. /\ Reads /\ state' = next /\ seen' = {} /\ lines' = Rest /\ Enters(state')
          /\ UNCHANGED <<link, power, smsAnswered>> /\ Plain
      BY <1>2, EnterWithReads DEF Plain, smsVars
    <2>2. CASE OwnTimerFirst(state)
      <3>1. state \in OwnTimers /\ next = OwnTimer(state)
        BY <1>2, <2>2 DEF OwnTimerFirst, AfterTimer
      <3>2. \/ state = "INIT" /\ next = "INIT"
            \/ state = "WAKE" /\ next = "WAKE"
            \/ state = "NETWORK_BEGIN_SEND" /\ next = "NETWORK_BEGIN_SEND"
            \/ state = "NETWORK_SEND" /\ next = "CANCEL_SEND"
        BY <1>2, <3>1 DEF OwnTimers, OwnTimer
      <3>3. \/ Moves(EarlyBoot, EarlyBoot \cup {"SET_CONTEXT"})
            \/ Moves(NoOk \cup {"SLEEP", "WAKE", "CANCEL_SEND"}, Pausing)
            \/ Moves(NoOk, NoOk \cup OneOk)
        BY <2>1, <3>2, StateGroups DEF Moves, EarlyBoot
      <3>4. QED
        BY <2>1, <3>3 DEF Turn, Step, Boots, Exchanges
    <2>3. CASE ~OwnTimerFirst(state)
      <3>1. next = "GPRS_RESET" /\ state \notin Suppressing /\ ~CanProceed
        BY <1>2, <2>3 DEF TimerExpires, Timed, AfterTimer
      <3>2. state # "SHUT_DOWN_STAGE_START"
        BY <3>1 DEF CanProceed
      <3>3. state \notin ShutDownStates
        BY <3>1, <3>2 DEF Suppressing, ShutDownStates
      <3>4. OwnTimerFirst("GPRS_RESET")
        BY DEF OwnTimerFirst, OwnTimers, OwnDelay, HARD_RESET_DELAY_MS, SOFT_RESET_DELAY_MS
      <3>5. GivesUp
        BY <2>1, <2>3, <3>1, <3>3, <3>4 DEF GivesUp, Plain
      <3>6. QED
        BY <2>1, <3>5 DEF Turn, Step
    <2>4. QED
      BY <2>2, <2>3
  <1>3. QED
    BY <1>1, <1>2 DEF TimerExpires

LEMMA DriverTurns ==
    ASSUME QueuesOK, smsCollection \in Nat, smsRemoved \in Nat, Driver \/ TimerExpires
    PROVE  Turn
  BY ResetTurns, BootTurns, LinkTurns, ReceiveTurns, BeginTurns, SendTurns, SmsTurns, OffTurns,
     TimerTurns DEF Driver

(* What the states transmit. *)
LEMMA BootTexts ==
    /\ \A s \in BootStates : BootCommand(s) \in SimpleCommands
    /\ \A s \in BootStates : BootCommand(s) = "AT+QIFGCNT=0" => s = "SET_CONTEXT"
    /\ \A s \in BootStates : BootCommand(s) = "AT+QICSGP" => s = "APN_USER_PASSWD_INPUT"
  <1>1. \A s \in BootStates : BootCommand(s) \in SimpleCommands
    BY DEF SimpleCommands
  <1>2. QED
    BY <1>1 DEF BootStates, BootCommand

LEMMA LinkTexts ==
    ASSUME NEW s
    PROVE  /\ LinkCommand(s) = "AT+CIPSHUT" => s = "GPRS_RESET"
           /\ LinkCommand(s) = "AT+QISTATE" => s \in Querying
           /\ LinkCommand(s) = "AT+QICLOSE" => s = "CLOSE_AND_RECONNECT"
           /\ LinkCommand(s) = "AT+QIOPEN" => s = "CONNECT_TO_SERVER"
           /\ LinkCommand(s) # "AT+QIFGCNT=0" /\ LinkCommand(s) # "AT+QICSGP"
  BY DEF LinkCommand, NoCommand, Querying

LEMMA EntryTexts ==
    ASSUME NEW s
    PROVE  /\ Entry(s) \cap ShutAsk # {} => s \in {"GPRS_RESET"}
           /\ Entry(s) \cap StateAsk # {} => s \in Querying
           /\ Entry(s) \cap Closing # {} => s \in {"CLOSE_AND_RECONNECT"}
           /\ Entry(s) \cap OpenAsk # {} => s \in {"CONNECT_TO_SERVER"}
           /\ Entry(s) \cap Context # {} => s \in {"SET_CONTEXT"}
           /\ Entry(s) \cap Apn # {} => s \in {"APN_USER_PASSWD_INPUT"}
  <1>1. CASE s \in BootStates
    <2>1. Entry(s) = {BootCommand(s)}
      BY <1>1 DEF Entry
    <2>2. /\ "AT+CIPSHUT" \notin SimpleCommands /\ "AT+QISTATE" \notin SimpleCommands
          /\ "AT+QICLOSE" \notin SimpleCommands /\ "AT+QIOPEN" \notin SimpleCommands
      BY SimpleNames
    <2>3. QED
      BY <1>1, <2>1, <2>2, BootTexts DEF ShutAsk, StateAsk, Closing, OpenAsk, Context, Apn
  <1>2. CASE s \notin BootStates
    <2>1. Entry(s) \subseteq {"AT+QISEND", "data", LinkCommand(s)}
      BY <1>2 DEF Entry
    <2>2. QED
      BY <2>1, LinkTexts DEF ShutAsk, StateAsk, Closing, OpenAsk, Context, Apn
  <1>3. QED
    BY <1>1, <1>2

LEMMA QuietTexts ==
    /\ \A s \in NoOk : Entry(s) \cap OkAsk = {}
    /\ Entry("SMS_SEND_SINGLE_BODY") \cap OkAsk \subseteq SmsAsk
  <1>1. NoCommand \notin OkAsk /\ "AT+QISEND" \notin OkAsk /\ "data" \notin OkAsk /\ "AT+CMGS" \notin OkAsk
    BY SimpleNames DEF OkAsk, NoCommand
  <1>2. \A s \in NoOk : s \notin BootStates /\ LinkCommand(s) \in {NoCommand, "AT+CMGS"}
    BY DEF NoOk, BootStates, LinkCommand
  <1>3. "SMS_SEND_SINGLE_BODY" \notin BootStates
        /\ LinkCommand("SMS_SEND_SINGLE_BODY") \in {NoCommand, "sms body"}
    BY DEF BootStates, LinkCommand
  <1>4. \A s \in NoOk : Entry(s) \subseteq {"AT+QISEND", "data", NoCommand, "AT+CMGS"}
    BY <1>2 DEF Entry
  <1>5. Entry("SMS_SEND_SINGLE_BODY") \subseteq {NoCommand, "sms body"}
    BY <1>3 DEF Entry
  <1>6. QED
    BY <1>1, <1>4, <1>5 DEF SmsAsk

LEMMA SentTexts ==
    ASSUME QueuesOK, Enters(state')
    PROVE  /\ Asked' \subseteq Asked \cup Entry(state') /\ Sends
  <1>1. CASE UNCHANGED chipIn
    BY <1>1 DEF Asked, Sends
  <1>2. ASSUME NEW text \in Entry(state'), NEW data, Transmit(<<Command(text, data)>>)
        PROVE  Asked' \subseteq Asked \cup Entry(state') /\ Sends
    BY <1>2, AskedSent DEF Sends
  <1>3. QED
    BY <1>1, <1>2 DEF Enters

-----------------------------------------------------------------------------
(* Where a step of the machine begins and ends. *)

LEMMA LapArrives ==
    ASSUME Turn, Silent, Lap', ~Lap
    PROVE  \/ Moves({"RESET_STAGE_POWER_ON"}, {"INIT"})
           \/ Moves({"GPRS_RESET"}, {"GPS_USART_ECHO_ON"}) /\ Hear(ShutAnswer) /\ Hearing
  <1>1. rxOn' /\ state' \notin ShutDownStates /\ state' # "GPRS_RESET"
    BY DEF Lap, Hearing
  <1>2. ~rxOn \/ state \in ShutDownStates \/ state = "GPRS_RESET"
    BY DEF Lap, Hearing
  <1>3. ~Waits /\ ~GivesUp /\ ~TurnsOff /\ ~StartsAgain
    BY <1>1, <1>2 DEF Waits, GivesUp, TurnsOff, StartsAgain
  <1>4. CASE Powers
    <2>1. state \in {"RESET_STAGE_DECIDE", "RESET_STAGE_POWER_OFF", "RESET_STAGE_POWER_ON"}
      BY <1>4 DEF Powers, Moves
    <2>2. ~rxOn
      BY <2>1 DEF Silent
    <2>3. QED
      BY <1>1, <1>4, <2>2 DEF Powers, Plain
  <1>5. ASSUME UNCHANGED rxOn, state \notin ShutDownStates, state # "GPRS_RESET" PROVE FALSE
    BY <1>1, <1>2, <1>5
  <1>6. CASE Boots /\ Plain
    <2>1. CASE Moves({"GPRS_RESET"}, {"GPS_USART_ECHO_ON"}) /\ Hear(ShutAnswer)
      <3>1. Hearing
        BY <1>1, <1>6, <2>1 DEF Plain, Moves, Hearing, ShutDownStates
      <3>2. QED
        BY <2>1, <3>1
    <2>2. CASE state \in EarlyBoot \cup LateBoot \cup {"SET_CONTEXT", "APN_USER_PASSWD_INPUT",
                                                      "CONTROL_WAIT_FOR_CONNECT"}
      <3>1. state \notin ShutDownStates /\ state # "GPRS_RESET"
        BY <2>2 DEF EarlyBoot, LateBoot, ShutDownStates
      <3>2. QED
        BY <1>5, <1>6, <3>1 DEF Plain
    <2>3. QED
      BY <1>6, <2>1, <2>2 DEF Boots, Moves
  <1>7. CASE Connects
    <2>1. UNCHANGED rxOn
      BY <1>7 DEF Connects, Plain
    <2>2. state \in Querying \cup Busy \cup {"CONNECT_TO_SERVER", "CLOSE_AND_RECONNECT", "CLOSE_DELAY"}
      BY <1>7 DEF Connects, FindsLink, Moves, Querying
    <2>3. state \notin ShutDownStates /\ state # "GPRS_RESET"
      BY <2>2 DEF Querying, Busy, OneOk, NoOk, ShutDownStates
    <2>4. QED
      BY <1>5, <2>1, <2>3
  <1>8. CASE Exchanges
    <2>1. UNCHANGED rxOn
      BY <1>8 DEF Exchanges, Plain
    <2>2. state \in Busy
      BY <1>8 DEF Exchanges, Moves, Busy, OneOk
    <2>3. state \notin ShutDownStates /\ state # "GPRS_RESET"
      BY <2>2 DEF Busy, OneOk, NoOk, ShutDownStates
    <2>4. QED
      BY <1>5, <2>1, <2>3
  <1>9. QED
    BY <1>3, <1>4, <1>6, <1>7, <1>8 DEF Turn, Step

(* A state that waits for an answer is left when it is heard. *)
Leaves(answers) == seen' = {} /\ lines' = Rest /\ Hear(answers)

(* While the driver hears the chip it neither gives up nor starts again. *)
LapGoes ==
    \/ Waits \/ (Boots /\ Plain) \/ Connects \/ Exchanges

LEMMA LapStays == ASSUME Turn, Silent, Lap, Lap' PROVE LapGoes
  <1>1. ~GivesUp /\ ~TurnsOff /\ ~StartsAgain
    BY DEF Lap, Hearing, GivesUp, TurnsOff, StartsAgain
  <1>2. ~Powers
    <2>1. Powers => state \in {"RESET_STAGE_DECIDE", "RESET_STAGE_POWER_OFF", "RESET_STAGE_POWER_ON"}
      BY DEF Powers, Moves
    <2>2. QED
      BY <2>1 DEF Silent, Lap, Hearing
  <1>3. QED
    BY <1>1, <1>2 DEF Turn, Step, LapGoes

LEMMA BusyStates ==
    /\ Busy \cap (BootStates \cup Querying \cup {"CONNECT_TO_SERVER", "CLOSE_AND_RECONNECT",
           "CLOSE_DELAY", "CONTROL_WAIT_FOR_CONNECT", "GPRS_RESET"}) = {}
    /\ OneOk \subseteq Busy /\ NoOk \subseteq Busy /\ OneOk \cap NoOk = {}
    /\ EarlyBoot \cap LateBoot = {}
    /\ EarlyBoot \subseteq BootStates /\ LateBoot \subseteq BootStates
    /\ {"SET_CONTEXT", "APN_USER_PASSWD_INPUT"} \subseteq BootStates
    /\ {"SET_CONTEXT", "APN_USER_PASSWD_INPUT"} \cap (EarlyBoot \cup LateBoot) = {}
    /\ (Querying \cup {"CONNECT_TO_SERVER", "CLOSE_AND_RECONNECT",
           "CLOSE_DELAY", "CONTROL_WAIT_FOR_CONNECT", "GPRS_RESET"}) \cap BootStates = {}
  BY DEF Busy, OneOk, NoOk, BootStates, Querying, EarlyBoot, LateBoot

LEMMA LinkBegins ==
    /\ Connects => state \in Querying \cup Busy \cup
                      {"CONNECT_TO_SERVER", "CLOSE_AND_RECONNECT", "CLOSE_DELAY"}
    /\ Exchanges => state \in Busy
  <1>1. Connects => state \in Querying \cup Busy \cup
                      {"CONNECT_TO_SERVER", "CLOSE_AND_RECONNECT", "CLOSE_DELAY"}
    BY DEF Connects, FindsLink, Moves, Querying
  <1>2. Exchanges => state \in Busy
    BY DEF Exchanges, Moves, Busy, OneOk
  <1>3. QED
    BY <1>1, <1>2

LEMMA LeavesQuerying == ASSUME LapGoes, state \in Querying PROVE Waits \/ Leaves(StateAnswer)
  <1>1. ~Boots /\ ~Exchanges
    BY BusyStates DEF Boots, Exchanges, Moves, Querying
  <1>2. state \notin {"CONNECT_TO_SERVER"} \cup Busy \cup {"CLOSE_AND_RECONNECT", "CLOSE_DELAY"}
    BY BusyStates DEF Querying
  <1>3. CASE Connects
    <2>1. Heard("STATE: CONNECT OK") \/ Heard("STATE: other")
      BY <1>2, <1>3 DEF Connects, Moves
    <2>2. Hear(StateAnswer)
      BY <2>1 DEF Hear, StateAnswer
    <2>3. seen' = {} /\ lines' = Rest
      BY <1>2, <1>3 DEF Connects, FindsLink, Moves
    <2>4. QED
      BY <2>2, <2>3 DEF Leaves
  <1>4. QED
    BY <1>1, <1>3 DEF LapGoes

LEMMA LeavesClose ==
    ASSUME LapGoes, state = "CLOSE_AND_RECONNECT"
    PROVE  Waits \/ (Leaves(Closing) /\ state' = "CLOSE_DELAY")
  <1>1. ~Boots /\ ~Exchanges
    BY BusyStates DEF Boots, Exchanges, Moves
  <1>2. state \notin Querying \cup {"CONNECT_TO_SERVER"} \cup Busy \cup {"CLOSE_DELAY"}
    BY BusyStates DEF Querying
  <1>3. QED
    BY <1>1, <1>2 DEF LapGoes, Connects, FindsLink, Querying, Moves, Leaves

LEMMA LeavesConnect ==
    ASSUME LapGoes, state = "CONNECT_TO_SERVER"
    PROVE  \/ Waits
           \/ Leaves(OpenAnswer) /\ state' = "NETWORK_GPS_USART_ECHO_OFF" /\ connected'
           \/ state' = "CLOSE_AND_RECONNECT"
  <1>1. ~Boots /\ ~Exchanges
    BY BusyStates DEF Boots, Exchanges, Moves
  <1>2. state \notin Querying /\ state # "CLOSE_DELAY" /\ state # "CLOSE_AND_RECONNECT"
    BY DEF Querying
  <1>3. QED
    BY <1>1, <1>2 DEF LapGoes, Connects, FindsLink, Querying, Moves, Leaves

LEMMA LeavesBoot ==
    ASSUME LapGoes, state \in BootStates
    PROVE  \/ Waits
           \/ state = "SET_CONTEXT" /\ Leaves(Context) /\ state' = "APN_USER_PASSWD_INPUT"
           \/ state = "APN_USER_PASSWD_INPUT" /\ Leaves(Apn) /\ state' = "MULTIPLE_CONNECTIONS_OFF"
           \/ state \in EarlyBoot /\ state' \in EarlyBoot \cup {"SET_CONTEXT"}
           \/ state \in LateBoot /\ state' \in LateBoot \cup {"CONTROL_WAIT_FOR_CONNECT"}
  <1>1. ~Exchanges /\ ~Connects
    <2>1. state \notin Querying \cup {"CONNECT_TO_SERVER"} \cup Busy \cup {"CLOSE_DELAY", "CLOSE_AND_RECONNECT"}
      BY BusyStates
    <2>2. QED
      BY <2>1, LinkBegins
  <1>2. state # "GPRS_RESET" /\ state # "CONTROL_WAIT_FOR_CONNECT"
    BY BusyStates
  <1>3. QED
    BY <1>1, <1>2 DEF LapGoes, Boots, Moves, Leaves

LEMMA LeavesOk ==
    ASSUME LapGoes, state \in OneOk
    PROVE  \/ Waits
           \/ Leaves(OkAnswer) /\ state' \in NoOk
           \/ state' \in OneOk /\ UNCHANGED chipIn
           \/ state' = "CLOSE_AND_RECONNECT"
  <1>1. ~Boots
    BY BusyStates DEF Boots, Moves
  <1>2. state \notin Querying \cup {"CONNECT_TO_SERVER", "CLOSE_DELAY", "CLOSE_AND_RECONNECT"}
    BY BusyStates
  <1>3. CASE Connects
    BY <1>2, <1>3 DEF Connects, FindsLink, Querying, Moves
  <1>4. CASE Exchanges
    <2>1. state \notin NoOk \cup {"SLEEP", "WAKE", "CANCEL_SEND"}
      BY DEF OneOk, NoOk
    <2>2. "NETWORK_RECEIVE" \in OneOk
      BY DEF OneOk
    <2>3. QED
      BY <1>4, <2>1, <2>2 DEF Exchanges, Moves, Leaves
  <1>5. QED
    BY <1>1, <1>3, <1>4 DEF LapGoes

-----------------------------------------------------------------------------
(* The exchanges and the machine's steps. *)

(* The old lines have been read when a switched on modem is first spoken to.  *)
Drained == state = "RESET_STAGE_POWER_ON" /\ state' = "INIT" => lines = << >>

LEMMA ReadLines == ASSUME QueuesOK, Reads PROVE lines' \in Seq(Lines)
  BY LineIsRead DEF Reads, QueuesOK

LEMMA KindTurns ==
    ASSUME QueuesOK, Turn, NEW S, NEW C, NEW A, NEW B, NEW D, D \subseteq A,
           Entry(state') \cap C # {} => state' \in S,
           Ready(C, A) \/ (Waits /\ Kind(S, C, A, B, D))
    PROVE  Kind(S, C, A, B, D)'
  <1>1. Reads /\ Sends /\ Asked' \subseteq Asked \cup Entry(state')
    BY SentTexts DEF Turn
  <1>2. CASE Ready(C, A)
    <2>1. CASE state' \in S
      BY <1>1, <1>2, <2>1, ReadyIsSync, ReadLines DEF Kind
    <2>2. CASE state' \notin S
      BY <1>1, <1>2, <2>2, ReadyIsFresh DEF Kind
    <2>3. QED
      BY <2>1, <2>2
  <1>3. CASE Waits /\ state \in S /\ Kind(S, C, A, B, D)
    <2>1. Sync(C, A, B, D)'
      BY <1>1, <1>3, SyncReads DEF Kind, Waits, Turn
    <2>2. QED
      BY <1>3, <2>1 DEF Kind, Waits
  <1>4. CASE Waits /\ state \notin S /\ Kind(S, C, A, B, D)
    <2>1. Fresh(C, A)'
      BY <1>1, <1>4, ReadIsTold DEF Kind, Waits, Fresh, Asked
    <2>2. QED
      BY <1>4, <2>1 DEF Kind, Waits
  <1>5. QED
    BY <1>2, <1>3, <1>4

(* The answer is heard: nothing else is on its way. *)
LEMMA HeardLeaves ==
    ASSUME QueuesOK, NEW C, NEW A, NEW B, NEW D, Sync(C, A, B, D), NoLine \notin A, Leaves(A)
    PROVE  chipIn = << >> /\ link # "OPENING" /\ Told' \subseteq B
  <1>1. PICK answer \in A : Heard(answer)
    BY DEF Leaves, Hear
  <1>2. answer # NoLine
    BY <1>1
  <1>3. chipIn = << >> /\ link # "OPENING" /\ Range(Rest) \subseteq B
    BY <1>1, <1>2, SyncHeard
  <1>4. QED
    BY <1>3 DEF Leaves, Told

LEMMA QuietIsReady ==
    ASSUME chipIn = << >>, NEW B, Told' \subseteq B, NEW C, NEW A, B \cap A = {}
    PROVE  Ready(C, A)
  BY AskedNone DEF Ready

(* The driver begins to hear the chip when nothing is left of what was before. *)
LEMMA StartsClean ==
    ASSUME QueuesOK, Turn, PairInv, Drained, Lap', ~Lap
    PROVE  /\ chipIn = << >> /\ link = "DOWN" /\ Told' \subseteq Async
           /\ state' \in {"INIT", "GPS_USART_ECHO_ON"}
  <1>1. CASE Moves({"RESET_STAGE_POWER_ON"}, {"INIT"})
    <2>1. lines = << >> /\ link = "DOWN" /\ chipIn = << >>
      BY <1>1 DEF Moves, Drained, PairInv, Restarting
    <2>2. Range(lines') = {} /\ seen' = {}
      BY <1>1, <2>1, ShortRanges DEF Moves, Rest
    <2>3. QED
      BY <1>1, <2>1, <2>2 DEF Moves, Told
  <1>2. CASE Moves({"GPRS_RESET"}, {"GPS_USART_ECHO_ON"}) /\ Hear(ShutAnswer) /\ Hearing
    <2>1. Sync(ShutAsk, ShutAnswer, Async, ShutAnswer)
      BY <1>2 DEF PairInv, Paired, ShutPaired, Kind, Moves
    <2>2. NoLine \notin ShutAnswer /\ Leaves(ShutAnswer)
      BY <1>2, KindParts DEF Leaves, Moves, Counting
    <2>3. chipIn = << >> /\ Told' \subseteq Async
      BY <2>1, <2>2, HeardLeaves
    <2>4. PICK answer \in ShutAnswer : Heard(answer)
      BY <1>2 DEF Hear
    <2>5. link = "DOWN"
      BY <2>1, <2>2, <2>4, SyncHeard
    <2>6. QED
      BY <1>2, <2>3, <2>5 DEF Moves
  <1>3. QED
    BY <1>1, <1>2, LapArrives DEF PairInv

LEMMA KindLaps ==
    ASSUME QueuesOK, Turn, PairInv, Drained, Lap',
           NEW S, NEW C, NEW A, NEW B, NEW D, D \subseteq A,
           Entry(state') \cap C # {} => state' \in S,
           A \cap Async = {}, B \cap A = {}, NoLine \notin A,
           Lap => Kind(S, C, A, B, D),
           Lap /\ state \in S => Waits \/ Leaves(A)
    PROVE  Kind(S, C, A, B, D)'
  <1>1. CASE ~Lap
    <2>1. Ready(C, A)
      BY <1>1, StartsClean, QuietIsReady
    <2>2. QED
      BY <2>1, KindTurns
  <1>2. CASE Lap /\ state \notin S
    <2>1. Ready(C, A)
      BY <1>2, FreshIsReady DEF Kind, Turn
    <2>2. QED
      BY <2>1, KindTurns
  <1>3. CASE Lap /\ state \in S /\ Leaves(A)
    <2>1. chipIn = << >> /\ Told' \subseteq B
      BY <1>3, HeardLeaves DEF Kind
    <2>2. Ready(C, A)
      BY <2>1, QuietIsReady
    <2>3. QED
      BY <2>2, KindTurns
  <1>4. CASE Lap /\ Waits
    BY <1>4, KindTurns
  <1>5. QED
    BY <1>1, <1>2, <1>3, <1>4

(* The four exchanges that end with their answer. *)
LEMMA TurnsKeepPairs ==
    ASSUME QueuesOK, Turn, PairInv, Drained
    PROVE  StatePaired' /\ ClosePaired' /\ ContextPaired' /\ ApnPaired'
  <1>1. CASE ~Lap'
    BY <1>1 DEF StatePaired, ClosePaired, ContextPaired, ApnPaired
  <1>2. CASE Lap'
    <2>1. Lap => LapGoes
      BY <1>2, LapStays DEF PairInv
    <2>2. /\ NoLine \notin StateAnswer /\ NoLine \notin Closing /\ NoLine \notin Context
          /\ NoLine \notin Apn
      BY KindParts DEF Counting
    <2>3. /\ StateAnswer \cap Async = {} /\ Closing \cap Async = {} /\ Context \cap Async = {}
          /\ Apn \cap Async = {} /\ {"STATE: other"} \subseteq StateAnswer
          /\ (Async \cup {"OK"}) \cap Closing = {} /\ (Async \cup Echoed) \cap Context = {}
          /\ (Async \cup Echoed) \cap Apn = {}
      BY KindParts
    <2>4. StatePaired'
      <3>1. Lap => Kind(Querying, StateAsk, StateAnswer, Async, {"STATE: other"})
        BY DEF PairInv, Paired, StatePaired
      <3>2. Lap /\ state \in Querying => Waits \/ Leaves(StateAnswer)
        BY <2>1, LeavesQuerying
      <3>3. Kind(Querying, StateAsk, StateAnswer, Async, {"STATE: other"})'
        BY <1>2, <2>2, <2>3, <3>1, <3>2, EntryTexts, KindLaps
      <3>4. QED
        BY <3>3 DEF StatePaired
    <2>5. ClosePaired'
      <3>1. Lap => Kind({"CLOSE_AND_RECONNECT"}, Closing, Closing, Async \cup {"OK"}, Closing)
        BY DEF PairInv, Paired, ClosePaired
      <3>2. Lap /\ state \in {"CLOSE_AND_RECONNECT"} => Waits \/ Leaves(Closing)
        BY <2>1, LeavesClose
      <3>3. Kind({"CLOSE_AND_RECONNECT"}, Closing, Closing, Async \cup {"OK"}, Closing)'
        BY <1>2, <2>2, <2>3, <3>1, <3>2, EntryTexts, KindLaps
      <3>4. QED
        BY <3>3 DEF ClosePaired
    <2>6. ASSUME state \in {"SET_CONTEXT", "APN_USER_PASSWD_INPUT"}, Lap
          PROVE  /\ Waits \/ Leaves(Context) \/ Leaves(Apn)
                 /\ state = "SET_CONTEXT" => Waits \/ Leaves(Context)
                 /\ state = "APN_USER_PASSWD_INPUT" => Waits \/ Leaves(Apn)
      BY <2>1, <2>6, LeavesBoot, BusyStates
    <2>7. ContextPaired'
      <3>1. Lap => Kind({"SET_CONTEXT"}, Context, Context, Async \cup Echoed, {})
        BY DEF PairInv, Paired, ContextPaired
      <3>2. Lap /\ state \in {"SET_CONTEXT"} => Waits \/ Leaves(Context)
        BY <2>6
      <3>3. Kind({"SET_CONTEXT"}, Context, Context, Async \cup Echoed, {})'
        BY <1>2, <2>2, <2>3, <3>1, <3>2, EntryTexts, KindLaps
      <3>4. QED
        BY <3>3 DEF ContextPaired
    <2>8. ApnPaired'
      <3>1. Lap => Kind({"APN_USER_PASSWD_INPUT"}, Apn, Apn, Async \cup Echoed, {})
        BY DEF PairInv, Paired, ApnPaired
      <3>2. Lap /\ state \in {"APN_USER_PASSWD_INPUT"} => Waits \/ Leaves(Apn)
        BY <2>6
      <3>3. Kind({"APN_USER_PASSWD_INPUT"}, Apn, Apn, Async \cup Echoed, {})'
        BY <1>2, <2>2, <2>3, <3>1, <3>2, EntryTexts, KindLaps
      <3>4. QED
        BY <3>3 DEF ApnPaired
    <2>9. QED
      BY <2>4, <2>5, <2>7, <2>8
  <1>3. QED
    BY <1>1, <1>2

LEMMA HearingArrives ==
    ASSUME Turn, Silent, Hearing', ~Hearing PROVE Lap'
  <1> SUFFICES ASSUME state' = "GPRS_RESET" PROVE FALSE
    BY DEF Lap
  <1>1. rxOn' /\ (~rxOn \/ state \in ShutDownStates)
    BY DEF Hearing
  <1>2. "GPRS_RESET" \notin ShutDownStates
    BY DEF ShutDownStates
  <1>3. ~Waits /\ ~GivesUp /\ ~TurnsOff /\ ~StartsAgain
    BY <1>1, <1>2 DEF Waits, GivesUp, TurnsOff, StartsAgain
  <1>4. ~Powers
    BY DEF Powers, Moves
  <1>5. ~Boots
    BY BusyStates DEF Boots, Moves
  <1>6. ~Connects
    <2>1. "GPRS_RESET" \notin {"NETWORK_GPS_USART_ECHO_OFF", "NETWORK_PREPARE_SEND", "CONNECT_TO_SERVER",
                              "CLOSE_AND_RECONNECT", "CLOSE_DELAY"}
      OBVIOUS
    <2>2. QED
      BY <2>1 DEF Connects, FindsLink, Moves
  <1>7. ~Exchanges
    <2>1. "GPRS_RESET" \notin OneOk \cup NoOk \cup Pausing \cup {"NETWORK_RECEIVE"}
      BY DEF OneOk, NoOk, Pausing
    <2>2. QED
      BY <2>1 DEF Exchanges, Moves
  <1>8. QED
    BY <1>3, <1>4, <1>5, <1>6, <1>7 DEF Turn, Step

LEMMA LeavesReset ==
    ASSUME Turn, state = "GPRS_RESET", Hearing' PROVE Waits \/ Leaves(ShutAnswer)
  <1>1. ~GivesUp /\ ~TurnsOff /\ ~StartsAgain
    BY DEF Hearing, GivesUp, TurnsOff, StartsAgain
  <1>2. ~Powers
    BY DEF Powers, Moves
  <1>3. Boots => Leaves(ShutAnswer)
    BY BusyStates DEF Boots, Moves, Leaves
  <1>4. ~Connects /\ ~Exchanges
    <2>1. state \notin Querying \cup Busy \cup {"CONNECT_TO_SERVER", "CLOSE_AND_RECONNECT", "CLOSE_DELAY"}
      BY BusyStates DEF Querying
    <2>2. QED
      BY <2>1, LinkBegins
  <1>5. QED
    BY <1>1, <1>2, <1>3, <1>4 DEF Turn, Step

LEMMA TurnsKeepShut ==
    ASSUME QueuesOK, Turn, PairInv, Drained PROVE ShutPaired'
  <1> SUFFICES ASSUME Hearing' PROVE Kind({"GPRS_RESET"}, ShutAsk, ShutAnswer, Async, ShutAnswer)'
    BY DEF ShutPaired
  <1>1. NoLine \notin ShutAnswer /\ Async \cap ShutAnswer = {}
    BY KindParts DEF Counting
  <1>2. Entry(state') \cap ShutAsk # {} => state' \in {"GPRS_RESET"}
    BY EntryTexts
  <1>3. Hearing => Kind({"GPRS_RESET"}, ShutAsk, ShutAnswer, Async, ShutAnswer)
    BY DEF PairInv, Paired, ShutPaired
  <1>4. Ready(ShutAsk, ShutAnswer)
        \/ (Waits /\ Kind({"GPRS_RESET"}, ShutAsk, ShutAnswer, Async, ShutAnswer))
    <2>1. CASE ~Hearing
      <3>1. Lap' /\ ~Lap
        BY <2>1, HearingArrives DEF Lap, PairInv
      <3>2. QED
        BY <1>1, <3>1, StartsClean, QuietIsReady
    <2>2. CASE Hearing /\ state # "GPRS_RESET"
      BY <1>3, <2>2, FreshIsReady DEF Kind, Turn
    <2>3. CASE Hearing /\ state = "GPRS_RESET" /\ Waits
      BY <1>3, <2>3
    <2>4. CASE Hearing /\ state = "GPRS_RESET" /\ Leaves(ShutAnswer)
      <3>1. Sync(ShutAsk, ShutAnswer, Async, ShutAnswer)
        BY <1>3, <2>4 DEF Kind
      <3>2. chipIn = << >> /\ Told' \subseteq Async
        BY <1>1, <2>4, <3>1, HeardLeaves
      <3>3. QED
        BY <1>1, <3>2, QuietIsReady
    <2>5. QED
      BY <2>1, <2>2, <2>3, <2>4, LeavesReset
  <1>5. ShutAnswer \subseteq ShutAnswer
    OBVIOUS
  <1>6. QED
    BY <1>2, <1>4, <1>5, KindTurns

-----------------------------------------------------------------------------
(* The commands whose answers the states tell apart by the order of events:   *)
(* AT+QIOPEN, and those answered "OK".                                       *)

LEMMA ArrivalStates ==
    {"INIT", "GPS_USART_ECHO_ON"}
      \cap (OneOk \cup NoOk \cup Querying \cup {"CONNECT_TO_SERVER", "CLOSE_AND_RECONNECT"}) = {}
  BY DEF OneOk, NoOk, Querying

(* Where AT+QIOPEN is sent from. *)
LEMMA ConnectBegins ==
    ASSUME LapGoes, state' = "CONNECT_TO_SERVER", state # "CONNECT_TO_SERVER"
    PROVE  /\ state \in Querying \cup {"CLOSE_DELAY"}
           /\ state \in Querying => Heard("STATE: other")
  <1>1. ~Waits
    BY DEF Waits
  <1>2. ~Boots
    BY BusyStates DEF Boots, Moves
  <1>3. ~Exchanges
    <2>1. "CONNECT_TO_SERVER" \notin OneOk \cup NoOk \cup Pausing \cup {"NETWORK_RECEIVE"}
      BY DEF OneOk, NoOk, Pausing
    <2>2. QED
      BY <2>1 DEF Exchanges, Moves
  <1>4. Connects
    BY <1>1, <1>2, <1>3 DEF LapGoes
  <1>5. "CLOSE_DELAY" \notin Querying
    BY DEF Querying
  <1>6. QED
    BY <1>4, <1>5 DEF Connects, FindsLink, Moves

(* AT+QIOPEN is sent only where there is no connection. *)
LEMMA OpensWithoutLink ==
    ASSUME QueuesOK, Reads, LapGoes, PairInv, Lap, state' = "CONNECT_TO_SERVER", state # "CONNECT_TO_SERVER"
    PROVE  link = "DOWN"
  <1>1. CASE state = "CLOSE_DELAY"
    BY <1>1 DEF PairInv, Paired, LinkDown, Unlinked
  <1>2. CASE state \in Querying
    <2>1. Sync(StateAsk, StateAnswer, Async, {"STATE: other"})
      BY <1>2 DEF PairInv, Paired, StatePaired, Kind
    <2>2. "STATE: other" \in Told
      BY <1>2, ConnectBegins, ReadIsTold DEF NoLine
    <2>3. QED
      BY <2>1, <2>2 DEF Sync
  <1>3. QED
    BY <1>1, <1>2, ConnectBegins

LEMMA OpenTurns ==
    ASSUME QueuesOK, Turn, Ready(OpenAsk, OpenAnswer), link # "OPENING",
           state' = "CONNECT_TO_SERVER" => link = "DOWN"
    PROVE  /\ state' = "CONNECT_TO_SERVER" => (Sync(OpenAsk, OpenAnswer, Async, {}) /\ Opening)'
           /\ state' \notin {"CONNECT_TO_SERVER", "CLOSE_AND_RECONNECT"} =>
                 Fresh(OpenAsk, OpenAnswer)' /\ link' # "OPENING"
  <1>1. Reads /\ Sends /\ Asked' \subseteq Asked \cup Entry(state') /\ UNCHANGED link
    BY SentTexts DEF Turn
  <1>2. ASSUME state' = "CONNECT_TO_SERVER" PROVE (Sync(OpenAsk, OpenAnswer, Async, {}) /\ Opening)'
    <2>1. Sync(OpenAsk, OpenAnswer, Async, {})'
      <3>1. {} \subseteq OpenAnswer
        OBVIOUS
      <3>2. QED
        BY <1>1, <3>1, ReadyIsSync, ReadLines
    <2>2. Opening'
      BY <1>1, <1>2 DEF Opening
    <2>3. QED
      BY <2>1, <2>2
  <1>3. ASSUME state' \notin {"CONNECT_TO_SERVER", "CLOSE_AND_RECONNECT"}
        PROVE  Fresh(OpenAsk, OpenAnswer)' /\ link' # "OPENING"
    <2>1. Entry(state') \cap OpenAsk = {}
      BY <1>3, EntryTexts
    <2>2. QED
      BY <1>1, <2>1, ReadyIsFresh
  <1>4. QED
    BY <1>2, <1>3

LEMMA TurnsKeepOpen ==
    ASSUME QueuesOK, Turn, PairInv, Drained PROVE OpenPaired'
  <1> DEFINE Kept ==
        /\ state' = "CONNECT_TO_SERVER" => (Sync(OpenAsk, OpenAnswer, Async, {}) /\ Opening)'
        /\ state' \notin {"CONNECT_TO_SERVER", "CLOSE_AND_RECONNECT"} =>
              Fresh(OpenAsk, OpenAnswer)' /\ link' # "OPENING"
  <1> SUFFICES ASSUME Lap' PROVE Kept
    BY DEF OpenPaired
  <1>1. /\ NoLine \notin OpenAnswer /\ NoLine \notin Closing
        /\ Async \cap OpenAnswer = {} /\ (Async \cup {"OK"}) \cap OpenAnswer = {}
    <2>1. "OK" \notin OpenAnswer
      BY DEF OpenAnswer
    <2>2. QED
      BY <2>1, KindParts DEF Counting
  <1>2. Reads /\ Sends /\ Asked' \subseteq Asked \cup Entry(state') /\ UNCHANGED link
    BY SentTexts DEF Turn
  <1>3. Lap => LapGoes
    BY LapStays DEF PairInv
  <1>4. CASE ~Lap
    <2>1. chipIn = << >> /\ link = "DOWN" /\ Told' \subseteq Async
      BY <1>4, StartsClean
    <2>2. Ready(OpenAsk, OpenAnswer)
      BY <1>1, <2>1, QuietIsReady
    <2>3. link # "OPENING"
      BY <2>1
    <2>4. QED
      BY <2>1, <2>2, <2>3, OpenTurns
  <1>5. CASE Lap /\ state = "CONNECT_TO_SERVER" /\ Waits
    <2>1. Sync(OpenAsk, OpenAnswer, Async, {}) /\ Opening
      BY <1>5 DEF PairInv, Paired, OpenPaired
    <2>2. UNCHANGED <<chipIn, state>>
      BY <1>5 DEF Waits
    <2>3. Sync(OpenAsk, OpenAnswer, Async, {})'
      BY <1>2, <2>1, <2>2, SyncReads
    <2>4. Opening'
      BY <1>2, <2>1, <2>2, ReadIsTold DEF Opening, Asked
    <2>5. QED
      BY <1>5, <2>2, <2>3, <2>4
  <1>6. CASE Lap /\ state = "CONNECT_TO_SERVER" /\ ~Waits
    <2>1. CASE state' = "CLOSE_AND_RECONNECT"
      BY <2>1
    <2>2. CASE Leaves(OpenAnswer) /\ state' = "NETWORK_GPS_USART_ECHO_OFF"
      <3>1. Sync(OpenAsk, OpenAnswer, Async, {})
        BY <1>6 DEF PairInv, Paired, OpenPaired
      <3>2. chipIn = << >> /\ link # "OPENING" /\ Told' \subseteq Async
        BY <1>1, <2>2, <3>1, HeardLeaves
      <3>3. Ready(OpenAsk, OpenAnswer)
        BY <1>1, <3>2, QuietIsReady
      <3>4. QED
        BY <2>2, <3>2, <3>3, OpenTurns
    <2>3. QED
      BY <1>3, <1>6, <2>1, <2>2, LeavesConnect
  <1>7. CASE Lap /\ state = "CLOSE_AND_RECONNECT"
    <2>1. CASE Waits
      BY <1>7, <2>1 DEF Waits
    <2>2. CASE Leaves(Closing) /\ state' = "CLOSE_DELAY"
      <3>1. Sync(Closing, Closing, Async \cup {"OK"}, Closing)
        BY <1>7 DEF PairInv, Paired, ClosePaired, Kind
      <3>2. chipIn = << >> /\ link # "OPENING" /\ Told' \subseteq Async \cup {"OK"}
        BY <1>1, <2>2, <3>1, HeardLeaves
      <3>3. Ready(OpenAsk, OpenAnswer)
        BY <1>1, <3>2, QuietIsReady
      <3>4. QED
        BY <2>2, <3>2, <3>3, OpenTurns
    <2>3. QED
      BY <1>3, <1>7, <2>1, <2>2, LeavesClose
  <1>8. CASE Lap /\ state \notin {"CONNECT_TO_SERVER", "CLOSE_AND_RECONNECT"}
    <2>1. Fresh(OpenAsk, OpenAnswer) /\ link # "OPENING"
      BY <1>8 DEF PairInv, Paired, OpenPaired
    <2>2. Ready(OpenAsk, OpenAnswer)
      BY <1>2, <2>1, FreshIsReady
    <2>3. state' = "CONNECT_TO_SERVER" => link = "DOWN"
      BY <1>2, <1>3, <1>8, OpensWithoutLink
    <2>4. QED
      BY <2>1, <2>2, <2>3, OpenTurns
  <1>9. QED
    BY <1>4, <1>5, <1>6, <1>7, <1>8

LEMMA ConnectEnds ==
    /\ Connects => state' \in {"NETWORK_GPS_USART_ECHO_OFF", "NETWORK_PREPARE_SEND",
                               "CONNECT_TO_SERVER", "CLOSE_AND_RECONNECT", "CLOSE_DELAY"}
    /\ Boots => state' \in BootStates \cup {"CONTROL_WAIT_FOR_CONNECT", "CHECK_CONNECTION"}
    /\ Exchanges => state' \in OneOk \cup NoOk \cup Pausing
  <1>1. Connects => state' \in {"NETWORK_GPS_USART_ECHO_OFF", "NETWORK_PREPARE_SEND",
                               "CONNECT_TO_SERVER", "CLOSE_AND_RECONNECT", "CLOSE_DELAY"}
    BY DEF Connects, FindsLink, Moves
  <1>2. Boots => state' \in BootStates \cup {"CONTROL_WAIT_FOR_CONNECT", "CHECK_CONNECTION"}
    <2>1. {"GPS_USART_ECHO_ON", "MULTIPLE_CONNECTIONS_OFF"} \subseteq BootStates
      BY DEF BootStates
    <2>2. QED
      BY <2>1, BusyStates DEF Boots, Moves
  <1>3. Exchanges => state' \in OneOk \cup NoOk \cup Pausing
    BY DEF Exchanges, Moves, OneOk
  <1>4. QED
    BY <1>1, <1>2, <1>3

LEMMA OkBegins ==
    ASSUME LapGoes, state \notin OneOk \cup NoOk, state' \in OneOk \cup NoOk
    PROVE  \/ state \in Querying /\ Leaves(StateAnswer)
           \/ state = "CONNECT_TO_SERVER" /\ Leaves(OpenAnswer)
  <1>1. ~Waits
    BY DEF Waits
  <1>2. ~Boots
    <2>1. "CHECK_CONNECTION" \notin OneOk \cup NoOk
      BY DEF OneOk, NoOk
    <2>2. QED
      BY <2>1, BusyStates, ConnectEnds
  <1>3. ~Exchanges
    <2>1. Pausing \cap (OneOk \cup NoOk) = {} /\ "NETWORK_BEGIN_RECEIVE" \in OneOk
      BY DEF OneOk, NoOk, Pausing
    <2>2. QED
      BY <2>1 DEF Exchanges, Moves
  <1>4. Connects
    BY <1>1, <1>2, <1>3 DEF LapGoes
  <1>5. {"CONNECT_TO_SERVER", "CLOSE_AND_RECONNECT", "CLOSE_DELAY"} \cap (OneOk \cup NoOk) = {}
    BY BusyStates
  <1>6. CASE state \in Querying
    BY <1>1, <1>6, LeavesQuerying
  <1>7. CASE state \notin Querying
    <2>1. Moves({"CONNECT_TO_SERVER"}, {"NETWORK_GPS_USART_ECHO_OFF"}) /\ Hear(OpenAnswer)
      BY <1>4, <1>5, <1>7 DEF Connects, FindsLink, Moves, Querying
    <2>2. QED
      BY <2>1 DEF Moves, Leaves
  <1>8. QED
    BY <1>6, <1>7

LEMMA OkTurns ==
    ASSUME QueuesOK, Turn, Ready(OkAsk, OkAnswer)
    PROVE  /\ state' \in OneOk => Sync(OkAsk, OkAnswer, Async, {})'
           /\ state' \in NoOk => Fresh(OkAsk, OkAnswer)'
  <1>1. Reads /\ Sends /\ Asked' \subseteq Asked \cup Entry(state')
    BY SentTexts DEF Turn
  <1>2. Sync(OkAsk, OkAnswer, Async, {})'
    <2>1. {} \subseteq OkAnswer
      OBVIOUS
    <2>2. QED
      BY <1>1, <2>1, ReadyIsSync, ReadLines
  <1>3. ASSUME state' \in NoOk PROVE Fresh(OkAsk, OkAnswer)'
    <2>1. Entry(state') \cap OkAsk = {}
      BY <1>3, QuietTexts
    <2>2. QED
      BY <1>1, <2>1, ReadyIsFresh
  <1>4. QED
    BY <1>2, <1>3

LEMMA TurnsKeepOk ==
    ASSUME QueuesOK, Turn, PairInv, Drained PROVE OkPaired'
  <1> DEFINE Kept ==
        /\ state' \in OneOk => Sync(OkAsk, OkAnswer, Async, {})'
        /\ state' \in NoOk => Fresh(OkAsk, OkAnswer)'
  <1> SUFFICES ASSUME Lap' PROVE Kept
    BY DEF OkPaired
  <1>1. /\ NoLine \notin OkAnswer /\ NoLine \notin StateAnswer /\ NoLine \notin OpenAnswer
        /\ Async \cap OkAnswer = {}
    BY KindParts DEF Counting
  <1>2. Reads /\ UNCHANGED link
    BY DEF Turn
  <1>3. Lap => LapGoes
    BY LapStays DEF PairInv
  <1>4. CASE ~Lap
    BY <1>4, StartsClean, ArrivalStates
  <1>5. ASSUME NEW C, NEW A, Sync(C, A, Async, {}) \/ Sync(C, A, Async, {"STATE: other"}),
               NoLine \notin A, Leaves(A)
        PROVE  Kept
    <2>1. chipIn = << >> /\ Told' \subseteq Async
      BY <1>5, HeardLeaves
    <2>2. Ready(OkAsk, OkAnswer)
      BY <1>1, <2>1, QuietIsReady
    <2>3. QED
      BY <2>2, OkTurns
  <1>6. CASE Lap /\ state \in OneOk
    <2>1. Sync(OkAsk, OkAnswer, Async, {})
      BY <1>6 DEF PairInv, Paired, OkPaired
    <2>2. CASE UNCHANGED chipIn /\ state' \in OneOk
      <3>1. Sync(OkAsk, OkAnswer, Async, {})'
        BY <1>2, <2>1, <2>2, SyncReads
      <3>2. QED
        BY <2>2, <3>1, BusyStates
    <2>3. CASE Leaves(OkAnswer)
      BY <1>1, <1>5, <2>1, <2>3
    <2>4. CASE state' = "CLOSE_AND_RECONNECT"
      BY <2>4, BusyStates
    <2>5. Waits => UNCHANGED chipIn /\ state' \in OneOk
      BY <1>6 DEF Waits
    <2>6. QED
      BY <1>3, <1>6, <2>2, <2>3, <2>4, <2>5, LeavesOk
  <1>7. CASE Lap /\ state \in NoOk
    <2>1. Fresh(OkAsk, OkAnswer)
      BY <1>7 DEF PairInv, Paired, OkPaired
    <2>2. Ready(OkAsk, OkAnswer)
      BY <1>2, <2>1, FreshIsReady
    <2>3. QED
      BY <2>2, OkTurns
  <1>8. CASE Lap /\ state \notin OneOk \cup NoOk /\ state' \in OneOk \cup NoOk
    <2>1. CASE state \in Querying /\ Leaves(StateAnswer)
      <3>1. Sync(StateAsk, StateAnswer, Async, {"STATE: other"})
        BY <1>8, <2>1 DEF PairInv, Paired, StatePaired, Kind
      <3>2. QED
        BY <1>1, <1>5, <2>1, <3>1
    <2>2. CASE state = "CONNECT_TO_SERVER" /\ Leaves(OpenAnswer)
      <3>1. Sync(OpenAsk, OpenAnswer, Async, {})
        BY <1>8, <2>2 DEF PairInv, Paired, OpenPaired
      <3>2. QED
        BY <1>1, <1>5, <2>2, <3>1
    <2>3. QED
      BY <1>3, <1>8, <2>1, <2>2, OkBegins
  <1>9. QED
    BY <1>4, <1>6, <1>7, <1>8

(* Where CHECK_CONNECTION is entered from. *)
LEMMA CheckBegins ==
    ASSUME LapGoes, state' = "CHECK_CONNECTION"
    PROVE  \/ Waits
           \/ state = "CONTROL_WAIT_FOR_CONNECT"
           \/ state \in Busy /\ UNCHANGED connected
  <1>1. CASE Boots
    <2>1. "CHECK_CONNECTION" \notin BootStates
      BY BusyStates DEF Querying
    <2>2. "CHECK_CONNECTION" \notin EarlyBoot \cup {"SET_CONTEXT"} \cup LateBoot
          /\ "CHECK_CONNECTION" \notin {"GPS_USART_ECHO_ON", "APN_USER_PASSWD_INPUT",
                                        "MULTIPLE_CONNECTIONS_OFF", "CONTROL_WAIT_FOR_CONNECT"}
      BY <2>1, BusyStates
    <2>3. QED
      BY <1>1, <2>2 DEF Boots, Moves
  <1>2. ~Connects
    BY ConnectEnds
  <1>3. CASE Exchanges
    <2>1. "CHECK_CONNECTION" \notin OneOk \cup NoOk \cup {"NETWORK_RECEIVE"}
      BY DEF OneOk, NoOk
    <2>2. state \in Busy
      BY <1>3, LinkBegins
    <2>3. UNCHANGED connected
      BY <1>3, <2>1 DEF Exchanges, Moves, Plain
    <2>4. QED
      BY <2>2, <2>3
  <1>4. QED
    BY <1>1, <1>2, <1>3 DEF LapGoes

LEMMA BusyIsOnline == Busy \subseteq DataStates
  BY DEF Busy, OneOk, NoOk, DataStates, SendStates, BatchStates, ReceiveStates, SmsStates

LEMMA UnlinkedBegins ==
    ASSUME LapGoes, state' \in Unlinked, Lap
    PROVE  state \in Unlinked \/ (state = "CLOSE_AND_RECONNECT" /\ Hear(Closing))
  <1>1. CASE Waits
    BY <1>1 DEF Waits
  <1>2. CASE Boots
    <2>1. state # "GPRS_RESET"
      BY DEF Lap
    <2>2. state \in BootStates \cup {"CONTROL_WAIT_FOR_CONNECT"}
      BY <1>2, <2>1, BusyStates DEF Boots, Moves
    <2>3. QED
      BY <2>2 DEF Unlinked
  <1>3. CASE Connects
    <2>1. {"NETWORK_GPS_USART_ECHO_OFF", "NETWORK_PREPARE_SEND",
                               "CONNECT_TO_SERVER", "CLOSE_AND_RECONNECT"} \cap Unlinked = {}
      BY DEF Unlinked, BootStates
    <2>2. QED
      BY <1>3, <2>1 DEF Connects, FindsLink, Moves
  <1>4. ~Exchanges
    <2>1. (OneOk \cup NoOk \cup Pausing) \cap Unlinked = {}
      BY DEF Unlinked, BootStates, OneOk, NoOk, Pausing
    <2>2. QED
      BY <2>1, ConnectEnds
  <1>5. QED
    BY <1>1, <1>2, <1>3, <1>4 DEF LapGoes

LEMMA TurnsKeepLinkDown ==
    ASSUME QueuesOK, Turn, PairInv, Drained PROVE LinkDown' /\ Unannounced'
  <1>1. Reads /\ UNCHANGED link
    BY DEF Turn
  <1>2. Lap /\ Lap' => LapGoes
    BY LapStays DEF PairInv
  <1>3. Lap /\ state \in Busy => connected
    BY BusyIsOnline DEF PairInv, OnlineStatesConnected
  <1>4. ASSUME Lap', state' \in Unlinked PROVE link = "DOWN"
    <2>1. CASE ~Lap
      BY <1>4, <2>1, StartsClean
    <2>2. CASE Lap /\ state \in Unlinked
      BY <2>2 DEF PairInv, Paired, LinkDown
    <2>3. CASE Lap /\ state = "CLOSE_AND_RECONNECT" /\ Hear(Closing)
      <3>1. Sync(Closing, Closing, Async \cup {"OK"}, Closing)
        BY <2>3 DEF PairInv, Paired, ClosePaired, Kind
      <3>2. PICK answer \in Closing : Heard(answer)
        BY <2>3 DEF Hear
      <3>3. answer # NoLine
        BY KindParts DEF Counting
      <3>4. QED
        BY <3>1, <3>2, <3>3, SyncHeard
    <2>4. QED
      BY <1>2, <1>4, <2>1, <2>2, <2>3, UnlinkedBegins
  <1>5. ASSUME Lap', state' = "CHECK_CONNECTION", ~connected'
        PROVE  link = "DOWN" /\ "STATE: CONNECT OK" \notin Told'
    <2>1. Lap
      BY <1>5, StartsClean
    <2>2. CASE Waits
      <3>1. state = "CHECK_CONNECTION" /\ ~connected
        BY <1>5, <2>2 DEF Waits
      <3>2. Told' \subseteq Told
        BY <1>1, ReadIsTold
      <3>3. QED
        BY <2>1, <3>1, <3>2 DEF PairInv, Paired, LinkDown, Unannounced
    <2>3. CASE state = "CONTROL_WAIT_FOR_CONNECT"
      <3>1. link = "DOWN"
        BY <2>1, <2>3 DEF PairInv, Paired, LinkDown, Unlinked
      <3>2. state \notin Querying
        BY <2>3 DEF Querying
      <3>3. Fresh(StateAsk, StateAnswer)
        BY <2>1, <3>2 DEF PairInv, Paired, StatePaired, Kind
      <3>4. Told' \cap StateAnswer = {}
        BY <1>1, <3>3, ReadIsTold DEF Fresh
      <3>5. QED
        BY <3>1, <3>4 DEF StateAnswer
    <2>4. CASE state \in Busy /\ UNCHANGED connected
      BY <1>3, <1>5, <2>1, <2>4
    <2>5. QED
      BY <1>2, <1>5, <2>1, <2>2, <2>3, <2>4, CheckBegins
  <1>6. QED
    BY <1>1, <1>4, <1>5 DEF LinkDown, Unannounced

-----------------------------------------------------------------------------
(* Switching off and on, and what is kept while the driver does not hear.     *)

LEMMA HearsUnlessDeaf == ASSUME Deaf, state \notin DeafStates PROVE Lap
  BY DEF Deaf, DeafStates, ResetStates, ShutDownStates, Lap, Hearing

LEMMA DeafNames ==
    /\ DeafStates \cap (Busy \cup Querying \cup {"CONNECT_TO_SERVER", "CLOSE_AND_RECONNECT",
           "CLOSE_DELAY", "CONTROL_WAIT_FOR_CONNECT"}) = {}
    /\ DeafStates \cap LateBoot = {} /\ DeafStates \cap DataStates = {}
    /\ {"RESET_STAGE_DECIDE", "RESET_STAGE_POWER_OFF", "RESET_STAGE_POWER_ON", "GPRS_RESET",
        "PIN_STATUS_CHECK", "INIT", "GPS_USART_ECHO_ON", "SET_CONTEXT", "APN_USER_PASSWD_INPUT"}
         \subseteq DeafStates
    /\ ShutDownStates \subseteq DeafStates /\ EarlyBoot \subseteq DeafStates
  <1>1. DeafStates \cap Busy = {} /\ DeafStates \cap Querying = {}
    BY DEF DeafStates, ResetStates, ShutDownStates, EarlyBoot, Busy, OneOk, NoOk, Querying
  <1>2. DeafStates \cap {"CONNECT_TO_SERVER", "CLOSE_AND_RECONNECT", "CLOSE_DELAY", "CONTROL_WAIT_FOR_CONNECT"} = {}
        /\ DeafStates \cap LateBoot = {}
    BY DEF DeafStates, ResetStates, ShutDownStates, EarlyBoot, LateBoot
  <1>3. DeafStates \cap DataStates = {}
    BY DEF DeafStates, ResetStates, ShutDownStates, EarlyBoot, DataStates, SendStates, BatchStates,
       ReceiveStates, SmsStates
  <1>4. {"RESET_STAGE_DECIDE", "RESET_STAGE_POWER_OFF", "RESET_STAGE_POWER_ON", "GPRS_RESET",
        "PIN_STATUS_CHECK", "INIT", "GPS_USART_ECHO_ON", "SET_CONTEXT", "APN_USER_PASSWD_INPUT"}
         \subseteq DeafStates
    BY DEF DeafStates, ResetStates, EarlyBoot
  <1>5. ShutDownStates \subseteq DeafStates /\ EarlyBoot \subseteq DeafStates
    BY DEF DeafStates
  <1>6. QED
    BY <1>1, <1>2, <1>3, <1>4, <1>5

(* Only a step of the machine that works on a connection ends in these states. *)
LEMMA OnlineSteps ==
    ASSUME Turn, state' \in DataStates
    PROVE  Waits \/ Connects \/ Exchanges
  <1>1. state' \notin DeafStates
    BY DeafNames
  <1>2. ~GivesUp /\ ~TurnsOff /\ ~StartsAgain /\ ~Powers
    BY <1>1, DeafNames DEF GivesUp, TurnsOff, StartsAgain, Powers, Moves
  <1>3. ~Boots
    <2>1. DataStates \cap (BootStates \cup {"CONTROL_WAIT_FOR_CONNECT", "CHECK_CONNECTION"}) = {}
      BY DEF DataStates, SendStates, BatchStates, ReceiveStates, SmsStates, BootStates
    <2>2. QED
      BY <2>1, ConnectEnds
  <1>4. QED
    BY <1>2, <1>3 DEF Turn, Step

LEMMA TurnsKeepOff ==
    ASSUME Turn, PairInv PROVE SwitchedOff' /\ Silent' /\ Restarting'
  <1> DEFINE cold == {"RESET_STAGE_DECIDE", "RESET_STAGE_POWER_OFF", "RESET_STAGE_POWER_ON"}
  <1>1. SwitchedOff'
    BY DEF PairInv, SwitchedOff, Turn, Enters, Transmit, Received
  <1>2. ASSUME state' \in cold
        PROVE  Waits \/ StartsAgain \/ (Powers /\ state \in cold /\ Plain /\ state' # "RESET_STAGE_DECIDE")
    <2>1. cold \cap (ShutDownStates \cup {"GPRS_RESET", "PIN_STATUS_CHECK", "INIT", "NETWORK_GPS_USART_ECHO_OFF",
              "NETWORK_PREPARE_SEND", "CONNECT_TO_SERVER", "CLOSE_AND_RECONNECT", "CLOSE_DELAY"}) = {}
      BY DEF ShutDownStates
    <2>2. cold \cap (BootStates \cup {"CONTROL_WAIT_FOR_CONNECT", "CHECK_CONNECTION"}) = {}
      BY DEF BootStates
    <2>3. cold \cap (OneOk \cup NoOk \cup Pausing) = {}
      BY DEF OneOk, NoOk, Pausing
    <2>4. ~GivesUp /\ ~TurnsOff /\ ~Boots /\ ~Connects /\ ~Exchanges
      BY <1>2, <2>1, <2>2, <2>3, ConnectEnds DEF GivesUp, TurnsOff
    <2>5. CASE Powers
      BY <1>2, <2>5 DEF Powers, Moves
    <2>6. QED
      BY <2>4, <2>5 DEF Turn, Step
  <1>3. Silent'
    <2> SUFFICES ASSUME state' \in cold PROVE ~rxOn'
      BY DEF Silent
    <2>1. QED
      BY <1>2 DEF PairInv, Silent, Waits, StartsAgain, Plain
  <1>4. Restarting'
    <2> SUFFICES ASSUME state' = "RESET_STAGE_POWER_ON" PROVE link' = "DOWN" /\ chipIn' = << >>
      BY DEF Restarting
    <2>1. CASE Waits
      BY <2>1 DEF PairInv, Restarting, Waits, Turn
    <2>2. CASE Powers
      <3>1. power' = "off"
        BY <2>2 DEF Powers, Moves, Turn
      <3>2. QED
        BY <1>1, <3>1 DEF SwitchedOff
    <2>3. QED
      BY <1>2, <2>1, <2>2 DEF StartsAgain
  <1>5. QED
    BY <1>1, <1>3, <1>4

LEMMA TurnsKeepOnline ==
    ASSUME QueuesOK, Turn, PairInv PROVE OnlineStatesConnected'
  <1> SUFFICES ASSUME state' \in DataStates PROVE connected'
    BY DEF OnlineStatesConnected
  <1>1. state \in DataStates => connected
    BY DEF PairInv, OnlineStatesConnected
  <1>2. CASE Waits
    BY <1>1, <1>2 DEF Waits
  <1>3. CASE Exchanges
    <2>1. state \in DataStates
      BY <1>3, LinkBegins, BusyIsOnline
    <2>2. QED
      BY <1>1, <1>3, <2>1 DEF Exchanges, Plain
  <1>4. CASE Moves({"CHECK_CONNECTION"}, {"NETWORK_GPS_USART_ECHO_OFF"}) /\ Heard("STATE: CONNECT OK") /\ Plain
    <2>1. state = "CHECK_CONNECTION"
      BY <1>4 DEF Moves
    <2>2. Lap
      BY <2>1, DeafNames, HearsUnlessDeaf DEF PairInv, Querying
    <2>3. "STATE: CONNECT OK" \in Told
      BY <1>4, ReadIsTold DEF NoLine, Turn
    <2>4. connected
      BY <2>1, <2>2, <2>3 DEF PairInv, Paired, Unannounced
    <2>5. QED
      BY <1>4, <2>4 DEF Plain
  <1>5. CASE Moves({"CHECK_CONNECTION_PRE_SEND"}, {"NETWORK_PREPARE_SEND"}) /\ Plain
    <2>1. state \in DataStates
      BY <1>5 DEF Moves, DataStates, SendStates
    <2>2. QED
      BY <1>1, <1>5, <2>1 DEF Plain
  <1>6. CASE Connects
    <2>1. {"CONNECT_TO_SERVER", "CLOSE_AND_RECONNECT", "CLOSE_DELAY"} \cap DataStates = {}
      BY DEF DataStates, SendStates, BatchStates, ReceiveStates, SmsStates
    <2>2. QED
      BY <1>4, <1>5, <1>6, <2>1 DEF Connects, FindsLink, Moves
  <1>7. QED
    BY <1>2, <1>3, <1>6, OnlineSteps

(* The steps that change whether the driver hears the chip. *)
LEMMA HearingSteps ==
    ASSUME Turn
    PROVE  UNCHANGED rxOn \/ TurnsOff \/ StartsAgain \/ Moves({"RESET_STAGE_POWER_ON"}, {"INIT"})
  BY DEF Turn, Step, Waits, GivesUp, Powers, Connects, Exchanges, Plain

LEMMA DeafSteps ==
    ASSUME Turn, state \in DeafStates
    PROVE  Waits \/ GivesUp \/ TurnsOff \/ StartsAgain \/ Powers \/ (Boots /\ Plain)
  <1>1. ~Connects /\ ~Exchanges
    BY DeafNames, LinkBegins
  <1>2. QED
    BY <1>1 DEF Turn, Step

LEMMA TurnsKeepDeaf ==
    ASSUME QueuesOK, Turn, PairInv PROVE Deaf'
  <1> SUFFICES ASSUME ~rxOn'
               PROVE  /\ Told' \cap Context = {} \/ Told' \cap Apn = {}
                      /\ state' \in DeafStates
                      /\ state' = "APN_USER_PASSWD_INPUT" => Told' \cap Apn = {}
    BY DEF Deaf
  <1>1. Told' \subseteq Told
    BY ReadIsTold DEF Turn
  <1>2. Told \cap Context = {} \/ Told \cap Apn = {}
    BY DEF PairInv, NotBoth, Deaf, Fresh
  <1>3. /\ "APN_USER_PASSWD_INPUT" \notin ShutDownStates \cup EarlyBoot \cup LateBoot
        /\ "APN_USER_PASSWD_INPUT" # "CONTROL_WAIT_FOR_CONNECT"
    BY DEF ShutDownStates, EarlyBoot, LateBoot
  <1>4. CASE TurnsOff \/ StartsAgain
    <2>1. state' \in DeafStates /\ state' # "APN_USER_PASSWD_INPUT"
      BY <1>3, <1>4, DeafNames DEF TurnsOff, StartsAgain
    <2>2. QED
      BY <1>1, <1>2, <2>1
  <1>5. CASE ~rxOn
    <2>1. /\ state \in DeafStates
          /\ state = "APN_USER_PASSWD_INPUT" => Told \cap Apn = {}
      BY <1>5 DEF PairInv, Deaf
    <2>2. CASE Waits
      BY <1>1, <1>2, <2>1, <2>2 DEF Waits
    <2>3. CASE GivesUp \/ Powers
      <3>1. state' \in DeafStates /\ state' # "APN_USER_PASSWD_INPUT"
        BY <2>3, DeafNames DEF GivesUp, Powers, Moves
      <3>2. QED
        BY <1>1, <1>2, <3>1
    <2>4. CASE Moves({"GPRS_RESET"}, {"GPS_USART_ECHO_ON"})
      BY <1>1, <1>2, <2>4, DeafNames DEF Moves
    <2>5. CASE Moves(EarlyBoot, EarlyBoot \cup {"SET_CONTEXT"})
      <3>1. state' \in DeafStates /\ state' # "APN_USER_PASSWD_INPUT"
        BY <1>3, <2>5, DeafNames DEF Moves
      <3>2. QED
        BY <1>1, <1>2, <3>1
    <2>6. CASE Moves({"SET_CONTEXT"}, {"APN_USER_PASSWD_INPUT"}) /\ Hear(Context)
      <3>1. PICK answer \in Context : Heard(answer)
        BY <2>6 DEF Hear
      <3>2. answer # NoLine
        BY KindParts DEF Counting
      <3>3. answer \in Told
        BY <3>1, <3>2, ReadIsTold DEF Turn
      <3>4. Told \cap Apn = {}
        BY <1>2, <3>3
      <3>5. QED
        BY <1>1, <2>6, <3>4, DeafNames DEF Moves
    <2>7. CASE Moves({"APN_USER_PASSWD_INPUT"}, {"MULTIPLE_CONNECTIONS_OFF"}) /\ Hear(Apn)
      <3>1. PICK answer \in Apn : Heard(answer)
        BY <2>7 DEF Hear
      <3>2. answer # NoLine
        BY KindParts DEF Counting
      <3>3. answer \in Told
        BY <3>1, <3>2, ReadIsTold DEF Turn
      <3>4. QED
        BY <2>1, <2>7, <3>3 DEF Moves
    <2>8. state \notin LateBoot \cup {"CONTROL_WAIT_FOR_CONNECT"}
      BY <2>1, DeafNames
    <2>9. CASE Boots
      BY <2>4, <2>5, <2>6, <2>7, <2>8, <2>9 DEF Boots, Moves
    <2>10. QED
      BY <1>4, <2>1, <2>2, <2>3, <2>9, DeafSteps
  <1>6. CASE rxOn
    <2>1. ~Moves({"RESET_STAGE_POWER_ON"}, {"INIT"})
      BY <1>6 DEF Moves, PairInv, Silent
    <2>2. QED
      BY <1>4, <1>6, <2>1, HearingSteps
  <1>7. QED
    BY <1>5, <1>6

LEMMA TurnsKeepNotBoth ==
    ASSUME QueuesOK, Turn, PairInv, ContextPaired', ApnPaired' PROVE NotBoth'
  <1> SUFFICES ASSUME rxOn' PROVE Fresh(Context, Context)' \/ Fresh(Apn, Apn)'
    BY DEF NotBoth
  <1>1. CASE Lap'
    <2>1. state' \notin {"SET_CONTEXT"} \/ state' \notin {"APN_USER_PASSWD_INPUT"}
      OBVIOUS
    <2>2. QED
      BY <1>1, <2>1 DEF ContextPaired, ApnPaired, Kind
  <1>2. CASE ~Lap'
    <2>1. state' \in ShutDownStates \cup {"GPRS_RESET"}
      BY <1>2 DEF Lap, Hearing
    <2>2. state' \notin {"SET_CONTEXT", "APN_USER_PASSWD_INPUT", "INIT", "RESET_STAGE_DECIDE"}
      BY <2>1 DEF ShutDownStates
    <2>3. rxOn
      BY <2>2, HearingSteps DEF TurnsOff, StartsAgain, Moves
    <2>4. Entry(state') \cap Context = {} /\ Entry(state') \cap Apn = {}
      BY <2>2, EntryTexts
    <2>5. Asked' \subseteq Asked \cup Entry(state') /\ Reads
      BY SentTexts DEF Turn
    <2>6. Fresh(Context, Context) \/ Fresh(Apn, Apn)
      BY <2>3 DEF PairInv, NotBoth
    <2>7. CASE Fresh(Context, Context)
      <3>1. Ready(Context, Context)
        BY <2>5, <2>7, FreshIsReady
      <3>2. QED
        BY <2>4, <2>5, <3>1, ReadyIsFresh
    <2>8. CASE Fresh(Apn, Apn)
      <3>1. Ready(Apn, Apn)
        BY <2>5, <2>8, FreshIsReady
      <3>2. QED
        BY <2>4, <2>5, <3>1, ReadyIsFresh
    <2>9. QED
      BY <2>6, <2>7, <2>8
  <1>3. QED
    BY <1>1, <1>2

(* A message is removed only on the answer to its text. *)
LEMMA SmsSteps ==
    ASSUME Turn
    PROVE  \/ UNCHANGED smsRemoved
           \/ /\ state = "SMS_SEND_SINGLE_BODY" /\ Hear(OkAnswer) /\ state' \in NoOk
              /\ smsRemoved' \in {smsRemoved, smsRemoved + 1}
  BY DEF Turn, Step, Waits, GivesUp, TurnsOff, StartsAgain, Powers, Connects, Exchanges, Plain, Moves

LEMMA BodyBegins ==
    ASSUME Turn, state' = "SMS_SEND_SINGLE_BODY" PROVE Waits \/ state \in NoOk
  <1>1. state' \in DataStates /\ state' \in OneOk
    BY DEF DataStates, SmsStates, OneOk
  <1>2. ~Connects
    BY ConnectEnds
  <1>3. state' \notin NoOk \cup Pausing
    BY DEF NoOk, Pausing
  <1>4. Exchanges => state \in NoOk
    BY <1>3 DEF Exchanges, Moves
  <1>5. QED
    BY <1>1, <1>2, <1>4, OnlineSteps

LEMMA TurnsKeepSms ==
    ASSUME QueuesOK, smsRemoved \in Nat, smsAnswered \in Nat, Turn, PairInv PROVE SmsPaired'
  <1>1. Reads /\ Told' \subseteq Told /\ UNCHANGED smsAnswered
    BY ReadIsTold DEF Turn
  <1>2. smsRemoved <= smsAnswered
    BY DEF PairInv, SmsPaired
  <1>3. smsRemoved' <= smsAnswered
    <2>1. CASE UNCHANGED smsRemoved
      BY <1>2, <2>1
    <2>2. CASE /\ state = "SMS_SEND_SINGLE_BODY" /\ Hear(OkAnswer)
               /\ smsRemoved' \in {smsRemoved, smsRemoved + 1}
      <3>1. PICK answer \in OkAnswer : Heard(answer)
        BY <2>2 DEF Hear
      <3>2. answer # NoLine
        BY KindParts DEF Counting
      <3>3. answer \in Told
        BY <1>1, <3>1, <3>2, ReadIsTold
      <3>4. smsRemoved < smsAnswered
        BY <2>2, <3>3 DEF PairInv, SmsPaired
      <3>5. QED
        BY <2>2, <3>4
    <2>3. QED
      BY <2>1, <2>2, SmsSteps
  <1>4. ASSUME state' = "SMS_SEND_SINGLE_BODY"
        PROVE  /\ Told' \cap OkAnswer # {} => smsRemoved' < smsAnswered'
               /\ Asked' \cap OkAsk \subseteq SmsAsk
    <2>1. CASE Waits
      <3>1. state = "SMS_SEND_SINGLE_BODY" /\ UNCHANGED <<chipIn, smsRemoved>>
        BY <1>4, <2>1 DEF Waits
      <3>2. UNCHANGED Asked
        BY <3>1 DEF Asked
      <3>3. QED
        BY <1>1, <3>1, <3>2 DEF PairInv, SmsPaired
    <2>2. CASE state \in NoOk
      <3>1. state \notin DeafStates
        BY <2>2, DeafNames, BusyStates
      <3>2. Lap
        BY <3>1, HearsUnlessDeaf DEF PairInv
      <3>3. Ready(OkAsk, OkAnswer)
        BY <1>1, <2>2, <3>2, FreshIsReady DEF PairInv, Paired, OkPaired
      <3>4. Asked' \subseteq Asked \cup Entry("SMS_SEND_SINGLE_BODY")
        BY <1>4, SentTexts DEF Turn
      <3>5. QED
        BY <3>3, <3>4, QuietTexts DEF Ready
    <2>3. QED
      BY <1>4, <2>1, <2>2, BodyBegins
  <1>5. QED
    BY <1>1, <1>3, <1>4 DEF SmsPaired

LEMMA TurnsKeepInvariant ==
    ASSUME QueuesOK, smsRemoved \in Nat, smsAnswered \in Nat, Turn, PairInv, Drained
    PROVE  PairInv'
  <1>1. StatePaired' /\ ClosePaired' /\ ContextPaired' /\ ApnPaired'
    BY TurnsKeepPairs
  <1>2. ShutPaired' /\ OpenPaired' /\ OkPaired' /\ LinkDown' /\ Unannounced'
    BY TurnsKeepShut, TurnsKeepOpen, TurnsKeepOk, TurnsKeepLinkDown
  <1>3. SwitchedOff' /\ Silent' /\ Restarting' /\ OnlineStatesConnected' /\ Deaf' /\ SmsPaired'
    BY TurnsKeepOff, TurnsKeepOnline, TurnsKeepDeaf, TurnsKeepSms
  <1>4. NotBoth'
    BY <1>1, TurnsKeepNotBoth
  <1>5. QED
    BY <1>1, <1>2, <1>3, <1>4 DEF PairInv, Paired

-----------------------------------------------------------------------------
(* The application's calls, and the start. *)

(* What the invariant speaks of stays as it is. *)
LEMMA NothingHappens ==
    ASSUME UNCHANGED <<state, seen, connected, smsRemoved, chipVars>>, PairInv
    PROVE  PairInv'
  <1>1. /\ UNCHANGED <<state, seen, connected, smsRemoved>>
        /\ UNCHANGED <<lines, chipIn, link, rxOn, power, smsAnswered>>
    BY DEF chipVars, linkVars, pinVars, netVars
  <1>2. UNCHANGED Asked /\ UNCHANGED Told
    BY <1>1 DEF Asked, Told
  <1>3. (Hearing' <=> Hearing) /\ (Lap' <=> Lap)
    BY <1>1 DEF Hearing, Lap
  <1>4. \A C, A : Fresh(C, A)' <=> Fresh(C, A)
    BY <1>2 DEF Fresh
  <1>5. \A C, A, B, D : Sync(C, A, B, D)' <=> Sync(C, A, B, D)
    BY <1>1, <1>2 DEF Sync, Behind
  <1>6. \A S, C, A, B, D : Kind(S, C, A, B, D)' <=> Kind(S, C, A, B, D)
    BY <1>1, <1>4, <1>5 DEF Kind
  <1>7. ShutPaired' /\ StatePaired' /\ ClosePaired' /\ ContextPaired' /\ ApnPaired'
    BY <1>3, <1>6 DEF PairInv, Paired, ShutPaired, StatePaired, ClosePaired, ContextPaired, ApnPaired
  <1>8. OpenPaired'
    BY <1>1, <1>2, <1>3, <1>4, <1>5 DEF PairInv, Paired, OpenPaired, Opening
  <1>9. OkPaired'
    BY <1>1, <1>3, <1>4, <1>5 DEF PairInv, Paired, OkPaired
  <1>10. LinkDown' /\ Unannounced'
    <2>1. LinkDown'
      BY <1>1, <1>3 DEF PairInv, Paired, LinkDown
    <2>2. Unannounced'
      <3> SUFFICES ASSUME Lap', state' = "CHECK_CONNECTION", ~connected'
                   PROVE  "STATE: CONNECT OK" \notin Told'
        BY DEF Unannounced
      <3>1. Lap /\ state = "CHECK_CONNECTION" /\ ~connected
        BY <1>1, <1>3
      <3>2. "STATE: CONNECT OK" \notin Told
        BY <3>1 DEF PairInv, Paired, Unannounced
      <3>3. QED
        BY <1>2, <3>2
    <2>3. QED
      BY <2>1, <2>2
  <1>11. SwitchedOff' /\ Silent' /\ Restarting' /\ OnlineStatesConnected'
    BY <1>1 DEF PairInv, SwitchedOff, Silent, Restarting, OnlineStatesConnected
  <1>12. NotBoth' /\ Deaf'
    BY <1>1, <1>2, <1>4 DEF PairInv, NotBoth, Deaf
  <1>13. SmsPaired'
    BY <1>1, <1>2 DEF PairInv, SmsPaired
  <1>14. QED
    BY <1>7, <1>8, <1>9, <1>10, <1>11, <1>12, <1>13 DEF PairInv, Paired

(* The "_OFF" of power (false) stands in the queue like a word of the chip.   *)
LEMMA PowerOffKeepsPairs ==
    ASSUME QueuesOK, link \in Links, smsAnswered \in Nat, smsRemoved \in Nat, PowerOff, PairInv
    PROVE  PairInv'
  <1> DEFINE new == <<"_OFF">>
  <1>1. /\ lines' = Queued(lines, new) /\ UNCHANGED <<state, seen, connected, smsRemoved>>
        /\ UNCHANGED <<chipIn, link, rxOn, power, smsAnswered>>
    BY DEF PowerOff, AppFrame, machineVars, smsVars, linkVars, pinVars, netVars
  <1>2. "_OFF" \in Lines /\ "_OFF" \in Async /\ Range(new) = {"_OFF"}
    <2>1. "_OFF" \in Lines /\ "_OFF" \in Async
      BY DEF Lines, LinkLines, Async
    <2>2. QED
      BY <2>1, ShortRanges
  <1>3. new \in Seq(Lines)
    BY <1>2, OneElement
  <1>4. Murmurs(new)
    <2>1. "_OFF" \notin Counting
      BY DEF Counting, ShutAnswer, StateAnswer, Closing, OpenAnswer, Context, Apn, OkAnswer
    <2>2. QED
      BY <1>1, <1>2, <2>1 DEF Murmurs
  <1>5. Tells(new)
    BY <1>1, <1>2, <1>3 DEF Tells
  <1>6. Hears(new)
    BY <1>1, <1>3, <1>4, <1>5, MurmursFit DEF Hears
  <1>7. Paired' /\ NotBoth'
    BY <1>6, PairingStays, NotBothStays DEF PairInv
  <1>8. SwitchedOff' /\ Silent' /\ Restarting' /\ OnlineStatesConnected'
    BY <1>1 DEF PairInv, SwitchedOff, Silent, Restarting, OnlineStatesConnected
  <1>9. Told' \subseteq Told \cup {"_OFF"}
    BY <1>2, <1>5, Telling
  <1>10. Deaf'
    <2>1. "_OFF" \notin Context \cup Apn
      BY DEF Context, Apn
    <2>2. QED
      BY <1>1, <1>9, <2>1 DEF PairInv, Deaf
  <1>11. SmsPaired'
    <2>1. smsAnswered' \in {smsAnswered, smsAnswered + 1, smsAnswered + 0}
      BY <1>1
    <2>2. QED
      BY <1>6, <2>1, EnvironmentKeepsSms DEF PairInv
  <1>12. QED
    BY <1>7, <1>8, <1>10, <1>11 DEF PairInv

LEMMA PowerOnKeepsPairs == ASSUME PowerOn, PairInv PROVE PairInv'
  <1>1. /\ state' = "RESET_STAGE_DECIDE" /\ seen' = {} /\ ~rxOn'
        /\ UNCHANGED <<lines, chipIn, link, power, smsAnswered, smsRemoved>>
    BY DEF PowerOn, UsartAction, smsVars, linkVars, netVars
  <1>2. Paired' /\ NotBoth'
    BY <1>1 DEF NotBoth, Paired, ShutPaired, StatePaired, ClosePaired, ContextPaired, ApnPaired,
       OpenPaired, OkPaired, LinkDown, Unannounced, Lap, Hearing
  <1>3. SwitchedOff' /\ Silent' /\ Restarting'
    BY <1>1 DEF PairInv, SwitchedOff, Silent, Restarting
  <1>4. state' \in DeafStates /\ state' \notin DataStates
    BY <1>1, DeafNames
  <1>5. OnlineStatesConnected'
    BY <1>4 DEF OnlineStatesConnected
  <1>6. Deaf'
    <2>1. Told' \subseteq Told
      BY <1>1 DEF Told
    <2>2. Told \cap Context = {} \/ Told \cap Apn = {}
      BY DEF PairInv, NotBoth, Deaf, Fresh
    <2>3. QED
      BY <1>1, <1>4, <2>1, <2>2 DEF Deaf
  <1>7. SmsPaired'
    BY <1>1 DEF PairInv, SmsPaired
  <1>8. QED
    BY <1>2, <1>3, <1>5, <1>6, <1>7 DEF PairInv

LEMMA AppKeepsPairs ==
    ASSUME QueuesOK, link \in Links, smsAnswered \in Nat, smsRemoved \in Nat, App, PairInv
    PROVE  PairInv'
  <1>1. CASE Connect \/ AppSend \/ Disconnect \/ AddSms
    <2>1. UNCHANGED <<state, seen, connected, smsRemoved, chipVars>>
      BY <1>1 DEF Connect, AppSend, Disconnect, AddSms, AppFrame, machineVars, smsVars
    <2>2. QED
      BY <2>1, NothingHappens
  <1>2. QED
    BY <1>1, PowerOffKeepsPairs, PowerOnKeepsPairs DEF App

LEMMA InitPairs == Init => PairInv
  <1> SUFFICES ASSUME Init PROVE PairInv
    OBVIOUS
  <1>1. /\ state = "RESET_STAGE_DECIDE" /\ seen = {} /\ lines = << >> /\ chipIn = << >> /\ ~rxOn
        /\ smsRemoved = 0 /\ smsAnswered = 0 /\ (power = "off" => link = "DOWN")
    BY DEF Init, ChipInit
  <1>2. Told = {}
    BY <1>1, ShortRanges DEF Told
  <1>3. state \in DeafStates /\ state \notin DataStates
    BY <1>1, DeafNames
  <1>4. Paired /\ NotBoth
    BY <1>1, UnheardPaired DEF NotBoth
  <1>5. QED
    BY <1>1, <1>2, <1>3, <1>4 DEF PairInv, SwitchedOff, Silent, Restarting, Deaf, SmsPaired,
       OnlineStatesConnected

(* What the types say of the queues. *)
LEMMA TypedQueues ==
    ASSUME TypeOK
    PROVE  /\ QueuesOK /\ link \in Links /\ rxOn \in BOOLEAN
           /\ smsAnswered \in Nat /\ smsRemoved \in Nat /\ smsCollection \in Nat
  <1>1. QueuesOK /\ link \in Links /\ rxOn \in BOOLEAN /\ smsAnswered \in Nat /\ smsRemoved \in Nat
    BY DEF TypeOK, MachineTypeOK, ChipTypeOK, FlagTypeOK, QueuesOK, Commands
  <1>2. smsCollection \in 0..MAX_SMS /\ MAX_SMS \in Nat
    BY ModemAssumption DEF TypeOK, FlagTypeOK
  <1>3. QED
    BY <1>1, <1>2

LEMMA NextKeepsPairs ==
    TypeOK /\ PairInv /\ [Next]_vars /\ [Drained]_vars => PairInv'
  <1> SUFFICES ASSUME TypeOK, PairInv, [Next]_vars, [Drained]_vars PROVE PairInv'
    OBVIOUS
  <1>1. /\ QueuesOK /\ link \in Links /\ rxOn \in BOOLEAN
        /\ smsAnswered \in Nat /\ smsRemoved \in Nat /\ smsCollection \in Nat
    BY TypedQueues
  <1>2. CASE UNCHANGED vars
    <2>1. UNCHANGED <<state, seen, connected, smsRemoved, chipVars>>
      BY <1>2 DEF vars, modemVars, machineVars, smsVars
    <2>2. QED
      BY <2>1, NothingHappens
  <1>3. CASE Driver \/ TimerExpires
    <2>1. Turn
      BY <1>1, <1>3, DriverTurns
    <2>2. Drained
      <3>1. UNCHANGED vars => ~(state = "RESET_STAGE_POWER_ON" /\ state' = "INIT")
        BY DEF vars, modemVars, machineVars
      <3>2. QED
        BY <3>1 DEF Drained
    <2>3. QED
      BY <1>1, <2>1, <2>2, TurnsKeepInvariant
  <1>4. CASE App
    BY <1>1, <1>4, AppKeepsPairs
  <1>5. CASE Serves \/ Reports \/ Delivers \/ Acks \/ Fails
    <2>1. Environment /\ UNCHANGED modemVars
      BY <1>5 DEF Serves, Reports, Delivers, Acks, Fails, Environment
    <2>2. QED
      BY <1>1, <2>1, EnvironmentKeepsPairs
  <1>6. QED
    BY <1>2, <1>3, <1>4, <1>5 DEF Next

-----------------------------------------------------------------------------
(* Theorems. *)

(* While the modem switches on, which takes it seconds, the machine keeps     *)
(* reading, and the USART delivers nothing: RESET_STAGE_POWER_ON has read the *)
(* old lines when it is left.                                                *)
QueueDrained == [][Drained]_vars

LEMMA PairsInductive == Spec /\ QueueDrained => []PairInv
  <1>1. Spec => []TypeOK
    BY TypesHold
  <1>2. QED
    BY <1>1, InitPairs, NextKeepsPairs, PTL DEF Spec, QueueDrained

(* The driver uses a connection only when onConnected has announced one.      *)
THEOREM OnlineOnlyConnected == Spec /\ QueueDrained => []OnlineStatesConnected
  <1>1. PairInv => OnlineStatesConnected
    BY DEF PairInv
  <1>2. QED
    BY <1>1, PairsInductive, PTL

(* While the driver configures the chip and hears it, there is no connection. *)
THEOREM BootEndsLink == Spec /\ QueueDrained => []BootWithoutLink
  <1>1. PairInv => BootWithoutLink
    <2> SUFFICES ASSUME PairInv, state \in BootStates, rxOn PROVE link = "DOWN"
      BY DEF BootWithoutLink
    <2>1. state \notin ShutDownStates \cup {"GPRS_RESET"}
      BY BusyStates DEF ShutDownStates, BootStates
    <2>2. Lap /\ state \in Unlinked
      BY <2>1 DEF Lap, Hearing, Unlinked
    <2>3. QED
      BY <2>2 DEF PairInv, Paired, LinkDown
  <1>2. QED
    BY <1>1, PairsInductive, PTL

(* A message is removed only when the chip has answered its text.            *)
THEOREM SmsRemovedOnAnswer == Spec /\ QueueDrained => []SmsRemovedOnlyAnswered
  <1>1. PairInv => SmsRemovedOnlyAnswered
    BY DEF PairInv, SmsPaired, SmsRemovedOnlyAnswered
  <1>2. QED
    BY <1>1, PairsInductive, PTL
=============================================================================
