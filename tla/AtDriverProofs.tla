--------------------------- MODULE AtDriverProofs ---------------------------
(***************************************************************************)
(* What the BG96 and the ESP8266 driver do to their buffer: a step leaves  *)
(* it alone, measures a batch, drops it as sent, or appends what the       *)
(* application sends.  These four moves keep NothingGivenUp and            *)
(* BatchInBuffer; a driver has the two invariants because each of its      *)
(* steps is one of the moves.  What both drivers do to the wire keeps its  *)
(* types and the order of delivery, and is a step of the data stream, for  *)
(* the same reason.                                                        *)
(***************************************************************************)
EXTENDS AtDriver, SendBufferProofs, WellFoundedInduction

BatchStates ==
    {"NETWORK_PREPARE_SEND", "NETWORK_SEND", "NETWORK_ACK_CHECK", "NETWORK_ACK_CHECK_PARSE"}

BufferMove ==
    \/ UNCHANGED bufferVars /\ (state' \in BatchStates => state \in BatchStates)
    \/ Prepare /\ dataToSendBuffer # << >>
    \/ DeclareRead /\ state' \notin BatchStates
    \/ AppSend

BufferInv ==
    /\ dataToSendBuffer \in Seq(Nat) /\ bytesToSendInSendStage \in Nat /\ accepted \in Nat
    /\ NothingGivenUp

DataInv == BufferInv /\ BatchInBuffer

(* NothingGivenUp, element by element. *)
LEMMA InOrder ==
    ASSUME NEW buffer \in Seq(Nat), NEW n \in Nat
    PROVE  LET waiting == Len(buffer) IN
           buffer = [i \in 1..waiting |-> n - waiting + i]
           <=> \A i \in 1..waiting : buffer[i] = n - waiting + i
  BY LenProperties

LEMMA Intervals ==
    ASSUME NEW x \in Nat, NEW y \in Nat, x <= y
    PROVE  (1..x) \cup ((x + 1)..y) = 1..y
  OBVIOUS

(* A buffer in order, with the next units appended, is in order. *)
LEMMA AppendInOrder ==
    ASSUME NEW buffer \in Seq(Nat), NEW a \in Nat, NEW n \in Nat, NEW data, NEW all,
           Len(buffer) <= a,
           \A i \in 1..Len(buffer) : buffer[i] = a - Len(buffer) + i,
           data = [i \in 1..n |-> a + i], all = buffer \o data
    PROVE  /\ all \in Seq(Nat) /\ Len(all) = Len(buffer) + n
           /\ all = [i \in 1..Len(all) |-> (a + n) - Len(all) + i]
  <1> DEFINE before == Len(buffer)
  <1>1. before \in Nat
    BY LenProperties
  <1>2. data \in Seq(1..(a + n)) /\ Len(data) = n /\ \A i \in 1..n : data[i] = a + i
    BY NextUnits
  <1>3. data \in Seq(Nat)
    <2>1. 1..(a + n) \subseteq Nat
      OBVIOUS
    <2>2. QED
      BY <1>2, <2>1, SeqMonotonic
  <1>4. /\ all \in Seq(Nat) /\ Len(all) = before + n
        /\ \A i \in 1..(before + n) :
              all[i] = IF i <= before THEN buffer[i] ELSE data[i - before]
    BY <1>2, <1>3, ConcatProperties
  <1>5. ASSUME NEW i \in 1..(before + n) PROVE all[i] = (a + n) - Len(all) + i
    <2>1. CASE i <= before
      BY <1>1, <1>4, <2>1
    <2>2. CASE i > before
      <3>1. i - before \in 1..n
        BY <1>1, <2>2
      <3>2. all[i] = a + (i - before)
        BY <1>1, <1>2, <1>4, <2>2, <3>1
      <3>3. QED
        BY <1>1, <1>4, <3>2
    <2>3. QED
      BY <1>1, <2>1, <2>2
  <1>6. all = [i \in 1..Len(all) |-> (a + n) - Len(all) + i]
    BY <1>4, <1>5, InOrder
  <1>7. QED
    BY <1>4, <1>6

LEMMA InitBuffer == DriverInit => BufferInv
  <1> SUFFICES ASSUME DriverInit PROVE BufferInv
    OBVIOUS
  <1>1. /\ dataToSendBuffer = << >> /\ << >> \in Seq(Nat) /\ Len(<< >>) = 0
        /\ accepted = 0 /\ bytesToSendInSendStage = 0 /\ declared = {}
    BY EmptySeq DEF DriverInit
  <1>2. dataToSendBuffer = [i \in 1..0 |-> 0 - 0 + i]
    BY <1>1, InOrder
  <1>3. QED
    BY <1>1, <1>2 DEF BufferInv, NothingGivenUp

(* Dropping a batch moves its units, the oldest of those that wait, to the    *)
(* units declared sent.                                                      *)
LEMMA DeclareKeepsBuffer == BufferInv /\ DeclareRead => BufferInv'
  <1> SUFFICES ASSUME BufferInv, DeclareRead PROVE BufferInv'
    OBVIOUS
  <1> DEFINE left == Declare(dataToSendBuffer, bytesToSendInSendStage)
             before == Len(dataToSendBuffer)
             after == Len(left)
  <1>1. /\ dataToSendBuffer \in Seq(Nat) /\ bytesToSendInSendStage \in Nat /\ accepted \in Nat
        /\ before <= accepted /\ declared = 1..(accepted - before)
        /\ \A i \in 1..before : dataToSendBuffer[i] = accepted - before + i
    BY InOrder DEF BufferInv, NothingGivenUp
  <1>2. /\ left \in Seq(Nat) /\ after <= before
        /\ \A i \in 1..after : left[i] = dataToSendBuffer[before - after + i]
    BY <1>1, DeclareIsSuffix
  <1>3. before \in Nat /\ after \in Nat
    BY <1>1, <1>2, LenProperties
  <1>4. /\ dataToSendBuffer' = left /\ accepted' = accepted
        /\ bytesToSendInSendStage' = bytesToSendInSendStage
        /\ declared' = declared \cup {dataToSendBuffer[i] : i \in 1..(before - after)}
    BY DEF DeclareRead
  <1> HIDE DEF left
  <1>5. \A i \in 1..after : left[i] = accepted - after + i
    BY <1>1, <1>2, <1>3
  <1>6. left = [i \in 1..after |-> accepted - after + i]
    BY <1>1, <1>2, <1>5, InOrder
  <1>7. {dataToSendBuffer[i] : i \in 1..(before - after)}
            = (accepted - before + 1)..(accepted - after)
    <2>1. ASSUME NEW i \in 1..(before - after)
          PROVE  dataToSendBuffer[i] \in (accepted - before + 1)..(accepted - after)
      <3>1. dataToSendBuffer[i] = accepted - before + i
        BY <1>1, <1>2, <1>3
      <3>2. QED
        BY <1>1, <1>2, <1>3, <3>1
    <2>2. ASSUME NEW u \in (accepted - before + 1)..(accepted - after)
          PROVE  \E i \in 1..(before - after) : dataToSendBuffer[i] = u
      <3>1. u - (accepted - before) \in 1..(before - after)
        BY <1>1, <1>2, <1>3
      <3>2. u - (accepted - before) \in 1..before
        BY <1>1, <1>2, <1>3, <3>1
      <3>3. dataToSendBuffer[u - (accepted - before)] = accepted - before + (u - (accepted - before))
        BY <1>1, <3>2
      <3>4. accepted - before + (u - (accepted - before)) = u
        BY <1>1, <1>3
      <3>5. QED
        BY <3>1, <3>3, <3>4
    <2>3. QED
      BY <2>1, <2>2
  <1>8. declared' = 1..(accepted - after)
    <2>1. accepted - before \in Nat /\ accepted - after \in Nat
          /\ accepted - before <= accepted - after
      BY <1>1, <1>2, <1>3
    <2>2. QED
      BY <1>1, <1>4, <1>7, <2>1, Intervals
  <1>9. after <= accepted
    BY <1>1, <1>2, <1>3
  <1>10. NothingGivenUp'
    BY <1>4, <1>6, <1>8, <1>9 DEF NothingGivenUp
  <1>11. QED
    BY <1>1, <1>2, <1>4, <1>10 DEF BufferInv

LEMMA SendKeepsBuffer ==
    BufferInv /\ AppSend
    => BufferInv' /\ Len(dataToSendBuffer) <= Len(dataToSendBuffer')
  <1> SUFFICES ASSUME BufferInv, AppSend
               PROVE  BufferInv' /\ Len(dataToSendBuffer) <= Len(dataToSendBuffer')
    OBVIOUS
  <1> DEFINE before == Len(dataToSendBuffer)
             after == Len(dataToSendBuffer')
  <1>1. PICK n \in 1..(MAX_UNITS - accepted) :
           /\ dataToSendBuffer' = dataToSendBuffer \o [i \in 1..n |-> accepted + i]
           /\ accepted' = accepted + n
    BY DEF AppSend
  <1>2. UNCHANGED <<bytesToSendInSendStage, declared>>
    BY DEF AppSend
  <1>3. /\ dataToSendBuffer \in Seq(Nat) /\ bytesToSendInSendStage \in Nat /\ accepted \in Nat
        /\ before <= accepted /\ declared = 1..(accepted - before)
        /\ \A i \in 1..before : dataToSendBuffer[i] = accepted - before + i
    BY InOrder DEF BufferInv, NothingGivenUp
  <1>4. n \in Nat /\ before \in Nat
    BY <1>3, LenProperties, DriverAssumption
  <1>5. /\ dataToSendBuffer' \in Seq(Nat) /\ after = before + n
        /\ dataToSendBuffer' = [i \in 1..after |-> (accepted + n) - after + i]
    BY <1>1, <1>3, <1>4, AppendInOrder
  <1>6. accepted' - after = accepted - before /\ after <= accepted' /\ accepted' \in Nat
    BY <1>1, <1>3, <1>4, <1>5
  <1>7. Len(dataToSendBuffer) <= Len(dataToSendBuffer')
    BY <1>4, <1>5
  <1>8. QED
    BY <1>1, <1>2, <1>3, <1>5, <1>6, <1>7 DEF BufferInv, NothingGivenUp

(* A batch is not empty unless the buffer is. *)
LEMMA BatchNotEmpty ==
    ASSUME NEW buffer \in Seq(Nat), buffer # << >>
    PROVE  BatchSize(buffer) \in 1..Len(buffer)
  <1>1. Len(buffer) \in Nat /\ Len(buffer) # 0
    BY EmptySeq, LenProperties
  <1>2. GSM_MAX_BYTES_SEND \in Nat \ {0}
    BY BufferAssumption
  <1>3. QED
    BY <1>1, <1>2 DEF BatchSize

LEMMA MoveKeepsData == DataInv /\ BufferMove => DataInv'
  <1> SUFFICES ASSUME BufferInv, BatchInBuffer, BufferMove PROVE BufferInv' /\ BatchInBuffer'
    BY DEF DataInv
  <1>0. Len(dataToSendBuffer) \in Nat
    BY LenProperties DEF BufferInv
  <1>1. CASE UNCHANGED bufferVars /\ (state' \in BatchStates => state \in BatchStates)
    BY <1>1 DEF bufferVars, BatchStates, BufferInv, NothingGivenUp, BatchInBuffer
  <1>2. CASE Prepare /\ dataToSendBuffer # << >>
    <2>1. BatchSize(dataToSendBuffer) \in 1..Len(dataToSendBuffer)
      BY <1>2, BatchNotEmpty DEF BufferInv
    <2>2. QED
      BY <1>0, <1>2, <2>1 DEF Prepare, BufferInv, NothingGivenUp, BatchInBuffer
  <1>3. CASE DeclareRead /\ state' \notin BatchStates
    BY <1>3, DeclareKeepsBuffer DEF BatchStates, BatchInBuffer
  <1>4. CASE AppSend
    <2>1. /\ BufferInv' /\ Len(dataToSendBuffer) <= Len(dataToSendBuffer')
      BY <1>4, SendKeepsBuffer
    <2>2. UNCHANGED <<state, bytesToSendInSendStage>>
      BY <1>4 DEF AppSend, machineVars
    <2>3. Len(dataToSendBuffer') \in Nat
      BY <2>1, LenProperties DEF BufferInv
    <2>4. QED
      BY <1>0, <2>1, <2>2, <2>3 DEF BatchInBuffer
  <1>5. QED
    BY <1>1, <1>2, <1>3, <1>4 DEF BufferMove

(* The state a rule leads to. *)
LEMMA WhenNext ==
    /\ \A needs, next : When(needs, next).next = next
    /\ \A one, other, next : WhenInOrder(one, other, next).next = next
  BY DEF When, WhenInOrder

(* The steps of the line, the chip and the network are moves.                 *)
LEMMA FrameMoves == UNCHANGED driverVars => BufferMove
  BY DEF driverVars, machineVars, BufferMove

LEMMA SkipMoves == Skip => BufferMove
  BY DEF Skip, BufferMove

-----------------------------------------------------------------------------
(* The types of the shared variables: what waits for the driver is a sequence *)
(* of lines, what waits for the chip one of commands, some with a batch.      *)

IsSeq(s) == \E S : s \in Seq(S)

(* Commands, taken from any set of commands whose data are the given units. *)
Sendable(S, units) == \A command \in S : command.data \in Seq(units)
AreCommands(s, units) == \E S : Sendable(S, units) /\ s \in Seq(S)

(* The units that send () has taken. *)
Known == 1..accepted

WireInv ==
    /\ IsSeq(lines) /\ IsSeq(arriving) /\ AreCommands(chipIn, Known)
    /\ flying \in Seq(Known) /\ delivered \subseteq Known
    /\ DriverTypeOK

(* What a step does to the lines: the driver uses some up, the chip says or    *)
(* unsays some, connect () or the interrupt adds one to the queue.            *)
Hears ==
    /\ arriving # << >> /\ arriving' = Tail(arriving)
    /\ \/ UNCHANGED lines
       \/ Len(lines) # EVENT_QUEUE_SIZE /\ lines' = Append(lines, Head(arriving))

LineMove ==
    \/ UNCHANGED arriving /\ lines' \in {lines, Rest, << >>}
    \/ UNCHANGED arriving /\ \E l : Waiting(l) /\ lines' = Behind(l)
    \/ UNCHANGED arriving /\ Len(lines) < EVENT_QUEUE_SIZE /\ lines' = Append(lines, "_CONN")
    \/ UNCHANGED lines /\ IsSeq(arriving')
    \/ \E new : IsSeq(new) /\ Say(new)
    \/ Hears

(* What a step does to the commands: a batch is sent in a state of a batch only. *)
Transmits(command) ==
    \/ command.data = << >>
    \/ command.data = BatchToSend /\ state \in BatchStates

CommandMove ==
    \/ chipIn' \in {chipIn, << >>} \/ chipIn' = Received(<< >>)
    \/ chipIn # << >> /\ chipIn' = Tail(chipIn)
    \/ \E command : Transmits(command) /\ chipIn' = Received(<<command>>)

(* What a step does to the units on their way. *)
PathMove ==
    \/ flying' \in {flying, << >>} /\ delivered' = delivered
    \/ chipIn # << >> /\ flying' = flying \o Head(chipIn).data /\ delivered' = delivered
    \/ /\ flying # << >> /\ flying' = Tail(flying) /\ delivered' = delivered \cup {Head(flying)}
       /\ UNCHANGED bufferVars

FlagMove ==
    /\ prompt' \in BOOLEAN /\ sendDue' \in BOOLEAN
    /\ UNCHANGED faults \/ Fault

WireMove == LineMove /\ CommandMove /\ PathMove /\ FlagMove

LEMMA PrefixBounds ==
    ASSUME NEW S, NEW s \in Seq(S), NEW n \in Nat, n <= Len(s)
    PROVE  SubSeq(s, 1, n) \in Seq(S) /\ Len(SubSeq(s, 1, n)) = n
  <1>1. Len(s) \in Nat /\ \A i \in 1..n : s[i] \in S
    BY ElementOfSeq, LenProperties
  <1>2. /\ SubSeq(s, 1, n) \in Seq(S)
        /\ Len(SubSeq(s, 1, n)) = IF 1 <= n THEN n - 1 + 1 ELSE 0
    BY <1>1, SubSeqProperties
  <1>3. QED
    BY <1>1, <1>2

LEMMA SuffixBounds ==
    ASSUME NEW S, NEW s \in Seq(S), NEW i \in 1..Len(s)
    PROVE  SubSeq(s, i + 1, Len(s)) \in Seq(S) /\ Len(SubSeq(s, i + 1, Len(s))) < Len(s)
  <1>1. Len(s) \in Nat /\ \A j \in (i + 1)..Len(s) : s[j] \in S
    BY ElementOfSeq, LenProperties
  <1>2. /\ SubSeq(s, i + 1, Len(s)) \in Seq(S)
        /\ Len(SubSeq(s, i + 1, Len(s)))
               = IF i + 1 <= Len(s) THEN Len(s) - (i + 1) + 1 ELSE 0
    BY <1>1, SubSeqProperties
  <1>3. QED
    BY <1>1, <1>2

(* Of the places that hold one of the given lines there is a first one. *)
LEMMA FirstPlace ==
    ASSUME NEW S, NEW s \in Seq(S), NEW L, \E l \in L : l \in Range(s)
    PROVE  \E i \in DOMAIN s : s[i] \in L /\ \A j \in 1..(i - 1) : s[j] \notin L
  <1> DEFINE places == {i \in DOMAIN s : s[i] \in L}
             less == OpToRel(<, Nat)
  <1>1. DOMAIN s = 1..Len(s) /\ Len(s) \in Nat
    BY LenProperties
  <1>2. places # {} /\ places \subseteq Nat
    BY <1>1 DEF Range
  <1>3. IsWellFoundedOn(less, Nat)
    BY NatLessThanWellFounded
  <1>4. \A i, j \in Nat : j < i => <<j, i>> \in less
    BY DEF OpToRel
  <1> HIDE DEF less, places
  <1>5. PICK i \in places : \A j \in places : ~(<<j, i>> \in less)
    BY <1>2, <1>3, WFMin
  <1>6. \A j \in places : ~(j < i)
    BY <1>2, <1>4, <1>5
  <1>7. QED
    BY <1>1, <1>5, <1>6 DEF places

(* What lies behind the first line that a condition matches. *)
LEMMA BehindPlace ==
    ASSUME NEW S, lines \in Seq(S), NEW pattern, Waiting(pattern)
    PROVE  \E i \in 1..Len(lines) : Behind(pattern) = SubSeq(lines, i + 1, Len(lines))
  <1> DEFINE IsFirst(i) == /\ lines[i] \in Matching(pattern)
                           /\ \A j \in 1..(i - 1) : lines[j] \notin Matching(pattern)
             first == CHOOSE i \in DOMAIN lines : IsFirst(i)
  <1>1. \E i \in DOMAIN lines : IsFirst(i)
    BY FirstPlace DEF Waiting
  <1>2. first \in DOMAIN lines
    BY <1>1
  <1>3. first \in 1..Len(lines)
    BY <1>2, LenProperties
  <1>4. Behind(pattern) = SubSeq(lines, first + 1, Len(lines))
    BY DEF Behind
  <1> HIDE DEF first
  <1>5. QED
    BY <1>3, <1>4

LEMMA BehindBounds ==
    ASSUME NEW S, lines \in Seq(S), NEW pattern, Waiting(pattern)
    PROVE  Behind(pattern) \in Seq(S) /\ Len(Behind(pattern)) < Len(lines)
  BY BehindPlace, SuffixBounds

LEMMA AppendLine ==
    ASSUME NEW S, NEW s \in Seq(S), NEW l
    PROVE  IsSeq(Append(s, l)) /\ Len(Append(s, l)) = Len(s) + 1
  <1>1. s \in Seq(S \cup {l})
    BY SeqMonotonic
  <1>2. /\ Append(s, l) \in Seq(S \cup {l})
        /\ Len(Append(s, l)) = Len(s) + 1
    BY <1>1, AppendProperties
  <1>3. QED
    BY <1>2 DEF IsSeq

LEMMA LinesStay == WireInv /\ LineMove => IsSeq(lines') /\ Len(lines') <= EVENT_QUEUE_SIZE
  <1> SUFFICES ASSUME NEW S, lines \in Seq(S), Len(lines) <= EVENT_QUEUE_SIZE, LineMove
               PROVE  IsSeq(lines') /\ Len(lines') <= EVENT_QUEUE_SIZE
    BY DEF WireInv, IsSeq, DriverTypeOK
  <1>1. Len(lines) \in Nat /\ EVENT_QUEUE_SIZE \in Nat /\ << >> \in Seq(S) /\ Len(<< >>) = 0
    BY DriverAssumption, EmptySeq, LenProperties
  <1>2. CASE lines' \in {lines, Rest, << >>}
    <2>1. Rest \in Seq(S) /\ Len(Rest) <= Len(lines)
      <3>1. CASE lines = << >>
        BY <1>1, <3>1 DEF Rest
      <3>2. CASE lines # << >>
        <4>1. Rest = Tail(lines) /\ Len(Tail(lines)) \in Nat
          BY <3>2, TailBounds, LenProperties DEF Rest
        <4>2. QED
          BY <1>1, <3>2, <4>1, TailBounds
      <3>3. QED
        BY <3>1, <3>2
    <2>2. Len(Rest) \in Nat
      BY <2>1, LenProperties
    <2>3. Len(Rest) <= EVENT_QUEUE_SIZE
      BY <1>1, <2>1, <2>2
    <2>4. CASE lines' = lines
      BY <1>1, <2>4 DEF IsSeq
    <2>5. CASE lines' = Rest
      BY <2>1, <2>3, <2>5 DEF IsSeq
    <2>6. CASE lines' = << >>
      BY <1>1, <2>6 DEF IsSeq
    <2>7. QED
      BY <1>2, <2>4, <2>5, <2>6
  <1>3. CASE \E l : Waiting(l) /\ lines' = Behind(l)
    <2>1. PICK l : Waiting(l) /\ lines' = Behind(l)
      BY <1>3
    <2>2. lines' \in Seq(S) /\ Len(lines') < Len(lines)
      BY <2>1, BehindBounds
    <2>3. Len(lines') \in Nat
      BY <2>2, LenProperties
    <2>4. QED
      BY <1>1, <2>2, <2>3 DEF IsSeq
  <1>4. CASE Len(lines) # EVENT_QUEUE_SIZE /\ \E l : lines' = Append(lines, l)
    <2>1. PICK l : lines' = Append(lines, l)
      BY <1>4
    <2>2. IsSeq(lines') /\ Len(lines') = Len(lines) + 1
      BY <2>1, AppendLine
    <2>3. QED
      BY <1>1, <1>4, <2>2
  <1>5. CASE Len(lines) < EVENT_QUEUE_SIZE /\ lines' = Append(lines, "_CONN")
    BY <1>1, <1>4, <1>5
  <1>6. QED
    BY <1>2, <1>3, <1>4, <1>5 DEF LineMove, Say, Hears

(* What the chip is saying is a sequence of lines. *)
LEMMA ArrivingStays == WireInv /\ LineMove => IsSeq(arriving')
  <1> SUFFICES ASSUME NEW S, arriving \in Seq(S), LineMove PROVE IsSeq(arriving')
    BY DEF WireInv, IsSeq
  <1>1. CASE UNCHANGED arriving
    BY <1>1 DEF IsSeq
  <1>2. CASE \E new : IsSeq(new) /\ Say(new)
    <2>1. PICK new, T : new \in Seq(T) /\ arriving' = arriving \o new
      BY <1>2 DEF IsSeq, Say
    <2>2. arriving \in Seq(S \cup T) /\ new \in Seq(S \cup T)
      BY <2>1, SeqMonotonic
    <2>3. QED
      BY <2>1, <2>2, ConcatProperties DEF IsSeq
  <1>3. CASE Hears
    BY <1>3, TailBounds DEF Hears, IsSeq
  <1>4. QED
    BY <1>1, <1>2, <1>3 DEF LineMove

(* The batch of a state of a batch consists of units of the buffer. *)
LEMMA BatchOfUnits ==
    ASSUME DataInv, state \in BatchStates PROVE BatchToSend \in Seq(Known)
  <1> DEFINE waiting == Len(dataToSendBuffer)
  <1>1. /\ bytesToSendInSendStage \in 1..waiting /\ dataToSendBuffer \in Seq(Nat)
        /\ accepted \in Nat /\ waiting <= accepted
        /\ \A i \in 1..waiting : dataToSendBuffer[i] = accepted - waiting + i
    BY InOrder DEF DataInv, BufferInv, BatchInBuffer, NothingGivenUp, BatchStates
  <1>2. waiting \in Nat /\ bytesToSendInSendStage \in Nat /\ bytesToSendInSendStage <= waiting
    BY <1>1, LenProperties
  <1> HIDE DEF waiting
  <1>3. \A i \in 1..waiting : dataToSendBuffer[i] \in Known
    BY <1>1, <1>2 DEF Known
  <1>4. dataToSendBuffer \in Seq(Known)
    BY <1>1, <1>3, SeqOfElements DEF waiting
  <1>5. QED
    BY <1>2, <1>4, PrefixBounds DEF BatchToSend, Batch, waiting

LEMMA CommandsStay ==
    DataInv /\ WireInv /\ CommandMove
    => AreCommands(chipIn', Known) /\ Len(chipIn') <= COMMAND_LIMIT
  <1> SUFFICES ASSUME DataInv, WireInv, CommandMove, NEW S, Sendable(S, Known), chipIn \in Seq(S)
               PROVE  AreCommands(chipIn', Known) /\ Len(chipIn') <= COMMAND_LIMIT
    BY DEF WireInv, AreCommands
  <1>1. /\ Len(chipIn) \in Nat /\ Len(chipIn) <= COMMAND_LIMIT
        /\ COMMAND_LIMIT \in Nat /\ << >> \in Seq(S) /\ Len(<< >>) = 0
    BY DriverAssumption, EmptySeq, LenProperties DEF WireInv, DriverTypeOK
  <1>2. ASSUME NEW T, Sendable(T, Known), NEW commands \in Seq(T), chipIn' = Received(commands)
        PROVE  AreCommands(chipIn', Known) /\ Len(chipIn') <= COMMAND_LIMIT
    <2>1. Sendable(S \cup T, Known)
      BY <1>2 DEF Sendable
    <2>2. chipIn \in Seq(S \cup T) /\ commands \in Seq(S \cup T)
      BY SeqMonotonic
    <2>3. /\ chipIn \o commands \in Seq(S \cup T)
          /\ Len(chipIn \o commands) = Len(chipIn) + Len(commands)
      BY <2>2, ConcatProperties
    <2>4. CASE chipIn' = chipIn
      BY <1>1, <2>4 DEF AreCommands
    <2>5. CASE chipIn' = chipIn \o commands /\ Len(chipIn) + Len(commands) <= COMMAND_LIMIT
      BY <2>1, <2>3, <2>5 DEF AreCommands
    <2>6. QED
      BY <1>2, <2>4, <2>5 DEF Received
  <1>3. CASE chipIn # << >> /\ chipIn' = Tail(chipIn)
    <2>1. Tail(chipIn) \in Seq(S) /\ Len(Tail(chipIn)) < Len(chipIn)
      BY <1>3, TailBounds
    <2>2. Len(Tail(chipIn)) \in Nat
      BY <2>1, LenProperties
    <2>3. Len(Tail(chipIn)) <= COMMAND_LIMIT
      BY <1>1, <2>1, <2>2
    <2>4. QED
      BY <1>3, <2>1, <2>3 DEF AreCommands
  <1>4. CASE \E command : Transmits(command) /\ chipIn' = Received(<<command>>)
    <2>1. PICK command : Transmits(command) /\ chipIn' = Received(<<command>>)
      BY <1>4
    <2>2. command.data \in Seq(Known)
      BY <2>1, BatchOfUnits, EmptySeq DEF Transmits
    <2>3. Sendable({command}, Known)
      BY <2>2 DEF Sendable
    <2>4. <<command>> \in Seq({command})
      OBVIOUS
    <2>5. QED
      BY <1>2, <2>1, <2>3, <2>4
  <1>5. CASE chipIn' = chipIn
    BY <1>1, <1>5 DEF AreCommands
  <1>6. CASE chipIn' = << >>
    BY <1>1, <1>6 DEF AreCommands
  <1>7. CASE chipIn' = Received(<< >>)
    BY <1>1, <1>2, <1>7
  <1>8. QED
    BY <1>3, <1>4, <1>5, <1>6, <1>7 DEF CommandMove

LEMMA PathStays ==
    WireInv /\ PathMove => flying' \in Seq(Known) /\ delivered' \subseteq Known
  <1> SUFFICES ASSUME WireInv, PathMove
               PROVE  flying' \in Seq(Known) /\ delivered' \subseteq Known
    OBVIOUS
  <1>1. flying \in Seq(Known) /\ delivered \subseteq Known
    BY DEF WireInv
  <1>2. CASE flying' \in {flying, << >>} /\ delivered' = delivered
    BY <1>1, <1>2, EmptySeq
  <1>3. CASE chipIn # << >> /\ flying' = flying \o Head(chipIn).data /\ delivered' = delivered
    <2>1. PICK S : Sendable(S, Known) /\ chipIn \in Seq(S)
      BY DEF WireInv, AreCommands
    <2>2. Head(chipIn) \in S
      BY <1>3, <2>1, TailBounds
    <2>3. Head(chipIn).data \in Seq(Known)
      BY <2>1, <2>2 DEF Sendable
    <2>4. QED
      BY <1>1, <1>3, <2>3, ConcatProperties
  <1>4. CASE flying # << >> /\ flying' = Tail(flying) /\ delivered' = delivered \cup {Head(flying)}
    BY <1>1, <1>4, TailBounds
  <1>5. QED
    BY <1>2, <1>3, <1>4 DEF PathMove

BufferTypes ==
    /\ dataToSendBuffer \in Seq(Units) /\ Len(dataToSendBuffer) <= OUTPUT_BUFFER_SIZE
    /\ bytesToSendInSendStage \in 0..GSM_MAX_BYTES_SEND
    /\ accepted \in 0..MAX_UNITS /\ declared \subseteq Units

LEMMA BufferStays == DataInv /\ BufferTypes /\ BufferMove => BufferTypes'
  <1> SUFFICES ASSUME DataInv, BufferTypes, BufferMove PROVE BufferTypes'
    OBVIOUS
  <1>0. /\ Len(dataToSendBuffer) \in Nat /\ OUTPUT_BUFFER_SIZE \in Nat /\ MAX_UNITS \in Nat
        /\ GSM_MAX_BYTES_SEND \in Nat
    BY LenProperties, BufferAssumption, DriverAssumption DEF BufferTypes
  <1>1. CASE UNCHANGED bufferVars
    BY <1>1 DEF bufferVars, BufferTypes
  <1>2. CASE Prepare
    BY <1>2, BatchSizeBounded DEF Prepare, BufferTypes
  <1>3. CASE DeclareRead
    <2> DEFINE left == Declare(dataToSendBuffer, bytesToSendInSendStage)
    <2>1. dataToSendBuffer \in Seq(Units) /\ bytesToSendInSendStage \in Nat
      BY <1>0 DEF BufferTypes
    <2>2. left \in Seq(Units) /\ Len(left) <= Len(dataToSendBuffer)
      BY <2>1, DeclareIsSuffix
    <2>3. Len(left) \in Nat
      BY <2>2, LenProperties
    <2>4. /\ dataToSendBuffer' = left
          /\ declared' = declared \cup
                 {dataToSendBuffer[i] : i \in 1..(Len(dataToSendBuffer) - Len(left))}
          /\ UNCHANGED <<bytesToSendInSendStage, accepted>>
      BY <1>3 DEF DeclareRead
    <2> HIDE DEF left
    <2>5. \A i \in 1..(Len(dataToSendBuffer) - Len(left)) : dataToSendBuffer[i] \in Units
      <3>1. \A i \in 1..(Len(dataToSendBuffer) - Len(left)) : i \in 1..Len(dataToSendBuffer)
        BY <1>0, <2>3
      <3>2. QED
        BY <2>1, <3>1, ElementOfSeq
    <2>6. declared' \subseteq Units
      BY <2>4, <2>5 DEF BufferTypes
    <2>7. QED
      BY <1>0, <2>2, <2>3, <2>4, <2>6 DEF BufferTypes
  <1>4. CASE AppSend
    <2>1. PICK n \in 1..(MAX_UNITS - accepted) :
             LET data == [i \in 1..n |-> accepted + i] IN
             /\ Fits(dataToSendBuffer, data)
             /\ dataToSendBuffer' = dataToSendBuffer \o data
             /\ accepted' = accepted + n
             /\ UNCHANGED <<bytesToSendInSendStage, declared>>
      BY <1>4 DEF AppSend
    <2> DEFINE data == [i \in 1..n |-> accepted + i]
    <2>2. accepted \in Nat /\ n \in Nat /\ accepted + n <= MAX_UNITS
      BY <1>0 DEF BufferTypes
    <2>3. data \in Seq(Units) /\ Len(data) = n
      BY <1>0, <2>2, NextUnits DEF Units
    <2>4. /\ Len(dataToSendBuffer) + Len(data) <= OUTPUT_BUFFER_SIZE
          /\ dataToSendBuffer' = dataToSendBuffer \o data
          /\ accepted' = accepted + n /\ UNCHANGED <<bytesToSendInSendStage, declared>>
      BY <2>1 DEF Fits
    <2> HIDE DEF data
    <2>5. /\ dataToSendBuffer \o data \in Seq(Units)
          /\ Len(dataToSendBuffer \o data) = Len(dataToSendBuffer) + Len(data)
      BY <2>3, ConcatProperties DEF BufferTypes
    <2>6. QED
      BY <1>0, <2>2, <2>4, <2>5 DEF BufferTypes
  <1>5. QED
    BY <1>1, <1>2, <1>3, <1>4 DEF BufferMove

(* send () takes more units, and nothing takes one back. *)
LEMMA KnownGrows ==
    ASSUME DataInv, BufferMove
    PROVE  Known \subseteq Known' /\ Known' = 1..(accepted') /\ accepted \in Nat /\ accepted' \in Nat
  <1>1. accepted \in Nat
    BY DEF DataInv, BufferInv
  <1>2. accepted' = accepted \/ \E n \in Nat : accepted' = accepted + n
    <2>1. CASE AppSend
      <3>1. PICK n \in 1..(MAX_UNITS - accepted) : accepted' = accepted + n
        BY <2>1 DEF AppSend
      <3>2. n \in Nat
        BY <1>1, DriverAssumption
      <3>3. QED
        BY <3>1, <3>2
    <2>2. QED
      BY <2>1 DEF BufferMove, bufferVars, Prepare, DeclareRead
  <1>3. accepted' \in Nat /\ accepted <= accepted'
    BY <1>1, <1>2
  <1>4. QED
    BY <1>1, <1>3 DEF Known

LEMMA MoveKeepsWire == DataInv /\ WireInv /\ BufferMove /\ WireMove => WireInv'
  <1> SUFFICES ASSUME DataInv, WireInv, BufferMove, WireMove PROVE WireInv'
    OBVIOUS
  <1>1. IsSeq(lines') /\ Len(lines') <= EVENT_QUEUE_SIZE /\ IsSeq(arriving')
    BY LinesStay, ArrivingStays DEF WireMove
  <1>2. AreCommands(chipIn', Known) /\ Len(chipIn') <= COMMAND_LIMIT
    BY CommandsStay DEF WireMove
  <1>3. flying' \in Seq(Known) /\ delivered' \subseteq Known
    BY PathStays DEF WireMove
  <1>4. Known \subseteq Known'
    BY KnownGrows
  <1>5. BufferTypes'
    BY BufferStays DEF BufferTypes, WireInv, DriverTypeOK
  <1>6. AreCommands(chipIn', Known')
    <2>1. PICK S : Sendable(S, Known) /\ chipIn' \in Seq(S)
      BY <1>2 DEF AreCommands
    <2>2. Sendable(S, Known')
      BY <1>4, <2>1, SeqMonotonic DEF Sendable
    <2>3. QED
      BY <2>1, <2>2 DEF AreCommands
  <1>7. flying' \in Seq(Known') /\ delivered' \subseteq Known'
    BY <1>3, <1>4, SeqMonotonic
  <1>8. flying' \in Seq(Units) /\ delivered' \subseteq Units
    <2>1. Known' = 1..accepted' /\ accepted' \in 0..MAX_UNITS /\ MAX_UNITS \in Nat
      BY <1>5, KnownGrows, DriverAssumption DEF BufferTypes
    <2>2. Known' \subseteq Units
      BY <2>1 DEF Units
    <2>3. QED
      BY <1>7, <2>2, SeqMonotonic
  <1>9. prompt' \in BOOLEAN /\ sendDue' \in BOOLEAN
    BY DEF WireMove, FlagMove
  <1>10. faults' \in 0..MAX_FAULTS
    <2>1. faults \in 0..MAX_FAULTS /\ MAX_FAULTS \in Nat
      BY DriverAssumption DEF WireInv, DriverTypeOK
    <2>2. QED
      BY <2>1 DEF WireMove, FlagMove, Fault
  <1>11. DriverTypeOK'
    BY <1>1, <1>2, <1>5, <1>8, <1>9, <1>10 DEF DriverTypeOK, BufferTypes
  <1>12. QED
    BY <1>1, <1>6, <1>7, <1>11 DEF WireInv, IsSeq, AreCommands, Sendable

LEMMA InitWire == DriverInit => WireInv
  <1> SUFFICES ASSUME DriverInit PROVE WireInv
    OBVIOUS
  <1>1. << >> \in Seq({}) /\ << >> \in Seq(Units) /\ Len(<< >>) = 0
    BY EmptySeq
  <1>2. /\ EVENT_QUEUE_SIZE \in Nat /\ COMMAND_LIMIT \in Nat /\ OUTPUT_BUFFER_SIZE \in Nat
        /\ GSM_MAX_BYTES_SEND \in Nat /\ MAX_UNITS \in Nat /\ MAX_FAULTS \in Nat
    BY DriverAssumption, BufferAssumption
  <1>3. IsSeq(lines) /\ IsSeq(arriving) /\ AreCommands(chipIn, Known)
        /\ flying \in Seq(Known) /\ flying \in Seq(Units)
    <2>1. Sendable({}, Known) /\ << >> \in Seq(Known)
      BY EmptySeq DEF Sendable
    <2>2. QED
      BY <1>1, <2>1 DEF DriverInit, IsSeq, AreCommands
  <1>4. Len(lines) <= EVENT_QUEUE_SIZE /\ Len(chipIn) <= COMMAND_LIMIT
    BY <1>1, <1>2 DEF DriverInit
  <1>5. BufferTypes
    <2>1. dataToSendBuffer \in Seq(Units) /\ Len(dataToSendBuffer) <= OUTPUT_BUFFER_SIZE
      BY <1>1, <1>2 DEF DriverInit
    <2>2. QED
      BY <1>2, <2>1 DEF DriverInit, BufferTypes
  <1>6. delivered \subseteq Units /\ prompt \in BOOLEAN /\ sendDue \in BOOLEAN /\ faults \in 0..MAX_FAULTS
    <2>1. prompt \in BOOLEAN /\ sendDue \in BOOLEAN
      BY Zenon DEF DriverInit
    <2>2. faults = 0 /\ delivered = {}
      BY Zenon DEF DriverInit
    <2>3. 0 \in 0..MAX_FAULTS
      BY <1>2
    <2>4. QED
      BY <2>1, <2>2, <2>3, Zenon
  <1>7. delivered \subseteq Known
    BY DEF DriverInit
  <1>8. QED
    BY <1>3, <1>4, <1>5, <1>6, <1>7 DEF WireInv, DriverTypeOK, BufferTypes

(* What the chip says is a sequence of lines, whatever it answers. *)
LEMMA AnswerIsSeq ==
    ASSUME NEW text, NEW answers, IsSeq(answers) PROVE IsSeq(<<text>> \o answers)
  <1>1. PICK S : answers \in Seq(S)
    BY DEF IsSeq
  <1>2. <<text>> \in Seq(S \cup {text}) /\ answers \in Seq(S \cup {text})
    BY <1>1, SeqMonotonic
  <1>3. QED
    BY <1>2, ConcatProperties DEF IsSeq

LEMMA ShortIsSeq ==
    ASSUME NEW a, NEW b, NEW c
    PROVE  IsSeq(<< >>) /\ IsSeq(<<a>>) /\ IsSeq(<<a, b>>) /\ IsSeq(<<a, b, c>>)
  <1>1. << >> \in Seq({a}) /\ <<a>> \in Seq({a})
    OBVIOUS
  <1>2. <<a, b>> \in Seq({a, b})
    OBVIOUS
  <1>3. <<a, b, c>> \in Seq({a, b, c})
    OBVIOUS
  <1>4. QED
    BY <1>1, <1>2, <1>3 DEF IsSeq

(* The parts of a move of the wires, from the parts of a step. *)
LEMMA SaysLines ==
    (\E new : IsSeq(new) /\ Say(new)) \/ UNCHANGED <<lines, arriving>> => LineMove
  BY DEF LineMove

LEMMA TakesCommands ==
    UNCHANGED chipIn \/ chipIn' = << >> \/ (chipIn # << >> /\ chipIn' = Tail(chipIn))
    => CommandMove
  BY DEF CommandMove

LEMMA PathRests ==
    UNCHANGED delivered /\ (UNCHANGED flying \/ flying' = << >>) => PathMove
  BY DEF PathMove

LEMMA FlagsRest ==
    ASSUME WireInv, UNCHANGED faults \/ Fault,
           UNCHANGED prompt \/ prompt' \in BOOLEAN, UNCHANGED sendDue \/ sendDue' \in BOOLEAN
    PROVE  FlagMove
  BY Zenon DEF FlagMove, WireInv, DriverTypeOK

(* The steps both chips have in common. *)
LEMMA SharedWires ==
    ASSUME WireInv,
           \/ ChipTakesData \/ ChipSendOk \/ ChipMissesCommand \/ ChipSendFails \/ NetDelivers
           \/ LineArrives
           \/ \E announcements : LinkLost(announcements)
    PROVE  WireMove
  <1>1. CASE ChipTakesData
    <2>1. LineMove /\ CommandMove
      BY <1>1, SaysLines, TakesCommands DEF ChipTakesData, Takes
    <2>2. PathMove
      BY <1>1 DEF ChipTakesData, Takes, PathMove
    <2>3. FlagMove
      BY <1>1, FlagsRest, Zenon DEF ChipTakesData
    <2>4. QED
      BY <2>1, <2>2, <2>3 DEF WireMove
  <1>2. CASE ChipSendOk \/ ChipSendFails
    <2>1. LineMove
      BY <1>2, SaysLines, ShortIsSeq DEF ChipSendOk, ChipSendFails
    <2>2. CommandMove /\ PathMove
      BY <1>2, TakesCommands, PathRests DEF ChipSendOk, ChipSendFails
    <2>3. FlagMove
      BY <1>2, FlagsRest, Zenon DEF ChipSendOk, ChipSendFails
    <2>4. QED
      BY <2>1, <2>2, <2>3 DEF WireMove
  <1>3. CASE ChipMissesCommand
    <2>1. LineMove /\ CommandMove /\ PathMove
      BY <1>3, SaysLines, TakesCommands, PathRests DEF ChipMissesCommand, linkVars
    <2>2. FlagMove
      BY <1>3, FlagsRest, Zenon DEF ChipMissesCommand, linkVars
    <2>3. QED
      BY <2>1, <2>2 DEF WireMove
  <1>4. CASE NetDelivers
    <2>1. LineMove /\ CommandMove
      BY <1>4, SaysLines, TakesCommands DEF NetDelivers
    <2>2. PathMove
      BY <1>4 DEF NetDelivers, PathMove, driverVars
    <2>3. FlagMove
      BY <1>4, FlagsRest, Zenon DEF NetDelivers
    <2>4. QED
      BY <2>1, <2>2, <2>3 DEF WireMove
  <1>5. CASE \E announcements : LinkLost(announcements)
    <2>1. PICK announcements : LinkLost(announcements)
      BY <1>5
    <2>2. LineMove
      BY <2>1, SaysLines, ShortIsSeq DEF LinkLost
    <2>3. CommandMove /\ PathMove
      BY <2>1, TakesCommands, PathRests DEF LinkLost, Hangup
    <2>4. FlagMove
      BY <2>1, FlagsRest, Zenon DEF LinkLost, Hangup
    <2>5. QED
      BY <2>2, <2>3, <2>4 DEF WireMove
  <1>6. CASE LineArrives
    <2>1. LineMove
      BY <1>6 DEF LineArrives, LineMove, Hears
    <2>2. CommandMove /\ PathMove
      BY <1>6, TakesCommands, PathRests DEF LineArrives, linkVars
    <2>3. FlagMove
      BY <1>6, FlagsRest, Zenon DEF LineArrives, linkVars
    <2>4. QED
      BY <2>1, <2>2, <2>3 DEF WireMove
  <1>7. QED
    BY <1>1, <1>2, <1>3, <1>4, <1>5, <1>6

LEMMA PromptWires ==
    ASSUME WireInv, NEW announcement, NEW reply, NEW refusal, IsSeq(reply), IsSeq(refusal),
           ChipPrompts(announcement, reply, refusal)
    PROVE  WireMove
  <1>1. LineMove
    BY SaysLines DEF ChipPrompts
  <1>2. CommandMove /\ PathMove
    BY TakesCommands, PathRests DEF ChipPrompts, Serve, Takes
  <1>3. FlagMove
    BY FlagsRest, Zenon DEF ChipPrompts
  <1>4. QED
    BY <1>1, <1>2, <1>3 DEF WireMove

LEMMA RestWires ==
    WireInv /\ (AppSend \/ UNCHANGED <<lines, arriving, chipIn, linkVars, delivered, faults>>) => WireMove
  <1> SUFFICES ASSUME WireInv, UNCHANGED <<lines, arriving, chipIn, linkVars, delivered, faults>>
               PROVE  WireMove
    BY DEF AppSend, lineVars
  <1>1. LineMove /\ CommandMove /\ PathMove
    BY SaysLines, TakesCommands, PathRests DEF linkVars
  <1>2. FlagMove
    BY FlagsRest, Zenon DEF linkVars
  <1>3. QED
    BY <1>1, <1>2 DEF WireMove

-----------------------------------------------------------------------------
(* The order on the way to the peer: every batch that waits for the chip, the *)
(* units the chip took, and those that have arrived are in their turn, behind *)
(* the units that were dropped as sent.                                      *)

Batches == {chipIn[i].data : i \in 1..Len(chipIn)}

FlightInv == Flight(Batches, flying, delivered, declared)

DriverInv == DataInv /\ WireInv /\ FlightInv

LEMMA BatchesOfUnits == WireInv => \A b \in Batches : b \in Seq(Known)
  <1> SUFFICES ASSUME WireInv, NEW i \in 1..Len(chipIn) PROVE chipIn[i].data \in Seq(Known)
    BY DEF Batches
  <1>1. PICK S : Sendable(S, Known) /\ chipIn \in Seq(S)
    BY DEF WireInv, AreCommands
  <1>2. chipIn[i] \in S
    BY <1>1, ElementOfSeq
  <1>3. QED
    BY <1>1, <1>2 DEF Sendable

(* What is new among the batches is in its turn. *)
LEMMA NewBatches ==
    ASSUME DataInv, WireInv, CommandMove
    PROVE  \A b \in Batches' : b \in Batches \/ InTurn(b, declared)
  <1>1. PICK S : chipIn \in Seq(S)
    BY DEF WireInv, AreCommands
  <1>2. Len(chipIn) \in Nat /\ Batches' = {chipIn'[i].data : i \in 1..Len(chipIn')}
    BY <1>1, LenProperties DEF Batches
  <1>3. CASE chipIn' = chipIn
    BY <1>2, <1>3 DEF Batches
  <1>4. CASE chipIn' = << >>
    BY <1>2, <1>4, EmptySeq
  <1>5. CASE chipIn' = Received(<< >>)
    <2>1. chipIn \o << >> = chipIn
      BY <1>1, ConcatEmptySeq
    <2>2. QED
      BY <1>3, <1>5, <2>1 DEF Received
  <1>6. CASE chipIn # << >> /\ chipIn' = Tail(chipIn)
    <2>1. Len(chipIn') = Len(chipIn) - 1 /\ \A i \in 1..Len(chipIn') : chipIn'[i] = chipIn[i + 1]
      BY <1>1, <1>6, HeadTailProperties
    <2>2. \A i \in 1..Len(chipIn') : i + 1 \in 1..Len(chipIn)
      BY <1>2, <2>1
    <2>3. QED
      BY <1>2, <2>1, <2>2 DEF Batches
  <1>7. CASE \E command : Transmits(command) /\ chipIn' = Received(<<command>>)
    <2>1. PICK command : Transmits(command) /\ chipIn' = Received(<<command>>)
      BY <1>7
    <2>2. CASE chipIn' = chipIn
      BY <1>3, <2>2
    <2>3. CASE chipIn' = chipIn \o <<command>>
      <3>1. chipIn \in Seq(S \cup {command}) /\ <<command>> \in Seq(S \cup {command})
        BY <1>1, SeqMonotonic
      <3>2. /\ Len(chipIn') = Len(chipIn) + 1
            /\ \A i \in 1..(Len(chipIn) + 1) :
                  chipIn'[i] = IF i <= Len(chipIn) THEN chipIn[i] ELSE <<command>>[i - Len(chipIn)]
        BY <2>3, <3>1, ConcatProperties
      <3>3. \A i \in 1..Len(chipIn') :
               (i \in 1..Len(chipIn) /\ chipIn'[i] = chipIn[i]) \/ chipIn'[i] = command
        BY <1>2, <3>2
      <3>4. InTurn(command.data, declared)
        <4>1. CASE command.data = << >>
          BY <4>1, EmptySeq DEF InTurn
        <4>2. CASE command.data = BatchToSend /\ state \in BatchStates
          <5> DEFINE waiting == Len(dataToSendBuffer)
                     g == accepted - waiting
          <5>1. /\ bytesToSendInSendStage \in 1..waiting /\ dataToSendBuffer \in Seq(Nat)
                /\ accepted \in Nat /\ waiting <= accepted /\ declared = 1..g
                /\ \A i \in 1..waiting : dataToSendBuffer[i] = g + i
            BY <4>2, InOrder DEF DataInv, BufferInv, BatchInBuffer, NothingGivenUp, BatchStates
          <5>2. waiting \in Nat
            BY <5>1, LenProperties
          <5>3. g \in Nat /\ bytesToSendInSendStage \in 0..waiting
            BY <5>1, <5>2
          <5> HIDE DEF g
          <5>4. InTurn(Batch(dataToSendBuffer, bytesToSendInSendStage), 1..g)
            BY <5>1, <5>3, BatchInTurn
          <5>5. QED
            BY <4>2, <5>1, <5>4 DEF BatchToSend
        <4>3. QED
          BY <2>1, <4>1, <4>2 DEF Transmits
      <3>5. QED
        BY <1>2, <3>3, <3>4 DEF Batches
    <2>4. QED
      BY <2>1, <2>2, <2>3 DEF Received
  <1>8. QED
    BY <1>3, <1>4, <1>5, <1>6, <1>7 DEF CommandMove

LEMMA MoveKeepsFlight == DriverInv /\ BufferMove /\ WireMove => FlightInv'
  <1> SUFFICES ASSUME DataInv, WireInv, FlightInv, BufferMove, CommandMove, PathMove
               PROVE  FlightInv'
    BY DEF DriverInv, WireMove
  <1>1. accepted \in Nat /\ Known \subseteq Nat
    BY DEF DataInv, BufferInv, Known
  <1>2. flying \in Seq(Nat) /\ \A b \in Batches : b \in Seq(Nat)
    BY <1>1, BatchesOfUnits, SeqMonotonic DEF WireInv
  <1>3. declared \subseteq declared'
    BY DEF BufferMove, bufferVars, Prepare, DeclareRead, AppSend
  <1>4. \A b \in Batches' : b \in Batches \/ InTurn(b, declared')
    BY <1>3, NewBatches, InTurnStays
  <1>5. \/ flying' \in {flying, << >>} /\ delivered' = delivered
        \/ delivered' = delivered /\ \E b \in Batches : flying' = flying \o b
        \/ flying # << >> /\ flying' = Tail(flying) /\ delivered' = delivered \cup {Head(flying)}
    <2>1. chipIn # << >> => Head(chipIn).data \in Batches
      <3>1. PICK S : chipIn \in Seq(S)
        BY DEF WireInv, AreCommands
      <3>2. chipIn # << >> => Len(chipIn) \in Nat \ {0} /\ Head(chipIn) = chipIn[1]
        BY <3>1, EmptySeq, HeadTailProperties, LenProperties
      <3>3. chipIn # << >> => 1 \in 1..Len(chipIn)
        BY <3>2
      <3>4. QED
        BY <3>2, <3>3 DEF Batches
    <2>2. QED
      BY <2>1 DEF PathMove
  <1>6. Flight(Batches, flying, delivered, declared)
    BY DEF FlightInv
  <1>7. Flight(Batches', flying', delivered', declared')
    BY <1>2, <1>3, <1>4, <1>5, <1>6, FlightGoesOn
  <1>8. QED
    BY <1>7 DEF FlightInv, Flight, InTurn, Batches

LEMMA MoveKeepsDriver == DriverInv /\ BufferMove /\ WireMove => DriverInv'
  <1> SUFFICES ASSUME DriverInv, BufferMove, WireMove PROVE DriverInv'
    OBVIOUS
  <1>1. FlightInv'
    BY MoveKeepsFlight
  <1>2. DataInv' /\ WireInv'
    BY MoveKeepsData, MoveKeepsWire DEF DriverInv
  <1>3. QED
    BY <1>1, <1>2 DEF DriverInv

LEMMA InitDriver == DriverInit /\ state \notin BatchStates => DriverInv
  <1> SUFFICES ASSUME DriverInit, state \notin BatchStates PROVE DriverInv
    OBVIOUS
  <1>1. DataInv /\ WireInv
    BY InitBuffer, InitWire DEF DataInv, BatchInBuffer, BatchStates
  <1>2. flying = << >> /\ chipIn = << >> /\ delivered = {} /\ Len(<< >>) = 0
    BY EmptySeq DEF DriverInit
  <1>3. Batches = {} /\ InTurn(flying, delivered \cup declared)
    BY <1>2 DEF Batches, InTurn
  <1>4. FlightInv
    BY <1>2, <1>3 DEF FlightInv, Flight
  <1>5. QED
    BY <1>1, <1>4 DEF DriverInv

LEMMA DriverOrder == DriverInv => NothingOvertakes
  BY DEF DriverInv, FlightInv, Flight, NothingOvertakes

-----------------------------------------------------------------------------
(* The steps of DataStream.  While the peer has what was dropped as sent, a   *)
(* step of the driver or the chip takes units, brings one to the peer,        *)
(* reports some as sent, or does none of this.                               *)

FirstWaiting == accepted - Len(dataToSendBuffer) + 1

StreamMove ==
    \/ UNCHANGED <<accepted, FirstWaiting, declared, delivered>>
    \/ /\ accepted' > accepted /\ accepted' \in Nat
       /\ UNCHANGED <<FirstWaiting, declared, delivered>>
    \/ /\ \E u \in 1..accepted :
             1..(u - 1) \subseteq delivered /\ delivered' = delivered \cup {u}
       /\ UNCHANGED <<accepted, FirstWaiting, declared>>
    \/ /\ FirstWaiting' \in (FirstWaiting + 1)..(accepted + 1)
       /\ FirstWaiting..(FirstWaiting' - 1) \subseteq delivered
       /\ declared' = declared \cup (FirstWaiting..(FirstWaiting' - 1))
       /\ UNCHANGED <<accepted, delivered>>

(* Dropping units that the peer has reports them. *)
LEMMA DeclareReports ==
    ASSUME DataInv, DeclareRead, UNCHANGED delivered, NoLoss' PROVE StreamMove
  <1> DEFINE before == Len(dataToSendBuffer)
             after == Len(dataToSendBuffer')
  <1>1. /\ dataToSendBuffer \in Seq(Nat) /\ dataToSendBuffer' \in Seq(Nat)
        /\ accepted \in Nat /\ accepted' = accepted
        /\ before <= accepted /\ declared = 1..(accepted - before)
        /\ after <= accepted /\ declared' = 1..(accepted - after)
    BY DeclareKeepsBuffer DEF DataInv, BufferInv, NothingGivenUp, DeclareRead
  <1>2. after <= before
    BY <1>1, DeclareIsSuffix DEF DataInv, BufferInv, DeclareRead
  <1>3. before \in Nat /\ after \in Nat
    BY <1>1, LenProperties
  <1>4. FirstWaiting = accepted - before + 1 /\ FirstWaiting' = accepted - after + 1
    BY <1>1 DEF FirstWaiting
  <1> HIDE DEF before, after
  <1>5. CASE after = before
    BY <1>1, <1>4, <1>5 DEF StreamMove
  <1>6. CASE after < before
    <2>1. FirstWaiting' \in (FirstWaiting + 1)..(accepted + 1)
      BY <1>1, <1>2, <1>3, <1>4, <1>6
    <2>2. FirstWaiting..(FirstWaiting' - 1) \subseteq declared'
      BY <1>1, <1>2, <1>3, <1>4
    <2>3. declared' \subseteq delivered
      BY DEF NoLoss
    <2>4. declared' = declared \cup (FirstWaiting..(FirstWaiting' - 1))
      BY <1>1, <1>2, <1>3, <1>4
    <2>5. QED
      BY <1>1, <2>1, <2>2, <2>3, <2>4 DEF StreamMove
  <1>7. QED
    BY <1>2, <1>3, <1>5, <1>6

LEMMA SendAccepts == ASSUME DataInv, AppSend, UNCHANGED delivered PROVE StreamMove
  <1>1. /\ BufferInv' /\ dataToSendBuffer \in Seq(Nat) /\ dataToSendBuffer' \in Seq(Nat)
        /\ accepted \in Nat /\ accepted' \in Nat
    BY SendKeepsBuffer DEF DataInv, BufferInv
  <1>2. PICK n \in 1..(MAX_UNITS - accepted) :
           /\ dataToSendBuffer' = dataToSendBuffer \o [i \in 1..n |-> accepted + i]
           /\ accepted' = accepted + n /\ UNCHANGED declared
    BY DEF AppSend
  <1>3. n \in Nat /\ n > 0 /\ accepted + n <= MAX_UNITS /\ MAX_UNITS \in Nat
    BY <1>1, DriverAssumption
  <1> DEFINE data == [i \in 1..n |-> accepted + i]
  <1>4. data \in Seq(1..MAX_UNITS) /\ Len(data) = n
    BY <1>1, <1>3, NextUnits
  <1>5. data \in Seq(Nat)
    <2>1. 1..MAX_UNITS \subseteq Nat
      OBVIOUS
    <2>2. QED
      BY <1>4, <2>1, SeqMonotonic
  <1>6. dataToSendBuffer' = dataToSendBuffer \o data
    BY <1>2
  <1> HIDE DEF data
  <1>7. Len(dataToSendBuffer') = Len(dataToSendBuffer) + n
    BY <1>1, <1>4, <1>5, <1>6, ConcatProperties
  <1>8. Len(dataToSendBuffer) \in Nat
    BY <1>1, LenProperties
  <1>9. UNCHANGED FirstWaiting
    BY <1>1, <1>2, <1>3, <1>7, <1>8 DEF FirstWaiting
  <1>10. accepted' > accepted
    BY <1>1, <1>2, <1>3
  <1>11. QED
    BY <1>1, <1>2, <1>9, <1>10 DEF StreamMove

(* Only the network brings units to the peer, and it leaves the buffer alone. *)
LEMMA PathLeavesBuffer == PathMove => UNCHANGED delivered \/ UNCHANGED bufferVars
  BY DEF PathMove

LEMMA MoveIsStreamMove ==
    ASSUME DriverInv, NoLoss, NoLoss', BufferMove, WireMove PROVE StreamMove
  <1>1. CASE UNCHANGED bufferVars
    <2>1. UNCHANGED <<accepted, FirstWaiting, declared>>
      BY <1>1 DEF bufferVars, FirstWaiting
    <2>2. CASE UNCHANGED delivered
      BY <2>1, <2>2 DEF StreamMove
    <2>3. CASE flying # << >> /\ delivered' = delivered \cup {Head(flying)}
      <3>1. flying \in Seq(1..accepted) /\ accepted \in Nat
        BY DEF DriverInv, DataInv, BufferInv, WireInv, Known
      <3>2. Head(flying) \in 1..accepted
        BY <2>3, <3>1, TailBounds
      <3>3. 1..(Head(flying) - 1) \subseteq delivered \cup declared
        <4>1. flying \in Seq(Nat)
          BY <3>1, SeqMonotonic
        <4>2. InTurn(flying, delivered \cup declared)
          BY DEF DriverInv, FlightInv, Flight
        <4>3. QED
          BY <2>3, <4>1, <4>2, FirstInTurn
      <3>4. delivered \cup declared = delivered
        BY DEF NoLoss
      <3>5. QED
        BY <2>1, <2>3, <3>2, <3>3, <3>4 DEF StreamMove
    <2>4. QED
      BY <2>2, <2>3 DEF WireMove, PathMove
  <1>2. CASE UNCHANGED delivered /\ ~UNCHANGED bufferVars
    <2>1. CASE Prepare
      BY <1>2, <2>1 DEF Prepare, StreamMove, FirstWaiting
    <2>2. CASE DeclareRead
      BY <1>2, <2>2, DeclareReports DEF DriverInv
    <2>3. CASE AppSend
      BY <1>2, <2>3, SendAccepts DEF DriverInv
    <2>4. QED
      BY <1>2, <2>1, <2>2, <2>3 DEF BufferMove
  <1>3. PathMove
    BY DEF WireMove
  <1>4. UNCHANGED delivered \/ UNCHANGED bufferVars
    BY <1>3, PathLeavesBuffer
  <1>5. QED
    BY <1>1, <1>2, <1>4
=============================================================================
