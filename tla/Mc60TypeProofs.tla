--------------------------- MODULE Mc60TypeProofs ---------------------------
(***************************************************************************)
(* The buffer and the types of the MC60 driver, for every value of its     *)
(* constants.                                                              *)
(*                                                                         *)
(* The buffer is touched in five ways only (BufferMove): not at all,       *)
(* cleared with the connection, measured, declared, appended to.  A new    *)
(* connection is announced only while it is left alone.  What holds of     *)
(* dataToSendBuffer is proved for these five, once it is proved that every *)
(* step of the driver is one of them.                                      *)
(*                                                                         *)
(* The types and that no batch is transmitted which the buffer does not    *)
(* hold need each other: the data of a batch are units only if they lie    *)
(* within the buffer.                                                      *)
(***************************************************************************)
EXTENDS Mc60Modem, SendBufferProofs

-----------------------------------------------------------------------------
(* How a step may touch the buffer. *)

Measured ==
    /\ bytesToSendInSendStage' = BatchSize(dataToSendBuffer)
    /\ UNCHANGED <<dataToSendBuffer, declared, accepted, connected>>

Declared ==
    /\ dataToSendBuffer' = Declare(dataToSendBuffer, bytesToSendInSendStage)
    /\ declared' = declared \cup {dataToSendBuffer[i] :
           i \in 1..(Len(dataToSendBuffer) - Len(Declare(dataToSendBuffer, bytesToSendInSendStage)))}
    /\ UNCHANGED <<bytesToSendInSendStage, accepted, connected>>

Untouched ==
    /\ UNCHANGED <<bufferVars, accepted>>
    /\ UNCHANGED connected \/ OnConnected

Cleared == OnDisconnected /\ UNCHANGED accepted

BufferMove == Untouched \/ Cleared \/ Measured \/ Declared \/ AppSend

LEMMA SkipUntouched == Skip => Untouched
  BY DEF Skip, Untouched, DriverFrame, appVars

LEMMA EnterUntouched == ASSUME NEW next, Enter(next) PROVE Untouched
  BY DEF Enter, EnterWith, Goto, Untouched, DriverFrame, appVars

(* Every step of the machine is one of the five. *)
LEMMA DriverMovesBuffer == Driver => BufferMove
  <1> SUFFICES ASSUME Driver PROVE BufferMove
    OBVIOUS
  <1> USE SkipUntouched, EnterUntouched DEF BufferMove
  <1>1. CASE ResetStageDecide \/ ResetStagePowerOff \/ ResetStagePowerOn \/ ShutDownStageStart
             \/ ShutDownStagePowerOff \/ ShutDown \/ TurnOff
    BY <1>1 DEF ResetStageDecide, ResetStagePowerOff, ResetStagePowerOn, ShutDownStageStart,
       ShutDownStagePowerOff, ShutDown, TurnOff, EnterPulsing, EnterWith, Goto, DriverFrame, appVars,
       Untouched
  <1>2. CASE GprsReset \/ CancelSend \/ CloseAndReconnect
    BY <1>2 DEF GprsReset, CancelSend, CloseAndReconnect, EnterDecide, EnterWith, Goto,
       DriverFrame, appVars, Cleared
  <1>3. CASE Init_AT \/ Configure \/ ControlWaitForConnect \/ CloseDelay \/ ConnectToServer
             \/ EchoOff
    BY <1>3 DEF Init_AT, Configure, ControlWaitForConnect, CloseDelay, ConnectToServer, EchoOff,
       EnterWith, Goto, DriverFrame, appVars, Untouched
  <1>4. CASE CheckConnection \/ CheckConnectionPreSend
    BY <1>4 DEF CheckConnection, CheckConnectionPreSend, QueryState, EnterPrepare, Goto,
       DriverFrame, appVars, Measured
  <1>5. CASE CheckReceive \/ BeginReceive \/ Receive \/ BeginSend \/ Sleep \/ Wake
    BY <1>5 DEF CheckReceive, BeginReceive, Receive, BeginSend, Sleep, Wake, Goto, DriverFrame,
       appVars, Untouched
  <1>6. CASE PrepareSend \/ Send \/ AckCheck
    BY <1>6 DEF PrepareSend, Send, AckCheck, EnterSend, EnterCounting, EnterWith, Goto,
       DriverFrame, appVars, Untouched
  <1>7. CASE AckCheckParse
    BY <1>7 DEF AckCheckParse, EnterCounting, EnterDeclare, EnterWith, Goto, DriverFrame, appVars,
       Untouched, Declared
  <1>8. CASE DeclareRead \/ SmsBeginSend \/ SmsSendSingleNumber \/ SmsSendSingleBody
             \/ SmsSendSingleRemove
    BY <1>8 DEF DeclareRead, SmsBeginSend, SmsSendSingleNumber, SmsSendSingleBody,
       SmsSendSingleRemove, EnterWith, Goto, DriverFrame, appVars, Untouched
  <1>9. QED
    BY <1>1, <1>2, <1>3, <1>4, <1>5, <1>6, <1>7, <1>8 DEF Driver

(* And so is every step of the specification. *)
LEMMA NextMovesBuffer == [Next]_vars => BufferMove
  <1> SUFFICES ASSUME [Next]_vars PROVE BufferMove
    OBVIOUS
  <1> USE DEF BufferMove
  <1>1. CASE Driver
    BY <1>1, DriverMovesBuffer
  <1>2. CASE TimerExpires
    BY <1>2 DEF TimerExpires, EnterDecide, EnterWith, Goto, DriverFrame, appVars, Untouched,
       Cleared
  <1>3. CASE App
    <2>1. CASE Connect \/ Disconnect \/ PowerOff \/ AddSms
      BY <2>1 DEF Connect, Disconnect, PowerOff, AddSms, Calls, AppFrame, Untouched, bufferVars
    <2>2. CASE PowerOn
      BY <2>2 DEF PowerOn, Calls, Cleared
    <2>3. QED
      BY <1>3, <2>1, <2>2 DEF App
  <1>4. CASE Serves \/ Reports \/ Delivers \/ Acks \/ Fails
    BY <1>4 DEF Serves, Reports, Delivers, Acks, Fails, modemVars, appVars, Untouched
  <1>5. CASE UNCHANGED vars
    BY <1>5 DEF vars, modemVars, appVars, Untouched
  <1>6. QED
    BY <1>1, <1>2, <1>3, <1>4, <1>5 DEF Next

-----------------------------------------------------------------------------
(* The five moves keep the buffer's type and order. *)

BufferInv == BufferTypeOK /\ BufferOrder

(* What send() appends: the next units. *)
LEMMA AppendedUnits ==
    ASSUME BufferTypeOK, NEW n \in 1..(MAX_UNITS - accepted),
           NEW data, data = [i \in 1..n |-> accepted + i],
           Fits(dataToSendBuffer, data), NEW all, all = dataToSendBuffer \o data
    PROVE  /\ accepted \in Nat /\ n \in Nat \ {0} /\ accepted + n <= MAX_UNITS
           /\ all \in Seq(Units)
           /\ Len(dataToSendBuffer) \in Nat
           /\ Len(all) = Len(dataToSendBuffer) + n
           /\ Len(all) <= OUTPUT_BUFFER_SIZE
           /\ \A i \in 1..Len(dataToSendBuffer) : all[i] = dataToSendBuffer[i]
           /\ \A i \in 1..n : all[Len(dataToSendBuffer) + i] = accepted + i
  <1>1. MAX_UNITS \in Nat
    BY ModemAssumption
  <1>2. /\ accepted \in Nat /\ n \in Nat \ {0} /\ accepted + n <= MAX_UNITS
        /\ dataToSendBuffer \in Seq(Units)
    BY <1>1 DEF BufferTypeOK
  <1>3. data \in Seq(Units) /\ Len(data) = n /\ \A i \in 1..n : data[i] = accepted + i
    BY <1>1, <1>2, NextUnits DEF Units
  <1>4. /\ all \in Seq(Units) /\ Len(all) = Len(dataToSendBuffer) + n
        /\ \A i \in 1..(Len(dataToSendBuffer) + n) :
              all[i] = IF i <= Len(dataToSendBuffer) THEN dataToSendBuffer[i]
                       ELSE data[i - Len(dataToSendBuffer)]
    BY <1>2, <1>3, ConcatProperties
  <1>5. Len(all) <= OUTPUT_BUFFER_SIZE
    BY <1>3, <1>4 DEF Fits
  <1>6. Len(dataToSendBuffer) \in Nat
    BY <1>2, LenProperties
  <1>7. \A i \in 1..Len(dataToSendBuffer) : all[i] = dataToSendBuffer[i]
    BY <1>2, <1>4, <1>6
  <1>8. ASSUME NEW i \in 1..n PROVE all[Len(dataToSendBuffer) + i] = accepted + i
    BY <1>2, <1>3, <1>4, <1>6
  <1>9. QED
    BY <1>2, <1>4, <1>5, <1>6, <1>7, <1>8

LEMMA MoveKeepsBufferType == BufferTypeOK /\ BufferMove => BufferTypeOK'
  <1> SUFFICES ASSUME BufferTypeOK, BufferMove PROVE BufferTypeOK'
    OBVIOUS
  <1>1. CASE Untouched
    BY <1>1 DEF Untouched, bufferVars, BufferTypeOK, Units
  <1>2. CASE Cleared
    <2>1. << >> \in Seq(Units) /\ Len(<< >>) <= OUTPUT_BUFFER_SIZE
      BY BufferAssumption
    <2>2. QED
      BY <1>2, <2>1 DEF Cleared, OnDisconnected, BufferTypeOK, Units
  <1>3. CASE Measured
    <2>1. BatchSize(dataToSendBuffer) \in 0..GSM_MAX_BYTES_SEND
      BY BatchSizeBounded DEF BufferTypeOK
    <2>2. QED
      BY <1>3, <2>1 DEF Measured, BufferTypeOK, Units
  <1>4. CASE Declared
    <2> DEFINE left == Declare(dataToSendBuffer, bytesToSendInSendStage)
    <2>1. dataToSendBuffer \in Seq(Units) /\ bytesToSendInSendStage \in Nat
      BY BufferAssumption DEF BufferTypeOK
    <2>2. left \in Seq(Units) /\ Len(left) <= Len(dataToSendBuffer)
      BY <2>1, DeclareIsSuffix
    <2>3. \A i \in 1..(Len(dataToSendBuffer) - Len(left)) : dataToSendBuffer[i] \in Units
      BY <2>1, <2>2
    <2>4. Len(left) <= OUTPUT_BUFFER_SIZE
      BY <2>1, <2>2, BufferAssumption DEF BufferTypeOK
    <2>5. declared' \subseteq Units
      BY <1>4, <2>3 DEF Declared, BufferTypeOK
    <2>6. QED
      BY <1>4, <2>2, <2>4, <2>5 DEF Declared, BufferTypeOK, Units
  <1>5. CASE AppSend
    <2>1. PICK n \in 1..(MAX_UNITS - accepted) :
             /\ Fits(dataToSendBuffer, [i \in 1..n |-> accepted + i])
             /\ dataToSendBuffer' = dataToSendBuffer \o [i \in 1..n |-> accepted + i]
             /\ accepted' = accepted + n
      BY <1>5 DEF AppSend
    <2>2. /\ dataToSendBuffer' \in Seq(Units) /\ Len(dataToSendBuffer') <= OUTPUT_BUFFER_SIZE
          /\ accepted \in Nat /\ n \in Nat /\ accepted + n <= MAX_UNITS
      BY <2>1, AppendedUnits
    <2>3. accepted' \in 0..MAX_UNITS
      BY <2>1, <2>2
    <2>4. UNCHANGED <<bytesToSendInSendStage, declared>>
      BY <1>5 DEF AppSend, AppFrame
    <2>5. QED
      BY <2>2, <2>3, <2>4 DEF BufferTypeOK, Units
  <1>6. QED
    BY <1>1, <1>2, <1>3, <1>4, <1>5 DEF BufferMove

LEMMA MoveKeepsBufferOrder == BufferInv /\ BufferMove => BufferOrder'
  <1> SUFFICES ASSUME BufferTypeOK, BufferOrder, BufferMove PROVE BufferOrder'
    BY DEF BufferInv
  <1>0. /\ dataToSendBuffer \in Seq(Units) /\ Len(dataToSendBuffer) \in Nat
        /\ bytesToSendInSendStage \in Nat /\ accepted \in Nat
        /\ \A u \in declared : u \in Nat
    <2>0. GSM_MAX_BYTES_SEND \in Nat /\ MAX_UNITS \in Nat
      BY BufferAssumption, ModemAssumption
    <2>1. bytesToSendInSendStage \in Nat /\ accepted \in Nat
      BY <2>0 DEF BufferTypeOK
    <2>2. dataToSendBuffer \in Seq(Units) /\ Len(dataToSendBuffer) \in Nat
      BY LenProperties DEF BufferTypeOK
    <2>3. \A u \in declared : u \in Nat
      BY DEF BufferTypeOK, Units
    <2>4. QED
      BY <2>1, <2>2, <2>3
  <1>1. CASE Untouched
    BY <1>1 DEF Untouched, bufferVars, BufferOrder
  <1>2. CASE Cleared
    <2>1. CASE connected
      <3>1. dataToSendBuffer' = << >> /\ UNCHANGED <<declared, accepted>>
        BY <1>2, <2>1 DEF Cleared, OnDisconnected
      <3>2. \A u \in declared : u <= accepted
        BY <1>0 DEF BufferOrder
      <3>3. QED
        BY <1>0, <3>1, <3>2 DEF BufferOrder
    <2>2. CASE ~connected
      BY <1>2, <2>2 DEF Cleared, OnDisconnected, BufferOrder
    <2>3. QED
      BY <2>1, <2>2
  <1>3. CASE Measured
    BY <1>3 DEF Measured, BufferOrder
  <1>4. CASE Declared
    <2> DEFINE left == Declare(dataToSendBuffer, bytesToSendInSendStage)
               gone == 1..(Len(dataToSendBuffer) - Len(left))
    <2>1. /\ left \in Seq(Units) /\ Len(left) <= Len(dataToSendBuffer)
          /\ \A i \in 1..Len(left) :
                left[i] = dataToSendBuffer[Len(dataToSendBuffer) - Len(left) + i]
      BY <1>0, DeclareIsSuffix
    <2>2. Len(left) \in Nat
      BY <2>1, LenProperties
    <2>3. /\ dataToSendBuffer' = left /\ accepted' = accepted
          /\ declared' = declared \cup {dataToSendBuffer[i] : i \in gone}
      BY <1>4 DEF Declared
    <2> HIDE DEF left
    <2>4. \A i \in 1..Len(left) : left[i] = accepted - Len(left) + i
      BY <1>0, <2>1, <2>2 DEF BufferOrder
    <2>5. ASSUME NEW i \in gone PROVE dataToSendBuffer[i] <= accepted - Len(left)
      <3>1. dataToSendBuffer[i] = accepted - Len(dataToSendBuffer) + i
        BY <1>0, <2>1, <2>2 DEF BufferOrder
      <3>2. QED
        BY <1>0, <2>1, <2>2, <3>1
    <2>6. \A u \in declared : u <= accepted - Len(left)
      BY <1>0, <2>1, <2>2 DEF BufferOrder
    <2>7. Len(left) <= accepted
      BY <1>0, <2>1, <2>2 DEF BufferOrder
    <2>8. QED
      BY <2>3, <2>4, <2>5, <2>6, <2>7 DEF BufferOrder
  <1>5. CASE AppSend
    <2>1. PICK n \in 1..(MAX_UNITS - accepted) :
             /\ Fits(dataToSendBuffer, [i \in 1..n |-> accepted + i])
             /\ dataToSendBuffer' = dataToSendBuffer \o [i \in 1..n |-> accepted + i]
             /\ accepted' = accepted + n
      BY <1>5 DEF AppSend
    <2>2. declared' = declared
      BY <1>5 DEF AppSend, AppFrame
    <2> DEFINE before == Len(dataToSendBuffer)
               after == Len(dataToSendBuffer')
    <2>3. /\ n \in Nat /\ after = before + n
          /\ \A i \in 1..before : dataToSendBuffer'[i] = dataToSendBuffer[i]
          /\ \A i \in 1..n : dataToSendBuffer'[before + i] = accepted + i
      BY <2>1, AppendedUnits
    <2>4. /\ before \in Nat /\ before <= accepted
          /\ \A i \in 1..before : dataToSendBuffer[i] = accepted - before + i
          /\ \A u \in declared : u <= accepted - before
      BY <1>0 DEF BufferOrder
    <2>5. accepted' - after = accepted - before /\ after <= accepted'
      BY <1>0, <2>1, <2>3, <2>4
    <2>6. ASSUME NEW i \in 1..after PROVE dataToSendBuffer'[i] = accepted' - after + i
      <3>1. CASE i <= before
        BY <1>0, <2>3, <2>4, <2>5, <3>1
      <3>2. CASE i > before
        <4>1. i - before \in 1..n /\ before + (i - before) = i
          BY <2>3, <2>4, <3>2
        <4>2. dataToSendBuffer'[i] = accepted + (i - before)
          BY <2>3, <4>1
        <4>3. QED
          BY <1>0, <2>3, <2>4, <2>5, <4>1, <4>2
      <3>3. QED
        BY <2>3, <2>4, <3>1, <3>2
    <2>7. \A u \in declared' : u <= accepted' - after
      BY <2>2, <2>4, <2>5
    <2>8. QED
      BY <2>5, <2>6, <2>7 DEF BufferOrder
  <1>6. QED
    BY <1>1, <1>2, <1>3, <1>4, <1>5 DEF BufferMove

(* The buffer invariant holds initially and every step keeps it. *)
LEMMA BufferInductive == Spec => []BufferInv
  <1>1. Init => BufferInv
    <2> SUFFICES ASSUME Init PROVE BufferInv
      OBVIOUS
    <2>1. BufferTypeOK
      <3>1. << >> \in Seq(Units) /\ Len(<< >>) = 0 /\ OUTPUT_BUFFER_SIZE \in Nat
            /\ GSM_MAX_BYTES_SEND \in Nat /\ MAX_UNITS \in Nat
        BY BufferAssumption, ModemAssumption, EmptySeq
      <3>2. QED
        BY <3>1 DEF Init, BufferTypeOK
    <2>2. BufferOrder
      BY DEF Init, BufferOrder
    <2>3. QED
      BY <2>1, <2>2 DEF BufferInv
  <1>2. BufferInv /\ [Next]_vars => BufferInv'
    BY NextMovesBuffer, MoveKeepsBufferType, MoveKeepsBufferOrder DEF BufferInv
  <1>3. QED
    BY <1>1, <1>2, PTL DEF Spec

(* dataToSendBuffer holds, in order, the last units accepted and none that was *)
(* declared sent, for every size of buffer and batch and however many failures. *)
THEOREM BufferStaysOrdered == Spec => []BufferOrder
  BY BufferInductive, PTL DEF BufferInv

-----------------------------------------------------------------------------
(* The tables. *)

Commands == [text : Texts, data : Seq(Units)]

BootFirst == {"INIT", "PIN_STATUS_CHECK", "AT_QBTPWR", "GPS_USART_ECHO_ON"}

LEMMA BootFirstStates == BootFirst \subseteq BootStates
  BY DEF BootFirst, BootStates

(* Where configuration leads. *)
LEMMA BootNext ==
    ASSUME NEW rule \in BootRules
    PROVE  rule.next \in BootStates \cup {"GPRS_RESET", "CONTROL_WAIT_FOR_CONNECT"}
  <1> DEFINE nexts == BootStates \cup {"GPRS_RESET", "CONTROL_WAIT_FOR_CONNECT"}
  <1>1. {"INIT", "AT_QBTVISB", "AT_QBTGATSREG", "AT_QBTGATSL", "PIN_STATUS_CHECK", "ENTER_PIN",
         "GET_SIM_IMSI", "SIGNAL_QUALITY_CHECK", "REGISTRATION_CHECK", "GPRS_ATTACH_CHECK",
         "SMS_TEXT_MODE", "SMS_CHARACTER_SET", "SET_CONTEXT", "APN_USER_PASSWD_INPUT",
         "MULTIPLE_CONNECTIONS_OFF", "SET_MODEM_MODE", "USE_DNS", "SET_RECEIVE_MODE",
         "GPRS_RESET", "CONTROL_WAIT_FOR_CONNECT"} \subseteq nexts
    BY DEF BootStates
  <1>2. \E from, needs, next : rule = Rule(from, needs, next) /\ next \in nexts
    <2> HIDE DEF nexts
    <2>1. QED
      BY <1>1, ZenonT(60) DEF BootRules
  <1>3. \A from, needs, next : Rule(from, needs, next).next = next
    BY DEF Rule
  <1>4. QED
    BY <1>2, <1>3

LEMMA LinkCommandText == \A s : LinkCommand(s) \in Texts \cup {NoCommand}
  <1>1. "AT" \in Texts /\ "AT+QISDE=0" \in Texts /\ "AT+QSCLK=2" \in Texts
    <2>1. BootCommand("INIT") = "AT" /\ "INIT" \in BootStates
      BY DEF BootCommand, BootStates
    <2>2. QED
      BY <2>1 DEF Texts, SimpleCommands
  <1>2. QED
    BY <1>1 DEF LinkCommand, Texts

LEMMA OneElement == ASSUME NEW S, NEW x \in S PROVE <<x>> \in Seq(S)
  OBVIOUS

LEMMA OneCommand ==
    ASSUME NEW text \in Texts, NEW data \in Seq(Units)
    PROVE  <<Command(text, data)>> \in Seq(Commands)
  <1>1. Command(text, data) \in Commands
    BY DEF Command, Commands
  <1>2. QED
    BY <1>1, OneElement

LEMMA EntryCommandType == ASSUME NEW s PROVE EntryCommand(s) \in Seq(Commands)
  <1>1. << >> \in Seq(Units) /\ << >> \in Seq(Commands)
    OBVIOUS
  <1>2. CASE s \in BootStates
    <2>1. BootCommand(s) \in Texts
      BY <1>2 DEF Texts, SimpleCommands
    <2>2. QED
      BY <1>1, <1>2, <2>1, OneCommand DEF EntryCommand
  <1>3. CASE s \notin BootStates
    BY <1>1, <1>3, OneCommand, LinkCommandText DEF EntryCommand
  <1>4. QED
    BY <1>2, <1>3

(* The batch on its way to the chip lies within the buffer. *)
LEMMA BatchType ==
    ASSUME NEW S, NEW buffer \in Seq(S), NEW n \in Nat, n <= Len(buffer)
    PROVE  Batch(buffer, n) \in Seq(S)
  BY SubSeqProperties DEF Batch

-----------------------------------------------------------------------------
(* The queues. *)

LEMMA QueuedType ==
    ASSUME NEW queue \in Seq(Lines), NEW new \in Seq(Lines)
    PROVE  Queued(queue, new) \in Seq(Lines) /\ Len(Queued(queue, new)) <= EVENT_QUEUE_SIZE
  <1> DEFINE all == queue \o new
             n == IF Len(all) < EVENT_QUEUE_SIZE THEN Len(all) ELSE EVENT_QUEUE_SIZE
  <1>1. all \in Seq(Lines) /\ Len(all) \in Nat
    BY ConcatProperties, LenProperties
  <1>2. EVENT_QUEUE_SIZE \in Nat
    BY ChipAssumption
  <1>3. n \in 0..Len(all) /\ n <= EVENT_QUEUE_SIZE
    BY <1>1, <1>2
  <1>4. Queued(queue, new) = SubSeq(all, 1, n)
    BY DEF Queued
  <1> HIDE DEF all, n
  <1>5. \A i \in 1..n : all[i] \in Lines
    BY <1>1, <1>3, ElementOfSeq
  <1>6. SubSeq(all, 1, n) \in Seq(Lines) /\ Len(SubSeq(all, 1, n)) = n
    BY <1>1, <1>3, <1>5, SubSeqProperties
  <1>7. QED
    BY <1>3, <1>4, <1>6

LinesTypeOK == lines \in Seq(Lines) /\ Len(lines) <= EVENT_QUEUE_SIZE
ChipInTypeOK == chipIn \in Seq(Commands) /\ Len(chipIn) <= COMMAND_LIMIT

LEMMA SayType ==
    ASSUME LinesTypeOK, NEW new \in Seq(Lines), Say(new) PROVE LinesTypeOK'
  BY QueuedType DEF Say, LinesTypeOK

LEMMA RestType == ASSUME LinesTypeOK, lines' = Rest PROVE LinesTypeOK'
  <1>1. CASE lines = << >>
    BY <1>1 DEF Rest, LinesTypeOK
  <1>2. CASE lines # << >>
    <2>1. Tail(lines) \in Seq(Lines) /\ Len(Tail(lines)) = Len(lines) - 1
      BY <1>2, HeadTailProperties DEF LinesTypeOK
    <2>2. Len(lines) \in Nat /\ EVENT_QUEUE_SIZE \in Nat
      BY LenProperties, ChipAssumption DEF LinesTypeOK
    <2>3. QED
      BY <1>2, <2>1, <2>2 DEF Rest, LinesTypeOK
  <1>3. QED
    BY <1>1, <1>2

LEMMA LineType == LinesTypeOK => line \in Lines \cup {NoLine}
  BY HeadTailProperties DEF LinesTypeOK, line, NoLine

LEMMA TransmitType ==
    ASSUME ChipInTypeOK, NEW new \in Seq(Commands), Transmit(new) PROVE ChipInTypeOK'
  BY ConcatProperties DEF ChipInTypeOK, Transmit, Received

LEMMA ServedType == ASSUME ChipInTypeOK, chipIn # << >>, chipIn' = Tail(chipIn) PROVE ChipInTypeOK'
  <1>1. Tail(chipIn) \in Seq(Commands) /\ Len(Tail(chipIn)) = Len(chipIn) - 1
    BY HeadTailProperties DEF ChipInTypeOK
  <1>2. Len(chipIn) \in Nat /\ COMMAND_LIMIT \in Nat
    BY LenProperties, ChipAssumption DEF ChipInTypeOK
  <1>3. QED
    BY <1>1, <1>2 DEF ChipInTypeOK
-----------------------------------------------------------------------------
(* How a step of the driver moves the machine and its two queues. *)

MachineMove ==
    /\ state' \in States
    /\ seen' = {} \/ seen' = seen \/ seen' = seen \cup ({line} \ Unlatched)
    /\ lines' = Rest \/ lines' = lines

BatchData == Batch(dataToSendBuffer, bytesToSendInSendStage)

ChipInMove ==
    \/ UNCHANGED chipIn
    \/ \E s : Transmit(EntryCommand(s))
    \/ \E new \in {<< >>, <<Command("AT+QISEND", << >>)>>} : Transmit(new)
    \/ state = "NETWORK_PREPARE_SEND" /\ Transmit(<<Command("data", BatchData)>>)

QueueMove == MachineMove /\ ChipInMove

LEMMA SkipMoves == state \in States /\ Skip => QueueMove
  BY DEF Skip, QueueMove, MachineMove, ChipInMove

LEMMA EnterWithMoves ==
    ASSUME NEW next \in States, EnterWith(next) PROVE QueueMove
  BY DEF EnterWith, Goto, QueueMove, MachineMove, ChipInMove

LEMMA EnterMoves ==
    ASSUME NEW next \in States, Enter(next) PROVE QueueMove
  BY EnterWithMoves DEF Enter

LEMMA StateNames ==
    /\ BootStates \subseteq States /\ ResetStates \subseteq States
    /\ ShutDownStates \subseteq States /\ ConnectStates \subseteq States
    /\ ReceiveStates \subseteq States /\ SendStates \subseteq States
    /\ SmsStates \subseteq States /\ "NETWORK_GPS_USART_ECHO_OFF" \in States
    /\ BootFirst \subseteq States
  BY BootFirstStates DEF States

LEMMA DriverMovesQueues == state \in States /\ Driver => QueueMove
  <1> SUFFICES ASSUME state \in States, Driver PROVE QueueMove
    OBVIOUS
  <1> USE SkipMoves, EnterMoves, EnterWithMoves, StateNames
  <1>1. CASE ResetStageDecide \/ ResetStagePowerOff \/ ResetStagePowerOn \/ ShutDownStageStart
             \/ ShutDownStagePowerOff \/ ShutDown \/ TurnOff
    BY <1>1 DEF ResetStageDecide, ResetStagePowerOff, ResetStagePowerOn, ShutDownStageStart,
       ShutDownStagePowerOff, ShutDown, TurnOff, EnterPulsing, ResetStates, ShutDownStates, BootFirst
  <1>2. CASE GprsReset \/ CancelSend
    BY <1>2 DEF GprsReset, CancelSend, EnterDecide, Goto, ResetStates, ConnectStates, BootFirst,
       QueueMove, MachineMove, ChipInMove
  <1>3. CASE CloseAndReconnect \/ CloseDelay
    BY <1>3 DEF CloseAndReconnect, CloseDelay, Goto, ConnectStates, QueueMove, MachineMove,
       ChipInMove
  <1>4. CASE Init_AT \/ ControlWaitForConnect \/ ConnectToServer \/ EchoOff
    BY <1>4 DEF Init_AT, ControlWaitForConnect, ConnectToServer, EchoOff, ConnectStates,
       ReceiveStates, BootFirst
  <1>5. CASE Configure
    BY <1>5, BootNext DEF Configure, ResetStates, ConnectStates
  <1>6. CASE CheckConnection \/ CheckConnectionPreSend
    BY <1>6 DEF CheckConnection, CheckConnectionPreSend, QueryState, EnterPrepare, Goto,
       ConnectStates, SendStates, QueueMove, MachineMove, ChipInMove
  <1>7. CASE CheckReceive \/ BeginReceive \/ Receive
    BY <1>7 DEF CheckReceive, BeginReceive, Receive, Goto, ReceiveStates, SendStates,
       ConnectStates, QueueMove, MachineMove, ChipInMove
  <1>8. CASE BeginSend \/ Sleep \/ Wake
    BY <1>8 DEF BeginSend, Sleep, Wake, ConnectStates, SendStates
  <1>9. CASE PrepareSend
    BY <1>9 DEF PrepareSend, EnterSend, Goto, At, ConnectStates, SendStates, BatchStates,
       QueueMove, MachineMove, ChipInMove, BatchData
  <1>10. CASE Send \/ AckCheck
    BY <1>10 DEF Send, AckCheck, EnterCounting, ConnectStates, SendStates, BatchStates
  <1>11. CASE AckCheckParse
    BY <1>11 DEF AckCheckParse, EnterCounting, EnterDeclare, Goto, ConnectStates, SendStates,
       BatchStates, QueueMove, MachineMove, ChipInMove
  <1>12. CASE DeclareRead \/ SmsBeginSend \/ SmsSendSingleNumber \/ SmsSendSingleBody
              \/ SmsSendSingleRemove
    BY <1>12 DEF DeclareRead, SmsBeginSend, SmsSendSingleNumber, SmsSendSingleBody,
       SmsSendSingleRemove, ConnectStates, SmsStates
  <1>13. QED
    BY <1>1, <1>2, <1>3, <1>4, <1>5, <1>6, <1>7, <1>8, <1>9, <1>10, <1>11, <1>12 DEF Driver

LEMMA TimerMovesQueues == state \in States /\ TimerExpires => QueueMove
  <1> SUFFICES ASSUME state \in States, TimerExpires PROVE QueueMove
    OBVIOUS
  <1>1. AfterTimer(state) \in States
    BY StateNames DEF AfterTimer, OwnTimer, ResetStates, SendStates
  <1>2. CASE EnterDecide
    BY <1>2, StateNames DEF EnterDecide, Goto, ResetStates, QueueMove, MachineMove, ChipInMove
  <1>3. CASE EnterWith(AfterTimer(state))
    BY <1>1, <1>3, EnterWithMoves
  <1>4. QED
    BY <1>2, <1>3 DEF TimerExpires

(* What such a move keeps. *)
LEMMA QueueMoveTypes ==
    ASSUME MachineTypeOK, ChipInTypeOK, BufferTypeOK, BatchWithinBuffer, QueueMove
    PROVE  MachineTypeOK' /\ ChipInTypeOK'
  <1>1. LinesTypeOK'
    BY RestType DEF MachineTypeOK, LinesTypeOK, QueueMove, MachineMove
  <1>2. seen' \subseteq Lines
    <2>1. {line} \ Unlatched \subseteq Lines
      BY LineType DEF MachineTypeOK, LinesTypeOK, Unlatched
    <2>2. QED
      BY <2>1 DEF MachineTypeOK, QueueMove, MachineMove
  <1>3. ChipInTypeOK'
    <2>1. CASE UNCHANGED chipIn
      BY <2>1 DEF ChipInTypeOK, Commands, Units
    <2>2. CASE \E s : Transmit(EntryCommand(s))
      BY <2>2, EntryCommandType, TransmitType
    <2>3. CASE \E new \in {<< >>, <<Command("AT+QISEND", << >>)>>} : Transmit(new)
      <3>1. << >> \in Seq(Commands) /\ << >> \in Seq(Units) /\ "AT+QISEND" \in Texts
        BY DEF Texts
      <3>2. <<Command("AT+QISEND", << >>)>> \in Seq(Commands)
        BY <3>1, OneCommand
      <3>3. QED
        BY <2>3, <3>1, <3>2, TransmitType
    <2>4. CASE state = "NETWORK_PREPARE_SEND" /\ Transmit(<<Command("data", BatchData)>>)
      <3>1. bytesToSendInSendStage \in Nat
        BY BufferAssumption DEF BufferTypeOK
      <3>2. BatchData \in Seq(Units)
        <4>1. bytesToSendInSendStage <= Len(dataToSendBuffer)
          BY <2>4 DEF BatchWithinBuffer
        <4>2. dataToSendBuffer \in Seq(Units)
          BY DEF BufferTypeOK
        <4>3. QED
          BY <3>1, <4>1, <4>2, BatchType DEF BatchData
      <3>3. <<Command("data", BatchData)>> \in Seq(Commands)
        BY <3>2, OneCommand DEF Texts
      <3>4. QED
        BY <2>4, <3>3, TransmitType
    <2>5. QED
      BY <2>1, <2>2, <2>3, <2>4 DEF QueueMove, ChipInMove
  <1>4. QED
    BY <1>1, <1>2, <1>3 DEF MachineTypeOK, LinesTypeOK, QueueMove, MachineMove

-----------------------------------------------------------------------------
(* The flags and counters of the driver, and the chip's. *)

ChipFlagsOK ==
    /\ rxOn \in BOOLEAN /\ power \in {"on", "off"} /\ pulse \in BOOLEAN
    /\ link \in Links /\ prompt \in BOOLEAN /\ sendDue \in BOOLEAN
    /\ flying \in Seq(Units) /\ delivered \subseteq Units
    /\ counters \in {"none", "all", "some"}
    /\ inbox \in 0..MAX_INBOX /\ pushed \in 0..MAX_INBOX /\ inbox <= pushed
    /\ faults \in 0..MAX_FAULTS

LEMMA ChipTypeParts == ChipTypeOK <=> ChipInTypeOK /\ ChipFlagsOK
  BY DEF ChipTypeOK, ChipInTypeOK, ChipFlagsOK, Commands

(* The chip's part that only the chip changes. *)
ChipOwn == <<linkVars, power, netVars>>

DriverFlags ==
    /\ rxOn' \in BOOLEAN /\ pulse' \in BOOLEAN
    /\ UNCHANGED ChipOwn
    /\ newDataToReceive' \in BOOLEAN /\ connected' \in BOOLEAN /\ allAcked' \in BOOLEAN
    /\ \/ ackQueryRetryNo' \in {ackQueryRetryNo, 0}
       \/ ackQueryRetryNo <= QUERY_ACK_COUNT_LIMIT /\ ackQueryRetryNo' = ackQueryRetryNo + 1
    /\ \/ atQueryRetryNo' \in {atQueryRetryNo, 0}
       \/ atQueryRetryNo <= AT_RETRY_LIMIT /\ atQueryRetryNo' = atQueryRetryNo + 1
    /\ \/ UNCHANGED smsVars
       \/ /\ smsCollection' = IF smsCollection = 0 THEN 0 ELSE smsCollection - 1
          /\ smsRemoved' = smsRemoved + (smsCollection - smsCollection')
    /\ UNCHANGED <<address, calls>>

FlagsOK == FlagTypeOK /\ ChipFlagsOK

LEMMA SkipFlags == FlagsOK /\ Skip => DriverFlags /\ UNCHANGED faults
  BY DEF FlagsOK, FlagTypeOK, ChipFlagsOK, Skip, QirdiRule, DriverFrame, appVars, counterVars,
     ChipOwn, DriverFlags

LEMMA EnterFlags ==
    ASSUME NEW next, FlagsOK, Enter(next) PROVE DriverFlags /\ UNCHANGED faults
  BY DEF FlagsOK, FlagTypeOK, ChipFlagsOK, Enter, EnterWith, Goto, QirdiRule, DriverFrame, appVars,
     counterVars, ChipOwn, DriverFlags

LEMMA DriverMovesFlags == FlagsOK /\ Driver => DriverFlags /\ UNCHANGED faults
  <1> SUFFICES ASSUME FlagsOK, Driver PROVE DriverFlags /\ UNCHANGED faults
    OBVIOUS
  <1> USE SkipFlags, EnterFlags
  <1>1. CASE ResetStageDecide \/ ResetStagePowerOff \/ ResetStagePowerOn \/ ShutDownStageStart
             \/ ShutDownStagePowerOff \/ ShutDown \/ TurnOff
    BY <1>1 DEF ResetStageDecide, ResetStagePowerOff, ResetStagePowerOn, ShutDownStageStart,
       ShutDownStagePowerOff, ShutDown, TurnOff, EnterPulsing, EnterWith, Goto, QirdiRule, UsartAction,
       DriverFrame, FlagsOK, FlagTypeOK, ChipFlagsOK, appVars, counterVars, ChipOwn, DriverFlags
  <1>2. CASE GprsReset \/ CancelSend
    BY <1>2 DEF GprsReset, CancelSend, EnterDecide, UsartAction, EnterWith, Goto, OnDisconnected, QirdiRule,
       DriverFrame, FlagsOK, FlagTypeOK, ChipFlagsOK, appVars, counterVars, ChipOwn, DriverFlags
  <1>3. CASE CloseAndReconnect \/ CloseDelay
    BY <1>3 DEF CloseAndReconnect, CloseDelay, Goto, OnDisconnected, QirdiRule,
       DriverFrame, FlagsOK, FlagTypeOK, ChipFlagsOK, appVars, counterVars, ChipOwn, DriverFlags
  <1>4. CASE Init_AT \/ Configure \/ ControlWaitForConnect \/ ConnectToServer \/ EchoOff
    BY <1>4 DEF Init_AT, Configure, ControlWaitForConnect, ConnectToServer, EchoOff, EnterWith, Goto,
       OnConnected, QirdiRule,
       DriverFrame, FlagsOK, FlagTypeOK, ChipFlagsOK, appVars, counterVars, ChipOwn, DriverFlags
  <1>5. CASE CheckConnection \/ CheckConnectionPreSend
    BY <1>5 DEF CheckConnection, CheckConnectionPreSend, QueryState, EnterPrepare, Goto, QirdiRule,
       DriverFrame, FlagsOK, FlagTypeOK, ChipFlagsOK, appVars, counterVars, ChipOwn, DriverFlags
  <1>6. CASE CheckReceive \/ BeginReceive \/ Receive \/ BeginSend \/ Sleep \/ Wake
    BY <1>6 DEF CheckReceive, BeginReceive, Receive, BeginSend, Sleep, Wake, Goto, QirdiRule,
       DriverFrame, FlagsOK, FlagTypeOK, ChipFlagsOK, appVars, counterVars, ChipOwn, DriverFlags
  <1>7. CASE PrepareSend \/ Send
    BY <1>7 DEF PrepareSend, Send, EnterSend, EnterCounting, EnterWith, Goto, QirdiRule,
       DriverFrame, FlagsOK, FlagTypeOK, ChipFlagsOK, appVars, counterVars, ChipOwn, DriverFlags
  <1>8. CASE AckCheck
    <2>1. \A l : Heard(l) \in BOOLEAN
      BY Zenon DEF Heard
    <2>2. QED
      BY <1>8, <2>1 DEF AckCheck, QueryAck, EnterWith, Goto, QirdiRule,
       DriverFrame, FlagsOK, FlagTypeOK, ChipFlagsOK, appVars, counterVars, ChipOwn, DriverFlags
  <1>9. CASE AckCheckParse
    <2> USE DEF QirdiRule, DriverFrame, FlagsOK, FlagTypeOK, ChipFlagsOK, appVars, counterVars,
            ChipOwn, DriverFlags
    <2>1. CASE EnterDeclare
      BY <2>1 DEF EnterDeclare, Goto
    <2>2. CASE EnterCounting("CANCEL_SEND", 0)
      BY <2>2 DEF EnterCounting, EnterWith, Goto
    <2>3. CASE /\ ~(ackQueryRetryNo > QUERY_ACK_COUNT_LIMIT)
               /\ EnterCounting("NETWORK_ACK_CHECK", ackQueryRetryNo + 1)
      <3>1. QUERY_ACK_COUNT_LIMIT \in Nat
        BY ModemAssumption
      <3>2. ackQueryRetryNo <= QUERY_ACK_COUNT_LIMIT
        BY <2>3, <3>1
      <3>3. QED
        BY <2>3, <3>2 DEF EnterCounting, EnterWith, Goto
    <2>4. QED
      BY <1>9, <2>1, <2>2, <2>3 DEF AckCheckParse
  <1>10. CASE DeclareRead \/ SmsBeginSend \/ SmsSendSingleNumber \/ SmsSendSingleBody
              \/ SmsSendSingleRemove
    BY <1>10 DEF DeclareRead, SmsBeginSend, SmsSendSingleNumber, SmsSendSingleBody, RemoveSms,
       SmsSendSingleRemove, EnterWith, Goto, QirdiRule,
       DriverFrame, FlagsOK, FlagTypeOK, ChipFlagsOK, appVars, counterVars, ChipOwn, DriverFlags
  <1>11. QED
    BY <1>1, <1>2, <1>3, <1>4, <1>5, <1>6, <1>7, <1>8, <1>9, <1>10 DEF Driver

LEMMA TimerMovesFlags ==
    FlagsOK /\ TimerExpires => DriverFlags /\ (UNCHANGED faults \/ Fault)
  <1> SUFFICES ASSUME FlagsOK, TimerExpires PROVE DriverFlags /\ (UNCHANGED faults \/ Fault)
    OBVIOUS
  <1> USE DEF QirdiRule, DriverFrame, FlagsOK, FlagTypeOK, ChipFlagsOK, appVars, counterVars,
          ChipOwn, DriverFlags
  <1>1. UNCHANGED faults \/ Fault
    BY DEF TimerExpires
  <1>2. CASE EnterDecide
    BY <1>1, <1>2 DEF EnterDecide, UsartAction, Goto, OnDisconnected
  <1>3. CASE /\ EnterWith(AfterTimer(state))
             /\ atQueryRetryNo' = IF state = "INIT" THEN atQueryRetryNo + 1 ELSE atQueryRetryNo
             /\ UNCHANGED <<bufferVars, allAcked, ackQueryRetryNo, connected, smsVars, pulse, rxOn>>
    <2>1. state = "INIT" => ~(atQueryRetryNo > AT_RETRY_LIMIT)
      BY DEF TimerExpires, CanProceed
    <2>2. AT_RETRY_LIMIT \in Nat
      BY ModemAssumption
    <2>3. state = "INIT" => atQueryRetryNo <= AT_RETRY_LIMIT
      BY <2>1, <2>2
    <2>4. QED
      BY <1>1, <1>3, <2>3 DEF EnterWith, Goto
  <1>4. QED
    BY <1>2, <1>3 DEF TimerExpires

LEMMA FaultBounded == faults \in 0..MAX_FAULTS /\ Fault => faults' \in 0..MAX_FAULTS
  <1>1. MAX_FAULTS \in Nat
    BY ChipAssumption
  <1>2. QED
    BY <1>1 DEF Fault

LEMMA DriverFlagsTypes ==
    ASSUME FlagsOK, DriverFlags, UNCHANGED faults \/ Fault, UNCHANGED smsAnswered
    PROVE  FlagsOK'
  <1>1. FlagTypeOK'
    <2>1. /\ AT_RETRY_LIMIT \in Nat /\ QUERY_ACK_COUNT_LIMIT \in Nat /\ MAX_SMS \in Nat
      BY ModemAssumption
    <2>2. ackQueryRetryNo' \in 0..(QUERY_ACK_COUNT_LIMIT + 1)
      BY <2>1 DEF FlagsOK, FlagTypeOK, DriverFlags
    <2>3. atQueryRetryNo' \in 0..(AT_RETRY_LIMIT + 1)
      BY <2>1 DEF FlagsOK, FlagTypeOK, DriverFlags
    <2>4. smsCollection' \in 0..MAX_SMS /\ smsRemoved' \in Nat
      BY <2>1 DEF FlagsOK, FlagTypeOK, DriverFlags, smsVars
    <2>5. QED
      BY <2>2, <2>3, <2>4 DEF FlagsOK, FlagTypeOK, DriverFlags
  <1>2. ChipFlagsOK'
    <2>1. faults' \in 0..MAX_FAULTS
      BY FaultBounded DEF FlagsOK, ChipFlagsOK
    <2>2. QED
      BY <2>1 DEF FlagsOK, ChipFlagsOK, DriverFlags, ChipOwn, linkVars, netVars, Units, Links
  <1>3. QED
    BY <1>1, <1>2 DEF FlagsOK

-----------------------------------------------------------------------------
(* Between the measuring of a batch and its declaration. *)

InBatch == {"NETWORK_PREPARE_SEND"} \cup BatchStates

BatchMove ==
    \/ state' \notin InBatch
    \/ Measured
    \/ state \in InBatch /\ Untouched

LEMMA SkipKeepsBatch == Skip => BatchMove
  BY SkipUntouched DEF Skip, BatchMove

LEMMA EnterLeavesBatch ==
    ASSUME NEW next, next \notin InBatch, Enter(next) \/ EnterWith(next) \/ Goto(next)
    PROVE  BatchMove
  BY DEF Enter, EnterWith, Goto, BatchMove

LEMMA NotInBatch ==
    /\ \A s \in BootStates \cup ResetStates \cup ShutDownStates \cup ConnectStates \cup
            ReceiveStates \cup SmsStates \cup BootFirst : s \notin InBatch
    /\ \A s \in {"NETWORK_GPS_USART_ECHO_OFF", "NETWORK_BEGIN_SEND", "SLEEP", "WAKE",
              "CHECK_CONNECTION_PRE_SEND", "NETWORK_DECLARE_READ", "CANCEL_SEND"} : s \notin InBatch
  BY DEF InBatch, BatchStates, BootStates, ResetStates, ShutDownStates, ConnectStates,
     ReceiveStates, SmsStates, BootFirst

LEMMA DriverMovesBatch == Driver => BatchMove
  <1> SUFFICES ASSUME Driver PROVE BatchMove
    OBVIOUS
  <1> USE SkipKeepsBatch, EnterLeavesBatch, NotInBatch
  <1>1. CASE ResetStageDecide \/ ResetStagePowerOff \/ ResetStagePowerOn \/ ShutDownStageStart
             \/ ShutDownStagePowerOff \/ ShutDown \/ TurnOff
    BY <1>1 DEF ResetStageDecide, ResetStagePowerOff, ResetStagePowerOn, ShutDownStageStart,
       ShutDownStagePowerOff, ShutDown, TurnOff, EnterPulsing, ResetStates, ShutDownStates, BootFirst
  <1>2. CASE GprsReset \/ CancelSend
    BY <1>2 DEF GprsReset, CancelSend, EnterDecide, ResetStates, ConnectStates, BootFirst
  <1>3. CASE CloseAndReconnect \/ CloseDelay
    BY <1>3 DEF CloseAndReconnect, CloseDelay, ConnectStates, BatchMove
  <1>4. CASE Init_AT \/ ControlWaitForConnect \/ ConnectToServer \/ EchoOff
    BY <1>4 DEF Init_AT, ControlWaitForConnect, ConnectToServer, EchoOff, ConnectStates,
       ReceiveStates, BootFirst
  <1>5. CASE Configure
    BY <1>5, BootNext DEF Configure, ResetStates, ConnectStates
  <1>6. CASE CheckConnection \/ CheckConnectionPreSend
    BY <1>6 DEF CheckConnection, CheckConnectionPreSend, QueryState, EnterPrepare, Goto,
       DriverFrame, appVars, ConnectStates, BatchMove, Measured
  <1>7. CASE CheckReceive \/ BeginReceive \/ Receive \/ BeginSend \/ Sleep \/ Wake
    BY <1>7 DEF CheckReceive, BeginReceive, Receive, BeginSend, Sleep, Wake, ReceiveStates,
       ConnectStates
  <1>8. CASE PrepareSend
    BY <1>8, EnterUntouched DEF PrepareSend, EnterSend, Goto, DriverFrame, appVars, Untouched, At,
       InBatch, BatchMove
  <1>9. CASE Send \/ AckCheck
    BY <1>9, EnterUntouched DEF Send, AckCheck, EnterCounting, EnterWith, Goto, DriverFrame,
       appVars, Untouched, At, InBatch, BatchStates, BatchMove
  <1>10. CASE AckCheckParse
    BY <1>10, EnterUntouched DEF AckCheckParse, EnterCounting, EnterDeclare, EnterWith, Goto,
       DriverFrame, appVars, Untouched, At, InBatch, BatchStates, BatchMove
  <1>11. CASE DeclareRead \/ SmsBeginSend \/ SmsSendSingleNumber \/ SmsSendSingleBody
              \/ SmsSendSingleRemove
    BY <1>11 DEF DeclareRead, SmsBeginSend, SmsSendSingleNumber, SmsSendSingleBody,
       SmsSendSingleRemove, ConnectStates, SmsStates
  <1>12. QED
    BY <1>1, <1>2, <1>3, <1>4, <1>5, <1>6, <1>7, <1>8, <1>9, <1>10, <1>11 DEF Driver

LEMMA TimerMovesBatch == TimerExpires => BatchMove
  <1> SUFFICES ASSUME TimerExpires PROVE BatchMove
    OBVIOUS
  <1>1. AfterTimer(state) \notin InBatch
    BY NotInBatch DEF AfterTimer, OwnTimerFirst, OwnTimers, OwnTimer, ResetStates, BootFirst
  <1>2. "RESET_STAGE_DECIDE" \notin InBatch
    BY NotInBatch DEF ResetStates
  <1>3. QED
    BY <1>1, <1>2, EnterLeavesBatch DEF TimerExpires, EnterDecide

LEMMA MoveKeepsBatch == BufferTypeOK /\ BatchWithinBuffer /\ BatchMove => BatchWithinBuffer'
  <1> SUFFICES ASSUME BufferTypeOK, BatchWithinBuffer, BatchMove PROVE BatchWithinBuffer'
    OBVIOUS
  <1>1. CASE state' \notin InBatch
    BY <1>1 DEF InBatch, BatchWithinBuffer
  <1>2. CASE Measured
    <2>1. BatchSize(dataToSendBuffer) <= Len(dataToSendBuffer)
      BY LenProperties, BufferAssumption DEF BatchSize, BufferTypeOK
    <2>2. QED
      BY <1>2, <2>1 DEF Measured, BatchWithinBuffer
  <1>3. CASE state \in InBatch /\ Untouched
    BY <1>3 DEF InBatch, Untouched, bufferVars, BatchWithinBuffer
  <1>4. QED
    BY <1>1, <1>2, <1>3 DEF BatchMove

-----------------------------------------------------------------------------
(* The application. *)

(* The invariant: types, and batches within the buffer. *)
TypeInv == TypeOK /\ BatchWithinBuffer

LEMMA TypeParts == TypeOK <=> MachineTypeOK /\ BufferTypeOK /\ FlagsOK /\ ChipInTypeOK
  BY ChipTypeParts DEF TypeOK, FlagsOK

LEMMA TypePartsNext ==
    TypeOK' <=> MachineTypeOK' /\ BufferTypeOK' /\ FlagsOK' /\ ChipInTypeOK'
  BY TypeParts, PTL

LEMMA CallsCounted ==
    ASSUME FlagTypeOK, NEW name, Calls(name) PROVE calls' \in 0..MAX_CALLS
  <1>1. MAX_CALLS \in Nat
    BY ModemAssumption
  <1>2. QED
    BY <1>1 DEF Calls, FlagTypeOK

LEMMA MachineUnchanged ==
    MachineTypeOK /\ UNCHANGED <<machineVars, lines>> => MachineTypeOK'
  BY DEF MachineTypeOK, machineVars

LEMMA ChipUnchanged == ChipTypeOK /\ UNCHANGED <<chipIn, linkVars, pinVars, netVars, faults>> => ChipTypeOK'
  BY DEF ChipTypeOK, linkVars, pinVars, netVars, Units

LEMMA BatchUnchanged ==
    ASSUME BatchWithinBuffer, UNCHANGED <<state, dataToSendBuffer, bytesToSendInSendStage>>
    PROVE  BatchWithinBuffer'
  BY DEF BatchWithinBuffer

LEMMA AppKeepsTypes ==
    ASSUME TypeInv, App, BufferTypeOK' PROVE TypeInv'
  <1>0. /\ MachineTypeOK /\ BufferTypeOK /\ FlagTypeOK /\ ChipTypeOK
        /\ BatchWithinBuffer
    BY DEF TypeInv, TypeOK
  <1> SUFFICES MachineTypeOK' /\ FlagTypeOK' /\ ChipTypeOK' /\ BatchWithinBuffer'
    BY DEF TypeInv, TypeOK
  <1>1. CASE Connect \/ Disconnect
    <2>1. calls' \in 0..MAX_CALLS
      BY <1>0, <1>1, CallsCounted DEF Connect, Disconnect, FlagTypeOK
    <2>2. FlagTypeOK'
      BY <1>0, <1>1, <2>1 DEF FlagTypeOK, Connect, Disconnect, AppFrame, counterVars, smsVars,
         chipVars, netVars
    <2>3. UNCHANGED <<machineVars, chipVars, dataToSendBuffer, bytesToSendInSendStage>>
      BY <1>1 DEF Connect, Disconnect, AppFrame
    <2>4. QED
      BY <1>0, <2>2, <2>3, MachineUnchanged, ChipUnchanged, BatchUnchanged DEF chipVars, machineVars
  <1>2. CASE AppSend
    <2>1. PICK n \in 1..(MAX_UNITS - accepted) :
             /\ Fits(dataToSendBuffer, [i \in 1..n |-> accepted + i])
             /\ dataToSendBuffer' = dataToSendBuffer \o [i \in 1..n |-> accepted + i]
      BY <1>2 DEF AppSend
    <2>2. /\ n \in Nat /\ Len(dataToSendBuffer) \in Nat
          /\ Len(dataToSendBuffer') = Len(dataToSendBuffer) + n
      BY <1>0, <2>1, AppendedUnits
    <2>3. bytesToSendInSendStage \in Nat
      BY <1>0, BufferAssumption DEF BufferTypeOK
    <2>4. BatchWithinBuffer'
      BY <1>0, <1>2, <2>2, <2>3 DEF BatchWithinBuffer, AppSend, AppFrame, machineVars
    <2>5. FlagTypeOK'
      BY <1>0, <1>2 DEF FlagTypeOK, AppSend, AppFrame, counterVars, smsVars, chipVars, netVars
    <2>6. UNCHANGED <<machineVars, chipVars>>
      BY <1>2 DEF AppSend, AppFrame
    <2>7. QED
      BY <1>0, <2>4, <2>5, <2>6, MachineUnchanged, ChipUnchanged DEF chipVars
  <1>3. CASE PowerOff
    <2>1. LinesTypeOK'
      <3>1. <<"_OFF">> \in Seq(Lines)
        BY OneElement DEF Lines, LinkLines
      <3>2. QED
        BY <1>0, <1>3, <3>1, QueuedType DEF PowerOff, MachineTypeOK, LinesTypeOK
    <2>2. MachineTypeOK'
      BY <1>0, <1>3, <2>1 DEF MachineTypeOK, LinesTypeOK, PowerOff, AppFrame, machineVars
    <2>3. calls' \in 0..MAX_CALLS
      BY <1>0, <1>3, CallsCounted DEF PowerOff
    <2>4. FlagTypeOK'
      BY <1>0, <1>3, <2>3 DEF FlagTypeOK, PowerOff, AppFrame, counterVars, smsVars, netVars
    <2>5. QED
      BY <1>0, <1>3, <2>2, <2>4, ChipUnchanged, BatchUnchanged DEF PowerOff, AppFrame, machineVars
  <1>4. CASE PowerOn
    <2>1. state' = "RESET_STAGE_DECIDE" /\ state' \in States /\ BatchWithinBuffer'
      BY <1>4, StateNames DEF PowerOn, ResetStates, BatchWithinBuffer, BatchStates
    <2>2. MachineTypeOK'
      BY <1>0, <1>4, <2>1 DEF MachineTypeOK, PowerOn
    <2>3. calls' \in 0..MAX_CALLS
      BY <1>0, <1>4, CallsCounted DEF PowerOn
    <2>4. FlagTypeOK'
      BY <1>0, <1>4, <2>3 DEF FlagTypeOK, PowerOn, OnDisconnected, counterVars, smsVars, netVars
    <2>5. ChipTypeOK'
      BY <1>0, <1>4 DEF ChipTypeOK, PowerOn, UsartAction, linkVars, netVars, Units
    <2>6. QED
      BY <2>1, <2>2, <2>4, <2>5
  <1>5. CASE AddSms
    <2>1. calls' \in 0..MAX_CALLS
      BY <1>0, <1>5, CallsCounted DEF AddSms
    <2>2. smsCollection' \in 0..MAX_SMS
      <3>1. MAX_SMS \in Nat
        BY ModemAssumption
      <3>2. QED
        BY <1>0, <1>5, <3>1 DEF AddSms, FlagTypeOK
    <2>3. FlagTypeOK'
      BY <1>0, <1>5, <2>1, <2>2 DEF FlagTypeOK, AddSms, AppFrame, counterVars, chipVars, netVars
    <2>4. UNCHANGED <<machineVars, chipVars, dataToSendBuffer, bytesToSendInSendStage>>
      BY <1>5 DEF AddSms, AppFrame
    <2>5. QED
      BY <1>0, <2>3, <2>4, MachineUnchanged, ChipUnchanged, BatchUnchanged DEF chipVars, machineVars
  <1>6. QED
    BY <1>1, <1>2, <1>3, <1>4, <1>5 DEF App

-----------------------------------------------------------------------------
(* The chip and the network. *)

Environment == ChipServes \/ ChipReports \/ ChipFails \/ NetDelivers \/ NetAcks \/ PeerSends

LEMMA ShortSeqs ==
    ASSUME NEW S, NEW a \in S, NEW b \in S, NEW c \in S, NEW d \in S
    PROVE  /\ << >> \in Seq(S) /\ <<a>> \in Seq(S) /\ <<a, b>> \in Seq(S)
           /\ <<a, b, c>> \in Seq(S) /\ <<a, b, c, d>> \in Seq(S)
  OBVIOUS

LEMMA SimpleLines == SimpleCommands \subseteq Lines /\ "AT" \in Lines
  <1>1. SimpleCommands \subseteq Lines
    BY DEF SimpleCommands, Lines, BootLines, LinkLines
  <1>2. BootCommand("INIT") = "AT" /\ "INIT" \in BootStates
    BY DEF BootCommand, BootStates
  <1>3. QED
    BY <1>1, <1>2 DEF SimpleCommands

LEMMA BootAnswerLines == ASSUME NEW t PROVE BootAnswer(t) \in Seq(Lines)
  <1>1. {"OK", "+CPIN: READY", "+CSQ: n", "+CREG: registered", "+CGATT: 1"} \subseteq Lines
    BY DEF Lines, BootLines
  <1>2. QED
    BY <1>1, ShortSeqs DEF BootAnswer

LEMMA BootRefusalLines == ASSUME NEW t, NEW a \in BootRefusals(t) PROVE a \in Seq(Lines)
  <1>1. {"OK", "ERROR", "+CPIN: SIM PIN", "+CSQ: 99", "+CREG: not registered", "+CGATT: 0",
         "+CME ERROR: 100"} \subseteq Lines
    BY DEF Lines, BootLines
  <1>2. QED
    BY <1>1, ShortSeqs DEF BootRefusals

ChipSays == UNCHANGED lines \/ \E new \in Seq(Lines) : Say(new)

LEMMA Said == ASSUME NEW new \in Seq(Lines), Say(new) PROVE ChipSays
  BY DEF ChipSays

(* What the chip says of itself, beside answering configuration commands. *)
Phrases ==
    {<< >>, <<"AT+QISTATE", "OK", "STATE: CONNECT OK">>, <<"AT+QISTATE", "OK", "STATE: other">>,
     <<"AT+QICLOSE", "OK">>, <<"AT+CIPSHUT", "SHUT OK">>, <<"AT+CIPSHUT", "ERROR">>,
     <<"CONNECT OK">>, <<"CONNECT FAIL">>, <<"CLOSED">>, <<"+PDP: DEACT">>, <<"SEND OK">>,
     <<"SEND FAIL">>, <<"+QIRDI">>, <<"RDY">>, <<"AT+CMGS">>, <<"OK">>, <<"+CMS ERROR">>,
     <<"ERROR">>, <<"> -">>, <<"AT+QISEND">>, <<"AT+QISEND", "ERROR">>,
     <<"AT+QIRD", "+QIRD: n", "payload", "OK">>, <<"AT+QIRD", "OK">>, <<"AT+QIRD", "ERROR">>,
     <<"AT+QIOPEN">>, <<"OK", "ALREADY CONNECT">>, <<"AT+QISACK">>, <<"+QISACK: some", "OK">>,
     <<"+QISACK: all", "OK">>}

LEMMA PhraseLines == Phrases \subseteq Seq(Lines)
  <1>1. LinkLines \subseteq Lines /\ {"OK", "ERROR"} \subseteq Lines
    BY DEF Lines, BootLines
  <1>2. {"AT+QISTATE", "STATE: CONNECT OK", "STATE: other", "AT+QICLOSE", "AT+CIPSHUT", "SHUT OK",
         "CONNECT OK", "CONNECT FAIL", "CLOSED", "+PDP: DEACT", "SEND OK", "SEND FAIL", "+QIRDI",
         "RDY", "AT+CMGS", "+CMS ERROR", "> -", "AT+QISEND", "AT+QIRD", "+QIRD: n", "payload",
         "AT+QIOPEN", "ALREADY CONNECT", "AT+QISACK", "+QISACK: some", "+QISACK: all",
         "OK", "ERROR"} \subseteq Lines
    BY <1>1 DEF LinkLines
  <1>3. /\ << >> \in Seq(Lines)
        /\ \A a \in Lines : <<a>> \in Seq(Lines)
        /\ \A a, b \in Lines : <<a, b>> \in Seq(Lines)
        /\ \A a, b, c \in Lines : <<a, b, c>> \in Seq(Lines)
        /\ \A a, b, c, d \in Lines : <<a, b, c, d>> \in Seq(Lines)
    OBVIOUS
  <1>4. {<<"CONNECT OK">>, <<"CONNECT FAIL">>, <<"CLOSED">>, <<"+PDP: DEACT">>, <<"SEND OK">>,
         <<"SEND FAIL">>, <<"+QIRDI">>, <<"RDY">>, <<"AT+CMGS">>, <<"OK">>, <<"+CMS ERROR">>,
         <<"ERROR">>, <<"> -">>, <<"AT+QISEND">>, <<"AT+QIOPEN">>, <<"AT+QISACK">>}
         \subseteq Seq(Lines)
    BY <1>2, <1>3
  <1>5. /\ "OK" \in Lines /\ "ERROR" \in Lines /\ "AT+QICLOSE" \in Lines /\ "AT+CIPSHUT" \in Lines
        /\ "SHUT OK" \in Lines /\ "AT+QISEND" \in Lines /\ "AT+QIRD" \in Lines
        /\ "ALREADY CONNECT" \in Lines /\ "+QISACK: some" \in Lines /\ "+QISACK: all" \in Lines
        /\ "AT+QISTATE" \in Lines /\ "STATE: CONNECT OK" \in Lines /\ "STATE: other" \in Lines
        /\ "+QIRD: n" \in Lines /\ "payload" \in Lines
    BY <1>2
  <1>6. /\ <<"AT+QICLOSE", "OK">> \in Seq(Lines) /\ <<"AT+CIPSHUT", "SHUT OK">> \in Seq(Lines)
        /\ <<"AT+CIPSHUT", "ERROR">> \in Seq(Lines) /\ <<"AT+QISEND", "ERROR">> \in Seq(Lines)
        /\ <<"AT+QIRD", "OK">> \in Seq(Lines) /\ <<"AT+QIRD", "ERROR">> \in Seq(Lines)
        /\ <<"OK", "ALREADY CONNECT">> \in Seq(Lines)
        /\ <<"+QISACK: some", "OK">> \in Seq(Lines) /\ <<"+QISACK: all", "OK">> \in Seq(Lines)
        /\ <<"AT+QISTATE", "OK", "STATE: CONNECT OK">> \in Seq(Lines)
        /\ <<"AT+QISTATE", "OK", "STATE: other">> \in Seq(Lines)
        /\ <<"AT+QIRD", "+QIRD: n", "payload", "OK">> \in Seq(Lines) /\ << >> \in Seq(Lines)
    BY <1>3, <1>5, Zenon
  <1>7. QED
    BY <1>4, <1>5, <1>6 DEF Phrases

LEMMA SimpleAnswers ==
    ASSUME Head(chipIn).text \in SimpleCommands,
           NEW answers, \A t \in SimpleCommands : answers[t] \subseteq Seq(Lines),
           Answer(answers)
    PROVE  ChipSays
  <1>1. PICK a \in answers[Head(chipIn).text] : Say(<<Head(chipIn).text>> \o a)
    BY DEF Answer
  <1>2. <<Head(chipIn).text>> \in Seq(Lines) /\ a \in Seq(Lines)
    BY SimpleLines, OneElement
  <1>3. <<Head(chipIn).text>> \o a \in Seq(Lines)
    BY <1>2, ConcatProperties
  <1>4. QED
    BY <1>1, <1>3 DEF ChipSays

LEMMA EnvironmentSays == Environment => ChipSays
  <1> SUFFICES ASSUME Environment PROVE ChipSays
    OBVIOUS
  <1>1. CASE ChipObeys
    <2>1. \A t \in SimpleCommands : {BootAnswer(t)} \subseteq Seq(Lines)
      BY BootAnswerLines
    <2>2. QED
      BY <1>1, <2>1, SimpleAnswers DEF ChipObeys, Serve
  <1>2. CASE ChipRefuses
    <2>1. \A t \in SimpleCommands : BootRefusals(t) \subseteq Seq(Lines)
      BY BootRefusalLines
    <2>2. QED
      BY <1>2, <2>1, SimpleAnswers DEF ChipRefuses, Serve
  <1>3. CASE \/ ChipAbsorbs \/ ChipMissesCommand \/ ChipTakesData \/ ChipIgnoresPulse
             \/ NetDelivers \/ NetAcks
    BY <1>3 DEF ChipAbsorbs, ChipMissesCommand, ChipTakesData, ChipIgnoresPulse, NetDelivers,
       NetAcks, ChipSays
  <1>5. CASE ChipState \/ ChipPrompts \/ ChipReads \/ ChipCancels
    <2>1. \E new \in Phrases : Say(new)
      BY <1>5 DEF ChipState, ChipPrompts, ChipReads, ChipCancels, Phrases
    <2>2. QED
      BY <2>1, PhraseLines, Said
  <1>6. CASE ChipConnected \/ ChipConnectFails \/ LinkLost \/ ChipSendOk \/ ChipSendFails
    <2>1. \E new \in Phrases : Say(new)
      BY <1>6 DEF ChipConnected, ChipConnectFails, LinkLost, ChipSendOk, ChipSendFails, Phrases
    <2>2. QED
      BY <2>1, PhraseLines, Said
  <1>7. CASE PeerSends \/ ChipToggles \/ ChipReboots \/ ChipSmsNumber \/ ChipSmsBody
             \/ ChipCloses \/ ChipShuts \/ ChipShutFails
    <2>1. UNCHANGED lines \/ \E new \in Phrases : Say(new)
      BY <1>7 DEF PeerSends, ChipToggles, ChipReboots, ChipSmsNumber, ChipSmsBody, ChipCloses,
         ChipShuts, ChipShutFails, Phrases
    <2>2. QED
      BY <2>1, PhraseLines, Said DEF ChipSays
  <1>9. CASE ChipOpens
    <2>1. \E a \in Phrases : Say(<<"AT+QIOPEN">> \o a)
      BY <1>9 DEF ChipOpens, Phrases
    <2>2. <<"AT+QIOPEN">> \in Seq(Lines)
      BY PhraseLines DEF Phrases
    <2>3. QED
      BY <2>1, <2>2, PhraseLines, ConcatProperties, Said
  <1>10. CASE ChipAcks
    <2>1. \E a \in Phrases : Say(<<"AT+QISACK">> \o a)
      BY <1>10 DEF ChipAcks, Phrases
    <2>2. <<"AT+QISACK">> \in Seq(Lines)
      BY PhraseLines DEF Phrases
    <2>3. QED
      BY <2>1, <2>2, PhraseLines, ConcatProperties, Said
  <1>11. QED
    BY <1>1, <1>2, <1>3, <1>5, <1>6, <1>7, <1>9, <1>10
       DEF Environment, ChipServes, ChipReports, ChipFails

ChipTakes == UNCHANGED chipIn \/ (chipIn # << >> /\ chipIn' = Tail(chipIn)) \/ chipIn' = << >>

LEMMA EnvironmentTakes == Environment => ChipTakes
  BY DEF Environment, ChipServes, ChipReports, ChipFails, ChipTakes, Serve, ChipObeys, ChipRefuses,
     ChipMissesCommand, ChipAbsorbs, ChipState, ChipOpens, ChipConnected, ChipConnectFails,
     ChipCloses, ChipShuts, ChipShutFails, LinkLost, ChipPrompts, ChipTakesData, ChipSendOk,
     ChipSendFails, ChipCancels, ChipAcks, ChipReads, ChipSmsNumber, ChipSmsBody, NetDelivers,
     NetAcks, PeerSends, ChipToggles, ChipIgnoresPulse, ChipReboots

LEMMA EnvironmentFaults == Environment => UNCHANGED faults \/ Fault
  BY DEF Environment, ChipServes, ChipReports, ChipFails, ChipObeys, ChipRefuses,
     ChipMissesCommand, ChipAbsorbs, ChipState, ChipOpens, ChipConnected, ChipConnectFails,
     ChipCloses, ChipShuts, ChipShutFails, LinkLost, ChipPrompts, ChipTakesData, ChipSendOk,
     ChipSendFails, ChipCancels, ChipAcks, ChipReads, ChipSmsNumber, ChipSmsBody, NetDelivers,
     NetAcks, PeerSends, ChipToggles, ChipIgnoresPulse, ChipReboots

LEMMA EnvironmentCountsSms ==
    ASSUME smsAnswered \in Nat, Environment PROVE smsAnswered' \in Nat
  <1>1. smsAnswered' \in {smsAnswered, smsAnswered + 1, smsAnswered + 0}
    BY DEF Environment, ChipServes, ChipReports, ChipFails, Serve, netVars, ChipObeys, ChipRefuses,
       ChipMissesCommand, ChipAbsorbs, ChipState, ChipOpens, ChipConnected, ChipConnectFails,
       ChipCloses, ChipShuts, ChipShutFails, LinkLost, ChipPrompts, ChipTakesData, ChipSendOk,
       ChipSendFails, ChipCancels, ChipAcks, ChipReads, ChipSmsNumber, ChipSmsBody, NetDelivers,
       NetAcks, PeerSends, ChipToggles, ChipIgnoresPulse, ChipReboots
  <1>2. QED
    BY <1>1

(* The link and the pins, but what carries data. *)
LinkFlagsOK ==
    /\ rxOn \in BOOLEAN /\ power \in {"on", "off"} /\ pulse \in BOOLEAN
    /\ link \in Links /\ prompt \in BOOLEAN /\ sendDue \in BOOLEAN
    /\ counters \in {"none", "all", "some"}

LEMMA EnvironmentKeepsFlags == ASSUME LinkFlagsOK, Environment PROVE LinkFlagsOK'
  <1> USE DEF LinkFlagsOK, Links, linkVars, pinVars, Serve, Hangup
  <1>1. CASE ChipServes
    BY <1>1 DEF ChipServes, ChipObeys, ChipAbsorbs, ChipState, ChipOpens, ChipCloses, ChipShuts,
       ChipPrompts, ChipTakesData, ChipCancels, ChipAcks, ChipReads, ChipSmsNumber, ChipSmsBody
  <1>2. CASE ChipReports \/ NetDelivers \/ NetAcks \/ PeerSends
    BY <1>2 DEF ChipReports, ChipConnected, ChipSendOk, ChipToggles, NetDelivers, NetAcks, PeerSends
  <1>3. CASE ChipFails
    BY <1>3 DEF ChipFails, ChipRefuses, ChipMissesCommand, ChipConnectFails, ChipShutFails,
       LinkLost, ChipSendFails, ChipIgnoresPulse, ChipReboots
  <1>4. QED
    BY <1>1, <1>2, <1>3 DEF Environment

(* What carries data: the units under way and those delivered, the peer's chunks. *)
CargoOK == flying \in Seq(Units) /\ delivered \subseteq Units

(* The chip takes a batch, loses what it took, or delivers the first unit of it. *)
PathMove ==
    \/ UNCHANGED delivered /\ (UNCHANGED flying \/ flying' = << >>)
    \/ UNCHANGED delivered /\ chipIn # << >> /\ flying' = flying \o Head(chipIn).data
    \/ /\ flying # << >> /\ flying' = Tail(flying)
       /\ delivered' = delivered \cup {Head(flying)}

LEMMA EnvironmentCarries == Environment => PathMove
  <1> SUFFICES ASSUME Environment PROVE PathMove
    OBVIOUS
  <1>1. CASE ChipTakesData
    BY <1>1 DEF ChipTakesData, netVars, PathMove
  <1>2. CASE NetDelivers
    BY <1>2 DEF NetDelivers, PathMove
  <1>3. CASE ~ChipTakesData /\ ~NetDelivers
    <2> USE DEF linkVars, netVars, Serve, Hangup
    <2>1. CASE ChipServes
      BY <1>3, <2>1 DEF ChipServes, ChipObeys, ChipAbsorbs, ChipState, ChipOpens, ChipCloses,
         ChipShuts, ChipPrompts, ChipCancels, ChipAcks, ChipReads, ChipSmsNumber, ChipSmsBody,
         PathMove
    <2>2. CASE ChipReports \/ NetAcks \/ PeerSends
      BY <2>2 DEF ChipReports, ChipConnected, ChipSendOk, ChipToggles, NetAcks, PeerSends, PathMove
    <2>3. CASE ChipFails
      BY <2>3 DEF ChipFails, ChipRefuses, ChipMissesCommand, ChipConnectFails, ChipShutFails,
         LinkLost, ChipSendFails, ChipIgnoresPulse, ChipReboots, PathMove
    <2>4. QED
      BY <1>3, <2>1, <2>2, <2>3 DEF Environment
  <1>4. QED
    BY <1>1, <1>2, <1>3

LEMMA EnvironmentKeepsCargo == ASSUME CargoOK, ChipInTypeOK, Environment PROVE CargoOK'
  <1>1. chipIn # << >> => Head(chipIn).data \in Seq(Units)
    <2>1. chipIn # << >> => Head(chipIn) \in Commands
      BY HeadTailProperties DEF ChipInTypeOK
    <2>2. QED
      BY <2>1 DEF Commands
  <1>2. flying # << >> => Head(flying) \in Units /\ Tail(flying) \in Seq(Units)
    BY HeadTailProperties DEF CargoOK
  <1>3. << >> \in Seq(Units)
    OBVIOUS
  <1>4. PathMove
    BY EnvironmentCarries
  <1>5. flying' \in Seq(Units)
    <2>1. CASE chipIn # << >> /\ flying' = flying \o Head(chipIn).data
      BY <1>1, <2>1, ConcatProperties DEF CargoOK
    <2>2. QED
      BY <1>2, <1>3, <1>4, <2>1 DEF PathMove, CargoOK
  <1>6. delivered' \subseteq Units
    BY <1>2, <1>4 DEF PathMove, CargoOK
  <1>7. QED
    BY <1>5, <1>6 DEF CargoOK, Units

InboxOK == inbox \in 0..MAX_INBOX /\ pushed \in 0..MAX_INBOX /\ inbox <= pushed

LEMMA EnvironmentKeepsInbox == ASSUME InboxOK, Environment PROVE InboxOK'
  <1>1. MAX_INBOX \in Nat
    BY ChipAssumption
  <1>2. CASE PeerSends
    BY <1>1, <1>2 DEF PeerSends, InboxOK
  <1>3. CASE ChipReads
    <2>1. inbox' = IF inbox > 0 THEN inbox - 1 ELSE 0
      BY <1>3 DEF ChipReads
    <2>2. pushed' = pushed
      BY <1>3 DEF ChipReads, Serve
    <2>3. QED
      BY <1>1, <2>1, <2>2 DEF InboxOK
  <1>4. CASE ~PeerSends /\ ~ChipReads
    <2>1. UNCHANGED pushed /\ (UNCHANGED inbox \/ inbox' = 0)
      <3> USE DEF linkVars, netVars, Serve, Hangup
      <3>1. CASE ChipServes
        BY <1>4, <3>1 DEF ChipServes, ChipObeys, ChipAbsorbs, ChipState, ChipOpens, ChipCloses,
           ChipShuts, ChipPrompts, ChipTakesData, ChipCancels, ChipAcks, ChipSmsNumber, ChipSmsBody
      <3>2. CASE ChipReports \/ NetDelivers \/ NetAcks
        BY <3>2 DEF ChipReports, ChipConnected, ChipSendOk, ChipToggles, NetDelivers, NetAcks
      <3>3. CASE ChipFails
        BY <3>3 DEF ChipFails, ChipRefuses, ChipMissesCommand, ChipConnectFails, ChipShutFails,
           LinkLost, ChipSendFails, ChipIgnoresPulse, ChipReboots
      <3>4. QED
        BY <1>4, <3>1, <3>2, <3>3 DEF Environment
    <2>2. QED
      BY <1>1, <2>1 DEF InboxOK
  <1>5. QED
    BY <1>2, <1>3, <1>4

LEMMA EnvironmentKeepsTypes ==
    ASSUME MachineTypeOK, FlagsOK, ChipInTypeOK, Environment, UNCHANGED modemVars
    PROVE  MachineTypeOK' /\ FlagsOK' /\ ChipInTypeOK'
  <1>1. MachineTypeOK'
    <2>1. LinesTypeOK'
      BY EnvironmentSays, SayType DEF ChipSays, MachineTypeOK, LinesTypeOK
    <2>2. QED
      BY <2>1 DEF MachineTypeOK, LinesTypeOK, modemVars, machineVars
  <1>2. ChipInTypeOK'
    <2>1. ChipTakes
      BY EnvironmentTakes
    <2>2. CASE chipIn # << >> /\ chipIn' = Tail(chipIn)
      BY <2>2, ServedType
    <2>3. CASE UNCHANGED chipIn
      BY <2>3 DEF ChipInTypeOK, Commands, Units
    <2>4. CASE chipIn' = << >>
      BY <2>4, ChipAssumption DEF ChipInTypeOK
    <2>5. QED
      BY <2>1, <2>2, <2>3, <2>4 DEF ChipTakes
  <1>3. FlagsOK'
    <2>1. LinkFlagsOK' /\ CargoOK' /\ InboxOK'
      BY EnvironmentKeepsFlags, EnvironmentKeepsCargo, EnvironmentKeepsInbox
         DEF FlagsOK, ChipFlagsOK, LinkFlagsOK, CargoOK, InboxOK
    <2>2. faults' \in 0..MAX_FAULTS
      BY EnvironmentFaults, FaultBounded DEF FlagsOK, ChipFlagsOK
    <2>3. ChipFlagsOK'
      BY <2>1, <2>2 DEF ChipFlagsOK, LinkFlagsOK, CargoOK, InboxOK
    <2>4. smsAnswered' \in Nat
      BY EnvironmentCountsSms DEF FlagsOK, FlagTypeOK
    <2>5. FlagTypeOK'
      BY <2>4 DEF FlagsOK, FlagTypeOK, modemVars, counterVars, appVars, smsVars
    <2>6. QED
      BY <2>3, <2>5 DEF FlagsOK
  <1>4. QED
    BY <1>1, <1>2, <1>3

-----------------------------------------------------------------------------
(* The theorems. *)

LEMMA DriverKeepsTypes ==
    ASSUME TypeInv, BufferTypeOK', Driver \/ TimerExpires PROVE TypeInv'
  <1>0. MachineTypeOK /\ BufferTypeOK /\ FlagsOK /\ ChipInTypeOK /\ BatchWithinBuffer
    BY TypeParts DEF TypeInv
  <1>1. state \in States
    BY <1>0 DEF MachineTypeOK
  <1>2. MachineTypeOK' /\ ChipInTypeOK'
    BY <1>0, <1>1, DriverMovesQueues, TimerMovesQueues, QueueMoveTypes
  <1>3. DriverFlags /\ (UNCHANGED faults \/ Fault)
    BY <1>0, DriverMovesFlags, TimerMovesFlags
  <1>4. UNCHANGED smsAnswered
    BY <1>3 DEF DriverFlags, ChipOwn, netVars
  <1>5. FlagsOK'
    BY <1>0, <1>3, <1>4, DriverFlagsTypes
  <1>6. BatchWithinBuffer'
    BY <1>0, DriverMovesBatch, TimerMovesBatch, MoveKeepsBatch
  <1>7. QED
    BY <1>2, <1>5, <1>6, TypePartsNext DEF TypeInv

LEMMA InitTypes == Init => TypeInv
  <1> SUFFICES ASSUME Init PROVE TypeInv
    OBVIOUS
  <1>1. /\ MAX_UNITS \in Nat /\ MAX_SMS \in Nat /\ MAX_CALLS \in Nat
        /\ AT_RETRY_LIMIT \in Nat /\ QUERY_ACK_COUNT_LIMIT \in Nat
        /\ OUTPUT_BUFFER_SIZE \in Nat /\ GSM_MAX_BYTES_SEND \in Nat
        /\ MAX_INBOX \in Nat /\ MAX_FAULTS \in Nat /\ EVENT_QUEUE_SIZE \in Nat
        /\ COMMAND_LIMIT \in Nat
    BY ModemAssumption, BufferAssumption, ChipAssumption
  <1>2. MachineTypeOK
    <2>1. "RESET_STAGE_DECIDE" \in States
      BY StateNames DEF ResetStates
    <2>2. << >> \in Seq(Lines) /\ Len(<< >>) = 0
      OBVIOUS
    <2>3. QED
      BY <1>1, <2>1, <2>2 DEF Init, ChipInit, MachineTypeOK
  <1>3. BufferTypeOK
    <2>1. << >> \in Seq(Units) /\ Len(<< >>) = 0
      OBVIOUS
    <2>2. QED
      BY <1>1, <2>1 DEF Init, BufferTypeOK
  <1>4. FlagTypeOK
    <2>1. /\ 0 \in 0..(QUERY_ACK_COUNT_LIMIT + 1) /\ 0 \in 0..(AT_RETRY_LIMIT + 1)
          /\ 0 \in 0..MAX_CALLS /\ 0 \in 0..MAX_SMS /\ 0 \in Nat
      BY <1>1
    <2>2. QED
      BY <2>1 DEF Init, ChipInit, FlagTypeOK
  <1>5. ChipInTypeOK
    <2>1. << >> \in Seq(Commands) /\ Len(<< >>) = 0
      OBVIOUS
    <2>2. QED
      BY <1>1, <2>1 DEF Init, ChipInit, ChipInTypeOK
  <1>6. ChipFlagsOK
    <2>1. << >> \in Seq(Units) /\ 0 \in 0..MAX_INBOX /\ 0 \in 0..MAX_FAULTS /\ 0 <= 0
      BY <1>1
    <2>2. flying \in Seq(Units) /\ inbox \in 0..MAX_INBOX /\ pushed \in 0..MAX_INBOX
          /\ inbox <= pushed /\ faults \in 0..MAX_FAULTS /\ delivered \subseteq Units
      BY <2>1 DEF Init, ChipInit
    <2>3. QED
      BY <2>2 DEF Init, ChipInit, ChipFlagsOK, Links
  <1>7. BatchWithinBuffer
    BY DEF Init, BatchWithinBuffer, BatchStates
  <1>8. QED
    BY <1>2, <1>3, <1>4, <1>5, <1>6, <1>7, TypeParts DEF TypeInv, FlagsOK

LEMMA NextKeepsTypes == TypeInv /\ [Next]_vars => TypeInv'
  <1> SUFFICES ASSUME TypeInv, [Next]_vars PROVE TypeInv'
    OBVIOUS
  <1>0. MachineTypeOK /\ BufferTypeOK /\ FlagsOK /\ ChipInTypeOK /\ BatchWithinBuffer
    BY TypeParts DEF TypeInv
  <1>1. BufferTypeOK'
    BY <1>0, NextMovesBuffer, MoveKeepsBufferType
  <1>2. CASE Driver \/ TimerExpires
    BY <1>1, <1>2, DriverKeepsTypes
  <1>3. CASE App
    BY <1>1, <1>3, AppKeepsTypes
  <1>4. CASE Serves \/ Reports \/ Delivers \/ Acks \/ Fails
    <2>1. Environment /\ UNCHANGED modemVars
      BY <1>4 DEF Serves, Reports, Delivers, Acks, Fails, Environment
    <2>2. MachineTypeOK' /\ FlagsOK' /\ ChipInTypeOK'
      BY <1>0, <2>1, EnvironmentKeepsTypes
    <2>3. BatchWithinBuffer'
      BY <1>0, <2>1, BatchUnchanged DEF modemVars, machineVars, bufferVars
    <2>4. QED
      BY <1>1, <2>2, <2>3, TypePartsNext DEF TypeInv
  <1>5. CASE UNCHANGED vars
    <2>1. /\ UNCHANGED <<machineVars, chipVars, dataToSendBuffer, bytesToSendInSendStage>>
          /\ UNCHANGED modemVars
      BY <1>5 DEF vars, modemVars, bufferVars
    <2>2. MachineTypeOK' /\ ChipTypeOK'
      BY <1>0, <2>1, ChipTypeParts, MachineUnchanged, ChipUnchanged DEF FlagsOK, chipVars
    <2>3. BatchWithinBuffer'
      BY <1>0, <2>1, BatchUnchanged DEF machineVars
    <2>4. FlagTypeOK'
      BY <1>0, <2>1 DEF FlagsOK, FlagTypeOK, modemVars, counterVars, appVars, smsVars, chipVars,
         netVars
    <2>5. QED
      BY <1>1, <2>2, <2>3, <2>4 DEF TypeInv, TypeOK
  <1>6. QED
    BY <1>2, <1>3, <1>4, <1>5 DEF Next

(* Every variable of the driver and its environment keeps its type and its bound: *)
(* the event queue, the buffer and the retry counters never exceed their limits. *)
THEOREM TypesHold == Spec => []TypeOK
  <1>1. Spec => []TypeInv
    BY InitTypes, NextKeepsTypes, PTL DEF Spec
  <1>2. TypeInv => TypeOK
    BY DEF TypeInv
  <1>3. QED
    BY <1>1, <1>2, PTL

(* transmit () in STAGE_SEND never reads past the end of dataToSendBuffer. *)
THEOREM BatchesStayWithinBuffer == Spec => []BatchWithinBuffer
  <1>1. Spec => []TypeInv
    BY InitTypes, NextKeepsTypes, PTL DEF Spec
  <1>2. TypeInv => BatchWithinBuffer
    BY DEF TypeInv
  <1>3. QED
    BY <1>1, <1>2, PTL
=============================================================================
