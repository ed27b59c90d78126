-------------------------- MODULE Mc60StreamProofs --------------------------
(***************************************************************************)
(* The way of the data of the MC60 driver, for every value of its          *)
(* constants: what waits for the chip, what the chip took and what the     *)
(* peer has follow each other without a gap, behind the units that left    *)
(* the buffer.  From it follow NoHole and the refinement of DataStream,    *)
(* both as long as NoLoss holds.  And NoLoss holds: one batch is on its    *)
(* way at a time, its "SEND OK" and its counters are taken for no other,   *)
(* so what the driver drops as sent the peer has.                          *)
(* At the end the other direction: what the peer sends is announced to the *)
(* driver until it fetches it.                                             *)
(***************************************************************************)
EXTENDS Mc60PairingProofs

-----------------------------------------------------------------------------
(* The units that have left the buffer, dropped as sent or given up, are the *)
(* first ones.                                                               *)

Gone == accepted - Len(dataToSendBuffer)
Known == 1..accepted

LEMMA Differences == \A a, b \in Nat : b <= a => a - b \in Nat
  OBVIOUS

LEMMA GoneGrows ==
    ASSUME BufferInv, BufferMove
    PROVE  /\ Gone \in Nat /\ Gone' \in Nat /\ Gone <= Gone'
           /\ accepted \in Nat /\ accepted' \in Nat /\ accepted <= accepted'
  <1> DEFINE waiting == Len(dataToSendBuffer)
             waits == Len(dataToSendBuffer')
  <1>1. BufferInv'
    BY MoveKeepsBufferType, MoveKeepsBufferOrder DEF BufferInv
  <1>2. MAX_UNITS \in Nat /\ bytesToSendInSendStage \in Nat
    <2>1. MAX_UNITS \in Nat /\ GSM_MAX_BYTES_SEND \in Nat
      BY ModemAssumption, BufferAssumption
    <2>2. QED
      BY <2>1 DEF BufferInv, BufferTypeOK
  <1>3. /\ accepted \in Nat /\ waiting \in Nat /\ waiting <= accepted
        /\ accepted' \in Nat /\ waits \in Nat /\ waits <= accepted'
        /\ dataToSendBuffer \in Seq(Units)
    <2>1. dataToSendBuffer \in Seq(Units) /\ dataToSendBuffer' \in Seq(Units)
      BY <1>1 DEF BufferInv, BufferTypeOK, Units
    <2>2. accepted \in Nat /\ accepted' \in Nat
      BY <1>1, <1>2 DEF BufferInv, BufferTypeOK
    <2>3. waiting <= accepted /\ waits <= accepted'
      BY <1>1 DEF BufferInv, BufferOrder
    <2>4. waiting \in Nat /\ waits \in Nat
      BY <2>1, LenProperties
    <2>5. QED
      BY <2>1, <2>2, <2>3, <2>4
  <1>4. accepted <= accepted' /\ accepted - waiting <= accepted' - waits
    <2>1. CASE Untouched \/ Measured
      BY <1>3, <2>1 DEF Untouched, Measured, bufferVars
    <2>2. CASE Cleared
      <3>1. dataToSendBuffer' = << >> \/ dataToSendBuffer' = dataToSendBuffer
        BY <2>2 DEF Cleared, OnDisconnected
      <3>2. waits = 0 \/ waits = waiting
        BY <3>1, EmptySeq
      <3>3. accepted' = accepted
        BY <2>2 DEF Cleared
      <3>4. QED
        BY <1>3, <3>2, <3>3
    <2>3. CASE Declared
      <3>1. waits <= waiting
        BY <1>2, <1>3, <2>3, DeclareIsSuffix DEF Declared
      <3>2. accepted' = accepted
        BY <2>3 DEF Declared
      <3>3. QED
        BY <1>3, <3>1, <3>2
    <2>4. CASE AppSend
      <3>1. PICK n \in 1..(MAX_UNITS - accepted) :
               /\ Fits(dataToSendBuffer, [i \in 1..n |-> accepted + i])
               /\ dataToSendBuffer' = dataToSendBuffer \o [i \in 1..n |-> accepted + i]
               /\ accepted' = accepted + n
        BY <2>4 DEF AppSend
      <3>2. n \in Nat /\ waits = waiting + n
        BY <3>1, AppendedUnits DEF BufferInv
      <3>3. QED
        BY <1>3, <3>1, <3>2
    <2>5. QED
      BY <2>1, <2>2, <2>3, <2>4 DEF BufferMove
  <1>5. accepted - waiting \in Nat /\ accepted' - waits \in Nat
    BY <1>3, Differences
  <1>6. QED
    BY <1>3, <1>4, <1>5, Zenon DEF Gone

-----------------------------------------------------------------------------
(* The batches on the way. *)

Batches == {chipIn[i].data : i \in 1..Len(chipIn)}

(* Only units that were accepted are under way. *)
WayOK ==
    /\ \A b \in Batches : b \in Seq(Known)
    /\ flying \in Seq(Known) /\ delivered \subseteq Known

FlightInv == Flight(Batches, flying, delivered, 1..Gone)

StreamInv == TypeInv /\ BufferOrder /\ WayOK /\ FlightInv

LEMMA StreamParts ==
    StreamInv => BufferInv /\ ChipInTypeOK /\ FlagsOK /\ BatchWithinBuffer /\ state \in States
  <1>1. StreamInv => MachineTypeOK /\ BufferTypeOK /\ FlagsOK /\ ChipInTypeOK
    BY TypeParts DEF StreamInv, TypeInv
  <1>2. QED
    BY <1>1 DEF StreamInv, TypeInv, BufferInv, MachineTypeOK

(* The batch STAGE_SEND transmits. *)
LEMMA NewBatch ==
    ASSUME BufferInv, BatchWithinBuffer, state = "NETWORK_PREPARE_SEND"
    PROVE  BatchData \in Seq(Known) /\ InTurn(BatchData, 1..Gone)
  <1> DEFINE waiting == Len(dataToSendBuffer)
             n == bytesToSendInSendStage
  <1> DEFINE g == Gone
  <1>1. /\ dataToSendBuffer \in Seq(Units) /\ waiting \in Nat
        /\ n \in Nat /\ accepted \in Nat
    <2>1. MAX_UNITS \in Nat /\ GSM_MAX_BYTES_SEND \in Nat
      BY ModemAssumption, BufferAssumption
    <2>2. QED
      BY <2>1, LenProperties DEF BufferInv, BufferTypeOK
  <1>2. n <= waiting /\ n \in 0..waiting
    BY <1>1 DEF BatchWithinBuffer
  <1>3. g = accepted - waiting /\ waiting <= accepted
    BY DEF Gone, BufferInv, BufferOrder
  <1>4. \A i \in 1..waiting : dataToSendBuffer[i] = accepted - waiting + i
    BY DEF BufferInv, BufferOrder
  <1> HIDE DEF g
  <1>5. g \in Nat /\ \A i \in 1..waiting : dataToSendBuffer[i] = g + i
    BY <1>1, <1>3, <1>4
  <1>6. dataToSendBuffer \in Seq(Nat)
    <2>1. Units \subseteq Nat
      BY DEF Units
    <2>2. QED
      BY <1>1, <2>1, SeqMonotonic
  <1>7. /\ BatchData \in Seq(Nat) /\ InTurn(BatchData, 1..g)
        /\ \A i \in 1..Len(BatchData) :
               i \in 1..waiting /\ BatchData[i] = dataToSendBuffer[i]
    BY <1>2, <1>5, <1>6, BatchInTurn DEF BatchData
  <1>8. \A i \in 1..Len(BatchData) : BatchData[i] \in Known
    <2> SUFFICES ASSUME NEW i \in 1..Len(BatchData) PROVE BatchData[i] \in 1..accepted
      BY DEF Known
    <2>1. i \in 1..waiting /\ BatchData[i] = g + i
      BY <1>5, <1>7
    <2>2. QED
      BY <1>1, <1>3, <1>5, <2>1
  <1>9. BatchData \in Seq(Known)
    BY <1>7, <1>8, SeqOfElements
  <1>10. InTurn(BatchData, 1..Gone)
    BY <1>7 DEF g
  <1>11. QED
    BY <1>9, <1>10

(* Every batch that a step of the driver leaves for the chip was there before, *)
(* or is empty, or is the one STAGE_SEND transmits.                          *)
LEMMA OneBatch ==
    ASSUME ChipInTypeOK, NEW command, Transmit(<<command>>)
    PROVE  \A b \in Batches' : b \in Batches \cup {command.data}
  <1>1. chipIn \in Seq(Commands) /\ Len(chipIn) \in Nat
    BY LenProperties DEF ChipInTypeOK
  <1>2. Batches' = {chipIn'[i].data : i \in 1..Len(chipIn')}
    BY DEF Batches
  <1>3. CASE chipIn' = chipIn
    BY <1>2, <1>3 DEF Batches
  <1>4. CASE chipIn' = chipIn \o <<command>>
    <2>1. chipIn \in Seq(Commands \cup {command}) /\ <<command>> \in Seq(Commands \cup {command})
      BY <1>1, SeqMonotonic
    <2>2. /\ Len(chipIn') = Len(chipIn) + 1
          /\ \A i \in 1..(Len(chipIn) + 1) :
                chipIn'[i] = IF i <= Len(chipIn) THEN chipIn[i] ELSE <<command>>[i - Len(chipIn)]
      BY <1>4, <2>1, ConcatProperties
    <2>3. \A i \in 1..Len(chipIn') :
             (i \in 1..Len(chipIn) /\ chipIn'[i] = chipIn[i]) \/ chipIn'[i] = command
      BY <1>1, <2>2
    <2>4. QED
      BY <1>2, <2>3 DEF Batches
  <1>5. QED
    BY <1>3, <1>4 DEF Transmit, Received

LEMMA NoBatch == ASSUME ChipInTypeOK, Transmit(<< >>) PROVE UNCHANGED chipIn
  BY ConcatEmptySeq DEF ChipInTypeOK, Transmit, Received

LEMMA DriverBatches ==
    ASSUME ChipInTypeOK, ChipInMove
    PROVE  \A b \in Batches' :
              b \in Batches \/ b = << >> \/ (b = BatchData /\ state = "NETWORK_PREPARE_SEND")
  <1>1. CASE UNCHANGED chipIn
    BY <1>1 DEF Batches
  <1>2. CASE Transmit(<< >>)
    BY <1>1, <1>2, NoBatch
  <1>3. CASE \E text : Transmit(<<Command(text, << >>)>>)
    <2>1. PICK text : Transmit(<<Command(text, << >>)>>)
      BY <1>3
    <2>2. Command(text, << >>).data = << >>
      BY DEF Command
    <2>3. QED
      BY <2>1, <2>2, OneBatch
  <1>4. CASE state = "NETWORK_PREPARE_SEND" /\ Transmit(<<Command("data", BatchData)>>)
    <2>1. Command("data", BatchData).data = BatchData
      BY DEF Command
    <2>2. QED
      BY <1>4, <2>1, OneBatch
  <1>5. \A s : Transmit(EntryCommand(s)) =>
           Transmit(<< >>) \/ \E text : Transmit(<<Command(text, << >>)>>)
    BY DEF EntryCommand
  <1>6. QED
    BY <1>1, <1>2, <1>3, <1>4, <1>5 DEF ChipInMove

(* The chip takes its commands one by one, or loses them all. *)
LEMMA ChipBatches == ASSUME ChipInTypeOK, ChipTakes PROVE Batches' \subseteq Batches
  <1>1. CASE UNCHANGED chipIn
    BY <1>1 DEF Batches
  <1>2. CASE chipIn' = << >>
    BY <1>2, EmptySeq DEF Batches
  <1>3. CASE chipIn # << >> /\ chipIn' = Tail(chipIn)
    <2>1. /\ chipIn \in Seq(Commands) /\ Len(chipIn) \in Nat
          /\ Len(chipIn') = Len(chipIn) - 1
          /\ \A i \in 1..Len(chipIn') : chipIn'[i] = chipIn[i + 1]
      BY <1>3, HeadTailProperties, LenProperties DEF ChipInTypeOK
    <2>2. \A i \in 1..Len(chipIn') : i + 1 \in 1..Len(chipIn)
      BY <2>1
    <2>3. QED
      BY <2>1, <2>2 DEF Batches
  <1>4. QED
    BY <1>1, <1>2, <1>3 DEF ChipTakes

LEMMA FirstBatch == ASSUME ChipInTypeOK, chipIn # << >> PROVE Head(chipIn).data \in Batches
  <1>1. Len(chipIn) \in Nat /\ Head(chipIn) = chipIn[1] /\ 1 \in 1..Len(chipIn)
    BY EmptySeq, HeadTailProperties, LenProperties DEF ChipInTypeOK
  <1>2. QED
    BY <1>1 DEF Batches

(* A step of the specification, seen by the data on the way. *)
LEMMA NextBatches ==
    ASSUME StreamInv, [Next]_vars
    PROVE  /\ \A b \in Batches' :
                 b \in Batches \/ (b \in Seq(Known) /\ InTurn(b, 1..Gone))
           /\ PathMove
           /\ UNCHANGED delivered \/ (UNCHANGED modemVars /\ Delivers)
  <1>0. BufferInv /\ ChipInTypeOK /\ FlagsOK /\ BatchWithinBuffer /\ state \in States
    BY StreamParts
  <1>1. CASE Driver \/ TimerExpires
    <2>1. ChipInMove /\ DriverFlags
      BY <1>0, <1>1, DriverMovesQueues, TimerMovesQueues, DriverMovesFlags, TimerMovesFlags
         DEF QueueMove
    <2>2. << >> \in Seq(Known) /\ InTurn(<< >>, 1..Gone)
      BY EmptySeq DEF InTurn
    <2>3. \A b \in Batches' : b \in Batches \/ (b \in Seq(Known) /\ InTurn(b, 1..Gone))
      BY <1>0, <2>1, <2>2, DriverBatches, NewBatch
    <2>4. UNCHANGED <<flying, delivered>>
      BY <2>1 DEF DriverFlags, ChipOwn, linkVars, netVars
    <2>5. QED
      BY <2>3, <2>4 DEF PathMove
  <1>2. CASE App \/ UNCHANGED vars
    <2>1. UNCHANGED <<chipIn, flying, delivered>>
      BY <1>2 DEF App, Connect, AppSend, Disconnect, PowerOff, PowerOn, AddSms, vars, chipVars,
         linkVars, netVars
    <2>2. QED
      BY <2>1 DEF PathMove, Batches
  <1>3. CASE Serves \/ Reports \/ Delivers \/ Acks \/ Fails
    <2>1. Environment /\ UNCHANGED modemVars
      BY <1>3 DEF Serves, Reports, Delivers, Acks, Fails, Environment
    <2>2. PathMove /\ ChipTakes
      BY <2>1, EnvironmentCarries, EnvironmentTakes
    <2>3. UNCHANGED delivered \/ Delivers
      <3>1. CASE ChipServes \/ ChipReports \/ NetAcks \/ PeerSends
        BY <3>1 DEF ChipServes, ChipObeys, ChipAbsorbs, ChipState, ChipOpens, ChipCloses, ChipShuts,
           ChipPrompts, ChipTakesData, ChipCancels, ChipAcks, ChipReads, ChipSmsNumber, ChipSmsBody,
           ChipReports, ChipConnected, ChipSendOk, ChipToggles, NetAcks, PeerSends, Serve, netVars
      <3>2. CASE ChipFails
        BY <3>2 DEF ChipFails, ChipRefuses, ChipMissesCommand, ChipConnectFails, ChipShutFails,
           LinkLost, ChipSendFails, ChipIgnoresPulse, ChipReboots, Serve, netVars
      <3>3. QED
        BY <1>3, <3>1, <3>2 DEF Serves, Reports, Acks, Fails
    <2>4. QED
      BY <1>0, <2>1, <2>2, <2>3, ChipBatches
  <1>4. QED
    BY <1>1, <1>2, <1>3 DEF Next

LEMMA StepMovesBuffer ==
    ASSUME StreamInv, [Next]_vars
    PROVE  /\ BufferMove /\ BufferInv /\ BufferInv' /\ TypeInv'
           /\ Gone \in Nat /\ Gone' \in Nat /\ Gone <= Gone'
           /\ accepted \in Nat /\ accepted' \in Nat /\ accepted <= accepted'
  <1>1. BufferMove /\ BufferInv /\ TypeInv'
    BY NextMovesBuffer, NextKeepsTypes, StreamParts DEF StreamInv
  <1>2. BufferInv'
    BY <1>1, MoveKeepsBufferType, MoveKeepsBufferOrder DEF BufferInv
  <1>3. QED
    BY <1>1, <1>2, GoneGrows

LEMMA Longer == \A m, n \in Nat : m <= n => 1..m \subseteq 1..n /\ 1..m \subseteq Nat
  OBVIOUS

LEMMA WayStays == StreamInv /\ [Next]_vars => WayOK'
  <1> SUFFICES ASSUME StreamInv, [Next]_vars PROVE WayOK'
    OBVIOUS
  <1> DEFINE known == 1..accepted'
  <1>1. Known \subseteq known /\ Known' = known
    BY StepMovesBuffer, Longer DEF Known
  <1> HIDE DEF known
  <1>2. \A b \in Batches : b \in Seq(known)
    BY <1>1, SeqMonotonic DEF StreamInv, WayOK
  <1>3. flying \in Seq(known) /\ delivered \subseteq known /\ << >> \in Seq(known)
    BY <1>1, SeqMonotonic, EmptySeq DEF StreamInv, WayOK
  <1>4. \A b \in Batches' : b \in Seq(known)
    <2>1. \A b : b \in Seq(Known) => b \in Seq(known)
      BY <1>1, SeqMonotonic
    <2>2. QED
      BY <1>2, <2>1, NextBatches
  <1>5. PathMove /\ ChipInTypeOK
    BY NextBatches, StreamParts
  <1>6. flying' \in Seq(known)
    <2>1. CASE chipIn # << >> /\ flying' = flying \o Head(chipIn).data
      <3>1. Head(chipIn).data \in Seq(known)
        BY <1>2, <1>5, <2>1, FirstBatch
      <3>2. QED
        BY <1>3, <2>1, <3>1, ConcatProperties
    <2>2. CASE flying # << >> /\ flying' = Tail(flying)
      BY <1>3, <2>2, TailBounds
    <2>3. QED
      BY <1>3, <1>5, <2>1, <2>2 DEF PathMove
  <1>7. delivered' \subseteq known
    <2>1. flying # << >> => Head(flying) \in known
      BY <1>3, TailBounds
    <2>2. QED
      BY <1>3, <1>5, <2>1 DEF PathMove
  <1>8. QED
    BY <1>1, <1>4, <1>6, <1>7 DEF WayOK

LEMMA FlightStays == StreamInv /\ [Next]_vars => FlightInv'
  <1> SUFFICES ASSUME StreamInv, [Next]_vars PROVE FlightInv'
    OBVIOUS
  <1> DEFINE gone == 1..Gone
             gone1 == 1..(Gone')
  <1>1. gone \subseteq gone1 /\ Known \subseteq Nat
    BY StepMovesBuffer, Longer DEF Known
  <1>2. flying \in Seq(Nat) /\ \A b \in Batches : b \in Seq(Nat)
    BY <1>1, SeqMonotonic DEF StreamInv, WayOK
  <1>3. \A b \in Batches' : b \in Batches \/ InTurn(b, gone)
    BY NextBatches
  <1>4. \/ flying' \in {flying, << >>} /\ delivered' = delivered
        \/ delivered' = delivered /\ \E b \in Batches : flying' = flying \o b
        \/ flying # << >> /\ flying' = Tail(flying) /\ delivered' = delivered \cup {Head(flying)}
    BY NextBatches, StreamParts, FirstBatch DEF PathMove
  <1>5. Flight(Batches, flying, delivered, gone)
    BY DEF StreamInv, FlightInv
  <1> HIDE DEF gone, gone1
  <1>6. \A b \in Batches' : b \in Batches \/ InTurn(b, gone1)
    BY <1>1, <1>3, InTurnStays
  <1>7. Flight(Batches', flying', delivered', gone1)
    BY <1>1, <1>2, <1>4, <1>5, <1>6, FlightGoesOn, ZenonT(60)
  <1>8. QED
    BY <1>7 DEF gone1, FlightInv, Flight, InTurn, Batches

LEMMA StreamInductive == Spec => []StreamInv
  <1>1. Init => StreamInv
    <2> SUFFICES ASSUME Init PROVE StreamInv
      OBVIOUS
    <2>1. /\ flying = << >> /\ chipIn = << >> /\ delivered = {} /\ accepted = 0
          /\ dataToSendBuffer = << >> /\ declared = {} /\ Len(<< >>) = 0
      BY EmptySeq DEF Init, ChipInit
    <2>2. Batches = {} /\ flying \in Seq(Known)
      <3>1. 1..Len(chipIn) = {}
        BY <2>1
      <3>2. QED
        BY <2>1, <3>1, EmptySeq DEF Batches
    <2>3. WayOK
      BY <2>1, <2>2 DEF WayOK
    <2>4. FlightInv
      <3>1. InTurn(flying, delivered \cup (1..Gone))
        BY <2>1 DEF InTurn
      <3>2. QED
        BY <2>1, <2>2, <3>1 DEF FlightInv, Flight
    <2>5. BufferOrder
      BY <2>1 DEF BufferOrder
    <2>6. QED
      BY <2>3, <2>4, <2>5, InitTypes DEF StreamInv
  <1>2. StreamInv /\ [Next]_vars => StreamInv'
    BY StepMovesBuffer, WayStays, FlightStays DEF StreamInv, BufferInv
  <1>3. QED
    BY <1>1, <1>2, PTL DEF Spec

-----------------------------------------------------------------------------
(* What is gone has been declared or given up. *)

LEMMA GoneUnits ==
    ASSUME BufferInv, NEW u \in 1..Gone PROVE u \in declared \cup Discarded
  <1>1. /\ dataToSendBuffer \in Seq(Units) /\ accepted \in Nat
    <2>1. MAX_UNITS \in Nat
      BY ModemAssumption
    <2>2. QED
      BY <2>1 DEF BufferInv, BufferTypeOK
  <1>2. Len(dataToSendBuffer) \in Nat /\ Len(dataToSendBuffer) <= accepted
    BY <1>1, LenProperties DEF BufferInv, BufferOrder
  <1>3. u \in 1..accepted /\ u <= accepted - Len(dataToSendBuffer)
    BY <1>1, <1>2 DEF Gone
  <1>4. ASSUME u \in Range(dataToSendBuffer) PROVE FALSE
    <2>1. PICK i \in DOMAIN dataToSendBuffer : dataToSendBuffer[i] = u
      BY <1>4 DEF Range
    <2>2. i \in 1..Len(dataToSendBuffer)
      BY <1>1, <2>1, LenProperties
    <2>3. dataToSendBuffer[i] = accepted - Len(dataToSendBuffer) + i
      BY <2>2 DEF BufferInv, BufferOrder
    <2>4. QED
      BY <1>1, <1>2, <1>3, <2>1, <2>2, <2>3
  <1>5. QED
    BY <1>3, <1>4 DEF Discarded

LEMMA OrderedDelivery == StreamInv /\ NoLoss => NoHole
  <1> SUFFICES ASSUME StreamInv, NoLoss, NEW t \in delivered, NEW u \in 1..t
               PROVE  u \in delivered \cup Discarded
    BY DEF NoHole
  <1>1. t \in Nat
    <2>1. accepted \in Nat /\ delivered \subseteq 1..accepted
      <3>1. MAX_UNITS \in Nat /\ BufferTypeOK
        BY ModemAssumption, StreamParts DEF BufferInv
      <3>2. accepted \in Nat
        BY <3>1 DEF BufferTypeOK
      <3>3. QED
        BY <3>2 DEF StreamInv, WayOK, Known
    <2>2. QED
      BY <2>1
  <1>2. CASE u = t
    BY <1>2
  <1>3. CASE u # t
    <2>1. u \in 1..(t - 1)
      BY <1>1, <1>3
    <2>2. u \in delivered \cup (1..Gone)
      BY <2>1 DEF StreamInv, FlightInv, Flight
    <2>3. QED
      BY <2>2, StreamParts, GoneUnits DEF NoLoss
  <1>4. QED
    BY <1>2, <1>3

-----------------------------------------------------------------------------
(* The steps of DataStream. *)

FirstWaiting == accepted - Len(dataToSendBuffer) + 1

StreamMove ==
    \/ /\ UNCHANGED <<accepted, FirstWaiting, declared, delivered>>
       /\ UNCHANGED connected \/ (~connected /\ connected' = TRUE)
    \/ /\ accepted' > accepted /\ accepted' \in Nat
       /\ UNCHANGED <<FirstWaiting, declared, delivered, connected>>
    \/ /\ \E u \in 1..accepted :
             /\ 1..(u - 1) \subseteq delivered \cup ((1..(FirstWaiting - 1)) \ declared)
             /\ delivered' = delivered \cup {u}
       /\ UNCHANGED <<accepted, FirstWaiting, declared, connected>>
    \/ /\ FirstWaiting' \in (FirstWaiting + 1)..(accepted + 1)
       /\ FirstWaiting..(FirstWaiting' - 1) \subseteq delivered
       /\ declared' = declared \cup (FirstWaiting..(FirstWaiting' - 1))
       /\ UNCHANGED <<accepted, delivered, connected>>
    \/ /\ connected /\ connected' = FALSE /\ FirstWaiting' = accepted + 1
       /\ UNCHANGED <<accepted, declared, delivered>>

LEMMA FirstAfterGone ==
    ASSUME StreamInv, [Next]_vars
    PROVE  FirstWaiting = Gone + 1 /\ FirstWaiting' = Gone' + 1 /\ connected \in BOOLEAN
  BY StreamParts DEF FirstWaiting, Gone, FlagsOK, FlagTypeOK

(* Dropping units that the peer has reports them. *)
LEMMA DeclareReports ==
    ASSUME StreamInv, [Next]_vars, Declared, NoLoss', UNCHANGED delivered PROVE StreamMove
  <1> DEFINE before == Len(dataToSendBuffer)
             left == Declare(dataToSendBuffer, bytesToSendInSendStage)
             after == Len(left)
             taken == {dataToSendBuffer[i] : i \in 1..(before - after)}
  <1>1. /\ dataToSendBuffer \in Seq(Units) /\ accepted \in Nat
        /\ bytesToSendInSendStage \in Nat
    <2>1. MAX_UNITS \in Nat /\ GSM_MAX_BYTES_SEND \in Nat
      BY ModemAssumption, BufferAssumption
    <2>2. QED
      BY <2>1, StreamParts DEF BufferInv, BufferTypeOK
  <1>2. left \in Seq(Units) /\ after <= before
    BY <1>1, DeclareIsSuffix
  <1>3. before \in Nat /\ after \in Nat /\ before <= accepted
    BY <1>1, <1>2, LenProperties, StreamParts DEF BufferInv, BufferOrder
  <1>4. \A i \in 1..before : dataToSendBuffer[i] = accepted - before + i
    BY StreamParts DEF BufferInv, BufferOrder
  <1>5. /\ dataToSendBuffer' = left /\ accepted' = accepted /\ connected' = connected
        /\ declared' = declared \cup taken
    BY DEF Declared
  <1>6. FirstWaiting = accepted - before + 1 /\ FirstWaiting' = accepted - after + 1
    BY <1>5 DEF FirstWaiting
  <1> HIDE DEF before, left, after
  <1>7. taken = (accepted - before + 1)..(accepted - after)
    <2>1. ASSUME NEW i \in 1..(before - after)
          PROVE  dataToSendBuffer[i] \in (accepted - before + 1)..(accepted - after)
      <3>1. i \in 1..before
        BY <1>2, <1>3
      <3>2. QED
        BY <1>1, <1>2, <1>3, <1>4, <3>1
    <2>2. ASSUME NEW u \in (accepted - before + 1)..(accepted - after) PROVE u \in taken
      <3>1. /\ u - (accepted - before) \in 1..(before - after)
            /\ u - (accepted - before) \in 1..before
            /\ accepted - before + (u - (accepted - before)) = u
        BY <1>1, <1>2, <1>3
      <3>2. dataToSendBuffer[u - (accepted - before)] = u
        BY <1>4, <3>1
      <3>3. QED
        BY <3>1, <3>2
    <2>3. QED
      BY <2>1, <2>2
  <1> HIDE DEF taken
  <1>8. FirstWaiting..(FirstWaiting' - 1) = taken
    BY <1>1, <1>3, <1>6, <1>7
  <1>9. CASE after = before
    <2>1. taken = {}
      BY <1>1, <1>3, <1>7, <1>9
    <2>2. QED
      BY <1>5, <1>6, <1>9, <2>1 DEF StreamMove
  <1>10. CASE after < before
    <2>1. FirstWaiting' \in (FirstWaiting + 1)..(accepted + 1)
      BY <1>1, <1>3, <1>6, <1>10
    <2>2. taken \subseteq delivered
      BY <1>5 DEF NoLoss
    <2>3. QED
      BY <1>5, <1>8, <2>1, <2>2 DEF StreamMove
  <1>11. QED
    BY <1>2, <1>3, <1>9, <1>10

LEMMA SendAccepts ==
    ASSUME StreamInv, [Next]_vars, AppSend, UNCHANGED delivered PROVE StreamMove
  <1>1. PICK n \in 1..(MAX_UNITS - accepted) :
           /\ Fits(dataToSendBuffer, [i \in 1..n |-> accepted + i])
           /\ dataToSendBuffer' = dataToSendBuffer \o [i \in 1..n |-> accepted + i]
           /\ accepted' = accepted + n /\ UNCHANGED <<declared, connected>>
    BY DEF AppSend, AppFrame
  <1>2. /\ accepted \in Nat /\ n \in Nat \ {0} /\ Len(dataToSendBuffer) \in Nat
        /\ Len(dataToSendBuffer') = Len(dataToSendBuffer) + n
    BY <1>1, StreamParts, AppendedUnits DEF BufferInv
  <1>3. UNCHANGED FirstWaiting
    BY <1>1, <1>2 DEF FirstWaiting
  <1>4. accepted' > accepted /\ accepted' \in Nat
    BY <1>1, <1>2
  <1>5. QED
    BY <1>1, <1>3, <1>4 DEF StreamMove

(* A unit arrives in its turn: what comes before it the peer has, or it was given up. *)
LEMMA NetDelivery ==
    ASSUME StreamInv, [Next]_vars, NoLoss, Delivers, UNCHANGED modemVars PROVE StreamMove
  <1>1. UNCHANGED <<accepted, FirstWaiting, declared, connected>>
    BY DEF modemVars, bufferVars, appVars, FirstWaiting
  <1>2. flying # << >> /\ delivered' = delivered \cup {Head(flying)}
    BY DEF Delivers, NetDelivers
  <1>3. flying \in Seq(Known) /\ accepted \in Nat
    BY StepMovesBuffer DEF StreamInv, WayOK
  <1>4. Head(flying) \in 1..accepted
    BY <1>2, <1>3, TailBounds DEF Known
  <1>5. 1..(Head(flying) - 1) \subseteq delivered \cup (1..Gone)
    <2>1. Known \subseteq Nat
      BY <1>3, Longer DEF Known
    <2>2. flying \in Seq(Nat)
      BY <1>3, <2>1, SeqMonotonic
    <2>3. InTurn(flying, delivered \cup (1..Gone))
      BY DEF StreamInv, FlightInv, Flight
    <2>4. QED
      BY <1>2, <2>2, <2>3, FirstInTurn
  <1>6. FirstWaiting - 1 = Gone
    BY FirstAfterGone, StepMovesBuffer
  <1>7. 1..(Head(flying) - 1) \subseteq delivered \cup ((1..(FirstWaiting - 1)) \ declared)
    BY <1>5, <1>6 DEF NoLoss
  <1>8. QED
    BY <1>1, <1>2, <1>4, <1>7 DEF StreamMove

LEMMA NextIsStreamMove ==
    ASSUME StreamInv, [Next]_vars, NoLoss, NoLoss' PROVE StreamMove
  <1>1. UNCHANGED delivered \/ (UNCHANGED modemVars /\ Delivers)
    BY NextBatches
  <1>2. CASE UNCHANGED modemVars /\ Delivers
    BY <1>2, NetDelivery
  <1>3. CASE UNCHANGED delivered
    <2>1. BufferMove /\ connected \in BOOLEAN
      BY StepMovesBuffer, FirstAfterGone
    <2>2. CASE Untouched
      <3>1. UNCHANGED <<accepted, FirstWaiting, declared>>
        BY <2>2 DEF Untouched, bufferVars, FirstWaiting
      <3>2. UNCHANGED connected \/ (~connected /\ connected' = TRUE)
        BY <2>1, <2>2 DEF Untouched, OnConnected
      <3>3. QED
        BY <1>3, <3>1, <3>2 DEF StreamMove
    <2>3. CASE Cleared
      <3>1. UNCHANGED <<accepted, declared>> /\ connected' = FALSE
        BY <2>3 DEF Cleared, OnDisconnected
      <3>2. CASE connected
        <4>1. dataToSendBuffer' = << >> /\ Len(<< >>) = 0
          BY <2>3, <3>2, EmptySeq DEF Cleared, OnDisconnected
        <4>2. FirstWaiting' = accepted + 1
          BY <3>1, <4>1, StepMovesBuffer DEF FirstWaiting
        <4>3. QED
          BY <1>3, <3>1, <3>2, <4>2 DEF StreamMove
      <3>3. CASE ~connected
        <4>1. UNCHANGED <<FirstWaiting, connected>>
          BY <2>1, <2>3, <3>3 DEF Cleared, OnDisconnected, FirstWaiting
        <4>2. QED
          BY <1>3, <3>1, <4>1 DEF StreamMove
      <3>4. QED
        BY <3>2, <3>3
    <2>4. CASE Measured
      BY <1>3, <2>4 DEF Measured, StreamMove, FirstWaiting
    <2>5. CASE Declared
      BY <1>3, <2>5, DeclareReports
    <2>6. CASE AppSend
      BY <1>3, <2>6, SendAccepts
    <2>7. QED
      BY <2>1, <2>2, <2>3, <2>4, <2>5, <2>6 DEF BufferMove
  <1>4. QED
    BY <1>1, <1>2, <1>3

-----------------------------------------------------------------------------
(* How a step of the driver moves the batch.  A batch goes to the chip, its   *)
(* "SEND OK" is read, the counters are asked for, and what they acknowledge   *)
(* is dropped as sent; from each of these states the batch can be given up.   *)

SendOks == {"SEND OK"}
(* The states a batch that was sent goes through. *)
SendingStates == BatchStates \cup {"CANCEL_SEND"}
(* Where it no longer matters. *)
Stopped == {"GPRS_RESET"} \cup ShutDownStates

(* A step of the machine, as far as the batch on its way is concerned. *)
Elsewhere == state \notin SendingStates /\ state' \notin SendingStates /\ UNCHANGED declared
Remains == UNCHANGED <<state, bufferVars, allAcked, chipIn>>
Transmits ==
    /\ state = "NETWORK_PREPARE_SEND" /\ state' = "NETWORK_SEND" /\ UNCHANGED bufferVars
    /\ Transmit(<<Command("data", BatchData)>>)
SentOk ==
    /\ line = "SEND OK" /\ lines' = Rest /\ UNCHANGED bufferVars
    /\ \/ state = "NETWORK_SEND" /\ state' = "NETWORK_ACK_CHECK"
       \/ state = "CANCEL_SEND" /\ state' = "CHECK_CONNECTION"
Cancels ==
    /\ state \in {"NETWORK_SEND", "NETWORK_ACK_CHECK_PARSE"} /\ state' = "CANCEL_SEND"
    /\ UNCHANGED declared
AckRead ==
    /\ state = "NETWORK_ACK_CHECK" /\ state' = "NETWORK_ACK_CHECK_PARSE"
    /\ seen' = {} /\ lines' = Rest /\ Heard("OK") /\ allAcked' = QueryAck /\ UNCHANGED bufferVars
AsksAgain ==
    /\ state = "NETWORK_ACK_CHECK_PARSE" /\ state' = "NETWORK_ACK_CHECK" /\ UNCHANGED bufferVars
Declares ==
    /\ state = "NETWORK_ACK_CHECK_PARSE" /\ state' = "NETWORK_DECLARE_READ" /\ allAcked
    /\ Declared
Breaks ==
    /\ state \in {"NETWORK_SEND", "NETWORK_ACK_CHECK_PARSE"} /\ state' = "CLOSE_AND_RECONNECT"
    /\ UNCHANGED declared
Stops == state' \in Stopped /\ UNCHANGED declared

DataMove ==
    \/ Elsewhere \/ Remains \/ Transmits \/ SentOk \/ Cancels \/ AckRead \/ AsksAgain
    \/ Declares \/ Breaks \/ Stops

LEMMA SkipRemains == Skip => DataMove
  BY DEF Skip, Remains, DataMove, counterVars

LEMMA NotSending ==
    /\ \A s \in BootStates \cup ResetStates \cup ShutDownStates \cup ConnectStates \cup
            ReceiveStates \cup SmsStates \cup BootFirst \cup
            {"NETWORK_GPS_USART_ECHO_OFF", "NETWORK_BEGIN_SEND", "SLEEP", "WAKE",
             "CHECK_CONNECTION_PRE_SEND", "NETWORK_DECLARE_READ", "NETWORK_PREPARE_SEND"} :
         s \notin SendingStates
  BY DEF SendingStates, BatchStates, BootStates, ResetStates, ShutDownStates, ConnectStates,
     ReceiveStates, SmsStates, BootFirst

LEMMA GoesElsewhere ==
    ASSUME state \notin SendingStates, NEW next, next \notin SendingStates, Enter(next) \/ EnterWith(next) \/ Goto(next),
           UNCHANGED declared
    PROVE  DataMove
  BY DEF Enter, EnterWith, Goto, DataMove, Elsewhere

LEMMA EnterKeepsDeclared ==
    ASSUME NEW next, Enter(next) PROVE UNCHANGED declared
  BY DEF Enter, bufferVars

LEMMA DriverMovesData == Driver => DataMove
  <1> SUFFICES ASSUME Driver PROVE DataMove
    OBVIOUS
  <1> USE SkipRemains, GoesElsewhere, EnterKeepsDeclared, NotSending, AtIs
  <1>1. CASE ResetStageDecide \/ ResetStagePowerOff \/ ResetStagePowerOn \/ ShutDownStageStart
             \/ ShutDownStagePowerOff \/ ShutDown
    BY <1>1 DEF ResetStageDecide, ResetStagePowerOff, ResetStagePowerOn, ShutDownStageStart,
       ShutDownStagePowerOff, ShutDown, EnterPulsing, ResetStates, ShutDownStates, BootFirst, bufferVars
  <1>2. CASE TurnOff
    BY <1>2 DEF TurnOff, Enter, EnterWith, Goto, Stops, Stopped, ShutDownStates, bufferVars, DataMove
  <1>3. CASE GprsReset
    BY <1>3 DEF GprsReset, EnterDecide, OnDisconnected, ResetStates, ConnectStates, BootFirst
  <1>4. CASE CancelSend
    <2>1. CASE line = "SEND OK" /\ Enter("CHECK_CONNECTION")
      BY <1>4, <2>1 DEF CancelSend, Enter, EnterWith, Goto, SentOk, DataMove
    <2>2. CASE EnterWith("GPRS_RESET") /\ OnDisconnected
      BY <2>2 DEF OnDisconnected, EnterWith, Goto, Stops, Stopped, DataMove
    <2>3. QED
      BY <1>4, <2>1, <2>2 DEF CancelSend
  <1>5. CASE CloseAndReconnect \/ CloseDelay
    BY <1>5 DEF CloseAndReconnect, CloseDelay, OnDisconnected, ConnectStates, bufferVars, DataMove, Elsewhere
  <1>6. CASE Init_AT \/ ControlWaitForConnect \/ ConnectToServer \/ EchoOff
    BY <1>6 DEF Init_AT, ControlWaitForConnect, ConnectToServer, EchoOff, ConnectStates,
       ReceiveStates, BootFirst, BootStates, bufferVars
  <1>7. CASE Configure
    BY <1>7, BootNext DEF Configure, ResetStates, ConnectStates
  <1>8. CASE CheckConnection \/ CheckConnectionPreSend
    BY <1>8 DEF CheckConnection, CheckConnectionPreSend, QueryState, EnterPrepare, ConnectStates
  <1>9. CASE CheckReceive \/ BeginReceive \/ Receive \/ BeginSend \/ Sleep \/ Wake
    BY <1>9 DEF CheckReceive, BeginReceive, Receive, BeginSend, Sleep, Wake, ReceiveStates,
       ConnectStates, bufferVars
  <1>10. CASE PrepareSend
    <2>1. CASE EnterSend
      BY <1>10, <2>1 DEF PrepareSend, EnterSend, Goto, BatchData, Transmits, DataMove
    <2>2. QED
      BY <1>10, <2>1 DEF PrepareSend, ConnectStates
  <1>11. CASE Send
    <2>1. CASE EnterCounting("NETWORK_ACK_CHECK", 0)
      BY <1>11, <2>1 DEF Send, EnterCounting, EnterWith, Goto, SentOk, Breaks, Enter, DataMove, bufferVars
    <2>2. QED
      BY <1>11, <2>1 DEF Send, Enter, EnterWith, Goto, Breaks, DataMove, bufferVars
  <1>12. CASE AckCheck
    BY <1>12 DEF AckCheck, Answered, EnterWith, Goto, AckRead, DataMove
  <1>13. CASE AckCheckParse
    BY <1>13 DEF AckCheckParse, EnterCounting, EnterDeclare, EnterWith, Enter, Goto, DriverFrame, appVars,
       Declared, Declares, AsksAgain, Cancels, Breaks, bufferVars, DataMove
  <1>14. CASE DeclareRead \/ SmsBeginSend \/ SmsSendSingleNumber \/ SmsSendSingleBody
              \/ SmsSendSingleRemove
    BY <1>14 DEF DeclareRead, SmsBeginSend, SmsSendSingleNumber, SmsSendSingleBody,
       SmsSendSingleRemove, ConnectStates, SmsStates, bufferVars
  <1>15. QED
    BY <1>1, <1>2, <1>3, <1>4, <1>5, <1>6, <1>7, <1>8, <1>9, <1>10, <1>11, <1>12, <1>13, <1>14 DEF Driver

LEMMA TimerMovesData == TimerExpires => DataMove
  <1> SUFFICES ASSUME TimerExpires PROVE DataMove
    OBVIOUS
  <1>1. /\ state' \in {"RESET_STAGE_DECIDE", AfterTimer(state)} /\ UNCHANGED declared
        /\ state' = "RESET_STAGE_DECIDE" => AfterTimer(state) = "RESET_STAGE_DECIDE"
    BY DEF TimerExpires, EnterDecide, OnDisconnected, EnterWith, Goto, bufferVars
  <1>2. state' = AfterTimer(state)
    BY <1>1 DEF TimerExpires, EnterDecide, EnterWith, Goto
  <1>3. CASE state' = "GPRS_RESET"
    BY <1>1, <1>3 DEF Stops, Stopped, DataMove
  <1>4. CASE state' # "GPRS_RESET"
    <2>1. state \in OwnTimers /\ state' = OwnTimer(state)
      BY <1>2, <1>4 DEF AfterTimer, OwnTimerFirst
    <2>2. CASE state = "NETWORK_SEND"
      BY <1>1, <2>1, <2>2 DEF OwnTimer, Cancels, DataMove
    <2>3. CASE state # "NETWORK_SEND"
      <3>1. state \notin SendingStates /\ state' \notin SendingStates
        BY <2>1, <2>3, NotSending DEF OwnTimer, OwnTimers, ResetStates, BootFirst, BootStates
      <3>2. QED
        BY <1>1, <3>1 DEF Elsewhere, DataMove
    <2>4. QED
      BY <2>2, <2>3
  <1>5. QED
    BY <1>3, <1>4

-----------------------------------------------------------------------------
(* What the chip says of the data and of the counters. *)

AckAll == {"+QISACK: all"}
AckAsk == {"AT+QISACK"}
Others == Lines \ (SendOks \cup AckAll)

LEMMA SeqRange == ASSUME NEW S, NEW new \in Seq(S) PROVE Range(new) \subseteq S
  BY DEF Range

(* The phrases that have no such line. *)
PlainWords ==
    {<< >>, <<"AT+QISTATE", "OK", "STATE: CONNECT OK">>, <<"AT+QISTATE", "OK", "STATE: other">>,
     <<"AT+QICLOSE", "OK">>, <<"AT+CIPSHUT", "SHUT OK">>, <<"AT+CIPSHUT", "ERROR">>,
     <<"CONNECT OK">>, <<"CONNECT FAIL">>, <<"CLOSED">>, <<"+PDP: DEACT">>,
     <<"SEND FAIL">>, <<"+QIRDI">>, <<"RDY">>, <<"AT+CMGS">>, <<"OK">>, <<"+CMS ERROR">>,
     <<"ERROR">>, <<"> -">>, <<"AT+QISEND">>, <<"AT+QISEND", "ERROR">>,
     <<"AT+QIRD", "+QIRD: n", "payload", "OK">>, <<"AT+QIRD", "OK">>, <<"AT+QIRD", "ERROR">>,
     <<"AT+QIOPEN">>, <<"OK", "ALREADY CONNECT">>, <<"AT+QISACK">>, <<"+QISACK: some", "OK">>}

LEMMA PlainPhrases == PlainWords \subseteq Seq(Others)
  <1>1. SendOks \subseteq Lines /\ AckAll \subseteq Lines
    BY DEF SendOks, AckAll, Lines, LinkLines
  <1>2. {"AT+QISTATE", "STATE: CONNECT OK", "STATE: other", "AT+QICLOSE", "AT+CIPSHUT", "SHUT OK",
         "CONNECT OK", "CONNECT FAIL", "CLOSED", "+PDP: DEACT", "SEND FAIL", "+QIRDI",
         "RDY", "AT+CMGS", "+CMS ERROR", "> -", "AT+QISEND", "AT+QIRD", "+QIRD: n", "payload",
         "AT+QIOPEN", "ALREADY CONNECT", "AT+QISACK", "+QISACK: some",
         "OK", "ERROR"} \subseteq Others
    BY DEF LinkLines, Lines, BootLines, Others, SendOks, AckAll
  <1>3. /\ << >> \in Seq(Others)
        /\ \A a \in Others : <<a>> \in Seq(Others)
        /\ \A a, b \in Others : <<a, b>> \in Seq(Others)
        /\ \A a, b, c \in Others : <<a, b, c>> \in Seq(Others)
        /\ \A a, b, c, d \in Others : <<a, b, c, d>> \in Seq(Others)
    OBVIOUS
  <1>4. {<<"CONNECT OK">>, <<"CONNECT FAIL">>, <<"CLOSED">>, <<"+PDP: DEACT">>,
         <<"SEND FAIL">>, <<"+QIRDI">>, <<"RDY">>, <<"AT+CMGS">>, <<"OK">>, <<"+CMS ERROR">>,
         <<"ERROR">>, <<"> -">>, <<"AT+QISEND">>, <<"AT+QIOPEN">>, <<"AT+QISACK">>}
         \subseteq Seq(Others)
    BY <1>2, <1>3
  <1>5. /\ "OK" \in Others /\ "ERROR" \in Others /\ "AT+QICLOSE" \in Others /\ "AT+CIPSHUT" \in Others
        /\ "SHUT OK" \in Others /\ "AT+QISEND" \in Others /\ "AT+QIRD" \in Others
        /\ "ALREADY CONNECT" \in Others /\ "+QISACK: some" \in Others
        /\ "AT+QISTATE" \in Others /\ "STATE: CONNECT OK" \in Others /\ "STATE: other" \in Others
        /\ "+QIRD: n" \in Others /\ "payload" \in Others
    BY <1>2
  <1>6. /\ <<"AT+QICLOSE", "OK">> \in Seq(Others) /\ <<"AT+CIPSHUT", "SHUT OK">> \in Seq(Others)
        /\ <<"AT+CIPSHUT", "ERROR">> \in Seq(Others) /\ <<"AT+QISEND", "ERROR">> \in Seq(Others)
        /\ <<"AT+QIRD", "OK">> \in Seq(Others) /\ <<"AT+QIRD", "ERROR">> \in Seq(Others)
        /\ <<"OK", "ALREADY CONNECT">> \in Seq(Others)
        /\ <<"+QISACK: some", "OK">> \in Seq(Others)
        /\ <<"AT+QISTATE", "OK", "STATE: CONNECT OK">> \in Seq(Others)
        /\ <<"AT+QISTATE", "OK", "STATE: other">> \in Seq(Others)
        /\ <<"AT+QIRD", "+QIRD: n", "payload", "OK">> \in Seq(Others) /\ << >> \in Seq(Others)
    BY <1>3, <1>5, Zenon
  <1>7. QED
    BY <1>4, <1>5, <1>6 DEF PlainWords

LEMMA PlainSimple ==
    ASSUME QueuesOK, rxOn, UNCHANGED seen, ChipObeys \/ ChipRefuses
    PROVE  \E new \in Seq(Others) : lines' = Queued(lines, new)
  <1>1. PICK new : Tells(new) /\ TellsSimple(new)
    BY SimpleSpeaks
  <1>2. PICK text \in SimpleCommands :
           \/ \E a \in {"OK", "ERROR", "+CME ERROR: 100"} : new = <<text, a>>
           \/ \E a \in BootReplies : new = <<text, a, "OK">>
    BY <1>1 DEF TellsSimple
  <1>3. text \in Others
    <2>1. text \notin SendOks \cup AckAll
      BY SimpleNames DEF SendOks, AckAll
    <2>2. QED
      BY <2>1, SimpleLines DEF Others
  <1>4. BootReplies \cup {"OK", "ERROR", "+CME ERROR: 100"} \subseteq Others
    BY DEF BootReplies, Others, SendOks, AckAll, Lines, BootLines
  <1>5. \A S : \A a, b, c \in S : <<a, b>> \in Seq(S) /\ <<a, b, c>> \in Seq(S)
    OBVIOUS
  <1>6. new \in Seq(Others)
    BY <1>2, <1>3, <1>4, <1>5
  <1>7. QED
    BY <1>1, <1>6 DEF Tells

(* A line that counts for the data, and the step that says it. *)
Talks(new) ==
    /\ new \in Seq(Lines) /\ lines' = Queued(lines, new)
    /\ Range(new) \cap SendOks = {} \/ (new = <<"SEND OK">> /\ ChipSendOk)
    /\ Range(new) \cap AckAll = {} \/ (ChipAcks /\ counters = "all")

LEMMA PlainTalks ==
    ASSUME NEW new \in Seq(Others), lines' = Queued(lines, new) PROVE Talks(new)
  <1>1. Range(new) \subseteq Others
    BY SeqRange
  <1>2. new \in Seq(Lines)
    BY DEF Others
  <1>3. QED
    BY <1>1, <1>2 DEF Talks, Others

LEMMA PhraseTalks ==
    ASSUME rxOn, NEW new \in PlainWords, Say(new)
    PROVE  Talks(new)
  BY PlainPhrases, PlainTalks DEF Say

LEMMA EnvironmentTalks ==
    ASSUME QueuesOK, rxOn, UNCHANGED seen, ~ZeroCounters, Environment
    PROVE  \E new : Talks(new)
  <1>1. CASE ChipObeys \/ ChipRefuses
    BY <1>1, PlainSimple, PlainTalks
  <1>2. CASE UNCHANGED lines
    BY <1>2, QueuedNothing, EmptySeq, PlainTalks
  <1>3. CASE \/ ChipState \/ ChipPrompts \/ ChipReads \/ ChipCancels \/ ChipConnected
             \/ ChipConnectFails \/ LinkLost \/ ChipSendFails \/ PeerSends \/ ChipReboots
             \/ ChipSmsNumber \/ ChipSmsBody \/ ChipCloses \/ ChipShuts \/ ChipShutFails
             \/ (ChipToggles /\ ~UNCHANGED lines)
    <2>1. \E new \in PlainWords : Say(new)
      <3>1. CASE ChipState \/ ChipPrompts \/ ChipReads \/ ChipCancels
        BY <3>1 DEF ChipState, ChipPrompts, ChipReads, ChipCancels, PlainWords
      <3>2. CASE ChipConnected \/ ChipConnectFails \/ LinkLost \/ ChipSendFails
        BY <3>2 DEF ChipConnected, ChipConnectFails, LinkLost, ChipSendFails, PlainWords
      <3>3. CASE PeerSends \/ (ChipToggles /\ ~UNCHANGED lines) \/ ChipReboots \/ ChipSmsNumber \/ ChipSmsBody
                 \/ ChipCloses \/ ChipShuts \/ ChipShutFails
        BY <3>3 DEF PeerSends, ChipToggles, ChipReboots, ChipSmsNumber, ChipSmsBody, ChipCloses,
           ChipShuts, ChipShutFails, PlainWords
      <3>4. QED
        BY <1>3, <3>1, <3>2, <3>3
    <2>2. QED
      BY <2>1, PhraseTalks
  <1>4. CASE ChipSendOk
    <2>1. Say(<<"SEND OK">>) /\ <<"SEND OK">> \in Seq(Lines)
      BY <1>4, PhraseLines DEF ChipSendOk, Phrases
    <2>2. Range(<<"SEND OK">>) \cap AckAll = {}
      <3>1. Range(<<"SEND OK">>) = SendOks
        BY ShortRanges DEF SendOks
      <3>2. SendOks \cap AckAll = {}
        BY DEF SendOks, AckAll
      <3>3. QED
        BY <3>1, <3>2
    <2>3. QED
      BY <1>4, <2>1, <2>2 DEF Talks, Say
  <1>5. CASE ChipOpens
    <2>1. \E a \in {<< >>, <<"ERROR">>, <<"OK">>, <<"OK", "ALREADY CONNECT">>} : Say(<<"AT+QIOPEN">> \o a)
      BY <1>5 DEF ChipOpens
    <2>2. <<"AT+QIOPEN">> \in Seq(Others) /\ {<< >>, <<"ERROR">>, <<"OK">>, <<"OK", "ALREADY CONNECT">>} \subseteq Seq(Others)
      BY PlainPhrases DEF PlainWords
    <2>3. QED
      BY <2>1, <2>2, ConcatProperties, PlainTalks DEF Say
  <1>6. CASE ChipAcks
    <2>1. CASE counters = "all"
      <3>1. Say(<<"AT+QISACK">> \o <<"+QISACK: all", "OK">>)
        BY <1>6, <2>1 DEF ChipAcks
      <3>2. Say(<<"AT+QISACK", "+QISACK: all", "OK">>)
        BY <3>1, Joined, Zenon
      <3>3. Range(<<"AT+QISACK", "+QISACK: all", "OK">>) \cap SendOks = {}
        <4>1. \A a, b, c : Range(<<a, b, c>>) = {a, b, c}
          BY ShortRanges
        <4>2. "AT+QISACK" \notin SendOks /\ "+QISACK: all" \notin SendOks /\ "OK" \notin SendOks
          BY DEF SendOks
        <4>3. \A a, b, c : a \notin SendOks /\ b \notin SendOks /\ c \notin SendOks =>
                 Range(<<a, b, c>>) \cap SendOks = {}
          BY <4>1
        <4>4. QED
          BY <4>2, <4>3
      <3>4. <<"AT+QISACK", "+QISACK: all", "OK">> \in Seq(Lines)
        BY AckAnswers
      <3>5. QED
        BY <1>6, <2>1, <3>2, <3>3, <3>4 DEF Talks, Say
    <2>2. CASE counters # "all"
      <3>1. \E a \in {<<"+QISACK: some", "OK">>, <<"ERROR">>} : Say(<<"AT+QISACK">> \o a)
        BY <1>6, <2>2 DEF ChipAcks
      <3>2. <<"AT+QISACK">> \in Seq(Others) /\ {<<"+QISACK: some", "OK">>, <<"ERROR">>} \subseteq Seq(Others)
        BY PlainPhrases DEF PlainWords
      <3>3. QED
        BY <3>1, <3>2, ConcatProperties, PlainTalks DEF Say
    <2>3. QED
      BY <2>1, <2>2
  <1>7. QED
    BY <1>1, <1>2, <1>3, <1>4, <1>5, <1>6
       DEF Environment, ChipServes, ChipReports, ChipFails, ChipAbsorbs, ChipMissesCommand, ChipTakesData,
           ChipIgnoresPulse, NetDelivers, NetAcks

-----------------------------------------------------------------------------
(* The batch on its way to the chip and its "SEND OK". *)

NoSendOk == Range(lines) \cap SendOks = {}
SendsOnce ==
    \A i, j \in 1..Len(chipIn) : chipIn[i].text = "data" /\ chipIn[j].text = "data" => i = j

(* No batch is on its way, nor the answer to one. *)
Unsent == "data" \notin Asked /\ ~sendDue /\ NoSendOk
(* At most one is: its data, or the chip owes the answer, or the answer is told. *)
OneSend ==
    /\ "data" \in Asked => ~sendDue /\ NoSendOk
    /\ sendDue => NoSendOk
    /\ SendsOnce
    /\ Behind(lines, SendOks, Lines \ SendOks)
(* Behind one of these answers there is none. *)
Ended(answers) ==
    /\ Behind(lines, answers, Lines \ SendOks)
    /\ seen \cap answers # {} => NoSendOk

(* Only a connection takes data. *)
Attached == prompt \/ sendDue => link = "UP"

LEMMA AttachedStays == Attached /\ Environment => Attached'
  <1> SUFFICES ASSUME Attached, Environment PROVE Attached'
    OBVIOUS
  <1> USE DEF Attached, linkVars, Hangup
  <1>1. CASE ChipServes
    BY <1>1 DEF ChipServes, ChipObeys, ChipAbsorbs, ChipState, ChipOpens, ChipCloses, ChipShuts,
       ChipPrompts, ChipTakesData, ChipCancels, ChipAcks, ChipReads, ChipSmsNumber, ChipSmsBody
  <1>2. CASE ChipReports \/ NetDelivers \/ NetAcks \/ PeerSends
    BY <1>2 DEF ChipReports, ChipConnected, ChipSendOk, ChipToggles, NetDelivers, NetAcks, PeerSends
  <1>3. CASE ChipFails
    BY <1>3 DEF ChipFails, ChipRefuses, ChipMissesCommand, ChipConnectFails, ChipShutFails,
       LinkLost, ChipSendFails, ChipIgnoresPulse, ChipReboots
  <1>4. QED
    BY <1>1, <1>2, <1>3 DEF Environment

LEMMA EnvironmentOwes ==
    ASSUME Environment, sendDue' PROVE sendDue \/ (ChipTakesData /\ prompt)
  <1> USE DEF linkVars, Hangup
  <1>1. CASE ChipServes
    BY <1>1 DEF ChipServes, ChipObeys, ChipAbsorbs, ChipState, ChipOpens, ChipCloses, ChipShuts,
       ChipPrompts, ChipTakesData, ChipCancels, ChipAcks, ChipReads, ChipSmsNumber, ChipSmsBody
  <1>2. CASE ChipReports \/ NetDelivers \/ NetAcks \/ PeerSends
    BY <1>2 DEF ChipReports, ChipConnected, ChipSendOk, ChipToggles, NetDelivers, NetAcks, PeerSends
  <1>3. CASE ChipFails
    BY <1>3 DEF ChipFails, ChipRefuses, ChipMissesCommand, ChipConnectFails, ChipShutFails,
       LinkLost, ChipSendFails, ChipIgnoresPulse, ChipReboots
  <1>4. QED
    BY <1>1, <1>2, <1>3 DEF Environment

(* What is left of the commands. *)
LEMMA CommandsLeft ==
    ASSUME QueuesOK, ChipTakes
    PROVE  /\ Asked' \subseteq Asked
           /\ SendsOnce => SendsOnce'
           /\ \A i \in 1..Len(chipIn') : \E j \in 1..Len(chipIn) : chipIn'[i] = chipIn[j]
  <1>1. CASE UNCHANGED chipIn
    BY <1>1 DEF Asked, SendsOnce
  <1>2. CASE chipIn' = << >>
    <2>1. 1..Len(chipIn') = {}
      BY <1>2, EmptySeq
    <2>2. QED
      BY <2>1 DEF Asked, SendsOnce
  <1>3. CASE chipIn # << >> /\ chipIn' = Tail(chipIn)
    <2>1. /\ Asked' \subseteq Asked /\ Len(chipIn) \in Nat
          /\ Len(chipIn') = Len(chipIn) - 1
          /\ \A i \in 1..Len(chipIn') : i + 1 \in 1..Len(chipIn) /\ chipIn'[i] = chipIn[i + 1]
      BY <1>3, AskedServed
    <2>2. SendsOnce => SendsOnce'
      <3> SUFFICES ASSUME SendsOnce, NEW i \in 1..Len(chipIn'), NEW j \in 1..Len(chipIn'),
                          chipIn'[i].text = "data", chipIn'[j].text = "data"
                   PROVE  i = j
        BY DEF SendsOnce
      <3>1. i + 1 = j + 1
        BY <2>1 DEF SendsOnce
      <3>2. QED
        BY <2>1, <3>1
    <2>3. QED
      BY <2>1, <2>2
  <1>4. QED
    BY <1>1, <1>2, <1>3 DEF ChipTakes

LEMMA TalkIsTold ==
    ASSUME QueuesOK, UNCHANGED seen, NEW new, Talks(new)
    PROVE  /\ Told' \subseteq Told \cup Range(new)
           /\ Range(lines') \subseteq Range(lines) \cup Range(new)
           /\ Range(new) \subseteq Lines
           /\ NoSendOk /\ Range(new) \cap SendOks = {} => NoSendOk'
  <1>1. Range(lines') \subseteq Range(lines) \cup Range(new)
    BY QueuedRange DEF Talks, QueuesOK
  <1>2. Range(new) \subseteq Lines
    BY SeqRange DEF Talks
  <1>3. QED
    BY <1>1, <1>2 DEF Told, NoSendOk

LEMMA SendOkDue == ChipSendOk => sendDue /\ ~sendDue' /\ UNCHANGED chipIn
  BY DEF ChipSendOk

LEMMA TakenWasAsked ==
    ASSUME QueuesOK, ChipTakesData
    PROVE  "data" \in Asked /\ Head(chipIn).text = "data" /\ chipIn # << >> /\ chipIn' = Tail(chipIn)
           /\ UNCHANGED lines
  BY AskedServed DEF ChipTakesData

LEMMA UnsentStays ==
    ASSUME QueuesOK, UNCHANGED seen, Environment, NEW new, Talks(new), Unsent PROVE Unsent'
  <1>1. "data" \notin Asked'
    BY EnvironmentTakes, CommandsLeft DEF Unsent
  <1>2. ~sendDue'
    BY EnvironmentOwes, TakenWasAsked DEF Unsent
  <1>3. NoSendOk'
    BY SendOkDue, TalkIsTold DEF Talks, Unsent
  <1>4. QED
    BY <1>1, <1>2, <1>3 DEF Unsent

LEMMA OneSendStays ==
    ASSUME QueuesOK, UNCHANGED seen, Environment, NEW new, Talks(new), OneSend PROVE OneSend'
  <1>1. Asked' \subseteq Asked /\ SendsOnce'
    BY EnvironmentTakes, CommandsLeft DEF OneSend
  <1>2. CASE ChipTakesData
    <2>1. /\ "data" \in Asked /\ Head(chipIn).text = "data" /\ chipIn # << >>
          /\ chipIn' = Tail(chipIn) /\ UNCHANGED lines
      BY <1>2, TakenWasAsked
    <2>2. NoSendOk /\ NoSendOk'
      BY <2>1 DEF OneSend, NoSendOk
    <2>3. "data" \notin Asked'
      <3>1. /\ Len(chipIn) \in Nat /\ 1 \in 1..Len(chipIn) /\ Head(chipIn) = chipIn[1]
            /\ Len(chipIn') = Len(chipIn) - 1
            /\ \A i \in 1..Len(chipIn') : i + 1 \in 1..Len(chipIn) /\ chipIn'[i] = chipIn[i + 1]
        BY <2>1, AskedServed
      <3>2. ASSUME NEW i \in 1..Len(chipIn'), chipIn'[i].text = "data" PROVE FALSE
        <4>1. i + 1 = 1
          BY <2>1, <3>1, <3>2 DEF OneSend, SendsOnce
        <4>2. QED
          BY <3>1, <4>1
      <3>3. QED
        BY <3>2 DEF Asked
    <2>4. Behind(lines, SendOks, Lines \ SendOks)'
      BY <2>1 DEF OneSend
    <2>5. QED
      BY <1>1, <2>2, <2>3, <2>4 DEF OneSend
  <1>3. CASE ~ChipTakesData
    <2>1. sendDue' => sendDue
      BY <1>3, EnvironmentOwes
    <2>2. CASE Range(new) \cap SendOks = {}
      <3>1. Range(new) \subseteq Lines \ SendOks
        BY <2>2, TalkIsTold
      <3>2. Behind(lines, SendOks, Lines \ SendOks)'
        BY <3>1, BehindQueued DEF Talks, QueuesOK, OneSend
      <3>3. NoSendOk => NoSendOk'
        BY <2>2, TalkIsTold
      <3>4. QED
        BY <1>1, <2>1, <3>2, <3>3 DEF OneSend
    <2>3. CASE new = <<"SEND OK">> /\ ChipSendOk
      <3>1. sendDue /\ ~sendDue' /\ UNCHANGED chipIn
        BY <2>3, SendOkDue
      <3>2. NoSendOk /\ "data" \notin Asked'
        BY <1>1, <3>1 DEF OneSend
      <3>3. Behind(new, SendOks, Lines \ SendOks)
        BY <2>3, BehindShort
      <3>4. Behind(lines, SendOks, Lines \ SendOks)'
        BY <3>2, <3>3, BehindQueued DEF Talks, QueuesOK, OneSend, NoSendOk
      <3>5. QED
        BY <1>1, <3>1, <3>2, <3>4 DEF OneSend
    <2>4. QED
      BY <2>2, <2>3 DEF Talks
  <1>4. QED
    BY <1>2, <1>3

LEMMA EndedStays ==
    ASSUME QueuesOK, UNCHANGED seen, NEW new, Talks(new), NEW A, A \cap SendOks = {},
           Ended(A), sendDue => Told \cap A = {}
    PROVE  Ended(A)'
  <1>1. CASE Range(new) \cap SendOks = {}
    <2>1. Range(new) \subseteq Lines \ SendOks
      BY <1>1, TalkIsTold
    <2>2. Behind(lines, A, Lines \ SendOks)'
      BY <2>1, BehindQueued DEF Talks, QueuesOK, Ended
    <2>3. NoSendOk => NoSendOk'
      BY <1>1, TalkIsTold
    <2>4. QED
      BY <2>2, <2>3 DEF Ended
  <1>2. CASE new = <<"SEND OK">> /\ ChipSendOk
    <2>1. Range(lines) \cap A = {} /\ seen \cap A = {}
      BY <1>2, SendOkDue DEF Told
    <2>2. Behind(new, A, Lines \ SendOks)
      BY <1>2, BehindShort
    <2>3. Behind(lines, A, Lines \ SendOks)'
      BY <2>1, <2>2, BehindQueued DEF Talks, QueuesOK, Ended
    <2>4. QED
      BY <2>1, <2>3 DEF Ended
  <1>3. QED
    BY <1>1, <1>2 DEF Talks

-----------------------------------------------------------------------------
(* What the acknowledge counters tell of the batch. *)

BatchUnits == Range(BatchData)
(* The counters speak of this batch: what they acknowledge is delivered, and  *)
(* while they do not, it is on its way or delivered.                         *)
Carried ==
    /\ counters = "all" => BatchUnits \subseteq delivered
    /\ counters = "some" /\ link = "UP" => BatchUnits \subseteq delivered \cup Range(flying)

(* How the environment can touch the data under way, but for taking a batch. *)
CargoMove ==
    \/ UNCHANGED <<counters, flying, delivered>> /\ (link' = link \/ link' # "UP")
    \/ UNCHANGED delivered /\ link' = "DOWN" /\ counters' \in {counters, "none"}
    \/ NetDelivers
    \/ NetAcks

LEMMA EnvironmentCargo ==
    ASSUME Environment, link # "OPENING", ~(ChipTakesData /\ prompt) PROVE CargoMove
  <1>1. CASE ChipTakesData
    BY <1>1 DEF ChipTakesData, netVars, CargoMove
  <1>2. CASE ~ChipTakesData
    <2> USE DEF linkVars, netVars, Serve, Hangup, CargoMove
    <2>1. CASE ChipServes
      BY <1>2, <2>1 DEF ChipServes, ChipObeys, ChipAbsorbs, ChipState, ChipOpens, ChipCloses, ChipShuts,
         ChipPrompts, ChipCancels, ChipAcks, ChipReads, ChipSmsNumber, ChipSmsBody
    <2>2. CASE ChipReports \/ NetDelivers \/ NetAcks \/ PeerSends
      BY <2>2 DEF ChipReports, ChipConnected, ChipSendOk, ChipToggles, PeerSends
    <2>3. CASE ChipFails
      BY <2>3 DEF ChipFails, ChipRefuses, ChipMissesCommand, ChipConnectFails, ChipShutFails,
         LinkLost, ChipSendFails, ChipIgnoresPulse, ChipReboots
    <2>4. QED
      BY <1>2, <2>1, <2>2, <2>3 DEF Environment
  <1>3. QED
    BY <1>1, <1>2

LEMMA FirstFlying ==
    ASSUME flying \in Seq(Units), flying # << >>
    PROVE  Range(flying) \subseteq {Head(flying)} \cup Range(Tail(flying))
  <1>1. ASSUME NEW i \in 1..Len(flying)
        PROVE  flying[i] \in {Head(flying)} \cup Range(Tail(flying))
    <2>1. /\ Len(flying) \in Nat /\ Len(Tail(flying)) = Len(flying) - 1 /\ Head(flying) = flying[1]
          /\ \A j \in 1..Len(Tail(flying)) : Tail(flying)[j] = flying[j + 1]
          /\ Tail(flying) \in Seq(Units)
      BY HeadAndTail
    <2>2. CASE i = 1
      BY <2>1, <2>2
    <2>3. CASE i # 1
      <3>1. i - 1 \in 1..Len(Tail(flying)) /\ (i - 1) + 1 = i
        BY <2>1, <2>3
      <3>2. flying[i] = Tail(flying)[i - 1]
        BY <2>1, <3>1
      <3>3. QED
        BY <2>1, <3>1, <3>2, RangeEquality
    <2>4. QED
      BY <2>2, <2>3
  <1>2. QED
    BY <1>1, RangeEquality

LEMMA CarriedStays ==
    ASSUME flying \in Seq(Units), UNCHANGED bufferVars, CargoMove, Carried
    PROVE  Carried'
  <1>1. BatchUnits' = BatchUnits
    BY DEF bufferVars, BatchUnits, BatchData
  <1>2. CASE UNCHANGED <<counters, flying, delivered>> /\ (link' = link \/ link' # "UP")
    BY <1>1, <1>2 DEF Carried
  <1>3. CASE UNCHANGED delivered /\ link' = "DOWN" /\ counters' \in {counters, "none"}
    BY <1>1, <1>3 DEF Carried
  <1>4. CASE NetDelivers
    <2>1. /\ link = "UP" /\ flying # << >> /\ delivered' = delivered \cup {Head(flying)}
          /\ flying' = Tail(flying) /\ UNCHANGED <<link, counters>>
      BY <1>4 DEF NetDelivers
    <2>2. QED
      BY <1>1, <2>1, FirstFlying DEF Carried
  <1>5. CASE NetAcks
    <2>1. link = "UP" /\ flying = << >> /\ counters = "some" /\ UNCHANGED <<link, delivered>> /\ counters' = "all"
      BY <1>5 DEF NetAcks, netVars
    <2>2. Range(flying) = {}
      BY <2>1, ShortRanges
    <2>3. QED
      BY <1>1, <2>1, <2>2 DEF Carried
  <1>6. QED
    BY <1>2, <1>3, <1>4, <1>5 DEF CargoMove

LEMMA TakenIsCarried ==
    ASSUME flying \in Seq(Units), BatchData \in Seq(Units), UNCHANGED bufferVars,
           ChipTakesData, prompt, Head(chipIn).data = BatchData
    PROVE  Carried'
  <1>1. BatchUnits' = BatchUnits
    BY DEF bufferVars, BatchUnits, BatchData
  <1>2. flying' = flying \o BatchData /\ counters' = "some"
    BY DEF ChipTakesData
  <1>3. BatchUnits \subseteq Range(flying \o BatchData)
    <2>1. ASSUME NEW i \in 1..Len(BatchData) PROVE BatchData[i] \in Range(flying \o BatchData)
      <3> DEFINE all == flying \o BatchData
      <3>1. /\ all \in Seq(Units) /\ Len(all) = Len(flying) + Len(BatchData)
            /\ Len(flying) \in Nat /\ Len(BatchData) \in Nat
        BY ConcatProperties, LenProperties
      <3>2. Len(flying) + i \in 1..Len(all) /\ all[Len(flying) + i] = BatchData[i]
        BY <3>1, ConcatProperties
      <3>3. Range(all) = {all[k] : k \in 1..Len(all)}
        BY <3>1, RangeEquality
      <3>4. QED
        BY <3>2, <3>3
    <2>2. QED
      BY <2>1, RangeEquality DEF BatchUnits
  <1>4. QED
    BY <1>1, <1>2, <1>3 DEF Carried

-----------------------------------------------------------------------------
(* The invariant. *)

(* A batch and its "SEND OK" are on their way only in NETWORK_SEND and        *)
(* CANCEL_SEND, or behind the answer that ends the connection they belong to. *)
DataPaired ==
    /\ Lap /\ state \in {"NETWORK_SEND", "CANCEL_SEND"} => OneSend
    /\ Lap /\ state \notin {"NETWORK_SEND", "CANCEL_SEND", "CLOSE_AND_RECONNECT"} => Unsent
    /\ Lap /\ state = "CLOSE_AND_RECONNECT" => Ended(Closing)
    /\ Hearing /\ state = "GPRS_RESET" => Ended(ShutAnswer)

(* Counters are told only to the state that asked for them. *)
AckPaired == Lap /\ state # "NETWORK_ACK_CHECK" => Fresh(AckAsk, AckAll)

(* The batch under way is the one that is measured; "SEND OK" tells that the  *)
(* chip has it.                                                              *)
Sending ==
    Lap /\ state = "NETWORK_SEND" =>
        /\ \A i \in 1..Len(chipIn) : chipIn[i].text = "data" => chipIn[i].data = BatchData
        /\ sendDue \/ ~NoSendOk => Carried

(* The counters asked for are those of the batch that will be dropped. *)
Acking ==
    /\ Lap /\ state \in {"NETWORK_ACK_CHECK", "NETWORK_ACK_CHECK_PARSE"} => Carried
    /\ Lap /\ state = "NETWORK_ACK_CHECK" /\ Told \cap AckAll # {} => BatchUnits \subseteq delivered
    /\ Lap /\ state = "NETWORK_ACK_CHECK_PARSE" /\ allAcked => BatchUnits \subseteq delivered

DataInv == Attached /\ DataPaired /\ AckPaired /\ Sending /\ Acking /\ NoLoss

LEMMA NoOpeningInLap ==
    ASSUME PairInv, Lap, state \notin {"CONNECT_TO_SERVER", "CLOSE_AND_RECONNECT"}
    PROVE  link # "OPENING"
  BY DEF PairInv, Paired, OpenPaired

LEMMA DeliveredGrows == Environment => delivered \subseteq delivered'
  BY EnvironmentCarries DEF PathMove

LEMMA AckAsked ==
    ASSUME QueuesOK, ChipAcks PROVE "AT+QISACK" \in Asked
  BY AskedServed DEF ChipAcks, Serve

LEMMA EnvironmentKeepsDue ==
    ASSUME QueuesOK, rxOn, Environment, UNCHANGED modemVars, PairInv, Attached, DataPaired,
           NEW new, Talks(new)
    PROVE  DataPaired'
  <1>1. UNCHANGED <<state, seen, rxOn>>
    BY EnvironmentPins DEF modemVars, machineVars
  <1>2. (Lap' <=> Lap) /\ (Hearing' <=> Hearing)
    BY <1>1 DEF Lap, Hearing
  <1>3. Lap /\ state \in {"NETWORK_SEND", "CANCEL_SEND"} => OneSend'
    BY <1>1, OneSendStays DEF DataPaired
  <1>4. Lap /\ state \notin {"NETWORK_SEND", "CANCEL_SEND", "CLOSE_AND_RECONNECT"} => Unsent'
    BY <1>1, UnsentStays DEF DataPaired
  <1>5. Closing \cap SendOks = {} /\ ShutAnswer \cap SendOks = {}
    BY DEF Closing, ShutAnswer, SendOks
  <1>6. link = "DOWN" => ~sendDue
    BY DEF Attached
  <1>7. Lap /\ state = "CLOSE_AND_RECONNECT" => Ended(Closing)'
    <2> SUFFICES ASSUME Lap, state = "CLOSE_AND_RECONNECT" PROVE Ended(Closing)'
      OBVIOUS
    <2>1. Sync(Closing, Closing, Async \cup {"OK"}, Closing)
      BY DEF PairInv, Paired, ClosePaired, Kind
    <2>2. sendDue => Told \cap Closing = {}
      BY <1>6, <2>1 DEF Sync
    <2>3. QED
      BY <1>1, <1>5, <2>2, EndedStays DEF DataPaired
  <1>8. Hearing /\ state = "GPRS_RESET" => Ended(ShutAnswer)'
    <2> SUFFICES ASSUME Hearing, state = "GPRS_RESET" PROVE Ended(ShutAnswer)'
      OBVIOUS
    <2>1. Sync(ShutAsk, ShutAnswer, Async, ShutAnswer)
      BY DEF PairInv, Paired, ShutPaired, Kind
    <2>2. sendDue => Told \cap ShutAnswer = {}
      BY <1>6, <2>1 DEF Sync
    <2>3. QED
      BY <1>1, <1>5, <2>2, EndedStays DEF DataPaired
  <1>9. QED
    BY <1>1, <1>2, <1>3, <1>4, <1>7, <1>8 DEF DataPaired

LEMMA EnvironmentKeepsAck ==
    ASSUME QueuesOK, rxOn, Environment, UNCHANGED modemVars, AckPaired, NEW new, Talks(new)
    PROVE  AckPaired'
  <1>1. UNCHANGED <<state, seen, rxOn>>
    BY EnvironmentPins DEF modemVars, machineVars
  <1>2. Lap' <=> Lap
    BY <1>1 DEF Lap, Hearing
  <1> SUFFICES ASSUME Lap, state # "NETWORK_ACK_CHECK" PROVE Fresh(AckAsk, AckAll)'
    BY <1>1, <1>2 DEF AckPaired
  <1>3. Asked \cap AckAsk = {} /\ Told \cap AckAll = {}
    BY DEF AckPaired, Fresh
  <1>4. Asked' \subseteq Asked /\ Told' \subseteq Told \cup Range(new)
    BY <1>1, EnvironmentTakes, CommandsLeft, TalkIsTold
  <1>5. ~ChipAcks
    BY <1>3, AckAsked DEF AckAsk
  <1>6. QED
    BY <1>3, <1>4, <1>5 DEF Fresh, Talks

LEMMA EnvironmentKeepsSending ==
    ASSUME QueuesOK, flying \in Seq(Units), Environment, UNCHANGED modemVars, PairInv, DataPaired,
           Sending, BufferTypeOK, BatchWithinBuffer, NEW new, Talks(new)
    PROVE  Sending'
  <1>1. UNCHANGED <<state, seen, rxOn, bufferVars>>
    BY EnvironmentPins DEF modemVars, machineVars
  <1>2. Lap' <=> Lap
    BY <1>1 DEF Lap, Hearing
  <1> SUFFICES ASSUME Lap, state = "NETWORK_SEND"
               PROVE  /\ \A i \in 1..Len(chipIn') : chipIn'[i].text = "data" => chipIn'[i].data = BatchData'
                      /\ sendDue' \/ ~NoSendOk' => Carried'
    BY <1>1, <1>2 DEF Sending
  <1>3. /\ \A i \in 1..Len(chipIn) : chipIn[i].text = "data" => chipIn[i].data = BatchData
        /\ sendDue \/ ~NoSendOk => Carried
    BY DEF Sending
  <1>4. BatchData' = BatchData
    BY <1>1 DEF bufferVars, BatchData
  <1>5. \A i \in 1..Len(chipIn') : chipIn'[i].text = "data" => chipIn'[i].data = BatchData'
    BY <1>3, <1>4, EnvironmentTakes, CommandsLeft
  <1>6. CASE ChipTakesData /\ prompt
    <2>1. Head(chipIn).text = "data" /\ chipIn # << >> /\ chipIn' = Tail(chipIn)
      BY <1>6, TakenWasAsked
    <2>2. 1 \in 1..Len(chipIn) /\ Head(chipIn) = chipIn[1]
      BY <2>1, AskedServed
    <2>3. Head(chipIn).data = BatchData
      BY <1>3, <2>1, <2>2
    <2>4. BatchData \in Seq(Units)
      <3>1. bytesToSendInSendStage <= Len(dataToSendBuffer) /\ bytesToSendInSendStage \in Nat
        BY BufferAssumption DEF BatchWithinBuffer, BatchStates, BufferTypeOK
      <3>2. QED
        BY <3>1, BatchType DEF BatchData, BufferTypeOK
    <2>5. Carried'
      BY <1>1, <1>6, <2>3, <2>4, TakenIsCarried
    <2>6. QED
      BY <1>5, <2>5
  <1>7. CASE ~(ChipTakesData /\ prompt)
    <2>1. sendDue' => sendDue
      BY <1>7, EnvironmentOwes
    <2>2. ~NoSendOk' => ~NoSendOk \/ sendDue
      BY <1>1, TalkIsTold, SendOkDue DEF Talks
    <2>3. link # "OPENING"
      BY NoOpeningInLap
    <2>4. CargoMove
      BY <1>7, <2>3, EnvironmentCargo
    <2>5. Carried => Carried'
      BY <1>1, <2>4, CarriedStays
    <2>6. QED
      BY <1>3, <1>5, <2>1, <2>2, <2>5
  <1>8. QED
    BY <1>6, <1>7

LEMMA EnvironmentKeepsAcking ==
    ASSUME QueuesOK, flying \in Seq(Units), Environment, UNCHANGED modemVars, PairInv, DataPaired,
           Acking, NEW new, Talks(new)
    PROVE  Acking'
  <1>1. UNCHANGED <<state, seen, rxOn, bufferVars, allAcked>>
    BY EnvironmentPins DEF modemVars, machineVars, counterVars
  <1>2. (Lap' <=> Lap) /\ BatchUnits' = BatchUnits
    BY <1>1 DEF Lap, Hearing, bufferVars, BatchUnits, BatchData
  <1>3. delivered \subseteq delivered'
    BY DeliveredGrows
  <1>4. Lap /\ state \in {"NETWORK_ACK_CHECK", "NETWORK_ACK_CHECK_PARSE"} => Carried'
    <2> SUFFICES ASSUME Lap, state \in {"NETWORK_ACK_CHECK", "NETWORK_ACK_CHECK_PARSE"} PROVE Carried'
      OBVIOUS
    <2>1. Unsent /\ link # "OPENING" /\ Carried
      BY NoOpeningInLap DEF DataPaired, Acking
    <2>2. ~ChipTakesData
      BY <2>1, TakenWasAsked DEF Unsent
    <2>3. CargoMove
      BY <2>1, <2>2, EnvironmentCargo
    <2>4. QED
      BY <1>1, <2>1, <2>3, CarriedStays
  <1>5. Lap /\ state = "NETWORK_ACK_CHECK" /\ Told' \cap AckAll # {} => BatchUnits \subseteq delivered
    <2> SUFFICES ASSUME Lap, state = "NETWORK_ACK_CHECK", Told' \cap AckAll # {}
                 PROVE  BatchUnits \subseteq delivered
      OBVIOUS
    <2>1. Told \cap AckAll # {} \/ Range(new) \cap AckAll # {}
      BY <1>1, TalkIsTold
    <2>2. Range(new) \cap AckAll # {} => counters = "all"
      BY DEF Talks
    <2>3. QED
      BY <2>1, <2>2 DEF Acking, Carried
  <1>6. QED
    BY <1>1, <1>2, <1>3, <1>4, <1>5 DEF Acking

LEMMA EnvironmentKeepsData ==
    ASSUME QueuesOK, flying \in Seq(Units), rxOn \in BOOLEAN, BufferTypeOK, BatchWithinBuffer,
           ~ZeroCounters, Environment, UNCHANGED modemVars, PairInv, DataInv
    PROVE  DataInv'
  <1>1. Attached'
    BY AttachedStays DEF DataInv
  <1>2. NoLoss'
    <2>1. UNCHANGED declared
      BY DEF modemVars, bufferVars
    <2>2. QED
      BY <2>1, DeliveredGrows DEF DataInv, NoLoss
  <1>3. UNCHANGED <<rxOn, seen>>
    BY EnvironmentPins DEF modemVars, machineVars
  <1>4. CASE ~rxOn
    <2>1. ~Lap' /\ ~Hearing'
      BY <1>3, <1>4 DEF Lap, Hearing
    <2>2. QED
      BY <1>1, <1>2, <2>1 DEF DataInv, DataPaired, AckPaired, Sending, Acking
  <1>5. CASE rxOn
    <2>1. PICK new : Talks(new)
      BY <1>3, <1>5, EnvironmentTalks
    <2>2. QED
      BY <1>1, <1>2, <1>5, <2>1, EnvironmentKeepsDue, EnvironmentKeepsAck, EnvironmentKeepsSending,
         EnvironmentKeepsAcking DEF DataInv
  <1>6. QED
    BY <1>4, <1>5

-----------------------------------------------------------------------------
(* The machine's turns. *)

LEMMA DataTexts ==
    ASSUME NEW s
    PROVE  /\ "data" \in Entry(s) => s = "NETWORK_SEND"
           /\ "AT+QISACK" \in Entry(s) => s = "NETWORK_ACK_CHECK"
  <1>1. CASE s \in BootStates
    <2>1. Entry(s) = {BootCommand(s)}
      BY <1>1 DEF Entry
    <2>2. "data" \notin SimpleCommands /\ "AT+QISACK" \notin SimpleCommands
      BY SimpleNames
    <2>3. QED
      BY <1>1, <2>1, <2>2, BootTexts
  <1>2. CASE s \notin BootStates
    <2>1. LinkCommand(s) # "data" /\ (LinkCommand(s) = "AT+QISACK" => s = "NETWORK_ACK_CHECK")
      BY DEF LinkCommand, NoCommand
    <2>2. QED
      BY <1>2, <2>1 DEF Entry
  <1>3. QED
    BY <1>1, <1>2

LEMMA TurnReads ==
    ASSUME QueuesOK, Turn
    PROVE  /\ Asked' \subseteq Asked \cup Entry(state')
           /\ Told' \subseteq Told /\ Range(lines') \subseteq Range(lines) /\ lines' \in Seq(Lines)
           /\ NoSendOk => NoSendOk'
           /\ \A A, B : Behind(lines, A, B) => Behind(lines', A, B)
  <1>1. Reads /\ Asked' \subseteq Asked \cup Entry(state')
    BY SentTexts DEF Turn
  <1>2. Range(lines') \subseteq Range(lines) /\ \A A, B : Behind(lines, A, B) => Behind(lines', A, B)
    BY <1>1, LineIsRead DEF Reads
  <1>3. QED
    BY <1>1, <1>2, ReadIsTold, ReadLines DEF NoSendOk

LEMMA EndedTurns ==
    ASSUME QueuesOK, Turn, NEW A, Ended(A) PROVE Ended(A)'
  <1>1. Behind(lines, A, Lines \ SendOks)'
    BY TurnReads DEF Ended
  <1>2. ASSUME seen' \cap A # {} PROVE NoSendOk'
    <2>1. Reads
      BY DEF Turn
    <2>2. CASE seen \cap A # {}
      BY <2>2, TurnReads DEF Ended
    <2>3. CASE lines' = Rest /\ line \in A /\ line \notin Unlatched
      <3>1. Range(lines') \subseteq Lines \ SendOks
        BY <2>3, LineIsRead DEF Ended, Unlatched
      <3>2. QED
        BY <3>1 DEF NoSendOk
    <2>4. QED
      BY <1>2, <2>1, <2>2, <2>3 DEF Reads
  <1>3. QED
    BY <1>1, <1>2 DEF Ended

(* No answer is told of which this is the end. *)
LEMMA EndedAfresh ==
    ASSUME QueuesOK, Turn, NEW A, Told \cap A = {} PROVE Ended(A)'
  <1>1. Told' \cap A = {} /\ lines' \in Seq(Lines)
    BY TurnReads
  <1>2. Range(lines') \cap A = {} /\ seen' \cap A = {}
    BY <1>1 DEF Told
  <1>3. QED
    BY <1>1, <1>2, BehindNone DEF Ended

(* When the end is heard, no "SEND OK" is left. *)
LEMMA EndHeard ==
    ASSUME QueuesOK, NEW A, NoLine \notin A, Ended(A), Leaves(A) PROVE NoSendOk'
  <1>1. PICK answer \in A : Heard(answer) /\ answer # NoLine
    BY DEF Leaves, Hear
  <1>2. CASE answer \in seen
    <2>1. NoSendOk
      BY <1>1, <1>2 DEF Ended
    <2>2. QED
      BY <2>1, LineIsRead DEF NoSendOk, Leaves
  <1>3. CASE answer = line
    <2>1. Range(Rest) \subseteq Lines \ SendOks
      BY <1>1, <1>3, LineIsRead DEF Ended
    <2>2. QED
      BY <2>1 DEF NoSendOk, Leaves
  <1>4. QED
    BY <1>1, <1>2, <1>3 DEF Heard

LEMMA SendsOnceTurns ==
    ASSUME QueuesOK, Turn, SendsOnce, "data" \notin Asked \/ state' # "NETWORK_SEND"
    PROVE  SendsOnce'
  <1>1. CASE UNCHANGED chipIn
    BY <1>1 DEF SendsOnce
  <1>2. ASSUME NEW text \in Entry(state'), NEW data, Transmit(<<Command(text, data)>>)
        PROVE  SendsOnce'
    <2>1. CASE UNCHANGED chipIn
      BY <2>1 DEF SendsOnce
    <2>2. CASE /\ Len(chipIn) \in Nat /\ Len(chipIn') = Len(chipIn) + 1
               /\ \A i \in 1..Len(chipIn') :
                     IF i = Len(chipIn') THEN chipIn'[i].text = text
                     ELSE i \in 1..Len(chipIn) /\ chipIn'[i] = chipIn[i]
      <3> SUFFICES ASSUME NEW i \in 1..Len(chipIn'), NEW j \in 1..Len(chipIn'),
                          chipIn'[i].text = "data", chipIn'[j].text = "data"
                   PROVE  i = j
        BY DEF SendsOnce
      <3>1. CASE text = "data"
        <4>1. \A k \in 1..Len(chipIn) : chipIn[k].text # "data"
          BY <1>2, <3>1, DataTexts DEF Asked
        <4>2. QED
          BY <2>2, <4>1
      <3>2. CASE text # "data"
        <4>1. i \in 1..Len(chipIn) /\ chipIn'[i] = chipIn[i] /\ j \in 1..Len(chipIn) /\ chipIn'[j] = chipIn[j]
          BY <2>2, <3>2
        <4>2. QED
          BY <4>1 DEF SendsOnce
      <3>3. QED
        BY <3>1, <3>2
    <2>3. QED
      BY <1>2, <2>1, <2>2, AskedSent
  <1>3. QED
    BY <1>1, <1>2 DEF Turn, Enters

LEMMA UnsentTurns ==
    ASSUME QueuesOK, Turn, UNCHANGED sendDue, Unsent
    PROVE  OneSend' /\ (state' # "NETWORK_SEND" => Unsent')
  <1>1. NoSendOk' /\ ~sendDue' /\ (state' # "NETWORK_SEND" => "data" \notin Asked')
    BY TurnReads, DataTexts DEF Unsent
  <1>2. SendsOnce
    BY DEF Unsent, SendsOnce, Asked
  <1>3. SendsOnce'
    BY <1>2, SendsOnceTurns DEF Unsent
  <1>4. Behind(lines, SendOks, Lines \ SendOks)'
    BY <1>1, TurnReads, BehindNone DEF NoSendOk
  <1>5. QED
    BY <1>1, <1>3, <1>4 DEF Unsent, OneSend

LEMMA OneSendTurns ==
    ASSUME QueuesOK, Turn, UNCHANGED sendDue, OneSend, state' # "NETWORK_SEND" \/ UNCHANGED chipIn
    PROVE  OneSend'
  <1>1. "data" \in Asked' => "data" \in Asked
    BY TurnReads, DataTexts DEF Asked
  <1>2. SendsOnce'
    BY SendsOnceTurns DEF OneSend, SendsOnce
  <1>3. QED
    BY <1>1, <1>2, TurnReads DEF OneSend

(* The "SEND OK" is read: the batch is no longer on its way. *)
LEMMA SendOkRead ==
    ASSUME QueuesOK, Turn, UNCHANGED sendDue, OneSend, SentOk PROVE Unsent'
  <1>1. line \in SendOks /\ line # NoLine /\ lines' = Rest /\ state' # "NETWORK_SEND"
    BY DEF SentOk, SendOks, NoLine
  <1>2. line \in Range(lines) /\ ~NoSendOk
    BY <1>1, LineIsRead DEF NoSendOk
  <1>3. Range(Rest) \subseteq Lines \ SendOks
    BY <1>1, LineIsRead DEF OneSend
  <1>4. "data" \notin Asked /\ ~sendDue
    BY <1>2 DEF OneSend
  <1>5. QED
    BY <1>1, <1>3, <1>4, TurnReads, DataTexts DEF Unsent, NoSendOk

(* What the machine leaves to the chip and the network. *)
Still == UNCHANGED <<prompt, sendDue, flying, counters, delivered>>

(* The driver begins to hear the chip when no batch is on its way. *)
LEMMA StartsUnsent ==
    ASSUME QueuesOK, Turn, Still, Drained, PairInv, Attached, DataPaired, Lap', ~Lap
    PROVE  Unsent' /\ state' \in {"INIT", "GPS_USART_ECHO_ON"}
  <1>1. chipIn = << >> /\ link = "DOWN" /\ state' \in {"INIT", "GPS_USART_ECHO_ON"}
    BY StartsClean
  <1>2. "data" \notin Asked' /\ ~sendDue'
    <2>1. state' # "NETWORK_SEND"
      BY <1>1
    <2>2. QED
      BY <1>1, <2>1, AskedNone, TurnReads, DataTexts DEF Attached, Still
  <1>3. CASE Moves({"RESET_STAGE_POWER_ON"}, {"INIT"})
    <2>1. lines' = << >>
      BY <1>3 DEF Moves, Drained, Rest
    <2>2. QED
      BY <1>1, <1>2, <2>1, ShortRanges DEF Unsent, NoSendOk
  <1>4. CASE Moves({"GPRS_RESET"}, {"GPS_USART_ECHO_ON"}) /\ Hear(ShutAnswer) /\ Hearing
    <2>1. Leaves(ShutAnswer) /\ NoLine \notin ShutAnswer /\ Ended(ShutAnswer)
      BY <1>4, KindParts DEF Leaves, Moves, Counting, DataPaired
    <2>2. QED
      BY <1>1, <1>2, <2>1, EndHeard DEF Unsent
  <1>5. QED
    BY <1>3, <1>4, LapArrives DEF PairInv

(* What is left of a batch when the connection is given up. *)
LEMMA ClosesUnsent ==
    ASSUME QueuesOK, Turn, Still, PairInv, Attached, DataPaired,
           Lap, state = "CLOSE_AND_RECONNECT", Leaves(Closing), state' = "CLOSE_DELAY"
    PROVE  Unsent'
  <1>1. Sync(Closing, Closing, Async \cup {"OK"}, Closing) /\ Ended(Closing) /\ NoLine \notin Closing
    BY KindParts DEF PairInv, Paired, ClosePaired, Kind, DataPaired, Counting
  <1>2. chipIn = << >>
    BY <1>1, HeardLeaves
  <1>3. link = "DOWN"
    <2>1. PICK answer \in Closing : Heard(answer)
      BY DEF Leaves, Hear
    <2>2. QED
      BY <1>1, <2>1, SyncHeard
  <1>4. "data" \notin Asked' /\ ~sendDue'
    BY <1>2, <1>3, AskedNone, TurnReads, DataTexts DEF Attached, Still
  <1>5. QED
    BY <1>1, <1>4, EndHeard DEF Unsent

LEMMA MovesKeepDue ==
    ASSUME QueuesOK, Turn, Still, DataMove, DataPaired, Lap, Lap',
           state # "CLOSE_AND_RECONNECT", state' # "CLOSE_AND_RECONNECT"
    PROVE  IF state' \in {"NETWORK_SEND", "CANCEL_SEND"} THEN OneSend' ELSE Unsent'
  <1> USE DEF Still
  <1>1. /\ state \in {"NETWORK_SEND", "CANCEL_SEND"} => OneSend
        /\ state \notin {"NETWORK_SEND", "CANCEL_SEND"} => Unsent
    BY DEF DataPaired
  <1>2. CASE Elsewhere
    <2>1. /\ state \notin {"NETWORK_SEND", "CANCEL_SEND"}
          /\ state' \notin {"NETWORK_SEND", "CANCEL_SEND"}
      BY <1>2 DEF Elsewhere, SendingStates, BatchStates
    <2>2. QED
      BY <1>1, <2>1, UnsentTurns
  <1>3. CASE Remains
    BY <1>1, <1>3, UnsentTurns, OneSendTurns DEF Remains
  <1>4. CASE Transmits
    BY <1>1, <1>4, UnsentTurns DEF Transmits
  <1>5. CASE SentOk
    BY <1>1, <1>5, SendOkRead DEF SentOk
  <1>6. CASE Cancels
    BY <1>1, <1>6, UnsentTurns, OneSendTurns DEF Cancels
  <1>7. CASE AckRead \/ AsksAgain \/ Declares
    BY <1>1, <1>7, UnsentTurns DEF AckRead, AsksAgain, Declares
  <1>8. ~Breaks /\ ~Stops
    BY DEF Breaks, Stops, Stopped, Lap, Hearing
  <1>9. QED
    BY <1>2, <1>3, <1>4, <1>5, <1>6, <1>7, <1>8 DEF DataMove

LEMMA TurnsKeepDue ==
    ASSUME QueuesOK, Turn, Still, Drained, DataMove, PairInv, Attached, DataPaired
    PROVE  DataPaired'
  <1>1. Lap' /\ state' \in {"NETWORK_SEND", "CANCEL_SEND"} => OneSend'
    <2> SUFFICES ASSUME Lap', state' \in {"NETWORK_SEND", "CANCEL_SEND"} PROVE OneSend'
      OBVIOUS
    <2>1. Lap
      BY StartsUnsent
    <2>2. state # "CLOSE_AND_RECONNECT"
      BY <2>1, LapStays, LeavesClose DEF PairInv, Waits
    <2>3. QED
      BY <2>1, <2>2, MovesKeepDue
  <1>2. Lap' /\ state' \notin {"NETWORK_SEND", "CANCEL_SEND", "CLOSE_AND_RECONNECT"} => Unsent'
    <2> SUFFICES ASSUME Lap', state' \notin {"NETWORK_SEND", "CANCEL_SEND", "CLOSE_AND_RECONNECT"}
                 PROVE  Unsent'
      OBVIOUS
    <2>1. CASE ~Lap
      BY <2>1, StartsUnsent
    <2>2. CASE Lap /\ state = "CLOSE_AND_RECONNECT"
      <3>1. Leaves(Closing) /\ state' = "CLOSE_DELAY"
        BY <2>2, LapStays, LeavesClose DEF PairInv, Waits
      <3>2. QED
        BY <2>2, <3>1, ClosesUnsent
    <2>3. CASE Lap /\ state # "CLOSE_AND_RECONNECT"
      BY <2>3, MovesKeepDue
    <2>4. QED
      BY <2>1, <2>2, <2>3
  <1>3. Lap' /\ state' = "CLOSE_AND_RECONNECT" => Ended(Closing)'
    <2> SUFFICES ASSUME Lap', state' = "CLOSE_AND_RECONNECT" PROVE Ended(Closing)'
      OBVIOUS
    <2>1. Lap
      BY StartsUnsent
    <2>2. CASE state = "CLOSE_AND_RECONNECT"
      BY <2>1, <2>2, EndedTurns DEF DataPaired
    <2>3. CASE state # "CLOSE_AND_RECONNECT"
      <3>1. Told \cap Closing = {}
        BY <2>1, <2>3 DEF PairInv, Paired, ClosePaired, Kind, Fresh
      <3>2. QED
        BY <3>1, EndedAfresh
    <2>4. QED
      BY <2>2, <2>3
  <1>4. Hearing' /\ state' = "GPRS_RESET" => Ended(ShutAnswer)'
    <2> SUFFICES ASSUME Hearing', state' = "GPRS_RESET" PROVE Ended(ShutAnswer)'
      OBVIOUS
    <2>1. Hearing
      BY HearingArrives DEF PairInv, Lap
    <2>2. CASE state = "GPRS_RESET"
      BY <2>1, <2>2, EndedTurns DEF DataPaired
    <2>3. CASE state # "GPRS_RESET"
      <3>1. Told \cap ShutAnswer = {}
        BY <2>1, <2>3 DEF PairInv, Paired, ShutPaired, Kind, Fresh
      <3>2. QED
        BY <3>1, EndedAfresh
    <2>4. QED
      BY <2>2, <2>3
  <1>5. QED
    BY <1>1, <1>2, <1>3, <1>4 DEF DataPaired

(* The units dropped as sent are those of the batch. *)
LEMMA DeclaredWasSent ==
    ASSUME NEW S, NEW buffer \in Seq(S), NEW n \in Nat, n <= Len(buffer)
    PROVE  {buffer[i] : i \in 1..(Len(buffer) - Len(Declare(buffer, n)))} \subseteq Range(Batch(buffer, n))
  <1> DEFINE batch == Batch(buffer, n)
             size == Len(buffer)
  <1>1. size \in Nat /\ n <= size
    BY LenProperties
  <1>2. /\ batch \in Seq(S) /\ Len(batch) = n
        /\ \A i \in 1..n : batch[i] = buffer[i]
    BY <1>1, SubSeqProperties, Z3 DEF Batch
  <1>3. size - Len(Declare(buffer, n)) = n
    <2>1. CASE size - n <= 0
      <3>1. Declare(buffer, n) = << >>
        BY <2>1 DEF Declare
      <3>2. QED
        BY <1>1, <2>1, <3>1, EmptySeq
    <2>2. CASE ~(size - n <= 0)
      <3>1. Declare(buffer, n) = SubSeq(buffer, n + 1, size)
        BY <2>2 DEF Declare
      <3>2. Len(SubSeq(buffer, n + 1, size)) = size - n
        BY <1>1, <2>2, SubSeqProperties, Z3
      <3>3. QED
        BY <1>1, <3>1, <3>2
    <2>3. QED
      BY <2>1, <2>2
  <1>4. Range(batch) = {batch[i] : i \in 1..Len(batch)}
    BY <1>2, RangeEquality
  <1> HIDE DEF batch, size
  <1>5. {buffer[i] : i \in 1..n} \subseteq Range(batch)
    BY <1>2, <1>4
  <1>6. QED
    BY <1>3, <1>5 DEF batch, size

LEMMA SentData ==
    ASSUME QueuesOK, NEW data, Transmit(<<Command("data", data)>>), "data" \notin Asked
    PROVE  \A i \in 1..Len(chipIn') : chipIn'[i].text = "data" => chipIn'[i].data = data
  <1>1. \A i \in 1..Len(chipIn) : chipIn[i].text # "data"
    BY DEF Asked
  <1>2. CASE UNCHANGED chipIn
    BY <1>1, <1>2
  <1>3. CASE chipIn' = chipIn \o <<Command("data", data)>>
    <2> DEFINE all == Commands \cup {Command("data", data)}
    <2>1. chipIn \in Seq(all) /\ <<Command("data", data)>> \in Seq(all)
      BY SeqMonotonic, OneElement DEF QueuesOK
    <2>2. /\ Len(chipIn) \in Nat /\ Len(chipIn') = Len(chipIn) + 1
          /\ \A i \in 1..Len(chipIn') :
                chipIn'[i] = IF i <= Len(chipIn) THEN chipIn[i]
                             ELSE <<Command("data", data)>>[i - Len(chipIn)]
      BY <1>3, <2>1, ConcatProperties, LenProperties
    <2>3. Command("data", data).data = data
      BY DEF Command
    <2>4. QED
      BY <1>1, <2>2, <2>3
  <1>4. QED
    BY <1>2, <1>3 DEF Transmit, Received

LEMMA TurnsKeepAck ==
    ASSUME QueuesOK, Turn, Drained, DataMove, PairInv, AckPaired PROVE AckPaired'
  <1> SUFFICES ASSUME Lap', state' # "NETWORK_ACK_CHECK" PROVE Fresh(AckAsk, AckAll)'
    BY DEF AckPaired
  <1>1. Async \cap AckAll = {}
    BY DEF Async, AckAll
  <1>2. Ready(AckAsk, AckAll)
    <2>1. CASE ~Lap
      BY <1>1, <2>1, StartsClean, QuietIsReady
    <2>2. CASE Lap /\ state # "NETWORK_ACK_CHECK"
      BY <2>2, FreshIsReady DEF AckPaired, Turn
    <2>3. CASE Lap /\ state = "NETWORK_ACK_CHECK"
      <3>1. AckRead
        BY <2>3 DEF DataMove, Elsewhere, SendingStates, BatchStates, Remains, Transmits, SentOk, Cancels,
           AsksAgain, Declares, Breaks, Stops, Stopped, Lap, Hearing
      <3>2. Leaves(OkAnswer)
        BY <3>1 DEF AckRead, Leaves, Hear, OkAnswer
      <3>3. Sync(OkAsk, OkAnswer, Async, {}) /\ NoLine \notin OkAnswer
        BY <2>3, StateGroups, KindParts DEF PairInv, Paired, OkPaired, Counting
      <3>4. chipIn = << >> /\ Told' \subseteq Async
        BY <3>2, <3>3, HeardLeaves
      <3>5. QED
        BY <1>1, <3>4, QuietIsReady
    <2>4. QED
      BY <2>1, <2>2, <2>3
  <1>3. Entry(state') \cap AckAsk = {}
    BY DataTexts DEF AckAsk
  <1>4. QED
    BY <1>2, <1>3, TurnReads, ReadyIsFresh

LEMMA CarriedHolds ==
    ASSUME Still, UNCHANGED <<link, bufferVars>>, Carried PROVE Carried' /\ BatchUnits' = BatchUnits
  BY DEF Still, bufferVars, Carried, BatchUnits, BatchData

(* A step of the driver that stays among these states is one of a driver that *)
(* hears the chip.                                                           *)
LEMMA BatchHeard ==
    ASSUME PairInv, state \in {"NETWORK_PREPARE_SEND", "NETWORK_SEND", "NETWORK_ACK_CHECK",
                               "NETWORK_ACK_CHECK_PARSE"}
    PROVE  Lap
  <1>1. state \in DataStates
    BY DataStateNames
  <1>2. state \notin DeafStates
    BY <1>1, DeafNames
  <1>3. QED
    BY <1>2, HearsUnlessDeaf DEF PairInv

LEMMA TurnsKeepSending ==
    ASSUME QueuesOK, Turn, Still, DataMove, PairInv, DataPaired, Sending
    PROVE  Sending'
  <1> SUFFICES ASSUME Lap', state' = "NETWORK_SEND"
               PROVE  /\ \A i \in 1..Len(chipIn') : chipIn'[i].text = "data" => chipIn'[i].data = BatchData'
                      /\ sendDue' \/ ~NoSendOk' => Carried'
    BY DEF Sending
  <1>1. CASE Remains
    <2>1. Lap /\ state = "NETWORK_SEND" /\ UNCHANGED <<chipIn, bufferVars, link, sendDue>>
      BY <1>1, BatchHeard DEF Remains, Turn, Still
    <2>2. /\ \A i \in 1..Len(chipIn) : chipIn[i].text = "data" => chipIn[i].data = BatchData
          /\ sendDue \/ ~NoSendOk => Carried
      BY <2>1 DEF Sending
    <2>3. BatchData' = BatchData
      BY <2>1 DEF BatchData, bufferVars
    <2>4. QED
      BY <2>1, <2>2, <2>3, CarriedHolds, TurnReads
  <1>2. CASE Transmits
    <2>1. Lap /\ state = "NETWORK_PREPARE_SEND" /\ UNCHANGED bufferVars
          /\ Transmit(<<Command("data", BatchData)>>)
      BY <1>2, BatchHeard DEF Transmits
    <2>2. Unsent
      BY <2>1 DEF DataPaired
    <2>3. BatchData' = BatchData
      BY <2>1 DEF BatchData, bufferVars
    <2>4. QED
      BY <2>1, <2>2, <2>3, SentData, TurnReads DEF Unsent, Still
  <1>3. QED
    BY <1>1, <1>2 DEF DataMove, Elsewhere, SendingStates, BatchStates, SentOk, Cancels, AckRead, AsksAgain,
       Declares, Breaks, Stops, Stopped, ShutDownStates

LEMMA TurnsKeepAcking ==
    ASSUME QueuesOK, Turn, Still, DataMove, PairInv, AckPaired, Sending, Acking
    PROVE  Acking'
  <1> SUFFICES ASSUME Lap', state' \in {"NETWORK_ACK_CHECK", "NETWORK_ACK_CHECK_PARSE"}
               PROVE  /\ Carried'
                      /\ state' = "NETWORK_ACK_CHECK" /\ Told' \cap AckAll # {} => BatchUnits' \subseteq delivered'
                      /\ state' = "NETWORK_ACK_CHECK_PARSE" /\ allAcked' => BatchUnits' \subseteq delivered'
    BY DEF Acking
  <1>1. UNCHANGED <<link, delivered>> /\ Told' \subseteq Told
    BY TurnReads DEF Turn, Still
  <1>2. CASE Remains
    <2>1. Lap /\ UNCHANGED <<state, bufferVars, allAcked>>
      BY <1>2, BatchHeard DEF Remains
    <2>2. Carried
      BY <2>1 DEF Acking
    <2>3. Carried' /\ BatchUnits' = BatchUnits
      BY <1>1, <2>1, <2>2, CarriedHolds
    <2>4. QED
      BY <1>1, <2>1, <2>3 DEF Acking
  <1>3. CASE SentOk
    <2>1. Lap /\ state = "NETWORK_SEND" /\ state' = "NETWORK_ACK_CHECK" /\ UNCHANGED bufferVars /\ line = "SEND OK"
      BY <1>3, BatchHeard DEF SentOk
    <2>2. ~NoSendOk
      <3>1. line \in SendOks /\ line # NoLine
        BY <2>1 DEF SendOks, NoLine
      <3>2. QED
        BY <3>1, LineIsRead DEF NoSendOk
    <2>3. Carried
      BY <2>1, <2>2 DEF Sending
    <2>4. Told' \cap AckAll = {}
      BY <1>1, <2>1 DEF AckPaired, Fresh
    <2>5. QED
      BY <1>1, <2>1, <2>3, <2>4, CarriedHolds
  <1>4. CASE AckRead
    <2>1. Lap /\ state = "NETWORK_ACK_CHECK" /\ state' = "NETWORK_ACK_CHECK_PARSE" /\ UNCHANGED bufferVars
          /\ allAcked' = QueryAck
      BY <1>4, BatchHeard DEF AckRead
    <2>2. Carried
      BY <2>1 DEF Acking
    <2>3. Carried' /\ BatchUnits' = BatchUnits
      BY <1>1, <2>1, <2>2, CarriedHolds
    <2>4. QueryAck => "+QISACK: all" \in Told
      BY ReadIsTold DEF QueryAck, NoLine, Turn
    <2>5. allAcked' => Told \cap AckAll # {}
      BY <2>1, <2>4 DEF AckAll
    <2>6. QED
      BY <1>1, <2>1, <2>3, <2>5 DEF Acking
  <1>5. CASE AsksAgain
    <2>1. Lap /\ state = "NETWORK_ACK_CHECK_PARSE" /\ state' = "NETWORK_ACK_CHECK" /\ UNCHANGED bufferVars
      BY <1>5, BatchHeard DEF AsksAgain
    <2>2. Carried
      BY <2>1 DEF Acking
    <2>3. Told' \cap AckAll = {}
      BY <1>1, <2>1 DEF AckPaired, Fresh
    <2>4. QED
      BY <1>1, <2>1, <2>2, <2>3, CarriedHolds
  <1>6. QED
    BY <1>2, <1>3, <1>4, <1>5 DEF DataMove, Elsewhere, SendingStates, BatchStates, Transmits, Cancels,
       Declares, Breaks, Stops, Stopped, ShutDownStates

(* Only what the chip has acknowledged is dropped as sent. *)
LEMMA TurnsKeepLoss ==
    ASSUME Still, DataMove, PairInv, Acking, BufferTypeOK, BatchWithinBuffer, NoLoss
    PROVE  NoLoss'
  <1>1. delivered' = delivered
    BY DEF Still
  <1>2. CASE UNCHANGED declared
    BY <1>1, <1>2 DEF NoLoss
  <1>3. CASE Declares
    <2>1. Lap /\ state = "NETWORK_ACK_CHECK_PARSE" /\ allAcked
      BY <1>3, BatchHeard DEF Declares
    <2>2. BatchUnits \subseteq delivered
      BY <2>1 DEF Acking
    <2>3. bytesToSendInSendStage \in Nat /\ bytesToSendInSendStage <= Len(dataToSendBuffer)
      BY <2>1, BufferAssumption DEF BufferTypeOK, BatchWithinBuffer, BatchStates
    <2>4. {dataToSendBuffer[i] : i \in 1..(Len(dataToSendBuffer)
                                  - Len(Declare(dataToSendBuffer, bytesToSendInSendStage)))} \subseteq BatchUnits
      BY <2>3, DeclaredWasSent DEF BufferTypeOK, BatchUnits, BatchData
    <2>5. declared' \subseteq declared \cup BatchUnits
      BY <1>3, <2>4 DEF Declares, Declared
    <2>6. QED
      BY <1>1, <2>2, <2>5 DEF NoLoss
  <1>4. QED
    BY <1>2, <1>3 DEF DataMove, Elsewhere, Remains, Transmits, SentOk, Cancels, AckRead, AsksAgain,
       Breaks, Stops, bufferVars

LEMMA TurnsKeepData ==
    ASSUME QueuesOK, Turn, Still, Drained, DataMove, BufferTypeOK, BatchWithinBuffer, PairInv, DataInv
    PROVE  DataInv'
  <1>1. Attached'
    BY DEF DataInv, Attached, Turn, Still
  <1>2. QED
    BY <1>1, TurnsKeepDue, TurnsKeepAck, TurnsKeepSending, TurnsKeepAcking, TurnsKeepLoss DEF DataInv

-----------------------------------------------------------------------------
(* The application's calls, and the start. *)

(* A line the driver tells itself. *)
LEMMA OtherLine ==
    ASSUME QueuesOK, NEW new \in Seq(Others), lines' = Queued(lines, new), UNCHANGED seen
    PROVE  /\ Told' \cap AckAll \subseteq Told \cap AckAll
           /\ NoSendOk => NoSendOk'
           /\ \A A : Behind(lines, A, Lines \ SendOks) => Behind(lines', A, Lines \ SendOks)
  <1>1. Range(new) \subseteq Others /\ new \in Seq(Lines)
    BY SeqRange DEF Others
  <1>2. Range(lines') \subseteq Range(lines) \cup Range(new)
    BY <1>1, QueuedRange DEF QueuesOK
  <1>3. \A A : Behind(lines, A, Lines \ SendOks) => Behind(lines', A, Lines \ SendOks)
    <2>1. Range(new) \subseteq Lines \ SendOks
      BY <1>1 DEF Others
    <2>2. QED
      BY <1>1, <2>1, BehindQueued DEF QueuesOK
  <1>4. QED
    BY <1>1, <1>2, <1>3 DEF Told, NoSendOk, Others

LEMMA DataKept ==
    ASSUME QueuesOK, UNCHANGED <<state, seen, rxOn, chipIn, linkVars, delivered, allAcked, declared>>,
           NEW new \in Seq(Others), lines' = Queued(lines, new),
           state \in BatchStates => BatchData' = BatchData, DataInv
    PROVE  DataInv'
  <1>1. UNCHANGED <<state, chipIn, link, prompt, sendDue, flying, counters>> /\ Asked' = Asked
    BY DEF linkVars, Asked
  <1>2. (Lap' <=> Lap) /\ (Hearing' <=> Hearing)
    BY DEF Lap, Hearing
  <1>3. Unsent => Unsent'
    BY <1>1, OtherLine DEF Unsent
  <1>4. OneSend => OneSend'
    <2>1. SendsOnce => SendsOnce'
      BY <1>1 DEF SendsOnce
    <2>2. QED
      BY <1>1, <2>1, OtherLine DEF OneSend
  <1>5. \A A : Ended(A) => Ended(A)'
    BY OtherLine DEF Ended
  <1>6. DataPaired'
    BY <1>1, <1>2, <1>3, <1>4, <1>5 DEF DataInv, DataPaired
  <1>7. AckPaired'
    BY <1>1, <1>2, OtherLine DEF DataInv, AckPaired, Fresh
  <1>8. state \in BatchStates => BatchUnits' = BatchUnits /\ (Carried => Carried')
    BY <1>1 DEF BatchUnits, Carried
  <1>9. Sending'
    <2> SUFFICES ASSUME Lap', state' = "NETWORK_SEND"
                 PROVE  /\ \A i \in 1..Len(chipIn') : chipIn'[i].text = "data" => chipIn'[i].data = BatchData'
                        /\ sendDue' \/ ~NoSendOk' => Carried'
      BY DEF Sending
    <2>1. Lap /\ state = "NETWORK_SEND" /\ state \in BatchStates
      BY <1>1, <1>2 DEF BatchStates
    <2>2. QED
      BY <1>1, <1>8, <2>1, OtherLine DEF DataInv, Sending
  <1>10. Acking'
    <2>1. state \in {"NETWORK_ACK_CHECK", "NETWORK_ACK_CHECK_PARSE"} => state \in BatchStates
      BY DEF BatchStates
    <2>2. QED
      BY <1>1, <1>2, <1>8, <2>1, OtherLine DEF DataInv, Acking
  <1>11. Attached' /\ NoLoss'
    BY <1>1 DEF DataInv, Attached, NoLoss
  <1>12. QED
    BY <1>6, <1>7, <1>9, <1>10, <1>11 DEF DataInv

(* What send() appends is not of the batch. *)
LEMMA BatchOfMore ==
    ASSUME NEW S, NEW buffer \in Seq(S), NEW data \in Seq(S), NEW n \in Nat, n <= Len(buffer)
    PROVE  Batch(buffer \o data, n) = Batch(buffer, n)
  <1> DEFINE all == buffer \o data
  <1>1. /\ all \in Seq(S) /\ Len(all) = Len(buffer) + Len(data)
        /\ Len(buffer) \in Nat /\ Len(data) \in Nat
        /\ \A i \in 1..Len(buffer) : all[i] = buffer[i]
    BY ConcatProperties, LenProperties
  <1> HIDE DEF all
  <1>2. n <= Len(all)
    BY <1>1
  <1>3. /\ Batch(buffer, n) \in Seq(S) /\ Len(Batch(buffer, n)) = n
        /\ \A i \in 1..n : Batch(buffer, n)[i] = buffer[i]
    BY <1>1, SubSeqProperties, Z3 DEF Batch
  <1>4. /\ Batch(all, n) \in Seq(S) /\ Len(Batch(all, n)) = n
        /\ \A i \in 1..n : Batch(all, n)[i] = all[i]
    BY <1>1, <1>2, SubSeqProperties, Z3 DEF Batch
  <1>5. \A i \in 1..n : Batch(all, n)[i] = Batch(buffer, n)[i]
    <2>1. \A i \in 1..n : i \in 1..Len(buffer)
      BY <1>1
    <2>2. QED
      BY <1>1, <1>3, <1>4, <2>1
  <1>6. Batch(all, n) = Batch(buffer, n)
    BY <1>3, <1>4, <1>5, SeqEqual, Zenon
  <1>7. QED
    BY <1>6 DEF all

LEMMA AppKeepsData ==
    ASSUME QueuesOK, BufferTypeOK, BatchWithinBuffer, App, DataInv PROVE DataInv'
  <1>1. << >> \in Seq(Others) /\ Queued(lines, << >>) = lines
    BY QueuedNothing, EmptySeq
  <1>2. CASE Connect \/ Disconnect \/ AddSms
    <2>1. UNCHANGED <<state, seen, rxOn, chipIn, linkVars, delivered, allAcked, declared, lines,
                      dataToSendBuffer, bytesToSendInSendStage>>
      BY <1>2 DEF Connect, Disconnect, AddSms, AppFrame, machineVars, counterVars, chipVars, pinVars, netVars
    <2>2. BatchData' = BatchData
      BY <2>1 DEF BatchData
    <2>3. QED
      BY <1>1, <2>1, <2>2, DataKept
  <1>3. CASE AppSend
    <2>1. PICK n \in 1..(MAX_UNITS - accepted) :
             /\ Fits(dataToSendBuffer, [i \in 1..n |-> accepted + i])
             /\ dataToSendBuffer' = dataToSendBuffer \o [i \in 1..n |-> accepted + i]
      BY <1>3 DEF AppSend
    <2>2. UNCHANGED <<state, seen, rxOn, chipIn, linkVars, delivered, allAcked, declared, lines,
                      bytesToSendInSendStage>>
      BY <1>3 DEF AppSend, AppFrame, machineVars, counterVars, chipVars, pinVars, netVars
    <2>3. state \in BatchStates => BatchData' = BatchData
      <3> SUFFICES ASSUME state \in BatchStates PROVE BatchData' = BatchData
        OBVIOUS
      <3> DEFINE data == [i \in 1..n |-> accepted + i]
      <3>1. bytesToSendInSendStage \in Nat /\ bytesToSendInSendStage <= Len(dataToSendBuffer)
        BY BufferAssumption DEF BufferTypeOK, BatchWithinBuffer
      <3>2. dataToSendBuffer \in Seq(Nat) /\ data \in Seq(Nat)
        <4>1. Units \subseteq Nat /\ dataToSendBuffer \in Seq(Units)
          BY DEF Units, BufferTypeOK
        <4>2. accepted \in Nat /\ n \in Nat
          BY <2>1, AppendedUnits
        <4>3. \A i \in 1..n : accepted + i \in Nat
          BY <4>2
        <4>4. data \in Seq(Nat)
          BY <4>2, <4>3
        <4>5. QED
          BY <4>1, <4>4, SeqMonotonic
      <3> HIDE DEF data
      <3>3. Batch(dataToSendBuffer \o data, bytesToSendInSendStage)
              = Batch(dataToSendBuffer, bytesToSendInSendStage)
        BY <3>1, <3>2, BatchOfMore
      <3>4. QED
        BY <2>1, <2>2, <3>3 DEF BatchData, data
    <2>4. QED
      BY <1>1, <2>2, <2>3, DataKept
  <1>4. CASE PowerOff
    <2>1. /\ lines' = Queued(lines, <<"_OFF">>)
          /\ UNCHANGED <<state, seen, rxOn, chipIn, linkVars, delivered, allAcked, declared,
                         dataToSendBuffer, bytesToSendInSendStage>>
      BY <1>4 DEF PowerOff, AppFrame, machineVars, counterVars, pinVars, netVars
    <2>2. "_OFF" \in Others
      BY DEF Others, Lines, LinkLines, SendOks, AckAll
    <2>3. <<"_OFF">> \in Seq(Others)
      BY <2>2, OneElement
    <2>4. BatchData' = BatchData
      BY <2>1 DEF BatchData
    <2>5. QED
      BY <2>1, <2>3, <2>4, DataKept
  <1>5. CASE PowerOn
    <2>1. ~rxOn' /\ UNCHANGED <<prompt, sendDue, link, declared, delivered>>
      BY <1>5 DEF PowerOn, UsartAction, OnDisconnected, linkVars, netVars
    <2>2. ~Lap' /\ ~Hearing'
      BY <2>1 DEF Lap, Hearing
    <2>3. QED
      BY <2>1, <2>2 DEF DataInv, Attached, DataPaired, AckPaired, Sending, Acking, NoLoss
  <1>6. QED
    BY <1>2, <1>3, <1>4, <1>5 DEF App

LEMMA InitData == Init => DataInv
  <1> SUFFICES ASSUME Init PROVE DataInv
    OBVIOUS
  <1>1. ~rxOn /\ prompt = FALSE /\ sendDue = FALSE /\ declared = {}
    BY DEF Init, ChipInit
  <1>2. ~Lap /\ ~Hearing
    BY <1>1 DEF Lap, Hearing
  <1>3. QED
    BY <1>1, <1>2 DEF DataInv, Attached, DataPaired, AckPaired, Sending, Acking, NoLoss

LEMMA NextKeepsData ==
    ASSUME ~ZeroCounters
    PROVE  TypeInv /\ PairInv /\ DataInv /\ [Next]_vars /\ [Drained]_vars => DataInv'
  <1> SUFFICES ASSUME TypeInv, PairInv, DataInv, [Next]_vars, [Drained]_vars PROVE DataInv'
    OBVIOUS
  <1>1. /\ TypeOK /\ BufferTypeOK /\ FlagsOK /\ BatchWithinBuffer
        /\ QueuesOK /\ rxOn \in BOOLEAN /\ smsRemoved \in Nat /\ smsCollection \in Nat
    BY TypeParts, TypedQueues DEF TypeInv
  <1>2. CASE UNCHANGED vars
    <2>1. << >> \in Seq(Others) /\ Queued(lines, << >>) = lines
      BY <1>1, QueuedNothing, EmptySeq
    <2>2. UNCHANGED <<state, seen, rxOn, chipIn, linkVars, delivered, allAcked, declared, lines,
                      dataToSendBuffer, bytesToSendInSendStage>>
      BY <1>2 DEF vars, modemVars, machineVars, bufferVars, counterVars, chipVars, pinVars, netVars
    <2>3. BatchData' = BatchData
      BY <2>2 DEF BatchData
    <2>4. QED
      BY <1>1, <2>1, <2>2, <2>3, DataKept
  <1>3. CASE Driver \/ TimerExpires
    <2>1. Turn
      BY <1>1, <1>3, DriverTurns
    <2>2. Drained
      <3>1. UNCHANGED vars => ~(state = "RESET_STAGE_POWER_ON" /\ state' = "INIT")
        BY DEF vars, modemVars, machineVars
      <3>2. QED
        BY <3>1 DEF Drained
    <2>3. DataMove
      BY <1>3, DriverMovesData, TimerMovesData
    <2>4. Still
      <3>1. DriverFlags
        BY <1>1, <1>3, DriverMovesFlags, TimerMovesFlags
      <3>2. QED
        BY <3>1 DEF DriverFlags, ChipOwn, linkVars, netVars, Still
    <2>5. QED
      BY <1>1, <2>1, <2>2, <2>3, <2>4, TurnsKeepData
  <1>4. CASE App
    BY <1>1, <1>4, AppKeepsData
  <1>5. CASE Serves \/ Reports \/ Delivers \/ Acks \/ Fails
    <2>1. Environment /\ UNCHANGED modemVars
      BY <1>5 DEF Serves, Reports, Delivers, Acks, Fails, Environment
    <2>2. flying \in Seq(Units)
      BY <1>1 DEF FlagsOK, ChipFlagsOK
    <2>3. QED
      BY <1>1, <2>1, <2>2, EnvironmentKeepsData
  <1>6. QED
    BY <1>2, <1>3, <1>4, <1>5 DEF Next

-----------------------------------------------------------------------------
(* The theorems. *)

(* The peer receives a unit only behind every earlier one that was not given  *)
(* up with a connection, whatever is resent, cancelled, lost or cleared, and  *)
(* for every number of failures: as long as the driver has declared nothing   *)
(* sent that the peer does not have.                                         *)
THEOREM DeliveryHasNoHole == Spec => [](NoLoss => NoHole)
  BY StreamInductive, OrderedDelivery, PTL

(* Driver and chip together implement the promise of the interface, for as    *)
(* long as the driver declares nothing sent that the peer does not have.      *)
THEOREM StreamImplemented == Spec /\ []NoLoss => ImplementsStream
  <1>1. Init => Stream!Init
    <2> SUFFICES ASSUME Init PROVE Stream!Init
      OBVIOUS
    <2>1. /\ accepted = 0 /\ declared = {} /\ delivered = {} /\ dataToSendBuffer = << >>
          /\ connected = FALSE /\ Len(<< >>) = 0
      BY EmptySeq DEF Init, ChipInit
    <2>2. QED
      BY <2>1 DEF Stream!Init
  <1>2. StreamInv /\ NoLoss /\ NoLoss' /\ [Next]_vars => [Stream!Next]_(Stream!vars)
    <2> SUFFICES ASSUME StreamInv, NoLoss, NoLoss', [Next]_vars PROVE [Stream!Next]_(Stream!vars)
      OBVIOUS
    <2>1. StreamMove
      BY NextIsStreamMove
    <2>2. QED
      BY <2>1 DEF StreamMove, FirstWaiting, Stream!Next, Stream!vars, Stream!Accept, Stream!Deliver,
         Stream!GivenUp, Stream!Report, Stream!Announce, Stream!GiveUp
  <1>3. QED
    BY <1>1, <1>2, StreamInductive, PTL DEF Spec, Stream!Spec, ImplementsStream

LEMMA TypesInductive == Spec => []TypeInv
  BY InitTypes, NextKeepsTypes, PTL DEF Spec

LEMMA DataInductive ==
    ASSUME ~ZeroCounters PROVE Spec /\ QueueDrained => []DataInv
  <1>1. TypeInv /\ PairInv /\ DataInv /\ [Next]_vars /\ [Drained]_vars => DataInv'
    BY NextKeepsData
  <1>2. QED
    BY <1>1, InitData, TypesInductive, PairsInductive, PTL DEF Spec, QueueDrained

(* What the driver drops as sent the peer has: no "SEND OK" and no counters   *)
(* of another batch, and none left over from another connection, stand for    *)
(* the batch that STAGE_DECLARE drops.  The counters are those of the module  *)
(* when it answers with an error while it has had no connection.             *)
THEOREM NothingLost ==
    ASSUME ~ZeroCounters PROVE Spec /\ QueueDrained => []NoLoss
  <1>1. DataInv => NoLoss
    BY DEF DataInv
  <1>2. QED
    BY <1>1, DataInductive, PTL

(* So a unit reaches the peer only behind every earlier one that was not      *)
(* given up, ...                                                             *)
THEOREM DeliveredInOrder ==
    ASSUME ~ZeroCounters PROVE Spec /\ QueueDrained => []NoHole
  BY NothingLost, DeliveryHasNoHole, PTL

(* ... and driver and chip implement the promise of the interface.           *)
THEOREM PromiseKept ==
    ASSUME ~ZeroCounters PROVE Spec /\ QueueDrained => ImplementsStream
  BY NothingLost, StreamImplemented, PTL

-----------------------------------------------------------------------------
(* What the peer sends. *)

Chunks == {"+QIRD: n"}
ReadAsk == {"AT+QIRD"}
Fetching == Lap /\ state = "NETWORK_BEGIN_RECEIVE"

(* Only a connection holds data. *)
InboxLinked == inbox > 0 => link = "UP"
(* Data have been announced, and behind the announcement there is no answer.  *)
Announced ==
    \E i \in 1..Len(lines) :
        lines[i] = "+QIRDI" /\ \A j \in 1..Len(lines) : i < j => lines[j] # "OK"
(* An AT+QIRD is answered that has found nothing. *)
FoundNothing == "OK" \in Range(lines) /\ Range(lines) \cap Chunks = {}
(* What came after an AT+QIRD that found nothing is announced behind its answer. *)
FetchPaired ==
    Fetching => /\ Asked \cap OkAsk \subseteq ReadAsk
                /\ "AT+QIRD" \notin seen \/ "OK" \notin seen
                /\ FoundNothing /\ inbox > 0 => Announced

RecvInv == InboxLinked /\ FetchPaired /\ NoLostWakeup

(* The event queue does not fill. *)
HasRoom == Len(lines) < EVENT_QUEUE_SIZE

LEMMA AllFit ==
    ASSUME QueuesOK, NEW new \in Seq(Lines), lines' = Queued(lines, new), HasRoom'
    PROVE  /\ Len(lines) \in Nat /\ Len(new) \in Nat /\ Len(lines') = Len(lines) + Len(new)
           /\ \A i \in 1..Len(lines) : i \in 1..Len(lines') /\ lines'[i] = lines[i]
           /\ \A i \in 1..Len(new) :
                 Len(lines) + i \in 1..Len(lines') /\ lines'[Len(lines) + i] = new[i]
           /\ Range(lines') = Range(lines) \cup Range(new)
  <1> DEFINE all == lines \o new
  <1>1. /\ all \in Seq(Lines) /\ Len(all) = Len(lines) + Len(new)
        /\ Len(lines) \in Nat /\ Len(new) \in Nat /\ Len(all) \in Nat /\ lines \in Seq(Lines)
        /\ \A i \in 1..Len(all) : all[i] = IF i <= Len(lines) THEN lines[i] ELSE new[i - Len(lines)]
    BY ConcatProperties, LenProperties DEF QueuesOK
  <1>2. EVENT_QUEUE_SIZE \in Nat
    BY ChipAssumption
  <1>3. lines' = SubSeq(all, 1, IF Len(all) < EVENT_QUEUE_SIZE THEN Len(all) ELSE EVENT_QUEUE_SIZE)
    BY DEF Queued
  <1> HIDE DEF all
  <1>4. lines' = all
    <2>1. CASE Len(all) < EVENT_QUEUE_SIZE
      <3>1. lines' = SubSeq(all, 1, Len(all))
        BY <1>3, <2>1
      <3>2. QED
        BY <1>1, <3>1
    <2>2. CASE ~(Len(all) < EVENT_QUEUE_SIZE)
      <3>1. lines' = SubSeq(all, 1, EVENT_QUEUE_SIZE)
        BY <1>3, <2>2
      <3>2. Len(lines') = EVENT_QUEUE_SIZE
        BY <1>1, <1>2, <2>2, <3>1
      <3>3. QED
        BY <1>2, <3>2 DEF HasRoom
    <2>3. QED
      BY <2>1, <2>2
  <1>5. \A i \in 1..Len(lines) : i \in 1..Len(all) /\ all[i] = lines[i]
    BY <1>1
  <1>6. \A i \in 1..Len(new) : Len(lines) + i \in 1..Len(all) /\ all[Len(lines) + i] = new[i]
    <2> SUFFICES ASSUME NEW i \in 1..Len(new)
                 PROVE  Len(lines) + i \in 1..Len(all) /\ all[Len(lines) + i] = new[i]
      OBVIOUS
    <2>1. Len(lines) + i \in 1..Len(all) /\ ~(Len(lines) + i <= Len(lines))
          /\ (Len(lines) + i) - Len(lines) = i
      BY <1>1
    <2>2. QED
      BY <1>1, <2>1
  <1>7. Range(lines) \subseteq Range(all) /\ Range(new) \subseteq Range(all)
    <2>1. /\ Range(all) = {all[i] : i \in 1..Len(all)} /\ Range(lines) = {lines[i] : i \in 1..Len(lines)}
          /\ Range(new) = {new[i] : i \in 1..Len(new)}
      BY <1>1, RangeEquality
    <2>2. QED
      BY <1>5, <1>6, <2>1
  <1>8. Range(lines') \subseteq Range(lines) \cup Range(new)
    BY QueuedRange DEF QueuesOK
  <1>9. QED
    BY <1>1, <1>4, <1>5, <1>6, <1>7, <1>8

(* Data come from the peer alone, and go with the connection. *)
ReadMove == UNCHANGED link /\ inbox' = (IF inbox > 0 THEN inbox - 1 ELSE 0)

LEMMA InboxSteps ==
    Environment =>
      \/ PeerSends /\ link = "UP" /\ UNCHANGED link
      \/ ReadMove
      \/ inbox' = 0
      \/ UNCHANGED inbox /\ (link' = link \/ link # "UP")
  <1> SUFFICES ASSUME Environment
               PROVE  \/ PeerSends /\ link = "UP" /\ UNCHANGED link
                      \/ ReadMove
                      \/ inbox' = 0
                      \/ UNCHANGED inbox /\ (link' = link \/ link # "UP")
    OBVIOUS
  <1>1. CASE ChipReads
    BY <1>1, Zenon DEF ChipReads, ReadMove
  <1>2. CASE PeerSends
    BY <1>2, Zenon DEF PeerSends
  <1>3. CASE ChipServes /\ ~ChipReads
    BY <1>3, Zenon DEF ChipServes, ChipObeys, ChipAbsorbs, ChipState, ChipOpens, ChipCloses, ChipShuts,
       ChipPrompts, ChipTakesData, ChipCancels, ChipAcks, ChipSmsNumber, ChipSmsBody, linkVars, Hangup
  <1>4. CASE ChipReports \/ NetDelivers \/ NetAcks
    <2>1. ChipConnected => link # "UP" /\ UNCHANGED inbox
      BY Zenon DEF ChipConnected
    <2>2. QED
      BY <1>4, <2>1, Zenon DEF ChipReports, ChipSendOk, ChipToggles, NetDelivers, NetAcks, Hangup
  <1>5. CASE ChipFails
    <2>1. ChipConnectFails => link # "UP" /\ UNCHANGED inbox
      BY Zenon DEF ChipConnectFails
    <2>2. QED
      BY <1>5, <2>1, Zenon DEF ChipFails, ChipRefuses, ChipMissesCommand, ChipShutFails,
         LinkLost, ChipSendFails, ChipIgnoresPulse, ChipReboots, linkVars, Hangup
  <1>6. QED
    BY <1>1, <1>2, <1>3, <1>4, <1>5 DEF Environment

LEMMA InboxMove ==
    ASSUME inbox \in Nat, Environment, InboxLinked
    PROVE  InboxLinked' /\ (inbox' > 0 => inbox > 0 \/ PeerSends)
  <1>1. CASE PeerSends /\ link = "UP" /\ UNCHANGED link
    BY <1>1 DEF InboxLinked
  <1>2. CASE ReadMove
    BY <1>2 DEF ReadMove, InboxLinked
  <1>3. CASE inbox' = 0
    BY <1>3 DEF InboxLinked
  <1>4. CASE UNCHANGED inbox /\ (link' = link \/ link # "UP")
    BY <1>4 DEF InboxLinked
  <1>5. QED
    BY <1>1, <1>2, <1>3, <1>4, InboxSteps

LEMMA PeerAnnounces ==
    ASSUME QueuesOK, rxOn, HasRoom', PeerSends PROVE Announced' /\ "+QIRDI" \in Range(lines')
  <1>1. lines' = Queued(lines, <<"+QIRDI">>) /\ "+QIRDI" \in Lines
    BY DEF PeerSends, Say, Lines, LinkLines
  <1>2. <<"+QIRDI">> \in Seq(Lines) /\ Len(<<"+QIRDI">>) = 1 /\ <<"+QIRDI">>[1] = "+QIRDI"
    BY <1>1
  <1>3. /\ Len(lines) \in Nat /\ Len(lines') = Len(lines) + 1
        /\ Len(lines) + 1 \in 1..Len(lines') /\ lines'[Len(lines) + 1] = "+QIRDI"
        /\ Range(lines') = Range(lines) \cup Range(<<"+QIRDI">>)
    <2>1. 1 \in 1..Len(<<"+QIRDI">>)
      BY <1>2
    <2> DEFINE word == <<"+QIRDI">>
    <2>2. word \in Seq(Lines) /\ Len(word) = 1 /\ word[1] = "+QIRDI" /\ lines' = Queued(lines, word)
      BY <1>1, <1>2
    <2> HIDE DEF word
    <2>3. /\ Len(lines) \in Nat /\ Len(lines') = Len(lines) + Len(word)
          /\ \A i \in 1..Len(word) :
                Len(lines) + i \in 1..Len(lines') /\ lines'[Len(lines) + i] = word[i]
          /\ Range(lines') = Range(lines) \cup Range(word)
      BY <2>2, AllFit
    <2>4. QED
      BY <2>2, <2>3 DEF word
  <1>4. \A j \in 1..Len(lines') : ~(Len(lines) + 1 < j)
    BY <1>3
  <1>5. Announced'
    BY <1>3, <1>4 DEF Announced
  <1>6. QED
    BY <1>3, <1>5, ShortRanges

(* What an AT+QIRD is told. *)
ReadWords == <<"AT+QIRD", "+QIRD: n", "payload", "OK">>

LEMMA ReadFinds ==
    ASSUME QueuesOK, rxOn, HasRoom', inbox \in Nat, ChipReads, inbox' > 0
    PROVE  Range(lines') \cap Chunks # {}
  <1>1. inbox > 0
    <2>1. ReadMove
      BY Zenon DEF ChipReads, ReadMove
    <2>2. QED
      BY <2>1 DEF ReadMove
  <1>2. Say(ReadWords)
    BY <1>1, Zenon DEF ChipReads, ReadWords
  <1>3. lines' = Queued(lines, ReadWords) /\ ReadWords \in Seq(Lines)
    <2>1. "AT+QIRD" \in Lines /\ "+QIRD: n" \in Lines /\ "payload" \in Lines /\ "OK" \in Lines
      BY DEF Lines, BootLines, LinkLines
    <2>2. ReadWords \in Seq(Lines)
      BY <2>1, ShortSeqs DEF ReadWords
    <2>3. QED
      BY <1>2, <2>2 DEF Say
  <1>4. Range(ReadWords) \subseteq Range(lines')
    BY <1>3, AllFit
  <1>5. "+QIRD: n" \in Range(ReadWords)
    <2>1. \A a, b, c, d : b \in Range(<<a, b, c, d>>)
      BY ShortRanges
    <2>2. QED
      BY <2>1 DEF ReadWords
  <1>6. QED
    BY <1>4, <1>5 DEF Chunks

(* Words that hold no "OK". *)
LEMMA NoOkTold ==
    ASSUME QueuesOK, rxOn, NEW new \in Whispers \cup {<<"CONNECT OK">>, <<"CONNECT FAIL">>},
           Say(new), "OK" \notin Range(lines)
    PROVE  "OK" \notin Range(lines')
  <1>1. new \in Mumbles \/ new = <<"CONNECT OK">>
    BY WhispersAsync DEF Mumbles
  <1>2. new \in Seq(Lines)
    <2>1. "CONNECT OK" \in Lines
      BY DEF Lines, LinkLines
    <2>2. QED
      BY <1>1, <2>1, MumblesCount, OneElement
  <1>3. "OK" \notin Range(new)
    <2>1. CASE new \in Mumbles
      <3>1. "OK" \in Counting
        BY DEF Counting, OkAnswer
      <3>2. QED
        BY <2>1, <3>1, MumblesCount
    <2>2. CASE new = <<"CONNECT OK">>
      <3>1. \A a : Range(<<a>>) = {a}
        BY ShortRanges
      <3>2. Range(<<"CONNECT OK">>) = {"CONNECT OK"}
        BY <3>1, Zenon
      <3>3. "OK" # "CONNECT OK"
        OBVIOUS
      <3>4. QED
        BY <2>2, <3>2, <3>3, Zenon
    <2>3. QED
      BY <1>1, <2>1, <2>2
  <1>4. lines' = Queued(lines, new)
    BY DEF Say
  <1>5. QED
    BY <1>2, <1>3, <1>4, QueuedRange DEF QueuesOK

LEMMA ReadTells ==
    ASSUME QueuesOK, rxOn, Environment, Serves1("AT+QIRD"),
           "OK" \notin Range(lines), "OK" \in Range(lines')
    PROVE  ChipReads
  <1>1. lines' # lines
    OBVIOUS
  <1>2. \A new \in Whispers \cup {<<"CONNECT OK">>, <<"CONNECT FAIL">>} : ~Say(new)
    BY NoOkTold
  <1>3. Head(chipIn).text = "AT+QIRD" /\ "AT+QIRD" \notin SimpleCommands
    BY SimpleNames DEF Serves1
  <1>4. ~ChipObeys /\ ~ChipRefuses /\ ~ChipState /\ ~ChipOpens /\ ~ChipCloses /\ ~ChipShuts
        /\ ~ChipPrompts /\ ~ChipCancels /\ ~ChipAcks /\ ~ChipSmsNumber /\ ~ChipSmsBody /\ ~ChipShutFails
    BY <1>3 DEF Serve, ChipObeys, ChipRefuses, ChipState, ChipOpens, ChipCloses, ChipShuts,
       ChipPrompts, ChipCancels, ChipAcks, ChipSmsNumber, ChipSmsBody, ChipShutFails
  <1>5. ~ChipAbsorbs /\ ~ChipTakesData /\ ~ChipMissesCommand /\ ~ChipIgnoresPulse /\ ~NetDelivers /\ ~NetAcks
    BY <1>1 DEF ChipAbsorbs, ChipTakesData, ChipMissesCommand, ChipIgnoresPulse, NetDelivers, NetAcks
  <1>6. ~ChipConnected /\ ~ChipConnectFails
    BY <1>2 DEF ChipConnected, ChipConnectFails
  <1>7. ~ChipSendOk /\ ~ChipToggles /\ ~LinkLost /\ ~ChipSendFails /\ ~ChipReboots /\ ~PeerSends
    <2>1. \A a \in {"CLOSED", "+PDP: DEACT", "SEND OK", "SEND FAIL", "+QIRDI", "RDY"} : ~Say(<<a>>)
      BY <1>2 DEF Whispers
    <2>2. ~ChipToggles
      BY <1>1, <2>1 DEF ChipToggles
    <2>3. QED
      BY <2>1, <2>2 DEF ChipSendOk, LinkLost, ChipSendFails, ChipReboots, PeerSends
  <1>8. QED
    BY <1>4, <1>5, <1>6, <1>7 DEF Environment, ChipServes, ChipReports, ChipFails

LEMMA EnvironmentKeepsFetch ==
    ASSUME QueuesOK, link \in Links, inbox \in Nat, rxOn \in BOOLEAN, HasRoom', Environment,
           UNCHANGED modemVars, PairInv, RecvInv
    PROVE  FetchPaired'
  <1> SUFFICES ASSUME Fetching' PROVE FetchPaired'
    BY DEF FetchPaired
  <1>1. UNCHANGED <<rxOn, seen, state>>
    BY EnvironmentPins DEF modemVars, machineVars
  <1>2. Fetching /\ rxOn
    BY <1>1 DEF Fetching, Lap, Hearing
  <1>3. PICK new : Tells(new) /\ Speech(new)
    BY <1>1, <1>2, EnvironmentSpeaks
  <1>4. /\ Asked' \subseteq Asked /\ AnswersOnly(OkAsk, OkAnswer, new)
        /\ lines' = Queued(lines, new) /\ new \in Seq(Lines)
    BY <1>3, Telling, SpeechFits DEF Fitting, Tells
  <1>5. /\ Asked \cap OkAsk \subseteq ReadAsk
        /\ "AT+QIRD" \notin seen \/ "OK" \notin seen
        /\ FoundNothing /\ inbox > 0 => Announced
    BY <1>2 DEF RecvInv, FetchPaired
  <1>6. Sync(OkAsk, OkAnswer, Async, {}) /\ "OK" \in OkAnswer
    BY <1>2 DEF PairInv, Paired, OkPaired, Fetching, OneOk, OkAnswer
  <1>7. ASSUME FoundNothing', inbox' > 0 PROVE Announced'
    <2>1. inbox > 0 \/ PeerSends
      BY <1>7, InboxMove DEF RecvInv
    <2>2. CASE PeerSends
      BY <1>2, <2>2, PeerAnnounces
    <2>3. CASE inbox > 0 /\ "OK" \in Range(lines)
      <3>1. Asked \cap OkAsk = {}
        BY <1>6, <2>3 DEF Sync, Told
      <3>2. "OK" \notin Range(new)
        <4>1. ASSUME "OK" \in Range(new) PROVE FALSE
          <5>1. chipIn # << >> /\ Head(chipIn).text \in OkAsk /\ chipIn' = Tail(chipIn)
            BY <1>4, <1>6, <4>1 DEF AnswersOnly
          <5>2. Head(chipIn).text \in Asked
            BY <5>1, AskedServed
          <5>3. QED
            BY <3>1, <5>1, <5>2
        <4>2. QED
          BY <4>1
      <3>3. /\ Len(lines) \in Nat /\ Len(new) \in Nat /\ Len(lines') = Len(lines) + Len(new)
            /\ \A i \in 1..Len(lines) : i \in 1..Len(lines') /\ lines'[i] = lines[i]
            /\ \A i \in 1..Len(new) :
                  Len(lines) + i \in 1..Len(lines') /\ lines'[Len(lines) + i] = new[i]
            /\ Range(lines) \subseteq Range(lines')
        BY <1>4, AllFit
      <3>4. FoundNothing
        BY <1>7, <2>3, <3>3 DEF FoundNothing
      <3>5. PICK i \in 1..Len(lines) :
               lines[i] = "+QIRDI" /\ \A j \in 1..Len(lines) : i < j => lines[j] # "OK"
        BY <1>5, <2>3, <3>4 DEF Announced
      <3>6. ASSUME NEW j \in 1..Len(lines'), i < j PROVE lines'[j] # "OK"
        <4>1. CASE j \in 1..Len(lines)
          BY <3>3, <3>5, <3>6, <4>1
        <4>2. CASE j \notin 1..Len(lines)
          <5>1. j - Len(lines) \in 1..Len(new) /\ Len(lines) + (j - Len(lines)) = j
            BY <3>3, <4>2
          <5>2. lines'[j] = new[j - Len(lines)]
            BY <3>3, <5>1
          <5>3. new[j - Len(lines)] \in Range(new)
            BY <1>4, <5>1, RangeEquality
          <5>4. QED
            BY <3>2, <5>2, <5>3
        <4>3. QED
          BY <4>1, <4>2
      <3>7. QED
        BY <3>3, <3>5, <3>6 DEF Announced
    <2>4. CASE "OK" \notin Range(lines)
      <3>1. "OK" \in Range(lines')
        BY <1>7 DEF FoundNothing
      <3>2. "OK" \in Range(new)
        BY <1>4, <2>4, <3>1, QueuedRange DEF QueuesOK
      <3>3. chipIn # << >> /\ Head(chipIn).text \in OkAsk /\ chipIn' = Tail(chipIn)
        BY <1>4, <1>6, <3>2 DEF AnswersOnly
      <3>4. Head(chipIn).text \in Asked
        BY <3>3, AskedServed
      <3>5. Serves1("AT+QIRD")
        <4>1. Head(chipIn).text \in ReadAsk
          BY <1>5, <3>3, <3>4
        <4>2. QED
          BY <3>3, <4>1 DEF Serves1, ReadAsk
      <3>6. ChipReads
        BY <1>2, <2>4, <3>1, <3>5, ReadTells
      <3>7. Range(lines') \cap Chunks # {}
        BY <1>2, <1>7, <3>6, ReadFinds
      <3>8. QED
        BY <1>7, <3>7 DEF FoundNothing
    <2>5. QED
      BY <2>1, <2>2, <2>3, <2>4
  <1>8. Asked' \cap OkAsk \subseteq ReadAsk /\ ("AT+QIRD" \notin seen' \/ "OK" \notin seen')
    BY <1>1, <1>4, <1>5
  <1>9. QED
    BY <1>7, <1>8 DEF FetchPaired

LEMMA EnvironmentKeepsRecv ==
    ASSUME QueuesOK, link \in Links, inbox \in Nat, rxOn \in BOOLEAN, HasRoom', Environment,
           UNCHANGED modemVars, PairInv, RecvInv
    PROVE  RecvInv'
  <1>1. InboxLinked' /\ (inbox' > 0 => inbox > 0 \/ PeerSends)
    BY InboxMove DEF RecvInv
  <1>2. UNCHANGED <<rxOn, seen, newDataToReceive>>
    BY EnvironmentPins DEF modemVars, machineVars
  <1>3. ASSUME rxOn, inbox' > 0 PROVE newDataToReceive' \/ "+QIRDI" \in Range(lines')
    <2>1. CASE PeerSends
      BY <1>3, <2>1, PeerAnnounces
    <2>2. CASE inbox > 0
      <3>1. newDataToReceive \/ "+QIRDI" \in Range(lines)
        BY <1>3, <2>2 DEF RecvInv, InboxLinked, NoLostWakeup
      <3>2. PICK new : Tells(new)
        BY <1>2, <1>3, EnvironmentSpeaks
      <3>3. Range(lines) \subseteq Range(lines')
        BY <3>2, AllFit DEF Tells
      <3>4. QED
        BY <1>2, <3>1, <3>3
    <2>3. QED
      BY <1>1, <1>3, <2>1, <2>2
  <1>4. NoLostWakeup'
    BY <1>2, <1>3 DEF NoLostWakeup
  <1>5. QED
    BY <1>1, <1>4, EnvironmentKeepsFetch DEF RecvInv

-----------------------------------------------------------------------------
(* How the machine fetches it. *)

(* The AT+QIRD has found nothing, and the flag is cleared. *)
ClearsFlag ==
    /\ state = "NETWORK_BEGIN_RECEIVE" /\ Answered("AT+QIRD") /\ line \notin Chunks
    /\ lines' = Rest /\ ~newDataToReceive'
FlagMove ==
    \/ QirdiRule /\ lines' = Rest
    \/ UNCHANGED <<lines, newDataToReceive>>
    \/ ClearsFlag
(* It is not answered yet. *)
ReadsOn == Skip /\ ~Answered("AT+QIRD") /\ line \notin Chunks

LEMMA EnterFlag ==
    /\ Skip => FlagMove
    /\ \A next : EnterWith(next) => FlagMove
    /\ \A next : Enter(next) => FlagMove
    /\ \A next, rx : EnterPulsing(next, rx) => FlagMove
    /\ \A next, count : EnterCounting(next, count) => FlagMove
    /\ EnterDecide => FlagMove
  BY DEF Skip, EnterDecide, EnterPulsing, Enter, EnterCounting, EnterWith, Goto, FlagMove

LEMMA DriverFlag == Driver => FlagMove
  <1> SUFFICES ASSUME Driver PROVE FlagMove
    OBVIOUS
  <1> USE EnterFlag
  <1>1. CASE ResetStageDecide \/ ResetStagePowerOff \/ ResetStagePowerOn \/ GprsReset \/ TurnOff
             \/ ShutDownStageStart \/ ShutDownStagePowerOff \/ ShutDown
    BY <1>1 DEF ResetStageDecide, ResetStagePowerOff, ResetStagePowerOn, GprsReset, TurnOff,
       ShutDownStageStart, ShutDownStagePowerOff, ShutDown
  <1>2. CASE Init_AT \/ Configure \/ ControlWaitForConnect \/ ConnectToServer \/ EchoOff
    BY <1>2 DEF Init_AT, Configure, ControlWaitForConnect, ConnectToServer, EchoOff
  <1>3. CASE CloseAndReconnect \/ CloseDelay
    BY <1>3 DEF CloseAndReconnect, CloseDelay, Goto, FlagMove
  <1>4. CASE CheckConnection \/ CheckConnectionPreSend
    BY <1>4 DEF CheckConnection, CheckConnectionPreSend, QueryState, EnterPrepare, Goto, FlagMove
  <1>5. CASE CheckReceive \/ Receive \/ BeginSend \/ Sleep \/ Wake
    BY <1>5 DEF CheckReceive, Receive, BeginSend, Sleep, Wake
  <1>6. CASE BeginReceive
    <2>1. ASSUME At("NETWORK_BEGIN_RECEIVE"), Answered("AT+QIRD"), ~parseRecvLenCondition,
                 Goto("NETWORK_BEGIN_SEND"), newDataToReceive' = FALSE
          PROVE  ClearsFlag
      <3>1. line \notin Chunks
        BY <2>1, Zenon DEF parseRecvLenCondition, Chunks
      <3>2. QED
        BY <2>1, <3>1, AtIs DEF Goto, ClearsFlag
    <2>2. QED
      BY <1>6, <2>1 DEF BeginReceive, FlagMove
  <1>7. CASE PrepareSend \/ Send \/ AckCheck \/ AckCheckParse \/ DeclareRead \/ CancelSend
    BY <1>7 DEF PrepareSend, Send, AckCheck, AckCheckParse, DeclareRead, CancelSend, EnterSend,
       EnterDeclare, Goto, FlagMove
  <1>8. CASE SmsBeginSend \/ SmsSendSingleNumber \/ SmsSendSingleBody \/ SmsSendSingleRemove
    BY <1>8 DEF SmsBeginSend, SmsSendSingleNumber, SmsSendSingleBody, SmsSendSingleRemove
  <1>9. QED
    BY <1>1, <1>2, <1>3, <1>4, <1>5, <1>6, <1>7, <1>8 DEF Driver

LEMMA TimerFlag == TimerExpires => FlagMove
  BY EnterFlag DEF TimerExpires

LEMMA StaysAsking ==
    ASSUME Driver \/ TimerExpires,
           state = "NETWORK_BEGIN_RECEIVE", state' = "NETWORK_BEGIN_RECEIVE"
    PROVE  ReadsOn
  <1>1. ~TimerExpires
    <2>1. AfterTimer("NETWORK_BEGIN_RECEIVE") = "GPRS_RESET"
      BY DEF AfterTimer, OwnTimerFirst, OwnTimers
    <2>2. QED
      BY <2>1 DEF TimerExpires, EnterDecide, EnterWith, Goto
  <1>2. \A s : At(s) => s = "NETWORK_BEGIN_RECEIVE"
    BY AtIs
  <1>3. "NETWORK_BEGIN_RECEIVE" \notin BootStates
    BY DEF BootStates
  <1>4. ~TurnOff /\ ~CloseDelay
    BY DEF TurnOff, CloseDelay, Enter, EnterWith, Goto
  <1>5. ~ResetStageDecide /\ ~ResetStagePowerOff /\ ~ResetStagePowerOn /\ ~GprsReset /\ ~Init_AT
        /\ ~Configure /\ ~ControlWaitForConnect /\ ~CloseAndReconnect /\ ~CheckConnection
        /\ ~ConnectToServer /\ ~EchoOff /\ ~CheckReceive /\ ~Receive
    BY <1>2, <1>3 DEF ResetStageDecide, ResetStagePowerOff, ResetStagePowerOn, GprsReset, Init_AT,
       Configure, ControlWaitForConnect, CloseAndReconnect, CheckConnection, QueryState,
       ConnectToServer, EchoOff, CheckReceive, Receive
  <1>6. ~BeginSend /\ ~Sleep /\ ~Wake /\ ~CheckConnectionPreSend /\ ~PrepareSend /\ ~Send
        /\ ~AckCheck /\ ~AckCheckParse /\ ~DeclareRead /\ ~CancelSend
    BY <1>2 DEF BeginSend, Sleep, Wake, CheckConnectionPreSend, QueryState, PrepareSend, Send,
       AckCheck, AckCheckParse, DeclareRead, CancelSend
  <1>7. ~SmsBeginSend /\ ~SmsSendSingleNumber /\ ~SmsSendSingleBody /\ ~SmsSendSingleRemove
        /\ ~ShutDownStageStart /\ ~ShutDownStagePowerOff /\ ~ShutDown
    BY <1>2 DEF SmsBeginSend, SmsSendSingleNumber, SmsSendSingleBody, SmsSendSingleRemove,
       ShutDownStageStart, ShutDownStagePowerOff, ShutDown
  <1>8. BeginReceive
    BY <1>1, <1>4, <1>5, <1>6, <1>7 DEF Driver
  <1>9. Skip /\ ~Answered("AT+QIRD") /\ ~parseRecvLenCondition
    BY <1>8 DEF BeginReceive, Enter, EnterWith, Goto
  <1>10. line \notin Chunks
    BY <1>9, Zenon DEF parseRecvLenCondition, Chunks
  <1>11. QED
    BY <1>9, <1>10 DEF ReadsOn

LEMMA LineOrRest ==
    ASSUME QueuesOK, lines # << >> PROVE Range(lines) \subseteq {line} \cup Range(Rest)
  <1>1. line = Head(lines) /\ Rest = Tail(lines) /\ lines \in Seq(Lines)
    BY DEF line, Rest, QueuesOK
  <1>2. /\ Len(lines) \in Nat /\ Head(lines) = lines[1] /\ Tail(lines) \in Seq(Lines)
        /\ Len(Tail(lines)) = Len(lines) - 1
        /\ \A i \in 1..Len(Tail(lines)) : i + 1 \in 1..Len(lines) /\ Tail(lines)[i] = lines[i + 1]
    BY <1>1, HeadAndTail
  <1>3. /\ Range(lines) = {lines[i] : i \in 1..Len(lines)}
        /\ Range(Tail(lines)) = {Tail(lines)[i] : i \in 1..Len(Tail(lines))}
    BY <1>1, <1>2, RangeEquality
  <1>4. ASSUME NEW i \in 1..Len(lines), i # 1 PROVE lines[i] \in Range(Tail(lines))
    <2>1. i - 1 \in 1..Len(Tail(lines)) /\ (i - 1) + 1 = i
      BY <1>2, <1>4
    <2>2. Tail(lines)[i - 1] = lines[i]
      BY <1>2, <2>1
    <2>3. QED
      BY <1>3, <2>1, <2>2
  <1>5. QED
    BY <1>1, <1>2, <1>3, <1>4

LEMMA AnnouncedTurns ==
    ASSUME QueuesOK, Announced, lines' = Rest, "OK" \in Range(Rest) PROVE Announced'
  <1>1. PICK i \in 1..Len(lines) :
           lines[i] = "+QIRDI" /\ \A j \in 1..Len(lines) : i < j => lines[j] # "OK"
    BY DEF Announced
  <1>2. lines # << >> /\ Rest = Tail(lines) /\ lines \in Seq(Lines)
    <2>1. Range(<< >>) = {}
      BY ShortRanges
    <2>2. QED
      BY <2>1 DEF Rest, QueuesOK
  <1>3. /\ Len(lines) \in Nat /\ Tail(lines) \in Seq(Lines)
        /\ Len(Tail(lines)) = Len(lines) - 1
        /\ \A j \in 1..Len(Tail(lines)) : j + 1 \in 1..Len(lines) /\ Tail(lines)[j] = lines[j + 1]
    BY <1>2, HeadAndTail
  <1>4. PICK k \in 1..Len(Tail(lines)) : Tail(lines)[k] = "OK"
    <2>1. Range(Tail(lines)) = {Tail(lines)[j] : j \in 1..Len(Tail(lines))}
      BY <1>3, RangeEquality
    <2>2. "OK" \in Range(Tail(lines))
      BY <1>2
    <2>3. QED
      BY <2>1, <2>2
  <1>5. k + 1 \in 1..Len(lines) /\ lines[k + 1] = "OK"
    BY <1>3, <1>4
  <1>6. i # 1
    <2>1. ~(i < k + 1)
      BY <1>1, <1>5
    <2>2. QED
      BY <1>3, <2>1
  <1>7. i - 1 \in 1..Len(Tail(lines)) /\ (i - 1) + 1 = i
    BY <1>3, <1>6
  <1>8. Tail(lines)[i - 1] = "+QIRDI"
    BY <1>1, <1>3, <1>7
  <1>9. ASSUME NEW j \in 1..Len(Tail(lines)), i - 1 < j PROVE Tail(lines)[j] # "OK"
    <2>1. j + 1 \in 1..Len(lines) /\ i < j + 1 /\ Tail(lines)[j] = lines[j + 1]
      BY <1>3, <1>9
    <2>2. QED
      BY <1>1, <2>1
  <1>10. lines' = Tail(lines)
    BY <1>2
  <1>11. QED
    BY <1>7, <1>8, <1>9, <1>10 DEF Announced

(* When the flag is cleared, the data that came after the question are announced. *)
LEMMA ClearedInTime ==
    ASSUME QueuesOK, PairInv, RecvInv, Lap, inbox > 0, ClearsFlag PROVE "+QIRDI" \in Range(Rest)
  <1>1. Fetching /\ Heard("AT+QIRD") /\ Heard("OK")
    BY DEF Fetching, ClearsFlag, Answered
  <1>2. /\ "AT+QIRD" \notin seen \/ "OK" \notin seen
        /\ FoundNothing => Announced
    BY <1>1 DEF RecvInv, FetchPaired
  <1>3. Sync(OkAsk, OkAnswer, Async, {}) /\ "OK" \in OkAnswer /\ "OK" # NoLine /\ "AT+QIRD" # NoLine
    BY <1>1 DEF PairInv, Paired, OkPaired, Fetching, OneOk, OkAnswer, NoLine
  <1>4. "AT+QIRD" \notin Async
    BY DEF Async
  <1>5. "OK" \notin seen
    <2>1. ASSUME "OK" \in seen PROVE FALSE
      <3>1. Range(lines) \subseteq Async
        BY <1>3, <2>1 DEF Sync
      <3>2. line = "AT+QIRD"
        BY <1>1, <1>2, <2>1 DEF Heard
      <3>3. QED
        BY <1>3, <1>4, <3>1, <3>2, LineIsRead
    <2>2. QED
      BY <2>1
  <1>6. line = "OK" /\ "OK" \in Range(lines)
    BY <1>1, <1>3, <1>5, LineIsRead DEF Heard
  <1>7. Range(Rest) \subseteq Async
    BY <1>1, <1>3, SyncHeard
  <1>8. lines # << >>
    BY <1>3, <1>6 DEF line
  <1>9. Range(lines) \subseteq {line} \cup Range(Rest)
    BY <1>8, LineOrRest
  <1>10. FoundNothing
    <2>1. Async \cap Chunks = {}
      BY DEF Async, Chunks
    <2>2. Range(lines) \cap Chunks = {}
      BY <1>7, <1>9, <2>1 DEF ClearsFlag
    <2>3. QED
      BY <1>6, <2>2 DEF FoundNothing
  <1>11. PICK i \in 1..Len(lines) : lines[i] = "+QIRDI"
    BY <1>2, <1>10 DEF Announced
  <1>12. "+QIRDI" \in Range(lines)
    BY <1>11, RangeEquality DEF QueuesOK
  <1>13. QED
    BY <1>6, <1>9, <1>12

LEMMA FetchBegins ==
    ASSUME Turn, state' = "NETWORK_BEGIN_RECEIVE" PROVE Waits \/ state \in NoOk
  <1>1. state' \in DataStates /\ state' \in OneOk
    BY DEF DataStates, ReceiveStates, OneOk
  <1>2. ~Connects
    BY ConnectEnds
  <1>3. state' \notin NoOk \cup Pausing
    BY DEF NoOk, Pausing
  <1>4. Exchanges => state \in NoOk
    BY <1>3 DEF Exchanges, Moves
  <1>5. QED
    BY <1>1, <1>2, <1>4, OnlineSteps

LEMMA ReadTexts == Entry("NETWORK_BEGIN_RECEIVE") = ReadAsk
  <1>1. "NETWORK_BEGIN_RECEIVE" \notin BootStates
    BY DEF BootStates
  <1>2. LinkCommand("NETWORK_BEGIN_RECEIVE") = "AT+QIRD"
    BY DEF LinkCommand
  <1>3. QED
    BY <1>1, <1>2 DEF Entry, ReadAsk

LEMMA TurnsKeepFetch ==
    ASSUME QueuesOK, Turn, Driver \/ TimerExpires, UNCHANGED inbox, Drained, PairInv, RecvInv
    PROVE  FetchPaired'
  <1> SUFFICES ASSUME Fetching' PROVE FetchPaired'
    BY DEF FetchPaired
  <1>1. state' = "NETWORK_BEGIN_RECEIVE" /\ Lap'
    BY DEF Fetching
  <1>2. Lap
    <2>1. state' \notin {"INIT", "GPS_USART_ECHO_ON"}
      BY <1>1
    <2>2. QED
      BY <1>1, <2>1, StartsClean
  <1>3. CASE state = "NETWORK_BEGIN_RECEIVE"
    <2>1. Skip /\ ~Answered("AT+QIRD") /\ line \notin Chunks
      BY <1>1, <1>3, StaysAsking DEF ReadsOn
    <2>2. UNCHANGED chipIn /\ lines' = Rest /\ seen' \subseteq seen \cup {line} /\ line # NoLine
      BY <2>1 DEF Skip
    <2>3. /\ Asked \cap OkAsk \subseteq ReadAsk /\ Asked' = Asked
          /\ FoundNothing /\ inbox > 0 => Announced
      BY <1>2, <1>3, <2>2 DEF RecvInv, FetchPaired, Fetching, Asked
    <2>4. "AT+QIRD" \notin seen' \/ "OK" \notin seen'
      BY <2>1, <2>2 DEF Answered, Heard
    <2>5. ASSUME FoundNothing', inbox' > 0 PROVE Announced'
      <3>1. "OK" \in Range(Rest) /\ Range(Rest) \cap Chunks = {}
        BY <2>2, <2>5 DEF FoundNothing
      <3>2. lines # << >>
        BY <2>2 DEF line
      <3>3. Range(lines) \subseteq {line} \cup Range(Rest) /\ Range(Rest) \subseteq Range(lines)
        BY <3>2, LineOrRest, LineIsRead
      <3>4. FoundNothing
        BY <2>1, <3>1, <3>3 DEF FoundNothing
      <3>5. QED
        BY <2>2, <2>3, <2>5, <3>1, <3>4, AnnouncedTurns
    <2>6. Asked' \cap OkAsk \subseteq ReadAsk
      BY <2>3
    <2>7. QED
      BY <2>4, <2>5, <2>6 DEF FetchPaired
  <1>4. CASE state \in NoOk
    <2>1. Fresh(OkAsk, OkAnswer)
      BY <1>2, <1>4 DEF PairInv, Paired, OkPaired
    <2>2. Asked' \subseteq Asked \cup ReadAsk /\ Told' \subseteq Told
      BY <1>1, TurnReads, ReadTexts
    <2>3. Asked' \cap OkAsk \subseteq ReadAsk
      BY <2>1, <2>2 DEF Fresh
    <2>4. "OK" \notin Told'
      BY <2>1, <2>2 DEF Fresh, OkAnswer
    <2>5. "OK" \notin seen' /\ ~FoundNothing'
      BY <2>4 DEF Told, FoundNothing
    <2>6. QED
      BY <2>3, <2>5 DEF FetchPaired
  <1>5. QED
    BY <1>1, <1>3, <1>4, FetchBegins DEF Waits

LEMMA TurnsKeepRecv ==
    ASSUME QueuesOK, Turn, Driver \/ TimerExpires, UNCHANGED inbox, rxOn \in BOOLEAN,
           newDataToReceive \in BOOLEAN, newDataToReceive' \in BOOLEAN, Drained, PairInv, RecvInv
    PROVE  RecvInv'
  <1>1. UNCHANGED link /\ InboxLinked'
    BY DEF Turn, RecvInv, InboxLinked
  <1>2. ASSUME rxOn', link' = "UP", inbox' > 0
        PROVE  newDataToReceive' \/ "+QIRDI" \in Range(lines')
    <2>1. rxOn
      <3>1. CASE UNCHANGED rxOn
        BY <1>2, <3>1
      <3>2. CASE TurnsOff \/ StartsAgain
        BY <1>2, <3>2 DEF TurnsOff, StartsAgain
      <3>3. CASE Moves({"RESET_STAGE_POWER_ON"}, {"INIT"})
        <4>1. link = "DOWN"
          BY <3>3 DEF Moves, PairInv, Restarting
        <4>2. QED
          BY <1>1, <1>2, <4>1
      <3>4. QED
        BY <3>1, <3>2, <3>3, HearingSteps
    <2>2. inbox > 0 /\ (newDataToReceive \/ "+QIRDI" \in Range(lines))
      BY <1>1, <1>2, <2>1 DEF RecvInv, NoLostWakeup
    <2>3. CASE QirdiRule /\ lines' = Rest
      <3>1. CASE newDataToReceive \/ line = "+QIRDI"
        BY <2>3, <3>1 DEF QirdiRule
      <3>2. CASE ~newDataToReceive /\ line # "+QIRDI"
        <4>1. "+QIRDI" \in Range(lines)
          BY <2>2, <3>2
        <4>2. lines # << >>
          BY <4>1, ShortRanges
        <4>3. QED
          BY <2>3, <3>2, <4>1, <4>2, LineOrRest
      <3>3. QED
        BY <3>1, <3>2
    <2>4. CASE UNCHANGED <<lines, newDataToReceive>>
      BY <2>2, <2>4
    <2>5. CASE ClearsFlag
      <3>1. Lap
        BY <2>1, <2>5 DEF ClearsFlag, Lap, Hearing, ShutDownStates
      <3>2. QED
        BY <2>2, <2>5, <3>1, ClearedInTime DEF ClearsFlag
    <2>6. QED
      BY <2>3, <2>4, <2>5, DriverFlag, TimerFlag DEF FlagMove
  <1>3. NoLostWakeup'
    BY <1>2 DEF NoLostWakeup
  <1>4. QED
    BY <1>1, <1>3, TurnsKeepFetch DEF RecvInv

(* Nothing is said, or a line that is no answer. *)
LEMMA RecvKept ==
    ASSUME QueuesOK, UNCHANGED <<state, seen, rxOn, chipIn, link, inbox, newDataToReceive>>,
           UNCHANGED lines \/ (lines' = Queued(lines, <<"_OFF">>) /\ HasRoom'), RecvInv
    PROVE  RecvInv'
  <1>1. InboxLinked' /\ Asked' = Asked /\ (Fetching' => Fetching)
    BY DEF RecvInv, InboxLinked, Asked, Fetching, Lap, Hearing
  <1>2. CASE UNCHANGED lines
    <2>1. (FoundNothing' <=> FoundNothing) /\ (Announced' <=> Announced)
      BY <1>2 DEF FoundNothing, Announced
    <2>2. NoLostWakeup'
      BY <1>2 DEF RecvInv, NoLostWakeup
    <2>3. FetchPaired'
      BY <1>1, <2>1 DEF RecvInv, FetchPaired
    <2>4. QED
      BY <1>1, <2>2, <2>3 DEF RecvInv
  <1>3. CASE lines' = Queued(lines, <<"_OFF">>) /\ HasRoom'
    <2> DEFINE off == <<"_OFF">>
    <2>1. "_OFF" \in Lines
      BY DEF Lines, LinkLines
    <2>2. off \in Seq(Lines) /\ Len(off) = 1 /\ off[1] = "_OFF" /\ Range(off) = {"_OFF"}
      BY <2>1, ShortRanges
    <2>3. lines' = Queued(lines, off)
      BY <1>3
    <2> HIDE DEF off
    <2>4. /\ Len(lines) \in Nat /\ Len(lines') = Len(lines) + 1
          /\ \A i \in 1..Len(lines) : i \in 1..Len(lines') /\ lines'[i] = lines[i]
          /\ lines'[Len(lines) + 1] = "_OFF"
          /\ Range(lines') = Range(lines) \cup {"_OFF"}
      <3>1. 1 \in 1..Len(off)
        BY <2>2
      <3>2. QED
        BY <1>3, <2>2, <2>3, <3>1, AllFit
    <2>5. NoLostWakeup'
      BY <2>4 DEF RecvInv, NoLostWakeup
    <2>6. FoundNothing' => FoundNothing
      BY <2>4 DEF FoundNothing
    <2>7. ASSUME Announced PROVE Announced'
      <3>1. PICK i \in 1..Len(lines) :
               lines[i] = "+QIRDI" /\ \A j \in 1..Len(lines) : i < j => lines[j] # "OK"
        BY <2>7 DEF Announced
      <3>2. ASSUME NEW j \in 1..Len(lines'), i < j PROVE lines'[j] # "OK"
        <4>1. j \in 1..Len(lines) \/ j = Len(lines) + 1
          BY <2>4
        <4>2. QED
          BY <2>4, <3>1, <3>2, <4>1
      <3>3. QED
        BY <2>4, <3>1, <3>2 DEF Announced
    <2>8. FetchPaired'
      BY <1>1, <2>6, <2>7 DEF RecvInv, FetchPaired
    <2>9. QED
      BY <1>1, <2>5, <2>8 DEF RecvInv
  <1>4. QED
    BY <1>2, <1>3

LEMMA AppKeepsRecv == ASSUME QueuesOK, App, HasRoom', RecvInv PROVE RecvInv'
  <1>1. CASE Connect \/ Disconnect \/ AddSms \/ AppSend \/ PowerOff
    <2>1. UNCHANGED <<state, seen, rxOn, chipIn, link, inbox, newDataToReceive>>
      BY <1>1 DEF Connect, Disconnect, AddSms, AppSend, PowerOff, AppFrame, machineVars, chipVars,
         linkVars, pinVars
    <2>2. UNCHANGED lines \/ lines' = Queued(lines, <<"_OFF">>)
      BY <1>1 DEF Connect, Disconnect, AddSms, AppSend, PowerOff, chipVars
    <2>3. QED
      BY <2>1, <2>2, RecvKept
  <1>2. CASE PowerOn
    <2>1. ~rxOn' /\ UNCHANGED <<link, inbox>>
      BY <1>2 DEF PowerOn, UsartAction, linkVars
    <2>2. QED
      BY <2>1 DEF RecvInv, InboxLinked, FetchPaired, Fetching, Lap, Hearing, NoLostWakeup
  <1>3. QED
    BY <1>1, <1>2 DEF App

LEMMA InitRecv == Init => RecvInv
  BY DEF Init, ChipInit, RecvInv, InboxLinked, FetchPaired, Fetching, Lap, Hearing, NoLostWakeup

LEMMA NextKeepsRecv ==
    TypeInv /\ PairInv /\ RecvInv /\ HasRoom' /\ [Next]_vars /\ [Drained]_vars => RecvInv'
  <1> SUFFICES ASSUME TypeInv, PairInv, RecvInv, HasRoom', [Next]_vars, [Drained]_vars PROVE RecvInv'
    OBVIOUS
  <1>1. /\ FlagsOK /\ QueuesOK /\ rxOn \in BOOLEAN /\ smsRemoved \in Nat /\ smsCollection \in Nat
        /\ link \in Links /\ inbox \in Nat /\ newDataToReceive \in BOOLEAN
    <2>1. TypeOK /\ FlagsOK
      BY TypeParts DEF TypeInv
    <2>2. MAX_INBOX \in Nat /\ inbox \in 0..MAX_INBOX
      BY <2>1, ChipAssumption DEF FlagsOK, ChipFlagsOK
    <2>3. QED
      BY <2>1, <2>2, TypedQueues DEF FlagsOK, FlagTypeOK
  <1>2. CASE UNCHANGED vars
    <2>1. UNCHANGED <<state, seen, rxOn, chipIn, link, inbox, newDataToReceive, lines>>
      BY <1>2 DEF vars, modemVars, machineVars, chipVars, linkVars, pinVars
    <2>2. QED
      BY <1>1, <2>1, RecvKept
  <1>3. CASE Driver \/ TimerExpires
    <2>1. Turn
      BY <1>1, <1>3, DriverTurns
    <2>2. Drained
      <3>1. UNCHANGED vars => ~(state = "RESET_STAGE_POWER_ON" /\ state' = "INIT")
        BY DEF vars, modemVars, machineVars
      <3>2. QED
        BY <3>1 DEF Drained
    <2>3. UNCHANGED inbox /\ newDataToReceive' \in BOOLEAN
      <3>1. DriverFlags
        BY <1>1, <1>3, DriverMovesFlags, TimerMovesFlags
      <3>2. QED
        BY <3>1 DEF DriverFlags, ChipOwn, linkVars
    <2>4. QED
      BY <1>1, <1>3, <2>1, <2>2, <2>3, TurnsKeepRecv
  <1>4. CASE App
    BY <1>1, <1>4, AppKeepsRecv
  <1>5. CASE Serves \/ Reports \/ Delivers \/ Acks \/ Fails
    <2>1. Environment /\ UNCHANGED modemVars
      BY <1>5 DEF Serves, Reports, Delivers, Acks, Fails, Environment
    <2>2. QED
      BY <1>1, <2>1, EnvironmentKeepsRecv
  <1>6. QED
    BY <1>2, <1>3, <1>4, <1>5 DEF Next

(* Data the chip holds are known to the driver or announced to it, as long as *)
(* the event queue has room for the announcement: newDataToReceive is cleared *)
(* only when an AT+QIRD has found nothing, and what came since is announced   *)
(* behind its answer.                                                        *)
THEOREM NoWakeupLost == Spec /\ QueueDrained /\ []HasRoom => []NoLostWakeup
  <1>1. TypeInv /\ PairInv /\ RecvInv /\ HasRoom' /\ [Next]_vars /\ [Drained]_vars => RecvInv'
    BY NextKeepsRecv
  <1>2. RecvInv => NoLostWakeup
    BY DEF RecvInv
  <1>3. QED
    BY <1>1, <1>2, InitRecv, TypesInductive, PairsInductive, PTL DEF Spec, QueueDrained
=============================================================================
