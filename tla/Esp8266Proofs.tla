--------------------------- MODULE Esp8266Proofs ---------------------------
(***************************************************************************)
(* Theorems about the ESP8266 driver, for every value of its constants:    *)
(* the types, what becomes of a batch, the order of delivery, and the data *)
(* stream it implements while nothing is lost.                             *)
(***************************************************************************)
EXTENDS Esp8266, AtDriverProofs

(* A state is entered with its SendNetworkAction: a move of the buffer, if a  *)
(* batch is measured with data only and goes on to the states of a batch only *)
(* from there.                                                               *)
LEMMA EnterMoves ==
    ASSUME NEW next, NEW rest, Enter(next, rest),
           next = "NETWORK_PREPARE_SEND" => dataToSendBuffer # << >>,
           next \in BatchStates \ {"NETWORK_PREPARE_SEND"} => state \in BatchStates
    PROVE  BufferMove
  <1>1. state' = next /\ EntryBuffer(next)
    BY DEF Enter, Goto
  <1>2. CASE next = "NETWORK_PREPARE_SEND"
    BY <1>1, <1>2 DEF EntryBuffer, BufferMove
  <1>3. CASE next = "NETWORK_DECLARE_READ"
    BY <1>1, <1>3 DEF EntryBuffer, BufferMove, BatchStates
  <1>4. CASE next \notin {"NETWORK_PREPARE_SEND", "NETWORK_DECLARE_READ"}
    BY <1>1, <1>4 DEF EntryBuffer, BufferMove
  <1>5. QED
    BY <1>2, <1>3, <1>4

(* No line leads to a state of a batch. *)
LEMMA SendTargets ==
    ASSUME NEW i \in DOMAIN SendRules PROVE SendRules[i].next \notin BatchStates
  <1>1. i = 1 \/ i = 2 \/ i = 3 \/ i = 4 \/ i = 5
    BY DEF SendRules
  <1>2. /\ SendRules[1].next = "NETWORK_DECLARE_READ"
        /\ SendRules[2].next = "CONNECT_TO_SERVER" /\ SendRules[3].next = "CONNECT_TO_SERVER"
        /\ SendRules[4].next = "CONNECT_TO_SERVER" /\ SendRules[5].next = "CONNECT_TO_SERVER"
    BY WhenNext DEF SendRules
  <1>3. QED
    BY <1>1, <1>2 DEF BatchStates

LEMMA RuleTargets ==
    ASSUME NEW s \in DOMAIN Rules, NEW i \in DOMAIN Rules[s]
    PROVE  Rules[s][i].next \notin BatchStates
  <1> USE WhenNext DEF BatchStates
  <1>1. CASE s = "INIT"
    BY <1>1 DEF Rules
  <1>2. CASE s = "SET_OPERATING_MODE"
    BY <1>2 DEF Rules
  <1>3. CASE s = "RESET_BOARD"
    BY <1>3 DEF Rules
  <1>4. CASE s = "CHECK_MY_IP"
    BY <1>4 DEF Rules
  <1>5. CASE s = "LIST_ACCESS_POINTS"
    BY <1>5 DEF Rules
  <1>6. CASE s = "CONNECT_TO_ACCESS_POINT"
    BY <1>6 DEF Rules
  <1>7. CASE s = "SET_MULTI_CONNECTION_MODE"
    BY <1>7 DEF Rules
  <1>8. CASE s = "CONNECT_TO_SERVER"
    <2>1. i = 1 \/ i = 2
      BY <1>8 DEF Rules
    <2>2. Rules["CONNECT_TO_SERVER"][1].next = "NETWORK_ECHO_OFF"
      BY DEF Rules
    <2>3. Rules["CONNECT_TO_SERVER"][2].next = "NETWORK_ECHO_OFF"
      BY DEF Rules
    <2>4. QED
      BY <1>8, <2>1, <2>2, <2>3
  <1>9. CASE s = "CANCEL_SEND"
    BY <1>9 DEF Rules
  <1>10. CASE s = "NETWORK_SEND"
    BY <1>10, SendTargets DEF Rules
  <1>11. QED
    BY <1>1, <1>2, <1>3, <1>4, <1>5, <1>6, <1>7, <1>8, <1>9, <1>10 DEF Rules

(* Every step of the specification is a move of the buffer. *)
LEMMA NextMoves == [Next]_vars => BufferMove
  <1> SUFFICES ASSUME [Next]_vars PROVE BufferMove
    OBVIOUS
  <1>1. CASE Read
    <2>1. CASE Skip
      BY <2>1, SkipMoves
    <2>2. CASE \E i \in DOMAIN Rules[state] : Enter(Rules[state][i].next, Rest)
      <3>1. PICK i \in DOMAIN Rules[state] : Enter(Rules[state][i].next, Rest)
        BY <2>2
      <3>2. Rules[state][i].next \notin BatchStates
        BY <1>1, <3>1, RuleTargets DEF Read
      <3>3. QED
        BY <3>1, <3>2, EnterMoves DEF BatchStates
    <2>3. QED
      BY <1>1, <2>1, <2>2 DEF Read
  <1>2. CASE Hope
    <2>1. CASE state = "NETWORK_PREPARE_SEND"
      <3>1. \/ Enter("NETWORK_SEND", Behind("OK"))
            \/ Enter("CONNECT_TO_SERVER", Rest)
        BY <1>2, <2>1 DEF Hope, Hopes
      <3>2. QED
        BY <2>1, <3>1, EnterMoves DEF BatchStates
    <2>2. CASE state \in DOMAIN Hopes \ {"NETWORK_PREPARE_SEND"}
      <3>1. Hopes[state].next \notin BatchStates /\ Hopes[state].otherwise \notin BatchStates
        BY <2>2 DEF Hopes, BatchStates
      <3>2. \/ Enter(Hopes[state].next, Behind(Hopes[state].line))
            \/ Enter(Hopes[state].otherwise, Rest)
        BY <1>2 DEF Hope
      <3>3. QED
        BY <3>1, <3>2, EnterMoves DEF BatchStates
    <2>3. QED
      BY <1>2, <2>1, <2>2 DEF Hope
  <1>3. CASE EchoOff \/ EchoOn \/ DeclaredRead
    BY <1>3, EnterMoves DEF EchoOff, EchoOn, DeclaredRead, GoOn, BatchStates
  <1>4. CASE BeginSend
    BY <1>4, EnterMoves DEF BeginSend, GoOn, BatchStates
  <1>5. CASE TimerExpires
    <2>1. Enter("CANCEL_SEND", << >>) \/ Enter("INIT", << >>)
      BY <1>5 DEF TimerExpires
    <2>2. QED
      BY <2>1, EnterMoves DEF BatchStates
  <1>6. CASE Send
    BY <1>6 DEF Send, BufferMove
  <1>7. CASE Chip
    BY <1>7, FrameMoves DEF Chip, ChipIsBusy, ChipAnswers, ChipResets, ChipStartsJoining,
       ChipOpens, ChipMistakes, ChipPrompts, ChipTakesData, ChipSendOk, Serve, Takes
  <1>8. CASE ChipJoins \/ Arrives \/ Fails \/ Delivers
    BY <1>8, FrameMoves DEF ChipJoins, Arrives, LineArrives, Fails, WifiLost, ChipMissesCommand,
       ChipSendFails, LinkLost, Delivers, NetDelivers
  <1>9. CASE UNCHANGED vars
    BY <1>9, FrameMoves DEF vars
  <1>10. QED
    BY <1>1, <1>2, <1>3, <1>4, <1>5, <1>6, <1>7, <1>8, <1>9 DEF Next, Driver

-----------------------------------------------------------------------------
(* Types. *)

(* On entry a state transmits one command or none, a batch only if it has one. *)
LEMMA EntryTransmits ==
    ASSUME NEW s, s = "NETWORK_SEND" => state \in BatchStates
    PROVE  EntryCommands(s) = << >> \/ \E c : Transmits(c) /\ EntryCommands(s) = <<c>>
  <1>1. CASE s = "NETWORK_SEND"
    <2> DEFINE batch == [text |-> "data", data |-> BatchToSend]
    <2>1. EntryCommands(s) = <<batch>>
      BY <1>1 DEF EntryCommands
    <2>2. Transmits(batch)
      BY <1>1 DEF Transmits
    <2>3. QED
      BY <2>1, <2>2
  <1>2. CASE s # "NETWORK_SEND" /\ s \in DOMAIN EntryTexts
    <2> DEFINE command == Command(EntryTexts[s])
    <2>1. EntryCommands(s) = <<command>>
      BY <1>2 DEF EntryCommands
    <2>2. command.data = << >>
      BY DEF Command
    <2> HIDE DEF command
    <2>3. Transmits(command)
      BY <2>2 DEF Transmits
    <2>4. QED
      BY <2>1, <2>3
  <1>3. CASE s # "NETWORK_SEND" /\ s \notin DOMAIN EntryTexts
    BY <1>3 DEF EntryCommands
  <1>4. QED
    BY <1>1, <1>2, <1>3

(* A transition uses up lines and leaves the way of the units alone. *)
LEMMA EnterWires ==
    ASSUME WireInv, NEW next, NEW rest, Enter(next, rest),
           rest \in {Rest, << >>} \/ \E l : Waiting(l) /\ rest = Behind(l),
           next = "NETWORK_SEND" => state \in BatchStates,
           UNCHANGED faults \/ Fault
    PROVE  WireMove
  <1>1. /\ lines' = rest /\ chipIn' = Received(EntryCommands(next))
        /\ UNCHANGED <<arriving, linkVars, delivered>>
    BY DEF Enter, Goto
  <1>2. LineMove
    BY <1>1 DEF LineMove
  <1>3. CommandMove
    BY <1>1, EntryTransmits DEF CommandMove
  <1>4. PathMove
    BY <1>1 DEF PathMove, linkVars
  <1>5. FlagMove
    <2>1. UNCHANGED <<prompt, sendDue>>
      BY <1>1 DEF linkVars
    <2>2. QED
      BY <2>1, Zenon DEF FlagMove, WireInv, DriverTypeOK
  <1>6. QED
    BY <1>2, <1>3, <1>4, <1>5 DEF WireMove

(* The steps of the driver. *)
LEMMA DriverWires == WireInv /\ (Driver \/ TimerExpires) => WireMove
  <1> SUFFICES ASSUME WireInv, Driver \/ TimerExpires PROVE WireMove
    OBVIOUS
  <1>1. CASE Read
    <2>1. CASE Skip
      <3>1. lines' = Rest /\ UNCHANGED <<arriving, chipIn, linkVars, delivered, faults>>
        BY <2>1 DEF Skip
      <3>2. QED
        BY <3>1, Zenon DEF WireMove, LineMove, CommandMove, PathMove, FlagMove, linkVars,
           WireInv, DriverTypeOK
    <2>2. CASE \E i \in DOMAIN Rules[state] : Enter(Rules[state][i].next, Rest) /\ UNCHANGED faults
      <3>1. PICK i \in DOMAIN Rules[state] : Enter(Rules[state][i].next, Rest) /\ UNCHANGED faults
        BY <2>2
      <3>2. Rules[state][i].next \notin BatchStates
        BY <1>1, <3>1, RuleTargets DEF Read
      <3>3. QED
        BY <3>1, <3>2, EnterWires DEF BatchStates
    <2>3. QED
      BY <1>1, <2>1, <2>2 DEF Read
  <1>2. CASE Hope
    <2>1. UNCHANGED faults \/ Fault
      BY <1>2 DEF Hope, GoesOn
    <2>2. CASE state = "NETWORK_PREPARE_SEND"
      <3>1. \/ Waiting("OK") /\ Enter("NETWORK_SEND", Behind("OK"))
            \/ Enter("CONNECT_TO_SERVER", Rest)
        BY <1>2, <2>2 DEF Hope, Hopes
      <3>2. QED
        BY <2>1, <2>2, <3>1, EnterWires DEF BatchStates
    <2>3. CASE state \in DOMAIN Hopes \ {"NETWORK_PREPARE_SEND"}
      <3>1. Hopes[state].next # "NETWORK_SEND" /\ Hopes[state].otherwise # "NETWORK_SEND"
        BY <2>3 DEF Hopes
      <3>2. \/ /\ Waiting(Hopes[state].line)
               /\ Enter(Hopes[state].next, Behind(Hopes[state].line))
            \/ Enter(Hopes[state].otherwise, Rest)
        BY <1>2 DEF Hope
      <3>3. QED
        BY <2>1, <3>1, <3>2, EnterWires
    <2>4. QED
      BY <1>2, <2>2, <2>3 DEF Hope
  <1>3. CASE EchoOff \/ EchoOn \/ DeclaredRead
    BY <1>3, EnterWires DEF EchoOff, EchoOn, DeclaredRead, GoOn
  <1>4. CASE BeginSend
    BY <1>4, EnterWires DEF BeginSend, GoOn
  <1>5. CASE TimerExpires
    <2>1. Enter("CANCEL_SEND", << >>) \/ Enter("INIT", << >>)
      BY <1>5 DEF TimerExpires
    <2>2. UNCHANGED faults \/ Fault
      BY <1>5 DEF TimerExpires
    <2>3. QED
      BY <2>1, <2>2, EnterWires
  <1>6. QED
    BY <1>1, <1>2, <1>3, <1>4, <1>5 DEF Driver

(* The echo of the command comes before the answer, or not. *)
LEMMA EchoedIsSeq == ASSUME NEW answers, IsSeq(answers) PROVE IsSeq(Echoed(answers))
  <1>1. CASE echo
    BY <1>1, AnswerIsSeq DEF Echoed
  <1>2. CASE ~echo
    <2>1. PICK S : answers \in Seq(S)
      BY DEF IsSeq
    <2>2. << >> \o answers = answers
      BY <2>1, ConcatEmptySeq
    <2>3. QED
      BY <1>2, <2>2 DEF Echoed
  <1>3. QED
    BY <1>1, <1>2

LEMMA AnswersAreSeqs == \A text : \A a \in Answers(text) : IsSeq(a)
  BY ShortIsSeq DEF Answers

(* The steps of the chip that only this one takes. *)
LEMMA ChipWires == WireInv /\ (Chip \/ ChipJoins \/ WifiLost) => WireMove
  <1> SUFFICES ASSUME WireInv, Chip \/ ChipJoins \/ WifiLost PROVE WireMove
    OBVIOUS
  <1>1. CASE ChipIsBusy
    <2>1. LineMove
      BY <1>1, SaysLines, EchoedIsSeq, ShortIsSeq DEF ChipIsBusy
    <2>2. CommandMove /\ PathMove
      BY <1>1, TakesCommands, PathRests DEF ChipIsBusy, Serve, Takes, linkVars
    <2>3. FlagMove
      BY <1>1, FlagsRest, Zenon DEF ChipIsBusy, linkVars
    <2>4. QED
      BY <2>1, <2>2, <2>3 DEF WireMove
  <1>2. CASE ChipAnswers
    <2>1. LineMove
      BY <1>2, SaysLines, EchoedIsSeq, AnswersAreSeqs, ShortIsSeq DEF ChipAnswers
    <2>2. CommandMove /\ PathMove
      BY <1>2, TakesCommands, PathRests DEF ChipAnswers, Serve, Takes, linkVars
    <2>3. FlagMove
      BY <1>2, FlagsRest, Zenon DEF ChipAnswers, linkVars
    <2>4. QED
      BY <2>1, <2>2, <2>3 DEF WireMove
  <1>3. CASE ChipResets \/ ChipStartsJoining
    <2>1. LineMove
      BY <1>3, SaysLines, EchoedIsSeq, ShortIsSeq DEF ChipResets, ChipStartsJoining
    <2>2. CommandMove /\ PathMove
      BY <1>3, TakesCommands, PathRests DEF ChipResets, ChipStartsJoining, Serve, Takes, Hangup
    <2>3. FlagMove
      BY <1>3, FlagsRest, Zenon DEF ChipResets, ChipStartsJoining, Hangup
    <2>4. QED
      BY <2>1, <2>2, <2>3 DEF WireMove
  <1>4. CASE ChipOpens
    <2>1. LineMove
      BY <1>4, SaysLines, EchoedIsSeq, ShortIsSeq DEF ChipOpens
    <2>2. CommandMove /\ PathMove
      BY <1>4, TakesCommands, PathRests DEF ChipOpens, Serve, Takes
    <2>3. FlagMove
      BY <1>4, FlagsRest, Zenon DEF ChipOpens
    <2>4. QED
      BY <2>1, <2>2, <2>3 DEF WireMove
  <1>5. CASE ChipMistakes
    <2>1. LineMove /\ CommandMove /\ PathMove
      BY <1>5, SaysLines, TakesCommands, PathRests DEF ChipMistakes
    <2>2. FlagMove
      BY <1>5, FlagsRest, Zenon DEF ChipMistakes
    <2>3. QED
      BY <2>1, <2>2 DEF WireMove
  <1>6. CASE ChipPrompts("AT+CIPSEND", Echoed(<<"OK">>), Echoed(<<"ERROR">>))
    BY <1>6, PromptWires, EchoedIsSeq, ShortIsSeq
  <1>7. CASE ChipTakesData \/ ChipSendOk
    BY <1>7, SharedWires
  <1>8. CASE ChipJoins \/ WifiLost
    <2>1. LineMove
      BY <1>8, SaysLines, ShortIsSeq DEF ChipJoins, WifiLost
    <2>2. CommandMove /\ PathMove
      BY <1>8, TakesCommands, PathRests DEF ChipJoins, WifiLost, Hangup, linkVars
    <2>3. FlagMove
      BY <1>8, FlagsRest, Zenon DEF ChipJoins, WifiLost, Hangup, linkVars
    <2>4. QED
      BY <2>1, <2>2, <2>3 DEF WireMove
  <1>9. QED
    BY <1>1, <1>2, <1>3, <1>4, <1>5, <1>6, <1>7, <1>8 DEF Chip

LEMMA NextWires == WireInv /\ [Next]_vars => WireMove
  <1> SUFFICES ASSUME WireInv, [Next]_vars PROVE WireMove
    OBVIOUS
  <1>1. CASE Driver \/ TimerExpires
    BY <1>1, DriverWires
  <1>2. CASE Chip \/ ChipJoins \/ WifiLost
    BY <1>2, ChipWires
  <1>3. CASE Fails
    BY <1>2, <1>3, SharedWires DEF Fails
  <1>4. CASE Send \/ Delivers \/ Arrives
    BY <1>4, SharedWires, RestWires DEF Send, Delivers, Arrives
  <1>5. CASE UNCHANGED vars
    BY <1>5, RestWires DEF vars, lineVars
  <1>6. QED
    BY <1>1, <1>2, <1>3, <1>4, <1>5 DEF Next

(* The mode, the access point, the connection and the echo. *)
OwnTypes ==
    /\ mode \in 1..2
    /\ wifi \in {"not joined", "joining", "joined"} /\ echo \in BOOLEAN /\ link \in {"DOWN", "UP"}

EspInv == DriverInv /\ OwnTypes

LEMMA OwnStays == OwnTypes /\ [Next]_vars => OwnTypes'
  <1> SUFFICES ASSUME OwnTypes, [Next]_vars PROVE OwnTypes'
    OBVIOUS
  <1>1. CASE UNCHANGED <<link, mode, wifi, echo>>
    BY <1>1, Zenon DEF OwnTypes
  <1>2. CASE Driver \/ TimerExpires
    BY <1>1, <1>2 DEF Driver, Read, Skip, Hope, EchoOff, EchoOn, DeclaredRead, BeginSend, GoOn,
       TimerExpires, Enter, Goto, linkVars
  <1>3. CASE ChipIsBusy \/ ChipMistakes
    BY <1>1, <1>3 DEF ChipIsBusy, ChipMistakes, linkVars
  <1>4. CASE ChipAnswers
    <2>1. echo' \in {TRUE, FALSE, echo} /\ UNCHANGED <<link, wifi>>
      BY <1>4, Zenon DEF ChipAnswers, linkVars
    <2>2. mode' \in {1, mode}
      BY <1>4 DEF ChipAnswers
    <2>3. mode' \in 1..2
      <3>1. mode \in 1..2
        BY Zenon DEF OwnTypes
      <3>2. QED
        BY <2>2, <3>1
    <2>4. QED
      BY <2>1, <2>3, Zenon DEF OwnTypes
  <1>5. CASE ChipResets \/ ChipStartsJoining
    BY <1>5, Zenon DEF ChipResets, ChipStartsJoining, Hangup, OwnTypes
  <1>6. CASE ChipOpens \/ ChipJoins
    BY <1>6, Zenon DEF ChipOpens, ChipJoins, linkVars, OwnTypes
  <1>7. CASE /\ \/ ChipPrompts("AT+CIPSEND", Echoed(<<"OK">>), Echoed(<<"ERROR">>))
                \/ ChipTakesData \/ ChipSendOk
             /\ UNCHANGED <<mode, wifi, echo>>
    BY <1>1, <1>7 DEF ChipPrompts, ChipTakesData, ChipSendOk
  <1>8. CASE Fails
    BY <1>8, Zenon DEF Fails, WifiLost, ChipMissesCommand, ChipSendFails, LinkLost, Hangup,
       linkVars, OwnTypes
  <1>9. CASE Send \/ Delivers \/ Arrives \/ UNCHANGED vars
    BY <1>1, <1>9 DEF Send, Delivers, Arrives, AppSend, NetDelivers, LineArrives, vars, lineVars, linkVars
  <1>10. QED
    BY <1>2, <1>3, <1>4, <1>5, <1>6, <1>7, <1>8, <1>9 DEF Next, Chip

LEMMA EspMoves == EspInv /\ [Next]_vars => BufferMove /\ WireMove
  BY NextMoves, NextWires DEF EspInv, DriverInv

LEMMA EspInductive == Spec => []EspInv
  <1>1. Init => EspInv
    <2> SUFFICES ASSUME Init PROVE DriverInv /\ OwnTypes
      BY DEF EspInv
    <2>1. DriverInv
      BY InitDriver DEF Init, BatchStates
    <2>2. OwnTypes
      BY Zenon DEF Init, DriverInit, OwnTypes
    <2>3. QED
      BY <2>1, <2>2
  <1>2. EspInv /\ [Next]_vars => EspInv'
    BY EspMoves, OwnStays, MoveKeepsDriver DEF EspInv
  <1>3. QED
    BY <1>1, <1>2, PTL DEF Spec

-----------------------------------------------------------------------------
(* The theorems. *)

(* No reset, lost connection or fault makes the driver give up data: every    *)
(* unit accepted has been dropped as sent, in its turn, or waits in its place. *)
THEOREM EspGivesNothingUp == Spec => []NothingGivenUp
  <1>1. EspInv => NothingGivenUp
    BY DEF EspInv, DriverInv, DataInv, BufferInv
  <1>2. QED
    BY <1>1, EspInductive, PTL

(* From its measuring to its transmission a batch is not empty and lies       *)
(* within the buffer.                                                        *)
THEOREM EspBatchInBuffer == Spec => []BatchInBuffer
  <1>1. EspInv => BatchInBuffer
    BY DEF EspInv, DriverInv, DataInv
  <1>2. QED
    BY <1>1, EspInductive, PTL

(* Every variable of the driver and of its chip has its type and stays within *)
(* its bound: the queue of events, the send buffer, the batch and the         *)
(* commands that wait for the chip.                                          *)
THEOREM EspTypesHold == Spec => []TypeOK
  <1>1. EspInv => TypeOK
    BY DEF EspInv, DriverInv, WireInv, OwnTypes, TypeOK
  <1>2. QED
    BY <1>1, EspInductive, PTL

(* However often a batch is resent, missed by the chip, taken for a command   *)
(* or lost with the connection: no unit overtakes another one, and none is    *)
(* left out but those dropped as sent.                                       *)
THEOREM EspNothingOvertakes == Spec => []NothingOvertakes
  <1>1. EspInv => NothingOvertakes
    BY DriverOrder DEF EspInv
  <1>2. QED
    BY <1>1, EspInductive, PTL

(* As long as no stale answer makes the driver drop what the peer does not    *)
(* have, driver and chip implement the promise of the interface.              *)
THEOREM EspImplementsStream == Spec /\ []NoLoss => ImplementsStream
  <1>1. Init => Stream!Init
    <2> SUFFICES ASSUME Init PROVE Stream!Init
      OBVIOUS
    <2>1. /\ accepted = 0 /\ declared = {} /\ delivered = {} /\ dataToSendBuffer = << >>
          /\ Len(<< >>) = 0
      BY EmptySeq DEF Init, DriverInit
    <2>2. QED
      BY <2>1 DEF Stream!Init
  <1>2. EspInv /\ NoLoss /\ NoLoss' /\ [Next]_vars => [Stream!Next]_(Stream!vars)
    <2> SUFFICES ASSUME EspInv, NoLoss, NoLoss', [Next]_vars PROVE [Stream!Next]_(Stream!vars)
      OBVIOUS
    <2>1. StreamMove
      BY EspMoves, MoveIsStreamMove DEF EspInv
    <2>2. QED
      BY <2>1 DEF StreamMove, FirstWaiting, Stream!Next, Stream!vars, Stream!Accept, Stream!Deliver,
         Stream!GivenUp, Stream!Report
  <1>3. QED
    BY <1>1, <1>2, EspInductive, PTL DEF Spec, Stream!Spec, ImplementsStream
=============================================================================
