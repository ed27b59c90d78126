----------------------------- MODULE Bg96Proofs -----------------------------
(***************************************************************************)
(* Theorems about the BG96 driver, for every value of its constants: the   *)
(* types, what becomes of a batch, the order of delivery, the data stream  *)
(* it implements while nothing is lost, and what onData () is given.  The  *)
(* batch stays within the buffer because the data stages are entered in    *)
(* their order only: "Leads" says so of one transition.                    *)
(***************************************************************************)
EXTENDS Bg96Modem, AtDriverProofs

Queries == "NETWORK_QUERY_MODEM_OUTPUT_BUFFER_MAX_LEN"

Leads(s, next) ==
    /\ next # Queries
    /\ next = "NETWORK_PREPARE_SEND" => s = Queries
    /\ next \in BatchStates \ {"NETWORK_PREPARE_SEND"} => s \in BatchStates
    /\ next = "NETWORK_RECEIVE" => s = "NETWORK_BEGIN_RECEIVE"

(* The query for room comes between the check for data and the batch.         *)
DataAhead == state = Queries => dataToSendBuffer # << >>

-----------------------------------------------------------------------------
(* Where the rules lead. *)

LEMMA ReceiveTargets ==
    ASSUME NEW i \in DOMAIN ReceiveRules
    PROVE  Leads("NETWORK_BEGIN_RECEIVE", ReceiveRules[i].next)
  <1>1. i = 1 \/ i = 2 \/ i = 3
    BY DEF ReceiveRules
  <1>2. ReceiveRules[1].next = "NETWORK_RECEIVE" /\ ReceiveRules[2].next = "NETWORK_BEGIN_SEND"
        /\ ReceiveRules[3].next = "CLOSE_AND_RECONNECT"
    BY WhenNext DEF ReceiveRules, error
  <1>3. QED
    BY <1>1, <1>2 DEF Leads, Queries, BatchStates

(* Nothing in the configuration leads to a batch. *)
LEMMA BootTargets ==
    ASSUME NEW s \in DOMAIN BootRules, NEW i \in DOMAIN BootRules[s]
    PROVE  Leads(s, BootRules[s][i].next)
  <1> USE WhenNext DEF disconnected, error
  <1>1. CASE s = "GPRS_RESET"
    <2>1. i = 1 \/ i = 2
      BY <1>1 DEF BootRules
    <2>2. BootRules["GPRS_RESET"][1].next = "GPS_USART_ECHO_ON"
      BY DEF BootRules
    <2>3. BootRules["GPRS_RESET"][2].next = "RESET_STAGE_DECIDE"
      BY DEF BootRules
    <2>4. QED
      BY <1>1, <2>1, <2>2, <2>3 DEF Leads, Queries, BatchStates
  <1>2. CASE s = "GPS_USART_ECHO_ON"
    BY <1>2 DEF BootRules, Leads, Queries, BatchStates
  <1>3. CASE s = "INIT"
    BY <1>3 DEF BootRules, Leads, Queries, BatchStates
  <1>4. CASE s = "GNSS_SET_PORT"
    BY <1>4 DEF BootRules, Leads, Queries, BatchStates
  <1>5. CASE s = "GNSS_STATE_CHECK"
    <2>1. i = 1 \/ i = 2
      BY <1>5 DEF BootRules
    <2>2. BootRules["GNSS_STATE_CHECK"][1].next = "GNSS_TURN_ON"
      BY DEF BootRules
    <2>3. BootRules["GNSS_STATE_CHECK"][2].next = "PIN_STATUS_CHECK"
      BY DEF BootRules
    <2>4. QED
      BY <1>5, <2>1, <2>2, <2>3 DEF Leads, Queries, BatchStates
  <1>6. CASE s = "GNSS_TURN_ON"
    <2>1. i = 1 \/ i = 2
      BY <1>6 DEF BootRules
    <2>2. BootRules["GNSS_TURN_ON"][1].next = "GNSS_STATE_CHECK"
      BY DEF BootRules
    <2>3. BootRules["GNSS_TURN_ON"][2].next = "PIN_STATUS_CHECK"
      BY DEF BootRules
    <2>4. QED
      BY <1>6, <2>1, <2>2, <2>3 DEF Leads, Queries, BatchStates
  <1>7. CASE s = "PIN_STATUS_CHECK"
    <2>1. i = 1 \/ i = 2 \/ i = 3
      BY <1>7 DEF BootRules
    <2>2. BootRules["PIN_STATUS_CHECK"][1].next = "SIGNAL_QUALITY_CHECK"
      BY DEF BootRules
    <2>3. BootRules["PIN_STATUS_CHECK"][2].next = "PIN_STATUS_CHECK"
      BY DEF BootRules
    <2>4. BootRules["PIN_STATUS_CHECK"][3].next = "ENTER_PIN"
      BY DEF BootRules
    <2>5. QED
      BY <1>7, <2>1, <2>2, <2>3, <2>4 DEF Leads, Queries, BatchStates
  <1>8. CASE s = "ENTER_PIN"
    <2>1. i = 1 \/ i = 2
      BY <1>8 DEF BootRules
    <2>2. BootRules["ENTER_PIN"][1].next = "PIN_STATUS_CHECK"
      BY DEF BootRules
    <2>3. BootRules["ENTER_PIN"][2].next = "PIN_STATUS_CHECK"
      BY DEF BootRules
    <2>4. QED
      BY <1>8, <2>1, <2>2, <2>3 DEF Leads, Queries, BatchStates
  <1>9. CASE s = "SIGNAL_QUALITY_CHECK"
    <2>1. i = 1 \/ i = 2
      BY <1>9 DEF BootRules
    <2>2. BootRules["SIGNAL_QUALITY_CHECK"][1].next = "SIGNAL_QUALITY_CHECK"
      BY DEF BootRules
    <2>3. BootRules["SIGNAL_QUALITY_CHECK"][2].next = "NETWORK_REGISTRATION_CHECK"
      BY DEF BootRules
    <2>4. QED
      BY <1>9, <2>1, <2>2, <2>3 DEF Leads, Queries, BatchStates
  <1>10. CASE s = "NETWORK_REGISTRATION_CHECK"
    <2>1. i = 1 \/ i = 2 \/ i = 3
      BY <1>10 DEF BootRules
    <2>2. BootRules["NETWORK_REGISTRATION_CHECK"][1].next = "SIGNAL_QUALITY_CHECK"
      BY DEF BootRules
    <2>3. BootRules["NETWORK_REGISTRATION_CHECK"][2].next = "INIT"
      BY DEF BootRules
    <2>4. BootRules["NETWORK_REGISTRATION_CHECK"][3].next = "APN_USER_PASSWD_INPUT"
      BY DEF BootRules
    <2>5. QED
      BY <1>10, <2>1, <2>2, <2>3, <2>4 DEF Leads, Queries, BatchStates
  <1>11. CASE s = "APN_USER_PASSWD_INPUT"
    <2>1. i = 1 \/ i = 2
      BY <1>11 DEF BootRules
    <2>2. BootRules["APN_USER_PASSWD_INPUT"][1].next = "GPRS_RESET"
      BY DEF BootRules
    <2>3. BootRules["APN_USER_PASSWD_INPUT"][2].next = "PDP_CONTEXT_CHECK"
      BY DEF BootRules
    <2>4. QED
      BY <1>11, <2>1, <2>2, <2>3 DEF Leads, Queries, BatchStates
  <1>12. CASE s = "PDP_CONTEXT_CHECK"
    <2>1. i = 1 \/ i = 2
      BY <1>12 DEF BootRules
    <2>2. BootRules["PDP_CONTEXT_CHECK"][1].next = "DNS_CONFIG"
      BY DEF BootRules
    <2>3. BootRules["PDP_CONTEXT_CHECK"][2].next = "ACTIVATE_PDP_CONTEXT"
      BY DEF BootRules, WhenInOrder
    <2>4. QED
      BY <1>12, <2>1, <2>2, <2>3 DEF Leads, Queries, BatchStates
  <1>13. CASE s = "ACTIVATE_PDP_CONTEXT"
    <2>1. i = 1
      BY <1>13 DEF BootRules
    <2>2. BootRules["ACTIVATE_PDP_CONTEXT"][1].next = "DNS_CONFIG"
      BY DEF BootRules, WhenInOrder
    <2>3. QED
      BY <1>13, <2>1, <2>2 DEF Leads, Queries, BatchStates
  <1>14. CASE s = "DNS_CONFIG"
    <2>1. i = 1 \/ i = 2
      BY <1>14 DEF BootRules
    <2>2. BootRules["DNS_CONFIG"][1].next = "INIT"
      BY DEF BootRules
    <2>3. BootRules["DNS_CONFIG"][2].next = "NETWORK_GPS_USART_ECHO_OFF"
      BY DEF BootRules
    <2>4. QED
      BY <1>14, <2>1, <2>2, <2>3 DEF Leads, Queries, BatchStates
  <1>15. CASE s = "NETWORK_GPS_USART_ECHO_OFF"
    BY <1>15 DEF BootRules, Leads, Queries, BatchStates
  <1>16. QED
    BY <1>1, <1>2, <1>3, <1>4, <1>5, <1>6, <1>7, <1>8, <1>9, <1>10, <1>11, <1>12, <1>13, <1>14, <1>15 DEF BootRules

(* The data stages follow each other. *)
LEMMA LinkTargets ==
    ASSUME NEW s \in DOMAIN LinkRules, NEW i \in DOMAIN LinkRules[s]
    PROVE  Leads(s, LinkRules[s][i].next)
  <1> USE WhenNext DEF disconnected, error
  <1>1. CASE s = "CLOSE_AND_RECONNECT"
    BY <1>1 DEF LinkRules, Leads, Queries, BatchStates
  <1>2. CASE s = "CONNECT_TO_SERVER"
    <2>1. i = 1 \/ i = 2 \/ i = 3
      BY <1>2 DEF LinkRules
    <2>2. LinkRules["CONNECT_TO_SERVER"][1].next = "NETWORK_BEGIN_RECEIVE"
      BY DEF LinkRules
    <2>3. LinkRules["CONNECT_TO_SERVER"][2].next = "CLOSE_AND_RECONNECT"
      BY DEF LinkRules
    <2>4. LinkRules["CONNECT_TO_SERVER"][3].next = "CLOSE_AND_RECONNECT"
      BY DEF LinkRules
    <2>5. QED
      BY <1>2, <2>1, <2>2, <2>3, <2>4 DEF Leads, Queries, BatchStates
  <1>3. CASE s = "NETWORK_BEGIN_RECEIVE"
    BY <1>3, ReceiveTargets DEF LinkRules
  <1>4. CASE s = "NETWORK_QUERY_MODEM_OUTPUT_BUFFER_MAX_LEN"
    <2>1. i = 1 \/ i = 2 \/ i = 3
      BY <1>4 DEF LinkRules
    <2>2. LinkRules["NETWORK_QUERY_MODEM_OUTPUT_BUFFER_MAX_LEN"][1].next = "CLOSE_AND_RECONNECT"
      BY DEF LinkRules
    <2>3. LinkRules["NETWORK_QUERY_MODEM_OUTPUT_BUFFER_MAX_LEN"][2].next = "CHECK_CONNECTION"
      BY DEF LinkRules
    <2>4. LinkRules["NETWORK_QUERY_MODEM_OUTPUT_BUFFER_MAX_LEN"][3].next = "NETWORK_PREPARE_SEND"
      BY DEF LinkRules
    <2>5. QED
      BY <1>4, <2>1, <2>2, <2>3, <2>4 DEF Leads, Queries, BatchStates
  <1>5. CASE s = "NETWORK_PREPARE_SEND"
    <2>1. i = 1 \/ i = 2 \/ i = 3
      BY <1>5 DEF LinkRules
    <2>2. LinkRules["NETWORK_PREPARE_SEND"][1].next = "CLOSE_AND_RECONNECT"
      BY DEF LinkRules
    <2>3. LinkRules["NETWORK_PREPARE_SEND"][2].next = "CLOSE_AND_RECONNECT"
      BY DEF LinkRules
    <2>4. LinkRules["NETWORK_PREPARE_SEND"][3].next = "NETWORK_SEND"
      BY DEF LinkRules
    <2>5. QED
      BY <1>5, <2>1, <2>2, <2>3, <2>4 DEF Leads, Queries, BatchStates
  <1>6. CASE s = "NETWORK_SEND"
    <2>1. i = 1 \/ i = 2 \/ i = 3 \/ i = 4 \/ i = 5 \/ i = 6
      BY <1>6 DEF LinkRules
    <2>2. LinkRules["NETWORK_SEND"][1].next = "CLOSE_AND_RECONNECT"
      BY DEF LinkRules
    <2>3. LinkRules["NETWORK_SEND"][2].next = "NETWORK_ACK_CHECK"
      BY DEF LinkRules
    <2>4. LinkRules["NETWORK_SEND"][3].next = "CLOSE_AND_RECONNECT"
      BY DEF LinkRules
    <2>5. LinkRules["NETWORK_SEND"][4].next = "CLOSE_AND_RECONNECT"
      BY DEF LinkRules
    <2>6. LinkRules["NETWORK_SEND"][5].next = "CLOSE_AND_RECONNECT"
      BY DEF LinkRules
    <2>7. LinkRules["NETWORK_SEND"][6].next = "CLOSE_AND_RECONNECT"
      BY DEF LinkRules
    <2>8. QED
      BY <1>6, <2>1, <2>2, <2>3, <2>4, <2>5, <2>6, <2>7 DEF Leads, Queries, BatchStates
  <1>7. CASE s = "NETWORK_ACK_CHECK"
    <2>1. i = 1 \/ i = 2
      BY <1>7 DEF LinkRules
    <2>2. LinkRules["NETWORK_ACK_CHECK"][1].next = "CLOSE_AND_RECONNECT"
      BY DEF LinkRules
    <2>3. LinkRules["NETWORK_ACK_CHECK"][2].next = "NETWORK_ACK_CHECK_PARSE"
      BY DEF LinkRules
    <2>4. QED
      BY <1>7, <2>1, <2>2, <2>3 DEF Leads, Queries, BatchStates
  <1>8. CASE s = "CANCEL_SEND"
    <2>1. i = 1 \/ i = 2 \/ i = 3
      BY <1>8 DEF LinkRules
    <2>2. LinkRules["CANCEL_SEND"][1].next = "CHECK_CONNECTION"
      BY DEF LinkRules
    <2>3. LinkRules["CANCEL_SEND"][2].next = "GPRS_RESET"
      BY DEF LinkRules
    <2>4. LinkRules["CANCEL_SEND"][3].next = "GPRS_RESET"
      BY DEF LinkRules
    <2>5. QED
      BY <1>8, <2>1, <2>2, <2>3, <2>4 DEF Leads, Queries, BatchStates
  <1>9. QED
    BY <1>1, <1>2, <1>3, <1>4, <1>5, <1>6, <1>7, <1>8 DEF LinkRules

LEMMA RuleTargets ==
    ASSUME NEW s \in AskingStates, NEW i \in DOMAIN Rules(s)
    PROVE  Leads(s, Rules(s)[i].next)
  <1>1. CASE s \in DOMAIN BootRules
    BY <1>1, BootTargets DEF Rules
  <1>2. CASE s \notin DOMAIN BootRules
    <2>1. s \in DOMAIN LinkRules /\ Rules(s) = LinkRules[s]
      BY <1>2 DEF AskingStates, Rules
    <2>2. QED
      BY <2>1, LinkTargets
  <1>3. QED
    BY <1>1, <1>2

-----------------------------------------------------------------------------
(* Steps of the driver. *)

(* A step moves the buffer as it may, and queries for room with data only.    *)
DataStep ==
    /\ BufferMove
    /\ state' = Queries =>
           \/ UNCHANGED <<state, dataToSendBuffer>>
           \/ AppSend
           \/ UNCHANGED dataToSendBuffer /\ dataToSendBuffer # << >>

LEMMA EnterMoves ==
    ASSUME DataAhead, NEW next, NEW rest, Enter(next, rest), Leads(state, next)
    PROVE  DataStep
  <1>1. state' = next /\ EntryBuffer(next)
    BY DEF Enter, Goto
  <1>2. next # Queries
    BY DEF Leads
  <1>3. CASE next = "NETWORK_PREPARE_SEND"
    <2>1. dataToSendBuffer # << >>
      BY <1>3 DEF Leads, DataAhead
    <2>2. QED
      BY <1>1, <1>2, <1>3, <2>1 DEF EntryBuffer, BufferMove, DataStep
  <1>4. CASE next = "NETWORK_DECLARE_READ"
    BY <1>1, <1>2, <1>4 DEF EntryBuffer, BufferMove, BatchStates, DataStep
  <1>5. CASE next \notin {"NETWORK_PREPARE_SEND", "NETWORK_DECLARE_READ"}
    BY <1>1, <1>2, <1>5 DEF EntryBuffer, BufferMove, Leads, DataStep
  <1>6. QED
    BY <1>3, <1>4, <1>5

(* The states outside the dialogue are no danger. *)
LEMMA EnterElsewhere ==
    ASSUME DataAhead, NEW next, NEW rest, Enter(next, rest), next \notin BatchStates \cup {Queries, "NETWORK_RECEIVE"}
    PROVE  DataStep
  <1>1. Leads(state, next)
    BY DEF Leads, BatchStates
  <1>2. QED
    BY <1>1, EnterMoves

LEMMA FrameSteps == UNCHANGED driverVars => DataStep
  BY FrameMoves DEF DataStep, driverVars, machineVars, bufferVars

LEMMA SkipSteps == Skip => DataStep
  BY SkipMoves DEF Skip, DataStep, bufferVars

(* Every step of the specification is such a step. *)
LEMMA NextSteps == DataAhead /\ [Next]_vars => DataStep
  <1> SUFFICES ASSUME DataAhead, [Next]_vars PROVE DataStep
    OBVIOUS
  <1>1. CASE Read
    <2>1. CASE Skip
      BY <2>1, SkipSteps
    <2>2. CASE \E i \in DOMAIN Rules(state) : Enter(Rules(state)[i].next, Rest)
      <3>1. PICK i \in DOMAIN Rules(state) : Enter(Rules(state)[i].next, Rest)
        BY <2>2
      <3>2. Leads(state, Rules(state)[i].next)
        BY <1>1, <3>1, RuleTargets DEF Read
      <3>3. QED
        BY <3>1, <3>2, EnterMoves
    <2>3. QED
      BY <1>1, <2>1, <2>2 DEF Read
  <1>2. CASE Decide \/ PowerOn \/ CheckConnection \/ Receive
    BY <1>2, EnterElsewhere
       DEF Decide, PowerOn, CheckConnection, Receive, BatchStates, Queries
  <1>3. CASE ControlWaitForConnect
    BY <1>3, EnterElsewhere, SkipSteps DEF ControlWaitForConnect, BatchStates, Queries
  <1>4. CASE BeginSend
    <2>1. CASE Enter("CLOSE_AND_RECONNECT", Rest) \/ Enter("NETWORK_BEGIN_RECEIVE", Rest)
      BY <2>1, EnterElsewhere DEF BatchStates, Queries
    <2>2. CASE Enter(Queries, Rest) /\ dataToSendBuffer # << >>
      <3>1. state' = Queries /\ UNCHANGED bufferVars
        BY <2>2 DEF Enter, Goto, EntryBuffer, Queries
      <3>2. QED
        BY <2>2, <3>1 DEF DataStep, BufferMove, BatchStates, Queries, bufferVars
    <2>3. QED
      BY <1>4, <2>1, <2>2 DEF BeginSend, GoOn, Queries
  <1>5. CASE AckCheckParse
    <2>1. \/ Enter("CLOSE_AND_RECONNECT", Rest) \/ Enter("CANCEL_SEND", Rest)
          \/ Enter("NETWORK_DECLARE_READ", Rest) \/ Enter("NETWORK_ACK_CHECK", Rest)
      BY <1>5 DEF AckCheckParse, GoOn
    <2>2. state \in BatchStates
      BY <1>5 DEF AckCheckParse, GoOn, BatchStates
    <2>3. Leads(state, "NETWORK_ACK_CHECK")
      BY <2>2 DEF Leads, Queries
    <2>4. QED
      BY <2>1, <2>3, EnterMoves, EnterElsewhere DEF BatchStates, Queries
  <1>6. CASE DeclaredRead
    BY <1>6, EnterElsewhere DEF DeclaredRead, GoOn, BatchStates, Queries
  <1>7. CASE TimerExpires
    <2>1. AfterTimer(state) \in {"RESET_STAGE_DECIDE", "CANCEL_SEND", "GPRS_RESET"}
      BY DEF AfterTimer
    <2>2. QED
      BY <1>7, <2>1, EnterElsewhere DEF TimerExpires, BatchStates, Queries
  <1>8. CASE Send
    BY <1>8 DEF Send, BufferMove, DataStep
  <1>9. CASE Connect \/ ChipToggles \/ Arrives \/ Delivers \/ PeerSends
    BY <1>9, FrameSteps
       DEF Connect, ChipToggles, Arrives, LineArrives, Delivers, NetDelivers, PeerSends
  <1>10. CASE Chip
    BY <1>10, FrameSteps DEF Chip, ChipConfigures, ChipTells, ChipOpens, ChipConnects, ChipCloses,
       ChipShuts, ChipReads, ChipCancels, ChipIgnores, ChipPrompts, ChipTakesData, ChipSendOk,
       ChipOff, Serve, Takes
  <1>11. CASE Fails
    BY <1>11, FrameSteps DEF Fails, ChipReboots, LinkLost, ChipMissesCommand, ChipSendFails
  <1>12. CASE UNCHANGED vars
    BY <1>12, FrameSteps DEF vars
  <1>13. QED
    BY <1>1, <1>2, <1>3, <1>4, <1>5, <1>6, <1>7, <1>8, <1>9, <1>10, <1>11, <1>12
       DEF Next, Driver

-----------------------------------------------------------------------------
(* Types. *)

(* On entry a state transmits one command or none, a batch only if it has one. *)
LEMMA EntryTransmits ==
    ASSUME NEW s, s = "NETWORK_SEND" => state \in BatchStates, NEW commands \in EntryCommands(s)
    PROVE  commands = << >> \/ \E c : Transmits(c) /\ commands = <<c>>
  <1>1. s # "NETWORK_SEND" => "data" \notin EntryTexts(s)
    BY DEF EntryTexts
  <1>2. CASE EntryTexts(s) = {}
    BY <1>2 DEF EntryCommands
  <1>3. CASE EntryTexts(s) # {}
    <2>1. PICK t \in EntryTexts(s) :
             commands = <<[text |-> t, data |-> IF t = "data" THEN BatchToSend ELSE << >>]>>
      BY <1>3 DEF EntryCommands
    <2> DEFINE command == [text |-> t, data |-> IF t = "data" THEN BatchToSend ELSE << >>]
    <2>2. command.data = IF t = "data" THEN BatchToSend ELSE << >>
      OBVIOUS
    <2>3. commands = <<command>>
      BY <2>1
    <2> HIDE DEF command
    <2>4. CASE t = "data"
      BY <1>1, <2>1, <2>2, <2>3, <2>4 DEF Transmits
    <2>5. CASE t # "data"
      BY <2>2, <2>3, <2>5 DEF Transmits
    <2>6. QED
      BY <2>4, <2>5
  <1>4. QED
    BY <1>2, <1>3

(* A transition uses up lines and leaves the way of the units alone. *)
LEMMA EnterWires ==
    ASSUME WireInv, NEW next, NEW rest, Enter(next, rest),
           rest \in {lines, Rest, << >>} \/ \E l : Waiting(l) /\ rest = Behind(l),
           next = "NETWORK_SEND" => state \in BatchStates,
           UNCHANGED faults \/ Fault
    PROVE  WireMove
  <1>1. PICK commands \in EntryCommands(next) :
           /\ lines' = rest /\ chipIn' = Received(commands)
           /\ UNCHANGED <<arriving, linkVars, delivered>>
    BY DEF Enter, Goto
  <1>2. LineMove
    BY <1>1 DEF LineMove
  <1>3. CommandMove
    BY <1>1, EntryTransmits DEF CommandMove
  <1>4. PathMove
    BY <1>1 DEF PathMove, linkVars
  <1>5. FlagMove
    BY <1>1, FlagsRest, Zenon DEF linkVars
  <1>6. QED
    BY <1>2, <1>3, <1>4, <1>5 DEF WireMove

LEMMA SkipWires == WireInv /\ Skip => WireMove
  <1> SUFFICES ASSUME WireInv, Skip PROVE WireMove
    OBVIOUS
  <1>1. lines' = Rest /\ UNCHANGED <<arriving, chipIn, linkVars, delivered, faults>>
    BY DEF Skip
  <1>2. LineMove /\ CommandMove /\ PathMove
    BY <1>1, TakesCommands, PathRests DEF LineMove, linkVars
  <1>3. FlagMove
    BY <1>1, FlagsRest, Zenon DEF linkVars
  <1>4. QED
    BY <1>2, <1>3 DEF WireMove

(* The steps of the driver. *)
LEMMA DriverWires == WireInv /\ (Driver \/ TimerExpires) => WireMove
  <1> SUFFICES ASSUME WireInv, Driver \/ TimerExpires PROVE WireMove
    OBVIOUS
  <1>1. CASE Read
    <2>1. CASE \E i \in DOMAIN Rules(state) : Enter(Rules(state)[i].next, Rest) /\ UNCHANGED faults
      <3>1. PICK i \in DOMAIN Rules(state) : Enter(Rules(state)[i].next, Rest) /\ UNCHANGED faults
        BY <2>1
      <3>2. Leads(state, Rules(state)[i].next)
        BY <1>1, <3>1, RuleTargets DEF Read
      <3>3. Rules(state)[i].next = "NETWORK_SEND" => state \in BatchStates
        BY <3>2 DEF Leads, BatchStates
      <3>4. QED
        BY <3>1, <3>3, EnterWires
    <2>2. QED
      BY <1>1, <2>1, SkipWires DEF Read, Actions
  <1>2. CASE Decide \/ PowerOn \/ Receive
    BY <1>2, EnterWires DEF Decide, PowerOn, Receive
  <1>3. CASE ControlWaitForConnect
    BY <1>3, EnterWires, SkipWires DEF ControlWaitForConnect
  <1>4. CASE CheckConnection
    BY <1>4, EnterWires DEF CheckConnection, GoesOn
  <1>5. CASE BeginSend \/ DeclaredRead
    <2>1. UNCHANGED faults
      BY <1>5 DEF BeginSend, DeclaredRead, GoOn
    <2>2. \E next : next # "NETWORK_SEND" /\ Enter(next, Rest)
      BY <1>5 DEF BeginSend, DeclaredRead, GoOn
    <2>3. QED
      BY <2>1, <2>2, EnterWires
  <1>6. CASE AckCheckParse
    <2>1. UNCHANGED faults
      BY <1>6 DEF AckCheckParse, GoOn
    <2>2. \/ Enter("CLOSE_AND_RECONNECT", Rest) \/ Enter("CANCEL_SEND", Rest)
          \/ Enter("NETWORK_DECLARE_READ", Rest) \/ Enter("NETWORK_ACK_CHECK", Rest)
      BY <1>6 DEF AckCheckParse, GoOn
    <2>3. QED
      BY <2>1, <2>2, EnterWires
  <1>7. CASE TimerExpires
    <2>1. AfterTimer(state) \in {"RESET_STAGE_DECIDE", "CANCEL_SEND", "GPRS_RESET"}
      BY DEF AfterTimer
    <2>2. UNCHANGED faults \/ Fault
      BY <1>7 DEF TimerExpires
    <2>3. QED
      BY <1>7, <2>1, <2>2, EnterWires DEF TimerExpires
  <1>8. QED
    BY <1>1, <1>2, <1>3, <1>4, <1>5, <1>6, <1>7 DEF Driver

LEMMA AnsweredIsSeq ==
    ASSUME NEW answers, IsSeq(answers), Answer(answers) PROVE LineMove
  BY AnswerIsSeq, SaysLines DEF Answer

LEMMA BootAnswersAreSeqs == \A text : \A a \in BootAnswers(text) \cup BootRefusals(text) : IsSeq(a)
  BY ShortIsSeq DEF BootAnswers, BootRefusals

(* What the chip tells of the connection. *)
LEMMA TellsLines == ChipTells => LineMove
  <1> SUFFICES ASSUME ChipTells PROVE LineMove
    OBVIOUS
  <1> DEFINE text == Head(chipIn).text
             told == CASE text = "AT+QISTATE" ->
                             IF link = "UP" THEN <<"+QISTATE: 1", "OK">> ELSE <<"OK">>
                       [] text = "AT+QISEND=?" -> <<"+QISEND: (0-11)", "OK">>
                       [] text = "AT+QISEND=1,0" ->
                             IF link # "UP" THEN <<"ERROR">>
                             ELSE IF flying = << >> THEN <<"+QISEND: all", "OK">>
                             ELSE <<"+QISEND: some", "OK">>
  <1>1. text \in {"AT+QISTATE", "AT+QISEND=?", "AT+QISEND=1,0"}
    BY DEF ChipTells, Serve, Takes
  <1>2. Answer(told) \/ Answer(<<"+QISEND: 0", "OK">>)
    BY DEF ChipTells
  <1>3. IsSeq(told)
    BY <1>1, ShortIsSeq
  <1>4. QED
    BY <1>2, <1>3, AnsweredIsSeq, ShortIsSeq

(* The steps of the chip that only this one takes. *)
LEMMA ChipWires == WireInv /\ (Chip \/ ChipToggles \/ ChipReboots \/ PeerSends) => WireMove
  <1> SUFFICES ASSUME WireInv, Chip \/ ChipToggles \/ ChipReboots \/ PeerSends PROVE WireMove
    OBVIOUS
  <1>1. CASE ChipConfigures
    <2>1. LineMove
      BY <1>1, AnsweredIsSeq, BootAnswersAreSeqs DEF ChipConfigures
    <2>2. CommandMove /\ PathMove
      BY <1>1, TakesCommands, PathRests DEF ChipConfigures, Serve, Takes, linkVars
    <2>3. FlagMove
      BY <1>1, FlagsRest, Zenon DEF ChipConfigures, linkVars
    <2>4. QED
      BY <2>1, <2>2, <2>3 DEF WireMove
  <1>2. CASE ChipTells
    <2>1. CommandMove /\ PathMove
      BY <1>2, TakesCommands, PathRests DEF ChipTells, Serve, Takes, linkVars
    <2>2. FlagMove
      BY <1>2, FlagsRest, Zenon DEF ChipTells, linkVars
    <2>3. QED
      BY <1>2, <2>1, <2>2, TellsLines DEF WireMove
  <1>3. CASE ChipOpens
    <2>1. LineMove
      BY <1>3, AnsweredIsSeq, ShortIsSeq DEF ChipOpens
    <2>2. CommandMove /\ PathMove
      BY <1>3, TakesCommands, PathRests DEF ChipOpens, Serve, Takes
    <2>3. FlagMove
      BY <1>3, FlagsRest, Zenon DEF ChipOpens
    <2>4. QED
      BY <2>1, <2>2, <2>3 DEF WireMove
  <1>4. CASE ChipConnects
    <2>1. LineMove
      BY <1>4, SaysLines, ShortIsSeq DEF ChipConnects
    <2>2. CommandMove /\ PathMove
      BY <1>4, TakesCommands, PathRests DEF ChipConnects
    <2>3. FlagMove
      BY <1>4, FlagsRest, Zenon DEF ChipConnects
    <2>4. QED
      BY <2>1, <2>2, <2>3 DEF WireMove
  <1>5. CASE ChipCloses \/ ChipShuts
    <2>1. LineMove
      BY <1>5, AnsweredIsSeq, ShortIsSeq DEF ChipCloses, ChipShuts
    <2>2. CommandMove /\ PathMove
      BY <1>5, TakesCommands, PathRests DEF ChipCloses, ChipShuts, Serve, Takes, Hangup, linkVars
    <2>3. FlagMove
      BY <1>5, FlagsRest, Zenon DEF ChipCloses, ChipShuts, Hangup, linkVars
    <2>4. QED
      BY <2>1, <2>2, <2>3 DEF WireMove
  <1>6. CASE ChipReads
    <2>1. LineMove
      BY <1>6, AnsweredIsSeq, ShortIsSeq DEF ChipReads
    <2>2. CommandMove /\ PathMove
      BY <1>6, TakesCommands, PathRests DEF ChipReads, Serve, Takes, linkVars
    <2>3. FlagMove
      BY <1>6, FlagsRest, Zenon DEF ChipReads, linkVars
    <2>4. QED
      BY <2>1, <2>2, <2>3 DEF WireMove
  <1>7. CASE ChipCancels
    <2>1. LineMove
      BY <1>7, SaysLines, ShortIsSeq DEF ChipCancels
    <2>2. CommandMove /\ PathMove
      BY <1>7, TakesCommands, PathRests DEF ChipCancels, Takes
    <2>3. FlagMove
      BY <1>7, FlagsRest, Zenon DEF ChipCancels
    <2>4. QED
      BY <2>1, <2>2, <2>3 DEF WireMove
  <1>8. CASE ChipIgnores \/ ChipOff
    <2>1. LineMove /\ CommandMove /\ PathMove
      BY <1>8, SaysLines, TakesCommands, PathRests DEF ChipIgnores, ChipOff, linkVars
    <2>2. FlagMove
      BY <1>8, FlagsRest, Zenon DEF ChipIgnores, ChipOff, linkVars
    <2>3. QED
      BY <2>1, <2>2 DEF WireMove
  <1>9. CASE ChipPrompts("AT+QISEND=n", <<"AT+QISEND=n">>, <<"AT+QISEND=n", "ERROR">>)
    BY <1>9, PromptWires, ShortIsSeq
  <1>10. CASE ChipTakesData \/ ChipSendOk
    BY <1>10, SharedWires
  <1>11. CASE ChipToggles \/ ChipReboots \/ PeerSends
    <2>1. LineMove
      BY <1>11, SaysLines, ShortIsSeq DEF ChipToggles, ChipReboots, PeerSends, LineMove
    <2>2. CommandMove /\ PathMove
      BY <1>11, TakesCommands, PathRests DEF ChipToggles, ChipReboots, PeerSends, Hangup, linkVars
    <2>3. FlagMove
      BY <1>11, FlagsRest, Zenon DEF ChipToggles, ChipReboots, PeerSends, Hangup, linkVars
    <2>4. QED
      BY <2>1, <2>2, <2>3 DEF WireMove
  <1>12. QED
    BY <1>1, <1>2, <1>3, <1>4, <1>5, <1>6, <1>7, <1>8, <1>9, <1>10, <1>11 DEF Chip

LEMMA NextWires == WireInv /\ [Next]_vars => WireMove
  <1> SUFFICES ASSUME WireInv, [Next]_vars PROVE WireMove
    OBVIOUS
  <1>1. CASE Driver \/ TimerExpires
    BY <1>1, DriverWires
  <1>2. CASE Chip \/ ChipToggles \/ ChipReboots \/ PeerSends
    BY <1>2, ChipWires
  <1>3. CASE Fails
    BY <1>2, <1>3, SharedWires DEF Fails
  <1>4. CASE Send \/ Delivers \/ Arrives
    BY <1>4, SharedWires, RestWires DEF Send, Delivers, Arrives
  <1>5. CASE Connect
    <2>1. LineMove /\ CommandMove /\ PathMove
      BY <1>5, TakesCommands, PathRests DEF Connect, LineMove, linkVars
    <2>2. FlagMove
      BY <1>5, FlagsRest, Zenon DEF Connect, linkVars
    <2>3. QED
      BY <2>1, <2>2 DEF WireMove
  <1>6. CASE UNCHANGED vars
    BY <1>6, RestWires DEF vars, lineVars
  <1>7. QED
    BY <1>1, <1>2, <1>3, <1>4, <1>5, <1>6 DEF Next

(* The power of the chip, its connection and the flags of the driver.         *)
StatusTypes ==
    /\ allAcked \in BOOLEAN /\ announced \in BOOLEAN
    /\ power \in {"on", "off"} /\ pulse \in BOOLEAN /\ link \in {"DOWN", "OPENING", "UP"}

(* The counters: the retries and the chunks of the peer. *)
CounterTypes ==
    /\ ackQueryRetryNo \in 0..(QUERY_ACK_COUNT_LIMIT + 1)
    /\ pushed \in 0..MAX_INBOX /\ inbox \in 0..pushed

(* The retry counter grows only while it has not exceeded its limit.          *)
LEMMA RetriesStay ==
    CounterTypes /\ [Next]_vars => ackQueryRetryNo' \in 0..(QUERY_ACK_COUNT_LIMIT + 1)
  <1> SUFFICES ASSUME CounterTypes, [Next]_vars
               PROVE  ackQueryRetryNo' \in 0..(QUERY_ACK_COUNT_LIMIT + 1)
    OBVIOUS
  <1>1. QUERY_ACK_COUNT_LIMIT \in Nat /\ ackQueryRetryNo \in 0..(QUERY_ACK_COUNT_LIMIT + 1)
    BY Bg96Assumption DEF CounterTypes
  <1>2. CASE AckCheckParse
    <2> DEFINE next == IF ackQueryRetryNo > QUERY_ACK_COUNT_LIMIT THEN "CANCEL_SEND"
                       ELSE IF allAcked THEN "NETWORK_DECLARE_READ" ELSE "NETWORK_ACK_CHECK"
    <2>1. \/ ackQueryRetryNo' = ackQueryRetryNo
          \/ ackQueryRetryNo' = 0
          \/ next = "NETWORK_ACK_CHECK" /\ ackQueryRetryNo' = ackQueryRetryNo + 1
      BY <1>2 DEF AckCheckParse
    <2>2. next = "NETWORK_ACK_CHECK" => ~(ackQueryRetryNo > QUERY_ACK_COUNT_LIMIT)
      OBVIOUS
    <2> HIDE DEF next
    <2>3. QED
      BY <1>1, <2>1, <2>2
  <1>3. CASE ackQueryRetryNo' = ackQueryRetryNo \/ ackQueryRetryNo' = 0
    BY <1>1, <1>3
  <1>4. CASE Read
    BY <1>3, <1>4 DEF Read, Actions, ownVars, counterVars
  <1>5. CASE Decide \/ PowerOn \/ ControlWaitForConnect \/ CheckConnection \/ Receive
             \/ BeginSend \/ DeclaredRead \/ TimerExpires \/ Connect \/ Send \/ Delivers \/ Arrives
    BY <1>3, <1>5 DEF Decide, PowerOn, ControlWaitForConnect, CheckConnection, Receive, BeginSend,
       DeclaredRead, TimerExpires, Connect, Send, Delivers, Arrives, ownVars, counterVars
  <1>6. CASE Chip \/ ChipToggles \/ Fails \/ PeerSends \/ UNCHANGED vars
    BY <1>3, <1>6 DEF Chip, ChipToggles, Fails, PeerSends, vars, ownVars, counterVars
  <1>7. QED
    BY <1>2, <1>4, <1>5, <1>6 DEF Next, Driver

(* The chip never holds more chunks than the peer has sent.                   *)
LEMMA InboxStays ==
    CounterTypes /\ [Next]_vars => pushed' \in 0..MAX_INBOX /\ inbox' \in 0..pushed'
  <1> SUFFICES ASSUME CounterTypes, [Next]_vars
               PROVE  pushed' \in 0..MAX_INBOX /\ inbox' \in 0..pushed'
    OBVIOUS
  <1>1. MAX_INBOX \in Nat /\ pushed \in 0..MAX_INBOX /\ inbox \in 0..pushed
    BY Bg96Assumption DEF CounterTypes
  <1>2. CASE PeerSends
    <2>1. pushed < MAX_INBOX /\ pushed' = pushed + 1 /\ inbox' = inbox + 1
      BY <1>2 DEF PeerSends
    <2>2. QED
      BY <1>1, <2>1
  <1>3. CASE UNCHANGED pushed /\ (inbox' = inbox \/ inbox' = 0 \/ (inbox > 0 /\ inbox' = inbox - 1))
    BY <1>1, <1>3
  <1>4. CASE Driver \/ TimerExpires \/ Connect \/ Send \/ Delivers \/ Arrives \/ UNCHANGED vars
    BY <1>3, <1>4 DEF Driver, Read, Actions, Decide, PowerOn, ControlWaitForConnect, CheckConnection,
       Receive, BeginSend, AckCheckParse, DeclaredRead, GoOn, TimerExpires, Connect, Send, Delivers, Arrives,
       vars, ownVars, chipVars
  <1>5. CASE Chip
    BY <1>3, <1>5 DEF Chip, ChipConfigures, ChipTells, ChipOpens, ChipConnects, ChipCloses,
       ChipShuts, ChipReads, ChipCancels, ChipIgnores, ChipOff
  <1>6. CASE ChipToggles \/ Fails
    BY <1>3, <1>6 DEF ChipToggles, Fails, ChipReboots
  <1>7. QED
    BY <1>2, <1>4, <1>5, <1>6 DEF Next

LEMMA StatusStays == StatusTypes /\ [Next]_vars => StatusTypes'
  <1> SUFFICES ASSUME StatusTypes, [Next]_vars PROVE StatusTypes'
    OBVIOUS
  <1>1. CASE UNCHANGED <<allAcked, announced, power, pulse, link>>
    BY <1>1, Zenon DEF StatusTypes
  <1>2. CASE Read
    <2>1. CASE Skip /\ UNCHANGED ownVars
      BY <1>1, <2>1 DEF Skip, ownVars, counterVars, chipVars, linkVars
    <2>2. CASE \E next : Enter(next, Rest) /\ Actions(next)
      <3>1. PICK next : Enter(next, Rest) /\ Actions(next)
        BY <2>2
      <3>2. UNCHANGED <<power, pulse, link>>
        BY <3>1 DEF Enter, Goto, Actions, chipVars, linkVars
      <3>3. announced' = (announced \/ (state = "CONNECT_TO_SERVER" /\ next = "NETWORK_BEGIN_RECEIVE"))
        BY <3>1 DEF Actions
      <3>4. allAcked' = allAcked \/ QueryAck
        BY <3>1, Zenon DEF Actions
      <3>5. QueryAck => allAcked' \in BOOLEAN
        BY Zenon DEF QueryAck
      <3>6. QED
        BY <3>2, <3>3, <3>4, <3>5, Zenon DEF StatusTypes
    <2>3. QED
      BY <1>2, <2>1, <2>2 DEF Read
  <1>3. CASE Decide \/ PowerOn
    <2>1. UNCHANGED <<allAcked, announced, power, link>>
      BY <1>3 DEF Decide, PowerOn, Enter, Goto, counterVars, linkVars
    <2>2. pulse' \in BOOLEAN
      BY <1>3, Zenon DEF Decide, PowerOn
    <2>3. QED
      BY <2>1, <2>2, Zenon DEF StatusTypes
  <1>4. CASE ControlWaitForConnect \/ CheckConnection \/ Receive \/ TimerExpires
    BY <1>1, <1>4 DEF ControlWaitForConnect, CheckConnection, Receive, TimerExpires,
       Enter, Goto, Skip, ownVars, counterVars, chipVars, linkVars
  <1>5. CASE BeginSend \/ AckCheckParse \/ DeclaredRead
    BY <1>1, <1>5 DEF BeginSend, AckCheckParse, DeclaredRead, GoOn, Enter, Goto, chipVars, linkVars
  <1>6. CASE Connect \/ Send \/ Delivers \/ Arrives \/ PeerSends \/ UNCHANGED vars
    BY <1>1, <1>6 DEF Connect, Send, AppSend, Delivers, NetDelivers, Arrives, LineArrives, PeerSends,
       vars, lineVars, ownVars, counterVars, chipVars, linkVars
  <1>7. CASE ChipToggles
    <2>1. UNCHANGED <<allAcked, announced>> /\ pulse' = FALSE /\ link' = "DOWN"
      BY <1>7 DEF ChipToggles, Hangup, counterVars
    <2>2. power' \in {"on", "off"}
      BY <1>7 DEF ChipToggles
    <2>3. QED
      BY <2>1, <2>2, Zenon DEF StatusTypes
  <1>8. CASE Chip \/ Fails
    <2>1. UNCHANGED <<allAcked, announced, power, pulse>>
      BY <1>8 DEF Chip, Fails, counterVars
    <2>2. link' \in {link, "DOWN", "OPENING", "UP"}
      <3>1. CASE Fails
        BY <3>1, Zenon DEF Fails, ChipReboots, LinkLost, ChipMissesCommand, ChipSendFails, Hangup,
           linkVars
      <3>2. CASE ChipOpens
        BY <3>2 DEF ChipOpens
      <3>3. CASE Chip /\ ~ChipOpens
        BY <3>3, Zenon DEF Chip, ChipConfigures, ChipTells, ChipConnects, ChipCloses, ChipShuts,
           ChipReads, ChipCancels, ChipIgnores, ChipPrompts, ChipTakesData, ChipSendOk, ChipOff,
           Hangup, linkVars
      <3>4. QED
        BY <1>8, <3>1, <3>2, <3>3
    <2>3. QED
      BY <2>1, <2>2, Zenon DEF StatusTypes
  <1>9. QED
    BY <1>2, <1>3, <1>4, <1>5, <1>6, <1>7, <1>8 DEF Next, Driver

-----------------------------------------------------------------------------
(* The invariant. *)

BG96Inv == DriverInv /\ DataAhead /\ StatusTypes /\ CounterTypes

LEMMA Bg96Moves == BG96Inv /\ [Next]_vars => DataStep /\ BufferMove /\ WireMove
  BY NextSteps, NextWires DEF BG96Inv, DriverInv, DataStep

(* A step that keeps the buffer, or adds to it, keeps data ahead.             *)
LEMMA AheadStays == BG96Inv /\ DataStep => DataAhead'
  <1> SUFFICES ASSUME DataInv, DataAhead, DataStep PROVE DataAhead'
    BY DEF BG96Inv, DriverInv
  <1>1. ASSUME AppSend PROVE dataToSendBuffer' # << >> \/ dataToSendBuffer = << >>
    <2>1. /\ Len(dataToSendBuffer) <= Len(dataToSendBuffer')
          /\ dataToSendBuffer \in Seq(Nat) /\ dataToSendBuffer' \in Seq(Nat)
      BY <1>1, SendKeepsBuffer DEF DataInv, BufferInv
    <2>2. dataToSendBuffer' = << >> => Len(dataToSendBuffer) = 0
      BY <2>1, EmptySeq, LenProperties
    <2>3. QED
      BY <2>1, <2>2, EmptySeq
  <1>2. AppSend => state' = state
    BY DEF AppSend, machineVars
  <1>3. QED
    BY <1>1, <1>2 DEF DataStep, DataAhead

LEMMA Bg96Inductive == Spec => []BG96Inv
  <1>1. Init => BG96Inv
    <2> SUFFICES ASSUME Init PROVE BG96Inv
      OBVIOUS
    <2>1. DriverInv
      BY InitDriver DEF Init, BatchStates
    <2>2. DataAhead
      BY DEF Init, DataAhead, Queries
    <2>3. StatusTypes
      BY Zenon DEF Init, DriverInit, StatusTypes
    <2>4. CounterTypes
      BY Bg96Assumption DEF Init, CounterTypes
    <2>5. QED
      BY <2>1, <2>2, <2>3, <2>4 DEF BG96Inv
  <1>2. BG96Inv /\ [Next]_vars => BG96Inv'
    <2> SUFFICES ASSUME BG96Inv, [Next]_vars PROVE BG96Inv'
      OBVIOUS
    <2>1. DriverInv'
      BY Bg96Moves, MoveKeepsDriver DEF BG96Inv
    <2>2. DataAhead'
      BY Bg96Moves, AheadStays
    <2>3. StatusTypes' /\ CounterTypes'
      BY StatusStays, RetriesStay, InboxStays DEF BG96Inv, CounterTypes
    <2>4. QED
      BY <2>1, <2>2, <2>3 DEF BG96Inv
  <1>3. QED
    BY <1>1, <1>2, PTL DEF Spec

(* onConnected is called in a step that moves no data.                        *)
LEMMA AnnouncedApart ==
    StatusTypes /\ [Next]_vars
    => UNCHANGED announced \/ (announced' = TRUE /\ UNCHANGED <<bufferVars, delivered>>)
  <1> SUFFICES ASSUME announced \in BOOLEAN, [Next]_vars
               PROVE  UNCHANGED announced \/ (announced' = TRUE /\ UNCHANGED <<bufferVars, delivered>>)
    BY DEF StatusTypes
  <1>1. CASE Read
    <2>1. CASE \E next : Enter(next, Rest) /\ Actions(next)
      <3>1. PICK next : Enter(next, Rest) /\ Actions(next)
        BY <2>1
      <3>2. announced' = (announced \/ (state = "CONNECT_TO_SERVER" /\ next = "NETWORK_BEGIN_RECEIVE"))
        BY <3>1 DEF Actions
      <3>3. CASE next = "NETWORK_BEGIN_RECEIVE"
        <4>1. UNCHANGED <<bufferVars, delivered>>
          BY <3>1, <3>3 DEF Enter, EntryBuffer, Goto
        <4>2. QED
          BY <3>2, <4>1, Zenon
      <3>4. CASE next # "NETWORK_BEGIN_RECEIVE"
        BY <3>2, <3>4, Zenon
      <3>5. QED
        BY <3>3, <3>4
    <2>2. QED
      BY <1>1, <2>1 DEF Read, ownVars
  <1>2. CASE (Driver /\ ~Read) \/ TimerExpires
    BY <1>2 DEF Driver, Decide, PowerOn, ControlWaitForConnect, CheckConnection, Receive, BeginSend,
       AckCheckParse, DeclaredRead, GoOn, TimerExpires, ownVars
  <1>3. CASE Connect \/ Send \/ Delivers \/ Arrives \/ Chip \/ ChipToggles \/ Fails \/ PeerSends
             \/ UNCHANGED vars
    BY <1>3 DEF Connect, Send, Delivers, Arrives, Chip, ChipToggles, Fails, PeerSends, vars, ownVars
  <1>4. QED
    BY <1>1, <1>2, <1>3 DEF Next

-----------------------------------------------------------------------------
(* What NETWORK_RECEIVE finds.  Between the announcement of a chunk and the    *)
(* chunk there may be events of connect (), and instead of the chunk the       *)
(* words of a chip that reboots: nothing else.                                *)

Announces == "+QIRD: n"
Follows == {"payload", "RDY"}

(* The lines that wait, behind the announcement if the state has just read it. *)
Told == IF state = "NETWORK_RECEIVE" THEN <<Announces>> \o lines ELSE lines

(* The announcement and the chunk have not both arrived.                      *)
HalfTold(s) ==
    \E i \in 1..Len(s) : s[i] = Announces /\ \A k \in (i + 1)..Len(s) : s[k] = "_CONN"

Orderly(s) ==
    \A i, k \in 1..Len(s) :
        i < k /\ s[i] = Announces /\ (\A m \in (i + 1)..(k - 1) : s[m] = "_CONN")
        => s[k] \in Follows \cup {"_CONN"}

(* While the chunk is awaited the interrupt is on and the queue has room.     *)
ChunkHasWay == HalfTold(Told) => state \notin Deaf /\ Len(lines) < EVENT_QUEUE_SIZE

(* The chip says an announcement and its chunk one after the other.           *)
Whole(s) == \A i \in 1..Len(s) : s[i] = Announces => i + 1 \in 1..Len(s) /\ s[i + 1] = "payload"

ChunkInv ==
    /\ Orderly(Told) /\ Whole(arriving)
    /\ HalfTold(Told) => arriving # << >> /\ Head(arriving) \in Follows
    /\ pulse => state = "RESET_STAGE_POWER_ON"

(* One sequence is the end of another one. *)
Ends(t, s) == Len(t) <= Len(s) /\ \A i \in 1..Len(t) : t[i] = s[Len(s) - Len(t) + i]

LEMMA EndIsOrderly ==
    ASSUME NEW t, NEW s, IsSeq(t), IsSeq(s), Ends(t, s)
    PROVE  (Orderly(s) => Orderly(t)) /\ (HalfTold(t) => HalfTold(s))
  <1> DEFINE d == Len(s) - Len(t)
  <1>1. Len(s) \in Nat /\ Len(t) \in Nat /\ d \in Nat /\ d + Len(t) = Len(s)
    BY LenProperties DEF IsSeq, Ends
  <1>2. \A i \in 1..Len(t) : t[i] = s[d + i] /\ d + i \in 1..Len(s)
    BY <1>1 DEF Ends
  <1> HIDE DEF d
  <1>3. ASSUME Orderly(s), NEW i \in 1..Len(t), NEW k \in 1..Len(t), i < k, t[i] = Announces,
               \A m \in (i + 1)..(k - 1) : t[m] = "_CONN"
        PROVE  t[k] \in Follows \cup {"_CONN"}
    <2>1. d + i \in 1..Len(s) /\ d + k \in 1..Len(s) /\ d + i < d + k /\ s[d + i] = Announces
      BY <1>1, <1>2, <1>3
    <2>2. ASSUME NEW m \in ((d + i) + 1)..((d + k) - 1) PROVE s[m] = "_CONN"
      <3>1. m - d \in (i + 1)..(k - 1) /\ m - d \in 1..Len(t) /\ d + (m - d) = m
        BY <1>1, <1>3
      <3>2. t[m - d] = "_CONN" /\ t[m - d] = s[d + (m - d)]
        BY <1>2, <1>3, <3>1
      <3>3. QED
        BY <3>1, <3>2
    <2>3. s[d + k] \in Follows \cup {"_CONN"}
      BY <1>3, <2>1, <2>2 DEF Orderly
    <2>4. QED
      BY <1>2, <2>3
  <1>4. ASSUME NEW i \in 1..Len(t), t[i] = Announces, \A k \in (i + 1)..Len(t) : t[k] = "_CONN"
        PROVE  HalfTold(s)
    <2>1. d + i \in 1..Len(s) /\ s[d + i] = Announces
      BY <1>2, <1>4
    <2>2. ASSUME NEW k \in ((d + i) + 1)..Len(s) PROVE s[k] = "_CONN"
      <3>1. k - d \in (i + 1)..Len(t) /\ k - d \in 1..Len(t) /\ d + (k - d) = k
        BY <1>1, <1>4
      <3>2. t[k - d] = "_CONN" /\ t[k - d] = s[d + (k - d)]
        BY <1>2, <1>4, <3>1
      <3>3. QED
        BY <3>1, <3>2
    <2>3. QED
      BY <2>1, <2>2 DEF HalfTold
  <1>5. QED
    BY <1>3, <1>4 DEF Orderly, HalfTold

(* A line more. *)
LEMMA LineIsOrderly ==
    ASSUME NEW s, NEW l, IsSeq(s), Orderly(s), HalfTold(s) => l \in Follows \cup {"_CONN"}
    PROVE  /\ Orderly(Append(s, l))
           /\ HalfTold(Append(s, l)) => l = Announces \/ (l = "_CONN" /\ HalfTold(s))
  <1> DEFINE t == Append(s, l)
  <1>1. PICK S : s \in Seq(S)
    BY DEF IsSeq
  <1>2. s \in Seq(S \cup {l})
    BY <1>1, SeqMonotonic
  <1>3. /\ Len(s) \in Nat /\ Len(t) = Len(s) + 1
        /\ \A i \in 1..Len(s) : t[i] = s[i]
        /\ t[Len(s) + 1] = l
    BY <1>2, AppendProperties, LenProperties
  <1> HIDE DEF t
  <1>4. ASSUME NEW i \in 1..Len(t), NEW k \in 1..Len(t), i < k, t[i] = Announces,
               \A m \in (i + 1)..(k - 1) : t[m] = "_CONN"
        PROVE  t[k] \in Follows \cup {"_CONN"}
    <2>1. i \in 1..Len(s) /\ s[i] = Announces /\ \A m \in (i + 1)..(k - 1) : m \in 1..Len(s)
      BY <1>3, <1>4
    <2>2. \A m \in (i + 1)..(k - 1) : s[m] = "_CONN"
      BY <1>3, <1>4, <2>1
    <2>3. CASE k \in 1..Len(s)
      BY <1>3, <1>4, <2>1, <2>2, <2>3 DEF Orderly
    <2>4. CASE k = Len(s) + 1
      <3>1. k - 1 = Len(s)
        BY <1>3, <2>4
      <3>2. HalfTold(s)
        BY <2>1, <2>2, <3>1 DEF HalfTold
      <3>3. QED
        BY <1>3, <2>4, <3>2
    <2>5. QED
      BY <1>3, <2>3, <2>4
  <1>5. ASSUME NEW i \in 1..Len(t), t[i] = Announces, \A k \in (i + 1)..Len(t) : t[k] = "_CONN"
        PROVE  l = Announces \/ (l = "_CONN" /\ HalfTold(s))
    <2>1. CASE i = Len(s) + 1
      BY <1>3, <1>5, <2>1
    <2>2. CASE i \in 1..Len(s)
      <3>1. Len(s) + 1 \in (i + 1)..Len(t)
        BY <1>3, <2>2
      <3>2. l = "_CONN"
        BY <1>3, <1>5, <3>1
      <3>3. \A k \in (i + 1)..Len(s) : k \in 1..Len(s) /\ k \in (i + 1)..Len(t)
        BY <1>3, <2>2
      <3>4. \A k \in (i + 1)..Len(s) : s[k] = "_CONN"
        BY <1>3, <1>5, <3>3
      <3>5. s[i] = Announces
        BY <1>3, <1>5, <2>2
      <3>6. QED
        BY <2>2, <3>2, <3>4, <3>5 DEF HalfTold
    <2>3. QED
      BY <1>3, <2>1, <2>2
  <1>6. Orderly(t)
    BY <1>4 DEF Orderly
  <1>7. HalfTold(t) => l = Announces \/ (l = "_CONN" /\ HalfTold(s))
    BY <1>5 DEF HalfTold
  <1>8. QED
    BY <1>6, <1>7 DEF t

(* The announcement that NETWORK_RECEIVE has read stays in front.             *)
LEMMA ToldOfLines ==
    ASSUME NEW s, IsSeq(s)
    PROVE  LET told == <<Announces>> \o s IN
           /\ IsSeq(told) /\ Len(told) = Len(s) + 1 /\ Len(s) \in Nat
           /\ told[1] = Announces /\ \A i \in 1..Len(s) : told[i + 1] = s[i]
  <1> DEFINE told == <<Announces>> \o s
  <1>1. PICK S : s \in Seq(S)
    BY DEF IsSeq
  <1>2. <<Announces>> \in Seq(S \cup {Announces}) /\ s \in Seq(S \cup {Announces})
    BY <1>1, SeqMonotonic
  <1>3. Len(<<Announces>>) = 1 /\ <<Announces>>[1] = Announces /\ Len(s) \in Nat
    BY <1>2, LenProperties
  <1>4. /\ told \in Seq(S \cup {Announces}) /\ Len(told) = Len(<<Announces>>) + Len(s)
        /\ \A i \in 1..(Len(<<Announces>>) + Len(s)) :
              told[i] = IF i <= Len(<<Announces>>) THEN <<Announces>>[i] ELSE s[i - Len(<<Announces>>)]
    BY <1>2, ConcatProperties
  <1> HIDE DEF told
  <1>5. Len(told) = Len(s) + 1 /\ told[1] = Announces
    BY <1>3, <1>4
  <1>6. \A i \in 1..Len(s) : i + 1 \in 1..(1 + Len(s)) /\ ~(i + 1 <= 1) /\ (i + 1) - 1 = i
    BY <1>3
  <1>7. \A i \in 1..Len(s) : told[i + 1] = s[i]
    BY <1>3, <1>4, <1>6
  <1>8. IsSeq(told)
    BY <1>4 DEF IsSeq
  <1>9. QED
    BY <1>3, <1>5, <1>7, <1>8 DEF told

LEMMA ToldIsSeq == WireInv => IsSeq(Told) /\ IsSeq(lines) /\ Ends(lines, Told)
  <1> SUFFICES ASSUME IsSeq(lines) PROVE IsSeq(Told) /\ Ends(lines, Told)
    BY DEF WireInv
  <1>1. Len(lines) \in Nat
    BY LenProperties DEF IsSeq
  <1>2. CASE state = "NETWORK_RECEIVE"
    <2>1. Told = <<Announces>> \o lines
      BY <1>2 DEF Told
    <2>2. /\ IsSeq(Told) /\ Len(Told) = Len(lines) + 1
          /\ \A i \in 1..Len(lines) : Told[i + 1] = lines[i]
      BY <2>1, ToldOfLines
    <2>3. Len(lines) <= Len(Told) /\ \A i \in 1..Len(lines) : Len(Told) - Len(lines) + i = i + 1
      BY <1>1, <2>2
    <2>4. QED
      BY <2>2, <2>3 DEF Ends
  <1>3. CASE state # "NETWORK_RECEIVE"
    <2>1. Told = lines
      BY <1>3 DEF Told
    <2>2. \A i \in 1..Len(lines) : Len(lines) - Len(lines) + i = i
      BY <1>1
    <2>3. QED
      BY <1>1, <2>1, <2>2 DEF Ends
  <1>4. QED
    BY <1>2, <1>3

LEMMA EndOfEnd ==
    ASSUME NEW r, NEW t, NEW s, IsSeq(r), IsSeq(t), IsSeq(s), Ends(r, t), Ends(t, s)
    PROVE  Ends(r, s)
  <1>1. Len(r) \in Nat /\ Len(t) \in Nat /\ Len(s) \in Nat
    BY LenProperties DEF IsSeq
  <1>2. Len(r) <= Len(t) /\ Len(t) <= Len(s)
    BY DEF Ends
  <1>3. ASSUME NEW i \in 1..Len(r) PROVE r[i] = s[Len(s) - Len(r) + i]
    <2>1. /\ Len(t) - Len(r) + i \in 1..Len(t)
          /\ Len(s) - Len(t) + (Len(t) - Len(r) + i) = Len(s) - Len(r) + i
      BY <1>1, <1>2
    <2>2. r[i] = t[Len(t) - Len(r) + i]
      BY DEF Ends
    <2>3. t[Len(t) - Len(r) + i] = s[Len(s) - Len(t) + (Len(t) - Len(r) + i)]
      BY <2>1 DEF Ends
    <2>4. QED
      BY <2>1, <2>2, <2>3
  <1>4. QED
    BY <1>1, <1>2, <1>3 DEF Ends

(* The lines the driver leaves are the last ones. *)
LEMMA LeftEnds ==
    ASSUME WireInv, NEW rest,
           rest \in {lines, Rest, << >>} \/ \E l : Waiting(l) /\ rest = Behind(l)
    PROVE  IsSeq(rest) /\ Ends(rest, lines)
  <1>1. PICK S : lines \in Seq(S)
    BY DEF WireInv, IsSeq
  <1>2. Len(lines) \in Nat /\ << >> \in Seq(S) /\ Len(<< >>) = 0
    BY <1>1, EmptySeq, LenProperties
  <1>3. CASE rest = lines
    <2>1. \A i \in 1..Len(lines) : Len(lines) - Len(lines) + i = i
      BY <1>2
    <2>2. QED
      BY <1>1, <1>2, <1>3, <2>1 DEF Ends, IsSeq
  <1>4. CASE rest = << >>
    BY <1>2, <1>4 DEF Ends, IsSeq
  <1>5. CASE lines # << >> /\ rest = Tail(lines)
    <2>1. /\ Len(lines) \in Nat \ {0} /\ rest \in Seq(S) /\ Len(rest) = Len(lines) - 1
          /\ \A i \in 1..Len(rest) : rest[i] = lines[i + 1]
      BY <1>1, <1>5, EmptySeq, HeadTailProperties
    <2>2. Len(rest) <= Len(lines) /\ \A i \in 1..Len(rest) : Len(lines) - Len(rest) + i = i + 1
      BY <2>1
    <2>3. QED
      BY <2>1, <2>2 DEF Ends, IsSeq
  <1>6. CASE \E l : Waiting(l) /\ rest = Behind(l)
    <2>1. PICK k \in 1..Len(lines) : rest = SubSeq(lines, k + 1, Len(lines))
      BY <1>1, <1>6, BehindPlace
    <2>2. \A i \in (k + 1)..Len(lines) : lines[i] \in S
      BY <1>1, <1>2, ElementOfSeq
    <2>3. /\ rest \in Seq(S)
          /\ Len(rest) = IF k + 1 <= Len(lines) THEN Len(lines) - (k + 1) + 1 ELSE 0
          /\ \A i \in 1..(Len(lines) - (k + 1) + 1) : rest[i] = lines[k + 1 + i - 1]
      BY <1>2, <2>1, <2>2, SubSeqProperties
    <2>4. Len(rest) = Len(lines) - k /\ Len(rest) <= Len(lines)
      BY <1>2, <2>3
    <2>5. \A i \in 1..Len(rest) : /\ i \in 1..(Len(lines) - (k + 1) + 1)
                                   /\ k + 1 + i - 1 = Len(lines) - Len(rest) + i
      BY <1>2, <2>4
    <2>6. \A i \in 1..Len(rest) : rest[i] = lines[Len(lines) - Len(rest) + i]
      BY <2>3, <2>5
    <2>7. QED
      BY <2>3, <2>4, <2>6 DEF Ends, IsSeq
  <1>7. QED
    BY <1>3, <1>4, <1>5, <1>6 DEF Rest

(* What a transition tells: the last lines told before.                       *)
LEMMA EnterChunk ==
    ASSUME WireInv, ChunkInv, NEW next, NEW rest, Enter(next, rest),
           rest \in {lines, Rest, << >>} \/ \E l : Waiting(l) /\ rest = Behind(l),
           next = "NETWORK_RECEIVE" =>
               state # "NETWORK_RECEIVE" /\ lines # << >> /\ line = Announces /\ rest = Rest,
           pulse' => next = "RESET_STAGE_POWER_ON"
    PROVE  ChunkInv'
  <1>1. state' = next /\ lines' = rest /\ arriving' = arriving
    BY DEF Enter, Goto
  <1>2. IsSeq(rest) /\ Ends(rest, lines)
    BY LeftEnds
  <1>3. IsSeq(Told) /\ IsSeq(lines) /\ Ends(lines, Told)
    BY ToldIsSeq
  <1>4. IsSeq(Told') /\ Ends(Told', Told)
    <2>1. CASE next # "NETWORK_RECEIVE"
      <3>1. Told' = rest
        BY <1>1, <2>1 DEF Told
      <3>2. QED
        BY <1>2, <1>3, <3>1, EndOfEnd
    <2>2. CASE next = "NETWORK_RECEIVE"
      <3>1. Told = lines /\ Told' = <<Announces>> \o rest
        BY <1>1, <2>2 DEF Told
      <3>2. lines # << >> /\ Head(lines) = Announces /\ rest = Tail(lines)
        BY <2>2 DEF line, Rest
      <3>3. /\ IsSeq(Told') /\ Len(Told') = Len(rest) + 1 /\ Len(rest) \in Nat
            /\ Told'[1] = Announces /\ \A i \in 1..Len(rest) : Told'[i + 1] = rest[i]
        BY <1>2, <3>1, ToldOfLines
      <3>4. /\ Len(lines) \in Nat \ {0} /\ Head(lines) = lines[1]
            /\ Len(rest) = Len(lines) - 1 /\ \A i \in 1..Len(rest) : rest[i] = lines[i + 1]
        BY <1>3, <3>2, EmptySeq, HeadTailProperties DEF IsSeq
      <3>5. ASSUME NEW i \in 1..Len(lines) PROVE Told'[i] = lines[i]
        <4>1. CASE i = 1
          BY <3>2, <3>3, <3>4, <4>1
        <4>2. CASE i # 1
          <5>1. i - 1 \in 1..Len(rest) /\ (i - 1) + 1 = i
            BY <3>4, <4>2
          <5>2. QED
            BY <3>3, <3>4, <5>1
        <4>3. QED
          BY <4>1, <4>2
      <3>6. Len(Told') = Len(lines) /\ \A i \in 1..Len(lines) : Len(lines) - Len(lines) + i = i
        BY <3>3, <3>4
      <3>7. QED
        BY <3>1, <3>3, <3>4, <3>5, <3>6 DEF Ends
    <2>3. QED
      BY <2>1, <2>2
  <1>5. Orderly(Told') /\ (HalfTold(Told') => HalfTold(Told))
    BY <1>3, <1>4, EndIsOrderly DEF ChunkInv
  <1>6. QED
    BY <1>1, <1>5 DEF ChunkInv

LEMMA SkipChunk ==
    ASSUME WireInv, ChunkInv, Skip, state # "NETWORK_RECEIVE", UNCHANGED pulse
    PROVE  ChunkInv'
  <1>1. UNCHANGED <<state, arriving>> /\ lines' = Rest
    BY DEF Skip
  <1>2. IsSeq(Rest) /\ Ends(Rest, lines)
    BY LeftEnds
  <1>3. Told = lines /\ Told' = Rest /\ IsSeq(lines)
    BY <1>1 DEF Told, WireInv
  <1>4. Orderly(Told') /\ (HalfTold(Told') => HalfTold(Told))
    BY <1>2, <1>3, EndIsOrderly DEF ChunkInv
  <1>5. QED
    BY <1>1, <1>4 DEF ChunkInv

(* Only the announcement leads to NETWORK_RECEIVE, in the step that reads it. *)
LEMMA ReceiveRule ==
    ASSUME state = "NETWORK_BEGIN_RECEIVE", NEW i \in DOMAIN Rules(state),
           First(Rules(state), i), Rules(state)[i].next = "NETWORK_RECEIVE"
    PROVE  line = Announces
  <1>1. Rules(state) = ReceiveRules
    BY DEF Rules, BootRules, LinkRules
  <1>2. DOMAIN ReceiveRules = 1..3
    BY DEF ReceiveRules
  <1>3. ReceiveRules[1] = When({Announces}, "NETWORK_RECEIVE")
        /\ ReceiveRules[2].next = "NETWORK_BEGIN_SEND" /\ ReceiveRules[3].next = "CLOSE_AND_RECONNECT"
    BY WhenNext DEF ReceiveRules, error, Announces
  <1>4. i = 1
    BY <1>1, <1>2, <1>3
  <1>5. Satisfied(When({Announces}, "NETWORK_RECEIVE"))
    BY <1>1, <1>3, <1>4 DEF First
  <1>6. line \in Matching(Announces)
    BY <1>5 DEF Satisfied, When
  <1>7. Matching(Announces) = {Announces}
    BY DEF Matching, Announces
  <1>8. QED
    BY <1>6, <1>7

LEMMA DriverChunk == WireInv /\ ChunkInv /\ (Driver \/ TimerExpires) => ChunkInv'
  <1> SUFFICES ASSUME WireInv, ChunkInv, Driver \/ TimerExpires PROVE ChunkInv'
    OBVIOUS
  <1>1. pulse => state = "RESET_STAGE_POWER_ON"
    BY DEF ChunkInv
  <1>2. CASE Read
    <2>1. /\ state \notin {"NETWORK_RECEIVE", "RESET_STAGE_POWER_ON"}
          /\ lines # << >> /\ state \in AskingStates
      BY <1>2 DEF Read, AskingStates, BootRules, LinkRules
    <2>2. UNCHANGED pulse
      BY <1>2 DEF Read, Actions, ownVars, chipVars
    <2>3. CASE Skip
      BY <2>1, <2>2, <2>3, SkipChunk
    <2>4. CASE \E i \in DOMAIN Rules(state) : First(Rules(state), i) /\ Enter(Rules(state)[i].next, Rest)
      <3>1. PICK i \in DOMAIN Rules(state) : First(Rules(state), i) /\ Enter(Rules(state)[i].next, Rest)
        BY <2>4
      <3>2. ASSUME Rules(state)[i].next = "NETWORK_RECEIVE" PROVE line = Announces
        <4>1. state = "NETWORK_BEGIN_RECEIVE"
          BY <2>1, <3>2, RuleTargets DEF Leads
        <4>2. QED
          BY <3>1, <3>2, <4>1, ReceiveRule
      <3>3. ~pulse'
        BY <1>1, <2>1, <2>2
      <3>4. QED
        BY <2>1, <3>1, <3>2, <3>3, EnterChunk
    <2>5. QED
      BY <1>2, <2>3, <2>4 DEF Read
  <1>3. CASE Decide \/ PowerOn
    BY <1>3, EnterChunk DEF Decide, PowerOn
  <1>4. CASE Receive \/ CheckConnection
    <2>1. ~pulse'
      BY <1>1, <1>4 DEF Receive, CheckConnection, ownVars, chipVars
    <2>2. QED
      BY <1>4, <2>1, EnterChunk DEF Receive, CheckConnection
  <1>5. CASE ControlWaitForConnect
    <2>1. ~pulse' /\ UNCHANGED pulse
      BY <1>1, <1>5 DEF ControlWaitForConnect, ownVars, chipVars
    <2>2. QED
      BY <1>5, <2>1, EnterChunk, SkipChunk DEF ControlWaitForConnect
  <1>6. CASE BeginSend \/ AckCheckParse \/ DeclaredRead
    <2>1. ~pulse'
      BY <1>1, <1>6 DEF BeginSend, AckCheckParse, DeclaredRead, GoOn, chipVars
    <2>2. \E next : next # "NETWORK_RECEIVE" /\ Enter(next, Rest)
      BY <1>6 DEF BeginSend, AckCheckParse, DeclaredRead, GoOn
    <2>3. QED
      BY <2>1, <2>2, EnterChunk
  <1>7. CASE TimerExpires
    <2>1. AfterTimer(state) \in {"RESET_STAGE_DECIDE", "CANCEL_SEND", "GPRS_RESET"}
      BY DEF AfterTimer
    <2>2. ~pulse'
      BY <1>1, <1>7 DEF TimerExpires, Timed, AskingStates, BootRules, LinkRules, ownVars, chipVars
    <2>3. QED
      BY <1>7, <2>1, <2>2, EnterChunk DEF TimerExpires
  <1>8. QED
    BY <1>2, <1>3, <1>4, <1>5, <1>6, <1>7 DEF Driver

-----------------------------------------------------------------------------
(* What the others do to the lines. *)

LEMMA WholeTail ==
    ASSUME NEW s, IsSeq(s), s # << >>, Whole(s)
    PROVE  /\ Whole(Tail(s))
           /\ Head(s) = Announces => Tail(s) # << >> /\ Head(Tail(s)) = "payload"
  <1>1. PICK S : s \in Seq(S)
    BY DEF IsSeq
  <1>2. /\ Len(s) \in Nat \ {0} /\ Head(s) = s[1]
        /\ Tail(s) \in Seq(S) /\ Len(Tail(s)) = Len(s) - 1
        /\ \A i \in 1..Len(Tail(s)) : Tail(s)[i] = s[i + 1]
    BY <1>1, EmptySeq, HeadTailProperties
  <1>3. ASSUME NEW i \in 1..Len(Tail(s)), Tail(s)[i] = Announces
        PROVE  i + 1 \in 1..Len(Tail(s)) /\ Tail(s)[i + 1] = "payload"
    <2>1. i + 1 \in 1..Len(s) /\ s[i + 1] = Announces
      BY <1>2, <1>3
    <2>2. (i + 1) + 1 \in 1..Len(s) /\ s[(i + 1) + 1] = "payload"
      BY <2>1 DEF Whole
    <2>3. i + 1 \in 1..Len(Tail(s))
      BY <1>2, <2>2
    <2>4. QED
      BY <1>2, <2>2, <2>3
  <1>4. ASSUME Head(s) = Announces PROVE Tail(s) # << >> /\ Head(Tail(s)) = "payload"
    <2>1. 1 \in 1..Len(s) /\ s[1] = Announces
      BY <1>2, <1>4
    <2>2. 1 + 1 \in 1..Len(s) /\ s[1 + 1] = "payload"
      BY <2>1 DEF Whole
    <2>3. 1 \in 1..Len(Tail(s)) /\ Tail(s)[1] = "payload"
      BY <1>2, <2>2
    <2>4. QED
      BY <1>2, <2>3, EmptySeq, HeadTailProperties
  <1>5. QED
    BY <1>3, <1>4 DEF Whole

LEMMA WholeConcat ==
    ASSUME NEW a, NEW b, IsSeq(a), IsSeq(b), Whole(a), Whole(b)
    PROVE  Whole(a \o b) /\ (a # << >> => a \o b # << >> /\ Head(a \o b) = Head(a))
  <1> DEFINE all == a \o b
  <1>0. PICK S, T : a \in Seq(S) /\ b \in Seq(T)
    BY DEF IsSeq
  <1>1. /\ Len(a) \in Nat /\ Len(b) \in Nat /\ Len(all) = Len(a) + Len(b) /\ all \in Seq(S \cup T)
        /\ \A i \in 1..(Len(a) + Len(b)) : all[i] = IF i <= Len(a) THEN a[i] ELSE b[i - Len(a)]
    <2>1. a \in Seq(S \cup T) /\ b \in Seq(S \cup T)
      BY <1>0, SeqMonotonic
    <2>2. QED
      BY <2>1, ConcatProperties, LenProperties
  <1> HIDE DEF all
  <1>2. ASSUME NEW i \in 1..Len(all), all[i] = Announces
        PROVE  i + 1 \in 1..Len(all) /\ all[i + 1] = "payload"
    <2>1. CASE i <= Len(a)
      <3>1. i \in 1..Len(a) /\ a[i] = Announces
        BY <1>1, <1>2, <2>1
      <3>2. i + 1 \in 1..Len(a) /\ a[i + 1] = "payload"
        BY <3>1 DEF Whole
      <3>3. QED
        BY <1>1, <3>2
    <2>2. CASE ~(i <= Len(a))
      <3>1. i - Len(a) \in 1..Len(b) /\ b[i - Len(a)] = Announces
        BY <1>1, <1>2, <2>2
      <3>2. (i - Len(a)) + 1 \in 1..Len(b) /\ b[(i - Len(a)) + 1] = "payload"
        BY <3>1 DEF Whole
      <3>3. /\ i + 1 \in 1..(Len(a) + Len(b)) /\ ~(i + 1 <= Len(a))
            /\ (i + 1) - Len(a) = (i - Len(a)) + 1
        BY <1>1, <2>2, <3>2
      <3>4. QED
        BY <1>1, <3>2, <3>3
    <2>3. QED
      BY <2>1, <2>2
  <1>3. ASSUME a # << >> PROVE all # << >> /\ Head(all) = Head(a)
    <2>1. Len(a) # 0
      BY <1>3, EmptySeq
    <2>2. Len(all) # 0 /\ all[1] = a[1]
      BY <1>1, <2>1
    <2>3. all # << >>
      BY <2>2, EmptySeq
    <2>4. Head(all) = all[1] /\ Head(a) = a[1]
      BY <1>0, <1>1, <1>3, <2>3, HeadTailProperties
    <2>5. QED
      BY <2>2, <2>3, <2>4
  <1>4. QED
    BY <1>2, <1>3 DEF Whole, all

(* A line that is no announcement needs nothing behind it. *)
LEMMA ShortIsWhole ==
    /\ Whole(<< >>)
    /\ \A a : a # Announces => Whole(<<a>>)
    /\ \A a, b : a # Announces /\ b # Announces => Whole(<<a, b>>)
    /\ \A a, b, c : a # Announces /\ b # Announces /\ c # Announces => Whole(<<a, b, c>>)
  BY DEF Whole

LEMMA ChunkIsWhole == Whole(<<Announces, "payload", "OK">>)
  <1> DEFINE s == <<Announces, "payload", "OK">>
  <1>1. Len(s) = 3 /\ s[1] = Announces /\ s[2] = "payload" /\ s[3] = "OK"
    OBVIOUS
  <1> HIDE DEF s
  <1>2. ASSUME NEW i \in 1..Len(s), s[i] = Announces PROVE i = 1
    <2>1. i = 1 \/ i = 2 \/ i = 3
      BY <1>1
    <2>2. QED
      BY <1>1, <1>2, <2>1 DEF Announces
  <1>3. 1 + 1 \in 1..Len(s) /\ s[1 + 1] = "payload"
    BY <1>1
  <1>4. Whole(s)
    BY <1>2, <1>3 DEF Whole
  <1>5. QED
    BY <1>4 DEF s

(* They say something, fall silent, or put a line into the queue.             *)
Says == \E new : IsSeq(new) /\ Whole(new) /\ Say(new)

Others ==
    /\ UNCHANGED state /\ (pulse' => pulse)
    /\ \/ UNCHANGED <<lines, arriving>>
       \/ Says
       \/ UNCHANGED lines /\ arriving' = <<"RDY">>
       \/ UNCHANGED lines /\ arriving' = << >> /\ pulse
       \/ UNCHANGED arriving /\ lines' = Append(lines, "_CONN")
       \/ LineArrives

LEMMA AppendTold ==
    ASSUME IsSeq(lines), UNCHANGED state, NEW l, lines' = Append(lines, l)
    PROVE  Told' = Append(Told, l)
  <1>1. PICK S : lines \in Seq(S)
    BY DEF IsSeq
  <1>2. CASE state = "NETWORK_RECEIVE"
    <2>1. Told = <<Announces>> \o lines /\ Told' = <<Announces>> \o Append(lines, l)
      BY <1>2 DEF Told
    <2> DEFINE T == S \cup {Announces, l}
    <2>2. <<Announces>> \in Seq(T) /\ lines \in Seq(T) /\ <<l>> \in Seq(T) /\ l \in T
      BY <1>1, SeqMonotonic
    <2>3. <<Announces>> \o lines \in Seq(T)
      BY <2>2, ConcatProperties
    <2> HIDE DEF T
    <2>4. /\ Append(lines, l) = lines \o <<l>>
          /\ Append(<<Announces>> \o lines, l) = (<<Announces>> \o lines) \o <<l>>
      BY <2>2, <2>3, AppendIsConcat
    <2>5. (<<Announces>> \o lines) \o <<l>> = <<Announces>> \o (lines \o <<l>>)
      BY <2>2, ConcatAssociative
    <2>6. QED
      BY <2>1, <2>4, <2>5
  <1>3. CASE state # "NETWORK_RECEIVE"
    BY <1>3 DEF Told
  <1>4. QED
    BY <1>2, <1>3

(* The line that arrives is the chunk, when the chunk is awaited.             *)
LEMMA ArrivesChunk ==
    ASSUME WireInv, ChunkInv, ChunkHasWay, LineArrives, pulse' => pulse PROVE ChunkInv'
  <1>1. IsSeq(arriving) /\ IsSeq(lines) /\ IsSeq(Told)
    BY ToldIsSeq DEF WireInv
  <1>2. arriving # << >> /\ arriving' = Tail(arriving) /\ UNCHANGED state
    BY DEF LineArrives, driverVars, machineVars
  <1>3. /\ Whole(arriving')
        /\ Head(arriving) = Announces => arriving' # << >> /\ Head(arriving') \in Follows
    BY <1>1, <1>2, WholeTail DEF ChunkInv, Follows
  <1>4. CASE UNCHANGED lines /\ (state \in Deaf \/ Len(lines) = EVENT_QUEUE_SIZE)
    <2>1. Told' = Told
      BY <1>2, <1>4 DEF Told
    <2>2. Len(lines) \in Nat /\ EVENT_QUEUE_SIZE \in Nat
      BY <1>1, DriverAssumption, LenProperties DEF IsSeq
    <2>3. ~HalfTold(Told)
      BY <1>4, <2>2 DEF ChunkHasWay
    <2>4. QED
      BY <1>2, <1>3, <2>1, <2>3 DEF ChunkInv
  <1>5. CASE lines' = Append(lines, Head(arriving))
    <2>1. Told' = Append(Told, Head(arriving))
      BY <1>1, <1>2, <1>5, AppendTold
    <2>2. HalfTold(Told) => Head(arriving) \in Follows
      BY DEF ChunkInv
    <2>3. /\ Orderly(Told')
          /\ HalfTold(Told') => \/ Head(arriving) = Announces
                                \/ Head(arriving) = "_CONN" /\ HalfTold(Told)
      BY <1>1, <2>1, <2>2, LineIsOrderly DEF ChunkInv
    <2>4. HalfTold(Told') => arriving' # << >> /\ Head(arriving') \in Follows
      BY <1>3, <2>2, <2>3 DEF Follows
    <2>5. QED
      BY <1>2, <1>3, <2>3, <2>4 DEF ChunkInv
  <1>6. QED
    BY <1>4, <1>5 DEF LineArrives

LEMMA OthersChunk ==
    ASSUME WireInv, ChunkInv, ChunkHasWay, Others PROVE ChunkInv'
  <1>1. IsSeq(arriving) /\ IsSeq(lines) /\ IsSeq(Told)
    BY ToldIsSeq DEF WireInv
  <1>2. UNCHANGED state /\ (pulse' => pulse)
    BY DEF Others
  <1>3. UNCHANGED lines => Told' = Told
    BY <1>2 DEF Told
  <1>4. CASE UNCHANGED <<lines, arriving>>
    BY <1>2, <1>3, <1>4 DEF ChunkInv
  <1>5. CASE Says
    <2>1. PICK new : IsSeq(new) /\ Whole(new) /\ Say(new)
      BY <1>5 DEF Says
    <2>2. /\ Whole(arriving')
          /\ arriving # << >> => arriving' # << >> /\ Head(arriving') = Head(arriving)
      BY <1>1, <2>1, WholeConcat DEF ChunkInv, Say
    <2>3. Told' = Told
      BY <1>3, <2>1 DEF Say
    <2>4. QED
      BY <1>2, <2>2, <2>3 DEF ChunkInv
  <1>6. CASE UNCHANGED lines /\ arriving' = <<"RDY">>
    <2>1. Whole(<<"RDY">>)
      BY ShortIsWhole DEF Announces
    <2>2. <<"RDY">> # << >> /\ Head(<<"RDY">>) \in Follows
      BY DEF Follows
    <2>3. QED
      BY <1>2, <1>3, <1>6, <2>1, <2>2 DEF ChunkInv
  <1>7. CASE UNCHANGED lines /\ arriving' = << >> /\ pulse
    <2>1. ~HalfTold(Told)
      BY <1>7 DEF ChunkInv, ChunkHasWay, Deaf
    <2>2. Whole(<< >>)
      BY ShortIsWhole
    <2>3. QED
      BY <1>2, <1>3, <1>7, <2>1, <2>2 DEF ChunkInv
  <1>8. CASE UNCHANGED arriving /\ lines' = Append(lines, "_CONN")
    <2>1. Told' = Append(Told, "_CONN")
      BY <1>1, <1>2, <1>8, AppendTold
    <2>2. Orderly(Told') /\ (HalfTold(Told') => HalfTold(Told))
      BY <1>1, <2>1, LineIsOrderly DEF ChunkInv, Announces
    <2>3. QED
      BY <1>2, <1>8, <2>2 DEF ChunkInv
  <1>9. QED
    BY <1>2, <1>4, <1>5, <1>6, <1>7, <1>8, ArrivesChunk DEF Others

LEMMA TextsAreCommands == \A s : Announces \notin EntryTexts(s)
  BY DEF EntryTexts, Announces

LEMMA AnsweredIsWhole ==
    ASSUME Head(chipIn).text # Announces, NEW answers, IsSeq(answers), Whole(answers), Answer(answers)
    PROVE  Says
  <1> DEFINE text == Head(chipIn).text
  <1>1. IsSeq(<<text>>) /\ Whole(<<text>>)
    BY ShortIsSeq, ShortIsWhole
  <1>2. Whole(<<text>> \o answers)
    BY <1>1, WholeConcat
  <1>3. IsSeq(<<text>> \o answers)
    BY AnswerIsSeq
  <1>4. QED
    BY <1>2, <1>3 DEF Answer, Says

LEMMA BootAnswersAreWhole ==
    \A text : \A a \in BootAnswers(text) \cup BootRefusals(text) : IsSeq(a) /\ Whole(a)
  BY BootAnswersAreSeqs, ShortIsWhole DEF BootAnswers, BootRefusals, Announces

LEMMA TellsWhole == ChipTells => Says
  <1> SUFFICES ASSUME ChipTells PROVE Says
    OBVIOUS
  <1> DEFINE text == Head(chipIn).text
             told == CASE text = "AT+QISTATE" ->
                             IF link = "UP" THEN <<"+QISTATE: 1", "OK">> ELSE <<"OK">>
                       [] text = "AT+QISEND=?" -> <<"+QISEND: (0-11)", "OK">>
                       [] text = "AT+QISEND=1,0" ->
                             IF link # "UP" THEN <<"ERROR">>
                             ELSE IF flying = << >> THEN <<"+QISEND: all", "OK">>
                             ELSE <<"+QISEND: some", "OK">>
  <1>1. text \in {"AT+QISTATE", "AT+QISEND=?", "AT+QISEND=1,0"}
    BY DEF ChipTells, Serve, Takes
  <1>2. Answer(told) \/ Answer(<<"+QISEND: 0", "OK">>)
    BY DEF ChipTells
  <1>3. IsSeq(told) /\ Whole(told)
    BY <1>1, ShortIsSeq, ShortIsWhole DEF Announces
  <1>4. text # Announces
    BY <1>1 DEF Announces
  <1>5. IsSeq(<<"+QISEND: 0", "OK">>) /\ Whole(<<"+QISEND: 0", "OK">>)
    BY ShortIsSeq, ShortIsWhole DEF Announces
  <1> HIDE DEF told
  <1>6. QED
    BY <1>2, <1>3, <1>4, <1>5, AnsweredIsWhole

(* The application, the network and the chip do nothing else. *)
LEMMA OthersAdd ==
    Connect \/ Send \/ Delivers \/ Arrives \/ Chip \/ ChipToggles \/ Fails \/ PeerSends
    \/ UNCHANGED vars => Others
  <1>1. CASE Connect \/ Send \/ Delivers \/ Arrives \/ ChipToggles \/ UNCHANGED vars
    <2>1. UNCHANGED state /\ (UNCHANGED pulse \/ pulse' = FALSE)
      BY <1>1 DEF Connect, Send, AppSend, Delivers, NetDelivers, Arrives, LineArrives, ChipToggles,
         vars, ownVars, chipVars, driverVars, machineVars
    <2>2. \/ UNCHANGED <<lines, arriving>>
          \/ UNCHANGED lines /\ arriving' = << >> /\ pulse
          \/ UNCHANGED arriving /\ lines' = Append(lines, "_CONN")
          \/ LineArrives
      BY <1>1 DEF Connect, Send, AppSend, Delivers, NetDelivers, Arrives, ChipToggles, vars, lineVars
    <2>3. QED
      BY <2>1, <2>2, Zenon DEF Others
  <1>2. CASE PeerSends
    <2>1. Says
      BY <1>2, ShortIsSeq, ShortIsWhole DEF PeerSends, Says, Announces
    <2>2. QED
      BY <1>2, <2>1 DEF PeerSends, Others, driverVars, machineVars
  <1>3. CASE Fails
    <2>1. UNCHANGED <<state, pulse>>
      BY <1>3 DEF Fails, ChipReboots, LinkLost, ChipMissesCommand, ChipSendFails, driverVars,
         machineVars
    <2>2. CASE \E l \in {"SEND FAIL", "+QIURC: closed", "+PDP: DEACT"} : Say(<<l>>)
      <3>1. Says
        BY <2>2, ShortIsSeq, ShortIsWhole DEF Says, Announces
      <3>2. QED
        BY <2>1, <3>1 DEF Others
    <2>3. CASE UNCHANGED lines /\ (UNCHANGED arriving \/ arriving' = <<"RDY">>)
      BY <2>1, <2>3 DEF Others
    <2>4. QED
      BY <1>3, <2>2, <2>3 DEF Fails, ChipReboots, LinkLost, ChipMissesCommand, ChipSendFails
  <1>4. CASE Chip
    <2> DEFINE text == Head(chipIn).text
    <2>1. UNCHANGED <<state, pulse>>
      BY <1>4 DEF Chip, ChipConfigures, ChipTells, ChipOpens, ChipConnects, ChipCloses, ChipShuts,
         ChipReads, ChipCancels, ChipIgnores, ChipPrompts, ChipTakesData, ChipSendOk, ChipOff,
         Serve, Takes, driverVars, machineVars
    <2>2. CASE ChipConfigures
      <3>1. text # Announces
        BY <2>2, TextsAreCommands DEF ChipConfigures, Serve, Takes, Configures
      <3>2. Says
        BY <2>2, <3>1, AnsweredIsWhole, BootAnswersAreWhole DEF ChipConfigures
      <3>3. QED
        BY <2>1, <3>2 DEF Others
    <2>3. CASE ChipTells
      BY <2>1, <2>3, TellsWhole DEF Others
    <2>4. CASE ChipOpens \/ ChipCloses \/ ChipShuts
      <3>1. text # Announces
        BY <2>4 DEF ChipOpens, ChipCloses, ChipShuts, Serve, Takes, Announces
      <3>2. \E a \in {<<"OK">>, <<"ERROR">>, <<"SHUT OK">>, <<"OK", "+QIOPEN: 1,err">>} : Answer(a)
        BY <2>4 DEF ChipOpens, ChipCloses, ChipShuts
      <3>3. \A a \in {<<"OK">>, <<"ERROR">>, <<"SHUT OK">>, <<"OK", "+QIOPEN: 1,err">>} :
                IsSeq(a) /\ Whole(a)
        BY ShortIsSeq, ShortIsWhole DEF Announces
      <3>4. QED
        BY <2>1, <3>1, <3>2, <3>3, AnsweredIsWhole DEF Others
    <2>5. CASE ChipReads
      <3>1. text # Announces
        BY <2>5 DEF ChipReads, Serve, Takes, Announces
      <3>2. \E a \in {<<Announces, "payload", "OK">>, <<"+QIRD: 0", "OK">>, <<"ERROR">>} : Answer(a)
        BY <2>5 DEF ChipReads, Announces
      <3>3. \A a \in {<<Announces, "payload", "OK">>, <<"+QIRD: 0", "OK">>, <<"ERROR">>} : IsSeq(a)
        BY ShortIsSeq
      <3>4. Whole(<<"+QIRD: 0", "OK">>) /\ Whole(<<"ERROR">>)
        BY ShortIsWhole DEF Announces
      <3>5. QED
        BY <2>1, <3>1, <3>2, <3>3, <3>4, ChunkIsWhole, AnsweredIsWhole DEF Others
    <2>6. CASE \/ ChipConnects \/ ChipCancels \/ ChipSendOk
               \/ ChipPrompts("AT+QISEND=n", <<"AT+QISEND=n">>, <<"AT+QISEND=n", "ERROR">>)
      <3> DEFINE told == {<<"+QIOPEN: 1,0">>, <<"+QIOPEN: 1,err">>, <<"> -">>, << >>, <<"ERROR">>,
                          <<"SEND OK">>, <<"AT+QISEND=n">>, <<"AT+QISEND=n", "ERROR">>}
      <3>1. \E new \in told : Say(new)
        BY <2>6 DEF ChipConnects, ChipCancels, ChipSendOk, ChipPrompts
      <3>2. \A new \in told : IsSeq(new) /\ Whole(new)
        BY ShortIsSeq, ShortIsWhole DEF Announces
      <3> HIDE DEF told
      <3>3. Says
        BY <3>1, <3>2 DEF Says
      <3>4. QED
        BY <2>1, <3>3 DEF Others
    <2>7. CASE ChipIgnores \/ ChipTakesData \/ ChipOff
      BY <2>1, <2>7 DEF Others, ChipIgnores, ChipTakesData, ChipOff
    <2>8. QED
      BY <1>4, <2>2, <2>3, <2>4, <2>5, <2>6, <2>7 DEF Chip
  <1>5. QED
    BY <1>1, <1>2, <1>3, <1>4

-----------------------------------------------------------------------------
(* The theorems. *)

(* No reset, lost connection or fault makes the driver give up data: every    *)
(* unit accepted has been dropped as sent, in its turn, or waits in its place. *)
THEOREM Bg96GivesNothingUp == Spec => []NothingGivenUp
  <1>1. BG96Inv => NothingGivenUp
    BY DEF BG96Inv, DriverInv, DataInv, BufferInv
  <1>2. QED
    BY <1>1, Bg96Inductive, PTL

(* From its measuring to its declaration a batch is not empty and lies within *)
(* the buffer, so the rule NETWORK_PREPARE_SEND has for an empty one is dead.  *)
THEOREM Bg96BatchInBuffer == Spec => []BatchInBuffer
  <1>1. BG96Inv => BatchInBuffer
    BY DEF BG96Inv, DriverInv, DataInv
  <1>2. QED
    BY <1>1, Bg96Inductive, PTL

(* Every variable of the driver and of its chip has its type and stays within *)
(* its bound; the retry counter, which is not cleared where its limit is      *)
(* reached, exceeds the limit by one at most.                                *)
THEOREM Bg96TypesHold == Spec => []TypeOK
  <1>1. BG96Inv => TypeOK
    BY DEF BG96Inv, DriverInv, WireInv, StatusTypes, CounterTypes, TypeOK
  <1>2. QED
    BY <1>1, Bg96Inductive, PTL

(* However often a batch is resent, missed by the chip, taken for payload or  *)
(* lost with the connection: no unit overtakes another one, and none is left  *)
(* out but those dropped as sent.                                            *)
THEOREM Bg96NothingOvertakes == Spec => []NothingOvertakes
  <1>1. BG96Inv => NothingOvertakes
    BY DriverOrder DEF BG96Inv
  <1>2. QED
    BY <1>1, Bg96Inductive, PTL

(* As long as no stale answer makes the driver drop what the peer does not    *)
(* have, driver and chip implement the promise of the interface.              *)
THEOREM Bg96ImplementsStream == Spec /\ []NoLoss => ImplementsStream
  <1>1. Init => Stream!Init
    <2> SUFFICES ASSUME Init PROVE Stream!Init
      OBVIOUS
    <2>1. /\ accepted = 0 /\ declared = {} /\ delivered = {} /\ dataToSendBuffer = << >>
          /\ Len(<< >>) = 0
      BY EmptySeq DEF Init, DriverInit
    <2>2. announced = FALSE
      BY DEF Init
    <2>3. QED
      BY <2>1, <2>2 DEF Stream!Init
  <1>2. BG96Inv /\ NoLoss /\ NoLoss' /\ [Next]_vars => [Stream!Next]_(Stream!vars)
    <2> SUFFICES ASSUME BG96Inv, NoLoss, NoLoss', [Next]_vars PROVE [Stream!Next]_(Stream!vars)
      OBVIOUS
    <2>1. CASE UNCHANGED announced
      <3>1. StreamMove
        BY Bg96Moves, MoveIsStreamMove DEF BG96Inv
      <3>2. QED
        BY <2>1, <3>1 DEF StreamMove, FirstWaiting, Stream!Next, Stream!vars, Stream!Accept,
           Stream!Deliver, Stream!GivenUp, Stream!Report
    <2>2. CASE announced = FALSE /\ announced' = TRUE /\ UNCHANGED <<bufferVars, delivered>>
      <3>1. UNCHANGED <<accepted, accepted - Len(dataToSendBuffer) + 1, declared, delivered>>
        BY <2>2 DEF bufferVars
      <3>2. QED
        BY <2>2, <3>1 DEF Stream!Next, Stream!Announce
    <2>3. announced \in BOOLEAN
      BY DEF BG96Inv, StatusTypes
    <2>4. QED
      BY <2>1, <2>2, <2>3, AnnouncedApart, Zenon DEF BG96Inv
  <1>3. QED
    BY <1>1, <1>2, Bg96Inductive, PTL DEF Spec, Stream!Spec, ImplementsStream

(* While AT+QIRD announces a chunk and the chunk itself is still to arrive,   *)
(* events of connect () may come in between, and a chip that reboots may say  *)
(* so instead.  As long as the interrupt is on and the event queue has room   *)
(* then, onData () gets the chunk or one of those: never an "OK", an echo or  *)
(* another answer, whatever is missed, resent, hung up or reset.              *)
THEOREM Bg96NoAnswerAsData == Spec /\ []ChunkHasWay => []NoAnswerAsData
  <1>1. Init => ChunkInv
    <2>1. Len(<< >>) = 0
      BY EmptySeq
    <2>2. QED
      BY <2>1 DEF Init, DriverInit, ChunkInv, Told, Orderly, Whole, HalfTold
  <1>2. WireInv /\ ChunkInv /\ ChunkHasWay /\ [Next]_vars => ChunkInv'
    <2> SUFFICES ASSUME WireInv, ChunkInv, ChunkHasWay, [Next]_vars PROVE ChunkInv'
      OBVIOUS
    <2>1. CASE Driver \/ TimerExpires
      BY <2>1, DriverChunk
    <2>2. CASE ~(Driver \/ TimerExpires)
      BY <2>2, OthersAdd, OthersChunk DEF Next
    <2>3. QED
      BY <2>1, <2>2
  <1>3. WireInv /\ ChunkInv => NoAnswerAsData
    <2> SUFFICES ASSUME WireInv, ChunkInv, state = "NETWORK_RECEIVE", lines # << >>
                 PROVE  line \in {"payload", "_CONN", "RDY"}
      BY DEF NoAnswerAsData
    <2>1. Told = <<Announces>> \o lines /\ IsSeq(lines)
      BY DEF Told, WireInv
    <2>2. /\ Len(Told) = Len(lines) + 1 /\ Len(lines) \in Nat /\ Told[1] = Announces
          /\ \A i \in 1..Len(lines) : Told[i + 1] = lines[i]
      BY <2>1, ToldOfLines
    <2>3. Len(lines) # 0 /\ line = lines[1]
      BY <2>1, EmptySeq, HeadTailProperties DEF IsSeq, line
    <2>4. 1 \in 1..Len(Told) /\ 2 \in 1..Len(Told) /\ Told[1 + 1] = lines[1]
      BY <2>2, <2>3
    <2>5. \A m \in (1 + 1)..(2 - 1) : Told[m] = "_CONN"
      OBVIOUS
    <2>6. Told[2] \in Follows \cup {"_CONN"}
      BY <2>2, <2>4, <2>5 DEF ChunkInv, Orderly
    <2>7. QED
      BY <2>3, <2>4, <2>6 DEF Follows
  <1>4. BG96Inv => WireInv
    BY DEF BG96Inv, DriverInv
  <1>5. QED
    BY <1>1, <1>2, <1>3, <1>4, Bg96Inductive, PTL DEF Spec
=============================================================================
