------------------------------ MODULE Bg96Modem ------------------------------
(***************************************************************************)
(* The BG96 driver (bg96Modem/Bg96Modem.cc): the state machine its         *)
(* constructor builds, connect () and send (), and the chip as far as the  *)
(* driver relies on it.  connect () leaves the address in an event of the  *)
(* queue, where the entry action of CONNECT_TO_SERVER looks for it.        *)
(*                                                                         *)
(* RESET_STAGE_POWER_OFF and the SHUT_DOWN states are left out: no         *)
(* transition and no call leads to them.  disconnect () and power () do    *)
(* nothing, and of the callbacks only onConnected and onData are called.   *)
(***************************************************************************)
EXTENDS AtDriver

CONSTANTS
    QUERY_ACK_COUNT_LIMIT,   \* AT+QISEND=1,0 queries before a batch is cancelled
    MAX_INBOX                \* bound on the chunks the peer sends

ASSUME Bg96Assumption == QUERY_ACK_COUNT_LIMIT \in Nat /\ MAX_INBOX \in Nat

VARIABLES
    allAcked,                \* sent = acked, as QueryAckAction last parsed them
    ackQueryRetryNo,
    announced,               \* history: onConnected has been called
    power, pulse,            \* is the chip on; has the power key been pressed
    inbox, pushed            \* chunks the chip holds for the driver, and has ever held

counterVars == <<allAcked, ackQueryRetryNo>>
chipVars == <<power, pulse, inbox, pushed>>
ownVars == <<counterVars, announced, chipVars>>
vars == <<driverVars, lineVars, ownVars>>

-----------------------------------------------------------------------------
(* The states that wait for lines, each with its transitions. *)

(* From a reset to CONTROL_WAIT_FOR_CONNECT. *)
BootRules ==
    [GPRS_RESET        |-> <<When({"SHUT OK"}, "GPS_USART_ECHO_ON"),
                             When({"%ERROR%"}, "RESET_STAGE_DECIDE")>>,
     GPS_USART_ECHO_ON |-> <<When({"OK"}, "INIT")>>,
     INIT              |-> <<When({"AT", "OK"}, "GNSS_SET_PORT")>>,
     GNSS_SET_PORT     |-> <<When({"OK"}, "GNSS_STATE_CHECK")>>,
     GNSS_STATE_CHECK  |-> <<When({"+QGPS: 0"}, "GNSS_TURN_ON"),
                             When({"+QGPS: 1"}, "PIN_STATUS_CHECK")>>,
     GNSS_TURN_ON      |-> <<When({"+CME ERROR: 5"}, "GNSS_STATE_CHECK"),
                             When({"OK"}, "PIN_STATUS_CHECK")>>,
     PIN_STATUS_CHECK  |-> <<When({"+CPIN: READY", "OK"}, "SIGNAL_QUALITY_CHECK"),
                             When({"%ERROR%"}, "PIN_STATUS_CHECK"),
                             When({"+CPIN: SIM PIN", "OK"}, "ENTER_PIN")>>,
     ENTER_PIN         |-> <<When({"AT+CPIN=", "OK"}, "PIN_STATUS_CHECK"),
                             When({"%ERROR%"}, "PIN_STATUS_CHECK")>>,
     SIGNAL_QUALITY_CHECK |-> <<When({"+CSQ: 99", "OK"}, "SIGNAL_QUALITY_CHECK"),
                                When({"+CSQ:", "OK"}, "NETWORK_REGISTRATION_CHECK")>>,
     NETWORK_REGISTRATION_CHECK |->
         <<When({"+CREG: not registered", "OK"}, "SIGNAL_QUALITY_CHECK"),
           When({"%ERROR%"}, "INIT"),
           When({"+CREG: registered", "OK"}, "APN_USER_PASSWD_INPUT")>>,
     APN_USER_PASSWD_INPUT |-> <<When({"%ERROR%"}, "GPRS_RESET"),
                                 When({"AT+QICSGP=", "OK"}, "PDP_CONTEXT_CHECK")>>,
     PDP_CONTEXT_CHECK |-> <<When({"+QIACT: 1"}, "DNS_CONFIG"),
                             WhenInOrder("AT+QIACT?", "OK", "ACTIVATE_PDP_CONTEXT")>>,
     ACTIVATE_PDP_CONTEXT |-> <<WhenInOrder("AT+QIACT=", "OK", "DNS_CONFIG")>>,
     DNS_CONFIG        |-> <<When({"%ERROR%"}, "INIT"),
                             When({"AT+QIDNSCFG=", "OK"}, "NETWORK_GPS_USART_ECHO_OFF")>>,
     NETWORK_GPS_USART_ECHO_OFF |->
         <<When({"AT+QISDE=0", "OK"}, "CONTROL_WAIT_FOR_CONNECT")>>]

disconnected == When({"+QIURC: closed"}, "CLOSE_AND_RECONNECT")
error == When({"%ERROR%"}, "CLOSE_AND_RECONNECT")

(* Mutant: "+QIRD: 0" announces a chunk, too. *)
ReceiveRulesWithoutLength ==
    <<When({"+QIRD: n"}, "NETWORK_RECEIVE"), When({"+QIRD: 0"}, "NETWORK_RECEIVE"), error>>

(* ParseRecvLengthCondition: "+QIRD: n" stands for a length above zero.       *)
ReceiveRules ==
    <<When({"+QIRD: n"}, "NETWORK_RECEIVE"), When({"+QIRD: 0"}, "NETWORK_BEGIN_SEND"), error>>

(* The connection.                                                           *)
(* The rule NETWORK_PREPARE_SEND has for an empty batch is never satisfied:   *)
(* NETWORK_BEGIN_SEND goes on with data only, and the driver drops none.      *)
LinkRules ==
    [CLOSE_AND_RECONNECT |-> <<When({"AT+QICLOSE", "OK"}, "CONNECT_TO_SERVER")>>,
     CONNECT_TO_SERVER |-> <<When({"+QIOPEN: 1,0"}, "NETWORK_BEGIN_RECEIVE"),
                             When({"+QIOPEN: 1"}, "CLOSE_AND_RECONNECT"), error>>,
     NETWORK_BEGIN_RECEIVE |-> ReceiveRules,
     NETWORK_QUERY_MODEM_OUTPUT_BUFFER_MAX_LEN |->
         <<disconnected, When({"+QISEND: 0"}, "CHECK_CONNECTION"),
           When({"+QISEND: (0-11)", "OK"}, "NETWORK_PREPARE_SEND")>>,
     NETWORK_PREPARE_SEND |-> <<disconnected, error, When({"AT+QISEND="}, "NETWORK_SEND")>>,
     NETWORK_SEND      |-> <<disconnected, When({"SEND OK"}, "NETWORK_ACK_CHECK"), error,
                             When({"CLOSED"}, "CLOSE_AND_RECONNECT"),
                             When({"SEND FAIL"}, "CLOSE_AND_RECONNECT"),
                             When({"+PDP: DEACT"}, "CLOSE_AND_RECONNECT")>>,
     NETWORK_ACK_CHECK |-> <<disconnected,
                             When({"OK", "+QISEND: "}, "NETWORK_ACK_CHECK_PARSE")>>,
     CANCEL_SEND       |-> <<When({"SEND OK"}, "CHECK_CONNECTION"),
                             When({"%ERROR%"}, "GPRS_RESET"), When({"> -"}, "GPRS_RESET")>>]

AskingStates == DOMAIN BootRules \cup DOMAIN LinkRules
Rules(s) == IF s \in DOMAIN BootRules THEN BootRules[s] ELSE LinkRules[s]

-----------------------------------------------------------------------------
(* Transitions. *)

(* What a state may transmit on entry.  Whether an event that holds a line    *)
(* of the chip also holds an address depends on what its place in the queue   *)
(* has held before.                                                          *)
EntryTexts(s) ==
    CASE s = "GPRS_RESET"                 -> {"AT+CIPSHUT"}
      [] s = "GPS_USART_ECHO_ON"          -> {"ATE1"}
      [] s = "INIT"                       -> {"AT"}
      [] s = "GNSS_SET_PORT"              -> {"AT+QGPSCFG"}
      [] s = "GNSS_STATE_CHECK"           -> {"AT+QGPS?"}
      [] s = "GNSS_TURN_ON"               -> {"AT+QGPS=1"}
      [] s = "PIN_STATUS_CHECK"           -> {"AT+CPIN?"}
      [] s = "ENTER_PIN"                  -> {"AT+CPIN="}
      [] s = "SIGNAL_QUALITY_CHECK"       -> {"AT+CSQ"}
      [] s = "NETWORK_REGISTRATION_CHECK" -> {"AT+CREG?"}
      [] s = "APN_USER_PASSWD_INPUT"      -> {"AT+QICSGP="}
      [] s = "PDP_CONTEXT_CHECK"          -> {"AT+QIACT?"}
      [] s = "ACTIVATE_PDP_CONTEXT"       -> {"AT+QIACT="}
      [] s = "DNS_CONFIG"                 -> {"AT+QIDNSCFG="}
      [] s = "NETWORK_GPS_USART_ECHO_OFF" -> {"AT+QISDE=0"}
      [] s = "CLOSE_AND_RECONNECT"        -> {"AT+QICLOSE"}
      [] s = "CHECK_CONNECTION"           -> {"AT+QISTATE"}
      [] s = "CONNECT_TO_SERVER"          ->
             {"AT+QIOPEN"} \cup (IF line = "_CONN" THEN {} ELSE {"AT+QIOPEN without address"})
      [] s = "NETWORK_BEGIN_RECEIVE"      -> {"AT+QIRD"}
      [] s = "NETWORK_QUERY_MODEM_OUTPUT_BUFFER_MAX_LEN" -> {"AT+QISEND=?"}
      [] s = "NETWORK_PREPARE_SEND"       -> {"AT+QISEND=n"}
      [] s = "NETWORK_SEND"               -> {"data"}
      [] s = "NETWORK_ACK_CHECK"          -> {"AT+QISEND=1,0"}
      [] s = "CANCEL_SEND"                -> {"+++"}
      [] OTHER                            -> {}

EntryCommands(s) ==
    IF EntryTexts(s) = {} THEN {<< >>}
    ELSE {<<[text |-> t, data |-> IF t = "data" THEN BatchToSend ELSE << >>]>> : t \in EntryTexts(s)}

(* SendNetworkAction on entry. *)
EntryBuffer(s) ==
    CASE s = "NETWORK_PREPARE_SEND" -> Prepare
      [] s = "NETWORK_DECLARE_READ" -> DeclareRead
      [] OTHER                      -> UNCHANGED bufferVars

Enter(next, rest) ==
    /\ \E commands \in EntryCommands(next) : Goto(next, rest, commands)
    /\ EntryBuffer(next)

(* QueryAckAction: are the first two counters of the answer equal?  Those of  *)
(* an answer without counters are both zero.  It reads the answer that was    *)
(* retained; which one of several, is left open.                              *)
QueryAck ==
    \E answer \in Matching("+QISEND: ") :
        (answer = line \/ answer \in seen) /\ allAcked' = (answer # "+QISEND: some")

(* The actions of the transitions between the states that wait for lines.     *)
Actions(next) ==
    /\ IF next = "NETWORK_ACK_CHECK_PARSE" THEN QueryAck ELSE UNCHANGED allAcked
    /\ ackQueryRetryNo' = IF next = "NETWORK_ACK_CHECK" THEN 0 ELSE ackQueryRetryNo
    /\ announced' = (announced \/ (state = "CONNECT_TO_SERVER" /\ next = "NETWORK_BEGIN_RECEIVE"))
    /\ UNCHANGED <<chipVars, faults>>

Read ==
    /\ state \in AskingStates /\ lines # << >>
    /\ \/ NoneSatisfied(Rules(state)) /\ Skip /\ UNCHANGED ownVars
       \/ \E i \in DOMAIN Rules(state) :
             /\ First(Rules(state), i)
             /\ Enter(Rules(state)[i].next, Rest) /\ Actions(Rules(state)[i].next)

-----------------------------------------------------------------------------
(* The other states. *)

(* A pulse switches the chip over, whether it was on or off.                  *)
Decide ==
    /\ state = "RESET_STAGE_DECIDE"
    /\ Enter("RESET_STAGE_POWER_ON", Rest)
    /\ pulse' = TRUE
    /\ UNCHANGED <<counterVars, announced, power, inbox, pushed, faults>>

(* Seven and a half seconds later; a chip that has not reacted by then fails. *)
PowerOn ==
    /\ state = "RESET_STAGE_POWER_ON"
    /\ Enter("INIT", Rest)
    /\ pulse' = FALSE
    /\ IF pulse THEN Fault ELSE UNCHANGED faults
    /\ UNCHANGED <<counterVars, announced, power, inbox, pushed>>

(* The event of connect () stays in the queue for the next state.             *)
ControlWaitForConnect ==
    /\ state = "CONTROL_WAIT_FOR_CONNECT" /\ lines # << >>
    /\ IF line = "_CONN"
       THEN Enter("CHECK_CONNECTION", lines) /\ UNCHANGED <<ownVars, faults>>
       ELSE Skip /\ UNCHANGED ownVars

(* Without a connection AT+QISTATE answers nothing but "OK".                  *)
CheckConnection ==
    /\ state = "CHECK_CONNECTION" /\ GoesOn
    /\ \/ Waiting("+QISTATE: 1") /\ Enter("NETWORK_BEGIN_RECEIVE", Behind("+QISTATE: 1"))
       \/ ~Waiting("+QISTATE: 1") /\ Enter("CONNECT_TO_SERVER", Rest)
    /\ UNCHANGED ownVars

(* onData () gets whatever comes next.                                        *)
Receive ==
    /\ state = "NETWORK_RECEIVE" /\ lines # << >>
    /\ Enter("NETWORK_BEGIN_SEND", Rest)
    /\ UNCHANGED <<ownVars, faults>>

(* A state that goes on at once, unless the next line ends the connection.    *)
GoOn(from, next) ==
    /\ state = from
    /\ Enter(IF line = "+QIURC: closed" THEN "CLOSE_AND_RECONNECT" ELSE next, Rest)
    /\ UNCHANGED <<announced, allAcked, chipVars, faults>>

(* Mutant: goes on whether there are data or not. *)
BeginSendUnchecked ==
    /\ GoOn("NETWORK_BEGIN_SEND", "NETWORK_QUERY_MODEM_OUTPUT_BUFFER_MAX_LEN")
    /\ UNCHANGED ackQueryRetryNo

BeginSend ==
    /\ GoOn("NETWORK_BEGIN_SEND",
            IF dataToSendBuffer = << >> THEN "NETWORK_BEGIN_RECEIVE"
            ELSE "NETWORK_QUERY_MODEM_OUTPUT_BUFFER_MAX_LEN")
    /\ UNCHANGED ackQueryRetryNo

(* Mutant: the batch is dropped whatever the counters say. *)
AckCheckParseUnchecked ==
    GoOn("NETWORK_ACK_CHECK_PARSE", "NETWORK_DECLARE_READ") /\ ackQueryRetryNo' = 0

(* Mutant: without the transition to CANCEL_SEND. *)
AckCheckParseUnlimited ==
    LET next == IF allAcked THEN "NETWORK_DECLARE_READ" ELSE "NETWORK_ACK_CHECK"
    IN  /\ GoOn("NETWORK_ACK_CHECK_PARSE", next)
        /\ ackQueryRetryNo' =
              IF line = "+QIURC: closed" THEN ackQueryRetryNo
              ELSE IF next = "NETWORK_ACK_CHECK" THEN ackQueryRetryNo + 1 ELSE 0

(* The count is not cleared when the limit is reached.                        *)
AckCheckParse ==
    LET next == IF ackQueryRetryNo > QUERY_ACK_COUNT_LIMIT THEN "CANCEL_SEND"
                ELSE IF allAcked THEN "NETWORK_DECLARE_READ" ELSE "NETWORK_ACK_CHECK"
    IN  /\ GoOn("NETWORK_ACK_CHECK_PARSE", next)
        /\ ackQueryRetryNo' =
              IF line = "+QIURC: closed" \/ next = "CANCEL_SEND" THEN ackQueryRetryNo
              ELSE IF next = "NETWORK_ACK_CHECK" THEN ackQueryRetryNo + 1 ELSE 0

DeclaredRead ==
    GoOn("NETWORK_DECLARE_READ", "CHECK_CONNECTION") /\ UNCHANGED ackQueryRetryNo

(* The timer of the state or the soft reset runs out: the shorter one.  That  *)
(* is a fault if the chip still owes the driver something: it is too slow.    *)
Timed == AskingStates \cup {"CONTROL_WAIT_FOR_CONNECT", "NETWORK_RECEIVE"}

AfterTimer(s) ==
    CASE s = "GPRS_RESET" /\ HARD_RESET_DELAY_MS < SOFT_RESET_DELAY_MS -> "RESET_STAGE_DECIDE"
      [] s = "NETWORK_SEND" /\ TCP_SEND_DATA_DELAY_MS < SOFT_RESET_DELAY_MS -> "CANCEL_SEND"
      [] OTHER -> "GPRS_RESET"

Owes == power = "on" /\ (chipIn # << >> \/ arriving # << >> \/ link = "OPENING" \/ sendDue)

TimerExpires ==
    /\ state \in Timed /\ lines = << >>
    /\ Enter(AfterTimer(state), << >>)
    /\ IF Owes THEN Fault ELSE UNCHANGED faults
    /\ UNCHANGED ownVars

(* connect () does nothing when the queue is full.  The application calls it  *)
(* until onConnected.                                                        *)
Connect ==
    /\ ~announced /\ ~Waiting("_CONN") /\ Len(lines) < EVENT_QUEUE_SIZE
    /\ lines' = Append(lines, "_CONN")
    /\ UNCHANGED <<driverVars, arriving, chipIn, linkVars, delivered, faults, ownVars>>

-----------------------------------------------------------------------------
(* The chip.  It answers a configuration command ... *)

Configures == UNION {EntryTexts(s) : s \in DOMAIN BootRules \ {"GPRS_RESET"}}

BootAnswers(text) ==
    CASE text = "AT+QGPS?"  -> {<<"+QGPS: 0", "OK">>, <<"+QGPS: 1", "OK">>}
      [] text = "AT+CPIN?"  -> {<<"+CPIN: READY", "OK">>}
      [] text = "AT+CSQ"    -> {<<"+CSQ: n", "OK">>}
      [] text = "AT+CREG?"  -> {<<"+CREG: registered", "OK">>}
      [] text = "AT+QIACT?" -> {<<"OK">>, <<"+QIACT: 1", "OK">>}
      [] OTHER              -> {<<"OK">>}

(* ... or refuses it. *)
BootRefusals(text) ==
    CASE text = "AT+QGPS=1" -> {<<"+CME ERROR: 5">>}
      [] text = "AT+CPIN?"  -> {<<"+CPIN: SIM PIN", "OK">>, <<"ERROR">>}
      [] text = "AT+CSQ"    -> {<<"+CSQ: 99", "OK">>}
      [] text = "AT+CREG?"  -> {<<"+CREG: not registered", "OK">>, <<"ERROR">>}
      [] OTHER              -> {<<"ERROR">>}

ChipConfigures ==
    /\ Serve(Configures)
    /\ \/ (\E a \in BootAnswers(Head(chipIn).text) : Answer(a)) /\ UNCHANGED faults
       \/ (\E a \in BootRefusals(Head(chipIn).text) : Answer(a)) /\ Fault
    /\ UNCHANGED <<linkVars, inbox>>

(* A query of the connection. *)
ChipTells ==
    /\ Serve({"AT+QISTATE", "AT+QISEND=?", "AT+QISEND=1,0"})
    /\ LET text == Head(chipIn).text IN
       \/ /\ Answer(CASE text = "AT+QISTATE" ->
                             IF link = "UP" THEN <<"+QISTATE: 1", "OK">> ELSE <<"OK">>
                      [] text = "AT+QISEND=?" -> <<"+QISEND: (0-11)", "OK">>
                      [] text = "AT+QISEND=1,0" ->
                             IF link # "UP" THEN <<"ERROR">>
                             ELSE IF flying = << >> THEN <<"+QISEND: all", "OK">>
                             ELSE <<"+QISEND: some", "OK">>)
          /\ UNCHANGED faults
       \/ text = "AT+QISEND=?" /\ Answer(<<"+QISEND: 0", "OK">>) /\ Fault
    /\ UNCHANGED <<linkVars, inbox>>

(* AT+QIOPEN is acknowledged at once, its result follows later.               *)
ChipOpens ==
    /\ Serve({"AT+QIOPEN", "AT+QIOPEN without address"})
    /\ Answer(IF link # "DOWN" THEN <<"ERROR">>
              ELSE IF Head(chipIn).text = "AT+QIOPEN" THEN <<"OK">>
              ELSE <<"OK", "+QIOPEN: 1,err">>)
    /\ link' = IF link = "DOWN" /\ Head(chipIn).text = "AT+QIOPEN" THEN "OPENING" ELSE link
    /\ UNCHANGED <<prompt, sendDue, flying, faults, inbox>>

ChipConnects ==
    /\ link = "OPENING"
    /\ \/ link' = "UP" /\ Say(<<"+QIOPEN: 1,0">>) /\ UNCHANGED faults
       \/ link' = "DOWN" /\ Say(<<"+QIOPEN: 1,err">>) /\ Fault
    /\ UNCHANGED <<driverVars, chipIn, prompt, sendDue, flying, delivered, inbox>>

ChipCloses ==
    /\ Serve({"AT+QICLOSE"})
    /\ Answer(<<"OK">>)
    /\ Hangup /\ inbox' = 0
    /\ UNCHANGED faults

(* Not every chip knows AT+CIPSHUT. *)
ChipShuts ==
    /\ Serve({"AT+CIPSHUT"})
    /\ \/ Answer(<<"SHUT OK">>) /\ Hangup /\ inbox' = 0
       \/ Answer(<<"ERROR">>) /\ UNCHANGED <<linkVars, inbox>>
    /\ UNCHANGED faults

ChipReads ==
    /\ Serve({"AT+QIRD"})
    /\ Answer(IF inbox > 0 THEN <<"+QIRD: n", "payload", "OK">>
              ELSE IF link = "UP" THEN <<"+QIRD: 0", "OK">> ELSE <<"ERROR">>)
    /\ inbox' = IF inbox > 0 THEN inbox - 1 ELSE 0
    /\ UNCHANGED <<linkVars, faults>>

(* "+++" ends data mode; without it, it is not a command.                     *)
ChipCancels ==
    /\ Takes({"+++"})
    /\ Say(IF prompt THEN <<"> -">> ELSE IF sendDue THEN << >> ELSE <<"ERROR">>)
    /\ prompt' = FALSE
    /\ UNCHANGED <<link, sendDue, flying, faults, inbox>>

(* In data mode a command is taken for payload, else data for noise.          *)
ChipIgnores ==
    /\ chipIn # << >> /\ prompt = (Head(chipIn).text # "data") /\ Head(chipIn).text # "+++"
    /\ arriving = << >> /\ chipIn' = Tail(chipIn)
    /\ UNCHANGED <<driverVars, lines, arriving, linkVars, delivered, faults, inbox>>

PeerSends ==
    /\ link = "UP" /\ pushed < MAX_INBOX
    /\ pushed' = pushed + 1 /\ inbox' = inbox + 1
    /\ Say(<<"+QIURC: recv">>)
    /\ UNCHANGED <<driverVars, chipIn, linkVars, delivered, faults, counterVars, announced, power, pulse>>

(* A pulse on the power key switches the chip over.                           *)
ChipToggles ==
    /\ pulse /\ pulse' = FALSE
    /\ power' = IF power = "on" THEN "off" ELSE "on"
    /\ chipIn' = << >> /\ arriving' = << >> /\ Hangup /\ inbox' = 0
    /\ UNCHANGED <<driverVars, lines, delivered, faults, counterVars, announced, pushed>>

(* In the middle of what it was saying. *)
ChipReboots ==
    /\ power = "on" /\ Fault
    /\ arriving' = <<"RDY">>
    /\ chipIn' = << >> /\ Hangup /\ inbox' = 0
    /\ UNCHANGED <<driverVars, lines, delivered>>

(* What is sent to a chip that is off gets lost. *)
ChipOff ==
    /\ power = "off" /\ chipIn # << >>
    /\ chipIn' = << >>
    /\ UNCHANGED <<driverVars, lines, arriving, linkVars, delivered, faults, inbox>>

-----------------------------------------------------------------------------
(* The chip may still be on, and even connected, when the MCU starts.         *)
Init ==
    /\ DriverInit
    /\ state = "RESET_STAGE_DECIDE"
    /\ allAcked = TRUE /\ ackQueryRetryNo = 0 /\ announced = FALSE
    /\ power \in {"on", "off"} /\ (link = "UP" => power = "on")
    /\ pulse = FALSE /\ inbox = 0 /\ pushed = 0

Driver ==
    \/ Read \/ Decide \/ PowerOn \/ ControlWaitForConnect \/ CheckConnection \/ Receive
    \/ BeginSend \/ AckCheckParse \/ DeclaredRead

(* What a working chip does sooner or later, and what may go wrong. *)
Chip ==
    /\ \/ /\ power = "on"
          /\ \/ ChipConfigures \/ ChipTells \/ ChipOpens \/ ChipConnects \/ ChipCloses
             \/ ChipShuts \/ ChipReads \/ ChipCancels \/ ChipIgnores
             \/ ChipPrompts("AT+QISEND=n", <<"AT+QISEND=n">>, <<"AT+QISEND=n", "ERROR">>)
                /\ UNCHANGED inbox
             \/ (ChipTakesData \/ ChipSendOk) /\ UNCHANGED inbox
       \/ ChipOff
    /\ UNCHANGED <<counterVars, announced, power, pulse, pushed>>

Fails ==
    /\ \/ ChipReboots
       \/ LinkLost({"+QIURC: closed", "+PDP: DEACT"}) /\ inbox' = 0
       \/ (ChipMissesCommand \/ ChipSendFails) /\ UNCHANGED inbox
    /\ UNCHANGED <<counterVars, announced, power, pulse, pushed>>

Send == AppSend /\ UNCHANGED ownVars
Delivers == NetDelivers /\ UNCHANGED ownVars
Arrives == LineArrives /\ UNCHANGED ownVars

Next ==
    \/ Driver \/ TimerExpires \/ Connect \/ Send
    \/ Chip \/ ChipToggles \/ Arrives \/ Fails \/ Delivers \/ PeerSends

Spec == Init /\ [][Next]_vars

(* The main loop keeps running the machine, a working chip does its work, the *)
(* network delivers.  The application goes on asking for a connection until   *)
(* it has been told of one: now and then while the driver waits for it.  Its  *)
(* events do not stop the timers, which run out although lines come between.  *)
Fairness ==
    /\ WF_vars(Driver) /\ SF_vars(TimerExpires)
    /\ SF_vars(state = "CONTROL_WAIT_FOR_CONNECT" /\ Connect)
    /\ WF_vars(Chip) /\ WF_vars(ChipToggles) /\ WF_vars(Arrives) /\ WF_vars(Delivers)

FairSpec == Spec /\ Fairness

(* The promise of the interface; onDisconnected is never called.              *)
Stream == INSTANCE DataStream WITH
    first <- accepted - Len(dataToSendBuffer) + 1, sent <- declared, connected <- announced

-----------------------------------------------------------------------------
(* Properties. *)

(* Every variable has its type and stays within its bound: the retry counter  *)
(* too, which is not cleared where its limit is reached, but with every send. *)
TypeOK ==
    /\ DriverTypeOK
    /\ allAcked \in BOOLEAN /\ ackQueryRetryNo \in 0..(QUERY_ACK_COUNT_LIMIT + 1)
    /\ announced \in BOOLEAN /\ power \in {"on", "off"} /\ pulse \in BOOLEAN
    /\ link \in {"DOWN", "OPENING", "UP"} /\ inbox \in 0..pushed /\ pushed \in 0..MAX_INBOX

(* NETWORK_RECEIVE gives onData () whatever line comes next.  The chunk that  *)
(* AT+QIRD announced comes line by line, and an event of connect () can get   *)
(* before it, as can the first words of a chip that reboots; but neither the  *)
(* "OK" of AT+QIRD nor any other answer is ever given for data.               *)
NoAnswerAsData ==
    state = "NETWORK_RECEIVE" /\ lines # << >> => line \in {"payload", "_CONN", "RDY"}

(* The driver implements the stream of DataStream: what it drops as sent has  *)
(* arrived, and nothing before it is missing, after resets as after resends.  *)
ImplementsStream == Stream!Spec

(* The two ways to give up a connection for good: waiting for a call of       *)
(* connect () when onConnected has been called and onDisconnected never will  *)
(* be, and opening a connection to no address.                               *)
Abandoned ==
    \/ state = "CONTROL_WAIT_FOR_CONNECT" /\ announced
    \/ chipIn # << >> /\ Head(chipIn).text = "AT+QIOPEN without address"

(* Data given to send () leave the buffer, unless the driver abandons the     *)
(* connection in one of the two ways for good: no other state, dialogue or    *)
(* reset keeps them for ever.                                                *)
DrainsOrAbandons ==
    []<>Abandoned \/ (dataToSendBuffer # << >> ~> dataToSendBuffer = << >>)

(* An AT+QIOPEN carries the address that connect () was called with, when the *)
(* driver connects again as when it connects first.                           *)
OpensWithAddress ==
    \A i \in DOMAIN chipIn : chipIn[i].text # "AT+QIOPEN without address"
=============================================================================
