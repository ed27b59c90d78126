----------------------------- MODULE Mc60Modem ------------------------------
(***************************************************************************)
(* The MC60 driver (Mc60Modem.cc): the state machine its constructor       *)
(* builds, the application's calls, and the data they hand over, over the  *)
(* environment of Mc60Chip.                                                *)
(*                                                                         *)
(* The machine evaluates the transitions of its state in the order of      *)
(* declaration, with the next line of its event queue if there is one and  *)
(* with no line otherwise; global transitions come first, and global rules *)
(* see every line.  A line is used up by the evaluation that sees it; what *)
(* the conditions of the state have matched since it was entered is kept   *)
(* in "seen".  Delays are waits in which the machine does nothing: they    *)
(* are left out, but for the one in which the application's calls can      *)
(* change what the machine does next.  Timers are long against the         *)
(* machine's polling, so one runs out only where no line waits and no      *)
(* transition is possible, and of the timers of a state the shortest runs  *)
(* out first.                                                              *)
(***************************************************************************)
EXTENDS Mc60Chip, SendBuffer, Functions

CONSTANTS
    SleepWhenNothingToSend,  \* sleepWhenNothingToSend
    AT_RETRY_LIMIT,          \* 5: unanswered "AT" before configuring anyway
    QUERY_ACK_COUNT_LIMIT,   \* AT+QISACK queries before a batch is given up
    MAX_SMS,                 \* bound on the short messages waiting at once
    MAX_UNITS,               \* bound on the units the application sends
    MAX_CALLS,               \* bound on its calls other than connect and send
    AppCalls                 \* which of these calls it makes

ASSUME ModemAssumption ==
    /\ SleepWhenNothingToSend \in BOOLEAN
    /\ AT_RETRY_LIMIT \in Nat
    /\ QUERY_ACK_COUNT_LIMIT \in Nat
    /\ MAX_SMS \in Nat /\ MAX_UNITS \in Nat /\ MAX_CALLS \in Nat
    /\ AppCalls \subseteq {"disconnect", "power off", "power on", "sms"}

VARIABLES
    state,                   \* the machine's current state
    seen,                    \* lines its conditions matched since it was entered
    dataToSendBuffer,
    bytesToSendInSendStage,
    allAcked,                \* sent = acked, as QueryAckAction last parsed them
    ackQueryRetryNo,
    atQueryRetryNo,
    newDataToReceive,
    connected,
    address,                 \* the cached address and port, or NoAddress
    smsCollection,           \* how many messages wait
    accepted,                \* history: units send() has taken, numbered from 1
    declared,                \* history: units STAGE_DECLARE has dropped as sent
    smsRemoved,              \* history: messages Stage::REMOVE has dropped
    calls                    \* history: the application's bounded calls

machineVars == <<state, seen>>
bufferVars == <<dataToSendBuffer, bytesToSendInSendStage, declared>>
counterVars == <<allAcked, ackQueryRetryNo, atQueryRetryNo>>
appVars == <<address, accepted, calls>>
smsVars == <<smsCollection, smsRemoved>>
modemVars == <<machineVars, bufferVars, counterVars, appVars,
               newDataToReceive, connected, smsVars>>
vars == <<modemVars, chipVars>>

NoLine == ""
NoCommand == ""
NoAddress == "none"

TCP_SEND_DATA_DELAY_MS == 9000
SOFT_RESET_DELAY_MS == 15000
(* Mutant: longer than the soft reset delay, which the static_assert forbids. *)
HardResetTooLate == 16000
HARD_RESET_DELAY_MS == 14000

(* The states beside BootStates.  CLOSE_DELAY is the second the machine      *)
(* waits between CLOSE_AND_RECONNECT and CONNECT_TO_SERVER.                  *)
ResetStates == {"RESET_STAGE_DECIDE", "RESET_STAGE_POWER_OFF", "RESET_STAGE_POWER_ON", "GPRS_RESET"}
ShutDownStates == {"SHUT_DOWN_STAGE_START", "SHUT_DOWN_STAGE_POWER_OFF", "SHUT_DOWN"}
ConnectStates == {"CONTROL_WAIT_FOR_CONNECT", "CLOSE_AND_RECONNECT", "CLOSE_DELAY",
                  "CHECK_CONNECTION", "CONNECT_TO_SERVER"}
ReceiveStates == {"NETWORK_CHECK_RECEIVE", "NETWORK_BEGIN_RECEIVE", "NETWORK_RECEIVE"}
BatchStates == {"NETWORK_SEND", "NETWORK_ACK_CHECK", "NETWORK_ACK_CHECK_PARSE"}
SendStates == {"NETWORK_BEGIN_SEND", "SLEEP", "WAKE", "CHECK_CONNECTION_PRE_SEND",
               "NETWORK_PREPARE_SEND", "NETWORK_DECLARE_READ", "CANCEL_SEND"} \cup BatchStates
SmsStates == {"SMS_BEGIN_SEND", "SMS_SEND_SINGLE_NUMBER", "SMS_SEND_SINGLE_BODY",
              "SMS_SEND_SINGLE_REMOVE"}
States == BootStates \cup ResetStates \cup ShutDownStates \cup ConnectStates \cup
          {"NETWORK_GPS_USART_ECHO_OFF"} \cup ReceiveStates \cup SendStates \cup SmsStates

(* SUPPRESS_GLOBAL_TRANSITIONS.  Nothing is evaluated during CLOSE_DELAY.    *)
Suppressing == {"RESET_STAGE_POWER_OFF", "SLEEP", "SHUT_DOWN_STAGE_POWER_OFF", "SHUT_DOWN",
                "CLOSE_DELAY"}

-----------------------------------------------------------------------------
(* One evaluation of the machine. *)

line == IF lines = << >> THEN NoLine ELSE Head(lines)
Rest == IF lines = << >> THEN << >> ELSE Tail(lines)
Heard(l) == l = line \/ l \in seen
Answered(command) == Heard(command) /\ Heard("OK")
Failed == line \in {"ERROR", "+CME ERROR: 100", "+CMS ERROR"}
Disconnected == line = "CLOSED"

(* Lines that no condition combines with another need not be remembered.     *)
Unlatched == {NoLine, "_OFF", "RDY", "+QIRDI", "+CMTI", "CLOSED", "+PDP: DEACT", "SEND OK",
              "SEND FAIL", "SHUT OK", "> -"}

At(s) == state = s /\ (line = "_OFF" => s \in Suppressing)

(* The +QIRDI rule sees every line. *)
QirdiRule == newDataToReceive' = (newDataToReceive \/ line = "+QIRDI")

DriverFrame == UNCHANGED <<appVars, linkVars, power, netVars>>

(* No transition: the line is used up. *)
Skip ==
    /\ line # NoLine
    /\ seen' = seen \cup ({line} \ Unlatched)
    /\ lines' = Rest
    /\ QirdiRule
    /\ UNCHANGED <<state, bufferVars, counterVars, connected, smsVars, chipIn, pulse, rxOn,
                   faults>>
    /\ DriverFrame

Goto(next) ==
    /\ state' = next
    /\ seen' = {}
    /\ lines' = Rest
    /\ DriverFrame

Transmit(commands) == chipIn' = Received(commands)

(* What the states beside BootStates transmit on entry.  SmsSendSingleAction   *)
(* sends nothing when there is no message left.                              *)
LinkCommand(s) ==
    CASE s = "GPRS_RESET"                 -> "AT+CIPSHUT"
      [] s = "CLOSE_AND_RECONNECT"        -> "AT+QICLOSE"
      [] s = "CHECK_CONNECTION"           -> "AT+QISTATE"
      [] s = "CONNECT_TO_SERVER"          ->
             IF address = NoAddress THEN "AT+QIOPEN without address" ELSE "AT+QIOPEN"
      [] s = "NETWORK_GPS_USART_ECHO_OFF" -> "AT+QISDE=0"
      [] s = "NETWORK_BEGIN_RECEIVE"      -> "AT+QIRD"
      [] s = "SLEEP"                      -> "AT+QSCLK=2"
      [] s = "WAKE"                       -> "AT"
      [] s = "CHECK_CONNECTION_PRE_SEND"  -> "AT+QISTATE"
      [] s = "NETWORK_ACK_CHECK"          -> "AT+QISACK"
      [] s = "CANCEL_SEND"                -> "+++"
      [] s = "SMS_SEND_SINGLE_NUMBER" /\ smsCollection > 0 -> "AT+CMGS"
      [] s = "SMS_SEND_SINGLE_BODY" /\ smsCollection > 0   -> "sms body"
      [] OTHER                            -> NoCommand

EntryCommand(s) ==
    LET text == IF s \in BootStates THEN BootCommand(s) ELSE LinkCommand(s)
    IN  IF text = NoCommand THEN << >> ELSE <<Command(text, << >>)>>

(* A transition whose actions do no more than transmit. *)
EnterWith(next) ==
    /\ Goto(next)
    /\ Transmit(EntryCommand(next))
    /\ QirdiRule

Enter(next) ==
    /\ EnterWith(next)
    /\ UNCHANGED <<bufferVars, counterVars, connected, smsVars, pulse, rxOn, faults>>

(* The status pin, and the interrupt that receives characters. *)
statusHigh == power = "on"
statusLow == power = "off"
UsartAction(on) == rxOn' = on

OnConnected == connected' = TRUE

(* Mutant: without the early return when there is no connection. *)
OnDisconnectedAlways ==
    /\ connected' = FALSE /\ dataToSendBuffer' = << >>
    /\ UNCHANGED <<bytesToSendInSendStage, declared>>

(* The buffer is cleared together with the connection it was meant for.      *)
OnDisconnected ==
    /\ connected' = FALSE
    /\ dataToSendBuffer' = IF connected THEN << >> ELSE dataToSendBuffer
    /\ UNCHANGED <<bytesToSendInSendStage, declared>>

-----------------------------------------------------------------------------
(* Resets. *)

EnterDecide ==
    /\ Goto("RESET_STAGE_DECIDE")
    /\ OnDisconnected
    /\ UsartAction(FALSE)
    /\ QirdiRule
    /\ UNCHANGED <<counterVars, smsVars, chipIn, pulse>>

(* gsmPwrCycleOn and gsmPwrCycleOff both end a pulse on the power key. *)
EnterPulsing(next, rx) ==
    /\ EnterWith(next)
    /\ pulse' = TRUE
    /\ UsartAction(rx)
    /\ UNCHANGED <<bufferVars, counterVars, connected, smsVars, faults>>

(* Mutant: a modem that is on is configured as it is, without a power cycle. *)
ResetStageDecideKeepsPower ==
    /\ At("RESET_STAGE_DECIDE")
    /\ \/ /\ statusHigh /\ EnterWith("INIT") /\ UsartAction(TRUE)
          /\ UNCHANGED <<bufferVars, counterVars, connected, smsVars, pulse, faults>>
       \/ statusLow /\ EnterPulsing("RESET_STAGE_POWER_ON", rxOn)

ResetStageDecide ==
    /\ At("RESET_STAGE_DECIDE")
    /\ \/ line = "RDY" /\ Enter("PIN_STATUS_CHECK")
       \/ line # "RDY" /\ statusHigh /\ EnterPulsing("RESET_STAGE_POWER_OFF", rxOn)
       \/ line # "RDY" /\ statusLow /\ EnterPulsing("RESET_STAGE_POWER_ON", rxOn)

ResetStagePowerOff ==
    /\ At("RESET_STAGE_POWER_OFF")
    /\ \/ statusLow /\ EnterPulsing("RESET_STAGE_POWER_ON", rxOn)
       \/ statusHigh /\ Skip

ResetStagePowerOn ==
    /\ At("RESET_STAGE_POWER_ON")
    /\ \/ line = "RDY" /\ Enter("PIN_STATUS_CHECK")
       \/ /\ line # "RDY" /\ statusHigh
          /\ EnterWith("INIT")
          /\ UsartAction(TRUE)
          /\ UNCHANGED <<bufferVars, counterVars, connected, smsVars, pulse, faults>>
       \/ line # "RDY" /\ statusLow /\ Skip

(* Mutant: a refused AT+CIPSHUT does not lead to the hard reset. *)
GprsResetAcceptsError ==
    /\ At("GPRS_RESET")
    /\ \/ (line = "SHUT OK" \/ Failed) /\ Enter("GPS_USART_ECHO_ON")
       \/ line # "SHUT OK" /\ ~Failed /\ Skip

GprsReset ==
    /\ At("GPRS_RESET")
    /\ \/ line = "SHUT OK" /\ Enter("GPS_USART_ECHO_ON")
       \/ Failed /\ EnterDecide /\ UNCHANGED faults
       \/ line # "SHUT OK" /\ ~Failed /\ Skip

-----------------------------------------------------------------------------
(* Configuration. *)

Satisfied(rule) == \A l \in rule.needs : Heard(l) \/ (l = "ERROR" /\ Failed)

Init_AT ==
    LET answered == line = "OK" /\ "AT" \in seen
        giveUp == atQueryRetryNo > AT_RETRY_LIMIT
    IN  /\ At("INIT")
        /\ \/ /\ giveUp \/ answered
              /\ EnterWith("AT_QBTPWR")
              /\ atQueryRetryNo' = 0
              /\ UNCHANGED <<bufferVars, allAcked, ackQueryRetryNo, connected, smsVars,
                             pulse, rxOn, faults>>
           \/ ~giveUp /\ ~answered /\ Skip

Configure ==
    LET rules == {rule \in BootRules : rule.from = state} IN
    \E s \in BootStates \ {"INIT"} :
        /\ At(s)
        /\ \/ \E rule \in rules : Satisfied(rule) /\ Enter(rule.next)
           \/ (\A rule \in rules : ~Satisfied(rule)) /\ Skip

-----------------------------------------------------------------------------
(* Connecting. *)

ControlWaitForConnect ==
    /\ At("CONTROL_WAIT_FOR_CONNECT")
    /\ \/ address # NoAddress /\ Enter("CHECK_CONNECTION")
       \/ address = NoAddress /\ Skip

CloseAndReconnect ==
    /\ At("CLOSE_AND_RECONNECT")
    /\ \/ /\ Answered("AT+QICLOSE")
          /\ Goto("CLOSE_DELAY") /\ OnDisconnected /\ QirdiRule
          /\ UNCHANGED <<counterVars, smsVars, chipIn, pulse, rxOn, faults>>
       \/ ~Answered("AT+QICLOSE") /\ Skip

(* The delay is over.  No line is read in it. *)
CloseDelay ==
    /\ state = "CLOSE_DELAY"
    /\ state' = "CONNECT_TO_SERVER"
    /\ Transmit(EntryCommand("CONNECT_TO_SERVER"))
    /\ UNCHANGED <<seen, lines, bufferVars, counterVars, connected, smsVars,
                   newDataToReceive, pulse, rxOn, faults>>
    /\ DriverFrame

(* CHECK_CONNECTION and CHECK_CONNECTION_PRE_SEND: ask for the connection's state. *)
QueryState(s, up) ==
    /\ At(s)
    /\ \/ /\ Answered("AT+QISTATE") /\ Heard("STATE: CONNECT OK")
          /\ up
       \/ /\ Answered("AT+QISTATE") /\ Heard("STATE: other") /\ ~Heard("STATE: CONNECT OK")
          /\ Enter("CONNECT_TO_SERVER")
       \/ /\ ~(Answered("AT+QISTATE") /\ (Heard("STATE: CONNECT OK") \/ Heard("STATE: other")))
          /\ Skip

CheckConnection == QueryState("CHECK_CONNECTION", Enter("NETWORK_GPS_USART_ECHO_OFF"))

ConnectToServer ==
    LET up == Heard("OK") /\ (Heard("CONNECT OK") \/ Heard("ALREADY CONNECT"))
        refused == line = "CONNECT FAIL" \/ Failed
    IN  /\ At("CONNECT_TO_SERVER")
        /\ \/ /\ up
              /\ EnterWith("NETWORK_GPS_USART_ECHO_OFF")
              /\ OnConnected
              /\ UNCHANGED <<bufferVars, counterVars, smsVars, pulse, rxOn, faults>>
           \/ ~up /\ refused /\ Enter("CLOSE_AND_RECONNECT")
           \/ ~up /\ ~refused /\ Skip

EchoOff ==
    /\ At("NETWORK_GPS_USART_ECHO_OFF")
    /\ \/ Answered("AT+QISDE=0") /\ Enter("NETWORK_CHECK_RECEIVE")
       \/ ~Answered("AT+QISDE=0") /\ Skip

-----------------------------------------------------------------------------
(* Receiving. *)

CheckReceive ==
    /\ At("NETWORK_CHECK_RECEIVE")
    /\ Enter(IF newDataToReceive THEN "NETWORK_BEGIN_RECEIVE" ELSE "NETWORK_BEGIN_SEND")

(* ParseRecvLengthCondition: an answer that announces at least one byte. *)
parseRecvLenCondition == line = "+QIRD: n"

(* Mutant: newDataToReceive is cleared when data are announced, not when none are left. *)
BeginReceiveClearsEarly ==
    LET known == parseRecvLenCondition \/ Answered("AT+QIRD") IN
    /\ At("NETWORK_BEGIN_RECEIVE")
    /\ \/ /\ known
          /\ Goto(IF parseRecvLenCondition THEN "NETWORK_RECEIVE" ELSE "NETWORK_BEGIN_SEND")
          /\ newDataToReceive' = FALSE
          /\ UNCHANGED <<bufferVars, counterVars, connected, smsVars, chipIn, pulse, rxOn, faults>>
       \/ ~known /\ Skip

BeginReceive ==
    /\ At("NETWORK_BEGIN_RECEIVE")
    /\ \/ parseRecvLenCondition /\ Enter("NETWORK_RECEIVE")
       \/ /\ Answered("AT+QIRD") /\ ~parseRecvLenCondition
          /\ Goto("NETWORK_BEGIN_SEND") /\ UNCHANGED chipIn
          /\ newDataToReceive' = FALSE
          /\ UNCHANGED <<bufferVars, counterVars, connected, smsVars, pulse, rxOn, faults>>
       \/ Failed /\ Enter("CLOSE_AND_RECONNECT")
       \/ ~parseRecvLenCondition /\ ~Answered("AT+QIRD") /\ ~Failed /\ Skip

Receive ==
    /\ At("NETWORK_RECEIVE")
    /\ \/ Heard("payload") /\ Heard("OK") /\ Enter("NETWORK_CHECK_RECEIVE")
       \/ ~(Heard("payload") /\ Heard("OK")) /\ Skip

-----------------------------------------------------------------------------
(* Sending. *)

BeginSend ==
    /\ At("NETWORK_BEGIN_SEND")
    /\ \/ Disconnected /\ Enter("CLOSE_AND_RECONNECT")
       \/ ~Disconnected /\ dataToSendBuffer # << >> /\ Enter("CHECK_CONNECTION_PRE_SEND")
       \/ ~Disconnected /\ dataToSendBuffer = << >> /\ SleepWhenNothingToSend /\ Enter("SLEEP")
       \/ ~Disconnected /\ dataToSendBuffer = << >> /\ ~SleepWhenNothingToSend /\ Skip

(* Mutant: data to send do not wake the modem. *)
SleepOn == At("SLEEP") /\ Skip

Sleep ==
    /\ At("SLEEP")
    /\ \/ dataToSendBuffer # << >> /\ Enter("WAKE")
       \/ dataToSendBuffer = << >> /\ Skip

Wake ==
    /\ At("WAKE")
    /\ \/ line = "OK" /\ Enter("CHECK_CONNECTION_PRE_SEND")
       \/ line # "OK" /\ Skip

(* STAGE_PREPARE on entry: a batch of nothing is not announced.              *)
EnterPrepare ==
    LET n == BatchSize(dataToSendBuffer) IN
    /\ Goto("NETWORK_PREPARE_SEND")
    /\ bytesToSendInSendStage' = n
    /\ Transmit(IF n = 0 THEN << >> ELSE <<Command("AT+QISEND", << >>)>>)
    /\ QirdiRule
    /\ UNCHANGED <<dataToSendBuffer, declared, counterVars, connected, smsVars, pulse, rxOn,
                   faults>>

CheckConnectionPreSend == QueryState("CHECK_CONNECTION_PRE_SEND", EnterPrepare)

(* STAGE_SEND on entry. *)
EnterSend ==
    /\ Goto("NETWORK_SEND")
    /\ Transmit(<<Command("data", Batch(dataToSendBuffer, bytesToSendInSendStage))>>)
    /\ QirdiRule
    /\ UNCHANGED <<bufferVars, counterVars, connected, smsVars, pulse, rxOn, faults>>

PrepareSend ==
    LET empty == bytesToSendInSendStage = 0 IN
    /\ At("NETWORK_PREPARE_SEND")
    /\ \/ Disconnected /\ Enter("CLOSE_AND_RECONNECT")
       \/ ~Disconnected /\ empty /\ Enter("CHECK_CONNECTION")
       \/ ~empty /\ Failed /\ Enter("CLOSE_AND_RECONNECT")
       \/ ~empty /\ line = "AT+QISEND" /\ EnterSend
       \/ ~Disconnected /\ ~empty /\ ~Failed /\ line # "AT+QISEND" /\ Skip

(* A transition that sets the count of acknowledge queries. *)
EnterCounting(next, count) ==
    /\ EnterWith(next)
    /\ ackQueryRetryNo' = count
    /\ UNCHANGED <<bufferVars, allAcked, atQueryRetryNo, connected, smsVars, pulse, rxOn,
                   faults>>

Send ==
    LET broken == Disconnected \/ Failed \/ line \in {"SEND FAIL", "+PDP: DEACT"} IN
    /\ At("NETWORK_SEND")
    /\ \/ broken /\ Enter("CLOSE_AND_RECONNECT")
       \/ line = "SEND OK" /\ EnterCounting("NETWORK_ACK_CHECK", 0)
       \/ ~broken /\ line # "SEND OK" /\ Skip

(* QueryAckAction: are the two counters of the answer equal? *)
QueryAck == Heard("+QISACK: all")

AckCheck ==
    LET parsed == Heard("+QISACK: all") \/ Heard("+QISACK: some") IN
    /\ At("NETWORK_ACK_CHECK")
    /\ \/ /\ Answered("AT+QISACK") /\ parsed
          /\ EnterWith("NETWORK_ACK_CHECK_PARSE")
          /\ allAcked' = QueryAck
          /\ UNCHANGED <<bufferVars, ackQueryRetryNo, atQueryRetryNo, connected, smsVars,
                         pulse, rxOn, faults>>
       \/ ~(Answered("AT+QISACK") /\ parsed) /\ Skip

(* STAGE_DECLARE on entry. *)
EnterDeclare ==
    /\ Goto("NETWORK_DECLARE_READ")
    /\ LET left == Declare(dataToSendBuffer, bytesToSendInSendStage) IN
       /\ dataToSendBuffer' = left
       /\ declared' = declared \cup
              {dataToSendBuffer[i] : i \in 1..(Len(dataToSendBuffer) - Len(left))}
    /\ ackQueryRetryNo' = 0
    /\ QirdiRule
    /\ UNCHANGED <<bytesToSendInSendStage, allAcked, atQueryRetryNo, connected, smsVars,
                   chipIn, pulse, rxOn, faults>>

(* Mutant: the batch is dropped whatever the counters say. *)
AckCheckParseUnchecked ==
    /\ At("NETWORK_ACK_CHECK_PARSE")
    /\ \/ Disconnected /\ Enter("CLOSE_AND_RECONNECT")
       \/ ~Disconnected /\ EnterDeclare

AckCheckParse ==
    LET tired == ackQueryRetryNo > QUERY_ACK_COUNT_LIMIT IN
    /\ At("NETWORK_ACK_CHECK_PARSE")
    /\ \/ Disconnected /\ Enter("CLOSE_AND_RECONNECT")
       \/ ~Disconnected /\ tired /\ EnterCounting("CANCEL_SEND", 0)
       \/ ~Disconnected /\ ~tired /\ allAcked /\ EnterDeclare
       \/ /\ ~Disconnected /\ ~tired /\ ~allAcked
          /\ EnterCounting("NETWORK_ACK_CHECK", ackQueryRetryNo + 1)

DeclareRead ==
    /\ At("NETWORK_DECLARE_READ")
    /\ Enter(IF Disconnected THEN "CLOSE_AND_RECONNECT" ELSE "SMS_BEGIN_SEND")

CancelSend ==
    /\ At("CANCEL_SEND")
    /\ \/ line = "SEND OK" /\ Enter("CHECK_CONNECTION")
       \/ /\ Failed \/ line = "> -"
          /\ EnterWith("GPRS_RESET") /\ OnDisconnected
          /\ UNCHANGED <<counterVars, smsVars, pulse, rxOn, faults>>
       \/ line \notin {"SEND OK", "> -"} /\ ~Failed /\ Skip

-----------------------------------------------------------------------------
(* Short messages. *)

SmsBeginSend ==
    /\ At("SMS_BEGIN_SEND")
    /\ Enter(IF smsCollection > 0 THEN "SMS_SEND_SINGLE_NUMBER" ELSE "CHECK_CONNECTION")

SmsSendSingleNumber ==
    /\ At("SMS_SEND_SINGLE_NUMBER")
    /\ Enter("SMS_SEND_SINGLE_BODY")

(* SmsSendSingleAction, Stage::REMOVE: does nothing when there is no message. *)
RemoveSms ==
    /\ smsCollection' = IF smsCollection = 0 THEN 0 ELSE smsCollection - 1
    /\ smsRemoved' = smsRemoved + (smsCollection - smsCollection')

(* Mutant: the echo of AT+CMGS passes for the answer. *)
SmsSendSingleBodyUnanswered ==
    /\ At("SMS_SEND_SINGLE_BODY")
    /\ \/ /\ Heard("AT+CMGS")
          /\ EnterWith("SMS_SEND_SINGLE_REMOVE")
          /\ RemoveSms
          /\ UNCHANGED <<bufferVars, counterVars, connected, pulse, rxOn, faults>>
       \/ ~Heard("AT+CMGS") /\ Skip

(* The message goes, whether it was accepted or refused. *)
SmsSendSingleBody ==
    LET done == Answered("AT+CMGS") \/ line = "+CMS ERROR" IN
    /\ At("SMS_SEND_SINGLE_BODY")
    /\ \/ /\ done
          /\ EnterWith("SMS_SEND_SINGLE_REMOVE")
          /\ RemoveSms
          /\ UNCHANGED <<bufferVars, counterVars, connected, pulse, rxOn, faults>>
       \/ ~done /\ Skip

SmsSendSingleRemove ==
    /\ At("SMS_SEND_SINGLE_REMOVE")
    /\ Enter("SMS_BEGIN_SEND")

-----------------------------------------------------------------------------
(* Switching off. *)

(* The global transition on _OFF. *)
TurnOff ==
    /\ line = "_OFF" /\ state \notin Suppressing
    /\ Enter("SHUT_DOWN_STAGE_START")

ShutDownStageStart ==
    /\ At("SHUT_DOWN_STAGE_START")
    /\ \/ statusHigh /\ EnterPulsing("SHUT_DOWN_STAGE_POWER_OFF", FALSE)
       \/ statusLow /\ Enter("SHUT_DOWN")

ShutDownStagePowerOff ==
    /\ At("SHUT_DOWN_STAGE_POWER_OFF")
    /\ \/ statusLow /\ Enter("SHUT_DOWN")
       \/ statusHigh /\ Skip

ShutDown == At("SHUT_DOWN") /\ Skip

-----------------------------------------------------------------------------
(* Timers. *)

(* The timer a state has of its own: how long, and where it leads. *)
OwnDelay(s) ==
    CASE s \in {"RESET_STAGE_POWER_OFF", "GPRS_RESET"} -> HARD_RESET_DELAY_MS
      [] s \in {"INIT", "WAKE"}                        -> 1000
      [] s = "NETWORK_BEGIN_SEND"                      -> 10000
      [] s = "NETWORK_SEND"                            -> TCP_SEND_DATA_DELAY_MS

OwnTimer(s) ==
    CASE s \in {"RESET_STAGE_POWER_OFF", "GPRS_RESET"} -> "RESET_STAGE_DECIDE"
      [] s = "NETWORK_SEND"                            -> "CANCEL_SEND"
      [] OTHER                                         -> s

OwnTimers == {"RESET_STAGE_POWER_OFF", "GPRS_RESET", "INIT", "WAKE", "NETWORK_BEGIN_SEND",
              "NETWORK_SEND"}

(* Has the state a timer, and is it the first to run out? *)
OwnTimerFirst(s) ==
    /\ s \in OwnTimers
    /\ OwnDelay(s) < SOFT_RESET_DELAY_MS \/ s \in Suppressing

Timed(s) == OwnTimerFirst(s) \/ s \notin Suppressing

AfterTimer(s) == IF OwnTimerFirst(s) THEN OwnTimer(s) ELSE "GPRS_RESET"

(* Could the machine go on without a line? *)
CanProceed ==
    \/ state \in {"RESET_STAGE_DECIDE", "NETWORK_CHECK_RECEIVE", "NETWORK_ACK_CHECK_PARSE",
                  "NETWORK_DECLARE_READ", "SMS_BEGIN_SEND", "SMS_SEND_SINGLE_NUMBER",
                  "SMS_SEND_SINGLE_REMOVE", "SHUT_DOWN_STAGE_START"}
    \/ state = "RESET_STAGE_POWER_OFF" /\ power = "off"
    \/ state = "RESET_STAGE_POWER_ON" /\ power = "on"
    \/ state = "INIT" /\ atQueryRetryNo > AT_RETRY_LIMIT
    \/ state = "CONTROL_WAIT_FOR_CONNECT" /\ address # NoAddress
    \/ state = "NETWORK_BEGIN_SEND" /\ (dataToSendBuffer # << >> \/ SleepWhenNothingToSend)
    \/ state = "NETWORK_PREPARE_SEND" /\ bytesToSendInSendStage = 0

(* The timer of the state runs out.  That is a fault if the chip still owes  *)
(* the driver something: it is too slow.                                     *)
TimerExpires ==
    /\ lines = << >> /\ ~CanProceed /\ Timed(state)
    /\ IF Owes THEN Fault ELSE UNCHANGED faults
    /\ LET next == AfterTimer(state) IN
       \/ next = "RESET_STAGE_DECIDE" /\ EnterDecide
       \/ /\ next # "RESET_STAGE_DECIDE" /\ EnterWith(next)
          /\ atQueryRetryNo' = IF state = "INIT" THEN atQueryRetryNo + 1 ELSE atQueryRetryNo
          /\ UNCHANGED <<bufferVars, allAcked, ackQueryRetryNo, connected, smsVars, pulse,
                         rxOn>>

-----------------------------------------------------------------------------
(* The application's calls, from the main loop or from a callback. *)

AppFrame ==
    UNCHANGED <<machineVars, counterVars, newDataToReceive, bytesToSendInSendStage, declared>>

Connect ==
    /\ address = NoAddress /\ address' = "server"
    /\ UNCHANGED <<dataToSendBuffer, connected, smsVars, accepted, calls, chipVars>>
    /\ AppFrame

AppSend ==
    \E n \in 1..(MAX_UNITS - accepted) :
        LET data == [i \in 1..n |-> accepted + i] IN
        /\ Fits(dataToSendBuffer, data)
        /\ dataToSendBuffer' = dataToSendBuffer \o data
        /\ accepted' = accepted + n
        /\ UNCHANGED <<connected, smsVars, address, calls, chipVars>>
        /\ AppFrame

Calls(name) ==
    /\ name \in AppCalls /\ calls < MAX_CALLS
    /\ calls' = calls + 1
    /\ UNCHANGED accepted

Disconnect ==
    /\ Calls("disconnect")
    /\ address # NoAddress /\ address' = NoAddress
    /\ UNCHANGED <<dataToSendBuffer, connected, smsVars, chipVars>>
    /\ AppFrame

(* power (false): nothing happens when the event queue is full. *)
PowerOff ==
    /\ Calls("power off")
    /\ lines' = Queued(lines, <<"_OFF">>)
    /\ UNCHANGED <<dataToSendBuffer, connected, smsVars, address, chipIn, linkVars, pinVars,
                   netVars, faults>>
    /\ AppFrame

(* power (true): machine.reset (), which enters the initial state. *)
PowerOn ==
    /\ Calls("power on")
    /\ state' = "RESET_STAGE_DECIDE" /\ seen' = {}
    /\ OnDisconnected
    /\ UsartAction(FALSE)
    /\ UNCHANGED <<counterVars, newDataToReceive, smsVars, address, lines, chipIn, linkVars,
                   power, pulse, netVars, faults>>

AddSms ==
    /\ Calls("sms")
    /\ smsCollection < MAX_SMS /\ smsCollection' = smsCollection + 1
    /\ UNCHANGED <<smsRemoved, dataToSendBuffer, connected, address, chipVars>>
    /\ AppFrame

-----------------------------------------------------------------------------
(* The MCU starts: the initial state is entered, the chip may still be on    *)
(* and even connected from before.                                           *)
Init ==
    /\ ChipInit
    /\ state = "RESET_STAGE_DECIDE" /\ seen = {}
    /\ dataToSendBuffer = << >> /\ bytesToSendInSendStage = 0
    /\ allAcked = TRUE /\ ackQueryRetryNo = 0 /\ atQueryRetryNo = 0
    /\ newDataToReceive = FALSE /\ connected = FALSE
    /\ address = NoAddress /\ smsCollection = 0 /\ smsRemoved = 0
    /\ accepted = 0 /\ declared = {} /\ calls = 0

Driver ==
    \/ ResetStageDecide \/ ResetStagePowerOff \/ ResetStagePowerOn \/ GprsReset
    \/ Init_AT \/ Configure
    \/ ControlWaitForConnect \/ CloseAndReconnect \/ CloseDelay \/ CheckConnection
    \/ ConnectToServer \/ EchoOff
    \/ CheckReceive \/ BeginReceive \/ Receive
    \/ BeginSend \/ Sleep \/ Wake \/ CheckConnectionPreSend \/ PrepareSend \/ Send
    \/ AckCheck \/ AckCheckParse \/ DeclareRead \/ CancelSend
    \/ SmsBeginSend \/ SmsSendSingleNumber \/ SmsSendSingleBody \/ SmsSendSingleRemove
    \/ TurnOff \/ ShutDownStageStart \/ ShutDownStagePowerOff \/ ShutDown

App == Connect \/ AppSend \/ Disconnect \/ PowerOff \/ PowerOn \/ AddSms

Serves == ChipServes /\ UNCHANGED modemVars
Reports == ChipReports /\ UNCHANGED modemVars
Delivers == NetDelivers /\ UNCHANGED modemVars
Acks == NetAcks /\ UNCHANGED modemVars
Fails == (ChipFails \/ PeerSends) /\ UNCHANGED modemVars

Next == Driver \/ TimerExpires \/ App \/ Serves \/ Reports \/ Delivers \/ Acks \/ Fails

Spec == Init /\ [][Next]_vars

(* The main loop keeps running the machine, its timers run out, a working    *)
(* chip serves its commands and reports what it owes, the network delivers,  *)
(* and the application asks for its connection.                              *)
Fairness ==
    /\ WF_vars(Driver) /\ WF_vars(TimerExpires) /\ WF_vars(Connect)
    /\ WF_vars(Serves) /\ WF_vars(Reports) /\ WF_vars(Delivers) /\ WF_vars(Acks)

FairSpec == Spec /\ Fairness

-----------------------------------------------------------------------------
(* The promise of the interface, implemented by the driver over the chip.    *)
(* What send() took and is still waiting are the last units accepted.        *)
Stream == INSTANCE DataStream WITH
    first <- accepted - Len(dataToSendBuffer) + 1, sent <- declared

-----------------------------------------------------------------------------
(* Properties. *)

Units == 1..MAX_UNITS

MachineTypeOK ==
    /\ state \in States /\ seen \subseteq Lines
    /\ lines \in Seq(Lines) /\ Len(lines) <= EVENT_QUEUE_SIZE

BufferTypeOK ==
    /\ dataToSendBuffer \in Seq(Units) /\ Len(dataToSendBuffer) <= OUTPUT_BUFFER_SIZE
    /\ bytesToSendInSendStage \in 0..GSM_MAX_BYTES_SEND
    /\ accepted \in 0..MAX_UNITS
    /\ declared \subseteq Units

FlagTypeOK ==
    /\ allAcked \in BOOLEAN /\ newDataToReceive \in BOOLEAN /\ connected \in BOOLEAN
    /\ ackQueryRetryNo \in 0..(QUERY_ACK_COUNT_LIMIT + 1)
    /\ atQueryRetryNo \in 0..(AT_RETRY_LIMIT + 1)
    /\ address \in {NoAddress, "server"} /\ calls \in 0..MAX_CALLS
    /\ smsCollection \in 0..MAX_SMS /\ smsRemoved \in Nat /\ smsAnswered \in Nat

ChipTypeOK ==
    /\ rxOn \in BOOLEAN /\ power \in {"on", "off"} /\ pulse \in BOOLEAN
    /\ chipIn \in Seq([text : Texts, data : Seq(Units)]) /\ Len(chipIn) <= COMMAND_LIMIT
    /\ link \in Links /\ prompt \in BOOLEAN /\ sendDue \in BOOLEAN
    /\ flying \in Seq(Units) /\ delivered \subseteq Units
    /\ counters \in {"none", "all", "some"}
    /\ inbox \in 0..MAX_INBOX /\ pushed \in 0..MAX_INBOX /\ inbox <= pushed
    /\ faults \in 0..MAX_FAULTS

(* Every variable has its type and stays within its bound: the queue and the  *)
(* buffer within their capacities, the retry counters within their limits.    *)
TypeOK == MachineTypeOK /\ BufferTypeOK /\ FlagTypeOK /\ ChipTypeOK

(* What waits in dataToSendBuffer is always the last units send() accepted,  *)
(* in their order, and no unit dropped as sent: none is skipped, reordered   *)
(* or sent again after it was declared, however send(), the batches and the  *)
(* clearing on a lost connection interleave.                                 *)
BufferOrder ==
    LET waiting == Len(dataToSendBuffer) IN
    /\ waiting <= accepted
    /\ \A i \in 1..waiting : dataToSendBuffer[i] = accepted - waiting + i
    /\ \A u \in declared : u <= accepted - waiting

(* From the measuring of a batch to its declaration the buffer holds all of it, *)
(* so that transmit () never reads past its end: nothing clears the buffer and  *)
(* lets the machine go on with the batch, neither a lost connection, nor a      *)
(* reset, nor a call of the application.                                       *)
BatchWithinBuffer ==
    state \in {"NETWORK_PREPARE_SEND"} \cup BatchStates =>
        bytesToSendInSendStage <= Len(dataToSendBuffer)

(* The units given up with a lost connection. *)
Discarded == (1..accepted) \ (declared \cup Range(dataToSendBuffer))

(* STAGE_DECLARE drops a unit as sent, which onSent then reports, only when   *)
(* the peer has received it.                                                 *)
NoLoss == declared \subseteq delivered

(* The peer receives a unit only when it has received every earlier one that  *)
(* was not given up: resending after a cancelled or broken send leaves no gap. *)
NoHole == \A t \in delivered : \A u \in 1..t : u \in delivered \cup Discarded

(* The states that use the connection. *)
DataStates ==
    SendStates \cup ReceiveStates \cup SmsStates \cup {"NETWORK_GPS_USART_ECHO_OFF"}

(* The driver uses a connection only when onConnected has announced one, even *)
(* when CHECK_CONNECTION finds it up and goes on without announcing it.       *)
OnlineStatesConnected == state \in DataStates => connected

(* No reset leaves a connection behind: while the driver configures the chip  *)
(* and hears it, the chip has none.                                          *)
BootWithoutLink == state \in BootStates /\ rxOn => link = "DOWN"

(* A message is removed only when the chip has accepted or refused its text:  *)
(* no "OK" of an earlier command passes for the answer.                       *)
SmsRemovedOnlyAnswered == smsRemoved <= smsAnswered

(* Data the chip holds are known to the driver or announced to it: clearing   *)
(* newDataToReceive never overwrites a later +QIRDI.                          *)
NoLostWakeup ==
    rxOn /\ link = "UP" /\ inbox > 0 => newDataToReceive \/ "+QIRDI" \in Range(lines)

(* isConnected () tells whether a TCP connection is present: it is not while  *)
(* the driver opens one, having been told that there is none.                 *)
ConnectedMeansPresent == state = "CONNECT_TO_SERVER" => ~connected

(* After disconnect () the driver opens no connection. *)
NoReconnect ==
    [][state # "CONNECT_TO_SERVER" /\ state' = "CONNECT_TO_SERVER" => address # NoAddress]_vars

(* power (false) switches off a modem that sleeps. *)
OffDuringSleep ==
    [][state = "SLEEP" /\ line = "_OFF" /\ lines' = Rest => state' = "SHUT_DOWN_STAGE_START"]_vars

(* The driver implements the stream of DataStream. *)
ImplementsStream == Stream!Spec

(* Data given to send() do not stay in the buffer for ever. *)
Drains == dataToSendBuffer # << >> ~> dataToSendBuffer = << >>

(* Whatever fails, the driver always gets to use a connection again. *)
Recovers == []<>(state \in DataStates)

(* The chip does not wait for ever for the data AT+QISEND announced. *)
PromptEnds == prompt ~> ~prompt
=============================================================================
