------------------------------ MODULE Mc60Chip ------------------------------
(***************************************************************************)
(* The environment of the MC60 driver: the modem chip at the other end of  *)
(* the USART, the TCP peer behind it, and the library queue that carries   *)
(* the chip's lines to the driver's state machine.  None of it is code of  *)
(* this repository: it is what Mc60Modem.cc expects of them, and the       *)
(* failures it has transitions for.                                        *)
(*                                                                         *)
(* Assumptions.  The chip serves commands one at a time in the order they  *)
(* were sent and its answers are not reordered.  Its acknowledge counters  *)
(* start afresh with each connection and keep their values after it ends.  *)
(* Between "AT+QISEND" and the announced data it takes everything it is    *)
(* sent for payload.  Switching it off or rebooting it drops the           *)
(* connection.  The event queue holds EVENT_QUEUE_SIZE lines and drops     *)
(* what does not fit.  A fault is anything this environment does that a    *)
(* prompt, connected, error-free modem would not; there are at most        *)
(* MAX_FAULTS of them.                                                     *)
(***************************************************************************)
EXTENDS Integers, Sequences, Mc60Boot

CONSTANTS
    EVENT_QUEUE_SIZE,  \* capacity of the state machine's event queue
    COMMAND_LIMIT,     \* commands the chip can have received and not served
    MAX_FAULTS,        \* bound on the environment's failures
    MAX_INBOX,         \* bound on the chunks the peer sends
    ZeroCounters       \* does a chip that has had no connection since it was switched
                       \* on answer AT+QISACK with zeros (or else with an error)

ASSUME ChipAssumption ==
    /\ EVENT_QUEUE_SIZE \in Nat \ {0}
    /\ COMMAND_LIMIT \in Nat \ {0}
    /\ MAX_FAULTS \in Nat
    /\ MAX_INBOX \in Nat
    /\ ZeroCounters \in BOOLEAN

VARIABLES
    lines,      \* the state machine's event queue
    rxOn,       \* does the USART interrupt deliver characters (UsartAction)
    power,      \* the status pin: "on" or "off"
    pulse,      \* a pulse on the power key the chip has not reacted to
    chipIn,     \* commands the chip has received and not served
    link,       \* the TCP connection, as the chip knows it
    prompt,     \* is the chip waiting for the data AT+QISEND announced
    sendDue,    \* does the chip owe a "SEND OK" for data it took
    flying,     \* units the chip took and the peer has not received
    counters,   \* the acknowledge counters: "none" yet, "all" or "some" acknowledged
    inbox,      \* chunks the chip has received and the driver has not fetched
    pushed,     \* chunks the peer has sent
    delivered,  \* the units the peer has received
    smsAnswered, \* how many message texts the chip has accepted or refused
    faults      \* how many failures have happened

linkVars == <<link, prompt, sendDue, flying, counters, inbox>>
pinVars == <<power, pulse, rxOn>>
netVars == <<pushed, delivered, smsAnswered>>
chipVars == <<lines, chipIn, linkVars, pinVars, netVars, faults>>

(* The links a TCP connection goes through: none, AT+QIOPEN under way, up.  *)
Links == {"DOWN", "OPENING", "UP"}

(* The lines the connected part of the driver reads, beside BootLines.      *)
LinkLines ==
    {"RDY", "SHUT OK", "AT+QICLOSE", "AT+QISTATE", "STATE: CONNECT OK", "STATE: other",
     "AT+QIOPEN", "CONNECT OK", "ALREADY CONNECT", "CONNECT FAIL", "CLOSED", "+PDP: DEACT",
     "AT+QISDE=0", "AT+QSCLK=2", "+QIRDI", "AT+QIRD", "+QIRD: n", "payload",
     "AT+QISEND", "SEND OK", "SEND FAIL", "AT+QISACK", "+QISACK: all", "+QISACK: some",
     "> -", "AT+CMGS", "+CMS ERROR", "AT+CIPSHUT", "+CMTI", "_OFF"}

Lines == BootLines \cup LinkLines

(* The commands and texts the driver transmits.                              *)
SimpleCommands == {BootCommand(s) : s \in BootStates} \cup {"AT+QISDE=0", "AT+QSCLK=2"}

Texts ==
    SimpleCommands \cup
    {"AT+CIPSHUT", "AT+QICLOSE", "AT+QISTATE", "AT+QIOPEN", "AT+QIOPEN without address",
     "AT+QIRD", "AT+QISEND", "data", "AT+QISACK", "+++", "AT+CMGS", "sms body"}

(* LineSink appends to the event queue as long as there is room.            *)
Queued(queue, new) ==
    LET all == queue \o new
    IN  SubSeq(all, 1, IF Len(all) < EVENT_QUEUE_SIZE THEN Len(all) ELSE EVENT_QUEUE_SIZE)

Say(new) == lines' = IF rxOn THEN Queued(lines, new) ELSE lines

(* A command reaches the chip if it is on and has room for it.              *)
Command(text, data) == [text |-> text, data |-> data]

Received(commands) ==
    IF power = "on" /\ Len(chipIn) + Len(commands) <= COMMAND_LIMIT
    THEN chipIn \o commands ELSE chipIn

Fault == faults < MAX_FAULTS /\ faults' = faults + 1

(* Does the chip still owe the driver a line?                               *)
Owes == chipIn # << >> \/ link = "OPENING" \/ sendDue \/ pulse

-----------------------------------------------------------------------------
(* The chip takes the next command, in command mode. *)
Serve(texts) ==
    /\ chipIn # << >>
    /\ Head(chipIn).text \in texts
    /\ ~prompt
    /\ chipIn' = Tail(chipIn)
    /\ UNCHANGED <<pinVars, pushed, delivered>>
    /\ smsAnswered' = smsAnswered + (IF Head(chipIn).text = "sms body" THEN 1 ELSE 0)

Answer(answers) ==
    LET text == Head(chipIn).text IN \E a \in answers[text] : Say(<<text>> \o a)


(* A configuration command, AT, ATE1, AT+QISDE or AT+QSCLK is carried out ... *)
ChipObeys ==
    /\ Serve(SimpleCommands)
    /\ Answer([t \in SimpleCommands |-> {BootAnswer(t)}])
    /\ UNCHANGED <<linkVars, faults>>

(* ... or refused, because the SIM, the signal or the network is not ready.  *)
ChipRefuses ==
    /\ Serve(SimpleCommands) /\ Fault
    /\ Answer([t \in SimpleCommands |-> BootRefusals(t)])
    /\ UNCHANGED linkVars

(* A command gets lost on its way, or a sleeping chip does not hear it.      *)
ChipMissesCommand ==
    /\ chipIn # << >> /\ Fault
    /\ chipIn' = Tail(chipIn)
    /\ UNCHANGED <<lines, linkVars, pinVars, netVars>>

(* In data mode a command is taken for payload and not answered.             *)
ChipAbsorbs ==
    /\ chipIn # << >> /\ prompt /\ Head(chipIn).text \notin {"data", "+++"}
    /\ chipIn' = Tail(chipIn)
    /\ UNCHANGED <<lines, linkVars, pinVars, netVars, faults>>

ChipState ==
    /\ Serve({"AT+QISTATE"})
    /\ Say(<<"AT+QISTATE", "OK", IF link = "UP" THEN "STATE: CONNECT OK" ELSE "STATE: other">>)
    /\ UNCHANGED <<linkVars, faults>>

(* AT+QIOPEN is acknowledged at once, its result follows much later.         *)
ChipOpens ==
    /\ Serve({"AT+QIOPEN", "AT+QIOPEN without address"})
    /\ LET possible == Head(chipIn).text = "AT+QIOPEN" /\ link # "OPENING" IN
       /\ Say(<<"AT+QIOPEN">> \o (IF ~possible THEN <<"ERROR">>
                                  ELSE IF link = "UP" THEN <<"OK", "ALREADY CONNECT">>
                                  ELSE <<"OK">>))
       /\ link' = IF possible /\ link = "DOWN" THEN "OPENING" ELSE link
    /\ UNCHANGED <<prompt, sendDue, flying, counters, inbox, faults>>

ChipConnected ==
    /\ link = "OPENING" /\ link' = "UP"
    /\ counters' = "all"
    /\ Say(<<"CONNECT OK">>)
    /\ UNCHANGED <<chipIn, prompt, sendDue, flying, inbox, pinVars, netVars, faults>>

ChipConnectFails ==
    /\ link = "OPENING" /\ Fault /\ link' = "DOWN"
    /\ Say(<<"CONNECT FAIL">>)
    /\ UNCHANGED <<chipIn, prompt, sendDue, flying, counters, inbox, pinVars, netVars>>

(* The connection is over: what has not left the chip is gone.               *)
Hangup ==
    /\ link' = "DOWN" /\ prompt' = FALSE /\ sendDue' = FALSE
    /\ flying' = << >> /\ inbox' = 0

ChipCloses ==
    /\ Serve({"AT+QICLOSE"})
    /\ Say(<<"AT+QICLOSE", "OK">>)
    /\ Hangup
    /\ UNCHANGED <<counters, faults>>

ChipShuts ==
    /\ Serve({"AT+CIPSHUT"})
    /\ Say(<<"AT+CIPSHUT", "SHUT OK">>)
    /\ Hangup
    /\ UNCHANGED <<counters, faults>>

ChipShutFails ==
    /\ Serve({"AT+CIPSHUT"}) /\ Fault
    /\ Say(<<"AT+CIPSHUT", "ERROR">>)
    /\ UNCHANGED linkVars

(* The peer or the network ends the connection.                              *)
LinkLost ==
    /\ link = "UP" /\ Fault
    /\ \E line \in {"CLOSED", "+PDP: DEACT"} : Say(<<line>>)
    /\ Hangup
    /\ UNCHANGED <<chipIn, counters, pinVars, netVars>>

ChipPrompts ==
    /\ Serve({"AT+QISEND"})
    /\ Say(IF link = "UP" THEN <<"AT+QISEND">> ELSE <<"AT+QISEND", "ERROR">>)
    /\ prompt' = (link = "UP")
    /\ UNCHANGED <<link, sendDue, flying, counters, inbox, faults>>

(* The announced data.  Outside data mode it is noise, and ignored.          *)
ChipTakesData ==
    /\ chipIn # << >> /\ Head(chipIn).text = "data"
    /\ chipIn' = Tail(chipIn)
    /\ IF prompt
       THEN /\ flying' = flying \o Head(chipIn).data
            /\ counters' = "some" /\ sendDue' = TRUE
       ELSE UNCHANGED <<flying, counters, sendDue>>
    /\ prompt' = FALSE
    /\ UNCHANGED <<lines, link, inbox, pinVars, netVars, faults>>

ChipSendOk ==
    /\ sendDue /\ sendDue' = FALSE
    /\ Say(<<"SEND OK">>)
    /\ UNCHANGED <<chipIn, link, prompt, flying, counters, inbox, pinVars, netVars, faults>>

ChipSendFails ==
    /\ sendDue /\ Fault /\ sendDue' = FALSE
    /\ Say(<<"SEND FAIL">>)
    /\ UNCHANGED <<chipIn, link, prompt, flying, counters, inbox, pinVars, netVars>>

(* "+++" ends data mode; without it, it is not a command.                    *)
ChipCancels ==
    /\ chipIn # << >> /\ Head(chipIn).text = "+++"
    /\ chipIn' = Tail(chipIn)
    /\ Say(IF prompt THEN <<"> -">> ELSE IF sendDue THEN << >> ELSE <<"ERROR">>)
    /\ prompt' = FALSE
    /\ UNCHANGED <<link, sendDue, flying, counters, inbox, pinVars, netVars, faults>>

(* AT+QISACK: the counters agree when everything taken is acknowledged.      *)
ChipAcks ==
    /\ Serve({"AT+QISACK"})
    /\ Say(<<"AT+QISACK">> \o
           (IF counters = "some" THEN <<"+QISACK: some", "OK">>
            ELSE IF counters = "all" \/ ZeroCounters THEN <<"+QISACK: all", "OK">>
            ELSE <<"ERROR">>))
    /\ UNCHANGED <<linkVars, faults>>

ChipReads ==
    /\ Serve({"AT+QIRD"})
    /\ Say(IF inbox > 0 THEN <<"AT+QIRD", "+QIRD: n", "payload", "OK">>
           ELSE IF link = "UP" THEN <<"AT+QIRD", "OK">>
           ELSE <<"AT+QIRD", "ERROR">>)
    /\ inbox' = IF inbox > 0 THEN inbox - 1 ELSE 0
    /\ UNCHANGED <<link, prompt, sendDue, flying, counters, faults>>

(* An SMS: the number is echoed, the text is accepted or refused.            *)
ChipSmsNumber ==
    /\ Serve({"AT+CMGS"})
    /\ Say(<<"AT+CMGS">>)
    /\ UNCHANGED <<linkVars, faults>>

ChipSmsBody ==
    /\ Serve({"sms body"})
    /\ \/ Say(<<"OK">>) /\ UNCHANGED faults
       \/ Say(<<"+CMS ERROR">>) /\ Fault
    /\ UNCHANGED linkVars

(* TCP carries the units to the peer one by one, and the acknowledgement back. *)
NetDelivers ==
    /\ link = "UP" /\ flying # << >>
    /\ delivered' = delivered \cup {Head(flying)}
    /\ flying' = Tail(flying)
    /\ UNCHANGED <<lines, chipIn, link, prompt, sendDue, counters, inbox, pinVars, pushed,
                   smsAnswered, faults>>

NetAcks ==
    /\ link = "UP" /\ flying = << >> /\ counters = "some"
    /\ counters' = "all"
    /\ UNCHANGED <<lines, chipIn, link, prompt, sendDue, flying, inbox, pinVars, netVars, faults>>

(* The peer sends a chunk, which the chip announces with +QIRDI.              *)
PeerSends ==
    /\ link = "UP" /\ pushed < MAX_INBOX
    /\ pushed' = pushed + 1
    /\ inbox' = inbox + 1
    /\ Say(<<"+QIRDI">>)
    /\ UNCHANGED <<chipIn, link, prompt, sendDue, flying, counters, pinVars, delivered,
                   smsAnswered, faults>>

(* A pulse on the power key switches the chip over, which it announces with RDY. *)
ChipToggles ==
    /\ pulse /\ pulse' = FALSE
    /\ power' = IF power = "on" THEN "off" ELSE "on"
    /\ IF power = "off" THEN Say(<<"RDY">>) ELSE UNCHANGED lines
    /\ chipIn' = << >>
    /\ Hangup /\ counters' = "none"
    /\ UNCHANGED <<rxOn, netVars, faults>>

ChipIgnoresPulse ==
    /\ pulse /\ Fault /\ pulse' = FALSE
    /\ UNCHANGED <<lines, chipIn, linkVars, power, rxOn, netVars>>

(* The chip reboots by itself.                                                *)
ChipReboots ==
    /\ power = "on" /\ Fault
    /\ Say(<<"RDY">>)
    /\ chipIn' = << >>
    /\ Hangup /\ counters' = "none"
    /\ UNCHANGED <<pinVars, netVars>>

(* What a working modem does sooner or later, and what may go wrong.          *)
ChipServes ==
    \/ ChipObeys \/ ChipAbsorbs \/ ChipState \/ ChipOpens \/ ChipCloses \/ ChipShuts \/ ChipPrompts
    \/ ChipTakesData \/ ChipCancels \/ ChipAcks \/ ChipReads \/ ChipSmsNumber \/ ChipSmsBody

ChipReports == ChipConnected \/ ChipSendOk \/ ChipToggles

ChipFails ==
    \/ ChipRefuses \/ ChipMissesCommand \/ ChipConnectFails \/ ChipShutFails \/ LinkLost
    \/ ChipSendFails \/ ChipIgnoresPulse \/ ChipReboots

ChipInit ==
    /\ lines = << >> /\ rxOn = FALSE
    /\ \/ power = "off" /\ link = "DOWN" /\ counters = "none"
       \/ power = "on" /\ link \in {"DOWN", "UP"} /\ counters = "all"
    /\ pulse = FALSE /\ chipIn = << >> /\ prompt = FALSE /\ sendDue = FALSE
    /\ flying = << >> /\ inbox = 0
    /\ pushed = 0 /\ delivered = {} /\ smsAnswered = 0 /\ faults = 0
=============================================================================
