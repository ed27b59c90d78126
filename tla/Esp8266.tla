------------------------------- MODULE Esp8266 -------------------------------
(***************************************************************************)
(* The ESP8266 driver (esp8266/Esp8266.cc): WiFi, one TCP connection to a  *)
(* fixed server, sending only.  connect () and disconnect () do nothing    *)
(* and no callback is ever called.  The rule NETWORK_PREPARE_SEND has for  *)
(* an empty batch is never satisfied: it is entered with data only, and    *)
(* the driver drops none.                                                  *)
(***************************************************************************)
EXTENDS AtDriver

VARIABLES
    mode,    \* the chip's operating mode, which it keeps: 1 is a station, 2 an access point
    wifi,    \* the chip is not joined to an access point, is joining, is joined
    echo     \* the chip echoes the commands

vars == <<driverVars, lineVars, mode, wifi, echo>>

-----------------------------------------------------------------------------
(* The states that wait for lines, each with its transitions.  CANCEL_SEND    *)
(* has a number but no definition: nothing leads out of it but the reset.     *)

(* Mutant: every answer to the data counts as "SEND OK". *)
SendRulesAnyAnswer ==
    <<When({"SEND OK"}, "NETWORK_DECLARE_READ"), When({"ERROR"}, "NETWORK_DECLARE_READ"),
      When({"CLOSED"}, "NETWORK_DECLARE_READ"), When({"SEND FAIL"}, "NETWORK_DECLARE_READ")>>

SendRules ==
    <<When({"SEND OK"}, "NETWORK_DECLARE_READ"), When({"ERROR"}, "CONNECT_TO_SERVER"),
      When({"CLOSED"}, "CONNECT_TO_SERVER"), When({"SEND FAIL"}, "CONNECT_TO_SERVER"),
      When({"+PDP: DEACT"}, "CONNECT_TO_SERVER")>>

Rules ==
    [INIT                 |-> <<When({"OK"}, "CHECK_OPERATING_MODE")>>,
     SET_OPERATING_MODE   |-> <<When({"OK"}, "RESET_BOARD")>>,
     RESET_BOARD          |-> <<When({"ready"}, "VERIFY_CONNECTED_ACCESS_POINT")>>,
     CHECK_MY_IP          |-> <<When({"%.%.%.%"}, "SET_MULTI_CONNECTION_MODE"),
                                When({"ERROR"}, "LIST_ACCESS_POINTS")>>,
     LIST_ACCESS_POINTS   |-> <<When({"%SSID%"}, "CONNECT_TO_ACCESS_POINT")>>,
     CONNECT_TO_ACCESS_POINT   |-> <<When({"OK"}, "VERIFY_CONNECTED_ACCESS_POINT")>>,
     SET_MULTI_CONNECTION_MODE |-> <<When({"AT+CIPMUX=1", "OK"}, "CONNECT_TO_SERVER")>>,
     CONNECT_TO_SERVER    |-> <<When({"0,CONNECT", "OK"}, "NETWORK_ECHO_OFF"),
                                When({"ALREADY CONNECTED", "ERROR"}, "NETWORK_ECHO_OFF")>>,
     NETWORK_SEND         |-> SendRules,
     CANCEL_SEND          |-> << >>]

(* The states that ask, wait a while, and go on: the line they hope for, and  *)
(* where they go with and without it.  VERIFY_CONNECTED_ACCESS_POINT waits    *)
(* longer when the chip is busy.                                             *)
Hopes ==
    [CHECK_OPERATING_MODE |-> [line |-> "+CWMODE_DEF:1", next |-> "VERIFY_CONNECTED_ACCESS_POINT",
                               otherwise |-> "SET_OPERATING_MODE"],
     VERIFY_CONNECTED_ACCESS_POINT |-> [line |-> "%SSID%", next |-> "CHECK_MY_IP",
                                        otherwise |-> "LIST_ACCESS_POINTS"],
     NETWORK_PREPARE_SEND |-> [line |-> "OK", next |-> "NETWORK_SEND",
                               otherwise |-> "CONNECT_TO_SERVER"]]

-----------------------------------------------------------------------------
(* Transitions. *)

(* What a state transmits on entry. *)
EntryTexts ==
    [INIT                          |-> "ATE1",
     CHECK_OPERATING_MODE          |-> "AT+CWMODE_DEF?",
     SET_OPERATING_MODE            |-> "AT+CWMODE_DEF=1",
     RESET_BOARD                   |-> "AT+RST",
     VERIFY_CONNECTED_ACCESS_POINT |-> "AT+CWJAP?",
     CHECK_MY_IP                   |-> "AT+CIFSR",
     LIST_ACCESS_POINTS            |-> "AT+CWLAP",
     CONNECT_TO_ACCESS_POINT       |-> "AT+CWJAP=",
     SET_MULTI_CONNECTION_MODE     |-> "AT+CIPMUX=1",
     CONNECT_TO_SERVER             |-> "AT+CIPSTART",
     NETWORK_ECHO_OFF              |-> "ATE0",
     NETWORK_PREPARE_SEND          |-> "AT+CIPSEND",
     NETWORK_ECHO_ON               |-> "ATE1"]

EntryCommands(s) ==
    IF s = "NETWORK_SEND" THEN <<[text |-> "data", data |-> BatchToSend]>>
    ELSE IF s \in DOMAIN EntryTexts THEN <<Command(EntryTexts[s])>> ELSE << >>

(* SendNetworkAction on entry. *)
EntryBuffer(s) ==
    CASE s = "NETWORK_PREPARE_SEND" -> Prepare
      [] s = "NETWORK_DECLARE_READ" -> DeclareRead
      [] OTHER                      -> UNCHANGED bufferVars

Enter(next, rest) ==
    /\ Goto(next, rest, EntryCommands(next))
    /\ EntryBuffer(next)
    /\ UNCHANGED <<mode, wifi, echo>>

Read ==
    /\ state \in DOMAIN Rules /\ lines # << >>
    /\ \/ NoneSatisfied(Rules[state]) /\ Skip /\ UNCHANGED <<mode, wifi, echo>>
       \/ \E i \in DOMAIN Rules[state] :
             First(Rules[state], i) /\ Enter(Rules[state][i].next, Rest) /\ UNCHANGED faults

Hope ==
    /\ state \in DOMAIN Hopes /\ GoesOn
    /\ LET hope == Hopes[state] IN
       \/ Waiting(hope.line) /\ Enter(hope.next, Behind(hope.line))
       \/ ~Waiting(hope.line) /\ Enter(hope.otherwise, Rest)

GoOn(from, next) == state = from /\ Enter(next, Rest) /\ UNCHANGED faults

EchoOff == GoOn("NETWORK_ECHO_OFF", "NETWORK_BEGIN_SEND")
EchoOn == GoOn("NETWORK_ECHO_ON", "CONNECT_TO_SERVER")
DeclaredRead == GoOn("NETWORK_DECLARE_READ", "NETWORK_ECHO_ON")

(* Mutant: goes on whether there are data or not. *)
BeginSendUnchecked == GoOn("NETWORK_BEGIN_SEND", "NETWORK_PREPARE_SEND")

(* With nothing to send, it enters itself again, and its timer restarts.      *)
BeginSend ==
    \/ dataToSendBuffer # << >> /\ GoOn("NETWORK_BEGIN_SEND", "NETWORK_PREPARE_SEND")
    \/ /\ dataToSendBuffer = << >> /\ lines # << >>
       /\ GoOn("NETWORK_BEGIN_SEND", "NETWORK_BEGIN_SEND")

(* Mutant: without the global transition. *)
TimerExpiresWithoutReset ==
    /\ state = "NETWORK_SEND" /\ lines = << >>
    /\ Enter("CANCEL_SEND", << >>)
    /\ IF chipIn # << >> \/ arriving # << >> \/ sendDue THEN Fault ELSE UNCHANGED faults

(* The soft reset, or the shorter timer of NETWORK_SEND.                      *)
TimerExpires ==
    /\ state \in DOMAIN Rules /\ lines = << >>
    /\ Enter(IF state = "NETWORK_SEND" /\ TCP_SEND_DATA_DELAY_MS < SOFT_RESET_DELAY_MS
             THEN "CANCEL_SEND" ELSE "INIT", << >>)
    /\ IF chipIn # << >> \/ arriving # << >> \/ sendDue THEN Fault ELSE UNCHANGED faults

-----------------------------------------------------------------------------
(* The chip. *)

Echoed(answers) == (IF echo THEN <<Head(chipIn).text>> ELSE << >>) \o answers

(* It works on one thing at a time. *)
Busy == wifi = "joining" \/ sendDue

Commands ==
    {"ATE1", "ATE0", "AT+CWMODE_DEF?", "AT+CWMODE_DEF=1", "AT+RST", "AT+CWJAP?", "AT+CIFSR",
     "AT+CWLAP", "AT+CWJAP=", "AT+CIPMUX=1", "AT+CIPSTART", "AT+CIPSEND"}

ChipIsBusy ==
    /\ Busy /\ Serve(Commands)
    /\ Say(Echoed(<<"busy">>))
    /\ UNCHANGED <<linkVars, faults, mode, wifi, echo>>

(* Commands that change nothing of the connection. *)
Answers(text) ==
    CASE text = "AT+CWMODE_DEF?" -> {<<IF mode = 1 THEN "+CWMODE_DEF:1" ELSE "+CWMODE_DEF:2", "OK">>}
      [] text = "AT+CWJAP?"      -> {IF wifi = "joined" THEN <<"SSID", "OK">> ELSE <<"No AP", "OK">>}
      [] text = "AT+CIFSR"       -> {<<"ip", "OK">>}
      [] text = "AT+CWLAP"       -> {<<"SSID", "OK">>}
      [] OTHER                   -> {<<"OK">>}

ChipAnswers ==
    /\ ~Busy /\ Serve(Commands \ {"AT+RST", "AT+CWJAP=", "AT+CIPSTART", "AT+CIPSEND"})
    /\ \/ /\ \E a \in Answers(Head(chipIn).text) : Say(Echoed(a)) 
          /\ mode' = IF Head(chipIn).text = "AT+CWMODE_DEF=1" THEN 1 ELSE mode
          /\ UNCHANGED faults
       \/ Say(Echoed(<<"ERROR">>)) /\ Fault /\ UNCHANGED mode
    /\ echo' = CASE Head(chipIn).text = "ATE1" -> TRUE
                 [] Head(chipIn).text = "ATE0" -> FALSE
                 [] OTHER                      -> echo
    /\ UNCHANGED <<linkVars, wifi>>

(* A reset; the chip may join the access point it knows on its own.           *)
ChipResets ==
    /\ ~Busy /\ Serve({"AT+RST"})
    /\ Say(Echoed(<<"OK", "ready">>))
    /\ Hangup
    /\ wifi' \in {"not joined", "joined"} /\ echo' = TRUE
    /\ UNCHANGED <<faults, mode>>

ChipStartsJoining ==
    /\ ~Busy /\ Serve({"AT+CWJAP="})
    /\ Say(Echoed(<< >>))
    /\ Hangup
    /\ wifi' = "joining"
    /\ UNCHANGED <<faults, mode, echo>>

ChipJoins ==
    /\ wifi = "joining"
    /\ \/ wifi' = "joined" /\ Say(<<"OK">>) /\ UNCHANGED faults
       \/ wifi' = "not joined" /\ Say(<<"FAIL">>) /\ Fault
    /\ UNCHANGED <<driverVars, chipIn, linkVars, delivered, mode, echo>>

ChipOpens ==
    /\ ~Busy /\ Serve({"AT+CIPSTART"})
    /\ \/ link = "UP" /\ Say(Echoed(<<"ALREADY CONNECTED", "ERROR">>)) /\ UNCHANGED <<link, faults>>
       \/ /\ link = "DOWN" /\ wifi = "joined"
          /\ Say(Echoed(<<"0,CONNECT", "OK">>)) /\ link' = "UP" /\ UNCHANGED faults
       \/ link = "DOWN" /\ Say(Echoed(<<"ERROR">>)) /\ UNCHANGED link
          /\ IF wifi = "joined" THEN Fault ELSE UNCHANGED faults
    /\ UNCHANGED <<prompt, sendDue, flying, mode, wifi, echo>>

(* In data mode a command is taken for the announced data: the peer gets it   *)
(* as such.  Data outside data mode are noise.                                *)
ChipMistakes ==
    /\ chipIn # << >> /\ prompt = (Head(chipIn).text # "data")
    /\ arriving = << >> /\ chipIn' = Tail(chipIn)
    /\ sendDue' = (sendDue \/ prompt) /\ prompt' = FALSE
    /\ UNCHANGED <<driverVars, lines, arriving, link, flying, delivered, faults, mode, wifi, echo>>

WifiLost ==
    /\ wifi = "joined" /\ Fault
    /\ wifi' = "not joined" /\ Hangup
    /\ Say(<<"WIFI DISCONNECT">>)
    /\ UNCHANGED <<driverVars, chipIn, delivered, mode, echo>>

-----------------------------------------------------------------------------
(* The chip may still be joined and even connected when the MCU starts.       *)
Init ==
    /\ DriverInit
    /\ state = "INIT"
    /\ wifi \in {"not joined", "joined"} /\ (link = "UP" => wifi = "joined")
    /\ echo \in BOOLEAN /\ mode \in 1..2

Driver == Read \/ Hope \/ EchoOff \/ EchoOn \/ DeclaredRead \/ BeginSend

(* "SEND OK" comes when the peer has acknowledged the data.                   *)
Chip ==
    \/ ChipIsBusy \/ ChipAnswers \/ ChipResets \/ ChipStartsJoining \/ ChipOpens \/ ChipMistakes
    \/ /\ \/ ~Busy /\ ChipPrompts("AT+CIPSEND", Echoed(<<"OK">>), Echoed(<<"ERROR">>))
          \/ ChipTakesData
          \/ flying = << >> /\ ChipSendOk
       /\ UNCHANGED <<mode, wifi, echo>>

Fails ==
    \/ WifiLost
    \/ /\ ChipMissesCommand \/ ChipSendFails \/ LinkLost({"CLOSED", "0,CLOSED"})
       /\ UNCHANGED <<mode, wifi, echo>>

Send == AppSend /\ UNCHANGED <<mode, wifi, echo>>
Delivers == NetDelivers /\ UNCHANGED <<mode, wifi, echo>>
Arrives == LineArrives /\ UNCHANGED <<mode, wifi, echo>>

Next == Driver \/ TimerExpires \/ Send \/ Chip \/ ChipJoins \/ Arrives \/ Fails \/ Delivers

Spec == Init /\ [][Next]_vars

(* The main loop keeps running the machine, its timers run out, a working     *)
(* chip does its work, and the network delivers.                              *)
Fairness ==
    /\ WF_vars(Driver) /\ WF_vars(TimerExpires)
    /\ WF_vars(Chip) /\ WF_vars(ChipJoins) /\ WF_vars(Arrives) /\ WF_vars(Delivers)

FairSpec == Spec /\ Fairness

(* The promise of the interface, as far as it goes without callbacks.         *)
Stream == INSTANCE DataStream WITH
    first <- accepted - Len(dataToSendBuffer) + 1, sent <- declared, connected <- FALSE

-----------------------------------------------------------------------------
(* Properties. *)

(* Every variable has its type and stays within its bound. *)
TypeOK ==
    /\ DriverTypeOK
    /\ mode \in 1..2 /\ wifi \in {"not joined", "joining", "joined"} /\ echo \in BOOLEAN
    /\ link \in {"DOWN", "UP"}

(* The driver implements the stream of DataStream: it drops a batch as sent   *)
(* only when the peer has it, although the "OK" it waits for may belong to an *)
(* earlier command and it keeps the data through every reset.                 *)
ImplementsStream == Stream!Spec

(* Data given to send () leave the buffer: neither an "OK" taken for another  *)
(* command's, nor an answer mistaken for the name of the access point, nor a   *)
(* chip busy joining, nor any round of resets keeps them for ever.            *)
Drains == dataToSendBuffer # << >> ~> dataToSendBuffer = << >>
=============================================================================
