------------------------------ MODULE AtDriver ------------------------------
(***************************************************************************)
(* What the BG96 and the ESP8266 driver share: the state machine of the    *)
(* library, the USART line to a chip, the data path from send () to the    *)
(* TCP peer.  Both drivers keep their data in a CircularBuffer, which they *)
(* never empty, and send it in the three stages of SendNetworkAction.      *)
(*                                                                         *)
(* A state reads one waiting line at a time, and remembers in "seen" what  *)
(* its conditions matched.  What the chip says arrives line by line: other *)
(* events, of connect () for one, get between the lines of an answer.  It  *)
(* finishes an answer before it says something unasked, or takes the next  *)
(* command.  A state whose last transition is alwaysTrue                   *)
(* waits for a while, then tries its transitions in their order, each with *)
(* all the lines that wait, and uses them up to the one that matched: it   *)
(* could never take another one if the echo of its own command were enough *)
(* for the last.  An answer that comes after the while is a fault of the   *)
(* chip, as is everything a prompt, connected, error-free chip would not   *)
(* do; there are at most MAX_FAULTS faults.                                *)
(***************************************************************************)
EXTENDS SendBuffer, Functions

CONSTANTS
    EVENT_QUEUE_SIZE,  \* capacity of the state machine's event queue
    COMMAND_LIMIT,     \* commands the chip can have received and not served
    MAX_FAULTS,        \* bound on the faults
    MAX_UNITS          \* bound on the units the application sends

ASSUME DriverAssumption ==
    /\ EVENT_QUEUE_SIZE \in Nat \ {0} /\ COMMAND_LIMIT \in Nat \ {0}
    /\ MAX_FAULTS \in Nat /\ MAX_UNITS \in Nat

VARIABLES
    state, seen,             \* the machine: its state, the lines matched in it
    lines,                   \* its event queue
    arriving,                \* what the chip is saying and the queue has not got yet
    dataToSendBuffer,
    bytesToSendInSendStage,
    accepted,                \* history: how many units send () has taken
    declared,                \* history: the units STAGE_DECLARE has dropped as sent
    chipIn,                  \* commands the chip has received and not served
    link,                    \* the TCP connection, as the chip knows it
    prompt,                  \* is the chip waiting for announced data
    sendDue,                 \* does the chip owe a "SEND OK"
    flying,                  \* units the chip took and the peer has not received
    delivered,               \* the units the peer has received
    faults

machineVars == <<state, seen>>
bufferVars == <<dataToSendBuffer, bytesToSendInSendStage, accepted, declared>>
linkVars == <<link, prompt, sendDue, flying>>
driverVars == <<machineVars, bufferVars>>
lineVars == <<lines, arriving, chipIn, linkVars, delivered, faults>>

SOFT_RESET_DELAY_MS == 10000
TCP_SEND_DATA_DELAY_MS == 9000
(* Mutant: longer than the soft reset delay, which a static_assert forbids. *)
HardResetTooLate == 11000
HARD_RESET_DELAY_MS == 9000

-----------------------------------------------------------------------------
(* The machine. *)

NoLine == ""
line == IF lines = << >> THEN NoLine ELSE Head(lines)
Rest == IF lines = << >> THEN << >> ELSE Tail(lines)

(* A condition is named by the text it looks for.  Most match one line only;  *)
(* "%ERROR%" matches any that has the word in it, "%SSID%" the echo of the    *)
(* command to join as well, "%.%.%.%" an address, an echo with one and the    *)
(* dots of "busy p...", and a beginning all lines that have it.               *)
Matching(pattern) ==
    CASE pattern = "%ERROR%"    -> {"ERROR", "+CME ERROR: 5"}
      [] pattern = "+CSQ:"      -> {"+CSQ: 99", "+CSQ: n"}
      [] pattern = "+QIOPEN: 1" -> {"+QIOPEN: 1,0", "+QIOPEN: 1,err"}
      [] pattern = "AT+QISEND=" -> {"AT+QISEND=?", "AT+QISEND=n", "AT+QISEND=1,0"}
      [] pattern = "+QISEND: "  ->
             {"+QISEND: 0", "+QISEND: (0-11)", "+QISEND: some", "+QISEND: all"}
      [] pattern = "%SSID%"     -> {"SSID", "AT+CWJAP="}
      [] pattern = "%.%.%.%"    -> {"ip", "AT+CIPSTART", "busy"}
      [] OTHER                  -> {pattern}

Heard(pattern) == \E l \in Matching(pattern) : l = line \/ l \in seen
Waiting(pattern) == \E l \in Matching(pattern) : l \in Range(lines)

(* The lines behind the first one that matches. *)
Behind(pattern) ==
    LET first == CHOOSE i \in DOMAIN lines : /\ lines[i] \in Matching(pattern)
                                            /\ \A j \in 1..(i - 1) : lines[j] \notin Matching(pattern)
    IN  SubSeq(lines, first + 1, Len(lines))

Command(text) == [text |-> text, data |-> << >>]

Received(commands) ==
    IF Len(chipIn) + Len(commands) <= COMMAND_LIMIT THEN chipIn \o commands ELSE chipIn

(* A transition: it leaves the given lines waiting and transmits commands.    *)
Goto(next, rest, commands) ==
    /\ state' = next /\ seen' = {} /\ lines' = rest
    /\ chipIn' = Received(commands)
    /\ UNCHANGED <<arriving, linkVars, delivered>>

(* No transition: the line is used up.                                        *)
Skip ==
    /\ lines # << >>
    /\ seen' = seen \cup {line} /\ lines' = Rest
    /\ UNCHANGED <<state, bufferVars, arriving, chipIn, linkVars, delivered, faults>>

(* A conditional transition: the conditions that must all have held since the *)
(* state was entered, those of which one holds now, and the next state: anded *)
(* in any order, seq in its own.  Of the rules of a state the first one that  *)
(* is satisfied holds.                                                       *)
When(needs, next) == [needs |-> needs, last |-> needs, next |-> next]
WhenInOrder(one, other, next) == [needs |-> {one, other}, last |-> {other}, next |-> next]
Satisfied(rule) ==
    /\ \A pattern \in rule.needs : Heard(pattern)
    /\ \E pattern \in rule.last : line \in Matching(pattern)
First(rules, i) == Satisfied(rules[i]) /\ \A j \in 1..(i - 1) : ~Satisfied(rules[j])
NoneSatisfied(rules) == \A i \in DOMAIN rules : ~Satisfied(rules[i])

Fault == faults < MAX_FAULTS /\ faults' = faults + 1

(* A state goes on after its while: the chip has answered by then.             *)
GoesOn == IF chipIn = << >> /\ arriving = << >> THEN UNCHANGED faults ELSE Fault

-----------------------------------------------------------------------------
(* The buffer: the entry actions of the three stages.                         *)

Prepare ==
    /\ bytesToSendInSendStage' = BatchSize(dataToSendBuffer)
    /\ UNCHANGED <<dataToSendBuffer, accepted, declared>>

BatchToSend == Batch(dataToSendBuffer, bytesToSendInSendStage)

DeclareRead ==
    /\ dataToSendBuffer' = Declare(dataToSendBuffer, bytesToSendInSendStage)
    /\ declared' = declared \cup
           {dataToSendBuffer[i] : i \in 1..(Len(dataToSendBuffer) - Len(dataToSendBuffer'))}
    /\ UNCHANGED <<bytesToSendInSendStage, accepted>>

(* send (): all of the data or nothing.                                       *)
AppSend ==
    \E n \in 1..(MAX_UNITS - accepted) :
        LET data == [i \in 1..n |-> accepted + i] IN
        /\ Fits(dataToSendBuffer, data)
        /\ dataToSendBuffer' = dataToSendBuffer \o data
        /\ accepted' = accepted + n
        /\ UNCHANGED <<bytesToSendInSendStage, declared, machineVars, lineVars>>

-----------------------------------------------------------------------------
(* The chip, as far as both drivers expect the same of it.                    *)

(* States in which the driver has switched the USART interrupt off.           *)
Deaf == {"RESET_STAGE_DECIDE", "RESET_STAGE_POWER_ON"}

Say(new) == arriving' = arriving \o new /\ UNCHANGED lines

(* The interrupt puts the next line into the event queue, if it is on and     *)
(* there is room.                                                            *)
LineArrives ==
    /\ arriving # << >> /\ arriving' = Tail(arriving)
    /\ lines' = IF state \in Deaf \/ Len(lines) = EVENT_QUEUE_SIZE THEN lines
                ELSE Append(lines, Head(arriving))
    /\ UNCHANGED <<driverVars, chipIn, linkVars, delivered, faults>>

(* The chip takes the next thing it has been sent.                            *)
Takes(texts) ==
    /\ chipIn # << >> /\ Head(chipIn).text \in texts /\ arriving = << >>
    /\ chipIn' = Tail(chipIn)
    /\ UNCHANGED <<driverVars, delivered>>

Serve(texts) == ~prompt /\ Takes(texts)

Answer(answers) == Say(<<Head(chipIn).text>> \o answers)

(* The connection is over: what has not left the chip is gone.                *)
Hangup == link' = "DOWN" /\ prompt' = FALSE /\ sendDue' = FALSE /\ flying' = << >>

ChipMissesCommand ==
    /\ chipIn # << >> /\ Fault
    /\ chipIn' = Tail(chipIn)
    /\ UNCHANGED <<driverVars, lines, arriving, linkVars, delivered>>

ChipPrompts(announcement, reply, refusal) ==
    /\ Serve({announcement})
    /\ Say(IF link = "UP" THEN reply ELSE refusal)
    /\ prompt' = (link = "UP")
    /\ UNCHANGED <<link, sendDue, flying, faults>>

ChipTakesData ==
    /\ prompt /\ Takes({"data"})
    /\ flying' = flying \o Head(chipIn).data
    /\ prompt' = FALSE /\ sendDue' = TRUE
    /\ UNCHANGED <<lines, arriving, link, faults>>

ChipSendOk ==
    /\ sendDue /\ sendDue' = FALSE
    /\ Say(<<"SEND OK">>)
    /\ UNCHANGED <<driverVars, chipIn, link, prompt, flying, delivered, faults>>

ChipSendFails ==
    /\ sendDue /\ Fault /\ sendDue' = FALSE
    /\ Say(<<"SEND FAIL">>)
    /\ UNCHANGED <<driverVars, chipIn, link, prompt, flying, delivered>>

LinkLost(announcements) ==
    /\ link = "UP" /\ Fault
    /\ \E l \in announcements : Say(<<l>>)
    /\ Hangup
    /\ UNCHANGED <<driverVars, chipIn, delivered>>

(* TCP carries the units to the peer one by one. *)
NetDelivers ==
    /\ link = "UP" /\ flying # << >>
    /\ delivered' = delivered \cup {Head(flying)}
    /\ flying' = Tail(flying)
    /\ UNCHANGED <<driverVars, lines, arriving, chipIn, link, prompt, sendDue, faults>>

-----------------------------------------------------------------------------
DriverInit ==
    /\ seen = {} /\ lines = << >> /\ arriving = << >> /\ chipIn = << >>
    /\ dataToSendBuffer = << >> /\ bytesToSendInSendStage = 0 /\ accepted = 0 /\ declared = {}
    /\ link \in {"DOWN", "UP"} /\ prompt = FALSE /\ sendDue = FALSE /\ flying = << >>
    /\ delivered = {} /\ faults = 0

Units == 1..MAX_UNITS

(* Every shared variable has its type and stays within its bound. *)
DriverTypeOK ==
    /\ Len(lines) <= EVENT_QUEUE_SIZE /\ Len(chipIn) <= COMMAND_LIMIT
    /\ dataToSendBuffer \in Seq(Units) /\ Len(dataToSendBuffer) <= OUTPUT_BUFFER_SIZE
    /\ bytesToSendInSendStage \in 0..GSM_MAX_BYTES_SEND
    /\ accepted \in 0..MAX_UNITS /\ declared \subseteq Units
    /\ flying \in Seq(Units) /\ delivered \subseteq Units
    /\ prompt \in BOOLEAN /\ sendDue \in BOOLEAN /\ faults \in 0..MAX_FAULTS

(* Every unit send () took has either been dropped as sent or waits in the    *)
(* buffer, in its place: neither a reset nor a lost connection gives up data, *)
(* whatever batch was on its way, and no unit is dropped before another that  *)
(* was accepted earlier.                                                      *)
NothingGivenUp ==
    LET waiting == Len(dataToSendBuffer) IN
    /\ waiting <= accepted
    /\ dataToSendBuffer = [i \in 1..waiting |-> accepted - waiting + i]
    /\ declared = 1..(accepted - waiting)

(* From its measuring to its declaration a batch is not empty and lies within *)
(* the buffer: NETWORK_SEND never announces data it does not transmit, nor    *)
(* takes bytes out of the circular buffer that nobody stored.                 *)
BatchInBuffer ==
    state \in {"NETWORK_PREPARE_SEND", "NETWORK_SEND", "NETWORK_ACK_CHECK",
              "NETWORK_ACK_CHECK_PARSE"} =>
        bytesToSendInSendStage \in 1..Len(dataToSendBuffer)

(* On the way through the chip nothing overtakes and nothing is left out: a   *)
(* unit that has arrived has all earlier ones before it, but for those that   *)
(* were dropped as sent, whatever was resent, missed, mistaken or hung up on. *)
NothingOvertakes == \A u \in delivered : 1..(u - 1) \subseteq delivered \cup declared

(* What the driver has dropped as sent, the peer has.                         *)
NoLoss == declared \subseteq delivered
=============================================================================
