---------------------------- MODULE Mc60Responses ----------------------------
(***************************************************************************)
(* The parsers of the MC60's responses: the counters of AT+QISACK          *)
(* (QueryAckAction), the length AT+QIRD announces                          *)
(* (ParseRecvLengthCondition) and the total of a +QIRDI notice             *)
(* (QirdiParseCondition).  Each reads one event and keeps its result for   *)
(* later events.                                                           *)
(*                                                                         *)
(* An event is the beginning the parsers look for and the characters that  *)
(* follow it.  A digit is its value, the other characters are the named    *)
(* ones.  The bytes of an event are not terminated: QueryAckAction, which  *)
(* searches them as a C string, reads on into whatever lies behind them in *)
(* memory, up to the first zero byte; that may be an older answer.         *)
(***************************************************************************)
EXTENDS Integers, Sequences, SequencesExt

CONSTANTS
    MAX_BUF,    \* size of the buffer a number is copied to
    Numbers,    \* numbers the modem reports
    Memories,   \* what may lie behind an event in memory
    Leftovers   \* results earlier events may have left

INT_MAX == 2147483647   \* the counters are int; the lengths, size_t, hold it too

COMMA == 10
SPACE == 11
LETTER == 12
ANSWER == 13   \* the text "+QISACK:"

ASSUME ResponsesAssumption ==
    /\ MAX_BUF \in Nat /\ Numbers \subseteq 0..INT_MAX /\ Leftovers \subseteq Nat
    /\ \A m \in Memories : m \in Seq(0..ANSWER)

VARIABLES
    event,          \* the event: its head, its body, and what lies behind it
    about,          \* history: the numbers a complete event of this kind reports
    parser,         \* history: the parser that has read it, or "none"
    accepted,       \* the result of the condition
    sent, acked, nAcked,
    bytesReceived

vars == <<event, about, parser, accepted, sent, acked, nAcked, bytesReceived>>
counterVars == <<sent, acked, nAcked>>

-----------------------------------------------------------------------------
(* strtoul: blanks, then digits. *)
Value(digits) ==
    LET value[i \in 0..Len(digits)] == IF i = 0 THEN 0 ELSE 10 * value[i - 1] + digits[i]
    IN  value[Len(digits)]

FirstNonblank(text) == SelectInSeq(text, LAMBDA c : c # SPACE)
FirstNondigit(text) == SelectInSeq(text, LAMBDA c : c \notin 0..9)

Number(text) ==
    LET start == FirstNonblank(text)
        rest == IF start = 0 THEN << >> ELSE SubSeq(text, start, Len(text))
        stop == FirstNondigit(rest)
    IN  Value(IF stop = 0 THEN rest ELSE SubSeq(rest, 1, stop - 1))

Comma(text) == SelectInSeq(text, LAMBDA c : c = COMMA)
LastComma(text) == SelectLastInSeq(text, LAMBDA c : c = COMMA)
Before(text, i) == SubSeq(text, 1, i - 1)
After(text, i) == SubSeq(text, i + 1, Len(text))

Answer(text) == SelectInSeq(text, LAMBDA c : c = ANSWER)

Memory == <<IF event.head = "+QISACK:" THEN ANSWER ELSE LETTER>> \o event.body \o event.behind

(* What strstr finds the answer at, without "+QISACK:"; empty if there is none. *)
AnswerText == IF Answer(Memory) = 0 THEN << >> ELSE After(Memory, Answer(Memory))

(* Mutant: without the assignments at the beginning. *)
QueryAckActionKeeps ==
    LET text == AnswerText
        second == After(text, Comma(text))
        complete == Comma(text) > 0 /\ Comma(second) > 0
    IN  /\ parser = "none" /\ parser' = "ack"
        /\ IF complete
           THEN /\ sent' = Number(Before(text, Comma(text)))
                /\ acked' = Number(Before(second, Comma(second)))
                /\ nAcked' = Number(After(second, Comma(second)))
           ELSE UNCHANGED counterVars
        /\ UNCHANGED <<event, about, accepted, bytesReceived>>

(* Mutant: without b = e + 1 after the first comma. *)
QueryAckActionNotAdvanced ==
    LET text == AnswerText
        second == After(text, Comma(text))
        complete == Comma(text) > 0 /\ Comma(second) > 0
    IN  /\ parser = "none" /\ parser' = "ack"
        /\ sent' = IF complete THEN Number(Before(text, Comma(text))) ELSE 0
        /\ acked' = sent'
        /\ nAcked' = IF complete THEN Number(second) ELSE 0
        /\ UNCHANGED <<event, about, accepted, bytesReceived>>

(* The first comma ends the first number, the second comma the second one; *)
(* without either, all that has been read is given up.                     *)
QueryAckAction ==
    LET text == AnswerText
        second == After(text, Comma(text))
        complete == Comma(text) > 0 /\ Comma(second) > 0
    IN  /\ parser = "none" /\ parser' = "ack"
        /\ sent' = IF complete THEN Number(Before(text, Comma(text))) ELSE 0
        /\ acked' = IF complete THEN Number(Before(second, Comma(second))) ELSE 0
        /\ nAcked' = IF complete THEN Number(After(second, Comma(second))) ELSE 0
        /\ UNCHANGED <<event, about, accepted, bytesReceived>>

(* A condition stores the number of a field.  A field that does not fit the *)
(* buffer ends in Error_Handler, from which the program does not return.    *)
Store(name, found, field) ==
    /\ parser = "none" /\ parser' = name
    /\ found => Len(field) < MAX_BUF
    /\ bytesReceived' = IF found THEN Number(field) ELSE bytesReceived
    /\ accepted' = (found /\ Number(field) > 0)
    /\ UNCHANGED <<event, about, counterVars>>

(* Mutant: the field after the first comma. *)
ParseRecvLengthConditionFirst ==
    Store("recv", event.head = "+QIRD: " /\ Comma(event.body) > 0,
          After(event.body, Comma(event.body)))

(* The field after the second comma, to the end of the event. *)
ParseRecvLengthCondition ==
    LET second == After(event.body, Comma(event.body)) IN
    Store("recv", event.head = "+QIRD: " /\ Comma(event.body) > 0 /\ Comma(second) > 0,
          After(second, Comma(second)))

(* Mutant: the field after the first comma. *)
QirdiParseConditionFirst ==
    Store("qirdi", event.head = "+QIRDI: " /\ Comma(event.body) > 0,
          After(event.body, Comma(event.body)))

(* The field after the last comma, to the end of the event. *)
QirdiParseCondition ==
    LET last == LastComma(event.body) IN
    Store("qirdi", event.head = "+QIRDI: " /\ last > 0, After(event.body, last))

-----------------------------------------------------------------------------
(* What the modem sends: three numbers, of which AT+QIRD prints the first   *)
(* two as an address and a protocol.  An event may be cut short.            *)
Digits(n) ==
    LET digits[m \in 0..n] == IF m < 10 THEN <<m>> ELSE Append(digits[m \div 10], m % 10)
    IN  digits[n]

Body(head, n) ==
    CASE head = "+QISACK:" -> <<SPACE>> \o Digits(n[1]) \o <<COMMA, SPACE>> \o Digits(n[2])
                              \o <<COMMA, SPACE>> \o Digits(n[3])
      [] head = "+QIRDI: " -> Digits(n[1]) \o <<COMMA>> \o Digits(n[2]) \o <<COMMA>> \o Digits(n[3])
      [] head = "+QIRD: "  -> <<LETTER, COMMA, LETTER, COMMA>> \o Digits(n[3])
      [] head = "other"    -> <<LETTER, COMMA>> \o Digits(n[1]) \o <<COMMA>> \o Digits(n[2])

Init ==
    /\ \E head \in {"+QISACK:", "+QIRDI: ", "+QIRD: ", "other"} :
          /\ about \in Numbers \X Numbers \X Numbers
          /\ \E cut \in 0..Len(Body(head, about)), behind \in Memories :
                event = [head |-> head, body |-> SubSeq(Body(head, about), 1, cut),
                         behind |-> behind]
    /\ parser = "none" /\ accepted = FALSE
    /\ sent \in Leftovers /\ acked = sent /\ nAcked = 0 /\ bytesReceived \in Leftovers

Next == QueryAckAction \/ ParseRecvLengthCondition \/ QirdiParseCondition

Spec == Init /\ [][Next]_vars

-----------------------------------------------------------------------------
(* Properties. *)

Complete == event.body = Body(event.head, about)

(* The counters that decide about a batch are those of the answer, whatever  *)
(* lies behind it in memory: only the third, unused one can be wrong.        *)
CountersOfTheAnswer ==
    parser = "ack" /\ event.head = "+QISACK:" /\ Complete => sent = about[1] /\ acked = about[2]

(* An event that is no answer, with none behind it, or one cut short before   *)
(* its second comma never leaves the counters of an earlier answer: equal     *)
(* ones would make the driver drop the batch that is on its way.              *)
CountersNotLeftOver ==
    LET text == event.body \o event.behind
        commas == {i \in DOMAIN text : text[i] = COMMA}
        none == event.head # "+QISACK:" /\ ANSWER \notin Range(event.behind)
    IN  parser = "ack" /\ (none \/ \A i, j \in commas : i = j) => sent = 0 /\ acked = 0

(* Exactly an announcement of at least one byte is accepted, and its length is *)
(* the one kept; other events leave an earlier length alone.                  *)
LengthOfTheChunk ==
    parser = "recv" =>
        /\ event.head = "+QIRD: " /\ Complete =>
               bytesReceived = about[3] /\ accepted = (about[3] > 0)
        /\ event.head # "+QIRD: " => ~accepted /\ bytesReceived \in Leftovers

(* The total of a notice is its last number, as the test of the parser says.  *)
TotalOfTheNotice ==
    parser = "qirdi" =>
        /\ event.head = "+QIRDI: " /\ Complete => bytesReceived = about[3]
        /\ event.head # "+QIRDI: " \/ COMMA \notin Range(event.body) => ~accepted
=============================================================================
