# A verification model of libcomms

libcomms is a small C++ library for microcontrollers that turns a modem behind a
serial line into a TCP connection. The application calls `connect`, `send` and
`disconnect`; a state machine built by the driver's constructor talks AT commands
to the chip and reports back through callbacks. This directory holds TLA+ modules
that model the library's three drivers, the runs that model-check them with TLC, and
theorems about them checked by TLAPS.

Paths below are relative to the repository; `Mc60Modem.cc` is
`src/mc60Modem/Mc60Modem.cc` there, and likewise `Bg96Modem.cc` and `Esp8266.cc`.

## 1. The system

| Component | State | Operations | Correct means |
|---|---|---|---|
| MC60 driver: `mc60Modem/Mc60Modem.{cc,h}` | machine state, event queue, `dataToSendBuffer`, `address`, `connected`, `newDataToReceive`, static retry counters | about fifty machine states; `connect`, `disconnect`, `send`, `power`, the message queue | data reported sent have arrived; the belief in a connection agrees with what the machine does with it; every failure leads back to a connection |
| MC60 configuration: the first half of the constructor | the machine state | twenty command/answer states | a connection of an earlier session does not survive into it |
| Send buffer: `mc60Modem/SendNetworkAction.{cc,h}`, `Types.h` | the buffer, the size of the batch | measure a batch, transmit it, drop it | the batch dropped is the batch transmitted, and lies within the buffer |
| Parsers: `QueryAckAction.h`, `QueryRecvAction.h`, `QirdiParseAction.h` | the parsed numbers | parse one line | the numbers are those of the line, or none |
| Short messages: `modem/Sms*`, `AbstractModem.h` | a queue of at most four messages | number, text, remove | none is removed before the chip has answered its text |
| Actions and conditions: `UsartAction.h`, `modem/PwrKeyAction`, `modem/StatusPinCondition`, `AtCommandAction` | the interrupt, two pins | switch, pulse, test, transmit | together: the chip can be reset from any state |
| The promise: `ICommunicationInterface.h` | - | `connect`, `send`, `onConnected`, `onDisconnected`, `onSent`, `onData` | the abstract specification `DataStream` |
| BG96 driver: `bg96Modem/` | machine state, event queue, a circular `dataToSendBuffer`, static retry counter; no flags | about thirty-five states; `connect` queues an event, `send` stores; `disconnect` and `power` are empty | data dropped have arrived, data waiting are never given up; it connects again by itself |
| ESP8266 driver: `esp8266/` | machine state, event queue, a circular `dataToSendBuffer` | sixteen states: WiFi configuration, sending; `connect` and `disconnect` are empty, no callback is called | the same |

The actors are the machine (run from the main loop by `run ()`), the application
(its calls come from the main loop or from a callback), the USART interrupt (it
pushes the chip's lines into the event queue), the chip, and the network with the
TCP peer. They share the event queue, the buffer, the cached address and the two
flags.

What is hard to test:

* the buffer is appended to by `send`, read and shortened by the machine and emptied
  when a connection is lost, while a batch is measured in one state, transmitted in
  another and dropped in a third;
* the driver's belief (`connected`, `newDataToReceive`, the counters of AT+QISACK) is
  compared with a chip that reboots, disconnects or stops listening at any moment;
* retries and resets repeat what may have been done already;
* states that suppress the global transitions use up events meant for them;
* everything depends on timers in a fixed order, restarted with every state;
* the BG96 driver keeps nothing of `connect` but an event, and the ESP8266 driver does
  not tell one command's "OK" from another's.

`PROJECT.json` lists the hazards with their lines and the property that covers each.

## 2. The modules

| Module | What it models |
|---|---|
| `SendBuffer` | the three stages of `SendNetworkAction` and the test of `send`, as operators on a sequence |
| `Mc60Boot` | the configuration states as a table: the command of a state, the lines that lead out of it |
| `Mc60Chip` | the environment: chip, USART, event queue, TCP peer. None of it is in the repository: it does what the driver's transitions expect, and fails in the ways they handle |
| `Mc60Modem` | the driver: one action per machine state, the timers, the application's calls, over `Mc60Chip` |
| `AtDriver` | what the BG96 and the ESP8266 driver share: the machine and its rules, the entry actions on the buffer, the line, the data path of the chip |
| `Bg96Modem` | the BG96 driver, `connect`, `send`, and its chip, over `AtDriver` |
| `Esp8266` | the ESP8266 driver, `send`, and its chip, over `AtDriver` |
| `DataStream` | the promise of the interface for the data given to `send` |
| `Mc60Responses` | the parsers of the chip's responses, on events of symbolic characters |
| `MCMc60Modem`, `MCMc60Responses` | the sets of calls, numbers and events the runs allow |
| `SendBufferProofs` | lemmas about the operators of `SendBuffer`, cited by all proofs |
| `Mc60TypeProofs`, `Mc60PairingProofs`, `Mc60StreamProofs` | the theorems about the MC60 driver: the buffer and the types, the pairing of answers with commands, the batch on its way, the stream, and the data the peer sends |
| `Mc60ResponsesProofs` | the theorems about the parsers |
| `AtDriverProofs` | which steps of the buffer, of the line and of the data on their way keep the invariants of the other two drivers, and are steps of `DataStream` |
| `Bg96Proofs`, `Esp8266Proofs` | the theorems about them |

### How the driver is modelled

A state of the machine is a value of `state`, with the name it has in the code.
`CLOSE_DELAY` is one more: the second the machine waits between
`CLOSE_AND_RECONNECT` and `CONNECT_TO_SERVER`, in which `disconnect` can clear the
address of the command that follows. The other delays are waits in which nothing
depends on what happens meanwhile, and are left out.

An action of the driver is one evaluation of the transitions of its state, with the
first line of the event queue or, if the queue is empty, with none. Its disjuncts
are the transitions in their order of declaration, each with its `then` action and
the entry action of the next state (`Goto`, `EnterWith`, `Enter`, `EnterSend`, ...).
`Skip` is the evaluation that finds no transition and uses up the line. `seen`
holds the lines the conditions of the state have matched since it was entered, as
`anded` and `seq` remember them. The machine's library is not part of the
repository; these are the assumptions on it:

* the global transitions are tried first, except in states marked
  `SUPPRESS_GLOBAL_TRANSITIONS`; global rules (`+QIRDI`) see every line;
* an evaluation uses up one line, whether it leads to a transition or not;
* `machine.reset ()` enters the initial state and keeps the queue;
* the event queue is bounded and drops what does not fit.

A line is a string that names what the driver tests for (`"+QISACK: all"` stands for
all the answers whose first two counters are equal). Two flags and a count abstract
data: `allAcked` is `sent = acked`, `smsCollection` is the number of messages, and a
unit of the buffer stands for the bytes of a transmission quantum, numbered by
`send` in the order of acceptance. The history variables `accepted`, `declared`,
`smsRemoved`, `smsAnswered` and `calls` are read by properties and bounds only.

Timers (`TimerExpires`): of the soft reset and the timer of the state, the shorter
one runs out. The delays are orders of magnitude longer than an evaluation, so a
timer runs out only when no line waits and no transition is possible without one. If the chip
still owes an answer then, it is slow, which counts as a fault.

`Mc60Chip` serves commands in the order they come, one at a time. Each action that
is not what a prompt, connected, error-free modem would do (a refusal, a lost
command, a lost connection, a failed send, an ignored power key, a reboot, a slow
answer) counts as one of at most `MAX_FAULTS` faults. Data announced by AT+QISEND
are taken as payload until the batch comes or `+++` cancels.

At the start the chip is off, or still on from before, and then perhaps connected.

### The parsers

`Mc60Responses` reads one event with one of the parsers. A digit is its value, the
other characters are named constants, `"+QISACK:"` is one of them where it lies in
memory; the beginning an event is recognised by is a field of it. `behind` is the
memory behind the event, which QueryAckAction's `strstr` and `strchr` reach: any of
the listed outcomes, an older answer among them. A field of ten characters or more
ends in `Error_Handler`, which is not in the repository and stops the program: such
a step is absent. Numbers are printed and read digit by digit (`Digits`, `Value`), up to
the largest an `int` holds, which is the type of the counters. `Mc60Modem` uses the results only: `parseRecvLenCondition` stands
for an announcement of at least one byte, `QueryAck` for equal counters.

### The BG96 and the ESP8266 driver

They are of one kind, and `AtDriver` holds what they have in common. Most of their
states ask the chip something and wait for lines; these are tables (`BootRules`,
`LinkRules`, `Rules`) of transitions in their order of declaration, each with the
conditions that must have held and the next state, and one action (`Read`) evaluates
them with the first line of the queue. `anded` (`When`) takes its conditions in any
order, `seq` (`WhenInOrder`) in its own: an "OK" left over from the command before does
not complete it. A condition is named by its pattern, and `Matching` says which lines
it matches: `%ERROR%` matches "+CME ERROR" as well, `%SSID%` the echo of AT+CWJAP=, which
carries the name, and `%.%.%.%` an echo with an address or the dots of "busy p...".
`Enter` is the entry of a state: the command
it transmits and its `SendNetworkAction`. The states that decide without a line are
actions of their own. Three more assumptions on the library belong to them:

* a state that delays on entry and ends in an `alwaysTrue` transition
  (`CHECK_CONNECTION`, the `Hopes` of the ESP8266) tries its transitions with all the
  lines that wait then. Were it not so, the echo of its own command would make the
  last transition the only one ever taken;
* `RETAIN_INPUT` leaves the event in the queue: the `_CONN` that ends
  `CONTROL_WAIT_FOR_CONNECT` is still there when `CHECK_CONNECTION` is left. Which of
  several retained answers to AT+QISEND=1,0 `QueryAckAction` reads is left open;
* an `alwaysTrue` state without a delay uses up one line, if there is one.

What the chip says is in `arriving` first. `LineArrives` puts one line after the other
into the event queue, or drops it when the interrupt is off or the queue is full, so that
any other step, a call of `connect ()` or a timer, may come between two lines of one
answer. Of the chip it is assumed that it finishes an answer before it says something
unasked or takes the next command; only a reboot cuts it short. An answer that has not
come when a delay is over (`GoesOn`) or a timer runs out is a fault: a chip that is late
again and again makes the ESP8266 driver transmit before the prompt for ever.

The address of the server is data of that event. When `CONNECT_TO_SERVER` is entered
with another line, the command has no address (or an old one: whether a place in the
queue still holds the address of an earlier `_CONN` is left open), and `ChipOpens`
refuses it.

The chip of the BG96 can be off, is switched over by every pulse of the power key,
reboots, echoes, announces data, and may hold a connection when the driver starts.
The chip of the ESP8266 is `busy` while it joins an access point or waits for an
acknowledgement, joins on its own after a reset, keeps its operating mode (`mode`), and
may have its echo off. Both take
what comes after an announcement of data for data, whatever it is.

`declared` holds exactly the units `declareRead` has dropped. The refinement of
`DataStream` is that of the MC60, with `connected <- announced` for the BG96
(`onConnected` has been called once) and `FALSE` for the ESP8266.

### The promise

`DataStream` numbers the units in the order of acceptance. The peer receives a unit
only when it has received every earlier one that was not given up; a unit may arrive
more than once (the driver sends again after a cancelled send); units are reported
sent from the front and only when they have arrived; all waiting units are given up
together, with `onDisconnected`. The driver implements it with
`first <- accepted - Len(dataToSendBuffer) + 1` and `sent <- declared`.

## 3. The runs

`responses` checks `MCMc60Responses`; `bg96` and `reconnect` check `Bg96Modem` and
`esp8266` checks `Esp8266`, whose constants are plain numbers; the other runs check
`MCMc60Modem`. They have `CHECK_DEADLOCK FALSE`: the system may stop,
in SHUT_DOWN or when the application has sent everything and
sleeps, and a parser is done when it has read its event.

| Run | Properties | Bounds | States |
|---|---|---|---|
| `stream` | `TypeOK`, `BufferOrder`, `BatchWithinBuffer`, `NoLoss`, `NoHole`, `ImplementsStream` | 3 units, buffer of 3, batches of 2, 2 faults | 1.16 million |
| `calls` | `OnlineStatesConnected`, `BootWithoutLink`, `SmsRemovedOnlyAnswered` | 1 unit, 2 calls of disconnect, power and sms, 1 fault, 1 chunk received | 1.48 million |
| `receive` | `NoLostWakeup` | 2 chunks received, a queue of 8 lines, 1 fault | 51 thousand |
| `progress` | `Drains`, `Recovers`, `PromptEnds` under `FairSpec` | 2 units, 1 fault | 40 thousand |
| `responses` | `CountersOfTheAnswer`, `CountersNotLeftOver`, `LengthOfTheChunk`, `TotalOfTheNotice` | three numbers of one, four or nine digits, events cut anywhere, 5 memories | 223 thousand |
| `bg96` | `TypeOK`, `NothingGivenUp`, `BatchInBuffer`, `NothingOvertakes`, `NoLoss`, `NoAnswerAsData`, `ImplementsStream`, and `DrainsOrAbandons` under `FairSpec` | 2 units, buffer of 2, batches of 2, 1 chunk received, a queue of 8 lines, 1 fault | 395 thousand |
| `esp8266` | `TypeOK`, `NothingGivenUp`, `BatchInBuffer`, `NothingOvertakes`, `NoLoss`, `ImplementsStream`, and `Drains` under `FairSpec` | 3 units, buffer of 3, batches of 2, a queue of 6 lines, 1 fault | 66 thousand |
| `reconnect` | `OpensWithAddress` is violated | 1 unit, 1 fault | - |
| `zero` | `NoLoss` is violated | as a chip that answers AT+QISACK with zeros | - |
| `disconnect` | `NoReconnect` is violated | 1 call of disconnect | - |
| `present` | `ConnectedMeansPresent` is violated | 1 fault | - |
| `off` | `OffDuringSleep` is violated | 1 call of power (false), no fault | - |

What they show:

* `stream`: whatever fails, and whenever `send` is called, a unit dropped as sent has
  been received; nothing is skipped on the way; the batch is always a front part of
  the buffer, so `transmit (data (), n)` reads what is there. `ImplementsStream` adds
  the order of it all: no unit is reported before it arrives, and waiting units
  disappear only with the announcement of the loss.
* `calls`: the data states are entered only with `connected` set, although
  `CHECK_CONNECTION` goes on to them without announcing a connection; this rests on
  `BootWithoutLink`, that every reset ends an earlier connection. A message is
  removed only after an answer to its text: the "OK" of an earlier command is used
  up by the state that sent it.
* `receive`: `newDataToReceive` is cleared only after an AT+QIRD that found nothing,
  and a later +QIRDI is still in the queue then. The queue must have room for it:
  with a queue that overflows an announcement is lost, which is why this run has a
  queue of eight.
* `progress`: resets by the timers and by the power key bring the driver back.
* `responses`: equal counters come from an answer, never from an earlier one that an
  unreadable event left in place (though zeros are equal as well: see `zero`).
  QueryAckAction reads on behind the event, whose bytes are not terminated; only an
  answer cut short can be completed by what lies there.
* `bg96`: a batch is dropped only after an answer to AT+QISEND=1,0 on the connection it
  was sent on, so it has arrived; no reset, reboot or reconnection gives up or reorders
  what waits (this driver never empties its buffer). `onData` may get the `_CONN` of a call
  that came between the announcement of a chunk and the chunk, or the first line of a chip
  that rebooted there, but never an answer of the chip (`NoAnswerAsData`). `DrainsOrAbandons` names the two ways in
  which data wait for ever: the driver waits for a `connect` that an application which
  believes itself connected has no reason to call, or it opens a connection to no
  address, refused for ever. It shows that there is no third way, and nothing of these two:
  every other fault is recovered from.
* `esp8266`: an "OK" that comes late is taken for the prompt of AT+CIPSEND, but what is
  transmitted then is answered with "SEND OK" only if the peer got it. The "OK" of AT+CWLAP
  can be taken for that of AT+CWJAP=, and the echo of AT+CWJAP= for the name of the access
  point, so that the driver believes it has joined and asks for its address while the chip
  is still joining; `Drains` says that data leave all the same.
* `reconnect` is the shortest way into the second of the ways above: a refused
  AT+QIOPEN, AT+QICLOSE, and AT+QIOPEN without an address.
* The five violations are disagreements between the code and what the code says of
  itself; `PROJECT.json` quotes both sides under "findings".

Why the bounds are enough. A batch is smaller than, equal to and larger than what
waits with three units and batches of two, and units can be added while a batch is
on its way. Two faults in `stream` cover a failure during the recovery from another.
`AT_RETRY_LIMIT` and `QUERY_ACK_COUNT_LIMIT` are 0 (5 and 8 in the code): the test is
"greater than", so one retry takes place, and more of them repeat the same cycle.
`COMMAND_LIMIT` 2 is what the driver can have on its way before it waits. A queue of
four lines holds the longest answer, of four lines; the run of the ESP8266 has six and that
of the BG96 eight, room for an answer left over, an announcement and a `_CONN` as well. One
fault is enough for their dialogues, each of which a single fault can throw back to the
reset; their safety properties were also checked with two faults (3.6 million states for
the BG96; 820 thousand for the ESP8266, liveness too), and those of the BG96 with three
units, batches of two and one fault (738 thousand). Every property has a mutant of the
code, listed in `PROJECT.json`, that violates it under the same bounds.

Fairness. `FairSpec` of the MC60 assumes weak fairness of: the machine, because the main loop
calls `run ()` for ever; the timers, because time passes; `Connect`, because without
it nothing is asked of the driver; the chip serving commands and reporting what it
owes; the network delivering and acknowledging while the link is up. Nothing is
assumed of the faults, of `send`, nor of a race between them. The bound on faults
stands for a chip that works in the end: one that fails for ever keeps the driver
resetting it, and nothing else can be expected. The other two have the same, with two
differences in the BG96: its timers are strongly fair, because the application's calls
put lines between the moments in which they can run out without stopping them, and
`Connect` is strongly fair while the driver waits for it and has not announced a
connection: the application asks now and then until it is told.

## 4. What is proved

TLAPS checks the following for all values of the constants allowed by
`BufferAssumption`, `ChipAssumption`, `ModemAssumption`, `DriverAssumption`,
`Bg96Assumption` and `ResponsesAssumption`.

The MC60 driver:

* `BufferStaysOrdered`: `Spec => []BufferOrder` (`Mc60TypeProofs`). The proof
  reduces every action to one of five moves of the buffer: it is left alone, it is
  emptied, the batch at its front is dropped, units are appended, or only the size of the
  batch changes. One lemma says that each move preserves the invariant, and
  one lemma per group of actions says which moves it makes.
* `TypesHold`: `Spec => []TypeOK`, and `BatchesStayWithinBuffer`:
  `Spec => []BatchWithinBuffer` (`Mc60TypeProofs`). `TypeOK` is not inductive by
  itself: the batch handed to the chip consists of units only if the batch lies
  within the buffer, so the inductive invariant is `TypeOK /\ BatchWithinBuffer`.
  `BatchWithinBuffer` in turn holds because the buffer is emptied only by transitions
  that leave the batch states. The proof treats four groups of variables apart (queues,
  flags, buffer, chip), with one lemma for what the driver, the timers, the
  application and the environment can do to each.
* `DeliveryHasNoHole`: `Spec => [](NoLoss => NoHole)`, and `StreamImplemented`:
  `Spec /\ []NoLoss => ImplementsStream` (`Mc60StreamProofs`). `NoHole` speaks of what
  has arrived, so its invariant (`FlightInv`) must speak of everything that may arrive
  later: the peer, what the network holds, what the chip holds and the batches among
  the commands that wait for the chip are one path, and along it each unit is either
  known further on, or given up, or the next in turn (`InTurn`). Resending puts an old
  batch at the end of the path once more, which is in turn as well; a lost connection
  removes a middle part of the path, but then everything behind it is removed from the
  buffer too or sent again. The refinement follows step by step from the same invariant.

* `OnlineOnlyConnected`, `BootEndsLink` and `SmsRemovedOnAnswer`:
  `Spec /\ QueueDrained => []P` for `OnlineStatesConnected`, `BootWithoutLink` and
  `SmsRemovedOnlyAnswered` (`Mc60PairingProofs`). The driver tells no command's answer
  from another's but by its words, so each of the three rests on the same fact: a line
  that leads out of a state answers the command of that state. The inductive invariant
  `PairInv` says so of every state, in terms of the commands the chip has not served
  (`Asked`), the lines not yet read or read in this state (`Told`) and what the chip
  owes. Each kind of exchange (AT+CIPSHUT, the query for the connection, the one
  that closes it, AT+QIOPEN, the two echoes of the configuration, and all that is answered "OK") is
  either not under way, neither asked nor answered (`Fresh`), or under way in the states
  that wait for it (`Sync`): asked once at most, answered once at most, not both,
  and behind the answer comes nothing but what the chip says unasked. From this follows that
  reading the answer makes the exchange `Fresh` again, also when the chip reboots between,
  since it then says nothing at all. `LinkDown` says where there is no connection, which the
  answer to AT+CIPSHUT, to the query or to AT+QIOPEN has told. While the USART is
  off, old lines are all the driver has; `Deaf` says that they do not hold both echoes
  the configuration waits for, so it gets stuck before it asks for a connection.
  The condition `QueueDrained` is that RESET_STAGE_POWER_ON does not go on to INIT with old
  lines in the queue: `power (true)` leaves those of the last lap there. The modem takes seconds
  to switch on, the machine keeps evaluating that state meanwhile and takes
  one line each time, and the interrupt is off, so no new ones come
  (Mc60Modem.cc:149-161). The model has no seconds, so its step may come earlier; TLC
  checks the three without the condition, with a queue of four lines.

* `NothingLost`: `Spec /\ QueueDrained => []NoLoss`, under the assumption
  `~ZeroCounters` (`Mc60StreamProofs`): whatever the chip misses, refuses or forgets, a
  batch is dropped as sent only when the peer has it. The counters of AT+QISACK carry no
  name of the batch they acknowledge, so the inductive invariant `DataInv` says that they
  can belong to no other. `DataPaired`: one batch at most is on its way to the chip, as data, as
  a "SEND OK" the chip owes or as a "SEND OK" told (`OneSend`), and only in `NETWORK_SEND`
  and `CANCEL_SEND`; in every other state of the lap there is none (`Unsent`), except
  behind the answer that ends its connection (`Ended`). `AckPaired`: counters are asked for
  or told in `NETWORK_ACK_CHECK` only. `Sending`: the batch under way is the one that was
  measured, and with "SEND OK" the chip holds it (`Carried`): each of its units is with
  the network or delivered as long as the connection lasts. `Acking`: equal counters then
  mean that all of them are delivered, until `STAGE_DECLARE`. `Attached` is
  that only a connection takes data. `PairInv` gives the rest: which state can
  read which answer, and that the laps do not mix.
  The counters survive a lost connection, but AT+QISACK asked after it is answered with
  an error or with the counters of the batch still in the buffer. `~ZeroCounters` excludes the
  chip that answers with zeros instead; `zero` shows that the assumption is needed.
  With it go `DeliveredInOrder` and `PromiseKept`: `NoHole` and `ImplementsStream` of the
  MC60 under the same two conditions, without supposing `NoLoss`.
* `NoWakeupLost`: `Spec /\ QueueDrained /\ []HasRoom => []NoLostWakeup`
  (`Mc60StreamProofs`): data the chip holds are known to the driver or announced to it.
  The hazard is that NETWORK_BEGIN_RECEIVE clears `newDataToReceive` on an answer that
  found nothing, while new data may have come in behind it. The inductive invariant is
  `RecvInv`: only a connection holds data (`InboxLinked`), and while that state waits,
  the only command open or answered with "OK" is AT+QIRD, answered once, and data that
  came after an answer that found nothing have a `+QIRDI` behind that answer
  (`FetchPaired`), so reading the "OK" leaves the announcement in the queue. That no
  "OK" of another command is taken for it is `PairInv`.
  `HasRoom` says that the event queue of the driver does not fill: a `+QIRDI` that finds it
  full is dropped, and with a queue of four lines TLC finds the wakeup lost. The
  queue of eight of the run `receive` has always room.

The other two drivers (`AtDriverProofs`, `Bg96Proofs`, `Esp8266Proofs`):

* `Bg96GivesNothingUp` and `EspGivesNothingUp`: `Spec => []NothingGivenUp`, and
  `Bg96BatchInBuffer` and `EspBatchInBuffer`: `Spec => []BatchInBuffer`. `AtDriverProofs`
  shows that four moves of the buffer keep both (it is left alone, measured, the batch
  is dropped, units are appended), provided that a batch is measured only when there
  are data and that the states of a batch follow each other; it is there that `Declare`
  is shown to move exactly the oldest units from the buffer to `declared`. Each driver
  then has a lemma that every step is such a move. For the ESP8266 the two invariants
  are inductive together; for the BG96 the query for room lies between the test for data
  and the measuring, so the inductive invariant adds `DataAhead`: in that state there
  are data. That the tables of transitions lead nowhere else (`RuleTargets`) is proved
  state by state. So the transition that `NETWORK_PREPARE_SEND` has for an empty batch is
  dead code in both drivers.
* `Bg96TypesHold` and `EspTypesHold`: `Spec => []TypeOK`. The line (`WireInv`) is typed
  together with the buffer, because the batches on it are parts of it. The counter of
  AT+QISEND=1,0 queries of the BG96, which is not cleared where its limit is reached,
  exceeds the limit by one at most.
* `Bg96NothingOvertakes` and `EspNothingOvertakes`: `Spec => []NothingOvertakes`, without
  any condition: whatever is resent, missed in data mode, mistaken for a command or hung up
  on, a unit arrives only behind all earlier ones but those already dropped as sent.
  The invariant is `FlightInv` again, over the path of these chips.
* `Bg96ImplementsStream` and `EspImplementsStream`:
  `Spec /\ []NoLoss => ImplementsStream`.
* `Bg96NoAnswerAsData`: `Spec /\ []ChunkHasWay => []NoAnswerAsData`. The chunk comes some
  lines, steps and perhaps a `_CONN` after its announcement, and the state that waits for it
  looks at nothing it reads. The inductive invariant is `ChunkInv`: in the queue, behind the
  announcement, nothing stands before the chunk but events of `connect` and the first line
  of a chip that rebooted (`Orderly`, of the lines `Told`); when the chunk is not there yet
  (`HalfTold`), it is the next line the chip says, or "RDY" is (`Whole` says so of
  what is arriving). `ChunkHasWay` is that while the chunk is awaited the interrupt is on and the
  event queue is not full. The condition is needed: a chunk that is dropped leaves the "OK"
  behind it to `onData`. The run `bg96` checks the property without it, with a
  queue of eight lines.

The parsers (`Mc60ResponsesProofs`): `CountersAreOfTheAnswer`, `CountersAreNotLeftOver`,
`LengthIsOfTheChunk` and `TotalIsOfTheNotice` prove the four properties of the run
`responses` for every memory behind an event, every earlier result, every size of the
buffer and every set of numbers an `int` can hold. The lemmas say what a search for a
comma returns on a text put together of fields (`FirstField`, `LastField`,
`TwoCommas`), what `strstr` finds in an event and the memory behind it (`AnswerFound`,
`NoAnswerFound`, `AnswerIsEnd`), and that reading a number undoes printing it
(`DigitsOfNumber`, `NumberRead`). The last is about two recursive functions and numbers
with any count of digits; it is proved from the least number for which it might fail
(`FirstOf`). A total or a length with more digits than fit the buffer stops the
program, so nothing is claimed of what it keeps then. An announcement that is cut short is
constrained by no property: its length is what is left of it.

`StreamImplemented`, `Bg96ImplementsStream` and `EspImplementsStream` have the condition
`[]NoLoss`, and `DeliveryHasNoHole` proves `NoHole` where `NoLoss` holds: given that nothing is dropped
too early, order, completeness and the moment of each report are right, whatever
else goes wrong. For the MC60 `NothingLost` turns the condition into the two above.
For the other two drivers `NoLoss` is not proved. The ESP8266 driver pairs answers with
commands by their order only: what it takes for the "SEND OK" of a batch belongs to it only
as long as the chip is less than a whole lap of commands behind, so a proof would have to
count the commands that wait. That `NoLoss` holds with one fault, and two commands waiting
at most, is checked by `bg96` and `esp8266` (with two faults as well, see section 3).

Only model-checked:

* `NoLoss` of the BG96 and the ESP8266 driver, for the reason above;
* that the event queue has room (`HasRoom`, `ChunkHasWay`), for any of its sizes: how many
  lines wait depends on how fast the driver reads them;
* `Drains` (of the MC60 and of the ESP8266), `Recovers`, `PromptEnds` and
  `DrainsOrAbandons`: liveness under fairness, which the prover does not reach.

## 5. What is not modelled

* The characters, outside the parsers: splitting into lines by LineSink, its binary
  mode, formatting. `ParseRecvLengthAction`, which nothing uses. The payload of a received chunk is one line.
* `newSmsToReceive`, which is set and never read, and `SMS_CHECK`, which no
  transition enters.
* `NETWORK_SEND` entered with a batch of nothing: the states before exclude it.
* A second server address; `port` goes with `address`.
* In the BG96 driver `RESET_STAGE_POWER_OFF` and the `SHUT_DOWN` states, which no
  transition and no call leads to; `connectionState`, which is never written; the
  parsers, which appear by their results; what `disconnect` and `power` would do.
* In the ESP8266 driver the states that are only numbers, except `CANCEL_SEND`, which a
  transition enters. `send` and `connect` lack a return statement: their results are
  not used by the model.
* The bytes of a command that the chip takes for announced data: they are no units.
* Tests, vendored and build files, logging.

## 6. Plan

1. `Mc60Boot`, `Mc60Chip`, `Mc60Modem`, `SendBuffer`, `DataStream`, their runs and the
   theorems above (done).
2. The receiving path: LineSink's binary mode as the driver uses it, `onData` once
   per chunk; then `power`: a pulse of the key against the status pin, with the
   property that a modem switched off ends up off.
3. `Mc60Responses` (done for the MC60); the parsers of the BG96 differ in their words.
4. `AtDriver`, `Bg96Modem`, `Esp8266`, their runs and the theorems above (done).
5. Proofs: the types, the order of delivery, the refinements, the parsers, and for the MC60
   driver the pairing of answers with commands and `NoLoss` (done). `NoAnswerAsData` and
   `NoLostWakeup` are proved for a queue with room (done).
