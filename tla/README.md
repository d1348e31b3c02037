# Verification of the BG95 driver

TLA+ models of the Quectel BG95 driver for the ESP32 (`src/`), the TLC runs that
check them on small instances, and TLAPS proofs of what holds for every value of
the constants. `PROJECT.json` maps each definition to the lines it models and
lists the runs, the mutants each property must detect, the hazards, the
divergences found and the theorems.

## 1. The system

The application calls functions of `bg95_driver.h`. Each makes one AT command or
a short sequence of them; the AT handler writes a command to the UART and
collects the modem's answer until it is complete or the time is up. Everything
runs in the caller's task: no task of the driver's own, no lock, no callback, no
queue besides those of the UART. The other side, the modem, works on its own: it
answers late or never, reports results in lines that come after the OK, and
sends unsolicited lines whenever it likes.

| Component | State | Operations | Made correct by |
|---|---|---|---|
| UART interface, `bg95_uart_interface.c` | the SDK's two buffers | `init`, loopback and AT test, `write` (may flush, may time out), `read` with a timeout | a failed write is reported; nothing unread is lost; what works keeps working when an initialisation fails |
| AT handler, `at_cmd_handler.c` | per call: `raw_response`, its length, the clock | send and wait; send, wait for `>`, send the payload, wait | the reply judged is the reply to this command; every call returns |
| Response parser, `at_cmd_parser.c` | none | is it OK, is there a data line | success if and only if the modem said OK |
| Command formatter, `at_cmd_formatter.c`, and the `write_formatter` of each command | two 256-byte buffers | format the parameters, then the command | written whole or refused |
| MQTT calls, `bg95_driver.c` with `at_cmd_qmt*.c` | the caller's response structure | open, close, connect, disconnect, publish, subscribe, unsubscribe, two queries | the result is that of this operation of this client |
| MQTT configuration, `at_cmd_qmtcfg.c` | the union a response is parsed into | set and query of seven parameters | a set takes effect in full; a query returns the value of the one asked for |
| Power, restart, network, `bg95_driver.c` with CFUN, CPIN, QCSQ, CSQ, COPS, CGDCONT, CGACT, CGPADDR | `handle->initialized`, the power-key pin | init, connect, restart and their parts | success means the module is on, restarted, has the address |
| PDP context definition, `at_cmd_cgdcont.c` | none | format up to seven fields, most of them optional; parse a list of contexts | a field is where the other side looks for it |
| Signal quality, `at_cmd_csq.c`, `at_cmd_qcsq.c` | none | parse, convert between rssi and dBm | the strength reported is the one told |
| UART mock | a canned answer | the interface, for tests | not used by anything here |
| CGATT, CREG | | not built | |
| Enum names | | wording | |

What is hard here is time. No call empties the receive buffer before it writes,
so an answer that arrives after its call gave up is the first thing the next
call reads, and nothing in an answer says which command it belongs to. What is
an answer is decided by string searches in a text that grows by chunks. A
publish adds a second mode of the modem, in which it takes a command for
payload. And the power key toggles, so turning on a module that is on turns it
off.

## 2. The modules

```
 Uart -------+-- UartInterface
             |
 AtResponse -+-- AtCmdHandler ----- AtCmdHandlerPort === implements ===> AtCall
   (pure)    |                         `-- MCAtCmdHandler                  |
             `-- AtPort ---------------------------------------------------+
                    +-- Bg95Network
                    +-- Bg95Mqtt ----- MqttResponses -- MqttCommands
                    `-- Bg95MqttCfg -- QmtcfgCommand -- MqttCommands
                             `-- MCBg95MqttCfg

 Requests -- QmtcfgCommand, PdpContext (both over MqttCommands), Signal
     `-- MCRequests
```

The theorems about a module M are in `M_proofs`, those about the handler in two:
`AtCmdHandler_proofs` (with the refinement of AtCall, which AtCmdHandlerPort states) and
`AtCmdHandlerSync_proofs` (staying in step, and the verdict on a quiet line); those about the
MQTT calls in two: `Bg95Mqtt_proofs` and
`Bg95MqttStep_proofs` (whose results are whose).

**Uart** -- what a write can do, as its callers see it: sent or not, receive
buffer emptied or not (`uart_flush` of the SDK flushes the *input*), and the code.
A write whose wait for the end of the transmission fails was still sent.

**AtResponse** -- the searches of `has_command_terminated`,
`at_cmd_parse_response` and `parse_at_cmd_specific_data_response`. Bytes are
abstracted to *pieces*, the shortest runs those searches can tell apart; a line
that a read may cut in a way the code notices is two pieces.

**AtCmdHandler** -- both send functions. `RejectCall` stands for the returns before
anything is written, `SendCommand` for the write and the entry into the first
loop, `DropBeforePrompt` and `SendPayload` for the prompt loop, `Collect`,
`Overflow`, `ReadNothing` and `TimeOut` for the read loop with its chunk, its
buffer limit and its clock. Several tasks may be in a call at once. `quiet` (this
call found nothing left over and had the line to itself) and `debt` (calls that
returned while the modem may still owe an answer) are ghosts: no guard reads them.

**UartInterface** -- `bg95_uart_interface_init_hw`, called again and again on one
interface structure for one port or another, with an action for each point it can
fail at, and the loopback and AT tests. The structure is repointed before anything
can fail, which is why a test may find its functions set and its port without a
driver.

**AtPort** -- the same call in one step for the driver above: which numbers of
lines it can take when it completes (its last chunk may bring, and lose, lines
that follow) and when it gives up. Lines arrive whole here; how they are cut is
AtCmdHandler's matter.

**AtCall, AtCmdHandlerPort** -- AtCall is the abstract specification of the handler:
calls that take what was received in one step, in order, each piece once, and lose
it only when they return an error; it uses AtPort's operators, so the modules above
are written over what it promises. AtCmdHandlerPort instantiates it with what a lone
task has collected put back in front of what is still on the line
(`Unconsumed`), and states that AtCmdHandler implements it.

**MqttCommands, QmtcfgCommand** -- what each MQTT call checks, and what it writes:
the lengths of the formatted parameters and command against their buffers, for
AT+QMTCFG also the values and the union of the response, byte by byte, since an
answer of one type may be read as another. **MqttResponses** -- the parser of each
MQTT command, on the numbers its line begins with, and the error the driver makes
of what it leaves in the caller's structure.

**PdpContext, Signal** -- AT+CGDCONT as a sequence of fields, written and read; the
numbers of AT+CSQ and AT+QCSQ and the conversion to dBm and back. **Requests** makes
one call with any arguments of any of these, and lists a context it defined. The sets
of arguments are constants, of any values of the C types; **MCRequests** has those TLC
cannot read from a configuration file.

**Bg95Mqtt** -- the nine calls over AtPort, one action each, to a modem with
clients that are closed, open or connected and operations that are accepted and
end later. `Finish`, `GiveUp` and `SendMessage` end or advance the call. The ghosts
`debt` and `ahead` are the ways out of step: calls that gave up on an answer that may
still come, and calls that went on too early, by sending a message on a `>` that was
no prompt or by returning on the news of a retransmission.
**Bg95MqttCfg** -- the same for seven sets and seven queries.

**Bg95Network** -- a call is a program of commands (`Program`); `Issue` checks and
writes the next, `Finish` or `GiveUp` end it, `StepEnds` goes on, uses the power
key or returns. `Raise`, `Lower` and `LowerFails` are the pulse of the key, whose pin
may stay high. The module has power, a functionality level and contexts. The UART
under the driver may never have been set up (`alive`).

*External* definitions model the modem from what the driver sends it and expects
back. They promise little: any command may be refused, its answer lost or
arbitrarily late. What they do promise is that answers come in the order of the
commands, that a command answered OK was done, and that an unsolicited line does
not stand inside another line.

## 3. What the runs check

All runs use `CHECK_DEADLOCK FALSE`, since calls are bounded and the system may
then stop.

| Run | States | Shows |
|---|---|---|
| `AtCmdHandler` | 571 k | one task, two calls of any of four commands (one of each response type, one prompted): types; a call on a quiet line collects only its own reply (`QuietCallOwnReply`, and its inductive form `QuietInv`) and judges it exactly (`QuietVerdictIsExact`); until a call gives up, between calls nothing written is waiting, the modem is in command mode and no verdict is unread or unsent (`SyncUnlessAbandoned`); a success rests on an OK of its own (`UnabandonedOwnReply`); the loops implement AtCall (`ImplementsAtCall`) |
| `AtCmdHandlerReturns` | 84 k | two tasks, prompted calls: every call returns |
| `Requests` | 136 k | arguments at and around every limit: whole or refused; publish, subscribe and unsubscribe agree on topics; a context whose fields are given in order reads back field for field; a signal strength reported is the one told |
| `Bg95Mqtt` | 346 k | two clients, any two of the nine calls, echo on: results exact until a call gives up or returns on a retransmission; a reply whose client and message id were compared is right ever after; a state returned was told; a client is reported not found only behind another one |
| `Bg95MqttPublish` | 1.5 M | three publishes of one client, with a `>` out of turn twice: a payload goes under another call's topic only when that call was reported as failed; results are the call's own until then |
| `Bg95MqttCfg` | 54 k | two clients, seven parameters, two calls: sets take effect in full, queries are current |
| `Bg95Network` | 421 k | any two of eleven calls: connect succeeds only with the address it verified itself, even after commands were given up (within the first eight calls, section 3); restart took effect; an active context is found; an initialised driver faces a module that is on unless a given-up command was answered late, and has let go of the power key |
| `UartInterface` | 377 k | initialisations and tests of two ports in any order: a port that works keeps working, only a failure at the buffer size leaves a driver behind, a passed test rests on bytes received since it began |

Four more runs show that a sentence of the repository does not hold of the code:

| Run | Sentence | What happens |
|---|---|---|
| `AtCmdHandlerOkLetters` | "Was it OK vs ERROR/CME" (`at_cmd_parser.h:11`) | the letters OK in an echoed name make an ERROR a success |
| `AtCmdHandlerTwoTasks` | "Provides thread-safe command execution" (`README.md:72`) | one task reads the other's reply |
| `Bg95MqttPublished` | "Packet sent successfully and ACK received" (`at_cmd_qmtpub.h:11`) | after a publish returned on a retransmission, the next takes its final result |
| `Bg95NetworkLate` | "Only mark as initialized if the module is responsive" (`bg95_driver.c:91`) | the answer to the first probe comes after the power key turned the module off, and the second probe reads it |

The following disagreements were met while modelling and have no run:

- `at_cmd_handler.c:55`: the search for the CRLF after an error starts at a marker
  that itself begins with CRLF, so `+CME ERROR:` completes a response before its
  code has come. `Harmless` contains the piece `cmetail` for that reason.
- `at_cmd_handler.c:94`: a DATA_REQUIRED command answered by OK alone times out,
  though the write parsers say that OK alone is normal (`at_cmd_qmtopen.c:158`).
- `at_cmd_formatter.c:65`: credentials within their announced limits (512 bytes)
  do not fit the 256-byte buffers and are refused.
- `bg95_driver.c:1938`: a topic to publish to is cut to 127 bytes and sent;
  `WholeOrRefused` excepts it, `TopicsAgree` shows that no topic one can subscribe
  to is cut.
- `bg95_driver.c:1694`: of two clients with a connection, a query finds the first only;
  `NotFoundIsShadowed` says that this is the only way one is missed.
- `at_cmd_cgact.c:64` drops the line of context 15, the last of the "1-15 as per
  specification" (`bg95_driver.c:348`), so that an active context 15 is reported not
  found. `ActiveIsFound` excepts it.
- `bg95_driver.c:362`: an APN longer than 127 bytes is cut, and the call reports that
  the context was defined with the whole of it. `WholeOrRefused` excepts it.
- `at_cmd_cgdcont.c:432`: a PDP type that is none of the five is written as IP.
- `at_cmd_cgdcont.c:478`: a compression given without the address and APN before it
  takes the place of the address. `InOrder` is what the formatter asks of its callers;
  `bg95_define_pdp_context`, the only one, gives type and APN.
- `bg95_driver.c:229`: for an unknown signal strength the call leaves 0 dBm, which
  converts to the highest index, and returns `ESP_ERR_NOT_FOUND`.
- `bg95_driver.c:126`: when the power key cannot be lowered the call fails with the pin
  high. A later initialisation whose first probe is answered succeeds without
  touching it, so `KeyIsReleased` speaks of one that used the key.
- `bg95_uart_interface.c:157`: the driver stays installed, and every later
  initialisation of that port fails. `FailedInitIsUndone` excepts it.
- `bg95_driver.c:1684`: with echo off, an answer of OK alone leaves the caller's
  structure as it was, and an old state is returned. `Bg95Mqtt` has echo on, which
  is the modem's default and which the driver never changes.
- `bg95_driver.c:686`: a late answer to another query is copied out of the union
  whatever its type. `QueryIsCurrent` is stated until a call gives up.
- `bg95_driver.c:515`: connect looks at the error code of AT+CPIN? but not at the
  status it returned.

Where a hazard of `PROJECT.json` is one that the code falls to, the property it names
excepts that case, by `debt` (a call has given up), by `leaked` or by naming it, and says
that nothing else of the kind happens. The hazard's note says which case is excepted.

### Bounds, and why they are enough

- `MaxCalls` is 1, 2 or 3. What a call can do wrong depends on what earlier calls
  left on the line. One leftover answer needs one earlier call; a payload under
  the wrong topic needs three publishes (the run has three).
- `ConnectedHasAddress` is stated of the first eight calls, as many as connect has
  commands. AT+CGPADDR is the last of them: a late answer to an older one is read by a
  step before it, unless late answers to all those steps stand in front. Eight calls that
  are given up and a ninth that connects arrange just that: AT+CPIN?, AT+QCSQ, AT+COPS?,
  four times AT+CGDCONT, AT+CGPADDR, and connect reads these eight answers as its own.
  The run has two calls; the theorem has all eight.
- `Timeout = 1` and `PromptTimeout = 2` read intervals: the clock enters only through
  whether it runs out, which each read leaves open.
- `RejectCodes` has one code: what a call refused before it writes anything returns is
  of no account to another.
- `BufCap = 5`, `RxCap = 4`, `ChunkMax = 3` pieces: an answer has up to four
  pieces and its echo, so both buffers overflow, and a chunk may end anywhere.
- `MaxUrcs`, `MaxDrops` are 0 or 1: one unsolicited line, at any time, is enough
  to stand before, in or after an answer. The publishes have two: a `>` taken for the
  prompt puts a call ahead of the modem, and only one more shows what that does to the
  next.
- `ChunkLines = 2`: a chunk that completes a response may carry one line more.
- `Links`, `Lossy`: the runs of Bg95Mqtt start with all clients closed, open or
  connected, and with packets that may have to be sent again; the publish runs start
  connected, and one of them without retransmissions.
- UartInterface: two ports, three operations, and three pieces, which fill the
  buffer of a test: enough for a port that works, a failure of another, and a test
  of either with something left over.
- Context ids 1, 14 and 16, client indices 0, 1 and 6, and the lengths of
  `Requests.cfg` are on both sides of each limit in the code.

### Fairness

Only `AtCmdHandler` states fairness: weak fairness of `Progress(t)` for each task.
Each iteration of both loops is a `uart_read_bytes` with a timeout and a
`vTaskDelay`, which return, and the scheduler runs a ready task. Nothing is assumed
of the modem or of the callers: `EveryCallReturns` holds against a modem that
never answers. The other specifications make safety claims only.

## 4. What is proved

Each theorem holds for every value of the constants that the module's `ASSUME` allows,
and of the modem it takes only what the specification says: it answers in order, and
only what was written.

**The handler** (`AtCmdHandler`: any tasks, commands, timeouts, buffer sizes).

- `TypeCorrect`: `[]TypeOK`. The auxiliary fact `CallHasId`, that a task in a call has
  a call number, is carried along, since `debt` is a set of such numbers.
- `QuietLine`, `QuietCall`: `[]QuietInv` and from it `[]QuietCallOwnReply`. The property
  is not inductive: it speaks of what was read, so what may still be read must be
  bounded too. `QuietInv` adds that, while a quiet call runs, no other task is in a
  call (`LineIsOwn`), all on the line, in the modem's rest of an answer and in what it
  has not yet taken up belongs to this call, a payload the modem waits for is this
  call's, and a prompt the modem is about to send is that of the publish it has taken
  up. `OnlyOf` (all pieces of a sequence are harmless or of call i) is shown to be
  membership in `Seq(Owned(i))`, so that the facts about `Append`, `SubSeq` and `\o`
  apply to it.
- `LoneCallImplements`: with one task, `Spec => ImplementsAtCall`. Beside the types the
  refinement needs `CallInv`: a running call has no result yet, has collected nothing
  before the prompt, and what it has collected does not complete its response, which
  is why the chunk that does is the last one.
- `LoneStaysInStep`: with one task, `[]SyncUnlessAbandoned`. The invariant counts *marks*,
  the pieces that move a call or the modem on (verdicts and the prompt): while no call
  was given up, command, answer and what was read of it hold one mark between them, so
  that the call cannot end before the modem has nothing left to say.
- `LoneOwnReply`: with one task, and no letters OK in a command's name or an unsolicited
  line (`NoLetters`), `[]UnabandonedOwnReply`; the marks are also the call's own. The
  runs `AtCmdHandlerTwoTasks` and `AtCmdHandlerOkLetters` show that the code needs both
  assumptions.
- `QuietVerdict`: for any number of tasks, `[]QuietVerdictIsExact`, from `QuietInv`,
  `CallInv` and `ExactInv`. That the handler prefers an OK to an error does no harm only
  because a quiet call never reads both, which the phases of `ExactInv` show: the modem
  has not taken up the command (`Untaken`), or prompts or waits for the payload (`Open`), and
  no answer is anywhere on its way from it; or it has answered OK (`Granted`) and nothing
  that was written is left for it to fail; or it has failed or said nothing (`Denied`),
  and may yet answer a payload that came out of turn, but not with OK. Each phase says which
  pieces are in none of the response, the receive buffer and the rest of the answer, so
  neither chunks nor losses matter. Two assumptions: `NoLetters` as before, and
  `NoneTooStrict`, that no command whose data is optional has a parser that fails
  without it (then an unsolicited line would turn its OK alone into a failure). The
  commands whose data is optional, `QMTOPEN?`, `QMTCONN?` and `QMTCFG=`, have parsers that
  take a missing line for no data.

**The UART interface** (`UartInterface`: any ports, buffers and bounds).
`WorkingPortStays`, `FailedPortIsFree` and `PassedTest`. The first two are inductive
together. The third needs that a test only ever reads a port with a driver, and that all bytes
waiting there came after its flush.

**MQTT** (`Bg95Mqtt`: any clients, message ids and number of calls).

- `TypesOK`: `[]TypeOK`. Each call is shown to write only a client index that its own
  check or its formatter let through.
- `MessagesKeepTheirTopic`: `[]SwappedIsAbandoned`. It holds by the order of what is
  written, whatever is read. `PairInv`: a publish that was not given up, on its way or
  taken up, is followed in `tx` by its own message, or is the last thing written and
  its call still waits for the prompt.
- `CheckedRepliesAreOwn`: `[]CheckedReplyIsOwn`, after calls that gave up as well.
  `FreshInv`: every command, job and result line that has the message id of a call whose
  id was new is of that call, and a line reports success only of what was done. It
  speaks of all lines, so it does not matter which of them is read.
- `RepliesAreOwn` (`ReplyIsOwn`), `VerdictsAreExact` (`ResultsExact`), `StatesAreTold`
  (`StateIsTold`) and `NotFoundOnlyInShadow` (`NotFoundIsShadowed`), all from one
  invariant. `StepInv`: as long as `InStep`, between calls nothing is asked of the modem and
  the line has only noise (echoes and unsolicited lines); while a call runs, the call,
  the modem and the line are in one of a few phases: its command is on its way and the line
  has noise; it was refused, and the line has at most its ERROR; the modem has prompted; it was
  accepted, and behind its OK there is news of retransmissions at most; it was completed, and
  the line has its result, which agrees with `acked`; a query was answered, and the
  lines before its OK are its own, the first of them of the least client with a connection.
  Between the lines of an answer there may be noise anywhere. That reading completes at
  a certain line, and what the parsers make of the lines up to it, is shown phase by phase
  (`RefusalJudged`, `AcceptedJudged`, `CompletedJudged`, `ListedJudged`). TLC found
  `StepInv` invariant on four configurations before it was proved.

  `VerdictsAreExact` assumes that no unsolicited line has the letters OK in it: with them
  an ERROR is a success, as `AtCmdHandlerOkLetters` shows. `StatesAreTold` assumes that echo is
  on or that the caller gives every query an empty structure: otherwise an answer of OK
  alone leaves an old state there (section 3).

**MQTT configuration** (`Bg95MqttCfg`: any clients, parameters and values).

- `TypesAndRanges`: `[]TypeOK`, with the lemma that the ranges of all parameters are
  non-empty intervals, so that the values the modem starts with are legal.
- `SetsTakeEffect`: `[]SetTakesEffect`. `SetInv`: until a call gives up, nothing is on its
  way between calls, and while one waits, either its command or its answer is, of which
  only the last line completes a response; and the OK of a set comes after the modem's
  parameters have the values it wrote.
- `QueriesAreCurrent`: `[]QueryIsCurrent`. `QueryInv`, on top of `SetInv`: until a call gives
  up, the OK of a query stands behind one line only, with the values of the parameter
  that was asked, so `FinishReads` has the parser look at that line. The rest is the union.
  `FieldsArePlaced`: the fields of each structure lie side by side below the byte of its
  flags; so `StoredByte`: what is at a byte of a field is that byte of its value. A
  value in range fits its field (`ValuesFit`), and a number is the sum of its bytes by weight
  (`SumOfBytes`). With the flags (`StoredFlag`) this makes `LoadTold`: storing what the modem
  tells and loading it again gives the modem's values, and -1 where it told none.

**Power and network** (`Bg95Network`: any contexts and number of calls).

- `TypesAndContexts`: `[]TypeOK`. `PowerKeyIsReleased`: `[]KeyIsReleased`, by which pins the
  loops of the power key leave behind (`PinInv`).
- `InitialisedMeansOn`: `[]InitMeansOnUnlessLate`. `OnInv`: until a command is given up that
  could still be answered, a module that is on has nothing to answer between
  commands, and only an answer to the command of the call at work is read; so the AT
  that ends an initialisation was answered by a module that was on.
- `RestartIsEffective`: `[]RestartTakesEffect`; `ActiveContextIsFound`: `[]ActiveIsFound`.
  Until a command is given up, one command or its answer is on its way, and the answer says
  what the module was when it gave it. For a restart the functionality and the contexts
  after each of its steps are carried along; for a listing, that each active context has a
  line, of which the parser passes over none but the fifteenth's.
- `ConnectsHaveAddress`: `[]ConnectedHasAddress`. Nothing is assumed of earlier calls, so
  what the line holds cannot be known, only counted. `LateInv` has three parts.
  `QueueInv`: answers are in the order of the commands, each with its lines before its OK,
  and before the commands not read yet. `CountInv`: the commands whose OK is on the line or
  may still come (`Out`) are no more than the calls, and one fewer while a call
  still has to write its command; for a call goes on to its next command only with an OK it
  took off the line, its own or an older one. Only `bg95_init` goes on after a probe that
  failed, by way of the power key, which loses what the module has not read. A pulse from a
  pin left held may give no edge and lose nothing; such a pin counts as one more (`Held`).
  `OneAnswerPerCall` is this bound.
  `ConnectInv`: of these, those of earlier calls (`Old`) are at most `calls - step`
  in connect's step, because an OK that ends a step is either one of them or stands
  behind them all; and the only +CGPADDR lines that are not old are those of its own
  verification. So in step eight of a connection within eight calls none is old, and the
  line that is read, whose OK is still behind it, is its own. TLC found the three parts
  invariant, with three calls exhaustively and in random runs of twenty, before
  they were proved.

**Requests** (any arguments: indices of a byte, identifiers and ports of 16 bits, strings
of any length, lines of any numbers).

`AnswerInv` is all there is of an invariant: what a call has returned is its function of its
request. The rest are lemmas about these functions.

- `RequestsAreWhole`: `[]WholeOrRefused`. For each kind of call a lemma (`OpenWhole`,
  `ConnectWhole`, ...) adds up the lengths its formatter writes, with the facts that a
  number has up to five digits (`NumberType`), and that a string is as long as the checks
  before it let it be. What is computed by a recursive function, `NumbersLen` of a parameter's
  values, `FieldsLen` of a context's fields, `TopicsFormat` of topics, is related to
  a plain sum by giving the function, up to the four entries it may have, and comparing it with
  the defining equation: no induction is needed.
- `TopicsAreShared`: `[]TopicsAgree`, from `SubscribedTo`: a topic that passed its check and
  fitted has 1 to 127 bytes.
- `ContextsReadBack`: `[]ContextReadsBack`. `FieldsInPlaces`: a context whose fields are in
  order is written as the first n of seven fields in their places, where n is at
  least the place of each field given. `NumRead` and `TextRead` say what the parser makes
  of a place; the two meet field by field in `ContextOfFields`.
- `SignalsAreTold`: `[]SignalIsTold`. `DbmIsExact` is the conversion and its inverse
  case by case; `Int16IsCongruent` is the conversion of an int to 16
  bits; `MatchedIsMaximal`, that the numbers taken of a line are those up to the first that
  is none.

Model-checked only:

- `EveryCallReturns`: liveness is out of the prover's reach.

## 5. Not modelled

- The mock interface: it answers every read with the whole of one canned response, and
  nothing in the repository uses it. `bg95_uart_interface_init_mock` of the hardware
  interface's file only returns `ESP_FAIL`.
- The conversions of AT+QCSQ (the identity, or one division in float) and the TEST
  parsers, which nothing calls.
- `bg95_deinit`, CGATT and CREG (not built), enum names, logging, the contents of
  strings. Of two tasks, only their use of the handler is modelled: the driver's
  calls above it are made one after the other.

## 6. Plan

Done, in order of importance: the handler and its first theorems; the MQTT calls
over it; the configuration; power and network; the requests; the abstract call and
the refinement; the interface; contexts and signal; the theorems of section 4. To come:
two tasks above the driver; Bg95Mqtt and Bg95Network on one line, as an application
that loses the network in the middle of a publish has them.
