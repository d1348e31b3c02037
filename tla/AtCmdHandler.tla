----------------------------- MODULE AtCmdHandler -----------------------------
(***************************************************************************)
(* The AT command handler (src/src/at/core/at_cmd_handler.c) over the UART *)
(* (src/src/bg95/bg95_uart_interface.c), facing the BG95 modem.            *)
(*                                                                         *)
(* A task makes calls one after the other.  A call writes its command,     *)
(* possibly waits for the > prompt and writes a payload, then collects the *)
(* response in chunks until it is complete or the time is up.  The handler *)
(* has no lock and never empties the receive buffer before it writes, so   *)
(* what an earlier call left on the line is what the next one reads first. *)
(*                                                                         *)
(* The modem is external: it answers commands in order, as late as it      *)
(* likes or not at all, sends unsolicited lines, and takes what it is sent *)
(* after its prompt as payload.                                            *)
(***************************************************************************)
EXTENDS AtResponse, Uart

CONSTANTS
  Tasks,        \* the tasks that share the handler
  Cmds,         \* the command and type pairs the tasks issue
  RType,        \* response_type of each, as in its at_cmd_t
  Parser,       \* its parser, "none" if the caller wants no data
  Prompted,     \* those sent with at_cmd_handler_send_with_prompt
  Timeout,      \* timeout_ms in read intervals of 100 ms
  PromptTimeout,\* the 5000 ms of the prompt loop, in iterations
  BufCap,       \* AT_CMD_MAX_RESPONSE_LEN, in pieces
  ChunkMax,     \* pieces a read of AT_CMD_READ_CHUNK_SIZE can bring
  RxCap,        \* the UART driver's receive buffer, in pieces
  RejectCodes,  \* error codes of the calls refused before anything is written
  Echo,         \* the kinds of echo its commands get, {} if echoing is off
  UrcKinds,     \* the unsolicited pieces it may send
  MaxCalls,     \* bound: calls in a behaviour
  MaxUrcs       \* bound: unsolicited lines in a behaviour

Errors  == {"ESP_FAIL", "ESP_ERR_TIMEOUT", "ESP_ERR_NO_MEM", "ESP_ERR_INVALID_ARG",
            "ESP_ERR_INVALID_SIZE", "ESP_ERR_INVALID_STATE",
            "ESP_ERR_INVALID_RESPONSE", "ESP_ERR_NOT_SUPPORTED"}
Results == Errors \cup {"ESP_OK", "none"}

ASSUME HandlerAssumption ==
  /\ Cmds # {}
  /\ RType \in [Cmds -> ResponseTypes]
  /\ Parser \in [Cmds -> ParserKinds]
  /\ Prompted \subseteq Cmds
  /\ Timeout \in [Cmds -> Nat \ {0}]
  /\ PromptTimeout \in Nat \ {0}
  /\ BufCap \in Nat /\ ChunkMax \in Nat \ {0} /\ RxCap \in Nat
  /\ RejectCodes \subseteq Errors
  /\ Echo \subseteq Echoes
  /\ UrcKinds \subseteq Urcs
  /\ MaxCalls \in Nat /\ MaxUrcs \in Nat

VARIABLES
  pc,           \* where each task is: "idle", "prompt" or "read"
  cmd,          \* the command of its current or last call
  id,           \* the number of that call
  buf,          \* raw_response of that call (kept after the call for properties)
  left,         \* time left in the loop it is in
  result,       \* what its last call returned, "none" while it runs
  tx,           \* what was written and the modem has not yet looked at
  rx,           \* the UART receive buffer
  mode,         \* "command", or "data" while the modem collects a payload
  out,          \* the rest of the answer the modem is sending
  dcall,        \* the publish whose payload the modem collects
  nextId,       \* number of the next call
  urcs,         \* unsolicited lines sent so far
  quiet,        \* ghost: the call had the line to itself, with nothing left over
  debt          \* ghost: calls that returned before the modem was done with them

host  == <<pc, cmd, id, buf, left, result>>
modem == <<mode, out, dcall, urcs>>
vars  == <<pc, cmd, id, buf, left, result, tx, rx, mode, out, dcall,
           nextId, urcs, quiet, debt>>

CallIds == 1..MaxCalls
Piece   == [kind : Kinds, name : Cmds, id : CallIds \cup {0}]
Written == [cmd : Cmds, id : CallIds, part : {"cmd", "data"}]
NoCall  == 0

P(kind, c, i) == [kind |-> kind, name |-> c, id |-> i]

\* Pieces that cannot be taken for a reply to a later command.
Harmless == Urcs \cup {"tail", "cmetail"}
Clear(pieces)     == \A k \in DOMAIN pieces : pieces[k].kind \in Harmless
OnlyOf(i, pieces) == \A k \in DOMAIN pieces :
                       pieces[k].kind \in Harmless \/ pieces[k].id = i
Verdicts == {"ok", "error", "cme"}

TypeOK ==
  /\ pc \in [Tasks -> {"idle", "prompt", "read"}]
  /\ cmd \in [Tasks -> Cmds]
  /\ id \in [Tasks -> CallIds \cup {NoCall}]
  /\ buf \in [Tasks -> Seq(Piece)]
  /\ left \in [Tasks -> Nat]
  /\ result \in [Tasks -> Results]
  /\ tx \in Seq(Written)
  /\ rx \in Seq(Piece)
  /\ mode \in {"command", "data"}
  /\ out \in Seq(Piece)
  /\ dcall \in [cmd : Cmds, id : CallIds \cup {NoCall}]
  /\ nextId \in 1..(MaxCalls + 1)
  /\ urcs \in 0..MaxUrcs
  /\ quiet \in [Tasks -> BOOLEAN]
  /\ debt \subseteq CallIds

Init ==
  /\ pc = [t \in Tasks |-> "idle"]
  /\ cmd = [t \in Tasks |-> CHOOSE c \in Cmds : TRUE]
  /\ id = [t \in Tasks |-> NoCall]
  /\ buf = [t \in Tasks |-> <<>>]
  /\ left = [t \in Tasks |-> 0]
  /\ result = [t \in Tasks |-> "none"]
  /\ tx = <<>>
  /\ rx = <<>>
  /\ mode = "command"
  /\ out = <<>>
  /\ dcall = [cmd |-> CHOOSE c \in Cmds : TRUE, id |-> NoCall]
  /\ nextId = 1
  /\ urcs = 0
  /\ quiet = [t \in Tasks |-> FALSE]
  /\ debt = {}

-------------------------------------------------------------------------------
(* Writing to the UART.                                                        *)

\* The write w of item.
HwWrite(w, item) ==
  /\ tx' = IF w.sent THEN Append(tx, item) ELSE tx
  /\ rx' = IF w.flushed THEN <<>> ELSE rx

-------------------------------------------------------------------------------
(* The calls.                                                                  *)

\* Call i of t returns r; abandoned when the modem may still owe an answer.
Return(t, i, r, abandoned) ==
  /\ pc' = [pc EXCEPT ![t] = "idle"]
  /\ left' = [left EXCEPT ![t] = 0]
  /\ result' = [result EXCEPT ![t] = r]
  /\ debt' = IF abandoned THEN debt \cup {i} ELSE debt

Goto(t, loop, time) ==
  /\ pc' = [pc EXCEPT ![t] = loop]
  /\ left' = [left EXCEPT ![t] = time]
  /\ result' = [result EXCEPT ![t] = "none"]
  /\ debt' = debt

\* Nothing of an earlier call is on its way, and no other task is in a call.
LineIsQuiet(t) ==
  /\ \A u \in Tasks \ {t} : pc[u] = "idle"
  /\ Clear(rx) /\ Clear(out)
  /\ tx = <<>>
  /\ mode = "command"

\* The early returns before anything is written: bad arguments, a command type
\* that is not implemented, a missing UART function, a failed formatter.
RejectCall(t) ==
  /\ pc[t] = "idle"
  /\ \E r \in RejectCodes : result' = [result EXCEPT ![t] = r]
  /\ buf' = [buf EXCEPT ![t] = <<>>]
  /\ UNCHANGED <<pc, cmd, id, left, tx, rx, modem, nextId, quiet, debt>>

\* Write the command, then enter the prompt loop or allocate raw_response and
\* enter the read loop.
SendCommand(t, c) ==
  /\ pc[t] = "idle"
  /\ nextId \in CallIds
  /\ nextId' = nextId + 1
  /\ cmd' = [cmd EXCEPT ![t] = c]
  /\ id' = [id EXCEPT ![t] = nextId]
  /\ buf' = [buf EXCEPT ![t] = <<>>]
  /\ quiet' = [u \in Tasks |-> IF u = t THEN LineIsQuiet(t)
                                        ELSE quiet[u] /\ pc[u] = "idle"]
  /\ \E w \in HwWriteOutcomes :
       /\ HwWrite(w, [cmd |-> c, id |-> nextId, part |-> "cmd"])
       /\ \/ /\ w.err # "ESP_OK"
             /\ Return(t, nextId, w.err, w.sent)
          \/ /\ w.err = "ESP_OK"
             /\ IF c \in Prompted THEN Goto(t, "prompt", PromptTimeout)
                                  ELSE Goto(t, "read", Timeout[c])
          \/ /\ w.err = "ESP_OK"
             /\ c \notin Prompted
             /\ Return(t, nextId, "ESP_ERR_NO_MEM", TRUE)
  /\ UNCHANGED modem

\* Mutant of ReadChunk: the piece that does not fit the chunk is lost.
ReadChunkLosing(n) ==
  /\ n \in 1..ChunkMax /\ n <= Len(rx)
  /\ rx' = SubSeq(rx, n + (IF n = ChunkMax THEN 2 ELSE 1), Len(rx))

\* A read of the UART: the next n pieces, in at most one read interval.
ReadChunk(n) ==
  /\ n \in 1..ChunkMax /\ n <= Len(rx)
  /\ rx' = SubSeq(rx, n + 1, Len(rx))

\* The prompt loop: a chunk without > is dropped, whatever it says.
DropBeforePrompt(t) ==
  /\ pc[t] = "prompt" /\ left[t] > 0
  /\ \E n \in 1..ChunkMax :
       /\ ReadChunk(n)
       /\ \A k \in 1..n : rx[k].kind \notin {"prompt", "urcgt"}
  /\ left' = [left EXCEPT ![t] = @ - 1]
  /\ UNCHANGED <<pc, cmd, id, buf, result, tx, modem, nextId, quiet, debt>>

\* A chunk with a >, taken for the modem's prompt: write the payload, then
\* allocate raw_response and enter the read loop.
SendPayload(t) ==
  /\ pc[t] = "prompt" /\ left[t] > 0
  /\ \E n \in 1..ChunkMax, w \in HwWriteOutcomes :
       /\ n <= Len(rx)
       /\ \E k \in 1..n : rx[k].kind \in {"prompt", "urcgt"}
       /\ tx' = IF w.sent THEN Append(tx, [cmd |-> cmd[t], id |-> id[t], part |-> "data"])
                          ELSE tx
       /\ rx' = IF w.flushed THEN <<>> ELSE SubSeq(rx, n + 1, Len(rx))
       /\ \/ /\ w.err # "ESP_OK"
             /\ Return(t, id[t], w.err, TRUE)
          \/ /\ w.err = "ESP_OK"
             /\ Return(t, id[t], "ESP_ERR_NO_MEM", TRUE)
          \/ /\ w.err = "ESP_OK"
             /\ pc' = [pc EXCEPT ![t] = "read"]
             /\ left' = [left EXCEPT ![t] = Timeout[cmd[t]]]
             /\ result' = result
             /\ debt' = IF \E k \in 1..n : rx[k].kind = "prompt" /\ rx[k].id = id[t]
                        THEN debt ELSE debt \cup {id[t]}
  /\ UNCHANGED <<cmd, id, buf, modem, nextId, quiet>>

\* The read loop: a chunk too large for the buffer ends the call and is lost.
Overflow(t) ==
  /\ pc[t] = "read" /\ left[t] > 0
  /\ \E n \in 1..ChunkMax : /\ ReadChunk(n)
                            /\ Len(buf[t]) + n >= BufCap
  /\ Return(t, id[t], "ESP_ERR_INVALID_SIZE", TRUE)
  /\ UNCHANGED <<cmd, id, buf, tx, modem, nextId, quiet>>

\* The read loop: append the chunk, and if that completes the response judge
\* it.  A chunk read in full takes no time, a shorter one the whole interval.
Collect(t) ==
  /\ pc[t] = "read" /\ left[t] > 0
  /\ \E n \in 1..ChunkMax :
       /\ ReadChunk(n)
       /\ Len(buf[t]) + n < BufCap
       /\ buf' = [buf EXCEPT ![t] = @ \o SubSeq(rx, 1, n)]
  /\ LET c == cmd[t] IN
       IF HasCommandTerminated(buf'[t], c, RType[c])
       THEN Return(t, id[t], Verdict(buf'[t], c, RType[c], Parser[c]), FALSE)
       ELSE /\ \E time \in {0, 1} : left' = [left EXCEPT ![t] = @ - time]
            /\ UNCHANGED <<pc, result, debt>>
  /\ UNCHANGED <<cmd, id, tx, modem, nextId, quiet>>

\* Mutants of ReadNothing: a loop that does not test its time; one that does not
\* count it.
ReadNothingUntested(t) ==
  /\ pc[t] \in {"prompt", "read"}
  /\ left' = [left EXCEPT ![t] = @ - 1]
  /\ UNCHANGED <<pc, cmd, id, buf, result, tx, rx, modem, nextId, quiet, debt>>
ReadNothingUncounted(t) ==
  /\ pc[t] \in {"prompt", "read"} /\ left[t] > 0
  /\ UNCHANGED vars

\* Either loop: a read that brings nothing (or fails: its error is ignored).
ReadNothing(t) ==
  /\ pc[t] \in {"prompt", "read"} /\ left[t] > 0
  /\ left' = [left EXCEPT ![t] = @ - 1]
  /\ UNCHANGED <<pc, cmd, id, buf, result, tx, rx, modem, nextId, quiet, debt>>

\* Either loop: the time is up.
TimeOut(t) ==
  /\ pc[t] \in {"prompt", "read"} /\ left[t] = 0
  /\ Return(t, id[t], "ESP_ERR_TIMEOUT", TRUE)
  /\ UNCHANGED <<cmd, id, buf, tx, rx, modem, nextId, quiet>>

Progress(t) == \/ DropBeforePrompt(t) \/ SendPayload(t)
               \/ Overflow(t) \/ Collect(t)
               \/ ReadNothing(t) \/ TimeOut(t)

-------------------------------------------------------------------------------
(* The modem (external).                                                       *)

EchoesOf(c, i) == IF Echo = {} THEN {<<>>} ELSE {<<P(kind, c, i)>> : kind \in Echo}

Failures(c, i) == {<<>>, <<P("error", c, i)>>, <<P("cme", c, i), P("cmetail", c, i)>>}

\* Final answers: an error, OK alone (also with the data line lost, or to come
\* later as an unsolicited line), or OK and the data line in either order.
Answers(c, i) ==
  LET data == <<P("head", c, i), P("tail", c, i)>>
      ok   == <<P("ok", c, i)>>
  IN  Failures(c, i) \cup {ok}
        \cup (IF RType[c] = "SIMPLE_ONLY" THEN {} ELSE {data \o ok, ok \o data})

\* The modem takes up the next written item: a command it answers, the payload
\* it asked for, or, out of turn, a command swallowed as payload (which may or
\* may not complete it) or a payload read as a command.
ModemTakes ==
  /\ out = <<>> /\ tx # <<>>
  /\ LET w == Head(tx)
         asked == w.part = "data" /\ w.id = dcall.id
     IN \/ /\ mode = "command" /\ w.part = "cmd"
           /\ \E e \in EchoesOf(w.cmd, w.id),
                 a \in (IF w.cmd \in Prompted
                        THEN Failures(w.cmd, w.id) \cup {<<P("prompt", w.cmd, w.id)>>}
                        ELSE Answers(w.cmd, w.id)) :
                out' = e \o a
           /\ dcall' = IF w.cmd \in Prompted THEN [cmd |-> w.cmd, id |-> w.id] ELSE dcall
           /\ mode' = mode
        \/ /\ mode = "command" /\ w.part = "data"
           /\ \E a \in Failures(w.cmd, w.id) : out' = a
           /\ UNCHANGED <<mode, dcall>>
        \/ /\ mode = "data"
           /\ mode' = "command"
           /\ \E a \in Answers(dcall.cmd, dcall.id) : out' = a
           /\ dcall' = dcall
        \/ /\ mode = "data" /\ ~asked
           /\ UNCHANGED <<mode, out, dcall>>
  /\ tx' = Tail(tx)
  /\ UNCHANGED <<host, rx, urcs, nextId, quiet, debt>>

\* A piece reaches the receive buffer, or is lost because that is full.
Deliver(p) == rx' = IF Len(rx) < RxCap THEN Append(rx, p) ELSE rx

ModemSends ==
  /\ out # <<>>
  /\ Deliver(Head(out))
  /\ out' = Tail(out)
  /\ mode' = IF Head(out).kind = "prompt" THEN "data" ELSE mode
  /\ UNCHANGED <<host, tx, dcall, urcs, nextId, quiet, debt>>

\* An unsolicited line, at any time but in the middle of another line.
ModemSendsUrc ==
  /\ urcs < MaxUrcs
  /\ out # <<>> => Head(out).kind \notin {"tail", "cmetail"}
  /\ \E kind \in UrcKinds : Deliver(P(kind, CHOOSE c \in Cmds : TRUE, NoCall))
  /\ urcs' = urcs + 1
  /\ UNCHANGED <<host, tx, mode, out, dcall, nextId, quiet, debt>>

Modem == ModemTakes \/ ModemSends \/ ModemSendsUrc

-------------------------------------------------------------------------------
Next ==
  \/ \E t \in Tasks : \/ RejectCall(t)
                      \/ \E c \in Cmds : SendCommand(t, c)
                      \/ Progress(t)
  \/ Modem

\* A task in a call is scheduled again and again: uart_read_bytes and
\* vTaskDelay return.  The modem and the callers promise nothing.
Spec == Init /\ [][Next]_vars /\ \A t \in Tasks : WF_vars(Progress(t))

-------------------------------------------------------------------------------
(* Properties.                                                                 *)

Finished(t) == pc[t] = "idle" /\ id[t] # NoCall

\* The pieces of its own call a task's response holds.
OwnPiece(t, kind) ==
  \E k \in DOMAIN buf[t] : buf[t][k].kind = kind /\ buf[t][k].id = id[t]

\* The letters OK in its response that at_cmd_parse_response could have found.
OkSeen(t) == \/ OwnPiece(t, "ok") \/ OwnPiece(t, "okecho")
             \/ HasKind(buf[t], "urcok")

\* A call that had the line to itself, with nothing left over from an earlier
\* one, is answered by its own reply: what it collected answers this very call
\* (or is unsolicited), so success means the modem said OK to this command, or
\* that the letters stand in the echo of this command or in an unsolicited line.
QuietCallOwnReply ==
  \A t \in Tasks : quiet[t] =>
    /\ OnlyOf(id[t], buf[t])
    /\ result[t] = "ESP_OK" => OkSeen(t)

\* The strengthening of QuietCallOwnReply that every step preserves: while such
\* a call runs, whatever is still on the line can only answer that call.
LineIsOwn(t) ==
  /\ \A u \in Tasks \ {t} : pc[u] = "idle"
  /\ OnlyOf(id[t], rx) /\ OnlyOf(id[t], out)
  /\ \A k \in DOMAIN tx : tx[k].id = id[t]
  /\ mode = "data" => dcall.id = id[t]

QuietInv ==
  /\ \A k \in DOMAIN out : out[k].kind = "prompt" => out[k].id = dcall.id
  /\ \A t \in Tasks : quiet[t] =>
       /\ OnlyOf(id[t], buf[t])
       /\ result[t] = "ESP_OK" => OkSeen(t)
       /\ pc[t] # "idle" => LineIsOwn(t)

\* On a quiet line the verdict is exact, however the reply was cut into chunks
\* and whatever unsolicited lines came in between: a completed call succeeds if
\* and only if the modem's OK to it, and the data line it must have, were read
\* and no error; though at_cmd_parse_response prefers an OK to an ERROR.
QuietVerdictIsExact ==
  \A t \in Tasks : quiet[t] /\ Finished(t) =>
    (result[t] = "ESP_OK" <=>
       /\ OwnPiece(t, "ok") /\ ~OwnPiece(t, "error") /\ ~OwnPiece(t, "cme")
       /\ RType[cmd[t]] = "DATA_REQUIRED" => OwnPiece(t, "head") /\ HasOwnLine(buf[t], cmd[t]))

\* Only a call that gave up puts host and modem out of step: as long as no
\* call has timed out, overflowed or failed after its bytes went out, then when no
\* task is in a call all that was written is taken up, the modem is in command
\* mode, and no verdict is unread or still to be sent.  Pieces that are no verdict
\* (unsolicited lines, the tail of an answer) may be.
SyncUnlessAbandoned ==
  debt = {} /\ (\A t \in Tasks : pc[t] = "idle") =>
    /\ tx = <<>> /\ mode = "command"
    /\ \A k \in DOMAIN rx : rx[k].kind \notin Verdicts
    /\ \A k \in DOMAIN out : out[k].kind \notin Verdicts

\* As long as no call was abandoned, each success rests on the reply to its
\* own command ("Provides thread-safe command execution", README).
UnabandonedOwnReply ==
  debt = {} => \A t \in Tasks : Finished(t) /\ result[t] = "ESP_OK" =>
                 OwnPiece(t, "ok")

\* Every call returns, whatever the modem does or fails to do.
EveryCallReturns == \A t \in Tasks : pc[t] # "idle" ~> pc[t] = "idle"

\* "basic_response_is_ok: Was it OK vs ERROR/CME" (at_cmd_parser.h): a call whose
\* command the modem answered with an error does not succeed.
SuccessIsNotError ==
  \A t \in Tasks : quiet[t] /\ Finished(t) /\ result[t] = "ESP_OK" =>
    ~OwnPiece(t, "error") /\ ~OwnPiece(t, "cme")
================================================================================
