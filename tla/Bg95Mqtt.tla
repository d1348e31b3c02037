------------------------------- MODULE Bg95Mqtt -------------------------------
(***************************************************************************)
(* The MQTT calls of the driver (src/src/bg95/bg95_driver.c) through the   *)
(* AT handler to the modem's MQTT clients.                                 *)
(*                                                                         *)
(* Each call formats its command, sends it (a publish waits for the prompt *)
(* and sends the message), and judges the first result line of that name   *)
(* it read.  The modem says OK when it accepts an operation and reports    *)
(* the result in a line of its own when the operation is over; a packet it *)
(* has to send again is reported too, and the operation goes on.           *)
(***************************************************************************)
EXTENDS AtPort, MqttResponses

CONSTANTS
  Clients,      \* client indices the modem has
  Links,        \* the states its clients start in, all alike
  Idxs,         \* client indices the application uses
  Msgids,       \* message ids it uses
  Qoss,         \* QoS values it uses
  Hosts,        \* lengths of the host names it uses
  Fns,          \* the calls it makes
  Echo,         \* whether the modem echoes commands
  Reuse,        \* whether a query is given the structure of the one before it
  Lossy,        \* whether packets have to be sent again
  UrcKinds,     \* unsolicited lines the modem sends
  MaxCalls,     \* bound: calls in a behaviour
  MaxUrcs       \* bound: connections lost, or other unsolicited lines

Writes  == {"open", "close", "connect", "disconnect", "publish", "subscribe", "unsubscribe"}
Queries == {"open_status", "connection_state"}
LinkStates == {"closed", "open", "connected"}
Packets == {"connect", "publish", "subscribe", "unsubscribe"}

ASSUME MqttAssumption ==
  /\ Links \subseteq LinkStates
  /\ Clients \subseteq 0..ClientIdxMax /\ Idxs \subseteq 0..255
  /\ Msgids \subseteq 0..MsgidMax /\ Qoss \subseteq 0..255 /\ Hosts \subseteq Nat
  /\ Fns \subseteq Writes \cup Queries
  /\ Echo \in BOOLEAN /\ Reuse \in BOOLEAN /\ Lossy \in BOOLEAN
  /\ UrcKinds \subseteq Urcs
  /\ MaxCalls \in Nat /\ MaxUrcs \in Nat

VARIABLES
  pc,           \* "idle", or the loop the current call is in: "prompt", "read"
  call,         \* the current or last call
  status,       \* what the last call returned
  response,     \* the caller's response structure
  tx, rx,       \* commands and payloads written, lines received
  link,         \* the modem's clients: "closed", "open" or "connected"
  jobs,         \* operations accepted whose result is still to come
  mode,         \* "command", or "data" while it collects a payload
  dcall,        \* the publish whose payload that is
  nextId, urcs,
  acked,        \* ghost: calls the modem completed with success
  published,    \* ghost: which call's payload was published for which call
  debt,         \* ghost: calls that gave up
  ahead,        \* ghost: calls that went on too early: sent their message on a > that was
                \* no prompt, or returned on the news of a retransmission
  usedMsgids    \* ghost: message ids written so far

modem == <<link, jobs, mode, dcall, urcs, acked, published>>
vars  == <<pc, call, status, response, tx, rx, link, jobs, mode, dcall,
           nextId, urcs, acked, published, debt, ahead, usedMsgids>>

CallIds == 1..MaxCalls
Calls   == [fn : Writes \cup Queries, idx : Idxs, msgid : Msgids \cup {0, 1},
            id : CallIds, fresh : BOOLEAN]

\* The command of a call, its response type and its line.
Name(fn) == CASE fn \in {"open", "open_status"}         -> "QMTOPEN"
              [] fn = "close"                           -> "QMTCLOSE"
              [] fn \in {"connect", "connection_state"} -> "QMTCONN"
              [] fn = "disconnect"                      -> "QMTDISC"
              [] fn = "publish"                         -> "QMTPUB"
              [] fn = "subscribe"                       -> "QMTSUB"
              [] fn = "unsubscribe"                     -> "QMTUNS"
RType(fn) == IF fn \in Queries THEN "DATA_OPTIONAL" ELSE "DATA_REQUIRED"

\* A line of the modem, with the numbers it begins with.
Line(kind, c, nums) == [kind |-> kind, name |-> Name(c.fn), nums |-> nums, id |-> c.id]
Basic(kind, c) == Line(kind, c, <<>>)

Init ==
  /\ pc = "idle" /\ call = [fn |-> "none"] /\ status = "none" /\ response = NoResponse
  /\ tx = <<>> /\ rx = <<>>
  /\ link \in {[c \in Clients |-> l] : l \in Links}
  /\ jobs = {} /\ mode = "command" /\ dcall = [fn |-> "none"]
  /\ nextId = 1 /\ urcs = 0
  /\ acked = {} /\ published = {} /\ debt = {} /\ ahead = {} /\ usedMsgids = {}

\* What call c returns once it has read these lines, given the structure to
\* fill in.  A query whose answer holds no + line at all does not touch it.
Judge(c, lines, given) ==
  LET own    == OwnLines(lines, Name(c.fn))
      parsed == IF ~HasDataResponse(lines)
                THEN [err |-> IF RType(c.fn) = "DATA_REQUIRED" THEN "ESP_ERR_INVALID_RESPONSE"
                                                               ELSE "ESP_OK",
                      response |-> given]
                ELSE ParserOf(c.fn, own)
  IN  IF ~BasicResponseIsOk(lines) THEN [err |-> "ESP_FAIL", response |-> given]
      ELSE IF parsed.err # "ESP_OK" THEN parsed
      ELSE [parsed EXCEPT !.err = IF c.fn \in Queries THEN StatusErr(c.idx, parsed.response)
                                                     ELSE ResultErr(parsed.response)]

-------------------------------------------------------------------------------
(* The calls.                                                                  *)

Return(err, resp, gaveUp) ==
  /\ pc' = "idle" /\ status' = err /\ response' = resp
  /\ debt' = IF gaveUp THEN debt \cup {call.id} ELSE debt

\* A call whose arguments are refused before anything is written.
Refuse(err) ==
  /\ err # "ESP_OK"
  /\ status' = err
  /\ call' = [fn |-> "none"]
  /\ response' = NoResponse
  /\ UNCHANGED <<pc, tx, rx, modem, nextId, debt, ahead, usedMsgids>>

\* Mutant of FirstLoop: a publish is sent like the other commands.
FirstLoopAlways(fn) == "read"

\* A publish waits for the prompt first.
FirstLoop(fn) == IF fn = "publish" THEN "prompt" ELSE "read"

\* Call fn for client idx, its arguments checked and formatted to cmd.
Begin(fn, idx, msgid, cmd) ==
  /\ pc = "idle" /\ fn \in Fns /\ nextId \in CallIds
  /\ \/ Refuse(cmd.err)
     \/ /\ cmd.err = "ESP_OK"
        /\ nextId' = nextId + 1
        /\ LET c == [fn |-> fn, idx |-> idx, msgid |-> msgid, id |-> nextId,
                     fresh |-> msgid # 0 /\ msgid \notin usedMsgids]
           IN  /\ call' = c
               /\ \E w \in HwWriteOutcomes :
                    /\ tx' = IF w.sent THEN Append(tx, [part |-> "cmd", call |-> c]) ELSE tx
                    /\ rx' = IF w.flushed THEN <<>> ELSE rx
                    /\ pc' = IF w.err = "ESP_OK" THEN FirstLoop(fn) ELSE "idle"
                    /\ status' = IF w.err # "ESP_OK" THEN w.err ELSE "none"
                    /\ debt' = IF w.err # "ESP_OK" THEN debt \cup {nextId} ELSE debt
        /\ usedMsgids' = usedMsgids \cup {msgid}
        /\ response' = IF Reuse /\ fn \in Queries /\ fn = call.fn THEN response ELSE NoResponse
        /\ UNCHANGED <<modem, ahead>>

\* The arguments that are of no interest here are valid ones.
MqttOpenNetwork == \E i \in Idxs, h \in Hosts :
  Begin("open", i, 0, OpenNetwork([idx |-> i, host |-> h, port |-> 1883]))
MqttCloseNetwork == \E i \in Idxs :
  Begin("close", i, 0, CloseNetwork([idx |-> i]))
MqttConnect == \E i \in Idxs :
  Begin("connect", i, 0, Connect([idx |-> i, clientId |-> 10, username |-> NoString,
                                  password |-> NoString]))
MqttDisconnect == \E i \in Idxs :
  Begin("disconnect", i, 0, Disconnect([idx |-> i]))
MqttPublish == \E i \in Idxs, m \in Msgids, q \in Qoss :
  LET a == [idx |-> i, msgid |-> m, qos |-> q, retain |-> 0, topic |-> 20, msglen |-> 100]
  IN  Begin("publish", i, PublishMsgid(a), Publish(a))
MqttSubscribe == \E i \in Idxs, m \in Msgids, q \in Qoss :
  Begin("subscribe", i, m, Subscribe([idx |-> i, msgid |-> m, qos |-> q, topic |-> 20]))
MqttUnsubscribe == \E i \in Idxs, m \in Msgids :
  Begin("unsubscribe", i, m, Unsubscribe([idx |-> i, msgid |-> m, topic |-> 20]))

\* Mutant of QueryFormat: the index is checked off by one.
QueryFormatOffByOne(i) == IF i > ClientIdxMax + 1 THEN Invalid ELSE [err |-> "ESP_OK", len |-> 13]

\* The two queries have no parameters to format; the index is checked.
QueryFormat(i) == IF i > ClientIdxMax THEN Invalid ELSE [err |-> "ESP_OK", len |-> 13]
NetworkOpenStatus    == \E i \in Idxs : Begin("open_status", i, 0, QueryFormat(i))
QueryConnectionState == \E i \in Idxs : Begin("connection_state", i, 0, QueryFormat(i))

HasPrompt(l) == l.kind \in {"prompt", "urcgt"}

\* The prompt loop drops what it reads up to a chunk with a >, then writes the
\* message.
SendMessage ==
  /\ pc = "prompt"
  /\ \E k \in DOMAIN rx :
       /\ HasPrompt(rx[k]) /\ \A j \in 1..(k - 1) : ~HasPrompt(rx[j])
       /\ \E n \in k..Len(rx), w \in HwWriteOutcomes :
            /\ n < k + ChunkLines
            /\ ahead' = IF rx[k].kind = "prompt" THEN ahead ELSE ahead \cup {call.id}
            /\ rx' = IF w.flushed THEN <<>> ELSE Rest(rx, n)
            /\ tx' = IF w.sent THEN Append(tx, [part |-> "data", call |-> call]) ELSE tx
            /\ IF w.err = "ESP_OK" THEN pc' = "read" /\ UNCHANGED <<status, response, debt>>
                                   ELSE Return(w.err, response, TRUE)
  /\ UNCHANGED <<call, modem, nextId, usedMsgids>>

\* The call completes.
Finish ==
  /\ pc = "read"
  /\ \E n \in Reads(rx, Name(call.fn), RType(call.fn)) :
       LET j == Judge(call, SubSeq(rx, 1, n), response)
       IN  /\ Return(j.err, j.response, FALSE)
           /\ ahead' = IF call.fn \in Packets /\ j.response.value = Retransmission
                       THEN ahead \cup {call.id} ELSE ahead
           /\ rx' = Rest(rx, n)
  /\ UNCHANGED <<call, tx, modem, nextId, usedMsgids>>

\* Its time is up, in either loop, its response is too long, or there is no
\* memory to read one.
GiveUp ==
  /\ \/ /\ pc = "read"
        /\ \E n \in ReadsInVain(rx, Name(call.fn), RType(call.fn)) : rx' = Rest(rx, n)
        /\ Return("ESP_ERR_TIMEOUT", response, TRUE)
     \/ /\ pc = "read"
        /\ \E n \in Overflows(rx, Name(call.fn), RType(call.fn)) : rx' = Rest(rx, n)
        /\ Return("ESP_ERR_INVALID_SIZE", response, TRUE)
     \/ /\ pc = "read"
        /\ Return("ESP_ERR_NO_MEM", response, TRUE)
        /\ rx' = rx
     \/ /\ pc = "prompt"
        /\ \E n \in 0..Len(rx) : /\ \A j \in 1..n : ~HasPrompt(rx[j])
                                 /\ rx' = Rest(rx, n)
        /\ Return("ESP_ERR_TIMEOUT", response, TRUE)
  /\ UNCHANGED <<call, tx, modem, nextId, ahead, usedMsgids>>

-------------------------------------------------------------------------------
(* The modem (external).                                                       *)

Needs(fn) == CASE fn = "open"    -> {"closed"}
               [] fn = "close"   -> {"open", "connected"}
               [] fn = "connect" -> {"open"}
               [] OTHER          -> {"connected"}

After(c) == CASE c.fn = "open"    -> "open"
              [] c.fn = "close"   -> "closed"
              [] c.fn = "connect" -> "connected"
              [] c.fn = "disconnect" -> "open"
              [] OTHER            -> link[c.idx]

Possible(c) == c.idx \in Clients /\ link[c.idx] \in Needs(c.fn)

\* What it tells of a client: of the network connection the index, the host and
\* the port; of the connection to the server the index and the state.
StateNums(c, i) ==
  IF c.fn = "open_status" THEN <<i>> ELSE <<i, IF link[i] = "connected" THEN 3 ELSE 1>>

\* The clients a query tells about, in order: those with a network connection.
StateLines(c) ==
  LET told == {i \in Clients : link[i] # "closed"}
      nth(k) == CHOOSE i \in told : Cardinality({j \in told : j < i}) = k - 1
  IN  [k \in 1..Cardinality(told) |-> Line("line", c, StateNums(c, nth(k)))]

\* The result it reports: of a packet with the message id.
Failed(c)  == IF c.fn \in {"open", "close"} THEN -1 ELSE 2
ResultLine(c, result) ==
  Line("line", c, IF c.fn \in {"publish", "subscribe", "unsubscribe"}
                  THEN <<c.idx, c.msgid, result>> ELSE <<c.idx, result>>)

\* What it answers a command: its echo first.
Answer(c, lines) == (IF Echo THEN <<Basic("echo", c)>> ELSE <<>>) \o lines

\* It takes up the next item written to it.
ModemTakes ==
  /\ tx # <<>>
  /\ tx' = Tail(tx)
  /\ LET w == Head(tx)
         c == w.call
     IN \/ /\ mode = "command" /\ w.part = "cmd" /\ c.fn \in Queries
           /\ rx' = rx \o Answer(c, StateLines(c) \o <<Basic("ok", c)>>)
           /\ UNCHANGED <<jobs, mode, dcall>>
        \/ /\ mode = "command" /\ w.part = "cmd" /\ c.fn = "publish" /\ Possible(c)
           /\ rx' = rx \o Answer(c, <<Basic("prompt", c)>>)
           /\ mode' = "data" /\ dcall' = c
           /\ UNCHANGED jobs
        \/ /\ mode = "command" /\ w.part = "cmd" /\ c.fn \in Writes \ {"publish"} /\ Possible(c)
           /\ rx' = rx \o Answer(c, <<Basic("ok", c)>>)
           /\ jobs' = jobs \cup {[call |-> c, again |-> FALSE]}
           /\ UNCHANGED <<mode, dcall>>
        \* refused, not understood, or the answer is lost
        \/ /\ mode = "command"
           /\ rx' \in {rx, rx \o Answer(c, <<Basic("error", c)>>)}
           /\ UNCHANGED <<jobs, mode, dcall>>
        \* the payload of the publish it prompted for, or what it takes for it
        \/ /\ mode = "data"
           /\ rx' = Append(rx, Basic("ok", dcall))
           /\ jobs' = jobs \cup {[call |-> dcall, again |-> FALSE]}
           /\ mode' = "command" /\ UNCHANGED dcall
        \* a command shorter than the payload it still waits for
        \/ /\ mode = "data" /\ w.part = "cmd"
           /\ UNCHANGED <<rx, jobs, mode, dcall>>
  /\ published' = IF mode = "data" /\ mode' = "command"
                  THEN published \cup {[of |-> dcall.id, payload |-> Head(tx).call.id]}
                  ELSE published
  /\ UNCHANGED <<pc, call, status, response, link, nextId, urcs, acked, debt, ahead, usedMsgids>>

\* An operation is over: done and reported, or failed and reported.
JobEnds ==
  \E j \in jobs :
    LET c == j.call
    IN /\ jobs' = jobs \ {j}
       /\ \/ /\ link[c.idx] \in Needs(c.fn)
             /\ link' = [link EXCEPT ![c.idx] = After(c)]
             /\ acked' = acked \cup {c.id}
             /\ rx' = Append(rx, ResultLine(c, Success))
          \/ /\ rx' = Append(rx, ResultLine(c, Failed(c)))
             /\ UNCHANGED <<link, acked>>
       /\ UNCHANGED <<pc, call, status, response, tx, mode, dcall, nextId, urcs,
                      published, debt, ahead, usedMsgids>>

\* A packet is sent again, which is reported, and the operation goes on.
JobRetransmits ==
  /\ Lossy
  /\ \E j \in jobs :
       /\ j.call.fn \in Packets /\ ~j.again
       /\ jobs' = (jobs \ {j}) \cup {[j EXCEPT !.again = TRUE]}
       /\ rx' = Append(rx, ResultLine(j.call, Retransmission))
       /\ UNCHANGED <<pc, call, status, response, tx, link, mode, dcall, nextId, urcs,
                      acked, published, debt, ahead, usedMsgids>>

\* A connection is lost (+QMTSTAT), or a message or other news arrives.
Unsolicited ==
  /\ urcs < MaxUrcs /\ urcs' = urcs + 1
  /\ \E i \in Clients, kind \in UrcKinds :
       /\ link' \in {link, [link EXCEPT ![i] = "closed"]}
       /\ rx' = Append(rx, [kind |-> kind, name |-> "QMTSTAT", nums |-> <<i, 1>>, id |-> 0])
  /\ UNCHANGED <<pc, call, status, response, tx, jobs, mode, dcall, nextId,
                 acked, published, debt, ahead, usedMsgids>>

-------------------------------------------------------------------------------
Next == \/ MqttOpenNetwork \/ MqttCloseNetwork \/ MqttConnect \/ MqttDisconnect
        \/ MqttPublish \/ MqttSubscribe \/ MqttUnsubscribe
        \/ NetworkOpenStatus \/ QueryConnectionState
        \/ SendMessage \/ Finish \/ GiveUp
        \/ ModemTakes \/ JobEnds \/ JobRetransmits \/ Unsolicited

Spec == Init /\ [][Next]_vars

-------------------------------------------------------------------------------
(* Properties.                                                                 *)

Returned(fns) == pc = "idle" /\ call.fn \in fns

\* The types, and that only indices the modem can have are written to it.
TypeOK ==
  /\ pc \in {"idle", "prompt", "read"}
  /\ call \in Calls \cup {[fn |-> "none"]}
  /\ link \in [Clients -> LinkStates]
  /\ mode \in {"command", "data"}
  /\ \A j \in jobs : j.call \in Calls
  /\ \A k \in DOMAIN rx : rx[k].kind \in Kinds
  /\ \A k \in DOMAIN tx : tx[k].call.idx \in 0..ClientIdxMax
  /\ acked \subseteq CallIds /\ debt \subseteq CallIds

\* No call has given up, or gone on before the modem was there.
InStep == debt = {} /\ ahead = {}

\* Until a call gives up, takes another > for its prompt or returns on the news of
\* a retransmission, an MQTT call succeeds if and only if the modem completed that
\* very operation.
ResultsExact ==
  InStep /\ Returned(Writes) => (status = "ESP_OK" <=> call.id \in acked)

\* Until then the result a call hands to its caller is the one of this very call,
\* its client and its message id, though neither is compared.
ReplyIsOwn ==
  InStep /\ Returned(Writes) /\ response # NoResponse => response.id = call.id

\* The modem publishes the message given to that call, or else the caller was
\* told that its call timed out or failed: a late prompt can pair a topic with
\* another call's bytes, never so that a verdict of the modem hides it.
SwappedIsAbandoned ==
  \A p \in published : p.of # p.payload => p.of \in debt

\* Even after calls were abandoned, a caller that gives each call a message id
\* of its own and finds it, with its client index, in the response can trust a
\* success: message ids, which the driver may force, still tell calls apart.
CheckedReplyIsOwn ==
  /\ Returned({"publish", "subscribe", "unsubscribe"})
  /\ call.fresh /\ status = "ESP_OK" /\ response.value = Success
  /\ response.idx = call.idx /\ response.msgid = call.msgid
  => call.id \in acked

\* "QMTPUB_RESULT_SUCCESS: Packet sent successfully and ACK received"
\* (at_cmd_qmtpub.h): if no call gave up, a publish that returns ESP_OK was
\* acknowledged.
PublishedIsAcked ==
  debt = {} /\ Returned({"publish"}) /\ status = "ESP_OK" => call.id \in acked

\* "If no status returned but command succeeded, this means no client is
\* connected" (bg95_mqtt_query_connection_state): the state a query returns with
\* ESP_OK is one the modem told it, even if it was given the structure of an
\* earlier query, which the call does not clear.
StateIsTold ==
  InStep /\ Returned(Queries) /\ status = "ESP_OK" => response.id = call.id

\* Only the first of the lines a query is answered with is read: as long as
\* calls and modem are in step, a client is reported not found only if it has no
\* network connection or a client before it has one.
NotFoundIsShadowed ==
  InStep /\ urcs = 0 /\ Returned(Queries) /\ status = "ESP_ERR_NOT_FOUND"
    /\ call.idx \in Clients /\ link[call.idx] # "closed"
  => \E j \in Clients : j < call.idx /\ link[j] # "closed"
================================================================================
