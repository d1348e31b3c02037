------------------------------- MODULE Bg95MqttCfg -------------------------------
(***************************************************************************)
(* Setting and querying the parameters of the modem's MQTT clients (the    *)
(* bg95_mqtt_config_* calls of bg95_driver.c) with AT+QMTCFG, through the  *)
(* AT handler.  An answer that comes after its call has given up is read   *)
(* by the next one, which takes it for its own whatever it tells of.       *)
(***************************************************************************)
EXTENDS AtPort, QmtcfgCommand

CONSTANTS
  Clients,      \* client indices the modem has
  Idxs,         \* client indices the application uses
  Types,        \* parameters it sets and queries
  Values,       \* for each, values it sets: sequences, in range or not
  Echo,         \* whether the modem echoes commands
  MaxCalls      \* bound: calls in a behaviour

ASSUME CfgAssumption ==
  /\ Clients \subseteq 0..ClientIdxMax /\ Idxs \subseteq 0..255
  /\ Types \subseteq CfgTypes
  /\ \A t \in Types : \A v \in Values[t] : v \in Seq(Int) /\ Len(v) = Len(Ranges[t])
  /\ Echo \in BOOLEAN /\ MaxCalls \in Nat

VARIABLES
  pc,           \* "idle", or "read": a call waits for its answer
  call,         \* the current or last call
  status,       \* what the last call returned
  response,     \* the caller's structure: the value of each field, -1 if not present
  tx, rx,       \* commands written, lines received
  cfg,          \* the modem's parameters
  nextId,
  debt          \* ghost: some call gave up

vars == <<pc, call, status, response, tx, rx, cfg, nextId, debt>>

NoCall     == [fn |-> "none", type |-> "none", idx |-> 0, values |-> <<>>, id |-> 0]
NoResponse == <<>>

\* What the modem starts with: the low end of each range.
Low(type) == [k \in DOMAIN Ranges[type] |-> CHOOSE v \in Ranges[type][k] :
                                              \A w \in Ranges[type][k] : v <= w]

Init ==
  /\ pc = "idle" /\ call = NoCall /\ status = "none" /\ response = NoResponse
  /\ tx = <<>> /\ rx = <<>>
  /\ cfg = [i \in Clients |-> [t \in Types |-> Low(t)]]
  /\ nextId = 1 /\ debt = FALSE

-------------------------------------------------------------------------------
(* The calls.                                                                  *)

\* What call c makes of the lines it read: an error, or a success with the
\* union it left in place.  A set passes no structure and nothing is parsed; a
\* query whose answer is OK alone succeeds with nothing present.
Judge(c, lines) ==
  LET own == OwnLines(lines, "QMTCFG")
  IN  IF ~BasicResponseIsOk(lines) THEN [err |-> "ESP_FAIL", response |-> response]
      ELSE IF c.fn = "set" THEN [err |-> "ESP_OK", response |-> response]
      ELSE [err |-> "ESP_OK",
            response |-> LoadAll(c.type, IF DOMAIN own = {} THEN Zeros
                                         ELSE Store(First(own).type, First(own).values))]

\* What a call writes: the values that are in the command.
Command(fn, type, i, written) ==
  [fn |-> fn, type |-> type, idx |-> i, values |-> written, id |-> nextId]

\* Call fn with these values, formatted to command, which carries written.
Begin(fn, type, i, values, written, command) ==
  /\ pc = "idle" /\ type \in Types /\ nextId <= MaxCalls
  /\ nextId' = nextId + 1
  /\ response' = NoResponse
  /\ call' = [fn |-> fn, type |-> type, idx |-> i, values |-> values, id |-> nextId]
  /\ \/ /\ command.err # "ESP_OK"
        /\ status' = command.err
        /\ UNCHANGED <<pc, tx, rx, debt>>
     \/ /\ command.err = "ESP_OK"
        /\ \E w \in HwWriteOutcomes :
             /\ tx' = IF w.sent THEN Append(tx, Command(fn, type, i, written)) ELSE tx
             /\ rx' = IF w.flushed THEN <<>> ELSE rx
             /\ pc' = IF w.err = "ESP_OK" THEN "read" ELSE "idle"
             /\ status' = IF w.err = "ESP_OK" THEN "none" ELSE w.err
             /\ debt' = (debt \/ (w.err # "ESP_OK" /\ w.sent))
  /\ UNCHANGED cfg

Set(type) == \E i \in Idxs : type \in Types /\ \E v \in Values[type] :
  Begin("set", type, i, v, WrittenValues(type, v),
        SetConfig([type |-> type, idx |-> i, values |-> v, topic |-> 20, message |-> 20]))
Query(type) == \E i \in Idxs :
  Begin("query", type, i, <<>>, <<>>, QueryConfig([type |-> type, idx |-> i]))

SetPdpContext   == Set("pdpcid")
SetSsl          == Set("ssl")
SetKeepalive    == Set("keepalive")
SetSession      == Set("session")
SetTimeout      == Set("timeout")
SetWill         == Set("will")
SetRecvMode     == Set("recv_mode")
QueryPdpContext == Query("pdpcid")
QuerySsl        == Query("ssl")
QueryKeepalive  == Query("keepalive")
QuerySession    == Query("session")
QueryTimeout    == Query("timeout")
QueryWill       == Query("will")
QueryRecvMode   == Query("recv_mode")

\* The call completes: OK is enough.
Finish ==
  /\ pc = "read"
  /\ \E n \in Reads(rx, "QMTCFG", "DATA_OPTIONAL") :
       LET j == Judge(call, SubSeq(rx, 1, n))
       IN  /\ pc' = "idle" /\ status' = j.err /\ response' = j.response
           /\ rx' = Rest(rx, n)
  /\ UNCHANGED <<call, tx, cfg, nextId, debt>>

\* Its time is up, its response is too long, or there is no memory to read one.
GiveUp ==
  /\ pc = "read"
  /\ \/ /\ \E n \in ReadsInVain(rx, "QMTCFG", "DATA_OPTIONAL") : rx' = Rest(rx, n)
        /\ status' = "ESP_ERR_TIMEOUT"
     \/ /\ \E n \in Overflows(rx, "QMTCFG", "DATA_OPTIONAL") : rx' = Rest(rx, n)
        /\ status' = "ESP_ERR_INVALID_SIZE"
     \/ rx' = rx /\ status' = "ESP_ERR_NO_MEM"
  /\ pc' = "idle" /\ debt' = TRUE
  /\ UNCHANGED <<call, response, tx, cfg, nextId>>

-------------------------------------------------------------------------------
(* The modem (external).                                                       *)

Line(kind, c, values) ==
  [kind |-> kind, name |-> "QMTCFG", type |-> c.type, values |-> values, id |-> c.id]

Answer(c, lines) == (IF Echo THEN <<Line("echo", c, <<>>)>> ELSE <<>>) \o lines

\* What it tells of a parameter: of a will that is not required, the flag.
Told(type, values) == IF type = "will" /\ values[1] = 0 THEN <<0>> ELSE values

\* It takes up the next command: does it, refuses it, or loses the answer.
ModemTakes ==
  /\ tx # <<>>
  /\ tx' = Tail(tx)
  /\ LET c  == Head(tx)
         ok == <<Line("ok", c, <<>>)>>
     IN \/ /\ c.fn = "set" /\ c.idx \in Clients
           /\ cfg' = [cfg EXCEPT ![c.idx][c.type] =
                        [k \in DOMAIN @ |-> IF k \in DOMAIN c.values THEN c.values[k] ELSE @[k]]]
           /\ rx' = rx \o Answer(c, ok)
        \/ /\ c.fn = "query" /\ c.idx \in Clients
           /\ rx' = rx \o Answer(c, <<Line("line", c, Told(c.type, cfg[c.idx][c.type]))>>
                                    \o ok)
           /\ UNCHANGED cfg
        \/ /\ rx' \in {rx, rx \o Answer(c, <<Line("error", c, <<>>)>>)}
           /\ UNCHANGED cfg
  /\ UNCHANGED <<pc, call, status, response, nextId, debt>>

-------------------------------------------------------------------------------
Next == \/ SetPdpContext \/ SetSsl \/ SetKeepalive \/ SetSession
        \/ SetTimeout \/ SetWill \/ SetRecvMode
        \/ QueryPdpContext \/ QuerySsl \/ QueryKeepalive \/ QuerySession
        \/ QueryTimeout \/ QueryWill \/ QueryRecvMode
        \/ Finish \/ GiveUp \/ ModemTakes

Spec == Init /\ [][Next]_vars

-------------------------------------------------------------------------------
(* Properties.                                                                 *)

Succeeded(fn) == pc = "idle" /\ call.fn = fn /\ status = "ESP_OK"

\* Until a call gives up, a set that succeeds has taken effect in full: each
\* value the caller gave is now the modem's (of a will not required, the flag).
SetTakesEffect ==
  ~debt /\ Succeeded("set") =>
    \A k \in DOMAIN call.values :
      (call.type = "will" /\ call.values[1] = 0 => k = 1) =>
        cfg[call.idx][call.type][k] = call.values[k]

\* Until a call gives up, a query that succeeds returns the modem's values of
\* that client and parameter, all of them, and marks as present no other; though
\* the answer does not name the client, nor is its parameter compared.
QueryIsCurrent ==
  ~debt /\ Succeeded("query") =>
    LET now == cfg[call.idx][call.type]
    IN  response = [k \in DOMAIN now |->
          IF k > 1 /\ call.type = "will" /\ now[1] = 0 THEN -1 ELSE now[k]]

Legal(type, values) == \A k \in DOMAIN values : values[k] \in Ranges[type][k]

\* The types; what is written to the modem is in range.
TypeOK ==
  /\ pc \in {"idle", "read"}
  /\ call.fn \in {"none", "set", "query"}
  /\ \A i \in Clients, t \in Types : Legal(t, cfg[i][t])
  /\ \A k \in DOMAIN rx : rx[k].kind \in Kinds
  /\ \A k \in DOMAIN tx : tx[k].idx \in 0..ClientIdxMax /\ Legal(tx[k].type, tx[k].values)
  /\ response # NoResponse => DOMAIN response = DOMAIN Fields[call.type]
================================================================================
