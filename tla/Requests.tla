-------------------------------- MODULE Requests --------------------------------
(***************************************************************************)
(* The driver's calls as functions of their data, for arguments at and     *)
(* around the limits: which requests are refused and what exactly the      *)
(* others write to the modem; what a context definition is when it is read *)
(* back; what is reported of the numbers of a signal quality.              *)
(***************************************************************************)
EXTENDS QmtcfgCommand, PdpContext, Signal

CONSTANTS
  Idxs,         \* client indices tried (uint8_t)
  Msgids,       \* message identifiers (uint16_t)
  Qoss,         \* QoS values, a wrong one among them
  Topics,       \* lengths of a topic
  Hosts, Ports, \* lengths of a host name, port numbers
  Ids, Creds,   \* lengths of a client id, of a user name or password
  MsgLens,      \* message lengths (uint16_t)
  Values,       \* for each parameter of a client, the values tried
  WillLens,     \* lengths of a will's topic and message
  Cids, Apns,   \* context ids (uint8_t), lengths of an APN or an address
  Options,      \* values of a context's compression and allocation
  Rssis, Bers,  \* numbers of a +CSQ line
  Strengths     \* numbers of a +QCSQ line (int)

ShortMax == 65535     \* UINT16_MAX

ASSUME RequestAssumption ==
  /\ Idxs \subseteq 0..255 /\ Msgids \subseteq 0..ShortMax /\ Qoss \subseteq 0..255
  /\ Topics \subseteq Nat /\ Hosts \subseteq Nat /\ Ports \subseteq 0..ShortMax
  /\ Ids \subseteq Nat /\ Creds \subseteq Nat /\ MsgLens \subseteq 0..ShortMax
  /\ \A t \in CfgTypes : Values[t] \subseteq [DOMAIN Ranges[t] -> Nat]
  /\ WillLens \subseteq Nat
  /\ Cids \subseteq 0..255 /\ Apns \subseteq Nat /\ Options \subseteq Nat
  /\ Rssis \cup Bers \subseteq Nat /\ Strengths \subseteq Int

\* The numbers of a +QCSQ line, up to four, or none in their places.
Levels == UNION {[1..n -> Strengths \cup {NotANumber}] : n \in 0..4}

Opens    == [fn : {"open"}, idx : Idxs, host : Hosts, port : Ports]
Closes   == [fn : {"close", "disconnect"}, idx : Idxs]
Connects == [fn : {"connect"}, idx : Idxs, clientId : Ids, username : Creds \cup {NoString},
             password : Creds \cup {NoString}]
Publishes == [fn : {"publish"}, idx : Idxs, msgid : Msgids, qos : Qoss, retain : {0, 1, 2},
              topic : Topics, msglen : MsgLens]
Subscribes   == [fn : {"subscribe"}, idx : Idxs, msgid : Msgids, qos : Qoss, topic : Topics]
Unsubscribes == [fn : {"unsubscribe"}, idx : Idxs, msgid : Msgids, topic : Topics]
SetsOf(type) == [fn : {"set"}, type : {type}, idx : Idxs, values : Values[type],
                 topic : WillLens, message : WillLens]
Sets     == UNION {SetsOf(t) : t \in CfgTypes}
Queries  == [fn : {"query"}, type : CfgTypes, idx : Idxs]
Defines  == [fn : {"define"}, cid : Cids, type : PdpTypes \cup {UnknownType}, apn : Apns]
Contexts ==
  [fn : {"context"}, cid : Cids, type : {NotGiven, 0, 3, UnknownType},
   apn : (Apns \cap 0..StringMax) \cup {NotGiven},
   addr : (Apns \cap 0..StringMax) \cup {NotGiven},
   data : Options \cup {NotGiven}, head : Options \cup {NotGiven}, ipv4 : {NotGiven, 0, 1}]
SignalLines ==
  [fn : {"signal"},
   fields : {<<>>} \cup {<<r>> : r \in Rssis}
              \cup (Rssis \cup {-1, NotANumber}) \X (Bers \cup {-1, NotANumber})]
QualityLines == [fn : {"quality"}, mode : SysModes \cup {"WCDMA"}, fields : Levels]

Requests == Opens \cup Closes \cup Connects \cup Publishes \cup Subscribes \cup Unsubscribes
              \cup Sets \cup Queries
              \cup Defines \cup Contexts \cup SignalLines \cup QualityLines

VARIABLES
  request,      \* the call the application makes
  outcome       \* what became of it: an error, the length of the command
                \* written, what was reported

Pending == [err |-> "pending"]

\* AT+CGDCONT= with these parameters, then AT+CGDCONT?, which lists the
\* context as it was defined.
ContextReadBack(p) ==
  LET written == FormatWrite(CmdLen.CGDCONT, CgdcontFormat(p))
  IN  [err |-> written.err, len |-> written.len,
       got |-> CgdcontReadParser(<<ContextFields(p)>>)]

Init == request \in Requests /\ outcome = Pending

Call(fn, result) ==
  /\ outcome = Pending
  /\ request.fn = fn
  /\ outcome' = result
  /\ UNCHANGED request

Next == \/ Call("open", OpenNetwork(request)) \/ Call("close", CloseNetwork(request))
        \/ Call("connect", Connect(request)) \/ Call("disconnect", Disconnect(request))
        \/ Call("publish", Publish(request))
        \/ Call("subscribe", Subscribe(request)) \/ Call("unsubscribe", Unsubscribe(request))
        \/ Call("set", SetConfig(request)) \/ Call("query", QueryConfig(request))
        \/ Call("define", DefineContext(request)) \/ Call("context", ContextReadBack(request))
        \/ Call("signal", SignalQualityDbm(request.fields))
        \/ Call("quality", QcsqExecuteParser(request.mode, request.fields))

Spec == Init /\ [][Next]_<<request, outcome>>

-------------------------------------------------------------------------------
Sent == outcome.err = "ESP_OK"

\* The bytes the request needs: the command, its fields with their separators,
\* the strings in full, CRLF.
Needed(r) ==
  CASE r.fn = "open"       -> 17 + Digits(r.idx) + r.host + Digits(r.port)
    [] r.fn = "close"      -> 14 + Digits(r.idx)
    [] r.fn = "disconnect" -> 13 + Digits(r.idx)
    [] r.fn = "connect"    -> 16 + Digits(r.idx) + r.clientId
                                + (IF r.username = NoString THEN 0 ELSE 3 + r.username)
                                + (IF r.password = NoString THEN 0 ELSE 3 + r.password)
    [] r.fn = "publish"    -> 19 + Digits(r.idx) + Digits(PublishMsgid(r)) + Digits(r.qos)
                                + Digits(r.retain) + r.topic + Digits(r.msglen)
    [] r.fn = "subscribe"  -> 17 + Digits(r.idx) + Digits(r.msgid) + r.topic + Digits(r.qos)
    [] r.fn = "query" -> 15 + NameLen[r.type] + Digits(r.idx)
    [] r.fn = "set"   ->
         15 + NameLen[r.type] + Digits(r.idx)
           + (IF r.type # "will" THEN NumbersLen(r.values)
              ELSE IF r.values[1] = 0 THEN 2
              ELSE NumbersLen(r.values) + 6 + r.topic + r.message)
    [] r.fn = "define" ->
         22 + Digits(r.cid) + TypeNameLen[IF r.type \in PdpTypes THEN r.type ELSE 0] + r.apn
    [] r.fn = "unsubscribe" -> 16 + Digits(r.idx) + Digits(r.msgid) + r.topic

\* The requests whose command is a matter of length, and of these the ones in
\* which the driver cuts a string to its buffer.
Sized == {"open", "close", "disconnect", "connect", "publish", "subscribe", "unsubscribe",
          "set", "query", "define"}
Cuts(r) == \/ r.fn = "publish"
           \/ r.fn = "define" /\ r.apn > StringMax

\* Both 256-byte buffers are big enough for what is written, its NUL included,
\* and nothing but a topic to publish to and an APN is ever cut: a request that
\* does not fit is refused, not shortened.
WholeOrRefused ==
  Sent /\ request.fn \in Sized =>
    /\ outcome.len < CmdSize
    /\ ~Cuts(request) => outcome.len = Needed(request)

\* What one can subscribe to, one can publish to and unsubscribe from: the
\* three calls and the three formatters agree on topics, so no accepted topic
\* is out of the reach of another call, nor shortened by it.
TopicsAgree ==
  Sent /\ request.fn = "subscribe" =>
    LET p == [fn |-> "publish", idx |-> request.idx, msgid |-> request.msgid,
              qos |-> request.qos, retain |-> 1, topic |-> request.topic,
              msglen |-> MsgMaxLen]
    IN  /\ Publish(p).err = "ESP_OK" /\ Publish(p).len = Needed(p)
        /\ Unsubscribe(request).err = "ESP_OK"

\* A field's predecessor is written too: what cgdcont_write_formatter leaves to
\* its callers, and without which a field takes the place of another.
InOrder(p) ==
  /\ Given(p.type)
  /\ Given(p.data) => Given(p.addr) \/ Given(p.apn)
  /\ Given(p.head) => Given(p.data) \/ Given(p.addr)
  /\ Given(p.ipv4) => Given(p.head) \/ Given(p.data)

\* The formatter and the parser of AT+CGDCONT agree on the place of every
\* field: a context defined with its fields in order and in range is read back
\* with these very values, and with empty or default ones only in the places
\* filled for the fields behind them.
ContextReadsBack ==
  /\ Sent /\ request.fn = "context" /\ InOrder(request)
  /\ request.type \in PdpTypes
  /\ request.data \in DataComps \cup {NotGiven}
  /\ request.head \in HeadComps \cup {NotGiven}
  /\ request.ipv4 \in Ipv4Allocs \cup {NotGiven}
  => \E c \in {outcome.got[i] : i \in DOMAIN outcome.got} :
       /\ Len(outcome.got) = 1
       /\ \A f \in DOMAIN c :
            \/ c[f] = request[f]
            \/ c[f] = 0 /\ ~Given(request[f]) /\ f \in {"apn", "addr", "data", "head"}
       /\ Given(request.head) => Given(c.data) /\ Given(c.addr)

\* v is the number n to 16 bits.
IsInt16Of(v, n) == -32768 <= v /\ v <= 32767 /\ (n - v) % 65536 = 0

\* A signal strength reported is the modem's: the dBm of the call convert back
\* to the very number of the +CSQ line, whatever gaps the conversion has, and a
\* line that gives none is an error; an extended one is in the mode named and
\* has the numbers of the line, to 16 bits, up to the first that is none.
SignalIsTold ==
  /\ request.fn = "signal" /\ outcome # Pending =>
       IF Sent THEN request.fields[1] \in 0..RssiMax /\ DbmToRssi(outcome.dbm) = request.fields[1]
               ELSE Len(request.fields) = 2 /\ request.fields[2] # NotANumber
                      => request.fields[1] \notin 0..RssiMax
  /\ request.fn = "quality" /\ Sent =>
       /\ outcome.mode = request.mode
       /\ \A i \in DOMAIN outcome.values : IsInt16Of(outcome.values[i], request.fields[i])
       /\ Len(outcome.values) < Len(request.fields) =>
            \/ Len(outcome.values) = ValuesOf[request.mode]
            \/ request.fields[Len(outcome.values) + 1] = NotANumber
================================================================================
