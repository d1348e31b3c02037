------------------------------ MODULE QmtcfgCommand ------------------------------
(***************************************************************************)
(* AT+QMTCFG: one command sets and queries each parameter of an MQTT       *)
(* client.  A set gives the values, a query none; the answer to a query    *)
(* names the parameter and its values, not the client.  The parsed answer  *)
(* is a union with one structure per parameter.                            *)
(*                                                                         *)
(* The will's topic and message are their lengths, and not kept.           *)
(***************************************************************************)
EXTENDS MqttCommands

CfgTypes == {"pdpcid", "ssl", "keepalive", "session", "timeout", "will", "recv_mode"}

NameLen == [pdpcid |-> 6, ssl |-> 3, keepalive |-> 9, session |-> 7, timeout |-> 7,
            will |-> 4, recv_mode |-> 9]

\* The range of each value of a parameter; driver, formatter and parser agree.
Ranges == [pdpcid    |-> <<1..16>>,
           ssl       |-> <<0..1, 0..5>>,
           keepalive |-> <<0..3600>>,
           session   |-> <<0..1>>,
           timeout   |-> <<1..60, 0..10, 0..1>>,
           will      |-> <<0..1, 0..2, 0..1>>,
           recv_mode |-> <<0..1, 0..1>>]

\* Mutant of InRange: only the first value is checked.
InRangeOfFirst(type, values) == values # <<>> => values[1] \in Ranges[type][1]

InRange(type, values) == \A k \in DOMAIN values : values[k] \in Ranges[type][k]

-------------------------------------------------------------------------------
(* The command.                                                                *)

NumbersLen(values) ==
  LET UpTo[k \in 0..Len(values)] == IF k = 0 THEN 0 ELSE UpTo[k - 1] + Number(values[k])
  IN  UpTo[Len(values)]

\* p.values are those present, none in a query.
QmtcfgFormat(p) ==
  Formatted(p.idx > ClientIdxMax \/ ~InRange(p.type, p.values),
            3 + NameLen[p.type] + Number(p.idx) + NumbersLen(p.values)
              + Quoted(p.topic) + Quoted(p.message))

WillStringMax == 255   \* will_topic and will_message, without the NUL
Cut(len) == IF len > WillStringMax THEN WillStringMax ELSE len

\* Mutant of WrittenValues: the last present flag is not set.
WrittenValuesButLast(type, values) ==
  IF (type = "will" /\ values[1] = 0) \/ Len(values) = 1
  THEN <<values[1]>> ELSE SubSeq(values, 1, Len(values) - 1)

\* The values a set puts into the command: all, but of a will that is not
\* required the flag only.
WrittenValues(type, values) ==
  IF type = "will" /\ values[1] = 0 THEN <<0>> ELSE values

SetConfig(a) ==
  LET values == WrittenValues(a.type, a.values)
      string(len) == IF a.type = "will" /\ values[1] = 1 THEN Cut(len) ELSE NoString
  IN  IF a.idx > ClientIdxMax \/ ~InRange(a.type, values) THEN Invalid
      ELSE FormatWrite(CmdLen.QMTCFG,
                       QmtcfgFormat([type |-> a.type, idx |-> a.idx, values |-> values,
                                     topic |-> string(a.topic),
                                     message |-> string(a.message)]))

QueryConfig(a) ==
  IF a.idx > ClientIdxMax THEN Invalid
  ELSE FormatWrite(CmdLen.QMTCFG,
                   QmtcfgFormat([type |-> a.type, idx |-> a.idx, values |-> <<>>,
                                 topic |-> NoString, message |-> NoString]))

-------------------------------------------------------------------------------
(* The answer: qmtcfg_write_response_t, as bytes.                              *)

\* Where the fields of each structure lie, and how wide they are: an enum takes
\* four bytes, little-endian.
Fields == [pdpcid    |-> <<[at |-> 0, width |-> 1]>>,
           ssl       |-> <<[at |-> 0, width |-> 4], [at |-> 4, width |-> 1]>>,
           keepalive |-> <<[at |-> 0, width |-> 2]>>,
           session   |-> <<[at |-> 0, width |-> 4]>>,
           timeout   |-> <<[at |-> 0, width |-> 1], [at |-> 1, width |-> 1],
                           [at |-> 4, width |-> 4]>>,
           will      |-> <<[at |-> 0, width |-> 4], [at |-> 4, width |-> 4],
                           [at |-> 8, width |-> 4]>>,
           recv_mode |-> <<[at |-> 0, width |-> 4], [at |-> 4, width |-> 4]>>]

\* The byte with the present flags, one bit for each field.
PresentAt == [pdpcid |-> 1, ssl |-> 5, keepalive |-> 2, session |-> 4, timeout |-> 8,
              will |-> 524, recv_mode |-> 8]

Bytes == 0..11 \cup {524}

\* What the bits of the flags, and the bytes of a number, from the lowest count.
Bit    == <<1, 2, 4, 8>>
Weight == <<1, 256, 65536, 16777216>>

Zeros == [b \in Bytes |-> 0]

\* qmtcfg_write_parser: the bytes it leaves in the union for an answer.
Store(type, values) ==
  [b \in Bytes |->
     IF b = PresentAt[type] THEN Bit[Len(values) + 1] - 1
     ELSE LET here == {k \in DOMAIN values : LET f == Fields[type][k]
                                             IN  f.at <= b /\ b < f.at + f.width}
          IN  IF here = {} THEN 0
              ELSE LET k == CHOOSE k \in here : TRUE
                   IN  (values[k] \div Weight[b - Fields[type][k].at + 1]) % 256]

\* Field k of the structure for type as the driver's query copies it out of the
\* union, whatever was stored there; -1 if its present flag is not set.
Load(type, bytes, k) ==
  LET f == Fields[type][k]
      UpTo[n \in 0..f.width] ==
        IF n = 0 THEN 0 ELSE UpTo[n - 1] + bytes[f.at + n - 1] * Weight[n]
  IN  IF (bytes[PresentAt[type]] \div Bit[k]) % 2 = 1 THEN UpTo[f.width] ELSE -1

\* Mutant of LoadAll: the values are returned whether present or not.
LoadAllUnasked(type, bytes) ==
  [k \in DOMAIN Fields[type] |->
     IF Load(type, bytes, k) = -1 THEN 0 ELSE Load(type, bytes, k)]

LoadAll(type, bytes) == [k \in DOMAIN Fields[type] |-> Load(type, bytes, k)]
================================================================================
