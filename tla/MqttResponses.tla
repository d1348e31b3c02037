----------------------------- MODULE MqttResponses -----------------------------
(***************************************************************************)
(* The parsers of the MQTT commands' responses (at_cmd_qmt*.c), and the    *)
(* error the driver makes of what they leave in the caller's structure.    *)
(*                                                                         *)
(* A line is a record with the name of its command, the numbers it begins  *)
(* with, which is all the parsers' sscanf looks at, and the call it        *)
(* answers.  A result line and a state line of one name look alike.        *)
(***************************************************************************)
EXTENDS MqttCommands, FiniteSetsExt

\* A field whose present flag is not set; no number a modem sends.
Absent == -2

\* A response structure: client index, message id, result or state, and (for
\* properties) the call the line answered.
NoResponse == [idx |-> Absent, msgid |-> Absent, value |-> Absent, id |-> Absent]
Parsed(idx, msgid, value, id) ==
  [err |-> "ESP_OK", response |-> [idx |-> idx, msgid |-> msgid, value |-> value, id |-> id]]

\* No line of the command's name: success, with nothing present.  A line with
\* too few numbers is an error.
NothingFound == [err |-> "ESP_OK", response |-> NoResponse]
TooFew       == [err |-> "ESP_ERR_INVALID_RESPONSE", response |-> NoResponse]

\* A number out of its range leaves the field absent.
Checked(n, range) == IF n \in range THEN n ELSE Absent
ClientIdx == 0..ClientIdxMax
PacketResults    == 0..2      \* success, retransmission, failed to send
ConnectionStates == 1..4      \* initializing to disconnecting
Success        == 0
Retransmission == 1

-------------------------------------------------------------------------------
(* The write parsers, of the first line of the command's name.                 *)

\* Of a network connection and of a disconnect: any number is a result.
ClientResult(l) ==
  IF Len(l.nums) < 2 THEN TooFew
  ELSE Parsed(Checked(l.nums[1], ClientIdx), Absent, l.nums[2], l.id)
QmtopenWriteParser(l)  == ClientResult(l)
QmtcloseWriteParser(l) == ClientResult(l)
QmtdiscWriteParser(l)  == ClientResult(l)

\* The return code that may follow is kept for the caller only.
QmtconnWriteParser(l) ==
  IF Len(l.nums) < 2 THEN TooFew
  ELSE Parsed(Checked(l.nums[1], ClientIdx), Absent, Checked(l.nums[2], PacketResults), l.id)

\* Of a packet with a message id; the value that may follow (the granted QoS,
\* the retransmission count) is kept for the caller only.
PacketResult(l, msgids) ==
  IF Len(l.nums) < 3 THEN TooFew
  ELSE Parsed(Checked(l.nums[1], ClientIdx), Checked(l.nums[2], msgids),
              Checked(l.nums[3], PacketResults), l.id)

\* Mutant of QmtpubWriteParser: a packet sent again counts as sent.
QmtpubWriteParserForgiving(l) ==
  PacketResult([l EXCEPT !.nums[3] = IF @ = Retransmission THEN Success ELSE @], 0..MsgidMax)

QmtpubWriteParser(l) == PacketResult(l, 0..MsgidMax)
QmtsubWriteParser(l) == PacketResult(l, 1..MsgidMax)
QmtunsWriteParser(l) == PacketResult(l, 1..MsgidMax)

-------------------------------------------------------------------------------
(* The read parsers; the host and port of AT+QMTOPEN? are the caller's only.   *)

QmtopenReadParser(l) ==
  IF Len(l.nums) < 1 THEN TooFew
  ELSE Parsed(Checked(l.nums[1], ClientIdx), Absent, Absent, l.id)

\* Mutant of QmtconnReadParser: client 0 is taken for no client.
QmtconnReadParserFromOne(l) ==
  IF Len(l.nums) < 2 THEN TooFew
  ELSE Parsed(Checked(l.nums[1], 1..ClientIdxMax), Absent,
              Checked(l.nums[2], ConnectionStates), l.id)

QmtconnReadParser(l) ==
  IF Len(l.nums) < 2 THEN TooFew
  ELSE Parsed(Checked(l.nums[1], ClientIdx), Absent, Checked(l.nums[2], ConnectionStates), l.id)

\* The parser of call fn on the first of the lines of its command's name.
ParserOf(fn, lines) ==
  LET l == lines[Min(DOMAIN lines)]
  IN  IF DOMAIN lines = {} THEN NothingFound
      ELSE CASE fn = "open"             -> QmtopenWriteParser(l)
             [] fn = "close"            -> QmtcloseWriteParser(l)
             [] fn = "disconnect"       -> QmtdiscWriteParser(l)
             [] fn = "connect"          -> QmtconnWriteParser(l)
             [] fn = "publish"          -> QmtpubWriteParser(l)
             [] fn = "subscribe"        -> QmtsubWriteParser(l)
             [] fn = "unsubscribe"      -> QmtunsWriteParser(l)
             [] fn = "open_status"      -> QmtopenReadParser(l)
             [] fn = "connection_state" -> QmtconnReadParser(l)

-------------------------------------------------------------------------------
(* What the driver makes of a response.                                        *)

\* Mutant of ResultErr: only a retransmission is an error.
ResultErrOfRetransmission(response) ==
  IF response.value = Retransmission THEN "ESP_FAIL" ELSE "ESP_OK"

\* The error a write call makes of its result code, if it got one.
ResultErr(response) ==
  IF response.value \notin {Absent, Success} THEN "ESP_FAIL" ELSE "ESP_OK"

\* Mutant of StatusErr: the client is not looked for.
StatusErrUnchecked(idx, response) == "ESP_OK"

\* The error a query makes of the client it was told about.
StatusErr(idx, response) == IF response.idx # idx THEN "ESP_ERR_NOT_FOUND" ELSE "ESP_OK"
================================================================================
