----------------------------- MODULE MqttCommands -----------------------------
(***************************************************************************)
(* From the arguments of an MQTT call of the driver to the command string: *)
(* the checks of bg95_driver.c, the checks and the length of the command's *)
(* write formatter, and format_write_type_command, which gives the         *)
(* parameters a buffer of 256 bytes and the command another.               *)
(*                                                                         *)
(* A string argument is its length.  Pointers that must not be NULL are    *)
(* not; username and password, which may be, are NoString when they are.   *)
(***************************************************************************)
EXTENDS Integers, Sequences

ClientIdxMax == 5
MsgidMax     == 65535
HostNameMax  == 100
ClientIdMax  == 256
UsernameMax  == 512
PasswordMax  == 512
TopicSize    == 128      \* QMT*_TOPIC_MAX_SIZE, with the terminating NUL
MaxTopics    == 5
MsgMaxLen    == 4096
QosMax       == 2
RetainMax    == 1
NoString     == -1

ParamSize    == 256      \* param_buffer
CmdSize      == 256      \* AT_CMD_MAX_CMD_LEN

\* The length of each command's name.
CmdLen == [QMTOPEN |-> 7, QMTCLOSE |-> 8, QMTCONN |-> 7, QMTDISC |-> 7, QMTPUB |-> 6,
           QMTSUB |-> 6, QMTUNS |-> 6, QMTCFG |-> 6, CGDCONT |-> 7]

\* Lengths of a number, of ",number" (or "=number") and of ,"string".
Digits(n) == IF n < 10 THEN 1 ELSE IF n < 100 THEN 2 ELSE IF n < 1000 THEN 3
             ELSE IF n < 10000 THEN 4 ELSE 5
Number(n)   == 1 + Digits(n)
Quoted(len) == IF len = NoString THEN 0 ELSE 3 + len

\* A formatter's result: an error, or "ESP_OK" and the length of "=...".
Formatted(invalid, len) ==
  [err |-> IF invalid THEN "ESP_ERR_INVALID_ARG"
           ELSE IF len >= ParamSize THEN "ESP_ERR_INVALID_SIZE" ELSE "ESP_OK",
   len |-> len]

\* Mutant of FormatWrite: no room for the NUL.
FormatWriteNoNul(nameLen, params) ==
  LET len == 3 + nameLen + params.len + 2
  IN  [err |-> IF params.err # "ESP_OK" THEN params.err
               ELSE IF len > CmdSize THEN "ESP_FAIL" ELSE "ESP_OK",
       len |-> len]

\* format_write_type_command: "AT+", the name, the parameters and CRLF, with
\* room for the NUL that ends them.
FormatWrite(nameLen, params) ==
  LET len == 3 + nameLen + params.len + 2
  IN  [err |-> IF params.err # "ESP_OK" THEN params.err
               ELSE IF len >= CmdSize THEN "ESP_FAIL" ELSE "ESP_OK",
       len |-> len]

-------------------------------------------------------------------------------
(* The write formatters.                                                       *)

QmtopenFormat(p) ==
  Formatted(p.idx > ClientIdxMax \/ p.host = 0,
            Number(p.idx) + Quoted(p.host) + Number(p.port))

QmtcloseFormat(p) == Formatted(p.idx > ClientIdxMax, Number(p.idx))

QmtdiscFormat(p) == Formatted(p.idx > ClientIdxMax, Number(p.idx))

QmtconnFormat(p) ==
  Formatted(\/ p.idx > ClientIdxMax
            \/ p.clientId = 0
            \/ p.password # NoString /\ p.username = NoString,
            Number(p.idx) + Quoted(p.clientId) + Quoted(p.username) + Quoted(p.password))

QmtpubFormat(p) ==
  Formatted(\/ p.idx > ClientIdxMax \/ p.msgid > MsgidMax
            \/ p.qos > QosMax \/ p.retain > RetainMax
            \/ p.topic = 0
            \/ p.msglen \notin 1..MsgMaxLen,
            Number(p.idx) + Number(p.msgid) + Number(p.qos) + Number(p.retain)
              + Quoted(p.topic) + Number(p.msglen))

\* The topics one after the other: the first that is wrong, or does not fit,
\* decides.  lengths[i] is what topic i adds; bad are the wrong ones.
TopicsFormat(p, bad, lengths) ==
  LET UpTo[i \in 0..Len(lengths)] ==
        IF i = 0 THEN Number(p.idx) + Number(p.msgid) ELSE UpTo[i - 1] + lengths[i]
  IN  Formatted(\/ p.idx > ClientIdxMax
                \/ p.msgid \notin 1..MsgidMax
                \/ Len(lengths) \notin 1..MaxTopics
                \/ \E i \in bad : UpTo[i - 1] < ParamSize,
                UpTo[Len(lengths)])

QmtsubFormat(p) ==
  TopicsFormat(p, {i \in DOMAIN p.topics : p.topics[i].qos > QosMax \/ p.topics[i].len = 0},
               [i \in DOMAIN p.topics |-> Quoted(p.topics[i].len) + Number(p.topics[i].qos)])

QmtunsFormat(p) ==
  TopicsFormat(p, {i \in DOMAIN p.topics : p.topics[i].len = 0},
               [i \in DOMAIN p.topics |-> Quoted(p.topics[i].len)])

-------------------------------------------------------------------------------
(* The calls.  Each returns what its command is formatted to, after the        *)
(* driver's own checks; the handle is initialised.                             *)

Invalid == [err |-> "ESP_ERR_INVALID_ARG", len |-> 0]

OpenNetwork(a) ==
  IF a.idx > ClientIdxMax \/ a.host > HostNameMax THEN Invalid
  ELSE FormatWrite(CmdLen.QMTOPEN, QmtopenFormat(a))

CloseNetwork(a) ==
  IF a.idx > ClientIdxMax THEN Invalid ELSE FormatWrite(CmdLen.QMTCLOSE, QmtcloseFormat(a))

Connect(a) ==
  IF \/ a.idx > ClientIdxMax \/ a.clientId > ClientIdMax
     \/ a.username > UsernameMax \/ a.password > PasswordMax
     \/ a.password # NoString /\ a.username = NoString
  THEN Invalid
  ELSE FormatWrite(CmdLen.QMTCONN, QmtconnFormat(a))

Disconnect(a) ==
  IF a.idx > ClientIdxMax THEN Invalid ELSE FormatWrite(CmdLen.QMTDISC, QmtdiscFormat(a))

\* The message id that goes with the QoS, whatever the caller gave.
PublishMsgid(a) == IF a.qos = 0 THEN 0
                   ELSE IF a.qos \in 1..2 /\ a.msgid = 0 THEN 1 ELSE a.msgid

\* strncpy into params.topic cuts a topic that is too long.
PublishTopic(a) == IF a.topic < TopicSize THEN a.topic ELSE TopicSize - 1

Publish(a) ==
  IF a.msglen = 0 \/ a.idx > ClientIdxMax \/ a.msglen > MsgMaxLen THEN Invalid
  ELSE FormatWrite(CmdLen.QMTPUB,
                   QmtpubFormat([a EXCEPT !.msgid = PublishMsgid(a), !.topic = PublishTopic(a)]))

\* Mutant of Subscribe: a topic that fills its buffer is accepted.
SubscribeFullTopic(a) ==
  IF a.idx > ClientIdxMax \/ a.msgid \notin 1..MsgidMax \/ a.topic \notin 1..TopicSize
  THEN Invalid
  ELSE FormatWrite(CmdLen.QMTSUB,
                   QmtsubFormat([idx |-> a.idx, msgid |-> a.msgid,
                                 topics |-> <<[len |-> a.topic, qos |-> a.qos]>>]))

Subscribe(a) ==
  IF \/ a.idx > ClientIdxMax \/ a.msgid \notin 1..MsgidMax
     \/ a.qos > QosMax \/ a.topic \notin 1..(TopicSize - 1)
  THEN Invalid
  ELSE FormatWrite(CmdLen.QMTSUB,
                   QmtsubFormat([idx |-> a.idx, msgid |-> a.msgid,
                                 topics |-> <<[len |-> a.topic, qos |-> a.qos]>>]))

Unsubscribe(a) ==
  IF \/ a.idx > ClientIdxMax \/ a.msgid \notin 1..MsgidMax
     \/ a.topic \notin 1..(TopicSize - 1)
  THEN Invalid
  ELSE FormatWrite(CmdLen.QMTUNS,
                   QmtunsFormat([idx |-> a.idx, msgid |-> a.msgid,
                                 topics |-> <<[len |-> a.topic]>>]))
================================================================================
