-------------------------- MODULE Bg95MqttStep_proofs --------------------------
(***************************************************************************)
(* Theorems about Bg95Mqtt, for any clients, message ids and number of     *)
(* calls: whose result a call hands to its caller, and what it says.       *)
(*                                                                         *)
(* Two invariants carry them.  FreshInv says where the message id of a     *)
(* call may turn up, after calls that gave up as well as before.  StepInv  *)
(* says what a running call may find while host and modem are in step: its *)
(* own answer, up to some point, and lines it takes no notice of.          *)
(***************************************************************************)
EXTENDS Bg95Mqtt_proofs

LEMMA JudgeData ==
  ASSUME NEW c, NEW lines, NEW given, BasicResponseIsOk(lines), HasDataResponse(lines),
         NEW p, p = ParserOf(c.fn, OwnLines(lines, Name(c.fn))),
         NEW j, j = Judge(c, lines, given)
  PROVE  /\ p.err # "ESP_OK" => j = p
         /\ p.err = "ESP_OK" => j = [p EXCEPT !.err = CallErr(c, p.response)]
BY Zenon DEF Judge, CallErr

\* What a call with an answer and some + line returns: the error of its parser, or
\* what the first of the lines of its command's name says.
FromOwn(c, own, j) ==
  /\ DOMAIN own = {} => j.response = NoResponse /\ j.err = CallErr(c, NoResponse)
  /\ DOMAIN own # {} =>
       LET p == ParserOf(c.fn, own)
       IN  \/ p = TooFew /\ j = TooFew
           \/ /\ p.err = "ESP_OK" /\ p.response.id = First(own).id
              /\ j.response = p.response /\ j.err = CallErr(c, p.response)

LEMMA Judged ==
  ASSUME NEW c, c \in Calls, NEW S, NEW lines, lines \in Seq(S), NEW given,
         BasicResponseIsOk(lines), HasDataResponse(lines),
         NEW own, own = OwnLines(lines, Name(c.fn)),
         NEW j, j = Judge(c, lines, given)
  PROVE  FromOwn(c, own, j)
<1> DEFINE p == ParserOf(c.fn, own)
           e == CallErr(c, p.response)
           l == First(own)
<1>1. /\ p.err # "ESP_OK" => j = p
      /\ p.err = "ESP_OK" => j = [p EXCEPT !.err = CallErr(c, p.response)]
  BY JudgeData
<1>2. c.fn \in Writes \cup Queries
  BY DEF Calls
<1>3. DOMAIN own = {} => p = NothingFound
  BY ParserEmpty
<1>4. DOMAIN own # {} => FromLine(p, l)
  BY <1>2, ParserForm
<1> HIDE DEF p, l
<1>5. CASE DOMAIN own = {}
  <2>1. p = NothingFound
    BY <1>3, <1>5
  <2>2. p.err = "ESP_OK" /\ p.response = NoResponse
        /\ [p EXCEPT !.err = e].response = p.response /\ [p EXCEPT !.err = e].err = e
    BY <2>1 DEF NothingFound
  <2> QED
    BY <1>1, <1>5, <2>2 DEF FromOwn
<1>6. CASE p = TooFew
  <2>1. p.err # "ESP_OK"
    BY <1>6 DEF TooFew
  <2>2. DOMAIN own # {}
    <3>1. NothingFound.err = "ESP_OK"
      BY DEF NothingFound
    <3> QED
      BY <1>3, <2>1, <3>1
  <2> QED
    BY <1>1, <1>6, <2>1, <2>2 DEF FromOwn, p
<1>7. ASSUME NEW idx, NEW msgid, NEW value, p = Parsed(idx, msgid, value, l.id), DOMAIN own # {}
      PROVE  /\ p.err = "ESP_OK" /\ p.response.id = l.id
             /\ j.response = p.response /\ j.err = e
  <2>1. /\ p.err = "ESP_OK" /\ p.response.id = l.id
        /\ [p EXCEPT !.err = e].err = e /\ [p EXCEPT !.err = e].response = p.response
    BY <1>7, ParsedIs
  <2> QED
    BY <1>1, <2>1
<1> QED
  BY <1>4, <1>5, <1>6, <1>7 DEF FromLine, FromOwn, p, l

-------------------------------------------------------------------------------
(* What a message id of its own is good for.                                   *)

\* No other call than c has c's message id, if that was a new one.
Own(c, m, i) == c.fn # "none" /\ c.fresh /\ m = c.msgid => i = c.id

\* A line of a result has its call's message id, and reports success of calls that
\* were successful only.
Reports(l, used, c, done) ==
  /\ Len(l.nums) = 3 /\ l.nums[2] \in used /\ Own(c, l.nums[2], l.id)
  /\ l.nums[3] = Success => l.id \in done

FreshInv ==
  /\ \A j \in jobs : Own(call, j.call.msgid, j.call.id)
  /\ \A w \in Range(tx) : Own(call, w.call.msgid, w.call.id)
  /\ mode = "data" => Own(call, dcall.msgid, dcall.id)
  /\ \A l \in Range(rx) : Result(l) => Reports(l, usedMsgids, call, acked)
  /\ CheckedReplyIsOwn

LEMMA InitFresh == Init => FreshInv
<1>1. SUFFICES ASSUME Init PROVE FreshInv
  OBVIOUS
<1>2. Range(rx) = {} /\ Range(tx) = {}
  BY <1>1, Single DEF Init
<1> QED
  BY <1>1, <1>2 DEF Init, FreshInv, CheckedReplyIsOwn, Returned

LEMMA BeginFresh == ASSUME TypeInv, FreshInv, Begun PROVE FreshInv'
<1>1. CASE pc = "idle" /\ \E err : Refuse(err)
  <2>1. call' = [fn |-> "none"] /\ UNCHANGED <<tx, rx, modem, usedMsgids>>
    BY <1>1 DEF Refuse
  <2>2. call'.fn = "none"
    BY <2>1
  <2>3. \A m, i : Own(call', m, i)
    BY <2>2 DEF Own
  <2>4. CheckedReplyIsOwn'
    BY <2>2 DEF CheckedReplyIsOwn, Returned
  <2>5. \A l \in Range(rx') : Result(l) => Reports(l, usedMsgids', call', acked')
    BY <2>1, <2>3 DEF FreshInv, Reports, modem
  <2> QED
    BY <2>3, <2>4, <2>5 DEF FreshInv
<1>2. ASSUME NEW c, NEW w, Began(c, w) PROVE FreshInv'
  <2>1. /\ call' = c /\ c.fresh = (c.msgid # 0 /\ c.msgid \notin usedMsgids)
        /\ usedMsgids' = usedMsgids \cup {c.msgid} /\ UNCHANGED modem
        /\ rx' = rx \/ rx' = <<>>
    BY <1>2 DEF Began
  <2>2. ASSUME NEW m \in usedMsgids, NEW i PROVE Own(c, m, i)
    BY <2>1 DEF Own
  <2>3. \A l \in Range(rx') : Result(l) => Reports(l, usedMsgids', call', acked')
    <3>1. Range(<<>>) = {}
      BY Single
    <3>2. Range(rx') \subseteq Range(rx)
      BY <2>1, <3>1
    <3> QED
      BY <2>1, <2>2, <3>2 DEF FreshInv, Reports, modem
  <2>4. \A x \in Range(tx') : Own(call', x.call.msgid, x.call.id)
    <3> DEFINE y == [part |-> "cmd", call |-> c]
    <3>1. y.call = c
      OBVIOUS
    <3>2. tx' = tx \/ tx' = Append(tx, y)
      BY <1>2 DEF Began
    <3> HIDE DEF y
    <3>3. PICK S : tx \in Seq(S)
      BY DEF TypeInv
    <3>4. Range(Append(tx, y)) = Range(tx) \cup {y}
      BY <3>3, AppendedRange
    <3>5. \A x \in Range(tx) : Own(c, x.call.msgid, x.call.id)
      BY <2>2 DEF TypeInv, Called
    <3>6. Own(c, y.call.msgid, y.call.id)
      BY <3>1 DEF Own
    <3> QED
      BY <2>1, <3>2, <3>4, <3>5, <3>6
  <2>5. \A j \in jobs' : Own(call', j.call.msgid, j.call.id)
    BY <2>1, <2>2 DEF TypeInv, Called, modem
  <2>6. mode' = "data" => Own(call', dcall'.msgid, dcall'.id)
    BY <2>1, <2>2 DEF TypeInv, Called, modem
  <2>7. CheckedReplyIsOwn'
    <3>1. pc' = "idle" => status' # "ESP_OK"
      <4>1. pc' = IF w.err = "ESP_OK" THEN FirstLoop(c.fn) ELSE "idle"
        BY <1>2 DEF Began
      <4>2. status' = IF w.err # "ESP_OK" THEN w.err ELSE "none"
        BY <1>2 DEF Began
      <4>3. FirstLoop(c.fn) # "idle"
        BY DEF FirstLoop
      <4> QED
        BY <4>1, <4>2, <4>3
    <3> QED
      BY <3>1 DEF CheckedReplyIsOwn, Returned
  <2> QED
    BY <2>3, <2>4, <2>5, <2>6, <2>7 DEF FreshInv
<1> QED
  BY <1>1, <1>2, BegunIs

\* The parser of a packet's result takes message id and result as they stand in the
\* line, or leaves them absent.
LEMMA PacketReply ==
  ASSUME NEW l, NEW R, NEW p, p = PacketResult(l, R), p # TooFew
  PROVE  /\ ~(Len(l.nums) < 3) /\ p.err = "ESP_OK"
         /\ p.response.msgid \in {l.nums[2], Absent} /\ p.response.value \in {l.nums[3], Absent}
<1> DEFINE idx == Checked(l.nums[1], ClientIdx)
           msgid == Checked(l.nums[2], R)
           value == Checked(l.nums[3], PacketResults)
<1>1. msgid \in {l.nums[2], Absent} /\ value \in {l.nums[3], Absent}
  BY DEF Checked
<1> HIDE DEF idx, msgid, value
<1>2. ~(Len(l.nums) < 3) /\ p = Parsed(idx, msgid, value, l.id)
  BY DEF PacketResult, idx, msgid, value
<1>3. p.err = "ESP_OK" /\ p.response.msgid = msgid /\ p.response.value = value
  BY <1>2, ParsedIs
<1> QED
  BY <1>1, <1>2, <1>3

\* A packet's call that returns success with its message id had the result of its
\* own operation before it.
LEMMA FinishChecked ==
  ASSUME TypeInv, FreshInv, pc # "idle", call.fn \in {"publish", "subscribe", "unsubscribe"},
         call.fresh, NEW n, n \in 0..Len(rx), NEW given, NEW j,
         j = Judge(call, SubSeq(rx, 1, n), given),
         j.err = "ESP_OK", j.response.value = Success, j.response.msgid = call.msgid
  PROVE  call.id \in acked
<1> DEFINE lines == SubSeq(rx, 1, n)
           name == Name(call.fn)
           own == OwnLines(lines, name)
           l == First(own)
           p == ParserOf(call.fn, own)
<1>1. call \in Calls /\ call.fn # "none" /\ call.fn \notin Queries
  BY DEF TypeInv, Called, Queries
<1>2. PICK S : rx \in Seq(S)
  BY DEF TypeInv
<1>3. lines \in Seq(S) /\ Len(lines) = n /\ \A k \in 1..n : lines[k] = rx[k]
  BY <1>2, Read
<1>11. n \in Nat /\ DOMAIN rx = 1..Len(rx) /\ Len(rx) \in Nat
  BY <1>2
<1> HIDE DEF lines
<1>4. BasicResponseIsOk(lines)
  BY JudgeFail DEF lines
<1>5. HasDataResponse(lines)
  BY <1>1, <1>4, JudgeBare DEF lines
<1>6. /\ DOMAIN own = {} => j.response = NoResponse
      /\ DOMAIN own # {} =>
           \/ p = TooFew /\ j = TooFew
           \/ p.err = "ESP_OK" /\ j.response = p.response
  <2>1. own = OwnLines(lines, Name(call.fn)) /\ p = ParserOf(call.fn, own)
    OBVIOUS
  <2>2. j = Judge(call, lines, given)
    BY DEF lines
  <2> HIDE DEF own, p
  <2>3. FromOwn(call, own, j)
    BY <1>1, <1>3, <1>4, <1>5, <2>1, <2>2, Judged
  <2> QED
    BY <2>1, <2>3 DEF FromOwn
<1>7. DOMAIN own # {} /\ j.response = p.response /\ p # TooFew
  <2>1. NoResponse.value # Success
    BY DEF NoResponse, Absent, Success
  <2>2. TooFew.err # "ESP_OK"
    BY DEF TooFew
  <2> QED
    BY <1>6, <2>1, <2>2
<1>8. PICK k \in 1..n :
        l = rx[k] /\ rx[k].kind = "line" /\ rx[k].name = name
  <2> HIDE DEF name
  <2> QED
    BY <1>3, <1>7, FirstOwn
<1>9. l \in Range(rx) /\ Result(l)
  <2>1. rx[k] \in Range(rx)
    BY <1>8, <1>11 DEF Range
  <2>2. name \in ResultNames
    BY NameIs DEF Writes
  <2> QED
    BY <1>8, <2>1, <2>2 DEF Result
<1>10. p = PacketResult(l, 0..MsgidMax) \/ p = PacketResult(l, 1..MsgidMax)
  BY <1>7, ParserFirst
<1> HIDE DEF l, p, own
<1>12. p.response.msgid \in {l.nums[2], Absent} /\ p.response.value \in {l.nums[3], Absent}
  BY <1>7, <1>10, PacketReply
<1>13. call.msgid # Absent /\ Success # Absent
  BY <1>1, MqttAssumption DEF Calls, Absent, Success
<1>14. l.nums[2] = call.msgid /\ l.nums[3] = Success
  BY <1>7, <1>12, <1>13
<1> QED
  BY <1>1, <1>9, <1>14 DEF FreshInv, Reports, Own

LEMMA ReadFresh == ASSUME TypeInv, FreshInv, SendMessage \/ Finish \/ GiveUp PROVE FreshInv'
<1>1. pc # "idle" /\ UNCHANGED <<call, modem, usedMsgids>>
  BY DEF SendMessage, Finish, GiveUp
<1>2. \A l \in Range(rx') : Result(l) => Reports(l, usedMsgids', call', acked')
  BY <1>1, ReadRx DEF FreshInv, modem
<1>3. \A w \in Range(tx') : Own(call', w.call.msgid, w.call.id)
  <2> DEFINE y == [part |-> "data", call |-> call]
  <2>1. y.call = call
    OBVIOUS
  <2>2. tx' = tx \/ tx' = Append(tx, y)
    BY DEF SendMessage, Finish, GiveUp
  <2> HIDE DEF y
  <2>3. PICK S : tx \in Seq(S)
    BY DEF TypeInv
  <2>4. Range(Append(tx, y)) = Range(tx) \cup {y}
    BY <2>3, AppendedRange
  <2>5. Own(call, y.call.msgid, y.call.id)
    BY <2>1 DEF Own
  <2> QED
    BY <1>1, <2>2, <2>4, <2>5 DEF FreshInv
<1>4. CheckedReplyIsOwn'
  <2>1. CASE SendMessage \/ GiveUp
    <3>1. pc' = "idle" => status' # "ESP_OK"
      <4>1. CASE SendMessage
        BY <4>1 DEF SendMessage, Return
      <4>2. CASE GiveUp
        BY <4>2 DEF GiveUp, Return
      <4> QED
        BY <2>1, <4>1, <4>2
    <3> QED
      BY <3>1 DEF CheckedReplyIsOwn, Returned
  <2>2. CASE Finish
    <3>1. SUFFICES ASSUME call.fn \in {"publish", "subscribe", "unsubscribe"}, call.fresh,
                          status' = "ESP_OK", response'.value = Success,
                          response'.msgid = call.msgid
                   PROVE  call.id \in acked
      BY <1>1 DEF CheckedReplyIsOwn, Returned, modem
    <3>2. PICK n \in Reads(rx, Name(call.fn), RType(call.fn)) :
            LET j == Judge(call, SubSeq(rx, 1, n), response)
            IN  Return(j.err, j.response, FALSE)
      BY <2>2 DEF Finish
    <3> DEFINE j == Judge(call, SubSeq(rx, 1, n), response)
    <3>3. n \in 0..Len(rx) /\ j.err = status' /\ j.response = response'
      <4>1. PICK S : rx \in Seq(S)
        BY DEF TypeInv
      <4>2. Len(rx) \in Nat
        BY <4>1
      <4> QED
        BY <3>2, <4>2 DEF Reads, Return
    <3> QED
      BY <1>1, <3>1, <3>3, FinishChecked
  <2> QED
    BY <2>1, <2>2
<1>5. /\ \A j \in jobs' : Own(call', j.call.msgid, j.call.id)
      /\ mode' = "data" => Own(call', dcall'.msgid, dcall'.id)
  BY <1>1 DEF FreshInv, modem
<1> QED
  BY <1>2, <1>3, <1>4, <1>5 DEF FreshInv

LEMMA ModemFresh == ASSUME TypeInv, FreshInv, ModemTakes PROVE FreshInv'
<1> DEFINE c == Head(tx).call
<1>1. /\ UNCHANGED <<pc, call, status, response, acked, usedMsgids>>
      /\ mode' = "data" => (mode = "data" /\ dcall' = dcall) \/ dcall' = c
      /\ \/ jobs' = jobs
         \/ jobs' = jobs \cup {[call |-> c, again |-> FALSE]}
         \/ mode = "data" /\ jobs' = jobs \cup {[call |-> dcall, again |-> FALSE]}
  BY DEF ModemTakes
<1>2. Own(call, c.msgid, c.id)
  BY TakesFirst DEF FreshInv
<1> HIDE DEF c
<1>3. \A l \in Range(rx') : Result(l) => Reports(l, usedMsgids', call', acked')
  BY <1>1, ModemNews DEF FreshInv
<1>4. \A w \in Range(tx') : Own(call', w.call.msgid, w.call.id)
  BY <1>1, TakesFirst DEF FreshInv
<1>5. \A j \in jobs' : Own(call', j.call.msgid, j.call.id)
  <2>1. \A d : [call |-> d, again |-> FALSE].call = d
    OBVIOUS
  <2> QED
    BY <1>1, <1>2, <2>1 DEF FreshInv
<1>6. mode' = "data" => Own(call', dcall'.msgid, dcall'.id)
  BY <1>1, <1>2 DEF FreshInv
<1>7. CheckedReplyIsOwn'
  BY <1>1 DEF FreshInv, CheckedReplyIsOwn, Returned
<1> QED
  BY <1>3, <1>4, <1>5, <1>6, <1>7 DEF FreshInv

LEMMA JobFresh == ASSUME TypeInv, FreshInv, JobEnds \/ JobRetransmits PROVE FreshInv'
<1>1. PICK j \in jobs :
        /\ UNCHANGED <<pc, call, status, response, tx, mode, dcall, usedMsgids>>
        /\ \A i \in jobs' : i \in jobs \/ i.call = j.call
        /\ \E r : /\ rx' = Append(rx, ResultLine(j.call, r))
                  /\ r = Success => acked' = acked \cup {j.call.id}
        /\ acked \subseteq acked'
  <2>1. CASE JobEnds
    <3>1. \A c : Failed(c) # Success
      BY DEF Failed, Success
    <3> QED
      BY <2>1, <3>1 DEF JobEnds
  <2>2. CASE JobRetransmits
    <3>1. PICK j \in jobs :
            /\ jobs' = (jobs \ {j}) \cup {[j EXCEPT !.again = TRUE]}
            /\ rx' = Append(rx, ResultLine(j.call, Retransmission))
            /\ UNCHANGED <<pc, call, status, response, tx, mode, dcall, acked, usedMsgids>>
      BY <2>2 DEF JobRetransmits
    <3>2. [j EXCEPT !.again = TRUE].call = j.call
      <4>1. j \in [call : Calls, again : BOOLEAN]
        BY DEF TypeInv
      <4> QED
        BY <4>1
    <3>3. Retransmission # Success
      BY DEF Retransmission, Success
    <3> QED
      BY <3>1, <3>2, <3>3
  <2> QED
    BY <2>1, <2>2
<1>2. Called(j.call, nextId, usedMsgids) /\ Own(call, j.call.msgid, j.call.id)
  BY DEF TypeInv, FreshInv
<1>3. PICK r : /\ rx' = Append(rx, ResultLine(j.call, r))
               /\ r = Success => acked' = acked \cup {j.call.id}
  BY <1>1
<1> DEFINE y == ResultLine(j.call, r)
<1>4. Result(y) => Reports(y, usedMsgids, call, acked')
  <2> DEFINE c == j.call
             t == <<c.idx, c.msgid, r>>
  <2>1. /\ y.kind = "line" /\ y.name = Name(c.fn) /\ y.id = c.id
        /\ c.fn \in {"publish", "subscribe", "unsubscribe"} => y.nums = t
    BY ResultLineIs
  <2>2. c.fn \in Writes \cup Queries
    BY <1>2 DEF Called, Calls
  <2>3. Result(y) => c.fn \in {"publish", "subscribe", "unsubscribe"}
    BY <2>1, <2>2, NameIs DEF Result
  <2>4. Len(t) = 3 /\ t[2] = c.msgid /\ t[3] = r
    OBVIOUS
  <2> HIDE DEF c, t, y
  <2>5. c.msgid \in usedMsgids /\ Own(call, c.msgid, c.id)
    BY <1>2 DEF Called, c
  <2> QED
    BY <1>3, <2>1, <2>3, <2>4, <2>5 DEF Reports, c
<1> HIDE DEF y
<1>5. Range(rx') = Range(rx) \cup {y}
  BY <1>3, Reported DEF y
<1>6. \A l \in Range(rx') : Result(l) => Reports(l, usedMsgids', call', acked')
  BY <1>1, <1>4, <1>5 DEF FreshInv, Reports
<1>7. CheckedReplyIsOwn'
  BY <1>1 DEF FreshInv, CheckedReplyIsOwn, Returned
<1>8. /\ \A i \in jobs' : Own(call', i.call.msgid, i.call.id)
      /\ \A w \in Range(tx') : Own(call', w.call.msgid, w.call.id)
      /\ mode' = "data" => Own(call', dcall'.msgid, dcall'.id)
  BY <1>1, <1>2 DEF FreshInv
<1> QED
  BY <1>6, <1>7, <1>8 DEF FreshInv

LEMMA UnsolicitedFresh == ASSUME TypeInv, FreshInv, Unsolicited PROVE FreshInv'
<1>1. PICK i \in Clients, kind \in UrcKinds :
        rx' = Append(rx, [kind |-> kind, name |-> "QMTSTAT", nums |-> <<i, 1>>, id |-> 0])
  BY DEF Unsolicited
<1> DEFINE y == [kind |-> kind, name |-> "QMTSTAT", nums |-> <<i, 1>>, id |-> 0]
<1>2. ~Result(y) /\ rx' = Append(rx, y)
  BY <1>1 DEF Result, ResultNames
<1> HIDE DEF y
<1>3. Range(rx') = Range(rx) \cup {y}
  BY <1>2, Reported
<1>4. UNCHANGED <<pc, call, status, response, tx, jobs, mode, dcall, acked, usedMsgids>>
  BY DEF Unsolicited
<1>5. \A l \in Range(rx') : Result(l) => Reports(l, usedMsgids', call', acked')
  BY <1>2, <1>3, <1>4 DEF FreshInv
<1>6. CheckedReplyIsOwn'
  BY <1>4 DEF FreshInv, CheckedReplyIsOwn, Returned
<1> QED
  BY <1>4, <1>5, <1>6 DEF FreshInv

LEMMA StepFresh == TypeInv /\ FreshInv /\ [Next]_vars => FreshInv'
<1>1. SUFFICES ASSUME TypeInv, FreshInv, [Next]_vars PROVE FreshInv'
  OBVIOUS
<1>2. CASE UNCHANGED vars
  BY <1>1, <1>2 DEF vars, FreshInv, CheckedReplyIsOwn, Returned
<1> QED
  BY <1>1, <1>2, CallsBegin, BeginFresh, ReadFresh, ModemFresh, JobFresh, UnsolicitedFresh DEF Next

\* A caller of bg95_mqtt_publish_fixed_length, bg95_mqtt_subscribe or
\* bg95_mqtt_unsubscribe that used a new message id and finds it in the response can
\* trust the success, whatever calls were given up, mixed up or published late.
THEOREM CheckedRepliesAreOwn == Spec => []CheckedReplyIsOwn
<1>1. FreshInv => CheckedReplyIsOwn
  BY DEF FreshInv
<1> QED
  BY <1>1, AlwaysTypes, InitFresh, StepFresh, PTL DEF Spec

-------------------------------------------------------------------------------
(* What is on the line as long as calls and modem are in step.                 *)

\* Kinds of lines that answer no call: unsolicited ones and echoes.
NoiseKinds == {"echo"} \cup (IF urcs = 0 THEN {} ELSE UrcKinds)

Noise(s, K) == \A k \in DOMAIN s : s[k].kind \in K
Only(s, K, x) == \E p \in DOMAIN s : s[p] = x /\ \A k \in DOMAIN s \ {p} : s[k].kind \in K

\* Call c was refused, or not understood.
Refusal(s, K, c) == Noise(s, K) \/ Only(s, K, Basic("error", c))

\* It was accepted; a packet may have been sent again since.
Again(c, l) == c.fn \in Packets /\ l = ResultLine(c, Retransmission)
AcceptedAt(s, K, c, p) ==
  /\ s[p] = Basic("ok", c)
  /\ \A k \in DOMAIN s \ {p} : s[k].kind \in K \/ (p < k /\ Again(c, s[k]))
Accepted(s, K, c) == \E p \in DOMAIN s : AcceptedAt(s, K, c, p)

\* It was accepted at line p, and at line f its result is reported.
CompletedAt(s, K, c, r, p, f) ==
  /\ p < f /\ s[p] = Basic("ok", c) /\ s[f] = ResultLine(c, r)
  /\ \A k \in DOMAIN s \ {p, f} : s[k].kind \in K \/ (k < f /\ Again(c, s[k]))
Completed(s, K, c, r) == \E p, f \in DOMAIN s : CompletedAt(s, K, c, r, p, f)

\* It was a query, answered by lines of its name before the OK at p.
ListedAt(s, K, c, p) ==
  /\ s[p] = Basic("ok", c)
  /\ \A k \in DOMAIN s \ {p} : s[k].kind \in K \/ (k < p /\ s[k].kind = "line" /\ s[k].id = c.id)
  /\ Echo => \E k \in DOMAIN s : k < p /\ s[k].kind = "echo"
Listed(s, K, c) == \E p \in DOMAIN s : ListedAt(s, K, c, p)

\* Line k is the first of the command's own.
FirstAt(s, c, k) ==
  /\ s[k].kind = "line" /\ s[k].name = Name(c.fn)
  /\ \A i \in 1..(k - 1) : ~(s[i].kind = "line" /\ s[i].name = Name(c.fn))

\* The first client it is told of is the least with a network connection, and
\* there is one if any has.
FirstTold(s, c) ==
  /\ Told # {} => \E k \in DOMAIN s : FirstAt(s, c, k)
  /\ \A k \in DOMAIN s : FirstAt(s, c, k) =>
       \E i \in Told : s[k].nums = StateNums(c, i) /\ \A j \in Told : i <= j

\* What was written and the modem has not taken up.
Item(part, c) == [part |-> part, call |-> c]
Pending(c) ==
  IF c.fn = "publish" /\ pc = "read"
  THEN mode = "data" /\ dcall = c /\ tx = <<Item("data", c)>>
  ELSE mode = "command" /\ tx = <<Item("cmd", c)>>

Result0 == IF call.id \in acked THEN Success ELSE Failed(call)

IdlePhase == tx = <<>> /\ jobs = {} /\ mode = "command" /\ Noise(rx, NoiseKinds)
PromptPhase ==
  /\ jobs = {} /\ call.id \notin acked
  /\ \/ Pending(call) /\ Noise(rx, NoiseKinds)
     \/ tx = <<>> /\ mode = "data" /\ dcall = call /\ Only(rx, NoiseKinds, Basic("prompt", call))
     \/ tx = <<>> /\ mode = "command" /\ Refusal(rx, NoiseKinds, call)
QueryPhase ==
  /\ jobs = {} /\ mode = "command"
  /\ \/ Pending(call) /\ Noise(rx, NoiseKinds)
     \/ tx = <<>> /\ Refusal(rx, NoiseKinds, call)
     \/ tx = <<>> /\ Listed(rx, NoiseKinds, call) /\ (urcs = 0 => FirstTold(rx, call))
WritePhase ==
  \/ Pending(call) /\ jobs = {} /\ Noise(rx, NoiseKinds) /\ call.id \notin acked
  \/ /\ tx = <<>> /\ mode = "command" /\ jobs = {} /\ Refusal(rx, NoiseKinds, call)
     /\ call.id \notin acked
  \/ /\ tx = <<>> /\ mode = "command" /\ Accepted(rx, NoiseKinds, call) /\ call.id \notin acked
     /\ \E a \in BOOLEAN : jobs = {[call |-> call, again |-> a]}
  \/ tx = <<>> /\ mode = "command" /\ jobs = {} /\ Completed(rx, NoiseKinds, call, Result0)

Phases ==
  /\ pc = "idle" => IdlePhase
  /\ pc = "prompt" => PromptPhase
  /\ pc = "read" /\ call.fn \in Queries => QueryPhase
  /\ pc = "read" /\ call.fn \in Writes => WritePhase

\* What the caller can rely on.
Verdicts ==
  /\ ReplyIsOwn
  /\ "urcok" \notin UrcKinds => ResultsExact
  /\ Echo \/ ~Reuse => StateIsTold
  /\ NotFoundIsShadowed

StepInv ==
  /\ pc # "idle" /\ (call.fn \in Writes \/ ~Reuse) => response = NoResponse
  /\ InStep => Phases
  /\ Verdicts

-------------------------------------------------------------------------------
(* What one more line, or lines read, make of that.                            *)

\* t is s with x at its end.
Longer(t, s, x) ==
  /\ Len(s) \in Nat /\ DOMAIN s = 1..Len(s) /\ DOMAIN t = 1..(Len(s) + 1)
  /\ \A k \in 1..Len(s) : t[k] = s[k]
  /\ t[Len(s) + 1] = x

LEMMA LongerIs ==
  ASSUME NEW S, NEW s, s \in Seq(S), NEW x, NEW t, t = Append(s, x)
  PROVE  Longer(t, s, x)
<1>1. /\ Append(s, x) \in Seq(S \cup {x})
      /\ Len(s) \in Nat /\ Len(Append(s, x)) = Len(s) + 1
      /\ \A k \in 1..Len(s) : Append(s, x)[k] = s[k]
      /\ Append(s, x)[Len(s) + 1] = x
  BY Appended
<1>2. DOMAIN s = 1..Len(s) /\ DOMAIN t = 1..(Len(s) + 1)
  BY <1>1
<1> QED
  BY <1>1, <1>2 DEF Longer

\* More noise changes nothing.
LEMMA NoiseLonger ==
  ASSUME NEW s, NEW t, NEW x, Longer(t, s, x), NEW K, NEW L, K \subseteq L, x.kind \in L,
         NEW c, NEW r
  PROVE  /\ Noise(s, K) => Noise(t, L)
         /\ \A y : Only(s, K, y) => Only(t, L, y)
         /\ Refusal(s, K, c) => Refusal(t, L, c)
         /\ Accepted(s, K, c) => Accepted(t, L, c)
         /\ Completed(s, K, c, r) => Completed(t, L, c, r)
         /\ Listed(s, K, c) => Listed(t, L, c)
<1> DEFINE n == Len(s)
<1>1. /\ n \in Nat /\ DOMAIN s = 1..n /\ DOMAIN t = 1..(n + 1)
      /\ \A k \in 1..n : t[k] = s[k]
      /\ t[n + 1] = x
  BY DEF Longer
<1> HIDE DEF n
<1>2. /\ \A k \in DOMAIN s : k \in DOMAIN t /\ t[k] = s[k]
      /\ \A k \in DOMAIN t : k \in DOMAIN s \/ t[k].kind \in L
  BY <1>1
<1>3. Noise(s, K) => Noise(t, L)
  BY <1>2 DEF Noise
<1>4. ASSUME NEW y, Only(s, K, y) PROVE Only(t, L, y)
  BY <1>2, <1>4 DEF Only
<1>5. Refusal(s, K, c) => Refusal(t, L, c)
  BY <1>3, <1>4 DEF Refusal
<1>6. Accepted(s, K, c) => Accepted(t, L, c)
  <2>1. ASSUME NEW p \in DOMAIN s, AcceptedAt(s, K, c, p) PROVE AcceptedAt(t, L, c, p)
    BY <1>2, <2>1 DEF AcceptedAt
  <2> QED
    BY <1>2, <2>1 DEF Accepted
<1>7. Completed(s, K, c, r) => Completed(t, L, c, r)
  <2>1. ASSUME NEW p \in DOMAIN s, NEW f \in DOMAIN s, CompletedAt(s, K, c, r, p, f)
        PROVE  CompletedAt(t, L, c, r, p, f)
    BY <1>2, <2>1 DEF CompletedAt
  <2> QED
    BY <1>2, <2>1 DEF Completed
<1>8. Listed(s, K, c) => Listed(t, L, c)
  <2>1. ASSUME NEW p \in DOMAIN s, ListedAt(s, K, c, p) PROVE ListedAt(t, L, c, p)
    BY <1>2, <2>1 DEF ListedAt
  <2> QED
    BY <1>2, <2>1 DEF Listed
<1> QED
  BY <1>3, <1>4, <1>5, <1>6, <1>7, <1>8

\* A call that was noise up to the answer.
LEMMA AnswerLonger ==
  ASSUME NEW s, NEW t, NEW x, Longer(t, s, x), NEW K, NEW c
  PROVE  /\ Noise(s, K) => Only(t, K, x)
         /\ Noise(s, K) /\ x = Basic("ok", c) => Accepted(t, K, c)
         /\ Accepted(s, K, c) /\ Again(c, x) => Accepted(t, K, c)
         /\ \A r : Accepted(s, K, c) /\ x = ResultLine(c, r) => Completed(t, K, c, r)
<1> DEFINE n == Len(s)
<1>1. /\ n \in Nat /\ DOMAIN s = 1..n /\ DOMAIN t = 1..(n + 1)
      /\ \A k \in 1..n : t[k] = s[k]
      /\ t[n + 1] = x
  BY DEF Longer
<1> HIDE DEF n
<1>2. /\ n + 1 \in DOMAIN t /\ n + 1 \notin DOMAIN s
      /\ \A k \in DOMAIN s : k \in DOMAIN t /\ t[k] = s[k] /\ k < n + 1
      /\ \A k \in DOMAIN t : k \in DOMAIN s \/ k = n + 1
  BY <1>1
<1>3. Noise(s, K) => Only(t, K, x)
  BY <1>1, <1>2 DEF Noise, Only
<1>4. Noise(s, K) /\ x = Basic("ok", c) => Accepted(t, K, c)
  <2>1. SUFFICES ASSUME Noise(s, K), x = Basic("ok", c) PROVE AcceptedAt(t, K, c, n + 1)
    BY <1>2 DEF Accepted
  <2> QED
    BY <1>1, <1>2, <2>1 DEF Noise, AcceptedAt
<1>5. ASSUME NEW p \in DOMAIN s, AcceptedAt(s, K, c, p), Again(c, x)
      PROVE  AcceptedAt(t, K, c, p)
  BY <1>1, <1>2, <1>5 DEF AcceptedAt
<1>6. ASSUME NEW p \in DOMAIN s, AcceptedAt(s, K, c, p), NEW r, x = ResultLine(c, r)
      PROVE  CompletedAt(t, K, c, r, p, n + 1)
  BY <1>1, <1>2, <1>6 DEF AcceptedAt, CompletedAt
<1> QED
  BY <1>2, <1>3, <1>4, <1>5, <1>6 DEF Accepted, Completed

\* What is left when lines are read.
LEMMA NoiseLeft ==
  ASSUME NEW S, NEW s \in Seq(S), NEW n \in 0..Len(s), NEW K,
         \A k \in DOMAIN s : n < k => s[k].kind \in K
  PROVE  Noise(Rest(s, n), K)
<1> DEFINE t == Rest(s, n)
           m == Len(s)
<1>1. t \in Seq(S) /\ Len(t) = m - n /\ \A k \in 1..(m - n) : t[k] = s[n + k]
  BY Remaining
<1>2. m \in Nat /\ DOMAIN s = 1..m /\ n \in 0..m
  OBVIOUS
<1> HIDE DEF t, m
<1>3. DOMAIN t = 1..(m - n) /\ \A k \in 1..(m - n) : n + k \in 1..m /\ n < n + k
  BY <1>1, <1>2
<1>4. Noise(t, K)
  BY <1>1, <1>2, <1>3 DEF Noise
<1> QED
  BY <1>4 DEF t

\* u is s and then t, line by line.
Concat(u, s, t) ==
  /\ Len(s) \in Nat /\ DOMAIN s = 1..Len(s) /\ Len(t) \in Nat /\ DOMAIN t = 1..Len(t)
  /\ DOMAIN u = 1..(Len(s) + Len(t))
  /\ \A k \in 1..Len(s) : u[k] = s[k]
  /\ \A k \in 1..Len(t) : u[Len(s) + k] = t[k]

LEMMA JoinIs ==
  ASSUME NEW S, NEW s, NEW T, NEW t, NEW u, s \in Seq(S), t \in Seq(T), IsJoin(u, s, t)
  PROVE  Concat(u, s, t)
<1> DEFINE m == Len(s)
           n == Len(t)
<1>1. /\ u \in Seq(S \cup T) /\ m \in Nat /\ n \in Nat /\ Len(u) = m + n
      /\ \A k \in 1..m : u[k] = s[k]
      /\ \A k \in 1..n : u[m + k] = t[k]
  BY Joined DEF IsJoin
<1>2. DOMAIN s = 1..m /\ DOMAIN t = 1..n /\ DOMAIN u = 1..(m + n)
  BY <1>1
<1> QED
  BY <1>1, <1>2 DEF Concat

\* u is noise, up to the echo of a command if it is echoed, and then t.
Ends(u, K, t, m) ==
  /\ m \in Nat /\ Len(t) \in Nat /\ DOMAIN u = 1..(m + Len(t))
  /\ \A k \in 1..m : u[k].kind \in K
  /\ Echo => m \in 1..m /\ u[m].kind = "echo"
  /\ \A k \in 1..Len(t) : u[m + k] = t[k]

LEMMA AnswerEnds ==
  ASSUME NEW S, NEW s, s \in Seq(S), NEW K, "echo" \in K, Noise(s, K),
         NEW c, NEW T, NEW t, t \in Seq(T), NEW u, u = s \o Answer(c, t)
  PROVE  \E m : Ends(u, K, t, m)
<1> DEFINE e == Basic("echo", c)
           a == Answer(c, t)
<1>1. CASE Echo
  <2>1. e.kind = "echo"
    BY BasicIs
  <2> HIDE DEF e
  <2>2. <<e>> \in Seq({e}) /\ Len(<<e>>) = 1 /\ <<e>>[1] = e
    BY Single
  <2> DEFINE b == <<e>>
  <2>3. IsJoin(a, b, t) /\ b \in Seq({e}) /\ a \in Seq({e} \cup T)
    <3>1. a = <<e>> \o t
      BY <1>1 DEF Answer, e
    <3> QED
      BY <2>2, <3>1 DEF IsJoin
  <2>4. Len(b) = 1 /\ b[1] = e
    BY <2>2
  <2> HIDE DEF a, b
  <2>5. Concat(a, b, t)
    BY <2>3, JoinIs
  <2>6. Concat(u, s, a)
    <3>1. IsJoin(u, s, a)
      BY DEF IsJoin, a
    <3> QED
      BY <2>3, <3>1, JoinIs
  <2> DEFINE i == Len(s)
             n == Len(t)
  <2>7. /\ i \in Nat /\ n \in Nat /\ DOMAIN s = 1..i /\ DOMAIN a = 1..(1 + n)
        /\ a[1] = e /\ \A k \in 1..n : a[1 + k] = t[k]
    BY <2>4, <2>5, <2>6 DEF Concat
  <2>8. Len(a) = 1 + n
    <3>1. Len(a) \in Nat /\ DOMAIN a = 1..Len(a)
      BY <2>6 DEF Concat
    <3>2. 1..Len(a) = 1..(1 + n) => Len(a) = 1 + n
      <4> HIDE DEF n
      <4> QED
        BY <2>7, <3>1
    <3> QED
      BY <2>7, <3>1, <3>2
  <2>9. /\ DOMAIN u = 1..(i + (1 + n)) /\ \A k \in 1..i : u[k] = s[k]
        /\ \A k \in 1..(1 + n) : u[i + k] = a[k]
    BY <2>6, <2>8 DEF Concat
  <2> HIDE DEF i, n
  <2>10. DOMAIN u = 1..((i + 1) + n) /\ i + 1 \in Nat /\ i + 1 \in 1..(i + 1)
    BY <2>7, <2>9
  <2>11. u[i + 1] = e
    <3>1. 1 \in 1..(1 + n)
      BY <2>7
    <3> QED
      BY <2>7, <2>9, <3>1
  <2>12. \A k \in 1..(i + 1) : u[k].kind \in K
    <3>1. \A k \in 1..(i + 1) : k \in 1..i \/ k = i + 1
      BY <2>7
    <3> QED
      BY <2>1, <2>7, <2>9, <2>11, <3>1 DEF Noise
  <2>13. \A k \in 1..n : u[(i + 1) + k] = t[k]
    <3>1. \A k \in 1..n : 1 + k \in 1..(1 + n) /\ (i + 1) + k = i + (1 + k)
      BY <2>7
    <3> QED
      BY <2>7, <2>9, <3>1
  <2>14. Ends(u, K, t, i + 1)
    BY <2>1, <2>7, <2>10, <2>11, <2>12, <2>13 DEF Ends, n
  <2> QED
    BY <2>14
<1>2. CASE ~Echo
  <2>1. a = t
    BY <1>2, ConcatEmptySeq DEF Answer
  <2>2. IsJoin(u, s, t)
    BY <2>1 DEF IsJoin
  <2>3. Concat(u, s, t)
    BY <2>2, JoinIs
  <2>4. Ends(u, K, t, Len(s))
    BY <1>2, <2>3 DEF Concat, Ends, Noise
  <2> QED
    BY <2>4
<1> QED
  BY <1>1, <1>2

\* An answer of one line.
LEMMA EndsOnly ==
  ASSUME NEW u, NEW K, NEW x, NEW m, Ends(u, K, <<x>>, m)
  PROVE  Only(u, K, x)
<1> DEFINE t == <<x>>
<1>1. Len(t) = 1 /\ t[1] = x
  BY Single
<1>2. Ends(u, K, t, m)
  OBVIOUS
<1> HIDE DEF t
<1>3. /\ m \in Nat /\ DOMAIN u = 1..(m + 1) /\ u[m + 1] = x
      /\ \A k \in 1..m : u[k].kind \in K
  BY <1>1, <1>2 DEF Ends
<1>4. m + 1 \in 1..(m + 1) /\ \A k \in 1..(m + 1) : k \in 1..m \/ k = m + 1
  BY <1>3
<1> QED
  BY <1>3, <1>4 DEF Only

LEMMA OnlyOk ==
  ASSUME NEW u, NEW K, NEW c, Only(u, K, Basic("ok", c))
  PROVE  Accepted(u, K, c)
BY DEF Only, Accepted, AcceptedAt

\* The client told of first is the least.
LEMMA LeastTold ==
  ASSUME Told # {}
  PROVE  Nth(1) \in Told /\ (\A j \in Told : Nth(1) <= j) /\ Cardinality(Told) >= 1
<1> DEFINE Below(i) == {j \in Told : j < i}
<1>1. Told \subseteq Nat /\ IsFiniteSet(Told)
  BY ClientsFinite DEF Told
<1>2. PICK a \in Told : \A j \in Told : a <= j
  BY <1>1, NatMin
<1>3. Below(a) = {}
  <2>1. \A j \in Told : ~(j < a)
    <3>1. SUFFICES ASSUME NEW j \in Told PROVE ~(j < a)
      OBVIOUS
    <3>2. j \in Nat /\ a \in Nat /\ a <= j
      BY <1>1, <1>2
    <3> QED
      BY <3>2
  <2> QED
    BY <2>1
<1>4. Cardinality({}) = 0
  BY FS_EmptySet
<1>5. \E i \in Told : Cardinality(Below(i)) = 1 - 1
  BY <1>2, <1>3, <1>4
<1>6. Nth(1) \in Told /\ Cardinality(Below(Nth(1))) = 1 - 1
  BY <1>5 DEF Nth
<1> DEFINE b == Nth(1)
<1>7. IsFiniteSet(Below(b)) /\ Cardinality(Below(b)) = 0
  BY <1>1, <1>6, FS_Subset
<1>8. Below(b) = {}
  BY <1>7, FS_EmptySet
<1> HIDE DEF b
<1>9. \A j \in Told : b <= j
  <2>1. SUFFICES ASSUME NEW j \in Told PROVE b <= j
    OBVIOUS
  <2>2. j \in Nat /\ b \in Nat
    BY <1>1, <1>6 DEF b
  <2>3. ~(j < b)
    BY <1>8
  <2> QED
    BY <2>2, <2>3
<1>10. Cardinality(Told) >= 1
  <2>1. Cardinality(Told) \in Nat /\ Cardinality(Told) # 0
    BY <1>1, <1>2, FS_EmptySet, FS_CardinalityType
  <2> QED
    BY <2>1
<1> QED
  BY <1>6, <1>9, <1>10 DEF b

LEMMA EndsListed ==
  ASSUME NEW c, NEW K, K \subseteq Urcs \cup {"echo"}, NEW u, NEW m,
         Ends(u, K, StateLines(c) \o <<Basic("ok", c)>>, m)
  PROVE  Listed(u, K, c) /\ FirstTold(u, c)
<1> DEFINE s == StateLines(c)
           y == Basic("ok", c)
           end == <<y>>
           t == s \o end
           n == Cardinality(Told)
<1>1. PICK S : s \in Seq(S)
  BY States
<1>2. n \in Nat /\ Len(s) = n /\ \A k \in 1..n : s[k] = Line("line", c, StateNums(c, Nth(k)))
  BY States
<1>3. \A l \in Range(s) : l.kind = "line" /\ l.name = Name(c.fn) /\ l.id = c.id
  BY StatesAre
<1>4. \A k \in 1..n : s[k] \in Range(s)
  BY <1>1, <1>2 DEF Range
<1>5. 1 \in 1..n => s[1].nums = StateNums(c, Nth(1))
  <2> DEFINE nums == StateNums(c, Nth(1))
             name == Name(c.fn)
  <2>1. \A nm, x : [kind |-> "line", name |-> nm, nums |-> x, id |-> c.id].nums = x
    OBVIOUS
  <2>2. 1 \in 1..n => s[1] = [kind |-> "line", name |-> name, nums |-> nums, id |-> c.id]
    BY <1>2 DEF Line
  <2> HIDE DEF nums, name, s, n
  <2> QED
    BY <2>1, <2>2 DEF nums
<1>6. y.kind = "ok"
  BY BasicIs
<1> HIDE DEF s, y
<1>7. end \in Seq({y}) /\ Len(end) = 1 /\ end[1] = y
  BY Single
<1> HIDE DEF end
<1>8. Concat(t, s, end)
  <2>1. IsJoin(t, s, end)
    BY DEF IsJoin
  <2> HIDE DEF t
  <2> QED
    BY <1>1, <1>7, <2>1, JoinIs
<1>9. Ends(u, K, t, m)
  BY DEF s, y, end
<1> HIDE DEF t, n
<1>10. DOMAIN t = 1..(n + 1) /\ (\A k \in 1..n : t[k] = s[k]) /\ t[n + 1] = y
  <2>1. t[n + 1] = y
    BY <1>2, <1>7, <1>8 DEF Concat
  <2> QED
    BY <1>2, <1>7, <1>8, <2>1 DEF Concat
<1>11. Len(t) = n + 1
  <2>1. \E T : t \in Seq(T)
    <3>1. t \in Seq(S \cup {y})
      BY <1>1, <1>7 DEF t
    <3> QED
      BY <3>1
  <2>2. Len(t) \in Nat /\ DOMAIN t = 1..Len(t)
    BY <2>1
  <2> QED
    BY <1>2, <1>10, <2>2
<1>12. /\ m \in Nat /\ DOMAIN u = 1..(m + (n + 1)) /\ \A k \in 1..m : u[k].kind \in K
       /\ Echo => m \in 1..m /\ u[m].kind = "echo"
       /\ \A k \in 1..(n + 1) : u[m + k] = t[k]
  BY <1>9, <1>11 DEF Ends
<1> DEFINE p == m + (n + 1)
<1>13. /\ p \in DOMAIN u /\ u[p] = y
       /\ \A k \in DOMAIN u : k \in 1..m \/ k = p \/ \E i \in 1..n : k = m + i
  <2>1. n + 1 \in 1..(n + 1) /\ p \in 1..p
    BY <1>2, <1>12
  <2>2. \A k \in 1..p : k \in 1..m \/ k = p \/ (k - m \in 1..n /\ k = m + (k - m))
    BY <1>2, <1>12
  <2> QED
    BY <1>10, <1>12, <2>1, <2>2
<1>14. \A i \in 1..n : /\ u[m + i] = s[i] /\ m + i < p /\ m + i \in DOMAIN u
                       /\ u[m + i].kind = "line" /\ u[m + i].name = Name(c.fn)
                       /\ u[m + i].id = c.id
  <2>1. SUFFICES ASSUME NEW i \in 1..n
                 PROVE  u[m + i] = s[i] /\ m + i < p /\ m + i \in DOMAIN u
    BY <1>3, <1>4
  <2>2. i \in 1..(n + 1) /\ m + i < p /\ m + i \in 1..p
    BY <1>2, <1>12
  <2> QED
    BY <1>10, <1>12, <2>1, <2>2
<1>15. ListedAt(u, K, c, p)
  <2>1. Echo => m \in DOMAIN u /\ m < p
    BY <1>2, <1>12
  <2>2. u[p] = Basic("ok", c)
    BY <1>13 DEF y
  <2>3. \A k \in DOMAIN u \ {p} :
          u[k].kind \in K \/ (k < p /\ u[k].kind = "line" /\ u[k].id = c.id)
    BY <1>12, <1>13, <1>14
  <2> QED
    BY <1>12, <2>1, <2>2, <2>3 DEF ListedAt
<1> HIDE DEF p
<1>16. "line" \notin K /\ u[p].kind # "line"
  BY <1>6, <1>13 DEF Urcs
<1>17. 1 \in 1..n => FirstAt(u, c, m + 1)
  <2>1. (m + 1) - 1 = m
    BY <1>12
  <2> QED
    BY <1>12, <1>14, <1>16, <2>1 DEF FirstAt
<1>18. ASSUME NEW k \in DOMAIN u, FirstAt(u, c, k)
       PROVE  k = m + 1 /\ 1 \in 1..n
  <2>1. PICK i \in 1..n : k = m + i
    BY <1>12, <1>13, <1>16, <1>18 DEF FirstAt
  <2>2. 1 \in 1..n
    BY <1>2, <2>1
  <2>3. i # 1 => m + 1 \in 1..(k - 1)
    BY <1>2, <1>12, <2>1
  <2> QED
    BY <1>14, <1>18, <2>1, <2>2, <2>3 DEF FirstAt
<1>19. FirstTold(u, c)
  <2>1. Told # {} => 1 \in 1..n
    BY <1>2, LeastTold DEF n
  <2>2. 1 \in 1..n => Told # {}
    BY FS_EmptySet DEF n
  <2>3. Told # {} => \E k \in DOMAIN u : FirstAt(u, c, k)
    BY <1>14, <1>17, <2>1
  <2>4. ASSUME NEW k \in DOMAIN u, FirstAt(u, c, k)
        PROVE  \E i \in Told : u[k].nums = StateNums(c, i) /\ \A j \in Told : i <= j
    <3>1. Told # {} /\ u[k] = s[1] /\ s[1].nums = StateNums(c, Nth(1))
      BY <1>5, <1>14, <1>18, <2>2, <2>4
    <3>2. Nth(1) \in Told /\ \A j \in Told : Nth(1) <= j
      BY <3>1, LeastTold
    <3> QED
      BY <3>1, <3>2
  <2> QED
    BY <2>3, <2>4 DEF FirstTold
<1> QED
  BY <1>13, <1>15, <1>19 DEF Listed

-------------------------------------------------------------------------------
(* What a call that completes makes of it.                                     *)

\* lines are the first n of s.
Prefix(lines, s, n) ==
  /\ n \in 0..Len(s) /\ Len(s) \in Nat /\ DOMAIN s = 1..Len(s)
  /\ Len(lines) = n /\ DOMAIN lines = 1..n /\ \A k \in 1..n : lines[k] = s[k] /\ k \in DOMAIN s

LEMMA PrefixIs ==
  ASSUME NEW S, NEW s \in Seq(S), NEW n \in 0..Len(s), NEW lines, lines = SubSeq(s, 1, n)
  PROVE  Prefix(lines, s, n)
<1>1. /\ SubSeq(s, 1, n) \in Seq(S) /\ Len(SubSeq(s, 1, n)) = n
      /\ DOMAIN SubSeq(s, 1, n) = 1..n
      /\ \A k \in 1..n : SubSeq(s, 1, n)[k] = s[k]
  BY Read
<1>2. Len(s) \in Nat /\ DOMAIN s = 1..Len(s) /\ n \in Nat /\ n <= Len(s)
  OBVIOUS
<1> QED
  BY <1>1, <1>2 DEF Prefix

\* lines are what a call has read that took n.
IsRead(lines, s, n) == lines = SubSeq(s, 1, n)

NoiseOnly(K) == K \subseteq Urcs \cup {"echo"}

\* Noise does not complete a response.
LEMMA NoiseCompletesNothing ==
  ASSUME NEW s, NEW lines, NEW n, Prefix(lines, s, n), NEW K, NoiseOnly(K),
         \A k \in 1..n : s[k].kind \in K, NEW name, NEW rtype
  PROVE  ~HasCommandTerminated(lines, name, rtype)
BY DEF HasCommandTerminated, HasKind, Prefix, NoiseOnly, Urcs

\* No line of the command's own among lines without any.
LEMMA NoOwn ==
  ASSUME NEW lines, \A k \in DOMAIN lines : lines[k].kind # "line", NEW name
  PROVE  DOMAIN OwnLines(lines, name) = {}
BY DEF OwnLines, Restrict

\* A call that was refused.
Refused(c, K, given, j, rest) ==
  /\ Noise(rest, K)
  /\ j.response \in {given, NoResponse}
  /\ "urcok" \notin K => j.err = "ESP_FAIL"
  /\ c.fn \in Queries => j.err # "ESP_OK"

LEMMA RefusalJudged ==
  ASSUME NEW c, c \in Calls, NEW S, NEW s \in Seq(S), NEW K, NoiseOnly(K), Refusal(s, K, c),
         NEW n \in 0..Len(s), NEW lines, lines = SubSeq(s, 1, n), NEW name, NEW rtype,
         HasCommandTerminated(lines, name, rtype),
         NEW given, NEW j, j = Judge(c, lines, given)
  PROVE  Refused(c, K, given, j, Rest(s, n))
<1> DEFINE x == Basic("error", c)
<1>1. x.kind = "error"
  BY BasicIs
<1>2. Prefix(lines, s, n) /\ lines \in Seq(S)
  BY PrefixIs, Read
<1> HIDE DEF x
<1>3. ~Noise(s, K)
  BY <1>2, NoiseCompletesNothing DEF Noise, Prefix
<1>4. PICK p \in DOMAIN s : s[p] = x /\ \A k \in DOMAIN s \ {p} : s[k].kind \in K
  BY <1>3 DEF Refusal, Only, x
<1>5. p \in 1..n
  <2>1. SUFFICES ASSUME p \notin 1..n PROVE FALSE
    OBVIOUS
  <2>2. \A k \in 1..n : s[k].kind \in K
    BY <1>2, <1>4, <2>1 DEF Prefix
  <2> QED
    BY <1>2, <2>2, NoiseCompletesNothing
<1>6. Noise(Rest(s, n), K)
  <2>1. \A k \in DOMAIN s : n < k => k # p
    BY <1>5
  <2>2. \A k \in DOMAIN s : n < k => s[k].kind \in K
    BY <1>4, <2>1
  <2> QED
    BY <2>2, NoiseLeft
<1>7. \A k \in DOMAIN lines : lines[k].kind = "error" \/ lines[k].kind \in K
  BY <1>1, <1>2, <1>4 DEF Prefix
<1>8. CASE ~BasicResponseIsOk(lines)
  <2>1. j.err = "ESP_FAIL" /\ j.response = given
    BY <1>8, JudgeFail
  <2> QED
    BY <1>6, <2>1 DEF Refused
<1>9. CASE BasicResponseIsOk(lines)
  <2>1. PICK i \in DOMAIN lines : lines[i].kind = "urcok"
    BY <1>7, <1>9 DEF BasicResponseIsOk, WithOk, NoiseOnly, Urcs
  <2>2. "urcok" \in K /\ HasDataResponse(lines)
    BY <1>7, <2>1 DEF HasDataResponse, Urcs
  <2> DEFINE own == OwnLines(lines, Name(c.fn))
  <2>3. DOMAIN own = {}
    BY <1>7, NoOwn DEF NoiseOnly, Urcs
  <2>4. own = OwnLines(lines, Name(c.fn))
    OBVIOUS
  <2> HIDE DEF own
  <2>5. j.response = NoResponse /\ j.err = CallErr(c, NoResponse)
    <3>1. FromOwn(c, own, j)
      BY <1>2, <1>9, <2>2, <2>4, Judged
    <3> QED
      BY <2>3, <3>1 DEF FromOwn
  <2>6. c.fn \in Queries => j.err # "ESP_OK"
    <3>1. NoResponse.idx = Absent
      BY DEF NoResponse
    <3>2. c.idx # Absent
      BY MqttAssumption DEF Calls, Absent
    <3>3. c.fn \in Queries => j.err = "ESP_ERR_NOT_FOUND"
      BY <2>5, <3>1, <3>2 DEF CallErr, StatusErr
    <3> QED
      BY <3>3
  <2> QED
    BY <1>6, <2>2, <2>5, <2>6 DEF Refused
<1> QED
  BY <1>8, <1>9

\* What is made of the line of a result.
IsReply(p, r) ==
  /\ p # TooFew /\ p.response.value = r
  /\ ResultErr(p.response) = "ESP_OK" <=> r = Success

LEMMA Replies ==
  ASSUME NEW c, c \in Calls, c.fn \in Writes, NEW r, r \in {Success, Failed(c), Retransmission},
         r = Retransmission => c.fn \in Packets,
         NEW own, DOMAIN own # {}, First(own) = ResultLine(c, r), NEW p, p = ParserOf(c.fn, own)
  PROVE  IsReply(p, r)
<1> DEFINE l == First(own)
           packet == c.fn \in {"publish", "subscribe", "unsubscribe"}
           two == <<c.idx, r>>
           three == <<c.idx, c.msgid, r>>
<1>1. /\ c.fn \in {"open", "close", "disconnect"} => p = ClientResult(l)
      /\ c.fn = "connect" => p = QmtconnWriteParser(l)
      /\ c.fn = "publish" => p = PacketResult(l, 0..MsgidMax)
      /\ c.fn \in {"subscribe", "unsubscribe"} => p = PacketResult(l, 1..MsgidMax)
  BY ParserFirst
<1>2. packet => l.nums = three
  BY ResultLineIs
<1>3. ~packet => l.nums = two
  BY ResultLineIs
<1>4. Len(two) = 2 /\ two[2] = r /\ Len(three) = 3 /\ three[3] = r
  OBVIOUS
<1>5. c.fn \notin {"open", "close"} => r \in 0..2
  BY DEF Success, Failed, Retransmission
<1>6. c.fn \in {"open", "close"} => r \in {0, -1}
  BY DEF Success, Failed, Retransmission, Packets
<1> HIDE DEF l, two, three
<1>7. ASSUME NEW idx, NEW msgid, NEW value, value = r, p = Parsed(idx, msgid, value, l.id)
      PROVE  IsReply(p, r)
  <2>1. p.err = "ESP_OK" /\ p.response.value = r
    BY <1>7, ParsedIs
  <2>2. p # TooFew
    BY <2>1 DEF TooFew
  <2>3. r # Absent
    BY <1>5, <1>6 DEF Absent
  <2>4. ResultErr(p.response) = "ESP_OK" <=> r = Success
    BY <2>1, <2>3 DEF ResultErr
  <2> QED
    BY <2>1, <2>2, <2>4 DEF IsReply
<1>8. c.fn \notin {"open", "close"} => Checked(r, PacketResults) = r
  BY <1>5 DEF Checked, PacketResults
<1>9. CASE c.fn \in {"open", "close", "disconnect"}
  <2>1. ~(Len(l.nums) < 2) /\ l.nums[2] = r
    <3>1. l.nums = two
      BY <1>3, <1>9
    <3>2. Len(l.nums) = 2 /\ l.nums[2] = r
      BY <1>4, <3>1, Zenon
    <3> QED BY <3>2
  <2>2. p = Parsed(Checked(l.nums[1], ClientIdx), Absent, l.nums[2], l.id)
    BY <1>1, <1>9, <2>1, Zenon DEF ClientResult
  <2> QED
    BY <1>7, <2>1, <2>2
<1>10. CASE c.fn = "connect"
  <2>1. ~(Len(l.nums) < 2) /\ l.nums[2] = r
    <3>1. l.nums = two
      BY <1>3, <1>10
    <3>2. Len(l.nums) = 2 /\ l.nums[2] = r
      BY <1>4, <3>1, Zenon
    <3> QED BY <3>2
  <2>2. p = Parsed(Checked(l.nums[1], ClientIdx), Absent, Checked(l.nums[2], PacketResults), l.id)
    BY <1>1, <1>10, <2>1, Zenon DEF QmtconnWriteParser
  <2>3. Checked(l.nums[2], PacketResults) = r
    BY <1>8, <1>10, <2>1
  <2> QED
    BY <1>7, <2>2, <2>3
<1>11. CASE packet
  <2>1. ~(Len(l.nums) < 3) /\ l.nums[3] = r
    <3>1. l.nums = three
      BY <1>2, <1>11
    <3>2. Len(l.nums) = 3 /\ l.nums[3] = r
      BY <1>4, <3>1, Zenon
    <3> QED BY <3>2
  <2>2. PICK R : p = PacketResult(l, R)
    BY <1>1, <1>11, Zenon
  <2>3. p = Parsed(Checked(l.nums[1], ClientIdx), Checked(l.nums[2], R),
                   Checked(l.nums[3], PacketResults), l.id)
    BY <2>1, <2>2, Zenon DEF PacketResult
  <2>4. Checked(l.nums[3], PacketResults) = r
    BY <1>8, <1>11, <2>1
  <2> QED
    BY <1>7, <2>3, <2>4
<1> QED
  BY <1>9, <1>10, <1>11 DEF Writes

\* A write call that completes has a line of its own: it was the news of a packet
\* sent again, or the result.
WriteJudged(c, j, r) ==
  /\ j.response.id = c.id /\ j.response.value = r /\ (j.err = "ESP_OK" <=> r = Success)

LEMMA OwnResultJudged ==
  ASSUME NEW c, c \in Calls, c.fn \in Writes, NEW S, NEW lines, lines \in Seq(S),
         BasicResponseIsOk(lines), HasOwnLine(lines, Name(c.fn)),
         \A k \in DOMAIN lines : lines[k].kind # "head",
         NEW r, r \in {Success, Failed(c)},
         \A k \in DOMAIN lines : lines[k].kind = "line" =>
           lines[k] = ResultLine(c, r) \/ Again(c, lines[k]),
         NEW given, NEW j, j = Judge(c, lines, given)
  PROVE  \/ c.fn \in Packets /\ WriteJudged(c, j, Retransmission)
         \/ WriteJudged(c, j, r) /\ \E k \in DOMAIN lines : lines[k] = ResultLine(c, r)
<1> DEFINE name == Name(c.fn)
           own == OwnLines(lines, name)
           p == ParserOf(c.fn, own)
<1>1. /\ own = OwnLines(lines, Name(c.fn)) /\ p = ParserOf(c.fn, own)
      /\ Len(lines) \in Nat /\ DOMAIN lines = 1..Len(lines)
  OBVIOUS
<1>2. DOMAIN own # {} /\ HasDataResponse(lines)
  <2>1. PICK k \in DOMAIN lines : lines[k].kind = "line" /\ lines[k].name = name
    BY DEF HasOwnLine
  <2>2. k \in DOMAIN own
    BY <2>1 DEF OwnLines, Restrict
  <2>3. HasDataResponse(lines)
    BY <2>1 DEF HasDataResponse
  <2> QED
    BY <2>2, <2>3
<1> HIDE DEF own, p
<1>3. PICK k \in 1..Len(lines) : First(own) = lines[k] /\ lines[k].kind = "line"
  BY <1>1, <1>2, FirstOwn
<1>4. FromOwn(c, own, j)
  BY <1>1, <1>2, Judged
<1>5. PICK q \in {r, Retransmission} :
        /\ First(own) = ResultLine(c, q) /\ (q = Retransmission => c.fn \in Packets)
        /\ q = r => lines[k] = ResultLine(c, r)
  <2>1. r # Retransmission
    BY DEF Success, Failed, Retransmission
  <2> QED
    BY <1>1, <1>3, <2>1 DEF Again
<1>6. IsReply(p, q)
  BY <1>1, <1>2, <1>5, Replies
<1>7. c.fn \notin Queries
  BY DEF Writes, Queries
<1>8. First(own).id = c.id
  BY <1>5, ResultLineIs
<1>9. WriteJudged(c, j, q)
  <2>1. p # TooFew /\ p.response.value = q /\ (ResultErr(p.response) = "ESP_OK" <=> q = Success)
    BY <1>6 DEF IsReply
  <2>2. p.response.id = First(own).id /\ j.response = p.response /\ j.err = CallErr(c, p.response)
    BY <1>1, <1>2, <1>4, <2>1 DEF FromOwn
  <2> QED
    BY <1>7, <1>8, <2>1, <2>2 DEF WriteJudged, CallErr
<1> QED
  BY <1>1, <1>3, <1>5, <1>9

LEMMA ResultNums ==
  ASSUME NEW c, NEW r
  PROVE  ResultLine(c, r).nums[IF c.fn \in {"publish", "subscribe", "unsubscribe"}
                               THEN 3 ELSE 2] = r
<1> DEFINE two == <<c.idx, r>>
           three == <<c.idx, c.msgid, r>>
           nums == ResultLine(c, r).nums
<1>1. nums = IF c.fn \in {"publish", "subscribe", "unsubscribe"} THEN three ELSE two
  BY ResultLineIs
<1>2. two[2] = r /\ three[3] = r
  OBVIOUS
<1> HIDE DEF two, three, nums
<1>3. nums[IF c.fn \in {"publish", "subscribe", "unsubscribe"} THEN 3 ELSE 2] = r
  BY <1>1, <1>2
<1> QED
  BY <1>3 DEF nums

\* The news of a retransmission is no result.
LEMMA AgainIsNoResult ==
  ASSUME NEW c, NEW r, r # Retransmission, NEW l, Again(c, l)
  PROVE  l # ResultLine(c, r) /\ l.kind = "line"
<1> DEFINE a == ResultLine(c, Retransmission)
           b == ResultLine(c, r)
           i == IF c.fn \in {"publish", "subscribe", "unsubscribe"} THEN 3 ELSE 2
<1>1. a.nums[i] = Retransmission /\ a.kind = "line"
  BY ResultNums, ResultLineIs
<1>2. b.nums[i] = r
  BY ResultNums
<1> HIDE DEF a, b, i
<1>3. l = a /\ a # b
  BY <1>1, <1>2 DEF Again, a
<1> QED
  BY <1>1, <1>3 DEF b

LEMMA AcceptedJudged ==
  ASSUME NEW c, c \in Calls, c.fn \in Writes, NEW S, NEW s \in Seq(S), NEW K, NoiseOnly(K),
         Accepted(s, K, c),
         NEW n \in 0..Len(s), NEW lines, lines = SubSeq(s, 1, n),
         HasCommandTerminated(lines, Name(c.fn), "DATA_REQUIRED"),
         NEW given, NEW j, j = Judge(c, lines, given)
  PROVE  c.fn \in Packets /\ WriteJudged(c, j, Retransmission)
<1> DEFINE r == Success
<1>1. Prefix(lines, s, n) /\ lines \in Seq(S)
  BY PrefixIs, Read
<1>2. PICK p \in DOMAIN s : AcceptedAt(s, K, c, p)
  BY DEF Accepted
<1>3. r # Retransmission /\ r \in {Success, Failed(c)}
  BY DEF Success, Retransmission
<1>4. s[p].kind = "ok"
  BY <1>2, BasicIs DEF AcceptedAt
<1> HIDE DEF r
<1>5. \A k \in DOMAIN lines :
        \/ lines[k].kind = "ok" \/ lines[k].kind \in K
        \/ Again(c, lines[k]) /\ lines[k].kind = "line" /\ lines[k] # ResultLine(c, r)
  BY <1>1, <1>2, <1>3, <1>4, AgainIsNoResult DEF AcceptedAt, Prefix
<1>6. /\ \A k \in DOMAIN lines : lines[k].kind \notin {"error", "cme", "head"}
      /\ \A k \in DOMAIN lines : lines[k].kind = "line" =>
           Again(c, lines[k]) /\ lines[k] # ResultLine(c, r)
  BY <1>5 DEF NoiseOnly, Urcs
<1>7. BasicResponseIsOk(lines) /\ HasOwnLine(lines, Name(c.fn))
  BY <1>6 DEF HasCommandTerminated, HasKind, BasicResponseIsOk, WithOk
<1>8. \A k \in DOMAIN lines : lines[k] # ResultLine(c, r)
  <2>1. ResultLine(c, r).kind = "line"
    BY ResultLineIs
  <2> QED
    BY <1>6, <2>1
<1>9. \/ c.fn \in Packets /\ WriteJudged(c, j, Retransmission)
      \/ WriteJudged(c, j, r) /\ \E k \in DOMAIN lines : lines[k] = ResultLine(c, r)
  BY <1>1, <1>3, <1>6, <1>7, OwnResultJudged
<1> QED
  BY <1>8, <1>9

LEMMA CompletedJudged ==
  ASSUME NEW c, c \in Calls, c.fn \in Writes, NEW S, NEW s \in Seq(S), NEW K, NoiseOnly(K),
         NEW r, r \in {Success, Failed(c)}, Completed(s, K, c, r),
         NEW n \in 0..Len(s), NEW lines, lines = SubSeq(s, 1, n),
         HasCommandTerminated(lines, Name(c.fn), "DATA_REQUIRED"),
         NEW given, NEW j, j = Judge(c, lines, given)
  PROVE  \/ c.fn \in Packets /\ WriteJudged(c, j, Retransmission)
         \/ WriteJudged(c, j, r) /\ Noise(Rest(s, n), K)
<1>1. Prefix(lines, s, n) /\ lines \in Seq(S)
  BY PrefixIs, Read
<1>2. PICK p \in DOMAIN s, f \in DOMAIN s : CompletedAt(s, K, c, r, p, f)
  BY DEF Completed
<1>3. r # Retransmission
  BY DEF Success, Failed, Retransmission
<1>4. ResultLine(c, r).kind = "line"
  BY ResultLineIs
<1>5. s[p].kind = "ok" /\ s[f].kind = "line"
  <2>1. s[p].kind = "ok"
    BY <1>2, BasicIs DEF CompletedAt
  <2> QED
    BY <1>2, <1>4, <2>1 DEF CompletedAt
<1>6. \A k \in DOMAIN s :
        \/ k = p \/ k = f \/ s[k].kind \in K
        \/ k < f /\ Again(c, s[k]) /\ s[k].kind = "line" /\ s[k] # ResultLine(c, r)
  BY <1>2, <1>3, AgainIsNoResult DEF CompletedAt
<1>7. "line" \notin K /\ "error" \notin K /\ "cme" \notin K /\ "head" \notin K
  BY DEF NoiseOnly, Urcs
<1>8. \A k \in DOMAIN s : s[k] = ResultLine(c, r) => k = f
  BY <1>5, <1>4, <1>6, <1>7
<1>9. \A k \in DOMAIN s : s[k].kind = "line" => s[k] = ResultLine(c, r) \/ Again(c, s[k])
  BY <1>2, <1>5, <1>6, <1>7 DEF CompletedAt
<1>10. \A k \in DOMAIN s : s[k].kind \notin {"error", "cme", "head"}
  BY <1>5, <1>6, <1>7
<1>11. \A k \in DOMAIN lines : lines[k] = s[k] /\ k \in DOMAIN s
  BY <1>1 DEF Prefix
<1>12. /\ \A k \in DOMAIN lines : lines[k].kind \notin {"error", "cme", "head"}
       /\ \A k \in DOMAIN lines : lines[k].kind = "line" =>
            lines[k] = ResultLine(c, r) \/ Again(c, lines[k])
  BY <1>9, <1>10, <1>11
<1>13. BasicResponseIsOk(lines) /\ HasOwnLine(lines, Name(c.fn))
  BY <1>12 DEF HasCommandTerminated, HasKind, BasicResponseIsOk, WithOk
<1>14. \/ c.fn \in Packets /\ WriteJudged(c, j, Retransmission)
       \/ WriteJudged(c, j, r) /\ \E k \in DOMAIN lines : lines[k] = ResultLine(c, r)
  BY <1>1, <1>12, <1>13, OwnResultJudged
<1>15. ASSUME NEW k \in DOMAIN lines, lines[k] = ResultLine(c, r)
       PROVE  Noise(Rest(s, n), K)
  <2>1. k = f /\ f \in 1..n
    BY <1>1, <1>8, <1>11, <1>15 DEF Prefix
  <2>2. p < f /\ DOMAIN s = 1..Len(s) /\ Len(s) \in Nat
    BY <1>1, <1>2 DEF CompletedAt, Prefix
  <2>3. \A i \in DOMAIN s : n < i => i # p /\ i # f /\ ~(i < f)
    BY <2>1, <2>2
  <2>4. \A i \in DOMAIN s : n < i => s[i].kind \in K
    BY <1>6, <2>3
  <2> QED
    BY <2>4, NoiseLeft
<1> QED
  BY <1>14, <1>15

\* A query's answer of no + line leaves the structure as it is; otherwise nothing
\* is found, or what the first line of its name says is.
QueryJudged(c, j, given, bare) ==
  /\ j.err = "ESP_OK" => j.response.id = c.id \/ (bare /\ j.response = given)
  /\ j.err = "ESP_OK" => c.idx = j.response.idx

LEMMA ListedPrefix ==
  ASSUME NEW c, NEW S, NEW s \in Seq(S), NEW K, NoiseOnly(K),
         NEW p \in DOMAIN s, ListedAt(s, K, c, p),
         NEW n \in 0..Len(s), NEW lines, lines = SubSeq(s, 1, n),
         HasCommandTerminated(lines, Name(c.fn), "DATA_OPTIONAL")
  PROVE  p \in 1..n
<1>1. Prefix(lines, s, n)
  BY PrefixIs
<1>2. SUFFICES ASSUME p \notin 1..n PROVE FALSE
  OBVIOUS
<1>3. \A k \in DOMAIN lines : lines[k].kind \in K \cup {"line"}
  BY <1>1, <1>2 DEF ListedAt, Prefix
<1> QED
  BY <1>3 DEF HasCommandTerminated, HasKind, NoiseOnly, Urcs

LEMMA ListedJudged ==
  ASSUME NEW c, c \in Calls, c.fn \in Queries, NEW S, NEW s \in Seq(S), NEW K, NoiseOnly(K),
         Listed(s, K, c),
         NEW n \in 0..Len(s), NEW lines, IsRead(lines, s, n),
         HasCommandTerminated(lines, Name(c.fn), "DATA_OPTIONAL"),
         NEW given, NEW j, j = Judge(c, lines, given)
  PROVE  Noise(Rest(s, n), K) /\ QueryJudged(c, j, given, ~Echo)
<1>1. Prefix(lines, s, n) /\ lines \in Seq(S)
  BY PrefixIs, Read DEF IsRead
<1>2. PICK p \in DOMAIN s : ListedAt(s, K, c, p)
  BY DEF Listed
<1>3. p \in 1..n
  BY <1>2, ListedPrefix DEF IsRead
<1>4. s[p].kind = "ok"
  BY <1>2, BasicIs DEF ListedAt
<1>5. BasicResponseIsOk(lines)
  BY <1>1, <1>3, <1>4 DEF BasicResponseIsOk, WithOk, Prefix
<1>6. Noise(Rest(s, n), K)
  <2>1. DOMAIN s = 1..Len(s) /\ Len(s) \in Nat /\ n \in Nat
    BY <1>1 DEF Prefix
  <2>2. \A k \in DOMAIN s : n < k => k # p /\ ~(k < p)
    BY <1>3, <2>1
  <2>3. \A k \in DOMAIN s : n < k => s[k].kind \in K
    BY <1>2, <2>2 DEF ListedAt
  <2> QED
    BY <2>3, NoiseLeft
<1>7. c.idx # Absent
  BY MqttAssumption DEF Calls, Absent
<1>8. \A r : StatusErr(c.idx, r) = "ESP_OK" => r.idx = c.idx
  BY DEF StatusErr
<1>9. CASE ~HasDataResponse(lines)
  <2>1. j.response = given /\ j.err = StatusErr(c.idx, given)
    BY <1>5, <1>9, JudgeBare
  <2>2. ~Echo
    <3>1. SUFFICES ASSUME Echo PROVE FALSE
      OBVIOUS
    <3>2. PICK k \in DOMAIN s : k < p /\ s[k].kind = "echo"
      BY <1>2, <3>1 DEF ListedAt
    <3>3. k \in DOMAIN lines /\ lines[k].kind = "echo"
      <4>1. k \in 1..n
        BY <1>1, <1>3, <3>2 DEF Prefix
      <4> QED
        BY <1>1, <3>2, <4>1 DEF Prefix
    <3> QED
      BY <1>9, <3>3 DEF HasDataResponse, Echoes
  <2> QED
    BY <1>6, <1>8, <2>1, <2>2 DEF QueryJudged
<1>10. CASE HasDataResponse(lines)
  <2> DEFINE own == OwnLines(lines, Name(c.fn))
  <2>1. own = OwnLines(lines, Name(c.fn))
    OBVIOUS
  <2> HIDE DEF own
  <2>2. FromOwn(c, own, j)
    BY <1>1, <1>5, <1>10, <2>1, Judged
  <2>3. \A r : CallErr(c, r) = StatusErr(c.idx, r)
    BY DEF CallErr
  <2>4. CASE DOMAIN own = {}
    <3>1. j.err # "ESP_OK"
      <4>1. NoResponse.idx = Absent
        BY DEF NoResponse
      <4>2. j.err = StatusErr(c.idx, NoResponse)
        BY <2>2, <2>3, <2>4 DEF FromOwn
      <4> QED
        BY <1>7, <1>8, <4>1, <4>2
    <3> QED
      BY <1>6, <3>1 DEF QueryJudged
  <2>5. CASE DOMAIN own # {}
    <3>1. PICK k \in 1..Len(lines) : First(own) = lines[k] /\ lines[k].kind = "line"
      <4> DEFINE name == Name(c.fn)
      <4>1. DOMAIN OwnLines(lines, name) # {}
        BY <2>1, <2>5
      <4>2. own = OwnLines(lines, name)
        BY <2>1
      <4> HIDE DEF name
      <4> QED
        BY <1>1, <4>1, <4>2, FirstOwn
    <3>2. First(own).id = c.id
      <4>1. k \in DOMAIN s /\ lines[k] = s[k]
        BY <1>1, <3>1 DEF Prefix
      <4> QED
        BY <1>2, <1>4, <3>1, <4>1 DEF ListedAt, NoiseOnly, Urcs
    <3>3. TooFew.err # "ESP_OK"
      BY DEF TooFew
    <3>4. \/ j.err # "ESP_OK"
          \/ j.response.id = First(own).id /\ j.err = StatusErr(c.idx, j.response)
      BY <2>2, <2>3, <2>5, <3>3 DEF FromOwn
    <3> QED
      BY <1>6, <1>8, <3>2, <3>4 DEF QueryJudged
  <2> QED
    BY <2>4, <2>5
<1> QED
  BY <1>9, <1>10

\* The line of a client it has told of is read as that client's.
LEMMA ClientRead ==
  ASSUME NEW c, c.fn \in Queries, NEW i, i \in Clients,
         NEW own, DOMAIN own # {}, First(own).nums = StateNums(c, i),
         NEW p, p = ParserOf(c.fn, own)
  PROVE  p # TooFew /\ p.response.idx = i
<1> DEFINE l == First(own)
           one == <<i>>
           two == <<i, IF link[i] = "connected" THEN 3 ELSE 1>>
<1>1. /\ c.fn = "open_status" => p = QmtopenReadParser(l) /\ l.nums = one
      /\ c.fn = "connection_state" => p = QmtconnReadParser(l) /\ l.nums = two
  <2>1. c.fn = "open_status" => p = QmtopenReadParser(l) /\ l.nums = one
    BY ParserFirst DEF StateNums
  <2>2. c.fn = "connection_state" => p = QmtconnReadParser(l) /\ l.nums = two
    BY ParserFirst DEF StateNums
  <2> QED
    BY <2>1, <2>2
<1>2. Len(one) = 1 /\ one[1] = i /\ Len(two) = 2 /\ two[1] = i
  OBVIOUS
<1> HIDE DEF l, one, two
<1>3. Checked(i, ClientIdx) = i
  BY MqttAssumption DEF Checked, ClientIdx
<1>4. ASSUME NEW msgid, NEW value, p = Parsed(i, msgid, value, l.id)
      PROVE  p # TooFew /\ p.response.idx = i
  <2>1. p.err = "ESP_OK" /\ p.response.idx = i
    BY <1>4, ParsedIs
  <2> QED
    BY <2>1 DEF TooFew
<1>5. CASE c.fn = "open_status"
  <2>1. ~(Len(l.nums) < 1) /\ l.nums[1] = i
    <3>1. l.nums = one
      BY <1>1, <1>5
    <3>2. Len(l.nums) = 1
      BY <1>2, <3>1
    <3>3. l.nums[1] = i
      BY <1>2, <3>1
    <3> QED
      BY <3>2, <3>3
  <2>2. p = Parsed(Checked(l.nums[1], ClientIdx), Absent, Absent, l.id)
    BY <1>1, <1>5, <2>1, Zenon DEF QmtopenReadParser
  <2>3. Checked(l.nums[1], ClientIdx) = i
    BY <1>3, <2>1
  <2> QED
    BY <1>4, <2>2, <2>3
<1>6. CASE c.fn = "connection_state"
  <2>1. ~(Len(l.nums) < 2) /\ l.nums[1] = i
    BY <1>1, <1>2, <1>6
  <2>2. p = Parsed(Checked(l.nums[1], ClientIdx), Absent,
                   Checked(l.nums[2], ConnectionStates), l.id)
    BY <1>1, <1>6, <2>1, Zenon DEF QmtconnReadParser
  <2>3. Checked(l.nums[1], ClientIdx) = i
    BY <1>3, <2>1
  <2> QED
    BY <1>4, <2>2, <2>3
<1> QED
  BY <1>5, <1>6 DEF Queries

\* A client with a network connection is reported not found only behind another.
LEMMA ShadowJudged ==
  ASSUME NEW c, c \in Calls, c.fn \in Queries, NEW S, NEW s \in Seq(S), NEW K, NoiseOnly(K),
         Listed(s, K, c), FirstTold(s, c),
         NEW n \in 0..Len(s), NEW lines, IsRead(lines, s, n),
         HasCommandTerminated(lines, Name(c.fn), "DATA_OPTIONAL"),
         NEW given, NEW j, j = Judge(c, lines, given),
         j.err = "ESP_ERR_NOT_FOUND", c.idx \in Clients, link[c.idx] # "closed"
  PROVE  \E i \in Clients : i < c.idx /\ link[i] # "closed"
<1> DEFINE own == OwnLines(lines, Name(c.fn))
           p == ParserOf(c.fn, own)
<1>1. Prefix(lines, s, n) /\ lines \in Seq(S)
  BY PrefixIs, Read DEF IsRead
<1>2. own = OwnLines(lines, Name(c.fn)) /\ p = ParserOf(c.fn, own)
  OBVIOUS
<1>3. c.idx \in Told
  BY DEF Told
<1>4. PICK k \in DOMAIN s : FirstAt(s, c, k)
  BY <1>3 DEF FirstTold
<1>5. PICK q \in DOMAIN s : ListedAt(s, K, c, q)
  BY DEF Listed
<1>6. q \in 1..n
  BY <1>5, ListedPrefix DEF IsRead
<1>7. s[q].kind = "ok"
  BY <1>5, BasicIs DEF ListedAt
<1>8. k < q
  BY <1>4, <1>5, <1>7 DEF FirstAt, ListedAt, NoiseOnly, Urcs
<1>9. k \in 1..n /\ lines[k] = s[k]
  BY <1>1, <1>6, <1>8 DEF Prefix
<1>10. DOMAIN own # {} /\ HasDataResponse(lines) /\ BasicResponseIsOk(lines)
  <2>1. k \in DOMAIN lines /\ lines[k].kind = "line" /\ lines[k].name = Name(c.fn)
    BY <1>1, <1>4, <1>9 DEF FirstAt, Prefix
  <2>2. k \in DOMAIN own
    BY <2>1 DEF OwnLines, Restrict
  <2>3. BasicResponseIsOk(lines)
    BY <1>1, <1>6, <1>7 DEF BasicResponseIsOk, WithOk, Prefix
  <2>4. HasDataResponse(lines)
    BY <2>1 DEF HasDataResponse
  <2> QED
    BY <2>2, <2>3, <2>4
<1> HIDE DEF own, p
<1>11. PICK m \in 1..Len(lines) :
         /\ First(own) = lines[m] /\ lines[m].kind = "line" /\ lines[m].name = Name(c.fn)
         /\ \A i \in 1..(m - 1) : ~(lines[i].kind = "line" /\ lines[i].name = Name(c.fn))
  <2> DEFINE name == Name(c.fn)
  <2>1. own = OwnLines(lines, name) /\ DOMAIN OwnLines(lines, name) # {}
    BY <1>2, <1>10
  <2> HIDE DEF name
  <2>2. \E m \in 1..Len(lines) :
           /\ First(own) = lines[m] /\ lines[m].kind = "line" /\ lines[m].name = name
           /\ \A i \in 1..(m - 1) : ~(lines[i].kind = "line" /\ lines[i].name = name)
    BY <1>1, <2>1, FirstOwn
  <2> QED
    BY <2>2 DEF name
<1>12. FirstAt(s, c, m) /\ m \in DOMAIN s /\ lines[m] = s[m]
  <2>1. m \in 1..n /\ lines[m] = s[m] /\ m \in DOMAIN s /\ n \in Nat
    BY <1>1 DEF Prefix
  <2>2. \A i \in 1..(m - 1) : i \in 1..n
    BY <2>1
  <2>3. \A i \in 1..(m - 1) : lines[i] = s[i]
    BY <1>1, <2>2 DEF Prefix
  <2> QED
    BY <1>11, <2>1, <2>3 DEF FirstAt
<1>13. PICK i \in Told : s[m].nums = StateNums(c, i) /\ \A a \in Told : i <= a
  BY <1>12 DEF FirstTold
<1>14. i \in Clients /\ link[i] # "closed" /\ i <= c.idx /\ i \in Nat /\ c.idx \in Nat
  BY <1>3, <1>13, ClientsFinite DEF Told
<1>15. p # TooFew /\ p.response.idx = i
  BY <1>2, <1>10, <1>11, <1>12, <1>13, <1>14, ClientRead
<1>16. i # c.idx
  <2>1. FromOwn(c, own, j)
    BY <1>1, <1>2, <1>10, Judged
  <2>2. j.err = StatusErr(c.idx, p.response)
    BY <1>2, <1>10, <1>15, <2>1 DEF FromOwn, CallErr
  <2> QED
    BY <1>15, <2>2 DEF StatusErr
<1> QED
  BY <1>14, <1>16

-------------------------------------------------------------------------------
(* Calls and modem stay in step, step by step.                                 *)

LEMMA NoiseIs == NoiseOnly(NoiseKinds) /\ "echo" \in NoiseKinds
BY MqttAssumption DEF NoiseOnly, NoiseKinds

\* What holds of a call in progress, or out of step, whatever happens.
LEMMA Vacuous ==
  /\ pc' # "idle" \/ ~InStep' => Verdicts'
  /\ pc' = "idle" /\ ~InStep' => StepInv'
BY DEF Verdicts, ReplyIsOwn, ResultsExact, StateIsTold, NotFoundIsShadowed, Returned, StepInv

LEMMA InitStep == Init => StepInv
<1>1. SUFFICES ASSUME Init PROVE StepInv
  OBVIOUS
<1>2. Noise(rx, NoiseKinds)
  BY <1>1 DEF Init, Noise
<1>3. call.fn \notin Writes \cup Queries
  BY <1>1 DEF Init, Writes, Queries
<1> QED
  BY <1>1, <1>2, <1>3 DEF Init, StepInv, Phases, IdlePhase, Verdicts, ReplyIsOwn, ResultsExact,
     StateIsTold, NotFoundIsShadowed, Returned

LEMMA BeginStep == ASSUME TypeInv, StepInv, Begun PROVE StepInv'
<1>1. CASE pc = "idle" /\ \E err : Refuse(err)
  <2>1. call' = [fn |-> "none"] /\ pc' = "idle"
        /\ UNCHANGED <<tx, rx, modem, debt, ahead>>
    BY <1>1 DEF Refuse
  <2>2. call'.fn \notin Writes \cup Queries
    BY <2>1 DEF Writes, Queries
  <2>3. Verdicts'
    BY <2>2 DEF Verdicts, ReplyIsOwn, ResultsExact, StateIsTold, NotFoundIsShadowed, Returned
  <2>4. NoiseKinds' = NoiseKinds
    BY <2>1 DEF NoiseKinds, modem
  <2>5. InStep' => IdlePhase'
    BY <1>1, <2>1, <2>4 DEF StepInv, InStep, Phases, IdlePhase, modem
  <2> QED
    BY <2>1, <2>3, <2>5 DEF StepInv, Phases
<1>2. ASSUME NEW c, NEW w, Began(c, w) PROVE StepInv'
  <2>1. /\ pc = "idle" /\ call' = c /\ c.id = nextId /\ w \in HwWriteOutcomes
        /\ pc' = (IF w.err = "ESP_OK" THEN FirstLoop(c.fn) ELSE "idle")
        /\ UNCHANGED <<modem, ahead>>
        /\ Called(c, nextId', usedMsgids')
    BY <1>2 DEF Began
  <2>2. CASE w.err # "ESP_OK"
    <3>1. nextId \in debt'
      BY <1>2, <2>2 DEF Began
    <3>2. ~InStep'
      BY <3>1 DEF InStep
    <3> QED
      BY <2>1, <2>2, <3>2, Vacuous
  <2>3. CASE w.err = "ESP_OK"
    <3>1. w.sent
      BY <2>1, <2>3 DEF HwWriteOutcomes
    <3>2. pc' = FirstLoop(c.fn) /\ pc' # "idle" /\ debt' = debt
      BY <1>2, <2>1, <2>3 DEF FirstLoop, Began
    <3>3. c.fn \in Writes \/ ~Reuse => response' = NoResponse
      <4>1. c.fn \in Writes => c.fn \notin Queries
        BY DEF Writes, Queries
      <4> QED
        BY <1>2, <4>1 DEF Began
    <3>4. SUFFICES ASSUME InStep' PROVE Phases'
      BY <2>1, <3>2, <3>3, Vacuous DEF StepInv
    <3>5. IdlePhase
      BY <2>1, <3>2, <3>4 DEF InStep, StepInv, Phases
    <3>6. tx' = <<Item("cmd", c)>>
      <4> DEFINE x == [part |-> "cmd", call |-> c]
      <4>1. tx' = Append(tx, x) /\ tx = <<>>
        BY <1>2, <3>1, <3>5 DEF Began, IdlePhase
      <4>2. x = Item("cmd", c)
        BY DEF Item
      <4> HIDE DEF x
      <4> QED
        BY <4>1, <4>2
    <3>7. NoiseKinds' = NoiseKinds /\ jobs' = {} /\ mode' = "command"
      BY <2>1, <3>5 DEF NoiseKinds, IdlePhase, modem
    <3>8. Noise(rx', NoiseKinds)
      BY <1>2, <3>5 DEF Began, Noise, IdlePhase
    <3>9. call'.id \notin acked'
      BY <2>1, MqttAssumption DEF TypeInv, modem
    <3>10. Pending(call)'
      BY <2>1, <3>2, <3>6, <3>7 DEF Pending, FirstLoop
    <3>11. pc' = "prompt" => PromptPhase'
      BY <3>7, <3>8, <3>9, <3>10 DEF PromptPhase
    <3>12. pc' = "read" => QueryPhase' /\ WritePhase'
      BY <3>7, <3>8, <3>9, <3>10 DEF QueryPhase, WritePhase
    <3> QED
      BY <3>2, <3>11, <3>12 DEF Phases
  <2> QED
    BY <2>2, <2>3
<1> QED
  BY <1>1, <1>2, BegunIs

LEMMA SendStep == ASSUME TypeInv, StepInv, SendMessage PROVE StepInv'
<1>1. pc = "prompt" /\ UNCHANGED <<call, modem>>
  BY DEF SendMessage
<1>2. PICK k \in DOMAIN rx :
        \E n \in k..Len(rx), w \in HwWriteOutcomes :
          /\ ahead' = IF rx[k].kind = "prompt" THEN ahead ELSE ahead \cup {call.id}
          /\ rx' = IF w.flushed THEN <<>> ELSE Rest(rx, n)
          /\ tx' = IF w.sent THEN Append(tx, [part |-> "data", call |-> call]) ELSE tx
          /\ IF w.err = "ESP_OK" THEN pc' = "read" /\ UNCHANGED <<status, response, debt>>
                                 ELSE Return(w.err, response, TRUE)
  BY DEF SendMessage
<1>3. PICK n \in k..Len(rx), w \in HwWriteOutcomes :
          /\ ahead' = IF rx[k].kind = "prompt" THEN ahead ELSE ahead \cup {call.id}
          /\ rx' = IF w.flushed THEN <<>> ELSE Rest(rx, n)
          /\ tx' = IF w.sent THEN Append(tx, [part |-> "data", call |-> call]) ELSE tx
          /\ IF w.err = "ESP_OK" THEN pc' = "read" /\ UNCHANGED <<status, response, debt>>
                                 ELSE Return(w.err, response, TRUE)
  BY <1>2
<1>4. CASE w.err # "ESP_OK"
  <2>1. pc' = "idle" /\ call.id \in debt'
    BY <1>3, <1>4 DEF Return
  <2> QED
    BY <2>1, Vacuous DEF InStep
<1>5. CASE w.err = "ESP_OK"
  <2>1. w.sent /\ pc' = "read" /\ UNCHANGED <<response, debt>>
    BY <1>3, <1>5 DEF HwWriteOutcomes
  <2>2. Verdicts' /\ (call.fn \in Writes \/ ~Reuse => response' = NoResponse)
    BY <1>1, <2>1, Vacuous DEF StepInv
  <2>3. SUFFICES ASSUME InStep' PROVE Phases'
    BY <1>1, <2>1, <2>2 DEF StepInv
  <2>4. rx[k].kind = "prompt" /\ InStep
    BY <1>3, <2>1, <2>3 DEF InStep
  <2>5. call.fn = "publish" /\ PromptPhase
    BY <1>1, <2>4 DEF TypeInv, StepInv, Phases
  <2>6. "prompt" \notin NoiseKinds
    BY NoiseIs DEF NoiseOnly, Urcs
  <2>7. tx = <<>> /\ mode = "data" /\ dcall = call /\ Only(rx, NoiseKinds, Basic("prompt", call))
    <3>1. ~Noise(rx, NoiseKinds)
      BY <2>4, <2>6 DEF Noise
    <3>2. Basic("error", call).kind = "error"
      BY BasicIs
    <3>3. ~Refusal(rx, NoiseKinds, call)
      BY <2>4, <2>6, <3>1, <3>2 DEF Refusal, Only
    <3> QED
      BY <2>5, <3>1, <3>3 DEF PromptPhase
  <2>8. \A i \in DOMAIN rx : i # k => rx[i].kind \in NoiseKinds
    BY <2>4, <2>6, <2>7 DEF Only
  <2>9. Noise(rx', NoiseKinds)
    <3>1. PICK S : rx \in Seq(S)
      BY DEF TypeInv
    <3>2. n \in 0..Len(rx) /\ \A i \in DOMAIN rx : n < i => i # k
      <4>1. Len(rx) \in Nat /\ DOMAIN rx = 1..Len(rx)
        BY <3>1
      <4> QED
        BY <4>1
    <3>3. \A i \in DOMAIN rx : n < i => rx[i].kind \in NoiseKinds
      BY <2>8, <3>2
    <3>4. Noise(Rest(rx, n), NoiseKinds)
      BY <3>1, <3>2, <3>3, NoiseLeft
    <3>5. Noise(<<>>, NoiseKinds)
      BY DEF Noise
    <3> QED
      BY <1>3, <3>4, <3>5
  <2>10. tx' = <<Item("data", call)>>
    <3> DEFINE x == [part |-> "data", call |-> call]
    <3>1. tx' = Append(tx, x) /\ tx = <<>>
      BY <1>3, <2>1, <2>7
    <3>2. x = Item("data", call)
      BY DEF Item
    <3> HIDE DEF x
    <3> QED
      BY <3>1, <3>2
  <2>11. NoiseKinds' = NoiseKinds
    BY <1>1 DEF NoiseKinds, modem
  <2>12. Pending(call)'
    BY <1>1, <2>1, <2>5, <2>7, <2>10 DEF Pending, modem
  <2>13. WritePhase'
    BY <1>1, <2>5, <2>9, <2>11, <2>12 DEF WritePhase, PromptPhase, modem
  <2> QED
    BY <1>1, <2>1, <2>5, <2>13 DEF Phases, Queries
<1> QED
  BY <1>4, <1>5

LEMMA GiveUpStep == ASSUME TypeInv, StepInv, GiveUp PROVE StepInv'
<1>1. pc' = "idle" /\ call.id \in debt'
  BY DEF GiveUp, Return
<1> QED
  BY <1>1, Vacuous DEF InStep

\* A call that completes and leaves calls and modem in step.
Finished(n, lines, j) ==
  /\ n \in 0..Len(rx) /\ IsRead(lines, rx, n)
  /\ HasCommandTerminated(lines, Name(call.fn), RType(call.fn))
  /\ j = Judge(call, lines, response)
  /\ status' = j.err /\ response' = j.response
  /\ rx' = Rest(rx, n)
  /\ ~(call.fn \in Packets /\ j.response.value = Retransmission)

LEMMA FinishedIs ==
  ASSUME TypeInv, Finish, InStep'
  PROVE  /\ pc = "read" /\ pc' = "idle" /\ InStep /\ UNCHANGED <<call, tx, modem>>
         /\ \E n, lines, j : Finished(n, lines, j)
<1>1. PICK n \in Reads(rx, Name(call.fn), RType(call.fn)) :
        LET j == Judge(call, SubSeq(rx, 1, n), response)
        IN  /\ Return(j.err, j.response, FALSE)
            /\ ahead' = IF call.fn \in Packets /\ j.response.value = Retransmission
                        THEN ahead \cup {call.id} ELSE ahead
            /\ rx' = Rest(rx, n)
  BY DEF Finish
<1> DEFINE lines == SubSeq(rx, 1, n)
           j == Judge(call, lines, response)
<1>2. /\ Return(j.err, j.response, FALSE) /\ rx' = Rest(rx, n)
      /\ ahead' = IF call.fn \in Packets /\ j.response.value = Retransmission
                  THEN ahead \cup {call.id} ELSE ahead
  BY <1>1
<1>3. IsRead(lines, rx, n)
  BY DEF IsRead
<1>4. j = Judge(call, lines, response)
  OBVIOUS
<1>5. HasCommandTerminated(lines, Name(call.fn), RType(call.fn))
  BY DEF Reads, Complete
<1>6. n \in 0..Len(rx)
  <2>1. n \in 1..Len(rx)
    BY DEF Reads
  <2>2. PICK S : rx \in Seq(S)
    BY DEF TypeInv
  <2>3. Len(rx) \in Nat
    BY <2>2
  <2> QED
    BY <2>1, <2>3
<1> HIDE DEF lines, j
<1>7. InStep /\ ~(call.fn \in Packets /\ j.response.value = Retransmission)
  BY <1>2 DEF InStep, Return
<1>8. Finished(n, lines, j)
  BY <1>2, <1>3, <1>4, <1>5, <1>6, <1>7 DEF Finished, Return
<1> QED
  BY <1>2, <1>7, <1>8 DEF Finish, Return

LEMMA FinishWriteStep ==
  ASSUME TypeInv, StepInv, Finish, InStep', call.fn \in Writes
  PROVE  StepInv'
<1>1. pc = "read" /\ pc' = "idle" /\ InStep /\ UNCHANGED <<call, tx, modem>>
  BY FinishedIs
<1>2. PICK n, lines, j : Finished(n, lines, j)
  BY FinishedIs
<1>3. PICK S : rx \in Seq(S)
  BY DEF TypeInv
<1>4. /\ n \in 0..Len(rx) /\ lines = SubSeq(rx, 1, n) /\ j = Judge(call, lines, response)
      /\ HasCommandTerminated(lines, Name(call.fn), "DATA_REQUIRED")
      /\ status' = j.err /\ response' = j.response /\ rx' = Rest(rx, n)
      /\ ~(call.fn \in Packets /\ j.response.value = Retransmission)
  BY <1>2 DEF Finished, IsRead, RType, Writes, Queries
<1>5. call \in Calls /\ call.fn \notin Queries
  BY <1>1 DEF TypeInv, Called, Writes, Queries
<1>6. WritePhase /\ response = NoResponse
  BY <1>1 DEF StepInv, Phases
<1>7. NoiseKinds' = NoiseKinds
  BY <1>1 DEF NoiseKinds, modem
<1>8. ASSUME tx = <<>>, mode = "command", jobs = {}, Noise(rx', NoiseKinds),
             response' # NoResponse => response'.id = call.id,
             "urcok" \notin UrcKinds => (status' = "ESP_OK" <=> call.id \in acked)
      PROVE  StepInv'
  <2>1. IdlePhase'
    BY <1>1, <1>7, <1>8 DEF IdlePhase, modem
  <2>2. ReplyIsOwn' /\ ("urcok" \notin UrcKinds => ResultsExact')
    BY <1>1, <1>8 DEF ReplyIsOwn, ResultsExact, modem
  <2>3. StateIsTold' /\ NotFoundIsShadowed'
    BY <1>1, <1>5 DEF StateIsTold, NotFoundIsShadowed, Returned
  <2> QED
    BY <1>1, <2>1, <2>2, <2>3 DEF StepInv, Phases, Verdicts
<1>9. ~Noise(rx, NoiseKinds)
  <2>1. Prefix(lines, rx, n)
    BY <1>3, <1>4, PrefixIs
  <2>2. Noise(rx, NoiseKinds) => \A k \in 1..n : rx[k].kind \in NoiseKinds
    BY <2>1 DEF Noise, Prefix
  <2> QED
    BY <1>4, <2>1, <2>2, NoiseIs, NoiseCompletesNothing
<1>10. CASE /\ tx = <<>> /\ mode = "command" /\ jobs = {} /\ Refusal(rx, NoiseKinds, call)
            /\ call.id \notin acked
  <2>1. Refused(call, NoiseKinds, response, j, Rest(rx, n))
    BY <1>3, <1>4, <1>5, <1>10, NoiseIs, RefusalJudged
  <2>2. j.response = NoResponse /\ Noise(rx', NoiseKinds)
    BY <1>4, <1>6, <2>1 DEF Refused
  <2>3. "urcok" \notin UrcKinds => status' # "ESP_OK"
    <3>1. "urcok" \notin UrcKinds => "urcok" \notin NoiseKinds
      BY DEF NoiseKinds
    <3> QED
      BY <1>4, <2>1, <3>1 DEF Refused
  <2> QED
    BY <1>4, <1>8, <1>10, <2>2, <2>3
<1>11. ~Accepted(rx, NoiseKinds, call)
  <2>1. SUFFICES ASSUME Accepted(rx, NoiseKinds, call) PROVE FALSE
    OBVIOUS
  <2>2. call.fn \in Packets /\ WriteJudged(call, j, Retransmission)
    BY <1>3, <1>4, <1>5, <2>1, NoiseIs, AcceptedJudged
  <2> QED
    BY <1>4, <2>2 DEF WriteJudged
<1>12. CASE /\ tx = <<>> /\ mode = "command" /\ jobs = {}
            /\ Completed(rx, NoiseKinds, call, Result0)
  <2> DEFINE r == Result0
  <2>1. r \in {Success, Failed(call)} /\ (r = Success <=> call.id \in acked)
    BY DEF Result0, Success, Failed
  <2> HIDE DEF r
  <2>2. WriteJudged(call, j, r) /\ Noise(Rest(rx, n), NoiseKinds)
    <3>1. \/ call.fn \in Packets /\ WriteJudged(call, j, Retransmission)
          \/ WriteJudged(call, j, r) /\ Noise(Rest(rx, n), NoiseKinds)
      <4>1. Completed(rx, NoiseKinds, call, r)
        BY <1>12 DEF r
      <4> QED
        BY <1>3, <1>4, <1>5, <2>1, <4>1, NoiseIs, CompletedJudged
    <3> QED
      BY <1>4, <3>1 DEF WriteJudged
  <2> QED
    BY <1>4, <1>8, <1>12, <2>1, <2>2 DEF WriteJudged
<1> QED
  BY <1>6, <1>9, <1>10, <1>11, <1>12 DEF WritePhase

LEMMA FinishQueryStep ==
  ASSUME TypeInv, StepInv, Finish, InStep', call.fn \in Queries
  PROVE  StepInv'
<1>1. pc = "read" /\ pc' = "idle" /\ InStep /\ UNCHANGED <<call, tx, modem>>
  BY FinishedIs
<1>2. PICK n, lines, j : Finished(n, lines, j)
  BY FinishedIs
<1>3. PICK S : rx \in Seq(S)
  BY DEF TypeInv
<1>4. /\ n \in 0..Len(rx) /\ IsRead(lines, rx, n) /\ j = Judge(call, lines, response)
      /\ HasCommandTerminated(lines, Name(call.fn), "DATA_OPTIONAL")
      /\ status' = j.err /\ response' = j.response /\ rx' = Rest(rx, n)
  BY <1>2 DEF Finished, RType
<1>5. call \in Calls /\ call.fn \notin Writes /\ call.idx # Absent
  BY <1>1, MqttAssumption DEF TypeInv, Called, Calls, Writes, Queries, Absent
<1>6. QueryPhase /\ (~Reuse => response = NoResponse)
  BY <1>1 DEF StepInv, Phases
<1>7. NoiseKinds' = NoiseKinds
  BY <1>1 DEF NoiseKinds, modem
<1>8. ASSUME tx = <<>>, Noise(rx', NoiseKinds),
             (Echo \/ ~Reuse) /\ status' = "ESP_OK" => response'.id = call.id,
             urcs = 0 /\ status' = "ESP_ERR_NOT_FOUND" /\ call.idx \in Clients
               /\ link[call.idx] # "closed" => \E i \in Clients : i < call.idx /\ link[i] # "closed"
      PROVE  StepInv'
  <2>1. IdlePhase'
    BY <1>1, <1>6, <1>7, <1>8 DEF IdlePhase, QueryPhase, modem
  <2>2. ReplyIsOwn' /\ ResultsExact'
    BY <1>1, <1>5 DEF ReplyIsOwn, ResultsExact, Returned
  <2>3. (Echo \/ ~Reuse => StateIsTold') /\ NotFoundIsShadowed'
    BY <1>1, <1>8 DEF StateIsTold, NotFoundIsShadowed, modem
  <2> QED
    BY <1>1, <2>1, <2>2, <2>3 DEF StepInv, Phases, Verdicts
<1>9. ~Noise(rx, NoiseKinds)
  <2>1. Prefix(lines, rx, n)
    BY <1>3, <1>4, PrefixIs DEF IsRead
  <2>2. Noise(rx, NoiseKinds) => \A k \in 1..n : rx[k].kind \in NoiseKinds
    BY <2>1 DEF Noise, Prefix
  <2> QED
    BY <1>4, <2>1, <2>2, NoiseIs, NoiseCompletesNothing
<1>10. CASE tx = <<>> /\ Refusal(rx, NoiseKinds, call)
  <2>1. Refused(call, NoiseKinds, response, j, Rest(rx, n))
    BY <1>3, <1>4, <1>5, <1>10, NoiseIs, RefusalJudged DEF IsRead
  <2>2. Noise(rx', NoiseKinds) /\ status' # "ESP_OK"
    BY <1>4, <2>1 DEF Refused
  <2>3. urcs = 0 => status' = "ESP_FAIL"
    <3>1. urcs = 0 => "urcok" \notin NoiseKinds
      BY DEF NoiseKinds
    <3> QED
      BY <1>4, <2>1, <3>1 DEF Refused
  <2> QED
    BY <1>8, <1>10, <2>2, <2>3
<1>11. CASE tx = <<>> /\ Listed(rx, NoiseKinds, call) /\ (urcs = 0 => FirstTold(rx, call))
  <2>1. Noise(Rest(rx, n), NoiseKinds) /\ QueryJudged(call, j, response, ~Echo)
    BY <1>3, <1>4, <1>5, <1>11, NoiseIs, ListedJudged
  <2>2. (Echo \/ ~Reuse) /\ j.err = "ESP_OK" => j.response.id = call.id
    <3>1. NoResponse.idx = Absent
      BY DEF NoResponse
    <3> QED
      BY <1>5, <1>6, <2>1, <3>1 DEF QueryJudged
  <2>3. ASSUME urcs = 0, j.err = "ESP_ERR_NOT_FOUND", call.idx \in Clients,
               link[call.idx] # "closed"
        PROVE  \E i \in Clients : i < call.idx /\ link[i] # "closed"
    BY <1>3, <1>4, <1>5, <1>11, <2>3, NoiseIs, ShadowJudged
  <2> QED
    BY <1>4, <1>8, <1>11, <2>1, <2>2, <2>3
<1> QED
  BY <1>6, <1>9, <1>10, <1>11 DEF QueryPhase

LEMMA FinishStep == ASSUME TypeInv, StepInv, Finish PROVE StepInv'
<1>1. CASE ~InStep'
  BY <1>1, Vacuous DEF Finish, Return
<1>2. CASE InStep'
  <2>1. call.fn \in Writes \cup Queries
    BY DEF TypeInv, Called, Calls, Finish
  <2> QED
    BY <1>2, <2>1, FinishWriteStep, FinishQueryStep
<1> QED
  BY <1>1, <1>2

\* A step of the modem that changes nothing the caller sees.
LEMMA ModemKeeps ==
  ASSUME StepInv, UNCHANGED <<pc, call, status, response, debt, ahead, urcs, acked>>,
         link' = link \/ pc # "idle" \/ ~InStep
  PROVE  /\ InStep' = InStep /\ NoiseKinds' = NoiseKinds
         /\ Verdicts'
         /\ ((InStep => Phases') => StepInv')
<1>1. InStep' = InStep /\ NoiseKinds' = NoiseKinds
  BY DEF InStep, NoiseKinds
<1>2. Verdicts'
  <2>1. CASE pc # "idle" \/ ~InStep
    BY <1>1, <2>1, Vacuous
  <2>2. CASE link' = link
    BY <2>2 DEF StepInv, Verdicts, ReplyIsOwn, ResultsExact, StateIsTold, NotFoundIsShadowed,
       Returned, InStep
  <2> QED
    BY <2>1, <2>2
<1> QED
  BY <1>1, <1>2 DEF StepInv

\* What the modem can make of a command that is pending.
LEMMA AnswerOnly ==
  ASSUME TypeInv, Noise(rx, NoiseKinds), NEW c, NEW kind,
         rx' = rx \o Answer(c, <<Basic(kind, c)>>)
  PROVE  Only(rx', NoiseKinds, Basic(kind, c))
<1> DEFINE x == Basic(kind, c)
           t == <<x>>
<1>1. PICK S : rx \in Seq(S)
  BY DEF TypeInv
<1>2. rx' = rx \o Answer(c, t)
  OBVIOUS
<1> HIDE DEF x
<1>3. t \in Seq({x})
  BY Single
<1> HIDE DEF t
<1>4. \E m : Ends(rx', NoiseKinds, t, m)
  BY <1>1, <1>2, <1>3, NoiseIs, AnswerEnds
<1>5. Only(rx', NoiseKinds, x)
  BY <1>4, EndsOnly DEF t
<1> QED
  BY <1>5 DEF x

LEMMA AnswerListed ==
  ASSUME TypeInv, Noise(rx, NoiseKinds), NEW c,
         rx' = rx \o Answer(c, StateLines(c) \o <<Basic("ok", c)>>)
  PROVE  Listed(rx', NoiseKinds, c) /\ FirstTold(rx', c)
<1> DEFINE s == StateLines(c)
           x == Basic("ok", c)
           t == s \o <<x>>
<1>1. PICK S : rx \in Seq(S)
  BY DEF TypeInv
<1>2. rx' = rx \o Answer(c, t)
  OBVIOUS
<1>3. PICK R : s \in Seq(R)
  BY States
<1> HIDE DEF s, x
<1>4. <<x>> \in Seq({x})
  BY Single
<1>5. t \in Seq(R \cup {x})
  BY <1>3, <1>4
<1> HIDE DEF t
<1>6. PICK m : Ends(rx', NoiseKinds, t, m)
  BY <1>1, <1>2, <1>5, NoiseIs, AnswerEnds
<1>7. Ends(rx', NoiseKinds, StateLines(c) \o <<Basic("ok", c)>>, m)
  BY <1>6 DEF t, s, x
<1> QED
  BY <1>7, NoiseIs, EndsListed DEF NoiseOnly

LEMMA RefusedOrLost ==
  ASSUME TypeInv, Noise(rx, NoiseKinds), NEW c,
         rx' \in {rx, rx \o Answer(c, <<Basic("error", c)>>)}
  PROVE  Refusal(rx', NoiseKinds, c)
BY AnswerOnly DEF Refusal

LEMMA ModemStep == ASSUME TypeInv, StepInv, ModemTakes PROVE StepInv'
<1>1. /\ UNCHANGED <<pc, call, status, response, link, debt, ahead, urcs, acked>>
      /\ tx # <<>> /\ tx' = Tail(tx)
  BY DEF ModemTakes
<1>2. NoiseKinds' = NoiseKinds /\ ((InStep => Phases') => StepInv')
  BY <1>1, ModemKeeps
<1>3. SUFFICES ASSUME InStep PROVE Phases'
  BY <1>1, <1>2, ModemKeeps
<1>4. PICK part \in {"cmd", "data"} : tx = <<Item(part, call)>>
  BY <1>1, <1>3 DEF StepInv, Phases, IdlePhase, PromptPhase, QueryPhase, WritePhase, Pending,
     TypeInv, Called, Calls
<1>5. pc # "idle" /\ Called(call, nextId, usedMsgids) /\ Pending(call)
      /\ Noise(rx, NoiseKinds) /\ jobs = {}
  <2>1. pc # "idle"
    BY <1>1, <1>3 DEF StepInv, Phases, IdlePhase
  <2>2. CASE pc = "prompt"
    BY <1>1, <1>3, <2>2 DEF StepInv, Phases, PromptPhase, TypeInv
  <2>3. CASE pc = "read" /\ call.fn \in Queries
    BY <1>1, <1>3, <2>3 DEF StepInv, Phases, QueryPhase, TypeInv
  <2>4. CASE pc = "read" /\ call.fn \in Writes
    BY <1>1, <1>3, <2>4 DEF StepInv, Phases, WritePhase, TypeInv
  <2> QED
    BY <2>1, <2>2, <2>3, <2>4 DEF TypeInv, Called, Calls
<1>6. Head(tx) = Item(part, call) /\ tx' = <<>> /\ tx' = Tail(tx)
  <2> DEFINE x == Item(part, call)
  <2> HIDE DEF x
  <2>1. tx = <<x>>
    BY <1>4 DEF x
  <2>2. Head(<<x>>) = x /\ Tail(<<x>>) = <<>>
    OBVIOUS
  <2> QED
    BY <1>1, <2>1, <2>2 DEF x
<1>7. Head(tx).part = part /\ Head(tx).call = call
  BY <1>6 DEF Item
<1>8. PICK S : rx \in Seq(S)
  BY DEF TypeInv
<1>9. call.fn \in Writes => call.fn \notin Queries
  BY DEF Writes, Queries
<1>10. call.id \notin acked \/ call.fn \in Queries
  <2>1. CASE pc = "prompt"
    BY <1>1, <1>3, <2>1 DEF StepInv, Phases, PromptPhase
  <2>2. CASE pc = "read" /\ call.fn \in Writes
    <3>1. tx # <<>> /\ WritePhase
      BY <1>1, <1>3, <2>2 DEF StepInv, Phases
    <3> QED
      BY <3>1 DEF WritePhase
  <2> QED
    BY <1>5, <2>1, <2>2 DEF TypeInv, Called, Calls
<1>11. CASE mode = "command"
  <2>1. \/ /\ call.fn \in Queries
           /\ rx' = rx \o Answer(call, StateLines(call) \o <<Basic("ok", call)>>)
           /\ UNCHANGED <<jobs, mode, dcall>>
        \/ /\ call.fn = "publish" /\ rx' = rx \o Answer(call, <<Basic("prompt", call)>>)
           /\ mode' = "data" /\ dcall' = call /\ UNCHANGED jobs
        \/ /\ call.fn \in Writes \ {"publish"} /\ rx' = rx \o Answer(call, <<Basic("ok", call)>>)
           /\ jobs' = jobs \cup {[call |-> call, again |-> FALSE]}
           /\ UNCHANGED <<mode, dcall>>
        \/ /\ rx' \in {rx, rx \o Answer(call, <<Basic("error", call)>>)}
           /\ UNCHANGED <<jobs, mode, dcall>>
    BY <1>7, <1>11 DEF ModemTakes
  <2>2. ~(call.fn = "publish" /\ pc = "read")
    BY <1>5, <1>11 DEF Pending
  <2>3. CASE /\ call.fn \in Queries
             /\ rx' = rx \o Answer(call, StateLines(call) \o <<Basic("ok", call)>>)
             /\ UNCHANGED <<jobs, mode, dcall>>
    <3>1. Listed(rx', NoiseKinds, call) /\ FirstTold(rx', call)
      BY <1>5, <2>3, AnswerListed
    <3>2. FirstTold(rx', call) => FirstTold(rx, call)'
      BY <1>1 DEF FirstTold, FirstAt, Told, StateNums
    <3>3. QueryPhase'
      BY <1>1, <1>2, <1>5, <1>6, <1>11, <2>3, <3>1, <3>2 DEF QueryPhase
    <3>4. pc = "read"
      BY <1>5, <2>3 DEF TypeInv, Queries
    <3> QED
      BY <1>1, <1>9, <2>3, <3>3, <3>4 DEF Phases
  <2>4. CASE /\ call.fn = "publish" /\ rx' = rx \o Answer(call, <<Basic("prompt", call)>>)
             /\ mode' = "data" /\ dcall' = call /\ UNCHANGED jobs
    <3>1. Only(rx', NoiseKinds, Basic("prompt", call))
      BY <1>5, <2>4, AnswerOnly
    <3>2. pc = "prompt" /\ call.fn \notin Queries
      BY <1>5, <2>2, <2>4 DEF TypeInv, Queries
    <3>3. PromptPhase'
      BY <1>1, <1>2, <1>5, <1>6, <1>10, <2>4, <3>1, <3>2 DEF PromptPhase
    <3> QED
      BY <1>1, <3>2, <3>3 DEF Phases
  <2>5. CASE /\ call.fn \in Writes \ {"publish"}
             /\ rx' = rx \o Answer(call, <<Basic("ok", call)>>)
             /\ jobs' = jobs \cup {[call |-> call, again |-> FALSE]}
             /\ UNCHANGED <<mode, dcall>>
    <3>1. Accepted(rx', NoiseKinds, call)
      BY <1>5, <2>5, AnswerOnly, OnlyOk
    <3>2. pc = "read"
      BY <1>5, <2>5 DEF TypeInv
    <3>3. jobs' = {[call |-> call', again |-> FALSE]}
      BY <1>1, <1>5, <2>5
    <3>4. WritePhase'
      BY <1>1, <1>2, <1>6, <1>9, <1>10, <1>11, <2>5, <3>1, <3>3 DEF WritePhase
    <3> QED
      BY <1>1, <1>9, <2>5, <3>2, <3>4 DEF Phases
  <2>6. CASE /\ rx' \in {rx, rx \o Answer(call, <<Basic("error", call)>>)}
             /\ UNCHANGED <<jobs, mode, dcall>>
    <3>1. Refusal(rx', NoiseKinds, call)
      BY <1>5, <2>6, RefusedOrLost
    <3>2. pc = "prompt" => PromptPhase'
      <4>1. pc = "prompt" => call.fn \notin Queries
        BY DEF TypeInv, Queries
      <4> QED
        BY <1>1, <1>2, <1>5, <1>6, <1>10, <1>11, <2>6, <3>1, <4>1 DEF PromptPhase
    <3>3. call.fn \in Queries => QueryPhase'
      BY <1>1, <1>2, <1>5, <1>6, <1>11, <2>6, <3>1 DEF QueryPhase
    <3>4. call.fn \in Writes => WritePhase'
      BY <1>1, <1>2, <1>5, <1>6, <1>9, <1>10, <1>11, <2>6, <3>1 DEF WritePhase
    <3> QED
      BY <1>1, <1>5, <3>2, <3>3, <3>4 DEF Phases
  <2> QED
    BY <2>1, <2>3, <2>4, <2>5, <2>6
<1>12. CASE mode = "data"
  <2>1. call.fn = "publish" /\ pc = "read" /\ dcall = call /\ part = "data"
    <3>1. call.fn = "publish" /\ pc = "read" /\ dcall = call /\ tx = <<Item("data", call)>>
      BY <1>5, <1>12 DEF Pending
    <3>2. Item(part, call) = Item("data", call)
      <4> DEFINE x == Item(part, call)
                 y == Item("data", call)
      <4>1. <<x>> = <<y>>
        BY <1>4, <3>1
      <4> HIDE DEF x, y
      <4>2. x = y
        BY <4>1
      <4> QED
        BY <4>2 DEF x, y
    <3>3. part = "data"
      BY <3>2 DEF Item
    <3> QED
      BY <3>1, <3>3
  <2>2. /\ rx' = Append(rx, Basic("ok", call))
        /\ jobs' = jobs \cup {[call |-> call, again |-> FALSE]}
        /\ mode' = "command"
    BY <1>7, <1>12, <2>1 DEF ModemTakes
  <2> DEFINE x == Basic("ok", call)
  <2>3. Longer(rx', rx, x)
    <3> HIDE DEF x
    <3> QED
      BY <1>8, <2>2, LongerIs DEF x
  <2>4. Accepted(rx', NoiseKinds, call)
    BY <1>5, <2>3, AnswerLonger
  <2>5. jobs' = {[call |-> call', again |-> FALSE]}
    BY <1>1, <1>5, <2>2
  <2>6. call.fn \notin Queries
    BY <2>1 DEF Queries
  <2>7. WritePhase'
    BY <1>1, <1>2, <1>6, <1>10, <2>2, <2>4, <2>5, <2>6 DEF WritePhase
  <2> QED
    BY <1>1, <2>1, <2>6, <2>7 DEF Phases
<1> QED
  BY <1>11, <1>12 DEF TypeInv

LEMMA JobStep == ASSUME TypeInv, StepInv, JobEnds \/ JobRetransmits PROVE StepInv'
<1>1. /\ UNCHANGED <<pc, call, status, response, tx, mode, dcall, urcs, debt, ahead>>
      /\ jobs # {}
  BY DEF JobEnds, JobRetransmits
<1>2. InStep' = InStep /\ NoiseKinds' = NoiseKinds
  BY <1>1 DEF InStep, NoiseKinds
<1>3. CASE ~InStep
  BY <1>1, <1>2, <1>3, Vacuous DEF StepInv
<1>4. CASE InStep
  <2>1. pc = "read" /\ call.fn \in Writes /\ call.fn \notin Queries
    BY <1>1, <1>4 DEF StepInv, Phases, IdlePhase, PromptPhase, QueryPhase, TypeInv, Called, Calls
  <2>2. PICK a \in BOOLEAN :
          /\ tx = <<>> /\ mode = "command" /\ Accepted(rx, NoiseKinds, call)
          /\ call.id \notin acked /\ jobs = {[call |-> call, again |-> a]}
    BY <1>1, <1>4, <2>1 DEF StepInv, Phases, WritePhase
  <2>3. SUFFICES WritePhase'
    BY <1>1, <2>1, Vacuous DEF StepInv, Phases
  <2> DEFINE x == [call |-> call, again |-> a]
  <2>4. x.call = call /\ x \in [call : Calls, again : BOOLEAN] /\ jobs = {x}
    BY <2>2 DEF TypeInv
  <2> HIDE DEF x
  <2>5. [x EXCEPT !.again = TRUE] = [call |-> call, again |-> TRUE]
    <3> DEFINE e == [x EXCEPT !.again = TRUE]
    <3>1. e \in [call : Calls, again : BOOLEAN] /\ e.call = x.call /\ e.again = TRUE
      BY <2>4
    <3> HIDE DEF e
    <3>2. e = [call |-> e.call, again |-> e.again]
      BY <3>1
    <3> QED
      BY <2>4, <3>1, <3>2 DEF e
  <2>6. PICK S : rx \in Seq(S)
    BY DEF TypeInv
  <2>7. ASSUME NEW r, rx' = Append(rx, ResultLine(call, r))
        PROVE  Longer(rx', rx, ResultLine(call, r))
    <3> DEFINE y == ResultLine(call, r)
    <3>1. rx' = Append(rx, y)
      BY <2>7
    <3> HIDE DEF y
    <3>2. Longer(rx', rx, y)
      BY <2>6, <3>1, LongerIs
    <3> QED
      BY <3>2 DEF y
  <2>8. CASE JobEnds
    <3>1. PICK r \in {Success, Failed(call)} :
            /\ rx' = Append(rx, ResultLine(call, r)) /\ jobs' = {}
            /\ r = Success => acked' = acked \cup {call.id}
            /\ r # Success => acked' = acked
      <4>1. Failed(call) # Success
        BY DEF Failed, Success
      <4>2. /\ jobs' = {}
            /\ \/ acked' = acked \cup {call.id} /\ rx' = Append(rx, ResultLine(call, Success))
               \/ acked' = acked /\ rx' = Append(rx, ResultLine(call, Failed(call)))
        BY <2>4, <2>8 DEF JobEnds
      <4> QED
        BY <4>1, <4>2
    <3>2. Completed(rx', NoiseKinds, call, r)
      BY <2>2, <2>7, <3>1, AnswerLonger
    <3>3. Result0' = r
      BY <1>1, <2>2, <3>1 DEF Result0, Failed
    <3> QED
      BY <1>1, <1>2, <2>2, <3>1, <3>2, <3>3 DEF WritePhase
  <2>9. CASE JobRetransmits
    <3>1. /\ call.fn \in Packets /\ rx' = Append(rx, ResultLine(call, Retransmission))
          /\ jobs' = {[call |-> call, again |-> TRUE]} /\ acked' = acked
      BY <2>4, <2>5, <2>9 DEF JobRetransmits
    <3>2. Again(call, ResultLine(call, Retransmission))
      BY <3>1 DEF Again
    <3>3. Accepted(rx', NoiseKinds, call)
      BY <2>2, <2>7, <3>1, <3>2, AnswerLonger
    <3>4. jobs' = {[call |-> call', again |-> TRUE]}
      BY <1>1, <3>1
    <3> QED
      BY <1>1, <1>2, <2>2, <3>1, <3>3, <3>4 DEF WritePhase
  <2> QED
    BY <2>8, <2>9
<1> QED
  BY <1>3, <1>4

LEMMA UnsolicitedStep == ASSUME TypeInv, StepInv, Unsolicited PROVE StepInv'
<1>1. /\ UNCHANGED <<pc, call, status, response, tx, jobs, mode, dcall, acked, debt, ahead>>
      /\ urcs' = urcs + 1
  BY DEF Unsolicited
<1>2. urcs' # 0
  BY <1>1 DEF TypeInv
<1>3. PICK i \in Clients, kind \in UrcKinds :
        rx' = Append(rx, [kind |-> kind, name |-> "QMTSTAT", nums |-> <<i, 1>>, id |-> 0])
  BY DEF Unsolicited
<1> DEFINE x == [kind |-> kind, name |-> "QMTSTAT", nums |-> <<i, 1>>, id |-> 0]
           K == NoiseKinds
           L == {"echo"} \cup UrcKinds
<1>4. x.kind \in L
  OBVIOUS
<1>5. Longer(rx', rx, x)
  <2>1. rx' = Append(rx, x)
    BY <1>3
  <2>2. PICK S : rx \in Seq(S)
    BY DEF TypeInv
  <2> HIDE DEF x
  <2> QED
    BY <2>1, <2>2, LongerIs
<1> HIDE DEF x
<1>6. NoiseKinds' = L /\ K \subseteq L
  BY <1>2 DEF NoiseKinds
<1> HIDE DEF K, L
<1>7. /\ Noise(rx, K) => Noise(rx', L)
      /\ \A y : Only(rx, K, y) => Only(rx', L, y)
      /\ Refusal(rx, K, call) => Refusal(rx', L, call)
      /\ Accepted(rx, K, call) => Accepted(rx', L, call)
      /\ \A r : Completed(rx, K, call, r) => Completed(rx', L, call, r)
      /\ Listed(rx, K, call) => Listed(rx', L, call)
  BY <1>4, <1>5, <1>6, NoiseLonger
<1>8. InStep' = InStep
  BY <1>1 DEF InStep
<1>9. Verdicts'
  BY <1>1, <1>2, <1>8 DEF StepInv, Verdicts, ReplyIsOwn, ResultsExact, StateIsTold,
     NotFoundIsShadowed, Returned
<1>10. SUFFICES ASSUME InStep PROVE Phases'
  BY <1>1, <1>8, <1>9 DEF StepInv
<1>11. Phases
  BY <1>10 DEF StepInv
<1>12. Pending(call) => Pending(call)'
  BY <1>1 DEF Pending
<1>13. pc = "idle" => IdlePhase'
  BY <1>1, <1>6, <1>7, <1>11 DEF Phases, IdlePhase, K
<1>14. pc = "prompt" => PromptPhase'
  BY <1>1, <1>6, <1>7, <1>11, <1>12 DEF Phases, PromptPhase, K
<1>15. pc = "read" /\ call.fn \in Queries => QueryPhase'
  BY <1>1, <1>2, <1>6, <1>7, <1>11, <1>12 DEF Phases, QueryPhase, K
<1>16. pc = "read" /\ call.fn \in Writes => WritePhase'
  <2>1. Result0' = Result0
    BY <1>1 DEF Result0, Failed
  <2> HIDE DEF Result0
  <2>2. Completed(rx, K, call, Result0) => Completed(rx', L, call, Result0)
    BY <1>7
  <2>3. (\E a \in BOOLEAN : jobs = {[call |-> call, again |-> a]})
          => \E a \in BOOLEAN : jobs' = {[call |-> call', again |-> a]}
    BY <1>1
  <2> QED
    BY <1>1, <1>6, <1>7, <1>11, <1>12, <2>1, <2>2, <2>3 DEF Phases, WritePhase, K
<1> QED
  BY <1>1, <1>13, <1>14, <1>15, <1>16 DEF Phases

LEMMA StepStep == TypeInv /\ StepInv /\ [Next]_vars => StepInv'
<1>1. SUFFICES ASSUME TypeInv, StepInv, [Next]_vars PROVE StepInv'
  OBVIOUS
<1>2. CASE UNCHANGED vars
  <2>1. UNCHANGED <<pc, call, status, response, link, debt, ahead, urcs, acked>>
    BY <1>2 DEF vars
  <2>2. SUFFICES ASSUME InStep PROVE Phases'
    BY <1>1, <2>1, ModemKeeps
  <2>3. UNCHANGED <<tx, rx, jobs, mode, dcall>> /\ NoiseKinds' = NoiseKinds /\ Result0' = Result0
    BY <1>2 DEF vars, NoiseKinds, Result0, Failed
  <2>4. Pending(call)' = Pending(call) /\ FirstTold(rx, call)' = FirstTold(rx, call)
    BY <2>1, <2>3 DEF Pending, FirstTold, FirstAt, Told, StateNums
  <2> QED
    BY <1>1, <2>1, <2>2, <2>3, <2>4 DEF StepInv, Phases, IdlePhase, PromptPhase, QueryPhase,
       WritePhase
<1> QED
  BY <1>1, <1>2, CallsBegin, BeginStep, SendStep, FinishStep, GiveUpStep, ModemStep, JobStep,
     UnsolicitedStep DEF Next

LEMMA AlwaysStep == Spec => []StepInv
BY AlwaysTypes, InitStep, StepStep, PTL DEF Spec

\* A result that bg95_mqtt_open_network and the calls that follow it hand to their
\* caller is the one of their own operation, though neither client nor message id
\* is compared: as long as no call has given up or gone on too early, whatever news
\* comes in between.
THEOREM RepliesAreOwn == Spec => []ReplyIsOwn
<1>1. StepInv => ReplyIsOwn
  BY DEF StepInv, Verdicts
<1> QED
  BY <1>1, AlwaysStep, PTL

\* If no unsolicited line has the letters OK in it, they succeed if and only if the
\* modem completed that operation.
THEOREM VerdictsAreExact ==
  ASSUME "urcok" \notin UrcKinds
  PROVE  Spec => []ResultsExact
<1>1. StepInv => ResultsExact
  BY DEF StepInv, Verdicts
<1> QED
  BY <1>1, AlwaysStep, PTL

\* If the modem echoes commands, or the caller passes a cleared structure, a state
\* bg95_mqtt_network_open_status or bg95_mqtt_query_connection_state returns is one
\* it was told.
THEOREM StatesAreTold ==
  ASSUME Echo \/ ~Reuse
  PROVE  Spec => []StateIsTold
<1>1. StepInv => StateIsTold
  BY DEF StepInv, Verdicts
<1> QED
  BY <1>1, AlwaysStep, PTL

\* A client with a network connection is reported as not found only if a client
\* with a smaller index has one too, for only the first line is looked at.
THEOREM NotFoundOnlyInShadow == Spec => []NotFoundIsShadowed
<1>1. StepInv => NotFoundIsShadowed
  BY DEF StepInv, Verdicts
<1> QED
  BY <1>1, AlwaysStep, PTL
================================================================================
