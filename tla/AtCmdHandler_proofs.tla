------------------------- MODULE AtCmdHandler_proofs -------------------------
(* Theorems about AtCmdHandler, for all values of its constants; and that it   *)
(* implements AtCall.                                                          *)
EXTENDS AtCmdHandlerPort, SequenceTheorems, TLAPS

\* The pieces that are unsolicited, the end of a line, or part of the answer to
\* call i: OnlyOf as the element set of a sequence.
Owned(i) == {p \in Piece : p.kind \in Harmless \/ p.id = i}

\* OnlyOf(i, s) says that s is a sequence over Owned(i).
LEMMA OnlyOfIsSeq ==
  ASSUME NEW i, NEW s \in Seq(Piece)
  PROVE  OnlyOf(i, s) <=> s \in Seq(Owned(i))
<1>1. ASSUME OnlyOf(i, s) PROVE s \in Seq(Owned(i))
  <2>1. s \in [1..Len(s) -> Piece] /\ DOMAIN s = 1..Len(s) /\ Len(s) \in Nat
    BY LenProperties
  <2>2. s \in [1..Len(s) -> Owned(i)]
    BY <1>1, <2>1 DEF OnlyOf, Owned
  <2> QED BY <2>1, <2>2, SeqDef
<1>2. ASSUME s \in Seq(Owned(i)) PROVE OnlyOf(i, s)
  <2>1. s \in [1..Len(s) -> Owned(i)] /\ DOMAIN s = 1..Len(s)
    BY <1>2, LenProperties
  <2> QED BY <2>1 DEF OnlyOf, Owned
<1> QED BY <1>1, <1>2

\* What the operations on the line do to the set its elements are drawn from.
LEMMA SeqSteps ==
  ASSUME NEW S, NEW s \in Seq(S)
  PROVE  /\ <<>> \in Seq(S)
         /\ \A e \in S : Append(s, e) \in Seq(S)
         /\ \A r \in Seq(S) : s \o r \in Seq(S)
         /\ \A n \in Nat : n <= Len(s) =>
              SubSeq(s, n + 1, Len(s)) \in Seq(S) /\ SubSeq(s, 1, n) \in Seq(S)
         /\ s # <<>> => Head(s) \in S /\ Tail(s) \in Seq(S)
<1>1. ASSUME NEW n \in Nat, n <= Len(s)
      PROVE  SubSeq(s, n + 1, Len(s)) \in Seq(S) /\ SubSeq(s, 1, n) \in Seq(S)
  <2>1. Len(s) \in Nat /\ \A k \in 1..Len(s) : s[k] \in S
    BY LenProperties, ElementOfSeq
  <2>2. SubSeq(s, n + 1, Len(s)) \in Seq(S)
    <3>1. \A k \in (n + 1)..Len(s) : s[k] \in S
      BY <2>1
    <3> QED BY <2>1, <3>1, SubSeqProperties
  <2>3. SubSeq(s, 1, n) \in Seq(S)
    <3>1. \A k \in 1..n : s[k] \in S
      BY <1>1, <2>1
    <3> QED BY <2>1, <3>1, SubSeqProperties
  <2> QED BY <2>2, <2>3
<1>2. /\ <<>> \in Seq(S)
      /\ \A e \in S : Append(s, e) \in Seq(S)
      /\ \A r \in Seq(S) : s \o r \in Seq(S)
  BY EmptySeq, AppendProperties, ConcatProperties
<1>3. s # <<>> => Head(s) \in S /\ Tail(s) \in Seq(S)
  BY HeadTailProperties
<1> QED BY <1>1, <1>2, <1>3

\* The modem's answers are built of pieces for the call they answer, none of
\* them the prompt.
LEMMA AnswersIn ==
  ASSUME NEW c \in Cmds, NEW i \in CallIds \cup {NoCall}, NEW S,
         \A kind \in Kinds \ {"prompt"} : P(kind, c, i) \in S
  PROVE  /\ \A a \in Answers(c, i) : a \in Seq(S)
         /\ \A a \in Failures(c, i) : a \in Seq(S)
         /\ \A e \in EchoesOf(c, i) : e \in Seq(S)
<1>1. /\ <<P("error", c, i)>> \in Seq(S) /\ <<P("ok", c, i)>> \in Seq(S)
      /\ <<P("cme", c, i), P("cmetail", c, i)>> \in Seq(S)
      /\ <<P("head", c, i), P("tail", c, i)>> \in Seq(S)
      /\ <<>> \in Seq(S)
  BY DEF Kinds
<1>2. /\ <<P("head", c, i), P("tail", c, i)>> \o <<P("ok", c, i)>> \in Seq(S)
      /\ <<P("ok", c, i)>> \o <<P("head", c, i), P("tail", c, i)>> \in Seq(S)
  BY <1>1, ConcatProperties
<1>3. \A a \in Failures(c, i) : a \in Seq(S)
  BY <1>1 DEF Failures
<1>4. \A a \in Answers(c, i) : a \in Seq(S)
  BY <1>1, <1>2, <1>3 DEF Answers
<1>5. \A e \in EchoesOf(c, i) : e \in Seq(S)
  <2>1. \A kind \in Echo : P(kind, c, i) \in S
    BY HandlerAssumption DEF Kinds, Echoes
  <2>2. \A kind \in Echo : <<P(kind, c, i)>> \in Seq(S)
    BY <2>1
  <2>3. CASE Echo = {}
    BY <1>1, <2>3 DEF EchoesOf
  <2>4. CASE Echo # {}
    <3>1. EchoesOf(c, i) = {<<P(kind, c, i)>> : kind \in Echo}
      BY <2>4, Zenon DEF EchoesOf
    <3> QED BY <2>2, <3>1, Zenon
  <2> QED BY <2>3, <2>4
<1> QED BY <1>3, <1>4, <1>5

LEMMA AnswersOwned ==
  ASSUME NEW c \in Cmds, NEW i \in CallIds \cup {NoCall}
  PROVE  /\ \A a \in Answers(c, i) : a \in Seq(Owned(i))
         /\ \A a \in Failures(c, i) : a \in Seq(Owned(i))
         /\ <<P("prompt", c, i)>> \in Seq(Owned(i))
         /\ \A e \in EchoesOf(c, i) : e \in Seq(Owned(i))
<1>1. \A kind \in Kinds : P(kind, c, i) \in Owned(i)
  BY DEF P, Piece, Owned, NoCall
<1>2. P("prompt", c, i) \in Owned(i)
  BY <1>1 DEF Kinds
<1> QED BY <1>1, <1>2, AnswersIn

\* Verdict returns one of the handler's codes.
LEMMA VerdictType ==
  ASSUME NEW b, NEW c, NEW r, NEW p PROVE Verdict(b, c, r, p) \in Results
BY DEF Verdict, SpecificResponse, ParserResult, Results, Errors

LEMMA HostTypes ==
  ASSUME TypeOK, NEW t \in Tasks
  PROVE  /\ pc[t] \in {"idle", "prompt", "read"} /\ cmd[t] \in Cmds
         /\ id[t] \in CallIds \cup {NoCall} /\ buf[t] \in Seq(Piece)
         /\ left[t] \in Nat /\ quiet[t] \in BOOLEAN /\ CallIds \subseteq Nat
         /\ Timeout[cmd[t]] \in Nat /\ PromptTimeout \in Nat
BY HandlerAssumption DEF TypeOK, CallIds

\* The modem takes up a written item: the new state of the modem is well typed.
LEMMA ModemTakesType ==
  ASSUME TypeOK, ModemTakes PROVE TypeOK'
<1>1. Head(tx) \in Written /\ Tail(tx) \in Seq(Written)
  BY HeadTailProperties DEF ModemTakes, TypeOK
<1>2. CallIds \subseteq CallIds \cup {NoCall} /\ dcall.cmd \in Cmds
      /\ dcall.id \in CallIds \cup {NoCall}
      /\ Head(tx).cmd \in Cmds /\ Head(tx).id \in CallIds
  BY <1>1 DEF TypeOK, Written
<1>3. \A i : Owned(i) \subseteq Piece
  BY DEF Owned
<1>4. \A c \in Cmds, i \in CallIds \cup {NoCall} :
        /\ Answers(c, i) \subseteq Seq(Piece) /\ Failures(c, i) \subseteq Seq(Piece)
        /\ <<P("prompt", c, i)>> \in Seq(Piece) /\ EchoesOf(c, i) \subseteq Seq(Piece)
  BY <1>3, AnswersOwned, SeqMonotonic
<1>5. \A c \in Cmds, i \in CallIds \cup {NoCall} :
        \A e \in EchoesOf(c, i),
           a \in Answers(c, i) \cup Failures(c, i) \cup {<<P("prompt", c, i)>>} :
          e \o a \in Seq(Piece)
  BY <1>4, ConcatProperties
<1>6. out' \in Seq(Piece)
  <2>1. CASE mode = "command" /\ Head(tx).part = "cmd"
    BY <1>2, <1>5, <2>1 DEF ModemTakes
  <2>2. CASE mode = "command" /\ Head(tx).part = "data"
    BY <1>2, <1>4, <2>2 DEF ModemTakes
  <2>3. CASE mode = "data"
    BY <1>2, <1>4, <2>3 DEF ModemTakes, TypeOK
  <2> QED BY <2>1, <2>2, <2>3 DEF ModemTakes
<1>7. dcall' \in [cmd : Cmds, id : CallIds \cup {NoCall}] /\ mode' \in {"command", "data"}
  BY <1>2 DEF ModemTakes, TypeOK
<1> QED BY <1>1, <1>6, <1>7 DEF ModemTakes, TypeOK, host

LEMMA ModemSendsType ==
  ASSUME TypeOK, ModemSends \/ ModemSendsUrc PROVE TypeOK'
<1>1. \A p \in Piece : Deliver(p) => rx' \in Seq(Piece)
  BY AppendProperties DEF Deliver, TypeOK
<1>2. CASE ModemSends
  <2>1. Head(out) \in Piece /\ Tail(out) \in Seq(Piece)
    BY <1>2, HeadTailProperties DEF ModemSends, TypeOK
  <2> QED BY <1>1, <1>2, <2>1 DEF ModemSends, TypeOK, host
<1>3. CASE ModemSendsUrc
  <2>1. \A kind \in UrcKinds : P(kind, CHOOSE c \in Cmds : TRUE, NoCall) \in Piece
    BY HandlerAssumption DEF P, Piece, Kinds, Urcs, NoCall
  <2> QED BY <1>1, <1>3, <2>1, HandlerAssumption DEF ModemSendsUrc, TypeOK, host
<1> QED BY <1>2, <1>3

\* Ending a call, or entering one of its loops, keeps the task's state well typed.
LEMMA ReturnType ==
  ASSUME TypeOK, NEW t \in Tasks, NEW i \in CallIds, NEW r \in Results, NEW a \in BOOLEAN,
         NEW loop \in {"prompt", "read"}, NEW time \in Nat,
         Return(t, i, r, a) \/ Goto(t, loop, time)
  PROVE  /\ pc' \in [Tasks -> {"idle", "prompt", "read"}] /\ left' \in [Tasks -> Nat]
         /\ result' \in [Tasks -> Results] /\ debt' \subseteq CallIds
<1>1. CASE Return(t, i, r, a)
  BY <1>1 DEF Return, TypeOK
<1>2. CASE Goto(t, loop, time)
  BY <1>2 DEF Goto, TypeOK, Results
<1> QED BY <1>1, <1>2

LEMMA SendCommandType ==
  ASSUME TypeOK, NEW t \in Tasks, NEW c \in Cmds, SendCommand(t, c) PROVE TypeOK'
<1>1. nextId \in CallIds /\ nextId' \in 1..(MaxCalls + 1)
  BY HandlerAssumption DEF SendCommand, CallIds
<1>2. /\ cmd' \in [Tasks -> Cmds] /\ id' \in [Tasks -> CallIds \cup {NoCall}]
      /\ buf' \in [Tasks -> Seq(Piece)] /\ quiet' \in [Tasks -> BOOLEAN]
  <2>1. LineIsQuiet(t) \in BOOLEAN /\ \A u \in Tasks : (quiet[u] /\ pc[u] = "idle") \in BOOLEAN
    BY DEF LineIsQuiet
  <2> QED BY <1>1, <2>1, EmptySeq DEF SendCommand, TypeOK
<1>3. PICK w \in HwWriteOutcomes :
        /\ HwWrite(w, [cmd |-> c, id |-> nextId, part |-> "cmd"])
        /\ \/ /\ w.err # "ESP_OK"
              /\ Return(t, nextId, w.err, w.sent)
           \/ /\ w.err = "ESP_OK"
              /\ IF c \in Prompted THEN Goto(t, "prompt", PromptTimeout)
                                   ELSE Goto(t, "read", Timeout[c])
           \/ /\ w.err = "ESP_OK"
              /\ c \notin Prompted
              /\ Return(t, nextId, "ESP_ERR_NO_MEM", TRUE)
  BY DEF SendCommand
<1>4. tx' \in Seq(Written) /\ rx' \in Seq(Piece)
  <2>1. [cmd |-> c, id |-> nextId, part |-> "cmd"] \in Written
    BY <1>1 DEF Written
  <2> QED BY <1>3, <2>1, AppendProperties, EmptySeq DEF HwWrite, TypeOK
<1>5. /\ pc' \in [Tasks -> {"idle", "prompt", "read"}] /\ left' \in [Tasks -> Nat]
      /\ result' \in [Tasks -> Results] /\ debt' \subseteq CallIds
  <2>1. w.err \in Results /\ "ESP_ERR_NO_MEM" \in Results /\ "none" \in Results
    BY <1>3 DEF HwWriteOutcomes, Results, Errors
  <2>2. Timeout[c] \in Nat /\ PromptTimeout \in Nat
    BY HandlerAssumption
  <2>3. w.sent \in BOOLEAN
    BY <1>3 DEF HwWriteOutcomes
  <2>4. CASE Return(t, nextId, w.err, w.sent) \/ Return(t, nextId, "ESP_ERR_NO_MEM", TRUE)
    BY <1>1, <2>1, <2>3, <2>4, ReturnType
  <2>5. CASE Goto(t, "prompt", PromptTimeout) \/ Goto(t, "read", Timeout[c])
    BY <1>1, <2>1, <2>2, <2>5, ReturnType
  <2> QED BY <1>3, <2>4, <2>5
<1> QED BY <1>1, <1>2, <1>4, <1>5 DEF SendCommand, TypeOK, modem

LEMMA SendPayloadType ==
  ASSUME TypeOK, NEW t \in Tasks, SendPayload(t), id[t] \in CallIds PROVE TypeOK'
<1>1. tx' \in Seq(Written) /\ rx' \in Seq(Piece)
  <2>1. [cmd |-> cmd[t], id |-> id[t], part |-> "data"] \in Written
    BY HostTypes DEF Written
  <2>2. \A n \in 1..ChunkMax : n <= Len(rx) => SubSeq(rx, n + 1, Len(rx)) \in Seq(Piece)
    BY SeqSteps, HandlerAssumption DEF TypeOK
  <2> QED BY <2>1, <2>2, AppendProperties, EmptySeq DEF SendPayload, TypeOK
<1>2. /\ pc' \in [Tasks -> {"idle", "prompt", "read"}] /\ left' \in [Tasks -> Nat]
      /\ result' \in [Tasks -> Results] /\ debt' \subseteq CallIds
  <2>1. \A w \in HwWriteOutcomes : w.err \in Results
    BY DEF HwWriteOutcomes, Results, Errors
  <2>2. PICK w \in HwWriteOutcomes :
          \/ Return(t, id[t], w.err, TRUE)
          \/ Return(t, id[t], "ESP_ERR_NO_MEM", TRUE)
          \/ /\ pc' = [pc EXCEPT ![t] = "read"]
             /\ left' = [left EXCEPT ![t] = Timeout[cmd[t]]]
             /\ result' = result
             /\ debt' \subseteq debt \cup {id[t]}
    BY DEF SendPayload
  <2>3. CASE Return(t, id[t], w.err, TRUE) \/ Return(t, id[t], "ESP_ERR_NO_MEM", TRUE)
    BY <2>1, <2>3, ReturnType DEF Results, Errors
  <2>4. CASE /\ pc' = [pc EXCEPT ![t] = "read"]
             /\ left' = [left EXCEPT ![t] = Timeout[cmd[t]]]
             /\ result' = result
             /\ debt' \subseteq debt \cup {id[t]}
    BY <2>4, HostTypes DEF TypeOK
  <2> QED BY <2>2, <2>3, <2>4
<1> QED BY <1>1, <1>2 DEF SendPayload, TypeOK, modem

LEMMA ReadType ==
  ASSUME TypeOK, NEW t \in Tasks, id[t] \in CallIds,
         DropBeforePrompt(t) \/ Overflow(t) \/ Collect(t) \/ ReadNothing(t) \/ TimeOut(t)
  PROVE  TypeOK'
<1>1. \A n : ReadChunk(n) => /\ n \in Nat /\ n <= Len(rx)
                             /\ rx' \in Seq(Piece) /\ SubSeq(rx, 1, n) \in Seq(Piece)
  BY SeqSteps, HandlerAssumption DEF ReadChunk, TypeOK
<1>2. left[t] > 0 => left[t] - 1 \in Nat /\ left[t] - 0 \in Nat
  BY HostTypes
<1>3. CASE DropBeforePrompt(t)
  BY <1>1, <1>2, <1>3 DEF DropBeforePrompt, TypeOK, modem
<1>4. CASE Overflow(t)
  BY <1>1, <1>4 DEF Overflow, Return, TypeOK, modem, Results, Errors
<1>5. CASE Collect(t)
  <2>1. rx' \in Seq(Piece) /\ buf' \in [Tasks -> Seq(Piece)]
    <3>1. PICK n \in 1..ChunkMax : ReadChunk(n) /\ buf' = [buf EXCEPT ![t] = @ \o SubSeq(rx, 1, n)]
      BY <1>5 DEF Collect
    <3>2. buf[t] \o SubSeq(rx, 1, n) \in Seq(Piece)
      BY <1>1, <3>1, HostTypes, ConcatProperties
    <3> QED BY <1>1, <3>1, <3>2 DEF TypeOK
  <2>2. /\ pc' \in [Tasks -> {"idle", "prompt", "read"}] /\ left' \in [Tasks -> Nat]
        /\ result' \in [Tasks -> Results] /\ debt' \subseteq CallIds
    <3>1. CASE Return(t, id[t], Verdict(buf'[t], cmd[t], RType[cmd[t]], Parser[cmd[t]]), FALSE)
      BY <3>1, VerdictType, ReturnType
    <3>2. CASE /\ \E time \in {0, 1} : left' = [left EXCEPT ![t] = @ - time]
               /\ UNCHANGED <<pc, result, debt>>
      <4>1. left[t] > 0
        BY <1>5 DEF Collect
      <4>2. left' \in [Tasks -> Nat]
        BY <1>2, <3>2, <4>1 DEF TypeOK
      <4> QED BY <3>2, <4>2 DEF TypeOK
    <3> QED BY <1>5, <3>1, <3>2 DEF Collect
  <2> QED BY <1>5, <2>1, <2>2 DEF Collect, TypeOK, modem
<1>6. CASE ReadNothing(t)
  BY <1>2, <1>6 DEF ReadNothing, TypeOK, modem
<1>7. CASE TimeOut(t)
  BY <1>7 DEF TimeOut, Return, TypeOK, modem, Results, Errors
<1> QED BY <1>3, <1>4, <1>5, <1>6, <1>7

\* A task in a call has a call number.
CallHasId == \A t \in Tasks : pc[t] # "idle" => id[t] \in CallIds

LEMMA CallHasIdStep ==
  ASSUME TypeOK, CallHasId, Next PROVE CallHasId'
<1>1. ASSUME NEW t \in Tasks, NEW c \in Cmds, SendCommand(t, c) PROVE CallHasId'
  BY <1>1 DEF SendCommand, Return, Goto, CallHasId, TypeOK
<1>2. ASSUME NEW t \in Tasks, RejectCall(t) \/ DropBeforePrompt(t) \/ ReadNothing(t)
      PROVE  CallHasId'
  BY <1>2 DEF RejectCall, DropBeforePrompt, ReadNothing, CallHasId, TypeOK
<1>3. ASSUME NEW t \in Tasks, Overflow(t) \/ TimeOut(t) PROVE CallHasId'
  BY <1>3 DEF Overflow, TimeOut, Return, CallHasId, TypeOK
<1>4. ASSUME NEW t \in Tasks, Collect(t) PROVE CallHasId'
  BY <1>4 DEF Collect, Return, CallHasId, TypeOK
<1>5. ASSUME NEW t \in Tasks, SendPayload(t) PROVE CallHasId'
  <2>1. id' = id /\ pc[t] # "idle" /\ \A u \in Tasks \ {t} : pc'[u] = pc[u]
    BY <1>5 DEF SendPayload, Return, TypeOK
  <2> QED BY <2>1 DEF CallHasId
<1>6. CASE Modem
  BY <1>6 DEF Modem, ModemTakes, ModemSends, ModemSendsUrc, host, CallHasId
<1> QED BY <1>1, <1>2, <1>3, <1>4, <1>5, <1>6 DEF Next, Progress

LEMMA TypeOKStep ==
  ASSUME TypeOK, CallHasId, Next PROVE TypeOK'
<1>1. ASSUME NEW t \in Tasks, RejectCall(t) PROVE TypeOK'
  BY <1>1, EmptySeq, HandlerAssumption DEF RejectCall, TypeOK, modem, Results, Errors
<1>2. ASSUME NEW t \in Tasks, Progress(t) PROVE TypeOK'
  <2>1. id[t] \in CallIds
    BY <1>2 DEF Progress, DropBeforePrompt, SendPayload, Overflow, Collect,
                ReadNothing, TimeOut, CallHasId
  <2> QED BY <1>2, <2>1, SendPayloadType, ReadType DEF Progress
<1> QED BY <1>1, <1>2, SendCommandType, ModemTakesType, ModemSendsType DEF Next, Modem

\* Every state of the handler, the line and the modem is well typed, for every
\* set of tasks and commands and every size of the buffers; in particular the
\* buffers only ever hold pieces the modem sent.
THEOREM TypeCorrect == Spec => []TypeOK
<1>1. Init => TypeOK /\ CallHasId
  BY HandlerAssumption, EmptySeq DEF Init, TypeOK, CallHasId, Results, CallIds, NoCall
<1>2. TypeOK /\ CallHasId /\ [Next]_vars => TypeOK' /\ CallHasId'
  <2>1. CASE UNCHANGED vars
    BY <2>1 DEF vars, TypeOK, CallHasId
  <2> QED BY <2>1, TypeOKStep, CallHasIdStep
<1> QED BY <1>1, <1>2, PTL DEF Spec

-------------------------------------------------------------------------------
(* The ownership of replies.                                                   *)

\* Reading from the line leaves what is left, and what was read, with its owner.
LEMMA ReadOwned ==
  ASSUME TypeOK, NEW i, NEW n \in Nat, n <= Len(rx), OnlyOf(i, rx)
  PROVE  /\ OnlyOf(i, SubSeq(rx, n + 1, Len(rx)))
         /\ \A b \in Seq(Piece) : OnlyOf(i, b) => OnlyOf(i, b \o SubSeq(rx, 1, n))
<1>1. rx \in Seq(Piece) /\ rx \in Seq(Owned(i))
  BY OnlyOfIsSeq DEF TypeOK
<1>2. /\ SubSeq(rx, n + 1, Len(rx)) \in Seq(Piece) /\ SubSeq(rx, n + 1, Len(rx)) \in Seq(Owned(i))
      /\ SubSeq(rx, 1, n) \in Seq(Piece) /\ SubSeq(rx, 1, n) \in Seq(Owned(i))
  BY <1>1, SeqSteps
<1>3. ASSUME NEW b \in Seq(Piece), OnlyOf(i, b) PROVE OnlyOf(i, b \o SubSeq(rx, 1, n))
  <2>1. b \in Seq(Owned(i))
    BY <1>3, OnlyOfIsSeq
  <2>2. b \o SubSeq(rx, 1, n) \in Seq(Owned(i)) /\ b \o SubSeq(rx, 1, n) \in Seq(Piece)
    BY <1>2, <1>3, <2>1, ConcatProperties
  <2> QED BY <2>2, OnlyOfIsSeq
<1> QED BY <1>2, <1>3, OnlyOfIsSeq

\* What was collected stays where it is when more is collected.
LEMMA ConcatKeeps ==
  ASSUME NEW S, NEW s \in Seq(S), NEW r \in Seq(S), NEW k \in DOMAIN s
  PROVE  k \in DOMAIN (s \o r) /\ (s \o r)[k] = s[k]
<1>1. DOMAIN s = 1..Len(s) /\ Len(s) \in Nat /\ Len(r) \in Nat
  BY LenProperties
<1>2. s \o r \in Seq(S) /\ Len(s \o r) = Len(s) + Len(r)
  BY ConcatProperties
<1>3. (s \o r)[k] = s[k]
  BY <1>1, ConcatProperties
<1> QED BY <1>1, <1>2, <1>3, LenProperties

LEMMA EmptyOwned == \A i : OnlyOf(i, <<>>)
BY DEF OnlyOf

\* A task that was in a call keeps everything QuietInv says of the other tasks,
\* when only its own state and the line change.
LEMMA OthersKeepQuiet ==
  ASSUME QuietInv, NEW t \in Tasks, pc[t] # "idle", NEW u \in Tasks \ {t}, quiet[u],
         pc'[u] = pc[u], id'[u] = id[u], buf'[u] = buf[u], result'[u] = result[u]
  PROVE  /\ OnlyOf(id'[u], buf'[u])
         /\ result'[u] = "ESP_OK" => OkSeen(u)'
         /\ pc'[u] # "idle" => LineIsOwn(u)'
<1>1. OnlyOf(id'[u], buf'[u])
  BY DEF QuietInv
<1>2. result'[u] = "ESP_OK" => OkSeen(u)'
  <2>1. result[u] = "ESP_OK" => OkSeen(u)
    BY DEF QuietInv
  <2>2. OkSeen(u) => OkSeen(u)'
    BY DEF OkSeen, OwnPiece, HasKind
  <2> QED BY <2>1, <2>2
<1>3. pc'[u] = "idle"
  BY DEF QuietInv, LineIsOwn
<1> QED BY <1>1, <1>2, <1>3

LEMMA QuietSend ==
  ASSUME TypeOK, QuietInv, NEW t \in Tasks, NEW c \in Cmds, SendCommand(t, c)
  PROVE  QuietInv'
<1>1. \A u \in Tasks \ {t} :
        /\ pc'[u] = pc[u] /\ id'[u] = id[u] /\ buf'[u] = buf[u] /\ result'[u] = result[u]
        /\ quiet'[u] => quiet[u] /\ pc[u] = "idle"
  <2>1. PICK p, r : pc' = [pc EXCEPT ![t] = p] /\ result' = [result EXCEPT ![t] = r]
    BY DEF SendCommand, Return, Goto
  <2>2. /\ id' = [id EXCEPT ![t] = nextId] /\ buf' = [buf EXCEPT ![t] = <<>>]
        /\ quiet' = [u \in Tasks |-> IF u = t THEN LineIsQuiet(t) ELSE quiet[u] /\ pc[u] = "idle"]
    BY DEF SendCommand
  <2> QED BY <2>1, <2>2 DEF TypeOK
<1>2. ASSUME NEW u \in Tasks \ {t}, quiet'[u]
      PROVE  /\ OnlyOf(id'[u], buf'[u])
             /\ result'[u] = "ESP_OK" => OkSeen(u)'
             /\ pc'[u] # "idle" => LineIsOwn(u)'
  BY <1>1, <1>2 DEF QuietInv, OkSeen, OwnPiece, HasKind
<1>3. id'[t] = nextId /\ buf'[t] = <<>> /\ (quiet'[t] => LineIsQuiet(t))
  BY DEF SendCommand, TypeOK
<1>4. result'[t] # "ESP_OK"
  BY DEF SendCommand, Return, Goto, TypeOK, HwWriteOutcomes
<1>5. ASSUME quiet'[t] PROVE LineIsOwn(t)'
  <2>1. LineIsQuiet(t)
    BY <1>3, <1>5
  <2>2. \A u \in Tasks \ {t} : pc'[u] = "idle"
    BY <1>1, <2>1 DEF LineIsQuiet
  <2>3. OnlyOf(nextId, rx') /\ OnlyOf(nextId, out')
    BY <2>1 DEF LineIsQuiet, Clear, OnlyOf, SendCommand, HwWrite, modem
  <2>4. \A k \in DOMAIN tx' : tx'[k].id = nextId
    <3>1. tx = <<>>
      BY <2>1 DEF LineIsQuiet
    <3>2. tx' = <<>> \/ tx' = <<[cmd |-> c, id |-> nextId, part |-> "cmd"]>>
      BY <3>1 DEF SendCommand, HwWrite
    <3> QED BY <3>2
  <2>5. mode' = "command"
    BY <2>1 DEF LineIsQuiet, SendCommand, modem
  <2> QED BY <1>3, <2>2, <2>3, <2>4, <2>5 DEF LineIsOwn
<1>6. out' = out /\ dcall' = dcall
  BY DEF SendCommand, modem
<1> QED BY <1>2, <1>3, <1>4, <1>5, <1>6, EmptyOwned DEF QuietInv

\* A step of the task t that is in a call, given what it makes of t's own part.
LEMMA QuietOfOne ==
  ASSUME TypeOK, QuietInv, NEW t \in Tasks, pc[t] # "idle",
         quiet' = quiet, id' = id, out' = out, dcall' = dcall,
         \A u \in Tasks \ {t} : pc'[u] = pc[u] /\ buf'[u] = buf[u] /\ result'[u] = result[u],
         quiet[t] => /\ OnlyOf(id[t], buf'[t])
                     /\ result'[t] = "ESP_OK" => OkSeen(t)'
                     /\ pc'[t] # "idle" => LineIsOwn(t)'
  PROVE  QuietInv'
<1>1. ASSUME NEW u \in Tasks \ {t}, quiet[u]
      PROVE  /\ OnlyOf(id'[u], buf'[u])
             /\ result'[u] = "ESP_OK" => OkSeen(u)'
             /\ pc'[u] # "idle" => LineIsOwn(u)'
  BY <1>1, OthersKeepQuiet
<1> QED BY <1>1 DEF QuietInv

LEMMA QuietPayload ==
  ASSUME TypeOK, CallHasId, QuietInv, NEW t \in Tasks, SendPayload(t) PROVE QuietInv'
<1>1. /\ pc[t] # "idle" /\ quiet' = quiet /\ id' = id /\ out' = out /\ dcall' = dcall
      /\ mode' = mode /\ buf' = buf
  BY DEF SendPayload, modem
<1>2. /\ \A u \in Tasks \ {t} : pc'[u] = pc[u] /\ result'[u] = result[u]
      /\ result'[t] = "ESP_OK" => result[t] = "ESP_OK"
  BY DEF SendPayload, Return, TypeOK, HwWriteOutcomes
<1>3. ASSUME quiet[t] PROVE LineIsOwn(t)'
  <2>1. LineIsOwn(t)
    BY <1>1, <1>3 DEF QuietInv
  <2>2. OnlyOf(id[t], rx')
    <3>1. PICK n \in 1..ChunkMax : n <= Len(rx) /\ (rx' = <<>> \/ rx' = SubSeq(rx, n + 1, Len(rx)))
      BY DEF SendPayload
    <3>2. n \in Nat
      BY HandlerAssumption
    <3> QED BY <2>1, <3>1, <3>2, ReadOwned, EmptyOwned DEF LineIsOwn
  <2>3. \A k \in DOMAIN tx' : tx'[k].id = id[t]
    <3> DEFINE S == {w \in Written : w.id = id[t]}
    <3>1. tx \in Seq(S)
      <4>1. tx \in [1..Len(tx) -> Written] /\ DOMAIN tx = 1..Len(tx) /\ Len(tx) \in Nat
        BY LenProperties DEF TypeOK
      <4>2. tx \in [1..Len(tx) -> S]
        BY <2>1, <4>1 DEF LineIsOwn
      <4> QED BY <4>1, <4>2, SeqDef
    <3>2. tx' \in Seq(S)
      <4>1. tx' = tx \/ tx' = Append(tx, [cmd |-> cmd[t], id |-> id[t], part |-> "data"])
        BY DEF SendPayload
      <4>2. CASE tx' = tx
        BY <3>1, <4>2
      <4>3. CASE tx' = Append(tx, [cmd |-> cmd[t], id |-> id[t], part |-> "data"])
        <5>1. id[t] \in CallIds
          BY <1>1 DEF CallHasId
        <5>2. [cmd |-> cmd[t], id |-> id[t], part |-> "data"] \in S
          BY <5>1, HostTypes DEF Written
        <5> QED BY <3>1, <4>3, <5>2, AppendProperties
      <4> QED BY <4>1, <4>2, <4>3
    <3> QED BY <3>2, LenProperties, ElementOfSeq
  <2> QED BY <1>1, <1>2, <2>1, <2>2, <2>3 DEF LineIsOwn
<1>4. quiet[t] => OnlyOf(id[t], buf[t]) /\ (result[t] = "ESP_OK" => OkSeen(t))
  BY DEF QuietInv
<1>5. quiet[t] => /\ OnlyOf(id[t], buf'[t])
                  /\ result'[t] = "ESP_OK" => OkSeen(t)'
                  /\ pc'[t] # "idle" => LineIsOwn(t)'
  BY <1>1, <1>2, <1>3, <1>4 DEF OkSeen, OwnPiece, HasKind
<1> QED BY <1>1, <1>2, <1>5, QuietOfOne

LEMMA QuietRead ==
  ASSUME TypeOK, QuietInv, NEW t \in Tasks,
         DropBeforePrompt(t) \/ Overflow(t) \/ ReadNothing(t) \/ TimeOut(t)
  PROVE  QuietInv'
<1>1. /\ pc[t] # "idle" /\ quiet' = quiet /\ id' = id /\ out' = out /\ dcall' = dcall
      /\ mode' = mode /\ buf' = buf /\ tx' = tx
  BY DEF DropBeforePrompt, Overflow, ReadNothing, TimeOut, modem
<1>2. /\ \A u \in Tasks \ {t} : pc'[u] = pc[u] /\ result'[u] = result[u]
      /\ result'[t] = "ESP_OK" => result[t] = "ESP_OK"
  BY DEF DropBeforePrompt, Overflow, ReadNothing, TimeOut, Return, TypeOK
<1>3. rx' = rx \/ \E n \in Nat : n <= Len(rx) /\ rx' = SubSeq(rx, n + 1, Len(rx))
  <2>1. \A n \in 1..ChunkMax : ReadChunk(n) =>
          n \in Nat /\ n <= Len(rx) /\ rx' = SubSeq(rx, n + 1, Len(rx))
    BY HandlerAssumption DEF ReadChunk
  <2>2. CASE DropBeforePrompt(t) \/ Overflow(t)
    BY <2>1, <2>2 DEF DropBeforePrompt, Overflow
  <2>3. CASE ReadNothing(t) \/ TimeOut(t)
    BY <2>3 DEF ReadNothing, TimeOut
  <2> QED BY <2>2, <2>3
<1>4. ASSUME quiet[t]
      PROVE  /\ OnlyOf(id[t], buf'[t])
             /\ result'[t] = "ESP_OK" => OkSeen(t)'
             /\ LineIsOwn(t)'
  <2>1. LineIsOwn(t) /\ OnlyOf(id[t], buf[t]) /\ (result[t] = "ESP_OK" => OkSeen(t))
    BY <1>1, <1>4 DEF QuietInv
  <2>2. OnlyOf(id[t], rx')
    BY <1>3, <2>1, ReadOwned DEF LineIsOwn
  <2>3. LineIsOwn(t)'
    BY <1>1, <1>2, <2>1, <2>2 DEF LineIsOwn
  <2> QED BY <1>1, <1>2, <2>1, <2>3 DEF OkSeen, OwnPiece, HasKind
<1> QED BY <1>1, <1>2, <1>4, QuietOfOne

LEMMA QuietCollect ==
  ASSUME TypeOK, QuietInv, NEW t \in Tasks, Collect(t) PROVE QuietInv'
<1>1. /\ pc[t] = "read" /\ quiet' = quiet /\ id' = id /\ out' = out /\ dcall' = dcall
      /\ mode' = mode /\ tx' = tx
  BY DEF Collect, modem
<1>2. PICK n \in Nat : /\ n <= Len(rx) /\ rx' = SubSeq(rx, n + 1, Len(rx))
                       /\ buf' = [buf EXCEPT ![t] = @ \o SubSeq(rx, 1, n)]
  <2>1. \A n \in 1..ChunkMax : ReadChunk(n) =>
          n \in Nat /\ n <= Len(rx) /\ rx' = SubSeq(rx, n + 1, Len(rx))
    BY HandlerAssumption DEF ReadChunk
  <2>2. \E n \in 1..ChunkMax :
          ReadChunk(n) /\ buf' = [buf EXCEPT ![t] = @ \o SubSeq(rx, 1, n)]
    BY DEF Collect
  <2> QED BY <2>1, <2>2
<1>3. /\ \A u \in Tasks \ {t} : pc'[u] = pc[u] /\ buf'[u] = buf[u] /\ result'[u] = result[u]
      /\ buf'[t] = buf[t] \o SubSeq(rx, 1, n)
      /\ \/ result'[t] = result[t]
         \/ result'[t] = Verdict(buf'[t], cmd[t], RType[cmd[t]], Parser[cmd[t]])
  <2> DEFINE v == Verdict(buf'[t], cmd[t], RType[cmd[t]], Parser[cmd[t]])
  <2>1. \/ pc' = [pc EXCEPT ![t] = "idle"] /\ result' = [result EXCEPT ![t] = v]
        \/ UNCHANGED <<pc, result>>
    BY DEF Collect, Return
  <2>2. /\ \A u \in Tasks \ {t} : pc'[u] = pc[u] /\ result'[u] = result[u]
        /\ result'[t] = result[t] \/ result'[t] = v
    <3> HIDE DEF v
    <3> QED BY <2>1 DEF TypeOK
  <2> QED BY <1>2, <2>2 DEF TypeOK
<1>4. ASSUME quiet[t]
      PROVE  /\ OnlyOf(id[t], buf'[t])
             /\ result'[t] = "ESP_OK" => OkSeen(t)'
             /\ LineIsOwn(t)'
  <2>1. /\ LineIsOwn(t) /\ OnlyOf(id[t], buf[t])
        /\ result[t] = "ESP_OK" => OkSeen(t)
        /\ buf[t] \in Seq(Piece)
    BY <1>1, <1>4, HostTypes DEF QuietInv
  <2>2. OnlyOf(id[t], rx') /\ OnlyOf(id[t], buf'[t])
    BY <1>2, <1>3, <2>1, ReadOwned DEF LineIsOwn
  <2>3. LineIsOwn(t)'
    BY <1>1, <1>3, <2>1, <2>2 DEF LineIsOwn
  <2>4. CASE result'[t] = result[t]
    <3>1. SubSeq(rx, 1, n) \in Seq(Piece)
      BY <1>2, SeqSteps DEF TypeOK
    <3>2. \A k \in DOMAIN buf[t] : LET joined == buf[t] \o SubSeq(rx, 1, n)
                                  IN  k \in DOMAIN joined /\ joined[k] = buf[t][k]
      BY <2>1, <3>1, ConcatKeeps
    <3>3. \A k \in DOMAIN buf[t] : k \in DOMAIN buf'[t] /\ buf'[t][k] = buf[t][k]
      BY <1>3, <3>2
    <3>4. OkSeen(t) => OkSeen(t)'
      BY <1>1, <3>3 DEF OkSeen, OwnPiece, HasKind
    <3> QED BY <2>1, <2>2, <2>3, <2>4, <3>4
  <2>5. CASE result'[t] = Verdict(buf'[t], cmd[t], RType[cmd[t]], Parser[cmd[t]])
    <3>1. ASSUME result'[t] = "ESP_OK" PROVE OkSeen(t)'
      <4>1. PICK k \in DOMAIN buf'[t] : buf'[t][k].kind \in WithOk
        BY <2>5, <3>1 DEF Verdict, BasicResponseIsOk
      <4>2. buf'[t][k].kind # "urcok" => buf'[t][k].id = id[t]
        BY <2>2, <4>1 DEF OnlyOf, Harmless, Urcs, WithOk
      <4> QED BY <1>1, <4>1, <4>2 DEF OkSeen, OwnPiece, HasKind, WithOk
    <3> QED BY <2>2, <2>3, <3>1
  <2> QED BY <1>3, <2>4, <2>5
<1> QED BY <1>1, <1>3, <1>4, QuietOfOne

LEMMA QuietReject ==
  ASSUME TypeOK, QuietInv, NEW t \in Tasks, RejectCall(t) PROVE QuietInv'
<1>1. /\ \A u \in Tasks \ {t} : buf'[u] = buf[u] /\ result'[u] = result[u]
      /\ buf'[t] = <<>> /\ result'[t] # "ESP_OK" /\ pc[t] = "idle"
      /\ pc' = pc /\ id' = id /\ quiet' = quiet /\ tx' = tx /\ rx' = rx
      /\ mode' = mode /\ out' = out /\ dcall' = dcall
  BY HandlerAssumption DEF RejectCall, TypeOK, modem, Errors
<1>2. ASSUME NEW u \in Tasks, quiet[u]
      PROVE  /\ OnlyOf(id'[u], buf'[u])
             /\ result'[u] = "ESP_OK" => OkSeen(u)'
             /\ pc'[u] # "idle" => LineIsOwn(u)'
  <2>1. CASE u = t
    BY <1>1, <2>1, EmptyOwned
  <2>2. CASE u # t
    BY <1>1, <1>2, <2>2 DEF QuietInv, OkSeen, OwnPiece, HasKind, LineIsOwn
  <2> QED BY <2>1, <2>2
<1> QED BY <1>1, <1>2 DEF QuietInv

\* A step of the modem keeps QuietInv if it keeps what is on the line with the
\* task whose call it is.
LEMMA QuietOfModem ==
  ASSUME QuietInv, UNCHANGED <<host, quiet>>,
         \A k \in DOMAIN out' : out'[k].kind = "prompt" => out'[k].id = dcall'.id,
         \A t \in Tasks : quiet[t] /\ pc[t] # "idle" /\ LineIsOwn(t) =>
           /\ OnlyOf(id[t], rx') /\ OnlyOf(id[t], out')
           /\ \A k \in DOMAIN tx' : tx'[k].id = id[t]
           /\ mode' = "data" => dcall'.id = id[t]
  PROVE  QuietInv'
BY DEF QuietInv, LineIsOwn, OkSeen, OwnPiece, HasKind, host

LEMMA QuietModemTakes ==
  ASSUME TypeOK, QuietInv, ModemTakes PROVE QuietInv'
<1> DEFINE w == Head(tx)
           Plain(i) == {p \in Owned(i) : p.kind # "prompt"}
<1>1. /\ UNCHANGED <<host, quiet, rx>> /\ tx # <<>> /\ tx' = Tail(tx)
      /\ w.cmd \in Cmds /\ w.id \in CallIds \cup {NoCall} /\ w.part \in {"cmd", "data"}
      /\ dcall.cmd \in Cmds /\ dcall.id \in CallIds \cup {NoCall}
      /\ out = <<>>
  <2>1. w \in Written
    BY HeadTailProperties DEF ModemTakes, TypeOK
  <2> QED BY <2>1 DEF ModemTakes, TypeOK, Written
\* The answers to call i are of plain pieces, but for the prompt.
<1>2. ASSUME NEW c \in Cmds, NEW i \in CallIds \cup {NoCall}
      PROVE  /\ \A a \in Answers(c, i) \cup Failures(c, i) : a \in Seq(Plain(i))
             /\ \A e \in EchoesOf(c, i) : e \in Seq(Plain(i))
  <2>1. \A kind \in Kinds \ {"prompt"} : P(kind, c, i) \in Plain(i)
    BY DEF P, Owned, Piece, NoCall
  <2> QED BY <2>1, AnswersIn
<1>3. ASSUME NEW i, out' \in Seq(Plain(i))
      PROVE  OnlyOf(i, out') /\ \A k \in DOMAIN out' : out'[k].kind # "prompt"
  <2>1. \A k \in DOMAIN out' : out'[k] \in Plain(i)
    BY <1>3, ElementOfSeq, LenProperties
  <2> QED BY <2>1 DEF OnlyOf, Owned
\* What is taken up is of the call whose line it is.
<1>4. ASSUME NEW t \in Tasks, LineIsOwn(t)
      PROVE  w.id = id[t] /\ \A k \in DOMAIN tx' : tx'[k].id = id[t]
  <2>1. tx \in Seq(Written)
    BY DEF TypeOK
  <2>2. w = tx[1] /\ 1 \in DOMAIN tx
    BY <1>1, <2>1, HeadTailProperties, LenProperties, EmptySeq
  <2>3. \A k \in DOMAIN tx' : tx'[k] = tx[k + 1] /\ k + 1 \in DOMAIN tx
    BY <1>1, <2>1, HeadTailProperties, LenProperties, EmptySeq
  <2> QED BY <1>4, <2>2, <2>3 DEF LineIsOwn
<1>5. CASE mode = "command" /\ w.part = "cmd"
  <2> DEFINE prompt == <<P("prompt", w.cmd, w.id)>>
  <2>1. PICK e \in EchoesOf(w.cmd, w.id),
             a \in {prompt} \cup Failures(w.cmd, w.id) \cup Answers(w.cmd, w.id) :
                 /\ out' = e \o a
                 /\ \/ a = prompt /\ dcall'.id = w.id
                    \/ a \in Failures(w.cmd, w.id) \cup Answers(w.cmd, w.id)
                 /\ mode' = mode
    <3>1. CASE w.cmd \in Prompted
      <4>1. /\ mode' = mode /\ dcall'.id = w.id
            /\ \E e \in EchoesOf(w.cmd, w.id), a \in Failures(w.cmd, w.id) \cup {prompt} :
                 out' = e \o a
        BY <1>5, <3>1 DEF ModemTakes
      <4> QED BY <4>1
    <3>2. CASE w.cmd \notin Prompted
      <4>1. /\ mode' = mode
            /\ \E e \in EchoesOf(w.cmd, w.id), a \in Answers(w.cmd, w.id) : out' = e \o a
        BY <1>5, <3>2 DEF ModemTakes
      <4> QED BY <4>1
    <3> QED BY <3>1, <3>2
  <2>2. CASE a = prompt /\ dcall'.id = w.id
    <3>1. e \o a \in Seq(Owned(w.id))
      BY <1>1, <2>2, AnswersOwned, ConcatProperties
    <3>2. OnlyOf(w.id, out')
      <4>1. \A k \in DOMAIN out' : out'[k] \in Owned(w.id)
        BY <2>1, <3>1, ElementOfSeq, LenProperties
      <4> QED BY <4>1 DEF OnlyOf, Owned
    <3>3. \A k \in DOMAIN out' : out'[k].kind = "prompt" => out'[k].id = dcall'.id
      BY <2>1, <2>2, <3>2 DEF OnlyOf, Harmless, Urcs
    <3> QED BY <1>1, <1>4, <1>5, <2>1, <3>2, <3>3, QuietOfModem DEF LineIsOwn
  <2>3. CASE a \in Failures(w.cmd, w.id) \cup Answers(w.cmd, w.id)
    <3>1. out' \in Seq(Plain(w.id))
      BY <1>1, <1>2, <2>1, <2>3, ConcatProperties
    <3> QED BY <1>1, <1>3, <1>4, <1>5, <2>1, <3>1, QuietOfModem DEF LineIsOwn
  <2> QED BY <2>1, <2>2, <2>3
<1>6. CASE mode = "command" /\ w.part = "data"
  <2>1. out' \in Seq(Plain(w.id)) /\ mode' = mode
    BY <1>1, <1>2, <1>6 DEF ModemTakes
  <2> QED BY <1>1, <1>3, <1>4, <1>6, <2>1, QuietOfModem DEF LineIsOwn
<1>7. CASE mode = "data"
  <2>1. CASE mode' = "command" /\ out' \in Seq(Plain(dcall.id))
    BY <1>1, <1>3, <1>4, <1>7, <2>1, QuietOfModem DEF LineIsOwn
  <2>2. CASE UNCHANGED <<mode, out, dcall>>
    BY <1>1, <1>4, <1>7, <2>2, QuietOfModem DEF LineIsOwn
  <2> QED BY <1>1, <1>2, <1>7, <2>1, <2>2 DEF ModemTakes
<1> QED BY <1>1, <1>5, <1>6, <1>7 DEF TypeOK

LEMMA QuietModemSends ==
  ASSUME TypeOK, QuietInv, ModemSends \/ ModemSendsUrc PROVE QuietInv'
<1>1. ASSUME NEW i, NEW p \in Owned(i), Deliver(p), OnlyOf(i, rx) PROVE OnlyOf(i, rx')
  <2>1. rx \in Seq(Owned(i)) /\ rx \in Seq(Piece) /\ p \in Piece
    BY <1>1, OnlyOfIsSeq DEF TypeOK, Owned
  <2>2. rx' \in Seq(Owned(i)) /\ rx' \in Seq(Piece)
    BY <1>1, <2>1, AppendProperties DEF Deliver
  <2> QED BY <2>2, OnlyOfIsSeq
<1>2. CASE ModemSends
  <2>1. out \in Seq(Piece) /\ out # <<>> /\ out' = Tail(out) /\ UNCHANGED <<host, quiet, tx, dcall>>
    BY <1>2 DEF ModemSends, TypeOK
  <2>2. /\ Head(out) = out[1] /\ 1 \in DOMAIN out /\ Head(out) \in Piece
        /\ \A k \in DOMAIN out' : out'[k] = out[k + 1] /\ k + 1 \in DOMAIN out
    BY <2>1, HeadTailProperties, LenProperties, EmptySeq
  <2>3. \A k \in DOMAIN out' : out'[k].kind = "prompt" => out'[k].id = dcall'.id
    BY <2>1, <2>2 DEF QuietInv
  <2>4. ASSUME NEW t \in Tasks, LineIsOwn(t)
        PROVE  /\ OnlyOf(id[t], rx') /\ OnlyOf(id[t], out')
               /\ \A k \in DOMAIN tx' : tx'[k].id = id[t]
               /\ mode' = "data" => dcall'.id = id[t]
    <3>1. Head(out) \in Owned(id[t])
      BY <2>2, <2>4 DEF LineIsOwn, OnlyOf, Owned
    <3>2. OnlyOf(id[t], rx')
      BY <1>1, <1>2, <2>4, <3>1 DEF ModemSends, LineIsOwn
    <3>3. OnlyOf(id[t], out')
      BY <2>2, <2>4 DEF LineIsOwn, OnlyOf
    <3>4. mode' = "data" => dcall'.id = id[t]
      <4>1. CASE Head(out).kind = "prompt"
        BY <2>1, <2>2, <2>4, <4>1 DEF QuietInv, LineIsOwn, OnlyOf, Harmless, Urcs
      <4>2. CASE Head(out).kind # "prompt"
        BY <1>2, <2>1, <2>4, <4>2 DEF ModemSends, LineIsOwn
      <4> QED BY <4>1, <4>2
    <3> QED BY <2>1, <2>4, <3>2, <3>3, <3>4 DEF LineIsOwn
  <2> QED BY <2>1, <2>3, <2>4, QuietOfModem
<1>3. CASE ModemSendsUrc
  <2>1. UNCHANGED <<host, quiet, tx, mode, out, dcall>>
    BY <1>3 DEF ModemSendsUrc
  <2>2. \A i : \A kind \in UrcKinds : P(kind, CHOOSE c \in Cmds : TRUE, NoCall) \in Owned(i)
    BY HandlerAssumption DEF P, Owned, Harmless, Piece, Kinds, Urcs, NoCall
  <2>3. \A i : OnlyOf(i, rx) => OnlyOf(i, rx')
    BY <1>1, <1>3, <2>2 DEF ModemSendsUrc
  <2>4. \A k \in DOMAIN out' : out'[k].kind = "prompt" => out'[k].id = dcall'.id
    BY <2>1 DEF QuietInv
  <2>5. \A t \in Tasks : LineIsOwn(t) =>
          /\ OnlyOf(id[t], rx') /\ OnlyOf(id[t], out')
          /\ \A k \in DOMAIN tx' : tx'[k].id = id[t]
          /\ mode' = "data" => dcall'.id = id[t]
    BY <2>1, <2>3 DEF LineIsOwn
  <2> QED BY <2>1, <2>4, <2>5, QuietOfModem
<1> QED BY <1>2, <1>3

LEMMA QuietInvStep ==
  ASSUME TypeOK, CallHasId, QuietInv, [Next]_vars PROVE QuietInv'
<1>1. CASE UNCHANGED vars
  BY <1>1 DEF vars, QuietInv, LineIsOwn, OkSeen, OwnPiece, HasKind
<1>2. ASSUME NEW t \in Tasks, Progress(t) PROVE QuietInv'
  BY <1>2, QuietPayload, QuietRead, QuietCollect DEF Progress
<1>3. CASE Modem
  BY <1>3, QuietModemTakes, QuietModemSends DEF Modem
<1> QED BY <1>1, <1>2, <1>3, QuietReject, QuietSend DEF Next

\* While a call runs that had the line to itself, everything that can still
\* reach it (the receive buffer, the modem's answer, what the modem has not yet
\* taken up) belongs to that call.
THEOREM QuietLine == Spec => []QuietInv
<1>1. Init => TypeOK /\ CallHasId /\ QuietInv
  <2>1. Init => TypeOK /\ CallHasId
    BY HandlerAssumption, EmptySeq DEF Init, TypeOK, CallHasId, Results, CallIds, NoCall
  <2>2. Init => QuietInv
    BY DEF Init, QuietInv
  <2> QED BY <2>1, <2>2
<1>2. TypeOK /\ CallHasId /\ QuietInv /\ [Next]_vars => TypeOK' /\ CallHasId' /\ QuietInv'
  <2>1. CASE UNCHANGED vars
    BY <2>1, QuietInvStep DEF vars, TypeOK, CallHasId
  <2> QED BY <2>1, TypeOKStep, CallHasIdStep, QuietInvStep
<1> QED BY <1>1, <1>2, PTL DEF Spec

\* A call that had the line to itself, with nothing left over from an earlier
\* one, collects only its own reply and unsolicited lines and succeeds only on
\* an OK to its own command: for any number of tasks, any commands, chunk and
\* buffer sizes, timeouts, losses and delays of the modem.
THEOREM QuietCall == Spec => []QuietCallOwnReply
<1>1. QuietInv => QuietCallOwnReply
  BY DEF QuietInv, QuietCallOwnReply
<1> QED BY <1>1, QuietLine, PTL

-------------------------------------------------------------------------------
(* With one task, the handler implements the one-step call.                    *)
\* What the refinement needs to know of a call that runs: its result is still
\* open, nothing is collected before the prompt, and what is collected does not
\* complete the response (a response is judged at the first chunk that does).
CallInv ==
  \A t \in Tasks :
    /\ id[t] < nextId
    /\ pc[t] # "idle" => result[t] = "none"
    /\ pc[t] = "prompt" => buf[t] = <<>>
    /\ pc[t] = "read" => ~HasCommandTerminated(buf[t], cmd[t], RType[cmd[t]])

LEMMA EmptyNotTerminated ==
  ASSUME NEW c, NEW r PROVE ~HasCommandTerminated(<<>>, c, r)
BY DEF HasCommandTerminated, HasKind

LEMMA CallInvSend ==
  ASSUME TypeOK, CallInv, NEW t \in Tasks, NEW c \in Cmds, SendCommand(t, c)
  PROVE  CallInv'
<1>1. /\ id' = [id EXCEPT ![t] = nextId] /\ nextId' = nextId + 1
      /\ buf' = [buf EXCEPT ![t] = <<>>] /\ cmd' = [cmd EXCEPT ![t] = c]
      /\ nextId \in Nat /\ \A u \in Tasks : id[u] \in Nat
  <2>1. nextId \in Nat /\ \A u \in Tasks : id[u] \in Nat
    <3>1. MaxCalls \in Nat
      BY HandlerAssumption
    <3>2. CallIds \cup {NoCall} \subseteq Nat /\ 1..(MaxCalls + 1) \subseteq Nat
      BY <3>1 DEF CallIds, NoCall
    <3> QED BY <3>2 DEF TypeOK
  <2> QED BY <2>1 DEF SendCommand
<1>2. /\ \A u \in Tasks \ {t} : pc'[u] = pc[u] /\ result'[u] = result[u]
      /\ pc'[t] # "idle" => result'[t] = "none"
  BY DEF SendCommand, Return, Goto, TypeOK
<1>3. ~HasCommandTerminated(buf'[t], c, RType[c])
  BY <1>1, EmptyNotTerminated DEF TypeOK
<1>4. \A u \in Tasks \ {t} : id'[u] = id[u] /\ buf'[u] = buf[u] /\ cmd'[u] = cmd[u]
  BY <1>1 DEF TypeOK
<1>5. id'[t] = nextId /\ buf'[t] = <<>> /\ cmd'[t] = c
  BY <1>1 DEF TypeOK
<1> QED BY <1>1, <1>2, <1>3, <1>4, <1>5 DEF CallInv

LEMMA CallInvPayload ==
  ASSUME TypeOK, CallInv, NEW t \in Tasks, SendPayload(t)
  PROVE  CallInv'
<1>1. UNCHANGED <<cmd, id, buf, nextId>> /\ pc[t] = "prompt"
  BY DEF SendPayload
<1>2. /\ \A u \in Tasks \ {t} : pc'[u] = pc[u] /\ result'[u] = result[u]
      /\ pc'[t] = "idle" \/ (pc'[t] = "read" /\ result'[t] = result[t])
  BY DEF SendPayload, Return, TypeOK
<1>3. buf[t] = <<>> /\ result[t] = "none"
  BY <1>1 DEF CallInv
<1>4. ~HasCommandTerminated(buf[t], cmd[t], RType[cmd[t]])
  BY <1>3, EmptyNotTerminated
<1> QED BY <1>1, <1>2, <1>3, <1>4 DEF CallInv

LEMMA CallInvCollect ==
  ASSUME TypeOK, CallInv, NEW t \in Tasks, Collect(t)
  PROVE  CallInv'
<1> DEFINE ends == HasCommandTerminated(buf'[t], cmd[t], RType[cmd[t]])
<1>1. /\ UNCHANGED <<cmd, id, nextId>> /\ pc[t] = "read"
      /\ \A u \in Tasks \ {t} : buf'[u] = buf[u]
  BY DEF Collect, TypeOK
<1>2. CASE ends
  <2>1. \A u \in Tasks \ {t} : pc'[u] = pc[u] /\ result'[u] = result[u]
    BY <1>2 DEF Collect, Return, TypeOK
  <2>2. pc'[t] = "idle"
    BY <1>2 DEF Collect, Return, TypeOK
  <2> QED BY <1>1, <2>1, <2>2 DEF CallInv
<1>3. CASE ~ends
  <2>1. UNCHANGED <<pc, result>>
    BY <1>3 DEF Collect
  <2> QED BY <1>1, <1>3, <2>1 DEF CallInv
<1> QED BY <1>2, <1>3

LEMMA CallInvStep ==
  ASSUME TypeOK, CallInv, [Next]_vars
  PROVE  CallInv'
<1>1. CASE UNCHANGED vars
  BY <1>1 DEF vars, CallInv
<1>2. CASE Modem
  BY <1>2 DEF Modem, ModemTakes, ModemSends, ModemSendsUrc, host, CallInv
<1>3. ASSUME NEW t \in Tasks, RejectCall(t) PROVE CallInv'
  BY <1>3 DEF RejectCall, CallInv, TypeOK
<1>4. ASSUME NEW t \in Tasks, DropBeforePrompt(t) \/ ReadNothing(t) PROVE CallInv'
  BY <1>4 DEF DropBeforePrompt, ReadNothing, CallInv
<1>5. ASSUME NEW t \in Tasks, Overflow(t) \/ TimeOut(t) PROVE CallInv'
  <2>1. UNCHANGED <<cmd, id, buf, nextId>> /\ pc'[t] = "idle"
        /\ \A u \in Tasks \ {t} : pc'[u] = pc[u] /\ result'[u] = result[u]
    BY <1>5 DEF Overflow, TimeOut, Return, TypeOK
  <2> QED BY <2>1 DEF CallInv
<1> QED BY <1>1, <1>2, <1>3, <1>4, <1>5, CallInvSend, CallInvPayload, CallInvCollect
        DEF Next, Progress

-------------------------------------------------------------------------------
\* The operators of AtResponse and Uart, as the two modules know them, agree.
LEMMA SameTermination ==
  ASSUME NEW b, NEW c, NEW r
  PROVE  Port!HasCommandTerminated(b, c, r) <=> HasCommandTerminated(b, c, r)
BY DEF Port!HasCommandTerminated, HasCommandTerminated, Port!HasKind, HasKind,
       Port!HasOwnLine, HasOwnLine, Port!WithCrlf, WithCrlf, Port!Kinds, Kinds,
       Port!Echoes, Echoes, Port!Urcs, Urcs

LEMMA SameVerdict ==
  ASSUME NEW b, NEW c, NEW r, NEW p
  PROVE  Port!Verdict(b, c, r, p) = Verdict(b, c, r, p)
<1>1. Port!HasOwnLine(b, c) <=> HasOwnLine(b, c)
  BY DEF Port!HasOwnLine, HasOwnLine, Port!WithCrlf, WithCrlf, Port!Kinds, Kinds,
         Port!Echoes, Echoes, Port!Urcs, Urcs
<1>2. Port!HasDataResponse(b) <=> HasDataResponse(b)
  BY DEF Port!HasDataResponse, HasDataResponse, Port!WithCrlf, WithCrlf, Port!Kinds,
         Kinds, Port!Echoes, Echoes, Port!Urcs, Urcs
<1>3. Port!BasicResponseIsOk(b) <=> BasicResponseIsOk(b)
  BY DEF Port!BasicResponseIsOk, BasicResponseIsOk, Port!WithOk, WithOk
<1> QED BY <1>1, <1>2, <1>3 DEF Port!Verdict, Verdict, Port!SpecificResponse,
           SpecificResponse, Port!ParserResult, ParserResult

LEMMA SameWrites == Port!HwWriteOutcomes = HwWriteOutcomes
BY DEF Port!HwWriteOutcomes, HwWriteOutcomes

\* Collected b, and then n pieces of what is on the line, of both together.
Split(b, s, n) ==
  /\ Len(b \o s) = Len(b) + Len(s) /\ Len(b) \in Nat /\ Len(s) \in Nat
  /\ SubSeq(b \o s, 1, Len(b) + n) = b \o SubSeq(s, 1, n)
  /\ SubSeq(b \o s, Len(b) + n + 1, Len(b \o s)) = SubSeq(s, n + 1, Len(s))
  /\ (b \o SubSeq(s, 1, n)) \o SubSeq(s, n + 1, Len(s)) = b \o s

\* Taking n pieces of s behind the collected b is taking Len(b) + n of b \o s.
LEMMA Taken ==
  ASSUME NEW b \in Seq(Piece), NEW s \in Seq(Piece), NEW n \in Nat, n <= Len(s)
  PROVE  Split(b, s, n)
<1> DEFINE whole == b \o s
           first == SubSeq(s, 1, n)
           rest  == SubSeq(s, n + 1, Len(s))
<1>1. /\ whole \in Seq(Piece) /\ Len(whole) = Len(b) + Len(s)
      /\ Len(b) \in Nat /\ Len(s) \in Nat
      /\ \A k \in 1..Len(b) + Len(s) :
           whole[k] = IF k <= Len(b) THEN b[k] ELSE s[k - Len(b)]
      /\ \A k \in 1..Len(b) + Len(s) : whole[k] \in Piece
      /\ \A k \in 1..Len(s) : s[k] \in Piece
  BY ConcatProperties, LenProperties, ElementOfSeq
<1>2. /\ first \in Seq(Piece) /\ Len(first) = n
      /\ \A k \in 1..n : first[k] = s[k]
  <2>1. \A k \in 1..n : s[k] \in Piece BY <1>1
  <2> QED BY <1>1, <2>1, SubSeqProperties
<1>3. /\ rest \in Seq(Piece) /\ Len(rest) = Len(s) - n
      /\ \A k \in 1..Len(s) - n : rest[k] = s[n + k]
  <2>1. \A k \in (n + 1)..Len(s) : s[k] \in Piece BY <1>1
  <2> QED BY <1>1, <2>1, SubSeqProperties
<1>4. SubSeq(whole, 1, Len(b) + n) = b \o first
  <2> DEFINE l == SubSeq(whole, 1, Len(b) + n)
             r == b \o first
  <2>1. /\ l \in Seq(Piece) /\ Len(l) = Len(b) + n
        /\ \A k \in 1..Len(b) + n : l[k] = whole[k]
    <3>1. \A k \in 1..Len(b) + n : whole[k] \in Piece BY <1>1
    <3> HIDE DEF whole
    <3> QED BY <1>1, <3>1, SubSeqProperties
  <2>2. /\ r \in Seq(Piece) /\ Len(r) = Len(b) + n
        /\ \A k \in 1..Len(b) + n : r[k] = IF k <= Len(b) THEN b[k] ELSE first[k - Len(b)]
    <3> HIDE DEF first
    <3> QED BY <1>2, ConcatProperties
  <2>3. ASSUME NEW k \in 1..Len(l) PROVE l[k] = r[k]
    <3> HIDE DEF l, r, whole, first
    <3>1. l[k] = whole[k] /\ k \in 1..Len(b) + n BY <2>1
    <3>2. k \in 1..Len(b) + Len(s) BY <1>1, <3>1
    <3>3. CASE k <= Len(b) BY <1>1, <2>2, <3>1, <3>2, <3>3
    <3>4. CASE ~(k <= Len(b))
      <4>1. k - Len(b) \in 1..n BY <1>1, <3>1, <3>4
      <4>2. first[k - Len(b)] = s[k - Len(b)] BY <1>2, <4>1
      <4> QED BY <1>1, <2>2, <3>1, <3>2, <3>4, <4>2
    <3> QED BY <3>3, <3>4
  <2> HIDE DEF l, r
  <2>4. l = r BY <2>1, <2>2, <2>3, SeqEqual
  <2> QED BY <2>4 DEF l, r
<1>5. SubSeq(whole, Len(b) + n + 1, Len(whole)) = rest
  <2> DEFINE l == SubSeq(whole, Len(b) + n + 1, Len(whole))
  <2>1. /\ l \in Seq(Piece) /\ Len(l) = Len(s) - n
        /\ \A k \in 1..Len(s) - n : l[k] = whole[Len(b) + n + k]
    <3>1. \A k \in (Len(b) + n + 1)..Len(whole) : whole[k] \in Piece BY <1>1
    <3> HIDE DEF whole
    <3> QED BY <1>1, <3>1, SubSeqProperties
  <2>2. ASSUME NEW k \in 1..Len(l) PROVE l[k] = rest[k]
    <3> HIDE DEF l, whole, rest
    <3>1. k \in 1..Len(s) - n /\ Len(b) + n + k \in 1..Len(b) + Len(s)
          /\ ~(Len(b) + n + k <= Len(b)) /\ (Len(b) + n + k) - Len(b) = n + k
      BY <1>1, <2>1
    <3>2. l[k] = whole[Len(b) + n + k] /\ rest[k] = s[n + k] BY <1>3, <2>1, <3>1
    <3> QED BY <1>1, <3>1, <3>2
  <2> HIDE DEF l, rest
  <2>3. Len(l) = Len(rest) /\ l \in Seq(Piece) /\ rest \in Seq(Piece)
        /\ \A k \in 1..Len(l) : l[k] = rest[k]
    BY <1>3, <2>1, <2>2
  <2>4. l = rest BY <2>3, SeqEqual
  <2> QED BY <2>4 DEF l
<1>6. (b \o first) \o rest = whole
  <2>1. first \o rest = s
    <3>1. first \o rest = SubSeq(s, 1, Len(s))
      <4>1. 1 \in 1..Len(s) + 1 /\ n \in 1 - 1..Len(s) /\ Len(s) \in n..Len(s)
        BY <1>1
      <4> QED BY <4>1, ConcatAdjacentSubSeq
    <3> QED BY <3>1, SubSeqFull
  <2>2. first \in Seq(Piece) /\ rest \in Seq(Piece) BY <1>2, <1>3
  <2> HIDE DEF first, rest
  <2>3. (b \o first) \o rest = b \o (first \o rest) BY <2>2, ConcatAssociative, SMTT(30)
  <2> QED BY <2>1, <2>3
<1> QED BY <1>1, <1>4, <1>5, <1>6 DEF Split

\* The case n = 0: what was collected is a prefix of what is unconsumed.
LEMMA Collected ==
  ASSUME NEW b \in Seq(Piece), NEW s \in Seq(Piece)
  PROVE  /\ SubSeq(b \o s, 1, Len(b)) = b
         /\ SubSeq(b \o s, Len(b) + 1, Len(b \o s)) = s
<1>1. Len(b) \in Nat /\ Len(s) \in Nat BY LenProperties
<1>2. SubSeq(s, 1, 0) = <<>> /\ SubSeq(s, 1, Len(s)) = s
  BY SubSeqEmpty, SubSeqFull
<1>3. b \o <<>> = b BY ConcatEmptySeq
<1>4. /\ SubSeq(b \o s, 1, Len(b) + 0) = b \o SubSeq(s, 1, 0)
      /\ SubSeq(b \o s, Len(b) + 0 + 1, Len(b \o s)) = SubSeq(s, 0 + 1, Len(s))
  BY <1>1, Taken DEF Split
<1> QED BY <1>1, <1>2, <1>3, <1>4

-------------------------------------------------------------------------------
\* The steps.
RefInv == TypeOK /\ CallHasId /\ CallInv

LEMMA RefReject ==
  ASSUME RefInv, Lone \in Tasks, RejectCall(Lone)
  PROVE  Port!Reject
<1>1. UNCHANGED <<pc, cmd, id, tx, rx>> /\ pc[Lone] = "idle"
      /\ \E r \in RejectCodes : result'[Lone] = r
  BY DEF RejectCall, RefInv, TypeOK
<1>2. result'[Lone] \notin {"ESP_OK", "none"}
  BY <1>1, HandlerAssumption DEF HandlerAssumption, Errors
<1> QED BY <1>1, <1>2 DEF Port!Reject, Unconsumed

LEMMA RefSend ==
  ASSUME RefInv, Lone \in Tasks, NEW c \in Cmds, SendCommand(Lone, c)
  PROVE  Port!Begin
<1>1. /\ pc[Lone] = "idle" /\ cmd'[Lone] = c /\ id'[Lone] = nextId
      /\ buf'[Lone] = <<>> /\ id[Lone] < nextId
      /\ nextId \in Nat /\ id[Lone] \in Nat /\ rx \in Seq(Piece)
  BY HandlerAssumption DEF SendCommand, RefInv, TypeOK, CallInv, CallIds, NoCall
<1>2. PICK w \in HwWriteOutcomes :
        /\ HwWrite(w, [cmd |-> c, id |-> nextId, part |-> "cmd"])
        /\ \/ /\ w.err # "ESP_OK"
              /\ Return(Lone, nextId, w.err, w.sent)
           \/ /\ w.err = "ESP_OK"
              /\ IF c \in Prompted THEN Goto(Lone, "prompt", PromptTimeout)
                                   ELSE Goto(Lone, "read", Timeout[c])
           \/ /\ w.err = "ESP_OK"
              /\ c \notin Prompted
              /\ Return(Lone, nextId, "ESP_ERR_NO_MEM", TRUE)
  BY DEF SendCommand
<1>3. Unconsumed = rx BY <1>1 DEF Unconsumed
<1>4. rx' \in Seq(Piece)
  BY <1>1, <1>2, EmptySeq DEF HwWrite
<1>5. Unconsumed' = rx'
  <2>1. <<>> \o rx' = rx' BY <1>4, ConcatEmptySeq
  <2> QED BY <1>1, <2>1 DEF Unconsumed
<1>6. Port!Write(w, "cmd", 0)
  <2>1. SubSeq(rx, 0 + 1, Len(rx)) = rx BY <1>1, SubSeqFull
  <2> QED BY <1>1, <1>2, <1>3, <1>5, <2>1 DEF Port!Write, Port!Rest, HwWrite
<1>7. \/ w.err # "ESP_OK" /\ Port!Return(w.err)
      \/ w.err = "ESP_OK" /\ Port!Goto(IF c \in Prompted THEN "prompt" ELSE "read")
      \/ w.err = "ESP_OK" /\ c \notin Prompted /\ Port!Return("ESP_ERR_NO_MEM")
  BY <1>2 DEF Return, Goto, Port!Return, Port!Goto, RefInv, TypeOK
<1> QED BY <1>1, <1>2, <1>6, <1>7, SameWrites DEF Port!Begin

LEMMA RefDrop ==
  ASSUME RefInv, Lone \in Tasks, DropBeforePrompt(Lone)
  PROVE  Port!Drop
<1>1. PICK n \in 1..ChunkMax :
        ReadChunk(n) /\ \A k \in 1..n : rx[k].kind \notin {"prompt", "urcgt"}
  BY DEF DropBeforePrompt
<1>2. UNCHANGED <<pc, cmd, id, result, tx>> /\ pc[Lone] = "prompt"
  BY DEF DropBeforePrompt
<1>3. n \in 1..Len(rx) /\ rx' = SubSeq(rx, n + 1, Len(rx))
  <2>1. n \in Nat \ {0} /\ n <= Len(rx) /\ rx' = SubSeq(rx, n + 1, Len(rx))
    BY <1>1, HandlerAssumption DEF ReadChunk
  <2>2. Len(rx) \in Nat BY LenProperties DEF RefInv, TypeOK
  <2> QED BY <2>1, <2>2
<1> QED BY <1>1, <1>2, <1>3 DEF Port!Drop, Port!HasPrompt, Port!Rest, Unconsumed

LEMMA RefPayload ==
  ASSUME RefInv, Lone \in Tasks, SendPayload(Lone)
  PROVE  Port!SendPayload
<1>1. /\ pc[Lone] = "prompt" /\ buf[Lone] = <<>> /\ result[Lone] = "none"
      /\ UNCHANGED <<cmd, id, buf>> /\ rx \in Seq(Piece)
  BY DEF SendPayload, RefInv, CallInv, TypeOK
<1>2. PICK n \in 1..ChunkMax, w \in HwWriteOutcomes :
        /\ n <= Len(rx)
        /\ \E k \in 1..n : rx[k].kind \in {"prompt", "urcgt"}
        /\ tx' = IF w.sent THEN Append(tx, [cmd |-> cmd[Lone], id |-> id[Lone], part |-> "data"])
                           ELSE tx
        /\ rx' = IF w.flushed THEN <<>> ELSE SubSeq(rx, n + 1, Len(rx))
        /\ \/ w.err # "ESP_OK" /\ Return(Lone, id[Lone], w.err, TRUE)
           \/ w.err = "ESP_OK" /\ Return(Lone, id[Lone], "ESP_ERR_NO_MEM", TRUE)
           \/ /\ w.err = "ESP_OK"
              /\ pc' = [pc EXCEPT ![Lone] = "read"]
              /\ result' = result
  BY DEF SendPayload
<1>3. n \in 1..Len(rx) /\ n \in Nat /\ n <= ChunkMax
  BY <1>1, <1>2, HandlerAssumption, LenProperties
<1>4. Unconsumed = rx BY <1>1 DEF Unconsumed
<1>5. Unconsumed' = rx'
  <2>1. rx' \in Seq(Piece)
    <3>1. SubSeq(rx, n + 1, Len(rx)) \in Seq(Piece) BY <1>1, <1>2, <1>3, SeqSteps
    <3> QED BY <1>2, <3>1, EmptySeq
  <2>2. <<>> \o rx' = rx' BY <2>1, ConcatEmptySeq
  <2> QED BY <1>1, <2>2 DEF Unconsumed
<1>6. Port!Write(w, "data", n)
  BY <1>1, <1>2, <1>4, <1>5 DEF Port!Write, Port!Rest
<1>7. \/ w.err # "ESP_OK" /\ Port!Return(w.err)
      \/ w.err = "ESP_OK" /\ Port!Goto("read")
      \/ w.err = "ESP_OK" /\ Port!Return("ESP_ERR_NO_MEM")
  BY <1>1, <1>2 DEF Return, Port!Return, Port!Goto, RefInv, TypeOK
<1>8. Port!HasPrompt(n)
  BY <1>2, <1>4 DEF Port!HasPrompt
<1> QED BY <1>1, <1>3, <1>4, <1>6, <1>7, <1>8, SameWrites DEF Port!SendPayload

\* What a chunk of n pieces does to what is unconsumed, while a response is read.
LEMMA ChunkRead ==
  ASSUME RefInv, Lone \in Tasks, pc[Lone] = "read", NEW n \in 1..ChunkMax, ReadChunk(n)
  PROVE  LET b == buf[Lone]  m == Len(b)  all == b \o rx
         IN  /\ n \in 1..Len(rx) /\ m \in Nat /\ n \in Nat
             /\ m + n \in 1..Len(all) /\ m \in 0..Len(all)
             /\ m \in ((m + n) - ChunkMax)..((m + n) - 1)
             /\ m + n \in (m + 1)..(m + ChunkMax)
             /\ ~Port!Complete(all, m, cmd[Lone], RType[cmd[Lone]])
             /\ SubSeq(all, 1, m + n) = b \o SubSeq(rx, 1, n)
             /\ rx' = Port!Rest(all, m + n)
             /\ (b \o SubSeq(rx, 1, n)) \o rx' = all
<1> DEFINE b == buf[Lone]
           m == Len(b)
           all == b \o rx
<1>1. b \in Seq(Piece) /\ rx \in Seq(Piece) /\ m \in Nat /\ Len(rx) \in Nat
  BY LenProperties DEF RefInv, TypeOK
<1>2. n \in Nat \ {0} /\ n <= ChunkMax /\ n <= Len(rx) /\ ChunkMax \in Nat
      /\ rx' = SubSeq(rx, n + 1, Len(rx))
  BY HandlerAssumption DEF ReadChunk
<1> HIDE DEF b
<1>3. /\ Len(all) = m + Len(rx)
      /\ SubSeq(all, 1, m + n) = b \o SubSeq(rx, 1, n)
      /\ SubSeq(all, m + n + 1, Len(all)) = SubSeq(rx, n + 1, Len(rx))
      /\ (b \o SubSeq(rx, 1, n)) \o SubSeq(rx, n + 1, Len(rx)) = all
  <2>1. b \in Seq(Piece) /\ rx \in Seq(Piece) /\ n \in Nat /\ n <= Len(rx)
    BY <1>1, <1>2
  <2>2. Split(b, rx, n)
    BY <2>1, Taken
  <2> HIDE DEF all, m
  <2> QED BY <2>2 DEF Split, all, m
<1>4. SubSeq(all, 1, m) = b
  BY <1>1, Collected
<1> HIDE DEF all, m
<1>5. ~Port!Complete(all, m, cmd[Lone], RType[cmd[Lone]])
  BY <1>4, SameTermination DEF Port!Complete, RefInv, CallInv, b
<1>6. /\ m + n \in 1..Len(all) /\ m \in 0..Len(all) /\ m \in ((m + n) - ChunkMax)..((m + n) - 1)
      /\ m + n \in (m + 1)..(m + ChunkMax) /\ n \in 1..Len(rx)
  BY <1>1, <1>2, <1>3
<1> QED BY <1>1, <1>2, <1>3, <1>5, <1>6 DEF Port!Rest, b, m, all

LEMMA RefOverflow ==
  ASSUME RefInv, Lone \in Tasks, Overflow(Lone)
  PROVE  Port!GiveUp
<1>1. PICK n \in 1..ChunkMax : ReadChunk(n)
  BY DEF Overflow
<1>2. /\ pc[Lone] = "read" /\ UNCHANGED <<cmd, id, tx>>
      /\ pc'[Lone] = "idle" /\ result'[Lone] = "ESP_ERR_INVALID_SIZE"
  BY DEF Overflow, Return, RefInv, TypeOK
<1> DEFINE m == Len(buf[Lone])
<1>3. Unconsumed = buf[Lone] \o rx /\ Unconsumed' = rx'
  BY <1>2 DEF Unconsumed
<1>4. /\ m \in Port!ReadsInVain(Unconsumed, cmd[Lone], RType[cmd[Lone]])
      /\ m + n \in 1..Len(Unconsumed) /\ m + n \in (m + 1)..(m + ChunkMax)
      /\ rx' = Port!Rest(Unconsumed, m + n)
  BY <1>1, <1>2, <1>3, ChunkRead DEF Port!ReadsInVain
<1> HIDE DEF m
<1>5. m + n \in Port!Overflows(Unconsumed, cmd[Lone], RType[cmd[Lone]])
  BY <1>4 DEF Port!Overflows
<1> QED BY <1>2, <1>3, <1>4, <1>5 DEF Port!GiveUp, Port!Return

LEMMA RefCollect ==
  ASSUME RefInv, Lone \in Tasks, Collect(Lone)
  PROVE  Port!Finish \/ UNCHANGED Port!vars
<1>1. PICK n \in 1..ChunkMax :
        ReadChunk(n) /\ buf' = [buf EXCEPT ![Lone] = @ \o SubSeq(rx, 1, n)]
  BY DEF Collect
<1> DEFINE m == Len(buf[Lone])
           c == cmd[Lone]
           ends == HasCommandTerminated(buf'[Lone], c, RType[c])
<1>2. pc[Lone] = "read" /\ UNCHANGED <<cmd, id, tx>>
      /\ buf'[Lone] = buf[Lone] \o SubSeq(rx, 1, n) /\ Unconsumed = buf[Lone] \o rx
  BY <1>1 DEF Collect, RefInv, TypeOK, Unconsumed
<1>3. /\ ~Port!Complete(Unconsumed, m, c, RType[c])
      /\ m \in ((m + n) - ChunkMax)..((m + n) - 1) /\ m \in Nat
      /\ m + n \in 1..Len(Unconsumed)
      /\ SubSeq(Unconsumed, 1, m + n) = buf'[Lone]
      /\ rx' = Port!Rest(Unconsumed, m + n)
      /\ buf'[Lone] \o rx' = Unconsumed
  BY <1>1, <1>2, ChunkRead
<1>4. CASE ends
  <2>1. /\ pc'[Lone] = "idle"
        /\ result'[Lone] = Verdict(buf'[Lone], c, RType[c], Parser[c])
    <3>1. Return(Lone, id[Lone], Verdict(buf'[Lone], c, RType[c], Parser[c]), FALSE)
      BY <1>4 DEF Collect
    <3> QED BY <3>1 DEF Return, RefInv, TypeOK
  <2>2. Port!Return(Port!Verdict(SubSeq(Unconsumed, 1, m + n), c, RType[c], Parser[c]))
    BY <1>3, <2>1, SameVerdict DEF Port!Return
  <2>3. Unconsumed' = rx' BY <2>1 DEF Unconsumed
  <2>4. Port!Complete(Unconsumed, m + n, c, RType[c])
    BY <1>3, <1>4, SameTermination DEF Port!Complete
  <2> HIDE DEF m, c
  <2>5. m + n \in Port!Reads(Unconsumed, c, RType[c])
    <3> DEFINE j == m + n
    <3> HIDE DEF ends, j
    <3>1. \E k \in (j - ChunkMax)..(j - 1) :
            k >= 0 /\ ~Port!Complete(Unconsumed, k, c, RType[c])
      <4>1. /\ m \in (j - ChunkMax)..(j - 1) /\ m \in Nat
            /\ ~Port!Complete(Unconsumed, m, c, RType[c])
        BY <1>3 DEF j
      <4>2. m >= 0 BY <4>1
      <4> QED BY <4>1, <4>2
    <3>2. j \in 1..Len(Unconsumed) /\ Port!Complete(Unconsumed, j, c, RType[c])
      BY <1>3, <2>4 DEF j
    <3>3. j \in Port!Reads(Unconsumed, c, RType[c])
      BY <3>1, <3>2 DEF Port!Reads
    <3> QED BY <3>3 DEF j
  <2> QED BY <1>2, <1>3, <2>2, <2>3, <2>5 DEF Port!Finish, c
<1>5. CASE ~ends
  <2>1. UNCHANGED <<pc, result>> BY <1>5 DEF Collect
  <2>2. Unconsumed' = Unconsumed BY <1>2, <1>3, <2>1 DEF Unconsumed
  <2> QED BY <1>2, <2>1, <2>2 DEF Port!vars
<1> QED BY <1>4, <1>5

LEMMA RefTimeOut ==
  ASSUME RefInv, Lone \in Tasks, TimeOut(Lone)
  PROVE  Port!GiveUp
<1>1. /\ UNCHANGED <<cmd, id, tx, rx>>
      /\ pc'[Lone] = "idle" /\ result'[Lone] = "ESP_ERR_TIMEOUT"
      /\ Unconsumed' = rx /\ pc[Lone] \in {"prompt", "read"}
  BY DEF TimeOut, Return, RefInv, TypeOK, Unconsumed
<1>2. CASE pc[Lone] = "prompt"
  BY <1>1, <1>2 DEF Unconsumed, Port!GiveUp, Port!Return
<1>3. CASE pc[Lone] = "read"
  <2> DEFINE b == buf[Lone]
             m == Len(b)
  <2>1. b \in Seq(Piece) /\ rx \in Seq(Piece) /\ m \in Nat /\ Len(rx) \in Nat
        /\ Len(b \o rx) = m + Len(rx)
    BY LenProperties, ConcatProperties DEF RefInv, TypeOK
  <2>2. Unconsumed = b \o rx BY <1>3 DEF Unconsumed
  <2>3. SubSeq(b \o rx, 1, m) = b /\ SubSeq(b \o rx, m + 1, Len(b \o rx)) = rx
    BY <2>1, Collected
  <2>4. ~Port!Complete(Unconsumed, m, cmd[Lone], RType[cmd[Lone]])
    BY <1>3, <2>2, <2>3, SameTermination DEF Port!Complete, RefInv, CallInv
  <2>5. m \in Port!ReadsInVain(Unconsumed, cmd[Lone], RType[cmd[Lone]])
    BY <2>1, <2>2, <2>4 DEF Port!ReadsInVain
  <2>6. rx = Port!Rest(Unconsumed, m) BY <2>2, <2>3 DEF Port!Rest
  <2> QED BY <1>1, <1>3, <2>5, <2>6 DEF Port!GiveUp, Port!Return
<1> QED BY <1>1, <1>2, <1>3

LEMMA RefModem ==
  ASSUME RefInv, Lone \in Tasks, Modem
  PROVE  Port!Modem
<1>1. UNCHANGED <<pc, cmd, id, buf, result>>
      /\ (tx' = tx \/ (tx # <<>> /\ tx' = Tail(tx)))
  BY DEF Modem, ModemTakes, ModemSends, ModemSendsUrc, host
<1>2. rx' = rx \/ \E p \in Piece : rx' = Append(rx, p)
  <2>1. CASE ModemTakes BY <2>1 DEF ModemTakes
  <2>2. CASE ModemSends
    <3>1. Head(out) \in Piece
      BY <2>2, HeadTailProperties DEF ModemSends, RefInv, TypeOK
    <3> QED BY <2>2, <3>1 DEF ModemSends, Deliver
  <2>3. CASE ModemSendsUrc
    <3>1. \A kind \in UrcKinds : P(kind, CHOOSE c \in Cmds : TRUE, NoCall) \in Piece
      BY HandlerAssumption DEF P, Piece, Kinds, Urcs, NoCall
    <3> QED BY <2>3, <3>1 DEF ModemSendsUrc, Deliver
  <2> QED BY <2>1, <2>2, <2>3 DEF Modem
<1>3. Unconsumed \in Seq(Piece) /\ rx \in Seq(Piece) /\ buf[Lone] \in Seq(Piece)
  BY ConcatProperties DEF Unconsumed, RefInv, TypeOK
<1>4. Unconsumed' = Unconsumed \/ \E p \in Piece : Unconsumed' = Append(Unconsumed, p)
  <2>1. ASSUME NEW p \in Piece
        PROVE  buf[Lone] \o Append(rx, p) = Append(buf[Lone] \o rx, p)
    <3>1. /\ Append(rx, p) = rx \o <<p>> /\ <<p>> \in Seq(Piece)
          /\ buf[Lone] \o rx \in Seq(Piece)
      BY <1>3, AppendIsConcat, ConcatProperties
    <3>2. Append(buf[Lone] \o rx, p) = (buf[Lone] \o rx) \o <<p>>
      BY <3>1, AppendIsConcat
    <3>3. (buf[Lone] \o rx) \o <<p>> = buf[Lone] \o (rx \o <<p>>)
      <4> DEFINE b == buf[Lone]
                 q == <<p>>
      <4>1. b \in Seq(Piece) /\ rx \in Seq(Piece) /\ q \in Seq(Piece)
        BY <1>3, <3>1
      <4> HIDE DEF b, q
      <4>2. (b \o rx) \o q = b \o (rx \o q) BY <4>1, ConcatAssociative
      <4> QED BY <4>2 DEF b, q
    <3> QED BY <3>1, <3>2, <3>3
  <2> QED BY <1>1, <1>2, <2>1 DEF Unconsumed
<1>5. Len(Unconsumed') >= Len(Unconsumed)
      /\ SubSeq(Unconsumed', 1, Len(Unconsumed)) = Unconsumed
  <2> DEFINE s == Unconsumed
  <2>1. SubSeq(s, 1, Len(s)) = s /\ Len(s) \in Nat
    BY <1>3, SubSeqFull, LenProperties
  <2>2. ASSUME NEW p \in Piece
        PROVE  Len(Append(s, p)) >= Len(s) /\ SubSeq(Append(s, p), 1, Len(s)) = s
    <3> HIDE DEF s
    <3>1. /\ Append(s, p) = s \o <<p>> /\ <<p>> \in Seq(Piece) /\ s \in Seq(Piece)
          /\ Len(Append(s, p)) = Len(s) + 1
      BY <1>3, AppendIsConcat, AppendProperties DEF s
    <3>2. SubSeq(s \o <<p>>, 1, Len(s)) = s BY <3>1, Collected
    <3> QED BY <2>1, <3>1, <3>2
  <2> QED BY <1>4, <2>1, <2>2
<1> QED BY <1>1, <1>5 DEF Port!Modem

LEMMA RefStep ==
  ASSUME RefInv, Tasks = {Lone}, [Next]_vars
  PROVE  [Port!Next]_(Port!vars)
<1>1. CASE UNCHANGED vars
  BY <1>1 DEF vars, Unconsumed, Port!vars
<1>2. CASE Modem BY <1>2, RefModem DEF Port!Next
<1>3. CASE RejectCall(Lone) BY <1>3, RefReject DEF Port!Next
<1>4. CASE \E c \in Cmds : SendCommand(Lone, c) BY <1>4, RefSend DEF Port!Next
<1>5. CASE Progress(Lone)
  <2>1. CASE ReadNothing(Lone)
    BY <2>1 DEF ReadNothing, Unconsumed, Port!vars
  <2> QED BY <1>5, <2>1, RefDrop, RefPayload, RefOverflow, RefCollect, RefTimeOut
          DEF Progress, Port!Next
<1> QED BY <1>1, <1>2, <1>3, <1>4, <1>5 DEF Next

\* The calls of a task that has the handler to itself are those of AtCall: its
\* loops take what was received in order, judge it once, at the first chunk that
\* completes the response, and lose it only when they return an error; for any
\* commands, chunk and buffer sizes and timeouts, and whatever the modem does.
THEOREM LoneCallImplements == ASSUME Tasks = {Lone} PROVE Spec => ImplementsAtCall
<1>1. Init => RefInv /\ Port!Init
  <2>1. Init => TypeOK /\ CallHasId
    BY HandlerAssumption, EmptySeq DEF Init, TypeOK, CallHasId, Results, CallIds, NoCall
  <2>2. Init => CallInv
    BY DEF Init, CallInv, NoCall
  <2>3. Init => Port!Init
    BY DEF Init, Port!Init, Unconsumed
  <2> QED BY <2>1, <2>2, <2>3 DEF RefInv
<1>2. RefInv /\ [Next]_vars => RefInv'
  <2>1. CASE UNCHANGED vars
    BY <2>1, CallInvStep DEF RefInv, vars, TypeOK, CallHasId
  <2> QED BY <2>1, TypeOKStep, CallHasIdStep, CallInvStep DEF RefInv
<1>3. RefInv /\ [Next]_vars => [Port!Next]_(Port!vars)
  BY RefStep
<1> QED BY <1>1, <1>2, <1>3, PTL DEF Spec, ImplementsAtCall, Port!Spec
================================================================================
