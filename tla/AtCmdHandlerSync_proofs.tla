------------------------ MODULE AtCmdHandlerSync_proofs ------------------------
(* Theorems about AtCmdHandler: a task that has the handler to itself stays    *)
(* in step with the modem until it gives up on a call; and any task's call     *)
(* that has the line to itself is judged exactly.                              *)
EXTENDS AtCmdHandler_proofs

\* The pieces that move a call or the modem on: the verdicts and the prompt.
Marks == Verdicts \cup {"prompt"}

Unmarked(s) == \A k \in DOMAIN s : s[k].kind \notin Marks
OneMark(s)  == \A j, k \in DOMAIN s : s[j].kind \in Marks /\ s[k].kind \in Marks => j = k
NoPrompt(s) == \A k \in DOMAIN s : s[k].kind # "prompt"
OwnMarks(i, s) == \A k \in DOMAIN s : s[k].kind \in Marks => s[k].id = i

-------------------------------------------------------------------------------
\* What the operations on a sequence do to its marks.
LEMMA EmptyMarks ==
  \A i : Unmarked(<<>>) /\ OneMark(<<>>) /\ NoPrompt(<<>>) /\ OwnMarks(i, <<>>)
BY DEF Unmarked, OneMark, NoPrompt, OwnMarks

LEMMA UnmarkedImplies ==
  ASSUME NEW s, Unmarked(s)
  PROVE  OneMark(s) /\ NoPrompt(s) /\ \A i : OwnMarks(i, s)
BY DEF Unmarked, OneMark, NoPrompt, OwnMarks, Marks

LEMMA AppendMarks ==
  ASSUME NEW s \in Seq(Piece), NEW p \in Piece
  PROVE  LET r == Append(s, p)
         IN  /\ Unmarked(s) => OneMark(r)
             /\ Unmarked(s) /\ p.kind \notin Marks => Unmarked(r)
             /\ OneMark(s) /\ p.kind \notin Marks => OneMark(r)
             /\ NoPrompt(s) /\ p.kind # "prompt" => NoPrompt(r)
             /\ \A i : OwnMarks(i, s) /\ (p.kind \in Marks => p.id = i) => OwnMarks(i, r)
<1> DEFINE r == Append(s, p)
<1>1. /\ DOMAIN s = 1..Len(s) /\ DOMAIN r = 1..(Len(s) + 1) /\ Len(s) \in Nat
      /\ \A k \in 1..Len(s) : r[k] = s[k]
      /\ r[Len(s) + 1] = p
  BY AppendProperties, LenProperties
<1> HIDE DEF r
<1>2. \A k \in DOMAIN r : (k \in DOMAIN s /\ r[k] = s[k]) \/ (k = Len(s) + 1 /\ r[k] = p)
  BY <1>1
<1>3. Unmarked(s) => OneMark(r) BY <1>1, <1>2 DEF Unmarked, OneMark
<1>4. Unmarked(s) /\ p.kind \notin Marks => Unmarked(r) BY <1>2 DEF Unmarked
<1>5. OneMark(s) /\ p.kind \notin Marks => OneMark(r) BY <1>2 DEF OneMark
<1>6. NoPrompt(s) /\ p.kind # "prompt" => NoPrompt(r) BY <1>2 DEF NoPrompt
<1>7. \A i : OwnMarks(i, s) /\ (p.kind \in Marks => p.id = i) => OwnMarks(i, r)
  BY <1>2 DEF OwnMarks
<1> QED BY <1>3, <1>4, <1>5, <1>6, <1>7 DEF r

LEMMA TailMarks ==
  ASSUME NEW s \in Seq(Piece), s # <<>>
  PROVE  /\ Head(s) \in Piece /\ Tail(s) \in Seq(Piece)
         /\ Unmarked(s) => Unmarked(Tail(s)) /\ Head(s).kind \notin Marks
         /\ OneMark(s) => OneMark(Tail(s))
         /\ OneMark(s) /\ Head(s).kind \in Marks => Unmarked(Tail(s))
         /\ NoPrompt(s) => NoPrompt(Tail(s)) /\ Head(s).kind # "prompt"
         /\ \A i : OwnMarks(i, s) =>
              OwnMarks(i, Tail(s)) /\ (Head(s).kind \in Marks => Head(s).id = i)
<1> DEFINE r == Tail(s)
           h == Head(s)
<1>1. /\ DOMAIN s = 1..Len(s) /\ Len(s) \in Nat \ {0} /\ h \in Piece /\ r \in Seq(Piece)
      /\ Len(r) = Len(s) - 1
      /\ \A k \in 1..Len(r) : r[k] = s[k + 1]
  BY HeadTailProperties, LenProperties, EmptySeq
<1>2. DOMAIN r = 1..(Len(s) - 1) BY <1>1, LenProperties
<1>3. h = s[1] /\ 1 \in DOMAIN s BY <1>1
<1> HIDE DEF r, h
<1>4. \A k \in DOMAIN r : k + 1 \in DOMAIN s /\ r[k] = s[k + 1] /\ k + 1 # 1
  BY <1>1, <1>2
<1>5. Unmarked(s) => Unmarked(r) /\ h.kind \notin Marks BY <1>3, <1>4 DEF Unmarked
<1>6. OneMark(s) => OneMark(r)
  <2> SUFFICES ASSUME OneMark(s), NEW j \in DOMAIN r, NEW k \in DOMAIN r,
                      r[j].kind \in Marks, r[k].kind \in Marks
               PROVE  j = k
    BY DEF OneMark
  <2>1. j + 1 = k + 1 BY <1>4 DEF OneMark
  <2> QED BY <1>2, <2>1
<1>7. OneMark(s) /\ h.kind \in Marks => Unmarked(r)
  BY <1>3, <1>4 DEF OneMark, Unmarked
<1>8. NoPrompt(s) => NoPrompt(r) /\ h.kind # "prompt" BY <1>3, <1>4 DEF NoPrompt
<1>9. \A i : OwnMarks(i, s) => OwnMarks(i, r) /\ (h.kind \in Marks => h.id = i)
  BY <1>3, <1>4 DEF OwnMarks
<1> QED BY <1>1, <1>5, <1>6, <1>7, <1>8, <1>9 DEF r, h

LEMMA SplitMarks ==
  ASSUME NEW s \in Seq(Piece), NEW n \in Nat, n <= Len(s)
  PROVE  LET f == SubSeq(s, 1, n)  r == SubSeq(s, n + 1, Len(s))
         IN  /\ f \in Seq(Piece) /\ r \in Seq(Piece)
             /\ Unmarked(s) => Unmarked(f) /\ Unmarked(r)
             /\ OneMark(s) => OneMark(f) /\ OneMark(r) /\ (Unmarked(f) \/ Unmarked(r))
             /\ NoPrompt(s) => NoPrompt(f) /\ NoPrompt(r)
             /\ \A i : OwnMarks(i, s) => OwnMarks(i, f) /\ OwnMarks(i, r)
<1> DEFINE f == SubSeq(s, 1, n)
           r == SubSeq(s, n + 1, Len(s))
<1>1. f \in Seq(Piece) /\ r \in Seq(Piece) BY SeqSteps
<1>2. Len(s) \in Nat /\ DOMAIN s = 1..Len(s) /\ \A k \in 1..Len(s) : s[k] \in Piece
  BY LenProperties, ElementOfSeq
<1>3. \A k \in DOMAIN f : k \in DOMAIN s /\ f[k] = s[k] /\ k <= n
  <2>1. \A k \in 1..n : s[k] \in Piece BY <1>2
  <2>2. Len(f) = n /\ \A k \in 1..n : f[k] = s[k]
    BY <2>1, SubSeqProperties
  <2>3. DOMAIN f = 1..n BY <1>1, <2>2, LenProperties
  <2> HIDE DEF f
  <2> QED BY <1>2, <2>2, <2>3
<1>4. \A k \in DOMAIN r : n + k \in DOMAIN s /\ r[k] = s[n + k] /\ k \in Nat \ {0}
  <2>1. \A k \in (n + 1)..Len(s) : s[k] \in Piece BY <1>2
  <2>2. Len(r) = Len(s) - n /\ \A k \in 1..Len(s) - n : r[k] = s[n + k]
    BY <1>2, <2>1, SubSeqProperties
  <2>3. DOMAIN r = 1..Len(s) - n BY <1>1, <2>2, LenProperties
  <2> HIDE DEF r
  <2> QED BY <1>2, <2>2, <2>3
<1> HIDE DEF f, r
<1>5. Unmarked(s) => Unmarked(f) /\ Unmarked(r) BY <1>3, <1>4 DEF Unmarked
<1>6. OneMark(s) => OneMark(f) BY <1>3 DEF OneMark
<1>7. OneMark(s) => OneMark(r)
  <2> SUFFICES ASSUME OneMark(s), NEW j \in DOMAIN r, NEW k \in DOMAIN r,
                      r[j].kind \in Marks, r[k].kind \in Marks
               PROVE  j = k
    BY DEF OneMark
  <2>1. n + j = n + k BY <1>4 DEF OneMark
  <2> QED BY <1>4, <2>1
<1>8. OneMark(s) => Unmarked(f) \/ Unmarked(r)
  <2> SUFFICES ASSUME OneMark(s), NEW j \in DOMAIN f, NEW k \in DOMAIN r,
                      f[j].kind \in Marks, r[k].kind \in Marks
               PROVE  FALSE
    BY DEF Unmarked
  <2>1. j = n + k BY <1>3, <1>4 DEF OneMark
  <2>2. j <= n /\ k \in Nat \ {0} BY <1>3, <1>4
  <2> QED BY <2>1, <2>2
<1>9. NoPrompt(s) => NoPrompt(f) /\ NoPrompt(r) BY <1>3, <1>4 DEF NoPrompt
<1>10. \A i : OwnMarks(i, s) => OwnMarks(i, f) /\ OwnMarks(i, r)
  BY <1>3, <1>4 DEF OwnMarks
<1> QED BY <1>1, <1>5, <1>6, <1>7, <1>8, <1>9, <1>10 DEF f, r

LEMMA ConcatMarks ==
  ASSUME NEW b \in Seq(Piece), NEW f \in Seq(Piece)
  PROVE  LET s == b \o f
         IN  /\ Unmarked(b) /\ Unmarked(f) => Unmarked(s)
             /\ Unmarked(b) /\ OneMark(f) => OneMark(s)
             /\ OneMark(b) /\ Unmarked(f) => OneMark(s)
             /\ NoPrompt(b) /\ NoPrompt(f) => NoPrompt(s)
             /\ \A i : OwnMarks(i, b) /\ OwnMarks(i, f) => OwnMarks(i, s)
<1> DEFINE s == b \o f
<1>1. /\ Len(b) \in Nat /\ Len(f) \in Nat /\ DOMAIN b = 1..Len(b) /\ DOMAIN f = 1..Len(f)
      /\ s \in Seq(Piece) /\ Len(s) = Len(b) + Len(f)
      /\ \A k \in 1..Len(b) + Len(f) : s[k] = IF k <= Len(b) THEN b[k] ELSE f[k - Len(b)]
  BY LenProperties, ConcatProperties
<1>2. DOMAIN s = 1..Len(b) + Len(f) BY <1>1, LenProperties
<1> HIDE DEF s
<1>3. \A k \in DOMAIN s : \/ k \in DOMAIN b /\ s[k] = b[k]
                          \/ k - Len(b) \in DOMAIN f /\ s[k] = f[k - Len(b)]
  BY <1>1, <1>2
<1>4. Unmarked(b) /\ Unmarked(f) => Unmarked(s) BY <1>3 DEF Unmarked
<1>5. Unmarked(b) /\ OneMark(f) => OneMark(s)
  <2> SUFFICES ASSUME Unmarked(b), OneMark(f), NEW j \in DOMAIN s, NEW k \in DOMAIN s,
                      s[j].kind \in Marks, s[k].kind \in Marks
               PROVE  j = k
    BY DEF OneMark
  <2>1. j - Len(b) = k - Len(b) BY <1>3 DEF OneMark, Unmarked
  <2> QED BY <1>1, <1>2, <2>1
<1>6. OneMark(b) /\ Unmarked(f) => OneMark(s)
  BY <1>3 DEF OneMark, Unmarked
<1>7. NoPrompt(b) /\ NoPrompt(f) => NoPrompt(s) BY <1>3 DEF NoPrompt
<1>8. \A i : OwnMarks(i, b) /\ OwnMarks(i, f) => OwnMarks(i, s) BY <1>3 DEF OwnMarks
<1> QED BY <1>4, <1>5, <1>6, <1>7, <1>8 DEF s

-------------------------------------------------------------------------------
\* What the modem answers has at most one mark, of the call it answers.
LEMMA AnswerMarks ==
  ASSUME NEW c \in Cmds, NEW i \in CallIds \cup {NoCall}
  PROVE  /\ \A a \in Answers(c, i) \cup Failures(c, i) :
              a \in Seq(Piece) /\ OneMark(a) /\ NoPrompt(a) /\ OwnMarks(i, a)
         /\ \A e \in EchoesOf(c, i) : e \in Seq(Piece) /\ Unmarked(e)
         /\ LET a == <<P("prompt", c, i)>>
            IN  a \in Seq(Piece) /\ OneMark(a) /\ OwnMarks(i, a)
<1>1. \A kind \in Kinds : P(kind, c, i) \in Piece /\ P(kind, c, i).kind = kind
                          /\ P(kind, c, i).id = i
  BY DEF P, Piece, NoCall
<1>2. /\ {"ok", "error", "cme", "cmetail", "head", "tail", "prompt"} \cup Echoes \subseteq Kinds
      /\ Marks = {"ok", "error", "cme", "prompt"}
  BY DEF Kinds, Marks, Verdicts
<1>3. \A kind \in Kinds : LET a == <<P(kind, c, i)>>
                          IN  /\ a \in Seq(Piece) /\ OneMark(a) /\ OwnMarks(i, a)
                              /\ kind # "prompt" => NoPrompt(a)
                              /\ kind \notin Marks => Unmarked(a)
  BY <1>1 DEF OneMark, OwnMarks, NoPrompt, Unmarked
<1> DEFINE data == <<P("head", c, i), P("tail", c, i)>>
           ok == <<P("ok", c, i)>>
           cme == <<P("cme", c, i), P("cmetail", c, i)>>
<1>4. data \in Seq(Piece) /\ Unmarked(data)
  BY <1>1, <1>2 DEF Unmarked
<1>5. cme \in Seq(Piece) /\ OneMark(cme) /\ NoPrompt(cme) /\ OwnMarks(i, cme)
  BY <1>1, <1>2 DEF OneMark, OwnMarks, NoPrompt
<1>6. ok \in Seq(Piece) /\ OneMark(ok) /\ NoPrompt(ok) /\ OwnMarks(i, ok)
  BY <1>2, <1>3
<1>7. OneMark(data) /\ NoPrompt(data) /\ OwnMarks(i, data)
  BY <1>4, UnmarkedImplies
<1>8. \A a \in Failures(c, i) :
        a \in Seq(Piece) /\ OneMark(a) /\ NoPrompt(a) /\ OwnMarks(i, a)
  <2>1. Failures(c, i) = {<<>>, <<P("error", c, i)>>, cme} BY DEF Failures
  <2>2. "error" \in Kinds /\ "error" # "prompt" BY <1>2
  <2> HIDE DEF cme
  <2> QED BY <1>3, <1>5, <2>1, <2>2, EmptyMarks, EmptySeq
<1>9. \A a \in {ok, data \o ok, ok \o data} :
        a \in Seq(Piece) /\ OneMark(a) /\ NoPrompt(a) /\ OwnMarks(i, a)
  <2> HIDE DEF ok, data
  <2>1. data \o ok \in Seq(Piece) /\ ok \o data \in Seq(Piece)
    BY <1>4, <1>6, ConcatProperties
  <2> QED BY <1>4, <1>6, <1>7, <2>1, ConcatMarks
<1>10. Answers(c, i) \subseteq Failures(c, i) \cup {ok, data \o ok, ok \o data}
  BY DEF Answers
<1>11. \A e \in EchoesOf(c, i) : e \in Seq(Piece) /\ Unmarked(e)
  <2>1. \A kind \in Echoes : kind \in Kinds /\ kind \notin Marks
    BY <1>2 DEF Echoes
  <2>2. \A e \in EchoesOf(c, i) : e = <<>> \/ \E kind \in Echoes : e = <<P(kind, c, i)>>
    BY HandlerAssumption DEF EchoesOf
  <2> QED BY <1>3, <2>1, <2>2, EmptyMarks, EmptySeq
<1> HIDE DEF ok, data
<1> QED BY <1>2, <1>3, <1>8, <1>9, <1>10, <1>11

LEMMA AnswerAfterEcho ==
  ASSUME NEW c \in Cmds, NEW i \in CallIds \cup {NoCall}, NEW e \in EchoesOf(c, i)
  PROVE  /\ \A a \in Answers(c, i) \cup Failures(c, i) :
              OneMark(e \o a) /\ NoPrompt(e \o a) /\ OwnMarks(i, e \o a)
         /\ OneMark(e \o <<P("prompt", c, i)>>)
         /\ OwnMarks(i, e \o <<P("prompt", c, i)>>)
<1>1. e \in Seq(Piece) /\ Unmarked(e) /\ NoPrompt(e) /\ OwnMarks(i, e)
  BY AnswerMarks, UnmarkedImplies
<1>2. \A a \in Answers(c, i) \cup Failures(c, i) :
        a \in Seq(Piece) /\ OneMark(a) /\ NoPrompt(a) /\ OwnMarks(i, a)
  BY AnswerMarks
<1> DEFINE q == <<P("prompt", c, i)>>
<1>3. q \in Seq(Piece) /\ OneMark(q) /\ OwnMarks(i, q)
  BY AnswerMarks
<1> HIDE DEF q
<1>4. OneMark(e \o q) /\ OwnMarks(i, e \o q)
  BY <1>1, <1>3, ConcatMarks
<1>5. \A a \in Answers(c, i) \cup Failures(c, i) :
        OneMark(e \o a) /\ NoPrompt(e \o a) /\ OwnMarks(i, e \o a)
  BY <1>1, <1>2, ConcatMarks
<1> QED BY <1>4, <1>5 DEF q

-------------------------------------------------------------------------------
\* Where host and modem stand, with b collected by the current call, i.
\* Between calls: nothing is asked and nothing is to be answered.
InStep(b, i) ==
  /\ tx = <<>> /\ mode = "command"
  /\ Unmarked(rx) /\ Unmarked(out) /\ OwnMarks(i, b)

\* The command is written and not yet taken up.
Asked(b, i, prompted) ==
  /\ \E w \in Written : /\ tx = <<w>> /\ w.part = "cmd" /\ w.id = i
                        /\ w.cmd \in Prompted <=> prompted
  /\ mode = "command" /\ Unmarked(b) /\ Unmarked(rx) /\ Unmarked(out)

\* It is taken up and its prompt, or an error instead, is on its way ...
Prompting(i) ==
  /\ tx = <<>> /\ mode = "command" /\ dcall.id = i /\ NoPrompt(rx)
  /\ \/ Unmarked(rx) /\ OneMark(out)
     \/ OneMark(rx) /\ Unmarked(out)

\* ... or the prompt has been sent and the modem waits for the payload.
WantsPayload(i) ==
  /\ tx = <<>> /\ mode = "data" /\ dcall.id = i
  /\ OneMark(rx) /\ Unmarked(out)

\* The payload is written and not yet taken up.
PayloadSent(b, i) ==
  /\ \E w \in Written : tx = <<w>> /\ w.part = "data" /\ w.id = i
  /\ mode = "data" /\ dcall.id = i
  /\ Unmarked(b) /\ Unmarked(rx) /\ Unmarked(out)

\* The final answer is on its way: its verdict is in one place at most.
Answering(b, i) ==
  /\ tx = <<>> /\ mode = "command"
  /\ NoPrompt(b) /\ NoPrompt(rx) /\ NoPrompt(out)
  /\ OneMark(b) /\ OneMark(rx) /\ OneMark(out)
  /\ OwnMarks(i, b) /\ OwnMarks(i, rx) /\ OwnMarks(i, out)
  /\ \/ Unmarked(rx) /\ Unmarked(out)
     \/ Unmarked(b) /\ Unmarked(out)
     \/ Unmarked(b) /\ Unmarked(rx)

Stands(loop, b, i) ==
  /\ loop = "idle" => InStep(b, i)
  /\ loop = "prompt" => Asked(<<>>, i, TRUE) \/ Prompting(i) \/ WantsPayload(i)
  /\ loop = "read" => Asked(b, i, FALSE) \/ PayloadSent(b, i) \/ Answering(b, i)

SyncInv == debt = {} => Stands(pc[Lone], buf[Lone], id[Lone])

\* The two modules' invariants, for a lone task.
LoneInv == RefInv /\ SyncInv /\ Tasks = {Lone}

LEMMA LoneTypes ==
  ASSUME LoneInv
  PROVE  /\ Lone \in Tasks /\ pc[Lone] \in {"idle", "prompt", "read"}
         /\ rx \in Seq(Piece) /\ out \in Seq(Piece) /\ buf[Lone] \in Seq(Piece)
         /\ tx \in Seq(Written) /\ id[Lone] \in CallIds \cup {NoCall}
         /\ pc[Lone] # "idle" => id[Lone] \in CallIds
BY DEF LoneInv, RefInv, TypeOK, CallHasId

-------------------------------------------------------------------------------
\* The steps of the task.
LEMMA SyncReject ==
  ASSUME LoneInv, RejectCall(Lone)
  PROVE  SyncInv'
<1>1. pc[Lone] = "idle" /\ UNCHANGED <<pc, id, tx, rx, mode, out, debt>> /\ buf'[Lone] = <<>>
  BY LoneTypes DEF RejectCall, modem, LoneInv, RefInv, TypeOK
<1> QED BY <1>1, EmptyMarks DEF LoneInv, SyncInv, Stands, InStep

LEMMA SyncSend ==
  ASSUME LoneInv, NEW c \in Cmds, SendCommand(Lone, c)
  PROVE  SyncInv'
<1> SUFFICES ASSUME debt' = {} PROVE Stands(pc[Lone], buf[Lone], id[Lone])'
  BY DEF SyncInv
<1>1. /\ pc[Lone] = "idle" /\ buf'[Lone] = <<>> /\ id'[Lone] = nextId /\ nextId \in CallIds
      /\ mode' = mode /\ out' = out
  BY LoneTypes DEF SendCommand, modem, LoneInv, RefInv, TypeOK
<1> DEFINE item == [cmd |-> c, id |-> nextId, part |-> "cmd"]
<1>2. PICK w \in HwWriteOutcomes :
        /\ HwWrite(w, item)
        /\ \/ /\ w.err # "ESP_OK"
              /\ Return(Lone, nextId, w.err, w.sent)
           \/ /\ w.err = "ESP_OK"
              /\ IF c \in Prompted THEN Goto(Lone, "prompt", PromptTimeout)
                                   ELSE Goto(Lone, "read", Timeout[c])
           \/ /\ w.err = "ESP_OK"
              /\ c \notin Prompted
              /\ Return(Lone, nextId, "ESP_ERR_NO_MEM", TRUE)
  BY DEF SendCommand
<1>3. debt = {} BY <1>2 DEF Return, Goto
<1>4. InStep(buf[Lone], id[Lone])
  BY <1>1, <1>3 DEF LoneInv, SyncInv, Stands
<1>5. tx = <<>> /\ mode' = "command" /\ Unmarked(rx') /\ Unmarked(out')
  BY <1>1, <1>2, <1>4, EmptyMarks DEF InStep, HwWrite
<1>6. CASE w.err # "ESP_OK"
  <2>1. pc'[Lone] = "idle" /\ ~w.sent
    BY <1>2, <1>6, LoneTypes DEF Return, LoneInv, RefInv, TypeOK, HwWriteOutcomes
  <2>2. tx' = <<>> BY <1>2, <1>5, <2>1 DEF HwWrite
  <2> QED BY <1>1, <1>5, <2>1, <2>2, EmptyMarks DEF Stands, InStep
<1>7. CASE w.err = "ESP_OK"
  <2>1. tx' = <<item>>
    <3>1. w.sent BY <1>7 DEF HwWriteOutcomes
    <3>2. tx' = Append(<<>>, item) BY <1>2, <1>5, <3>1 DEF HwWrite
    <3> QED BY <3>2
  <2>2. item \in Written /\ item.part = "cmd" /\ item.id = nextId /\ item.cmd = c
    BY <1>1 DEF Written
  <2>3. \/ pc'[Lone] = "prompt" /\ c \in Prompted
        \/ pc'[Lone] = "read" /\ c \notin Prompted
    BY <1>2, <1>7, LoneTypes DEF Return, Goto, LoneInv, RefInv, TypeOK
  <2> HIDE DEF item
  <2>4. \E v \in Written : /\ tx' = <<v>> /\ v.part = "cmd" /\ v.id = id'[Lone]
                           /\ v.cmd \in Prompted <=> c \in Prompted
    BY <1>1, <2>1, <2>2
  <2>5. CASE pc'[Lone] = "prompt"
    <3>1. Asked(<<>>, id[Lone], TRUE)'
      BY <1>5, <2>3, <2>4, <2>5, EmptyMarks DEF Asked
    <3> QED BY <2>5, <3>1 DEF Stands
  <2>6. CASE pc'[Lone] = "read"
    <3>1. Asked(buf[Lone], id[Lone], FALSE)'
      BY <1>1, <1>5, <2>3, <2>4, <2>6, EmptyMarks DEF Asked
    <3> QED BY <2>6, <3>1 DEF Stands
  <2> QED BY <2>3, <2>5, <2>6
<1> QED BY <1>6, <1>7

\* A step that adds to debt leaves nothing to show.
LEMMA GivesUp ==
  ASSUME LoneInv, NEW r, pc[Lone] # "idle", Return(Lone, id[Lone], r, TRUE)
  PROVE  SyncInv'
BY LoneTypes DEF Return, SyncInv

LEMMA SyncDrop ==
  ASSUME LoneInv, DropBeforePrompt(Lone)
  PROVE  SyncInv'
<1> SUFFICES ASSUME debt = {} PROVE Stands(pc[Lone], buf[Lone], id[Lone])'
  BY DEF SyncInv, DropBeforePrompt
<1>1. pc[Lone] = "prompt" /\ UNCHANGED <<pc, id, buf, tx, mode, out, dcall>>
  BY DEF DropBeforePrompt, modem
<1>2. PICK n \in Nat : n <= Len(rx) /\ rx' = SubSeq(rx, n + 1, Len(rx))
  <2>1. \A n \in 1..ChunkMax : ReadChunk(n) =>
          n \in Nat /\ n <= Len(rx) /\ rx' = SubSeq(rx, n + 1, Len(rx))
    BY HandlerAssumption DEF ReadChunk
  <2>2. \E n \in 1..ChunkMax : ReadChunk(n)
    BY DEF DropBeforePrompt
  <2> QED BY <2>1, <2>2
<1>3. /\ Unmarked(rx) => Unmarked(rx')
      /\ OneMark(rx) => OneMark(rx')
      /\ NoPrompt(rx) => NoPrompt(rx')
  BY <1>2, LoneTypes, SplitMarks
<1>4. Asked(<<>>, id[Lone], TRUE) \/ Prompting(id[Lone]) \/ WantsPayload(id[Lone])
  BY <1>1 DEF LoneInv, SyncInv, Stands
<1>5. Asked(<<>>, id[Lone], TRUE) => Asked(<<>>, id[Lone], TRUE)'
  BY <1>1, <1>3 DEF Asked
<1>6. Prompting(id[Lone]) => Prompting(id[Lone])'
  BY <1>1, <1>3 DEF Prompting
<1>7. WantsPayload(id[Lone]) => WantsPayload(id[Lone])'
  BY <1>1, <1>3 DEF WantsPayload
<1> QED BY <1>1, <1>4, <1>5, <1>6, <1>7 DEF Stands

\* The payload goes out, with nothing added to debt, only after the prompt of
\* this call, and then the modem waits for it.
LEMMA SyncPayload ==
  ASSUME LoneInv, SendPayload(Lone)
  PROVE  SyncInv'
<1> SUFFICES ASSUME debt' = {} PROVE Stands(pc[Lone], buf[Lone], id[Lone])'
  BY DEF SyncInv
<1> DEFINE i == id[Lone]
           item == [cmd |-> cmd[Lone], id |-> i, part |-> "data"]
<1>1. /\ pc[Lone] = "prompt" /\ UNCHANGED <<id, buf, mode, out, dcall>>
      /\ buf[Lone] = <<>> /\ i \in CallIds /\ item \in Written
  BY LoneTypes DEF SendPayload, modem, LoneInv, RefInv, CallInv, TypeOK, Written
<1>2. PICK n \in 1..ChunkMax, w \in HwWriteOutcomes :
        /\ n <= Len(rx)
        /\ tx' = IF w.sent THEN Append(tx, item) ELSE tx
        /\ rx' = IF w.flushed THEN <<>> ELSE SubSeq(rx, n + 1, Len(rx))
        /\ \/ Return(Lone, i, w.err, TRUE)
           \/ Return(Lone, i, "ESP_ERR_NO_MEM", TRUE)
           \/ /\ w.err = "ESP_OK"
              /\ pc' = [pc EXCEPT ![Lone] = "read"]
              /\ debt' = IF \E k \in 1..n : rx[k].kind = "prompt" /\ rx[k].id = i
                         THEN debt ELSE debt \cup {i}
  BY DEF SendPayload
<1>3. /\ w.err = "ESP_OK" /\ pc'[Lone] = "read" /\ debt = {}
      /\ \E k \in 1..n : rx[k].kind = "prompt"
  BY <1>1, <1>2, LoneTypes DEF Return, LoneInv, RefInv, TypeOK
<1>4. n \in Nat /\ n <= Len(rx)
  BY <1>2, HandlerAssumption
<1> DEFINE f == SubSeq(rx, 1, n)
           r == SubSeq(rx, n + 1, Len(rx))
<1>5. PICK k \in 1..n : rx[k].kind = "prompt" BY <1>3
<1>6. k \in DOMAIN rx /\ k \in DOMAIN f /\ f[k].kind = "prompt"
  <2>1. Len(rx) \in Nat /\ DOMAIN rx = 1..Len(rx) /\ \A j \in 1..Len(rx) : rx[j] \in Piece
    BY LoneTypes, LenProperties, ElementOfSeq
  <2>2. \A j \in 1..n : rx[j] \in Piece BY <1>4, <2>1
  <2>3. f \in Seq(Piece) /\ Len(f) = n /\ \A j \in 1..n : f[j] = rx[j]
    BY <1>4, <2>2, SubSeqProperties
  <2>4. DOMAIN f = 1..n BY <2>3, LenProperties
  <2> HIDE DEF f
  <2> QED BY <1>4, <1>5, <2>1, <2>3, <2>4
<1>7. ~NoPrompt(rx) /\ ~Unmarked(rx) /\ ~Unmarked(f)
  <2> HIDE DEF f
  <2> QED BY <1>5, <1>6 DEF NoPrompt, Unmarked, Marks
<1>8. WantsPayload(i)
  BY <1>1, <1>3, <1>7 DEF LoneInv, SyncInv, Stands, Asked, Prompting
<1>9. Unmarked(rx')
  <2>1. Unmarked(r)
    BY <1>4, <1>7, <1>8, LoneTypes, SplitMarks DEF WantsPayload
  <2> QED BY <1>2, <2>1, EmptyMarks
<1>10. tx' = <<item>>
  <2>1. w.sent BY <1>3 DEF HwWriteOutcomes
  <2>2. tx' = Append(<<>>, item) BY <1>2, <1>8, <2>1 DEF WantsPayload
  <2> QED BY <2>2
<1>11. \E v \in Written : tx' = <<v>> /\ v.part = "data" /\ v.id = id'[Lone]
  BY <1>1, <1>10
<1>12. PayloadSent(buf[Lone], id[Lone])'
  BY <1>1, <1>8, <1>9, <1>11, EmptyMarks DEF PayloadSent, WantsPayload
<1> QED BY <1>3, <1>12 DEF Stands

\* A response that is complete has a verdict in it, so nothing marked is left.
LEMMA SyncCollect ==
  ASSUME LoneInv, Collect(Lone)
  PROVE  SyncInv'
<1> SUFFICES ASSUME debt' = {} PROVE Stands(pc[Lone], buf[Lone], id[Lone])'
  BY DEF SyncInv
<1> DEFINE i == id[Lone]
           c == cmd[Lone]
           b == buf[Lone]
           ends == HasCommandTerminated(buf'[Lone], c, RType[c])
<1>1. PICK n \in Nat :
        /\ n <= Len(rx) /\ rx' = SubSeq(rx, n + 1, Len(rx))
        /\ buf' = [buf EXCEPT ![Lone] = @ \o SubSeq(rx, 1, n)]
  <2>1. \A n \in 1..ChunkMax : ReadChunk(n) =>
          n \in Nat /\ n <= Len(rx) /\ rx' = SubSeq(rx, n + 1, Len(rx))
    BY HandlerAssumption DEF ReadChunk
  <2>2. \E n \in 1..ChunkMax :
          ReadChunk(n) /\ buf' = [buf EXCEPT ![Lone] = @ \o SubSeq(rx, 1, n)]
    BY DEF Collect
  <2> QED BY <2>1, <2>2
<1> DEFINE f == SubSeq(rx, 1, n)
           r == SubSeq(rx, n + 1, Len(rx))
<1>2. /\ pc[Lone] = "read" /\ UNCHANGED <<id, tx, mode, out, dcall>>
      /\ buf'[Lone] = b \o f /\ rx' = r /\ debt = {}
  BY <1>1, LoneTypes DEF Collect, Return, modem, LoneInv, RefInv, TypeOK
<1>3. \/ pc'[Lone] = "idle" /\ ends
      \/ pc'[Lone] = "read"
  BY <1>2, LoneTypes DEF Collect, Return, LoneInv, RefInv, TypeOK
<1>4. Asked(b, i, FALSE) \/ PayloadSent(b, i) \/ Answering(b, i)
  BY <1>2 DEF LoneInv, SyncInv, Stands
<1>5. /\ b \in Seq(Piece) /\ f \in Seq(Piece)
      /\ Unmarked(rx) => Unmarked(f) /\ Unmarked(r)
      /\ OneMark(rx) => OneMark(f) /\ OneMark(r) /\ (Unmarked(f) \/ Unmarked(r))
      /\ NoPrompt(rx) => NoPrompt(f) /\ NoPrompt(r)
      /\ OwnMarks(i, rx) => OwnMarks(i, f) /\ OwnMarks(i, r)
  BY <1>1, LoneTypes, SplitMarks
<1> HIDE DEF f, r, b, i
<1>6. /\ Unmarked(b) /\ Unmarked(f) => Unmarked(b \o f)
      /\ Unmarked(b) /\ OneMark(f) => OneMark(b \o f)
      /\ OneMark(b) /\ Unmarked(f) => OneMark(b \o f)
      /\ NoPrompt(b) /\ NoPrompt(f) => NoPrompt(b \o f)
      /\ OwnMarks(i, b) /\ OwnMarks(i, f) => OwnMarks(i, b \o f)
  BY <1>5, ConcatMarks
<1>7. ends => ~Unmarked(buf'[Lone])
  BY DEF HasCommandTerminated, HasKind, Unmarked, Marks, Verdicts
<1>8. CASE Asked(b, i, FALSE) \/ PayloadSent(b, i)
  <2>1. Unmarked(b \o f) /\ Unmarked(r)
    BY <1>5, <1>6, <1>8 DEF Asked, PayloadSent
  <2>2. pc'[Lone] = "read" BY <1>2, <1>3, <1>7, <2>1
  <2>3. Asked(b, i, FALSE) => Asked(buf[Lone], id[Lone], FALSE)'
    BY <1>2, <2>1 DEF Asked, i
  <2>4. PayloadSent(b, i) => PayloadSent(buf[Lone], id[Lone])'
    BY <1>2, <2>1 DEF PayloadSent, i
  <2> QED BY <1>8, <2>2, <2>3, <2>4 DEF Stands
<1>9. CASE Answering(b, i)
  <2>1. /\ tx = <<>> /\ mode = "command" /\ NoPrompt(b \o f) /\ NoPrompt(r) /\ NoPrompt(out)
        /\ OwnMarks(i, b \o f) /\ OwnMarks(i, r) /\ OwnMarks(i, out)
        /\ OneMark(r) /\ OneMark(out)
    BY <1>5, <1>6, <1>9 DEF Answering
  <2>2. /\ OneMark(b \o f)
        /\ \/ Unmarked(r) /\ Unmarked(out)
           \/ Unmarked(b \o f) /\ Unmarked(out)
           \/ Unmarked(b \o f) /\ Unmarked(r)
    BY <1>5, <1>6, <1>9 DEF Answering
  <2>3. CASE pc'[Lone] = "idle"
    <3>1. Unmarked(r) /\ Unmarked(out) BY <1>2, <1>3, <1>7, <2>2, <2>3
    <3>2. InStep(buf[Lone], id[Lone])' BY <1>2, <2>1, <3>1 DEF InStep, i
    <3> QED BY <2>3, <3>2 DEF Stands
  <2>4. CASE pc'[Lone] = "read"
    <3>1. Answering(buf[Lone], id[Lone])' BY <1>2, <2>1, <2>2 DEF Answering, i
    <3> QED BY <2>4, <3>1 DEF Stands
  <2> QED BY <1>3, <2>3, <2>4
<1> QED BY <1>4, <1>8, <1>9

-------------------------------------------------------------------------------
\* The steps of the modem.
LEMMA SyncModemTakes ==
  ASSUME LoneInv, ModemTakes
  PROVE  SyncInv'
<1> SUFFICES ASSUME debt = {} PROVE Stands(pc[Lone], buf[Lone], id[Lone])'
  BY DEF SyncInv, ModemTakes
<1> DEFINE i == id[Lone]
           b == buf[Lone]
<1>1. /\ out = <<>> /\ tx # <<>> /\ tx' = Tail(tx)
      /\ UNCHANGED <<pc, id, buf, rx>>
  BY DEF ModemTakes, host
<1>2. /\ pc[Lone] # "idle" /\ pc[Lone] \in {"prompt", "read"}
      /\ pc[Lone] = "prompt" => Asked(<<>>, i, TRUE)
      /\ pc[Lone] = "read" => Asked(b, i, FALSE) \/ PayloadSent(b, i)
  BY <1>1, LoneTypes
     DEF LoneInv, SyncInv, Stands, InStep, Prompting, WantsPayload, Answering
<1>3. PICK w \in Written : tx = <<w>> /\ w.id = i
  BY <1>2 DEF Asked, PayloadSent
<1>4. Head(tx) = w /\ tx' = <<>> /\ w.cmd \in Cmds /\ i \in CallIds
  BY <1>1, <1>3, LoneTypes, <1>2 DEF Written
<1>5. CASE pc[Lone] = "prompt"
  <2>1. /\ w.part = "cmd" /\ w.cmd \in Prompted /\ mode = "command" /\ Unmarked(rx)
    BY <1>2, <1>3, <1>5 DEF Asked
  <2>2. /\ dcall' = [cmd |-> w.cmd, id |-> w.id] /\ mode' = mode
        /\ \E e \in EchoesOf(w.cmd, w.id),
              a \in Failures(w.cmd, w.id) \cup {<<P("prompt", w.cmd, w.id)>>} : out' = e \o a
    BY <1>4, <2>1 DEF ModemTakes
  <2>3. OneMark(out')
    BY <1>3, <1>4, <2>2, AnswerAfterEcho
  <2>4. NoPrompt(rx) BY <2>1, UnmarkedImplies
  <2>5. Prompting(id[Lone])'
    BY <1>1, <1>3, <1>4, <2>1, <2>2, <2>3, <2>4 DEF Prompting
  <2> QED BY <1>1, <1>5, <2>5 DEF Stands
<1>6. CASE pc[Lone] = "read" /\ Asked(b, i, FALSE)
  <2>1. /\ w.part = "cmd" /\ w.cmd \notin Prompted /\ mode = "command"
        /\ Unmarked(rx) /\ Unmarked(b)
    BY <1>3, <1>6 DEF Asked
  <2>2. /\ mode' = mode
        /\ \E e \in EchoesOf(w.cmd, w.id), a \in Answers(w.cmd, w.id) : out' = e \o a
    BY <1>4, <2>1 DEF ModemTakes
  <2>3. OneMark(out') /\ NoPrompt(out') /\ OwnMarks(i, out')
    BY <1>3, <1>4, <2>2, AnswerAfterEcho
  <2>4. /\ OneMark(rx) /\ NoPrompt(rx) /\ OwnMarks(i, rx)
        /\ OneMark(b) /\ NoPrompt(b) /\ OwnMarks(i, b)
    BY <2>1, UnmarkedImplies
  <2>5. Answering(buf[Lone], id[Lone])'
    BY <1>1, <1>4, <2>1, <2>2, <2>3, <2>4 DEF Answering
  <2> QED BY <1>1, <1>6, <2>5 DEF Stands
<1>7. CASE pc[Lone] = "read" /\ PayloadSent(b, i)
  <2>1. /\ w.part = "data" /\ mode = "data" /\ dcall.id = i
        /\ Unmarked(rx) /\ Unmarked(b)
    BY <1>3, <1>7 DEF PayloadSent
  <2>2. /\ mode' = "command" /\ dcall.cmd \in Cmds
        /\ \E a \in Answers(dcall.cmd, dcall.id) : out' = a
    BY <1>3, <1>4, <2>1 DEF ModemTakes, LoneInv, RefInv, TypeOK
  <2>3. OneMark(out') /\ NoPrompt(out') /\ OwnMarks(i, out')
    BY <1>4, <2>1, <2>2, AnswerMarks
  <2>4. /\ OneMark(rx) /\ NoPrompt(rx) /\ OwnMarks(i, rx)
        /\ OneMark(b) /\ NoPrompt(b) /\ OwnMarks(i, b)
    BY <2>1, UnmarkedImplies
  <2>5. Answering(buf[Lone], id[Lone])'
    BY <1>1, <1>4, <2>1, <2>2, <2>3, <2>4 DEF Answering
  <2> QED BY <1>1, <1>7, <2>5 DEF Stands
<1> QED BY <1>2, <1>5, <1>6, <1>7

LEMMA SyncModemSends ==
  ASSUME LoneInv, ModemSends
  PROVE  SyncInv'
<1> SUFFICES ASSUME debt = {} PROVE Stands(pc[Lone], buf[Lone], id[Lone])'
  BY DEF SyncInv, ModemSends
<1> DEFINE i == id[Lone]
           b == buf[Lone]
           h == Head(out)
<1>1. /\ out # <<>> /\ out' = Tail(out) /\ UNCHANGED <<pc, id, buf, tx, dcall>>
      /\ rx' = Append(rx, h) \/ rx' = rx
      /\ mode' = IF h.kind = "prompt" THEN "data" ELSE mode
  BY DEF ModemSends, Deliver, host
<1>2. /\ h \in Piece
      /\ Unmarked(out) => Unmarked(out') /\ h.kind \notin Marks
      /\ OneMark(out) => OneMark(out')
      /\ OneMark(out) /\ h.kind \in Marks => Unmarked(out')
      /\ NoPrompt(out) => NoPrompt(out') /\ h.kind # "prompt"
      /\ OwnMarks(i, out) => OwnMarks(i, out') /\ (h.kind \in Marks => h.id = i)
  BY <1>1, LoneTypes, TailMarks
<1> HIDE DEF h
<1>3. /\ Unmarked(rx) => OneMark(rx')
      /\ Unmarked(rx) /\ h.kind \notin Marks => Unmarked(rx')
      /\ OneMark(rx) /\ h.kind \notin Marks => OneMark(rx')
      /\ NoPrompt(rx) /\ h.kind # "prompt" => NoPrompt(rx')
      /\ OwnMarks(i, rx) /\ (h.kind \in Marks => h.id = i) => OwnMarks(i, rx')
  BY <1>1, <1>2, LoneTypes, AppendMarks, UnmarkedImplies
<1>4. h.kind \notin Marks => h.kind # "prompt"
  BY DEF Marks
<1>5. Stands(pc[Lone], b, i)
  BY DEF LoneInv, SyncInv
<1>6. InStep(b, i) => InStep(buf[Lone], id[Lone])'
  BY <1>1, <1>2, <1>3, <1>4 DEF InStep
<1>7. Unmarked(out) /\ Unmarked(rx) => Unmarked(out') /\ Unmarked(rx') /\ mode' = mode
  BY <1>1, <1>2, <1>3, <1>4
<1>8. Asked(<<>>, i, TRUE) => Asked(<<>>, id[Lone], TRUE)'
  BY <1>1, <1>7 DEF Asked
<1>9. Asked(b, i, FALSE) => Asked(buf[Lone], id[Lone], FALSE)'
  BY <1>1, <1>7 DEF Asked
<1>10. PayloadSent(b, i) => PayloadSent(buf[Lone], id[Lone])'
  BY <1>1, <1>7 DEF PayloadSent
<1>11. WantsPayload(i) => WantsPayload(id[Lone])'
  BY <1>1, <1>2, <1>3, <1>4 DEF WantsPayload
<1>12. Prompting(i) => Prompting(id[Lone])' \/ WantsPayload(id[Lone])'
  <2> SUFFICES ASSUME Prompting(i) PROVE Prompting(id[Lone])' \/ WantsPayload(id[Lone])'
    OBVIOUS
  <2>1. CASE h.kind = "prompt"
    <3>1. h.kind \in Marks BY <2>1 DEF Marks
    <3>2. Unmarked(rx) /\ Unmarked(out') /\ OneMark(rx')
      BY <1>2, <1>3, <3>1 DEF Prompting
    <3> QED BY <1>1, <2>1, <3>2 DEF Prompting, WantsPayload
  <2>2. CASE h.kind # "prompt"
    <3>1. /\ mode' = mode /\ NoPrompt(rx')
      BY <1>1, <1>3, <2>2 DEF Prompting
    <3>2. \/ Unmarked(rx') /\ OneMark(out')
          \/ OneMark(rx') /\ Unmarked(out')
      BY <1>2, <1>3 DEF Prompting
    <3> QED BY <1>1, <3>1, <3>2 DEF Prompting
  <2> QED BY <2>1, <2>2
<1>13. Answering(b, i) => Answering(buf[Lone], id[Lone])'
  <2> SUFFICES ASSUME Answering(b, i) PROVE Answering(buf[Lone], id[Lone])'
    OBVIOUS
  <2>1. /\ mode' = mode /\ NoPrompt(rx') /\ NoPrompt(out')
        /\ OwnMarks(i, rx') /\ OwnMarks(i, out')
    BY <1>1, <1>2, <1>3 DEF Answering
  <2>2. /\ OneMark(rx') /\ OneMark(out')
        /\ \/ Unmarked(rx') /\ Unmarked(out')
           \/ Unmarked(b) /\ Unmarked(out')
           \/ Unmarked(b) /\ Unmarked(rx')
    BY <1>2, <1>3 DEF Answering
  <2> QED BY <1>1, <2>1, <2>2 DEF Answering
<1> QED BY <1>1, <1>5, <1>6, <1>8, <1>9, <1>10, <1>11, <1>12, <1>13 DEF Stands

\* An unsolicited line carries no mark.
LEMMA SyncUrc ==
  ASSUME LoneInv, ModemSendsUrc
  PROVE  SyncInv'
<1> SUFFICES ASSUME debt = {} PROVE Stands(pc[Lone], buf[Lone], id[Lone])'
  BY DEF SyncInv, ModemSendsUrc
<1>1. PICK p \in Piece : Deliver(p) /\ p.kind \notin Marks
  <2>1. \A kind \in UrcKinds : LET p == P(kind, CHOOSE c \in Cmds : TRUE, NoCall)
                               IN  p \in Piece /\ p.kind \notin Marks
    BY HandlerAssumption DEF P, Piece, Kinds, Urcs, NoCall, Marks, Verdicts
  <2> QED BY <2>1 DEF ModemSendsUrc
<1>2. UNCHANGED <<pc, id, buf, tx, mode, out, dcall>>
  BY DEF ModemSendsUrc, host
<1>3. /\ Unmarked(rx) => Unmarked(rx')
      /\ OneMark(rx) => OneMark(rx')
      /\ NoPrompt(rx) => NoPrompt(rx')
      /\ OwnMarks(id[Lone], rx) => OwnMarks(id[Lone], rx')
  <2>1. p.kind # "prompt" BY <1>1 DEF Marks
  <2> QED BY <1>1, <2>1, LoneTypes, AppendMarks DEF Deliver
<1>4. Stands(pc[Lone], buf[Lone], id[Lone])
  BY DEF LoneInv, SyncInv
<1>5. InStep(buf[Lone], id[Lone]) => InStep(buf[Lone], id[Lone])'
  BY <1>2, <1>3 DEF InStep
<1>6. Asked(<<>>, id[Lone], TRUE) => Asked(<<>>, id[Lone], TRUE)'
  BY <1>2, <1>3 DEF Asked
<1>7. Asked(buf[Lone], id[Lone], FALSE) => Asked(buf[Lone], id[Lone], FALSE)'
  BY <1>2, <1>3 DEF Asked
<1>8. PayloadSent(buf[Lone], id[Lone]) => PayloadSent(buf[Lone], id[Lone])'
  BY <1>2, <1>3 DEF PayloadSent
<1>9. WantsPayload(id[Lone]) => WantsPayload(id[Lone])'
  BY <1>2, <1>3 DEF WantsPayload
<1>10. Prompting(id[Lone]) => Prompting(id[Lone])'
  BY <1>2, <1>3 DEF Prompting
<1>11. Answering(buf[Lone], id[Lone]) => Answering(buf[Lone], id[Lone])'
  BY <1>2, <1>3 DEF Answering
<1> QED BY <1>2, <1>4, <1>5, <1>6, <1>7, <1>8, <1>9, <1>10, <1>11 DEF Stands

LEMMA SyncStep ==
  ASSUME LoneInv, [Next]_vars
  PROVE  SyncInv'
<1>1. CASE UNCHANGED vars
  BY <1>1 DEF vars, LoneInv, SyncInv, Stands, InStep, Asked, Prompting, WantsPayload,
              PayloadSent, Answering
<1>2. CASE Modem
  BY <1>2, SyncModemTakes, SyncModemSends, SyncUrc DEF Modem
<1>3. CASE Progress(Lone)
  <2>1. CASE ReadNothing(Lone)
    BY <2>1 DEF ReadNothing, modem, LoneInv, SyncInv, Stands, InStep, Asked, Prompting,
                WantsPayload, PayloadSent, Answering
  <2>2. CASE Overflow(Lone)
    <3>1. pc[Lone] # "idle" /\ Return(Lone, id[Lone], "ESP_ERR_INVALID_SIZE", TRUE)
      BY <2>2 DEF Overflow
    <3> QED BY <3>1, GivesUp
  <2>3. CASE TimeOut(Lone)
    <3>1. pc[Lone] # "idle" /\ Return(Lone, id[Lone], "ESP_ERR_TIMEOUT", TRUE)
      BY <2>3 DEF TimeOut
    <3> QED BY <3>1, GivesUp
  <2> QED BY <1>3, <2>1, <2>2, <2>3, SyncDrop, SyncPayload, SyncCollect DEF Progress
<1>4. CASE RejectCall(Lone) BY <1>4, SyncReject
<1>5. CASE \E c \in Cmds : SendCommand(Lone, c) BY <1>5, SyncSend
<1> QED BY <1>1, <1>2, <1>3, <1>4, <1>5 DEF Next, LoneInv

LEMMA LoneInvInit == ASSUME Tasks = {Lone}, Init PROVE LoneInv
<1>1. TypeOK /\ CallHasId
  BY HandlerAssumption, EmptySeq DEF Init, TypeOK, CallHasId, Results, CallIds, NoCall
<1>2. CallInv
  BY DEF Init, CallInv, NoCall
<1>3. SyncInv
  BY EmptyMarks DEF Init, SyncInv, Stands, InStep
<1> QED BY <1>1, <1>2, <1>3 DEF LoneInv, RefInv

LEMMA LoneInvStep == ASSUME LoneInv, [Next]_vars PROVE LoneInv'
<1>1. CASE UNCHANGED vars
  BY <1>1, CallInvStep, SyncStep DEF LoneInv, RefInv, vars, TypeOK, CallHasId
<1> QED BY <1>1, TypeOKStep, CallHasIdStep, CallInvStep, SyncStep DEF LoneInv, RefInv

\* As long as a task that has the handler to itself has not given up on a call,
\* it finds the modem in step when it makes the next one: nothing it wrote is
\* still to be taken up, no verdict is still to come, and the modem is not
\* waiting for a payload; for any commands, chunk and buffer sizes, echo,
\* unsolicited lines and losses.
THEOREM LoneStaysInStep == ASSUME Tasks = {Lone} PROVE Spec => []SyncUnlessAbandoned
<1>1. Init => LoneInv BY LoneInvInit
<1>2. LoneInv /\ [Next]_vars => LoneInv' BY LoneInvStep
<1>3. LoneInv => SyncUnlessAbandoned
  <2> SUFFICES ASSUME LoneInv, debt = {}, \A t \in Tasks : pc[t] = "idle"
               PROVE  InStep(buf[Lone], id[Lone])
    BY DEF SyncUnlessAbandoned, InStep, Unmarked, Marks
  <2> QED BY LoneTypes DEF LoneInv, SyncInv, Stands
<1> QED BY <1>1, <1>2, <1>3, PTL DEF Spec

-------------------------------------------------------------------------------
\* Where no command has OK in its name and no unsolicited line has it, the
\* letters OK come from an OK only.
Lettered == {"okecho", "urcok"}
Honest   == {p \in Piece : p.kind \notin Lettered}

ReplyInv ==
  /\ buf[Lone] \in Seq(Honest) /\ rx \in Seq(Honest) /\ out \in Seq(Honest)
  /\ debt = {} /\ pc[Lone] = "idle" /\ result[Lone] = "ESP_OK" =>
       \E k \in DOMAIN buf[Lone] : buf[Lone][k].kind = "ok" /\ buf[Lone][k].id = id[Lone]

NoLetters == Echo \cap Lettered = {} /\ UrcKinds \cap Lettered = {}

LEMMA AnswersHonest ==
  ASSUME NoLetters, NEW c \in Cmds, NEW i \in CallIds \cup {NoCall}
  PROVE  /\ \A a \in Answers(c, i) \cup Failures(c, i) : a \in Seq(Honest)
         /\ \A e \in EchoesOf(c, i) : e \in Seq(Honest)
         /\ <<P("prompt", c, i)>> \in Seq(Honest)
         /\ \A e \in EchoesOf(c, i),
               a \in Answers(c, i) \cup Failures(c, i) \cup {<<P("prompt", c, i)>>} :
              e \o a \in Seq(Honest)
<1>1. \A kind \in Kinds \ Lettered : P(kind, c, i) \in Honest
  BY DEF P, Piece, Honest, NoCall
<1>2. {"ok", "error", "cme", "cmetail", "head", "tail", "prompt"} \subseteq Kinds \ Lettered
  BY DEF Kinds, Lettered
<1> DEFINE data == <<P("head", c, i), P("tail", c, i)>>
           ok == <<P("ok", c, i)>>
<1>3. data \in Seq(Honest) /\ ok \in Seq(Honest) BY <1>1, <1>2
<1>4. \A a \in Failures(c, i) : a \in Seq(Honest)
  <2>1. /\ <<P("error", c, i)>> \in Seq(Honest) /\ <<>> \in Seq(Honest)
        /\ <<P("cme", c, i), P("cmetail", c, i)>> \in Seq(Honest)
    BY <1>1, <1>2
  <2> QED BY <2>1 DEF Failures
<1>5. data \o ok \in Seq(Honest) /\ ok \o data \in Seq(Honest)
  BY <1>3, ConcatProperties
<1>6. Answers(c, i) \subseteq Failures(c, i) \cup {ok, data \o ok, ok \o data}
  BY DEF Answers
<1>7. <<P("prompt", c, i)>> \in Seq(Honest) BY <1>1, <1>2
<1> HIDE DEF data, ok
<1>8. \A a \in Answers(c, i) \cup Failures(c, i) : a \in Seq(Honest)
  BY <1>3, <1>4, <1>5, <1>6
<1>9. \A e \in EchoesOf(c, i) : e \in Seq(Honest)
  <2>1. \A kind \in Echo : kind \in Kinds \ Lettered
    BY HandlerAssumption DEF NoLetters, Kinds
  <2>2. \A e \in EchoesOf(c, i) : e = <<>> \/ \E kind \in Echo : e = <<P(kind, c, i)>>
    BY DEF EchoesOf
  <2>3. \A kind \in Echo : <<P(kind, c, i)>> \in Seq(Honest)
    BY <1>1, <2>1
  <2> QED BY <2>2, <2>3, EmptySeq
<1>10. \A e \in EchoesOf(c, i),
          a \in Answers(c, i) \cup Failures(c, i) \cup {<<P("prompt", c, i)>>} :
         e \o a \in Seq(Honest)
  BY <1>7, <1>8, <1>9, ConcatProperties
<1> QED BY <1>7, <1>8, <1>9, <1>10

LEMMA ReplyModem ==
  ASSUME NoLetters, LoneInv, ReplyInv, Modem
  PROVE  ReplyInv'
<1>1. UNCHANGED <<pc, id, buf, result, debt>>
  BY DEF Modem, ModemTakes, ModemSends, ModemSendsUrc, host
<1>2. rx' \in Seq(Honest) /\ out' \in Seq(Honest)
  <2>1. CASE ModemTakes
    <3>1. rx' = rx BY <2>1 DEF ModemTakes
    <3>2. /\ Head(tx).cmd \in Cmds /\ Head(tx).id \in CallIds
          /\ dcall.cmd \in Cmds /\ dcall.id \in CallIds \cup {NoCall}
      <4>1. Head(tx) \in Written
        BY <2>1, LoneTypes, HeadTailProperties DEF ModemTakes
      <4> QED BY <4>1 DEF Written, LoneInv, RefInv, TypeOK
    <3>3. \/ out' = out
          \/ \E c \in Cmds, i \in CallIds \cup {NoCall} :
               \/ out' \in Answers(c, i) \cup Failures(c, i)
               \/ \E e \in EchoesOf(c, i),
                     a \in Answers(c, i) \cup Failures(c, i) \cup {<<P("prompt", c, i)>>} :
                    out' = e \o a
      <4> DEFINE w == Head(tx)
      <4>1. CASE mode = "command" /\ w.part = "cmd"
        <5>1. \E e \in EchoesOf(w.cmd, w.id),
                 a \in Answers(w.cmd, w.id) \cup Failures(w.cmd, w.id)
                         \cup {<<P("prompt", w.cmd, w.id)>>} : out' = e \o a
          BY <2>1, <4>1 DEF ModemTakes
        <5> QED BY <3>2, <5>1
      <4>2. CASE mode = "command" /\ w.part = "data"
        <5>1. out' \in Failures(w.cmd, w.id) BY <2>1, <4>2 DEF ModemTakes
        <5> QED BY <3>2, <5>1
      <4>3. CASE mode = "data"
        <5>1. out' = out \/ out' \in Answers(dcall.cmd, dcall.id) BY <2>1, <4>3 DEF ModemTakes
        <5> QED BY <3>2, <5>1
      <4> QED BY <2>1, <4>1, <4>2, <4>3 DEF ModemTakes
    <3>4. CASE out' = out BY <3>1, <3>4 DEF ReplyInv
    <3>5. CASE out' # out
      <4>1. PICK c \in Cmds, i \in CallIds \cup {NoCall} :
              \/ out' \in Answers(c, i) \cup Failures(c, i)
              \/ \E e \in EchoesOf(c, i),
                    a \in Answers(c, i) \cup Failures(c, i) \cup {<<P("prompt", c, i)>>} :
                   out' = e \o a
        BY <3>3, <3>5
      <4>2. /\ \A a \in Answers(c, i) \cup Failures(c, i) : a \in Seq(Honest)
            /\ \A e \in EchoesOf(c, i),
                  a \in Answers(c, i) \cup Failures(c, i) \cup {<<P("prompt", c, i)>>} :
                 e \o a \in Seq(Honest)
        BY AnswersHonest
      <4>3. out' \in Seq(Honest)
        <5>1. CASE out' \in Answers(c, i) \cup Failures(c, i) BY <4>2, <5>1, Zenon
        <5>2. CASE out' \notin Answers(c, i) \cup Failures(c, i)
          <6>1. PICK e \in EchoesOf(c, i),
                     a \in Answers(c, i) \cup Failures(c, i) \cup {<<P("prompt", c, i)>>} :
                  out' = e \o a
            BY <4>1, <5>2, Zenon
          <6> QED BY <4>2, <6>1, Zenon
        <5> QED BY <5>1, <5>2
      <4> QED BY <3>1, <4>3 DEF ReplyInv
    <3> QED BY <3>4, <3>5
  <2>2. CASE ModemSends
    <3>1. Head(out) \in Honest /\ Tail(out) \in Seq(Honest)
      BY <2>2, HeadTailProperties DEF ModemSends, ReplyInv
    <3> QED BY <2>2, <3>1, AppendProperties DEF ModemSends, Deliver, ReplyInv
  <2>3. CASE ModemSendsUrc
    <3>1. \A kind \in UrcKinds : P(kind, CHOOSE c \in Cmds : TRUE, NoCall) \in Honest
      BY HandlerAssumption DEF P, Piece, Honest, Kinds, Urcs, NoCall, NoLetters
    <3> QED BY <2>3, <3>1, AppendProperties DEF ModemSendsUrc, Deliver, ReplyInv
  <2> QED BY <2>1, <2>2, <2>3 DEF Modem
<1> QED BY <1>1, <1>2 DEF ReplyInv

LEMMA ReplyCollect ==
  ASSUME LoneInv, ReplyInv, Collect(Lone)
  PROVE  ReplyInv'
<1> DEFINE c == cmd[Lone]
           v == Verdict(buf'[Lone], c, RType[c], Parser[c])
<1>1. PICK n \in Nat :
        /\ n <= Len(rx) /\ rx' = SubSeq(rx, n + 1, Len(rx))
        /\ buf' = [buf EXCEPT ![Lone] = @ \o SubSeq(rx, 1, n)]
  <2>1. \A n \in 1..ChunkMax : ReadChunk(n) =>
          n \in Nat /\ n <= Len(rx) /\ rx' = SubSeq(rx, n + 1, Len(rx))
    BY HandlerAssumption DEF ReadChunk
  <2>2. \E n \in 1..ChunkMax :
          ReadChunk(n) /\ buf' = [buf EXCEPT ![Lone] = @ \o SubSeq(rx, 1, n)]
    BY DEF Collect
  <2> QED BY <2>1, <2>2
<1>2. /\ pc[Lone] = "read" /\ out' = out /\ id' = id
      /\ buf'[Lone] = buf[Lone] \o SubSeq(rx, 1, n)
      /\ (pc'[Lone] = "idle" /\ result'[Lone] = v) \/ pc'[Lone] = "read"
  <2> HIDE DEF v
  <2>1. (pc' = [pc EXCEPT ![Lone] = "idle"] /\ result' = [result EXCEPT ![Lone] = v]) \/ pc' = pc
    BY DEF Collect, Return, v
  <2> QED BY <1>1, <2>1, LoneTypes DEF Collect, modem, LoneInv, RefInv, TypeOK
<1>3. rx' \in Seq(Honest) /\ buf'[Lone] \in Seq(Honest) /\ out' \in Seq(Honest)
  <2>1. SubSeq(rx, 1, n) \in Seq(Honest) /\ rx' \in Seq(Honest)
    BY <1>1, SeqSteps DEF ReplyInv
  <2> QED BY <1>2, <2>1, ConcatProperties DEF ReplyInv
<1>4. ASSUME debt' = {}, pc'[Lone] = "idle", result'[Lone] = "ESP_OK"
      PROVE  \E k \in DOMAIN buf'[Lone] : buf'[Lone][k].kind = "ok" /\ buf'[Lone][k].id = id'[Lone]
  <2>1. v = "ESP_OK" BY <1>2, <1>4
  <2>2. PICK k \in DOMAIN buf'[Lone] : buf'[Lone][k].kind \in WithOk
    BY <2>1 DEF Verdict, BasicResponseIsOk
  <2>3. buf'[Lone][k] \in Honest
    BY <1>3, LenProperties, ElementOfSeq
  <2>4. buf'[Lone][k].kind = "ok"
    BY <2>2, <2>3 DEF Honest, WithOk, Lettered
  <2>5. OwnMarks(id[Lone], buf[Lone])'
    BY <1>4, SyncCollect DEF SyncInv, Stands, InStep
  <2>6. "ok" \in Marks BY DEF Marks, Verdicts
  <2> QED BY <2>4, <2>5, <2>6 DEF OwnMarks
<1> QED BY <1>3, <1>4 DEF ReplyInv

LEMMA ReplyStep ==
  ASSUME NoLetters, LoneInv, ReplyInv, [Next]_vars
  PROVE  ReplyInv'
<1>1. CASE UNCHANGED vars BY <1>1 DEF vars, ReplyInv
<1>2. CASE RejectCall(Lone)
  <2>1. /\ buf'[Lone] = <<>> /\ rx' = rx /\ out' = out /\ result'[Lone] # "ESP_OK"
    BY <1>2, HandlerAssumption, LoneTypes
       DEF RejectCall, modem, LoneInv, RefInv, TypeOK, Errors
  <2> QED BY <2>1, EmptySeq DEF ReplyInv
<1>3. ASSUME NEW c \in Cmds, SendCommand(Lone, c) PROVE ReplyInv'
  <2>1. /\ buf'[Lone] = <<>> /\ out' = out
        /\ rx' = rx \/ rx' = <<>>
        /\ result'[Lone] # "ESP_OK"
    BY <1>3, LoneTypes
       DEF SendCommand, HwWrite, Return, Goto, modem, LoneInv, RefInv, TypeOK, HwWriteOutcomes
  <2> QED BY <2>1, EmptySeq DEF ReplyInv
<1>4. CASE DropBeforePrompt(Lone) \/ ReadNothing(Lone) \/ Overflow(Lone) \/ TimeOut(Lone)
  <2>1. /\ UNCHANGED <<buf, out>>
        /\ rx' = rx \/ \E n \in Nat : n <= Len(rx) /\ rx' = SubSeq(rx, n + 1, Len(rx))
        /\ pc'[Lone] # "idle" \/ result'[Lone] # "ESP_OK"
    <3>1. \A n \in 1..ChunkMax : ReadChunk(n) =>
            n \in Nat /\ n <= Len(rx) /\ rx' = SubSeq(rx, n + 1, Len(rx))
      BY HandlerAssumption DEF ReadChunk
    <3>2. CASE DropBeforePrompt(Lone) BY <3>1, <3>2 DEF DropBeforePrompt, modem
    <3>3. CASE ReadNothing(Lone) BY <3>3 DEF ReadNothing, modem
    <3>4. CASE Overflow(Lone)
      BY <3>1, <3>4, LoneTypes DEF Overflow, Return, modem, LoneInv, RefInv, TypeOK
    <3>5. CASE TimeOut(Lone)
      BY <3>5, LoneTypes DEF TimeOut, Return, modem, LoneInv, RefInv, TypeOK
    <3> QED BY <1>4, <3>2, <3>3, <3>4, <3>5
  <2>2. rx' \in Seq(Honest) BY <2>1, SeqSteps DEF ReplyInv
  <2> QED BY <2>1, <2>2 DEF ReplyInv
<1>5. CASE SendPayload(Lone)
  <2>1. PICK n \in 1..ChunkMax, w \in HwWriteOutcomes :
          /\ n <= Len(rx)
          /\ rx' = IF w.flushed THEN <<>> ELSE SubSeq(rx, n + 1, Len(rx))
          /\ \/ w.err # "ESP_OK" /\ Return(Lone, id[Lone], w.err, TRUE)
             \/ Return(Lone, id[Lone], "ESP_ERR_NO_MEM", TRUE)
             \/ pc' = [pc EXCEPT ![Lone] = "read"]
    BY <1>5 DEF SendPayload
  <2>2. pc'[Lone] # "idle" \/ result'[Lone] # "ESP_OK"
    BY <2>1, LoneTypes DEF Return, LoneInv, RefInv, TypeOK
  <2>3. rx' \in Seq(Honest)
    <3>1. n \in Nat BY <2>1, HandlerAssumption
    <3>2. SubSeq(rx, n + 1, Len(rx)) \in Seq(Honest) BY <2>1, <3>1, SeqSteps DEF ReplyInv
    <3> QED BY <2>1, <3>2, EmptySeq
  <2> QED BY <1>5, <2>2, <2>3 DEF SendPayload, modem, ReplyInv
<1> QED BY <1>1, <1>2, <1>3, <1>4, <1>5, ReplyModem, ReplyCollect DEF Next, Progress, LoneInv

\* As long as a task that has the handler to itself has not given up on a call,
\* each of its successes rests on the modem's OK to that very command, where no
\* command's name and no unsolicited line holds the letters OK.
THEOREM LoneOwnReply ==
  ASSUME Tasks = {Lone}, NoLetters PROVE Spec => []UnabandonedOwnReply
<1>1. Init => LoneInv /\ ReplyInv
  BY LoneInvInit, EmptySeq DEF Init, ReplyInv, LoneInv
<1>2. LoneInv /\ ReplyInv /\ [Next]_vars => LoneInv' /\ ReplyInv'
  BY LoneInvStep, ReplyStep
<1>3. LoneInv /\ ReplyInv => UnabandonedOwnReply
  BY DEF LoneInv, ReplyInv, UnabandonedOwnReply, Finished, OwnPiece
<1> QED BY <1>1, <1>2, <1>3, PTL DEF Spec

-------------------------------------------------------------------------------
(* The verdict on a quiet line, for any tasks.                                 *)

\* No command whose parser fails without its line has a response it is optional in.
NoneTooStrict == \A c \in Cmds : Parser[c] = "strict" => RType[c] # "DATA_OPTIONAL"

Failed   == {"error", "cme"}
Answered == {"ok", "error", "cme"}

\* What the modem never sends: pieces with the letters OK that are no OK, and whole
\* lines, which it sends in two parts.
Unsent == Lettered \cup {"line"}

Free(s, K)    == \A k \in DOMAIN s : s[k].kind \notin K
Nowhere(t, K) == Free(buf[t], K) /\ Free(rx, K) /\ Free(out, K)

\* What the call of task t has written that the modem has not taken up.
CommandWaits(t) == \E w \in Written : tx = <<w>> /\ w.part = "cmd" /\ w.cmd = cmd[t]
BothWait(t) ==
  \E w, d \in Written : tx = <<w, d>> /\ w.part = "cmd" /\ w.cmd = cmd[t] /\ d.part = "data"
PayloadWaits == \E d \in Written : tx = <<d>> /\ d.part = "data"
AtMostPayload(t) == tx = <<>> \/ (PayloadWaits /\ pc[t] = "read")

\* How far the modem is with the call: it has not taken up the command; it prompts or
\* waits for the payload; it has answered OK; or with a failure, or with nothing.
Untaken(t) ==
  /\ mode = "command" /\ Nowhere(t, Answered \cup {"prompt"})
  /\ CommandWaits(t) \/ (BothWait(t) /\ pc[t] = "read" /\ cmd[t] \in Prompted)
Open(t) == AtMostPayload(t) /\ Nowhere(t, Answered)
Granted(t) ==
  /\ mode = "command" /\ tx = <<>> /\ pc[t] = "read"
  /\ Nowhere(t, Failed) /\ Free(out, {"prompt"})
Denied(t) ==
  mode = "command" /\ AtMostPayload(t) /\ Nowhere(t, {"ok"}) /\ Free(out, {"prompt"})

Running(t) ==
  /\ pc[t] = "prompt" => cmd[t] \in Prompted
  /\ Untaken(t) \/ Open(t) \/ Granted(t) \/ Denied(t)

\* The answer collected in b grants command c of call i.
Own(b, i, kind) == \E k \in DOMAIN b : b[k].kind = kind /\ b[k].id = i
Grants(b, c, i) ==
  /\ Own(b, i, "ok") /\ ~Own(b, i, "error") /\ ~Own(b, i, "cme")
  /\ RType[c] = "DATA_REQUIRED" => Own(b, i, "head") /\ HasOwnLine(b, c)

Exact(t) == result[t] = "ESP_OK" <=> Grants(buf[t], cmd[t], id[t])

ExactOf(t) == /\ pc[t] = "idle" => Exact(t)
              /\ pc[t] # "idle" => Running(t)

ExactInv ==
  /\ Free(rx, Unsent) /\ Free(out, Unsent) /\ \A t \in Tasks : Free(buf[t], Unsent)
  /\ \A t \in Tasks : quiet[t] => ExactOf(t)

\* What the operations on a sequence do to the kinds that are not in it.
LEMMA FreeIsSeq ==
  ASSUME NEW K, NEW s \in Seq(Piece)
  PROVE  Free(s, K) <=> s \in Seq({p \in Piece : p.kind \notin K})
<1> DEFINE S == {p \in Piece : p.kind \notin K}
<1>1. ASSUME Free(s, K) PROVE s \in Seq(S)
  <2>1. s \in [1..Len(s) -> Piece] /\ DOMAIN s = 1..Len(s) /\ Len(s) \in Nat
    BY LenProperties
  <2>2. s \in [1..Len(s) -> S]
    BY <1>1, <2>1 DEF Free
  <2> QED BY <2>1, <2>2, SeqDef
<1>2. ASSUME s \in Seq(S) PROVE Free(s, K)
  <2>1. s \in [1..Len(s) -> S] /\ DOMAIN s = 1..Len(s)
    BY <1>2, LenProperties
  <2> QED BY <2>1 DEF Free
<1> QED BY <1>1, <1>2

LEMMA FreeEmpty == \A K : Free(<<>>, K)
BY DEF Free

LEMMA FreeSteps ==
  ASSUME NEW K, NEW s \in Seq(Piece), Free(s, K)
  PROVE  /\ \A p \in Piece : p.kind \notin K => Free(Append(s, p), K)
         /\ \A r \in Seq(Piece) : Free(r, K) => Free(s \o r, K)
         /\ \A n \in Nat : n <= Len(s) =>
              Free(SubSeq(s, n + 1, Len(s)), K) /\ Free(SubSeq(s, 1, n), K)
         /\ s # <<>> => Head(s).kind \notin K /\ Free(Tail(s), K)
<1> DEFINE S == {p \in Piece : p.kind \notin K}
<1>1. s \in Seq(S)
  BY FreeIsSeq
<1>2. \A r \in Seq(Piece) : r \in Seq(S) => Free(r, K)
  BY FreeIsSeq
<1>3. S \subseteq Piece
  OBVIOUS
<1>4. ASSUME NEW p \in Piece, p.kind \notin K PROVE Free(Append(s, p), K)
  <2>1. Append(s, p) \in Seq(S) /\ Append(s, p) \in Seq(Piece)
    BY <1>1, <1>4, SeqSteps
  <2> QED BY <1>2, <2>1
<1>5. ASSUME NEW r \in Seq(Piece), Free(r, K) PROVE Free(s \o r, K)
  <2>1. r \in Seq(S)
    BY <1>5, FreeIsSeq
  <2>2. s \o r \in Seq(S) /\ s \o r \in Seq(Piece)
    BY <1>1, <2>1, SeqSteps
  <2> QED BY <1>2, <2>2
<1>6. ASSUME NEW n \in Nat, n <= Len(s)
      PROVE  Free(SubSeq(s, n + 1, Len(s)), K) /\ Free(SubSeq(s, 1, n), K)
  <2>1. /\ SubSeq(s, n + 1, Len(s)) \in Seq(S) /\ SubSeq(s, n + 1, Len(s)) \in Seq(Piece)
        /\ SubSeq(s, 1, n) \in Seq(S) /\ SubSeq(s, 1, n) \in Seq(Piece)
    BY <1>1, <1>6, SeqSteps
  <2> QED BY <1>2, <2>1
<1>7. ASSUME s # <<>> PROVE Head(s).kind \notin K /\ Free(Tail(s), K)
  <2>1. Head(s) \in S /\ Tail(s) \in Seq(S) /\ Tail(s) \in Seq(Piece)
    BY <1>1, <1>7, SeqSteps
  <2> QED BY <1>2, <2>1
<1> QED BY <1>4, <1>5, <1>6, <1>7

\* What the modem's answers are free of.
LEMMA FreeAnswers ==
  ASSUME NoLetters, NEW c \in Cmds, NEW i \in CallIds \cup {NoCall}
  PROVE  /\ \A a \in Failures(c, i) :
              a \in Seq(Piece) /\ Free(a, {"ok"}) /\ Free(a, {"prompt"}) /\ Free(a, Unsent)
         /\ \A a \in Answers(c, i) :
              /\ a \in Seq(Piece) /\ Free(a, {"prompt"}) /\ Free(a, Unsent)
              /\ Free(a, {"ok"}) \/ Free(a, Failed)
         /\ \A e \in EchoesOf(c, i) :
              /\ e \in Seq(Piece)
              /\ \A K \in {{"ok"}, {"prompt"}, Failed, Answered, Unsent} : Free(e, K)
         /\ <<P("prompt", c, i)>> \in Seq(Piece)
         /\ Free(<<P("prompt", c, i)>>, Answered) /\ Free(<<P("prompt", c, i)>>, Unsent)
<1>1. \A kind \in Kinds : P(kind, c, i) \in Piece /\ P(kind, c, i).kind = kind
  BY DEF P, Piece, NoCall
<1>2. {"ok", "error", "cme", "cmetail", "head", "tail", "prompt"} \subseteq Kinds
  BY DEF Kinds
<1>3. \A x, K : Free(<<x>>, K) <=> x.kind \notin K
  BY DEF Free
<1>4. \A x, y, K : x.kind \notin K /\ y.kind \notin K => Free(<<x, y>>, K)
  <2> TAKE x, y, K
  <2>1. DOMAIN <<x, y>> = 1..2 /\ <<x, y>>[1] = x /\ <<x, y>>[2] = y
    OBVIOUS
  <2>2. \A k \in 1..2 : k = 1 \/ k = 2
    OBVIOUS
  <2> QED BY <2>1, <2>2, Zenon DEF Free
<1> DEFINE data == <<P("head", c, i), P("tail", c, i)>>
           ok   == <<P("ok", c, i)>>
<1>5. /\ data \in Seq(Piece) /\ ok \in Seq(Piece)
      /\ \A K \in {{"prompt"}, Failed, Unsent} : Free(data, K) /\ Free(ok, K)
  BY <1>1, <1>2, <1>3, <1>4 DEF Failed, Unsent, Lettered
<1>6. ASSUME NEW a \in Failures(c, i)
      PROVE  a \in Seq(Piece) /\ Free(a, {"ok"}) /\ Free(a, {"prompt"}) /\ Free(a, Unsent)
  <2>1. CASE a = <<>>
    BY <2>1, FreeEmpty
  <2>2. CASE a = <<P("error", c, i)>>
    BY <1>1, <1>2, <1>3, <2>2 DEF Unsent, Lettered
  <2>3. CASE a = <<P("cme", c, i), P("cmetail", c, i)>>
    BY <1>1, <1>2, <1>4, <2>3 DEF Unsent, Lettered
  <2> QED BY <1>6, <2>1, <2>2, <2>3 DEF Failures
<1>7. ASSUME NEW a \in Answers(c, i)
      PROVE  /\ a \in Seq(Piece) /\ Free(a, {"prompt"}) /\ Free(a, Unsent)
             /\ Free(a, {"ok"}) \/ Free(a, Failed)
  <2>1. a \in Failures(c, i) \/ a = ok \/ a = data \o ok \/ a = ok \o data
    BY DEF Answers
  <2> HIDE DEF data, ok
  <2>2. /\ data \o ok \in Seq(Piece) /\ ok \o data \in Seq(Piece)
        /\ \A K \in {{"prompt"}, Failed, Unsent} : Free(data \o ok, K) /\ Free(ok \o data, K)
    BY <1>5, FreeSteps, ConcatProperties
  <2> QED BY <1>5, <1>6, <2>1, <2>2
<1>8. ASSUME NEW e \in EchoesOf(c, i)
      PROVE  /\ e \in Seq(Piece)
             /\ \A K \in {{"ok"}, {"prompt"}, Failed, Answered, Unsent} : Free(e, K)
  <2>1. e = <<>> \/ \E kind \in Echo : e = <<P(kind, c, i)>>
    BY DEF EchoesOf
  <2>2. Echo \subseteq {"echo"}
    BY HandlerAssumption DEF NoLetters, Lettered, Echoes
  <2>3. "echo" \in Kinds
    BY DEF Kinds, Echoes
  <2>4. CASE e = <<>>
    BY <2>4, FreeEmpty
  <2>5. CASE e = <<P("echo", c, i)>>
    BY <1>1, <1>3, <2>3, <2>5 DEF Failed, Answered, Unsent, Lettered
  <2> QED BY <2>1, <2>2, <2>4, <2>5
<1>9. /\ <<P("prompt", c, i)>> \in Seq(Piece)
      /\ Free(<<P("prompt", c, i)>>, Answered) /\ Free(<<P("prompt", c, i)>>, Unsent)
  BY <1>1, <1>2, <1>3 DEF Answered, Unsent, Lettered
<1> QED BY <1>6, <1>7, <1>8, <1>9

\* What a call makes of an answer that is complete: it succeeds if and only if
\* it is granted.
LEMMA CompleteVerdict ==
  ASSUME NoneTooStrict, NEW c \in Cmds, NEW i, NEW b,
         Free(b, Unsent), OnlyOf(i, b), Free(b, {"ok"}) \/ Free(b, Failed),
         HasCommandTerminated(b, c, RType[c])
  PROVE  Verdict(b, c, RType[c], Parser[c]) = "ESP_OK" <=> Grants(b, c, i)
<1>1. \A k \in DOMAIN b : b[k].kind \in Answered \cup {"head"} => b[k].id = i
  BY DEF OnlyOf, Harmless, Urcs, Answered
<1>2. BasicResponseIsOk(b) <=> HasKind(b, "ok")
  BY DEF BasicResponseIsOk, HasKind, WithOk, Free, Unsent, Lettered
<1>3. HasOwnLine(b, c) => Own(b, i, "head") /\ HasDataResponse(b)
  BY <1>1 DEF HasOwnLine, Own, HasDataResponse, Free, Unsent
<1>4. CASE ~HasKind(b, "ok")
  <2>1. ~Grants(b, c, i)
    BY <1>4 DEF Grants, Own, HasKind
  <2>2. Verdict(b, c, RType[c], Parser[c]) = "ESP_FAIL"
    BY <1>2, <1>4 DEF Verdict
  <2> QED BY <2>1, <2>2
<1>5. CASE HasKind(b, "ok")
  <2>1. Free(b, Failed)
    BY <1>5 DEF HasKind, Free
  <2>2. ~HasKind(b, "error") /\ ~HasKind(b, "cme")
    BY <2>1 DEF HasKind, Free, Failed
  <2>3. RType[c] = "DATA_REQUIRED" => HasOwnLine(b, c)
    BY <2>2 DEF HasCommandTerminated
  <2>4. Own(b, i, "ok") /\ ~Own(b, i, "error") /\ ~Own(b, i, "cme")
    BY <1>1, <1>5, <2>2 DEF HasKind, Own, Answered
  <2>5. Grants(b, c, i)
    BY <1>3, <2>3, <2>4 DEF Grants
  <2>6. SpecificResponse(b, c, RType[c], Parser[c]) = "ESP_OK"
    <3>1. RType[c] \in ResponseTypes
      BY HandlerAssumption
    <3>2. CASE RType[c] = "SIMPLE_ONLY"
      BY <3>2 DEF SpecificResponse
    <3>3. CASE RType[c] = "DATA_REQUIRED"
      BY <1>3, <2>3, <3>3 DEF SpecificResponse, ParserResult
    <3>4. CASE RType[c] = "DATA_OPTIONAL"
      BY <3>4 DEF SpecificResponse, ParserResult, NoneTooStrict
    <3> QED BY <3>1, <3>2, <3>3, <3>4 DEF ResponseTypes
  <2> QED BY <1>2, <1>5, <2>5, <2>6 DEF Verdict
<1> QED BY <1>4, <1>5

LEMMA IncompleteVerdict ==
  ASSUME NEW b, NEW c, NEW i, ~HasCommandTerminated(b, c, RType[c])
  PROVE  ~Grants(b, c, i)
BY DEF HasCommandTerminated, HasKind, Grants, Own

-------------------------------------------------------------------------------
\* A step of the task t that is in a call, given what it makes of t's own part.
LEMMA ExactOfOne ==
  ASSUME QuietInv, ExactInv, NEW t \in Tasks, pc[t] # "idle", quiet' = quiet,
         \A u \in Tasks \ {t} :
           /\ pc'[u] = pc[u] /\ buf'[u] = buf[u] /\ result'[u] = result[u]
           /\ cmd'[u] = cmd[u] /\ id'[u] = id[u],
         Free(rx, Unsent)', Free(out, Unsent)', Free(buf[t], Unsent)',
         quiet[t] => ExactOf(t)'
  PROVE  ExactInv'
<1>1. ASSUME NEW u \in Tasks \ {t}, quiet[u] PROVE ExactOf(u)'
  <2>1. pc[u] = "idle"
    BY <1>1 DEF QuietInv, LineIsOwn
  <2>2. Exact(u)
    BY <1>1, <2>1 DEF ExactInv, ExactOf
  <2>3. Exact(u)'
    BY <2>2 DEF Exact
  <2> QED BY <2>1, <2>3 DEF ExactOf
<1>2. \A u \in Tasks : Free(buf[u], Unsent)'
  BY DEF ExactInv
<1> QED BY <1>1, <1>2 DEF ExactInv

\* A step of the modem keeps ExactInv if it keeps every running call's part of it.
LEMMA ExactOfModem ==
  ASSUME QuietInv, ExactInv, UNCHANGED <<host, quiet>>,
         Free(rx, Unsent)', Free(out, Unsent)',
         \A t \in Tasks : pc[t] # "idle" /\ LineIsOwn(t) /\ Running(t) => Running(t)'
  PROVE  ExactInv'
<1>1. UNCHANGED <<pc, cmd, id, buf, result, quiet>>
  BY DEF host
<1>2. ASSUME NEW t \in Tasks, quiet[t] PROVE ExactOf(t)'
  <2>1. pc[t] = "idle" => Exact(t)'
    BY <1>1, <1>2 DEF ExactInv, ExactOf, Exact
  <2>2. pc[t] # "idle" => Running(t)'
    BY <1>2 DEF ExactInv, ExactOf, QuietInv
  <2> QED BY <1>1, <2>1, <2>2 DEF ExactOf
<1>3. \A t \in Tasks : Free(buf[t], Unsent)'
  BY <1>1 DEF ExactInv
<1> QED BY <1>1, <1>2, <1>3 DEF ExactInv

\* What keeps a call where it is: nothing is written or taken up, and no answer
\* appears that was not on its way.
LEMMA FreeOfLess ==
  ASSUME NEW s, NEW K, NEW L, Free(s, K), L \subseteq K PROVE Free(s, L)
BY DEF Free

Stages == {Answered \cup {"prompt"}, Answered, Failed, {"ok"}, {"prompt"}}

LEMMA RunningKept ==
  ASSUME NEW t \in Tasks, Running(t), pc'[t] = pc[t], cmd'[t] = cmd[t], tx' = tx,
         mode' = mode \/ ~Free(out, {"prompt"}),
         \A K \in Stages : Nowhere(t, K) => Nowhere(t, K)',
         Free(out, {"prompt"}) => Free(out, {"prompt"})'
  PROVE  Running(t)'
<1>1. /\ CommandWaits(t) => CommandWaits(t)'
      /\ BothWait(t) => BothWait(t)'
      /\ AtMostPayload(t) => AtMostPayload(t)'
  BY DEF CommandWaits, BothWait, AtMostPayload, PayloadWaits
<1>2. Untaken(t) => Untaken(t)'
  <2> SUFFICES ASSUME Untaken(t) PROVE Untaken(t)'
    OBVIOUS
  <2>1. Free(out, {"prompt"})
    BY FreeOfLess DEF Untaken, Nowhere
  <2>2. Nowhere(t, Answered \cup {"prompt"})'
    BY DEF Untaken, Stages
  <2> QED BY <1>1, <2>1, <2>2 DEF Untaken
<1>3. Open(t) => Open(t)'
  BY <1>1 DEF Open, Stages
<1>4. Granted(t) => Granted(t)'
  BY DEF Granted, Stages
<1>5. Denied(t) => Denied(t)'
  BY <1>1 DEF Denied, Stages
<1> QED BY <1>2, <1>3, <1>4, <1>5 DEF Running

\* What a call still holds that an answer could be read in goes with its calls.
LEMMA NowhereRead ==
  ASSUME TypeOK, NEW t \in Tasks, NEW n \in Nat, n <= Len(rx),
         rx' = rx \/ rx' = <<>> \/ rx' = SubSeq(rx, n + 1, Len(rx)), out' = out,
         buf'[t] = buf[t] \/ buf'[t] = buf[t] \o SubSeq(rx, 1, n), NEW K
  PROVE  /\ Free(rx, K) => Free(rx, K)'
         /\ Free(rx, K) /\ Free(buf[t], K) => Free(buf[t], K)'
         /\ Nowhere(t, K) => Nowhere(t, K)'
<1>1. rx \in Seq(Piece) /\ buf[t] \in Seq(Piece)
  BY DEF TypeOK
<1>2. Free(rx, K) => Free(SubSeq(rx, n + 1, Len(rx)), K) /\ Free(SubSeq(rx, 1, n), K)
  BY <1>1, FreeSteps
<1>3. Free(rx, K) => Free(rx', K)
  BY <1>2, FreeEmpty
<1>4. SubSeq(rx, 1, n) \in Seq(Piece)
  BY <1>1, SeqSteps
<1>5. Free(rx, K) /\ Free(buf[t], K) => Free(buf[t] \o SubSeq(rx, 1, n), K)
  BY <1>1, <1>2, <1>4, FreeSteps
<1>6. Free(rx, K) /\ Free(buf[t], K) => Free(buf'[t], K)
  BY <1>5
<1> QED BY <1>3, <1>6 DEF Nowhere

\* A call that returns an error without its answer is exact.
LEMMA ErrorIsExact ==
  ASSUME CallInv, NEW t \in Tasks, pc[t] # "idle", TypeOK,
         buf'[t] = buf[t], cmd'[t] = cmd[t], id'[t] = id[t], result'[t] # "ESP_OK"
  PROVE  Exact(t)'
<1>1. ~HasCommandTerminated(buf[t], cmd[t], RType[cmd[t]])
  <2>1. pc[t] = "prompt" \/ pc[t] = "read"
    BY DEF TypeOK
  <2> QED BY <2>1, EmptyNotTerminated DEF CallInv
<1>2. ~Grants(buf[t], cmd[t], id[t])
  BY <1>1, IncompleteVerdict
<1> QED BY <1>2 DEF Exact

LEMMA NothingGranted == \A c, i : ~Grants(<<>>, c, i)
BY DEF Grants, Own

LEMMA ExactReject ==
  ASSUME TypeOK, ExactInv, NEW t \in Tasks, RejectCall(t) PROVE ExactInv'
<1>1. /\ \A u \in Tasks \ {t} : buf'[u] = buf[u] /\ result'[u] = result[u]
      /\ buf'[t] = <<>> /\ result'[t] # "ESP_OK" /\ pc[t] = "idle"
      /\ pc' = pc /\ cmd' = cmd /\ id' = id /\ quiet' = quiet /\ tx' = tx /\ rx' = rx
      /\ mode' = mode /\ out' = out
  BY HandlerAssumption DEF RejectCall, TypeOK, modem, Errors
<1>2. \A u \in Tasks : Free(buf[u], Unsent)'
  BY <1>1, FreeEmpty DEF ExactInv
<1>3. ASSUME NEW u \in Tasks, quiet[u] PROVE ExactOf(u)'
  <2>1. CASE u = t
    BY <1>1, <2>1, NothingGranted DEF ExactOf, Exact
  <2>2. CASE u # t
    <3>1. Exact(u) => Exact(u)'
      BY <1>1, <2>2 DEF Exact
    <3>2. Running(u) => Running(u)'
      BY <1>1, <2>2 DEF Running, Untaken, Open, Granted, Denied, Nowhere, CommandWaits,
                        BothWait, AtMostPayload, PayloadWaits
    <3> QED BY <1>1, <1>3, <3>1, <3>2 DEF ExactInv, ExactOf
  <2> QED BY <2>1, <2>2
<1> QED BY <1>1, <1>2, <1>3 DEF ExactInv

LEMMA ExactSend ==
  ASSUME TypeOK, ExactInv, NEW t \in Tasks, NEW c \in Cmds, SendCommand(t, c)
  PROVE  ExactInv'
<1>1. \A u \in Tasks \ {t} :
        /\ pc'[u] = pc[u] /\ id'[u] = id[u] /\ cmd'[u] = cmd[u] /\ buf'[u] = buf[u]
        /\ result'[u] = result[u] /\ (quiet'[u] => quiet[u] /\ pc[u] = "idle")
  <2>1. PICK p, r : pc' = [pc EXCEPT ![t] = p] /\ result' = [result EXCEPT ![t] = r]
    BY DEF SendCommand, Return, Goto
  <2>2. /\ id' = [id EXCEPT ![t] = nextId] /\ buf' = [buf EXCEPT ![t] = <<>>]
        /\ cmd' = [cmd EXCEPT ![t] = c]
        /\ quiet' = [u \in Tasks |-> IF u = t THEN LineIsQuiet(t) ELSE quiet[u] /\ pc[u] = "idle"]
    BY DEF SendCommand
  <2> QED BY <2>1, <2>2 DEF TypeOK
<1>2. /\ id'[t] = nextId /\ buf'[t] = <<>> /\ cmd'[t] = c /\ (quiet'[t] => LineIsQuiet(t))
      /\ result'[t] # "ESP_OK" /\ out' = out /\ mode' = mode
      /\ rx' = rx \/ rx' = <<>>
  BY DEF SendCommand, HwWrite, Return, Goto, TypeOK, HwWriteOutcomes, modem
<1>3. Free(rx, Unsent)' /\ Free(out, Unsent)' /\ \A u \in Tasks : Free(buf[u], Unsent)'
  BY <1>1, <1>2, FreeEmpty DEF ExactInv
<1>4. ASSUME NEW u \in Tasks \ {t}, quiet'[u] PROVE ExactOf(u)'
  BY <1>1, <1>4 DEF ExactInv, ExactOf, Exact
<1>5. ASSUME quiet'[t] PROVE ExactOf(t)'
  <2>1. pc'[t] = "idle" => Exact(t)'
    BY <1>2, NothingGranted DEF Exact
  <2>2. ASSUME pc'[t] # "idle" PROVE Running(t)'
    <3>1. /\ tx' = Append(tx, [cmd |-> c, id |-> nextId, part |-> "cmd"])
          /\ pc'[t] = "prompt" => c \in Prompted
      BY <2>2 DEF SendCommand, HwWrite, Return, Goto, TypeOK, HwWriteOutcomes
    <3>2. [cmd |-> c, id |-> nextId, part |-> "cmd"] \in Written
      BY DEF SendCommand, Written
    <3>3. tx' = <<[cmd |-> c, id |-> nextId, part |-> "cmd"]>>
      BY <1>2, <1>5, <3>1 DEF LineIsQuiet
    <3>4. CommandWaits(t)'
      BY <1>2, <3>2, <3>3 DEF CommandWaits
    <3>5. \A k \in Answered \cup {"prompt"} : k \notin Harmless
      BY DEF Answered, Harmless, Urcs
    <3>6. \A s : Clear(s) => Free(s, Answered \cup {"prompt"})
      BY <3>5 DEF Clear, Free
    <3>7. Nowhere(t, Answered \cup {"prompt"})'
      BY <1>2, <1>5, <3>6, FreeEmpty DEF LineIsQuiet, Nowhere
    <3>8. Untaken(t)'
      BY <1>2, <1>5, <3>4, <3>7 DEF LineIsQuiet, Untaken
    <3> QED BY <1>2, <3>1, <3>8 DEF Running
  <2> QED BY <2>1, <2>2 DEF ExactOf
<1> QED BY <1>3, <1>4, <1>5 DEF ExactInv

LEMMA ExactDrop ==
  ASSUME TypeOK, QuietInv, ExactInv, NEW t \in Tasks, DropBeforePrompt(t) \/ ReadNothing(t)
  PROVE  ExactInv'
<1>1. /\ pc[t] # "idle" /\ quiet' = quiet /\ id' = id /\ cmd' = cmd /\ buf' = buf /\ pc' = pc
      /\ result' = result /\ out' = out /\ mode' = mode /\ tx' = tx
  BY DEF DropBeforePrompt, ReadNothing, modem
<1>2. PICK n \in Nat : n <= Len(rx) /\ (rx' = rx \/ rx' = SubSeq(rx, n + 1, Len(rx)))
  <2>1. \A n \in 1..ChunkMax : ReadChunk(n) =>
          n \in Nat /\ n <= Len(rx) /\ rx' = SubSeq(rx, n + 1, Len(rx))
    BY HandlerAssumption DEF ReadChunk
  <2>2. CASE DropBeforePrompt(t)
    BY <2>1, <2>2 DEF DropBeforePrompt
  <2>3. CASE ReadNothing(t)
    <3>1. rx' = rx /\ 0 \in Nat /\ 0 <= Len(rx)
      BY <2>3, LenProperties DEF ReadNothing, TypeOK
    <3> QED BY <3>1
  <2> QED BY <2>2, <2>3
<1>3. \A K : (Free(rx, K) => Free(rx, K)') /\ (Nowhere(t, K) => Nowhere(t, K)')
  BY <1>1, <1>2, NowhereRead
<1>4. Free(rx, Unsent)' /\ Free(out, Unsent)' /\ Free(buf[t], Unsent)'
  BY <1>1, <1>3 DEF ExactInv
<1>5. ASSUME quiet[t] PROVE ExactOf(t)'
  <2>1. Running(t)
    BY <1>1, <1>5 DEF ExactInv, ExactOf
  <2>2. Running(t)'
    BY <1>1, <1>3, <2>1, RunningKept
  <2> QED BY <1>1, <2>2 DEF ExactOf
<1> QED BY <1>1, <1>4, <1>5, ExactOfOne

LEMMA ExactGiveUp ==
  ASSUME TypeOK, QuietInv, CallInv, ExactInv, NEW t \in Tasks, Overflow(t) \/ TimeOut(t)
  PROVE  ExactInv'
<1>1. /\ pc[t] # "idle" /\ quiet' = quiet /\ id' = id /\ cmd' = cmd /\ buf' = buf
      /\ out' = out /\ pc'[t] = "idle" /\ result'[t] # "ESP_OK"
      /\ \A u \in Tasks \ {t} : pc'[u] = pc[u] /\ result'[u] = result[u]
  BY DEF Overflow, TimeOut, Return, modem, TypeOK
<1>2. PICK n \in Nat : n <= Len(rx) /\ (rx' = rx \/ rx' = SubSeq(rx, n + 1, Len(rx)))
  <2>1. \A n \in 1..ChunkMax : ReadChunk(n) =>
          n \in Nat /\ n <= Len(rx) /\ rx' = SubSeq(rx, n + 1, Len(rx))
    BY HandlerAssumption DEF ReadChunk
  <2>2. CASE Overflow(t)
    BY <2>1, <2>2 DEF Overflow
  <2>3. CASE TimeOut(t)
    <3>1. rx' = rx /\ 0 \in Nat /\ 0 <= Len(rx)
      BY <2>3, LenProperties DEF TimeOut, TypeOK
    <3> QED BY <3>1
  <2> QED BY <2>2, <2>3
<1>3. \A K : Free(rx, K) => Free(rx, K)'
  BY <1>1, <1>2, NowhereRead
<1>4. Free(rx, Unsent)' /\ Free(out, Unsent)' /\ Free(buf[t], Unsent)'
  BY <1>1, <1>3 DEF ExactInv
<1>5. ExactOf(t)'
  BY <1>1, ErrorIsExact DEF ExactOf
<1> QED BY <1>1, <1>4, <1>5, ExactOfOne

LEMMA AppendToOne ==
  ASSUME NEW S, NEW x \in S, NEW y \in S PROVE Append(<<x>>, y) = <<x, y>>
<1> DEFINE r == Append(<<x>>, y)
           p == <<x, y>>
<1>1. r[1] = x /\ r[2] = y
  BY AppendProperties
<1>2. p \in Seq(S) /\ Len(p) = 2 /\ p[1] = x /\ p[2] = y
  OBVIOUS
<1>3. r \in Seq(S) /\ Len(r) = 2
  BY AppendProperties
<1> HIDE DEF r, p
<1>4. \A k \in 1..2 : r[k] = p[k]
  <2>1. \A k \in 1..2 : k = 1 \/ k = 2
    OBVIOUS
  <2> QED BY <1>1, <1>2, <2>1
<1>5. r = p
  BY <1>2, <1>3, <1>4, SeqEqual
<1> QED BY <1>5 DEF r, p

LEMMA ExactPayload ==
  ASSUME TypeOK, CallHasId, QuietInv, CallInv, ExactInv, NEW t \in Tasks, SendPayload(t)
  PROVE  ExactInv'
<1> DEFINE d == [cmd |-> cmd[t], id |-> id[t], part |-> "data"]
<1>1. /\ pc[t] = "prompt" /\ quiet' = quiet /\ id' = id /\ cmd' = cmd /\ buf' = buf
      /\ out' = out /\ mode' = mode
      /\ \A u \in Tasks \ {t} : pc'[u] = pc[u] /\ result'[u] = result[u]
  BY DEF SendPayload, Return, modem, TypeOK
<1>2. PICK n \in Nat : n <= Len(rx) /\ (rx' = <<>> \/ rx' = SubSeq(rx, n + 1, Len(rx)))
  <2>1. PICK n \in 1..ChunkMax : n <= Len(rx) /\ (rx' = <<>> \/ rx' = SubSeq(rx, n + 1, Len(rx)))
    BY DEF SendPayload
  <2>2. n \in Nat
    BY HandlerAssumption
  <2> QED BY <2>1, <2>2
<1>3. \A K : (Free(rx, K) => Free(rx, K)') /\ (Nowhere(t, K) => Nowhere(t, K)')
  BY <1>1, <1>2, NowhereRead
<1>4. Free(rx, Unsent)' /\ Free(out, Unsent)' /\ Free(buf[t], Unsent)'
  BY <1>1, <1>3 DEF ExactInv
<1>5. \/ pc'[t] = "idle" /\ result'[t] # "ESP_OK"
      \/ pc'[t] = "read" /\ tx' = Append(tx, d)
  <2>1. PICK w \in HwWriteOutcomes :
          /\ tx' = IF w.sent THEN Append(tx, d) ELSE tx
          /\ \/ w.err # "ESP_OK" /\ Return(t, id[t], w.err, TRUE)
             \/ Return(t, id[t], "ESP_ERR_NO_MEM", TRUE)
             \/ w.err = "ESP_OK" /\ pc' = [pc EXCEPT ![t] = "read"]
    BY DEF SendPayload
  <2>2. CASE w.err # "ESP_OK" /\ Return(t, id[t], w.err, TRUE)
    BY <2>2 DEF Return, TypeOK
  <2>3. CASE Return(t, id[t], "ESP_ERR_NO_MEM", TRUE)
    BY <2>3 DEF Return, TypeOK
  <2>4. CASE w.err = "ESP_OK" /\ pc' = [pc EXCEPT ![t] = "read"]
    <3>1. w.sent
      BY <2>4 DEF HwWriteOutcomes
    <3> HIDE DEF d
    <3> QED BY <2>1, <2>4, <3>1 DEF TypeOK
  <2> QED BY <2>1, <2>2, <2>3, <2>4
<1>6. d \in Written
  <2>1. id[t] \in CallIds /\ cmd[t] \in Cmds
    BY <1>1 DEF CallHasId, TypeOK
  <2> QED BY <2>1 DEF Written
<1>7. d.part = "data"
  OBVIOUS
<1> HIDE DEF d
<1>8. ASSUME quiet[t] PROVE ExactOf(t)'
  <2>1. CASE pc'[t] = "idle" /\ result'[t] # "ESP_OK"
    BY <1>1, <2>1, ErrorIsExact DEF ExactOf
  <2>2. CASE pc'[t] = "read" /\ tx' = Append(tx, d)
    <3>1. Running(t) /\ cmd[t] \in Prompted
      BY <1>1, <1>8 DEF ExactInv, ExactOf, Running
    <3>2. AtMostPayload(t) => AtMostPayload(t)'
      <4>1. AtMostPayload(t) => tx = <<>>
        BY <1>1 DEF AtMostPayload
      <4>2. tx = <<>> => tx' = <<d>>
        BY <2>2
      <4> QED BY <1>6, <1>7, <2>2, <4>1, <4>2 DEF AtMostPayload, PayloadWaits
    <3>3. CommandWaits(t) => BothWait(t)'
      <4>1. \A w \in Written : Append(<<w>>, d) = <<w, d>>
        BY <1>6, AppendToOne
      <4>2. \A w \in Written : tx = <<w>> => tx' = <<w, d>>
        BY <2>2, <4>1, Zenon
      <4> QED BY <1>1, <1>6, <1>7, <4>2 DEF CommandWaits, BothWait
    <3>4. CASE Untaken(t)
      <4>1. CommandWaits(t) /\ mode = "command" /\ Nowhere(t, Answered \cup {"prompt"})
        BY <1>1, <3>4 DEF Untaken
      <4>2. Untaken(t)'
        BY <1>1, <1>3, <2>2, <3>1, <3>3, <4>1 DEF Untaken
      <4> QED BY <2>2, <4>2 DEF ExactOf, Running
    <3>5. CASE Open(t)
      <4>1. Open(t)'
        BY <1>3, <3>2, <3>5 DEF Open
      <4> QED BY <2>2, <4>1 DEF ExactOf, Running
    <3>6. CASE Denied(t)
      <4>1. Denied(t)'
        BY <1>1, <1>3, <3>2, <3>6 DEF Denied
      <4> QED BY <2>2, <4>1 DEF ExactOf, Running
    <3> QED BY <1>1, <3>1, <3>4, <3>5, <3>6 DEF Running, Granted
  <2> QED BY <1>5, <2>1, <2>2
<1> QED BY <1>1, <1>4, <1>8, ExactOfOne

LEMMA ExactCollect ==
  ASSUME NoneTooStrict, TypeOK, QuietInv, QuietInv', ExactInv, NEW t \in Tasks, Collect(t)
  PROVE  ExactInv'
<1> DEFINE c == cmd[t]
           v == Verdict(buf'[t], c, RType[c], Parser[c])
<1>1. /\ pc[t] = "read" /\ quiet' = quiet /\ id' = id /\ cmd' = cmd /\ out' = out
      /\ mode' = mode /\ tx' = tx
  BY DEF Collect, modem
<1>2. PICK n \in Nat : /\ n <= Len(rx) /\ rx' = SubSeq(rx, n + 1, Len(rx))
                       /\ buf' = [buf EXCEPT ![t] = @ \o SubSeq(rx, 1, n)]
  <2>1. \A n \in 1..ChunkMax : ReadChunk(n) =>
          n \in Nat /\ n <= Len(rx) /\ rx' = SubSeq(rx, n + 1, Len(rx))
    BY HandlerAssumption DEF ReadChunk
  <2>2. \E n \in 1..ChunkMax :
          ReadChunk(n) /\ buf' = [buf EXCEPT ![t] = @ \o SubSeq(rx, 1, n)]
    BY DEF Collect
  <2> QED BY <2>1, <2>2
<1>3. /\ \A u \in Tasks \ {t} : pc'[u] = pc[u] /\ buf'[u] = buf[u] /\ result'[u] = result[u]
      /\ buf'[t] = buf[t] \o SubSeq(rx, 1, n)
      /\ \/ pc'[t] = pc[t]
         \/ /\ HasCommandTerminated(buf'[t], c, RType[c])
            /\ pc'[t] = "idle" /\ result'[t] = v
  <2>1. \/ /\ HasCommandTerminated(buf'[t], c, RType[c])
           /\ pc' = [pc EXCEPT ![t] = "idle"] /\ result' = [result EXCEPT ![t] = v]
        \/ UNCHANGED <<pc, result>>
    BY DEF Collect, Return
  <2>2. /\ \A u \in Tasks \ {t} : pc'[u] = pc[u] /\ result'[u] = result[u]
        /\ \/ pc'[t] = pc[t]
           \/ /\ HasCommandTerminated(buf'[t], c, RType[c])
              /\ pc'[t] = "idle" /\ result'[t] = v
    <3> HIDE DEF v
    <3> QED BY <2>1 DEF TypeOK
  <2> QED BY <1>2, <2>2 DEF TypeOK
<1>4. \A K : /\ Free(rx, K) => Free(rx, K)'
             /\ Free(rx, K) /\ Free(buf[t], K) => Free(buf[t], K)'
             /\ Nowhere(t, K) => Nowhere(t, K)'
  BY <1>1, <1>2, <1>3, NowhereRead
<1>5. Free(rx, Unsent)' /\ Free(out, Unsent)' /\ Free(buf[t], Unsent)'
  BY <1>1, <1>4 DEF ExactInv
<1>6. ASSUME quiet[t] PROVE ExactOf(t)'
  <2>1. Running(t)
    BY <1>1, <1>6 DEF ExactInv, ExactOf
  <2>2. CASE pc'[t] = pc[t]
    <3>1. Running(t)'
      BY <1>1, <1>4, <2>1, <2>2, RunningKept
    <3> QED BY <1>1, <2>2, <3>1 DEF ExactOf
  <2>3. CASE /\ HasCommandTerminated(buf'[t], c, RType[c])
             /\ pc'[t] = "idle" /\ result'[t] = v
    <3>1. c \in Cmds
      BY DEF TypeOK
    <3>2. Nowhere(t, {"ok"}) \/ Nowhere(t, Failed)
      <4>1. ASSUME NEW K, Nowhere(t, K), {"ok"} \subseteq K PROVE Nowhere(t, {"ok"})
        BY <4>1, FreeOfLess DEF Nowhere
      <4>2. {"ok"} \subseteq Answered /\ {"ok"} \subseteq Answered \cup {"prompt"}
        BY DEF Answered
      <4>3. Untaken(t) \/ Open(t) => Nowhere(t, {"ok"})
        BY <4>1, <4>2 DEF Untaken, Open
      <4> QED BY <2>1, <4>3 DEF Running, Granted, Denied
    <3>3. Free(buf'[t], {"ok"}) \/ Free(buf'[t], Failed)
      BY <1>4, <3>2 DEF Nowhere
    <3>4. OnlyOf(id[t], buf'[t])
      BY <1>1, <1>6 DEF QuietInv
    <3>5. Free(buf'[t], Unsent)
      BY <1>5
    <3>6. v = "ESP_OK" <=> Grants(buf'[t], c, id[t])
      BY <2>3, <3>1, <3>3, <3>4, <3>5, CompleteVerdict
    <3> HIDE DEF v
    <3> QED BY <1>1, <2>3, <3>6 DEF ExactOf, Exact
  <2> QED BY <1>3, <2>2, <2>3
<1> QED BY <1>1, <1>3, <1>5, <1>6, ExactOfOne

-------------------------------------------------------------------------------
\* An answer after the echo of its command.
LEMMA FreeEchoed ==
  ASSUME NoLetters, NEW c \in Cmds, NEW i \in CallIds \cup {NoCall}, NEW e \in EchoesOf(c, i)
  PROVE  /\ \A a \in Failures(c, i) :
              Free(e \o a, {"ok"}) /\ Free(e \o a, {"prompt"}) /\ Free(e \o a, Unsent)
         /\ \A a \in Answers(c, i) :
              /\ Free(e \o a, {"prompt"}) /\ Free(e \o a, Unsent)
              /\ Free(e \o a, {"ok"}) \/ Free(e \o a, Failed)
         /\ LET a == <<P("prompt", c, i)>> IN Free(e \o a, Answered) /\ Free(e \o a, Unsent)
<1> DEFINE Sets == {{"ok"}, {"prompt"}, Failed, Answered, Unsent}
<1>1. e \in Seq(Piece) /\ \A K \in Sets : Free(e, K)
  BY FreeAnswers
<1> HIDE DEF Sets
<1>2. \A K \in Sets : \A a \in Seq(Piece) : Free(a, K) => Free(e \o a, K)
  BY <1>1, FreeSteps
<1>3. {{"ok"}, {"prompt"}, Failed, Answered, Unsent} \subseteq Sets
  BY DEF Sets
<1>4. ASSUME NEW a \in Failures(c, i)
      PROVE  Free(e \o a, {"ok"}) /\ Free(e \o a, {"prompt"}) /\ Free(e \o a, Unsent)
  <2>1. a \in Seq(Piece) /\ Free(a, {"ok"}) /\ Free(a, {"prompt"}) /\ Free(a, Unsent)
    BY FreeAnswers
  <2> QED BY <1>2, <1>3, <2>1
<1>5. ASSUME NEW a \in Answers(c, i)
      PROVE  /\ Free(e \o a, {"prompt"}) /\ Free(e \o a, Unsent)
             /\ Free(e \o a, {"ok"}) \/ Free(e \o a, Failed)
  <2>1. /\ a \in Seq(Piece) /\ Free(a, {"prompt"}) /\ Free(a, Unsent)
        /\ Free(a, {"ok"}) \/ Free(a, Failed)
    BY FreeAnswers
  <2> QED BY <1>2, <1>3, <2>1
<1>6. LET a == <<P("prompt", c, i)>> IN Free(e \o a, Answered) /\ Free(e \o a, Unsent)
  BY <1>2, <1>3, FreeAnswers
<1> QED BY <1>4, <1>5, <1>6

\* What the modem answers when it takes something up.
LEMMA TakenUp ==
  ASSUME TypeOK, ModemTakes
  PROVE  LET w == Head(tx) IN
         /\ w.cmd \in Cmds /\ w.id \in CallIds \cup {NoCall} /\ w.part \in {"cmd", "data"}
         /\ \/ /\ mode = "command" /\ w.part = "cmd" /\ mode' = mode
               /\ \E e \in EchoesOf(w.cmd, w.id) :
                    \/ w.cmd \in Prompted /\ out' = e \o <<P("prompt", w.cmd, w.id)>>
                    \/ w.cmd \in Prompted /\ \E a \in Failures(w.cmd, w.id) : out' = e \o a
                    \/ w.cmd \notin Prompted /\ \E a \in Answers(w.cmd, w.id) : out' = e \o a
            \/ mode = "command" /\ w.part = "data" /\ mode' = mode /\ out' \in Failures(w.cmd, w.id)
            \/ mode = "data" /\ mode' = "command" /\ out' \in Answers(dcall.cmd, dcall.id)
            \/ mode = "data" /\ mode' = mode /\ out' = <<>>
<1> DEFINE w == Head(tx)
<1>1. w \in Written /\ out = <<>>
  BY HeadTailProperties DEF ModemTakes, TypeOK
<1>2. w.cmd \in Cmds /\ w.id \in CallIds \cup {NoCall} /\ w.part \in {"cmd", "data"}
  BY <1>1 DEF Written
<1>3. CASE mode = "command" /\ w.part = "cmd"
  <2>1. CASE w.cmd \in Prompted
    <3>1. /\ mode' = mode
          /\ \E e \in EchoesOf(w.cmd, w.id),
                a \in Failures(w.cmd, w.id) \cup {<<P("prompt", w.cmd, w.id)>>} : out' = e \o a
      BY <1>3, <2>1 DEF ModemTakes
    <3> QED BY <1>2, <1>3, <2>1, <3>1
  <2>2. CASE w.cmd \notin Prompted
    <3>1. /\ mode' = mode
          /\ \E e \in EchoesOf(w.cmd, w.id), a \in Answers(w.cmd, w.id) : out' = e \o a
      BY <1>3, <2>2 DEF ModemTakes
    <3> QED BY <1>2, <1>3, <2>2, <3>1
  <2> QED BY <2>1, <2>2
<1>4. CASE mode = "command" /\ w.part = "data"
  BY <1>2, <1>4 DEF ModemTakes
<1>5. CASE mode = "data"
  BY <1>1, <1>2, <1>5 DEF ModemTakes
<1> QED BY <1>2, <1>3, <1>4, <1>5 DEF TypeOK

LEMMA TakenUpFree == ASSUME NoLetters, TypeOK, ModemTakes PROVE Free(out', Unsent)
<1> DEFINE w == Head(tx)
<1>1. dcall.cmd \in Cmds /\ dcall.id \in CallIds \cup {NoCall}
  BY DEF TypeOK
<1>2. w.cmd \in Cmds /\ w.id \in CallIds \cup {NoCall}
  BY TakenUp
<1>3. CASE \E e \in EchoesOf(w.cmd, w.id) :
             \/ out' = e \o <<P("prompt", w.cmd, w.id)>>
             \/ \E a \in Failures(w.cmd, w.id) \cup Answers(w.cmd, w.id) : out' = e \o a
  BY <1>2, <1>3, FreeEchoed
<1>4. CASE out' \in Failures(w.cmd, w.id)
  BY <1>2, <1>4, FreeAnswers
<1>5. CASE out' \in Answers(dcall.cmd, dcall.id)
  BY <1>1, <1>5, FreeAnswers
<1>6. CASE out' = <<>>
  BY <1>6, FreeEmpty
<1> QED BY <1>3, <1>4, <1>5, <1>6, TakenUp

\* The modem takes up the command of a running call.
LEMMA TakesCommand ==
  ASSUME NoLetters, TypeOK, ModemTakes, NEW t \in Tasks, pc[t] # "idle",
         Running(t), Untaken(t)
  PROVE  Running(t)'
<1> DEFINE c == cmd[t]
           i == Head(tx).id
<1>1. /\ mode = "command" /\ tx' = Tail(tx) /\ UNCHANGED <<pc, cmd, buf, rx>>
      /\ Nowhere(t, Answered \cup {"prompt"}) /\ c \in Cmds
      /\ pc[t] = "prompt" => c \in Prompted
  BY DEF ModemTakes, host, Untaken, TypeOK, Running
<1>2. Head(tx).part = "cmd" /\ Head(tx).cmd = c /\ AtMostPayload(t)'
  <2>1. CASE CommandWaits(t)
    <3>1. PICK w \in Written : tx = <<w>> /\ w.part = "cmd" /\ w.cmd = c
      BY <2>1 DEF CommandWaits
    <3>2. Head(tx) = w /\ Tail(tx) = <<>>
      BY <3>1
    <3> QED BY <1>1, <3>1, <3>2 DEF AtMostPayload
  <2>2. CASE BothWait(t) /\ pc[t] = "read"
    <3>1. PICK w \in Written, d \in Written :
            tx = <<w, d>> /\ w.part = "cmd" /\ w.cmd = c /\ d.part = "data"
      BY <2>2 DEF BothWait
    <3>2. Head(tx) = w /\ Tail(tx) = <<d>>
      BY <3>1
    <3> QED BY <1>1, <2>2, <3>1, <3>2 DEF AtMostPayload, PayloadWaits
  <2> QED BY <2>1, <2>2 DEF Untaken
<1>3. \A K \in {{"ok"}, Failed, Answered} : Free(out', K) => Nowhere(t, K)'
  <2>1. \A K \in {{"ok"}, Failed, Answered} : K \subseteq Answered \cup {"prompt"}
    BY DEF Failed, Answered
  <2>2. \A K \in {{"ok"}, Failed, Answered} : Free(buf[t], K) /\ Free(rx, K)
    BY <1>1, <2>1, FreeOfLess DEF Nowhere
  <2> QED BY <1>1, <2>2 DEF Nowhere
<1>4. i \in CallIds \cup {NoCall}
  BY TakenUp
<1>5. PICK e \in EchoesOf(c, i) :
        \/ c \in Prompted /\ out' = e \o <<P("prompt", c, i)>>
        \/ c \in Prompted /\ \E a \in Failures(c, i) : out' = e \o a
        \/ c \notin Prompted /\ \E a \in Answers(c, i) : out' = e \o a
  BY <1>1, <1>2, TakenUp
<1>6. mode' = "command"
  BY <1>1, <1>2, TakenUp
<1>7. (pc[t] = "prompt" => cmd[t] \in Prompted)'
  BY <1>1
<1>8. CASE c \in Prompted /\ out' = e \o <<P("prompt", c, i)>>
  <2>1. Free(out', Answered)
    BY <1>1, <1>4, <1>8, FreeEchoed
  <2>2. Open(t)'
    BY <1>2, <1>3, <2>1 DEF Open
  <2> QED BY <1>7, <2>2 DEF Running
<1>9. ASSUME Free(out', {"ok"}), Free(out', {"prompt"}) PROVE Running(t)'
  <2>1. Denied(t)'
    BY <1>2, <1>3, <1>6, <1>9 DEF Denied
  <2> QED BY <1>7, <2>1 DEF Running
<1>10. CASE \E a \in Failures(c, i) : out' = e \o a
  BY <1>1, <1>4, <1>9, <1>10, FreeEchoed
<1>11. CASE c \notin Prompted /\ \E a \in Answers(c, i) : out' = e \o a
  <2>1. Free(out', {"prompt"}) /\ (Free(out', {"ok"}) \/ Free(out', Failed))
    BY <1>1, <1>4, <1>11, FreeEchoed
  <2>2. ASSUME Free(out', Failed) PROVE Running(t)'
    <3>1. pc'[t] = "read" /\ tx' = <<>>
      <4>1. pc[t] = "read"
        BY <1>1, <1>11 DEF TypeOK
      <4>2. CommandWaits(t)
        BY <1>11 DEF Untaken
      <4>3. Tail(tx) = <<>>
        BY <4>2 DEF CommandWaits
      <4> QED BY <1>1, <4>1, <4>3
    <3>2. Granted(t)'
      BY <1>3, <1>6, <2>1, <2>2, <3>1 DEF Granted
    <3> QED BY <1>7, <3>2 DEF Running
  <2> QED BY <1>9, <2>1, <2>2
<1> QED BY <1>5, <1>8, <1>10, <1>11

\* The modem takes up the payload of a running call.
LEMMA TakesPayload ==
  ASSUME NoLetters, TypeOK, ModemTakes, NEW t \in Tasks, pc[t] # "idle",
         Running(t), Open(t) \/ Denied(t)
  PROVE  Running(t)'
<1> DEFINE w == Head(tx)
<1>1. /\ tx # <<>> /\ tx' = Tail(tx) /\ UNCHANGED <<pc, cmd, buf, rx>> /\ PayloadWaits
      /\ pc[t] = "read"
  BY DEF ModemTakes, host, Open, Denied, AtMostPayload
<1>2. w.part = "data" /\ tx' = <<>>
  <2>1. PICK d \in Written : tx = <<d>> /\ d.part = "data"
    BY <1>1 DEF PayloadWaits
  <2>2. Head(tx) = d /\ Tail(tx) = <<>>
    BY <2>1
  <2> QED BY <1>1, <2>1, <2>2
<1>3. /\ w.cmd \in Cmds /\ w.id \in CallIds \cup {NoCall}
      /\ dcall.cmd \in Cmds /\ dcall.id \in CallIds \cup {NoCall}
  BY TakenUp DEF TypeOK
<1>4. AtMostPayload(t)' /\ (pc[t] = "prompt" => cmd[t] \in Prompted)'
  BY <1>1, <1>2 DEF AtMostPayload
<1>5. \A K : Nowhere(t, K) /\ Free(out', K) => Nowhere(t, K)'
  BY <1>1 DEF Nowhere
<1>6. Nowhere(t, {"ok"}) /\ (Open(t) => Nowhere(t, Failed))
  <2>1. {"ok"} \subseteq Answered /\ Failed \subseteq Answered
    BY DEF Answered, Failed
  <2>2. Open(t) => Nowhere(t, {"ok"}) /\ Nowhere(t, Failed)
    BY <2>1, FreeOfLess DEF Open, Nowhere
  <2> QED BY <2>2 DEF Denied
<1>7. ASSUME mode' = "command", Free(out', {"ok"}), Free(out', {"prompt"}) PROVE Running(t)'
  <2>1. Denied(t)'
    BY <1>4, <1>5, <1>6, <1>7 DEF Denied
  <2> QED BY <1>4, <2>1 DEF Running
<1>8. CASE mode = "command" /\ mode' = mode /\ out' \in Failures(w.cmd, w.id)
  BY <1>3, <1>7, <1>8, FreeAnswers
<1>9. CASE mode = "data" /\ mode' = "command" /\ out' \in Answers(dcall.cmd, dcall.id)
  <2>1. Free(out', {"prompt"}) /\ (Free(out', {"ok"}) \/ Free(out', Failed))
    BY <1>3, <1>9, FreeAnswers
  <2>2. Open(t)
    BY <1>9 DEF Denied
  <2>3. ASSUME Free(out', Failed) PROVE Running(t)'
    <3>1. Granted(t)'
      BY <1>1, <1>2, <1>5, <1>6, <1>9, <2>1, <2>2, <2>3 DEF Granted
    <3> QED BY <1>4, <3>1 DEF Running
  <2> QED BY <1>7, <1>9, <2>1, <2>3
<1>10. CASE mode = "data" /\ mode' = mode /\ out' = <<>>
  <2>1. Open(t)'
    BY <1>4, <1>5, <1>10, FreeEmpty DEF Open, Denied
  <2> QED BY <1>4, <2>1 DEF Running
<1> QED BY <1>2, <1>8, <1>9, <1>10, TakenUp

LEMMA ExactModemTakes ==
  ASSUME NoLetters, TypeOK, QuietInv, ExactInv, ModemTakes PROVE ExactInv'
<1>1. UNCHANGED <<host, quiet>> /\ Free(rx, Unsent)' /\ Free(out, Unsent)' /\ tx # <<>>
  BY TakenUpFree DEF ModemTakes, ExactInv
<1>2. ASSUME NEW t \in Tasks, pc[t] # "idle", Running(t) PROVE Running(t)'
  BY <1>1, <1>2, TakesCommand, TakesPayload DEF Running, Granted
<1> QED BY <1>1, <1>2, ExactOfModem

LEMMA Delivered ==
  ASSUME TypeOK, NEW p \in Piece, Deliver(p), NEW K, Free(rx, K), p.kind \notin K
  PROVE  Free(rx', K)
<1>1. rx \in Seq(Piece)
  BY DEF TypeOK
<1>2. Free(Append(rx, p), K)
  BY <1>1, FreeSteps
<1> QED BY <1>2 DEF Deliver

LEMMA ExactModemSends ==
  ASSUME TypeOK, QuietInv, ExactInv, ModemSends PROVE ExactInv'
<1>1. /\ UNCHANGED <<host, quiet>> /\ tx' = tx /\ out \in Seq(Piece) /\ out # <<>>
      /\ out' = Tail(out) /\ Deliver(Head(out)) /\ UNCHANGED <<pc, cmd, buf>>
      /\ mode' = mode \/ Head(out).kind = "prompt"
  BY DEF ModemSends, TypeOK, host
<1>2. Head(out) \in Piece
  BY <1>1, HeadTailProperties
<1>3. \A K : Free(out, K) => Head(out).kind \notin K /\ Free(out', K)
  BY <1>1, FreeSteps
<1>4. \A K : Free(out, K) /\ Free(rx, K) => Free(rx', K)
  BY <1>1, <1>2, <1>3, Delivered
<1>5. Free(rx, Unsent)' /\ Free(out, Unsent)'
  BY <1>3, <1>4 DEF ExactInv
<1>6. mode' = mode \/ ~Free(out, {"prompt"})
  BY <1>1, <1>3
<1>7. ASSUME NEW t \in Tasks, Running(t) PROVE Running(t)'
  <2>1. \A K : Nowhere(t, K) => Nowhere(t, K)'
    BY <1>1, <1>3, <1>4 DEF Nowhere
  <2> QED BY <1>1, <1>3, <1>6, <1>7, <2>1, RunningKept
<1> QED BY <1>1, <1>5, <1>7, ExactOfModem

LEMMA ExactUrc ==
  ASSUME NoLetters, TypeOK, QuietInv, ExactInv, ModemSendsUrc PROVE ExactInv'
<1>1. UNCHANGED <<host, quiet, tx, mode, out>> /\ UNCHANGED <<pc, cmd, buf>>
  BY DEF ModemSendsUrc, host
<1>2. PICK kind \in UrcKinds : Deliver(P(kind, CHOOSE c \in Cmds : TRUE, NoCall))
  BY DEF ModemSendsUrc
<1> DEFINE p == P(kind, CHOOSE c \in Cmds : TRUE, NoCall)
<1>3. p \in Piece /\ p.kind = kind
  BY HandlerAssumption DEF P, Piece, Kinds, NoCall
<1>4. kind \in Urcs /\ kind \notin Lettered
  BY HandlerAssumption DEF NoLetters
<1>5. kind \notin Unsent /\ \A K \in Stages : kind \notin K
  BY <1>4 DEF Unsent, Stages, Urcs, Answered, Failed
<1> HIDE DEF p
<1>6. Free(rx, Unsent)' /\ Free(out, Unsent)'
  BY <1>1, <1>2, <1>3, <1>5, Delivered DEF ExactInv, p
<1>7. ASSUME NEW t \in Tasks, Running(t) PROVE Running(t)'
  <2>1. \A K \in Stages : Free(rx, K) => Free(rx', K)
    BY <1>2, <1>3, <1>5, Delivered DEF p
  <2>2. \A K \in Stages : Nowhere(t, K) => Nowhere(t, K)'
    BY <1>1, <2>1 DEF Nowhere
  <2> QED BY <1>1, <1>7, <2>2, RunningKept
<1> QED BY <1>1, <1>6, <1>7, ExactOfModem

LEMMA ExactInvStep ==
  ASSUME NoLetters, NoneTooStrict, TypeOK, CallHasId, QuietInv, QuietInv', CallInv, ExactInv,
         [Next]_vars
  PROVE  ExactInv'
<1>1. CASE UNCHANGED vars
  <2>1. UNCHANGED <<host, quiet>> /\ UNCHANGED <<pc, cmd, buf, tx, rx, mode, out>>
    BY <1>1 DEF vars, host
  <2>2. \A t \in Tasks : Running(t) => Running(t)'
    BY <2>1, RunningKept DEF Nowhere
  <2> QED BY <2>1, <2>2, ExactOfModem DEF ExactInv
<1>2. ASSUME NEW t \in Tasks, Progress(t) PROVE ExactInv'
  BY <1>2, ExactDrop, ExactGiveUp, ExactPayload, ExactCollect DEF Progress
<1>3. CASE Modem
  BY <1>3, ExactModemTakes, ExactModemSends, ExactUrc DEF Modem
<1> QED BY <1>1, <1>2, <1>3, ExactReject, ExactSend DEF Next

\* On a quiet line the verdict is exact, for any tasks, commands, chunk and buffer
\* sizes, timeouts, losses and delays of the modem: a call that had the line to
\* itself succeeds if and only if it read the modem's OK to it, with the data line
\* it must have and no error.  Where a command's name or an unsolicited line holds
\* the letters OK this fails, and so it would for a command whose data is optional
\* but whose parser fails without it; the driver has none.
THEOREM QuietVerdict ==
  ASSUME NoLetters, NoneTooStrict PROVE Spec => []QuietVerdictIsExact
<1> DEFINE IInv == TypeOK /\ CallHasId /\ QuietInv /\ CallInv /\ ExactInv
<1>1. Init => IInv
  <2>1. Init => TypeOK /\ CallHasId
    BY HandlerAssumption, EmptySeq DEF Init, TypeOK, CallHasId, Results, CallIds, NoCall
  <2>2. Init => QuietInv /\ CallInv
    BY DEF Init, QuietInv, CallInv, NoCall
  <2>3. Init => ExactInv
    BY FreeEmpty DEF Init, ExactInv
  <2> QED BY <2>1, <2>2, <2>3
<1>2. IInv /\ [Next]_vars => IInv'
  <2> SUFFICES ASSUME IInv, [Next]_vars PROVE IInv'
    OBVIOUS
  <2>1. TypeOK' /\ CallHasId'
    BY TypeOKStep, CallHasIdStep DEF vars, TypeOK, CallHasId
  <2>2. QuietInv' /\ CallInv'
    BY QuietInvStep, CallInvStep
  <2> QED BY <2>1, <2>2, ExactInvStep
<1>3. IInv => QuietVerdictIsExact
  <2> SUFFICES ASSUME IInv, NEW t \in Tasks, quiet[t], Finished(t)
               PROVE  result[t] = "ESP_OK" <=>
                        /\ OwnPiece(t, "ok") /\ ~OwnPiece(t, "error") /\ ~OwnPiece(t, "cme")
                        /\ RType[cmd[t]] = "DATA_REQUIRED" =>
                             OwnPiece(t, "head") /\ HasOwnLine(buf[t], cmd[t])
    BY DEF QuietVerdictIsExact
  <2>1. Exact(t)
    BY DEF ExactInv, ExactOf, Finished
  <2> QED BY <2>1 DEF Exact, Grants, Own, OwnPiece
<1> QED BY <1>1, <1>2, <1>3, PTL DEF Spec
================================================================================
