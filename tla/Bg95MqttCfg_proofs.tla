--------------------------- MODULE Bg95MqttCfg_proofs ---------------------------
(***************************************************************************)
(* Theorems about Bg95MqttCfg, for any clients, parameters and values: the *)
(* types, that a set which succeeds took effect, and that a query which    *)
(* succeeds returns what the modem has.                                    *)
(***************************************************************************)
EXTENDS Bg95MqttCfg, SequenceTheorems, TLAPS

-------------------------------------------------------------------------------
(* The ranges.                                                                 *)

Intervals == {r \in SUBSET Int : \E a, b \in Int : a <= b /\ r = a..b}

LEMMA IsInterval == ASSUME NEW a \in Int, NEW b \in Int, a <= b PROVE a..b \in Intervals
  BY DEF Intervals

LEMMA Tuple1 == ASSUME NEW S, NEW a \in S PROVE <<a>> \in Seq(S)
  OBVIOUS

LEMMA Tuple2 == ASSUME NEW S, NEW a \in S, NEW b \in S PROVE <<a, b>> \in Seq(S)
  OBVIOUS

LEMMA Tuple3 == ASSUME NEW S, NEW a \in S, NEW b \in S, NEW c \in S PROVE <<a, b, c>> \in Seq(S)
  OBVIOUS

\* Each parameter has an interval of integers for each of its values.
LEMMA RangesAreIntervals == \A t \in CfgTypes : Ranges[t] \in Seq(Intervals)
<1>1. SUFFICES ASSUME NEW t \in CfgTypes PROVE Ranges[t] \in Seq(Intervals)
  OBVIOUS
<1>a. /\ 0..1 \in Intervals /\ 0..2 \in Intervals /\ 0..5 \in Intervals /\ 0..10 \in Intervals
      /\ 1..16 \in Intervals /\ 1..60 \in Intervals /\ 0..3600 \in Intervals
  <2>1. 0..1 \in Intervals
    BY 0 \in Int, 1 \in Int, 0 <= 1, IsInterval, Zenon
  <2>2. 0..2 \in Intervals
    BY 0 \in Int, 2 \in Int, 0 <= 2, IsInterval, Zenon
  <2>3. 0..5 \in Intervals
    BY 0 \in Int, 5 \in Int, 0 <= 5, IsInterval, Zenon
  <2>4. 0..10 \in Intervals
    BY 0 \in Int, 10 \in Int, 0 <= 10, IsInterval, Zenon
  <2>5. 1..16 \in Intervals
    BY 1 \in Int, 16 \in Int, 1 <= 16, IsInterval, Zenon
  <2>6. 1..60 \in Intervals
    BY 1 \in Int, 60 \in Int, 1 <= 60, IsInterval, Zenon
  <2>7. 0..3600 \in Intervals
    <3>1. PICK n \in Int : n = 3600
      OBVIOUS
    <3>2. 0 <= n
      BY <3>1
    <3>3. 0..n \in Intervals
      BY <3>2, n \in Int, 0 \in Int, IsInterval, Zenon
    <3> QED
      BY <3>1, <3>3
  <2> QED
    BY <2>1, <2>2, <2>3, <2>4, <2>5, <2>6, <2>7
<1>2. CASE t = "pdpcid"
  <2>1. Ranges[t] = <<1..16>>
    BY <1>2 DEF Ranges
  <2> QED
    BY <2>1, <1>a, Tuple1
<1>3. CASE t = "ssl"
  <2>1. Ranges[t] = <<0..1, 0..5>>
    BY <1>3 DEF Ranges
  <2> QED
    BY <2>1, <1>a, Tuple2
<1>4. CASE t = "keepalive"
  <2>1. Ranges[t] = <<0..3600>>
    BY <1>4 DEF Ranges
  <2> QED
    BY <2>1, <1>a, Tuple1
<1>5. CASE t = "session"
  <2>1. Ranges[t] = <<0..1>>
    BY <1>5 DEF Ranges
  <2> QED
    BY <2>1, <1>a, Tuple1
<1>6. CASE t = "timeout"
  <2>1. Ranges[t] = <<1..60, 0..10, 0..1>>
    BY <1>6 DEF Ranges
  <2> QED
    BY <2>1, <1>a, Tuple3
<1>7. CASE t = "will"
  <2>1. Ranges[t] = <<0..1, 0..2, 0..1>>
    BY <1>7 DEF Ranges
  <2> QED
    BY <2>1, <1>a, Tuple3
<1>8. CASE t = "recv_mode"
  <2>1. Ranges[t] = <<0..1, 0..1>>
    BY <1>8 DEF Ranges
  <2> QED
    BY <2>1, <1>a, Tuple2
<1> QED
  BY <1>2, <1>3, <1>4, <1>5, <1>6, <1>7, <1>8 DEF CfgTypes

\* What the modem starts with is in range.
LEMMA LowIsLegal ==
  \A t \in CfgTypes : Low(t) \in Seq(Int) /\ Legal(t, Low(t)) /\ DOMAIN Low(t) = DOMAIN Ranges[t]
<1>1. SUFFICES ASSUME NEW t \in CfgTypes
               PROVE  Low(t) \in Seq(Int) /\ Legal(t, Low(t)) /\ DOMAIN Low(t) = DOMAIN Ranges[t]
  OBVIOUS
<1>2. Ranges[t] \in Seq(Intervals)
  BY RangesAreIntervals
<1>3. ASSUME NEW k \in DOMAIN Ranges[t]
      PROVE  Low(t)[k] \in Ranges[t][k] /\ Low(t)[k] \in Int
  <2> DEFINE r == Ranges[t][k]
  <2>1. r \in Intervals
    BY <1>2
  <2>2. \E v \in r : \A w \in r : v <= w
    <3>1. PICK a \in Int, b \in Int : a <= b /\ r = a..b
      BY <2>1 DEF Intervals
    <3>2. a \in r /\ \A w \in r : a <= w
      BY <3>1
    <3> QED
      BY <3>2
  <2>3. (CHOOSE v \in r : \A w \in r : v <= w) \in r
    BY <2>2
  <2>4. Low(t)[k] = CHOOSE v \in r : \A w \in r : v <= w
    BY DEF Low
  <2> QED
    BY <2>1, <2>3, <2>4 DEF Intervals
<1>4. DOMAIN Low(t) = 1..Len(Ranges[t]) /\ DOMAIN Ranges[t] = 1..Len(Ranges[t])
  BY <1>2 DEF Low
<1>5. Low(t) \in Seq(Int)
  <2>1. Low(t) = [k \in 1..Len(Ranges[t]) |-> Low(t)[k]]
    BY <1>4 DEF Low
  <2> QED
    BY <1>2, <1>3, <1>4, <2>1
<1> QED
  BY <1>3, <1>4, <1>5 DEF Legal

-------------------------------------------------------------------------------
(* What the state holds.                                                       *)

\* What is written to the modem: the values a call gives, or none.
Commands == [fn : {"set", "query"}, type : Types, idx : 0..ClientIdxMax,
             values : Seq(Int), id : Nat]

\* The modem sends no error with a code, and nothing unasked for.
AnswerKinds == {"echo", "line", "ok", "error"}
Lines == [kind : AnswerKinds, name : {"QMTCFG"}, type : Types, values : Seq(Int), id : Nat]

\* Mapped to the properties' state: a call in progress is a set or a query of
\* a parameter there is, with values of the right number if it sets them.
CallOK ==
  /\ call.type \in Types
  /\ call.fn \in {"set", "query"}
  /\ call.values \in Seq(Int)
  /\ call.fn = "set" => Len(call.values) = Len(Ranges[call.type])

Row(type, values) ==
  values \in Seq(Int) /\ DOMAIN values = DOMAIN Ranges[type] /\ Legal(type, values)

\* TypeOK with what it rests on.
TypeInv ==
  /\ pc \in {"idle", "read"}
  /\ nextId \in Nat /\ debt \in BOOLEAN
  /\ call = NoCall \/ CallOK
  /\ pc = "read" => CallOK
  /\ cfg \in [Clients -> [Types -> Seq(Int)]]
  /\ \A i \in Clients, t \in Types : Row(t, cfg[i][t])
  /\ tx \in Seq(Commands) /\ \A k \in DOMAIN tx : Legal(tx[k].type, tx[k].values)
  /\ rx \in Seq(Lines)
  /\ response # NoResponse => CallOK /\ DOMAIN response = DOMAIN Fields[call.type]

LEMMA TypeInvImplies == TypeInv => TypeOK
<1>1. SUFFICES ASSUME TypeInv PROVE TypeOK
  OBVIOUS
<1>2. call.fn \in {"none", "set", "query"}
  BY <1>1 DEF TypeInv, CallOK, NoCall
<1>3. \A k \in DOMAIN rx : rx[k].kind \in Kinds
  <2>1. \A k \in DOMAIN rx : rx[k] \in Lines
    BY <1>1 DEF TypeInv
  <2> QED
    BY <2>1 DEF Lines, AnswerKinds, Kinds, Echoes
<1>4. \A k \in DOMAIN tx : tx[k].idx \in 0..ClientIdxMax /\ Legal(tx[k].type, tx[k].values)
  <2>1. \A k \in DOMAIN tx : tx[k] \in Commands
    BY <1>1 DEF TypeInv
  <2> QED
    BY <1>1, <2>1 DEF TypeInv, Commands
<1> QED
  BY <1>1, <1>2, <1>3, <1>4 DEF TypeInv, TypeOK, Row

LEMMA InitTypes == Init => TypeInv
<1>1. SUFFICES ASSUME Init PROVE TypeInv
  OBVIOUS
<1>2. \A t \in Types : Low(t) \in Seq(Int) /\ Row(t, Low(t))
  BY LowIsLegal, CfgAssumption DEF Row
<1>3. /\ cfg \in [Clients -> [Types -> Seq(Int)]]
      /\ \A i \in Clients, t \in Types : Row(t, cfg[i][t])
  BY <1>1, <1>2 DEF Init
<1>4. /\ tx \in Seq(Commands) /\ rx \in Seq(Lines)
      /\ \A k \in DOMAIN tx : Legal(tx[k].type, tx[k].values)
  BY <1>1 DEF Init
<1> QED
  BY <1>1, <1>3, <1>4 DEF Init, TypeInv

\* A call that begins: what it writes, if anything, is checked.
LEMMA BeginTypes ==
  ASSUME TypeInv,
         NEW fn \in {"set", "query"}, NEW type \in Types, NEW i \in 0..255,
         NEW values \in Seq(Int), fn = "set" => Len(values) = Len(Ranges[type]),
         NEW written \in Seq(Int), NEW command,
         command.err = "ESP_OK" => i <= ClientIdxMax /\ Legal(type, written),
         Begin(fn, type, i, values, written, command)
  PROVE  TypeInv'
<1> USE DEF TypeInv
<1>1. /\ nextId' \in Nat /\ response' = NoResponse
      /\ call' = [fn |-> fn, type |-> type, idx |-> i, values |-> values, id |-> nextId]
      /\ cfg' = cfg
  BY DEF Begin
<1>2. CallOK'
  BY <1>1 DEF CallOK
<1>3. \A k \in Clients, t \in Types : Row(t, cfg'[k][t])
  BY <1>1
<1>4. CASE command.err # "ESP_OK"
  <2>1. UNCHANGED <<pc, tx, rx, debt>>
    BY <1>4 DEF Begin
  <2>2. pc' = "idle"
    BY <2>1 DEF Begin
  <2> QED
    BY <1>1, <1>2, <1>3, <2>1, <2>2
<1>5. CASE command.err = "ESP_OK"
  <2> DEFINE c == Command(fn, type, i, written)
  <2>1. PICK w \in HwWriteOutcomes :
          /\ tx' = IF w.sent THEN Append(tx, c) ELSE tx
          /\ rx' = IF w.flushed THEN <<>> ELSE rx
          /\ pc' = IF w.err = "ESP_OK" THEN "read" ELSE "idle"
          /\ debt' = (debt \/ (w.err # "ESP_OK" /\ w.sent))
    BY <1>5 DEF Begin
  <2>2. i \in 0..ClientIdxMax
    BY <1>5 DEF ClientIdxMax
  <2>3. c \in Commands /\ Legal(c.type, c.values)
    BY <1>5, <2>2 DEF Commands, Command
  <2>4. tx' \in Seq(Commands) /\ \A k \in DOMAIN tx' : Legal(tx'[k].type, tx'[k].values)
    <3> HIDE DEF c
    <3>1. CASE w.sent
      <4>1. tx \in Seq(Commands) /\ tx' = Append(tx, c)
        BY <2>1, <3>1
      <4>2. /\ tx' \in Seq(Commands) /\ Len(tx) \in Nat /\ Len(tx') = Len(tx) + 1
            /\ \A k \in 1..Len(tx) : tx'[k] = tx[k]
            /\ tx'[Len(tx) + 1] = c
        BY <2>3, <4>1, AppendProperties
      <4>3. \A k \in DOMAIN tx' : (k \in DOMAIN tx /\ tx'[k] = tx[k]) \/ tx'[k] = c
        BY <4>1, <4>2
      <4> QED
        BY <2>3, <4>2, <4>3
    <3>2. CASE ~w.sent
      BY <2>1, <3>2
    <3> QED
      BY <3>1, <3>2
  <2>5. rx' \in Seq(Lines) /\ pc' \in {"idle", "read"} /\ debt' \in BOOLEAN
    <3>1. debt' \in BOOLEAN
      BY <2>1, Zenon
    <3> QED
      BY <2>1, <3>1
  <2> QED
    BY <1>1, <1>2, <1>3, <2>4, <2>5
<1> QED
  BY <1>4, <1>5

\* Each value a set gives was checked, and so was the client.
LEMMA SetTypes == ASSUME TypeInv, NEW type \in CfgTypes, Set(type) PROVE TypeInv'
<1>1. PICK i \in Idxs :
        /\ type \in Types
        /\ \E v \in Values[type] :
             Begin("set", type, i, v, WrittenValues(type, v),
                   SetConfig([type |-> type, idx |-> i, values |-> v,
                              topic |-> 20, message |-> 20]))
  BY DEF Set
<1>2. PICK v \in Values[type] :
       Begin("set", type, i, v, WrittenValues(type, v),
             SetConfig([type |-> type, idx |-> i, values |-> v, topic |-> 20, message |-> 20]))
  BY <1>1
<1>3. v \in Seq(Int) /\ Len(v) = Len(Ranges[type]) /\ i \in 0..255
  BY <1>1, CfgAssumption
<1>4. WrittenValues(type, v) \in Seq(Int)
  BY <1>3 DEF WrittenValues
<1> DEFINE a == [type |-> type, idx |-> i, values |-> v, topic |-> 20, message |-> 20]
<1>5. SetConfig(a).err = "ESP_OK" => i <= ClientIdxMax /\ Legal(type, WrittenValues(type, v))
  <2>1. a.idx > ClientIdxMax \/ ~InRange(a.type, WrittenValues(a.type, a.values))
          => SetConfig(a) = Invalid
    BY DEF SetConfig
  <2>2. a.idx = i /\ a.type = type /\ a.values = v
    OBVIOUS
  <2> HIDE DEF a
  <2>3. Invalid.err # "ESP_OK"
    BY DEF Invalid
  <2>4. ASSUME SetConfig(a).err = "ESP_OK"
        PROVE  ~(i > ClientIdxMax) /\ InRange(type, WrittenValues(type, v))
    BY <2>1, <2>2, <2>3, <2>4
  <2> QED
    <3>0. i \in Int /\ ClientIdxMax \in Int
      BY <1>3 DEF ClientIdxMax
    <3>1. ~(i > ClientIdxMax) => i <= ClientIdxMax
      BY <3>0
    <3>2. SetConfig(a).err = "ESP_OK" => Legal(type, WrittenValues(type, v))
      BY <2>4 DEF InRange, Legal
    <3> QED
      BY <2>4, <3>1, <3>2
<1> HIDE DEF a
<1>6. Begin("set", type, i, v, WrittenValues(type, v), SetConfig(a))
  BY <1>2 DEF a
<1> QED
  BY <1>1, <1>3, <1>4, <1>5, <1>6, BeginTypes

LEMMA QueryTypes == ASSUME TypeInv, NEW type \in CfgTypes, Query(type) PROVE TypeInv'
<1>1. PICK i \in Idxs :
        Begin("query", type, i, <<>>, <<>>, QueryConfig([type |-> type, idx |-> i]))
  BY DEF Query
<1>2. type \in Types
  BY <1>1 DEF Begin
<1>3. i \in 0..255
  BY CfgAssumption
<1> DEFINE a == [type |-> type, idx |-> i]
<1>4. QueryConfig(a).err = "ESP_OK" => i <= ClientIdxMax /\ Legal(type, <<>>)
  <2>1. a.idx > ClientIdxMax => QueryConfig(a) = Invalid
    BY DEF QueryConfig
  <2>2. a.idx = i
    OBVIOUS
  <2> HIDE DEF a
  <2> QED
    BY <1>3, <2>1, <2>2 DEF Invalid, Legal, ClientIdxMax
<1> HIDE DEF a
<1>5. Begin("query", type, i, <<>>, <<>>, QueryConfig(a))
  BY <1>1 DEF a
<1>6. <<>> \in Seq(Int) /\ "query" \in {"set", "query"} /\ ~("query" = "set")
  OBVIOUS
<1> QED
  BY <1>2, <1>3, <1>4, <1>5, <1>6, BeginTypes

LEMMA RestOfLines ==
  ASSUME NEW S, NEW s \in Seq(S), NEW n \in Nat
  PROVE  Rest(s, n) \in Seq(S)
BY SubSeqProperties DEF Rest

LEMMA JudgeTypes ==
  ASSUME TypeInv, CallOK, NEW lines
  PROVE  LET j == Judge(call, lines)
         IN  j.response = response \/ DOMAIN j.response = DOMAIN Fields[call.type]
BY DEF Judge, LoadAll

LEMMA FinishTypes == ASSUME TypeInv, Finish PROVE TypeInv'
<1>1. PICK n \in Reads(rx, "QMTCFG", "DATA_OPTIONAL") :
        /\ pc' = "idle" /\ response' = Judge(call, SubSeq(rx, 1, n)).response
        /\ rx' = Rest(rx, n)
  BY DEF Finish
<1>2. UNCHANGED <<call, tx, cfg, nextId, debt>> /\ CallOK
  BY DEF Finish, TypeInv
<1>3. CallOK'
  BY <1>2 DEF CallOK
<1>4. rx' \in Seq(Lines)
  BY <1>1, RestOfLines DEF TypeInv, Reads
<1>5. response' = response \/ DOMAIN response' = DOMAIN Fields[call.type]
  BY <1>1, <1>2, JudgeTypes
<1>6. \A i \in Clients, t \in Types : Row(t, cfg'[i][t])
  BY <1>2 DEF TypeInv
<1> QED
  BY <1>1, <1>2, <1>3, <1>4, <1>5, <1>6 DEF TypeInv

LEMMA GiveUpTypes == ASSUME TypeInv, GiveUp PROVE TypeInv'
<1>1. UNCHANGED <<call, response, tx, cfg, nextId>> /\ pc' = "idle" /\ debt' = TRUE
  BY DEF GiveUp
<1>2. \E n \in Nat : rx' = Rest(rx, n) \/ rx' = rx
  BY DEF GiveUp, ReadsInVain, Overflows, TypeInv
<1>3. rx' \in Seq(Lines)
  BY <1>2, RestOfLines DEF TypeInv
<1>4. (call = NoCall \/ CallOK)' /\ (response' # NoResponse => CallOK')
  BY <1>1 DEF CallOK, TypeInv
<1>5. \A i \in Clients, t \in Types : Row(t, cfg'[i][t])
  BY <1>1 DEF TypeInv
<1> QED
  BY <1>1, <1>3, <1>4, <1>5 DEF TypeInv

\* What the modem answers.
LEMMA AnswerTypes ==
  ASSUME TypeInv, NEW c \in Commands, NEW lines \in Seq(Lines)
  PROVE  Answer(c, lines) \in Seq(Lines) /\ rx \o Answer(c, lines) \in Seq(Lines)
<1>1. Line("echo", c, <<>>) \in Lines
  BY DEF Line, Lines, AnswerKinds, Commands
<1>2. <<Line("echo", c, <<>>)>> \in Seq(Lines)
  BY <1>1
<1>3. Answer(c, lines) \in Seq(Lines)
  BY <1>2 DEF Answer
<1>4. rx \in Seq(Lines)
  BY DEF TypeInv
<1> QED
  BY <1>3, <1>4, ConcatProperties

LEMMA ModemTakesTypes == ASSUME TypeInv, ModemTakes PROVE TypeInv'
<1> DEFINE c == Head(tx)
           ok == <<Line("ok", c, <<>>)>>
           row == cfg[c.idx][c.type]
           new == [k \in DOMAIN row |-> IF k \in DOMAIN c.values THEN c.values[k] ELSE row[k]]
           toldLine == Line("line", c, Told(c.type, row))
<1>1. UNCHANGED <<pc, call, status, response, nextId, debt>> /\ tx # <<>> /\ tx' = Tail(tx)
  BY DEF ModemTakes
<1>2. c \in Commands /\ Legal(c.type, c.values)
  BY <1>1 DEF TypeInv
<1>3. tx' \in Seq(Commands) /\ \A k \in DOMAIN tx' : Legal(tx'[k].type, tx'[k].values)
  BY <1>1 DEF TypeInv
<1>4. ok \in Seq(Lines)
  BY <1>2 DEF Line, Lines, AnswerKinds, Commands
<1>5. \/ /\ c.idx \in Clients
         /\ cfg' = [cfg EXCEPT ![c.idx][c.type] = new]
         /\ rx' = rx \o Answer(c, ok)
      \/ /\ c.idx \in Clients
         /\ rx' = rx \o Answer(c, <<toldLine>> \o ok)
         /\ cfg' = cfg
      \/ /\ rx' \in {rx, rx \o Answer(c, <<Line("error", c, <<>>)>>)}
         /\ cfg' = cfg
  BY DEF ModemTakes
<1>6. /\ cfg' \in [Clients -> [Types -> Seq(Int)]]
      /\ \A i \in Clients, t \in Types : Row(t, cfg'[i][t])
  <2>1. CASE cfg' = cfg
    BY <2>1 DEF TypeInv
  <2>2. CASE c.idx \in Clients /\ cfg' = [cfg EXCEPT ![c.idx][c.type] = new]
    <3>1. c.type \in Types /\ c.values \in Seq(Int)
      BY <1>2 DEF Commands
    <3>2. row \in Seq(Int) /\ Row(c.type, row)
      BY <2>2, <3>1 DEF TypeInv
    <3>3. ASSUME NEW k \in DOMAIN new PROVE new[k] \in Int /\ new[k] \in Ranges[c.type][k]
      <4>1. k \in DOMAIN row /\ new[k] = IF k \in DOMAIN c.values THEN c.values[k] ELSE row[k]
        OBVIOUS
      <4> HIDE DEF new
      <4>2. CASE k \in DOMAIN c.values
        BY <1>2, <3>1, <4>1, <4>2 DEF Legal
      <4>3. CASE k \notin DOMAIN c.values
        BY <3>2, <4>1, <4>3 DEF Row, Legal
      <4> QED
        BY <4>2, <4>3
    <3>4. new \in Seq(Int)
      <4>1. DOMAIN new = 1..Len(row)
        BY <3>2
      <4>2. new \in [1..Len(row) -> Int]
        BY <3>3, <4>1
      <4>3. Len(row) \in Nat
        BY <3>2
      <4> HIDE DEF new
      <4> QED
        BY <4>2, <4>3
    <3>5. Row(c.type, new)
      BY <3>2, <3>3, <3>4 DEF Row, Legal
    <3> HIDE DEF new
    <3>6. \A i \in Clients, t \in Types :
            cfg'[i][t] = IF i = c.idx /\ t = c.type THEN new ELSE cfg[i][t]
      BY <2>2, <3>1 DEF TypeInv
    <3>7. cfg' \in [Clients -> [Types -> Seq(Int)]]
      BY <2>2, <3>1, <3>4 DEF TypeInv
    <3> QED
      BY <3>5, <3>6, <3>7 DEF TypeInv
  <2> QED
    BY <1>5, <2>1, <2>2
<1>7. rx' \in Seq(Lines)
  <2>1. CASE rx' = rx
    BY <2>1 DEF TypeInv
  <2>2. CASE rx' = rx \o Answer(c, ok)
    <3> HIDE DEF c, ok
    <3> QED
      BY <1>2, <1>4, <2>2, AnswerTypes
  <2>3. CASE c.idx \in Clients /\ rx' = rx \o Answer(c, <<toldLine>> \o ok)
    <3>1. row \in Seq(Int)
      BY <1>2, <2>3 DEF TypeInv, Commands
    <3>2. Told(c.type, row) \in Seq(Int)
      BY <3>1 DEF Told
    <3>3. toldLine \in Lines
      BY <1>2, <3>2 DEF Line, Lines, AnswerKinds, Commands
    <3> HIDE DEF c, toldLine, ok
    <3>4. <<toldLine>> \o ok \in Seq(Lines)
      BY <1>4, <3>3
    <3> QED
      BY <1>2, <2>3, <3>4, AnswerTypes
  <2>4. CASE rx' = rx \o Answer(c, <<Line("error", c, <<>>)>>)
    <3>1. <<Line("error", c, <<>>)>> \in Seq(Lines)
      BY <1>2 DEF Line, Lines, AnswerKinds, Commands
    <3> HIDE DEF c
    <3> QED
      BY <1>2, <2>4, <3>1, AnswerTypes
  <2> QED
    BY <1>5, <2>1, <2>2, <2>3, <2>4
<1>8. CallOK' <=> CallOK
  BY <1>1 DEF CallOK
<1> QED
  BY <1>1, <1>3, <1>6, <1>7, <1>8 DEF TypeInv

\* The fourteen calls are a set and a query of each parameter.
LEMMA NextIsCall ==
  Next => \/ \E type \in CfgTypes : Set(type) \/ Query(type)
          \/ Finish \/ GiveUp \/ ModemTakes
BY DEF Next, CfgTypes, SetPdpContext, SetSsl, SetKeepalive, SetSession, SetTimeout, SetWill,
       SetRecvMode, QueryPdpContext, QuerySsl, QueryKeepalive, QuerySession, QueryTimeout,
       QueryWill, QueryRecvMode

LEMMA StepTypes == TypeInv /\ [Next]_vars => TypeInv'
<1>1. SUFFICES ASSUME TypeInv, [Next]_vars PROVE TypeInv'
  OBVIOUS
<1>2. CASE \E type \in CfgTypes : Set(type) \/ Query(type)
  BY <1>1, <1>2, SetTypes, QueryTypes
<1>3. CASE Finish
  BY <1>1, <1>3, FinishTypes
<1>4. CASE GiveUp
  BY <1>1, <1>4, GiveUpTypes
<1>5. CASE ModemTakes
  BY <1>1, <1>5, ModemTakesTypes
<1>6. CASE UNCHANGED vars
  <2>1. CallOK' <=> CallOK
    BY <1>6 DEF CallOK, vars
  <2>2. \A k \in Clients, t \in Types : Row(t, cfg'[k][t])
    BY <1>1, <1>6 DEF TypeInv, vars
  <2> QED
    BY <1>1, <1>6, <2>1, <2>2 DEF TypeInv, vars
<1> QED
  BY <1>1, <1>2, <1>3, <1>4, <1>5, <1>6, NextIsCall

LEMMA AlwaysTypes == Spec => []TypeInv
BY InitTypes, StepTypes, PTL DEF Spec

\* The state keeps its types, and nothing is written to the modem that is out of
\* range: neither a client index nor a value, whatever the application passes.
THEOREM TypesAndRanges == Spec => []TypeOK
BY AlwaysTypes, TypeInvImplies, PTL

-------------------------------------------------------------------------------
(* A set that succeeds.                                                        *)

\* The values of call c are the modem's.
Taken(c) ==
  \A k \in DOMAIN c.values :
    (c.type = "will" /\ c.values[1] = 0 => k = 1) => cfg[c.idx][c.type][k] = c.values[k]

\* The command of the call in progress: its number is the last one given.
Written ==
  [fn |-> call.fn, type |-> call.type, idx |-> call.idx,
   values |-> IF call.fn = "set" THEN WrittenValues(call.type, call.values) ELSE <<>>,
   id |-> call.id]

\* Only the last of the lines ends a response.
LastEnds(lines) ==
  \A k \in DOMAIN lines : lines[k].kind \in {"ok", "error"} => k = Len(lines)

\* Nothing is on its way while no call is in progress; what is, is the one
\* command or its answer, and a set that was answered OK was done.
InStep ==
  /\ pc = "idle" => tx = <<>> /\ rx = <<>>
  /\ pc = "read" =>
       \/ tx = <<Written>> /\ rx = <<>>
       \/ tx = <<>> /\ LastEnds(rx) /\ (call.fn = "set" /\ HasKind(rx, "ok") => Taken(call))

SetInv == ~debt => InStep /\ (Succeeded("set") => Taken(call))

LEMMA SetInvImplies == SetInv => SetTakesEffect
BY DEF SetInv, SetTakesEffect, Taken

LEMMA InitInStep == Init => SetInv
BY DEF Init, SetInv, InStep, Succeeded, NoCall

LEMMA BeginInStep ==
  ASSUME TypeInv, SetInv,
         NEW fn \in {"set", "query"}, NEW type \in Types, NEW i, NEW values,
         NEW command,
         Begin(fn, type, i, values, IF fn = "set" THEN WrittenValues(type, values) ELSE <<>>,
               command)
  PROVE  SetInv'
<1> DEFINE written == IF fn = "set" THEN WrittenValues(type, values) ELSE <<>>
<1>1. /\ pc = "idle"
      /\ call' = [fn |-> fn, type |-> type, idx |-> i, values |-> values, id |-> nextId]
  BY DEF Begin
<1>2. CASE command.err # "ESP_OK"
  <2>1. status' = command.err /\ UNCHANGED <<pc, tx, rx, debt>>
    BY <1>2 DEF Begin
  <2> QED
    BY <1>1, <1>2, <2>1 DEF SetInv, InStep, Succeeded
<1>3. CASE command.err = "ESP_OK"
  <2>1. PICK w \in HwWriteOutcomes :
          /\ tx' = IF w.sent THEN Append(tx, Command(fn, type, i, written)) ELSE tx
          /\ rx' = IF w.flushed THEN <<>> ELSE rx
          /\ pc' = IF w.err = "ESP_OK" THEN "read" ELSE "idle"
          /\ status' = IF w.err = "ESP_OK" THEN "none" ELSE w.err
          /\ debt' = (debt \/ (w.err # "ESP_OK" /\ w.sent))
    BY <1>3 DEF Begin
  <2>2. status' # "ESP_OK"
    BY <2>1
  <2>3. SUFFICES ASSUME ~debt' PROVE InStep'
    BY <2>2 DEF SetInv, Succeeded
  <2>4. ~debt /\ ~(w.err # "ESP_OK" /\ w.sent)
    BY <2>1, <2>3
  <2>5. tx = <<>> /\ rx = <<>>
    BY <1>1, <2>4 DEF SetInv, InStep
  <2>6. rx' = <<>>
    BY <2>1, <2>5
  <2>7. CASE w.err = "ESP_OK"
    <3>1. w.sent
      BY <2>7 DEF HwWriteOutcomes
    <3>2. tx' = <<Command(fn, type, i, written)>>
      BY <2>1, <2>5, <3>1
    <3>3. Written' = Command(fn, type, i, written)
      BY <1>1 DEF Written, Command
    <3> QED
      BY <2>1, <2>6, <2>7, <3>2, <3>3 DEF InStep
  <2>8. CASE w.err # "ESP_OK"
    BY <2>1, <2>4, <2>5, <2>6, <2>8 DEF InStep
  <2> QED
    BY <2>7, <2>8
<1> QED
  BY <1>2, <1>3

LEMMA CallsInStep ==
  ASSUME TypeInv, SetInv, NEW type \in CfgTypes, Set(type) \/ Query(type) PROVE SetInv'
<1>1. CASE Set(type)
  <2>1. PICK i \in Idxs : type \in Types /\ \E v \in Values[type] :
          Begin("set", type, i, v, WrittenValues(type, v),
                SetConfig([type |-> type, idx |-> i, values |-> v, topic |-> 20, message |-> 20]))
    BY <1>1 DEF Set
  <2>2. PICK v \in Values[type] :
          Begin("set", type, i, v, WrittenValues(type, v),
                SetConfig([type |-> type, idx |-> i, values |-> v, topic |-> 20, message |-> 20]))
    BY <2>1
  <2>3. PICK command : Begin("set", type, i, v, WrittenValues(type, v), command)
    BY <2>2
  <2>4. Begin("set", type, i, v, IF "set" = "set" THEN WrittenValues(type, v) ELSE <<>>, command)
    BY <2>3
  <2> QED
    BY <2>1, <2>4, BeginInStep
<1>2. CASE Query(type)
  <2>1. PICK i \in Idxs :
          Begin("query", type, i, <<>>, <<>>, QueryConfig([type |-> type, idx |-> i]))
    BY <1>2 DEF Query
  <2>2. type \in Types
    BY <2>1 DEF Begin
  <2>3. PICK command : Begin("query", type, i, <<>>, <<>>, command)
    BY <2>1
  <2>4. Begin("query", type, i, <<>>,
              IF "query" = "set" THEN WrittenValues(type, <<>>) ELSE <<>>, command)
    BY <2>3
  <2> QED
    BY <2>2, <2>4, BeginInStep
<1> QED
  BY <1>1, <1>2

\* Until a call gives up, a call that completes has read all there is.
LEMMA FinishReads ==
  ASSUME TypeInv, SetInv, Finish, ~debt
  PROVE  /\ tx = <<>> /\ LastEnds(rx) /\ (call.fn = "set" /\ HasKind(rx, "ok") => Taken(call))
         /\ rx' = <<>>
         /\ status' = Judge(call, rx).err /\ response' = Judge(call, rx).response
         /\ status' = "ESP_OK" => HasKind(rx, "ok")
<1>1. PICK n \in Reads(rx, "QMTCFG", "DATA_OPTIONAL") :
        /\ status' = Judge(call, SubSeq(rx, 1, n)).err
        /\ response' = Judge(call, SubSeq(rx, 1, n)).response
        /\ rx' = Rest(rx, n)
  BY DEF Finish
<1>2. pc = "read"
  BY DEF Finish
<1>3. rx \in Seq(Lines) /\ n \in 1..Len(rx)
      /\ HasCommandTerminated(SubSeq(rx, 1, n), "QMTCFG", "DATA_OPTIONAL")
  BY DEF TypeInv, Reads, Complete
<1> DEFINE read == SubSeq(rx, 1, n)
<1>4. Len(read) = n /\ DOMAIN read = 1..n /\ \A k \in 1..n : read[k] = rx[k]
  BY <1>3, SubSeqProperties
<1>5. \A k \in DOMAIN rx : rx[k].kind \in AnswerKinds
  <2>1. \A k \in DOMAIN rx : rx[k] \in Lines
    BY <1>3
  <2> QED
    BY <2>1 DEF Lines
<1> HIDE DEF read
<1>6. \E k \in 1..n : rx[k].kind \in {"ok", "error"}
  <2>1. HasKind(read, "error") \/ HasKind(read, "cme") \/ HasKind(read, "ok")
    BY <1>3 DEF HasCommandTerminated, read
  <2> QED
    BY <1>3, <1>4, <1>5, <2>1 DEF HasKind, AnswerKinds
<1>7. rx # <<>>
  BY <1>3
<1>8. tx = <<>> /\ LastEnds(rx) /\ (call.fn = "set" /\ HasKind(rx, "ok") => Taken(call))
  BY <1>2, <1>7 DEF SetInv, InStep
<1>9. n = Len(rx)
  BY <1>3, <1>6, <1>8 DEF LastEnds
<1>10. rx' = <<>> /\ SubSeq(rx, 1, n) = rx
  <2>1. rx' = <<>>
    BY <1>1, <1>3, <1>9, SubSeqEmpty DEF Rest
  <2>2. SubSeq(rx, 1, Len(rx)) = rx
    BY <1>3, SubSeqFull
  <2> QED BY <1>9, <2>1, <2>2
<1>11. status' = Judge(call, rx).err /\ response' = Judge(call, rx).response
  BY <1>1, <1>10
<1>12. ASSUME status' = "ESP_OK" PROVE HasKind(rx, "ok")
  <2>1. BasicResponseIsOk(rx)
    BY <1>11, <1>12 DEF Judge
  <2> QED
    BY <1>5, <2>1 DEF BasicResponseIsOk, WithOk, AnswerKinds, HasKind
<1> QED
  BY <1>8, <1>10, <1>11, <1>12

\* Its OK is the answer's.
LEMMA FinishInStep == ASSUME TypeInv, SetInv, Finish PROVE SetInv'
<1>1. UNCHANGED <<call, tx, cfg, debt>> /\ pc' = "idle"
  BY DEF Finish
<1>2. SUFFICES ASSUME ~debt PROVE InStep' /\ (Succeeded("set") => Taken(call))'
  BY <1>1 DEF SetInv
<1>3. /\ tx = <<>> /\ rx' = <<>> /\ (call.fn = "set" /\ HasKind(rx, "ok") => Taken(call))
      /\ status' = "ESP_OK" => HasKind(rx, "ok")
  BY <1>2, FinishReads
<1>4. InStep'
  BY <1>1, <1>3 DEF InStep
<1>5. Taken(call) => Taken(call)'
  BY <1>1 DEF Taken
<1> QED
  BY <1>1, <1>3, <1>4, <1>5 DEF Succeeded

\* Lines that end nothing may stand before those that do.
LEMMA EndsAfter ==
  ASSUME NEW a \in Seq(Lines), NEW b \in Seq(Lines), LastEnds(b),
         \A k \in DOMAIN a : a[k].kind \notin {"ok", "error"}
  PROVE  LastEnds(a \o b) /\ (HasKind(a \o b, "ok") => HasKind(b, "ok"))
<1> DEFINE s == a \o b
<1>1. /\ s \in Seq(Lines) /\ Len(s) = Len(a) + Len(b)
      /\ \A k \in 1..(Len(a) + Len(b)) : s[k] = IF k <= Len(a) THEN a[k] ELSE b[k - Len(a)]
  BY ConcatProperties
<1> HIDE DEF s
<1>2. ASSUME NEW k \in DOMAIN s, s[k].kind \in {"ok", "error"}
      PROVE  k - Len(a) \in DOMAIN b /\ s[k] = b[k - Len(a)]
  BY <1>1, <1>2
<1>3. LastEnds(s)
  <2>1. SUFFICES ASSUME NEW k \in DOMAIN s, s[k].kind \in {"ok", "error"} PROVE k = Len(s)
    BY DEF LastEnds
  <2>2. k - Len(a) = Len(b)
    BY <1>2, <2>1 DEF LastEnds
  <2> QED
    BY <1>1, <2>1, <2>2
<1>4. HasKind(s, "ok") => HasKind(b, "ok")
  BY <1>2 DEF HasKind
<1> QED
  BY <1>3, <1>4 DEF s

\* The echo before an answer changes nothing in that.
LEMMA AnswerEnds ==
  ASSUME NEW c \in Commands, NEW lines \in Seq(Lines), LastEnds(lines)
  PROVE  LastEnds(Answer(c, lines)) /\ (HasKind(Answer(c, lines), "ok") => HasKind(lines, "ok"))
<1> DEFINE e == Line("echo", c, <<>>)
           before == IF Echo THEN <<e>> ELSE <<>>
<1>1. e \in Lines /\ e.kind = "echo"
  BY DEF Line, Lines, AnswerKinds, Commands
<1>2. Answer(c, lines) = before \o lines
  BY DEF Answer
<1> HIDE DEF e
<1>3. before \in Seq(Lines) /\ \A k \in DOMAIN before : before[k].kind \notin {"ok", "error"}
  BY <1>1, CfgAssumption
<1> HIDE DEF before
<1> QED
  BY <1>2, <1>3, EndsAfter

\* The modem takes up the one command there can be: the answer is that of the
\* call in progress, and an OK to a set follows the doing.
LEMMA ModemTakesInStep == ASSUME TypeInv, SetInv, ModemTakes PROVE SetInv'
<1> DEFINE c == Head(tx)
           ok == <<Line("ok", c, <<>>)>>
           fault == <<Line("error", c, <<>>)>>
           row == cfg[c.idx][c.type]
           new == [k \in DOMAIN row |-> IF k \in DOMAIN c.values THEN c.values[k] ELSE row[k]]
           toldLine == Line("line", c, Told(c.type, row))
<1>1. UNCHANGED <<pc, call, status, response, nextId, debt>> /\ tx # <<>> /\ tx' = Tail(tx)
  BY DEF ModemTakes
<1>2. SUFFICES ASSUME ~debt PROVE InStep' /\ (Succeeded("set") => Taken(call))'
  BY <1>1 DEF SetInv
<1>3. pc = "read" /\ tx = <<Written>> /\ rx = <<>> /\ CallOK
  BY <1>1, <1>2 DEF SetInv, InStep, TypeInv
<1>4. c = Written /\ tx' = <<>> /\ pc' = "read" /\ ~Succeeded("set")'
  BY <1>1, <1>3 DEF Succeeded
<1>5. c \in Commands
  BY <1>1 DEF TypeInv
<1>6. \/ /\ c.fn = "set" /\ c.idx \in Clients
         /\ cfg' = [cfg EXCEPT ![c.idx][c.type] = new]
         /\ rx' = rx \o Answer(c, ok)
      \/ /\ c.fn = "query" /\ c.idx \in Clients
         /\ rx' = rx \o Answer(c, <<toldLine>> \o ok)
         /\ cfg' = cfg
      \/ /\ rx' \in {rx, rx \o Answer(c, fault)}
         /\ cfg' = cfg
  BY DEF ModemTakes
<1>7. /\ ok \in Seq(Lines) /\ LastEnds(ok)
      /\ fault \in Seq(Lines) /\ LastEnds(fault) /\ ~HasKind(fault, "ok")
  BY <1>5 DEF Line, Lines, AnswerKinds, Commands, LastEnds, HasKind
<1>8. \A s \in Seq(Lines) : rx \o s = s
  BY <1>3, ConcatEmptySeq
<1>9. SUFFICES LastEnds(rx') /\ (call'.fn = "set" /\ HasKind(rx', "ok") => Taken(call)')
  BY <1>4 DEF InStep
<1>10. c.type \in Types /\ c.type = call.type /\ c.fn = call.fn /\ c.idx = call.idx
  BY <1>4, <1>5 DEF Written, Commands
<1>11. CASE c.fn = "set" /\ c.idx \in Clients /\ cfg' = [cfg EXCEPT ![c.idx][c.type] = new]
              /\ rx' = rx \o Answer(c, ok)
  <2>1. LastEnds(rx')
    <3> HIDE DEF c, ok
    <3>1. Answer(c, ok) \in Seq(Lines) /\ LastEnds(Answer(c, ok))
      BY <1>5, <1>7, AnswerEnds, AnswerTypes
    <3>2. rx' = Answer(c, ok)
      BY <1>8, <1>11, <3>1
    <3> QED
      BY <3>1, <3>2
  <2>2. cfg'[c.idx][c.type] = new /\ DOMAIN new = DOMAIN Ranges[c.type]
    <3> HIDE DEF new
    <3>1. cfg'[c.idx][c.type] = new
      BY <1>10, <1>11 DEF TypeInv
    <3>2. DOMAIN row = DOMAIN Ranges[c.type]
      BY <1>10, <1>11 DEF TypeInv, Row
    <3> QED
      BY <3>1, <3>2 DEF new
  <2>3. ASSUME NEW k \in DOMAIN call.values, call.type = "will" /\ call.values[1] = 0 => k = 1
        PROVE  new[k] = call.values[k]
    <3>1. c.values = WrittenValues(call.type, call.values)
      <4>1. call.fn = "set"
        BY <1>10, <1>11
      <4>2. Written.values = WrittenValues(call.type, call.values)
        BY <4>1 DEF Written
      <4> HIDE DEF c
      <4> QED
        BY <1>4, <4>2
    <3>2. k \in DOMAIN c.values /\ c.values[k] = call.values[k]
      BY <2>3, <3>1 DEF WrittenValues
    <3>3. k \in DOMAIN row
      <4>1. call.values \in Seq(Int) /\ Len(call.values) = Len(Ranges[call.type])
        BY <1>3, <1>10, <1>11 DEF CallOK
      <4>2. Ranges[call.type] \in Seq(Intervals)
        BY <1>10, RangesAreIntervals, CfgAssumption
      <4>3. k \in DOMAIN Ranges[call.type]
        BY <2>3, <4>1, <4>2
      <4>4. DOMAIN row = DOMAIN Ranges[call.type]
        BY <1>10, <2>2
      <4> QED
        BY <4>3, <4>4
    <3> QED
      BY <3>2, <3>3
  <2>4. Taken(call)'
    <3> HIDE DEF c, new
    <3>1. SUFFICES ASSUME NEW k \in DOMAIN call.values,
                          call.type = "will" /\ call.values[1] = 0 => k = 1
                   PROVE  cfg'[call.idx][call.type][k] = call.values[k]
      BY <1>1 DEF Taken
    <3> QED
      BY <1>10, <2>2, <2>3, <3>1
  <2> QED
    BY <2>1, <2>4
<1>12. CASE c.fn = "query" /\ c.idx \in Clients /\ rx' = rx \o Answer(c, <<toldLine>> \o ok)
  <2>1. toldLine \in Lines /\ toldLine.kind = "line"
    <3>1. row \in Seq(Int)
      BY <1>10, <1>12 DEF TypeInv
    <3>2. Told(c.type, row) \in Seq(Int)
      BY <3>1 DEF Told
    <3> QED
      BY <1>5, <3>2 DEF Line, Lines, AnswerKinds, Commands
  <2> HIDE DEF c, ok, toldLine
  <2>2. <<toldLine>> \in Seq(Lines)
        /\ \A k \in DOMAIN <<toldLine>> : <<toldLine>>[k].kind \notin {"ok", "error"}
    BY <2>1
  <2>3. <<toldLine>> \o ok \in Seq(Lines) /\ LastEnds(<<toldLine>> \o ok)
    BY <1>7, <2>2, EndsAfter, ConcatProperties
  <2>4. /\ Answer(c, <<toldLine>> \o ok) \in Seq(Lines)
        /\ LastEnds(Answer(c, <<toldLine>> \o ok))
    BY <1>5, <2>3, AnswerEnds, AnswerTypes
  <2>5. rx' = Answer(c, <<toldLine>> \o ok)
    BY <1>8, <1>12, <2>4
  <2>6. call'.fn # "set"
    BY <1>1, <1>10, <1>12
  <2> QED
    BY <2>4, <2>5, <2>6
<1>13. CASE rx' \in {rx, rx \o Answer(c, fault)}
  <2>1. CASE rx' = rx
    BY <1>3, <2>1 DEF LastEnds, HasKind
  <2>2. CASE rx' = rx \o Answer(c, fault)
    <3> HIDE DEF c, fault
    <3>1. /\ Answer(c, fault) \in Seq(Lines) /\ LastEnds(Answer(c, fault))
          /\ ~HasKind(Answer(c, fault), "ok")
      BY <1>5, <1>7, AnswerEnds, AnswerTypes
    <3>2. rx' = Answer(c, fault)
      BY <1>8, <2>2, <3>1
    <3> QED
      BY <3>1, <3>2
  <2> QED
    BY <1>13, <2>1, <2>2
<1> QED
  BY <1>6, <1>11, <1>12, <1>13

LEMMA StepInStep == TypeInv /\ SetInv /\ [Next]_vars => SetInv'
<1>1. SUFFICES ASSUME TypeInv, SetInv, [Next]_vars PROVE SetInv'
  OBVIOUS
<1>2. CASE \E type \in CfgTypes : Set(type) \/ Query(type)
  BY <1>1, <1>2, CallsInStep
<1>3. CASE Finish
  BY <1>1, <1>3, FinishInStep
<1>4. CASE GiveUp
  BY <1>4 DEF GiveUp, SetInv
<1>5. CASE ModemTakes
  BY <1>1, <1>5, ModemTakesInStep
<1>6. CASE UNCHANGED vars
  BY <1>1, <1>6 DEF vars, SetInv, InStep, Succeeded, Taken, Written
<1> QED
  BY <1>1, <1>2, <1>3, <1>4, <1>5, <1>6, NextIsCall

LEMMA AlwaysInStep == Spec => []SetInv
BY AlwaysTypes, InitInStep, StepInStep, PTL DEF Spec

\* Until a call gives up, a set that returns success (bg95_mqtt_config_set_*) has
\* made every value the caller gave the modem's.
THEOREM SetsTakeEffect == Spec => []SetTakesEffect
BY AlwaysInStep, SetInvImplies, PTL

-------------------------------------------------------------------------------
(* The union a response is parsed into.                                        *)

\* The fields of a structure lie side by side below its flags, and one byte is
\* enough for the values of those that have one.
Placed(t) ==
  /\ Fields[t] \in Seq([at : Nat, width : {1, 2, 4}])
  /\ Len(Fields[t]) \in 1..3 /\ Len(Fields[t]) = Len(Ranges[t]) /\ PresentAt[t] \in Bytes
  /\ \A k \in DOMAIN Fields[t] :
       /\ Fields[t][k].at + Fields[t][k].width <= PresentAt[t]
       /\ Fields[t][k].at + Fields[t][k].width <= 12
  /\ \A j, k \in DOMAIN Fields[t] :
       j < k => Fields[t][j].at + Fields[t][j].width <= Fields[t][k].at

LEMMA PlacedOne ==
  ASSUME NEW t, NEW r, Ranges[t] = <<r>>,
         NEW w \in {1, 2, 4}, Fields[t] = <<[at |-> 0, width |-> w]>>,
         PresentAt[t] \in 0..11, w <= PresentAt[t]
  PROVE  Placed(t)
<1>1. [at |-> 0, width |-> w] \in [at : Nat, width : {1, 2, 4}]
  OBVIOUS
<1>2. Fields[t] \in Seq([at : Nat, width : {1, 2, 4}]) /\ Len(Fields[t]) = 1
      /\ Fields[t][1].at = 0 /\ Fields[t][1].width = w
  BY <1>1
<1> QED BY <1>2 DEF Placed, Bytes

LEMMA PlacedTwo ==
  ASSUME NEW t, NEW r, NEW q, Ranges[t] = <<r, q>>,
         NEW w \in {1, 2, 4}, NEW x \in {1, 2, 4},
         Fields[t] = <<[at |-> 0, width |-> w], [at |-> w, width |-> x]>>,
         PresentAt[t] \in 0..11, w + x <= PresentAt[t]
  PROVE  Placed(t)
<1> DEFINE F == [at : Nat, width : {1, 2, 4}]
<1>1. [at |-> 0, width |-> w] \in F /\ [at |-> w, width |-> x] \in F
  OBVIOUS
<1>2. Fields[t] \in Seq(F) /\ Len(Fields[t]) = 2
  BY <1>1
<1>3. /\ Fields[t][1].at = 0 /\ Fields[t][1].width = w
      /\ Fields[t][2].at = w /\ Fields[t][2].width = x
  OBVIOUS
<1>4. DOMAIN Fields[t] = {1, 2} /\ Len(Ranges[t]) = 2
  OBVIOUS
<1> QED BY <1>2, <1>3, <1>4 DEF Placed, Bytes

LEMMA PlacedThree ==
  ASSUME NEW t, NEW r, NEW q, NEW p, Ranges[t] = <<r, q, p>>,
         NEW w \in {1, 2, 4}, NEW x \in {1, 2, 4}, NEW y \in {1, 2, 4},
         NEW a \in Nat, NEW b \in Nat, w <= a, a + x <= b, b + y <= 12, b + y <= PresentAt[t],
         Fields[t] = <<[at |-> 0, width |-> w], [at |-> a, width |-> x], [at |-> b, width |-> y]>>,
         PresentAt[t] \in Bytes
  PROVE  Placed(t)
<1> DEFINE F == [at : Nat, width : {1, 2, 4}]
<1>1. /\ [at |-> 0, width |-> w] \in F /\ [at |-> a, width |-> x] \in F
      /\ [at |-> b, width |-> y] \in F
  OBVIOUS
<1>2. Fields[t] \in Seq(F) /\ Len(Fields[t]) = 3
  BY <1>1
<1>3. /\ Fields[t][1].at = 0 /\ Fields[t][1].width = w
      /\ Fields[t][2].at = a /\ Fields[t][2].width = x
      /\ Fields[t][3].at = b /\ Fields[t][3].width = y
  OBVIOUS
<1>4. DOMAIN Fields[t] = {1, 2, 3} /\ Len(Ranges[t]) = 3
  OBVIOUS
<1>5. PresentAt[t] \in Nat
  BY DEF Bytes
<1> QED BY <1>2, <1>3, <1>4, <1>5 DEF Placed

LEMMA FieldsArePlaced == ASSUME NEW t \in CfgTypes PROVE Placed(t)
<1>1. CASE t = "pdpcid"
  <2>1. /\ Ranges[t] = <<1..16>> /\ Fields[t] = <<[at |-> 0, width |-> 1]>> /\ PresentAt[t] = 1
    BY <1>1 DEF Ranges, Fields, PresentAt
  <2> QED BY <2>1, PlacedOne
<1>2. CASE t = "ssl"
  <2>1. /\ Ranges[t] = <<0..1, 0..5>> /\ PresentAt[t] = 5
        /\ Fields[t] = <<[at |-> 0, width |-> 4], [at |-> 4, width |-> 1]>>
    BY <1>2 DEF Ranges, Fields, PresentAt
  <2> QED BY <2>1, PlacedTwo
<1>3. CASE t = "keepalive"
  <2>1. /\ Ranges[t] = <<0..3600>> /\ Fields[t] = <<[at |-> 0, width |-> 2]>> /\ PresentAt[t] = 2
    BY <1>3 DEF Ranges, Fields, PresentAt
  <2> QED BY <2>1, PlacedOne
<1>4. CASE t = "session"
  <2>1. /\ Ranges[t] = <<0..1>> /\ Fields[t] = <<[at |-> 0, width |-> 4]>> /\ PresentAt[t] = 4
    BY <1>4 DEF Ranges, Fields, PresentAt
  <2> QED BY <2>1, PlacedOne
<1>5. CASE t = "timeout"
  <2>1. /\ Ranges[t] = <<1..60, 0..10, 0..1>> /\ PresentAt[t] = 8
        /\ Fields[t] = <<[at |-> 0, width |-> 1], [at |-> 1, width |-> 1],
                         [at |-> 4, width |-> 4]>>
    BY <1>5 DEF Ranges, Fields, PresentAt
  <2>2. PresentAt[t] \in Bytes
    BY <2>1 DEF Bytes
  <2> QED BY <2>1, <2>2, PlacedThree
<1>6. CASE t = "will"
  <2>1. /\ Ranges[t] = <<0..1, 0..2, 0..1>> /\ PresentAt[t] = 524
        /\ Fields[t] = <<[at |-> 0, width |-> 4], [at |-> 4, width |-> 4],
                         [at |-> 8, width |-> 4]>>
    BY <1>6 DEF Ranges, Fields, PresentAt
  <2>2. PresentAt[t] \in Bytes
    BY <2>1 DEF Bytes
  <2> QED BY <2>1, <2>2, PlacedThree
<1>7. CASE t = "recv_mode"
  <2>1. /\ Ranges[t] = <<0..1, 0..1>> /\ PresentAt[t] = 8
        /\ Fields[t] = <<[at |-> 0, width |-> 4], [at |-> 4, width |-> 4]>>
    BY <1>7 DEF Ranges, Fields, PresentAt
  <2> QED BY <2>1, PlacedTwo
<1> QED BY <1>1, <1>2, <1>3, <1>4, <1>5, <1>6, <1>7 DEF CfgTypes

\* A value in range fits its field.
Fits(v, w) == v <= 3600 /\ (w = 1 => v < 256)

LEMMA ValuesFit ==
  ASSUME NEW t \in CfgTypes, NEW k \in DOMAIN Ranges[t], NEW v \in Ranges[t][k]
  PROVE  v \in Nat /\ Fits(v, Fields[t][k].width)
<1> USE DEF Fits
<1>1. CASE t = "pdpcid"
  BY <1>1 DEF Ranges, Fields
<1>2. CASE t = "ssl"
  BY <1>2 DEF Ranges, Fields
<1>3. CASE t = "keepalive"
  <2>1. Ranges[t] = <<0..3600>> /\ Fields[t][k].width = 2
    BY <1>3 DEF Ranges, Fields
  <2>2. v \in 0..3600
    BY <2>1
  <2> HIDE DEF Ranges
  <2> QED BY <2>1, <2>2
<1>4. CASE t = "session"
  BY <1>4 DEF Ranges, Fields
<1>5. CASE t = "timeout"
  BY <1>5 DEF Ranges, Fields
<1>6. CASE t = "will"
  BY <1>6 DEF Ranges, Fields
<1>7. CASE t = "recv_mode"
  BY <1>7 DEF Ranges, Fields
<1> QED BY <1>1, <1>2, <1>3, <1>4, <1>5, <1>6, <1>7 DEF CfgTypes

\* The flags have a bit for each value stored.
LEMMA FlagOfValue ==
  ASSUME NEW n \in 1..3, NEW k \in 1..3
  PROVE  ((Bit[n + 1] - 1) \div Bit[k]) % 2 = IF k <= n THEN 1 ELSE 0
<1>1. Bit[1] = 1 /\ Bit[2] = 2 /\ Bit[3] = 4 /\ Bit[4] = 8
  BY DEF Bit
<1>2. CASE n = 1 /\ k = 1 BY <1>1, <1>2
<1>3. CASE n = 1 /\ k = 2 BY <1>1, <1>3
<1>4. CASE n = 1 /\ k = 3 BY <1>1, <1>4
<1>5. CASE n = 2 /\ k = 1 BY <1>1, <1>5
<1>6. CASE n = 2 /\ k = 2 BY <1>1, <1>6
<1>7. CASE n = 2 /\ k = 3 BY <1>1, <1>7
<1>8. CASE n = 3 /\ k = 1 BY <1>1, <1>8
<1>9. CASE n = 3 /\ k = 2 BY <1>1, <1>9
<1>10. CASE n = 3 /\ k = 3 BY <1>1, <1>10
<1> QED BY <1>2, <1>3, <1>4, <1>5, <1>6, <1>7, <1>8, <1>9, <1>10

\* A field, as numbers.
LEMMA FieldIsPlaced ==
  ASSUME NEW t \in CfgTypes, NEW k \in DOMAIN Fields[t]
  PROVE  /\ k \in Int
         /\ Fields[t][k].at \in Int /\ 0 <= Fields[t][k].at
         /\ Fields[t][k].width \in {1, 2, 4}
         /\ PresentAt[t] \in Bytes /\ PresentAt[t] \in Int
         /\ Fields[t][k].at + Fields[t][k].width <= PresentAt[t]
         /\ Fields[t][k].at + Fields[t][k].width <= 12
<1> DEFINE F == [at : Nat, width : {1, 2, 4}]
<1>1. Placed(t)
  BY FieldsArePlaced
<1>2. Fields[t] \in Seq(F)
  BY <1>1 DEF Placed
<1>3. k \in Int /\ Fields[t][k] \in F
  <2> HIDE DEF F
  <2> QED BY <1>2
<1>4. Fields[t][k].at \in Nat /\ Fields[t][k].width \in {1, 2, 4}
  BY <1>3
<1>5. PresentAt[t] \in Bytes
  BY <1>1 DEF Placed
<1>6. PresentAt[t] \in Int
  BY <1>5 DEF Bytes
<1> QED BY <1>1, <1>3, <1>4, <1>5, <1>6 DEF Placed

\* The bytes of a field, in the union, and of two fields side by side.
ByteOf(a, w, p, i, b) == /\ b \in Int /\ a <= b /\ b < a + w /\ b - a + 1 = i
                         /\ b # p /\ b \in Bytes

LEMMA BytesOfField ==
  ASSUME NEW a \in Int, 0 <= a, NEW w \in {1, 2, 4}, NEW p \in Int, a + w <= p, a + w <= 12,
         NEW i \in Int, 1 <= i, i <= w
  PROVE  ByteOf(a, w, p, i, a + i - 1)
<1>1. a + i - 1 \in 0..11
  OBVIOUS
<1> QED BY <1>1 DEF ByteOf, Bytes

LEMMA SideBySide ==
  ASSUME NEW a \in Int, NEW w \in {1, 2, 4}, NEW c \in Int, NEW b \in Int,
         a + w <= c, c <= b, b < a + w
  PROVE  FALSE
OBVIOUS

\* What is stored at a byte of a field.
LEMMA StoredByte ==
  ASSUME NEW t \in CfgTypes, NEW values \in Seq(Int), Len(values) <= Len(Fields[t]),
         NEW k \in DOMAIN values, NEW i \in Int, 1 <= i, i <= Fields[t][k].width
  PROVE  Store(t, values)[Fields[t][k].at + i - 1] = (values[k] \div Weight[i]) % 256
<1> DEFINE b == Fields[t][k].at + i - 1
           here == {j \in DOMAIN values : LET f == Fields[t][j]
                                          IN  f.at <= b /\ b < f.at + f.width}
<1>1. Placed(t)
  BY FieldsArePlaced
<1>2. DOMAIN values \subseteq DOMAIN Fields[t]
  BY <1>1 DEF Placed
<1>3. /\ Fields[t][k].at \in Int /\ 0 <= Fields[t][k].at
      /\ Fields[t][k].width \in {1, 2, 4}
      /\ PresentAt[t] \in Int
      /\ Fields[t][k].at + Fields[t][k].width <= PresentAt[t]
      /\ Fields[t][k].at + Fields[t][k].width <= 12
  BY <1>2, FieldIsPlaced
<1>4. b \in Int /\ Fields[t][k].at <= b /\ b < Fields[t][k].at + Fields[t][k].width
      /\ b - Fields[t][k].at + 1 = i /\ b # PresentAt[t] /\ b \in Bytes
  <2>1. ByteOf(Fields[t][k].at, Fields[t][k].width, PresentAt[t], i, b)
    BY <1>3, BytesOfField, Zenon
  <2> QED BY <2>1 DEF ByteOf
<1> HIDE DEF b
<1>6. here = {k}
  <2>1. k \in here
    BY <1>4
  <2>2. ASSUME NEW j \in here PROVE j = k
    <3>1. j \in DOMAIN Fields[t] /\ k \in DOMAIN Fields[t]
      BY <1>2
    <3>2. j \in Int /\ k \in Int /\ Fields[t][j].at \in Int /\ Fields[t][j].width \in {1, 2, 4}
      BY <3>1, FieldIsPlaced
    <3>3. Fields[t][j].at <= b /\ b < Fields[t][j].at + Fields[t][j].width
      OBVIOUS
    <3>4. CASE j < k
      <4>1. Fields[t][j].at + Fields[t][j].width <= Fields[t][k].at
        BY <1>1, <3>1, <3>4 DEF Placed
      <4> QED BY <1>3, <1>4, <3>2, <3>3, <4>1, SideBySide, Zenon
    <3>5. CASE k < j
      <4>1. Fields[t][k].at + Fields[t][k].width <= Fields[t][j].at
        BY <1>1, <3>1, <3>5 DEF Placed
      <4> QED BY <1>3, <1>4, <3>2, <3>3, <4>1, SideBySide, Zenon
    <3> QED BY <3>2, <3>4, <3>5
  <2> QED BY <2>1, <2>2
<1>7. Store(t, values)[b] = IF here = {} THEN 0
                            ELSE LET x == CHOOSE x \in here : TRUE
                                 IN  (values[x] \div Weight[b - Fields[t][x].at + 1]) % 256
  BY <1>4 DEF Store
<1> HIDE DEF here
<1>8. (CHOOSE x \in here : TRUE) = k
  BY <1>6
<1>9. Store(t, values)[b] = (values[k] \div Weight[b - Fields[t][k].at + 1]) % 256
  BY <1>6, <1>7, <1>8
<1> QED BY <1>4, <1>9 DEF b

\* The flag of a field: set if its value was stored.
LEMMA StoredFlag ==
  ASSUME NEW t \in CfgTypes, NEW values \in Seq(Int), Len(values) \in 1..3,
         NEW k \in DOMAIN Fields[t]
  PROVE  (Store(t, values)[PresentAt[t]] \div Bit[k]) % 2 = IF k <= Len(values) THEN 1 ELSE 0
<1>1. PresentAt[t] \in Bytes
  BY FieldIsPlaced
<1>2. Store(t, values)[PresentAt[t]] = Bit[Len(values) + 1] - 1
  BY <1>1 DEF Store
<1>3. Placed(t)
  BY FieldsArePlaced
<1>4. k \in 1..3
  BY <1>3 DEF Placed
<1> QED BY <1>2, <1>4, FlagOfValue

\* f adds the numbers d[1], d[2], ... to 0: the bytes of a field, which has at
\* most four, by weight.
Adds(f, n, d) == f = [i \in 0..n |-> IF i = 0 THEN 0 ELSE f[i - 1] + d[i]]

LEMMA AddsExists ==
  ASSUME NEW n \in 0..4, NEW d \in [1..n -> Int]
  PROVE  \E f : Adds(f, n, d)
<1> DEFINE w == [i \in 0..n |-> IF i = 0 THEN 0
                                ELSE IF i = 1 THEN d[1]
                                ELSE IF i = 2 THEN d[1] + d[2]
                                ELSE IF i = 3 THEN d[1] + d[2] + d[3]
                                ELSE d[1] + d[2] + d[3] + d[4]]
<1>1. \A i \in 0..n : w[i] = IF i = 0 THEN 0 ELSE w[i - 1] + d[i]
  <2> TAKE i \in 0..n
  <2>1. i = 0 \/ i = 1 \/ i = 2 \/ i = 3 \/ i = 4
    OBVIOUS
  <2>2. CASE i = 0 BY <2>2
  <2>3. CASE i = 1 BY <2>3
  <2>4. CASE i = 2 BY <2>4
  <2>5. CASE i = 3 BY <2>5
  <2>6. CASE i = 4 BY <2>6
  <2> QED BY <2>1, <2>2, <2>3, <2>4, <2>5, <2>6
<1>2. w = [i \in 0..n |-> w[i]]
  OBVIOUS
<1> HIDE DEF w
<1>3. w = [i \in 0..n |-> IF i = 0 THEN 0 ELSE w[i - 1] + d[i]]
  BY <1>1, <1>2
<1> QED BY <1>3 DEF Adds

\* What is loaded of a field: the sum of its bytes by weight, if its flag is set.
LEMMA LoadAdds ==
  ASSUME NEW t \in CfgTypes, NEW bytes, NEW k \in DOMAIN Fields[t],
         NEW d \in [1..Fields[t][k].width -> Int],
         \A n \in 1..Fields[t][k].width : d[n] = bytes[Fields[t][k].at + n - 1] * Weight[n]
  PROVE  \E f : /\ Adds(f, Fields[t][k].width, d)
                /\ Load(t, bytes, k) = IF (bytes[PresentAt[t]] \div Bit[k]) % 2 = 1
                                       THEN f[Fields[t][k].width] ELSE -1
<1> DEFINE n == Fields[t][k].width
           UpTo[i \in 0..Fields[t][k].width] ==
             IF i = 0 THEN 0 ELSE UpTo[i - 1] + bytes[Fields[t][k].at + i - 1] * Weight[i]
<1>1. n \in 0..4 /\ n = Fields[t][k].width
  BY FieldIsPlaced
<1>2. PICK f : Adds(f, n, d)
  <2> HIDE DEF n, UpTo
  <2> QED BY <1>1, AddsExists, Zenon
<1>3. \A g : [i \in 0..n |-> IF i = 0 THEN 0 ELSE g[i - 1] + d[i]]
               = [i \in 0..n |-> IF i = 0 THEN 0
                                 ELSE g[i - 1] + bytes[Fields[t][k].at + i - 1] * Weight[i]]
  <2> HIDE DEF UpTo, n
  <2>1. \A i \in 0..n : i # 0 => d[i] = bytes[Fields[t][k].at + i - 1] * Weight[i]
    <3>1. \A i \in 0..n : i # 0 => i \in 1..n
      BY <1>1
    <3> QED BY <1>1, <3>1, Zenon
  <2> QED BY <2>1, Zenon
<1>4. Adds(UpTo, n, d)
  <2>1. f = [i \in 0..n |-> IF i = 0 THEN 0
                            ELSE f[i - 1] + bytes[Fields[t][k].at + i - 1] * Weight[i]]
    BY <1>2, <1>3, Zenon DEF Adds
  <2>2. UpTo = [i \in 0..n |-> IF i = 0 THEN 0
                               ELSE UpTo[i - 1] + bytes[Fields[t][k].at + i - 1] * Weight[i]]
    BY <2>1
  <2> HIDE DEF UpTo
  <2> QED BY <2>2, <1>3, Zenon DEF Adds
<1>5. Load(t, bytes, k) = IF (bytes[PresentAt[t]] \div Bit[k]) % 2 = 1 THEN UpTo[n] ELSE -1
  BY DEF Load
<1> HIDE DEF UpTo
<1> QED BY <1>4, <1>5

\* The widths of fields.
Widths == {1, 2, 4}

\* d[i] is what byte i of v counts.
Split(v, w, d) == \A i \in 1..w : d[i] = ((v \div Weight[i]) % 256) * Weight[i]

\* A number is the sum of its bytes by weight.
LEMMA SumOfBytes ==
  ASSUME NEW v \in Nat, NEW w \in Widths, Fits(v, w),
         NEW d \in [1..w -> Int], Split(v, w, d),
         NEW f, Adds(f, w, d)
  PROVE  f[w] = v
<1>0. /\ w \in {1, 2, 4} /\ v <= 3600 /\ (w = 1 => v < 256)
      /\ \A i \in 1..w : d[i] = ((v \div Weight[i]) % 256) * Weight[i]
  BY DEF Fits, Split, Widths
<1>1. Weight[1] = 1 /\ Weight[2] = 256 /\ Weight[3] = 65536 /\ Weight[4] = 16777216
  BY DEF Weight
<1>2. \A i \in 1..w : f[i] = f[i - 1] + d[i]
  BY <1>0 DEF Adds
<1>3. f[0] = 0
  BY <1>0 DEF Adds
<1>4. CASE w = 1
  <2>1. d[1] = v
    BY <1>0, <1>1, <1>4
  <2> QED BY <1>2, <1>3, <1>4, <2>1
<1>5. CASE w = 2
  <2>1. d[1] = v % 256 /\ d[2] = (v \div 256) * 256
    BY <1>0, <1>1, <1>5
  <2>2. f[1] = f[0] + d[1] /\ f[2] = f[1] + d[2]
    BY <1>2, <1>5
  <2>3. (v % 256) + ((v \div 256) * 256) = v
    OBVIOUS
  <2> QED BY <1>3, <1>5, <2>1, <2>2, <2>3
<1>6. CASE w = 4
  <2>1. d[1] = v % 256 /\ d[2] = (v \div 256) * 256 /\ d[3] = 0 /\ d[4] = 0
    BY <1>0, <1>1, <1>6
  <2>2. f[1] = f[0] + d[1] /\ f[2] = f[1] + d[2] /\ f[3] = f[2] + d[3] /\ f[4] = f[3] + d[4]
    BY <1>2, <1>6
  <2>3. (v % 256) + ((v \div 256) * 256) = v
    OBVIOUS
  <2> QED BY <1>3, <1>6, <2>1, <2>2, <2>3
<1> QED BY <1>0, <1>4, <1>5, <1>6

\* A query's structure holds, of each field, the value stored or that there is none.
LEMMA LoadStored ==
  ASSUME NEW t \in CfgTypes, NEW values \in Seq(Int), Len(values) \in 1..3,
         Len(values) <= Len(Fields[t]), Legal(t, values), NEW k \in DOMAIN Fields[t]
  PROVE  Load(t, Store(t, values), k) = IF k <= Len(values) THEN values[k] ELSE -1
<1> DEFINE bytes == Store(t, values)
           w == Fields[t][k].width
<1>1. (bytes[PresentAt[t]] \div Bit[k]) % 2 = IF k <= Len(values) THEN 1 ELSE 0
  BY StoredFlag, Zenon
<1>2. CASE ~(k <= Len(values))
  <2>1. ~((bytes[PresentAt[t]] \div Bit[k]) % 2 = 1)
    BY <1>1, <1>2
  <2> HIDE DEF bytes
  <2>2. Load(t, bytes, k) = -1
    BY <2>1 DEF Load
  <2> QED BY <1>2, <2>2 DEF bytes
<1>3. CASE k <= Len(values)
  <2>1. Placed(t)
    BY FieldsArePlaced
  <2>2. k \in DOMAIN values /\ k \in DOMAIN Ranges[t] /\ values[k] \in Int
    <3>1. Fields[t] \in Seq([at : Nat, width : {1, 2, 4}]) /\ Len(Fields[t]) = Len(Ranges[t])
      BY <2>1 DEF Placed
    <3>2. DOMAIN Fields[t] = 1..Len(Fields[t])
      BY <3>1
    <3>3. k \in DOMAIN values
      BY <1>3, <3>2
    <3>4. Ranges[t] \in Seq(Intervals)
      BY RangesAreIntervals
    <3>5. k \in DOMAIN Ranges[t]
      BY <3>1, <3>2, <3>4
    <3> QED BY <3>3, <3>5
  <2>3. values[k] \in Ranges[t][k]
    BY <2>2 DEF Legal
  <2>4. values[k] \in Nat /\ Fits(values[k], w)
    BY <2>2, <2>3, ValuesFit
  <2>5. w \in {1, 2, 4}
    BY FieldIsPlaced
  <2> DEFINE d == [i \in 1..w |-> ((values[k] \div Weight[i]) % 256) * Weight[i]]
  <2>6. ASSUME NEW i \in 1..w
        PROVE  d[i] \in Int /\ d[i] = bytes[Fields[t][k].at + i - 1] * Weight[i]
    <3>1. i \in Int /\ 1 <= i /\ i <= w /\ i \in 1..4
      BY <2>5
    <3>2. Weight[i] \in Nat \ {0}
      BY <3>1 DEF Weight
    <3>3. bytes[Fields[t][k].at + i - 1] = (values[k] \div Weight[i]) % 256
      BY <2>2, <3>1, StoredByte
    <3>4. d[i] = ((values[k] \div Weight[i]) % 256) * Weight[i]
      OBVIOUS
    <3> HIDE DEF d, bytes, w
    <3>5. values[k] \div Weight[i] \in Int
      BY <2>4, <3>2
    <3>6. d[i] \in Int
      BY <3>2, <3>4, <3>5
    <3> QED BY <3>3, <3>4, <3>6
  <2>7. d \in [1..w -> Int]
    BY <2>6
  <2>8. Split(values[k], w, d)
    BY DEF Split
  <2> HIDE DEF d
  <2>9. PICK f : Adds(f, w, d) /\ Load(t, bytes, k) = IF (bytes[PresentAt[t]] \div Bit[k]) % 2 = 1
                                                      THEN f[w] ELSE -1
    <3> HIDE DEF bytes
    <3> QED BY <2>6, <2>7, LoadAdds, Zenon
  <2>10. Load(t, bytes, k) = f[w]
    BY <1>1, <1>3, <2>9
  <2>11. f[w] = values[k]
    <3>1. Adds(f, w, d)
      BY <2>9
    <3>2. values[k] \in Nat
      BY <2>4
    <3>3. Fits(values[k], w)
      BY <2>4
    <3>4. w \in Widths
      BY <2>5 DEF Widths
    <3> HIDE DEF w, bytes
    <3> QED BY <2>7, <2>8, <3>1, <3>2, <3>3, <3>4, SumOfBytes, Zenon
  <2> QED BY <1>3, <2>10, <2>11
<1> QED BY <1>2, <1>3

\* What a query returns of the values the modem tells.
Current(t, now) ==
  [k \in DOMAIN now |-> IF k > 1 /\ t = "will" /\ now[1] = 0 THEN -1 ELSE now[k]]

LEMMA LoadTold ==
  ASSUME NEW t \in CfgTypes, NEW now, Row(t, now)
  PROVE  LoadAll(t, Store(t, Told(t, now))) = Current(t, now)
<1>1. Placed(t) /\ Ranges[t] \in Seq(Intervals)
  BY FieldsArePlaced, RangesAreIntervals
<1>2. /\ now \in Seq(Int) /\ Len(now) = Len(Ranges[t]) /\ Len(now) \in 1..3
      /\ DOMAIN now = DOMAIN Ranges[t]
  BY <1>1 DEF Row, Placed
<1>3. DOMAIN Fields[t] = DOMAIN now /\ Len(Fields[t]) = Len(now)
  BY <1>1, <1>2 DEF Placed
<1>4. ASSUME NEW k \in DOMAIN now
      PROVE  Load(t, Store(t, Told(t, now)), k) = Current(t, now)[k]
  <2>1. k \in Int /\ 1 <= k /\ k <= Len(now) /\ k \in DOMAIN Fields[t]
    BY <1>2, <1>3
  <2>2. CASE t = "will" /\ now[1] = 0
    <3>1. Told(t, now) = <<0>>
      BY <2>2 DEF Told
    <3>2. <<0>> \in Seq(Int) /\ Len(<<0>>) = 1 /\ Legal(t, <<0>>)
      BY <2>2 DEF Legal, Ranges
    <3>a. Len(<<0>>) \in 1..3 /\ Len(<<0>>) <= Len(Fields[t])
      BY <1>2, <1>3, <3>2
    <3>3. Load(t, Store(t, <<0>>), k) = IF k <= 1 THEN <<0>>[k] ELSE -1
      BY <1>2, <1>3, <2>1, <3>2, <3>a, LoadStored, Zenon
    <3>4. Current(t, now)[k] = IF k > 1 THEN -1 ELSE now[k]
      BY <2>2 DEF Current
    <3> QED BY <2>1, <2>2, <3>1, <3>3, <3>4
  <2>3. CASE ~(t = "will" /\ now[1] = 0)
    <3>1. Told(t, now) = now
      BY <2>3 DEF Told
    <3>2. Load(t, Store(t, now), k) = IF k <= Len(now) THEN now[k] ELSE -1
      BY <1>2, <1>3, <2>1, LoadStored DEF Row
    <3>3. Current(t, now)[k] = now[k]
      BY <2>3 DEF Current
    <3> QED BY <2>1, <3>1, <3>2, <3>3
  <2> QED BY <2>2, <2>3
<1>5. LoadAll(t, Store(t, Told(t, now))) = [k \in DOMAIN now |-> Load(t, Store(t, Told(t, now)), k)]
  BY <1>3 DEF LoadAll
<1>6. Current(t, now) = [k \in DOMAIN now |-> Current(t, now)[k]]
  BY DEF Current
<1> QED BY <1>4, <1>5, <1>6

-------------------------------------------------------------------------------
(* A query that succeeds.                                                      *)

\* Line k is the only one of the answer that tells something: what the client's
\* parameter is.
Tells(lines, k) ==
  /\ lines[k].kind = "line" /\ lines[k].type = call.type
  /\ lines[k].values = Told(call.type, cfg[call.idx][call.type])
  /\ \A j \in DOMAIN lines : lines[j].kind = "line" => j = k

\* A query answered OK was told of the parameter it asked for.
Answered(lines) ==
  HasKind(lines, "ok") => call.idx \in Clients /\ \E k \in DOMAIN lines : Tells(lines, k)

IsCurrent ==
  call.idx \in Clients /\ response = Current(call.type, cfg[call.idx][call.type])

QueryInv ==
  ~debt => /\ pc = "read" /\ call.fn = "query" => Answered(rx)
           /\ Succeeded("query") => IsCurrent

LEMMA QueryInvImplies == QueryInv => QueryIsCurrent
BY DEF QueryInv, QueryIsCurrent, IsCurrent, Current

LEMMA InitAnswered == Init => QueryInv
BY DEF Init, QueryInv, Succeeded, NoCall

LEMMA BeginAnswered ==
  ASSUME SetInv, NEW fn, NEW type, NEW i, NEW values, NEW written, NEW command,
         Begin(fn, type, i, values, written, command)
  PROVE  QueryInv'
<1>1. CASE command.err # "ESP_OK"
  BY <1>1 DEF Begin, QueryInv, Succeeded
<1>2. CASE command.err = "ESP_OK"
  <2>1. PICK w \in HwWriteOutcomes :
          /\ rx' = IF w.flushed THEN <<>> ELSE rx
          /\ status' = IF w.err = "ESP_OK" THEN "none" ELSE w.err
          /\ debt' = (debt \/ (w.err # "ESP_OK" /\ w.sent))
    BY <1>2 DEF Begin
  <2>2. status' # "ESP_OK"
    BY <2>1
  <2>3. ASSUME ~debt' PROVE rx' = <<>>
    <3>1. ~debt
      BY <2>1, <2>3
    <3>2. rx = <<>>
      BY <3>1 DEF Begin, SetInv, InStep
    <3> QED BY <2>1, <3>2
  <2>4. ASSUME ~debt' PROVE Answered(rx)'
    BY <2>3, <2>4 DEF Answered, HasKind
  <2> QED BY <2>2, <2>4 DEF QueryInv, Succeeded
<1> QED BY <1>1, <1>2

LEMMA CallsAnswered ==
  ASSUME SetInv, NEW type \in CfgTypes, Set(type) \/ Query(type) PROVE QueryInv'
BY BeginAnswered DEF Set, Query

\* The one line that tells something is the one the parser looks at.
LEMMA OwnIsTold ==
  ASSUME NEW lines \in Seq(Lines), NEW k \in DOMAIN lines, lines[k].kind = "line",
         \A j \in DOMAIN lines : lines[j].kind = "line" => j = k
  PROVE  LET own == OwnLines(lines, "QMTCFG")
         IN  DOMAIN own # {} /\ First(own) = lines[k]
<1> DEFINE own == OwnLines(lines, "QMTCFG")
           at == {j \in DOMAIN lines : lines[j].kind = "line" /\ lines[j].name = "QMTCFG"}
<1>1. \A j \in DOMAIN lines : lines[j].name = "QMTCFG"
  <2>1. \A j \in DOMAIN lines : lines[j] \in Lines
    OBVIOUS
  <2> QED BY <2>1 DEF Lines
<1>2. at = {k}
  BY <1>1
<1>3. own = [j \in at |-> lines[j]]
  BY DEF OwnLines, Restrict
<1> HIDE DEF own, at
<1>4. DOMAIN own = {k} /\ own[k] = lines[k]
  BY <1>2, <1>3
<1>5. Min({k}) = k
  <2>1. k \in Int
    OBVIOUS
  <2>2. Min({k}) = CHOOSE x \in {k} : \A y \in {k} : x <= y
    BY DEF Min
  <2> QED BY <2>1, <2>2
<1>6. First(own) = lines[k]
  BY <1>4, <1>5 DEF First
<1> QED BY <1>4, <1>6 DEF own

\* A query that succeeds loads what it was told.
LEMMA FinishAnswered == ASSUME TypeInv, SetInv, QueryInv, Finish PROVE QueryInv'
<1>1. UNCHANGED <<call, cfg, debt>> /\ pc = "read" /\ pc' = "idle"
  BY DEF Finish
<1>2. SUFFICES ASSUME ~debt, call.fn = "query", status' = "ESP_OK" PROVE IsCurrent'
  BY <1>1 DEF QueryInv, Succeeded
<1> DEFINE t == call.type
           now == cfg[call.idx][t]
<1>3. /\ HasKind(rx, "ok") /\ Judge(call, rx).err = "ESP_OK"
      /\ response' = Judge(call, rx).response
  BY <1>2, FinishReads
<1>4. call.idx \in Clients /\ \E k \in DOMAIN rx : Tells(rx, k)
  BY <1>1, <1>2, <1>3 DEF QueryInv, Answered
<1>5. PICK k \in DOMAIN rx : Tells(rx, k)
  BY <1>4
<1>6. /\ rx[k].type = t /\ rx[k].values = Told(t, now)
      /\ DOMAIN OwnLines(rx, "QMTCFG") # {} /\ First(OwnLines(rx, "QMTCFG")) = rx[k]
  BY <1>5, OwnIsTold DEF Tells, TypeInv
<1>7. response' = LoadAll(t, Store(t, Told(t, now)))
  <2>1. Judge(call, rx).response = LoadAll(t, Store(rx[k].type, rx[k].values))
    BY <1>2, <1>3, <1>6 DEF Judge
  <2> QED BY <1>3, <1>6, <2>1
<1>8. t \in Types /\ t \in CfgTypes /\ Row(t, now)
  BY <1>1, <1>4, CfgAssumption DEF TypeInv, CallOK
<1>9. response' = Current(t, now)
  BY <1>7, <1>8, LoadTold
<1> QED BY <1>1, <1>4, <1>9 DEF IsCurrent, Current

\* One line that tells something, behind those that tell nothing and before an OK.
LEMMA OneTells ==
  ASSUME NEW a \in Seq(Lines), \A j \in DOMAIN a : a[j].kind # "line",
         NEW l \in Lines, l.kind = "line", NEW o \in Lines, o.kind # "line"
  PROVE  LET s == a \o (<<l>> \o <<o>>)
         IN  \E k \in DOMAIN s : s[k] = l /\ \A j \in DOMAIN s : s[j].kind = "line" => j = k
<1> DEFINE b == <<l>> \o <<o>>
           s == a \o b
           k == Len(a) + 1
<1>1. b \in Seq(Lines) /\ Len(b) = 2 /\ b[1] = l /\ b[2] = o
  OBVIOUS
<1> HIDE DEF b
<1>2. /\ s \in Seq(Lines) /\ Len(s) = Len(a) + Len(b)
      /\ \A j \in 1..(Len(a) + Len(b)) : s[j] = IF j <= Len(a) THEN a[j] ELSE b[j - Len(a)]
  BY <1>1, ConcatProperties
<1> HIDE DEF s
<1>3. Len(a) \in Nat /\ DOMAIN s = 1..(Len(a) + 2) /\ DOMAIN a = 1..Len(a)
  BY <1>1, <1>2
<1>4. k \in DOMAIN s /\ s[k] = l
  BY <1>1, <1>2, <1>3
<1>5. ASSUME NEW j \in DOMAIN s, s[j].kind = "line" PROVE j = k
  <2>1. CASE j <= Len(a)
    BY <1>1, <1>2, <1>3, <1>5, <2>1
  <2>2. CASE j = Len(a) + 2
    <3>1. s[j] = o
      BY <1>1, <1>2, <1>3, <2>2
    <3> QED BY <1>5, <3>1
  <2> QED BY <1>3, <2>1, <2>2
<1> QED BY <1>4, <1>5 DEF s, b

\* The modem takes up the one command there can be and tells what was asked.
LEMMA ModemTakesAnswered == ASSUME TypeInv, SetInv, ModemTakes PROVE QueryInv'
<1> DEFINE c == Head(tx)
           ok == <<Line("ok", c, <<>>)>>
           fault == <<Line("error", c, <<>>)>>
           row == cfg[c.idx][c.type]
           toldLine == Line("line", c, Told(c.type, row))
           before == IF Echo THEN <<Line("echo", c, <<>>)>> ELSE <<>>
<1>1. UNCHANGED <<pc, call, status, response, nextId, debt>> /\ tx # <<>>
  BY DEF ModemTakes
<1>2. SUFFICES ASSUME ~debt
               PROVE  ~Succeeded("query")' /\ (call.fn = "query" => Answered(rx)')
  BY <1>1 DEF QueryInv
<1>3. pc = "read" /\ tx = <<Written>> /\ rx = <<>> /\ CallOK
  BY <1>1, <1>2 DEF SetInv, InStep, TypeInv
<1>4. ~Succeeded("query")' /\ c = Written /\ c \in Commands
  BY <1>1, <1>3 DEF Succeeded, TypeInv
<1>5. SUFFICES ASSUME call.fn = "query", HasKind(rx', "ok")
               PROVE  call.idx \in Clients /\ \E k \in DOMAIN rx' : Tells(rx, k)'
  BY <1>1, <1>4 DEF Answered
<1>6. c.type \in Types /\ c.type = call.type /\ c.fn = call.fn /\ c.idx = call.idx
  BY <1>4 DEF Written, Commands
<1>7. /\ \A s \in Seq(Lines) : rx \o s = s
      /\ fault \in Seq(Lines) /\ LastEnds(fault) /\ ~HasKind(fault, "ok")
      /\ before \in Seq(Lines) /\ \A j \in DOMAIN before : before[j].kind # "line"
  <2>1. \A s \in Seq(Lines) : rx \o s = s
    BY <1>3, ConcatEmptySeq
  <2>2. fault \in Seq(Lines) /\ LastEnds(fault) /\ ~HasKind(fault, "ok")
    BY <1>4 DEF Line, Lines, AnswerKinds, Commands, LastEnds, HasKind
  <2>3. Line("echo", c, <<>>) \in Lines /\ Line("echo", c, <<>>).kind = "echo"
    BY <1>4 DEF Line, Lines, AnswerKinds, Commands
  <2>4. before \in Seq(Lines) /\ \A j \in DOMAIN before : before[j].kind # "line"
    <3> HIDE DEF c
    <3> QED BY <2>3, CfgAssumption
  <2> QED BY <2>1, <2>2, <2>4
<1>8. ~(rx' = rx) /\ ~(rx' = rx \o Answer(c, fault))
  <2>1. ~(rx' = rx)
    BY <1>3, <1>5 DEF HasKind
  <2>2. ASSUME rx' = rx \o Answer(c, fault) PROVE FALSE
    <3> HIDE DEF c, fault
    <3>1. Answer(c, fault) \in Seq(Lines) /\ ~HasKind(Answer(c, fault), "ok")
      BY <1>4, <1>7, AnswerEnds, AnswerTypes
    <3> QED BY <1>5, <1>7, <2>2, <3>1
  <2> QED BY <2>1, <2>2
<1>9. c.idx \in Clients /\ rx' = rx \o Answer(c, <<toldLine>> \o ok) /\ cfg' = cfg
  <2>1. \/ c.fn = "set"
        \/ /\ c.fn = "query" /\ c.idx \in Clients
           /\ rx' = rx \o Answer(c, <<toldLine>> \o ok)
           /\ cfg' = cfg
        \/ rx' \in {rx, rx \o Answer(c, fault)}
    BY DEF ModemTakes
  <2> HIDE DEF c, ok, fault, toldLine
  <2> QED BY <1>5, <1>6, <1>8, <2>1
<1>10. toldLine \in Lines /\ toldLine.kind = "line" /\ toldLine.type = call.type
       /\ toldLine.values = Told(call.type, cfg[call.idx][call.type])
  <2>1. row \in Seq(Int)
    BY <1>6, <1>9 DEF TypeInv
  <2>2. Told(c.type, row) \in Seq(Int)
    BY <2>1 DEF Told
  <2> QED
    BY <1>4, <1>6, <2>2 DEF Line, Lines, AnswerKinds, Commands
<1>11. rx' = before \o (<<toldLine>> \o ok)
  <2>1. <<toldLine>> \o ok \in Seq(Lines)
    <3>1. Line("ok", c, <<>>) \in Lines
      BY <1>4 DEF Line, Lines, AnswerKinds, Commands
    <3> HIDE DEF c, toldLine
    <3> QED BY <1>10, <3>1
  <2>2. Answer(c, <<toldLine>> \o ok) \in Seq(Lines)
    <3> HIDE DEF c, ok, toldLine
    <3> QED BY <1>4, <2>1, AnswerTypes
  <2>3. Answer(c, <<toldLine>> \o ok) = before \o (<<toldLine>> \o ok)
    BY DEF Answer
  <2> HIDE DEF c, ok, toldLine, before
  <2> QED BY <1>7, <1>9, <2>2, <2>3
<1>12. Line("ok", c, <<>>) \in Lines /\ Line("ok", c, <<>>).kind # "line"
  BY <1>4 DEF Line, Lines, AnswerKinds, Commands
<1> DEFINE o == Line("ok", c, <<>>)
<1> HIDE DEF c, toldLine, before, o
<1>13. \E k \in DOMAIN rx' : /\ rx'[k] = toldLine
                             /\ \A j \in DOMAIN rx' : rx'[j].kind = "line" => j = k
  <2>1. rx' = before \o (<<toldLine>> \o <<o>>)
    BY <1>11 DEF o
  <2>2. o \in Lines /\ o.kind # "line"
    BY <1>12 DEF o
  <2> DEFINE s == before \o (<<toldLine>> \o <<o>>)
  <2>3. \E k \in DOMAIN s : s[k] = toldLine /\ \A j \in DOMAIN s : s[j].kind = "line" => j = k
    BY <1>7, <1>10, <2>2, OneTells
  <2> HIDE DEF s
  <2> QED BY <2>1, <2>3 DEF s
<1>14. \A k \in DOMAIN rx' :
          rx'[k] = toldLine /\ (\A j \in DOMAIN rx' : rx'[j].kind = "line" => j = k)
            => Tells(rx, k)'
  BY <1>1, <1>9, <1>10 DEF Tells
<1> QED BY <1>6, <1>9, <1>13, <1>14

LEMMA StepAnswered == TypeInv /\ SetInv /\ QueryInv /\ [Next]_vars => QueryInv'
<1>1. SUFFICES ASSUME TypeInv, SetInv, QueryInv, [Next]_vars PROVE QueryInv'
  OBVIOUS
<1>2. CASE \E type \in CfgTypes : Set(type) \/ Query(type)
  BY <1>1, <1>2, CallsAnswered
<1>3. CASE Finish
  BY <1>1, <1>3, FinishAnswered
<1>4. CASE GiveUp
  BY <1>4 DEF GiveUp, QueryInv
<1>5. CASE ModemTakes
  BY <1>1, <1>5, ModemTakesAnswered
<1>6. CASE UNCHANGED vars
  BY <1>1, <1>6 DEF vars, QueryInv, Answered, Tells, IsCurrent, Succeeded
<1> QED
  BY <1>1, <1>2, <1>3, <1>4, <1>5, <1>6, NextIsCall

\* Until a call gives up, a query that returns success (bg95_mqtt_config_query_*)
\* has filled the caller's structure with the modem's values of that client and
\* parameter, and of a will that is not required marked no other as present.
THEOREM QueriesAreCurrent == Spec => []QueryIsCurrent
<1>1. Spec => []QueryInv
  BY AlwaysInStep, AlwaysTypes, InitAnswered, StepAnswered, PTL DEF Spec
<1> QED
  BY <1>1, QueryInvImplies, PTL
================================================================================
