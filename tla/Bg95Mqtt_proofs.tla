---------------------------- MODULE Bg95Mqtt_proofs ----------------------------
(***************************************************************************)
(* Theorems about Bg95Mqtt, for any clients, message ids and number of     *)
(* calls: its types, and whose message is published under whose topic;     *)
(* then what a call makes of the lines it has read.                        *)
(*                                                                         *)
(* A message keeps its topic by the order of what is written, not by what  *)
(* is read: however prompts are mixed up, the driver writes nothing        *)
(* between a publish that it does not report as failed and its message.    *)
(***************************************************************************)
EXTENDS Bg95Mqtt, SequenceTheorems, FiniteSetTheorems, WellFoundedInduction, TLAPS

-------------------------------------------------------------------------------
(* Sequences, and what is in them.                                             *)

LEMMA Appended ==
  ASSUME NEW S, NEW s \in Seq(S), NEW x
  PROVE  /\ Append(s, x) \in Seq(S \cup {x})
         /\ Len(s) \in Nat /\ Len(Append(s, x)) = Len(s) + 1
         /\ \A k \in 1..Len(s) : Append(s, x)[k] = s[k]
         /\ Append(s, x)[Len(s) + 1] = x
<1>1. s \in Seq(S \cup {x}) /\ x \in S \cup {x}
  OBVIOUS
<1>2. /\ Append(s, x) \in Seq(S \cup {x}) /\ Len(Append(s, x)) = Len(s) + 1
      /\ \A k \in 1..Len(s) : Append(s, x)[k] = s[k]
      /\ Append(s, x)[Len(s) + 1] = x
  BY <1>1, AppendProperties
<1> QED
  BY <1>1, <1>2

LEMMA AppendedRange ==
  ASSUME NEW S, NEW s \in Seq(S), NEW x
  PROVE  Append(s, x) \in Seq(S \cup {x}) /\ Range(Append(s, x)) = Range(s) \cup {x}
<1> DEFINE t == Append(s, x)
<1> HIDE DEF t
<1>1. /\ t \in Seq(S \cup {x}) /\ Len(s) \in Nat /\ Len(t) = Len(s) + 1
      /\ \A k \in 1..Len(s) : t[k] = s[k]
      /\ t[Len(s) + 1] = x
  BY Appended DEF t
<1>2. DOMAIN s = 1..Len(s) /\ DOMAIN t = 1..(Len(s) + 1)
  BY <1>1
<1> QED
  BY <1>1, <1>2 DEF Range, t

LEMMA Joined ==
  ASSUME NEW S, NEW s \in Seq(S), NEW T, NEW t \in Seq(T)
  PROVE  /\ s \o t \in Seq(S \cup T)
         /\ Len(s) \in Nat /\ Len(t) \in Nat /\ Len(s \o t) = Len(s) + Len(t)
         /\ \A k \in 1..Len(s) : (s \o t)[k] = s[k]
         /\ \A k \in 1..Len(t) : (s \o t)[Len(s) + k] = t[k]
<1>1. s \in Seq(S \cup T) /\ t \in Seq(S \cup T)
  OBVIOUS
<1> DEFINE u == s \o t
<1>2. /\ u \in Seq(S \cup T) /\ Len(u) = Len(s) + Len(t)
      /\ \A k \in 1..(Len(s) + Len(t)) : u[k] = IF k <= Len(s) THEN s[k] ELSE t[k - Len(s)]
  BY <1>1, ConcatProperties
<1> HIDE DEF u
<1>3. /\ Len(s) \in Nat /\ DOMAIN s = 1..Len(s) /\ Len(t) \in Nat /\ DOMAIN t = 1..Len(t)
      /\ DOMAIN u = 1..(Len(s) + Len(t))
  BY <1>1, <1>2
<1> DEFINE m == Len(s)
           n == Len(t)
<1> HIDE DEF m, n
<1>4. \A k \in 1..m : u[k] = s[k]
  BY <1>2, <1>3 DEF m, n
<1>5. \A k \in 1..n : u[m + k] = t[k]
  <2>1. SUFFICES ASSUME NEW k \in 1..n PROVE u[m + k] = t[k]
    OBVIOUS
  <2>2. m + k \in 1..(m + n) /\ ~(m + k <= m) /\ (m + k) - m = k
    BY <1>3 DEF m, n
  <2>3. u[m + k] = IF m + k <= m THEN s[m + k] ELSE t[(m + k) - m]
    BY <1>2, <2>2 DEF m, n
  <2> QED
    BY <2>2, <2>3
<1> QED
  BY <1>1, <1>2, <1>3, <1>4, <1>5 DEF u, m, n

IsJoin(u, s, t) == u = s \o t

LEMMA JoinedRange ==
  ASSUME NEW S, NEW s, NEW T, NEW t, NEW u, s \in Seq(S), t \in Seq(T), IsJoin(u, s, t)
  PROVE  Range(u) = Range(s) \cup Range(t)
<1> DEFINE m == Len(s)
           n == Len(t)
<1>1. /\ u \in Seq(S \cup T) /\ m \in Nat /\ n \in Nat /\ Len(u) = m + n
      /\ \A k \in 1..m : u[k] = s[k]
      /\ \A k \in 1..n : u[m + k] = t[k]
  BY Joined DEF IsJoin
<1>2. DOMAIN s = 1..m /\ DOMAIN t = 1..n /\ DOMAIN u = 1..(m + n)
  BY <1>1
<1> HIDE DEF m, n
<1>3. \A k \in 1..(m + n) : k \in 1..m \/ \E j \in 1..n : k = m + j
  <2>1. SUFFICES ASSUME NEW k \in 1..(m + n), ~(k \in 1..m) PROVE \E j \in 1..n : k = m + j
    OBVIOUS
  <2>2. k - m \in 1..n /\ k = m + (k - m)
    BY <1>1, <2>1
  <2> QED
    BY <2>2
<1>4. \A k \in 1..m : k \in 1..(m + n)
  BY <1>1
<1>5. \A k \in 1..n : m + k \in 1..(m + n)
  BY <1>1
<1>6. \A x \in Range(u) : x \in Range(s) \/ x \in Range(t)
  <2>1. SUFFICES ASSUME NEW k \in 1..(m + n) PROVE u[k] \in Range(s) \/ u[k] \in Range(t)
    BY <1>2 DEF Range
  <2> QED
    BY <1>1, <1>2, <1>3 DEF Range
<1>7. \A x \in Range(s) : x \in Range(u)
  BY <1>1, <1>2, <1>4 DEF Range
<1>8. \A x \in Range(t) : x \in Range(u)
  BY <1>1, <1>2, <1>5 DEF Range
<1> QED
  BY <1>1, <1>6, <1>7, <1>8

LEMMA Remaining ==
  ASSUME NEW S, NEW s \in Seq(S), NEW n \in 0..Len(s)
  PROVE  /\ Rest(s, n) \in Seq(S)
         /\ Len(s) \in Nat /\ Len(Rest(s, n)) = Len(s) - n
         /\ \A k \in 1..(Len(s) - n) : Rest(s, n)[k] = s[n + k]
<1> DEFINE t == Rest(s, n)
           m == Len(s)
<1>1. m \in Nat /\ DOMAIN s = 1..m /\ n \in Nat /\ n <= m
  OBVIOUS
<1>2. t \in Seq(S) /\ Len(t) = m - n /\ \A k \in 1..(m - n) : t[k] = s[n + k]
  <2> DEFINE i == n + 1
  <2>1. i \in Int /\ m \in Int /\ \A k \in i..m : s[k] \in S
    BY <1>1
  <2>3. t = SubSeq(s, i, m)
    BY DEF Rest
  <2> HIDE DEF m, t
  <2>2. (i <= m => (m - i) + 1 = m - n) /\ (~(i <= m) => m - n = 0) /\ (m - i) + 1 = m - n
    BY <1>1
  <2>5. \A k \in 1..(m - n) : (i + k) - 1 = n + k
    BY <1>1
  <2> HIDE DEF i
  <2>4. /\ t \in Seq(S) /\ Len(t) = (IF i <= m THEN (m - i) + 1 ELSE 0)
        /\ \A k \in 1..((m - i) + 1) : t[k] = s[(i + k) - 1]
    BY <2>1, <2>3, SubSeqProperties
  <2> QED
    BY <2>2, <2>4, <2>5
<1> QED
  BY <1>1, <1>2

LEMMA RemainingRange ==
  ASSUME NEW S, NEW s \in Seq(S), NEW n \in 0..Len(s)
  PROVE  Rest(s, n) \in Seq(S) /\ Range(Rest(s, n)) \subseteq Range(s)
<1> DEFINE t == Rest(s, n)
           m == Len(s)
<1>1. /\ t \in Seq(S) /\ m \in Nat /\ Len(t) = m - n /\ n \in Nat
      /\ \A k \in 1..(m - n) : t[k] = s[n + k]
  BY Remaining
<1> HIDE DEF t
<1>2. DOMAIN s = 1..m /\ DOMAIN t = 1..(m - n)
  BY <1>1
<1> HIDE DEF m
<1>3. \A k \in 1..(m - n) : n + k \in 1..m
  BY <1>1
<1>4. Range(t) \subseteq Range(s)
  BY <1>1, <1>2, <1>3 DEF Range
<1> QED
  BY <1>1, <1>4 DEF t

LEMMA Read ==
  ASSUME NEW S, NEW s \in Seq(S), NEW n \in 0..Len(s)
  PROVE  /\ SubSeq(s, 1, n) \in Seq(S) /\ Len(SubSeq(s, 1, n)) = n
         /\ DOMAIN SubSeq(s, 1, n) = 1..n
         /\ \A k \in 1..n : SubSeq(s, 1, n)[k] = s[k]
<1> DEFINE t == SubSeq(s, 1, n)
<1>1. Len(s) \in Nat /\ n \in Nat /\ \A k \in 1..n : s[k] \in S
  OBVIOUS
<1>2. /\ t \in Seq(S) /\ Len(t) = (IF 1 <= n THEN (n - 1) + 1 ELSE 0)
      /\ \A k \in 1..((n - 1) + 1) : t[k] = s[(1 + k) - 1]
  BY <1>1, SubSeqProperties
<1>3. (n - 1) + 1 = n /\ (~(1 <= n) => n = 0) /\ \A k \in 1..n : (1 + k) - 1 = k
  BY <1>1
<1> HIDE DEF t
<1>4. t \in Seq(S) /\ Len(t) = n /\ \A k \in 1..n : t[k] = s[k]
  BY <1>2, <1>3
<1> QED
  BY <1>4 DEF t

LEMMA Single ==
  ASSUME NEW x
  PROVE  /\ <<x>> \in Seq({x}) /\ Len(<<x>>) = 1 /\ <<x>>[1] = x /\ Range(<<x>>) = {x}
         /\ <<>> \in Seq({}) /\ Len(<<>>) = 0 /\ Range(<<>>) = {}
<1>1. <<x>> \in Seq({x}) /\ Len(<<x>>) = 1 /\ <<x>>[1] = x /\ DOMAIN <<x>> = {1}
  OBVIOUS
<1>2. <<>> \in Seq({}) /\ Len(<<>>) = 0 /\ DOMAIN <<>> = {}
  OBVIOUS
<1> QED
  BY <1>1, <1>2 DEF Range

-------------------------------------------------------------------------------
(* The calls, and the types.                                                   *)

\* A call that was written, when n is the next id and used the message ids.
Called(c, n, used) ==
  c \in Calls /\ c.idx \in 0..ClientIdxMax /\ c.id < n /\ c.msgid \in used

TypeInv ==
  /\ pc \in {"idle", "prompt", "read"}
  /\ nextId \in 1..(MaxCalls + 1) /\ urcs \in Nat
  /\ call = [fn |-> "none"] \/ Called(call, nextId, usedMsgids)
  /\ pc # "idle" => Called(call, nextId, usedMsgids)
  /\ pc = "prompt" => call.fn = "publish"
  /\ link \in [Clients -> LinkStates]
  /\ mode \in {"command", "data"}
  /\ mode = "data" => Called(dcall, nextId, usedMsgids) /\ dcall.fn = "publish"
  /\ jobs \subseteq [call : Calls, again : BOOLEAN]
  /\ \A j \in jobs : Called(j.call, nextId, usedMsgids)
  /\ (\E S : rx \in Seq(S)) /\ \A l \in Range(rx) : l.kind \in Kinds
  /\ (\E S : tx \in Seq(S)) /\ \A w \in Range(tx) : Called(w.call, nextId, usedMsgids)
  /\ acked \subseteq 1..(nextId - 1) /\ debt \subseteq 1..(nextId - 1)

LEMMA TypeInvImplies == TypeInv => TypeOK
<1>1. SUFFICES ASSUME TypeInv PROVE TypeOK
  OBVIOUS
<1>2. nextId - 1 <= MaxCalls /\ nextId \in Nat
  BY <1>1, MqttAssumption DEF TypeInv
<1>3. acked \subseteq CallIds /\ debt \subseteq CallIds
  BY <1>1, <1>2, MqttAssumption DEF TypeInv, CallIds
<1>4. /\ \A k \in DOMAIN rx : rx[k].kind \in Kinds
      /\ \A k \in DOMAIN tx : tx[k].call.idx \in 0..ClientIdxMax
  BY <1>1 DEF TypeInv, Called, Range
<1>5. call \in Calls \cup {[fn |-> "none"]} /\ \A j \in jobs : j.call \in Calls
  BY <1>1 DEF TypeInv, Called
<1> QED
  BY <1>1, <1>3, <1>4, <1>5 DEF TypeInv, TypeOK

\* Each call of the application passes its own arguments, and a client index the
\* modem cannot have is refused.
Formed(fn, idx, msgid, cmd) ==
  /\ fn \in Writes \cup Queries /\ idx \in Idxs /\ msgid \in Msgids \cup {0, 1}
  /\ cmd.err = "ESP_OK" => idx \in 0..ClientIdxMax

Begun == \E fn, idx, msgid, cmd : Formed(fn, idx, msgid, cmd) /\ Begin(fn, idx, msgid, cmd)

LEMMA CallsBegin ==
  ASSUME \/ MqttOpenNetwork \/ MqttCloseNetwork \/ MqttConnect \/ MqttDisconnect
         \/ MqttPublish \/ MqttSubscribe \/ MqttUnsubscribe
         \/ NetworkOpenStatus \/ QueryConnectionState
  PROVE  Begun
<1>1. Invalid.err # "ESP_OK"
  BY DEF Invalid
<1>2. \A i \in Idxs : i > ClientIdxMax \/ i \in 0..ClientIdxMax
  BY MqttAssumption DEF ClientIdxMax
<1>3. CASE MqttOpenNetwork
  <2>1. PICK i \in Idxs, h \in Hosts :
          Begin("open", i, 0, OpenNetwork([idx |-> i, host |-> h, port |-> 1883]))
    BY <1>3 DEF MqttOpenNetwork
  <2> DEFINE cmd == OpenNetwork([idx |-> i, host |-> h, port |-> 1883])
  <2>2. i > ClientIdxMax => cmd = Invalid
    BY DEF OpenNetwork
  <2> HIDE DEF cmd
  <2>3. Formed("open", i, 0, cmd)
    BY <1>1, <1>2, <2>2 DEF Formed, Writes
  <2> QED
    BY <2>1, <2>3 DEF Begun, cmd
<1>4. CASE MqttCloseNetwork
  <2>1. PICK i \in Idxs : Begin("close", i, 0, CloseNetwork([idx |-> i]))
    BY <1>4 DEF MqttCloseNetwork
  <2> DEFINE cmd == CloseNetwork([idx |-> i])
  <2>2. i > ClientIdxMax => cmd = Invalid
    BY DEF CloseNetwork
  <2> HIDE DEF cmd
  <2>3. Formed("close", i, 0, cmd)
    BY <1>1, <1>2, <2>2 DEF Formed, Writes
  <2> QED
    BY <2>1, <2>3 DEF Begun, cmd
<1>5. CASE MqttConnect
  <2>1. PICK i \in Idxs :
          Begin("connect", i, 0, Connect([idx |-> i, clientId |-> 10, username |-> NoString,
                                          password |-> NoString]))
    BY <1>5 DEF MqttConnect
  <2> DEFINE cmd == Connect([idx |-> i, clientId |-> 10, username |-> NoString,
                             password |-> NoString])
  <2>2. i > ClientIdxMax => cmd = Invalid
    BY DEF Connect
  <2> HIDE DEF cmd
  <2>3. Formed("connect", i, 0, cmd)
    BY <1>1, <1>2, <2>2 DEF Formed, Writes
  <2> QED
    BY <2>1, <2>3 DEF Begun, cmd
<1>6. CASE MqttDisconnect
  <2>1. PICK i \in Idxs : Begin("disconnect", i, 0, Disconnect([idx |-> i]))
    BY <1>6 DEF MqttDisconnect
  <2> DEFINE cmd == Disconnect([idx |-> i])
  <2>2. i > ClientIdxMax => cmd = Invalid
    BY DEF Disconnect
  <2> HIDE DEF cmd
  <2>3. Formed("disconnect", i, 0, cmd)
    BY <1>1, <1>2, <2>2 DEF Formed, Writes
  <2> QED
    BY <2>1, <2>3 DEF Begun, cmd
<1>7. CASE MqttPublish
  <2> DEFINE args(i, m, q) ==
        [idx |-> i, msgid |-> m, qos |-> q, retain |-> 0, topic |-> 20, msglen |-> 100]
  <2>1. PICK i \in Idxs, m \in Msgids, q \in Qoss :
          Begin("publish", i, PublishMsgid(args(i, m, q)), Publish(args(i, m, q)))
    BY <1>7 DEF MqttPublish
  <2> DEFINE a   == args(i, m, q)
             cmd == Publish(a)
  <2>2. /\ i > ClientIdxMax => cmd = Invalid
        /\ PublishMsgid(a) \in Msgids \cup {0, 1}
    BY DEF Publish, PublishMsgid
  <2>3. Begin("publish", i, PublishMsgid(a), cmd)
    BY <2>1
  <2> HIDE DEF cmd, a
  <2>4. Formed("publish", i, PublishMsgid(a), cmd)
    BY <1>1, <1>2, <2>2 DEF Formed, Writes
  <2> QED
    BY <2>3, <2>4 DEF Begun
<1>8. CASE MqttSubscribe
  <2> DEFINE args(i, m, q) == [idx |-> i, msgid |-> m, qos |-> q, topic |-> 20]
  <2>1. PICK i \in Idxs, m \in Msgids, q \in Qoss :
          Begin("subscribe", i, m, Subscribe(args(i, m, q)))
    BY <1>8 DEF MqttSubscribe
  <2> DEFINE cmd == Subscribe(args(i, m, q))
  <2>2. i > ClientIdxMax => cmd = Invalid
    BY DEF Subscribe
  <2> HIDE DEF cmd, args
  <2>3. Formed("subscribe", i, m, cmd)
    BY <1>1, <1>2, <2>2 DEF Formed, Writes
  <2> QED
    BY <2>1, <2>3 DEF Begun, cmd
<1>9. CASE MqttUnsubscribe
  <2> DEFINE args(i, m) == [idx |-> i, msgid |-> m, topic |-> 20]
  <2>1. PICK i \in Idxs, m \in Msgids : Begin("unsubscribe", i, m, Unsubscribe(args(i, m)))
    BY <1>9 DEF MqttUnsubscribe
  <2> DEFINE cmd == Unsubscribe(args(i, m))
  <2>2. i > ClientIdxMax => cmd = Invalid
    BY DEF Unsubscribe
  <2> HIDE DEF cmd, args
  <2>3. Formed("unsubscribe", i, m, cmd)
    BY <1>1, <1>2, <2>2 DEF Formed, Writes
  <2> QED
    BY <2>1, <2>3 DEF Begun, cmd
<1>10. CASE NetworkOpenStatus \/ QueryConnectionState
  <2>1. PICK i \in Idxs, fn \in Queries : Begin(fn, i, 0, QueryFormat(i))
    BY <1>10 DEF NetworkOpenStatus, QueryConnectionState, Queries
  <2> DEFINE cmd == QueryFormat(i)
  <2>2. i > ClientIdxMax => cmd = Invalid
    BY DEF QueryFormat
  <2> HIDE DEF cmd
  <2>3. Formed(fn, i, 0, cmd)
    BY <1>1, <1>2, <2>2 DEF Formed
  <2> QED
    BY <2>1, <2>3 DEF Begun, cmd
<1> QED
  BY <1>3, <1>4, <1>5, <1>6, <1>7, <1>8, <1>9, <1>10

-------------------------------------------------------------------------------
(* What the modem answers.                                                     *)

LEMMA ClientsFinite ==
  /\ \A i \in Clients : i \in Nat
  /\ \A S \in SUBSET Clients : IsFiniteSet(S) /\ Cardinality(S) \in Nat
<1>1. IsFiniteSet(0..ClientIdxMax)
  <2>1. PICK m \in Int : m = ClientIdxMax
    BY DEF ClientIdxMax
  <2>2. IsFiniteSet(0..m)
    BY m \in Int, 0 \in Int, FS_Interval, Zenon
  <2> QED
    BY <2>1, <2>2
<1>2. IsFiniteSet(Clients)
  BY <1>1, MqttAssumption, FS_Subset
<1>3. \A i \in Clients : i \in Nat
  BY MqttAssumption
<1> QED
  BY <1>2, <1>3, FS_Subset, FS_CardinalityType

LEMMA Answered ==
  ASSUME NEW c, NEW T, NEW t \in Seq(T)
  PROVE  /\ \E S : Answer(c, t) \in Seq(S)
         /\ Range(Answer(c, t)) \subseteq {Basic("echo", c)} \cup Range(t)
<1> DEFINE e == Basic("echo", c)
<1> HIDE DEF e
<1>1. CASE Echo
  <2>1. Answer(c, t) = <<e>> \o t
    BY <1>1 DEF Answer, e
  <2>2. <<e>> \in Seq({e}) /\ Range(<<e>>) = {e}
    BY Single
  <2> DEFINE s == <<e>>
  <2> HIDE DEF s
  <2>3. /\ Answer(c, t) \in Seq({e} \cup T)
        /\ Range(Answer(c, t)) = Range(s) \cup Range(t)
    <3>1. IsJoin(Answer(c, t), s, t)
      BY <2>1 DEF IsJoin, s
    <3>2. s \in Seq({e})
      BY <2>2 DEF s
    <3>3. Range(Answer(c, t)) = Range(s) \cup Range(t)
      BY <3>1, <3>2, JoinedRange
    <3>4. s \o t \in Seq({e} \cup T)
      BY <3>2
    <3> QED
      BY <2>1, <3>3, <3>4 DEF s
  <2> QED
    BY <2>2, <2>3 DEF s, e
<1>2. CASE ~Echo
  <2>1. Answer(c, t) = <<>> \o t
    BY <1>2 DEF Answer
  <2>2. <<>> \o t = t
    BY ConcatEmptySeq
  <2> QED
    BY <2>1, <2>2
<1> QED
  BY <1>1, <1>2

\* The clients a query tells of, in order.
Told == {i \in Clients : link[i] # "closed"}
Nth(k) == CHOOSE i \in Told : Cardinality({j \in Told : j < i}) = k - 1

LEMMA States ==
  ASSUME NEW c
  PROVE  /\ \E S : StateLines(c) \in Seq(S)
         /\ Len(StateLines(c)) = Cardinality(Told) /\ Cardinality(Told) \in Nat
         /\ DOMAIN StateLines(c) = 1..Cardinality(Told)
         /\ \A k \in 1..Cardinality(Told) :
              StateLines(c)[k] = Line("line", c, StateNums(c, Nth(k)))
<1> DEFINE n == Cardinality(Told)
           x(k) == Line("line", c, StateNums(c, Nth(k)))
           t == StateLines(c)
           S == {x(k) : k \in 1..n}
<1>1. n \in Nat
  BY ClientsFinite DEF Told
<1>2. t = [k \in 1..n |-> x(k)]
  BY DEF StateLines, Told, Nth
<1> HIDE DEF n, x, t
<1>3. \A k \in 1..n : x(k) \in S
  OBVIOUS
<1> HIDE DEF S
<1>4. t \in [1..n -> S]
  BY <1>2, <1>3
<1>5. t \in Seq(S) /\ Len(t) = n /\ DOMAIN t = 1..n /\ \A k \in 1..n : t[k] = x(k)
  BY <1>1, <1>2, <1>4
<1> QED
  BY <1>1, <1>5 DEF n, t, x

LEMMA StatesAre ==
  ASSUME NEW c, NEW l \in Range(StateLines(c))
  PROVE  l.kind = "line" /\ l.name = Name(c.fn) /\ l.id = c.id
<1>1. PICK k : l = Line("line", c, StateNums(c, Nth(k)))
  BY States DEF Range
<1> DEFINE nums == StateNums(c, Nth(k))
           name == Name(c.fn)
<1> HIDE DEF nums, name
<1>2. l = [kind |-> "line", name |-> name, nums |-> nums, id |-> c.id]
  BY <1>1 DEF Line, nums, name
<1> QED
  BY <1>2 DEF name

\* A line of a result, as publish, subscribe and unsubscribe report it.
ResultNames == {"QMTPUB", "QMTSUB", "QMTUNS"}
Result(l) == l.kind = "line" /\ l.name \in ResultNames

LEMMA BasicIs ==
  ASSUME NEW kind, NEW c
  PROVE  Basic(kind, c).kind = kind /\ Basic(kind, c).name = Name(c.fn) /\ Basic(kind, c).id = c.id
<1> DEFINE name == Name(c.fn)
<1> HIDE DEF name
<1>1. Basic(kind, c) = [kind |-> kind, name |-> name, nums |-> <<>>, id |-> c.id]
  BY DEF Basic, Line, name
<1> QED
  BY <1>1 DEF name

LEMMA ResultLineIs ==
  ASSUME NEW c, NEW r
  PROVE  /\ ResultLine(c, r).kind = "line" /\ ResultLine(c, r).name = Name(c.fn)
         /\ ResultLine(c, r).id = c.id
         /\ ResultLine(c, r).nums = IF c.fn \in {"publish", "subscribe", "unsubscribe"}
                                    THEN <<c.idx, c.msgid, r>> ELSE <<c.idx, r>>
<1> DEFINE name == Name(c.fn)
           nums == IF c.fn \in {"publish", "subscribe", "unsubscribe"}
                   THEN <<c.idx, c.msgid, r>> ELSE <<c.idx, r>>
<1> HIDE DEF name, nums
<1>1. ResultLine(c, r) = [kind |-> "line", name |-> name, nums |-> nums, id |-> c.id]
  BY DEF ResultLine, Line, name, nums
<1> QED
  BY <1>1 DEF name, nums

\* Names are told apart.
LEMMA NameIs ==
  ASSUME NEW fn \in Writes \cup Queries
  PROVE  /\ Name(fn) \in ResultNames <=> fn \in {"publish", "subscribe", "unsubscribe"}
         /\ fn \in Queries => Name(fn) \notin ResultNames
<1>1. fn = "publish" => Name(fn) = "QMTPUB"
  BY Zenon DEF Name
<1>2. fn = "subscribe" => Name(fn) = "QMTSUB"
  BY DEF Name
<1>3. fn = "unsubscribe" => Name(fn) = "QMTUNS"
  BY DEF Name
<1>4. fn \in {"open", "open_status"} => Name(fn) = "QMTOPEN"
  BY DEF Name
<1>5. fn = "close" => Name(fn) = "QMTCLOSE"
  BY DEF Name
<1>6. fn \in {"connect", "connection_state"} => Name(fn) = "QMTCONN"
  BY DEF Name
<1>7. fn = "disconnect" => Name(fn) = "QMTDISC"
  BY DEF Name
<1> QED
  BY <1>1, <1>2, <1>3, <1>4, <1>5, <1>6, <1>7 DEF Writes, Queries, ResultNames

\* What a modem that takes something up adds to the lines reports no result.
LEMMA ModemNews ==
  ASSUME TypeInv, ModemTakes
  PROVE  /\ \E S : rx' \in Seq(S)
         /\ \A l \in Range(rx') : l \in Range(rx) \/ (l.kind \in Kinds /\ ~Result(l))
<1> DEFINE c == Head(tx).call
<1>1. PICK R : rx \in Seq(R)
  BY DEF TypeInv
<1>2. \/ rx' = rx
      \/ c.fn \in Queries /\ rx' = rx \o Answer(c, StateLines(c) \o <<Basic("ok", c)>>)
      \/ \E kind \in {"prompt", "ok", "error"} : rx' = rx \o Answer(c, <<Basic(kind, c)>>)
      \/ rx' = Append(rx, Basic("ok", dcall))
  BY DEF ModemTakes
<1> HIDE DEF c
<1>3. ASSUME NEW d, NEW kind \in {"prompt", "ok", "error", "echo"}
      PROVE  Basic(kind, d).kind \in Kinds /\ ~Result(Basic(kind, d))
  BY BasicIs DEF Kinds, Echoes, Result
<1>4. ASSUME NEW T, NEW t \in Seq(T), rx' = rx \o Answer(c, t)
      PROVE  /\ \E S : rx' \in Seq(S)
             /\ \A l \in Range(rx') : l \in Range(rx) \/ l = Basic("echo", c) \/ l \in Range(t)
  <2> DEFINE a == Answer(c, t)
  <2>1. PICK A : a \in Seq(A)
    BY Answered
  <2>2. Range(a) \subseteq {Basic("echo", c)} \cup Range(t)
    BY Answered
  <2> HIDE DEF a
  <2>3. rx' \in Seq(R \cup A) /\ Range(rx') = Range(rx) \cup Range(a)
    <3>1. rx' = rx \o a
      BY <1>4 DEF a
    <3>2. IsJoin(rx', rx, a)
      BY <3>1 DEF IsJoin
    <3>3. Range(rx') = Range(rx) \cup Range(a)
      BY <1>1, <2>1, <3>2, JoinedRange
    <3> QED
      BY <1>1, <2>1, <3>1, <3>3
  <2> QED
    BY <1>4, <2>2, <2>3 DEF a
<1>5. CASE rx' = rx
  BY <1>1, <1>5
<1>6. CASE c.fn \in Queries /\ rx' = rx \o Answer(c, StateLines(c) \o <<Basic("ok", c)>>)
  <2> DEFINE s == StateLines(c)
             y == Basic("ok", c)
             t == s \o <<y>>
  <2>1. PICK A : s \in Seq(A)
    BY States
  <2>2. \A l \in Range(s) : l.kind = "line" /\ l.name = Name(c.fn)
    BY StatesAre
  <2>3. rx' = rx \o Answer(c, t)
    BY <1>6
  <2> HIDE DEF s, y
  <2>4. <<y>> \in Seq({y}) /\ Range(<<y>>) = {y}
    BY Single
  <2> DEFINE end == <<y>>
  <2> HIDE DEF end
  <2>8. IsJoin(t, s, end) /\ end \in Seq({y})
    BY <2>4 DEF IsJoin, end
  <2>9. t \in Seq(A \cup {y})
    BY <2>1, <2>8
  <2> HIDE DEF t
  <2>5. Range(t) = Range(s) \cup Range(end)
    BY <2>1, <2>8, JoinedRange
  <2>6. \A l \in Range(s) : l.kind \in Kinds /\ ~Result(l)
    BY <1>6, <2>2, NameIs DEF Result, Kinds
  <2>7. y.kind \in Kinds /\ ~Result(y)
    BY <1>3 DEF y
  <2> QED
    BY <1>3, <1>4, <2>3, <2>4, <2>5, <2>6, <2>7, <2>9 DEF end
<1>7. ASSUME NEW kind \in {"prompt", "ok", "error"}, rx' = rx \o Answer(c, <<Basic(kind, c)>>)
      PROVE  /\ \E S : rx' \in Seq(S)
             /\ \A l \in Range(rx') : l \in Range(rx) \/ (l.kind \in Kinds /\ ~Result(l))
  <2> DEFINE y == Basic(kind, c)
  <2>1. y.kind \in Kinds /\ ~Result(y) /\ rx' = rx \o Answer(c, <<y>>)
    BY <1>3, <1>7
  <2> HIDE DEF y
  <2>2. <<y>> \in Seq({y}) /\ Range(<<y>>) = {y}
    BY Single
  <2> QED
    BY <1>3, <1>4, <2>1, <2>2
<1>8. CASE rx' = Append(rx, Basic("ok", dcall))
  <2> DEFINE y == Basic("ok", dcall)
  <2>1. y.kind \in Kinds /\ ~Result(y) /\ rx' = Append(rx, y)
    BY <1>3, <1>8
  <2> HIDE DEF y
  <2>2. Append(rx, y) \in Seq(R \cup {y}) /\ Range(Append(rx, y)) = Range(rx) \cup {y}
    BY <1>1, AppendedRange
  <2> QED
    BY <2>1, <2>2
<1> QED
  BY <1>2, <1>5, <1>6, <1>7, <1>8

-------------------------------------------------------------------------------
(* The types are kept.                                                         *)

LEMMA CalledStays ==
  ASSUME NEW c, NEW n \in Nat, NEW used, Called(c, n, used),
         NEW n2 \in Nat, n <= n2, NEW used2, used \subseteq used2
  PROVE  Called(c, n2, used2)
<1>1. c.id \in Nat
  BY DEF Called, Calls, CallIds
<1> QED
  BY <1>1 DEF Called

LEMMA InitTypes == Init => TypeInv
<1>1. SUFFICES ASSUME Init PROVE TypeInv
  OBVIOUS
<1>2. rx \in Seq({}) /\ tx \in Seq({}) /\ Range(rx) = {} /\ Range(tx) = {}
  BY <1>1, Single DEF Init
<1>3. link \in [Clients -> LinkStates]
  BY <1>1, MqttAssumption DEF Init
<1> QED
  BY <1>1, <1>2, <1>3, MqttAssumption DEF Init, TypeInv

\* The record a call that is formatted becomes.
LEMMA NewCall ==
  ASSUME TypeInv, nextId \in CallIds, NEW fn, NEW idx, NEW msgid, NEW cmd,
         Formed(fn, idx, msgid, cmd), cmd.err = "ESP_OK", NEW fresh \in BOOLEAN,
         NEW c, c = [fn |-> fn, idx |-> idx, msgid |-> msgid, id |-> nextId, fresh |-> fresh]
  PROVE  Called(c, nextId + 1, usedMsgids \cup {msgid})
<1>1. c \in Calls
  BY DEF Formed, Calls
<1>2. c.idx = idx /\ c.id = nextId /\ c.msgid = msgid /\ nextId \in Nat
  BY MqttAssumption DEF CallIds
<1> QED
  BY <1>1, <1>2 DEF Called, Formed

\* What a call that is formatted does.
Began(c, w) ==
  /\ pc = "idle" /\ nextId \in CallIds /\ c.id = nextId
  /\ w \in HwWriteOutcomes
  /\ nextId' = nextId + 1 /\ call' = c
  /\ c.fresh = (c.msgid # 0 /\ c.msgid \notin usedMsgids)
  /\ tx' = IF w.sent THEN Append(tx, [part |-> "cmd", call |-> c]) ELSE tx
  /\ rx' = IF w.flushed THEN <<>> ELSE rx
  /\ pc' = IF w.err = "ESP_OK" THEN FirstLoop(c.fn) ELSE "idle"
  /\ status' = IF w.err # "ESP_OK" THEN w.err ELSE "none"
  /\ debt' = IF w.err # "ESP_OK" THEN debt \cup {nextId} ELSE debt
  /\ usedMsgids' = usedMsgids \cup {c.msgid}
  /\ response' = IF Reuse /\ c.fn \in Queries /\ c.fn = call.fn THEN response ELSE NoResponse
  /\ UNCHANGED <<modem, ahead>>
  /\ Called(c, nextId', usedMsgids')

LEMMA BegunIs ==
  ASSUME TypeInv, Begun
  PROVE  \/ \E c, w : Began(c, w)
         \/ pc = "idle" /\ \E err : Refuse(err)
<1>1. PICK fn, idx, msgid, cmd : Formed(fn, idx, msgid, cmd) /\ Begin(fn, idx, msgid, cmd)
  BY DEF Begun
<1>2. CASE Refuse(cmd.err)
  BY <1>1, <1>2 DEF Begin
<1>3. CASE cmd.err = "ESP_OK"
  <2> DEFINE fresh == (msgid # 0 /\ msgid \notin usedMsgids)
             c == [fn |-> fn, idx |-> idx, msgid |-> msgid, id |-> nextId, fresh |-> fresh]
  <2>1. pc = "idle" /\ nextId \in CallIds /\ ~Refuse(cmd.err)
    BY <1>1, <1>3 DEF Begin, Refuse
  <2>2. PICK w \in HwWriteOutcomes :
          /\ nextId' = nextId + 1 /\ call' = c
          /\ tx' = IF w.sent THEN Append(tx, [part |-> "cmd", call |-> c]) ELSE tx
          /\ rx' = IF w.flushed THEN <<>> ELSE rx
          /\ pc' = IF w.err = "ESP_OK" THEN FirstLoop(fn) ELSE "idle"
          /\ status' = IF w.err # "ESP_OK" THEN w.err ELSE "none"
          /\ debt' = IF w.err # "ESP_OK" THEN debt \cup {nextId} ELSE debt
          /\ usedMsgids' = usedMsgids \cup {msgid}
          /\ response' = IF Reuse /\ fn \in Queries /\ fn = call.fn THEN response ELSE NoResponse
          /\ UNCHANGED <<modem, ahead>>
    BY <1>1, <2>1 DEF Begin
  <2>3. fresh \in BOOLEAN /\ fresh = (msgid # 0 /\ msgid \notin usedMsgids)
    OBVIOUS
  <2> HIDE DEF fresh
  <2>4. c.fn = fn /\ c.msgid = msgid /\ c.id = nextId /\ c.fresh = fresh
    OBVIOUS
  <2>5. Called(c, nextId + 1, usedMsgids \cup {msgid})
    BY <1>1, <1>3, <2>1, <2>3, NewCall
  <2> HIDE DEF c
  <2>6. Called(c, nextId', usedMsgids')
    BY <2>2, <2>5
  <2>7. c.fresh = (c.msgid # 0 /\ c.msgid \notin usedMsgids)
    BY <2>3, <2>4
  <2>8. Began(c, w)
    BY <2>1, <2>2, <2>4, <2>6, <2>7 DEF Began
  <2> QED
    BY <2>8
<1> QED
  BY <1>1, <1>2, <1>3 DEF Begin

LEMMA BeginTypes == ASSUME TypeInv, Begun PROVE TypeInv'
<1>1. CASE pc = "idle" /\ \E err : Refuse(err)
  <2>1. /\ pc = "idle" /\ call' = [fn |-> "none"]
        /\ UNCHANGED <<pc, tx, rx, modem, nextId, debt, usedMsgids>>
    BY <1>1 DEF Refuse
  <2> QED
    BY <2>1 DEF TypeInv, modem
<1>2. ASSUME NEW c, NEW w, Began(c, w) PROVE TypeInv'
  <2>1. /\ nextId' = nextId + 1 /\ nextId \in CallIds /\ call' = c
        /\ Called(c, nextId', usedMsgids') /\ usedMsgids \subseteq usedMsgids'
        /\ UNCHANGED modem
        /\ pc' \in {"idle", FirstLoop(c.fn)}
    BY <1>2 DEF Began
  <2>2. nextId \in Nat /\ nextId' \in 1..(MaxCalls + 1) /\ nextId <= nextId' /\ nextId' \in Nat
        /\ 1..(nextId - 1) \subseteq 1..(nextId' - 1) /\ nextId \in 1..(nextId' - 1)
    BY <2>1, MqttAssumption DEF CallIds
  <2>3. ASSUME NEW d, Called(d, nextId, usedMsgids) PROVE Called(d, nextId', usedMsgids')
    BY <2>1, <2>2, <2>3, CalledStays
  <2>4. /\ \E S : rx' \in Seq(S)
        /\ \A l \in Range(rx') : l.kind \in Kinds
    <3>1. rx' = rx \/ rx' = <<>>
      BY <1>2 DEF Began
    <3>2. <<>> \in Seq({}) /\ Range(<<>>) = {}
      BY Single
    <3> QED
      BY <3>1, <3>2 DEF TypeInv
  <2>5. /\ \E S : tx' \in Seq(S)
        /\ \A x \in Range(tx') : Called(x.call, nextId', usedMsgids')
    <3> DEFINE y == [part |-> "cmd", call |-> c]
    <3>1. y.call = c
      OBVIOUS
    <3>2. tx' = tx \/ tx' = Append(tx, y)
      BY <1>2 DEF Began
    <3> HIDE DEF y
    <3>3. PICK S : tx \in Seq(S)
      BY DEF TypeInv
    <3>4. Append(tx, y) \in Seq(S \cup {y}) /\ Range(Append(tx, y)) = Range(tx) \cup {y}
      BY <3>3, AppendedRange
    <3>5. \A x \in Range(tx) : Called(x.call, nextId', usedMsgids')
      BY <2>3 DEF TypeInv
    <3> QED
      BY <2>1, <3>1, <3>2, <3>3, <3>4, <3>5
  <2>6. pc' \in {"idle", "prompt", "read"} /\ (pc' = "prompt" => call'.fn = "publish")
    BY <2>1 DEF FirstLoop
  <2>7. debt' \subseteq 1..(nextId' - 1) /\ acked' \subseteq 1..(nextId' - 1)
    <3>1. debt' \subseteq debt \cup {nextId} /\ acked' = acked
      BY <1>2, <2>1 DEF Began, modem
    <3> QED
      BY <2>2, <3>1 DEF TypeInv
  <2>8. \A j \in jobs' : Called(j.call, nextId', usedMsgids')
    BY <2>1, <2>3 DEF TypeInv, modem
  <2>9. mode' = "data" => Called(dcall', nextId', usedMsgids') /\ dcall'.fn = "publish"
    <3>1. mode' = mode /\ dcall' = dcall
      BY <2>1 DEF modem
    <3> QED
      BY <2>3, <3>1 DEF TypeInv
  <2> QED
    BY <2>1, <2>2, <2>4, <2>5, <2>6, <2>7, <2>8, <2>9 DEF TypeInv, modem
<1> QED
  BY <1>1, <1>2, BegunIs

\* Reading takes lines away.
LEMMA ReadRx ==
  ASSUME TypeInv, SendMessage \/ Finish \/ GiveUp
  PROVE  (\E S : rx' \in Seq(S)) /\ Range(rx') \subseteq Range(rx)
<1>1. PICK S : rx \in Seq(S)
  BY DEF TypeInv
<1>2. Len(rx) \in Nat /\ DOMAIN rx = 1..Len(rx)
  BY <1>1
<1>3. rx' = <<>> \/ rx' = rx \/ \E n \in 0..Len(rx) : rx' = Rest(rx, n)
  <2>1. CASE SendMessage
    <3>1. PICK k \in DOMAIN rx : \E n \in k..Len(rx) : rx' = <<>> \/ rx' = Rest(rx, n)
      BY <2>1 DEF SendMessage
    <3> QED
      BY <1>2, <3>1
  <2>2. CASE Finish
    BY <1>2, <2>2 DEF Finish, Reads
  <2>3. CASE GiveUp
    <3>1. \A n \in ReadsInVain(rx, Name(call.fn), RType(call.fn)) : n \in 0..Len(rx)
      BY DEF ReadsInVain
    <3>2. \A n \in Overflows(rx, Name(call.fn), RType(call.fn)) : n \in 0..Len(rx)
      BY <1>2 DEF Overflows
    <3> QED
      BY <2>3, <3>1, <3>2 DEF GiveUp
  <2> QED
    BY <2>1, <2>2, <2>3
<1>4. <<>> \in Seq({}) /\ Range(<<>>) = {}
  BY Single
<1>5. ASSUME NEW n \in 0..Len(rx)
      PROVE  Rest(rx, n) \in Seq(S) /\ Range(Rest(rx, n)) \subseteq Range(rx)
  BY <1>1, RemainingRange
<1> QED
  BY <1>1, <1>3, <1>4, <1>5

LEMMA ReadTypes == ASSUME TypeInv, SendMessage \/ Finish \/ GiveUp PROVE TypeInv'
<1>1. /\ pc # "idle" /\ pc' \in {"idle", "read"} /\ UNCHANGED <<call, modem, nextId, usedMsgids>>
      /\ debt' \in {debt, debt \cup {call.id}}
  BY DEF SendMessage, Finish, GiveUp, Return
<1>2. Called(call, nextId, usedMsgids)
  BY <1>1 DEF TypeInv
<1>3. call.id \in 1..(nextId - 1)
  BY <1>2, MqttAssumption DEF Called, Calls, CallIds, TypeInv
<1>4. /\ \E S : tx' \in Seq(S)
      /\ \A x \in Range(tx') : Called(x.call, nextId, usedMsgids)
  <2> DEFINE y == [part |-> "data", call |-> call]
  <2>1. y.call = call
    OBVIOUS
  <2>2. tx' = tx \/ tx' = Append(tx, y)
    BY DEF SendMessage, Finish, GiveUp
  <2> HIDE DEF y
  <2>3. PICK S : tx \in Seq(S)
    BY DEF TypeInv
  <2>4. Append(tx, y) \in Seq(S \cup {y}) /\ Range(Append(tx, y)) = Range(tx) \cup {y}
    BY <2>3, AppendedRange
  <2>5. \A x \in Range(tx) : Called(x.call, nextId, usedMsgids)
    BY DEF TypeInv
  <2> QED
    BY <1>2, <2>1, <2>2, <2>3, <2>4, <2>5
<1>5. (\E S : rx' \in Seq(S)) /\ \A l \in Range(rx') : l.kind \in Kinds
  BY ReadRx DEF TypeInv
<1> QED
  BY <1>1, <1>2, <1>3, <1>4, <1>5 DEF TypeInv, modem

\* The item the modem takes up is the first.
LEMMA TakesFirst ==
  ASSUME TypeInv, ModemTakes
  PROVE  /\ Head(tx) \in Range(tx) /\ Range(tx') \subseteq Range(tx)
         /\ \E S : tx' \in Seq(S)
<1>1. PICK S : tx \in Seq(S)
  BY DEF TypeInv
<1>2. tx # <<>> /\ tx' = Tail(tx)
  BY DEF ModemTakes
<1>3. /\ Len(tx) \in Nat /\ Len(tx) >= 1 /\ Head(tx) = tx[1] /\ DOMAIN tx = 1..Len(tx)
      /\ tx' \in Seq(S) /\ Len(tx') = Len(tx) - 1 /\ DOMAIN tx' = 1..(Len(tx) - 1)
      /\ \A k \in 1..(Len(tx) - 1) : tx'[k] = tx[k + 1]
  BY <1>1, <1>2
<1>4. \A k \in 1..(Len(tx) - 1) : k + 1 \in 1..Len(tx)
  BY <1>3
<1>5. Range(tx') \subseteq Range(tx)
  BY <1>3, <1>4 DEF Range
<1>6. Head(tx) \in Range(tx)
  BY <1>3 DEF Range
<1> QED
  BY <1>3, <1>5, <1>6

\* An operation of a call that was written.
LEMMA JobOf ==
  ASSUME TypeInv, NEW c, Called(c, nextId, usedMsgids), NEW a \in BOOLEAN,
         NEW js, js \subseteq jobs \cup {[call |-> c, again |-> a]}
  PROVE  /\ js \subseteq [call : Calls, again : BOOLEAN]
         /\ \A j \in js : Called(j.call, nextId, usedMsgids)
<1> DEFINE y == [call |-> c, again |-> a]
<1>1. c \in Calls
  BY DEF Called
<1>2. y \in [call : Calls, again : BOOLEAN] /\ y.call = c
  BY <1>1
<1> HIDE DEF y
<1>3. js \subseteq jobs \cup {y}
  BY DEF y
<1> QED
  BY <1>2, <1>3 DEF TypeInv

LEMMA ModemTypes == ASSUME TypeInv, ModemTakes PROVE TypeInv'
<1> DEFINE c == Head(tx).call
<1>1. /\ UNCHANGED <<pc, call, link, nextId, urcs, acked, debt, usedMsgids>>
      /\ mode' \in {"command", "data"}
      /\ mode' = "data" => (mode = "data" /\ dcall' = dcall) \/ (dcall' = c /\ c.fn = "publish")
      /\ \/ jobs' = jobs
         \/ jobs' = jobs \cup {[call |-> c, again |-> FALSE]}
         \/ mode = "data" /\ jobs' = jobs \cup {[call |-> dcall, again |-> FALSE]}
  BY DEF ModemTakes, TypeInv
<1>2. Called(c, nextId, usedMsgids)
  BY TakesFirst DEF TypeInv
<1>5. /\ jobs' \subseteq [call : Calls, again : BOOLEAN]
      /\ \A j \in jobs' : Called(j.call, nextId, usedMsgids)
  <2>1. mode = "data" => Called(dcall, nextId, usedMsgids)
    BY DEF TypeInv
  <2>2. CASE jobs' = jobs
    BY <2>2 DEF TypeInv
  <2>3. CASE jobs' = jobs \cup {[call |-> c, again |-> FALSE]}
    BY <1>2, <2>3, JobOf
  <2>4. CASE mode = "data" /\ jobs' = jobs \cup {[call |-> dcall, again |-> FALSE]}
    BY <2>1, <2>4, JobOf
  <2> QED
    BY <1>1, <2>2, <2>3, <2>4
<1> HIDE DEF c
<1>3. (\E S : rx' \in Seq(S)) /\ \A l \in Range(rx') : l.kind \in Kinds
  BY ModemNews DEF TypeInv
<1>4. (\E S : tx' \in Seq(S)) /\ \A w \in Range(tx') : Called(w.call, nextId, usedMsgids)
  BY TakesFirst DEF TypeInv
<1> QED
  BY <1>1, <1>2, <1>3, <1>4, <1>5 DEF TypeInv

\* What the modem reports of itself.
LEMMA Reported ==
  ASSUME TypeInv, NEW x, rx' = Append(rx, x)
  PROVE  (\E S : rx' \in Seq(S)) /\ Range(rx') = Range(rx) \cup {x}
<1>1. PICK S : rx \in Seq(S)
  BY DEF TypeInv
<1>2. Append(rx, x) \in Seq(S \cup {x}) /\ Range(Append(rx, x)) = Range(rx) \cup {x}
  BY <1>1, AppendedRange
<1> QED
  BY <1>2

LEMMA JobTypes == ASSUME TypeInv, JobEnds \/ JobRetransmits PROVE TypeInv'
<1>1. PICK j \in jobs :
        /\ UNCHANGED <<pc, call, tx, mode, dcall, nextId, urcs, debt, usedMsgids>>
        /\ jobs' \subseteq jobs \cup {[call |-> j.call, again |-> TRUE]}
        /\ \E r : rx' = Append(rx, ResultLine(j.call, r))
        /\ acked' \in {acked, acked \cup {j.call.id}}
        /\ link' \in {link, [link EXCEPT ![j.call.idx] = After(j.call)]}
  <2>1. CASE JobEnds
    BY <2>1 DEF JobEnds
  <2>2. CASE JobRetransmits
    <3>1. PICK j \in jobs :
            /\ jobs' = (jobs \ {j}) \cup {[j EXCEPT !.again = TRUE]}
            /\ rx' = Append(rx, ResultLine(j.call, Retransmission))
            /\ UNCHANGED <<pc, call, tx, link, mode, dcall, nextId, urcs, acked, debt,
                           usedMsgids>>
      BY <2>2 DEF JobRetransmits
    <3>2. j \in [call : Calls, again : BOOLEAN]
      BY DEF TypeInv
    <3>3. [j EXCEPT !.again = TRUE] = [call |-> j.call, again |-> TRUE]
      <4> DEFINE e == [j EXCEPT !.again = TRUE]
      <4>1. e \in [call : Calls, again : BOOLEAN] /\ e.call = j.call /\ e.again = TRUE
        BY <3>2
      <4> HIDE DEF e
      <4>2. e = [call |-> e.call, again |-> e.again]
        BY <4>1
      <4> QED
        BY <4>1, <4>2 DEF e
    <3> QED
      BY <3>1, <3>3
  <2> QED
    BY <2>1, <2>2
<1>2. Called(j.call, nextId, usedMsgids)
  BY DEF TypeInv
<1>3. j.call.id \in 1..(nextId - 1)
  BY <1>2, MqttAssumption DEF Called, Calls, CallIds, TypeInv
<1>4. (\E S : rx' \in Seq(S)) /\ \A l \in Range(rx') : l.kind \in Kinds
  <2>1. PICK r : rx' = Append(rx, ResultLine(j.call, r))
    BY <1>1
  <2> DEFINE y == ResultLine(j.call, r)
  <2>2. y.kind \in Kinds
    BY ResultLineIs DEF Kinds
  <2> HIDE DEF y
  <2>3. (\E S : rx' \in Seq(S)) /\ Range(rx') = Range(rx) \cup {y}
    BY <2>1, Reported DEF y
  <2> QED
    BY <2>2, <2>3 DEF TypeInv
<1>5. link' \in [Clients -> LinkStates]
  <2>1. link \in [Clients -> LinkStates]
    BY DEF TypeInv
  <2>2. j.call.idx \in Clients => After(j.call) \in LinkStates
    BY <2>1 DEF After, LinkStates
  <2> QED
    BY <1>1, <2>1, <2>2
<1>6. /\ jobs' \subseteq [call : Calls, again : BOOLEAN]
      /\ \A i \in jobs' : Called(i.call, nextId, usedMsgids)
  BY <1>1, <1>2, JobOf
<1> QED
  BY <1>1, <1>2, <1>3, <1>4, <1>5, <1>6 DEF TypeInv

LEMMA UnsolicitedTypes == ASSUME TypeInv, Unsolicited PROVE TypeInv'
<1>1. PICK i \in Clients, kind \in UrcKinds :
        /\ link' \in {link, [link EXCEPT ![i] = "closed"]}
        /\ rx' = Append(rx, [kind |-> kind, name |-> "QMTSTAT", nums |-> <<i, 1>>, id |-> 0])
  BY DEF Unsolicited
<1> DEFINE y == [kind |-> kind, name |-> "QMTSTAT", nums |-> <<i, 1>>, id |-> 0]
<1>2. y.kind \in Kinds
  BY MqttAssumption DEF Kinds
<1>3. rx' = Append(rx, y)
  BY <1>1
<1> HIDE DEF y
<1>4. (\E S : rx' \in Seq(S)) /\ Range(rx') = Range(rx) \cup {y}
  BY <1>3, Reported
<1>5. (\E S : rx' \in Seq(S)) /\ \A l \in Range(rx') : l.kind \in Kinds
  BY <1>2, <1>4 DEF TypeInv
<1>6. link' \in [Clients -> LinkStates]
  BY <1>1 DEF TypeInv, LinkStates
<1>7. urcs' \in Nat
  BY DEF Unsolicited, TypeInv
<1>8. UNCHANGED <<pc, call, tx, jobs, mode, dcall, nextId, acked, debt, usedMsgids>>
  BY DEF Unsolicited
<1> QED
  BY <1>5, <1>6, <1>7, <1>8 DEF TypeInv

LEMMA StepTypes == TypeInv /\ [Next]_vars => TypeInv'
<1>1. SUFFICES ASSUME TypeInv, [Next]_vars PROVE TypeInv'
  OBVIOUS
<1>2. CASE UNCHANGED vars
  BY <1>1, <1>2 DEF vars, TypeInv
<1> QED
  BY <1>1, <1>2, CallsBegin, BeginTypes, ReadTypes, ModemTypes, JobTypes, UnsolicitedTypes DEF Next

LEMMA AlwaysTypes == Spec => []TypeInv
BY InitTypes, StepTypes, PTL DEF Spec

\* Whatever is written to the modem, taken up or left, has a client index the
\* modem can have: none of the nine calls lets another one through.
THEOREM TypesOK == Spec => []TypeOK
BY AlwaysTypes, TypeInvImplies, PTL

-------------------------------------------------------------------------------
(* Whose message is published under whose topic.                               *)

Message(c) == [part |-> "data", call |-> c]

\* After position k of the items s on their way to the modem comes the message
\* of call c, or, in loop p of call d, it is still to be written.
Followed(s, p, d, c, k) ==
  \/ k + 1 <= Len(s) /\ s[k + 1] = Message(c)
  \/ k = Len(s) /\ p = "prompt" /\ d = c

IsPublish(w) == w.part = "cmd" /\ w.call.fn = "publish"

\* Each publish that was not given up is followed by its message: those on their
\* way, and the one the modem has taken up.
PairInv ==
  /\ \E S : tx \in Seq(S)
  /\ \A k \in 1..Len(tx) :
       IsPublish(tx[k]) /\ tx[k].call.id \notin debt => Followed(tx, pc, call, tx[k].call, k)
  /\ mode = "data" /\ dcall.id \notin debt => Followed(tx, pc, call, dcall, 0)
  /\ SwappedIsAbandoned

LEMMA InitPairs == Init => PairInv
<1>1. SUFFICES ASSUME Init PROVE PairInv
  OBVIOUS
<1>2. tx \in Seq({}) /\ Len(tx) = 0
  BY <1>1 DEF Init
<1> QED
  BY <1>1, <1>2 DEF Init, PairInv, SwappedIsAbandoned

\* An item is written behind the others.
LEMMA Written ==
  ASSUME NEW S, tx \in Seq(S), NEW x, tx' = Append(tx, x)
  PROVE  /\ tx' \in Seq(S \cup {x}) /\ Len(tx) \in Nat /\ Len(tx') = Len(tx) + 1
         /\ \A k \in 1..Len(tx) : tx'[k] = tx[k]
         /\ tx'[Len(tx) + 1] = x
<1>1. tx \in Seq(S \cup {x}) /\ x \in S \cup {x}
  OBVIOUS
<1> QED
  BY <1>1, AppendProperties

\* Nothing is written, and what waits for its message, if it does no longer, was
\* given up.
LEMMA NothingWritten ==
  ASSUME PairInv, tx' = tx, mode' = mode, dcall' = dcall, published' = published,
         debt \subseteq debt',
         pc = "prompt" => (pc' = "prompt" /\ call' = call) \/ call.id \in debt'
  PROVE  PairInv'
<1>1. ASSUME NEW c, NEW k, Followed(tx, pc, call, c, k), c.id \notin debt'
      PROVE  Followed(tx', pc', call', c, k)
  BY <1>1 DEF Followed
<1> QED
  BY <1>1 DEF PairInv, SwappedIsAbandoned, IsPublish

LEMMA BeginPairs ==
  ASSUME PairInv, NEW fn, NEW idx, NEW msgid, NEW cmd, Begin(fn, idx, msgid, cmd)
  PROVE  PairInv'
<1>1. pc = "idle" /\ UNCHANGED modem
  BY DEF Begin, Refuse
<1>2. CASE Refuse(cmd.err)
  BY <1>1, <1>2, NothingWritten DEF Refuse, modem
<1>3. CASE cmd.err = "ESP_OK"
  <2> DEFINE c == [fn |-> fn, idx |-> idx, msgid |-> msgid, id |-> nextId,
                   fresh |-> msgid # 0 /\ msgid \notin usedMsgids]
             x == [part |-> "cmd", call |-> c]
  <2>1. PICK w \in HwWriteOutcomes :
          /\ tx' = IF w.sent THEN Append(tx, x) ELSE tx
          /\ pc' = IF w.err = "ESP_OK" THEN FirstLoop(fn) ELSE "idle"
          /\ debt' = IF w.err # "ESP_OK" THEN debt \cup {nextId} ELSE debt
          /\ call' = c
    BY <1>3 DEF Begin, Refuse
  <2>2. x.call = c /\ c.id = nextId /\ c.fn = fn
    OBVIOUS
  <2> HIDE DEF c, x
  <2>3. debt \subseteq debt'
    BY <2>1
  <2>4. CASE ~w.sent
    BY <1>1, <2>1, <2>3, <2>4, NothingWritten DEF modem
  <2>5. CASE w.sent
    <3>1. PICK S : tx \in Seq(S)
      BY DEF PairInv
    <3>2. /\ tx' \in Seq(S \cup {x}) /\ Len(tx) \in Nat /\ Len(tx') = Len(tx) + 1
          /\ \A k \in 1..Len(tx) : tx'[k] = tx[k]
          /\ tx'[Len(tx) + 1] = x
      BY <2>1, <2>5, <3>1, Written
    <3>3. ASSUME NEW d, NEW k \in 0..Len(tx), Followed(tx, pc, call, d, k)
          PROVE  Followed(tx', pc', call', d, k)
      BY <1>1, <3>2, <3>3 DEF Followed
    <3>4. IsPublish(x) /\ x.call.id \notin debt' => Followed(tx', pc', call', x.call, Len(tx) + 1)
      BY <2>1, <2>2, <3>2 DEF IsPublish, Followed, FirstLoop
    <3>5. ASSUME NEW k \in 1..Len(tx'), IsPublish(tx'[k]), tx'[k].call.id \notin debt'
          PROVE  Followed(tx', pc', call', tx'[k].call, k)
      <4>1. k \in 1..Len(tx) \/ k = Len(tx) + 1
        BY <3>2
      <4>2. CASE k \in 1..Len(tx)
        <5>1. Followed(tx, pc, call, tx[k].call, k)
          BY <2>3, <3>2, <3>5, <4>2 DEF PairInv
        <5> QED
          BY <3>2, <3>3, <4>2, <5>1
      <4>3. CASE k = Len(tx) + 1
        BY <3>2, <3>4, <3>5, <4>3
      <4> QED
        BY <4>1, <4>2, <4>3
    <3>6. mode' = "data" /\ dcall'.id \notin debt' => Followed(tx', pc', call', dcall', 0)
      BY <1>1, <2>3, <3>2, <3>3 DEF PairInv, modem
    <3>7. SwappedIsAbandoned'
      BY <1>1, <2>3 DEF PairInv, SwappedIsAbandoned, modem
    <3> QED
      BY <3>2, <3>5, <3>6, <3>7 DEF PairInv, IsPublish
  <2> QED
    BY <2>4, <2>5
<1> QED
  BY <1>2, <1>3 DEF Begin

LEMMA SendPairs == ASSUME PairInv, SendMessage PROVE PairInv'
<1> DEFINE x == Message(call)
<1>1. pc = "prompt" /\ UNCHANGED <<call, modem>>
  BY DEF SendMessage
<1>2. PICK w \in HwWriteOutcomes :
        /\ tx' = IF w.sent THEN Append(tx, x) ELSE tx
        /\ IF w.err = "ESP_OK" THEN pc' = "read" /\ UNCHANGED <<status, response, debt>>
                               ELSE Return(w.err, response, TRUE)
  BY DEF SendMessage, Message
<1> HIDE DEF x
<1>3. debt \subseteq debt' /\ (w.err # "ESP_OK" => call.id \in debt') /\ pc' # "prompt"
  BY <1>2 DEF Return
<1>4. CASE ~w.sent
  <2>1. w.err # "ESP_OK"
    BY <1>4 DEF HwWriteOutcomes
  <2> QED
    BY <1>1, <1>2, <1>3, <1>4, <2>1, NothingWritten DEF modem
<1>5. CASE w.sent
  <2>1. PICK S : tx \in Seq(S)
    BY DEF PairInv
  <2>2. /\ tx' \in Seq(S \cup {x}) /\ Len(tx) \in Nat /\ Len(tx') = Len(tx) + 1
        /\ \A k \in 1..Len(tx) : tx'[k] = tx[k]
        /\ tx'[Len(tx) + 1] = x
    BY <1>2, <1>5, <2>1, Written
  <2>3. ASSUME NEW d, NEW k \in 0..Len(tx), Followed(tx, pc, call, d, k)
        PROVE  Followed(tx', pc', call', d, k)
    <3>1. CASE k + 1 <= Len(tx) /\ tx[k + 1] = Message(d)
      BY <2>2, <3>1 DEF Followed, Message
    <3>2. CASE k = Len(tx) /\ call = d
      BY <2>2, <3>2 DEF Followed, Message, x
    <3> QED
      BY <2>3, <3>1, <3>2 DEF Followed
  <2>4. ~IsPublish(x)
    BY DEF IsPublish, x, Message
  <2>5. ASSUME NEW k \in 1..Len(tx'), IsPublish(tx'[k]), tx'[k].call.id \notin debt'
        PROVE  Followed(tx', pc', call', tx'[k].call, k)
    <3>1. k \in 1..Len(tx)
      <4>1. k # Len(tx) + 1
        BY <2>2, <2>4, <2>5
      <4> QED
        BY <2>2, <4>1
    <3>2. Followed(tx, pc, call, tx[k].call, k)
      BY <1>3, <2>2, <2>5, <3>1 DEF PairInv
    <3> QED
      BY <2>2, <2>3, <3>1, <3>2
  <2>6. mode' = "data" /\ dcall'.id \notin debt' => Followed(tx', pc', call', dcall', 0)
    BY <1>1, <1>3, <2>2, <2>3 DEF PairInv, modem
  <2>7. SwappedIsAbandoned'
    BY <1>1, <1>3 DEF PairInv, SwappedIsAbandoned, modem
  <2> QED
    BY <2>2, <2>5, <2>6, <2>7 DEF PairInv, IsPublish
<1> QED
  BY <1>4, <1>5

LEMMA ReadPairs == ASSUME PairInv, Finish \/ GiveUp PROVE PairInv'
<1>1. CASE Finish
  <2>1. pc = "read" /\ UNCHANGED <<tx, modem>> /\ debt' = debt
    BY <1>1 DEF Finish, Return
  <2> QED
    BY <2>1, NothingWritten DEF modem
<1>2. CASE GiveUp
  <2>1. UNCHANGED <<tx, modem>> /\ debt' = debt \cup {call.id}
    BY <1>2 DEF GiveUp, Return
  <2> QED
    BY <2>1, NothingWritten DEF modem
<1> QED
  BY <1>1, <1>2

\* The modem takes up a publish, or the message that is behind it.
LEMMA ModemPairs == ASSUME PairInv, ModemTakes PROVE PairInv'
<1> DEFINE w == Head(tx)
<1>1. tx # <<>> /\ tx' = Tail(tx) /\ UNCHANGED <<pc, call, debt>>
  BY DEF ModemTakes
<1>2. PICK S : tx \in Seq(S)
  BY DEF PairInv
<1>3. /\ tx' \in Seq(S) /\ Len(tx) \in Nat /\ Len(tx) >= 1 /\ Len(tx') = Len(tx) - 1
      /\ \A k \in 1..Len(tx') : tx'[k] = tx[k + 1]
      /\ w = tx[1]
  BY <1>1, <1>2
<1>4. /\ \/ mode = "command" /\ IsPublish(w) /\ mode' = "data" /\ dcall' = w.call
         \/ mode = "command" /\ mode' = mode
         \/ mode = "data" /\ mode' = "command"
         \/ mode = "data" /\ w.part = "cmd" /\ UNCHANGED <<mode, dcall>>
      /\ published' = IF mode = "data" /\ mode' = "command"
                      THEN published \cup {[of |-> dcall.id, payload |-> w.call.id]}
                      ELSE published
  BY DEF ModemTakes, IsPublish
<1> HIDE DEF w
<1>5. ASSUME NEW d, NEW k \in 1..Len(tx), Followed(tx, pc, call, d, k)
      PROVE  Followed(tx', pc', call', d, k - 1)
  <2>1. CASE k + 1 <= Len(tx) /\ tx[k + 1] = Message(d)
    <3>1. k \in 1..Len(tx') /\ (k - 1) + 1 = k
      BY <1>3, <2>1
    <3>2. tx'[k] = Message(d)
      BY <1>3, <2>1, <3>1
    <3> QED
      BY <3>1, <3>2 DEF Followed, Message
  <2>2. CASE k = Len(tx) /\ pc = "prompt" /\ call = d
    BY <1>1, <1>3, <2>2 DEF Followed
  <2> QED
    BY <1>5, <2>1, <2>2 DEF Followed
<1>6. ASSUME NEW k \in 1..Len(tx'), IsPublish(tx'[k]), tx'[k].call.id \notin debt'
      PROVE  Followed(tx', pc', call', tx'[k].call, k)
  <2>1. k + 1 \in 1..Len(tx) /\ tx'[k] = tx[k + 1] /\ (k + 1) - 1 = k
    BY <1>3
  <2>2. Followed(tx, pc, call, tx[k + 1].call, k + 1)
    BY <1>1, <1>6, <2>1 DEF PairInv
  <2>3. Followed(tx', pc', call', tx[k + 1].call, (k + 1) - 1)
    BY <1>5, <2>1, <2>2
  <2> QED
    BY <2>1, <2>3
<1>7. mode = "data" /\ dcall.id \notin debt => w = Message(dcall)
  BY <1>3 DEF PairInv, Followed
<1>8. mode' = "data" /\ dcall'.id \notin debt' => Followed(tx', pc', call', dcall', 0)
  <2>1. CASE mode = "command" /\ IsPublish(w) /\ mode' = "data" /\ dcall' = w.call
    <3>1. SUFFICES ASSUME w.call.id \notin debt PROVE Followed(tx', pc', call', dcall', 0)
      BY <1>1, <2>1
    <3>2. 1 \in 1..Len(tx) /\ 1 - 1 = 0
      BY <1>3
    <3>3. Followed(tx, pc, call, w.call, 1)
      BY <1>3, <2>1, <3>1, <3>2 DEF PairInv
    <3>4. Followed(tx', pc', call', w.call, 1 - 1)
      BY <1>5, <3>2, <3>3
    <3> QED
      BY <2>1, <3>2, <3>4 DEF Followed
  <2>2. CASE mode = "data" /\ w.part = "cmd" /\ UNCHANGED <<mode, dcall>>
    BY <1>1, <1>7, <2>2 DEF Message
  <2> QED
    BY <1>4, <2>1, <2>2
<1>9. SwappedIsAbandoned'
  <2>1. dcall.id \notin debt /\ mode = "data" => w.call.id = dcall.id
    BY <1>7 DEF Message
  <2> QED
    BY <1>1, <1>4, <2>1 DEF PairInv, SwappedIsAbandoned
<1> QED
  BY <1>3, <1>6, <1>8, <1>9 DEF PairInv, IsPublish

LEMMA StepPairs == PairInv /\ [Next]_vars => PairInv'
<1>1. SUFFICES ASSUME PairInv, [Next]_vars PROVE PairInv'
  OBVIOUS
<1>2. CASE Begun
  BY <1>1, <1>2, BeginPairs DEF Begun
<1>3. CASE SendMessage
  BY <1>1, <1>3, SendPairs
<1>4. CASE Finish \/ GiveUp
  BY <1>1, <1>4, ReadPairs
<1>5. CASE ModemTakes
  BY <1>1, <1>5, ModemPairs
<1>6. CASE JobEnds \/ JobRetransmits \/ Unsolicited \/ UNCHANGED vars
  <2>1. UNCHANGED <<pc, call, tx, mode, dcall, published, debt>>
    BY <1>6 DEF JobEnds, JobRetransmits, Unsolicited, vars
  <2> QED
    BY <1>1, <2>1, NothingWritten
<1> QED
  BY <1>1, <1>2, <1>3, <1>4, <1>5, <1>6, CallsBegin DEF Next

\* What bg95_mqtt_publish_fixed_length writes after a prompt is published under
\* its own topic, or the call whose topic it went under was reported as failed:
\* so for any number of clients and calls, late or false prompts, and lost or
\* refused answers.
THEOREM MessagesKeepTheirTopic == Spec => []SwappedIsAbandoned
<1>1. PairInv => SwappedIsAbandoned
  BY DEF PairInv
<1> QED
  BY <1>1, InitPairs, StepPairs, PTL DEF Spec

-------------------------------------------------------------------------------
(* What a call makes of the lines it has read.                                 *)

\* A set of positions has a least one.
LEMMA NatMin == ASSUME NEW T, T \subseteq Nat, T # {} PROVE Min(T) \in T /\ \A y \in T : Min(T) <= y
<1> DEFINE R == OpToRel(<, Nat)
<1>1. IsWellFoundedOn(R, Nat)
  BY NatLessThanWellFounded
<1>2. \A x \in Nat, y \in Nat : y < x => <<y, x>> \in R
  BY DEF OpToRel
<1> HIDE DEF R
<1>3. PICK x \in T : \A y \in T : ~(<<y, x>> \in R)
  BY <1>1, WFMin
<1>4. \A y \in T : x <= y
  <2>1. SUFFICES ASSUME NEW y \in T PROVE x <= y
    OBVIOUS
  <2>2. x \in Nat /\ y \in Nat
    OBVIOUS
  <2>3. ~(y < x)
    BY <1>2, <1>3, <2>2
  <2> QED
    BY <2>2, <2>3
<1> QED
  BY <1>4 DEF Min

\* The first of the command's lines, and that it is one of them.
LEMMA FirstOwn ==
  ASSUME NEW S, NEW lines, lines \in Seq(S), NEW name, DOMAIN OwnLines(lines, name) # {}
  PROVE  \E k \in 1..Len(lines) :
           /\ First(OwnLines(lines, name)) = lines[k]
           /\ lines[k].kind = "line" /\ lines[k].name = name
           /\ \A i \in 1..(k - 1) : ~(lines[i].kind = "line" /\ lines[i].name = name)
<1> DEFINE own == OwnLines(lines, name)
           D == DOMAIN own
           k == Min(D)
<1>1. /\ D = {i \in 1..Len(lines) : lines[i].kind = "line" /\ lines[i].name = name}
      /\ \A i \in D : own[i] = lines[i]
      /\ Len(lines) \in Nat
  BY DEF OwnLines, Restrict
<1>2. First(own) = own[k]
  BY DEF First
<1> HIDE DEF own, D
<1>3. D \subseteq Nat /\ D # {}
  BY <1>1 DEF D, own
<1>4. k \in D /\ \A y \in D : k <= y
  BY <1>3, NatMin
<1> HIDE DEF k
<1>5. \A i \in 1..(k - 1) : ~(lines[i].kind = "line" /\ lines[i].name = name)
  BY <1>1, <1>4
<1> QED
  BY <1>1, <1>2, <1>4, <1>5 DEF own

LEMMA ParserEmpty ==
  ASSUME NEW fn, NEW own, DOMAIN own = {} PROVE ParserOf(fn, own) = NothingFound
BY DEF ParserOf

\* The parsers of the calls that write, and of the queries.
LEMMA ParserFirst ==
  ASSUME NEW fn, NEW own, DOMAIN own # {}, NEW l, l = First(own), NEW p, p = ParserOf(fn, own)
  PROVE  /\ fn \in {"open", "close", "disconnect"} => p = ClientResult(l)
         /\ fn = "connect" => p = QmtconnWriteParser(l)
         /\ fn = "publish" => p = PacketResult(l, 0..MsgidMax)
         /\ fn \in {"subscribe", "unsubscribe"} => p = PacketResult(l, 1..MsgidMax)
         /\ fn = "open_status" => p = QmtopenReadParser(l)
         /\ fn = "connection_state" => p = QmtconnReadParser(l)
<1>1. l = own[Min(DOMAIN own)]
  BY DEF First
<1>2. fn = "open" => p = ClientResult(l)
  BY <1>1 DEF ParserOf, QmtopenWriteParser
<1>3. fn = "close" => p = ClientResult(l)
  BY <1>1 DEF ParserOf, QmtcloseWriteParser
<1>4. fn = "disconnect" => p = ClientResult(l)
  BY <1>1 DEF ParserOf, QmtdiscWriteParser
<1>5. fn = "connect" => p = QmtconnWriteParser(l)
  BY <1>1 DEF ParserOf
<1>6. fn = "publish" => p = PacketResult(l, 0..MsgidMax)
  BY <1>1 DEF ParserOf, QmtpubWriteParser
<1>7. fn = "subscribe" => p = PacketResult(l, 1..MsgidMax)
  BY <1>1 DEF ParserOf, QmtsubWriteParser
<1>8. fn = "unsubscribe" => p = PacketResult(l, 1..MsgidMax)
  BY <1>1 DEF ParserOf, QmtunsWriteParser
<1>9. fn = "open_status" => p = QmtopenReadParser(l)
  BY <1>1 DEF ParserOf
<1>10. fn = "connection_state" => p = QmtconnReadParser(l)
  BY <1>1 DEF ParserOf
<1> QED
  BY <1>2, <1>3, <1>4, <1>5, <1>6, <1>7, <1>8, <1>9, <1>10

\* What is parsed: an error with nothing, or a response of the line's call.
FromLine(p, l) ==
  \/ p = TooFew
  \/ \E idx, msgid, value : p = Parsed(idx, msgid, value, l.id)

LEMMA ParserForm ==
  ASSUME NEW fn \in Writes \cup Queries, NEW own, DOMAIN own # {}, NEW l, l = First(own)
  PROVE  FromLine(ParserOf(fn, own), l)
<1> DEFINE p == ParserOf(fn, own)
<1>1. /\ fn \in {"open", "close", "disconnect"} => p = ClientResult(l)
      /\ fn = "connect" => p = QmtconnWriteParser(l)
      /\ fn = "publish" => p = PacketResult(l, 0..MsgidMax)
      /\ fn \in {"subscribe", "unsubscribe"} => p = PacketResult(l, 1..MsgidMax)
      /\ fn = "open_status" => p = QmtopenReadParser(l)
      /\ fn = "connection_state" => p = QmtconnReadParser(l)
  BY ParserFirst
<1> HIDE DEF p
<1>2. FromLine(ClientResult(l), l)
  BY Zenon DEF ClientResult, FromLine
<1>3. FromLine(QmtconnWriteParser(l), l)
  BY Zenon DEF QmtconnWriteParser, FromLine
<1>4. \A R : FromLine(PacketResult(l, R), l)
  BY Zenon DEF PacketResult, FromLine
<1>5. FromLine(QmtopenReadParser(l), l)
  BY Zenon DEF QmtopenReadParser, FromLine
<1>6. FromLine(QmtconnReadParser(l), l)
  BY Zenon DEF QmtconnReadParser, FromLine
<1> QED
  BY <1>1, <1>2, <1>3, <1>4, <1>5, <1>6 DEF Writes, Queries, p

LEMMA ParsedIs ==
  ASSUME NEW idx, NEW msgid, NEW value, NEW id, NEW p, p = Parsed(idx, msgid, value, id)
  PROVE  /\ p.err = "ESP_OK" /\ p.response.idx = idx /\ p.response.msgid = msgid
         /\ p.response.value = value /\ p.response.id = id
         /\ \A e : [p EXCEPT !.err = e].err = e /\ [p EXCEPT !.err = e].response = p.response
BY DEF Parsed

\* The error and the response of a call.
CallErr(c, r) == IF c.fn \in Queries THEN StatusErr(c.idx, r) ELSE ResultErr(r)

LEMMA JudgeFail ==
  ASSUME NEW c, NEW lines, NEW given, ~BasicResponseIsOk(lines)
  PROVE  Judge(c, lines, given).err = "ESP_FAIL" /\ Judge(c, lines, given).response = given
BY DEF Judge

LEMMA JudgeBare ==
  ASSUME NEW c, NEW lines, NEW given, BasicResponseIsOk(lines), ~HasDataResponse(lines)
  PROVE  LET j == Judge(c, lines, given)
         IN  /\ j.response = given
             /\ c.fn \in Queries => j.err = StatusErr(c.idx, given)
             /\ c.fn \notin Queries => j.err = "ESP_ERR_INVALID_RESPONSE"
<1> DEFINE p == [err |-> IF RType(c.fn) = "DATA_REQUIRED" THEN "ESP_ERR_INVALID_RESPONSE"
                                                          ELSE "ESP_OK",
                 response |-> given]
           j == Judge(c, lines, given)
           e == IF c.fn \in Queries THEN StatusErr(c.idx, p.response) ELSE ResultErr(p.response)
<1>1. j = IF p.err # "ESP_OK" THEN p ELSE [p EXCEPT !.err = e]
  BY DEF Judge
<1>2. /\ p.response = given
      /\ c.fn \in Queries => p.err = "ESP_OK"
      /\ c.fn \notin Queries => p.err = "ESP_ERR_INVALID_RESPONSE"
  BY DEF RType
<1>3. [p EXCEPT !.err = e].err = e /\ [p EXCEPT !.err = e].response = p.response
  OBVIOUS
<1> HIDE DEF p, j
<1>4. c.fn \in Queries => e = StatusErr(c.idx, given)
  BY <1>2
<1> HIDE DEF e
<1> QED
  BY <1>1, <1>2, <1>3, <1>4 DEF j
================================================================================
