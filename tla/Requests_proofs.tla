---------------------------- MODULE Requests_proofs ----------------------------
(* Theorems about Requests, for arguments of every value their C types have.   *)
EXTENDS Requests, SequenceTheorems, WellFoundedInduction, TLAPS

-------------------------------------------------------------------------------
\* The signal: sscanf reads the numbers up to the first field that is none.
LEMMA MatchedIsMaximal ==
  ASSUME NEW m \in Nat, NEW n \in Nat, NEW fields, DOMAIN fields = 1..m, Len(fields) = m
  PROVE  LET k == Matched(fields, n)
         IN  /\ k \in 0..n /\ k <= m
             /\ \A i \in 1..k : fields[i] # NotANumber
             /\ k < n /\ k < m => fields[k + 1] = NotANumber
<1> DEFINE read == {k \in 0..n : k <= Len(fields) /\ \A i \in 1..k : fields[i] # NotANumber}
           left == {j \in Nat : \E k \in read : j = n - k}
<1>1. 0 \in read
  OBVIOUS
<1>2. n \in left /\ left \subseteq Nat
  BY <1>1
<1>3. \E j \in left : \A i \in left : ~ (<<i, j>> \in OpToRel(<, Nat))
  <2>1. IsWellFoundedOn(OpToRel(<, Nat), Nat)
    BY NatLessThanWellFounded
  <2> HIDE DEF left
  <2> QED BY <2>1, <1>2, WFMin
<1>4. PICK j \in left : \A i \in left : ~ (i < j)
  BY <1>2, <1>3 DEF OpToRel
<1>5. PICK best \in read : j = n - best
  BY <1>4
<1>6. \A k \in read : k <= best
  <2> TAKE k \in read
  <2>1. n - k \in left /\ k \in 0..n /\ best \in 0..n
    OBVIOUS
  <2>2. ~ (n - k < n - best)
    BY <2>1, <1>4, <1>5
  <2> QED BY <2>1, <2>2
<1>7. Matched(fields, n) \in read /\ \A k \in read : k <= Matched(fields, n)
  BY <1>5, <1>6 DEF Matched
<1> DEFINE k == Matched(fields, n)
<1>8. k \in 0..n /\ k <= m /\ \A i \in 1..k : fields[i] # NotANumber
  BY <1>7
<1>9. ASSUME k < n, k < m, fields[k + 1] # NotANumber PROVE FALSE
  <2> HIDE DEF k
  <2>1. k + 1 \in 0..n /\ k + 1 <= m /\ \A i \in 1..(k + 1) : i \in 1..k \/ i = k + 1
    BY <1>8, <1>9
  <2>2. k + 1 \in read
    BY <2>1, <1>8, <1>9
  <2> QED BY <2>2, <1>7, <1>8 DEF k
<1> QED BY <1>8, <1>9

\* Whatever gaps the two conversions have, together they are exact.
LEMMA DbmIsExact ==
  ASSUME NEW rssi \in 0..RssiMax
  PROVE  DbmToRssi(RssiToDbm(rssi)) = rssi
<1>1. CASE rssi = 0
  <2>1. RssiToDbm(rssi) = -113
    BY <1>1 DEF RssiToDbm
  <2> QED BY <1>1, <2>1 DEF DbmToRssi
<1>2. CASE rssi = 1
  <2>1. RssiToDbm(rssi) = -111
    BY <1>2 DEF RssiToDbm
  <2> QED BY <1>2, <2>1 DEF DbmToRssi
<1>3. CASE rssi \in 2..30
  <2>1. RssiToDbm(rssi) = -109 + (rssi - 2) * 2
    BY <1>3 DEF RssiToDbm
  <2>2. -109 + (rssi - 2) * 2 \in -109..(-53)
    BY <1>3
  <2>3. DbmToRssi(RssiToDbm(rssi)) = 2 + (RssiToDbm(rssi) + 109) \div 2
    BY <2>1, <2>2 DEF DbmToRssi
  <2>4. RssiToDbm(rssi) + 109 = 2 * (rssi - 2)
    BY <2>1, <1>3
  <2>5. (2 * (rssi - 2)) \div 2 = rssi - 2
    BY <1>3
  <2> QED BY <2>3, <2>4, <2>5, <1>3
<1>4. CASE rssi = 31
  <2>1. RssiToDbm(rssi) = -51
    BY <1>4 DEF RssiToDbm
  <2> QED BY <1>4, <2>1 DEF DbmToRssi
<1> QED BY <1>1, <1>2, <1>3, <1>4 DEF RssiMax

\* A value of two bytes is the number read, to 16 bits.
LEMMA Int16IsCongruent ==
  ASSUME NEW n \in Int
  PROVE  IsInt16Of(Int16(n), n)
<1> DEFINE w == (n + 32768) % 65536
           q == (n + 32768) \div 65536
<1>1. w \in Int /\ 0 <= w /\ w < 65536
  OBVIOUS
<1>2. q \in Int /\ n + 32768 = 65536 * q + w
  OBVIOUS
<1>3. Int16(n) = w - 32768
  BY DEF Int16
<1>4. (65536 * q) % 65536 = 0
  <2> HIDE DEF q
  <2> QED BY <1>2
<1> HIDE DEF w, q
<1>5. -32768 <= Int16(n) /\ Int16(n) <= 32767
  BY <1>1, <1>3
<1>6. n - Int16(n) = 65536 * q
  BY <1>1, <1>2, <1>3
<1> QED BY <1>4, <1>5, <1>6 DEF IsInt16Of

-------------------------------------------------------------------------------
\* A request is of the kind its call is.
LEMMA FnOfKind ==
  /\ \A r \in Opens : r.fn = "open"
  /\ \A r \in Closes : r.fn \in {"close", "disconnect"}
  /\ \A r \in Connects : r.fn = "connect"
  /\ \A r \in Publishes : r.fn = "publish"
  /\ \A r \in Subscribes : r.fn = "subscribe"
  /\ \A r \in Unsubscribes : r.fn = "unsubscribe"
  /\ \A r \in Sets : r.fn = "set"
  /\ \A r \in Queries : r.fn = "query"
  /\ \A r \in Defines : r.fn = "define"
  /\ \A r \in Contexts : r.fn = "context"
  /\ \A r \in SignalLines : r.fn = "signal"
  /\ \A r \in QualityLines : r.fn = "quality"
<1>1. \A r \in Opens : r.fn = "open"
  BY DEF Opens
<1>2. \A r \in Closes : r.fn \in {"close", "disconnect"}
  BY DEF Closes
<1>3. \A r \in Connects : r.fn = "connect"
  BY DEF Connects
<1>4. \A r \in Publishes : r.fn = "publish"
  BY DEF Publishes
<1>5. \A r \in Subscribes : r.fn = "subscribe"
  BY DEF Subscribes
<1>6. \A r \in Unsubscribes : r.fn = "unsubscribe"
  BY DEF Unsubscribes
<1>7. \A r \in Sets : r.fn = "set"
  BY DEF Sets, SetsOf
<1>8. \A r \in Queries : r.fn = "query"
  BY DEF Queries
<1>9. \A r \in Defines : r.fn = "define"
  BY DEF Defines
<1>10. \A r \in Contexts : r.fn = "context"
  BY DEF Contexts
<1>11. \A r \in SignalLines : r.fn = "signal"
  BY DEF SignalLines
<1>12. \A r \in QualityLines : r.fn = "quality"
  BY DEF QualityLines
<1> QED BY <1>1, <1>2, <1>3, <1>4, <1>5, <1>6, <1>7, <1>8, <1>9, <1>10, <1>11, <1>12

LEMMA KindOfFn ==
  ASSUME NEW r \in Requests
  PROVE  /\ r.fn = "open" => r \in Opens
         /\ r.fn \in {"close", "disconnect"} => r \in Closes
         /\ r.fn = "connect" => r \in Connects
         /\ r.fn = "publish" => r \in Publishes
         /\ r.fn = "subscribe" => r \in Subscribes
         /\ r.fn = "unsubscribe" => r \in Unsubscribes
         /\ r.fn = "set" => r \in Sets
         /\ r.fn = "query" => r \in Queries
         /\ r.fn = "define" => r \in Defines
         /\ r.fn = "context" => r \in Contexts
         /\ r.fn = "signal" => r \in SignalLines
         /\ r.fn = "quality" => r \in QualityLines
BY FnOfKind DEF Requests

-------------------------------------------------------------------------------
\* The fields of a +CSQ line are a sequence of none, one or two.
LEMMA SignalFields ==
  ASSUME NEW r \in SignalLines
  PROVE  \E m \in 0..2 : /\ DOMAIN r.fields = 1..m /\ Len(r.fields) = m
                         /\ m = 2 => r.fields[1] \in Int
<1>1. \/ r.fields = <<>>
      \/ \E x \in Rssis : r.fields = <<x>>
      \/ r.fields \in (Rssis \cup {-1, NotANumber}) \X (Bers \cup {-1, NotANumber})
  BY DEF SignalLines
<1>2. CASE r.fields = <<>>
  BY <1>2
<1>3. CASE \E x \in Rssis : r.fields = <<x>>
  BY <1>3
<1>4. CASE r.fields \in (Rssis \cup {-1, NotANumber}) \X (Bers \cup {-1, NotANumber})
  <2>1. PICK x \in Rssis \cup {-1, NotANumber}, y \in Bers \cup {-1, NotANumber} :
          r.fields = <<x, y>>
    BY <1>4
  <2>2. x \in Int
    BY RequestAssumption DEF NotANumber
  <2> QED BY <2>1, <2>2
<1> QED BY <1>1, <1>2, <1>3, <1>4

LEMMA SignalOfLine ==
  ASSUME NEW r \in SignalLines
  PROVE  LET o == SignalQualityDbm(r.fields)
         IN  IF o.err = "ESP_OK"
             THEN r.fields[1] \in 0..RssiMax /\ DbmToRssi(o.dbm) = r.fields[1]
             ELSE Len(r.fields) = 2 /\ r.fields[2] # NotANumber
                    => r.fields[1] \notin 0..RssiMax
<1> DEFINE f == r.fields
           k == Matched(f, 2)
           p == CsqExecuteParser(f)
           o == SignalQualityDbm(f)
<1>1. PICK m \in 0..2 : DOMAIN f = 1..m /\ Len(f) = m /\ (m = 2 => f[1] \in Int)
  BY SignalFields
<1>2. k \in 0..2 /\ k <= m /\ (\A i \in 1..k : f[i] # NotANumber)
      /\ (k < 2 /\ k < m => f[k + 1] = NotANumber)
  <2>1. m \in Nat /\ 2 \in Nat
    OBVIOUS
  <2> HIDE DEF f
  <2> QED BY <1>1, <2>1, MatchedIsMaximal
<1>3. CASE k < 2
  <2>1. p.err = "ESP_ERR_INVALID_RESPONSE" /\ o.err = p.err
    BY <1>3 DEF CsqExecuteParser, SignalQualityDbm
  <2>2. ASSUME m = 2, f[2] # NotANumber PROVE f[1] \notin 0..RssiMax
    <3> HIDE DEF k, f
    <3>1. f[1] = NotANumber
      BY <1>2, <1>3, <2>2
    <3> QED BY <3>1 DEF NotANumber, RssiMax
  <2> QED BY <1>1, <2>1, <2>2
<1>4. CASE k = 2
  <2>1. m = 2 /\ f[1] \in Int
    BY <1>1, <1>2, <1>4
  <2>2. p.err = "ESP_OK" /\ p.rssi = (IF f[1] \in 0..RssiMax THEN f[1] ELSE Unknown)
    BY <1>4 DEF CsqExecuteParser
  <2>3. /\ o.err = IF p.rssi = Unknown THEN "ESP_ERR_NOT_FOUND" ELSE "ESP_OK"
        /\ o.dbm = RssiToDbm(p.rssi)
    BY <2>2 DEF SignalQualityDbm
  <2>4. CASE f[1] \in 0..RssiMax
    <3>1. p.rssi = f[1] /\ f[1] # Unknown
      BY <2>2, <2>4 DEF RssiMax, Unknown
    <3>2. DbmToRssi(RssiToDbm(f[1])) = f[1]
      BY <2>4, DbmIsExact
    <3> QED BY <2>3, <2>4, <3>1, <3>2
  <2>5. CASE f[1] \notin 0..RssiMax
    <3>1. o.err = "ESP_ERR_NOT_FOUND"
      BY <2>2, <2>3, <2>5
    <3> QED BY <2>5, <3>1
  <2> QED BY <2>4, <2>5
<1> QED BY <1>2, <1>3, <1>4

\* The fields of a +QCSQ line, and what of them the parser keeps.
LEMMA QualityOfLine ==
  ASSUME NEW r \in QualityLines, NEW o,
         o = QcsqExecuteParser(r.mode, r.fields), o.err = "ESP_OK"
  PROVE  /\ o.mode = r.mode
         /\ \A i \in DOMAIN o.values : IsInt16Of(o.values[i], r.fields[i])
         /\ Len(o.values) < Len(r.fields) =>
              \/ Len(o.values) = ValuesOf[r.mode]
              \/ r.fields[Len(o.values) + 1] = NotANumber
<1> DEFINE n == ValuesOf[r.mode]
           k == Matched(r.fields, n)
<1>1. PICK m \in 0..4 : r.fields \in [1..m -> Int]
  <2>1. PICK m \in 0..4 : r.fields \in [1..m -> Strengths \cup {NotANumber}]
    BY DEF QualityLines, Levels
  <2>2. Strengths \cup {NotANumber} \subseteq Int
    BY RequestAssumption DEF NotANumber
  <2> QED BY <2>1, <2>2
<1>2. r.mode \in SysModes
  BY DEF QcsqExecuteParser
<1>3. n \in Nat
  BY <1>2 DEF ValuesOf
<1>4. DOMAIN r.fields = 1..m /\ Len(r.fields) = m
  BY <1>1
<1>5. k \in 0..n /\ k <= m /\ (k < n /\ k < m => r.fields[k + 1] = NotANumber)
  BY <1>3, <1>4, MatchedIsMaximal
<1>6. o.mode = r.mode /\ o.values = [i \in 1..k |-> Int16(r.fields[i])]
  BY <1>2 DEF QcsqExecuteParser
<1> HIDE DEF n, k
<1>7. DOMAIN o.values = 1..k /\ Len(o.values) = k
  BY <1>3, <1>5, <1>6
<1>8. ASSUME NEW i \in DOMAIN o.values
      PROVE  IsInt16Of(o.values[i], r.fields[i])
  <2>1. i \in 1..k /\ i \in 1..m
    BY <1>3, <1>5, <1>7
  <2>2. r.fields[i] \in Int
    BY <1>1, <2>1
  <2>3. o.values[i] = Int16(r.fields[i])
    BY <1>6, <2>1
  <2> QED BY <2>2, <2>3, Int16IsCongruent, Zenon
<1>9. k < Len(r.fields) => k = n \/ r.fields[k + 1] = NotANumber
  BY <1>3, <1>4, <1>5
<1>10. Len(o.values) < Len(r.fields) =>
         Len(o.values) = ValuesOf[r.mode] \/ r.fields[Len(o.values) + 1] = NotANumber
  BY <1>7, <1>9, Zenon DEF n
<1>11. o.mode = r.mode
  BY <1>6
<1> QED BY <1>8, <1>10, <1>11, Zenon

-------------------------------------------------------------------------------
\* f adds the numbers d[1], d[2], ... to b: the lengths of a command's fields
\* as a formatter writes one after the other.  No command has more than four
\* whose number depends on the request.
Adds(f, n, b, d) == f = [k \in 0..n |-> IF k = 0 THEN b ELSE f[k - 1] + d[k]]

LEMMA AddsExists ==
  ASSUME NEW n \in 0..4, NEW b \in Int, NEW d \in [1..n -> Int]
  PROVE  \E f : Adds(f, n, b, d)
<1> DEFINE w == [k \in 0..n |-> IF k = 0 THEN b
                                ELSE IF k = 1 THEN b + d[1]
                                ELSE IF k = 2 THEN b + d[1] + d[2]
                                ELSE IF k = 3 THEN b + d[1] + d[2] + d[3]
                                ELSE b + d[1] + d[2] + d[3] + d[4]]
<1>1. \A k \in 0..n : w[k] = IF k = 0 THEN b ELSE w[k - 1] + d[k]
  <2> TAKE k \in 0..n
  <2>1. k = 0 \/ k = 1 \/ k = 2 \/ k = 3 \/ k = 4
    OBVIOUS
  <2>2. CASE k = 0 BY <2>2
  <2>3. CASE k = 1 BY <2>3
  <2>4. CASE k = 2 BY <2>4
  <2>5. CASE k = 3 BY <2>5
  <2>6. CASE k = 4 BY <2>6
  <2> QED BY <2>1, <2>2, <2>3, <2>4, <2>5, <2>6
<1>2. w = [k \in 0..n |-> w[k]]
  OBVIOUS
<1> HIDE DEF w
<1>3. w = [k \in 0..n |-> IF k = 0 THEN b ELSE w[k - 1] + d[k]]
  BY <1>1, <1>2
<1> QED BY <1>3 DEF Adds

\* Numbers as they are written.
LEMMA NumberType ==
  ASSUME NEW n PROVE Digits(n) \in 1..5 /\ Number(n) \in 2..6
BY DEF Digits, Number

LEMMA NumbersLenAdds ==
  ASSUME NEW n \in 0..4, NEW v \in [1..n -> Nat]
  PROVE  \E f : Adds(f, n, 0, [k \in 1..n |-> Number(v[k])]) /\ NumbersLen(v) = f[n]
<1> DEFINE d == [k \in 1..n |-> Number(v[k])]
           UpTo[k \in 0..Len(v)] == IF k = 0 THEN 0 ELSE UpTo[k - 1] + Number(v[k])
<1>1. Len(v) = n
  OBVIOUS
<1>2. d \in [1..n -> Int]
  BY NumberType
<1>3. PICK f : Adds(f, n, 0, d)
  <2>1. 0 \in Int
    OBVIOUS
  <2> HIDE DEF d, UpTo
  <2> QED BY <1>2, <2>1, AddsExists, Zenon
<1>4. \A g : [k \in 0..n |-> IF k = 0 THEN 0 ELSE g[k - 1] + d[k]]
               = [k \in 0..Len(v) |-> IF k = 0 THEN 0 ELSE g[k - 1] + Number(v[k])]
  <2> HIDE DEF UpTo
  <2>1. \A k \in 0..n : k # 0 => d[k] = Number(v[k])
    OBVIOUS
  <2> QED BY <1>1, <2>1
<1>5. Adds(UpTo, n, 0, d)
  <2>1. f = [k \in 0..Len(v) |-> IF k = 0 THEN 0 ELSE f[k - 1] + Number(v[k])]
    BY <1>3, <1>4, Zenon DEF Adds
  <2>2. UpTo = [k \in 0..Len(v) |-> IF k = 0 THEN 0 ELSE UpTo[k - 1] + Number(v[k])]
    BY <2>1
  <2> HIDE DEF UpTo
  <2> QED BY <2>2, <1>4, Zenon DEF Adds
<1>6. NumbersLen(v) = UpTo[Len(v)]
  BY DEF NumbersLen
<1> HIDE DEF UpTo
<1> QED BY <1>1, <1>5, <1>6

-------------------------------------------------------------------------------
\* What is written of a request fits both buffers and is all that it needs.
Whole(r, o) == o.len < CmdSize /\ (~Cuts(r) => o.len = Needed(r))

LEMMA CommandFits ==
  ASSUME NEW name \in Nat, NEW params, NEW o, params.len \in Int,
         o = FormatWrite(name, params), o.err = "ESP_OK"
  PROVE  params.err = "ESP_OK" /\ o.len = 5 + name + params.len /\ o.len < CmdSize
BY DEF FormatWrite, CmdSize

LEMMA CommandNames ==
  /\ CmdLen.QMTOPEN = 7 /\ CmdLen.QMTCLOSE = 8 /\ CmdLen.QMTCONN = 7 /\ CmdLen.QMTDISC = 7
  /\ CmdLen.QMTPUB = 6 /\ CmdLen.QMTSUB = 6 /\ CmdLen.QMTUNS = 6 /\ CmdLen.QMTCFG = 6
  /\ CmdLen.CGDCONT = 7
BY DEF CmdLen

LEMMA DigitsType == \A n : Digits(n) \in 1..5
BY DEF Digits

LEMMA QuotedLen ==
  ASSUME NEW len \in Nat \cup {NoString}
  PROVE  Quoted(len) = (IF len = NoString THEN 0 ELSE 3 + len) /\ Quoted(len) \in Nat
BY DEF Quoted, NoString

LEMMA OpenWhole ==
  ASSUME NEW r \in Opens, NEW o, o = OpenNetwork(r), o.err = "ESP_OK"
  PROVE  Whole(r, o)
<1>1. r.fn = "open" /\ r.host \in Nat
  BY RequestAssumption DEF Opens
<1>2. Quoted(r.host) = 3 + r.host
  BY <1>1 DEF Quoted, NoString
<1>3. QmtopenFormat(r).len = Number(r.idx) + Quoted(r.host) + Number(r.port)
  BY DEF QmtopenFormat, Formatted
<1>4. o = FormatWrite(CmdLen.QMTOPEN, QmtopenFormat(r))
  BY DEF OpenNetwork, Invalid
<1>5. o.len = 5 + 7 + (1 + Digits(r.idx) + 3 + r.host + 1 + Digits(r.port)) /\ o.len < CmdSize
  BY <1>1, <1>2, <1>3, <1>4, CommandFits, CommandNames, DigitsType DEF Number
<1>6. Needed(r) = 17 + Digits(r.idx) + r.host + Digits(r.port)
  BY <1>1 DEF Needed
<1> QED BY <1>1, <1>5, <1>6, DigitsType DEF Whole

LEMMA CloseWhole ==
  ASSUME NEW r \in Closes, NEW o, o.err = "ESP_OK",
         \/ r.fn = "close" /\ o = CloseNetwork(r)
         \/ r.fn = "disconnect" /\ o = Disconnect(r)
  PROVE  Whole(r, o)
<1>1. CASE r.fn = "close" /\ o = CloseNetwork(r)
  <2>1. o = FormatWrite(CmdLen.QMTCLOSE, QmtcloseFormat(r))
    BY <1>1 DEF CloseNetwork, Invalid
  <2>2. QmtcloseFormat(r).len = 1 + Digits(r.idx)
    BY DEF QmtcloseFormat, Formatted, Number
  <2>3. o.len = 5 + 8 + (1 + Digits(r.idx)) /\ o.len < CmdSize
    BY <2>1, <2>2, CommandFits, CommandNames, DigitsType
  <2>4. Needed(r) = 14 + Digits(r.idx)
    BY <1>1 DEF Needed
  <2> QED BY <2>3, <2>4, DigitsType DEF Whole
<1>2. CASE r.fn = "disconnect" /\ o = Disconnect(r)
  <2>1. o = FormatWrite(CmdLen.QMTDISC, QmtdiscFormat(r))
    BY <1>2 DEF Disconnect, Invalid
  <2>2. QmtdiscFormat(r).len = 1 + Digits(r.idx)
    BY DEF QmtdiscFormat, Formatted, Number
  <2>3. o.len = 5 + 7 + (1 + Digits(r.idx)) /\ o.len < CmdSize
    BY <2>1, <2>2, CommandFits, CommandNames, DigitsType
  <2>4. Needed(r) = 13 + Digits(r.idx)
    BY <1>2 DEF Needed
  <2> QED BY <2>3, <2>4, DigitsType DEF Whole
<1> QED BY <1>1, <1>2

LEMMA ConnectWhole ==
  ASSUME NEW r \in Connects, NEW o, o = Connect(r), o.err = "ESP_OK"
  PROVE  Whole(r, o)
<1> DEFINE d == Digits(r.idx)
           u == Quoted(r.username)
           p == Quoted(r.password)
<1>1. /\ r.fn = "connect" /\ r.clientId \in Nat
      /\ r.username \in Nat \cup {NoString} /\ r.password \in Nat \cup {NoString}
  BY RequestAssumption DEF Connects
<1>2. Quoted(r.clientId) = 3 + r.clientId
  BY <1>1 DEF Quoted, NoString
<1>3. /\ u = (IF r.username = NoString THEN 0 ELSE 3 + r.username) /\ u \in Nat
      /\ p = (IF r.password = NoString THEN 0 ELSE 3 + r.password) /\ p \in Nat
  BY <1>1, QuotedLen
<1>4. d \in Nat
  BY DigitsType
<1>5. QmtconnFormat(r).len = (1 + d) + (3 + r.clientId) + u + p
  BY <1>2 DEF QmtconnFormat, Formatted, Number
<1>6. o = FormatWrite(CmdLen.QMTCONN, QmtconnFormat(r))
  BY DEF Connect, Invalid
<1>7. Needed(r) = 16 + d + r.clientId + u + p
  BY <1>1, <1>3 DEF Needed
<1> HIDE DEF d, u, p
<1>8. o.len = 5 + 7 + ((1 + d) + (3 + r.clientId) + u + p) /\ o.len < CmdSize
  BY <1>1, <1>3, <1>4, <1>5, <1>6, CommandFits, CommandNames
<1> QED BY <1>1, <1>3, <1>4, <1>7, <1>8 DEF Whole

LEMMA PublishWhole ==
  ASSUME NEW r \in Publishes, NEW o, o = Publish(r), o.err = "ESP_OK"
  PROVE  Whole(r, o)
<1> DEFINE p == [r EXCEPT !.msgid = PublishMsgid(r), !.topic = PublishTopic(r)]
<1>1. r.fn = "publish" /\ r.topic \in Nat
  BY RequestAssumption DEF Publishes
<1>2. o = FormatWrite(CmdLen.QMTPUB, QmtpubFormat(p))
  BY DEF Publish, Invalid
<1>3. p.topic = PublishTopic(r) /\ PublishTopic(r) \in Nat
  BY <1>1 DEF PublishTopic, TopicSize, Publishes
<1>4. QmtpubFormat(p).len = Number(p.idx) + Number(p.msgid) + Number(p.qos)
                              + Number(p.retain) + Quoted(p.topic) + Number(p.msglen)
  BY DEF QmtpubFormat, Formatted
<1>5. Quoted(p.topic) \in Nat /\ \A n : Number(n) \in Nat
  BY <1>3, QuotedLen, NumberType
<1> HIDE DEF p
<1>6. QmtpubFormat(p).len \in Int
  BY <1>4, <1>5
<1>7. o.len < CmdSize
  BY <1>2, <1>6, CommandFits, CommandNames
<1> QED BY <1>1, <1>7 DEF Whole, Cuts

\* The topics' formatter when there is one topic, whose field takes len bytes.
LEMMA OneTopic ==
  ASSUME NEW p, NEW bad, bad \subseteq {1}, NEW len \in Nat
  PROVE  LET base == Number(p.idx) + Number(p.msgid)
         IN  TopicsFormat(p, bad, <<len>>)
               = Formatted(\/ p.idx > ClientIdxMax
                           \/ p.msgid \notin 1..MsgidMax
                           \/ bad # {} /\ base < ParamSize,
                           base + len)
<1> DEFINE base == Number(p.idx) + Number(p.msgid)
           lengths == <<len>>
           UpTo[i \in 0..Len(lengths)] ==
             IF i = 0 THEN Number(p.idx) + Number(p.msgid) ELSE UpTo[i - 1] + lengths[i]
           w == [i \in 0..1 |-> IF i = 0 THEN base ELSE base + len]
<1>1. Len(lengths) = 1 /\ lengths[1] = len
  OBVIOUS
<1>2. w = [i \in 0..Len(lengths) |->
             IF i = 0 THEN Number(p.idx) + Number(p.msgid) ELSE w[i - 1] + lengths[i]]
  <2>1. \A i \in 0..1 : w[i] = IF i = 0 THEN base ELSE w[i - 1] + lengths[i]
    <3> TAKE i \in 0..1
    <3>1. CASE i = 0 BY <3>1
    <3>2. CASE i = 1
      <4> HIDE DEF base
      <4>1. w[0] = base /\ w[1] = base + len
        OBVIOUS
      <4> QED BY <1>1, <3>2, <4>1
    <3> QED BY <3>1, <3>2
  <2>2. w = [i \in 0..1 |-> w[i]]
    OBVIOUS
  <2> HIDE DEF w, lengths
  <2> QED BY <1>1, <2>1, <2>2
<1>3. UpTo = [i \in 0..Len(lengths) |->
                IF i = 0 THEN Number(p.idx) + Number(p.msgid) ELSE UpTo[i - 1] + lengths[i]]
  <2> HIDE DEF w
  <2> QED BY <1>2
<1>4. UpTo[0] = base /\ UpTo[1] = base + len
  <2> HIDE DEF UpTo, lengths
  <2> QED BY <1>1, <1>3
<1>5. (\E i \in bad : UpTo[i - 1] < ParamSize) <=> bad # {} /\ base < ParamSize
  <2> HIDE DEF UpTo, base
  <2>1. \A i \in bad : i = 1 /\ UpTo[i - 1] = base
    BY <1>4
  <2> QED BY <2>1
<1>6. TopicsFormat(p, bad, lengths) =
        Formatted(\/ p.idx > ClientIdxMax
                  \/ p.msgid \notin 1..MsgidMax
                  \/ Len(lengths) \notin 1..MaxTopics
                  \/ \E i \in bad : UpTo[i - 1] < ParamSize,
                  UpTo[Len(lengths)])
  BY DEF TopicsFormat
<1>7. Len(lengths) \in 1..MaxTopics
  BY <1>1 DEF MaxTopics
<1> HIDE DEF UpTo, lengths, base
<1> QED BY <1>1, <1>4, <1>5, <1>6, <1>7 DEF lengths, base

\* The two formatters of topics, for the one topic the driver gives them.
LEMMA SubFormat ==
  ASSUME NEW idx, NEW msgid, NEW topic \in Nat, NEW qos, NEW f,
         f = QmtsubFormat([idx |-> idx, msgid |-> msgid,
                           topics |-> <<[len |-> topic, qos |-> qos]>>])
  PROVE  /\ f.len = Number(idx) + Number(msgid) + (Quoted(topic) + Number(qos))
         /\ f.err = "ESP_OK" <=>
              /\ ~(idx > ClientIdxMax) /\ msgid \in 1..MsgidMax
              /\ qos > QosMax \/ topic = 0 => Number(idx) + Number(msgid) >= ParamSize
              /\ ~(f.len >= ParamSize)
<1> DEFINE x == [len |-> topic, qos |-> qos]
           base == Number(idx) + Number(msgid)
           p == [idx |-> idx, msgid |-> msgid, topics |-> <<x>>]
           bad == {i \in DOMAIN p.topics : p.topics[i].qos > QosMax \/ p.topics[i].len = 0}
           len == Quoted(topic) + Number(qos)
           lens == [i \in DOMAIN p.topics |-> Quoted(p.topics[i].len) + Number(p.topics[i].qos)]
<1>1. p.topics = <<x>> /\ p.idx = idx /\ p.msgid = msgid /\ x.len = topic /\ x.qos = qos
  OBVIOUS
<1>2. QmtsubFormat(p) = TopicsFormat(p, bad, lens)
  BY DEF QmtsubFormat
<1>3. len \in Nat
  BY QuotedLen, NumberType
<1> HIDE DEF x, p
<1>4. DOMAIN p.topics = {1} /\ p.topics[1] = x
  BY <1>1
<1>5. lens = <<len>>
  BY <1>1, <1>4
<1>6. bad \subseteq {1} /\ (bad # {} <=> qos > QosMax \/ topic = 0)
  BY <1>1, <1>4
<1> HIDE DEF bad, lens, len, base
<1>7. TopicsFormat(p, bad, <<len>>)
        = Formatted(\/ p.idx > ClientIdxMax
                    \/ p.msgid \notin 1..MsgidMax
                    \/ bad # {} /\ Number(p.idx) + Number(p.msgid) < ParamSize,
                    Number(p.idx) + Number(p.msgid) + len)
  BY <1>3, <1>6, OneTopic
<1>8. base \in Int
  BY NumberType DEF base
<1>9. f = Formatted(\/ idx > ClientIdxMax
                    \/ msgid \notin 1..MsgidMax
                    \/ bad # {} /\ base < ParamSize,
                    base + len)
  BY <1>1, <1>2, <1>5, <1>7 DEF x, p, base
<1>10. /\ f.len = base + len
       /\ f.err = "ESP_OK" <=>
            /\ ~(idx > ClientIdxMax) /\ msgid \in 1..MsgidMax
            /\ ~(bad # {} /\ base < ParamSize) /\ ~(f.len >= ParamSize)
  BY <1>9 DEF Formatted
<1>11. ~(base < ParamSize) <=> base >= ParamSize
  BY <1>8 DEF ParamSize
<1> QED BY <1>6, <1>10, <1>11 DEF len, base

LEMMA UnsFormat ==
  ASSUME NEW idx, NEW msgid, NEW topic \in Nat, NEW f,
         f = QmtunsFormat([idx |-> idx, msgid |-> msgid, topics |-> <<[len |-> topic]>>])
  PROVE  /\ f.len = Number(idx) + Number(msgid) + Quoted(topic)
         /\ f.err = "ESP_OK" <=>
              /\ ~(idx > ClientIdxMax) /\ msgid \in 1..MsgidMax
              /\ topic = 0 => Number(idx) + Number(msgid) >= ParamSize
              /\ ~(f.len >= ParamSize)
<1> DEFINE x == [len |-> topic]
           base == Number(idx) + Number(msgid)
           p == [idx |-> idx, msgid |-> msgid, topics |-> <<x>>]
           bad == {i \in DOMAIN p.topics : p.topics[i].len = 0}
           len == Quoted(topic)
           lens == [i \in DOMAIN p.topics |-> Quoted(p.topics[i].len)]
<1>1. p.topics = <<x>> /\ p.idx = idx /\ p.msgid = msgid /\ x.len = topic
  OBVIOUS
<1>2. QmtunsFormat(p) = TopicsFormat(p, bad, lens)
  BY DEF QmtunsFormat
<1>3. len \in Nat
  BY QuotedLen
<1> HIDE DEF x, p
<1>4. DOMAIN p.topics = {1} /\ p.topics[1] = x
  BY <1>1
<1>5. lens = <<len>>
  BY <1>1, <1>4
<1>6. bad \subseteq {1} /\ (bad # {} <=> topic = 0)
  BY <1>1, <1>4
<1> HIDE DEF bad, lens, len, base
<1>7. TopicsFormat(p, bad, <<len>>)
        = Formatted(\/ p.idx > ClientIdxMax
                    \/ p.msgid \notin 1..MsgidMax
                    \/ bad # {} /\ Number(p.idx) + Number(p.msgid) < ParamSize,
                    Number(p.idx) + Number(p.msgid) + len)
  BY <1>3, <1>6, OneTopic
<1>8. base \in Int
  BY NumberType DEF base
<1>9. f = Formatted(\/ idx > ClientIdxMax
                    \/ msgid \notin 1..MsgidMax
                    \/ bad # {} /\ base < ParamSize,
                    base + len)
  BY <1>1, <1>2, <1>5, <1>7 DEF x, p, base
<1>10. /\ f.len = base + len
       /\ f.err = "ESP_OK" <=>
            /\ ~(idx > ClientIdxMax) /\ msgid \in 1..MsgidMax
            /\ ~(bad # {} /\ base < ParamSize) /\ ~(f.len >= ParamSize)
  BY <1>9 DEF Formatted
<1>11. ~(base < ParamSize) <=> base >= ParamSize
  BY <1>8 DEF ParamSize
<1> QED BY <1>6, <1>10, <1>11 DEF len, base

LEMMA SubscribeWhole ==
  ASSUME NEW r \in Subscribes, NEW o, o = Subscribe(r), o.err = "ESP_OK"
  PROVE  Whole(r, o)
<1> DEFINE p == QmtsubFormat([idx |-> r.idx, msgid |-> r.msgid,
                              topics |-> <<[len |-> r.topic, qos |-> r.qos]>>])
<1>1. r.fn = "subscribe" /\ r.topic \in Nat
  BY RequestAssumption DEF Subscribes
<1>2. o = FormatWrite(CmdLen.QMTSUB, p)
  BY DEF Subscribe, Invalid
<1>3. p.len = (Number(r.idx) + Number(r.msgid)) + (Quoted(r.topic) + Number(r.qos))
  BY <1>1, SubFormat
<1>4. /\ p.len = (1 + Digits(r.idx)) + (1 + Digits(r.msgid))
                     + ((3 + r.topic) + (1 + Digits(r.qos)))
      /\ p.len \in Int
  <2> HIDE DEF p
  <2> QED BY <1>1, <1>3, DigitsType DEF Quoted, NoString, Number
<1> HIDE DEF p
<1>5. o.len = 5 + 6 + p.len /\ o.len < CmdSize
  BY <1>2, <1>4, CommandFits, CommandNames
<1>6. Needed(r) = 17 + Digits(r.idx) + Digits(r.msgid) + r.topic + Digits(r.qos)
  BY <1>1 DEF Needed
<1> QED BY <1>1, <1>4, <1>5, <1>6, DigitsType DEF Whole

LEMMA UnsubscribeWhole ==
  ASSUME NEW r \in Unsubscribes, NEW o, o = Unsubscribe(r), o.err = "ESP_OK"
  PROVE  Whole(r, o)
<1> DEFINE p == QmtunsFormat([idx |-> r.idx, msgid |-> r.msgid,
                              topics |-> <<[len |-> r.topic]>>])
<1>1. r.fn = "unsubscribe" /\ r.topic \in Nat
  BY RequestAssumption DEF Unsubscribes
<1>2. o = FormatWrite(CmdLen.QMTUNS, p)
  BY DEF Unsubscribe, Invalid
<1>3. p.len = (Number(r.idx) + Number(r.msgid)) + Quoted(r.topic)
  BY <1>1, UnsFormat
<1>4. p.len = (1 + Digits(r.idx)) + (1 + Digits(r.msgid)) + (3 + r.topic) /\ p.len \in Int
  <2> HIDE DEF p
  <2> QED BY <1>1, <1>3, DigitsType DEF Quoted, NoString, Number
<1> HIDE DEF p
<1>5. o.len = 5 + 6 + p.len /\ o.len < CmdSize
  BY <1>2, <1>4, CommandFits, CommandNames
<1>6. Needed(r) = 16 + Digits(r.idx) + Digits(r.msgid) + r.topic
  BY <1>1 DEF Needed
<1> QED BY <1>1, <1>4, <1>5, <1>6, DigitsType DEF Whole

-------------------------------------------------------------------------------
LEMMA RangesShape ==
  ASSUME NEW type \in CfgTypes
  PROVE  \E n \in 1..3 : DOMAIN Ranges[type] = 1..n
BY DEF CfgTypes, Ranges

LEMMA NumbersLenType ==
  ASSUME NEW n \in 0..4, NEW v \in [1..n -> Nat]
  PROVE  NumbersLen(v) \in Nat
<1> DEFINE d == [k \in 1..n |-> Number(v[k])]
<1>1. PICK f : Adds(f, n, 0, d) /\ NumbersLen(v) = f[n]
  BY NumbersLenAdds
<1>2. \A k \in 1..n : d[k] \in Nat
  BY NumberType
<1>3. \A k \in 0..n : f[k] = IF k = 0 THEN 0 ELSE f[k - 1] + d[k]
  BY <1>1 DEF Adds
<1> HIDE DEF d
<1>4. f[0] \in Nat
  BY <1>3
<1>5. ASSUME NEW k \in 1..n, f[k - 1] \in Nat PROVE f[k] \in Nat
  <2>1. k \in 0..n /\ k # 0
    OBVIOUS
  <2>2. f[k] = f[k - 1] + d[k]
    BY <1>3, <2>1, Zenon
  <2> QED BY <1>2, <1>5, <2>2
<1>6. n >= 1 => f[1] \in Nat
  <2>1. n >= 1 => 1 \in 1..n /\ 1 - 1 = 0
    OBVIOUS
  <2> QED BY <1>4, <1>5, <2>1
<1>7. n >= 2 => f[2] \in Nat
  <2>1. n >= 2 => 2 \in 1..n /\ 2 - 1 = 1
    OBVIOUS
  <2> QED BY <1>6, <1>5, <2>1
<1>8. n >= 3 => f[3] \in Nat
  <2>1. n >= 3 => 3 \in 1..n /\ 3 - 1 = 2
    OBVIOUS
  <2> QED BY <1>7, <1>5, <2>1
<1>9. n = 4 => f[4] \in Nat
  <2>1. n = 4 => 4 \in 1..n /\ 4 - 1 = 3
    OBVIOUS
  <2> QED BY <1>8, <1>5, <2>1
<1>10. n = 0 \/ n = 1 \/ n = 2 \/ n = 3 \/ n = 4
  OBVIOUS
<1> QED BY <1>1, <1>4, <1>6, <1>7, <1>8, <1>9, <1>10

LEMMA NumbersLenOfNone == NumbersLen(<<>>) = 0
<1> DEFINE n == 0
           v == <<>>
           d == [k \in 1..n |-> Number(v[k])]
<1>1. n = 0 /\ n \in 0..4 /\ v \in [1..n -> Nat]
  OBVIOUS
<1> HIDE DEF n, v
<1>2. PICK f : Adds(f, n, 0, d) /\ NumbersLen(v) = f[n]
  BY <1>1, NumbersLenAdds
<1>3. f[n] = 0
  BY <1>1, <1>2 DEF Adds
<1> QED BY <1>2, <1>3 DEF v

LEMMA NumbersLenOfZero == NumbersLen(<<0>>) = 2
<1> DEFINE v == <<0>>
           d == [k \in 1..1 |-> Number(v[k])]
<1>1. v \in [1..1 -> Nat] /\ v[1] = 0
  OBVIOUS
<1> HIDE DEF v
<1>2. PICK f : Adds(f, 1, 0, d) /\ NumbersLen(v) = f[1]
  BY <1>1, NumbersLenAdds
<1>3. f[0] = 0 /\ f[1] = f[0] + d[1]
  BY <1>2 DEF Adds
<1>4. d[1] = 2
  BY <1>1 DEF Number, Digits
<1> QED BY <1>2, <1>3, <1>4 DEF v

\* The length of AT+QMTCFG with its parameters, and what a formatter that
\* returns no error has seen of it.
LEMMA CfgLength ==
  ASSUME NEW p, NEW nums \in Nat, nums = NumbersLen(p.values), NEW o, p.type \in CfgTypes,
         o = FormatWrite(CmdLen.QMTCFG, QmtcfgFormat(p)), o.err = "ESP_OK",
         Quoted(p.topic) \in Nat, Quoted(p.message) \in Nat
  PROVE  /\ o.len = 15 + NameLen[p.type] + Digits(p.idx) + nums
                      + Quoted(p.topic) + Quoted(p.message)
         /\ o.len < CmdSize
<1>1. NameLen[p.type] \in Nat
  BY DEF CfgTypes, NameLen
<1>2. QmtcfgFormat(p).len = 3 + NameLen[p.type] + Number(p.idx) + nums
                              + Quoted(p.topic) + Quoted(p.message)
  BY DEF QmtcfgFormat, Formatted
<1>3. Number(p.idx) = 1 + Digits(p.idx) /\ Digits(p.idx) \in Nat
  BY DigitsType DEF Number
<1>4. QmtcfgFormat(p).len \in Int
  BY <1>1, <1>2, <1>3
<1>5. o.len = 5 + 6 + QmtcfgFormat(p).len /\ o.len < CmdSize
  BY <1>4, CommandFits, CommandNames
<1> QED BY <1>1, <1>2, <1>3, <1>5

LEMMA QueryWhole ==
  ASSUME NEW r \in Queries, NEW o, o = QueryConfig(r), o.err = "ESP_OK"
  PROVE  Whole(r, o)
<1> DEFINE p == [type |-> r.type, idx |-> r.idx, values |-> <<>>,
                 topic |-> NoString, message |-> NoString]
<1>1. r.fn = "query" /\ r.type \in CfgTypes
  BY DEF Queries
<1>2. o = FormatWrite(CmdLen.QMTCFG, QmtcfgFormat(p))
  BY DEF QueryConfig, Invalid
<1>3. p.type = r.type /\ p.idx = r.idx /\ p.values = <<>>
      /\ Quoted(p.topic) = 0 /\ Quoted(p.message) = 0
  BY DEF Quoted
<1> HIDE DEF p
<1>4. 0 = NumbersLen(p.values)
  BY <1>3, NumbersLenOfNone
<1>5. o.len = 15 + NameLen[r.type] + Digits(r.idx) + 0 + 0 + 0 /\ o.len < CmdSize
  BY <1>1, <1>2, <1>3, <1>4, CfgLength
<1>6. Needed(r) = 15 + NameLen[r.type] + Digits(r.idx)
  BY <1>1 DEF Needed
<1>7. NameLen[r.type] \in Nat
  BY <1>1 DEF CfgTypes, NameLen
<1> QED BY <1>1, <1>5, <1>6, <1>7, DigitsType DEF Whole

\* A string that fits was not cut.
LEMMA CutFits ==
  ASSUME NEW len \in Nat
  PROVE  /\ Cut(len) \in Nat /\ Quoted(Cut(len)) = 3 + Cut(len)
         /\ Cut(len) < WillStringMax => Cut(len) = len
BY DEF Cut, WillStringMax, Quoted, NoString

LEMMA SetWhole ==
  ASSUME NEW r \in Sets, NEW o, o = SetConfig(r), o.err = "ESP_OK"
  PROVE  Whole(r, o)
<1> DEFINE values == WrittenValues(r.type, r.values)
           given == r.type = "will" /\ values[1] = 1
           topic == IF given THEN Cut(r.topic) ELSE NoString
           message == IF given THEN Cut(r.message) ELSE NoString
           p == [type |-> r.type, idx |-> r.idx, values |-> values,
                 topic |-> topic, message |-> message]
           d == Digits(r.idx)
           name == NameLen[r.type]
<1>1. /\ r.fn = "set" /\ r.type \in CfgTypes
      /\ r.values \in [DOMAIN Ranges[r.type] -> Nat]
      /\ r.topic \in Nat /\ r.message \in Nat
  <2>1. PICK t \in CfgTypes : r \in SetsOf(t)
    BY DEF Sets
  <2>2. /\ r.fn = "set" /\ r.type = t /\ r.values \in Values[t]
        /\ r.topic \in WillLens /\ r.message \in WillLens
    BY <2>1 DEF SetsOf
  <2>3. Values[t] \subseteq [DOMAIN Ranges[t] -> Nat] /\ WillLens \subseteq Nat
    BY RequestAssumption
  <2> QED BY <2>2, <2>3
<1>2. PICK n \in 1..3 : r.values \in [1..n -> Nat]
  BY <1>1, RangesShape
<1>3. InRange(r.type, values) /\ o = FormatWrite(CmdLen.QMTCFG, QmtcfgFormat(p))
  BY DEF SetConfig, Invalid
<1>4. p.type = r.type /\ p.idx = r.idx /\ p.values = values
      /\ p.topic = topic /\ p.message = message
  OBVIOUS
<1>5. d \in 1..5 /\ name \in Nat
  BY <1>1, DigitsType DEF CfgTypes, NameLen
<1>6. NumbersLen(r.values) \in Nat
  <2>1. n \in 0..4
    OBVIOUS
  <2> QED BY <1>2, <2>1, NumbersLenType
<1> HIDE DEF p, d, name
<1>7. ASSUME NEW nums \in Nat, nums = NumbersLen(values),
             Quoted(topic) \in Nat, Quoted(message) \in Nat
      PROVE  /\ o.len = 15 + name + d + nums + Quoted(topic) + Quoted(message)
             /\ o.len < CmdSize
  <2> HIDE DEF topic, message, values
  <2> QED BY <1>1, <1>3, <1>4, <1>7, CfgLength DEF d, name
<1>8. Needed(r) = 15 + name + d
                    + (IF r.type # "will" THEN NumbersLen(r.values)
                       ELSE IF r.values[1] = 0 THEN 2
                       ELSE NumbersLen(r.values) + 6 + r.topic + r.message)
  BY <1>1 DEF Needed, name, d
<1>9. CASE r.type # "will"
  <2>1. values = r.values /\ topic = NoString /\ message = NoString
    BY <1>9 DEF WrittenValues
  <2>2. Quoted(topic) = 0 /\ Quoted(message) = 0
    BY <2>1 DEF Quoted
  <2> HIDE DEF topic, message, values
  <2>3. o.len = 15 + name + d + NumbersLen(r.values) + 0 + 0 /\ o.len < CmdSize
    BY <1>6, <1>7, <2>1, <2>2
  <2> QED BY <1>5, <1>6, <1>8, <1>9, <2>3 DEF Whole
<1>10. CASE r.type = "will" /\ r.values[1] = 0
  <2>1. values = <<0>> /\ topic = NoString /\ message = NoString
    BY <1>10 DEF WrittenValues
  <2>2. Quoted(topic) = 0 /\ Quoted(message) = 0
    BY <2>1 DEF Quoted
  <2>3. 2 = NumbersLen(values)
    BY <2>1, NumbersLenOfZero
  <2> HIDE DEF topic, message, values
  <2>4. o.len = 15 + name + d + 2 + 0 + 0 /\ o.len < CmdSize
    BY <1>7, <2>2, <2>3
  <2> QED BY <1>5, <1>8, <1>10, <2>4 DEF Whole
<1>11. CASE r.type = "will" /\ r.values[1] # 0
  <2>1. values = r.values
    BY <1>11 DEF WrittenValues
  <2>2. values[1] \in 0..1
    <3>1. 1 \in DOMAIN values
      BY <1>2, <2>1
    <3>2. Ranges[r.type][1] = 0..1
      BY <1>11 DEF Ranges
    <3> QED BY <1>3, <3>1, <3>2 DEF InRange
  <2>3. given
    BY <1>11, <2>1, <2>2
  <2>4. topic = Cut(r.topic) /\ message = Cut(r.message)
    BY <2>3
  <2>5. /\ Quoted(topic) = 3 + Cut(r.topic) /\ Cut(r.topic) \in Nat
        /\ Quoted(message) = 3 + Cut(r.message) /\ Cut(r.message) \in Nat
    BY <1>1, <2>4, CutFits
  <2> HIDE DEF topic, message, values, given
  <2>6. /\ o.len = 15 + name + d + NumbersLen(r.values) + Quoted(topic) + Quoted(message)
        /\ o.len < CmdSize
    BY <1>6, <1>7, <2>1, <2>5
  <2>7. Cut(r.topic) < WillStringMax /\ Cut(r.message) < WillStringMax
    BY <1>5, <1>6, <2>5, <2>6 DEF CmdSize, WillStringMax
  <2>8. Cut(r.topic) = r.topic /\ Cut(r.message) = r.message
    BY <1>1, <2>7, CutFits
  <2> QED BY <1>1, <1>5, <1>6, <1>8, <1>11, <2>5, <2>6, <2>8 DEF Whole
<1> QED BY <1>9, <1>10, <1>11

-------------------------------------------------------------------------------
LEMMA ConcatOfFields ==
  ASSUME NEW a, NEW b, NEW c, NEW d
  PROVE  <<a, b>> \o <<c>> \o <<d>> \o <<>> \o <<>> \o <<>> = <<a, b, c, d>>
<1> DEFINE S == {a, b, c, d}
<1>1. <<a, b>> \in Seq(S) /\ <<c>> \in Seq(S) /\ <<d>> \in Seq(S)
      /\ <<a, b, c>> \in Seq(S) /\ <<a, b, c, d>> \in Seq(S)
  OBVIOUS
<1>2. <<a, b>> \o <<c>> = <<a, b, c>>
  <2> DEFINE u == <<a, b>>
             v == <<c>>
             w == <<a, b, c>>
  <2>1. u \in Seq(S) /\ v \in Seq(S) /\ w \in Seq(S) /\ Len(u) = 2 /\ Len(v) = 1 /\ Len(w) = 3
    OBVIOUS
  <2>2. v[1] = c /\ w[3] = c /\ \A i \in 1..2 : w[i] = u[i]
    OBVIOUS
  <2> HIDE DEF S, u, v, w
  <2>3. /\ u \o v \in Seq(S) /\ Len(u \o v) = 3
        /\ \A i \in 1..3 : (u \o v)[i] = IF i <= 2 THEN u[i] ELSE v[i - 2]
    <3>1. /\ u \o v \in Seq(S) /\ Len(u \o v) = Len(u) + Len(v)
          /\ \A i \in 1..Len(u) + Len(v) :
               (u \o v)[i] = IF i <= Len(u) THEN u[i] ELSE v[i - Len(u)]
      BY <2>1, ConcatProperties, Zenon
    <3> QED BY <2>1, <3>1
  <2>4. \A i \in 1..3 : (u \o v)[i] = w[i]
    BY <2>2, <2>3
  <2>5. u \o v = w
    BY <2>1, <2>3, <2>4, SeqEqual
  <2> QED BY <2>5 DEF u, v, w
<1>3. <<a, b, c>> \o <<d>> = <<a, b, c, d>>
  <2> DEFINE u == <<a, b, c>>
             v == <<d>>
             w == <<a, b, c, d>>
  <2>1. u \in Seq(S) /\ v \in Seq(S) /\ w \in Seq(S) /\ Len(u) = 3 /\ Len(v) = 1 /\ Len(w) = 4
    OBVIOUS
  <2>2. v[1] = d /\ w[4] = d /\ \A i \in 1..3 : w[i] = u[i]
    OBVIOUS
  <2> HIDE DEF S, u, v, w
  <2>3. /\ u \o v \in Seq(S) /\ Len(u \o v) = 4
        /\ \A i \in 1..4 : (u \o v)[i] = IF i <= 3 THEN u[i] ELSE v[i - 3]
    <3>1. /\ u \o v \in Seq(S) /\ Len(u \o v) = Len(u) + Len(v)
          /\ \A i \in 1..Len(u) + Len(v) :
               (u \o v)[i] = IF i <= Len(u) THEN u[i] ELSE v[i - Len(u)]
      BY <2>1, ConcatProperties, Zenon
    <3> QED BY <2>1, <3>1
  <2>4. \A i \in 1..4 : (u \o v)[i] = w[i]
    BY <2>2, <2>3
  <2>5. u \o v = w
    BY <2>1, <2>3, <2>4, SeqEqual
  <2> QED BY <2>5 DEF u, v, w
<1>4. <<a, b, c, d>> \o <<>> = <<a, b, c, d>>
  BY <1>1, ConcatEmptySeq
<1> QED BY <1>2, <1>3, <1>4

\* The fields bg95_define_pdp_context writes: an id, a type, an APN, and an
\* empty address behind it.
LEMMA DefinedFields ==
  ASSUME NEW p, Given(p.type), Given(p.apn), ~Given(p.addr), ~Given(p.data), ~Given(p.head),
         ~Given(p.ipv4), NEW t, t = (IF p.type \in PdpTypes THEN p.type ELSE 0)
  PROVE  ContextFields(p) = <<Num(p.cid), Text(t), Text(p.apn), Text(0)>>
<1> DEFINE f1 == Field(p.apn, Text(p.apn), TRUE, Text(0))
           f2 == Field(p.addr, Text(p.addr), Given(p.apn), Text(0))
           f3 == Field(p.data, Num(p.data), Given(p.addr), Num(0))
           f4 == Field(p.head, Num(p.head), Given(p.data), Num(0))
           f5 == Field(p.ipv4, Num(p.ipv4), FALSE, Num(0))
<1>1. f1 = <<Text(p.apn)>> /\ f2 = <<Text(0)>> /\ f3 = <<>> /\ f4 = <<>> /\ f5 = <<>>
  BY DEF Field
<1>2. ContextFields(p) = <<Num(p.cid), Text(t)>> \o f1 \o f2 \o f3 \o f4 \o f5
  BY DEF ContextFields
<1> HIDE DEF f1, f2, f3, f4, f5
<1> QED BY <1>1, <1>2, ConcatOfFields

LEMMA FieldsLenOfFour ==
  ASSUME NEW s, Len(s) = 4, \A k \in 1..4 : FieldLen(s, k) \in Nat
  PROVE  FieldsLen(s) = FieldLen(s, 1) + FieldLen(s, 2) + FieldLen(s, 3) + FieldLen(s, 4)
<1> DEFINE n == 4
           d == [k \in 1..n |-> FieldLen(s, k)]
           UpTo[k \in 0..Len(s)] == IF k = 0 THEN 0 ELSE UpTo[k - 1] + FieldLen(s, k)
<1>1. n = 4 /\ n \in 0..4 /\ 0 \in Int
  OBVIOUS
<1> HIDE DEF n
<1>2. d \in [1..n -> Int] /\ \A k \in 1..n : d[k] = FieldLen(s, k)
  BY <1>1
<1>3. PICK f : Adds(f, n, 0, d)
  <2> HIDE DEF d, UpTo
  <2> QED BY <1>1, <1>2, AddsExists, Zenon
<1>4. \A g : [k \in 0..n |-> IF k = 0 THEN 0 ELSE g[k - 1] + d[k]]
               = [k \in 0..Len(s) |-> IF k = 0 THEN 0 ELSE g[k - 1] + FieldLen(s, k)]
  <2> HIDE DEF UpTo
  <2>1. \A k \in 0..n : k # 0 => d[k] = FieldLen(s, k)
    BY <1>2
  <2> QED BY <1>1, <2>1
<1>5. UpTo = [k \in 0..Len(s) |-> IF k = 0 THEN 0 ELSE UpTo[k - 1] + FieldLen(s, k)]
  <2>1. f = [k \in 0..Len(s) |-> IF k = 0 THEN 0 ELSE f[k - 1] + FieldLen(s, k)]
    BY <1>3, <1>4, Zenon DEF Adds
  <2> QED BY <2>1
<1>6. FieldsLen(s) = UpTo[Len(s)]
  BY DEF FieldsLen
<1> HIDE DEF UpTo, d
<1>7. /\ UpTo[0] = 0
      /\ UpTo[1] = UpTo[0] + FieldLen(s, 1) /\ UpTo[2] = UpTo[1] + FieldLen(s, 2)
      /\ UpTo[3] = UpTo[2] + FieldLen(s, 3) /\ UpTo[4] = UpTo[3] + FieldLen(s, 4)
  BY <1>5
<1> QED BY <1>6, <1>7

LEMMA DefineWhole ==
  ASSUME NEW r \in Defines, NEW o, o = DefineContext(r), o.err = "ESP_OK"
  PROVE  Whole(r, o)
<1> DEFINE apn == IF r.apn > StringMax THEN StringMax ELSE r.apn
           t == IF r.type \in PdpTypes THEN r.type ELSE 0
           p == [cid |-> r.cid, type |-> r.type, apn |-> apn, addr |-> NotGiven,
                 data |-> NotGiven, head |-> NotGiven, ipv4 |-> NotGiven]
           s == <<Num(r.cid), Text(t), Text(apn), Text(0)>>
           d == Digits(r.cid)
           name == TypeNameLen[t]
<1>1. r.fn = "define" /\ r.apn \in Nat /\ r.type \in PdpTypes \cup {UnknownType}
  BY RequestAssumption DEF Defines
<1>2. o = FormatWrite(CmdLen.CGDCONT, CgdcontFormat(p))
  BY DEF DefineContext, Invalid
<1>3. apn \in Nat /\ (~Cuts(r) => apn = r.apn)
  BY <1>1 DEF StringMax, Cuts
<1>4. t \in PdpTypes /\ name \in Nat
  BY <1>1 DEF PdpTypes, UnknownType, TypeNameLen
<1>5. d \in 1..5
  BY DigitsType
<1>6. /\ p.cid = r.cid /\ p.type = r.type /\ p.apn = apn
      /\ Given(p.type) /\ Given(p.apn) /\ ~Given(p.addr) /\ ~Given(p.data)
      /\ ~Given(p.head) /\ ~Given(p.ipv4)
  BY <1>1, <1>3 DEF Given, NotGiven, PdpTypes, UnknownType
<1> HIDE DEF p, apn, name, d
<1>7. ContextFields(p) = s
  BY <1>6, DefinedFields
<1>8. /\ Len(s) = 4
      /\ FieldLen(s, 1) = 1 + d
      /\ FieldLen(s, 2) = 3 + name
      /\ FieldLen(s, 3) = 3 + apn
      /\ FieldLen(s, 4) = 3
  <2>1. s[1] = Num(r.cid) /\ s[2] = Text(t) /\ s[3] = Text(apn) /\ s[4] = Text(0) /\ Len(s) = 4
    OBVIOUS
  <2>2. FieldLen(s, 1) = 1 + d
    BY <2>1 DEF FieldLen, Num, Number, d
  <2>3. FieldLen(s, 2) = Quoted(name)
    BY <2>1 DEF FieldLen, Text, name
  <2>4. FieldLen(s, 3) = Quoted(apn) /\ FieldLen(s, 4) = Quoted(0)
    BY <2>1 DEF FieldLen, Text
  <2> QED BY <1>3, <1>4, <2>1, <2>2, <2>3, <2>4 DEF Quoted, NoString
<1> HIDE DEF s
<1>9. FieldsLen(s) = (1 + d) + (3 + name) + (3 + apn) + 3
  <2>1. \A k \in 1..4 : FieldLen(s, k) \in Nat
    BY <1>3, <1>4, <1>5, <1>8
  <2> QED BY <1>8, <2>1, FieldsLenOfFour
<1>10. CgdcontFormat(p).len = FieldsLen(s)
  BY <1>7 DEF CgdcontFormat, Formatted
<1>11. CgdcontFormat(p).len \in Int
  BY <1>3, <1>4, <1>5, <1>9, <1>10
<1>12. o.len = 5 + 7 + FieldsLen(s) /\ o.len < CmdSize
  BY <1>2, <1>10, <1>11, CommandFits, CommandNames
<1>13. Needed(r) = 22 + d + name + r.apn
  BY <1>1 DEF Needed, d, name
<1> QED BY <1>1, <1>3, <1>4, <1>5, <1>9, <1>12, <1>13 DEF Whole

-------------------------------------------------------------------------------
\* What is subscribed to can be published to and unsubscribed from.
LEMMA SubscribedTo ==
  ASSUME NEW r \in Subscribes, Subscribe(r).err = "ESP_OK"
  PROVE  /\ r.idx \in 0..ClientIdxMax /\ r.msgid \in 1..MsgidMax /\ r.qos \in 0..QosMax
         /\ r.topic \in 1..(TopicSize - 1)
<1>1. r.idx \in 0..255 /\ r.qos \in 0..255
  BY RequestAssumption DEF Subscribes
<1>2. /\ ~(r.idx > ClientIdxMax) /\ r.msgid \in 1..MsgidMax
      /\ ~(r.qos > QosMax) /\ r.topic \in 1..(TopicSize - 1)
  BY DEF Subscribe, Invalid
<1> QED BY <1>1, <1>2 DEF ClientIdxMax, QosMax

LEMMA PublishToTopic ==
  ASSUME NEW r \in Subscribes, Subscribe(r).err = "ESP_OK", NEW p,
         p = [fn |-> "publish", idx |-> r.idx, msgid |-> r.msgid, qos |-> r.qos, retain |-> 1,
              topic |-> r.topic, msglen |-> MsgMaxLen]
  PROVE  Publish(p).err = "ESP_OK" /\ Publish(p).len = Needed(p)
<1> DEFINE q == [p EXCEPT !.msgid = PublishMsgid(p), !.topic = PublishTopic(p)]
           f == QmtpubFormat(q)
           o == Publish(p)
<1>1. /\ r.idx \in 0..ClientIdxMax /\ r.msgid \in 1..MsgidMax /\ r.qos \in 0..QosMax
      /\ r.topic \in 1..(TopicSize - 1)
  BY SubscribedTo
<1>2. /\ p.fn = "publish" /\ p.idx = r.idx /\ p.msgid = r.msgid /\ p.qos = r.qos
      /\ p.retain = 1 /\ p.topic = r.topic /\ p.msglen = MsgMaxLen
  OBVIOUS
<1>3. PublishTopic(p) = r.topic
  BY <1>1, <1>2 DEF PublishTopic, TopicSize
<1>4. /\ q.idx = r.idx /\ q.msgid = PublishMsgid(p) /\ q.qos = r.qos /\ q.retain = 1
      /\ q.topic = r.topic /\ q.msglen = MsgMaxLen
  BY <1>2, <1>3
<1>5. PublishMsgid(p) \in 0..MsgidMax
  <2>1. MsgidMax \in Nat
    BY DEF MsgidMax
  <2>2. r.msgid # 0 /\ r.msgid \in 0..MsgidMax
    BY <1>1, <2>1
  <2>3. PublishMsgid(p) = 0 \/ PublishMsgid(p) = r.msgid
    BY <1>2, <2>2, Zenon DEF PublishMsgid
  <2> QED BY <2>1, <2>2, <2>3
<1>6. MsgMaxLen \in 1..MsgMaxLen /\ MsgMaxLen # 0 /\ ~(MsgMaxLen > MsgMaxLen)
  <2>1. MsgMaxLen = 4096
    BY DEF MsgMaxLen
  <2> QED BY <2>1
<1>7. o = FormatWrite(CmdLen.QMTPUB, f)
  <2>1. ~(p.idx > ClientIdxMax)
    BY <1>1, <1>2 DEF ClientIdxMax
  <2> HIDE DEF q
  <2> QED BY <1>2, <1>6, <2>1 DEF Publish, q
<1>8. Quoted(r.topic) = 3 + r.topic
  BY <1>1 DEF Quoted, NoString
<1> HIDE DEF q
<1>9. f = Formatted(\/ q.idx > ClientIdxMax \/ q.msgid > MsgidMax
                    \/ q.qos > QosMax \/ q.retain > RetainMax
                    \/ q.topic = 0
                    \/ q.msglen \notin 1..MsgMaxLen,
                    Number(q.idx) + Number(q.msgid) + Number(q.qos) + Number(q.retain)
                      + Quoted(q.topic) + Number(q.msglen))
  BY DEF QmtpubFormat
<1>10. /\ ~(q.idx > ClientIdxMax) /\ ~(q.msgid > MsgidMax) /\ ~(q.qos > QosMax)
       /\ ~(q.retain > RetainMax) /\ q.topic # 0 /\ q.msglen \in 1..MsgMaxLen
  <2>1. MsgidMax \in Int
    BY DEF MsgidMax
  <2> QED BY <1>1, <1>4, <1>5, <1>6, <2>1 DEF ClientIdxMax, QosMax, RetainMax
<1>11. f.len = (1 + Digits(r.idx)) + (1 + Digits(PublishMsgid(p))) + (1 + Digits(r.qos))
                 + (1 + Digits(1)) + (3 + r.topic) + (1 + Digits(MsgMaxLen))
  BY <1>4, <1>8, <1>9 DEF Formatted, Number
<1>12. f.len \in Int /\ f.len < 170
  <2>1. /\ Digits(r.idx) \in 1..5 /\ Digits(PublishMsgid(p)) \in 1..5
        /\ Digits(r.qos) \in 1..5 /\ Digits(1) \in 1..5 /\ Digits(MsgMaxLen) \in 1..5
    BY DigitsType, Zenon
  <2>2. r.topic \in Int /\ r.topic < 128
    BY <1>1 DEF TopicSize
  <2> HIDE DEF f
  <2> QED BY <1>11, <2>1, <2>2
<1>13. f.err = "ESP_OK"
  <2>1. ~(f.len >= ParamSize)
    BY <1>12 DEF ParamSize
  <2> QED BY <1>9, <1>10, <2>1 DEF Formatted
<1> HIDE DEF f
<1>14. o.err = "ESP_OK" /\ o.len = 5 + 6 + f.len
  BY <1>7, <1>12, <1>13, CommandNames DEF FormatWrite, CmdSize
<1>15. Needed(p) = 19 + Digits(r.idx) + Digits(PublishMsgid(p)) + Digits(r.qos) + Digits(1)
                     + r.topic + Digits(MsgMaxLen)
  BY <1>2 DEF Needed
<1> QED BY <1>1, <1>11, <1>14, <1>15, DigitsType

LEMMA UnsubscribeFromTopic ==
  ASSUME NEW r \in Subscribes, Subscribe(r).err = "ESP_OK"
  PROVE  Unsubscribe(r).err = "ESP_OK"
<1> DEFINE f == QmtunsFormat([idx |-> r.idx, msgid |-> r.msgid,
                              topics |-> <<[len |-> r.topic]>>])
<1>1. /\ r.idx \in 0..ClientIdxMax /\ r.msgid \in 1..MsgidMax
      /\ r.topic \in 1..(TopicSize - 1)
  BY SubscribedTo
<1>2. ~(r.idx > ClientIdxMax)
  BY <1>1 DEF ClientIdxMax
<1>3. Unsubscribe(r) = FormatWrite(CmdLen.QMTUNS, f)
  BY <1>1, <1>2 DEF Unsubscribe
<1>4. r.topic \in Nat /\ r.topic # 0 /\ r.topic < 128
  BY <1>1 DEF TopicSize
<1>5. /\ f.len = Number(r.idx) + Number(r.msgid) + Quoted(r.topic)
      /\ f.err = "ESP_OK" <=>
           /\ ~(r.idx > ClientIdxMax) /\ r.msgid \in 1..MsgidMax
           /\ r.topic = 0 => Number(r.idx) + Number(r.msgid) >= ParamSize
           /\ ~(f.len >= ParamSize)
  BY <1>4, UnsFormat
<1> HIDE DEF f
<1>6. f.len \in Int /\ f.len < 200
  BY <1>4, <1>5, NumberType DEF Quoted, NoString
<1>7. f.err = "ESP_OK"
  <2>1. ~(f.len >= ParamSize)
    BY <1>6 DEF ParamSize
  <2> QED BY <1>1, <1>2, <1>4, <1>5, <2>1
<1> QED BY <1>3, <1>6, <1>7, CommandNames DEF FormatWrite, CmdSize

-------------------------------------------------------------------------------
\* The one line of a context that is listed.
LEMMA OneContext ==
  ASSUME NEW line, Given(ParseContext(line).cid)
  PROVE  CgdcontReadParser(<<line>>) = <<ParseContext(line)>>
<1> DEFINE lines == <<line>>
           c == ParseContext(line)
           Listed[n \in 0..Len(lines)] ==
             IF n = 0 THEN <<>>
             ELSE LET x == ParseContext(lines[n])
                  IN  IF Given(x.cid) /\ Len(Listed[n - 1]) < MaxContexts
                      THEN Append(Listed[n - 1], x) ELSE Listed[n - 1]
           w == [n \in 0..1 |-> IF n = 0 THEN <<>> ELSE Append(<<>>, c)]
<1>1. Len(lines) = 1 /\ lines[1] = line
  OBVIOUS
<1>2. w[0] = <<>> /\ w[1] = Append(<<>>, c) /\ Len(w[0]) < MaxContexts
  BY DEF MaxContexts
<1>3. w = [n \in 0..Len(lines) |->
             IF n = 0 THEN <<>>
             ELSE LET x == ParseContext(lines[n])
                  IN  IF Given(x.cid) /\ Len(w[n - 1]) < MaxContexts
                      THEN Append(w[n - 1], x) ELSE w[n - 1]]
  <2> DEFINE step(n) == IF n = 0 THEN <<>>
                        ELSE LET x == ParseContext(lines[n])
                             IN  IF Given(x.cid) /\ Len(w[n - 1]) < MaxContexts
                                 THEN Append(w[n - 1], x) ELSE w[n - 1]
  <2>1. w = [n \in 0..1 |-> w[n]]
    OBVIOUS
  <2> HIDE DEF w, lines
  <2>2. step(0) = w[0]
    BY <1>2
  <2>3. step(1) = w[1]
    <3>1. ParseContext(lines[1]) = c /\ Given(c.cid)
      BY <1>1
    <3> HIDE DEF c
    <3>2. step(1) = IF Given(c.cid) /\ Len(w[0]) < MaxContexts
                    THEN Append(w[0], c) ELSE w[0]
      BY <3>1
    <3> QED BY <1>2, <3>1, <3>2
  <2>4. \A n \in 0..1 : step(n) = w[n]
    <3> HIDE DEF step
    <3> QED BY <2>2, <2>3
  <2> QED BY <1>1, <2>1, <2>4
<1>4. Listed = [n \in 0..Len(lines) |->
                  IF n = 0 THEN <<>>
                  ELSE LET x == ParseContext(lines[n])
                       IN  IF Given(x.cid) /\ Len(Listed[n - 1]) < MaxContexts
                           THEN Append(Listed[n - 1], x) ELSE Listed[n - 1]]
  <2> HIDE DEF w, lines
  <2> QED BY <1>3
<1>5. CgdcontReadParser(lines) = Listed[Len(lines)]
  BY DEF CgdcontReadParser
<1> HIDE DEF Listed, lines
<1>6. Listed[0] = <<>>
  BY <1>1, <1>4
<1>7. Listed[1] = Append(<<>>, c)
  BY <1>1, <1>2, <1>4, <1>6
<1>8. Append(<<>>, c) = <<c>>
  OBVIOUS
<1> QED BY <1>1, <1>5, <1>7, <1>8 DEF lines

\* s is the first n of the fields e, of which there may be seven.
Spells(s, n, e) ==
  /\ s \in Seq({e[k] : k \in 1..7}) /\ Len(s) = n
  /\ \A k \in 1..n : s[k] = e[k]

LEMMA ConcatOne ==
  ASSUME NEW S, NEW s \in Seq(S), NEW v \in Seq(S), Len(v) = 1
  PROVE  /\ s \o v \in Seq(S) /\ Len(s \o v) = Len(s) + 1
         /\ \A k \in 1..Len(s) + 1 :
              (s \o v)[k] = IF k <= Len(s) THEN s[k] ELSE v[k - Len(s)]
<1>1. /\ s \o v \in Seq(S) /\ Len(s \o v) = Len(s) + Len(v)
      /\ \A k \in 1..Len(s) + Len(v) :
           (s \o v)[k] = IF k <= Len(s) THEN s[k] ELSE v[k - Len(s)]
  BY ConcatProperties, Zenon
<1> QED BY <1>1

LEMMA SpellNext ==
  ASSUME NEW e, NEW m \in 1..7, NEW n \in 0..6, m = n + 1, NEW s, Spells(s, n, e),
         NEW v, v = <<e[m]>>
  PROVE  Spells(s \o v, m, e)
<1> DEFINE S == {e[k] : k \in 1..7}
<1>1. s \in Seq(S) /\ Len(s) = n /\ \A k \in 1..n : s[k] = e[k]
  BY DEF Spells
<1>2. v \in Seq(S) /\ Len(v) = 1 /\ v[1] = e[m]
  OBVIOUS
<1> HIDE DEF S
<1>3. /\ s \o v \in Seq(S) /\ Len(s \o v) = Len(s) + 1
      /\ \A k \in 1..Len(s) + 1 :
           (s \o v)[k] = IF k <= Len(s) THEN s[k] ELSE v[k - Len(s)]
  BY <1>1, <1>2, ConcatOne, Zenon
<1>4. Len(s \o v) = m
  BY <1>1, <1>3
<1>5. ASSUME NEW k \in 1..m PROVE (s \o v)[k] = e[k]
  <2>1. (s \o v)[k] = IF k <= n THEN s[k] ELSE v[k - n]
    BY <1>1, <1>3
  <2>2. CASE k <= n
    BY <1>1, <2>1, <2>2
  <2>3. CASE ~(k <= n)
    <3>1. k = m /\ k - n = 1
      BY <2>3
    <3> QED BY <1>2, <2>1, <2>3, <3>1
  <2> QED BY <2>2, <2>3
<1> QED BY <1>3, <1>4, <1>5 DEF Spells, S

LEMMA SpellNone ==
  ASSUME NEW e, NEW n, NEW s, Spells(s, n, e)
  PROVE  Spells(s \o <<>>, n, e)
<1>1. s \o <<>> = s
  BY ConcatEmptySeq DEF Spells
<1> QED BY <1>1

\* The fields of a context in their places, when they are all there.
Places(p) ==
  <<Num(p.cid), Text(IF p.type \in PdpTypes THEN p.type ELSE 0),
    IF Given(p.apn) THEN Text(p.apn) ELSE Text(0),
    IF Given(p.addr) THEN Text(p.addr) ELSE Text(0),
    IF Given(p.data) THEN Num(p.data) ELSE Num(0),
    IF Given(p.head) THEN Num(p.head) ELSE Num(0),
    Num(p.ipv4)>>

\* A context whose fields are given in order is written as its fields up to the
\* last given, or the one that is filled behind it.
LEMMA FieldsInPlaces ==
  ASSUME NEW p, InOrder(p)
  PROVE  \E n \in 3..7 :
           /\ Spells(ContextFields(p), n, Places(p))
           /\ Given(p.addr) => n >= 4
           /\ Given(p.data) => n >= 5
           /\ Given(p.head) => n >= 6
           /\ Given(p.ipv4) => n = 7
           /\ Given(p.apn) => n >= 4
<1> DEFINE e == Places(p)
           s2 == <<Num(p.cid), Text(IF p.type \in PdpTypes THEN p.type ELSE 0)>>
           f3 == Field(p.apn, Text(p.apn), TRUE, Text(0))
           f4 == Field(p.addr, Text(p.addr), Given(p.apn), Text(0))
           f5 == Field(p.data, Num(p.data), Given(p.addr), Num(0))
           f6 == Field(p.head, Num(p.head), Given(p.data), Num(0))
           f7 == Field(p.ipv4, Num(p.ipv4), FALSE, Num(0))
<1>1. ContextFields(p) = s2 \o f3 \o f4 \o f5 \o f6 \o f7
  BY DEF ContextFields, InOrder
<1>2. /\ f3 = <<e[3]>>
      /\ f4 = IF Given(p.addr) \/ Given(p.apn) THEN <<e[4]>> ELSE <<>>
      /\ f5 = IF Given(p.data) \/ Given(p.addr) THEN <<e[5]>> ELSE <<>>
      /\ f6 = IF Given(p.head) \/ Given(p.data) THEN <<e[6]>> ELSE <<>>
      /\ f7 = IF Given(p.ipv4) THEN <<e[7]>> ELSE <<>>
  BY DEF Field, Places
<1>3. Spells(s2, 2, e)
  BY DEF Spells, Places
<1>4. /\ Given(p.data) => Given(p.addr) \/ Given(p.apn)
      /\ Given(p.head) => Given(p.data) \/ Given(p.addr)
      /\ Given(p.ipv4) => Given(p.head) \/ Given(p.data)
  BY DEF InOrder
<1> HIDE DEF e, s2, f3, f4, f5, f6, f7
<1>5. /\ 3 = 2 + 1 /\ 4 = 3 + 1 /\ 5 = 4 + 1 /\ 6 = 5 + 1 /\ 7 = 6 + 1
      /\ 2 \in 0..6 /\ 3 \in 0..6 /\ 4 \in 0..6 /\ 5 \in 0..6 /\ 6 \in 0..6
      /\ 3 \in 1..7 /\ 4 \in 1..7 /\ 5 \in 1..7 /\ 6 \in 1..7 /\ 7 \in 1..7
  OBVIOUS
<1>6. Spells(s2 \o f3, 3, e)
  BY <1>2, <1>3, <1>5, SpellNext, Zenon
<1>7. CASE ~Given(p.addr) /\ ~Given(p.apn)
  <2>1. f4 = <<>> /\ f5 = <<>> /\ f6 = <<>> /\ f7 = <<>>
    BY <1>2, <1>4, <1>7
  <2>2. Spells(ContextFields(p), 3, e)
    BY <1>1, <1>6, <2>1, SpellNone
  <2> QED BY <1>4, <1>7, <2>2 DEF e
<1>8. CASE Given(p.addr) \/ Given(p.apn)
  <2>1. Spells(s2 \o f3 \o f4, 4, e)
    <3>1. f4 = <<e[4]>>
      BY <1>2, <1>8
    <3> QED BY <1>5, <1>6, <3>1, SpellNext, Zenon
  <2>2. CASE ~Given(p.data) /\ ~Given(p.addr)
    <3>1. f5 = <<>> /\ f6 = <<>> /\ f7 = <<>>
      BY <1>2, <1>4, <2>2
    <3>2. Spells(ContextFields(p), 4, e)
      BY <1>1, <2>1, <3>1, SpellNone
    <3> QED BY <1>4, <2>2, <3>2 DEF e
  <2>3. CASE Given(p.data) \/ Given(p.addr)
    <3>1. Spells(s2 \o f3 \o f4 \o f5, 5, e)
      <4>1. f5 = <<e[5]>>
        BY <1>2, <2>3
      <4> QED BY <1>5, <2>1, <4>1, SpellNext, Zenon
    <3>2. CASE ~Given(p.head) /\ ~Given(p.data)
      <4>1. f6 = <<>> /\ f7 = <<>>
        BY <1>2, <1>4, <3>2
      <4>2. Spells(ContextFields(p), 5, e)
        BY <1>1, <3>1, <4>1, SpellNone
      <4> QED BY <1>4, <3>2, <4>2 DEF e
    <3>3. CASE Given(p.head) \/ Given(p.data)
      <4>1. Spells(s2 \o f3 \o f4 \o f5 \o f6, 6, e)
        <5>1. f6 = <<e[6]>>
          BY <1>2, <3>3
        <5> QED BY <1>5, <3>1, <5>1, SpellNext, Zenon
      <4>2. CASE ~Given(p.ipv4)
        <5>1. f7 = <<>>
          BY <1>2, <4>2
        <5>2. Spells(ContextFields(p), 6, e)
          BY <1>1, <4>1, <5>1, SpellNone
        <5> QED BY <4>2, <5>2 DEF e
      <4>3. CASE Given(p.ipv4)
        <5>1. Spells(ContextFields(p), 7, e)
          <6>1. f7 = <<e[7]>>
            BY <1>2, <4>3
          <6>2. Spells((s2 \o f3 \o f4 \o f5 \o f6) \o f7, 7, e)
            BY <1>5, <4>1, <6>1, SpellNext, Zenon
          <6> QED BY <1>1, <6>2, Zenon
        <5> QED BY <5>1 DEF e
      <4> QED BY <4>2, <4>3
    <3> QED BY <3>2, <3>3
  <2> QED BY <2>2, <2>3
<1> QED BY <1>7, <1>8

\* What is read of a place that should be a number, or a text, and of the k-th
\* place of a line of n when its value is v.
NumAt(line, k, R)  == FieldAt(line, k, FALSE, R)
TextAt(line, k, R) == FieldAt(line, k, TRUE, R)
Read(n, k, v, R) == IF k <= n /\ v \in R THEN v ELSE NotGiven

\* What the parser makes of a number, and of a text, in a place of a line.
LEMMA NumRead ==
  ASSUME NEW e, NEW n \in 3..7, NEW line, Spells(line, n, e), NEW k \in 1..7, NEW v,
         e[k] = Num(v), NEW R
  PROVE  NumAt(line, k, R) = Read(n, k, v, R)
<1>1. e[k].quoted = FALSE /\ e[k].val = v
  BY DEF Num
<1>2. DOMAIN line = 1..n
  BY DEF Spells
<1>3. CASE k <= n
  <2>1. k \in DOMAIN line /\ line[k] = e[k]
    BY <1>2, <1>3 DEF Spells
  <2>2. line[k].quoted = FALSE /\ line[k].val = v
    BY <1>1, <2>1
  <2> QED BY <1>3, <2>1, <2>2, Zenon DEF NumAt, FieldAt, Read
<1>4. CASE ~(k <= n)
  <2>1. k \notin DOMAIN line
    BY <1>2, <1>4
  <2> QED BY <1>4, <2>1, Zenon DEF NumAt, FieldAt, Read
<1> QED BY <1>3, <1>4

LEMMA TextRead ==
  ASSUME NEW e, NEW n \in 3..7, NEW line, Spells(line, n, e), NEW k \in 1..7, NEW v,
         e[k] = Text(v), NEW R
  PROVE  TextAt(line, k, R) = Read(n, k, v, R)
<1>1. e[k].quoted = TRUE /\ e[k].val = v
  BY DEF Text
<1>2. DOMAIN line = 1..n
  BY DEF Spells
<1>3. CASE k <= n
  <2>1. k \in DOMAIN line /\ line[k] = e[k]
    BY <1>2, <1>3 DEF Spells
  <2>2. line[k].quoted = TRUE /\ line[k].val = v
    BY <1>1, <2>1
  <2> QED BY <1>3, <2>1, <2>2, Zenon DEF TextAt, FieldAt, Read
<1>4. CASE ~(k <= n)
  <2>1. k \notin DOMAIN line
    BY <1>2, <1>4
  <2> QED BY <1>4, <2>1, Zenon DEF TextAt, FieldAt, Read
<1> QED BY <1>3, <1>4

\* e is the places of a line with these values, and c what is read of the first n.
IsRow(e, cid, type, apn, addr, data, head, ipv4) ==
  e = <<Num(cid), Text(type), Text(apn), Text(addr), Num(data), Num(head), Num(ipv4)>>

IsRead(c, n, cid, type, apn, addr, data, head, ipv4) ==
  /\ c.cid = Read(n, 1, cid, 0..MaxContexts) /\ c.type = Read(n, 2, type, PdpTypes)
  /\ c.apn = Read(n, 3, apn, 0..StringMax) /\ c.addr = Read(n, 4, addr, 0..StringMax)
  /\ c.data = Read(n, 5, data, DataComps) /\ c.head = Read(n, 6, head, HeadComps)
  /\ c.ipv4 = Read(n, 7, ipv4, Ipv4Allocs)

\* A line is read place by place.
LEMMA ContextOfLine ==
  ASSUME NEW e, NEW n \in 3..7, NEW line, Spells(line, n, e),
         NEW cid, NEW type, NEW apn, NEW addr, NEW data, NEW head, NEW ipv4,
         IsRow(e, cid, type, apn, addr, data, head, ipv4),
         NEW c, c = ParseContext(line)
  PROVE  IsRead(c, n, cid, type, apn, addr, data, head, ipv4)
<1>1. /\ c.cid = NumAt(line, 1, 0..MaxContexts)
      /\ c.type = TextAt(line, 2, PdpTypes)
      /\ c.apn = TextAt(line, 3, 0..StringMax)
      /\ c.addr = TextAt(line, 4, 0..StringMax)
      /\ c.data = NumAt(line, 5, DataComps)
      /\ c.head = NumAt(line, 6, HeadComps)
      /\ c.ipv4 = NumAt(line, 7, Ipv4Allocs)
  BY DEF ParseContext, NumAt, TextAt
<1>2. c.cid = Read(n, 1, cid, 0..MaxContexts)
  <2>1. e[1] = Num(cid) /\ 1 \in 1..7
    BY DEF IsRow
  <2>2. NumAt(line, 1, 0..MaxContexts) = Read(n, 1, cid, 0..MaxContexts)
    BY <2>1, NumRead
  <2> QED BY <1>1, <2>2
<1>3. c.type = Read(n, 2, type, PdpTypes)
  <2>1. e[2] = Text(type) /\ 2 \in 1..7
    BY DEF IsRow
  <2>2. TextAt(line, 2, PdpTypes) = Read(n, 2, type, PdpTypes)
    BY <2>1, TextRead
  <2> QED BY <1>1, <2>2
<1>4. c.apn = Read(n, 3, apn, 0..StringMax)
  <2>1. e[3] = Text(apn) /\ 3 \in 1..7
    BY DEF IsRow
  <2>2. TextAt(line, 3, 0..StringMax) = Read(n, 3, apn, 0..StringMax)
    BY <2>1, TextRead
  <2> QED BY <1>1, <2>2
<1>5. c.addr = Read(n, 4, addr, 0..StringMax)
  <2>1. e[4] = Text(addr) /\ 4 \in 1..7
    BY DEF IsRow
  <2>2. TextAt(line, 4, 0..StringMax) = Read(n, 4, addr, 0..StringMax)
    BY <2>1, TextRead
  <2> QED BY <1>1, <2>2
<1>6. c.data = Read(n, 5, data, DataComps)
  <2>1. e[5] = Num(data) /\ 5 \in 1..7
    BY DEF IsRow
  <2>2. NumAt(line, 5, DataComps) = Read(n, 5, data, DataComps)
    BY <2>1, NumRead
  <2> QED BY <1>1, <2>2
<1>7. c.head = Read(n, 6, head, HeadComps)
  <2>1. e[6] = Num(head) /\ 6 \in 1..7
    BY DEF IsRow
  <2>2. NumAt(line, 6, HeadComps) = Read(n, 6, head, HeadComps)
    BY <2>1, NumRead
  <2> QED BY <1>1, <2>2
<1>8. c.ipv4 = Read(n, 7, ipv4, Ipv4Allocs)
  <2>1. e[7] = Num(ipv4) /\ 7 \in 1..7
    BY DEF IsRow
  <2>2. NumAt(line, 7, Ipv4Allocs) = Read(n, 7, ipv4, Ipv4Allocs)
    BY <2>1, NumRead
  <2> QED BY <1>1, <2>2
<1> QED BY <1>2, <1>3, <1>4, <1>5, <1>6, <1>7, <1>8 DEF IsRead

\* A field with no value may be read as the 0 that filled its place.
Filled(x) == IF Given(x) THEN x ELSE 0
ReadAs(x, y) == \/ x = y
                \/ x = 0 /\ ~Given(y)

\* The context read of a line whose fields are in order is the one written, but
\* for the places that were filled.
LEMMA ContextOfFields ==
  ASSUME NEW p, InOrder(p), NEW c, c = ParseContext(ContextFields(p)),
         p.cid \in 1..MaxContexts, p.type \in PdpTypes,
         p.apn \in 0..StringMax \cup {NotGiven}, p.addr \in 0..StringMax \cup {NotGiven},
         p.data \in DataComps \cup {NotGiven}, p.head \in HeadComps \cup {NotGiven},
         p.ipv4 \in Ipv4Allocs \cup {NotGiven}
  PROVE  /\ c.cid = p.cid /\ c.type = p.type /\ c.ipv4 = p.ipv4
         /\ ReadAs(c.apn, p.apn)
         /\ ReadAs(c.addr, p.addr)
         /\ ReadAs(c.data, p.data)
         /\ ReadAs(c.head, p.head)
         /\ Given(p.head) => Given(c.data) /\ Given(c.addr)
<1> DEFINE line == ContextFields(p)
           e == Places(p)
<1>1. PICK n \in 3..7 :
        /\ Spells(line, n, e)
        /\ Given(p.addr) => n >= 4
        /\ Given(p.data) => n >= 5
        /\ Given(p.head) => n >= 6
        /\ Given(p.ipv4) => n = 7
        /\ Given(p.apn) => n >= 4
  BY FieldsInPlaces
<1>2. IsRow(e, p.cid, p.type, Filled(p.apn), Filled(p.addr), Filled(p.data),
            Filled(p.head), p.ipv4)
  BY DEF Places, Filled, IsRow
<1> HIDE DEF line, e
<1>3. n \in 3..7 /\ Spells(line, n, e)
  BY <1>1
<1>4. c = ParseContext(line)
  BY DEF line
<1>5. /\ c.cid = Read(n, 1, p.cid, 0..MaxContexts)
      /\ c.type = Read(n, 2, p.type, PdpTypes)
      /\ c.apn = Read(n, 3, Filled(p.apn), 0..StringMax)
      /\ c.addr = Read(n, 4, Filled(p.addr), 0..StringMax)
      /\ c.data = Read(n, 5, Filled(p.data), DataComps)
      /\ c.head = Read(n, 6, Filled(p.head), HeadComps)
      /\ c.ipv4 = Read(n, 7, p.ipv4, Ipv4Allocs)
  <2>1. IsRead(c, n, p.cid, p.type, Filled(p.apn), Filled(p.addr), Filled(p.data),
               Filled(p.head), p.ipv4)
    BY <1>2, <1>3, <1>4, ContextOfLine
  <2> QED BY <2>1 DEF IsRead
<1>6. c.cid = p.cid
  BY <1>3, <1>5 DEF Read, MaxContexts
<1>7. c.type = p.type
  BY <1>3, <1>5 DEF Read, PdpTypes
<1>8. ReadAs(c.apn, p.apn)
  BY <1>3, <1>5 DEF Read, ReadAs, Filled, Given, StringMax, NotGiven
<1>9. /\ ReadAs(c.addr, p.addr)
      /\ n >= 4 => Given(c.addr)
  BY <1>1, <1>3, <1>5 DEF Read, ReadAs, Filled, Given, StringMax, NotGiven
<1>10. /\ ReadAs(c.data, p.data)
       /\ n >= 5 => Given(c.data)
  BY <1>1, <1>3, <1>5 DEF Read, ReadAs, Filled, Given, DataComps, NotGiven
<1>11. ReadAs(c.head, p.head)
  BY <1>1, <1>3, <1>5 DEF Read, ReadAs, Filled, Given, HeadComps, NotGiven
<1>12. c.ipv4 = p.ipv4
  BY <1>1, <1>3, <1>5 DEF Read, Given, Ipv4Allocs, NotGiven
<1>13. Given(p.head) => Given(c.data) /\ Given(c.addr)
  BY <1>1, <1>9, <1>10
<1> QED BY <1>6, <1>7, <1>8, <1>9, <1>10, <1>11, <1>12, <1>13

\* A context whose definition is sent has an id in range.
LEMMA ContextIdFits ==
  ASSUME NEW p, ContextReadBack(p).err = "ESP_OK"
  PROVE  p.cid \in 1..MaxContexts
<1>1. FormatWrite(CmdLen.CGDCONT, CgdcontFormat(p)).err = "ESP_OK"
  BY DEF ContextReadBack
<1> QED BY <1>1 DEF FormatWrite, CgdcontFormat, Formatted, Invalid

-------------------------------------------------------------------------------
\* What a call has returned is the function of its request.
Answered ==
  \/ request.fn = "open" /\ outcome = OpenNetwork(request)
  \/ request.fn = "close" /\ outcome = CloseNetwork(request)
  \/ request.fn = "connect" /\ outcome = Connect(request)
  \/ request.fn = "disconnect" /\ outcome = Disconnect(request)
  \/ request.fn = "publish" /\ outcome = Publish(request)
  \/ request.fn = "subscribe" /\ outcome = Subscribe(request)
  \/ request.fn = "unsubscribe" /\ outcome = Unsubscribe(request)
  \/ request.fn = "set" /\ outcome = SetConfig(request)
  \/ request.fn = "query" /\ outcome = QueryConfig(request)
  \/ request.fn = "define" /\ outcome = DefineContext(request)
  \/ request.fn = "context" /\ outcome = ContextReadBack(request)
  \/ request.fn = "signal" /\ outcome = SignalQualityDbm(request.fields)
  \/ request.fn = "quality" /\ outcome = QcsqExecuteParser(request.mode, request.fields)

AnswerInv == request \in Requests /\ (outcome # Pending => Answered)

LEMMA AnswerInvariant == Spec => []AnswerInv
<1>1. Init => AnswerInv
  BY DEF Init, AnswerInv
<1>2. AnswerInv /\ [Next]_<<request, outcome>> => AnswerInv'
  <2> SUFFICES ASSUME AnswerInv, [Next]_<<request, outcome>> PROVE AnswerInv'
    OBVIOUS
  <2>1. CASE UNCHANGED <<request, outcome>>
    BY <2>1 DEF AnswerInv, Answered
  <2>2. CASE Next
    <3>1. request' = request
      BY <2>2 DEF Next, Call
    <3>2. Answered'
      BY <2>2, <3>1 DEF Next, Call, Answered
    <3> QED BY <3>1, <3>2 DEF AnswerInv
  <2> QED BY <2>1, <2>2
<1> QED BY <1>1, <1>2, PTL DEF Spec

\* No request is shortened on its way to the modem or runs out of a buffer:
\* WholeOrRefused of Requests, for arguments of any value.
THEOREM RequestsAreWhole == Spec => []WholeOrRefused
<1>1. AnswerInv => WholeOrRefused
  <2> SUFFICES ASSUME AnswerInv, Sent, request.fn \in Sized
               PROVE  Whole(request, outcome)
    BY DEF WholeOrRefused, Whole
  <2>1. outcome.err = "ESP_OK" /\ outcome # Pending
    BY DEF Sent, Pending
  <2>2. Answered /\ request \in Requests
    BY <2>1 DEF AnswerInv
  <2>3. CASE request.fn = "open" /\ outcome = OpenNetwork(request)
    BY <2>1, <2>2, <2>3, KindOfFn, OpenWhole
  <2>4. CASE \/ request.fn = "close" /\ outcome = CloseNetwork(request)
             \/ request.fn = "disconnect" /\ outcome = Disconnect(request)
    <3>1. request \in Closes
      BY <2>2, <2>4, KindOfFn
    <3> QED BY <2>1, <2>4, <3>1, CloseWhole, Zenon
  <2>5. CASE request.fn = "connect" /\ outcome = Connect(request)
    BY <2>1, <2>2, <2>5, KindOfFn, ConnectWhole
  <2>6. CASE request.fn = "publish" /\ outcome = Publish(request)
    BY <2>1, <2>2, <2>6, KindOfFn, PublishWhole
  <2>7. CASE request.fn = "subscribe" /\ outcome = Subscribe(request)
    BY <2>1, <2>2, <2>7, KindOfFn, SubscribeWhole
  <2>8. CASE request.fn = "unsubscribe" /\ outcome = Unsubscribe(request)
    BY <2>1, <2>2, <2>8, KindOfFn, UnsubscribeWhole
  <2>9. CASE request.fn = "set" /\ outcome = SetConfig(request)
    BY <2>1, <2>2, <2>9, KindOfFn, SetWhole
  <2>10. CASE request.fn = "query" /\ outcome = QueryConfig(request)
    BY <2>1, <2>2, <2>10, KindOfFn, QueryWhole
  <2>11. CASE request.fn = "define" /\ outcome = DefineContext(request)
    BY <2>1, <2>2, <2>11, KindOfFn, DefineWhole
  <2>12. request.fn \notin {"context", "signal", "quality"}
    BY DEF Sized
  <2> QED BY <2>2, <2>3, <2>4, <2>5, <2>6, <2>7, <2>8, <2>9, <2>10, <2>11, <2>12 DEF Answered
<1> QED BY <1>1, AnswerInvariant, PTL

\* A topic the driver subscribes to, it can publish to and unsubscribe from, in
\* full: TopicsAgree of Requests, for arguments of any value.
THEOREM TopicsAreShared == Spec => []TopicsAgree
<1>1. AnswerInv => TopicsAgree
  <2> SUFFICES ASSUME AnswerInv, Sent, request.fn = "subscribe", NEW p,
                      p = [fn |-> "publish", idx |-> request.idx, msgid |-> request.msgid,
                           qos |-> request.qos, retain |-> 1, topic |-> request.topic,
                           msglen |-> MsgMaxLen]
               PROVE  /\ Publish(p).err = "ESP_OK" /\ Publish(p).len = Needed(p)
                      /\ Unsubscribe(request).err = "ESP_OK"
    BY DEF TopicsAgree
  <2>1. outcome.err = "ESP_OK" /\ outcome # Pending
    BY DEF Sent, Pending
  <2>2. outcome = Subscribe(request) /\ request \in Subscribes
    BY <2>1, KindOfFn DEF AnswerInv, Answered
  <2> QED BY <2>1, <2>2, PublishToTopic, UnsubscribeFromTopic
<1> QED BY <1>1, AnswerInvariant, PTL

\* The formatter and the parser of AT+CGDCONT agree on the place of every field:
\* ContextsReadBack of Requests, for contexts of any values.
THEOREM ContextsReadBack == Spec => []ContextReadsBack
<1>1. AnswerInv => ContextReadsBack
  <2> DEFINE p == request
             c == ParseContext(ContextFields(p))
  <2> SUFFICES ASSUME AnswerInv, Sent, p.fn = "context", InOrder(p), p.type \in PdpTypes,
                      p.data \in DataComps \cup {NotGiven},
                      p.head \in HeadComps \cup {NotGiven},
                      p.ipv4 \in Ipv4Allocs \cup {NotGiven}
               PROVE  \E x \in {outcome.got[i] : i \in DOMAIN outcome.got} :
                        /\ Len(outcome.got) = 1
                        /\ \A f \in DOMAIN x :
                             \/ x[f] = p[f]
                             \/ /\ x[f] = 0 /\ ~Given(p[f])
                                /\ f \in {"apn", "addr", "data", "head"}
                        /\ Given(p.head) => Given(x.data) /\ Given(x.addr)
    BY DEF ContextReadsBack
  <2>1. outcome.err = "ESP_OK" /\ outcome # Pending
    BY DEF Sent, Pending
  <2>2. outcome = ContextReadBack(p) /\ p \in Contexts
    BY <2>1, KindOfFn DEF AnswerInv, Answered
  <2>3. p.cid \in 1..MaxContexts
    BY <2>1, <2>2, ContextIdFits
  <2>4. /\ p.apn \in 0..StringMax \cup {NotGiven}
        /\ p.addr \in 0..StringMax \cup {NotGiven}
    BY <2>2 DEF Contexts
  <2> HIDE DEF p
  <2>5. /\ c.cid = p.cid /\ c.type = p.type /\ c.ipv4 = p.ipv4
        /\ ReadAs(c.apn, p.apn)
        /\ ReadAs(c.addr, p.addr)
        /\ ReadAs(c.data, p.data)
        /\ ReadAs(c.head, p.head)
        /\ Given(p.head) => Given(c.data) /\ Given(c.addr)
    BY <2>3, <2>4, ContextOfFields
  <2>6. Given(c.cid)
    BY <2>3, <2>5 DEF Given, NotGiven, MaxContexts
  <2>7. outcome.got = <<c>>
    BY <2>2, <2>6, OneContext DEF ContextReadBack
  <2>8. Len(outcome.got) = 1 /\ c \in {outcome.got[i] : i \in DOMAIN outcome.got}
    <3> HIDE DEF c
    <3>1. Len(<<c>>) = 1 /\ 1 \in DOMAIN <<c>> /\ <<c>>[1] = c
      OBVIOUS
    <3> QED BY <2>7, <3>1
  <2>9. DOMAIN c = {"cid", "type", "apn", "addr", "data", "head", "ipv4"}
    BY DEF ParseContext
  <2> HIDE DEF c
  <2>10. \A f \in DOMAIN c :
           \/ c[f] = p[f]
           \/ /\ c[f] = 0 /\ ~Given(p[f])
              /\ f \in {"apn", "addr", "data", "head"}
    BY <2>5, <2>9, Zenon DEF ReadAs
  <2> QED BY <2>5, <2>8, <2>10, Zenon
<1> QED BY <1>1, AnswerInvariant, PTL

\* A signal strength the driver reports is the modem's: SignalIsTold of
\* Requests, for lines of any numbers.
THEOREM SignalsAreTold == Spec => []SignalIsTold
<1>1. AnswerInv => SignalIsTold
  <2> SUFFICES ASSUME AnswerInv, outcome # Pending PROVE SignalIsTold
    BY DEF SignalIsTold, Sent, Pending
  <2>1. Answered /\ request \in Requests
    BY DEF AnswerInv
  <2>2. CASE request.fn = "signal"
    <3>1. outcome = SignalQualityDbm(request.fields) /\ request \in SignalLines
      BY <2>1, <2>2, KindOfFn DEF Answered
    <3> QED BY <2>2, <3>1, SignalOfLine DEF SignalIsTold, Sent
  <2>3. CASE request.fn = "quality"
    <3>1. outcome = QcsqExecuteParser(request.mode, request.fields)
          /\ request \in QualityLines
      BY <2>1, <2>3, KindOfFn DEF Answered
    <3>2. ASSUME outcome.err = "ESP_OK"
          PROVE  /\ outcome.mode = request.mode
                 /\ \A i \in DOMAIN outcome.values :
                      IsInt16Of(outcome.values[i], request.fields[i])
                 /\ Len(outcome.values) < Len(request.fields) =>
                      \/ Len(outcome.values) = ValuesOf[request.mode]
                      \/ request.fields[Len(outcome.values) + 1] = NotANumber
      BY <3>1, <3>2, QualityOfLine
    <3> QED BY <2>3, <3>2 DEF SignalIsTold, Sent
  <2>4. CASE request.fn \notin {"signal", "quality"}
    BY <2>4 DEF SignalIsTold
  <2> QED BY <2>2, <2>3, <2>4
<1> QED BY <1>1, AnswerInvariant, PTL
================================================================================
