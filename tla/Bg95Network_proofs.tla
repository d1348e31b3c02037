--------------------------- MODULE Bg95Network_proofs ---------------------------
(***************************************************************************)
(* Theorems about Bg95Network, for any calls and contexts and any number   *)
(* of them: the types, the power key, what an initialisation, a restart    *)
(* and a listing of contexts show, how many answers can be late, and which *)
(* address a connection is told.                                           *)
(***************************************************************************)
EXTENDS Bg95Network, SequenceTheorems, FiniteSetTheorems, WellFoundedInduction, TLAPS

-------------------------------------------------------------------------------
(* The types.                                                                  *)

Names == {"AT", "CPIN", "QCSQ", "CSQ", "COPS", "CGDCONT", "CFUN0", "CFUN1", "CGACT", "CGACT?",
          "CGPADDR"}

Commands == [name : Names, cid : Cids, id : Nat]

\* A context that is out of range is not written.
InRange(s) == s.name \in {"CGDCONT", "CGACT", "CGPADDR"} => s.cid <= CidMax

PinInv ==
  /\ pin \in {"low", "high", "held"} /\ (pin = "high" => pc = "lower")
  /\ pc \in {"raise", "lower"} => op = "init" /\ step = 1
  /\ op = "init" /\ step = 2 => pin = "low"

CallInv ==
  /\ pc \in {"idle", "issue", "read", "raise", "lower"}
  /\ op \in Ops \cup {"none"} /\ cid \in Cids
  /\ pc # "idle" => op \in Ops /\ step \in 1..Len(Program[op])
  /\ nextId \in Nat

ModuleInv ==
  /\ power \in {"on", "off"} /\ radio \in {"full", "minimum"}
  /\ pdp \in [Cids -> {"undefined", "defined", "active"}]
  /\ power = "off" => \A c \in Cids : pdp[c] # "active"

TxInv == tx \in Seq(Commands) /\ \A k \in DOMAIN tx : InRange(tx[k])

TypeInv == PinInv /\ CallInv /\ ModuleInv /\ TxInv

LEMMA TypeInvImplies == TypeInv => TypeOK
<1>1. SUFFICES ASSUME TypeInv PROVE TypeOK
  OBVIOUS
<1>2. \A k \in DOMAIN tx : tx[k].name \in {"CGDCONT", "CGACT", "CGPADDR"} => tx[k].cid <= CidMax
  BY <1>1 DEF TypeInv, TxInv, InRange
<1> QED
  BY <1>1, <1>2 DEF TypeInv, PinInv, CallInv, ModuleInv, TypeOK

LEMMA One == ASSUME NEW S, NEW a \in S PROVE <<a>> \in Seq(S) /\ Len(<<a>>) = 1
  OBVIOUS

LEMMA Two == ASSUME NEW S, NEW a \in S, NEW b \in S PROVE <<a, b>> \in Seq(S) /\ Len(<<a, b>>) = 2
  OBVIOUS

LEMMA Eight ==
  ASSUME NEW S, NEW a \in S, NEW b \in S, NEW c \in S, NEW d \in S,
         NEW e \in S, NEW f \in S, NEW g \in S, NEW h \in S
  PROVE  <<a, b, c, d, e, f, g, h>> \in Seq(S) /\ Len(<<a, b, c, d, e, f, g, h>>) = 8
  OBVIOUS

\* Every call has a command to make, bg95_init two.
LEMMA Programs ==
  ASSUME NEW o \in AllOps
  PROVE  /\ Program[o] \in Seq(Names) /\ Len(Program[o]) >= 1
         /\ o = "init" => Len(Program[o]) = 2
<1>1. CASE o = "init"
  <2>1. Program[o] = <<"AT", "AT">> /\ "AT" \in Names
    BY <1>1 DEF Program, Names
  <2> QED
    BY <2>1, Two
<1>2. CASE o = "soft_restart"
  <2>1. Program[o] = <<"CFUN0", "CFUN1">> /\ "CFUN0" \in Names /\ "CFUN1" \in Names
    BY <1>2 DEF Program, RestartProgram, Names
  <2> QED
    BY <2>1, Two
<1>3. CASE o = "connect"
  <2>1. /\ Program[o] =
             <<"CPIN", "QCSQ", "COPS", "CGDCONT", "CFUN0", "CFUN1", "CGACT", "CGPADDR">>
        /\ "CPIN" \in Names /\ "QCSQ" \in Names /\ "COPS" \in Names /\ "CGDCONT" \in Names
        /\ "CFUN0" \in Names /\ "CFUN1" \in Names /\ "CGACT" \in Names /\ "CGPADDR" \in Names
    BY <1>3 DEF Program, ConnectProgram, Names
  <2>2. Program[o] \in Seq(Names) /\ Len(Program[o]) = 8
    BY <2>1, Eight
  <2> QED
    BY <1>3, <2>2
<1>4. CASE o = "define"
  <2>1. Program[o] = <<"CGDCONT">> /\ "CGDCONT" \in Names
    BY <1>4 DEF Program, Names
  <2> QED
    BY <2>1, <1>4, One
<1>5. CASE o = "activate"
  <2>1. Program[o] = <<"CGACT">> /\ "CGACT" \in Names
    BY <1>5 DEF Program, Names
  <2> QED
    BY <2>1, <1>5, One
<1>6. CASE o = "is_active"
  <2>1. Program[o] = <<"CGACT?">> /\ "CGACT?" \in Names
    BY <1>6 DEF Program, Names
  <2> QED
    BY <2>1, <1>6, One
<1>7. CASE o = "address"
  <2>1. Program[o] = <<"CGPADDR">> /\ "CGPADDR" \in Names
    BY <1>7 DEF Program, Names
  <2> QED
    BY <2>1, <1>7, One
<1>8. CASE o = "sim"
  <2>1. Program[o] = <<"CPIN">> /\ "CPIN" \in Names
    BY <1>8 DEF Program, Names
  <2> QED
    BY <2>1, <1>8, One
<1>9. CASE o = "signal"
  <2>1. Program[o] = <<"QCSQ">> /\ "QCSQ" \in Names
    BY <1>9 DEF Program, Names
  <2> QED
    BY <2>1, <1>9, One
<1>10. CASE o = "quality"
  <2>1. Program[o] = <<"CSQ">> /\ "CSQ" \in Names
    BY <1>10 DEF Program, Names
  <2> QED
    BY <2>1, <1>10, One
<1>11. CASE o = "operator"
  <2>1. Program[o] = <<"COPS">> /\ "COPS" \in Names
    BY <1>11 DEF Program, Names
  <2> QED
    BY <2>1, <1>11, One
<1> QED
  BY <1>1, <1>2, <1>3, <1>4, <1>5, <1>6, <1>7, <1>8, <1>9, <1>10, <1>11 DEF AllOps

LEMMA InitTypes == Init => TypeInv
BY NetworkAssumption DEF Init, TypeInv, PinInv, CallInv, ModuleInv, TxInv, InRange

\* A command ends: the call goes on, uses the power key or is over.
LEMMA StepEndsTypes ==
  ASSUME PinInv, CallInv, pc \in {"issue", "read"}, NEW c, NEW j, StepEnds(c, j),
         pin' = pin, nextId' \in Nat
  PROVE  PinInv' /\ CallInv'
<1>1. op' = op /\ cid' = cid
  BY DEF StepEnds, Done
<1>2. \/ pc' = "issue" /\ step' = step + 1 /\ op # "init" /\ step < Len(Program[op])
      \/ pc' = "raise" /\ step' = step /\ op = "init" /\ step = 1
      \/ pc' = "idle" /\ step' = step
  BY DEF StepEnds, Done
<1>3. op \in AllOps /\ step \in 1..Len(Program[op]) /\ Program[op] \in Seq(Names)
  BY NetworkAssumption, Programs DEF CallInv
<1>4. pc' # "idle" => step' \in 1..Len(Program[op])
  <2> DEFINE n == Len(Program[op])
  <2>1. n \in Nat
    BY <1>3
  <2> HIDE DEF n
  <2>2. step \in 1..n
    BY <1>3 DEF n
  <2>3. pc' = "issue" /\ step' = step + 1 /\ step < n => step' \in 1..n
    BY <2>1, <2>2
  <2> QED
    BY <1>2, <2>2, <2>3 DEF n
<1> QED
  BY <1>1, <1>2, <1>4 DEF PinInv, CallInv

LEMMA DoneTypes ==
  ASSUME PinInv, CallInv, NEW err, NEW t, Done(err, t), nextId' = nextId,
         pin' \in {"low", "held"}, op = "init" /\ step = 2 => pin' = "low"
  PROVE  PinInv' /\ CallInv'
BY DEF Done, PinInv, CallInv

LEMMA BeginTypes == ASSUME TypeInv, NEW o \in Ops, Begin(o) PROVE TypeInv'
<1>1. /\ op' = o /\ step' = 1 /\ pc' = "issue" /\ cid' \in Cids
      /\ UNCHANGED <<sent, alive, pin, tx, rx, module, nextId, debt>> /\ pc = "idle"
  BY NetworkAssumption DEF Begin
<1>2. Program[o] \in Seq(Names) /\ Len(Program[o]) >= 1
  BY NetworkAssumption, Programs
<1>3. 1 \in 1..Len(Program[o])
  <2> DEFINE n == Len(Program[o])
  <2>1. n \in Nat /\ n >= 1
    BY <1>2
  <2> HIDE DEF n
  <2>2. 1 \in 1..n
    BY <2>1
  <2> QED
    BY <2>2 DEF n
<1>4. CallInv' /\ PinInv'
  BY <1>1, <1>3 DEF TypeInv, CallInv, PinInv
<1> QED
  BY <1>1, <1>4 DEF TypeInv, ModuleInv, TxInv, InRange, module

\* What is written was not refused.
LEMMA IssueTypes == ASSUME TypeInv, Issue PROVE TypeInv'
<1> DEFINE c == Program[op][step]
           s == [name |-> c, cid |-> cid, id |-> nextId]
<1>1. pc = "issue" /\ UNCHANGED <<module, alive, pin, calls>>
  BY DEF Issue
<1>2. ModuleInv'
  BY <1>1 DEF TypeInv, ModuleInv, module
<1>3. CASE Done("ESP_ERR_INVALID_ARG", NothingTold) /\ UNCHANGED <<sent, nextId, tx, rx, debt>>
  <2>1. PinInv' /\ CallInv'
    BY <1>1, <1>3, DoneTypes DEF TypeInv, PinInv
  <2> QED
    BY <1>2, <1>3, <2>1 DEF TypeInv, TxInv, InRange
<1>4. ASSUME ~Refused(c), nextId' = nextId + 1, NEW w \in WriteOutcomes,
             tx' = IF w.sent THEN Append(tx, s) ELSE tx,
             IF w.err = "ESP_OK"
             THEN pc' = "read" /\ UNCHANGED <<op, cid, step, initialized, status, told>>
             ELSE StepEnds(c, Nothing(w.err))
      PROVE  TypeInv'
  <2>1. c \in Names
    <3>1. op \in AllOps /\ step \in 1..Len(Program[op]) /\ Program[op] \in Seq(Names)
      BY <1>1, NetworkAssumption, Programs DEF TypeInv, CallInv
    <3> QED
      BY <3>1
  <2> HIDE DEF c
  <2>2. s \in Commands /\ s.name = c /\ s.cid = cid
    BY <2>1 DEF Commands, TypeInv, CallInv
  <2>3. InRange(s)
    <3>1. cid \in 0..255
      BY NetworkAssumption DEF TypeInv, CallInv
    <3>2. cid <= CidMax \/ c \notin {"CGDCONT", "CGACT", "CGPADDR"}
      BY <1>4, <3>1 DEF Refused, CidMax, CidMin, CgactMaxNumContexts
    <3> QED
      BY <2>2, <3>2 DEF InRange
  <2> HIDE DEF s
  <2>4. TxInv'
    <3>1. tx \in Seq(Commands) /\ \A k \in DOMAIN tx : InRange(tx[k])
      BY DEF TypeInv, TxInv
    <3>2. CASE tx' = tx
      BY <3>1, <3>2 DEF TxInv, InRange
    <3>3. CASE tx' = Append(tx, s)
      <4>1. /\ tx' \in Seq(Commands) /\ Len(tx') = Len(tx) + 1
            /\ \A k \in 1..Len(tx) : tx'[k] = tx[k]
            /\ tx'[Len(tx) + 1] = s
        BY <2>2, <3>1, <3>3, AppendProperties
      <4>2. \A k \in DOMAIN tx' : k \in DOMAIN tx \/ k = Len(tx) + 1
        BY <3>1, <4>1
      <4>3. \A k \in DOMAIN tx' : InRange(tx'[k])
        BY <2>3, <3>1, <4>1, <4>2
      <4> QED
        BY <4>1, <4>3 DEF TxInv, InRange
    <3> QED
      BY <1>4, <3>2, <3>3
  <2>5. PinInv' /\ CallInv'
    <3>1. CASE w.err = "ESP_OK"
      <4>1. pc' = "read" /\ UNCHANGED <<op, cid, step, pin>> /\ nextId' \in Nat
        BY <1>1, <1>4, <3>1 DEF TypeInv, CallInv
      <4> QED
        BY <1>1, <4>1 DEF TypeInv, CallInv, PinInv
    <3>2. CASE w.err # "ESP_OK"
      <4>1. StepEnds(c, Nothing(w.err)) /\ nextId' \in Nat
        BY <1>4, <3>2 DEF TypeInv, CallInv
      <4> QED
        BY <1>1, <4>1, StepEndsTypes DEF TypeInv
    <3> QED
      BY <3>1, <3>2
  <2> QED
    BY <1>2, <2>4, <2>5 DEF TypeInv
<1> QED
  BY <1>3, <1>4 DEF Issue

LEMMA ReadTypes == ASSUME TypeInv, Finish \/ GiveUp PROVE TypeInv'
<1>1. pc = "read" /\ UNCHANGED <<pin, nextId, tx, module>>
  BY DEF Finish, GiveUp
<1>2. \E j : StepEnds(sent.name, j)
  BY DEF Finish, GiveUp
<1>3. PinInv' /\ CallInv'
  BY <1>1, <1>2, StepEndsTypes DEF TypeInv, CallInv
<1> QED
  BY <1>1, <1>3 DEF TypeInv, ModuleInv, TxInv, InRange, module

LEMMA PowerKeyTypes == ASSUME ModuleInv, TxInv, Pressed PROVE ModuleInv' /\ TxInv'
<1>1. CASE PowerKey
  BY <1>1 DEF PowerKey, ModuleInv, TxInv, InRange
<1>2. CASE UNCHANGED <<power, radio, pdp, tx>>
  BY <1>2 DEF ModuleInv, TxInv, InRange
<1> QED
  BY <1>1, <1>2 DEF Pressed

\* The pulse of the power key: a pin that stays high ends the call.
LEMMA PulseTypes == ASSUME TypeInv, Raise \/ Lower \/ LowerFails \/ SetUpFails PROVE TypeInv'
<1>1. CASE Raise
  <2>1. pc = "raise" /\ UNCHANGED <<nextId, tx, module>>
    BY <1>1 DEF Raise
  <2>2. PinInv' /\ CallInv'
    <3>1. CASE pc' = "lower" /\ pin' = (IF pin = "low" THEN "high" ELSE pin)
               /\ UNCHANGED <<op, cid, step>>
      BY <2>1, <3>1 DEF TypeInv, PinInv, CallInv
    <3>2. CASE Done("ESP_ERR_INVALID_ARG", NothingTold) /\ pin' = pin
      BY <2>1, <3>2, DoneTypes DEF TypeInv, PinInv
    <3> QED
      BY <1>1, <3>1, <3>2 DEF Raise
  <2> QED
    BY <2>1, <2>2 DEF TypeInv, ModuleInv, TxInv, InRange, module
<1>2. CASE Lower
  <2>1. ModuleInv' /\ TxInv'
    BY <1>2, PowerKeyTypes DEF Lower, TypeInv
  <2>2. Len(Program[op]) = 2 /\ op \in Ops
    BY <1>2, NetworkAssumption, Programs DEF Lower, TypeInv, PinInv, CallInv
  <2>3. pc' = "issue" /\ step' = 2 /\ pin' = "low" /\ UNCHANGED <<op, cid, nextId>>
    BY <1>2 DEF Lower
  <2>4. CallInv'
    <3>1. step' \in 1..Len(Program[op'])
      BY <2>2, <2>3
    <3> QED
      BY <2>2, <2>3, <3>1 DEF CallInv, TypeInv
  <2> QED
    BY <2>1, <2>3, <2>4 DEF TypeInv, PinInv
<1>3. CASE LowerFails
  <2>1. ModuleInv' /\ TxInv'
    BY <1>3, PowerKeyTypes DEF LowerFails, TypeInv
  <2>2. Done("ESP_ERR_INVALID_ARG", NothingTold) /\ pin' = "held" /\ nextId' = nextId /\ step = 1
    BY <1>3 DEF LowerFails, TypeInv, PinInv
  <2>3. PinInv' /\ CallInv'
    BY <2>2, DoneTypes DEF TypeInv
  <2> QED
    BY <2>1, <2>3 DEF TypeInv
<1>4. CASE SetUpFails
  <2>1. /\ pc = "issue" /\ UNCHANGED <<nextId, pin, tx, module>>
        /\ Done("ESP_ERR_INVALID_ARG", NothingTold)
    BY <1>4 DEF SetUpFails
  <2>2. PinInv' /\ CallInv'
    BY <2>1, DoneTypes DEF TypeInv, PinInv
  <2> QED
    BY <2>1, <2>2 DEF TypeInv, ModuleInv, TxInv, InRange, module
<1> QED
  BY <1>1, <1>2, <1>3, <1>4

\* The module does what it is told only when it is on.
LEMMA ModuleTakesTypes == ASSUME TypeInv, ModuleTakes PROVE TypeInv'
<1> DEFINE s == Head(tx)
<1>1. power = "on" /\ tx # <<>> /\ tx' = Tail(tx) /\ UNCHANGED <<driver, power>>
  BY DEF ModuleTakes
<1>2. s \in Commands
  BY <1>1 DEF TypeInv, TxInv
<1>3. Obeys(s) \/ UNCHANGED <<radio, pdp>>
  BY DEF ModuleTakes
<1> HIDE DEF s
<1>4. /\ radio' \in {"full", "minimum"}
      /\ pdp' \in [Cids -> {"undefined", "defined", "active"}]
  BY <1>2, <1>3 DEF Obeys, TypeInv, ModuleInv, Commands
<1>5. TxInv'
  BY <1>1 DEF TypeInv, TxInv, InRange
<1> QED
  BY <1>1, <1>4, <1>5 DEF TypeInv, PinInv, CallInv, ModuleInv, driver

LEMMA StepTypes == TypeInv /\ [Next]_vars => TypeInv'
<1>1. SUFFICES ASSUME TypeInv, [Next]_vars PROVE TypeInv'
  OBVIOUS
<1>2. CASE \E o \in Ops : Begin(o)
  BY <1>1, <1>2, BeginTypes
<1>3. CASE Issue
  BY <1>1, <1>3, IssueTypes
<1>4. CASE Finish \/ GiveUp
  BY <1>1, <1>4, ReadTypes
<1>5. CASE Raise \/ Lower \/ LowerFails \/ SetUpFails
  BY <1>1, <1>5, PulseTypes
<1>6. CASE ModuleTakes
  BY <1>1, <1>6, ModuleTakesTypes
<1>7. CASE NetworkDrops
  BY <1>1, <1>7 DEF NetworkDrops, TypeInv, PinInv, CallInv, ModuleInv, TxInv, InRange, driver
<1>8. CASE UNCHANGED vars
  BY <1>1, <1>8 DEF vars, driver, module, TypeInv, PinInv, CallInv, ModuleInv, TxInv, InRange
<1> QED
  BY <1>1, <1>2, <1>3, <1>4, <1>5, <1>6, <1>7, <1>8 DEF Next

LEMMA AlwaysTypes == Spec => []TypeInv
BY InitTypes, StepTypes, PTL DEF Spec

\* The state keeps its types, and no context out of range is written to the
\* module: the formatter's check is enough where the call has none.
THEOREM TypesAndContexts == Spec => []TypeOK
BY AlwaysTypes, TypeInvImplies, PTL

\* An initialisation that used the power key and succeeded has released it.
THEOREM PowerKeyIsReleased == Spec => []KeyIsReleased
<1>1. TypeInv => KeyIsReleased
  BY DEF TypeInv, PinInv, KeyIsReleased, Succeeded, Returned
<1> QED
  BY <1>1, AlwaysTypes, PTL

-------------------------------------------------------------------------------
(* What an initialisation shows.                                               *)

\* Only the last of the lines can end a response.
OneAnswer(lines) ==
  /\ \E S : lines \in Seq(S)
  /\ \A k \in 1..Len(lines) : \/ lines[k].kind = "line"
                              \/ k = Len(lines) /\ lines[k].kind \in {"ok", "error"}

\* Between calls nothing is on its way to a module that is on; in a call only
\* the one command or its answer, and what was answered came from one that is on.
\* A module that is off may find commands when it comes on: the power key clears
\* them.
Between == rx = <<>> /\ (power = "on" => tx = <<>>)
Reading ==
  \/ rx = <<>> /\ (power = "on" => Len(tx) <= 1)
  \/ power = "on" /\ tx = <<>> /\ OneAnswer(rx)

OnInv ==
  /\ ~alive => tx = <<>> /\ rx = <<>>
  /\ ~debt => /\ pc # "read" => Between
              /\ pc = "read" => Reading
              /\ Succeeded("init") => power = "on" /\ alive

LEMMA OnInvImplies == OnInv => InitMeansOnUnlessLate
BY DEF OnInv, InitMeansOnUnlessLate

LEMMA InitOn == Init => OnInv
BY DEF Init, OnInv, Between, Succeeded, Returned

\* A command that fails ends no initialisation with success.
LEMMA FailedStep ==
  ASSUME NEW c, NEW j, StepEnds(c, j), j.err # "ESP_OK"
  PROVE  pc' # "read" /\ ~Succeeded("init")'
BY DEF StepEnds, Done, OpErr, Succeeded, Returned

\* A pulse of the power key clears what a module that comes on would find; one
\* without an edge changes nothing.
LEMMA PressedOn ==
  ASSUME OnInv, pc = "lower", Pressed, rx' = rx, alive' = alive, debt' = debt,
         pc' # "read", ~Succeeded("init")'
  PROVE  OnInv'
BY DEF Pressed, PowerKey, OnInv, Between

\* A write that reports success was sent, and one that fails was not unless only
\* the wait for its end did; a port without a driver sends nothing.
LEMMA Outcome ==
  ASSUME NEW w \in WriteOutcomes
  PROVE  /\ w.err = "ESP_OK" => w.sent
         /\ w.sent /\ w.err # "ESP_OK" => w.err = "ESP_ERR_TIMEOUT"
         /\ ~alive => ~w.sent
         /\ w.err \in {"ESP_OK", "ESP_ERR_TIMEOUT", "ESP_ERR_NO_MEM", "ESP_FAIL"}
<1>1. CASE ~alive
  BY <1>1 DEF WriteOutcomes
<1>2. CASE alive
  <2>1. w \in HwWriteOutcomes
    BY <1>2 DEF WriteOutcomes
  <2>2. \/ w \in [sent : {TRUE}, flushed : BOOLEAN, err : {"ESP_OK", "ESP_ERR_TIMEOUT"}]
        \/ w \in [sent : {FALSE}, flushed : {TRUE}, err : {"ESP_ERR_NO_MEM"}]
        \/ w \in [sent : {FALSE}, flushed : BOOLEAN, err : {"ESP_FAIL"}]
    BY <2>1 DEF HwWriteOutcomes
  <2>3. \/ w.sent = TRUE /\ w.err \in {"ESP_OK", "ESP_ERR_TIMEOUT"}
        \/ w.sent = FALSE /\ w.err \in {"ESP_ERR_NO_MEM", "ESP_FAIL"}
    BY <2>2
  <2> QED
    BY <1>2, <2>3
<1> QED
  BY <1>1, <1>2

LEMMA IssueOn == ASSUME TypeInv, OnInv, Issue PROVE OnInv'
<1> DEFINE c == Program[op][step]
           s == [name |-> c, cid |-> cid, id |-> nextId]
<1>1. pc = "issue" /\ UNCHANGED <<module, alive, pin, calls>>
  BY DEF Issue
<1>2. CASE Done("ESP_ERR_INVALID_ARG", NothingTold) /\ UNCHANGED <<sent, nextId, tx, rx, debt>>
  BY <1>1, <1>2 DEF Done, OnInv, Between, Succeeded, Returned, module
<1>3. ASSUME NEW w \in WriteOutcomes,
             tx' = IF w.sent THEN Append(tx, s) ELSE tx,
             rx' = IF w.flushed THEN <<>> ELSE rx,
             debt' = (debt \/ w.err = "ESP_ERR_TIMEOUT"),
             IF w.err = "ESP_OK"
             THEN pc' = "read" /\ UNCHANGED <<op, cid, step, initialized, status, told>>
             ELSE StepEnds(c, Nothing(w.err))
      PROVE  OnInv'
  <2> HIDE DEF c, s
  <2>1. /\ w.err = "ESP_OK" => w.sent
        /\ w.sent /\ w.err # "ESP_OK" => w.err = "ESP_ERR_TIMEOUT"
        /\ ~alive => ~w.sent
    BY Outcome
  <2>2. ~alive => tx' = <<>> /\ rx' = <<>>
    BY <1>3, <2>1 DEF OnInv
  <2>3. CASE debt'
    BY <1>1, <2>2, <2>3 DEF OnInv
  <2>4. CASE ~debt'
    <3>1. ~debt /\ w.err # "ESP_ERR_TIMEOUT"
      BY <1>3, <2>4
    <3>2. rx = <<>> /\ (power = "on" => tx = <<>>)
      BY <1>1, <3>1 DEF OnInv, Between
    <3>3. rx' = <<>> /\ power' = power
      BY <1>1, <1>3, <3>2 DEF module
    <3>4. CASE w.err = "ESP_OK"
      <4>1. pc' = "read" /\ tx' = Append(tx, s)
        BY <1>3, <2>1, <3>4
      <4>2. power' = "on" => Len(tx') <= 1
        <5>1. SUFFICES ASSUME power' = "on" PROVE Len(tx') <= 1
          OBVIOUS
        <5>2. tx' = <<s>>
          BY <3>2, <3>3, <4>1, <5>1
        <5> QED
          BY <5>2
      <4> QED
        BY <1>1, <2>2, <3>3, <4>1, <4>2 DEF OnInv, Reading, Succeeded, Returned
    <3>5. CASE w.err # "ESP_OK"
      <4>1. StepEnds(c, Nothing(w.err)) /\ tx' = tx
        BY <1>3, <2>1, <3>1, <3>5
      <4>2. pc' # "read" /\ ~Succeeded("init")'
        BY <3>5, <4>1, FailedStep DEF Nothing, Parsed
      <4> QED
        BY <1>1, <2>2, <3>2, <3>3, <4>1, <4>2 DEF OnInv, Between
    <3> QED
      BY <3>4, <3>5
  <2> QED
    BY <2>3, <2>4
<1> QED
  BY <1>2, <1>3 DEF Issue

\* A response that is complete is the whole answer of a module that is on.
LEMMA WholeAnswer ==
  ASSUME OnInv, pc = "read", ~debt, NEW n \in Reads(rx, Name(sent.name), RType(sent.name))
  PROVE  /\ power = "on" /\ tx = <<>> /\ OneAnswer(rx)
         /\ n = Len(rx) /\ SubSeq(rx, 1, n) = rx /\ Rest(rx, n) = <<>>
<1>1. /\ n \in 1..Len(rx)
      /\ HasCommandTerminated(SubSeq(rx, 1, n), Name(sent.name), RType(sent.name))
  BY DEF Reads, Complete
<1>2. rx # <<>>
  BY <1>1
<1>3. power = "on" /\ tx = <<>> /\ OneAnswer(rx)
  BY <1>2 DEF OnInv, Reading
<1>4. PICK S : rx \in Seq(S)
  BY <1>3 DEF OneAnswer
<1> DEFINE read == SubSeq(rx, 1, n)
<1>5. Len(read) = n /\ DOMAIN read = 1..n /\ \A k \in 1..n : read[k] = rx[k]
  BY <1>1, <1>4, SubSeqProperties
<1> HIDE DEF read
<1>6. \E k \in 1..n : rx[k].kind # "line"
  <2>1. HasKind(read, "error") \/ HasKind(read, "cme") \/ HasKind(read, "ok")
    BY <1>1 DEF HasCommandTerminated, read
  <2>2. PICK k \in DOMAIN read : read[k].kind \in {"error", "cme", "ok"}
    BY <2>1 DEF HasKind
  <2> QED
    BY <1>5, <2>2
<1>7. n = Len(rx)
  <2>1. PICK k \in 1..n : rx[k].kind # "line"
    BY <1>6
  <2>2. Len(rx) \in Nat /\ n \in 1..Len(rx)
    BY <1>1, <1>4
  <2>3. k \in 1..Len(rx) /\ k <= n
    BY <2>1, <2>2
  <2>4. k = Len(rx)
    BY <1>3, <2>1, <2>3 DEF OneAnswer
  <2> QED
    BY <2>2, <2>3, <2>4
<1>8. Rest(rx, n) = <<>>
  BY <1>4, <1>7, SubSeqEmpty DEF Rest
<1>9. SubSeq(rx, 1, n) = rx
  BY <1>4, <1>7, SubSeqFull
<1> QED
  BY <1>3, <1>7, <1>8, <1>9

LEMMA FinishOn == ASSUME OnInv, Finish PROVE OnInv'
<1>1. PICK n \in Reads(rx, Name(sent.name), RType(sent.name)) :
        /\ StepEnds(sent.name, Judge(sent, SubSeq(rx, 1, n)))
        /\ rx' = Rest(rx, n)
  BY DEF Finish
<1>2. pc = "read" /\ UNCHANGED <<sent, alive, pin, nextId, debt, calls, tx, module>>
  BY DEF Finish
<1>3. alive
  <2>1. n \in 1..Len(rx)
    BY DEF Reads
  <2>2. rx # <<>>
    BY <2>1
  <2> QED
    BY <2>2 DEF OnInv
<1>4. pc' # "read"
  BY <1>1 DEF StepEnds, Done
<1>5. ~debt => rx' = <<>> /\ tx = <<>> /\ power = "on"
  BY <1>1, <1>2, WholeAnswer
<1> QED
  BY <1>2, <1>3, <1>4, <1>5 DEF OnInv, Between, module

\* Time runs out without a debt only with a module that is off and silent.
LEMMA GiveUpOn == ASSUME OnInv, GiveUp PROVE OnInv'
<1>1. pc = "read" /\ debt' = (debt \/ power = "on")
      /\ UNCHANGED <<sent, alive, pin, nextId, calls, tx, module>>
  BY DEF GiveUp
<1>2. /\ \E err \in {"ESP_ERR_TIMEOUT", "ESP_ERR_INVALID_SIZE", "ESP_ERR_NO_MEM"} :
           StepEnds(sent.name, Nothing(err))
      /\ \/ \E n \in 0..Len(rx) : rx' = Rest(rx, n)
         \/ rx' = rx
  BY DEF GiveUp, ReadsInVain, Overflows
<1>3. pc' # "read" /\ ~Succeeded("init")'
  BY <1>2, FailedStep DEF Nothing, Parsed
<1>4. rx = <<>> => rx' = <<>>
  <2>1. SUFFICES ASSUME rx = <<>> PROVE rx' = <<>>
    OBVIOUS
  <2>2. SUFFICES ASSUME NEW n \in 0..Len(rx), rx' = Rest(rx, n) PROVE rx' = <<>>
    BY <1>2, <2>1
  <2>3. n = 0 /\ Len(rx) = 0
    BY <2>1
  <2> QED
    BY <2>2, <2>3, SubSeqEmpty DEF Rest
<1>5. ~debt' => rx = <<>> /\ power # "on"
  BY <1>1 DEF OnInv, Reading
<1> QED
  BY <1>1, <1>3, <1>4, <1>5 DEF OnInv, Between, module

LEMMA OneLine == ASSUME NEW x, x.kind \in {"ok", "error"} PROVE OneAnswer(<<x>>)
<1> DEFINE lines == <<x>>
<1>1. lines \in Seq({x}) /\ Len(lines) = 1 /\ lines[1] = x
  OBVIOUS
<1> HIDE DEF lines
<1>2. OneAnswer(lines)
  BY <1>1 DEF OneAnswer
<1> QED
  BY <1>2 DEF lines

LEMMA TwoLines ==
  ASSUME NEW x, NEW y, x.kind = "line", y.kind = "ok"
  PROVE  OneAnswer(<<x, y>>)
<1> DEFINE lines == <<x, y>>
<1>1. /\ lines \in Seq({x, y}) /\ Len(lines) = 2 /\ lines[1] = x /\ lines[2] = y
  OBVIOUS
<1> HIDE DEF lines
<1>2. \A k \in 1..2 : k = 1 \/ k = 2
  OBVIOUS
<1>3. OneAnswer(lines)
  BY <1>1, <1>2 DEF OneAnswer
<1> QED
  BY <1>3 DEF lines

LEMMA ContextsFinite ==
  IsFiniteSet(Cids) /\ \A S \in SUBSET Cids : IsFiniteSet(S) /\ Cardinality(S) \in Nat
<1>1. IsFiniteSet(0..255)
  <2>1. PICK m \in Int : m = 255
    OBVIOUS
  <2>2. IsFiniteSet(0..m)
    BY m \in Int, 0 \in Int, FS_Interval, Zenon
  <2> QED
    BY <2>1, <2>2
<1>2. IsFiniteSet(Cids)
  BY <1>1, NetworkAssumption, FS_Subset
<1> QED
  BY <1>2, FS_Subset, FS_CardinalityType

Known == {c \in Cids : pdp[c] # "undefined"}

\* The answer to AT+CGACT? is the lines of the contexts, then OK.
LEMMA Listing ==
  ASSUME rx = <<>>, NEW s, NEW lines, lines = (rx \o ContextLines(s)) \o <<Ok(s)>>
  PROVE  /\ \E S : lines \in Seq(S)
         /\ Cardinality(Known) \in Nat /\ Len(lines) = Cardinality(Known) + 1
         /\ lines[Cardinality(Known) + 1] = Ok(s)
         /\ \A k \in 1..Cardinality(Known) : lines[k] = ContextLines(s)[k]
<1> DEFINE ctx == ContextLines(s)
           n == Cardinality(Known)
           y == Ok(s)
           S == {ctx[k] : k \in 1..n} \cup {y}
<1>1. n \in Nat
  BY ContextsFinite DEF Known
<1>2. DOMAIN ctx = 1..n /\ ctx = [k \in 1..n |-> ctx[k]]
  BY DEF ContextLines, Known
<1> HIDE DEF ctx, n, y
<1>3. ctx \in Seq(S) /\ Len(ctx) = n /\ y \in S
  <2>1. y \in S /\ \A k \in 1..n : ctx[k] \in S
    OBVIOUS
  <2> HIDE DEF S
  <2>2. ctx \in [1..n -> S]
    BY <1>2, <2>1
  <2> QED
    BY <1>1, <2>1, <2>2
<1> HIDE DEF S
<1> DEFINE end == <<y>>
<1>4. end \in Seq(S) /\ Len(end) = 1 /\ end[1] = y
  BY <1>3
<1>5. lines = (rx \o ctx) \o end
  BY DEF ctx, y
<1> HIDE DEF end
<1>6. lines = ctx \o end
  BY <1>3, <1>5, ConcatEmptySeq
<1>7. /\ lines \in Seq(S) /\ Len(lines) = n + 1
      /\ \A k \in 1..(n + 1) : lines[k] = IF k <= n THEN ctx[k] ELSE end[k - n]
  <2>1. /\ ctx \o end \in Seq(S) /\ Len(ctx \o end) = Len(ctx) + Len(end)
        /\ \A k \in 1..(Len(ctx) + Len(end)) :
             (ctx \o end)[k] = IF k <= Len(ctx) THEN ctx[k] ELSE end[k - Len(ctx)]
    BY <1>3, <1>4, ConcatProperties
  <2> QED
    BY <1>3, <1>4, <1>6, <2>1
<1>8. lines[n + 1] = y /\ \A k \in 1..n : lines[k] = ctx[k]
  BY <1>1, <1>4, <1>7
<1> QED
  BY <1>1, <1>7, <1>8 DEF n, ctx, y

\* What a module answers with nothing before it.
LEMMA ObeysOneAnswer ==
  ASSUME rx = <<>>, NEW s, Obeys(s) PROVE OneAnswer(rx')
<1>1. CASE rx' = Append(rx, Ok(s))
  <2>1. rx' = <<Ok(s)>> /\ Ok(s).kind = "ok"
    BY <1>1 DEF Ok, Line
  <2> QED
    BY <2>1, OneLine
<1>2. ASSUME NEW v, rx' = rx \o <<Line("line", s, s.cid, v), Ok(s)>> PROVE OneAnswer(rx')
  <2> DEFINE x == Line("line", s, s.cid, v)
             y == Ok(s)
  <2>1. x.kind = "line" /\ y.kind = "ok"
    BY DEF Ok, Line
  <2> HIDE DEF x, y
  <2>2. rx' = <<x, y>>
    <3>1. <<x, y>> \in Seq({x, y})
      OBVIOUS
    <3> QED
      BY <1>2, <3>1, ConcatEmptySeq DEF x, y
  <2> QED
    BY TwoLines, <2>1, <2>2
<1>3. CASE rx' = (rx \o ContextLines(s)) \o <<Ok(s)>>
  <2> DEFINE n == Cardinality(Known)
  <2>1. /\ \E S : rx' \in Seq(S)
        /\ n \in Nat /\ Len(rx') = n + 1 /\ rx'[n + 1] = Ok(s)
        /\ \A k \in 1..n : rx'[k] = ContextLines(s)[k]
    BY <1>3, Listing
  <2>2. \A k \in 1..n : ContextLines(s)[k].kind = "line"
    BY DEF ContextLines, Line, Known
  <2>3. Ok(s).kind = "ok"
    BY DEF Ok, Line
  <2> HIDE DEF n
  <2> QED
    BY <2>1, <2>2, <2>3 DEF OneAnswer
<1> QED
  BY <1>1, <1>2, <1>3 DEF Obeys

LEMMA ModuleTakesOn == ASSUME TypeInv, OnInv, ModuleTakes PROVE OnInv'
<1>1. /\ power = "on" /\ tx # <<>> /\ tx' = Tail(tx) /\ UNCHANGED <<driver, power>>
      /\ Obeys(Head(tx)) \/ rx' \in {rx, Append(rx, Fault(Head(tx)))}
  BY DEF ModuleTakes
<1>2. alive
  BY <1>1 DEF OnInv
<1>3. SUFFICES ASSUME ~debt PROVE pc = "read" /\ power' = "on" /\ Reading'
  BY <1>1, <1>2, <1>3 DEF OnInv, driver, Succeeded, Returned
<1>4. pc = "read" /\ rx = <<>> /\ Len(tx) <= 1
  BY <1>1, <1>3 DEF OnInv, Between, Reading
<1>5. tx' = <<>>
  BY <1>1, <1>4 DEF TypeInv, TxInv
<1>6. CASE Obeys(Head(tx))
  BY <1>1, <1>4, <1>5, <1>6, ObeysOneAnswer DEF Reading
<1>7. CASE rx' = rx
  BY <1>1, <1>4, <1>5, <1>7 DEF Reading
<1>8. CASE rx' = Append(rx, Fault(Head(tx)))
  <2> DEFINE x == Fault(Head(tx))
  <2> HIDE DEF x
  <2>0. x.kind = "error"
    BY DEF x, Fault, Line
  <2>1. rx' = <<x>>
    BY <1>4, <1>8 DEF x
  <2>2. OneAnswer(rx')
    BY <2>0, <2>1, OneLine
  <2> QED
    BY <1>1, <1>4, <1>5, <2>2 DEF Reading
<1> QED
  BY <1>1, <1>4, <1>6, <1>7, <1>8

LEMMA StepOn == TypeInv /\ OnInv /\ [Next]_vars => OnInv'
<1>1. SUFFICES ASSUME TypeInv, OnInv, [Next]_vars PROVE OnInv'
  OBVIOUS
<1>2. CASE \E o \in Ops : Begin(o)
  BY <1>1, <1>2 DEF Begin, OnInv, Between, Succeeded, Returned, module
<1>3. CASE Issue
  BY <1>1, <1>3, IssueOn
<1>4. CASE SetUpFails
  BY <1>1, <1>4 DEF SetUpFails, Done, OnInv, Between, Succeeded, Returned, module
<1>5. CASE Finish
  BY <1>1, <1>5, FinishOn
<1>6. CASE GiveUp
  BY <1>1, <1>6, GiveUpOn
<1>7. CASE Raise
  BY <1>1, <1>7 DEF Raise, Done, OnInv, Between, Succeeded, Returned, module
<1>8. CASE Lower
  BY <1>1, <1>8, PressedOn DEF Lower, Succeeded, Returned
<1>9. CASE LowerFails
  BY <1>1, <1>9, PressedOn DEF LowerFails, Done, Succeeded, Returned
<1>10. CASE ModuleTakes
  BY <1>1, <1>10, ModuleTakesOn
<1>11. CASE NetworkDrops
  BY <1>1, <1>11 DEF NetworkDrops, driver, OnInv, Between, Reading, Succeeded, Returned
<1>12. CASE UNCHANGED vars
  BY <1>1, <1>12 DEF vars, driver, module, OnInv, Between, Reading, Succeeded, Returned
<1> QED
  BY <1>1, <1>2, <1>3, <1>4, <1>5, <1>6, <1>7, <1>8, <1>9, <1>10, <1>11, <1>12 DEF Next

\* If no command that could still be answered was given up, bg95_init succeeds
\* only in front of a module that is on, over a UART that works, whatever the
\* power key and its pin did.
THEOREM InitialisedMeansOn == Spec => []InitMeansOnUnlessLate
<1>1. Spec => []OnInv
  BY AlwaysTypes, InitOn, StepOn, PTL DEF Spec
<1> QED
  BY <1>1, OnInvImplies, PTL

-------------------------------------------------------------------------------
(* What a restart and a listing of contexts show.                              *)

\* The answer on its way shows context c, and as active only.
Listed(c) ==
  /\ \E k \in DOMAIN rx : rx[k].kind = "line" /\ rx[k].name = "CGACT" /\ rx[k].cid = c
  /\ \A k \in DOMAIN rx : rx[k].kind = "line" /\ rx[k].cid = c => rx[k].value = "active"

NoneActive == \A c \in Cids : pdp[c] # "active"

\* What the module has done of the command s that it answered OK; a context may
\* have gone down since, none can have come up.
Effective(s) ==
  /\ s.name = "CFUN0" => NoneActive
  /\ s.name = "CFUN1" => radio = "full"
  /\ s.name = "CGACT?" => \A c \in Cids : pdp[c] = "active" => Listed(c)

\* Until a command is given up that could still be answered, the one command on
\* its way is that of the step the call is at, and an OK on its way says that it
\* was done; a restart in its second step has taken the contexts down.
EffectInv ==
  /\ pc = "read" => sent.name = Program[op][step] /\ sent.cid = cid
  /\ ~debt =>
     /\ pc = "read" /\ power = "on" => \A k \in DOMAIN tx : tx[k] = sent
     /\ pc = "read" /\ HasKind(rx, "ok") => Effective(sent)
     /\ op = "soft_restart" /\ pc # "idle" /\ step = 2 => NoneActive
  /\ RestartTakesEffect /\ ActiveIsFound

LEMMA InitEffect == Init => EffectInv
BY DEF Init, EffectInv, RestartTakesEffect, ActiveIsFound, Succeeded, Returned

\* A call that returns with neither result has nothing to show for it.
LEMMA NothingShown ==
  ASSUME NEW err \in {"ESP_FAIL", "ESP_ERR_INVALID_ARG", "ESP_ERR_INVALID_RESPONSE",
                      "ESP_ERR_TIMEOUT", "ESP_ERR_INVALID_SIZE", "ESP_ERR_NO_MEM"},
         NEW c, NEW j, j.err = err, j.value = "nothing", StepEnds(c, j) \/ Done(err, NothingTold)
  PROVE  RestartTakesEffect' /\ ActiveIsFound' /\ pc' \in {"idle", "raise"} /\ op' = op
BY DEF StepEnds, Done, OpErr, NothingTold, RestartTakesEffect, ActiveIsFound, Succeeded, Returned

LEMMA BeginEffect == ASSUME EffectInv, NEW o \in Ops, Begin(o) PROVE EffectInv'
BY DEF Begin, EffectInv, RestartTakesEffect, ActiveIsFound, Succeeded, Returned

LEMMA IssueEffect == ASSUME TypeInv, OnInv, EffectInv, Issue PROVE EffectInv'
<1> DEFINE c == Program[op][step]
           s == [name |-> c, cid |-> cid, id |-> nextId]
<1>1. pc = "issue" /\ UNCHANGED <<module, alive, pin, calls>>
  BY DEF Issue
<1>2. CASE Done("ESP_ERR_INVALID_ARG", NothingTold)
  <2>1. RestartTakesEffect' /\ ActiveIsFound' /\ pc' = "idle"
    BY <1>2 DEF Done, NothingTold, RestartTakesEffect, ActiveIsFound, Succeeded, Returned
  <2> QED
    BY <2>1 DEF EffectInv
<1>3. ASSUME sent' = s, NEW w \in WriteOutcomes,
             tx' = IF w.sent THEN Append(tx, s) ELSE tx,
             rx' = IF w.flushed THEN <<>> ELSE rx,
             debt' = (debt \/ w.err = "ESP_ERR_TIMEOUT"),
             IF w.err = "ESP_OK"
             THEN pc' = "read" /\ UNCHANGED <<op, cid, step, initialized, status, told>>
             ELSE StepEnds(c, Nothing(w.err))
      PROVE  EffectInv'
  <2>1. s.name = c /\ s.cid = cid
    OBVIOUS
  <2> HIDE DEF s
  <2>2. CASE w.err = "ESP_OK"
    <3>1. pc' = "read" /\ UNCHANGED <<op, cid, step>>
      BY <1>3, <2>2
    <3>2. RestartTakesEffect' /\ ActiveIsFound'
      BY <3>1 DEF RestartTakesEffect, ActiveIsFound, Succeeded, Returned
    <3>3. ASSUME ~debt' PROVE ~debt /\ rx' = <<>> /\ (power = "on" => tx = <<>>)
      BY <1>1, <1>3, <3>3 DEF OnInv, Between
    <3>4. ~debt' /\ power' = "on" => \A k \in DOMAIN tx' : tx'[k] = s
      <4>1. SUFFICES ASSUME ~debt', power' = "on" PROVE \A k \in DOMAIN tx' : tx'[k] = s
        OBVIOUS
      <4>2. tx = <<>>
        BY <1>1, <3>3, <4>1 DEF module
      <4>3. tx' = <<s>> \/ tx' = <<>>
        BY <1>3, <4>2
      <4>4. DOMAIN <<s>> = {1} /\ <<s>>[1] = s /\ DOMAIN <<>> = {}
        OBVIOUS
      <4> QED
        BY <4>3, <4>4
    <3>5. ~debt' => ~HasKind(rx', "ok")
      BY <3>3 DEF HasKind
    <3>6. ~debt' /\ op = "soft_restart" /\ step = 2 => NoneActive'
      BY <1>1, <3>3 DEF EffectInv, NoneActive, module
    <3> QED
      BY <1>3, <2>1, <3>1, <3>2, <3>4, <3>5, <3>6 DEF EffectInv, HasKind
  <2>3. CASE w.err # "ESP_OK"
    <3>1. w.err \in {"ESP_FAIL", "ESP_ERR_NO_MEM", "ESP_ERR_TIMEOUT"}
      BY <2>3, Outcome
    <3>2. /\ Nothing(w.err).err = w.err /\ Nothing(w.err).value = "nothing"
          /\ StepEnds(c, Nothing(w.err))
      BY <1>3, <2>3 DEF Nothing, Parsed
    <3>3. RestartTakesEffect' /\ ActiveIsFound' /\ pc' \in {"idle", "raise"} /\ op' = op
      BY <3>1, <3>2, NothingShown
    <3>4. pc' = "raise" => op = "init"
      BY <1>3, <2>3 DEF StepEnds, Done
    <3> QED
      BY <3>3, <3>4 DEF EffectInv
  <2> QED
    BY <2>2, <2>3
<1> QED
  BY <1>2, <1>3 DEF Issue

LEMMA GiveUpEffect == ASSUME EffectInv, GiveUp PROVE EffectInv'
<1>1. PICK err \in {"ESP_ERR_TIMEOUT", "ESP_ERR_INVALID_SIZE", "ESP_ERR_NO_MEM"} :
        StepEnds(sent.name, Nothing(err))
  BY DEF GiveUp
<1>2. Nothing(err).err = err /\ Nothing(err).value = "nothing"
  BY DEF Nothing, Parsed
<1>3. RestartTakesEffect' /\ ActiveIsFound' /\ pc' \in {"idle", "raise"} /\ op' = op
  BY <1>1, <1>2, NothingShown
<1>4. pc' = "raise" => op = "init"
  BY <1>1, <1>2 DEF StepEnds, Done
<1> QED
  BY <1>3, <1>4 DEF EffectInv

\* The parser of the listing: what it does not find, or finds inactive, is so.
LEMMA NatMin == ASSUME NEW T, T \subseteq Nat, T # {} PROVE Min(T) \in T
<1> DEFINE R == OpToRel(<, Nat)
<1>1. IsWellFoundedOn(R, Nat)
  BY NatLessThanWellFounded
<1>2. \A x \in Nat, y \in Nat : y < x => <<y, x>> \in R
  BY DEF OpToRel
<1> HIDE DEF R
<1>3. PICK x \in T : \A y \in T : ~(<<y, x>> \in R)
  BY <1>1, WFMin
<1>4. \A y \in T : x <= y
  <2>1. SUFFICES ASSUME NEW y \in T PROVE x <= y
    OBVIOUS
  <2>2. x \in Nat /\ y \in Nat
    OBVIOUS
  <2>3. ~(y < x)
    BY <1>2, <1>3, <2>2
  <2> QED
    BY <2>2, <2>3
<1> QED
  BY <1>4 DEF Min

LEMMA NotListed ==
  ASSUME DOMAIN rx \subseteq Nat, NEW c, c < CgactMaxNumContexts, Listed(c),
         NEW j, j = ActiveResult(OwnLines(rx, "CGACT"), c)
  PROVE  j.err = "ESP_OK" /\ j.value = "active"
<1> DEFINE own == OwnLines(rx, "CGACT")
           listed == CgactParser(own)
           D == {k \in DOMAIN listed : listed[k].cid = c}
<1>1. /\ DOMAIN own = {k \in DOMAIN rx : rx[k].kind = "line" /\ rx[k].name = "CGACT"}
      /\ \A k \in DOMAIN own : own[k] = rx[k]
  BY DEF OwnLines, Restrict
<1> HIDE DEF own
<1>2. /\ DOMAIN listed = {k \in DOMAIN own : own[k].cid < CgactMaxNumContexts}
      /\ \A k \in DOMAIN listed : listed[k] = own[k]
  BY DEF CgactParser, Restrict
<1> HIDE DEF listed
<1>3. /\ D \subseteq Nat /\ D # {}
      /\ \A k \in D : rx[k].value = "active" /\ listed[k] = rx[k]
  BY <1>1, <1>2 DEF Listed
<1>4. /\ DOMAIN Restrict(listed, D) = D
      /\ \A k \in D : Restrict(listed, D)[k] = listed[k]
  BY DEF Restrict
<1>5. j = IF DOMAIN Restrict(listed, D) = {} THEN Nothing("ESP_ERR_NOT_FOUND")
          ELSE Parsed("ESP_OK", First(Restrict(listed, D)).value, First(Restrict(listed, D)).id)
  BY DEF ActiveResult, own, listed
<1> HIDE DEF D
<1>6. Min(D) \in D
  BY <1>3, NatMin
<1>7. First(Restrict(listed, D)).value = "active"
  BY <1>3, <1>4, <1>6 DEF First
<1> DEFINE value == First(Restrict(listed, D)).value
           id    == First(Restrict(listed, D)).id
<1> HIDE DEF value, id
<1>8. j = Parsed("ESP_OK", value, id)
  BY <1>3, <1>4, <1>5 DEF value, id
<1>9. value = "active"
  BY <1>7 DEF value
<1> QED
  BY <1>8, <1>9 DEF Parsed

\* Only a response with OK in it is a success.
LEMMA JudgedOk == ASSUME NEW s, NEW lines, ~BasicResponseIsOk(lines)
                  PROVE  Judge(s, lines) = Nothing("ESP_FAIL")
BY DEF Judge

LEMMA JudgedListing ==
  ASSUME NEW s, NEW lines, s.name = "CGACT?"
  PROVE  \/ Judge(s, lines) \in {Nothing("ESP_FAIL"), Nothing("ESP_ERR_INVALID_RESPONSE")}
         \/ /\ BasicResponseIsOk(lines)
            /\ Judge(s, lines) = ActiveResult(OwnLines(lines, "CGACT"), s.cid)
<1>1. Name(s.name) = "CGACT" /\ RType(s.name) = "DATA_REQUIRED"
  BY DEF Name, RType
<1>2. ASSUME NEW own PROVE ParserOf(s, own) = ActiveResult(own, s.cid)
  BY Zenon DEF ParserOf
<1> QED
  BY <1>1, <1>2 DEF Judge

LEMMA OkSeen == ASSUME OneAnswer(rx), BasicResponseIsOk(rx) PROVE HasKind(rx, "ok")
BY DEF OneAnswer, BasicResponseIsOk, WithOk, HasKind

LEMMA FinishEffect == ASSUME TypeInv, OnInv, EffectInv, Finish PROVE EffectInv'
<1>1. PICK n \in Reads(rx, Name(sent.name), RType(sent.name)) :
        StepEnds(sent.name, Judge(sent, SubSeq(rx, 1, n)))
  BY DEF Finish
<1>2. /\ pc = "read" /\ UNCHANGED <<sent, alive, pin, nextId, debt, calls, tx, module>>
      /\ sent.name = Program[op][step] /\ sent.cid = cid
  BY DEF Finish, EffectInv
<1>3. pc' # "read" /\ UNCHANGED <<op, cid>>
  BY <1>1 DEF StepEnds, Done
<1>4. CASE debt
  BY <1>2, <1>3, <1>4 DEF EffectInv, RestartTakesEffect, ActiveIsFound
<1>5. CASE ~debt
  <2> DEFINE j == Judge(sent, rx)
  <2>1. OneAnswer(rx) /\ StepEnds(sent.name, j)
    BY <1>1, <1>2, <1>5, WholeAnswer
  <2>2. j.err = "ESP_OK" => Effective(sent)
    <3>1. Nothing("ESP_FAIL").err # "ESP_OK"
      BY DEF Nothing, Parsed
    <3>2. j.err = "ESP_OK" => BasicResponseIsOk(rx)
      BY <3>1, JudgedOk
    <3> QED
      BY <1>2, <1>5, <2>1, <3>2, OkSeen DEF EffectInv
  <2>3. sent.name = "CGACT?" /\ cid < CgactMaxNumContexts /\ pdp[cid] = "active" =>
          j.err # "ESP_ERR_NOT_FOUND" /\ j.value # "inactive"
    <3>1. SUFFICES ASSUME sent.name = "CGACT?", cid < CgactMaxNumContexts, pdp[cid] = "active"
                   PROVE  j.err # "ESP_ERR_NOT_FOUND" /\ j.value # "inactive"
      OBVIOUS
    <3>2. CASE j \in {Nothing("ESP_FAIL"), Nothing("ESP_ERR_INVALID_RESPONSE")}
      <4> HIDE DEF j
      <4> QED
        BY <3>2 DEF Nothing, Parsed
    <3>3. CASE BasicResponseIsOk(rx) /\ j = ActiveResult(OwnLines(rx, "CGACT"), sent.cid)
      <4>1. Effective(sent) /\ cid \in Cids
        BY <1>2, <1>5, <2>1, <3>3, OkSeen DEF EffectInv, TypeInv, CallInv
      <4>2. Listed(cid)
        BY <3>1, <4>1 DEF Effective
      <4>3. DOMAIN rx \subseteq Nat
        BY <2>1 DEF OneAnswer
      <4> HIDE DEF j
      <4>4. j.err = "ESP_OK" /\ j.value = "active"
        BY <1>2, <3>1, <3>3, <4>2, <4>3, NotListed
      <4> QED
        BY <4>4
    <3> QED
      BY <3>1, <3>2, <3>3, JudgedListing
  <2> HIDE DEF j
  <2>4. /\ op = "soft_restart" /\ step = 1 => sent.name = "CFUN0"
        /\ op = "soft_restart" /\ step = 2 => sent.name = "CFUN1"
        /\ op = "soft_restart" => step \in 1..2 /\ Len(Program[op]) = 2
        /\ op = "is_active" => sent.name = "CGACT?" /\ step = 1 /\ Len(Program[op]) = 1
    <3>1. step \in 1..Len(Program[op])
      BY <1>2 DEF TypeInv, CallInv
    <3>2. CASE op = "soft_restart"
      <4>1. Program[op] = <<"CFUN0", "CFUN1">>
        BY <3>2 DEF Program, RestartProgram
      <4>2. /\ Len(<<"CFUN0", "CFUN1">>) = 2
            /\ <<"CFUN0", "CFUN1">>[1] = "CFUN0" /\ <<"CFUN0", "CFUN1">>[2] = "CFUN1"
        OBVIOUS
      <4> QED
        BY <1>2, <3>1, <3>2, <4>1, <4>2
    <3>3. CASE op = "is_active"
      <4>1. Program[op] = <<"CGACT?">>
        BY <3>3 DEF Program
      <4>2. Len(<<"CGACT?">>) = 1 /\ <<"CGACT?">>[1] = "CGACT?" /\ 1..1 = {1}
        OBVIOUS
      <4>3. step = 1
        BY <3>1, <4>1, <4>2
      <4> QED
        BY <1>2, <3>3, <4>1, <4>2, <4>3
    <3> QED
      BY <3>2, <3>3
  <2>5. op = "soft_restart" /\ pc' # "idle" /\ step' = 2 => NoneActive'
    <3>1. SUFFICES ASSUME op = "soft_restart", pc' # "idle", step' = 2 PROVE NoneActive'
      OBVIOUS
    <3>2. j.err = "ESP_OK" /\ step' = step + 1
      BY <2>1, <3>1 DEF StepEnds, Done
    <3>3. sent.name = "CFUN0"
      BY <2>4, <3>1, <3>2
    <3> QED
      BY <1>2, <2>2, <3>2, <3>3 DEF Effective, NoneActive, module
  <2>6. RestartTakesEffect'
    <3>1. SUFFICES ASSUME op = "soft_restart", pc' = "idle", status' = "ESP_OK"
                   PROVE  radio = "full" /\ NoneActive
      BY <1>2, <1>3 DEF RestartTakesEffect, Succeeded, Returned, NoneActive, module
    <3>2. j.err = "ESP_OK" /\ ~(step < Len(Program[op]))
      BY <2>1, <3>1 DEF StepEnds, Done, OpErr
    <3>3. step = 2
      <4>1. step \in 1..2 /\ Len(Program[op]) = 2
        BY <2>4, <3>1
      <4>2. ~(step < 2)
        BY <3>2, <4>1
      <4> QED
        BY <4>1, <4>2
    <3> QED
      BY <1>2, <1>5, <2>2, <2>4, <3>1, <3>2, <3>3 DEF Effective, EffectInv
  <2>7. ActiveIsFound'
    <3>1. SUFFICES ASSUME op = "is_active", pc' = "idle", cid < CgactMaxNumContexts,
                          pdp[cid] = "active"
                   PROVE  status' # "ESP_ERR_NOT_FOUND" /\ told'.value # "inactive"
      BY <1>2, <1>3 DEF ActiveIsFound, Returned, module
    <3>2. j.err # "ESP_ERR_NOT_FOUND" /\ j.value # "inactive"
      BY <2>3, <2>4, <3>1
    <3>3. /\ status' = (IF j.err = "ESP_OK" THEN j.err ELSE j.err)
          /\ told' = [value |-> j.value, id |-> j.id]
      BY <2>1, <2>4, <3>1 DEF StepEnds, Done, OpErr
    <3> QED
      BY <3>2, <3>3
  <2> QED
    BY <1>2, <1>3, <2>5, <2>6, <2>7 DEF EffectInv
<1> QED
  BY <1>4, <1>5

\* A module that answers OK to what it found has done it.
LEMMA ObeysEffect ==
  ASSUME TypeInv, rx = <<>>, NEW s, Obeys(s), HasKind(rx', "ok")
  PROVE  Effective(s)'
<1>1. CASE s.name = "CFUN0"
  BY <1>1 DEF Obeys, Effective, NoneActive, TypeInv, ModuleInv
<1>2. CASE s.name = "CFUN1"
  BY <1>2 DEF Obeys, Effective
<1>3. CASE s.name = "CGACT?"
  <2> DEFINE n == Cardinality(Known)
             nth(k) == CHOOSE d \in Known : Cardinality({b \in Known : b < d}) = k - 1
  <2>1. rx' = (rx \o ContextLines(s)) \o <<Ok(s)>> /\ UNCHANGED <<radio, pdp>>
    BY <1>3 DEF Obeys
  <2>2. /\ \E S : rx' \in Seq(S)
        /\ n \in Nat /\ Len(rx') = n + 1 /\ rx'[n + 1] = Ok(s)
        /\ \A k \in 1..n : rx'[k] = ContextLines(s)[k]
    BY <2>1, Listing
  <2>3. \A k \in 1..n :
          ContextLines(s)[k] = Line("line", s, nth(k), Shown(pdp[nth(k)]))
    BY DEF ContextLines, Known
  <2>4. \A k \in 1..n : /\ rx'[k].kind = "line" /\ rx'[k].name = "CGACT"
                        /\ rx'[k].cid = nth(k) /\ rx'[k].value = Shown(pdp[nth(k)])
    <3>1. ASSUME NEW c, NEW v
          PROVE  LET x == Line("line", s, c, v)
                 IN  x.kind = "line" /\ x.name = "CGACT" /\ x.cid = c /\ x.value = v
      BY <1>3 DEF Line, Name
    <3> HIDE DEF n, nth
    <3> TAKE k \in 1..n
    <3>2. rx'[k] = Line("line", s, nth(k), Shown(pdp[nth(k)]))
      BY <2>2, <2>3
    <3> QED
      BY <3>1, <3>2
  <2>5. Ok(s).kind # "line"
    BY DEF Ok, Line
  <2>6. ASSUME NEW c \in Cids, pdp[c] = "active" PROVE Listed(c)'
    <3>1. \A k \in DOMAIN rx' : rx'[k].kind = "line" => k \in 1..n
      <4> HIDE DEF n
      <4> QED
        BY <2>2, <2>5
    <3>2. \A k \in DOMAIN rx' : rx'[k].kind = "line" /\ rx'[k].cid = c => rx'[k].value = "active"
      BY <2>4, <2>6, <3>1 DEF Shown
    <3>3. PICK k \in 1..n : nth(k) = c
      <4> DEFINE Below(d) == {b \in Known : b < d}
                 m == Cardinality(Below(c))
      <4>1. Known \subseteq Cids /\ c \in Known /\ \A d \in Known : d \in Nat
        BY <2>6, NetworkAssumption DEF Known
      <4>2. /\ IsFiniteSet(Known) /\ n \in Nat
            /\ \A d : IsFiniteSet(Below(d)) /\ Cardinality(Below(d)) \in Nat
        BY <4>1, ContextsFinite
      <4>3. ASSUME NEW d \in Known, NEW e \in Known, d < e
            PROVE  Cardinality(Below(d)) < Cardinality(Below(e))
        <5>1. Below(d) \subseteq Below(e) /\ d \in Below(e) /\ d \notin Below(d)
          BY <4>1, <4>3
        <5>2. /\ Cardinality(Below(d)) <= Cardinality(Below(e))
              /\ Cardinality(Below(d)) = Cardinality(Below(e)) => Below(d) = Below(e)
          BY <4>2, <5>1, FS_Subset
        <5> HIDE DEF Below
        <5> QED
          BY <4>2, <5>1, <5>2
      <4>4. m < n
        <5>1. Below(c) \subseteq Known /\ c \notin Below(c)
          BY <4>1
        <5>2. m <= n /\ (m = n => Below(c) = Known)
          BY <4>2, <5>1, FS_Subset
        <5> HIDE DEF Below
        <5> QED
          BY <4>1, <4>2, <5>1, <5>2
      <4>5. m + 1 \in 1..n /\ (m + 1) - 1 = m
        <5> HIDE DEF n, Below
        <5> QED
          BY <4>2, <4>4
      <4>6. \A d \in Known : Cardinality(Below(d)) = m => d = c
        <5>1. SUFFICES ASSUME NEW d \in Known, Cardinality(Below(d)) = m PROVE d = c
          OBVIOUS
        <5>2. ~(d < c) /\ ~(c < d)
          <6> HIDE DEF Below
          <6> QED
            BY <4>1, <4>2, <4>3, <5>1
        <5> QED
          BY <4>1, <5>2
      <4>7. nth(m + 1) = c
        <5>1. nth(m + 1) = CHOOSE d \in Known : Cardinality(Below(d)) = (m + 1) - 1
          OBVIOUS
        <5> HIDE DEF Below, m, nth
        <5>2. Cardinality(Below(c)) = m
          BY DEF m
        <5> QED
          BY <4>1, <4>5, <4>6, <5>1, <5>2
      <4> HIDE DEF m, nth, n
      <4> QED
        BY <4>5, <4>7
    <3>4. k \in DOMAIN rx'
      <4> HIDE DEF n
      <4> QED
        BY <2>2
    <3> QED
      BY <2>4, <3>2, <3>3, <3>4 DEF Listed
  <2> HIDE DEF n, nth
  <2> QED
    BY <1>3, <2>1, <2>6 DEF Effective
<1> QED
  BY <1>1, <1>2, <1>3 DEF Effective

LEMMA ModuleTakesEffect == ASSUME TypeInv, OnInv, EffectInv, ModuleTakes PROVE EffectInv'
<1>1. /\ power = "on" /\ tx # <<>> /\ tx' = Tail(tx) /\ UNCHANGED <<driver, power>>
      /\ \/ Obeys(Head(tx))
         \/ rx' \in {rx, Append(rx, Fault(Head(tx)))} /\ UNCHANGED <<radio, pdp>>
  BY DEF ModuleTakes
<1>2. UNCHANGED <<pc, op, cid, step, sent, status, told, debt>>
  BY <1>1 DEF driver
<1>3. CASE debt
  BY <1>2, <1>3 DEF EffectInv, RestartTakesEffect, ActiveIsFound
<1>4. CASE ~debt
  <2>1. pc = "read" /\ rx = <<>> /\ Len(tx) <= 1
    BY <1>1, <1>4 DEF OnInv, Between, Reading
  <2>2. Head(tx) = sent /\ tx' = <<>>
    <3>1. tx \in Seq(Commands)
      BY DEF TypeInv, TxInv
    <3>2. Len(tx) = 1
      <4> DEFINE n == Len(tx)
      <4>1. n \in Nat /\ n # 0 /\ n <= 1
        BY <1>1, <2>1, <3>1
      <4> HIDE DEF n
      <4>2. n = 1
        BY <4>1
      <4> QED
        BY <4>2 DEF n
    <3>3. \A k \in DOMAIN tx : tx[k] = sent
      BY <1>1, <1>4, <2>1 DEF EffectInv
    <3> QED
      BY <1>1, <3>1, <3>2, <3>3
  <2>3. RestartTakesEffect' /\ ActiveIsFound'
    BY <1>2, <2>1 DEF RestartTakesEffect, ActiveIsFound, Succeeded, Returned
  <2>4. HasKind(rx', "ok") => Effective(sent)'
    <3>1. CASE Obeys(sent)
      <4>1. PICK s : s = sent
        OBVIOUS
      <4>2. HasKind(rx', "ok") => Effective(s)'
        BY <2>1, <3>1, <4>1, ObeysEffect
      <4> QED
        BY <1>2, <4>1, <4>2 DEF Effective
    <3>2. CASE rx' = rx
      BY <2>1, <3>2 DEF HasKind
    <3>3. CASE rx' = Append(rx, Fault(sent))
      <4> DEFINE x == Fault(sent)
      <4>1. x.kind = "error"
        BY DEF Fault, Line
      <4> HIDE DEF x
      <4>2. rx' = <<x>>
        BY <2>1, <3>3 DEF x
      <4>3. DOMAIN <<x>> = {1} /\ <<x>>[1] = x
        OBVIOUS
      <4> QED
        BY <4>1, <4>2, <4>3 DEF HasKind
    <3> QED
      BY <1>1, <2>2, <3>1, <3>2, <3>3
  <2>5. op = "soft_restart" /\ step = 2 => NoneActive'
    <3>1. SUFFICES ASSUME op = "soft_restart", step = 2 PROVE NoneActive'
      OBVIOUS
    <3>2. NoneActive
      BY <1>4, <2>1, <3>1 DEF EffectInv
    <3>3. sent.name = "CFUN1"
      <4>1. sent.name = <<"CFUN0", "CFUN1">>[2]
        BY <2>1, <3>1 DEF EffectInv, Program, RestartProgram
      <4>2. <<"CFUN0", "CFUN1">>[2] = "CFUN1"
        OBVIOUS
      <4> QED
        BY <4>1, <4>2
    <3>4. pdp' = pdp
      BY <1>1, <2>2, <3>3 DEF Obeys
    <3> QED
      BY <3>2, <3>4 DEF NoneActive
  <2> QED
    BY <1>2, <2>1, <2>2, <2>3, <2>4, <2>5 DEF EffectInv, Effective
<1> QED
  BY <1>3, <1>4

\* The network only takes contexts down.
LEMMA NetworkDropsEffect == ASSUME TypeInv, EffectInv, NetworkDrops PROVE EffectInv'
<1>1. /\ UNCHANGED <<driver, tx, rx, power, radio>>
      /\ \A c \in Cids : pdp'[c] = "active" => pdp[c] = "active"
  BY DEF NetworkDrops, TypeInv, ModuleInv
<1>2. NoneActive => NoneActive'
  BY <1>1 DEF NoneActive
<1>3. Effective(sent) => Effective(sent)'
  BY <1>1, <1>2 DEF Effective, Listed, driver
<1>4. cid \in Cids /\ pdp'[cid] = "active" => pdp[cid] = "active"
  BY <1>1
<1> QED
  BY <1>1, <1>2, <1>3, <1>4 DEF EffectInv, driver, RestartTakesEffect, ActiveIsFound, NoneActive,
       Succeeded, Returned, HasKind, TypeInv, CallInv

LEMMA StepEffect == TypeInv /\ OnInv /\ EffectInv /\ [Next]_vars => EffectInv'
<1>1. SUFFICES ASSUME TypeInv, OnInv, EffectInv, [Next]_vars PROVE EffectInv'
  OBVIOUS
<1>2. CASE \E o \in Ops : Begin(o)
  BY <1>1, <1>2, BeginEffect
<1>3. CASE Issue
  BY <1>1, <1>3, IssueEffect
<1>4. CASE SetUpFails
  BY <1>1, <1>4 DEF SetUpFails, Done, NothingTold, EffectInv, RestartTakesEffect, ActiveIsFound,
       Succeeded, Returned
<1>5. CASE Finish
  BY <1>1, <1>5, FinishEffect
<1>6. CASE GiveUp
  BY <1>1, <1>6, GiveUpEffect
<1>7. CASE Raise \/ Lower \/ LowerFails
  <2>1. op = "init" /\ UNCHANGED op /\ pc' # "read"
    BY <1>1, <1>7 DEF Raise, Lower, LowerFails, Done, TypeInv, PinInv
  <2> QED
    BY <2>1 DEF EffectInv, RestartTakesEffect, ActiveIsFound, Succeeded, Returned
<1>8. CASE ModuleTakes
  BY <1>1, <1>8, ModuleTakesEffect
<1>9. CASE NetworkDrops
  BY <1>1, <1>9, NetworkDropsEffect
<1>10. CASE UNCHANGED vars
  BY <1>1, <1>10 DEF vars, driver, module, EffectInv, RestartTakesEffect, ActiveIsFound,
       Succeeded, Returned, HasKind, Effective, NoneActive, Listed
<1> QED
  BY <1>1, <1>2, <1>3, <1>4, <1>5, <1>6, <1>7, <1>8, <1>9, <1>10 DEF Next

LEMMA AlwaysEffect == Spec => []EffectInv
<1>1. Spec => []OnInv
  BY AlwaysTypes, InitOn, StepOn, PTL DEF Spec
<1> QED
  BY <1>1, AlwaysTypes, InitEffect, StepEffect, PTL DEF Spec

\* A restart that succeeds with no answer outstanding took every context down
\* and brought the module back to full functionality.
THEOREM RestartIsEffective == Spec => []RestartTakesEffect
<1>1. EffectInv => RestartTakesEffect
  BY DEF EffectInv
<1> QED
  BY <1>1, AlwaysEffect, PTL

\* A context bg95_is_pdp_context_active finds no line for, or finds inactive, is
\* not active, unless it is the last one the parser's array does not hold.
THEOREM ActiveContextIsFound == Spec => []ActiveIsFound
<1>1. EffectInv => ActiveIsFound
  BY DEF EffectInv
<1> QED
  BY <1>1, AlwaysEffect, PTL

-------------------------------------------------------------------------------
(* What is on its way: the commands not read yet, and the lines not read yet.  *)

\* An answer comes before one of a later command, and an OK is the end of its own.
Precedes(x, y) == x.id <= y.id /\ (x.kind = "ok" => x.id < y.id)

\* A line received, of a command written before the n-th.
IsAnswer(x, n) == x.kind \in {"line", "ok", "error"} /\ x.id \in Nat /\ x.id < n

\* The lines s and the commands t on their way, all written before the n-th: in
\* the order of the commands, every line before the OK of its answer.
Queues(s, t, n) ==
  /\ n \in Nat
  /\ \E S : s \in Seq(S)
  /\ t \in Seq(Commands)
  /\ \A k \in 1..Len(s) : IsAnswer(s[k], n)
  /\ \A j, k \in 1..Len(s) : j < k => Precedes(s[j], s[k])
  /\ \A j \in 1..Len(s), k \in 1..Len(t) : s[j].id < t[k].id
  /\ \A k \in 1..Len(t) : t[k].id < n
  /\ \A j, k \in 1..Len(t) : j < k => t[j].id < t[k].id
  /\ \A k \in 1..Len(s) : s[k].kind = "line" =>
       \E j \in 1..Len(s) : k < j /\ s[j].kind = "ok" /\ s[j].id = s[k].id

OkIds(s) == {i \in Nat : \E k \in 1..Len(s) : s[k].kind = "ok" /\ s[k].id = i}
Ids(t)   == {i \in Nat : \E k \in 1..Len(t) : t[k].id = i}

\* The lines or commands r are among s, but for those of one command.
Within(r, s) == \A k \in 1..Len(r) : \E j \in 1..Len(s) : r[k] = s[j]
WithinBut(r, s, id, name) ==
  \A k \in 1..Len(r) : (\E j \in 1..Len(s) : r[k] = s[j]) \/ (r[k].id = id /\ r[k].name = name)

LEMMA RestOf ==
  ASSUME NEW S, NEW s \in Seq(S), NEW m \in 0..Len(s), NEW r, r = Rest(s, m)
  PROVE  /\ r \in Seq(S) /\ Len(r) = Len(s) - m
         /\ \A k \in 1..Len(r) : k + m \in 1..Len(s) /\ r[k] = s[k + m]
         /\ \A k \in 1..Len(s) : k > m => k - m \in 1..Len(r) /\ r[k - m] = s[k]
<1>1. Len(s) \in Nat /\ m \in Nat /\ m <= Len(s)
  OBVIOUS
<1>2. \A i \in (m + 1)..Len(s) : s[i] \in S
  BY <1>1
<1>3. /\ r \in Seq(S)
      /\ Len(r) = IF m + 1 <= Len(s) THEN Len(s) - (m + 1) + 1 ELSE 0
      /\ \A i \in 1..(Len(s) - (m + 1) + 1) : r[i] = s[(m + 1) + i - 1]
  BY <1>1, <1>2, SubSeqProperties DEF Rest
<1>4. Len(r) = Len(s) - m
  BY <1>1, <1>3
<1>5. \A k \in 1..Len(r) : k + m \in 1..Len(s) /\ r[k] = s[k + m]
  <2> TAKE k \in 1..Len(r)
  <2>1. k + m \in 1..Len(s) /\ k \in 1..(Len(s) - (m + 1) + 1) /\ (m + 1) + k - 1 = k + m
    BY <1>1, <1>4
  <2> QED
    BY <1>3, <2>1
<1>6. \A k \in 1..Len(s) : k > m => k - m \in 1..Len(r) /\ r[k - m] = s[k]
  <2> SUFFICES ASSUME NEW k \in 1..Len(s), k > m PROVE k - m \in 1..Len(r) /\ r[k - m] = s[k]
    OBVIOUS
  <2>1. k - m \in 1..Len(r) /\ (k - m) + m = k
    BY <1>1, <1>4
  <2> QED
    BY <1>5, <2>1
<1> QED
  BY <1>3, <1>4, <1>5, <1>6

\* Lines are read from the front.
LEMMA ReadQueues ==
  ASSUME NEW s, NEW t, NEW n, Queues(s, t, n), NEW m \in 0..Len(s), NEW r, r = Rest(s, m)
  PROVE  Queues(r, t, n) /\ OkIds(r) \subseteq OkIds(s) /\ Within(r, s)
<1>1. PICK S : s \in Seq(S)
  BY DEF Queues
<1>2. /\ r \in Seq(S) /\ Len(r) \in Nat /\ Len(s) \in Nat /\ m \in Nat
      /\ \A k \in 1..Len(r) : k + m \in 1..Len(s) /\ r[k] = s[k + m]
      /\ \A k \in 1..Len(s) : k > m => k - m \in 1..Len(r) /\ r[k - m] = s[k]
  BY <1>1, RestOf
<1>3. \A k \in 1..Len(r) : IsAnswer(r[k], n)
  BY <1>2 DEF Queues
<1>4. \A j, k \in 1..Len(r) : j < k => Precedes(r[j], r[k])
  <2>1. SUFFICES ASSUME NEW j \in 1..Len(r), NEW k \in 1..Len(r), j < k
                 PROVE  Precedes(r[j], r[k])
    OBVIOUS
  <2>2. j + m < k + m
    BY <1>2, <2>1
  <2>3. \A a, b \in 1..Len(s) : a < b => Precedes(s[a], s[b])
    BY DEF Queues
  <2>4. j + m \in 1..Len(s) /\ k + m \in 1..Len(s) /\ r[j] = s[j + m] /\ r[k] = s[k + m]
    BY <1>2
  <2> QED
    BY <2>2, <2>3, <2>4
<1>5. \A j \in 1..Len(r), k \in 1..Len(t) : r[j].id < t[k].id
  <2> TAKE j \in 1..Len(r), k \in 1..Len(t)
  <2>1. j + m \in 1..Len(s) /\ r[j] = s[j + m]
    BY <1>2
  <2>2. s[j + m].id < t[k].id
    BY <2>1 DEF Queues
  <2> QED
    BY <2>1, <2>2
<1>6. ASSUME NEW k \in 1..Len(r), r[k].kind = "line"
      PROVE  \E j \in 1..Len(r) : k < j /\ r[j].kind = "ok" /\ r[j].id = r[k].id
  <2>1. k + m \in 1..Len(s) /\ r[k] = s[k + m]
    BY <1>2
  <2>2. PICK j \in 1..Len(s) : k + m < j /\ s[j].kind = "ok" /\ s[j].id = s[k + m].id
    BY <1>6, <2>1 DEF Queues
  <2>3. j > m /\ k < j - m
    BY <1>2, <2>2
  <2>4. j - m \in 1..Len(r) /\ r[j - m] = s[j]
    BY <1>2, <2>3
  <2>5. r[j - m].kind = "ok" /\ r[j - m].id = r[k].id
    BY <2>1, <2>2, <2>4
  <2> QED
    BY <2>3, <2>4, <2>5
<1>7. OkIds(r) \subseteq OkIds(s)
  BY <1>2 DEF OkIds
<1>8. Queues(r, t, n)
  BY <1>2, <1>3, <1>4, <1>5, <1>6 DEF Queues
<1> QED
  BY <1>2, <1>7, <1>8 DEF Within

\* With an OK every answer up to it has been read.
LEMMA OkRead ==
  ASSUME NEW s, NEW t, NEW n, Queues(s, t, n), NEW m \in 0..Len(s), NEW r, r = Rest(s, m),
         NEW k \in 1..Len(s), k <= m, s[k].kind = "ok"
  PROVE  s[k].id \in OkIds(s) /\ \A i \in OkIds(r) \cup Ids(t) : s[k].id < i
<1>1. PICK S : s \in Seq(S)
  BY DEF Queues
<1>2. /\ Len(s) \in Nat /\ m \in Nat
      /\ \A j \in 1..Len(r) : j + m \in 1..Len(s) /\ r[j] = s[j + m]
  BY <1>1, RestOf
<1>3. s[k].id \in OkIds(s)
  BY DEF OkIds, Queues, IsAnswer
<1>4. ASSUME NEW i \in OkIds(r) PROVE s[k].id < i
  <2>1. PICK j \in 1..Len(r) : r[j].id = i
    BY DEF OkIds
  <2>2. j + m \in 1..Len(s) /\ k < j + m /\ s[j + m].id = i
    BY <1>2, <2>1
  <2> QED
    BY <2>2 DEF Queues, Precedes
<1>5. ASSUME NEW i \in Ids(t) PROVE s[k].id < i
  BY DEF Ids, Queues
<1> QED
  BY <1>3, <1>4, <1>5

\* A command is written behind the others.
LEMMA WriteQueues ==
  ASSUME NEW s, NEW t, NEW n, Queues(s, t, n), NEW c \in Commands, c.id = n,
         NEW u, u = Append(t, c)
  PROVE  /\ Queues(s, u, n + 1) /\ Ids(u) \subseteq Ids(t) \cup {n}
         /\ WithinBut(u, t, c.id, c.name)
<1>1. /\ t \in Seq(Commands) /\ n \in Nat /\ Len(t) \in Nat
      /\ \A k \in 1..Len(t) : t[k].id < n /\ t[k].id \in Nat
  <2>1. \A x \in Commands : x.id \in Nat
    BY DEF Commands
  <2> QED
    BY <2>1 DEF Queues
<1>2. /\ u \in Seq(Commands) /\ Len(u) = Len(t) + 1
      /\ \A k \in 1..Len(t) : u[k] = t[k]
      /\ u[Len(t) + 1] = c
  BY <1>1, AppendProperties
<1>3. \A k \in 1..Len(u) : (k \in 1..Len(t) /\ u[k] = t[k]) \/ (k = Len(t) + 1 /\ u[k] = c)
  BY <1>1, <1>2
<1>4. \A k \in 1..Len(s) : IsAnswer(s[k], n + 1)
  BY <1>1 DEF Queues, IsAnswer
<1>5. \A j \in 1..Len(s), k \in 1..Len(u) : s[j].id < u[k].id
  BY <1>3 DEF Queues, IsAnswer
<1>6. \A k \in 1..Len(u) : u[k].id < n + 1
  <2> TAKE k \in 1..Len(u)
  <2>1. CASE k \in 1..Len(t) /\ u[k] = t[k]
    BY <1>1, <2>1
  <2>2. CASE u[k] = c
    BY <1>1, <2>2
  <2> QED
    BY <1>3, <2>1, <2>2
<1>7. \A j, k \in 1..Len(u) : j < k => u[j].id < u[k].id
  <2> SUFFICES ASSUME NEW j \in 1..Len(u), NEW k \in 1..Len(u), j < k PROVE u[j].id < u[k].id
    OBVIOUS
  <2>1. j \in 1..Len(t) /\ u[j] = t[j]
    BY <1>1, <1>2, <1>3
  <2>2. CASE k \in 1..Len(t) /\ u[k] = t[k]
    BY <2>1, <2>2 DEF Queues
  <2>3. CASE u[k] = c
    BY <1>1, <2>1, <2>3
  <2> QED
    BY <1>3, <2>2, <2>3
<1>8. Queues(s, u, n + 1)
  <2>1. n + 1 \in Nat /\ u \in Seq(Commands)
    BY <1>1, <1>2
  <2> QED
    BY <1>4, <1>5, <1>6, <1>7, <2>1 DEF Queues
<1>9. Ids(u) \subseteq Ids(t) \cup {n}
  BY <1>3 DEF Ids
<1> QED
  BY <1>3, <1>8, <1>9 DEF WithinBut

\* What was written but not read is lost.
LEMMA ClearQueues ==
  ASSUME NEW s, NEW t, NEW n, Queues(s, t, n)
  PROVE  Queues(s, <<>>, n) /\ Ids(<<>>) = {}
<1>1. <<>> \in Seq(Commands) /\ 1..Len(<<>>) = {}
  OBVIOUS
<1> QED
  BY <1>1 DEF Queues, Ids

\* A command may be taken for written that never was.
LEMMA SkipQueues ==
  ASSUME NEW s, NEW t, NEW n, Queues(s, t, n)
  PROVE  Queues(s, t, n + 1)
<1>1. /\ t \in Seq(Commands) /\ n \in Nat
      /\ \A k \in 1..Len(t) : t[k].id < n /\ t[k].id \in Nat
  <2>1. \A x \in Commands : x.id \in Nat
    BY DEF Commands
  <2> QED
    BY <2>1 DEF Queues
<1>2. \A k \in 1..Len(s) : IsAnswer(s[k], n + 1)
  BY <1>1 DEF Queues, IsAnswer
<1>3. \A k \in 1..Len(t) : t[k].id < n + 1
  BY <1>1
<1> QED
  BY <1>1, <1>2, <1>3 DEF Queues

\* The answer to the command c, or no answer: lines that end with OK, or an error.
Answer(b, c) ==
  /\ \E S : b \in Seq(S)
  /\ \A k \in 1..Len(b) : /\ b[k].id = c.id /\ b[k].name = Name(c.name)
                          /\ \/ b[k].kind = "line" /\ k < Len(b) /\ b[Len(b)].kind = "ok"
                             \/ k = Len(b) /\ b[k].kind \in {"ok", "error"}

\* Two sequences in one.
Join(s, b, r) ==
  /\ \E S : r \in Seq(S)
  /\ Len(s) \in Nat /\ Len(b) \in Nat /\ Len(r) = Len(s) + Len(b)
  /\ \A k \in 1..Len(s) : k \in 1..Len(r) /\ r[k] = s[k]
  /\ \A k \in 1..Len(b) : k + Len(s) \in 1..Len(r) /\ r[k + Len(s)] = b[k]
  /\ \A k \in 1..Len(r) : \/ k \in 1..Len(s) /\ r[k] = s[k]
                          \/ k > Len(s) /\ k - Len(s) \in 1..Len(b) /\ r[k] = b[k - Len(s)]

LEMMA Joined ==
  ASSUME NEW s, NEW b, \E S : s \in Seq(S), \E S : b \in Seq(S)
  PROVE  Join(s, b, s \o b)
<1> DEFINE r == s \o b
<1>1. PICK S : s \in Seq(S)
  OBVIOUS
<1>2. PICK T : b \in Seq(T)
  OBVIOUS
<1>3. s \in Seq(S \cup T) /\ b \in Seq(S \cup T)
  BY <1>1, <1>2
<1>4. Len(s) \in Nat /\ Len(b) \in Nat
  BY <1>1, <1>2
<1> DEFINE U == S \cup T
<1>5. s \in Seq(U) /\ b \in Seq(U)
  BY <1>3
<1> HIDE DEF U
<1>6. /\ r \in Seq(U) /\ Len(r) = Len(s) + Len(b)
      /\ \A i \in 1..Len(s) + Len(b) : r[i] = IF i <= Len(s) THEN s[i] ELSE b[i - Len(s)]
  BY <1>5, ConcatProperties
<1>7. \A k \in 1..Len(s) : k \in 1..Len(r) /\ r[k] = s[k]
  BY <1>4, <1>6
<1>8. \A k \in 1..Len(b) : k + Len(s) \in 1..Len(r) /\ r[k + Len(s)] = b[k]
  <2> TAKE k \in 1..Len(b)
  <2>1. /\ k + Len(s) \in 1..Len(s) + Len(b) /\ ~(k + Len(s) <= Len(s))
        /\ (k + Len(s)) - Len(s) = k
    BY <1>4
  <2> QED
    BY <1>6, <2>1
<1>9. \A k \in 1..Len(r) : \/ k \in 1..Len(s) /\ r[k] = s[k]
                           \/ k > Len(s) /\ k - Len(s) \in 1..Len(b) /\ r[k] = b[k - Len(s)]
  <2> TAKE k \in 1..Len(r)
  <2>1. CASE k <= Len(s)
    BY <1>4, <1>6, <2>1
  <2>2. CASE k > Len(s)
    <3>1. k \in 1..Len(s) + Len(b) /\ ~(k <= Len(s)) /\ k - Len(s) \in 1..Len(b)
      BY <1>4, <1>6, <2>2
    <3> QED
      BY <1>6, <2>2, <3>1
  <2> QED
    BY <1>4, <1>6, <2>1, <2>2
<1> HIDE DEF r, U
<1>10. \E R : r \in Seq(R)
  BY <1>6
<1>11. Join(s, b, r)
  BY <1>4, <1>6, <1>7, <1>8, <1>9, <1>10 DEF Join
<1> QED
  BY <1>11 DEF r

\* The module takes the first command and answers it, or does not.
LEMMA AnswerQueues ==
  ASSUME NEW s, NEW t, NEW n, Queues(s, t, n), t # <<>>, NEW b, Answer(b, Head(t)),
         NEW r, r = s \o b
  PROVE  /\ Queues(r, Tail(t), n)
         /\ OkIds(r) \subseteq OkIds(s) \cup Ids(t) /\ Ids(Tail(t)) \subseteq Ids(t)
         /\ WithinBut(r, s, Head(t).id, Name(Head(t).name)) /\ Within(Tail(t), t)
         /\ \E j \in 1..Len(t) : Head(t) = t[j]
<1> DEFINE c == Head(t)
           u == Tail(t)
           l == Len(s)
<1>1. /\ t \in Seq(Commands) /\ n \in Nat /\ Len(t) \in Nat /\ Len(t) >= 1
      /\ \A x \in Commands : x.id \in Nat
  BY DEF Queues, Commands
<1>2. /\ u \in Seq(Commands) /\ Len(u) = Len(t) - 1
      /\ \A k \in 1..Len(u) : u[k] = t[k + 1]
      /\ c = t[1] /\ c \in Commands
  BY <1>1, HeadTailProperties
<1>3. \A k \in 1..Len(u) : k + 1 \in 1..Len(t) /\ u[k] = t[k + 1]
  BY <1>1, <1>2
<1>4. /\ \E S : r \in Seq(S)
      /\ l \in Nat /\ Len(b) \in Nat /\ Len(r) = l + Len(b)
      /\ \A k \in 1..l : k \in 1..Len(r) /\ r[k] = s[k]
      /\ \A k \in 1..Len(b) : k + l \in 1..Len(r) /\ r[k + l] = b[k]
      /\ \A k \in 1..Len(r) : \/ k \in 1..l /\ r[k] = s[k]
                              \/ k > l /\ k - l \in 1..Len(b) /\ r[k] = b[k - l]
  <2>1. (\E S : s \in Seq(S)) /\ \E S : b \in Seq(S)
    BY DEF Queues, Answer
  <2>2. Join(s, b, r)
    BY <2>1, Joined
  <2> QED
    BY <2>2 DEF Join
<1>5. /\ 1 \in 1..Len(t) /\ c.id \in Nat /\ c.id < n
      /\ \A k \in 1..l : s[k].id < c.id
      /\ \A k \in 1..Len(u) : c.id < u[k].id
  <2>1. 1 \in 1..Len(t) /\ c = t[1] /\ c.id \in Nat
    BY <1>1, <1>2
  <2>2. \A k \in 1..Len(u) : c.id < u[k].id
    <3> TAKE k \in 1..Len(u)
    <3>1. 1 < k + 1 /\ k + 1 \in 1..Len(t)
      BY <1>3
    <3> QED
      BY <1>3, <2>1, <3>1 DEF Queues
  <2> QED
    BY <2>1, <2>2 DEF Queues
<1> HIDE DEF c, u, l
<1>6. \A k \in 1..Len(b) : /\ b[k].id = c.id /\ b[k].name = Name(c.name)
                           /\ \/ b[k].kind = "line" /\ k < Len(b) /\ b[Len(b)].kind = "ok"
                              \/ k = Len(b) /\ b[k].kind \in {"ok", "error"}
  BY DEF Answer, c
<1>7. \A k \in 1..Len(r) : IsAnswer(r[k], n)
  <2> TAKE k \in 1..Len(r)
  <2>1. CASE k \in 1..l /\ r[k] = s[k]
    BY <2>1 DEF Queues, l
  <2>2. CASE k - l \in 1..Len(b) /\ r[k] = b[k - l]
    BY <1>5, <1>6, <2>2 DEF IsAnswer
  <2> QED
    BY <1>4, <2>1, <2>2
<1>8. \A j, k \in 1..Len(r) : j < k => Precedes(r[j], r[k])
  <2> SUFFICES ASSUME NEW j \in 1..Len(r), NEW k \in 1..Len(r), j < k PROVE Precedes(r[j], r[k])
    OBVIOUS
  <2>1. CASE j \in 1..l /\ k \in 1..l
    BY <1>4, <2>1 DEF Queues, l
  <2>2. CASE j \in 1..l /\ k \notin 1..l
    <3>1. r[j] = s[j] /\ r[k] = b[k - l] /\ k - l \in 1..Len(b)
      BY <1>4, <2>2
    <3>2. r[j].id < c.id /\ r[k].id = c.id /\ r[j].id \in Nat
      BY <1>5, <1>6, <2>2, <3>1 DEF Queues, IsAnswer, l
    <3> QED
      BY <1>5, <3>2 DEF Precedes
  <2>3. CASE j \notin 1..l
    <3>0. j > l /\ k > l /\ k \notin 1..l
      BY <1>4, <2>3
    <3>1. /\ j - l \in 1..Len(b) /\ k - l \in 1..Len(b) /\ j - l < k - l
          /\ r[j] = b[j - l] /\ r[k] = b[k - l]
      <4>1. j - l \in 1..Len(b) /\ r[j] = b[j - l]
        BY <1>4, <2>3
      <4>2. k - l \in 1..Len(b) /\ r[k] = b[k - l]
        BY <1>4, <3>0
      <4>3. j - l < k - l
        BY <1>4
      <4> QED
        BY <4>1, <4>2, <4>3
    <3>2. r[j].id = c.id /\ r[k].id = c.id
      BY <1>6, <3>1
    <3>3. j - l # Len(b)
      BY <1>4, <3>1
    <3>4. r[j].kind = "line"
      BY <1>6, <3>1, <3>3
    <3> QED
      BY <1>5, <3>2, <3>4 DEF Precedes
  <2> QED
    BY <2>1, <2>2, <2>3
<1>9. \A j \in 1..Len(r), k \in 1..Len(u) : r[j].id < u[k].id
  <2> TAKE j \in 1..Len(r), k \in 1..Len(u)
  <2>1. CASE j \in 1..l /\ r[j] = s[j]
    BY <1>3, <2>1 DEF Queues, l
  <2>2. CASE j - l \in 1..Len(b) /\ r[j] = b[j - l]
    BY <1>5, <1>6, <2>2
  <2> QED
    BY <1>4, <2>1, <2>2
<1>10. /\ \A k \in 1..Len(u) : u[k].id < n
       /\ \A j, k \in 1..Len(u) : j < k => u[j].id < u[k].id
  <2>1. \A k \in 1..Len(u) : u[k].id < n
    BY <1>3 DEF Queues
  <2>2. ASSUME NEW j \in 1..Len(u), NEW k \in 1..Len(u), j < k PROVE u[j].id < u[k].id
    <3>1. j + 1 < k + 1
      BY <2>2
    <3> QED
      BY <1>3, <3>1 DEF Queues
  <2> QED
    BY <2>1, <2>2
<1>11. ASSUME NEW k \in 1..Len(r), r[k].kind = "line"
       PROVE  \E j \in 1..Len(r) : k < j /\ r[j].kind = "ok" /\ r[j].id = r[k].id
  <2>1. CASE k \in 1..l /\ r[k] = s[k]
    <3>1. PICK j \in 1..l : k < j /\ s[j].kind = "ok" /\ s[j].id = s[k].id
      BY <1>11, <2>1 DEF Queues, l
    <3> QED
      BY <1>4, <2>1, <3>1
  <2>2. CASE k - l \in 1..Len(b) /\ r[k] = b[k - l]
    <3> DEFINE e == Len(b)
    <3>1. k - l < e /\ b[e].kind = "ok" /\ b[k - l].id = c.id
      BY <1>6, <1>11, <2>2
    <3>2. e \in 1..Len(b) /\ b[e].id = c.id
      BY <1>4, <1>6, <2>2
    <3>3. e + l \in 1..Len(r) /\ r[e + l] = b[e] /\ k < e + l
      BY <1>4, <2>2, <3>1, <3>2
    <3> QED
      BY <2>2, <3>1, <3>2, <3>3
  <2> QED
    BY <1>4, <2>1, <2>2
<1>12. Queues(r, u, n)
  BY <1>1, <1>2, <1>4, <1>7, <1>8, <1>9, <1>10, <1>11 DEF Queues
<1>13. OkIds(r) \subseteq OkIds(s) \cup Ids(t)
  <2> SUFFICES ASSUME NEW i \in OkIds(r) PROVE i \in OkIds(s) \cup Ids(t)
    OBVIOUS
  <2>1. PICK k \in 1..Len(r) : r[k].kind = "ok" /\ r[k].id = i
    BY DEF OkIds
  <2>2. CASE k \in 1..l /\ r[k] = s[k]
    BY <2>1, <2>2 DEF OkIds, l
  <2>3. CASE k - l \in 1..Len(b) /\ r[k] = b[k - l]
    BY <1>2, <1>5, <1>6, <2>1, <2>3 DEF Ids
  <2> QED
    BY <1>4, <2>2, <2>3
<1>14. Ids(u) \subseteq Ids(t)
  BY <1>3 DEF Ids
<1>15. WithinBut(r, s, c.id, Name(c.name))
  BY <1>4, <1>6 DEF l, WithinBut
<1>16. Within(u, t) /\ \E j \in 1..Len(t) : c = t[j]
  BY <1>2, <1>3, <1>5 DEF Within
<1> QED
  BY <1>12, <1>13, <1>14, <1>15, <1>16 DEF c, u

\* The commands that an OK on its way is or may yet be the answer of.
Out == OkIds(rx) \cup IF power = "on" THEN Ids(tx) ELSE {}

QueueInv == Queues(rx, tx, nextId)

LEMMA InitQueues == Init => QueueInv /\ Out = {}
<1>1. SUFFICES ASSUME Init PROVE QueueInv /\ Out = {}
  OBVIOUS
<1>2. rx = <<>> /\ tx = <<>> /\ nextId = 1
  BY <1>1 DEF Init
<1>3. <<>> \in Seq(Commands) /\ 1..Len(<<>>) = {} /\ \E S : <<>> \in Seq(S)
  OBVIOUS
<1> QED
  BY <1>2, <1>3 DEF QueueInv, Queues, Out, OkIds, Ids

LEMMA QuietQueues ==
  ASSUME QueueInv, UNCHANGED <<rx, tx, nextId, power>>
  PROVE  QueueInv' /\ Out' = Out
BY DEF QueueInv, Out

\* Some lines are read.
LEMMA LessQueues ==
  ASSUME QueueInv, NEW m \in 0..Len(rx), rx' = Rest(rx, m), UNCHANGED <<tx, nextId, power>>
  PROVE  QueueInv' /\ Out' \subseteq Out /\ Within(rx', rx)
<1>1. Queues(rx, tx, nextId)
  BY DEF QueueInv
<1>2. /\ Queues(rx', tx, nextId) /\ OkIds(rx') \subseteq OkIds(rx)
      /\ Within(rx', rx)
  BY <1>1, ReadQueues
<1> QED
  BY <1>2 DEF QueueInv, Out

LEMMA NoRest ==
  ASSUME QueueInv
  PROVE  rx = Rest(rx, 0) /\ <<>> = Rest(rx, Len(rx)) /\ Len(rx) \in Nat
<1>1. PICK S : rx \in Seq(S)
  BY DEF QueueInv, Queues
<1>2. Len(rx) \in Nat /\ 0 + 1 = 1
  BY <1>1
<1>3. SubSeq(rx, 0 + 1, Len(rx)) = rx
  BY <1>1, <1>2, SubSeqFull
<1>4. SubSeq(rx, Len(rx) + 1, Len(rx)) = <<>>
  BY <1>2, SubSeqEmpty
<1> QED
  BY <1>2, <1>3, <1>4 DEF Rest

LEMMA ReadLess ==
  ASSUME QueueInv, Finish \/ GiveUp
  PROVE  \E m \in 0..Len(rx) : rx' = Rest(rx, m)
<1>1. Len(rx) \in Nat /\ rx = Rest(rx, 0)
  BY NoRest
<1>2. CASE Finish
  BY <1>1, <1>2 DEF Finish, Reads
<1>3. CASE GiveUp
  <2>1. \/ \E n \in ReadsInVain(rx, Name(sent.name), RType(sent.name)) : rx' = Rest(rx, n)
        \/ \E n \in Overflows(rx, Name(sent.name), RType(sent.name)) : rx' = Rest(rx, n)
        \/ rx' = rx
    BY <1>3 DEF GiveUp
  <2>2. /\ ReadsInVain(rx, Name(sent.name), RType(sent.name)) \subseteq 0..Len(rx)
        /\ Overflows(rx, Name(sent.name), RType(sent.name)) \subseteq 0..Len(rx)
    BY <1>1 DEF ReadsInVain, Overflows
  <2>3. 0 \in 0..Len(rx)
    BY <1>1
  <2> QED
    BY <1>1, <2>1, <2>2, <2>3
<1> QED
  BY <1>2, <1>3

\* A command is written, after what was received was perhaps thrown away.
LEMMA WrittenQueues ==
  ASSUME QueueInv, NEW c \in Commands, c.id = nextId, nextId' = nextId + 1, power' = power,
         NEW m \in 0..Len(rx), rx' = Rest(rx, m), tx' = Append(tx, c)
  PROVE  /\ QueueInv'
         /\ Out' \subseteq IF power = "on" THEN Out \cup {nextId} ELSE Out
         /\ Within(rx', rx)
         /\ WithinBut(tx', tx, c.id, c.name)
<1>1. Queues(rx, tx, nextId)
  BY DEF QueueInv
<1>2. /\ Queues(rx', tx, nextId) /\ OkIds(rx') \subseteq OkIds(rx)
      /\ Within(rx', rx)
  BY <1>1, ReadQueues
<1>3. /\ Queues(rx', tx', nextId + 1) /\ Ids(tx') \subseteq Ids(tx) \cup {nextId}
      /\ WithinBut(tx', tx, c.id, c.name)
  BY <1>2, WriteQueues
<1> QED
  BY <1>2, <1>3 DEF QueueInv, Out

\* A command is not written though its number is used.
LEMMA UnwrittenQueues ==
  ASSUME QueueInv, nextId' = nextId + 1, power' = power,
         NEW m \in 0..Len(rx), rx' = Rest(rx, m), tx' = tx
  PROVE  /\ QueueInv' /\ Out' \subseteq Out
         /\ Within(rx', rx)
<1>1. Queues(rx, tx, nextId)
  BY DEF QueueInv
<1>2. /\ Queues(rx', tx, nextId) /\ OkIds(rx') \subseteq OkIds(rx)
      /\ Within(rx', rx)
  BY <1>1, ReadQueues
<1>3. Queues(rx', tx', nextId + 1)
  BY <1>2, SkipQueues
<1> QED
  BY <1>2, <1>3 DEF QueueInv, Out

\* A pulse of the power key.
LEMMA PressedQueues ==
  ASSUME QueueInv, Pressed, UNCHANGED <<rx, nextId>>
  PROVE  /\ QueueInv' /\ Out' \subseteq Out
         /\ pin = "held" \/ power' # power \/ power' = "off"
<1>1. Queues(rx, tx, nextId) /\ Queues(rx, <<>>, nextId) /\ Ids(<<>>) = {}
  BY ClearQueues DEF QueueInv
<1>2. CASE PowerKey
  BY <1>1, <1>2 DEF PowerKey, QueueInv, Out
<1>3. CASE pin = "held" /\ UNCHANGED <<power, radio, pdp, tx>>
  BY <1>1, <1>3 DEF QueueInv, Out
<1> QED
  BY <1>2, <1>3 DEF Pressed

LEMMA AnswerOfOne ==
  ASSUME NEW s, NEW x, x.id = s.id, x.name = Name(s.name), x.kind \in {"ok", "error"}
  PROVE  Answer(<<x>>, s)
<1> DEFINE b == <<x>>
<1>1. b \in Seq({x}) /\ Len(b) = 1 /\ b[1] = x /\ \A k \in 1..1 : k = 1
  OBVIOUS
<1> HIDE DEF b
<1>2. Answer(b, s)
  BY <1>1 DEF Answer
<1> QED
  BY <1>2 DEF b

LEMMA AnswerOfTwo ==
  ASSUME NEW s, NEW x, NEW y, x.id = s.id, x.name = Name(s.name), x.kind = "line",
         y.id = s.id, y.name = Name(s.name), y.kind = "ok"
  PROVE  Answer(<<x, y>>, s)
<1> DEFINE b == <<x, y>>
<1>1. /\ b \in Seq({x, y}) /\ Len(b) = 2 /\ b[1] = x /\ b[2] = y
      /\ \A k \in 1..2 : k = 1 \/ k = 2
  OBVIOUS
<1> HIDE DEF b
<1>2. Answer(b, s)
  BY <1>1 DEF Answer
<1> QED
  BY <1>2 DEF b

LEMMA LineFields ==
  ASSUME NEW s, NEW kind, NEW c, NEW v
  PROVE  LET x == Line(kind, s, c, v)
         IN  x.id = s.id /\ x.name = Name(s.name) /\ x.kind = kind
BY DEF Line

\* The listing of contexts.
LEMMA AnswerOfListing == ASSUME NEW s PROVE Answer(ContextLines(s) \o <<Ok(s)>>, s)
<1> DEFINE x == ContextLines(s)
           y == Ok(s)
           n == Cardinality(Known)
           e == <<y>>
           b == x \o e
<1>1. n \in Nat
  BY ContextsFinite DEF Known
<1>2. DOMAIN x = 1..n /\ x = [k \in 1..n |-> x[k]]
  BY DEF ContextLines, Known
<1>3. \A k \in 1..n : x[k].id = s.id /\ x[k].name = Name(s.name) /\ x[k].kind = "line"
  BY LineFields DEF ContextLines, Known
<1>4. y.id = s.id /\ y.name = Name(s.name) /\ y.kind = "ok"
  BY LineFields DEF Ok
<1> HIDE DEF x, y, n
<1>5. (\E S : x \in Seq(S)) /\ Len(x) = n
  <2> DEFINE S == {x[k] : k \in 1..n}
  <2>1. x \in [1..n -> S]
    BY <1>2
  <2> HIDE DEF S
  <2>2. x \in Seq(S) /\ Len(x) = n
    BY <1>1, <1>2, <2>1
  <2> QED
    BY <2>2
<1>6. e \in Seq({y}) /\ Len(e) = 1 /\ e[1] = y
  OBVIOUS
<1> HIDE DEF e
<1>7. Join(x, e, b)
  BY <1>5, <1>6, Joined
<1> HIDE DEF b
<1>8. /\ \E S : b \in Seq(S)
      /\ Len(b) = n + 1 /\ b[n + 1] = y
      /\ \A k \in 1..Len(b) : (k \in 1..n /\ b[k] = x[k]) \/ (k = n + 1 /\ b[k] = y)
  <2>1. \A k \in 1..n + 1 : k \in 1..n \/ k = n + 1
    BY <1>1
  <2>2. 1 \in 1..Len(e) /\ 1 + Len(x) = n + 1
    BY <1>1, <1>5, <1>6
  <2>3. b[n + 1] = y
    BY <1>5, <1>6, <1>7, <2>2 DEF Join
  <2>4. Len(b) = n + 1 /\ \A k \in 1..n : b[k] = x[k]
    BY <1>5, <1>6, <1>7 DEF Join
  <2>5. \E S : b \in Seq(S)
    BY <1>7 DEF Join
  <2> QED
    BY <2>1, <2>3, <2>4, <2>5
<1>9. Answer(b, s)
  BY <1>1, <1>3, <1>4, <1>8 DEF Answer
<1> QED
  BY <1>9 DEF b, e, x, y

LEMMA AnswerOfNone == ASSUME NEW s PROVE Answer(<<>>, s)
<1>1. <<>> \in Seq({}) /\ 1..Len(<<>>) = {}
  OBVIOUS
<1> QED
  BY <1>1 DEF Answer

\* The module takes a command: what it adds to the line is an answer to it.
LEMMA TakesAnswer ==
  ASSUME QueueInv, NEW s, \/ Obeys(s)
                          \/ rx' \in {rx, Append(rx, Fault(s))}
  PROVE  \E b : Answer(b, s) /\ rx' = rx \o b
<1>1. PICK S : rx \in Seq(S)
  BY DEF QueueInv, Queues
<1>2. ASSUME NEW x PROVE Append(rx, x) = rx \o <<x>>
  <2> DEFINE T == S \cup {x}
  <2>1. rx \in Seq(T) /\ x \in T
    BY <1>1
  <2> HIDE DEF T
  <2> QED
    BY <2>1, AppendIsConcat
<1>3. CASE rx' = Append(rx, Ok(s))
  <2>1. Ok(s).id = s.id /\ Ok(s).name = Name(s.name) /\ Ok(s).kind = "ok"
    BY LineFields DEF Ok
  <2>2. Answer(<<Ok(s)>>, s)
    BY <2>1, AnswerOfOne
  <2> QED
    BY <1>2, <1>3, <2>2
<1>4. CASE rx' = Append(rx, Fault(s))
  <2>1. Fault(s).id = s.id /\ Fault(s).name = Name(s.name) /\ Fault(s).kind = "error"
    BY LineFields DEF Fault
  <2>2. Answer(<<Fault(s)>>, s)
    BY <2>1, AnswerOfOne
  <2> QED
    BY <1>2, <1>4, <2>2
<1>5. ASSUME NEW v, rx' = rx \o <<Line("line", s, s.cid, v), Ok(s)>>
      PROVE  \E b : Answer(b, s) /\ rx' = rx \o b
  <2> DEFINE x == Line("line", s, s.cid, v)
             y == Ok(s)
  <2>1. /\ x.id = s.id /\ x.name = Name(s.name) /\ x.kind = "line"
        /\ y.id = s.id /\ y.name = Name(s.name) /\ y.kind = "ok"
    BY LineFields DEF Ok
  <2>2. rx' = rx \o <<x, y>>
    BY <1>5
  <2> HIDE DEF x, y
  <2>3. Answer(<<x, y>>, s)
    BY <2>1, AnswerOfTwo
  <2> QED
    BY <2>2, <2>3
<1>6. CASE rx' = (rx \o ContextLines(s)) \o <<Ok(s)>>
  <2> DEFINE x == ContextLines(s)
             n == Cardinality(Known)
             e == <<Ok(s)>>
             T == S \cup {x[k] : k \in 1..n} \cup {Ok(s)}
  <2>1. DOMAIN x = 1..n /\ x = [k \in 1..n |-> x[k]] /\ n \in Nat
    BY ContextsFinite DEF ContextLines, Known
  <2> HIDE DEF x, n
  <2>2. rx \in Seq(T) /\ \A k \in 1..n : x[k] \in T
    BY <1>1
  <2>3. Ok(s) \in T
    OBVIOUS
  <2> HIDE DEF T
  <2>4. x \in [1..n -> T]
    BY <2>1, <2>2
  <2>5. x \in Seq(T) /\ e \in Seq(T)
    BY <2>1, <2>3, <2>4
  <2>6. (rx \o x) \o e = rx \o (x \o e)
    BY <2>2, <2>5, ConcatAssociative
  <2>7. Answer(x \o e, s)
    BY AnswerOfListing DEF x
  <2> QED
    BY <1>6, <2>6, <2>7 DEF x
<1>7. CASE rx' = rx
  <2>1. rx \o <<>> = rx
    BY <1>1, ConcatEmptySeq
  <2> QED
    BY <1>7, <2>1, AnswerOfNone
<1>8. \/ Obeys(s)
      \/ rx' = rx
      \/ rx' = Append(rx, Fault(s))
  OBVIOUS
<1> QED
  BY <1>3, <1>4, <1>5, <1>6, <1>7, <1>8 DEF Obeys

LEMMA TakenQueues ==
  ASSUME QueueInv, ModuleTakes
  PROVE  /\ QueueInv' /\ Out' \subseteq Out
         /\ \E j \in 1..Len(tx) : WithinBut(rx', rx, tx[j].id, Name(tx[j].name))
         /\ Within(tx', tx)
<1>1. /\ power = "on" /\ tx # <<>> /\ tx' = Tail(tx) /\ UNCHANGED <<driver, power>>
      /\ Obeys(Head(tx)) \/ rx' \in {rx, Append(rx, Fault(Head(tx)))}
  BY DEF ModuleTakes
<1>2. PICK b : Answer(b, Head(tx)) /\ rx' = rx \o b
  <2> DEFINE s == Head(tx)
  <2>1. Obeys(s) \/ rx' \in {rx, Append(rx, Fault(s))}
    BY <1>1
  <2> HIDE DEF s
  <2>2. \E b : Answer(b, s) /\ rx' = rx \o b
    BY <2>1, TakesAnswer
  <2> QED
    BY <2>2 DEF s
<1>3. Queues(rx, tx, nextId)
  BY DEF QueueInv
<1>4. /\ Queues(rx', Tail(tx), nextId)
      /\ OkIds(rx') \subseteq OkIds(rx) \cup Ids(tx) /\ Ids(Tail(tx)) \subseteq Ids(tx)
      /\ WithinBut(rx', rx, Head(tx).id, Name(Head(tx).name)) /\ Within(Tail(tx), tx)
      /\ \E j \in 1..Len(tx) : Head(tx) = tx[j]
  BY <1>1, <1>2, <1>3, AnswerQueues
<1>5. QueueInv' /\ Out' \subseteq Out
  BY <1>1, <1>4 DEF QueueInv, Out, driver
<1> QED
  BY <1>1, <1>4, <1>5

LEMMA OutFinite ==
  ASSUME QueueInv
  PROVE  /\ IsFiniteSet(Out) /\ Cardinality(Out) \in Nat
         /\ Out \subseteq Nat /\ nextId \in Nat /\ \A i \in Out : i < nextId
<1>1. /\ nextId \in Nat /\ tx \in Seq(Commands)
      /\ \A k \in 1..Len(rx) : rx[k].id < nextId
      /\ \A k \in 1..Len(tx) : tx[k].id < nextId
  BY DEF QueueInv, Queues, IsAnswer
<1>2. Out \subseteq Nat /\ \A i \in Out : i < nextId
  BY <1>1 DEF Out, OkIds, Ids
<1>3. Out \subseteq 0..nextId
  BY <1>1, <1>2
<1>4. IsFiniteSet(0..nextId)
  BY <1>1, 0 \in Int, nextId \in Int, FS_Interval, Zenon
<1>5. IsFiniteSet(Out)
  BY <1>3, <1>4, FS_Subset
<1> QED
  BY <1>1, <1>2, <1>5, FS_CardinalityType

LEMMA Fewer ==
  ASSUME NEW S, IsFiniteSet(S), NEW T, T \subseteq S
  PROVE  IsFiniteSet(T) /\ Cardinality(T) \in Nat /\ Cardinality(T) <= Cardinality(S)
<1>1. IsFiniteSet(T) /\ Cardinality(T) <= Cardinality(S)
  BY FS_Subset
<1> QED
  BY <1>1, FS_CardinalityType

LEMMA OneMore ==
  ASSUME NEW S, IsFiniteSet(S), NEW x, NEW T, T \subseteq S \cup {x}
  PROVE  Cardinality(T) \in Nat /\ Cardinality(T) <= Cardinality(S) + 1
<1>1. /\ IsFiniteSet(S \cup {x}) /\ Cardinality(S) \in Nat
      /\ Cardinality(S \cup {x}) <= Cardinality(S) + 1
  <2>1. IsFiniteSet(S \cup {x}) /\ Cardinality(S) \in Nat
    BY FS_AddElement, FS_CardinalityType
  <2>2. \/ Cardinality(S \cup {x}) = Cardinality(S)
        \/ Cardinality(S \cup {x}) = Cardinality(S) + 1
    BY FS_AddElement
  <2> QED
    BY <2>1, <2>2
<1>2. Cardinality(T) \in Nat /\ Cardinality(T) <= Cardinality(S \cup {x})
  BY <1>1, Fewer
<1>3. Cardinality(S \cup {x}) \in Nat
  BY <1>1, FS_CardinalityType
<1> QED
  BY <1>1, <1>2, <1>3

LEMMA OneLess ==
  ASSUME NEW S, IsFiniteSet(S), NEW x, x \in S, NEW T, T \subseteq S, x \notin T
  PROVE  Cardinality(T) \in Nat /\ Cardinality(T) <= Cardinality(S) - 1
<1>1. T \subseteq S \ {x}
  OBVIOUS
<1>2. IsFiniteSet(S \ {x}) /\ Cardinality(S \ {x}) = Cardinality(S) - 1
  BY FS_RemoveElement
<1>3. Cardinality(T) \in Nat /\ Cardinality(T) <= Cardinality(S \ {x})
  BY <1>1, <1>2, Fewer
<1> QED
  BY <1>2, <1>3

\* A command that ends well has taken an OK off the line, and every answer of an
\* earlier command with it.
LEMMA OkTaken ==
  ASSUME QueueInv, NEW n \in Reads(rx, Name(sent.name), RType(sent.name)),
         rx' = Rest(rx, n), UNCHANGED <<tx, nextId, power>>,
         Judge(sent, SubSeq(rx, 1, n)).err = "ESP_OK"
  PROVE  \E x \in Out : \A i \in Out' : x < i
<1>1. PICK S : rx \in Seq(S)
  BY DEF QueueInv, Queues
<1>2. n \in 1..Len(rx) /\ Len(rx) \in Nat
  BY <1>1 DEF Reads
<1> DEFINE read == SubSeq(rx, 1, n)
<1>3. DOMAIN read = 1..n /\ \A k \in 1..n : read[k] = rx[k]
  BY <1>1, <1>2, SubSeqProperties
<1> HIDE DEF read
<1>4. BasicResponseIsOk(read)
  <2>1. Nothing("ESP_FAIL").err # "ESP_OK"
    BY DEF Nothing, Parsed
  <2>2. Judge(sent, read).err = "ESP_OK"
    BY DEF read
  <2> QED
    BY <2>1, <2>2, JudgedOk
<1>5. PICK k \in 1..n : read[k].kind \in WithOk
  BY <1>3, <1>4 DEF BasicResponseIsOk
<1>6. k \in 1..Len(rx) /\ k <= n /\ n \in 0..Len(rx)
  BY <1>2
<1>7. rx[k].kind = "ok"
  <2>1. rx[k].kind \in {"line", "ok", "error"}
    BY <1>6 DEF QueueInv, Queues, IsAnswer
  <2> QED
    BY <1>3, <1>5, <2>1 DEF WithOk
<1>8. Queues(rx, tx, nextId)
  BY DEF QueueInv
<1>9. rx[k].id \in OkIds(rx) /\ \A i \in OkIds(rx') \cup Ids(tx) : rx[k].id < i
  BY <1>6, <1>7, <1>8, OkRead
<1>10. rx[k].id \in Out /\ Out' \subseteq OkIds(rx') \cup Ids(tx)
  BY <1>9 DEF Out
<1> QED
  BY <1>9, <1>10

-------------------------------------------------------------------------------
(* How many answers can be late.                                               *)

\* A pin that is held can give a pulse without an edge, which loses no command.
Held == IF pin = "held" /\ power = "on" THEN 1 ELSE 0

\* Every call leaves at most one command behind: where it has not come to it,
\* or a module that is off will not have it, it is one fewer.
Limit ==
  IF \/ pc = "idle"
     \/ power = "on" /\ pc # "issue"
     \/ power = "off" /\ op = "init" /\ step = 2
  THEN calls ELSE calls - 1

CountInv == calls \in Nat /\ Cardinality(Out) + Held <= Limit

LEMMA InitCount == Init => CountInv
<1>1. SUFFICES ASSUME Init PROVE CountInv
  OBVIOUS
<1>2. Out = {} /\ Cardinality({}) = 0
  BY <1>1, InitQueues, FS_EmptySet
<1> QED
  BY <1>1, <1>2 DEF Init, CountInv, Held, Limit

\* As many answers more as the bound allows for.
LEMMA CountStep ==
  ASSUME CountInv, calls' \in Nat, NEW d \in Int,
         Cardinality(Out) \in Nat, Cardinality(Out') \in Nat,
         Cardinality(Out') <= Cardinality(Out) + d, Limit' - Held' >= Limit - Held + d
  PROVE  CountInv'
<1>1. Held \in Int /\ Held' \in Int /\ Limit \in Int /\ Limit' \in Int
  BY DEF Held, Limit, CountInv
<1>2. Cardinality(Out) + Held <= Limit
  BY DEF CountInv
<1>3. Cardinality(Out') + Held' <= Limit'
  <2> DEFINE a == Cardinality(Out)
             b == Cardinality(Out')
             g == Held
             h == Held'
             l == Limit
             m == Limit'
  <2>1. a \in Int /\ b \in Int /\ g \in Int /\ h \in Int /\ l \in Int /\ m \in Int
    BY <1>1
  <2>2. a + g <= l
    BY <1>2
  <2>3. b <= a + d
    OBVIOUS
  <2>4. m - h >= l - g + d
    OBVIOUS
  <2> HIDE DEF a, b, g, h, l, m
  <2>5. b + h <= m
    BY <2>1, <2>2, <2>3, <2>4
  <2> QED
    BY <2>5 DEF b, h, m
<1> QED
  BY <1>3 DEF CountInv

\* Nothing more can be answered, and the bound and the pin are as they were.
LEMMA QuietCount ==
  ASSUME QueueInv, CountInv, Out' \subseteq Out, Limit' - Held' >= Limit - Held, calls' \in Nat
  PROVE  CountInv'
<1>1. Cardinality(Out') <= Cardinality(Out) /\ Cardinality(Out') \in Nat /\ Cardinality(Out) \in Nat
  BY OutFinite, Fewer
<1>2. Limit - Held \in Int
  BY DEF Held, Limit, CountInv
<1>3. Cardinality(Out') <= Cardinality(Out) + 0 /\ Limit' - Held' >= Limit - Held + 0
  BY <1>1, <1>2
<1> QED
  BY <1>1, <1>3, CountStep

LEMMA BeginCount == ASSUME QueueInv, CountInv, NEW o \in Ops, Begin(o) PROVE CountInv'
<1>1. /\ pc = "idle" /\ calls' = calls + 1 /\ calls \in Nat
      /\ UNCHANGED <<pin, tx, rx, power, nextId>>
  BY DEF Begin, CountInv, module
<1>2. Out' \subseteq Out
  BY <1>1, QuietQueues
<1>3. Limit' - Held' >= Limit - Held /\ calls' \in Nat
  BY <1>1 DEF Limit, Held
<1> QED
  BY <1>2, <1>3, QuietCount

\* One command more: the one that the call may leave behind.
LEMMA IssueCount ==
  ASSUME TypeInv, QueueInv, CountInv, Issue
  PROVE  CountInv' /\ QueueInv'
<1> DEFINE c == Program[op][step]
           s == [name |-> c, cid |-> cid, id |-> nextId]
<1>1. pc = "issue" /\ UNCHANGED <<power, pin, calls>>
  BY DEF Issue, module
<1>2. power \in {"on", "off"} /\ calls \in Nat
  BY DEF TypeInv, ModuleInv, CountInv
<1>3. CASE Done("ESP_ERR_INVALID_ARG", NothingTold) /\ UNCHANGED <<nextId, tx, rx>>
  <2>1. Out' = Out /\ QueueInv' /\ pc' = "idle"
    BY <1>1, <1>3, QuietQueues DEF Done
  <2>2. Limit' - Held' >= Limit - Held
    BY <1>1, <1>2, <2>1 DEF Limit, Held
  <2> QED
    BY <1>1, <1>2, <2>1, <2>2, QuietCount
<1>4. ASSUME nextId' = nextId + 1, NEW w \in WriteOutcomes,
             tx' = IF w.sent THEN Append(tx, s) ELSE tx,
             rx' = IF w.flushed THEN <<>> ELSE rx,
             IF w.err = "ESP_OK"
             THEN pc' = "read" /\ UNCHANGED <<op, cid, step, initialized, status, told>>
             ELSE StepEnds(c, Nothing(w.err))
      PROVE  CountInv' /\ QueueInv'
  <2>1. c \in Names
    <3>1. op \in AllOps /\ step \in 1..Len(Program[op]) /\ Program[op] \in Seq(Names)
      BY <1>1, NetworkAssumption, Programs DEF TypeInv, CallInv
    <3> QED
      BY <3>1
  <2> HIDE DEF c
  <2>2. s \in Commands /\ s.id = nextId
    BY <2>1 DEF Commands, TypeInv, CallInv
  <2> HIDE DEF s
  <2>3. PICK m \in 0..Len(rx) : rx' = Rest(rx, m)
    <3>1. rx = Rest(rx, 0) /\ <<>> = Rest(rx, Len(rx)) /\ Len(rx) \in Nat
      BY NoRest
    <3>2. 0 \in 0..Len(rx) /\ Len(rx) \in 0..Len(rx)
      BY <3>1
    <3> QED
      BY <1>4, <3>1, <3>2
  <2>4. QueueInv' /\ Out' \subseteq (IF power = "on" THEN Out \cup {nextId} ELSE Out)
    <3>1. CASE w.sent
      BY <1>1, <1>4, <2>2, <2>3, <3>1, WrittenQueues
    <3>2. CASE ~w.sent
      BY <1>1, <1>4, <2>3, <3>2, UnwrittenQueues
    <3> QED
      BY <3>1, <3>2
  <2>5. \/ pc' = "read" /\ UNCHANGED <<op, step>>
        \/ pc' = "idle"
        \/ pc' = "raise" /\ op = "init" /\ step = 1 /\ UNCHANGED <<op, step>>
    BY <1>4 DEF StepEnds, Done, Nothing, Parsed
  <2>6. CASE power = "on"
    <3>1. IsFiniteSet(Out) /\ Cardinality(Out) \in Nat /\ Out' \subseteq Out \cup {nextId}
      BY <2>4, <2>6, OutFinite
    <3>2. Cardinality(Out') \in Nat /\ Cardinality(Out') <= Cardinality(Out) + 1
      BY <3>1, OneMore
    <3>3. Limit' - Held' >= Limit - Held + 1
      BY <1>1, <1>2, <2>5, <2>6 DEF Limit, Held
    <3> QED
      BY <1>1, <1>2, <2>4, <3>1, <3>2, <3>3, CountStep
  <2>7. CASE power # "on"
    <3>1. Limit' - Held' >= Limit - Held
      BY <1>1, <1>2, <2>5, <2>7 DEF Limit, Held
    <3> QED
      BY <1>1, <1>2, <2>4, <2>7, <3>1, QuietCount
  <2> QED
    BY <2>6, <2>7
<1> QED
  BY <1>3, <1>4 DEF Issue

\* The call that gets its answer goes on with one answer fewer to come.
LEMMA ReadCount ==
  ASSUME TypeInv, QueueInv, CountInv, Finish \/ GiveUp
  PROVE  CountInv' /\ QueueInv'
<1>1. pc = "read" /\ UNCHANGED <<tx, nextId, power, pin, calls>>
  BY DEF Finish, GiveUp, module
<1>2. power \in {"on", "off"} /\ calls \in Nat
  BY DEF TypeInv, ModuleInv, CountInv
<1>3. QueueInv' /\ Out' \subseteq Out
  <2>1. PICK m \in 0..Len(rx) : rx' = Rest(rx, m)
    BY ReadLess
  <2> QED
    BY <1>1, <2>1, LessQueues
<1> SUFFICES CountInv'
  BY <1>3
<1>4. ASSUME NEW j, StepEnds(sent.name, j), j.err # "ESP_OK" PROVE CountInv'
  <2>1. \/ pc' = "idle"
        \/ pc' = "raise" /\ op = "init" /\ step = 1 /\ UNCHANGED <<op, step>>
    BY <1>4 DEF StepEnds, Done
  <2>2. Limit' - Held' >= Limit - Held
    BY <1>1, <1>2, <2>1 DEF Limit, Held
  <2> QED
    BY <1>1, <1>2, <1>3, <2>2, QuietCount
<1>5. CASE GiveUp
  <2>1. PICK err \in {"ESP_ERR_TIMEOUT", "ESP_ERR_INVALID_SIZE", "ESP_ERR_NO_MEM"} :
          StepEnds(sent.name, Nothing(err))
    BY <1>5 DEF GiveUp
  <2>2. Nothing(err).err # "ESP_OK"
    BY DEF Nothing, Parsed
  <2> QED
    BY <1>4, <2>1, <2>2
<1>6. CASE Finish
  <2>1. PICK n \in Reads(rx, Name(sent.name), RType(sent.name)) :
          /\ StepEnds(sent.name, Judge(sent, SubSeq(rx, 1, n)))
          /\ rx' = Rest(rx, n)
    BY <1>6 DEF Finish
  <2>2. CASE Judge(sent, SubSeq(rx, 1, n)).err # "ESP_OK"
    BY <1>4, <2>1, <2>2
  <2>3. CASE Judge(sent, SubSeq(rx, 1, n)).err = "ESP_OK"
    <3>1. PICK x \in Out : \A i \in Out' : x < i
      BY <1>1, <2>1, <2>3, OkTaken
    <3>2. x \notin Out' /\ IsFiniteSet(Out) /\ Cardinality(Out) \in Nat
      BY <3>1, OutFinite
    <3>3. Cardinality(Out') \in Nat /\ Cardinality(Out') <= Cardinality(Out) - 1
      BY <1>3, <3>1, <3>2, OneLess
    <3>4. Cardinality(Out') <= Cardinality(Out) + (0 - 1)
      BY <3>2, <3>3
    <3>5. Limit' - Held' >= Limit - Held + (0 - 1)
      BY <1>1, <1>2 DEF Limit, Held
    <3>6. 0 - 1 \in Int
      OBVIOUS
    <3> QED
      BY <1>1, <1>2, <3>2, <3>3, <3>4, <3>5, <3>6, CountStep
  <2> QED
    BY <2>2, <2>3
<1> QED
  BY <1>3, <1>5, <1>6

\* A pulse clears what was written, or the pin it leaves low had not: a pin that
\* is held again is so before a module that is off, or holds the count it had.
LEMMA PulseCount ==
  ASSUME TypeInv, QueueInv, CountInv, Raise \/ Lower \/ LowerFails \/ SetUpFails
  PROVE  CountInv' /\ QueueInv'
<1>1. power \in {"on", "off"} /\ calls \in Nat
  BY DEF TypeInv, ModuleInv, CountInv
<1>2. CASE Raise \/ SetUpFails
  <2>1. /\ UNCHANGED <<rx, tx, nextId, power, calls>> /\ (pin' = "held" => pin = "held")
        /\ pc' = "idle" \/ (pc = "raise" /\ pc' = "lower" /\ UNCHANGED <<op, step>>)
    BY <1>2 DEF Raise, SetUpFails, Done, module
  <2>2. Out' \subseteq Out /\ QueueInv'
    BY <2>1, QuietQueues
  <2>3. Limit' - Held' >= Limit - Held
    BY <1>1, <2>1 DEF Limit, Held
  <2> QED
    BY <1>1, <2>1, <2>2, <2>3, QuietCount
<1>3. CASE Lower \/ LowerFails
  <2>1. /\ pc = "lower" /\ Pressed /\ UNCHANGED <<rx, nextId, calls>>
        /\ \/ pin' = "low" /\ pc' = "issue" /\ step' = 2 /\ op' = op
           \/ pin' = "held" /\ pc' = "idle"
    BY <1>3 DEF Lower, LowerFails, Done
  <2>2. op = "init" /\ step = 1
    BY <2>1 DEF TypeInv, PinInv
  <2>3. /\ QueueInv' /\ Out' \subseteq Out
        /\ pin = "held" \/ power' # power \/ power' = "off"
    BY <2>1, PressedQueues
  <2>4. power' \in {"on", "off"} /\ (pin = "held" \/ power' # power \/ power' = "off")
    BY <1>1, <2>1, <2>3 DEF Pressed, PowerKey
  <2>5. Limit' - Held' >= Limit - Held
    BY <1>1, <2>1, <2>2, <2>4 DEF Limit, Held
  <2> QED
    BY <1>1, <2>1, <2>3, <2>5, QuietCount
<1> QED
  BY <1>2, <1>3

LEMMA StepCount == TypeInv /\ QueueInv /\ CountInv /\ [Next]_vars => QueueInv' /\ CountInv'
<1>1. SUFFICES ASSUME TypeInv, QueueInv, CountInv, [Next]_vars PROVE QueueInv' /\ CountInv'
  OBVIOUS
<1>2. CASE \E o \in Ops : Begin(o)
  <2>1. UNCHANGED <<rx, tx, nextId, power>>
    BY <1>2 DEF Begin, module
  <2> QED
    BY <1>1, <1>2, <2>1, BeginCount, QuietQueues
<1>3. CASE Issue
  BY <1>1, <1>3, IssueCount
<1>4. CASE Finish \/ GiveUp
  BY <1>1, <1>4, ReadCount
<1>5. CASE Raise \/ Lower \/ LowerFails \/ SetUpFails
  BY <1>1, <1>5, PulseCount
<1>6. CASE ModuleTakes \/ NetworkDrops \/ UNCHANGED vars
  <2>1. UNCHANGED <<pc, op, step, pin, calls, power>>
    BY <1>6 DEF ModuleTakes, NetworkDrops, vars, driver, module
  <2>2. QueueInv' /\ Out' \subseteq Out
    <3>1. CASE ModuleTakes
      BY <1>1, <3>1, TakenQueues
    <3>2. CASE NetworkDrops \/ UNCHANGED vars
      <4>1. UNCHANGED <<rx, tx, nextId, power>>
        BY <3>2 DEF NetworkDrops, vars, driver, module
      <4> QED
        BY <1>1, <4>1, QuietQueues
    <3> QED
      BY <1>6, <3>1, <3>2
  <2>3. Limit' - Held' >= Limit - Held /\ calls' \in Nat
    BY <1>1, <2>1 DEF Limit, Held, CountInv
  <2> QED
    BY <1>1, <2>2, <2>3, QuietCount
<1> QED
  BY <1>1, <1>2, <1>3, <1>4, <1>5, <1>6 DEF Next

LEMMA AlwaysCount == Spec => [](QueueInv /\ CountInv)
<1>1. Init => QueueInv
  BY InitQueues
<1> QED
  BY <1>1, InitCount, AlwaysTypes, StepCount, PTL DEF Spec

\* Whatever was given up, calls leave no more answers with OK behind than there
\* were calls: one that goes on to its next command took the last one's, or an
\* older one, off the line.
THEOREM OneAnswerPerCall == Spec => [](IsFiniteSet(Out) /\ Cardinality(Out) <= calls)
<1>1. QueueInv /\ CountInv => IsFiniteSet(Out) /\ Cardinality(Out) <= calls
  <2>1. SUFFICES ASSUME QueueInv, CountInv PROVE IsFiniteSet(Out) /\ Cardinality(Out) <= calls
    OBVIOUS
  <2>2. IsFiniteSet(Out) /\ Cardinality(Out) \in Nat
    BY <2>1, OutFinite
  <2>3. Held \in Nat /\ calls \in Nat /\ Limit \in Int /\ Limit <= calls
    BY <2>1 DEF Held, Limit, CountInv
  <2>4. Cardinality(Out) + Held <= Limit
    BY <2>1 DEF CountInv
  <2> QED
    BY <2>2, <2>3, <2>4
<1> QED
  BY <1>1, AlwaysCount, PTL

-------------------------------------------------------------------------------
(* The answer that a connection reads last.                                    *)

\* The first command of the call that is running.
Begun == IF pc = "issue" THEN nextId - (step - 1) ELSE nextId - step

\* The answers still to come of commands of earlier calls.
Old == {i \in Out : i < Begun}

\* What the line may say of an address is of an earlier call, or of the
\* verification that is waited for.
OldOrAsked(x) ==
  x.name = "CGPADDR" => \/ x.id < Begun
                        \/ pc = "read" /\ step = Len(ConnectProgram) /\ x.id = sent.id

\* Each command of the call that succeeds takes an old answer off the line, until
\* there is none.
ConnectInv ==
  op = "connect" /\ pc # "idle" =>
    /\ Old = {} \/ Cardinality(Old) <= calls - step
    /\ \A k \in 1..Len(rx) : OldOrAsked(rx[k])
    /\ \A k \in 1..Len(tx) : OldOrAsked(tx[k])

LEMMA ConnectSteps ==
  /\ Len(ConnectProgram) = 8 /\ Program["connect"] = ConnectProgram
  /\ \A k \in 1..8 : ConnectProgram[k] = "CGPADDR" <=> k = 8
<1>1. Len(ConnectProgram) = 8
  BY DEF ConnectProgram
<1>2. \A k \in 1..8 : k = 1 \/ k = 2 \/ k = 3 \/ k = 4 \/ k = 5 \/ k = 6 \/ k = 7 \/ k = 8
  OBVIOUS
<1>3. /\ ConnectProgram[1] = "CPIN" /\ ConnectProgram[2] = "QCSQ" /\ ConnectProgram[3] = "COPS"
      /\ ConnectProgram[4] = "CGDCONT" /\ ConnectProgram[5] = "CFUN0"
      /\ ConnectProgram[6] = "CFUN1" /\ ConnectProgram[7] = "CGACT"
      /\ ConnectProgram[8] = "CGPADDR"
  BY DEF ConnectProgram
<1>4. \A k \in 1..8 : ConnectProgram[k] = "CGPADDR" <=> k = 8
  BY <1>2, <1>3
<1>5. Program["connect"] = ConnectProgram
  BY DEF Program
<1> QED
  BY <1>1, <1>4, <1>5

\* In a connection the step is one of eight, and the command is that of the step.
LEMMA Connecting ==
  ASSUME TypeInv, op = "connect", pc # "idle"
  PROVE  /\ step \in 1..8 /\ pc \in {"issue", "read"} /\ nextId \in Nat
         /\ Program[op][step] = "CGPADDR" <=> step = 8
<1>1. step \in 1..Len(Program[op]) /\ pc \in {"issue", "read"} /\ nextId \in Nat
  BY DEF TypeInv, CallInv, PinInv
<1> QED
  BY <1>1, ConnectSteps

LEMMA BeginConnect ==
  ASSUME TypeInv, QueueInv, CountInv, NEW o \in Ops, Begin(o)
  PROVE  ConnectInv'
<1>1. /\ pc = "idle" /\ pc' = "issue" /\ op' = o /\ step' = 1 /\ calls' = calls + 1
      /\ UNCHANGED <<pin, tx, rx, power, nextId>>
  BY DEF Begin, module
<1>2. /\ nextId \in Nat /\ calls \in Nat /\ Out' = Out
      /\ Cardinality(Out) \in Nat /\ \A i \in Out : i < nextId
  BY <1>1, OutFinite, QuietQueues DEF CountInv
<1>3. Begun' = nextId
  BY <1>1, <1>2 DEF Begun
<1>4. Old' = Out
  BY <1>2, <1>3 DEF Old
<1>5. Cardinality(Out) <= calls
  <2>1. Held \in Nat /\ Limit = calls /\ Cardinality(Out) + Held <= Limit
    BY <1>1 DEF Held, Limit, CountInv
  <2> QED
    BY <1>2, <2>1
<1>6. Cardinality(Old') <= calls' - step'
  BY <1>1, <1>2, <1>4, <1>5
<1>7. /\ \A k \in 1..Len(rx) : rx[k].id < nextId
      /\ \A k \in 1..Len(tx) : tx[k].id < nextId
  BY DEF QueueInv, Queues, IsAnswer
<1>8. /\ \A k \in 1..Len(rx') : OldOrAsked(rx[k])'
      /\ \A k \in 1..Len(tx') : OldOrAsked(tx[k])'
  BY <1>1, <1>3, <1>7 DEF OldOrAsked
<1> QED
  BY <1>6, <1>8 DEF ConnectInv

\* A call whose command fails is over, but for one that has the power key.
LEMMA FailedConnect ==
  ASSUME NEW c, NEW j, StepEnds(c, j), j.err # "ESP_OK", op = "connect"
  PROVE  pc' = "idle" /\ status' # "ESP_OK"
BY DEF StepEnds, Done, OpErr

LEMMA IssueConnect ==
  ASSUME TypeInv, QueueInv, CountInv, ConnectInv, Issue
  PROVE  ConnectInv' /\ ConnectedHasAddress'
<1> DEFINE c == Program[op][step]
           s == [name |-> c, cid |-> cid, id |-> nextId]
<1>1. pc = "issue" /\ UNCHANGED <<power, pin, calls>>
  BY DEF Issue, module
<1>2. CASE op # "connect"
  <2>1. op' = op
    BY DEF Issue, StepEnds, Done
  <2> QED
    BY <1>2, <2>1 DEF ConnectInv, ConnectedHasAddress, Succeeded, Returned
<1>3. CASE Done("ESP_ERR_INVALID_ARG", NothingTold)
  BY <1>3 DEF Done, ConnectInv, ConnectedHasAddress, Succeeded, Returned
<1>4. ASSUME op = "connect", sent' = s, nextId' = nextId + 1, NEW w \in WriteOutcomes,
             tx' = IF w.sent THEN Append(tx, s) ELSE tx,
             rx' = IF w.flushed THEN <<>> ELSE rx,
             IF w.err = "ESP_OK"
             THEN pc' = "read" /\ UNCHANGED <<op, cid, step, initialized, status, told>>
             ELSE StepEnds(c, Nothing(w.err))
      PROVE  ConnectInv' /\ ConnectedHasAddress'
  <2>1. CASE w.err # "ESP_OK"
    <3>1. StepEnds(c, Nothing(w.err)) /\ Nothing(w.err).err # "ESP_OK"
      BY <1>4, <2>1 DEF Nothing, Parsed
    <3>2. pc' = "idle" /\ status' # "ESP_OK"
      BY <1>4, <3>1, FailedConnect
    <3> QED
      BY <3>2 DEF ConnectInv, ConnectedHasAddress, Succeeded, Returned
  <2>2. CASE w.err = "ESP_OK"
    <3>1. pc' = "read" /\ UNCHANGED <<op, step>> /\ tx' = Append(tx, s)
      BY <1>4, <2>2, Outcome
    <3>2. step \in 1..8 /\ nextId \in Nat /\ (c = "CGPADDR" <=> step = 8)
      BY <1>1, <1>4, Connecting
    <3>3. c \in Names
      <4>1. op \in AllOps /\ step \in 1..Len(Program[op]) /\ Program[op] \in Seq(Names)
        BY <1>1, NetworkAssumption, Programs DEF TypeInv, CallInv
      <4> QED
        BY <4>1
    <3> HIDE DEF c
    <3>4. s \in Commands /\ s.id = nextId /\ s.name = c
      BY <3>3 DEF Commands, TypeInv, CallInv
    <3> HIDE DEF s
    <3>5. PICK m \in 0..Len(rx) : rx' = Rest(rx, m)
      <4>1. rx = Rest(rx, 0) /\ <<>> = Rest(rx, Len(rx)) /\ Len(rx) \in Nat
        BY NoRest
      <4>2. 0 \in 0..Len(rx) /\ Len(rx) \in 0..Len(rx)
        BY <4>1
      <4> QED
        BY <1>4, <4>1, <4>2
    <3>6. /\ Out' \subseteq (IF power = "on" THEN Out \cup {nextId} ELSE Out)
          /\ Within(rx', rx) /\ WithinBut(tx', tx, s.id, s.name)
      BY <1>1, <1>4, <3>1, <3>4, <3>5, WrittenQueues
    <3>7. Begun' = Begun /\ Begun \in Int /\ Begun <= nextId
      BY <1>1, <1>4, <3>1, <3>2 DEF Begun
    <3>8. Old' \subseteq Old
      BY <3>2, <3>6, <3>7 DEF Old
    <3>9. Old' = {} \/ Cardinality(Old') <= calls' - step'
      <4>1. Old \subseteq Out /\ IsFiniteSet(Old)
        BY OutFinite, Fewer DEF Old
      <4>2. /\ Cardinality(Old') <= Cardinality(Old)
            /\ Cardinality(Old') \in Nat /\ Cardinality(Old) \in Nat
        BY <3>8, <4>1, Fewer
      <4>3. Old = {} => Old' = {}
        BY <3>8
      <4>4. Old = {} \/ Cardinality(Old) <= calls - step
        BY <1>1, <1>4 DEF ConnectInv
      <4>5. calls \in Nat
        BY DEF CountInv
      <4> QED
        BY <1>1, <3>1, <3>2, <4>2, <4>3, <4>4, <4>5
    <3>10. /\ \A k \in 1..Len(rx) : rx[k].name = "CGPADDR" => rx[k].id < Begun
           /\ \A k \in 1..Len(tx) : tx[k].name = "CGPADDR" => tx[k].id < Begun
      BY <1>1, <1>4 DEF ConnectInv, OldOrAsked
    <3>11. \A k \in 1..Len(rx') : OldOrAsked(rx[k])'
      BY <3>6, <3>7, <3>10 DEF Within, OldOrAsked
    <3>12. \A k \in 1..Len(tx') : OldOrAsked(tx[k])'
      BY <1>4, <3>1, <3>2, <3>4, <3>6, <3>7, <3>10, ConnectSteps DEF WithinBut, OldOrAsked
    <3> QED
      BY <3>1, <3>9, <3>11, <3>12 DEF ConnectInv, ConnectedHasAddress, Succeeded, Returned
  <2> QED
    BY <2>1, <2>2
<1> QED
  BY <1>2, <1>3, <1>4 DEF Issue

\* What the first line of its own says, if it is known.
LEMMA FirstOwn ==
  ASSUME NEW lines, DOMAIN lines \subseteq Nat, NEW known, NEW p, p = FirstLine(lines, known),
         p.err = "ESP_OK"
  PROVE  p.value \in known /\ \E k \in DOMAIN lines : p.value = lines[k].value /\ p.id = lines[k].id
<1> DEFINE D == DOMAIN lines
           v == First(lines).value
           i == First(lines).id
<1>1. Nothing("ESP_ERR_INVALID_RESPONSE").err # "ESP_OK"
  BY DEF Nothing, Parsed
<1>2. D # {} /\ v \in known /\ p = Parsed("ESP_OK", v, i)
  BY <1>1 DEF FirstLine
<1>3. Min(D) \in D
  BY <1>2, NatMin
<1>4. v = lines[Min(D)].value /\ i = lines[Min(D)].id
  BY DEF First
<1> HIDE DEF v, i, D
<1>5. p.value = v /\ p.id = i
  BY <1>2 DEF Parsed
<1>6. p.value = lines[Min(D)].value /\ p.id = lines[Min(D)].id
  BY <1>4, <1>5
<1> QED
  BY <1>2, <1>3, <1>5, <1>6 DEF D

\* An address that is verified stands on a line of the response.
LEMMA JudgedAddress ==
  ASSUME NEW s, s.name = "CGPADDR", NEW lines, DOMAIN lines \subseteq Nat,
         NEW j, j = Judge(s, lines), j.err = "ESP_OK"
  PROVE  /\ j.value = "address"
         /\ \E k \in DOMAIN lines : /\ lines[k].kind = "line" /\ lines[k].name = "CGPADDR"
                                    /\ j.id = lines[k].id
<1> DEFINE own == OwnLines(lines, "CGPADDR")
           p   == CgpaddrParser(own)
<1>1. /\ DOMAIN own = {k \in DOMAIN lines : lines[k].kind = "line" /\ lines[k].name = "CGPADDR"}
      /\ \A k \in DOMAIN own : own[k] = lines[k]
  BY DEF OwnLines, Restrict
<1>2. j = AddressResult(own, s.cid)
  <2>1. Name(s.name) = "CGPADDR" /\ RType(s.name) = "DATA_REQUIRED"
    BY DEF Name, RType
  <2>2. ASSUME NEW l PROVE ParserOf(s, l) = AddressResult(l, s.cid)
    BY Zenon DEF ParserOf
  <2>3. Nothing("ESP_FAIL").err # "ESP_OK" /\ Nothing("ESP_ERR_INVALID_RESPONSE").err # "ESP_OK"
    BY DEF Nothing, Parsed
  <2>4. \/ j = Nothing("ESP_FAIL") \/ j = Nothing("ESP_ERR_INVALID_RESPONSE")
        \/ j = ParserOf(s, own)
    BY <2>1 DEF Judge
  <2> HIDE DEF own
  <2> QED
    BY <2>2, <2>3, <2>4
<1> HIDE DEF own
<1>3. j = p /\ p.value # "empty"
  <2>1. /\ Nothing("ESP_ERR_INVALID_RESPONSE").err # "ESP_OK"
        /\ Nothing("ESP_ERR_NOT_FOUND").err # "ESP_OK"
    BY DEF Nothing, Parsed
  <2> HIDE DEF p
  <2>2. \/ j = p /\ p.value # "empty"
        \/ j = p /\ p.err # "ESP_OK"
        \/ j = Nothing("ESP_ERR_INVALID_RESPONSE") \/ j = Nothing("ESP_ERR_NOT_FOUND")
    BY <1>2 DEF AddressResult, p
  <2> QED
    BY <2>1, <2>2
<1>4. p = FirstLine(own, {"address", "empty"}) /\ p.err = "ESP_OK" /\ DOMAIN own \subseteq Nat
  BY <1>1, <1>3 DEF CgpaddrParser
<1> HIDE DEF p
<1>5. p.value \in {"address", "empty"} /\ \E k \in DOMAIN own : p.id = own[k].id
  BY <1>4, FirstOwn
<1> QED
  BY <1>1, <1>3, <1>5

\* A line that is read of an earlier call is one more old answer.
LEMMA OldLine ==
  ASSUME QueueInv, NEW k \in 1..Len(rx), rx[k].kind = "line", rx[k].id < Begun
  PROVE  rx[k].id \in Old
<1>1. PICK m \in 1..Len(rx) : rx[m].kind = "ok" /\ rx[m].id = rx[k].id
  BY DEF QueueInv, Queues
<1>2. rx[k].id \in Nat
  BY DEF QueueInv, Queues, IsAnswer
<1> QED
  BY <1>1, <1>2 DEF Old, Out, OkIds

\* The command is answered: there is one old answer fewer, or none is left.
LEMMA OldTaken ==
  ASSUME TypeInv, QueueInv, CountInv, ConnectInv, op = "connect", pc = "read",
         Out' \subseteq Out, NEW x \in Out, \A i \in Out' : x < i,
         Begun' = Begun, Begun \in Int, step' = step + 1, calls' = calls
  PROVE  Old' = {} \/ Cardinality(Old') <= calls' - step'
<1>1. IsFiniteSet(Old) /\ Old \subseteq Out /\ Out \subseteq Nat
  BY OutFinite, Fewer DEF Old
<1>2. /\ Old' \subseteq Old /\ x \notin Old'
      /\ \A i \in Old' : i \in Nat /\ x < i /\ i < Begun
  <2>1. Old' = {i \in Out' : i < Begun}
    BY DEF Old
  <2>2. \A i \in Old' : i \in Nat /\ x < i /\ i < Begun
    BY <1>1, <2>1
  <2>3. x \in Nat /\ ~(x < x)
    BY <1>1
  <2>4. Old' \subseteq Old
    BY <2>1 DEF Old
  <2> QED
    BY <2>2, <2>3, <2>4
<1>3. CASE x < Begun
  <2>1. x \in Old
    BY <1>3 DEF Old
  <2>2. Cardinality(Old') \in Nat /\ Cardinality(Old') <= Cardinality(Old) - 1
    BY <1>1, <1>2, <2>1, OneLess
  <2>3. Cardinality(Old) <= calls - step
    BY <2>1 DEF ConnectInv
  <2>4. Cardinality(Old) \in Nat /\ calls \in Nat /\ step \in Int
    BY <1>1, FS_CardinalityType, Connecting DEF CountInv
  <2> DEFINE a == Cardinality(Old)
             b == Cardinality(Old')
  <2> HIDE DEF a, b
  <2>5. a \in Int /\ b \in Int /\ b <= a - 1 /\ a <= calls - step
    BY <2>2, <2>3, <2>4 DEF a, b
  <2>6. b <= calls' - step'
    BY <2>4, <2>5
  <2> QED
    BY <2>6 DEF b
<1>4. CASE ~(x < Begun)
  <2>1. x \in Nat
    BY <1>1
  <2>2. \A i \in Old' : FALSE
    BY <1>2, <1>4, <2>1
  <2> QED
    BY <2>2
<1> QED
  BY <1>3, <1>4

LEMMA FinishConnect ==
  ASSUME TypeInv, QueueInv, CountInv, EffectInv, ConnectInv, op = "connect", Finish
  PROVE  ConnectInv' /\ ConnectedHasAddress'
<1>1. PICK n \in Reads(rx, Name(sent.name), RType(sent.name)) :
        /\ StepEnds(sent.name, Judge(sent, SubSeq(rx, 1, n)))
        /\ rx' = Rest(rx, n)
  BY DEF Finish
<1>2. /\ pc = "read" /\ UNCHANGED <<sent, nextId, calls, tx, power>>
      /\ sent.name = Program[op][step]
  BY DEF Finish, EffectInv, module
<1>3. /\ step \in 1..8 /\ nextId \in Nat /\ (sent.name = "CGPADDR" <=> step = 8)
      /\ Len(Program[op]) = 8
  BY <1>2, Connecting, ConnectSteps
<1> DEFINE read == SubSeq(rx, 1, n)
           j == Judge(sent, read)
<1>4. /\ n \in 1..Len(rx) /\ Len(rx) \in Nat
      /\ DOMAIN read = 1..n /\ \A k \in 1..n : read[k] = rx[k]
  <2>1. PICK S : rx \in Seq(S)
    BY DEF QueueInv, Queues
  <2>2. n \in 1..Len(rx) /\ Len(rx) \in Nat
    BY <2>1 DEF Reads
  <2> QED
    BY <2>1, <2>2, SubSeqProperties
<1>5. n \in 0..Len(rx)
  BY <1>4
<1>6. Out' \subseteq Out /\ Within(rx', rx)
  BY <1>1, <1>2, <1>5, LessQueues
<1>7. StepEnds(sent.name, j) /\ (j.err = "ESP_OK" => \E x \in Out : \A i \in Out' : x < i)
  BY <1>1, <1>2, OkTaken
<1>8. j.err = "ESP_OK" /\ step = 8 =>
        j.value = "address" /\ \E k \in 1..Len(rx) : /\ rx[k].kind = "line"
                                                     /\ rx[k].name = "CGPADDR" /\ rx[k].id = j.id
  <2>1. SUFFICES ASSUME j.err = "ESP_OK", step = 8
                 PROVE  /\ j.value = "address"
                        /\ \E k \in 1..Len(rx) : /\ rx[k].kind = "line"
                                                 /\ rx[k].name = "CGPADDR" /\ rx[k].id = j.id
    OBVIOUS
  <2>2. DOMAIN read \subseteq Nat /\ sent.name = "CGPADDR"
    BY <1>3, <1>4, <2>1
  <2> HIDE DEF read
  <2>3. /\ j.value = "address"
        /\ \E k \in DOMAIN read : /\ read[k].kind = "line" /\ read[k].name = "CGPADDR"
                                  /\ j.id = read[k].id
    BY <2>1, <2>2, JudgedAddress
  <2>4. \A k \in DOMAIN read : k \in 1..Len(rx) /\ read[k] = rx[k]
    BY <1>4
  <2> QED
    BY <2>3, <2>4
<1> HIDE DEF read, j
<1>9. CASE j.err # "ESP_OK"
  <2>1. pc' = "idle" /\ status' # "ESP_OK"
    BY <1>7, <1>9, FailedConnect
  <2> QED
    BY <2>1 DEF ConnectInv, ConnectedHasAddress, Succeeded, Returned
<1>10. CASE j.err = "ESP_OK" /\ step # 8
  <2>1. pc' = "issue" /\ step' = step + 1 /\ op' = op
    BY <1>3, <1>7, <1>10 DEF StepEnds
  <2>2. Begun' = Begun /\ Begun \in Int
    BY <1>2, <1>3, <2>1 DEF Begun
  <2>3. Old' = {} \/ Cardinality(Old') <= calls' - step'
    BY <1>2, <1>6, <1>7, <1>10, <2>1, <2>2, OldTaken
  <2>4. /\ \A k \in 1..Len(rx) : rx[k].name = "CGPADDR" => rx[k].id < Begun
        /\ \A k \in 1..Len(tx) : tx[k].name = "CGPADDR" => tx[k].id < Begun
    BY <1>2, <1>10, ConnectSteps DEF ConnectInv, OldOrAsked
  <2>5. \A k \in 1..Len(rx') : OldOrAsked(rx[k])'
    BY <1>6, <2>2, <2>4 DEF Within, OldOrAsked
  <2>6. \A k \in 1..Len(tx') : OldOrAsked(tx[k])'
    BY <1>2, <2>2, <2>4 DEF OldOrAsked
  <2> QED
    BY <2>1, <2>3, <2>5, <2>6 DEF ConnectInv, ConnectedHasAddress, Succeeded, Returned
<1>11. CASE j.err = "ESP_OK" /\ step = 8
  <2>1. pc' = "idle" /\ told' = [value |-> j.value, id |-> j.id]
    BY <1>3, <1>7, <1>11 DEF StepEnds, Done
  <2>2. PICK k \in 1..Len(rx) : rx[k].kind = "line" /\ rx[k].name = "CGPADDR" /\ rx[k].id = j.id
    BY <1>8, <1>11
  <2>3. calls <= 8 => j.id = sent.id
    <3>1. SUFFICES ASSUME calls <= 8, j.id # sent.id PROVE FALSE
      OBVIOUS
    <3>2. rx[k].id < Begun
      BY <1>2, <2>2, <3>1 DEF ConnectInv, OldOrAsked
    <3>3. rx[k].id \in Old
      BY <2>2, <3>2, OldLine
    <3>4. IsFiniteSet(Old) /\ Cardinality(Old) \in Nat /\ calls \in Nat
      BY OutFinite, Fewer DEF Old, CountInv
    <3>5. Cardinality(Old) <= calls - step
      BY <1>2, <3>3 DEF ConnectInv
    <3>6. Cardinality(Old) = 0
      BY <1>11, <3>1, <3>4, <3>5
    <3> QED
      BY <3>3, <3>4, <3>6, FS_EmptySet
  <2>4. calls' <= Len(ConnectProgram) => told' = [value |-> "address", id |-> sent'.id]
    BY <1>2, <1>8, <1>11, <2>1, <2>3, ConnectSteps
  <2> QED
    BY <2>1, <2>4 DEF ConnectInv, ConnectedHasAddress, Succeeded, Returned
<1> QED
  BY <1>9, <1>10, <1>11

LEMMA ReadConnect ==
  ASSUME TypeInv, QueueInv, CountInv, EffectInv, ConnectInv, Finish \/ GiveUp
  PROVE  ConnectInv' /\ ConnectedHasAddress'
<1>1. CASE op # "connect"
  <2>1. op' = op
    BY DEF Finish, GiveUp, StepEnds, Done
  <2> QED
    BY <1>1, <2>1 DEF ConnectInv, ConnectedHasAddress, Succeeded, Returned
<1>2. CASE op = "connect" /\ Finish
  BY <1>2, FinishConnect
<1>3. CASE op = "connect" /\ GiveUp
  <2>1. PICK err \in {"ESP_ERR_TIMEOUT", "ESP_ERR_INVALID_SIZE", "ESP_ERR_NO_MEM"} :
          StepEnds(sent.name, Nothing(err))
    BY <1>3 DEF GiveUp
  <2>2. Nothing(err).err # "ESP_OK"
    BY DEF Nothing, Parsed
  <2>3. pc' = "idle" /\ status' # "ESP_OK"
    BY <1>3, <2>1, <2>2, FailedConnect
  <2> QED
    BY <2>3 DEF ConnectInv, ConnectedHasAddress, Succeeded, Returned
<1> QED
  BY <1>1, <1>2, <1>3

\* What is on the line moves on, or becomes less; the call stays where it is.
LEMMA OnLineConnect ==
  ASSUME TypeInv, QueueInv, ConnectInv, CountInv, UNCHANGED driver, Out' \subseteq Out,
         op = "connect" /\ pc # "idle" => /\ \A k \in 1..Len(rx') : OldOrAsked(rx'[k])
                                          /\ \A k \in 1..Len(tx') : OldOrAsked(tx'[k])
  PROVE  ConnectInv'
<1>1. UNCHANGED <<pc, op, step, sent, nextId, calls>>
  BY DEF driver
<1>2. SUFFICES ASSUME op = "connect", pc # "idle"
               PROVE  /\ Old' = {} \/ Cardinality(Old') <= calls' - step'
                      /\ \A k \in 1..Len(rx') : OldOrAsked(rx[k])'
                      /\ \A k \in 1..Len(tx') : OldOrAsked(tx[k])'
  BY <1>1 DEF ConnectInv
<1>3. Begun' = Begun
  BY <1>1 DEF Begun
<1>4. Old' \subseteq Old /\ IsFiniteSet(Old)
  BY <1>3, OutFinite, Fewer DEF Old
<1>5. /\ Cardinality(Old') <= Cardinality(Old)
      /\ Cardinality(Old') \in Nat /\ Cardinality(Old) \in Nat
  BY <1>4, Fewer
<1>6. calls \in Nat /\ step \in Int
  BY <1>2, Connecting DEF CountInv
<1>7. Old' = {} \/ Cardinality(Old') <= calls' - step'
  BY <1>1, <1>2, <1>4, <1>5, <1>6 DEF ConnectInv
<1>8. /\ \A k \in 1..Len(rx') : OldOrAsked(rx[k])'
      /\ \A k \in 1..Len(tx') : OldOrAsked(tx[k])'
  BY <1>1, <1>2, <1>3 DEF OldOrAsked
<1> QED
  BY <1>7, <1>8

LEMMA TakesConnect ==
  ASSUME TypeInv, QueueInv, CountInv, ConnectInv, ModuleTakes
  PROVE  ConnectInv'
<1>1. UNCHANGED driver
  BY DEF ModuleTakes
<1>2. PICK i \in 1..Len(tx) : /\ Out' \subseteq Out
                              /\ WithinBut(rx', rx, tx[i].id, Name(tx[i].name))
                              /\ Within(tx', tx)
  BY TakenQueues
<1>3. op = "connect" /\ pc # "idle" => /\ \A k \in 1..Len(rx') : OldOrAsked(rx'[k])
                                       /\ \A k \in 1..Len(tx') : OldOrAsked(tx'[k])
  <2>1. SUFFICES ASSUME op = "connect", pc # "idle"
                 PROVE  /\ \A k \in 1..Len(rx') : OldOrAsked(rx'[k])
                        /\ \A k \in 1..Len(tx') : OldOrAsked(tx'[k])
    OBVIOUS
  <2>2. /\ \A k \in 1..Len(rx) : OldOrAsked(rx[k])
        /\ \A k \in 1..Len(tx) : OldOrAsked(tx[k])
    BY <2>1 DEF ConnectInv
  <2>3. Name(tx[i].name) = "CGPADDR" => tx[i].name = "CGPADDR"
    BY DEF Name
  <2>4. \A k \in 1..Len(rx') : OldOrAsked(rx'[k])
    BY <1>2, <2>2, <2>3 DEF WithinBut, OldOrAsked
  <2>5. \A k \in 1..Len(tx') : OldOrAsked(tx'[k])
    BY <1>2, <2>2 DEF Within
  <2> QED
    BY <2>4, <2>5
<1> QED
  BY <1>1, <1>2, <1>3, OnLineConnect

LateInv == QueueInv /\ CountInv /\ ConnectInv /\ ConnectedHasAddress

LEMMA InitLate == Init => LateInv
<1>1. Init => ConnectInv /\ ConnectedHasAddress
  BY DEF Init, ConnectInv, ConnectedHasAddress, Succeeded, Returned
<1> QED
  BY <1>1, InitQueues, InitCount DEF LateInv

LEMMA StepLate == TypeInv /\ EffectInv /\ LateInv /\ [Next]_vars => LateInv'
<1>1. SUFFICES ASSUME TypeInv, EffectInv, LateInv, [Next]_vars
               PROVE  ConnectInv' /\ ConnectedHasAddress'
  BY StepCount DEF LateInv
<1>2. QueueInv /\ CountInv /\ ConnectInv /\ ConnectedHasAddress
  BY <1>1 DEF LateInv
<1>3. CASE \E o \in Ops : Begin(o)
  <2>1. pc' # "idle"
    BY <1>3 DEF Begin
  <2> QED
    BY <1>1, <1>2, <1>3, <2>1, BeginConnect DEF ConnectedHasAddress, Succeeded, Returned
<1>4. CASE Issue
  BY <1>1, <1>2, <1>4, IssueConnect
<1>5. CASE Finish \/ GiveUp
  BY <1>1, <1>2, <1>5, ReadConnect
<1>6. CASE Raise \/ Lower \/ LowerFails \/ SetUpFails
  <2>1. op = "init" /\ op' = op
    BY <1>1, <1>6 DEF Raise, Lower, LowerFails, SetUpFails, Done, TypeInv, PinInv
  <2> QED
    BY <2>1 DEF ConnectInv, ConnectedHasAddress, Succeeded, Returned
<1>7. CASE ModuleTakes
  <2>1. UNCHANGED driver
    BY <1>7 DEF ModuleTakes
  <2> QED
    BY <1>1, <1>2, <1>7, <2>1, TakesConnect DEF driver, ConnectedHasAddress, Succeeded, Returned
<1>8. CASE NetworkDrops \/ UNCHANGED vars
  <2>1. UNCHANGED <<driver, rx, tx, power>>
    BY <1>8 DEF NetworkDrops, vars, module
  <2>2. Out' \subseteq Out
    BY <2>1 DEF Out
  <2>3. ConnectInv'
    BY <1>1, <1>2, <2>1, <2>2, OnLineConnect DEF ConnectInv
  <2> QED
    BY <1>2, <2>1, <2>3 DEF driver, ConnectedHasAddress, Succeeded, Returned
<1> QED
  BY <1>1, <1>3, <1>4, <1>5, <1>6, <1>7, <1>8 DEF Next

\* A connection that succeeds within the first eight calls was told an address in
\* answer to its own verification, however many of the commands before were given
\* up and are answered late: a call leaves at most one answer behind, and each of
\* the eight commands takes the oldest of them off the line.
THEOREM ConnectsHaveAddress == Spec => []ConnectedHasAddress
<1>1. Spec => []LateInv
  BY AlwaysTypes, AlwaysEffect, InitLate, StepLate, PTL DEF Spec
<1>2. LateInv => ConnectedHasAddress
  BY DEF LateInv
<1> QED
  BY <1>1, <1>2, PTL
================================================================================
