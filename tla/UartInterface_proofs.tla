-------------------------- MODULE UartInterface_proofs --------------------------
(* Theorems about UartInterface, for any ports, buffers and bounds.            *)
EXTENDS UartInterface, SequenceTheorems, TLAPS

\* What passed a test is not empty.
LEMMA PassedIsSomething ==
  ASSUME NEW text, LoopbackPassed(text) \/ AtPassed(text), text = <<>>
  PROVE  FALSE
BY DEF LoopbackPassed, AtPassed

\* The ports: an initialisation that fails undoes what it did, and no other.
PortsInv == WorkingStaysWorking /\ FailedInitIsUndone

LEMMA PortsStep ==
  ASSUME PortsInv, [Next]_vars
  PROVE  PortsInv'
<1> USE DEF PortsInv, WorkingStaysWorking, FailedInitIsUndone
<1>1. ASSUME NEW p \in Ports, InitHw(p) PROVE PortsInv'
  <2>1. CASE InstallFails(p) BY <2>1 DEF InstallFails
  <2>2. CASE SizeFails(p) BY <2>2 DEF SizeFails
  <2>3. CASE SetUpFails(p) BY <2>3 DEF SetUpFails
  <2>4. CASE InitSucceeds(p) BY <2>4 DEF InitSucceeds
  <2> QED BY <1>1, <2>1, <2>2, <2>3, <2>4 DEF InitHw
<1>2. ASSUME NEW p \in Ports, Arrives(p) PROVE PortsInv'
  BY <1>2 DEF Arrives
<1>3. ASSUME NEW test \in Tests, TestBegins(test) PROVE PortsInv'
  BY <1>3 DEF TestBegins
<1>4. CASE TestEnds BY <1>4 DEF TestEnds
<1>5. CASE UNCHANGED vars BY <1>5 DEF vars
<1> QED BY <1>1, <1>2, <1>3, <1>4, <1>5 DEF Next

\* A port that works keeps its driver and its settings through every
\* initialisation that fails later (bg95_uart_interface_init_hw).
THEOREM WorkingPortStays == Spec => []WorkingStaysWorking
<1>1. Init => PortsInv
  BY DEF Init, PortsInv, WorkingStaysWorking, FailedInitIsUndone
<1>2. PortsInv => WorkingStaysWorking
  BY DEF PortsInv
<1> QED BY <1>1, <1>2, PortsStep, PTL DEF Spec

\* Every driver that is installed belongs to a port that works, or to one whose
\* initialisation failed at the size of its transmit buffer.
THEOREM FailedPortIsFree == Spec => []FailedInitIsUndone
<1>1. Init => PortsInv
  BY DEF Init, PortsInv, WorkingStaysWorking, FailedInitIsUndone
<1>2. PortsInv => FailedInitIsUndone
  BY DEF PortsInv
<1> QED BY <1>1, <1>2, PortsStep, PTL DEF Spec

-------------------------------------------------------------------------------
\* The tests.  What is waiting on the port under test came after the test began:
\* PassedTestIsNew speaks of what was read, so what may be read must be bounded.
Bytes == [kind : Kinds, test : Nat]

TestInv ==
  /\ port \in Ports /\ ops \in Nat
  /\ rx \in [Ports -> Seq(Bytes)]
  /\ pc \in Tests =>
       /\ op = pc /\ port \in installed
       /\ \A k \in 1..Len(rx[port]) : rx[port][k].test = ops
  /\ PassedTestIsNew

LEMMA TestInvInit == Init => TestInv
BY DEF Init, TestInv, PassedTestIsNew, Tests

\* An initialisation happens between two tests, and leaves no verdict of one.
LEMMA InitKeepsTestInv ==
  ASSUME TestInv, NEW p \in Ports, InitHw(p)
  PROVE  TestInv'
<1>1. /\ pc' = "idle" /\ op' = "init" /\ port' \in Ports /\ ops' \in Nat
  BY DEF TestInv, InitHw, Enter, InstallFails, SizeFails, SetUpFails, InitSucceeds
<1>2. rx' \in [Ports -> Seq(Bytes)]
  <2>1. <<>> \in Seq(Bytes) BY EmptySeq
  <2> QED BY <2>1 DEF TestInv, InitHw, InstallFails, SizeFails, SetUpFails, InitSucceeds, Flushed
<1> QED BY <1>1, <1>2 DEF TestInv, PassedTestIsNew, Tests

\* A piece that arrives during a test is counted to it.
LEMMA ArrivesKeepsTestInv ==
  ASSUME TestInv, NEW p \in Ports, Arrives(p)
  PROVE  TestInv'
<1>1. PICK kind \in Kinds : rx' = [rx EXCEPT ![p] = Append(@, [kind |-> kind, test |-> ops])]
  BY DEF Arrives
<1> DEFINE e == [kind |-> kind, test |-> ops]
<1>2. e \in Bytes /\ rx[p] \in Seq(Bytes)
  BY DEF TestInv, Bytes
<1>3. /\ Append(rx[p], e) \in Seq(Bytes)
      /\ Len(Append(rx[p], e)) = Len(rx[p]) + 1
      /\ \A k \in 1..Len(rx[p]) : Append(rx[p], e)[k] = rx[p][k]
      /\ Append(rx[p], e)[Len(rx[p]) + 1] = e
  BY <1>2, AppendProperties
<1> HIDE DEF e
<1>4. rx' = [rx EXCEPT ![p] = Append(@, e)]
  BY <1>1 DEF e
<1>5. rx' \in [Ports -> Seq(Bytes)] /\ rx'[p] = Append(rx[p], e)
      /\ \A q \in Ports \ {p} : rx'[q] = rx[q]
  BY <1>3, <1>4 DEF TestInv
<1>6. UNCHANGED <<pc, op, status, port, installed, ops, got>>
  BY DEF Arrives
<1>7. ASSUME pc \in Tests, NEW k \in 1..Len(rx'[port]) PROVE rx'[port][k].test = ops
  <2>1. CASE port = p
    <3>1. Len(rx[p]) \in Nat BY <1>2, LenProperties
    <3>2. e.test = ops BY DEF e
    <3> QED BY <1>3, <1>5, <1>7, <2>1, <3>1, <3>2 DEF TestInv
  <2>2. CASE port # p BY <1>5, <1>7, <2>2 DEF TestInv
  <2> QED BY <2>1, <2>2
<1> QED BY <1>5, <1>6, <1>7 DEF TestInv, PassedTestIsNew

\* A test begins with an empty port, or with an error and no test running.
LEMMA BeginKeepsTestInv ==
  ASSUME TestInv, NEW test \in Tests, TestBegins(test)
  PROVE  TestInv'
<1>1. /\ pc = "idle" /\ op' = test /\ port' = port /\ installed' = installed
      /\ ops' \in Nat /\ port' \in Ports
  BY DEF TestInv, TestBegins
<1>2. CASE port \notin installed
  BY <1>1, <1>2 DEF TestInv, TestBegins, PassedTestIsNew, Tests
<1>3. CASE port \in installed
  <2>1. PICK w \in HwWriteOutcomes :
          /\ rx' = [rx EXCEPT ![port] = <<>>]
          /\ pc' = IF w.err = "ESP_OK" THEN test ELSE "idle"
          /\ status' = IF w.err = "ESP_OK" THEN "none" ELSE w.err
    BY <1>3 DEF TestBegins, Flushed
  <2>2. rx' \in [Ports -> Seq(Bytes)] /\ rx'[port] = <<>>
    <3>1. <<>> \in Seq(Bytes) BY EmptySeq
    <3> QED BY <2>1, <3>1 DEF TestInv
  <2>3. status' # "ESP_OK" BY <2>1
  <2>4. pc' \in Tests => pc' = test BY <2>1 DEF Tests
  <2>5. Len(rx'[port]) = 0 BY <2>2, EmptySeq
  <2> QED BY <1>1, <1>3, <2>2, <2>3, <2>4, <2>5 DEF TestInv, PassedTestIsNew
<1> QED BY <1>2, <1>3

\* A test ends on what it read from the head of the port.
LEMMA EndKeepsTestInv ==
  ASSUME TestInv, TestEnds
  PROVE  TestInv'
<1> DEFINE s == rx[port]
           n == IF Len(s) < ReadCap THEN Len(s) ELSE ReadCap
           text == SubSeq(s, 1, n)
           rest == SubSeq(s, n + 1, Len(s))
<1>1. s \in Seq(Bytes) /\ Len(s) \in Nat /\ n \in 0..Len(s)
  <2>1. s \in Seq(Bytes) BY DEF TestInv
  <2> QED BY <2>1, LenProperties, InterfaceAssumption DEF InterfaceAssumption
<1>2. /\ got' = text /\ rx' = [rx EXCEPT ![port] = rest] /\ pc' = "idle"
      /\ pc \in Tests
      /\ status' = "ESP_OK" => LoopbackPassed(text) \/ AtPassed(text)
      /\ UNCHANGED <<op, port, installed, ops>>
  BY DEF TestEnds
<1>3. /\ \A k \in 1..Len(s) : s[k] \in Bytes
      /\ \A k \in 1..Len(s) : s[k].test = ops
  <2>1. \A k \in 1..Len(s) : s[k] \in Bytes BY <1>1, ElementOfSeq
  <2> QED BY <1>2, <2>1 DEF TestInv
<1>4. rest \in Seq(Bytes)
  <2>1. \A k \in (n + 1)..Len(s) : s[k] \in Bytes BY <1>1, <1>3
  <2> QED BY <1>1, <2>1, SubSeqProperties
<1>5. DOMAIN text = 1..n /\ \A k \in 1..n : text[k] = s[k]
  <2>1. \A k \in 1..n : s[k] \in Bytes BY <1>1, <1>3
  <2> QED BY <1>1, <2>1, SubSeqProperties
<1>6. \A k \in DOMAIN text : text[k].test = ops
  BY <1>1, <1>3, <1>5
<1> HIDE DEF s, n, text, rest
<1>7. PassedTestIsNew'
  <2>1. CASE status' = "ESP_OK"
    <3>1. text # <<>> BY <1>2, <2>1, PassedIsSomething
    <3> QED BY <1>2, <1>6, <3>1 DEF PassedTestIsNew, TestInv
  <2>2. CASE status' # "ESP_OK" BY <2>2 DEF PassedTestIsNew
  <2> QED BY <2>1, <2>2
<1>8. rx' \in [Ports -> Seq(Bytes)] BY <1>2, <1>4 DEF TestInv
<1> QED BY <1>2, <1>7, <1>8 DEF TestInv, Tests

\* A test that passes rests on bytes that came after it began, on a port whose
\* driver is installed: the flush and the judgement of both loopback tests.
THEOREM PassedTest == Spec => []PassedTestIsNew
<1>1. ASSUME TestInv, [Next]_vars PROVE TestInv'
  <2>1. CASE UNCHANGED vars
    BY <1>1, <2>1 DEF vars, TestInv, PassedTestIsNew
  <2> QED BY <1>1, <2>1, InitKeepsTestInv, ArrivesKeepsTestInv, BeginKeepsTestInv,
             EndKeepsTestInv DEF Next
<1>2. TestInv => PassedTestIsNew
  BY DEF TestInv
<1> QED BY <1>1, <1>2, TestInvInit, PTL DEF Spec
================================================================================
