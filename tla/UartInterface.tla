----------------------------- MODULE UartInterface -----------------------------
(***************************************************************************)
(* Setting up the UART and testing it (bg95_uart_interface.c): one         *)
(* interface structure, initialised again and again for one port or        *)
(* another, and the loopback and AT tests over it.  Nothing takes an       *)
(* interface down again: there is no deinit for the hardware.              *)
(*                                                                         *)
(* Received bytes are pieces [kind, test]: the two halves of the loopback  *)
(* string, a text with OK or ERROR in it, or noise; "test", the number of  *)
(* the test they arrived in, is seen by properties only.                   *)
(***************************************************************************)
EXTENDS Uart, Sequences

CONSTANTS
  Ports,        \* UART ports of the chip
  ReadCap,      \* pieces the receive buffer of a test holds
  MaxOps,       \* bound: initialisations and tests in a behaviour
  MaxPieces     \* bound: pieces received

ASSUME InterfaceAssumption ==
  Ports # {} /\ ReadCap \in Nat \ {0} /\ MaxOps \in Nat /\ MaxPieces \in Nat

VARIABLES
  pc,           \* "idle", or the test that waits for its answer: "loopback", "at"
  op,           \* the last operation: "none", "init", "loopback" or "at"
  status,       \* what it returned
  ready,        \* interface->write and read are set
  port,         \* interface->uart_num
  installed,    \* ports whose driver is installed
  configured,   \* ports whose parameters and pins are set
  rx,           \* what each port received and nobody has read
  ops, pieces,
  got,          \* ghost: what the last test read
  worked,       \* ghost: ports some initialisation returned ESP_OK for
  leaked        \* ghost: ports whose initialisation failed at the buffer size

vars == <<pc, op, status, ready, port, installed, configured, rx, ops, pieces,
          got, worked, leaked>>

Kinds == {"half1", "half2", "ok", "error", "noise"}
Tests == {"loopback", "at"}

Init ==
  /\ pc = "idle" /\ op = "none" /\ status = "none"
  /\ ready = FALSE /\ port \in Ports
  /\ installed = {} /\ configured = {}
  /\ rx = [p \in Ports |-> <<>>]
  /\ ops = 0 /\ pieces = 0
  /\ got = <<>> /\ worked = {} /\ leaked = {}

-------------------------------------------------------------------------------
(* Initialisation: bg95_uart_interface_init_hw.                                *)

\* The structure is cleared and filled in before anything can fail.
Enter(p) ==
  /\ pc = "idle" /\ ops < MaxOps
  /\ ops' = ops + 1 /\ op' = "init"
  /\ ready' = TRUE /\ port' = p
  /\ UNCHANGED <<pc, pieces, got>>

\* Mutant of InstallFails: the driver is deleted on every failure.
InstallFailsAndDeletes(p) ==
  /\ Enter(p)
  /\ status' = "ESP_FAIL" /\ installed' = installed \ {p}
  /\ UNCHANGED <<configured, rx, worked, leaked>>

\* No memory, or the driver is installed already.
InstallFails(p) ==
  /\ Enter(p)
  /\ status' = "ESP_FAIL"
  /\ UNCHANGED <<installed, configured, rx, worked, leaked>>

\* The size of the transmit buffer cannot be read: the driver stays.
SizeFails(p) ==
  /\ Enter(p) /\ p \notin installed
  /\ status' = "ESP_FAIL"
  /\ installed' = installed \cup {p} /\ leaked' = leaked \cup {p}
  /\ UNCHANGED <<configured, rx, worked>>

\* Mutant of SetUpFails: the driver stays.
SetUpFailsUndeleted(p) ==
  /\ Enter(p) /\ p \notin installed
  /\ status' = "ESP_FAIL" /\ installed' = installed \cup {p}
  /\ UNCHANGED <<configured, rx, worked, leaked>>

\* The parameters or the pins cannot be set: the driver is deleted.
SetUpFails(p) ==
  /\ Enter(p) /\ p \notin installed
  /\ status' = "ESP_FAIL"
  /\ UNCHANGED <<installed, configured, rx, worked, leaked>>

\* Mutant of Flushed: what was received stays.
FlushedNot(received) == received

\* uart_flush.
Flushed(received) == <<>>

InitSucceeds(p) ==
  /\ Enter(p) /\ p \notin installed
  /\ status' = "ESP_OK"
  /\ installed' = installed \cup {p} /\ configured' = configured \cup {p}
  /\ rx' = [rx EXCEPT ![p] = Flushed(@)]
  /\ worked' = worked \cup {p}
  /\ UNCHANGED leaked

InitHw(p) == InstallFails(p) \/ SizeFails(p) \/ SetUpFails(p) \/ InitSucceeds(p)

-------------------------------------------------------------------------------
(* The tests, on an interface that some initialisation has filled in.          *)

\* Flush and write.  On a port without a driver neither does anything, and the
\* write fails.
TestBegins(test) ==
  /\ pc = "idle" /\ ops < MaxOps /\ ready
  /\ ops' = ops + 1 /\ op' = test /\ got' = <<>>
  /\ \/ /\ port \notin installed
        /\ status' = "ESP_FAIL"
        /\ UNCHANGED <<pc, rx>>
     \/ /\ port \in installed
        /\ \E w \in HwWriteOutcomes :
             /\ rx' = [rx EXCEPT ![port] = IF w.flushed THEN <<>> ELSE Flushed(@)]
             /\ pc' = IF w.err = "ESP_OK" THEN test ELSE "idle"
             /\ status' = IF w.err = "ESP_OK" THEN "none" ELSE w.err
  /\ UNCHANGED <<ready, port, installed, configured, pieces, worked, leaked>>

\* The loopback test wants its own bytes and nothing else.
LoopbackPassed(text) ==
  Len(text) = 2 /\ text[1].kind = "half1" /\ text[2].kind = "half2"

\* The AT test wants the letters OK.
AtPassed(text) == \E k \in DOMAIN text : text[k].kind = "ok"

\* What arrived within a second, or fills the buffer, is read and judged.
TestEnds ==
  /\ pc \in Tests
  /\ LET n == IF Len(rx[port]) < ReadCap THEN Len(rx[port]) ELSE ReadCap
         text == SubSeq(rx[port], 1, n)
     IN  /\ got' = text
         /\ rx' = [rx EXCEPT ![port] = SubSeq(@, n + 1, Len(@))]
         /\ status' = IF IF pc = "loopback" THEN LoopbackPassed(text) ELSE AtPassed(text)
                      THEN "ESP_OK" ELSE "ESP_FAIL"
  /\ pc' = "idle"
  /\ UNCHANGED <<op, ready, port, installed, configured, ops, pieces, worked, leaked>>

-------------------------------------------------------------------------------
(* The other end of the line (external): anything, at any time.                *)

Arrives(p) ==
  /\ pieces < MaxPieces /\ p \in installed
  /\ pieces' = pieces + 1
  /\ \E kind \in Kinds : rx' = [rx EXCEPT ![p] = Append(@, [kind |-> kind, test |-> ops])]
  /\ UNCHANGED <<pc, op, status, ready, port, installed, configured, ops, got, worked, leaked>>

-------------------------------------------------------------------------------
Next == \/ \E p \in Ports : InitHw(p) \/ Arrives(p)
        \/ \E test \in Tests : TestBegins(test)
        \/ TestEnds

Spec == Init /\ [][Next]_vars

-------------------------------------------------------------------------------
(* Properties.                                                                 *)

\* What works keeps working: a port whose initialisation once returned ESP_OK
\* stays installed and set up, whatever initialisations, of this port or others,
\* are tried and fail at whatever point afterwards.
WorkingStaysWorking == worked \subseteq installed \cap configured

\* A failed initialisation leaves no driver behind that would make a later one
\* fail, with the one exception the code makes.
FailedInitIsUndone == installed \subseteq worked \cup leaked

\* A test that passes tells of the line as it is now: it rests on bytes that
\* came after it began, none left over from before, and on a driver that is
\* installed; after a failed initialisation the functions are set all the same.
PassedTestIsNew ==
  pc = "idle" /\ op \in Tests /\ status = "ESP_OK" =>
    /\ got # <<>> /\ \A k \in DOMAIN got : got[k].test = ops
    /\ port \in installed
================================================================================
