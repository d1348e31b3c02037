------------------------------ MODULE Bg95Network ------------------------------
(***************************************************************************)
(* Power, restart and the way onto the network: the calls of               *)
(* src/src/bg95/bg95_driver.c that are sequences of AT commands, through   *)
(* the AT handler to the module, whose power key turns it on or off.       *)
(*                                                                         *)
(* Each command may be answered late, after its call has given up: the     *)
(* answer then stands before that of the next command.                     *)
(***************************************************************************)
EXTENDS AtPort

CONSTANTS
  Ops,          \* the calls the application makes
  Cids,         \* PDP context ids it uses
  MaxCalls,     \* bound: calls in a behaviour
  MaxDrops      \* bound: contexts the network takes down

AllOps == {"init", "connect", "soft_restart", "define", "activate", "is_active",
           "address", "sim", "signal", "quality", "operator"}

CgactMaxNumContexts == 15
CidMin == 1
CidMax == 15

ASSUME NetworkAssumption ==
  /\ Ops \subseteq AllOps /\ Cids \subseteq 0..255 /\ 1 \in Cids
  /\ MaxCalls \in Nat /\ MaxDrops \in Nat

\* The commands of a call, in order.  bg95_init probes, and probes again if it
\* had to use the power key.
ConnectProgram == <<"CPIN", "QCSQ", "COPS", "CGDCONT", "CFUN0", "CFUN1", "CGACT", "CGPADDR">>
\* Mutant of RestartProgram: the two functionality levels swapped.
RestartProgramSwapped == <<"CFUN1", "CFUN0">>
RestartProgram == <<"CFUN0", "CFUN1">>
Program ==
  [init         |-> <<"AT", "AT">>,
   connect      |-> ConnectProgram,
   soft_restart |-> RestartProgram,
   define       |-> <<"CGDCONT">>,
   activate     |-> <<"CGACT">>,
   is_active    |-> <<"CGACT?">>,
   address      |-> <<"CGPADDR">>,
   sim          |-> <<"CPIN">>,
   signal       |-> <<"QCSQ">>,
   quality      |-> <<"CSQ">>,
   operator     |-> <<"COPS">>]

\* The name its answer starts with, and its response type.
Name(c)  == IF c = "CGACT?" THEN "CGACT" ELSE c
RType(c) == IF c \in {"AT", "CGDCONT", "CFUN0", "CFUN1", "CGACT"} THEN "SIMPLE_ONLY"
                                                                  ELSE "DATA_REQUIRED"

VARIABLES
  pc,           \* "idle", or in a call: "issue", "read", "raise" or "lower"
  op, cid, step,\* the current or last call, its context, how far it is
  sent,         \* its last command
  initialized,  \* handle->initialized
  alive,        \* the interface's port has a driver; its functions are set anyway
  pin,          \* the power key: "low", "high" in a pulse, or "held" since an earlier one
  status,       \* what the last call returned
  told,         \* what its last answer said: [value, id], id of the command answered
  tx, rx,       \* commands written, lines received
  power, radio, \* the module: on or off, full or minimum functionality
  pdp,          \* its contexts: "undefined", "defined" or "active"
  calls, nextId, drops,
  debt          \* ghost: some command the module may still answer was given up

driver == <<pc, op, cid, step, sent, initialized, alive, pin, status, told, calls, nextId, debt>>
module == <<power, radio, pdp, drops>>
vars   == <<driver, tx, rx, module>>

NothingTold == [value |-> "nothing", id |-> 0]
NoCommand   == [name |-> "none", cid |-> 0, id |-> 0]

\* The driver was initialised with the module on, or is not yet, and perhaps
\* cannot be: bg95_uart_interface_init_hw sets the functions before it can fail.
Init ==
  /\ pc = "idle" /\ op = "none" /\ cid = 1 /\ step = 0 /\ sent = NoCommand
  /\ initialized \in BOOLEAN
  /\ alive \in {TRUE, initialized}
  /\ pin = "low"
  /\ status = "none" /\ told = NothingTold
  /\ tx = <<>> /\ rx = <<>>
  /\ power \in IF initialized THEN {"on"} ELSE {"on", "off"}
  /\ radio = "full"
  /\ pdp \in [Cids -> {"undefined", "defined", "active"}]
  /\ \A c \in Cids \ (CidMin..CidMax) : pdp[c] = "undefined"
  /\ power = "off" => \A c \in Cids : pdp[c] # "active"
  /\ calls = 0 /\ nextId = 1 /\ drops = 0
  /\ debt = FALSE

-------------------------------------------------------------------------------
(* The response parsers, for the lines of the command's name that were read.   *)

\* What a parser makes of them: an error, or a value and the command answered.
Parsed(err, value, id) == [err |-> err, value |-> value, id |-> id]
Nothing(err) == Parsed(err, "nothing", 0)

\* The first line, if its value is one the parser knows.
FirstLine(lines, known) ==
  IF DOMAIN lines = {} \/ First(lines).value \notin known
  THEN Nothing("ESP_ERR_INVALID_RESPONSE")
  ELSE Parsed("ESP_OK", First(lines).value, First(lines).id)

CpinParser(lines) == FirstLine(lines, {"READY", "SIM PIN"})
QcsqParser(lines) == FirstLine(lines, {"NOSERVICE", "eMTC"})
\* +CSQ: a number out of range is taken for 99, unknown.
CsqParser(lines)  == FirstLine(lines, {"level", "unknown"})
CopsParser(lines) == FirstLine(lines, {"operator", "no operator"})

\* What bg95_get_signal_quality_dbm makes of it.
QualityResult(lines) ==
  LET p == CsqParser(lines)
  IN  IF p.value = "unknown" THEN Nothing("ESP_ERR_NOT_FOUND") ELSE p

\* The context +CGPADDR speaks of and its address, which may be empty.
CgpaddrParser(lines) == FirstLine(lines, {"address", "empty"})

\* Mutant of AddressResult: an empty address is an address.
AddressResultAnyway(lines, c) == CgpaddrParser(lines)

\* What bg95_get_pdp_address_for_cid makes of it.
AddressResult(lines, c) ==
  LET p == CgpaddrParser(lines)
  IN  IF p.err # "ESP_OK" THEN p
      ELSE IF First(lines).cid # c THEN Nothing("ESP_ERR_INVALID_RESPONSE")
      ELSE IF p.value = "empty" THEN Nothing("ESP_ERR_NOT_FOUND") ELSE p

\* The +CGACT lines, one per context, those with an id out of range dropped.
CgactParser(lines) ==
  Restrict(lines, {k \in DOMAIN lines : lines[k].cid < CgactMaxNumContexts})

\* Mutant of ActiveResult: the first context is taken for the one asked for.
ActiveResultOfFirst(lines, c) == FirstLine(lines, {"active", "inactive"})

\* What bg95_is_pdp_context_active makes of them.
ActiveResult(lines, c) ==
  LET listed == CgactParser(lines)
      own    == Restrict(listed, {k \in DOMAIN listed : listed[k].cid = c})
  IN  IF DOMAIN own = {} THEN Nothing("ESP_ERR_NOT_FOUND")
                         ELSE Parsed("ESP_OK", First(own).value, First(own).id)

\* The parser of the command s, and what its caller makes of the result.
ParserOf(s, lines) ==
  CASE s.name = "CPIN"    -> CpinParser(lines)
    [] s.name = "QCSQ"    -> QcsqParser(lines)
    [] s.name = "CSQ"     -> QualityResult(lines)
    [] s.name = "COPS"    -> CopsParser(lines)
    [] s.name = "CGPADDR" -> AddressResult(lines, s.cid)
    [] s.name = "CGACT?"  -> ActiveResult(lines, s.cid)

\* What the command s answered with these lines amounts to.
Judge(s, lines) ==
  IF ~BasicResponseIsOk(lines) THEN Nothing("ESP_FAIL")
  ELSE IF RType(s.name) = "SIMPLE_ONLY" THEN Nothing("ESP_OK")
  ELSE IF ~HasDataResponse(lines) THEN Nothing("ESP_ERR_INVALID_RESPONSE")
  ELSE ParserOf(s, OwnLines(lines, Name(s.name)))

-------------------------------------------------------------------------------
(* The calls.                                                                  *)

\* The code a call makes of its command's failure.
OpErr(c, err) == IF op = "init" THEN "ESP_ERR_TIMEOUT"
                 ELSE IF c \in {"CFUN0", "CFUN1"} THEN "ESP_FAIL" ELSE err

Done(err, t) ==
  /\ pc' = "idle" /\ status' = err /\ told' = t
  /\ initialized' = IF op = "init" THEN err = "ESP_OK" ELSE initialized
  /\ UNCHANGED <<op, cid, step>>

\* The last command ended with j: on to the next one, to the power key, or out.
StepEnds(c, j) ==
  IF j.err = "ESP_OK" /\ op # "init" /\ step < Len(Program[op])
  THEN /\ pc' = "issue" /\ step' = step + 1
       /\ told' = [value |-> j.value, id |-> j.id]
       /\ UNCHANGED <<op, cid, initialized, status>>
  ELSE IF j.err # "ESP_OK" /\ op = "init" /\ step = 1
  THEN pc' = "raise" /\ UNCHANGED <<op, cid, step, initialized, status, told>>
  ELSE Done(IF j.err = "ESP_OK" THEN j.err ELSE OpErr(c, j.err),
            [value |-> j.value, id |-> j.id])

\* The application calls; bg95_init, which clears the handle, comes first.
Begin(o) ==
  /\ pc = "idle" /\ o \in Ops /\ calls < MaxCalls
  /\ ~initialized /\ op = "none" => o = "init"
  /\ op' = o /\ step' = 1 /\ pc' = "issue" /\ calls' = calls + 1
  /\ cid' \in IF o \in {"define", "activate", "is_active", "address"} THEN Cids ELSE {1}
  /\ initialized' = (initialized /\ o # "init")
  /\ status' = "none" /\ told' = NothingTold
  /\ UNCHANGED <<sent, alive, pin, tx, rx, module, nextId, debt>>

\* Mutant of Refused: the formatter of CGACT does not check the context.
RefusedButCgact(c) ==
  \/ c \in {"QCSQ", "CSQ", "COPS", "CGDCONT", "CGACT"} /\ ~initialized
  \/ c \in {"CGDCONT", "CGPADDR"} /\ cid \notin CidMin..CidMax

\* The arguments a command is refused with, by the call or by its formatter.
Refused(c) ==
  \/ c \in {"QCSQ", "CSQ", "COPS", "CGDCONT", "CGACT"} /\ ~initialized
  \/ c \in {"CGDCONT", "CGPADDR"} /\ cid \notin CidMin..CidMax
  \/ c = "CGACT" /\ cid > CgactMaxNumContexts

\* On a port without a driver the size of the transmit buffer cannot be read.
WriteOutcomes ==
  IF alive THEN HwWriteOutcomes ELSE {[sent |-> FALSE, flushed |-> FALSE, err |-> "ESP_FAIL"]}

\* The next command of the call is refused, or written.
Issue ==
  /\ pc = "issue"
  /\ LET c == Program[op][step]
         s == [name |-> c, cid |-> cid, id |-> nextId]
     IN  \/ /\ Refused(c)
            /\ Done("ESP_ERR_INVALID_ARG", NothingTold)
            /\ UNCHANGED <<sent, nextId, tx, rx, debt>>
         \/ /\ ~Refused(c)
            /\ sent' = s /\ nextId' = nextId + 1
            /\ \E w \in WriteOutcomes :
                 /\ tx' = IF w.sent THEN Append(tx, s) ELSE tx
                 /\ rx' = IF w.flushed THEN <<>> ELSE rx
                 /\ debt' = (debt \/ w.err = "ESP_ERR_TIMEOUT")
                 /\ IF w.err = "ESP_OK"
                    THEN pc' = "read" /\ UNCHANGED <<op, cid, step, initialized, status, told>>
                    ELSE StepEnds(c, Nothing(w.err))
  /\ UNCHANGED <<module, alive, pin, calls>>

\* GPIO or handler set-up fails before the first probe.
SetUpFails ==
  /\ pc = "issue" /\ op = "init" /\ step = 1
  /\ Done("ESP_ERR_INVALID_ARG", NothingTold)
  /\ UNCHANGED <<sent, alive, pin, nextId, debt, calls, tx, rx, module>>

\* The command completes.
Finish ==
  /\ pc = "read"
  /\ \E n \in Reads(rx, Name(sent.name), RType(sent.name)) :
       /\ StepEnds(sent.name, Judge(sent, SubSeq(rx, 1, n)))
       /\ rx' = Rest(rx, n)
  /\ UNCHANGED <<sent, alive, pin, nextId, debt, calls, tx, module>>

\* Its time is up, its response is too long, or there is no memory to read one.
GiveUp ==
  /\ pc = "read"
  /\ \/ /\ \E n \in ReadsInVain(rx, Name(sent.name), RType(sent.name)) : rx' = Rest(rx, n)
        /\ StepEnds(sent.name, Nothing("ESP_ERR_TIMEOUT"))
     \/ /\ \E n \in Overflows(rx, Name(sent.name), RType(sent.name)) : rx' = Rest(rx, n)
        /\ StepEnds(sent.name, Nothing("ESP_ERR_INVALID_SIZE"))
     \/ /\ StepEnds(sent.name, Nothing("ESP_ERR_NO_MEM"))
        /\ rx' = rx
  /\ debt' = (debt \/ power = "on")
  /\ UNCHANGED <<sent, alive, pin, nextId, calls, tx, module>>

\* The power key turns a module that is on off, and one that is off on, if it
\* boots; what it had not yet read is lost.
PowerKey ==
  /\ power' \in IF power = "on" THEN {"off"} ELSE {"on", "off"}
  /\ radio' = "full"
  /\ pdp' = [c \in Cids |-> IF pdp[c] = "active" THEN "defined" ELSE pdp[c]]
  /\ tx' = <<>>

\* What a pulse does: a pin that was held already may give no new edge.
Pressed == PowerKey \/ (pin = "held" /\ UNCHANGED <<power, radio, pdp, tx>>)

\* bg95_init uses the power key: raises the pin, or cannot ...
Raise ==
  /\ pc = "raise"
  /\ \/ /\ pc' = "lower"
        /\ pin' = IF pin = "low" THEN "high" ELSE pin
        /\ UNCHANGED <<op, cid, step, initialized, status, told>>
     \/ /\ Done("ESP_ERR_INVALID_ARG", NothingTold)
        /\ pin' = pin
  /\ UNCHANGED <<sent, alive, nextId, debt, calls, tx, rx, module>>

\* Mutant of Lower: the pulse is taken to have worked.
LowerAndHope ==
  /\ pc = "lower"
  /\ Pressed
  /\ pin' = "low"
  /\ Done("ESP_OK", NothingTold)
  /\ UNCHANGED <<sent, alive, nextId, debt, calls, rx, drops>>

\* ... and 750 ms later lowers it again, then probes the module again ...
Lower ==
  /\ pc = "lower"
  /\ Pressed
  /\ pin' = "low"
  /\ pc' = "issue" /\ step' = 2
  /\ UNCHANGED <<op, cid, sent, initialized, alive, status, told, nextId, debt, calls, rx, drops>>

\* Mutant of LowerFails: the error is not looked at.
LowerFailsUnnoticed ==
  /\ pc = "lower"
  /\ Pressed
  /\ pin' = "held"
  /\ pc' = "issue" /\ step' = 2
  /\ UNCHANGED <<op, cid, sent, initialized, alive, status, told, nextId, debt, calls, rx, drops>>

\* ... or cannot, and returns with the pin high.
LowerFails ==
  /\ pc = "lower"
  /\ Pressed
  /\ pin' = "held"
  /\ Done("ESP_ERR_INVALID_ARG", NothingTold)
  /\ UNCHANGED <<sent, alive, nextId, debt, calls, rx, drops>>

-------------------------------------------------------------------------------
(* The module (external).                                                      *)

Line(kind, s, c, value) ==
  [kind |-> kind, name |-> Name(s.name), cid |-> c, value |-> value, id |-> s.id]
Ok(s)    == Line("ok", s, s.cid, "nothing")
Fault(s) == Line("error", s, s.cid, "nothing")

Shown(state) == IF state = "active" THEN "active" ELSE "inactive"

\* The lines +CGACT of the contexts that are defined, in order.
ContextLines(s) ==
  LET known    == {c \in Cids : pdp[c] # "undefined"}
      nth(k)   == CHOOSE c \in known : Cardinality({b \in known : b < c}) = k - 1
  IN  [k \in 1..Cardinality(known) |-> Line("line", s, nth(k), Shown(pdp[nth(k)]))]

\* What it may say of the SIM, the signal and the operator.
News(name) == {"odd"} \cup CASE name = "CPIN" -> {"READY", "SIM PIN"}
                              [] name = "QCSQ" -> {"NOSERVICE", "eMTC"}
                              [] name = "CSQ"  -> {"level", "unknown"}
                              [] name = "COPS" -> {"operator", "no operator"}

\* What it answers when it does what it is told, and what changes by it.
Obeys(s) ==
  \/ /\ s.name = "AT"
     /\ rx' = Append(rx, Ok(s)) /\ UNCHANGED <<radio, pdp>>
  \/ /\ s.name \in {"CPIN", "QCSQ", "CSQ", "COPS"}
     /\ \E v \in News(s.name) : rx' = rx \o <<Line("line", s, s.cid, v), Ok(s)>>
     /\ UNCHANGED <<radio, pdp>>
  \/ /\ s.name = "CGDCONT"
     /\ pdp' = [pdp EXCEPT ![s.cid] = IF @ = "undefined" THEN "defined" ELSE @]
     /\ rx' = Append(rx, Ok(s)) /\ UNCHANGED radio
  \/ /\ s.name = "CFUN0"
     /\ radio' = "minimum"
     /\ pdp' = [c \in Cids |-> IF pdp[c] = "active" THEN "defined" ELSE pdp[c]]
     /\ rx' = Append(rx, Ok(s))
  \/ /\ s.name = "CFUN1"
     /\ radio' = "full" /\ rx' = Append(rx, Ok(s)) /\ UNCHANGED pdp
  \/ /\ s.name = "CGACT"
     /\ radio = "full" /\ pdp[s.cid] # "undefined"
     /\ pdp' = [pdp EXCEPT ![s.cid] = "active"]
     /\ rx' = Append(rx, Ok(s)) /\ UNCHANGED radio
  \/ /\ s.name = "CGACT?"
     /\ rx' = (rx \o ContextLines(s)) \o <<Ok(s)>> /\ UNCHANGED <<radio, pdp>>
  \/ /\ s.name = "CGPADDR"
     /\ rx' = rx \o <<Line("line", s, s.cid, IF pdp[s.cid] = "active" THEN "address"
                                                                   ELSE "empty"), Ok(s)>>
     /\ UNCHANGED <<radio, pdp>>

\* It takes up the next command: does it, refuses it, or loses the answer.
ModuleTakes ==
  /\ power = "on" /\ tx # <<>>
  /\ tx' = Tail(tx)
  /\ \/ Obeys(Head(tx))
     \/ rx' \in {rx, Append(rx, Fault(Head(tx)))} /\ UNCHANGED <<radio, pdp>>
  /\ UNCHANGED <<driver, power, drops>>

\* The network takes a context down.
NetworkDrops ==
  /\ drops < MaxDrops /\ drops' = drops + 1
  /\ \E c \in Cids : pdp[c] = "active" /\ pdp' = [pdp EXCEPT ![c] = "defined"]
  /\ UNCHANGED <<driver, tx, rx, power, radio>>

-------------------------------------------------------------------------------
Next == \/ \E o \in Ops : Begin(o)
        \/ Issue \/ SetUpFails \/ Finish \/ GiveUp
        \/ Raise \/ Lower \/ LowerFails
        \/ ModuleTakes \/ NetworkDrops

Spec == Init /\ [][Next]_vars

-------------------------------------------------------------------------------
(* Properties.                                                                 *)

Returned(o) == pc = "idle" /\ op = o
Succeeded(o) == Returned(o) /\ status = "ESP_OK"

\* The types; the steps stay within the call's commands, and contexts that are
\* active have a module that is on.
TypeOK ==
  /\ pc \in {"idle", "issue", "read", "raise", "lower"}
  /\ pin \in {"low", "high", "held"} /\ (pin = "high" => pc = "lower")
  /\ op \in Ops \cup {"none"} /\ cid \in Cids \cup {1}
  /\ pc # "idle" => step \in 1..Len(Program[op])
  /\ power \in {"on", "off"} /\ radio \in {"full", "minimum"}
  /\ pdp \in [Cids -> {"undefined", "defined", "active"}]
  /\ power = "off" => \A c \in Cids : pdp[c] # "active"
  /\ \A k \in DOMAIN tx : tx[k].name \in {"CGDCONT", "CGACT", "CGPADDR"} => tx[k].cid <= CidMax

\* "Verify IP address assignment" (bg95_connect_to_network): when it succeeds,
\* the module gave the address in answer to the verification of this very call,
\* though commands before it were given up and are answered late: an older
\* address is read on the way, unless it stands behind late answers to all the
\* commands before the verification, which takes more calls than these.
ConnectedHasAddress ==
  calls <= Len(ConnectProgram) /\ Succeeded("connect") =>
    told = [value |-> "address", id |-> sent.id]

\* If no command was given up, bg95_soft_restart succeeds only when the module
\* is back at full functionality and every context was taken down.
RestartTakesEffect ==
  ~debt /\ Succeeded("soft_restart") =>
    radio = "full" /\ \A c \in Cids : pdp[c] # "active"

\* If no command was given up, a context bg95_is_pdp_context_active has no state
\* for, or calls inactive, is not active, though it reads every line it is told;
\* except the last of the contexts 1 to 15, which its array does not hold.
ActiveIsFound ==
  ~debt /\ Returned("is_active") /\ cid < CgactMaxNumContexts
    /\ (status = "ESP_ERR_NOT_FOUND" \/ told.value = "inactive")
  => pdp[cid] # "active"

\* An initialisation that used the power key and succeeds has released it: a pin
\* that cannot be lowered is never passed over.
KeyIsReleased == Succeeded("init") /\ step = 2 => pin = "low"

\* If no command that could still be answered was given up, a driver that has
\* just been initialised faces a module that is on, over a UART that works; the
\* test that the interface has its functions does not tell.
InitMeansOnUnlessLate == ~debt /\ Succeeded("init") => power = "on" /\ alive

\* "Only mark as initialized if the module is responsive" (bg95_init): the same
\* of a module that may be slow to answer.
InitMeansOn == Succeeded("init") => power = "on"
================================================================================
