------------------------------ MODULE AtResponse ------------------------------
(***************************************************************************)
(* How the AT handler reads a raw response: when it is complete, whether   *)
(* it reports success, and whether the command's own parser is called.     *)
(*                                                                         *)
(* The bytes the modem sends are abstracted to PIECES, the shortest runs   *)
(* of bytes the handler's string searches can tell apart.  A line that a   *)
(* read may cut in two in a way the code can notice is two pieces:         *)
(*                                                                         *)
(*   "ok"      CRLF OK CRLF               "prompt"  the > of QMTPUB        *)
(*   "error"   CRLF ERROR CRLF            "line"    a whole +NAME: line    *)
(*   "cme"     CRLF +CME ERROR:           "cmetail" the code and its CRLF  *)
(*   "head"    CRLF +NAME: fields         "tail"    the CRLF ending it     *)
(*   "echo"    the echoed command         "okecho"  one with OK in a name  *)
(*   "urc"     an unsolicited + line      "urcgt"   the same, with a >     *)
(*   "urcok"   the same, with OK in it                                     *)
(*                                                                         *)
(* A piece is a record [kind, name, id]: the command whose name it carries *)
(* and the call it answers.  The code never sees "id"; only properties do. *)
(***************************************************************************)
EXTENDS Naturals, Sequences

Echoes == {"echo", "okecho"}
Urcs   == {"urc", "urcgt", "urcok"}
Kinds  == {"ok", "error", "cme", "cmetail", "head", "tail", "line", "prompt"}
            \cup Echoes \cup Urcs

\* at_cmd_response_type_t
ResponseTypes == {"SIMPLE_ONLY", "DATA_REQUIRED", "DATA_OPTIONAL"}

\* Pieces a CRLF occurs in, so that strstr(earlier position, CRLF) finds it: a
\* "head" begins with one, before its own +, and ends an earlier line that way.
WithCrlf == Kinds \ {"prompt"}

HasKind(buf, kind) == \E i \in DOMAIN buf : buf[i].kind = kind

\* The search for "+NAME:" succeeds and a CRLF follows the place it is found at.
HasOwnLine(buf, name) ==
  \E i \in DOMAIN buf :
    /\ buf[i].name = name
    /\ \/ buf[i].kind = "line"
       \/ /\ buf[i].kind = "head"
          /\ \E j \in DOMAIN buf : i < j /\ buf[j].kind \in WithCrlf

\* Mutants of the next definition: the command's line is enough; OK is enough.
HasCommandTerminatedOnLine(buf, name, rtype) ==
  HasKind(buf, "error") \/ HasKind(buf, "cme") \/ HasKind(buf, "ok") \/ HasOwnLine(buf, name)
HasCommandTerminatedOnOk(buf, name, rtype) ==
  HasKind(buf, "error") \/ HasKind(buf, "cme") \/ HasKind(buf, "ok")

\* An error marker ends with the CRLF it begins with as far as the code's
\* search goes: for "cme" nothing after the colon need have arrived.
HasCommandTerminated(buf, name, rtype) ==
  \/ HasKind(buf, "error")
  \/ HasKind(buf, "cme")
  \/ /\ HasKind(buf, "ok")
     /\ rtype = "DATA_REQUIRED" => HasOwnLine(buf, name)

\* at_cmd_parse_response: the letters OK anywhere, in a name too, win over ERROR
\* and +CME ERROR anywhere.
WithOk == {"ok", "okecho", "urcok"}
\* Mutant of BasicResponseIsOk: anything but ERROR is a success.
BasicResponseIsNotError(buf) == ~HasKind(buf, "error")

BasicResponseIsOk(buf) == \E i \in DOMAIN buf : buf[i].kind \in WithOk

\* at_cmd_parse_response: some + with a CRLF after it, whoever sent the line.
HasDataResponse(buf) ==
  \E i \in DOMAIN buf :
    \/ buf[i].kind \in Urcs \cup Echoes \cup {"line"}
    \/ /\ buf[i].kind \in {"head", "cme"}
       /\ \E j \in DOMAIN buf : i < j /\ buf[j].kind \in WithCrlf

\* A command's parser looks for its own "+NAME:" line.  Without it the parser
\* of a query fails; that of an MQTT operation reports success and no result.
ParserKinds == {"none", "strict", "lenient"}
ParserResult(buf, name, parser) ==
  IF parser = "strict" /\ ~HasOwnLine(buf, name) THEN "ESP_ERR_INVALID_RESPONSE"
                                                ELSE "ESP_OK"

\* parse_at_cmd_specific_data_response; parser is "none" when the command type
\* has none or the caller passed no place for the data.
SpecificResponse(buf, name, rtype, parser) ==
  IF parser = "none" \/ rtype = "SIMPLE_ONLY" THEN "ESP_OK"
  ELSE IF HasDataResponse(buf) THEN ParserResult(buf, name, parser)
  ELSE IF rtype = "DATA_OPTIONAL" THEN "ESP_OK"
  ELSE "ESP_ERR_INVALID_RESPONSE"

\* Mutant of Verdict: the basic response is not looked at.
VerdictOfData(buf, name, rtype, parser) == SpecificResponse(buf, name, rtype, parser)

\* What the call returns once the response is complete.
Verdict(buf, name, rtype, parser) ==
  IF BasicResponseIsOk(buf) THEN SpecificResponse(buf, name, rtype, parser)
                            ELSE "ESP_FAIL"
================================================================================
