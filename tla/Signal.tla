-------------------------------- MODULE Signal --------------------------------
(***************************************************************************)
(* Signal strength: AT+CSQ and AT+QCSQ, from the numbers of the modem's    *)
(* line to what the driver's calls report, and the conversion back from    *)
(* dBm (at_cmd_csq.c, at_cmd_qcsq.c).                                      *)
(***************************************************************************)
EXTENDS Integers, Sequences

RssiMax     == 31
BerMax      == 7
Unknown     == 99        \* CSQ_RSSI_UNKNOWN, CSQ_BER_UNKNOWN
NotANumber  == 100000    \* a field in which sscanf finds no number

RssiToDbm(rssi) ==
  CASE rssi = 0       -> -113
    [] rssi = 1       -> -111
    [] rssi \in 2..30 -> -109 + (rssi - 2) * 2
    [] rssi = 31      -> -51
    [] OTHER          -> 0

\* Mutant of DbmToRssi: the range of the formula begins one step late.
DbmToRssiLate(dbm) ==
  CASE dbm <= -113         -> 0
    [] dbm = -111          -> 1
    [] dbm \in -109..(-53) -> 2 + (dbm + 107) \div 2
    [] dbm >= -51          -> 31
    [] OTHER               -> Unknown

\* Nothing is converted to -112, -110 or -52 dBm, which read as unknown.
DbmToRssi(dbm) ==
  CASE dbm <= -113         -> 0
    [] dbm = -111          -> 1
    [] dbm \in -109..(-53) -> 2 + (dbm + 109) \div 2
    [] dbm >= -51          -> 31
    [] OTHER               -> Unknown

\* The number of leading fields sscanf can read, of at most n.
Matched(fields, n) ==
  LET read == {k \in 0..n : k <= Len(fields) /\ \A i \in 1..k : fields[i] # NotANumber}
  IN  CHOOSE k \in read : \A j \in read : j <= k

\* +CSQ: <rssi>,<ber>: a number that means nothing is taken for unknown.
CsqExecuteParser(fields) ==
  IF Matched(fields, 2) < 2 THEN [err |-> "ESP_ERR_INVALID_RESPONSE"]
  ELSE [err  |-> "ESP_OK",
        rssi |-> IF fields[1] \in 0..RssiMax THEN fields[1] ELSE Unknown,
        ber  |-> IF fields[2] \in 0..BerMax THEN fields[2] ELSE Unknown]

\* bg95_get_signal_quality_dbm: what it returns and, after an answer, leaves in
\* *rssi_dbm: 0 dBm, a very strong signal, for an unknown one.
SignalQualityDbm(fields) ==
  LET p == CsqExecuteParser(fields)
  IN  IF p.err # "ESP_OK" THEN [err |-> p.err]
      ELSE [err |-> IF p.rssi = Unknown THEN "ESP_ERR_NOT_FOUND" ELSE "ESP_OK",
            dbm |-> RssiToDbm(p.rssi)]

-------------------------------------------------------------------------------
SysModes == {"NOSERVICE", "GSM", "eMTC", "NBIoT"}

\* The values +QCSQ has in a mode: a signal strength, or all four.
ValuesOf == [m \in SysModes |-> CASE m = "NOSERVICE" -> 0 [] m = "GSM" -> 1 [] OTHER -> 4]

Int16(n) == ((n + 32768) % 65536) - 32768

\* +QCSQ: <sysmode>,...: as many of the mode's values as can be read.
QcsqExecuteParser(mode, fields) ==
  IF mode \notin SysModes THEN [err |-> "ESP_ERR_INVALID_RESPONSE"]
  ELSE [err |-> "ESP_OK", mode |-> mode,
        values |-> [i \in 1..Matched(fields, ValuesOf[mode]) |-> Int16(fields[i])]]
================================================================================
