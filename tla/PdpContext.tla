------------------------------ MODULE PdpContext ------------------------------
(***************************************************************************)
(* AT+CGDCONT: the fields a PDP context is written with, and what is made  *)
(* of the fields it is listed with (at_cmd_cgdcont.c).  Every field after  *)
(* the context id is optional, to be known by its position alone.          *)
(*                                                                         *)
(* A PDP type is its enumerator, or UnknownType; an APN and an address are *)
(* their lengths; NotGiven is a field whose present flag is not set.       *)
(***************************************************************************)
EXTENDS MqttCommands

NotGiven    == -1
PdpTypes    == 0..4
UnknownType == 5
StringMax   == 127       \* apn and pdp_addr, without the NUL
MaxContexts == 15
DataComps   == 0..2
HeadComps   == 0..4
Ipv4Allocs  == {0}

TypeNameLen == [t \in PdpTypes |-> <<2, 3, 4, 6, 6>>[t + 1]]

Text(v)   == [quoted |-> TRUE, val |-> v]
Num(v)    == [quoted |-> FALSE, val |-> v]
Given(v)  == v # NotGiven

-------------------------------------------------------------------------------
(* The write formatter.                                                        *)

\* A field that is given; a placeholder if fields after it need one.
Field(v, field, needed, placeholder) ==
  IF Given(v) THEN <<field>> ELSE IF needed THEN <<placeholder>> ELSE <<>>

\* Mutant of ContextFields: no placeholder for the address.
ContextFieldsNoAddress(p) ==
  IF ~Given(p.type) THEN <<Num(p.cid)>>
  ELSE <<Num(p.cid), Text(IF p.type \in PdpTypes THEN p.type ELSE 0)>>
         \o Field(p.apn, Text(p.apn), TRUE, Text(0))
         \o Field(p.addr, Text(p.addr), FALSE, Text(0))
         \o Field(p.data, Num(p.data), Given(p.addr), Num(0))
         \o Field(p.head, Num(p.head), Given(p.data), Num(0))
         \o Field(p.ipv4, Num(p.ipv4), FALSE, Num(0))

\* What is written: an id alone undefines the context, a type that is none of
\* the five is written as IP, and each later field sees only to the one before.
ContextFields(p) ==
  IF ~Given(p.type) THEN <<Num(p.cid)>>
  ELSE <<Num(p.cid), Text(IF p.type \in PdpTypes THEN p.type ELSE 0)>>
         \o Field(p.apn, Text(p.apn), TRUE, Text(0))
         \o Field(p.addr, Text(p.addr), Given(p.apn), Text(0))
         \o Field(p.data, Num(p.data), Given(p.addr), Num(0))
         \o Field(p.head, Num(p.head), Given(p.data), Num(0))
         \o Field(p.ipv4, Num(p.ipv4), FALSE, Num(0))

\* Bytes of the k-th of them, its separator included.
FieldLen(fields, k) ==
  IF ~fields[k].quoted THEN Number(fields[k].val)
  ELSE Quoted(IF k = 2 THEN TypeNameLen[fields[k].val] ELSE fields[k].val)

FieldsLen(fields) ==
  LET UpTo[k \in 0..Len(fields)] == IF k = 0 THEN 0 ELSE UpTo[k - 1] + FieldLen(fields, k)
  IN  UpTo[Len(fields)]

CgdcontFormat(p) == Formatted(p.cid \notin 1..MaxContexts, FieldsLen(ContextFields(p)))

\* bg95_define_pdp_context: an id, a type and an APN, which strncpy cuts.
DefineContext(a) ==
  IF a.cid \notin 1..MaxContexts THEN Invalid
  ELSE FormatWrite(CmdLen.CGDCONT,
                   CgdcontFormat([cid |-> a.cid, type |-> a.type,
                                  apn |-> IF a.apn > StringMax THEN StringMax ELSE a.apn,
                                  addr |-> NotGiven, data |-> NotGiven,
                                  head |-> NotGiven, ipv4 |-> NotGiven]))

-------------------------------------------------------------------------------
(* The read parser.                                                            *)

\* The k-th field of a line, if it is there, of its kind, and in its range.
FieldAt(line, k, quoted, range) ==
  IF k \in DOMAIN line /\ line[k].quoted = quoted /\ line[k].val \in range
  THEN line[k].val ELSE NotGiven

\* One +CGDCONT line.
ParseContext(line) ==
  [cid  |-> FieldAt(line, 1, FALSE, 0..MaxContexts),
   type |-> FieldAt(line, 2, TRUE, PdpTypes),
   apn  |-> FieldAt(line, 3, TRUE, 0..StringMax),
   addr |-> FieldAt(line, 4, TRUE, 0..StringMax),
   data |-> FieldAt(line, 5, FALSE, DataComps),
   head |-> FieldAt(line, 6, FALSE, HeadComps),
   ipv4 |-> FieldAt(line, 7, FALSE, Ipv4Allocs)]

\* The contexts listed: the first fifteen with an id that fits.
CgdcontReadParser(lines) ==
  LET Listed[n \in 0..Len(lines)] ==
        IF n = 0 THEN <<>>
        ELSE LET c == ParseContext(lines[n])
             IN  IF Given(c.cid) /\ Len(Listed[n - 1]) < MaxContexts
                 THEN Append(Listed[n - 1], c) ELSE Listed[n - 1]
  IN  Listed[Len(lines)]
================================================================================
