-------------------------------- MODULE AtPort --------------------------------
(***************************************************************************)
(* What a call of the AT handler does, seen from the driver above it: it   *)
(* writes a command and reads whole lines off the line, in order, until    *)
(* they complete a response or the time is up.  AtCmdHandler has the loop  *)
(* itself; here a read is one step that takes a number of lines.           *)
(***************************************************************************)
EXTENDS AtResponse, Uart, FiniteSetsExt

CONSTANT ChunkLines   \* lines one chunk of the read loop can bring

ASSUME PortAssumption == ChunkLines \in Nat \ {0}

\* The first n lines complete the response to the command.
Complete(lines, n, name, rtype) == HasCommandTerminated(SubSeq(lines, 1, n), name, rtype)

\* How many lines a call takes that completes: the last chunk may bring lines
\* that follow the completing one, and they are lost to later calls.
Reads(lines, name, rtype) ==
  {n \in 1..Len(lines) : /\ Complete(lines, n, name, rtype)
                         /\ \E m \in (n - ChunkLines)..(n - 1) :
                              m >= 0 /\ ~Complete(lines, m, name, rtype)}

\* How many a call may have taken, and lost, when its time is up.
ReadsInVain(lines, name, rtype) ==
  {n \in 0..Len(lines) : ~Complete(lines, n, name, rtype)}

\* How many are lost to a call whose last chunk the response buffer has no room
\* for: that chunk is not looked at.
Overflows(lines, name, rtype) ==
  {n \in 1..Len(lines) : \E m \in ReadsInVain(lines, name, rtype) : n \in (m + 1)..(m + ChunkLines)}

Rest(lines, n) == SubSeq(lines, n + 1, Len(lines))

\* The lines the command's parser can find, each at its position.
OwnLines(lines, name) ==
  Restrict(lines, {k \in DOMAIN lines : lines[k].kind = "line" /\ lines[k].name = name})

\* The one it looks at, if there is one.
First(lines) == lines[Min(DOMAIN lines)]
================================================================================
