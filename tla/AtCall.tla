--------------------------------- MODULE AtCall ---------------------------------
(***************************************************************************)
(* What the AT handler promises a caller that has it to itself.  A call    *)
(* writes its command and takes, in one step and in order, as much of what *)
(* was received as completes a response, or it gives up with what it took  *)
(* lost.  Nothing is skipped, read twice or left half judged.              *)
(*                                                                         *)
(* The driver's modules are written over calls like these (AtPort), and    *)
(* AtCmdHandlerPort shows that the handler's loops implement them.  Here   *)
(* rx is everything received that no call has consumed: what the current   *)
(* call has collected but not yet judged is still in it.                   *)
(***************************************************************************)
EXTENDS AtPort

CONSTANTS Cmds, RType, Parser, Prompted   \* as in AtCmdHandler

VARIABLES
  pc,           \* "idle", "prompt" or "read"
  cmd, id,      \* the current or last call: its command and number
  result,       \* what the last call returned, "none" while one runs
  tx, rx        \* items written, pieces received

vars == <<pc, cmd, id, result, tx, rx>>

Init == pc = "idle" /\ result = "none" /\ tx = <<>> /\ rx = <<>>

Return(r) == pc' = "idle" /\ result' = r
Goto(loop) == pc' = loop /\ result' = "none"

\* A call that is refused before anything is written.
Reject ==
  /\ pc = "idle"
  /\ result' \notin {"ESP_OK", "none"}
  /\ UNCHANGED <<pc, cmd, id, tx, rx>>

\* The write w of a part of the call, once n pieces have been taken.
Write(w, part, n) ==
  /\ tx' = IF w.sent THEN Append(tx, [cmd |-> cmd', id |-> id', part |-> part]) ELSE tx
  /\ rx' = IF w.flushed THEN <<>> ELSE Rest(rx, n)

\* A new call writes its command; what was received before is still there.
Begin ==
  /\ pc = "idle"
  /\ cmd' \in Cmds /\ id' > id
  /\ \E w \in HwWriteOutcomes :
       /\ Write(w, "cmd", 0)
       /\ \/ w.err # "ESP_OK" /\ Return(w.err)
          \/ w.err = "ESP_OK" /\ Goto(IF cmd' \in Prompted THEN "prompt" ELSE "read")
          \/ w.err = "ESP_OK" /\ cmd' \notin Prompted /\ Return("ESP_ERR_NO_MEM")

HasPrompt(n) == \E k \in 1..n : rx[k].kind \in {"prompt", "urcgt"}

\* Before its prompt a call drops what has no > in it ...
Drop ==
  /\ pc = "prompt"
  /\ \E n \in 1..Len(rx) : ~HasPrompt(n) /\ rx' = Rest(rx, n)
  /\ UNCHANGED <<pc, cmd, id, result, tx>>

\* ... and writes the payload when a > is in the next chunk.
SendPayload ==
  /\ pc = "prompt"
  /\ UNCHANGED <<cmd, id>>
  /\ \E n \in 1..Len(rx), w \in HwWriteOutcomes :
       /\ n <= ChunkLines /\ HasPrompt(n)
       /\ Write(w, "data", n)
       /\ \/ w.err # "ESP_OK" /\ Return(w.err)
          \/ w.err = "ESP_OK" /\ Goto("read")
          \/ w.err = "ESP_OK" /\ Return("ESP_ERR_NO_MEM")

\* The call completes and judges all it took.
Finish ==
  /\ pc = "read"
  /\ \E n \in Reads(rx, cmd, RType[cmd]) :
       /\ Return(Verdict(SubSeq(rx, 1, n), cmd, RType[cmd], Parser[cmd]))
       /\ rx' = Rest(rx, n)
  /\ UNCHANGED <<cmd, id, tx>>

\* It gives up: its time is up, or the response is too long.
GiveUp ==
  /\ \/ /\ pc = "prompt"
        /\ Return("ESP_ERR_TIMEOUT") /\ rx' = rx
     \/ /\ pc = "read"
        /\ Return("ESP_ERR_TIMEOUT")
        /\ \E n \in ReadsInVain(rx, cmd, RType[cmd]) : rx' = Rest(rx, n)
     \/ /\ pc = "read"
        /\ Return("ESP_ERR_INVALID_SIZE")
        /\ \E n \in Overflows(rx, cmd, RType[cmd]) : rx' = Rest(rx, n)
  /\ UNCHANGED <<cmd, id, tx>>

\* The other side takes up what was written and adds to what was received.
Modem ==
  /\ tx' = tx \/ (tx # <<>> /\ tx' = Tail(tx))
  /\ Len(rx') >= Len(rx) /\ SubSeq(rx', 1, Len(rx)) = rx
  /\ UNCHANGED <<pc, cmd, id, result>>

Next == Reject \/ Begin \/ Drop \/ SendPayload \/ Finish \/ GiveUp \/ Modem

Spec == Init /\ [][Next]_vars
================================================================================
