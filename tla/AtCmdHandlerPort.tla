--------------------------- MODULE AtCmdHandlerPort ---------------------------
(***************************************************************************)
(* AtCmdHandler implements AtCall for a task that has the handler to       *)
(* itself: its reads, chunk by chunk, amount to one step of AtCall.        *)
(***************************************************************************)
EXTENDS AtCmdHandler

\* The task, where there is only one.
Lone == CHOOSE t \in Tasks : TRUE

\* While it collects a response, what it has collected is not consumed yet.
Unconsumed == IF pc[Lone] = "read" THEN buf[Lone] \o rx ELSE rx

Port == INSTANCE AtCall WITH
  ChunkLines <- ChunkMax,
  pc <- pc[Lone], cmd <- cmd[Lone], id <- id[Lone], result <- result[Lone],
  rx <- Unconsumed

\* The calls of a lone task are those of AtCall, whatever the chunks a response
\* comes in, the buffer it must fit and the clock: each takes the pieces in the
\* order received, judges them once, at the first chunk that completes them, and
\* loses them only when it returns an error.
ImplementsAtCall == Port!Spec
================================================================================
