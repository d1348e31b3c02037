---------------------------- MODULE MCAtCmdHandler ----------------------------
(* Instances of AtCmdHandler for TLC.                                          *)
EXTENDS AtCmdHandlerPort, TLC

\* One command of each response type, and the prompted one.
MCRType == [c \in Cmds |-> CASE c = "CFUN"    -> "SIMPLE_ONLY"
                             [] c = "QMTCFG"  -> "DATA_OPTIONAL"
                             [] OTHER         -> "DATA_REQUIRED"]
MCParser == [c \in Cmds |-> CASE c = "CFUN"    -> "none"
                              [] c = "CGPADDR" -> "strict"
                              [] OTHER         -> "lenient"]
MCTimeout == [c \in Cmds |-> 1]
================================================================================
