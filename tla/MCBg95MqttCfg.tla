----------------------------- MODULE MCBg95MqttCfg -----------------------------
(* Instances of Bg95MqttCfg for TLC.                                           *)
EXTENDS Bg95MqttCfg, TLC

\* For each parameter values that take more than one byte, set the low bit of
\* another structure's present flags, or are out of range.
MCValues == [t \in Types |->
  CASE t = "pdpcid"    -> {<<16>>, <<17>>}
    [] t = "ssl"       -> {<<1, 5>>, <<0, 6>>}
    [] t = "keepalive" -> {<<300>>, <<3601>>}
    [] t = "session"   -> {<<1>>, <<2>>}
    [] t = "timeout"   -> {<<60, 1, 1>>, <<0, 10, 0>>}
    [] t = "will"      -> {<<0, 0, 0>>, <<1, 2, 1>>}
    [] t = "recv_mode" -> {<<1, 1>>}]
================================================================================
