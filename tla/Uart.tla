---------------------------------- MODULE Uart ----------------------------------
(***************************************************************************)
(* The write function of bg95_uart_interface.c, as its callers see it.     *)
(***************************************************************************)
EXTENDS Naturals

\* What uart_hw_write_impl can do: transmit or not, empty the receive buffer
\* or not (uart_flush, called when the transmit buffer is short of room, is the
\* SDK's flush of the input), and the code it returns.  When only the wait for
\* the end of the transmission fails, the bytes still go out.
HwWriteOutcomes ==
  [sent : {TRUE},  flushed : BOOLEAN, err : {"ESP_OK", "ESP_ERR_TIMEOUT"}]
    \cup [sent : {FALSE}, flushed : {TRUE},  err : {"ESP_ERR_NO_MEM"}]
    \cup [sent : {FALSE}, flushed : BOOLEAN, err : {"ESP_FAIL"}]
================================================================================
