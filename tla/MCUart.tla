------------------------------- MODULE MCUart -------------------------------
(* Small fifos and lines for module Uart.                                  *)
EXTENDS Uart

CONSTANTS a
=============================================================================
