------------------------------ MODULE MCSerial ------------------------------
(* The serial driver with one client, queues of two bytes and a UART that *)
(* holds one.                                                              *)
EXTENDS Serial

CONSTANT a
=============================================================================
