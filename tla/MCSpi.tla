------------------------------- MODULE MCSpi -------------------------------
(***************************************************************************)
(* A circular buffer of four bytes and two clients.  The receiving stream  *)
(* belongs to either DMA unit; the pool is what a zeroed structure makes   *)
(* of it (a limit of 0), or as large as spi.h means it to be.              *)
(***************************************************************************)
EXTENDS SpiTransport
=============================================================================
