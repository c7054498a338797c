------------------------------ MODULE MCTimer ------------------------------
(***************************************************************************)
(* The firmware's callers: a tick of app/mothership.c, in a thread, and    *)
(* transport/spi.c, in the handler of a DMA interrupt.  With a third       *)
(* client there are more of them than slots.                               *)
(***************************************************************************)
EXTENDS ModuleTimer
CONSTANTS spi, app, screen, dma, thread
=============================================================================
