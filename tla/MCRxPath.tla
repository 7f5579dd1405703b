------------------------------ MODULE MCRxPath ------------------------------
(* RxPath with FIFOs of a few beats: every FIFO fills, every frame length    *)
(* up to one beat more than the MAC-side FIFO occurs.                       *)
EXTENDS RxPath
=============================================================================
