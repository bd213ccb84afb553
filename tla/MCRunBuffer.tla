---------------------------- MODULE MCRunBuffer ----------------------------
(* Small instance of RunBuffer.  Viewers share nothing but the broadcast,  *)
(* so one viewer that may lose its connection several times is enough;     *)
(* more events than `out` holds make the sender block.                     *)
EXTENDS RunBuffer
=============================================================================
