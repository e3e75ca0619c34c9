--------------------------- MODULE MCMessageCodec ---------------------------
(* The Python 3 Message class alone, for the runs that show its defects.  *)
EXTENDS MessageCodec, MCCodecInputs
=============================================================================
