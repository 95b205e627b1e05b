-------------------------------- MODULE MCUart --------------------------------
(* Messages for the runs of Uart: every sequence of two letters and the      *)
(* terminator up to one byte more than the buffer holds.                     *)
EXTENDS Uart

Hello == <<"h", "i">>
Prompt == <<"e">>
Letters == {"a", "b", ";", "h", "i", "e"}
AllInputs == BoundedSeq({"a", "b", ";"}, MaxSize + 1)
=============================================================================
