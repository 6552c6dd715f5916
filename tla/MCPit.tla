-------------------------------- MODULE MCPit --------------------------------
(* One thread that waits, with a counter of 16 values at three ticks a second, *)
(* which do not divide 16; two seconds to a minute, two minutes to an hour.    *)
EXTENDS Pit
=============================================================================
