------------------------------- MODULE MCMain -------------------------------
(***************************************************************************)
(* Main with a ring of three frames, frames of ten units, twice round the  *)
(* ring: ticks that take no time, less than a frame, or a stall of more    *)
(* than a second, and sleeps that end on time or late.                     *)
(***************************************************************************)
EXTENDS Main

Delays == {0, 1}

Ticks == {0, 4, 35}
=============================================================================
