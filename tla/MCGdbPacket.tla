---------------------------- MODULE MCGdbPacket ----------------------------
(* Requests "?", "D", "m6d" and "m06d", in the codes of ASCII; a damaged   *)
(* byte becomes a '$', a '#', a '+' or a digit.  The checksum of "m" is 6d *)
(* and that of "D", of which the request sent again behind a '#' that was  *)
(* altered to a '0' makes "D044$D", is 44: so is that one's.               *)
EXTENDS GdbPacket

MCPayloads == {<<63>>, <<68>>, <<109, 54, 100>>, <<109, 48, 54, 100>>}
MCAltered == {Dollar, Hash, Plus, 48}
=============================================================================
