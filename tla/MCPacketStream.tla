--------------------------- MODULE MCPacketStream ----------------------------
(* Model-checking instance of PacketStream. *)
EXTENDS PacketStream
=============================================================================
