--------------------------- MODULE MCPacketBuilder ---------------------------
(* PacketBuilder on packet sizes at the edges of the formulas: the smallest   *)
(* that work, the 64 bytes of HID, and one that holds more than 255 words.    *)
EXTENDS PacketBuilder

MCPacketSizes == {9, 13, 64, 1100}
MCCounts == {1, 2, 14, 130, 300}
=============================================================================
