--------------------------- MODULE MCPacketCodec ---------------------------
(***************************************************************************)
(* An instance of PacketCodec for TLC: bytes of 4 bits and a CRC of two of *)
(* them, computed the way zlib computes its own (reflected, preset and     *)
(* inverted).                                                              *)
(***************************************************************************)
EXTENDS PacketCodec, Bitwise

Halved(reg) == IF reg % 2 = 1 THEN (reg \div 2) ^^ 140 ELSE reg \div 2

\* What one more byte makes of the register, as a table.
Step == [reg \in 0 .. 255 |-> [b \in 0 .. 15 |-> Halved(Halved(Halved(Halved(reg ^^ b))))]]

Crc8(bytes) == 255 - FoldLeft(LAMBDA reg, b : Step[reg][b], 255, bytes)
=============================================================================
