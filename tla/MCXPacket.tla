----------------------------- MODULE MCXPacket -----------------------------
(* Instances of XPacket: slices of one to four body bytes, and as many      *)
(* slices as the field holds, one less, and more.                           *)
EXTENDS XPacket

UpTo18 == 0 .. 18
OneToFour == 26 .. 29
=============================================================================
