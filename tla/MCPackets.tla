----------------------------- MODULE MCPackets ------------------------------
(***************************************************************************)
(* The packets of PacketLink for TLC, with bytes of sixteen values.        *)
(***************************************************************************)
EXTENDS PacketLink

\* A bare request, and one to program the NOR flash with an address that looks
\* like the head of a frame, and like the end of one.
MCIspBodies == {Bare(10), ForNorFlash(12, <<1, 2, 11, 0>>, 1, <<1>>)}

\* An answer without data, and one with: the first byte is the status.
MCLdrBodies == {<<0>>, <<3, 1, 2, 2>>}
=============================================================================
