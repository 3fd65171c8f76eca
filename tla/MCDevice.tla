------------------------------ MODULE MCDevice ------------------------------
(* Four images of three versions, so that one update can follow another.   *)
(* The second and the third share a version: an image and its rebuild,     *)
(* which the server may be given in its place.                             *)
EXTENDS Device

MCSize    == <<1, 1, 2, 2>>
MCVersion == <<1, 2, 2, 3>>
=============================================================================
