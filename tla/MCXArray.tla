------------------------------ MODULE MCXArray ------------------------------
(* XArray with four cells and the four longitudes that fit in it.          *)
EXTENDS XArray

MCKeys == 5..8
=============================================================================
