--------------------------- MODULE MCXinputHost ---------------------------
(* An instance of XinputHost for TLC.                                      *)
EXTENDS XinputHost

MCAddr == {1, 2}
===========================================================================
