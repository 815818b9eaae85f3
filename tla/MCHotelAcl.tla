----------------------------- MODULE MCHotelAcl -----------------------------
(* Instances of HotelAcl for TLC.                                          *)
EXTENDS HotelAcl
=============================================================================
