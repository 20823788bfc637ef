---------------------------- MODULE MCConversions ----------------------------
(* A small instance of Conversions for TLC.                                  *)
EXTENDS Conversions

CONSTANTS a, upload_to

TwoWords == {a, upload_to}
OneRoute == {upload_to}
TwoToFourDigits == 10 .. 9999
=============================================================================
