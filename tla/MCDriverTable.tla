--------------------------- MODULE MCDriverTable ----------------------------
(* Three drivers, so that the first, a middle and the last node of the list  *)
(* are moved; edge counts that pass the modulus of the statistics.           *)
EXTENDS DriverTable

=============================================================================
