------------------------------ MODULE NoValue ------------------------------
(* The value of a column or a field that is absent, shared by the modules  *)
(* of the catalogue's writes.                                              *)
CONSTANT None
=============================================================================
