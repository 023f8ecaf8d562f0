-------------------------------- MODULE Absent --------------------------------
(* The null of the code and of its database columns: no row, no value.     *)
CONSTANT NULL
=============================================================================
