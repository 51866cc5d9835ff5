------------------------------ MODULE Pointers ------------------------------
(* The null pointer, which every component compares its pointers with.       *)
CONSTANT NULL
=============================================================================
