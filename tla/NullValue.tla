------------------------------ MODULE NullValue -----------------------------
(* The NULL of the database and the None of the code *)
CONSTANT None
=============================================================================
