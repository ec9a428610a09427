--------------------------- MODULE MCEmailTriage ---------------------------
(* EmailTriage on small instances; the constants are in the .cfg files. *)
EXTENDS EmailTriage
=============================================================================
