--------------------------- MODULE MCHousekeeping ---------------------------
(***************************************************************************)
(* Housekeeping on a small instance: two users at two events, bans that    *)
(* last a day.                                                             *)
(***************************************************************************)
EXTENDS Housekeeping
=============================================================================
