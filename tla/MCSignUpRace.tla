---------------------------- MODULE MCSignUpRace ----------------------------
(***************************************************************************)
(* SignUpRace on small instances: two or three requests of one user,       *)
(* and one or two of another.                                              *)
(***************************************************************************)
EXTENDS SignUpRace, TLC

CONSTANTS u1, u2, r1, r2, r3, r4

Senders == [r \in Requests |-> IF r \in {r1, r2} THEN u1 ELSE u2]
\* Three requests of one user.
Thrice == [r \in Requests |-> IF r = r3 THEN u2 ELSE u1]
\* Tickets for two, for one and for two.
Tickets == [r \in Requests |-> IF r = r2 THEN 1 ELSE 2]
OneEach == [r \in Requests |-> 1]
=============================================================================
