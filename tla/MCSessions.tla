---------------------------- MODULE MCSessions ----------------------------
(***************************************************************************)
(* Two users of two roles, two calls at a time, two logins.  Users, calls  *)
(* and roles stand for each other.                                         *)
(***************************************************************************)
EXTENDS Sessions, TLC

CONSTANTS u1, u2, c1, c2, admin, user

TwoUsers == {u1, u2}
TwoCalls == {c1, c2}
TwoRoles == {admin, user}

Interchangeable ==
  {p @@ q @@ r : p \in Permutations(TwoUsers), q \in Permutations(TwoCalls),
                 r \in Permutations(TwoRoles)}
=============================================================================
