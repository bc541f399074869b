----------------------------- MODULE MCGroups -----------------------------
(***************************************************************************)
(* A user, two groups, two subgroups and a value; two tasks.  Ids stand    *)
(* for each other: groups, subgroups and tasks are symmetric.              *)
(***************************************************************************)
EXTENDS Groups, TLC

CONSTANTS u1, g1, g2, s1, s2, v1, t1, t2

OneUser == {u1}
TwoGroups == {g1, g2}
TwoSubGroups == {s1, s2}
OneValue == {v1}
TwoTasks == {t1, t2}

Interchangeable ==
  {p @@ q @@ r : p \in Permutations(TwoGroups), q \in Permutations(TwoSubGroups),
                 r \in Permutations(TwoTasks)}
=============================================================================
