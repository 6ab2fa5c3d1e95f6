------------------------------ MODULE MCListing ------------------------------
(***************************************************************************)
(* Listing for TLC: two clusters, one with an empty configuration.  1 and  *)
(* 2 started on one day, 3 never; 1 and 4 belong to the same user.         *)
(***************************************************************************)
EXTENDS Listing

MCConfig == {<<"east", 1>>, <<"east", 2>>, <<"east", 3>>, <<"west", 1>>}

Row(k, n, u, s, st, cr) ==
    [config |-> k, name |-> n, user |-> u, state |-> s, started |-> st, created |-> cr]

MCMachine ==
    {Row(<<"east", 1>>, 1, 7, 2, 21, 4), Row(<<"east", 1>>, 2, 8, 4, 20, 10),
     Row(<<"east", 2>>, 3, 8, 0, Never, 0), Row(<<"west", 1>>, 4, 7, 1, 30, Never)}

MCUsable == {m \in MCMachine : m.user = 7}

MCText == {1 .. 8, {1, 8}}
=============================================================================
