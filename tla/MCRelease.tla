------------------------------ MODULE MCRelease ------------------------------
(***************************************************************************)
(* ReleaseChoice for TLC: three versions, releases that lack something at  *)
(* every height, a draft and a prerelease above them.                      *)
(***************************************************************************)
EXTENDS ReleaseChoice

Tagged(v, k, a, s) == [version |-> v, kind |-> k, archive |-> a, sums |-> s]

MCRelease ==
    {Tagged(1, "stable", "binary", "with"), Tagged(2, "stable", "binary", "with"),
     Tagged(2, "stable", "none", "with"), Tagged(2, "stable", "binary", "without"),
     Tagged(3, "stable", "empty", "with"), Tagged(3, "stable", "binary", "none"),
     Tagged(3, "prerelease", "binary", "with"), Tagged(3, "draft", "binary", "with")}
=============================================================================
