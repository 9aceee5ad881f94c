----------------------------- MODULE MCRegistry -----------------------------
(* An instance of Registry for TLC: a package with two services, one of them *)
(* with methods whose names meet, in a route or in a client, and the other   *)
(* with the label of its package.                                            *)
EXTENDS Registry, TLC

CONSTANTS root, pack, math, names, t1, t2, t3

MCNodeParent == root :> None @@ pack :> root @@ math :> pack @@ names :> pack
MCLabel == root :> Root @@ pack :> "math" @@ math :> "math" @@ names :> "names"

Named(words, capital, underscores) ==
  [words |-> words, capital |-> capital, underscores |-> underscores]

MCChildren ==
  math :> << [name |-> Named("div", FALSE, FALSE), req |-> t1, res |-> t2],
             [name |-> Named("sum", TRUE, FALSE), req |-> t2, res |-> t3] >> @@
  names :> << [name |-> Named("divMany", TRUE, FALSE), req |-> t1, res |-> t2],
              [name |-> Named("divMany", FALSE, TRUE), req |-> t2, res |-> t3],
              [name |-> Named("divMany", FALSE, FALSE), req |-> t3, res |-> t1] >>
=============================================================================
