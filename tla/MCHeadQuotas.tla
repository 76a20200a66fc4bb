---------------------------- MODULE MCHeadQuotas ----------------------------
(* Posts and settings for HeadQuotas: each age, one artist and a collaboration. *)
EXTENDS HeadQuotas

CONSTANTS a, b, c, d

Kind(age, artists, character) == [age |-> age, artists |-> artists, character |-> character]

MCKinds ==
    {Kind("fresh", <<a>>, None), Kind("mid", <<a>>, c),
     Kind("mid", <<b>>, d), Kind("old", <<b, a>>, c)}

MCSettings == [fresh : {1}, old : {0, 1}, cap : {0, 1}, artist : {0, 1}]
=============================================================================
