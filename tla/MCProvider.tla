------------------------------ MODULE MCProvider ------------------------------
(***************************************************************************)
(* Finite instances of Provider: a zone e, its child zone s.e, an          *)
(* unrelated zone ee, and records a.s.e, w.e and w.ee.                     *)
(***************************************************************************)
EXTENDS Provider, TLC

e   == <<"e">>
s_e == <<"e", "s">>
ee  == <<"ee">>
a_s_e == <<"e", "s", "a">>
w_e   == <<"e", "w">>
w_ee  == <<"ee", "w">>

MCLabel == {"e", "s", "a", "w", "ee"}
MCName == {a_s_e, w_e, w_ee}
MCZoneName == {e, s_e, ee}
MCRank == e :> 1 @@ ee :> 2 @@ s_e :> 3

\* No domain, a zone, less than a zone, more than one zone.
MCScopes == {{}, {e}, {s_e}, {s_e, ee}, {e, s_e, ee}}
=============================================================================
