------------------------------ MODULE MCDesktop -------------------------------
EXTENDS Desktop

CONSTANTS p1, p2, t1, t2

MCProjectOf == t1 :> p1 @@ t2 :> p2
(* Nothing is saved; both projects are registered. *)
MCStarts == {<<None, {p1, p2}>>}
=============================================================================
