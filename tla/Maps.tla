------------------------------- MODULE Maps --------------------------------
(***************************************************************************)
(* What a machine holds by name (folders, apps, builds, refs), one name    *)
(* put there or gone.                                                      *)
(***************************************************************************)

Put(m, k, x) == [y \in DOMAIN m \cup {k} |-> IF y = k THEN x ELSE m[y]]
Drop(m, k) == [y \in DOMAIN m \ {k} |-> m[y]]
=============================================================================
