------------------------------ MODULE MCWalker ------------------------------
(* A folder with a subfolder, or with two, sized twice, or it and a part.  *)
EXTENDS Walker, TLC

CONSTANTS top, sub, leaf, s1, s2

Tree == top :> {top} @@ sub :> {top, sub} @@ leaf :> {top, leaf}
Scene(roots, folders, n) == [root |-> roots, there |-> folders, workers |-> n]
SomeScenes == {Scene(s1 :> top @@ s2 :> top, {top, sub}, 1),
               Scene(s1 :> sub @@ s2 :> top, {top, sub}, 1),
               Scene(s1 :> top, {top, sub, leaf}, 2)}
=============================================================================
