----------------------------- MODULE MCProvider -----------------------------
EXTENDS Provider, TLC
CONSTANTS a, b, c, p1, p2, k1, k2, w1, w2, s1

MCImages == {a, b, c}
TwoImages == {a, b}
MCPods == {p1, p2}
MCKeys == {k1, k2}
MCWorkers == {w1, w2}
MCScrapers == {s1}
(* p1 has two containers and a communication adapter; p2 comes in two         *)
(* revisions, the first of which has an image of p1.                          *)
MCContainers == p1 :> <<<<a, b>>>> @@ p2 :> <<<<b>>, <<c>>>>
(* One container a pod, of the two images. *)
OneContainer == p1 :> <<<<a>>>> @@ p2 :> <<<<b>>>>
MCAdapted == {p1}
MCKeyOf == p1 :> k1 @@ p2 :> k2
SameKey == p1 :> k1 @@ p2 :> k1
(* A pod with two containers of one image. *)
TwiceTheImage == p1 :> <<<<a, a>>>> @@ p2 :> <<<<b>>>>
Symmetry == Permutations(MCWorkers)
=============================================================================
