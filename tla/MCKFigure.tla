------------------------------ MODULE MCKFigure ------------------------------
EXTENDS KFigure, TLC

CONSTANTS d1, d2, net, flow, dotcode, svgcode, x, y, z

(* net.dot and a drawing that is net.svg in another directory, and two     *)
(* texts: values for the constants BaseOf and ExtOf.                       *)
MCBaseOf == (net :> x) @@ (flow :> x) @@ (dotcode :> y) @@ (svgcode :> z)
MCExtOf == (net :> ".dot") @@ (flow :> ".svg") @@ (dotcode :> ".dot") @@ (svgcode :> ".svg")

Symm == Permutations(Doc)
=============================================================================
