----------------------------- MODULE MCDocRead -----------------------------
EXTENDS DocRead, TLC

CONSTANTS d1, d2, f, g, out, etc, func, fig

Empty == [kdoc |-> {}, export |-> {}, include |-> FALSE, names |-> {}]

(* A page made of f and of what g exports, a page that includes a          *)
(* generated file: texts of either document, which may be the same.        *)
MCText == { [Empty EXCEPT !.kdoc = {f}, !.export = {g}, !.names = {func}],
            [Empty EXCEPT !.include = TRUE, !.names = {fig}] }

Symm == Permutations(Doc)
=============================================================================
