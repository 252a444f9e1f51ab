---------------------------- MODULE MCTcmBuilder ----------------------------
EXTENDS TcmBuilder, TLC

CONSTANTS r1, r2, lower, mixed

MCLower == [n \in Name |-> lower]
Symm == Permutations(Run)

Comment == [struct |-> FALSE, pointer |-> FALSE, matches |-> {}]
Struct == [Comment EXCEPT !.struct = TRUE]
Pointer(fns) == [Comment EXCEPT !.pointer = TRUE, !.matches = fns]
MCFn == {"get_fabric_name", "get_wwn"}

(* The table behind a comment; another pointer and the struct behind one;  *)
(* the struct at the very start; a pointer missing and one there twice;    *)
(* an empty header.                                                        *)
Short == { <<Comment, Pointer({"get_fabric_name", "get_wwn"}), Pointer({"get_wwn"})>> }
Headers == Short \cup {
  <<Comment, Pointer({}), Struct, Pointer({"get_wwn"}), Pointer({"get_fabric_name"})>>,
  <<Struct, Pointer({"get_fabric_name"}), Pointer({"get_wwn"})>>,
  <<Comment, Struct, Pointer({"get_wwn"}), Comment, Pointer({"get_wwn"})>>,
  <<>> }

(* Two runs for a module: of two protocols with each header, of others,    *)
(* and for a name that is not in lower case with one; and two runs for     *)
(* modules whose names differ in case.                                     *)
Protos(a, b) == {p \in [Run -> Proto] : {p[r1], p[r2]} = {a, b}}
Settings(headers, n, protos) ==
  [header : headers, name : {[r \in Run |-> n]}, proto : protos]
MCSetting ==
  Settings(Headers, lower, Protos("SAS", "iSCSI"))
  \cup Settings(Short, lower, Protos("FC", "SRP"))
  \cup Settings(Short, mixed, Protos("SAS", "SAS"))
  \cup [header : {<<Comment>>}, name : {n \in [Run -> Name] : n[r1] # n[r2]},
         proto : Protos("SAS", "SAS")]
=============================================================================
