--------------------------- MODULE MCMemoryWriter ---------------------------
(* Statements whose lengths meet the limits of an object with 14 cells.     *)
EXTENDS MemoryWriter, TLC

Spec_(align, width, fill, flags, precision, type) ==
  [align |-> align, width |-> width, fill |-> fill, flags |-> flags,
   precision |-> precision, type |-> type]

St(op, num, str, spec) == [op |-> op, num |-> num, str |-> str, spec |-> spec]

Text(n) == Rep("t", n)

Plain == {St("text", 0, Text(14), NoSpec), St("one", 0, <<"q">>, NoSpec)}

Strings ==
  {St("str", 0, Text(3), Spec_("right", 9, "*", {}, -1, "")),
   St("char", 0, <<"c">>, Spec_("center", 4, "*", {}, -1, ""))}

Integers_ ==
  {St("int", v, <<>>, NoSpec) : v \in {-128, 9, 100}}
    \cup {St("int", -10, <<>>, Spec_(a, 8, "*", {"HASH"}, -1, "x")) :
            a \in {"left", "numeric"}}
    \cup {St("int", 10, <<>>, Spec_(a, 20, " ", {"HASH"}, 5, "o")) :
            a \in {"left", "right"}}
    \cup {St("int", 5, <<>>, Spec_("left", 0, " ", {"SIGN"}, -1, t)) :
            t \in {"b", "e"}}

Doubles ==
  {St("double", -1, <<"1", ".", "5">>, Spec_(a, 17, "*", {}, -1, "")) :
     a \in {"left", "center", "numeric"}}
    \cup {St("double", 1, <<"1", ".", "5">>, Spec_("center", 17, "*", {}, -1, "")),
          St("double", 1, <<"n", "a", "n">>, Spec_("right", 6, "*", {"SIGN"}, -1, "")),
          St("double", 1, Text(12), Spec_("default", 0, " ", {"SIGN", "PLUS"}, -1, ""))}

MCStatements == Plain \cup Strings \cup Integers_ \cup Doubles
Symmetry == Permutations(Writers)
MCCodes == {-99, -128}
MCMessages == {Text(3), Text(8)}
MCDescriptions == {Text(4), Text(16)}
=============================================================================
