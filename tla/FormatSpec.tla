----------------------------- MODULE FormatSpec ------------------------------
(* What the parsers of format strings hand to the writer (common/util/      *)
(* format.h).  A format specification is a record: align, width, fill,      *)
(* flags (a set), precision (-1 for none) and type ("" for none).  A        *)
(* statement st asks for one value: op says which kind, num holds its       *)
(* number or sign, str its characters, spec its specification.              *)
EXTENDS Integers, Sequences

NUL == "NUL"

\* The integers of statements have 15 bits and a sign.
MaxNumber == 32767

Digits == <<"0", "1", "2", "3", "4", "5", "6", "7", "8", "9",
            "a", "b", "c", "d", "e", "f">>

Specs == [align : {"default", "left", "right", "center", "numeric"}, width : Nat,
          fill : STRING, flags : SUBSET {"SIGN", "PLUS", "MINUS", "HASH", "CHAR"},
          precision : Int, type : STRING]

NoSpec == [align |-> "default", width |-> 0, fill |-> " ", flags |-> {},
           precision |-> -1, type |-> ""]

StrTypes == {"", "s"}
IntTypes == {"", "d", "x", "X", "b", "B", "o"}
DoubleTypes == {"", "e", "f", "g", "a", "F", "E", "G", "A"}

\* The writer throws for a type it does not know.
KnownType(st) ==
  CASE st.op = "str"    -> st.spec.type \in StrTypes
    [] st.op = "int"    -> st.spec.type \in IntTypes
    [] st.op = "double" -> st.spec.type \in DoubleTypes
    [] OTHER            -> TRUE
=============================================================================
