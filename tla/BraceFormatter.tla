--------------------------- MODULE BraceFormatter ---------------------------
(* BasicFormatter::format (common/util/format.cc): the brace syntax.  One   *)
(* action per part of a replacement field; pc names the part that is next.  *)
EXTENDS FormatterBase

Braces == {"{", "}"}
Marks == {"<", ">", "=", "^"}
AlignOf(mark) == CASE mark = "<" -> "left" [] mark = ">" -> "right"
                   [] mark = "=" -> "numeric" [] mark = "^" -> "center"

Numeric(arg) == arg.type \in NumericTypes

BraceEnd ==
  LET j == StopAt(p.s, Braces)
  IN  /\ p.pc = "text" /\ At(j) = NUL
      /\ WriteText(j, j, [p EXCEPT !.s = j, !.start = j, !.pc = "done"])

\* Slip: the text after a doubled brace begins with its second half.
BraceEscapeTwice ==
  LET j == StopAt(p.s, Braces)
  IN  /\ p.pc = "text" /\ At(j) \in Braces /\ At(j + 1) = At(j)
      /\ WriteText(j + 1, j + 2, [p EXCEPT !.s = j + 2, !.start = j + 1])

\* A doubled brace: the text up to the first half is written.
BraceEscape ==
  LET j == StopAt(p.s, Braces)
  IN  /\ p.pc = "text" /\ At(j) \in Braces /\ At(j + 1) = At(j)
      /\ WriteText(j + 1, j + 2, [p EXCEPT !.s = j + 2, !.start = j + 2])

BraceUnmatched ==
  LET j == StopAt(p.s, Braces)
  IN  /\ p.pc = "text" /\ At(j) = "}" /\ At(j + 1) # "}"
      /\ Fail("unmatched '}'")

BraceField ==
  LET j == StopAt(p.s, Braces)
  IN  /\ p.pc = "text" /\ At(j) = "{" /\ At(j + 1) # "{"
      /\ WriteText(j, j, [p EXCEPT !.s = j + 1, !.field = j, !.pc = "index"])

\* parse_arg_index at position i: what it found and the position after it, with
\* the error, if any, that is thrown.
ParseArgIndex(i) ==
  LET number == ParseNumber(i)
      look   == IF IsDigit(At(i)) THEN GetArg(number.value) ELSE NextArg
      after  == IF IsDigit(At(i)) THEN number.s ELSE i
  IN  [look |-> look, s |-> after,
       error |-> IF IsDigit(At(i)) /\ TooBig(number.value) THEN "number is too big"
                 ELSE IF look.error = "" THEN ""
                 ELSE IF At(after) \notin {"}", ":"} THEN "invalid format string"
                 ELSE look.error]

\* An object of another type is formatted as the string it prints, with the same
\* specification.
Printed(arg) == IF arg.type = "CUSTOM" THEN [arg EXCEPT !.type = "STRING"] ELSE arg

BraceIndex ==
  LET r == ParseArgIndex(p.s)
  IN  /\ p.pc = "index"
      /\ IF r.error # "" THEN Fail(r.error)
         ELSE Go([Took(r.look) EXCEPT
                    !.arg = Printed(r.look.arg),
                    !.spec = NoSpec, !.s = r.s,
                    !.pc = IF At(r.s) = ":" THEN "align" ELSE "close"])

\* Fill and alignment.  The mark is looked for behind the first character, the
\* fill, and then in its place; behind a closing brace it sets the alignment and
\* is left where it is.
BraceAlign ==
  LET s == p.s + 1
      c == At(s)
      filled == c # NUL /\ At(s + 1) \in Marks
      mark == IF filled THEN At(s + 1) ELSE c
      aligned == [p EXCEPT !.spec.align = AlignOf(mark), !.pc = "sign"]
      strict == mark = "=" /\ ~Numeric(p.arg)
  IN  /\ p.pc = "align"
      /\ \/ mark \notin Marks /\ Go([p EXCEPT !.s = s, !.pc = "sign"])
         \/ filled /\ c = "}" /\ Go([aligned EXCEPT !.s = s])
         \/ filled /\ c = "{" /\ Fail("invalid fill character")
         \/ /\ filled /\ c \notin Braces
            /\ IF strict THEN Fail("requires numeric argument")
               ELSE Go([aligned EXCEPT !.s = s + 2, !.spec.fill = c])
         \/ /\ ~filled /\ mark \in Marks
            /\ IF strict THEN Fail("requires numeric argument")
               ELSE Go([aligned EXCEPT !.s = s + 1])

SignFlags(c) == CASE c = "+" -> {"SIGN", "PLUS"} [] c = "-" -> {"MINUS"}
                  [] c = " " -> {"SIGN"}

\* check_sign: unsigned arguments have none.
Signed(arg) == Numeric(arg) /\ arg.type \notin {"UINT", "ULONG_LONG"}

BraceSign ==
  /\ p.pc = "sign"
  /\ \/ /\ At(p.s) \notin {"+", "-", " "}
        /\ Go([p EXCEPT !.pc = "hash"])
     \/ /\ At(p.s) \in {"+", "-", " "}
        /\ IF Signed(p.arg)
           THEN Go([p EXCEPT !.spec.flags = SignFlags(At(p.s)),
                             !.s = @ + 1, !.pc = "hash"])
           ELSE Fail("requires signed argument")

BraceHash ==
  /\ p.pc = "hash"
  /\ \/ At(p.s) # "#" /\ Go([p EXCEPT !.pc = "width"])
     \/ /\ At(p.s) = "#"
        /\ IF Numeric(p.arg)
           THEN Go([p EXCEPT !.spec.flags = @ \cup {"HASH"},
                             !.s = @ + 1, !.pc = "width"])
           ELSE Fail("requires numeric argument")

\* Width; a leading zero asks for zeros between the sign and the digits.
BraceWidth ==
  LET number == ParseNumber(p.s)
      zero == At(p.s) = "0"
  IN  /\ p.pc = "width"
      /\ \/ ~IsDigit(At(p.s)) /\ Go([p EXCEPT !.pc = "precision"])
         \/ /\ IsDigit(At(p.s))
            /\ IF zero /\ ~Numeric(p.arg) THEN Fail("requires numeric argument")
               ELSE IF TooBig(number.value) THEN Fail("number is too big")
               ELSE Go([p EXCEPT
                          !.spec.align = IF zero THEN "numeric" ELSE @,
                          !.spec.fill = IF zero THEN "0" ELSE @,
                          !.spec.width = number.value,
                          !.s = number.s, !.pc = "precision"])

\* The precision a number of digits or another argument gives: q is the parser
\* after it.  Only floating-point arguments take one.
Precise(q, value) ==
  IF value > INT_MAX THEN Fail("number is too big")
  ELSE IF p.arg.type # "DOUBLE" THEN Fail("requires floating-point argument")
  ELSE Go([q EXCEPT !.spec.precision = value, !.pc = "type"])

BracePrecision ==
  LET number == ParseNumber(p.s + 1)
      r == ParseArgIndex(p.s + 2)
      by == r.look.arg
  IN  /\ p.pc = "precision"
      /\ \/ At(p.s) # "." /\ Go([p EXCEPT !.pc = "type"])
         \/ /\ At(p.s) = "." /\ IsDigit(At(p.s + 1))
            /\ Precise([p EXCEPT !.s = number.s], number.value)
         \/ /\ At(p.s) = "." /\ At(p.s + 1) = "{"
            /\ IF r.error # "" THEN Fail(r.error)
               ELSE IF At(r.s) # "}" THEN Fail("invalid format string")
               ELSE IF by.type \notin IntegerTypes \ {"CHAR"}
                    THEN Fail("precision is not integer")
               ELSE IF by.num < 0 THEN Fail("negative precision")
               ELSE Precise([Took(r.look) EXCEPT !.s = r.s + 1], by.num)
         \/ /\ At(p.s) = "." /\ ~IsDigit(At(p.s + 1)) /\ At(p.s + 1) # "{"
            /\ Fail("missing precision specifier")

\* Slip: the type is read without looking for the end of the string.
BraceTypePast ==
  /\ p.pc = "type"
  /\ Go(IF At(p.s) = "}" THEN [p EXCEPT !.pc = "close"]
        ELSE [p EXCEPT !.spec.type = At(p.s), !.s = @ + 1, !.pc = "close"])

BraceType ==
  /\ p.pc = "type"
  /\ Go(IF At(p.s) \in {"}", NUL} THEN [p EXCEPT !.pc = "close"]
        ELSE [p EXCEPT !.spec.type = At(p.s), !.s = @ + 1, !.pc = "close"])

\* ArgFormatter: the visit of an argument with the specification that was parsed.
St(op, arg, spec) == [op |-> op, num |-> arg.num, str |-> arg.str, spec |-> spec]

VisitRefuses(arg, spec) ==
  \/ /\ arg.type = "CHAR" /\ spec.type \in {"", "c"}
     /\ spec.align = "numeric" \/ spec.flags # {}
  \/ arg.type = "POINTER" /\ spec.type \notin {"", "p"}
  \/ arg.type = "CSTRING" /\ arg.num = 0

VisitChar(arg, spec) ==
  IF spec.type \in {"", "c"}
  THEN St("char", [arg EXCEPT !.str = <<Chr(arg.num)>>], spec)
  ELSE St("int", arg, [spec EXCEPT !.flags = @ \cup {"CHAR"}])

VisitPointer(arg, spec) ==
  St("int", arg, [spec EXCEPT !.flags = {"HASH"}, !.type = "x"])

Visit(arg, spec) ==
  CASE arg.type \in IntegerTypes \ {"CHAR"} -> St("int", arg, spec)
    [] arg.type = "CHAR" -> VisitChar(arg, spec)
    [] arg.type = "POINTER" -> VisitPointer(arg, spec)
    [] arg.type = "DOUBLE" -> St("double", arg, spec)
    [] OTHER -> St("str", arg, spec)

BraceClose ==
  /\ p.pc = "close"
  /\ IF At(p.s) # "}" THEN Fail("missing '}'")
     ELSE IF VisitRefuses(p.arg, p.spec) THEN Fail("refused by the formatter")
     ELSE WriteField(p.s + 1, p.spec, <<Visit(p.arg, p.spec)>>)

BraceNext ==
  /\ syntax = "brace"
  /\ \/ BraceEnd \/ BraceEscape \/ BraceUnmatched \/ BraceField \/ BraceIndex
     \/ BraceAlign \/ BraceSign \/ BraceHash \/ BraceWidth \/ BracePrecision
     \/ BraceType \/ BraceClose
=============================================================================
