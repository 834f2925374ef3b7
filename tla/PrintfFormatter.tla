-------------------------- MODULE PrintfFormatter ---------------------------
(* PrintfFormatter::format (common/util/format.cc): the printf syntax.      *)
EXTENDS FormatterBase

AUTO == -1   \* no argument number was given

PrintfEnd ==
  LET j == StopAt(p.s, {"%"})
  IN  /\ p.pc = "text" /\ At(j) = NUL
      /\ WriteText(j, j, [p EXCEPT !.s = j, !.start = j, !.pc = "done"])

PrintfEscape ==
  LET j == StopAt(p.s, {"%"})
  IN  /\ p.pc = "text" /\ At(j) = "%" /\ At(j + 1) = "%"
      /\ WriteText(j + 1, j + 2, [p EXCEPT !.s = j + 2, !.start = j + 2])

PrintfField ==
  LET j == StopAt(p.s, {"%"})
  IN  /\ p.pc = "text" /\ At(j) = "%" /\ At(j + 1) # "%"
      /\ WriteText(j, j, [p EXCEPT !.s = j + 1, !.field = j, !.pc = "header",
                                   !.index = AUTO,
                                   !.spec = [NoSpec EXCEPT !.align = "right"]])

\* Slip: a number that is not followed by '$' is always taken for the width.
PrintfHeaderWidth ==
  LET number == ParseNumber(p.s)
      c == At(p.s)
  IN  /\ p.pc = "header"
      /\ \/ ~IsDigit(c) /\ Go([p EXCEPT !.pc = "flags"])
         \/ IsDigit(c) /\ TooBig(number.value) /\ Fail("number is too big")
         \/ /\ IsDigit(c) /\ ~TooBig(number.value) /\ At(number.s) = "$"
            /\ Go([p EXCEPT !.s = number.s + 1, !.index = number.value,
                            !.pc = "flags"])
         \/ /\ IsDigit(c) /\ ~TooBig(number.value) /\ At(number.s) # "$"
            /\ Go([p EXCEPT !.s = number.s, !.spec.width = number.value,
                            !.pc = "precision"])

\* The first part of parse_header: a number is the argument's if '$' follows, else
\* the width, unless it is 0: then it was flags.
PrintfHeader ==
  LET number == ParseNumber(p.s)
      c == At(p.s)
  IN  /\ p.pc = "header"
      /\ \/ ~IsDigit(c) /\ Go([p EXCEPT !.pc = "flags"])
         \/ IsDigit(c) /\ TooBig(number.value) /\ Fail("number is too big")
         \/ /\ IsDigit(c) /\ ~TooBig(number.value) /\ At(number.s) = "$"
            /\ Go([p EXCEPT !.s = number.s + 1, !.index = number.value,
                            !.pc = "flags"])
         \/ /\ IsDigit(c) /\ ~TooBig(number.value) /\ At(number.s) # "$"
            /\ Go([p EXCEPT !.s = number.s,
                            !.spec.fill = IF c = "0" THEN "0" ELSE @,
                            !.spec.width = number.value,
                            !.pc = IF number.value # 0 THEN "precision"
                                   ELSE "flags"])

Flags == {"-", "+", "0", " ", "#"}

FlagsEnd == CHOOSE j \in p.s..(Len(fmt) + 1) :
              At(j) \notin Flags /\ \A k \in p.s..(j - 1) : At(k) \in Flags

Flagged(given) ==
  [p EXCEPT !.spec.align = IF "-" \in given THEN "left" ELSE @,
            !.spec.fill  = IF "0" \in given THEN "0" ELSE @,
            !.spec.flags = (IF "+" \in given THEN {"SIGN", "PLUS"} ELSE {})
                 \cup (IF " " \in given THEN {"SIGN"} ELSE {})
                 \cup (IF "#" \in given THEN {"HASH"} ELSE {}),
            !.s = FlagsEnd, !.pc = "width"]

\* Slip: the loop over the flags has no way out at the end of the string.
PrintfFlagsStay ==
  /\ p.pc = "flags"
  /\ At(FlagsEnd) # NUL
  /\ Go(Flagged({At(k) : k \in p.s..(FlagsEnd - 1)}))

PrintfFlags ==
  /\ p.pc = "flags"
  /\ Go(Flagged({At(k) : k \in p.s..(FlagsEnd - 1)}))

\* PrintfFormatter::get_arg, with the message chosen by the character at s.
Look(index, s) ==
  LET look == IF index = AUTO THEN NextArg ELSE GetArg((index - 1) % IntWord)
  IN  IF look.error # "" /\ At(s) = NUL
      THEN [look EXCEPT !.error = "invalid format string"] ELSE look

Abs(n) == IF n < 0 THEN -n ELSE n

\* The rest of parse_header.  A width from an argument may be negative, which
\* aligns left (WidthHandler).
PrintfWidth ==
  LET number == ParseNumber(p.s)
      look   == Look(AUTO, p.s + 1)
  IN  /\ p.pc = "width"
      /\ \/ /\ ~IsDigit(At(p.s)) /\ At(p.s) # "*"
            /\ Go([p EXCEPT !.pc = "precision"])
         \/ /\ IsDigit(At(p.s))
            /\ IF TooBig(number.value) THEN Fail("number is too big")
               ELSE Go([p EXCEPT !.spec.width = number.value, !.s = number.s,
                                 !.pc = "precision"])
         \/ /\ At(p.s) = "*"
            /\ IF look.error # "" THEN Fail(look.error)
               ELSE IF look.arg.type \notin IntegerTypes
                    THEN Fail("width is not integer")
               ELSE IF Abs(look.arg.num) > INT_MAX THEN Fail("number is too big")
               ELSE Go([Took(look) EXCEPT
                          !.spec.width = Abs(look.arg.num),
                          !.spec.align = IF look.arg.num < 0 THEN "left" ELSE @,
                          !.s = @ + 1, !.pc = "precision"])

\* PrecisionHandler: the precision of an argument is an int and may be negative.
FitsInInt(n) == n \in (-INT_MAX - 1)..INT_MAX

\* A point with nothing behind it leaves the precision open.
PrintfPrecision ==
  LET number == ParseNumber(p.s + 1)
      look   == Look(AUTO, p.s + 2)
      n      == look.arg.num
  IN  /\ p.pc = "precision"
      /\ \/ At(p.s) # "." /\ Go([p EXCEPT !.pc = "argument"])
         \/ /\ At(p.s) = "." /\ IsDigit(At(p.s + 1))
            /\ IF TooBig(number.value) THEN Fail("number is too big")
               ELSE Go([p EXCEPT !.spec.precision = number.value,
                                 !.s = number.s, !.pc = "argument"])
         \/ /\ At(p.s) = "." /\ At(p.s + 1) = "*"
            /\ IF look.error # "" THEN Fail(look.error)
               ELSE IF look.arg.type \notin IntegerTypes
                    THEN Fail("precision is not integer")
               ELSE IF ~FitsInInt(n) THEN Fail("number is too big")
               ELSE Go([Took(look) EXCEPT !.spec.precision = n, !.s = @ + 2,
                                          !.pc = "argument"])
         \/ /\ At(p.s) = "." /\ ~IsDigit(At(p.s + 1)) /\ At(p.s + 1) # "*"
            /\ Go([p EXCEPT !.s = @ + 1, !.pc = "argument"])

IsZeroInt(arg) == arg.type \in IntegerTypes /\ arg.num = 0

\* The argument is fetched; a zero has no mark of its base, and zeros fill the
\* width of numbers only.
PrintfArgument ==
  LET look == Look(p.index, p.s)
      arg  == look.arg
      fill == p.spec.fill = "0"
  IN  /\ p.pc = "argument"
      /\ IF look.error # "" THEN Fail(look.error)
         ELSE Go([Took(look) EXCEPT
                    !.arg = arg,
                    !.spec.flags = IF IsZeroInt(arg) THEN @ \ {"HASH"} ELSE @,
                    !.spec.align = IF fill /\ arg.type \in NumericTypes
                                   THEN "numeric" ELSE @,
                    !.spec.fill  = IF fill /\ arg.type \notin NumericTypes
                                   THEN " " ELSE @,
                    !.pc = "length"])

\* ArgConverter: the argument as the type of length and conversion.  A type wider
\* than int takes the unsigned value of what the argument was passed as.
AsSigned(n, word) == ((n + word \div 2) % word) - word \div 2

WordOf(length) == CASE length = <<>> -> IntWord
                    [] length = <<"h">> -> ShortWord
                    [] length = <<"h", "h">> -> CharWord

Converted(arg, length, type) ==
  LET signed == type \in {"d", "i"}
      own    == arg.num % (IF arg.type \in {"LONG_LONG", "ULONG_LONG"}
                           THEN LongWord ELSE IntWord)
  IN  IF arg.type \notin IntegerTypes \/ length = <<"L">> THEN arg
      ELSE IF length \in {<<>>, <<"h">>, <<"h", "h">>}
      THEN IF signed
           THEN [arg EXCEPT !.type = "INT", !.num = AsSigned(@, WordOf(length))]
           ELSE [arg EXCEPT !.type = "UINT", !.num = @ % WordOf(length)]
      ELSE IF signed
           THEN [arg EXCEPT !.type = "LONG_LONG",
                            !.num = AsSigned(own, LongWord)]
           ELSE [arg EXCEPT !.type = "ULONG_LONG", !.num = own]

\* CharConverter.
ToChar(arg) == [arg EXCEPT !.type = "CHAR", !.num = AsSigned(@, CharWord)]

Letters == {"h", "l", "j", "z", "t", "L"}
LengthAt(i) ==
  CASE At(i) \notin Letters -> <<>>
    [] At(i) \in {"h", "l"} /\ At(i + 1) = At(i) -> <<At(i), At(i)>>
    [] OTHER -> <<At(i)>>

\* What is written for the argument once it has the type the field asks for.  A
\* character left in another type than 'c' is written as a number too.
PrintfStatements(arg, spec) ==
  LET st(op, a, sp) == [op |-> op, num |-> a.num, str |-> a.str, spec |-> sp]
      char == st("char", [arg EXCEPT !.str = <<Chr(arg.num)>>],
                 [NoSpec EXCEPT !.width = spec.width, !.type = spec.type,
                                !.align = IF spec.align = "left" THEN "left"
                                          ELSE "right"])
  IN  CASE arg.type = "CHAR" /\ spec.type = "c" -> <<char>>
        [] arg.type = "CHAR" /\ spec.type # "c" -> <<st("int", arg, spec), char>>
        [] arg.type \in IntegerTypes \ {"CHAR"} -> <<st("int", arg, spec)>>
        [] arg.type = "POINTER" ->
             <<st("int", arg, [spec EXCEPT !.flags = {"HASH"}, !.type = "x"])>>
        [] arg.type = "DOUBLE" -> <<st("double", arg, spec)>>
        [] OTHER -> <<st("str", arg, spec)>>

PrintfRefuses(arg, spec) ==
  \/ arg.type = "POINTER" /\ spec.type # "p"
  \/ arg.type = "CSTRING" /\ arg.num = 0
  \/ arg.type = "CUSTOM"

\* Length and type; the rest of the field is the type's one character.
PrintfConversion ==
  LET length == LengthAt(p.s)
      s      == p.s + Len(length)
      given  == Converted(p.arg, length, At(s))
      whole  == given.type \in IntegerTypes
      type   == IF whole /\ At(s) \in {"i", "u"} THEN "d" ELSE At(s)
      arg    == IF whole /\ type = "c" THEN ToChar(given) ELSE given
      spec   == [p.spec EXCEPT !.type = type]
  IN  /\ p.pc = "length"
      /\ IF At(s) = NUL THEN Fail("invalid format string")
         ELSE IF PrintfRefuses(arg, spec) THEN Fail("refused by the formatter")
         ELSE WriteField(s + 1, spec, PrintfStatements(arg, spec))

PrintfNext ==
  /\ syntax = "printf"
  /\ \/ PrintfEnd \/ PrintfEscape \/ PrintfField \/ PrintfHeader \/ PrintfFlags
     \/ PrintfWidth \/ PrintfPrecision \/ PrintfArgument \/ PrintfConversion
=============================================================================
