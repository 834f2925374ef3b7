--------------------------- MODULE FormatterBase ----------------------------
(* What the two parsers of format strings share (common/util/format.h and   *)
(* format.cc): the string, which ends with a NUL, the argument list, the    *)
(* switch between automatic and numbered arguments, and numbers.            *)
(*                                                                          *)
(* p holds the parser's fields and locals.  pieces records what was handed  *)
(* to the writer: for a stretch of the string, from the first position to   *)
(* the one where it goes on, the statements it led to.                      *)
EXTENDS FormatSpec

CONSTANTS UINT_MAX, INT_MAX,  \* limits of unsigned and int
          CharWord, ShortWord, LongWord,  \* number of values of the types
          MAX_ARGS            \* arguments an ArgList has room for
ASSUME LimitAssumption ==
  UINT_MAX \in Nat /\ INT_MAX \in 0..UINT_MAX /\ MAX_ARGS \in Nat

\* A digit, a number of an argument and INT_MAX are less than UINT_MAX.
ASSUME UnsignedAssumption ==
  9 <= UINT_MAX /\ INT_MAX < UINT_MAX /\ MAX_ARGS <= UINT_MAX

\* The words are even, and every wider type holds whole words of the narrower.
ASSUME WordAssumption ==
  /\ {CharWord, ShortWord, LongWord} \subseteq Nat \ {0}
  /\ CharWord % 2 = 0 /\ ShortWord % CharWord = 0
  /\ (UINT_MAX + 1) % ShortWord = 0 /\ LongWord % (2 * (UINT_MAX + 1)) = 0

VARIABLES syntax,  \* "brace" or "printf"
          fmt,     \* the format string
          args,    \* the arguments passed
          p, pieces
input == <<syntax, fmt, args>>

IntWord == UINT_MAX + 1

\* An argument has a type, a number (the sign of a floating-point number, and 0
\* for a null string) and characters.
NoArg == [type |-> "NONE", num |-> 0, str |-> <<>>]
SignedTypes == {"INT", "LONG_LONG", "CHAR"}
IntegerTypes == SignedTypes \cup {"UINT", "ULONG_LONG"}
NumericTypes == IntegerTypes \cup {"DOUBLE"}

\* The byte of a character, as one of the cells a writer stores.
Chr(n) == <<"A", "B", "C", "D", "E", "F", "G", "H">>[1 + (n % CharWord)]

NewParser == [s |-> 1, start |-> 1, field |-> 1, next_arg_index |-> 0,
              arg |-> NoArg, spec |-> NoSpec, index |-> -1, uses |-> <<>>,
              pc |-> "text", error |-> ""]

At(i) == IF i \in 1..Len(fmt) THEN fmt[i] ELSE NUL

IsDigit(c) == c \in {Digits[k] : k \in 1..10}
DigitOf(c) == CHOOSE n \in 0..9 : Digits[n + 1] = c

\* The first position from i on where the text stops.
StopAt(i, stops) ==
  CHOOSE j \in i..(Len(fmt) + 1) :
    /\ At(j) \in stops \cup {NUL}
    /\ \A k \in i..(j - 1) : At(k) \notin stops

-----------------------------------------------------------------------------
Go(q) == p' = q /\ UNCHANGED <<input, pieces>>
Fail(why) == Go([p EXCEPT !.pc = "error", !.error = why])

\* The uses of a piece are those of all arguments up to its end.
Piece(from, upto, spec, sts) == [from |-> from, upto |-> upto, spec |-> spec,
                                 sts |-> sts, uses |-> p.uses]

TextSt(from, to) == [op |-> "text", num |-> 0, spec |-> NoSpec,
                     str |-> SubSeq(fmt, from, to - 1)]

\* write(start, to), and the text goes on at upto.
WriteText(to, upto, q) ==
  /\ pieces' = Append(pieces, Piece(p.start, upto, NoSpec,
                                     <<TextSt(p.start, to)>>))
  /\ p' = q
  /\ UNCHANGED input

\* The statements of the field at p.field, which ends before upto.  A refused one
\* is the first of its field, so none of them is written.
WriteField(upto, spec, sts) ==
  IF \E k \in 1..Len(sts) : ~KnownType(sts[k])
  THEN Fail("refused by the writer")
  ELSE /\ pieces' = Append(pieces, Piece(p.field, upto, spec, sts))
       /\ p' = [p EXCEPT !.s = upto, !.start = upto, !.pc = "text"]
       /\ UNCHANGED input

-----------------------------------------------------------------------------
TooBig(value) == value > INT_MAX

\* parse_nonnegative_int from position i, a digit: the value and the position
\* after it.  The value wraps as an unsigned; the loop stops when the product got
\* smaller, which not every product that wrapped does.
ParseNumber(i) ==
  LET f[c \in {j \in i..Len(fmt) : IsDigit(At(j))} \X (0..UINT_MAX)] ==
        LET new == (c[2] * 10 + DigitOf(At(c[1]))) % IntWord
        IN  IF new < c[2] THEN [value |-> UINT_MAX, s |-> c[1] + 1]
            ELSE IF IsDigit(At(c[1] + 1)) THEN f[<<c[1] + 1, new>>]
            ELSE [value |-> new, s |-> c[1] + 1]
  IN  f[<<i, 0>>]

ArgAt(index) == IF index < MAX_ARGS /\ index < Len(args) THEN args[index + 1]
                ELSE NoArg

Found(index, next, auto) ==
  [arg |-> ArgAt(index), next |-> next,
   use |-> [auto |-> auto, index |-> index],
   error |-> IF ArgAt(index).type = "NONE" THEN "argument index out of range"
             ELSE ""]

Switched == [arg |-> NoArg, next |-> p.next_arg_index, error |-> "cannot switch",
             use |-> [auto |-> FALSE, index |-> 0]]

NextArg == IF p.next_arg_index >= 0
           THEN Found(p.next_arg_index, p.next_arg_index + 1, TRUE)
           ELSE Switched

\* Slip: a numbered argument does not end automatic numbering.
GetArgOnly(index) == IF p.next_arg_index <= 0
                     THEN Found(index, p.next_arg_index, FALSE) ELSE Switched

GetArg(index) == IF p.next_arg_index <= 0 THEN Found(index, -1, FALSE)
                 ELSE Switched

\* The parser after it took what look, a result of NextArg or GetArg, found.
Took(look) == [p EXCEPT !.next_arg_index = look.next,
                        !.uses = Append(@, look.use)]
=============================================================================
