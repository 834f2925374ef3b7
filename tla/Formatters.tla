----------------------------- MODULE Formatters -----------------------------
(* A format string is parsed and its fields are handed to the writer, in    *)
(* the brace syntax of BasicFormatter or in the printf syntax.              *)
EXTENDS BraceFormatter, PrintfFormatter

CONSTANT Calls  \* what the program formats: records syntax, fmt and args

\* A format string ends with its only NUL, which is not counted.
ASSUME StringAssumption == \A c \in Calls : c.fmt \in Seq(STRING \ {NUL})
\* What is counted are characters.
ASSUME CharAssumption == \A c \in Calls : \A k \in 1..Len(c.fmt) : c.fmt[k] # ""
ASSUME ArgumentAssumption ==
  \A c \in Calls : c.args \in Seq([type : STRING, num : Int, str : Seq(STRING)])

vars == <<syntax, fmt, args, p, pieces>>

Init ==
  /\ \E c \in Calls : syntax = c.syntax /\ fmt = c.fmt /\ args = c.args
  /\ p = NewParser
  /\ pieces = <<>>

Next == BraceNext \/ PrintfNext
Spec == Init /\ [][Next]_vars
FairSpec == Spec /\ WF_vars(Next)

-----------------------------------------------------------------------------
(* What a field means, read off its text without a parser: it is cut into   *)
(* parts, i..j-1 each, that fill it and say what is in its specification.   *)
Src(i, j) == SubSeq(fmt, i, j - 1)

Val(i, j) ==
  LET v[k \in (i - 1)..(j - 1)] ==
        IF k = i - 1 THEN 0 ELSE 10 * v[k - 1] + DigitOf(At(k))
  IN  v[j - 1]

\* n is the number at i..j-1, and an int.  A number that does not fit an unsigned
\* may be taken for its remainder instead (format.cc:235).
Means(i, j, n) == /\ i < j /\ \A k \in i..(j - 1) : IsDigit(At(k))
                  /\ n = Val(i, j) % IntWord
                  /\ n \in 0..INT_MAX

\* The argument that is used is the next one or the one numbered at i..j-1, with
\* numbers that begin at first.
Names(i, j, use, first) == IF i = j THEN use.auto
                           ELSE ~use.auto /\ Means(i, j, use.index + first)

Value(use) == args[use.index + 1]
FlagsOf(c) == CASE c = "+" -> {"SIGN", "PLUS"} [] c = " " -> {"SIGN"}
                [] c = "#" -> {"HASH"} [] c = "-" -> {"MINUS"} [] OTHER -> {}

\* Without a mark of its own the field {:} takes one that stands behind it.
BraceAlignment(i, j, spec) ==
  \/ /\ j = i /\ spec.fill = " "
     /\ spec.align = IF At(i) = "}" /\ At(i + 1) \in Marks
                     THEN AlignOf(At(i + 1)) ELSE "default"
  \/ /\ j = i + 1 /\ At(i) \in Marks
     /\ spec.align = AlignOf(At(i)) /\ spec.fill = " "
  \/ /\ j = i + 2 /\ At(i) \notin Braces /\ At(i + 1) \in Marks
     /\ spec.align = AlignOf(At(i + 1)) /\ spec.fill = At(i)

BraceSigns(i, j, spec) ==
  /\ Src(i, j) \in {<<>>, <<"#">>} \cup {<<c>> : c \in {"+", "-", " "}}
                     \cup {<<c, "#">> : c \in {"+", "-", " "}}
  /\ spec.flags = UNION {FlagsOf(At(k)) : k \in i..(j - 1)}

BracePrecisionIs(i, j, spec, uses) ==
  \/ i = j /\ spec.precision = -1 /\ Len(uses) = 1
  \/ At(i) = "." /\ Means(i + 1, j, spec.precision) /\ Len(uses) = 1
  \/ /\ i < j /\ At(i) = "." /\ At(i + 1) = "{" /\ At(j - 1) = "}" /\ Len(uses) = 2
     /\ Names(i + 2, j - 1, uses[2], 0)
     /\ spec.precision = Value(uses[2]).num

\* "{" index [":" [[fill] align] [sign] ["#"] [width] [precision] [type]] "}"
BraceDenotes(f, uses) ==
  LET last == f.upto - 1
      spec == f.spec
  IN  /\ At(f.from) = "{" /\ At(last) = "}"
      /\ f.sts = <<Visit(Printed(Value(uses[1])), spec)>>
      /\ \E i \in (f.from + 1)..last :
           /\ Names(f.from + 1, i, uses[1], 0)
           /\ \/ i = last /\ spec = NoSpec /\ Len(uses) = 1
              \/ /\ At(i) = ":"
                 /\ \E a, h \in (i + 1)..last :
                    /\ a <= h /\ BraceSigns(a, h, spec)
                    /\ \E w \in h..last :
                       /\ IF w = h THEN spec.width = 0
                          ELSE Means(h, w, spec.width)
                       /\ IF w > h /\ At(h) = "0"
                          THEN /\ spec.align = "numeric" /\ spec.fill = "0"
                               /\ a = i + 1 \/ At(a - 1) \in Marks
                          ELSE BraceAlignment(i + 1, a, spec)
                       /\ \E r \in w..last :
                          /\ BracePrecisionIs(w, r, spec, uses)
                          /\ Src(r, last) = IF spec.type = "" THEN <<>>
                                            ELSE <<spec.type>>

-----------------------------------------------------------------------------
\* A star stands for the next argument; a negative width aligns left.
Starred(i, j, use) == Src(i, j) = <<"*">> /\ use.auto

\* A point alone is no precision.
PrintfPrecisionIs(i, j, spec) ==
  \/ Src(i, j) \in {<<>>, <<".">>} /\ spec.precision = -1
  \/ At(i) = "." /\ Means(i + 1, j, spec.precision)

Lengths == {<<>>} \cup {<<c>> : c \in Letters} \cup {<<"h", "h">>, <<"l", "l">>}

\* Zeros replace the alignment for numbers, and are ignored for the rest.
PrintfLayout(flags, left, arg, spec) ==
  LET zeros == "0" \in flags /\ Numeric(arg)
      given == UNION {FlagsOf(c) : c \in flags \ {"-"}}
  IN  /\ spec.fill = IF zeros THEN "0" ELSE " "
      /\ spec.align = IF zeros THEN "numeric" ELSE IF left THEN "left" ELSE "right"
      /\ spec.flags = IF arg.type \in IntegerTypes /\ arg.num = 0
                      THEN given \ {"HASH"} ELSE given

\* The number n that is shown for arg: the remainder that the type of length and
\* conversion holds.  The wide types hold what the argument's own type holds, as
\* an unsigned unless both are wide and signed.
Holds(arg, length, signed, n) ==
  LET wide == arg.type \in {"LONG_LONG", "ULONG_LONG"}
      own  == IF wide THEN LongWord ELSE IntWord
      word == CASE length = <<>> -> IntWord [] length = <<"h">> -> ShortWord
                [] length = <<"h", "h">> -> CharWord [] OTHER -> own
      negative == signed /\ (wide \/ length \in {<<>>, <<"h">>, <<"h", "h">>})
  IN  IF length = <<"L">> THEN n = arg.num
      ELSE /\ (n - arg.num) % word = 0
           /\ n \in IF negative THEN -(word \div 2)..(word \div 2 - 1)
                    ELSE 0..(word - 1)

PrintfShows(arg, length, conversion, spec, sts) ==
  LET st == sts[1]
      char(s) == /\ s.op = "char" /\ s.str = <<Chr(arg.num)>>
                 /\ s.spec.width = spec.width /\ s.spec.fill = " "
                 /\ s.spec.align = IF spec.align = "left" THEN "left" ELSE "right"
  IN  \/ arg.type = "DOUBLE" /\ sts = <<St("double", arg, spec)>>
      \/ /\ arg.type = "POINTER" /\ conversion = "p"
         /\ sts = <<St("int", arg, [spec EXCEPT !.flags = {"HASH"}, !.type = "x"])>>
      \/ /\ arg.type \notin NumericTypes \cup {"POINTER", "CUSTOM"}
         /\ sts = <<St("str", arg, spec)>>
      \/ arg.type \in IntegerTypes /\ conversion = "c" /\ Len(sts) = 1 /\ char(st)
      \/ /\ arg.type \in IntegerTypes /\ conversion # "c"
         /\ st.op = "int" /\ st.spec = spec
         /\ Holds(arg, length, conversion \in {"d", "i"}, st.num)
         /\ \/ Len(sts) = 1 /\ ~(arg.type = "CHAR" /\ length = <<"L">>)
            \/ Len(sts) = 2 /\ arg.type = "CHAR" /\ length = <<"L">> /\ char(sts[2])

\* "%" [index "$"] [flags] [width] [precision] [length] conversion
PrintfDenotes(f, uses) ==
  LET last == f.upto - 1
      n    == Len(uses)
      arg  == Value(uses[n])
      whole == arg.type \in IntegerTypes
  IN  /\ At(f.from) = "%"
      /\ f.spec.type = IF whole /\ At(last) \in {"i", "u"} THEN "d" ELSE At(last)
      /\ \E i \in (f.from + 1)..last :
           /\ \/ i = f.from + 1 /\ uses[n].auto
              \/ At(i - 1) = "$" /\ Names(f.from + 1, i - 1, uses[n], 1)
           /\ \E g \in i..last :
              /\ \A k \in i..(g - 1) : At(k) \in Flags
              /\ \E w \in g..last, r \in g..last :
                 LET given == {At(k) : k \in i..(g - 1)}
                     star  == Src(g, w) = <<"*">>
                     wide  == IF star THEN Value(uses[1]).num ELSE f.spec.width
                     point == Src(w, r) = <<".", "*">>
                 IN  /\ w <= r /\ At(g) # "0"
                     /\ \/ w = g /\ f.spec.width = 0
                        \/ Means(g, w, f.spec.width)
                        \/ star /\ uses[1].auto /\ f.spec.width = Abs(wide)
                     /\ \/ PrintfPrecisionIs(w, r, f.spec)
                        \/ point /\ uses[n - 1].auto
                             /\ f.spec.precision = Value(uses[n - 1]).num
                     /\ n = 1 + (IF star THEN 1 ELSE 0) + (IF point THEN 1 ELSE 0)
                     /\ PrintfLayout(given, "-" \in given \/ wide < 0, arg, f.spec)
                     /\ Src(r, last) \in Lengths
                     /\ PrintfShows(arg, Src(r, last), At(last), f.spec, f.sts)

-----------------------------------------------------------------------------
\* The fields have their types, and neither parser gets past the NUL at the end
\* of the string, whatever the string (format.cc:774-943, 945-1105).
TypeOK ==
  /\ p.s \in 1..(Len(fmt) + 1)
  /\ p.start \in 1..p.s /\ p.field \in 1..p.s
  /\ p.next_arg_index \in -1..MAX_ARGS
  /\ p.spec.width \in 0..INT_MAX
  /\ p.spec.precision \in (-INT_MAX - 1)..INT_MAX
  /\ p.pc = "error" <=> p.error # ""

\* All arguments of a string are taken in their order or all by their number, also
\* those that give a width or a precision, and every one that is used was passed
\* (format.cc:663-736).
OneIndexing ==
  \A k \in 1..Len(p.uses) :
    /\ p.uses[k].index < Len(args) /\ p.uses[k].index < MAX_ARGS
    /\ p.uses[k].auto = p.uses[1].auto
    /\ p.uses[k].auto => p.uses[k].index = k - 1

Literal(f) ==
  LET text == Src(f.from, f.upto)
      n    == Len(text)
      ends == IF syntax = "brace" THEN Braces ELSE {"%"}
      lone(s) == \A k \in 1..Len(s) : s[k] \notin ends
  IN  \/ f.sts[1].str = text /\ lone(text)
      \/ /\ n > 1 /\ text[n] \in ends /\ text[n - 1] = text[n]
         /\ f.sts[1].str = SubSeq(text, 1, n - 1) /\ lone(SubSeq(text, 1, n - 2))

\* What was handed to the writer covers the string up to here without a gap and
\* without an overlap; outside of fields it is the string itself, with doubled
\* delimiters once (format.cc:774-792, 940-942, 1085-1105).
LiteralsKept ==
  /\ pieces # <<>> => pieces[1].from = 1
  /\ \A k \in 1..Len(pieces) :
       /\ k > 1 => pieces[k].from = pieces[k - 1].upto
       /\ pieces[k].sts[1].op = "text" => Literal(pieces[k])
  /\ p.pc = "text" /\ pieces # <<>> => pieces[Len(pieces)].upto = p.start
  /\ p.pc = "done" => pieces[Len(pieces)].upto = Len(fmt) + 1

\* A field is written as its text says: with the argument, alignment, fill, flags,
\* width, precision and type that are spelled in it, and an integer as the value
\* its length leaves of it.  Checked for each field when it has just been written
\* (format.cc:738-943, 945-1083).
FieldsDenote ==
  LET f == pieces[Len(pieces)]
      before == Len(pieces[Len(pieces) - 1].uses)
      uses == SubSeq(f.uses, before + 1, Len(f.uses))
  IN  p.pc = "text" /\ pieces # <<>> /\ f.sts[1].op # "text" =>
        IF syntax = "brace" THEN BraceDenotes(f, uses) ELSE PrintfDenotes(f, uses)

\* Every call returns or throws: no string keeps a parser busy for ever
\* (format.cc:700-725, 1085-1105).
CallEnds == <>(p.pc \in {"done", "error"})
=============================================================================
