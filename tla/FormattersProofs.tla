--------------------------- MODULE FormattersProofs ---------------------------
(***************************************************************************)
(* Theorems about Formatters, for every format string, every argument list *)
(* and all limits.                                                         *)
(***************************************************************************)
EXTENDS Formatters, SequenceTheorems, WellFoundedInduction, TLAPS

-----------------------------------------------------------------------------
(* Which arguments were used                                               *)

ParserFields == {"s", "start", "field", "next_arg_index", "arg", "spec", "index", "uses", "pc", "error"}

\* Arguments were taken in their order, and next_arg_index counts them, or by
\* their number, and it is -1; all of them were passed.
Indexed(q) ==
  /\ DOMAIN q = ParserFields /\ \E U : q.uses \in Seq(U)
  /\ \A k \in 1..Len(q.uses) : q.uses[k].index < Len(args) /\ q.uses[k].index < MAX_ARGS
  /\ \/ /\ q.next_arg_index = Len(q.uses)
        /\ \A k \in 1..Len(q.uses) : q.uses[k].auto = TRUE /\ q.uses[k].index = k - 1
     \/ /\ q.next_arg_index = -1 /\ Len(q.uses) > 0
        /\ \A k \in 1..Len(q.uses) : q.uses[k].auto = FALSE

\* What a step does to that: nothing, or it takes one more argument.
Untouched(q) ==
  DOMAIN q = ParserFields /\ q.uses = p.uses /\ q.next_arg_index = p.next_arg_index
Looks(look) == look.error = "" /\ (look = NextArg \/ \E n : look = GetArg(n))
Takes(q, look) ==
  /\ DOMAIN q = ParserFields /\ q.uses = Append(p.uses, look.use) /\ q.next_arg_index = look.next
  /\ Looks(look)

IInv == Indexed(p)

\* What the two ways to find an argument return when they do.
LEMMA FoundUse ==
  ASSUME NEW n, NEW next, NEW auto \in BOOLEAN, Found(n, next, auto).error = ""
  PROVE  /\ n < Len(args) /\ n < MAX_ARGS
         /\ Found(n, next, auto).use = [auto |-> auto, index |-> n]
         /\ Found(n, next, auto).next = next
<1>1. ArgAt(n).type # "NONE"
  BY DEF Found
<1>2. n < Len(args) /\ n < MAX_ARGS
  BY <1>1 DEF ArgAt, NoArg
<1> QED
  BY <1>2 DEF Found

\* next_arg takes the argument that is next, and counts it.
LEMMA NextArgFinds ==
  ASSUME NextArg.error = ""
  PROVE  LET n == p.next_arg_index
         IN  /\ n >= 0 /\ n < Len(args) /\ n < MAX_ARGS
             /\ NextArg.use = [auto |-> TRUE, index |-> n] /\ NextArg.next = n + 1
<1>1. Switched.error # ""
  BY DEF Switched
<1>2. p.next_arg_index >= 0
  BY <1>1 DEF NextArg
<1>3. NextArg = Found(p.next_arg_index, p.next_arg_index + 1, TRUE)
  BY <1>2 DEF NextArg
<1> QED
  BY <1>2, <1>3, FoundUse

\* get_arg takes the argument with the number, and ends automatic numbering.
LEMMA GetArgFinds ==
  ASSUME NEW n, GetArg(n).error = ""
  PROVE  /\ p.next_arg_index <= 0 /\ n < Len(args) /\ n < MAX_ARGS
         /\ GetArg(n).use = [auto |-> FALSE, index |-> n] /\ GetArg(n).next = -1
<1>1. Switched.error # ""
  BY DEF Switched
<1>2. p.next_arg_index <= 0
  BY <1>1 DEF GetArg
<1> DEFINE found == Found(n, -1, FALSE)
<1>3. GetArg(n) = found
  BY <1>2 DEF GetArg
<1>4. found.error = ""
  BY <1>3
<1>5. /\ n < Len(args) /\ n < MAX_ARGS
      /\ found.use = [auto |-> FALSE, index |-> n] /\ found.next = -1
  BY <1>4, FoundUse
<1> HIDE DEF found
<1> QED
  BY <1>2, <1>3, <1>5

\* One more argument of the same kind.
LEMMA TakesIndexed ==
  ASSUME IInv, NEW q, NEW look, Takes(q, look)
  PROVE  Indexed(q)
<1> DEFINE n == Len(p.uses)
<1>1. PICK U : p.uses \in Seq(U)
  BY DEF IInv, Indexed
<1> DEFINE W == U \cup {look.use}
<1>2. p.uses \in Seq(W) /\ look.use \in W /\ n \in Nat
  BY <1>1
<1> HIDE DEF W
<1>3. /\ DOMAIN q = ParserFields /\ q.uses = Append(p.uses, look.use) /\ q.next_arg_index = look.next
      /\ look.error = ""
  BY DEF Takes, Looks
<1>4. /\ q.uses \in Seq(W) /\ Len(q.uses) = n + 1 /\ q.uses[n + 1] = look.use
      /\ \A k \in 1..n : q.uses[k] = p.uses[k]
  <2>1. q.uses = Append(p.uses, look.use)
    BY <1>3
  <2>2. Append(p.uses, look.use) \in Seq(W) /\ Len(Append(p.uses, look.use)) = n + 1
    BY <1>2
  <2>3. Append(p.uses, look.use)[n + 1] = look.use
    BY <1>2
  <2>4. \A k \in 1..n : Append(p.uses, look.use)[k] = p.uses[k]
    BY <1>2
  <2> QED
    BY <2>1, <2>2, <2>3, <2>4
<1>5. ASSUME look = NextArg
      PROVE  Indexed(q)
  <2>1. /\ p.next_arg_index >= 0 /\ p.next_arg_index < Len(args) /\ p.next_arg_index < MAX_ARGS
        /\ look.use = [auto |-> TRUE, index |-> p.next_arg_index] /\ look.next = p.next_arg_index + 1
    BY <1>3, <1>5, NextArgFinds
  <2>2. p.next_arg_index # -1
    BY <2>1
  <2>3. p.next_arg_index = n /\ \A k \in 1..n : p.uses[k].auto = TRUE /\ p.uses[k].index = k - 1
    BY <2>2 DEF IInv, Indexed
  <2>4. look.use.auto = TRUE /\ look.use.index = n /\ look.next = n + 1
    BY <2>1, <2>3
  <2>5. \A k \in 1..Len(q.uses) : q.uses[k].auto = TRUE /\ q.uses[k].index = k - 1
    BY <1>2, <1>4, <2>3, <2>4
  <2>6. \A k \in 1..Len(q.uses) : q.uses[k].index < Len(args) /\ q.uses[k].index < MAX_ARGS
    BY <1>2, <1>4, <2>1, <2>3, <2>4 DEF IInv, Indexed
  <2> QED
    BY <1>3, <1>4, <2>4, <2>5, <2>6 DEF Indexed
<1>6. ASSUME NEW i, look = GetArg(i)
      PROVE  Indexed(q)
  <2>1. /\ p.next_arg_index <= 0 /\ i < Len(args) /\ i < MAX_ARGS
        /\ look.use = [auto |-> FALSE, index |-> i] /\ look.next = -1
    BY <1>3, <1>6, GetArgFinds
  <2>2. \A k \in 1..n : p.uses[k].auto = FALSE
    BY <1>2, <2>1 DEF IInv, Indexed
  <2>3. look.use.auto = FALSE /\ look.use.index = i
    BY <2>1
  <2>5. \A k \in 1..Len(q.uses) : q.uses[k].auto = FALSE
    BY <1>2, <1>4, <2>2, <2>3
  <2>6. \A k \in 1..Len(q.uses) : q.uses[k].index < Len(args) /\ q.uses[k].index < MAX_ARGS
    BY <1>2, <1>4, <2>1, <2>3 DEF IInv, Indexed
  <2>7. Len(q.uses) > 0
    BY <1>2, <1>4
  <2> QED
    BY <1>3, <1>4, <2>1, <2>5, <2>6, <2>7 DEF Indexed
<1> QED
  BY <1>5, <1>6 DEF Takes, Looks

-----------------------------------------------------------------------------
(* What each part of a field does to the uses                              *)

Step == args' = args /\ (Untouched(p') \/ \E look : Takes(p', look))

\* Going on with another argument of the same kind keeps the invariant.
LEMMA StepIndexed ==
  ASSUME IInv, Step
  PROVE  IInv'
<1>1. DOMAIN p = ParserFields
  BY DEF IInv, Indexed
<1>2. CASE Untouched(p')
  <2>1. Indexed(p)
    BY DEF IInv
  <2> QED
    BY <1>2, <2>1 DEF Step, Untouched, IInv, Indexed
<1>3. CASE \E look : Takes(p', look)
  <2>1. PICK q : q = p'
    OBVIOUS
  <2>2. PICK look : Takes(q, look)
    BY <1>3, <2>1
  <2>3. Indexed(q)
    BY <2>2, TakesIndexed
  <2> QED
    BY <2>1, <2>3 DEF Step, IInv, Indexed
<1> QED
  BY <1>2, <1>3 DEF Step

\* A step that changes nothing of the uses, or that fails.
LEMMA GoStep ==
  ASSUME NEW q, Untouched(q), Go(q)
  PROVE  Step
BY DEF Go, input, Step, Untouched

\* A call that fails took nothing more.
LEMMA FailStep ==
  ASSUME IInv, NEW why, Fail(why)
  PROVE  Step
<1>1. Untouched([p EXCEPT !.pc = "error", !.error = why])
  BY DEF IInv, Indexed, Untouched, ParserFields
<1> QED
  BY <1>1, GoStep DEF Fail

\* A stretch of text takes no argument.
LEMMA TextStep ==
  ASSUME NEW q, Untouched(q), NEW to, NEW upto, WriteText(to, upto, q)
  PROVE  Step
BY DEF WriteText, input, Step, Untouched

\* Neither does the writing of a field whose arguments were found before.
LEMMA FieldStep ==
  ASSUME IInv, NEW upto, NEW spec, NEW sts, WriteField(upto, spec, sts)
  PROVE  Step
<1>1. CASE Fail("refused by the writer")
  BY <1>1, FailStep
<1>2. CASE p' = [p EXCEPT !.s = upto, !.start = upto, !.pc = "text"] /\ UNCHANGED input
  BY <1>2 DEF input, Step, Untouched, IInv, Indexed, ParserFields
<1> QED
  BY <1>1, <1>2 DEF WriteField

\* What was looked for and found is taken.
LEMMA TookStep ==
  ASSUME IInv, NEW look, Looks(look), NEW q, Go(q),
         q.uses = Took(look).uses, q.next_arg_index = Took(look).next_arg_index,
         DOMAIN q = ParserFields
  PROVE  Step
<1>1. DOMAIN p = ParserFields
  BY DEF IInv, Indexed
<1>2. Took(look).uses = Append(p.uses, look.use) /\ Took(look).next_arg_index = look.next
  BY <1>1 DEF Took, ParserFields
<1>3. Takes(q, look)
  BY <1>2 DEF Takes
<1> QED
  BY <1>3 DEF Go, input, Step

\* The fields of a parser that took an argument.
LEMMA TookFields ==
  ASSUME IInv, NEW look
  PROVE  DOMAIN Took(look) = ParserFields
BY DEF Took, IInv, Indexed

-----------------------------------------------------------------------------
(* The brace syntax                                                        *)

\* Text, escapes and stray braces.
LEMMA BraceTextStep ==
  ASSUME IInv, BraceEnd \/ BraceEscape \/ BraceUnmatched \/ BraceField
  PROVE  Step
<1> DEFINE j == StopAt(p.s, Braces)
<1>1. DOMAIN p = ParserFields
  BY DEF IInv, Indexed
<1>2. CASE BraceEnd
  <2>1. Untouched([p EXCEPT !.s = j, !.start = j, !.pc = "done"])
    BY <1>1 DEF Untouched, ParserFields
  <2> QED
    BY <1>2, <2>1, TextStep DEF BraceEnd
<1>3. CASE BraceEscape
  <2>1. Untouched([p EXCEPT !.s = j + 2, !.start = j + 2])
    BY <1>1 DEF Untouched, ParserFields
  <2> QED
    BY <1>3, <2>1, TextStep DEF BraceEscape
<1>4. CASE BraceUnmatched
  BY <1>4, FailStep DEF BraceUnmatched
<1>5. CASE BraceField
  <2>1. Untouched([p EXCEPT !.s = j + 1, !.field = j, !.pc = "index"])
    BY <1>1 DEF Untouched, ParserFields
  <2> QED
    BY <1>5, <2>1, TextStep DEF BraceField
<1> QED
  BY <1>2, <1>3, <1>4, <1>5

\* What parse_arg_index returns when it does not throw.
LEMMA ArgIndexLooks ==
  ASSUME NEW i, ParseArgIndex(i).error = ""
  PROVE  Looks(ParseArgIndex(i).look)
<1> DEFINE number == ParseNumber(i)
           look   == IF IsDigit(At(i)) THEN GetArg(number.value) ELSE NextArg
<1>1. ParseArgIndex(i).look = look
  BY DEF ParseArgIndex
<1>2. CASE look.error = ""
  BY <1>1, <1>2 DEF Looks
<1>3. CASE look.error # ""
  <2>1. ParseArgIndex(i).error # ""
    BY <1>3 DEF ParseArgIndex
  <2> QED
    BY <2>1
<1> QED
  BY <1>2, <1>3

\* The argument of a field.
LEMMA BraceIndexStep ==
  ASSUME IInv, BraceIndex
  PROVE  Step
<1> DEFINE r == ParseArgIndex(p.s)
           q == [Took(r.look) EXCEPT
                   !.arg = Printed(r.look.arg), !.spec = NoSpec, !.s = r.s,
                   !.pc = IF At(r.s) = ":" THEN "align" ELSE "close"]
<1>1. CASE r.error # ""
  BY <1>1, FailStep DEF BraceIndex
<1>2. CASE r.error = ""
  <2>1. Go(q)
    BY <1>2 DEF BraceIndex
  <2>2. Looks(r.look)
    BY <1>2, ArgIndexLooks
  <2>3. DOMAIN Took(r.look) = ParserFields
    BY TookFields
  <2>4. /\ DOMAIN q = ParserFields /\ q.uses = Took(r.look).uses
        /\ q.next_arg_index = Took(r.look).next_arg_index
    BY <2>3 DEF ParserFields
  <2> HIDE DEF r, q
  <2> QED
    BY <2>1, <2>2, <2>4, TookStep
<1> QED
  BY <1>1, <1>2

\* Alignment, sign, mark of the base, width and type take none.
LEMMA BraceSpecStep ==
  ASSUME IInv, BraceAlign \/ BraceSign \/ BraceHash \/ BraceWidth \/ BraceType
  PROVE  Step
<1>1. DOMAIN p = ParserFields
  BY DEF IInv, Indexed
<1>2. CASE BraceAlign
  <2> DEFINE s == p.s + 1
             c == At(s)
             filled == c # NUL /\ At(s + 1) \in Marks
             mark == IF filled THEN At(s + 1) ELSE c
             aligned == [p EXCEPT !.spec.align = AlignOf(mark), !.pc = "sign"]
  <2>1. Untouched([p EXCEPT !.s = s, !.pc = "sign"])
    BY <1>1 DEF Untouched, ParserFields
  <2>2. Untouched(aligned)
    BY <1>1 DEF Untouched, ParserFields
  <2> HIDE DEF aligned
  <2>3. Untouched([aligned EXCEPT !.s = s])
    BY <2>2 DEF Untouched, ParserFields
  <2>4. Untouched([aligned EXCEPT !.s = s + 2, !.spec.fill = c])
    BY <2>2 DEF Untouched, ParserFields
  <2>5. Untouched([aligned EXCEPT !.s = s + 1])
    BY <2>2 DEF Untouched, ParserFields
  <2>6. \/ Go([p EXCEPT !.s = s, !.pc = "sign"]) \/ Go([aligned EXCEPT !.s = s])
        \/ Go([aligned EXCEPT !.s = s + 2, !.spec.fill = c])
        \/ Go([aligned EXCEPT !.s = s + 1]) \/ \E why : Fail(why)
    BY <1>2 DEF BraceAlign, aligned
  <2> QED
    BY <2>1, <2>3, <2>4, <2>5, <2>6, GoStep, FailStep
<1>3. CASE BraceSign
  <2>1. Untouched([p EXCEPT !.pc = "hash"])
    BY <1>1 DEF Untouched, ParserFields
  <2>2. Untouched([p EXCEPT !.spec.flags = SignFlags(At(p.s)), !.s = @ + 1, !.pc = "hash"])
    BY <1>1 DEF Untouched, ParserFields
  <2> QED
    BY <1>3, <2>1, <2>2, GoStep, FailStep DEF BraceSign
<1>4. CASE BraceHash
  <2>1. Untouched([p EXCEPT !.pc = "width"])
    BY <1>1 DEF Untouched, ParserFields
  <2>2. Untouched([p EXCEPT !.spec.flags = @ \cup {"HASH"}, !.s = @ + 1, !.pc = "width"])
    BY <1>1 DEF Untouched, ParserFields
  <2> QED
    BY <1>4, <2>1, <2>2, GoStep, FailStep DEF BraceHash
<1>5. CASE BraceWidth
  <2> DEFINE number == ParseNumber(p.s)
             zero == At(p.s) = "0"
             q == [p EXCEPT !.spec.align = IF zero THEN "numeric" ELSE @,
                            !.spec.fill = IF zero THEN "0" ELSE @,
                            !.spec.width = number.value,
                            !.s = number.s, !.pc = "precision"]
  <2>1. Untouched([p EXCEPT !.pc = "precision"])
    BY <1>1 DEF Untouched, ParserFields
  <2>2. Untouched(q)
    BY <1>1 DEF Untouched, ParserFields
  <2>3. Go([p EXCEPT !.pc = "precision"]) \/ Go(q) \/ \E why : Fail(why)
    BY <1>5 DEF BraceWidth
  <2> HIDE DEF q
  <2> QED
    BY <2>1, <2>2, <2>3, GoStep, FailStep
<1>6. CASE BraceType
  <2>1. Untouched([p EXCEPT !.pc = "close"])
    BY <1>1 DEF Untouched, ParserFields
  <2>2. Untouched([p EXCEPT !.spec.type = At(p.s), !.s = @ + 1, !.pc = "close"])
    BY <1>1 DEF Untouched, ParserFields
  <2> QED
    BY <1>6, <2>1, <2>2, GoStep DEF BraceType
<1> QED
  BY <1>2, <1>3, <1>4, <1>5, <1>6

\* The precision may be an argument of its own.
LEMMA BracePrecisionStep ==
  ASSUME IInv, BracePrecision
  PROVE  Step
<1> DEFINE number == ParseNumber(p.s + 1)
           r == ParseArgIndex(p.s + 2)
           by == r.look.arg
           plain == [p EXCEPT !.pc = "type"]
           given == [[p EXCEPT !.s = number.s] EXCEPT !.spec.precision = number.value,
                                                      !.pc = "type"]
           taken == [[Took(r.look) EXCEPT !.s = r.s + 1]
                       EXCEPT !.spec.precision = by.num, !.pc = "type"]
<1>1. DOMAIN p = ParserFields
  BY DEF IInv, Indexed
<1>2. Untouched(plain) /\ Untouched(given)
  BY <1>1 DEF Untouched, ParserFields
<1>3. \/ Go(plain) \/ Go(given) \/ \E why : Fail(why)
      \/ r.error = "" /\ Go(taken)
  BY DEF BracePrecision, Precise
<1>4. ASSUME r.error = "", Go(taken)
      PROVE  Step
  <2>1. Looks(r.look)
    BY <1>4, ArgIndexLooks
  <2>2. DOMAIN Took(r.look) = ParserFields
    BY TookFields
  <2>3. /\ DOMAIN taken = ParserFields /\ taken.uses = Took(r.look).uses
        /\ taken.next_arg_index = Took(r.look).next_arg_index
    BY <2>2 DEF ParserFields
  <2>4. Go(taken)
    BY <1>4
  <2> HIDE DEF r, taken
  <2> QED
    BY <2>1, <2>3, <2>4, TookStep
<1> HIDE DEF plain, given, taken, r
<1> QED
  BY <1>2, <1>3, <1>4, GoStep, FailStep

\* Every action of the brace syntax.
LEMMA BraceStep ==
  ASSUME IInv, BraceNext
  PROVE  Step
<1>1. CASE BraceClose
  BY <1>1, FailStep, FieldStep DEF BraceClose
<1> QED
  BY <1>1, BraceTextStep, BraceIndexStep, BraceSpecStep, BracePrecisionStep
     DEF BraceNext

-----------------------------------------------------------------------------
(* The printf syntax                                                       *)

\* Text, escapes and the beginning of a field.
LEMMA PrintfTextStep ==
  ASSUME IInv, PrintfEnd \/ PrintfEscape \/ PrintfField
  PROVE  Step
<1> DEFINE j == StopAt(p.s, {"%"})
<1>1. DOMAIN p = ParserFields
  BY DEF IInv, Indexed
<1>2. CASE PrintfEnd
  <2>1. Untouched([p EXCEPT !.s = j, !.start = j, !.pc = "done"])
    BY <1>1 DEF Untouched, ParserFields
  <2> QED
    BY <1>2, <2>1, TextStep DEF PrintfEnd
<1>3. CASE PrintfEscape
  <2>1. Untouched([p EXCEPT !.s = j + 2, !.start = j + 2])
    BY <1>1 DEF Untouched, ParserFields
  <2> QED
    BY <1>3, <2>1, TextStep DEF PrintfEscape
<1>4. CASE PrintfField
  <2> DEFINE q == [p EXCEPT !.s = j + 1, !.field = j, !.pc = "header", !.index = AUTO,
                            !.spec = [NoSpec EXCEPT !.align = "right"]]
  <2>1. Untouched(q)
    BY <1>1 DEF Untouched, ParserFields
  <2>2. WriteText(j, j, q)
    BY <1>4 DEF PrintfField
  <2> HIDE DEF q
  <2> QED
    BY <2>1, <2>2, TextStep
<1> QED
  BY <1>2, <1>3, <1>4

\* Number, flags and conversion take no argument.
LEMMA PrintfSpecStep ==
  ASSUME IInv, PrintfHeader \/ PrintfFlags \/ PrintfConversion
  PROVE  Step
<1>1. DOMAIN p = ParserFields
  BY DEF IInv, Indexed
<1>2. CASE PrintfHeader
  <2> DEFINE number == ParseNumber(p.s)
             c == At(p.s)
             width == [p EXCEPT !.s = number.s,
                            !.spec.fill = IF c = "0" THEN "0" ELSE @,
                            !.spec.width = number.value,
                            !.pc = IF number.value # 0 THEN "precision" ELSE "flags"]
             index == [p EXCEPT !.s = number.s + 1, !.index = number.value, !.pc = "flags"]
  <2>1. Untouched([p EXCEPT !.pc = "flags"]) /\ Untouched(index)
    BY <1>1 DEF Untouched, ParserFields
  <2>2. Untouched(width)
    BY <1>1 DEF Untouched, ParserFields
  <2>3. Go([p EXCEPT !.pc = "flags"]) \/ Go(index) \/ Go(width) \/ \E why : Fail(why)
    BY <1>2 DEF PrintfHeader
  <2> HIDE DEF width, index
  <2> QED
    BY <2>1, <2>2, <2>3, GoStep, FailStep
<1>3. CASE PrintfFlags
  <2>1. ASSUME NEW given
        PROVE  Untouched(Flagged(given))
    BY <1>1 DEF Untouched, ParserFields, Flagged
  <2> QED
    BY <1>3, <2>1, GoStep DEF PrintfFlags
<1>4. CASE PrintfConversion
  <2>1. (\E why : Fail(why)) \/ \E upto, spec, sts : WriteField(upto, spec, sts)
    BY <1>4 DEF PrintfConversion
  <2> QED
    BY <2>1, FailStep, FieldStep
<1> QED
  BY <1>2, <1>3, <1>4

\* What PrintfFormatter::get_arg returns when it does not throw.
LEMMA LookLooks ==
  ASSUME NEW index, NEW s, Look(index, s).error = ""
  PROVE  Looks(Look(index, s))
<1> DEFINE look == IF index = AUTO THEN NextArg ELSE GetArg((index - 1) % IntWord)
<1>1. CASE look.error # "" /\ At(s) = NUL
  <2>1. Look(index, s) = [look EXCEPT !.error = "invalid format string"]
    BY <1>1 DEF Look
  <2>2. look.error # ""
    BY <1>1
  <2>3. look \in [arg : {look.arg}, next : {look.next}, use : {look.use}, error : {look.error}]
    BY DEF NextArg, GetArg, Found, Switched
  <2> HIDE DEF look
  <2>4. [look EXCEPT !.error = "invalid format string"].error = "invalid format string"
    BY <2>3
  <2> QED
    BY <2>1, <2>4
<1>2. CASE ~(look.error # "" /\ At(s) = NUL)
  <2>1. Look(index, s) = look
    BY <1>2 DEF Look
  <2> QED
    BY <2>1 DEF Looks
<1> QED
  BY <1>1, <1>2

\* The width may be an argument of its own.
LEMMA PrintfWidthStep ==
  ASSUME IInv, PrintfWidth
  PROVE  Step
<1> DEFINE number == ParseNumber(p.s)
           look == Look(AUTO, p.s + 1)
           none == [p EXCEPT !.pc = "precision"]
           given == [p EXCEPT !.spec.width = number.value, !.s = number.s,
                              !.pc = "precision"]
           taken == [Took(look) EXCEPT
                       !.spec.width = Abs(look.arg.num),
                       !.spec.align = IF look.arg.num < 0 THEN "left" ELSE @,
                       !.s = @ + 1, !.pc = "precision"]
<1>1. DOMAIN p = ParserFields
  BY DEF IInv, Indexed
<1>2. Untouched(none) /\ Untouched(given)
  BY <1>1 DEF Untouched, ParserFields
<1>3. \/ Go(none) \/ Go(given) \/ \E why : Fail(why)
      \/ look.error = "" /\ Go(taken)
  BY DEF PrintfWidth
<1>4. ASSUME look.error = "", Go(taken)
      PROVE  Step
  <2>1. Looks(look)
    BY <1>4, LookLooks
  <2>2. DOMAIN Took(look) = ParserFields
    BY TookFields
  <2>3. /\ DOMAIN taken = ParserFields /\ taken.uses = Took(look).uses
        /\ taken.next_arg_index = Took(look).next_arg_index
    BY <2>2 DEF ParserFields
  <2>4. Go(taken)
    BY <1>4
  <2> HIDE DEF look, taken
  <2> QED
    BY <2>1, <2>3, <2>4, TookStep
<1> HIDE DEF none, given, taken, look
<1> QED
  BY <1>2, <1>3, <1>4, GoStep, FailStep

\* So may the precision.
LEMMA PrintfPrecisionStep ==
  ASSUME IInv, PrintfPrecision
  PROVE  Step
<1> DEFINE number == ParseNumber(p.s + 1)
           look == Look(AUTO, p.s + 2)
           none == [p EXCEPT !.pc = "argument"]
           point == [p EXCEPT !.s = @ + 1, !.pc = "argument"]
           given == [p EXCEPT !.spec.precision = number.value, !.s = number.s,
                              !.pc = "argument"]
           taken == [Took(look) EXCEPT !.spec.precision = look.arg.num, !.s = @ + 2,
                                       !.pc = "argument"]
<1>1. DOMAIN p = ParserFields
  BY DEF IInv, Indexed
<1>2. Untouched(none) /\ Untouched(given) /\ Untouched(point)
  BY <1>1 DEF Untouched, ParserFields
<1>3. \/ Go(none) \/ Go(given) \/ Go(point) \/ \E why : Fail(why)
      \/ look.error = "" /\ Go(taken)
  BY DEF PrintfPrecision
<1>4. ASSUME look.error = "", Go(taken)
      PROVE  Step
  <2>1. Looks(look)
    BY <1>4, LookLooks
  <2>2. DOMAIN Took(look) = ParserFields
    BY TookFields
  <2>3. /\ DOMAIN taken = ParserFields /\ taken.uses = Took(look).uses
        /\ taken.next_arg_index = Took(look).next_arg_index
    BY <2>2 DEF ParserFields
  <2>4. Go(taken)
    BY <1>4
  <2> HIDE DEF look, taken
  <2> QED
    BY <2>1, <2>3, <2>4, TookStep
<1> HIDE DEF none, given, point, taken, look
<1> QED
  BY <1>2, <1>3, <1>4, GoStep, FailStep

\* The argument of a field.
LEMMA PrintfArgumentStep ==
  ASSUME IInv, PrintfArgument
  PROVE  Step
<1> DEFINE look == Look(p.index, p.s)
           arg  == look.arg
           fill == p.spec.fill = "0"
           taken == [Took(look) EXCEPT
                    !.arg = arg,
                    !.spec.flags = IF IsZeroInt(arg) THEN @ \ {"HASH"} ELSE @,
                    !.spec.align = IF fill /\ arg.type \in NumericTypes
                                   THEN "numeric" ELSE @,
                    !.spec.fill  = IF fill /\ arg.type \notin NumericTypes
                                   THEN " " ELSE @,
                    !.pc = "length"]
<1>1. (\E why : Fail(why)) \/ (look.error = "" /\ Go(taken))
  BY DEF PrintfArgument
<1>2. ASSUME look.error = "", Go(taken)
      PROVE  Step
  <2>1. Looks(look)
    BY <1>2, LookLooks
  <2>2. DOMAIN Took(look) = ParserFields
    BY TookFields
  <2>3. /\ DOMAIN taken = ParserFields /\ taken.uses = Took(look).uses
        /\ taken.next_arg_index = Took(look).next_arg_index
    BY <2>2 DEF ParserFields
  <2>4. Go(taken)
    BY <1>2
  <2> HIDE DEF look, taken
  <2> QED
    BY <2>1, <2>3, <2>4, TookStep
<1> HIDE DEF look, taken
<1> QED
  BY <1>1, <1>2, FailStep

\* Every action of the printf syntax.
LEMMA PrintfStep ==
  ASSUME IInv, PrintfNext
  PROVE  Step
BY PrintfTextStep, PrintfSpecStep, PrintfWidthStep, PrintfPrecisionStep,
   PrintfArgumentStep DEF PrintfNext

-----------------------------------------------------------------------------
(* The theorems                                                            *)

\* A parser that has not started used nothing.
LEMMA InitIndexed ==
  ASSUME Init
  PROVE  IInv
<1>1. p = NewParser
  BY DEF Init
<1>2. DOMAIN p = ParserFields /\ p.uses = << >> /\ p.next_arg_index = 0
  BY <1>1 DEF NewParser, ParserFields
<1>3. p.uses \in Seq({}) /\ Len(p.uses) = 0
  BY <1>2
<1> QED
  BY <1>2, <1>3 DEF IInv, Indexed

\* At every step of either parser the arguments used so far are the first ones, in
\* their order, and next_arg_index is their number, or all of them were numbered and
\* it is -1; every one of them was passed (format.cc:663-736).
THEOREM FormatInvariant == Spec => []IInv
<1>1. IInv /\ [Next]_vars => IInv'
  <2> SUFFICES ASSUME IInv, [Next]_vars
               PROVE  IInv'
    OBVIOUS
  <2>1. CASE BraceNext
    BY <2>1, BraceStep, StepIndexed
  <2>2. CASE PrintfNext
    BY <2>2, PrintfStep, StepIndexed
  <2>3. CASE UNCHANGED vars
    BY <2>3 DEF vars, IInv, Indexed
  <2> QED
    BY <2>1, <2>2, <2>3 DEF Next
<1> QED
  BY <1>1, InitIndexed, PTL DEF Spec

\* No string mixes arguments taken in their order with arguments taken by their
\* number, and no argument is used that was not passed (format.cc:663-736).
THEOREM FormatOneIndexing == Spec => []OneIndexing
<1>1. IInv => OneIndexing
  <2> SUFFICES ASSUME IInv, NEW k \in 1..Len(p.uses)
               PROVE  /\ p.uses[k].index < Len(args) /\ p.uses[k].index < MAX_ARGS
                      /\ p.uses[k].auto = p.uses[1].auto
                      /\ p.uses[k].auto => p.uses[k].index = k - 1
    BY DEF OneIndexing
  <2>1. PICK U : p.uses \in Seq(U)
    BY DEF IInv, Indexed
  <2>2. Len(p.uses) \in Nat /\ 1 \in 1..Len(p.uses)
    BY <2>1
  <2> QED
    BY <2>2 DEF IInv, Indexed
<1> QED
  BY <1>1, FormatInvariant, PTL

-----------------------------------------------------------------------------
(* The text between the fields                                             *)

\* Where the stretch of the string that was handed to the writer ends.
Upto == IF pieces = << >> THEN 1 ELSE pieces[Len(pieces)].upto

\* The pieces join and those of text are the string's own characters.
Kept ==
  /\ \E U : pieces \in Seq(U)
  /\ \A k \in 1..Len(pieces) :
       /\ pieces[k].from = IF k = 1 THEN 1 ELSE pieces[k - 1].upto
       /\ pieces[k].sts[1].op = "text" => Literal(pieces[k])

FieldParts == {"index", "align", "sign", "hash", "width", "precision", "type", "close",
               "header", "flags", "argument", "length"}
Parts == FieldParts \cup {"text", "done", "error"}

\* The parser stands behind the pieces: at the text that is next, in the field that
\* is next, or at the end of the string.
Placed(q) ==
  /\ q.pc \in Parts
  /\ q.pc = "text" => q.s = q.start /\ q.s = Upto /\ Upto \in 1..(Len(fmt) + 1)
  /\ q.pc \in FieldParts => q.field = Upto
  /\ q.pc = "done" => pieces # << >> /\ Upto = Len(fmt) + 1

TInv == Kept /\ Placed(p) /\ fmt \in Seq(STRING \ {NUL})

Less == {e \in Nat \X Nat : e[1] < e[2]}

\* A set of numbers that is not empty has a least one.
LEMMA LeastNatural ==
  ASSUME NEW T \in SUBSET Nat, T # {}
  PROVE  \E x \in T : \A y \in T : ~(y < x)
<1>1. IsWellFoundedOn(Less, Nat)
  BY NatLessThanWellFounded DEF OpToRel, Less
<1>2. PICK x \in T : \A y \in T : ~(<<y, x>> \in Less)
  BY <1>1, WFMin
<1>3. \A y \in T : y < x => <<y, x>> \in Less
  BY DEF Less
<1> QED
  BY <1>2, <1>3

\* Only the positions of the string have a character that is not NUL.
LEMMA AtString ==
  ASSUME fmt \in Seq(STRING \ {NUL}), NEW i
  PROVE  /\ i \in 1..Len(fmt) => At(i) = fmt[i] /\ At(i) # NUL
         /\ At(i) # NUL => i \in 1..Len(fmt)
BY DEF At

\* The text stops at the first of the characters looked for, or at the end.
LEMMA StopsAt ==
  ASSUME fmt \in Seq(STRING \ {NUL}), NEW i \in 1..(Len(fmt) + 1), NEW stops
  PROVE  LET j == StopAt(i, stops)
         IN  /\ j \in i..(Len(fmt) + 1) /\ At(j) \in stops \cup {NUL}
             /\ \A k \in i..(j - 1) : At(k) \notin stops
<1> DEFINE T == {j \in i..(Len(fmt) + 1) : At(j) \in stops \cup {NUL}}
           Stop(j) == /\ At(j) \in stops \cup {NUL}
                      /\ \A k \in i..(j - 1) : At(k) \notin stops
<1>1. Len(fmt) \in Nat
  OBVIOUS
<1>2. At(Len(fmt) + 1) = NUL
  BY <1>1 DEF At
<1>3. T # {} /\ T \in SUBSET Nat
  BY <1>1, <1>2
<1>4. PICK x \in T : \A y \in T : ~(y < x)
  <2> HIDE DEF T
  <2> QED
    BY <1>3, LeastNatural
<1>5. ASSUME NEW k \in i..(x - 1)
      PROVE  At(k) \notin stops
  BY <1>1, <1>4
<1>6. x \in i..(Len(fmt) + 1) /\ Stop(x)
  BY <1>4, <1>5
<1>7. StopAt(i, stops) = CHOOSE j \in i..(Len(fmt) + 1) : Stop(j)
  BY DEF StopAt
<1> HIDE DEF Stop
<1>8. StopAt(i, stops) \in i..(Len(fmt) + 1) /\ Stop(StopAt(i, stops))
  BY <1>6, <1>7
<1> QED
  BY <1>8 DEF Stop

\* A stretch of text up to where it stops is handed over as it is.
LEMMA PlainLiteral ==
  ASSUME fmt \in Seq(STRING \ {NUL}), NEW i \in 1..(Len(fmt) + 1),
         NEW j \in i..(Len(fmt) + 1),
         \A k \in i..(j - 1) : At(k) \notin IF syntax = "brace" THEN Braces ELSE {"%"},
         NEW f, f.from = i, f.upto = j, f.sts[1] = TextSt(i, j)
  PROVE  Literal(f)
<1> DEFINE ends == IF syntax = "brace" THEN Braces ELSE {"%"}
           text == SubSeq(fmt, i, j - 1)
<1>1. \A k \in i..(j - 1) : fmt[k] \in STRING \ {NUL} /\ At(k) = fmt[k]
  BY AtString
<1>2. Len(text) = IF i <= j - 1 THEN j - 1 - i + 1 ELSE 0
  BY <1>1, SubSeqProperties
<1>3. \A k \in 1..(j - 1 - i + 1) : text[k] = fmt[i + k - 1]
  BY <1>1, SubSeqProperties
<1>4. Src(f.from, f.upto) = text /\ f.sts[1].str = text
  BY DEF Src, TextSt
<1>5. ASSUME NEW k \in 1..Len(text)
      PROVE  text[k] \notin ends
  <2>1. i + k - 1 \in i..(j - 1) /\ k \in 1..(j - 1 - i + 1)
    BY <1>2
  <2> QED
    BY <1>1, <1>3, <2>1
<1> HIDE DEF text
<1> QED
  BY <1>4, <1>5 DEF Literal

\* A stretch of text that ends in a doubled delimiter is handed over with one half.
LEMMA DoubledLiteral ==
  ASSUME fmt \in Seq(STRING \ {NUL}), NEW i \in 1..(Len(fmt) + 1),
         NEW j \in i..(Len(fmt) + 1),
         \A k \in i..(j - 1) : At(k) \notin IF syntax = "brace" THEN Braces ELSE {"%"},
         At(j) \in IF syntax = "brace" THEN Braces ELSE {"%"}, At(j + 1) = At(j),
         NEW f, f.from = i, f.upto = j + 2, f.sts[1] = TextSt(i, j + 1)
  PROVE  j + 2 \in 1..(Len(fmt) + 1) /\ Literal(f)
<1> DEFINE ends == IF syntax = "brace" THEN Braces ELSE {"%"}
           text == SubSeq(fmt, i, j + 1)
           str  == SubSeq(fmt, i, j)
           n    == j + 2 - i
<1>0. i \in Int /\ j \in Int /\ i <= j /\ i >= 1 /\ Len(fmt) \in Nat
  OBVIOUS
<1>1. At(j) # NUL
  BY DEF Braces, NUL
<1>2. j + 1 \in 1..Len(fmt)
  BY <1>1, AtString
<1>3. \A k \in i..(j + 1) : fmt[k] \in STRING \ {NUL} /\ At(k) = fmt[k]
  BY <1>0, <1>2, AtString
<1>4. Len(text) = n /\ n > 1 /\ n \in Nat
  <2>1. Len(text) = IF i <= j + 1 THEN j + 1 - i + 1 ELSE 0
    BY <1>0, <1>3, SubSeqProperties
  <2> QED
    BY <1>0, <2>1
<1>5. \A k \in 1..n : text[k] = fmt[i + k - 1]
  <2>1. \A k \in 1..(j + 1 - i + 1) : text[k] = fmt[i + k - 1]
    BY <1>0, <1>3, SubSeqProperties
  <2>2. n = j + 1 - i + 1
    BY <1>0
  <2> QED
    BY <2>1, <2>2
<1>6. text \in Seq(STRING \ {NUL})
  BY <1>0, <1>3, SubSeqProperties
<1>7. i + 1 - 1 = i /\ i + (n - 1) - 1 = j
  BY <1>0
<1>8. SubSeq(text, 1, n - 1) = str
  <2>1. SubSeq(SubSeq(fmt, i, j + 1), 1, n - 1) = SubSeq(fmt, i + 1 - 1, i + (n - 1) - 1)
    <3>1. i \in 1..Len(fmt) /\ j + 1 \in 1..Len(fmt)
      BY <1>0, <1>2
    <3>2. 1 \in 1..(j + 1 - i + 1) /\ n - 1 \in 1..(j + 1 - i + 1)
      BY <1>0
    <3> QED
      BY <1>6, <3>1, <3>2, SubSeqOfSubSeq
  <2> QED
    BY <2>1, <1>7
<1>9. text[n] = text[n - 1] /\ text[n] \in ends
  <2>1. text[n] = fmt[j + 1] /\ text[n - 1] = fmt[j]
    BY <1>0, <1>4, <1>5
  <2>2. fmt[j + 1] = At(j + 1) /\ fmt[j] = At(j)
    BY <1>0, <1>3
  <2> QED
    BY <2>1, <2>2
<1>10. ASSUME NEW k \in 1..Len(SubSeq(text, 1, n - 2))
       PROVE  SubSeq(text, 1, n - 2)[k] \notin ends
  <2>1. \A x \in 1..(n - 2) : text[x] \in STRING \ {NUL}
    BY <1>0, <1>3, <1>5
  <2>2. Len(SubSeq(text, 1, n - 2)) = IF 1 <= n - 2 THEN n - 2 - 1 + 1 ELSE 0
    <3> HIDE DEF text
    <3> QED
      BY <1>4, <2>1, SubSeqProperties
  <2>3. k \in 1..(n - 2)
    BY <1>0, <2>2
  <2>4. SubSeq(text, 1, n - 2)[k] = text[1 + k - 1]
    <3>1. k \in 1..(n - 2 - 1 + 1)
      BY <1>0, <2>3
    <3> HIDE DEF text
    <3> QED
      BY <1>4, <2>1, <3>1, SubSeqProperties
  <2>5. text[1 + k - 1] = fmt[i + k - 1]
    BY <1>0, <1>5, <2>3
  <2>6. i + k - 1 \in i..(j - 1) /\ i + k - 1 \in i..(j + 1)
    BY <1>0, <2>3
  <2>7. fmt[i + k - 1] = At(i + k - 1)
    BY <1>3, <2>6
  <2> QED
    BY <2>4, <2>5, <2>6, <2>7
<1>11. Src(f.from, f.upto) = text /\ f.sts[1].str = str
  <2>1. f.upto - 1 = j + 1 /\ j + 1 - 1 = j
    BY <1>0
  <2> QED
    BY <2>1 DEF Src, TextSt
<1>12. f.sts[1].str = SubSeq(text, 1, n - 1)
  BY <1>8, <1>11
<1>13. j + 2 \in 1..(Len(fmt) + 1)
  BY <1>0, <1>2
<1> HIDE DEF text, str, n
<1> QED
  BY <1>4, <1>9, <1>10, <1>11, <1>12, <1>13 DEF Literal

-----------------------------------------------------------------------------
(* What a step does to the pieces                                          *)

\* A piece that begins where the last one ends goes with them.
LEMMA PieceKept ==
  ASSUME Kept, NEW f, f.from = Upto, f.sts[1].op = "text" => Literal(f),
         pieces' = Append(pieces, f), UNCHANGED input
  PROVE  Kept' /\ Upto' = f.upto /\ pieces' # << >>
<1> DEFINE n == Len(pieces)
<1>1. PICK U : pieces \in Seq(U)
  BY DEF Kept
<1> DEFINE W == U \cup {f}
<1>2. pieces \in Seq(W) /\ f \in W /\ n \in Nat
  BY <1>1
<1> HIDE DEF W
<1>3. /\ pieces' \in Seq(W) /\ Len(pieces') = n + 1 /\ pieces'[n + 1] = f
      /\ \A k \in 1..n : pieces'[k] = pieces[k]
  <2>1. Append(pieces, f) \in Seq(W) /\ Len(Append(pieces, f)) = n + 1
    BY <1>2
  <2>2. Append(pieces, f)[n + 1] = f
    BY <1>2
  <2>3. \A k \in 1..n : Append(pieces, f)[k] = pieces[k]
    BY <1>2
  <2> QED
    BY <2>1, <2>2, <2>3
<1>4. pieces' # << >>
  BY <1>2, <1>3
<1>5. Upto' = f.upto
  BY <1>3, <1>4 DEF Upto
<1>6. f.from = IF n = 0 THEN 1 ELSE pieces[n].upto
  BY <1>2 DEF Upto
<1>7. fmt' = fmt /\ syntax' = syntax
  BY DEF input
<1>8. ASSUME NEW g
      PROVE  Literal(g)' <=> Literal(g)
  BY <1>7 DEF Literal, Src
<1>9. ASSUME NEW k \in 1..Len(pieces')
      PROVE  /\ pieces'[k].from = IF k = 1 THEN 1 ELSE pieces'[k - 1].upto
             /\ pieces'[k].sts[1].op = "text" => Literal(pieces'[k])
  <2>1. CASE k = n + 1
    <3>1. pieces'[k] = f
      BY <1>3, <2>1
    <3>2. n # 0 => pieces'[k - 1] = pieces[n]
      BY <1>2, <1>3, <2>1
    <3>3. k = 1 <=> n = 0
      BY <1>2, <2>1
    <3> QED
      BY <1>6, <3>1, <3>2, <3>3
  <2>2. CASE k # n + 1
    <3>1. k \in 1..n
      BY <1>2, <1>3, <2>2
    <3>2. pieces'[k] = pieces[k] /\ (k # 1 => pieces'[k - 1] = pieces[k - 1])
      BY <1>2, <1>3, <3>1
    <3> QED
      BY <3>1, <3>2 DEF Kept
  <2> QED
    BY <2>1, <2>2
<1>10. PICK ps : ps = pieces'
  OBVIOUS
<1>11. \A k \in 1..Len(ps) : ps[k].sts[1].op = "text" => Literal(ps[k])'
  BY <1>8, <1>9, <1>10
<1>12. Kept'
  BY <1>3, <1>9, <1>10, <1>11 DEF Kept
<1> QED
  BY <1>4, <1>5, <1>12

\* Going on inside a field, or failing, hands nothing over.
LEMMA GoPlaced ==
  ASSUME TInv, NEW q, Go(q), Placed(q)
  PROVE  TInv'
<1>1. p' = q /\ fmt' = fmt /\ syntax' = syntax /\ pieces' = pieces
  BY DEF Go, input
<1>2. Upto' = Upto
  BY <1>1 DEF Upto
<1>3. ASSUME NEW g
      PROVE  Literal(g)' <=> Literal(g)
  BY <1>1 DEF Literal, Src
<1>4. Kept'
  <2>1. \A k \in 1..Len(pieces) : Literal(pieces[k])' <=> Literal(pieces[k])
    BY <1>1 DEF Literal, Src
  <2> QED
    BY <1>1, <2>1 DEF TInv, Kept
<1>5. Placed(p)'
  BY <1>1, <1>2 DEF Placed
<1> QED
  BY <1>1, <1>4, <1>5 DEF TInv

\* A parser that goes on inside its field stands where it stood.
Inside(q) == q.pc \in FieldParts /\ q.field = p.field

\* From one part of a field to another.
LEMMA InsidePlaced ==
  ASSUME TInv, p.pc \in FieldParts, NEW q, Go(q), Inside(q)
  PROVE  TInv'
<1>1. Placed(q)
  BY DEF TInv, Placed, Inside, Parts, FieldParts
<1> QED
  BY <1>1, GoPlaced

\* A parser that failed does not say where it stands.
LEMMA FailPlaced ==
  ASSUME IInv, TInv, NEW why, Fail(why)
  PROVE  TInv'
<1> DEFINE q == [p EXCEPT !.pc = "error", !.error = why]
<1>1. q.pc = "error"
  BY DEF IInv, Indexed, ParserFields
<1>2. Placed(q)
  BY <1>1 DEF Placed, Parts, FieldParts
<1>3. Go(q)
  BY DEF Fail
<1> HIDE DEF q
<1> QED
  BY <1>2, <1>3, GoPlaced

\* The text up to where it stops, and the field or the end that follows.
LEMMA PlainPlaced ==
  ASSUME TInv, p.pc = "text",
         NEW stops, stops = IF syntax = "brace" THEN Braces ELSE {"%"},
         NEW q, WriteText(StopAt(p.s, stops), StopAt(p.s, stops), q),
         \/ q.pc \in FieldParts /\ q.field = StopAt(p.s, stops)
         \/ q.pc = "done" /\ At(StopAt(p.s, stops)) = NUL
  PROVE  TInv'
<1> DEFINE j == StopAt(p.s, stops)
           f == Piece(p.start, j, NoSpec, <<TextSt(p.start, j)>>)
<1>1. /\ p.s = p.start /\ p.s = Upto /\ p.s \in 1..(Len(fmt) + 1)
      /\ fmt \in Seq(STRING \ {NUL})
  BY DEF TInv, Placed
<1>2. /\ j \in p.s..(Len(fmt) + 1)
      /\ \A k \in p.s..(j - 1) : At(k) \notin stops
  BY <1>1, StopsAt
<1>3. pieces' = Append(pieces, f) /\ p' = q /\ UNCHANGED input
  BY DEF WriteText
<1>4. f.from = p.s /\ f.upto = j /\ f.sts[1] = TextSt(p.s, j)
  BY <1>1 DEF Piece
<1>5. At(j) = NUL => j = Len(fmt) + 1
  BY <1>1, <1>2, AtString
<1> HIDE DEF j, f
<1>6. Literal(f)
  BY <1>1, <1>2, <1>4, PlainLiteral
<1>7. Kept' /\ Upto' = j /\ pieces' # << >>
  <2>1. Kept
    BY DEF TInv
  <2> QED
    BY <1>1, <1>3, <1>4, <1>6, <2>1, PieceKept
<1>8. fmt' = fmt
  BY <1>3 DEF input
<1>9. Placed(p)'
  BY <1>3, <1>5, <1>7, <1>8 DEF Placed, Parts, FieldParts, j
<1> QED
  BY <1>1, <1>7, <1>8, <1>9 DEF TInv

\* The text up to a doubled delimiter, and the text behind it.
LEMMA DoubledPlaced ==
  ASSUME TInv, p.pc = "text",
         NEW stops, stops = IF syntax = "brace" THEN Braces ELSE {"%"},
         NEW j, j = StopAt(p.s, stops), At(j) \in stops, At(j + 1) = At(j),
         NEW q, WriteText(j + 1, j + 2, q),
         q.pc = "text", q.s = j + 2, q.start = j + 2
  PROVE  TInv'
<1> DEFINE f == Piece(p.start, j + 2, NoSpec, <<TextSt(p.start, j + 1)>>)
<1>1. /\ p.s = p.start /\ p.s = Upto /\ p.s \in 1..(Len(fmt) + 1)
      /\ fmt \in Seq(STRING \ {NUL})
  BY DEF TInv, Placed
<1>2. /\ j \in p.s..(Len(fmt) + 1)
      /\ \A k \in p.s..(j - 1) : At(k) \notin stops
  BY <1>1, StopsAt
<1>3. pieces' = Append(pieces, f) /\ p' = q /\ UNCHANGED input
  BY DEF WriteText
<1>4. f.from = p.s /\ f.upto = j + 2 /\ f.sts[1] = TextSt(p.s, j + 1)
  BY <1>1 DEF Piece
<1> HIDE DEF f
<1>5. j + 2 \in 1..(Len(fmt) + 1) /\ Literal(f)
  BY <1>1, <1>2, <1>4, DoubledLiteral
<1>6. Kept' /\ Upto' = j + 2 /\ pieces' # << >>
  <2>1. Kept
    BY DEF TInv
  <2> QED
    BY <1>1, <1>3, <1>4, <1>5, <2>1, PieceKept
<1>7. fmt' = fmt
  BY <1>3 DEF input
<1>8. Placed(p)'
  BY <1>3, <1>5, <1>6, <1>7 DEF Placed, Parts, FieldParts
<1> QED
  BY <1>1, <1>6, <1>7, <1>8 DEF TInv

\* A field is handed over from its first character to its last.
LEMMA FieldPlaced ==
  ASSUME IInv, TInv, p.pc \in FieldParts, NEW upto \in 1..(Len(fmt) + 1),
         NEW spec, NEW sts, sts[1].op # "text", WriteField(upto, spec, sts)
  PROVE  TInv'
<1> DEFINE f == Piece(p.field, upto, spec, sts)
           q == [p EXCEPT !.s = upto, !.start = upto, !.pc = "text"]
<1>1. CASE Fail("refused by the writer")
  BY <1>1, FailPlaced
<1>2. CASE pieces' = Append(pieces, f) /\ p' = q /\ UNCHANGED input
  <2>1. f.from = Upto /\ f.upto = upto /\ f.sts[1].op # "text"
    BY DEF Piece, TInv, Placed
  <2>2. q.pc = "text" /\ q.s = upto /\ q.start = upto
    BY DEF IInv, Indexed, ParserFields
  <2> HIDE DEF f, q
  <2>3. Kept' /\ Upto' = upto /\ pieces' # << >>
    BY <1>2, <2>1, PieceKept DEF TInv
  <2>4. fmt' = fmt
    BY <1>2 DEF input
  <2>5. Placed(p)'
    BY <1>2, <2>2, <2>3, <2>4 DEF Placed, Parts, FieldParts
  <2> QED
    BY <2>3, <2>4, <2>5 DEF TInv
<1> QED
  BY <1>1, <1>2 DEF WriteField

\* The actions of the brace syntax.
LEMMA BracePlaced ==
  ASSUME IInv, TInv, BraceNext
  PROVE  TInv'
<1> DEFINE j == StopAt(p.s, Braces)
<1>1. DOMAIN p = ParserFields /\ syntax = "brace"
  BY DEF IInv, Indexed, BraceNext
<1>2. CASE BraceEnd
  <2> DEFINE q == [p EXCEPT !.s = j, !.start = j, !.pc = "done"]
  <2>1. q.pc = "done"
    BY <1>1 DEF ParserFields
  <2>2. p.pc = "text" /\ At(j) = NUL /\ WriteText(j, j, q)
    BY <1>2 DEF BraceEnd
  <2> HIDE DEF q
  <2> QED
    BY <1>1, <2>1, <2>2, PlainPlaced
<1>3. CASE BraceEscape
  <2> DEFINE q == [p EXCEPT !.s = j + 2, !.start = j + 2]
  <2>1. p.pc = "text" /\ At(j) \in Braces /\ At(j + 1) = At(j) /\ WriteText(j + 1, j + 2, q)
    BY <1>3 DEF BraceEscape
  <2>2. q.pc = "text" /\ q.s = j + 2 /\ q.start = j + 2
    BY <1>1, <2>1 DEF ParserFields
  <2> HIDE DEF q
  <2> QED
    BY <1>1, <2>1, <2>2, DoubledPlaced
<1>4. CASE BraceUnmatched
  BY <1>4, FailPlaced DEF BraceUnmatched
<1>5. CASE BraceField
  <2> DEFINE q == [p EXCEPT !.s = j + 1, !.field = j, !.pc = "index"]
  <2>1. q.pc = "index" /\ q.field = j
    BY <1>1 DEF ParserFields
  <2>2. p.pc = "text" /\ WriteText(j, j, q)
    BY <1>5 DEF BraceField
  <2> HIDE DEF q
  <2> QED
    BY <1>1, <2>1, <2>2, PlainPlaced DEF FieldParts
<1>6. CASE BraceIndex
  <2> DEFINE r == ParseArgIndex(p.s)
             q == [Took(r.look) EXCEPT
                     !.arg = Printed(r.look.arg), !.spec = NoSpec, !.s = r.s,
                     !.pc = IF At(r.s) = ":" THEN "align" ELSE "close"]
  <2>1. DOMAIN Took(r.look) = ParserFields /\ Took(r.look).field = p.field
    BY <1>1 DEF Took, ParserFields
  <2>2. Inside(q)
    BY <2>1 DEF Inside, ParserFields, FieldParts
  <2>3. p.pc \in FieldParts /\ (Go(q) \/ \E why : Fail(why))
    BY <1>6 DEF BraceIndex, FieldParts
  <2> HIDE DEF q
  <2> QED
    BY <2>2, <2>3, InsidePlaced, FailPlaced
<1>7. CASE BraceAlign
  <2> DEFINE s == p.s + 1
             c == At(s)
             filled == c # NUL /\ At(s + 1) \in Marks
             mark == IF filled THEN At(s + 1) ELSE c
             aligned == [p EXCEPT !.spec.align = AlignOf(mark), !.pc = "sign"]
  <2>1. Inside([p EXCEPT !.s = s, !.pc = "sign"])
    BY <1>1 DEF Inside, ParserFields, FieldParts
  <2>2. Inside(aligned) /\ DOMAIN aligned = ParserFields
    BY <1>1 DEF Inside, ParserFields, FieldParts
  <2> HIDE DEF aligned
  <2>3. Inside([aligned EXCEPT !.s = s])
    BY <2>2 DEF Inside, ParserFields
  <2>4. Inside([aligned EXCEPT !.s = s + 2, !.spec.fill = c])
    BY <2>2 DEF Inside, ParserFields
  <2>5. Inside([aligned EXCEPT !.s = s + 1])
    BY <2>2 DEF Inside, ParserFields
  <2>6. \/ Go([p EXCEPT !.s = s, !.pc = "sign"]) \/ Go([aligned EXCEPT !.s = s])
        \/ Go([aligned EXCEPT !.s = s + 2, !.spec.fill = c])
        \/ Go([aligned EXCEPT !.s = s + 1]) \/ \E why : Fail(why)
    BY <1>7 DEF BraceAlign, aligned
  <2>7. p.pc \in FieldParts
    BY <1>7 DEF BraceAlign, FieldParts
  <2> QED
    BY <2>1, <2>3, <2>4, <2>5, <2>6, <2>7, InsidePlaced, FailPlaced
<1>8. CASE BraceSign
  <2>1. Inside([p EXCEPT !.pc = "hash"])
    BY <1>1 DEF Inside, ParserFields, FieldParts
  <2>2. Inside([p EXCEPT !.spec.flags = SignFlags(At(p.s)), !.s = @ + 1, !.pc = "hash"])
    BY <1>1 DEF Inside, ParserFields, FieldParts
  <2>3. p.pc \in FieldParts
    BY <1>8 DEF BraceSign, FieldParts
  <2> QED
    BY <1>8, <2>1, <2>2, <2>3, InsidePlaced, FailPlaced DEF BraceSign
<1>9. CASE BraceHash
  <2>1. Inside([p EXCEPT !.pc = "width"])
    BY <1>1 DEF Inside, ParserFields, FieldParts
  <2>2. Inside([p EXCEPT !.spec.flags = @ \cup {"HASH"}, !.s = @ + 1, !.pc = "width"])
    BY <1>1 DEF Inside, ParserFields, FieldParts
  <2>3. p.pc \in FieldParts
    BY <1>9 DEF BraceHash, FieldParts
  <2> QED
    BY <1>9, <2>1, <2>2, <2>3, InsidePlaced, FailPlaced DEF BraceHash
<1>10. CASE BraceWidth
  <2> DEFINE number == ParseNumber(p.s)
             zero == At(p.s) = "0"
             q == [p EXCEPT !.spec.align = IF zero THEN "numeric" ELSE @,
                            !.spec.fill = IF zero THEN "0" ELSE @,
                            !.spec.width = number.value,
                            !.s = number.s, !.pc = "precision"]
  <2>1. Inside([p EXCEPT !.pc = "precision"])
    BY <1>1 DEF Inside, ParserFields, FieldParts
  <2>2. Inside(q)
    BY <1>1 DEF Inside, ParserFields, FieldParts
  <2>3. Go([p EXCEPT !.pc = "precision"]) \/ Go(q) \/ \E why : Fail(why)
    BY <1>10 DEF BraceWidth
  <2>4. p.pc \in FieldParts
    BY <1>10 DEF BraceWidth, FieldParts
  <2> HIDE DEF q
  <2> QED
    BY <2>1, <2>2, <2>3, <2>4, InsidePlaced, FailPlaced
<1>11. CASE BracePrecision
  <2> DEFINE number == ParseNumber(p.s + 1)
             r == ParseArgIndex(p.s + 2)
             by == r.look.arg
             plain == [p EXCEPT !.pc = "type"]
             given == [[p EXCEPT !.s = number.s] EXCEPT !.spec.precision = number.value,
                                                        !.pc = "type"]
             taken == [[Took(r.look) EXCEPT !.s = r.s + 1]
                         EXCEPT !.spec.precision = by.num, !.pc = "type"]
  <2>1. Inside(plain) /\ Inside(given)
    BY <1>1 DEF Inside, ParserFields, FieldParts
  <2>2. DOMAIN Took(r.look) = ParserFields /\ Took(r.look).field = p.field
    BY <1>1 DEF Took, ParserFields
  <2>3. Inside(taken)
    BY <2>2 DEF Inside, ParserFields, FieldParts
  <2>4. Go(plain) \/ Go(given) \/ Go(taken) \/ \E why : Fail(why)
    BY <1>11 DEF BracePrecision, Precise
  <2>5. p.pc \in FieldParts
    BY <1>11 DEF BracePrecision, FieldParts
  <2> HIDE DEF plain, given, taken
  <2> QED
    BY <2>1, <2>3, <2>4, <2>5, InsidePlaced, FailPlaced
<1>12. CASE BraceType
  <2>1. Inside([p EXCEPT !.pc = "close"])
    BY <1>1 DEF Inside, ParserFields, FieldParts
  <2>2. Inside([p EXCEPT !.spec.type = At(p.s), !.s = @ + 1, !.pc = "close"])
    BY <1>1 DEF Inside, ParserFields, FieldParts
  <2>3. p.pc \in FieldParts
    BY <1>12 DEF BraceType, FieldParts
  <2> QED
    BY <1>12, <2>1, <2>2, <2>3, InsidePlaced DEF BraceType
<1>13. CASE BraceClose
  <2>1. p.pc \in FieldParts
    BY <1>13 DEF BraceClose, FieldParts
  <2>2. ASSUME At(p.s) = "}"
        PROVE  p.s + 1 \in 1..(Len(fmt) + 1)
    <3>1. At(p.s) # NUL
      BY <2>2 DEF NUL
    <3>2. fmt \in Seq(STRING \ {NUL})
      BY DEF TInv
    <3>3. p.s \in 1..Len(fmt) /\ Len(fmt) \in Nat
      BY <3>1, <3>2, AtString
    <3> QED
      BY <3>3
  <2>3. Visit(p.arg, p.spec).op # "text"
    BY DEF Visit, VisitChar, VisitPointer, St
  <2>4. \/ \E why : Fail(why)
        \/ At(p.s) = "}" /\ WriteField(p.s + 1, p.spec, <<Visit(p.arg, p.spec)>>)
    BY <1>13 DEF BraceClose
  <2>5. <<Visit(p.arg, p.spec)>>[1].op # "text"
    BY <2>3
  <2> QED
    BY <2>1, <2>2, <2>4, <2>5, FailPlaced, FieldPlaced
<1> QED
  BY <1>2, <1>3, <1>4, <1>5, <1>6, <1>7, <1>8, <1>9, <1>10, <1>11, <1>12, <1>13
     DEF BraceNext

\* The actions of the printf syntax.
LEMMA PrintfPlaced ==
  ASSUME IInv, TInv, PrintfNext
  PROVE  TInv'
<1> DEFINE j == StopAt(p.s, {"%"})
<1>1. DOMAIN p = ParserFields /\ syntax # "brace" /\ fmt \in Seq(STRING \ {NUL})
  BY DEF IInv, Indexed, TInv, PrintfNext
<1>2. CASE PrintfEnd
  <2> DEFINE q == [p EXCEPT !.s = j, !.start = j, !.pc = "done"]
  <2>1. q.pc = "done"
    BY <1>1 DEF ParserFields
  <2>2. p.pc = "text" /\ At(j) = NUL /\ WriteText(j, j, q)
    BY <1>2 DEF PrintfEnd
  <2> HIDE DEF q
  <2> QED
    BY <1>1, <2>1, <2>2, PlainPlaced
<1>3. CASE PrintfEscape
  <2> DEFINE q == [p EXCEPT !.s = j + 2, !.start = j + 2]
  <2>1. p.pc = "text" /\ At(j) \in {"%"} /\ At(j + 1) = At(j) /\ WriteText(j + 1, j + 2, q)
    BY <1>3 DEF PrintfEscape
  <2>2. q.pc = "text" /\ q.s = j + 2 /\ q.start = j + 2
    BY <1>1, <2>1 DEF ParserFields
  <2> HIDE DEF q
  <2> QED
    BY <1>1, <2>1, <2>2, DoubledPlaced
<1>4. CASE PrintfField
  <2> DEFINE q == [p EXCEPT !.s = j + 1, !.field = j, !.pc = "header", !.index = AUTO,
                            !.spec = [NoSpec EXCEPT !.align = "right"]]
  <2>1. q.pc = "header" /\ q.field = j
    BY <1>1 DEF ParserFields
  <2>2. p.pc = "text" /\ WriteText(j, j, q)
    BY <1>4 DEF PrintfField
  <2> HIDE DEF q
  <2> QED
    BY <1>1, <2>1, <2>2, PlainPlaced DEF FieldParts
<1>5. CASE PrintfHeader
  <2> DEFINE number == ParseNumber(p.s)
             c == At(p.s)
             width == [p EXCEPT !.s = number.s,
                            !.spec.fill = IF c = "0" THEN "0" ELSE @,
                            !.spec.width = number.value,
                            !.pc = IF number.value # 0 THEN "precision" ELSE "flags"]
             index == [p EXCEPT !.s = number.s + 1, !.index = number.value, !.pc = "flags"]
  <2>1. Inside([p EXCEPT !.pc = "flags"]) /\ Inside(index)
    BY <1>1 DEF Inside, ParserFields, FieldParts
  <2>2. Inside(width)
    BY <1>1 DEF Inside, ParserFields, FieldParts
  <2>3. Go([p EXCEPT !.pc = "flags"]) \/ Go(index) \/ Go(width) \/ \E why : Fail(why)
    BY <1>5 DEF PrintfHeader
  <2>4. p.pc \in FieldParts
    BY <1>5 DEF PrintfHeader, FieldParts
  <2> HIDE DEF width, index
  <2> QED
    BY <2>1, <2>2, <2>3, <2>4, InsidePlaced, FailPlaced
<1>6. CASE PrintfFlags
  <2>1. ASSUME NEW given
        PROVE  Inside(Flagged(given))
    BY <1>1 DEF Inside, ParserFields, FieldParts, Flagged
  <2>2. p.pc \in FieldParts
    BY <1>6 DEF PrintfFlags, FieldParts
  <2> QED
    BY <1>6, <2>1, <2>2, InsidePlaced DEF PrintfFlags
<1>7. CASE PrintfWidth
  <2> DEFINE number == ParseNumber(p.s)
             look == Look(AUTO, p.s + 1)
             none == [p EXCEPT !.pc = "precision"]
             given == [p EXCEPT !.spec.width = number.value, !.s = number.s,
                                !.pc = "precision"]
             taken == [Took(look) EXCEPT
                         !.spec.width = Abs(look.arg.num),
                         !.spec.align = IF look.arg.num < 0 THEN "left" ELSE @,
                         !.s = @ + 1, !.pc = "precision"]
  <2>1. Inside(none) /\ Inside(given)
    BY <1>1 DEF Inside, ParserFields, FieldParts
  <2>2. DOMAIN Took(look) = ParserFields /\ Took(look).field = p.field
    BY <1>1 DEF Took, ParserFields
  <2>3. Inside(taken)
    BY <2>2 DEF Inside, ParserFields, FieldParts
  <2>4. Go(none) \/ Go(given) \/ Go(taken) \/ \E why : Fail(why)
    BY <1>7 DEF PrintfWidth
  <2>5. p.pc \in FieldParts
    BY <1>7 DEF PrintfWidth, FieldParts
  <2> HIDE DEF none, given, taken
  <2> QED
    BY <2>1, <2>3, <2>4, <2>5, InsidePlaced, FailPlaced
<1>8. CASE PrintfPrecision
  <2> DEFINE number == ParseNumber(p.s + 1)
             look == Look(AUTO, p.s + 2)
             none == [p EXCEPT !.pc = "argument"]
             point == [p EXCEPT !.s = @ + 1, !.pc = "argument"]
             given == [p EXCEPT !.spec.precision = number.value, !.s = number.s,
                                !.pc = "argument"]
             taken == [Took(look) EXCEPT !.spec.precision = look.arg.num, !.s = @ + 2,
                                         !.pc = "argument"]
  <2>1. Inside(none) /\ Inside(given) /\ Inside(point)
    BY <1>1 DEF Inside, ParserFields, FieldParts
  <2>2. DOMAIN Took(look) = ParserFields /\ Took(look).field = p.field
    BY <1>1 DEF Took, ParserFields
  <2>3. Inside(taken)
    BY <2>2 DEF Inside, ParserFields, FieldParts
  <2>4. Go(none) \/ Go(given) \/ Go(point) \/ Go(taken) \/ \E why : Fail(why)
    BY <1>8 DEF PrintfPrecision
  <2>5. p.pc \in FieldParts
    BY <1>8 DEF PrintfPrecision, FieldParts
  <2> HIDE DEF none, given, point, taken
  <2> QED
    BY <2>1, <2>3, <2>4, <2>5, InsidePlaced, FailPlaced
<1>9. CASE PrintfArgument
  <2> DEFINE look == Look(p.index, p.s)
             arg  == look.arg
             fill == p.spec.fill = "0"
             taken == [Took(look) EXCEPT
                      !.arg = arg,
                      !.spec.flags = IF IsZeroInt(arg) THEN @ \ {"HASH"} ELSE @,
                      !.spec.align = IF fill /\ arg.type \in NumericTypes
                                     THEN "numeric" ELSE @,
                      !.spec.fill  = IF fill /\ arg.type \notin NumericTypes
                                     THEN " " ELSE @,
                      !.pc = "length"]
  <2>1. DOMAIN Took(look) = ParserFields /\ Took(look).field = p.field
    BY <1>1 DEF Took, ParserFields
  <2>2. Inside(taken)
    BY <2>1 DEF Inside, ParserFields, FieldParts
  <2>3. Go(taken) \/ \E why : Fail(why)
    BY <1>9 DEF PrintfArgument
  <2>4. p.pc \in FieldParts
    BY <1>9 DEF PrintfArgument, FieldParts
  <2> HIDE DEF taken
  <2> QED
    BY <2>2, <2>3, <2>4, InsidePlaced, FailPlaced
<1>10. CASE PrintfConversion
  <2>1. p.pc \in FieldParts
    BY <1>10 DEF PrintfConversion, FieldParts
  <2>2. ASSUME NEW s, At(s) # NUL
        PROVE  s + 1 \in 1..(Len(fmt) + 1)
    <3>1. s \in 1..Len(fmt) /\ Len(fmt) \in Nat
      BY <1>1, <2>2, AtString
    <3> QED
      BY <3>1
  <2>3. ASSUME NEW arg, NEW spec
        PROVE  PrintfStatements(arg, spec)[1].op # "text"
    BY DEF PrintfStatements
  <2>4. \/ \E why : Fail(why)
        \/ \E s, arg, spec : At(s) # NUL /\ WriteField(s + 1, spec, PrintfStatements(arg, spec))
    BY <1>10 DEF PrintfConversion
  <2>5. CASE \E why : Fail(why)
    BY <2>5, FailPlaced
  <2>6. CASE \E s, arg, spec : At(s) # NUL /\ WriteField(s + 1, spec, PrintfStatements(arg, spec))
    <3>1. PICK s, arg, spec : At(s) # NUL /\ WriteField(s + 1, spec, PrintfStatements(arg, spec))
      BY <2>6
    <3>2. s + 1 \in 1..(Len(fmt) + 1)
      BY <2>2, <3>1
    <3> QED
      BY <2>1, <2>3, <3>1, <3>2, FieldPlaced
  <2> QED
    BY <2>4, <2>5, <2>6
<1> QED
  BY <1>2, <1>3, <1>4, <1>5, <1>6, <1>7, <1>8, <1>9, <1>10 DEF PrintfNext

-----------------------------------------------------------------------------
(* The theorems about the text                                             *)

\* Nothing is handed over at the beginning, and all of the string is ahead.
LEMMA InitPlaced ==
  ASSUME Init
  PROVE  TInv
<1>1. fmt \in Seq(STRING \ {NUL})
  BY StringAssumption DEF Init
<1>2. pieces = << >> /\ p.pc = "text" /\ p.s = 1 /\ p.start = 1
  BY DEF Init, NewParser
<1>3. pieces \in Seq({}) /\ Len(pieces) = 0 /\ Upto = 1 /\ 1 \in 1..(Len(fmt) + 1)
  BY <1>1, <1>2 DEF Upto
<1> QED
  BY <1>1, <1>2, <1>3 DEF TInv, Kept, Placed, Parts, FieldParts

\* At every step the pieces join, those of text are the string's own characters, and
\* the parser stands where they end (format.cc:774-792, 1085-1105).
THEOREM TextInvariant == Spec => []TInv
<1>1. IInv /\ TInv /\ [Next]_vars => TInv'
  <2> SUFFICES ASSUME IInv, TInv, [Next]_vars
               PROVE  TInv'
    OBVIOUS
  <2>1. CASE BraceNext
    BY <2>1, BracePlaced
  <2>2. CASE PrintfNext
    BY <2>2, PrintfPlaced
  <2>3. CASE UNCHANGED vars
    <3>1. /\ p' = p /\ fmt' = fmt /\ syntax' = syntax /\ pieces' = pieces
      BY <2>3 DEF vars
    <3>2. \A k \in 1..Len(pieces) : Literal(pieces[k])' <=> Literal(pieces[k])
      BY <3>1 DEF Literal, Src
    <3> QED
      BY <3>1, <3>2 DEF TInv, Kept, Placed, Upto
  <2> QED
    BY <2>1, <2>2, <2>3 DEF Next
<1> QED
  BY <1>1, InitPlaced, FormatInvariant, PTL DEF Spec

\* Whatever the string, no character of it is lost or handed over twice: the pieces
\* cover it from the beginning, to its end when the call returns, and the text between
\* the fields is written as it stands, with doubled delimiters once.
THEOREM FormatLiteralsKept == Spec => []LiteralsKept
<1>1. TInv => LiteralsKept
  <2> SUFFICES ASSUME TInv
               PROVE  LiteralsKept
    OBVIOUS
  <2>1. PICK U : pieces \in Seq(U)
    BY DEF TInv, Kept
  <2>2. pieces # << >> => 1 \in 1..Len(pieces)
    BY <2>1
  <2>3. pieces # << >> => pieces[1].from = 1
    BY <2>2 DEF TInv, Kept
  <2>4. \A k \in 1..Len(pieces) :
          /\ k > 1 => pieces[k].from = pieces[k - 1].upto
          /\ pieces[k].sts[1].op = "text" => Literal(pieces[k])
    BY <2>1 DEF TInv, Kept
  <2>5. p.pc = "text" /\ pieces # << >> => pieces[Len(pieces)].upto = p.start
    BY DEF TInv, Placed, Upto
  <2>6. p.pc = "done" => pieces[Len(pieces)].upto = Len(fmt) + 1
    BY DEF TInv, Placed, Upto
  <2> QED
    BY <2>3, <2>4, <2>5, <2>6 DEF LiteralsKept
<1> QED
  BY <1>1, TextInvariant, PTL
-----------------------------------------------------------------------------
(* Numbers in a format string                                              *)

Values == 0..UINT_MAX

\* Where a number can go on, and what it is once digit j was read behind the value v.
Ciphers(i) == {j \in i..Len(fmt) : IsDigit(At(j))}
Next10(j, v) == (v * 10 + DigitOf(At(j))) % IntWord

\* A turn of the loop of parse_nonnegative_int: f knows the rest.
Turn(f, j, v) ==
  IF Next10(j, v) < v THEN [value |-> UINT_MAX, s |-> j + 1]
  ELSE IF IsDigit(At(j + 1)) THEN f[<<j + 1, Next10(j, v)>>]
  ELSE [value |-> Next10(j, v), s |-> j + 1]

\* What the provers need of the string.
Text == fmt \in Seq(STRING \ {NUL})

\* The digits are in the string, and NUL is none.
LEMMA CipherBounds ==
  ASSUME Text, NEW j, IsDigit(At(j))
  PROVE  j \in 1..Len(fmt)
<1>1. At(j) # NUL
  BY DEF IsDigit, NUL, Digits
<1> QED
  BY <1>1, AtString DEF Text

\* A digit has a value.
LEMMA DigitValue ==
  ASSUME NEW c, IsDigit(c)
  PROVE  DigitOf(c) \in 0..9
<1>1. PICK k \in 1..10 : c = Digits[k]
  BY DEF IsDigit
<1>2. k - 1 \in 0..9 /\ Digits[(k - 1) + 1] = c
  BY <1>1
<1> QED
  BY <1>2, Zenon DEF DigitOf

\* A value with one more digit is a value, since it wraps.
LEMMA NextValue ==
  ASSUME NEW j, IsDigit(At(j)), NEW v \in Values
  PROVE  Next10(j, v) \in Values
<1>1. DigitOf(At(j)) \in 0..9
  BY DigitValue
<1>2. IntWord \in Nat /\ IntWord = UINT_MAX + 1 /\ UINT_MAX \in Nat /\ 0 < IntWord
  BY LimitAssumption DEF IntWord
<1> DEFINE d == DigitOf(At(j))
           w == v * 10 + d
<1>3. w \in Nat
  BY <1>1, <1>2 DEF Values
<1> HIDE DEF w
<1>4. w % IntWord \in 0..(IntWord - 1)
  BY <1>2, <1>3
<1> QED
  BY <1>2, <1>4 DEF Next10, w, Values

\* f is the loop from position i on, as far as the last n characters go.
Turns(f, i, n) ==
  \A j \in Ciphers(i), v \in Values : Len(fmt) < j + n => f[<<j, v>>] = Turn(f, j, v)

\* There is such a function, by adding one character at a time.
LEMMA TurnsMore ==
  ASSUME Text, NEW i \in Nat, NEW n \in Nat, NEW g, Turns(g, i, n)
  PROVE  \E f : Turns(f, i, n + 1)
<1> DEFINE size == Len(fmt)
           S == Ciphers(i) \X Values
           f == [c \in S |-> IF size < c[1] + n THEN g[c] ELSE Turn(g, c[1], c[2])]
<1>1. size \in Nat
  BY DEF Text
<1>2. ASSUME NEW j \in Ciphers(i), NEW v \in Values
      PROVE  /\ j \in Nat /\ <<j, v>> \in S
             /\ size < j + n => f[<<j, v>>] = g[<<j, v>>]
             /\ ~(size < j + n) => f[<<j, v>>] = Turn(g, j, v)
  BY <1>1 DEF Ciphers
<1> HIDE DEF f, S
<1>3. ASSUME NEW j \in Ciphers(i), NEW v \in Values, size < j + (n + 1)
      PROVE  Turn(f, j, v) = Turn(g, j, v)
  <2> DEFINE w == Next10(j, v)
  <2>1. CASE ~IsDigit(At(j + 1))
    BY <2>1, Zenon DEF Turn
  <2>2. CASE IsDigit(At(j + 1))
    <3>1. j + 1 \in 1..size /\ j \in i..size
      BY <2>2, CipherBounds DEF Ciphers
    <3>2. j + 1 \in Ciphers(i)
      BY <1>1, <2>2, <3>1 DEF Ciphers
    <3>3. size < (j + 1) + n
      BY <1>1, <1>3, <3>1
    <3>4. IsDigit(At(j))
      BY DEF Ciphers
    <3>5. w \in Values
      BY <3>4, NextValue, Zenon
    <3> HIDE DEF w
    <3>6. f[<<j + 1, w>>] = g[<<j + 1, w>>]
      BY <1>2, <3>2, <3>3, <3>5
    <3> QED
      BY <3>6, Zenon DEF Turn, w
  <2> QED
    BY <2>1, <2>2
<1>4. ASSUME NEW j \in Ciphers(i), NEW v \in Values, size < j + (n + 1)
      PROVE  f[<<j, v>>] = Turn(f, j, v)
  <2>1. CASE size < j + n
    <3>1. g[<<j, v>>] = Turn(g, j, v)
      BY <2>1, Zenon DEF Turns
    <3> QED
      BY <1>2, <1>3, <1>4, <2>1, <3>1, Zenon
  <2>2. CASE ~(size < j + n)
    BY <1>2, <1>3, <1>4, <2>2, Zenon
  <2> QED
    BY <2>1, <2>2
<1>5. Turns(f, i, n + 1)
  BY <1>4 DEF Turns
<1> QED
  BY <1>5

\* So there is one for the whole string.
LEMMA TurnsAll ==
  ASSUME Text, NEW i \in Nat
  PROVE  \E f : Turns(f, i, Len(fmt) + 1)
<1> DEFINE Has(n) == \E f : Turns(f, i, n)
           T == {n \in Nat : ~Has(n)}
<1>1. Has(0)
  <2>1. \A j \in Ciphers(i) : ~(Len(fmt) < j + 0)
    BY DEF Ciphers, Text
  <2> QED
    BY <2>1 DEF Turns
<1>2. ASSUME NEW n \in Nat, Has(n)
      PROVE  Has(n + 1)
  BY <1>2, TurnsMore
<1> HIDE DEF Has
<1>3. ASSUME T # {} PROVE FALSE
  <2>0. T \in SUBSET Nat
    OBVIOUS
  <2> HIDE DEF T
  <2>1. PICK x \in T : \A y \in T : ~(y < x)
    BY <1>3, <2>0, LeastNatural
  <2>2. x \in Nat /\ ~Has(x)
    BY DEF T
  <2>3. x # 0
    BY <1>1, <2>2
  <2>4. x - 1 \in Nat /\ (x - 1) + 1 = x /\ x - 1 < x
    BY <2>2, <2>3
  <2>5. Has(x - 1)
    BY <2>1, <2>4 DEF T
  <2>6. Has((x - 1) + 1)
    BY <1>2, <2>4, <2>5
  <2> QED
    BY <2>2, <2>4, <2>6
<1>4. Len(fmt) + 1 \in Nat
  BY DEF Text
<1>5. Has(Len(fmt) + 1)
  BY <1>3, <1>4
<1> QED
  BY <1>5 DEF Has

\* The loop that parse_nonnegative_int is.
IsLoop(f, i) == f = [c \in Ciphers(i) \X Values |-> Turn(f, c[1], c[2])]

\* It can be chosen, so the number is what it makes of the first digit.
LEMMA ParseNumberLoop ==
  ASSUME Text, NEW i \in Nat
  PROVE  \E f : IsLoop(f, i) /\ ParseNumber(i) = f[<<i, 0>>]
<1> DEFINE S == Ciphers(i) \X Values
<1>1. PICK g : Turns(g, i, Len(fmt) + 1)
  BY TurnsAll
<1> DEFINE h == [c \in S |-> g[c]]
<1>2. ASSUME NEW j \in Ciphers(i), NEW v \in Values
      PROVE  g[<<j, v>>] = Turn(h, j, v)
  <2>1. j \in i..Len(fmt) /\ Len(fmt) \in Nat /\ IsDigit(At(j))
    BY DEF Ciphers, Text
  <2>2. Len(fmt) < j + (Len(fmt) + 1)
    BY <2>1
  <2>3. g[<<j, v>>] = Turn(g, j, v)
    BY <1>1, <2>2, Zenon DEF Turns
  <2>4. Next10(j, v) \in Values
    BY <2>1, NextValue, Zenon
  <2> DEFINE w == Next10(j, v)
  <2>5. IsDigit(At(j + 1)) => h[<<j + 1, w>>] = g[<<j + 1, w>>]
    <3> SUFFICES ASSUME IsDigit(At(j + 1))
                 PROVE  <<j + 1, w>> \in S
      BY Zenon
    <3>1. j + 1 \in 1..Len(fmt)
      BY CipherBounds
    <3>2. j + 1 \in Ciphers(i)
      BY <2>1, <3>1 DEF Ciphers
    <3> QED
      BY <2>4, <3>2
  <2> HIDE DEF h
  <2>6. Turn(h, j, v) = Turn(g, j, v)
    BY <2>5, Zenon DEF Turn
  <2> QED
    BY <2>3, <2>6
<1>3. IsLoop(h, i)
  <2>1. ASSUME NEW c \in S
        PROVE  g[c] = Turn(h, c[1], c[2])
    <3>1. c[1] \in Ciphers(i) /\ c[2] \in Values /\ c = <<c[1], c[2]>>
      OBVIOUS
    <3> HIDE DEF h
    <3>2. g[<<c[1], c[2]>>] = Turn(h, c[1], c[2])
      BY <1>2, <3>1, Zenon
    <3> QED
      BY <3>1, <3>2, Zenon
  <2>2. h = [c \in S |-> Turn(h, c[1], c[2])]
    <3> DEFINE k == [c \in S |-> Turn(h, c[1], c[2])]
    <3>1. \A c \in S : h[c] = k[c]
      BY <2>1, Zenon
    <3> QED
      BY <3>1, Zenon
  <2> HIDE DEF h
  <2> QED
    BY <2>2, Zenon DEF IsLoop
<1> DEFINE f == CHOOSE f : IsLoop(f, i)
<1>4. IsLoop(f, i)
  BY <1>3, Zenon
<1>5. ParseNumber(i) = f[<<i, 0>>]
  BY Zenon DEF ParseNumber, IsLoop, Turn, Next10, Ciphers, Values
<1> HIDE DEF f
<1> QED
  BY <1>4, <1>5

\* The number is a value, and the parser is behind it and still in the string.
LEMMA NumberRead ==
  ASSUME Text, NEW i \in Nat, IsDigit(At(i))
  PROVE  LET number == ParseNumber(i)
         IN  number.value \in Values /\ number.s \in (i + 1)..(Len(fmt) + 1)
<1> DEFINE size == Len(fmt)
<1>1. PICK f : IsLoop(f, i) /\ ParseNumber(i) = f[<<i, 0>>]
  BY ParseNumberLoop, Zenon
<1>2. size \in Nat /\ UINT_MAX \in Nat
  BY LimitAssumption DEF Text
<1> DEFINE Fine(j, v) == f[<<j, v>>].value \in Values /\ f[<<j, v>>].s \in (i + 1)..(size + 1)
<1>3. \A j \in Ciphers(i), v \in Values : f[<<j, v>>] = Turn(f, j, v)
  BY <1>1 DEF IsLoop
<1>4. ASSUME NEW j \in Ciphers(i), NEW v \in Values,
             \A w \in Values : j + 1 \in Ciphers(i) => Fine(j + 1, w)
      PROVE  Fine(j, v)
  <2> DEFINE w == Next10(j, v)
  <2>1. j \in i..size /\ IsDigit(At(j))
    BY DEF Ciphers
  <2>2. w \in Values
    BY <2>1, NextValue, Zenon
  <2>3. UINT_MAX \in Values /\ j + 1 \in (i + 1)..(size + 1)
    BY <1>2, <2>1 DEF Values
  <2>4. f[<<j, v>>] = Turn(f, j, v)
    BY <1>3, Zenon
  <2> HIDE DEF w
  <2>5. CASE w < v
    <3>1. Turn(f, j, v) = [value |-> UINT_MAX, s |-> j + 1]
      BY <2>5, Zenon DEF Turn, w
    <3> QED
      BY <2>3, <2>4, <3>1
  <2>6. CASE ~(w < v) /\ IsDigit(At(j + 1))
    <3>1. Turn(f, j, v) = f[<<j + 1, w>>]
      BY <2>6, Zenon DEF Turn, w
    <3>2. j + 1 \in 1..size
      BY <2>6, CipherBounds
    <3>3. j + 1 \in Ciphers(i)
      BY <2>1, <2>6, <3>2 DEF Ciphers
    <3> QED
      BY <1>4, <2>2, <2>4, <3>1, <3>3, Zenon
  <2>7. CASE ~(w < v) /\ ~IsDigit(At(j + 1))
    <3>1. Turn(f, j, v) = [value |-> w, s |-> j + 1]
      BY <2>7, Zenon DEF Turn, w
    <3> QED
      BY <2>2, <2>3, <2>4, <3>1
  <2> QED
    BY <2>5, <2>6, <2>7
<1> HIDE DEF Fine
<1> DEFINE T == {n \in Nat : \E j \in Ciphers(i), v \in Values : n = size - j /\ ~Fine(j, v)}
<1>5. ASSUME T # {} PROVE FALSE
  <2>0. T \in SUBSET Nat
    OBVIOUS
  <2> HIDE DEF T
  <2>1. PICK n \in T : \A y \in T : ~(y < n)
    BY <1>5, <2>0, LeastNatural
  <2>2. PICK j \in Ciphers(i), v \in Values : n = size - j /\ ~Fine(j, v)
    BY DEF T
  <2>3. ASSUME NEW w \in Values, j + 1 \in Ciphers(i)
        PROVE  Fine(j + 1, w)
    <3>1. j + 1 \in i..size /\ j \in i..size
      BY <2>3 DEF Ciphers
    <3>2. size - (j + 1) \in Nat /\ size - (j + 1) < n
      BY <1>2, <2>2, <3>1
    <3> QED
      BY <2>1, <2>3, <3>2 DEF T
  <2> QED
    BY <1>4, <2>2, <2>3
<1>6. i \in Ciphers(i) /\ 0 \in Values
  <2>1. i \in 1..size
    BY CipherBounds
  <2> QED
    BY <1>2, <2>1 DEF Ciphers, Values
<1>7. Fine(i, 0)
  <2>1. i \in i..size
    BY <1>6 DEF Ciphers
  <2>2. size - i \in Nat
    BY <1>2, <2>1
  <2> QED
    BY <1>5, <1>6, <2>2
<1> QED
  BY <1>1, <1>7, Zenon DEF Fine
-----------------------------------------------------------------------------
(* The types of the parser's fields                                        *)

SpecFields == {"align", "width", "fill", "flags", "precision", "type"}

\* A specification whose width is an int, and so is its precision.
Widths(spec) ==
  /\ DOMAIN spec = SpecFields
  /\ spec.width \in 0..INT_MAX /\ spec.precision \in (-INT_MAX - 1)..INT_MAX

\* Where the parser is: in the string or at its NUL, behind what it began with.
Ahead(q) == q.s \in 1..(Len(fmt) + 1) /\ q.start \in 1..q.s /\ q.field \in 1..q.s

\* Alignment begins at a colon; an error is known where the parser stopped with one.
AtColon(q) == q.pc = "align" => At(q.s) = ":"
Stopped(q) == q.pc = "error" <=> q.error # ""

\* The fields have their types.
Typed(q) ==
  /\ DOMAIN q = ParserFields /\ Widths(q.spec) /\ Ahead(q) /\ q.index \in -1..INT_MAX
  /\ AtColon(q) /\ Stopped(q)

Passed == args \in Seq([type : STRING, num : Int, str : Seq(STRING)])

Reads == Text /\ Passed /\ Typed(p)

\* A step after which the fields have their types.
LEMMA ReadsNext ==
  ASSUME Reads, UNCHANGED input, NEW q, p' = q, Typed(q)
  PROVE  Reads'
<1>1. Text' /\ Passed'
  BY DEF Reads, Text, Passed, input
<1>2. p' = q /\ Typed(q)
  OBVIOUS
<1>3. fmt' = fmt
  BY DEF input
<1>4. Typed(p)'
  BY <1>2, <1>3 DEF Typed, Ahead, AtColon, Stopped, Widths, At
<1> QED
  BY <1>1, <1>4 DEF Reads

\* The parser goes on.
LEMMA GoReads ==
  ASSUME Reads, NEW q, Go(q), Typed(q)
  PROVE  Reads'
BY ReadsNext DEF Go

\* An exception.
LEMMA FailReads ==
  ASSUME Reads, NEW why, why # "", Fail(why)
  PROVE  Reads'
<1> DEFINE q == [p EXCEPT !.pc = "error", !.error = why]
<1>1. Typed(p)
  BY DEF Reads
<1>2. DOMAIN p = ParserFields
  BY <1>1 DEF Typed
<1>3. /\ DOMAIN q = ParserFields /\ q.spec = p.spec /\ q.s = p.s /\ q.start = p.start
      /\ q.field = p.field /\ q.index = p.index /\ q.pc = "error" /\ q.error = why
  BY <1>2 DEF ParserFields
<1> HIDE DEF q
<1>4. Typed(q)
  <2>1. Ahead(q)
    BY <1>1, <1>3 DEF Typed, Ahead
  <2>2. AtColon(q) /\ Stopped(q)
    BY <1>3, Zenon DEF AtColon, Stopped
  <2> QED
    BY <1>1, <1>3, <2>1, <2>2, Zenon DEF Typed
<1>5. Go(q)
  BY DEF Fail, q
<1> QED
  BY <1>4, <1>5, GoReads

\* Text is handed to the writer.
LEMMA TextReads ==
  ASSUME Reads, NEW to, NEW upto, NEW q, WriteText(to, upto, q), Typed(q)
  PROVE  Reads'
BY ReadsNext DEF WriteText

\* A field is handed to it, and the text goes on behind the field.
LEMMA FieldReads ==
  ASSUME Reads, NEW upto \in p.s..(Len(fmt) + 1), p.pc # "error", NEW spec, NEW sts,
         WriteField(upto, spec, sts)
  PROVE  Reads'
<1> DEFINE q == [p EXCEPT !.s = upto, !.start = upto, !.pc = "text"]
<1>1. Typed(p) /\ Len(fmt) \in Nat
  BY DEF Reads, Text
<1>2. DOMAIN p = ParserFields /\ p.error = ""
  BY <1>1, Zenon DEF Typed, Stopped
<1>3. /\ DOMAIN q = ParserFields /\ q.spec = p.spec /\ q.s = upto /\ q.start = upto
      /\ q.field = p.field /\ q.index = p.index /\ q.pc = "text" /\ q.error = p.error
  BY <1>2 DEF ParserFields
<1>4. CASE Fail("refused by the writer")
  BY <1>4, FailReads
<1>5. CASE p' = q /\ UNCHANGED input
  <2> HIDE DEF q
  <2>1. upto \in 1..(Len(fmt) + 1) /\ p.field \in 1..upto
    <3>1. Ahead(p)
      BY <1>1, Zenon DEF Typed
    <3> QED
      BY <1>1, <3>1 DEF Ahead
  <2>2. Ahead(q)
    BY <1>1, <1>3, <2>1 DEF Ahead
  <2>3. AtColon(q) /\ Stopped(q)
    BY <1>2, <1>3, Zenon DEF AtColon, Stopped
  <2>4. Typed(q)
    BY <1>1, <1>3, <2>2, <2>3, Zenon DEF Typed
  <2> QED
    BY <1>5, <2>4, ReadsNext
<1> QED
  BY <1>4, <1>5 DEF WriteField

\* The number of an argument that was looked for is one, also where there is none.
LEMMA FoundNumber ==
  ASSUME Passed, NEW n \in Nat, NEW next, NEW auto
  PROVE  Found(n, next, auto).arg.num \in Int
<1>1. ArgAt(n).num \in Int
  <2>1. CASE n < MAX_ARGS /\ n < Len(args)
    <3>1. n + 1 \in 1..Len(args)
      BY <2>1 DEF Passed
    <3> DEFINE A == [type : STRING, num : Int, str : Seq(STRING)]
    <3>2. args \in Seq(A)
      BY DEF Passed
    <3>3. \A x \in A : x.num \in Int
      OBVIOUS
    <3> HIDE DEF A
    <3>4. args[n + 1] \in A
      BY <3>1, <3>2
    <3> QED
      BY <2>1, <3>3, <3>4 DEF ArgAt
  <2>2. CASE ~(n < MAX_ARGS /\ n < Len(args))
    BY <2>2 DEF ArgAt, NoArg
  <2> QED
    BY <2>1, <2>2
<1> QED
  BY <1>1 DEF Found

\* So is that of the next one.
LEMMA NextArgNumber ==
  ASSUME IInv, Passed
  PROVE  NextArg.arg.num \in Int
<1>1. CASE p.next_arg_index >= 0
  <2>1. p.next_arg_index \in Nat
    BY <1>1 DEF IInv, Indexed
  <2> QED
    BY <1>1, <2>1, FoundNumber DEF NextArg
<1>2. CASE ~(p.next_arg_index >= 0)
  <2>1. NextArg = Switched
    BY <1>2, Zenon DEF NextArg
  <2>2. Switched.arg = NoArg
    BY DEF Switched
  <2>3. NoArg.num = 0
    BY DEF NoArg
  <2>4. NextArg.arg.num = 0
    BY <2>1, <2>2, <2>3, Zenon
  <2> QED
    BY <2>4
<1> QED
  BY <1>1, <1>2

\* And that of one that is asked for by its number.
LEMMA GetArgNumber ==
  ASSUME Passed, NEW n \in Nat
  PROVE  GetArg(n).arg.num \in Int
<1>1. CASE p.next_arg_index <= 0
  BY <1>1, FoundNumber DEF GetArg
<1>2. CASE ~(p.next_arg_index <= 0)
  BY <1>2 DEF GetArg, Switched, NoArg
<1> QED
  BY <1>1, <1>2

\* The fields of a parser that took an argument, apart from those of arguments.
LEMMA TookTyped ==
  ASSUME NEW look, Typed(p)
  PROVE  LET q == Took(look)
         IN  /\ DOMAIN q = ParserFields /\ q.s = p.s /\ q.start = p.start
             /\ q.field = p.field /\ q.spec = p.spec /\ q.index = p.index
             /\ q.pc = p.pc /\ q.error = p.error
<1>1. DOMAIN p = ParserFields
  BY DEF Typed
<1> QED
  BY <1>1 DEF Took, ParserFields

\* In a field the parser goes on at s, with another part of it but the mark.
Moves(r, s) ==
  /\ DOMAIN r = ParserFields /\ r.s = s /\ r.start = p.start /\ r.field = p.field
  /\ r.error = p.error /\ r.pc \notin {"error", "align"}

\* Forward in the string is ahead.
LEMMA AheadMoves ==
  ASSUME Len(fmt) \in Nat, Ahead(p), NEW s \in p.s..(Len(fmt) + 1), NEW r,
         r.s = s, r.start = p.start, r.field = p.field
  PROVE  Ahead(r)
BY DEF Ahead

\* So the types are kept.
LEMMA MovesReads ==
  ASSUME Reads, p.pc # "error", NEW s \in p.s..(Len(fmt) + 1), NEW r, Moves(r, s),
         Widths(r.spec), r.index \in -1..INT_MAX, Go(r)
  PROVE  Reads'
<1>1. Ahead(p) /\ Stopped(p) /\ Len(fmt) \in Nat
  BY DEF Reads, Typed, Text
<1>2. /\ DOMAIN r = ParserFields /\ r.s = s /\ r.start = p.start /\ r.field = p.field
  BY Zenon DEF Moves
<1>3. Ahead(r)
  BY <1>1, <1>2, AheadMoves, Zenon
<1>4. AtColon(r) /\ Stopped(r)
  BY <1>1, Zenon DEF AtColon, Stopped, Moves
<1>5. Typed(r)
  BY <1>2, <1>3, <1>4, Zenon DEF Typed
<1> QED
  BY <1>5, GoReads

\* A position with a character that is not NUL has one behind it.
LEMMA Behind ==
  ASSUME Text, NEW i, At(i) # NUL
  PROVE  i \in 1..Len(fmt) /\ i + 1 \in 1..(Len(fmt) + 1) /\ Len(fmt) \in Nat
<1>1. i \in 1..Len(fmt) /\ Len(fmt) \in Nat
  BY AtString DEF Text
<1> QED
  BY <1>1

\* A number that is not too big is an int.
LEMMA NotTooBig ==
  ASSUME NEW v \in Values, ~TooBig(v)
  PROVE  v \in 0..INT_MAX
BY LimitAssumption DEF Values, TooBig

\* The specification a field begins with.
LEMMA NoSpecWidths ==
  Widths(NoSpec) /\ Widths([NoSpec EXCEPT !.align = "right"])
<1>1. INT_MAX \in Nat
  BY LimitAssumption
<1>2. 0 \in 0..INT_MAX /\ -1 \in (-INT_MAX - 1)..INT_MAX
  BY <1>1
<1> DEFINE other == [NoSpec EXCEPT !.align = "right"]
<1>3. /\ DOMAIN NoSpec = SpecFields /\ NoSpec.width = 0 /\ NoSpec.precision = -1
      /\ DOMAIN other = SpecFields /\ other.width = 0 /\ other.precision = -1
  BY DEF NoSpec, SpecFields
<1> HIDE DEF other
<1>4. Widths(NoSpec) /\ Widths(other)
  BY <1>2, <1>3, Zenon DEF Widths
<1> QED
  BY <1>4 DEF other

\* A specification with another width, or another precision.
LEMMA WidthsOf ==
  ASSUME Reads, NEW spec, DOMAIN spec = SpecFields,
         spec.width = p.spec.width \/ spec.width \in 0..INT_MAX,
         spec.precision = p.spec.precision \/ spec.precision \in (-INT_MAX - 1)..INT_MAX
  PROVE  Widths(spec)
<1>1. Widths(p.spec)
  BY DEF Reads, Typed
<1> QED
  BY <1>1, Zenon DEF Widths

\* An exception with its message.
Fails == \E why : why # "" /\ Fail(why)
-----------------------------------------------------------------------------
(* The types in the brace syntax                                           *)

\* What parse_arg_index returns is in the string, and the argument has a number.
LEMMA ArgIndexRead ==
  ASSUME Reads, IInv, NEW i \in 1..(Len(fmt) + 1)
  PROVE  ParseArgIndex(i).s \in i..(Len(fmt) + 1) /\ ParseArgIndex(i).look.arg.num \in Int
<1> DEFINE number == ParseNumber(i)
<1>1. Text /\ Passed /\ i \in Nat /\ Len(fmt) \in Nat
  BY DEF Reads, Text
<1>2. CASE IsDigit(At(i))
  <2>1. ParseArgIndex(i).s = number.s /\ ParseArgIndex(i).look = GetArg(number.value)
    BY <1>2 DEF ParseArgIndex
  <2>2. number.value \in Values /\ number.s \in (i + 1)..(Len(fmt) + 1)
    BY <1>1, <1>2, NumberRead
  <2> HIDE DEF number
  <2>3. number.value \in Nat
    BY <2>2, LimitAssumption DEF Values
  <2>4. GetArg(number.value).arg.num \in Int
    BY <1>1, <2>3, GetArgNumber
  <2>5. number.s \in i..(Len(fmt) + 1)
    BY <1>1, <2>2
  <2> QED
    BY <2>1, <2>4, <2>5, Zenon
<1>3. CASE ~IsDigit(At(i))
  <2>1. ParseArgIndex(i).s = i /\ ParseArgIndex(i).look = NextArg
    BY <1>3 DEF ParseArgIndex
  <2>2. NextArg.arg.num \in Int
    BY <1>1, NextArgNumber
  <2>3. i \in i..(Len(fmt) + 1)
    BY <1>1
  <2> QED
    BY <2>1, <2>2, <2>3, Zenon
<1> QED
  BY <1>2, <1>3

\* A stretch of text brings the parser to its end, at s, with start and field before.
LEMMA StretchReads ==
  ASSUME Reads, p.pc # "error", NEW s \in 1..(Len(fmt) + 1), NEW q,
         DOMAIN q = ParserFields, Widths(q.spec), q.index \in -1..INT_MAX,
         q.s = s, q.start \in 1..s, q.field \in 1..s, q.error = p.error,
         q.pc \notin {"error", "align"}, NEW to, NEW upto, WriteText(to, upto, q)
  PROVE  Reads'
<1>1. Stopped(p)
  BY DEF Reads, Typed
<1>2. Ahead(q)
  BY Zenon DEF Ahead
<1>3. q.pc # "align" /\ q.pc # "error"
  OBVIOUS
<1>4. AtColon(q)
  BY <1>3, Zenon DEF AtColon
<1>5. Stopped(q)
  <2>1. p.error = ""
    BY <1>1, Zenon DEF Stopped
  <2>2. q.error = ""
    BY <2>1
  <2> QED
    BY <1>3, <2>2, Zenon DEF Stopped
<1>6. Typed(q)
  BY <1>2, <1>4, <1>5, Zenon DEF Typed
<1> QED
  BY <1>6, TextReads

\* Where the text stops, and what is behind a delimiter.
LEMMA TextStops ==
  ASSUME Reads, NEW stops
  PROVE  LET j == StopAt(p.s, stops)
         IN  /\ j \in 1..(Len(fmt) + 1) /\ j + 1 \in Nat
             /\ p.start \in 1..j /\ p.field \in 1..j
             /\ At(j) # NUL => j + 1 \in 1..(Len(fmt) + 1) /\ j \in 1..(j + 1)
                               /\ p.start \in 1..(j + 1)
             /\ At(j + 1) # NUL => j + 2 \in 1..(Len(fmt) + 1) /\ j + 2 \in 1..(j + 2)
                                   /\ p.field \in 1..(j + 2)
<1> DEFINE j == StopAt(p.s, stops)
<1>1. Text /\ Ahead(p)
  BY DEF Reads, Typed
<1>2. p.s \in 1..(Len(fmt) + 1) /\ p.start \in 1..p.s /\ p.field \in 1..p.s
      /\ Len(fmt) \in Nat
  BY <1>1 DEF Ahead, Text
<1>3. j \in p.s..(Len(fmt) + 1)
  BY <1>1, <1>2, StopsAt DEF Text
<1> HIDE DEF j
<1>4. At(j) # NUL => j \in 1..Len(fmt)
  BY <1>1, Behind
<1>5. At(j + 1) # NUL => j + 1 \in 1..Len(fmt)
  BY <1>1, Behind
<1>6. /\ j \in 1..(Len(fmt) + 1) /\ j + 1 \in Nat /\ p.start \in 1..j /\ p.field \in 1..j
      /\ j \in 1..(j + 1) /\ p.start \in 1..(j + 1) /\ j + 2 \in 1..(j + 2)
      /\ p.field \in 1..(j + 2)
  BY <1>2, <1>3
<1>7. j \in 1..Len(fmt) => j + 1 \in 1..(Len(fmt) + 1)
  BY <1>2
<1>8. j + 1 \in 1..Len(fmt) => j + 2 \in 1..(Len(fmt) + 1)
  BY <1>2, <1>6
<1> QED
  BY <1>4, <1>5, <1>6, <1>7, <1>8, Zenon DEF j

\* Text and escapes, in either syntax.
LEMMA PlainReads ==
  ASSUME Reads, NEW stops, NUL \notin stops, p.pc = "text",
         LET j == StopAt(p.s, stops)
         IN  \/ \E to, upto : WriteText(to, upto, [p EXCEPT !.s = j, !.start = j, !.pc = "done"])
             \/ /\ At(j + 1) # NUL
                /\ \E to, upto : WriteText(to, upto, [p EXCEPT !.s = j + 2, !.start = j + 2])
  PROVE  Reads'
<1> DEFINE j == StopAt(p.s, stops)
           end == [p EXCEPT !.s = j, !.start = j, !.pc = "done"]
           twice == [p EXCEPT !.s = j + 2, !.start = j + 2]
<1>1. DOMAIN p = ParserFields /\ Widths(p.spec) /\ p.index \in -1..INT_MAX
  BY DEF Reads, Typed
<1>2. /\ DOMAIN end = ParserFields /\ end.s = j /\ end.start = j /\ end.field = p.field
      /\ end.spec = p.spec /\ end.index = p.index /\ end.error = p.error /\ end.pc = "done"
  BY <1>1 DEF ParserFields
<1>3. /\ DOMAIN twice = ParserFields /\ twice.s = j + 2 /\ twice.start = j + 2
      /\ twice.field = p.field /\ twice.spec = p.spec /\ twice.index = p.index
      /\ twice.error = p.error /\ twice.pc = p.pc
  BY <1>1 DEF ParserFields
<1>4. /\ j \in 1..(Len(fmt) + 1) /\ p.field \in 1..j
      /\ At(j + 1) # NUL => j + 2 \in 1..(Len(fmt) + 1) /\ j + 2 \in 1..(j + 2)
                            /\ p.field \in 1..(j + 2)
  BY TextStops, Zenon
<1>5. j \in 1..j
  BY <1>4
<1>6. \/ \E to, upto : WriteText(to, upto, end)
      \/ At(j + 1) # NUL /\ \E to, upto : WriteText(to, upto, twice)
  OBVIOUS
<1> HIDE DEF j, end, twice
<1>7. ASSUME NEW to, NEW upto, WriteText(to, upto, end)
      PROVE  Reads'
  BY <1>1, <1>2, <1>4, <1>5, <1>7, StretchReads
<1>8. ASSUME NEW to, NEW upto, WriteText(to, upto, twice), At(j + 1) # NUL
      PROVE  Reads'
  BY <1>1, <1>3, <1>4, <1>8, StretchReads
<1> QED
  BY <1>6, <1>7, <1>8

\* Text, escapes, stray braces and the beginning of a field.
LEMMA BraceTextReads ==
  ASSUME Reads, BraceEnd \/ BraceEscape \/ BraceUnmatched \/ BraceField
  PROVE  Reads'
<1> DEFINE j == StopAt(p.s, Braces)
<1>1. NUL \notin Braces
  BY DEF NUL, Braces
<1>2. CASE BraceEnd
  BY <1>1, <1>2, PlainReads DEF BraceEnd
<1>3. CASE BraceEscape
  <2>1. p.pc = "text" /\ At(j + 1) # NUL
    BY <1>1, <1>3, Zenon DEF BraceEscape
  <2> QED
    BY <1>1, <1>3, <2>1, PlainReads DEF BraceEscape
<1>4. CASE BraceUnmatched
  BY <1>4, FailReads DEF BraceUnmatched
<1>5. CASE BraceField
  <2> DEFINE q == [p EXCEPT !.s = j + 1, !.field = j, !.pc = "index"]
  <2>1. DOMAIN p = ParserFields /\ Widths(p.spec) /\ p.index \in -1..INT_MAX
    BY DEF Reads, Typed
  <2>2. /\ DOMAIN q = ParserFields /\ q.s = j + 1 /\ q.start = p.start /\ q.field = j
        /\ q.spec = p.spec /\ q.index = p.index /\ q.error = p.error /\ q.pc = "index"
    BY <2>1 DEF ParserFields
  <2>3. p.pc = "text" /\ At(j) # NUL /\ WriteText(j, j, q)
    BY <1>1, <1>5 DEF BraceField, NUL
  <2>4. j + 1 \in 1..(Len(fmt) + 1) /\ j \in 1..(j + 1) /\ p.start \in 1..(j + 1)
    BY <2>3, TextStops, Zenon
  <2> HIDE DEF j, q
  <2> QED
    BY <2>1, <2>2, <2>3, <2>4, StretchReads
<1> QED
  BY <1>2, <1>3, <1>4, <1>5

\* The argument of a field.
LEMMA BraceIndexReads ==
  ASSUME Reads, IInv, BraceIndex
  PROVE  Reads'
<1> DEFINE r == ParseArgIndex(p.s)
           q == [Took(r.look) EXCEPT
                   !.arg = Printed(r.look.arg), !.spec = NoSpec, !.s = r.s,
                   !.pc = IF At(r.s) = ":" THEN "align" ELSE "close"]
<1>0. p.pc # "error"
  BY DEF BraceIndex
<1>1. Typed(p) /\ Ahead(p) /\ Stopped(p) /\ p.index \in -1..INT_MAX /\ Len(fmt) \in Nat
  BY DEF Reads, Typed, Text
<1>2. r.s \in p.s..(Len(fmt) + 1)
  BY <1>1, ArgIndexRead DEF Ahead
<1>3. CASE r.error # ""
  BY <1>3, FailReads DEF BraceIndex
<1>4. CASE r.error = ""
  <2>1. Go(q)
    BY <1>4 DEF BraceIndex
  <2>2. /\ DOMAIN Took(r.look) = ParserFields /\ Took(r.look).start = p.start
        /\ Took(r.look).field = p.field /\ Took(r.look).index = p.index
        /\ Took(r.look).error = p.error
    BY <1>1, TookTyped, Zenon
  <2>3. /\ DOMAIN q = ParserFields /\ q.s = r.s /\ q.start = p.start /\ q.field = p.field
        /\ q.spec = NoSpec /\ q.index = p.index /\ q.error = p.error
        /\ q.pc = IF At(r.s) = ":" THEN "align" ELSE "close"
    BY <2>2 DEF ParserFields
  <2> HIDE DEF q
  <2>4. Ahead(q)
    BY <1>1, <1>2, <2>3, AheadMoves, Zenon
  <2>5. AtColon(q)
    BY <2>3 DEF AtColon
  <2>6. q.pc # "error"
    BY <2>3
  <2>7. Stopped(q)
    BY <1>0, <1>1, <2>3, <2>6, Zenon DEF Stopped
  <2>8. Typed(q)
    BY <1>1, <2>3, <2>4, <2>5, <2>7, NoSpecWidths, Zenon DEF Typed
  <2> QED
    BY <2>1, <2>8, GoReads
<1> QED
  BY <1>3, <1>4

\* What the parser of a field has, and where it may go.
LEMMA Here ==
  ASSUME Reads
  PROVE  /\ DOMAIN p = ParserFields /\ DOMAIN p.spec = SpecFields /\ Widths(p.spec)
         /\ p.index \in -1..INT_MAX /\ Text /\ Len(fmt) \in Nat
         /\ p.s \in 1..(Len(fmt) + 1) /\ p.s \in p.s..(Len(fmt) + 1)
         /\ At(p.s) # NUL => p.s + 1 \in p.s..(Len(fmt) + 1) /\ p.s + 1 \in Nat
                             /\ p.s + 1 \in 1..(Len(fmt) + 1)
<1>1. Text /\ Len(fmt) \in Nat /\ Ahead(p) /\ Widths(p.spec) /\ DOMAIN p = ParserFields
      /\ p.index \in -1..INT_MAX
  BY DEF Reads, Typed, Text
<1>2. p.s \in 1..(Len(fmt) + 1)
  BY <1>1 DEF Ahead
<1>3. At(p.s) # NUL => p.s \in 1..Len(fmt)
  BY <1>1, Behind
<1>4. p.s \in p.s..(Len(fmt) + 1)
  BY <1>1, <1>2
<1>5. p.s \in 1..Len(fmt) => p.s + 1 \in p.s..(Len(fmt) + 1) /\ p.s + 1 \in Nat
                             /\ p.s + 1 \in 1..(Len(fmt) + 1)
  BY <1>1
<1> QED
  BY <1>1, <1>2, <1>3, <1>4, <1>5, Zenon DEF Widths

\* Fill and alignment.
LEMMA BraceAlignReads ==
  ASSUME Reads, BraceAlign
  PROVE  Reads'
<1> DEFINE s == p.s + 1
           c == At(s)
           filled == c # NUL /\ At(s + 1) \in Marks
           mark == IF filled THEN At(s + 1) ELSE c
           aligned == [p EXCEPT !.spec.align = AlignOf(mark), !.pc = "sign"]
           plain == [p EXCEPT !.s = s, !.pc = "sign"]
           behind == [aligned EXCEPT !.s = s]
           fills == [aligned EXCEPT !.s = s + 2, !.spec.fill = c]
           marked == [aligned EXCEPT !.s = s + 1]
<1>1. /\ DOMAIN p = ParserFields /\ DOMAIN p.spec = SpecFields /\ Widths(p.spec)
      /\ p.index \in -1..INT_MAX /\ Text /\ Len(fmt) \in Nat /\ p.s \in 1..(Len(fmt) + 1)
  BY Here, Zenon
<1>2. p.pc = "align"
  BY DEF BraceAlign
<1>3. At(p.s) # NUL /\ p.pc # "error"
  BY <1>2 DEF Reads, Typed, AtColon, NUL
<1>4. s \in p.s..(Len(fmt) + 1) /\ s \in Nat
  BY <1>3, Here, Zenon
<1>5. c # NUL => s + 1 \in p.s..(Len(fmt) + 1)
  <2>1. c # NUL => s \in 1..Len(fmt)
    BY <1>1, Behind
  <2> HIDE DEF c
  <2> QED
    BY <1>1, <2>1
<1>6. At(s + 1) # NUL => s + 2 \in p.s..(Len(fmt) + 1)
  <2>1. At(s + 1) # NUL => s + 1 \in 1..Len(fmt)
    BY <1>1, Behind
  <2>2. s + 1 \in 1..Len(fmt) => s + 2 \in p.s..(Len(fmt) + 1)
    BY <1>1
  <2> QED
    BY <2>1, <2>2, Zenon
<1>7. /\ DOMAIN aligned = ParserFields /\ aligned.s = p.s /\ aligned.start = p.start
      /\ aligned.field = p.field /\ aligned.error = p.error /\ aligned.pc = "sign"
      /\ aligned.index = p.index /\ DOMAIN aligned.spec = SpecFields
      /\ aligned.spec.width = p.spec.width /\ aligned.spec.precision = p.spec.precision
  BY <1>1 DEF ParserFields, SpecFields
<1> HIDE DEF aligned
<1>8. Moves(plain, s) /\ plain.spec = p.spec /\ plain.index = p.index
  BY <1>1 DEF Moves, ParserFields
<1>9. /\ Moves(behind, s) /\ behind.spec = aligned.spec /\ behind.index = p.index
      /\ Moves(marked, s + 1) /\ marked.spec = aligned.spec /\ marked.index = p.index
  BY <1>7 DEF Moves, ParserFields
<1>10. /\ Moves(fills, s + 2) /\ fills.index = p.index /\ DOMAIN fills.spec = SpecFields
       /\ fills.spec.width = p.spec.width /\ fills.spec.precision = p.spec.precision
  BY <1>7 DEF Moves, ParserFields, SpecFields
<1>11. NUL \notin Marks
  BY DEF NUL, Marks
<1>12. \/ Go(plain) \/ Go(behind) \/ Fails
       \/ At(s + 1) # NUL /\ Go(fills)
       \/ c # NUL /\ Go(marked)
  <2>1. \/ Go(plain) \/ Go(behind) \/ Fail("invalid fill character")
        \/ Fail("requires numeric argument")
        \/ filled /\ Go(fills)
        \/ ~filled /\ mark \in Marks /\ Go(marked)
    BY Zenon DEF BraceAlign, aligned
  <2>2. filled => At(s + 1) # NUL
    BY <1>11
  <2>3. ~filled /\ mark \in Marks => c # NUL
    BY <1>11
  <2> HIDE DEF filled, mark, plain, behind, fills, marked
  <2> QED
    BY <2>1, <2>2, <2>3 DEF Fails
<1>13. Widths(aligned.spec) /\ Widths(fills.spec)
  BY <1>7, <1>10, WidthsOf, Zenon
<1> HIDE DEF s, c, plain, behind, fills, marked
<1>14. CASE Go(plain)
  BY <1>1, <1>3, <1>4, <1>8, <1>14, MovesReads
<1>15. CASE Go(behind)
  BY <1>1, <1>3, <1>4, <1>9, <1>13, <1>15, MovesReads
<1>16. CASE At(s + 1) # NUL /\ Go(fills)
  BY <1>1, <1>3, <1>6, <1>10, <1>13, <1>16, MovesReads
<1>17. CASE c # NUL /\ Go(marked)
  BY <1>1, <1>3, <1>5, <1>9, <1>13, <1>17, MovesReads
<1>18. CASE Fails
  BY <1>18, FailReads DEF Fails
<1> QED
  BY <1>12, <1>14, <1>15, <1>16, <1>17, <1>18

\* Sign, mark of the base and type.
LEMMA BraceMarkReads ==
  ASSUME Reads, BraceSign \/ BraceHash \/ BraceType
  PROVE  Reads'
<1>1. /\ DOMAIN p = ParserFields /\ DOMAIN p.spec = SpecFields /\ Widths(p.spec)
      /\ p.index \in -1..INT_MAX /\ p.s \in p.s..(Len(fmt) + 1)
      /\ At(p.s) # NUL => p.s + 1 \in p.s..(Len(fmt) + 1)
  BY Here, Zenon
<1>2. p.pc # "error"
  BY DEF BraceSign, BraceHash, BraceType
<1>3. ASSUME NEW pc, pc \notin {"error", "align"}, Go([p EXCEPT !.pc = pc])
      PROVE  Reads'
  <2> DEFINE q == [p EXCEPT !.pc = pc]
  <2>1. Moves(q, p.s) /\ q.spec = p.spec /\ q.index = p.index
    BY <1>1, <1>3 DEF Moves, ParserFields
  <2>2. Go(q)
    BY <1>3
  <2> HIDE DEF q
  <2> QED
    BY <1>1, <1>2, <2>1, <2>2, MovesReads
<1>4. ASSUME NEW spec, DOMAIN spec = SpecFields, spec.width = p.spec.width,
             spec.precision = p.spec.precision, NEW pc, pc \notin {"error", "align"},
             At(p.s) # NUL, NEW q, q = [p EXCEPT !.spec = spec, !.s = @ + 1, !.pc = pc], Go(q)
      PROVE  Reads'
  <2> DEFINE s == p.s + 1
  <2>1. q = [p EXCEPT !.spec = spec, !.s = s, !.pc = pc]
    BY <1>4
  <2>2. s \in p.s..(Len(fmt) + 1)
    BY <1>1, <1>4
  <2> HIDE DEF s
  <2>3. Moves(q, s) /\ q.spec = spec /\ q.index = p.index
    BY <1>1, <1>4, <2>1 DEF Moves, ParserFields
  <2>4. Widths(spec)
    BY <1>4, WidthsOf, Zenon
  <2> QED
    BY <1>1, <1>2, <1>4, <2>2, <2>3, <2>4, MovesReads
<1>5. CASE BraceSign
  <2> DEFINE spec == [p.spec EXCEPT !.flags = SignFlags(At(p.s))]
             q == [p EXCEPT !.spec.flags = SignFlags(At(p.s)), !.s = @ + 1, !.pc = "hash"]
  <2>1. /\ DOMAIN spec = SpecFields /\ spec.width = p.spec.width
        /\ spec.precision = p.spec.precision
    BY <1>1 DEF SpecFields
  <2>2. q = [p EXCEPT !.spec = spec, !.s = @ + 1, !.pc = "hash"]
    BY <1>1, Zenon
  <2>3. \/ Go([p EXCEPT !.pc = "hash"]) \/ Fail("requires signed argument")
        \/ At(p.s) \in {"+", "-", " "} /\ Go(q)
    BY <1>5, Zenon DEF BraceSign
  <2>4. At(p.s) \in {"+", "-", " "} => At(p.s) # NUL
    BY DEF NUL
  <2> HIDE DEF spec, q
  <2>5. CASE Go([p EXCEPT !.pc = "hash"])
    BY <1>3, <2>5
  <2>6. CASE Fail("requires signed argument")
    BY <2>6, FailReads
  <2>7. CASE At(p.s) # NUL /\ Go(q)
    BY <1>4, <2>1, <2>2, <2>7
  <2> QED
    BY <2>3, <2>4, <2>5, <2>6, <2>7
<1>6. CASE BraceHash
  <2> DEFINE spec == [p.spec EXCEPT !.flags = @ \cup {"HASH"}]
             q == [p EXCEPT !.spec.flags = @ \cup {"HASH"}, !.s = @ + 1, !.pc = "width"]
  <2>1. /\ DOMAIN spec = SpecFields /\ spec.width = p.spec.width
        /\ spec.precision = p.spec.precision
    BY <1>1 DEF SpecFields
  <2>2. q = [p EXCEPT !.spec = spec, !.s = @ + 1, !.pc = "width"]
    BY <1>1, Zenon
  <2>3. \/ Go([p EXCEPT !.pc = "width"]) \/ Fail("requires numeric argument")
        \/ At(p.s) = "#" /\ Go(q)
    BY <1>6, Zenon DEF BraceHash
  <2>4. At(p.s) = "#" => At(p.s) # NUL
    BY DEF NUL
  <2> HIDE DEF spec, q
  <2>5. CASE Go([p EXCEPT !.pc = "width"])
    BY <1>3, <2>5
  <2>6. CASE Fail("requires numeric argument")
    BY <2>6, FailReads
  <2>7. CASE At(p.s) # NUL /\ Go(q)
    BY <1>4, <2>1, <2>2, <2>7
  <2> QED
    BY <2>3, <2>4, <2>5, <2>6, <2>7
<1>7. CASE BraceType
  <2> DEFINE spec == [p.spec EXCEPT !.type = At(p.s)]
             q == [p EXCEPT !.spec.type = At(p.s), !.s = @ + 1, !.pc = "close"]
  <2>1. /\ DOMAIN spec = SpecFields /\ spec.width = p.spec.width
        /\ spec.precision = p.spec.precision
    BY <1>1 DEF SpecFields
  <2>2. q = [p EXCEPT !.spec = spec, !.s = @ + 1, !.pc = "close"]
    BY <1>1, Zenon
  <2>3. \/ Go([p EXCEPT !.pc = "close"])
        \/ At(p.s) # NUL /\ Go(q)
    <3>1. CASE At(p.s) \in {"}", NUL}
      BY <1>7, <3>1, Zenon DEF BraceType
    <3>2. CASE At(p.s) \notin {"}", NUL}
      <4>1. Go(q)
        BY <1>7, <3>2, Zenon DEF BraceType
      <4> QED
        BY <3>2, <4>1, Zenon
    <3> QED
      BY <3>1, <3>2, Zenon
  <2> HIDE DEF spec, q
  <2>5. CASE Go([p EXCEPT !.pc = "close"])
    BY <1>3, <2>5
  <2>7. CASE At(p.s) # NUL /\ Go(q)
    BY <1>4, <2>1, <2>2, <2>7
  <2> QED
    BY <2>3, <2>5, <2>7
<1> QED
  BY <1>5, <1>6, <1>7

\* The number of digits at i, in the string behind the parser.
LEMMA NumberHere ==
  ASSUME Reads, NEW i \in p.s..(Len(fmt) + 1), IsDigit(At(i))
  PROVE  LET number == ParseNumber(i)
         IN  /\ number.value \in Values /\ number.s \in p.s..(Len(fmt) + 1)
             /\ number.s \in Nat
             /\ ~TooBig(number.value) => number.value \in 0..INT_MAX
<1> DEFINE number == ParseNumber(i)
<1>1. Text /\ Len(fmt) \in Nat /\ p.s \in 1..(Len(fmt) + 1)
  BY Here, Zenon
<1>2. i \in Nat
  BY <1>1
<1>3. number.value \in Values /\ number.s \in (i + 1)..(Len(fmt) + 1)
  BY <1>1, <1>2, NumberRead
<1> HIDE DEF number
<1>4. number.s \in p.s..(Len(fmt) + 1) /\ number.s \in Nat
  BY <1>1, <1>2, <1>3
<1>5. ~TooBig(number.value) => number.value \in 0..INT_MAX
  BY <1>3, NotTooBig
<1> QED
  BY <1>3, <1>4, <1>5, Zenon DEF number

\* The width.
LEMMA BraceWidthReads ==
  ASSUME Reads, BraceWidth
  PROVE  Reads'
<1> DEFINE number == ParseNumber(p.s)
           zero == At(p.s) = "0"
           none == [p EXCEPT !.pc = "precision"]
           q == [p EXCEPT !.spec.align = IF zero THEN "numeric" ELSE @,
                          !.spec.fill = IF zero THEN "0" ELSE @,
                          !.spec.width = number.value,
                          !.s = number.s, !.pc = "precision"]
<1>1. /\ DOMAIN p = ParserFields /\ DOMAIN p.spec = SpecFields /\ Widths(p.spec)
      /\ p.index \in -1..INT_MAX /\ p.s \in p.s..(Len(fmt) + 1)
  BY Here, Zenon
<1>2. p.pc # "error"
  BY DEF BraceWidth
<1>3. \/ Go(none) \/ Fail("requires numeric argument") \/ Fail("number is too big")
      \/ IsDigit(At(p.s)) /\ ~TooBig(number.value) /\ Go(q)
  BY Zenon DEF BraceWidth
<1>4. Moves(none, p.s) /\ none.spec = p.spec /\ none.index = p.index
  BY <1>1 DEF Moves, ParserFields
<1>5. IsDigit(At(p.s)) /\ ~TooBig(number.value) =>
        number.value \in 0..INT_MAX /\ number.s \in p.s..(Len(fmt) + 1)
  BY <1>1, NumberHere, Zenon
<1> HIDE DEF number
<1>6. /\ Moves(q, number.s) /\ q.index = p.index /\ DOMAIN q.spec = SpecFields
      /\ q.spec.width = number.value /\ q.spec.precision = p.spec.precision
  BY <1>1 DEF Moves, ParserFields, SpecFields
<1> HIDE DEF none, q
<1>7. CASE Go(none)
  BY <1>1, <1>2, <1>4, <1>7, MovesReads
<1>8. CASE IsDigit(At(p.s)) /\ ~TooBig(number.value) /\ Go(q)
  <2>1. Widths(q.spec)
    BY <1>5, <1>6, <1>8, WidthsOf, Zenon
  <2> QED
    BY <1>1, <1>2, <1>5, <1>6, <1>8, <2>1, MovesReads
<1>9. CASE Fail("requires numeric argument") \/ Fail("number is too big")
  BY <1>9, FailReads
<1> QED
  BY <1>3, <1>7, <1>8, <1>9

\* The precision, of digits or of another argument.
LEMMA BracePrecisionReads ==
  ASSUME Reads, IInv, BracePrecision
  PROVE  Reads'
<1> DEFINE number == ParseNumber(p.s + 1)
           r == ParseArgIndex(p.s + 2)
           by == r.look.arg
           none == [p EXCEPT !.pc = "type"]
           given == [[p EXCEPT !.s = number.s] EXCEPT !.spec.precision = number.value,
                                                      !.pc = "type"]
           taken == [[Took(r.look) EXCEPT !.s = r.s + 1]
                       EXCEPT !.spec.precision = by.num, !.pc = "type"]
           Short(value) == ~(value > INT_MAX)
<1>1. /\ DOMAIN p = ParserFields /\ DOMAIN p.spec = SpecFields /\ Widths(p.spec)
      /\ p.index \in -1..INT_MAX /\ p.s \in p.s..(Len(fmt) + 1) /\ Typed(p)
      /\ Text /\ Len(fmt) \in Nat /\ p.s \in 1..(Len(fmt) + 1)
  BY Here, Zenon DEF Reads
<1>2. p.pc # "error"
  BY DEF BracePrecision
<1>3. \/ Go(none) \/ Fails
      \/ IsDigit(At(p.s + 1)) /\ Short(number.value) /\ Go(given)
      \/ /\ At(p.s + 1) = "{" /\ At(r.s) = "}" /\ ~(by.num < 0) /\ Short(by.num)
         /\ Go(taken)
  <2>1. ASSUME NEW q, NEW value, Precise(q, value)
        PROVE  \/ Fails
               \/ Short(value) /\ Go([q EXCEPT !.spec.precision = value, !.pc = "type"])
    BY <2>1 DEF Precise, Fails
  <2>2. CASE Go(none)
    BY <2>2
  <2>3. CASE IsDigit(At(p.s + 1)) /\ Precise([p EXCEPT !.s = number.s], number.value)
    BY <2>1, <2>3, Zenon
  <2>4. CASE /\ At(p.s + 1) = "{" /\ At(r.s) = "}" /\ ~(by.num < 0)
             /\ Precise([Took(r.look) EXCEPT !.s = r.s + 1], by.num)
    BY <2>1, <2>4, Zenon
  <2>5. CASE r.error # "" /\ Fail(r.error)
    BY <2>5, Zenon DEF Fails
  <2>6. CASE \/ Fail("invalid format string") \/ Fail("precision is not integer")
             \/ Fail("negative precision") \/ Fail("missing precision specifier")
    BY <2>6 DEF Fails
  <2>7. \/ Go(none)
        \/ IsDigit(At(p.s + 1)) /\ Precise([p EXCEPT !.s = number.s], number.value)
        \/ /\ At(p.s + 1) = "{" /\ At(r.s) = "}" /\ ~(by.num < 0)
           /\ Precise([Took(r.look) EXCEPT !.s = r.s + 1], by.num)
        \/ r.error # "" /\ Fail(r.error)
        \/ \/ Fail("invalid format string") \/ Fail("precision is not integer")
           \/ Fail("negative precision") \/ Fail("missing precision specifier")
    BY Zenon DEF BracePrecision
  <2> QED
    BY <2>2, <2>3, <2>4, <2>5, <2>6, <2>7, Zenon
<1>4. ASSUME At(p.s + 1) # NUL
      PROVE  p.s + 1 \in p.s..(Len(fmt) + 1) /\ p.s + 2 \in 1..(Len(fmt) + 1)
  <2>1. p.s + 1 \in 1..Len(fmt)
    BY <1>1, <1>4, Behind
  <2> QED
    BY <1>1, <2>1
<1>5. Moves(none, p.s) /\ none.spec = p.spec /\ none.index = p.index
  BY <1>1 DEF Moves, ParserFields
<1>6. CASE IsDigit(At(p.s + 1)) /\ Short(number.value) /\ Go(given)
  <2>1. At(p.s + 1) # NUL
    BY <1>6 DEF IsDigit, NUL, Digits
  <2>2. p.s + 1 \in p.s..(Len(fmt) + 1)
    BY <1>4, <2>1, Zenon
  <2>3. number.value \in Values /\ number.s \in p.s..(Len(fmt) + 1)
    BY <1>6, <2>2, NumberHere, Zenon
  <2> HIDE DEF number
  <2>4. number.value \in (-INT_MAX - 1)..INT_MAX
    BY <1>6, <2>3, LimitAssumption DEF Values
  <2>5. /\ Moves(given, number.s) /\ given.index = p.index /\ DOMAIN given.spec = SpecFields
        /\ given.spec.width = p.spec.width /\ given.spec.precision = number.value
    BY <1>1 DEF Moves, ParserFields, SpecFields
  <2> HIDE DEF given
  <2>6. Widths(given.spec)
    BY <2>4, <2>5, WidthsOf, Zenon
  <2> QED
    BY <1>1, <1>2, <1>6, <2>3, <2>5, <2>6, MovesReads
<1>7. CASE /\ At(p.s + 1) = "{" /\ At(r.s) = "}" /\ ~(by.num < 0) /\ Short(by.num)
           /\ Go(taken)
  <2> DEFINE s == r.s + 1
  <2>1. At(p.s + 1) # NUL /\ At(r.s) # NUL
    BY <1>7 DEF NUL
  <2>2. p.s + 2 \in 1..(Len(fmt) + 1)
    BY <1>4, <2>1, Zenon
  <2>3. r.s \in (p.s + 2)..(Len(fmt) + 1) /\ by.num \in Int
    BY <2>2, ArgIndexRead, Zenon
  <2>4. r.s \in 1..Len(fmt)
    BY <1>1, <2>1, Behind, Zenon
  <2>5. /\ DOMAIN Took(r.look) = ParserFields /\ Took(r.look).start = p.start
        /\ Took(r.look).field = p.field /\ Took(r.look).spec = p.spec
        /\ Took(r.look).index = p.index /\ Took(r.look).error = p.error
    BY <1>1, TookTyped, Zenon
  <2> HIDE DEF r
  <2>6. s \in p.s..(Len(fmt) + 1)
    BY <1>1, <2>3, <2>4
  <2>7. by.num \in (-INT_MAX - 1)..INT_MAX
    <3> DEFINE n == by.num
    <3>1. n \in Int /\ ~(n < 0) /\ ~(n > INT_MAX)
      BY <1>7, <2>3, Zenon
    <3>2. INT_MAX \in Nat
      BY LimitAssumption
    <3> HIDE DEF n
    <3>3. n \in (-INT_MAX - 1)..INT_MAX
      BY <3>1, <3>2
    <3> QED
      BY <3>3 DEF n
  <2> HIDE DEF s
  <2>8. taken = [[Took(r.look) EXCEPT !.s = s]
                   EXCEPT !.spec.precision = by.num, !.pc = "type"]
    BY DEF s
  <2> HIDE DEF by, taken
  <2>9. /\ Moves(taken, s) /\ taken.index = p.index /\ DOMAIN taken.spec = SpecFields
        /\ taken.spec.width = p.spec.width /\ taken.spec.precision = by.num
    BY <1>1, <2>5, <2>8 DEF Moves, ParserFields, SpecFields
  <2>10. Widths(taken.spec)
    BY <2>7, <2>9, WidthsOf, Zenon
  <2> QED
    BY <1>1, <1>2, <1>7, <2>6, <2>9, <2>10, MovesReads
<1> HIDE DEF none, number, r, by, given, taken
<1>8. CASE Go(none)
  BY <1>1, <1>2, <1>5, <1>8, MovesReads
<1>9. CASE Fails
  BY <1>9, FailReads DEF Fails
<1> QED
  BY <1>3, <1>6, <1>7, <1>8, <1>9, Zenon

\* Every action of the brace syntax.
LEMMA BraceReads ==
  ASSUME Reads, IInv, BraceNext
  PROVE  Reads'
<1>1. CASE BraceClose
  <2>1. p.pc # "error"
    BY <1>1 DEF BraceClose
  <2>2. \/ Fail("missing '}'") \/ Fail("refused by the formatter")
        \/ At(p.s) = "}" /\ WriteField(p.s + 1, p.spec, <<Visit(p.arg, p.spec)>>)
    BY <1>1, Zenon DEF BraceClose
  <2>3. CASE Fail("missing '}'") \/ Fail("refused by the formatter")
    BY <2>3, FailReads
  <2>4. CASE At(p.s) = "}" /\ WriteField(p.s + 1, p.spec, <<Visit(p.arg, p.spec)>>)
    <3>1. At(p.s) # NUL
      BY <2>4 DEF NUL
    <3>2. p.s + 1 \in p.s..(Len(fmt) + 1)
      BY <3>1, Here, Zenon
    <3> QED
      BY <2>1, <2>4, <3>2, FieldReads
  <2> QED
    BY <2>2, <2>3, <2>4
<1> QED
  BY <1>1, BraceTextReads, BraceIndexReads, BraceAlignReads, BraceMarkReads,
     BraceWidthReads, BracePrecisionReads DEF BraceNext
-----------------------------------------------------------------------------
(* The types in the printf syntax                                          *)

\* The flags end somewhere in the string, at the latest at its NUL.
LEMMA FlagsEndThere ==
  ASSUME Reads
  PROVE  /\ FlagsEnd \in p.s..(Len(fmt) + 1)
         /\ At(FlagsEnd) \notin Flags /\ \A k \in p.s..(FlagsEnd - 1) : At(k) \in Flags
<1> DEFINE i == p.s
           T == {j \in i..(Len(fmt) + 1) : At(j) \notin Flags}
           End(j) == At(j) \notin Flags /\ \A k \in i..(j - 1) : At(k) \in Flags
<1>1. Len(fmt) \in Nat /\ i \in 1..(Len(fmt) + 1)
  BY Here, Zenon
<1>2. At(Len(fmt) + 1) = NUL
  BY <1>1 DEF At
<1>3. NUL \notin Flags
  BY DEF NUL, Flags
<1> HIDE DEF i
<1>4. Len(fmt) + 1 \in i..(Len(fmt) + 1)
  BY <1>1
<1>5. At(Len(fmt) + 1) \notin Flags
  BY <1>2, <1>3, Zenon
<1>6. T # {}
  BY <1>4, <1>5, Zenon
<1>7. T \in SUBSET Nat
  BY <1>1
<1>8. PICK j \in T : \A y \in T : ~(y < j)
  BY <1>6, <1>7, LeastNatural
<1>9. j \in i..(Len(fmt) + 1) /\ At(j) \notin Flags
  BY <1>8
<1>10. ASSUME NEW k \in i..(j - 1)
       PROVE  At(k) \in Flags
  <2>1. k \in i..(Len(fmt) + 1) /\ k < j
    BY <1>1, <1>9
  <2> QED
    BY <1>8, <2>1
<1>11. End(j)
  BY <1>9, <1>10
<1> HIDE DEF End
<1> DEFINE e == CHOOSE m \in i..(Len(fmt) + 1) : End(m)
<1>12. e \in i..(Len(fmt) + 1) /\ End(e)
  BY <1>9, <1>11, Zenon
<1>13. e = FlagsEnd
  BY Zenon DEF FlagsEnd, End, i
<1> HIDE DEF e
<1> QED
  BY <1>12, <1>13, Zenon DEF End, i

\* The beginning of a field, and the text before it.
LEMMA PrintfTextReads ==
  ASSUME Reads, PrintfEnd \/ PrintfEscape \/ PrintfField
  PROVE  Reads'
<1> DEFINE j == StopAt(p.s, {"%"})
<1>1. NUL \notin {"%"}
  BY DEF NUL
<1>2. CASE PrintfEnd
  BY <1>1, <1>2, PlainReads DEF PrintfEnd
<1>3. CASE PrintfEscape
  <2>1. p.pc = "text" /\ At(j + 1) # NUL
    BY <1>3 DEF PrintfEscape, NUL
  <2> QED
    BY <1>1, <1>3, <2>1, PlainReads DEF PrintfEscape
<1>5. CASE PrintfField
  <2> DEFINE other == [NoSpec EXCEPT !.align = "right"]
             q == [p EXCEPT !.s = j + 1, !.field = j, !.pc = "header", !.index = AUTO,
                            !.spec = other]
  <2>1. DOMAIN p = ParserFields
    BY DEF Reads, Typed
  <2>2. Widths(other)
    BY NoSpecWidths
  <2> HIDE DEF other
  <2>3. /\ DOMAIN q = ParserFields /\ q.s = j + 1 /\ q.start = p.start /\ q.field = j
        /\ q.spec = other /\ q.index = AUTO /\ q.error = p.error /\ q.pc = "header"
    BY <2>1 DEF ParserFields
  <2>4. p.pc = "text" /\ At(j) # NUL
    BY <1>5 DEF PrintfField, NUL
  <2>5. WriteText(j, j, q)
    BY <1>5, Zenon DEF PrintfField, other
  <2>6. j + 1 \in 1..(Len(fmt) + 1) /\ j \in 1..(j + 1) /\ p.start \in 1..(j + 1)
    BY <2>4, TextStops, Zenon
  <2>7. AUTO \in -1..INT_MAX
    BY LimitAssumption DEF AUTO
  <2> HIDE DEF j, q
  <2> QED
    BY <2>2, <2>3, <2>4, <2>5, <2>6, <2>7, StretchReads
<1> QED
  BY <1>2, <1>3, <1>5

\* A number after the per cent sign: of the argument, or the width.
LEMMA PrintfHeaderReads ==
  ASSUME Reads, PrintfHeader
  PROVE  Reads'
<1> DEFINE number == ParseNumber(p.s)
           c == At(p.s)
           next == IF number.value # 0 THEN "precision" ELSE "flags"
           none == [p EXCEPT !.pc = "flags"]
           width == [p EXCEPT !.s = number.s,
                            !.spec.fill = IF c = "0" THEN "0" ELSE @,
                            !.spec.width = number.value, !.pc = next]
           index == [p EXCEPT !.s = number.s + 1, !.index = number.value, !.pc = "flags"]
<1>1. /\ DOMAIN p = ParserFields /\ DOMAIN p.spec = SpecFields /\ Widths(p.spec)
      /\ p.index \in -1..INT_MAX /\ p.s \in p.s..(Len(fmt) + 1) /\ Text
      /\ p.s \in 1..(Len(fmt) + 1)
  BY Here, Zenon
<1>2. p.pc # "error"
  BY DEF PrintfHeader
<1>3. \/ Go(none) \/ Fail("number is too big")
      \/ IsDigit(c) /\ ~TooBig(number.value) /\ At(number.s) = "$" /\ Go(index)
      \/ IsDigit(c) /\ ~TooBig(number.value) /\ Go(width)
  BY Zenon DEF PrintfHeader
<1>4. Moves(none, p.s) /\ none.spec = p.spec /\ none.index = p.index
  BY <1>1 DEF Moves, ParserFields
<1>5. IsDigit(c) /\ ~TooBig(number.value) =>
        number.value \in 0..INT_MAX /\ number.s \in p.s..(Len(fmt) + 1)
  BY <1>1, NumberHere, Zenon
<1>6. next \notin {"error", "align"}
  <2>1. next \in {"precision", "flags"}
    BY Zenon
  <2> HIDE DEF next
  <2> QED
    BY <2>1
<1> HIDE DEF number, next
<1>7. /\ Moves(width, number.s) /\ width.index = p.index /\ DOMAIN width.spec = SpecFields
      /\ width.spec.width = number.value /\ width.spec.precision = p.spec.precision
  BY <1>1, <1>6 DEF Moves, ParserFields, SpecFields
<1> DEFINE s == number.s + 1
<1>8. index = [p EXCEPT !.s = s, !.index = number.value, !.pc = "flags"]
  OBVIOUS
<1> HIDE DEF s, none, width, index
<1>9. Moves(index, s) /\ index.index = number.value /\ index.spec = p.spec
  BY <1>1, <1>8 DEF Moves, ParserFields
<1>10. CASE Go(none)
  BY <1>1, <1>2, <1>4, <1>10, MovesReads
<1>11. CASE IsDigit(c) /\ ~TooBig(number.value) /\ Go(width)
  <2>1. Widths(width.spec)
    BY <1>5, <1>7, <1>11, WidthsOf, Zenon
  <2> QED
    BY <1>1, <1>2, <1>5, <1>7, <1>11, <2>1, MovesReads
<1>12. CASE IsDigit(c) /\ ~TooBig(number.value) /\ At(number.s) = "$" /\ Go(index)
  <2>1. At(number.s) # NUL
    BY <1>12 DEF NUL
  <2>2. number.s \in p.s..(Len(fmt) + 1) /\ number.s \in 1..Len(fmt) /\ Len(fmt) \in Nat
    BY <1>1, <1>5, <1>12, <2>1, Behind, Zenon
  <2>3. s \in p.s..(Len(fmt) + 1)
    BY <1>1, <2>2 DEF s
  <2>4. number.value \in -1..INT_MAX
    <3>1. number.value \in 0..INT_MAX
      BY <1>5, <1>12, Zenon
    <3>2. INT_MAX \in Nat
      BY LimitAssumption
    <3> QED
      BY <3>1, <3>2
  <2> QED
    BY <1>1, <1>2, <1>9, <1>12, <2>3, <2>4, MovesReads
<1>13. CASE Fail("number is too big")
  BY <1>13, FailReads
<1> QED
  BY <1>3, <1>10, <1>11, <1>12, <1>13

\* The flags.
LEMMA PrintfFlagsReads ==
  ASSUME Reads, PrintfFlags
  PROVE  Reads'
<1>1. /\ DOMAIN p = ParserFields /\ DOMAIN p.spec = SpecFields /\ p.index \in -1..INT_MAX
  BY Here, Zenon
<1>2. p.pc # "error"
  BY DEF PrintfFlags
<1>3. PICK given : Go(Flagged(given))
  BY DEF PrintfFlags
<1> DEFINE q == Flagged(given)
<1>4. /\ Moves(q, FlagsEnd) /\ q.index = p.index /\ DOMAIN q.spec = SpecFields
      /\ q.spec.width = p.spec.width /\ q.spec.precision = p.spec.precision
  BY <1>1 DEF Moves, ParserFields, SpecFields, Flagged
<1> HIDE DEF q
<1>5. Widths(q.spec)
  BY <1>4, WidthsOf, Zenon
<1>6. Go(q)
  BY <1>3 DEF q
<1> QED
  BY <1>1, <1>2, <1>4, <1>5, <1>6, FlagsEndThere, MovesReads

\* The argument a field looks for has a number.
LEMMA LookNumber ==
  ASSUME IInv, Passed, NEW s
  PROVE  Look(AUTO, s).arg.num \in Int
<1> DEFINE look == NextArg
<1>1. Look(AUTO, s) = IF look.error # "" /\ At(s) = NUL
                      THEN [look EXCEPT !.error = "invalid format string"] ELSE look
  BY Zenon DEF Look
<1>2. DOMAIN look = {"arg", "next", "use", "error"}
  BY DEF NextArg, Found, Switched
<1>3. look.arg.num \in Int
  BY NextArgNumber
<1> HIDE DEF look
<1>4. [look EXCEPT !.error = "invalid format string"].arg = look.arg
  BY <1>2
<1>5. Look(AUTO, s).arg = look.arg
  BY <1>1, <1>4, Zenon
<1> QED
  BY <1>3, <1>5, Zenon

\* A number with its sign taken off.
LEMMA AbsFits ==
  ASSUME NEW n \in Int, ~(Abs(n) > INT_MAX)
  PROVE  Abs(n) \in 0..INT_MAX
BY LimitAssumption DEF Abs

\* The width, of digits or of another argument.
LEMMA PrintfWidthReads ==
  ASSUME Reads, IInv, PrintfWidth
  PROVE  Reads'
<1> DEFINE number == ParseNumber(p.s)
           look == Look(AUTO, p.s + 1)
           n == look.arg.num
           none == [p EXCEPT !.pc = "precision"]
           given == [p EXCEPT !.spec.width = number.value, !.s = number.s,
                              !.pc = "precision"]
           taken == [Took(look) EXCEPT
                       !.spec.width = Abs(n),
                       !.spec.align = IF n < 0 THEN "left" ELSE @,
                       !.s = @ + 1, !.pc = "precision"]
           Short == ~(Abs(n) > INT_MAX)
<1>1. /\ DOMAIN p = ParserFields /\ DOMAIN p.spec = SpecFields /\ Widths(p.spec)
      /\ p.index \in -1..INT_MAX /\ p.s \in p.s..(Len(fmt) + 1) /\ Passed /\ Typed(p)
  BY Here, Zenon DEF Reads
<1>2. p.pc # "error"
  BY DEF PrintfWidth
<1>3. \/ Go(none) \/ Fails
      \/ IsDigit(At(p.s)) /\ ~TooBig(number.value) /\ Go(given)
      \/ At(p.s) = "*" /\ Short /\ Go(taken)
  <2>1. \/ Go(none) \/ Fail("number is too big") \/ Fail("width is not integer")
        \/ look.error # "" /\ Fail(look.error)
        \/ IsDigit(At(p.s)) /\ ~TooBig(number.value) /\ Go(given)
        \/ At(p.s) = "*" /\ Short /\ Go(taken)
    BY Zenon DEF PrintfWidth
  <2> HIDE DEF number, look, none, given, taken, Short
  <2> QED
    BY <2>1 DEF Fails
<1>4. Moves(none, p.s) /\ none.spec = p.spec /\ none.index = p.index
  BY <1>1 DEF Moves, ParserFields
<1>5. IsDigit(At(p.s)) /\ ~TooBig(number.value) =>
        number.value \in 0..INT_MAX /\ number.s \in p.s..(Len(fmt) + 1)
  BY <1>1, NumberHere, Zenon
<1>6. /\ DOMAIN Took(look) = ParserFields /\ Took(look).start = p.start
      /\ Took(look).field = p.field /\ Took(look).spec = p.spec /\ Took(look).s = p.s
      /\ Took(look).index = p.index /\ Took(look).error = p.error
  BY <1>1, TookTyped, Zenon
<1>7. Short => Abs(n) \in 0..INT_MAX
  <2>1. n \in Int
    BY <1>1, LookNumber
  <2> HIDE DEF n
  <2> QED
    BY <2>1, AbsFits
<1> HIDE DEF number, look, n
<1>8. /\ Moves(given, number.s) /\ given.index = p.index /\ DOMAIN given.spec = SpecFields
      /\ given.spec.width = number.value /\ given.spec.precision = p.spec.precision
  BY <1>1 DEF Moves, ParserFields, SpecFields
<1> DEFINE s == p.s + 1
           align == IF n < 0 THEN "left" ELSE p.spec.align
           wide == Abs(n)
<1>9. taken = [Took(look) EXCEPT !.spec = [p.spec EXCEPT !.width = wide, !.align = align],
                                 !.s = s, !.pc = "precision"]
  BY <1>1, <1>6, Zenon DEF SpecFields
<1>10. At(p.s) = "*" => s \in p.s..(Len(fmt) + 1)
  <2>1. At(p.s) = "*" => At(p.s) # NUL
    BY DEF NUL
  <2> QED
    BY <2>1, Here, Zenon
<1> HIDE DEF none, given, taken, s, align, wide
<1>11. /\ Moves(taken, s) /\ taken.index = p.index /\ DOMAIN taken.spec = SpecFields
       /\ taken.spec.width = wide /\ taken.spec.precision = p.spec.precision
  BY <1>1, <1>6, <1>9 DEF Moves, ParserFields, SpecFields
<1>12. CASE Go(none)
  BY <1>1, <1>2, <1>4, <1>12, MovesReads
<1>13. CASE IsDigit(At(p.s)) /\ ~TooBig(number.value) /\ Go(given)
  <2>1. Widths(given.spec)
    BY <1>5, <1>8, <1>13, WidthsOf, Zenon
  <2> QED
    BY <1>1, <1>2, <1>5, <1>8, <1>13, <2>1, MovesReads
<1>14. CASE At(p.s) = "*" /\ Short /\ Go(taken)
  <2>1. wide \in 0..INT_MAX
    BY <1>7, <1>14, Zenon DEF wide
  <2>2. Widths(taken.spec)
    BY <1>11, <2>1, WidthsOf, Zenon
  <2>3. Go(taken) /\ s \in p.s..(Len(fmt) + 1)
    BY <1>10, <1>14, Zenon
  <2> QED
    BY <1>1, <1>2, <1>11, <2>2, <2>3, MovesReads
<1>15. CASE Fails
  BY <1>15, FailReads DEF Fails
<1> QED
  BY <1>3, <1>12, <1>13, <1>14, <1>15, Zenon

\* The precision, of digits or of another argument.
LEMMA PrintfPrecisionReads ==
  ASSUME Reads, IInv, PrintfPrecision
  PROVE  Reads'
<1> DEFINE number == ParseNumber(p.s + 1)
           look == Look(AUTO, p.s + 2)
           n == look.arg.num
           none == [p EXCEPT !.pc = "argument"]
           point == [p EXCEPT !.s = @ + 1, !.pc = "argument"]
           given == [p EXCEPT !.spec.precision = number.value, !.s = number.s,
                              !.pc = "argument"]
           taken == [Took(look) EXCEPT !.spec.precision = n, !.s = @ + 2,
                                       !.pc = "argument"]
<1>1. /\ DOMAIN p = ParserFields /\ DOMAIN p.spec = SpecFields /\ Widths(p.spec)
      /\ p.index \in -1..INT_MAX /\ p.s \in p.s..(Len(fmt) + 1) /\ Passed /\ Typed(p)
      /\ Text /\ Len(fmt) \in Nat /\ p.s \in 1..(Len(fmt) + 1)
  BY Here, Zenon DEF Reads
<1>2. p.pc # "error"
  BY DEF PrintfPrecision
<1>3. \/ Go(none) \/ Fails
      \/ IsDigit(At(p.s + 1)) /\ ~TooBig(number.value) /\ Go(given)
      \/ At(p.s + 1) = "*" /\ FitsInInt(n) /\ Go(taken)
      \/ At(p.s) = "." /\ Go(point)
  <2>1. \/ Go(none) \/ Fail("number is too big") \/ Fail("precision is not integer")
        \/ look.error # "" /\ Fail(look.error)
        \/ IsDigit(At(p.s + 1)) /\ ~TooBig(number.value) /\ Go(given)
        \/ At(p.s + 1) = "*" /\ FitsInInt(n) /\ Go(taken)
        \/ At(p.s) = "." /\ Go(point)
    BY Zenon DEF PrintfPrecision
  <2> HIDE DEF number, look, n, none, given, taken, point
  <2> QED
    BY <2>1 DEF Fails
<1>4. Moves(none, p.s) /\ none.spec = p.spec /\ none.index = p.index
  BY <1>1 DEF Moves, ParserFields
<1>5. At(p.s + 1) # NUL => p.s + 1 \in p.s..(Len(fmt) + 1) /\ p.s + 2 \in p.s..(Len(fmt) + 1)
  <2>1. At(p.s + 1) # NUL => p.s + 1 \in 1..Len(fmt)
    BY <1>1, Behind
  <2>2. p.s + 1 \in 1..Len(fmt) =>
          p.s + 1 \in p.s..(Len(fmt) + 1) /\ p.s + 2 \in p.s..(Len(fmt) + 1)
    BY <1>1
  <2> QED
    BY <2>1, <2>2, Zenon
<1>6. IsDigit(At(p.s + 1)) => At(p.s + 1) # NUL
  BY DEF IsDigit, NUL, Digits
<1>7. IsDigit(At(p.s + 1)) /\ ~TooBig(number.value) =>
        number.value \in 0..INT_MAX /\ number.s \in p.s..(Len(fmt) + 1)
  BY <1>5, <1>6, NumberHere, Zenon
<1>8. /\ DOMAIN Took(look) = ParserFields /\ Took(look).start = p.start
      /\ Took(look).field = p.field /\ Took(look).spec = p.spec /\ Took(look).s = p.s
      /\ Took(look).index = p.index /\ Took(look).error = p.error
  BY <1>1, TookTyped, Zenon
<1> HIDE DEF number, look, n
<1>9. /\ Moves(given, number.s) /\ given.index = p.index /\ DOMAIN given.spec = SpecFields
      /\ given.spec.width = p.spec.width /\ given.spec.precision = number.value
  BY <1>1 DEF Moves, ParserFields, SpecFields
<1> DEFINE one == p.s + 1
           two == p.s + 2
<1>10. /\ taken = [Took(look) EXCEPT !.spec.precision = n, !.s = two, !.pc = "argument"]
       /\ point = [p EXCEPT !.s = one, !.pc = "argument"]
  BY <1>1, <1>8, Zenon
<1>11. /\ At(p.s) = "." => one \in p.s..(Len(fmt) + 1)
       /\ At(p.s + 1) = "*" => two \in p.s..(Len(fmt) + 1)
  <2>1. (At(p.s) = "." => At(p.s) # NUL) /\ (At(p.s + 1) = "*" => At(p.s + 1) # NUL)
    BY DEF NUL
  <2> QED
    BY <1>5, <2>1, Here, Zenon
<1> HIDE DEF none, point, given, taken, one, two
<1>12. /\ Moves(taken, two) /\ taken.index = p.index /\ DOMAIN taken.spec = SpecFields
       /\ taken.spec.width = p.spec.width /\ taken.spec.precision = n
  BY <1>1, <1>8, <1>10 DEF Moves, ParserFields, SpecFields
<1>13. Moves(point, one) /\ point.spec = p.spec /\ point.index = p.index
  BY <1>1, <1>10 DEF Moves, ParserFields
<1>14. CASE Go(none)
  BY <1>1, <1>2, <1>4, <1>14, MovesReads
<1>15. CASE At(p.s) = "." /\ Go(point)
  BY <1>1, <1>2, <1>11, <1>13, <1>15, MovesReads
<1>16. CASE IsDigit(At(p.s + 1)) /\ ~TooBig(number.value) /\ Go(given)
  <2>1. number.value \in 0..INT_MAX /\ number.s \in p.s..(Len(fmt) + 1)
    BY <1>7, <1>16, Zenon
  <2>2. number.value \in (-INT_MAX - 1)..INT_MAX
    BY <2>1, LimitAssumption
  <2>3. Widths(given.spec)
    BY <1>9, <2>2, WidthsOf, Zenon
  <2> QED
    BY <1>1, <1>2, <1>9, <1>16, <2>1, <2>3, MovesReads
<1>17. CASE At(p.s + 1) = "*" /\ FitsInInt(n) /\ Go(taken)
  <2>1. n \in (-INT_MAX - 1)..INT_MAX
    BY <1>17, Zenon DEF FitsInInt
  <2>2. Widths(taken.spec)
    BY <1>12, <2>1, WidthsOf, Zenon
  <2>3. Go(taken) /\ two \in p.s..(Len(fmt) + 1)
    BY <1>11, <1>17, Zenon
  <2> QED
    BY <1>1, <1>2, <1>12, <2>2, <2>3, MovesReads
<1>18. CASE Fails
  BY <1>18, FailReads DEF Fails
<1> QED
  BY <1>3, <1>14, <1>15, <1>16, <1>17, <1>18, Zenon

\* The argument that is written.
LEMMA PrintfArgumentReads ==
  ASSUME Reads, PrintfArgument
  PROVE  Reads'
<1> DEFINE look == Look(p.index, p.s)
           arg  == look.arg
           fill == p.spec.fill = "0"
           taken == [Took(look) EXCEPT
                    !.arg = arg,
                    !.spec.flags = IF IsZeroInt(arg) THEN @ \ {"HASH"} ELSE @,
                    !.spec.align = IF fill /\ arg.type \in NumericTypes
                                   THEN "numeric" ELSE @,
                    !.spec.fill  = IF fill /\ arg.type \notin NumericTypes
                                   THEN " " ELSE @,
                    !.pc = "length"]
<1>1. /\ DOMAIN p = ParserFields /\ DOMAIN p.spec = SpecFields
      /\ p.index \in -1..INT_MAX /\ p.s \in p.s..(Len(fmt) + 1) /\ Typed(p)
  BY Here, Zenon DEF Reads
<1>2. p.pc # "error"
  BY DEF PrintfArgument
<1>3. \/ look.error # "" /\ Fail(look.error)
      \/ Go(taken)
  BY Zenon DEF PrintfArgument
<1>4. /\ DOMAIN Took(look) = ParserFields /\ Took(look).start = p.start
      /\ Took(look).field = p.field /\ Took(look).spec = p.spec /\ Took(look).s = p.s
      /\ Took(look).index = p.index /\ Took(look).error = p.error
  BY <1>1, TookTyped, Zenon
<1> HIDE DEF look, arg, fill
<1>5. /\ Moves(taken, p.s) /\ taken.index = p.index /\ DOMAIN taken.spec = SpecFields
      /\ taken.spec.width = p.spec.width /\ taken.spec.precision = p.spec.precision
  BY <1>1, <1>4 DEF Moves, ParserFields, SpecFields
<1> HIDE DEF taken
<1>6. Widths(taken.spec)
  BY <1>5, WidthsOf, Zenon
<1>7. CASE Go(taken)
  BY <1>1, <1>2, <1>5, <1>6, <1>7, MovesReads
<1>8. CASE look.error # "" /\ Fail(look.error)
  BY <1>8, FailReads
<1> QED
  BY <1>3, <1>7, <1>8

\* Length and conversion.
LEMMA PrintfConversionReads ==
  ASSUME Reads, PrintfConversion
  PROVE  Reads'
<1> DEFINE length == LengthAt(p.s)
           s      == p.s + Len(length)
<1>1. Text /\ Len(fmt) \in Nat /\ p.s \in 1..(Len(fmt) + 1)
  BY Here, Zenon
<1>2. p.pc # "error"
  BY DEF PrintfConversion
<1>3. \/ Fail("invalid format string") \/ Fail("refused by the formatter")
      \/ At(s) # NUL /\ \E spec, sts : WriteField(s + 1, spec, sts)
  BY Zenon DEF PrintfConversion
<1>4. Len(length) \in Nat
  <2>1. length = << >> \/ (\E a : length = <<a>>) \/ \E a, b : length = <<a, b>>
    <3> DEFINE i == p.s
               two == At(i) \in {"h", "l"} /\ At(i + 1) = At(i)
    <3>1. CASE At(i) \notin Letters
      BY <3>1 DEF LengthAt
    <3>2. CASE At(i) \in Letters /\ two
      BY <3>2 DEF LengthAt
    <3>3. CASE At(i) \in Letters /\ ~two
      BY <3>3 DEF LengthAt
    <3> QED
      BY <3>1, <3>2, <3>3
  <2> HIDE DEF length
  <2>2. ASSUME NEW a, length = <<a>>
        PROVE  Len(length) \in Nat
    BY <2>2
  <2>3. ASSUME NEW a, NEW b, length = <<a, b>>
        PROVE  Len(length) \in Nat
    BY <2>3
  <2> QED
    BY <2>1, <2>2, <2>3
<1> HIDE DEF length
<1>5. At(s) # NUL => s \in 1..Len(fmt)
  BY <1>1, Behind
<1>6. s \in 1..Len(fmt) => s + 1 \in p.s..(Len(fmt) + 1)
  BY <1>1, <1>4
<1> HIDE DEF s
<1>7. CASE At(s) # NUL /\ \E spec, sts : WriteField(s + 1, spec, sts)
  <2>1. PICK spec, sts : WriteField(s + 1, spec, sts)
    BY <1>7
  <2>2. s + 1 \in p.s..(Len(fmt) + 1)
    BY <1>5, <1>6, <1>7, Zenon
  <2> QED
    BY <1>2, <2>1, <2>2, FieldReads
<1>8. CASE Fail("invalid format string") \/ Fail("refused by the formatter")
  BY <1>8, FailReads
<1> QED
  BY <1>3, <1>7, <1>8

\* Every action of the printf syntax.
LEMMA PrintfReads ==
  ASSUME Reads, IInv, PrintfNext
  PROVE  Reads'
BY PrintfTextReads, PrintfHeaderReads, PrintfFlagsReads, PrintfWidthReads,
   PrintfPrecisionReads, PrintfArgumentReads, PrintfConversionReads DEF PrintfNext

-----------------------------------------------------------------------------
(* The theorem about the types                                             *)

\* The parser begins with the first character, and the arguments are what was passed.
LEMMA InitReads ==
  ASSUME Init
  PROVE  Reads
<1>1. PICK c \in Calls : fmt = c.fmt /\ args = c.args
  BY DEF Init
<1>2. Text /\ Passed
  BY <1>1, StringAssumption, ArgumentAssumption, Zenon DEF Text, Passed
<1>3. Len(fmt) \in Nat
  BY <1>2 DEF Text
<1>4. /\ DOMAIN p = ParserFields /\ p.s = 1 /\ p.start = 1 /\ p.field = 1
      /\ p.spec = NoSpec /\ p.index = -1
  BY DEF Init, NewParser, ParserFields
<1>5. p.pc = "text" /\ p.error = ""
  BY DEF Init, NewParser
<1>6. 1 \in 1..(Len(fmt) + 1) /\ 1 \in 1..1
  BY <1>3
<1>7. Ahead(p)
  BY <1>4, <1>6, Zenon DEF Ahead
<1>8. -1 \in -1..INT_MAX
  BY LimitAssumption
<1>9. p.pc # "align" /\ p.pc # "error"
  BY <1>5
<1>10. AtColon(p) /\ Stopped(p)
  BY <1>5, <1>9, Zenon DEF AtColon, Stopped
<1>11. Typed(p)
  BY <1>4, <1>7, <1>8, <1>10, NoSpecWidths, Zenon DEF Typed
<1> QED
  BY <1>2, <1>11 DEF Reads

\* The number of the next argument is one of an argument list, or it is its length,
\* or there is none.
LEMMA NextArgIndexRange ==
  ASSUME IInv
  PROVE  p.next_arg_index \in -1..MAX_ARGS
<1> DEFINE n == Len(p.uses)
<1>1. MAX_ARGS \in Nat
  BY LimitAssumption
<1>2. PICK U : p.uses \in Seq(U)
  BY DEF IInv, Indexed
<1>3. n \in Nat
  BY <1>2
<1>4. \A k \in 1..n : p.uses[k].index < MAX_ARGS
  BY DEF IInv, Indexed
<1>5. \/ p.next_arg_index = n /\ \A k \in 1..n : p.uses[k].index = k - 1
      \/ p.next_arg_index = -1
  BY DEF IInv, Indexed
<1> HIDE DEF n
<1>6. CASE p.next_arg_index = n /\ \A k \in 1..n : p.uses[k].index = k - 1
  <2>1. n = 0 \/ n \in 1..n
    BY <1>3
  <2>2. n \in 1..n => n - 1 < MAX_ARGS
    BY <1>4, <1>6
  <2>3. n \in -1..MAX_ARGS
    BY <1>1, <1>3, <2>1, <2>2
  <2> QED
    BY <1>6, <2>3
<1>7. CASE p.next_arg_index = -1
  BY <1>1, <1>7
<1> QED
  BY <1>5, <1>6, <1>7

\* At every step the parser is in the string or at its NUL, behind where its text and its
\* field began, and its fields hold ints (format.cc:220-243, 738-1105).
THEOREM ReadsInvariant == Spec => []Reads
<1>1. IInv /\ Reads /\ [Next]_vars => Reads'
  <2> SUFFICES ASSUME IInv, Reads, [Next]_vars
               PROVE  Reads'
    OBVIOUS
  <2>1. CASE BraceNext
    BY <2>1, BraceReads
  <2>2. CASE PrintfNext
    BY <2>2, PrintfReads
  <2>3. CASE UNCHANGED vars
    <3>1. p' = p /\ UNCHANGED input
      BY <2>3 DEF vars, input
    <3>2. Typed(p)
      BY DEF Reads
    <3> QED
      BY <3>1, <3>2, ReadsNext
  <2> QED
    BY <2>1, <2>2, <2>3 DEF Next
<1> QED
  BY <1>1, InitReads, FormatInvariant, PTL DEF Spec

\* Whatever the string and the arguments, the parser stays in the string or at its
\* NUL, behind the beginning of its text and of its field, and width and precision
\* stay ints, also those that come from arguments (format.cc:220-243, 738-1105).
THEOREM FormatTypes == Spec => []TypeOK
<1>1. IInv /\ Reads => TypeOK
  <2> SUFFICES ASSUME IInv, Reads
               PROVE  TypeOK
    OBVIOUS
  <2>1. Ahead(p) /\ Widths(p.spec) /\ Stopped(p)
    BY DEF Reads, Typed
  <2>2. p.next_arg_index \in -1..MAX_ARGS
    BY NextArgIndexRange
  <2> QED
    BY <2>1, <2>2, Zenon DEF TypeOK, Ahead, Widths, Stopped
<1> QED
  BY <1>1, ReadsInvariant, FormatInvariant, PTL

-----------------------------------------------------------------------------
(* What a number in a format string is                                     *)

\* A multiple of a word is not between two that follow each other.
LEMMA Multiples ==
  ASSUME NEW w \in Nat, 0 < w, NEW q \in Int, NEW r \in Int, q < r
  PROVE  q * w + w <= r * w
<1>1. q + 1 <= r /\ w \in Nat /\ w >= 0
  OBVIOUS
<1>2. (r - (q + 1)) * w >= 0
  BY <1>1
<1>3. (r - (q + 1)) * w = r * w - (q * w + w)
  OBVIOUS
<1> QED
  BY <1>2, <1>3

\* A number is a multiple of the word and its remainder.
LEMMA Divided ==
  ASSUME NEW w \in Nat, 0 < w, NEW n \in Int
  PROVE  n % w \in 0..(w - 1) /\ \E q \in Int : n = q * w + (n % w)
<1>1. n = (n \div w) * w + (n % w)
  OBVIOUS
<1>2. n \div w \in Int /\ n % w \in 0..(w - 1)
  OBVIOUS
<1> QED
  BY <1>1, <1>2

\* There is one way to divide it.
LEMMA DividedOnce ==
  ASSUME NEW w \in Nat, 0 < w, NEW q \in Int, NEW r \in 0..(w - 1)
  PROVE  (q * w + r) % w = r
<1> DEFINE n == q * w + r
<1>1. n \in Int /\ q * w \in Int
  OBVIOUS
<1>2. PICK k \in Int : n = k * w + (n % w)
  BY <1>1, Divided
<1>3. n % w \in 0..(w - 1)
  BY <1>1, Divided
<1> DEFINE m == n % w
<1>4. n = k * w + m /\ m \in 0..(w - 1) /\ k * w \in Int
  BY <1>2, <1>3
<1>5. n = q * w + r
  OBVIOUS
<1> HIDE DEF n, m
<1>6. CASE k < q
  <2>1. k * w + w <= q * w
    BY <1>6, Multiples
  <2> QED
    BY <1>1, <1>4, <1>5, <2>1
<1>7. CASE q < k
  <2>1. q * w + w <= k * w
    BY <1>7, Multiples
  <2> QED
    BY <1>1, <1>4, <1>5, <2>1
<1>8. CASE k = q
  <2>1. m = r
    BY <1>1, <1>4, <1>5, <1>8
  <2> QED
    BY <2>1 DEF m, n
<1> QED
  BY <1>6, <1>7, <1>8

\* So numbers that differ by multiples have one remainder.
LEMMA SameRemainder ==
  ASSUME NEW w \in Nat, 0 < w, NEW n \in Int, NEW k \in Int
  PROVE  (n + k * w) % w = n % w
<1>1. n % w \in 0..(w - 1)
  BY Divided
<1>2. PICK q \in Int : n = q * w + (n % w)
  BY Divided
<1> DEFINE r == n % w
<1>3. r \in 0..(w - 1) /\ n = q * w + r
  BY <1>1, <1>2
<1> HIDE DEF r
<1>4. n + k * w = (q + k) * w + r
  BY <1>3
<1>5. q + k \in Int
  OBVIOUS
<1>6. ((q + k) * w + r) % w = r
  BY <1>3, <1>5, DividedOnce
<1> QED
  BY <1>4, <1>6 DEF r

\* A digit may be added to the remainder.
LEMMA RemainderNext ==
  ASSUME NEW w \in Nat, 0 < w, NEW n \in Nat, NEW d \in Nat
  PROVE  ((n % w) * 10 + d) % w = (10 * n + d) % w
<1>1. n % w \in 0..(w - 1)
  BY Divided
<1>2. PICK q \in Int : n = q * w + (n % w)
  BY Divided
<1> DEFINE r == n % w
           k == 10 * q
<1>3. r \in 0..(w - 1) /\ n = q * w + r
  BY <1>1, <1>2
<1> HIDE DEF r
<1>4. 10 * n + d = (r * 10 + d) + k * w
  BY <1>3
<1>5. r * 10 + d \in Int /\ k \in Int
  BY <1>3
<1> HIDE DEF k
<1>6. ((r * 10 + d) + k * w) % w = (r * 10 + d) % w
  BY <1>5, SameRemainder
<1> QED
  BY <1>4, <1>6 DEF r

\* Upward from a number, in steps of one.
LEMMA Upward ==
  ASSUME NEW i \in Nat, NEW S, i \in S, \A j \in Nat : i <= j /\ j \in S => j + 1 \in S
  PROVE  \A j \in Nat : i <= j => j \in S
<1> DEFINE T == {j \in Nat : i <= j /\ j \notin S}
<1>1. ASSUME T # {} PROVE FALSE
  <2>0. T \in SUBSET Nat
    OBVIOUS
  <2> HIDE DEF T
  <2>1. PICK j \in T : \A y \in T : ~(y < j)
    BY <1>1, <2>0, LeastNatural
  <2>2. j \in Nat /\ i <= j /\ j \notin S
    BY DEF T
  <2>3. j - 1 \in Nat /\ i <= j - 1 /\ j - 1 < j /\ (j - 1) + 1 = j
    BY <2>2
  <2>4. j - 1 \in S
    BY <2>1, <2>3 DEF T
  <2>5. (j - 1) + 1 \in S
    BY <2>3, <2>4
  <2> QED
    BY <2>2, <2>3, <2>5
<1> QED
  BY <1>1

\* v is the sums that Val makes of the digits at i..j-1.
Sums(v, i, j) ==
  v = [k \in (i - 1)..(j - 1) |->
         IF k = i - 1 THEN 0 ELSE 10 * v[k - 1] + DigitOf(At(k))]

\* There are such sums, by adding one digit at a time.
LEMMA SumsExist ==
  ASSUME NEW i \in Nat, NEW j \in Nat, i <= j
  PROVE  \E v : Sums(v, i, j)
<1> DEFINE S == {m \in Nat : \E v : Sums(v, i, m)}
<1>1. i \in S
  <2> DEFINE v == [k \in (i - 1)..(i - 1) |-> 0]
  <2>1. v = [k \in (i - 1)..(i - 1) |->
               IF k = i - 1 THEN 0 ELSE 10 * v[k - 1] + DigitOf(At(k))]
    OBVIOUS
  <2> HIDE DEF v
  <2>2. Sums(v, i, i)
    BY <2>1 DEF Sums
  <2> QED
    BY <2>2
<1>2. ASSUME NEW m \in Nat, i <= m, m \in S
      PROVE  m + 1 \in S
  <2>1. PICK g : Sums(g, i, m)
    BY <1>2
  <2> DEFINE f == [k \in (i - 1)..m |->
                     IF k = m THEN 10 * g[m - 1] + DigitOf(At(m)) ELSE g[k]]
             h == [k \in (i - 1)..m |->
                     IF k = i - 1 THEN 0 ELSE 10 * f[k - 1] + DigitOf(At(k))]
  <2>2. ASSUME NEW k \in (i - 1)..m
        PROVE  f[k] = h[k]
    <3>1. CASE k = m
      <4>1. k # i - 1 /\ k - 1 \in (i - 1)..m /\ k - 1 # m
        BY <1>2, <3>1
      <4>2. f[k - 1] = g[m - 1]
        BY <3>1, <4>1
      <4> QED
        BY <3>1, <4>1, <4>2
    <3>2. CASE k # m
      <4>1. k \in (i - 1)..(m - 1)
        BY <1>2, <3>2
      <4>2. g[k] = IF k = i - 1 THEN 0 ELSE 10 * g[k - 1] + DigitOf(At(k))
        BY <2>1, <4>1 DEF Sums
      <4>3. k # i - 1 => k - 1 \in (i - 1)..m /\ k - 1 # m
        BY <4>1
      <4>4. k # i - 1 => f[k - 1] = g[k - 1]
        BY <4>3
      <4> QED
        BY <3>2, <4>2, <4>4
    <3> QED
      BY <3>1, <3>2
  <2>3. f = h
    <3> HIDE DEF h
    <3>1. h = [k \in (i - 1)..m |-> h[k]]
      BY DEF h
    <3> QED
      BY <2>2, <3>1
  <2>4. (m + 1) - 1 = m
    OBVIOUS
  <2>5. f = [k \in (i - 1)..m |->
               IF k = i - 1 THEN 0 ELSE 10 * f[k - 1] + DigitOf(At(k))]
    BY <2>3, Zenon DEF h
  <2> HIDE DEF f
  <2>6. Sums(f, i, m + 1)
    BY <2>4, <2>5 DEF Sums
  <2> QED
    BY <2>6
<1> HIDE DEF S
<1>3. j \in S
  BY <1>1, <1>2, Upward
<1> QED
  BY <1>3 DEF S

\* The sums are the same as far as they go.
LEMMA SumsAgree ==
  ASSUME NEW i \in Nat, NEW j \in Nat, NEW m \in Nat, i <= j, j <= m,
         NEW v, Sums(v, i, j), NEW w, Sums(w, i, m)
  PROVE  v[j - 1] = w[j - 1]
<1> DEFINE S == {k \in Nat : k <= j => v[k - 1] = w[k - 1]}
<1>1. ASSUME NEW k \in (i - 1)..(j - 1)
      PROVE  /\ v[k] = IF k = i - 1 THEN 0 ELSE 10 * v[k - 1] + DigitOf(At(k))
             /\ w[k] = IF k = i - 1 THEN 0 ELSE 10 * w[k - 1] + DigitOf(At(k))
  <2>1. k \in (i - 1)..(m - 1)
    OBVIOUS
  <2> QED
    BY <2>1 DEF Sums
<1>2. i \in S
  <2>1. i - 1 \in (i - 1)..(j - 1)
    OBVIOUS
  <2> QED
    BY <1>1, <2>1
<1>3. ASSUME NEW k \in Nat, i <= k, k \in S
      PROVE  k + 1 \in S
  <2> SUFFICES ASSUME k + 1 <= j
               PROVE  v[(k + 1) - 1] = w[(k + 1) - 1]
    OBVIOUS
  <2>1. (k + 1) - 1 = k /\ k \in (i - 1)..(j - 1) /\ k # i - 1 /\ k <= j
    BY <1>3
  <2>2. v[k - 1] = w[k - 1]
    BY <1>3, <2>1
  <2>3. v[k] = 10 * v[k - 1] + DigitOf(At(k)) /\ w[k] = 10 * w[k - 1] + DigitOf(At(k))
    BY <1>1, <2>1
  <2> QED
    BY <2>1, <2>2, <2>3
<1> HIDE DEF S
<1>4. j \in S
  BY <1>2, <1>3, Upward
<1> QED
  BY <1>4 DEF S

\* The number of no digits, and of one more.
LEMMA ValNext ==
  ASSUME NEW i \in Nat
  PROVE  /\ Val(i, i) = 0
         /\ \A j \in Nat : i <= j => Val(i, j + 1) = 10 * Val(i, j) + DigitOf(At(j))
<1>1. ASSUME NEW j \in Nat, i <= j
      PROVE  \E v : Sums(v, i, j) /\ Val(i, j) = v[j - 1]
  <2> DEFINE v == CHOOSE v : Sums(v, i, j)
  <2>1. Sums(v, i, j)
    BY <1>1, SumsExist, Zenon
  <2>2. Val(i, j) = v[j - 1]
    BY Zenon DEF Val, Sums
  <2> QED
    BY <2>1, <2>2
<1>2. Val(i, i) = 0
  <2>1. PICK v : Sums(v, i, i) /\ Val(i, i) = v[i - 1]
    BY <1>1
  <2>2. i - 1 \in (i - 1)..(i - 1)
    OBVIOUS
  <2> QED
    BY <2>1, <2>2 DEF Sums
<1>3. ASSUME NEW j \in Nat, i <= j
      PROVE  Val(i, j + 1) = 10 * Val(i, j) + DigitOf(At(j))
  <2>1. PICK v : Sums(v, i, j) /\ Val(i, j) = v[j - 1]
    BY <1>1, <1>3
  <2>2. j + 1 \in Nat /\ i <= j + 1 /\ j <= j + 1 /\ (j + 1) - 1 = j
    BY <1>3
  <2>3. PICK w : Sums(w, i, j + 1) /\ Val(i, j + 1) = w[(j + 1) - 1]
    BY <1>1, <2>2
  <2>4. v[j - 1] = w[j - 1]
    BY <1>3, <2>1, <2>2, <2>3, SumsAgree
  <2>5. j \in (i - 1)..((j + 1) - 1) /\ j # i - 1
    BY <1>3
  <2>6. w[j] = 10 * w[j - 1] + DigitOf(At(j))
    BY <2>3, <2>5 DEF Sums
  <2> QED
    BY <2>1, <2>2, <2>3, <2>4, <2>6
<1> QED
  BY <1>2, <1>3

\* Digits at i..j-1, and zeros.
Spelled(i, j) == \A k \in i..(j - 1) : IsDigit(At(k))
Zeros(i, j) == \A k \in i..(j - 1) : At(k) = "0"

\* The number is a natural number.
LEMMA ValNat ==
  ASSUME NEW i \in Nat, NEW j \in Nat, i <= j, Spelled(i, j)
  PROVE  Val(i, j) \in Nat
<1> DEFINE S == {k \in Nat : k <= j => Val(i, k) \in Nat}
<1>1. i \in S
  BY ValNext
<1>2. ASSUME NEW k \in Nat, i <= k, k \in S
      PROVE  k + 1 \in S
  <2> SUFFICES ASSUME k + 1 <= j
               PROVE  Val(i, k + 1) \in Nat
    OBVIOUS
  <2>1. k \in i..(j - 1) /\ k <= j
    BY <1>2
  <2>2. Val(i, k) \in Nat
    BY <1>2, <2>1
  <2>3. IsDigit(At(k))
    BY <2>1 DEF Spelled
  <2>4. DigitOf(At(k)) \in 0..9
    BY <2>3, DigitValue
  <2>5. Val(i, k + 1) = 10 * Val(i, k) + DigitOf(At(k))
    BY <1>2, ValNext
  <2> QED
    BY <2>2, <2>4, <2>5
<1> HIDE DEF S
<1>3. j \in S
  BY <1>1, <1>2, Upward
<1> QED
  BY <1>3 DEF S

\* The value of a zero, and of no other character.
LEMMA ZeroDigit ==
  IsDigit("0") /\ DigitOf("0") = 0
    /\ \A c : IsDigit(c) /\ DigitOf(c) = 0 => c = "0"
<1>1. IsDigit("0")
  <2>1. Digits[1] = "0" /\ 1 \in 1..10
    BY DEF Digits
  <2> QED
    BY <2>1, Zenon DEF IsDigit
<1>2. ASSUME NEW c, IsDigit(c)
      PROVE  DigitOf(c) \in 0..9 /\ Digits[DigitOf(c) + 1] = c
  <2>1. PICK k \in 1..10 : c = Digits[k]
    BY <1>2 DEF IsDigit
  <2>2. k - 1 \in 0..9 /\ Digits[(k - 1) + 1] = c
    BY <2>1
  <2> QED
    BY <2>2, Zenon DEF DigitOf
<1>3. ASSUME NEW c, IsDigit(c), DigitOf(c) = 0
      PROVE  c = "0"
  <2>1. Digits[0 + 1] = c
    BY <1>2, <1>3, Zenon
  <2>2. Digits[0 + 1] = "0"
    BY DEF Digits
  <2> QED
    BY <2>1, <2>2
<1>4. DigitOf("0") = 0
  <2>1. DigitOf("0") \in 0..9 /\ Digits[DigitOf("0") + 1] = "0"
    BY <1>1, <1>2
  <2>2. \A n \in 0..9 : Digits[n + 1] = "0" => n = 0
    BY DEF Digits
  <2> QED
    BY <2>1, <2>2, Zenon
<1> QED
  BY <1>1, <1>3, <1>4

\* Zeros in front do not count.
LEMMA ValZeros ==
  ASSUME NEW i \in Nat, NEW g \in Nat, NEW j \in Nat, i <= g, g <= j, Zeros(i, g)
  PROVE  Val(i, j) = Val(g, j)
<1> DEFINE S == {k \in Nat : k <= g => Val(i, k) = 0}
           R == {k \in Nat : Val(i, k) = Val(g, k)}
<1>1. i \in S
  BY ValNext
<1>2. ASSUME NEW k \in Nat, i <= k, k \in S
      PROVE  k + 1 \in S
  <2> SUFFICES ASSUME k + 1 <= g
               PROVE  Val(i, k + 1) = 0
    OBVIOUS
  <2>1. k \in i..(g - 1) /\ k <= g
    BY <1>2
  <2>2. Val(i, k) = 0
    BY <1>2, <2>1
  <2>3. At(k) = "0"
    BY <2>1 DEF Zeros
  <2>4. DigitOf(At(k)) = 0
    BY <2>3, ZeroDigit, Zenon
  <2>5. Val(i, k + 1) = 10 * Val(i, k) + DigitOf(At(k))
    BY <1>2, ValNext
  <2> QED
    BY <2>2, <2>4, <2>5
<1>3. Val(i, g) = 0
  <2> HIDE DEF S
  <2>1. g \in S
    BY <1>1, <1>2, Upward
  <2> QED
    BY <2>1 DEF S
<1>4. g \in R
  BY <1>3, ValNext
<1>5. ASSUME NEW k \in Nat, g <= k, k \in R
      PROVE  k + 1 \in R
  <2>1. Val(i, k) = Val(g, k) /\ i <= k
    BY <1>5
  <2>2. Val(i, k + 1) = 10 * Val(i, k) + DigitOf(At(k))
    BY <2>1, ValNext
  <2>3. Val(g, k + 1) = 10 * Val(g, k) + DigitOf(At(k))
    BY <1>5, ValNext
  <2> QED
    BY <2>1, <2>2, <2>3
<1> HIDE DEF R
<1>6. j \in R
  BY <1>4, <1>5, Upward
<1> QED
  BY <1>6 DEF R

\* What is true when digit j is next and v is what was read; and of the result.
SoFar(i, j, v) ==
  v = Val(i, j) % IntWord /\ Spelled(i, j) /\ (v = 0 => Zeros(i, j))
Result(i, n) == n.value = UINT_MAX \/ SoFar(i, n.s, n.value)

\* One more digit, if the value did not get smaller.
LEMMA SoFarNext ==
  ASSUME NEW i \in Nat, NEW j \in Nat, i <= j, IsDigit(At(j)), NEW v \in Values,
         SoFar(i, j, v), ~(Next10(j, v) < v)
  PROVE  SoFar(i, j + 1, Next10(j, v))
<1> DEFINE w == Next10(j, v)
           d == DigitOf(At(j))
           n == Val(i, j)
<1>1. Spelled(i, j) /\ v = n % IntWord /\ (v = 0 => Zeros(i, j))
  BY DEF SoFar
<1>2. d \in 0..9 /\ n \in Nat /\ w \in Values
  <2>1. d \in 0..9
    BY DigitValue
  <2>2. n \in Nat
    BY <1>1, ValNat
  <2>3. w \in Values
    BY NextValue
  <2> QED
    BY <2>1, <2>2, <2>3
<1>3. IntWord \in Nat /\ 9 < IntWord
  BY LimitAssumption, UnsignedAssumption DEF IntWord
<1>4. Val(i, j + 1) = 10 * n + d
  BY ValNext
<1>5. w = (v * 10 + d) % IntWord
  BY DEF Next10
<1> HIDE DEF w, d, n
<1>6. w = (10 * n + d) % IntWord
  <2>1. 0 < IntWord /\ d \in Nat
    BY <1>2, <1>3
  <2>2. ((n % IntWord) * 10 + d) % IntWord = (10 * n + d) % IntWord
    BY <1>2, <1>3, <2>1, RemainderNext
  <2> QED
    BY <1>1, <1>5, <2>2, Zenon
<1>7. Spelled(i, j + 1)
  <2> SUFFICES ASSUME NEW k \in i..((j + 1) - 1)
               PROVE  IsDigit(At(k))
    BY DEF Spelled
  <2>1. k = j \/ k \in i..(j - 1)
    OBVIOUS
  <2> QED
    BY <1>1, <2>1 DEF Spelled
<1>8. ASSUME w = 0
      PROVE  Zeros(i, j + 1)
  <2>1. v \in Nat /\ ~(w < v)
    BY DEF Values, w
  <2>2. v = 0
    BY <1>8, <2>1
  <2>3. Zeros(i, j)
    BY <1>1, <2>2
  <2>4. d = 0
    <3>1. d % IntWord = 0
      BY <1>2, <1>5, <1>8, <2>2
    <3>2. 0 * IntWord + d = d /\ d \in 0..(IntWord - 1) /\ 0 < IntWord
      BY <1>2, <1>3
    <3>3. (0 * IntWord + d) % IntWord = d
      BY <1>3, <3>2, DividedOnce
    <3> QED
      BY <3>1, <3>2, <3>3
  <2>5. At(j) = "0"
    BY <2>4, ZeroDigit, Zenon DEF d
  <2>6. ASSUME NEW k \in i..((j + 1) - 1)
        PROVE  k = j \/ k \in i..(j - 1)
    OBVIOUS
  <2>7. \A k \in i..((j + 1) - 1) : At(k) = "0"
    BY <2>3, <2>5, <2>6, Zenon DEF Zeros
  <2> QED
    BY <2>7, Zenon DEF Zeros
<1>9. w = Val(i, j + 1) % IntWord
  BY <1>4, <1>6, Zenon
<1>10. SoFar(i, j + 1, w)
  BY <1>7, <1>8, <1>9, Zenon DEF SoFar
<1> QED
  BY <1>10 DEF w

\* So the value is the remainder of the number that is spelled, or the largest.
LEMMA NumberResult ==
  ASSUME Text, NEW i \in Nat, IsDigit(At(i))
  PROVE  Result(i, ParseNumber(i))
<1> DEFINE size == Len(fmt)
<1>1. PICK f : IsLoop(f, i) /\ ParseNumber(i) = f[<<i, 0>>]
  BY ParseNumberLoop, Zenon
<1>2. size \in Nat /\ UINT_MAX \in Nat
  BY LimitAssumption DEF Text
<1> DEFINE Fine(j, v) == SoFar(i, j, v) => Result(i, f[<<j, v>>])
<1>3. \A j \in Ciphers(i), v \in Values : f[<<j, v>>] = Turn(f, j, v)
  BY <1>1 DEF IsLoop
<1>4. ASSUME NEW j \in Ciphers(i), NEW v \in Values,
             \A w \in Values : j + 1 \in Ciphers(i) => Fine(j + 1, w)
      PROVE  Fine(j, v)
  <2> SUFFICES ASSUME SoFar(i, j, v)
               PROVE  Result(i, f[<<j, v>>])
    OBVIOUS
  <2> DEFINE w == Next10(j, v)
  <2>1. j \in i..size /\ IsDigit(At(j))
    BY DEF Ciphers
  <2>2. w \in Values
    BY <2>1, NextValue, Zenon
  <2>3. j \in Nat /\ i <= j
    BY <2>1
  <2>4. f[<<j, v>>] = Turn(f, j, v)
    BY <1>3, Zenon
  <2>5. ~(w < v) => SoFar(i, j + 1, w)
    BY <2>1, <2>3, SoFarNext, Zenon
  <2> HIDE DEF w
  <2>6. CASE w < v
    <3>1. Turn(f, j, v) = [value |-> UINT_MAX, s |-> j + 1]
      BY <2>6, Zenon DEF Turn, w
    <3> QED
      BY <2>4, <3>1 DEF Result
  <2>7. CASE ~(w < v) /\ IsDigit(At(j + 1))
    <3>1. Turn(f, j, v) = f[<<j + 1, w>>]
      BY <2>7, Zenon DEF Turn, w
    <3>2. j + 1 \in 1..size
      BY <2>7, CipherBounds
    <3>3. j + 1 \in Ciphers(i)
      BY <2>1, <2>7, <3>2 DEF Ciphers
    <3>4. Fine(j + 1, w)
      BY <1>4, <2>2, <3>3, Zenon
    <3> QED
      BY <2>4, <2>5, <2>7, <3>1, <3>4, Zenon
  <2>8. CASE ~(w < v) /\ ~IsDigit(At(j + 1))
    <3>1. Turn(f, j, v) = [value |-> w, s |-> j + 1]
      BY <2>8, Zenon DEF Turn, w
    <3>2. f[<<j, v>>].value = w /\ f[<<j, v>>].s = j + 1
      BY <2>4, <3>1
    <3> QED
      BY <2>5, <2>8, <3>2, Zenon DEF Result
  <2> QED
    BY <2>6, <2>7, <2>8
<1> HIDE DEF Fine
<1> DEFINE T == {n \in Nat : \E j \in Ciphers(i), v \in Values : n = size - j /\ ~Fine(j, v)}
<1>5. ASSUME T # {} PROVE FALSE
  <2>0. T \in SUBSET Nat
    OBVIOUS
  <2> HIDE DEF T
  <2>1. PICK n \in T : \A y \in T : ~(y < n)
    BY <1>5, <2>0, LeastNatural
  <2>2. PICK j \in Ciphers(i), v \in Values : n = size - j /\ ~Fine(j, v)
    BY DEF T
  <2>3. ASSUME NEW w \in Values, j + 1 \in Ciphers(i)
        PROVE  Fine(j + 1, w)
    <3>1. j + 1 \in i..size /\ j \in i..size
      BY <2>3 DEF Ciphers
    <3>2. size - (j + 1) \in Nat /\ size - (j + 1) < n
      BY <1>2, <2>2, <3>1
    <3> QED
      BY <2>1, <2>3, <3>2 DEF T
  <2> QED
    BY <1>4, <2>2, <2>3
<1>6. i \in Ciphers(i) /\ 0 \in Values
  <2>1. i \in 1..size
    BY CipherBounds
  <2> QED
    BY <1>2, <2>1 DEF Ciphers, Values
<1>7. Fine(i, 0)
  <2>1. i \in i..size
    BY <1>6 DEF Ciphers
  <2>2. size - i \in Nat
    BY <1>2, <2>1
  <2> QED
    BY <1>5, <1>6, <2>2
<1>8. SoFar(i, i, 0)
  <2>1. \A k \in i..(i - 1) : FALSE
    OBVIOUS
  <2>2. Spelled(i, i) /\ Zeros(i, i)
    BY <2>1, Zenon DEF Spelled, Zeros
  <2>3. Val(i, i) = 0
    BY ValNext
  <2>4. 0 \in 0..(IntWord - 1) /\ IntWord \in Nat /\ 0 < IntWord /\ 0 * IntWord + 0 = 0
    BY LimitAssumption DEF IntWord
  <2>5. (0 * IntWord + 0) % IntWord = 0
    BY <2>4, DividedOnce
  <2>6. 0 = Val(i, i) % IntWord
    BY <2>3, <2>4, <2>5, Zenon
  <2> QED
    BY <2>2, <2>6, Zenon DEF SoFar
<1> QED
  BY <1>1, <1>7, <1>8, Zenon DEF Fine

\* A number that is not too big means what is spelled.
LEMMA NumberMeans ==
  ASSUME Text, NEW i \in Nat, IsDigit(At(i)), ~TooBig(ParseNumber(i).value)
  PROVE  LET number == ParseNumber(i)
         IN  /\ Means(i, number.s, number.value) /\ number.s \in (i + 1)..(Len(fmt) + 1)
             /\ number.value \in 0..INT_MAX
             /\ number.value = 0 => Zeros(i, number.s)
<1> DEFINE n == ParseNumber(i)
<1>1. n.value \in Values /\ n.s \in (i + 1)..(Len(fmt) + 1)
  BY NumberRead
<1>2. Result(i, n)
  BY NumberResult
<1>3. ~TooBig(n.value)
  OBVIOUS
<1> HIDE DEF n
<1>4. n.value \in 0..INT_MAX
  BY <1>1, <1>3, NotTooBig
<1>5. n.value # UINT_MAX
  BY <1>4, LimitAssumption, UnsignedAssumption
<1>6. SoFar(i, n.s, n.value)
  BY <1>2, <1>5, Zenon DEF Result
<1>7. i < n.s
  BY <1>1 DEF Text
<1>8. Means(i, n.s, n.value)
  BY <1>4, <1>6, <1>7, Zenon DEF Means, SoFar, Spelled
<1> QED
  BY <1>1, <1>4, <1>6, <1>8, Zenon DEF SoFar, n

-----------------------------------------------------------------------------
(* The text of a field and the arguments it uses                           *)

\* A stretch of the string, from nothing on and one character more at a time.
LEMMA SrcNext ==
  ASSUME Text, NEW i \in 1..(Len(fmt) + 1)
  PROVE  /\ Src(i, i) = << >>
         /\ \A j \in i..Len(fmt) : Src(i, j + 1) = Append(Src(i, j), At(j))
<1>1. fmt \in Seq(STRING \ {NUL}) /\ Len(fmt) \in Nat
  BY DEF Text
<1>2. Src(i, i) = << >>
  BY <1>1 DEF Src
<1>3. ASSUME NEW j \in i..Len(fmt)
      PROVE  Src(i, j + 1) = Append(Src(i, j), At(j))
  <2> DEFINE S == STRING \ {NUL}
  <2>1. j \in 1..Len(fmt) /\ j - 1 \in (i - 1)..Len(fmt) /\ (j + 1) - 1 = j
    BY <1>1
  <2>2. At(j) = fmt[j]
    BY <2>1 DEF At
  <2> HIDE DEF S
  <2>3. fmt \in Seq(S)
    BY <1>1 DEF S
  <2>4. SubSeq(fmt, i, j) = Append(SubSeq(fmt, i, j - 1), fmt[j])
    <3>1. i \in 1..(Len(fmt) + 1) /\ j \in 1..Len(fmt) /\ i <= j
      BY <2>1
    <3> DEFINE x == SubSeq(fmt, i, j)
               y == SubSeq(fmt, i, j - 1)
               z == Append(y, fmt[j])
    <3>2. x \in Seq(S) /\ Len(x) = j - i + 1 /\ \A k \in 1..(j - i + 1) : x[k] = fmt[i + k - 1]
      BY <1>1, <2>3, <3>1
    <3>3. y \in Seq(S) /\ Len(y) = j - i /\ \A k \in 1..(j - i) : y[k] = fmt[i + k - 1]
      BY <1>1, <2>3, <3>1
    <3>4. fmt[j] \in S
      BY <2>3, <3>1
    <3> HIDE DEF x, y
    <3>5. z \in Seq(S) /\ Len(z) = j - i + 1 /\ (\A k \in 1..(j - i) : z[k] = y[k])
          /\ z[j - i + 1] = fmt[j]
      BY <3>1, <3>3, <3>4
    <3> HIDE DEF z
    <3>6. \A k \in 1..(j - i + 1) : x[k] = z[k]
      <4> SUFFICES ASSUME NEW k \in 1..(j - i + 1)
                   PROVE  x[k] = z[k]
        OBVIOUS
      <4>1. CASE k = j - i + 1
        <5>1. i + k - 1 = j
          BY <3>1, <4>1
        <5> QED
          BY <3>2, <3>5, <4>1, <5>1
      <4>2. CASE k # j - i + 1
        <5>1. k \in 1..(j - i)
          BY <3>1, <4>2
        <5> QED
          BY <3>2, <3>3, <3>5, <5>1
      <4> QED
        BY <4>1, <4>2
    <3>7. x = z
      BY <3>2, <3>5, <3>6
    <3> QED
      BY <3>7 DEF x, y, z
  <2> QED
    BY <2>1, <2>2, <2>4 DEF Src
<1> QED
  BY <1>2, <1>3

\* Stretches of one character and of two.
LEMMA SrcShort ==
  ASSUME Text, NEW i \in 1..Len(fmt)
  PROVE  /\ Src(i, i + 1) = <<At(i)>>
         /\ i + 1 \in 1..Len(fmt) => Src(i, i + 2) = <<At(i), At(i + 1)>>
<1>1. i \in 1..(Len(fmt) + 1) /\ i \in i..Len(fmt) /\ Len(fmt) \in Nat
  BY DEF Text
<1>2. Src(i, i) = << >> /\ \A j \in i..Len(fmt) : Src(i, j + 1) = Append(Src(i, j), At(j))
  BY <1>1, SrcNext
<1>3. Src(i, i + 1) = Append(<< >>, At(i))
  BY <1>1, <1>2
<1>4. Src(i, i + 1) = <<At(i)>>
  BY <1>3
<1>5. ASSUME i + 1 \in 1..Len(fmt)
      PROVE  Src(i, i + 2) = <<At(i), At(i + 1)>>
  <2>1. i + 1 \in i..Len(fmt) /\ (i + 1) + 1 = i + 2
    BY <1>1, <1>5
  <2>2. Src(i, (i + 1) + 1) = Append(Src(i, i + 1), At(i + 1))
    BY <1>2, <2>1
  <2>3. Src(i, i + 2) = Append(<<At(i)>>, At(i + 1))
    BY <1>4, <2>1, <2>2, Zenon
  <2> QED
    BY <2>3
<1> QED
  BY <1>4, <1>5

\* The arguments that were used before the field, and in it.
Before == Len(pieces[Len(pieces)].uses)
Own(q) == SubSeq(q.uses, Before + 1, Len(q.uses))

\* There is a piece of text before the field, and its arguments are the first.
Behead(q) ==
  /\ \E U : pieces \in Seq(U) /\ pieces # << >>
  /\ Before \in Nat /\ Before <= Len(q.uses)

\* One more.
LEMMA OwnMore ==
  ASSUME IInv, Behead(p), NEW q, NEW use, q.uses = Append(p.uses, use)
  PROVE  /\ Behead(q) /\ Len(Own(q)) = Len(Own(p)) + 1 /\ Own(q)[Len(Own(p)) + 1] = use
         /\ \A k \in 1..Len(Own(p)) : Own(q)[k] = Own(p)[k]
<1> DEFINE n == Len(p.uses)
           b == Before
<1>1. PICK U : p.uses \in Seq(U)
  BY DEF IInv, Indexed
<1> DEFINE W == U \cup {use}
           x == p.uses
           y == q.uses
<1>2. x \in Seq(W) /\ use \in W /\ n \in Nat /\ b \in Nat /\ b <= n
  BY <1>1 DEF Behead
<1>3. y = Append(x, use)
  OBVIOUS
<1> HIDE DEF W, b, y
<1>4. y \in Seq(W) /\ Len(y) = n + 1 /\ y[n + 1] = use /\ \A k \in 1..n : y[k] = x[k]
  BY <1>2, <1>3
<1>5. Len(SubSeq(x, b + 1, n)) = n - b /\ \A k \in 1..(n - b) : SubSeq(x, b + 1, n)[k] = x[b + k]
  BY <1>2
<1>6. /\ Len(SubSeq(y, b + 1, n + 1)) = n + 1 - b
      /\ \A k \in 1..(n + 1 - b) : SubSeq(y, b + 1, n + 1)[k] = y[b + k]
  BY <1>2, <1>4
<1>7. Own(p) = SubSeq(x, b + 1, n) /\ Own(q) = SubSeq(y, b + 1, n + 1)
  BY <1>4, Zenon DEF Own, b, y
<1>8. Behead(q)
  BY <1>2, <1>4 DEF Behead, b, y
<1>9. (n - b) + 1 = n + 1 - b /\ b + (n + 1 - b) = n + 1 /\ n + 1 - b \in 1..(n + 1 - b)
  BY <1>2
<1>10. Own(q)[n + 1 - b] = use
  BY <1>4, <1>6, <1>7, <1>9
<1>11. \A k \in 1..(n - b) : k \in 1..(n + 1 - b) /\ b + k \in 1..n
  BY <1>2
<1>12. \A k \in 1..(n - b) : Own(q)[k] = Own(p)[k]
  BY <1>4, <1>5, <1>6, <1>7, <1>11
<1>13. Len(Own(p)) = n - b /\ Len(Own(q)) = n + 1 - b
  BY <1>5, <1>6, <1>7
<1> HIDE DEF n
<1> QED
  BY <1>8, <1>9, <1>10, <1>12, <1>13

\* The argument that was found is the one with the number that is used.
LEMMA FoundValue ==
  ASSUME NEW n \in Int, NEW next, NEW auto \in BOOLEAN, Found(n, next, auto).error = ""
  PROVE  /\ Found(n, next, auto).use = [auto |-> auto, index |-> n]
         /\ Value(Found(n, next, auto).use) = Found(n, next, auto).arg
<1>1. n < Len(args) /\ n < MAX_ARGS /\ Found(n, next, auto).use = [auto |-> auto, index |-> n]
  BY FoundUse
<1>2. Found(n, next, auto).arg = args[n + 1]
  BY <1>1 DEF Found, ArgAt
<1>3. [auto |-> auto, index |-> n].index = n
  OBVIOUS
<1> QED
  BY <1>1, <1>2, <1>3, Zenon DEF Value

\* The next argument has a number, also where there is none.
LEMMA NextIndexInt ==
  ASSUME IInv
  PROVE  p.next_arg_index \in Int
BY DEF IInv, Indexed

\* What next_arg and get_arg return when they do.
LEMMA NextArgValue ==
  ASSUME IInv, NextArg.error = ""
  PROVE  NextArg.use.auto = TRUE /\ Value(NextArg.use) = NextArg.arg
<1> DEFINE n == p.next_arg_index
<1>1. Switched.error # ""
  BY DEF Switched
<1>2. n >= 0 /\ NextArg = Found(n, n + 1, TRUE)
  BY <1>1 DEF NextArg
<1>3. n \in Int
  BY NextIndexInt
<1> DEFINE found == Found(n, n + 1, TRUE)
<1>4. found.error = "" /\ NextArg = found
  BY <1>2, Zenon
<1>5. found.use = [auto |-> TRUE, index |-> n] /\ Value(found.use) = found.arg
  BY <1>3, <1>4, FoundValue
<1>6. [auto |-> TRUE, index |-> n].auto = TRUE
  OBVIOUS
<1> HIDE DEF found
<1> QED
  BY <1>4, <1>5, <1>6, Zenon

\* The same of a numbered argument.
LEMMA GetArgValue ==
  ASSUME NEW n \in Int, GetArg(n).error = ""
  PROVE  /\ GetArg(n).use.auto = FALSE /\ GetArg(n).use.index = n
         /\ n < MAX_ARGS /\ Value(GetArg(n).use) = GetArg(n).arg
<1>1. n < MAX_ARGS /\ p.next_arg_index <= 0
  BY GetArgFinds
<1> DEFINE found == Found(n, -1, FALSE)
<1>2. GetArg(n) = found
  BY <1>1 DEF GetArg
<1>3. found.error = ""
  BY <1>2
<1>4. found.use = [auto |-> FALSE, index |-> n] /\ Value(found.use) = found.arg
  BY <1>3, FoundValue
<1>5. [auto |-> FALSE, index |-> n].auto = FALSE /\ [auto |-> FALSE, index |-> n].index = n
  OBVIOUS
<1> HIDE DEF found
<1> QED
  BY <1>1, <1>2, <1>4, <1>5, Zenon

-----------------------------------------------------------------------------
(* What a field in the brace syntax means                                  *)

\* Nothing went wrong.
Clean(r) == r.error = ""

\* Behind an argument index the parser has the argument it names.
LEMMA ArgIndexNames ==
  ASSUME Reads, IInv, NEW i \in 1..(Len(fmt) + 1), Clean(ParseArgIndex(i))
  PROVE  LET r == ParseArgIndex(i)
         IN  Names(i, r.s, r.look.use, 0) /\ Value(r.look.use) = r.look.arg
<1> DEFINE number == ParseNumber(i)
           r == ParseArgIndex(i)
<1>1. Text /\ i \in Nat
  <2>1. Text
    BY Zenon DEF Reads
  <2> QED
    BY <2>1 DEF Text
<1>2. CASE IsDigit(At(i))
  <2> DEFINE look == GetArg(number.value)
  <2>1. r.s = number.s /\ r.look = look /\ ~TooBig(number.value) /\ look.error = ""
    <3>1. /\ r.s = number.s /\ r.look = look
          /\ r.error = IF TooBig(number.value) THEN "number is too big"
                       ELSE IF look.error = "" THEN ""
                       ELSE IF At(number.s) \notin {"}", ":"} THEN "invalid format string"
                       ELSE look.error
      BY <1>2 DEF ParseArgIndex
    <3> HIDE DEF look, number, r
    <3>2. r.error = ""
      BY Zenon DEF r, Clean
    <3> QED
      BY <3>1, <3>2
  <2>2. Means(i, number.s, number.value) /\ number.s \in (i + 1)..(Len(fmt) + 1)
        /\ number.value \in 0..INT_MAX
    BY <1>1, <1>2, <2>1, NumberMeans, Zenon
  <2> DEFINE n == number.value
             s == number.s
  <2>3. look.use.auto = FALSE /\ look.use.index = n /\ Value(look.use) = look.arg
    <3>1. n \in Int
      BY <2>2, LimitAssumption
    <3> HIDE DEF n
    <3> QED
      BY <2>1, <3>1, GetArgValue DEF n
  <2>4. n + 0 = n /\ i # s
    <3> HIDE DEF n, s
    <3> QED
      BY <1>1, <2>2, LimitAssumption DEF n, s
  <2> HIDE DEF look, number
  <2>5. Names(i, s, look.use, 0)
    BY <2>2, <2>3, <2>4, Zenon DEF Names
  <2> QED
    BY <2>1, <2>3, <2>5, Zenon
<1>3. CASE ~IsDigit(At(i))
  <2>1. r.s = i /\ r.look = NextArg /\ NextArg.error = ""
    <3>1. /\ r.s = i /\ r.look = NextArg
          /\ r.error = IF NextArg.error = "" THEN ""
                       ELSE IF At(i) \notin {"}", ":"} THEN "invalid format string"
                       ELSE NextArg.error
      BY <1>3 DEF ParseArgIndex
    <3> HIDE DEF r
    <3>2. r.error = ""
      BY Zenon DEF r, Clean
    <3> QED
      BY <3>1, <3>2
  <2>2. NextArg.use.auto = TRUE /\ Value(NextArg.use) = NextArg.arg
    BY <2>1, NextArgValue
  <2>3. Names(i, i, NextArg.use, 0)
    BY <2>2, Zenon DEF Names
  <2> QED
    BY <2>1, <2>2, <2>3, Zenon
<1> QED
  BY <1>2, <1>3

\* The beginning of a field is read up to i: its argument is known.
ArgumentPart(q, u, i) ==
  /\ At(q.field) = "{" /\ i \in (q.field + 1)..q.s
  /\ Names(q.field + 1, i, u[1], 0) /\ q.arg = Printed(Value(u[1]))

WidthIs(h, w, spec) == IF w = h THEN spec.width = 0 ELSE Means(h, w, spec.width)

LaidOut(i, a, h, w, spec) ==
  IF w > h /\ At(h) = "0"
  THEN spec.align = "numeric" /\ spec.fill = "0" /\ (a = i + 1 \/ At(a - 1) \in Marks)
  ELSE BraceAlignment(i + 1, a, spec)

\* It is cut into index, alignment, signs and width, which end before i, a, h and w.
Cut(q, u, i, a, h, w) ==
  /\ ArgumentPart(q, u, i) /\ At(i) = ":"
  /\ a \in (i + 1)..q.s /\ h \in a..q.s /\ w \in h..q.s
  /\ BraceSigns(a, h, q.spec) /\ WidthIs(h, w, q.spec) /\ LaidOut(i, a, h, w, q.spec)

Bare(spec) == spec.precision = -1 /\ spec.type = ""

\* There is a sign or there is none.
OneSign(a, s) == Src(a, s) = << >> \/ \E c \in {"+", "-", " "} : Src(a, s) = <<c>>

TypeIs(r, s, spec) == Src(r, s) = IF spec.type = "" THEN << >> ELSE <<spec.type>>

\* How the field is cut when its parts up to one were read.
AtIndex(q, u) == q.s = q.field + 1 /\ At(q.field) = "{" /\ u = << >>
AtMark(q, u) == ArgumentPart(q, u, q.s) /\ At(q.s) = ":" /\ q.spec = NoSpec /\ Len(u) = 1
AtSign(q, u) ==
  (\E i : Cut(q, u, i, q.s, q.s, q.s)) /\ Bare(q.spec) /\ Len(u) = 1
AtHash(q, u) ==
  (\E i, a : Cut(q, u, i, a, q.s, q.s) /\ OneSign(a, q.s)) /\ Bare(q.spec) /\ Len(u) = 1
AtWidth(q, u) ==
  (\E i, a : Cut(q, u, i, a, q.s, q.s)) /\ Bare(q.spec) /\ Len(u) = 1
AtPrecision(q, u) ==
  (\E i, a, h : Cut(q, u, i, a, h, q.s)) /\ Bare(q.spec) /\ Len(u) = 1
AtType(q, u) ==
  /\ \E i, a, h, w : Cut(q, u, i, a, h, w) /\ BracePrecisionIs(w, q.s, q.spec, u)
  /\ q.spec.type = ""
AtClose(q, u) ==
  \/ ArgumentPart(q, u, q.s) /\ q.spec = NoSpec /\ Len(u) = 1
  \/ \E i, a, h, w, r :
       /\ Cut(q, u, i, a, h, w) /\ r \in w..q.s
       /\ BracePrecisionIs(w, r, q.spec, u) /\ TypeIs(r, q.s, q.spec)

BraceSoFar(q, u) ==
  /\ q.pc = "index" => AtIndex(q, u)
  /\ q.pc = "align" => AtMark(q, u)
  /\ q.pc = "sign" => AtSign(q, u)
  /\ q.pc = "hash" => AtHash(q, u)
  /\ q.pc = "width" => AtWidth(q, u)
  /\ q.pc = "precision" => AtPrecision(q, u)
  /\ q.pc = "type" => AtType(q, u)
  /\ q.pc = "close" => AtClose(q, u)

\* What was cut stays so as the parser goes on.
LEMMA CutKept ==
  ASSUME NEW q, NEW u, NEW i, NEW a, NEW h, NEW w, Cut(q, u, i, a, h, w),
         NEW x, x[1] = u[1], NEW r, r.field = q.field, r.arg = q.arg,
         q.s \in Int, r.s \in Int, q.field \in Int, q.s <= r.s,
         r.spec.align = q.spec.align, r.spec.fill = q.spec.fill,
         r.spec.flags = q.spec.flags, r.spec.width = q.spec.width
  PROVE  Cut(r, x, i, a, h, w)
<1>1. /\ i \in (q.field + 1)..q.s /\ a \in (i + 1)..q.s /\ h \in a..q.s /\ w \in h..q.s
  BY Zenon DEF Cut, ArgumentPart
<1>2. /\ i \in (r.field + 1)..r.s /\ a \in (i + 1)..r.s /\ h \in a..r.s /\ w \in h..r.s
  BY <1>1
<1>3. ArgumentPart(r, x, i) /\ At(i) = ":"
  <2>1. /\ At(q.field) = "{" /\ Names(q.field + 1, i, u[1], 0)
        /\ q.arg = Printed(Value(u[1])) /\ At(i) = ":"
    BY Zenon DEF Cut, ArgumentPart
  <2> QED
    BY <1>2, <2>1, Zenon DEF ArgumentPart
<1>4. BraceSigns(a, h, r.spec)
  BY Zenon DEF Cut, BraceSigns
<1>5. WidthIs(h, w, r.spec)
  BY Zenon DEF Cut, WidthIs
<1>6. LaidOut(i, a, h, w, r.spec)
  BY Zenon DEF Cut, LaidOut, BraceAlignment
<1> QED
  BY <1>2, <1>3, <1>4, <1>5, <1>6, Zenon DEF Cut

\* The same with no sign or width behind it, and perhaps signs that are new.
LEMMA CutSigns ==
  ASSUME NEW q, NEW u, NEW i, NEW a, Cut(q, u, i, a, q.s, q.s),
         NEW r, r.field = q.field, r.arg = q.arg,
         q.s \in Int, r.s \in Int, q.field \in Int, q.s <= r.s,
         r.spec.align = q.spec.align, r.spec.fill = q.spec.fill,
         r.spec.width = q.spec.width, BraceSigns(a, r.s, r.spec)
  PROVE  Cut(r, u, i, a, r.s, r.s)
<1>1. i \in (q.field + 1)..q.s /\ a \in (i + 1)..q.s
  BY Zenon DEF Cut, ArgumentPart
<1>2. /\ i \in (r.field + 1)..r.s /\ a \in (i + 1)..r.s /\ r.s \in a..r.s /\ r.s \in r.s..r.s
      /\ ~(q.s > q.s) /\ ~(r.s > r.s)
  BY <1>1
<1>3. ArgumentPart(r, u, i) /\ At(i) = ":"
  <2>1. /\ At(q.field) = "{" /\ Names(q.field + 1, i, u[1], 0)
        /\ q.arg = Printed(Value(u[1])) /\ At(i) = ":"
    BY Zenon DEF Cut, ArgumentPart
  <2> QED
    BY <1>2, <2>1, Zenon DEF ArgumentPart
<1>4. WidthIs(r.s, r.s, r.spec)
  BY Zenon DEF Cut, WidthIs
<1>5. LaidOut(i, a, r.s, r.s, r.spec)
  <2>1. BraceAlignment(i + 1, a, q.spec)
    BY <1>2, Zenon DEF Cut, LaidOut
  <2>2. BraceAlignment(i + 1, a, r.spec)
    BY <2>1, Zenon DEF BraceAlignment
  <2> QED
    BY <1>2, <2>2, Zenon DEF LaidOut
<1> QED
  BY <1>2, <1>3, <1>4, <1>5, Zenon DEF Cut

\* The invariant of a field, and a step that keeps it.
BraceField0(q) == q.pc \in FieldParts /\ Behead(q) /\ BraceSoFar(q, Own(q))
BraceGoes == Fails \/ \E q : Go(q) /\ BraceField0(q)

\* Nothing is used where a part that is no argument was read.
LEMMA OwnSame ==
  ASSUME Behead(p), NEW q, q.uses = p.uses
  PROVE  Behead(q) /\ Own(q) = Own(p)
BY Zenon DEF Behead, Own

\* Where the parser is.
LEMMA HereInts ==
  ASSUME Reads
  PROVE  /\ Text /\ Len(fmt) \in Nat /\ p.s \in 1..(Len(fmt) + 1) /\ p.field \in 1..p.s
         /\ p.s \in Int /\ p.field \in Int /\ p.s + 1 \in Int /\ p.s <= p.s + 1 /\ p.s <= p.s
         /\ DOMAIN p = ParserFields /\ DOMAIN p.spec = SpecFields
         /\ At(p.s) # NUL => p.s \in 1..Len(fmt)
<1>1. Text /\ Ahead(p) /\ Len(fmt) \in Nat
  BY DEF Reads, Typed, Text
<1>2. p.s \in 1..(Len(fmt) + 1) /\ p.field \in 1..p.s
  BY <1>1 DEF Ahead
<1>3. DOMAIN p = ParserFields /\ DOMAIN p.spec = SpecFields
  BY Here, Zenon
<1>4. p.s \in Int /\ p.field \in Int /\ p.s + 1 \in Int /\ p.s <= p.s + 1 /\ p.s <= p.s
  BY <1>1, <1>2
<1>5. At(p.s) # NUL => p.s \in 1..Len(fmt)
  BY <1>1, Behind
<1> QED
  BY <1>1, <1>2, <1>3, <1>4, <1>5, Zenon

\* The flags of the signs.
SignsOf(a, s) == UNION {FlagsOf(At(k)) : k \in a..(s - 1)}

\* One more at a time.
LEMMA SignsNext ==
  ASSUME NEW a \in Int, NEW s \in Int, a <= s
  PROVE  /\ SignsOf(a, a) = {}
         /\ SignsOf(a, s + 1) = (SignsOf(a, s)) \cup FlagsOf(At(s))
<1>1. SignsOf(a, a) = {}
  <2>1. a..(a - 1) = {}
    OBVIOUS
  <2> QED
    BY <2>1 DEF SignsOf
<1>2. a..((s + 1) - 1) = a..(s - 1) \cup {s}
  OBVIOUS
<1>3. ASSUME NEW S, NEW T, T = S \cup {s}
      PROVE  (UNION {FlagsOf(At(k)) : k \in T})
               = (UNION {FlagsOf(At(k)) : k \in S}) \cup FlagsOf(At(s))
  BY <1>3
<1>4. SignsOf(a, s + 1) = (SignsOf(a, s)) \cup FlagsOf(At(s))
  BY <1>2, <1>3, Zenon DEF SignsOf
<1> QED
  BY <1>1, <1>4, Zenon

\* The sign, if there is one.
LEMMA BraceSignGoes ==
  ASSUME Reads, Behead(p), BraceSoFar(p, Own(p)), BraceSign
  PROVE  BraceGoes
<1> DEFINE u == Own(p)
           s == p.s
           c == At(s)
           none == [p EXCEPT !.pc = "hash"]
           given == [p EXCEPT !.spec.flags = SignFlags(c), !.s = @ + 1, !.pc = "hash"]
<1>1. /\ Text /\ s \in 1..(Len(fmt) + 1) /\ s \in Int /\ p.field \in Int /\ s + 1 \in Int
      /\ s <= s + 1 /\ s <= s
      /\ DOMAIN p = ParserFields /\ DOMAIN p.spec = SpecFields /\ (c # NUL => s \in 1..Len(fmt))
  BY HereInts, Zenon
<1>2. AtSign(p, u)
  BY DEF BraceSoFar, BraceSign
<1>3. PICK i : Cut(p, u, i, s, s, s)
  BY <1>2, Zenon DEF AtSign
<1>4. Bare(p.spec) /\ Len(u) = 1
  BY <1>2, Zenon DEF AtSign
<1>5. \/ Go(none) \/ Fail("requires signed argument")
      \/ c \in {"+", "-", " "} /\ Go(given)
  BY Zenon DEF BraceSign
<1>6. CASE Go(none)
  <2>1. /\ none.pc = "hash" /\ none.s = s /\ none.field = p.field /\ none.arg = p.arg
        /\ none.spec = p.spec /\ none.uses = p.uses
    BY <1>1 DEF ParserFields
  <2> HIDE DEF none
  <2>2. Cut(none, u, i, s, s, s)
    BY <1>1, <1>3, <2>1, CutKept
  <2>3. OneSign(s, s)
    BY <1>1, SrcNext, Zenon DEF OneSign
  <2>4. AtHash(none, u)
    BY <1>4, <2>1, <2>2, <2>3, Zenon DEF AtHash
  <2>5. Behead(none) /\ Own(none) = u
    BY <2>1, OwnSame, Zenon
  <2>6. BraceSoFar(none, u) /\ none.pc \in FieldParts
    BY <2>1, <2>4 DEF BraceSoFar, FieldParts
  <2> QED
    BY <1>6, <2>5, <2>6, Zenon DEF BraceGoes, BraceField0
<1>7. CASE c \in {"+", "-", " "} /\ Go(given)
  <2> DEFINE t == s + 1
             spec == [p.spec EXCEPT !.flags = SignFlags(c)]
  <2>0. /\ given = [p EXCEPT !.spec = spec, !.s = t, !.pc = "hash"]
        /\ spec.flags = SignFlags(c) /\ spec.align = p.spec.align /\ spec.fill = p.spec.fill
        /\ spec.width = p.spec.width /\ spec.precision = p.spec.precision
        /\ spec.type = p.spec.type
    <3>1. given = [p EXCEPT !.spec = spec, !.s = t, !.pc = "hash"]
      BY Zenon
    <3> HIDE DEF t
    <3>2. /\ spec.flags = SignFlags(c) /\ spec.align = p.spec.align /\ spec.fill = p.spec.fill
          /\ spec.width = p.spec.width /\ spec.precision = p.spec.precision
          /\ spec.type = p.spec.type
      BY <1>1 DEF SpecFields
    <3> QED
      BY <3>1, <3>2, Zenon
  <2> HIDE DEF spec
  <2>00. t \in Int
    BY <1>1
  <2>1. /\ given.pc = "hash" /\ given.s = t /\ given.field = p.field /\ given.arg = p.arg
        /\ given.uses = p.uses /\ given.spec.flags = SignFlags(c)
        /\ given.spec.align = p.spec.align /\ given.spec.fill = p.spec.fill
        /\ given.spec.width = p.spec.width /\ given.spec.precision = p.spec.precision
        /\ given.spec.type = p.spec.type
    <3> HIDE DEF t, given
    <3>1. /\ given.pc = "hash" /\ given.s = t /\ given.field = p.field /\ given.arg = p.arg
          /\ given.uses = p.uses /\ given.spec = spec
      BY <1>1, <2>0 DEF ParserFields
    <3> QED
      BY <2>0, <3>1, Zenon
  <2> HIDE DEF given
  <2>2. s \in 1..Len(fmt)
    <3>1. c # NUL
      BY <1>7 DEF NUL
    <3> QED
      BY <1>1, <3>1, Zenon
  <2>3. Src(s, t) = <<c>>
    BY <1>1, <2>2, SrcShort, Zenon
  <2>4. SignsOf(s, t) = FlagsOf(c)
    <3>1. SignsOf(s, s) = {} /\ SignsOf(s, t) = SignsOf(s, s) \cup FlagsOf(c)
      BY <1>1, SignsNext, Zenon
    <3> QED
      BY <3>1
  <2>5. FlagsOf(c) = SignFlags(c)
    BY <1>7 DEF FlagsOf, SignFlags
  <2>6. BraceSigns(s, t, given.spec)
    <3>1. given.spec.flags = SignsOf(s, t)
      BY <2>1, <2>4, <2>5, Zenon
    <3> QED
      BY <1>7, <2>3, <3>1, Zenon DEF BraceSigns, SignsOf
  <2>7. Cut(given, u, i, s, t, t)
    BY <1>1, <1>3, <2>1, <2>6, CutSigns
  <2>8. OneSign(s, t)
    BY <1>7, <2>3, Zenon DEF OneSign
  <2>9. Bare(given.spec)
    BY <1>4, <2>1, Zenon DEF Bare
  <2>10. AtHash(given, u)
    BY <1>4, <2>1, <2>7, <2>8, <2>9, Zenon DEF AtHash
  <2>11. Behead(given) /\ Own(given) = u
    BY <2>1, OwnSame, Zenon
  <2>12. BraceSoFar(given, u) /\ given.pc \in FieldParts
    BY <2>1, <2>10 DEF BraceSoFar, FieldParts
  <2> QED
    BY <1>7, <2>11, <2>12, Zenon DEF BraceGoes, BraceField0
<1>8. CASE Fail("requires signed argument")
  BY <1>8 DEF BraceGoes, Fails
<1> QED
  BY <1>5, <1>6, <1>7, <1>8

\* A step to the next part of a field.
LEMMA GoesOn ==
  ASSUME NEW q, Go(q), q.pc \in FieldParts, Behead(q), BraceSoFar(q, Own(q))
  PROVE  BraceGoes
BY Zenon DEF BraceGoes, BraceField0

\* The parser with another part next.
LEMMA OnlyPart ==
  ASSUME Reads, NEW pc, NEW q, q = [p EXCEPT !.pc = pc]
  PROVE  /\ q.pc = pc /\ q.s = p.s /\ q.field = p.field /\ q.arg = p.arg
         /\ q.spec = p.spec /\ q.uses = p.uses /\ q.index = p.index
<1>1. DOMAIN p = ParserFields
  BY HereInts, Zenon
<1> QED
  BY <1>1 DEF ParserFields

\* One more in a sequence.
LEMMA AppendLast ==
  ASSUME NEW S, NEW x \in Seq(S), NEW d \in S
  PROVE  LET z == Append(x, d)
         IN  /\ z \in Seq(S) /\ Len(z) = Len(x) + 1 /\ z[Len(x) + 1] = d
             /\ \A k \in 1..Len(x) : z[k] = x[k]
OBVIOUS

\* One character behind another.
LEMMA AppendTwo ==
  ASSUME NEW c, NEW d
  PROVE  Append(<< >>, d) = <<d>> /\ Append(<<c>>, d) = <<c, d>>
<1>1. Append(<< >>, d) = <<d>>
  OBVIOUS
<1>2. Append(<<c>>, d) = <<c, d>>
  <2> DEFINE S == {c, d}
             x == <<c>>
             y == <<c, d>>
             z == Append(x, d)
  <2>1. x \in Seq(S) /\ Len(x) = 1 /\ x[1] = c /\ d \in S
    OBVIOUS
  <2>2. y \in Seq(S) /\ Len(y) = 2 /\ y[1] = c /\ y[2] = d
    OBVIOUS
  <2> HIDE DEF S, x, y
  <2>3. z \in Seq(S) /\ Len(z) = 2 /\ z[1] = c /\ z[2] = d
    <3>1. /\ z \in Seq(S) /\ Len(z) = Len(x) + 1 /\ z[Len(x) + 1] = d
          /\ \A k \in 1..Len(x) : z[k] = x[k]
      BY <2>1, AppendLast
    <3> QED
      BY <2>1, <3>1
  <2> HIDE DEF z
  <2>4. y = z
    BY <2>2, <2>3
  <2> QED
    BY <2>4 DEF x, y, z
<1> QED
  BY <1>1, <1>2, Zenon

\* The mark of a base, if there is one.
LEMMA BraceHashGoes ==
  ASSUME Reads, Behead(p), BraceSoFar(p, Own(p)), BraceHash
  PROVE  BraceGoes
<1> DEFINE u == Own(p)
           s == p.s
           c == At(s)
           none == [p EXCEPT !.pc = "width"]
           given == [p EXCEPT !.spec.flags = @ \cup {"HASH"}, !.s = @ + 1, !.pc = "width"]
<1>1. /\ Text /\ s \in 1..(Len(fmt) + 1) /\ s \in Int /\ p.field \in Int /\ s + 1 \in Int
      /\ s <= s + 1 /\ s <= s
      /\ DOMAIN p = ParserFields /\ DOMAIN p.spec = SpecFields /\ (c # NUL => s \in 1..Len(fmt))
      /\ p.field \in 1..s /\ Len(fmt) \in Nat
  BY HereInts, Zenon
<1>2. AtHash(p, u)
  BY DEF BraceSoFar, BraceHash
<1>3. PICK i, a : Cut(p, u, i, a, s, s) /\ OneSign(a, s)
  BY <1>2, Zenon DEF AtHash
<1>4. Bare(p.spec) /\ Len(u) = 1
  BY <1>2, Zenon DEF AtHash
<1>5. \/ Go(none) \/ Fail("requires numeric argument")
      \/ c = "#" /\ Go(given)
  BY Zenon DEF BraceHash
<1>6. CASE Go(none)
  <2>1. /\ none.pc = "width" /\ none.s = s /\ none.field = p.field /\ none.arg = p.arg
        /\ none.spec = p.spec /\ none.uses = p.uses
    BY OnlyPart, Zenon
  <2> HIDE DEF none
  <2>2. Cut(none, u, i, a, s, s)
    BY <1>1, <1>3, <2>1, CutKept
  <2>3. AtWidth(none, u)
    BY <1>4, <2>1, <2>2, Zenon DEF AtWidth
  <2>4. Behead(none) /\ Own(none) = u
    BY <2>1, OwnSame, Zenon
  <2>5. BraceSoFar(none, u) /\ none.pc \in FieldParts
    BY <2>1, <2>3 DEF BraceSoFar, FieldParts
  <2> QED
    BY <1>6, <2>4, <2>5, GoesOn, Zenon
<1>7. CASE c = "#" /\ Go(given)
  <2> DEFINE t == s + 1
             spec == [p.spec EXCEPT !.flags = @ \cup {"HASH"}]
  <2>1. given = [p EXCEPT !.spec = spec, !.s = t, !.pc = "width"]
    BY Zenon
  <2>2. /\ spec.flags = p.spec.flags \cup {"HASH"} /\ spec.align = p.spec.align
        /\ spec.fill = p.spec.fill /\ spec.width = p.spec.width
        /\ spec.precision = p.spec.precision /\ spec.type = p.spec.type
    BY <1>1 DEF SpecFields
  <2> HIDE DEF spec, given
  <2>3. /\ given.pc = "width" /\ given.s = t /\ given.field = p.field /\ given.arg = p.arg
        /\ given.spec = spec /\ given.uses = p.uses
    <3> HIDE DEF t
    <3> QED
      BY <1>1, <2>1 DEF ParserFields
  <2>4. c # NUL
    BY <1>7 DEF NUL
  <2>5. s \in 1..Len(fmt)
    BY <1>1, <2>4, Zenon
  <2>6. a \in (i + 1)..s /\ i \in (p.field + 1)..s
    BY <1>3, Zenon DEF Cut, ArgumentPart
  <2>7. a \in 1..(Len(fmt) + 1) /\ s \in a..Len(fmt) /\ a \in Int /\ a <= s
    BY <1>1, <2>5, <2>6
  <2>8. Src(a, t) = Append(Src(a, s), "#")
    BY <1>1, <1>7, <2>7, SrcNext, Zenon
  <2>9. SignsOf(a, t) = (SignsOf(a, s)) \cup FlagsOf("#")
    BY <1>1, <1>7, <2>7, SignsNext, Zenon
  <2>10. FlagsOf("#") = {"HASH"}
    BY DEF FlagsOf
  <2>11. p.spec.flags = SignsOf(a, s)
    BY <1>3, Zenon DEF Cut, BraceSigns, SignsOf
  <2>12. BraceSigns(a, t, given.spec)
    <3>1. given.spec.flags = SignsOf(a, t)
      BY <2>2, <2>3, <2>9, <2>10, <2>11, Zenon
    <3>2. CASE Src(a, s) = << >>
      <4>1. Append(<< >>, "#") = <<"#">>
        BY AppendTwo, Zenon
      <4> QED
        BY <2>8, <3>1, <3>2, <4>1, Zenon DEF BraceSigns, SignsOf
    <3>3. ASSUME NEW d \in {"+", "-", " "}, Src(a, s) = <<d>>
          PROVE  BraceSigns(a, t, given.spec)
      <4>1. Append(<<d>>, "#") = <<d, "#">>
        BY AppendTwo, Zenon
      <4> QED
        BY <2>8, <3>1, <3>3, <4>1, Zenon DEF BraceSigns, SignsOf
    <3> QED
      BY <1>3, <3>2, <3>3, Zenon DEF OneSign
  <2>13. given.s \in Int /\ s <= given.s
    BY <1>1, <2>3, Zenon
  <2>14. Cut(given, u, i, a, t, t)
    <3>1. /\ given.spec.align = p.spec.align /\ given.spec.fill = p.spec.fill
          /\ given.spec.width = p.spec.width /\ given.s = t
      BY <2>2, <2>3, Zenon
    <3>2. given.field = p.field /\ given.arg = p.arg
      BY <2>3, Zenon
    <3> HIDE DEF t
    <3> QED
      BY <1>1, <1>3, <2>12, <2>13, <3>1, <3>2, CutSigns
  <2>15. Bare(given.spec)
    BY <1>4, <2>2, <2>3, Zenon DEF Bare
  <2>16. AtWidth(given, u)
    BY <1>4, <2>3, <2>14, <2>15, Zenon DEF AtWidth
  <2>17. Behead(given) /\ Own(given) = u
    BY <2>3, OwnSame, Zenon
  <2>18. BraceSoFar(given, u) /\ given.pc \in FieldParts
    BY <2>3, <2>16 DEF BraceSoFar, FieldParts
  <2> QED
    BY <1>7, <2>17, <2>18, GoesOn, Zenon
<1>8. CASE Fail("requires numeric argument")
  BY <1>8 DEF BraceGoes, Fails
<1> QED
  BY <1>5, <1>6, <1>7, <1>8

\* A counted character is one.
Chars == \A k \in 1..Len(fmt) : fmt[k] # ""

\* The type, if there is one.
LEMMA BraceTypeGoes ==
  ASSUME Reads, Chars, Behead(p), BraceSoFar(p, Own(p)), BraceType
  PROVE  BraceGoes
<1> DEFINE u == Own(p)
           s == p.s
           c == At(s)
           none == [p EXCEPT !.pc = "close"]
           given == [p EXCEPT !.spec.type = At(p.s), !.s = @ + 1, !.pc = "close"]
<1>1. /\ Text /\ s \in 1..(Len(fmt) + 1) /\ s \in Int /\ p.field \in Int /\ s + 1 \in Int
      /\ s <= s + 1 /\ s <= s
      /\ DOMAIN p = ParserFields /\ DOMAIN p.spec = SpecFields /\ (c # NUL => s \in 1..Len(fmt))
      /\ p.field \in 1..s /\ Len(fmt) \in Nat
  BY HereInts, Zenon
<1>2. AtType(p, u)
  BY DEF BraceSoFar, BraceType
<1>3. PICK i, a, h, w : Cut(p, u, i, a, h, w) /\ BracePrecisionIs(w, s, p.spec, u)
  BY <1>2, Zenon DEF AtType
<1>4. p.spec.type = ""
  BY <1>2, Zenon DEF AtType
<1>5. \/ Go(none)
      \/ c # NUL /\ Go(given)
  <2>1. CASE At(p.s) \in {"}", NUL}
    BY <2>1, Zenon DEF BraceType
  <2>2. CASE At(p.s) \notin {"}", NUL}
    <3>1. Go(given)
      BY <2>2, Zenon DEF BraceType
    <3> QED
      BY <2>2, <3>1, Zenon
  <2> QED
    BY <2>1, <2>2, Zenon
<1>6. i \in (p.field + 1)..s /\ a \in (i + 1)..s /\ h \in a..s /\ w \in h..s
  BY <1>3, Zenon DEF Cut, ArgumentPart
<1>7. w \in Int /\ w <= s /\ s \in w..s /\ s \in w..(s + 1)
  BY <1>1, <1>6
<1>8. CASE Go(none)
  <2>1. /\ none.pc = "close" /\ none.s = s /\ none.field = p.field /\ none.arg = p.arg
        /\ none.spec = p.spec /\ none.uses = p.uses
    BY OnlyPart, Zenon
  <2> HIDE DEF none
  <2>2. Cut(none, u, i, a, h, w)
    BY <1>1, <1>3, <2>1, CutKept
  <2>3. TypeIs(s, s, p.spec)
    BY <1>1, <1>4, SrcNext, Zenon DEF TypeIs
  <2>4. AtClose(none, u)
    BY <1>3, <1>7, <2>1, <2>2, <2>3, Zenon DEF AtClose
  <2>5. Behead(none) /\ Own(none) = u
    BY <2>1, OwnSame, Zenon
  <2>6. BraceSoFar(none, u) /\ none.pc \in FieldParts
    BY <2>1, <2>4 DEF BraceSoFar, FieldParts
  <2> QED
    BY <1>8, <2>5, <2>6, GoesOn, Zenon
<1>9. CASE c # NUL /\ Go(given)
  <2> DEFINE t == s + 1
             spec == [p.spec EXCEPT !.type = c]
  <2>1. given = [p EXCEPT !.spec = spec, !.s = t, !.pc = "close"]
    BY Zenon
  <2>2. /\ spec.flags = p.spec.flags /\ spec.align = p.spec.align
        /\ spec.fill = p.spec.fill /\ spec.width = p.spec.width
        /\ spec.precision = p.spec.precision /\ spec.type = c
    BY <1>1 DEF SpecFields
  <2> HIDE DEF spec, given
  <2>3. /\ given.pc = "close" /\ given.s = t /\ given.field = p.field /\ given.arg = p.arg
        /\ given.spec = spec /\ given.uses = p.uses
    <3> HIDE DEF t
    <3> QED
      BY <1>1, <2>1 DEF ParserFields
  <2>4. s \in 1..Len(fmt)
    BY <1>1, <1>9, Zenon
  <2>5. c # ""
    BY <2>4, Zenon DEF Chars, At
  <2>6. Src(s, t) = <<c>>
    BY <1>1, <2>4, SrcShort, Zenon
  <2>7. TypeIs(s, t, spec)
    BY <2>2, <2>5, <2>6, Zenon DEF TypeIs
  <2>8. BracePrecisionIs(w, s, spec, u)
    BY <1>3, <2>2, Zenon DEF BracePrecisionIs
  <2>9. given.s \in Int /\ s <= given.s /\ s \in w..given.s
    BY <1>1, <1>7, <2>3, Zenon
  <2>10. Cut(given, u, i, a, h, w)
    <3>1. /\ given.spec.align = p.spec.align /\ given.spec.fill = p.spec.fill
          /\ given.spec.width = p.spec.width /\ given.spec.flags = p.spec.flags
      BY <2>2, <2>3, Zenon
    <3>2. given.field = p.field /\ given.arg = p.arg
      BY <2>3, Zenon
    <3> QED
      BY <1>1, <1>3, <2>9, <3>1, <3>2, CutKept
  <2>11. AtClose(given, u)
    BY <2>3, <2>7, <2>8, <2>9, <2>10, Zenon DEF AtClose
  <2>12. Behead(given) /\ Own(given) = u
    BY <2>3, OwnSame, Zenon
  <2>13. BraceSoFar(given, u) /\ given.pc \in FieldParts
    BY <2>3, <2>11 DEF BraceSoFar, FieldParts
  <2> QED
    BY <1>9, <2>12, <2>13, GoesOn, Zenon
<1> QED
  BY <1>5, <1>8, <1>9

\* The argument of a field.
LEMMA BraceIndexGoes ==
  ASSUME Reads, IInv, Behead(p), BraceSoFar(p, Own(p)), BraceIndex
  PROVE  BraceGoes
<1> DEFINE u == Own(p)
           s == p.s
           r == ParseArgIndex(s)
           took == Took(r.look)
           q == [took EXCEPT !.arg = Printed(r.look.arg), !.spec = NoSpec, !.s = r.s,
                             !.pc = IF At(r.s) = ":" THEN "align" ELSE "close"]
<1>1. /\ s \in 1..(Len(fmt) + 1) /\ p.field \in 1..s /\ Len(fmt) \in Nat
      /\ DOMAIN p = ParserFields
  BY HereInts, Zenon
<1>2. p.pc = "index" /\ AtIndex(p, u)
  BY DEF BraceSoFar, BraceIndex
<1>3. \/ r.error # "" /\ Fail(r.error)
      \/ Clean(r) /\ Go(q)
  BY Zenon DEF BraceIndex, Clean
<1>4. CASE r.error # "" /\ Fail(r.error)
  BY <1>4, Zenon DEF BraceGoes, Fails
<1>5. CASE Clean(r) /\ Go(q)
  <2>1. r.s \in s..(Len(fmt) + 1)
    BY <1>1, ArgIndexRead, Zenon
  <2>2. Names(s, r.s, r.look.use, 0) /\ Value(r.look.use) = r.look.arg
    BY <1>1, <1>5, ArgIndexNames, Zenon
  <2> HIDE DEF r
  <2>3. /\ DOMAIN took = ParserFields /\ took.uses = Append(p.uses, r.look.use)
        /\ took.field = p.field
    <3>1. DOMAIN took = ParserFields
      BY TookFields, Zenon
    <3>2. took.uses = Append(p.uses, r.look.use) /\ took.field = p.field
      BY <1>1 DEF Took, ParserFields
    <3> QED
      BY <3>1, <3>2, Zenon
  <2> HIDE DEF took
  <2>4. /\ q.arg = Printed(r.look.arg) /\ q.spec = NoSpec /\ q.s = r.s
        /\ q.uses = took.uses /\ q.field = took.field
        /\ q.pc = IF At(r.s) = ":" THEN "align" ELSE "close"
    BY <2>3 DEF ParserFields
  <2> HIDE DEF q
  <2> DEFINE x == Own(q)
  <2>5. Len(u) = 0
    <3>1. u = << >>
      BY <1>2, Zenon DEF AtIndex
    <3> QED
      BY <3>1
  <2>6. Behead(q) /\ Len(x) = 1 /\ x[1] = r.look.use
    <3>1. q.uses = Append(p.uses, r.look.use)
      BY <2>3, <2>4, Zenon
    <3>2. Behead(q) /\ Len(x) = Len(u) + 1 /\ x[Len(u) + 1] = r.look.use
      BY <3>1, OwnMore, Zenon
    <3> HIDE DEF x
    <3> QED
      BY <2>5, <3>2
  <2> HIDE DEF x
  <2>7. s = p.field + 1 /\ At(p.field) = "{"
    BY <1>2, Zenon DEF AtIndex
  <2>8. r.s \in (p.field + 1)..r.s
    <3>1. s = p.field + 1
      BY <2>7, Zenon
    <3> QED
      BY <1>1, <2>1, <3>1
  <2>9. ArgumentPart(q, x, q.s)
    <3>1. /\ At(q.field) = "{" /\ q.s \in (q.field + 1)..q.s
          /\ Names(q.field + 1, q.s, x[1], 0) /\ q.arg = Printed(Value(x[1]))
      BY <2>2, <2>3, <2>4, <2>6, <2>7, <2>8, Zenon
    <3> QED
      BY <3>1, Zenon DEF ArgumentPart
  <2>10. AtClose(q, x) /\ (At(r.s) = ":" => AtMark(q, x))
    BY <2>4, <2>6, <2>9, Zenon DEF AtClose, AtMark
  <2>11. BraceSoFar(q, x) /\ q.pc \in FieldParts
    BY <2>4, <2>10 DEF BraceSoFar, FieldParts
  <2> QED
    BY <1>5, <2>6, <2>11, GoesOn, Zenon DEF x
<1> QED
  BY <1>3, <1>4, <1>5, Zenon

\* Behind a fill and a mark there is a mark.
LEMMA BehindMark ==
  ASSUME NEW j \in Int, NEW a, NEW spec, BraceAlignment(j, a, spec)
  PROVE  a = j \/ At(a - 1) \in Marks
<1>1. CASE a = j
  BY <1>1
<1>2. CASE a = j + 1 /\ At(j) \in Marks
  <2>1. a - 1 = j
    BY <1>2
  <2> QED
    BY <1>2, <2>1, Zenon
<1>3. CASE a = j + 2 /\ At(j + 1) \in Marks
  <2>1. a - 1 = j + 1
    BY <1>3
  <2> QED
    BY <1>3, <2>1, Zenon
<1> QED
  BY <1>1, <1>2, <1>3, Zenon DEF BraceAlignment

\* The width, if there is one.
LEMMA BraceWidthGoes ==
  ASSUME Reads, Behead(p), BraceSoFar(p, Own(p)), BraceWidth
  PROVE  BraceGoes
<1> DEFINE u == Own(p)
           s == p.s
           zero == At(p.s) = "0"
           number == ParseNumber(p.s)
           none == [p EXCEPT !.pc = "precision"]
           given == [p EXCEPT !.spec.align = IF zero THEN "numeric" ELSE @,
                              !.spec.fill = IF zero THEN "0" ELSE @,
                              !.spec.width = number.value,
                              !.s = number.s, !.pc = "precision"]
<1>1. /\ Text /\ s \in 1..(Len(fmt) + 1) /\ s \in Int /\ p.field \in Int
      /\ s <= s /\ p.field \in 1..s /\ Len(fmt) \in Nat
      /\ DOMAIN p = ParserFields /\ DOMAIN p.spec = SpecFields
  BY HereInts, Zenon
<1>2. AtWidth(p, u)
  BY DEF BraceSoFar, BraceWidth
<1>3. PICK i, a : Cut(p, u, i, a, s, s)
  BY <1>2, Zenon DEF AtWidth
<1>4. Bare(p.spec) /\ Len(u) = 1
  BY <1>2, Zenon DEF AtWidth
<1>5. \/ Go(none) \/ Fail("requires numeric argument") \/ Fail("number is too big")
      \/ IsDigit(At(s)) /\ ~TooBig(number.value) /\ Go(given)
  BY Zenon DEF BraceWidth
<1>6. CASE Go(none)
  <2>1. /\ none.pc = "precision" /\ none.s = s /\ none.field = p.field /\ none.arg = p.arg
        /\ none.spec = p.spec /\ none.uses = p.uses
    BY OnlyPart, Zenon
  <2> HIDE DEF none
  <2>2. Cut(none, u, i, a, s, s)
    BY <1>1, <1>3, <2>1, CutKept
  <2>3. AtPrecision(none, u)
    BY <1>4, <2>1, <2>2, Zenon DEF AtPrecision
  <2>4. Behead(none) /\ Own(none) = u
    BY <2>1, OwnSame, Zenon
  <2>5. BraceSoFar(none, u) /\ none.pc \in FieldParts
    BY <2>1, <2>3 DEF BraceSoFar, FieldParts
  <2> QED
    BY <1>6, <2>4, <2>5, GoesOn, Zenon
<1>7. CASE IsDigit(At(s)) /\ ~TooBig(number.value) /\ Go(given)
  <2> DEFINE t == number.s
             spec == [p.spec EXCEPT !.align = IF zero THEN "numeric" ELSE @,
                                    !.fill = IF zero THEN "0" ELSE @,
                                    !.width = number.value]
  <2>1. s \in Nat
    BY <1>1
  <2>2. Means(s, t, number.value) /\ t \in (s + 1)..(Len(fmt) + 1)
    BY <1>1, <1>7, <2>1, NumberMeans, Zenon
  <2>3. given = [p EXCEPT !.spec = spec, !.s = t, !.pc = "precision"]
    BY Zenon
  <2> HIDE DEF number
  <2>4. /\ spec.flags = p.spec.flags /\ spec.width = number.value
        /\ spec.precision = p.spec.precision /\ spec.type = p.spec.type
        /\ spec.align = IF zero THEN "numeric" ELSE p.spec.align
        /\ spec.fill = IF zero THEN "0" ELSE p.spec.fill
    BY <1>1 DEF SpecFields
  <2> HIDE DEF spec, given, t
  <2>5. /\ given.pc = "precision" /\ given.s = t /\ given.field = p.field
        /\ given.arg = p.arg /\ given.spec = spec /\ given.uses = p.uses
    BY <1>1, <2>3 DEF ParserFields
  <2>6. i \in (p.field + 1)..s /\ a \in (i + 1)..s
    BY <1>3, Zenon DEF Cut, ArgumentPart
  <2>7. /\ t > s /\ ~(s > s) /\ t # s /\ i + 1 \in Int
        /\ i \in (p.field + 1)..t /\ a \in (i + 1)..t /\ s \in a..t /\ t \in s..t
    BY <1>1, <2>2, <2>6
  <2>8. ArgumentPart(given, u, i) /\ At(i) = ":"
    <3>1. /\ At(p.field) = "{" /\ Names(p.field + 1, i, u[1], 0)
          /\ p.arg = Printed(Value(u[1])) /\ At(i) = ":"
      BY <1>3, Zenon DEF Cut, ArgumentPart
    <3> QED
      BY <2>5, <2>7, <3>1, Zenon DEF ArgumentPart
  <2>9. BraceSigns(a, s, given.spec)
    BY <1>3, <2>4, <2>5, Zenon DEF Cut, BraceSigns
  <2>10. WidthIs(s, t, given.spec)
    BY <2>2, <2>4, <2>5, <2>7, Zenon DEF WidthIs, t
  <2>11. BraceAlignment(i + 1, a, p.spec)
    BY <1>3, <2>7, Zenon DEF Cut, LaidOut
  <2>12. LaidOut(i, a, s, t, given.spec)
    <3>1. CASE zero
      <4>1. a = i + 1 \/ At(a - 1) \in Marks
        BY <2>7, <2>11, BehindMark, Zenon
      <4> QED
        BY <2>4, <2>5, <2>7, <3>1, <4>1, Zenon DEF LaidOut
    <3>2. CASE ~zero
      <4>1. given.spec.align = p.spec.align /\ given.spec.fill = p.spec.fill
        BY <2>4, <2>5, <3>2, Zenon
      <4>2. BraceAlignment(i + 1, a, given.spec)
        BY <2>11, <4>1, Zenon DEF BraceAlignment
      <4> QED
        BY <3>2, <4>2, Zenon DEF LaidOut
    <3> QED
      BY <3>1, <3>2
  <2>13. Cut(given, u, i, a, s, t)
    BY <2>5, <2>7, <2>8, <2>9, <2>10, <2>12, Zenon DEF Cut
  <2>14. Bare(given.spec)
    BY <1>4, <2>4, <2>5, Zenon DEF Bare
  <2>15. AtPrecision(given, u)
    BY <1>4, <2>5, <2>13, <2>14, Zenon DEF AtPrecision
  <2>16. Behead(given) /\ Own(given) = u
    BY <2>5, OwnSame, Zenon
  <2>17. BraceSoFar(given, u) /\ given.pc \in FieldParts
    BY <2>5, <2>15 DEF BraceSoFar, FieldParts
  <2> QED
    BY <1>7, <2>16, <2>17, GoesOn, Zenon
<1>8. CASE Fail("requires numeric argument") \/ Fail("number is too big")
  BY <1>8 DEF BraceGoes, Fails
<1> QED
  BY <1>5, <1>6, <1>7, <1>8

\* The specification of a field that says nothing.
LEMMA NoSpecSays ==
  /\ NoSpec.flags = {} /\ NoSpec.width = 0 /\ NoSpec.precision = -1 /\ NoSpec.type = ""
  /\ NoSpec.fill = " " /\ NoSpec.align = "default"
BY DEF NoSpec

\* Where the text of a field goes on.
LEMMA Further ==
  ASSUME NEW n \in Nat, NEW i \in 1..(n + 1), NEW f \in 1..i, i \in (f + 1)..i,
         NEW t \in (i + 1)..(n + 1)
  PROVE  /\ i \in (f + 1)..t /\ t \in (i + 1)..t /\ t \in t..t /\ ~(t > t)
         /\ t \in 1..(n + 1) /\ t \in Int /\ t <= t
OBVIOUS

\* Fill and alignment were read.
LEMMA Aligned ==
  ASSUME Reads, Behead(p), AtMark(p, Own(p)),
         NEW q, q.pc = "sign", q.s \in (p.s + 1)..(Len(fmt) + 1), q.field = p.field,
         q.arg = p.arg, q.uses = p.uses, q.spec.flags = {}, q.spec.width = 0,
         q.spec.precision = -1, q.spec.type = "", BraceAlignment(p.s + 1, q.s, q.spec)
  PROVE  q.pc \in FieldParts /\ Behead(q) /\ BraceSoFar(q, Own(q))
<1> DEFINE u == Own(p)
           i == p.s
           t == q.s
<1>1. Text /\ i \in 1..(Len(fmt) + 1) /\ p.field \in 1..i /\ Len(fmt) \in Nat
  BY HereInts, Zenon
<1>2. Behead(q) /\ Own(q) = u
  BY OwnSame, Zenon
<1>3. ArgumentPart(p, u, i) /\ At(i) = ":" /\ Len(u) = 1
  BY Zenon DEF AtMark
<1>4. i \in (p.field + 1)..i
  BY <1>3, Zenon DEF ArgumentPart
<1>5. /\ i \in (p.field + 1)..t /\ t \in (i + 1)..t /\ t \in t..t /\ ~(t > t)
      /\ t \in 1..(Len(fmt) + 1) /\ t \in Int /\ t <= t
  BY <1>1, <1>4, Further, Zenon
<1>6. ArgumentPart(q, u, i)
  <2>1. /\ At(p.field) = "{" /\ Names(p.field + 1, i, u[1], 0) /\ p.arg = Printed(Value(u[1]))
    BY <1>3, Zenon DEF ArgumentPart
  <2> QED
    BY <1>5, <2>1, Zenon DEF ArgumentPart
<1>7. BraceSigns(t, t, q.spec)
  <2>1. Src(t, t) = << >> /\ SignsOf(t, t) = {}
    BY <1>1, <1>5, SrcNext, SignsNext, Zenon
  <2> QED
    BY <2>1, Zenon DEF BraceSigns, SignsOf
<1>8. WidthIs(t, t, q.spec) /\ LaidOut(i, t, t, t, q.spec)
  BY <1>5, Zenon DEF WidthIs, LaidOut
<1>9. Cut(q, u, i, t, t, t)
  BY <1>3, <1>5, <1>6, <1>7, <1>8, Zenon DEF Cut
<1>10. AtSign(q, u)
  BY <1>3, <1>9, Zenon DEF AtSign, Bare
<1> QED
  BY <1>2, <1>10 DEF BraceSoFar, FieldParts

\* The three ways to align, and none.
LEMMA BraceAlignGoes ==
  ASSUME Reads, Behead(p), BraceSoFar(p, Own(p)), BraceAlign
  PROVE  BraceGoes
<1> DEFINE s == p.s + 1
           c == At(s)
           next == At(s + 1)
           filled == c # NUL /\ next \in Marks
           mark == IF filled THEN next ELSE c
           plain == [p EXCEPT !.s = s, !.pc = "sign"]
           aligned == [p EXCEPT !.spec.align = AlignOf(mark), !.pc = "sign"]
           behind == [aligned EXCEPT !.s = s]
           fills == [aligned EXCEPT !.s = s + 2, !.spec.fill = c]
           marked == [aligned EXCEPT !.s = s + 1]
<1>1. /\ Text /\ p.s \in 1..(Len(fmt) + 1) /\ Len(fmt) \in Nat
      /\ DOMAIN p = ParserFields /\ DOMAIN p.spec = SpecFields
      /\ (At(p.s) # NUL => p.s \in 1..Len(fmt))
  BY HereInts, Zenon
<1>2. AtMark(p, Own(p))
  BY DEF BraceSoFar, BraceAlign
<1>3. At(p.s) # NUL /\ p.spec = NoSpec
  BY <1>2 DEF AtMark, NUL
<1>4. NUL \notin Marks
  BY DEF NUL, Marks
<1>5. /\ s \in (p.s + 1)..(Len(fmt) + 1)
      /\ c # NUL => s + 1 \in (p.s + 1)..(Len(fmt) + 1)
      /\ next # NUL => s + 2 \in (p.s + 1)..(Len(fmt) + 1)
  <2>1. p.s \in 1..Len(fmt)
    BY <1>1, <1>3, Zenon
  <2>2. c # NUL => s \in 1..Len(fmt)
    BY <1>1, Behind
  <2>3. next # NUL => s + 1 \in 1..Len(fmt)
    BY <1>1, Behind
  <2> HIDE DEF c, next
  <2> QED
    BY <1>1, <2>1, <2>2, <2>3
<1>6. /\ p.spec.flags = {} /\ p.spec.width = 0 /\ p.spec.precision = -1 /\ p.spec.type = ""
      /\ p.spec.fill = " " /\ p.spec.align = "default"
  BY <1>3, NoSpecSays, Zenon
<1>7. /\ aligned.s = p.s /\ aligned.field = p.field /\ aligned.arg = p.arg
      /\ aligned.uses = p.uses /\ aligned.pc = "sign" /\ DOMAIN aligned = ParserFields
      /\ aligned.spec = [p.spec EXCEPT !.align = AlignOf(mark)]
  <2> HIDE DEF mark
  <2> QED
    BY <1>1 DEF ParserFields
<1>8. /\ DOMAIN aligned.spec = SpecFields
      /\ aligned.spec.flags = {} /\ aligned.spec.width = 0 /\ aligned.spec.precision = -1
      /\ aligned.spec.type = "" /\ aligned.spec.fill = " " /\ aligned.spec.align = AlignOf(mark)
  <2> HIDE DEF mark, aligned
  <2> QED
    BY <1>1, <1>6, <1>7 DEF SpecFields
<1>9. \/ mark \notin Marks /\ Go(plain)
      \/ filled /\ c = "}" /\ Go(behind)
      \/ filled /\ c \notin Braces /\ Go(fills)
      \/ ~filled /\ mark \in Marks /\ Go(marked)
      \/ Fail("invalid fill character")
      \/ Fail("requires numeric argument")
  BY Zenon DEF BraceAlign
<1>10. ASSUME NEW q, Go(q), q.pc \in FieldParts /\ Behead(q) /\ BraceSoFar(q, Own(q))
       PROVE  BraceGoes
  BY <1>10, GoesOn, Zenon
<1> HIDE DEF s, c, next
<1>11. CASE mark \notin Marks /\ Go(plain)
  <2>1. /\ plain.pc = "sign" /\ plain.s = s /\ plain.field = p.field /\ plain.arg = p.arg
        /\ plain.uses = p.uses /\ plain.spec = p.spec
    BY <1>1 DEF ParserFields
  <2> HIDE DEF plain
  <2>2. ~(c = "}" /\ next \in Marks)
    <3>1. "}" # NUL
      BY DEF NUL
    <3> QED
      BY <1>11, <3>1, Zenon
  <2>3. BraceAlignment(s, s, plain.spec)
    <3>1. ~(At(s) = "}" /\ At(s + 1) \in Marks)
      BY <2>2 DEF c, next
    <3> QED
      BY <1>6, <2>1, <3>1, Zenon DEF BraceAlignment
  <2>4. plain.pc \in FieldParts /\ Behead(plain) /\ BraceSoFar(plain, Own(plain))
    BY <1>2, <1>5, <1>6, <2>1, <2>3, Aligned, Zenon DEF s
  <2> QED
    BY <1>10, <1>11, <2>4, Zenon
<1> HIDE DEF aligned
<1>12. CASE filled /\ c = "}" /\ Go(behind)
  <2>1. /\ behind.pc = "sign" /\ behind.s = s /\ behind.field = p.field
        /\ behind.arg = p.arg /\ behind.uses = p.uses /\ behind.spec = aligned.spec
    BY <1>7 DEF ParserFields
  <2> HIDE DEF behind
  <2>2. mark = next /\ next \in Marks
    BY <1>12, Zenon
  <2> HIDE DEF mark, filled
  <2>3. BraceAlignment(s, s, behind.spec)
    BY <1>8, <1>12, <2>1, <2>2, Zenon DEF BraceAlignment, c, next
  <2>4. behind.pc \in FieldParts /\ Behead(behind) /\ BraceSoFar(behind, Own(behind))
    BY <1>2, <1>5, <1>8, <2>1, <2>3, Aligned, Zenon DEF s
  <2> QED
    BY <1>10, <1>12, <2>4, Zenon
<1>13. CASE filled /\ c \notin Braces /\ Go(fills)
  <2> DEFINE t == s + 2
             spec == [aligned.spec EXCEPT !.fill = c]
  <2>1. fills = [aligned EXCEPT !.s = t, !.spec = spec]
    BY <1>7, Zenon
  <2>2. /\ spec.flags = {} /\ spec.width = 0 /\ spec.precision = -1
        /\ spec.type = "" /\ spec.fill = c /\ spec.align = AlignOf(mark)
    <3> HIDE DEF mark
    <3> QED
      BY <1>8 DEF SpecFields
  <2>3. t \in (p.s + 1)..(Len(fmt) + 1)
    BY <1>4, <1>5, <1>13, Zenon
  <2> HIDE DEF fills, spec, t
  <2>4. /\ fills.pc = "sign" /\ fills.s = t /\ fills.field = p.field
        /\ fills.arg = p.arg /\ fills.uses = p.uses /\ fills.spec = spec
    BY <1>7, <2>1 DEF ParserFields
  <2>5. mark = next /\ next \in Marks
    BY <1>13, Zenon
  <2> HIDE DEF mark, filled
  <2>6. BraceAlignment(s, t, fills.spec)
    BY <1>13, <2>2, <2>4, <2>5, Zenon DEF BraceAlignment, c, next, t
  <2>7. fills.pc \in FieldParts /\ Behead(fills) /\ BraceSoFar(fills, Own(fills))
    BY <1>2, <2>2, <2>3, <2>4, <2>6, Aligned, Zenon DEF s
  <2> QED
    BY <1>10, <1>13, <2>7, Zenon
<1>14. CASE ~filled /\ mark \in Marks /\ Go(marked)
  <2> DEFINE t == s + 1
  <2>1. marked = [aligned EXCEPT !.s = t]
    BY Zenon
  <2>2. mark = c /\ c \in Marks
    BY <1>14, Zenon
  <2>3. t \in (p.s + 1)..(Len(fmt) + 1)
    BY <1>4, <1>5, <2>2, Zenon
  <2> HIDE DEF marked, t
  <2>4. /\ marked.pc = "sign" /\ marked.s = t /\ marked.field = p.field
        /\ marked.arg = p.arg /\ marked.uses = p.uses /\ marked.spec = aligned.spec
    BY <1>7, <2>1 DEF ParserFields
  <2> HIDE DEF mark, filled
  <2>5. BraceAlignment(s, t, marked.spec)
    BY <1>8, <2>2, <2>4, Zenon DEF BraceAlignment, c, t
  <2>6. marked.pc \in FieldParts /\ Behead(marked) /\ BraceSoFar(marked, Own(marked))
    BY <1>2, <1>8, <2>3, <2>4, <2>5, Aligned, Zenon DEF s
  <2> QED
    BY <1>10, <1>14, <2>6, Zenon
<1>15. CASE Fail("invalid fill character") \/ Fail("requires numeric argument")
  BY <1>15 DEF BraceGoes, Fails
<1> QED
  BY <1>9, <1>11, <1>12, <1>13, <1>14, <1>15, Zenon

\* A digit is no NUL.
LEMMA DigitNoNul ==
  \A c : IsDigit(c) => c # NUL
BY DEF IsDigit, NUL, Digits

\* The precision, of digits or of another argument.
LEMMA BracePrecisionGoes ==
  ASSUME Reads, IInv, Behead(p), BraceSoFar(p, Own(p)), BracePrecision
  PROVE  BraceGoes
<1> DEFINE u == Own(p)
           s == p.s
           number == ParseNumber(s + 1)
           r == ParseArgIndex(s + 2)
           by == r.look.arg
           none == [p EXCEPT !.pc = "type"]
           given == [[p EXCEPT !.s = number.s] EXCEPT !.spec.precision = number.value,
                                                      !.pc = "type"]
           taken == [[Took(r.look) EXCEPT !.s = r.s + 1]
                       EXCEPT !.spec.precision = by.num, !.pc = "type"]
           Short(value) == ~(value > INT_MAX)
<1>1. /\ Text /\ s \in 1..(Len(fmt) + 1) /\ s \in Int /\ p.field \in Int
      /\ s <= s /\ p.field \in 1..s /\ Len(fmt) \in Nat
      /\ DOMAIN p = ParserFields /\ DOMAIN p.spec = SpecFields
  BY HereInts, Zenon
<1>2. AtPrecision(p, u)
  BY DEF BraceSoFar, BracePrecision
<1>3. PICK i, a, h : Cut(p, u, i, a, h, s)
  BY <1>2, Zenon DEF AtPrecision
<1>4. Bare(p.spec) /\ Len(u) = 1
  BY <1>2, Zenon DEF AtPrecision
<1>5. \/ Go(none) \/ Fails
      \/ /\ At(s) = "." /\ IsDigit(At(s + 1)) /\ Short(number.value) /\ Go(given)
      \/ /\ At(s) = "." /\ At(s + 1) = "{" /\ Clean(r) /\ At(r.s) = "}" /\ Go(taken)
  <2>1. ASSUME NEW q, NEW value, Precise(q, value)
        PROVE  \/ Fails
               \/ Short(value) /\ Go([q EXCEPT !.spec.precision = value, !.pc = "type"])
    BY <2>1 DEF Precise, Fails
  <2>2. CASE Go(none)
    BY <2>2
  <2>3. CASE /\ At(s) = "." /\ IsDigit(At(s + 1))
             /\ Precise([p EXCEPT !.s = number.s], number.value)
    BY <2>1, <2>3, Zenon
  <2>4. CASE /\ At(s) = "." /\ At(s + 1) = "{" /\ Clean(r) /\ At(r.s) = "}"
             /\ Precise([Took(r.look) EXCEPT !.s = r.s + 1], by.num)
    BY <2>1, <2>4, Zenon
  <2>5. CASE r.error # "" /\ Fail(r.error)
    BY <2>5, Zenon DEF Fails
  <2>6. CASE \/ Fail("invalid format string") \/ Fail("precision is not integer")
             \/ Fail("negative precision") \/ Fail("missing precision specifier")
    BY <2>6 DEF Fails
  <2>7. \/ Go(none)
        \/ /\ At(s) = "." /\ IsDigit(At(s + 1))
           /\ Precise([p EXCEPT !.s = number.s], number.value)
        \/ /\ At(s) = "." /\ At(s + 1) = "{" /\ Clean(r) /\ At(r.s) = "}"
           /\ Precise([Took(r.look) EXCEPT !.s = r.s + 1], by.num)
        \/ r.error # "" /\ Fail(r.error)
        \/ \/ Fail("invalid format string") \/ Fail("precision is not integer")
           \/ Fail("negative precision") \/ Fail("missing precision specifier")
    BY Zenon DEF BracePrecision, Clean
  <2> QED
    BY <2>2, <2>3, <2>4, <2>5, <2>6, <2>7, Zenon
<1>6. ASSUME At(s + 1) # NUL
      PROVE  s + 1 \in Nat /\ s + 2 \in 1..(Len(fmt) + 1)
  <2>1. s + 1 \in 1..Len(fmt)
    BY <1>1, <1>6, Behind
  <2> QED
    BY <1>1, <2>1
<1>7. CASE Go(none)
  <2>1. /\ none.pc = "type" /\ none.s = s /\ none.field = p.field /\ none.arg = p.arg
        /\ none.spec = p.spec /\ none.uses = p.uses
    BY OnlyPart, Zenon
  <2> HIDE DEF none
  <2>2. Cut(none, u, i, a, h, s)
    BY <1>1, <1>3, <2>1, CutKept
  <2>3. BracePrecisionIs(s, s, p.spec, u)
    BY <1>4, Zenon DEF BracePrecisionIs, Bare
  <2>4. AtType(none, u)
    BY <1>4, <2>1, <2>2, <2>3, Zenon DEF AtType, Bare
  <2>5. Behead(none) /\ Own(none) = u
    BY <2>1, OwnSame, Zenon
  <2>6. BraceSoFar(none, u) /\ none.pc \in FieldParts
    BY <2>1, <2>4 DEF BraceSoFar, FieldParts
  <2> QED
    BY <1>7, <2>5, <2>6, GoesOn, Zenon
<1>8. CASE At(s) = "." /\ IsDigit(At(s + 1)) /\ Short(number.value) /\ Go(given)
  <2> DEFINE t == number.s
             spec == [p.spec EXCEPT !.precision = number.value]
  <2>1. s + 1 \in Nat
    BY <1>6, <1>8, DigitNoNul, Zenon
  <2>2. Means(s + 1, t, number.value) /\ t \in ((s + 1) + 1)..(Len(fmt) + 1)
    BY <1>1, <1>8, <2>1, NumberMeans, Zenon DEF TooBig
  <2>3. given = [p EXCEPT !.s = t, !.spec = spec, !.pc = "type"]
    <3>1. [p EXCEPT !.s = t].spec = p.spec
      BY <1>1 DEF ParserFields
    <3> QED
      BY <3>1, Zenon
  <2> HIDE DEF number
  <2>4. /\ spec.flags = p.spec.flags /\ spec.width = p.spec.width
        /\ spec.precision = number.value /\ spec.type = p.spec.type
        /\ spec.align = p.spec.align /\ spec.fill = p.spec.fill
    BY <1>1 DEF SpecFields
  <2> HIDE DEF spec, given, t
  <2>5. /\ given.pc = "type" /\ given.s = t /\ given.field = p.field
        /\ given.arg = p.arg /\ given.spec = spec /\ given.uses = p.uses
    BY <1>1, <2>3 DEF ParserFields
  <2>6. t \in Int /\ s <= t
    BY <1>1, <2>2
  <2>7. Cut(given, u, i, a, h, s)
    <3>1. /\ given.spec.align = p.spec.align /\ given.spec.fill = p.spec.fill
          /\ given.spec.width = p.spec.width /\ given.spec.flags = p.spec.flags
      BY <2>4, <2>5, Zenon
    <3>2. given.field = p.field /\ given.arg = p.arg /\ given.s \in Int /\ s <= given.s
      BY <2>5, <2>6, Zenon
    <3> QED
      BY <1>1, <1>3, <3>1, <3>2, CutKept
  <2>8. BracePrecisionIs(s, t, spec, u)
    BY <1>4, <1>8, <2>2, <2>4, Zenon DEF BracePrecisionIs, t
  <2>9. AtType(given, u)
    BY <1>4, <2>4, <2>5, <2>7, <2>8, Zenon DEF AtType, Bare
  <2>10. Behead(given) /\ Own(given) = u
    BY <2>5, OwnSame, Zenon
  <2>11. BraceSoFar(given, u) /\ given.pc \in FieldParts
    BY <2>5, <2>9 DEF BraceSoFar, FieldParts
  <2> QED
    BY <1>8, <2>10, <2>11, GoesOn, Zenon
<1>9. CASE /\ At(s) = "." /\ At(s + 1) = "{" /\ Clean(r) /\ At(r.s) = "}"
           /\ Go(taken)
  <2> DEFINE t == r.s + 1
             took == Took(r.look)
             spec == [p.spec EXCEPT !.precision = by.num]
             x == Own(taken)
  <2>1. s + 2 \in 1..(Len(fmt) + 1)
    <3>1. "{" # NUL
      BY DEF NUL
    <3> QED
      BY <1>6, <1>9, <3>1, Zenon
  <2>2. r.s \in (s + 2)..(Len(fmt) + 1)
    BY <2>1, ArgIndexRead, Zenon
  <2>3. Names(s + 2, r.s, r.look.use, 0) /\ Value(r.look.use) = by
    BY <1>9, <2>1, ArgIndexNames, Zenon
  <2>4. /\ DOMAIN took = ParserFields /\ took.uses = Append(p.uses, r.look.use)
        /\ took.field = p.field /\ took.arg = p.arg /\ took.spec = p.spec
    <3>1. DOMAIN took = ParserFields
      BY TookFields, Zenon
    <3> HIDE DEF r
    <3>2. /\ took.uses = Append(p.uses, r.look.use) /\ took.field = p.field
          /\ took.arg = p.arg /\ took.spec = p.spec
      BY <1>1 DEF Took, ParserFields
    <3> QED
      BY <3>1, <3>2, Zenon
  <2> HIDE DEF took, by
  <2>5. taken = [took EXCEPT !.s = t, !.spec = spec, !.pc = "type"]
    <3> HIDE DEF r
    <3>1. [took EXCEPT !.s = t].spec = p.spec
      BY <2>4 DEF ParserFields
    <3> QED
      BY <3>1, Zenon DEF took
  <2> HIDE DEF r
  <2>6. /\ spec.flags = p.spec.flags /\ spec.width = p.spec.width
        /\ spec.precision = by.num /\ spec.type = p.spec.type
        /\ spec.align = p.spec.align /\ spec.fill = p.spec.fill
    BY <1>1 DEF SpecFields
  <2>7. t \in Int /\ s < t /\ s <= t /\ t - 1 = r.s
    BY <1>1, <2>2
  <2> HIDE DEF spec, taken, t
  <2>8. /\ taken.pc = "type" /\ taken.s = t /\ taken.field = took.field
        /\ taken.arg = took.arg /\ taken.spec = spec /\ taken.uses = took.uses
    BY <2>4, <2>5 DEF ParserFields
  <2>9. /\ Behead(taken) /\ Len(x) = Len(u) + 1 /\ x[Len(u) + 1] = r.look.use
        /\ \A k \in 1..Len(u) : x[k] = u[k]
    <3>1. taken.uses = Append(p.uses, r.look.use)
      BY <2>4, <2>8, Zenon
    <3> QED
      BY <3>1, OwnMore, Zenon
  <2> HIDE DEF x
  <2>10. Len(x) = 2 /\ x[2] = r.look.use /\ x[1] = u[1]
    <3>1. Len(u) = 1
      BY <1>4, Zenon
    <3> HIDE DEF u
    <3>2. 1 \in 1..Len(u) /\ Len(u) + 1 = 2
      BY <3>1
    <3> QED
      BY <2>9, <3>2, Zenon
  <2>11. Cut(taken, x, i, a, h, s)
    <3>1. /\ taken.spec.align = p.spec.align /\ taken.spec.fill = p.spec.fill
          /\ taken.spec.width = p.spec.width /\ taken.spec.flags = p.spec.flags
      BY <2>6, <2>8, Zenon
    <3>2. taken.field = p.field /\ taken.arg = p.arg /\ taken.s \in Int /\ s <= taken.s
      BY <2>4, <2>7, <2>8, Zenon
    <3>3. x[1] = u[1]
      BY <2>10, Zenon
    <3> QED
      BY <1>1, <1>3, <3>1, <3>2, <3>3, CutKept
  <2>12. BracePrecisionIs(s, t, spec, x)
    <3>1. /\ s < t /\ At(s) = "." /\ At(s + 1) = "{" /\ At(t - 1) = "}" /\ Len(x) = 2
          /\ Names(s + 2, t - 1, x[2], 0) /\ spec.precision = Value(x[2]).num
      BY <1>9, <2>3, <2>6, <2>7, <2>10, Zenon
    <3> QED
      BY <3>1, Zenon DEF BracePrecisionIs
  <2>13. AtType(taken, x)
    BY <1>4, <2>6, <2>8, <2>11, <2>12, Zenon DEF AtType, Bare
  <2>14. BraceSoFar(taken, x) /\ taken.pc \in FieldParts
    BY <2>8, <2>13 DEF BraceSoFar, FieldParts
  <2> QED
    BY <1>9, <2>9, <2>14, GoesOn, Zenon DEF x
<1>10. CASE Fails
  BY <1>10, Zenon DEF BraceGoes
<1> QED
  BY <1>5, <1>7, <1>8, <1>9, <1>10, Zenon

\* Of numbers in a row.
LEMMA InARow ==
  /\ \A n \in Int : (n + 1) - 1 = n
  /\ \A m, n : \A i \in m..n : i \in Int
  /\ \A i, n \in Int : \A a \in (i + 1)..n : \A h \in a..n : a <= h /\ h \in (i + 1)..n
OBVIOUS

\* What is written is what the field means.
LEMMA BraceCloseDenotes ==
  ASSUME Reads, BraceSoFar(p, Own(p)), p.pc = "close", At(p.s) = "}",
         NEW f, f.from = p.field, f.upto = p.s + 1, f.spec = p.spec,
         f.sts = <<Visit(p.arg, p.spec)>>
  PROVE  BraceDenotes(f, Own(p))
<1> DEFINE u == Own(p)
           last == p.s
<1>1. p.s \in Int
  BY HereInts, Zenon
<1>2. f.upto - 1 = last
  <2>1. (p.s + 1) - 1 = p.s
    BY <1>1, InARow, Zenon
  <2> QED
    BY <2>1, Zenon
<1>3. AtClose(p, u)
  BY Zenon DEF BraceSoFar
<1>4. ASSUME NEW i, ArgumentPart(p, u, i)
      PROVE  /\ At(f.from) = "{" /\ f.sts = <<Visit(Printed(Value(u[1])), f.spec)>>
             /\ i \in (f.from + 1)..last /\ Names(f.from + 1, i, u[1], 0)
  <2>1. At(p.field) = "{" /\ i \in (p.field + 1)..last /\ Names(p.field + 1, i, u[1], 0)
        /\ p.arg = Printed(Value(u[1]))
    BY <1>4, Zenon DEF ArgumentPart
  <2> QED
    BY <2>1, Zenon
<1>5. CASE ArgumentPart(p, u, last) /\ p.spec = NoSpec /\ Len(u) = 1
  BY <1>2, <1>4, <1>5, Zenon DEF BraceDenotes
<1>6. ASSUME NEW i, NEW a, NEW h, NEW w, NEW r, Cut(p, u, i, a, h, w), r \in w..last,
             BracePrecisionIs(w, r, p.spec, u), TypeIs(r, last, p.spec)
      PROVE  BraceDenotes(f, u)
  <2>1. /\ At(f.from) = "{" /\ f.sts = <<Visit(Printed(Value(u[1])), f.spec)>>
        /\ i \in (f.from + 1)..last /\ Names(f.from + 1, i, u[1], 0)
    BY <1>4, <1>6, Zenon DEF Cut
  <2>2. At(i) = ":" /\ a \in (i + 1)..last /\ h \in a..last /\ w \in h..last
    BY <1>6, Zenon DEF Cut
  <2>3. /\ BraceSigns(a, h, f.spec) /\ WidthIs(h, w, f.spec) /\ LaidOut(i, a, h, w, f.spec)
        /\ BracePrecisionIs(w, r, f.spec, u) /\ TypeIs(r, last, f.spec)
    BY <1>6, Zenon DEF Cut
  <2>4. i \in Int
    BY <2>1, InARow, Zenon
  <2>5. a <= h /\ h \in (i + 1)..last
    <3>1. a \in (i + 1)..last /\ h \in a..last
      BY <2>2, Zenon
    <3> QED
      BY <2>4, <1>1, <3>1, InARow, Zenon
  <2>6. At(f.upto - 1) = "}"
    BY <1>2, Zenon
  <2>7. \E r0 \in w..last : BracePrecisionIs(w, r0, f.spec, u) /\ TypeIs(r0, last, f.spec)
    BY <1>6, <2>3, Zenon
  <2>8. \E w0 \in h..last :
          /\ WidthIs(h, w0, f.spec) /\ LaidOut(i, a, h, w0, f.spec)
          /\ \E r0 \in w0..last : BracePrecisionIs(w0, r0, f.spec, u) /\ TypeIs(r0, last, f.spec)
    BY <2>2, <2>3, <2>7, Zenon
  <2>9. \E a0, h0 \in (i + 1)..last :
          /\ a0 <= h0 /\ BraceSigns(a0, h0, f.spec)
          /\ \E w0 \in h0..last :
             /\ WidthIs(h0, w0, f.spec) /\ LaidOut(i, a0, h0, w0, f.spec)
             /\ \E r0 \in w0..last :
                BracePrecisionIs(w0, r0, f.spec, u) /\ TypeIs(r0, last, f.spec)
    BY <2>2, <2>3, <2>5, <2>8, Zenon
  <2> QED
    BY <1>2, <2>1, <2>2, <2>6, <2>9, Zenon DEF BraceDenotes, WidthIs, LaidOut, TypeIs
<1> QED
  BY <1>3, <1>5, <1>6, Zenon DEF AtClose

-----------------------------------------------------------------------------
(* As long as string and arguments stay, the field means the same          *)
AtOf(f, i) == IF i \in 1..Len(f) THEN f[i] ELSE NUL
ValOf(f, i, j) ==
  LET v[k \in (i - 1)..(j - 1)] ==
        IF k = i - 1 THEN 0 ELSE 10 * v[k - 1] + DigitOf(AtOf(f, k))
  IN  v[j - 1]

\* The string and the arguments are the same.
LEMMA SameText ==
  ASSUME UNCHANGED input
  PROVE  /\ \A i : At(i)' = At(i)
         /\ \A i, j : Src(i, j)' = Src(i, j)
         /\ \A i, j : Val(i, j)' = Val(i, j)
         /\ \A use : Value(use)' = Value(use)
<1>1. fmt' = fmt /\ args' = args
  BY DEF input
<1>2. ASSUME NEW i
      PROVE  At(i)' = At(i)
  BY <1>1, Zenon DEF At
<1>3. ASSUME NEW i, NEW j
      PROVE  Src(i, j)' = Src(i, j)
  BY <1>1, Zenon DEF Src
<1>4. ASSUME NEW i, NEW j
      PROVE  Val(i, j)' = Val(i, j)
  <2>1. Val(i, j) = ValOf(fmt, i, j)
    BY Zenon DEF Val, At, ValOf, AtOf
  <2>2. Val(i, j)' = ValOf(fmt', i, j)
    BY Zenon DEF Val, At, ValOf, AtOf
  <2> QED
    BY <1>1, <2>1, <2>2, Zenon
<1>5. ASSUME NEW use
      PROVE  Value(use)' = Value(use)
  BY <1>1, Zenon DEF Value
<1> QED
  BY <1>2, <1>3, <1>4, <1>5, Zenon

\* A number and the argument it names.
LEMMA SameNames ==
  ASSUME UNCHANGED input
  PROVE  /\ \A i, j, n : Means(i, j, n) => Means(i, j, n)'
         /\ \A i, j, use, n : Names(i, j, use, n) => Names(i, j, use, n)'
<1>1. ASSUME NEW i, NEW j, NEW n, Means(i, j, n)
      PROVE  Means(i, j, n)'
  BY <1>1, SameText, Zenon DEF Means
<1> QED
  BY <1>1, Zenon DEF Names

\* The parts of a field in the brace syntax.
LEMMA SameBraceParts ==
  ASSUME UNCHANGED input
  PROVE  /\ \A i, j, spec : BraceAlignment(i, j, spec) => BraceAlignment(i, j, spec)'
         /\ \A i, j, spec : BraceSigns(i, j, spec) => BraceSigns(i, j, spec)'
         /\ \A i, j, spec, u : BracePrecisionIs(i, j, spec, u) => BracePrecisionIs(i, j, spec, u)'
         /\ \A i, j, spec : WidthIs(i, j, spec) => WidthIs(i, j, spec)'
         /\ \A i, a, h, w, spec : LaidOut(i, a, h, w, spec) => LaidOut(i, a, h, w, spec)'
         /\ \A i, j, spec : TypeIs(i, j, spec) => TypeIs(i, j, spec)'
         /\ \A i, j : OneSign(i, j) => OneSign(i, j)'
         /\ \A q, u, i : ArgumentPart(q, u, i) => ArgumentPart(q, u, i)'
<1>1. /\ \A i : At(i)' = At(i)
      /\ \A i, j : Src(i, j)' = Src(i, j)
      /\ \A use : Value(use)' = Value(use)
      /\ \A i, j, n : Means(i, j, n) => Means(i, j, n)'
      /\ \A i, j, use, n : Names(i, j, use, n) => Names(i, j, use, n)'
  BY SameText, SameNames, Zenon
<1>2. ASSUME NEW i, NEW j, NEW spec, BraceAlignment(i, j, spec)
      PROVE  BraceAlignment(i, j, spec)'
  BY <1>1, <1>2, Zenon DEF BraceAlignment
<1>3. ASSUME NEW i, NEW j, NEW spec, BraceSigns(i, j, spec)
      PROVE  BraceSigns(i, j, spec)'
  <2>1. \A k : FlagsOf(At(k)') = FlagsOf(At(k))
    BY <1>1, Zenon
  <2>2. (UNION {FlagsOf(At(k)) : k \in i..(j - 1)})' = UNION {FlagsOf(At(k)) : k \in i..(j - 1)}
    BY <2>1
  <2> QED
    BY <1>1, <1>3, <2>2, Zenon DEF BraceSigns
<1>4. ASSUME NEW i, NEW j, NEW spec, NEW u, BracePrecisionIs(i, j, spec, u)
      PROVE  BracePrecisionIs(i, j, spec, u)'
  BY <1>1, <1>4, Zenon DEF BracePrecisionIs
<1>5. ASSUME NEW i, NEW j, NEW spec, WidthIs(i, j, spec)
      PROVE  WidthIs(i, j, spec)'
  BY <1>1, <1>5, Zenon DEF WidthIs
<1>6. ASSUME NEW i, NEW a, NEW h, NEW w, NEW spec, LaidOut(i, a, h, w, spec)
      PROVE  LaidOut(i, a, h, w, spec)'
  BY <1>1, <1>2, <1>6, Zenon DEF LaidOut
<1>7. ASSUME NEW i, NEW j, NEW spec, TypeIs(i, j, spec)
      PROVE  TypeIs(i, j, spec)'
  BY <1>1, <1>7, Zenon DEF TypeIs
<1>8. ASSUME NEW i, NEW j, OneSign(i, j)
      PROVE  OneSign(i, j)'
  BY <1>1, <1>8, Zenon DEF OneSign
<1>9. ASSUME NEW q, NEW u, NEW i, ArgumentPart(q, u, i)
      PROVE  ArgumentPart(q, u, i)'
  BY <1>1, <1>9, Zenon DEF ArgumentPart
<1> QED
  BY <1>2, <1>3, <1>4, <1>5, <1>6, <1>7, <1>8, <1>9, Zenon

\* How a field is cut.
LEMMA SameCut ==
  ASSUME UNCHANGED input, NEW q, NEW u
  PROVE  /\ \A i, a, h, w : Cut(q, u, i, a, h, w) => Cut(q, u, i, a, h, w)'
         /\ BraceSoFar(q, u) => BraceSoFar(q, u)'
<1>1. /\ \A i : At(i)' = At(i)
      /\ \A i, j, spec : BraceSigns(i, j, spec) => BraceSigns(i, j, spec)'
      /\ \A i, j, spec : WidthIs(i, j, spec) => WidthIs(i, j, spec)'
      /\ \A i, a, h, w, spec : LaidOut(i, a, h, w, spec) => LaidOut(i, a, h, w, spec)'
      /\ \A i : ArgumentPart(q, u, i) => ArgumentPart(q, u, i)'
  BY SameText, SameBraceParts, Zenon
<1>2. ASSUME NEW i, NEW a, NEW h, NEW w, Cut(q, u, i, a, h, w)
      PROVE  Cut(q, u, i, a, h, w)'
  BY <1>1, <1>2, Zenon DEF Cut
<1>3. AtIndex(q, u) => AtIndex(q, u)'
  BY <1>1, Zenon DEF AtIndex
<1>4. AtMark(q, u) => AtMark(q, u)'
  BY <1>1, Zenon DEF AtMark
<1>5. AtSign(q, u) => AtSign(q, u)'
  BY <1>2, Zenon DEF AtSign
<1>6. AtHash(q, u) => AtHash(q, u)'
  BY <1>2, SameBraceParts, Zenon DEF AtHash
<1>7. AtWidth(q, u) => AtWidth(q, u)'
  BY <1>2, Zenon DEF AtWidth
<1>8. AtPrecision(q, u) => AtPrecision(q, u)'
  BY <1>2, Zenon DEF AtPrecision
<1>9. AtType(q, u) => AtType(q, u)'
  BY <1>2, SameBraceParts, Zenon DEF AtType
<1>10. AtClose(q, u) => AtClose(q, u)'
  BY <1>1, <1>2, SameBraceParts, Zenon DEF AtClose
<1> QED
  BY <1>2, <1>3, <1>4, <1>5, <1>6, <1>7, <1>8, <1>9, <1>10, Zenon DEF BraceSoFar

-----------------------------------------------------------------------------
(* What a field in the printf syntax means                                 *)

\* A stretch of the string has its characters.
LEMMA SrcChars ==
  ASSUME Text, NEW i \in 1..(Len(fmt) + 1), NEW j \in i..(Len(fmt) + 1)
  PROVE  Len(Src(i, j)) = j - i /\ \A k \in 1..(j - i) : Src(i, j)[k] = At(i + k - 1)
<1> DEFINE S == STRING \ {NUL}
<1>1. fmt \in Seq(S) /\ Len(fmt) \in Nat
  BY DEF Text
<1> HIDE DEF S
<1>2. /\ Len(SubSeq(fmt, i, j - 1)) = j - i
      /\ \A k \in 1..(j - i) : SubSeq(fmt, i, j - 1)[k] = fmt[i + k - 1]
  BY <1>1
<1>3. \A k \in 1..(j - i) : i + k - 1 \in 1..Len(fmt)
  BY <1>1
<1>4. \A k \in 1..(j - i) : At(i + k - 1) = fmt[i + k - 1]
  BY <1>3 DEF At
<1> QED
  BY <1>2, <1>4 DEF Src

\* A star, and a point and a star.
Star(g, w) == Src(g, w) = <<"*">>
Point(w, r) == Src(w, r) = <<".", "*">>
Ones(b) == IF b THEN 1 ELSE 0

\* What they begin with.
LEMMA StarAt ==
  ASSUME Text, NEW i \in 1..(Len(fmt) + 1), NEW j \in i..(Len(fmt) + 1)
  PROVE  /\ Star(i, j) => i < j /\ At(i) = "*"
         /\ Point(i, j) => i + 1 < j /\ At(i + 1) = "*"
<1> DEFINE n == Len(Src(i, j))
<1>1. n = j - i /\ \A k \in 1..(j - i) : Src(i, j)[k] = At(i + k - 1)
  BY SrcChars
<1>2. ASSUME Star(i, j)
      PROVE  i < j /\ At(i) = "*"
  <2> DEFINE x == <<"*">>
  <2>1. Src(i, j) = x
    BY <1>2 DEF Star
  <2>2. Len(x) = 1 /\ x[1] = "*"
    OBVIOUS
  <2> HIDE DEF x
  <2>3. n = 1
    BY <2>1, <2>2, Zenon
  <2> HIDE DEF n
  <2>4. i < j /\ 1 \in 1..(j - i) /\ i + 1 - 1 = i
    BY <1>1, <2>3
  <2>5. Src(i, j)[1] = At(i)
    BY <1>1, <2>4
  <2> QED
    BY <2>1, <2>2, <2>4, <2>5, Zenon
<1>3. ASSUME Point(i, j)
      PROVE  i + 1 < j /\ At(i + 1) = "*"
  <2> DEFINE x == <<".", "*">>
  <2>1. Src(i, j) = x
    BY <1>3 DEF Point
  <2>2. Len(x) = 2 /\ x[2] = "*"
    OBVIOUS
  <2> HIDE DEF x
  <2>3. n = 2
    BY <2>1, <2>2, Zenon
  <2> HIDE DEF n
  <2>4. i + 1 < j /\ 2 \in 1..(j - i) /\ i + 2 - 1 = i + 1
    BY <1>1, <2>3
  <2>5. Src(i, j)[2] = At(i + 1)
    BY <1>1, <2>4
  <2> QED
    BY <2>1, <2>2, <2>4, <2>5, Zenon
<1> QED
  BY <1>2, <1>3

\* A digit is no star.
LEMMA DigitNoStar ==
  ~IsDigit("*")
BY DEF IsDigit, Digits

\* The argument has a number, whose '$' is before i, or it is the next one.
Indexes(q, i) ==
  \/ i = q.field + 1 /\ q.index = AUTO
  \/ At(i - 1) = "$" /\ Means(q.field + 1, i - 1, q.index)

WidthPart(g, w, spec, u) ==
  \/ w = g /\ spec.width = 0
  \/ Means(g, w, spec.width)
  \/ Star(g, w) /\ u[1].auto /\ spec.width = Abs(Value(u[1]).num)

\* The precision is that of the last of n arguments, if it is one of an argument.
PrecisionPart(w, r, spec, u, n) ==
  \/ PrintfPrecisionIs(w, r, spec) /\ ~Point(w, r)
  \/ Point(w, r) /\ u[n].auto /\ spec.precision = Value(u[n]).num

Given(i, g) == {At(k) : k \in i..(g - 1)}
Wide(g, w, spec, u) == IF Star(g, w) THEN Value(u[1]).num ELSE spec.width
Signs(given) == UNION {FlagsOf(c) : c \in given \ {"-"}}
LeftOf(i, g, w, spec, u) == "-" \in Given(i, g) \/ Wide(g, w, spec, u) < 0

\* The layout without an argument, and with it.
Draft(i, g, w, spec, u) ==
  /\ spec.fill = IF "0" \in Given(i, g) THEN "0" ELSE " "
  /\ spec.align = IF LeftOf(i, g, w, spec, u) THEN "left" ELSE "right"
  /\ spec.flags = Signs(Given(i, g))
Final(i, g, w, q, u) == PrintfLayout(Given(i, g), LeftOf(i, g, w, q.spec, u), q.arg, q.spec)

\* The field is cut into index, flags and width, which end before i, g and w.
Sliced(q, u, i, g, w) ==
  /\ At(q.field) = "%" /\ i \in (q.field + 1)..q.s /\ g \in i..q.s /\ w \in g..q.s
  /\ \A k \in i..(g - 1) : At(k) \in Flags
  /\ At(g) # "0" /\ WidthPart(g, w, q.spec, u)

\* How the field is cut when its parts up to one were read.
OnHeader(q, u) ==
  /\ q.s = q.field + 1 /\ At(q.field) = "%" /\ u = << >> /\ q.index = AUTO
  /\ q.spec = [NoSpec EXCEPT !.align = "right"]
OnFlags(q, u) ==
  /\ At(q.field) = "%" /\ u = << >>
  /\ \E i : /\ i \in (q.field + 1)..q.s /\ Indexes(q, i) /\ Zeros(i, q.s)
            /\ q.spec.fill = IF i = q.s THEN " " ELSE "0"
  /\ q.spec.align = "right" /\ q.spec.width = 0 /\ q.spec.precision = -1
OnWidth(q, u) ==
  /\ u = << >> /\ q.spec.precision = -1 /\ q.spec.width = 0
  /\ \E i : Sliced(q, u, i, q.s, q.s) /\ Indexes(q, i) /\ Draft(i, q.s, q.s, q.spec, u)
OnPrecision(q, u) ==
  /\ q.spec.precision = -1
  /\ \E i, g : /\ Sliced(q, u, i, g, q.s) /\ Indexes(q, i) /\ Draft(i, g, q.s, q.spec, u)
               /\ Len(u) = Ones(Star(g, q.s))
OnArgument(q, u) ==
  \E i, g, w :
    /\ Sliced(q, u, i, g, w) /\ Indexes(q, i) /\ Draft(i, g, w, q.spec, u)
    /\ PrecisionPart(w, q.s, q.spec, u, Len(u))
    /\ Len(u) = Ones(Star(g, w)) + Ones(Point(w, q.s))
ArgFields == {"type", "num", "str"}
Fetched(q, u, i) ==
  /\ q.arg = Value(u[Len(u)]) /\ q.arg.num \in Int /\ DOMAIN q.arg = ArgFields
  /\ \/ i = q.field + 1 /\ u[Len(u)].auto
     \/ At(i - 1) = "$" /\ Names(q.field + 1, i - 1, u[Len(u)], 1)
OnLength(q, u) ==
  \E i, g, w :
    /\ Sliced(q, u, i, g, w) /\ Final(i, g, w, q, u)
    /\ PrecisionPart(w, q.s, q.spec, u, Len(u) - 1)
    /\ Len(u) = 1 + Ones(Star(g, w)) + Ones(Point(w, q.s)) /\ Fetched(q, u, i)

PrintfSoFar(q, u) ==
  /\ q.pc = "header" => OnHeader(q, u)
  /\ q.pc = "flags" => OnFlags(q, u)
  /\ q.pc = "width" => OnWidth(q, u)
  /\ q.pc = "precision" => OnPrecision(q, u)
  /\ q.pc = "argument" => OnArgument(q, u)
  /\ q.pc = "length" => OnLength(q, u)

PrintfGoes ==
  Fails \/ \E q : Go(q) /\ q.pc \in FieldParts /\ Behead(q) /\ PrintfSoFar(q, Own(q))

\* A step to the next part of a field.
LEMMA PrintfGoesOn ==
  ASSUME NEW q, Go(q), q.pc \in FieldParts, Behead(q), PrintfSoFar(q, Own(q))
  PROVE  PrintfGoes
BY Zenon DEF PrintfGoes

\* The parts stay so as the parser goes on.
LEMMA SlicedKept ==
  ASSUME NEW q, NEW u, NEW i, NEW g, NEW w, Sliced(q, u, i, g, w),
         NEW x, Star(g, w) => x[1] = u[1], NEW r, r.field = q.field,
         q.s \in Int, r.s \in Int, q.field \in Int, q.s <= r.s, r.spec.width = q.spec.width
  PROVE  Sliced(r, x, i, g, w)
<1>1. i \in (q.field + 1)..q.s /\ g \in i..q.s /\ w \in g..q.s
  BY Zenon DEF Sliced
<1>2. i \in (r.field + 1)..r.s /\ g \in i..r.s /\ w \in g..r.s
  BY <1>1
<1>3. WidthPart(g, w, r.spec, x)
  BY Zenon DEF Sliced, WidthPart
<1>4. At(g) # "0" /\ \A k \in i..(g - 1) : At(k) \in Flags
  BY Zenon DEF Sliced
<1>5. At(r.field) = "%"
  <2>1. At(q.field) = "%"
    BY Zenon DEF Sliced
  <2> QED
    BY <2>1, Zenon
<1> QED
  BY <1>2, <1>3, <1>4, <1>5, Zenon DEF Sliced

\* So does the layout.
LEMMA DraftKept ==
  ASSUME NEW i, NEW g, NEW w, NEW spec, NEW u, Draft(i, g, w, spec, u),
         NEW x, Star(g, w) => x[1] = u[1], NEW r, r.width = spec.width,
         r.fill = spec.fill, r.align = spec.align, r.flags = spec.flags
  PROVE  Draft(i, g, w, r, x)
<1>1. Wide(g, w, r, x) = Wide(g, w, spec, u)
  BY Zenon DEF Wide
<1> QED
  BY <1>1, Zenon DEF Draft, LeftOf

\* The specification a field in the printf syntax begins with.
LEMMA RightSays ==
  LET right == [NoSpec EXCEPT !.align = "right"]
  IN  /\ right.flags = {} /\ right.width = 0 /\ right.precision = -1 /\ right.fill = " "
      /\ right.align = "right"
BY DEF NoSpec

\* Zeros among the flags.
LEMMA GivenZeros ==
  ASSUME NEW i \in Int, NEW g \in Int, i <= g, Zeros(i, g)
  PROVE  /\ Given(i, g) = IF i = g THEN {} ELSE {"0"}
         /\ Signs(Given(i, g)) = {}
<1>1. CASE i = g
  <2>1. i..(g - 1) = {}
    BY <1>1
  <2>2. Given(i, g) = {}
    BY <2>1 DEF Given
  <2> QED
    BY <1>1, <2>2 DEF Signs
<1>2. CASE i # g
  <2>1. i \in i..(g - 1)
    BY <1>2
  <2>2. \A k \in i..(g - 1) : At(k) = "0"
    BY DEF Zeros
  <2>3. Given(i, g) = {"0"}
    <3> DEFINE S == i..(g - 1)
    <3>1. i \in S /\ \A k \in S : At(k) = "0"
      BY <2>1, <2>2
    <3> HIDE DEF S
    <3>2. {At(k) : k \in S} = {"0"}
      BY <3>1
    <3> QED
      BY <3>2 DEF Given, S
  <2>4. FlagsOf("0") = {}
    BY DEF FlagsOf
  <2>5. Signs({"0"}) = {}
    <3>1. {"0"} \ {"-"} = {"0"}
      OBVIOUS
    <3>2. (UNION {FlagsOf(c) : c \in {"0"}}) = FlagsOf("0")
      OBVIOUS
    <3> QED
      BY <2>4, <3>1, <3>2, Zenon DEF Signs
  <2> QED
    BY <1>2, <2>3, <2>5, Zenon
<1> QED
  BY <1>1, <1>2

\* A number that is not 0 has a first digit that is not.
LEMMA FirstDigit ==
  ASSUME Text, NEW i \in Nat, NEW j \in Nat, NEW n, n # 0, Means(i, j, n)
  PROVE  \E g \in i..(j - 1) : Zeros(i, g) /\ At(g) # "0" /\ IsDigit(At(g)) /\ Means(g, j, n)
<1>1. i < j /\ (\A k \in i..(j - 1) : IsDigit(At(k))) /\ n = Val(i, j) % IntWord
      /\ n \in 0..INT_MAX
  BY Zenon DEF Means
<1> DEFINE T == {k \in i..(j - 1) : At(k) # "0"}
<1>2. ~Zeros(i, j)
  <2> SUFFICES ASSUME Zeros(i, j)
               PROVE  FALSE
    OBVIOUS
  <2>1. Val(i, j) = Val(j, j) /\ Val(j, j) = 0
    BY <1>1, ValZeros, ValNext
  <2>2. 0 \in 0..(IntWord - 1) /\ IntWord \in Nat /\ 0 < IntWord /\ 0 * IntWord + 0 = 0
    BY LimitAssumption DEF IntWord
  <2>3. (0 * IntWord + 0) % IntWord = 0
    BY <2>2, DividedOnce
  <2> QED
    BY <1>1, <2>1, <2>2, <2>3, Zenon
<1>3. T # {} /\ T \in SUBSET Nat
  <2>1. PICK k \in i..(j - 1) : At(k) # "0"
    BY <1>2, Zenon DEF Zeros
  <2>2. k \in T
    BY <2>1
  <2> QED
    BY <2>2
<1>4. PICK g \in T : \A y \in T : ~(y < g)
  <2> HIDE DEF T
  <2> QED
    BY <1>3, LeastNatural
<1>5. g \in i..(j - 1) /\ At(g) # "0"
  BY <1>4
<1>6. ASSUME NEW k \in i..(g - 1)
      PROVE  At(k) = "0"
  <2>1. k \in i..(j - 1) /\ k < g
    BY <1>5
  <2> QED
    BY <1>4, <2>1
<1>7. Zeros(i, g)
  BY <1>6, Zenon DEF Zeros
<1>8. g \in Nat /\ i <= g /\ g <= j /\ g < j /\ \A k \in g..(j - 1) : k \in i..(j - 1)
  BY <1>5
<1>9. Val(i, j) = Val(g, j)
  BY <1>7, <1>8, ValZeros
<1>10. Means(g, j, n)
  BY <1>1, <1>8, <1>9, Zenon DEF Means
<1> QED
  BY <1>1, <1>5, <1>7, <1>10, Zenon

\* A number after the per cent sign.
LEMMA PrintfHeaderGoes ==
  ASSUME Reads, Behead(p), PrintfSoFar(p, Own(p)), PrintfHeader
  PROVE  PrintfGoes
<1> DEFINE u == Own(p)
           s == p.s
           c == At(s)
           number == ParseNumber(s)
           t == number.s
           none == [p EXCEPT !.pc = "flags"]
           numbered == [p EXCEPT !.s = number.s + 1, !.index = number.value, !.pc = "flags"]
           wide == [p EXCEPT !.s = number.s, !.spec.fill = IF c = "0" THEN "0" ELSE @,
                             !.spec.width = number.value,
                             !.pc = IF number.value # 0 THEN "precision" ELSE "flags"]
<1>1. /\ Text /\ s \in 1..(Len(fmt) + 1) /\ s \in Int /\ p.field \in Int
      /\ p.field \in 1..s /\ Len(fmt) \in Nat
      /\ DOMAIN p = ParserFields /\ DOMAIN p.spec = SpecFields
  BY HereInts, Zenon
<1>2. OnHeader(p, u)
  BY DEF PrintfSoFar, PrintfHeader
<1>3. s = p.field + 1 /\ At(p.field) = "%" /\ u = << >> /\ p.index = AUTO
  BY <1>2, Zenon DEF OnHeader
<1>4. /\ p.spec.flags = {} /\ p.spec.width = 0 /\ p.spec.precision = -1
      /\ p.spec.fill = " " /\ p.spec.align = "right"
  BY <1>2, RightSays, Zenon DEF OnHeader
<1>5. \/ Go(none) \/ Fail("number is too big")
      \/ IsDigit(c) /\ ~TooBig(number.value) /\ At(number.s) = "$" /\ Go(numbered)
      \/ IsDigit(c) /\ ~TooBig(number.value) /\ Go(wide)
  BY Zenon DEF PrintfHeader
<1>6. CASE Go(none)
  <2>1. /\ none.pc = "flags" /\ none.s = s /\ none.field = p.field /\ none.arg = p.arg
        /\ none.spec = p.spec /\ none.uses = p.uses /\ none.index = p.index
    BY OnlyPart, Zenon
  <2> HIDE DEF none
  <2>2. s \in s..s /\ Zeros(s, s)
    <3>1. s \in s..s /\ s..(s - 1) = {}
      BY <1>1
    <3> QED
      BY <3>1 DEF Zeros
  <2>3. Indexes(none, s)
    BY <1>3, <2>1, Zenon DEF Indexes
  <2>4. OnFlags(none, u)
    BY <1>3, <1>4, <2>1, <2>2, <2>3, Zenon DEF OnFlags
  <2>5. Behead(none) /\ Own(none) = u
    BY <2>1, OwnSame, Zenon
  <2>6. PrintfSoFar(none, u) /\ none.pc \in FieldParts
    BY <2>1, <2>4 DEF PrintfSoFar, FieldParts
  <2> QED
    BY <1>6, <2>5, <2>6, PrintfGoesOn, Zenon
<1>7. ASSUME IsDigit(c), ~TooBig(number.value)
      PROVE  /\ Means(s, t, number.value) /\ t \in (s + 1)..(Len(fmt) + 1)
             /\ number.value \in 0..INT_MAX /\ (number.value = 0 => Zeros(s, t))
  <2>1. s \in Nat
    BY <1>1
  <2> QED
    BY <1>1, <1>7, <2>1, NumberMeans, Zenon
<1>8. CASE IsDigit(c) /\ ~TooBig(number.value) /\ At(number.s) = "$" /\ Go(numbered)
  <2> DEFINE i == t + 1
  <2>1. Means(s, t, number.value) /\ t \in (s + 1)..(Len(fmt) + 1)
    BY <1>7, <1>8, Zenon
  <2> DEFINE n == number.value
  <2>2. numbered = [p EXCEPT !.s = i, !.index = n, !.pc = "flags"]
    BY Zenon
  <2>3. At(t) = "$"
    BY <1>8, Zenon
  <2> HIDE DEF t, n, numbered
  <2>4. i - 1 = t /\ i \in (p.field + 1)..i /\ Zeros(i, i)
    <3>1. i - 1 = t /\ i \in (p.field + 1)..i /\ i..(i - 1) = {}
      BY <1>1, <2>1
    <3> QED
      BY <3>1 DEF Zeros
  <2> HIDE DEF i
  <2>5. /\ numbered.pc = "flags" /\ numbered.s = i /\ numbered.field = p.field
        /\ numbered.spec = p.spec /\ numbered.uses = p.uses /\ numbered.index = n
    BY <1>1, <2>2 DEF ParserFields
  <2>6. Indexes(numbered, i)
    BY <1>3, <2>1, <2>3, <2>4, <2>5, Zenon DEF Indexes, n
  <2>7. OnFlags(numbered, u)
    BY <1>3, <1>4, <2>4, <2>5, <2>6, Zenon DEF OnFlags
  <2>8. Behead(numbered) /\ Own(numbered) = u
    BY <2>5, OwnSame, Zenon
  <2>9. PrintfSoFar(numbered, u) /\ numbered.pc \in FieldParts
    BY <2>5, <2>7 DEF PrintfSoFar, FieldParts
  <2> QED
    BY <1>8, <2>8, <2>9, PrintfGoesOn, Zenon
<1>9. CASE IsDigit(c) /\ ~TooBig(number.value) /\ Go(wide)
  <2> DEFINE n == number.value
             spec == [p.spec EXCEPT !.fill = IF c = "0" THEN "0" ELSE @, !.width = n]
  <2>1. /\ Means(s, t, n) /\ t \in (s + 1)..(Len(fmt) + 1) /\ n \in 0..INT_MAX
        /\ (n = 0 => Zeros(s, t))
    BY <1>7, <1>9, Zenon
  <2>2. wide = [p EXCEPT !.s = t, !.spec = spec,
                         !.pc = IF n # 0 THEN "precision" ELSE "flags"]
    BY Zenon
  <2> HIDE DEF t, n
  <2>3. /\ spec.flags = {} /\ spec.width = n /\ spec.precision = p.spec.precision
        /\ spec.fill = IF c = "0" THEN "0" ELSE " "
        /\ spec.align = "right"
    <3> HIDE DEF c
    <3> QED
      BY <1>1, <1>4 DEF SpecFields
  <2> HIDE DEF spec, wide
  <2>4. /\ wide.pc = IF n # 0 THEN "precision" ELSE "flags"
        /\ wide.s = t /\ wide.field = p.field /\ wide.spec = spec
        /\ wide.uses = p.uses /\ wide.index = p.index
    BY <1>1, <2>2 DEF ParserFields
  <2>5. Behead(wide) /\ Own(wide) = u
    BY <2>4, OwnSame, Zenon
  <2>6. /\ s \in (p.field + 1)..t /\ s # t /\ t \in Nat /\ s \in Nat /\ s \in s..(t - 1)
        /\ s..(s - 1) = {} /\ s <= t /\ t \in t..t
    <3>1. s = p.field + 1
      BY <1>3, Zenon
    <3> QED
      BY <1>1, <2>1, <3>1
  <2>7. Indexes(wide, s)
    BY <1>3, <2>4, Zenon DEF Indexes
  <2>8. CASE n = 0
    <3>1. Zeros(s, t) /\ c = "0"
      BY <2>1, <2>6, <2>8, Zenon DEF Zeros
    <3>2. OnFlags(wide, u)
      BY <1>3, <1>4, <2>3, <2>4, <2>6, <2>7, <2>8, <3>1, Zenon DEF OnFlags
    <3>3. PrintfSoFar(wide, u) /\ wide.pc \in FieldParts
      BY <2>4, <2>8, <3>2 DEF PrintfSoFar, FieldParts
    <3> QED
      BY <1>9, <2>5, <3>3, PrintfGoesOn, Zenon
  <2>9. CASE n # 0
    <3>1. PICK g \in s..(t - 1) : /\ Zeros(s, g) /\ At(g) # "0" /\ IsDigit(At(g))
                                  /\ Means(g, t, n)
      BY <1>1, <2>1, <2>6, <2>9, FirstDigit
    <3>2. /\ g \in s..t /\ t \in g..t /\ g \in Int /\ s <= g
          /\ g \in 1..(Len(fmt) + 1) /\ t \in g..(Len(fmt) + 1)
      BY <1>1, <2>1, <2>6
    <3>3. /\ Given(s, g) = IF s = g THEN {} ELSE {"0"}
          /\ Signs(Given(s, g)) = {}
      BY <1>1, <3>1, <3>2, GivenZeros, Zenon
    <3>4. \A k \in s..(g - 1) : At(k) \in Flags
      <4>1. "0" \in Flags
        BY DEF Flags
      <4> QED
        BY <3>1, <4>1, Zenon DEF Zeros
    <3>5. ~Star(g, t)
      BY <1>1, <3>1, <3>2, StarAt, DigitNoStar, Zenon
    <3>6. Sliced(wide, u, s, g, t)
      <4>1. WidthPart(g, t, wide.spec, u)
        BY <2>3, <2>4, <3>1, Zenon DEF WidthPart
      <4>2. At(wide.field) = "%"
        BY <1>3, <2>4, Zenon
      <4>3. s \in (wide.field + 1)..wide.s /\ g \in s..wide.s /\ t \in g..wide.s
        BY <2>4, <2>6, <3>2, Zenon
      <4>4. At(g) # "0"
        BY <3>1, Zenon
      <4> QED
        BY <3>4, <4>1, <4>2, <4>3, <4>4, Zenon DEF Sliced
    <3>7. c = "0" <=> s # g
      <4>1. s # g => s \in s..(g - 1)
        BY <1>1, <3>2
      <4> QED
        BY <3>1, <4>1, Zenon DEF Zeros
    <3>8. Draft(s, g, t, spec, u)
      <4>1. Wide(g, t, spec, u) = n
        BY <2>3, <3>5, Zenon DEF Wide
      <4>2. ~(n < 0)
        BY <2>1, LimitAssumption
      <4>3. "-" \notin Given(s, g)
        BY <3>3
      <4>4. ~LeftOf(s, g, t, spec, u)
        BY <4>1, <4>2, <4>3, Zenon DEF LeftOf
      <4>5. "0" \in Given(s, g) <=> s # g
        BY <3>3, Zenon
      <4>6. spec.fill = IF "0" \in Given(s, g) THEN "0" ELSE " "
        BY <2>3, <3>7, <4>5, Zenon
      <4> QED
        BY <2>3, <3>3, <4>4, <4>6, Zenon DEF Draft
    <3>9. Len(u) = Ones(Star(g, t))
      <4>1. u = << >>
        BY <1>3, Zenon
      <4>2. Len(u) = 0
        BY <4>1
      <4> QED
        BY <3>5, <4>2, Zenon DEF Ones
    <3>10. OnPrecision(wide, u)
      BY <1>4, <2>3, <2>4, <2>7, <3>6, <3>8, <3>9, Zenon DEF OnPrecision
    <3>11. PrintfSoFar(wide, u) /\ wide.pc \in FieldParts
      BY <2>4, <2>9, <3>10 DEF PrintfSoFar, FieldParts
    <3> QED
      BY <1>9, <2>5, <3>11, PrintfGoesOn, Zenon
  <2> QED
    BY <2>8, <2>9
<1>10. CASE Fail("number is too big")
  BY <1>10 DEF PrintfGoes, Fails
<1> QED
  BY <1>5, <1>6, <1>8, <1>9, <1>10, Zenon

\* The flags that are set are those of the signs.
LEMMA SignsAre ==
  ASSUME NEW given, given \subseteq Flags
  PROVE  Signs(given) = (IF "+" \in given THEN {"SIGN", "PLUS"} ELSE {})
                 \cup (IF " " \in given THEN {"SIGN"} ELSE {})
                 \cup (IF "#" \in given THEN {"HASH"} ELSE {})
<1>1. /\ FlagsOf("+") = {"SIGN", "PLUS"} /\ FlagsOf(" ") = {"SIGN"} /\ FlagsOf("#") = {"HASH"}
      /\ FlagsOf("0") = {}
  BY DEF FlagsOf
<1>2. \A c \in given : c = "-" \/ c = "+" \/ c = "0" \/ c = " " \/ c = "#"
  BY DEF Flags
<1>3. \A x : x \in Signs(given) <=> \E c \in given : c # "-" /\ x \in FlagsOf(c)
  BY DEF Signs
<1>4. \A x : x \in Signs(given) <=> \/ "+" \in given /\ x \in {"SIGN", "PLUS"}
                                    \/ " " \in given /\ x \in {"SIGN"}
                                    \/ "#" \in given /\ x \in {"HASH"}
  <2>1. "+" # "-" /\ " " # "-" /\ "#" # "-"
    OBVIOUS
  <2>2. ASSUME NEW x, x \in Signs(given)
        PROVE  \/ "+" \in given /\ x \in {"SIGN", "PLUS"}
               \/ " " \in given /\ x \in {"SIGN"}
               \/ "#" \in given /\ x \in {"HASH"}
    <3>1. PICK c \in given : c # "-" /\ x \in FlagsOf(c)
      BY <1>3, <2>2, Zenon
    <3>2. c = "+" \/ c = " " \/ c = "#" \/ c = "0"
      BY <1>2, <3>1, Zenon
    <3>3. x \notin {}
      OBVIOUS
    <3> QED
      BY <1>1, <3>1, <3>2, <3>3, Zenon
  <2>3. ASSUME NEW x, "+" \in given, x \in {"SIGN", "PLUS"}
        PROVE  x \in Signs(given)
    BY <1>1, <1>3, <2>1, <2>3, Zenon
  <2>4. ASSUME NEW x, " " \in given, x \in {"SIGN"}
        PROVE  x \in Signs(given)
    BY <1>1, <1>3, <2>1, <2>4, Zenon
  <2>5. ASSUME NEW x, "#" \in given, x \in {"HASH"}
        PROVE  x \in Signs(given)
    BY <1>1, <1>3, <2>1, <2>5, Zenon
  <2> QED
    BY <2>2, <2>3, <2>4, <2>5, Zenon
<1> QED
  BY <1>4

\* All flags of a field: the zeros at its beginning and those behind them.
LEMMA GivenAll ==
  ASSUME NEW i \in Int, NEW s \in Int, NEW g \in Int, i <= s, s <= g, Zeros(i, s),
         \A k \in s..(g - 1) : At(k) \in Flags
  PROVE  /\ \A k \in i..(g - 1) : At(k) \in Flags
         /\ \A c : c \in Given(i, g) <=> c \in Given(s, g) \/ (i # s /\ c = "0")
<1>1. "0" \in Flags
  BY DEF Flags
<1>2. ASSUME NEW k \in i..(g - 1)
      PROVE  k \in s..(g - 1) \/ k \in i..(s - 1)
  OBVIOUS
<1>3. \A k \in i..(g - 1) : At(k) \in Flags
  BY <1>1, <1>2, Zenon DEF Zeros
<1>4. ASSUME NEW c, c \in Given(i, g)
      PROVE  c \in Given(s, g) \/ (i # s /\ c = "0")
  <2>1. PICK k \in i..(g - 1) : c = At(k)
    BY <1>4, Zenon DEF Given
  <2>2. CASE k \in s..(g - 1)
    BY <2>1, <2>2, Zenon DEF Given
  <2>3. CASE k \in i..(s - 1)
    <3>1. i # s
      BY <2>3
    <3> QED
      BY <2>1, <2>3, <3>1, Zenon DEF Zeros
  <2> QED
    BY <1>2, <2>2, <2>3, Zenon
<1>5. ASSUME NEW c, c \in Given(s, g)
      PROVE  c \in Given(i, g)
  <2>1. PICK k \in s..(g - 1) : c = At(k)
    BY <1>5, Zenon DEF Given
  <2>2. k \in i..(g - 1)
    BY <2>1
  <2> QED
    BY <2>1, <2>2, Zenon DEF Given
<1>6. ASSUME i # s
      PROVE  "0" \in Given(i, g)
  <2>1. i \in i..(g - 1) /\ i \in i..(s - 1)
    BY <1>6
  <2>2. At(i) = "0"
    BY <2>1, Zenon DEF Zeros
  <2> QED
    BY <2>1, <2>2, Zenon DEF Given
<1> QED
  BY <1>3, <1>4, <1>5, <1>6, Zenon

\* The flags.
LEMMA PrintfFlagsGoes ==
  ASSUME Reads, Behead(p), PrintfSoFar(p, Own(p)), PrintfFlags
  PROVE  PrintfGoes
<1> DEFINE u == Own(p)
           s == p.s
           g == FlagsEnd
           given == Given(s, g)
           q == Flagged(given)
<1>1. /\ Text /\ s \in 1..(Len(fmt) + 1) /\ s \in Int /\ p.field \in Int
      /\ p.field \in 1..s /\ Len(fmt) \in Nat
      /\ DOMAIN p = ParserFields /\ DOMAIN p.spec = SpecFields
  BY HereInts, Zenon
<1>2. OnFlags(p, u)
  BY DEF PrintfSoFar, PrintfFlags
<1>3. PICK i : /\ i \in (p.field + 1)..s /\ Indexes(p, i) /\ Zeros(i, s)
               /\ p.spec.fill = IF i = s THEN " " ELSE "0"
  BY <1>2, Zenon DEF OnFlags
<1>4. /\ At(p.field) = "%" /\ u = << >> /\ p.spec.align = "right"
      /\ p.spec.width = 0 /\ p.spec.precision = -1
  BY <1>2, Zenon DEF OnFlags
<1>5. Go(q)
  BY Zenon DEF PrintfFlags, Given
<1>6. /\ g \in s..(Len(fmt) + 1) /\ At(g) \notin Flags
      /\ \A k \in s..(g - 1) : At(k) \in Flags
  BY FlagsEndThere
<1>30. i \in (p.field + 1)..s
  BY <1>3, Zenon
<1>31. g \in s..(Len(fmt) + 1)
  BY <1>6, Zenon
<1>7. i \in Int /\ g \in Int /\ i <= s /\ s <= g
  <2> HIDE DEF g
  <2> QED
    BY <1>1, <1>30, <1>31
<1>8. /\ \A k \in i..(g - 1) : At(k) \in Flags
      /\ \A c : c \in Given(i, g) <=> c \in given \/ (i # s /\ c = "0")
  <2>1. Zeros(i, s)
    BY <1>3, Zenon
  <2>2. \A k \in s..(g - 1) : At(k) \in Flags
    BY <1>6, Zenon
  <2>3. i \in Int
    BY <1>7, Zenon
  <2>4. g \in Int
    BY <1>7, Zenon
  <2>5. i <= s /\ s <= g
    BY <1>7, Zenon
  <2>6. s \in Int
    BY <1>1, Zenon
  <2> HIDE DEF g, s
  <2>7. ASSUME NEW a \in Int, NEW b \in Int, NEW c \in Int, a <= b, b <= c, Zeros(a, b),
               \A k \in b..(c - 1) : At(k) \in Flags
        PROVE  /\ \A k \in a..(c - 1) : At(k) \in Flags
               /\ \A d : d \in Given(a, c) <=> d \in Given(b, c) \/ (a # b /\ d = "0")
    BY <2>7, GivenAll, Zenon
  <2> QED
    BY <2>1, <2>2, <2>3, <2>4, <2>5, <2>6, <2>7, Zenon DEF given
<1> DEFINE spec == [p.spec EXCEPT
             !.align = IF "-" \in given THEN "left" ELSE @,
             !.fill  = IF "0" \in given THEN "0" ELSE @,
             !.flags = (IF "+" \in given THEN {"SIGN", "PLUS"} ELSE {})
                 \cup (IF " " \in given THEN {"SIGN"} ELSE {})
                 \cup (IF "#" \in given THEN {"HASH"} ELSE {})]
<1>9. q = [p EXCEPT !.spec = spec, !.s = g, !.pc = "width"]
  BY Zenon DEF Flagged
<1> HIDE DEF g
<1>10. given \subseteq Flags
  BY <1>6, Zenon DEF Given
<1> HIDE DEF given
<1>11. /\ spec.width = p.spec.width /\ spec.precision = p.spec.precision
       /\ spec.align = IF "-" \in given THEN "left" ELSE p.spec.align
       /\ spec.fill = IF "0" \in given THEN "0" ELSE p.spec.fill
       /\ spec.flags = (IF "+" \in given THEN {"SIGN", "PLUS"} ELSE {})
                 \cup (IF " " \in given THEN {"SIGN"} ELSE {})
                 \cup (IF "#" \in given THEN {"HASH"} ELSE {})
  BY <1>1 DEF SpecFields
<1> HIDE DEF spec, q
<1>12. /\ q.pc = "width" /\ q.s = g /\ q.field = p.field /\ q.spec = spec
       /\ q.uses = p.uses /\ q.index = p.index
  BY <1>1, <1>9 DEF ParserFields
<1>13. Behead(q) /\ Own(q) = u
  BY <1>12, OwnSame, Zenon
<1>14. spec.flags = Signs(given)
  BY <1>10, <1>11, SignsAre, Zenon
<1>15. Signs(Given(i, g)) = Signs(given)
  <2>1. \A c : c \in Given(i, g) \ {"-"} <=> c \in given \ {"-"} \/ (i # s /\ c = "0")
    <3>1. "0" # "-"
      OBVIOUS
    <3>2. \A c : c \in Given(i, g) <=> c \in given \/ (i # s /\ c = "0")
      BY <1>8, Zenon
    <3> QED
      BY <3>1, <3>2
  <2>2. FlagsOf("0") = {}
    BY DEF FlagsOf
  <2>3. \A x : x \in Signs(Given(i, g)) <=> \E c \in Given(i, g) \ {"-"} : x \in FlagsOf(c)
    BY DEF Signs
  <2>4. \A x : x \in Signs(given) <=> \E c \in given \ {"-"} : x \in FlagsOf(c)
    BY DEF Signs
  <2>5. \A x : x \notin FlagsOf("0")
    BY <2>2
  <2>6. \A x : x \in Signs(Given(i, g)) <=> x \in Signs(given)
    BY <2>1, <2>3, <2>4, <2>5, Zenon
  <2> QED
    BY <2>6
<1>16. spec.fill = IF "0" \in Given(i, g) THEN "0" ELSE " "
  BY <1>3, <1>8, <1>11, Zenon
<1>17. "-" \in Given(i, g) <=> "-" \in given
  <2>1. "-" # "0"
    OBVIOUS
  <2> QED
    BY <1>8, <2>1, Zenon
<1>18. g \in 1..(Len(fmt) + 1) /\ g \in g..(Len(fmt) + 1) /\ ~(g < g) /\ g \in g..g
       /\ i \in (p.field + 1)..g /\ g \in i..g /\ ~(0 < 0)
  BY <1>1, <1>30, <1>31, <1>7
<1>19. ~Star(g, g)
  BY <1>1, <1>18, StarAt, Zenon
<1>20. Draft(i, g, g, spec, u)
  <2>1. Wide(g, g, spec, u) = 0
    BY <1>4, <1>11, <1>19, Zenon DEF Wide
  <2>2. LeftOf(i, g, g, spec, u) <=> "-" \in given
    BY <1>17, <1>18, <2>1, Zenon DEF LeftOf
  <2>3. spec.align = IF LeftOf(i, g, g, spec, u) THEN "left" ELSE "right"
    BY <1>4, <1>11, <2>2, Zenon
  <2> QED
    BY <1>14, <1>15, <1>16, <2>3, Zenon DEF Draft
<1>21. Sliced(q, u, i, g, g)
  <2>1. WidthPart(g, g, q.spec, u)
    BY <1>4, <1>11, <1>12, Zenon DEF WidthPart
  <2>2. At(q.field) = "%"
    BY <1>4, <1>12, Zenon
  <2>3. i \in (q.field + 1)..q.s /\ g \in i..q.s /\ g \in g..q.s
    BY <1>12, <1>18, Zenon
  <2>4. At(g) # "0"
    <3>1. "0" \in Flags
      BY DEF Flags
    <3> QED
      BY <1>6, <3>1, Zenon
  <2> QED
    BY <1>8, <2>1, <2>2, <2>3, <2>4, Zenon DEF Sliced
<1>22. Indexes(q, i)
  BY <1>3, <1>12, Zenon DEF Indexes
<1>23. OnWidth(q, u)
  BY <1>4, <1>11, <1>12, <1>20, <1>21, <1>22, Zenon DEF OnWidth
<1>24. PrintfSoFar(q, u) /\ q.pc \in FieldParts
  BY <1>12, <1>23 DEF PrintfSoFar, FieldParts
<1> QED
  BY <1>5, <1>13, <1>24, PrintfGoesOn, Zenon

\* What looking for the next argument returns, when it does not throw.
LEMMA LookNext ==
  ASSUME IInv, NEW s, Clean(Look(AUTO, s))
  PROVE  LET look == Look(AUTO, s)
         IN  look.use.auto = TRUE /\ Value(look.use) = look.arg
<1> DEFINE look == NextArg
           other == [look EXCEPT !.error = "invalid format string"]
<1>1. Look(AUTO, s) = IF look.error # "" /\ At(s) = NUL THEN other ELSE look
  BY Zenon DEF Look
<1>2. DOMAIN look = {"arg", "next", "use", "error"}
  BY DEF NextArg, Found, Switched
<1> HIDE DEF look
<1>3. other.error # ""
  BY <1>2
<1> HIDE DEF other
<1>4. Look(AUTO, s).error = ""
  BY Zenon DEF Clean
<1>5. Look(AUTO, s) = look
  BY <1>1, <1>3, <1>4, Zenon
<1>6. look.error = ""
  BY <1>4, <1>5, Zenon
<1>7. look.use.auto = TRUE /\ Value(look.use) = look.arg
  BY <1>6, NextArgValue, Zenon DEF look
<1> QED
  BY <1>5, <1>7, Zenon

\* An argument that is less than the first wraps, and is not there.
LEMMA NumberBefore ==
  ASSUME NEW index \in 0..INT_MAX
  PROVE  LET n == (index - 1) % IntWord
         IN  n \in Nat /\ (n < MAX_ARGS => n + 1 = index)
<1>1. UINT_MAX \in Nat /\ INT_MAX \in 0..UINT_MAX /\ MAX_ARGS \in Nat /\ MAX_ARGS <= UINT_MAX
  BY LimitAssumption, UnsignedAssumption
<1> DEFINE w == UINT_MAX + 1
<1>2. w \in Nat \ {0}
  BY <1>1
<1>3. CASE index = 0
  <2>1. w - 1 \in 0..(w - 1) /\ (-1) * w + (w - 1) = index - 1 /\ -1 \in Int
    BY <1>1, <1>3
  <2> HIDE DEF w
  <2>2. ((-1) * w + (w - 1)) % w = w - 1
    BY <1>2, <2>1, DividedOnce
  <2>3. (index - 1) % w = w - 1
    BY <2>1, <2>2, Zenon
  <2>4. w - 1 \in Nat /\ ~(w - 1 < MAX_ARGS)
    BY <1>1 DEF w
  <2> QED
    BY <2>3, <2>4, Zenon DEF IntWord, w
<1>4. CASE index # 0
  <2>1. index - 1 \in 0..(w - 1) /\ 0 * w + (index - 1) = index - 1 /\ index - 1 + 1 = index
        /\ index - 1 \in Nat
    BY <1>1, <1>4
  <2> HIDE DEF w
  <2>2. (0 * w + (index - 1)) % w = index - 1
    BY <1>2, <2>1, DividedOnce
  <2>3. (index - 1) % w = index - 1
    BY <2>1, <2>2, Zenon
  <2> QED
    BY <2>1, <2>3, Zenon DEF IntWord, w
<1> QED
  BY <1>3, <1>4

\* What looking for a numbered argument returns, when it does not throw.
LEMMA LookNumbered ==
  ASSUME Passed, NEW s, NEW index \in 0..INT_MAX, Clean(Look(index, s))
  PROVE  LET look == Look(index, s)
         IN  /\ look.use.auto = FALSE /\ look.use.index + 1 = index
             /\ Value(look.use) = look.arg /\ look.arg.num \in Int
<1> DEFINE n == (index - 1) % IntWord
           look == GetArg(n)
           other == [look EXCEPT !.error = "invalid format string"]
<1>1. Look(index, s) = IF look.error # "" /\ At(s) = NUL THEN other ELSE look
  <2>1. index # AUTO
    BY LimitAssumption DEF AUTO
  <2> QED
    BY <2>1, Zenon DEF Look
<1>2. n \in Nat /\ (n < MAX_ARGS => n + 1 = index)
  BY NumberBefore, Zenon
<1> HIDE DEF n
<1>3. DOMAIN look = {"arg", "next", "use", "error"}
  BY DEF GetArg, Found, Switched
<1>4. /\ look.error = "" => /\ look.use.auto = FALSE /\ look.use.index = n
                            /\ n < MAX_ARGS /\ Value(look.use) = look.arg
      /\ look.arg.num \in Int
  <2>1. n \in Int
    BY <1>2
  <2> QED
    BY <1>2, <2>1, GetArgValue, GetArgNumber, Zenon
<1> HIDE DEF look
<1>5. other.error # ""
  BY <1>3
<1> HIDE DEF other
<1>6. Look(index, s).error = ""
  BY Zenon DEF Clean
<1>7. Look(index, s) = look
  BY <1>1, <1>5, <1>6, Zenon
<1> QED
  BY <1>2, <1>4, <1>6, <1>7, Zenon

\* Where there is no star yet, only the flags align.
LEMMA DraftBare ==
  ASSUME Text, NEW s \in 1..(Len(fmt) + 1), NEW i, NEW spec, NEW u,
         Draft(i, s, s, spec, u), spec.width = 0
  PROVE  ~Star(s, s) /\ spec.align = IF "-" \in Given(i, s) THEN "left" ELSE "right"
<1>1. s \in s..(Len(fmt) + 1) /\ ~(s < s) /\ ~(0 < 0)
  BY DEF Text
<1>2. ~Star(s, s)
  BY <1>1, StarAt, Zenon
<1>3. Wide(s, s, spec, u) = 0
  BY <1>2, Zenon DEF Wide
<1> QED
  BY <1>1, <1>2, <1>3, Zenon DEF Draft, LeftOf

\* The layout with a width behind the flags.
LEMMA DraftWide ==
  ASSUME NEW i, NEW s, NEW t, NEW spec, NEW u, Draft(i, s, s, spec, u),
         spec.align = IF "-" \in Given(i, s) THEN "left" ELSE "right",
         NEW x, NEW r, r.fill = spec.fill, r.flags = spec.flags,
         r.align = IF Wide(s, t, r, x) < 0 THEN "left" ELSE spec.align
  PROVE  Draft(i, s, t, r, x)
<1>1. r.align = IF LeftOf(i, s, t, r, x) THEN "left" ELSE "right"
  BY Zenon DEF LeftOf
<1> QED
  BY <1>1, Zenon DEF Draft

\* The cuts with a width behind the flags.
LEMMA SlicedWide ==
  ASSUME NEW q, NEW u, NEW i, NEW s \in Int, q.s = s, Sliced(q, u, i, s, s),
         NEW r, NEW x, NEW t \in Int, r.s = t, r.field = q.field, s <= t, q.field \in Int,
         WidthPart(s, t, r.spec, x)
  PROVE  Sliced(r, x, i, s, t)
<1>1. i \in (q.field + 1)..s /\ s \in i..s
  BY Zenon DEF Sliced
<1>2. i \in (q.field + 1)..t /\ s \in i..t /\ t \in s..t
  BY <1>1
<1>3. At(s) # "0" /\ \A k \in i..(s - 1) : At(k) \in Flags
  BY Zenon DEF Sliced
<1>4. At(r.field) = "%"
  <2>1. At(q.field) = "%"
    BY Zenon DEF Sliced
  <2> QED
    BY <2>1, Zenon
<1>5. i \in (r.field + 1)..r.s /\ s \in i..r.s /\ t \in s..r.s
  BY <1>2, Zenon
<1> QED
  BY <1>3, <1>4, <1>5, Zenon DEF Sliced

\* An argument that is looked for has its fields, also where there is none.
LEMMA ArgAtFields ==
  ASSUME Passed, NEW n \in Nat
  PROVE  DOMAIN ArgAt(n) = ArgFields
<1>1. CASE n < MAX_ARGS /\ n < Len(args)
  <2>1. n + 1 \in 1..Len(args)
    BY <1>1 DEF Passed
  <2> DEFINE A == [type : STRING, num : Int, str : Seq(STRING)]
  <2>2. args \in Seq(A)
    BY DEF Passed
  <2>3. \A x \in A : DOMAIN x = ArgFields
    BY DEF ArgFields
  <2> HIDE DEF A
  <2>4. args[n + 1] \in A
    BY <2>1, <2>2
  <2> QED
    BY <1>1, <2>3, <2>4 DEF ArgAt
<1>2. CASE ~(n < MAX_ARGS /\ n < Len(args))
  <2>1. DOMAIN NoArg = ArgFields
    BY DEF NoArg, ArgFields
  <2> QED
    BY <1>2, <2>1, Zenon DEF ArgAt
<1> QED
  BY <1>1, <1>2

\* So has the one the parser gets.
LEMMA LookFields ==
  ASSUME IInv, Passed, NEW s, NEW index \in -1..INT_MAX
  PROVE  DOMAIN Look(index, s).arg = ArgFields
<1>1. DOMAIN NoArg = ArgFields
  BY DEF NoArg, ArgFields
<1>2. Switched.arg = NoArg
  BY DEF Switched
<1>3. \A n, next, auto : Found(n, next, auto).arg = ArgAt(n)
  BY DEF Found
<1>4. DOMAIN NextArg.arg = ArgFields
  <2>1. p.next_arg_index >= 0 => p.next_arg_index \in Nat
    BY NextIndexInt
  <2> QED
    BY <1>1, <1>2, <1>3, <2>1, ArgAtFields, Zenon DEF NextArg
<1>5. \A n \in Nat : DOMAIN GetArg(n).arg = ArgFields
  BY <1>1, <1>2, <1>3, ArgAtFields, Zenon DEF GetArg
<1> DEFINE n == (index - 1) % IntWord
           look == IF index = AUTO THEN NextArg ELSE GetArg(n)
           other == [look EXCEPT !.error = "invalid format string"]
<1>6. Look(index, s) = IF look.error # "" /\ At(s) = NUL THEN other ELSE look
  BY Zenon DEF Look
<1>7. index # AUTO => n \in Nat
  <2>1. index # AUTO => index \in 0..INT_MAX
    BY LimitAssumption DEF AUTO
  <2> QED
    BY <2>1, NumberBefore, Zenon
<1>8. DOMAIN look.arg = ArgFields
  BY <1>4, <1>5, <1>7, Zenon
<1>9. DOMAIN look = {"arg", "next", "use", "error"}
  <2>1. \A m, next, auto : DOMAIN Found(m, next, auto) = {"arg", "next", "use", "error"}
    BY DEF Found
  <2>2. DOMAIN Switched = {"arg", "next", "use", "error"}
    BY DEF Switched
  <2> QED
    BY <2>1, <2>2, Zenon DEF NextArg, GetArg
<1> HIDE DEF look
<1>10. other.arg = look.arg
  BY <1>9
<1> HIDE DEF other
<1> QED
  BY <1>6, <1>8, <1>10, Zenon

\* The width.
LEMMA PrintfWidthGoes ==
  ASSUME Reads, IInv, Behead(p), PrintfSoFar(p, Own(p)), PrintfWidth
  PROVE  PrintfGoes
<1> DEFINE u == Own(p)
           s == p.s
           number == ParseNumber(s)
           look == Look(AUTO, s + 1)
           n == look.arg.num
           none == [p EXCEPT !.pc = "precision"]
           given == [p EXCEPT !.spec.width = number.value, !.s = number.s,
                              !.pc = "precision"]
           taken == [Took(look) EXCEPT
                       !.spec.width = Abs(n),
                       !.spec.align = IF n < 0 THEN "left" ELSE @,
                       !.s = @ + 1, !.pc = "precision"]
<1>1. /\ Text /\ s \in 1..(Len(fmt) + 1) /\ s \in Int /\ p.field \in Int
      /\ p.field \in 1..s /\ Len(fmt) \in Nat
      /\ DOMAIN p = ParserFields /\ DOMAIN p.spec = SpecFields
  BY HereInts, Zenon
<1>2. OnWidth(p, u)
  BY DEF PrintfSoFar, PrintfWidth
<1>3. PICK i : Sliced(p, u, i, s, s) /\ Indexes(p, i) /\ Draft(i, s, s, p.spec, u)
  BY <1>2, Zenon DEF OnWidth
<1>4. u = << >> /\ p.spec.precision = -1 /\ p.spec.width = 0
  BY <1>2, Zenon DEF OnWidth
<1>5. Len(u) = 0
  <2>1. u = << >>
    BY <1>4, Zenon
  <2> QED
    BY <2>1
<1>6. ~Star(s, s) /\ p.spec.align = IF "-" \in Given(i, s) THEN "left" ELSE "right"
  BY <1>1, <1>3, <1>4, DraftBare, Zenon
<1>7. \/ Go(none) \/ Fails
      \/ IsDigit(At(s)) /\ ~TooBig(number.value) /\ Go(given)
      \/ At(s) = "*" /\ Clean(look) /\ Go(taken)
  <2>1. \/ Go(none) \/ Fail("number is too big") \/ Fail("width is not integer")
        \/ look.error # "" /\ Fail(look.error)
        \/ IsDigit(At(s)) /\ ~TooBig(number.value) /\ Go(given)
        \/ At(s) = "*" /\ Clean(look) /\ Go(taken)
    BY Zenon DEF PrintfWidth, Clean
  <2> HIDE DEF number, look, none, given, taken
  <2> QED
    BY <2>1 DEF Fails
<1>8. CASE Go(none)
  <2>1. /\ none.pc = "precision" /\ none.s = s /\ none.field = p.field
        /\ none.spec = p.spec /\ none.uses = p.uses /\ none.index = p.index
    BY OnlyPart, Zenon
  <2> HIDE DEF none
  <2>2. Sliced(none, u, i, s, s)
    <3>1. s <= s
      BY <1>1
    <3>2. /\ none.field = p.field /\ none.s \in Int /\ p.s <= none.s
          /\ none.spec.width = p.spec.width
      BY <1>1, <2>1, <3>1, Zenon
    <3> QED
      BY <1>1, <1>3, <3>2, SlicedKept
  <2>3. Len(u) = Ones(Star(s, s))
    BY <1>5, <1>6, Zenon DEF Ones
  <2>4. Indexes(none, i)
    BY <1>3, <2>1, Zenon DEF Indexes
  <2>5. OnPrecision(none, u)
    BY <1>3, <1>4, <2>1, <2>2, <2>3, <2>4, Zenon DEF OnPrecision
  <2>6. Behead(none) /\ Own(none) = u
    BY <2>1, OwnSame, Zenon
  <2>7. PrintfSoFar(none, u) /\ none.pc \in FieldParts
    BY <2>1, <2>5 DEF PrintfSoFar, FieldParts
  <2> QED
    BY <1>8, <2>6, <2>7, PrintfGoesOn, Zenon
<1>9. CASE IsDigit(At(s)) /\ ~TooBig(number.value) /\ Go(given)
  <2> DEFINE t == number.s
             v == number.value
             spec == [p.spec EXCEPT !.width = v]
  <2>1. Means(s, t, v) /\ t \in (s + 1)..(Len(fmt) + 1) /\ v \in 0..INT_MAX
    <3>1. s \in Nat
      BY <1>1
    <3> QED
      BY <1>1, <1>9, <3>1, NumberMeans, Zenon
  <2>2. given = [p EXCEPT !.spec = spec, !.s = t, !.pc = "precision"]
    BY Zenon
  <2> HIDE DEF t, v
  <2>3. /\ spec.flags = p.spec.flags /\ spec.width = v /\ spec.precision = p.spec.precision
        /\ spec.fill = p.spec.fill /\ spec.align = p.spec.align
    BY <1>1 DEF SpecFields
  <2> HIDE DEF spec, given
  <2>4. /\ given.pc = "precision" /\ given.s = t /\ given.field = p.field
        /\ given.spec = spec /\ given.uses = p.uses /\ given.index = p.index
    BY <1>1, <2>2 DEF ParserFields
  <2>5. t \in Int /\ s <= t /\ t \in s..(Len(fmt) + 1) /\ ~(v < 0)
    BY <1>1, <2>1, LimitAssumption
  <2>6. ~Star(s, t)
    BY <1>1, <1>9, <2>5, StarAt, DigitNoStar, Zenon
  <2>7. Sliced(given, u, i, s, t)
    <3>1. WidthPart(s, t, given.spec, u)
      BY <2>1, <2>3, <2>4, Zenon DEF WidthPart
    <3> QED
      BY <1>1, <1>3, <2>4, <2>5, <3>1, SlicedWide
  <2>8. Draft(i, s, t, spec, u)
    <3>1. Wide(s, t, spec, u) = v
      BY <2>3, <2>6, Zenon DEF Wide
    <3>2. spec.align = IF Wide(s, t, spec, u) < 0 THEN "left" ELSE p.spec.align
      BY <2>3, <2>5, <3>1, Zenon
    <3> QED
      BY <1>3, <1>6, <2>3, <3>2, DraftWide, Zenon
  <2>9. Len(u) = Ones(Star(s, t))
    BY <1>5, <2>6, Zenon DEF Ones
  <2>10. Indexes(given, i)
    BY <1>3, <2>4, Zenon DEF Indexes
  <2>11. OnPrecision(given, u)
    BY <1>4, <2>3, <2>4, <2>7, <2>8, <2>9, <2>10, Zenon DEF OnPrecision
  <2>12. Behead(given) /\ Own(given) = u
    BY <2>4, OwnSame, Zenon
  <2>13. PrintfSoFar(given, u) /\ given.pc \in FieldParts
    BY <2>4, <2>11 DEF PrintfSoFar, FieldParts
  <2> QED
    BY <1>9, <2>12, <2>13, PrintfGoesOn, Zenon
<1>10. CASE At(s) = "*" /\ Clean(look) /\ Go(taken)
  <2> DEFINE t == s + 1
             took == Took(look)
             wide == Abs(n)
             align == IF n < 0 THEN "left" ELSE p.spec.align
             spec == [p.spec EXCEPT !.width = wide, !.align = align]
             x == Own(taken)
  <2>1. s \in 1..Len(fmt)
    <3>1. "*" # NUL
      BY DEF NUL
    <3> QED
      BY <1>10, <3>1, HereInts, Zenon
  <2>2. Star(s, t)
    BY <1>1, <1>10, <2>1, SrcShort, Zenon DEF Star
  <2>3. look.use.auto = TRUE /\ Value(look.use) = look.arg
    BY <1>10, LookNext, Zenon
  <2>4. /\ DOMAIN took = ParserFields /\ took.uses = Append(p.uses, look.use)
        /\ took.field = p.field /\ took.spec = p.spec /\ took.index = p.index
        /\ took.s = s
    <3>1. DOMAIN took = ParserFields
      BY TookFields, Zenon
    <3> HIDE DEF look
    <3>2. /\ took.uses = Append(p.uses, look.use) /\ took.field = p.field
          /\ took.spec = p.spec /\ took.index = p.index /\ took.s = s
      BY <1>1 DEF Took, ParserFields
    <3> QED
      BY <3>1, <3>2, Zenon
  <2> HIDE DEF took
  <2>5. taken = [took EXCEPT !.spec = spec, !.s = t, !.pc = "precision"]
    <3>1. taken = [took EXCEPT !.spec.width = wide,
                               !.spec.align = IF n < 0 THEN "left" ELSE @,
                               !.s = @ + 1, !.pc = "precision"]
      BY Zenon DEF took
    <3> HIDE DEF taken, n, wide
    <3> QED
      BY <1>1, <2>4, <3>1, Zenon DEF SpecFields
  <2>6. n = Value(look.use).num
    BY <2>3, Zenon
  <2> HIDE DEF look, n, wide, align
  <2>7. /\ spec.flags = p.spec.flags /\ spec.width = wide /\ spec.precision = p.spec.precision
        /\ spec.fill = p.spec.fill /\ spec.align = align
    BY <1>1 DEF SpecFields
  <2>8. t \in Int /\ s <= t /\ s < t
    BY <1>1
  <2> HIDE DEF spec, taken, t
  <2>9. /\ taken.pc = "precision" /\ taken.s = t /\ taken.field = took.field
        /\ taken.spec = spec /\ taken.uses = took.uses /\ taken.index = took.index
    BY <2>4, <2>5 DEF ParserFields
  <2>10. Behead(taken) /\ Len(x) = 1 /\ x[1] = look.use
    <3>1. taken.uses = Append(p.uses, look.use)
      BY <2>4, <2>9, Zenon
    <3>2. Behead(taken) /\ Len(x) = Len(u) + 1 /\ x[Len(u) + 1] = look.use
      BY <3>1, OwnMore, Zenon
    <3> HIDE DEF x, u
    <3> QED
      BY <1>5, <3>2
  <2> HIDE DEF x
  <2>11. Sliced(taken, x, i, s, t)
    <3>1. WidthPart(s, t, taken.spec, x)
      BY <2>2, <2>3, <2>6, <2>7, <2>9, <2>10, Zenon DEF WidthPart, wide
    <3> QED
      BY <1>1, <1>3, <2>4, <2>8, <2>9, <3>1, SlicedWide
  <2>12. Draft(i, s, t, spec, x)
    <3>1. Wide(s, t, spec, x) = n
      BY <2>2, <2>6, <2>10, Zenon DEF Wide
    <3>2. spec.align = IF Wide(s, t, spec, x) < 0 THEN "left" ELSE p.spec.align
      BY <2>7, <3>1, Zenon DEF align
    <3> QED
      BY <1>3, <1>6, <2>7, <3>2, DraftWide, Zenon
  <2>13. Len(x) = Ones(Star(s, t))
    BY <2>2, <2>10, Zenon DEF Ones
  <2>14. Indexes(taken, i)
    BY <1>3, <2>4, <2>9, Zenon DEF Indexes
  <2>15. OnPrecision(taken, x)
    BY <1>4, <2>7, <2>9, <2>11, <2>12, <2>13, <2>14, Zenon DEF OnPrecision
  <2>16. PrintfSoFar(taken, x) /\ taken.pc \in FieldParts
    BY <2>9, <2>15 DEF PrintfSoFar, FieldParts
  <2> QED
    BY <1>10, <2>10, <2>16, PrintfGoesOn, Zenon DEF x
<1>11. CASE Fails
  BY <1>11, Zenon DEF PrintfGoes
<1> QED
  BY <1>7, <1>8, <1>9, <1>10, <1>11, Zenon

\* The count of what is there.
LEMMA OnesAre ==
  /\ Ones(TRUE) = 1 /\ Ones(FALSE) = 0
  /\ \A n \in Nat : n + Ones(FALSE) = n /\ n + Ones(TRUE) = n + 1
BY DEF Ones

\* The number of arguments before the precision.
LEMMA StarCount ==
  \A b \in BOOLEAN : Ones(b) \in Nat /\ (b => Ones(b) = 1)
BY DEF Ones

\* The parser goes on to the argument with a precision that is not one's.
LEMMA ToArgument ==
  ASSUME Reads, NEW u, NEW i, NEW g, Sliced(p, u, i, g, p.s), Indexes(p, i),
         Draft(i, g, p.s, p.spec, u), Len(u) = Ones(Star(g, p.s)), Behead(p), u = Own(p),
         NEW q, Go(q), q.pc = "argument", q.field = p.field, q.uses = p.uses,
         q.index = p.index, q.s \in Int, p.s <= q.s, q.spec.width = p.spec.width,
         q.spec.fill = p.spec.fill, q.spec.align = p.spec.align,
         q.spec.flags = p.spec.flags,
         PrintfPrecisionIs(p.s, q.s, q.spec), ~Point(p.s, q.s)
  PROVE  PrintfGoes
<1>1. p.s \in Int /\ p.field \in Int
  BY HereInts, Zenon
<1>2. Sliced(q, u, i, g, p.s)
  BY <1>1, SlicedKept
<1>3. Draft(i, g, p.s, q.spec, u)
  BY DraftKept, Zenon
<1>4. Indexes(q, i)
  BY Zenon DEF Indexes
<1>5. PrecisionPart(p.s, q.s, q.spec, u, Len(u))
  BY Zenon DEF PrecisionPart
<1>6. Len(u) = Ones(Star(g, p.s)) + Ones(Point(p.s, q.s))
  <2>1. Star(g, p.s) \in BOOLEAN
    BY DEF Star
  <2>2. Point(p.s, q.s) = FALSE
    BY DEF Point
  <2>3. Ones(Star(g, p.s)) \in Nat
    BY <2>1, StarCount, Zenon
  <2> QED
    BY <2>2, <2>3, OnesAre, Zenon
<1>7. OnArgument(q, u)
  BY <1>2, <1>3, <1>4, <1>5, <1>6, Zenon DEF OnArgument
<1>8. Behead(q) /\ Own(q) = u
  BY OwnSame, Zenon
<1>9. PrintfSoFar(q, u) /\ q.pc \in FieldParts
  BY <1>7 DEF PrintfSoFar, FieldParts
<1> QED
  BY <1>8, <1>9, PrintfGoesOn, Zenon

\* The precision.
LEMMA PrintfPrecisionGoes ==
  ASSUME Reads, IInv, Behead(p), PrintfSoFar(p, Own(p)), PrintfPrecision
  PROVE  PrintfGoes
<1> DEFINE u == Own(p)
           s == p.s
           number == ParseNumber(s + 1)
           look == Look(AUTO, s + 2)
           n == look.arg.num
           none == [p EXCEPT !.pc = "argument"]
           point == [p EXCEPT !.s = @ + 1, !.pc = "argument"]
           given == [p EXCEPT !.spec.precision = number.value, !.s = number.s,
                              !.pc = "argument"]
           taken == [Took(look) EXCEPT !.spec.precision = n, !.s = @ + 2,
                                       !.pc = "argument"]
<1>1. /\ Text /\ s \in 1..(Len(fmt) + 1) /\ s \in Int /\ p.field \in Int
      /\ p.field \in 1..s /\ Len(fmt) \in Nat
      /\ DOMAIN p = ParserFields /\ DOMAIN p.spec = SpecFields
  BY HereInts, Zenon
<1>2. OnPrecision(p, u)
  BY DEF PrintfSoFar, PrintfPrecision
<1>3. PICK i, g : /\ Sliced(p, u, i, g, s) /\ Indexes(p, i) /\ Draft(i, g, s, p.spec, u)
                  /\ Len(u) = Ones(Star(g, s))
  BY <1>2, Zenon DEF OnPrecision
<1>4. p.spec.precision = -1
  BY <1>2, Zenon DEF OnPrecision
<1>5. \/ Go(none)
      \/ Fails
      \/ At(s) = "." /\ Go(point)
      \/ At(s) = "." /\ IsDigit(At(s + 1)) /\ ~TooBig(number.value) /\ Go(given)
      \/ At(s) = "." /\ At(s + 1) = "*" /\ Clean(look) /\ Go(taken)
  <2>1. \/ Go(none)
        \/ Fail("number is too big")
        \/ Fail("precision is not integer")
        \/ look.error # "" /\ Fail(look.error)
        \/ At(s) = "." /\ Go(point)
        \/ At(s) = "." /\ IsDigit(At(s + 1)) /\ ~TooBig(number.value) /\ Go(given)
        \/ At(s) = "." /\ At(s + 1) = "*" /\ Clean(look) /\ Go(taken)
    BY Zenon DEF PrintfPrecision, Clean
  <2> HIDE DEF number, look, none, given, taken, point
  <2> QED
    BY <2>1 DEF Fails
<1>6. s <= s /\ s \in s..(Len(fmt) + 1) /\ ~(s + 1 < s)
  BY <1>1
<1>7. At(s) = "." => s \in 1..Len(fmt)
  <2>1. "." # NUL
    BY DEF NUL
  <2> QED
    BY <2>1, HereInts, Zenon
<1>8. CASE Go(none)
  <2>1. /\ none.pc = "argument" /\ none.s = s /\ none.field = p.field
        /\ none.spec = p.spec /\ none.uses = p.uses /\ none.index = p.index
    BY OnlyPart, Zenon
  <2> HIDE DEF none
  <2>2. Src(s, s) = << >>
    BY <1>1, SrcNext, Zenon
  <2>3. ~Point(s, s)
    BY <1>1, <1>6, StarAt, Zenon
  <2>4. PrintfPrecisionIs(s, s, p.spec)
    <3>1. << >> \in {<< >>, <<".">>}
      OBVIOUS
    <3> QED
      BY <1>4, <2>2, <3>1, Zenon DEF PrintfPrecisionIs
  <2>5. /\ none.s \in Int /\ s <= none.s /\ none.spec.width = p.spec.width
        /\ none.spec.fill = p.spec.fill /\ none.spec.align = p.spec.align
        /\ none.spec.flags = p.spec.flags /\ ~Point(s, none.s)
        /\ PrintfPrecisionIs(s, none.s, none.spec)
    BY <1>1, <1>6, <2>1, <2>3, <2>4, Zenon
  <2> QED
    BY <1>3, <1>8, <2>1, <2>5, ToArgument, Zenon
<1>9. CASE At(s) = "." /\ Go(point)
  <2> DEFINE t == s + 1
  <2>1. t \in Int /\ s <= t /\ t \in s..(Len(fmt) + 1) /\ ~(s + 1 < t)
    BY <1>1, <1>7, <1>9
  <2>2. ~Point(s, t)
    <3> HIDE DEF t
    <3> QED
      BY <1>1, <2>1, StarAt, Zenon
  <2>3. Src(s, t) = <<At(s)>>
    BY <1>1, <1>7, <1>9, SrcShort, Zenon
  <2>4. point = [p EXCEPT !.s = t, !.pc = "argument"]
    BY Zenon
  <2> HIDE DEF t, point
  <2>5. /\ point.pc = "argument" /\ point.s = t /\ point.field = p.field
        /\ point.spec = p.spec /\ point.uses = p.uses /\ point.index = p.index
    BY <1>1, <2>4 DEF ParserFields
  <2>6. PrintfPrecisionIs(s, t, p.spec)
    <3>1. <<".">> \in {<< >>, <<".">>}
      OBVIOUS
    <3>2. Src(s, t) = <<".">>
      BY <1>9, <2>3, Zenon
    <3> QED
      BY <1>4, <3>1, <3>2, Zenon DEF PrintfPrecisionIs
  <2>7. /\ point.s \in Int /\ s <= point.s /\ point.spec.width = p.spec.width
        /\ point.spec.fill = p.spec.fill /\ point.spec.align = p.spec.align
        /\ point.spec.flags = p.spec.flags /\ ~Point(s, point.s)
        /\ PrintfPrecisionIs(s, point.s, point.spec)
    BY <2>1, <2>2, <2>5, <2>6, Zenon
  <2> QED
    BY <1>3, <1>9, <2>5, <2>7, ToArgument, Zenon
<1>10. CASE At(s) = "." /\ IsDigit(At(s + 1)) /\ ~TooBig(number.value) /\ Go(given)
  <2> DEFINE t == number.s
             v == number.value
             spec == [p.spec EXCEPT !.precision = v]
  <2>1. s + 1 \in Nat
    BY <1>1
  <2>2. Means(s + 1, t, v) /\ t \in ((s + 1) + 1)..(Len(fmt) + 1)
    BY <1>1, <1>10, <2>1, NumberMeans, Zenon
  <2>3. given = [p EXCEPT !.spec = spec, !.s = t, !.pc = "argument"]
    BY Zenon
  <2> HIDE DEF t, v
  <2>4. /\ spec.flags = p.spec.flags /\ spec.width = p.spec.width /\ spec.precision = v
        /\ spec.fill = p.spec.fill /\ spec.align = p.spec.align
    BY <1>1 DEF SpecFields
  <2> HIDE DEF spec, given
  <2>5. /\ given.pc = "argument" /\ given.s = t /\ given.field = p.field
        /\ given.spec = spec /\ given.uses = p.uses /\ given.index = p.index
    BY <1>1, <2>3 DEF ParserFields
  <2>6. t \in Int /\ s <= t /\ t \in s..(Len(fmt) + 1)
    BY <1>1, <2>2
  <2>7. ~Point(s, t)
    BY <1>1, <1>10, <2>6, StarAt, DigitNoStar, Zenon
  <2>8. PrintfPrecisionIs(s, t, spec)
    BY <1>10, <2>2, <2>4, Zenon DEF PrintfPrecisionIs
  <2>9. /\ given.s \in Int /\ s <= given.s /\ given.spec.width = p.spec.width
        /\ given.spec.fill = p.spec.fill /\ given.spec.align = p.spec.align
        /\ given.spec.flags = p.spec.flags /\ ~Point(s, given.s)
        /\ PrintfPrecisionIs(s, given.s, given.spec)
    BY <2>4, <2>5, <2>6, <2>7, <2>8, Zenon
  <2> QED
    BY <1>3, <1>10, <2>5, <2>9, ToArgument, Zenon
<1>11. CASE At(s) = "." /\ At(s + 1) = "*" /\ Clean(look) /\ Go(taken)
  <2> DEFINE t == s + 2
             took == Took(look)
             spec == [p.spec EXCEPT !.precision = n]
             x == Own(taken)
  <2>1. s \in 1..Len(fmt) /\ s + 1 \in 1..Len(fmt)
    <3>1. "*" # NUL
      BY DEF NUL
    <3>2. s + 1 \in 1..Len(fmt)
      BY <1>1, <1>11, <3>1, Behind, Zenon
    <3> QED
      BY <1>7, <1>11, <3>2, Zenon
  <2>2. Point(s, t)
    <3>1. Src(s, t) = <<At(s), At(s + 1)>>
      BY <1>1, <2>1, SrcShort, Zenon
    <3> QED
      BY <1>11, <3>1, Zenon DEF Point
  <2>3. look.use.auto = TRUE /\ Value(look.use) = look.arg
    BY <1>11, LookNext, Zenon
  <2>4. /\ DOMAIN took = ParserFields /\ took.uses = Append(p.uses, look.use)
        /\ took.field = p.field /\ took.spec = p.spec /\ took.index = p.index
        /\ took.s = s
    <3>1. DOMAIN took = ParserFields
      BY TookFields, Zenon
    <3> HIDE DEF look
    <3>2. /\ took.uses = Append(p.uses, look.use) /\ took.field = p.field
          /\ took.spec = p.spec /\ took.index = p.index /\ took.s = s
      BY <1>1 DEF Took, ParserFields
    <3> QED
      BY <3>1, <3>2, Zenon
  <2> HIDE DEF took
  <2>5. taken = [took EXCEPT !.spec = spec, !.s = t, !.pc = "argument"]
    <3>1. taken = [took EXCEPT !.spec.precision = n, !.s = @ + 2, !.pc = "argument"]
      BY Zenon DEF took
    <3> HIDE DEF taken, n
    <3> QED
      BY <1>1, <2>4, <3>1, Zenon DEF SpecFields
  <2>6. n = Value(look.use).num
    BY <2>3, Zenon
  <2> HIDE DEF look, n
  <2>7. /\ spec.flags = p.spec.flags /\ spec.width = p.spec.width /\ spec.precision = n
        /\ spec.fill = p.spec.fill /\ spec.align = p.spec.align
    BY <1>1 DEF SpecFields
  <2>8. t \in Int /\ s <= t
    BY <1>1
  <2> HIDE DEF spec, taken, t
  <2>9. /\ taken.pc = "argument" /\ taken.s = t /\ taken.field = took.field
        /\ taken.spec = spec /\ taken.uses = took.uses /\ taken.index = took.index
    BY <2>4, <2>5 DEF ParserFields
  <2>10. /\ Behead(taken) /\ Len(x) = Len(u) + 1 /\ x[Len(u) + 1] = look.use
         /\ \A k \in 1..Len(u) : x[k] = u[k]
    <3>1. taken.uses = Append(p.uses, look.use)
      BY <2>4, <2>9, Zenon
    <3> QED
      BY <3>1, OwnMore, Zenon
  <2> HIDE DEF x
  <2>11. Star(g, s) \in BOOLEAN /\ Point(s, t) = TRUE
    BY <2>2 DEF Star, Point
  <2>12. Ones(Star(g, s)) \in Nat /\ (Star(g, s) => Ones(Star(g, s)) = 1)
    BY <2>11, StarCount, Zenon
  <2>13. Len(x) = Ones(Star(g, s)) + Ones(Point(s, t))
    BY <1>3, <2>10, <2>11, <2>12, OnesAre, Zenon
  <2>14. Star(g, s) => x[1] = u[1]
    <3>1. 1 \in 1..1
      OBVIOUS
    <3> QED
      BY <1>3, <2>10, <2>12, <3>1, Zenon
  <2>15. x[Len(x)] = look.use
    BY <2>10, Zenon
  <2>16. Sliced(taken, x, i, g, s)
    <3>1. /\ taken.field = p.field /\ taken.s \in Int /\ p.s <= taken.s
          /\ taken.spec.width = p.spec.width
      BY <2>4, <2>7, <2>8, <2>9, Zenon
    <3>2. Sliced(p, u, i, g, s)
      BY <1>3, Zenon
    <3> HIDE DEF u
    <3> QED
      BY <1>1, <2>14, <3>1, <3>2, SlicedKept
  <2>17. Draft(i, g, s, spec, x)
    BY <1>3, <2>7, <2>14, DraftKept, Zenon
  <2>18. PrecisionPart(s, t, spec, x, Len(x))
    BY <2>2, <2>3, <2>6, <2>7, <2>15, Zenon DEF PrecisionPart
  <2>19. Indexes(taken, i)
    BY <1>3, <2>4, <2>9, Zenon DEF Indexes
  <2>20. OnArgument(taken, x)
    BY <2>9, <2>13, <2>16, <2>17, <2>18, <2>19, Zenon DEF OnArgument
  <2>21. PrintfSoFar(taken, x) /\ taken.pc \in FieldParts
    BY <2>9, <2>20 DEF PrintfSoFar, FieldParts
  <2> QED
    BY <1>11, <2>10, <2>21, PrintfGoesOn, Zenon DEF x
<1>12. CASE Fails
  BY <1>12, Zenon DEF PrintfGoes
<1> QED
  BY <1>5, <1>8, <1>9, <1>10, <1>11, <1>12, Zenon

\* The layout with the argument is made of the one without it.
LEMMA DraftFinal ==
  ASSUME NEW i, NEW g, NEW w, NEW spec, NEW u, Draft(i, g, w, spec, u), NEW arg, NEW r,
         r.flags = IF IsZeroInt(arg) THEN spec.flags \ {"HASH"} ELSE spec.flags,
         r.align = IF spec.fill = "0" /\ arg.type \in NumericTypes THEN "numeric"
                   ELSE spec.align,
         r.fill = IF spec.fill = "0" /\ arg.type \notin NumericTypes THEN " "
                  ELSE spec.fill
  PROVE  PrintfLayout(Given(i, g), LeftOf(i, g, w, spec, u), arg, r)
<1> DEFINE given == Given(i, g)
           left == LeftOf(i, g, w, spec, u)
           zeros == "0" \in given /\ Numeric(arg)
<1>1. /\ spec.fill = IF "0" \in given THEN "0" ELSE " "
      /\ spec.align = IF left THEN "left" ELSE "right"
      /\ spec.flags = Signs(given)
  BY Zenon DEF Draft
<1>2. "0" # " "
  OBVIOUS
<1> HIDE DEF given, left
<1>3. spec.fill = "0" <=> "0" \in given
  BY <1>1, <1>2, Zenon
<1>4. r.fill = IF zeros THEN "0" ELSE " "
  BY <1>1, <1>3, Zenon DEF Numeric
<1>5. r.align = IF zeros THEN "numeric" ELSE IF left THEN "left" ELSE "right"
  BY <1>1, <1>3, Zenon DEF Numeric
<1>6. r.flags = IF arg.type \in IntegerTypes /\ arg.num = 0
                THEN Signs(given) \ {"HASH"} ELSE Signs(given)
  BY <1>1, Zenon DEF IsZeroInt
<1> QED
  BY <1>4, <1>5, <1>6, Zenon DEF PrintfLayout, Signs, given, left

\* The argument that was looked for is the one the field names.
LEMMA LookFetched ==
  ASSUME Reads, IInv, NEW i \in Int, Indexes(p, i), NEW s, Clean(Look(p.index, s)),
         NEW q, NEW x, q.field = p.field,
         q.arg = Look(p.index, s).arg, x[Len(x)] = Look(p.index, s).use
  PROVE  Fetched(q, x, i)
<1> DEFINE look == Look(p.index, s)
<1>1. Passed /\ p.field \in Int
  BY HereInts, Zenon DEF Reads
<1>4. DOMAIN look.arg = ArgFields
  <2>1. p.index \in -1..INT_MAX
    BY DEF Reads, Typed
  <2> QED
    BY <1>1, <2>1, LookFields, Zenon
<1>2. CASE i = p.field + 1 /\ p.index = AUTO
  <2>1. look = Look(AUTO, s)
    BY <1>2, Zenon
  <2>2. Clean(Look(AUTO, s))
    BY <1>2, Zenon
  <2>3. look.use.auto = TRUE /\ Value(look.use) = look.arg
    BY <2>1, <2>2, LookNext, Zenon
  <2>4. look.arg.num \in Int
    BY <1>1, <2>1, LookNumber, Zenon
  <2> HIDE DEF look
  <2> QED
    BY <1>2, <1>4, <2>3, <2>4, Zenon DEF Fetched, look
<1>3. CASE At(i - 1) = "$" /\ Means(p.field + 1, i - 1, p.index)
  <2>1. p.index \in 0..INT_MAX /\ p.field + 1 < i - 1
    BY <1>3, Zenon DEF Means
  <2>2. look.use.auto = FALSE /\ look.use.index + 1 = p.index
        /\ Value(look.use) = look.arg /\ look.arg.num \in Int
    BY <1>1, <2>1, LookNumbered, Zenon
  <2> HIDE DEF look
  <2>3. p.field + 1 # i - 1
    BY <1>1, <2>1
  <2>4. Names(p.field + 1, i - 1, look.use, 1)
    BY <1>3, <2>2, <2>3, Zenon DEF Names
  <2> QED
    BY <1>3, <1>4, <2>2, <2>4, Zenon DEF Fetched, look
<1> QED
  BY <1>2, <1>3, Zenon DEF Indexes

\* The argument.
LEMMA PrintfArgumentGoes ==
  ASSUME Reads, IInv, Behead(p), PrintfSoFar(p, Own(p)), PrintfArgument
  PROVE  PrintfGoes
<1> DEFINE u == Own(p)
           s == p.s
           look == Look(p.index, s)
           arg == look.arg
           fill == p.spec.fill = "0"
           taken == [Took(look) EXCEPT
                    !.arg = arg,
                    !.spec.flags = IF IsZeroInt(arg) THEN @ \ {"HASH"} ELSE @,
                    !.spec.align = IF fill /\ arg.type \in NumericTypes
                                   THEN "numeric" ELSE @,
                    !.spec.fill  = IF fill /\ arg.type \notin NumericTypes
                                   THEN " " ELSE @,
                    !.pc = "length"]
<1>1. /\ Text /\ s \in 1..(Len(fmt) + 1) /\ s \in Int /\ p.field \in Int
      /\ p.field \in 1..s /\ Len(fmt) \in Nat /\ s <= s
      /\ DOMAIN p = ParserFields /\ DOMAIN p.spec = SpecFields
  BY HereInts, Zenon
<1>2. OnArgument(p, u)
  BY DEF PrintfSoFar, PrintfArgument
<1>3. PICK i, g, w : /\ Sliced(p, u, i, g, w) /\ Indexes(p, i) /\ Draft(i, g, w, p.spec, u)
                     /\ PrecisionPart(w, s, p.spec, u, Len(u))
                     /\ Len(u) = Ones(Star(g, w)) + Ones(Point(w, s))
  BY <1>2, Zenon DEF OnArgument
<1>4. \/ look.error # "" /\ Fail(look.error)
      \/ Clean(look) /\ Go(taken)
  BY Zenon DEF PrintfArgument, Clean
<1>5. CASE look.error # "" /\ Fail(look.error)
  BY <1>5, Zenon DEF PrintfGoes, Fails
<1>6. CASE Clean(look) /\ Go(taken)
  <2> DEFINE took == Took(look)
             spec == [p.spec EXCEPT
                    !.flags = IF IsZeroInt(arg) THEN @ \ {"HASH"} ELSE @,
                    !.align = IF fill /\ arg.type \in NumericTypes THEN "numeric" ELSE @,
                    !.fill  = IF fill /\ arg.type \notin NumericTypes THEN " " ELSE @]
             x == Own(taken)
  <2>1. i \in (p.field + 1)..s
    BY <1>3, Zenon DEF Sliced
  <2>2. i \in Int
    BY <2>1
  <2>3. /\ DOMAIN took = ParserFields /\ took.uses = Append(p.uses, look.use)
        /\ took.field = p.field /\ took.spec = p.spec /\ took.s = s
    <3>1. DOMAIN took = ParserFields
      BY TookFields, Zenon
    <3> HIDE DEF look
    <3>2. /\ took.uses = Append(p.uses, look.use) /\ took.field = p.field
          /\ took.spec = p.spec /\ took.s = s
      BY <1>1 DEF Took, ParserFields
    <3> QED
      BY <3>1, <3>2, Zenon
  <2> HIDE DEF took
  <2>4. taken = [took EXCEPT !.arg = arg, !.spec = spec, !.pc = "length"]
    <3>1. taken = [took EXCEPT
                    !.arg = arg,
                    !.spec.flags = IF IsZeroInt(arg) THEN @ \ {"HASH"} ELSE @,
                    !.spec.align = IF fill /\ arg.type \in NumericTypes
                                   THEN "numeric" ELSE @,
                    !.spec.fill  = IF fill /\ arg.type \notin NumericTypes
                                   THEN " " ELSE @,
                    !.pc = "length"]
      BY Zenon DEF took
    <3> HIDE DEF taken, arg, fill
    <3>2. [took EXCEPT !.arg = arg].spec = p.spec
      BY <2>3 DEF ParserFields
    <3> QED
      BY <1>1, <2>3, <3>1, <3>2, Zenon DEF SpecFields
  <2> HIDE DEF look
  <2>5. /\ spec.width = p.spec.width /\ spec.precision = p.spec.precision
        /\ spec.flags = IF IsZeroInt(arg) THEN p.spec.flags \ {"HASH"} ELSE p.spec.flags
        /\ spec.align = IF p.spec.fill = "0" /\ arg.type \in NumericTypes THEN "numeric"
                        ELSE p.spec.align
        /\ spec.fill = IF p.spec.fill = "0" /\ arg.type \notin NumericTypes THEN " "
                       ELSE p.spec.fill
    <3> HIDE DEF arg
    <3> QED
      BY <1>1 DEF SpecFields
  <2> HIDE DEF spec, taken, arg, fill
  <2>6. /\ taken.pc = "length" /\ taken.s = took.s /\ taken.field = took.field
        /\ taken.spec = spec /\ taken.uses = took.uses /\ taken.arg = arg
    BY <2>3, <2>4 DEF ParserFields
  <2>7. /\ Behead(taken) /\ Len(x) = Len(u) + 1 /\ x[Len(u) + 1] = look.use
        /\ \A k \in 1..Len(u) : x[k] = u[k]
    <3>1. taken.uses = Append(p.uses, look.use)
      BY <2>3, <2>6, Zenon
    <3> QED
      BY <3>1, OwnMore, Zenon
  <2> HIDE DEF x
  <2>8. Fetched(taken, x, i)
    <3>1. x[Len(x)] = look.use /\ taken.arg = look.arg /\ taken.field = p.field
      BY <2>3, <2>6, <2>7, Zenon DEF arg
    <3> QED
      BY <1>3, <1>6, <2>2, <3>1, LookFetched, Zenon DEF look
  <2>9. Star(g, w) \in BOOLEAN /\ Point(w, s) \in BOOLEAN
    BY DEF Star, Point
  <2>10. Ones(Star(g, w)) \in Nat /\ Ones(Point(w, s)) \in Nat
         /\ (Star(g, w) => Ones(Star(g, w)) = 1) /\ (Point(w, s) => Ones(Point(w, s)) = 1)
    BY <2>9, StarCount, Zenon
  <2> DEFINE a == Ones(Star(g, w))
             b == Ones(Point(w, s))
             n == Len(u)
  <2>11. n = a + b
    BY <1>3, Zenon
  <2> HIDE DEF a, b, n
  <2>12. /\ n \in Nat /\ a + b \in Nat /\ n + 1 = 1 + a + b /\ (n + 1) - 1 = n
         /\ (a = 1 => 1 \in 1..n) /\ (b = 1 => n \in 1..n)
    <3>1. a \in Nat /\ b \in Nat
      BY <2>10, Zenon DEF a, b
    <3> QED
      BY <2>11, <3>1
  <2>13. Len(x) = 1 + Ones(Star(g, w)) + Ones(Point(w, s)) /\ Len(x) - 1 = n
    BY <2>7, <2>12, Zenon DEF a, b, n
  <2>14. (Star(g, w) => x[1] = u[1]) /\ (Point(w, s) => x[n] = u[n])
    BY <2>7, <2>10, <2>12, Zenon DEF a, b, n
  <2>15. Sliced(taken, x, i, g, w)
    <3>1. /\ taken.field = p.field /\ taken.s \in Int /\ p.s <= taken.s
          /\ taken.spec.width = p.spec.width
      BY <1>1, <2>3, <2>5, <2>6, Zenon
    <3>2. Sliced(p, u, i, g, w)
      BY <1>3, Zenon
    <3> HIDE DEF u
    <3> QED
      BY <1>1, <2>14, <3>1, <3>2, SlicedKept
  <2>16. PrecisionPart(w, taken.s, taken.spec, x, Len(x) - 1)
    <3>1. PrecisionPart(w, s, p.spec, u, n)
      BY <1>3, Zenon DEF n
    <3>2. PrecisionPart(w, s, spec, x, n)
      <4>1. PrintfPrecisionIs(w, s, p.spec) => PrintfPrecisionIs(w, s, spec)
        BY <2>5, Zenon DEF PrintfPrecisionIs
      <4> QED
        BY <2>5, <2>14, <3>1, <4>1, Zenon DEF PrecisionPart
    <3> QED
      BY <2>3, <2>6, <2>13, <3>2, Zenon
  <2>17. Final(i, g, w, taken, x)
    <3>1. PrintfLayout(Given(i, g), LeftOf(i, g, w, p.spec, u), arg, spec)
      BY <1>3, <2>5, DraftFinal, Zenon
    <3>2. Wide(g, w, p.spec, u) = Wide(g, w, spec, x)
      BY <2>5, <2>14, Zenon DEF Wide
    <3>3. LeftOf(i, g, w, p.spec, u) = LeftOf(i, g, w, spec, x)
      BY <3>2, Zenon DEF LeftOf
    <3>4. taken.arg = arg /\ taken.spec = spec
      BY <2>6, Zenon
    <3> QED
      BY <3>1, <3>3, <3>4, Zenon DEF Final
  <2>18. Len(x) = 1 + Ones(Star(g, w)) + Ones(Point(w, taken.s))
    BY <2>3, <2>6, <2>13, Zenon
  <2>19. OnLength(taken, x)
    BY <2>8, <2>15, <2>16, <2>17, <2>18, Zenon DEF OnLength
  <2>20. PrintfSoFar(taken, x) /\ taken.pc \in FieldParts
    BY <2>6, <2>19 DEF PrintfSoFar, FieldParts
  <2> QED
    BY <1>6, <2>7, <2>20, PrintfGoesOn, Zenon DEF x
<1> QED
  BY <1>4, <1>5, <1>6, Zenon

-----------------------------------------------------------------------------
(* Numbers that differ by multiples of a word                              *)
Differ(m, n, w) == \E k \in Int : m = n + k * w

\* They have the same remainder.
LEMMA DifferRemainder ==
  ASSUME NEW w \in Nat, 0 < w, NEW m \in Int, NEW n \in Int, Differ(m, n, w)
  PROVE  m % w = n % w /\ (m - n) % w = 0
<1>1. PICK k \in Int : m = n + k * w
  BY DEF Differ
<1>2. (n + k * w) % w = n % w
  BY SameRemainder
<1>3. m - n = k * w + 0 /\ 0 \in 0..(w - 1)
  BY <1>1
<1>4. (k * w + 0) % w = 0
  BY <1>3, DividedOnce
<1> QED
  BY <1>1, <1>2, <1>3, <1>4, Zenon

\* A remainder differs so from its number.
LEMMA RemainderDiffers ==
  ASSUME NEW w \in Nat, 0 < w, NEW n \in Int
  PROVE  Differ(n % w, n, w) /\ n % w \in 0..(w - 1)
<1>1. n % w \in 0..(w - 1)
  BY Divided
<1>2. PICK q \in Int : n = q * w + (n % w)
  BY Divided
<1> DEFINE r == n % w
           k == -q
<1>3. r \in 0..(w - 1) /\ n = q * w + r /\ k \in Int
  BY <1>1, <1>2
<1>4. r \in Int
  BY <1>3
<1> HIDE DEF r
<1>5. r = n + k * w
  BY <1>3, <1>4
<1> HIDE DEF k
<1> QED
  BY <1>1, <1>3, <1>5 DEF Differ, r

\* One that differs from it by multiples of a wider word, does so too.
LEMMA DifferFurther ==
  ASSUME NEW w \in Nat, NEW v \in Nat, NEW c \in Int, v = c * w,
         NEW l \in Int, NEW m \in Int, NEW n \in Int, Differ(l, m, v), Differ(m, n, w)
  PROVE  Differ(l, n, w)
<1>1. PICK j \in Int : l = m + j * v
  BY DEF Differ
<1>2. PICK k \in Int : m = n + k * w
  BY DEF Differ
<1>3. j * (c * w) = (j * c) * w
  OBVIOUS
<1> DEFINE b == j * c
<1>4. b \in Int
  OBVIOUS
<1>5. l = n + k * w + b * w
  BY <1>1, <1>2, <1>3
<1> HIDE DEF b
<1>6. k * w + b * w = (k + b) * w /\ k * w \in Int /\ b * w \in Int /\ k + b \in Int
  BY <1>4
<1>7. l = n + (k + b) * w
  BY <1>5, <1>6
<1> QED
  BY <1>6, <1>7 DEF Differ

\* A number differs from itself by none of them.
LEMMA DifferNot ==
  ASSUME NEW n \in Int, NEW w \in Nat
  PROVE  Differ(n, n, w)
<1>1. n = n + 0 * w /\ 0 \in Int
  OBVIOUS
<1> QED
  BY <1>1 DEF Differ

\* The signed value of a word with an even number of values.
LEMMA SignedDiffers ==
  ASSUME NEW w \in Nat, 0 < w, w % 2 = 0, NEW n \in Int
  PROVE  LET m == AsSigned(n, w)
         IN  /\ Differ(m, n, w) /\ m \in -(w \div 2)..(w \div 2 - 1) /\ m \in Int
             /\ n \in 0..(w \div 2 - 1) => m = n
<1> DEFINE h == w \div 2
<1>1. h \in Nat /\ w = h + h
  OBVIOUS
<1> HIDE DEF h
<1> DEFINE r == (n + h) % w
<1>2. n + h \in Int
  BY <1>1
<1>3. Differ(r, n + h, w) /\ r \in 0..(w - 1)
  BY <1>2, RemainderDiffers
<1>4. AsSigned(n, w) = r - h
  BY DEF AsSigned, h
<1>5. n \in 0..(h - 1) => r = n + h
  <2>1. n \in 0..(h - 1) => n + h \in 0..(w - 1)
    BY <1>1
  <2>2. 0 * w + (n + h) = n + h /\ 0 \in Int
    BY <1>1
  <2>3. n + h \in 0..(w - 1) => (0 * w + (n + h)) % w = n + h
    BY DividedOnce
  <2> QED
    BY <2>1, <2>2, <2>3, Zenon
<1> HIDE DEF r
<1>6. PICK k \in Int : r = n + h + k * w
  BY <1>3 DEF Differ
<1>7. r - h = n + k * w /\ r - h \in Int
  BY <1>1, <1>3, <1>6
<1>8. Differ(r - h, n, w)
  BY <1>7 DEF Differ
<1>9. r - h \in -h..(h - 1)
  BY <1>1, <1>3
<1>10. n \in 0..(h - 1) => r - h = n
  BY <1>1, <1>5
<1> QED
  BY <1>4, <1>7, <1>8, <1>9, <1>10, Zenon DEF h

\* A word that is divided by another without a remainder holds some of it.
LEMMA Whole ==
  ASSUME NEW w \in Nat, 0 < w, NEW v \in Nat, v % w = 0
  PROVE  \E c \in Int : v = c * w
<1>4. v \in Int
  OBVIOUS
<1>1. PICK q \in Int : v = q * w + (v % w)
  BY <1>4, Divided, Zenon
<1>2. v = q * w + 0
  BY <1>1, Zenon
<1>3. q * w + 0 = q * w
  OBVIOUS
<1> QED
  BY <1>2, <1>3, Zenon

\* Some of an even word is even.
LEMMA EvenMore ==
  ASSUME NEW w \in Nat, w % 2 = 0, NEW c \in Int, NEW v \in Nat, v = c * w
  PROVE  v % 2 = 0
<1>1. PICK h \in Int : w = 2 * h
  OBVIOUS
<1>2. c * (2 * h) = 2 * (c * h) /\ c * h \in Int
  OBVIOUS
<1> DEFINE d == c * h
<1>3. d \in Int /\ v = 2 * d
  BY <1>1, <1>2
<1> HIDE DEF d
<1> QED
  BY <1>3

\* What the words have to do with each other.
LEMMA WordsAre ==
  /\ CharWord \in Nat /\ ShortWord \in Nat /\ IntWord \in Nat /\ LongWord \in Nat
  /\ 0 < CharWord /\ 0 < ShortWord /\ 0 < IntWord /\ 0 < LongWord
  /\ CharWord % 2 = 0 /\ ShortWord % 2 = 0 /\ IntWord % 2 = 0 /\ LongWord % 2 = 0
  /\ \E c \in Int : ShortWord = c * CharWord
  /\ \E c \in Int : IntWord = c * CharWord
  /\ \E c \in Int : LongWord = c * CharWord
  /\ \E c \in Int : LongWord = c * IntWord
  /\ IntWord - 1 <= LongWord \div 2 - 1
<1>1. /\ CharWord \in Nat /\ ShortWord \in Nat /\ LongWord \in Nat
      /\ 0 < CharWord /\ 0 < ShortWord /\ 0 < LongWord
      /\ CharWord % 2 = 0 /\ ShortWord % CharWord = 0 /\ (UINT_MAX + 1) % ShortWord = 0
      /\ LongWord % (2 * (UINT_MAX + 1)) = 0
  BY WordAssumption
<1>2. IntWord \in Nat /\ 0 < IntWord /\ 2 * IntWord \in Nat /\ 0 < 2 * IntWord
      /\ IntWord % ShortWord = 0 /\ LongWord % (2 * IntWord) = 0
  BY <1>1, LimitAssumption DEF IntWord
<1>3. PICK a \in Int : ShortWord = a * CharWord
  BY <1>1, Whole
<1>4. PICK b \in Int : IntWord = b * ShortWord
  BY <1>1, <1>2, Whole
<1>5. PICK c \in Int : LongWord = c * (2 * IntWord)
  BY <1>1, <1>2, Whole
<1>6. ShortWord % 2 = 0
  BY <1>1, <1>3, EvenMore
<1>7. IntWord % 2 = 0
  BY <1>1, <1>2, <1>4, <1>6, EvenMore
<1>8. (2 * IntWord) % 2 = 0
  BY <1>2
<1>9. LongWord % 2 = 0
  BY <1>1, <1>2, <1>5, <1>8, EvenMore
<1>10. IntWord = (b * a) * CharWord /\ b * a \in Int
  BY <1>1, <1>3, <1>4
<1>11. LongWord = (2 * c) * IntWord /\ 2 * c \in Int
  BY <1>1, <1>2, <1>5
<1> DEFINE d == b * a
           e == 2 * c
<1>12. d \in Int /\ IntWord = d * CharWord /\ e \in Int /\ LongWord = e * IntWord
  BY <1>10, <1>11
<1> HIDE DEF d, e
<1>13. LongWord = (e * d) * CharWord /\ e * d \in Int
  BY <1>1, <1>2, <1>12
<1>14. IntWord - 1 <= LongWord \div 2 - 1
  <2>1. 2 * IntWord <= LongWord
    <3>1. c > 0
      <4>1. CASE c <= 0
        <5> DEFINE x == 2 * IntWord
                   k == -c
        <5>1. x \in Nat /\ k \in Nat /\ LongWord = (-k) * x
          BY <1>2, <1>5, <4>1
        <5> HIDE DEF x, k
        <5>2. k * x >= 0 /\ (-k) * x = -(k * x) /\ k * x \in Int
          BY <5>1
        <5> QED
          BY <1>1, <5>1, <5>2
      <4> QED
        BY <4>1
    <3>2. (c - 1) \in Nat /\ (c - 1) * (2 * IntWord) >= 0
      <4>1. c - 1 \in Nat
        BY <3>1
      <4> DEFINE x == 2 * IntWord
                 k == c - 1
      <4>2. x \in Nat /\ k \in Nat
        BY <1>2, <4>1
      <4> HIDE DEF x, k
      <4>3. k * x >= 0
        BY <4>2
      <4> QED
        BY <4>1, <4>3 DEF x, k
    <3>3. c * (2 * IntWord) = (c - 1) * (2 * IntWord) + 2 * IntWord
      BY <1>2
    <3> DEFINE y == (c - 1) * (2 * IntWord)
    <3>4. y >= 0 /\ y \in Int /\ LongWord = y + 2 * IntWord
      BY <1>2, <1>5, <3>2, <3>3
    <3> HIDE DEF y
    <3> QED
      BY <1>1, <1>2, <3>4
  <2> QED
    BY <1>1, <1>2, <2>1
<1> QED
  BY <1>1, <1>2, <1>3, <1>6, <1>7, <1>9, <1>12, <1>13, <1>14, Zenon

\* A number as a signed and as an unsigned word.
LEMMA SignedHolds ==
  ASSUME NEW w \in Nat, 0 < w, w % 2 = 0, NEW c \in Int, w = c * CharWord, NEW n \in Int
  PROVE  LET m == AsSigned(n, w)
         IN  /\ m \in Int /\ (m - n) % w = 0 /\ m \in -(w \div 2)..(w \div 2 - 1)
             /\ Differ(m, n, CharWord)
<1> DEFINE m == AsSigned(n, w)
<1>1. Differ(m, n, w) /\ m \in -(w \div 2)..(w \div 2 - 1) /\ m \in Int
  BY SignedDiffers
<1> HIDE DEF m
<1>2. (m - n) % w = 0
  BY <1>1, DifferRemainder
<1>3. CharWord \in Nat /\ Differ(n, n, CharWord)
  BY WordsAre, DifferNot
<1>4. Differ(m, n, CharWord)
  BY <1>1, <1>3, DifferFurther
<1> QED
  BY <1>1, <1>2, <1>4, Zenon DEF m

\* As an unsigned word it is its remainder.
LEMMA UnsignedHolds ==
  ASSUME NEW w \in Nat, 0 < w, NEW c \in Int, w = c * CharWord, NEW n \in Int
  PROVE  LET m == n % w
         IN  /\ m \in Int /\ (m - n) % w = 0 /\ m \in 0..(w - 1)
             /\ Differ(m, n, CharWord) /\ Differ(m, n, w)
<1> DEFINE m == n % w
<1>1. Differ(m, n, w) /\ m \in 0..(w - 1)
  BY RemainderDiffers
<1> HIDE DEF m
<1>2. m \in Int
  BY <1>1
<1>3. (m - n) % w = 0
  BY <1>1, <1>2, DifferRemainder
<1>4. CharWord \in Nat /\ Differ(n, n, CharWord)
  BY WordsAre, DifferNot
<1>5. Differ(m, n, CharWord)
  BY <1>1, <1>2, <1>4, DifferFurther
<1> QED
  BY <1>1, <1>2, <1>3, <1>5, Zenon DEF m

\* A wide number that was one, and one that was an int.
LEMMA WideHolds ==
  ASSUME NEW n \in Int
  PROVE  /\ LET m == AsSigned(n % LongWord, LongWord)
            IN  /\ m \in Int /\ (m - n) % LongWord = 0 /\ Differ(m, n, CharWord)
                /\ m \in -(LongWord \div 2)..(LongWord \div 2 - 1)
         /\ AsSigned(n % IntWord, LongWord) = n % IntWord
<1>1. /\ LongWord \in Nat /\ 0 < LongWord /\ LongWord % 2 = 0 /\ CharWord \in Nat
      /\ IntWord \in Nat /\ 0 < IntWord
  BY WordsAre
<1>2. PICK c \in Int : LongWord = c * CharWord
  BY WordsAre
<1> DEFINE r == n % LongWord
           m == AsSigned(r, LongWord)
<1>3. r \in Int /\ Differ(r, n, LongWord)
  BY <1>1, <1>2, UnsignedHolds
<1> HIDE DEF r
<1>4. Differ(m, r, LongWord) /\ m \in -(LongWord \div 2)..(LongWord \div 2 - 1) /\ m \in Int
  BY <1>1, <1>3, SignedDiffers
<1> HIDE DEF m
<1>5. LongWord = 1 * LongWord /\ Differ(n, n, CharWord)
  BY <1>1, DifferNot
<1>6. Differ(m, n, LongWord)
  BY <1>1, <1>3, <1>4, <1>5, DifferFurther
<1>7. (m - n) % LongWord = 0
  BY <1>1, <1>4, <1>6, DifferRemainder
<1>8. Differ(m, n, CharWord)
  BY <1>1, <1>2, <1>4, <1>5, <1>6, DifferFurther
<1>9. AsSigned(n % IntWord, LongWord) = n % IntWord
  <2> DEFINE s == n % IntWord
  <2>1. s \in 0..(IntWord - 1)
    BY <1>1, RemainderDiffers
  <2> HIDE DEF s
  <2>2. s \in Int
    BY <2>1
  <2>3. IntWord - 1 <= LongWord \div 2 - 1
    BY WordsAre
  <2> DEFINE h == LongWord \div 2 - 1
  <2>4. h \in Int /\ IntWord - 1 <= h
    BY <1>1, <2>3
  <2> HIDE DEF h
  <2>5. s \in 0..h
    BY <1>1, <2>1, <2>4
  <2>6. s \in 0..(LongWord \div 2 - 1)
    BY <2>5 DEF h
  <2> QED
    BY <1>1, <2>2, <2>6, SignedDiffers DEF s
<1> QED
  BY <1>4, <1>7, <1>8, <1>9, Zenon DEF m, r

\* The lengths that say how narrow a number is, and the others.
LEMMA LengthsDiffer ==
  /\ << >> # <<"h">> /\ << >> # <<"h", "h">> /\ <<"h">> # <<"h", "h">>
  /\ << >> # <<"L">> /\ <<"h">> # <<"L">> /\ <<"h", "h">> # <<"L">>
OBVIOUS

\* The lengths of types that are no wider than int.
Narrow == {<< >>, <<"h">>, <<"h", "h">>}

\* A narrow length has its word, of whole characters.
LEMMA NarrowWord ==
  ASSUME NEW length \in Narrow
  PROVE  /\ WordOf(length) \in Nat /\ 0 < WordOf(length) /\ WordOf(length) % 2 = 0
         /\ \E c \in Int : WordOf(length) = c * CharWord
<1>1. CharWord = 1 * CharWord
  BY WordsAre
<1>2. CASE length = << >>
  <2>1. WordOf(length) = IntWord
    BY <1>2, LengthsDiffer DEF WordOf
  <2> QED
    BY <2>1, WordsAre
<1>3. CASE length = <<"h">>
  <2>1. WordOf(length) = ShortWord
    BY <1>3, LengthsDiffer DEF WordOf
  <2> QED
    BY <2>1, WordsAre
<1>4. CASE length = <<"h", "h">>
  <2>1. WordOf(length) = CharWord
    BY <1>4, LengthsDiffer DEF WordOf
  <2> QED
    BY <1>1, <2>1, WordsAre
<1> QED
  BY <1>2, <1>3, <1>4 DEF Narrow

\* The types of integers, and what no type of one is.
LEMMA TypesAre ==
  /\ {"INT", "UINT", "LONG_LONG", "ULONG_LONG"} = IntegerTypes \ {"CHAR"}
  /\ "CHAR" \in IntegerTypes /\ "POINTER" \notin IntegerTypes /\ "DOUBLE" \notin IntegerTypes
  /\ NumericTypes = IntegerTypes \cup {"DOUBLE"} /\ "POINTER" # "DOUBLE"
BY DEF IntegerTypes, SignedTypes, NumericTypes

\* Of an argument that is no integer, or has the length of a long double, nothing is
\* changed; another integer gets a type that holds what length and type leave of it.
LEMMA ConvertedHolds ==
  ASSUME NEW arg, DOMAIN arg = ArgFields, arg.num \in Int, NEW length, NEW type
  PROVE  LET given == Converted(arg, length, type)
         IN  /\ arg.type \notin IntegerTypes \/ length = <<"L">> => given = arg
             /\ arg.type \in IntegerTypes /\ length # <<"L">> =>
                  /\ given.type \in IntegerTypes \ {"CHAR"} /\ given.num \in Int
                  /\ Differ(given.num, arg.num, CharWord) /\ DOMAIN given = ArgFields
                  /\ Holds(arg, length, type \in {"d", "i"}, given.num)
<1> DEFINE given == Converted(arg, length, type)
           n == arg.num
           wide == arg.type \in {"LONG_LONG", "ULONG_LONG"}
           signed == type \in {"d", "i"}
           m == IF wide THEN LongWord ELSE IntWord
           own == n % m
           word == CASE length = << >> -> IntWord [] length = <<"h">> -> ShortWord
                     [] length = <<"h", "h">> -> CharWord [] OTHER -> m
           negative == signed /\ (wide \/ length \in {<< >>, <<"h">>, <<"h", "h">>})
           Fits(x) == /\ (x - n) % word = 0
                      /\ x \in IF negative THEN -(word \div 2)..(word \div 2 - 1)
                               ELSE 0..(word - 1)
<1>1. arg.type \notin IntegerTypes \/ length = <<"L">> => given = arg
  BY Zenon DEF Converted
<1>2. ASSUME arg.type \in IntegerTypes, length # <<"L">>
      PROVE  /\ given.type \in IntegerTypes \ {"CHAR"} /\ given.num \in Int
             /\ Differ(given.num, n, CharWord) /\ DOMAIN given = ArgFields
             /\ Holds(arg, length, signed, given.num)
  <2>1. ASSUME NEW x, Fits(x)
        PROVE  Holds(arg, length, signed, x)
    BY <1>2, <2>1, Zenon DEF Holds
  <2>2. ASSUME NEW t \in {"INT", "UINT", "LONG_LONG", "ULONG_LONG"}, NEW x,
               given = [arg EXCEPT !.type = t, !.num = x], x \in Int,
               Differ(x, n, CharWord), Fits(x)
        PROVE  /\ given.type \in IntegerTypes \ {"CHAR"} /\ given.num \in Int
               /\ Differ(given.num, n, CharWord) /\ DOMAIN given = ArgFields
               /\ Holds(arg, length, signed, given.num)
    <3>1. given.type = t /\ given.num = x /\ DOMAIN given = ArgFields
      <4>1. given = [arg EXCEPT !.type = t, !.num = x]
        BY <2>2, Zenon
      <4> HIDE DEF Fits, given
      <4> QED
        BY <4>1 DEF ArgFields
    <3>2. Holds(arg, length, signed, x)
      <4>1. Fits(x)
        BY <2>2, Zenon
      <4> HIDE DEF Fits
      <4> QED
        BY <2>1, <4>1, Zenon
    <3>3. t \in IntegerTypes \ {"CHAR"}
      BY <2>2, TypesAre, Zenon
    <3> QED
      BY <2>2, <3>1, <3>2, <3>3, Zenon
  <2>3. CASE length \in Narrow
    <3> DEFINE w == WordOf(length)
    <3>1. /\ w \in Nat /\ 0 < w /\ w % 2 = 0 /\ \E c \in Int : w = c * CharWord
      BY <2>3, NarrowWord, Zenon
    <3>2. word = w
      BY <2>3, LengthsDiffer DEF Narrow, WordOf
    <3>3. PICK c \in Int : w = c * CharWord
      BY <3>1, Zenon
    <3>4. CASE signed
      <4> DEFINE x == AsSigned(n, w)
      <4>1. given = [arg EXCEPT !.type = "INT", !.num = x]
        BY <1>2, <2>3, <3>4, Zenon DEF Converted, Narrow
      <4> HIDE DEF w
      <4>2. /\ x \in Int /\ (x - n) % w = 0 /\ x \in -(w \div 2)..(w \div 2 - 1)
            /\ Differ(x, n, CharWord)
        BY <3>1, <3>3, SignedHolds, Zenon
      <4> HIDE DEF x
      <4>3. negative
        BY <2>3, <3>4, Zenon DEF Narrow
      <4> HIDE DEF word, negative
      <4>4. Fits(x)
        BY <3>2, <4>2, <4>3, Zenon
      <4> HIDE DEF Fits
      <4>5. "INT" \in {"INT", "UINT", "LONG_LONG", "ULONG_LONG"}
        OBVIOUS
      <4> QED
        BY <2>2, <4>1, <4>2, <4>4, <4>5, Zenon
    <3>5. CASE ~signed
      <4> DEFINE x == n % w
      <4>1. given = [arg EXCEPT !.type = "UINT", !.num = x]
        BY <1>2, <2>3, <3>5, Zenon DEF Converted, Narrow
      <4> HIDE DEF w
      <4>2. /\ x \in Int /\ (x - n) % w = 0 /\ x \in 0..(w - 1) /\ Differ(x, n, CharWord)
        BY <3>1, <3>3, UnsignedHolds, Zenon
      <4> HIDE DEF x
      <4>3. ~negative
        BY <3>5, Zenon
      <4> HIDE DEF word, negative
      <4>4. Fits(x)
        BY <3>2, <4>2, <4>3, Zenon
      <4> HIDE DEF Fits
      <4>5. "UINT" \in {"INT", "UINT", "LONG_LONG", "ULONG_LONG"}
        OBVIOUS
      <4> QED
        BY <2>2, <4>1, <4>2, <4>4, <4>5, Zenon
    <3> QED
      BY <3>4, <3>5, Zenon
  <2>4. CASE length \notin Narrow
    <3>1. word = m
      BY <2>4, Zenon DEF Narrow
    <3>2. negative <=> signed /\ wide
      BY <2>4, Zenon DEF Narrow
    <3>3. /\ m \in Nat /\ 0 < m /\ \E c \in Int : m = c * CharWord
      BY WordsAre, Zenon
    <3>4. PICK c \in Int : m = c * CharWord
      BY <3>3, Zenon
    <3>5. /\ own \in Int /\ (own - n) % m = 0 /\ own \in 0..(m - 1)
          /\ Differ(own, n, CharWord)
      <4> HIDE DEF m
      <4> QED
        BY <3>3, <3>4, UnsignedHolds, Zenon
    <3>6. CASE signed /\ wide
      <4> DEFINE x == AsSigned(own, LongWord)
      <4>1. given = [arg EXCEPT !.type = "LONG_LONG", !.num = x]
        BY <1>2, <2>4, <3>6, Zenon DEF Converted, Narrow
      <4>2. m = LongWord
        BY <3>6, Zenon
      <4>3. /\ x \in Int /\ (x - n) % LongWord = 0 /\ Differ(x, n, CharWord)
            /\ x \in -(LongWord \div 2)..(LongWord \div 2 - 1)
        <5>1. x = AsSigned(n % LongWord, LongWord)
          BY <4>2, Zenon
        <5> HIDE DEF x
        <5> QED
          BY <5>1, WideHolds, Zenon
      <4> HIDE DEF x
      <4>4. Fits(x)
        <5> HIDE DEF word, negative
        <5> QED
          BY <3>1, <3>2, <3>6, <4>2, <4>3, Zenon
      <4> HIDE DEF Fits
      <4>5. "LONG_LONG" \in {"INT", "UINT", "LONG_LONG", "ULONG_LONG"}
        OBVIOUS
      <4> QED
        BY <2>2, <4>1, <4>3, <4>4, <4>5, Zenon
    <3>7. ASSUME ~(signed /\ wide)
          PROVE  Fits(own)
      <4> HIDE DEF word, negative, own
      <4> QED
        BY <3>1, <3>2, <3>5, <3>7, Zenon
    <3>8. CASE signed /\ ~wide
      <4> DEFINE x == AsSigned(own, LongWord)
      <4>1. given = [arg EXCEPT !.type = "LONG_LONG", !.num = x]
        BY <1>2, <2>4, <3>8, Zenon DEF Converted, Narrow
      <4>2. x = own
        <5>1. m = IntWord
          BY <3>8, Zenon
        <5>2. AsSigned(n % IntWord, LongWord) = n % IntWord
          BY WideHolds, Zenon
        <5> QED
          BY <5>1, <5>2, Zenon
      <4>3. given = [arg EXCEPT !.type = "LONG_LONG", !.num = own]
        BY <4>1, <4>2, Zenon
      <4>4. Fits(own)
        BY <3>7, <3>8, Zenon
      <4> HIDE DEF Fits, own
      <4>5. "LONG_LONG" \in {"INT", "UINT", "LONG_LONG", "ULONG_LONG"}
        OBVIOUS
      <4> QED
        BY <2>2, <3>5, <4>3, <4>4, <4>5, Zenon
    <3>9. CASE ~signed
      <4>1. given = [arg EXCEPT !.type = "ULONG_LONG", !.num = own]
        BY <1>2, <2>4, <3>9, Zenon DEF Converted, Narrow
      <4>2. Fits(own)
        BY <3>7, <3>9, Zenon
      <4> HIDE DEF Fits, own
      <4>3. "ULONG_LONG" \in {"INT", "UINT", "LONG_LONG", "ULONG_LONG"}
        OBVIOUS
      <4> QED
        BY <2>2, <3>5, <4>1, <4>2, <4>3, Zenon
    <3> QED
      BY <3>6, <3>8, <3>9, Zenon
  <2> QED
    BY <2>3, <2>4, Zenon
<1> QED
  BY <1>1, <1>2, Zenon

\* The length is what stands in its place.
LEMMA LengthThere ==
  ASSUME Text, NEW i \in 1..(Len(fmt) + 1)
  PROVE  LET length == LengthAt(i)
         IN  /\ length \in Lengths /\ Len(length) \in Nat
             /\ i + Len(length) \in i..(Len(fmt) + 1)
             /\ Src(i, i + Len(length)) = length
<1> DEFINE length == LengthAt(i)
           c == At(i)
           two == c \in {"h", "l"} /\ At(i + 1) = c
<1>1. Len(fmt) \in Nat
  BY DEF Text
<1>2. Len(<< >>) = 0 /\ Len(<<c>>) = 1 /\ Len(<<c, c>>) = 2
  OBVIOUS
<1>3. i + 0 = i /\ i \in i..(Len(fmt) + 1) /\ 0 \in Nat /\ 1 \in Nat /\ 2 \in Nat
  BY <1>1
<1>4. c \in Letters => i \in 1..Len(fmt)
  <2>1. c \in Letters => c # NUL
    BY DEF Letters, NUL
  <2>2. c # NUL => i \in 1..Len(fmt)
    BY Behind, Zenon
  <2> QED
    BY <2>1, <2>2, Zenon
<1>5. c \in {"h", "l"} => c \in Letters /\ <<c, c>> \in Lengths
  BY DEF Letters, Lengths
<1>6. CASE c \notin Letters
  <2>1. length = << >>
    BY <1>5, <1>6 DEF LengthAt
  <2>2. Src(i, i) = << >>
    BY <1>3, SrcNext, Zenon
  <2>3. << >> \in Lengths
    BY DEF Lengths
  <2> HIDE DEF length
  <2> QED
    BY <1>2, <1>3, <2>1, <2>2, <2>3, Zenon DEF length
<1>7. CASE c \in Letters /\ two
  <2>1. length = <<c, c>>
    BY <1>7 DEF LengthAt
  <2>2. At(i + 1) # NUL
    BY <1>7 DEF NUL
  <2>3. i + 1 \in 1..Len(fmt)
    BY <2>2, Behind, Zenon
  <2>4. Src(i, i + 2) = <<At(i), At(i + 1)>>
    BY <1>4, <1>7, <2>3, SrcShort, Zenon
  <2>5. Src(i, i + 2) = <<c, c>>
    BY <1>7, <2>4, Zenon
  <2>6. i + 2 \in i..(Len(fmt) + 1)
    BY <1>1, <2>3
  <2> HIDE DEF length
  <2> QED
    BY <1>2, <1>3, <1>5, <1>7, <2>1, <2>5, <2>6, Zenon DEF length
<1>8. CASE c \in Letters /\ ~two
  <2>1. length = <<c>>
    BY <1>8 DEF LengthAt
  <2>2. i \in 1..Len(fmt)
    BY <1>4, <1>8, Zenon
  <2>3. Src(i, i + 1) = <<c>>
    BY <2>2, SrcShort, Zenon
  <2>4. i + 1 \in i..(Len(fmt) + 1)
    BY <1>1, <2>2
  <2>5. <<c>> \in Lengths
    BY <1>8 DEF Lengths
  <2> HIDE DEF length
  <2> QED
    BY <1>2, <1>3, <2>1, <2>3, <2>4, <2>5, Zenon DEF length
<1> QED
  BY <1>6, <1>7, <1>8, Zenon

\* A character is that of every number that differs by multiples of its word.
LEMMA ChrSame ==
  ASSUME NEW m \in Int, NEW n \in Int, Differ(m, n, CharWord)
  PROVE  Chr(m) = Chr(n)
<1>1. CharWord \in Nat /\ 0 < CharWord
  BY WordsAre
<1>2. m % CharWord = n % CharWord
  BY <1>1, DifferRemainder
<1> QED
  BY <1>2, Zenon DEF Chr

\* The statement of a character.
CharSt(arg, spec) ==
  St("char", [arg EXCEPT !.str = <<Chr(arg.num)>>],
     [NoSpec EXCEPT !.width = spec.width, !.type = spec.type,
                    !.align = IF spec.align = "left" THEN "left" ELSE "right"])

\* It asks for the character, with the width.
IsChar(st, n, spec) ==
  /\ st.op = "char" /\ st.str = <<Chr(n)>>
  /\ st.spec.width = spec.width /\ st.spec.fill = " "
  /\ st.spec.align = IF spec.align = "left" THEN "left" ELSE "right"

\* So it does.
LEMMA CharAsked ==
  ASSUME NEW arg, DOMAIN arg = ArgFields, NEW spec
  PROVE  IsChar(CharSt(arg, spec), arg.num, spec)
<1> DEFINE c == <<Chr(arg.num)>>
           a == [arg EXCEPT !.str = c]
           align == IF spec.align = "left" THEN "left" ELSE "right"
           width == spec.width
           type == spec.type
           other == [NoSpec EXCEPT !.width = width, !.type = type, !.align = align]
           st == CharSt(arg, spec)
<1>1. st = [op |-> "char", num |-> a.num, str |-> a.str, spec |-> other]
  BY Zenon DEF CharSt, St
<1> HIDE DEF c, align, width, type
<1>2. a.str = c
  BY DEF ArgFields
<1>3. other.width = width /\ other.fill = " " /\ other.align = align
  BY DEF NoSpec
<1> HIDE DEF a, other, st
<1>4. st.op = "char" /\ st.str = a.str /\ st.spec = other
  BY <1>1
<1> QED
  BY <1>2, <1>3, <1>4, Zenon DEF IsChar, c, align, width, st

\* The statements of an argument.
LEMMA StatementsAre ==
  ASSUME NEW arg, NEW spec
  PROVE  LET sts == PrintfStatements(arg, spec)
         IN  /\ arg.type = "CHAR" /\ spec.type = "c" => sts = <<CharSt(arg, spec)>>
             /\ arg.type = "CHAR" /\ spec.type # "c" =>
                  sts = <<St("int", arg, spec), CharSt(arg, spec)>>
             /\ arg.type \in IntegerTypes \ {"CHAR"} => sts = <<St("int", arg, spec)>>
             /\ arg.type = "POINTER" =>
                  sts = <<St("int", arg, [spec EXCEPT !.flags = {"HASH"}, !.type = "x"])>>
             /\ arg.type = "DOUBLE" => sts = <<St("double", arg, spec)>>
             /\ arg.type \notin IntegerTypes \cup {"POINTER", "DOUBLE"} =>
                  sts = <<St("str", arg, spec)>>
<1> DEFINE x1 == <<CharSt(arg, spec)>>
           x2 == <<St("int", arg, spec), CharSt(arg, spec)>>
           x3 == <<St("int", arg, spec)>>
           x4 == <<St("int", arg, [spec EXCEPT !.flags = {"HASH"}, !.type = "x"])>>
           x5 == <<St("double", arg, spec)>>
           x6 == <<St("str", arg, spec)>>
<1>1. PrintfStatements(arg, spec) =
        CASE arg.type = "CHAR" /\ spec.type = "c" -> x1
          [] arg.type = "CHAR" /\ spec.type # "c" -> x2
          [] arg.type \in IntegerTypes \ {"CHAR"} -> x3
          [] arg.type = "POINTER" -> x4
          [] arg.type = "DOUBLE" -> x5
          [] OTHER -> x6
  BY Zenon DEF PrintfStatements, CharSt, St
<1> HIDE DEF x1, x2, x3, x4, x5, x6
<1>2. "CHAR" \in IntegerTypes /\ "POINTER" \notin IntegerTypes /\ "DOUBLE" \notin IntegerTypes
      /\ "CHAR" # "POINTER" /\ "CHAR" # "DOUBLE" /\ "POINTER" # "DOUBLE"
  BY TypesAre
<1> DEFINE sts == PrintfStatements(arg, spec)
<1> HIDE DEF sts
<1>3. /\ arg.type = "CHAR" /\ spec.type = "c" => sts = x1
      /\ arg.type = "CHAR" /\ spec.type # "c" => sts = x2
      /\ arg.type \in IntegerTypes \ {"CHAR"} => sts = x3
      /\ arg.type = "POINTER" => sts = x4
      /\ arg.type = "DOUBLE" => sts = x5
      /\ arg.type \notin IntegerTypes \cup {"POINTER", "DOUBLE"} => sts = x6
  BY <1>1, <1>2 DEF sts
<1> QED
  BY <1>3, Zenon DEF sts, x1, x2, x3, x4, x5, x6

\* Lists of one statement and of two.
LEMMA FewStatements ==
  ASSUME NEW a, NEW b
  PROVE  /\ Len(<<a>>) = 1 /\ <<a>>[1] = a
         /\ Len(<<a, b>>) = 2 /\ <<a, b>>[1] = a /\ <<a, b>>[2] = b
OBVIOUS

\* What the statements of an integer show.
ShowsInteger(arg, length, conversion, spec, sts) ==
  \/ conversion = "c" /\ Len(sts) = 1 /\ IsChar(sts[1], arg.num, spec)
  \/ /\ conversion # "c"
     /\ sts[1].op = "int" /\ sts[1].spec = spec
     /\ Holds(arg, length, conversion \in {"d", "i"}, sts[1].num)
     /\ \/ Len(sts) = 1 /\ ~(arg.type = "CHAR" /\ length = <<"L">>)
        \/ Len(sts) = 2 /\ arg.type = "CHAR" /\ length = <<"L">>
           /\ IsChar(sts[2], arg.num, spec)

\* As a character.
LEMMA CharShows ==
  ASSUME NEW arg, NEW length, NEW spec, spec.type = "c", NEW given,
         DOMAIN given = ArgFields, given.num \in Int, arg.num \in Int,
         Differ(given.num, arg.num, CharWord)
  PROVE  ShowsInteger(arg, length, "c", spec, PrintfStatements(ToChar(given), spec))
<1> DEFINE n == AsSigned(given.num, CharWord)
           char == ToChar(given)
           st == CharSt(char, spec)
<1>1. CharWord \in Nat /\ 0 < CharWord /\ CharWord % 2 = 0 /\ CharWord = 1 * CharWord
  BY WordsAre
<1>2. Differ(n, given.num, CharWord) /\ n \in Int
  BY <1>1, SignedDiffers
<1>3. char = [given EXCEPT !.type = "CHAR", !.num = n]
  BY Zenon DEF ToChar
<1> HIDE DEF n
<1>4. Chr(n) = Chr(arg.num)
  <2>1. Differ(n, arg.num, CharWord)
    BY <1>1, <1>2, DifferFurther
  <2> QED
    BY <1>2, <2>1, ChrSame
<1> HIDE DEF char
<1>5. char.type = "CHAR" /\ char.num = n /\ DOMAIN char = ArgFields
  BY <1>3 DEF ArgFields
<1>6. IsChar(st, n, spec)
  BY <1>5, CharAsked, Zenon
<1>7. IsChar(st, arg.num, spec)
  BY <1>4, <1>6, Zenon DEF IsChar
<1>8. PrintfStatements(char, spec) = <<st>>
  BY <1>5, StatementsAre, Zenon
<1> HIDE DEF st
<1>9. Len(<<st>>) = 1 /\ <<st>>[1] = st
  BY FewStatements, Zenon
<1> QED
  BY <1>7, <1>8, <1>9, Zenon DEF ShowsInteger, char

\* As a number.
LEMMA NumberShows ==
  ASSUME NEW arg, DOMAIN arg = ArgFields, arg.num \in Int, arg.type \in IntegerTypes,
         NEW length, NEW c, c # "c",
         NEW spec, spec.type # "c"
  PROVE  ShowsInteger(arg, length, c, spec, PrintfStatements(Converted(arg, length, c), spec))
<1> DEFINE given == Converted(arg, length, c)
           st == St("int", given, spec)
           sts == PrintfStatements(given, spec)
<1>1. st.op = "int" /\ st.num = given.num /\ st.spec = spec
  <2> HIDE DEF given
  <2> QED
    BY DEF St
<1>2. Len(<<st>>) = 1 /\ <<st>>[1] = st
  BY FewStatements, Zenon
<1>3. CASE length # <<"L">>
  <2>1. given.type \in IntegerTypes \ {"CHAR"}
        /\ Holds(arg, length, c \in {"d", "i"}, given.num)
    BY <1>3, ConvertedHolds, Zenon
  <2>2. sts = <<st>>
    BY <2>1, StatementsAre, Zenon
  <2> HIDE DEF st, sts
  <2> QED
    BY <1>1, <1>2, <1>3, <2>1, <2>2, Zenon DEF ShowsInteger, sts
<1>4. CASE length = <<"L">>
  <2>1. given = arg
    BY <1>4, ConvertedHolds, Zenon
  <2>2. Holds(arg, length, c \in {"d", "i"}, given.num)
    BY <1>4, <2>1, Zenon DEF Holds
  <2>3. CASE arg.type = "CHAR"
    <3> DEFINE other == CharSt(given, spec)
    <3>1. sts = <<st, other>>
      BY <2>1, <2>3, StatementsAre, Zenon
    <3>2. IsChar(other, arg.num, spec)
      BY <2>1, CharAsked, Zenon
    <3> HIDE DEF st, sts, other
    <3>3. Len(sts) = 2 /\ sts[1] = st /\ sts[2] = other
      BY <3>1, FewStatements, Zenon
    <3> QED
      BY <1>1, <1>4, <2>2, <2>3, <3>2, <3>3, Zenon DEF ShowsInteger, sts
  <2>4. CASE arg.type # "CHAR"
    <3>1. given.type \in IntegerTypes \ {"CHAR"}
      <4>1. arg.type \notin {"CHAR"}
        BY <2>4
      <4> QED
        BY <2>1, <4>1, Zenon
    <3>2. sts = <<st>>
      BY <3>1, StatementsAre, Zenon
    <3> HIDE DEF st, sts
    <3> QED
      BY <1>1, <1>2, <2>2, <2>4, <3>2, Zenon DEF ShowsInteger, sts
  <2> QED
    BY <2>3, <2>4, Zenon
<1> QED
  BY <1>3, <1>4, Zenon

\* The statements show the argument as length and conversion say.
LEMMA StatementsShow ==
  ASSUME NEW arg, DOMAIN arg = ArgFields, arg.num \in Int, NEW length, NEW c
  PROVE  LET given == Converted(arg, length, c)
             whole == given.type \in IntegerTypes
             type  == IF whole /\ c \in {"i", "u"} THEN "d" ELSE c
             shown == IF whole /\ type = "c" THEN ToChar(given) ELSE given
         IN  /\ type = IF arg.type \in IntegerTypes /\ c \in {"i", "u"} THEN "d" ELSE c
             /\ \A spec : spec.type = type /\ ~PrintfRefuses(shown, spec) =>
                  PrintfShows(arg, length, c, spec, PrintfStatements(shown, spec))
<1> DEFINE given == Converted(arg, length, c)
           whole == given.type \in IntegerTypes
           type  == IF whole /\ c \in {"i", "u"} THEN "d" ELSE c
           shown == IF whole /\ type = "c" THEN ToChar(given) ELSE given
<1>1. whole <=> arg.type \in IntegerTypes
  <2>1. arg.type \notin IntegerTypes \/ length = <<"L">> => given = arg
    BY ConvertedHolds, Zenon
  <2>2. arg.type \in IntegerTypes /\ length # <<"L">> => given.type \in IntegerTypes
    BY ConvertedHolds, Zenon
  <2> HIDE DEF given
  <2> QED
    BY <2>1, <2>2, Zenon
<1>2. "i" # "c" /\ "u" # "c" /\ "d" # "c"
  OBVIOUS
<1>3. type = "c" <=> c = "c"
  <2>1. c \in {"i", "u"} => c # "c"
    BY <1>2
  <2> HIDE DEF whole
  <2> QED
    BY <1>2, <2>1, Zenon
<1>4. ASSUME NEW spec, spec.type = type, ~PrintfRefuses(shown, spec)
      PROVE  PrintfShows(arg, length, c, spec, PrintfStatements(shown, spec))
  <2> DEFINE sts == PrintfStatements(shown, spec)
  <2>1. CASE arg.type \in IntegerTypes
    <3>1. CASE c = "c"
      <4>1. shown = ToChar(given)
        BY <1>1, <1>3, <2>1, <3>1, Zenon
      <4>2. given.num \in Int /\ DOMAIN given = ArgFields /\ Differ(given.num, arg.num, CharWord)
        <5>1. CASE length = <<"L">>
          <6>1. given = arg /\ CharWord \in Nat
            BY <5>1, ConvertedHolds, WordsAre, Zenon
          <6> HIDE DEF given
          <6> QED
            BY <6>1, DifferNot, Zenon
        <5>2. CASE length # <<"L">>
          BY <2>1, <5>2, ConvertedHolds, Zenon
        <5> QED
          BY <5>1, <5>2, Zenon
      <4>3. spec.type = "c"
        BY <1>3, <1>4, <3>1, Zenon
      <4> HIDE DEF given, type, shown
      <4>4. ShowsInteger(arg, length, "c", spec, sts)
        BY <4>1, <4>2, <4>3, CharShows, Zenon
      <4>5. ShowsInteger(arg, length, c, spec, sts)
        BY <3>1, <4>4, Zenon
      <4> HIDE DEF sts
      <4> QED
        BY <2>1, <4>5, Zenon DEF PrintfShows, ShowsInteger, IsChar, sts
    <3>2. CASE c # "c"
      <4>1. shown = given /\ spec.type # "c"
        BY <1>3, <1>4, <3>2, Zenon
      <4> HIDE DEF type, shown
      <4>2. ShowsInteger(arg, length, c, spec, sts)
        BY <2>1, <3>2, <4>1, NumberShows, Zenon
      <4> HIDE DEF sts, given
      <4> QED
        BY <2>1, <4>2, Zenon DEF PrintfShows, ShowsInteger, IsChar, sts
    <3> QED
      BY <3>1, <3>2, Zenon
  <2>2. CASE arg.type \notin IntegerTypes
    <3>1. shown = arg
      <4>1. given = arg
        BY <2>2, ConvertedHolds, Zenon
      <4> QED
        BY <1>1, <2>2, <4>1, Zenon
    <3>2. spec.type = c
      <4>1. type = c
        BY <1>1, <2>2, Zenon
      <4> QED
        BY <1>4, <4>1, Zenon
    <3>3. ~PrintfRefuses(arg, spec)
      BY <1>4, <3>1, Zenon
    <3> HIDE DEF shown, type
    <3>4. CASE arg.type = "DOUBLE"
      <4>1. sts = <<St("double", arg, spec)>>
        BY <3>1, <3>4, StatementsAre, Zenon
      <4> HIDE DEF sts
      <4> QED
        BY <3>4, <4>1, Zenon DEF PrintfShows, sts
    <3>5. CASE arg.type = "POINTER"
      <4>1. sts = <<St("int", arg, [spec EXCEPT !.flags = {"HASH"}, !.type = "x"])>>
        BY <3>1, <3>5, StatementsAre, Zenon
      <4>2. c = "p"
        BY <3>2, <3>3, <3>5, Zenon DEF PrintfRefuses
      <4> HIDE DEF sts
      <4> QED
        BY <3>5, <4>1, <4>2, Zenon DEF PrintfShows, sts
    <3>6. CASE arg.type # "DOUBLE" /\ arg.type # "POINTER"
      <4>1. arg.type \notin IntegerTypes \cup {"POINTER", "DOUBLE"}
        BY <2>2, <3>6
      <4>2. sts = <<St("str", arg, spec)>>
        BY <3>1, <4>1, StatementsAre, Zenon
      <4>3. arg.type # "CUSTOM"
        BY <3>3, Zenon DEF PrintfRefuses
      <4>4. arg.type \notin NumericTypes \cup {"POINTER", "CUSTOM"}
        BY <2>2, <3>6, <4>3, TypesAre
      <4> HIDE DEF sts
      <4> QED
        BY <4>2, <4>4, Zenon DEF PrintfShows, sts
    <3> QED
      BY <3>4, <3>5, <3>6, Zenon
  <2> QED
    BY <2>1, <2>2, Zenon
<1> HIDE DEF given
<1>5. type = IF arg.type \in IntegerTypes /\ c \in {"i", "u"} THEN "d" ELSE c
  BY <1>1, Zenon
<1> QED
  BY <1>4, <1>5, Zenon DEF given

\* The field that ends with a conversion at last is cut before i, g, w and r, as its
\* meaning has it.
Shown(f, u, i, g, w, r, last) ==
  /\ w <= r /\ At(g) # "0" /\ WidthPart(g, w, f.spec, u)
  /\ \/ PrintfPrecisionIs(w, r, f.spec)
     \/ Point(w, r) /\ u[Len(u) - 1].auto
          /\ f.spec.precision = Value(u[Len(u) - 1]).num
  /\ Len(u) = 1 + Ones(Star(g, w)) + Ones(Point(w, r))
  /\ PrintfLayout(Given(i, g), LeftOf(i, g, w, f.spec, u), Value(u[Len(u)]), f.spec)
  /\ Src(r, last) \in Lengths
  /\ PrintfShows(Value(u[Len(u)]), Src(r, last), At(last), f.spec, f.sts)

\* So it means that.
LEMMA ShownDenotes ==
  ASSUME NEW f, NEW u, NEW last, f.upto - 1 = last, At(f.from) = "%",
         f.spec.type = IF Value(u[Len(u)]).type \in IntegerTypes /\ At(last) \in {"i", "u"}
                       THEN "d" ELSE At(last),
         NEW i \in (f.from + 1)..last,
         \/ i = f.from + 1 /\ u[Len(u)].auto
         \/ At(i - 1) = "$" /\ Names(f.from + 1, i - 1, u[Len(u)], 1),
         NEW g \in i..last, \A k \in i..(g - 1) : At(k) \in Flags,
         NEW w \in g..last, NEW r \in g..last, Shown(f, u, i, g, w, r, last)
  PROVE  PrintfDenotes(f, u)
<1> DEFINE n == Len(u)
           arg == Value(u[n])
           given == {At(k) : k \in i..(g - 1)}
           star == Src(g, w) = <<"*">>
           wide == IF star THEN Value(u[1]).num ELSE f.spec.width
           point == Src(w, r) = <<".", "*">>
           Inner == /\ w <= r /\ At(g) # "0"
                    /\ \/ w = g /\ f.spec.width = 0
                       \/ Means(g, w, f.spec.width)
                       \/ star /\ u[1].auto /\ f.spec.width = Abs(wide)
                    /\ \/ PrintfPrecisionIs(w, r, f.spec)
                       \/ point /\ u[n - 1].auto
                            /\ f.spec.precision = Value(u[n - 1]).num
                    /\ n = 1 + (IF star THEN 1 ELSE 0) + (IF point THEN 1 ELSE 0)
                    /\ PrintfLayout(given, "-" \in given \/ wide < 0, arg, f.spec)
                    /\ Src(r, last) \in Lengths
                    /\ PrintfShows(arg, Src(r, last), At(last), f.spec, f.sts)
<1>1. w <= r /\ At(g) # "0"
  BY Zenon DEF Shown
<1>2. \/ w = g /\ f.spec.width = 0
      \/ Means(g, w, f.spec.width)
      \/ star /\ u[1].auto /\ f.spec.width = Abs(wide)
  BY Zenon DEF Shown, WidthPart, Star
<1>3. \/ PrintfPrecisionIs(w, r, f.spec)
      \/ point /\ u[n - 1].auto /\ f.spec.precision = Value(u[n - 1]).num
  BY Zenon DEF Shown, Point
<1>4. n = 1 + (IF star THEN 1 ELSE 0) + (IF point THEN 1 ELSE 0)
  BY Zenon DEF Shown, Star, Point, Ones
<1>5. PrintfLayout(given, "-" \in given \/ wide < 0, arg, f.spec)
  BY Zenon DEF Shown, Given, LeftOf, Wide, Star
<1>6. Src(r, last) \in Lengths /\ PrintfShows(arg, Src(r, last), At(last), f.spec, f.sts)
  BY Zenon DEF Shown
<1>7. Inner
  BY <1>1, <1>2, <1>3, <1>4, <1>5, <1>6, Zenon
<1>8. \E w0 \in g..last, r0 \in g..last :
        LET star0  == Src(g, w0) = <<"*">>
            wide0  == IF star0 THEN Value(u[1]).num ELSE f.spec.width
            point0 == Src(w0, r0) = <<".", "*">>
        IN  /\ w0 <= r0 /\ At(g) # "0"
            /\ \/ w0 = g /\ f.spec.width = 0
               \/ Means(g, w0, f.spec.width)
               \/ star0 /\ u[1].auto /\ f.spec.width = Abs(wide0)
            /\ \/ PrintfPrecisionIs(w0, r0, f.spec)
               \/ point0 /\ u[n - 1].auto
                    /\ f.spec.precision = Value(u[n - 1]).num
            /\ n = 1 + (IF star0 THEN 1 ELSE 0) + (IF point0 THEN 1 ELSE 0)
            /\ PrintfLayout(given, "-" \in given \/ wide0 < 0, arg, f.spec)
            /\ Src(r0, last) \in Lengths
            /\ PrintfShows(arg, Src(r0, last), At(last), f.spec, f.sts)
  BY <1>7, Zenon
<1> HIDE DEF Inner
<1> QED
  BY <1>8, Zenon DEF PrintfDenotes

\* The layout with another type.
LEMMA LayoutKept ==
  ASSUME NEW given, NEW left, NEW arg, NEW spec, PrintfLayout(given, left, arg, spec),
         NEW r, r.fill = spec.fill, r.align = spec.align, r.flags = spec.flags
  PROVE  PrintfLayout(given, left, arg, r)
BY Zenon DEF PrintfLayout

\* What PrintfConversion makes of the argument and of its specification.
Converting(length, s, given, type, arg, spec) ==
  /\ length = LengthAt(p.s) /\ s = p.s + Len(length)
  /\ given = Converted(p.arg, length, At(s))
  /\ type = IF given.type \in IntegerTypes /\ At(s) \in {"i", "u"} THEN "d" ELSE At(s)
  /\ arg = IF given.type \in IntegerTypes /\ type = "c" THEN ToChar(given) ELSE given
  /\ spec = [p.spec EXCEPT !.type = type]

\* What is written is what the field means.
LEMMA PrintfConversionDenotes ==
  ASSUME Reads, PrintfSoFar(p, Own(p)), p.pc = "length",
         NEW length, NEW s, NEW given, NEW type, NEW arg, NEW spec,
         Converting(length, s, given, type, arg, spec), ~PrintfRefuses(arg, spec),
         NEW f, f.from = p.field, f.upto = s + 1, f.spec = spec,
         f.sts = PrintfStatements(arg, spec)
  PROVE  PrintfDenotes(f, Own(p))
<1>0. /\ length = LengthAt(p.s) /\ s = p.s + Len(length)
      /\ given = Converted(p.arg, length, At(s))
      /\ type = IF given.type \in IntegerTypes /\ At(s) \in {"i", "u"} THEN "d" ELSE At(s)
      /\ arg = IF given.type \in IntegerTypes /\ type = "c" THEN ToChar(given) ELSE given
      /\ spec = [p.spec EXCEPT !.type = type]
  BY Zenon DEF Converting
<1> DEFINE u == Own(p)
<1>1. /\ Text /\ p.s \in 1..(Len(fmt) + 1) /\ p.s \in Int /\ p.field \in Int
      /\ p.field \in 1..p.s /\ Len(fmt) \in Nat /\ DOMAIN p.spec = SpecFields
  BY HereInts, Zenon
<1>2. PICK i, g, w :
        /\ Sliced(p, u, i, g, w) /\ Final(i, g, w, p, u)
        /\ PrecisionPart(w, p.s, p.spec, u, Len(u) - 1)
        /\ Len(u) = 1 + Ones(Star(g, w)) + Ones(Point(w, p.s)) /\ Fetched(p, u, i)
  BY Zenon DEF PrintfSoFar, OnLength
<1>3. /\ length \in Lengths /\ Len(length) \in Nat /\ s \in p.s..(Len(fmt) + 1)
      /\ Src(p.s, s) = length
  BY <1>0, <1>1, LengthThere, Zenon
<1>4. /\ p.arg = Value(u[Len(u)]) /\ p.arg.num \in Int /\ DOMAIN p.arg = ArgFields
      /\ \/ i = p.field + 1 /\ u[Len(u)].auto
         \/ At(i - 1) = "$" /\ Names(p.field + 1, i - 1, u[Len(u)], 1)
  BY <1>2, Zenon DEF Fetched
<1>5. /\ spec.width = p.spec.width /\ spec.precision = p.spec.precision
      /\ spec.fill = p.spec.fill /\ spec.align = p.spec.align
      /\ spec.flags = p.spec.flags /\ spec.type = type
  BY <1>0, <1>1 DEF SpecFields
<1>6. /\ At(p.field) = "%" /\ i \in (p.field + 1)..p.s /\ g \in i..p.s /\ w \in g..p.s
      /\ \A k \in i..(g - 1) : At(k) \in Flags
      /\ At(g) # "0" /\ WidthPart(g, w, p.spec, u)
  BY <1>2, Zenon DEF Sliced
<1>7. i \in (p.field + 1)..p.s /\ g \in i..p.s /\ w \in g..p.s /\ s \in p.s..(Len(fmt) + 1)
  BY <1>3, <1>6, Zenon
<1>8. /\ (s + 1) - 1 = s /\ i \in (p.field + 1)..s /\ g \in i..s /\ w \in g..s
      /\ p.s \in g..s /\ w <= p.s
  BY <1>1, <1>7
<1>9. /\ type = IF p.arg.type \in IntegerTypes /\ At(s) \in {"i", "u"} THEN "d" ELSE At(s)
      /\ PrintfShows(p.arg, length, At(s), spec, PrintfStatements(arg, spec))
  <2> DEFINE c == At(s)
             G == Converted(p.arg, length, c)
             T == IF G.type \in IntegerTypes /\ c \in {"i", "u"} THEN "d" ELSE c
             A == IF G.type \in IntegerTypes /\ T = "c" THEN ToChar(G) ELSE G
  <2>1. p.arg.num \in Int /\ DOMAIN p.arg = ArgFields
    BY <1>4, Zenon
  <2>2. /\ T = IF p.arg.type \in IntegerTypes /\ c \in {"i", "u"} THEN "d" ELSE c
        /\ \A r : r.type = T /\ ~PrintfRefuses(A, r) =>
             PrintfShows(p.arg, length, c, r, PrintfStatements(A, r))
    <3> HIDE DEF c
    <3> QED
      BY <2>1, StatementsShow
  <2>3. given = G
    BY <1>0, Zenon
  <2>4. type = T
    BY <1>0, <2>3, Zenon
  <2>5. arg = A
    BY <1>0, <2>3, <2>4, Zenon
  <2> HIDE DEF T, A
  <2> QED
    BY <1>5, <2>2, <2>4, <2>5, Zenon
<1>10. Shown(f, u, i, g, w, p.s, s)
  <2>1. WidthPart(g, w, f.spec, u)
    BY <1>5, <1>6, Zenon DEF WidthPart
  <2>2. \/ PrintfPrecisionIs(w, p.s, f.spec)
        \/ Point(w, p.s) /\ u[Len(u) - 1].auto
             /\ f.spec.precision = Value(u[Len(u) - 1]).num
    BY <1>2, <1>5, Zenon DEF PrecisionPart, PrintfPrecisionIs
  <2>3. PrintfLayout(Given(i, g), LeftOf(i, g, w, f.spec, u), Value(u[Len(u)]), f.spec)
    <3>1. PrintfLayout(Given(i, g), LeftOf(i, g, w, p.spec, u), p.arg, p.spec)
      BY <1>2, Zenon DEF Final
    <3>2. Wide(g, w, spec, u) = Wide(g, w, p.spec, u)
      BY <1>5, Zenon DEF Wide
    <3>3. LeftOf(i, g, w, spec, u) = LeftOf(i, g, w, p.spec, u)
      BY <3>2, Zenon DEF LeftOf
    <3>4. PrintfLayout(Given(i, g), LeftOf(i, g, w, p.spec, u), p.arg, spec)
      BY <1>5, <3>1, LayoutKept, Zenon
    <3> HIDE DEF u
    <3> QED
      BY <1>4, <3>3, <3>4, Zenon
  <2>4. /\ Src(p.s, s) \in Lengths
        /\ PrintfShows(Value(u[Len(u)]), Src(p.s, s), At(s), f.spec, f.sts)
    BY <1>3, <1>4, <1>9, Zenon
  <2> HIDE DEF u
  <2> QED
    BY <1>2, <1>6, <1>8, <2>1, <2>2, <2>3, <2>4, Zenon DEF Shown
<1>11. /\ f.upto - 1 = s /\ At(f.from) = "%" /\ i \in (f.from + 1)..s
       /\ f.spec.type = IF Value(u[Len(u)]).type \in IntegerTypes /\ At(s) \in {"i", "u"}
                        THEN "d" ELSE At(s)
       /\ \/ i = f.from + 1 /\ u[Len(u)].auto
          \/ At(i - 1) = "$" /\ Names(f.from + 1, i - 1, u[Len(u)], 1)
  BY <1>4, <1>5, <1>6, <1>8, <1>9, Zenon
<1> HIDE DEF u
<1> QED
  BY <1>6, <1>8, <1>10, <1>11, ShownDenotes, Zenon DEF u

\* The parts of a field in the printf syntax stay what they are, too.
LEMMA SamePrintfParts ==
  ASSUME UNCHANGED input
  PROVE  /\ \A q, i : Indexes(q, i) => Indexes(q, i)'
         /\ \A g, w, spec, u : WidthPart(g, w, spec, u) => WidthPart(g, w, spec, u)'
         /\ \A w, r, spec : PrintfPrecisionIs(w, r, spec) => PrintfPrecisionIs(w, r, spec)'
         /\ \A w, r, spec, u, n : PrecisionPart(w, r, spec, u, n) => PrecisionPart(w, r, spec, u, n)'
         /\ \A g, w : Star(g, w)' = Star(g, w) /\ Point(g, w)' = Point(g, w)
         /\ \A i, g : Given(i, g)' = Given(i, g)
         /\ \A i, g, w, spec, u : LeftOf(i, g, w, spec, u)' = LeftOf(i, g, w, spec, u)
         /\ \A i, g, w, spec, u : Draft(i, g, w, spec, u) => Draft(i, g, w, spec, u)'
         /\ \A q, u, i, g, w : Sliced(q, u, i, g, w) => Sliced(q, u, i, g, w)'
         /\ \A i, g, w, q, u : Final(i, g, w, q, u) => Final(i, g, w, q, u)'
         /\ \A q, u, i : Fetched(q, u, i) => Fetched(q, u, i)'
         /\ \A i, j : Zeros(i, j) => Zeros(i, j)'
<1>1. /\ \A i : At(i)' = At(i)
      /\ \A i, j : Src(i, j)' = Src(i, j)
      /\ \A use : Value(use)' = Value(use)
      /\ \A i, j, n : Means(i, j, n) => Means(i, j, n)'
      /\ \A i, j, use, n : Names(i, j, use, n) => Names(i, j, use, n)'
  BY SameText, SameNames, Zenon
<1>2. ASSUME NEW q, NEW i, Indexes(q, i)
      PROVE  Indexes(q, i)'
  BY <1>1, <1>2, Zenon DEF Indexes
<1>3. ASSUME NEW g, NEW w
      PROVE  Star(g, w)' = Star(g, w) /\ Point(g, w)' = Point(g, w)
  BY <1>1, Zenon DEF Star, Point
<1>4. ASSUME NEW g, NEW w, NEW spec, NEW u, WidthPart(g, w, spec, u)
      PROVE  WidthPart(g, w, spec, u)'
  BY <1>1, <1>3, <1>4, Zenon DEF WidthPart
<1>5. ASSUME NEW w, NEW r, NEW spec, PrintfPrecisionIs(w, r, spec)
      PROVE  PrintfPrecisionIs(w, r, spec)'
  BY <1>1, <1>5, Zenon DEF PrintfPrecisionIs
<1>6. ASSUME NEW w, NEW r, NEW spec, NEW u, NEW n, PrecisionPart(w, r, spec, u, n)
      PROVE  PrecisionPart(w, r, spec, u, n)'
  BY <1>1, <1>3, <1>5, <1>6, Zenon DEF PrecisionPart
<1>7. ASSUME NEW i, NEW g
      PROVE  Given(i, g)' = Given(i, g)
  BY <1>1 DEF Given
<1>8. ASSUME NEW i, NEW g, NEW w, NEW spec, NEW u
      PROVE  LeftOf(i, g, w, spec, u)' = LeftOf(i, g, w, spec, u)
  <2>1. Wide(g, w, spec, u)' = Wide(g, w, spec, u)
    BY <1>1, <1>3, Zenon DEF Wide
  <2> QED
    BY <1>7, <2>1, Zenon DEF LeftOf
<1>9. ASSUME NEW i, NEW g, NEW w, NEW spec, NEW u, Draft(i, g, w, spec, u)
      PROVE  Draft(i, g, w, spec, u)'
  <2>1. Signs(Given(i, g))' = Signs(Given(i, g))
    BY <1>7, Zenon DEF Signs
  <2> QED
    BY <1>7, <1>8, <1>9, <2>1, Zenon DEF Draft
<1>10. ASSUME NEW q, NEW u, NEW i, NEW g, NEW w, Sliced(q, u, i, g, w)
       PROVE  Sliced(q, u, i, g, w)'
  BY <1>1, <1>4, <1>10, Zenon DEF Sliced
<1>11. ASSUME NEW i, NEW g, NEW w, NEW q, NEW u, Final(i, g, w, q, u)
       PROVE  Final(i, g, w, q, u)'
  BY <1>7, <1>8, <1>11, Zenon DEF Final
<1>12. ASSUME NEW q, NEW u, NEW i, Fetched(q, u, i)
       PROVE  Fetched(q, u, i)'
  BY <1>1, <1>12, Zenon DEF Fetched
<1>13. ASSUME NEW i, NEW j, Zeros(i, j)
       PROVE  Zeros(i, j)'
  BY <1>1, <1>13, Zenon DEF Zeros
<1> QED
  BY <1>2, <1>3, <1>4, <1>5, <1>6, <1>7, <1>8, <1>9, <1>10, <1>11, <1>12, <1>13, Zenon

\* How a field is cut.
LEMMA SameSlices ==
  ASSUME UNCHANGED input, NEW q, NEW u, PrintfSoFar(q, u)
  PROVE  PrintfSoFar(q, u)'
<1>1. /\ \A i : At(i)' = At(i)
      /\ \A i : Indexes(q, i) => Indexes(q, i)'
      /\ \A w, r, spec, n : PrecisionPart(w, r, spec, u, n) => PrecisionPart(w, r, spec, u, n)'
      /\ \A g, w : Star(g, w)' = Star(g, w) /\ Point(g, w)' = Point(g, w)
      /\ \A i, g, w, spec : Draft(i, g, w, spec, u) => Draft(i, g, w, spec, u)'
      /\ \A i, g, w : Sliced(q, u, i, g, w) => Sliced(q, u, i, g, w)'
      /\ \A i, g, w : Final(i, g, w, q, u) => Final(i, g, w, q, u)'
      /\ \A i : Fetched(q, u, i) => Fetched(q, u, i)'
      /\ \A i, j : Zeros(i, j) => Zeros(i, j)'
  BY SameText, SamePrintfParts, Zenon
<1>2. \A g, w : Ones(Star(g, w))' = Ones(Star(g, w)) /\ Ones(Point(g, w))' = Ones(Point(g, w))
  BY <1>1, Zenon DEF Ones
<1>3. OnHeader(q, u) => OnHeader(q, u)'
  BY <1>1, Zenon DEF OnHeader
<1>4. OnFlags(q, u) => OnFlags(q, u)'
  BY <1>1, Zenon DEF OnFlags
<1>5. OnWidth(q, u) => OnWidth(q, u)'
  BY <1>1, Zenon DEF OnWidth
<1>6. OnPrecision(q, u) => OnPrecision(q, u)'
  BY <1>1, <1>2, Zenon DEF OnPrecision
<1>7. OnArgument(q, u) => OnArgument(q, u)'
  BY <1>1, <1>2, Zenon DEF OnArgument
<1>8. OnLength(q, u) => OnLength(q, u)'
  BY <1>1, <1>2, Zenon DEF OnLength
<1> QED
  BY <1>3, <1>4, <1>5, <1>6, <1>7, <1>8, Zenon DEF PrintfSoFar

\* A field of the brace syntax means the same as long as string and arguments stay.
LEMMA SameBraceMeaning ==
  ASSUME UNCHANGED input, NEW f, NEW u, BraceDenotes(f, u)
  PROVE  BraceDenotes(f, u)'
<1> DEFINE last == f.upto - 1
           spec == f.spec
<1>1. /\ \A i : At(i)' = At(i)
      /\ \A i, j : Src(i, j)' = Src(i, j)
      /\ \A use : Value(use)' = Value(use)
      /\ \A i, j, n : Means(i, j, n) => Means(i, j, n)'
      /\ \A i, j, use, n : Names(i, j, use, n) => Names(i, j, use, n)'
      /\ \A i, j, s : BraceAlignment(i, j, s) => BraceAlignment(i, j, s)'
      /\ \A i, j, s : BraceSigns(i, j, s) => BraceSigns(i, j, s)'
      /\ \A i, j, s, v : BracePrecisionIs(i, j, s, v) => BracePrecisionIs(i, j, s, v)'
  BY SameText, SameNames, SameBraceParts, Zenon
<1>2. At(f.from) = "{" /\ At(last) = "}" /\ f.sts = <<Visit(Printed(Value(u[1])), spec)>>
  BY Zenon DEF BraceDenotes
<1>3. At(f.from)' = "{" /\ At(last)' = "}" /\ f.sts = <<Visit(Printed(Value(u[1])'), spec)>>
  BY <1>1, <1>2, Zenon
<1>4. PICK i \in (f.from + 1)..last :
           /\ Names(f.from + 1, i, u[1], 0)
           /\ \/ i = last /\ spec = NoSpec /\ Len(u) = 1
              \/ /\ At(i) = ":"
                 /\ \E a, h \in (i + 1)..last :
                    /\ a <= h /\ BraceSigns(a, h, spec)
                    /\ \E w \in h..last :
                       /\ IF w = h THEN spec.width = 0
                          ELSE Means(h, w, spec.width)
                       /\ IF w > h /\ At(h) = "0"
                          THEN /\ spec.align = "numeric" /\ spec.fill = "0"
                               /\ a = i + 1 \/ At(a - 1) \in Marks
                          ELSE BraceAlignment(i + 1, a, spec)
                       /\ \E r \in w..last :
                          /\ BracePrecisionIs(w, r, spec, u)
                          /\ Src(r, last) = IF spec.type = "" THEN <<>>
                                            ELSE <<spec.type>>
  BY Zenon DEF BraceDenotes
<1>5. Names(f.from + 1, i, u[1], 0)'
  BY <1>1, <1>4, Zenon
<1>6. CASE i = last /\ spec = NoSpec /\ Len(u) = 1
  BY <1>3, <1>5, <1>6, Zenon DEF BraceDenotes
<1>7. CASE ~(i = last /\ spec = NoSpec /\ Len(u) = 1)
  <2>1. At(i)' = ":"
    BY <1>1, <1>4, <1>7, Zenon
  <2>2. PICK a \in (i + 1)..last, h \in (i + 1)..last :
                    /\ a <= h /\ BraceSigns(a, h, spec)
                    /\ \E w \in h..last :
                       /\ IF w = h THEN spec.width = 0
                          ELSE Means(h, w, spec.width)
                       /\ IF w > h /\ At(h) = "0"
                          THEN /\ spec.align = "numeric" /\ spec.fill = "0"
                               /\ a = i + 1 \/ At(a - 1) \in Marks
                          ELSE BraceAlignment(i + 1, a, spec)
                       /\ \E r \in w..last :
                          /\ BracePrecisionIs(w, r, spec, u)
                          /\ Src(r, last) = IF spec.type = "" THEN <<>>
                                            ELSE <<spec.type>>
    BY <1>4, <1>7, Zenon
  <2>3. PICK w \in h..last :
                       /\ IF w = h THEN spec.width = 0
                          ELSE Means(h, w, spec.width)
                       /\ IF w > h /\ At(h) = "0"
                          THEN /\ spec.align = "numeric" /\ spec.fill = "0"
                               /\ a = i + 1 \/ At(a - 1) \in Marks
                          ELSE BraceAlignment(i + 1, a, spec)
                       /\ \E r \in w..last :
                          /\ BracePrecisionIs(w, r, spec, u)
                          /\ Src(r, last) = IF spec.type = "" THEN <<>>
                                            ELSE <<spec.type>>
    BY <2>2, Zenon
  <2>4. PICK r \in w..last :
                          /\ BracePrecisionIs(w, r, spec, u)
                          /\ Src(r, last) = IF spec.type = "" THEN <<>>
                                            ELSE <<spec.type>>
    BY <2>3, Zenon
  <2>5. /\ BracePrecisionIs(w, r, spec, u)'
        /\ Src(r, last)' = IF spec.type = "" THEN <<>> ELSE <<spec.type>>
    BY <1>1, <2>4, Zenon
  <2>6. a <= h /\ BraceSigns(a, h, spec)'
    BY <1>1, <2>2, Zenon
  <2>7. IF w = h THEN spec.width = 0 ELSE Means(h, w, spec.width)'
    BY <1>1, <2>3, Zenon
  <2>8. IF w > h /\ At(h)' = "0"
        THEN /\ spec.align = "numeric" /\ spec.fill = "0"
             /\ a = i + 1 \/ At(a - 1)' \in Marks
        ELSE BraceAlignment(i + 1, a, spec)'
    BY <1>1, <2>3, Zenon
  <2> QED
    BY <1>3, <1>5, <2>1, <2>5, <2>6, <2>7, <2>8, Zenon DEF BraceDenotes
<1> QED
  BY <1>6, <1>7

\* A field of the printf syntax, too.
LEMMA SamePrintfMeaning ==
  ASSUME UNCHANGED input, NEW f, NEW u, PrintfDenotes(f, u)
  PROVE  PrintfDenotes(f, u)'
<1> DEFINE last == f.upto - 1
           n == Len(u)
<1>1. /\ \A k : At(k)' = At(k)
      /\ \A k, j : Src(k, j)' = Src(k, j)
      /\ \A use : Value(use)' = Value(use)
      /\ \A i, j, m : Means(i, j, m) => Means(i, j, m)'
      /\ \A i, j, use, m : Names(i, j, use, m) => Names(i, j, use, m)'
      /\ \A i, j, s : PrintfPrecisionIs(i, j, s) => PrintfPrecisionIs(i, j, s)'
      /\ \A i, g : Given(i, g)' = Given(i, g)
  BY SameText, SameNames, SamePrintfParts, Zenon
<1>2. PICK i \in (f.from + 1)..last :
           /\ \/ i = f.from + 1 /\ u[n].auto
              \/ At(i - 1) = "$" /\ Names(f.from + 1, i - 1, u[n], 1)
           /\ \E g \in i..last :
              /\ \A k \in i..(g - 1) : At(k) \in Flags
              /\ \E w \in g..last, r \in g..last :
                 LET given == {At(k) : k \in i..(g - 1)}
                     star  == Src(g, w) = <<"*">>
                     wide  == IF star THEN Value(u[1]).num ELSE f.spec.width
                     point == Src(w, r) = <<".", "*">>
                 IN  /\ w <= r /\ At(g) # "0"
                     /\ \/ w = g /\ f.spec.width = 0
                        \/ Means(g, w, f.spec.width)
                        \/ star /\ u[1].auto /\ f.spec.width = Abs(wide)
                     /\ \/ PrintfPrecisionIs(w, r, f.spec)
                        \/ point /\ u[n - 1].auto
                             /\ f.spec.precision = Value(u[n - 1]).num
                     /\ n = 1 + (IF star THEN 1 ELSE 0) + (IF point THEN 1 ELSE 0)
                     /\ PrintfLayout(given, "-" \in given \/ wide < 0, Value(u[n]), f.spec)
                     /\ Src(r, last) \in Lengths
                     /\ PrintfShows(Value(u[n]), Src(r, last), At(last), f.spec, f.sts)
  BY Zenon DEF PrintfDenotes
<1>3. PICK g \in i..last :
              /\ \A k \in i..(g - 1) : At(k) \in Flags
              /\ \E w \in g..last, r \in g..last :
                 LET given == {At(k) : k \in i..(g - 1)}
                     star  == Src(g, w) = <<"*">>
                     wide  == IF star THEN Value(u[1]).num ELSE f.spec.width
                     point == Src(w, r) = <<".", "*">>
                 IN  /\ w <= r /\ At(g) # "0"
                     /\ \/ w = g /\ f.spec.width = 0
                        \/ Means(g, w, f.spec.width)
                        \/ star /\ u[1].auto /\ f.spec.width = Abs(wide)
                     /\ \/ PrintfPrecisionIs(w, r, f.spec)
                        \/ point /\ u[n - 1].auto
                             /\ f.spec.precision = Value(u[n - 1]).num
                     /\ n = 1 + (IF star THEN 1 ELSE 0) + (IF point THEN 1 ELSE 0)
                     /\ PrintfLayout(given, "-" \in given \/ wide < 0, Value(u[n]), f.spec)
                     /\ Src(r, last) \in Lengths
                     /\ PrintfShows(Value(u[n]), Src(r, last), At(last), f.spec, f.sts)
  BY <1>2, Zenon
<1> DEFINE given == {At(k) : k \in i..(g - 1)}
<1>4. PICK w \in g..last, r \in g..last :
                 LET star  == Src(g, w) = <<"*">>
                     wide  == IF star THEN Value(u[1]).num ELSE f.spec.width
                     point == Src(w, r) = <<".", "*">>
                 IN  /\ w <= r /\ At(g) # "0"
                     /\ \/ w = g /\ f.spec.width = 0
                        \/ Means(g, w, f.spec.width)
                        \/ star /\ u[1].auto /\ f.spec.width = Abs(wide)
                     /\ \/ PrintfPrecisionIs(w, r, f.spec)
                        \/ point /\ u[n - 1].auto
                             /\ f.spec.precision = Value(u[n - 1]).num
                     /\ n = 1 + (IF star THEN 1 ELSE 0) + (IF point THEN 1 ELSE 0)
                     /\ PrintfLayout(given, "-" \in given \/ wide < 0, Value(u[n]), f.spec)
                     /\ Src(r, last) \in Lengths
                     /\ PrintfShows(Value(u[n]), Src(r, last), At(last), f.spec, f.sts)
  BY <1>3, Zenon
<1> DEFINE star == Src(g, w) = <<"*">>
           wide == IF star THEN Value(u[1]).num ELSE f.spec.width
           point == Src(w, r) = <<".", "*">>
<1>5. /\ w <= r /\ At(g) # "0"
      /\ \/ w = g /\ f.spec.width = 0
         \/ Means(g, w, f.spec.width)
         \/ star /\ u[1].auto /\ f.spec.width = Abs(wide)
      /\ \/ PrintfPrecisionIs(w, r, f.spec)
         \/ point /\ u[n - 1].auto /\ f.spec.precision = Value(u[n - 1]).num
      /\ n = 1 + (IF star THEN 1 ELSE 0) + (IF point THEN 1 ELSE 0)
      /\ PrintfLayout(given, "-" \in given \/ wide < 0, Value(u[n]), f.spec)
      /\ Src(r, last) \in Lengths
      /\ PrintfShows(Value(u[n]), Src(r, last), At(last), f.spec, f.sts)
  BY <1>4, Zenon
<1>6. given' = given
  BY <1>1, Zenon DEF Given
<1>7. (At(f.from) = "%" /\ f.spec.type = IF Value(u[n]).type \in IntegerTypes
                                            /\ At(last) \in {"i", "u"}
                                         THEN "d" ELSE At(last))'
  <2>1. /\ At(f.from) = "%"
        /\ f.spec.type = IF Value(u[n]).type \in IntegerTypes /\ At(last) \in {"i", "u"}
                         THEN "d" ELSE At(last)
    BY Zenon DEF PrintfDenotes
  <2> QED
    BY <1>1, <2>1, Zenon
<1>8. (\/ i = f.from + 1 /\ u[n].auto
       \/ At(i - 1) = "$" /\ Names(f.from + 1, i - 1, u[n], 1))'
  BY <1>1, <1>2, Zenon
<1>9. (\A k \in i..(g - 1) : At(k) \in Flags)'
  BY <1>1, <1>3, Zenon
<1>10. star' = star /\ wide' = wide /\ point' = point
  BY <1>1, Zenon
<1> HIDE DEF given, star, wide, point
<1>11. (/\ w <= r /\ At(g) # "0"
        /\ \/ w = g /\ f.spec.width = 0
           \/ Means(g, w, f.spec.width)
           \/ star /\ u[1].auto /\ f.spec.width = Abs(wide)
        /\ \/ PrintfPrecisionIs(w, r, f.spec)
           \/ point /\ u[n - 1].auto /\ f.spec.precision = Value(u[n - 1]).num
        /\ n = 1 + (IF star THEN 1 ELSE 0) + (IF point THEN 1 ELSE 0)
        /\ PrintfLayout(given, "-" \in given \/ wide < 0, Value(u[n]), f.spec)
        /\ Src(r, last) \in Lengths
        /\ PrintfShows(Value(u[n]), Src(r, last), At(last), f.spec, f.sts))'
  <2>1. (w <= r /\ At(g) # "0")'
    BY <1>1, <1>5, Zenon
  <2>2. (\/ w = g /\ f.spec.width = 0
         \/ Means(g, w, f.spec.width)
         \/ star /\ u[1].auto /\ f.spec.width = Abs(wide))'
    BY <1>1, <1>5, <1>10, Zenon
  <2>3. (\/ PrintfPrecisionIs(w, r, f.spec)
         \/ point /\ u[n - 1].auto /\ f.spec.precision = Value(u[n - 1]).num)'
    BY <1>1, <1>5, <1>10, Zenon
  <2>4. (n = 1 + (IF star THEN 1 ELSE 0) + (IF point THEN 1 ELSE 0))'
    BY <1>5, <1>10, Zenon
  <2>5. PrintfLayout(given, "-" \in given \/ wide < 0, Value(u[n]), f.spec)'
    BY <1>1, <1>5, <1>6, <1>10, Zenon
  <2>6. (/\ Src(r, last) \in Lengths
         /\ PrintfShows(Value(u[n]), Src(r, last), At(last), f.spec, f.sts))'
    BY <1>1, <1>5, Zenon
  <2> QED
    BY <2>1, <2>2, <2>3, <2>4, <2>5, <2>6, Zenon
<1>12. (\E w0 \in g..last, r0 \in g..last :
          LET star0  == Src(g, w0) = <<"*">>
              wide0  == IF star0 THEN Value(u[1]).num ELSE f.spec.width
              point0 == Src(w0, r0) = <<".", "*">>
          IN  /\ w0 <= r0 /\ At(g) # "0"
              /\ \/ w0 = g /\ f.spec.width = 0
                 \/ Means(g, w0, f.spec.width)
                 \/ star0 /\ u[1].auto /\ f.spec.width = Abs(wide0)
              /\ \/ PrintfPrecisionIs(w0, r0, f.spec)
                 \/ point0 /\ u[n - 1].auto
                      /\ f.spec.precision = Value(u[n - 1]).num
              /\ n = 1 + (IF star0 THEN 1 ELSE 0) + (IF point0 THEN 1 ELSE 0)
              /\ PrintfLayout(given, "-" \in given \/ wide0 < 0, Value(u[n]), f.spec)
              /\ Src(r0, last) \in Lengths
              /\ PrintfShows(Value(u[n]), Src(r0, last), At(last), f.spec, f.sts))'
  BY <1>11, Zenon DEF star, wide, point
<1> QED
  BY <1>7, <1>8, <1>9, <1>12, Zenon DEF PrintfDenotes, given

-----------------------------------------------------------------------------
(* A step keeps what fields mean                                           *)

\* The parts of a field that were read so far say what the parser's fields hold.
ReadSoFar(q, u) == IF syntax = "brace" THEN BraceSoFar(q, u) ELSE PrintfSoFar(q, u)
Meant(q) == q.pc \in FieldParts => Behead(q) /\ ReadSoFar(q, Own(q))

\* A piece means what its statements say, with the arguments of its own.
Denotes(f, u) == IF syntax = "brace" THEN BraceDenotes(f, u) ELSE PrintfDenotes(f, u)

Fields == Chars /\ Meant(p) /\ FieldsDenote

\* String and arguments stay, and so does what was read.
LEMMA SameSoFar ==
  ASSUME UNCHANGED input, NEW q, NEW u
  PROVE  /\ ReadSoFar(q, u) => ReadSoFar(q, u)'
         /\ \A f : Denotes(f, u) => Denotes(f, u)'
         /\ Chars => Chars'
<1>1. syntax' = syntax /\ fmt' = fmt
  BY DEF input
<1>2. ReadSoFar(q, u) => ReadSoFar(q, u)'
  BY <1>1, SameCut, SameSlices, Zenon DEF ReadSoFar
<1>3. ASSUME NEW f, Denotes(f, u)
      PROVE  Denotes(f, u)'
  BY <1>1, <1>3, SameBraceMeaning, SamePrintfMeaning, Zenon DEF Denotes
<1>4. Chars => Chars'
  BY <1>1, Zenon DEF Chars
<1> QED
  BY <1>2, <1>3, <1>4, Zenon

\* To the next part of a field.
LEMMA GoFields ==
  ASSUME Chars, NEW q, Go(q), q.pc \in FieldParts, Behead(q), ReadSoFar(q, Own(q))
  PROVE  Fields'
<1>1. p' = q /\ pieces' = pieces /\ UNCHANGED input
  BY Zenon DEF Go
<1> DEFINE u == Own(q)
<1>2. ReadSoFar(q, u)' /\ Chars'
  <2>1. ReadSoFar(q, u)
    OBVIOUS
  <2> HIDE DEF u
  <2>2. PICK v : v = u
    OBVIOUS
  <2>3. ReadSoFar(q, v)' /\ Chars'
    BY <1>1, <2>1, <2>2, SameSoFar, Zenon
  <2>4. u' = u
    BY <1>1, Zenon DEF u, Own, Before
  <2> QED
    BY <2>2, <2>3, <2>4, Zenon
<1>3. Behead(q)'
  BY <1>1, Zenon DEF Behead, Before
<1>4. (Behead(p) /\ ReadSoFar(p, Own(p)))'
  BY <1>1, <1>2, <1>3, Zenon
<1>5. q.pc # "text"
  BY DEF FieldParts
<1>6. FieldsDenote'
  BY <1>1, <1>5, Zenon DEF FieldsDenote
<1> QED
  BY <1>2, <1>4, <1>6, Zenon DEF Fields, Meant

\* A parser that failed.
LEMMA FailFields ==
  ASSUME Chars, DOMAIN p = ParserFields, NEW why, Fail(why)
  PROVE  Fields'
<1>1. UNCHANGED input /\ p' = [p EXCEPT !.pc = "error", !.error = why]
  BY Zenon DEF Fail, Go
<1>2. p'.pc = "error"
  BY <1>1 DEF ParserFields
<1>3. p'.pc # "text" /\ p'.pc \notin FieldParts
  BY <1>2 DEF FieldParts
<1>4. Chars'
  BY <1>1, SameSoFar, Zenon
<1> QED
  BY <1>3, <1>4, Zenon DEF Fields, Meant, FieldsDenote

\* The last piece and the one before it.
LEMMA LastPiece ==
  ASSUME TInv, NEW f, pieces' = Append(pieces, f)
  PROVE  /\ \E W : pieces' \in Seq(W) /\ pieces' # << >>
         /\ pieces'[Len(pieces')] = f
         /\ pieces # << >> => pieces'[Len(pieces') - 1] = pieces[Len(pieces)]
<1>1. PICK U : pieces \in Seq(U)
  BY DEF TInv, Kept
<1> DEFINE W == U \cup {f}
           n == Len(pieces)
<1>2. pieces \in Seq(W) /\ f \in W /\ n \in Nat
  BY <1>1
<1> HIDE DEF W
<1>3. Append(pieces, f) \in Seq(W) /\ Len(Append(pieces, f)) = n + 1
  BY <1>2
<1>4. Append(pieces, f)[n + 1] = f
  BY <1>2
<1>5. pieces # << >> => Append(pieces, f)[n] = pieces[n]
  BY <1>2
<1>6. (n + 1) - 1 = n /\ Append(pieces, f) # << >>
  BY <1>2, <1>3
<1> QED
  BY <1>3, <1>4, <1>5, <1>6, Zenon

\* Text was handed over, and no field begins.
LEMMA TextFields ==
  ASSUME Chars, TInv, NEW to, NEW upto, NEW q, WriteText(to, upto, q),
         q.pc \notin FieldParts
  PROVE  Fields'
<1> DEFINE f == Piece(p.start, upto, NoSpec, <<TextSt(p.start, to)>>)
<1>1. pieces' = Append(pieces, f) /\ p' = q /\ UNCHANGED input
  BY Zenon DEF WriteText
<1>2. f.sts[1].op = "text"
  BY DEF Piece, TextSt
<1> HIDE DEF f
<1>3. pieces'[Len(pieces')] = f
  BY <1>1, LastPiece, Zenon
<1>4. FieldsDenote'
  BY <1>2, <1>3, Zenon DEF FieldsDenote
<1>5. Chars'
  BY <1>1, SameSoFar, Zenon
<1> QED
  BY <1>1, <1>4, <1>5, Zenon DEF Fields, Meant

\* Text was handed over, and a field begins.
LEMMA BeginFields ==
  ASSUME Chars, IInv, TInv, NEW to, NEW upto, NEW q, WriteText(to, upto, q),
         q.pc \in FieldParts, q.uses = p.uses, ReadSoFar(q, << >>)
  PROVE  Fields'
<1> DEFINE f == Piece(p.start, upto, NoSpec, <<TextSt(p.start, to)>>)
<1>1. pieces' = Append(pieces, f) /\ p' = q /\ UNCHANGED input
  BY Zenon DEF WriteText
<1>2. f.uses = p.uses
  BY DEF Piece
<1> HIDE DEF f
<1>3. pieces'[Len(pieces')] = f /\ \E W : pieces' \in Seq(W) /\ pieces' # << >>
  BY <1>1, LastPiece, Zenon
<1>4. Before' = Len(p.uses)
  BY <1>2, <1>3, Zenon DEF Before
<1>5. PICK U : p.uses \in Seq(U)
  BY DEF IInv, Indexed
<1>6. Len(p.uses) \in Nat /\ Len(p.uses) <= Len(p.uses)
      /\ SubSeq(p.uses, Len(p.uses) + 1, Len(p.uses)) = << >>
  BY <1>5
<1>7. Own(p)' = << >>
  BY <1>1, <1>4, <1>6, Zenon DEF Own
<1>8. Behead(p)'
  BY <1>1, <1>3, <1>4, <1>6, Zenon DEF Behead
<1>9. ReadSoFar(q, << >>)' /\ Chars'
  BY <1>1, SameSoFar, Zenon
<1>10. (ReadSoFar(p, Own(p)))'
  BY <1>1, <1>7, <1>9, Zenon
<1>11. q.pc # "text"
  BY DEF FieldParts
<1>12. FieldsDenote'
  BY <1>1, <1>11, Zenon DEF FieldsDenote
<1> QED
  BY <1>8, <1>9, <1>10, <1>12, Zenon DEF Fields, Meant

\* A field was handed over.
LEMMA WriteFields ==
  ASSUME Chars, IInv, TInv, Behead(p), NEW upto, NEW spec, NEW sts,
         WriteField(upto, spec, sts), Denotes(Piece(p.field, upto, spec, sts), Own(p))
  PROVE  Fields'
<1> DEFINE f == Piece(p.field, upto, spec, sts)
           q == [p EXCEPT !.s = upto, !.start = upto, !.pc = "text"]
<1>1. DOMAIN p = ParserFields
  BY DEF IInv, Indexed
<1>2. CASE Fail("refused by the writer")
  BY <1>1, <1>2, FailFields
<1>3. CASE pieces' = Append(pieces, f) /\ p' = q /\ UNCHANGED input
  <2>1. f.uses = p.uses
    BY DEF Piece
  <2>2. q.pc = "text"
    BY <1>1 DEF ParserFields
  <2>3. q.pc \notin FieldParts
    BY <2>2 DEF FieldParts
  <2>4. Denotes(f, Own(p))
    OBVIOUS
  <2> HIDE DEF f, q
  <2>5. PICK g, u : g = f /\ u = Own(p)
    OBVIOUS
  <2>6. Denotes(g, u)' /\ Chars'
    BY <1>3, <2>4, <2>5, SameSoFar, Zenon
  <2>7. /\ pieces'[Len(pieces')] = g
        /\ pieces'[Len(pieces') - 1] = pieces[Len(pieces)]
    BY <1>3, <2>5, LastPiece, Zenon DEF Behead
  <2>8. u = SubSeq(g.uses, Len(pieces[Len(pieces)].uses) + 1, Len(g.uses))
    BY <2>1, <2>5, Zenon DEF Own, Before
  <2>9. (Denotes(pieces[Len(pieces)],
                 SubSeq(pieces[Len(pieces)].uses,
                        Len(pieces[Len(pieces) - 1].uses) + 1,
                        Len(pieces[Len(pieces)].uses))))'
    BY <2>6, <2>7, <2>8, Zenon
  <2>10. FieldsDenote'
    BY <2>9, Zenon DEF FieldsDenote, Denotes
  <2> QED
    BY <1>3, <2>3, <2>6, <2>10, Zenon DEF Fields, Meant
<1> QED
  BY <1>2, <1>3 DEF WriteField

\* The beginning of a field in the brace syntax.
LEMMA BraceFieldFields ==
  ASSUME IInv, TInv, Reads, Fields, syntax = "brace", BraceField
  PROVE  Fields'
<1> DEFINE j == StopAt(p.s, Braces)
           q == [p EXCEPT !.s = j + 1, !.field = j, !.pc = "index"]
<1>1. WriteText(j, j, q) /\ At(j) = "{"
  BY Zenon DEF BraceField
<1>2. DOMAIN p = ParserFields
  BY HereInts, Zenon
<1>3. q.s = j + 1 /\ q.field = j /\ q.pc = "index" /\ q.uses = p.uses
  BY <1>2 DEF ParserFields
<1> HIDE DEF j, q
<1>4. AtIndex(q, << >>)
  BY <1>1, <1>3, Zenon DEF AtIndex
<1>5. /\ q.pc \in FieldParts /\ q.pc # "align" /\ q.pc # "sign" /\ q.pc # "hash"
      /\ q.pc # "width" /\ q.pc # "precision" /\ q.pc # "type" /\ q.pc # "close"
  BY <1>3 DEF FieldParts
<1>6. ReadSoFar(q, << >>)
  BY <1>4, <1>5, Zenon DEF ReadSoFar, BraceSoFar
<1> QED
  BY <1>1, <1>3, <1>5, <1>6, BeginFields, Zenon DEF Fields

\* The end of a field in the brace syntax.
LEMMA BraceCloseFields ==
  ASSUME IInv, TInv, Reads, Fields, syntax = "brace", BraceClose
  PROVE  Fields'
<1>1. DOMAIN p = ParserFields /\ Chars
  BY HereInts, Zenon DEF Fields
<1>2. p.pc = "close" /\ p.pc \in FieldParts
  BY DEF BraceClose, FieldParts
<1>3. Behead(p) /\ BraceSoFar(p, Own(p))
  BY <1>2, Zenon DEF Fields, Meant, ReadSoFar
<1>4. \/ Fail("missing '}'") \/ Fail("refused by the formatter")
      \/ At(p.s) = "}" /\ WriteField(p.s + 1, p.spec, <<Visit(p.arg, p.spec)>>)
  BY Zenon DEF BraceClose
<1> DEFINE f == Piece(p.field, p.s + 1, p.spec, <<Visit(p.arg, p.spec)>>)
<1>5. ASSUME At(p.s) = "}", WriteField(p.s + 1, p.spec, <<Visit(p.arg, p.spec)>>)
      PROVE  Fields'
  <2>1. /\ f.from = p.field /\ f.upto = p.s + 1 /\ f.spec = p.spec
        /\ f.sts = <<Visit(p.arg, p.spec)>>
    BY DEF Piece
  <2> HIDE DEF f
  <2>2. BraceDenotes(f, Own(p))
    BY <1>2, <1>3, <1>5, <2>1, BraceCloseDenotes, Zenon
  <2>3. Denotes(f, Own(p))
    BY <2>2, Zenon DEF Denotes
  <2> QED
    BY <1>1, <1>3, <1>5, <2>3, WriteFields, Zenon DEF f
<1> QED
  BY <1>1, <1>4, <1>5, FailFields, Zenon

\* A part of a field in the brace syntax.
LEMMA BracePartFields ==
  ASSUME IInv, Reads, Fields, syntax = "brace",
         \/ BraceIndex \/ BraceAlign \/ BraceSign \/ BraceHash \/ BraceWidth
         \/ BracePrecision \/ BraceType
  PROVE  Fields'
<1>1. DOMAIN p = ParserFields /\ Chars
  BY HereInts, Zenon DEF Fields
<1>2. p.pc \in FieldParts
  BY DEF BraceIndex, BraceAlign, BraceSign, BraceHash, BraceWidth, BracePrecision, BraceType,
         FieldParts
<1>3. Behead(p) /\ BraceSoFar(p, Own(p))
  BY <1>2, Zenon DEF Fields, Meant, ReadSoFar
<1>4. BraceGoes
  BY <1>1, <1>3, BraceIndexGoes, BraceAlignGoes, BraceSignGoes, BraceHashGoes,
     BraceWidthGoes, BracePrecisionGoes, BraceTypeGoes, Zenon
<1>5. CASE Fails
  BY <1>1, <1>5, FailFields, Zenon DEF Fails
<1>6. ASSUME NEW q, Go(q), BraceField0(q)
      PROVE  Fields'
  BY <1>1, <1>6, GoFields, Zenon DEF BraceField0, ReadSoFar
<1> QED
  BY <1>4, <1>5, <1>6, Zenon DEF BraceGoes

\* Every action of the brace syntax.
LEMMA BraceFields ==
  ASSUME IInv, TInv, Reads, Fields, BraceNext
  PROVE  Fields'
<1>1. DOMAIN p = ParserFields /\ Chars /\ syntax = "brace"
  BY HereInts, Zenon DEF Fields, BraceNext
<1> DEFINE j == StopAt(p.s, Braces)
<1>2. CASE BraceEnd
  <2> DEFINE q == [p EXCEPT !.s = j, !.start = j, !.pc = "done"]
  <2>1. q.pc \notin FieldParts
    BY <1>1 DEF ParserFields, FieldParts
  <2>2. WriteText(j, j, q)
    BY <1>2, Zenon DEF BraceEnd
  <2> HIDE DEF q, j
  <2> QED
    BY <1>1, <2>1, <2>2, TextFields, Zenon
<1>3. CASE BraceEscape
  <2> DEFINE q == [p EXCEPT !.s = j + 2, !.start = j + 2]
  <2>1. p.pc = "text" /\ WriteText(j + 1, j + 2, q)
    BY <1>3, Zenon DEF BraceEscape
  <2>2. q.pc \notin FieldParts
    BY <1>1, <2>1 DEF ParserFields, FieldParts
  <2> HIDE DEF q, j
  <2> QED
    BY <1>1, <2>1, <2>2, TextFields, Zenon
<1>4. CASE BraceUnmatched
  BY <1>1, <1>4, FailFields, Zenon DEF BraceUnmatched
<1> QED
  BY <1>1, <1>2, <1>3, <1>4, BraceFieldFields, BraceCloseFields, BracePartFields,
     Zenon DEF BraceNext

\* The beginning of a field in the printf syntax.
LEMMA PrintfFieldFields ==
  ASSUME IInv, TInv, Reads, Fields, syntax # "brace", PrintfField
  PROVE  Fields'
<1> DEFINE j == StopAt(p.s, {"%"})
           spec == [NoSpec EXCEPT !.align = "right"]
           q == [p EXCEPT !.s = j + 1, !.field = j, !.pc = "header", !.index = AUTO,
                          !.spec = spec]
<1>1. WriteText(j, j, q) /\ At(j) = "%"
  BY Zenon DEF PrintfField
<1>2. DOMAIN p = ParserFields
  BY HereInts, Zenon
<1> HIDE DEF j, spec
<1>3. /\ q.s = j + 1 /\ q.field = j /\ q.pc = "header" /\ q.uses = p.uses
      /\ q.index = AUTO /\ q.spec = spec
  BY <1>2 DEF ParserFields
<1> HIDE DEF q
<1>4. OnHeader(q, << >>)
  BY <1>1, <1>3, Zenon DEF OnHeader, spec
<1>5. /\ q.pc \in FieldParts /\ q.pc # "flags" /\ q.pc # "width" /\ q.pc # "precision"
      /\ q.pc # "argument" /\ q.pc # "length"
  BY <1>3 DEF FieldParts
<1>6. ReadSoFar(q, << >>)
  BY <1>4, <1>5, Zenon DEF ReadSoFar, PrintfSoFar
<1> QED
  BY <1>1, <1>3, <1>5, <1>6, BeginFields, Zenon DEF Fields

\* The end of a field in the printf syntax.
LEMMA PrintfConversionFields ==
  ASSUME IInv, TInv, Reads, Fields, syntax # "brace", PrintfConversion
  PROVE  Fields'
<1>1. DOMAIN p = ParserFields /\ Chars
  BY HereInts, Zenon DEF Fields
<1>2. p.pc = "length" /\ p.pc \in FieldParts
  BY DEF PrintfConversion, FieldParts
<1>3. Behead(p) /\ PrintfSoFar(p, Own(p))
  BY <1>2, Zenon DEF Fields, Meant, ReadSoFar
<1>4. PICK length, s, given, type, arg, spec : Converting(length, s, given, type, arg, spec)
  BY Zenon DEF Converting
<1>5. \/ Fail("invalid format string") \/ Fail("refused by the formatter")
      \/ ~PrintfRefuses(arg, spec) /\ WriteField(s + 1, spec, PrintfStatements(arg, spec))
  BY <1>4, Zenon DEF PrintfConversion, Converting
<1> DEFINE f == Piece(p.field, s + 1, spec, PrintfStatements(arg, spec))
<1>6. ASSUME ~PrintfRefuses(arg, spec),
             WriteField(s + 1, spec, PrintfStatements(arg, spec))
      PROVE  Fields'
  <2>1. /\ f.from = p.field /\ f.upto = s + 1 /\ f.spec = spec
        /\ f.sts = PrintfStatements(arg, spec)
    BY DEF Piece
  <2> HIDE DEF f
  <2>2. PrintfDenotes(f, Own(p))
    BY <1>2, <1>3, <1>4, <1>6, <2>1, PrintfConversionDenotes, Zenon
  <2>3. Denotes(f, Own(p))
    BY <2>2, Zenon DEF Denotes
  <2> QED
    BY <1>1, <1>3, <1>6, <2>3, WriteFields, Zenon DEF f
<1> QED
  BY <1>1, <1>5, <1>6, FailFields, Zenon

\* A part of a field in the printf syntax.
LEMMA PrintfPartFields ==
  ASSUME IInv, Reads, Fields, syntax # "brace",
         \/ PrintfHeader \/ PrintfFlags \/ PrintfWidth \/ PrintfPrecision \/ PrintfArgument
  PROVE  Fields'
<1>1. DOMAIN p = ParserFields /\ Chars
  BY HereInts, Zenon DEF Fields
<1>2. p.pc \in FieldParts
  BY DEF PrintfHeader, PrintfFlags, PrintfWidth, PrintfPrecision, PrintfArgument, FieldParts
<1>3. Behead(p) /\ PrintfSoFar(p, Own(p))
  BY <1>2, Zenon DEF Fields, Meant, ReadSoFar
<1>4. PrintfGoes
  BY <1>3, PrintfHeaderGoes, PrintfFlagsGoes, PrintfWidthGoes, PrintfPrecisionGoes,
     PrintfArgumentGoes, Zenon
<1>5. CASE Fails
  BY <1>1, <1>5, FailFields, Zenon DEF Fails
<1>6. ASSUME NEW q, Go(q), q.pc \in FieldParts, Behead(q), PrintfSoFar(q, Own(q))
      PROVE  Fields'
  BY <1>1, <1>6, GoFields, Zenon DEF ReadSoFar
<1> QED
  BY <1>4, <1>5, <1>6, Zenon DEF PrintfGoes

\* Every action of the printf syntax.
LEMMA PrintfFields ==
  ASSUME IInv, TInv, Reads, Fields, PrintfNext
  PROVE  Fields'
<1>1. DOMAIN p = ParserFields /\ Chars
  BY HereInts, Zenon DEF Fields
<1>2. syntax # "brace"
  BY DEF PrintfNext
<1> DEFINE j == StopAt(p.s, {"%"})
<1>3. CASE PrintfEnd
  <2> DEFINE q == [p EXCEPT !.s = j, !.start = j, !.pc = "done"]
  <2>1. q.pc \notin FieldParts
    BY <1>1 DEF ParserFields, FieldParts
  <2>2. WriteText(j, j, q)
    BY <1>3, Zenon DEF PrintfEnd
  <2> HIDE DEF q, j
  <2> QED
    BY <1>1, <2>1, <2>2, TextFields, Zenon
<1>4. CASE PrintfEscape
  <2> DEFINE q == [p EXCEPT !.s = j + 2, !.start = j + 2]
  <2>1. p.pc = "text" /\ WriteText(j + 1, j + 2, q)
    BY <1>4, Zenon DEF PrintfEscape
  <2>2. q.pc \notin FieldParts
    BY <1>1, <2>1 DEF ParserFields, FieldParts
  <2> HIDE DEF q, j
  <2> QED
    BY <1>1, <2>1, <2>2, TextFields, Zenon
<1> QED
  BY <1>2, <1>3, <1>4, PrintfFieldFields, PrintfConversionFields, PrintfPartFields,
     Zenon DEF PrintfNext

-----------------------------------------------------------------------------
(* The theorem about the fields                                            *)

\* Nothing was written at the beginning, and the string is of characters.
LEMMA InitFields ==
  ASSUME Init
  PROVE  Fields
<1>1. Chars
  BY CharAssumption, Zenon DEF Init, Chars
<1>2. p.pc = "text" /\ pieces = << >>
  BY DEF Init, NewParser
<1>3. p.pc \notin FieldParts
  BY <1>2 DEF FieldParts
<1> QED
  BY <1>1, <1>2, <1>3, Zenon DEF Fields, Meant, FieldsDenote

\* Whatever the string and its arguments, every field is written as its text says: with
\* the argument, alignment, fill, flags, width, precision and type that are spelled in
\* it, and an integer as the value its length leaves of it (format.cc:738-1083).
THEOREM FormatFieldsDenote == Spec => []FieldsDenote
<1>1. IInv /\ TInv /\ Reads /\ Fields /\ [Next]_vars => Fields'
  <2> SUFFICES ASSUME IInv, TInv, Reads, Fields, [Next]_vars
               PROVE  Fields'
    OBVIOUS
  <2>1. CASE BraceNext
    BY <2>1, BraceFields
  <2>2. CASE PrintfNext
    BY <2>2, PrintfFields
  <2>3. CASE UNCHANGED vars
    <3>1. /\ p' = p /\ pieces' = pieces /\ UNCHANGED input
      BY <2>3 DEF vars, input
    <3>2. PICK q, u : q = p /\ u = Own(p)
      OBVIOUS
    <3>3. (ReadSoFar(q, u) => ReadSoFar(q, u)') /\ Chars'
      BY <3>1, SameSoFar, Zenon DEF Fields
    <3>4. Own(p)' = u
      BY <3>1, <3>2, Zenon DEF Own, Before
    <3>5. (Behead(p) => Behead(p)') /\ (ReadSoFar(p, Own(p)) => ReadSoFar(p, Own(p))')
      <4>1. Behead(p) => Behead(p)'
        BY <3>1, Zenon DEF Behead, Before
      <4>2. ReadSoFar(p, Own(p)) => ReadSoFar(p, Own(p))'
        BY <3>1, <3>2, <3>3, <3>4, Zenon
      <4> QED
        BY <4>1, <4>2, Zenon
    <3>6. Meant(p)'
      BY <3>1, <3>5, Zenon DEF Fields, Meant
    <3>7. PICK f, uses : /\ f = pieces[Len(pieces)]
                         /\ uses = SubSeq(f.uses, Len(pieces[Len(pieces) - 1].uses) + 1,
                                          Len(f.uses))
      OBVIOUS
    <3>8. Denotes(f, uses) => Denotes(f, uses)'
      BY <3>1, SameSoFar, Zenon
    <3>9. p.pc = "text" /\ pieces # << >> /\ f.sts[1].op # "text" => Denotes(f, uses)
      BY <3>7, Zenon DEF Fields, FieldsDenote, Denotes
    <3>10. FieldsDenote'
      BY <3>1, <3>7, <3>8, <3>9, Zenon DEF FieldsDenote, Denotes
    <3> QED
      BY <3>3, <3>6, <3>10, Zenon DEF Fields
  <2> QED
    BY <2>1, <2>2, <2>3 DEF Next
<1>2. Fields => FieldsDenote
  BY DEF Fields
<1> QED
  BY <1>1, <1>2, InitFields, FormatInvariant, TextInvariant, ReadsInvariant, PTL DEF Spec
=============================================================================
