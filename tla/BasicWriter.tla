---------------------------- MODULE BasicWriter -----------------------------
(* What BasicWriter (common/util/format.h) writes for one value, as         *)
(* operators on the call record of MemoryBuffer.                            *)
(*                                                                          *)
(* The text of a floating-point number is given with its statement, without *)
(* the sign: rounding is the business of snprintf.                          *)
EXTENDS MemoryBuffer, FormatSpec

Rep(c, n) == [i \in 1..n |-> c]

\* grow_buffer(n) is followed by AreaOf: the pointer to the cells it added.
GrowBuffer(m, n) == Resize(m, m.size + n)
AreaOf(m, grown) == Pointer(grown, m.size)

-----------------------------------------------------------------------------
(* Characters and strings.  The result m comes with the pointer p to the    *)
(* content inside the padding.                                              *)
LeftPadding(align, padding) ==
  CASE align = "right"  -> padding
    [] align = "center" -> padding \div 2
    [] OTHER            -> 0

WriteStrAt(m, s, spec) ==
  LET padding == Max2(0, spec.width - Len(s))
      left    == LeftPadding(spec.align, padding)
      grown   == GrowBuffer(m, Len(s) + padding)
      p       == AreaOf(m, grown)
  IN  [m |-> Put(grown, p, Rep(spec.fill, left) \o s
                             \o Rep(spec.fill, padding - left)),
       p |-> Plus(p, left)]

\* The argument has its own length: a text of size 0 over characters that are there,
\* which the code measures up to their NUL, is not modelled.
WriteStr(m, s, spec) ==
  IF spec.type \in StrTypes THEN WriteStrAt(m, s, spec).m
  ELSE Throw(m, "unknown format code for string")

WriteChar(m, c, spec) == WriteStrAt(m, <<c>>, spec).m

-----------------------------------------------------------------------------
(* Integers.                                                                *)
POWERS_OF_10 == <<0, 10, 100, 1000, 10000>>

BitLength(n) == CHOOSE k \in 1..15 : 2^(k - 1) <= n /\ n < 2^k

\* Slip: an estimate of the number of digits that is never corrected.
CountDigitsRough(n) == ((BitLength(Max2(n, 1)) * 1233) \div 4096) + 1

CountDigits(n) ==
  LET t == (BitLength(Max2(n, 1)) * 1233) \div 4096
  IN  t - (IF n < POWERS_OF_10[t + 1] THEN 1 ELSE 0) + 1

FormatDecimal(n, num_digits) ==
  [k \in 1..num_digits |-> Digits[1 + ((n \div 10^(num_digits - k)) % 10)]]

\* The loops of the other bases: the last digit first, until nothing is left.
Radix(n, base) ==
  LET f[k \in 0..n] == IF k < base THEN <<Digits[k + 1]>>
                       ELSE Append(f[k \div base], Digits[1 + (k % base)])
  IN  f[n]

\* The area of a number without precision: prefix and padding are written, the
\* cells of the digits are left to the caller, who gets the last one's pointer.
PrepareField(m, num_digits, spec, prefix) ==
  LET size    == Len(prefix) + num_digits
      padding == Max2(0, spec.width - size)
      left    == IF spec.align = "left" THEN 0
                 ELSE IF spec.align = "center" THEN padding \div 2 ELSE padding
      grown   == GrowBuffer(m, size + padding)
      p       == AreaOf(m, grown)
      head    == IF spec.align = "numeric" THEN prefix \o Rep(spec.fill, left)
                 ELSE Rep(spec.fill, left) \o prefix
  IN  [m |-> Put(Put(grown, p, head), Plus(p, left + size),
                 Rep(spec.fill, padding - left)),
       p |-> Plus(p, left + size - 1)]

Padded(m, n, fill) == LET grown == GrowBuffer(m, n)
                      IN  Put(grown, AreaOf(m, grown), Rep(fill, n))

\* prepare_int_buffer.  With a precision the number is a field of its own, filled
\* with zeros, inside the field of the width.  Padding on the right is written
\* after the pointer to the digits was taken.
PrepareIntBuffer(m, num_digits, spec, prefix) ==
  LET shown  == IF prefix # <<>> /\ prefix[Len(prefix)] = "0"
                THEN SubSeq(prefix, 1, Len(prefix) - 1) ELSE prefix
      number == Len(shown) + spec.precision
      sub    == [spec EXCEPT !.width = number, !.fill = "0",
                             !.align = "numeric", !.precision = -1]
      rest   == spec.width - number
      ready  == Reserve(m, spec.width)
      before == IF spec.align = "left" THEN ready
                ELSE Padded(ready, rest, spec.fill)
      field  == PrepareField(before, num_digits, sub, shown)
  IN  CASE spec.precision <= num_digits
             -> PrepareField(m, num_digits, spec, prefix)
        [] spec.precision > num_digits /\ number >= spec.width
             -> PrepareField(m, num_digits, sub, shown)
        [] OTHER
             -> [m |-> IF spec.align = "left"
                       THEN Padded(field.m, rest, spec.fill) ELSE field.m,
                 p |-> field.p]

SignOf(negative, spec) ==
  CASE negative                                    -> <<"-">>
    [] ~negative /\ {"SIGN", "PLUS"} \subseteq spec.flags -> <<"+">>
    [] ~negative /\ "SIGN" \in spec.flags /\ "PLUS" \notin spec.flags -> <<" ">>
    [] OTHER                                       -> <<>>

\* write_int: the magnitude is unsigned, so the least integer has one too.
WriteInt(m, v, spec) ==
  LET abs_value == IF v < 0 THEN -v ELSE v
      mark   == CASE "HASH" \notin spec.flags           -> <<>>
                  [] "HASH" \in spec.flags /\ spec.type = "o" -> <<"0">>
                  [] "HASH" \in spec.flags /\ spec.type \in {"x", "X", "b", "B"}
                       -> <<"0", spec.type>>
                  [] OTHER                               -> <<>>
      digits == CASE spec.type \in {"x", "X"} -> Radix(abs_value, 16)
                  [] spec.type \in {"b", "B"} -> Radix(abs_value, 2)
                  [] spec.type = "o"          -> Radix(abs_value, 8)
                  [] OTHER -> FormatDecimal(abs_value, CountDigits(abs_value))
      area   == PrepareIntBuffer(m, Len(digits), spec,
                                 SignOf(v < 0, spec) \o mark)
  IN  IF spec.type \in IntTypes
      THEN Put(area.m, Plus(area.p, 1 - Len(digits)), digits)
      ELSE Throw(m, "unknown format code for integer")

-----------------------------------------------------------------------------
(* Floating-point numbers.                                                  *)

\* snprintf of a number with a width: padded with blanks, cut to the room and
\* ended by a NUL, which is written too.
SPrintf(text, width, left) ==
  LET pad == Rep(" ", Max2(0, width - Len(text)))
  IN  IF left THEN text \o pad ELSE pad \o text

Snprintf(m, offset, s) ==
  LET room == m.capacity - offset
  IN  IF room <= 0 THEN m
      ELSE Put(m, Pointer(m, offset),
               SubSeq(s, 1, IF Len(s) < room THEN Len(s) ELSE room - 1)
                 \o <<NUL>>)

\* The end of write_double for a centred number of n characters, which start
\* at the size of the buffer: grow_buffer may move the storage under them.
Centred(m, n, spec) ==
  LET grown == GrowBuffer(m, spec.width)
      p     == AreaOf(m, grown)
      text  == [k \in 1..n |-> grown.cells[p.off + k - 1]]
      left  == (spec.width - n) \div 2
  IN  Put(grown, p, Rep(spec.fill, left) \o text
                      \o Rep(spec.fill, spec.width - n - left))

FitsIn(offset, n, m) == offset + n < m.capacity

SignRoom(m, sign, spec) ==
  IF sign = <<>> THEN m ELSE Reserve(m, m.size + Max2(spec.width, 1))

WriteNumber(m, sign, text, spec) ==
  LET width   == IF sign # <<>> /\ spec.width > 0 THEN spec.width - 1
                 ELSE spec.width
      offset  == m.size + Len(sign)
      printed == SPrintf(text, IF spec.align = "center" THEN 0 ELSE width,
                         spec.align = "left")
      n       == Len(printed)
      ready   == SignRoom(m, sign, spec)
      first   == Snprintf(ready, offset, printed)
      done    == IF FitsIn(offset, n, ready) THEN first
                 ELSE Snprintf(Reserve(first, offset + n + 1), offset, printed)
      start   == Pointer(done, offset)
      blanks  == Cardinality({i \in 1..n : \A j \in 1..i : printed[j] = " "})
      glued   == spec.align \notin {"right", "default"} \/ blanks = 0
      signed  == Put(done, Plus(start, -1),
                     IF sign = <<>> \/ glued THEN sign ELSE <<spec.fill>>)
      later   == sign # <<>> /\ ~glued
      filled  == IF spec.fill # " " \/ later
                 THEN Put(signed, start, Rep(spec.fill, blanks)) ELSE signed
      whole   == IF later THEN Put(filled, Plus(start, blanks - 1), sign)
                 ELSE filled
  IN  IF spec.align = "center" /\ spec.width > n + Len(sign)
      THEN Centred(signed, n + Len(sign), spec)
      ELSE GrowBuffer(whole, n + Len(sign))

NotFinite(text) == text[1] \in {"n", "i"}

WriteDouble(m, negative, text, spec) ==
  LET sign == SignOf(negative, spec)
      held == WriteStrAt(m, Rep(" ", Len(sign)) \o text, spec)
  IN  CASE spec.type \notin DoubleTypes
             -> Throw(m, "unknown format code for double")
        [] spec.type \in DoubleTypes /\ NotFinite(text)
             -> Put(held.m, held.p, sign)
        [] OTHER -> WriteNumber(m, sign, text, spec)

-----------------------------------------------------------------------------
Write(m, st) ==
  CASE st.op = "text"   -> AppendChars(m, st.str)
    [] st.op = "one"    -> PushBack(m, st.str[1])
    [] st.op = "str"    -> WriteStr(m, st.str, st.spec)
    [] st.op = "char"   -> WriteChar(m, st.str[1], st.spec)
    [] st.op = "int"    -> WriteInt(m, st.num, st.spec)
    [] st.op = "double" -> WriteDouble(m, st.num < 0, st.str, st.spec)
=============================================================================
