---------------------------- MODULE FieldLayout -----------------------------
(* The reference: the characters a statement stands for, said without any   *)
(* buffer, and the two kinds of statement the writer is known to get wrong. *)
EXTENDS BasicWriter

Laid(align, fill, width, sign, body) ==
  LET gap  == Max2(0, width - Len(sign) - Len(body))
      half == gap \div 2
  IN  CASE align = "numeric" -> sign \o Rep(fill, gap) \o body
        [] align = "left"    -> sign \o body \o Rep(fill, gap)
        [] align = "center"  -> Rep(fill, half) \o sign \o body
                                  \o Rep(fill, gap - half)
        [] OTHER             -> Rep(fill, gap) \o sign \o body

\* The shortest numeral of n.
Numeral(n, base) ==
  LET size == CHOOSE k \in 1..15 : n < base^k /\ \A j \in 1..(k - 1) : base^j <= n
  IN  [k \in 1..size |-> Digits[1 + ((n \div base^(size - k)) % base)]]

BaseOf(type) == CASE type \in {"x", "X"} -> 16 [] type \in {"b", "B"} -> 2
                  [] type = "o" -> 8 [] OTHER -> 10

Magnitude(v, spec) == Numeral(IF v < 0 THEN -v ELSE v, BaseOf(spec.type))

ZeroPadded(v, spec) == spec.precision > Len(Magnitude(v, spec))

IntBody(v, spec) ==
  LET digits == Magnitude(v, spec)
  IN  Rep("0", Max2(0, spec.precision - Len(digits))) \o digits

\* An octal mark is one of the zeros of the precision.
IntSign(v, spec) ==
  SignOf(v < 0, spec) \o
  (IF "HASH" \notin spec.flags \/ BaseOf(spec.type) = 10 THEN <<>>
   ELSE IF BaseOf(spec.type) = 8
        THEN IF ZeroPadded(v, spec) THEN <<>> ELSE <<"0">>
        ELSE <<"0", spec.type>>)

\* Text stands at the left by default, a number at the right; infinity and NaN
\* are text with a sign; a number at the left is followed by blanks.
TextAlign(align) == IF align \in {"right", "center"} THEN align ELSE "left"

Wanted(st) ==
  LET spec == st.spec
      sign == SignOf(st.num < 0, spec)
  IN  CASE st.op \in {"text", "one"} -> st.str
        [] st.op \in {"str", "char"} ->
             Laid(TextAlign(spec.align), spec.fill, spec.width, <<>>, st.str)
        [] st.op = "int" ->
             Laid(IF ZeroPadded(st.num, spec) /\ spec.align # "left"
                  THEN "right" ELSE spec.align,
                  spec.fill, spec.width, IntSign(st.num, spec),
                  IntBody(st.num, spec))
        [] st.op = "double" ->
             IF NotFinite(st.str)
             THEN Laid(TextAlign(spec.align), spec.fill, spec.width, <<>>,
                       sign \o st.str)
             ELSE Laid(spec.align,
                       IF spec.align = "left" THEN " " ELSE spec.fill,
                       spec.width, sign, st.str)

-----------------------------------------------------------------------------
\* A centred number without a sign is formatted behind the content, and then
\* grow_buffer(width) moves the storage when the width does not fit: growing
\* copies the content and leaves the number behind.
LosesNumber(m, st) ==
  /\ st.op = "double" /\ ~NotFinite(st.str) /\ st.spec.align = "center"
  /\ SignOf(st.num < 0, st.spec) = <<>>
  /\ st.spec.width > Len(st.str)
  /\ LET fitted == Max2(m.capacity, IF FitsIn(m.size, Len(st.str), m) THEN 0
                                    ELSE Max2(m.size + Len(st.str) + 1,
                                         m.capacity + m.capacity \div 2))
     IN  m.size + st.spec.width > fitted

\* An integer with a precision, padded on the right: only width cells are
\* reserved, not width more, and the padding moves the storage after the pointer
\* to the digits was taken.
WritesFreed(m, st) ==
  /\ st.op = "int" /\ ZeroPadded(st.num, st.spec) /\ st.spec.align = "left"
  /\ LET number   == Len(IntSign(st.num, st.spec)) + st.spec.precision
         reserved == IF st.spec.width <= m.capacity THEN m.capacity
                     ELSE Max2(st.spec.width, m.capacity + m.capacity \div 2)
         fitted   == IF m.size + number <= reserved THEN reserved
                     ELSE Max2(m.size + number, reserved + reserved \div 2)
     IN  number < st.spec.width /\ m.size + st.spec.width > fitted
=============================================================================
