---------------------------- MODULE MCFormatters ----------------------------
(* Format strings put together from their parts, and short strings without  *)
(* any order, with numbers of five bits as unsigned.                        *)
EXTENDS Formatters

Arg(type, num, str) == [type |-> type, num |-> num, str |-> str]
X == <<"x">>

Lists ==
  {<<Arg("INT", -3, <<>>), Arg("DOUBLE", 1, <<"1", ".", "5">>)>>,
   <<Arg("DOUBLE", -1, <<"2">>), Arg("UINT", 2, <<>>)>>,
   <<Arg("LONG_LONG", -40, <<>>), Arg("INT", 0, <<>>), Arg("INT", -2, <<>>)>>,
   <<Arg("ULONG_LONG", 40, <<>>), Arg("UINT", 20, <<>>)>>,
   <<Arg("CHAR", -2, <<>>), Arg("LONG_LONG", 3, <<>>), Arg("DOUBLE", 1, X)>>,
   <<Arg("STRING", 0, X), Arg("CSTRING", 0, <<>>)>>,
   <<Arg("CUSTOM", 0, X), Arg("POINTER", 13, <<>>), Arg("INT", 13, <<>>),
     Arg("INT", 1, <<>>)>>}

\* All parts but at most two are left out.
Joined(parts) ==
  LET one(i, v) == [k \in DOMAIN parts |-> IF k = i THEN v ELSE <<>>]
      two(i, v, j, w) == [one(i, v) EXCEPT ![j] = w]
      flat(c) == LET f[k \in 0..Len(parts)] ==
                       IF k = 0 THEN <<>> ELSE f[k - 1] \o c[k]
                 IN  f[Len(parts)]
  IN  {<<>>} \cup
      UNION {{flat(two(i, v, j, w)) : v \in parts[i], w \in parts[j]} :
               <<i, j>> \in {c \in (1..Len(parts)) \X (1..Len(parts)) : c[1] < c[2]}}

BraceParts ==
  <<{<<>>, <<"*", "=">>, <<"{", "<">>, <<"}", "<">>, <<"^">>, <<"=">>},
    {<<>>, <<"+">>, <<"-">>, <<" ">>},
    {<<>>, <<"#">>},
    {<<>>, <<"0">>, <<"0", "4">>, <<"1", "2">>, <<"2", "0">>, <<"4", "0">>},
    {<<>>, <<".", "1">>, <<".">>, <<".", "{", "}">>, <<".", "{", "1", "}">>,
     <<".", "{", "0">>, <<".", "2", "0">>},
    {<<>>, <<"x">>, <<"c">>, <<"s">>, <<"p">>, <<"g">>}>>

Brace ==
  {<<"{">> \o i \o s \o c :
     i \in {<<>>, <<"0">>, <<"1">>, <<"9">>, <<"3", "3">>},
     s \in {<<>>} \cup {<<":">> \o b : b \in Joined(BraceParts)},
     c \in {<<"}">>, <<>>}}

Short(alphabet, n) == UNION {[1..k -> alphabet] : k \in 0..n}

Pairs(fields) == {f \o t \o g : f \in fields, g \in fields,
                                t \in {<<>>, <<"t">>}}

BraceText == Short({"{", "}", "0", ":", "="}, 4)
               \cup Pairs({<<"{", "}">>, <<"{", "1", "}">>, <<"}", "}">>,
                           <<"{", ":", ".", "{", "}", "}">>,
                           <<"{", "0", ":", ".", "{", "1", "}", "}">>})

PrintfParts ==
  <<{<<>>, <<"-">>, <<"0">>, <<"+", "#">>, <<" ", "0", "-">>},
    {<<>>, <<"4">>, <<"*">>, <<"1", "2">>, <<"4", "0">>},
    {<<>>, <<".">>, <<".", "5">>, <<".", "*">>, <<".", "2", "0">>},
    {<<>>, <<"h">>, <<"h", "h">>, <<"l">>, <<"L">>}>>

Printf ==
  {<<"%">> \o i \o b \o t :
     i \in {<<>>, <<"1", "$">>, <<"2", "$">>, <<"0", "$">>, <<"9", "$">>,
            <<"3", "3", "$">>},
     b \in Joined(PrintfParts),
     t \in {<<>>, <<"d">>, <<"u">>, <<"x">>, <<"c">>, <<"s">>, <<"f">>, <<"p">>}}

PrintfText == Short({"%", "0", "$", "d", "*"}, 4)
                \cup Pairs({<<"%", "d">>, <<"%", "1", "$", "d">>, <<"%", "%">>,
                            <<"%", "*", "d">>, <<"%", ".", "*", "f">>})

MCCalls ==
  {[syntax |-> "brace", fmt |-> f, args |-> a] : f \in Brace \cup BraceText, a \in Lists}
    \cup {[syntax |-> "printf", fmt |-> f, args |-> a] :
            f \in Printf \cup PrintfText, a \in Lists}
=============================================================================
