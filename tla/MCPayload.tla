------------------------------ MODULE MCPayload ------------------------------
(***************************************************************************)
(* Instance of Payload for TLC: integers of two to five bits, the types of *)
(* EchoService and of the interfaces in the repository's all.json, and     *)
(* requests that are meant, proposed, or off in one of many ways.          *)
(***************************************************************************)
EXTENDS Payload

MCWidth == [y |-> 2, n |-> 3, q |-> 3, i |-> 4, u |-> 4, x |-> 5, t |-> 5]

Arr(T) == <<"a", T>>
Dict(K, V) == <<"{", <<K>>, V>>
Struct(Ts) == <<"(", Ts>>

Basics == {<<c>> : c \in Simple}
SS == Dict("s", <<"s">>)
SI == Dict("s", <<"i">>)
Nested == Struct(<< <<"s">>, SS >>)

\* The types arguments have.
ArgTypes == Basics \cup
    {Arr(<<c>>) : c \in {"y", "i", "s", "v", "h", "o"}} \cup
    {Struct(<< <<"i">> >>), Struct(<< <<"i">>, <<"s">> >>), Struct(<< <<"y">>, SS, <<"n">> >>),
     Arr(Struct(<< <<"y">>, <<"s">> >>)), Arr(Struct(<< Struct(<< <<"i">>, <<"s">> >>), <<"b">> >>)),
     Arr(Arr(<<"y">>)), Struct(<< <<"s">>, Arr(Arr(<<"y">>)) >>),
     SS, SI, Dict("i", <<"i">>), Dict("t", <<"s">>), Dict("b", <<"s">>), Dict("s", <<"v">>),
     Dict("s", Arr(<<"y">>)), Dict("i", Nested), Dict("s", Arr(Arr(<<"y">>)))}

MCTypes == ArgTypes \cup {Nested, Struct(<< <<"y">>, <<"s">> >>), Struct(<< Struct(<< <<"i">>, <<"s">> >>), <<"b">> >>)}

RECURSIVE Written(_)
Written(T) ==
    CASE T[1] = "a" -> <<"a">> \o Written(T[2])
      [] T[1] = "{" -> <<"a", "{">> \o Written(T[2]) \o Written(T[3]) \o <<"}">>
      [] T[1] = "(" -> <<"(">> \o FlattenSeq([k \in DOMAIN T[2] |-> Written(T[2][k])]) \o <<")">>
      [] OTHER -> T

MCSigOf == [T \in MCTypes |-> Written(T)]

\* At most two elements of S.
Few(S) == IF S = {} THEN {} ELSE LET x == CHOOSE x \in S : TRUE
          IN  {x} \cup IF S = {x} THEN {} ELSE {CHOOSE y \in S : y # x}

RECURSIVE Tuples(_)
Tuples(Ss) ==
    IF Ss = <<>> THEN {<<>>} ELSE {<<x>> \o t : x \in Head(Ss), t \in Tuples(Tail(Ss))}

RECURSIVE Samples(_)
Samples(T) ==
    LET contents ==
          CASE T[1] \in Ints -> {Low(T[1]), 0, 1, High(T[1])}
            [] T[1] = "b" -> BOOLEAN
            [] T[1] = "d" -> {0, 1}
            [] T[1] \in {"s", "o", "g"} -> {Key("k"), <<"int", 1>>}
            [] T[1] = "h" -> 0..MaxFdSize + 1
            [] T[1] = "v" -> {<<<<"i">>, n>> : n \in {-1, 1}}
                             \cup {d \in Samples(SS) : Len(d[2]) = 2}
            [] T[1] = "(" -> Tuples([k \in DOMAIN T[2] |-> Few(Samples(T[2][k]))])
            [] T[1] = "{" ->
                 {<<>>} \cup {<<<<k, v>>>> : k \in Samples(T[2]), v \in Few(Samples(T[3]))}
                 \cup {<<<<k, v>>, <<l, w>>>> : k, l \in Few(Samples(T[2])), v, w \in Few(Samples(T[3]))}
            [] T[1] = "a" -> {<<>>} \cup {<<v>> : v \in Samples(T[2])}
                             \cup {<<v, w>> : v, w \in Few(Samples(T[2]))}
    IN  {<<Written(T), c>> : c \in contents}

SampleLists(Ts) == Tuples([k \in DOMAIN Ts |-> Samples(Ts[k])])

\* Methods: the echo of one argument, of several, and results out of nothing.
Signatures ==
    {[in |-> <<T>>, out |-> <<T>>] : T \in ArgTypes}
    \cup {[in |-> <<>>, out |-> <<T>>] : T \in ArgTypes}
    \cup {[in |-> Ts, out |-> Ts] : Ts \in {<<>>, << <<"i">>, Dict("i", <<"i">>) >>, << <<"s">>, <<"v">>, Arr(<<"y">>) >>,
                                            << <<"i">>, <<"h">>, <<"i">> >>}}

\* What a client may send besides what it should: numbers and texts within and
\* beyond the limits, wrong kinds, containers of either form.
OddTexts == {<<k, n>> : k \in Numeric, n \in Low("x") - 1..High("t") + 1} \cup {Key("k")}
Odd == {<<"num", n>> : n \in Low("x")..High("t")} \cup {<<"str", t>> : t \in OddTexts}
       \cup {Null, <<"bool", TRUE>>, <<"real", 0>>, <<"arr", <<>>>>}
       \cup {<<"arr", <<<<"num", n>>>>>> : n \in {0, 9}}
       \cup {<<"arr", <<<<"str", <<"int", 0>>>>, <<"num", 1>>>>>>}
       \cup {<<"obj", << <<t, <<"num", 9>>>> >>>> : t \in {Key("k"), <<"int", 5>>, <<"int", 9>>}}
       \cup {VariantJson(sig, <<"num", 9>>) : sig \in {<<"y">>, <<"h">>, <<"o">>, <<"y", "y">>, <<"a", "a">>}}

Call(m, source, request, meant) ==
    [in |-> m.in, out |-> m.out, source |-> source, request |-> request, meant |-> meant]

\* JSON says no descriptor; a request for one may be anything.
Sayable(m) == \A k \in DOMAIN m.in : m.in[k] \notin {<<"h">>, Arr(<<"h">>)}

MCCalls ==
    {Call(m, "values", [k \in DOMAIN m.in |-> JsonOf[Nesting][m.in[k], vs[k], FALSE]], vs) :
        <<m, vs>> \in UNION {{n} \X SampleLists(n.in) : n \in {m \in Signatures : Sayable(m)}}}
    \cup {Call(m, "sample", request, <<>>) :
        <<m, request>> \in UNION {{n} \X Tuples([k \in DOMAIN n.in |-> RandJson[Nesting][Written(n.in[k])]]) : n \in Signatures}}
    \cup {Call(m, "odd", request, <<>>) :
        <<m, request>> \in UNION {{n} \X ({[k \in DOMAIN n.in |-> j] : j \in Odd} \cup {<<>>}) : n \in Signatures}}

MCProduces == [Ts \in {m.out : m \in Signatures} |-> SampleLists(Ts)]
==============================================================================
