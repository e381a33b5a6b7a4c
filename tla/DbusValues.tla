------------------------------ MODULE DbusValues ------------------------------
(***************************************************************************)
(* The data that the payload of a call is made of: types of D-Bus, values  *)
(* in a message, JSON; and which JSON says the same as a value.  Module    *)
(* Payload has the code's conversions, and its properties compare them     *)
(* with what is said here.                                                 *)
(*                                                                         *)
(* Types are <<"i">> and its like, <<"a", T>> for an array, <<"{", K, V>>  *)
(* for a dictionary and <<"(", <<T1, T2>>>> for a struct.  A value is      *)
(* <<its signature, contents>>: a number, a boolean or a text, in a        *)
(* variant another value, in a struct or an array a sequence of values, in *)
(* a dictionary a sequence of pairs of values.                             *)
(*                                                                         *)
(* JSON is <<"num", n>>, <<"real", n>>, <<"bool", b>>, <<"str", text>>,    *)
(* <<"arr", seq>>, <<"obj", pairs of a text and JSON>>, <<"null", 0>> or   *)
(* <<"bin", bytes>>.  An object has its members in an order that depends   *)
(* on the keys alone.  A text is a whole number <<"int", n>>, one with     *)
(* something behind it <<"lead", n>>, one with a fraction <<"dec", n>>, n  *)
(* being what is before the point, a signature <<"sig", s>>, or else       *)
(* <<"text", k>>.                                                          *)
(***************************************************************************)
EXTENDS IntegerJson, SequencesExt

CONSTANTS
    Types,    \* types of arguments, with every type they contain
    SigOf,    \* the signature of each
    Nesting   \* the containers that sd-bus lets be open within each other

Simple == Basic \cup Refused

\* A type is made of types; struct and dictionary have members, of the sort
\* that D-Bus allows.  Rand2Json announces a{si} whatever the method takes.
TypesAssumption ==
    /\ <<"{", <<"s">>, <<"i">>>> \in Types
    /\ \A T \in Types :
         \/ T[1] \in Simple /\ T = <<T[1]>>
         \/ T[1] = "a" /\ T = <<"a", T[2]>> /\ T[2] \in Types
         \/ T[1] = "{" /\ T = <<"{", T[2], T[3]>> /\ {T[2], T[3]} \subseteq Types
                       /\ T[2][1] \in Simple \ {"v"}
         \/ T[1] = "(" /\ T = <<"(", T[2]>> /\ T[2] \in Seq(Types) \ {<<>>}

\* How a type is written, character by character.
SigAssumption ==
    /\ SigOf \in [Types -> Seq(Chars)]
    /\ \A T \in Types : SigOf[T] =
         CASE T[1] \in Simple -> T
           [] T[1] = "a" -> <<"a">> \o SigOf[T[2]]
           [] T[1] = "{" -> <<"a", "{">> \o SigOf[T[2]] \o SigOf[T[3]] \o <<"}">>
           [] T[1] = "(" -> <<"(">> \o FlattenSeq([i \in DOMAIN T[2] |-> SigOf[T[2][i]]]) \o <<")">>

ASSUME DataAssumption == TypesAssumption /\ SigAssumption /\ Nesting \in Nat

-----------------------------------------------------------------------------
\* What is defined for data with containers is defined, for n of them within each
\* other, by what it is for n - 1.

Texts == ({"int", "lead", "dec"} \X Int) \cup ({"sig"} \X Seq(Chars)) \cup ({"text"} \X STRING)

ValuesOver(inner) ==
    ({<<c>> : c \in Ints \cup {"d", "h"}} \X Int) \cup ({<<"b">>} \X BOOLEAN)
    \cup ({<<c>> : c \in {"s", "o", "g"}} \X Texts) \cup ({<<"v">>} \X inner)
    \cup ({s \in Seq(Chars) : Len(s) > 1 /\ s[2] # "{"} \X Seq(inner))
    \cup ({s \in Seq(Chars) : Len(s) > 1 /\ s[2] = "{"} \X Seq(inner \X inner))

ValuesWithin[n \in Nat] == ValuesOver(IF n = 0 THEN {} ELSE ValuesWithin[n - 1])

Values == ValuesWithin[Nesting]

Null == <<"null", 0>>

JsonsOver(inner) ==
    ({"num", "real"} \X Int) \cup ({"bool"} \X BOOLEAN) \cup ({"str"} \X Texts)
    \cup ({"arr"} \X Seq(inner)) \cup ({"obj"} \X Seq(Texts \X inner)) \cup {Null}

JsonsWithin[n \in Nat] == JsonsOver(IF n = 0 THEN {} ELSE JsonsWithin[n - 1])

Jsons == JsonsWithin[Nesting]

\* The object that has f[key] for each key.
Object(f) == LET keys == SetToSeq(DOMAIN f) IN <<"obj", [i \in DOMAIN keys |-> <<keys[i], f[keys[i]]>>]>>

Key(k) == <<"text", k>>
VariantJson(sig, value) ==
    Object([k \in {Key("variant"), Key("value")} |->
              IF k = Key("variant") THEN <<"str", <<"sig", sig>>>> ELSE value])

-----------------------------------------------------------------------------
\* What sd-bus accepts as the signature of an array, or of what a variant holds.
IsType(sig) == \E T \in Types : SigOf[T] = sig

TypeOf(sig) == CHOOSE T \in Types : SigOf[T] = sig

\* A value of the type, integers in the range of their width.
TypedAs(inner, T, v) ==
    /\ v[1] = SigOf[T]
    /\ T[1] \in Ints => v[2] \in Low(T[1])..High(T[1])
    /\ T[1] = "v" => IsType(v[2][1]) /\ inner[TypeOf(v[2][1]), v[2]]
    /\ T[1] = "(" => Len(v[2]) = Len(T[2]) /\ \A i \in DOMAIN v[2] : inner[T[2][i], v[2][i]]
    /\ T[1] = "a" => \A i \in DOMAIN v[2] : inner[T[2], v[2][i]]
    /\ T[1] = "{" => \A i \in DOMAIN v[2] : inner[T[2], v[2][i][1]] /\ inner[T[3], v[2][i][2]]

TypedOver(inner) == [tv \in Types \X Values |-> TypedAs(inner, tv[1], tv[2])]

HasType[n \in Nat] ==
    TypedOver(IF n = 0 THEN [tv \in Types \X Values |-> FALSE] ELSE HasType[n - 1])

\* The text of a key in JSON.
TextOf(k) ==
    IF k[1][1] \in Ints THEN <<"int", k[2]>>
    ELSE IF k[1][1] = "b" THEN <<"int", IF k[2] THEN 1 ELSE 0>>
    ELSE k[2]

\* The JSON that says the same.
JsonAs(inner, T, v, binary) ==
    CASE T[1] \in Ints -> <<"num", v[2]>>
      [] T[1] = "b" -> <<"bool", v[2]>>
      [] T[1] = "d" -> <<"real", v[2]>>
      [] T[1] \in {"s", "o", "g"} -> <<"str", v[2]>>
      [] T[1] = "h" -> <<"bin", v[2]>>
      [] T[1] = "v" -> VariantJson(v[2][1], inner[TypeOf(v[2][1]), v[2], binary])
      [] T[1] = "(" ->
           IF Len(T[2]) = 1 THEN inner[T[2][1], v[2][1], binary]
           ELSE <<"arr", [i \in DOMAIN v[2] |-> inner[T[2][i], v[2][i], binary]]>>
      [] T[1] = "a" ->
           IF T[2] = <<"y">> /\ binary THEN <<"bin", v[2]>>
           ELSE <<"arr", [i \in DOMAIN v[2] |-> inner[T[2], v[2][i], binary]]>>
      [] T[1] = "{" ->
           LET of(t) == CHOOSE i \in DOMAIN v[2] : TextOf(v[2][i][1]) = t
           IN  Object([t \in {TextOf(v[2][i][1]) : i \in DOMAIN v[2]} |->
                         inner[T[3], v[2][of(t)][2], binary]])

JsonOver(inner) ==
    [tvb \in Types \X Values \X BOOLEAN |-> JsonAs(inner, tvb[1], tvb[2], tvb[3])]

JsonOf[n \in Nat] ==
    JsonOver(IF n = 0 THEN [tvb \in Types \X Values \X BOOLEAN |-> Null] ELSE JsonOf[n - 1])

\* Types the conversions have a code path for: no object path, signature or
\* descriptor, no array of arrays or variants, no boolean or double for a key.
Convertible[T \in Types] ==
    \/ T[1] \in Simple \ (Refused \cup {"h"})
    \/ T[1] = "(" /\ \A i \in DOMAIN T[2] : Convertible[T[2][i]]
    \/ T[1] = "{" /\ T[2][1] \notin {"b", "d"} /\ Convertible[T[2]] /\ Convertible[T[3]]
    \/ T[1] = "a" /\ T[2][1] \notin {"a", "{", "v"} /\ Convertible[T[2]]

\* Values whose JSON tells them from all others of the type: an empty dictionary
\* comes back as null, a key above the largest long long as a negative number,
\* and of two entries with the same key one.
PlainAs(inner, T, v) ==
    /\ T[1] = "(" => \A i \in DOMAIN v[2] : inner[T[2][i], v[2][i]]
    /\ T[1] = "{" =>
         /\ v[2] # <<>>
         /\ \A i \in DOMAIN v[2] :
              /\ T[2][1] \in Ints => v[2][i][1][2] \in LongLong
              /\ inner[T[3], v[2][i][2]]
              /\ \A k \in DOMAIN v[2] : v[2][i][1] = v[2][k][1] => i = k
    /\ T[1] = "a" => \A i \in DOMAIN v[2] : inner[T[2], v[2][i]]
    /\ T[1] = "v" => Convertible[TypeOf(v[2][1])] /\ inner[TypeOf(v[2][1]), v[2]]

PlainOver(inner) == [tv \in Types \X Values |-> PlainAs(inner, tv[1], tv[2])]

Plain[n \in Nat] ==
    PlainOver(IF n = 0 THEN [tv \in Types \X Values |-> FALSE] ELSE Plain[n - 1])

HaveTypes(Ts, vs) == Len(vs) = Len(Ts) /\ \A i \in DOMAIN vs : HasType[Nesting][Ts[i], vs[i]]
ConvertibleAll(Ts) == \A i \in DOMAIN Ts : Convertible[Ts[i]]
PlainAll(Ts, vs) == \A i \in DOMAIN vs : Plain[Nesting][Ts[i], vs[i]]
JsonOfAll(Ts, vs, binary) == [i \in DOMAIN vs |-> JsonOf[Nesting][Ts[i], vs[i], binary]]
==============================================================================
