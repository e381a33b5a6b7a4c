------------------------------ MODULE IntegerJson ------------------------------
(***************************************************************************)
(* How Json2Message appends an integer to a message, from a JSON number or *)
(* from a text.  JSON and texts are written as in module Payload.          *)
(***************************************************************************)
EXTENDS Signature

CONSTANT
    Width    \* bits of each integer type, scaled down

ASSUME WidthAssumption == Width \in [Ints -> Nat \ {0, 1}]

\* int64_t and uint64_t.
ASSUME LongAssumption == Width["x"] = Width["t"]

Low(c) == IF c \in Signed THEN -(2 ^ (Width[c] - 1)) ELSE 0
High(c) == Low(c) + 2 ^ Width[c] - 1
LongLong == Low("x")..High("x")

\* Mutant of static_cast: the number is passed on as it is.
CastNothing(c, n) == n

\* static_cast to the integer type c, as nlohmann::json::get<T> does it.
static_cast(c, n) == Low(c) + ((n - Low(c)) % (2 ^ Width[c]))

\* The result of a conversion: whether all went well, and what was appended.  A
\* value in a message carries its signature.
Failed == [ok |-> FALSE, out |-> <<>>]
Wrote(v) == [ok |-> TRUE, out |-> <<v>>]
WroteInteger(c, n) == Wrote(<<<<c>>, static_cast(c, n)>>)

\* The texts std::stoll takes: it stops at the first character that is no digit.
Numeric == {"int", "lead", "dec"}

\* numeric_limits<T>::min() of an uint64_t makes the comparison unsigned.
InLimits(c, n) == c = "t" \/ n \in Low(c)..High(c)

\* Mutant of AppendIntegerFromJson: texts are not compared with the limits.
AppendUnchecked(c, j) ==
    IF j[1] = "num" \/ (j[1] = "str" /\ j[2][1] \in Numeric /\ j[2][2] \in LongLong)
    THEN WroteInteger(c, IF j[1] = "num" THEN j[2] ELSE j[2][2])
    ELSE Failed

\* Mutant of AppendIntegerFromJson: the largest value is refused.
AppendBelowMax(c, j) ==
    IF j[1] = "num" /\ j[2] < High(c) THEN WroteInteger(c, j[2])
    ELSE IF /\ j[1] = "str" /\ j[2][1] \in Numeric
            /\ j[2][2] \in LongLong /\ InLimits(c, j[2][2])
         THEN WroteInteger(c, j[2][2])
         ELSE Failed

\* A number is cast, a text goes through stoll and is compared with the limits.
AppendIntegerFromJson(c, j) ==
    IF j[1] = "num" THEN WroteInteger(c, j[2])
    ELSE IF /\ j[1] = "str" /\ j[2][1] \in Numeric
            /\ j[2][2] \in LongLong /\ InLimits(c, j[2][2])
         THEN WroteInteger(c, j[2][2])
         ELSE Failed
================================================================================
