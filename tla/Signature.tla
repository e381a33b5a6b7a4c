------------------------------ MODULE Signature ------------------------------
(***************************************************************************)
(* SignatureUtils: how dbus2http splits a D-Bus signature into complete    *)
(* types before it converts a value to or from JSON.                       *)
(*                                                                         *)
(* A signature is a sequence of one-character strings.  The signatures     *)
(* given to split() come from introspection data, or were accepted by the  *)
(* bus library before: their brackets are balanced.                        *)
(***************************************************************************)
EXTENDS Integers, Sequences, FiniteSets

Signed == {"n", "i", "x"}
Unsigned == {"y", "q", "u", "t"}
Ints == Signed \cup Unsigned

Basic == Ints \cup {"b", "d", "s", "h", "v"}
Refused == {"o", "g"}   \* well-formed types split() throws at
Chars == Basic \cup Refused \cup {"a", "(", ")", "{", "}"}

\* How many brackets are open after the k-th character, one being open at left.
Count(str, left, k, open, close) ==
    1 + Cardinality({j \in left + 1..k : str[j] = open})
      - Cardinality({j \in left + 1..k : str[j] = close})

\* Mutant of find_match_bracket: brackets inside are not counted.
FindFirstBracket(str, left, open, close) ==
    LET closed == {k \in left + 1..Len(str) : str[k] = close}
    IN  IF closed = {} THEN 0 ELSE CHOOSE k \in closed : \A j \in closed : k <= j

\* The length of str up to and with the bracket that closes the one at left, or 0.
find_match_bracket(str, left, open, close) ==
    LET closed == {k \in left + 1..Len(str) : Count(str, left, k, open, close) = 0}
    IN  IF closed = {} THEN 0 ELSE CHOOSE k \in closed : \A j \in closed : k <= j

\* pos in one turn of split().  Behind an "a" only a bracket is looked at: the
\* piece that an array of arrays begins with is "aa".
PieceLength(s) ==
    IF Head(s) \in Basic THEN 1
    ELSE IF Head(s) = "(" THEN find_match_bracket(s, 1, "(", ")")
    ELSE IF Len(s) > 1 /\ s[2] = "(" THEN find_match_bracket(s, 2, "(", ")")
    ELSE IF Len(s) > 1 /\ s[2] = "{" THEN find_match_bracket(s, 2, "{", "}")
    ELSE 2

\* A turn throws at a type it does not know, at a bracket out of place and, in
\* substr(), at an "a" with nothing behind it.
Throws(s) == Head(s) \notin Basic \cup {"(", "a"} \/ PieceLength(s) > Len(s)

\* At a bracket that is never closed a turn takes nothing: split() does not end.
Stuck(s) == PieceLength(s) = 0

\* The turns of split(): the complete types of s, unless one turn throws or the
\* turns do not end.
split[s \in Seq(Chars)] ==
    IF s = <<>> THEN [ok |-> TRUE, result |-> <<>>]
    ELSE IF Throws(s) \/ Stuck(s) THEN [ok |-> FALSE, result |-> <<>>]
    ELSE LET rest == split[SubSeq(s, PieceLength(s) + 1, Len(s))]
         IN  [ok |-> rest.ok,
              result |-> <<SubSeq(s, 1, PieceLength(s))>> \o rest.result]

\* The signature between the brackets of a struct or a dict entry.
Inner(s) == SubSeq(s, 2, Len(s) - 1)
==============================================================================
