----------------------------- MODULE PayloadProofs -----------------------------
(***************************************************************************)
(* Proofs about the conversion of a call's payload, for every table of     *)
(* types, every signature, every JSON and any nesting of containers:       *)
(*                                                                         *)
(*   - what find_match_bracket finds and split() returns, for signatures   *)
(*     of any length;                                                      *)
(*   - that split() takes the signature of a type in one turn, and those   *)
(*     of several types apart (PiecesComplete);                            *)
(*   - that what FillMessage appends has the declared types                *)
(*     (MessageTyped), by induction over the containers that are open;     *)
(*   - that a number given as a text arrives as it is (StringsChecked);    *)
(*   - that the JSON made of a reply says what the service returned        *)
(*     (ReplyAsSent), by induction over the containers once more;          *)
(*   - that what a client means is what the service gets, and that its     *)
(*     echo is the request again (RoundTrip);                              *)
(*   - that a request which is proposed is accepted (SamplesAccepted).     *)
(***************************************************************************)
EXTENDS Payload, Recursion, FiniteSetTheorems, SequenceTheorems

-----------------------------------------------------------------------------
(* Counting brackets *)

\* Count, for characters that may be anything.
Marked(str, left, k, mark) == {j \in left + 1..k : str[j] = mark}

LEMMA MarkedFinite ==
    ASSUME NEW str, NEW left \in Nat, NEW k \in Nat, NEW mark
    PROVE  IsFiniteSet(Marked(str, left, k, mark)) /\ Cardinality(Marked(str, left, k, mark)) \in Nat
<1>1. IsFiniteSet(left + 1..k)
  BY FS_Interval
<1>2. Marked(str, left, k, mark) \subseteq left + 1..k
  BY DEF Marked
<1> QED
  BY <1>1, <1>2, FS_Subset, FS_CardinalityType

LEMMA MarkedStep ==
    ASSUME NEW str, NEW left \in Nat, NEW k \in Nat, left <= k, NEW mark
    PROVE  Cardinality(Marked(str, left, k + 1, mark)) =
             Cardinality(Marked(str, left, k, mark)) + (IF str[k + 1] = mark THEN 1 ELSE 0)
<1> DEFINE S == Marked(str, left, k, mark)
<1>1. IsFiniteSet(S) /\ Cardinality(S) \in Nat
  BY MarkedFinite
<1>2. k + 1 \notin S
  BY DEF Marked
<1>3. str[k + 1] = mark => Marked(str, left, k + 1, mark) = S \cup {k + 1}
  BY DEF Marked
<1>4. str[k + 1] # mark => Marked(str, left, k + 1, mark) = S
  BY DEF Marked
<1>5. Cardinality(S \cup {k + 1}) = Cardinality(S) + 1
  BY <1>1, <1>2, FS_AddElement
<1>6. CASE str[k + 1] = mark
  BY <1>3, <1>5, <1>6, Zenon
<1>7. CASE str[k + 1] # mark
  <2>1. Cardinality(S) = Cardinality(S) + 0
    BY <1>1
  <2> QED
    BY <1>4, <1>7, <2>1, Zenon
<1> QED
  BY <1>6, <1>7

LEMMA CountMarked ==
    ASSUME NEW str, NEW left, NEW k, NEW open, NEW close
    PROVE  Count(str, left, k, open, close) =
             1 + Cardinality(Marked(str, left, k, open)) - Cardinality(Marked(str, left, k, close))
  BY DEF Count, Marked

LEMMA CountType ==
    ASSUME NEW str, NEW left \in Nat, NEW k \in Nat, NEW open, NEW close
    PROVE  Count(str, left, k, open, close) \in Int
  BY CountMarked, MarkedFinite

\* At the bracket itself one is open.
LEMMA CountFirst ==
    ASSUME NEW str, NEW left \in Nat, NEW open, NEW close
    PROVE  Count(str, left, left, open, close) = 1
<1>1. Marked(str, left, left, open) = {} /\ Marked(str, left, left, close) = {}
  BY DEF Marked
<1> QED
  BY <1>1, CountMarked, FS_EmptySet

\* A character opens one, closes one or does neither.
LEMMA CountStep ==
    ASSUME NEW str, NEW left \in Nat, NEW k \in Nat, left <= k, NEW open, NEW close
    PROVE  /\ Count(str, left, k + 1, open, close) >= Count(str, left, k, open, close) - 1
           /\ str[k + 1] # close =>
                Count(str, left, k + 1, open, close) >= Count(str, left, k, open, close)
<1> DEFINE o == Cardinality(Marked(str, left, k, open))
           c == Cardinality(Marked(str, left, k, close))
           o1 == Cardinality(Marked(str, left, k + 1, open))
           c1 == Cardinality(Marked(str, left, k + 1, close))
<1>1. o \in Nat /\ c \in Nat /\ o1 \in Nat /\ c1 \in Nat
  BY MarkedFinite
<1>2. o1 = o + (IF str[k + 1] = open THEN 1 ELSE 0)
  BY MarkedStep, ZenonT(60) DEF o, o1
<1>3. c1 = c + (IF str[k + 1] = close THEN 1 ELSE 0)
  BY MarkedStep, ZenonT(60) DEF c, c1
<1>4. /\ Count(str, left, k, open, close) = 1 + o - c
      /\ Count(str, left, k + 1, open, close) = 1 + o1 - c1
  BY CountMarked
<1> HIDE DEF o, c, o1, c1
<1> QED
  BY <1>1, <1>2, <1>3, <1>4

\* What is behind the k-th character does not matter.
LEMMA CountPrefix ==
    ASSUME NEW s \in Seq(Chars), NEW n \in 1..Len(s), NEW left \in Nat, NEW k \in Nat, k <= n,
           NEW open, NEW close
    PROVE  Count(SubSeq(s, 1, n), left, k, open, close) = Count(s, left, k, open, close)
<1>1. \A j \in left + 1..k : SubSeq(s, 1, n)[j] = s[j]
  OBVIOUS
<1>2. \A mark : Marked(SubSeq(s, 1, n), left, k, mark) = Marked(s, left, k, mark)
  BY <1>1 DEF Marked
<1> QED
  BY <1>2, CountMarked

-----------------------------------------------------------------------------
(* The bracket that is found *)

\* The characters between left and k are inside the bracket at left, which k closes.
Encloses(str, left, k, open, close) ==
    /\ k \in left + 1..Len(str)
    /\ str[k] = close
    /\ Count(str, left, k, open, close) = 0
    /\ \A j \in left..k - 1 : Count(str, left, j, open, close) > 0

ClosedAt(str, left, open, close) == {k \in left + 1..Len(str) : Count(str, left, k, open, close) = 0}

LEMMA FindType ==
    ASSUME NEW s \in Seq(Chars), NEW left \in Nat \ {0}, NEW open, NEW close
    PROVE  LET k == find_match_bracket(s, left, open, close)
               S == ClosedAt(s, left, open, close)
           IN  /\ S \subseteq left + 1..Len(s)
               /\ S = {} => k = 0
               /\ S # {} => k \in S /\ \A j \in S : k <= j
<1> DEFINE S == ClosedAt(s, left, open, close)
<1>1. S \subseteq left + 1..Len(s) /\ S \subseteq Nat
  BY DEF ClosedAt
<1>2. find_match_bracket(s, left, open, close) = IF S = {} THEN 0 ELSE CHOOSE k \in S : \A j \in S : k <= j
  BY DEF find_match_bracket, ClosedAt
<1> HIDE DEF S
<1>3. S # {} => \E k \in S : \A j \in S : k <= j
  BY <1>1, LeastElement
<1> QED
  BY <1>1, <1>2, <1>3 DEF S

\* find_match_bracket returns the place of the bracket that closes the one at
\* left, whatever is nested between the two, or 0 when there is none.
THEOREM MatchingBracket ==
    ASSUME NEW s \in Seq(Chars), NEW left \in Nat \ {0}, NEW open, NEW close
    PROVE  LET k == find_match_bracket(s, left, open, close)
           IN  /\ k \in Nat
               /\ k # 0 => Encloses(s, left, k, open, close)
               /\ \A j : Encloses(s, left, j, open, close) => k = j
<1> DEFINE k == find_match_bracket(s, left, open, close)
           S == ClosedAt(s, left, open, close)
           n(j) == Count(s, left, j, open, close)
<1>1. /\ S \subseteq left + 1..Len(s)
      /\ S = {} => k = 0
      /\ S # {} => k \in S /\ \A j \in S : k <= j
  BY FindType, Zenon
<1>2. \A j \in S : n(j) = 0
  BY DEF ClosedAt
<1>3. \A j \in left + 1..Len(s) : n(j) = 0 => j \in S
  BY DEF ClosedAt
<1>4. k \in Nat
  BY <1>1
<1> HIDE DEF k, S
<1>5. ASSUME k # 0
      PROVE  Encloses(s, left, k, open, close)
  <2>1. k \in S /\ k \in left + 1..Len(s) /\ n(k) = 0
    BY <1>1, <1>2, <1>5
  <2>2. \A j \in left + 1..k - 1 : n(j) # 0
    BY <1>1, <1>3, <2>1
  <2> DEFINE T == {j \in Nat : left + j < k => n(left + j) > 0}
  <2>3. 0 \in T
    <3>1. n(left) = 1 /\ left + 0 = left
      BY CountFirst
    <3> QED
      BY <3>1
  <2>4. ASSUME NEW j \in Nat, j \in T
        PROVE  j + 1 \in T
    <3> SUFFICES ASSUME left + (j + 1) < k PROVE n(left + (j + 1)) > 0
      OBVIOUS
    <3> DEFINE i == left + j
    <3>1. i \in Nat /\ left <= i /\ i < k /\ i + 1 \in left + 1..k - 1 /\ left + (j + 1) = i + 1
      BY <1>4
    <3>2. n(i) > 0
      BY <2>4, <3>1
    <3>3. n(i + 1) >= n(i) - 1
      <4> HIDE DEF i
      <4> QED
        BY <3>1, CountStep
    <3>4. n(i) \in Int /\ n(i + 1) \in Int
      <4> HIDE DEF i
      <4> QED
        BY <3>1, CountType
    <3>5. n(i + 1) # 0
      BY <2>2, <3>1
    <3> HIDE DEF i, n
    <3> QED
      BY <3>1, <3>2, <3>3, <3>4, <3>5
  <2> HIDE DEF T
  <2>5. Nat \subseteq T
    BY <2>3, <2>4, Induction
  <2>6. ASSUME NEW j \in left..k - 1
        PROVE  n(j) > 0
    <3>1. j - left \in Nat /\ left + (j - left) = j /\ j < k
      BY <1>4
    <3>2. j - left \in T
      BY <2>5, <3>1
    <3> HIDE DEF n
    <3> QED
      BY <3>1, <3>2 DEF T
  <2>7. s[k] = close
    <3> SUFFICES ASSUME s[k] # close PROVE FALSE
      OBVIOUS
    <3> DEFINE i == k - 1
    <3>1. i \in Nat /\ left <= i /\ i + 1 = k /\ i \in left..k - 1
      BY <2>1
    <3>2. s[i + 1] # close
      BY <3>1
    <3>3. n(i + 1) >= n(i)
      <4> HIDE DEF i
      <4> QED
        BY <3>1, <3>2, CountStep
    <3>4. n(i) > 0 /\ n(i) \in Int
      <4> HIDE DEF i
      <4> QED
        BY <2>6, <3>1, CountType
    <3> HIDE DEF i, n
    <3> QED
      BY <2>1, <3>1, <3>3, <3>4
  <2> QED
    BY <2>1, <2>6, <2>7 DEF Encloses
<1>6. ASSUME NEW j, Encloses(s, left, j, open, close)
      PROVE  k = j
  <2>1. j \in left + 1..Len(s) /\ n(j) = 0 /\ \A i \in left..j - 1 : n(i) > 0
    BY <1>6 DEF Encloses
  <2>2. j \in S
    BY <1>3, <2>1
  <2>3. k \in S /\ k <= j
    BY <1>1, <2>2
  <2>4. n(k) = 0 /\ k \in left + 1..Len(s)
    BY <1>1, <1>2, <2>3
  <2> HIDE DEF n
  <2>5. ~(k < j)
    <3> SUFFICES ASSUME k < j PROVE FALSE
      OBVIOUS
    <3>1. k \in left..j - 1
      BY <2>1, <2>4
    <3>2. n(k) > 0
      BY <2>1, <3>1
    <3> QED
      BY <2>4, <3>2
  <2> QED
    BY <1>4, <2>1, <2>3, <2>5
<1> QED
  BY <1>4, <1>5, <1>6 DEF k

\* The bracket lies in the first n characters: what is behind them does not matter.
LEMMA EnclosedPrefix ==
    ASSUME NEW s \in Seq(Chars), NEW n \in 1..Len(s), NEW left \in Nat \ {0}, NEW k \in 1..n,
           NEW open, NEW close
    PROVE  Encloses(SubSeq(s, 1, n), left, k, open, close) <=> Encloses(s, left, k, open, close)
<1> DEFINE p == SubSeq(s, 1, n)
<1>1. Len(p) = n /\ p[k] = s[k] /\ p \in Seq(Chars)
  OBVIOUS
<1>2. \A j \in left..k - 1 : Count(p, left, j, open, close) = Count(s, left, j, open, close)
  <2>1. \A j \in left..k - 1 : j \in Nat /\ j <= n
    OBVIOUS
  <2> QED
    BY <2>1, CountPrefix
<1>3. Count(p, left, k, open, close) = Count(s, left, k, open, close)
  BY CountPrefix
<1>4. k \in left + 1..Len(p) <=> k \in left + 1..Len(s)
  BY <1>1
<1> HIDE DEF p
<1> QED
  BY <1>1, <1>2, <1>3, <1>4 DEF Encloses, p

-----------------------------------------------------------------------------
(* What one turn of split() takes *)

\* The pieces split() knows: a basic type, a struct, an array of structs, of dict
\* entries, or of one character, which may be the "a" of an array of arrays.
Complete(p) ==
    \/ Len(p) = 1 /\ p[1] \in Basic
    \/ p[1] = "(" /\ Encloses(p, 1, Len(p), "(", ")")
    \/ p[1] = "a" /\ \/ Len(p) = 2 /\ p[2] \notin {"(", "{"}
                     \/ p[2] = "(" /\ Encloses(p, 2, Len(p), "(", ")")
                     \/ p[2] = "{" /\ Encloses(p, 2, Len(p), "{", "}")

LEMMA Letters == "(" \notin Basic /\ "a" \notin Basic /\ "(" # "a" /\ "(" # "{"
  BY DEF Basic, Ints, Signed, Unsigned

\* A turn takes the first n characters exactly when they are a complete piece.
LEMMA TurnTakes ==
    ASSUME NEW s \in Seq(Chars), NEW n \in 1..Len(s)
    PROVE  ~Throws(s) /\ PieceLength(s) = n <=> Complete(SubSeq(s, 1, n))
<1> DEFINE p == SubSeq(s, 1, n)
           h == s[1]
<1>1. Len(p) = n /\ p[1] = h /\ Head(s) = h /\ n >= 1 /\ (n >= 2 => p[2] = s[2])
  OBVIOUS
<1>2. n \in Nat /\ n <= Len(s) /\ n # 0 /\ n \in 1..n
  OBVIOUS
<1>3. ASSUME NEW left \in {1, 2}, NEW open, NEW close
      PROVE  find_match_bracket(s, left, open, close) = n <=> Encloses(p, left, n, open, close)
  <2>1. find_match_bracket(s, left, open, close) = n <=> Encloses(s, left, n, open, close)
    BY <1>2, MatchingBracket
  <2>2. Encloses(p, left, n, open, close) <=> Encloses(s, left, n, open, close)
    BY <1>2, EnclosedPrefix
  <2> QED
    BY <2>1, <2>2, Zenon
<1>4. \A open, close : Encloses(p, 2, n, open, close) => n >= 2
  BY <1>1 DEF Encloses
<1>5. PieceLength(s) = n => ~(PieceLength(s) > Len(s))
  BY <1>2
<1> HIDE DEF p, h
<1>6. CASE h \in Basic
  <2>1. PieceLength(s) = 1
    BY <1>1, <1>6, Zenon DEF PieceLength
  <2>2. ~Throws(s)
    BY <1>1, <1>2, <1>6, <2>1 DEF Throws
  <2>3. Complete(p) <=> n = 1
    BY ZenonT(60), <1>1, <1>6, Letters DEF Complete
  <2> QED
    BY <2>1, <2>2, <2>3 DEF p
<1>7. CASE h = "("
  <2>1. PieceLength(s) = find_match_bracket(s, 1, "(", ")")
    BY <1>1, <1>7, Letters, Zenon DEF PieceLength
  <2>2. PieceLength(s) = n <=> Encloses(p, 1, n, "(", ")")
    BY <1>3, <2>1
  <2>3. Complete(p) <=> Encloses(p, 1, n, "(", ")")
    BY <1>1, <1>7, Letters, Zenon DEF Complete
  <2>4. PieceLength(s) = n => ~Throws(s)
    BY <1>1, <1>5, <1>7 DEF Throws
  <2> QED
    BY <2>2, <2>3, <2>4 DEF p
<1>8. CASE h = "a"
  <2>1. PieceLength(s) = IF Len(s) > 1 /\ s[2] = "(" THEN find_match_bracket(s, 2, "(", ")")
                         ELSE IF Len(s) > 1 /\ s[2] = "{" THEN find_match_bracket(s, 2, "{", "}")
                         ELSE 2
    BY <1>1, <1>8, Letters, Zenon DEF PieceLength
  <2>2. PieceLength(s) = n => ~Throws(s)
    BY <1>1, <1>5, <1>8 DEF Throws
  <2>3. Complete(p) <=> \/ n = 2 /\ p[2] \notin {"(", "{"}
                        \/ p[2] = "(" /\ Encloses(p, 2, n, "(", ")")
                        \/ p[2] = "{" /\ Encloses(p, 2, n, "{", "}")
    BY <1>1, <1>8, Letters, Zenon DEF Complete
  <2>4. CASE n = 1
    <3>0. ~Encloses(p, 2, n, "(", ")") /\ ~Encloses(p, 2, n, "{", "}")
      <4>1. ~(n >= 2)
        BY <2>4
      <4> QED
        BY <1>4, <4>1, Zenon
    <3>1. PieceLength(s) # 1
      <4>1. find_match_bracket(s, 2, "(", ")") # n /\ find_match_bracket(s, 2, "{", "}") # n
        BY ZenonT(60), <1>3, <3>0
      <4>2. 2 # n
        BY <2>4
      <4>3. PieceLength(s) # n
        BY <2>1, <4>1, <4>2, Zenon
      <4> QED
        BY <2>4, <4>3
    <3>2. ~Complete(p)
      <4>1. n # 2
        BY <2>4
      <4> QED
        BY <2>3, <3>0, <4>1, Zenon
    <3> QED
      BY <2>4, <3>1, <3>2 DEF p
  <2>5. CASE n >= 2
    <3>1. Len(s) > 1 /\ p[2] = s[2]
      BY <1>1, <1>2, <2>5
    <3>2. find_match_bracket(s, 2, "(", ")") = n <=> Encloses(p, 2, n, "(", ")")
      BY <1>3
    <3>3. find_match_bracket(s, 2, "{", "}") = n <=> Encloses(p, 2, n, "{", "}")
      BY ZenonT(60), <1>3
    <3>4. PieceLength(s) = n <=> Complete(p)
      <4>1. CASE s[2] = "("
        BY <2>1, <2>3, <3>1, <3>2, <4>1, Letters
      <4>2. CASE s[2] = "{"
        BY ZenonT(60), <2>1, <2>3, <3>1, <3>3, <4>2, Letters
      <4>3. CASE s[2] \notin {"(", "{"}
        BY ZenonT(60), <2>1, <2>3, <3>1, <4>3
      <4> QED
        BY ZenonT(60), <4>1, <4>2, <4>3
    <3> QED
      BY <2>2, <3>4 DEF p
  <2> QED
    BY <1>1, <1>2, <2>4, <2>5
<1>9. CASE h \notin Basic \cup {"(", "a"}
  <2>1. Throws(s)
    BY <1>1, <1>9, Zenon DEF Throws
  <2>2. ~Complete(p)
    BY ZenonT(60), <1>1, <1>9 DEF Complete
  <2> QED
    BY <2>1, <2>2 DEF p
<1> QED
  BY <1>6, <1>7, <1>8, <1>9

-----------------------------------------------------------------------------
(* The turns of split() *)

\* What the turn leaves to the next.
Rest(s) == SubSeq(s, PieceLength(s) + 1, Len(s))

LEMMA PartOfRest ==
    ASSUME NEW s \in Seq(Chars), NEW n \in 0..Len(s),
           NEW a \in Nat \ {0}, NEW b \in Nat, b <= Len(s) - n
    PROVE  SubSeq(SubSeq(s, n + 1, Len(s)), a, b) = SubSeq(s, n + a, n + b)
<1> DEFINE r == SubSeq(s, n + 1, Len(s))
           x == SubSeq(r, a, b)
           y == SubSeq(s, n + a, n + b)
<1>1. r \in Seq(Chars) /\ Len(r) = Len(s) - n /\ \A k \in 1..Len(s) - n : r[k] = s[n + k]
  OBVIOUS
<1> HIDE DEF r
<1>2. x \in Seq(Chars) /\ y \in Seq(Chars) /\ Len(x) = Len(y)
  BY <1>1
<1>3. \A k \in 1..Len(x) : x[k] = y[k]
  <2> TAKE k \in 1..Len(x)
  <2>1. k \in 1..(b + 1 - a) /\ a + k - 1 \in 1..Len(s) - n
    BY <1>1, SMTT(40)
  <2>2. x[k] = r[a + k - 1]
    BY <1>1, <2>1
  <2>3. y[k] = s[n + a + k - 1]
    BY <2>1, SMTT(40)
  <2>4. r[a + k - 1] = s[n + (a + k - 1)] /\ n + (a + k - 1) = n + a + k - 1
    BY <1>1, <2>1
  <2> QED
    BY <2>2, <2>3, <2>4
<1> HIDE DEF x, y
<1>4. x = y
  BY <1>2, <1>3, SeqEqual
<1> QED
  BY <1>4 DEF x, y, r

LEMMA PieceType ==
    ASSUME NEW s \in Seq(Chars)
    PROVE  PieceLength(s) \in Nat
<1>1. \A open, close : find_match_bracket(s, 1, open, close) \in Nat
  BY MatchingBracket
<1>2. \A open, close : find_match_bracket(s, 2, open, close) \in Nat
  BY MatchingBracket
<1>3. 1 \in Nat /\ 2 \in Nat
  OBVIOUS
<1> QED
  BY <1>1, <1>2, <1>3, Zenon DEF PieceLength

LEMMA PieceTaken ==
    ASSUME NEW s \in Seq(Chars), ~Throws(s), ~Stuck(s)
    PROVE  /\ PieceLength(s) \in 1..Len(s)
           /\ Rest(s) \in Seq(Chars)
           /\ Len(Rest(s)) = Len(s) - PieceLength(s)
<1> DEFINE n == PieceLength(s)
<1>1. n \in Nat /\ n # 0 /\ ~(n > Len(s))
  BY PieceType, Zenon DEF Throws, Stuck
<1> HIDE DEF n
<1>2. n \in 1..Len(s)
  BY <1>1
<1>3. Rest(s) \in Seq(Chars) /\ Len(Rest(s)) = Len(s) - n
  BY <1>2 DEF Rest, n
<1> QED
  BY <1>2, <1>3 DEF n

Results == [ok: BOOLEAN, result: Seq(Seq(Chars))]

\* One turn, where f is what the turns to come return.
Turn(s, f) ==
    IF s = <<>> THEN [ok |-> TRUE, result |-> <<>>]
    ELSE IF Throws(s) \/ Stuck(s) THEN [ok |-> FALSE, result |-> <<>>]
    ELSE [ok |-> f[Rest(s)].ok, result |-> <<SubSeq(s, 1, PieceLength(s))>> \o f[Rest(s)].result]

LEMMA TurnType ==
    ASSUME NEW s \in Seq(Chars), NEW f \in [Seq(Chars) -> Results]
    PROVE  Turn(s, f) \in Results
<1>1. [ok |-> TRUE, result |-> <<>>] \in Results /\ [ok |-> FALSE, result |-> <<>>] \in Results
  BY DEF Results
<1>2. ASSUME ~Throws(s), ~Stuck(s)
      PROVE  [ok |-> f[Rest(s)].ok,
              result |-> <<SubSeq(s, 1, PieceLength(s))>> \o f[Rest(s)].result] \in Results
  <2>1. PieceLength(s) \in 1..Len(s) /\ Rest(s) \in Seq(Chars) /\ s \in Seq(Chars)
    BY <1>2, PieceTaken
  <2>2. PICK p : p = SubSeq(s, 1, PieceLength(s))
    OBVIOUS
  <2>3. p \in Seq(Chars)
    BY <2>1, <2>2
  <2>4. f[Rest(s)].ok \in BOOLEAN /\ f[Rest(s)].result \in Seq(Seq(Chars))
    BY <2>1 DEF Results
  <2>5. <<p>> \o f[Rest(s)].result \in Seq(Seq(Chars))
    BY <2>3, <2>4
  <2> QED
    BY <2>2, <2>4, <2>5 DEF Results
<1> QED
  BY <1>1, <1>2 DEF Turn

\* split() does what its turns do, and it ends.
LEMMA SplitTurns ==
    /\ split \in [Seq(Chars) -> Results]
    /\ \A s \in Seq(Chars) : split[s] = Turn(s, split)
<1> DEFINE A == [Seq(Chars) -> Results]
           rank == [s \in Seq(Chars) |-> Len(s)]
           H == [s \in Seq(Chars) |-> [f \in A |-> Turn(s, f)]]
           turns(u) == [s \in Seq(Chars) |->
                          IF s = <<>> THEN [ok |-> TRUE, result |-> <<>>]
                          ELSE IF Throws(s) \/ Stuck(s) THEN [ok |-> FALSE, result |-> <<>>]
                          ELSE LET rest == u[SubSeq(s, PieceLength(s) + 1, Len(s))]
                               IN  [ok |-> rest.ok,
                                    result |-> <<SubSeq(s, 1, PieceLength(s))>> \o rest.result]]
<1>1. split = CHOOSE u : u = turns(u)
  BY DEF split
<1>2. \A u : turns(u) = [s \in Seq(Chars) |-> Turn(s, u)]
  BY Zenon DEF Turn, Rest
<1> HIDE DEF turns
<1>3. rank \in [Seq(Chars) -> Nat] /\ \A s \in Seq(Chars) : rank[s] = Len(s)
  OBVIOUS
<1>4. H \in [Seq(Chars) -> [A -> Results]]
  BY TurnType
<1>5. \A s \in Seq(Chars) : \A f \in A : H[s][f] = Turn(s, f)
  OBVIOUS
<1> HIDE DEF rank, H
<1>6. LooksLower(Seq(Chars), Results, rank, H)
  <2>1. ASSUME NEW s \in Seq(Chars), NEW f \in A, NEW g \in A,
               \A y \in Seq(Chars) : rank[y] < rank[s] => f[y] = g[y]
        PROVE  H[s][f] = H[s][g]
    <3>1. ASSUME ~Throws(s), ~Stuck(s)
          PROVE  f[Rest(s)] = g[Rest(s)]
      <4>1. /\ PieceLength(s) \in 1..Len(s) /\ Rest(s) \in Seq(Chars)
            /\ Len(Rest(s)) = Len(s) - PieceLength(s) /\ Len(s) \in Nat
        BY <3>1, PieceTaken
      <4>2. rank[Rest(s)] < rank[s]
        BY <1>3, <4>1
      <4> QED
        BY <2>1, <4>1, <4>2
    <3>2. Turn(s, f) = Turn(s, g)
      BY <3>1, Zenon DEF Turn
    <3> QED
      BY <1>5, <3>2
  <2> QED
    BY <2>1 DEF LooksLower
<1>7. Results # {}
  <2>1. [ok |-> TRUE, result |-> <<>>] \in Results
    BY DEF Results
  <2> QED
    BY <2>1
<1>8. PICK g \in A : Solves(Seq(Chars), H, g)
  BY <1>3, <1>4, <1>6, <1>7, RankRecursion
<1>9. g = turns(g)
  <2>1. \A s \in Seq(Chars) : g[s] = Turn(s, g)
    BY <1>5, <1>8 DEF Solves
  <2>2. g = [s \in Seq(Chars) |-> g[s]]
    OBVIOUS
  <2>3. [s \in Seq(Chars) |-> g[s]] = [s \in Seq(Chars) |-> Turn(s, g)]
    BY <2>1
  <2> QED
    BY <1>2, <2>2, <2>3, Zenon
<1>10. split = turns(split)
  BY <1>1, <1>9, Zenon
<1>11. split = [s \in Seq(Chars) |-> Turn(s, split)]
  BY <1>2, <1>10, Zenon
<1>12. \A s \in Seq(Chars) : split[s] = Turn(s, split)
  BY <1>11, Zenon
<1>13. split \in [Seq(Chars) -> Results]
  <2> DEFINE T == {s \in Seq(Chars) : split[s] \in Results}
  <2>1. ASSUME NEW s \in Seq(Chars), \A y \in Seq(Chars) : rank[y] < rank[s] => y \in T
        PROVE  s \in T
    <3> DEFINE k == [y \in Seq(Chars) |-> IF y \in T THEN split[y] ELSE [ok |-> TRUE, result |-> <<>>]]
    <3>1. k \in A
      BY DEF Results
    <3>2. Turn(s, split) = Turn(s, k)
      <4>1. ASSUME ~Throws(s), ~Stuck(s)
            PROVE  split[Rest(s)] = k[Rest(s)]
        <5>1. /\ PieceLength(s) \in 1..Len(s) /\ Rest(s) \in Seq(Chars)
              /\ Len(Rest(s)) = Len(s) - PieceLength(s) /\ Len(s) \in Nat
          BY <4>1, PieceTaken
        <5>2. rank[Rest(s)] < rank[s]
          BY <1>3, <5>1
        <5>3. Rest(s) \in T
          BY <2>1, <5>1, <5>2
        <5> QED
          BY <5>1, <5>3
      <4> HIDE DEF k
      <4> QED
        BY <4>1, Zenon DEF Turn
    <3> HIDE DEF k
    <3>3. split[s] \in Results
      BY <1>12, <3>1, <3>2, TurnType
    <3> QED
      BY <3>3
  <2> HIDE DEF T
  <2>2. Seq(Chars) \subseteq T
    <3> DEFINE X == Seq(Chars)
    <3>1. rank \in [X -> Nat] /\ \A t \in X : (\A y \in X : rank[y] < rank[t] => y \in T) => t \in T
      BY <1>3, <2>1
    <3> HIDE DEF X
    <3>2. X \subseteq T
      BY <3>1, RankInduction
    <3> QED
      BY <3>2 DEF X
  <2>3. \A s \in Seq(Chars) : split[s] \in Results
    BY <2>2 DEF T
  <2>4. [s \in Seq(Chars) |-> Turn(s, split)] \in [Seq(Chars) -> Results]
    BY <1>12, <2>3
  <2> QED
    BY <1>11, <2>4, Zenon
<1> QED
  BY <1>12, <1>13

-----------------------------------------------------------------------------
(* What split() returns *)

\* c says where s is cut: the i-th piece ends at c[i], and begins behind the one before.
CutAt(s, pieces, c) ==
    /\ c \in [0..Len(pieces) -> 0..Len(s)]
    /\ c[0] = 0 /\ c[Len(pieces)] = Len(s)
    /\ \A i, j \in 0..Len(pieces) : i <= j => c[i] <= c[j]
    /\ \A i \in 1..Len(pieces) : pieces[i] = SubSeq(s, c[i - 1] + 1, c[i])

\* One behind the other, the pieces are s, and each is complete.
CutUp(s, pieces) ==
    /\ pieces \in Seq(Seq(Chars))
    /\ \E c : CutAt(s, pieces, c)
    /\ \A i \in 1..Len(pieces) : Complete(pieces[i])

LEMMA CompleteNotEmpty ==
    ASSUME NEW p, Complete(p), Len(p) = 0
    PROVE  FALSE
<1>1. \A left \in {1, 2} : \A open, close : ~Encloses(p, left, Len(p), open, close)
  BY DEF Encloses
<1>2. 1 \in {1, 2} /\ 2 \in {1, 2} /\ Len(p) # 1 /\ Len(p) # 2
  OBVIOUS
<1> QED
  BY <1>1, <1>2, Zenon DEF Complete

\* A piece in front of what is cut up.
LEMMA PieceAdded ==
    ASSUME NEW s \in Seq(Chars), NEW n \in 1..Len(s), NEW p, p = SubSeq(s, 1, n), Complete(p),
           NEW pieces, CutUp(SubSeq(s, n + 1, Len(s)), pieces)
    PROVE  CutUp(s, <<p>> \o pieces)
<1> DEFINE r == SubSeq(s, n + 1, Len(s))
           all == <<p>> \o pieces
           m == Len(pieces)
<1>1. p \in Seq(Chars) /\ pieces \in Seq(Seq(Chars)) /\ \A i \in 1..m : Complete(pieces[i])
  BY DEF CutUp
<1>2. PICK c : CutAt(r, pieces, c)
  BY DEF CutUp
<1>3. /\ all \in Seq(Seq(Chars)) /\ Len(all) = m + 1 /\ m \in Nat /\ all[1] = p
      /\ \A i \in 2..m + 1 : i - 1 \in 1..m /\ all[i] = pieces[i - 1]
  BY <1>1
<1>4. Len(r) = Len(s) - n /\ Len(r) \in Nat
  OBVIOUS
<1> DEFINE d == [i \in 0..m + 1 |-> IF i = 0 THEN 0 ELSE n + c[i - 1]]
<1>5. \A i \in 1..m + 1 : i - 1 \in 0..m /\ c[i - 1] \in 0..Len(s) - n /\ d[i] = n + c[i - 1]
  <2> TAKE i \in 1..m + 1
  <2>1. i - 1 \in 0..m /\ i \in 0..m + 1 /\ i # 0
    BY <1>3
  <2>2. c \in [0..m -> 0..Len(r)]
    BY <1>2 DEF CutAt
  <2>3. c[i - 1] \in 0..Len(s) - n
    BY <1>4, <2>1, <2>2
  <2>4. d[i] = n + c[i - 1]
    BY <2>1
  <2> QED
    BY <2>1, <2>3, <2>4, Zenon
<1>6. d \in [0..m + 1 -> 0..Len(s)]
  <2>1. ASSUME NEW i \in 0..m + 1
        PROVE  (IF i = 0 THEN 0 ELSE n + c[i - 1]) \in 0..Len(s)
    <3>1. i = 0 \/ i \in 1..m + 1
      BY <1>3
    <3>2. 0 \in 0..Len(s) /\ \A k \in 0..Len(s) - n : n + k \in 0..Len(s)
      OBVIOUS
    <3> HIDE DEF d, m
    <3>3. i # 0 => c[i - 1] \in 0..Len(s) - n
      BY <1>5, <3>1
    <3> QED
      BY <3>2, <3>3
  <2> QED
    BY <2>1
<1>7. d[0] = 0 /\ d[m + 1] = Len(s)
  <2>1. 0 \in 0..m + 1 /\ m + 1 \in 1..m + 1 /\ (m + 1) - 1 = m
    BY <1>3
  <2>2. c[m] = Len(s) - n
    BY <1>2, <1>4 DEF CutAt
  <2> QED
    BY <1>5, <2>1, <2>2
<1>8. \A i, j \in 0..m + 1 : i <= j => d[i] <= d[j]
  <2> TAKE i, j \in 0..m + 1
  <2> HAVE i <= j
  <2>1. i # 0 => i \in 1..m + 1 /\ j \in 1..m + 1 /\ i - 1 <= j - 1
    BY <1>3
  <2>2. i # 0 => c[i - 1] <= c[j - 1]
    BY <1>2, <1>5, <2>1 DEF CutAt
  <2>3. d[j] \in Nat
    BY <1>6
  <2> HIDE DEF d
  <2> QED
    BY <1>5, <1>7, <2>1, <2>2, <2>3, SMTT(40)
<1>9. \A i \in 1..m + 1 : all[i] = SubSeq(s, d[i - 1] + 1, d[i])
  <2> TAKE i \in 1..m + 1
  <2>1. CASE i = 1
    <3>1. 1 \in 1..m + 1 /\ c[0] = 0 /\ c[1 - 1] = 0
      BY <1>2, <1>3 DEF CutAt
    <3>2. d[1] = n /\ d[0] = 0
      BY <1>5, <1>7, <3>1
    <3> HIDE DEF d, all
    <3> QED
      BY <1>3, <2>1, <3>2
  <2>2. CASE i # 1
    <3> DEFINE a == c[i - 2]
               b == c[i - 1]
    <3>1. i - 1 \in 1..m /\ i - 1 \in 1..m + 1 /\ (i - 1) - 1 = i - 2 /\ i \in 2..m + 1
      BY <1>3, <2>2
    <3>2. d[i] = n + b /\ d[i - 1] = n + a /\ a \in 0..Len(s) - n /\ b \in 0..Len(s) - n
      BY <1>5, <3>1
    <3>3. pieces[i - 1] = SubSeq(r, c[(i - 1) - 1] + 1, c[i - 1])
      BY <1>2, <3>1 DEF CutAt
    <3>4. pieces[i - 1] = SubSeq(r, a + 1, b)
      BY <3>1, <3>3
    <3> HIDE DEF a, b, d, r, all
    <3>5. SubSeq(SubSeq(s, n + 1, Len(s)), a + 1, b) = SubSeq(s, n + (a + 1), n + b)
      <4>1. n \in 0..Len(s) /\ a + 1 \in Nat \ {0} /\ b \in Nat /\ b <= Len(s) - n
        BY <3>2
      <4> QED
        BY <4>1, PartOfRest
    <3>6. n + (a + 1) = (n + a) + 1
      BY <3>2
    <3> QED
      BY <1>3, <3>1, <3>2, <3>4, <3>5, <3>6, Zenon DEF r
  <2> QED
    BY <2>1, <2>2
<1> HIDE DEF d, r, all
<1>10. CutAt(s, all, d)
  BY <1>3, <1>6, <1>7, <1>8, <1>9, Zenon DEF CutAt
<1>11. \A i \in 1..Len(all) : Complete(all[i])
  <2> TAKE i \in 1..Len(all)
  <2>1. i = 1 \/ i \in 2..m + 1
    BY <1>3
  <2> QED
    BY <1>1, <1>3, <2>1
<1> QED
  BY <1>3, <1>10, <1>11 DEF CutUp, all

\* The first piece, and what is behind it.
LEMMA FirstPiece ==
    ASSUME NEW s \in Seq(Chars), NEW pieces, pieces # <<>>, CutUp(s, pieces)
    PROVE  \E n \in 1..Len(s) :
             /\ pieces[1] = SubSeq(s, 1, n)
             /\ Complete(SubSeq(s, 1, n))
             /\ CutUp(SubSeq(s, n + 1, Len(s)), Tail(pieces))
<1> DEFINE m == Len(pieces)
           ps == Tail(pieces)
<1>1. /\ pieces \in Seq(Seq(Chars)) /\ m \in Nat /\ m >= 1
      /\ \A i \in 1..m : Complete(pieces[i])
  BY DEF CutUp
<1>2. PICK c : CutAt(s, pieces, c)
  BY DEF CutUp
<1>3. /\ ps \in Seq(Seq(Chars)) /\ Len(ps) = m - 1
      /\ \A i \in 1..m - 1 : i + 1 \in 1..m /\ ps[i] = pieces[i + 1]
  BY <1>1
<1> DEFINE n == c[1]
           r == SubSeq(s, n + 1, Len(s))
<1>4. 1 \in 1..m /\ 1 \in 0..m /\ 1 - 1 = 0 /\ 0 + 1 = 1
  BY <1>1
<1>5. n \in 0..Len(s) /\ pieces[1] = SubSeq(s, 1, n)
  <2>1. pieces[1] = SubSeq(s, c[1 - 1] + 1, c[1]) /\ c[0] = 0 /\ c[1] \in 0..Len(s)
    BY <1>2, <1>4 DEF CutAt
  <2>2. c[1 - 1] + 1 = 1
    BY <1>4, <2>1
  <2> QED
    BY <2>1, <2>2, Zenon
<1>6. Complete(SubSeq(s, 1, n))
  BY <1>1, <1>4, <1>5, Zenon
<1> HIDE DEF n
<1>7. n \in 1..Len(s)
  <2>1. n = 0 => Len(SubSeq(s, 1, n)) = 0
    OBVIOUS
  <2>2. n # 0
    BY <1>6, <2>1, CompleteNotEmpty
  <2> QED
    BY <1>5, <2>2
<1>8. Len(r) = Len(s) - n /\ Len(s) \in Nat
  BY <1>7
<1> HIDE DEF r
<1>9. \A i \in 0..m - 1 : i + 1 \in 0..m /\ c[i + 1] \in n..Len(s)
  <2> TAKE i \in 0..m - 1
  <2>1. i + 1 \in 0..m /\ 1 <= i + 1
    BY <1>1
  <2>2. c[i + 1] \in 0..Len(s) /\ c[1] <= c[i + 1]
    BY <1>2, <1>4, <2>1 DEF CutAt
  <2> QED
    BY <1>7, <2>1, <2>2 DEF n
<1> DEFINE d == [i \in 0..m - 1 |-> c[i + 1] - n]
<1>10. d \in [0..m - 1 -> 0..Len(r)]
  BY <1>7, <1>8, <1>9
<1>11. \A i \in 0..m - 1 : d[i] = c[i + 1] - n
  OBVIOUS
<1> HIDE DEF d
<1>12. d[0] = 0 /\ d[m - 1] = Len(r)
  <2>1. 0 \in 0..m - 1 /\ m - 1 \in 0..m - 1 /\ (m - 1) + 1 = m
    BY <1>1
  <2>2. c[m] = Len(s)
    BY <1>2 DEF CutAt
  <2>3. c[0 + 1] = n
    BY <1>4 DEF n
  <2> QED
    BY <1>7, <1>8, <1>11, <2>1, <2>2, <2>3
<1>13. \A i, j \in 0..m - 1 : i <= j => d[i] <= d[j]
  <2> TAKE i, j \in 0..m - 1
  <2> HAVE i <= j
  <2>1. i + 1 \in 0..m /\ j + 1 \in 0..m /\ i + 1 <= j + 1
    BY <1>1
  <2>2. c[i + 1] <= c[j + 1]
    BY <1>2, <2>1 DEF CutAt
  <2>3. c[i + 1] \in Int /\ c[j + 1] \in Int
    BY <1>9
  <2> QED
    BY <1>7, <1>11, <2>2, <2>3
<1>14. \A i \in 1..m - 1 : ps[i] = SubSeq(r, d[i - 1] + 1, d[i])
  <2> TAKE i \in 1..m - 1
  <2> DEFINE a == d[i - 1]
             b == d[i]
  <2>1. /\ i \in 0..m - 1 /\ i - 1 \in 0..m - 1 /\ (i - 1) + 1 = i
        /\ i + 1 \in 1..m /\ (i + 1) - 1 = i
    BY <1>1
  <2>2. c[i + 1] = n + b /\ c[i] = n + a /\ a \in 0..Len(s) - n /\ b \in 0..Len(s) - n
    <3>1. b = c[i + 1] - n /\ a = c[i] - n
      BY <1>11, <2>1
    <3>2. c[i + 1] \in n..Len(s) /\ c[i] \in n..Len(s)
      <4>1. c[(i - 1) + 1] \in n..Len(s)
        BY <1>9, <2>1
      <4> QED
        BY <1>9, <2>1, <4>1
    <3> HIDE DEF a, b
    <3> QED
      BY <1>7, <3>1, <3>2, SMTT(30)
  <2>3. ps[i] = SubSeq(s, c[i] + 1, c[i + 1])
    <3>1. pieces[i + 1] = SubSeq(s, c[(i + 1) - 1] + 1, c[i + 1])
      BY <1>2, <2>1 DEF CutAt
    <3> QED
      BY <1>3, <2>1, <3>1
  <2> HIDE DEF a, b
  <2>4. SubSeq(SubSeq(s, n + 1, Len(s)), a + 1, b) = SubSeq(s, n + (a + 1), n + b)
    <3>1. n \in 0..Len(s) /\ a + 1 \in Nat \ {0} /\ b \in Nat /\ b <= Len(s) - n
      BY <1>7, <2>2
    <3> QED
      BY <3>1, PartOfRest
  <2>5. n + (a + 1) = (n + a) + 1
    BY <1>7, <2>2
  <2> QED
    BY <2>2, <2>3, <2>4, <2>5, Zenon DEF r, a, b
<1>15. CutAt(r, ps, d)
  <2> HIDE DEF ps, m
  <2> QED
    BY <1>3, <1>10, <1>12, <1>13, <1>14, Zenon DEF CutAt
<1>16. \A i \in 1..Len(ps) : Complete(ps[i])
  BY <1>1, <1>3
<1>17. CutUp(r, ps)
  BY <1>3, <1>15, <1>16, Zenon DEF CutUp
<1> QED
  BY <1>5, <1>6, <1>7, <1>17, Zenon DEF r

LEMMA NothingLeft ==
    ASSUME NEW s \in Seq(Chars)
    PROVE  CutUp(s, <<>>) <=> s = <<>>
<1>1. Len(<<>>) = 0 /\ <<>> \in Seq(Seq(Chars)) /\ 0..0 = {0}
  OBVIOUS
<1>2. ASSUME CutUp(s, <<>>)
      PROVE  s = <<>>
  <2>1. PICK c : CutAt(s, <<>>, c)
    BY <1>2 DEF CutUp
  <2>2. Len(s) = 0
    BY <1>1, <2>1 DEF CutAt
  <2> QED
    BY <2>2
<1>3. ASSUME s = <<>>
      PROVE  CutUp(s, <<>>)
  <2> DEFINE c == [i \in {0} |-> 0]
  <2>1. c \in [0..0 -> 0..Len(s)] /\ c[0] = 0 /\ Len(s) = 0
    BY <1>1, <1>3
  <2>2. CutAt(s, <<>>, c)
    <3> HIDE DEF c
    <3> QED
      BY <1>1, <2>1 DEF CutAt
  <2>3. \A i \in 1..Len(<<>>) : FALSE
    OBVIOUS
  <2> QED
    BY <1>1, <2>2, <2>3, Zenon DEF CutUp
<1> QED
  BY <1>2, <1>3

\* Turn by turn, a signature that can be cut into complete pieces is cut into them.
LEMMA SplitFindsPieces ==
    ASSUME NEW s \in Seq(Chars), NEW pieces, CutUp(s, pieces)
    PROVE  split[s] = [ok |-> TRUE, result |-> pieces]
<1> DEFINE rank == [t \in Seq(Chars) |-> Len(t)]
           T == {t \in Seq(Chars) : \A ps : CutUp(t, ps) => split[t] = [ok |-> TRUE, result |-> ps]}
<1>1. rank \in [Seq(Chars) -> Nat] /\ \A t \in Seq(Chars) : rank[t] = Len(t)
  OBVIOUS
<1> HIDE DEF rank
<1>2. ASSUME NEW t \in Seq(Chars), \A y \in Seq(Chars) : rank[y] < rank[t] => y \in T,
             NEW ps, CutUp(t, ps)
      PROVE  split[t] = [ok |-> TRUE, result |-> ps]
  <2>0. t \in Seq(Chars) /\ split[t] = Turn(t, split)
    BY SplitTurns
  <2>1. CASE ps = <<>>
    <3>1. t = <<>>
      BY <1>2, <2>0, <2>1, NothingLeft
    <3> QED
      BY <2>0, <2>1, <3>1, Zenon DEF Turn
  <2>2. CASE ps # <<>>
    <3>1. PICK n \in 1..Len(t) : /\ ps[1] = SubSeq(t, 1, n)
                                 /\ Complete(SubSeq(t, 1, n))
                                 /\ CutUp(SubSeq(t, n + 1, Len(t)), Tail(ps))
      BY <1>2, <2>0, <2>2, FirstPiece, Zenon
    <3>2. ~Throws(t) /\ PieceLength(t) = n
      BY <2>0, <3>1, TurnTakes, Zenon
    <3>3. t # <<>> /\ ~Stuck(t)
      BY <3>1, <3>2 DEF Stuck
    <3>4. Rest(t) \in Seq(Chars) /\ Len(Rest(t)) = Len(t) - n
      BY <3>2, <3>3, PieceTaken
    <3>5. Rest(t) \in T
      BY <1>1, <1>2, <2>0, <3>4
    <3>6. split[Rest(t)] = [ok |-> TRUE, result |-> Tail(ps)]
      BY <3>1, <3>2, <3>5, Zenon DEF Rest
    <3>7. ps = <<ps[1]>> \o Tail(ps)
      <4>1. ps \in Seq(Seq(Chars))
        BY <1>2 DEF CutUp
      <4> QED
        BY <2>2, <4>1
    <3>8. split[t] = [ok |-> split[Rest(t)].ok,
                      result |-> <<SubSeq(t, 1, PieceLength(t))>> \o split[Rest(t)].result]
      BY <2>0, <3>2, <3>3, Zenon DEF Turn
    <3>9. split[Rest(t)].ok = TRUE /\ split[Rest(t)].result = Tail(ps)
      BY <3>6
    <3> QED
      BY <3>1, <3>2, <3>7, <3>8, <3>9, Zenon
  <2> QED
    BY <2>1, <2>2
<1>3. \A t \in Seq(Chars) : (\A y \in Seq(Chars) : rank[y] < rank[t] => y \in T) => t \in T
  BY <1>2
<1> HIDE DEF T
<1>4. Seq(Chars) \subseteq T
  <2> DEFINE X == Seq(Chars)
  <2>1. rank \in [X -> Nat] /\ \A t \in X : (\A y \in X : rank[y] < rank[t] => y \in T) => t \in T
    BY <1>1, <1>3
  <2> HIDE DEF X
  <2>2. X \subseteq T
    BY <2>1, RankInduction
  <2> QED
    BY <2>2 DEF X
<1> QED
  BY <1>4, Zenon DEF T

LEMMA SplitCutsUp ==
    ASSUME NEW s \in Seq(Chars), split[s].ok
    PROVE  CutUp(s, split[s].result)
<1> DEFINE rank == [t \in Seq(Chars) |-> Len(t)]
           T == {t \in Seq(Chars) : split[t].ok => CutUp(t, split[t].result)}
<1>1. rank \in [Seq(Chars) -> Nat] /\ \A t \in Seq(Chars) : rank[t] = Len(t)
  OBVIOUS
<1> HIDE DEF rank
<1>2. ASSUME NEW t \in Seq(Chars), \A y \in Seq(Chars) : rank[y] < rank[t] => y \in T, split[t].ok
      PROVE  CutUp(t, split[t].result)
  <2>0. t \in Seq(Chars) /\ split[t] = Turn(t, split)
    BY SplitTurns
  <2>1. CASE t = <<>>
    <3>1. split[t] = [ok |-> TRUE, result |-> <<>>]
      BY <2>0, <2>1, Zenon DEF Turn
    <3>2. split[t].result = <<>>
      BY <3>1
    <3> QED
      BY <2>0, <2>1, <3>2, NothingLeft
  <2>2. CASE t # <<>>
    <3>1. ~Throws(t) /\ ~Stuck(t)
      <4>1. Throws(t) \/ Stuck(t) => split[t] = [ok |-> FALSE, result |-> <<>>]
        BY <2>0, <2>2, Zenon DEF Turn
      <4>2. Throws(t) \/ Stuck(t) => split[t].ok = FALSE
        BY <4>1
      <4> QED
        BY <1>2, <4>2
    <3> DEFINE n == PieceLength(t)
               r == split[Rest(t)]
    <3>2. n \in 1..Len(t) /\ Rest(t) \in Seq(Chars) /\ Len(Rest(t)) = Len(t) - n
      BY <2>2, <3>1, PieceTaken
    <3>3. split[t] = [ok |-> r.ok, result |-> <<SubSeq(t, 1, n)>> \o r.result]
      BY <2>0, <2>2, <3>1, Zenon DEF Turn
    <3> HIDE DEF n, r
    <3>4. r.ok /\ split[t].result = <<SubSeq(t, 1, n)>> \o r.result
      BY <1>2, <3>3
    <3>5. Rest(t) \in T
      BY <1>1, <1>2, <2>0, <3>2
    <3>6. CutUp(SubSeq(t, n + 1, Len(t)), r.result)
      BY <3>4, <3>5, Zenon DEF Rest, n, r
    <3>7. Complete(SubSeq(t, 1, n))
      BY <2>0, <3>1, <3>2, TurnTakes, Zenon DEF n
    <3>8. CutUp(t, <<SubSeq(t, 1, n)>> \o r.result)
      BY <2>0, <3>2, <3>6, <3>7, PieceAdded
    <3> QED
      BY <3>4, <3>8, Zenon
  <2> QED
    BY <2>1, <2>2
<1>3. \A t \in Seq(Chars) : (\A y \in Seq(Chars) : rank[y] < rank[t] => y \in T) => t \in T
  BY <1>2
<1> HIDE DEF T
<1>4. Seq(Chars) \subseteq T
  <2> DEFINE X == Seq(Chars)
  <2>1. rank \in [X -> Nat] /\ \A t \in X : (\A y \in X : rank[y] < rank[t] => y \in T) => t \in T
    BY <1>1, <1>3
  <2> HIDE DEF X
  <2>2. X \subseteq T
    BY <2>1, RankInduction
  <2> QED
    BY <2>2 DEF X
<1> QED
  BY <1>4, Zenon DEF T

\* split() succeeds exactly at the signatures that can be cut into complete pieces,
\* and returns these: none is lost, doubled or moved, and there is no other cut.
THEOREM SplitCorrect ==
    ASSUME NEW s \in Seq(Chars)
    PROVE  /\ split[s].ok <=> \E pieces : CutUp(s, pieces)
           /\ \A pieces : CutUp(s, pieces) => split[s].result = pieces
<1>1. ASSUME NEW pieces, CutUp(s, pieces)
      PROVE  split[s].ok /\ split[s].result = pieces
  <2>1. split[s] = [ok |-> TRUE, result |-> pieces]
    BY <1>1, SplitFindsPieces
  <2> QED
    BY <2>1
<1>2. split[s].ok => CutUp(s, split[s].result)
  BY SplitCutsUp
<1> QED
  BY <1>1, <1>2, Zenon

\* Concatenation under a name of its own: the provers rewrite \o by themselves.
join(s, t) == s \o t

LEMMA PrefixKept ==
    ASSUME NEW S, NEW s \in Seq(S), NEW t \in Seq(S), NEW n \in 1..Len(s)
    PROVE  /\ join(s, t) \in Seq(S) /\ n \in 1..Len(join(s, t))
           /\ SubSeq(join(s, t), 1, n) = SubSeq(s, 1, n)
           /\ SubSeq(join(s, t), n + 1, Len(join(s, t))) = join(SubSeq(s, n + 1, Len(s)), t)
<1> DEFINE x == s \o t
           v == SubSeq(s, n + 1, Len(s))
<1>1. x \in Seq(S) /\ Len(x) = Len(s) + Len(t)
  OBVIOUS
<1>2. SubSeq(x, 1, n) = SubSeq(s, 1, n)
  <2> DEFINE a == SubSeq(x, 1, n)
             b == SubSeq(s, 1, n)
  <2>1. a \in Seq(S) /\ b \in Seq(S) /\ Len(a) = n /\ Len(b) = n
    OBVIOUS
  <2>2. \A k \in 1..n : a[k] = b[k]
    OBVIOUS
  <2> HIDE DEF a, b
  <2> QED
    BY <2>1, <2>2, SeqEqual DEF a, b
<1>3. SubSeq(x, n + 1, Len(x)) = v \o t
  <2> DEFINE a == SubSeq(x, n + 1, Len(x))
             b == v \o t
  <2>1. v \in Seq(S) /\ Len(v) = Len(s) - n /\ \A k \in 1..Len(s) - n : v[k] = s[n + k]
    OBVIOUS
  <2>2. a \in Seq(S) /\ Len(a) = Len(s) + Len(t) - n
    BY <1>1
  <2> HIDE DEF v
  <2>3. b \in Seq(S) /\ Len(b) = Len(s) - n + Len(t)
    <3>1. b \in Seq(S) /\ Len(b) = Len(v) + Len(t)
      BY <2>1, ConcatProperties
    <3> QED
      BY <2>1, <3>1
  <2>4. \A k \in 1..Len(a) : a[k] = b[k]
    <3> TAKE k \in 1..Len(a)
    <3>1. a[k] = x[n + k] /\ n + k \in 1..Len(x)
      BY <1>1, <2>2
    <3>2. CASE k \in 1..Len(s) - n
      <4>1. x[n + k] = s[n + k]
        BY <3>2
      <4>2. b[k] = v[k]
        BY <2>1, <3>2
      <4> QED
        BY <2>1, <3>1, <3>2, <4>1, <4>2
    <3>3. CASE k \notin 1..Len(s) - n
      <4>1. x[n + k] = t[n + k - Len(s)]
        BY <2>2, <3>3
      <4>2. b[k] = t[k - Len(v)]
        BY <2>1, <2>2, <2>3, <3>3
      <4>3. k - Len(v) = n + k - Len(s)
        BY <2>1
      <4> QED
        BY <3>1, <4>1, <4>2, <4>3
    <3> QED
      BY <3>2, <3>3
  <2>5. Len(a) = Len(b)
    BY <2>2, <2>3
  <2> HIDE DEF a, b
  <2> QED
    BY <2>2, <2>3, <2>4, <2>5, SeqEqual DEF a, b
<1>4. n \in 1..Len(x)
  <2> HIDE DEF x
  <2> QED
    BY <1>1
<1> QED
  BY <1>1, <1>2, <1>3, <1>4, Zenon DEF join

LEMMA CutsJoin ==
    ASSUME NEW s \in Seq(Chars), NEW t \in Seq(Chars), NEW p, NEW q, CutUp(s, p), CutUp(t, q)
    PROVE  CutUp(join(s, t), join(p, q))
<1> DEFINE X == Seq(Chars)
           rank == [u \in X |-> Len(u)]
           T == {u \in X : \A ps : CutUp(u, ps) => CutUp(join(u, t), join(ps, q))}
<1>0. q \in Seq(Seq(Chars))
  BY DEF CutUp
<1>1. rank \in [X -> Nat] /\ \A u \in X : rank[u] = Len(u)
  OBVIOUS
<1> HIDE DEF rank
<1>2. ASSUME NEW u \in X, \A y \in X : rank[y] < rank[u] => y \in T, NEW ps, CutUp(u, ps)
      PROVE  CutUp(join(u, t), join(ps, q))
  <2>1. CASE ps = <<>>
    <3>1. u = <<>>
      BY <1>2, <2>1, NothingLeft
    <3>2. join(<<>>, t) = t /\ join(<<>>, q) = q
      BY <1>0 DEF join
    <3> QED
      BY <2>1, <3>1, <3>2, Zenon
  <2>2. CASE ps # <<>>
    <3>1. PICK n \in 1..Len(u) : /\ ps[1] = SubSeq(u, 1, n)
                                 /\ Complete(SubSeq(u, 1, n))
                                 /\ CutUp(SubSeq(u, n + 1, Len(u)), Tail(ps))
      BY <1>2, <2>2, FirstPiece, Zenon
    <3> DEFINE v == SubSeq(u, n + 1, Len(u))
               x == join(u, t)
    <3>2. v \in X /\ Len(v) = Len(u) - n
      OBVIOUS
    <3>3. v \in T
      <4> HIDE DEF v, T
      <4> QED
        BY <1>1, <1>2, <3>2
    <3>4. CutUp(join(v, t), join(Tail(ps), q))
      BY <3>1, <3>3
    <3>5. /\ x \in Seq(Chars) /\ n \in 1..Len(x)
          /\ SubSeq(x, 1, n) = SubSeq(u, 1, n) /\ SubSeq(x, n + 1, Len(x)) = join(v, t)
      BY PrefixKept, Zenon
    <3>6. ps \in Seq(Seq(Chars))
      BY <1>2 DEF CutUp
    <3>7. join(ps, q) = <<ps[1]>> \o join(Tail(ps), q)
      <4>1. ps = <<ps[1]>> \o Tail(ps) /\ Tail(ps) \in Seq(Seq(Chars)) /\ <<ps[1]>> \in Seq(Seq(Chars))
        BY <2>2, <3>6
      <4>2. (<<ps[1]>> \o Tail(ps)) \o q = <<ps[1]>> \o (Tail(ps) \o q)
        BY <1>0, <4>1, ConcatAssociative
      <4> QED
        BY <4>1, <4>2, Zenon DEF join
    <3> HIDE DEF v, x
    <3>8. CutUp(SubSeq(x, n + 1, Len(x)), join(Tail(ps), q))
      BY <3>4, <3>5, Zenon
    <3>9. CutUp(x, <<ps[1]>> \o join(Tail(ps), q))
      BY <3>1, <3>5, <3>8, PieceAdded, Zenon
    <3> QED
      BY <3>7, <3>9, Zenon DEF x
  <2> QED
    BY <2>1, <2>2
<1>3. \A u \in X : (\A y \in X : rank[y] < rank[u] => y \in T) => u \in T
  BY <1>2
<1> HIDE DEF T, X
<1>4. X \subseteq T
  BY <1>1, <1>3, RankInduction
<1> QED
  BY <1>4, Zenon DEF T, X

\* The signature of several values is cut where those of the single ones end: no
\* piece reaches from one value into the next.
THEOREM SplitConcatenates ==
    ASSUME NEW s \in Seq(Chars), NEW t \in Seq(Chars), split[s].ok, split[t].ok
    PROVE  split[s \o t] = [ok |-> TRUE, result |-> split[s].result \o split[t].result]
<1>1. CutUp(s, split[s].result) /\ CutUp(t, split[t].result)
  BY SplitCutsUp
<1>2. CutUp(join(s, t), join(split[s].result, split[t].result))
  BY <1>1, CutsJoin
<1>3. join(s, t) \in Seq(Chars)
  BY DEF join
<1>4. split[join(s, t)] = [ok |-> TRUE, result |-> join(split[s].result, split[t].result)]
  BY <1>2, <1>3, SplitFindsPieces
<1> QED
  BY <1>4, Zenon DEF join

-----------------------------------------------------------------------------
(* Integers on their way into a message *)

\* The integers some type has.
LEMMA TwoToThe == ASSUME NEW w \in Nat PROVE 2 ^ w \in Nat \ {0}
<1>1. IsFiniteSet(1..w) /\ Cardinality(1..w) = w
  BY FS_Interval
<1>2. IsFiniteSet(SUBSET (1..w)) /\ Cardinality(SUBSET (1..w)) = 2 ^ w
  BY <1>1, FS_SUBSET
<1>3. Cardinality(SUBSET (1..w)) \in Nat
  BY <1>2, FS_CardinalityType
<1>4. Cardinality(SUBSET (1..w)) # 0
  BY <1>2, FS_EmptySet
<1> QED
  BY <1>2, <1>3, <1>4, Zenon

\* One bit more makes room for two numbers at least.
LEMMA TwoMore ==
    ASSUME NEW w \in Nat \ {0, 1}
    PROVE  2 ^ w >= 2 ^ (w - 1) + 2
<1> DEFINE v == w - 1
           A == SUBSET (1..v)
           B == A \cup {{w}}
           C == B \cup {{v, w}}
           D == SUBSET (1..w)
<1>1. v \in Nat /\ v >= 1 /\ w = v + 1
  OBVIOUS
<1>2. IsFiniteSet(1..v) /\ Cardinality(1..v) = v /\ IsFiniteSet(1..w) /\ Cardinality(1..w) = w
  <2>1. \A m \in Nat : IsFiniteSet(1..m) /\ Cardinality(1..m) = m
    BY FS_Interval
  <2> QED
    BY <1>1, <2>1
<1>3. IsFiniteSet(A) /\ Cardinality(A) = 2 ^ v
  BY <1>2, FS_SUBSET
<1>4. IsFiniteSet(D) /\ Cardinality(D) = 2 ^ w
  BY <1>2, FS_SUBSET
<1>5. {w} \notin A /\ {v, w} \notin B
  BY <1>1
<1>6. C \subseteq D
  <2>1. A \subseteq D
    BY <1>1
  <2>2. {w} \in D /\ {v, w} \in D
    BY <1>1
  <2> QED
    BY <2>1, <2>2
<1> HIDE DEF A, D
<1>7. IsFiniteSet(B) /\ Cardinality(B) = Cardinality(A) + 1
  BY <1>3, <1>5, FS_AddElement
<1> HIDE DEF B
<1>8. IsFiniteSet(C) /\ Cardinality(C) = Cardinality(B) + 1
  BY <1>5, <1>7, FS_AddElement
<1> HIDE DEF C
<1>9. Cardinality(C) <= Cardinality(D)
  BY <1>4, <1>6, FS_Subset
<1>10. 2 ^ v \in Nat /\ 2 ^ w \in Nat
  BY <1>1, TwoToThe
<1> HIDE DEF v
<1>11. 2 ^ v + 2 <= 2 ^ w
  BY <1>3, <1>4, <1>7, <1>8, <1>9, <1>10
<1> QED
  BY <1>10, <1>11 DEF v

\* The range of an integer type.
LEMMA Limits ==
    ASSUME NEW c \in Ints
    PROVE  /\ Low(c) \in Int
           /\ 2 ^ Width[c] \in Nat \ {0}
           /\ High(c) = Low(c) + 2 ^ Width[c] - 1
<1>1. Width[c] \in Nat \ {0, 1}
  BY WidthAssumption
<1>2. Width[c] - 1 \in Nat /\ Width[c] \in Nat
  BY <1>1
<1>3. 2 ^ Width[c] \in Nat \ {0} /\ 2 ^ (Width[c] - 1) \in Nat
  BY <1>2, TwoToThe
<1>4. Low(c) \in Int
  BY <1>3 DEF Low
<1> QED
  BY <1>3, <1>4 DEF High

\* A cast leaves a number of the type's range alone and makes one of any other.
LEMMA CastInRange ==
    ASSUME NEW c \in Ints, NEW n \in Int
    PROVE  /\ static_cast(c, n) \in Low(c)..High(c)
           /\ n \in Low(c)..High(c) => static_cast(c, n) = n
<1> DEFINE l == Low(c)
           m == 2 ^ Width[c]
<1>1. l \in Int /\ m \in Nat \ {0} /\ High(c) = l + m - 1
  BY Limits
<1>2. static_cast(c, n) = l + ((n - l) % m)
  BY DEF static_cast
<1> HIDE DEF l, m
<1>3. l + ((n - l) % m) \in l..l + m - 1
  BY <1>1
<1>4. n \in l..l + m - 1 => l + ((n - l) % m) = n
  BY <1>1
<1>5. Low(c) = l
  BY DEF l
<1> QED
  BY <1>1, <1>2, <1>3, <1>4, <1>5

\* A long long cast to uint64_t: as it is, or plus 2^64 when negative.
LEMMA LongCast ==
    ASSUME NEW n \in LongLong
    PROVE  static_cast("t", n) = IF n < 0 THEN n + 2 ^ Width["t"] ELSE n
<1> DEFINE h == 2 ^ (Width["x"] - 1)
           m == 2 ^ Width["t"]
<1>1. h \in Nat /\ m \in Nat /\ m >= h + 2
  <2>1. Width["x"] \in Nat \ {0, 1} /\ Width["x"] = Width["t"]
    BY WidthAssumption, LongAssumption DEF Ints, Signed, Unsigned
  <2>2. Width["x"] \in Nat /\ Width["x"] - 1 \in Nat
    BY <2>1
  <2> QED
    BY <2>1, <2>2, TwoToThe, TwoMore
<1>2. Low("t") = 0 /\ Low("x") = -h /\ High("x") = -h + m - 1
  <2>1. "x" \in Signed /\ "t" \notin Signed
    BY DEF Signed
  <2> QED
    BY <2>1, LongAssumption DEF Low, High, h
<1>3. static_cast("t", n) = Low("t") + ((n - Low("t")) % m)
  BY DEF static_cast
<1> HIDE DEF h, m
<1>4. n \in -h..-h + m - 1
  BY <1>2 DEF LongLong
<1>5. static_cast("t", n) = n % m
  <2>1. n - 0 = n /\ 0 + (n % m) = n % m
    BY <1>1, <1>4
  <2> QED
    BY <1>2, <1>3, <2>1
<1>6. CASE n < 0
  <2>1. m \in Nat \ {0} /\ n + m \in 0..m - 1
    BY <1>1, <1>4, <1>6
  <2>2. n % m = n + m
    BY <1>4, <2>1
  <2> QED
    BY <1>5, <1>6, <2>2 DEF m
<1>7. CASE ~(n < 0)
  <2>1. m \in Nat \ {0} /\ n \in 0..m - 1
    BY <1>1, <1>4, <1>7
  <2>2. n % m = n
    BY <2>1
  <2> QED
    BY <1>5, <1>7, <2>2
<1> QED
  BY <1>6, <1>7

\* Any JSON number is taken for any integer type: one in range arrives as it is,
\* one out of range as some value of the type.
THEOREM NumberTaken ==
    ASSUME NEW c \in Ints, NEW n \in Int
    PROVE  /\ AppendIntegerFromJson(c, <<"num", n>>) = WroteInteger(c, n)
           /\ static_cast(c, n) \in Low(c)..High(c)
           /\ n \in Low(c)..High(c) => AppendIntegerFromJson(c, <<"num", n>>) = Wrote(<<<<c>>, n>>)
<1>1. AppendIntegerFromJson(c, <<"num", n>>) = WroteInteger(c, n)
  BY DEF AppendIntegerFromJson
<1>2. n \in Low(c)..High(c) => WroteInteger(c, n) = Wrote(<<<<c>>, n>>)
  BY CastInRange, Zenon DEF WroteInteger
<1> QED
  BY <1>1, <1>2, CastInRange, Zenon

\* A text that begins with a number is taken for an integer type other than
\* uint64_t when that number is in range, and arrives as it; else the request is
\* refused.  For uint64_t every number of 64 bits is taken, a negative one as that
\* number plus 2^64.
THEOREM TextChecked ==
    ASSUME NEW c \in Ints, NEW kind \in Numeric, NEW n \in Int
    PROVE  /\ c # "t" => AppendIntegerFromJson(c, <<"str", <<kind, n>>>>) =
                           IF n \in LongLong /\ n \in Low(c)..High(c) THEN Wrote(<<<<c>>, n>>) ELSE Failed
           /\ c = "t" => AppendIntegerFromJson(c, <<"str", <<kind, n>>>>) =
                           IF n \in LongLong THEN Wrote(<<<<c>>, IF n < 0 THEN n + 2 ^ Width[c] ELSE n>>)
                           ELSE Failed
<1> DEFINE j == <<"str", <<kind, n>>>>
<1>1. j[1] = "str" /\ j[2][1] = kind /\ j[2][2] = n
  OBVIOUS
<1>2. InLimits(c, n) <=> c = "t" \/ n \in Low(c)..High(c)
  BY DEF InLimits
<1> HIDE DEF j
<1>3. AppendIntegerFromJson(c, j) =
        IF n \in LongLong /\ (c = "t" \/ n \in Low(c)..High(c)) THEN WroteInteger(c, n) ELSE Failed
  BY <1>1, <1>2 DEF AppendIntegerFromJson
<1>4. n \in Low(c)..High(c) => WroteInteger(c, n) = Wrote(<<<<c>>, n>>)
  BY CastInRange, Zenon DEF WroteInteger
<1>5. ASSUME c = "t", n \in LongLong
      PROVE  WroteInteger(c, n) = Wrote(<<<<c>>, IF n < 0 THEN n + 2 ^ Width[c] ELSE n>>)
  BY <1>5, LongCast, Zenon DEF WroteInteger
<1>6. c # "t" => AppendIntegerFromJson(c, j) =
        IF n \in LongLong /\ n \in Low(c)..High(c) THEN Wrote(<<<<c>>, n>>) ELSE Failed
  BY <1>3, <1>4, Zenon
<1>7. c = "t" => AppendIntegerFromJson(c, j) =
        IF n \in LongLong THEN Wrote(<<<<c>>, IF n < 0 THEN n + 2 ^ Width[c] ELSE n>>) ELSE Failed
  BY <1>3, <1>5, Zenon
<1> QED
  BY <1>6, <1>7 DEF j

-----------------------------------------------------------------------------
(* One sequence after the other *)

Builds(ss, g) == g[0] = <<>> /\ \A k \in 1..Len(ss) : g[k] = join(g[k - 1], ss[k])

LEMMA JoinType ==
    ASSUME NEW S, NEW s \in Seq(S), NEW t \in Seq(S)
    PROVE  /\ join(s, t) \in Seq(S)
           /\ Len(join(s, t)) = Len(s) + Len(t)
           /\ \A i \in 1..Len(s) : join(s, t)[i] = s[i]
           /\ \A i \in 1..Len(t) : join(s, t)[Len(s) + i] = t[i]
  BY DEF join

\* u is s and then t.
Joined(u, s, t) ==
    /\ Len(u) = Len(s) + Len(t)
    /\ \A i \in 1..Len(s) : u[i] = s[i]
    /\ \A i \in 1..Len(t) : u[Len(s) + i] = t[i]

LEMMA JoinJoined ==
    ASSUME NEW S, NEW s \in Seq(S), NEW t \in Seq(S)
    PROVE  Joined(join(s, t), s, t)
  BY DEF join, Joined

LEMMA JoinLength ==
    ASSUME NEW S, NEW s \in Seq(S), NEW t \in Seq(S)
    PROVE  Len(join(s, t)) = Len(s) + Len(t)
  BY JoinType

LEMMA JoinChars ==
    ASSUME NEW s \in Seq(Chars), NEW t \in Seq(Chars)
    PROVE  join(s, t) \in Seq(Chars) /\ Len(join(s, t)) = Len(s) + Len(t)
  BY JoinType

LEMMA JoinNothing ==
    ASSUME NEW S, NEW s \in Seq(S)
    PROVE  join(s, <<>>) = s /\ join(<<>>, s) = s
  BY ConcatEmptySeq DEF join

LEMMA JoinAssociative ==
    ASSUME NEW S, NEW r \in Seq(S), NEW s \in Seq(S), NEW t \in Seq(S)
    PROVE  join(join(r, s), t) = join(r, join(s, t))
  BY ConcatAssociative DEF join

LEMMA SeqOver ==
    ASSUME NEW S, NEW A, NEW s \in Seq(S), \A i \in 1..Len(s) : s[i] \in A
    PROVE  s \in Seq(A)
  OBVIOUS

LEMMA BuildsExist ==
    ASSUME NEW S, NEW ss \in Seq(Seq(S))
    PROVE  \E g \in [0..Len(ss) -> Seq(S)] : Builds(ss, g)
<1> DEFINE D == [k \in 1..Len(ss) |-> [x \in Seq(S) |-> join(x, ss[k])]]
<1>1. D \in [1..Len(ss) -> [Seq(S) -> Seq(S)]]
  <2>1. ASSUME NEW k \in 1..Len(ss), NEW x \in Seq(S) PROVE join(x, ss[k]) \in Seq(S)
    <3>1. ss[k] \in Seq(S)
      OBVIOUS
    <3> QED
      BY <3>1, JoinType
  <2> QED
    BY <2>1
<1>2. <<>> \in Seq(S) /\ Len(ss) \in Nat
  OBVIOUS
<1>3. \A k \in 1..Len(ss) : \A x \in Seq(S) : D[k][x] = join(x, ss[k])
  OBVIOUS
<1> HIDE DEF D
<1>4. PICK g \in [0..Len(ss) -> Seq(S)] : Steps(Len(ss), <<>>, D, g)
  BY <1>1, <1>2, StepRecursion
<1>5. ASSUME NEW k \in 1..Len(ss) PROVE g[k] = join(g[k - 1], ss[k])
  <2>1. k - 1 \in 0..Len(ss)
    OBVIOUS
  <2>2. g[k - 1] \in Seq(S)
    BY <2>1
  <2> QED
    BY <1>3, <1>4, <2>2 DEF Steps
<1> QED
  BY <1>4, <1>5 DEF Steps, Builds

\* What is built that way is what FlattenSeq returns.
LEMMA FlattenBuilt ==
    ASSUME NEW S, NEW ss \in Seq(Seq(S)), NEW g \in [0..Len(ss) -> Seq(S)], Builds(ss, g)
    PROVE  FlattenSeq(ss) = g[Len(ss)]
<1> DEFINE n == Len(ss)
           upto(f) == [i \in 1..n |-> IF i = 1 THEN ss[i] ELSE f[i - 1] \o ss[i]]
           u == CHOOSE f : f = upto(f)
<1>1. CASE n = 0
  <2>1. ss = <<>> /\ g[0] = <<>>
    BY <1>1 DEF Builds
  <2> QED
    BY <1>1, <2>1 DEF FlattenSeq
<1>2. CASE n # 0
  <2>1. FlattenSeq(ss) = u[n]
    BY <1>2 DEF FlattenSeq
  <2> DEFINE h == [i \in 1..n |-> g[i]]
  <2>2. h = upto(h)
    <3>1. ASSUME NEW i \in 1..n
          PROVE  g[i] = IF i = 1 THEN ss[i] ELSE h[i - 1] \o ss[i]
      <4>1. g[i] = join(g[i - 1], ss[i])
        BY DEF Builds
      <4>2. CASE i = 1
        <5>1. g[i] = join(<<>>, ss[i])
          BY <4>1, <4>2 DEF Builds
        <5>2. ss[i] \in Seq(S)
          OBVIOUS
        <5> QED
          BY <4>2, <5>1, <5>2, JoinNothing
      <4>3. CASE i # 1
        <5>1. i - 1 \in 1..n
          BY <4>3
        <5>2. h[i - 1] = g[i - 1]
          BY <5>1
        <5> QED
          BY ZenonT(60), <4>1, <4>3, <5>2 DEF join
      <4> QED
        BY <4>2, <4>3
    <3> QED
      BY <3>1, Zenon
  <2> HIDE DEF h
  <2>3. u = upto(u)
    BY ZenonT(60), <2>2
  <2> HIDE DEF u
  <2>4. \A i \in 1..n : u[i] = IF i = 1 THEN ss[i] ELSE u[i - 1] \o ss[i]
    BY <2>3
  <2> DEFINE T == {i \in 0..n : i # 0 => u[i] = g[i]}
  <2>5. ASSUME NEW k \in 1..n, k - 1 \in T PROVE k \in T
    <3>1. g[k] = join(g[k - 1], ss[k])
      BY DEF Builds
    <3>2. k = 1 => u[k] = g[k]
      <4> HAVE k = 1
      <4>1. g[k] = join(<<>>, ss[k]) /\ ss[k] \in Seq(S)
        BY <3>1 DEF Builds
      <4>2. u[k] = ss[k]
        BY <2>4
      <4>3. join(<<>>, ss[k]) = ss[k]
        BY <4>1, JoinNothing
      <4> QED
        BY <4>1, <4>2, <4>3
    <3>3. k # 1 => u[k] = g[k]
      <4> HAVE k # 1
      <4>1. u[k - 1] = g[k - 1]
        BY <2>5
      <4>2. u[k] = u[k - 1] \o ss[k]
        BY <2>4
      <4> QED
        BY <3>1, <4>1, <4>2, Zenon DEF join
    <3> QED
      BY <3>2, <3>3
  <2>6. 0 \in T /\ n \in Nat
    OBVIOUS
  <2> HIDE DEF T
  <2>7. 0..n \subseteq T
    BY <2>5, <2>6, InductionUpTo
  <2>8. n \in 0..n
    OBVIOUS
  <2>9. u[n] = g[n]
    BY <1>2, <2>7, <2>8 DEF T
  <2> QED
    BY <2>1, <2>9
<1> QED
  BY <1>1, <1>2

\* What all have that are put together, and putting two together keeps, the result has.
LEMMA FlattenClosed ==
    ASSUME NEW S, NEW A \in SUBSET Seq(S), <<>> \in A, \A s, t \in A : join(s, t) \in A,
           NEW ss \in Seq(A)
    PROVE  FlattenSeq(ss) \in A
<1>1. ss \in Seq(Seq(S)) /\ Len(ss) \in Nat
  OBVIOUS
<1>2. PICK g \in [0..Len(ss) -> Seq(S)] : Builds(ss, g)
  BY <1>1, BuildsExist
<1> DEFINE T == {k \in 0..Len(ss) : g[k] \in A}
<1>3. 0 \in T
  BY <1>2 DEF Builds
<1>4. ASSUME NEW k \in 1..Len(ss), k - 1 \in T PROVE k \in T
  <2>1. g[k] = join(g[k - 1], ss[k])
    BY <1>2 DEF Builds
  <2>2. ss[k] \in A /\ g[k - 1] \in A
    BY <1>4
  <2> QED
    BY <2>1, <2>2
<1> HIDE DEF T
<1>5. 0..Len(ss) \subseteq T
  BY <1>1, <1>3, <1>4, InductionUpTo
<1>6. g[Len(ss)] \in A
  <2>1. Len(ss) \in 0..Len(ss)
    OBVIOUS
  <2> QED
    BY <1>5, <2>1 DEF T
<1>7. FlattenSeq(ss) = g[Len(ss)]
  BY <1>1, <1>2, FlattenBuilt
<1> QED
  BY <1>6, <1>7

LEMMA FlattenType ==
    ASSUME NEW S, NEW ss \in Seq(Seq(S))
    PROVE  FlattenSeq(ss) \in Seq(S)
<1> DEFINE A == Seq(S)
<1>1. A \in SUBSET Seq(S) /\ <<>> \in A /\ ss \in Seq(A)
  OBVIOUS
<1>2. \A s, t \in A : join(s, t) \in A
  BY JoinType
<1> HIDE DEF A
<1>3. FlattenSeq(ss) \in A
  BY <1>1, <1>2, FlattenClosed
<1> QED
  BY <1>3 DEF A

\* Nothing is lost: the result is as long as any of the parts.
LEMMA FlattenLength ==
    ASSUME NEW S, NEW ss \in Seq(Seq(S)), NEW i \in 1..Len(ss)
    PROVE  Len(ss[i]) <= Len(FlattenSeq(ss))
<1>1. PICK g \in [0..Len(ss) -> Seq(S)] : Builds(ss, g)
  BY BuildsExist
<1>2. Len(ss) \in Nat
  OBVIOUS
<1> DEFINE T == {k \in 0..Len(ss) : i <= k => Len(ss[i]) <= Len(g[k])}
<1>3. 0 \in T
  OBVIOUS
<1>4. ASSUME NEW k \in 1..Len(ss), k - 1 \in T PROVE k \in T
  <2>1. g[k] = join(g[k - 1], ss[k])
    BY <1>1 DEF Builds
  <2>2. i <= k - 1 => Len(ss[i]) <= Len(g[k - 1])
    BY <1>4
  <2>3. i <= k => i = k \/ i <= k - 1
    BY <1>2
  <2> HIDE DEF T
  <2>10. k - 1 \in 0..Len(ss)
    BY <1>2
  <2>4. g[k - 1] \in Seq(S)
    BY <2>10
  <2>5. ss[k] \in Seq(S) /\ ss[i] \in Seq(S)
    OBVIOUS
  <2>6. Len(g[k]) = Len(g[k - 1]) + Len(ss[k])
    <3>1. Len(join(g[k - 1], ss[k])) = Len(g[k - 1]) + Len(ss[k])
      BY <2>4, <2>5, JoinLength
    <3> QED
      BY <2>1, <3>1
  <2>7. Len(g[k - 1]) \in Nat /\ Len(ss[k]) \in Nat /\ Len(ss[i]) \in Nat
    BY <2>4, <2>5
  <2>8. i <= k => Len(ss[i]) <= Len(g[k])
    <3> DEFINE a == Len(g[k - 1])
               b == Len(ss[k])
               c == Len(ss[i])
               d == Len(g[k])
    <3>1. a \in Nat /\ b \in Nat /\ c \in Nat /\ d = a + b
      BY <2>6, <2>7
    <3>2. i <= k - 1 => c <= a
      BY <2>2
    <3>3. i = k => c = b
      OBVIOUS
    <3> HIDE DEF a, b, c, d
    <3>4. i <= k => c <= d
      BY <2>3, <3>1, <3>2, <3>3
    <3> QED
      BY <3>4 DEF c, d
  <2>9. k \in 0..Len(ss)
    OBVIOUS
  <2> QED
    BY <2>8, <2>9 DEF T
<1> HIDE DEF T
<1>5. 0..Len(ss) \subseteq T
  BY <1>2, <1>3, <1>4, InductionUpTo
<1>6. Len(ss) \in 0..Len(ss) /\ i <= Len(ss)
  BY <1>2
<1>7. Len(ss[i]) <= Len(g[Len(ss)])
  BY <1>5, <1>6 DEF T
<1> QED
  BY <1>1, <1>7, FlattenBuilt

-----------------------------------------------------------------------------
(* Types and their signatures *)

SigsOf(Ts) == [i \in DOMAIN Ts |-> SigOf[Ts[i]]]
Flat(Ts) == FlattenSeq(SigsOf(Ts))

LEMMA Kinds ==
    /\ "a" \notin Simple /\ "{" \notin Simple /\ "(" \notin Simple
    /\ Simple \subseteq Chars /\ Basic \subseteq Simple /\ Ints \subseteq Basic
    /\ {"a", "(", ")", "{", "}"} \subseteq Chars
  BY DEF Simple, Basic, Refused, Ints, Signed, Unsigned, Chars

LEMMA Marks ==
    /\ <<"a">> \in Seq(Chars) /\ <<"(">> \in Seq(Chars) /\ <<")">> \in Seq(Chars)
    /\ <<"{">> \in Seq(Chars) /\ <<"}">> \in Seq(Chars)
<1>1. \A c \in Chars : <<c>> \in Seq(Chars)
  OBVIOUS
<1>2. "a" \in Chars /\ "(" \in Chars /\ ")" \in Chars /\ "{" \in Chars /\ "}" \in Chars
  BY ZenonT(60), Kinds
<1> QED
  BY <1>1, <1>2, Zenon

LEMMA JoinTwo ==
    ASSUME NEW p \in Chars, NEW q \in Chars
    PROVE  <<p, q>> = join(<<p>>, <<q>>)
<1> DEFINE a == <<p, q>>
           b == <<p>> \o <<q>>
<1>1. a \in Seq(Chars) /\ Len(a) = 2 /\ a[1] = p /\ a[2] = q
  OBVIOUS
<1>2. b \in Seq(Chars) /\ Len(b) = 2 /\ b[1] = p /\ b[2] = q
  OBVIOUS
<1>3. join(<<p>>, <<q>>) = b
  BY DEF join
<1> HIDE DEF a, b
<1>4. \A i \in 1..Len(a) : a[i] = b[i]
  <2>1. \A i \in 1..2 : i = 1 \/ i = 2
    OBVIOUS
  <2> QED
    BY <1>1, <1>2, <2>1
<1>5. a = b
  BY <1>1, <1>2, <1>4, SeqEqual
<1> QED
  BY <1>3, <1>5 DEF a

LEMMA TypeCases ==
    ASSUME NEW T \in Types
    PROVE  \/ T[1] \in Simple /\ T = <<T[1]>>
           \/ T[1] = "a" /\ T[2] \in Types
           \/ T[1] = "{" /\ T[2] \in Types /\ T[3] \in Types /\ T[2][1] \in Simple \ {"v"}
           \/ T[1] = "(" /\ T[2] \in Seq(Types) /\ T[2] # <<>>
  BY DataAssumption, Zenon DEF TypesAssumption

LEMMA SigType ==
    ASSUME NEW T \in Types
    PROVE  SigOf[T] \in Seq(Chars)
  BY ZenonT(60), DataAssumption DEF SigAssumption

LEMMA SigsType ==
    ASSUME NEW Ts \in Seq(Types)
    PROVE  /\ SigsOf(Ts) \in Seq(Seq(Chars))
           /\ Len(SigsOf(Ts)) = Len(Ts)
           /\ \A i \in 1..Len(Ts) : SigsOf(Ts)[i] = SigOf[Ts[i]]
           /\ Flat(Ts) \in Seq(Chars)
<1>1. \A i \in DOMAIN Ts : SigOf[Ts[i]] \in Seq(Chars)
  BY SigType
<1>2. /\ SigsOf(Ts) \in Seq(Seq(Chars))
      /\ Len(SigsOf(Ts)) = Len(Ts)
      /\ \A i \in 1..Len(Ts) : SigsOf(Ts)[i] = SigOf[Ts[i]]
  BY <1>1 DEF SigsOf
<1> QED
  BY <1>2, FlattenType DEF Flat

LEMMA SigCases ==
    ASSUME NEW T \in Types
    PROVE  /\ T[1] \in Simple => SigOf[T] = <<T[1]>>
           /\ T[1] = "a" => SigOf[T] = join(<<"a">>, SigOf[T[2]])
           /\ T[1] = "{" => SigOf[T] = join(<<"a">>, join(<<"{">>, join(join(SigOf[T[2]], SigOf[T[3]]), <<"}">>)))
           /\ T[1] = "(" => SigOf[T] = join(<<"(">>, join(Flat(T[2]), <<")">>))
<1>1. SigOf[T] =
         CASE T[1] \in Simple -> T
           [] T[1] = "a" -> <<"a">> \o SigOf[T[2]]
           [] T[1] = "{" -> <<"a", "{">> \o SigOf[T[2]] \o SigOf[T[3]] \o <<"}">>
           [] T[1] = "(" -> <<"(">> \o Flat(T[2]) \o <<")">>
  BY DataAssumption, Zenon DEF SigAssumption, Flat, SigsOf
<1>2. T[1] \in Simple => SigOf[T] = <<T[1]>>
  <2> HAVE T[1] \in Simple
  <2>1. T = <<T[1]>>
    BY TypeCases, Kinds, Zenon
  <2>2. SigOf[T] = T
    BY ZenonT(60), <1>1, Kinds
  <2> QED
    BY <2>1, <2>2, Zenon
<1>3. T[1] = "a" => SigOf[T] = join(<<"a">>, SigOf[T[2]])
  BY ZenonT(60), <1>1, Kinds DEF join
<1>4. ASSUME T[1] = "{"
      PROVE  SigOf[T] = join(<<"a">>, join(<<"{">>, join(join(SigOf[T[2]], SigOf[T[3]]), <<"}">>)))
  <2>1. SigOf[T] = <<"a", "{">> \o SigOf[T[2]] \o SigOf[T[3]] \o <<"}">>
    BY ZenonT(60), <1>1, <1>4, Kinds
  <2>2. T[2] \in Types /\ T[3] \in Types
    BY ZenonT(60), <1>4, TypeCases, Kinds
  <2>3. SigOf[T[2]] \in Seq(Chars) /\ SigOf[T[3]] \in Seq(Chars)
    BY <2>2, SigType
  <2> DEFINE k == SigOf[T[2]]
             v == SigOf[T[3]]
  <2>4. <<"a">> \in Seq(Chars) /\ <<"{">> \in Seq(Chars) /\ <<"}">> \in Seq(Chars)
    BY Marks, Zenon
  <2>5. <<"a", "{">> = join(<<"a">>, <<"{">>)
    BY ZenonT(60), JoinTwo, Kinds
  <2>6. SigOf[T] = join(join(join(join(<<"a">>, <<"{">>), k), v), <<"}">>)
    BY ZenonT(60), <2>1, <2>5 DEF join
  <2> HIDE DEF k, v
  <2>7. ASSUME NEW p \in Seq(Chars), NEW q \in Seq(Chars), NEW r \in Seq(Chars)
        PROVE  join(join(join(join(p, q), k), v), r) = join(p, join(q, join(join(k, v), r)))
    <3>1. k \in Seq(Chars) /\ v \in Seq(Chars)
      BY <2>3 DEF k, v
    <3>2. /\ join(p, q) \in Seq(Chars) /\ join(join(p, q), k) \in Seq(Chars)
          /\ join(k, v) \in Seq(Chars) /\ join(q, join(k, v)) \in Seq(Chars)
      BY <3>1, JoinType
    <3>3. join(join(join(p, q), k), v) = join(join(p, q), join(k, v))
      BY <3>1, <3>2, JoinAssociative
    <3>4. join(join(p, q), join(k, v)) = join(p, join(q, join(k, v)))
      BY <3>2, JoinAssociative
    <3>5. join(join(p, join(q, join(k, v))), r) = join(p, join(join(q, join(k, v)), r))
      BY <3>2, JoinAssociative
    <3>6. join(join(q, join(k, v)), r) = join(q, join(join(k, v), r))
      BY <3>2, JoinAssociative
    <3> QED
      BY <3>3, <3>4, <3>5, <3>6
  <2>8. SigOf[T] = join(<<"a">>, join(<<"{">>, join(join(k, v), <<"}">>)))
    BY <2>4, <2>6, <2>7, Zenon
  <2> QED
    BY ZenonT(60), <2>8 DEF k, v
<1>5. ASSUME T[1] = "("
      PROVE  SigOf[T] = join(<<"(">>, join(Flat(T[2]), <<")">>))
  <2>1. SigOf[T] = <<"(">> \o Flat(T[2]) \o <<")">>
    BY ZenonT(60), <1>1, <1>5, Kinds
  <2>2. Flat(T[2]) \in Seq(Chars)
    BY ZenonT(60), <1>5, TypeCases, Kinds, SigsType
  <2>3. ASSUME NEW k \in Seq(Chars), NEW o \in Chars, NEW c \in Chars
        PROVE  <<o>> \o k \o <<c>> = <<o>> \o (k \o <<c>>)
    OBVIOUS
  <2> QED
    BY ZenonT(60), <2>1, <2>2, <2>3, Kinds DEF join
<1> QED
  BY ZenonT(60), <1>2, <1>3, <1>4, <1>5

\* A holds what T is made of.
PartsIn(T, A) ==
    /\ T[1] = "a" => T[2] \in A
    /\ T[1] = "{" => T[2] \in A /\ T[3] \in A
    /\ T[1] = "(" => \A i \in 1..Len(T[2]) : T[2][i] \in A

\* The parts of a type have shorter signatures.
LEMMA PartsShorter ==
    ASSUME NEW T \in Types
    PROVE  PartsIn(T, {P \in Types : Len(SigOf[P]) < Len(SigOf[T])})
<1>1. \A P \in Types : SigOf[P] \in Seq(Chars) /\ Len(SigOf[P]) \in Nat
  BY SigType
<1>2. \A s \in Seq(Chars) : Len(s) < Len(join(<<"a">>, s)) /\ Len(join(<<"a">>, s)) = 1 + Len(s)
  <2> TAKE s \in Seq(Chars)
  <2>1. <<"a">> \in Seq(Chars) /\ Len(<<"a">>) = 1
    BY ZenonT(60), Marks
  <2>2. Len(join(<<"a">>, s)) = 1 + Len(s)
    BY <2>1, JoinChars
  <2> QED
    BY <2>2
<1>3. ASSUME T[1] = "a" PROVE T[2] \in Types /\ Len(SigOf[T[2]]) < Len(SigOf[T])
  <2>1. T[2] \in Types /\ SigOf[T] = join(<<"a">>, SigOf[T[2]])
    BY ZenonT(60), <1>3, TypeCases, SigCases, Kinds
  <2> QED
    BY <1>1, <1>2, <2>1
<1>4. ASSUME T[1] = "{"
      PROVE  /\ T[2] \in Types /\ Len(SigOf[T[2]]) < Len(SigOf[T])
             /\ T[3] \in Types /\ Len(SigOf[T[3]]) < Len(SigOf[T])
  <2> DEFINE k == SigOf[T[2]]
             v == SigOf[T[3]]
  <2>1. T[2] \in Types /\ T[3] \in Types
    BY ZenonT(60), <1>4, TypeCases, Kinds
  <2>2. SigOf[T] = join(<<"a">>, join(<<"{">>, join(join(k, v), <<"}">>)))
    BY ZenonT(60), <1>4, SigCases
  <2>3. k \in Seq(Chars) /\ v \in Seq(Chars)
    BY <2>1, SigType
  <2> HIDE DEF k, v
  <2>4. ASSUME NEW p \in Seq(Chars), Len(p) = 1, NEW q \in Seq(Chars), Len(q) = 1,
               NEW r \in Seq(Chars), Len(r) = 1
        PROVE  Len(join(p, join(q, join(join(k, v), r)))) = Len(k) + Len(v) + 3
    <3>1. join(k, v) \in Seq(Chars) /\ Len(join(k, v)) = Len(k) + Len(v)
      BY <2>3, JoinChars
    <3>2. join(join(k, v), r) \in Seq(Chars) /\ Len(join(join(k, v), r)) = Len(k) + Len(v) + 1
      BY <2>4, <3>1, JoinChars
    <3> DEFINE e == join(join(k, v), r)
    <3>3. e \in Seq(Chars) /\ Len(e) = Len(k) + Len(v) + 1 /\ Len(k) \in Nat /\ Len(v) \in Nat
      BY <2>3, <3>2
    <3> HIDE DEF e
    <3>4. join(q, e) \in Seq(Chars) /\ Len(join(q, e)) = 1 + Len(e)
      BY <2>4, <3>3, JoinChars
    <3>5. Len(join(p, join(q, e))) = 1 + (1 + Len(e))
      <4>1. Len(join(p, join(q, e))) = Len(p) + Len(join(q, e))
        BY <3>4, JoinChars, Zenon
      <4> QED
        BY <2>4, <3>3, <3>4, <4>1
    <3>6. Len(join(p, join(q, e))) = Len(k) + Len(v) + 3
      BY <3>3, <3>5
    <3> QED
      BY <3>6 DEF e
  <2>5. PICK p \in Seq(Chars), q \in Seq(Chars), r \in Seq(Chars) :
          /\ p = <<"a">> /\ q = <<"{">> /\ r = <<"}">>
          /\ Len(p) = 1 /\ Len(q) = 1 /\ Len(r) = 1
    <3>1. \A c : Len(<<c>>) = 1
      OBVIOUS
    <3> QED
      BY <3>1, Marks, Zenon
  <2>8. SigOf[T] = join(p, join(q, join(join(k, v), r)))
    BY <2>2, <2>5, Zenon
  <2>6. Len(SigOf[T]) = Len(k) + Len(v) + 3
    <3>1. Len(p) = 1 /\ Len(q) = 1 /\ Len(r) = 1
      BY <2>5, Zenon
    <3> QED
      BY <2>4, <2>8, <3>1
  <2>7. Len(k) < Len(SigOf[T]) /\ Len(v) < Len(SigOf[T])
    BY <2>3, <2>6
  <2> QED
    BY <2>1, <2>7 DEF k, v
<1>5. ASSUME T[1] = "(", NEW i \in 1..Len(T[2])
      PROVE  T[2][i] \in Types /\ Len(SigOf[T[2][i]]) < Len(SigOf[T])
  <2>1. T[2] \in Seq(Types) /\ SigOf[T] = join(<<"(">>, join(Flat(T[2]), <<")">>))
    BY ZenonT(60), <1>5, TypeCases, SigCases, Kinds
  <2>2. T[2][i] \in Types
    BY <2>1
  <2>3. SigsOf(T[2]) \in Seq(Seq(Chars)) /\ Len(SigsOf(T[2])) = Len(T[2]) /\ SigsOf(T[2])[i] = SigOf[T[2][i]]
    BY <2>1, SigsType
  <2>4. Len(SigOf[T[2][i]]) <= Len(Flat(T[2]))
    <3>1. Len(SigsOf(T[2])[i]) <= Len(FlattenSeq(SigsOf(T[2])))
      BY <2>3, FlattenLength
    <3> QED
      BY <2>3, <3>1 DEF Flat
  <2> DEFINE f == Flat(T[2])
  <2>5. f \in Seq(Chars)
    BY <2>1, SigsType
  <2> HIDE DEF f
  <2>9. ASSUME NEW p \in Seq(Chars), NEW r \in Seq(Chars), Len(p) = 1, Len(r) = 1
        PROVE  Len(join(p, join(f, r))) = Len(f) + 2
    <3>1. join(f, r) \in Seq(Chars) /\ Len(join(f, r)) = Len(f) + 1
      BY <2>5, <2>9, JoinChars
    <3>2. Len(join(p, join(f, r))) = 1 + (Len(f) + 1)
      BY <2>9, <3>1, JoinChars
    <3> QED
      BY <2>5, <3>2
  <2>6. Len(join(<<"(">>, join(f, <<")">>))) = Len(f) + 2
    <3>1. \A c : Len(<<c>>) = 1
      OBVIOUS
    <3> QED
      BY <2>9, <3>1, Marks, Zenon
  <2>7. Len(SigOf[T]) = Len(f) + 2
    BY <2>1, <2>6 DEF f
  <2>8. Len(f) \in Nat /\ Len(SigOf[T[2][i]]) \in Nat /\ Len(SigOf[T[2][i]]) <= Len(f)
    BY <1>1, <2>2, <2>4, <2>5 DEF f
  <2> QED
    BY <2>2, <2>7, <2>8
<1> QED
  BY ZenonT(60), <1>3, <1>4, <1>5 DEF PartsIn

\* What a type has when its parts have it, all types have.
LEMMA TypeInduction ==
    ASSUME NEW A, \A T \in Types : PartsIn(T, A) => T \in A
    PROVE  Types \subseteq A
<1> DEFINE rank == [T \in Types |-> Len(SigOf[T])]
<1>1. rank \in [Types -> Nat]
  BY SigType
<1>2. \A T \in Types : rank[T] = Len(SigOf[T])
  OBVIOUS
<1> HIDE DEF rank
<1>3. ASSUME NEW T \in Types, \A P \in Types : rank[P] < rank[T] => P \in A
      PROVE  T \in A
  <2>1. PartsIn(T, {P \in Types : Len(SigOf[P]) < Len(SigOf[T])})
    BY PartsShorter
  <2>2. {P \in Types : Len(SigOf[P]) < Len(SigOf[T])} \subseteq A
    BY <1>2, <1>3
  <2>3. PartsIn(T, A)
    BY ZenonT(60), <2>1, <2>2 DEF PartsIn
  <2> QED
    BY <2>3
<1> QED
  BY <1>1, <1>3, RankInduction

-----------------------------------------------------------------------------
(* Brackets *)

LEMMA CountNext ==
    ASSUME NEW str, NEW left \in Nat, NEW k \in Nat, left <= k, NEW open, NEW close
    PROVE  Count(str, left, k + 1, open, close) =
             Count(str, left, k, open, close) + (IF str[k + 1] = open THEN 1 ELSE 0)
                                              - (IF str[k + 1] = close THEN 1 ELSE 0)
<1> DEFINE o == Cardinality(Marked(str, left, k, open))
           c == Cardinality(Marked(str, left, k, close))
           o1 == Cardinality(Marked(str, left, k + 1, open))
           c1 == Cardinality(Marked(str, left, k + 1, close))
<1>1. o \in Nat /\ c \in Nat /\ o1 \in Nat /\ c1 \in Nat
  BY MarkedFinite
<1>2. o1 = o + (IF str[k + 1] = open THEN 1 ELSE 0)
  BY MarkedStep, ZenonT(60) DEF o, o1
<1>3. c1 = c + (IF str[k + 1] = close THEN 1 ELSE 0)
  BY MarkedStep, ZenonT(60) DEF c, c1
<1>4. /\ Count(str, left, k, open, close) = 1 + o - c
      /\ Count(str, left, k + 1, open, close) = 1 + o1 - c1
  BY CountMarked
<1> HIDE DEF o, c, o1, c1
<1> QED
  BY <1>1, <1>2, <1>3, <1>4

LEMMA CountLast ==
    ASSUME NEW str, NEW left \in Nat, NEW k \in Nat, left < k, NEW open, NEW close
    PROVE  Count(str, left, k, open, close) =
             Count(str, left, k - 1, open, close) + (IF str[k] = open THEN 1 ELSE 0)
                                                  - (IF str[k] = close THEN 1 ELSE 0)
<1>1. k - 1 \in Nat /\ left <= k - 1 /\ (k - 1) + 1 = k
  OBVIOUS
<1>2. ASSUME NEW j \in Nat, left <= j, j + 1 = k
      PROVE  Count(str, left, k, open, close) =
               Count(str, left, j, open, close) + (IF str[k] = open THEN 1 ELSE 0)
                                                - (IF str[k] = close THEN 1 ELSE 0)
  BY <1>2, CountNext
<1> QED
  BY <1>1, <1>2, Zenon

\* u has s behind the l-th place, as far as n.
Copies(u, l, n, s) == \A j \in 1..n : u[l + j] = s[j]

\* What is counted depends on the characters that are looked at, wherever they are.
LEMMA CountShift ==
    ASSUME NEW u, NEW s, NEW l \in Nat, NEW n \in Nat, Copies(u, l, n, s),
           NEW k \in 0..n, NEW open, NEW close
    PROVE  Count(u, l, l + k, open, close) = Count(s, 0, k, open, close)
<1> DEFINE there(j) == Count(u, l, l + j, open, close)
           here(j) == Count(s, 0, j, open, close)
           T == {j \in 0..n : there(j) = here(j)}
<1>1. 0 \in T
  <2>1. there(0) = 1 /\ here(0) = 1
    <3>1. l + 0 = l /\ 0 \in Nat
      OBVIOUS
    <3> QED
      BY <3>1, CountFirst
  <2> QED
    BY <2>1
<1>2. ASSUME NEW j \in 1..n, j - 1 \in T PROVE j \in T
  <2>1. l + j \in Nat /\ j \in Nat /\ l < l + j /\ 0 < j /\ 0 \in Nat
    OBVIOUS
  <2>2. (l + j) - 1 = l + (j - 1)
    OBVIOUS
  <2>3. there(j) = there(j - 1) + (IF u[l + j] = open THEN 1 ELSE 0) - (IF u[l + j] = close THEN 1 ELSE 0)
    <3>1. Count(u, l, l + j, open, close) = Count(u, l, (l + j) - 1, open, close)
             + (IF u[l + j] = open THEN 1 ELSE 0) - (IF u[l + j] = close THEN 1 ELSE 0)
      BY <2>1, CountLast
    <3> QED
      BY <2>2, <3>1, Zenon
  <2>4. here(j) = here(j - 1) + (IF s[j] = open THEN 1 ELSE 0) - (IF s[j] = close THEN 1 ELSE 0)
    BY <2>1, CountLast
  <2>5. u[l + j] = s[j]
    BY DEF Copies
  <2>6. there(j - 1) = here(j - 1)
    BY <1>2
  <2>7. there(j) = here(j)
    BY <2>3, <2>4, <2>5, <2>6, Zenon
  <2> QED
    BY <2>7
<1> HIDE DEF T
<1>3. 0..n \subseteq T
  BY <1>1, <1>2, InductionUpTo
<1> QED
  BY <1>3 DEF T

\* Counting on from a place in between.
LEMMA CountSum ==
    ASSUME NEW u, NEW l \in Nat, NEW k \in Nat, NEW open, NEW close
    PROVE  Count(u, 0, l + k, open, close) =
             Count(u, 0, l, open, close) + Count(u, l, l + k, open, close) - 1
<1> DEFINE all(j) == Count(u, 0, l + j, open, close)
           on(j) == Count(u, l, l + j, open, close)
           T == {j \in 0..k : all(j) = all(0) + on(j) - 1}
<1>0. \A j \in Nat : all(j) \in Int /\ on(j) \in Int
  <2> TAKE j \in Nat
  <2>1. l + j \in Nat /\ 0 \in Nat
    OBVIOUS
  <2> QED
    BY <2>1, CountType
<1>1. 0 \in T
  <2>1. on(0) = 1
    <3>1. l + 0 = l
      OBVIOUS
    <3> QED
      BY <3>1, CountFirst
  <2>2. all(0) \in Int
    BY <1>0
  <2> HIDE DEF all, on
  <2> QED
    BY <2>1, <2>2
<1>2. ASSUME NEW j \in 1..k, j - 1 \in T PROVE j \in T
  <2>1. l + j \in Nat /\ l < l + j /\ 0 < l + j /\ 0 \in Nat
    OBVIOUS
  <2>8. (l + j) - 1 = l + (j - 1)
    OBVIOUS
  <2> DEFINE d == (IF u[l + j] = open THEN 1 ELSE 0)
             e == (IF u[l + j] = close THEN 1 ELSE 0)
  <2>2. all(j) = all(j - 1) + d - e
    <3>1. Count(u, 0, l + j, open, close) = Count(u, 0, (l + j) - 1, open, close)
             + (IF u[l + j] = open THEN 1 ELSE 0) - (IF u[l + j] = close THEN 1 ELSE 0)
      BY <2>1, CountLast
    <3> QED
      BY <2>8, <3>1, Zenon
  <2>3. on(j) = on(j - 1) + d - e
    <3>1. Count(u, l, l + j, open, close) = Count(u, l, (l + j) - 1, open, close)
             + (IF u[l + j] = open THEN 1 ELSE 0) - (IF u[l + j] = close THEN 1 ELSE 0)
      BY <2>1, CountLast
    <3> QED
      BY <2>8, <3>1, Zenon
  <2>4. all(j - 1) = all(0) + on(j - 1) - 1
    BY <1>2
  <2>5. d \in Int /\ e \in Int
    OBVIOUS
  <2>6. all(j - 1) \in Int /\ on(j - 1) \in Int /\ all(0) \in Int
    <3>1. j - 1 \in Nat /\ 0 \in Nat
      OBVIOUS
    <3> QED
      BY <1>0, <3>1
  <2> HIDE DEF all, on, d, e
  <2>7. all(j) = all(0) + on(j) - 1
    BY <2>2, <2>3, <2>4, <2>5, <2>6
  <2> QED
    BY <2>7
<1> HIDE DEF T
<1>3. 0..k \subseteq T
  BY <1>1, <1>2, InductionUpTo
<1>4. k \in T
  BY <1>3
<1>5. all(k) = all(0) + on(k) - 1
  BY <1>4 DEF T
<1>6. l + 0 = l
  OBVIOUS
<1> QED
  BY <1>5, <1>6

\* Whatever is opened among the first n characters is closed among them.
Even(s, n, open, close) ==
    /\ \A k \in 0..n : Count(s, 0, k, open, close) >= 1
    /\ Count(s, 0, n, open, close) = 1

Balanced(s, open, close) == Even(s, Len(s), open, close)

LEMMA BalancedNothing ==
    ASSUME NEW open, NEW close
    PROVE  Balanced(<<>>, open, close)
<1>1. Count(<<>>, 0, 0, open, close) = 1
  BY CountFirst
<1>2. Len(<<>>) = 0 /\ \A k \in 0..0 : k = 0
  OBVIOUS
<1> QED
  BY <1>1, <1>2 DEF Balanced, Even

LEMMA BalancedLetter ==
    ASSUME NEW open, NEW close, NEW c, c # open, c # close
    PROVE  Balanced(<<c>>, open, close)
<1>1. Count(<<c>>, 0, 0, open, close) = 1
  BY CountFirst
<1>2. Count(<<c>>, 0, 1, open, close) = 1
  <2>1. Count(<<c>>, 0, 0 + 1, open, close) = Count(<<c>>, 0, 0, open, close)
              + (IF <<c>>[0 + 1] = open THEN 1 ELSE 0) - (IF <<c>>[0 + 1] = close THEN 1 ELSE 0)
    BY CountNext
  <2>2. 0 + 1 = 1 /\ <<c>>[1] = c
    OBVIOUS
  <2> QED
    BY <1>1, <2>1, <2>2
<1>3. Len(<<c>>) = 1 /\ \A k \in 0..1 : k = 0 \/ k = 1
  OBVIOUS
<1> QED
  BY <1>1, <1>2, <1>3 DEF Balanced, Even

LEMMA EvenJoin ==
    ASSUME NEW open, NEW close, NEW u, NEW s, NEW t, NEW n \in Nat, NEW m \in Nat,
           Copies(u, 0, n, s), Copies(u, n, m, t),
           Even(s, n, open, close), Even(t, m, open, close)
    PROVE  Even(u, n + m, open, close)
<1>1. /\ \A k \in 0..n : Count(s, 0, k, open, close) >= 1
      /\ \A k \in 0..m : Count(t, 0, k, open, close) >= 1
      /\ Count(s, 0, n, open, close) = 1 /\ Count(t, 0, m, open, close) = 1
  BY DEF Even
<1>2. ASSUME NEW k \in 0..n
      PROVE  Count(u, 0, k, open, close) = Count(s, 0, k, open, close)
  <2>1. ASSUME NEW l \in Nat, l = 0
        PROVE  Count(u, l, l + k, open, close) = Count(s, 0, k, open, close)
    <3>1. Copies(u, l, n, s)
      BY <2>1
    <3> QED
      BY <3>1, CountShift
  <2>2. ASSUME NEW l \in Nat, l = 0 PROVE l + k = k
    BY <2>2
  <2> QED
    BY <2>1, <2>2
<1>3. ASSUME NEW k \in 0..m
      PROVE  Count(u, 0, n + k, open, close) = Count(t, 0, k, open, close)
  <2>1. Count(u, n, n + k, open, close) = Count(t, 0, k, open, close)
    BY CountShift
  <2>2. n \in 0..n /\ k \in Nat /\ 0 \in Nat
    OBVIOUS
  <2>3. Count(u, 0, n, open, close) = 1
    BY <1>1, <1>2, <2>2
  <2>4. Count(u, 0, n + k, open, close) = Count(u, 0, n, open, close) + Count(u, n, n + k, open, close) - 1
    BY <2>2, CountSum
  <2>5. Count(t, 0, k, open, close) \in Int
    BY <2>2, CountType
  <2> QED
    BY <2>1, <2>3, <2>4, <2>5
<1>4. ASSUME NEW k \in 0..n + m
      PROVE  Count(u, 0, k, open, close) >= 1
  <2>1. CASE k <= n
    <3>1. k \in 0..n
      BY <2>1
    <3> QED
      BY <1>1, <1>2, <3>1
  <2>2. CASE k > n
    <3>1. k - n \in 0..m /\ n + (k - n) = k
      BY <2>2
    <3>2. Count(u, 0, n + (k - n), open, close) = Count(t, 0, k - n, open, close)
      BY <1>3, <3>1
    <3> QED
      BY <1>1, <3>1, <3>2
  <2> QED
    BY <2>1, <2>2
<1>5. Count(u, 0, n + m, open, close) = 1
  <2>1. m \in 0..m
    OBVIOUS
  <2> QED
    BY <1>1, <1>3, <2>1
<1> QED
  BY <1>4, <1>5 DEF Even

LEMMA BalancedJoin ==
    ASSUME NEW open, NEW close, NEW s \in Seq(Chars), NEW t \in Seq(Chars),
           Balanced(s, open, close), Balanced(t, open, close)
    PROVE  Balanced(join(s, t), open, close)
<1> DEFINE u == join(s, t)
<1>1. Joined(u, s, t) /\ Len(s) \in Nat /\ Len(t) \in Nat
  BY JoinJoined
<1> HIDE DEF u
<1>2. Copies(u, 0, Len(s), s) /\ Copies(u, Len(s), Len(t), t)
  BY <1>1 DEF Joined, Copies
<1>3. Even(u, Len(s) + Len(t), open, close)
  BY <1>1, <1>2, EvenJoin DEF Balanced
<1>4. Balanced(u, open, close)
  BY <1>1, <1>3 DEF Balanced, Joined
<1> QED
  BY <1>4 DEF u

\* One bracket around what is balanced.
Around(u, n, s, open, close) == u[1] = open /\ u[n + 2] = close /\ Copies(u, 1, n, s)

LEMMA EvenAround ==
    ASSUME NEW open, NEW close, open # close, NEW u, NEW s, NEW n \in Nat,
           Around(u, n, s, open, close), Even(s, n, open, close)
    PROVE  /\ Even(u, n + 2, open, close)
           /\ \A k \in 1..n + 1 : Count(u, 1, k, open, close) > 0
           /\ Count(u, 1, n + 2, open, close) = 0
<1>1. /\ \A k \in 0..n : Count(s, 0, k, open, close) >= 1
      /\ Count(s, 0, n, open, close) = 1
  BY DEF Even
<1>2. Count(u, 0, 0, open, close) = 1
  BY CountFirst
<1>3. Count(u, 0, 1, open, close) = 2
  <2>1. ASSUME NEW z \in Nat, NEW e \in Nat, z = 0, e = 1
        PROVE  Count(u, z, e, open, close) = 2
    <3>1. Count(u, z, e, open, close) = Count(u, z, e - 1, open, close)
             + (IF u[e] = open THEN 1 ELSE 0) - (IF u[e] = close THEN 1 ELSE 0)
      BY <2>1, CountLast
    <3>2. Count(u, z, e - 1, open, close) = 1
      BY <1>2, <2>1
    <3>3. u[e] = open
      BY <2>1 DEF Around
    <3> QED
      BY <3>1, <3>2, <3>3
  <2> QED
    BY <2>1
<1>4. ASSUME NEW k \in 0..n
      PROVE  Count(u, 1, 1 + k, open, close) = Count(s, 0, k, open, close)
  <2>1. ASSUME NEW e \in Nat, e = 1
        PROVE  Count(u, e, e + k, open, close) = Count(s, 0, k, open, close)
    <3>1. Copies(u, e, n, s)
      BY <2>1 DEF Around
    <3> QED
      BY <3>1, CountShift
  <2> QED
    BY <2>1
<1>5. ASSUME NEW k \in 1..n + 1
      PROVE  Count(u, 1, k, open, close) >= 1
  <2>1. k - 1 \in 0..n /\ 1 + (k - 1) = k
    OBVIOUS
  <2>2. Count(u, 1, 1 + (k - 1), open, close) = Count(s, 0, k - 1, open, close)
    BY <1>4, <2>1
  <2> QED
    BY <1>1, <2>1, <2>2
<1>6. Count(u, 1, n + 2, open, close) = 0
  <2>1. ASSUME NEW e \in Nat, NEW l \in Nat, e = 1, l = n + 2
        PROVE  Count(u, e, l, open, close) = 0
    <3>1. Count(u, e, l, open, close) = Count(u, e, l - 1, open, close)
             + (IF u[l] = open THEN 1 ELSE 0) - (IF u[l] = close THEN 1 ELSE 0)
      BY <2>1, CountLast
    <3>2. Count(u, e, l - 1, open, close) = 1
      <4>1. l - 1 = 1 + n /\ n \in 0..n
        BY <2>1
      <4>2. Count(u, 1, 1 + n, open, close) = 1
        BY <1>1, <1>4, <4>1
      <4> QED
        BY <2>1, <4>1, <4>2
    <3>3. u[l] = close
      BY <2>1 DEF Around
    <3> QED
      BY <3>1, <3>2, <3>3
  <2> QED
    BY <2>1
<1>7. ASSUME NEW k \in 1..n + 2
      PROVE  Count(u, 0, k, open, close) = Count(u, 1, k, open, close) + 1
  <2>1. ASSUME NEW e \in Nat, NEW z \in Nat, e = 1, z = k - 1
        PROVE  Count(u, 0, e + z, open, close) = Count(u, 0, e, open, close) + Count(u, e, e + z, open, close) - 1
    BY CountSum
  <2>2. k - 1 \in Nat /\ 1 + (k - 1) = k /\ k \in Nat /\ 1 \in Nat
    OBVIOUS
  <2>3. Count(u, 0, 1 + (k - 1), open, close) = Count(u, 0, 1, open, close) + Count(u, 1, 1 + (k - 1), open, close) - 1
    BY <2>1, <2>2
  <2>4. Count(u, 1, k, open, close) \in Int
    BY <2>2, CountType
  <2> QED
    BY <1>3, <2>2, <2>3, <2>4
<1>8. Even(u, n + 2, open, close)
  <2>1. ASSUME NEW k \in 0..n + 2 PROVE Count(u, 0, k, open, close) >= 1
    <3>1. CASE k = 0
      BY <1>2, <3>1
    <3>2. CASE k \in 1..n + 1
      <4>1. k \in Nat /\ 0 \in Nat /\ 1 \in Nat
        BY <3>2
      <4>2. Count(u, 1, k, open, close) \in Int
        BY <4>1, CountType
      <4> QED
        BY <1>5, <1>7, <3>2, <4>2
    <3>3. CASE k = n + 2
      <4>1. n + 2 \in 1..n + 2
        OBVIOUS
      <4> QED
        BY <1>6, <1>7, <3>3, <4>1
    <3> QED
      BY <3>1, <3>2, <3>3
  <2>2. n + 2 \in 1..n + 2
    OBVIOUS
  <2>3. Count(u, 0, n + 2, open, close) = 1
    BY <1>6, <1>7, <2>2
  <2> QED
    BY <2>1, <2>3 DEF Even
<1>9. \A k \in 1..n + 1 : Count(u, 1, k, open, close) > 0
  <2> TAKE k \in 1..n + 1
  <2>1. k \in Nat /\ 1 \in Nat
    OBVIOUS
  <2>2. Count(u, 1, k, open, close) \in Int
    BY <2>1, CountType
  <2> QED
    BY <1>5, <2>2
<1> QED
  BY <1>6, <1>8, <1>9

LEMMA AroundEncloses ==
    ASSUME NEW open \in Chars, NEW close \in Chars, open # close,
           NEW s \in Seq(Chars), Balanced(s, open, close),
           NEW u, u = join(<<open>>, join(s, <<close>>))
    PROVE  /\ u \in Seq(Chars) /\ u[1] = open
           /\ Balanced(u, open, close)
           /\ Encloses(u, 1, Len(u), open, close)
<1> DEFINE p == <<open>>
           r == <<close>>
           t == join(s, r)
           n == Len(s)
<1>1. p \in Seq(Chars) /\ Len(p) = 1 /\ p[1] = open /\ r \in Seq(Chars) /\ Len(r) = 1 /\ r[1] = close
  OBVIOUS
<1>2. n \in Nat
  OBVIOUS
<1> HIDE DEF p, r
<1>3. t \in Seq(Chars) /\ Joined(t, s, r)
  BY <1>1, JoinChars, JoinJoined
<1>4. u = join(p, t)
  BY DEF p, r
<1> HIDE DEF t
<1>5. u \in Seq(Chars) /\ Joined(u, p, t)
  BY <1>1, <1>3, <1>4, JoinChars, JoinJoined
<1>6. Len(u) = n + 2 /\ u[1] = open
  <2>1. Len(t) = n + 1
    BY <1>1, <1>3 DEF Joined
  <2>2. Len(u) = 1 + Len(t)
    BY <1>1, <1>5 DEF Joined
  <2>3. 1 \in 1..Len(p)
    BY <1>1
  <2>4. u[1] = p[1]
    BY <1>5, <2>3 DEF Joined
  <2> QED
    BY <1>1, <1>2, <2>1, <2>2, <2>4
<1>7. u[n + 2] = close
  <2>1. Len(t) = n + 1 /\ t[n + 1] = close
    <3>1. 1 \in 1..Len(r)
      BY <1>1
    <3> QED
      BY <1>1, <1>3, <3>1 DEF Joined
  <2>2. n + 1 \in 1..Len(t)
    BY <1>2, <2>1
  <2>3. u[Len(p) + (n + 1)] = t[n + 1]
    BY <1>5, <2>2 DEF Joined
  <2>4. Len(p) + (n + 1) = n + 2
    BY <1>1, <1>2
  <2> QED
    BY <2>1, <2>3, <2>4
<1>8. Copies(u, 1, n, s)
  <2> SUFFICES ASSUME NEW j \in 1..n PROVE u[1 + j] = s[j]
    BY DEF Copies
  <2>1. t[j] = s[j]
    BY <1>3 DEF Joined
  <2>2. j \in 1..Len(t)
    BY <1>1, <1>2, <1>3 DEF Joined
  <2>3. u[Len(p) + j] = t[j]
    BY <1>5, <2>2 DEF Joined
  <2> QED
    BY <1>1, <2>1, <2>3
<1>9. Around(u, n, s, open, close) /\ Even(s, n, open, close)
  BY <1>6, <1>7, <1>8 DEF Around, Balanced
<1> HIDE DEF n
<1>10. /\ Even(u, n + 2, open, close)
       /\ \A k \in 1..n + 1 : Count(u, 1, k, open, close) > 0
       /\ Count(u, 1, n + 2, open, close) = 0
  BY <1>2, <1>9, EvenAround
<1>11. Encloses(u, 1, Len(u), open, close)
  <2>1. n + 2 \in 1 + 1..n + 2 /\ (n + 2) - 1 = n + 1
    BY <1>2
  <2> QED
    BY <1>6, <1>7, <1>10, <2>1 DEF Encloses
<1> QED
  BY <1>5, <1>6, <1>10, <1>11 DEF Balanced

\* Brackets of another kind around it.
LEMMA AroundOther ==
    ASSUME NEW p \in Chars, NEW q \in Chars, NEW open, NEW close,
           p \notin {open, close}, q \notin {open, close},
           NEW s \in Seq(Chars), Balanced(s, open, close)
    PROVE  Balanced(join(<<p>>, join(s, <<q>>)), open, close)
<1>1. <<p>> \in Seq(Chars) /\ <<q>> \in Seq(Chars)
  OBVIOUS
<1>2. Balanced(<<p>>, open, close) /\ Balanced(<<q>>, open, close)
  BY BalancedLetter
<1>3. join(s, <<q>>) \in Seq(Chars)
  BY <1>1, JoinChars
<1>4. Balanced(join(s, <<q>>), open, close)
  BY <1>1, <1>2, BalancedJoin
<1> QED
  BY <1>1, <1>2, <1>3, <1>4, BalancedJoin

\* The same m characters are in u and in w, behind different places.
Alike(u, l, w, i, m) == \A k \in 1..m : u[l + k] = w[i + k]

CountsAlike(u, l, w, i, k, open, close) ==
    Count(u, l, l + k, open, close) = Count(w, i, i + k, open, close)

LEMMA CountAlike ==
    ASSUME NEW u, NEW w, NEW l \in Nat, NEW i \in Nat, NEW m \in Nat, Alike(u, l, w, i, m),
           NEW k \in 0..m, NEW open, NEW close
    PROVE  CountsAlike(u, l, w, i, k, open, close)
<1> DEFINE s == [j \in 1..m |-> w[i + j]]
<1>1. Copies(u, l, m, s) /\ Copies(w, i, m, s)
  BY DEF Alike, Copies
<1> HIDE DEF s
<1>2. Count(u, l, l + k, open, close) = Count(s, 0, k, open, close)
  BY <1>1, CountShift
<1>3. Count(w, i, i + k, open, close) = Count(s, 0, k, open, close)
  BY <1>1, CountShift
<1> QED
  BY <1>2, <1>3 DEF CountsAlike

LEMMA EnclosedBehind ==
    ASSUME NEW open, NEW close, NEW w \in Seq(Chars), Encloses(w, 1, Len(w), open, close),
           NEW p \in Chars, NEW u, u = join(<<p>>, w)
    PROVE  Encloses(u, 2, Len(u), open, close)
<1> DEFINE n == Len(w)
<1>1. n \in Nat /\ n \in 2..n /\ w[n] = close /\ Count(w, 1, n, open, close) = 0
      /\ \A j \in 1..n - 1 : Count(w, 1, j, open, close) > 0
  BY DEF Encloses
<1>2. Joined(u, <<p>>, w) /\ Len(<<p>>) = 1
  <2>1. <<p>> \in Seq(Chars) /\ Len(<<p>>) = 1
    OBVIOUS
  <2> QED
    BY <2>1, JoinJoined
<1>3. Len(u) = 1 + n /\ \A j \in 1..n : u[1 + j] = w[j]
  BY <1>2 DEF Joined
<1> HIDE DEF n
<1>4. ASSUME NEW j \in 1..n
      PROVE  Count(u, 2, 1 + j, open, close) = Count(w, 1, j, open, close)
  <2>1. /\ j - 1 \in 0..n - 1 /\ n - 1 \in Nat
        /\ 2 + (j - 1) = 1 + j /\ 1 + (j - 1) = j
    BY <1>1
  <2>2. Alike(u, 2, w, 1, n - 1)
    <3> SUFFICES ASSUME NEW k \in 1..n - 1 PROVE u[2 + k] = w[1 + k]
      BY DEF Alike
    <3>1. 1 + k \in 1..n /\ 1 + (1 + k) = 2 + k
      BY <1>1
    <3> QED
      BY <1>3, <3>1
  <2>3. ASSUME NEW a \in Nat, NEW b \in Nat, a = 2, b = 1
        PROVE  CountsAlike(u, a, w, b, j - 1, open, close)
    <3>1. Alike(u, a, w, b, n - 1)
      BY <2>2, <2>3
    <3> QED
      BY <2>1, <3>1, CountAlike
  <2>4. Count(u, 2, 2 + (j - 1), open, close) = Count(w, 1, 1 + (j - 1), open, close)
    BY <2>3 DEF CountsAlike
  <2> QED
    BY <2>1, <2>4
<1>5. ASSUME NEW j \in 2..Len(u) - 1 PROVE Count(u, 2, j, open, close) > 0
  <2>1. j - 1 \in 1..n - 1 /\ j - 1 \in 1..n /\ 1 + (j - 1) = j
    BY <1>1, <1>3
  <2>2. Count(u, 2, 1 + (j - 1), open, close) = Count(w, 1, j - 1, open, close)
    BY <1>4, <2>1
  <2> QED
    BY <1>1, <2>1, <2>2
<1>6. Count(u, 2, Len(u), open, close) = 0 /\ u[Len(u)] = close
  <2>1. n \in 1..n
    BY <1>1
  <2> QED
    BY <1>1, <1>3, <1>4, <2>1
<1>7. Len(u) \in 2 + 1..Len(u)
  BY <1>1, <1>3
<1> QED
  BY <1>5, <1>6, <1>7 DEF Encloses

BothBalanced(s) == Balanced(s, "(", ")") /\ Balanced(s, "{", "}")

LEMMA Different ==
    /\ \A c \in Simple \cup {"a"} : c \notin {"(", ")", "{", "}"}
    /\ "(" \notin {"{", "}"} /\ ")" \notin {"{", "}"} /\ "{" \notin {"(", ")"} /\ "}" \notin {"(", ")"}
    /\ "(" # ")" /\ "{" # "}"
    /\ "(" \in Chars /\ ")" \in Chars /\ "{" \in Chars /\ "}" \in Chars /\ "a" \in Chars
    /\ Simple \subseteq Chars
  BY DEF Simple, Basic, Refused, Ints, Signed, Unsigned, Chars

LEMMA BothJoin ==
    ASSUME NEW s \in Seq(Chars), NEW t \in Seq(Chars), BothBalanced(s), BothBalanced(t)
    PROVE  BothBalanced(join(s, t))
  BY ZenonT(60), BalancedJoin DEF BothBalanced

\* Brackets of either kind around it.
LEMMA BothAround ==
    ASSUME NEW s \in Seq(Chars), BothBalanced(s)
    PROVE  /\ BothBalanced(join(<<"(">>, join(s, <<")">>)))
           /\ BothBalanced(join(<<"{">>, join(s, <<"}">>)))
<1>1. ASSUME NEW o \in Chars, NEW c \in Chars, NEW p \in Chars, NEW q \in Chars,
             o # c, o \notin {p, q}, c \notin {p, q}, Balanced(s, o, c), Balanced(s, p, q)
      PROVE  /\ Balanced(join(<<o>>, join(s, <<c>>)), o, c)
             /\ Balanced(join(<<o>>, join(s, <<c>>)), p, q)
  <2>1. Balanced(join(<<o>>, join(s, <<c>>)), o, c)
    BY <1>1, AroundEncloses
  <2>2. Balanced(join(<<o>>, join(s, <<c>>)), p, q)
    BY <1>1, AroundOther
  <2> QED
    BY <2>1, <2>2
<1>2. Balanced(s, "(", ")") /\ Balanced(s, "{", "}")
  BY ZenonT(60) DEF BothBalanced
<1>3. BothBalanced(join(<<"(">>, join(s, <<")">>)))
  BY <1>1, <1>2, Different, Zenon DEF BothBalanced
<1>4. BothBalanced(join(<<"{">>, join(s, <<"}">>)))
  BY <1>1, <1>2, Different, Zenon DEF BothBalanced
<1> QED
  BY ZenonT(60), <1>3, <1>4

LEMMA BothLetter ==
    ASSUME NEW c \in Simple \cup {"a"}
    PROVE  BothBalanced(<<c>>)
<1>1. c # "(" /\ c # ")" /\ c # "{" /\ c # "}"
  BY Different, Zenon
<1> QED
  BY <1>1, BalancedLetter, Zenon DEF BothBalanced

LEMMA BothFlatten ==
    ASSUME NEW ss \in Seq({s \in Seq(Chars) : BothBalanced(s)})
    PROVE  BothBalanced(FlattenSeq(ss))
<1> DEFINE A == {s \in Seq(Chars) : BothBalanced(s)}
<1>1. A \in SUBSET Seq(Chars) /\ <<>> \in A
  <2>1. BothBalanced(<<>>)
    BY ZenonT(60), BalancedNothing DEF BothBalanced
  <2> QED
    BY <2>1
<1>2. \A s, t \in A : join(s, t) \in A
  BY BothJoin, JoinChars
<1>3. ss \in Seq(A)
  OBVIOUS
<1> HIDE DEF A
<1>4. FlattenSeq(ss) \in A
  BY <1>1, <1>2, <1>3, FlattenClosed
<1> QED
  BY <1>4 DEF A

\* Every signature closes the brackets it opens, of either kind.
LEMMA SigBalanced ==
    ASSUME NEW T \in Types
    PROVE  BothBalanced(SigOf[T])
<1> DEFINE A == {P \in Types : BothBalanced(SigOf[P])}
<1>1. ASSUME NEW P \in Types, PartsIn(P, A) PROVE P \in A
  <2>1. CASE P[1] \in Simple
    BY ZenonT(60), <2>1, SigCases, BothLetter
  <2>2. CASE P[1] = "a"
    <3>1. P[2] \in Types /\ BothBalanced(SigOf[P[2]]) /\ SigOf[P] = join(<<"a">>, SigOf[P[2]])
      BY ZenonT(60), <1>1, <2>2, SigCases DEF PartsIn
    <3>2. BothBalanced(<<"a">>) /\ <<"a">> \in Seq(Chars) /\ SigOf[P[2]] \in Seq(Chars)
      BY ZenonT(60), <3>1, BothLetter, Marks, SigType
    <3> QED
      BY <3>1, <3>2, BothJoin
  <2>3. CASE P[1] = "{"
    <3> DEFINE k == SigOf[P[2]]
               v == SigOf[P[3]]
               kv == join(k, v)
    <3>1. /\ P[2] \in Types /\ BothBalanced(k) /\ P[3] \in Types /\ BothBalanced(v)
          /\ SigOf[P] = join(<<"a">>, join(<<"{">>, join(kv, <<"}">>)))
      BY ZenonT(60), <1>1, <2>3, SigCases DEF PartsIn
    <3>2. k \in Seq(Chars) /\ v \in Seq(Chars)
      BY ZenonT(60), <3>1, SigType
    <3>3. kv \in Seq(Chars) /\ BothBalanced(kv)
      BY ZenonT(60), <3>1, <3>2, BothJoin, JoinChars
    <3> HIDE DEF kv
    <3>4. BothBalanced(join(<<"{">>, join(kv, <<"}">>)))
      BY ZenonT(60), <3>3, BothAround
    <3>5. join(kv, <<"}">>) \in Seq(Chars) /\ join(<<"{">>, join(kv, <<"}">>)) \in Seq(Chars)
      BY <3>3, Marks, JoinChars, Zenon
    <3>6. BothBalanced(<<"a">>) /\ <<"a">> \in Seq(Chars)
      BY ZenonT(60), BothLetter, Marks
    <3>7. BothBalanced(SigOf[P])
      BY <3>1, <3>4, <3>5, <3>6, BothJoin, Zenon
    <3> QED
      BY <3>7
  <2>4. CASE P[1] = "("
    <3>1. P[2] \in Seq(Types) /\ SigOf[P] = join(<<"(">>, join(Flat(P[2]), <<")">>))
      BY ZenonT(60), <2>4, TypeCases, SigCases, Kinds
    <3>2. SigsOf(P[2]) \in Seq({s \in Seq(Chars) : BothBalanced(s)})
      <4>1. /\ SigsOf(P[2]) \in Seq(Seq(Chars)) /\ Len(SigsOf(P[2])) = Len(P[2])
            /\ \A i \in 1..Len(P[2]) : SigsOf(P[2])[i] = SigOf[P[2][i]]
        BY <3>1, SigsType
      <4>2. \A i \in 1..Len(P[2]) : BothBalanced(SigOf[P[2][i]])
        BY <1>1, <2>4 DEF PartsIn
      <4>3. \A i \in 1..Len(SigsOf(P[2])) : SigsOf(P[2])[i] \in {s \in Seq(Chars) : BothBalanced(s)}
        BY <4>1, <4>2, SMTT(30)
      <4> QED
        BY <4>1, <4>3, SeqOver
    <3>3. BothBalanced(Flat(P[2])) /\ Flat(P[2]) \in Seq(Chars)
      BY <3>1, <3>2, SigsType, BothFlatten DEF Flat
    <3>4. BothBalanced(SigOf[P])
      BY <3>1, <3>3, BothAround, Zenon
    <3> QED
      BY <3>4
  <2> QED
    BY <2>1, <2>2, <2>3, <2>4, TypeCases, Zenon
<1> HIDE DEF A
<1>2. Types \subseteq A
  BY <1>1, TypeInduction
<1> QED
  BY <1>2 DEF A

-----------------------------------------------------------------------------
(* What split() makes of the signatures of types *)

\* The turns for the first part come to the second part.
LEMMA SplitBehind ==
    ASSUME NEW s \in Seq(Chars), NEW v \in Seq(Chars), NEW p, CutUp(s, p)
    PROVE  split[join(s, v)] = [ok |-> split[v].ok, result |-> join(p, split[v].result)]
<1> DEFINE X == Seq(Chars)
           rank == [u \in X |-> Len(u)]
           both(u, ps) == [ok |-> split[v].ok, result |-> join(ps, split[v].result)]
           T == {u \in X : \A ps : CutUp(u, ps) => split[join(u, v)] = both(u, ps)}
<1>0. split[v] = [ok |-> split[v].ok, result |-> split[v].result] /\ split[v].result \in Seq(Seq(Chars))
  <2>1. split[v] \in Results
    BY SplitTurns
  <2> QED
    BY <2>1 DEF Results
<1>1. rank \in [X -> Nat] /\ \A u \in X : rank[u] = Len(u)
  OBVIOUS
<1> HIDE DEF rank
<1>2. ASSUME NEW u \in X, \A y \in X : rank[y] < rank[u] => y \in T, NEW ps, CutUp(u, ps)
      PROVE  split[join(u, v)] = both(u, ps)
  <2>1. CASE ps = <<>>
    <3>1. u = <<>>
      BY <1>2, <2>1, NothingLeft
    <3>2. join(<<>>, v) = v /\ join(<<>>, split[v].result) = split[v].result
      BY <1>0 DEF join
    <3> QED
      BY <1>0, <2>1, <3>1, <3>2, Zenon
  <2>2. CASE ps # <<>>
    <3>1. PICK n \in 1..Len(u) : /\ ps[1] = SubSeq(u, 1, n)
                                 /\ Complete(SubSeq(u, 1, n))
                                 /\ CutUp(SubSeq(u, n + 1, Len(u)), Tail(ps))
      BY <1>2, <2>2, FirstPiece, Zenon
    <3> DEFINE r == SubSeq(u, n + 1, Len(u))
               x == join(u, v)
    <3>2. r \in X /\ Len(r) = Len(u) - n
      OBVIOUS
    <3>3. r \in T
      <4> HIDE DEF r, T
      <4> QED
        BY <1>1, <1>2, <3>2
    <3>4. split[join(r, v)] = both(r, Tail(ps))
      BY <3>1, <3>3
    <3>5. /\ x \in Seq(Chars) /\ n \in 1..Len(x)
          /\ SubSeq(x, 1, n) = SubSeq(u, 1, n) /\ SubSeq(x, n + 1, Len(x)) = join(r, v)
      BY PrefixKept, Zenon
    <3>6. ps \in Seq(Seq(Chars))
      BY <1>2 DEF CutUp
    <3>7. join(ps, split[v].result) = join(<<ps[1]>>, join(Tail(ps), split[v].result))
      <4>1. ps = <<ps[1]>> \o Tail(ps) /\ Tail(ps) \in Seq(Seq(Chars)) /\ <<ps[1]>> \in Seq(Seq(Chars))
        BY <2>2, <3>6
      <4>2. join(join(<<ps[1]>>, Tail(ps)), split[v].result) = join(<<ps[1]>>, join(Tail(ps), split[v].result))
        <5>1. ASSUME NEW a \in Seq(Seq(Chars)), NEW b \in Seq(Seq(Chars)), NEW c \in Seq(Seq(Chars))
              PROVE  join(join(a, b), c) = join(a, join(b, c))
          BY JoinAssociative
        <5> QED
          BY <1>0, <4>1, <5>1, Zenon
      <4>3. ps = join(<<ps[1]>>, Tail(ps))
        BY <4>1, Zenon DEF join
      <4> QED
        BY <4>2, <4>3, Zenon
    <3> HIDE DEF r, x
    <3>8. ~Throws(x) /\ PieceLength(x) = n
      BY <3>1, <3>5, TurnTakes, Zenon
    <3>9. x # <<>> /\ ~Stuck(x)
      BY <3>5, <3>8 DEF Stuck
    <3>10. Rest(x) = join(r, v)
      BY <3>5, <3>8, Zenon DEF Rest
    <3>11. split[x] = Turn(x, split)
      BY <3>5, SplitTurns, Zenon
    <3>12. split[x] = [ok |-> split[Rest(x)].ok,
                       result |-> <<SubSeq(x, 1, PieceLength(x))>> \o split[Rest(x)].result]
      BY <3>8, <3>9, <3>11, Zenon DEF Turn
    <3>13. split[Rest(x)].ok = split[v].ok /\ split[Rest(x)].result = join(Tail(ps), split[v].result)
      BY <3>4, <3>10
    <3>14. SubSeq(x, 1, PieceLength(x)) = ps[1]
      BY <3>1, <3>5, <3>8, Zenon
    <3>15. split[x] = [ok |-> split[v].ok, result |-> join(<<ps[1]>>, join(Tail(ps), split[v].result))]
      BY <3>12, <3>13, <3>14, Zenon DEF join
    <3> QED
      BY <3>7, <3>15, Zenon DEF x
  <2> QED
    BY <2>1, <2>2
<1>3. \A u \in X : (\A y \in X : rank[y] < rank[u] => y \in T) => u \in T
  BY <1>2
<1> HIDE DEF T, X
<1>4. X \subseteq T
  BY <1>1, <1>3, RankInduction
<1> QED
  BY <1>4, Zenon DEF T, X

\* A complete piece is cut into itself.
LEMMA CutAlone ==
    ASSUME NEW p \in Seq(Chars), Complete(p)
    PROVE  CutUp(p, <<p>>)
<1> DEFINE n == Len(p)
<1>1. n \in 1..n /\ SubSeq(p, 1, n) = p /\ SubSeq(p, n + 1, n) = <<>>
  <2>1. n # 0
    BY CompleteNotEmpty
  <2> QED
    BY <2>1
<1>2. CutUp(<<>>, <<>>)
  <2>1. <<>> \in Seq(Chars)
    OBVIOUS
  <2> QED
    BY <2>1, NothingLeft
<1>3. CutUp(SubSeq(p, n + 1, n), <<>>)
  BY <1>1, <1>2, Zenon
<1>4. CutUp(p, <<p>> \o <<>>)
  BY <1>1, <1>3, PieceAdded, Zenon
<1>5. <<p>> \o <<>> = <<p>>
  OBVIOUS
<1> QED
  BY <1>4, <1>5, Zenon

\* The pieces before the k-th and the k-th.
LEMMA FirstOnes ==
    ASSUME NEW S, NEW ps \in Seq(S), NEW k \in 1..Len(ps)
    PROVE  SubSeq(ps, 1, k) = join(SubSeq(ps, 1, k - 1), <<ps[k]>>)
<1> DEFINE a == SubSeq(ps, 1, k)
           f == SubSeq(ps, 1, k - 1)
           b == join(f, <<ps[k]>>)
<1>1. a \in Seq(S) /\ Len(a) = k /\ \A i \in 1..k : a[i] = ps[i]
  OBVIOUS
<1>2. f \in Seq(S) /\ Len(f) = k - 1 /\ \A i \in 1..k - 1 : f[i] = ps[i]
  OBVIOUS
<1>3. <<ps[k]>> \in Seq(S) /\ Len(<<ps[k]>>) = 1 /\ <<ps[k]>>[1] = ps[k]
  OBVIOUS
<1>4. b \in Seq(S) /\ Joined(b, f, <<ps[k]>>)
  BY <1>2, <1>3, JoinType, JoinJoined
<1> HIDE DEF a, b, f
<1>5. Len(b) = k /\ \A i \in 1..k - 1 : b[i] = ps[i]
  BY <1>2, <1>3, <1>4 DEF Joined
<1>6. b[k] = ps[k]
  <2>1. 1 \in 1..Len(<<ps[k]>>) /\ (k - 1) + 1 = k
    BY <1>3
  <2>2. b[Len(f) + 1] = <<ps[k]>>[1]
    BY <1>4, <2>1 DEF Joined
  <2> QED
    BY <1>2, <1>3, <2>1, <2>2
<1>7. \A i \in 1..Len(a) : a[i] = b[i]
  <2>1. \A i \in 1..k : i \in 1..k - 1 \/ i = k
    OBVIOUS
  <2> QED
    BY <1>1, <1>5, <1>6, <2>1
<1>8. Len(a) = Len(b)
  BY <1>1, <1>5
<1>9. a = b
  BY <1>1, <1>4, <1>7, <1>8, SeqEqual
<1> QED
  BY <1>9 DEF a, b, f

AllComplete(ps, k) == \A i \in 1..k : Complete(ps[i])

\* Complete pieces put together are cut where they meet, as far as they go.
LEMMA BuiltCut ==
    ASSUME NEW ps \in Seq(Seq(Chars)), NEW g \in [0..Len(ps) -> Seq(Chars)], Builds(ps, g),
           NEW n \in 0..Len(ps), AllComplete(ps, n)
    PROVE  CutUp(g[n], SubSeq(ps, 1, n))
<1> DEFINE T == {k \in 0..n : CutUp(g[k], SubSeq(ps, 1, k))}
<1>1. 0 \in T /\ n \in Nat
  <2>1. g[0] = <<>> /\ SubSeq(ps, 1, 0) = <<>> /\ <<>> \in Seq(Chars)
    BY DEF Builds
  <2>2. CutUp(g[0], SubSeq(ps, 1, 0))
    BY <2>1, NothingLeft
  <2> QED
    BY <2>2
<1>2. ASSUME NEW k \in 1..n, k - 1 \in T PROVE k \in T
  <2>1. k \in 1..Len(ps) /\ k - 1 \in 0..Len(ps)
    OBVIOUS
  <2>2. g[k] = join(g[k - 1], ps[k]) /\ Complete(ps[k])
    BY <2>1 DEF Builds, AllComplete
  <2>3. ps[k] \in Seq(Chars) /\ g[k - 1] \in Seq(Chars)
    <3>1. ps[k] \in Seq(Chars)
      BY <2>1
    <3>2. g[k - 1] \in Seq(Chars)
      BY <2>1
    <3> QED
      BY <3>1, <3>2
  <2>4. CutUp(ps[k], <<ps[k]>>)
    BY <2>2, <2>3, CutAlone
  <2>5. CutUp(g[k - 1], SubSeq(ps, 1, k - 1))
    BY <1>2
  <2>6. CutUp(join(g[k - 1], ps[k]), join(SubSeq(ps, 1, k - 1), <<ps[k]>>))
    BY <2>3, <2>4, <2>5, CutsJoin
  <2>7. SubSeq(ps, 1, k) = join(SubSeq(ps, 1, k - 1), <<ps[k]>>)
    BY <2>1, FirstOnes
  <2>8. CutUp(g[k], SubSeq(ps, 1, k))
    BY <2>2, <2>6, <2>7, Zenon
  <2> QED
    BY <2>8
<1> HIDE DEF T
<1>3. 0..n \subseteq T
  BY <1>1, <1>2, InductionUpTo
<1> QED
  BY <1>3 DEF T

\* Types whose signature split() takes in one turn: not object paths and signatures,
\* where it throws, nor arrays of arrays, whose second "a" it takes for the element.
Whole(T) ==
    \/ T[1] \in Basic \cup {"(", "{"}
    \/ T[1] = "a" /\ T[2][1] \notin {"a", "{"}

\* An array of what the bracket behind the "a" encloses.
ArrayOf(u, open, close) == u[1] = "a" /\ u[2] = open /\ Encloses(u, 2, Len(u), open, close)

LEMMA BehindA ==
    ASSUME NEW open \in Chars, NEW close \in Chars, open # close,
           NEW s \in Seq(Chars), Balanced(s, open, close),
           NEW u, u = join(<<"a">>, join(<<open>>, join(s, <<close>>)))
    PROVE  ArrayOf(u, open, close)
<1> DEFINE w == join(<<open>>, join(s, <<close>>))
<1>1. w \in Seq(Chars) /\ w[1] = open /\ Encloses(w, 1, Len(w), open, close)
  BY AroundEncloses
<1>2. u = join(<<"a">>, w) /\ "a" \in Chars
  BY ZenonT(60), Kinds
<1> HIDE DEF w
<1>3. Encloses(u, 2, Len(u), open, close)
  BY <1>1, <1>2, EnclosedBehind
<1>4. <<"a">> \in Seq(Chars) /\ Len(<<"a">>) = 1 /\ <<"a">>[1] = "a"
  BY ZenonT(60), Marks
<1>5. Joined(u, <<"a">>, w)
  BY <1>1, <1>2, <1>4, JoinJoined
<1>6. 1 \in 1..Len(<<"a">>) /\ 1 \in 1..Len(w)
  BY <1>1, <1>4 DEF Encloses
<1>7. u[1] = "a"
  BY <1>4, <1>5, <1>6 DEF Joined
<1>8. u[2] = w[1]
  <2>1. u[Len(<<"a">>) + 1] = w[1]
    BY <1>5, <1>6 DEF Joined
  <2>2. Len(<<"a">>) + 1 = 2
    BY <1>4
  <2> QED
    BY <2>1, <2>2
<1> QED
  BY <1>1, <1>3, <1>7, <1>8 DEF ArrayOf

LEMMA WholeComplete ==
    ASSUME NEW T \in Types, Whole(T)
    PROVE  Complete(SigOf[T])
<1> DEFINE u == SigOf[T]
<1>1. CASE T[1] \in Simple
  <2>1. u = <<T[1]>> /\ T[1] \in Basic
    BY ZenonT(60), <1>1, SigCases, Kinds DEF Whole
  <2>2. Len(<<T[1]>>) = 1 /\ <<T[1]>>[1] = T[1]
    OBVIOUS
  <2> QED
    BY ZenonT(60), <2>1, <2>2 DEF Complete
<1>2. CASE T[1] = "("
  <2> DEFINE f == Flat(T[2])
  <2>1. u = join(<<"(">>, join(f, <<")">>)) /\ T[2] \in Seq(Types)
    BY ZenonT(60), <1>2, SigCases, TypeCases, Kinds
  <2>2. f \in Seq(Chars)
    BY <2>1, SigsType
  <2>3. Balanced(f, "(", ")")
    <3>1. SigsOf(T[2]) \in Seq(Seq(Chars)) /\ Len(SigsOf(T[2])) = Len(T[2])
          /\ \A i \in 1..Len(T[2]) : SigsOf(T[2])[i] = SigOf[T[2][i]]
      BY <2>1, SigsType
    <3>2. \A i \in 1..Len(T[2]) : BothBalanced(SigOf[T[2][i]])
      BY <2>1, SigBalanced
    <3>3. \A i \in 1..Len(SigsOf(T[2])) : SigsOf(T[2])[i] \in {s \in Seq(Chars) : BothBalanced(s)}
      BY <3>1, <3>2
    <3>4. SigsOf(T[2]) \in Seq({s \in Seq(Chars) : BothBalanced(s)})
      BY <3>1, <3>3, SeqOver
    <3> QED
      BY ZenonT(60), <3>4, BothFlatten DEF Flat, BothBalanced
  <2> HIDE DEF u, f
  <2>4. u[1] = "(" /\ Encloses(u, 1, Len(u), "(", ")")
    BY <2>1, <2>2, <2>3, Different, AroundEncloses, Zenon
  <2>5. Complete(u)
    BY <2>4 DEF Complete
  <2> QED
    BY <2>5 DEF u
<1>3. CASE T[1] = "{"
  <2> DEFINE kv == join(SigOf[T[2]], SigOf[T[3]])
  <2>1. T[2] \in Types /\ T[3] \in Types /\ u = join(<<"a">>, join(<<"{">>, join(kv, <<"}">>)))
    BY ZenonT(60), <1>3, SigCases, TypeCases, Kinds
  <2>2. kv \in Seq(Chars) /\ BothBalanced(kv)
    BY ZenonT(60), <2>1, SigType, SigBalanced, BothJoin, JoinChars
  <2> HIDE DEF u, kv
  <2>3. Balanced(kv, "{", "}")
    BY ZenonT(60), <2>2 DEF BothBalanced
  <2>4. ArrayOf(u, "{", "}")
    BY <2>1, <2>2, <2>3, Different, BehindA, Zenon
  <2>5. Complete(u)
    BY <2>4, Zenon DEF Complete, ArrayOf
  <2> QED
    BY <2>5 DEF u
<1>4. CASE T[1] = "a"
  <2>1. T[2] \in Types /\ T[2][1] \notin {"a", "{"} /\ u = join(<<"a">>, SigOf[T[2]])
    BY ZenonT(60), <1>4, SigCases, TypeCases, Kinds DEF Whole
  <2>2. CASE T[2][1] \in Simple
    <3>1. SigOf[T[2]] = <<T[2][1]>> /\ T[2][1] \in Chars
      BY ZenonT(60), <2>1, <2>2, SigCases, Kinds
    <3> DEFINE c == T[2][1]
    <3> HIDE DEF u, c
    <3>2. u = <<"a", c>>
      BY <2>1, <3>1, JoinTwo, Kinds, ZenonT(40) DEF c
    <3>3. \A a, b : Len(<<a, b>>) = 2 /\ <<a, b>>[1] = a /\ <<a, b>>[2] = b
      OBVIOUS
    <3>4. Len(u) = 2 /\ u[1] = "a" /\ u[2] = T[2][1]
      BY <3>2, <3>3, Zenon DEF c
    <3>5. T[2][1] \notin {"(", "{"}
      BY ZenonT(60), <2>2, Different
    <3> QED
      BY <3>4, <3>5, Zenon DEF Complete, u
  <2>3. CASE T[2][1] = "("
    <3> DEFINE f == Flat(T[2][2])
    <3>1. SigOf[T[2]] = join(<<"(">>, join(f, <<")">>)) /\ T[2][2] \in Seq(Types)
      BY ZenonT(60), <2>1, <2>3, SigCases, TypeCases, Kinds
    <3>2. f \in Seq(Chars)
      BY <3>1, SigsType
    <3>3. Balanced(f, "(", ")")
      <4>1. SigsOf(T[2][2]) \in Seq(Seq(Chars)) /\ Len(SigsOf(T[2][2])) = Len(T[2][2])
            /\ \A i \in 1..Len(T[2][2]) : SigsOf(T[2][2])[i] = SigOf[T[2][2][i]]
        BY <3>1, SigsType
      <4>2. \A i \in 1..Len(T[2][2]) : BothBalanced(SigOf[T[2][2][i]])
        BY <3>1, SigBalanced
      <4>3. \A i \in 1..Len(SigsOf(T[2][2])) : SigsOf(T[2][2])[i] \in {s \in Seq(Chars) : BothBalanced(s)}
        BY <4>1, <4>2
      <4>4. SigsOf(T[2][2]) \in Seq({s \in Seq(Chars) : BothBalanced(s)})
        BY <4>1, <4>3, SeqOver
      <4> QED
        BY ZenonT(60), <4>4, BothFlatten DEF Flat, BothBalanced
    <3> HIDE DEF u, f
    <3>4. ArrayOf(u, "(", ")")
      BY <2>1, <3>1, <3>2, <3>3, Different, BehindA, Zenon
    <3>5. Complete(u)
      BY <3>4, Zenon DEF Complete, ArrayOf
    <3> QED
      BY <3>5 DEF u
  <2> QED
    BY ZenonT(60), <2>1, <2>2, <2>3, TypeCases
<1> QED
  BY ZenonT(60), <1>1, <1>2, <1>3, <1>4, TypeCases

-----------------------------------------------------------------------------
(* The pieces of several signatures *)

AllWhole(Ts, k) == \A i \in 1..k : Whole(Ts[i])

LEMMA WholeCut ==
    ASSUME NEW Ts \in Seq(Types), AllWhole(Ts, Len(Ts))
    PROVE  CutUp(Flat(Ts), SigsOf(Ts))
<1> DEFINE ps == SigsOf(Ts)
           n == Len(ps)
<1>1. /\ ps \in Seq(Seq(Chars)) /\ Len(ps) = Len(Ts)
      /\ \A i \in 1..Len(Ts) : ps[i] = SigOf[Ts[i]]
  BY SigsType
<1>2. AllComplete(ps, n)
  <2>1. ASSUME NEW i \in 1..Len(Ts) PROVE Complete(SigOf[Ts[i]])
    <3>1. Ts[i] \in Types /\ Whole(Ts[i])
      BY DEF AllWhole
    <3> QED
      BY <3>1, WholeComplete
  <2> HIDE DEF ps
  <2> QED
    BY <1>1, <2>1 DEF AllComplete
<1> HIDE DEF ps
<1>3. PICK g \in [0..n -> Seq(Chars)] : Builds(ps, g)
  BY <1>1, BuildsExist
<1>4. n \in 0..n /\ SubSeq(ps, 1, n) = ps
  BY <1>1
<1>5. CutUp(g[n], SubSeq(ps, 1, n))
  BY <1>1, <1>2, <1>3, <1>4, BuiltCut
<1>6. FlattenSeq(ps) = g[n]
  BY <1>1, <1>3, FlattenBuilt
<1>7. CutUp(FlattenSeq(ps), ps)
  BY <1>4, <1>5, <1>6, Zenon
<1> QED
  BY <1>7 DEF ps, Flat

LEMMA PiecesWhole ==
    ASSUME NEW Ts \in Seq(Types), AllWhole(Ts, Len(Ts))
    PROVE  split[Flat(Ts)] = [ok |-> TRUE, result |-> SigsOf(Ts)]
<1>1. CutUp(Flat(Ts), SigsOf(Ts)) /\ Flat(Ts) \in Seq(Chars)
  BY WholeCut, SigsType
<1> QED
  BY <1>1, SplitFindsPieces

\* Convertible is what its definition says of it.
ConvertibleOver(T, f) ==
    \/ T[1] \in Simple \ (Refused \cup {"h"})
    \/ T[1] = "(" /\ \A i \in DOMAIN T[2] : f[T[2][i]]
    \/ T[1] = "{" /\ T[2][1] \notin {"b", "d"} /\ f[T[2]] /\ f[T[3]]
    \/ T[1] = "a" /\ T[2][1] \notin {"a", "{", "v"} /\ f[T[2]]

LEMMA ConvertibleDefined ==
    \A T \in Types : Convertible[T] = ConvertibleOver(T, Convertible)
<1> DEFINE A == [Types -> BOOLEAN]
           rank == [T \in Types |-> Len(SigOf[T])]
           H == [T \in Types |-> [f \in A |-> ConvertibleOver(T, f)]]
<1>1. rank \in [Types -> Nat] /\ \A T \in Types : rank[T] = Len(SigOf[T])
  BY SigType
<1>2. ASSUME NEW T \in Types, NEW f \in A PROVE ConvertibleOver(T, f) \in BOOLEAN
  BY ZenonT(60), TypeCases, Kinds DEF ConvertibleOver
<1>3. H \in [Types -> [A -> BOOLEAN]]
  <2> HIDE DEF A
  <2> QED
    BY <1>2
<1>4. \A T \in Types : \A f \in A : H[T][f] = ConvertibleOver(T, f)
  OBVIOUS
<1> HIDE DEF rank, H
<1>5. LooksLower(Types, BOOLEAN, rank, H)
  <2>1. ASSUME NEW T \in Types, NEW f \in A, NEW g \in A,
               \A P \in Types : rank[P] < rank[T] => f[P] = g[P]
        PROVE  ConvertibleOver(T, f) = ConvertibleOver(T, g)
    <3>1. PartsIn(T, {P \in Types : Len(SigOf[P]) < Len(SigOf[T])})
      BY PartsShorter
    <3>2. PartsIn(T, {P \in Types : f[P] = g[P]})
      BY ZenonT(60), <1>1, <2>1, <3>1 DEF PartsIn
    <3>3. T[1] = "(" => DOMAIN T[2] = 1..Len(T[2])
      <4>1. T[1] = "(" => T[2] \in Seq(Types)
        BY ZenonT(60), TypeCases, Kinds
      <4>2. \A s \in Seq(Types) : DOMAIN s = 1..Len(s)
        OBVIOUS
      <4> QED
        BY <4>1, <4>2, Zenon
    <3> HIDE DEF A
    <3> QED
      BY ZenonT(60), <3>2, <3>3, TypeCases, Kinds DEF PartsIn, ConvertibleOver
  <2> QED
    BY <1>4, <2>1 DEF LooksLower
<1>6. PICK f \in A : Solves(Types, H, f)
  BY <1>1, <1>3, <1>5, RankRecursion
<1> DEFINE eq(g) == [T \in Types |->
             \/ T[1] \in Simple \ (Refused \cup {"h"})
             \/ T[1] = "(" /\ \A i \in DOMAIN T[2] : g[T[2][i]]
             \/ T[1] = "{" /\ T[2][1] \notin {"b", "d"} /\ g[T[2]] /\ g[T[3]]
             \/ T[1] = "a" /\ T[2][1] \notin {"a", "{", "v"} /\ g[T[2]]]
           all == CHOOSE g : g = eq(g)
<1>7. f = eq(f)
  <2>1. \A T \in Types : f[T] = ConvertibleOver(T, f)
    BY <1>4, <1>6 DEF Solves
  <2>2. f = [T \in Types |-> ConvertibleOver(T, f)]
    BY <1>6, <2>1
  <2> QED
    BY ZenonT(60), <2>2 DEF ConvertibleOver
<1>8. Convertible = all
  BY DEF Convertible
<1>9. all = eq(all)
  <2> HIDE DEF eq
  <2> QED
    BY <1>7
<1> HIDE DEF all
<1>10. \A T \in Types : all[T] = ConvertibleOver(T, all)
  BY ZenonT(60), <1>9 DEF ConvertibleOver
<1> QED
  BY <1>8, <1>10

\* All that can be converted is cut as it should be.
LEMMA ConvertibleWhole ==
    ASSUME NEW T \in Types, Convertible[T]
    PROVE  Whole(T)
  BY ZenonT(60), ConvertibleDefined, TypeCases, Kinds DEF ConvertibleOver, Whole, Simple

InCalls == call \in Calls

LEMMA InCallsAlways == PayloadSpec => []InCalls
<1>1. PayloadInit => InCalls
  BY DEF PayloadInit, InCalls
<1>2. InCalls /\ [PayloadNext]_vars => InCalls'
  BY DEF InCalls, PayloadNext, FillArgs, RefuseArgs, Serve, ServeError, ExtractArgs, FailOnReply, vars
<1> QED
  BY <1>1, <1>2, PTL DEF PayloadSpec

\* split() cuts the signature of several arguments into those of each, for every
\* method whose arguments the conversions can handle.
THEOREM PiecesCompleteAlways == PayloadSpec => []PiecesComplete
<1>1. InCalls => PiecesComplete
  <2> SUFFICES ASSUME InCalls, ConvertibleAll(call.in)
               PROVE  split[Flat(call.in)] = [ok |-> TRUE, result |-> SigsOf(call.in)]
    BY DEF PiecesComplete, Flat, SigsOf
  <2>1. call.in \in Seq(Types)
    BY InputsAssumption DEF InCalls, CallsAssumption
  <2>2. AllWhole(call.in, Len(call.in))
    BY <2>1, ConvertibleWhole DEF ConvertibleAll, AllWhole
  <2> QED
    BY <2>1, <2>2, PiecesWhole
<1> QED
  BY <1>1, InCallsAlways, PTL

-----------------------------------------------------------------------------
(* The levels of JSON, of values and of the conversions *)

JsonLevels == INSTANCE Levels WITH Level <- JsonsOver, Bottom <- {}
ValueLevels == INSTANCE Levels WITH Level <- ValuesOver, Bottom <- {}
FillLevels == INSTANCE Levels WITH
    Level <- FillAny, Bottom <- [arg \in Seq(Chars) \X Jsons |-> Failed]
TypedLevels == INSTANCE Levels WITH
    Level <- TypedOver, Bottom <- [tv \in Types \X Values |-> FALSE]

LEMMA JsonsWithinLevels ==
    \A n \in Nat : JsonsWithin[n] = JsonsOver(IF n = 0 THEN {} ELSE JsonsWithin[n - 1])
  BY JsonLevels!LevelOfLevel DEF JsonsWithin

LEMMA ValuesWithinLevels ==
    \A n \in Nat : ValuesWithin[n] = ValuesOver(IF n = 0 THEN {} ELSE ValuesWithin[n - 1])
  BY ValueLevels!LevelOfLevel DEF ValuesWithin

LEMMA FillMessageLevels ==
    \A n \in Nat : FillMessage[n] =
      FillAny(IF n = 0 THEN [arg \in Seq(Chars) \X Jsons |-> Failed] ELSE FillMessage[n - 1])
  BY FillLevels!LevelOfLevel DEF FillMessage

LEMMA HasTypeLevels ==
    \A n \in Nat : HasType[n] =
      TypedOver(IF n = 0 THEN [tv \in Types \X Values |-> FALSE] ELSE HasType[n - 1])
  BY TypedLevels!LevelOfLevel DEF HasType

LEMMA SeqsGrow ==
    ASSUME NEW V, NEW W, V \subseteq W
    PROVE  Seq(V) \subseteq Seq(W) /\ V \X V \subseteq W \X W /\ Seq(V \X V) \subseteq Seq(W \X W)
<1>1. ASSUME NEW A, NEW B, A \subseteq B PROVE Seq(A) \subseteq Seq(B)
  BY <1>1
<1>2. V \X V \subseteq W \X W
  OBVIOUS
<1> QED
  BY <1>1, <1>2

LEMMA JsonsOverGrow ==
    ASSUME NEW V, NEW W, V \subseteq W
    PROVE  JsonsOver(V) \subseteq JsonsOver(W)
<1>1. Seq(V) \subseteq Seq(W)
  BY SeqsGrow
<1>2. Seq(Texts \X V) \subseteq Seq(Texts \X W)
  <2>1. ASSUME NEW A, NEW B, A \subseteq B PROVE Seq(A) \subseteq Seq(B)
    BY <2>1
  <2>2. Texts \X V \subseteq Texts \X W
    OBVIOUS
  <2> QED
    BY <2>1, <2>2
<1>3. ASSUME NEW A, NEW B, NEW C, NEW D, A \subseteq B, C \subseteq D PROVE A \X C \subseteq B \X D
  BY <1>3
<1> QED
  BY <1>1, <1>2, <1>3, ZenonT(40) DEF JsonsOver

LEMMA ValuesOverGrow ==
    ASSUME NEW V, NEW W, V \subseteq W
    PROVE  ValuesOver(V) \subseteq ValuesOver(W)
<1>1. Seq(V) \subseteq Seq(W) /\ Seq(V \X V) \subseteq Seq(W \X W)
  BY SeqsGrow
<1>2. ASSUME NEW A, NEW C, NEW D, C \subseteq D PROVE A \X C \subseteq A \X D
  BY <1>2
<1> QED
  BY <1>1, <1>2, ZenonT(40) DEF ValuesOver

LEMMA JsonsGrow ==
    ASSUME NEW n \in Nat
    PROVE  (IF n = 0 THEN {} ELSE JsonsWithin[n - 1]) \subseteq JsonsWithin[n]
<1> DEFINE below(k) == IF k = 0 THEN {} ELSE JsonsWithin[k - 1]
           S == {k \in Nat : below(k) \subseteq JsonsWithin[k]}
<1>1. 0 \in S
  OBVIOUS
<1>2. ASSUME NEW k \in Nat, k \in S PROVE k + 1 \in S
  <2>1. JsonsWithin[k] = JsonsOver(below(k)) /\ JsonsWithin[k + 1] = JsonsOver(JsonsWithin[k])
    <3>1. k + 1 \in Nat /\ (k + 1) - 1 = k /\ k + 1 # 0
      OBVIOUS
    <3> QED
      BY <3>1, JsonsWithinLevels
  <2>2. JsonsOver(below(k)) \subseteq JsonsOver(JsonsWithin[k])
    BY <1>2, JsonsOverGrow
  <2>3. k + 1 \in Nat /\ below(k + 1) = JsonsWithin[k]
    OBVIOUS
  <2> HIDE DEF below
  <2> QED
    BY <2>1, <2>2, <2>3
<1> HIDE DEF S
<1>3. Nat \subseteq S
  BY <1>1, <1>2, Induction
<1> QED
  BY <1>3 DEF S

LEMMA ValuesGrow ==
    ASSUME NEW n \in Nat
    PROVE  (IF n = 0 THEN {} ELSE ValuesWithin[n - 1]) \subseteq ValuesWithin[n]
<1> DEFINE below(k) == IF k = 0 THEN {} ELSE ValuesWithin[k - 1]
           S == {k \in Nat : below(k) \subseteq ValuesWithin[k]}
<1>1. 0 \in S
  OBVIOUS
<1>2. ASSUME NEW k \in Nat, k \in S PROVE k + 1 \in S
  <2>1. ValuesWithin[k] = ValuesOver(below(k)) /\ ValuesWithin[k + 1] = ValuesOver(ValuesWithin[k])
    <3>1. k + 1 \in Nat /\ (k + 1) - 1 = k /\ k + 1 # 0
      OBVIOUS
    <3> QED
      BY <3>1, ValuesWithinLevels
  <2>2. ValuesOver(below(k)) \subseteq ValuesOver(ValuesWithin[k])
    BY <1>2, ValuesOverGrow
  <2>3. k + 1 \in Nat /\ below(k + 1) = ValuesWithin[k]
    OBVIOUS
  <2> HIDE DEF below
  <2> QED
    BY <2>1, <2>2, <2>3
<1> HIDE DEF S
<1>3. Nat \subseteq S
  BY <1>1, <1>2, Induction
<1> QED
  BY <1>3 DEF S

\* Every level is among all values.
LEMMA ValuesBelow ==
    ASSUME NEW n \in 0..Nesting
    PROVE  ValuesWithin[n] \subseteq Values
<1> DEFINE S == {k \in 0..Nesting : ValuesWithin[Nesting - k] \subseteq Values}
<1>1. 0 \in S /\ Nesting \in Nat
  <2>1. Nesting \in Nat
    BY DataAssumption
  <2>2. Nesting - 0 = Nesting
    BY <2>1
  <2> QED
    BY <2>1, <2>2 DEF Values
<1>2. ASSUME NEW k \in 1..Nesting, k - 1 \in S PROVE k \in S
  <2>1. ValuesWithin[Nesting - (k - 1)] \subseteq Values
    BY <1>2
  <2>2. Nesting - (k - 1) \in Nat /\ Nesting - (k - 1) # 0 /\ (Nesting - (k - 1)) - 1 = Nesting - k /\ k \in 0..Nesting
    BY <1>1
  <2>3. ValuesWithin[Nesting - k] \subseteq ValuesWithin[Nesting - (k - 1)]
    BY <2>2, ValuesGrow
  <2> QED
    BY <2>1, <2>2, <2>3
<1> HIDE DEF S
<1>3. 0..Nesting \subseteq S
  BY <1>1, <1>2, InductionUpTo
<1>4. Nesting - n \in 0..Nesting /\ Nesting - (Nesting - n) = n
  BY <1>1
<1> QED
  BY <1>3, <1>4 DEF S

\* What is in JSON is JSON.
LEMMA JsonParts ==
    ASSUME NEW j \in Jsons
    PROVE  /\ j[1] \in {"num", "real"} => j[2] \in Int
           /\ j[1] = "bool" => j[2] \in BOOLEAN
           /\ j[1] = "str" => j[2] \in Texts
           /\ j[1] = "arr" => j[2] \in Seq(Jsons)
           /\ j[1] = "obj" => j[2] \in Seq(Texts \X Jsons)
<1> DEFINE J == IF Nesting = 0 THEN {} ELSE JsonsWithin[Nesting - 1]
<1>1. Nesting \in Nat
  BY DataAssumption
<1>2. Jsons = JsonsOver(J) /\ J \subseteq Jsons
  BY <1>1, JsonsWithinLevels, JsonsGrow DEF Jsons
<1> HIDE DEF J
<1>3. j \in JsonsOver(Jsons)
  BY <1>2, JsonsOverGrow
<1>4. /\ j[1] \in {"num", "real"} => j[2] \in Int
      /\ j[1] = "bool" => j[2] \in BOOLEAN
      /\ j[1] = "str" => j[2] \in Texts
  BY <1>3 DEF JsonsOver, Null
<1>5. j[1] = "arr" => j[2] \in Seq(Jsons)
  BY <1>3 DEF JsonsOver, Null
<1>6. j[1] = "obj" => j[2] \in Seq(Texts \X Jsons)
  BY <1>3 DEF JsonsOver, Null
<1> QED
  BY <1>4, <1>5, <1>6

-----------------------------------------------------------------------------
(* How signatures begin, and what becomes of those that split() cannot cut *)

\* u is the letter c and then s.
Begins(u, c, s) ==
    /\ u \in Seq(Chars) /\ Len(u) = 1 + Len(s) /\ u[1] = c /\ Head(u) = c /\ Tail(u) = s
    /\ \A i \in 1..Len(s) : u[1 + i] = s[i]

LEMMA JoinLetter ==
    ASSUME NEW c \in Chars, NEW s \in Seq(Chars)
    PROVE  Begins(join(<<c>>, s), c, s)
<1> DEFINE p == <<c>>
           u == join(p, s)
<1>1. p \in Seq(Chars) /\ Len(p) = 1 /\ p[1] = c /\ Len(s) \in Nat
  OBVIOUS
<1> HIDE DEF p
<1>2. u \in Seq(Chars) /\ Joined(u, p, s)
  BY <1>1, JoinChars, JoinJoined
<1> HIDE DEF u
<1>3. Len(u) = 1 + Len(s) /\ u[1] = c /\ \A i \in 1..Len(s) : u[1 + i] = s[i]
  <2>1. 1 \in 1..Len(p)
    BY <1>1
  <2> QED
    BY <1>1, <1>2, <2>1 DEF Joined
<1>4. u # <<>> /\ Head(u) = c
  BY <1>1, <1>2, <1>3
<1>5. Tail(u) = s
  <2> DEFINE t == Tail(u)
  <2>1. t \in Seq(Chars) /\ Len(t) = Len(s) /\ \A i \in 1..Len(s) : t[i] = u[i + 1]
    BY <1>1, <1>2, <1>3, <1>4
  <2> HIDE DEF t
  <2>2. \A i \in 1..Len(t) : t[i] = s[i]
    BY <1>1, <1>3, <2>1
  <2>3. t = s
    BY <2>1, <2>2, SeqEqual
  <2> QED
    BY <2>3 DEF t
<1>6. Begins(u, c, s)
  BY <1>2, <1>3, <1>4, <1>5 DEF Begins
<1> QED
  BY <1>6 DEF u, p

Opening(T) == IF T[1] \in Simple THEN T[1] ELSE IF T[1] = "(" THEN "(" ELSE "a"

LEMMA SigFirst ==
    ASSUME NEW T \in Types
    PROVE  Len(SigOf[T]) >= 1 /\ SigOf[T][1] = Opening(T)
<1> DEFINE u == SigOf[T]
<1>1. ASSUME NEW c \in Chars, NEW s \in Seq(Chars), u = join(<<c>>, s)
      PROVE  Len(u) >= 1 /\ u[1] = c
  <2>1. Begins(u, c, s)
    BY <1>1, JoinLetter
  <2>2. Len(s) \in Nat
    OBVIOUS
  <2> QED
    BY <2>1, <2>2 DEF Begins
<1>2. CASE T[1] \in Simple
  <2>1. u = <<T[1]>>
    BY ZenonT(60), <1>2, SigCases
  <2>2. \A c : Len(<<c>>) = 1 /\ <<c>>[1] = c
    OBVIOUS
  <2> HIDE DEF u
  <2>3. Len(u) >= 1 /\ u[1] = Opening(T)
    BY <1>2, <2>1, <2>2 DEF Opening
  <2> QED
    BY <2>3 DEF u
<1>3. CASE T[1] = "a"
  <2>1. u = join(<<"a">>, SigOf[T[2]]) /\ SigOf[T[2]] \in Seq(Chars) /\ "a" \in Chars
    BY ZenonT(60), <1>3, SigCases, TypeCases, SigType, Kinds
  <2>2. Opening(T) = "a"
    BY ZenonT(60), <1>3, Kinds DEF Opening
  <2> HIDE DEF u
  <2>3. Len(u) >= 1 /\ u[1] = Opening(T)
    BY <1>1, <2>1, <2>2, Zenon
  <2> QED
    BY <2>3 DEF u
<1>4. CASE T[1] = "{"
  <2> DEFINE kv == join(SigOf[T[2]], SigOf[T[3]])
             w == join(<<"{">>, join(kv, <<"}">>))
  <2>1. u = join(<<"a">>, w) /\ T[2] \in Types /\ T[3] \in Types
    BY ZenonT(60), <1>4, SigCases, TypeCases, Kinds
  <2>2. kv \in Seq(Chars)
    BY ZenonT(60), <2>1, SigType, JoinChars
  <2> HIDE DEF kv, u
  <2>3. w \in Seq(Chars) /\ "a" \in Chars
    BY <2>2, Marks, Different, JoinChars, Zenon
  <2> HIDE DEF w
  <2>4. Opening(T) = "a"
    BY ZenonT(60), <1>4, Kinds DEF Opening
  <2>5. Len(u) >= 1 /\ u[1] = Opening(T)
    BY <1>1, <2>1, <2>3, <2>4, Zenon
  <2> QED
    BY <2>5 DEF u
<1>5. CASE T[1] = "("
  <2> DEFINE w == join(Flat(T[2]), <<")">>)
  <2>1. u = join(<<"(">>, w) /\ T[2] \in Seq(Types)
    BY ZenonT(60), <1>5, SigCases, TypeCases, Kinds
  <2> HIDE DEF u
  <2>2. w \in Seq(Chars) /\ "(" \in Chars
    BY <2>1, SigsType, Marks, Different, JoinChars, Zenon
  <2> HIDE DEF w
  <2>3. Opening(T) = "("
    BY ZenonT(60), <1>5, Kinds DEF Opening
  <2>4. Len(u) >= 1 /\ u[1] = Opening(T)
    BY <1>1, <2>1, <2>2, <2>3, Zenon
  <2> QED
    BY <2>4 DEF u
<1> QED
  BY <1>2, <1>3, <1>4, <1>5, TypeCases, Zenon

Starts(u, c, d) == u[1] = c /\ u[2] = d

LEMMA JoinLetters ==
    ASSUME NEW c \in Chars, NEW d \in Chars, NEW x \in Seq(Chars),
           NEW u, u = join(<<c>>, join(<<d>>, x))
    PROVE  Starts(u, c, d)
<1> DEFINE w == join(<<d>>, x)
<1>1. Begins(w, d, x)
  BY JoinLetter
<1> HIDE DEF w
<1>2. w \in Seq(Chars) /\ w[1] = d /\ 1 \in 1..Len(w)
  BY <1>1 DEF Begins
<1>3. Begins(u, c, w)
  BY <1>2, JoinLetter DEF w
<1>4. u[1 + 1] = w[1] /\ u[1] = c
  BY <1>2, <1>3 DEF Begins
<1> QED
  BY <1>2, <1>4 DEF Starts

\* Two arrays in a row are no type's whole signature.
LEMMA NotTwoArrays ==
    ASSUME NEW T \in Types
    PROVE  SigOf[T] # <<"a", "a">>
<1> SUFFICES ASSUME SigOf[T] = <<"a", "a">> PROVE FALSE
  OBVIOUS
<1>1. Len(SigOf[T]) = 2 /\ SigOf[T][1] = "a" /\ SigOf[T][2] = "a"
  <2> DEFINE u == SigOf[T]
  <2>1. u = <<"a", "a">>
    OBVIOUS
  <2> HIDE DEF u
  <2>2. Len(u) = 2 /\ u[1] = "a" /\ u[2] = "a"
    BY <2>1
  <2> QED
    BY <2>2 DEF u
<1>2. T[1] \in {"a", "{"}
  BY ZenonT(60), <1>1, SigFirst, TypeCases, Kinds DEF Opening
<1>3. CASE T[1] = "a"
  <2>1. T[2] \in Types /\ SigOf[T] = join(<<"a">>, SigOf[T[2]]) /\ SigOf[T[2]] \in Seq(Chars) /\ "a" \in Chars
    BY ZenonT(60), <1>3, TypeCases, SigCases, SigType, Kinds
  <2>2. Begins(SigOf[T], "a", SigOf[T[2]])
    BY <2>1, JoinLetter, Zenon
  <2>3. Len(SigOf[T[2]]) = 1 /\ SigOf[T[2]][1] = "a"
    BY <1>1, <2>1, <2>2 DEF Begins
  <2>4. T[2][1] \in {"a", "{"}
    BY ZenonT(60), <2>1, <2>3, SigFirst, TypeCases, Kinds DEF Opening
  <2>5. PartsIn(T[2], {P \in Types : Len(SigOf[P]) < Len(SigOf[T[2]])})
    BY <2>1, PartsShorter
  <2>6. T[2][2] \in Types /\ Len(SigOf[T[2][2]]) < 1
    BY ZenonT(60), <2>3, <2>4, <2>5 DEF PartsIn
  <2> QED
    BY <2>6, SigFirst
<1>4. CASE T[1] = "{"
  <2> DEFINE k == SigOf[T[2]]
             v == SigOf[T[3]]
  <2>2. T[2] \in Types /\ T[3] \in Types /\ SigOf[T] = join(<<"a">>, join(<<"{">>, join(join(k, v), <<"}">>)))
    BY ZenonT(60), <1>4, TypeCases, SigCases, Kinds
  <2>3. join(k, v) \in Seq(Chars)
    BY ZenonT(60), <2>2, SigType, JoinChars
  <2> HIDE DEF k, v
  <2>4. join(join(k, v), <<"}">>) \in Seq(Chars) /\ "{" \in Chars /\ "a" \in Chars
    BY <2>3, Marks, Different, JoinChars, Zenon
  <2>5. SigOf[T][2] = "{"
    <3>1. Starts(SigOf[T], "a", "{")
      BY <2>2, <2>4, JoinLetters, Zenon
    <3> QED
      BY <3>1, Zenon DEF Starts
  <2> QED
    BY <1>1, <2>5, Different, Zenon
<1> QED
  BY ZenonT(60), <1>2, <1>3, <1>4

\* Behind the first i - 1 parts comes the i-th.
LEMMA BuiltBehind ==
    ASSUME NEW ps \in Seq(Seq(Chars)), NEW g \in [0..Len(ps) -> Seq(Chars)], Builds(ps, g),
           NEW i \in 1..Len(ps)
    PROVE  \E v \in Seq(Chars) : g[Len(ps)] = join(g[i - 1], join(ps[i], v))
<1> DEFINE T == {k \in 0..Len(ps) :
                   k >= i => \E v \in Seq(Chars) : g[k] = join(g[i - 1], join(ps[i], v))}
<1>1. 0 \in T /\ Len(ps) \in Nat
  OBVIOUS
<1>2. g[i - 1] \in Seq(Chars) /\ ps[i] \in Seq(Chars)
  <2>1. i - 1 \in 0..Len(ps)
    OBVIOUS
  <2>2. g[i - 1] \in Seq(Chars)
    BY <2>1
  <2>3. ps[i] \in Seq(Chars)
    OBVIOUS
  <2> QED
    BY <2>2, <2>3
<1>3. ASSUME NEW k \in 1..Len(ps), k - 1 \in T PROVE k \in T
  <2>1. k \in 0..Len(ps) /\ g[k] = join(g[k - 1], ps[k])
    BY DEF Builds
  <2>2. ps[k] \in Seq(Chars)
    OBVIOUS
  <2>3. CASE k = i
    <3>1. <<>> \in Seq(Chars) /\ join(ps[i], <<>>) = ps[i]
      BY <1>2, JoinNothing
    <3> QED
      BY <2>1, <2>3, <3>1
  <2>4. CASE k > i
    <3>1. k - 1 >= i
      BY <2>4
    <3>2. PICK v \in Seq(Chars) : g[k - 1] = join(g[i - 1], join(ps[i], v))
      BY <1>3, <3>1
    <3> DEFINE e == ps[k]
               b == g[i - 1]
               p == ps[i]
    <3>3. b \in Seq(Chars) /\ p \in Seq(Chars) /\ e \in Seq(Chars) /\ g[k] = join(join(b, join(p, v)), e)
      BY <1>2, <2>1, <2>2, <3>2
    <3> HIDE DEF b, p, e
    <3>4. join(p, v) \in Seq(Chars) /\ join(v, e) \in Seq(Chars)
      BY <3>3, JoinChars
    <3>5. ASSUME NEW x \in Seq(Chars), NEW y \in Seq(Chars), NEW z \in Seq(Chars)
          PROVE  join(join(x, y), z) = join(x, join(y, z))
      BY JoinAssociative
    <3>6. g[k] = join(b, join(p, join(v, e)))
      <4>1. join(join(b, join(p, v)), e) = join(b, join(join(p, v), e))
        BY <3>3, <3>4, <3>5, ZenonT(40)
      <4>2. join(join(p, v), e) = join(p, join(v, e))
        BY <3>3, <3>5, Zenon
      <4> QED
        BY <3>3, <4>1, <4>2, Zenon
    <3>7. \E q \in Seq(Chars) : g[k] = join(b, join(p, q))
      BY <3>4, <3>6, Zenon
    <3> QED
      BY <2>1, <3>7 DEF b, p
  <2>5. CASE k < i
    BY <2>1, <2>5
  <2>6. k < i \/ k = i \/ k > i
    OBVIOUS
  <2> HIDE DEF T
  <2> QED
    BY <2>3, <2>4, <2>5, <2>6
<1> HIDE DEF T
<1>4. 0..Len(ps) \subseteq T
  BY <1>1, <1>3, InductionUpTo
<1>5. Len(ps) \in 0..Len(ps) /\ Len(ps) >= i
  BY <1>1
<1> QED
  BY <1>4, <1>5 DEF T

\* Among the pieces of s are two arrays in a row, or there are none.
Broken(s) == split[s].ok => \E k \in 1..Len(split[s].result) : split[s].result[k] = <<"a", "a">>

\* Where split() cannot take a type in one turn, it throws or finds the piece "aa".
LEMMA BrokenStart ==
    ASSUME NEW T \in Types, ~Whole(T), NEW v \in Seq(Chars), NEW w, w = join(SigOf[T], v), split[w].ok
    PROVE  split[w].result # <<>> /\ split[w].result[1] = <<"a", "a">>
<1>1. SigOf[T] \in Seq(Chars) /\ w \in Seq(Chars)
  BY SigType, JoinChars
<1>0. /\ <<"a", "a">> \in Seq(Chars) /\ Len(<<"a", "a">>) = 2
      /\ <<"a", "a">>[1] = "a" /\ <<"a", "a">>[2] = "a"
  <2>1. ASSUME NEW c \in Chars
        PROVE  <<c, c>> \in Seq(Chars) /\ Len(<<c, c>>) = 2 /\ <<c, c>>[1] = c /\ <<c, c>>[2] = c
    OBVIOUS
  <2>2. "a" \in Chars
    BY ZenonT(60), Kinds
  <2> QED
    BY <2>1, <2>2, Zenon
<1>2. w # <<>> /\ w[1] = Opening(T) /\ Head(w) = w[1]
  <2>1. Joined(w, SigOf[T], v) /\ Len(SigOf[T]) >= 1 /\ SigOf[T][1] = Opening(T)
    BY <1>1, SigFirst, JoinJoined
  <2>2. Len(SigOf[T]) \in Nat /\ Len(v) \in Nat /\ 1 \in 1..Len(SigOf[T])
    BY <1>1, <2>1
  <2>3. Len(w) >= 1 /\ w[1] = Opening(T)
    BY <2>1, <2>2 DEF Joined
  <2> QED
    BY <1>1, <2>3
<1>3. split[w] = Turn(w, split)
  BY <1>1, SplitTurns
<1>4. ~Throws(w) /\ ~Stuck(w)
  <2>1. Throws(w) \/ Stuck(w) => ~split[w].ok
    BY <1>2, <1>3 DEF Turn
  <2> QED
    BY <2>1
<1>5. split[w].result = <<SubSeq(w, 1, PieceLength(w))>> \o split[Rest(w)].result
  BY <1>2, <1>3, <1>4 DEF Turn
<1>6. T[1] = "a" /\ T[2] \in Types /\ T[2][1] \in {"a", "{"}
  <2>1. T[1] \notin Simple
    <3> SUFFICES ASSUME T[1] \in Simple PROVE FALSE
      OBVIOUS
    <3>1. Head(w) = T[1] /\ T[1] \notin Basic
      BY ZenonT(60), <1>2 DEF Opening, Whole
    <3>2. T[1] \notin {"(", "a"}
      BY ZenonT(60), Kinds
    <3> QED
      BY <1>4, <3>1, <3>2 DEF Throws
  <2> QED
    BY <2>1, TypeCases, Zenon DEF Whole
<1>7. w[1] = "a" /\ w[2] = "a" /\ Len(w) >= 2
  <2>1. SigOf[T] = join(<<"a">>, SigOf[T[2]]) /\ SigOf[T[2]] \in Seq(Chars) /\ "a" \in Chars
    BY ZenonT(60), <1>6, SigCases, SigType, Kinds
  <2>2. Begins(SigOf[T], "a", SigOf[T[2]])
    BY <2>1, JoinLetter, Zenon
  <2>3. Len(SigOf[T[2]]) >= 1 /\ SigOf[T[2]][1] = "a"
    <3>1. Opening(T[2]) = "a"
      BY <1>6, Kinds, Different, Letters, Zenon DEF Opening
    <3> QED
      BY ZenonT(60), <1>6, <3>1, SigFirst
  <2>4. Len(SigOf[T]) >= 2 /\ SigOf[T][1] = "a" /\ SigOf[T][1 + 1] = "a"
    <3>1. Len(SigOf[T[2]]) \in Nat
      BY <2>1
    <3>2. 1 \in 1..Len(SigOf[T[2]])
      BY <2>3, <3>1
    <3> QED
      BY <2>2, <2>3, <3>1, <3>2 DEF Begins
  <2>5. Joined(w, SigOf[T], v) /\ Len(SigOf[T]) \in Nat /\ Len(v) \in Nat
    BY <1>1, JoinJoined
  <2> QED
    BY <2>4, <2>5 DEF Joined
<1>8. PieceLength(w) = 2
  <2>1. Head(w) \notin Basic /\ Head(w) # "(" /\ w[2] # "(" /\ w[2] # "{"
    BY ZenonT(60), <1>2, <1>7, Letters, Different
  <2> QED
    BY <2>1, Zenon DEF PieceLength
<1>9. SubSeq(w, 1, 2) = <<"a", "a">>
  <2> DEFINE a == SubSeq(w, 1, 2)
             b == <<"a", "a">>
  <2>1. a \in Seq(Chars) /\ Len(a) = 2 /\ a[1] = "a" /\ a[2] = "a"
    BY <1>1, <1>7
  <2>2. b \in Seq(Chars) /\ Len(b) = 2 /\ b[1] = "a" /\ b[2] = "a"
    BY <1>0
  <2> HIDE DEF a, b
  <2>3. \A i \in 1..Len(a) : a[i] = b[i]
    BY <2>1, <2>2
  <2>4. a = b
    BY <2>1, <2>2, <2>3, SeqEqual
  <2> QED
    BY <2>4 DEF a, b
<1>10. split[w].result = <<<<"a", "a">>>> \o split[Rest(w)].result
  BY <1>5, <1>8, <1>9, Zenon
<1>11. split[Rest(w)].result \in Seq(Seq(Chars))
  <2>1. Rest(w) \in Seq(Chars)
    BY <1>1, <1>4, PieceTaken
  <2>2. split[Rest(w)] \in Results
    BY <2>1, SplitTurns
  <2> QED
    BY <2>2 DEF Results
<1>12. ASSUME NEW x \in Seq(Chars), NEW r \in Seq(Seq(Chars)), NEW u, u = <<x>> \o r
       PROVE  u # <<>> /\ u[1] = x
  BY <1>12
<1> QED
  BY <1>0, <1>10, <1>11, <1>12, Zenon

LEMMA NotWholeBroken ==
    ASSUME NEW Ts \in Seq(Types), ~AllWhole(Ts, Len(Ts))
    PROVE  Broken(Flat(Ts))
<1> DEFINE ps == SigsOf(Ts)
           bad == {k \in 1..Len(Ts) : ~Whole(Ts[k])}
<1>1. /\ ps \in Seq(Seq(Chars)) /\ Len(ps) = Len(Ts)
      /\ \A k \in 1..Len(Ts) : ps[k] = SigOf[Ts[k]]
  BY SigsType
<1>2. PICK i \in bad : \A k \in bad : i <= k
  <2>1. bad \in SUBSET Nat /\ bad # {}
    BY DEF AllWhole
  <2> HIDE DEF bad
  <2> QED
    BY <2>1, LeastElement
<1>3. i \in 1..Len(Ts) /\ Ts[i] \in Types /\ ~Whole(Ts[i])
  OBVIOUS
<1>4. \A k \in 1..i - 1 : Complete(SigOf[Ts[k]])
  <2>1. ASSUME NEW k \in 1..i - 1 PROVE k \in 1..Len(Ts) /\ Ts[k] \in Types /\ Whole(Ts[k])
    <3>1. k \in 1..Len(Ts) /\ ~(i <= k)
      BY <1>3
    <3>2. Ts[k] \in Types
      BY <3>1
    <3> QED
      BY <1>2, <3>1, <3>2
  <2> QED
    BY <2>1, WholeComplete
<1> HIDE DEF ps, bad
<1>5. PICK g \in [0..Len(ps) -> Seq(Chars)] : Builds(ps, g)
  BY <1>1, BuildsExist
<1>6. i \in 1..Len(ps) /\ i - 1 \in 0..Len(ps) /\ i - 1 \in Nat /\ \A k \in 1..i - 1 : k \in 1..Len(Ts)
  BY <1>1, <1>3
<1>7. PICK v \in Seq(Chars) : g[Len(ps)] = join(g[i - 1], join(ps[i], v))
  BY <1>1, <1>5, <1>6, BuiltBehind
<1> DEFINE w == join(ps[i], v)
           first == SubSeq(ps, 1, i - 1)
<1>8. CutUp(g[i - 1], first)
  <2>1. AllComplete(ps, i - 1)
    BY <1>1, <1>4, <1>6 DEF AllComplete
  <2> QED
    BY <1>1, <1>5, <1>6, <2>1, BuiltCut
<1>9. g[i - 1] \in Seq(Chars) /\ w \in Seq(Chars) /\ w = join(SigOf[Ts[i]], v)
  <2>1. g[i - 1] \in Seq(Chars)
    BY <1>6
  <2>2. ps[i] \in Seq(Chars) /\ ps[i] = SigOf[Ts[i]]
    BY <1>1, <1>3, SigType
  <2> QED
    BY <2>1, <2>2, JoinChars
<1>10. first \in Seq(Seq(Chars)) /\ Len(first) = i - 1
  BY <1>1, <1>6
<1>11. FlattenSeq(ps) = join(g[i - 1], w)
  BY <1>1, <1>5, <1>7, FlattenBuilt
<1> HIDE DEF w, first
<1>12. split[FlattenSeq(ps)] = [ok |-> split[w].ok, result |-> join(first, split[w].result)]
  <2>1. ASSUME NEW a \in Seq(Chars), NEW p, CutUp(a, p), NEW u, u = join(a, w)
        PROVE  split[u] = [ok |-> split[w].ok, result |-> join(p, split[w].result)]
    <3>1. split[join(a, w)] = [ok |-> split[w].ok, result |-> join(p, split[w].result)]
      BY <1>9, <2>1, SplitBehind
    <3> QED
      BY <2>1, <3>1
  <2> QED
    BY <1>8, <1>9, <1>11, <2>1, Zenon
<1>13. ASSUME split[w].ok
       PROVE  /\ i \in 1..Len(join(first, split[w].result))
              /\ join(first, split[w].result)[i] = <<"a", "a">>
  <2>1. split[w].result # <<>> /\ split[w].result[1] = <<"a", "a">>
    BY <1>3, <1>9, <1>13, BrokenStart
  <2> DEFINE r == split[w].result
  <2>2. r \in Seq(Seq(Chars))
    <3>1. split[w] \in Results
      BY <1>9, SplitTurns
    <3> QED
      BY <3>1 DEF Results
  <2> HIDE DEF r
  <2>3. Joined(join(first, r), first, r)
    BY <1>10, <2>2, JoinJoined
  <2>4. Len(r) \in Nat /\ Len(r) >= 1 /\ 1 \in 1..Len(r)
    BY <2>1, <2>2 DEF r
  <2>5. Len(join(first, r)) = (i - 1) + Len(r) /\ join(first, r)[(i - 1) + 1] = r[1]
    BY <1>10, <2>3, <2>4 DEF Joined
  <2>6. (i - 1) + 1 = i /\ i \in 1..(i - 1) + Len(r)
    BY <1>6, <2>4
  <2>7. i \in 1..Len(join(first, r)) /\ join(first, r)[i] = r[1]
    BY <2>5, <2>6
  <2> QED
    BY <2>1, <2>7 DEF r
<1>14. Broken(FlattenSeq(ps))
  BY <1>12, <1>13, SMTT(30) DEF Broken
<1> QED
  BY <1>14 DEF Flat, ps

-----------------------------------------------------------------------------
(* Conversions that append one value or none *)

\* s is what ss[1] to ss[k] hold, one each if it is long enough.
OneEach(ss, s, k) ==
    /\ Len(s) <= k
    /\ Len(s) = k <=> \A i \in 1..k : Len(ss[i]) = 1
    /\ Len(s) = k => \A i \in 1..k : s[i] = ss[i][1]

LEMMA OneMore ==
    ASSUME NEW S, NEW ss \in Seq(Seq(S)), NEW k \in 1..Len(ss), Len(ss[k]) <= 1,
           NEW s \in Seq(S), OneEach(ss, s, k - 1), NEW u, u = join(s, ss[k])
    PROVE  OneEach(ss, u, k)
<1> DEFINE e == ss[k]
<1>1. e \in Seq(S) /\ k \in Nat /\ k >= 1
  OBVIOUS
<1> HIDE DEF e
<1>2. Joined(u, s, e)
  BY <1>1, JoinJoined DEF e
<1>3. Len(s) \in Nat /\ Len(e) \in Nat /\ Len(e) <= 1 /\ Len(u) = Len(s) + Len(e) /\ Len(s) <= k - 1
  BY <1>1, <1>2 DEF e, Joined, OneEach
<1>4. Len(u) <= k /\ (Len(u) = k <=> Len(s) = k - 1 /\ Len(e) = 1)
  <2>1. ASSUME NEW a \in Nat, NEW b \in Nat, b <= 1, a <= k - 1
        PROVE  a + b <= k /\ (a + b = k <=> a = k - 1 /\ b = 1)
    BY <1>1, <2>1
  <2> QED
    BY <1>3, <2>1
<1>5. \A i \in 1..k : i \in 1..k - 1 \/ i = k
  BY <1>1
<1>6. \A i \in 1..k - 1 : i \in 1..k
  BY <1>1
<1>11. k \in 1..k
  BY <1>1
<1>7. Len(u) = k <=> \A i \in 1..k : Len(ss[i]) = 1
  <2>1. Len(s) = k - 1 <=> \A i \in 1..k - 1 : Len(ss[i]) = 1
    BY DEF OneEach
  <2>2. (\A i \in 1..k : Len(ss[i]) = 1) <=> (\A i \in 1..k - 1 : Len(ss[i]) = 1) /\ Len(e) = 1
    BY <1>5, <1>6, <1>11, Zenon DEF e
  <2> QED
    BY <1>4, <2>1, <2>2
<1>8. ASSUME Len(u) = k, NEW i \in 1..k PROVE u[i] = ss[i][1]
  <2>1. Len(s) = k - 1 /\ Len(e) = 1
    BY <1>4, <1>8
  <2>2. CASE i \in 1..k - 1
    <3>1. u[i] = s[i]
      BY <1>2, <2>1, <2>2 DEF Joined
    <3>2. s[i] = ss[i][1]
      BY <2>1, <2>2 DEF OneEach
    <3> QED
      BY <3>1, <3>2
  <2>3. CASE i = k
    <3>1. 1 \in 1..Len(e) /\ Len(s) + 1 = k
      BY <1>1, <2>1
    <3>2. u[Len(s) + 1] = e[1]
      BY <1>2, <3>1 DEF Joined
    <3> QED
      BY <2>3, <3>1, <3>2 DEF e
  <2> QED
    BY <1>5, <2>2, <2>3
<1> QED
  BY <1>4, <1>7, <1>8 DEF OneEach

LEMMA FlattenOneEach ==
    ASSUME NEW S, NEW ss \in Seq(Seq(S)), \A i \in 1..Len(ss) : Len(ss[i]) <= 1
    PROVE  OneEach(ss, FlattenSeq(ss), Len(ss))
<1>1. PICK g \in [0..Len(ss) -> Seq(S)] : Builds(ss, g)
  BY BuildsExist
<1>2. Len(ss) \in Nat
  OBVIOUS
<1> DEFINE T == {k \in 0..Len(ss) : OneEach(ss, g[k], k)}
<1>3. 0 \in T
  <2>1. g[0] = <<>> /\ Len(<<>>) = 0 /\ 1..0 = {}
    BY <1>1 DEF Builds
  <2>2. OneEach(ss, g[0], 0)
    BY <2>1 DEF OneEach
  <2> QED
    BY <1>2, <2>2
<1>4. ASSUME NEW k \in 1..Len(ss), k - 1 \in T PROVE k \in T
  <2>1. k - 1 \in 0..Len(ss) /\ k \in 0..Len(ss)
    BY <1>2
  <2>2. g[k - 1] \in Seq(S)
    BY <2>1
  <2>3. g[k] = join(g[k - 1], ss[k]) /\ OneEach(ss, g[k - 1], k - 1)
    BY <1>1, <1>4 DEF Builds
  <2>4. OneEach(ss, g[k], k)
    BY <2>2, <2>3, OneMore
  <2> QED
    BY <2>1, <2>4
<1> HIDE DEF T
<1>5. 0..Len(ss) \subseteq T
  BY <1>2, <1>3, <1>4, InductionUpTo
<1>6. Len(ss) \in 0..Len(ss)
  BY <1>2
<1>7. OneEach(ss, g[Len(ss)], Len(ss))
  BY <1>5, <1>6 DEF T
<1>8. FlattenSeq(ss) = g[Len(ss)]
  BY <1>1, FlattenBuilt
<1> QED
  BY <1>7, <1>8

LEMMA FlattenAlone ==
    ASSUME NEW S, NEW s \in Seq(S)
    PROVE  FlattenSeq(<<s>>) = s
<1> DEFINE ss == <<s>>
<1>1. ss \in Seq(Seq(S)) /\ Len(ss) = 1 /\ ss[1] = s
  OBVIOUS
<1> HIDE DEF ss
<1>2. PICK g \in [0..Len(ss) -> Seq(S)] : Builds(ss, g)
  BY <1>1, BuildsExist
<1>3. FlattenSeq(ss) = g[1]
  BY <1>1, <1>2, FlattenBuilt
<1>4. g[0] = <<>> /\ g[1] = join(g[0], ss[1])
  <2>1. 1 \in 1..Len(ss) /\ 1 - 1 = 0
    BY <1>1
  <2> QED
    BY <1>2, <2>1 DEF Builds
<1>5. g[1] = s
  BY <1>1, <1>4, JoinNothing
<1>6. FlattenSeq(ss) = s
  BY <1>3, <1>5
<1> QED
  BY <1>6 DEF ss

LEMMA FlatAlone ==
    ASSUME NEW T \in Types
    PROVE  <<T>> \in Seq(Types) /\ Flat(<<T>>) = SigOf[T]
<1>1. SigsOf(<<T>>) = <<SigOf[T]>>
  BY DEF SigsOf
<1>2. SigOf[T] \in Seq(Chars)
  BY SigType
<1>3. FlattenSeq(<<SigOf[T]>>) = SigOf[T]
  BY <1>2, FlattenAlone
<1> QED
  BY <1>1, <1>3 DEF Flat

\* What the conversion F returns for sig and j, and what H says of T and v.
At(F, sig, j) == F[sig, j]
Says(H, T, v) == H[T, v]

\* What may be appended for a type: a value of it, for a descriptor nothing.
OneTyped(V, H, T, out) ==
    \/ T = <<"h">> /\ out = <<>>
    \/ \E v \in V : out = <<v>> /\ Says(H, T, v)

OutsTyped(V, H, Ts, outs) ==
    /\ outs \in Seq(Seq(V)) /\ Len(outs) = Len(Ts)
    /\ \A i \in 1..Len(Ts) : OneTyped(V, H, Ts[i], outs[i])

\* r is what the conversion for the types Ts returns, one behind the other.
Filled(V, H, Ts, r) ==
    r.ok => /\ AllWhole(Ts, Len(Ts))
            /\ \E outs : OutsTyped(V, H, Ts, outs) /\ r.out = FlattenSeq(outs)

\* F appends what H says has the type.
FillsTyped(F, V, H) ==
    /\ \A Ts \in Seq(Types) : Ts # <<>> => \A j \in Jsons : Filled(V, H, Ts, At(F, Flat(Ts), j))
    /\ \A T \in Types : \A v \in V : Says(H, T, v) => v[1] = SigOf[T]

LEMMA FilledAlone ==
    ASSUME NEW F, NEW V, NEW H, FillsTyped(F, V, H), NEW T \in Types, NEW j \in Jsons,
           At(F, SigOf[T], j).ok
    PROVE  OneTyped(V, H, T, At(F, SigOf[T], j).out)
<1> DEFINE Ts == <<T>>
           r == At(F, SigOf[T], j)
<1>1. Ts \in Seq(Types) /\ Flat(Ts) = SigOf[T] /\ Ts # <<>> /\ Len(Ts) = 1 /\ Ts[1] = T
  BY FlatAlone
<1> HIDE DEF Ts
<1>2. Filled(V, H, Ts, r)
  BY <1>1 DEF FillsTyped
<1>3. PICK outs : OutsTyped(V, H, Ts, outs) /\ r.out = FlattenSeq(outs)
  BY <1>2 DEF Filled
<1>4. outs \in Seq(Seq(V)) /\ Len(outs) = 1 /\ OneTyped(V, H, T, outs[1])
  BY <1>1, <1>3 DEF OutsTyped
<1>5. outs = <<outs[1]>> /\ outs[1] \in Seq(V)
  <2>1. ASSUME NEW A, NEW ss \in Seq(A), Len(ss) = 1 PROVE ss = <<ss[1]>> /\ ss[1] \in A
    <3> DEFINE t == <<ss[1]>>
    <3>1. ss[1] \in A
      BY <2>1
    <3>2. t \in Seq(A) /\ Len(t) = 1 /\ t[1] = ss[1]
      BY <3>1
    <3> HIDE DEF t
    <3>3. \A i \in 1..Len(ss) : ss[i] = t[i]
      BY <2>1, <3>2
    <3>4. ss = t
      BY <2>1, <3>2, <3>3, SeqEqual
    <3> QED
      BY <3>1, <3>4 DEF t
  <2> QED
    BY <1>4, <2>1, Zenon
<1>6. FlattenSeq(outs) = outs[1]
  BY <1>5, FlattenAlone
<1> QED
  BY <1>3, <1>4, <1>6

-----------------------------------------------------------------------------
(* One level of a conversion, made of the level below *)

LEMMA AtOver ==
    ASSUME NEW F, NEW sig \in Seq(Chars), NEW j \in Jsons
    PROVE  At(FillAny(F), sig, j) = FillPieces(F, sig, j)
<1>1. <<sig, j>> \in Seq(Chars) \X Jsons /\ <<sig, j>>[1] = sig /\ <<sig, j>>[2] = j
  OBVIOUS
<1> DEFINE f == FillAny(F)
<1>2. \A arg \in Seq(Chars) \X Jsons : f[arg] = FillPieces(F, arg[1], arg[2])
  BY DEF FillAny
<1> HIDE DEF f
<1>3. f[<<sig, j>>] = FillPieces(F, sig, j)
  BY <1>1, <1>2
<1>4. f[sig, j] = f[<<sig, j>>]
  BY Zenon
<1> QED
  BY <1>3, <1>4, Zenon DEF At, f

\* What TypedOver(H) says, in terms of what H says.
SaysOf(H, T, v) ==
    /\ v[1] = SigOf[T]
    /\ T[1] \in Ints => v[2] \in Low(T[1])..High(T[1])
    /\ T[1] = "v" => IsType(v[2][1]) /\ Says(H, TypeOf(v[2][1]), v[2])
    /\ T[1] = "(" => Len(v[2]) = Len(T[2]) /\ \A i \in DOMAIN v[2] : Says(H, T[2][i], v[2][i])
    /\ T[1] = "a" => \A i \in DOMAIN v[2] : Says(H, T[2], v[2][i])
    /\ T[1] = "{" => \A i \in DOMAIN v[2] : Says(H, T[2], v[2][i][1]) /\ Says(H, T[3], v[2][i][2])

LEMMA SaysOver ==
    ASSUME NEW H, NEW T \in Types, NEW v \in Values
    PROVE  Says(TypedOver(H), T, v) <=> SaysOf(H, T, v)
<1>1. <<T, v>> \in Types \X Values /\ <<T, v>>[1] = T /\ <<T, v>>[2] = v
  OBVIOUS
<1> DEFINE f == TypedOver(H)
<1>2. \A tv \in Types \X Values : f[tv] = TypedAs(H, tv[1], tv[2])
  BY DEF TypedOver
<1> HIDE DEF f
<1>3. f[<<T, v>>] = TypedAs(H, T, v)
  BY <1>1, <1>2
<1>4. f[T, v] = f[<<T, v>>]
  BY Zenon
<1>5. TypedAs(H, T, v) <=> SaysOf(H, T, v)
  BY Zenon DEF TypedAs, SaysOf, Says
<1> QED
  BY <1>3, <1>4, <1>5, Zenon DEF Says, f

\* The level below appends values of V that have the type H says.
Beneath(F, V, H) == FillsTyped(F, V, H) /\ ValuesOver(V) \subseteq Values

LEMMA TypedValue ==
    ASSUME NEW V, NEW H, NEW T \in Types, ValuesOver(V) \subseteq Values,
           NEW v \in ValuesOver(V), SaysOf(H, T, v)
    PROVE  OneTyped(ValuesOver(V), TypedOver(H), T, <<v>>)
<1>1. v \in Values
  OBVIOUS
<1>2. Says(TypedOver(H), T, v)
  BY <1>1, SaysOver
<1> QED
  BY <1>2 DEF OneTyped

\* Which conversion it comes to.
LEMMA FillOneCases ==
    ASSUME NEW F, NEW T \in Types, NEW j, NEW sig, sig = SigOf[T]
    PROVE  /\ T[1] \in Ints => FillOne(F, sig, j) = AppendIntegerFromJson(T[1], j)
           /\ T[1] = "b" => FillOne(F, sig, j) = IF j[1] = "bool" THEN Wrote(<<sig, j[2]>>) ELSE Failed
           /\ T[1] = "d" => FillOne(F, sig, j) = IF j[1] \in {"num", "real"} THEN Wrote(<<sig, j[2]>>) ELSE Failed
           /\ T[1] = "s" => FillOne(F, sig, j) = IF j[1] = "str" THEN Wrote(<<sig, j[2]>>) ELSE Failed
           /\ T[1] = "h" => FillOne(F, sig, j) = Nothing
           /\ T[1] = "v" => FillOne(F, sig, j) = FillVariant(F, j)
           /\ T[1] \in {"a", "{"} => FillOne(F, sig, j) = FillArray(F, sig, j)
           /\ T[1] = "(" => FillOne(F, sig, j) = FillStruct(F, sig, j)
<1>1. Head(sig) = Opening(T)
  <2>1. sig \in Seq(Chars) /\ Len(sig) >= 1 /\ sig[1] = Opening(T)
    BY SigType, SigFirst
  <2> QED
    BY <2>1
<1>2. /\ T[1] \in Simple => Head(sig) = T[1]
      /\ T[1] \in {"a", "{"} => Head(sig) = "a"
      /\ T[1] = "(" => Head(sig) = "("
  BY <1>1, Kinds, Different, Letters, Zenon DEF Opening
<1>3. /\ Ints \cap {"b", "d", "s", "h", "v", "a", "("} = {}
      /\ Ints \cup {"b", "d", "s", "h", "v"} \subseteq Simple
  BY DEF Ints, Signed, Unsigned, Simple, Basic
<1>4. ASSUME NEW c, Head(sig) = c
      PROVE  /\ c \in Ints => FillOne(F, sig, j) = AppendIntegerFromJson(c, j)
             /\ c = "b" => FillOne(F, sig, j) = IF j[1] = "bool" THEN Wrote(<<sig, j[2]>>) ELSE Failed
             /\ c = "d" => FillOne(F, sig, j) = IF j[1] \in {"num", "real"} THEN Wrote(<<sig, j[2]>>) ELSE Failed
             /\ c = "s" => FillOne(F, sig, j) = IF j[1] = "str" THEN Wrote(<<sig, j[2]>>) ELSE Failed
             /\ c = "h" => FillOne(F, sig, j) = Nothing
             /\ c = "v" => FillOne(F, sig, j) = FillVariant(F, j)
             /\ c = "a" => FillOne(F, sig, j) = FillArray(F, sig, j)
             /\ c = "(" => FillOne(F, sig, j) = FillStruct(F, sig, j)
  BY <1>3, <1>4 DEF FillOne
<1> QED
  BY <1>2, <1>3, <1>4, Zenon

LEMMA JoinedValue ==
    ASSUME NEW c \in Ints \cup {"b", "d", "s"}, NEW S, NEW x \in S, NEW V,
           {<<c>>} \X S \subseteq ValuesOver(V)
    PROVE  <<<<c>>, x>> \in ValuesOver(V) /\ <<<<c>>, x>>[1] = <<c>> /\ <<<<c>>, x>>[2] = x
  OBVIOUS

\* A simple type.
LEMMA FillSimple ==
    ASSUME NEW F, NEW V, NEW H, Beneath(F, V, H), NEW T \in Types, T[1] \in Ints \cup {"b", "d", "s"},
           NEW j \in Jsons, FillOne(F, SigOf[T], j).ok
    PROVE  OneTyped(ValuesOver(V), TypedOver(H), T, FillOne(F, SigOf[T], j).out)
<1> DEFINE c == T[1]
           r == FillOne(F, SigOf[T], j)
<1>1. T = <<c>> /\ SigOf[T] = <<c>> /\ c \in Simple
  <2>1. c \in Simple
    BY DEF Simple, Basic
  <2> QED
    BY <2>1, TypeCases, SigCases, Kinds, Zenon
<1>2. /\ \A d \in Ints \cup {"d"} : {<<d>>} \X Int \subseteq ValuesOver(V)
      /\ {<<"b">>} \X BOOLEAN \subseteq ValuesOver(V)
      /\ {<<"s">>} \X Texts \subseteq ValuesOver(V)
  BY ZenonT(60) DEF ValuesOver
<1>3. /\ c \notin {"v", "(", "a", "{"}
      /\ c \in Ints => c \notin {"b", "d", "s"}
  BY ZenonT(60) DEF Ints, Signed, Unsigned
<1>4. ASSUME NEW S, NEW x \in S, {<<c>>} \X S \subseteq ValuesOver(V), r.out = <<<<<<c>>, x>>>>,
             c \in Ints => x \in Low(c)..High(c)
      PROVE  OneTyped(ValuesOver(V), TypedOver(H), T, r.out)
  <2> DEFINE v == <<<<c>>, x>>
  <2>1. v \in ValuesOver(V) /\ v[1] = <<c>> /\ v[2] = x
    BY <1>4, JoinedValue
  <2> HIDE DEF v
  <2>2. SaysOf(H, T, v)
    BY ZenonT(60), <1>1, <1>3, <1>4, <2>1 DEF SaysOf
  <2>3. OneTyped(ValuesOver(V), TypedOver(H), T, <<v>>)
    BY <2>1, <2>2, TypedValue DEF Beneath
  <2> QED
    BY <1>4, <2>3 DEF v
<1>5. CASE c \in Ints
  <2>1. r = AppendIntegerFromJson(c, j)
    BY ZenonT(60), <1>5, FillOneCases
  <2>2. PICK n \in Int : r = WroteInteger(c, n)
    <3>1. j[1] = "num" => j[2] \in Int
      BY JsonParts
    <3>2. j[1] = "str" /\ j[2][1] \in Numeric => j[2][2] \in Int
      <4>1. j[1] = "str" => j[2] \in Texts
        BY JsonParts
      <4>2. \A t \in Texts : t[1] \in Numeric => t[2] \in Int
        BY DEF Texts, Numeric
      <4> QED
        BY <4>1, <4>2
    <3>3. ~Failed.ok
      BY DEF Failed
    <3> QED
      BY <2>1, <3>1, <3>2, <3>3, Zenon DEF AppendIntegerFromJson
  <2>3. static_cast(c, n) \in Low(c)..High(c) /\ static_cast(c, n) \in Int
    <3>1. static_cast(c, n) \in Low(c)..High(c)
      BY <1>5, CastInRange
    <3>2. Low(c) \in Int /\ High(c) \in Int
      BY <1>5, Limits
    <3> QED
      BY <3>1, <3>2
  <2>4. r.out = <<<<<<c>>, static_cast(c, n)>>>>
    BY <2>2 DEF WroteInteger, Wrote
  <2>5. {<<c>>} \X Int \subseteq ValuesOver(V)
    BY <1>2, <1>5
  <2> QED
    BY <1>4, <2>3, <2>4, <2>5
<1>6. CASE c = "b"
  <2>1. j[1] = "bool" /\ r = Wrote(<<SigOf[T], j[2]>>)
    <3>1. r = IF j[1] = "bool" THEN Wrote(<<SigOf[T], j[2]>>) ELSE Failed
      BY <1>6, FillOneCases, Zenon
    <3> HIDE DEF r
    <3>2. r.ok
      BY DEF r
    <3>3. r = IF j[1] = "bool" THEN Wrote(<<SigOf[T], j[2]>>) ELSE Failed
      BY <3>1
    <3> QED
      BY <3>2, <3>3 DEF Failed
  <2>2. j[2] \in BOOLEAN
    BY <2>1, JsonParts
  <2>3. r.out = <<<<<<c>>, j[2]>>>>
    BY <1>1, <2>1 DEF Wrote
  <2> QED
    BY <1>2, <1>3, <1>4, <1>6, <2>2, <2>3
<1>7. CASE c = "d"
  <2>1. j[1] \in {"num", "real"} /\ r = Wrote(<<SigOf[T], j[2]>>)
    <3>1. r = IF j[1] \in {"num", "real"} THEN Wrote(<<SigOf[T], j[2]>>) ELSE Failed
      BY <1>7, FillOneCases, Zenon
    <3> HIDE DEF r
    <3>2. r.ok
      BY DEF r
    <3>3. r = IF j[1] \in {"num", "real"} THEN Wrote(<<SigOf[T], j[2]>>) ELSE Failed
      BY <3>1
    <3> QED
      BY <3>2, <3>3 DEF Failed
  <2>2. j[2] \in Int
    BY <2>1, JsonParts
  <2>3. r.out = <<<<<<c>>, j[2]>>>>
    BY <1>1, <2>1 DEF Wrote
  <2> QED
    BY <1>2, <1>3, <1>4, <1>7, <2>2, <2>3
<1>8. CASE c = "s"
  <2>1. j[1] = "str" /\ r = Wrote(<<SigOf[T], j[2]>>)
    <3>1. r = IF j[1] = "str" THEN Wrote(<<SigOf[T], j[2]>>) ELSE Failed
      BY <1>8, FillOneCases, Zenon
    <3> HIDE DEF r
    <3>2. r.ok
      BY DEF r
    <3>3. r = IF j[1] = "str" THEN Wrote(<<SigOf[T], j[2]>>) ELSE Failed
      BY <3>1
    <3> QED
      BY <3>2, <3>3 DEF Failed
  <2>2. j[2] \in Texts
    BY <2>1, JsonParts
  <2>3. r.out = <<<<<<c>>, j[2]>>>>
    BY <1>1, <2>1 DEF Wrote
  <2> QED
    BY <1>2, <1>3, <1>4, <1>8, <2>2, <2>3
<1> QED
  BY <1>5, <1>6, <1>7, <1>8

\* A variant holds a value of the type that the JSON names.
LEMMA FillVariantTyped ==
    ASSUME NEW F, NEW V, NEW H, Beneath(F, V, H), NEW T \in Types, T[1] = "v",
           NEW j \in Jsons, FillOne(F, SigOf[T], j).ok
    PROVE  OneTyped(ValuesOver(V), TypedOver(H), T, FillOne(F, SigOf[T], j).out)
<1> DEFINE text == Member(j, Key("variant"))
           inside == Member(j, Key("value"))
           sig == text[2][2]
           r == At(F, sig, inside)
           whole == FillOne(F, SigOf[T], j)
<1>1. T[1] \in Simple /\ T = <<"v">> /\ SigOf[T] = <<"v">>
  <2>1. T[1] \in Simple
    BY DEF Simple, Basic
  <2> QED
    BY <2>1, TypeCases, SigCases, Kinds, Zenon
<1>2. whole = FillVariant(F, j)
  BY ZenonT(60), FillOneCases
<1>3. FillVariant(F, j) =
        IF /\ contains(j, Key("variant")) /\ contains(j, Key("value"))
           /\ text[1] = "str" /\ text[2][1] = "sig" /\ IsType(sig)
        THEN Enclose(r, 1, <<<<"v">>, r.out[1]>>)
        ELSE Failed
  BY Zenon DEF FillVariant, At
<1> HIDE DEF whole, r
<1>4. /\ contains(j, Key("value")) /\ IsType(sig)
      /\ whole = Enclose(r, 1, <<<<"v">>, r.out[1]>>)
  BY <1>2, <1>3 DEF Failed, whole
<1>5. r.ok /\ Len(r.out) = 1 /\ whole.out = <<<<<<"v">>, r.out[1]>>>>
  BY <1>4 DEF Enclose, Failed, Wrote, whole
<1> DEFINE P == TypeOf(sig)
<1>6. P \in Types /\ SigOf[P] = sig
  BY <1>4 DEF IsType, TypeOf
<1>7. inside \in Jsons
  <2>1. j[1] = "obj" /\ \E i \in DOMAIN j[2] : j[2][i][1] = Key("value")
    BY <1>4 DEF contains
  <2>2. j[2] \in Seq(Texts \X Jsons)
    BY <2>1, JsonParts
  <2>3. \A i \in DOMAIN j[2] : j[2][i][2] \in Jsons
    BY <2>2
  <2> QED
    BY <2>1, <2>3 DEF Member
<1> HIDE DEF sig, inside
<1>8. OneTyped(V, H, P, r.out)
  <2>1. At(F, SigOf[P], inside).ok
    BY <1>5, <1>6 DEF r
  <2>2. OneTyped(V, H, P, At(F, SigOf[P], inside).out)
    BY <1>6, <1>7, <2>1, FilledAlone DEF Beneath
  <2> QED
    BY <1>6, <2>2 DEF r
<1>9. PICK x \in V : r.out = <<x>> /\ Says(H, P, x)
  <2>1. r.out # <<>>
    BY <1>5
  <2> QED
    BY <1>8, <2>1 DEF OneTyped
<1>10. x[1] = SigOf[P]
  BY <1>6, <1>9 DEF Beneath, FillsTyped
<1> DEFINE v == <<<<"v">>, x>>
<1>11. v \in ValuesOver(V) /\ v[1] = <<"v">> /\ v[2] = x
  BY ZenonT(60) DEF ValuesOver
<1> HIDE DEF v, P
<1>12. TypeOf(x[1]) = P /\ IsType(x[1])
  BY <1>4, <1>6, <1>10 DEF P
<1>13. SaysOf(H, T, v)
  <2>1. "v" \notin Ints /\ "v" \notin {"a", "{", "("}
    BY DEF Ints, Signed, Unsigned
  <2> QED
    BY <1>1, <1>9, <1>11, <1>12, <2>1 DEF SaysOf
<1>14. OneTyped(ValuesOver(V), TypedOver(H), T, <<v>>)
  BY <1>11, <1>13, TypedValue DEF Beneath
<1>15. r.out[1] = x
  BY <1>9
<1> QED
  BY <1>5, <1>14, <1>15 DEF whole, v

-----------------------------------------------------------------------------
(* The parts that the conversions find in a signature *)

Within(u, s) == Inner(u) = s /\ Len(u) = Len(s) + 2

LEMMA InnerAround ==
    ASSUME NEW p \in Chars, NEW q \in Chars, NEW s \in Seq(Chars),
           NEW u, u = join(<<p>>, join(s, <<q>>))
    PROVE  Within(u, s)
<1> DEFINE t == join(s, <<q>>)
<1>1. <<q>> \in Seq(Chars) /\ Len(<<q>>) = 1
  OBVIOUS
<1>2. t \in Seq(Chars) /\ Joined(t, s, <<q>>)
  BY <1>1, JoinChars, JoinJoined
<1> HIDE DEF t
<1>3. Begins(u, p, t)
  BY <1>2, JoinLetter DEF t
<1>4. Len(s) \in Nat /\ Len(t) = Len(s) + 1 /\ Len(u) = Len(s) + 2 /\ u \in Seq(Chars)
  <2>1. Len(s) \in Nat
    OBVIOUS
  <2>2. Len(t) = Len(s) + 1
    BY <1>1, <1>2 DEF Joined
  <2>3. Len(u) = 1 + Len(t) /\ u \in Seq(Chars)
    BY <1>3 DEF Begins
  <2> QED
    BY <2>1, <2>2, <2>3
<1>5. \A i \in 1..Len(s) : u[1 + i] = s[i]
  <2> TAKE i \in 1..Len(s)
  <2>1. i \in 1..Len(t)
    BY <1>4
  <2>2. u[1 + i] = t[i]
    BY <1>3, <2>1 DEF Begins
  <2>3. t[i] = s[i]
    BY <1>2 DEF Joined
  <2> QED
    BY <2>2, <2>3
<1> DEFINE v == SubSeq(u, 2, Len(u) - 1)
<1>6. v \in Seq(Chars) /\ Len(v) = Len(s) /\ \A i \in 1..Len(s) : v[i] = u[1 + i]
  <2>1. ASSUME NEW n \in Nat, NEW x \in Seq(Chars), Len(x) = n + 2
        PROVE  /\ SubSeq(x, 2, Len(x) - 1) \in Seq(Chars) /\ Len(SubSeq(x, 2, Len(x) - 1)) = n
               /\ \A i \in 1..n : SubSeq(x, 2, Len(x) - 1)[i] = x[1 + i]
    <3>1. Len(x) - 1 = n + 1
      BY <2>1
    <3>2. SubSeq(x, 2, n + 1) \in Seq(Chars) /\ Len(SubSeq(x, 2, n + 1)) = n
      BY <2>1
    <3>3. \A i \in 1..n : SubSeq(x, 2, n + 1)[i] = x[1 + i]
      BY <2>1
    <3> QED
      BY <3>1, <3>2, <3>3
  <2> QED
    BY <1>4, <2>1
<1> HIDE DEF v
<1>7. v = s
  <2>1. \A i \in 1..Len(v) : v[i] = s[i]
    BY <1>5, <1>6
  <2> QED
    BY <1>6, <2>1, SeqEqual
<1> QED
  BY <1>4, <1>7 DEF Within, Inner, v

\* An array's signature is an "a" and the signature of its elements.
ArrayOfType(sig, T) ==
    /\ sig \in Seq(Chars) /\ Len(sig) > 1 /\ IsType(sig)
    /\ Tail(sig) = SigOf[T[2]] /\ sig[2] = Opening(T[2]) /\ sig[2] # "{"

LEMMA ArrayParts ==
    ASSUME NEW T \in Types, T[1] = "a"
    PROVE  ArrayOfType(SigOf[T], T) /\ T[2] \in Types
<1> DEFINE sig == SigOf[T]
           e == SigOf[T[2]]
<1>1. T[2] \in Types /\ sig = join(<<"a">>, e) /\ e \in Seq(Chars) /\ "a" \in Chars
  BY ZenonT(60), TypeCases, SigCases, SigType, Kinds
<1>2. Len(e) >= 1 /\ e[1] = Opening(T[2])
  BY <1>1, SigFirst
<1> HIDE DEF sig, e
<1>3. Begins(sig, "a", e)
  BY <1>1, JoinLetter, Zenon
<1>4. Len(e) \in Nat /\ 1 \in 1..Len(e)
  BY <1>1, <1>2
<1>5. sig \in Seq(Chars) /\ Len(sig) > 1 /\ Tail(sig) = e /\ sig[2] = e[1]
  BY <1>2, <1>3, <1>4 DEF Begins
<1>6. Opening(T[2]) # "{"
  BY Kinds, Different, Zenon DEF Opening
<1>7. IsType(sig)
  BY DEF IsType, sig
<1>8. ArrayOfType(sig, T)
  BY <1>2, <1>5, <1>6, <1>7, Zenon DEF ArrayOfType, e
<1> QED
  BY <1>1, <1>8 DEF sig

\* A struct's is the brackets and what they enclose.
StructOfType(sig, T) ==
    /\ sig \in Seq(Chars) /\ Len(sig) > 1 /\ sig[2] # "{"
    /\ Inner(sig) = Flat(T[2])

\* Several types begin like the first of them.
LEMMA FlatFirst ==
    ASSUME NEW Ts \in Seq(Types), Ts # <<>>
    PROVE  Flat(Ts) \in Seq(Chars) /\ Len(Flat(Ts)) >= 1 /\ Flat(Ts)[1] = Opening(Ts[1])
<1> DEFINE ps == SigsOf(Ts)
<1>1. /\ ps \in Seq(Seq(Chars)) /\ Len(ps) = Len(Ts) /\ \A k \in 1..Len(Ts) : ps[k] = SigOf[Ts[k]]
      /\ Flat(Ts) \in Seq(Chars)
  BY SigsType
<1>2. 1 \in 1..Len(Ts) /\ Ts[1] \in Types
  OBVIOUS
<1> HIDE DEF ps
<1>3. PICK g \in [0..Len(ps) -> Seq(Chars)] : Builds(ps, g)
  BY <1>1, BuildsExist
<1> DEFINE p == ps[1]
<1>4. p \in Seq(Chars) /\ Len(p) >= 1 /\ p[1] = Opening(Ts[1])
  <2>1. p = SigOf[Ts[1]]
    BY <1>1, <1>2
  <2> QED
    BY <1>2, <2>1, SigType, SigFirst
<1>5. PICK v \in Seq(Chars) : g[Len(ps)] = join(g[1 - 1], join(p, v))
  <2>1. \A i \in 1..Len(ps) : \E v \in Seq(Chars) : g[Len(ps)] = join(g[i - 1], join(ps[i], v))
    BY <1>1, <1>3, BuiltBehind
  <2> QED
    BY <1>1, <1>2, <2>1
<1> HIDE DEF p
<1>6. join(p, v) \in Seq(Chars) /\ Joined(join(p, v), p, v) /\ Len(p) \in Nat /\ Len(v) \in Nat
  <2>1. join(p, v) \in Seq(Chars)
    BY <1>4, JoinChars
  <2>2. Joined(join(p, v), p, v)
    BY <1>4, JoinJoined
  <2>3. Len(p) \in Nat /\ Len(v) \in Nat
    BY <1>4
  <2> QED
    BY <2>1, <2>2, <2>3
<1>7. g[1 - 1] = <<>>
  BY <1>3 DEF Builds
<1>8. g[Len(ps)] = join(p, v)
  BY <1>5, <1>6, <1>7, JoinNothing
<1>9. Flat(Ts) = join(p, v)
  BY <1>1, <1>3, <1>8, FlattenBuilt DEF Flat, ps
<1>10. 1 \in 1..Len(p)
  BY <1>4, <1>6
<1> QED
  BY <1>1, <1>4, <1>6, <1>9, <1>10 DEF Joined

LEMMA StructParts ==
    ASSUME NEW T \in Types, T[1] = "("
    PROVE  StructOfType(SigOf[T], T) /\ T[2] \in Seq(Types) /\ T[2] # <<>>
<1> DEFINE sig == SigOf[T]
           f == Flat(T[2])
<1>1. T[2] \in Seq(Types) /\ T[2] # <<>> /\ sig = join(<<"(">>, join(f, <<")">>))
  BY ZenonT(60), TypeCases, SigCases, Kinds
<1>2. f \in Seq(Chars) /\ Len(f) >= 1 /\ f[1] = Opening(T[2][1])
  BY <1>1, FlatFirst
<1>3. sig \in Seq(Chars)
  BY SigType
<1> HIDE DEF sig, f
<1>4. Within(sig, f)
  BY <1>1, <1>2, Different, InnerAround, Zenon
<1>5. Len(sig) > 1
  <2>1. Len(f) \in Nat
    BY <1>2
  <2> QED
    BY <2>1, <1>4 DEF Within
<1>6. sig[2] = f[1]
  <2> DEFINE t == join(f, <<")">>)
  <2>1. t \in Seq(Chars) /\ "(" \in Chars
    BY <1>2, Marks, Different, JoinChars, Zenon
  <2>2. Joined(t, f, <<")">>)
    BY <1>2, Marks, JoinJoined, Zenon
  <2>3. Begins(sig, "(", t)
    BY <1>1, <2>1, JoinLetter, Zenon
  <2> HIDE DEF t
  <2>4. Len(f) \in Nat /\ 1 \in 1..Len(f) /\ Len(t) \in Nat /\ Len(<<")">>) \in Nat
    BY <1>2, <2>1
  <2>5. t[1] = f[1] /\ 1 \in 1..Len(t)
    BY <2>2, <2>4 DEF Joined
  <2>6. sig[1 + 1] = t[1]
    BY <2>3, <2>5 DEF Begins
  <2> QED
    BY <2>5, <2>6
<1>7. Opening(T[2][1]) # "{"
  BY Kinds, Different, Zenon DEF Opening
<1>8. StructOfType(sig, T)
  BY ZenonT(60), <1>2, <1>3, <1>4, <1>5, <1>6, <1>7 DEF StructOfType, Within, f
<1> QED
  BY <1>1, <1>8 DEF sig

\* sig has the letters r and p before kv, which is c and v.
EntryOf(sig, p, kv, c, v) ==
    /\ Inner(Tail(sig)) = kv /\ Len(sig) > 1
    /\ sig[2] = p /\ sig[3] = c /\ Head(kv) = c /\ Tail(kv) = v

LEMMA EntryParts ==
    ASSUME NEW p \in Chars, NEW q \in Chars, NEW r \in Chars, NEW c \in Chars, NEW v \in Seq(Chars),
           NEW kv, kv = join(<<c>>, v), NEW w, w = join(<<p>>, join(kv, <<q>>)),
           NEW sig, sig = join(<<r>>, w)
    PROVE  EntryOf(sig, p, kv, c, v)
<1>1. Begins(kv, c, v)
  BY JoinLetter
<1>2. kv \in Seq(Chars) /\ kv[1] = c /\ Head(kv) = c /\ Tail(kv) = v /\ Len(kv) = 1 + Len(v)
  BY <1>1 DEF Begins
<1> DEFINE x == join(kv, <<q>>)
<1>3. <<q>> \in Seq(Chars) /\ Len(<<q>>) = 1
  OBVIOUS
<1>4. x \in Seq(Chars) /\ Joined(x, kv, <<q>>)
  BY <1>2, <1>3, JoinChars, JoinJoined
<1>5. w = join(<<p>>, x)
  OBVIOUS
<1> HIDE DEF x
<1>6. Begins(w, p, x)
  BY <1>4, <1>5, JoinLetter
<1>7. w \in Seq(Chars) /\ Len(w) = 1 + Len(x) /\ w[1] = p
  BY <1>6 DEF Begins
<1>8. Begins(sig, r, w)
  BY <1>7, JoinLetter
<1>9. Tail(sig) = w /\ Len(sig) = 1 + Len(w)
  BY <1>8 DEF Begins
<1>10. Inner(w) = kv
  <2>1. Within(w, kv)
    BY <1>2, InnerAround
  <2> QED
    BY <2>1 DEF Within
<1>11. Len(kv) \in Nat /\ Len(kv) >= 1
  <2>1. Len(v) \in Nat
    OBVIOUS
  <2> QED
    BY <1>2, <2>1
<1>12. Len(x) \in Nat /\ Len(x) >= 1 /\ x[1] = kv[1]
  <2>1. 1 \in 1..Len(kv)
    BY <1>11
  <2>2. Len(x) = Len(kv) + 1 /\ x[1] = kv[1]
    BY <1>3, <1>4, <2>1 DEF Joined
  <2> QED
    BY <1>11, <2>2
<1>13. w[1 + 1] = x[1]
  <2>1. 1 \in 1..Len(x)
    BY <1>12
  <2> QED
    BY <1>6, <2>1 DEF Begins
<1>14. 1 \in 1..Len(w) /\ 2 \in 1..Len(w)
  BY <1>7, <1>12
<1>15. sig[1 + 1] = w[1] /\ sig[1 + 2] = w[2]
  BY <1>8, <1>14 DEF Begins
<1>16. Len(sig) > 1
  <2>1. ASSUME NEW a \in Nat, a >= 1, NEW b, b = 1 + a, NEW d, d = 1 + b PROVE d > 1
    BY <2>1
  <2> QED
    BY <1>7, <1>9, <1>12, <2>1, Zenon
<1>17. sig[2] = p /\ sig[3] = c
  <2>1. 1 + 1 = 2 /\ 1 + 2 = 3
    OBVIOUS
  <2> QED
    BY <1>2, <1>7, <1>12, <1>13, <1>15, <2>1, Zenon
<1> QED
  BY <1>2, <1>9, <1>10, <1>16, <1>17 DEF EntryOf

\* A dictionary's is an "a" and an entry: a letter for the keys, the signature of
\* the values.
DictOfType(sig, T) ==
    /\ sig \in Seq(Chars) /\ Len(sig) > 1 /\ IsType(sig) /\ sig[2] = "{"
    /\ sig[3] = T[2][1]
    /\ <<Head(Inner(Tail(sig)))>> = SigOf[T[2]] /\ Tail(Inner(Tail(sig))) = SigOf[T[3]]

LEMMA DictParts ==
    ASSUME NEW T \in Types, T[1] = "{"
    PROVE  DictOfType(SigOf[T], T) /\ T[2] \in Types /\ T[3] \in Types
<1> DEFINE sig == SigOf[T]
           c == T[2][1]
           v == SigOf[T[3]]
           kv == join(<<c>>, v)
           e == join(kv, <<"}">>)
           w == join(<<"{">>, e)
<1>1. T[2] \in Types /\ T[3] \in Types /\ c \in Simple
  BY ZenonT(60), TypeCases, Kinds
<1>2. sig = join(<<"a">>, w) /\ SigOf[T[2]] = <<c>>
  <2>1. SigOf[T[2]] = <<c>>
    BY ZenonT(60), <1>1, TypeCases, SigCases, Kinds
  <2>2. sig = join(<<"a">>, join(<<"{">>, join(join(SigOf[T[2]], SigOf[T[3]]), <<"}">>)))
    BY ZenonT(60), SigCases
  <2> QED
    BY <2>1, <2>2, Zenon
<1>3. c \in Chars /\ v \in Seq(Chars) /\ sig \in Seq(Chars)
  BY ZenonT(60), <1>1, SigType, Kinds
<1>4. IsType(sig)
  BY ZenonT(60) DEF IsType
<1> HIDE DEF sig, c, v, w, e, kv
<1>5. PICK p \in Chars : p = "{"
  BY ZenonT(60), Different
<1>6. PICK q \in Chars : q = "}"
  BY ZenonT(60), Different
<1>7. PICK r \in Chars : r = "a"
  BY ZenonT(60), Different
<1>8. w = join(<<p>>, join(kv, <<q>>)) /\ sig = join(<<r>>, w)
  BY <1>2, <1>5, <1>6, <1>7, Zenon DEF w, e
<1>9. kv = join(<<c>>, v)
  BY ZenonT(60) DEF kv
<1>10. EntryOf(sig, p, kv, c, v)
  BY <1>3, <1>8, <1>9, EntryParts, Zenon
<1>11. /\ Inner(Tail(sig)) = kv /\ Len(sig) > 1
       /\ sig[2] = p /\ sig[3] = c /\ Head(kv) = c /\ Tail(kv) = v
  BY <1>10, Zenon DEF EntryOf
<1>12. <<Head(Inner(Tail(sig)))>> = SigOf[T[2]] /\ Tail(Inner(Tail(sig))) = SigOf[T[3]]
  BY <1>2, <1>11, Zenon DEF v
<1>13. sig[2] = "{" /\ sig[3] = T[2][1]
  BY <1>5, <1>11, Zenon DEF c
<1>14. DictOfType(sig, T)
  BY <1>3, <1>4, <1>11, <1>12, <1>13, Zenon DEF DictOfType
<1> QED
  BY <1>1, <1>14, Zenon DEF sig

-----------------------------------------------------------------------------
(* Containers *)

\* r is what rs[1] to rs[n] give together.
Joint(r, rs, n) ==
    r.ok => /\ \A i \in 1..n : rs[i].ok
            /\ r.out = FlattenSeq([i \in 1..n |-> rs[i].out])

LEMMA TogetherParts ==
    ASSUME NEW n \in Nat, NEW rs, DOMAIN rs = 1..n
    PROVE  Joint(Together(rs), rs, n)
  BY DEF Together, Joint, Failed

LEMMA EncloseParts ==
    ASSUME NEW r, NEW n, NEW x, Enclose(r, n, x).ok
    PROVE  r.ok /\ Len(r.out) = n /\ Enclose(r, n, x).out = <<x>>
  BY DEF Enclose, Wrote, Failed

\* What is appended for a type is at most one value, of that type.
LEMMA OneTypedSeq ==
    ASSUME NEW V, NEW H, NEW T, NEW out, OneTyped(V, H, T, out)
    PROVE  out \in Seq({v \in V : Says(H, T, v)}) /\ Len(out) <= 1
<1> DEFINE S == {v \in V : Says(H, T, v)}
<1>1. CASE out = <<>>
  BY <1>1
<1>2. CASE out # <<>>
  <2>1. PICK v \in V : out = <<v>> /\ Says(H, T, v)
    BY <1>2 DEF OneTyped
  <2>2. v \in S
    BY <2>1
  <2> HIDE DEF S
  <2> QED
    BY <2>1, <2>2 DEF S
<1> QED
  BY <1>1, <1>2

LEMMA KeyJson ==
    ASSUME NEW t \in Texts
    PROVE  <<"str", t>> \in Jsons
<1>1. Jsons = JsonsOver(IF Nesting = 0 THEN {} ELSE JsonsWithin[Nesting - 1])
  BY JsonsWithinLevels, DataAssumption DEF Jsons
<1>2. \A W : <<"str", t>> \in JsonsOver(W)
  BY DEF JsonsOver
<1> QED
  BY <1>1, <1>2

LEMMA ItemsParts ==
    ASSUME NEW j \in Jsons, j[1] \in {"arr", "obj"}
    PROVE  Items(j) \in Seq(Texts \X Jsons)
<1>1. CASE j[1] = "arr"
  <2>1. j[2] \in Seq(Jsons)
    BY <1>1, JsonParts
  <2>2. ASSUME NEW i \in 1..Len(j[2]) PROVE <<<<"int", i - 1>>, j[2][i]>> \in Texts \X Jsons
    <3>1. <<"int", i - 1>> \in Texts
      BY DEF Texts
    <3>2. j[2][i] \in Jsons
      BY <2>1
    <3> QED
      BY <3>1, <3>2
  <2>3. Items(j) = [i \in 1..Len(j[2]) |-> <<<<"int", i - 1>>, j[2][i]>>]
    BY <1>1, <2>1 DEF Items
  <2>4. Len(j[2]) \in Nat
    BY <2>1
  <2> QED
    BY <2>2, <2>3, <2>4
<1>2. CASE j[1] = "obj"
  BY <1>2, JsonParts DEF Items
<1> QED
  BY <1>1, <1>2

\* A container of values.
LEMMA ContainerValue ==
    ASSUME NEW V, NEW sig \in Seq(Chars), Len(sig) > 1
    PROVE  /\ sig[2] # "{" => \A s \in Seq(V) : <<sig, s>> \in ValuesOver(V)
           /\ sig[2] = "{" => \A s \in Seq(V \X V) : <<sig, s>> \in ValuesOver(V)
<1> DEFINE A == {s \in Seq(Chars) : Len(s) > 1 /\ s[2] # "{"}
           B == {s \in Seq(Chars) : Len(s) > 1 /\ s[2] = "{"}
<1>1. /\ sig[2] # "{" => sig \in A
      /\ sig[2] = "{" => sig \in B
  BY Zenon
<1>2. A \X Seq(V) \subseteq ValuesOver(V) /\ B \X Seq(V \X V) \subseteq ValuesOver(V)
  BY Zenon DEF ValuesOver
<1> HIDE DEF A, B
<1>3. \A C, D : \A x \in C : \A y \in D : <<x, y>> \in C \X D
  OBVIOUS
<1> QED
  BY <1>1, <1>2, <1>3, Zenon

\* What makes a container of s a value of the type.
Contents(H, T, s) ==
    /\ T[1] \in {"a", "(", "{"}
    /\ T[1] = "(" => Len(s) = Len(T[2]) /\ \A i \in DOMAIN s : Says(H, T[2][i], s[i])
    /\ T[1] = "a" => \A i \in DOMAIN s : Says(H, T[2], s[i])
    /\ T[1] = "{" => \A i \in DOMAIN s : Says(H, T[2], s[i][1]) /\ Says(H, T[3], s[i][2])

LEMMA SaysContainer ==
    ASSUME NEW H, NEW T, NEW s, Contents(H, T, s), NEW v, v[1] = SigOf[T], v[2] = s
    PROVE  SaysOf(H, T, v)
<1>1. T[1] \notin Ints /\ T[1] # "v"
  BY ZenonT(60) DEF Ints, Signed, Unsigned, Contents
<1> QED
  BY <1>1, Zenon DEF SaysOf, Contents

\* An array holds a value for each item, of the type of its elements.
LEMMA FillArrayTyped ==
    ASSUME NEW F, NEW V, NEW H, Beneath(F, V, H), NEW T \in Types, T[1] = "a",
           NEW j \in Jsons, FillOne(F, SigOf[T], j).ok
    PROVE  OneTyped(ValuesOver(V), TypedOver(H), T, FillOne(F, SigOf[T], j).out)
<1> DEFINE sig == SigOf[T]
           whole == FillOne(F, sig, j)
           items == Items(j)
           rs == [i \in DOMAIN items |-> At(F, Tail(sig), items[i][2])]
           r == Together(rs)
           S == {v \in V : Says(H, T[2], v)}
<1>1. ArrayOfType(sig, T) /\ T[2] \in Types
  BY ArrayParts
<1>2. sig \in Seq(Chars) /\ Len(sig) > 1 /\ IsType(sig) /\ Tail(sig) = SigOf[T[2]] /\ sig[2] # "{"
  BY <1>1, Zenon DEF ArrayOfType
<1>3. whole = FillArray(F, sig, j)
  BY ZenonT(60), FillOneCases
<1>4. j[1] \in {"arr", "obj"} /\ whole = Enclose(r, Len(r.out), <<sig, r.out>>)
  <2>1. FillArray(F, sig, j) =
          IF j[1] \notin {"arr", "obj"} THEN Failed ELSE Enclose(r, Len(r.out), <<sig, r.out>>)
    BY <1>2, Zenon DEF FillArray, At
  <2> HIDE DEF whole, r
  <2>2. whole.ok
    BY DEF whole
  <2> QED
    BY <1>3, <2>1, <2>2 DEF Failed
<1>5. items \in Seq(Texts \X Jsons)
  BY <1>4, ItemsParts
<1> HIDE DEF sig, whole, items
<1>6. r.ok /\ whole.out = <<<<sig, r.out>>>>
  <2>1. Enclose(r, Len(r.out), <<sig, r.out>>).ok
    BY <1>4, Zenon DEF whole, sig
  <2> HIDE DEF r
  <2> QED
    BY <1>4, <2>1, EncloseParts, Zenon
<1> DEFINE n == Len(items)
<1>7. n \in Nat /\ DOMAIN rs = 1..n /\ \A i \in 1..n : rs[i] = At(F, SigOf[T[2]], items[i][2])
  <2>1. n \in Nat /\ DOMAIN items = 1..n
    BY <1>5
  <2>2. \A i \in DOMAIN items : rs[i] = At(F, SigOf[T[2]], items[i][2])
    BY <1>2, Zenon
  <2>3. DOMAIN rs = DOMAIN items
    BY Zenon
  <2> HIDE DEF n, rs
  <2> QED
    BY <2>1, <2>2, <2>3
<1>8. \A i \in 1..n : rs[i].ok
  BY <1>6, <1>7, TogetherParts DEF Joint
<1> DEFINE outs == [i \in 1..n |-> rs[i].out]
<1>9. r.out = FlattenSeq(outs)
  BY <1>6, <1>7, TogetherParts DEF Joint
<1> HIDE DEF r, rs, n
<1>10. ASSUME NEW i \in 1..n PROVE rs[i].out \in Seq(S)
  <2>1. items[i][2] \in Jsons
    BY <1>5 DEF n
  <2>2. At(F, SigOf[T[2]], items[i][2]).ok
    BY <1>7, <1>8
  <2>3. OneTyped(V, H, T[2], At(F, SigOf[T[2]], items[i][2]).out)
    BY <1>1, <2>1, <2>2, FilledAlone DEF Beneath
  <2> QED
    BY <1>7, <2>3, OneTypedSeq
<1> HIDE DEF S
<1>11. outs \in Seq(Seq(S))
  BY <1>7, <1>10
<1> HIDE DEF outs
<1>12. r.out \in Seq(S)
  BY <1>9, <1>11, FlattenType
<1> DEFINE v == <<sig, r.out>>
<1>13. v[1] = sig /\ v[2] = r.out
  OBVIOUS
<1>14. v \in ValuesOver(V)
  <2>1. Seq(S) \subseteq Seq(V)
    BY SeqsGrow DEF S
  <2> QED
    BY ZenonT(60), <1>2, <1>12, <2>1, ContainerValue
<1> HIDE DEF v
<1>15. SaysOf(H, T, v)
  <2>1. \A i \in DOMAIN r.out : Says(H, T[2], r.out[i])
    BY <1>12 DEF S
  <2>2. Contents(H, T, r.out)
    BY <2>1, Zenon DEF Contents
  <2>3. v[1] = SigOf[T]
    BY <1>13 DEF sig
  <2> QED
    BY <1>13, <2>2, <2>3, SaysContainer
<1>16. OneTyped(ValuesOver(V), TypedOver(H), T, <<v>>)
  BY <1>14, <1>15, TypedValue DEF Beneath
<1> QED
  BY <1>6, <1>16 DEF whole, v, sig

\* The pairs of a key and a value of which a dictionary of the type is made.
PairsOf(V, H, T) == {x \in V \X V : Says(H, T[2], x[1]) /\ Says(H, T[3], x[2])}

\* An entry is complete with a value for the key and one behind it.
LEMMA FillEntryTyped ==
    ASSUME NEW F, NEW V, NEW H, FillsTyped(F, V, H), NEW T, T[2] \in Types, T[3] \in Types,
           NEW kv, <<Head(kv)>> = SigOf[T[2]], Tail(kv) = SigOf[T[3]],
           NEW key \in Texts, NEW value \in Jsons, FillEntry(F, kv, key, value).ok
    PROVE  FillEntry(F, kv, key, value).out \in Seq(PairsOf(V, H, T))
<1> DEFINE a == At(F, SigOf[T[2]], <<"str", key>>)
           b == At(F, SigOf[T[3]], value)
           rs == <<a, b>>
           r == Together(rs)
           whole == FillEntry(F, kv, key, value)
           outs == [i \in 1..2 |-> rs[i].out]
<1>1. whole = Enclose(r, 2, r.out)
  BY Zenon DEF FillEntry, At
<1> HIDE DEF whole, r
<1>2. r.ok /\ Len(r.out) = 2 /\ whole.out = <<r.out>>
  <2>1. Enclose(r, 2, r.out).ok
    BY <1>1 DEF whole
  <2> QED
    BY <1>1, <2>1, EncloseParts
<1> HIDE DEF a, b
<1>3. DOMAIN rs = 1..2 /\ rs[1] = a /\ rs[2] = b
  OBVIOUS
<1> HIDE DEF rs
<1>4. Joint(r, rs, 2)
  <2>1. ASSUME NEW n \in Nat, n = 2 PROVE Joint(Together(rs), rs, n)
    BY <1>3, <2>1, TogetherParts
  <2> QED
    BY <2>1 DEF r
<1>5. a.ok /\ b.ok /\ r.out = FlattenSeq(outs)
  BY <1>2, <1>3, <1>4 DEF Joint
<1>6. OneTyped(V, H, T[2], a.out)
  BY <1>5, KeyJson, FilledAlone DEF a
<1>7. OneTyped(V, H, T[3], b.out)
  BY <1>5, FilledAlone DEF b
<1>8. a.out \in Seq(V) /\ b.out \in Seq(V) /\ Len(a.out) <= 1 /\ Len(b.out) <= 1
  <2>1. \A P : Seq({v \in V : Says(H, P, v)}) \subseteq Seq(V)
    OBVIOUS
  <2>2. \A P, out : OneTyped(V, H, P, out) => out \in Seq(V) /\ Len(out) <= 1
    BY <2>1, OneTypedSeq
  <2> QED
    BY <1>6, <1>7, <2>2
<1>9. outs \in Seq(Seq(V)) /\ Len(outs) = 2 /\ outs[1] = a.out /\ outs[2] = b.out
  BY <1>3, <1>8
<1> HIDE DEF outs
<1>10. \A i \in 1..Len(outs) : Len(outs[i]) <= 1
  BY <1>8, <1>9
<1>11. OneEach(outs, r.out, Len(outs))
  BY <1>5, <1>9, <1>10, FlattenOneEach
<1>12. \A i \in 1..2 : Len(outs[i]) = 1 /\ r.out[i] = outs[i][1]
  BY <1>2, <1>9, <1>11 DEF OneEach
<1>13. Len(a.out) = 1 /\ r.out[1] = a.out[1] /\ Len(b.out) = 1 /\ r.out[2] = b.out[1]
  BY <1>9, <1>12
<1>14. r.out[1] \in V /\ Says(H, T[2], r.out[1])
  BY <1>6, <1>13 DEF OneTyped
<1>15. r.out[2] \in V /\ Says(H, T[3], r.out[2])
  BY <1>7, <1>13 DEF OneTyped
<1>16. r.out = <<r.out[1], r.out[2]>>
  <2>1. r.out \in Seq(V)
    BY <1>5, <1>9, FlattenType
  <2> QED
    BY <1>2, <2>1
<1>17. r.out \in PairsOf(V, H, T)
  BY <1>14, <1>15, <1>16 DEF PairsOf
<1> QED
  BY <1>2, <1>17 DEF whole

LEMMA DictContents ==
    ASSUME NEW V, NEW H, NEW T, NEW s \in Seq(PairsOf(V, H, T))
    PROVE  \A i \in DOMAIN s : Says(H, T[2], s[i][1]) /\ Says(H, T[3], s[i][2])
<1>1. \A i \in DOMAIN s : s[i] \in PairsOf(V, H, T)
  OBVIOUS
<1> QED
  BY <1>1 DEF PairsOf

IsDict(T) == T[1] = "{"

\* A dictionary holds an entry for each item.
LEMMA FillDictTyped ==
    ASSUME NEW F, NEW V, NEW H, Beneath(F, V, H), NEW T \in Types, IsDict(T),
           NEW j \in Jsons, FillOne(F, SigOf[T], j).ok
    PROVE  OneTyped(ValuesOver(V), TypedOver(H), T, FillOne(F, SigOf[T], j).out)
<1> DEFINE sig == SigOf[T]
           kv == Inner(Tail(sig))
           whole == FillOne(F, sig, j)
           items == Items(j)
           rs == [i \in DOMAIN items |-> FillEntry(F, kv, items[i][1], items[i][2])]
           r == Together(rs)
           S == PairsOf(V, H, T)
<1>1. DictOfType(sig, T) /\ T[2] \in Types /\ T[3] \in Types
  BY DictParts, Zenon DEF IsDict
<1>2. sig \in Seq(Chars) /\ Len(sig) > 1 /\ IsType(sig) /\ sig[2] = "{"
  BY <1>1, Zenon DEF DictOfType
<1>3. <<Head(kv)>> = SigOf[T[2]] /\ Tail(kv) = SigOf[T[3]]
  BY <1>1, Zenon DEF DictOfType
<1>4. whole = FillArray(F, sig, j)
  BY FillOneCases, Zenon DEF IsDict
<1>5. j[1] \in {"arr", "obj"} /\ whole = Enclose(r, Len(r.out), <<sig, r.out>>)
  <2>1. FillArray(F, sig, j) =
          IF j[1] \notin {"arr", "obj"} THEN Failed ELSE Enclose(r, Len(r.out), <<sig, r.out>>)
    BY <1>2, Zenon DEF FillArray
  <2> HIDE DEF whole, r
  <2>2. whole.ok
    BY DEF whole
  <2> QED
    BY <1>4, <2>1, <2>2 DEF Failed
<1>6. items \in Seq(Texts \X Jsons)
  BY <1>5, ItemsParts
<1> HIDE DEF sig, whole, items, kv
<1>7. r.ok /\ whole.out = <<<<sig, r.out>>>>
  <2>1. Enclose(r, Len(r.out), <<sig, r.out>>).ok
    BY <1>5, Zenon DEF whole, sig
  <2> HIDE DEF r
  <2> QED
    BY <1>5, <2>1, EncloseParts, Zenon
<1> DEFINE n == Len(items)
<1>8. n \in Nat /\ DOMAIN rs = 1..n /\ \A i \in 1..n : rs[i] = FillEntry(F, kv, items[i][1], items[i][2])
  <2>1. n \in Nat /\ DOMAIN items = 1..n
    BY <1>6
  <2> QED
    BY <2>1
<1>9. \A i \in 1..n : rs[i].ok
  BY <1>7, <1>8, TogetherParts DEF Joint
<1> DEFINE outs == [i \in 1..n |-> rs[i].out]
<1>10. r.out = FlattenSeq(outs)
  BY <1>7, <1>8, TogetherParts DEF Joint
<1> HIDE DEF r, rs, n
<1>11. ASSUME NEW i \in 1..n PROVE rs[i].out \in Seq(S)
  <2>1. items[i][1] \in Texts /\ items[i][2] \in Jsons
    BY <1>6 DEF n
  <2>2. FillEntry(F, kv, items[i][1], items[i][2]).ok
    BY <1>8, <1>9
  <2>3. FillEntry(F, kv, items[i][1], items[i][2]).out \in Seq(S)
    BY <1>1, <1>3, <2>1, <2>2, FillEntryTyped DEF Beneath
  <2> QED
    BY <1>8, <2>3
<1> HIDE DEF S
<1>12. outs \in Seq(Seq(S))
  BY <1>8, <1>11
<1> HIDE DEF outs
<1>13. r.out \in Seq(S)
  BY <1>10, <1>12, FlattenType
<1> DEFINE v == <<sig, r.out>>
<1>14. v[1] = sig /\ v[2] = r.out
  OBVIOUS
<1>15. v \in ValuesOver(V)
  <2>1. Seq(S) \subseteq Seq(V \X V)
    <3>1. S \subseteq V \X V
      BY DEF S, PairsOf
    <3> QED
      BY <3>1, SeqsGrow
  <2> QED
    BY <1>2, <1>13, <2>1, ContainerValue, Zenon
<1> HIDE DEF v
<1>16. SaysOf(H, T, v)
  <2>1. \A i \in DOMAIN r.out : Says(H, T[2], r.out[i][1]) /\ Says(H, T[3], r.out[i][2])
    BY <1>13, DictContents, Zenon DEF S
  <2>2. Contents(H, T, r.out)
    BY <2>1, Zenon DEF Contents, IsDict
  <2>3. v[1] = SigOf[T]
    BY <1>14 DEF sig
  <2> QED
    BY <1>14, <2>2, <2>3, SaysContainer
<1>17. OneTyped(ValuesOver(V), TypedOver(H), T, <<v>>)
  BY <1>15, <1>16, TypedValue DEF Beneath
<1> QED
  BY <1>7, <1>17 DEF whole, v, sig

\* A struct is complete with a value for each member.
LEMMA FillStructTyped ==
    ASSUME NEW F, NEW V, NEW H, Beneath(F, V, H), NEW T \in Types, T[1] = "(",
           NEW j \in Jsons, FillOne(F, SigOf[T], j).ok
    PROVE  OneTyped(ValuesOver(V), TypedOver(H), T, FillOne(F, SigOf[T], j).out)
<1> DEFINE sig == SigOf[T]
           Ts == T[2]
           whole == FillOne(F, sig, j)
           r == At(F, Flat(Ts), j)
           m == Len(split[Flat(Ts)].result)
<1>1. StructOfType(sig, T) /\ Ts \in Seq(Types) /\ Ts # <<>>
  BY StructParts
<1>2. sig \in Seq(Chars) /\ Len(sig) > 1 /\ sig[2] # "{" /\ Inner(sig) = Flat(Ts)
  BY <1>1, Zenon DEF StructOfType
<1>3. whole = FillStruct(F, sig, j)
  BY FillOneCases, Zenon
<1>4. whole = Enclose(r, m, <<sig, r.out>>)
  BY <1>2, <1>3, Zenon DEF FillStruct, At
<1> HIDE DEF sig, whole, r, m, Ts
<1>5. r.ok /\ Len(r.out) = m /\ whole.out = <<<<sig, r.out>>>>
  <2>1. Enclose(r, m, <<sig, r.out>>).ok
    BY <1>4, Zenon DEF whole, sig
  <2> QED
    BY <1>4, <2>1, EncloseParts, Zenon
<1>6. Filled(V, H, Ts, r)
  BY <1>1 DEF Beneath, FillsTyped, r
<1>7. AllWhole(Ts, Len(Ts)) /\ \E outs : OutsTyped(V, H, Ts, outs) /\ r.out = FlattenSeq(outs)
  BY <1>5, <1>6 DEF Filled
<1>8. PICK outs : OutsTyped(V, H, Ts, outs) /\ r.out = FlattenSeq(outs)
  BY <1>7
<1>9. m = Len(Ts)
  <2>1. split[Flat(Ts)] = [ok |-> TRUE, result |-> SigsOf(Ts)]
    BY <1>1, <1>7, PiecesWhole, Zenon
  <2>2. \A u, x : u = [ok |-> TRUE, result |-> x] => u.result = x
    OBVIOUS
  <2>3. split[Flat(Ts)].result = SigsOf(Ts)
    BY <2>1, <2>2, Zenon
  <2> QED
    BY <1>1, <2>3, SigsType, Zenon DEF m
<1>10. outs \in Seq(Seq(V)) /\ Len(outs) = Len(Ts) /\ \A i \in 1..Len(Ts) : OneTyped(V, H, Ts[i], outs[i])
  BY <1>8 DEF OutsTyped
<1>11. \A i \in 1..Len(outs) : Len(outs[i]) <= 1
  BY <1>10, OneTypedSeq
<1>12. OneEach(outs, r.out, Len(outs))
  BY <1>8, <1>10, <1>11, FlattenOneEach
<1>13. r.out \in Seq(V)
  BY <1>8, <1>10, FlattenType
<1>14. Len(r.out) = Len(Ts)
  BY <1>5, <1>9
<1>15. \A i \in 1..Len(Ts) : Len(outs[i]) = 1 /\ r.out[i] = outs[i][1]
  BY <1>10, <1>12, <1>14 DEF OneEach
<1>16. ASSUME NEW i \in 1..Len(Ts) PROVE Says(H, Ts[i], r.out[i])
  <2>1. OneTyped(V, H, Ts[i], outs[i]) /\ Len(outs[i]) = 1 /\ r.out[i] = outs[i][1]
    BY <1>10, <1>15
  <2> QED
    BY <2>1 DEF OneTyped
<1> DEFINE v == <<sig, r.out>>
<1>17. v[1] = sig /\ v[2] = r.out
  OBVIOUS
<1>18. v \in ValuesOver(V)
  BY <1>2, <1>13, ContainerValue, Zenon
<1> HIDE DEF v
<1>19. SaysOf(H, T, v)
  <2>1. \A i \in DOMAIN r.out : Says(H, Ts[i], r.out[i])
    BY <1>13, <1>14, <1>16
  <2>2. Contents(H, T, r.out)
    BY <1>14, <2>1, Zenon DEF Contents, Ts
  <2>3. v[1] = SigOf[T]
    BY <1>17 DEF sig
  <2> QED
    BY <1>17, <2>2, <2>3, SaysContainer
<1>20. OneTyped(ValuesOver(V), TypedOver(H), T, <<v>>)
  BY <1>18, <1>19, TypedValue DEF Beneath
<1> QED
  BY <1>5, <1>20 DEF whole, v, sig

\* One type that split() takes in one turn.
LEMMA FillOneTyped ==
    ASSUME NEW F, NEW V, NEW H, Beneath(F, V, H), NEW T \in Types, Whole(T),
           NEW j \in Jsons, FillOne(F, SigOf[T], j).ok
    PROVE  OneTyped(ValuesOver(V), TypedOver(H), T, FillOne(F, SigOf[T], j).out)
<1>1. \/ T[1] \in Ints \cup {"b", "d", "s"} \/ T[1] = "v" \/ T[1] = "h"
      \/ T[1] = "a" \/ T[1] = "(" \/ IsDict(T)
  BY Zenon DEF Whole, Basic, IsDict
<1>2. CASE T[1] \in Ints \cup {"b", "d", "s"}
  BY <1>2, FillSimple
<1>3. CASE T[1] = "v"
  BY <1>3, FillVariantTyped
<1>4. CASE T[1] = "h"
  <2>1. FillOne(F, SigOf[T], j) = Nothing
    BY ZenonT(60), <1>4, FillOneCases
  <2>2. T = <<"h">>
    <3>1. "h" \in Simple
      BY DEF Simple, Basic
    <3> QED
      BY <1>4, <3>1, TypeCases, Kinds, Zenon
  <2>3. FillOne(F, SigOf[T], j).out = <<>>
    BY <2>1 DEF Nothing
  <2> QED
    BY <2>2, <2>3 DEF OneTyped
<1>5. CASE T[1] = "a"
  BY <1>5, FillArrayTyped
<1>6. CASE T[1] = "("
  BY <1>6, FillStructTyped
<1>7. CASE IsDict(T)
  BY <1>7, FillDictTyped
<1> QED
  BY <1>1, <1>2, <1>3, <1>4, <1>5, <1>6, <1>7

\* sd-bus opens no array for the piece that an array of arrays begins with.
LEMMA BrokenRefused ==
    ASSUME NEW F, NEW j
    PROVE  FillOne(F, <<"a", "a">>, j) = Failed
<1> DEFINE sig == <<"a", "a">>
<1>1. Head(sig) = "a"
  OBVIOUS
<1>2. ~IsType(sig)
  BY NotTwoArrays DEF IsType
<1> HIDE DEF sig
<1>3. "a" \notin Ints
  BY DEF Ints, Signed, Unsigned
<1>4. FillOne(F, sig, j) = FillArray(F, sig, j)
  BY <1>1, <1>3 DEF FillOne
<1>5. FillArray(F, sig, j) = Failed
  BY <1>2, Zenon DEF FillArray
<1> QED
  BY <1>4, <1>5 DEF sig

\* What FillPieces comes to.
PiecesTo(F, pieces, j, r) ==
    /\ Len(pieces) = 1 => r = FillOne(F, pieces[1], j)
    /\ Len(pieces) > 1 /\ r.ok =>
         /\ j[1] = "arr" /\ Len(j[2]) = Len(pieces)
         /\ r = Together([i \in DOMAIN pieces |-> FillOne(F, pieces[i], j[2][i])])

LEMMA FillPiecesCases ==
    ASSUME NEW F, NEW sig, NEW j, NEW pieces, pieces # <<>>,
           split[sig].ok, split[sig].result = pieces, Len(pieces) \in Nat
    PROVE  PiecesTo(F, pieces, j, FillPieces(F, sig, j))
<1> DEFINE r == FillPieces(F, sig, j)
<1>1. ASSUME Len(pieces) = 1 PROVE r = FillOne(F, pieces[1], j)
  <2>1. ~(Len(pieces) > 1)
    BY <1>1
  <2> QED
    BY <1>1, <2>1 DEF FillPieces
<1>2. ASSUME Len(pieces) > 1
      PROVE  r = IF j[1] = "arr" /\ Len(j[2]) = Len(pieces)
                 THEN Together([i \in DOMAIN pieces |-> FillOne(F, pieces[i], j[2][i])])
                 ELSE Failed
  <2>1. \A m \in Nat : m > 1 => ~(m = 1)
    OBVIOUS
  <2>2. ~(Len(pieces) = 1)
    BY <1>2, <2>1, Zenon
  <2> QED
    BY <1>2, <2>2 DEF FillPieces
<1> HIDE DEF r
<1>3. ~Failed.ok
  BY DEF Failed
<1>4. PiecesTo(F, pieces, j, r)
  BY <1>1, <1>2, <1>3 DEF PiecesTo
<1> QED
  BY <1>4 DEF r

LEMMA SplitPieces ==
    ASSUME NEW s \in Seq(Chars)
    PROVE  split[s].result \in Seq(Seq(Chars))
<1>1. split[s] \in Results
  BY SplitTurns
<1> QED
  BY <1>1 DEF Results

\* Where it succeeds, split() took each type in one turn.
LEMMA FillWhole ==
    ASSUME NEW F, NEW Ts \in Seq(Types), Ts # <<>>, NEW j, FillPieces(F, Flat(Ts), j).ok
    PROVE  AllWhole(Ts, Len(Ts)) /\ split[Flat(Ts)].ok
<1> DEFINE sig == Flat(Ts)
           r == FillPieces(F, sig, j)
           pieces == split[sig].result
<1>1. split[sig].ok
  <2>1. ~Failed.ok
    BY DEF Failed
  <2> QED
    BY <2>1, Zenon DEF FillPieces
<1>2. SUFFICES ASSUME ~AllWhole(Ts, Len(Ts)) PROVE FALSE
  BY <1>1
<1>3. pieces \in Seq(Seq(Chars))
  BY SigsType, SplitPieces
<1>4. PICK k \in 1..Len(pieces) : pieces[k] = <<"a", "a">>
  BY <1>1, <1>2, NotWholeBroken, Zenon DEF Broken
<1> HIDE DEF sig, r, pieces
<1>5. pieces # <<>> /\ Len(pieces) \in Nat
  BY <1>3, <1>4
<1>6. PiecesTo(F, pieces, j, r)
  BY <1>1, <1>5, FillPiecesCases DEF pieces, r
<1>7. r.ok
  BY DEF r, sig
<1>8. ~Failed.ok
  BY DEF Failed
<1>9. CASE Len(pieces) = 1
  <2>1. k = 1 /\ r = FillOne(F, pieces[1], j)
    BY <1>4, <1>6, <1>9 DEF PiecesTo
  <2> QED
    BY <1>4, <1>7, <1>8, <2>1, BrokenRefused
<1>10. CASE Len(pieces) > 1
  <2> DEFINE rs == [i \in DOMAIN pieces |-> FillOne(F, pieces[i], j[2][i])]
  <2>1. r = Together(rs)
    BY <1>6, <1>7, <1>10 DEF PiecesTo
  <2>2. DOMAIN rs = 1..Len(pieces)
    BY <1>3
  <2>3. rs[k] = FillOne(F, pieces[k], j[2][k])
    BY <1>3
  <2> HIDE DEF rs
  <2>4. rs[k].ok
    BY <1>5, <1>7, <2>1, <2>2, TogetherParts DEF Joint
  <2> QED
    BY <1>4, <1>8, <2>3, <2>4, BrokenRefused
<1>11. Len(pieces) = 1 \/ Len(pieces) > 1
  <2>1. \A m \in Nat : \A i \in 1..m : m = 1 \/ m > 1
    OBVIOUS
  <2> QED
    BY <1>4, <1>5, <2>1, Zenon
<1> QED
  BY <1>9, <1>10, <1>11, Zenon

LEMMA FillPiecesTyped ==
    ASSUME NEW F, NEW V, NEW H, Beneath(F, V, H), NEW Ts \in Seq(Types), Ts # <<>>, NEW j \in Jsons
    PROVE  Filled(ValuesOver(V), TypedOver(H), Ts, FillPieces(F, Flat(Ts), j))
<1> DEFINE sig == Flat(Ts)
           r == FillPieces(F, sig, j)
           W == ValuesOver(V)
           I == TypedOver(H)
           pieces == SigsOf(Ts)
           n == Len(Ts)
<1>1. SUFFICES ASSUME r.ok PROVE Filled(W, I, Ts, r)
  BY DEF Filled
<1>2. AllWhole(Ts, n) /\ split[sig].ok
  BY <1>1, FillWhole
<1>3. split[sig].result = pieces
  <2>1. split[sig] = [ok |-> TRUE, result |-> pieces]
    BY <1>2, PiecesWhole, Zenon
  <2>2. \A u, x : u = [ok |-> TRUE, result |-> x] => u.result = x
    OBVIOUS
  <2> QED
    BY <2>1, <2>2, Zenon
<1>4. /\ Len(pieces) = n /\ n \in Nat /\ n >= 1 /\ DOMAIN pieces = 1..n
      /\ \A i \in 1..n : pieces[i] = SigOf[Ts[i]] /\ Ts[i] \in Types /\ Whole(Ts[i])
  <2>1. pieces \in Seq(Seq(Chars)) /\ Len(pieces) = n /\ \A i \in 1..n : pieces[i] = SigOf[Ts[i]]
    BY SigsType
  <2>2. n \in Nat /\ n >= 1 /\ \A i \in 1..n : Ts[i] \in Types
    OBVIOUS
  <2>3. \A i \in 1..n : Whole(Ts[i])
    BY <1>2 DEF AllWhole
  <2> HIDE DEF pieces, n
  <2>4. DOMAIN pieces = 1..n
    BY <2>1
  <2> QED
    BY <2>1, <2>2, <2>3, <2>4
<1> HIDE DEF sig, r, pieces, W, I, n
<1>5. PiecesTo(F, pieces, j, r)
  <2>1. pieces # <<>>
    BY <1>4
  <2> QED
    BY <1>2, <1>3, <1>4, <2>1, FillPiecesCases DEF r
<1>6. ASSUME NEW i \in 1..n, NEW k \in Jsons, FillOne(F, pieces[i], k).ok
      PROVE  OneTyped(W, I, Ts[i], FillOne(F, pieces[i], k).out)
  <2>1. Ts[i] \in Types /\ Whole(Ts[i]) /\ pieces[i] = SigOf[Ts[i]]
    BY <1>4
  <2>2. FillOne(F, SigOf[Ts[i]], k).ok
    BY <1>6, <2>1
  <2>3. OneTyped(W, I, Ts[i], FillOne(F, SigOf[Ts[i]], k).out)
    BY <2>1, <2>2, FillOneTyped DEF W, I
  <2> QED
    BY <2>1, <2>3
<1>7. ASSUME NEW outs, DOMAIN outs = 1..n, outs = [i \in 1..n |-> outs[i]], r.out = FlattenSeq(outs),
             \A i \in 1..n : OneTyped(W, I, Ts[i], outs[i])
      PROVE  Filled(W, I, Ts, r)
  <2>1. \A i \in 1..n : outs[i] \in Seq(W)
    <3>1. \A P : Seq({v \in W : Says(I, P, v)}) \subseteq Seq(W)
      OBVIOUS
    <3> QED
      BY <1>7, <3>1, OneTypedSeq
  <2>2. outs \in Seq(Seq(W)) /\ Len(outs) = n
    BY <1>4, <1>7, <2>1
  <2>3. OutsTyped(W, I, Ts, outs)
    BY <1>7, <2>2 DEF OutsTyped, n
  <2> QED
    BY <1>2, <1>7, <2>3 DEF Filled, n
<1>8. CASE n = 1
  <2>1. r = FillOne(F, pieces[1], j) /\ 1 \in 1..n
    BY <1>4, <1>5, <1>8 DEF PiecesTo
  <2>2. OneTyped(W, I, Ts[1], r.out)
    BY <1>1, <1>6, <2>1 DEF r
  <2> DEFINE outs == <<r.out>>
  <2>3. DOMAIN outs = 1..n /\ outs = [i \in 1..n |-> outs[i]] /\ outs[1] = r.out
    BY <1>8
  <2>4. r.out = FlattenSeq(outs)
    <3>1. r.out \in Seq({v \in W : Says(I, Ts[1], v)})
      BY <2>2, OneTypedSeq
    <3> QED
      BY <3>1, FlattenAlone
  <2> HIDE DEF outs
  <2> QED
    BY <1>7, <1>8, <2>2, <2>3, <2>4
<1>9. CASE n > 1
  <2> DEFINE rs == [i \in DOMAIN pieces |-> FillOne(F, pieces[i], j[2][i])]
             outs == [i \in 1..n |-> rs[i].out]
  <2>1. r = Together(rs) /\ j[1] = "arr" /\ Len(j[2]) = n
    BY <1>1, <1>4, <1>5, <1>9 DEF PiecesTo, r
  <2>2. \A i \in 1..n : j[2][i] \in Jsons
    BY <1>4, <2>1, JsonParts
  <2>3. DOMAIN rs = 1..n /\ \A i \in 1..n : rs[i] = FillOne(F, pieces[i], j[2][i])
    BY <1>4
  <2> HIDE DEF rs
  <2>4. (\A i \in 1..n : rs[i].ok) /\ r.out = FlattenSeq(outs)
    BY <1>1, <1>4, <2>1, <2>3, TogetherParts DEF Joint, r
  <2>5. \A i \in 1..n : OneTyped(W, I, Ts[i], rs[i].out)
    BY <1>6, <2>2, <2>3, <2>4
  <2>6. DOMAIN outs = 1..n /\ outs = [i \in 1..n |-> outs[i]] /\ \A i \in 1..n : outs[i] = rs[i].out
    OBVIOUS
  <2> HIDE DEF outs
  <2> QED
    BY <1>7, <2>4, <2>5, <2>6
<1>10. Filled(W, I, Ts, r)
  BY <1>4, <1>8, <1>9
<1> QED
  BY <1>10

-----------------------------------------------------------------------------
(* Every level of the conversion *)

FillBottom == [arg \in Seq(Chars) \X Jsons |-> Failed]
TypedBottom == [tv \in Types \X Values |-> FALSE]

LEMMA BottomTyped == FillsTyped(FillBottom, {}, TypedBottom)
<1>1. ASSUME NEW sig \in Seq(Chars), NEW j \in Jsons PROVE At(FillBottom, sig, j) = Failed
  <2>1. <<sig, j>> \in Seq(Chars) \X Jsons
    OBVIOUS
  <2>2. FillBottom[<<sig, j>>] = Failed
    BY <2>1 DEF FillBottom
  <2>3. FillBottom[sig, j] = FillBottom[<<sig, j>>]
    BY Zenon
  <2> QED
    BY <2>2, <2>3, Zenon DEF At
<1>2. ~Failed.ok
  BY DEF Failed
<1>3. ASSUME NEW Ts \in Seq(Types), NEW j \in Jsons
      PROVE  Filled({}, TypedBottom, Ts, At(FillBottom, Flat(Ts), j))
  <2>1. Flat(Ts) \in Seq(Chars)
    BY SigsType
  <2> QED
    BY <1>1, <1>2, <2>1 DEF Filled
<1> QED
  BY <1>3 DEF FillsTyped

LEMMA LevelTyped ==
    ASSUME NEW F, NEW V, NEW H, Beneath(F, V, H)
    PROVE  FillsTyped(FillAny(F), ValuesOver(V), TypedOver(H))
<1>1. ASSUME NEW Ts \in Seq(Types), Ts # <<>>, NEW j \in Jsons
      PROVE  Filled(ValuesOver(V), TypedOver(H), Ts, At(FillAny(F), Flat(Ts), j))
  <2>1. At(FillAny(F), Flat(Ts), j) = FillPieces(F, Flat(Ts), j)
    BY SigsType, AtOver
  <2>2. Filled(ValuesOver(V), TypedOver(H), Ts, FillPieces(F, Flat(Ts), j))
    BY <1>1, FillPiecesTyped
  <2> QED
    BY <2>1, <2>2
<1>2. ASSUME NEW T \in Types, NEW v \in ValuesOver(V), Says(TypedOver(H), T, v)
      PROVE  v[1] = SigOf[T]
  <2>1. v \in Values
    BY DEF Beneath
  <2>2. SaysOf(H, T, v)
    BY <1>2, <2>1, SaysOver
  <2> QED
    BY <2>2, Zenon DEF SaysOf
<1> QED
  BY <1>1, <1>2 DEF FillsTyped

\* Whatever the signature and the JSON, what is appended has the types.
LEMMA FillLevelsTyped == \A n \in 0..Nesting : FillsTyped(FillMessage[n], ValuesWithin[n], HasType[n])
<1> DEFINE Good(n) == FillsTyped(FillMessage[n], ValuesWithin[n], HasType[n])
           S == {n \in 0..Nesting : Good(n)}
<1>1. Nesting \in Nat
  BY DataAssumption
<1>2. 0 \in S
  <2>1. /\ FillMessage[0] = FillAny(FillBottom) /\ HasType[0] = TypedOver(TypedBottom)
        /\ ValuesWithin[0] = ValuesOver({})
    <3>1. \A n \in Nat : n = 0 => FillMessage[n] = FillAny(FillBottom)
      BY FillMessageLevels, Zenon DEF FillBottom
    <3>2. \A n \in Nat : n = 0 => HasType[n] = TypedOver(TypedBottom)
      BY HasTypeLevels, Zenon DEF TypedBottom
    <3>3. \A n \in Nat : n = 0 => ValuesWithin[n] = ValuesOver({})
      BY ValuesWithinLevels, Zenon
    <3>4. \E n \in Nat : n = 0
      OBVIOUS
    <3> QED
      BY <3>1, <3>2, <3>3, <3>4, Zenon
  <2>2. ValuesWithin[0] \subseteq Values
    <3>1. \A n \in 0..Nesting : ValuesWithin[n] \subseteq Values
      BY ValuesBelow
    <3> QED
      BY <1>1, <3>1
  <2>3. Beneath(FillBottom, {}, TypedBottom)
    BY <2>1, <2>2, BottomTyped DEF Beneath
  <2>4. Good(0)
    BY <2>1, <2>3, LevelTyped
  <2> HIDE DEF Good
  <2> QED
    BY <1>1, <2>4
<1>3. ASSUME NEW n \in 1..Nesting, n - 1 \in S PROVE n \in S
  <2>1. /\ FillMessage[n] = FillAny(FillMessage[n - 1]) /\ HasType[n] = TypedOver(HasType[n - 1])
        /\ ValuesWithin[n] = ValuesOver(ValuesWithin[n - 1])
    <3>1. n \in Nat /\ n # 0
      BY <1>1
    <3> QED
      BY <3>1, FillMessageLevels, HasTypeLevels, ValuesWithinLevels, Zenon
  <2>2. n \in 0..Nesting
    BY <1>1
  <2>3. ValuesWithin[n] \subseteq Values
    BY <2>2, ValuesBelow
  <2>4. Beneath(FillMessage[n - 1], ValuesWithin[n - 1], HasType[n - 1])
    BY <1>3, <2>1, <2>3 DEF Beneath
  <2>5. Good(n)
    BY <2>1, <2>4, LevelTyped
  <2> HIDE DEF Good
  <2> QED
    BY <2>2, <2>5
<1> HIDE DEF S
<1>4. 0..Nesting \subseteq S
  BY <1>1, <1>2, <1>3, InductionUpTo
<1>5. \A n \in 0..Nesting : Good(n)
  <2> HIDE DEF Good
  <2> QED
    BY <1>4 DEF S
<1> QED
  BY <1>5

LEMMA FillMessageTyped == FillsTyped(FillMessage[Nesting], Values, HasType[Nesting])
<1>1. Nesting \in 0..Nesting
  BY DataAssumption
<1> QED
  BY <1>1, FillLevelsTyped DEF Values

-----------------------------------------------------------------------------
(* The message *)

\* outs are what was appended for each argument.
ArgsFilled(outs) ==
    /\ OutsTyped(Values, HasType[Nesting], call.in, outs)
    /\ \A i \in 1..Len(call.in) :
         /\ i \in DOMAIN call.request
         /\ At(FillMessage[Nesting], SigOf[call.in[i]], call.request[i]).ok
         /\ outs[i] = At(FillMessage[Nesting], SigOf[call.in[i]], call.request[i]).out

PayloadInv ==
    /\ stage \in {"request", "refused", "sent", "failed", "replied", "answered", "unreadable"}
    /\ message = <<>> \/ (FillMethod.ok /\ message = FillMethod.out)

LEMMA PayloadInvAlways == PayloadSpec => []PayloadInv
<1>1. PayloadInit => PayloadInv
  BY DEF PayloadInit, PayloadInv
<1>2. PayloadInv /\ [PayloadNext]_vars => PayloadInv'
  <2> SUFFICES ASSUME PayloadInv, [PayloadNext]_vars PROVE PayloadInv'
    OBVIOUS
  <2>1. call' = call => FillMethod' = FillMethod
    BY DEF FillMethod
  <2>2. CASE FillArgs
    BY <2>1, <2>2 DEF FillArgs, PayloadInv
  <2>3. CASE RefuseArgs
    BY <2>1, <2>3 DEF RefuseArgs, PayloadInv
  <2>4. CASE Serve
    BY <2>1, <2>4 DEF Serve, PayloadInv
  <2>5. CASE ServeError
    BY <2>1, <2>5 DEF ServeError, PayloadInv
  <2>6. CASE ExtractArgs
    BY <2>1, <2>6 DEF ExtractArgs, PayloadInv
  <2>7. CASE FailOnReply
    BY <2>1, <2>7 DEF FailOnReply, PayloadInv
  <2>8. CASE UNCHANGED vars
    BY <2>1, <2>8 DEF vars, PayloadInv
  <2> QED
    BY <2>2, <2>3, <2>4, <2>5, <2>6, <2>7, <2>8 DEF PayloadNext
<1> QED
  BY <1>1, <1>2, PTL DEF PayloadSpec

LEMMA MethodFilled ==
    ASSUME InCalls, FillMethod.ok
    PROVE  \E outs : ArgsFilled(outs) /\ FillMethod.out = FlattenSeq(outs)
<1> DEFINE n == Len(call.in)
           F == FillMessage[Nesting]
           arg(i) == At(F, SigOf[call.in[i]], call.request[i])
           rs == [i \in DOMAIN call.in |-> IF i \in DOMAIN call.request THEN arg(i) ELSE Failed]
           outs == [i \in 1..n |-> rs[i].out]
<1>1. call.in \in Seq(Types) /\ call.request \in Seq(Jsons)
  BY InputsAssumption DEF InCalls, CallsAssumption
<1>2. FillMethod = Together(rs)
  BY Zenon DEF FillMethod, At
<1> HIDE DEF arg
<1>3. n \in Nat /\ DOMAIN call.in = 1..n
  BY <1>1
<1>4. DOMAIN rs = 1..n /\ \A i \in 1..n : rs[i] = IF i \in DOMAIN call.request THEN arg(i) ELSE Failed
  BY <1>3
<1> HIDE DEF rs, n
<1>5. (\A i \in 1..n : rs[i].ok) /\ FillMethod.out = FlattenSeq(outs)
  BY <1>2, <1>3, <1>4, TogetherParts DEF Joint
<1>6. \A i \in 1..n : i \in DOMAIN call.request /\ rs[i] = arg(i) /\ arg(i).ok
  BY <1>4, <1>5 DEF Failed
<1>7. ASSUME NEW i \in 1..n PROVE OneTyped(Values, HasType[Nesting], call.in[i], arg(i).out)
  <2>1. call.in[i] \in Types
    BY <1>1 DEF n
  <2>2. call.request[i] \in Jsons
    BY <1>1, <1>6
  <2>3. arg(i).ok
    BY <1>6
  <2> QED
    BY <2>1, <2>2, <2>3, FillMessageTyped, FilledAlone DEF arg
<1>8. DOMAIN outs = 1..n /\ \A i \in 1..n : outs[i] = arg(i).out /\ outs[i] \in Seq(Values)
  <2>1. \A i \in 1..n : outs[i] = arg(i).out
    BY <1>6
  <2>2. \A P : Seq({v \in Values : Says(HasType[Nesting], P, v)}) \subseteq Seq(Values)
    OBVIOUS
  <2>3. \A i \in 1..n : arg(i).out \in Seq(Values)
    BY <1>7, <2>2, OneTypedSeq
  <2> QED
    BY <2>1, <2>3
<1>9. outs \in Seq(Seq(Values)) /\ Len(outs) = n
  BY <1>3, <1>8
<1> HIDE DEF outs
<1>10. OutsTyped(Values, HasType[Nesting], call.in, outs)
  BY <1>7, <1>8, <1>9 DEF OutsTyped, n
<1>11. ArgsFilled(outs)
  BY <1>6, <1>8, <1>10 DEF ArgsFilled, arg, n
<1> QED
  BY <1>5, <1>11

\* Whatever JSON the client sends, each argument in the message is a value of the
\* type that the method declares, unless a file descriptor is among them.
THEOREM MessageTypedAlways == PayloadSpec => []MessageTyped
<1>1. InCalls /\ PayloadInv => MessageTyped
  <2> SUFFICES ASSUME InCalls, PayloadInv, message # <<>>,
                      \A i \in DOMAIN call.in : call.in[i] # <<"h">>
               PROVE  HaveTypes(call.in, message)
    BY DEF MessageTyped, PayloadInv
  <2> DEFINE n == Len(call.in)
             H == HasType[Nesting]
  <2>1. call.in \in Seq(Types)
    BY InputsAssumption DEF InCalls, CallsAssumption
  <2>2. PICK outs : ArgsFilled(outs) /\ message = FlattenSeq(outs)
    BY MethodFilled DEF PayloadInv
  <2>3. n \in Nat /\ DOMAIN call.in = 1..n
    BY <2>1
  <2>4. outs \in Seq(Seq(Values)) /\ Len(outs) = n /\ \A i \in 1..n : OneTyped(Values, H, call.in[i], outs[i])
    BY <2>2 DEF ArgsFilled, OutsTyped
  <2>5. ASSUME NEW i \in 1..n
        PROVE  \E v \in Values : outs[i] = <<v>> /\ Says(H, call.in[i], v)
    BY <2>3, <2>4 DEF OneTyped
  <2> HIDE DEF n, H
  <2>6. \A i \in 1..n : Len(outs[i]) = 1 /\ Says(H, call.in[i], outs[i][1])
    <3>1. \A v : Len(<<v>>) = 1 /\ <<v>>[1] = v
      OBVIOUS
    <3> QED
      BY <2>5, <3>1, ZenonT(40)
  <2>7. OneEach(outs, message, n)
    <3>1. \A i \in 1..n : Len(outs[i]) <= 1
      <4>1. \A k : k = 1 => k <= 1
        OBVIOUS
      <4> QED
        BY <2>6, <4>1, Zenon
    <3>2. \A i \in 1..Len(outs) : Len(outs[i]) <= 1
      BY <2>4, <3>1, Zenon
    <3> QED
      BY <2>2, <2>4, <3>2, FlattenOneEach
  <2>8. Len(message) = n /\ \A i \in 1..n : message[i] = outs[i][1]
    BY <2>6, <2>7 DEF OneEach
  <2>9. DOMAIN message = 1..n
    <3>1. message \in Seq(Values)
      BY <2>2, <2>4, FlattenType
    <3> QED
      BY <2>8, <3>1
  <2>10. \A i \in 1..n : H[call.in[i], message[i]]
    BY <2>6, <2>8, Zenon DEF Says
  <2> QED
    BY <2>8, <2>9, <2>10, Zenon DEF HaveTypes, n, H
<1> QED
  BY <1>1, InCallsAlways, PayloadInvAlways, PTL

-----------------------------------------------------------------------------
(* Arguments that are texts *)

\* s has at its i-th place what ss[i] holds.
InPlace(ss, s, i) == Len(s) >= i /\ s[i] = ss[i][1]

LEMMA JoinInPlace ==
    ASSUME NEW S, NEW ss \in Seq(Seq(S)), NEW i \in 1..Len(ss), NEW s \in Seq(S), NEW t \in Seq(S),
           InPlace(ss, s, i)
    PROVE  InPlace(ss, join(s, t), i)
<1> DEFINE u == join(s, t)
<1>1. Len(s) \in Nat /\ Len(t) \in Nat /\ i \in Nat /\ i >= 1
  OBVIOUS
<1>2. Joined(u, s, t)
  BY JoinJoined
<1>3. i \in 1..Len(s) /\ s[i] = ss[i][1]
  BY <1>1 DEF InPlace
<1> HIDE DEF u
<1>4. u[i] = s[i] /\ Len(u) >= i
  BY <1>1, <1>2, <1>3 DEF Joined
<1> QED
  BY <1>3, <1>4 DEF InPlace, u

LEMMA LastInPlace ==
    ASSUME NEW S, NEW ss \in Seq(Seq(S)), NEW i \in 1..Len(ss), Len(ss[i]) = 1,
           NEW s \in Seq(S), Len(s) = i - 1
    PROVE  InPlace(ss, join(s, ss[i]), i) /\ Len(join(s, ss[i])) = i
<1> DEFINE t == ss[i]
           u == join(s, t)
<1>1. t \in Seq(S) /\ Len(t) = 1 /\ i \in Nat
  OBVIOUS
<1> HIDE DEF t
<1>2. Joined(u, s, t)
  BY <1>1, JoinJoined
<1> HIDE DEF u
<1>3. Len(u) = i
  BY <1>1, <1>2 DEF Joined
<1>4. u[(i - 1) + 1] = t[1]
  BY <1>1, <1>2 DEF Joined
<1>5. u[i] = t[1]
  BY <1>1, <1>4
<1> QED
  BY <1>1, <1>3, <1>5 DEF InPlace, u, t

\* Where all up to the i-th hold one thing, that of the i-th is at the i-th place.
LEMMA FlattenFirst ==
    ASSUME NEW S, NEW ss \in Seq(Seq(S)), NEW i \in 1..Len(ss), \A k \in 1..i : Len(ss[k]) = 1
    PROVE  InPlace(ss, FlattenSeq(ss), i)
<1> DEFINE n == Len(ss)
<1>1. PICK g \in [0..n -> Seq(S)] : Builds(ss, g)
  BY BuildsExist
<1>2. n \in Nat /\ i \in Nat /\ i >= 1 /\ i <= n
  OBVIOUS
<1>3. g[0] = <<>> /\ \A k \in 1..n : g[k] = join(g[k - 1], ss[k])
  BY <1>1 DEF Builds
<1>4. (\A m \in 0..n : g[m] \in Seq(S)) /\ \A m \in 1..n : ss[m] \in Seq(S)
  <2>1. \A m \in 0..n : g[m] \in Seq(S)
    BY <1>1
  <2>2. \A m \in 1..n : ss[m] \in Seq(S)
    OBVIOUS
  <2> QED
    BY <2>1, <2>2
<1> DEFINE T == {k \in 0..i : Len(g[k]) = k}
<1>5. 0 \in T
  BY <1>2, <1>3
<1>6. ASSUME NEW k \in 1..i PROVE k \in 1..n /\ k - 1 \in 0..n /\ g[k - 1] \in Seq(S) /\ Len(ss[k]) = 1
  <2>1. k \in 1..n /\ k - 1 \in 0..n
    BY <1>2
  <2> QED
    BY <1>4, <2>1, Zenon
<1>7. ASSUME NEW k \in 1..i, k - 1 \in T PROVE k \in T
  <2>1. k \in 1..n /\ g[k - 1] \in Seq(S) /\ Len(ss[k]) = 1 /\ Len(g[k - 1]) = k - 1
    BY <1>6, <1>7
  <2>2. g[k] = join(g[k - 1], ss[k])
    BY <1>3, <2>1
  <2>3. Len(g[k]) = k
    BY <2>1, <2>2, LastInPlace
  <2> QED
    BY <1>2, <2>3
<1> HIDE DEF T
<1>8. 0..i \subseteq T
  BY <1>2, <1>5, <1>7, InductionUpTo
<1>9. InPlace(ss, g[i], i)
  <2>1. i - 1 \in T /\ i \in 1..i
    BY <1>2, <1>8
  <2>2. Len(g[i - 1]) = i - 1
    BY <2>1 DEF T
  <2>3. g[i - 1] \in Seq(S) /\ Len(ss[i]) = 1
    BY <1>6, <2>1
  <2>4. g[i] = join(g[i - 1], ss[i])
    BY <1>3
  <2> QED
    BY <2>2, <2>3, <2>4, LastInPlace
<1> DEFINE U == {m \in 0..n - i : InPlace(ss, g[i + m], i)}
<1>10. 0 \in U /\ n - i \in Nat
  BY <1>2, <1>9
<1>11. ASSUME NEW m \in 1..n - i, m - 1 \in U PROVE m \in U
  <2> DEFINE k == i + m
  <2>1. k \in 1..n /\ k - 1 \in 0..n /\ i + (m - 1) = k - 1 /\ m \in 0..n - i
    BY <1>2
  <2>2. InPlace(ss, g[k - 1], i)
    BY <1>11, <2>1
  <2> HIDE DEF k
  <2>3. g[k] = join(g[k - 1], ss[k]) /\ g[k - 1] \in Seq(S) /\ ss[k] \in Seq(S)
    BY <1>3, <1>4, <2>1, Zenon
  <2>4. InPlace(ss, g[k], i)
    BY <2>2, <2>3, JoinInPlace
  <2> QED
    BY <2>1, <2>4 DEF k
<1> HIDE DEF U
<1>12. 0..n - i \subseteq U
  BY <1>10, <1>11, InductionUpTo
<1>13. n - i \in U
  <2>1. n - i \in 0..n - i
    BY <1>10
  <2> QED
    BY <1>12, <2>1, Zenon
<1>14. InPlace(ss, g[n], i)
  <2>1. i + (n - i) = n
    BY <1>2
  <2> QED
    BY <1>13, <2>1 DEF U
<1> QED
  BY <1>1, <1>14, FlattenBuilt

\* The conversion of a simple type does not go deeper.
LEMMA FillSimpleAt ==
    ASSUME NEW T \in Types, T[1] \in Ints, NEW j \in Jsons
    PROVE  At(FillMessage[Nesting], SigOf[T], j) = AppendIntegerFromJson(T[1], j)
<1> DEFINE sig == SigOf[T]
<1>1. PICK F : FillMessage[Nesting] = FillAny(F)
  BY DataAssumption, FillMessageLevels, Zenon
<1>2. At(FillMessage[Nesting], sig, j) = FillPieces(F, sig, j)
  BY <1>1, SigType, AtOver
<1>3. Whole(T)
  BY ZenonT(60), Kinds DEF Whole
<1>4. <<T>> \in Seq(Types) /\ Flat(<<T>>) = sig
  BY FlatAlone
<1>5. AllWhole(<<T>>, Len(<<T>>))
  BY <1>3 DEF AllWhole
<1>6. split[sig] = [ok |-> TRUE, result |-> SigsOf(<<T>>)]
  BY <1>4, <1>5, PiecesWhole
<1> HIDE DEF sig
<1>7. SigsOf(<<T>>) # <<>> /\ Len(SigsOf(<<T>>)) = 1 /\ SigsOf(<<T>>)[1] = sig
  <2> DEFINE Ts == <<T>>
  <2>1. Ts \in Seq(Types) /\ Len(Ts) = 1 /\ Ts[1] = T
    BY <1>4
  <2> HIDE DEF Ts
  <2>2. SigsOf(Ts) \in Seq(Seq(Chars)) /\ Len(SigsOf(Ts)) = Len(Ts) /\ \A i \in 1..Len(Ts) : SigsOf(Ts)[i] = SigOf[Ts[i]]
    BY <2>1, SigsType
  <2>3. Len(SigsOf(Ts)) = 1 /\ SigsOf(Ts)[1] = SigOf[T]
    BY <2>1, <2>2
  <2>4. SigsOf(Ts) # <<>>
    BY <2>3, SMTT(30)
  <2> QED
    BY <2>3, <2>4 DEF Ts, sig
<1>8. PiecesTo(F, SigsOf(<<T>>), j, FillPieces(F, sig, j))
  BY <1>6, <1>7, FillPiecesCases
<1>9. FillPieces(F, sig, j) = FillOne(F, sig, j)
  BY <1>7, <1>8 DEF PiecesTo
<1>10. FillOne(F, sig, j) = AppendIntegerFromJson(T[1], j)
  BY ZenonT(60), FillOneCases DEF sig
<1> QED
  BY <1>2, <1>9, <1>10 DEF sig

\* A text for an integer arrives as the number it begins with, plus 2^64 when
\* uint64_t is given a negative one, or is refused.
THEOREM StringsCheckedAlways == PayloadSpec => []StringsChecked
<1>1. InCalls /\ PayloadInv => StringsChecked
  <2> SUFFICES ASSUME InCalls, PayloadInv, NEW i \in DOMAIN message,
                      \A k \in 1..i : call.in[k] # <<"h">>,
                      call.in[i][1] \in Ints, call.request[i][1] = "str"
               PROVE  /\ call.request[i][2][1] \in Numeric
                      /\ message[i][2] = IF call.in[i][1] = "t" /\ call.request[i][2][2] < 0
                                         THEN call.request[i][2][2] + 2 ^ Width[call.in[i][1]]
                                         ELSE call.request[i][2][2]
    BY Zenon DEF StringsChecked
  <2> DEFINE n == Len(call.in)
             H == HasType[Nesting]
             T == call.in[i]
             j == call.request[i]
  <2>1. call.in \in Seq(Types) /\ call.request \in Seq(Jsons)
    BY InputsAssumption DEF InCalls, CallsAssumption
  <2>2. PICK outs : ArgsFilled(outs) /\ message = FlattenSeq(outs)
    BY MethodFilled DEF PayloadInv
  <2>3. outs \in Seq(Seq(Values)) /\ Len(outs) = n /\ \A k \in 1..n : OneTyped(Values, H, call.in[k], outs[k])
    BY <2>2 DEF ArgsFilled, OutsTyped
  <2>4. OneEach(outs, message, n) /\ message \in Seq(Values)
    <3>1. \A k \in 1..Len(outs) : Len(outs[k]) <= 1
      BY <2>3, OneTypedSeq
    <3> QED
      BY <2>2, <2>3, <3>1, FlattenOneEach, FlattenType
  <2>5. n \in Nat /\ i \in 1..n
    BY <2>1, <2>4 DEF OneEach
  <2>6. T \in Types /\ j \in Jsons /\ At(FillMessage[Nesting], SigOf[T], j).ok
        /\ outs[i] = At(FillMessage[Nesting], SigOf[T], j).out
    <3>1. i \in DOMAIN call.request
      BY <2>2, <2>5 DEF ArgsFilled
    <3>2. T \in Types /\ j \in Jsons
      BY <2>1, <2>5, <3>1
    <3> QED
      BY <2>2, <2>5, <3>2 DEF ArgsFilled
  <2>7. \A k \in 1..i : Len(outs[k]) = 1
    <3>1. ASSUME NEW k \in 1..i PROVE \E v : outs[k] = <<v>>
      <4>1. k \in 1..n
        BY <2>5
      <4> QED
        BY <2>3, <4>1 DEF OneTyped
    <3>2. \A v : Len(<<v>>) = 1
      OBVIOUS
    <3> QED
      BY <3>1, <3>2, Zenon
  <2>8. message[i] = outs[i][1]
    <3>1. i \in 1..Len(outs)
      BY <2>3, <2>5
    <3> QED
      BY <2>2, <2>3, <2>7, <3>1, FlattenFirst DEF InPlace
  <2> DEFINE c == T[1]
             num == j[2][2]
  <2> HIDE DEF T, j, n, H
  <2>9. c \in Ints /\ j[1] = "str"
    BY DEF T, j
  <2> DEFINE r == AppendIntegerFromJson(c, j)
  <2>10. r.ok /\ outs[i] = r.out
    BY <2>6, <2>9, FillSimpleAt
  <2> HIDE DEF c
  <2>11. j[2][1] \in Numeric /\ num \in LongLong /\ InLimits(c, num) /\ r = WroteInteger(c, num)
    <3>1. r = IF j[2][1] \in Numeric /\ num \in LongLong /\ InLimits(c, num)
              THEN WroteInteger(c, num) ELSE Failed
      BY <2>9 DEF AppendIntegerFromJson
    <3> HIDE DEF r
    <3> QED
      BY <2>10, <3>1 DEF Failed
  <2>12. num \in Int
    <3>1. j[2] \in Texts
      BY <2>6, <2>9, JsonParts
    <3>2. \A t \in Texts : t[1] \in Numeric => t[2] \in Int
      BY DEF Texts, Numeric
    <3> QED
      BY <2>11, <3>1, <3>2
  <2> HIDE DEF num, r
  <2>13. static_cast(c, num) = IF c = "t" /\ num < 0 THEN num + 2 ^ Width[c] ELSE num
    <3>1. CASE c = "t"
      BY <2>11, <3>1, LongCast
    <3>2. CASE c # "t"
      <4>1. num \in Low(c)..High(c)
        BY <2>11, <3>2 DEF InLimits
      <4> QED
        BY <2>9, <2>12, <3>2, <4>1, CastInRange
    <3> QED
      BY <3>1, <3>2
  <2>14. outs[i][1][2] = static_cast(c, num)
    BY <2>10, <2>11 DEF WroteInteger, Wrote
  <2>15. message[i][2] = IF c = "t" /\ num < 0 THEN num + 2 ^ Width[c] ELSE num
    BY <2>8, <2>13, <2>14
  <2> QED
    BY <2>11, <2>15 DEF num, j, c, T
<1> QED
  BY <1>1, InCallsAlways, PayloadInvAlways, PTL

-----------------------------------------------------------------------------
(* The levels of the way back *)

ReadLevels == INSTANCE Levels WITH
    Level <- ExtractAny, Bottom <- [arg \in BOOLEAN \X Seq(Chars) \X Seq(Values) |-> Unread]
PlainLevels == INSTANCE Levels WITH
    Level <- PlainOver, Bottom <- [tv \in Types \X Values |-> FALSE]
JsonOfLevels == INSTANCE Levels WITH
    Level <- JsonOver, Bottom <- [tvb \in Types \X Values \X BOOLEAN |-> Null]

LEMMA ExtractMessageLevels ==
    \A n \in Nat : ExtractMessage[n] =
      ExtractAny(IF n = 0 THEN [arg \in BOOLEAN \X Seq(Chars) \X Seq(Values) |-> Unread]
                 ELSE ExtractMessage[n - 1])
  BY ReadLevels!LevelOfLevel DEF ExtractMessage

LEMMA PlainLevelled ==
    \A n \in Nat : Plain[n] =
      PlainOver(IF n = 0 THEN [tv \in Types \X Values |-> FALSE] ELSE Plain[n - 1])
  BY PlainLevels!LevelOfLevel DEF Plain

LEMMA JsonOfLevelled ==
    \A n \in Nat : JsonOf[n] =
      JsonOver(IF n = 0 THEN [tvb \in Types \X Values \X BOOLEAN |-> Null] ELSE JsonOf[n - 1])
  BY JsonOfLevels!LevelOfLevel DEF JsonOf

\* What X reads for sig when vals come next, and the JSON that J has for v.
Gets(X, binary, sig, vals) == X[binary, sig, vals]
Tells(J, T, v, binary) == J[T, v, binary]

\* Several values become one array, one stays alone.
TellsAll(J, Ts, vs, binary) ==
    IF Len(Ts) = 1 THEN Tells(J, Ts[1], vs[1], binary)
    ELSE <<"arr", [i \in DOMAIN vs |-> Tells(J, Ts[i], vs[i], binary)]>>

\* A value of the type that the conversions can handle and JSON can tell.
Readable(H, P, T, v) == Convertible[T] /\ Says(H, T, v) /\ Says(P, T, v)

AllReadable(H, P, Ts, vs) ==
    /\ vs \in Seq(Values) /\ Len(vs) = Len(Ts)
    /\ \A i \in 1..Len(Ts) : Readable(H, P, Ts[i], vs[i])

\* The JSON of a number or a text.
Told(T, v, j) == v[1] = SigOf[T] /\ j = <<IF T[1] = "s" THEN "str" ELSE "num", v[2]>>

\* H, P and J know the types of keys.
KeysTold(H, P, J) ==
    \A T \in Types : T[1] \in Ints \cup {"s"} =>
      \A v \in Values : Says(H, T, v) =>
        Says(P, T, v) /\ \A binary \in BOOLEAN : Told(T, v, Tells(J, T, v, binary))

\* Whatever X reads, it says the same as the value.
ReadsAs(X, H, P, J) ==
    /\ KeysTold(H, P, J)
    /\ \A Ts \in Seq(Types) : Ts # <<>> =>
         \A vs : AllReadable(H, P, Ts, vs) =>
           \A binary \in BOOLEAN : Gets(X, binary, Flat(Ts), vs) = Read(TellsAll(J, Ts, vs, binary))

\* A value alone.
ReadsIt(X, J, T, v, binary) ==
    Gets(X, binary, SigOf[T], <<v>>) = Read(Tells(J, T, v, binary))

LEMMA ReadsAlone ==
    ASSUME NEW X, NEW H, NEW P, NEW J, ReadsAs(X, H, P, J),
           NEW T \in Types, NEW v \in Values, Readable(H, P, T, v), NEW binary \in BOOLEAN
    PROVE  ReadsIt(X, J, T, v, binary)
<1> DEFINE Ts == <<T>>
           vs == <<v>>
<1>1. Ts \in Seq(Types) /\ Ts # <<>> /\ Len(Ts) = 1 /\ Ts[1] = T /\ Flat(Ts) = SigOf[T]
  BY FlatAlone
<1>2. vs \in Seq(Values) /\ Len(vs) = 1 /\ vs[1] = v
  OBVIOUS
<1> HIDE DEF Ts, vs
<1>3. AllReadable(H, P, Ts, vs)
  <2>1. \A i \in 1..1 : i = 1
    OBVIOUS
  <2> QED
    BY <1>1, <1>2, <2>1 DEF AllReadable
<1>4. Gets(X, binary, SigOf[T], vs) = Read(TellsAll(J, Ts, vs, binary))
  BY <1>1, <1>3 DEF ReadsAs
<1>5. TellsAll(J, Ts, vs, binary) = Tells(J, T, v, binary)
  BY <1>1, <1>2 DEF TellsAll
<1> QED
  BY <1>4, <1>5 DEF vs, ReadsIt

LEMMA GetsOver ==
    ASSUME NEW X, NEW binary \in BOOLEAN, NEW sig \in Seq(Chars), NEW vals \in Seq(Values)
    PROVE  Gets(ExtractAny(X), binary, sig, vals) = ExtractPieces(X, binary, sig, vals)
<1> DEFINE D == BOOLEAN \X Seq(Chars) \X Seq(Values)
           f == ExtractAny(X)
           t == <<binary, sig, vals>>
<1>1. t \in D /\ t[1] = binary /\ t[2] = sig /\ t[3] = vals
  OBVIOUS
<1>2. \A arg \in D : f[arg] = ExtractPieces(X, arg[1], arg[2], arg[3])
  BY DEF ExtractAny
<1>3. f[binary, sig, vals] = f[t]
  BY Zenon
<1> HIDE DEF f, D, t
<1>4. f[t] = ExtractPieces(X, binary, sig, vals)
  BY <1>1, <1>2
<1> QED
  BY <1>3, <1>4, Zenon DEF Gets, f

\* What JsonOver(J) tells, in terms of what J does.
TellsOf(J, T, v, binary) ==
    CASE T[1] \in Ints -> <<"num", v[2]>>
      [] T[1] = "b" -> <<"bool", v[2]>>
      [] T[1] = "d" -> <<"real", v[2]>>
      [] T[1] \in {"s", "o", "g"} -> <<"str", v[2]>>
      [] T[1] = "h" -> <<"bin", v[2]>>
      [] T[1] = "v" -> VariantJson(v[2][1], Tells(J, TypeOf(v[2][1]), v[2], binary))
      [] T[1] = "(" ->
           IF Len(T[2]) = 1 THEN Tells(J, T[2][1], v[2][1], binary)
           ELSE <<"arr", [i \in DOMAIN v[2] |-> Tells(J, T[2][i], v[2][i], binary)]>>
      [] T[1] = "a" ->
           IF T[2] = <<"y">> /\ binary THEN <<"bin", v[2]>>
           ELSE <<"arr", [i \in DOMAIN v[2] |-> Tells(J, T[2], v[2][i], binary)]>>
      [] T[1] = "{" ->
           LET of(t) == CHOOSE i \in DOMAIN v[2] : TextOf(v[2][i][1]) = t
           IN  Object([t \in {TextOf(v[2][i][1]) : i \in DOMAIN v[2]} |->
                         Tells(J, T[3], v[2][of(t)][2], binary)])

LEMMA TellsOver ==
    ASSUME NEW J, NEW T \in Types, NEW v \in Values, NEW binary \in BOOLEAN
    PROVE  Tells(JsonOver(J), T, v, binary) = TellsOf(J, T, v, binary)
<1> DEFINE D == Types \X Values \X BOOLEAN
           f == JsonOver(J)
           t == <<T, v, binary>>
<1>1. t \in D /\ t[1] = T /\ t[2] = v /\ t[3] = binary
  OBVIOUS
<1>2. \A tvb \in D : f[tvb] = JsonAs(J, tvb[1], tvb[2], tvb[3])
  BY DEF JsonOver
<1>3. f[T, v, binary] = f[t]
  BY Zenon
<1> HIDE DEF f, D, t
<1>4. f[t] = JsonAs(J, T, v, binary)
  BY <1>1, <1>2
<1>5. JsonAs(J, T, v, binary) = TellsOf(J, T, v, binary)
  BY Zenon DEF JsonAs, TellsOf, Tells
<1> QED
  BY <1>3, <1>4, <1>5, Zenon DEF Tells, f

\* The same for what is plain.
PlainOf(P, T, v) ==
    /\ T[1] = "(" => \A i \in DOMAIN v[2] : Says(P, T[2][i], v[2][i])
    /\ T[1] = "{" =>
         /\ v[2] # <<>>
         /\ \A i \in DOMAIN v[2] :
              /\ T[2][1] \in Ints => v[2][i][1][2] \in LongLong
              /\ Says(P, T[3], v[2][i][2])
              /\ \A k \in DOMAIN v[2] : v[2][i][1] = v[2][k][1] => i = k
    /\ T[1] = "a" => \A i \in DOMAIN v[2] : Says(P, T[2], v[2][i])
    /\ T[1] = "v" => Convertible[TypeOf(v[2][1])] /\ Says(P, TypeOf(v[2][1]), v[2])

LEMMA PlainSays ==
    ASSUME NEW P, NEW T \in Types, NEW v \in Values
    PROVE  Says(PlainOver(P), T, v) <=> PlainOf(P, T, v)
<1>1. <<T, v>> \in Types \X Values /\ <<T, v>>[1] = T /\ <<T, v>>[2] = v
  OBVIOUS
<1> DEFINE f == PlainOver(P)
<1>2. \A tv \in Types \X Values : f[tv] = PlainAs(P, tv[1], tv[2])
  BY DEF PlainOver
<1> HIDE DEF f
<1>3. f[<<T, v>>] = PlainAs(P, T, v)
  BY <1>1, <1>2
<1>4. f[T, v] = f[<<T, v>>]
  BY Zenon
<1>5. PlainAs(P, T, v) <=> PlainOf(P, T, v)
  BY Zenon DEF PlainAs, PlainOf, Says
<1> QED
  BY <1>3, <1>4, <1>5, Zenon DEF Says, f

-----------------------------------------------------------------------------
(* Reading one value *)

\* What is in a value is a value.
LEMMA ValueParts ==
    ASSUME NEW v \in Values
    PROVE  /\ v[1] = <<"v">> => v[2] \in Values
           /\ Len(v[1]) > 1 /\ v[1][2] # "{" => v[2] \in Seq(Values)
           /\ Len(v[1]) > 1 /\ v[1][2] = "{" => v[2] \in Seq(Values \X Values)
<1> DEFINE V == IF Nesting = 0 THEN {} ELSE ValuesWithin[Nesting - 1]
           A == {s \in Seq(Chars) : Len(s) > 1 /\ s[2] # "{"}
           B == {s \in Seq(Chars) : Len(s) > 1 /\ s[2] = "{"}
           Rest1 == ({<<c>> : c \in Ints \cup {"d", "h"}} \X Int) \cup ({<<"b">>} \X BOOLEAN)
                      \cup ({<<c>> : c \in {"s", "o", "g"}} \X Texts)
<1>1. Nesting \in Nat
  BY DataAssumption
<1>2. Values = ValuesOver(V) /\ V \subseteq Values
  BY <1>1, ValuesWithinLevels, ValuesGrow DEF Values
<1> HIDE DEF V
<1>3. v \in ValuesOver(Values)
  BY <1>2, ValuesOverGrow
<1>4. v \in Rest1 \/ v \in {<<"v">>} \X Values \/ v \in A \X Seq(Values) \/ v \in B \X Seq(Values \X Values)
  BY <1>3, Zenon DEF ValuesOver
<1>5. ASSUME v \in Rest1 PROVE v[1] # <<"v">> /\ ~(Len(v[1]) > 1)
  <2>1. PICK c \in Ints \cup {"d", "h", "b", "s", "o", "g"} : v[1] = <<c>>
    BY <1>5
  <2>2. c # "v" /\ <<c>>[1] = c /\ <<"v">>[1] = "v" /\ Len(<<c>>) = 1
    BY DEF Ints, Signed, Unsigned
  <2> QED
    BY <2>1, <2>2
<1>6. ASSUME v \in {<<"v">>} \X Values PROVE v[2] \in Values /\ ~(Len(v[1]) > 1)
  BY <1>6, SMTT(30)
<1>7. ASSUME v \in A \X Seq(Values) PROVE v[1] \in A /\ v[2] \in Seq(Values)
  BY ZenonT(60), <1>7
<1>8. ASSUME v \in B \X Seq(Values \X Values) PROVE v[1] \in B /\ v[2] \in Seq(Values \X Values)
  BY ZenonT(60), <1>8
<1>9. \A s \in A \cup B : s # <<"v">>
  <2>1. Len(<<"v">>) = 1
    OBVIOUS
  <2>2. \A s : Len(s) > 1 /\ Len(<<"v">>) = 1 => s # <<"v">>
    OBVIOUS
  <2> QED
    BY ZenonT(60), <2>1, <2>2
<1>10. /\ \A s \in A : s[2] # "{"
       /\ \A s \in B : s[2] = "{"
  BY ZenonT(60)
<1> HIDE DEF A, B, Rest1
<1> QED
  BY <1>4, <1>5, <1>6, <1>7, <1>8, <1>9, <1>10, Zenon

\* Which case of the switch it comes to.
OneCases(X, binary, T, sig, v) ==
    /\ T[1] \in Ints => ExtractOne(X, binary, sig, v) = Read(<<"num", v[2]>>)
    /\ T[1] = "b" => ExtractOne(X, binary, sig, v) = Read(<<"bool", v[2]>>)
    /\ T[1] = "d" => ExtractOne(X, binary, sig, v) = Read(<<"real", v[2]>>)
    /\ T[1] = "s" => ExtractOne(X, binary, sig, v) = Read(<<"str", v[2]>>)
    /\ T[1] = "v" => ExtractOne(X, binary, sig, v) = ExtractVariant(X, binary, v[2])
    /\ T[1] = "(" => ExtractOne(X, binary, sig, v) = Gets(X, binary, Inner(sig), v[2])
    /\ T[1] \in {"a", "{"} =>
         ExtractOne(X, binary, sig, v) =
           IF ~IsType(sig) THEN Unread
           ELSE IF sig[2] = "{" THEN ExtractDict(X, binary, sig, v[2])
           ELSE IF sig = <<"a", "y">> /\ binary THEN Read(<<"bin", v[2]>>)
           ELSE ExtractArray(X, binary, sig, v[2])

LEMMA ExtractOneCases ==
    ASSUME NEW X, NEW binary, NEW T \in Types, NEW sig, sig = SigOf[T], NEW v, v[1] = sig
    PROVE  OneCases(X, binary, T, sig, v)
<1>1. Head(sig) = Opening(T)
  <2>1. sig \in Seq(Chars) /\ Len(sig) >= 1 /\ sig[1] = Opening(T)
    BY SigType, SigFirst
  <2> QED
    BY <2>1
<1>2. /\ T[1] \in Simple => Head(sig) = T[1]
      /\ T[1] \in {"a", "{"} => Head(sig) = "a"
      /\ T[1] = "(" => Head(sig) = "("
  BY <1>1, Kinds, Different, Letters, Zenon DEF Opening
<1>3. /\ Ints \cap {"b", "d", "s", "h", "v", "a", "("} = {}
      /\ Ints \cup {"b", "d", "s", "h", "v"} \subseteq Simple
  BY DEF Ints, Signed, Unsigned, Simple, Basic
<1> DEFINE e == ExtractOne(X, binary, sig, v)
           array == IF ~IsType(sig) THEN Unread
                    ELSE IF sig[2] = "{" THEN ExtractDict(X, binary, sig, v[2])
                    ELSE IF sig = <<"a", "y">> /\ binary THEN Read(<<"bin", v[2]>>)
                    ELSE ExtractArray(X, binary, sig, v[2])
<1>4. e = CASE Head(sig) \in Ints -> Read(<<"num", v[2]>>)
            [] Head(sig) = "b" -> Read(<<"bool", v[2]>>)
            [] Head(sig) = "d" -> Read(<<"real", v[2]>>)
            [] Head(sig) = "s" -> Read(<<"str", v[2]>>)
            [] Head(sig) = "v" -> ExtractVariant(X, binary, v[2])
            [] Head(sig) = "(" -> Gets(X, binary, Inner(sig), v[2])
            [] Head(sig) = "h" -> IF v[2] > MaxFdSize THEN Unread ELSE Read(<<"bin", v[2]>>)
            [] Head(sig) = "a" -> array
  BY Zenon DEF ExtractOne, Gets
<1> HIDE DEF e, array
<1>5. ASSUME NEW c, Head(sig) = c
      PROVE  /\ c \in Ints => e = Read(<<"num", v[2]>>)
             /\ c = "b" => e = Read(<<"bool", v[2]>>)
             /\ c = "d" => e = Read(<<"real", v[2]>>)
             /\ c = "s" => e = Read(<<"str", v[2]>>)
             /\ c = "v" => e = ExtractVariant(X, binary, v[2])
             /\ c = "a" => e = array
             /\ c = "(" => e = Gets(X, binary, Inner(sig), v[2])
  BY <1>3, <1>4, <1>5
<1> QED
  BY <1>2, <1>3, <1>5, Zenon DEF e, array, OneCases

\* And the JSON.
TellsCase(J, T, v, binary) ==
    /\ T[1] \in Ints => TellsOf(J, T, v, binary) = <<"num", v[2]>>
    /\ T[1] = "b" => TellsOf(J, T, v, binary) = <<"bool", v[2]>>
    /\ T[1] = "d" => TellsOf(J, T, v, binary) = <<"real", v[2]>>
    /\ T[1] = "s" => TellsOf(J, T, v, binary) = <<"str", v[2]>>
    /\ T[1] = "v" => TellsOf(J, T, v, binary) =
                       VariantJson(v[2][1], Tells(J, TypeOf(v[2][1]), v[2], binary))
    /\ T[1] = "(" => TellsOf(J, T, v, binary) = TellsAll(J, T[2], v[2], binary)
    /\ T[1] = "a" => TellsOf(J, T, v, binary) =
         IF T[2] = <<"y">> /\ binary THEN <<"bin", v[2]>>
         ELSE <<"arr", [i \in DOMAIN v[2] |-> Tells(J, T[2], v[2][i], binary)]>>
    /\ T[1] = "{" => TellsOf(J, T, v, binary) =
         LET of(t) == CHOOSE i \in DOMAIN v[2] : TextOf(v[2][i][1]) = t
         IN  Object([t \in {TextOf(v[2][i][1]) : i \in DOMAIN v[2]} |->
                       Tells(J, T[3], v[2][of(t)][2], binary)])

LEMMA TellsCases ==
    ASSUME NEW J, NEW T, NEW v, NEW binary
    PROVE  TellsCase(J, T, v, binary)
<1>1. Ints \cap {"b", "d", "s", "o", "g", "h", "v", "a", "(", "{"} = {}
  BY DEF Ints, Signed, Unsigned
<1> DEFINE struct == IF Len(T[2]) = 1 THEN Tells(J, T[2][1], v[2][1], binary)
                     ELSE <<"arr", [i \in DOMAIN v[2] |-> Tells(J, T[2][i], v[2][i], binary)]>>
           array == IF T[2] = <<"y">> /\ binary THEN <<"bin", v[2]>>
                    ELSE <<"arr", [i \in DOMAIN v[2] |-> Tells(J, T[2], v[2][i], binary)]>>
           dict == LET of(t) == CHOOSE i \in DOMAIN v[2] : TextOf(v[2][i][1]) = t
                   IN  Object([t \in {TextOf(v[2][i][1]) : i \in DOMAIN v[2]} |->
                                 Tells(J, T[3], v[2][of(t)][2], binary)])
           variant == VariantJson(v[2][1], Tells(J, TypeOf(v[2][1]), v[2], binary))
           e == TellsOf(J, T, v, binary)
<1>2. e = CASE T[1] \in Ints -> <<"num", v[2]>>
            [] T[1] = "b" -> <<"bool", v[2]>>
            [] T[1] = "d" -> <<"real", v[2]>>
            [] T[1] \in {"s", "o", "g"} -> <<"str", v[2]>>
            [] T[1] = "h" -> <<"bin", v[2]>>
            [] T[1] = "v" -> variant
            [] T[1] = "(" -> struct
            [] T[1] = "a" -> array
            [] T[1] = "{" -> dict
  BY Zenon DEF TellsOf
<1>3. struct = TellsAll(J, T[2], v[2], binary)
  BY Zenon DEF TellsAll
<1> HIDE DEF e, struct, array, dict, variant
<1>4. ASSUME NEW c, T[1] = c
      PROVE  /\ c \in Ints => e = <<"num", v[2]>>
             /\ c = "b" => e = <<"bool", v[2]>>
             /\ c = "d" => e = <<"real", v[2]>>
             /\ c = "s" => e = <<"str", v[2]>>
             /\ c = "v" => e = variant
             /\ c = "(" => e = struct
             /\ c = "a" => e = array
             /\ c = "{" => e = dict
  BY ZenonT(60), <1>1, <1>2, <1>4
<1> QED
  BY <1>3, <1>4, Zenon DEF e, array, dict, variant, TellsCase

\* A value of the type, one level above what H and P say.
Suits(H, P, T, v) == Convertible[T] /\ SaysOf(H, T, v) /\ PlainOf(P, T, v)

\* It is read as the JSON that says the same.
ReadsOne(X, J, T, v, binary) == ExtractOne(X, binary, SigOf[T], v) = Read(TellsOf(J, T, v, binary))

LEMMA ReadSimple ==
    ASSUME NEW X, NEW H, NEW P, NEW J, NEW T \in Types, T[1] \in Ints \cup {"b", "d", "s"},
           NEW v, Suits(H, P, T, v), NEW binary
    PROVE  ReadsOne(X, J, T, v, binary)
<1>1. v[1] = SigOf[T]
  BY Zenon DEF Suits, SaysOf
<1>a. OneCases(X, binary, T, SigOf[T], v)
  BY <1>1, ExtractOneCases
<1>b. TellsCase(J, T, v, binary)
  BY TellsCases
<1>2. CASE T[1] \in Ints
  <2>1. ExtractOne(X, binary, SigOf[T], v) = Read(<<"num", v[2]>>)
    BY <1>1, <1>2, <1>a, Zenon DEF OneCases
  <2>2. TellsOf(J, T, v, binary) = <<"num", v[2]>>
    BY <1>2, <1>b, Zenon DEF TellsCase
  <2> QED
    BY <2>1, <2>2, Zenon DEF ReadsOne
<1>3. CASE T[1] = "b"
  <2>1. ExtractOne(X, binary, SigOf[T], v) = Read(<<"bool", v[2]>>)
    BY <1>1, <1>3, <1>a, Zenon DEF OneCases
  <2>2. TellsOf(J, T, v, binary) = <<"bool", v[2]>>
    BY <1>3, <1>b, Zenon DEF TellsCase
  <2> QED
    BY <2>1, <2>2, Zenon DEF ReadsOne
<1>4. CASE T[1] = "d"
  <2>1. ExtractOne(X, binary, SigOf[T], v) = Read(<<"real", v[2]>>)
    BY <1>1, <1>4, <1>a, Zenon DEF OneCases
  <2>2. TellsOf(J, T, v, binary) = <<"real", v[2]>>
    BY <1>4, <1>b, Zenon DEF TellsCase
  <2> QED
    BY <2>1, <2>2, Zenon DEF ReadsOne
<1>5. CASE T[1] = "s"
  <2>1. ExtractOne(X, binary, SigOf[T], v) = Read(<<"str", v[2]>>)
    BY <1>1, <1>5, <1>a, Zenon DEF OneCases
  <2>2. TellsOf(J, T, v, binary) = <<"str", v[2]>>
    BY <1>5, <1>b, Zenon DEF TellsCase
  <2> QED
    BY <2>1, <2>2, Zenon DEF ReadsOne
<1> QED
  BY <1>2, <1>3, <1>4, <1>5

LEMMA ReadResult == \A j : Read(j).ok /\ Read(j).json = j
  BY DEF Read

LEMMA ReadVariant ==
    ASSUME NEW X, NEW H, NEW P, NEW J, ReadsAs(X, H, P, J), NEW T \in Types, T[1] = "v",
           NEW v \in Values, Suits(H, P, T, v), NEW binary \in BOOLEAN
    PROVE  ReadsOne(X, J, T, v, binary)
<1> DEFINE w == v[2]
           Q == TypeOf(w[1])
           r == Gets(X, binary, w[1], <<w>>)
<1>1. v[1] = SigOf[T] /\ IsType(w[1]) /\ Says(H, Q, w) /\ Convertible[Q] /\ Says(P, Q, w)
  BY Zenon DEF Suits, SaysOf, PlainOf
<1>a. OneCases(X, binary, T, SigOf[T], v)
  BY <1>1, ExtractOneCases
<1>b. TellsCase(J, T, v, binary)
  BY TellsCases
<1>2. SigOf[T] = <<"v">>
  <2>1. T[1] \in Simple
    BY DEF Simple, Basic
  <2> QED
    BY <2>1, SigCases, Zenon
<1>3. w \in Values
  BY <1>1, <1>2, ValueParts, Zenon
<1>4. Q \in Types /\ SigOf[Q] = w[1]
  BY <1>1 DEF IsType, TypeOf
<1>5. ExtractVariant(X, binary, w) = IF r.ok THEN Read(VariantJson(w[1], r.json)) ELSE Unread
  BY Zenon DEF ExtractVariant, Gets
<1> HIDE DEF w, Q, r
<1>6. Readable(H, P, Q, w)
  BY <1>1 DEF Readable
<1>7. r = Read(Tells(J, Q, w, binary))
  <2>1. ReadsIt(X, J, Q, w, binary)
    BY <1>3, <1>4, <1>6, ReadsAlone
  <2> QED
    BY <1>4, <2>1, Zenon DEF r, ReadsIt
<1>8. r.ok /\ r.json = Tells(J, Q, w, binary)
  BY <1>7, ReadResult, Zenon
<1>9. ExtractVariant(X, binary, w) = Read(VariantJson(w[1], Tells(J, Q, w, binary)))
  BY <1>5, <1>8, Zenon
<1>10. ExtractOne(X, binary, SigOf[T], v) = ExtractVariant(X, binary, w)
  BY <1>1, <1>a, Zenon DEF OneCases, w
<1>11. TellsOf(J, T, v, binary) = VariantJson(w[1], Tells(J, Q, w, binary))
  BY <1>b, Zenon DEF TellsCase, w, Q
<1> QED
  BY <1>9, <1>10, <1>11, Zenon DEF ReadsOne

\* Of sequences and numbers.
LEMMA SeqDomain == \A S : \A s \in Seq(S) : DOMAIN s = 1..Len(s) /\ Len(s) \in Nat /\ DOMAIN s \subseteq Nat
  OBVIOUS
LEMMA SeqPairs == \A S : \A s \in Seq(S \X S) : \A i \in DOMAIN s : s[i][1] \in S /\ s[i][2] \in S
  OBVIOUS
LEMMA NotAbove == \A n \in Nat : ~(n > n)
  OBVIOUS
LEMMA SameMembers == \A S, R : (\A x : x \in S <=> x \in R) => S = R
  OBVIOUS

\* The members of a struct.
LEMMA StructMembers ==
    ASSUME NEW H, NEW P, NEW T \in Types, T[1] = "(", NEW v \in Values, Suits(H, P, T, v)
    PROVE  v[1] = SigOf[T] /\ AllReadable(H, P, T[2], v[2])
<1> DEFINE Ts == T[2]
           vs == v[2]
           sig == SigOf[T]
<1>1. Ts \in Seq(Types) /\ Len(sig) > 1 /\ sig[2] # "{"
  BY StructParts, Zenon DEF StructOfType
<1>2. v[1] = sig /\ Len(vs) = Len(Ts) /\ (\A i \in DOMAIN vs : Says(H, Ts[i], vs[i]))
      /\ (\A i \in DOMAIN vs : Says(P, Ts[i], vs[i]))
  BY Zenon DEF Suits, SaysOf, PlainOf
<1>3. vs \in Seq(Values)
  BY <1>1, <1>2, ValueParts, Zenon
<1>4. \A i \in DOMAIN Ts : Convertible[Ts[i]]
  <2>1. ConvertibleOver(T, Convertible)
    BY ConvertibleDefined DEF Suits
  <2> QED
    BY ZenonT(60), <2>1, Kinds DEF ConvertibleOver
<1> HIDE DEF Ts, vs, sig
<1>5. DOMAIN Ts = 1..Len(Ts) /\ DOMAIN vs = 1..Len(Ts)
  BY <1>1, <1>2, <1>3, SeqDomain, Zenon
<1>6. AllReadable(H, P, Ts, vs)
  BY <1>2, <1>3, <1>4, <1>5 DEF AllReadable, Readable
<1> QED
  BY <1>2, <1>6, Zenon DEF Ts, vs, sig

LEMMA ReadStruct ==
    ASSUME NEW X, NEW H, NEW P, NEW J, ReadsAs(X, H, P, J), NEW T \in Types, T[1] = "(",
           NEW v \in Values, Suits(H, P, T, v), NEW binary \in BOOLEAN
    PROVE  ReadsOne(X, J, T, v, binary)
<1> DEFINE Ts == T[2]
           vs == v[2]
           sig == SigOf[T]
<1>1. Ts \in Seq(Types) /\ Ts # <<>> /\ Inner(sig) = Flat(Ts)
  BY StructParts, Zenon DEF StructOfType
<1>2. v[1] = sig /\ AllReadable(H, P, Ts, vs)
  BY StructMembers
<1>3. OneCases(X, binary, T, SigOf[T], v)
  BY <1>2, ExtractOneCases
<1>4. TellsCase(J, T, v, binary)
  BY TellsCases
<1> HIDE DEF Ts, vs, sig
<1>5. Gets(X, binary, Flat(Ts), vs) = Read(TellsAll(J, Ts, vs, binary))
  BY <1>1, <1>2 DEF ReadsAs
<1>6. ExtractOne(X, binary, sig, v) = Gets(X, binary, Inner(sig), vs)
  BY <1>2, <1>3, Zenon DEF OneCases, sig, vs
<1>7. TellsOf(J, T, v, binary) = TellsAll(J, Ts, vs, binary)
  BY <1>4, Zenon DEF TellsCase, Ts, vs
<1> QED
  BY <1>1, <1>5, <1>6, <1>7, Zenon DEF ReadsOne, sig

\* "ay" is the signature of one type only.
LEMMA BytesType ==
    ASSUME NEW T \in Types, T[1] = "a"
    PROVE  SigOf[T] = <<"a", "y">> <=> T[2] = <<"y">>
<1> DEFINE sig == SigOf[T]
           e == SigOf[T[2]]
<1>1. T[2] \in Types /\ sig = join(<<"a">>, e) /\ e \in Seq(Chars) /\ Tail(sig) = e
  BY ZenonT(60), ArrayParts, TypeCases, SigCases, SigType, Kinds DEF ArrayOfType
<1>2. "y" \in Simple /\ "y" # "(" /\ "y" # "a" /\ "y" \in Chars /\ "a" \in Chars
  BY DEF Simple, Basic, Ints, Unsigned, Chars
<1>3. ASSUME T[2] = <<"y">> PROVE sig = <<"a", "y">>
  <2>1. T[2][1] = "y"
    BY <1>3
  <2>2. e = <<"y">>
    BY ZenonT(60), <1>1, <1>2, <2>1, SigCases
  <2> QED
    BY <1>1, <1>2, <2>2, JoinTwo, Zenon
<1>4. ASSUME sig = <<"a", "y">> PROVE T[2] = <<"y">>
  <2>1. Tail(<<"a", "y">>) = <<"y">> /\ <<"y">>[1] = "y"
    OBVIOUS
  <2>2. e = <<"y">>
    BY <1>1, <1>4, <2>1, Zenon
  <2>3. Opening(T[2]) = "y"
    BY <1>1, <2>1, <2>2, SigFirst, Zenon
  <2>4. T[2][1] = "y"
    BY <1>2, <2>3, Zenon DEF Opening
  <2> QED
    BY ZenonT(60), <1>1, <1>2, <2>4, TypeCases, Kinds
<1> QED
  BY <1>3, <1>4

LEMMA ReadArray ==
    ASSUME NEW X, NEW H, NEW P, NEW J, ReadsAs(X, H, P, J), NEW T \in Types, T[1] = "a",
           NEW v \in Values, Suits(H, P, T, v), NEW binary \in BOOLEAN
    PROVE  ReadsOne(X, J, T, v, binary)
<1> DEFINE E == T[2]
           vs == v[2]
           sig == SigOf[T]
           arr == <<"arr", [i \in DOMAIN vs |-> Tells(J, E, vs[i], binary)]>>
           rs == [i \in DOMAIN vs |-> Gets(X, binary, Tail(sig), <<vs[i]>>)]
<1>1. /\ E \in Types /\ Tail(sig) = SigOf[E] /\ Len(sig) > 1 /\ sig[2] # "{"
      /\ IsType(sig)
  BY ArrayParts, Zenon DEF ArrayOfType
<1>2. /\ v[1] = sig /\ \A i \in DOMAIN vs : Says(H, E, vs[i])
      /\ \A i \in DOMAIN vs : Says(P, E, vs[i])
  BY Zenon DEF Suits, SaysOf, PlainOf
<1>a. OneCases(X, binary, T, SigOf[T], v)
  BY <1>2, ExtractOneCases
<1>b. TellsCase(J, T, v, binary)
  BY TellsCases
<1>3. vs \in Seq(Values)
  BY <1>1, <1>2, ValueParts, Zenon
<1>4. Convertible[E] /\ E[1] # "v"
  <2>1. ConvertibleOver(T, Convertible)
    BY ConvertibleDefined DEF Suits
  <2> QED
    BY ZenonT(60), <2>1, Kinds DEF ConvertibleOver
<1>5. sig = <<"a", "y">> <=> E = <<"y">>
  BY BytesType
<1>6. ExtractArray(X, binary, sig, vs) =
        IF (\A i \in DOMAIN vs : rs[i].ok) /\ EndsCleanly(Tail(sig))
        THEN Read(<<"arr", [i \in DOMAIN vs |-> rs[i].json]>>)
        ELSE Unread
  BY Zenon DEF ExtractArray, Gets
<1>7. ExtractOne(X, binary, sig, v) = IF E = <<"y">> /\ binary THEN Read(<<"bin", vs>>)
                                      ELSE ExtractArray(X, binary, sig, vs)
  <2>1. ExtractOne(X, binary, sig, v) =
          IF ~IsType(sig) THEN Unread
          ELSE IF sig[2] = "{" THEN ExtractDict(X, binary, sig, v[2])
          ELSE IF sig = <<"a", "y">> /\ binary THEN Read(<<"bin", v[2]>>)
          ELSE ExtractArray(X, binary, sig, v[2])
    BY <1>2, <1>a, Zenon DEF OneCases
  <2> QED
    BY <1>1, <1>5, <2>1, Zenon
<1>8. TellsOf(J, T, v, binary) = IF E = <<"y">> /\ binary THEN <<"bin", vs>> ELSE arr
  BY <1>b, Zenon DEF TellsCase
<1>9. ASSUME NEW i \in DOMAIN vs PROVE rs[i] = Read(Tells(J, E, vs[i], binary))
  <2>1. vs[i] \in Values
    BY <1>3
  <2>2. Readable(H, P, E, vs[i])
    BY <1>2, <1>4 DEF Readable
  <2>3. ReadsIt(X, J, E, vs[i], binary)
    BY ZenonT(60), <1>1, <2>1, <2>2, ReadsAlone
  <2> QED
    BY <1>1, <2>3, Zenon DEF ReadsIt
<1>10. EndsCleanly(Tail(sig))
  <2>1. Whole(E)
    BY ZenonT(60), <1>1, <1>4, ConvertibleWhole
  <2>2. <<E>> \in Seq(Types) /\ Flat(<<E>>) = SigOf[E] /\ AllWhole(<<E>>, Len(<<E>>))
    <3>1. \A i \in 1..Len(<<E>>) : <<E>>[i] = E
      OBVIOUS
    <3> QED
      BY <1>1, <2>1, <3>1, FlatAlone, Zenon DEF AllWhole
  <2>3. split[SigOf[E]].ok
    <3>1. split[Flat(<<E>>)] = [ok |-> TRUE, result |-> SigsOf(<<E>>)]
      BY <2>2, PiecesWhole
    <3>2. \A u, x : u = [ok |-> TRUE, result |-> x] => u.ok
      OBVIOUS
    <3> QED
      BY <2>2, <3>1, <3>2, Zenon
  <2>4. Head(SigOf[E]) = Opening(E)
    <3>1. SigOf[E] \in Seq(Chars) /\ Len(SigOf[E]) >= 1 /\ SigOf[E][1] = Opening(E)
      BY ZenonT(60), <1>1, SigType, SigFirst
    <3> QED
      BY <3>1
  <2>5. E[1] # "h"
    BY ZenonT(60), <1>1, <1>4, ConvertibleDefined, Kinds DEF ConvertibleOver
  <2>6. Opening(E) \notin {"v", "h"}
    BY <1>4, <2>5 DEF Opening
  <2> QED
    BY <1>1, <2>3, <2>4, <2>6, Zenon DEF EndsCleanly
<1> HIDE DEF E, vs, sig, rs
<1>11. ExtractArray(X, binary, sig, vs) = Read(arr)
  <2>1. \A i \in DOMAIN vs : rs[i].ok /\ rs[i].json = Tells(J, E, vs[i], binary)
    BY <1>9, ReadResult, Zenon
  <2>2. [i \in DOMAIN vs |-> rs[i].json] = [i \in DOMAIN vs |-> Tells(J, E, vs[i], binary)]
    BY <2>1
  <2> QED
    BY <1>6, <1>10, <2>1, <2>2, Zenon
<1> HIDE DEF arr
<1>12. ExtractOne(X, binary, sig, v) = Read(TellsOf(J, T, v, binary))
  BY <1>7, <1>8, <1>11, Zenon
<1> QED
  BY <1>12 DEF ReadsOne, sig

\* A value is a pair.
LEMMA ValuePair == \A v \in Values : v = <<v[1], v[2]>>
<1> DEFINE V == IF Nesting = 0 THEN {} ELSE ValuesWithin[Nesting - 1]
<1>1. Values = ValuesOver(V)
  BY ValuesWithinLevels, DataAssumption DEF Values
<1> HIDE DEF V
<1> DEFINE A == {s \in Seq(Chars) : Len(s) > 1 /\ s[2] # "{"}
           B == {s \in Seq(Chars) : Len(s) > 1 /\ s[2] = "{"}
           N1 == {<<c>> : c \in Ints \cup {"d", "h"}}
           N2 == {<<c>> : c \in {"s", "o", "g"}}
<1>a. \A S, R : \A v \in S \X R : v = <<v[1], v[2]>>
  OBVIOUS
<1>b. ASSUME NEW v \in ValuesOver(V)
      PROVE  \/ v \in N1 \X Int \/ v \in {<<"b">>} \X BOOLEAN \/ v \in N2 \X Texts
             \/ v \in {<<"v">>} \X V \/ v \in A \X Seq(V) \/ v \in B \X Seq(V \X V)
  BY Zenon DEF ValuesOver
<1> HIDE DEF A, B, N1, N2
<1>2. ASSUME NEW v \in ValuesOver(V) PROVE v = <<v[1], v[2]>>
  BY <1>a, <1>b, Zenon
<1> QED
  BY <1>1, <1>2

\* A key that the conversions can handle is a number or a text.
LEMMA KeyTypes ==
    ASSUME NEW T \in Types, T[1] = "{", Convertible[T]
    PROVE  /\ T[2] \in Types /\ T[3] \in Types
           /\ Convertible[T[2]] /\ Convertible[T[3]]
           /\ T[2][1] \in Ints \cup {"s"}
<1>1. T[2] \in Types /\ T[3] \in Types /\ T[2][1] \in Simple \ {"v"}
  BY ZenonT(60), TypeCases, Kinds
<1>2. Convertible[T[2]] /\ Convertible[T[3]] /\ T[2][1] \notin {"b", "d"}
  BY ZenonT(60), ConvertibleDefined, Kinds DEF ConvertibleOver
<1>3. T[2][1] \notin Refused \cup {"h"}
  BY <1>1, <1>2, ConvertibleDefined, Kinds, ZenonT(40) DEF ConvertibleOver
<1>4. \A c \in Simple : c \notin {"v", "b", "d", "h"} \cup Refused => c \in Ints \cup {"s"}
  BY ZenonT(60) DEF Simple, Basic
<1> QED
  BY ZenonT(60), <1>1, <1>2, <1>3, <1>4

\* The text of a key in JSON is the one the code makes, and tells it from others.
LEMMA KeyTold ==
    ASSUME NEW T \in Types, T[1] \in Ints \cup {"s"}, NEW v \in Values, NEW j, Told(T, v, j),
           T[1] \in Ints => v[2] \in LongLong
    PROVE  KeyText(j) = TextOf(v) /\ (T[1] \in Ints => TextOf(v) = <<"int", v[2]>>) /\ (T[1] = "s" => TextOf(v) = v[2])
<1>1. SigOf[T] = <<T[1]>> /\ v[1] = SigOf[T] /\ v[1][1] = T[1]
  <2>1. T[1] \in Simple
    BY DEF Simple, Basic
  <2>2. SigOf[T] = <<T[1]>>
    BY ZenonT(60), <2>1, SigCases
  <2>3. \A c : <<c>>[1] = c
    OBVIOUS
  <2>4. v[1] = SigOf[T]
    BY Zenon DEF Told
  <2>5. v[1][1] = <<T[1]>>[1]
    BY <2>2, <2>4, Zenon
  <2>6. v[1][1] = T[1]
    BY <2>3, <2>5, Zenon
  <2> QED
    BY <2>2, <2>4, <2>6, Zenon
<1>2. "s" \notin Ints /\ "s" # "b" /\ "x" \in Ints
  BY DEF Ints, Signed, Unsigned
<1>3. CASE T[1] \in Ints
  <2>1. j[1] = "num" /\ j[2] = v[2]
    BY <1>2, <1>3 DEF Told
  <2>2. v[2] \in Low("x")..High("x")
    BY <1>3 DEF LongLong
  <2>3. v[2] \in Int
    <3>1. Low("x") \in Int /\ High("x") \in Int
      BY <1>2, Limits
    <3> QED
      BY <2>2, <3>1
  <2>4. static_cast("x", v[2]) = v[2]
    BY <1>2, <2>2, <2>3, CastInRange, Zenon
  <2>5. KeyText(j) = <<"int", static_cast("x", j[2])>>
    BY <2>1 DEF KeyText
  <2>6. TextOf(v) = <<"int", v[2]>>
    BY <1>1, <1>3 DEF TextOf
  <2> QED
    BY <1>2, <1>3, <2>1, <2>4, <2>5, <2>6
<1>4. CASE T[1] = "s"
  <2>1. j[1] = "str" /\ j[2] = v[2]
    BY <1>4 DEF Told
  <2>2. KeyText(j) = j[2]
    BY <2>1 DEF KeyText
  <2>3. TextOf(v) = v[2]
    BY <1>1, <1>2, <1>4 DEF TextOf
  <2> QED
    BY <1>2, <1>4, <2>1, <2>2, <2>3
<1> QED
  BY <1>3, <1>4

\* The entries of a dictionary: no two have the same text for a key.
DictSuits(H, P, T, vs) ==
    /\ vs \in Seq(Values \X Values) /\ vs # <<>>
    /\ \A i \in DOMAIN vs :
         /\ vs[i][1] \in Values /\ Says(H, T[2], vs[i][1]) /\ Says(P, T[2], vs[i][1])
         /\ vs[i][2] \in Values /\ Says(H, T[3], vs[i][2]) /\ Says(P, T[3], vs[i][2])
         /\ T[2][1] \in Ints => vs[i][1][2] \in LongLong
         /\ \A k \in DOMAIN vs : TextOf(vs[i][1]) = TextOf(vs[k][1]) => i = k

LEMMA DictEntries ==
    ASSUME NEW H, NEW P, NEW J, KeysTold(H, P, J), NEW T \in Types, T[1] = "{",
           NEW v \in Values, Suits(H, P, T, v)
    PROVE  v[1] = SigOf[T] /\ DictSuits(H, P, T, v[2])
<1> DEFINE K == T[2]
           E == T[3]
           vs == v[2]
           sig == SigOf[T]
           D == DOMAIN vs
<1>1. K \in Types /\ E \in Types /\ Convertible[K] /\ Convertible[E] /\ K[1] \in Ints \cup {"s"}
  BY ZenonT(60), KeyTypes DEF Suits
<1>2. DictOfType(sig, T)
  BY ZenonT(60), DictParts
<1>3. Len(sig) > 1 /\ sig[2] = "{"
  BY <1>2, Zenon DEF DictOfType
<1>4. v[1] = sig /\ \A i \in D : Says(H, K, vs[i][1]) /\ Says(H, E, vs[i][2])
  BY Zenon DEF Suits, SaysOf
<1>5. vs # <<>> /\ \A i \in D : /\ K[1] \in Ints => vs[i][1][2] \in LongLong
                                /\ Says(P, E, vs[i][2])
                                /\ \A k \in D : vs[i][1] = vs[k][1] => i = k
  BY Zenon DEF Suits, PlainOf
<1>6. vs \in Seq(Values \X Values)
  BY <1>3, <1>4, ValueParts, Zenon
<1> HIDE DEF K, E, vs, sig, D
<1>7. \A i \in D : vs[i][1] \in Values /\ vs[i][2] \in Values
  BY <1>6, SeqPairs, Zenon DEF D, vs
<1>8. ASSUME NEW i \in D
      PROVE  /\ Told(K, vs[i][1], Tells(J, K, vs[i][1], FALSE)) /\ Says(P, K, vs[i][1])
             /\ K[1] \in Ints => TextOf(vs[i][1]) = <<"int", vs[i][1][2]>>
             /\ K[1] = "s" => TextOf(vs[i][1]) = vs[i][1][2]
  <2>1. Told(K, vs[i][1], Tells(J, K, vs[i][1], FALSE)) /\ Says(P, K, vs[i][1])
    BY <1>1, <1>4, <1>7, Zenon DEF KeysTold
  <2> QED
    BY ZenonT(60), <1>1, <1>5, <1>7, <2>1, KeyTold
<1>9. ASSUME NEW i \in D, NEW k \in D, TextOf(vs[i][1]) = TextOf(vs[k][1]) PROVE i = k
  <2>1. vs[i][1][2] = vs[k][1][2]
    <3>1. CASE K[1] \in Ints
      <4>1. <<"int", vs[i][1][2]>> = <<"int", vs[k][1][2]>>
        BY <1>8, <1>9, <3>1, Zenon
      <4>2. \A m, n : <<"int", m>> = <<"int", n>> => m = n
        BY ZenonT(60)
      <4> QED
        BY <4>1, <4>2, Zenon
    <3>2. CASE K[1] = "s"
      BY <1>8, <1>9, <3>2, Zenon
    <3>3. K[1] \in Ints \/ K[1] = "s"
      BY ZenonT(60), <1>1
    <3> QED
      BY <3>1, <3>2, <3>3, Zenon
  <2>2. vs[i][1][1] = vs[k][1][1]
    <3>1. Told(K, vs[i][1], Tells(J, K, vs[i][1], FALSE)) /\ Told(K, vs[k][1], Tells(J, K, vs[k][1], FALSE))
      BY ZenonT(60), <1>8
    <3> QED
      BY <3>1, Zenon DEF Told
  <2>3. vs[i][1] = vs[k][1]
    <3>1. vs[i][1] \in Values /\ vs[k][1] \in Values
      BY ZenonT(60), <1>7
    <3>2. vs[i][1] = <<vs[i][1][1], vs[i][1][2]>> /\ vs[k][1] = <<vs[k][1][1], vs[k][1][2]>>
      BY <3>1, ValuePair, Zenon
    <3> QED
      BY <2>1, <2>2, <3>2, Zenon
  <2> QED
    BY ZenonT(60), <1>5, <2>3
<1>10. DictSuits(H, P, T, vs)
  BY <1>4, <1>5, <1>6, <1>7, <1>8, <1>9, Zenon DEF DictSuits, K, E, D
<1> QED
  BY <1>4, <1>10, Zenon DEF vs, sig

\* What is read for a dictionary's entries.
DictRead(X, J, sig, T, vs, binary, i) ==
    /\ KeyText(Gets(X, binary, <<sig[3]>>, <<vs[i][1]>>).json) = TextOf(vs[i][1])
    /\ Gets(X, binary, <<sig[3]>>, <<vs[i][1]>>).ok
    /\ Gets(X, binary, Tail(Inner(Tail(sig))), <<vs[i][2]>>) = Read(Tells(J, T[3], vs[i][2], binary))
    /\ \A k \in DOMAIN vs : TextOf(vs[i][1]) = TextOf(vs[k][1]) => i = k

LEMMA ReadEntries ==
    ASSUME NEW X, NEW H, NEW P, NEW J, ReadsAs(X, H, P, J), NEW T \in Types, IsDict(T),
           NEW v \in Values, Suits(H, P, T, v), NEW binary \in BOOLEAN
    PROVE  /\ v[2] \in Seq(Values \X Values) /\ v[2] # <<>>
           /\ \A i \in DOMAIN v[2] : DictRead(X, J, SigOf[T], T, v[2], binary, i)
<1> DEFINE K == T[2]
           E == T[3]
           vs == v[2]
           sig == SigOf[T]
           D == DOMAIN vs
<1>1. K \in Types /\ E \in Types /\ Convertible[K] /\ Convertible[E] /\ K[1] \in Ints \cup {"s"}
  <2>1. Convertible[T]
    BY Zenon DEF Suits
  <2> QED
    BY <2>1, KeyTypes, Zenon DEF IsDict
<1>2. DictOfType(sig, T)
  BY DictParts, Zenon DEF IsDict
<1>3. sig[3] = K[1] /\ Tail(Inner(Tail(sig))) = SigOf[E]
  BY <1>2, Zenon DEF DictOfType
<1>4. KeysTold(H, P, J)
  BY Zenon DEF ReadsAs
<1>5. DictSuits(H, P, T, vs)
  BY <1>4, DictEntries, Zenon DEF IsDict
<1>6. <<sig[3]>> = SigOf[K]
  <2>1. K[1] \in Simple
    BY <1>1 DEF Simple, Basic
  <2>2. SigOf[K] = <<K[1]>>
    BY ZenonT(60), <1>1, <2>1, SigCases
  <2> QED
    BY <1>3, <2>2, Zenon
<1>7. /\ vs \in Seq(Values \X Values) /\ vs # <<>>
      /\ \A i \in D : /\ vs[i][1] \in Values /\ Says(H, K, vs[i][1]) /\ Says(P, K, vs[i][1])
                      /\ vs[i][2] \in Values /\ Says(H, E, vs[i][2]) /\ Says(P, E, vs[i][2])
                      /\ K[1] \in Ints => vs[i][1][2] \in LongLong
                      /\ \A k \in D : TextOf(vs[i][1]) = TextOf(vs[k][1]) => i = k
  BY <1>5, Zenon DEF DictSuits
<1> HIDE DEF K, E, vs, sig, D
<1>8. ASSUME NEW i \in D
      PROVE  KeyText(Tells(J, K, vs[i][1], binary)) = TextOf(vs[i][1])
  <2>1. Told(K, vs[i][1], Tells(J, K, vs[i][1], binary))
    BY <1>1, <1>4, <1>7, Zenon DEF KeysTold
  <2> QED
    BY <1>1, <1>7, <2>1, KeyTold
<1>9. ASSUME NEW i \in D
       PROVE  /\ KeyText(Gets(X, binary, <<sig[3]>>, <<vs[i][1]>>).json) = TextOf(vs[i][1])
              /\ Gets(X, binary, <<sig[3]>>, <<vs[i][1]>>).ok
  <2>1. Readable(H, P, K, vs[i][1])
    BY <1>1, <1>7 DEF Readable
  <2>2. ReadsIt(X, J, K, vs[i][1], binary)
    BY <1>1, <1>7, <2>1, ReadsAlone
  <2> DEFINE g == Gets(X, binary, <<sig[3]>>, <<vs[i][1]>>)
  <2>3. g = Read(Tells(J, K, vs[i][1], binary))
    BY <1>6, <2>2, Zenon DEF ReadsIt
  <2>4. g.ok /\ g.json = Tells(J, K, vs[i][1], binary)
    BY <2>3, ReadResult, Zenon
  <2> HIDE DEF g
  <2>5. KeyText(g.json) = TextOf(vs[i][1])
    BY <1>8, <2>4, Zenon
  <2> QED
    BY <2>4, <2>5, Zenon DEF g
<1>10. ASSUME NEW i \in D
       PROVE  Gets(X, binary, Tail(Inner(Tail(sig))), <<vs[i][2]>>) = Read(Tells(J, E, vs[i][2], binary))
  <2>1. Readable(H, P, E, vs[i][2])
    BY <1>1, <1>7 DEF Readable
  <2>2. ReadsIt(X, J, E, vs[i][2], binary)
    BY <1>1, <1>7, <2>1, ReadsAlone
  <2> QED
    BY <1>3, <2>2, Zenon DEF ReadsIt
<1>11. \A i \in D : DictRead(X, J, sig, T, vs, binary, i)
  BY <1>7, <1>9, <1>10, Zenon DEF DictRead, E, D
<1> QED
  BY <1>7, <1>11, Zenon DEF D, vs, sig

LEMMA ReadDict ==
    ASSUME NEW X, NEW H, NEW P, NEW J, ReadsAs(X, H, P, J), NEW T \in Types, T[1] = "{",
           NEW v \in Values, Suits(H, P, T, v), NEW binary \in BOOLEAN
    PROVE  ReadsOne(X, J, T, v, binary)
<1> DEFINE vs == v[2]
           sig == SigOf[T]
           D == DOMAIN vs
           keys == [i \in D |-> Gets(X, binary, <<sig[3]>>, <<vs[i][1]>>)]
           values == [i \in D |-> Gets(X, binary, Tail(Inner(Tail(sig))), <<vs[i][2]>>)]
           last(t) == CHOOSE i \in D : /\ KeyText(keys[i].json) = t
                                       /\ \A j \in D : j > i => KeyText(keys[j].json) # t
           of(t) == CHOOSE i \in D : TextOf(vs[i][1]) = t
           S == {KeyText(keys[i].json) : i \in D}
           U == {TextOf(vs[i][1]) : i \in D}
           got == [t \in S |-> values[last(t)].json]
           told == [t \in U |-> Tells(J, T[3], vs[of(t)][2], binary)]
<1>1. vs \in Seq(Values \X Values) /\ vs # <<>> /\ \A i \in D : DictRead(X, J, sig, T, vs, binary, i)
  <2>1. IsDict(T)
    BY Zenon DEF IsDict
  <2> QED
    BY ZenonT(60), <2>1, ReadEntries
<1>2. DictOfType(sig, T)
  BY ZenonT(60), DictParts
<1>3. IsType(sig) /\ sig[2] = "{" /\ v[1] = sig
  BY <1>2, Zenon DEF DictOfType, Suits, SaysOf
<1>4. OneCases(X, binary, T, sig, v)
  BY ZenonT(60), <1>3, ExtractOneCases
<1>5. TellsCase(J, T, v, binary)
  BY ZenonT(60), TellsCases
<1>6. ExtractOne(X, binary, sig, v) = ExtractDict(X, binary, sig, vs)
  BY <1>3, <1>4, Zenon DEF OneCases
<1>7. TellsOf(J, T, v, binary) = Object(told)
  BY <1>5, Zenon DEF TellsCase
<1>8. ExtractDict(X, binary, sig, vs) =
        IF vs = <<>> THEN Read(Null)
        ELSE IF \A i \in D : keys[i].ok /\ values[i].ok THEN Read(Object(got)) ELSE Unread
  BY Zenon DEF ExtractDict, Gets
<1>9. ASSUME NEW i \in D
      PROVE  /\ KeyText(keys[i].json) = TextOf(vs[i][1]) /\ keys[i].ok
             /\ values[i] = Read(Tells(J, T[3], vs[i][2], binary))
             /\ \A k \in D : TextOf(vs[i][1]) = TextOf(vs[k][1]) => i = k
  <2>1. DictRead(X, J, sig, T, vs, binary, i)
    BY ZenonT(60), <1>1
  <2>2. keys[i] = Gets(X, binary, <<sig[3]>>, <<vs[i][1]>>)
    BY Zenon
  <2>3. values[i] = Gets(X, binary, Tail(Inner(Tail(sig))), <<vs[i][2]>>)
    BY Zenon
  <2> HIDE DEF keys, values
  <2> QED
    BY <2>1, <2>2, <2>3, Zenon DEF DictRead
<1>10. D \subseteq Nat
  BY <1>1, SeqDomain, Zenon
<1> HIDE DEF vs, sig, D, keys, values
<1>11. S = U
  <2>1. \A x : x \in S <=> \E i \in D : x = KeyText(keys[i].json)
    BY ZenonT(60)
  <2>2. \A x : x \in U <=> \E i \in D : x = TextOf(vs[i][1])
    BY ZenonT(60)
  <2> HIDE DEF S, U
  <2>3. ASSUME NEW x \in S PROVE x \in U
    <3>1. PICK i \in D : x = KeyText(keys[i].json)
      BY <2>1, Zenon
    <3>2. KeyText(keys[i].json) = TextOf(vs[i][1])
      BY ZenonT(60), <1>9
    <3> QED
      BY <2>2, <3>1, <3>2, Zenon
  <2>4. ASSUME NEW x \in U PROVE x \in S
    <3>1. PICK i \in D : x = TextOf(vs[i][1])
      BY <2>2, Zenon
    <3>2. KeyText(keys[i].json) = TextOf(vs[i][1])
      BY ZenonT(60), <1>9
    <3> QED
      BY <2>1, <3>1, <3>2, Zenon
  <2> QED
    BY <2>3, <2>4, SameMembers, Zenon
<1>12. ASSUME NEW i \in D PROVE last(TextOf(vs[i][1])) = i /\ of(TextOf(vs[i][1])) = i
  <2> DEFINE t == TextOf(vs[i][1])
             L(k) == KeyText(keys[k].json) = t /\ \A j \in D : j > k => KeyText(keys[j].json) # t
  <2>1. KeyText(keys[i].json) = t /\ \A k \in D : KeyText(keys[k].json) = t => k = i
    BY ZenonT(60), <1>9
  <2>2. ~(i > i)
    <3>1. i \in Nat
      BY <1>10, Zenon
    <3> QED
      BY <3>1, NotAbove, Zenon
  <2> HIDE DEF t
  <2>3. L(i)
    BY ZenonT(60), <2>1, <2>2
  <2>4. last(t) \in D /\ L(last(t))
    <3> HIDE DEF L
    <3>1. last(t) = CHOOSE k \in D : L(k)
      BY Zenon DEF L
    <3> HIDE DEF last
    <3> QED
      BY ZenonT(60), <2>3, <3>1
  <2>5. last(t) = i
    <3> HIDE DEF last
    <3> QED
      BY ZenonT(60), <2>1, <2>4
  <2>6. of(t) \in D /\ TextOf(vs[of(t)][1]) = t
    BY ZenonT(60) DEF t
  <2>7. of(t) = i
    <3> HIDE DEF of
    <3> QED
      BY ZenonT(60), <1>9, <2>6 DEF t
  <2> QED
    BY <2>5, <2>7, Zenon DEF t
<1>13. got = told
  <2>1. ASSUME NEW t \in U PROVE values[last(t)].json = Tells(J, T[3], vs[of(t)][2], binary)
    <3>1. PICK i \in D : t = TextOf(vs[i][1])
      BY ZenonT(60)
    <3>2. last(t) = i /\ of(t) = i
      <4>1. last(TextOf(vs[i][1])) = i /\ of(TextOf(vs[i][1])) = i
        BY ZenonT(60), <1>12
      <4> HIDE DEF last, of
      <4> QED
        BY <3>1, <4>1, Zenon
    <3> HIDE DEF last, of
    <3>3. values[i].json = Tells(J, T[3], vs[i][2], binary)
      BY <1>9, ReadResult, Zenon
    <3> QED
      BY <3>2, <3>3, Zenon
  <2> HIDE DEF last, of, S, U
  <2> QED
    BY ZenonT(60), <1>11, <2>1
<1>14. \A i \in D : keys[i].ok /\ values[i].ok
  <2>1. ASSUME NEW i \in D PROVE keys[i].ok /\ values[i].ok
    <3>1. keys[i].ok /\ values[i] = Read(Tells(J, T[3], vs[i][2], binary))
      BY ZenonT(60), <1>9
    <3>2. Read(Tells(J, T[3], vs[i][2], binary)).ok
      BY ZenonT(60), ReadResult
    <3> QED
      BY <3>1, <3>2, Zenon
  <2> QED
    BY ZenonT(60), <2>1
<1> HIDE DEF got, told
<1>15. ExtractDict(X, binary, sig, vs) = Read(Object(told))
  BY <1>1, <1>8, <1>13, <1>14, Zenon
<1> QED
  BY <1>6, <1>7, <1>15, Zenon DEF ReadsOne, sig

-----------------------------------------------------------------------------
(* Reading what has several parts *)

\* What a level up has and says.
LEMMA SuitsReadable ==
    ASSUME NEW H, NEW P, NEW T \in Types, NEW v \in Values,
           Readable(TypedOver(H), PlainOver(P), T, v)
    PROVE  Suits(H, P, T, v)
  BY SaysOver, PlainSays, Zenon DEF Readable, Suits

LEMMA ReadsEvery ==
    ASSUME NEW X, NEW H, NEW P, NEW J, ReadsAs(X, H, P, J), NEW T \in Types,
           NEW v \in Values, Suits(H, P, T, v), NEW binary \in BOOLEAN
    PROVE  ReadsOne(X, J, T, v, binary)
<1>1. CASE T[1] \in Ints \cup {"b", "d", "s"}
  BY <1>1, ReadSimple
<1>2. CASE T[1] = "v"
  BY <1>2, ReadVariant
<1>3. CASE T[1] = "("
  BY <1>3, ReadStruct
<1>4. CASE T[1] = "a"
  BY <1>4, ReadArray
<1>5. CASE T[1] = "{"
  BY ZenonT(60), <1>5, ReadDict
<1>6. T[1] \in Ints \cup {"b", "d", "s"} \/ T[1] \in {"v", "(", "a", "{"}
  <2>1. ConvertibleOver(T, Convertible)
    BY ConvertibleDefined DEF Suits
  <2>2. \A c \in Simple : c \notin Refused \cup {"h"} => c \in Ints \cup {"b", "d", "s"} \/ c = "v"
    BY DEF Simple, Basic
  <2> QED
    BY ZenonT(60), <2>1, <2>2 DEF ConvertibleOver
<1> QED
  BY <1>1, <1>2, <1>3, <1>4, <1>5, <1>6, Zenon

\* Keys are simple, and simple types are told alike on every level.
LEMMA KeysToldOver ==
    ASSUME NEW H, NEW P, NEW J
    PROVE  KeysTold(TypedOver(H), PlainOver(P), JsonOver(J))
<1> SUFFICES ASSUME NEW T \in Types, T[1] \in Ints \cup {"s"}, NEW v \in Values,
                    Says(TypedOver(H), T, v)
             PROVE  Says(PlainOver(P), T, v)
                    /\ \A binary \in BOOLEAN : Told(T, v, Tells(JsonOver(J), T, v, binary))
  BY Zenon DEF KeysTold
<1>1. v[1] = SigOf[T]
  <2>1. SaysOf(H, T, v)
    BY SaysOver
  <2> QED
    BY <2>1, Zenon DEF SaysOf
<1>2. T[1] \notin {"(", "{", "a", "v"} /\ (T[1] \in Ints => T[1] # "s")
  BY ZenonT(60) DEF Ints, Signed, Unsigned
<1>3. PlainOf(P, T, v)
  BY ZenonT(60), <1>2 DEF PlainOf
<1>4. Says(PlainOver(P), T, v)
  BY <1>3, PlainSays
<1>5. ASSUME NEW binary \in BOOLEAN PROVE Told(T, v, Tells(JsonOver(J), T, v, binary))
  <2>1. Tells(JsonOver(J), T, v, binary) = TellsOf(J, T, v, binary)
    BY TellsOver
  <2>2. TellsCase(J, T, v, binary)
    BY TellsCases
  <2>3. CASE T[1] \in Ints
    <3>1. TellsOf(J, T, v, binary) = <<"num", v[2]>>
      BY <2>2, <2>3, Zenon DEF TellsCase
    <3>2. T[1] # "s"
      BY <1>2, <2>3, Zenon
    <3> QED
      BY <1>1, <2>1, <3>1, <3>2, Zenon DEF Told
  <2>4. CASE T[1] = "s"
    <3>1. TellsOf(J, T, v, binary) = <<"str", v[2]>>
      BY <2>2, <2>4, Zenon DEF TellsCase
    <3> QED
      BY <1>1, <2>1, <2>4, <3>1, Zenon DEF Told
  <2>5. T[1] \in Ints \/ T[1] = "s"
    OBVIOUS
  <2> QED
    BY <2>3, <2>4, <2>5, Zenon
<1> QED
  BY <1>4, <1>5

\* The signature of several types is cut up into theirs.
LEMMA PiecesRead ==
    ASSUME NEW X, NEW H, NEW P, NEW J, ReadsAs(X, H, P, J), NEW Ts \in Seq(Types), Ts # <<>>,
           NEW vs, AllReadable(TypedOver(H), PlainOver(P), Ts, vs), NEW binary \in BOOLEAN
    PROVE  ExtractPieces(X, binary, Flat(Ts), vs) = Read(TellsAll(JsonOver(J), Ts, vs, binary))
<1> DEFINE n == Len(Ts)
           pieces == split[Flat(Ts)].result
           rs == [i \in DOMAIN pieces |->
                    IF i > Len(vs) THEN Unread ELSE ExtractOne(X, binary, pieces[i], vs[i])]
           told(i) == Tells(JsonOver(J), Ts[i], vs[i], binary)
<1>1. /\ vs \in Seq(Values) /\ Len(vs) = n
      /\ \A i \in 1..n : Readable(TypedOver(H), PlainOver(P), Ts[i], vs[i])
  BY Zenon DEF AllReadable
<1>2. n \in Nat /\ n # 0 /\ DOMAIN Ts = 1..n /\ DOMAIN vs = 1..n
  <2>1. n \in Nat /\ n # 0
    OBVIOUS
  <2> QED
    BY <1>1, <2>1, SeqDomain, Zenon
<1>3. \A i \in 1..n : Ts[i] \in Types /\ vs[i] \in Values
  BY <1>1
<1>4. split[Flat(Ts)].ok /\ pieces = SigsOf(Ts)
  <2>1. AllWhole(Ts, n)
    BY <1>1, <1>3, ConvertibleWhole DEF AllWhole, Readable
  <2>2. split[Flat(Ts)] = [ok |-> TRUE, result |-> SigsOf(Ts)]
    BY <2>1, PiecesWhole
  <2>3. \A u, x : u = [ok |-> TRUE, result |-> x] => u.ok /\ u.result = x
    OBVIOUS
  <2> QED
    BY <2>2, <2>3, Zenon
<1>5. /\ DOMAIN pieces = 1..n /\ Len(pieces) = n /\ pieces # <<>>
      /\ \A i \in 1..n : pieces[i] = SigOf[Ts[i]]
  <2>1. SigsOf(Ts) \in Seq(Seq(Chars)) /\ Len(SigsOf(Ts)) = n /\ \A i \in 1..n : SigsOf(Ts)[i] = SigOf[Ts[i]]
    BY SigsType
  <2>2. DOMAIN SigsOf(Ts) = 1..n
    BY <2>1, SeqDomain, Zenon
  <2>3. Len(<<>>) = 0
    OBVIOUS
  <2> HIDE DEF n
  <2> QED
    BY <1>2, <1>4, <2>1, <2>2, <2>3, Zenon
<1>6. ExtractPieces(X, binary, Flat(Ts), vs) =
        IF ~split[Flat(Ts)].ok \/ pieces = <<>> \/ \E i \in DOMAIN pieces : ~rs[i].ok THEN Unread
        ELSE IF Len(pieces) = 1 THEN rs[1]
        ELSE Read(<<"arr", [i \in DOMAIN pieces |-> rs[i].json]>>)
  BY Zenon DEF ExtractPieces
<1>7. ASSUME NEW i \in 1..n PROVE rs[i] = Read(told(i))
  <2>1. Suits(H, P, Ts[i], vs[i])
    BY <1>1, <1>3, SuitsReadable
  <2>2. ReadsOne(X, J, Ts[i], vs[i], binary)
    BY <1>3, <2>1, ReadsEvery
  <2>3. told(i) = TellsOf(J, Ts[i], vs[i], binary)
    BY <1>3, TellsOver
  <2>4. ~(i > Len(vs))
    <3>1. \A m \in Nat : \A k \in 1..m : ~(k > m)
      OBVIOUS
    <3> HIDE DEF n
    <3> QED
      BY <1>1, <1>2, <3>1, Zenon
  <2>5. i \in DOMAIN pieces
    BY <1>5
  <2> HIDE DEF pieces
  <2>6. rs[i] = ExtractOne(X, binary, pieces[i], vs[i])
    BY <2>4, <2>5, Zenon
  <2>7. pieces[i] = SigOf[Ts[i]]
    BY <1>5
  <2> HIDE DEF rs, told
  <2> QED
    BY <2>2, <2>3, <2>6, <2>7, Zenon DEF ReadsOne
<1> HIDE DEF rs, told, pieces
<1>8. \A i \in 1..n : rs[i].ok /\ rs[i].json = told(i)
  BY <1>7, ReadResult, Zenon
<1>9. [i \in DOMAIN pieces |-> rs[i].json] = [i \in DOMAIN vs |-> told(i)]
  BY <1>2, <1>5, <1>8
<1>10. CASE n = 1
  <2>1. 1 \in 1..n
    BY <1>10
  <2>2. rs[1] = Read(told(1))
    BY <1>7, <2>1
  <2>3. TellsAll(JsonOver(J), Ts, vs, binary) = told(1)
    BY <1>10, Zenon DEF TellsAll, told
  <2> QED
    BY <1>4, <1>5, <1>6, <1>8, <1>10, <2>2, <2>3, Zenon
<1>11. CASE n # 1
  <2>1. TellsAll(JsonOver(J), Ts, vs, binary) = <<"arr", [i \in DOMAIN vs |-> told(i)]>>
    BY <1>11, Zenon DEF TellsAll, told
  <2> QED
    BY <1>4, <1>5, <1>6, <1>8, <1>9, <1>11, <2>1, Zenon
<1> QED
  BY <1>10, <1>11

LEMMA LevelReads ==
    ASSUME NEW X, NEW H, NEW P, NEW J, ReadsAs(X, H, P, J)
    PROVE  ReadsAs(ExtractAny(X), TypedOver(H), PlainOver(P), JsonOver(J))
<1>1. KeysTold(TypedOver(H), PlainOver(P), JsonOver(J))
  BY KeysToldOver
<1>2. ASSUME NEW Ts \in Seq(Types), Ts # <<>>, NEW vs,
             AllReadable(TypedOver(H), PlainOver(P), Ts, vs), NEW binary \in BOOLEAN
      PROVE  Gets(ExtractAny(X), binary, Flat(Ts), vs) = Read(TellsAll(JsonOver(J), Ts, vs, binary))
  <2>1. ExtractPieces(X, binary, Flat(Ts), vs) = Read(TellsAll(JsonOver(J), Ts, vs, binary))
    BY <1>2, PiecesRead
  <2>2. Flat(Ts) \in Seq(Chars)
    BY SigsType
  <2>3. vs \in Seq(Values)
    BY <1>2, Zenon DEF AllReadable
  <2>4. Gets(ExtractAny(X), binary, Flat(Ts), vs) = ExtractPieces(X, binary, Flat(Ts), vs)
    BY <2>2, <2>3, GetsOver
  <2> QED
    BY <2>1, <2>4, Zenon
<1> QED
  BY <1>1, <1>2, Zenon DEF ReadsAs

\* With no container left to be opened nothing has a type.
ReadBottom == [arg \in BOOLEAN \X Seq(Chars) \X Seq(Values) |-> Unread]
PlainBottom == [tv \in Types \X Values |-> FALSE]
JsonBottom == [tvb \in Types \X Values \X BOOLEAN |-> Null]

LEMMA BottomReads == ReadsAs(ReadBottom, TypedBottom, PlainBottom, JsonBottom)
<1>1. ASSUME NEW T \in Types, NEW v \in Values PROVE ~Says(TypedBottom, T, v)
  <2>1. TypedBottom[<<T, v>>] = FALSE
    BY DEF TypedBottom
  <2>2. TypedBottom[T, v] = TypedBottom[<<T, v>>]
    BY Zenon
  <2> QED
    BY <2>1, <2>2, Zenon DEF Says
<1>2. KeysTold(TypedBottom, PlainBottom, JsonBottom)
  BY <1>1, Zenon DEF KeysTold
<1>3. ASSUME NEW Ts \in Seq(Types), Ts # <<>>, NEW vs, AllReadable(TypedBottom, PlainBottom, Ts, vs)
      PROVE  FALSE
  <2>1. vs \in Seq(Values) /\ Len(vs) = Len(Ts) /\ \A i \in 1..Len(Ts) : Says(TypedBottom, Ts[i], vs[i])
    BY <1>3, Zenon DEF AllReadable, Readable
  <2>2. 1 \in 1..Len(Ts) /\ Ts[1] \in Types /\ vs[1] \in Values
    BY <1>3, <2>1
  <2> QED
    BY <1>1, <2>1, <2>2, Zenon
<1> QED
  BY <1>2, <1>3, Zenon DEF ReadsAs

LEMMA ReadsMessage == ReadsAs(ExtractMessage[Nesting], HasType[Nesting], Plain[Nesting], JsonOf[Nesting])
<1> DEFINE Good(n) == ReadsAs(ExtractMessage[n], HasType[n], Plain[n], JsonOf[n])
           S == {n \in 0..Nesting : Good(n)}
<1>1. Nesting \in Nat
  BY DataAssumption
<1>2. 0 \in S
  <2>1. ASSUME NEW n \in Nat, n = 0 PROVE Good(n)
    <3>1. /\ ExtractMessage[n] = ExtractAny(ReadBottom) /\ HasType[n] = TypedOver(TypedBottom)
          /\ Plain[n] = PlainOver(PlainBottom) /\ JsonOf[n] = JsonOver(JsonBottom)
      BY <2>1, ExtractMessageLevels, HasTypeLevels, PlainLevelled, JsonOfLevelled, Zenon
         DEF ReadBottom, TypedBottom, PlainBottom, JsonBottom
    <3>2. ReadsAs(ExtractAny(ReadBottom), TypedOver(TypedBottom), PlainOver(PlainBottom), JsonOver(JsonBottom))
      BY BottomReads, LevelReads
    <3> QED
      BY <3>1, <3>2, Zenon
  <2>2. Good(0)
    BY <2>1
  <2> HIDE DEF Good
  <2> QED
    BY <1>1, <2>2
<1>3. ASSUME NEW n \in 1..Nesting, n - 1 \in S PROVE n \in S
  <2>1. n \in Nat /\ n # 0 /\ n \in 0..Nesting
    BY <1>1
  <2>2. /\ ExtractMessage[n] = ExtractAny(ExtractMessage[n - 1]) /\ HasType[n] = TypedOver(HasType[n - 1])
        /\ Plain[n] = PlainOver(Plain[n - 1]) /\ JsonOf[n] = JsonOver(JsonOf[n - 1])
    BY <2>1, ExtractMessageLevels, HasTypeLevels, PlainLevelled, JsonOfLevelled, Zenon
  <2>3. Good(n - 1)
    BY <1>3
  <2>4. ReadsAs(ExtractAny(ExtractMessage[n - 1]), TypedOver(HasType[n - 1]), PlainOver(Plain[n - 1]),
                JsonOver(JsonOf[n - 1]))
    BY <2>3, LevelReads
  <2>5. Good(n)
    BY <2>2, <2>4, Zenon
  <2> HIDE DEF Good
  <2> QED
    BY <2>1, <2>5
<1> HIDE DEF S
<1>4. 0..Nesting \subseteq S
  BY <1>1, <1>2, <1>3, InductionUpTo
<1>5. Nesting \in S
  BY <1>1, <1>4
<1>6. Good(Nesting)
  <2> HIDE DEF Good
  <2> QED
    BY <1>5 DEF S
<1> QED
  BY <1>6

-----------------------------------------------------------------------------
(* The reply *)

\* What the service sends back has the types it declares, and the answer is what
\* was read of it.
ReplyTyped ==
    /\ reply \in Seq(Values)
    /\ (\A i \in DOMAIN call.out : call.out[i] # <<"h">>) => HaveTypes(call.out, reply)

ReplyInv ==
    /\ binary_support \in BOOLEAN
    /\ stage \in {"replied", "answered", "unreadable"} => ReplyTyped
    /\ stage = "unreadable" => \E i \in DOMAIN call.out : ~ReplyArg(i).ok
    /\ stage = "answered" /\ call.out # <<>> =>
         body = <<"arr", [i \in DOMAIN call.out |-> ReplyArg(i).json]>>

LEMMA MessageValues ==
    ASSUME InCalls, PayloadInv
    PROVE  message \in Seq(Values)
<1>1. CASE message = <<>>
  BY <1>1
<1>2. CASE message # <<>>
  <2>1. PICK outs : ArgsFilled(outs) /\ message = FlattenSeq(outs)
    BY <1>2, MethodFilled DEF PayloadInv
  <2>2. outs \in Seq(Seq(Values))
    BY <2>1 DEF ArgsFilled, OutsTyped
  <2> QED
    BY <2>1, <2>2, FlattenType
<1> QED
  BY <1>1, <1>2

\* Its own values, or what it was sent.
LEMMA ServeTyped ==
    ASSUME InCalls, PayloadInv, MessageTyped, Serve
    PROVE  ReplyTyped'
<1>1. call' = call /\ Len(message) = Len(call.in)
  BY DEF Serve
<1>2. call.in \in Seq(Types)
  BY InputsAssumption DEF InCalls, CallsAssumption
<1>3. message \in Seq(Values)
  BY MessageValues
<1>4. CASE call.in = call.out
  <2>1. reply' = message
    BY <1>4 DEF Serve
  <2>2. ASSUME \A i \in DOMAIN call.in : call.in[i] # <<"h">> PROVE HaveTypes(call.in, message)
    <3>1. CASE message = <<>>
      <4>1. DOMAIN message = {} /\ Len(message) = Len(call.in)
        BY <1>1, <3>1
      <4> QED
        BY <4>1 DEF HaveTypes
    <3>2. CASE message # <<>>
      BY <2>2, <3>2 DEF MessageTyped
    <3> QED
      BY <3>1, <3>2
  <2>3. HaveTypes(call.in, message) = HaveTypes(call.out, reply')
    BY <1>4, <2>1
  <2> HIDE <1>4
  <2>4. (\A i \in DOMAIN call.out : call.out[i] # <<"h">>) => HaveTypes(call.out, reply')
    BY <1>4, <2>2, <2>3, Zenon
  <2> QED
    BY <1>1, <1>3, <2>1, <2>4, Zenon DEF ReplyTyped, HaveTypes
<1>5. CASE call.in # call.out
  <2>1. reply' \in Produces[call.out] /\ call \in Calls
    BY <1>5, Zenon DEF Serve, InCalls
  <2>2. reply' \in Seq(Values) /\ HaveTypes(call.out, reply')
    BY <1>5, <2>1, InputsAssumption, Zenon DEF ProducesAssumption
  <2> QED
    BY <1>1, <2>2, Zenon DEF ReplyTyped, HaveTypes
<1> QED
  BY <1>4, <1>5

LEMMA ReplyInvAlways == PayloadSpec => []ReplyInv
<1>1. PayloadInit => ReplyInv
  BY DEF PayloadInit, ReplyInv
<1>2. InCalls /\ PayloadInv /\ MessageTyped /\ ReplyInv /\ [PayloadNext]_vars => ReplyInv'
  <2> SUFFICES ASSUME InCalls, PayloadInv, MessageTyped, ReplyInv, [PayloadNext]_vars
               PROVE  ReplyInv'
    OBVIOUS
  <2>1. CASE FillArgs \/ RefuseArgs \/ ServeError
    BY <2>1 DEF FillArgs, RefuseArgs, ServeError, ReplyInv
  <2>2. CASE Serve
    <3>1. ReplyTyped'
      BY <2>2, ServeTyped
    <3>2. stage' = "replied" /\ binary_support' = binary_support
      BY <2>2 DEF Serve
    <3> QED
      BY <3>1, <3>2 DEF ReplyInv
  <2>3. CASE ExtractArgs
    <3>1. stage = "replied" /\ stage' = "answered" /\ UNCHANGED <<call, binary_support, reply>>
      BY <2>3 DEF ExtractArgs
    <3>2. ReplyTyped'
      BY ZenonT(60), <3>1 DEF ReplyInv, ReplyTyped, HaveTypes
    <3>3. call.out # <<>> => body' = <<"arr", [i \in DOMAIN call.out |-> ReplyArg(i).json]>>
      BY <2>3 DEF ExtractArgs
    <3>4. [i \in DOMAIN call.out |-> ReplyArg(i).json]' = [i \in DOMAIN call.out |-> ReplyArg(i).json]
      BY <3>1 DEF ReplyArg
    <3> QED
      BY <3>1, <3>2, <3>3, <3>4 DEF ReplyInv
  <2>4. CASE FailOnReply
    <3>1. /\ stage = "replied" /\ stage' = "unreadable" /\ UNCHANGED <<call, binary_support, reply>>
          /\ \E i \in DOMAIN call.out : ~ReplyArg(i).ok
      BY <2>4 DEF FailOnReply
    <3>2. ReplyTyped'
      BY ZenonT(60), <3>1 DEF ReplyInv, ReplyTyped, HaveTypes
    <3>3. \E i \in DOMAIN call'.out : ~ReplyArg(i)'.ok
      BY ZenonT(60), <3>1 DEF ReplyArg
    <3> QED
      BY <3>1, <3>2, <3>3 DEF ReplyInv
  <2>5. CASE UNCHANGED vars
    BY ZenonT(60), <2>5 DEF vars, ReplyInv, ReplyTyped, ReplyArg, HaveTypes
  <2> QED
    BY <2>1, <2>2, <2>3, <2>4, <2>5 DEF PayloadNext
<1> QED
  BY <1>1, <1>2, InCallsAlways, PayloadInvAlways, MessageTypedAlways, PTL DEF PayloadSpec

\* Whatever a service returns of types the code can handle, the body of the
\* response says the same: Message2Json loses, mixes up and refuses nothing of it.
THEOREM ReplyAsSentAlways == PayloadSpec => []ReplyAsSent
<1>1. InCalls /\ ReplyInv => ReplyAsSent
  <2> SUFFICES ASSUME InCalls, ReplyInv, ConvertibleAll(call.out), PlainAll(call.out, reply),
                      stage \in {"answered", "unreadable"}
               PROVE  /\ stage # "unreadable"
                      /\ stage = "answered" /\ call.out # <<>> =>
                           body = <<"arr", JsonOfAll(call.out, reply, binary_support)>>
    BY DEF ReplyAsSent
  <2> DEFINE told(i) == Tells(JsonOf[Nesting], call.out[i], reply[i], binary_support)
  <2>1. call.out \in Seq(Types) /\ binary_support \in BOOLEAN /\ ReplyTyped
    BY InputsAssumption DEF InCalls, CallsAssumption, ReplyInv
  <2>2. \A i \in DOMAIN call.out : call.out[i] \in Types /\ Convertible[call.out[i]]
    BY <2>1 DEF ConvertibleAll
  <2>3. \A i \in DOMAIN call.out : call.out[i] # <<"h">>
    <3>1. \A T \in Types : T = <<"h">> => ~ConvertibleOver(T, Convertible)
      BY DEF ConvertibleOver
    <3> QED
      BY <2>2, <3>1, ConvertibleDefined
  <2>4. HaveTypes(call.out, reply) /\ reply \in Seq(Values)
    BY <2>1, <2>3 DEF ReplyTyped
  <2>5. DOMAIN reply = DOMAIN call.out
    BY <2>1, <2>4, SeqDomain, Zenon DEF HaveTypes
  <2>6. ASSUME NEW i \in DOMAIN call.out PROVE ReplyArg(i) = Read(told(i))
    <3>1. reply[i] \in Values
      BY <2>4, <2>5
    <3>2. Readable(HasType[Nesting], Plain[Nesting], call.out[i], reply[i])
      BY <2>2, <2>4, <2>5, Zenon DEF Readable, Says, HaveTypes, PlainAll
    <3>3. ReadsIt(ExtractMessage[Nesting], JsonOf[Nesting], call.out[i], reply[i], binary_support)
      BY <2>1, <2>2, <3>1, <3>2, ReadsMessage, ReadsAlone
    <3> QED
      BY <3>3, Zenon DEF ReadsIt, ReplyArg, Gets
  <2> HIDE DEF told
  <2>7. \A i \in DOMAIN call.out : ReplyArg(i).ok /\ ReplyArg(i).json = told(i)
    BY <2>6, ReadResult, Zenon
  <2>8. stage # "unreadable"
    BY <2>7, Zenon DEF ReplyInv
  <2>9. ASSUME stage = "answered", call.out # <<>>
        PROVE  body = <<"arr", JsonOfAll(call.out, reply, binary_support)>>
    <3>1. [i \in DOMAIN call.out |-> ReplyArg(i).json] = [i \in DOMAIN reply |-> told(i)]
      <4> DEFINE f(i) == ReplyArg(i).json
      <4>1. \A i \in DOMAIN call.out : f(i) = told(i)
        BY <2>7
      <4> HIDE DEF f
      <4>2. [i \in DOMAIN call.out |-> f(i)] = [i \in DOMAIN reply |-> told(i)]
        BY <2>5, <4>1
      <4> QED
        BY <4>2 DEF f
    <3>2. JsonOfAll(call.out, reply, binary_support) = [i \in DOMAIN reply |-> told(i)]
      BY Zenon DEF JsonOfAll, told, Tells
    <3> QED
      BY <2>9, <3>1, <3>2, Zenon DEF ReplyInv
  <2> QED
    BY <2>8, <2>9, Zenon
<1> QED
  BY <1>1, InCallsAlways, ReplyInvAlways, PTL
-----------------------------------------------------------------------------
(* Objects *)

\* s has one member for each key of f.
Lists(s, f) ==
    /\ DOMAIN s = 1..Len(s) /\ Len(s) \in Nat
    /\ \A i \in DOMAIN s : s[i][1] \in DOMAIN f /\ s[i][2] = f[s[i][1]]
    /\ \A k \in DOMAIN f : \E i \in DOMAIN s : s[i][1] = k
    /\ \A i, k \in DOMAIN s : s[i][1] = s[k][1] => i = k

LEMMA ListOfSet ==
    ASSUME NEW S, IsFiniteSet(S)
    PROVE  /\ SetToSeq(S) \in Seq(S)
           /\ \A x \in S : \E i \in DOMAIN SetToSeq(S) : SetToSeq(S)[i] = x
           /\ \A i, k \in DOMAIN SetToSeq(S) : SetToSeq(S)[i] = SetToSeq(S)[k] => i = k
<1> DEFINE n == Cardinality(S)
           good(g) == g \in [1..n -> S] /\ IsInjective(g)
           keys == SetToSeq(S)
<1>1. n \in Nat /\ ExistsBijection(1..n, S)
  BY FS_CardinalityType
<1>2. PICK g : g \in Bijection(1..n, S)
  BY <1>1 DEF ExistsBijection
<1>3. good(g)
  BY <1>2 DEF Bijection, Injection
<1>4. keys = CHOOSE h : good(h)
  BY DEF SetToSeq
<1> HIDE DEF keys, good
<1>5. good(keys)
  BY <1>3, <1>4
<1>6. keys \in [1..n -> S] /\ IsInjective(keys)
  BY <1>5 DEF good
<1> HIDE DEF n
<1>7. keys \in Surjection(1..n, S)
  <2>1. IsFiniteSet(1..n) /\ Cardinality(1..n) = n
    <3>1. \A m \in Nat : IsFiniteSet(1..m) /\ Cardinality(1..m) = m
      BY FS_Interval
    <3> QED
      BY <1>1, <3>1
  <2>2. keys \in Injection(1..n, S)
    BY <1>6 DEF Injection
  <2> QED
    BY <2>1, <2>2, FS_Injection DEF n
<1>8. \A x \in S : \E i \in 1..n : keys[i] = x
  BY <1>7 DEF Surjection
<1> QED
  BY <1>1, <1>6, <1>8 DEF IsInjective, keys

LEMMA ObjectLists ==
    ASSUME NEW f, IsFiniteSet(DOMAIN f)
    PROVE  Object(f)[1] = "obj" /\ Lists(Object(f)[2], f)
<1> DEFINE keys == SetToSeq(DOMAIN f)
           n == Len(keys)
           s == [i \in DOMAIN keys |-> <<keys[i], f[keys[i]]>>]
           R == {<<k, f[k]>> : k \in DOMAIN f}
<1>1. Object(f) = <<"obj", s>>
  BY DEF Object
<1>2. /\ keys \in Seq(DOMAIN f)
      /\ \A x \in DOMAIN f : \E i \in DOMAIN keys : keys[i] = x
      /\ \A i, k \in DOMAIN keys : keys[i] = keys[k] => i = k
  BY ListOfSet
<1> HIDE DEF keys
<1>3. n \in Nat /\ DOMAIN keys = 1..n /\ \A i \in 1..n : keys[i] \in DOMAIN f
  BY <1>2
<1>4. DOMAIN s = 1..n /\ \A i \in 1..n : s[i][1] = keys[i] /\ s[i][2] = f[keys[i]] /\ s[i] \in R
  BY <1>3
<1> HIDE DEF n, R
<1>5. Len(s) = n
  <2>1. s \in [1..n -> R]
    BY <1>4
  <2> QED
    BY <1>3, <2>1
<1> HIDE DEF s
<1>6. Lists(s, f)
  BY <1>2, <1>3, <1>4, <1>5 DEF Lists
<1>7. \A a, b : <<a, b>>[1] = a /\ <<a, b>>[2] = b
  OBVIOUS
<1> QED
  BY <1>1, <1>6, <1>7, Zenon

\* A key is found with what f has for it.
LEMMA MemberListed ==
    ASSUME NEW f, NEW j, j[1] = "obj", Lists(j[2], f), NEW k \in DOMAIN f
    PROVE  contains(j, k) /\ Member(j, k) = f[k]
<1> DEFINE s == j[2]
           P(i) == i \in DOMAIN s /\ s[i][1] = k
<1>1. PICK i : P(i)
  BY DEF Lists
<1> DEFINE c == CHOOSE h : P(h)
<1>2. P(c)
  <2> HIDE DEF P
  <2> QED
    BY <1>1
<1>3. Member(j, k) = s[c][2]
  BY Zenon DEF Member
<1>4. s[c][2] = f[s[c][1]] /\ s[c][1] = k
  <2> HIDE DEF c
  <2> QED
    BY <1>2 DEF Lists
<1>5. contains(j, k)
  BY <1>1 DEF contains
<1> QED
  BY <1>3, <1>4, <1>5, Zenon

\* The two members of a variant's object.
VariantHas(j, sig, x) ==
    /\ j[1] = "obj"
    /\ contains(j, Key("variant")) /\ Member(j, Key("variant")) = <<"str", <<"sig", sig>>>>
    /\ contains(j, Key("value")) /\ Member(j, Key("value")) = x

LEMMA VariantParts ==
    ASSUME NEW sig, NEW x, NEW j, j = VariantJson(sig, x)
    PROVE  VariantHas(j, sig, x)
<1> DEFINE f == [k \in {Key("variant"), Key("value")} |->
                   IF k = Key("variant") THEN <<"str", <<"sig", sig>>>> ELSE x]
<1>1. Key("variant") # Key("value")
  BY DEF Key
<1>2. DOMAIN f = {Key("variant"), Key("value")}
      /\ f[Key("variant")] = <<"str", <<"sig", sig>>>> /\ f[Key("value")] = x
  BY <1>1
<1>4. IsFiniteSet(DOMAIN f)
  <2>1. IsFiniteSet({Key("variant")})
    BY FS_Singleton
  <2>2. {Key("variant"), Key("value")} = {Key("variant")} \cup {Key("value")}
    OBVIOUS
  <2> QED
    BY <1>2, <2>1, <2>2, FS_AddElement
<1>5. j = Object(f)
  BY DEF VariantJson
<1> HIDE DEF f
<1>6. j[1] = "obj" /\ Lists(j[2], f)
  BY <1>4, <1>5, ObjectLists
<1>7. Key("variant") \in DOMAIN f /\ Key("value") \in DOMAIN f
  BY <1>2
<1>8. contains(j, Key("variant")) /\ Member(j, Key("variant")) = f[Key("variant")]
  BY <1>6, <1>7, MemberListed
<1>9. contains(j, Key("value")) /\ Member(j, Key("value")) = f[Key("value")]
  BY <1>6, <1>7, MemberListed
<1> QED
  BY <1>2, <1>6, <1>8, <1>9, Zenon DEF VariantHas

-----------------------------------------------------------------------------
(* Filling in what a value's JSON says *)

\* w has the type, and is plain and told as v is.
Twin(H, P, J, T, v, w) ==
    /\ Says(H, T, w) /\ Says(P, T, w)
    /\ T[1] \in Simple \ {"v"} => w = v
    /\ \A binary \in BOOLEAN : Tells(J, T, w, binary) = Tells(J, T, v, binary)

\* r is a success that appended something alike for each value.
Backed(r, H, P, J, Ts, vs) ==
    /\ r.ok
    /\ r.out \in Seq(Values) /\ Len(r.out) = Len(Ts)
    /\ \A i \in 1..Len(Ts) : Twin(H, P, J, Ts[i], vs[i], r.out[i])

\* F takes the text of a key for the key.
KeysFilled(F, H) ==
    \A T \in Types : T[1] \in Ints \cup {"s"} =>
      \A v \in Values :
        Says(H, T, v) /\ (T[1] \in Ints => v[2] \in LongLong) /\ <<"str", TextOf(v)>> \in Jsons =>
          At(F, SigOf[T], <<"str", TextOf(v)>>) = Wrote(v)

\* Whatever J tells, F makes something alike of it.
BacksAs(F, H, P, J) ==
    /\ KeysFilled(F, H)
    /\ \A Ts \in Seq(Types) : Ts # <<>> =>
         \A vs : AllReadable(H, P, Ts, vs) =>
           \A j \in Jsons : j = TellsAll(J, Ts, vs, FALSE) => Backed(At(F, Flat(Ts), j), H, P, J, Ts, vs)

\* A value alone.
BacksIt(F, H, P, J, T, v, j) ==
    LET r == At(F, SigOf[T], j)
    IN  r.ok /\ \E w \in Values : r.out = <<w>> /\ Twin(H, P, J, T, v, w)

LEMMA BacksAlone ==
    ASSUME NEW F, NEW H, NEW P, NEW J, BacksAs(F, H, P, J),
           NEW T \in Types, NEW v \in Values, Readable(H, P, T, v),
           NEW j \in Jsons, j = Tells(J, T, v, FALSE)
    PROVE  BacksIt(F, H, P, J, T, v, j)
<1> DEFINE Ts == <<T>>
           vs == <<v>>
<1>1. Ts \in Seq(Types) /\ Ts # <<>> /\ Len(Ts) = 1 /\ Ts[1] = T /\ Flat(Ts) = SigOf[T]
  BY FlatAlone
<1>2. vs \in Seq(Values) /\ Len(vs) = 1 /\ vs[1] = v
  OBVIOUS
<1> HIDE DEF Ts, vs
<1>3. \A i \in 1..1 : i = 1
  OBVIOUS
<1>4. AllReadable(H, P, Ts, vs)
  BY <1>1, <1>2, <1>3 DEF AllReadable
<1>5. TellsAll(J, Ts, vs, FALSE) = j
  BY <1>1, <1>2 DEF TellsAll
<1> DEFINE r == At(F, SigOf[T], j)
<1>6. Backed(r, H, P, J, Ts, vs)
  <2>1. Backed(At(F, Flat(Ts), j), H, P, J, Ts, vs)
    BY <1>1, <1>4, <1>5, Zenon DEF BacksAs
  <2> QED
    BY <1>1, <2>1, Zenon
<1> HIDE DEF r
<1>7. r.ok /\ r.out \in Seq(Values) /\ Len(r.out) = 1 /\ Twin(H, P, J, T, v, r.out[1])
  <2>1. 1 \in 1..1
    OBVIOUS
  <2> QED
    BY <1>1, <1>2, <1>6, <2>1, Zenon DEF Backed
<1>8. r.out = <<r.out[1]>> /\ r.out[1] \in Values
  <2>1. \A S : \A s \in Seq(S) : Len(s) = 1 => s = <<s[1]>> /\ s[1] \in S
    OBVIOUS
  <2> QED
    BY <1>7, <2>1, Zenon
<1> QED
  BY <1>7, <1>8, Zenon DEF BacksIt, r

LEMMA PairParts == \A a, b : <<a, b>>[1] = a /\ <<a, b>>[2] = b
  OBVIOUS

\* One value, one level up.
BacksOne(F, P, J, T, v, w) ==
    /\ FillOne(F, SigOf[T], TellsOf(J, T, v, FALSE)) = Wrote(w)
    /\ PlainOf(P, T, w)
    /\ T[1] \in Simple \ {"v"} => w = v
    /\ \A binary \in BOOLEAN : TellsOf(J, T, w, binary) = TellsOf(J, T, v, binary)

\* Simple types have values as they are.
LEMMA SimpleValue ==
    ASSUME NEW T \in Types, T[1] \in Ints \cup {"b", "d", "s"}, NEW H, NEW v \in Values, SaysOf(H, T, v)
    PROVE  /\ SigOf[T] = <<T[1]>> /\ v = <<SigOf[T], v[2]>>
           /\ T[1] \in Ints => v[2] \in Int /\ static_cast(T[1], v[2]) = v[2]
<1>1. SigOf[T] = <<T[1]>>
  <2>1. T[1] \in Simple
    BY DEF Simple, Basic
  <2> QED
    BY <2>1, SigCases, Zenon
<1>2. v = <<SigOf[T], v[2]>>
  <2>1. v[1] = SigOf[T]
    BY Zenon DEF SaysOf
  <2>2. v = <<v[1], v[2]>>
    BY ValuePair, Zenon
  <2> QED
    BY <2>1, <2>2, Zenon
<1>3. ASSUME T[1] \in Ints PROVE v[2] \in Int /\ static_cast(T[1], v[2]) = v[2]
  <2>1. v[2] \in Low(T[1])..High(T[1])
    BY <1>3, Zenon DEF SaysOf
  <2>2. Low(T[1]) \in Int /\ High(T[1]) \in Int
    BY <1>3, Limits
  <2>3. v[2] \in Int
    BY <2>1, <2>2
  <2> QED
    BY <1>3, <2>1, <2>3, CastInRange, Zenon
<1> QED
  BY <1>1, <1>2, <1>3, Zenon

LEMMA BackSimple ==
    ASSUME NEW F, NEW H, NEW P, NEW J, NEW T \in Types, T[1] \in Ints \cup {"b", "d", "s"},
           NEW v \in Values, Suits(H, P, T, v)
    PROVE  BacksOne(F, P, J, T, v, v)
<1> DEFINE sig == SigOf[T]
           j == TellsOf(J, T, v, FALSE)
<1>1. SaysOf(H, T, v) /\ PlainOf(P, T, v)
  BY Zenon DEF Suits
<1>2. sig = <<T[1]>> /\ v = <<sig, v[2]>> /\ (T[1] \in Ints => v[2] \in Int /\ static_cast(T[1], v[2]) = v[2])
  BY <1>1, SimpleValue, Zenon
<1>3. TellsCase(J, T, v, FALSE)
  BY TellsCases
<1> HIDE DEF j
<1>4. FillOne(F, sig, j) = Wrote(<<sig, v[2]>>)
  <2>1. CASE T[1] \in Ints
    <3>1. j = <<"num", v[2]>>
      BY <1>3, <2>1, Zenon DEF TellsCase, j
    <3>2. FillOne(F, sig, j) = AppendIntegerFromJson(T[1], j)
      BY <2>1, FillOneCases, Zenon
    <3>3. j[1] = "num" /\ j[2] = v[2]
      BY <3>1, PairParts, Zenon
    <3>4. AppendIntegerFromJson(T[1], j) = WroteInteger(T[1], v[2])
      BY <3>3, Zenon DEF AppendIntegerFromJson
    <3> QED
      BY <1>2, <2>1, <3>2, <3>4, Zenon DEF WroteInteger
  <2>2. CASE T[1] = "b"
    <3>1. j = <<"bool", v[2]>>
      BY <1>3, <2>2, Zenon DEF TellsCase, j
    <3>2. FillOne(F, sig, j) = IF j[1] = "bool" THEN Wrote(<<sig, j[2]>>) ELSE Failed
      BY <2>2, FillOneCases, Zenon
    <3>3. j[1] = "bool" /\ j[2] = v[2]
      BY <3>1, PairParts, Zenon
    <3> QED
      BY <3>2, <3>3, Zenon
  <2>3. CASE T[1] = "d"
    <3>1. j = <<"real", v[2]>>
      BY <1>3, <2>3, Zenon DEF TellsCase, j
    <3>2. FillOne(F, sig, j) = IF j[1] \in {"num", "real"} THEN Wrote(<<sig, j[2]>>) ELSE Failed
      BY <2>3, FillOneCases, Zenon
    <3>3. j[1] \in {"num", "real"} /\ j[2] = v[2]
      BY <3>1, PairParts, Zenon
    <3> QED
      BY <3>2, <3>3, Zenon
  <2>4. CASE T[1] = "s"
    <3>1. j = <<"str", v[2]>>
      BY <1>3, <2>4, Zenon DEF TellsCase, j
    <3>2. FillOne(F, sig, j) = IF j[1] = "str" THEN Wrote(<<sig, j[2]>>) ELSE Failed
      BY <2>4, FillOneCases, Zenon
    <3>3. j[1] = "str" /\ j[2] = v[2]
      BY <3>1, PairParts, Zenon
    <3> QED
      BY <3>2, <3>3, Zenon
  <2> QED
    BY <2>1, <2>2, <2>3, <2>4
<1>5. FillOne(F, SigOf[T], TellsOf(J, T, v, FALSE)) = Wrote(v)
  BY <1>2, <1>4, Zenon DEF j
<1> QED
  BY <1>1, <1>5, Zenon DEF BacksOne

\* What carries a type's signature, in every value that is said to have it.
Carries(H) == \A T \in Types : \A v \in Values : Says(H, T, v) => v[1] = SigOf[T]

LEMMA MemberJson ==
    ASSUME NEW j \in Jsons, NEW k, contains(j, k)
    PROVE  Member(j, k) \in Jsons
<1> DEFINE s == j[2]
           c == CHOOSE i \in DOMAIN s : s[i][1] = k
<1>1. s \in Seq(Texts \X Jsons)
  BY JsonParts, Zenon DEF contains
<1>2. \E i \in DOMAIN s : s[i][1] = k
  BY Zenon DEF contains
<1>3. c \in DOMAIN s
  BY <1>2
<1>4. Member(j, k) = s[c][2]
  BY Zenon DEF Member
<1>5. \A A, B : \A u \in Seq(A \X B) : \A i \in DOMAIN u : u[i][2] \in B
  OBVIOUS
<1> HIDE DEF s, c
<1>6. s[c][2] \in Jsons
  BY <1>1, <1>3, <1>5, Zenon
<1> QED
  BY <1>4, <1>6, Zenon

\* Successes of one value each.
Singles(rs, n, S) == DOMAIN rs = 1..n /\ \A i \in 1..n : rs[i].ok /\ \E x \in S : rs[i].out = <<x>>

Collected(r, rs, n, S) ==
    /\ r.ok /\ r.out \in Seq(S) /\ Len(r.out) = n
    /\ \A i \in 1..n : rs[i].out = <<r.out[i]>>

LEMMA TogetherSingles ==
    ASSUME NEW n \in Nat, NEW S, NEW rs, Singles(rs, n, S)
    PROVE  Collected(Together(rs), rs, n, S)
<1> DEFINE outs == [i \in 1..n |-> rs[i].out]
           s == FlattenSeq(outs)
<1>1. DOMAIN rs = 1..n /\ \A i \in 1..n : rs[i].ok /\ \E x \in S : rs[i].out = <<x>>
  BY DEF Singles
<1>2. Together(rs) = [ok |-> TRUE, out |-> s]
  BY <1>1, Zenon DEF Together
<1>3. \A x \in S : <<x>> \in Seq(S) /\ Len(<<x>>) = 1 /\ <<x>>[1] = x
  OBVIOUS
<1>4. \A i \in 1..n : rs[i].out \in Seq(S) /\ Len(rs[i].out) = 1 /\ rs[i].out = <<rs[i].out[1]>>
  BY <1>1, <1>3, Zenon
<1>5. outs \in Seq(Seq(S)) /\ Len(outs) = n /\ \A i \in 1..n : outs[i] = rs[i].out
  BY <1>4
<1> HIDE DEF outs
<1>6. \A i \in 1..Len(outs) : Len(outs[i]) = 1
  BY <1>4, <1>5, Zenon
<1>7. \A i \in 1..Len(outs) : Len(outs[i]) <= 1
  <2>1. \A m : m = 1 => m <= 1
    OBVIOUS
  <2> QED
    BY <1>6, <2>1, Zenon
<1>8. OneEach(outs, s, n)
  BY <1>5, <1>7, FlattenOneEach
<1>9. s \in Seq(S)
  BY <1>5, FlattenType
<1> HIDE DEF s
<1>10. Len(s) = n /\ \A i \in 1..n : s[i] = outs[i][1]
  BY <1>5, <1>6, <1>8, Zenon DEF OneEach
<1>11. \A i \in 1..n : rs[i].out = <<s[i]>>
  BY <1>4, <1>5, <1>10, Zenon
<1>12. \A u, x : u = [ok |-> TRUE, out |-> x] => u.ok /\ u.out = x
  OBVIOUS
<1>13. Together(rs).ok /\ Together(rs).out = s
  BY <1>2, <1>12, Zenon
<1> QED
  BY <1>9, <1>10, <1>11, <1>13, Zenon DEF Collected

\* A container that has what it expects is written.
LEMMA EncloseWrites ==
    ASSUME NEW r, r.ok, NEW n, Len(r.out) = n, NEW x
    PROVE  Enclose(r, n, x) = Wrote(x)
  BY Zenon DEF Enclose

LEMMA BackVariant ==
    ASSUME NEW F, NEW H, NEW P, NEW J, BacksAs(F, H, P, J), Carries(H), NEW T \in Types, T[1] = "v",
           NEW v \in Values, Suits(H, P, T, v), TellsOf(J, T, v, FALSE) \in Jsons
    PROVE  \E w : BacksOne(F, P, J, T, v, w)
<1> DEFINE u == v[2]
           Q == TypeOf(u[1])
           j == TellsOf(J, T, v, FALSE)
           x == Tells(J, Q, u, FALSE)
           r == At(F, SigOf[Q], x)
           sig == Member(j, Key("variant"))
<1>1. v[1] = SigOf[T] /\ IsType(u[1]) /\ Says(H, Q, u) /\ Convertible[Q] /\ Says(P, Q, u)
  BY Zenon DEF Suits, SaysOf, PlainOf
<1>2. SigOf[T] = <<"v">>
  <2>1. T[1] \in Simple
    BY DEF Simple, Basic
  <2> QED
    BY <2>1, SigCases, Zenon
<1>3. u \in Values
  BY <1>1, <1>2, ValueParts, Zenon
<1>4. Q \in Types /\ SigOf[Q] = u[1]
  BY <1>1 DEF IsType, TypeOf
<1>5. j = VariantJson(u[1], x)
  <2>1. TellsCase(J, T, v, FALSE)
    BY TellsCases
  <2> QED
    BY <2>1, Zenon DEF TellsCase
<1>6. /\ contains(j, Key("variant")) /\ sig = <<"str", <<"sig", u[1]>>>>
      /\ contains(j, Key("value")) /\ Member(j, Key("value")) = x
  <2>1. VariantHas(j, u[1], x)
    <3> HIDE DEF j, u, x
    <3> QED
      BY <1>5, VariantParts
  <2> QED
    BY <2>1, Zenon DEF VariantHas
<1>7. x \in Jsons
  BY <1>6, MemberJson
<1> HIDE DEF u, Q, x, j, sig
<1>8. Readable(H, P, Q, u)
  BY <1>1 DEF Readable
<1>9. BacksIt(F, H, P, J, Q, u, x)
  BY <1>3, <1>4, <1>7, <1>8, BacksAlone DEF x
<1>10. r.ok /\ \E y \in Values : r.out = <<y>> /\ Twin(H, P, J, Q, u, y)
  BY <1>9, Zenon DEF BacksIt, r
<1>11. PICK y \in Values : r.out = <<y>> /\ Twin(H, P, J, Q, u, y)
  BY <1>10
<1>12. r.out[1] = y /\ Len(r.out) = 1
  <2>1. \A z : <<z>>[1] = z /\ Len(<<z>>) = 1
    OBVIOUS
  <2> QED
    BY <1>11, <2>1, Zenon
<1>13. y[1] = u[1]
  BY <1>4, <1>11, Zenon DEF Twin, Carries
<1> DEFINE w == <<<<"v">>, y>>
<1>14. w[1] = <<"v">> /\ w[2] = y
  OBVIOUS
<1> HIDE DEF w
<1>15. FillOne(F, SigOf[T], j) = Wrote(w)
  <2>1. FillOne(F, SigOf[T], j) = FillVariant(F, j)
    BY FillOneCases, Zenon
  <2>2. sig[1] = "str" /\ sig[2][1] = "sig" /\ sig[2][2] = u[1]
    BY <1>6, PairParts, Zenon
  <2>3. At(F, sig[2][2], Member(j, Key("value"))) = r
    BY <1>4, <1>6, <2>2, Zenon DEF r
  <2>4. FillVariant(F, j) = Enclose(r, 1, <<<<"v">>, r.out[1]>>)
    <3>1. FillVariant(F, j) =
            LET a == At(F, sig[2][2], Member(j, Key("value")))
            IN  IF /\ contains(j, Key("variant")) /\ contains(j, Key("value"))
                   /\ sig[1] = "str" /\ sig[2][1] = "sig" /\ IsType(sig[2][2])
                THEN Enclose(a, 1, <<<<"v">>, a.out[1]>>)
                ELSE Failed
      BY Zenon DEF FillVariant, At, sig
    <3> QED
      BY <1>1, <1>6, <2>2, <2>3, <3>1, Zenon
  <2>5. Enclose(r, 1, w) = Wrote(w)
    BY <1>10, <1>12, EncloseWrites, Zenon
  <2> QED
    BY <1>12, <2>1, <2>4, <2>5, Zenon DEF w
<1>16. PlainOf(P, T, w)
  <2>1. TypeOf(w[2][1]) = Q
    BY <1>13, <1>14, Zenon DEF Q
  <2>2. Says(P, Q, y)
    BY <1>11, Zenon DEF Twin
  <2>3. T[1] # "(" /\ T[1] # "a" /\ T[1] # "{"
    OBVIOUS
  <2> QED
    BY <1>1, <1>14, <2>1, <2>2, <2>3, Zenon DEF PlainOf
<1>17. ASSUME NEW binary \in BOOLEAN PROVE TellsOf(J, T, w, binary) = TellsOf(J, T, v, binary)
  <2>1. TellsCase(J, T, w, binary) /\ TellsCase(J, T, v, binary)
    BY TellsCases
  <2>2. TellsOf(J, T, v, binary) = VariantJson(u[1], Tells(J, Q, u, binary))
    BY <2>1, Zenon DEF TellsCase, u, Q
  <2>3. TellsOf(J, T, w, binary) = VariantJson(u[1], Tells(J, Q, y, binary))
    BY <1>13, <1>14, <2>1, Zenon DEF TellsCase, Q
  <2>4. Tells(J, Q, y, binary) = Tells(J, Q, u, binary)
    BY <1>11, Zenon DEF Twin
  <2> QED
    BY <2>2, <2>3, <2>4, Zenon
<1>18. T[1] \notin Simple \ {"v"}
  OBVIOUS
<1>19. BacksOne(F, P, J, T, v, w)
  BY <1>15, <1>16, <1>17, <1>18, Zenon DEF BacksOne, j
<1> QED
  BY <1>19

AllTwin(H, P, J, Ts, vs, ws) == \A i \in 1..Len(Ts) : Twin(H, P, J, Ts[i], vs[i], ws[i])
ToldAlike(J, Ts, vs, ws, binary) == TellsAll(J, Ts, ws, binary) = TellsAll(J, Ts, vs, binary)

\* The JSON of values that are alike, one by one.
LEMMA TellsAllTwin ==
    ASSUME NEW H, NEW P, NEW J, NEW Ts, Len(Ts) \in Nat, NEW vs \in Seq(Values), NEW ws \in Seq(Values),
           Len(vs) = Len(Ts), Len(ws) = Len(Ts), AllTwin(H, P, J, Ts, vs, ws), NEW binary \in BOOLEAN
    PROVE  ToldAlike(J, Ts, vs, ws, binary)
<1> DEFINE a == [i \in DOMAIN ws |-> Tells(J, Ts[i], ws[i], binary)]
           b == [i \in DOMAIN vs |-> Tells(J, Ts[i], vs[i], binary)]
<1>1. DOMAIN ws = 1..Len(Ts) /\ DOMAIN vs = 1..Len(Ts)
  BY SeqDomain, Zenon
<1>2. \A i \in 1..Len(Ts) : Tells(J, Ts[i], ws[i], binary) = Tells(J, Ts[i], vs[i], binary)
  BY Zenon DEF AllTwin, Twin
<1>3. a = b
  BY <1>1, <1>2
<1>4. CASE Len(Ts) = 1
  <2>1. 1 \in 1..Len(Ts)
    BY <1>4
  <2>2. Tells(J, Ts[1], ws[1], binary) = Tells(J, Ts[1], vs[1], binary)
    BY <1>2, <2>1, Zenon
  <2> QED
    BY <1>4, <2>2, Zenon DEF TellsAll, ToldAlike
<1>5. CASE Len(Ts) # 1
  <2>1. TellsAll(J, Ts, ws, binary) = <<"arr", a>> /\ TellsAll(J, Ts, vs, binary) = <<"arr", b>>
    BY <1>5, Zenon DEF TellsAll
  <2> HIDE DEF a, b
  <2> QED
    BY <1>3, <2>1, Zenon DEF ToldAlike
<1> QED
  BY <1>4, <1>5

AllConvertible(Ts) == \A i \in 1..Len(Ts) : Convertible[Ts[i]]

\* Convertible types in a row are taken apart as they were put together.
LEMMA ConvertibleSplit ==
    ASSUME NEW Ts \in Seq(Types), AllConvertible(Ts)
    PROVE  split[Flat(Ts)].ok /\ split[Flat(Ts)].result = SigsOf(Ts)
<1>1. AllWhole(Ts, Len(Ts))
  <2>1. ASSUME NEW i \in 1..Len(Ts) PROVE Whole(Ts[i])
    <3>1. Ts[i] \in Types
      OBVIOUS
    <3>2. Convertible[Ts[i]]
      BY Zenon DEF AllConvertible
    <3> QED
      BY <3>1, <3>2, ConvertibleWhole
  <2> QED
    BY <2>1, Zenon DEF AllWhole
<1>2. split[Flat(Ts)] = [ok |-> TRUE, result |-> SigsOf(Ts)]
  BY <1>1, PiecesWhole
<1>3. \A u, x : u = [ok |-> TRUE, result |-> x] => u.ok /\ u.result = x
  OBVIOUS
<1> QED
  BY <1>2, <1>3, Zenon

LEMMA ConvertiblePieces ==
    ASSUME NEW H, NEW P, NEW Ts \in Seq(Types), NEW vs, AllReadable(H, P, Ts, vs)
    PROVE  split[Flat(Ts)].ok /\ split[Flat(Ts)].result = SigsOf(Ts)
<1>1. AllConvertible(Ts)
  BY Zenon DEF AllReadable, Readable, AllConvertible
<1> QED
  BY <1>1, ConvertibleSplit

LEMMA BackStruct ==
    ASSUME NEW F, NEW H, NEW P, NEW J, BacksAs(F, H, P, J), NEW T \in Types, T[1] = "(",
           NEW v \in Values, Suits(H, P, T, v), TellsOf(J, T, v, FALSE) \in Jsons
    PROVE  \E w : BacksOne(F, P, J, T, v, w)
<1> DEFINE Ts == T[2]
           vs == v[2]
           sig == SigOf[T]
           j == TellsOf(J, T, v, FALSE)
           r == At(F, Flat(Ts), j)
           m == Len(split[Flat(Ts)].result)
           w == <<sig, r.out>>
<1>1. StructOfType(sig, T) /\ Ts \in Seq(Types) /\ Ts # <<>>
  BY StructParts
<1>2. Inner(sig) = Flat(Ts)
  BY <1>1, Zenon DEF StructOfType
<1>3. AllReadable(H, P, Ts, vs)
  BY StructMembers
<1>4. j = TellsAll(J, Ts, vs, FALSE)
  <2>1. TellsCase(J, T, v, FALSE)
    BY TellsCases
  <2> QED
    BY <2>1, Zenon DEF TellsCase
<1>5. FillOne(F, sig, j) = FillStruct(F, sig, j)
  BY FillOneCases, Zenon
<1>6. FillStruct(F, sig, j) = Enclose(r, m, w)
  BY <1>2, Zenon DEF FillStruct, At
<1>7. j \in Jsons
  OBVIOUS
<1> HIDE DEF Ts, vs, j
<1>8. Backed(r, H, P, J, Ts, vs)
  BY <1>1, <1>3, <1>4, <1>7, Zenon DEF BacksAs
<1> HIDE DEF r
<1>9. r.ok /\ r.out \in Seq(Values) /\ Len(r.out) = Len(Ts)
      /\ \A i \in 1..Len(Ts) : Twin(H, P, J, Ts[i], vs[i], r.out[i])
  BY <1>8, Zenon DEF Backed
<1>10. m = Len(Ts)
  <2>1. split[Flat(Ts)].result = SigsOf(Ts)
    BY <1>1, <1>3, ConvertiblePieces
  <2> QED
    BY <1>1, <2>1, SigsType, Zenon
<1>11. w[1] = sig /\ w[2] = r.out
  BY PairParts, Zenon
<1> HIDE DEF m, w, sig
<1>12. FillOne(F, sig, j) = Wrote(w)
  BY <1>5, <1>6, <1>9, <1>10, EncloseWrites, Zenon
<1>13. DOMAIN r.out = 1..Len(Ts) /\ Len(Ts) \in Nat
  BY <1>1, <1>9, SeqDomain, Zenon
<1>14. PlainOf(P, T, w)
  <2>1. \A i \in DOMAIN r.out : Says(P, Ts[i], r.out[i])
    BY <1>9, <1>13, Zenon DEF Twin
  <2>2. T[1] # "v" /\ T[1] # "a" /\ T[1] # "{"
    OBVIOUS
  <2> QED
    BY <1>11, <2>1, <2>2, Zenon DEF PlainOf, Ts
<1>15. ASSUME NEW binary \in BOOLEAN PROVE TellsOf(J, T, w, binary) = TellsOf(J, T, v, binary)
  <2>1. TellsCase(J, T, w, binary) /\ TellsCase(J, T, v, binary)
    BY TellsCases
  <2>2. TellsOf(J, T, v, binary) = TellsAll(J, Ts, vs, binary)
    BY <2>1, Zenon DEF TellsCase, Ts, vs
  <2>3. TellsOf(J, T, w, binary) = TellsAll(J, Ts, r.out, binary)
    BY <1>11, <2>1, Zenon DEF TellsCase, Ts
  <2>4. vs \in Seq(Values) /\ Len(vs) = Len(Ts)
    BY <1>3, Zenon DEF AllReadable
  <2>5. TellsAll(J, Ts, r.out, binary) = TellsAll(J, Ts, vs, binary)
    <3>1. AllTwin(H, P, J, Ts, vs, r.out)
      BY <1>9, Zenon DEF AllTwin
    <3>2. ToldAlike(J, Ts, vs, r.out, binary)
      BY <1>9, <1>13, <2>4, <3>1, TellsAllTwin
    <3> QED
      BY <3>2, Zenon DEF ToldAlike
  <2> QED
    BY <2>2, <2>3, <2>5, Zenon
<1>16. T[1] \notin Simple \ {"v"}
  BY ZenonT(60), Kinds
<1>17. BacksOne(F, P, J, T, v, w)
  BY <1>12, <1>14, <1>15, <1>16, Zenon DEF BacksOne, j, sig
<1> QED
  BY <1>17

LEMMA BackArray ==
    ASSUME NEW F, NEW H, NEW P, NEW J, BacksAs(F, H, P, J), NEW T \in Types, T[1] = "a",
           NEW v \in Values, Suits(H, P, T, v), TellsOf(J, T, v, FALSE) \in Jsons
    PROVE  \E w : BacksOne(F, P, J, T, v, w)
<1> DEFINE E == T[2]
           vs == v[2]
           n == Len(vs)
           sig == SigOf[T]
           j == TellsOf(J, T, v, FALSE)
           s == [i \in DOMAIN vs |-> Tells(J, E, vs[i], FALSE)]
           items == Items(j)
           rs == [i \in DOMAIN items |-> At(F, Tail(sig), items[i][2])]
           r == Together(rs)
           w == <<sig, r.out>>
<1>1. /\ E \in Types /\ Tail(sig) = SigOf[E] /\ Len(sig) > 1 /\ sig[2] # "{"
      /\ IsType(sig)
  BY ArrayParts, Zenon DEF ArrayOfType
<1>2. /\ v[1] = sig /\ \A i \in DOMAIN vs : Says(H, E, vs[i])
      /\ \A i \in DOMAIN vs : Says(P, E, vs[i])
  BY Zenon DEF Suits, SaysOf, PlainOf
<1>3. vs \in Seq(Values)
  BY <1>1, <1>2, ValueParts, Zenon
<1>4. Convertible[E] /\ E[1] # "v"
  <2>1. ConvertibleOver(T, Convertible)
    BY ConvertibleDefined DEF Suits
  <2> QED
    BY ZenonT(60), <2>1, Kinds DEF ConvertibleOver
<1>5. j = <<"arr", s>>
  <2>1. TellsCase(J, T, v, FALSE)
    BY TellsCases
  <2> QED
    BY <2>1, Zenon DEF TellsCase
<1>6. FillOne(F, sig, j) = FillArray(F, sig, j)
  BY FillOneCases, Zenon
<1>7. FillArray(F, sig, j) = IF j[1] \notin {"arr", "obj"} THEN Failed ELSE Enclose(r, Len(r.out), w)
  BY <1>1, Zenon DEF FillArray, At
<1>8. j[1] = "arr" /\ j[2] = s /\ j \in Jsons
  <2> HIDE DEF s
  <2>1. j \in Jsons
    OBVIOUS
  <2> HIDE DEF j
  <2> QED
    BY <1>5, <2>1, PairParts, Zenon
<1>9. items = [i \in DOMAIN j[2] |-> <<<<"int", i - 1>>, j[2][i]>>]
  <2> HIDE DEF j
  <2> QED
    BY <1>8, Zenon DEF Items
<1>10. n \in Nat /\ DOMAIN vs = 1..n
  BY <1>3, SeqDomain, Zenon
<1>11. s \in Seq(Jsons)
  BY <1>8, JsonParts, Zenon
<1> HIDE DEF E, vs, n, sig, j, s, items
<1>12. DOMAIN j[2] = 1..n /\ \A i \in 1..n : j[2][i] = Tells(J, E, vs[i], FALSE)
  BY <1>8, <1>10, Zenon DEF s
<1>13. DOMAIN items = 1..n /\ \A i \in 1..n : items[i][2] = Tells(J, E, vs[i], FALSE)
  <2>1. \A i \in DOMAIN j[2] : items[i] = <<<<"int", i - 1>>, j[2][i]>>
    BY <1>9, Zenon
  <2>2. DOMAIN items = DOMAIN j[2]
    BY <1>9, Zenon
  <2>3. ASSUME NEW i \in DOMAIN j[2] PROVE items[i][2] = j[2][i]
    <3> DEFINE x == <<"int", i - 1>>
               y == j[2][i]
    <3>1. items[i] = <<x, y>>
      BY <2>1
    <3> HIDE DEF x, y
    <3>2. <<x, y>>[2] = y
      BY PairParts, Zenon
    <3>3. items[i][2] = <<x, y>>[2]
      BY <3>1, Zenon
    <3>4. items[i][2] = y
      BY <3>2, <3>3, Zenon
    <3> QED
      BY <3>4 DEF y
  <2> QED
    BY <1>12, <2>2, <2>3, Zenon
<1>14. DOMAIN rs = 1..n /\ \A i \in 1..n : rs[i] = At(F, SigOf[E], Tells(J, E, vs[i], FALSE))
  BY <1>1, <1>13, Zenon
<1> HIDE DEF rs
<1>15. ASSUME NEW i \in 1..n
       PROVE  /\ vs[i] \in Values
              /\ rs[i].ok /\ \E x \in Values : rs[i].out = <<x>> /\ Twin(H, P, J, E, vs[i], x)
  <2>1. vs[i] \in Values
    BY <1>3, <1>10
  <2>2. Readable(H, P, E, vs[i])
    BY <1>2, <1>4, <1>10 DEF Readable
  <2>3. s[i] \in Jsons
    <3>1. DOMAIN s = 1..n
      BY <1>8, <1>12, Zenon
    <3>2. \A S : \A u \in Seq(S) : \A k \in DOMAIN u : u[k] \in S
      OBVIOUS
    <3> QED
      BY <1>11, <3>1, <3>2, Zenon
  <2>4. Tells(J, E, vs[i], FALSE) \in Jsons
    BY <1>8, <1>12, <2>3, Zenon
  <2>5. BacksIt(F, H, P, J, E, vs[i], Tells(J, E, vs[i], FALSE))
    BY ZenonT(60), <1>1, <2>1, <2>2, <2>4, BacksAlone
  <2> QED
    BY <1>14, <2>1, <2>5, Zenon DEF BacksIt
<1>16. Collected(r, rs, n, Values)
  <2>1. Singles(rs, n, Values)
    BY <1>14, <1>15, Zenon DEF Singles
  <2> QED
    BY <1>10, <2>1, TogetherSingles
<1> HIDE DEF r
<1>17. r.ok /\ r.out \in Seq(Values) /\ Len(r.out) = n /\ \A i \in 1..n : rs[i].out = <<r.out[i]>>
  BY <1>16, Zenon DEF Collected
<1>18. ASSUME NEW i \in 1..n PROVE Twin(H, P, J, E, vs[i], r.out[i])
  <2>1. \A x, y : <<x>> = <<y>> => x = y
    OBVIOUS
  <2>2. PICK x \in Values : rs[i].out = <<x>> /\ Twin(H, P, J, E, vs[i], x)
    BY <1>15
  <2>3. rs[i].out = <<r.out[i]>>
    BY <1>17, Zenon
  <2>4. x = r.out[i]
    BY <2>1, <2>2, <2>3, Zenon
  <2> QED
    BY <2>2, <2>4, Zenon
<1>19. DOMAIN r.out = 1..n
  BY <1>17, SeqDomain, Zenon
<1>20. w[1] = sig /\ w[2] = r.out
  BY PairParts, Zenon
<1> HIDE DEF w
<1>21. FillOne(F, sig, j) = Wrote(w)
  <2>1. j[1] \in {"arr", "obj"}
    BY <1>8
  <2>2. Enclose(r, Len(r.out), w) = Wrote(w)
    BY <1>17, EncloseWrites, Zenon
  <2> QED
    BY <1>6, <1>7, <2>1, <2>2, Zenon
<1>22. PlainOf(P, T, w)
  <2>1. \A i \in DOMAIN r.out : Says(P, E, r.out[i])
    BY <1>18, <1>19, Zenon DEF Twin
  <2>2. T[1] # "v" /\ T[1] # "(" /\ T[1] # "{"
    OBVIOUS
  <2> QED
    BY <1>20, <2>1, <2>2, Zenon DEF PlainOf, E
<1>23. E = <<"y">> => r.out = vs
  <2>1. ASSUME E = <<"y">> PROVE \A i \in 1..n : r.out[i] = vs[i]
    <3>1. E[1] \in Simple \ {"v"}
      BY <2>1 DEF Simple, Basic, Ints, Unsigned
    <3> QED
      BY <1>18, <3>1, Zenon DEF Twin
  <2>2. \A S : \A a, b \in Seq(S) : Len(a) = Len(b) /\ (\A i \in 1..Len(a) : a[i] = b[i]) => a = b
    OBVIOUS
  <2> QED
    BY <1>3, <1>17, <2>1, <2>2, Zenon DEF n
<1>24. ASSUME NEW binary \in BOOLEAN PROVE TellsOf(J, T, w, binary) = TellsOf(J, T, v, binary)
  <2> DEFINE a == [i \in DOMAIN r.out |-> Tells(J, E, r.out[i], binary)]
             b == [i \in DOMAIN vs |-> Tells(J, E, vs[i], binary)]
  <2>1. TellsCase(J, T, w, binary) /\ TellsCase(J, T, v, binary)
    BY TellsCases
  <2>2. TellsOf(J, T, v, binary) = IF E = <<"y">> /\ binary THEN <<"bin", vs>> ELSE <<"arr", b>>
    BY <2>1, Zenon DEF TellsCase, E, vs
  <2>3. TellsOf(J, T, w, binary) = IF E = <<"y">> /\ binary THEN <<"bin", r.out>> ELSE <<"arr", a>>
    BY <1>20, <2>1, Zenon DEF TellsCase, E
  <2>4. a = b
    <3>1. \A i \in 1..n : Tells(J, E, r.out[i], binary) = Tells(J, E, vs[i], binary)
      BY <1>18, Zenon DEF Twin
    <3> QED
      BY <1>10, <1>19, <3>1
  <2> HIDE DEF a, b
  <2>5. CASE E = <<"y">> /\ binary
    BY <1>23, <2>2, <2>3, <2>5, Zenon
  <2>6. CASE ~(E = <<"y">> /\ binary)
    BY <2>2, <2>3, <2>4, <2>6, Zenon
  <2> QED
    BY <2>5, <2>6, Zenon
<1>25. T[1] \notin Simple \ {"v"}
  BY ZenonT(60), Kinds
<1>26. BacksOne(F, P, J, T, v, w)
  BY <1>21, <1>22, <1>24, <1>25, Zenon DEF BacksOne, j, sig
<1> QED
  BY <1>26

-----------------------------------------------------------------------------
(* Dictionaries *)

\* The members of a dictionary's object.
DictTold(J, T, vs, binary) ==
    LET of(t) == CHOOSE i \in DOMAIN vs : TextOf(vs[i][1]) = t
    IN  [t \in {TextOf(vs[i][1]) : i \in DOMAIN vs} |-> Tells(J, T[3], vs[of(t)][2], binary)]

LEMMA DictTells ==
    ASSUME NEW J, NEW T, IsDict(T), NEW v, NEW binary
    PROVE  TellsOf(J, T, v, binary) = Object(DictTold(J, T, v[2], binary))
<1>1. TellsCase(J, T, v, binary)
  BY TellsCases
<1> QED
  BY <1>1, Zenon DEF TellsCase, DictTold, IsDict

DictHas(J, T, vs, binary, d) ==
    /\ TextOf(vs[d][1]) \in DOMAIN DictTold(J, T, vs, binary)
    /\ DictTold(J, T, vs, binary)[TextOf(vs[d][1])] = Tells(J, T[3], vs[d][2], binary)

\* No two entries have the same text for a key.
TextsDiffer(vs) == \A i, k \in DOMAIN vs : TextOf(vs[i][1]) = TextOf(vs[k][1]) => i = k

LEMMA DictToldAt ==
    ASSUME NEW J, NEW T, NEW vs, TextsDiffer(vs), NEW binary, NEW d \in DOMAIN vs
    PROVE  DictHas(J, T, vs, binary, d)
<1> DEFINE of(t) == CHOOSE i \in DOMAIN vs : TextOf(vs[i][1]) = t
           U == {TextOf(vs[i][1]) : i \in DOMAIN vs}
           told == [t \in U |-> Tells(J, T[3], vs[of(t)][2], binary)]
           t == TextOf(vs[d][1])
<1>1. DictTold(J, T, vs, binary) = told
  BY Zenon DEF DictTold
<1>2. t \in U
  OBVIOUS
<1>3. of(t) \in DOMAIN vs /\ TextOf(vs[of(t)][1]) = t
  <2> HIDE DEF U, told
  <2> QED
    OBVIOUS
<1> HIDE DEF U
<1>4. told[t] = Tells(J, T[3], vs[of(t)][2], binary) /\ DOMAIN told = U
  <2> HIDE DEF t
  <2> QED
    BY <1>2, Zenon
<1> HIDE DEF of, told
<1>5. of(t) = d
  BY <1>3, Zenon DEF TextsDiffer
<1> QED
  BY <1>1, <1>2, <1>4, <1>5, Zenon DEF DictHas

\* What is told has the keys of the entries only.
ToldFrom(J, T, vs, binary) ==
    LET told == DictTold(J, T, vs, binary)
    IN  /\ \A t \in DOMAIN told : \E d \in DOMAIN vs : TextOf(vs[d][1]) = t
        /\ told = [t \in DOMAIN told |-> told[t]]

LEMMA DictToldFrom ==
    ASSUME NEW J, NEW T, NEW vs, NEW binary
    PROVE  ToldFrom(J, T, vs, binary)
<1> DEFINE of(t) == CHOOSE i \in DOMAIN vs : TextOf(vs[i][1]) = t
           U == {TextOf(vs[i][1]) : i \in DOMAIN vs}
           told == [t \in U |-> Tells(J, T[3], vs[of(t)][2], binary)]
<1>1. DictTold(J, T, vs, binary) = told
  BY Zenon DEF DictTold
<1>2. \A t \in U : \E d \in DOMAIN vs : TextOf(vs[d][1]) = t
  BY Zenon
<1> HIDE DEF U
<1>3. DOMAIN told = U /\ told = [t \in DOMAIN told |-> told[t]]
  <2> HIDE DEF of
  <2> QED
    OBVIOUS
<1> HIDE DEF told
<1> QED
  BY <1>1, <1>2, <1>3, Zenon DEF ToldFrom

\* The same entries in another order, their values alike.
Rearranged(H, P, J, T, vs, ws) ==
    /\ TextsDiffer(ws)
    /\ \A i \in DOMAIN ws : \E d \in DOMAIN vs :
         ws[i][1] = vs[d][1] /\ Twin(H, P, J, T[3], vs[d][2], ws[i][2])
    /\ \A d \in DOMAIN vs : \E i \in DOMAIN ws : TextOf(ws[i][1]) = TextOf(vs[d][1])

LEMMA RearrangedTold ==
    ASSUME NEW H, NEW P, NEW J, NEW T, NEW vs, TextsDiffer(vs), NEW ws, Rearranged(H, P, J, T, vs, ws),
           NEW binary \in BOOLEAN
    PROVE  DictTold(J, T, ws, binary) = DictTold(J, T, vs, binary)
<1> DEFINE a == DictTold(J, T, ws, binary)
           b == DictTold(J, T, vs, binary)
<1>1. TextsDiffer(ws)
  BY Zenon DEF Rearranged
<1>2. /\ \A t \in DOMAIN a : \E i \in DOMAIN ws : TextOf(ws[i][1]) = t
      /\ a = [t \in DOMAIN a |-> a[t]]
  <2>1. ToldFrom(J, T, ws, binary)
    BY DictToldFrom
  <2> QED
    BY <2>1, Zenon DEF ToldFrom
<1>3. /\ \A t \in DOMAIN b : \E d \in DOMAIN vs : TextOf(vs[d][1]) = t
      /\ b = [t \in DOMAIN b |-> b[t]]
  <2>1. ToldFrom(J, T, vs, binary)
    BY DictToldFrom
  <2> QED
    BY <2>1, Zenon DEF ToldFrom
<1>4. ASSUME NEW i \in DOMAIN ws
      PROVE  LET t == TextOf(ws[i][1]) IN t \in DOMAIN a /\ t \in DOMAIN b /\ a[t] = b[t]
  <2> DEFINE t == TextOf(ws[i][1])
  <2>1. PICK d \in DOMAIN vs : ws[i][1] = vs[d][1] /\ Twin(H, P, J, T[3], vs[d][2], ws[i][2])
    BY Zenon DEF Rearranged
  <2>2. t \in DOMAIN a /\ a[t] = Tells(J, T[3], ws[i][2], binary)
    <3>1. DictHas(J, T, ws, binary, i)
      BY <1>1, DictToldAt
    <3> QED
      BY <3>1, Zenon DEF DictHas
  <2>3. t \in DOMAIN b /\ b[t] = Tells(J, T[3], vs[d][2], binary)
    <3>1. DictHas(J, T, vs, binary, d)
      BY DictToldAt
    <3> QED
      BY <2>1, <3>1, Zenon DEF DictHas
  <2>4. Tells(J, T[3], ws[i][2], binary) = Tells(J, T[3], vs[d][2], binary)
    BY <2>1, Zenon DEF Twin
  <2> QED
    BY <2>2, <2>3, <2>4, Zenon
<1> HIDE DEF a, b
<1>5. \A t \in DOMAIN a : t \in DOMAIN b /\ a[t] = b[t]
  BY <1>2, <1>4, Zenon
<1>6. \A t \in DOMAIN b : t \in DOMAIN a
  <2>1. ASSUME NEW t \in DOMAIN b PROVE t \in DOMAIN a
    <3>1. PICK d \in DOMAIN vs : TextOf(vs[d][1]) = t
      BY <1>3
    <3>2. PICK i \in DOMAIN ws : TextOf(ws[i][1]) = TextOf(vs[d][1])
      BY Zenon DEF Rearranged
    <3> QED
      BY <1>4, <3>1, <3>2, Zenon
  <2> QED
    BY <2>1
<1>7. DOMAIN a = DOMAIN b
  BY <1>5, <1>6
<1>8. [t \in DOMAIN a |-> a[t]] = [t \in DOMAIN b |-> b[t]]
  BY <1>5, <1>7
<1> QED
  BY <1>2, <1>3, <1>8, Zenon DEF a, b

LEMMA WroteResult == \A x : Wrote(x).ok /\ Wrote(x).out = <<x>>
  BY DEF Wrote

\* A key and a value make an entry.
\* What the conversion makes of a key and of a value is one value each.
EntryGets(F, kv, key, value, a, b) ==
    /\ At(F, <<Head(kv)>>, <<"str", key>>).ok /\ At(F, <<Head(kv)>>, <<"str", key>>).out = <<a>>
    /\ At(F, Tail(kv), value).ok /\ At(F, Tail(kv), value).out = <<b>>

EntryWrites(F, kv, key, value, a, b) == FillEntry(F, kv, key, value) = Wrote(<<a, b>>)

LEMMA EntryFilled ==
    ASSUME NEW F, NEW kv, NEW key, NEW value, NEW a, NEW b, EntryGets(F, kv, key, value, a, b)
    PROVE  EntryWrites(F, kv, key, value, a, b)
<1> DEFINE p == At(F, <<Head(kv)>>, <<"str", key>>)
           q == At(F, Tail(kv), value)
           rs == <<p, q>>
           r == Together(rs)
<1>1. FillEntry(F, kv, key, value) = Enclose(r, 2, r.out)
  BY Zenon DEF FillEntry, At
<1>2. p.ok /\ p.out = <<a>> /\ q.ok /\ q.out = <<b>>
  BY Zenon DEF EntryGets
<1> HIDE DEF p, q
<1>3. DOMAIN rs = 1..2 /\ rs[1] = p /\ rs[2] = q
  OBVIOUS
<1>4. \A i \in 1..2 : i = 1 \/ i = 2
  OBVIOUS
<1>5. 1 \in 1..2 /\ 2 \in 1..2 /\ a \in {a, b} /\ b \in {a, b}
  OBVIOUS
<1> HIDE DEF rs
<1>6. Collected(r, rs, 2, {a, b})
  <2>1. Singles(rs, 2, {a, b})
    BY <1>2, <1>3, <1>4, <1>5, Zenon DEF Singles
  <2>2. ASSUME NEW n \in Nat, n = 2 PROVE Collected(Together(rs), rs, n, {a, b})
    <3>1. Singles(rs, n, {a, b})
      BY <2>1, <2>2
    <3> QED
      BY <3>1, TogetherSingles
  <2> QED
    BY <2>2 DEF r
<1> HIDE DEF r
<1>7. r.ok /\ r.out \in Seq({a, b}) /\ Len(r.out) = 2 /\ rs[1].out = <<r.out[1]>> /\ rs[2].out = <<r.out[2]>>
  BY <1>5, <1>6, Zenon DEF Collected
<1>8. r.out[1] = a /\ r.out[2] = b
  <2>1. \A x, y : <<x>> = <<y>> => x = y
    OBVIOUS
  <2> QED
    BY <1>2, <1>3, <1>7, <2>1, Zenon
<1>9. r.out = <<a, b>>
  <2>1. \A S : \A s \in Seq(S) : Len(s) = 2 => s = <<s[1], s[2]>>
    OBVIOUS
  <2> QED
    BY <1>7, <1>8, <2>1, Zenon
<1>10. Enclose(r, 2, r.out) = Wrote(r.out)
  BY <1>7, EncloseWrites, Zenon
<1> QED
  BY <1>1, <1>9, <1>10, Zenon DEF EntryWrites

LEMMA ToldFinite ==
    ASSUME NEW J, NEW T, NEW vs, NEW n \in Nat, DOMAIN vs = 1..n, NEW binary
    PROVE  IsFiniteSet(DOMAIN DictTold(J, T, vs, binary))
<1> DEFINE U == {TextOf(vs[i][1]) : i \in DOMAIN vs}
           f == [i \in DOMAIN vs |-> TextOf(vs[i][1])]
<1>1. DOMAIN DictTold(J, T, vs, binary) = U
  BY Zenon DEF DictTold
<1>2. IsFiniteSet(DOMAIN vs)
  BY FS_Interval
<1>3. f \in Surjection(DOMAIN vs, U)
  BY DEF Surjection
<1> HIDE DEF f, U
<1> QED
  BY <1>1, <1>2, <1>3, FS_Surjection

\* An entry that was told is filled in.
EntryBacks(F, H, P, J, T, vs, kv, d, value) ==
    \E x \in Values \X Values :
      /\ FillEntry(F, kv, TextOf(vs[d][1]), value) = Wrote(x)
      /\ x[1] = vs[d][1] /\ Twin(H, P, J, T[3], vs[d][2], x[2])

LEMMA BackEntry ==
    ASSUME NEW F, NEW H, NEW P, NEW J, BacksAs(F, H, P, J), NEW T \in Types, IsDict(T), Convertible[T],
           NEW vs, DictSuits(H, P, T, vs),
           NEW kv, <<Head(kv)>> = SigOf[T[2]], Tail(kv) = SigOf[T[3]],
           NEW d \in DOMAIN vs, TextOf(vs[d][1]) \in Texts,
           NEW value \in Jsons, value = Tells(J, T[3], vs[d][2], FALSE)
    PROVE  EntryBacks(F, H, P, J, T, vs, kv, d, value)
<1> DEFINE K == T[2]
           E == T[3]
           key == vs[d][1]
           t == TextOf(key)
<1>1. K \in Types /\ E \in Types /\ Convertible[E] /\ K[1] \in Ints \cup {"s"}
  BY KeyTypes, Zenon DEF IsDict
<1>2. /\ key \in Values /\ Says(H, K, key)
      /\ vs[d][2] \in Values /\ Says(H, E, vs[d][2]) /\ Says(P, E, vs[d][2])
      /\ K[1] \in Ints => key[2] \in LongLong
  BY Zenon DEF DictSuits
<1> HIDE DEF K, E
<1>3. At(F, SigOf[K], <<"str", t>>) = Wrote(key)
  <2>1. <<"str", t>> \in Jsons
    BY KeyJson
  <2> QED
    BY <1>1, <1>2, <2>1, Zenon DEF BacksAs, KeysFilled
<1>4. BacksIt(F, H, P, J, E, vs[d][2], value)
  <2>1. Readable(H, P, E, vs[d][2])
    BY <1>1, <1>2 DEF Readable
  <2> QED
    BY <1>1, <1>2, <2>1, BacksAlone DEF E
<1>5. /\ At(F, SigOf[E], value).ok
      /\ \E y \in Values : At(F, SigOf[E], value).out = <<y>> /\ Twin(H, P, J, E, vs[d][2], y)
  BY <1>4, Zenon DEF BacksIt
<1>6. PICK y \in Values : At(F, SigOf[E], value).out = <<y>> /\ Twin(H, P, J, E, vs[d][2], y)
  BY <1>5
<1> DEFINE x == <<key, y>>
<1>7. x \in Values \X Values /\ x[1] = key /\ x[2] = y
  BY <1>2
<1>8. FillEntry(F, kv, t, value) = Wrote(x)
  <2>1. EntryGets(F, kv, t, value, key, y)
    BY <1>3, <1>5, <1>6, WroteResult, Zenon DEF K, E, EntryGets
  <2>2. EntryWrites(F, kv, t, value, key, y)
    <3> HIDE DEF t, key
    <3> QED
      BY <2>1, EntryFilled
  <2> QED
    BY <2>2, Zenon DEF EntryWrites
<1> HIDE DEF x
<1>9. Twin(H, P, J, T[3], vs[d][2], x[2])
  BY <1>6, <1>7, Zenon DEF E
<1> QED
  BY <1>7, <1>8, <1>9, Zenon DEF EntryBacks

\* What was filled in for the items that were told, each with the entry it was told for.
DictBack(H, P, J, T, vs, s, ws) ==
    /\ ws \in Seq(Values \X Values) /\ DOMAIN ws = DOMAIN s
    /\ \A i \in DOMAIN s : \E d \in DOMAIN vs :
         /\ TextOf(vs[d][1]) = s[i][1]
         /\ ws[i][1] = vs[d][1] /\ Twin(H, P, J, T[3], vs[d][2], ws[i][2])

ItemsBack(F, H, P, J, T, vs, s, kv) ==
    LET r == Together([i \in DOMAIN s |-> FillEntry(F, kv, s[i][1], s[i][2])])
    IN  r.ok /\ DictBack(H, P, J, T, vs, s, r.out)

LEMMA BackItems ==
    ASSUME NEW F, NEW H, NEW P, NEW J, BacksAs(F, H, P, J), NEW T \in Types, IsDict(T), Convertible[T],
           NEW vs, DictSuits(H, P, T, vs), TextsDiffer(vs),
           NEW kv, <<Head(kv)>> = SigOf[T[2]], Tail(kv) = SigOf[T[3]],
           NEW s \in Seq(Texts \X Jsons), Lists(s, DictTold(J, T, vs, FALSE))
    PROVE  ItemsBack(F, H, P, J, T, vs, s, kv)
<1> DEFINE told == DictTold(J, T, vs, FALSE)
           n == Len(s)
           rs == [i \in DOMAIN s |-> FillEntry(F, kv, s[i][1], s[i][2])]
           r == Together(rs)
           S == Values \X Values
<1>1. n \in Nat /\ DOMAIN s = 1..n
  BY SeqDomain, Zenon
<1>2. \A i \in DOMAIN s : s[i][1] \in Texts /\ s[i][2] \in Jsons
  <2>1. \A A, B : \A u \in Seq(A \X B) : \A i \in DOMAIN u : u[i][1] \in A /\ u[i][2] \in B
    OBVIOUS
  <2> QED
    BY <2>1, Zenon
<1>3. \A i \in DOMAIN s : s[i][1] \in DOMAIN told /\ s[i][2] = told[s[i][1]]
  BY Zenon DEF Lists
<1>4. \A t \in DOMAIN told : \E d \in DOMAIN vs : TextOf(vs[d][1]) = t
  <2>1. ToldFrom(J, T, vs, FALSE)
    BY DictToldFrom
  <2> QED
    BY <2>1, Zenon DEF ToldFrom
<1>5. \A d \in DOMAIN vs : told[TextOf(vs[d][1])] = Tells(J, T[3], vs[d][2], FALSE)
  <2>1. \A d \in DOMAIN vs : DictHas(J, T, vs, FALSE, d)
    BY DictToldAt
  <2> QED
    BY <2>1, Zenon DEF DictHas
<1>6. DOMAIN rs = 1..n /\ \A i \in 1..n : rs[i] = FillEntry(F, kv, s[i][1], s[i][2])
  BY <1>1, Zenon
<1> HIDE DEF told, n, rs, S
<1> DEFINE Good(i, d, x) ==
             /\ TextOf(vs[d][1]) = s[i][1]
             /\ x[1] = vs[d][1] /\ Twin(H, P, J, T[3], vs[d][2], x[2])
<1>7. ASSUME NEW i \in 1..n
      PROVE  \E d \in DOMAIN vs : \E x \in S : rs[i] = Wrote(x) /\ Good(i, d, x)
  <2>1. PICK d \in DOMAIN vs : TextOf(vs[d][1]) = s[i][1]
    BY <1>1, <1>3, <1>4, Zenon
  <2>2. s[i][2] = Tells(J, T[3], vs[d][2], FALSE)
    BY <1>1, <1>3, <1>5, <2>1, Zenon
  <2>3. TextOf(vs[d][1]) \in Texts /\ s[i][2] \in Jsons
    BY <1>1, <1>2, <2>1, Zenon
  <2>4. EntryBacks(F, H, P, J, T, vs, kv, d, s[i][2])
    BY <2>2, <2>3, BackEntry
  <2>5. \E x \in S : /\ FillEntry(F, kv, TextOf(vs[d][1]), s[i][2]) = Wrote(x)
                     /\ x[1] = vs[d][1] /\ Twin(H, P, J, T[3], vs[d][2], x[2])
    BY <2>4, Zenon DEF EntryBacks, S
  <2>6. \E x \in S : rs[i] = Wrote(x) /\ Good(i, d, x)
    BY <1>6, <2>1, <2>5, Zenon
  <2> QED
    BY <2>6
<1> HIDE DEF Good
<1>8. Collected(r, rs, n, S)
  <2>1. Singles(rs, n, S)
    BY <1>6, <1>7, WroteResult, Zenon DEF Singles
  <2> QED
    BY <1>1, <2>1, TogetherSingles
<1> HIDE DEF r
<1>9. r.ok /\ r.out \in Seq(S) /\ Len(r.out) = n /\ \A i \in 1..n : rs[i].out = <<r.out[i]>>
  BY <1>8, Zenon DEF Collected
<1>10. ASSUME NEW i \in 1..n PROVE \E d \in DOMAIN vs : Good(i, d, r.out[i])
  <2>1. \A x, y : <<x>> = <<y>> => x = y
    OBVIOUS
  <2>2. PICK d \in DOMAIN vs : \E x \in S : rs[i] = Wrote(x) /\ Good(i, d, x)
    BY <1>7
  <2>3. PICK x \in S : rs[i] = Wrote(x) /\ Good(i, d, x)
    BY <2>2
  <2>4. rs[i].out = <<x>> /\ rs[i].out = <<r.out[i]>>
    BY <1>9, <2>3, WroteResult, Zenon
  <2>5. x = r.out[i]
    BY <2>1, <2>4, Zenon
  <2> QED
    BY <2>3, <2>5, Zenon
<1>11. DOMAIN r.out = 1..n
  BY <1>9, SeqDomain, Zenon
<1>12. DictBack(H, P, J, T, vs, s, r.out)
  BY <1>1, <1>9, <1>10, <1>11, Zenon DEF DictBack, Good, S
<1> QED
  BY <1>9, <1>12, Zenon DEF r, rs, ItemsBack

LEMMA BackRearranged ==
    ASSUME NEW H, NEW P, NEW J, NEW T, NEW vs, TextsDiffer(vs),
           NEW s, Lists(s, DictTold(J, T, vs, FALSE)), NEW ws, DictBack(H, P, J, T, vs, s, ws)
    PROVE  Rearranged(H, P, J, T, vs, ws)
<1>1. \A i \in DOMAIN ws : TextOf(ws[i][1]) = s[i][1]
  BY Zenon DEF DictBack
<1>2. \A i, k \in DOMAIN s : s[i][1] = s[k][1] => i = k
  BY Zenon DEF Lists
<1>3. DOMAIN ws = DOMAIN s
  BY Zenon DEF DictBack
<1>4. TextsDiffer(ws)
  <2>1. ASSUME NEW i \in DOMAIN ws, NEW k \in DOMAIN ws, TextOf(ws[i][1]) = TextOf(ws[k][1])
        PROVE  i = k
    <3>1. TextOf(ws[i][1]) = s[i][1] /\ TextOf(ws[k][1]) = s[k][1]
      BY <1>1, Zenon
    <3> QED
      BY <1>2, <1>3, <2>1, <3>1, Zenon
  <2> QED
    BY <2>1, Zenon DEF TextsDiffer
<1>5. \A i \in DOMAIN ws : \E d \in DOMAIN vs :
        ws[i][1] = vs[d][1] /\ Twin(H, P, J, T[3], vs[d][2], ws[i][2])
  BY <1>3, Zenon DEF DictBack
<1>6. ASSUME NEW d \in DOMAIN vs PROVE \E i \in DOMAIN ws : TextOf(ws[i][1]) = TextOf(vs[d][1])
  <2>1. TextOf(vs[d][1]) \in DOMAIN DictTold(J, T, vs, FALSE)
    BY DictToldAt DEF DictHas
  <2>2. \E i \in DOMAIN s : s[i][1] = TextOf(vs[d][1])
    BY <2>1, Zenon DEF Lists
  <2> QED
    BY <1>1, <1>3, <2>2, Zenon
<1> QED
  BY <1>4, <1>5, <1>6, Zenon DEF Rearranged

LEMMA BackDict ==
    ASSUME NEW F, NEW H, NEW P, NEW J, BacksAs(F, H, P, J), KeysTold(H, P, J), NEW T \in Types, IsDict(T),
           NEW v \in Values, Suits(H, P, T, v), TellsOf(J, T, v, FALSE) \in Jsons
    PROVE  \E w : BacksOne(F, P, J, T, v, w)
<1> DEFINE vs == v[2]
           sig == SigOf[T]
           kv == Inner(Tail(sig))
           j == TellsOf(J, T, v, FALSE)
           told == DictTold(J, T, vs, FALSE)
           s == j[2]
           rs == [i \in DOMAIN s |-> FillEntry(F, kv, s[i][1], s[i][2])]
           r == Together(rs)
           w == <<sig, r.out>>
<1>1. DictOfType(sig, T)
  BY DictParts, Zenon DEF IsDict
<1>2. <<Head(kv)>> = SigOf[T[2]] /\ Tail(kv) = SigOf[T[3]]
  BY <1>1, Zenon DEF DictOfType
<1>3. DictSuits(H, P, T, vs)
  BY DictEntries, Zenon DEF IsDict
<1>4. TextsDiffer(vs) /\ vs \in Seq(Values \X Values) /\ vs # <<>>
  BY <1>3, Zenon DEF DictSuits, TextsDiffer
<1>5. j = Object(told)
  BY DictTells
<1>6. FillOne(F, sig, j) = FillArray(F, sig, j)
  BY FillOneCases, Zenon DEF IsDict
<1>7. j[1] = "obj" => FillArray(F, sig, j) = Enclose(r, Len(r.out), w)
  <2>1. j[1] = "obj" => j[1] \in {"arr", "obj"} /\ Items(j) = s
    <3>1. j[1] = "obj" => j[1] # "arr" /\ j[1] \in {"arr", "obj"}
      OBVIOUS
    <3> QED
      BY <3>1, Zenon DEF Items
  <2>2. IsType(sig) /\ sig[2] = "{"
    BY <1>1, Zenon DEF DictOfType
  <2> HIDE DEF s
  <2> QED
    BY <2>1, <2>2, Zenon DEF FillArray
<1>8. j \in Jsons /\ Convertible[T]
  BY Zenon DEF Suits
<1> HIDE DEF vs, sig, kv, j, told
<1>9. j[1] = "obj" /\ Lists(s, told)
  <2>1. Len(vs) \in Nat /\ DOMAIN vs = 1..Len(vs)
    BY <1>4, SeqDomain, Zenon
  <2>2. IsFiniteSet(DOMAIN told)
    BY <2>1, ToldFinite DEF told
  <2> QED
    BY <1>5, <2>2, ObjectLists
<1>10. s \in Seq(Texts \X Jsons)
  BY <1>8, <1>9, JsonParts, Zenon
<1> HIDE DEF s
<1>11. ItemsBack(F, H, P, J, T, vs, s, kv)
  <2>1. Lists(s, DictTold(J, T, vs, FALSE))
    BY <1>9, Zenon DEF told
  <2> QED
    BY <1>2, <1>3, <1>4, <1>8, <1>10, <2>1, BackItems
<1>12. r.ok /\ DictBack(H, P, J, T, vs, s, r.out)
  BY <1>11, Zenon DEF ItemsBack
<1> HIDE DEF r
<1>13. w[1] = sig /\ w[2] = r.out
  BY PairParts, Zenon
<1> HIDE DEF w
<1>14. FillOne(F, sig, j) = Wrote(w)
  BY <1>6, <1>7, <1>9, <1>12, EncloseWrites, Zenon
<1>15. Rearranged(H, P, J, T, vs, r.out)
  BY <1>4, <1>9, <1>12, BackRearranged DEF told
<1>16. PlainOf(P, T, w)
  <2>1. r.out # <<>>
    <3>1. 1 \in DOMAIN vs
      BY <1>4
    <3>2. \E i \in DOMAIN r.out : TextOf(r.out[i][1]) = TextOf(vs[1][1])
      BY <1>15, <3>1, Zenon DEF Rearranged
    <3>3. \A i : i \notin DOMAIN <<>>
      OBVIOUS
    <3> QED
      BY <3>2, <3>3, Zenon
  <2>2. ASSUME NEW i \in DOMAIN r.out
        PROVE  /\ T[2][1] \in Ints => r.out[i][1][2] \in LongLong
               /\ Says(P, T[3], r.out[i][2])
               /\ \A k \in DOMAIN r.out : r.out[i][1] = r.out[k][1] => i = k
    <3>1. PICK d \in DOMAIN vs : r.out[i][1] = vs[d][1] /\ Twin(H, P, J, T[3], vs[d][2], r.out[i][2])
      BY <1>15, Zenon DEF Rearranged
    <3>2. T[2][1] \in Ints => vs[d][1][2] \in LongLong
      BY <1>3, Zenon DEF DictSuits
    <3>3. TextsDiffer(r.out)
      BY <1>15, Zenon DEF Rearranged
    <3>4. \A k \in DOMAIN r.out : r.out[i][1] = r.out[k][1] => i = k
      BY <3>3, Zenon DEF TextsDiffer
    <3> QED
      BY <3>1, <3>2, <3>4, Zenon DEF Twin
  <2>3. T[1] # "v" /\ T[1] # "(" /\ T[1] # "a"
    BY ZenonT(60) DEF IsDict
  <2> QED
    BY <1>13, <2>1, <2>2, <2>3, Zenon DEF PlainOf
<1>17. ASSUME NEW binary \in BOOLEAN PROVE TellsOf(J, T, w, binary) = TellsOf(J, T, v, binary)
  <2>1. TellsOf(J, T, v, binary) = Object(DictTold(J, T, vs, binary))
    BY DictTells DEF vs
  <2>2. TellsOf(J, T, w, binary) = Object(DictTold(J, T, w[2], binary))
    BY DictTells
  <2>3. DictTold(J, T, r.out, binary) = DictTold(J, T, vs, binary)
    BY <1>4, <1>15, RearrangedTold
  <2> QED
    BY <1>13, <2>1, <2>2, <2>3, Zenon
<1>18. T[1] \notin Simple \ {"v"}
  BY Kinds, Zenon DEF IsDict
<1>19. BacksOne(F, P, J, T, v, w)
  BY <1>14, <1>16, <1>17, <1>18, Zenon DEF BacksOne, j, sig
<1> QED
  BY <1>19

-----------------------------------------------------------------------------
(* One level up *)

LEMMA BackEvery ==
    ASSUME NEW F, NEW H, NEW P, NEW J, BacksAs(F, H, P, J), KeysTold(H, P, J), Carries(H),
           NEW T \in Types, NEW v \in Values, Suits(H, P, T, v), TellsOf(J, T, v, FALSE) \in Jsons
    PROVE  \E w : BacksOne(F, P, J, T, v, w)
<1>1. CASE T[1] \in Ints \cup {"b", "d", "s"}
  BY <1>1, BackSimple
<1>2. CASE T[1] = "v"
  BY <1>2, BackVariant
<1>3. CASE T[1] = "("
  BY <1>3, BackStruct
<1>4. CASE T[1] = "a"
  BY <1>4, BackArray
<1>5. CASE T[1] = "{"
  <2>1. IsDict(T)
    BY ZenonT(60), <1>5 DEF IsDict
  <2> QED
    BY <2>1, BackDict
<1>6. T[1] \in Ints \cup {"b", "d", "s"} \/ T[1] \in {"v", "(", "a", "{"}
  <2>1. ConvertibleOver(T, Convertible)
    BY ConvertibleDefined DEF Suits
  <2>2. \A c \in Simple : c \notin Refused \cup {"h"} => c \in Ints \cup {"b", "d", "s"} \/ c = "v"
    BY DEF Simple, Basic
  <2> QED
    BY ZenonT(60), <2>1, <2>2 DEF ConvertibleOver
<1> QED
  BY <1>1, <1>2, <1>3, <1>4, <1>5, <1>6, Zenon

\* One level of the conversion, of types and of what is said of values.
Lower(F, V, H, P, J) ==
    Beneath(F, V, H) /\ KeysTold(H, P, J) /\ Carries(H) /\ BacksAs(F, H, P, J)

Again(F, H, P, J, T, v, w) ==
    FillOne(F, SigOf[T], TellsOf(J, T, v, FALSE)) = Wrote(w)
    /\ Twin(TypedOver(H), PlainOver(P), JsonOver(J), T, v, w)

LEMMA BackAgain ==
    ASSUME NEW F, NEW V, NEW H, NEW P, NEW J, Lower(F, V, H, P, J),
           NEW T \in Types, NEW v \in Values, Suits(H, P, T, v), TellsOf(J, T, v, FALSE) \in Jsons
    PROVE  \E w \in Values : Again(F, H, P, J, T, v, w)
<1> DEFINE j == TellsOf(J, T, v, FALSE)
<1>1. Beneath(F, V, H) /\ KeysTold(H, P, J) /\ Carries(H) /\ BacksAs(F, H, P, J)
  BY Zenon DEF Lower
<1>2. \E w : BacksOne(F, P, J, T, v, w)
  BY <1>1, BackEvery
<1>3. PICK w : BacksOne(F, P, J, T, v, w)
  BY <1>2
<1>4. FillOne(F, SigOf[T], j) = Wrote(w)
  BY <1>3, Zenon DEF BacksOne
<1>5. FillOne(F, SigOf[T], j).ok /\ FillOne(F, SigOf[T], j).out = <<w>>
  BY <1>4, WroteResult, Zenon
<1>6. OneTyped(ValuesOver(V), TypedOver(H), T, FillOne(F, SigOf[T], j).out)
  <2>1. Whole(T)
    BY ConvertibleWhole DEF Suits
  <2> HIDE DEF j
  <2>2. j \in Jsons
    BY DEF j
  <2> QED
    BY <1>1, <1>5, <2>1, <2>2, FillOneTyped
<1>7. w \in ValuesOver(V) /\ Says(TypedOver(H), T, w)
  <2>1. \A x, y : <<x>> = <<y>> => x = y
    OBVIOUS
  <2>2. \A x : <<x>> # <<>>
    OBVIOUS
  <2> HIDE DEF j
  <2> QED
    BY <1>5, <1>6, <2>1, <2>2, Zenon DEF OneTyped
<1>8. w \in Values
  BY <1>1, <1>7 DEF Beneath
<1>9. Says(PlainOver(P), T, w)
  BY <1>3, <1>8, PlainSays DEF BacksOne
<1>10. ASSUME NEW binary \in BOOLEAN
       PROVE  Tells(JsonOver(J), T, w, binary) = Tells(JsonOver(J), T, v, binary)
  <2>1. Tells(JsonOver(J), T, w, binary) = TellsOf(J, T, w, binary)
        /\ Tells(JsonOver(J), T, v, binary) = TellsOf(J, T, v, binary)
    BY <1>8, TellsOver
  <2>2. TellsOf(J, T, w, binary) = TellsOf(J, T, v, binary)
    BY <1>3, Zenon DEF BacksOne
  <2> QED
    BY <2>1, <2>2, Zenon
<1>11. T[1] \in Simple \ {"v"} => w = v
  BY <1>3, Zenon DEF BacksOne
<1>12. Twin(TypedOver(H), PlainOver(P), JsonOver(J), T, v, w)
  BY <1>7, <1>9, <1>10, <1>11, Zenon DEF Twin
<1> QED
  BY <1>4, <1>8, <1>12, Zenon DEF Again

\* Many whole types of items from a JSON array.
ManyFilled(F, sig, j, pieces, n) ==
    FillPieces(F, sig, j) = Together([i \in 1..n |-> FillOne(F, pieces[i], j[2][i])])

LEMMA PiecesMany ==
    ASSUME NEW F, NEW sig, NEW j, NEW pieces, split[sig].ok, split[sig].result = pieces,
           NEW n \in Nat, n > 1, Len(pieces) = n, DOMAIN pieces = 1..n, j[1] = "arr", Len(j[2]) = n
    PROVE  ManyFilled(F, sig, j, pieces, n)
<1> DEFINE all == Together([i \in DOMAIN pieces |-> FillOne(F, pieces[i], j[2][i])])
<1>1. pieces # <<>> /\ ~(n = 1) /\ n > 1
  <2>1. Len(<<>>) = 0
    OBVIOUS
  <2>2. n # 0 /\ n # 1
    OBVIOUS
  <2> QED
    BY <2>1, <2>2, Zenon
<1>2. FillPieces(F, sig, j) = IF j[1] = "arr" /\ Len(j[2]) = Len(pieces) THEN all ELSE Failed
  BY <1>1 DEF FillPieces
<1> HIDE DEF all
<1>3. FillPieces(F, sig, j) = all
  BY <1>2
<1> QED
  BY <1>3, Zenon DEF all, ManyFilled

LEMMA PiecesBack ==
    ASSUME NEW F, NEW V, NEW H, NEW P, NEW J, Lower(F, V, H, P, J), NEW Ts \in Seq(Types), Ts # <<>>,
           NEW vs, AllReadable(TypedOver(H), PlainOver(P), Ts, vs),
           NEW j \in Jsons, j = TellsAll(JsonOver(J), Ts, vs, FALSE)
    PROVE  Backed(FillPieces(F, Flat(Ts), j), TypedOver(H), PlainOver(P), JsonOver(J), Ts, vs)
<1> DEFINE n == Len(Ts)
           sig == Flat(Ts)
           pieces == SigsOf(Ts)
           told(i) == Tells(JsonOver(J), Ts[i], vs[i], FALSE)
           twin(i, w) == Twin(TypedOver(H), PlainOver(P), JsonOver(J), Ts[i], vs[i], w)
           r == FillPieces(F, sig, j)
<1>1. /\ vs \in Seq(Values) /\ Len(vs) = n
      /\ \A i \in 1..n : Readable(TypedOver(H), PlainOver(P), Ts[i], vs[i])
  BY Zenon DEF AllReadable
<1>2. n \in Nat /\ n # 0 /\ DOMAIN Ts = 1..n /\ DOMAIN vs = 1..n
  <2>1. n \in Nat /\ n # 0
    OBVIOUS
  <2> QED
    BY <1>1, <2>1, SeqDomain, Zenon
<1>3. \A i \in 1..n : Ts[i] \in Types /\ vs[i] \in Values
  BY <1>1
<1>4. split[sig].ok /\ split[sig].result = pieces
  BY ConvertiblePieces
<1>5. DOMAIN pieces = 1..n /\ Len(pieces) = n /\ \A i \in 1..n : pieces[i] = SigOf[Ts[i]]
  <2>1. pieces \in Seq(Seq(Chars)) /\ Len(pieces) = n /\ \A i \in 1..n : pieces[i] = SigOf[Ts[i]]
    BY SigsType
  <2>2. DOMAIN pieces = 1..n
    BY <2>1, SeqDomain, Zenon
  <2> QED
    BY <2>1, <2>2
<1> HIDE DEF n, sig, pieces
<1>6. ASSUME NEW i \in 1..n, told(i) \in Jsons
      PROVE  \E w \in Values : FillOne(F, pieces[i], told(i)) = Wrote(w) /\ twin(i, w)
  <2>1. Suits(H, P, Ts[i], vs[i])
    BY <1>1, <1>3, SuitsReadable
  <2>2. told(i) = TellsOf(J, Ts[i], vs[i], FALSE)
    BY <1>3, TellsOver
  <2>3. TellsOf(J, Ts[i], vs[i], FALSE) \in Jsons
    BY <1>6, <2>2, Zenon
  <2>4. \E w \in Values : Again(F, H, P, J, Ts[i], vs[i], w)
    BY <1>3, <2>1, <2>3, BackAgain
  <2> HIDE DEF told
  <2> QED
    BY <1>5, <2>2, <2>4, Zenon DEF Again
<1> HIDE DEF told, twin, r
<1>7. \E out : r.ok /\ r.out = out /\ out \in Seq(Values) /\ Len(out) = n /\ \A i \in 1..n : twin(i, out[i])
  <2>1. CASE n = 1
    <3>1. 1 \in 1..n /\ \A i \in 1..n : i = 1
      BY <2>1
    <3>2. j = told(1)
      BY <2>1, Zenon DEF TellsAll, told, n
    <3>3. PICK w \in Values : FillOne(F, pieces[1], told(1)) = Wrote(w) /\ twin(1, w)
      BY <1>6, <3>1, <3>2, Zenon
    <3>4. r = FillOne(F, pieces[1], j)
      <4>1. PiecesTo(F, pieces, j, r)
        <5>1. pieces # <<>>
          <6>1. Len(<<>>) = 0 /\ 1 # 0
            OBVIOUS
          <6> QED
            BY <1>5, <2>1, <6>1, Zenon
        <5> QED
          BY <1>2, <1>4, <1>5, <5>1, FillPiecesCases DEF r
      <4> QED
        BY <1>5, <2>1, <4>1, Zenon DEF PiecesTo
    <3>5. r.ok /\ r.out = <<w>>
      BY <3>2, <3>3, <3>4, WroteResult, Zenon
    <3>6. \A S : \A x \in S : <<x>> \in Seq(S) /\ Len(<<x>>) = 1 /\ <<x>>[1] = x
      OBVIOUS
    <3>7. <<w>> \in Seq(Values) /\ Len(<<w>>) = n /\ \A i \in 1..n : twin(i, <<w>>[i])
      BY <2>1, <3>1, <3>3, <3>6, Zenon
    <3> QED
      BY <3>5, <3>7, Zenon
  <2>2. CASE n # 1
    <3> DEFINE s == [i \in DOMAIN vs |-> told(i)]
               rs == [i \in 1..n |-> FillOne(F, pieces[i], j[2][i])]
    <3>1. j = <<"arr", s>>
      BY <2>2, Zenon DEF TellsAll, told, n
    <3>2. j[1] = "arr" /\ j[2] = s
      <4>1. \A x, y : x = <<"arr", y>> => x[1] = "arr" /\ x[2] = y
        OBVIOUS
      <4> HIDE DEF s
      <4> QED
        BY <3>1, <4>1, Zenon
    <3>3. s \in Seq(Jsons)
      BY <3>2, JsonParts, Zenon
    <3>4. DOMAIN s = 1..n /\ \A i \in 1..n : s[i] = told(i)
      BY <1>2, Zenon
    <3> HIDE DEF s
    <3>5. Len(s) = n
      <4>1. \A S : \A u \in Seq(S) : \A m \in Nat : DOMAIN u = 1..m => Len(u) = m
        OBVIOUS
      <4> QED
        BY <1>2, <3>3, <3>4, <4>1, Zenon
    <3>6. n > 1
      BY <1>2, <2>2
    <3>7. r = Together(rs)
      <4>1. Len(j[2]) = n
        BY <3>2, <3>5, Zenon
      <4> QED
        <5>1. ManyFilled(F, sig, j, pieces, n)
          BY <1>2, <1>4, <1>5, <3>2, <3>6, <4>1, PiecesMany
        <5> QED
          BY <5>1, Zenon DEF ManyFilled, r
    <3>8. DOMAIN rs = 1..n /\ \A i \in 1..n : rs[i] = FillOne(F, pieces[i], told(i))
      BY <3>2, <3>4, Zenon
    <3> HIDE DEF rs
    <3>9. ASSUME NEW i \in 1..n PROVE told(i) \in Jsons
      <4>1. \A S : \A u \in Seq(S) : \A k \in DOMAIN u : u[k] \in S
        OBVIOUS
      <4> QED
        BY <3>3, <3>4, <4>1, Zenon
    <3>10. \A i \in 1..n : \E w \in Values : rs[i] = Wrote(w) /\ twin(i, w)
      BY <1>6, <3>8, <3>9, Zenon
    <3>11. Collected(r, rs, n, Values)
      <4>1. Singles(rs, n, Values)
        BY <3>8, <3>10, WroteResult, Zenon DEF Singles
      <4> QED
        BY <1>2, <3>7, <4>1, TogetherSingles
    <3>12. r.ok /\ r.out \in Seq(Values) /\ Len(r.out) = n /\ \A i \in 1..n : rs[i].out = <<r.out[i]>>
      BY <3>11, Zenon DEF Collected
    <3>13. ASSUME NEW i \in 1..n PROVE twin(i, r.out[i])
      <4>1. \A x, y : <<x>> = <<y>> => x = y
        OBVIOUS
      <4>2. PICK w \in Values : rs[i] = Wrote(w) /\ twin(i, w)
        BY <3>10
      <4>3. rs[i].out = <<w>> /\ rs[i].out = <<r.out[i]>>
        BY <3>12, <4>2, WroteResult, Zenon
      <4>4. w = r.out[i]
        BY <4>1, <4>3, Zenon
      <4> QED
        BY <4>2, <4>4, Zenon
    <3> QED
      BY <3>12, <3>13, Zenon
  <2> QED
    BY <2>1, <2>2
<1>8. Backed(r, TypedOver(H), PlainOver(P), JsonOver(J), Ts, vs)
  BY <1>7, Zenon DEF Backed, twin, n
<1> QED
  BY <1>8 DEF r, sig

\* A single type that is taken whole goes to FillOne.
LEMMA AtAlone ==
    ASSUME NEW F, NEW T \in Types, Whole(T), NEW j \in Jsons
    PROVE  At(FillAny(F), SigOf[T], j) = FillOne(F, SigOf[T], j)
<1> DEFINE Ts == <<T>>
           sig == SigOf[T]
<1>1. At(FillAny(F), sig, j) = FillPieces(F, sig, j)
  BY SigType, AtOver
<1>2. Ts \in Seq(Types) /\ Flat(Ts) = sig /\ Len(Ts) = 1 /\ Ts[1] = T
  BY FlatAlone
<1> HIDE DEF Ts, sig
<1>3. AllWhole(Ts, Len(Ts))
  <2>1. \A i \in 1..Len(Ts) : i = 1
    BY <1>2
  <2> QED
    BY <1>2, <2>1, Zenon DEF AllWhole
<1>4. split[sig] = [ok |-> TRUE, result |-> SigsOf(Ts)]
  BY <1>2, <1>3, PiecesWhole
<1>5. split[sig].ok /\ split[sig].result = SigsOf(Ts)
  <2>1. \A u, x : u = [ok |-> TRUE, result |-> x] => u.ok /\ u.result = x
    OBVIOUS
  <2> QED
    BY <1>4, <2>1, Zenon
<1>6. Len(SigsOf(Ts)) = 1 /\ SigsOf(Ts)[1] = sig /\ SigsOf(Ts) # <<>>
  <2>1. Len(SigsOf(Ts)) = Len(Ts) /\ \A i \in 1..Len(Ts) : SigsOf(Ts)[i] = SigOf[Ts[i]]
    BY <1>2, SigsType
  <2>2. 1 \in 1..1 /\ Len(<<>>) # 1
    OBVIOUS
  <2> QED
    BY <1>2, <2>1, <2>2, Zenon DEF sig
<1>7. PiecesTo(F, SigsOf(Ts), j, FillPieces(F, sig, j))
  BY <1>5, <1>6, FillPiecesCases
<1>8. FillPieces(F, sig, j) = FillOne(F, sig, j)
  BY <1>6, <1>7, Zenon DEF PiecesTo
<1> QED
  BY <1>1, <1>8, Zenon DEF sig

LEMMA KeysFilledOver ==
    ASSUME NEW F, NEW H
    PROVE  KeysFilled(FillAny(F), TypedOver(H))
<1> SUFFICES ASSUME NEW T \in Types, T[1] \in Ints \cup {"s"}, NEW v \in Values, Says(TypedOver(H), T, v),
                    T[1] \in Ints => v[2] \in LongLong, <<"str", TextOf(v)>> \in Jsons
             PROVE  At(FillAny(F), SigOf[T], <<"str", TextOf(v)>>) = Wrote(v)
  BY Zenon DEF KeysFilled
<1> DEFINE sig == SigOf[T]
           j == <<"str", TextOf(v)>>
<1>1. SaysOf(H, T, v)
  BY SaysOver
<1>2. /\ sig = <<T[1]>> /\ v = <<sig, v[2]>>
      /\ T[1] \in Ints => v[2] \in Int /\ static_cast(T[1], v[2]) = v[2]
  <2>1. T[1] \in Ints \cup {"b", "d", "s"}
    OBVIOUS
  <2> QED
    BY <1>1, <2>1, SimpleValue
<1>3. At(FillAny(F), sig, j) = FillOne(F, sig, j)
  <2>1. Whole(T)
    BY ZenonT(60), Kinds DEF Whole, Basic
  <2> QED
    BY <2>1, AtAlone
<1>4. (T[1] \in Ints => TextOf(v) = <<"int", v[2]>>) /\ (T[1] = "s" => TextOf(v) = v[2])
  <2> DEFINE k == <<IF T[1] = "s" THEN "str" ELSE "num", v[2]>>
  <2>1. v[1] = SigOf[T]
    BY <1>1, Zenon DEF SaysOf
  <2>2. Told(T, v, k)
    BY <2>1, Zenon DEF Told
  <2> HIDE DEF k
  <2> QED
    BY <2>2, KeyTold
<1>5. j[1] = "str" /\ j[2] = TextOf(v)
  BY PairParts, Zenon
<1> HIDE DEF j
<1>6. CASE T[1] \in Ints
  <2>1. FillOne(F, sig, j) = AppendIntegerFromJson(T[1], j)
    BY <1>6, FillOneCases, Zenon
  <2>2. j[2][1] = "int" /\ j[2][2] = v[2]
    <3>1. j[2] = <<"int", v[2]>>
      BY <1>4, <1>5, <1>6, Zenon
    <3>2. <<"int", v[2]>>[1] = "int" /\ <<"int", v[2]>>[2] = v[2]
      BY PairParts, Zenon
    <3>3. j[2][1] = <<"int", v[2]>>[1] /\ j[2][2] = <<"int", v[2]>>[2]
      BY <3>1, Zenon
    <3> QED
      BY <3>2, <3>3, Zenon
  <2>3. v[2] \in LongLong /\ InLimits(T[1], v[2])
    BY <1>1, <1>6, Zenon DEF SaysOf, InLimits
  <2>4. "int" \in Numeric /\ "str" # "num"
    BY DEF Numeric
  <2>5. AppendIntegerFromJson(T[1], j) = WroteInteger(T[1], v[2])
    BY <1>5, <2>2, <2>3, <2>4, Zenon DEF AppendIntegerFromJson
  <2> QED
    BY <1>2, <1>3, <1>6, <2>1, <2>5, Zenon DEF WroteInteger, j
<1>7. CASE T[1] = "s"
  <2>1. FillOne(F, sig, j) = IF j[1] = "str" THEN Wrote(<<sig, j[2]>>) ELSE Failed
    BY <1>7, FillOneCases, Zenon
  <2> QED
    BY <1>2, <1>3, <1>4, <1>5, <1>7, <2>1, Zenon DEF j
<1>8. T[1] \in Ints \/ T[1] = "s"
  OBVIOUS
<1> QED
  BY <1>6, <1>7, <1>8, Zenon

LEMMA CarriesOver ==
    ASSUME NEW H
    PROVE  Carries(TypedOver(H))
<1>1. ASSUME NEW T \in Types, NEW v \in Values, Says(TypedOver(H), T, v) PROVE v[1] = SigOf[T]
  <2>1. SaysOf(H, T, v)
    BY <1>1, SaysOver
  <2> QED
    BY <2>1, Zenon DEF SaysOf
<1> QED
  BY <1>1, Zenon DEF Carries

LEMMA LevelBacks ==
    ASSUME NEW F, NEW V, NEW H, NEW P, NEW J, Lower(F, V, H, P, J)
    PROVE  /\ KeysTold(TypedOver(H), PlainOver(P), JsonOver(J)) /\ Carries(TypedOver(H))
           /\ BacksAs(FillAny(F), TypedOver(H), PlainOver(P), JsonOver(J))
<1>1. ASSUME NEW Ts \in Seq(Types), Ts # <<>>, NEW vs,
             AllReadable(TypedOver(H), PlainOver(P), Ts, vs),
             NEW j \in Jsons, j = TellsAll(JsonOver(J), Ts, vs, FALSE)
      PROVE  Backed(At(FillAny(F), Flat(Ts), j), TypedOver(H), PlainOver(P), JsonOver(J), Ts, vs)
  <2>1. Backed(FillPieces(F, Flat(Ts), j), TypedOver(H), PlainOver(P), JsonOver(J), Ts, vs)
    BY <1>1, PiecesBack
  <2>2. Flat(Ts) \in Seq(Chars)
    BY SigsType
  <2>3. At(FillAny(F), Flat(Ts), j) = FillPieces(F, Flat(Ts), j)
    BY <2>2, AtOver
  <2> QED
    BY <2>1, <2>3, Zenon
<1>2. BacksAs(FillAny(F), TypedOver(H), PlainOver(P), JsonOver(J))
  BY <1>1, KeysFilledOver, Zenon DEF BacksAs
<1> QED
  BY <1>2, KeysToldOver, CarriesOver

LEMMA BottomBacks == Lower(FillBottom, {}, TypedBottom, PlainBottom, JsonBottom)
<1>1. ASSUME NEW T \in Types, NEW v \in Values PROVE ~Says(TypedBottom, T, v)
  <2>1. TypedBottom[<<T, v>>] = FALSE
    BY DEF TypedBottom
  <2>2. TypedBottom[T, v] = TypedBottom[<<T, v>>]
    BY Zenon
  <2> QED
    BY <2>1, <2>2, Zenon DEF Says
<1>2. KeysTold(TypedBottom, PlainBottom, JsonBottom) /\ Carries(TypedBottom) /\ KeysFilled(FillBottom, TypedBottom)
  BY <1>1, Zenon DEF KeysTold, Carries, KeysFilled
<1>3. ASSUME NEW Ts \in Seq(Types), Ts # <<>>, NEW vs, AllReadable(TypedBottom, PlainBottom, Ts, vs)
      PROVE  FALSE
  <2>1. vs \in Seq(Values) /\ Len(vs) = Len(Ts) /\ \A i \in 1..Len(Ts) : Says(TypedBottom, Ts[i], vs[i])
    BY <1>3, Zenon DEF AllReadable, Readable
  <2>2. 1 \in 1..Len(Ts) /\ Ts[1] \in Types /\ vs[1] \in Values
    BY <1>3, <2>1
  <2> QED
    BY <1>1, <2>1, <2>2, Zenon
<1>4. BacksAs(FillBottom, TypedBottom, PlainBottom, JsonBottom)
  BY <1>2, <1>3, Zenon DEF BacksAs
<1>5. ValuesOver({}) \subseteq Values
  <2>1. \A n \in Nat : n = 0 => ValuesWithin[n] = ValuesOver({})
    BY ValuesWithinLevels, Zenon
  <2>2. \E n \in 0..Nesting : n = 0
    BY DataAssumption
  <2>3. PICK n \in 0..Nesting : n = 0
    BY <2>2
  <2>4. ValuesWithin[n] \subseteq Values
    BY ValuesBelow
  <2> QED
    BY <2>1, <2>3, <2>4
<1> QED
  BY <1>2, <1>4, <1>5, BottomTyped, Zenon DEF Lower, Beneath

\* Whatever the JSON that says the same as values, the conversion makes such values of it.
LEMMA BacksMessage == BacksAs(FillMessage[Nesting], HasType[Nesting], Plain[Nesting], JsonOf[Nesting])
<1> DEFINE Good(n) == /\ KeysTold(HasType[n], Plain[n], JsonOf[n]) /\ Carries(HasType[n])
                      /\ BacksAs(FillMessage[n], HasType[n], Plain[n], JsonOf[n])
           S == {n \in 0..Nesting : Good(n)}
<1>1. Nesting \in Nat
  BY DataAssumption
<1>2. 0 \in S
  <2>1. ASSUME NEW n \in Nat, n = 0 PROVE Good(n)
    <3>1. /\ FillMessage[n] = FillAny(FillBottom) /\ HasType[n] = TypedOver(TypedBottom)
          /\ Plain[n] = PlainOver(PlainBottom) /\ JsonOf[n] = JsonOver(JsonBottom)
      BY <2>1, FillMessageLevels, HasTypeLevels, PlainLevelled, JsonOfLevelled, Zenon
         DEF FillBottom, TypedBottom, PlainBottom, JsonBottom
    <3>2. /\ KeysTold(TypedOver(TypedBottom), PlainOver(PlainBottom), JsonOver(JsonBottom))
          /\ Carries(TypedOver(TypedBottom))
          /\ BacksAs(FillAny(FillBottom), TypedOver(TypedBottom), PlainOver(PlainBottom), JsonOver(JsonBottom))
      BY BottomBacks, LevelBacks
    <3> QED
      BY <3>1, <3>2, Zenon
  <2>2. Good(0)
    BY <2>1
  <2> HIDE DEF Good
  <2> QED
    BY <1>1, <2>2
<1>3. ASSUME NEW n \in 1..Nesting, n - 1 \in S PROVE n \in S
  <2>1. n \in Nat /\ n # 0 /\ n \in 0..Nesting /\ n - 1 \in 0..Nesting
    BY <1>1
  <2>2. /\ FillMessage[n] = FillAny(FillMessage[n - 1]) /\ HasType[n] = TypedOver(HasType[n - 1])
        /\ Plain[n] = PlainOver(Plain[n - 1]) /\ JsonOf[n] = JsonOver(JsonOf[n - 1])
        /\ ValuesWithin[n] = ValuesOver(ValuesWithin[n - 1])
    BY <2>1, FillMessageLevels, HasTypeLevels, PlainLevelled, JsonOfLevelled, ValuesWithinLevels, Zenon
  <2>3. Good(n - 1)
    BY <1>3
  <2>4. Beneath(FillMessage[n - 1], ValuesWithin[n - 1], HasType[n - 1])
    <3>1. ValuesWithin[n] \subseteq Values
      BY <2>1, ValuesBelow
    <3>2. FillsTyped(FillMessage[n - 1], ValuesWithin[n - 1], HasType[n - 1])
      BY <2>1, FillLevelsTyped
    <3> QED
      BY <2>2, <3>1, <3>2, Zenon DEF Beneath
  <2>5. Lower(FillMessage[n - 1], ValuesWithin[n - 1], HasType[n - 1], Plain[n - 1], JsonOf[n - 1])
    BY <2>3, <2>4, Zenon DEF Lower
  <2>6. /\ KeysTold(TypedOver(HasType[n - 1]), PlainOver(Plain[n - 1]), JsonOver(JsonOf[n - 1]))
        /\ Carries(TypedOver(HasType[n - 1]))
        /\ BacksAs(FillAny(FillMessage[n - 1]), TypedOver(HasType[n - 1]), PlainOver(Plain[n - 1]),
                   JsonOver(JsonOf[n - 1]))
    BY <2>5, LevelBacks
  <2>7. Good(n)
    BY <2>2, <2>6, Zenon
  <2> HIDE DEF Good
  <2> QED
    BY <2>1, <2>7
<1> HIDE DEF S
<1>4. 0..Nesting \subseteq S
  BY <1>1, <1>2, <1>3, InductionUpTo
<1>5. Nesting \in S
  BY <1>1, <1>4
<1>6. Good(Nesting)
  <2> HIDE DEF Good
  <2> QED
    BY <1>5 DEF S
<1> QED
  BY <1>6

-----------------------------------------------------------------------------
(* The call and its echo *)

\* What the message is made of, and what the echo service makes of it.
EchoInv ==
    /\ stage = "refused" => ~FillMethod.ok
    /\ stage \notin {"request", "refused"} => FillMethod.ok /\ message = FillMethod.out
    /\ stage = "failed" => Len(message) # Len(call.in)
    /\ stage \in {"replied", "answered", "unreadable"} /\ call.in = call.out => reply = message

LEMMA EchoInvAlways == PayloadSpec => []EchoInv
<1>1. PayloadInit => EchoInv
  BY DEF PayloadInit, EchoInv
<1>2. EchoInv /\ [PayloadNext]_vars => EchoInv'
  <2> SUFFICES ASSUME EchoInv, [PayloadNext]_vars PROVE EchoInv'
    OBVIOUS
  <2>1. call' = call
    BY DEF PayloadNext, FillArgs, RefuseArgs, Serve, ServeError, ExtractArgs, FailOnReply, vars
  <2>2. FillMethod' = FillMethod
    BY <2>1 DEF FillMethod
  <2>3. CASE FillArgs \/ RefuseArgs
    BY <2>1, <2>2, <2>3 DEF FillArgs, RefuseArgs, EchoInv
  <2>4. CASE Serve
    BY <2>1, <2>2, <2>4 DEF Serve, EchoInv
  <2>5. CASE ServeError
    BY <2>1, <2>2, <2>5 DEF ServeError, EchoInv
  <2>6. CASE ExtractArgs \/ FailOnReply
    BY <2>1, <2>2, <2>6 DEF ExtractArgs, FailOnReply, EchoInv
  <2>7. CASE UNCHANGED vars
    BY <2>1, <2>2, <2>7 DEF vars, EchoInv
  <2> QED
    BY <2>3, <2>4, <2>5, <2>6, <2>7 DEF PayloadNext
<1> QED
  BY <1>1, <1>2, PTL DEF PayloadSpec

Meant == call.source = "values" /\ ConvertibleAll(call.in) /\ PlainAll(call.in, call.meant)

AsMeant(ws) ==
    /\ ws \in Seq(Values) /\ DOMAIN ws = DOMAIN call.in /\ Len(ws) = Len(call.in)
    /\ DOMAIN call.meant = DOMAIN call.in
    /\ \A i \in DOMAIN call.in :
         Twin(HasType[Nesting], Plain[Nesting], JsonOf[Nesting], call.in[i], call.meant[i], ws[i])

\* The message holds values that are like what the client means.
LEMMA MeantFilled ==
    ASSUME InCalls, Meant
    PROVE  FillMethod.ok /\ AsMeant(FillMethod.out)
<1> DEFINE n == Len(call.in)
           meant == call.meant
           told(i) == Tells(JsonOf[Nesting], call.in[i], meant[i], FALSE)
           rs == [i \in DOMAIN call.in |->
                    IF i \in DOMAIN call.request
                    THEN FillMessage[Nesting][SigOf[call.in[i]], call.request[i]]
                    ELSE Failed]
           twin(i, w) == Twin(HasType[Nesting], Plain[Nesting], JsonOf[Nesting], call.in[i], meant[i], w)
           r == Together(rs)
<1>1. FillMethod = r
  BY Zenon DEF FillMethod
<1>2. /\ call.in \in Seq(Types) /\ call.request \in Seq(Jsons)
      /\ meant \in Seq(Values) /\ HaveTypes(call.in, meant)
      /\ call.request = JsonOfAll(call.in, meant, FALSE)
  BY InputsAssumption, Zenon DEF InCalls, CallsAssumption, Meant
<1>3. n \in Nat /\ DOMAIN call.in = 1..n /\ DOMAIN meant = 1..n
  <2>1. Len(meant) = n
    BY <1>2, Zenon DEF HaveTypes
  <2> QED
    BY <1>2, <2>1, SeqDomain, Zenon
<1>4. DOMAIN call.request = 1..n /\ \A i \in 1..n : call.request[i] = told(i)
  BY <1>2, <1>3, Zenon DEF JsonOfAll, Tells
<1>5. \A i \in 1..n : call.in[i] \in Types /\ meant[i] \in Values /\ call.request[i] \in Jsons
  <2>1. \A S : \A s \in Seq(S) : \A i \in DOMAIN s : s[i] \in S
    OBVIOUS
  <2> QED
    BY <1>2, <1>3, <1>4, <2>1, Zenon
<1>6. \A i \in 1..n : Readable(HasType[Nesting], Plain[Nesting], call.in[i], meant[i])
  BY <1>2, <1>3, Zenon DEF Readable, Says, HaveTypes, Meant, ConvertibleAll, PlainAll
<1>7. DOMAIN rs = 1..n /\ \A i \in 1..n : rs[i] = At(FillMessage[Nesting], SigOf[call.in[i]], told(i))
  BY <1>3, <1>4, Zenon DEF At
<1> HIDE DEF rs, n, meant
<1>8. ASSUME NEW i \in 1..n
      PROVE  rs[i].ok /\ \E w \in Values : rs[i].out = <<w>> /\ twin(i, w)
  <2>1. told(i) \in Jsons
    BY <1>4, <1>5, Zenon
  <2>2. BacksIt(FillMessage[Nesting], HasType[Nesting], Plain[Nesting], JsonOf[Nesting], call.in[i], meant[i], told(i))
    BY <1>5, <1>6, <2>1, BacksMessage, BacksAlone
  <2> HIDE DEF told
  <2> QED
    BY <1>7, <2>2, Zenon DEF BacksIt
<1> HIDE DEF told, twin
<1>9. Collected(r, rs, n, Values)
  <2>1. Singles(rs, n, Values)
    BY <1>7, <1>8, Zenon DEF Singles
  <2> QED
    BY <1>3, <2>1, TogetherSingles
<1> HIDE DEF r
<1>10. r.ok /\ r.out \in Seq(Values) /\ Len(r.out) = n /\ \A i \in 1..n : rs[i].out = <<r.out[i]>>
  BY <1>9, Zenon DEF Collected
<1>11. ASSUME NEW i \in 1..n PROVE twin(i, r.out[i])
  <2>1. \A x, y : <<x>> = <<y>> => x = y
    OBVIOUS
  <2>2. PICK w \in Values : rs[i].out = <<w>> /\ twin(i, w)
    BY <1>8
  <2>3. <<w>> = <<r.out[i]>>
    BY <1>10, <2>2, Zenon
  <2>4. w = r.out[i]
    BY <2>1, <2>3, Zenon
  <2> QED
    BY <2>2, <2>4, Zenon
<1>12. DOMAIN r.out = 1..n
  BY <1>10, SeqDomain, Zenon
<1>13. AsMeant(r.out)
  BY <1>3, <1>10, <1>11, <1>12, Zenon DEF AsMeant, twin, n, meant
<1> QED
  BY <1>1, <1>10, <1>13, Zenon

\* What a client means is what the service gets, and what the echo service sends
\* back is the request again: Json2Message and Message2Json undo each other for
\* every value of a type they can handle.
THEOREM RoundTripAlways == PayloadSpec => []RoundTrip
<1>1. InCalls /\ EchoInv /\ ReplyInv /\ ReplyAsSent => RoundTrip
  <2> SUFFICES ASSUME InCalls, EchoInv, ReplyInv, ReplyAsSent, Meant
               PROVE  /\ stage \notin {"refused", "failed"}
                      /\ stage # "request" => JsonOfAll(call.in, message, FALSE) = call.request
                      /\ call.in = call.out => stage # "unreadable"
                      /\ call.in = call.out /\ call.in # <<>> /\ stage = "answered" =>
                           body = <<"arr", JsonOfAll(call.in, call.meant, binary_support)>>
    BY Zenon DEF RoundTrip, Meant
  <2>1. FillMethod.ok /\ AsMeant(FillMethod.out)
    BY MeantFilled
  <2>2. stage # "refused"
    BY <2>1, Zenon DEF EchoInv
  <2>3. stage # "request" => AsMeant(message)
    <3>1. stage # "request" => stage \notin {"request", "refused"}
      BY <2>2
    <3> QED
      BY <2>1, <3>1, Zenon DEF EchoInv
  <2>4. stage # "failed"
    <3>1. stage = "failed" => stage # "request"
      OBVIOUS
    <3> QED
      BY <2>3, <3>1, Zenon DEF EchoInv, AsMeant
  <2>5. ASSUME stage # "request", NEW binary \in BOOLEAN
        PROVE  JsonOfAll(call.in, message, binary) = JsonOfAll(call.in, call.meant, binary)
    <3> DEFINE a(i) == Tells(JsonOf[Nesting], call.in[i], message[i], binary)
               b(i) == Tells(JsonOf[Nesting], call.in[i], call.meant[i], binary)
    <3>1. AsMeant(message)
      BY <2>3, <2>5
    <3>2. DOMAIN message = DOMAIN call.meant
      BY <3>1, Zenon DEF AsMeant
    <3>3. \A i \in DOMAIN message : a(i) = b(i)
      BY <3>1, Zenon DEF AsMeant, Twin
    <3>4. JsonOfAll(call.in, message, binary) = [i \in DOMAIN message |-> a(i)]
      BY Zenon DEF JsonOfAll, Tells
    <3>5. JsonOfAll(call.in, call.meant, binary) = [i \in DOMAIN call.meant |-> b(i)]
      BY Zenon DEF JsonOfAll, Tells
    <3> HIDE DEF a, b
    <3>6. [i \in DOMAIN message |-> a(i)] = [i \in DOMAIN call.meant |-> b(i)]
      BY <3>2, <3>3
    <3> QED
      BY <3>4, <3>5, <3>6, Zenon
  <2>6. stage # "request" => JsonOfAll(call.in, message, FALSE) = call.request
    <3>1. call.request = JsonOfAll(call.in, call.meant, FALSE)
      BY InputsAssumption, Zenon DEF InCalls, CallsAssumption, Meant
    <3>2. FALSE \in BOOLEAN
      OBVIOUS
    <3> QED
      BY <2>5, <3>1, <3>2, Zenon
  <2>7. ASSUME call.in = call.out, stage \in {"answered", "unreadable"}
        PROVE  /\ stage # "unreadable"
               /\ stage = "answered" /\ call.in # <<>> =>
                    body = <<"arr", JsonOfAll(call.in, call.meant, binary_support)>>
    <3>1. stage # "request" /\ stage \in {"replied", "answered", "unreadable"}
      BY <2>7
    <3>2. reply = message /\ AsMeant(message)
      BY <2>3, <2>7, <3>1, Zenon DEF EchoInv
    <3>3. ConvertibleAll(call.out) /\ PlainAll(call.out, reply)
      <4>1. ConvertibleAll(call.in)
        BY Zenon DEF Meant
      <4>2. PlainAll(call.in, message)
        BY <3>2, Zenon DEF PlainAll, AsMeant, Twin, Says
      <4> QED
        BY <2>7, <3>2, <4>1, <4>2, Zenon DEF ConvertibleAll, PlainAll
    <3>4. /\ stage # "unreadable"
          /\ stage = "answered" /\ call.out # <<>> =>
               body = <<"arr", JsonOfAll(call.out, reply, binary_support)>>
      BY <3>3, Zenon DEF ReplyAsSent
    <3>5. binary_support \in BOOLEAN
      BY Zenon DEF ReplyInv
    <3>6. JsonOfAll(call.in, message, binary_support) = JsonOfAll(call.in, call.meant, binary_support)
      BY <2>5, <3>1, <3>5
    <3>7. JsonOfAll(call.out, reply, binary_support) = JsonOfAll(call.in, message, binary_support)
      BY <2>7, <3>2, Zenon DEF JsonOfAll
    <3> QED
      BY <2>7, <3>4, <3>6, <3>7, Zenon
  <2> QED
    BY <2>2, <2>4, <2>6, <2>7
<1> QED
  BY <1>1, InCallsAlways, EchoInvAlways, ReplyInvAlways, ReplyAsSentAlways, PTL

-----------------------------------------------------------------------------
(* The numbers of proposed requests *)

\* The numbers that are drawn are in the range of each type that has such numbers.
LEMMA SmallNumbers ==
    ASSUME NEW c \in Ints, NEW n \in Int, IF c \in Unsigned THEN n \in {0, 1} ELSE n \in {-1, 1}
    PROVE  n \in Low(c)..High(c) /\ n \in LongLong
<1>1. ASSUME NEW d \in Ints
      PROVE  /\ 2 ^ Width[d] \in Nat /\ 2 ^ (Width[d] - 1) \in Nat \ {0}
             /\ 2 ^ Width[d] >= 2 ^ (Width[d] - 1) + 2
  <2>1. Width[d] \in Nat \ {0, 1}
    BY WidthAssumption
  <2>2. Width[d] \in Nat /\ Width[d] - 1 \in Nat
    BY <2>1
  <2> QED
    BY <2>1, <2>2, TwoToThe, TwoMore
<1> DEFINE p(d) == 2 ^ Width[d]
           q(d) == 2 ^ (Width[d] - 1)
<1>2. \A d \in Ints : p(d) \in Nat /\ q(d) \in Nat \ {0} /\ p(d) >= q(d) + 2
  BY <1>1
<1>3. \A d \in Ints : /\ d \in Signed => Low(d) = -q(d) /\ High(d) = -q(d) + p(d) - 1
                      /\ d \notin Signed => Low(d) = 0 /\ High(d) = p(d) - 1
  <2>1. ASSUME NEW d \in Ints, d \in Signed PROVE Low(d) = -q(d) /\ High(d) = -q(d) + p(d) - 1
    BY <2>1, Zenon DEF Low, High
  <2>2. ASSUME NEW d \in Ints, d \notin Signed PROVE Low(d) = 0 /\ High(d) = 0 + p(d) - 1
    BY <2>2, Zenon DEF Low, High
  <2> HIDE DEF p, q
  <2>3. \A d \in Ints : 0 + p(d) - 1 = p(d) - 1
    BY <1>2
  <2> QED
    BY <2>1, <2>2, <2>3
<1> HIDE DEF p, q
<1>4. c \in Signed <=> c \notin Unsigned
  BY DEF Ints, Signed, Unsigned
<1>5. "x" \in Ints /\ "x" \in Signed
  BY DEF Ints, Signed
<1>6. n \in Low(c)..High(c)
  <2>1. CASE c \in Signed
    BY <1>2, <1>3, <1>4, <2>1
  <2>2. CASE c \notin Signed
    BY <1>2, <1>3, <1>4, <2>2
  <2> QED
    BY <2>1, <2>2
<1>7. n \in Low("x")..High("x")
  <2>1. n \in -1..1
    OBVIOUS
  <2>2. p("x") \in Nat /\ q("x") \in Nat \ {0} /\ p("x") >= q("x") + 2
        /\ Low("x") = -q("x") /\ High("x") = -q("x") + p("x") - 1
    BY <1>2, <1>3, <1>5
  <2> QED
    BY <2>1, <2>2
<1> QED
  BY <1>6, <1>7 DEF LongLong

-----------------------------------------------------------------------------
(* A request that is proposed is accepted *)

RandBottom == [sig \in Seq(Chars) |-> {}]
RandLevels == INSTANCE Levels WITH Level <- RandAny, Bottom <- [sig \in Seq(Chars) |-> {}]

LEMMA RandJsonLevels ==
    \A n \in Nat : RandJson[n] =
      RandAny(IF n = 0 THEN [sig \in Seq(Chars) |-> {}] ELSE RandJson[n - 1])
  BY RandLevels!LevelOfLevel DEF RandJson

Draws(R, sig) == R[sig]

\* What the draw for a signature comes from, with its pieces.
DrawnFrom(R, pieces, S) ==
    /\ Len(pieces) = 1 => S = RandOne(R, pieces[1])
    /\ Len(pieces) > 1 => S = {<<"arr", f>> : f \in Product([i \in DOMAIN pieces |-> RandOne(R, pieces[i])])}

LEMMA DrawsOver ==
    ASSUME NEW R, NEW sig \in Seq(Chars), NEW pieces, split[sig].ok, split[sig].result = pieces,
           pieces # <<>>, Len(pieces) \in Nat
    PROVE  DrawnFrom(R, pieces, Draws(RandAny(R), sig))
<1> DEFINE many == {<<"arr", f>> : f \in Product([i \in DOMAIN pieces |-> RandOne(R, pieces[i])])}
           S == Draws(RandAny(R), sig)
<1>1. S = CASE ~split[sig].ok \/ pieces = <<>> -> {}
            [] Len(pieces) = 1 -> RandOne(R, pieces[1])
            [] Len(pieces) > 1 -> many
  BY Zenon DEF Draws, RandAny
<1> HIDE DEF many, S
<1>2. \A m \in Nat : m > 1 => ~(m = 1)
  OBVIOUS
<1>3. Len(pieces) = 1 => S = RandOne(R, pieces[1])
  <2>1. Len(pieces) = 1 => ~(Len(pieces) > 1)
    OBVIOUS
  <2> QED
    BY <1>1, <2>1
<1>4. Len(pieces) > 1 => S = many
  <2>1. Len(pieces) > 1 => ~(Len(pieces) = 1)
    BY <1>2, Zenon
  <2> QED
    BY <1>1, <2>1
<1> QED
  BY <1>3, <1>4, Zenon DEF DrawnFrom, many, S

\* What is drawn for a type.
RandCases(R, T, sig, S) ==
    /\ T[1] = "b" => S = {<<"bool", b>> : b \in BOOLEAN}
    /\ T[1] \in Unsigned => S = {<<"num", n>> : n \in {0, 1}}
    /\ T[1] \in Signed \cup {"d"} => S = {<<"num", n>> : n \in {-1, 1}}
    /\ T[1] = "s" => S = {<<"str", Key("hello")>>}
    /\ T[1] = "v" => S = RandVariant(R)
    /\ T[1] = "(" => S = Draws(R, Inner(sig))
    /\ T[1] \in {"a", "{"} => S =
         IF sig[2] = "{" THEN RandDict(R, sig)
         ELSE {<<"arr", s>> : s \in UNION {[1..n -> Draws(R, Tail(sig))] : n \in {2, 3}}}

LEMMA RandOneCases ==
    ASSUME NEW R, NEW T \in Types, NEW sig, sig = SigOf[T]
    PROVE  RandCases(R, T, sig, RandOne(R, sig))
<1>1. Head(sig) = Opening(T)
  <2>1. sig \in Seq(Chars) /\ Len(sig) >= 1 /\ sig[1] = Opening(T)
    BY SigType, SigFirst
  <2> QED
    BY <2>1
<1>2. /\ T[1] \in Simple => Head(sig) = T[1]
      /\ T[1] \in {"a", "{"} => Head(sig) = "a"
      /\ T[1] = "(" => Head(sig) = "("
  BY <1>1, Kinds, Different, Letters, Zenon DEF Opening
<1>3. Unsigned \cup Signed \cup {"b", "d", "s", "h", "v"} \subseteq Simple
  BY DEF Ints, Signed, Unsigned, Simple, Basic
<1> DEFINE bools == {<<"bool", b>> : b \in BOOLEAN}
           low == {<<"num", n>> : n \in {0, 1}}
           both == {<<"num", n>> : n \in {-1, 1}}
           text == {<<"str", Key("hello")>>}
           deep == Draws(R, Inner(sig))
           dict == RandDict(R, sig)
           array == {<<"arr", s>> : s \in UNION {[1..n -> Draws(R, Tail(sig))] : n \in {2, 3}}}
           any == RandVariant(R)
           c == Head(sig)
           S == RandOne(R, sig)
<1>4. S = CASE c = "b" -> bools
            [] c \in Unsigned -> low
            [] c \in Signed \cup {"d"} -> both
            [] c = "s" -> text
            [] c = "v" -> any
            [] c = "(" -> deep
            [] c = "h" -> {}
            [] c = "a" -> IF sig[2] = "{" THEN dict ELSE array
  BY Zenon DEF RandOne, Draws
<1> HIDE DEF bools, low, both, text, deep, dict, array, any, c, S
<1>5. /\ c = "b" => S = bools
      /\ c \in Unsigned => S = low
      /\ c \in Signed \cup {"d"} => S = both
      /\ c = "s" => S = text
      /\ c = "v" => S = any
      /\ c = "(" => S = deep
      /\ c = "a" => S = IF sig[2] = "{" THEN dict ELSE array
  BY <1>4, ZenonT(60) DEF Signed, Unsigned
<1>6. /\ T[1] = "b" => S = bools
      /\ T[1] \in Unsigned => S = low
      /\ T[1] \in Signed \cup {"d"} => S = both
      /\ T[1] = "s" => S = text
      /\ T[1] = "v" => S = any
      /\ T[1] = "(" => S = deep
      /\ T[1] \in {"a", "{"} => S = IF sig[2] = "{" THEN dict ELSE array
  BY <1>2, <1>3, <1>5, Zenon DEF c
<1> QED
  BY <1>6, Zenon DEF RandCases, bools, low, both, text, deep, dict, array, any, S

\* The text of a key that is drawn.
KeyDrawn(T, t) ==
    /\ T[1] \in Ints => \E n \in {-1, 0, 1} : t = <<"int", n>> /\ n \in Low(T[1])..High(T[1]) /\ n \in LongLong
    /\ T[1] = "s" => t = Key("hello")

KeysTaken(F, R) ==
    \A T \in Types : T[1] \in Ints \cup {"s"} =>
      \A j \in Draws(R, SigOf[T]) :
        /\ KeyDrawn(T, KeyText(j))
        /\ KeyText(j) \in Texts => At(F, SigOf[T], <<"str", KeyText(j)>>).ok

\* A conversion takes what is drawn for types it can handle.
Takes(F, R) ==
    /\ KeysTaken(F, R)
    /\ \A Ts \in Seq(Types) : Ts # <<>> /\ AllConvertible(Ts) =>
         \A j \in Jsons : j \in Draws(R, Flat(Ts)) => At(F, Flat(Ts), j).ok

TakenOne(V, r) == r.ok /\ \E v \in V : r.out = <<v>>

LEMMA NotDescriptor ==
    ASSUME NEW T \in Types, Convertible[T]
    PROVE  T # <<"h">>
<1>1. ConvertibleOver(T, Convertible)
  BY ConvertibleDefined
<1>2. T[1] # "h"
  BY <1>1, ZenonT(60) DEF ConvertibleOver
<1> QED
  BY <1>2

LEMMA TakenAlone ==
    ASSUME NEW F, NEW V, NEW H, FillsTyped(F, V, H), NEW T \in Types, Convertible[T],
           NEW j \in Jsons, At(F, SigOf[T], j).ok
    PROVE  TakenOne(V, At(F, SigOf[T], j))
<1>1. OneTyped(V, H, T, At(F, SigOf[T], j).out)
  BY FilledAlone
<1> QED
  BY <1>1, NotDescriptor, Zenon DEF OneTyped, TakenOne

LEMMA TakesAlone ==
    ASSUME NEW F, NEW R, NEW V, NEW H, FillsTyped(F, V, H), Takes(F, R), NEW T \in Types, Convertible[T],
           NEW j \in Jsons, j \in Draws(R, SigOf[T])
    PROVE  TakenOne(V, At(F, SigOf[T], j))
<1> DEFINE Ts == <<T>>
<1>1. Ts \in Seq(Types) /\ Flat(Ts) = SigOf[T] /\ Ts # <<>> /\ Len(Ts) = 1 /\ Ts[1] = T
  BY FlatAlone
<1> HIDE DEF Ts
<1>2. AllConvertible(Ts)
  <2>1. \A i \in 1..Len(Ts) : i = 1
    BY <1>1
  <2> QED
    BY <1>1, <2>1, Zenon DEF AllConvertible
<1>3. At(F, SigOf[T], j).ok
  BY <1>1, <1>2, Zenon DEF Takes
<1> QED
  BY <1>3, TakenAlone

\* Whether the conversion takes what is given for one type.
FillsOne(F, T, j) == FillOne(F, SigOf[T], j).ok

LEMMA AllTaken ==
    ASSUME NEW n, NEW rs, DOMAIN rs = 1..n, \A i \in 1..n : rs[i].ok
    PROVE  Together(rs).ok
<1> DEFINE all == FlattenSeq([i \in DOMAIN rs |-> rs[i].out])
<1>1. Together(rs) = [ok |-> TRUE, out |-> all]
  BY Zenon DEF Together
<1>2. \A u, x : u = [ok |-> TRUE, out |-> x] => u.ok
  OBVIOUS
<1> HIDE DEF all
<1> QED
  BY <1>1, <1>2, Zenon

LEMMA TakeSimple ==
    ASSUME NEW F, NEW R, NEW T \in Types, T[1] \in Ints \cup {"b", "d", "s"},
           NEW j, j \in RandOne(R, SigOf[T])
    PROVE  FillsOne(F, T, j)
<1> DEFINE sig == SigOf[T]
           S == RandOne(R, sig)
           r == FillOne(F, sig, j)
<1>1. RandCases(R, T, sig, S)
  BY RandOneCases
<1>2. \A a, b : <<a, b>>[1] = a
  OBVIOUS
<1>3. j \in S
  OBVIOUS
<1> HIDE DEF S
<1>4. CASE T[1] \in Ints
  <2>1. r = AppendIntegerFromJson(T[1], j)
    BY <1>4, FillOneCases, Zenon
  <2>2. j[1] = "num"
    <3>1. T[1] \in Unsigned \/ T[1] \in Signed
      BY <1>4 DEF Ints, Signed, Unsigned
    <3>2. CASE T[1] \in Unsigned
      <4>1. S = {<<"num", n>> : n \in {0, 1}}
        BY <1>1, <3>2, Zenon DEF RandCases
      <4>2. PICK n \in {0, 1} : j = <<"num", n>>
        BY <1>3, <4>1
      <4> QED
        BY <1>2, <4>2, Zenon
    <3>3. CASE T[1] \in Signed
      <4>1. S = {<<"num", n>> : n \in {-1, 1}}
        BY <1>1, <3>3, Zenon DEF RandCases
      <4>2. PICK n \in {-1, 1} : j = <<"num", n>>
        BY <1>3, <4>1
      <4> QED
        BY <1>2, <4>2, Zenon
    <3> QED
      BY <3>1, <3>2, <3>3
  <2>3. r = Wrote(<<<<T[1]>>, static_cast(T[1], j[2])>>)
    BY <2>1, <2>2, Zenon DEF AppendIntegerFromJson, WroteInteger
  <2> QED
    BY <2>3, WroteResult, Zenon DEF FillsOne, r
<1>5. CASE T[1] = "b"
  <2>1. S = {<<"bool", b>> : b \in BOOLEAN}
    BY <1>1, <1>5, Zenon DEF RandCases
  <2>2. PICK b \in BOOLEAN : j = <<"bool", b>>
    BY <1>3, <2>1
  <2>3. j[1] = "bool"
    BY <1>2, <2>2, Zenon
  <2>4. r = Wrote(<<sig, j[2]>>)
    <3>1. T[1] = "b" => r = IF j[1] = "bool" THEN Wrote(<<sig, j[2]>>) ELSE Failed
      BY FillOneCases, Zenon
    <3> HIDE DEF r
    <3> QED
      BY <1>5, <2>3, <3>1, Zenon
  <2> QED
    BY <2>4, WroteResult, Zenon DEF FillsOne, r
<1>6. CASE T[1] = "d"
  <2>1. S = {<<"num", n>> : n \in {-1, 1}}
    BY <1>1, <1>6, Zenon DEF RandCases
  <2>2. PICK n \in {-1, 1} : j = <<"num", n>>
    BY <1>3, <2>1
  <2>3. j[1] \in {"num", "real"}
    <3>1. j[1] = "num"
      BY <1>2, <2>2, Zenon
    <3> QED
      BY <3>1
  <2>4. r = Wrote(<<sig, j[2]>>)
    <3>1. T[1] = "d" => r = IF j[1] \in {"num", "real"} THEN Wrote(<<sig, j[2]>>) ELSE Failed
      BY FillOneCases, Zenon
    <3> HIDE DEF r
    <3> QED
      BY <1>6, <2>3, <3>1, Zenon
  <2> QED
    BY <2>4, WroteResult, Zenon DEF FillsOne, r
<1>7. CASE T[1] = "s"
  <2>1. S = {<<"str", Key("hello")>>}
    BY <1>1, <1>7, Zenon DEF RandCases
  <2>2. j = <<"str", Key("hello")>>
    BY <1>3, <2>1, Zenon
  <2>3. j[1] = "str"
    BY <1>2, <2>2, Zenon
  <2>4. r = Wrote(<<sig, j[2]>>)
    <3>1. T[1] = "s" => r = IF j[1] = "str" THEN Wrote(<<sig, j[2]>>) ELSE Failed
      BY FillOneCases, Zenon
    <3> HIDE DEF r
    <3> QED
      BY <1>7, <2>3, <3>1, Zenon
  <2> QED
    BY <2>4, WroteResult, Zenon DEF FillsOne, r
<1> QED
  BY <1>4, <1>5, <1>6, <1>7

\* Level by level: what is below converts what is drawn below, and writes what it should.
TakesBelow(F, R, V, H) == FillsTyped(F, V, H) /\ Takes(F, R)

LEMMA TakeStruct ==
    ASSUME NEW F, NEW R, NEW V, NEW H, TakesBelow(F, R, V, H), NEW T \in Types, T[1] = "(", Convertible[T],
           NEW j \in Jsons, j \in RandOne(R, SigOf[T])
    PROVE  FillsOne(F, T, j)
<1> DEFINE Ts == T[2]
           sig == SigOf[T]
           r == At(F, Flat(Ts), j)
           m == Len(split[Flat(Ts)].result)
           w == <<sig, r.out>>
<1>1. StructOfType(sig, T) /\ Ts \in Seq(Types) /\ Ts # <<>>
  BY StructParts
<1>2. Inner(sig) = Flat(Ts)
  BY <1>1, Zenon DEF StructOfType
<1>3. j \in Draws(R, Flat(Ts))
  <2>1. RandCases(R, T, sig, RandOne(R, sig))
    BY RandOneCases
  <2> QED
    BY <1>2, <2>1, Zenon DEF RandCases
<1>4. AllConvertible(Ts)
  <2>1. ConvertibleOver(T, Convertible)
    BY ConvertibleDefined
  <2>2. \A i \in DOMAIN Ts : Convertible[Ts[i]]
    BY <2>1, Kinds, ZenonT(60) DEF ConvertibleOver
  <2>3. DOMAIN Ts = 1..Len(Ts)
    BY <1>1, SeqDomain, Zenon
  <2> QED
    BY <2>2, <2>3, Zenon DEF AllConvertible
<1>5. FillOne(F, sig, j) = FillStruct(F, sig, j)
  BY FillOneCases, Zenon
<1>6. FillStruct(F, sig, j) = Enclose(r, m, w)
  BY <1>2, Zenon DEF FillStruct, At
<1>7. r.ok /\ Filled(V, H, Ts, r)
  BY <1>1, <1>3, <1>4, Zenon DEF Takes, TakesBelow, FillsTyped
<1> HIDE DEF Ts, r
<1>8. PICK outs : OutsTyped(V, H, Ts, outs) /\ r.out = FlattenSeq(outs)
  BY <1>7, Zenon DEF Filled
<1>9. outs \in Seq(Seq(V)) /\ Len(outs) = Len(Ts) /\ Len(Ts) \in Nat
  <2>1. outs \in Seq(Seq(V)) /\ Len(outs) = Len(Ts)
    BY <1>8, Zenon DEF OutsTyped
  <2> QED
    BY <1>1, <2>1, SeqDomain, Zenon
<1>10. ASSUME NEW i \in 1..Len(Ts) PROVE Len(outs[i]) = 1
  <2>1. OneTyped(V, H, Ts[i], outs[i])
    BY <1>8, Zenon DEF OutsTyped
  <2>2. Ts[i] \in Types /\ Convertible[Ts[i]]
    <3>1. Ts[i] \in Types
      BY <1>1
    <3> QED
      BY <1>4, <3>1, Zenon DEF AllConvertible
  <2>3. Ts[i] # <<"h">>
    BY <2>2, NotDescriptor
  <2>4. PICK x \in V : outs[i] = <<x>>
    BY <2>1, <2>3, Zenon DEF OneTyped
  <2>5. Len(<<x>>) = 1
    OBVIOUS
  <2> QED
    BY <2>4, <2>5, Zenon
<1>11. Len(r.out) = Len(Ts)
  <2>1. \A i \in 1..Len(outs) : Len(outs[i]) <= 1
    <3>1. 1 <= 1
      OBVIOUS
    <3> QED
      BY <1>9, <1>10, <3>1, Zenon
  <2>2. OneEach(outs, FlattenSeq(outs), Len(outs))
    BY <1>9, <2>1, FlattenOneEach
  <2> QED
    BY <1>8, <1>9, <1>10, <2>2, Zenon DEF OneEach
<1>12. m = Len(Ts)
  <2>1. split[Flat(Ts)].result = SigsOf(Ts)
    BY <1>1, <1>4, ConvertibleSplit
  <2> QED
    BY <1>1, <2>1, SigsType, Zenon
<1> HIDE DEF m, w, sig
<1>13. FillOne(F, sig, j) = Wrote(w)
  BY <1>5, <1>6, <1>7, <1>11, <1>12, EncloseWrites, Zenon
<1> QED
  BY <1>13, WroteResult, Zenon DEF FillsOne, sig

LEMMA LetterBehind ==
    ASSUME NEW S, NEW s \in Seq(S), NEW c \in S, NEW u \in Seq(S), Len(u) = Len(s) + 1,
           \A i \in 1..Len(s) : u[i] = s[i], u[Len(s) + 1] = c
    PROVE  join(s, <<c>>) = u
  BY DEF join

Spelt(a, b, c, d, u) == a \o b \o c \o d = u

LEMMA FiveLetters ==
    ASSUME NEW S, NEW a \in S, NEW b \in S, NEW c \in S, NEW d \in S, NEW e \in S
    PROVE  Spelt(<<a, b>>, <<c>>, <<d>>, <<e>>, <<a, b, c, d, e>>)
<1>1. <<a, b>> \o <<c>> = <<a, b, c>>
  <2> DEFINE s == <<a, b>>
             u == <<a, b, c>>
  <2>1. s \in Seq(S) /\ Len(s) = 2 /\ s[1] = a /\ s[2] = b
    OBVIOUS
  <2>2. u \in Seq(S) /\ Len(u) = 3 /\ u[1] = a /\ u[2] = b /\ u[3] = c
    OBVIOUS
  <2>3. \A i \in 1..2 : i = 1 \/ i = 2
    OBVIOUS
  <2> HIDE DEF s, u
  <2>4. \A i \in 1..Len(s) : u[i] = s[i]
    BY <2>1, <2>2, <2>3
  <2>5. Len(u) = Len(s) + 1 /\ u[Len(s) + 1] = c
    BY <2>1, <2>2
  <2>6. join(s, <<c>>) = u
    BY <2>1, <2>2, <2>4, <2>5, LetterBehind
  <2> QED
    BY <2>6, Zenon DEF join, s, u
<1>2. <<a, b, c>> \o <<d>> = <<a, b, c, d>>
  <2> DEFINE s == <<a, b, c>>
             u == <<a, b, c, d>>
  <2>1. s \in Seq(S) /\ Len(s) = 3 /\ s[1] = a /\ s[2] = b /\ s[3] = c
    OBVIOUS
  <2>2. u \in Seq(S) /\ Len(u) = 4 /\ u[1] = a /\ u[2] = b /\ u[3] = c /\ u[4] = d
    OBVIOUS
  <2>3. \A i \in 1..3 : i = 1 \/ i = 2 \/ i = 3
    OBVIOUS
  <2> HIDE DEF s, u
  <2>4. \A i \in 1..Len(s) : u[i] = s[i]
    BY <2>1, <2>2, <2>3
  <2>5. Len(u) = Len(s) + 1 /\ u[Len(s) + 1] = d
    BY <2>1, <2>2
  <2>6. join(s, <<d>>) = u
    BY <2>1, <2>2, <2>4, <2>5, LetterBehind
  <2> QED
    BY <2>6, Zenon DEF join, s, u
<1>3. <<a, b, c, d>> \o <<e>> = <<a, b, c, d, e>>
  <2> DEFINE s == <<a, b, c, d>>
             u == <<a, b, c, d, e>>
  <2>1. s \in Seq(S) /\ Len(s) = 4 /\ s[1] = a /\ s[2] = b /\ s[3] = c /\ s[4] = d
    OBVIOUS
  <2>2. u \in Seq(S) /\ Len(u) = 5 /\ u[1] = a /\ u[2] = b /\ u[3] = c /\ u[4] = d /\ u[5] = e
    OBVIOUS
  <2>3. \A i \in 1..4 : i = 1 \/ i = 2 \/ i = 3 \/ i = 4
    OBVIOUS
  <2> HIDE DEF s, u
  <2>4. \A i \in 1..Len(s) : u[i] = s[i]
    BY <2>1, <2>2, <2>3
  <2>5. Len(u) = Len(s) + 1 /\ u[Len(s) + 1] = e
    BY <2>1, <2>2
  <2>6. join(s, <<e>>) = u
    BY <2>1, <2>2, <2>4, <2>5, LetterBehind
  <2> QED
    BY <2>6, Zenon DEF join, s, u
<1> QED
  BY <1>1, <1>2, <1>3, Zenon DEF Spelt

LEMMA ConvertibleVariant ==
    ASSUME NEW D, D = <<"{", <<"s">>, <<"i">>>>
    PROVE  D \in Types /\ Convertible[D] /\ SigOf[D] = <<"a", "{", "s", "i", "}">>
<1>1. D \in Types
  BY DataAssumption, ZenonT(60) DEF TypesAssumption
<1>2. D[1] = "{" /\ D[2] = <<"s">> /\ D[3] = <<"i">>
  BY ZenonT(60)
<1> DEFINE K == D[2]
           E == D[3]
<1>3. K \in Types /\ E \in Types
  BY <1>1, <1>2, DictParts, ZenonT(60)
<1>4. K[1] = "s" /\ E[1] = "i"
  BY <1>2, ZenonT(60)
<1>5. "s" \in Simple /\ "i" \in Simple /\ "s" \notin Refused \cup {"h"} /\ "i" \notin Refused \cup {"h"}
  BY Kinds, ZenonT(60) DEF Simple, Basic, Ints, Signed, Refused
<1>6. Convertible[K] /\ Convertible[E]
  BY <1>3, <1>4, <1>5, ConvertibleDefined, ZenonT(60) DEF ConvertibleOver
<1>7. Convertible[D]
  BY <1>1, <1>2, <1>4, <1>6, ConvertibleDefined, ZenonT(60) DEF ConvertibleOver
<1>8. SigOf[D] = <<"a", "{", "s", "i", "}">>
  <2>1. SigOf[D] = <<"a", "{">> \o SigOf[D[2]] \o SigOf[D[3]] \o <<"}">>
    <3>1. SigOf[D] =
            CASE D[1] \in Simple -> D
              [] D[1] = "a" -> <<"a">> \o SigOf[D[2]]
              [] D[1] = "{" -> <<"a", "{">> \o SigOf[D[2]] \o SigOf[D[3]] \o <<"}">>
              [] D[1] = "(" -> <<"(">> \o Flat(D[2]) \o <<")">>
      BY <1>1, DataAssumption, Zenon DEF SigAssumption, Flat, SigsOf
    <3> DEFINE x == <<"a", "{">> \o SigOf[D[2]] \o SigOf[D[3]] \o <<"}">>
               y == <<"a">> \o SigOf[D[2]]
               z == <<"(">> \o Flat(D[2]) \o <<")">>
    <3>2. SigOf[D] = CASE D[1] \in Simple -> D [] D[1] = "a" -> y [] D[1] = "{" -> x [] D[1] = "(" -> z
      BY <3>1, Zenon
    <3> HIDE DEF x, y, z
    <3>3. "{" \notin Simple /\ "{" # "a" /\ "{" # "("
      BY Kinds, ZenonT(60)
    <3>4. SigOf[D] = x
      BY <1>2, <3>2, <3>3, ZenonT(60)
    <3> QED
      BY <3>4, Zenon DEF x
  <2>2. SigOf[D[2]] = <<"s">> /\ SigOf[D[3]] = <<"i">>
    BY <1>3, <1>4, <1>5, SigCases, ZenonT(60)
  <2>3. <<"a", "{">> \o <<"s">> \o <<"i">> \o <<"}">> = <<"a", "{", "s", "i", "}">>
    <3>1. {"a", "{", "s", "i", "}"} \subseteq Chars
      BY Kinds, ZenonT(60) DEF Simple, Basic, Ints, Signed
    <3>2. "a" \in Chars /\ "{" \in Chars /\ "s" \in Chars /\ "i" \in Chars /\ "}" \in Chars
      BY <3>1, Zenon
    <3>3. \A a, b, c, d, e \in Chars : Spelt(<<a, b>>, <<c>>, <<d>>, <<e>>, <<a, b, c, d, e>>)
      BY FiveLetters, ZenonT(60)
    <3>4. Spelt(<<"a", "{">>, <<"s">>, <<"i">>, <<"}">>, <<"a", "{", "s", "i", "}">>)
      BY <3>2, <3>3, Zenon
    <3> QED
      BY <3>4, Zenon DEF Spelt
  <2>4. SigOf[D] = <<"a", "{">> \o <<"s">> \o <<"i">> \o <<"}">>
    BY <2>1, <2>2, Zenon
  <2> QED
    BY <2>3, <2>4, Zenon
<1> QED
  BY <1>1, <1>7, <1>8, Zenon

LEMMA TakeVariant ==
    ASSUME NEW F, NEW R, NEW V, NEW H, TakesBelow(F, R, V, H), NEW T \in Types, T[1] = "v",
           NEW j \in Jsons, j \in RandOne(R, SigOf[T])
    PROVE  FillsOne(F, T, j)
<1> DEFINE D == <<"{", <<"s">>, <<"i">>>>
           text == <<"a", "{", "s", "i", "}">>
           sig == Member(j, Key("variant"))
<1>1. D \in Types /\ Convertible[D] /\ SigOf[D] = text
  BY ConvertibleVariant, ZenonT(60)
<1> HIDE DEF D
<1>2. j \in RandVariant(R)
  <2>1. RandCases(R, T, SigOf[T], RandOne(R, SigOf[T]))
    BY RandOneCases
  <2> QED
    BY <2>1, Zenon DEF RandCases
<1>3. PICK x \in Draws(R, text) : j = VariantJson(text, x)
  BY <1>2, Zenon DEF RandVariant, Draws
<1> HIDE DEF text
<1>4. /\ contains(j, Key("variant")) /\ sig = <<"str", <<"sig", text>>>>
      /\ contains(j, Key("value")) /\ Member(j, Key("value")) = x
  <2>1. VariantHas(j, text, x)
    BY <1>3, VariantParts
  <2> QED
    BY <2>1, Zenon DEF VariantHas
<1>5. x \in Jsons
  BY <1>4, MemberJson
<1> HIDE DEF sig
<1> DEFINE r == At(F, text, x)
<1>6. TakenOne(V, r)
  <2>1. TakenOne(V, At(F, SigOf[D], x))
    BY <1>1, <1>3, <1>5, TakesAlone DEF TakesBelow
  <2> QED
    BY <1>1, <2>1, Zenon
<1> HIDE DEF r
<1>7. r.ok /\ Len(r.out) = 1
  <2>1. PICK v \in V : r.out = <<v>>
    BY <1>6, Zenon DEF TakenOne
  <2>2. \A u : Len(<<u>>) = 1
    OBVIOUS
  <2>3. r.ok
    BY <1>6, Zenon DEF TakenOne
  <2> QED
    BY <2>1, <2>2, <2>3, Zenon
<1>8. FillOne(F, SigOf[T], j) = FillVariant(F, j)
  BY FillOneCases, Zenon
<1>9. sig[1] = "str" /\ sig[2][1] = "sig" /\ sig[2][2] = text
  BY <1>4, PairParts, Zenon
<1>10. IsType(text)
  BY <1>1, Zenon DEF IsType
<1>11. At(F, sig[2][2], Member(j, Key("value"))) = r
  BY <1>4, <1>9, Zenon DEF r
<1>12. FillVariant(F, j) = Enclose(r, 1, <<<<"v">>, r.out[1]>>)
  <2>1. FillVariant(F, j) =
          LET a == At(F, sig[2][2], Member(j, Key("value")))
          IN  IF /\ contains(j, Key("variant")) /\ contains(j, Key("value"))
                 /\ sig[1] = "str" /\ sig[2][1] = "sig" /\ IsType(sig[2][2])
              THEN Enclose(a, 1, <<<<"v">>, a.out[1]>>)
              ELSE Failed
    BY Zenon DEF FillVariant, At, sig
  <2> QED
    BY <1>4, <1>9, <1>10, <1>11, <2>1, Zenon
<1>13. Enclose(r, 1, <<<<"v">>, r.out[1]>>) = Wrote(<<<<"v">>, r.out[1]>>)
  BY <1>7, EncloseWrites, Zenon
<1> QED
  BY <1>8, <1>12, <1>13, WroteResult, Zenon DEF FillsOne

LEMMA TakeArray ==
    ASSUME NEW F, NEW R, NEW V, NEW H, TakesBelow(F, R, V, H), NEW T \in Types, T[1] = "a", Convertible[T],
           NEW j \in Jsons, j \in RandOne(R, SigOf[T])
    PROVE  FillsOne(F, T, j)
<1> DEFINE E == T[2]
           sig == SigOf[T]
           items == Items(j)
           rs == [i \in DOMAIN items |-> At(F, Tail(sig), items[i][2])]
           r == Together(rs)
           w == <<sig, r.out>>
<1>1. /\ E \in Types /\ Tail(sig) = SigOf[E] /\ Len(sig) > 1 /\ sig[2] # "{"
      /\ IsType(sig)
  BY ArrayParts, Zenon DEF ArrayOfType
<1>2. Convertible[E]
  <2>1. ConvertibleOver(T, Convertible)
    BY ConvertibleDefined
  <2> QED
    BY <2>1, Kinds, ZenonT(60) DEF ConvertibleOver
<1>3. j \in {<<"arr", s>> : s \in UNION {[1..n -> Draws(R, Tail(sig))] : n \in {2, 3}}}
  <2>1. RandCases(R, T, sig, RandOne(R, sig))
    BY RandOneCases
  <2> QED
    BY <1>1, <2>1, Zenon DEF RandCases
<1> HIDE DEF sig
<1>4. PICK n \in {2, 3} : \E s \in [1..n -> Draws(R, Tail(sig))] : j = <<"arr", s>>
  BY <1>3, Zenon
<1>5. PICK s \in [1..n -> Draws(R, Tail(sig))] : j = <<"arr", s>>
  BY <1>4
<1>6. FillOne(F, sig, j) = FillArray(F, sig, j)
  BY FillOneCases, ZenonT(40) DEF sig
<1>7. FillArray(F, sig, j) = IF j[1] \notin {"arr", "obj"} THEN Failed ELSE Enclose(r, Len(r.out), w)
  BY <1>1, Zenon DEF FillArray, At
<1>8. j[1] = "arr" /\ j[2] = s
  BY <1>5, PairParts, Zenon
<1>9. items = [i \in DOMAIN j[2] |-> <<<<"int", i - 1>>, j[2][i]>>]
  BY <1>8, Zenon DEF Items
<1>10. j[2] \in Seq(Jsons)
  BY <1>8, JsonParts, Zenon
<1>11. DOMAIN s = 1..n /\ \A i \in 1..n : s[i] \in Draws(R, SigOf[E]) /\ s[i] \in Jsons
  <2>1. DOMAIN s = 1..n /\ \A i \in 1..n : s[i] \in Draws(R, Tail(sig))
    BY <1>5
  <2>2. \A S : \A u \in Seq(S) : \A k \in DOMAIN u : u[k] \in S
    OBVIOUS
  <2> QED
    BY <1>1, <1>8, <1>10, <2>1, <2>2, Zenon
<1> HIDE DEF items
<1>12. DOMAIN items = 1..n /\ \A i \in 1..n : items[i][2] = s[i]
  <2>1. DOMAIN items = DOMAIN s
    BY <1>8, <1>9, Zenon
  <2>2. ASSUME NEW i \in DOMAIN s PROVE items[i][2] = s[i]
    <3> DEFINE x == <<"int", i - 1>>
               y == s[i]
    <3>1. items[i] = <<x, y>>
      BY <1>8, <1>9, Zenon
    <3> HIDE DEF x, y
    <3>2. <<x, y>>[2] = y
      BY PairParts, Zenon
    <3>3. items[i][2] = <<x, y>>[2]
      BY <3>1, Zenon
    <3>4. items[i][2] = y
      BY <3>2, <3>3, Zenon
    <3> QED
      BY <3>4 DEF y
  <2> QED
    BY <1>11, <2>1, <2>2, Zenon
<1>13. DOMAIN rs = 1..n /\ \A i \in 1..n : rs[i] = At(F, SigOf[E], s[i])
  BY <1>1, <1>12, Zenon
<1> HIDE DEF rs
<1>14. ASSUME NEW i \in 1..n PROVE rs[i].ok
  <2>1. s[i] \in Draws(R, SigOf[E]) /\ s[i] \in Jsons
    BY <1>11
  <2>2. TakenOne(V, At(F, SigOf[E], s[i]))
    BY <1>1, <1>2, <2>1, TakesAlone, ZenonT(60) DEF TakesBelow
  <2> QED
    BY <1>13, <2>2, Zenon DEF TakenOne
<1>15. r.ok
  BY <1>13, <1>14, AllTaken
<1> HIDE DEF r, w
<1>16. Enclose(r, Len(r.out), w) = Wrote(w)
  BY <1>15, EncloseWrites, Zenon
<1>17. j[1] \in {"arr", "obj"}
  BY <1>8
<1>18. FillOne(F, sig, j) = Wrote(w)
  BY <1>6, <1>7, <1>16, <1>17, Zenon
<1> QED
  BY <1>18, WroteResult, Zenon DEF FillsOne, sig

LEMMA KeysFinite ==
    ASSUME NEW T, T[1] \in Ints \cup {"s"}, NEW S, \A t \in S : KeyDrawn(T, t)
    PROVE  IsFiniteSet(S)
<1> DEFINE a == <<"int", -1>>
           b == <<"int", 0>>
           c == <<"int", 1>>
           d == Key("hello")
<1>1. ASSUME NEW t \in S PROVE t = a \/ t = b \/ t = c \/ t = d
  <2>1. KeyDrawn(T, t)
    OBVIOUS
  <2>2. CASE T[1] \in Ints
    <3>1. PICK n \in {-1, 0, 1} : t = <<"int", n>>
      BY <2>1, <2>2, Zenon DEF KeyDrawn
    <3> QED
      BY <3>1
  <2>3. CASE T[1] = "s"
    BY <2>1, <2>3, Zenon DEF KeyDrawn
  <2> QED
    BY <2>2, <2>3
<1> HIDE DEF a, b, c, d
<1>2. IsFiniteSet({a, b, c, d})
  <2>1. IsFiniteSet({})
    BY FS_EmptySet
  <2>2. IsFiniteSet({} \cup {a})
    BY <2>1, FS_AddElement
  <2>3. IsFiniteSet(({} \cup {a}) \cup {b})
    BY <2>2, FS_AddElement
  <2>4. IsFiniteSet((({} \cup {a}) \cup {b}) \cup {c})
    BY <2>3, FS_AddElement
  <2>5. IsFiniteSet(((({} \cup {a}) \cup {b}) \cup {c}) \cup {d})
    BY <2>4, FS_AddElement
  <2>6. ((({} \cup {a}) \cup {b}) \cup {c}) \cup {d} = {a, b, c, d}
    OBVIOUS
  <2> QED
    BY <2>5, <2>6
<1>3. S \subseteq {a, b, c, d}
  BY <1>1
<1> QED
  BY <1>2, <1>3, FS_Subset

\* A dictionary is drawn from texts of keys and from values.
DictDrawn(R, T, f) ==
    /\ \A t \in DOMAIN f : \E k \in Draws(R, SigOf[T[2]]) : t = KeyText(k)
    /\ \A t \in DOMAIN f : f[t] \in Draws(R, SigOf[T[3]])

LEMMA DictFromDraws ==
    ASSUME NEW R, NEW T \in Types, IsDict(T), Convertible[T], NEW j, j \in RandOne(R, SigOf[T])
    PROVE  \E f : DictDrawn(R, T, f) /\ j = Object(f)
<1> DEFINE sig == SigOf[T]
           keys == {KeyText(k) : k \in Draws(R, <<sig[3]>>)}
           values == Draws(R, Tail(Inner(Tail(sig))))
           sets == {S \in SUBSET keys : Cardinality(S) \in 1..3}
<1>1. DictOfType(sig, T) /\ T[2] \in Types /\ T[2][1] \in Ints \cup {"s"}
  BY DictParts, KeyTypes, Zenon DEF IsDict
<1>2. sig[2] = "{" /\ sig[3] = T[2][1] /\ Tail(Inner(Tail(sig))) = SigOf[T[3]]
  BY <1>1, Zenon DEF DictOfType
<1>3. <<sig[3]>> = SigOf[T[2]]
  <2> DEFINE K == T[2]
  <2>1. K \in Types /\ K[1] \in Ints \cup {"s"}
    BY <1>1
  <2> HIDE DEF K
  <2>2. K[1] \in Simple
    BY <2>1 DEF Simple, Basic
  <2>3. SigOf[K] = <<K[1]>>
    BY <2>1, <2>2, SigCases, Zenon
  <2> QED
    BY <1>2, <2>3, Zenon DEF K
<1>4. j \in RandDict(R, sig)
  <2>1. RandCases(R, T, sig, RandOne(R, sig))
    BY RandOneCases
  <2>2. T[1] \in {"a", "{"}
    BY Zenon DEF IsDict
  <2> QED
    BY <1>2, <2>1, <2>2, Zenon DEF RandCases
<1>5. RandDict(R, sig) = {Object(f) : f \in UNION {[K -> values] : K \in sets}}
  BY Zenon DEF RandDict, Draws
<1> HIDE DEF keys, values, sig, sets
<1>6. PICK f \in UNION {[K -> values] : K \in sets} : j = Object(f)
  BY <1>4, <1>5, Zenon
<1>7. PICK K \in sets : f \in [K -> values]
  BY <1>6, Zenon
<1>8. DOMAIN f = K /\ K \subseteq keys
  BY <1>7, Zenon DEF sets
<1>9. ASSUME NEW t \in DOMAIN f PROVE \E k \in Draws(R, SigOf[T[2]]) : t = KeyText(k)
  BY <1>3, <1>8, <1>9, Zenon DEF keys
<1>10. ASSUME NEW t \in DOMAIN f PROVE f[t] \in Draws(R, SigOf[T[3]])
  <2>1. f[t] \in values
    BY <1>7, <1>8
  <2> QED
    BY <1>2, <2>1, Zenon DEF values
<1>11. DictDrawn(R, T, f)
  BY <1>9, <1>10, Zenon DEF DictDrawn
<1> QED
  BY <1>6, <1>11

LEMMA TakeEntry ==
    ASSUME NEW F, NEW R, NEW V, NEW H, TakesBelow(F, R, V, H), NEW T \in Types, IsDict(T), Convertible[T],
           NEW f, DictDrawn(R, T, f), NEW t \in DOMAIN f, t \in Texts, f[t] \in Jsons,
           NEW kv, <<Head(kv)>> = SigOf[T[2]], Tail(kv) = SigOf[T[3]]
    PROVE  FillEntry(F, kv, t, f[t]).ok
<1> DEFINE K == T[2]
           E == T[3]
           value == f[t]
<1>1. K \in Types /\ E \in Types /\ Convertible[K] /\ Convertible[E] /\ K[1] \in Ints \cup {"s"}
  BY KeyTypes, Zenon DEF IsDict
<1>2. PICK k \in Draws(R, SigOf[K]) : t = KeyText(k)
  BY Zenon DEF DictDrawn
<1>3. value \in Draws(R, SigOf[E]) /\ value \in Jsons
  BY Zenon DEF DictDrawn
<1> HIDE DEF K, E, value
<1>4. FillsTyped(F, V, H) /\ Takes(F, R)
  BY DEF TakesBelow
<1>5. TakenOne(V, At(F, SigOf[K], <<"str", t>>))
  <2>1. <<"str", t>> \in Jsons
    BY KeyJson
  <2>2. At(F, SigOf[K], <<"str", t>>).ok
    BY <1>1, <1>2, <1>4, Zenon DEF Takes, KeysTaken
  <2> QED
    BY <1>1, <1>4, <2>1, <2>2, TakenAlone
<1>6. TakenOne(V, At(F, SigOf[E], value))
  BY <1>1, <1>3, <1>4, TakesAlone
<1>7. PICK a \in V : At(F, SigOf[K], <<"str", t>>).out = <<a>>
  BY <1>5, Zenon DEF TakenOne
<1>8. PICK b \in V : At(F, SigOf[E], value).out = <<b>>
  BY <1>6, Zenon DEF TakenOne
<1>9. EntryGets(F, kv, t, value, a, b)
  BY <1>5, <1>6, <1>7, <1>8, Zenon DEF EntryGets, TakenOne, K, E
<1>10. EntryWrites(F, kv, t, value, a, b)
  BY <1>9, EntryFilled
<1> QED
  BY <1>10, WroteResult, Zenon DEF EntryWrites, value

LEMMA TakeDict ==
    ASSUME NEW F, NEW R, NEW V, NEW H, TakesBelow(F, R, V, H), NEW T \in Types, IsDict(T), Convertible[T],
           NEW j \in Jsons, j \in RandOne(R, SigOf[T])
    PROVE  FillsOne(F, T, j)
<1> DEFINE sig == SigOf[T]
           kv == Inner(Tail(sig))
           s == j[2]
           rs == [i \in DOMAIN s |-> FillEntry(F, kv, s[i][1], s[i][2])]
           r == Together(rs)
           w == <<sig, r.out>>
<1>1. DictOfType(sig, T)
  BY DictParts, Zenon DEF IsDict
<1>2. <<Head(kv)>> = SigOf[T[2]] /\ Tail(kv) = SigOf[T[3]]
  BY <1>1, Zenon DEF DictOfType
<1>3. PICK f : DictDrawn(R, T, f) /\ j = Object(f)
  BY DictFromDraws
<1>4. IsFiniteSet(DOMAIN f)
  <2>1. T[2] \in Types /\ T[2][1] \in Ints \cup {"s"}
    BY KeyTypes, Zenon DEF IsDict
  <2>2. \A t \in DOMAIN f : KeyDrawn(T[2], t)
    BY <1>3, <2>1, Zenon DEF DictDrawn, TakesBelow, Takes, KeysTaken
  <2> QED
    BY <2>1, <2>2, KeysFinite
<1>5. j[1] = "obj" /\ Lists(s, f)
  BY <1>3, <1>4, ObjectLists
<1>6. s \in Seq(Texts \X Jsons)
  BY <1>5, JsonParts, Zenon
<1>7. FillOne(F, sig, j) = FillArray(F, sig, j)
  BY FillOneCases, Zenon DEF IsDict
<1>8. FillArray(F, sig, j) = Enclose(r, Len(r.out), w)
  <2>1. j[1] \in {"arr", "obj"} /\ Items(j) = s
    <3>1. j[1] # "arr" /\ j[1] \in {"arr", "obj"}
      BY <1>5
    <3> QED
      BY <3>1, Zenon DEF Items
  <2>2. IsType(sig) /\ sig[2] = "{"
    BY <1>1, Zenon DEF DictOfType
  <2> HIDE DEF s
  <2> QED
    BY <2>1, <2>2, Zenon DEF FillArray
<1> HIDE DEF s, sig, kv
<1>9. ASSUME NEW i \in DOMAIN s PROVE rs[i].ok
  <2>1. s[i][1] \in DOMAIN f /\ s[i][2] = f[s[i][1]]
    BY <1>5, Zenon DEF Lists
  <2>2. s[i][1] \in Texts /\ s[i][2] \in Jsons
    <3>1. \A A, B : \A u \in Seq(A \X B) : \A k \in DOMAIN u : u[k][1] \in A /\ u[k][2] \in B
      OBVIOUS
    <3> QED
      BY <1>6, <3>1, Zenon
  <2> DEFINE t == s[i][1]
  <2>3. t \in DOMAIN f /\ t \in Texts /\ f[t] \in Jsons
    BY <2>1, <2>2, Zenon
  <2> HIDE DEF t
  <2>4. FillEntry(F, kv, t, f[t]).ok
    BY <1>2, <1>3, <2>3, TakeEntry
  <2>5. rs[i] = FillEntry(F, kv, t, f[t])
    BY <2>1, Zenon DEF t
  <2> QED
    BY <2>4, <2>5, Zenon
<1>10. DOMAIN s = 1..Len(s) /\ DOMAIN rs = DOMAIN s
  BY <1>6, SeqDomain, Zenon
<1> HIDE DEF rs
<1>11. r.ok
  BY <1>9, <1>10, AllTaken
<1> HIDE DEF r, w
<1>12. Enclose(r, Len(r.out), w) = Wrote(w)
  BY <1>11, EncloseWrites, Zenon
<1> QED
  BY <1>7, <1>8, <1>12, WroteResult, Zenon DEF FillsOne, sig

LEMMA TakeEvery ==
    ASSUME NEW F, NEW R, NEW V, NEW H, TakesBelow(F, R, V, H), NEW T \in Types, Convertible[T],
           NEW j \in Jsons, j \in RandOne(R, SigOf[T])
    PROVE  FillsOne(F, T, j)
<1>1. ConvertibleOver(T, Convertible)
  BY ConvertibleDefined
<1>2. Simple \ (Refused \cup {"h"}) \subseteq Ints \cup {"b", "d", "s"} \cup {"v"}
  BY DEF Simple, Basic, Refused, Ints
<1>3. \/ T[1] \in Ints \cup {"b", "d", "s"}
      \/ T[1] = "v"
      \/ T[1] = "("
      \/ T[1] = "a"
      \/ IsDict(T)
  <2>1. T[1] \in Simple \ (Refused \cup {"h"}) \/ T[1] = "(" \/ T[1] = "{" \/ T[1] = "a"
    BY <1>1, Zenon DEF ConvertibleOver
  <2> QED
    BY <1>2, <2>1, Zenon DEF IsDict
<1>4. CASE T[1] \in Ints \cup {"b", "d", "s"}
  BY <1>4, TakeSimple
<1>5. CASE T[1] = "v"
  BY <1>5, TakeVariant
<1>6. CASE T[1] = "("
  BY <1>6, TakeStruct
<1>7. CASE T[1] = "a"
  BY <1>7, TakeArray
<1>8. CASE IsDict(T)
  BY <1>8, TakeDict
<1> QED
  BY <1>3, <1>4, <1>5, <1>6, <1>7, <1>8

\* The members of a product.
LEMMA ProductMember ==
    ASSUME NEW Ss, NEW f \in Product(Ss)
    PROVE  DOMAIN f = DOMAIN Ss /\ \A i \in DOMAIN Ss : f[i] \in Ss[i]
  BY DEF Product

\* A message of several values is drawn part by part and filled part by part.
LEMMA PiecesTaken ==
    ASSUME NEW F, NEW R, NEW V, NEW H, TakesBelow(F, R, V, H), NEW Ts \in Seq(Types), Ts # <<>>,
           AllConvertible(Ts), NEW j \in Jsons, j \in Draws(RandAny(R), Flat(Ts))
    PROVE  FillPieces(F, Flat(Ts), j).ok
<1> DEFINE n == Len(Ts)
           sig == Flat(Ts)
           pieces == SigsOf(Ts)
           draws(i) == RandOne(R, pieces[i])
           r == FillPieces(F, sig, j)
<1>1. n \in Nat /\ n # 0 /\ DOMAIN Ts = 1..n
  <2>1. n \in Nat /\ n # 0
    OBVIOUS
  <2> QED
    BY <2>1, SeqDomain, Zenon
<1>2. \A i \in 1..n : Ts[i] \in Types /\ Convertible[Ts[i]]
  BY <1>1 DEF AllConvertible
<1>3. split[sig].ok /\ split[sig].result = pieces
  BY ConvertibleSplit
<1>4. sig \in Seq(Chars) /\ DOMAIN pieces = 1..n /\ Len(pieces) = n /\ \A i \in 1..n : pieces[i] = SigOf[Ts[i]]
  <2>1. /\ pieces \in Seq(Seq(Chars)) /\ Len(pieces) = n /\ \A i \in 1..n : pieces[i] = SigOf[Ts[i]]
        /\ sig \in Seq(Chars)
    BY SigsType
  <2>2. DOMAIN pieces = 1..n
    BY <2>1, SeqDomain, Zenon
  <2> QED
    BY <2>1, <2>2
<1>5. pieces # <<>>
  <2>1. Len(<<>>) = 0
    OBVIOUS
  <2> QED
    BY <1>1, <1>4, <2>1, Zenon
<1> HIDE DEF n, sig, pieces
<1>6. DrawnFrom(R, pieces, Draws(RandAny(R), sig))
  BY <1>1, <1>3, <1>4, <1>5, DrawsOver
<1>7. ASSUME NEW i \in 1..n, NEW k \in Jsons, k \in draws(i)
      PROVE  FillOne(F, pieces[i], k).ok
  <2>1. k \in RandOne(R, SigOf[Ts[i]])
    BY <1>4, <1>7, Zenon
  <2>2. FillsOne(F, Ts[i], k)
    BY <1>2, <2>1, TakeEvery
  <2> QED
    BY <1>4, <2>2, Zenon DEF FillsOne
<1>8. j \in Draws(RandAny(R), sig)
  BY DEF sig
<1> HIDE DEF draws, r
<1>9. CASE n = 1
  <2>1. 1 \in 1..n
    BY <1>9
  <2>2. j \in draws(1)
    BY <1>4, <1>6, <1>8, <1>9, Zenon DEF DrawnFrom, draws
  <2>3. PiecesTo(F, pieces, j, r)
    BY <1>1, <1>3, <1>4, <1>5, FillPiecesCases DEF r
  <2>4. r = FillOne(F, pieces[1], j)
    BY <1>4, <1>9, <2>3, Zenon DEF PiecesTo
  <2>5. r.ok
    BY <1>7, <2>1, <2>2, <2>4, Zenon
  <2> QED
    BY <2>5, Zenon DEF r, sig
<1>10. CASE n # 1
  <2> DEFINE Ss == [i \in DOMAIN pieces |-> draws(i)]
             rs == [i \in 1..n |-> FillOne(F, pieces[i], j[2][i])]
  <2>1. n > 1
    BY <1>1, <1>10
  <2>2. PICK f \in Product(Ss) : j = <<"arr", f>>
    BY <1>4, <1>6, <1>8, <2>1, Zenon DEF DrawnFrom, draws
  <2>3. j[1] = "arr" /\ j[2] = f
    BY <2>2, PairParts, Zenon
  <2>4. DOMAIN f = 1..n /\ \A i \in 1..n : f[i] \in draws(i)
    <3>1. DOMAIN f = DOMAIN Ss /\ \A i \in DOMAIN Ss : f[i] \in Ss[i]
      BY ProductMember
    <3> QED
      BY <1>4, <3>1, Zenon
  <2>5. f \in Seq(Jsons)
    BY <2>3, JsonParts, Zenon
  <2>6. Len(f) = n
    <3>1. \A S : \A u \in Seq(S) : \A m \in Nat : DOMAIN u = 1..m => Len(u) = m
      OBVIOUS
    <3> QED
      BY <1>1, <2>4, <2>5, <3>1, Zenon
  <2>7. \A i \in 1..n : f[i] \in Jsons
    <3>1. \A S : \A u \in Seq(S) : \A k \in DOMAIN u : u[k] \in S
      OBVIOUS
    <3> QED
      BY <2>4, <2>5, <3>1, Zenon
  <2>8. r = Together(rs)
    <3>1. Len(j[2]) = n
      BY <2>3, <2>6, Zenon
    <3>2. ManyFilled(F, sig, j, pieces, n)
      BY <1>1, <1>3, <1>4, <2>1, <2>3, <3>1, PiecesMany
    <3> QED
      BY <3>2, Zenon DEF ManyFilled, r
  <2>9. DOMAIN rs = 1..n /\ \A i \in 1..n : rs[i] = FillOne(F, pieces[i], f[i])
    BY <2>3, Zenon
  <2> HIDE DEF rs
  <2>10. \A i \in 1..n : rs[i].ok
    BY <1>7, <2>4, <2>7, <2>9, Zenon
  <2>11. Together(rs).ok
    BY <2>9, <2>10, AllTaken
  <2> QED
    BY <2>8, <2>11, Zenon DEF r, sig
<1> QED
  BY <1>9, <1>10

\* What is drawn for a number fits its width, and the text it has as a key is read back.
LEMMA KeysTakenOver ==
    ASSUME NEW F, NEW R
    PROVE  KeysTaken(FillAny(F), RandAny(R))
<1> SUFFICES ASSUME NEW T \in Types, T[1] \in Ints \cup {"s"}, NEW j \in Draws(RandAny(R), SigOf[T])
             PROVE  /\ KeyDrawn(T, KeyText(j))
                    /\ KeyText(j) \in Texts => At(FillAny(F), SigOf[T], <<"str", KeyText(j)>>).ok
  BY Zenon DEF KeysTaken
<1> DEFINE sig == SigOf[T]
           t == KeyText(j)
           k == <<"str", t>>
<1>1. Whole(T)
  BY Kinds, ZenonT(60) DEF Whole, Basic
<1>2. j \in RandOne(R, sig)
  <2> DEFINE Ts == <<T>>
             pieces == SigsOf(Ts)
  <2>1. Ts \in Seq(Types) /\ Flat(Ts) = sig /\ Len(Ts) = 1 /\ Ts[1] = T
    BY FlatAlone
  <2> HIDE DEF Ts
  <2>2. AllWhole(Ts, Len(Ts))
    <3>1. \A i \in 1..Len(Ts) : i = 1
      BY <2>1
    <3> QED
      BY <1>1, <2>1, <3>1, Zenon DEF AllWhole
  <2>3. split[sig] = [ok |-> TRUE, result |-> pieces]
    BY <2>1, <2>2, PiecesWhole
  <2>4. split[sig].ok /\ split[sig].result = pieces
    <3>1. \A u, x : u = [ok |-> TRUE, result |-> x] => u.ok /\ u.result = x
      OBVIOUS
    <3> HIDE DEF pieces, sig
    <3> QED
      BY <2>3, <3>1, Zenon
  <2>5. Len(pieces) = 1 /\ pieces[1] = sig /\ pieces # <<>>
    <3>1. Len(SigsOf(Ts)) = Len(Ts) /\ \A i \in 1..Len(Ts) : SigsOf(Ts)[i] = SigOf[Ts[i]]
      BY <2>1, SigsType
    <3>2. 1 \in 1..1 /\ Len(<<>>) # 1
      OBVIOUS
    <3> QED
      BY <2>1, <3>1, <3>2, Zenon
  <2>6. sig \in Seq(Chars)
    BY SigType
  <2> HIDE DEF pieces, sig
  <2>7. DrawnFrom(R, pieces, Draws(RandAny(R), sig))
    BY <2>4, <2>5, <2>6, DrawsOver
  <2> QED
    BY <2>5, <2>7, Zenon DEF DrawnFrom, sig
<1>3. RandCases(R, T, sig, RandOne(R, sig))
  BY RandOneCases
<1>4. k[1] = "str" /\ k[2] = t
  BY PairParts, Zenon
<1> HIDE DEF k, t
<1>5. CASE T[1] \in Ints
  <2>1. PICK n \in {-1, 0, 1} : j = <<"num", n>> /\ (IF T[1] \in Unsigned THEN n \in {0, 1} ELSE n \in {-1, 1})
    <3>1. CASE T[1] \in Unsigned
      <4>1. j \in {<<"num", m>> : m \in {0, 1}}
        BY <1>2, <1>3, <3>1, Zenon DEF RandCases
      <4>2. PICK m \in {0, 1} : j = <<"num", m>>
        BY <4>1, Zenon
      <4> QED
        BY <3>1, <4>2
    <3>2. CASE T[1] \notin Unsigned
      <4>1. T[1] \in Signed \cup {"d"}
        BY <1>5, <3>2 DEF Ints
      <4>2. j \in {<<"num", m>> : m \in {-1, 1}}
        BY <1>2, <1>3, <4>1, Zenon DEF RandCases
      <4>3. PICK m \in {-1, 1} : j = <<"num", m>>
        BY <4>2, Zenon
      <4> QED
        BY <3>2, <4>3
    <3> QED
      BY <3>1, <3>2
  <2>2. n \in Int
    BY <2>1
  <2>3. n \in Low(T[1])..High(T[1]) /\ n \in LongLong
    BY <1>5, <2>1, <2>2, SmallNumbers
  <2>4. static_cast("x", n) = n
    <3>1. "x" \in Ints
      BY DEF Ints, Signed
    <3>2. n \in Low("x")..High("x")
      BY <2>3 DEF LongLong
    <3> QED
      BY <2>2, <3>1, <3>2, CastInRange
  <2>5. t = <<"int", n>>
    <3>1. j[1] = "num" /\ j[2] = n
      BY <2>1, PairParts, Zenon
    <3>2. t = <<"int", static_cast("x", j[2])>>
      BY <3>1 DEF KeyText, t
    <3> QED
      BY <2>4, <3>1, <3>2, Zenon
  <2>6. KeyDrawn(T, t)
    <3>1. "s" \notin Ints
      BY DEF Ints, Signed, Unsigned
    <3> QED
      BY <1>5, <2>1, <2>3, <2>5, <3>1, Zenon DEF KeyDrawn
  <2>7. t \in Texts
    BY <2>2, <2>5 DEF Texts
  <2>8. At(FillAny(F), sig, k) = FillOne(F, sig, k)
    <3>1. k \in Jsons
      BY <2>7, KeyJson DEF k
    <3> QED
      BY <1>1, <3>1, AtAlone
  <2>9. FillOne(F, sig, k) = AppendIntegerFromJson(T[1], k)
    BY <1>5, FillOneCases, Zenon
  <2>10. k[2][1] = "int" /\ k[2][2] = n
    <3>1. <<"int", n>>[1] = "int" /\ <<"int", n>>[2] = n
      BY PairParts, Zenon
    <3>2. k[2][1] = <<"int", n>>[1] /\ k[2][2] = <<"int", n>>[2]
      BY <1>4, <2>5, Zenon
    <3> QED
      BY <3>1, <3>2, Zenon
  <2>11. AppendIntegerFromJson(T[1], k) = WroteInteger(T[1], n)
    <3>1. "int" \in Numeric /\ "str" # "num"
      BY DEF Numeric
    <3>2. InLimits(T[1], n)
      BY <2>3, Zenon DEF InLimits
    <3> QED
      BY <1>4, <2>3, <2>10, <3>1, <3>2, Zenon DEF AppendIntegerFromJson
  <2> QED
    BY <2>6, <2>8, <2>9, <2>11, WroteResult, Zenon DEF WroteInteger, k, t
<1>6. CASE T[1] = "s"
  <2>1. j = <<"str", Key("hello")>>
    <3>1. j \in {<<"str", Key("hello")>>}
      BY <1>2, <1>3, <1>6, Zenon DEF RandCases
    <3> QED
      BY <3>1
  <2>2. t = Key("hello")
    <3>1. j[1] = "str" /\ j[2] = Key("hello")
      BY <2>1, PairParts, Zenon
    <3>2. t = j[2]
      BY <3>1 DEF KeyText, t
    <3> QED
      BY <3>1, <3>2, Zenon
  <2>3. KeyDrawn(T, t)
    <3>1. "s" \notin Ints
      BY DEF Ints, Signed, Unsigned
    <3> QED
      BY <1>6, <2>2, <3>1, Zenon DEF KeyDrawn
  <2>4. ASSUME t \in Texts PROVE At(FillAny(F), sig, k) = FillOne(F, sig, k)
    <3>1. k \in Jsons
      BY <2>4, KeyJson DEF k
    <3> QED
      BY <1>1, <3>1, AtAlone
  <2>5. FillOne(F, sig, k) = IF k[1] = "str" THEN Wrote(<<sig, k[2]>>) ELSE Failed
    BY <1>6, FillOneCases, Zenon
  <2> QED
    BY <1>4, <2>3, <2>4, <2>5, WroteResult, Zenon DEF k, t
<1>7. T[1] \in Ints \/ T[1] = "s"
  OBVIOUS
<1> QED
  BY <1>5, <1>6, <1>7, Zenon

\* What one level draws, one level of the conversion takes.
LEMMA LevelTakes ==
    ASSUME NEW F, NEW R, NEW V, NEW H, TakesBelow(F, R, V, H)
    PROVE  Takes(FillAny(F), RandAny(R))
<1>1. ASSUME NEW Ts \in Seq(Types), Ts # <<>>, AllConvertible(Ts),
             NEW j \in Jsons, j \in Draws(RandAny(R), Flat(Ts))
      PROVE  At(FillAny(F), Flat(Ts), j).ok
  <2>1. FillPieces(F, Flat(Ts), j).ok
    BY <1>1, PiecesTaken
  <2>2. Flat(Ts) \in Seq(Chars)
    BY <1>1, SigsType
  <2>3. At(FillAny(F), Flat(Ts), j) = FillPieces(F, Flat(Ts), j)
    BY <2>2, AtOver
  <2> QED
    BY <2>1, <2>3, Zenon
<1> QED
  BY <1>1, KeysTakenOver, Zenon DEF Takes

LEMMA BottomTakes == TakesBelow(FillBottom, RandBottom, {}, TypedBottom)
<1>1. ASSUME NEW sig \in Seq(Chars) PROVE Draws(RandBottom, sig) = {}
  BY DEF Draws, RandBottom
<1>2. KeysTaken(FillBottom, RandBottom)
  <2>1. ASSUME NEW T \in Types PROVE Draws(RandBottom, SigOf[T]) = {}
    BY <1>1, SigType
  <2>2. \A x : x \notin {}
    OBVIOUS
  <2> QED
    BY <2>1, <2>2, Zenon DEF KeysTaken
<1>3. ASSUME NEW Ts \in Seq(Types) PROVE Draws(RandBottom, Flat(Ts)) = {}
  BY <1>1, SigsType
<1>4. Takes(FillBottom, RandBottom)
  <2>1. \A x : x \notin {}
    OBVIOUS
  <2> QED
    BY <1>2, <1>3, <2>1, Zenon DEF Takes
<1> QED
  BY <1>4, BottomTyped, Zenon DEF TakesBelow

\* Whatever is drawn for types that can be handled, the conversion takes.
LEMMA TakesMessage == Takes(FillMessage[Nesting], RandJson[Nesting])
<1> DEFINE Good(n) == Takes(FillMessage[n], RandJson[n])
           S == {n \in 0..Nesting : Good(n)}
<1>1. Nesting \in Nat
  BY DataAssumption
<1>2. 0 \in S
  <2>1. ASSUME NEW n \in Nat, n = 0 PROVE Good(n)
    <3>1. FillMessage[n] = FillAny(FillBottom) /\ RandJson[n] = RandAny(RandBottom)
      BY <2>1, FillMessageLevels, RandJsonLevels, Zenon DEF FillBottom, RandBottom
    <3>2. Takes(FillAny(FillBottom), RandAny(RandBottom))
      BY BottomTakes, LevelTakes
    <3> QED
      BY <3>1, <3>2, Zenon
  <2>2. Good(0)
    BY <2>1
  <2> HIDE DEF Good
  <2> QED
    BY <1>1, <2>2
<1>3. ASSUME NEW n \in 1..Nesting, n - 1 \in S PROVE n \in S
  <2>1. n \in Nat /\ n # 0 /\ n \in 0..Nesting /\ n - 1 \in 0..Nesting
    BY <1>1
  <2>2. FillMessage[n] = FillAny(FillMessage[n - 1]) /\ RandJson[n] = RandAny(RandJson[n - 1])
    BY <2>1, FillMessageLevels, RandJsonLevels, Zenon
  <2>3. Good(n - 1)
    BY <1>3
  <2>4. FillsTyped(FillMessage[n - 1], ValuesWithin[n - 1], HasType[n - 1])
    BY <2>1, FillLevelsTyped
  <2>5. TakesBelow(FillMessage[n - 1], RandJson[n - 1], ValuesWithin[n - 1], HasType[n - 1])
    BY <2>3, <2>4, Zenon DEF TakesBelow
  <2>6. Takes(FillAny(FillMessage[n - 1]), RandAny(RandJson[n - 1]))
    BY <2>5, LevelTakes
  <2>7. Good(n)
    BY <2>2, <2>6, Zenon
  <2> HIDE DEF Good
  <2> QED
    BY <2>1, <2>7
<1> HIDE DEF S
<1>4. 0..Nesting \subseteq S
  BY <1>1, <1>2, <1>3, InductionUpTo
<1>5. Nesting \in S
  BY <1>1, <1>4
<1>6. Good(Nesting)
  <2> HIDE DEF Good
  <2> QED
    BY <1>5 DEF S
<1> QED
  BY <1>6

LEMMA SampleFilled ==
    ASSUME InCalls, call.source = "sample", ConvertibleAll(call.in)
    PROVE  FillMethod.ok
<1> DEFINE n == Len(call.in)
           rs == [i \in DOMAIN call.in |->
                    IF i \in DOMAIN call.request
                    THEN FillMessage[Nesting][SigOf[call.in[i]], call.request[i]]
                    ELSE Failed]
           r == Together(rs)
<1>1. FillMethod = r
  BY Zenon DEF FillMethod
<1>2. /\ call.in \in Seq(Types) /\ call.request \in Seq(Jsons) /\ Len(call.request) = n
      /\ \A i \in DOMAIN call.in : call.request[i] \in Draws(RandJson[Nesting], SigOf[call.in[i]])
  BY InputsAssumption, Zenon DEF InCalls, CallsAssumption, Draws
<1>3. n \in Nat /\ DOMAIN call.in = 1..n /\ DOMAIN call.request = 1..n
  BY <1>2, SeqDomain, Zenon
<1>4. \A i \in 1..n : /\ call.in[i] \in Types /\ Convertible[call.in[i]] /\ call.request[i] \in Jsons
                      /\ call.request[i] \in Draws(RandJson[Nesting], SigOf[call.in[i]])
  <2>1. \A S : \A s \in Seq(S) : \A i \in DOMAIN s : s[i] \in S
    OBVIOUS
  <2> QED
    BY <1>2, <1>3, <2>1, Zenon DEF ConvertibleAll
<1>5. DOMAIN rs = 1..n /\ \A i \in 1..n : rs[i] = At(FillMessage[Nesting], SigOf[call.in[i]], call.request[i])
  BY <1>3, Zenon DEF At
<1> HIDE DEF rs, n, r
<1>6. ASSUME NEW i \in 1..n PROVE rs[i].ok
  <2>1. TakenOne(Values, At(FillMessage[Nesting], SigOf[call.in[i]], call.request[i]))
    BY <1>4, FillMessageTyped, TakesMessage, TakesAlone
  <2> QED
    BY <1>5, <2>1, Zenon DEF TakenOne
<1>7. Together(rs).ok
  BY <1>5, <1>6, AllTaken
<1> QED
  BY <1>1, <1>7, Zenon DEF r

\* A request that GET /dbus/try proposes for a method is one that POST /dbus/call
\* accepts: Json2Message takes whatever Rand2Json draws for types it can handle.
THEOREM SamplesAcceptedAlways == PayloadSpec => []SamplesAccepted
<1>1. InCalls /\ EchoInv => SamplesAccepted
  BY SampleFilled, Zenon DEF EchoInv, SamplesAccepted
<1> QED
  BY <1>1, InCallsAlways, EchoInvAlways, PTL
-----------------------------------------------------------------------------
(* Every bracket that opens is closed: split() ends *)

\* A count that starts at 1 and ends without an open bracket was 0 before: it
\* falls by one at a time.
LEMMA CountFalls ==
    ASSUME NEW u, NEW p \in Nat, NEW n \in Nat, p <= n, NEW open, NEW close,
           Count(u, p, n, open, close) <= 0
    PROVE  \E k \in p + 1..n : Count(u, p, k, open, close) = 0
<1> DEFINE C(j) == Count(u, p, p + j, open, close)
           m == n - p
           T == {j \in 0..m : C(j) >= 1}
<1> SUFFICES ASSUME \A k \in p + 1..n : Count(u, p, k, open, close) # 0 PROVE FALSE
  OBVIOUS
<1>1. m \in Nat /\ p + m = n /\ p + 0 = p
  OBVIOUS
<1>2. \A j \in Nat : C(j) \in Int
  <2> TAKE j \in Nat
  <2>1. p + j \in Nat
    OBVIOUS
  <2> QED
    BY <2>1, CountType
<1>3. 0 \in T
  <2>1. C(0) = 1
    BY <1>1, CountFirst
  <2> QED
    BY <1>1, <2>1
<1>4. ASSUME NEW j \in 1..m, j - 1 \in T PROVE j \in T
  <2>1. p + j \in Nat /\ p < p + j /\ (p + j) - 1 = p + (j - 1) /\ p + j \in p + 1..n /\ j - 1 \in Nat /\ j \in Nat
    OBVIOUS
  <2>2. Count(u, p, p + j, open, close) = Count(u, p, (p + j) - 1, open, close)
          + (IF u[p + j] = open THEN 1 ELSE 0) - (IF u[p + j] = close THEN 1 ELSE 0)
    BY <2>1, CountLast
  <2>3. C(j) = C(j - 1) + (IF u[p + j] = open THEN 1 ELSE 0) - (IF u[p + j] = close THEN 1 ELSE 0)
    BY <2>1, <2>2, Zenon
  <2>4. C(j) # 0
    BY <2>1
  <2>5. C(j - 1) >= 1 /\ C(j) \in Int /\ C(j - 1) \in Int
    BY <1>2, <1>4, <2>1
  <2> HIDE DEF C
  <2>6. C(j) >= 1
    BY <2>3, <2>4, <2>5
  <2> QED
    BY <2>6
<1> HIDE DEF T
<1>5. 0..m \subseteq T
  BY <1>1, <1>3, <1>4, InductionUpTo
<1>6. m \in T
  BY <1>1, <1>5
<1>7. C(m) >= 1
  BY <1>6 DEF T
<1>8. C(m) = Count(u, p, n, open, close)
  BY <1>1, Zenon
<1> HIDE DEF C
<1> QED
  BY <1>2, <1>1, <1>7, <1>8

\* What s has behind its first d characters.
Behind(s, d) == SubSeq(s, d + 1, Len(s))

LEMMA BehindIs ==
    ASSUME NEW s \in Seq(Chars), NEW d \in 0..Len(s)
    PROVE  /\ Behind(s, d) \in Seq(Chars)
           /\ Len(Behind(s, d)) = Len(s) - d
           /\ \A k \in 1..Len(s) - d : Behind(s, d)[k] = s[d + k]
  BY DEF Behind

CountsOn(s, i, m, open, close) ==
    Count(s, 0, i + m, open, close) = Count(s, 0, i, open, close) + Count(s, i, i + m, open, close) - 1

LEMMA CountOn ==
    ASSUME NEW s, NEW i \in Nat, NEW m \in Nat, NEW open, NEW close
    PROVE  CountsOn(s, i, m, open, close)
  BY CountSum DEF CountsOn

\* A bracket behind the first d characters is closed behind it.
LEMMA ClosedBehind ==
    ASSUME NEW open, NEW close, open # close,
           NEW s \in Seq(Chars), Balanced(s, open, close), NEW d \in 0..Len(s),
           NEW u, u = Behind(s, d), NEW p \in 1..Len(u), u[p] = open
    PROVE  find_match_bracket(u, p, open, close) # 0
<1> DEFINE i == d + p
           n == Len(s)
           m == n - i
<1>1. u \in Seq(Chars) /\ Len(u) = n - d /\ (\A k \in 1..n - d : u[k] = s[d + k]) /\ n \in Nat
  <2>1. /\ Behind(s, d) \in Seq(Chars)
        /\ Len(Behind(s, d)) = Len(s) - d
        /\ \A k \in 1..Len(s) - d : Behind(s, d)[k] = s[d + k]
    BY BehindIs
  <2> QED
    BY <2>1
<1>2. i \in 1..n /\ i - 1 \in 0..n /\ i \in Nat /\ m \in Nat /\ i + m = n /\ p + m = Len(u) /\ p \in Nat /\ 0 < i /\ 0 \in Nat
  BY <1>1
<1>3. s[i] = open
  BY <1>1
<1>4. Count(s, 0, i - 1, open, close) >= 1 /\ Count(s, 0, n, open, close) = 1
  BY <1>2 DEF Balanced, Even
<1> HIDE DEF i, n, m
<1>5. Count(s, 0, i, open, close) = Count(s, 0, i - 1, open, close) + 1
  <2>1. Count(s, 0, i, open, close) = Count(s, 0, i - 1, open, close)
           + (IF s[i] = open THEN 1 ELSE 0) - (IF s[i] = close THEN 1 ELSE 0)
    BY <1>2, CountLast
  <2>2. Count(s, 0, i - 1, open, close) \in Int
    <3>1. i - 1 \in Nat
      BY <1>2
    <3> QED
      BY <1>2, <3>1, CountType
  <2> QED
    BY <1>3, <2>1, <2>2
<1>6. Count(s, 0, i + m, open, close) = Count(s, 0, i, open, close) + Count(s, i, i + m, open, close) - 1
  <2>1. i \in Nat /\ m \in Nat
    BY <1>2
  <2>2. CountsOn(s, i, m, open, close)
    BY <2>1, CountOn
  <2> QED
    BY <2>2, Zenon DEF CountsOn
<1>7. Count(u, p, p + m, open, close) = Count(s, i, i + m, open, close)
  <2>1. Alike(u, p, s, i, m)
    <3> SUFFICES ASSUME NEW k \in 1..m PROVE u[p + k] = s[i + k]
      BY DEF Alike
    <3>1. p + k \in 1..n - d /\ d + (p + k) = i + k
      BY <1>1, <1>2 DEF i, m, n
    <3> QED
      BY <1>1, <3>1
  <2>2. CountsAlike(u, p, s, i, m, open, close)
    <3>1. m \in 0..m
      BY <1>2
    <3> QED
      BY <1>2, <2>1, <3>1, CountAlike
  <2> QED
    BY <2>2 DEF CountsAlike
<1>8. Count(u, p, Len(u), open, close) <= 0
  <2>1. Count(s, i, i + m, open, close) \in Int /\ Count(s, 0, i - 1, open, close) \in Int
    <3>1. i - 1 \in Nat /\ i + m \in Nat
      BY <1>2
    <3> QED
      BY <1>2, <3>1, CountType
  <2>2. Count(u, p, p + m, open, close) <= 0
    BY <1>2, <1>4, <1>5, <1>6, <1>7, <2>1
  <2> QED
    BY <1>2, <2>2
<1>9. PICK k \in p + 1..Len(u) : Count(u, p, k, open, close) = 0
  <2>1. p <= Len(u) /\ Len(u) \in Nat
    BY <1>1, <1>2
  <2> QED
    BY <1>2, <1>8, <2>1, CountFalls
<1>10. k \in ClosedAt(u, p, open, close)
  BY <1>9 DEF ClosedAt
<1>11. find_match_bracket(u, p, open, close) \in ClosedAt(u, p, open, close)
  BY <1>1, <1>2, <1>10, FindType
<1> QED
  BY <1>2, <1>11 DEF ClosedAt

\* Wherever a turn of split() begins in a signature with balanced brackets, it
\* finds something to take.
LEMMA TurnAdvances ==
    ASSUME NEW s \in Seq(Chars), BothBalanced(s), NEW d \in 0..Len(s),
           NEW u, u = Behind(s, d), u # <<>>
    PROVE  ~Stuck(u)
<1>1. u \in Seq(Chars) /\ Len(u) \in Nat /\ Len(u) >= 1 /\ Head(u) = u[1]
  <2>1. u \in Seq(Chars)
    BY BehindIs
  <2> QED
    BY <2>1
<1>2. Balanced(s, "(", ")") /\ Balanced(s, "{", "}") /\ "(" # ")" /\ "{" # "}"
  BY Different, Zenon DEF BothBalanced
<1>3. ASSUME NEW p \in 1..Len(u)
      PROVE  /\ u[p] = "(" => find_match_bracket(u, p, "(", ")") # 0
             /\ u[p] = "{" => find_match_bracket(u, p, "{", "}") # 0
  BY <1>2, ClosedBehind, Zenon
<1>4. 1 \in 1..Len(u) /\ (Len(u) > 1 => 2 \in 1..Len(u))
  BY <1>1
<1>5. 1 # 0 /\ 2 # 0
  OBVIOUS
<1>6. PieceLength(u) # 0
  BY <1>1, <1>3, <1>4, <1>5, Zenon DEF PieceLength
<1> QED
  BY <1>6, Zenon DEF Stuck

\* r[0], r[1], ... is what is left of s after each turn of split().
Turns(s, n, r) ==
    /\ r[0] = s
    /\ \A i \in 1..n : r[i - 1] # <<>> /\ ~Throws(r[i - 1]) /\ r[i] = Rest(r[i - 1])

\* split() never begins a turn that takes nothing, in which it would loop for
\* ever: after any number of turns at a signature whose brackets are balanced,
\* what is left is less by one character or more for each turn, and the next turn
\* throws or takes something.
THEOREM SplitEnds ==
    ASSUME NEW s \in Seq(Chars), BothBalanced(s), NEW n \in Nat, NEW r, Turns(s, n, r)
    PROVE  /\ Len(r[n]) <= Len(s) - n
           /\ r[n] # <<>> => ~Stuck(r[n])
<1> DEFINE T == {i \in 0..n : \E d \in i..Len(s) : r[i] = Behind(s, d)}
<1>1. 0 \in T
  <2>1. Behind(s, 0) = s /\ 0 \in 0..Len(s)
    BY DEF Behind
  <2>2. r[0] = Behind(s, 0)
    BY <2>1 DEF Turns
  <2> QED
    BY <2>1, <2>2
<1>2. ASSUME NEW i \in 1..n, i - 1 \in T PROVE i \in T
  <2>1. PICK d \in i - 1..Len(s) : r[i - 1] = Behind(s, d)
    BY <1>2
  <2>2. r[i - 1] # <<>> /\ ~Throws(r[i - 1]) /\ r[i] = Rest(r[i - 1])
    BY DEF Turns
  <2> DEFINE u == r[i - 1]
             l == PieceLength(u)
  <2>3. d \in 0..Len(s) /\ Len(s) \in Nat /\ i \in Nat /\ i >= 1
    OBVIOUS
  <2>4. u \in Seq(Chars) /\ Len(u) = Len(s) - d
    BY <2>1, <2>3, BehindIs
  <2>5. ~Stuck(u)
    BY <2>1, <2>2, <2>3, TurnAdvances
  <2>6. l \in 1..Len(u)
    BY <2>2, <2>4, <2>5, PieceTaken
  <2>7. r[i] = SubSeq(u, l + 1, Len(s) - d)
    BY <2>2, <2>4, Zenon DEF Rest
  <2> HIDE DEF l
  <2>8. SubSeq(SubSeq(s, d + 1, Len(s)), l + 1, Len(s) - d) = SubSeq(s, d + (l + 1), d + (Len(s) - d))
    <3>1. l + 1 \in Nat \ {0} /\ Len(s) - d \in Nat /\ Len(s) - d <= Len(s) - d
      BY <2>3, <2>4, <2>6
    <3> QED
      BY <2>3, <3>1, PartOfRest
  <2>9. d + (l + 1) = (d + l) + 1 /\ d + (Len(s) - d) = Len(s) /\ d + l \in i..Len(s)
    BY <2>3, <2>4, <2>6
  <2>10. u = SubSeq(s, d + 1, Len(s))
    BY <2>1 DEF Behind
  <2> HIDE DEF u
  <2>11. r[i] = SubSeq(s, (d + l) + 1, Len(s))
    BY <2>7, <2>8, <2>9, <2>10, Zenon
  <2>12. r[i] = Behind(s, d + l)
    BY <2>11 DEF Behind
  <2> QED
    BY <2>9, <2>12
<1> HIDE DEF T
<1>3. 0..n \subseteq T
  BY <1>1, <1>2, InductionUpTo
<1>4. n \in T
  BY <1>3
<1>5. PICK d \in n..Len(s) : r[n] = Behind(s, d)
  BY <1>4 DEF T
<1>6. d \in 0..Len(s) /\ Len(s) \in Nat
  OBVIOUS
<1>7. Len(r[n]) = Len(s) - d
  BY <1>5, <1>6, BehindIs
<1>8. r[n] # <<>> => ~Stuck(r[n])
  BY <1>5, <1>6, TurnAdvances
<1> QED
  BY <1>6, <1>7, <1>8

\* The signature of a value or of an argument list is one of these.
LEMMA FlatBalanced ==
    ASSUME NEW Ts \in Seq(Types)
    PROVE  Flat(Ts) \in Seq(Chars) /\ BothBalanced(Flat(Ts))
<1>1. SigsOf(Ts) \in Seq({s \in Seq(Chars) : BothBalanced(s)})
  <2>1. /\ SigsOf(Ts) \in Seq(Seq(Chars)) /\ Len(SigsOf(Ts)) = Len(Ts)
        /\ \A i \in 1..Len(Ts) : SigsOf(Ts)[i] = SigOf[Ts[i]]
    BY SigsType
  <2>2. \A i \in 1..Len(Ts) : Ts[i] \in Types
    OBVIOUS
  <2>3. \A i \in 1..Len(SigsOf(Ts)) : SigsOf(Ts)[i] \in {s \in Seq(Chars) : BothBalanced(s)}
    BY <2>1, <2>2, SigBalanced, SMTT(30)
  <2> QED
    BY <2>1, <2>3, SeqOver
<1> QED
  BY <1>1, SigsType, BothFlatten DEF Flat
=================================================================================
