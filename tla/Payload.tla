------------------------------- MODULE Payload -------------------------------
(***************************************************************************)
(* The payload of one HTTP call: Json2Message fills the D-Bus message from *)
(* the JSON request, the service answers, Message2Json turns the reply     *)
(* into the JSON body; Rand2Json proposes a request.                       *)
(*                                                                         *)
(* A conversion calls itself for what is inside a container: F[n] is the   *)
(* conversion when n more containers may be opened, made of F[n - 1], the  *)
(* conversion one container deeper.                                        *)
(***************************************************************************)
EXTENDS DbusValues

CONSTANTS
    MaxFdSize,  \* config_.max_file_descriptor_size
    Calls,      \* [in, out: sequences of types; request: JSON by position; source; meant]
    Produces    \* values a service may return, by the types it returns

VARIABLES
    call,            \* the call under way, one of Calls
    binary_support,  \* config_.binary_support
    stage,           \* how far the call has come
    message,         \* the values in the method call
    reply,           \* the values in the reply
    body             \* the JSON of the response, its arguments by position

-----------------------------------------------------------------------------
\* Json2Message.  A result tells whether all went well and what was appended.

\* One conversion after the other, until one throws.
Together(rs) ==
    IF \A i \in DOMAIN rs : rs[i].ok
    THEN [ok |-> TRUE, out |-> FlattenSeq([i \in DOMAIN rs |-> rs[i].out])]
    ELSE Failed

Nothing == [ok |-> TRUE, out |-> <<>>]

\* Closing a container that expects n values; sd-bus refuses an incomplete one.
Enclose(r, n, value) == IF r.ok /\ Len(r.out) = n THEN Wrote(value) ELSE Failed

\* json.items(): an array has its indices for keys.
Items(j) ==
    IF j[1] = "arr" THEN [i \in DOMAIN j[2] |-> <<<<"int", i - 1>>, j[2][i]>>] ELSE j[2]

contains(j, key) == j[1] = "obj" /\ \E i \in DOMAIN j[2] : j[2][i][1] = key
Member(j, key) == j[2][CHOOSE i \in DOMAIN j[2] : j[2][i][1] = key][2]

FillVariant(deeper, j) ==
    LET sig == Member(j, Key("variant"))
        r == deeper[sig[2][2], Member(j, Key("value"))]
    IN  IF /\ contains(j, Key("variant")) /\ contains(j, Key("value"))
           /\ sig[1] = "str" /\ sig[2][1] = "sig" /\ IsType(sig[2][2])
        THEN Enclose(r, 1, <<<<"v">>, r.out[1]>>)
        ELSE Failed

FillEntry(deeper, sig, key, value) ==
    LET r == Together(<<deeper[<<Head(sig)>>, <<"str", key>>], deeper[Tail(sig), value]>>)
    IN  Enclose(r, 2, r.out)

FillArray(deeper, sig, j) ==
    IF j[1] \notin {"arr", "obj"} \/ ~IsType(sig) THEN Failed
    ELSE LET items == Items(j)
             r == IF sig[2] = "{"
                  THEN Together([i \in DOMAIN items |->
                                   FillEntry(deeper, Inner(Tail(sig)), items[i][1], items[i][2])])
                  ELSE Together([i \in DOMAIN items |-> deeper[Tail(sig), items[i][2]]])
         IN  Enclose(r, Len(r.out), <<sig, r.out>>)

FillStruct(deeper, sig, j) ==
    LET r == deeper[Inner(sig), j]
    IN  Enclose(r, Len(split[Inner(sig)].result), <<sig, r.out>>)

\* One complete type.  "h" falls through the switch and appends nothing.
FillOne(deeper, sig, j) ==
    CASE Head(sig) \in Ints -> AppendIntegerFromJson(Head(sig), j)
      [] Head(sig) = "b" -> IF j[1] = "bool" THEN Wrote(<<sig, j[2]>>) ELSE Failed
      [] Head(sig) = "d" -> IF j[1] \in {"num", "real"} THEN Wrote(<<sig, j[2]>>) ELSE Failed
      [] Head(sig) = "s" -> IF j[1] = "str" THEN Wrote(<<sig, j[2]>>) ELSE Failed
      [] Head(sig) = "h" -> Nothing
      [] Head(sig) = "v" -> FillVariant(deeper, j)
      [] Head(sig) = "a" -> FillArray(deeper, sig, j)
      [] Head(sig) = "(" -> FillStruct(deeper, sig, j)

\* FillMessage(message, sig, json); a struct of one member is the bare member.  A
\* piece of sig is its own only piece, so the call for it comes to FillOne.
FillPieces(deeper, sig, j) ==
    LET pieces == split[sig].result
    IN  IF ~split[sig].ok THEN Failed
        ELSE CASE pieces = <<>> -> Nothing
               [] Len(pieces) = 1 -> FillOne(deeper, pieces[1], j)
               [] Len(pieces) > 1 ->
                    IF j[1] = "arr" /\ Len(j[2]) = Len(pieces)
                    THEN Together([i \in DOMAIN pieces |-> FillOne(deeper, pieces[i], j[2][i])])
                    ELSE Failed

FillAny(deeper) == [arg \in Seq(Chars) \X Jsons |-> FillPieces(deeper, arg[1], arg[2])]

FillMessage[n \in Nat] ==
    FillAny(IF n = 0 THEN [arg \in Seq(Chars) \X Jsons |-> Failed] ELSE FillMessage[n - 1])

-----------------------------------------------------------------------------
\* Message2Json.

Unread == [ok |-> FALSE, json |-> Null]
Read(j) == [ok |-> TRUE, json |-> j]

\* The loop over an array ends with one more read behind the last element: a
\* variant or a file descriptor cannot be read there.
EndsCleanly(sig) == split[sig].ok /\ Head(sig) \notin {"v", "h"}

ExtractArray(deeper, binary, sig, vals) ==
    LET rs == [i \in DOMAIN vals |-> deeper[binary, Tail(sig), <<vals[i]>>]]
    IN  IF (\A i \in DOMAIN vals : rs[i].ok) /\ EndsCleanly(Tail(sig))
        THEN Read(<<"arr", [i \in DOMAIN vals |-> rs[i].json]>>)
        ELSE Unread

\* A key becomes a text; integers go through long long.
KeyText(j) ==
    CASE j[1] = "bool" -> <<"int", IF j[2] THEN 1 ELSE 0>>
      [] j[1] = "num" -> <<"int", static_cast("x", j[2])>>
      [] j[1] = "real" -> <<"dec", j[2]>>
      [] j[1] = "str" -> j[2]

\* Mutant of ExtractDict: the last entry is left out.
ExtractDictButLast(deeper, binary, sig, vals) ==
    LET D == 1..Len(vals) - 1
        keys == [i \in D |-> deeper[binary, <<sig[3]>>, <<vals[i][1]>>]]
        values == [i \in D |-> deeper[binary, Tail(Inner(Tail(sig))), <<vals[i][2]>>]]
        last(k) == CHOOSE i \in D : KeyText(keys[i].json) = k
    IN  IF vals = <<>> THEN Read(Null)
        ELSE IF \A i \in D : keys[i].ok /\ values[i].ok
        THEN Read(Object([k \in {KeyText(keys[i].json) : i \in D} |-> values[last(k)].json]))
        ELSE Unread

\* result starts as null and becomes an object with the first entry.
ExtractDict(deeper, binary, sig, vals) ==
    LET keys == [i \in DOMAIN vals |-> deeper[binary, <<sig[3]>>, <<vals[i][1]>>]]
        values == [i \in DOMAIN vals |-> deeper[binary, Tail(Inner(Tail(sig))), <<vals[i][2]>>]]
        last(k) == CHOOSE i \in DOMAIN vals : /\ KeyText(keys[i].json) = k
                                              /\ \A j \in DOMAIN vals : j > i => KeyText(keys[j].json) # k
    IN  IF vals = <<>> THEN Read(Null)
        ELSE IF \A i \in DOMAIN vals : keys[i].ok /\ values[i].ok
        THEN Read(Object([k \in {KeyText(keys[i].json) : i \in DOMAIN vals} |-> values[last(k)].json]))
        ELSE Unread

ExtractVariant(deeper, binary, v) ==
    LET r == deeper[binary, v[1], <<v>>]
    IN  IF r.ok THEN Read(VariantJson(v[1], r.json)) ELSE Unread

\* One complete type; sd-bus reads no value as one of another type.  A file
\* descriptor is read to its end, if that is near.
ExtractOne(deeper, binary, sig, v) ==
    IF v[1] # sig THEN Unread
    ELSE CASE Head(sig) \in Ints -> Read(<<"num", v[2]>>)
           [] Head(sig) = "b" -> Read(<<"bool", v[2]>>)
           [] Head(sig) = "d" -> Read(<<"real", v[2]>>)
           [] Head(sig) = "s" -> Read(<<"str", v[2]>>)
           [] Head(sig) = "v" -> ExtractVariant(deeper, binary, v[2])
           [] Head(sig) = "(" -> deeper[binary, Inner(sig), v[2]]
           [] Head(sig) = "h" -> IF v[2] > MaxFdSize THEN Unread ELSE Read(<<"bin", v[2]>>)
           [] Head(sig) = "a" ->
                IF ~IsType(sig) THEN Unread
                ELSE IF sig[2] = "{" THEN ExtractDict(deeper, binary, sig, v[2])
                ELSE IF sig = <<"a", "y">> /\ binary THEN Read(<<"bin", v[2]>>)
                ELSE ExtractArray(deeper, binary, sig, v[2])

\* ExtractMessage(message, sig), where the next values in the message are vals.
ExtractPieces(deeper, binary, sig, vals) ==
    LET pieces == split[sig].result
        rs == [i \in DOMAIN pieces |->
                 IF i > Len(vals) THEN Unread ELSE ExtractOne(deeper, binary, pieces[i], vals[i])]
    IN  IF ~split[sig].ok \/ pieces = <<>> \/ \E i \in DOMAIN pieces : ~rs[i].ok THEN Unread
        ELSE IF Len(pieces) = 1 THEN rs[1]
        ELSE Read(<<"arr", [i \in DOMAIN pieces |-> rs[i].json]>>)

ExtractAny(deeper) ==
    [arg \in BOOLEAN \X Seq(Chars) \X Seq(Values) |-> ExtractPieces(deeper, arg[1], arg[2], arg[3])]

ExtractMessage[n \in Nat] ==
    ExtractAny(IF n = 0 THEN [arg \in BOOLEAN \X Seq(Chars) \X Seq(Values) |-> Unread]
               ELSE ExtractMessage[n - 1])

-----------------------------------------------------------------------------
\* Rand2Json: the set of requests it may propose, empty when it throws.  The
\* numbers are samples of the ranges 0..100 and -100..5 the code draws from.

Product(Ss) == {f \in [DOMAIN Ss -> UNION Range(Ss)] : \A i \in DOMAIN Ss : f[i] \in Ss[i]}

\* Mutant of RandVariant: another signature is announced.
RandVariantMixed(deeper) ==
    {VariantJson(<<"a", "{", "s", "s", "}">>, j) : j \in deeper[<<"a", "{", "s", "i", "}">>]}

RandVariant(deeper) ==
    LET sig == <<"a", "{", "s", "i", "}">>
    IN  {VariantJson(sig, j) : j \in deeper[sig]}

\* Two or three entries are drawn, of which some may have the same key.
RandDict(deeper, sig) ==
    LET keys == {KeyText(j) : j \in deeper[<<sig[3]>>]}
        values == deeper[Tail(Inner(Tail(sig)))]
    IN  {Object(f) : f \in UNION {[K -> values] : K \in {S \in SUBSET keys : Cardinality(S) \in 1..3}}}

RandOne(deeper, sig) ==
    CASE Head(sig) = "b" -> {<<"bool", b>> : b \in BOOLEAN}
      [] Head(sig) \in Unsigned -> {<<"num", n>> : n \in {0, 1}}
      [] Head(sig) \in Signed \cup {"d"} -> {<<"num", n>> : n \in {-1, 1}}
      [] Head(sig) = "s" -> {<<"str", Key("hello")>>}
      [] Head(sig) = "v" -> RandVariant(deeper)
      [] Head(sig) = "(" -> deeper[Inner(sig)]
      [] Head(sig) = "h" -> {}
      [] Head(sig) = "a" ->
           IF sig[2] = "{" THEN RandDict(deeper, sig)
           ELSE {<<"arr", s>> : s \in UNION {[1..n -> deeper[Tail(sig)]] : n \in {2, 3}}}

RandAny(deeper) ==
    [sig \in Seq(Chars) |->
       LET pieces == split[sig].result
       IN  CASE ~split[sig].ok \/ pieces = <<>> -> {}
             [] Len(pieces) = 1 -> RandOne(deeper, pieces[1])
             [] Len(pieces) > 1 ->
                  {<<"arr", f>> : f \in Product([i \in DOMAIN pieces |-> RandOne(deeper, pieces[i])])}]

RandJson[n \in Nat] ==
    RandAny(IF n = 0 THEN [sig \in Seq(Chars) |-> {}] ELSE RandJson[n - 1])

-----------------------------------------------------------------------------
\* A client sends what it means in full, a request that was proposed, or anything.
CallsAssumption ==
    \A c \in Calls :
      /\ c.in \in Seq(Types) /\ c.out \in Seq(Types) /\ c.request \in Seq(Jsons)
      /\ c.source = "values" => /\ c.meant \in Seq(Values) /\ HaveTypes(c.in, c.meant)
                                /\ c.request = JsonOfAll(c.in, c.meant, FALSE)
      /\ c.source = "sample" => /\ Len(c.request) = Len(c.in)
                                /\ \A i \in DOMAIN c.in : c.request[i] \in RandJson[Nesting][SigOf[c.in[i]]]

\* A service returns what it says it returns.
ProducesAssumption ==
    \A c \in Calls : c.in # c.out =>
      \A vs \in Produces[c.out] : vs \in Seq(Values) /\ HaveTypes(c.out, vs)

ASSUME InputsAssumption == CallsAssumption /\ ProducesAssumption

-----------------------------------------------------------------------------

vars == <<call, binary_support, stage, message, reply, body>>

PayloadInit ==
    /\ call \in Calls
    /\ binary_support \in BOOLEAN
    /\ stage = "request"
    /\ message = <<>>
    /\ reply = <<>>
    /\ body = Null

\* FillMessage(message, args, json): the first argument that is missing or does
\* not convert ends it.
FillMethod ==
    Together([i \in DOMAIN call.in |->
                IF i \in DOMAIN call.request
                THEN FillMessage[Nesting][SigOf[call.in[i]], call.request[i]]
                ELSE Failed])

FillArgs ==
    /\ stage = "request"
    /\ FillMethod.ok
    /\ message' = FillMethod.out
    /\ stage' = "sent"
    /\ UNCHANGED <<call, binary_support, reply, body>>

RefuseArgs ==
    /\ stage = "request"
    /\ ~FillMethod.ok
    /\ stage' = "refused"
    /\ UNCHANGED <<call, binary_support, message, reply, body>>

\* The service: it echoes what it is sent, or returns something of its own; it
\* answers with an error when the message lacks an argument.
Serve ==
    /\ stage = "sent"
    /\ Len(message) = Len(call.in)
    /\ IF call.in = call.out THEN reply' = message ELSE reply' \in Produces[call.out]
    /\ stage' = "replied"
    /\ UNCHANGED <<call, binary_support, message, body>>

ServeError ==
    /\ stage = "sent"
    /\ Len(message) # Len(call.in)
    /\ stage' = "failed"
    /\ UNCHANGED <<call, binary_support, message, reply, body>>

ReplyArg(i) == ExtractMessage[Nesting][binary_support, SigOf[call.out[i]], <<reply[i]>>]

\* ExtractMessage(message, args); without arguments the result stays null.
ExtractArgs ==
    /\ stage = "replied"
    /\ \A i \in DOMAIN call.out : ReplyArg(i).ok
    /\ body' = IF call.out = <<>> THEN Null
               ELSE <<"arr", [i \in DOMAIN call.out |-> ReplyArg(i).json]>>
    /\ stage' = "answered"
    /\ UNCHANGED <<call, binary_support, message, reply>>

FailOnReply ==
    /\ stage = "replied"
    /\ \E i \in DOMAIN call.out : ~ReplyArg(i).ok
    /\ stage' = "unreadable"
    /\ UNCHANGED <<call, binary_support, message, reply, body>>

PayloadNext == FillArgs \/ RefuseArgs \/ Serve \/ ServeError \/ ExtractArgs \/ FailOnReply

PayloadSpec == PayloadInit /\ [][PayloadNext]_vars

-----------------------------------------------------------------------------
\* Whatever JSON the client sent, the message that goes out holds a value of the
\* declared type for each argument (integers in the range of their width).
MessageTyped ==
    /\ stage \in {"request", "refused", "sent", "failed", "replied", "answered", "unreadable"}
    /\ \/ message = <<>>
       \/ HaveTypes(call.in, message)
       \/ \E i \in DOMAIN call.in : call.in[i] = <<"h">>

\* split() cuts the signature of several arguments into those of each, for all
\* types whose parts it can convert.
PiecesComplete ==
    LET all == FlattenSeq([i \in DOMAIN call.in |-> SigOf[call.in[i]]])
    IN  ConvertibleAll(call.in) =>
          split[all] = [ok |-> TRUE, result |-> [i \in DOMAIN call.in |-> SigOf[call.in[i]]]]

\* What a client means is what the service gets, and what the echo service sends
\* back is the request again (tests/test_methods.cpp compares the two).
RoundTrip ==
    call.source = "values" /\ ConvertibleAll(call.in) /\ PlainAll(call.in, call.meant) =>
      /\ stage \notin {"refused", "failed"}
      /\ stage # "request" => JsonOfAll(call.in, message, FALSE) = call.request
      /\ call.in = call.out => stage # "unreadable"
      /\ call.in = call.out /\ call.in # <<>> /\ stage = "answered" =>
           body = <<"arr", JsonOfAll(call.in, call.meant, binary_support)>>

\* Whatever a service returns, the body says the same.
ReplyAsSent ==
    ConvertibleAll(call.out) /\ PlainAll(call.out, reply) =>
      /\ stage # "unreadable"
      /\ stage = "answered" /\ call.out # <<>> =>
           body = <<"arr", JsonOfAll(call.out, reply, binary_support)>>

\* A text for an integer arrives as the number it begins with, whatever comes
\* behind it, or is refused; uint64_t takes a negative one too, which arrives as
\* that number plus 2^64.  Behind a file descriptor, which is left out of the
\* message, the arguments are no longer at their places.
StringsChecked ==
    \A i \in DOMAIN message :
      LET c == call.in[i][1]
          j == call.request[i]
          n == j[2][2]
      IN  (\A k \in 1..i : call.in[k] # <<"h">>) /\ c \in Ints /\ j[1] = "str" =>
            /\ j[2][1] \in Numeric
            /\ message[i][2] = IF c = "t" /\ n < 0 THEN n + 2 ^ Width[c] ELSE n

\* The request that GET /dbus/try proposes for a method is one that POST
\* /dbus/call accepts.
SamplesAccepted ==
    call.source = "sample" /\ ConvertibleAll(call.in) => stage # "refused"
==============================================================================
