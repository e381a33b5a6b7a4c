------------------------------ MODULE RequestPath ------------------------------
(***************************************************************************)
(* The path of a call, and how WebService::parse_dbus_request_path takes   *)
(* it apart: /dbus/call/ is followed by service, object path, interface    *)
(* and method, where an object path holds slashes and names hold dots.     *)
(*                                                                         *)
(* A text is a sequence of marks and of the words between them.            *)
(***************************************************************************)
EXTENDS Naturals, Sequences

npos == 0

At(text, mark) == {k \in 1..Len(text) : text[k] = mark}

Without(text, mark) == At(text, mark) = {}

\* std::string::find and rfind.
find(text, mark) ==
    IF Without(text, mark) THEN npos
    ELSE CHOOSE k \in At(text, mark) : \A j \in At(text, mark) : k <= j

rfind(text, mark) ==
    IF Without(text, mark) THEN npos
    ELSE CHOOSE k \in At(text, mark) : \A j \in At(text, mark) : k >= j

\* substr(0, k) and substr(k + 1), where k is the place of a mark.
Before(text, k) == SubSeq(text, 1, k - 1)
After(text, k) == SubSeq(text, k + 1, Len(text))

Incomplete == [service |-> <<>>, object |-> <<>>, interface |-> <<>>, method |-> <<>>]

\* Mutant of parse_dbus_request_path: the object path does not get its slash back.
ParseRelative(path) ==
    LET first_slash == find(path, "/")
        rest == After(path, first_slash)
        last_slash == rfind(rest, "/")
        interface_method == After(rest, last_slash)
        last_dot == rfind(interface_method, ".")
    IN  IF npos \in {first_slash, last_slash, last_dot} THEN Incomplete
        ELSE [service   |-> Before(path, first_slash),
              object    |-> Before(rest, last_slash),
              interface |-> Before(interface_method, last_dot),
              method    |-> After(interface_method, last_dot)]

\* Service up to the first slash, method behind the last dot of what follows the
\* last slash; the object path gets its leading slash back.
parse_dbus_request_path(path) ==
    LET first_slash == find(path, "/")
        rest == After(path, first_slash)
        last_slash == rfind(rest, "/")
        interface_method == After(rest, last_slash)
        last_dot == rfind(interface_method, ".")
    IN  IF npos \in {first_slash, last_slash, last_dot} THEN Incomplete
        ELSE [service   |-> Before(path, first_slash),
              object    |-> <<"/">> \o Before(rest, last_slash),
              interface |-> Before(interface_method, last_dot),
              method    |-> After(interface_method, last_dot)]

\* What the HTML pages put together: service_name + object_path + "/" +
\* interface_name + "." + method.
CallPath(c) == c.service \o c.object \o <<"/">> \o c.interface \o <<".">> \o c.method
==============================================================================
