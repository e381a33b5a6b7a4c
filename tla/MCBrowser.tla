------------------------------- MODULE MCBrowser -------------------------------
(***************************************************************************)
(* Instances of Browser for TLC: two services that declare one interface   *)
(* differently, an object at the root, whose path ends in a slash, and a   *)
(* method no request is proposed for.                                      *)
(***************************************************************************)
EXTENDS Browser, TLC

svcA == <<"org", ".", "a">>
svcB == <<"org", ".", "b">>
iOne == <<"org", ".", "one">>
iTwo == <<"org", ".", "b", ".", "two">>
leaf == <<"/", "x", "/", "y">>

Object(s, o, i) == [service |-> s, object |-> o, interface |-> i]

oneOfA == Object(svcA, <<"/">>, iOne)
oneOfB == Object(svcB, <<"/">>, iOne)
twoOfB == Object(svcB, leaf, iTwo)

TwoServices == {oneOfA, oneOfB, twoOfB}
TwoMethods == oneOfA :> {<<"Get">>} @@ oneOfB :> {<<"Set">>} @@ twoOfB :> {<<"Get">>, <<"Open">>}
TwoSignals == oneOfA :> {<<"Changed">>} @@ oneOfB :> {<<"Changed">>} @@ twoOfB :> {}
Descriptors == oneOfA :> {} @@ oneOfB :> {} @@ twoOfB :> {<<"Open">>}

SchemaFiles == {schema \o <<f>> : f \in {"index.html", "swagger-ui-bundle.js",
    "swagger-ui-standalone-preset.js", "swagger-initializer.js", "dbus2http_openapi.yaml"}}

Url(path) == [path |-> path, query |-> NoQuery]
TypedUrls == {Start, SchemaUrl, Url(schema), Url(dbus \o <<"matchrule">>),
              Url(dbus \o <<"interface", "/", "html", "/">> \o iOne),
              Url(dbus \o <<"introspect">>)}

FormInputs == [sender |-> {<<":", "1", ".", "5">>}, path |-> {<<>>, leaf}]

OtherPort == 20058
==============================================================================
