------------------------------ MODULE MCCodecs ------------------------------
(* Bounded inputs for the conversions. *)
EXTENDS Codecs

Chars == {Quote, Backslash, Newline, "n", "{", "}", "[", "]", ":", ",", "a"}
Key(c) == <<c>>

\* Strings up to one character and some of two.
MCStrings == {<<>>} \cup {<<c>> : c \in Chars} \cup {<<c, d>> : c, d \in {Quote, Backslash, Newline, "n"}}
Short == {StringValue(s) : s \in {<<>>, <<Quote>>, <<"a">>, <<"]">>, <<"n", Backslash>>}}
Flat == {NoType, ObjectValue(EmptyObject), ArrayValue(<<>>)} \cup Short
ObjectsOf(keys, values) == {ObjectValue(o) : o \in [keys -> values]}
Arrays(values) == {ArrayValue(<<v>>) : v \in values} \cup {ArrayValue(<<v, w>>) : v, w \in values}
Depth1 == Arrays(Flat) \cup UNION {ObjectsOf({k}, Flat) : k \in {Key(c) : c \in Chars}}
          \cup ObjectsOf({Key("a"), Key("}")}, Flat)
Depth2 == {ArrayValue(<<v>>) : v \in Depth1} \cup UNION {ObjectsOf({k}, Depth1) : k \in {Key("a"), Key(":")}}
          \cup {ArrayValue(<<v, w>>) : v \in {ObjectValue(Key("a") :> f) : f \in Flat}, w \in Flat}
MCJsonValues == Flat \cup {StringValue(s) : s \in MCStrings} \cup Depth1 \cup Depth2

\* Every text of at most four characters that does not end in a backslash, nor in a
\* quote unless it begins a string.
MCJsonTexts == {t \in BoundedSeq({Quote, Backslash, "n", "{", "}", "[", "]", ":"}, 4) :
                    /\ t # <<>> => Last(t) # Backslash
                    /\ t # <<>> /\ Last(t) = Quote => MemberOf(t).type = "STRING"}

MCJsonMembers == (<<"a">> :> StringMember(<<"x">>)) @@ (<<"route">> :> StringMember(<<"/">>))

MCUrlStrings == {<<>>} \cup {<<c>> : c \in 1 .. 129} \cup {<<c, d>> : c \in {1, 15, 16, 32, 37, 43, 48, 65, 127}, d \in 1 .. 127}

\* Requests: up to two parameters, two headers and two form fields.
Words == {<<"a">>, <<"route">>}
Pairings(values) ==
    {<<>>} \cup {<<<<k, v>>>> : k \in Words, v \in values}
    \cup {<<<<k, <<"x">>>>, <<l, <<"y">>>>>> : k, l \in Words}
\* Values that open something, alone and after another value of the same key.
MCValues == {<<Quote, "x", Quote>>, <<"y", Quote, Quote, "z">>, <<Quote, "x">>, <<"[", "x", "]">>, <<"{">>,
             <<Backslash, Quote>>, <<Backslash, Backslash, Quote, "n", Backslash, "n", Backslash, Quote, Quote>>}
Structured == {<<<<<<"a">>, v>>>> : v \in MCValues} \cup {<<<<<<"a">>, <<"x">>>>, <<<<"a">>, v>>>> : v \in MCValues}
Headers(type) == {h \o t : h \in {<<>>, <<<< <<"a">>, <<"y", ":", " ", "=">> >>>>, <<<< <<"b">>, <<>> >>>>},
                          t \in IF type = <<>> THEN {<<>>} ELSE {<<<<ContentType, type>>>>}}
Request(body, type, forms) ==
    [method : {"GET", "POST"}, route : {<<"/">>, <<"/", "a", "&", "=">>}, params : Pairings({<<>>, <<"x">>, <<"?", " ", LF, "=">>, <<Json>>}) \cup Structured,
     headers : Headers(type), body : {body}, form : forms]
MCHttpRequests ==
    Request("none", <<>>, {<<>>}) \cup Request("json", <<"application/json">>, {<<>>})
    \cup Request("form", <<"application/x-www-form-urlencoded">>, Pairings({<<>>, <<"x", ":">>, <<Json>>}) \cup Structured)
    \cup [method : {"GET"}, route : {<<"/">>}, params : {<<>>}, headers : {<<>>}, body : {"api"}, form : {<<>>}]

\* Two arguments that share an alternative, beside those every program has.
MCDefined == <<"port", "name", "verbose", "configuration_file">>
Def(flag, alts, type, default) == [flag |-> flag, alts |-> alts, type |-> type, default |-> default]
MCDefinition == [port |-> Def("--port", {"-p"}, "INTEGER", "80"),
                 name |-> Def("--name", {"-p", "--port"}, "STRING", "none"),
                 verbose |-> Def("--verbose", {"-v"}, "BOOLEAN", "false"),
                 configuration_file |-> Def("--configuration_file", {"-cf"}, "STRING", "etc")]
MCConfigFiles == [etc |-> [port |-> "8080", verbose |-> "false", configuration_file |-> "own"], own |-> [name |-> "own", port |-> "x"]]
MCCommandLines == {<<"program">> \o t : t \in BoundedSeq({"--port", "-p", "--name", "-v", "-cf", "1", "own"}, 4)}
                  \cup {<<"program", "-h">>}

MCMessageLengths == 0 .. 130 \cup {255, 256, 257, 1000, 65535, 65536}
=============================================================================
