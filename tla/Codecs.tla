------------------------------- MODULE Codecs -------------------------------
(***************************************************************************)
(* The conversions side by side: what the programs read and write as JSON, *)
(* as a URL, as an HTTP request, as a WebSocket frame and as the words of a  *)
(* command line.  A behaviour is one call of JsonObject::parse, step by   *)
(* step, or one `sample` handed to one of the other conversions.            *)
(***************************************************************************)
EXTENDS Json, HttpRequest, WebsocketFrame, Arguments

CONSTANTS
    UrlStrings,      \* byte strings for url_encode
    JsonStrings,     \* strings for escape
    HttpRequests,    \* requests a client writes
    CommandLines,    \* argv of a program
    MessageLengths   \* lengths of WebSocket messages

VARIABLE sample

JsonSamples == [kind : {"json"}, value : JsonValues, pretty : BOOLEAN]
               \cup [kind : {"text"}, value : JsonTexts]
OtherSamples == [kind : {"url"}, value : UrlStrings]
                \cup [kind : {"escape"}, value : JsonStrings]
                \cup [kind : {"http"}, value : HttpRequests]
                \cup [kind : {"argv"}, value : CommandLines]
                \cup [kind : {"frame"}, value : MessageLengths]

codecsVars == <<jsonVars, sample>>

Init ==
    \/ /\ sample \in JsonSamples
       /\ JsonCall(IF sample.kind = "json" THEN Stringify[sample.value, sample.pretty]
                   ELSE sample.value)
    \/ /\ sample \in OtherSamples
       /\ text = <<>> /\ it = 1 /\ stack = <<>> /\ parsed = NoValue

Next == JsonNext /\ UNCHANGED sample
Spec == Init /\ [][Next]_codecsVars /\ WF_codecsVars(Next)

---------------------------------------------------------------------------
(* Requests as a client writes them, and what they mean *)

\* A space and a line feed as they travel in a query; a form sends its text as it is.
Encoded(v) == [i \in DOMAIN v |-> CASE v[i] = " " -> "+" [] v[i] = LF -> "%0A" [] OTHER -> v[i]]
EncodedPairs(ps) == [i \in DOMAIN ps |-> <<ps[i][1], Encoded(ps[i][2])>>]

\* k=v&k=v
Pairs(ps) == FlattenSeq([i \in DOMAIN ps |->
    (IF i = 1 THEN <<>> ELSE <<"&">>) \o ps[i][1] \o <<"=">> \o ps[i][2]])

\* Objects given something in turn: the last one with a key decides the type, and the last
\* of those that have a text decides the text.
Members(ps) == [i \in DOMAIN ps |-> <<ps[i][1], MemberOf(ps[i][2])>>]
GivenTexts(ps) == [i \in DOMAIN ps |-> <<ps[i][1], Given(ps[i][2])>>]
Giving(ms, k) == {i \in DOMAIN ms : ms[i][1] = k}
GivingText(ms, k) == {i \in Giving(ms, k) : ms[i][2].texts # <<>>}
Overlaid(obj, ms) ==
    [k \in DOMAIN obj \cup {ms[i][1] : i \in DOMAIN ms} |->
        IF Giving(ms, k) = {} THEN obj[k]
        ELSE [type |-> ms[Max(Giving(ms, k))][2].type,
              value |-> IF GivingText(ms, k) = {} THEN Former(obj, k)
                        ELSE ms[Max(GivingText(ms, k))][2].texts[1]]]

WriteHttp(r) ==
    LET query == IF r.params = <<>> THEN <<>> ELSE <<"?">> \o Pairs(EncodedPairs(r.params))
        lines == FlattenSeq([i \in DOMAIN r.headers |->
                     r.headers[i][1] \o <<":", " ">> \o r.headers[i][2] \o <<CR, LF>>])
        body == CASE r.body = "json" -> <<Json>>
                  [] r.body = "form" -> Pairs(r.form)
                  [] OTHER -> <<>>
    IN IF r.body = "api" THEN <<Json>>
       ELSE <<r.method, " ">> \o r.route \o query \o <<" ", "HTTP/1.1", CR, LF>>
            \o lines \o <<CR, LF>> \o body

\* What the start line and the headers say.
HeadMeaning(r) ==
    LET start == SetValue(Begin(r.method).obj, <<"route">>, r.route)
        line == SetValue(Overlaid(start, Members(r.params)), <<"protocol">>, <<"HTTP/1.1">>)
    IN Overlaid(line, GivenTexts(r.headers))

HttpMeaning(r) ==
    LET head == HeadMeaning(r)
    IN CASE r.body = "api" -> [result |-> "API", obj |-> JsonMembers @@ Begin("GET").obj]
         [] r.body = "json" -> [result |-> "HTTP_API", obj |-> JsonMembers @@ head]
         [] r.body = "form" -> [result |-> "HTTP_FORM", obj |-> Overlaid(head, Members(r.form))]
         [] OTHER -> [result |-> "HTTP", obj |-> head]

\* A request the parser can take apart: no part holds what ends it or what the parser does
\* not read as it is written, and the headers tell what the body is.
Without(ps, keyEnds, valueEnds) ==
    /\ ps \in Seq(Seq(STRING) \X Seq(STRING))
    /\ \A i \in DOMAIN ps : Range(ps[i][1]) \cap keyEnds = {} /\ Range(ps[i][2]) \cap valueEnds = {}
\* Values JsonObject::parse reads to their end, and returns from.
Readable(ps) ==
    \A i \in DOMAIN ps :
        LET v == ps[i][2]
        IN /\ ~Hidden(v, Len(v) + 1)
           /\ v # <<>> /\ v[Len(v)] = Quote => MemberOf(v).type = "STRING"
           /\ Json \in Range(v) => Range(v) \cap {Quote, "[", "{", Backslash} = {}
TellsType(r, t) == LET head == HeadMeaning(r)
                   IN ContentType \in DOMAIN head /\ head[ContentType] = StringMember(t)
WellFormed(r) ==
    /\ r.method \in Methods
    /\ r.route \in Seq(STRING) /\ r.route # <<>> /\ r.route[1] = "/"
    /\ Range(r.route) \cap {" ", "?", "%", "%26", "%0A", CR} = {}
    /\ Without(r.params, {" ", "="}, {"&", "+", "%", "%26", "%0A", CR})
    /\ Without(r.headers, {":", LF}, {"%", "%26", "%0A", CR, LF})
    /\ Without(r.form, {"&", "="}, {"&", "="})
    /\ Readable(r.params) /\ Readable(r.form)
    /\ r.body \in {"none", "json", "form", "api"}
    /\ r.body = "json" <=> TellsType(r, <<"application/json">>)
    /\ r.body = "form" <=> TellsType(r, <<"application/x-www-form-urlencoded">>)

\* A C string has its NUL at its end only; parse reads past the end of a text that
\* ends in a backslash.
ASSUME CodecsAssumption ==
    /\ JsonTexts \subseteq Seq(STRING \ {"NUL"}) /\ JsonStrings \subseteq Seq(STRING)
    /\ \A t \in JsonTexts : t # <<>> => t[Len(t)] # Backslash
    /\ UrlStrings \subseteq Seq(1 .. 255)
    /\ MessageLengths \subseteq Nat
    /\ \A r \in HttpRequests : WellFormed(r)
    /\ CommandLines \subseteq Seq(STRING) /\ "configuration_file" \in Names

\* What parse makes of a text stringify wrote: control characters are lost, and
\* a value without a type comes back as an empty string.
KeptString(s) == SelectSeq(s, LAMBDA c : c # Newline)
Kept[v \in JsonValues] ==
    CASE v.type = "NOTYPE" -> StringValue(<<>>)
      [] v.type = "STRING" -> StringValue(KeptString(v.str))
      [] v.type = "ARRAY" -> ArrayValue([i \in DOMAIN v.arr |-> Kept[v.arr[i]]])
      [] v.type = "OBJECT" ->
           LET keys == DOMAIN v.obj
               of(k) == CHOOSE key \in keys : KeptString(key) = k
           IN ObjectValue([k \in {KeptString(key) : key \in keys} |-> Kept[v.obj[of(k)]]])

---------------------------------------------------------------------------
(* Properties *)

\* The pointer the nested calls of parse pass up and down, with their steps back
\* over a closing quote, never leaves the text: it stops at the terminating NUL.
TypeOK ==
    /\ sample \in JsonSamples \cup OtherSamples
    /\ it \in 0 .. Len(text) + 1 /\ (stack # <<>> => it > 0)
    /\ parsed # NoValue => parsed.type \in {"NOTYPE", "STRING", "OBJECT", "ARRAY"}

\* parse undoes stringify, pretty or not, whatever characters the strings and
\* keys hold: quotes, braces and colons in a string never change the structure.  And
\* of a text that is anything else it makes what the HTTP parser counts on for a value.
JsonRoundTrip ==
    LET key == <<"key">>
        found == IF parsed.type = "NOTYPE" THEN StringMember(text)
                 ELSE [type |-> parsed.type, value |-> parsed.str]
    IN parsed # NoValue =>
         /\ sample.kind = "json" => parsed = Kept[sample.value]
         /\ sample.kind = "text" /\ Readable(<<<<key, text>>>>) => Save(EmptyObject, key, text)[key] = found

\* parse returns for every text, well formed or not, although its nested calls
\* move the pointer backwards.
JsonReturns == <>(stack = <<>>)

\* deescape undoes escape, and url_decode undoes url_encode of bytes below 128.
TextsRestored ==
    /\ sample.kind = "escape" =>
         LET escaped == Escape(sample.value)
         IN Deescape(SubSeq(escaped, 2, Len(escaped) - 1)) = sample.value
    /\ sample.kind = "url" /\ (\A i \in DOMAIN sample.value : sample.value[i] <= 127) =>
         UrlDecode(UrlEncode(sample.value)) = sample.value

\* A well formed request is taken apart into its parts.  Of a key given twice the last one
\* counts, the body over the headers over the query; but a value that opens a quote, a
\* bracket or a brace is kept as what is between the quotes, an array or an object, and one
\* without a text of its own leaves the key the text it had.
HttpPartsFound ==
    sample.kind = "http" => ParseHttpRequest(WriteHttp(sample.value)) = HttpMeaning(sample.value)

\* The words of argv that give an argument a value, the value the last of them gives
\* it, and whether a configuration file that was opened has one for it.
NeedsWord(n) == Definition[n].type # "BOOLEAN"
Places(argv, n) == {i \in DOMAIN argv : n \in Takes(argv[i]) /\ (NeedsWord(n) => i < Len(argv))}
OnLine(argv, n) == CASE Places(argv, n) = {} -> Definition[n].default
                     [] Places(argv, n) # {} /\ NeedsWord(n) -> argv[Max(Places(argv, n)) + 1]
                     [] OTHER -> "true"
InFile(path, n) == path \in DOMAIN ConfigFiles /\ n \in DOMAIN ConfigFiles[path]

\* The last place on the command line that gives an argument a value decides, a
\* configuration file (perhaps one the command line names, never one that the file
\* names) only when there is none, and the callback has run if the value was set at all.
ArgumentsResolved ==
    LET argv == sample.value
        outcome == ParseArguments(argv)
        path == OnLine(argv, "configuration_file")
        fromFile(n) == Places(argv, n) = {} /\ InFile(path, n)
    IN sample.kind = "argv" /\ outcome.end = "run" =>
         \A n \in Names :
           /\ outcome.args[n].value = IF fromFile(n)
                                      THEN IF NeedsWord(n) THEN ConfigFiles[path][n] ELSE "true"
                                      ELSE OnLine(argv, n)
           /\ outcome.args[n].calls > 0 <=> Places(argv, n) # {} \/ fromFile(n)

\* A browser reads every message the server frames that has less than 64 KiB, and the
\* server every message of up to 255 bytes that a browser frames, whole and unmasked.
FramesRead ==
    sample.kind = "frame" =>
        LET message == Message(sample.value)
        IN /\ sample.value <= 65535 => BrowserReads(CreateFrame(message)) = message
           /\ sample.value <= 255 => ParseFrame(ClientFrame(message)) = message
=============================================================================
