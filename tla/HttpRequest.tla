---------------------------- MODULE HttpRequest ----------------------------
(***************************************************************************)
(* Util::parse_http_request and the coding of URLs (util.cpp).              *)
(*                                                                         *)
(* A request is a sequence of the characters the parser tells apart, where  *)
(* a method, a word, the two escapes %26 and %0A and a whole JSON text stand *)
(* for one character each.  The parser is a fold of one operator over that  *)
(* sequence.  A JsonObject is its type and its stringValue here: what it     *)
(* holds as an object or as an array is left out.                           *)
(***************************************************************************)
EXTENDS Integers, SequencesExt

CONSTANT JsonMembers    \* what the JSON text "json" holds: key -> value

CR == "\r" LF == "\n" Json == "json"
ContentType == <<"Content-Type">>
Methods == {"GET", "HEAD", "POST", "DELETE", "PUT"}

---------------------------------------------------------------------------
(* Helpers of util.cpp *)

\* strict_compare_inequal: over `count` characters, NUL past the end; without a
\* count its loop has no way to end but by returning true.
StrictCompareInequal(first, second, count) ==
    LET at(s, i) == IF i > Len(s) THEN "NUL" ELSE s[i]
    IN count = 0 \/ \E i \in 1 .. count : at(first, i) # at(second, i)

HexDigit(n) == IF n < 10 THEN 48 + n ELSE 55 + n
HexValue(c) == IF c \in 48 .. 57 THEN c - 48 ELSE IF c \in 65 .. 70 THEN c - 55 ELSE -1
Unreserved == 48 .. 57 \cup 65 .. 90 \cup 97 .. 122 \cup {45, 46, 95, 126}

\* Mutant: a number below 16 gets one digit.
PercentUnpadded(c) == <<37>> \o (IF c < 16 THEN <<HexDigit(c)>> ELSE <<HexDigit(c \div 16), HexDigit(c % 16)>>)

\* The % escape of a character: sprintf("%X"), after "%0" for a number below 16.
\* char is signed: of a byte above 127 both the eight digits of a negative int
\* and the 0 are written.
Percent(c) ==
    LET hex == <<HexDigit(c \div 16), HexDigit(c % 16)>>
    IN CASE c > 127 -> <<37, 48, 70, 70, 70, 70, 70, 70>> \o hex
         [] OTHER -> <<37>> \o hex

\* url_encode, on byte values.
UrlEncode(s) ==
    LET encoded(c) == CASE c = 32 -> <<43>>
                        [] c \in Unreserved -> <<c>>
                        [] OTHER -> Percent(c)
    IN FlattenSeq([i \in DOMAIN s |-> encoded(s[i])])

\* url_decode, of texts in which a digit follows every %.  `skip` counts the
\* characters an escape has used up.
UrlDecode(s) ==
    LET digit(i) == IF i > Len(s) THEN -1 ELSE HexValue(s[i])
        escape(i) == IF digit(i + 2) < 0 THEN digit(i + 1) ELSE 16 * digit(i + 1) + digit(i + 2)
        read(r, i) == CASE r.skip > 0 -> [r EXCEPT !.skip = @ - 1]
                        [] r.skip = 0 /\ s[i] = 37 -> [out |-> Append(r.out, escape(i)), skip |-> 2]
                        [] r.skip = 0 /\ s[i] = 43 -> [r EXCEPT !.out = Append(@, 32)]
                        [] OTHER -> [r EXCEPT !.out = Append(@, s[i])]
    IN FoldLeftDomain(read, [out |-> <<>>, skip |-> 0], s).out

---------------------------------------------------------------------------
(* parse_http_request *)

StringMember(s) == [type |-> "STRING", value |-> s]

\* JsonObject::parse of a value: a backslash hides the character after it, and a hidden
\* n, r or t is lost.  (json.cpp's loop, a character after the other, is in Json.)
Hides(v, i) == v[i] = "\\" /\ LET from == Max({0} \cup {j \in 1 .. i : v[j] # "\\"}) IN (i - from) % 2 = 1
Hidden(v, i) == i > 1 /\ Hides(v, i - 1)
Shown(v, chars) == {i \in DOMAIN v : v[i] \in chars /\ ~Hidden(v, i)}
Between(v, first, last) ==
    LET kept(i) == ~Hides(v, i) /\ ~(Hidden(v, i) /\ v[i] \in {"n", "r", "t"})
    IN FlattenSeq([n \in 1 .. last - first - 1 |-> IF kept(first + n) THEN <<v[first + n]>> ELSE <<>>])

\* What a value gives the object of its key: the type of the quote, the bracket or the
\* brace that opens first, and a text, which is the whole value if nothing opens, what
\* stands between quotes, and none if the quote is not closed or something else opened.
MemberOf(v) ==
    LET opening == Shown(v, {"\"", "[", "{", Json})
        first == Min(opening)
        closing == {i \in Shown(v, {"\""}) : i > first}
    IN CASE opening = {} -> [type |-> "STRING", texts |-> <<v>>]
         [] opening # {} /\ v[first] = "\"" ->
              [type |-> "STRING", texts |-> IF closing = {} THEN <<>> ELSE <<Between(v, first, Min(closing))>>]
         [] opening # {} /\ v[first] = "[" -> [type |-> "ARRAY", texts |-> <<>>]
         [] OTHER -> [type |-> "OBJECT", texts |-> <<>>]

\* A header gives its text.
Given(s) == [type |-> "STRING", texts |-> <<s>>]

\* The object under a key, a new one or the one that is there, takes what it is given and
\* keeps its stringValue otherwise.
Former(obj, key) == IF key \in DOMAIN obj THEN obj[key].value ELSE <<>>
Put(obj, key, given) ==
    [k \in DOMAIN obj \cup {key} |->
        IF k = key
        THEN [type |-> given.type, value |-> IF given.texts = <<>> THEN Former(obj, key) ELSE given.texts[1]]
        ELSE obj[k]]

\* objectValues[key]->stringValue = value
SetValue(obj, key, value) == [obj EXCEPT ![key].value = value]

Save(obj, key, value) == Put(obj, key, MemberOf(value))

\* The key and the value being collected, one of the states of the code's comment,
\* what was found, and the text left for the body.
Begin(method) ==
    [state |-> "route", key |-> <<>>, value |-> <<"/">>, skip |-> FALSE, body |-> <<>>,
     obj |-> [k \in {<<"method">>, <<"route">>, <<"protocol">>} |->
                 StringMember(CASE k = <<"method">> -> <<method>>
                                [] k = <<"route">> -> <<>>
                                [] k = <<"protocol">> -> <<"JPON">>)]]

\* Mutant: nothing but the carriage return is treated apart.
DecodedVerbatim(state, c) == IF c = CR THEN <<>> ELSE <<c>>

\* case 0, 1, 3, 4 and 6 of the second switch: a character of a value.
Decoded(state, c) ==
    CASE c = "+" /\ state = "paramValue" -> <<" ">>
      [] c = "%26" -> <<"\"">>
      [] c = "%0A" -> <<LF>>
      [] c \in {"%", CR} -> <<>>
      [] OTHER -> <<c>>

\* One character of the start line and the headers.
ReadHead(p, c) ==
    CASE p.state = "body" -> [p EXCEPT !.body = Append(@, c)]
      [] p.skip -> [p EXCEPT !.skip = FALSE]
      [] p.state = "route" /\ c = " " ->
            [p EXCEPT !.obj = SetValue(@, <<"route">>, p.value), !.state = "protocol", !.value = <<>>]
      [] p.state = "route" /\ c = "?" ->
            [p EXCEPT !.obj = SetValue(@, <<"route">>, p.value), !.state = "paramKey", !.key = <<>>]
      [] p.state = "paramKey" /\ c = " " -> [p EXCEPT !.state = "protocol"]
      [] p.state = "paramKey" /\ c = "=" -> [p EXCEPT !.state = "paramValue", !.value = <<>>]
      [] p.state = "paramValue" /\ c = " " ->
            [p EXCEPT !.obj = Save(@, p.key, p.value), !.state = "protocol", !.value = <<>>]
      [] p.state = "paramValue" /\ c = "&" ->
            [p EXCEPT !.obj = Save(@, p.key, p.value), !.state = "paramKey", !.key = <<>>]
      [] p.state = "protocol" /\ c = LF ->
            [p EXCEPT !.obj = SetValue(@, <<"protocol">>, p.value), !.state = "header", !.key = <<>>]
      [] p.state = "header" /\ c = LF -> [p EXCEPT !.state = "body"]
      [] p.state = "header" /\ c = ":" ->
            [p EXCEPT !.state = "headerValue", !.skip = TRUE, !.value = <<>>]
      [] p.state = "headerValue" /\ c = LF ->
            [p EXCEPT !.obj = Put(@, p.key, Given(p.value)), !.state = "header", !.key = <<>>]
      [] \/ p.state = "paramKey" /\ c \notin {" ", "="}
         \/ p.state = "header" /\ c \notin {LF, ":"} -> [p EXCEPT !.key = Append(@, c)]
      [] OTHER -> [p EXCEPT !.value = @ \o Decoded(p.state, c)]

\* One character of a form: states 1 and 2 of the second loop.
ReadForm(p, c) ==
    CASE c = "&" -> [state |-> "key", key |-> <<>>, value |-> <<>>,
                     obj |-> Save(p.obj, p.key, p.value)]
      [] c = "=" -> [p EXCEPT !.state = "value"]
      [] c \notin {"&", "="} /\ p.state = "key" -> [p EXCEPT !.key = Append(@, c)]
      [] OTHER -> [p EXCEPT !.value = Append(@, c)]

ParseForm(obj, text) ==
    LET p == FoldLeft(ReadForm, [state |-> "key", key |-> <<>>, value |-> <<>>, obj |-> obj], text)
    IN IF p.state = "value" THEN Save(p.obj, p.key, p.value) ELSE p.obj

\* request_obj->parse of a JSON text: its members join those already there.
ParseMembers(obj, text) == IF text = <<Json>> THEN JsonMembers @@ obj ELSE obj

ParseHttpRequest(text) ==
    LET isMethod(m) == ~StrictCompareInequal(text, <<m, " ", "/">>, 3)
        m == CHOOSE m \in Methods : isMethod(m)
        p == FoldLeft(ReadHead, Begin(m), SubSeq(text, 4, Len(text)))
        isType(t) == ContentType \in DOMAIN p.obj /\ p.obj[ContentType] = StringMember(t)
    IN CASE ~\E method \in Methods : isMethod(method) ->
              [result |-> "API", obj |-> ParseMembers(Begin("GET").obj, text)]
         [] isType(<<"application/json">>) ->
              [result |-> "HTTP_API", obj |-> ParseMembers(p.obj, p.body)]
         [] isType(<<"application/x-www-form-urlencoded">>) ->
              [result |-> "HTTP_FORM", obj |-> ParseForm(p.obj, p.body)]
         [] OTHER -> [result |-> "HTTP", obj |-> p.obj]
=============================================================================
