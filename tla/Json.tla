------------------------------- MODULE Json -------------------------------
(***************************************************************************)
(* JsonObject (json.cpp): stringify and the recursive, one pass parse.      *)
(*                                                                         *)
(* A text is a sequence of characters that ends where the C string has its  *)
(* NUL; only the characters the code tells apart have a name of their own:  *)
(* quote, backslash, braces, brackets, colon, newline, the letter n and     *)
(* anything else.  parse is one action per case of its switch; the C call   *)
(* stack is `stack`, a frame per JsonObject being parsed, and `it` is the    *)
(* pointer all of them advance.  Control characters: newline stands for \n, *)
(* \r and \t, which the code treats alike.                                  *)
(***************************************************************************)
EXTENDS Naturals, SequencesExt

CONSTANTS
    JsonTexts,      \* the C strings parse is called with
    JsonValues      \* the objects stringify is called with, closed under membership

VARIABLES
    text,   \* the argument of the outermost call
    it,     \* the pointer into it, from 1; Len(text) + 1 is the terminating NUL
    stack,  \* the frames of the calls in progress, innermost first
    parsed  \* the object the outermost call has filled, NoValue before it returns

jsonVars == <<text, it, stack, parsed>>

Quote == "\"" Backslash == "\\" Newline == "nl"

\* The members of a JsonObject.
Value(type, str, obj, arr) == [type |-> type, str |-> str, obj |-> obj, arr |-> arr]
EmptyObject == [k \in {} |-> {}]
NoType == Value("NOTYPE", <<>>, EmptyObject, <<>>)
StringValue(s) == Value("STRING", s, EmptyObject, <<>>)
ObjectValue(o) == Value("OBJECT", <<>>, o, <<>>)
ArrayValue(a) == Value("ARRAY", <<>>, EmptyObject, a)
NoValue == [type |-> "none"]

---------------------------------------------------------------------------
(* Writing *)

\* Mutant: a backslash is not escaped.
EscapeButBackslash(s) ==
    LET escaped(c) == CASE c = Newline -> <<Backslash, "n">>
                        [] c = Quote -> <<Backslash, c>>
                        [] OTHER -> <<c>>
    IN <<Quote>> \o FlattenSeq([i \in DOMAIN s |-> escaped(s[i])]) \o <<Quote>>

\* JsonObject::escape: control characters, quotes and backslashes get a backslash.
Escape(s) ==
    LET escaped(c) == CASE c = Newline -> <<Backslash, "n">>
                        [] c \in {Quote, Backslash} -> <<Backslash, c>>
                        [] OTHER -> <<c>>
    IN <<Quote>> \o FlattenSeq([i \in DOMAIN s |-> escaped(s[i])]) \o <<Quote>>

\* JsonObject::deescape: the other way round, on the text between the quotes.
\* `open` tells that a backslash waits for its second character.
Deescape(s) ==
    LET read(r, c) ==
            CASE r.open /\ c = "n" -> [out |-> Append(r.out, Newline), open |-> FALSE]
              [] r.open /\ c \in {Quote, Backslash} -> [out |-> Append(r.out, c), open |-> FALSE]
              [] r.open /\ c \notin {"n", Quote, Backslash} -> [out |-> r.out \o <<Backslash, c>>, open |-> FALSE]
              [] ~r.open /\ c = Backslash -> [r EXCEPT !.open = TRUE]
              [] OTHER -> [r EXCEPT !.out = Append(@, c)]
        all == FoldLeft(read, [out |-> <<>>, open |-> FALSE], s)
    IN IF all.open THEN Append(all.out, Backslash) ELSE all.out

\* JsonObject::stringify.  Pretty puts space (the newline and the tabs) around an
\* element; the order of an unordered_map is arbitrary.
Stringify[v \in JsonValues, pretty \in BOOLEAN] ==
    LET space == IF pretty THEN <<" ">> ELSE <<>>
        comma(i, n) == IF i = n THEN <<>> ELSE <<",">>
        keys == SetToSeq(DOMAIN v.obj)
        member(i) == space \o Escape(keys[i]) \o <<":">>
                     \o Stringify[v.obj[keys[i]], pretty] \o comma(i, Len(keys)) \o space
        item(i) == space \o Stringify[v.arr[i], pretty] \o comma(i, Len(v.arr)) \o space
    IN CASE v.type = "NOTYPE" -> <<Quote, Quote>>
         [] v.type = "STRING" -> Escape(v.str)
         [] v.type = "OBJECT" ->
              <<"{">> \o space \o FlattenSeq([i \in DOMAIN keys |-> member(i)]) \o space \o <<"}">>
         [] v.type = "ARRAY" ->
              <<"[">> \o space \o FlattenSeq([i \in DOMAIN v.arr |-> item(i)]) \o space \o <<"]">>

---------------------------------------------------------------------------
(* Parsing *)

\* A call of parse in progress: the object it fills, the state of the object's
\* members, the characters in `ss`, and where its caller resumes.
Frame(caller) == [type |-> "NOTYPE", objState |-> "NOSTATE", ss |-> <<>>,
                  str |-> <<>>, obj |-> EmptyObject, arr |-> <<>>, caller |-> caller]

JsonCall(t) ==
    /\ text = t /\ it = 1
    /\ stack = <<Frame("none")>>
    /\ parsed = NoValue

JsonInit == \E t \in JsonTexts : JsonCall(t)

top == Head(stack)
char == IF it > Len(text) THEN "NUL" ELSE text[it]
Parsing(c) == stack # <<>> /\ char = c

\* The loop goes on with the pointer at `p` and the innermost object changed to f.
Continue(f, p) ==
    /\ stack' = <<f>> \o Tail(stack)
    /\ it' = p
    /\ UNCHANGED <<text, parsed>>

\* The end of the loop body: text of a string or of a key is collected.
Collected(f, c) ==
    IF f.type = "STRING" \/ (f.type = "OBJECT" /\ f.objState = "GETKEY")
    THEN [f EXCEPT !.ss = Append(@, c)]
    ELSE f

Fallthrough == Continue(Collected(top, char), it + 1)

\* new JsonObject()->parse(it): the nested call starts at the character its
\* caller has seen.
Nested(caller) ==
    /\ stack' = <<Frame(caller)>> \o stack
    /\ UNCHANGED <<text, it, parsed>>

\* objectValues[key] takes a value.
Assign(obj, key, v) == (key :> v) @@ obj

\* parse returns p.  The caller steps back over what a string has read past its
\* end and over what a missing value has not read, and its loop goes on.
Return(f, p) ==
    LET v == Value(f.type, f.str, f.obj, f.arr)
        rest == Tail(stack)
        caller == Head(rest)
        resumed == IF f.caller = "member"
                   THEN [caller EXCEPT !.obj = Assign(@, caller.ss, v),
                                       !.ss = <<>>, !.objState = "NOSTATE"]
                   ELSE [caller EXCEPT !.arr = Append(@, v)]
        back == f.caller = "string" \/ (f.caller = "member" /\ v.type \notin {"OBJECT", "ARRAY"})
    IN /\ UNCHANGED text
       /\ IF rest = <<>>
          THEN stack' = <<>> /\ it' = p /\ parsed' = v
          ELSE /\ stack' = <<resumed>> \o Tail(rest)
               /\ it' = IF back THEN p ELSE p + 1
               /\ UNCHANGED parsed

\* case '\\': the next character is taken as it is, but an escaped control
\* character is lost.
ReadEscape ==
    /\ Parsing(Backslash)
    /\ LET c == text[it + 1]
       IN Continue(IF c = "n" THEN top ELSE Collected(top, c), it + 2)

\* case '"': a string begins or ends, or a key does.
ReadQuote ==
    /\ Parsing(Quote)
    /\ \/ top.type = "NOTYPE" /\ Continue([top EXCEPT !.type = "STRING"], it + 1)
       \/ top.type = "STRING" /\ Return([top EXCEPT !.str = top.ss], it + 1)
       \/ /\ top.type = "OBJECT" /\ top.objState = "NOSTATE"
          /\ Continue([top EXCEPT !.objState = "GETKEY"], it + 1)
       \/ /\ top.type = "OBJECT" /\ top.objState = "GETKEY"
          /\ Continue([top EXCEPT !.objState = "GOTKEY"], it + 1)
       \/ top.type = "OBJECT" /\ top.objState = "GOTKEY" /\ Fallthrough
       \/ top.type = "ARRAY" /\ Nested("string")

\* case '{' and case '[': an object or an array begins, in an array a nested one.
ReadOpen ==
    \E c \in {"{", "["} :
        /\ Parsing(c)
        /\ \/ /\ top.type = "NOTYPE"
              /\ Continue([top EXCEPT !.type = IF c = "{" THEN "OBJECT" ELSE "ARRAY"], it + 1)
           \/ top.type = "ARRAY" /\ Nested("item")
           \/ top.type \in {"STRING", "OBJECT"} /\ Fallthrough

\* case '}': the end of an object, and of an array that misses its own.
ReadCloseBrace ==
    /\ Parsing("}")
    /\ IF top.type = "ARRAY" \/ (top.type = "OBJECT" /\ top.objState = "NOSTATE")
       THEN Return(top, it)
       ELSE Fallthrough

\* case ']': the end of an array, and of an object that misses its own.
ReadCloseBracket ==
    /\ Parsing("]")
    /\ IF top.type = "ARRAY" \/ (top.type = "OBJECT" /\ top.objState # "GETKEY")
       THEN Return(top, it)
       ELSE Fallthrough

\* case ':': the value of a key follows.
ReadColon ==
    /\ Parsing(":")
    /\ IF top.type = "OBJECT" /\ top.objState = "GOTKEY" THEN Nested("member") ELSE Fallthrough

\* Mutant: the last character is never reached.
ReadOtherButLast ==
    /\ stack # <<>> /\ it < Len(text)
    /\ char \notin {Backslash, Quote, "{", "}", "[", "]", ":"}
    /\ Fallthrough

\* Any other character.
ReadOther ==
    /\ stack # <<>> /\ it <= Len(text)
    /\ char \notin {Backslash, Quote, "{", "}", "[", "]", ":"}
    /\ Fallthrough

\* Mutant: the pointer is left at the NUL.
ReadEndPast == Parsing("NUL") /\ Return(top, it)

\* The terminating NUL.  A string that was not closed stays empty.
ReadEnd == Parsing("NUL") /\ Return(top, it - 1)

JsonNext == ReadEscape \/ ReadQuote \/ ReadOpen \/ ReadCloseBrace \/ ReadCloseBracket
            \/ ReadColon \/ ReadOther \/ ReadEnd

=============================================================================
