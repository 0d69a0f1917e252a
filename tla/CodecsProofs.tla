---------------------------- MODULE CodecsProofs ----------------------------
(***************************************************************************)
(* Machine-checked proofs about the conversions, for texts, strings and     *)
(* messages of every length: parse stays in its text, deescape and          *)
(* url_decode give back what escape and url_encode were given, a frame is   *)
(* read as it was written, a command line as it is meant, and a well formed *)
(* request is taken apart into its parts.                                   *)
(***************************************************************************)
EXTENDS Codecs, SequenceTheorems, FiniteSetTheorems, TLAPS

---------------------------------------------------------------------------
(* parse stays in its text *)

Texts == Seq(STRING \ {"NUL"})
Types == {"NOTYPE", "STRING", "OBJECT", "ARRAY"}

\* The calls of parse in progress, with strings, members and elements from D.
Frames(D) == [type : Types, objState : {"NOSTATE", "GETKEY", "GOTKEY"}, ss : D, str : D,
              obj : D, arr : D, caller : {"none", "member", "item", "string"}]

\* An element that is an object or an array begins.
AtOpen == char \in {"{", "["}

\* The pointer can be advanced past the character it is at, and past the one after it
\* when that is a backslash; it stepped back only over characters there are.  What the
\* last `p + 1` of a return needs: a call for an element that is not a string starts at
\* the brace or bracket that gives the element its type, and only the outermost call has
\* no caller that steps back over a string.
ParserInv ==
    /\ text \in Texts /\ (text # <<>> => text[Len(text)] # Backslash)
    /\ it \in 0 .. Len(text) + 1 /\ (stack # <<>> => it > 0)
    /\ \E D : stack \in Seq(Frames(D))
    /\ Len(stack) > 1 => text # <<>>
    /\ \A k \in 1 .. Len(stack) : stack[k].caller = "item" =>
         \/ stack[k].type \in {"OBJECT", "ARRAY"}
         \/ k = 1 /\ stack[k].type = "NOTYPE" /\ AtOpen
    /\ \A k \in 1 .. Len(stack) - 1 : stack[k].caller # "none"
    /\ parsed # NoValue => parsed.type \in Types

\* The end of the loop body keeps a frame a frame.
LEMMA CollectedFrame ==
    ASSUME NEW D, NEW f \in Frames(D), NEW c
    PROVE  \E E : /\ Collected(f, c) \in Frames(D \cup E)
                  /\ Collected(f, c).type = f.type /\ Collected(f, c).caller = f.caller
<1>1. CASE Collected(f, c) = f
  <2>1. f \in Frames(D \cup {})
    BY DEF Frames
  <2> QED
    BY <1>1, <2>1
<1>2. CASE Collected(f, c) = [f EXCEPT !.ss = Append(@, c)]
  <2>1. [f EXCEPT !.ss = Append(@, c)] \in Frames(D \cup {Append(f.ss, c)})
    BY DEF Frames
  <2>2. /\ [f EXCEPT !.ss = Append(@, c)].type = f.type
        /\ [f EXCEPT !.ss = Append(@, c)].caller = f.caller
    BY DEF Frames
  <2> QED
    BY <1>2, <2>1, <2>2
<1> QED
  BY <1>1, <1>2 DEF Collected

\* The loop goes on with a frame of the same caller, and the next character.
LEMMA ContinueStep ==
    ASSUME ParserInv, stack # <<>>, NEW p \in 1 .. Len(text) + 1,
           NEW D, NEW f \in Frames(D), Continue(f, p),
           f.caller = top.caller,
           f.caller = "item" => f.type \in {"OBJECT", "ARRAY"}
    PROVE  ParserInv'
<1>1. PICK E : stack \in Seq(Frames(E))
  BY DEF ParserInv
<1> DEFINE A == D \cup E
<1>2. f \in Frames(A) /\ stack \in Seq(Frames(A))
  <2>1. Frames(D) \subseteq Frames(A) /\ Frames(E) \subseteq Frames(A)
    BY DEF Frames
  <2>2. stack \in Seq(Frames(A))
    BY <1>1, <2>1, SeqMonotonic
  <2> QED
    BY <2>1, <2>2
<1> HIDE DEF A
<1>3. /\ stack' = <<f>> \o Tail(stack) /\ it' = p /\ text' = text /\ parsed' = parsed
  BY DEF Continue
<1>4. /\ stack' \in Seq(Frames(A)) /\ Len(stack') = Len(stack) /\ stack'[1] = f
      /\ \A k \in 2 .. Len(stack) : stack'[k] = stack[k]
  <2>1. Tail(stack) \in Seq(Frames(A)) /\ Len(Tail(stack)) = Len(stack) - 1
        /\ \A k \in 1 .. Len(stack) - 1 : Tail(stack)[k] = stack[k + 1]
    BY <1>2
  <2> QED
    BY <1>2, <1>3, <2>1
<1>5. \A k \in 1 .. Len(stack') : stack'[k].caller = "item" => stack'[k].type \in {"OBJECT", "ARRAY"}
  <2> SUFFICES ASSUME NEW k \in 1 .. Len(stack'), stack'[k].caller = "item"
               PROVE  stack'[k].type \in {"OBJECT", "ARRAY"}
    OBVIOUS
  <2>1. CASE k = 1
    BY <2>1, <1>4
  <2>2. CASE k # 1
    <3>1. k \in 1 .. Len(stack) /\ k \in 2 .. Len(stack) /\ stack'[k] = stack[k]
      BY <1>2, <1>4, <2>2
    <3> QED
      BY <2>2, <3>1 DEF ParserInv
  <2> QED
    BY <2>1, <2>2
<1>6. stack' # <<>>
  <2>1. Len(stack) # 0
    BY <1>2
  <2> QED
    BY <1>4, <2>1
<1>7. it' \in 0 .. Len(text') + 1 /\ it' > 0
  <2>1. text \in Texts
    BY DEF ParserInv
  <2>2. Len(text) \in Nat
    BY <2>1 DEF Texts
  <2>3. Len(text') = Len(text)
    BY <1>3
  <2> QED
    BY <1>3, <2>2, <2>3
<1>8. Len(stack') > 1 => text' # <<>>
  BY <1>3, <1>4 DEF ParserInv
<1>9. /\ text' \in Texts /\ (text' # <<>> => text'[Len(text')] # Backslash)
      /\ parsed' # NoValue => parsed'.type \in Types
  BY <1>3 DEF ParserInv, Backslash, NoValue
<1>10. \E B : stack' \in Seq(Frames(B))
  BY <1>4
<1>11. \A k \in 1 .. Len(stack') - 1 : stack'[k].caller # "none"
  <2> SUFFICES ASSUME NEW k \in 1 .. Len(stack') - 1
               PROVE  stack'[k].caller # "none"
    OBVIOUS
  <2>1. k \in 1 .. Len(stack) - 1 /\ stack[1] = top
    BY <1>2, <1>4 DEF top
  <2>2. stack[k].caller # "none"
    BY <2>1 DEF ParserInv
  <2>3. CASE k = 1
    BY <2>1, <2>2, <2>3, <1>4
  <2>4. CASE k # 1
    BY <2>1, <2>2, <2>4, <1>2, <1>4
  <2> QED
    BY <2>3, <2>4
<1> QED
  BY <1>5, <1>7, <1>8, <1>9, <1>10, <1>11 DEF ParserInv

\* One more in front.
LEMMA Pushed ==
    ASSUME NEW S, NEW s \in Seq(S), NEW x \in S, NEW t, t = <<x>> \o s
    PROVE  /\ t \in Seq(S) /\ Len(t) = Len(s) + 1 /\ t[1] = x
           /\ \A k \in 2 .. Len(s) + 1 : t[k] = s[k - 1]
OBVIOUS

\* A nested call begins at the character its caller has seen.
LEMMA NestedStep ==
    ASSUME ParserInv, stack # <<>>, text # <<>>, top.type # "NOTYPE",
           NEW c \in {"member", "item", "string"}, Nested(c),
           c = "item" => AtOpen
    PROVE  ParserInv'
<1>1. PICK E : stack \in Seq(Frames(E))
  BY DEF ParserInv
<1> DEFINE A == E \cup {<<>>, EmptyObject}
<1>2. Frame(c) \in Frames(A) /\ stack \in Seq(Frames(A))
  <2>1. Frames(E) \subseteq Frames(A)
    BY DEF Frames
  <2>2. stack \in Seq(Frames(A))
    BY <1>1, <2>1, SeqMonotonic
  <2>3. Frame(c) \in Frames(A)
    BY DEF Frames, Frame, Types
  <2> QED
    BY <2>2, <2>3
<1> HIDE DEF A
<1>3. stack' = <<Frame(c)>> \o stack /\ it' = it /\ text' = text /\ parsed' = parsed
  BY DEF Nested
<1>4. /\ stack' \in Seq(Frames(A)) /\ Len(stack') = Len(stack) + 1 /\ stack'[1] = Frame(c)
      /\ \A k \in 2 .. Len(stack) + 1 : stack'[k] = stack[k - 1]
  BY <1>2, <1>3, Pushed
<1>5. Frame(c).caller = c /\ Frame(c).type = "NOTYPE" /\ AtOpen' = AtOpen
  BY <1>3 DEF Frame, AtOpen, char
<1>6. stack[1] = top /\ Len(stack) \in Nat /\ Len(stack') = Len(stack) + 1
  <2>1. Len(stack) \in Nat
    BY <1>1
  <2> QED
    BY <1>1, <1>4, <2>1 DEF top
<1>7. ASSUME NEW k \in 1 .. Len(stack'), k # 1
      PROVE  k - 1 \in 1 .. Len(stack) /\ stack'[k] = stack[k - 1]
  <2>1. k \in 2 .. Len(stack) + 1
    BY <1>6, <1>7
  <2> QED
    BY <1>4, <1>6, <2>1
<1>8. ASSUME NEW k \in 1 .. Len(stack'), stack'[k].caller = "item"
      PROVE  \/ stack'[k].type \in {"OBJECT", "ARRAY"}
             \/ k = 1 /\ stack'[k].type = "NOTYPE" /\ AtOpen'
  <2>1. CASE k = 1
    BY <2>1, <1>4, <1>5, <1>8
  <2>2. CASE k # 1
    <3>1. k - 1 \in 1 .. Len(stack) /\ stack'[k] = stack[k - 1]
      BY <1>7, <2>2
    <3>2. stack[k - 1].type \in {"OBJECT", "ARRAY"}
      BY <1>6, <1>8, <3>1 DEF ParserInv
    <3> QED
      BY <3>1, <3>2
  <2> QED
    BY <2>1, <2>2
<1>9. ASSUME NEW k \in 1 .. Len(stack') - 1
      PROVE  stack'[k].caller # "none"
  <2>1. CASE k = 1
    BY <2>1, <1>4, <1>5
  <2>2. CASE k # 1
    <3>1. k \in 1 .. Len(stack') /\ k - 1 \in 1 .. Len(stack) - 1
      BY <1>6, <2>2
    <3>2. stack'[k] = stack[k - 1]
      BY <1>7, <3>1, <2>2
    <3> QED
      BY <3>1, <3>2 DEF ParserInv
  <2> QED
    BY <2>1, <2>2
<1>10. /\ text' \in Texts /\ (text' # <<>> => text'[Len(text')] # Backslash)
       /\ parsed' # NoValue => parsed'.type \in Types
  BY <1>3 DEF ParserInv, Backslash, NoValue
<1>11. it' \in 0 .. Len(text') + 1 /\ it' > 0 /\ text' # <<>>
  BY <1>3 DEF ParserInv
<1>12. \E B : stack' \in Seq(Frames(B))
  BY <1>4
<1> QED
  BY <1>8, <1>9, <1>10, <1>11, <1>12 DEF ParserInv

\* A call returns, and what its caller's pointer then is stays in the text.
LEMMA ReturnStep ==
    ASSUME ParserInv, stack # <<>>,
           NEW D, NEW f \in Frames(D), f.caller = top.caller, f.type = top.type,
           NEW p \in 0 .. Len(text) + 1, Return(f, p), ~AtOpen,
           text # <<>> => p > 0 /\ (p <= Len(text) \/ f.type = "STRING")
    PROVE  ParserInv'
<1>1. PICK E : stack \in Seq(Frames(E))
  BY DEF ParserInv
<1> DEFINE v == Value(f.type, f.str, f.obj, f.arr)
           rest == Tail(stack)
           caller == Head(rest)
           resumed == IF f.caller = "member"
                      THEN [caller EXCEPT !.obj = Assign(@, caller.ss, v),
                                          !.ss = <<>>, !.objState = "NOSTATE"]
                      ELSE [caller EXCEPT !.arr = Append(@, v)]
           back == f.caller = "string" \/ (f.caller = "member" /\ v.type \notin {"OBJECT", "ARRAY"})
<1>2. v.type = f.type /\ f.type \in Types /\ f.caller \in {"none", "member", "item", "string"}
  BY DEF Value, Frames
<1>3. /\ text' = text
      /\ rest = <<>> => stack' = <<>> /\ it' = p /\ parsed' = v
      /\ rest # <<>> => /\ stack' = <<resumed>> \o Tail(rest)
                        /\ it' = (IF back THEN p ELSE p + 1)
                        /\ parsed' = parsed
  BY DEF Return
<1> HIDE DEF v
<1>4. /\ rest \in Seq(Frames(E)) /\ Len(stack) \in Nat /\ Len(rest) = Len(stack) - 1
      /\ \A k \in 1 .. Len(rest) : rest[k] = stack[k + 1]
      /\ stack[1] = top
  BY <1>1 DEF top
<1>5. text \in Texts /\ (text # <<>> => text[Len(text)] # Backslash) /\ Len(text) \in Nat
  BY DEF ParserInv, Texts
<1>6. text' \in Texts /\ (text' # <<>> => text'[Len(text')] # Backslash) /\ Len(text') = Len(text)
  BY <1>3, <1>5 DEF Backslash
<1>7. CASE rest = <<>>
  <2>1. stack' = <<>> /\ it' = p /\ parsed' = v
    BY <1>3, <1>7
  <2>2. stack' \in Seq(Frames(E)) /\ Len(stack') = 0
    BY <2>1
  <2>3. it' \in 0 .. Len(text') + 1
    BY <1>5, <1>6, <2>1
  <2>4. parsed' # NoValue => parsed'.type \in Types
    BY <1>2, <2>1
  <2> QED
    BY <1>6, <2>1, <2>2, <2>3, <2>4 DEF ParserInv
<1>8. CASE rest # <<>>
  <2>1. /\ stack' = <<resumed>> \o Tail(rest) /\ parsed' = parsed
        /\ it' = (IF back THEN p ELSE p + 1)
    BY <1>3, <1>8
  <2>2. /\ caller \in Frames(E) /\ caller = rest[1] /\ caller = stack[2] /\ Len(rest) > 0
        /\ Len(stack) > 1
    BY <1>4, <1>8
  <2> DEFINE B == E \cup {Assign(caller.obj, caller.ss, v), <<>>, Append(caller.arr, v)}
  <2>3. Frames(E) \subseteq Frames(B)
    BY DEF Frames
  <2>4. resumed \in Frames(B) /\ resumed.type = caller.type /\ resumed.caller = caller.caller
    <3>1. CASE f.caller = "member"
      BY <2>2, <3>1 DEF Frames
    <3>2. CASE f.caller # "member"
      BY <2>2, <3>2 DEF Frames
    <3> QED
      BY <3>1, <3>2
  <2> HIDE DEF B, resumed, back
  <2>5. /\ Tail(rest) \in Seq(Frames(B)) /\ Len(Tail(rest)) = Len(rest) - 1
        /\ \A k \in 1 .. Len(rest) - 1 : Tail(rest)[k] = rest[k + 1]
    <3>1. rest \in Seq(Frames(B))
      BY <1>4, <2>3, SeqMonotonic
    <3> HIDE DEF rest
    <3> QED
      BY <1>8, <3>1
  <2>6. /\ stack' \in Seq(Frames(B)) /\ Len(stack') = Len(Tail(rest)) + 1 /\ stack'[1] = resumed
        /\ \A k \in 2 .. Len(Tail(rest)) + 1 : stack'[k] = Tail(rest)[k - 1]
    BY <2>1, <2>4, <2>5, Pushed
  <2>7. Len(stack') = Len(stack) - 1 /\ Len(stack') > 0
    <3> HIDE DEF rest, caller
    <3>1. Len(rest) \in Nat /\ Len(rest) = Len(stack) - 1
      BY <1>4
    <3>2. Len(stack') = (Len(rest) - 1) + 1
      BY <2>5, <2>6
    <3> QED
      BY <1>4, <2>2, <3>1, <3>2
  <2>8. ASSUME NEW k \in 1 .. Len(stack')
        PROVE  /\ k + 1 \in 2 .. Len(stack)
               /\ stack'[k].type = stack[k + 1].type /\ stack'[k].caller = stack[k + 1].caller
    <3>1. k + 1 \in 2 .. Len(stack)
      BY <1>4, <2>7
    <3>2. CASE k = 1
      BY <2>2, <2>4, <2>6, <3>1, <3>2
    <3>3. CASE k # 1
      <4>1. k \in 2 .. Len(Tail(rest)) + 1 /\ k - 1 \in 1 .. Len(rest) - 1 /\ k \in 1 .. Len(rest)
        BY <1>4, <2>5, <2>7, <3>3
      <4>2. stack'[k] = Tail(rest)[k - 1] /\ rest[k] = stack[k + 1]
        BY <1>4, <2>6, <4>1
      <4>3. Tail(rest)[k - 1] = rest[k]
        BY <2>5, <4>1
      <4> QED
        BY <3>1, <4>2, <4>3
    <3> QED
      BY <3>2, <3>3
  <2>9. f.caller # "none" /\ (f.caller = "item" => f.type \in {"OBJECT", "ARRAY"})
    <3>1. 1 \in 1 .. Len(stack) /\ 1 \in 1 .. Len(stack) - 1
      BY <1>4, <2>2
    <3> QED
      BY <1>4, <3>1 DEF ParserInv
  <2>10. it' \in 0 .. Len(text') + 1 /\ it' > 0 /\ text' # <<>>
    <3>1. text # <<>> /\ text' # <<>>
      BY <1>3, <2>2 DEF ParserInv
    <3>2. f.type = "STRING" => back
      BY <1>2, <2>9 DEF back
    <3>3. CASE back
      BY <1>5, <1>6, <2>1, <3>1, <3>3
    <3>4. CASE ~back
      BY <1>5, <1>6, <2>1, <3>1, <3>2, <3>4
    <3> QED
      BY <3>1, <3>3, <3>4
  <2>11. \A k \in 1 .. Len(stack') : stack'[k].caller = "item" => stack'[k].type \in {"OBJECT", "ARRAY"}
    <3> SUFFICES ASSUME NEW k \in 1 .. Len(stack'), stack'[k].caller = "item"
                 PROVE  stack'[k].type \in {"OBJECT", "ARRAY"}
      OBVIOUS
    <3>1. /\ k + 1 \in 1 .. Len(stack) /\ k + 1 # 1
          /\ stack[k + 1].caller = "item" /\ stack'[k].type = stack[k + 1].type
      BY <1>4, <2>8
    <3> QED
      BY <3>1 DEF ParserInv
  <2>12. \A k \in 1 .. Len(stack') - 1 : stack'[k].caller # "none"
    <3> SUFFICES ASSUME NEW k \in 1 .. Len(stack') - 1
                 PROVE  stack'[k].caller # "none"
      OBVIOUS
    <3>1. k \in 1 .. Len(stack') /\ k + 1 \in 1 .. Len(stack) - 1
      BY <1>4, <2>7
    <3> QED
      BY <2>8, <3>1 DEF ParserInv
  <2>13. parsed' # NoValue => parsed'.type \in Types
    BY <2>1 DEF ParserInv, NoValue
  <2>14. \E C : stack' \in Seq(Frames(C))
    BY <2>6
  <2> QED
    BY <1>6, <2>10, <2>11, <2>12, <2>13, <2>14 DEF ParserInv
<1> QED
  BY <1>7, <1>8

\* What a step finds: the innermost frame, and the character the pointer is at.
LEMMA TopFrame ==
    ASSUME ParserInv, stack # <<>>
    PROVE  /\ \E D : top \in Frames(D)
           /\ ~AtOpen \/ top.type # "NOTYPE" => (top.caller = "item" => top.type \in {"OBJECT", "ARRAY"})
<1>1. PICK D : stack \in Seq(Frames(D))
  BY DEF ParserInv
<1>2. top \in Frames(D) /\ top = stack[1] /\ 1 \in 1 .. Len(stack)
  BY <1>1 DEF top
<1> QED
  BY <1>2 DEF ParserInv

LEMMA AtCharacter ==
    ASSUME ParserInv, stack # <<>>
    PROVE  /\ Len(text) \in Nat /\ it \in 1 .. Len(text) + 1
           /\ it \in 0 .. Len(text) + 1 /\ it > 0
           /\ it <= Len(text) => it + 1 \in 1 .. Len(text) + 1
           /\ \A c : Parsing(c) /\ c # "NUL" => it <= Len(text) /\ text[it] = c /\ text # <<>>
           /\ Parsing("NUL") => it = Len(text) + 1
           /\ \A c : Parsing(c) /\ c \notin {"{", "["} => ~AtOpen
<1>1. text \in Texts /\ it \in 0 .. Len(text) + 1 /\ it > 0
  BY DEF ParserInv
<1>2. Len(text) \in Nat /\ \A i \in 1 .. Len(text) : text[i] # "NUL"
  BY <1>1 DEF Texts
<1>3. it \in 1 .. Len(text) + 1 /\ (it <= Len(text) => it + 1 \in 1 .. Len(text) + 1)
  BY <1>1, <1>2
<1>4. ASSUME NEW c, Parsing(c), c # "NUL" PROVE it <= Len(text) /\ text[it] = c /\ text # <<>>
  <2>1. it <= Len(text) /\ text[it] = c
    BY <1>3, <1>4 DEF Parsing, char
  <2> QED
    BY <1>1, <1>3, <2>1
<1>5. Parsing("NUL") => it = Len(text) + 1
  BY <1>2, <1>3 DEF Parsing, char
<1>6. \A c : Parsing(c) /\ c \notin {"{", "["} => ~AtOpen
  BY DEF Parsing, char, AtOpen
<1> QED
  BY <1>1, <1>2, <1>3, <1>4, <1>5, <1>6

LEMMA FallthroughStep ==
    ASSUME ParserInv, stack # <<>>, it <= Len(text), ~AtOpen \/ top.type # "NOTYPE", Fallthrough
    PROVE  ParserInv'
<1>1. PICK D : top \in Frames(D)
  BY TopFrame
<1> DEFINE c == char
           f == Collected(top, c)
<1>2. PICK E : f \in Frames(D \cup E) /\ f.type = top.type /\ f.caller = top.caller
  BY <1>1, CollectedFrame
<1>3. it + 1 \in 1 .. Len(text) + 1
  BY AtCharacter
<1>4. Continue(f, it + 1)
  BY DEF Fallthrough
<1>5. f.caller = "item" => f.type \in {"OBJECT", "ARRAY"}
  BY <1>2, TopFrame
<1> HIDE DEF f
<1> QED
  BY <1>2, <1>3, <1>4, <1>5, ContinueStep

LEMMA ReadEscapeStep ==
    ASSUME ParserInv, ReadEscape
    PROVE  ParserInv'
<1>1. stack # <<>> /\ Parsing(Backslash)
  BY DEF ReadEscape, Parsing
<1>2. PICK D : top \in Frames(D)
  BY <1>1, TopFrame
<1>3. it <= Len(text) /\ text[it] = Backslash /\ text # <<>> /\ ~AtOpen /\ Len(text) \in Nat
      /\ it \in 1 .. Len(text) + 1
  BY <1>1, AtCharacter DEF Backslash
<1>4. text[Len(text)] # Backslash
  BY <1>3 DEF ParserInv
<1>5. it + 2 \in 1 .. Len(text) + 1
  BY <1>3, <1>4
<1> DEFINE c == text[it + 1]
           f == IF c = "n" THEN top ELSE Collected(top, c)
<1>6. PICK E : f \in Frames(D \cup E) /\ f.type = top.type /\ f.caller = top.caller
  <2>1. top \in Frames(D \cup {})
    BY <1>2
  <2>2. \E E : /\ Collected(top, c) \in Frames(D \cup E)
               /\ Collected(top, c).type = top.type /\ Collected(top, c).caller = top.caller
    BY <1>2, CollectedFrame
  <2> QED
    BY <2>1, <2>2
<1>7. Continue(f, it + 2)
  BY DEF ReadEscape
<1>8. f.caller = "item" => f.type \in {"OBJECT", "ARRAY"}
  BY <1>1, <1>3, <1>6, TopFrame
<1> HIDE DEF f
<1> QED
  BY <1>1, <1>5, <1>6, <1>7, <1>8, ContinueStep

LEMMA ReadQuoteStep ==
    ASSUME ParserInv, ReadQuote
    PROVE  ParserInv'
<1>1. stack # <<>> /\ Parsing(Quote)
  BY DEF ReadQuote, Parsing
<1>2. PICK D : top \in Frames(D)
  BY <1>1, TopFrame
<1>3. it <= Len(text) /\ text # <<>> /\ ~AtOpen /\ Len(text) \in Nat /\ it \in 1 .. Len(text) + 1
      /\ it + 1 \in 1 .. Len(text) + 1
  BY <1>1, AtCharacter DEF Quote
<1>4. top.caller = "item" => top.type \in {"OBJECT", "ARRAY"}
  BY <1>1, <1>3, TopFrame
<1>5. CASE top.type = "NOTYPE" /\ Continue([top EXCEPT !.type = "STRING"], it + 1)
  <2> DEFINE f == [top EXCEPT !.type = "STRING"]
  <2>1. f \in Frames(D) /\ f.caller = top.caller
    BY <1>2 DEF Frames, Types
  <2>2. Continue(f, it + 1) /\ f.caller # "item"
    BY <1>4, <1>5, <2>1
  <2> HIDE DEF f
  <2> QED
    BY <1>1, <1>3, <2>1, <2>2, ContinueStep
<1>6. CASE top.type = "STRING" /\ Return([top EXCEPT !.str = top.ss], it + 1)
  <2> DEFINE f == [top EXCEPT !.str = top.ss]
  <2>1. f \in Frames(D) /\ f.caller = top.caller /\ f.type = top.type
    BY <1>2 DEF Frames
  <2>2. Return(f, it + 1) /\ f.type = "STRING"
    BY <1>6, <2>1
  <2>3. it + 1 \in 0 .. Len(text) + 1 /\ it + 1 > 0
    BY <1>3
  <2> HIDE DEF f
  <2> QED
    BY <1>1, <1>3, <2>1, <2>2, <2>3, ReturnStep
<1>7. ASSUME NEW s \in {"GETKEY", "GOTKEY"}, Continue([top EXCEPT !.objState = s], it + 1)
      PROVE  ParserInv'
  <2> DEFINE f == [top EXCEPT !.objState = s]
  <2>1. f \in Frames(D) /\ f.caller = top.caller /\ f.type = top.type
    BY <1>2 DEF Frames
  <2>2. Continue(f, it + 1)
    BY <1>7
  <2> HIDE DEF f
  <2> QED
    BY <1>1, <1>3, <1>4, <2>1, <2>2, ContinueStep
<1>8. CASE Fallthrough
  BY <1>1, <1>3, <1>8, FallthroughStep
<1>9. CASE top.type = "ARRAY" /\ Nested("string")
  BY <1>1, <1>3, <1>9, NestedStep
<1> QED
  BY <1>5, <1>6, <1>7, <1>8, <1>9 DEF ReadQuote

LEMMA ReadOpenStep ==
    ASSUME ParserInv, ReadOpen
    PROVE  ParserInv'
<1>1. PICK c \in {"{", "["} :
        /\ Parsing(c)
        /\ \/ /\ top.type = "NOTYPE"
              /\ Continue([top EXCEPT !.type = IF c = "{" THEN "OBJECT" ELSE "ARRAY"], it + 1)
           \/ top.type = "ARRAY" /\ Nested("item")
           \/ top.type \in {"STRING", "OBJECT"} /\ Fallthrough
  BY DEF ReadOpen
<1>2. stack # <<>> /\ AtOpen
  BY <1>1 DEF Parsing, AtOpen
<1>3. it <= Len(text) /\ text # <<>> /\ it + 1 \in 1 .. Len(text) + 1
  BY <1>1, <1>2, AtCharacter
<1>4. CASE top.type = "NOTYPE"
           /\ Continue([top EXCEPT !.type = IF c = "{" THEN "OBJECT" ELSE "ARRAY"], it + 1)
  <2> DEFINE f == [top EXCEPT !.type = IF c = "{" THEN "OBJECT" ELSE "ARRAY"]
  <2>1. PICK D : top \in Frames(D)
    BY <1>2, TopFrame
  <2>2. f \in Frames(D) /\ f.caller = top.caller /\ f.type \in {"OBJECT", "ARRAY"}
    BY <2>1 DEF Frames, Types
  <2>3. Continue(f, it + 1)
    BY <1>4
  <2> HIDE DEF f
  <2> QED
    BY <1>2, <1>3, <2>2, <2>3, ContinueStep
<1>5. CASE top.type = "ARRAY" /\ Nested("item")
  BY <1>2, <1>3, <1>5, NestedStep
<1>6. CASE top.type \in {"STRING", "OBJECT"} /\ Fallthrough
  BY <1>2, <1>3, <1>6, FallthroughStep
<1> QED
  BY <1>1, <1>4, <1>5, <1>6

LEMMA ReadCloseStep ==
    ASSUME ParserInv, ReadCloseBrace \/ ReadCloseBracket
    PROVE  ParserInv'
<1>1. PICK c \in {"}", "]"} : Parsing(c)
  BY DEF ReadCloseBrace, ReadCloseBracket
<1>2. stack # <<>>
  BY <1>1 DEF Parsing
<1>3. it <= Len(text) /\ text # <<>> /\ ~AtOpen /\ Len(text) \in Nat /\ it \in 1 .. Len(text) + 1
  BY <1>1, <1>2, AtCharacter
<1>4. CASE Return(top, it)
  <2>1. PICK D : top \in Frames(D)
    BY <1>2, TopFrame
  <2>2. it \in 0 .. Len(text) + 1 /\ it > 0
    BY <1>2, AtCharacter
  <2> DEFINE f == top
  <2>3. f \in Frames(D) /\ f.caller = top.caller /\ f.type = top.type /\ Return(f, it)
    BY <1>4, <2>1
  <2> QED
    BY <1>2, <1>3, <2>2, <2>3, ReturnStep
<1>5. CASE Fallthrough
  BY <1>2, <1>3, <1>5, FallthroughStep
<1> QED
  BY <1>4, <1>5 DEF ReadCloseBrace, ReadCloseBracket

LEMMA ReadColonStep ==
    ASSUME ParserInv, ReadColon
    PROVE  ParserInv'
<1>1. stack # <<>> /\ Parsing(":")
  BY DEF ReadColon, Parsing
<1>2. it <= Len(text) /\ text # <<>> /\ ~AtOpen
  BY <1>1, AtCharacter
<1>3. CASE top.type = "OBJECT" /\ Nested("member")
  BY <1>1, <1>2, <1>3, NestedStep
<1>4. CASE Fallthrough
  BY <1>1, <1>2, <1>4, FallthroughStep
<1> QED
  BY <1>3, <1>4 DEF ReadColon

LEMMA ReadOtherStep ==
    ASSUME ParserInv, ReadOther
    PROVE  ParserInv'
<1>1. stack # <<>> /\ it <= Len(text) /\ Fallthrough /\ ~AtOpen
  BY DEF ReadOther, AtOpen
<1> QED
  BY <1>1, FallthroughStep

LEMMA ReadEndStep ==
    ASSUME ParserInv, ReadEnd
    PROVE  ParserInv'
<1>1. stack # <<>> /\ Parsing("NUL") /\ Return(top, it - 1)
  BY DEF ReadEnd, Parsing
<1>2. ~AtOpen /\ Len(text) \in Nat /\ it = Len(text) + 1 /\ text \in Texts
  BY <1>1, AtCharacter DEF ParserInv
<1>3. it - 1 \in 0 .. Len(text) + 1 /\ it - 1 <= Len(text)
      /\ (text # <<>> => it - 1 > 0)
  BY <1>2 DEF Texts
<1>4. PICK D : top \in Frames(D)
  BY <1>1, TopFrame
<1> DEFINE f == top
           p == it - 1
<1>5. f \in Frames(D) /\ f.caller = top.caller /\ f.type = top.type /\ Return(f, p)
  BY <1>1, <1>4
<1> HIDE DEF f, p
<1> QED
  BY <1>1, <1>2, <1>3, <1>5, ReturnStep DEF p

LEMMA ParserNext == ParserInv /\ [Next]_codecsVars => ParserInv'
<1> SUFFICES ASSUME ParserInv, [Next]_codecsVars PROVE ParserInv'
  OBVIOUS
<1>1. CASE UNCHANGED codecsVars
  <2>1. /\ text' = text /\ it' = it /\ stack' = stack /\ parsed' = parsed /\ AtOpen' = AtOpen
    BY <1>1 DEF codecsVars, jsonVars, AtOpen, char
  <2> QED
    BY <2>1 DEF ParserInv, Frames, Types, Texts, Backslash, NoValue
<1>2. CASE Next
  BY <1>2, ReadEscapeStep, ReadQuoteStep, ReadOpenStep, ReadCloseStep, ReadColonStep,
     ReadOtherStep, ReadEndStep DEF Next, JsonNext
<1> QED
  BY <1>1, <1>2

\* A text that stringify wrote is left to the runs: what it is, is a recursion over values.
TextInv ==
    /\ sample \in JsonSamples \cup OtherSamples
    /\ sample.kind # "json" => ParserInv

LEMMA ParserInit == Init => TextInv
<1> SUFFICES ASSUME Init PROVE TextInv
  OBVIOUS
<1>1. sample \in JsonSamples \cup OtherSamples
  BY DEF Init
<1>2. CASE sample \in JsonSamples /\ sample.kind # "json"
  <2>1. sample.value \in JsonTexts /\ JsonCall(sample.value)
    BY <1>2 DEF Init, JsonSamples, OtherSamples
  <2>2. text \in JsonTexts /\ it = 1 /\ stack = <<Frame("none")>> /\ parsed = NoValue
    BY <2>1 DEF JsonCall
  <2>3. text \in Texts /\ (text # <<>> => text[Len(text)] # Backslash)
    BY <2>2, CodecsAssumption DEF Texts
  <2>4. Len(text) \in Nat
    BY <2>3 DEF Texts
  <2>5. Frame("none") \in Frames({<<>>, EmptyObject}) /\ Frame("none").caller = "none"
    BY DEF Frames, Frame, Types
  <2>6. /\ stack \in Seq(Frames({<<>>, EmptyObject})) /\ Len(stack) = 1
        /\ stack[1].caller = "none"
    BY <2>2, <2>5
  <2>7. \E D : stack \in Seq(Frames(D))
    BY <2>6
  <2>8. it \in 0 .. Len(text) + 1 /\ it > 0
    BY <2>2, <2>4
  <2>9. \A k \in 1 .. Len(stack) : stack[k].caller # "item"
    BY <2>6
  <2> QED
    BY <1>1, <2>2, <2>3, <2>6, <2>7, <2>8, <2>9 DEF ParserInv, TextInv
<1>3. CASE sample \in OtherSamples
  <2>1. sample.kind \notin {"json", "text"}
    BY <1>3 DEF OtherSamples
  <2>2. text = <<>> /\ it = 1 /\ stack = <<>> /\ parsed = NoValue
    BY <2>1 DEF Init, JsonSamples
  <2>3. text \in Texts /\ Len(text) = 0 /\ Len(stack) = 0 /\ stack \in Seq(Frames({}))
    BY <2>2 DEF Texts
  <2>4. \E D : stack \in Seq(Frames(D))
    BY <2>3
  <2> QED
    BY <1>1, <2>2, <2>3, <2>4 DEF ParserInv, TextInv
<1> QED
  BY <1>1, <1>2, <1>3 DEF TextInv

\* Whatever text parse is called with, well formed or not, the pointer that its nested
\* calls pass up and down never leaves it.
THEOREM ParserStaysInText == Spec => [](sample.kind # "json" => TypeOK)
<1>1. TextInv /\ [Next]_codecsVars => TextInv'
  <2> SUFFICES ASSUME TextInv, [Next]_codecsVars PROVE TextInv'
    OBVIOUS
  <2>1. sample' = sample
    BY DEF Next, codecsVars
  <2> QED
    BY <2>1, ParserNext DEF TextInv, JsonSamples, OtherSamples
<1>2. TextInv => (sample.kind # "json" => TypeOK)
  BY DEF TextInv, ParserInv, TypeOK, Types
<1> QED
  BY <1>1, <1>2, ParserInit, PTL DEF Spec
-----------------------------------------------------------------------------
(* Frames of WebSocket messages *)

\* A sequence given by its members is as long as their numbers say.
LEMMA LengthOf ==
    ASSUME NEW n \in Nat, NEW S, NEW s \in [1 .. n -> S]
    PROVE  s \in Seq(S) /\ Len(s) = n
OBVIOUS

LEMMA MessageLength ==
    ASSUME NEW n \in Nat
    PROVE  Len(Message(n)) = n /\ Message(n) \in Seq(Nat \X Nat)
<1>1. Message(n) \in [1 .. n -> Nat \X Nat]
  BY DEF Message, Plain
<1> QED
  BY <1>1, LengthOf

\* A length that has two bytes is what they make together.
LEMMA TwoBytes ==
    ASSUME NEW n \in Nat, n <= 65535
    PROVE  256 * ((n \div 256) % 256) + (n % 256) = n
<1>1. n \div 256 \in 0 .. 255
  OBVIOUS
<1>2. (n \div 256) % 256 = n \div 256
  BY <1>1
<1>3. 256 * (n \div 256) + (n % 256) = n
  OBVIOUS
<1> QED
  BY <1>2, <1>3

\* A browser reads what the server has framed.
LEMMA ServerFrame ==
    ASSUME NEW n \in Nat, n <= 65535
    PROVE  BrowserReads(CreateFrame(Message(n))) = Message(n)
<1> DEFINE m == Message(n)
           frame == CreateFrame(m)
<1>1. Len(m) = n
  BY MessageLength
<1> HIDE DEF m
<1>2. frame.header = <<129>> \o FrameSize(n) /\ frame.payload = m
  BY <1>1 DEF CreateFrame
<1>3. CASE n <= 125
  <2>1. FrameSize(n) = <<n>>
    BY <1>3 DEF FrameSize
  <2>2. frame.header[2] = n
    BY <1>2, <2>1
  <2> HIDE DEF frame
  <2>3. frame.header[2] # 126 /\ frame.header[2] < 126 /\ Len(frame.payload) = frame.header[2]
        /\ frame.payload = m
    <3>1. n # 126 /\ n < 126
      BY <1>3
    <3>2. frame.payload = m
      BY <1>2
    <3> QED
      BY <1>1, <2>2, <3>1, <3>2
  <2>4. BrowserReads(frame) = m
    BY <2>3 DEF BrowserReads
  <2> QED
    BY <2>4 DEF frame, m
<1>4. CASE n > 125
  <2>1. FrameSize(n) = <<126, (n \div 256) % 256, n % 256>>
    BY <1>4 DEF FrameSize
  <2> DEFINE high == (n \div 256) % 256
             low == n % 256
  <2>2. 256 * high + low = n
    BY TwoBytes
  <2> HIDE DEF high, low
  <2>3. FrameSize(n) = <<126, high, low>>
    BY <2>1 DEF high, low
  <2>4. /\ frame.header[2] = 126 /\ Len(frame.header) = 4
        /\ frame.header[3] = high /\ frame.header[4] = low
    BY <1>2, <2>3
  <2> HIDE DEF frame
  <2>5. BrowserReads(frame) = m
    BY <1>1, <1>2, <2>2, <2>4 DEF BrowserReads
  <2> QED
    BY <2>5 DEF frame, m
<1> QED
  BY <1>3, <1>4

\* The server reads, without its mask, what a browser has framed.
LEMMA BrowserFrame ==
    ASSUME NEW n \in Nat, n <= 255
    PROVE  ParseFrame(ClientFrame(Message(n))) = Message(n)
<1> DEFINE m == Message(n)
           masked == [i \in 1 .. n |-> Xor(m[i], (i - 1) % 4)]
           size == IF n <= 125 THEN <<128 + n>> ELSE <<128 + 126, n \div 256, n % 256>>
           frame == ClientFrame(m)
<1>1. Len(m) = n
  BY MessageLength
<1>2. frame.header = <<129>> \o size /\ frame.mask = TRUE /\ frame.payload = masked
  BY <1>1 DEF ClientFrame
<1>3. ASSUME NEW i \in 1 .. n
      PROVE  masked[i] = <<i, (i - 1) % 4>> /\ Xor(masked[i], (i - 1) % 4) = m[i]
  <2> DEFINE k == (i - 1) % 4
  <2>1. k \in 0 .. 3
    OBVIOUS
  <2>2. m[i] = <<i, Plain>> /\ masked[i] = Xor(m[i], k)
    BY DEF Message
  <2> HIDE DEF k, m, masked
  <2>3. Xor(<<i, Plain>>, k) = <<i, k>> /\ Xor(<<i, k>>, k) = <<i, Plain>>
    BY <2>1 DEF Xor, Plain
  <2> QED
    BY <2>2, <2>3 DEF k
<1>4. Len(masked) = n
  <2>1. masked \in [1 .. n -> Nat \X Nat]
    BY <1>3
  <2> HIDE DEF masked
  <2> QED
    BY <2>1, LengthOf
<1> DEFINE len == frame.header[2] % 128
           declared == CASE len = 126 -> frame.header[3] + 256 * frame.header[4]
                         [] len = 127 -> frame.header[3] + 256 * frame.header[4]
                         [] OTHER -> len
<1>5. declared \in Nat /\ declared >= n
  <2>1. CASE n <= 125
    <3>1. frame.header[2] = 128 + n
      BY <1>2, <2>1
    <3> HIDE DEF frame
    <3>2. len = n
      BY <3>1, <2>1
    <3> QED
      BY <2>1, <3>2
  <2>2. CASE n > 125
    <3>1. size = <<254, 0, n>>
      BY <2>2
    <3>2. frame.header[2] = 254 /\ frame.header[3] = 0 /\ frame.header[4] = n
      BY <1>2, <3>1
    <3> HIDE DEF frame, size
    <3>3. len = 126
      BY <3>2
    <3> QED
      BY <3>2, <3>3
  <2> QED
    BY <2>1, <2>2
<1>6. ParseFrame(frame) = [i \in 1 .. n |-> Xor(masked[i], (i - 1) % 4)]
  <2> DEFINE available == Len(frame.payload)
             taken == IF declared < available THEN declared ELSE available
  <2>1. ParseFrame(frame) = [i \in 1 .. taken |-> IF frame.mask THEN Xor(frame.payload[i], (i - 1) % 4)
                                                  ELSE frame.payload[i]]
    BY ONLY DEF ParseFrame
  <2>2. available = n
    BY <1>2, <1>4
  <2>3. taken = n
    <3> HIDE DEF declared, available
    <3> QED
      BY <1>5, <2>2
  <2> HIDE DEF frame, masked, taken
  <2> QED
    BY <1>2, <2>1, <2>3
<1>7. m = [i \in 1 .. n |-> m[i]]
  BY DEF Message
<1> HIDE DEF frame, masked, m
<1> QED
  BY <1>3, <1>6, <1>7 DEF frame, m

SampleInv == sample \in JsonSamples \cup OtherSamples

LEMMA SampleKept ==
    /\ Init => SampleInv
    /\ SampleInv /\ [Next]_codecsVars => SampleInv'
BY DEF Init, Next, codecsVars, SampleInv, JsonSamples, OtherSamples

\* Two bytes carry the length of every message below 64 KiB in the one direction, and a
\* length read in the wrong byte order does no harm below 256 in the other.
THEOREM FramesCorrect == Spec => []FramesRead
<1>1. SampleInv => FramesRead
  <2> SUFFICES ASSUME SampleInv, sample.kind = "frame" PROVE FramesRead
    BY DEF FramesRead
  <2>1. sample.value \in Nat
    BY CodecsAssumption DEF SampleInv, JsonSamples, OtherSamples
  <2> QED
    BY <2>1, ServerFrame, BrowserFrame DEF FramesRead
<1> QED
  BY <1>1, SampleKept, PTL DEF Spec
-----------------------------------------------------------------------------
(* What is computed element by element *)

\* A set of numbers that has the predecessor of each of its members is empty.
LEMMA Descent ==
    ASSUME NEW Q \in SUBSET Nat, \A n \in Q : n # 0 /\ n - 1 \in Q
    PROVE  Q = {}
<1> SUFFICES ASSUME NEW m \in Q PROVE FALSE
  OBVIOUS
<1> DEFINE S == Q \cap (0 .. m)
           f == [x \in S |-> x - 1]
<1>1. IsFiniteSet(S) /\ m \in S
  <2>1. IsFiniteSet(0 .. m)
    BY FS_Interval
  <2> QED
    BY <2>1, FS_Subset
<1>2. /\ IsFiniteSet(S \ {m}) /\ Cardinality(S) \in Nat
      /\ Cardinality(S \ {m}) = Cardinality(S) - 1
  BY <1>1, FS_RemoveElement, FS_CardinalityType
<1>3. f \in Injection(S, S \ {m})
  <2>1. \A x \in S : x - 1 \in S \ {m}
    OBVIOUS
  <2>2. f \in [S -> S \ {m}] /\ \A x, y \in S : f[x] = f[y] => x = y
    BY <2>1
  <2> QED
    BY <2>2 DEF Injection, IsInjective
<1>4. Cardinality(S) <= Cardinality(S \ {m})
  <2> HIDE DEF f, S
  <2> QED
    BY <1>1, <1>2, <1>3, FS_Injection
<1> QED
  BY <1>2, <1>4

Steps(N, R) == [1 .. N -> [R -> R]]
Results(f, N, R, base, step) ==
    f \in [0 .. N -> R] /\ f[0] = base /\ \A i \in 1 .. N : f[i] = step[i][f[i - 1]]

\* A computation of N steps has a result after each of them.
LEMMA Recursion ==
    ASSUME NEW N \in Nat, NEW R, NEW base \in R, NEW step \in Steps(N, R)
    PROVE  \E f : Results(f, N, R, base, step)
<1> USE DEF Steps
<1> DEFINE Run(f, n) == f[0] = base /\ \A i \in 1 .. n : f[i] = step[i][f[i - 1]]
           Q == {n \in 0 .. N : ~ \E f \in [0 .. n -> R] : Run(f, n)}
<1>1. Q \in SUBSET Nat
  OBVIOUS
<1>2. ASSUME NEW n \in Q PROVE n # 0 /\ n - 1 \in Q
  <2>1. CASE n = 0
    <3> DEFINE f == [i \in 0 .. 0 |-> base]
    <3>1. f \in [0 .. n -> R] /\ Run(f, n)
      BY <2>1
    <3> QED
      BY <3>1
  <2>2. CASE n # 0
    <3>1. n - 1 \in 0 .. N /\ n \in 1 .. N /\ n \in Nat
      BY <2>2
    <3> SUFFICES ASSUME NEW f \in [0 .. n - 1 -> R], Run(f, n - 1) PROVE FALSE
      BY <2>2, <3>1
    <3> DEFINE g == [i \in 0 .. n |-> IF i = n THEN step[n][f[n - 1]] ELSE f[i]]
    <3>2. g \in [0 .. n -> R]
      <4>1. f[n - 1] \in R /\ step[n] \in [R -> R]
        BY <3>1
      <4>2. step[n][f[n - 1]] \in R
        BY <4>1
      <4> QED
        BY <4>2, <3>1
    <3>3. g[0] = base
      BY <2>2, <3>1
    <3>4. ASSUME NEW i \in 1 .. n PROVE g[i] = step[i][g[i - 1]]
      <4>1. CASE i = n
        <5>1. g[n] = step[n][f[n - 1]] /\ g[n - 1] = f[n - 1]
          BY <3>1
        <5> QED
          BY <4>1, <5>1
      <4>2. CASE i # n
        <5>1. i \in 1 .. n - 1 /\ i \in 0 .. n /\ i - 1 \in 0 .. n /\ i - 1 # n
          BY <3>1, <4>2
        <5>2. g[i] = f[i] /\ g[i - 1] = f[i - 1]
          BY <4>2, <5>1
        <5> QED
          BY <5>1, <5>2
      <4> QED
        BY <4>1, <4>2
    <3> HIDE DEF g
    <3> QED
      BY <3>2, <3>3, <3>4
  <2> QED
    BY <2>1, <2>2
<1>3. Q = {}
  <2> HIDE DEF Q
  <2> QED
    BY <1>1, <1>2, Descent
<1>4. N \notin Q /\ N \in 0 .. N
  <2> HIDE DEF Q
  <2> QED
    BY <1>3
<1>5. PICK f \in [0 .. N -> R] : Run(f, N)
  BY <1>4
<1> QED
  BY <1>5 DEF Results

\* The parts FlattenSeq puts together, one after the other.
Parts(f, seqs) ==
    /\ f[0] = <<>>
    /\ \A i \in 1 .. Len(seqs) : f[i] = f[i - 1] \o seqs[i]

LEMMA FlattenRuns ==
    ASSUME NEW S, NEW seqs \in Seq(Seq(S))
    PROVE  \E f \in [0 .. Len(seqs) -> Seq(S)] : Parts(f, seqs) /\ FlattenSeq(seqs) = f[Len(seqs)]
<1> DEFINE n == Len(seqs)
<1>1. CASE n = 0
  <2> DEFINE f == [i \in 0 .. 0 |-> <<>>]
  <2>1. f \in [0 .. n -> Seq(S)] /\ Parts(f, seqs)
    BY <1>1 DEF Parts
  <2>2. FlattenSeq(seqs) = <<>> /\ f[n] = <<>>
    BY <1>1 DEF FlattenSeq
  <2> HIDE DEF f
  <2> QED
    BY <2>1, <2>2
<1>2. CASE n # 0
  <2> DEFINE R == Seq(S)
             none == <<>>
             step == [i \in 1 .. n |-> [r \in R |-> r \o seqs[i]]]
  <2>1. n \in Nat /\ none \in R /\ step \in Steps(n, R)
    BY DEF Steps
  <2>2. PICK f : Results(f, n, R, none, step)
    <3> HIDE DEF R, step, n, none
    <3> QED
      BY <2>1, Recursion
  <2>3. f \in [0 .. n -> Seq(S)] /\ f[0] = <<>> /\ \A i \in 1 .. n : f[i] = f[i - 1] \o seqs[i]
    <3>1. f \in [0 .. n -> R] /\ f[0] = none /\ \A i \in 1 .. n : f[i] = step[i][f[i - 1]]
      <4> HIDE DEF R, step, n, none
      <4> QED
        BY <2>2 DEF Results
    <3>2. ASSUME NEW i \in 1 .. n PROVE f[i] = f[i - 1] \o seqs[i]
      <4> HIDE DEF n, R
      <4>1. i - 1 \in 0 .. n
        BY <2>1
      <4>2. f[i - 1] \in R
        BY <3>1, <4>1
      <4> QED
        BY <3>1, <4>2
    <3> QED
      BY <3>1, <3>2
  <2> DEFINE Eq(h) == h = [i \in 1 .. Len(seqs) |-> IF i = 1 THEN seqs[i] ELSE h[i - 1] \o seqs[i]]
             h == CHOOSE e : Eq(e)
             f1 == [i \in 1 .. Len(seqs) |-> f[i]]
  <2>4. ASSUME NEW i \in 1 .. Len(seqs)
        PROVE  f[i] = IF i = 1 THEN seqs[i] ELSE f1[i - 1] \o seqs[i]
    <3>1. CASE i = 1
      <4>1. seqs[1] \in Seq(S)
        BY <3>1
      <4>2. f[1] = f[0] \o seqs[1] /\ f[0] = <<>>
        <5>1. 1 \in 1 .. n
          BY <3>1
        <5>2. f[1] = f[1 - 1] \o seqs[1]
          BY <2>3, <5>1
        <5>3. 1 - 1 = 0 /\ f[0] = <<>>
          BY <2>3
        <5> HIDE DEF n
        <5> QED
          BY <5>2, <5>3
      <4>3. <<>> \o seqs[1] = seqs[1]
        BY <4>1
      <4> QED
        BY <3>1, <4>2, <4>3
    <3>2. CASE i # 1
      <4>1. i - 1 \in 1 .. Len(seqs)
        BY <3>2
      <4> QED
        BY <2>3, <3>2, <4>1
    <3> QED
      BY <3>1, <3>2
  <2>5. Eq(f1)
    BY <2>4
  <2>6. Eq(h)
    <3> HIDE DEF Eq, f1
    <3> QED
      BY <2>5
  <2>7. FlattenSeq(seqs) = h[Len(seqs)]
    BY <1>2 DEF FlattenSeq
  <2> DEFINE Q == {i \in 1 .. Len(seqs) : h[i] # f[i]}
  <2>8. ASSUME NEW i \in Q PROVE i # 0 /\ i - 1 \in Q
    <3> HIDE DEF h
    <3>1. h[i] = IF i = 1 THEN seqs[i] ELSE h[i - 1] \o seqs[i]
      BY <2>6
    <3>2. f[i] = IF i = 1 THEN seqs[i] ELSE f[i - 1] \o seqs[i]
      <4>1. CASE i = 1
        BY <2>4, <4>1
      <4>2. CASE i # 1
        BY <2>3, <4>2
      <4> QED
        BY <4>1, <4>2
    <3> QED
      BY <3>1, <3>2
  <2>9. Q = {}
    <3>1. Q \in SUBSET Nat
      <4> HIDE DEF h
      <4> QED
        OBVIOUS
    <3> HIDE DEF Q
    <3> QED
      BY <2>8, <3>1, Descent
  <2>10. FlattenSeq(seqs) = f[Len(seqs)]
    <3> HIDE DEF h
    <3>1. Len(seqs) \in 1 .. Len(seqs)
      BY <1>2
    <3>2. h[Len(seqs)] = f[Len(seqs)]
      BY <2>9, <3>1
    <3> QED
      BY <2>7, <3>2
  <2> QED
    BY <2>3, <2>10 DEF Parts
<1> QED
  BY <1>1, <1>2

LEMMA Joined ==
    ASSUME NEW S, NEW a \in Seq(S), NEW b \in Seq(S), NEW c, c = a \o b
    PROVE  /\ c \in Seq(S) /\ Len(a) \in Nat /\ Len(b) \in Nat /\ Len(c) \in Nat
           /\ Len(c) = Len(a) + Len(b) /\ Len(a) <= Len(c)
           /\ \A k \in 1 .. Len(a) : k \in 1 .. Len(c) /\ c[k] = a[k]
           /\ \A k \in 1 .. Len(b) : Len(a) + k \in 1 .. Len(c) /\ c[Len(a) + k] = b[k]
OBVIOUS

Found(seqs, f, whole) ==
    \A i \in 1 .. Len(seqs) :
        /\ Len(f[i - 1]) \in Nat /\ Len(seqs[i]) \in Nat
        /\ Len(f[i]) = Len(f[i - 1]) + Len(seqs[i]) /\ Len(f[i]) <= Len(whole)
        /\ \A k \in 1 .. Len(seqs[i]) : whole[Len(f[i - 1]) + k] = seqs[i][k]

\* Each part is found in the whole, right after those before it.
LEMMA PartsFound ==
    ASSUME NEW S, NEW seqs \in Seq(Seq(S)), NEW f \in [0 .. Len(seqs) -> Seq(S)], Parts(f, seqs),
           NEW whole, whole = f[Len(seqs)]
    PROVE  Found(seqs, f, whole)
<1> DEFINE n == Len(seqs)
           Prefix(a) == Len(a) <= Len(whole) /\ \A k \in 1 .. Len(a) : whole[k] = a[k]
           Q == {j \in 0 .. n : ~Prefix(f[n - j])}
<1>1. n \in Nat /\ (\A i \in 1 .. n : seqs[i] \in Seq(S)) /\ whole \in Seq(S) /\ Len(whole) \in Nat
  OBVIOUS
<1>2. ASSUME NEW i \in 1 .. n PROVE f[i] = f[i - 1] \o seqs[i] /\ i - 1 \in 0 .. n
  <2>1. i - 1 \in 0 .. n
    BY <1>1
  <2> QED
    BY <2>1 DEF Parts
<1> HIDE DEF n
<1>3. ASSUME NEW i \in 1 .. n
      PROVE  /\ Len(f[i - 1]) \in Nat /\ Len(seqs[i]) \in Nat /\ Len(f[i]) \in Nat
             /\ Len(f[i]) = Len(f[i - 1]) + Len(seqs[i]) /\ Len(f[i - 1]) <= Len(f[i])
             /\ \A k \in 1 .. Len(f[i - 1]) : k \in 1 .. Len(f[i]) /\ f[i][k] = f[i - 1][k]
             /\ \A k \in 1 .. Len(seqs[i]) : /\ Len(f[i - 1]) + k \in 1 .. Len(f[i])
                                             /\ f[i][Len(f[i - 1]) + k] = seqs[i][k]
  <2> DEFINE a == f[i - 1]
             b == seqs[i]
             c == f[i]
  <2>1. a \in Seq(S) /\ b \in Seq(S) /\ c = a \o b
    BY <1>1, <1>2 DEF n
  <2> HIDE DEF a, b, c
  <2>2. /\ c \in Seq(S) /\ Len(a) \in Nat /\ Len(b) \in Nat /\ Len(c) \in Nat
        /\ Len(c) = Len(a) + Len(b) /\ Len(a) <= Len(c)
        /\ \A k \in 1 .. Len(a) : k \in 1 .. Len(c) /\ c[k] = a[k]
        /\ \A k \in 1 .. Len(b) : Len(a) + k \in 1 .. Len(c) /\ c[Len(a) + k] = b[k]
    BY <2>1, Joined
  <2> QED
    BY <2>2 DEF a, b, c
<1>4. ASSUME NEW j \in Q PROVE j # 0 /\ j - 1 \in Q
  <2>1. j \in 0 .. n /\ ~Prefix(f[n - j])
    OBVIOUS
  <2>2. j # 0
    <3>1. n - 0 = n /\ Prefix(whole)
      BY <1>1
    <3> QED
      BY <2>1, <3>1 DEF n
  <2> DEFINE i == n - (j - 1)
  <2>3. i \in 1 .. n /\ i - 1 = n - j /\ j - 1 \in 0 .. n
    BY <1>1, <2>1, <2>2
  <2>4. ASSUME Prefix(f[i]) PROVE FALSE
    <3> HIDE DEF i
    <3>1. Prefix(f[i - 1])
      <4>1. Len(f[i - 1]) <= Len(f[i]) /\ Len(f[i]) \in Nat /\ Len(f[i - 1]) \in Nat
        BY <1>3, <2>3
      <4>2. \A k \in 1 .. Len(f[i - 1]) : k \in 1 .. Len(f[i]) /\ f[i][k] = f[i - 1][k]
        BY <1>3, <2>3
      <4> QED
        BY <1>1, <1>3, <2>3, <2>4, <4>1, <4>2
    <3> QED
      BY <2>1, <2>3, <3>1
  <2> QED
    BY <2>2, <2>3, <2>4
<1>5. Q = {}
  <2>1. Q \in SUBSET Nat
    OBVIOUS
  <2> HIDE DEF Q
  <2> QED
    BY <1>4, <2>1, Descent
<1>6. ASSUME NEW i \in 1 .. n PROVE Prefix(f[i])
  <2> DEFINE j == n - i
  <2>1. j \in 0 .. n /\ n - j = i
    BY <1>1
  <2> HIDE DEF j
  <2>2. j \notin Q
    BY <1>5
  <2>3. Prefix(f[n - j])
    BY <2>1, <2>2
  <2> QED
    BY <2>1, <2>3
<1> SUFFICES ASSUME NEW i \in 1 .. n
             PROVE  /\ Len(f[i]) <= Len(whole)
                    /\ \A k \in 1 .. Len(seqs[i]) : whole[Len(f[i - 1]) + k] = seqs[i][k]
  BY <1>3 DEF n, Found
<1>7. ASSUME NEW k \in 1 .. Len(seqs[i]) PROVE whole[Len(f[i - 1]) + k] = seqs[i][k]
  <2>1. /\ f[i][Len(f[i - 1]) + k] = seqs[i][k]
        /\ Len(f[i - 1]) + k \in 1 .. Len(f[i])
    BY <1>3
  <2>2. Prefix(f[i])
    BY <1>6
  <2> QED
    BY <2>1, <2>2
<1> QED
  BY <1>6, <1>7

\* The largest number of a set is one of them.
LEMMA MaxFound ==
    ASSUME NEW k \in Nat, NEW T \in SUBSET (1 .. k), T # {}
    PROVE  Max(T) \in T /\ \A y \in T : Max(T) >= y
<1> DEFINE Q == {j \in 0 .. k : \A y \in T : y <= j}
<1>1. CASE \E x \in T : \A y \in T : x >= y
  BY <1>1 DEF Max
<1>2. CASE ~ \E x \in T : \A y \in T : x >= y
  <2>1. ASSUME NEW j \in Q PROVE j # 0 /\ j - 1 \in Q
    <3>1. j \notin T
      BY <1>2
    <3>2. \A y \in T : y <= j /\ y # j /\ y >= 1 /\ y \in Nat
      BY <3>1
    <3>3. j # 0
      <4>1. PICK y : y \in T
        OBVIOUS
      <4> QED
        BY <3>2, <4>1
    <3> QED
      BY <3>2, <3>3
  <2>2. Q \in SUBSET Nat /\ k \in Q
    OBVIOUS
  <2> HIDE DEF Q
  <2> QED
    BY <2>1, <2>2, Descent
<1> QED
  BY <1>1, <1>2

\* A fold takes the elements of a set of positions from the largest down.
SetFold(f, N, R, base, step) ==
    /\ f \in [SUBSET (1 .. N) -> R]
    /\ \A T \in SUBSET (1 .. N) :
         f[T] = IF T = {} THEN base ELSE step[Max(T)][f[T \ {Max(T)}]]

LEMMA FoldExists ==
    ASSUME NEW N \in Nat, NEW R, NEW base \in R, NEW step \in Steps(N, R)
    PROVE  \E f : SetFold(f, N, R, base, step)
<1> DEFINE Q == {n \in 0 .. N : ~ \E f : SetFold(f, n, R, base, step)}
<1>1. ASSUME NEW n \in Q PROVE n # 0 /\ n - 1 \in Q
  <2>1. CASE n = 0
    <3> DEFINE f == [T \in SUBSET (1 .. 0) |-> base]
    <3>1. f \in [SUBSET (1 .. 0) -> R] /\ \A T \in SUBSET (1 .. 0) : T = {} /\ f[T] = base
      OBVIOUS
    <3> HIDE DEF f
    <3>2. SetFold(f, 0, R, base, step)
      BY <3>1 DEF SetFold
    <3> QED
      BY <2>1, <3>2
  <2>2. CASE n # 0
    <3>1. n - 1 \in 0 .. N /\ n \in 1 .. N /\ n \in Nat /\ n - 1 \in Nat
      BY <2>2
    <3> SUFFICES ASSUME NEW f, SetFold(f, n - 1, R, base, step) PROVE FALSE
      BY <2>2, <3>1
    <3> DEFINE A == SUBSET (1 .. n)
               B == SUBSET (1 .. n - 1)
               g == [T \in A |-> IF n \in T THEN step[n][f[T \ {n}]] ELSE f[T]]
    <3>2. /\ f \in [B -> R]
          /\ \A T \in B : f[T] = IF T = {} THEN base ELSE step[Max(T)][f[T \ {Max(T)}]]
      BY DEF SetFold
    <3>3. step[n] \in [R -> R]
      BY <3>1 DEF Steps
    <3>4. \A T \in A : (n \in T => T \ {n} \in B) /\ (n \notin T => T \in B)
      BY <3>1
    <3> HIDE DEF B
    <3>5. g \in [A -> R]
      <4>1. ASSUME NEW T \in A
            PROVE  (IF n \in T THEN step[n][f[T \ {n}]] ELSE f[T]) \in R
        BY <3>2, <3>3, <3>4
      <4> QED
        BY <4>1
    <3>6. ASSUME NEW T \in A
          PROVE  g[T] = IF T = {} THEN base ELSE step[Max(T)][g[T \ {Max(T)}]]
      <4>1. CASE T = {}
        BY <3>2, <3>4, <4>1
      <4>2. CASE T # {} /\ n \in T
        <5>1. Max(T) \in T /\ Max(T) >= n /\ T \subseteq 1 .. n
          BY <3>1, <4>2, MaxFound
        <5>2. Max(T) = n
          <6>1. Max(T) \in 1 .. n
            BY <5>1
          <6> QED
            BY <3>1, <5>1, <6>1
        <5>3. T \ {n} \in A /\ n \notin T \ {n}
          OBVIOUS
        <5>4. g[T] = step[n][f[T \ {n}]] /\ g[T \ {n}] = f[T \ {n}]
          BY <4>2, <5>3
        <5> HIDE DEF g, A
        <5> QED
          BY <4>2, <5>2, <5>4
      <4>3. CASE T # {} /\ n \notin T
        <5>1. T \in B
          BY <3>4, <4>3
        <5>2. Max(T) \in T
          BY <3>1, <4>3, MaxFound
        <5>3. T \ {Max(T)} \in A /\ n \notin T \ {Max(T)}
          BY <4>3
        <5>4. g[T] = f[T] /\ g[T \ {Max(T)}] = f[T \ {Max(T)}]
          BY <4>3, <5>3
        <5> HIDE DEF g, A
        <5> QED
          BY <3>2, <4>3, <5>1, <5>4
      <4> QED
        BY <4>1, <4>2, <4>3
    <3> HIDE DEF g
    <3>7. SetFold(g, n, R, base, step)
      BY <3>5, <3>6 DEF SetFold
    <3> QED
      BY <3>7
  <2> QED
    BY <2>1, <2>2
<1>2. Q \in SUBSET Nat /\ N \in 0 .. N
  OBVIOUS
<1>3. Q = {}
  <2> HIDE DEF Q
  <2> QED
    BY <1>1, <1>2, Descent
<1> QED
  BY <1>2, <1>3

\* The largest of the first i positions.
LEMMA FirstPositions ==
    ASSUME NEW N \in Nat, NEW i \in 1 .. N
    PROVE  /\ 1 .. i \in SUBSET (1 .. N) /\ 1 .. i # {} /\ Max(1 .. i) = i
           /\ (1 .. i) \ {Max(1 .. i)} = 1 .. i - 1
<1>1. 1 .. i \in SUBSET (1 .. i) /\ 1 .. i # {} /\ i \in Nat /\ i \in 1 .. i
  OBVIOUS
<1>2. Max(1 .. i) \in 1 .. i /\ Max(1 .. i) >= i
  BY <1>1, MaxFound
<1>3. Max(1 .. i) = i
  BY <1>1, <1>2
<1> QED
  BY <1>1, <1>3

\* What a fold makes of the first i positions is what the computation has after i steps.
LEMMA FoldValue ==
    ASSUME NEW N \in Nat, NEW R, NEW base \in R, NEW step \in Steps(N, R), NEW iter,
           iter[1 .. 0] = base,
           \A i \in 1 .. N : iter[1 .. i - 1] \in R => iter[1 .. i] = step[i][iter[1 .. i - 1]]
    PROVE  \E g : Results(g, N, R, base, step) /\ iter[1 .. N] = g[N]
<1>1. PICK g : Results(g, N, R, base, step)
  BY Recursion
<1>2. g \in [0 .. N -> R] /\ g[0] = base /\ \A i \in 1 .. N : g[i] = step[i][g[i - 1]]
  BY <1>1 DEF Results
<1> DEFINE Q == {i \in 0 .. N : iter[1 .. i] # g[i]}
<1>3. ASSUME NEW i \in Q PROVE i # 0 /\ i - 1 \in Q
  <2>1. i # 0
    BY <1>2
  <2>2. i \in 1 .. N /\ i - 1 \in 0 .. N
    BY <2>1
  <2>3. iter[1 .. i - 1] = g[i - 1] => iter[1 .. i] = g[i]
    BY <1>2, <2>2
  <2> QED
    BY <2>1, <2>2, <2>3
<1>4. Q = {}
  <2>1. Q \in SUBSET Nat
    OBVIOUS
  <2> HIDE DEF Q
  <2> QED
    BY <1>3, <2>1, Descent
<1>5. N \in 0 .. N
  OBVIOUS
<1> QED
  BY <1>1, <1>4, <1>5
-----------------------------------------------------------------------------
(* deescape undoes escape *)

\* What deescape does with a character.
Chars == STRING \cup {Quote, Backslash, Newline, "n"}
Reading == [out : Seq(Chars), open : BOOLEAN]
Read(r, c) ==
    CASE r.open /\ c = "n" -> [out |-> Append(r.out, Newline), open |-> FALSE]
      [] r.open /\ c \in {Quote, Backslash} -> [out |-> Append(r.out, c), open |-> FALSE]
      [] r.open /\ c \notin {"n", Quote, Backslash} -> [out |-> r.out \o <<Backslash, c>>, open |-> FALSE]
      [] ~r.open /\ c = Backslash -> [r EXCEPT !.open = TRUE]
      [] OTHER -> [r EXCEPT !.out = Append(@, c)]

LEMMA ReadType ==
    ASSUME NEW r \in Reading, NEW c \in Chars
    PROVE  Read(r, c) \in Reading
<1>1. Newline \in Chars /\ Backslash \in Chars
  BY DEF Chars
<1>2. Append(r.out, Newline) \in Seq(Chars) /\ Append(r.out, c) \in Seq(Chars)
      /\ r.out \o <<Backslash, c>> \in Seq(Chars)
  <2> HIDE DEF Chars
  <2> QED
    BY <1>1 DEF Reading
<1> HIDE DEF Chars
<1> QED
  BY <1>2 DEF Read, Reading

\* The fold of deescape, one character after the other.
LEMMA DeescapeRuns ==
    ASSUME NEW t \in Seq(Chars)
    PROVE  \E g : /\ g \in [0 .. Len(t) -> Reading]
                  /\ g[0] = [out |-> <<>>, open |-> FALSE]
                  /\ \A i \in 1 .. Len(t) : g[i] = Read(g[i - 1], t[i])
                  /\ Deescape(t) = IF g[Len(t)].open THEN Append(g[Len(t)].out, Backslash)
                                   ELSE g[Len(t)].out
<1> DEFINE N == Len(t)
           base == [out |-> <<>>, open |-> FALSE]
           step == [i \in 1 .. N |-> [r \in Reading |-> Read(r, t[i])]]
           Eq(e) == e = [T \in SUBSET DOMAIN t |-> IF T = {} THEN base
                                                   ELSE LET x == Max(T) IN Read(e[T \ {x}], t[x])]
           iter == CHOOSE e : Eq(e)
<1>1. Deescape(t) = LET all == iter[DOMAIN t]
                    IN IF all.open THEN Append(all.out, Backslash) ELSE all.out
  BY DEF Deescape, FoldLeft, MapThenFoldSet, Read
<1>2. N \in Nat /\ base \in Reading /\ step \in Steps(N, Reading) /\ DOMAIN t = 1 .. N
  <2>1. base \in Reading
    BY DEF Reading
  <2>2. \A i \in 1 .. N : t[i] \in Chars
    OBVIOUS
  <2>3. step \in Steps(N, Reading)
    BY <2>2, ReadType DEF Steps
  <2> QED
    BY <2>1, <2>3
<1>3. \A T \in SUBSET (1 .. N) : T # {} => Max(T) \in 1 .. N
  BY <1>2, MaxFound
<1>4. \A i \in 1 .. N, r \in Reading : step[i][r] = Read(r, t[i])
  OBVIOUS
<1> HIDE DEF base, step, N
<1>5. Eq(iter)
  <2>1. PICK F : SetFold(F, N, Reading, base, step)
    BY <1>2, FoldExists
  <2>2. ASSUME NEW T \in SUBSET (1 .. N)
        PROVE  F[T] = IF T = {} THEN base ELSE Read(F[T \ {Max(T)}], t[Max(T)])
    <3>1. F \in [SUBSET (1 .. N) -> Reading]
          /\ F[T] = IF T = {} THEN base ELSE step[Max(T)][F[T \ {Max(T)}]]
      BY <2>1 DEF SetFold
    <3>2. F[T \ {Max(T)}] \in Reading
      BY <3>1
    <3> QED
      BY <1>3, <1>4, <3>1, <3>2
  <2>3. F = [T \in SUBSET (1 .. N) |-> F[T]]
    BY <2>1 DEF SetFold
  <2>4. Eq(F)
    BY <1>2, <2>2, <2>3
  <2> HIDE DEF Eq
  <2> QED
    BY <2>4
<1> HIDE DEF iter
<1>6. \A T \in SUBSET (1 .. N) :
         iter[T] = IF T = {} THEN base ELSE Read(iter[T \ {Max(T)}], t[Max(T)])
  BY <1>2, <1>5
<1>7. iter[1 .. 0] = base
  <2>1. 1 .. 0 = {} /\ 1 .. 0 \in SUBSET (1 .. N)
    OBVIOUS
  <2> QED
    BY <1>6, <2>1
<1>8. ASSUME NEW i \in 1 .. N, iter[1 .. i - 1] \in Reading
      PROVE  iter[1 .. i] = step[i][iter[1 .. i - 1]]
  <2>1. /\ 1 .. i \in SUBSET (1 .. N) /\ 1 .. i # {} /\ Max(1 .. i) = i
        /\ (1 .. i) \ {Max(1 .. i)} = 1 .. i - 1
    BY <1>2, FirstPositions
  <2>2. iter[1 .. i] = Read(iter[1 .. i - 1], t[i])
    BY <1>6, <2>1
  <2> QED
    BY <1>4, <1>8, <2>2
<1>9. PICK g : Results(g, N, Reading, base, step) /\ iter[1 .. N] = g[N]
  BY <1>2, <1>7, <1>8, FoldValue
<1>10. g \in [0 .. N -> Reading] /\ g[0] = base /\ \A i \in 1 .. N : g[i] = Read(g[i - 1], t[i])
  <2>1. g \in [0 .. N -> Reading] /\ g[0] = base /\ \A i \in 1 .. N : g[i] = step[i][g[i - 1]]
    BY <1>9 DEF Results
  <2>2. ASSUME NEW i \in 1 .. N PROVE g[i - 1] \in Reading
    <3>1. i - 1 \in 0 .. N
      BY <1>2
    <3> QED
      BY <2>1, <3>1
  <2> QED
    BY <1>4, <2>1, <2>2
<1>11. Deescape(t) = IF g[N].open THEN Append(g[N].out, Backslash) ELSE g[N].out
  BY <1>1, <1>2, <1>9
<1> QED
  BY <1>10, <1>11 DEF N, base

\* What escape writes for a character.
Code(c) == CASE c = Newline -> <<Backslash, "n">>
             [] c \in {Quote, Backslash} -> <<Backslash, c>>
             [] OTHER -> <<c>>

\* The code of a character is read as that character.
LEMMA CodeRead ==
    ASSUME NEW out \in Seq(Chars), NEW c \in Chars, NEW r, r = [out |-> out, open |-> FALSE]
    PROVE  /\ Code(c) \in Seq(Chars)
           /\ \/ /\ Len(Code(c)) = 1
                 /\ Read(r, Code(c)[1]) = [out |-> Append(out, c), open |-> FALSE]
              \/ /\ Len(Code(c)) = 2
                 /\ Read(Read(r, Code(c)[1]), Code(c)[2]) = [out |-> Append(out, c), open |-> FALSE]
<1>1. Backslash \in Chars /\ "n" \in Chars
  BY DEF Chars
<1> HIDE DEF Chars
<1>2. CASE c = Newline
  <2>1. Code(c) = <<Backslash, "n">>
    BY <1>2 DEF Code, Newline, Quote, Backslash
  <2>2. Read(r, Backslash) = [out |-> out, open |-> TRUE]
    BY DEF Read, Backslash, Quote
  <2>3. Read([out |-> out, open |-> TRUE], "n") = [out |-> Append(out, c), open |-> FALSE]
    BY <1>2 DEF Read, Quote, Backslash
  <2> QED
    BY <1>1, <2>1, <2>2, <2>3
<1>3. CASE c \in {Quote, Backslash}
  <2>1. Code(c) = <<Backslash, c>>
    BY <1>3 DEF Code, Newline, Quote, Backslash
  <2>2. Read(r, Backslash) = [out |-> out, open |-> TRUE]
    BY DEF Read, Backslash, Quote
  <2>3. Read([out |-> out, open |-> TRUE], c) = [out |-> Append(out, c), open |-> FALSE]
    BY <1>3 DEF Read, Quote, Backslash
  <2> QED
    BY <1>1, <2>1, <2>2, <2>3
<1>4. CASE c # Newline /\ c \notin {Quote, Backslash}
  <2>1. Code(c) = <<c>>
    BY <1>4 DEF Code
  <2>2. Read(r, c) = [out |-> Append(out, c), open |-> FALSE]
    BY <1>4 DEF Read
  <2> QED
    BY <2>1, <2>2
<1> QED
  BY <1>2, <1>3, <1>4

\* One character more of a sequence.
LEMMA OneMore ==
    ASSUME NEW S, NEW s \in Seq(S), NEW i \in 1 .. Len(s)
    PROVE  /\ SubSeq(s, 1, i - 1) \in Seq(S) /\ SubSeq(s, 1, i) = Append(SubSeq(s, 1, i - 1), s[i])
           /\ s[i] \in S
OBVIOUS

LEMMA WithoutQuotes ==
    ASSUME NEW S, NEW w \in Seq(S), NEW q \in S, NEW e, e = <<q>> \o w \o <<q>>
    PROVE  SubSeq(e, 2, Len(e) - 1) = w
OBVIOUS

\* deescape gives back every string that escape was given.
LEMMA EscapeRestored ==
    ASSUME NEW s \in Seq(STRING)
    PROVE  Deescape(SubSeq(Escape(s), 2, Len(Escape(s)) - 1)) = s
<1> DEFINE n == Len(s)
           seqs == [i \in DOMAIN s |-> Code(s[i])]
           whole == FlattenSeq(seqs)
           Done(i) == [out |-> SubSeq(s, 1, i), open |-> FALSE]
<1>1. s \in Seq(Chars) /\ n \in Nat /\ DOMAIN s = 1 .. n /\ Quote \in Chars
  <2>1. STRING \subseteq Chars
    BY DEF Chars
  <2>2. s \in Seq(Chars)
    BY <2>1, SeqMonotonic
  <2> QED
    BY <2>2 DEF Chars
<1>2. seqs \in Seq(Seq(Chars)) /\ Len(seqs) = n /\ \A i \in 1 .. n : seqs[i] = Code(s[i])
  <2>1. ASSUME NEW i \in 1 .. n PROVE Code(s[i]) \in Seq(Chars)
    <3>1. s[i] \in Chars /\ <<>> \in Seq(Chars)
      BY <1>1
    <3> QED
      BY <3>1, CodeRead
  <2>2. seqs \in [1 .. n -> Seq(Chars)]
    BY <1>1, <2>1
  <2> QED
    BY <1>1, <2>2, LengthOf
<1>3. Escape(s) = <<Quote>> \o whole \o <<Quote>>
  BY DEF Escape, Code
<1> HIDE DEF seqs, whole
<1>4. PICK f \in [0 .. Len(seqs) -> Seq(Chars)] : Parts(f, seqs) /\ whole = f[Len(seqs)]
  BY <1>2, FlattenRuns DEF whole
<1>5. whole \in Seq(Chars) /\ Len(whole) \in Nat
  BY <1>1, <1>2, <1>4
<1>6. PICK g : /\ g \in [0 .. Len(whole) -> Reading]
               /\ g[0] = [out |-> <<>>, open |-> FALSE]
               /\ \A i \in 1 .. Len(whole) : g[i] = Read(g[i - 1], whole[i])
               /\ Deescape(whole) = IF g[Len(whole)].open THEN Append(g[Len(whole)].out, Backslash)
                                    ELSE g[Len(whole)].out
  BY <1>5, DeescapeRuns
<1>7. ASSUME NEW i \in 1 .. n, g[Len(f[i - 1])] = Done(i - 1) PROVE g[Len(f[i])] = Done(i)
  <2> DEFINE p == Len(f[i - 1])
             c == s[i]
             code == Code(c)
             m == Len(code)
  <2>1. /\ p \in Nat /\ m \in Nat /\ Len(f[i]) = p + m /\ p + m <= Len(whole)
        /\ \A k \in 1 .. m : whole[p + k] = code[k]
    <3>1. i \in 1 .. Len(seqs) /\ seqs[i] = code
      BY <1>2
    <3>2. Found(seqs, f, whole)
      BY <1>2, <1>4, PartsFound
    <3>3. /\ Len(f[i - 1]) \in Nat /\ Len(seqs[i]) \in Nat
          /\ Len(f[i]) = Len(f[i - 1]) + Len(seqs[i]) /\ Len(f[i]) <= Len(whole)
          /\ \A k \in 1 .. Len(seqs[i]) : whole[Len(f[i - 1]) + k] = seqs[i][k]
      BY <3>1, <3>2 DEF Found
    <3> HIDE DEF code
    <3> QED
      BY <3>1, <3>3
  <2>2. SubSeq(s, 1, i - 1) \in Seq(Chars) /\ Done(i).out = Append(SubSeq(s, 1, i - 1), c) /\ c \in Chars
    BY <1>1, OneMore
  <2>3. \/ m = 1 /\ Read(Done(i - 1), code[1]) = Done(i)
        \/ m = 2 /\ Read(Read(Done(i - 1), code[1]), code[2]) = Done(i)
    BY <2>2, CodeRead
  <2> HIDE DEF p, code, m, Done
  <2>4. CASE m = 1 /\ Read(Done(i - 1), code[1]) = Done(i)
    <3>1. p + 1 \in 1 .. Len(whole) /\ (p + 1) - 1 = p /\ 1 \in 1 .. m
      BY <1>5, <2>1, <2>4
    <3>2. g[p + 1] = Read(g[p], code[1])
      BY <1>6, <2>1, <3>1
    <3> QED
      BY <1>7, <2>1, <2>4, <3>2 DEF p
  <2>5. CASE m = 2 /\ Read(Read(Done(i - 1), code[1]), code[2]) = Done(i)
    <3>1. /\ p + 1 \in 1 .. Len(whole) /\ (p + 1) - 1 = p /\ 1 \in 1 .. m
          /\ p + 2 \in 1 .. Len(whole) /\ (p + 2) - 1 = p + 1 /\ 2 \in 1 .. m
      BY <1>5, <2>1, <2>5
    <3>2. g[p + 1] = Read(g[p], code[1]) /\ g[p + 2] = Read(g[p + 1], code[2])
      BY <1>6, <2>1, <3>1
    <3> QED
      BY <1>7, <2>1, <2>5, <3>2 DEF p
  <2> QED
    BY <2>3, <2>4, <2>5
<1> DEFINE Q == {i \in 0 .. n : g[Len(f[i])] # Done(i)}
<1>8. ASSUME NEW i \in Q PROVE i # 0 /\ i - 1 \in Q
  <2>1. i # 0
    <3>1. f[0] = <<>> /\ Len(f[0]) = 0 /\ SubSeq(s, 1, 0) = <<>>
      BY <1>4 DEF Parts
    <3> QED
      BY <1>6, <3>1
  <2>2. i \in 1 .. n /\ i - 1 \in 0 .. n
    BY <1>1, <2>1
  <2> QED
    BY <1>7, <2>1, <2>2
<1>9. Q = {}
  <2>1. Q \in SUBSET Nat
    OBVIOUS
  <2> HIDE DEF Q
  <2> QED
    BY <1>8, <2>1, Descent
<1>10. g[Len(whole)] = Done(n)
  <2>1. n \in 0 .. n /\ whole = f[n]
    BY <1>1, <1>2, <1>4
  <2> QED
    BY <1>9, <2>1
<1>11. Done(n).out = s /\ Done(n).open = FALSE
  OBVIOUS
<1>12. Deescape(whole) = s
  <2> HIDE DEF Done
  <2> QED
    BY <1>6, <1>10, <1>11
<1>13. SubSeq(Escape(s), 2, Len(Escape(s)) - 1) = whole
  BY <1>1, <1>3, <1>5, WithoutQuotes
<1> QED
  BY <1>12, <1>13
-----------------------------------------------------------------------------
(* url_decode undoes url_encode *)

\* What url_decode does at a position of t.
Codes == Int
Ascii == 1 .. 127
Bytes == 1 .. 255
UrlReading == [out : Seq(Codes), skip : Nat]
Digit(t, i) == IF i > Len(t) THEN -1 ELSE HexValue(t[i])
Escaped(t, i) == IF Digit(t, i + 2) < 0 THEN Digit(t, i + 1)
                 ELSE 16 * Digit(t, i + 1) + Digit(t, i + 2)
UrlRead(t, r, i) ==
    CASE r.skip > 0 -> [r EXCEPT !.skip = @ - 1]
      [] r.skip = 0 /\ t[i] = 37 -> [out |-> Append(r.out, Escaped(t, i)), skip |-> 2]
      [] r.skip = 0 /\ t[i] = 43 -> [r EXCEPT !.out = Append(@, 32)]
      [] OTHER -> [r EXCEPT !.out = Append(@, t[i])]

LEMMA UrlReadType ==
    ASSUME NEW t \in Seq(Codes), NEW r \in UrlReading, NEW i \in 1 .. Len(t)
    PROVE  UrlRead(t, r, i) \in UrlReading
<1>1. ASSUME NEW j \in Nat, j > 0 PROVE Digit(t, j) \in Int
  <2>1. CASE j > Len(t)
    BY <2>1 DEF Digit
  <2>2. CASE ~(j > Len(t))
    <3>1. t[j] \in Int
      BY <1>1, <2>2 DEF Codes
    <3>2. HexValue(t[j]) \in Int
      BY <3>1 DEF HexValue
    <3> QED
      BY <2>2, <3>2 DEF Digit
  <2> QED
    BY <2>1, <2>2
<1>2. Escaped(t, i) \in Int
  BY <1>1 DEF Escaped
<1>3. t[i] \in Codes /\ r.out \in Seq(Codes) /\ r.skip \in Nat
  BY DEF UrlReading
<1>4. Append(r.out, Escaped(t, i)) \in Seq(Codes) /\ Append(r.out, 32) \in Seq(Codes)
      /\ Append(r.out, t[i]) \in Seq(Codes)
  <2>1. Escaped(t, i) \in Codes /\ 32 \in Codes
    BY <1>2 DEF Codes
  <2> QED
    BY <1>3, <2>1
<1>5. CASE r.skip > 0
  <2>1. r.skip # 0 /\ r.skip - 1 \in Nat
    BY <1>3, <1>5
  <2>2. UrlRead(t, r, i) = [r EXCEPT !.skip = r.skip - 1]
    BY <1>5, <2>1 DEF UrlRead
  <2> QED
    BY <2>1, <2>2 DEF UrlReading
<1>6. CASE r.skip = 0
  <2>1. ~(r.skip > 0)
    BY <1>6
  <2>2. \/ UrlRead(t, r, i) = [out |-> Append(r.out, Escaped(t, i)), skip |-> 2]
        \/ UrlRead(t, r, i) = [r EXCEPT !.out = Append(r.out, 32)]
        \/ UrlRead(t, r, i) = [r EXCEPT !.out = Append(r.out, t[i])]
    BY <1>6, <2>1 DEF UrlRead
  <2>3. ASSUME NEW x \in Seq(Codes)
        PROVE  [out |-> x, skip |-> 2] \in UrlReading /\ [r EXCEPT !.out = x] \in UrlReading
    BY DEF UrlReading
  <2> QED
    BY <1>4, <2>2, <2>3
<1> QED
  BY <1>3, <1>5, <1>6

\* The fold of url_decode, one position after the other.
LEMMA UrlDecodeRuns ==
    ASSUME NEW t \in Seq(Codes)
    PROVE  \E g : /\ g \in [0 .. Len(t) -> UrlReading]
                  /\ g[0] = [out |-> <<>>, skip |-> 0]
                  /\ \A i \in 1 .. Len(t) : g[i] = UrlRead(t, g[i - 1], i)
                  /\ UrlDecode(t) = g[Len(t)].out
<1> DEFINE N == Len(t)
           base == [out |-> <<>>, skip |-> 0]
           step == [i \in 1 .. N |-> [r \in UrlReading |-> UrlRead(t, r, i)]]
           pos == [i \in DOMAIN t |-> i]
           Eq(e) == e = [T \in SUBSET DOMAIN pos |-> IF T = {} THEN base
                                        ELSE LET x == Max(T) IN UrlRead(t, e[T \ {x}], pos[x])]
           iter == CHOOSE e : Eq(e)
<1>1. UrlDecode(t) = iter[DOMAIN pos].out
  BY DEF UrlDecode, FoldLeftDomain, FoldLeft, MapThenFoldSet, UrlRead, Escaped, Digit
<1>2. /\ N \in Nat /\ base \in UrlReading /\ step \in Steps(N, UrlReading)
      /\ DOMAIN t = 1 .. N /\ DOMAIN pos = 1 .. N
  <2>1. base \in UrlReading
    BY DEF UrlReading
  <2>2. step \in Steps(N, UrlReading)
    BY UrlReadType DEF Steps
  <2> QED
    BY <2>1, <2>2
<1>3. \A T \in SUBSET (1 .. N) : T # {} => Max(T) \in 1 .. N
  BY <1>2, MaxFound
<1>4. (\A i \in 1 .. N, r \in UrlReading : step[i][r] = UrlRead(t, r, i))
      /\ \A i \in 1 .. N : pos[i] = i
  BY <1>2
<1> HIDE DEF base, step, N, pos
<1>5. Eq(iter)
  <2>1. PICK F : SetFold(F, N, UrlReading, base, step)
    BY <1>2, FoldExists
  <2>2. ASSUME NEW T \in SUBSET (1 .. N)
        PROVE  F[T] = IF T = {} THEN base ELSE UrlRead(t, F[T \ {Max(T)}], pos[Max(T)])
    <3>1. F \in [SUBSET (1 .. N) -> UrlReading]
          /\ F[T] = IF T = {} THEN base ELSE step[Max(T)][F[T \ {Max(T)}]]
      BY <2>1 DEF SetFold
    <3>2. F[T \ {Max(T)}] \in UrlReading
      BY <3>1
    <3> QED
      BY <1>3, <1>4, <3>1, <3>2
  <2>3. F = [T \in SUBSET (1 .. N) |-> F[T]]
    BY <2>1 DEF SetFold
  <2>4. Eq(F)
    BY <1>2, <2>2, <2>3
  <2> HIDE DEF Eq
  <2> QED
    BY <2>4
<1> HIDE DEF iter
<1>6. \A T \in SUBSET (1 .. N) :
         iter[T] = IF T = {} THEN base ELSE UrlRead(t, iter[T \ {Max(T)}], pos[Max(T)])
  BY <1>2, <1>5
<1>7. iter[1 .. 0] = base
  <2>1. 1 .. 0 = {} /\ 1 .. 0 \in SUBSET (1 .. N)
    OBVIOUS
  <2> QED
    BY <1>6, <2>1
<1>8. ASSUME NEW i \in 1 .. N, iter[1 .. i - 1] \in UrlReading
      PROVE  iter[1 .. i] = step[i][iter[1 .. i - 1]]
  <2>1. /\ 1 .. i \in SUBSET (1 .. N) /\ 1 .. i # {} /\ Max(1 .. i) = i
        /\ (1 .. i) \ {Max(1 .. i)} = 1 .. i - 1
    BY <1>2, FirstPositions
  <2>2. iter[1 .. i] = UrlRead(t, iter[1 .. i - 1], pos[i])
    BY <1>6, <2>1
  <2> QED
    BY <1>4, <1>8, <2>2
<1>9. PICK g : Results(g, N, UrlReading, base, step) /\ iter[1 .. N] = g[N]
  BY <1>2, <1>7, <1>8, FoldValue
<1>10. /\ g \in [0 .. N -> UrlReading] /\ g[0] = base
       /\ \A i \in 1 .. N : g[i] = UrlRead(t, g[i - 1], i)
  <2>1. g \in [0 .. N -> UrlReading] /\ g[0] = base /\ \A i \in 1 .. N : g[i] = step[i][g[i - 1]]
    BY <1>9 DEF Results
  <2>2. ASSUME NEW i \in 1 .. N PROVE g[i - 1] \in UrlReading
    <3>1. i - 1 \in 0 .. N
      BY <1>2
    <3> QED
      BY <2>1, <3>1
  <2> QED
    BY <1>4, <2>1, <2>2
<1>11. UrlDecode(t) = g[N].out
  BY <1>1, <1>2, <1>9
<1> QED
  BY <1>10, <1>11 DEF N, base

\* What url_encode writes for a byte.
UrlCode(c) == CASE c = 32 -> <<43>>
                [] c \in Unreserved -> <<c>>
                [] OTHER -> Percent(c)

LEMMA UrlCodeForm ==
    ASSUME NEW c \in 1 .. 127
    PROVE  /\ UrlCode(c) \in Seq(Codes)
           /\ \/ c = 32 /\ UrlCode(c) = <<43>>
              \/ c \notin {37, 43} /\ UrlCode(c) = <<c>>
              \/ \E h, l \in 0 .. 15 :
                    /\ 16 * h + l = c /\ Len(UrlCode(c)) = 3 /\ UrlCode(c)[1] = 37
                    /\ UrlCode(c)[2] = HexDigit(h) /\ UrlCode(c)[3] = HexDigit(l)
<1>1. CASE c = 32
  <2>1. UrlCode(c) = <<43>>
    BY <1>1 DEF UrlCode, Unreserved
  <2>2. UrlCode(c) \in Seq(Codes)
    <3>1. 43 \in Codes
      BY DEF Codes
    <3> QED
      BY <2>1, <3>1
  <2> QED
    BY <1>1, <2>1, <2>2
<1>2. CASE c # 32 /\ c \in Unreserved
  <2>1. c \notin {37, 43} /\ c \in Codes
    BY <1>2 DEF Unreserved, Codes
  <2>2. UrlCode(c) = <<c>>
    BY <1>2 DEF UrlCode
  <2> QED
    BY <2>1, <2>2
<1>3. CASE c # 32 /\ c \notin Unreserved
  <2> DEFINE h == c \div 16
             l == c % 16
  <2>1. h \in 0 .. 15 /\ l \in 0 .. 15 /\ 16 * h + l = c
    OBVIOUS
  <2>2. UrlCode(c) = <<37>> \o <<HexDigit(h), HexDigit(l)>>
    BY <1>3 DEF UrlCode, Percent
  <2> HIDE DEF h, l
  <2>3. HexDigit(h) \in Int /\ HexDigit(l) \in Int
    BY <2>1 DEF HexDigit
  <2>4. /\ UrlCode(c) \in Seq(Codes) /\ Len(UrlCode(c)) = 3 /\ UrlCode(c)[1] = 37
        /\ UrlCode(c)[2] = HexDigit(h) /\ UrlCode(c)[3] = HexDigit(l)
    <3> DEFINE x == HexDigit(h)
               y == HexDigit(l)
    <3>1. x \in Codes /\ y \in Codes /\ 37 \in Codes /\ UrlCode(c) = <<37>> \o <<x, y>>
      BY <2>2, <2>3 DEF Codes
    <3> HIDE DEF x, y
    <3> DEFINE a == <<37>>
               b == <<x, y>>
               z == UrlCode(c)
    <3>2. /\ a \in Seq(Codes) /\ Len(a) = 1 /\ a[1] = 37
          /\ b \in Seq(Codes) /\ Len(b) = 2 /\ b[1] = x /\ b[2] = y
      BY <3>1
    <3>3. a \in Seq(Codes) /\ b \in Seq(Codes) /\ z = a \o b
      BY <3>1
    <3> HIDE DEF a, b, z
    <3>4. /\ z \in Seq(Codes) /\ Len(a) \in Nat /\ Len(b) \in Nat /\ Len(z) \in Nat
          /\ Len(z) = Len(a) + Len(b) /\ Len(a) <= Len(z)
          /\ \A k \in 1 .. Len(a) : k \in 1 .. Len(z) /\ z[k] = a[k]
          /\ \A k \in 1 .. Len(b) : Len(a) + k \in 1 .. Len(z) /\ z[Len(a) + k] = b[k]
      BY <3>3, Joined
    <3>5. Len(z) = 3 /\ z[1] = 37 /\ z[2] = x /\ z[3] = y
      <4>1. 1 \in 1 .. Len(a) /\ 1 \in 1 .. Len(b) /\ 2 \in 1 .. Len(b)
        BY <3>2
      <4>2. z[1] = a[1] /\ z[1 + 1] = b[1] /\ z[1 + 2] = b[2] /\ Len(z) = 1 + 2
        BY <3>2, <3>4, <4>1
      <4> QED
        BY <3>2, <4>2
    <3> QED
      BY <3>4, <3>5 DEF x, y, z
  <2> QED
    BY <2>1, <2>4
<1> QED
  BY <1>1, <1>2, <1>3

LEMMA HexRestored ==
    ASSUME NEW n \in 0 .. 15
    PROVE  HexValue(HexDigit(n)) = n
BY DEF HexValue, HexDigit

CodeAt(t, p, code) ==
    p + Len(code) <= Len(t) /\ \A k \in 1 .. Len(code) : t[p + k] = code[k]

ReadAs(t, p, code, r, next) ==
    \/ Len(code) = 1 /\ UrlRead(t, r, p + 1) = next
    \/ Len(code) = 3 /\ UrlRead(t, UrlRead(t, UrlRead(t, r, p + 1), p + 2), p + 3) = next

\* The code of a byte at position p + 1 of t is read as that byte.
LEMMA UrlCodeRead ==
    ASSUME NEW t \in Seq(Codes), NEW p \in Nat, NEW c \in Ascii, NEW out \in Seq(Codes),
           NEW code, code = UrlCode(c), CodeAt(t, p, code),
           NEW r, r = [out |-> out, skip |-> 0],
           NEW next, next = [out |-> Append(out, c), skip |-> 0]
    PROVE  ReadAs(t, p, code, r, next)
<1>1. r.skip = 0 /\ r.out = out /\ ~(r.skip > 0)
  OBVIOUS
<1>2. CASE c = 32 /\ code = <<43>>
  <2>1. Len(code) = 1 /\ code[1] = 43 /\ t[p + 1] = code[1]
    <3>1. Len(code) = 1 /\ code[1] = 43
      BY <1>2
    <3> QED
      BY <3>1 DEF CodeAt
  <2>2. UrlRead(t, r, p + 1) = [r EXCEPT !.out = Append(out, 32)]
    BY <1>1, <2>1 DEF UrlRead
  <2> QED
    BY <1>2, <2>1, <2>2 DEF ReadAs
<1>3. CASE c \notin {37, 43} /\ code = <<c>>
  <2>1. Len(code) = 1 /\ t[p + 1] = c
    BY <1>3 DEF CodeAt
  <2>2. UrlRead(t, r, p + 1) = [r EXCEPT !.out = Append(out, c)]
    BY <1>1, <1>3, <2>1 DEF UrlRead
  <2> QED
    BY <2>1, <2>2 DEF ReadAs
<1>4. ASSUME NEW h \in 0 .. 15, NEW l \in 0 .. 15, 16 * h + l = c, Len(code) = 3,
             code[1] = 37, code[2] = HexDigit(h), code[3] = HexDigit(l)
      PROVE  UrlRead(t, UrlRead(t, UrlRead(t, r, p + 1), p + 2), p + 3)
             = [out |-> Append(out, c), skip |-> 0]
  <2>1. t[p + 1] = 37 /\ t[p + 2] = HexDigit(h) /\ t[p + 3] = HexDigit(l)
    BY <1>4 DEF CodeAt
  <2>2. Digit(t, p + 2) = h /\ Digit(t, p + 3) = l
    <3>1. ~(p + 2 > Len(t)) /\ ~(p + 3 > Len(t))
      BY <1>4 DEF CodeAt
    <3>2. Digit(t, p + 2) = HexValue(HexDigit(h)) /\ Digit(t, p + 3) = HexValue(HexDigit(l))
      BY <2>1, <3>1 DEF Digit
    <3> QED
      BY <3>2, HexRestored
  <2>3. Escaped(t, p + 1) = c
    <3>1. (p + 1) + 1 = p + 2 /\ (p + 1) + 2 = p + 3 /\ ~(l < 0)
      OBVIOUS
    <3>2. Digit(t, (p + 1) + 1) = h /\ Digit(t, (p + 1) + 2) = l
      BY <2>2, <3>1
    <3> QED
      BY <1>4, <3>1, <3>2 DEF Escaped
  <2> DEFINE more == Append(out, c)
             r1 == [out |-> more, skip |-> 2]
             r2 == [out |-> more, skip |-> 1]
             r3 == [out |-> more, skip |-> 0]
  <2>4. UrlRead(t, r, p + 1) = r1
    <3>1. UrlRead(t, r, p + 1) = [out |-> Append(r.out, Escaped(t, p + 1)), skip |-> 2]
      BY <1>1, <2>1 DEF UrlRead
    <3> QED
      BY <1>1, <2>3, <3>1
  <2>5. UrlRead(t, r1, p + 2) = r2 /\ UrlRead(t, r2, p + 3) = r3
    <3>1. r1.skip = 2 /\ r1.skip > 0 /\ r2.skip = 1 /\ r2.skip > 0
      OBVIOUS
    <3> HIDE DEF more
    <3>2. r2 = [r1 EXCEPT !.skip = 1] /\ r3 = [r2 EXCEPT !.skip = 0]
      OBVIOUS
    <3> HIDE DEF r1, r2, r3
    <3>3. /\ UrlRead(t, r1, p + 2) = [r1 EXCEPT !.skip = r1.skip - 1]
          /\ UrlRead(t, r2, p + 3) = [r2 EXCEPT !.skip = r2.skip - 1]
      BY <3>1 DEF UrlRead
    <3>4. r1.skip - 1 = 1 /\ r2.skip - 1 = 0
      BY <3>1
    <3> QED
      BY <3>2, <3>3, <3>4
  <2> QED
    BY <2>4, <2>5
<1> QED
  BY <1>2, <1>3, <1>4, UrlCodeForm DEF Ascii, ReadAs

\* url_decode gives back every text of bytes below 128 that url_encode was given.
LEMMA UrlRestored ==
    ASSUME NEW s \in Seq(Ascii)
    PROVE  UrlDecode(UrlEncode(s)) = s
<1> DEFINE n == Len(s)
           seqs == [i \in DOMAIN s |-> UrlCode(s[i])]
           whole == FlattenSeq(seqs)
           Done(i) == [out |-> SubSeq(s, 1, i), skip |-> 0]
<1>1. n \in Nat /\ DOMAIN s = 1 .. n /\ \A i \in 1 .. n : s[i] \in Ascii
  OBVIOUS
<1>2. seqs \in Seq(Seq(Codes)) /\ Len(seqs) = n /\ \A i \in 1 .. n : seqs[i] = UrlCode(s[i])
  <2>1. seqs \in [1 .. n -> Seq(Codes)]
    BY <1>1, UrlCodeForm DEF Ascii
  <2> QED
    BY <1>1, <2>1, LengthOf
<1>3. UrlEncode(s) = whole
  BY DEF UrlEncode, UrlCode
<1> HIDE DEF seqs, whole
<1>4. PICK f \in [0 .. Len(seqs) -> Seq(Codes)] : Parts(f, seqs) /\ whole = f[Len(seqs)]
  BY <1>2, FlattenRuns DEF whole
<1>5. whole \in Seq(Codes) /\ Len(whole) \in Nat
  BY <1>1, <1>2, <1>4
<1>6. PICK g : /\ g \in [0 .. Len(whole) -> UrlReading]
               /\ g[0] = [out |-> <<>>, skip |-> 0]
               /\ \A i \in 1 .. Len(whole) : g[i] = UrlRead(whole, g[i - 1], i)
               /\ UrlDecode(whole) = g[Len(whole)].out
  BY <1>5, UrlDecodeRuns
<1>7. ASSUME NEW i \in 1 .. n, g[Len(f[i - 1])] = Done(i - 1) PROVE g[Len(f[i])] = Done(i)
  <2> DEFINE p == Len(f[i - 1])
             c == s[i]
             code == UrlCode(c)
             m == Len(code)
             out == SubSeq(s, 1, i - 1)
  <2>1. /\ p \in Nat /\ m \in Nat /\ Len(f[i]) = p + m /\ p + m <= Len(whole)
        /\ \A k \in 1 .. m : whole[p + k] = code[k]
    <3>1. i \in 1 .. Len(seqs) /\ seqs[i] = code
      BY <1>2
    <3>2. Found(seqs, f, whole)
      BY <1>2, <1>4, PartsFound
    <3>3. /\ Len(f[i - 1]) \in Nat /\ Len(seqs[i]) \in Nat
          /\ Len(f[i]) = Len(f[i - 1]) + Len(seqs[i]) /\ Len(f[i]) <= Len(whole)
          /\ \A k \in 1 .. Len(seqs[i]) : whole[Len(f[i - 1]) + k] = seqs[i][k]
      BY <3>1, <3>2 DEF Found
    <3> HIDE DEF code
    <3> QED
      BY <3>1, <3>3
  <2>2. out \in Seq(Ascii) /\ Done(i).out = Append(out, c) /\ c \in Ascii
    BY OneMore
  <2>3. out \in Seq(Codes)
    <3>1. Ascii \subseteq Codes
      BY DEF Ascii, Codes
    <3> QED
      BY <2>2, <3>1, SeqMonotonic
  <2>4. Done(i - 1) = [out |-> out, skip |-> 0] /\ Done(i) = [out |-> Append(out, c), skip |-> 0]
    BY <2>2
  <2> HIDE DEF p, m, c, out, Done, code
  <2>5. \/ m = 1 /\ UrlRead(whole, Done(i - 1), p + 1) = Done(i)
        \/ m = 3 /\ UrlRead(whole, UrlRead(whole, UrlRead(whole, Done(i - 1), p + 1), p + 2), p + 3) = Done(i)
    <3> DEFINE r == Done(i - 1)
               next == Done(i)
    <3>1. code = UrlCode(c) /\ m = Len(code)
      BY DEF code, m
    <3>2. CodeAt(whole, p, code) /\ r = [out |-> out, skip |-> 0]
          /\ next = [out |-> Append(out, c), skip |-> 0]
      BY <2>1, <2>4, <3>1 DEF CodeAt
    <3> HIDE DEF r, next
    <3>4. whole \in Seq(Codes) /\ p \in Nat /\ c \in Ascii /\ out \in Seq(Codes)
          /\ code = UrlCode(c) /\ CodeAt(whole, p, code) /\ r = [out |-> out, skip |-> 0]
          /\ next = [out |-> Append(out, c), skip |-> 0]
      BY <1>5, <2>1, <2>2, <2>3, <3>1, <3>2
    <3>3. ReadAs(whole, p, code, r, next)
      BY <3>4, UrlCodeRead
    <3> QED
      BY <3>1, <3>3 DEF r, next, ReadAs
  <2>6. CASE m = 1 /\ UrlRead(whole, Done(i - 1), p + 1) = Done(i)
    <3>1. p + 1 \in 1 .. Len(whole) /\ (p + 1) - 1 = p
      BY <1>5, <2>1, <2>6
    <3>2. g[p + 1] = UrlRead(whole, g[p], p + 1)
      BY <1>6, <3>1
    <3> QED
      BY <1>7, <2>1, <2>6, <3>2 DEF p
  <2>7. CASE m = 3 /\ UrlRead(whole, UrlRead(whole, UrlRead(whole, Done(i - 1), p + 1), p + 2), p + 3) = Done(i)
    <3>1. /\ p + 1 \in 1 .. Len(whole) /\ (p + 1) - 1 = p
          /\ p + 2 \in 1 .. Len(whole) /\ (p + 2) - 1 = p + 1
          /\ p + 3 \in 1 .. Len(whole) /\ (p + 3) - 1 = p + 2
      <4>1. p \in Nat /\ p + 3 <= Len(whole) /\ Len(whole) \in Nat
        BY <1>5, <2>1, <2>7
      <4> QED
        BY <4>1
    <3>2. /\ g[p + 1] = UrlRead(whole, g[p], p + 1)
          /\ g[p + 2] = UrlRead(whole, g[p + 1], p + 2)
          /\ g[p + 3] = UrlRead(whole, g[p + 2], p + 3)
      BY <1>6, <3>1
    <3> QED
      BY <1>7, <2>1, <2>7, <3>2 DEF p
  <2> QED
    BY <2>5, <2>6, <2>7
<1> DEFINE Q == {i \in 0 .. n : g[Len(f[i])] # Done(i)}
<1>8. ASSUME NEW i \in Q PROVE i # 0 /\ i - 1 \in Q
  <2>1. i # 0
    <3>1. f[0] = <<>> /\ Len(f[0]) = 0 /\ SubSeq(s, 1, 0) = <<>>
      BY <1>4 DEF Parts
    <3> QED
      BY <1>6, <3>1
  <2>2. i \in 1 .. n /\ i - 1 \in 0 .. n
    BY <1>1, <2>1
  <2> QED
    BY <1>7, <2>1, <2>2
<1>9. Q = {}
  <2>1. Q \in SUBSET Nat
    OBVIOUS
  <2> HIDE DEF Q
  <2> QED
    BY <1>8, <2>1, Descent
<1>10. g[Len(whole)] = Done(n)
  <2>1. n \in 0 .. n /\ whole = f[n]
    BY <1>1, <1>2, <1>4
  <2> QED
    BY <1>9, <2>1
<1>11. Done(n).out = s
  OBVIOUS
<1> HIDE DEF Done
<1> QED
  BY <1>3, <1>6, <1>10, <1>11

\* What a client wrote arrives: deescape undoes escape for every string, url_decode
\* undoes url_encode for every text of bytes below 128.
THEOREM TextsCorrect == Spec => []TextsRestored
<1>1. SampleInv => TextsRestored
  <2> SUFFICES ASSUME SampleInv PROVE TextsRestored
    OBVIOUS
  <2>1. CASE sample.kind = "escape"
    <3>1. sample.value \in Seq(STRING)
      BY <2>1, CodecsAssumption DEF SampleInv, JsonSamples, OtherSamples
    <3> QED
      BY <2>1, <3>1, EscapeRestored DEF TextsRestored
  <2>2. CASE sample.kind = "url" /\ \A i \in DOMAIN sample.value : sample.value[i] <= 127
    <3>1. sample.value \in Seq(Bytes)
      BY <2>2, CodecsAssumption DEF SampleInv, JsonSamples, OtherSamples, Bytes
    <3>2. sample.value \in Seq(Ascii)
      <4> DEFINE s == sample.value
      <4>1. s \in [1 .. Len(s) -> Bytes] /\ Len(s) \in Nat /\ DOMAIN s = 1 .. Len(s)
        BY <3>1
      <4> HIDE DEF s
      <4>2. \A i \in 1 .. Len(s) : s[i] \in Bytes /\ s[i] <= 127
        BY <2>2, <4>1 DEF s
      <4>3. ASSUME NEW i \in 1 .. Len(s) PROVE s[i] \in Ascii
        <5>1. s[i] \in Bytes /\ s[i] <= 127
          BY <4>2
        <5> DEFINE v == s[i]
        <5>2. v \in Bytes /\ v <= 127
          BY <5>1
        <5> HIDE DEF v
        <5>3. v \in Ascii
          BY <5>2 DEF Ascii, Bytes
        <5> QED
          BY <5>3 DEF v
      <4>4. s \in [1 .. Len(s) -> Ascii]
        BY <4>1, <4>3
      <4>5. s \in Seq(Ascii)
        BY <4>1, <4>4, LengthOf
      <4> QED
        BY <4>5 DEF s
    <3> QED
      BY <2>2, <3>2, UrlRestored DEF TextsRestored
  <2> QED
    BY <2>1, <2>2 DEF TextsRestored
<1> QED
  BY <1>1, SampleKept, PTL DEF Spec
-----------------------------------------------------------------------------
(* parse_arguments *)

Values == STRING \cup {"", "true", "exception"} \cup {Definition[n].default : n \in Names}
ArgType == [value : Values, set : BOOLEAN, calls : Nat]
ArgsType == [Names -> ArgType]
NextWord(args, argv, i) == IF Exception(args) THEN args ELSE ReadWord(args, argv, i)

\* An argument that is set has its value and one more call of its callback.
LEMMA SetResult ==
    ASSUME NEW arg \in ArgType, NEW n, NEW word
    PROVE  /\ word \in Values => Set(arg, n, word) \in ArgType
           /\ \/ Set(arg, n, word).value = "exception"
              \/ /\ Set(arg, n, word).value = IF NeedsWord(n) THEN word ELSE "true"
                 /\ Set(arg, n, word).calls = arg.calls + 1
<1> DEFINE new == Set(arg, n, word)
<1>1. "true" \in Values /\ "exception" \in Values
  BY DEF Values
<1> HIDE DEF Values
<1>2. CASE ~NeedsWord(n)
  <2>1. new = [arg EXCEPT !.value = "true", !.calls = @ + 1]
    BY <1>2 DEF Set, NeedsWord
  <2> HIDE DEF new
  <2> DEFINE calls == arg.calls + 1
  <2>2. arg.set \in BOOLEAN /\ calls \in Nat
    BY DEF ArgType
  <2> HIDE DEF calls
  <2>3. new = [value |-> "true", set |-> arg.set, calls |-> calls]
    BY <2>1 DEF ArgType, calls
  <2>4. new \in ArgType /\ new.value = "true" /\ new.calls = calls
    BY <1>1, <2>2, <2>3 DEF ArgType
  <2> QED
    BY <1>2, <2>4 DEF new, calls
<1>3. CASE NeedsWord(n) /\ Definition[n].type = "INTEGER" /\ word \notin Numbers
  <2>1. new = [arg EXCEPT !.value = "exception"]
    BY <1>3 DEF Set, NeedsWord
  <2> HIDE DEF new
  <2>2. new \in ArgType /\ new.value = "exception"
    BY <1>1, <2>1 DEF ArgType
  <2> QED
    BY <2>2 DEF new
<1>4. CASE NeedsWord(n) /\ ~(Definition[n].type = "INTEGER" /\ word \notin Numbers)
  <2>1. new = [arg EXCEPT !.value = word, !.calls = @ + 1]
    BY <1>4 DEF Set, NeedsWord
  <2> HIDE DEF new
  <2> DEFINE calls == arg.calls + 1
  <2>2. arg.set \in BOOLEAN /\ calls \in Nat
    BY DEF ArgType
  <2> HIDE DEF calls
  <2>3. new = [value |-> word, set |-> arg.set, calls |-> calls]
    BY <2>1 DEF ArgType, calls
  <2>4. (word \in Values => new \in ArgType) /\ new.value = word /\ new.calls = calls
    BY <2>2, <2>3 DEF ArgType
  <2> QED
    BY <1>4, <2>4 DEF new, calls
<1> QED
  BY <1>2, <1>3, <1>4

LEMMA NextWordType ==
    ASSUME NEW argv \in Seq(STRING), NEW i \in 1 .. Len(argv), NEW args \in ArgsType
    PROVE  NextWord(args, argv, i) \in ArgsType
<1> DEFINE word == IF i < Len(argv) THEN argv[i + 1] ELSE ""
<1>1. word \in Values
  <2>1. i < Len(argv) => argv[i + 1] \in STRING
    OBVIOUS
  <2>2. word \in STRING \cup {""}
    BY <2>1
  <2> HIDE DEF word
  <2> QED
    BY <2>2 DEF Values
<1> HIDE DEF word
<1>2. ASSUME NEW n \in Names
      PROVE  [Set(args[n], n, word) EXCEPT !.set = TRUE] \in ArgType /\ args[n] \in ArgType
  <2>1. args[n] \in ArgType
    BY DEF ArgsType
  <2>2. Set(args[n], n, word) \in ArgType
    BY <1>1, <2>1, SetResult
  <2> QED
    BY <2>1, <2>2 DEF ArgType
<1>3. ReadWord(args, argv, i) =
        [n \in Names |-> IF n \in Takes(argv[i]) /\ (Definition[n].type = "BOOLEAN" \/ i < Len(argv))
                         THEN [Set(args[n], n, word) EXCEPT !.set = TRUE] ELSE args[n]]
  BY DEF ReadWord, word
<1>4. ReadWord(args, argv, i) \in ArgsType
  BY <1>2, <1>3 DEF ArgsType
<1> QED
  BY <1>4 DEF NextWord

\* The fold over the command line, one word after the other.
LEMMA ReadLineRuns ==
    ASSUME NEW argv \in Seq(STRING)
    PROVE  \E g : /\ g \in [0 .. Len(argv) -> ArgsType]
                  /\ g[0] = Defaults
                  /\ \A i \in 1 .. Len(argv) : g[i] = NextWord(g[i - 1], argv, i)
                  /\ ReadLine(argv) = g[Len(argv)]
<1> DEFINE N == Len(argv)
           step == [i \in 1 .. N |-> [r \in ArgsType |-> NextWord(r, argv, i)]]
           places == [i \in DOMAIN argv |-> i]
           Eq(e) == e = [T \in SUBSET DOMAIN places |->
                           IF T = {} THEN Defaults
                           ELSE LET x == Max(T) IN NextWord(e[T \ {x}], argv, places[x])]
           iter == CHOOSE e : Eq(e)
<1>1. ReadLine(argv) = iter[DOMAIN places]
  BY DEF ReadLine, FoldLeftDomain, FoldLeft, MapThenFoldSet, NextWord
<1>2. N \in Nat /\ Defaults \in ArgsType /\ step \in Steps(N, ArgsType) /\ DOMAIN places = 1 .. N
      /\ \A i \in 1 .. N : places[i] = i
  <2>1. Defaults \in ArgsType
    BY DEF Defaults, ArgsType, ArgType, Values
  <2>2. step \in Steps(N, ArgsType)
    BY NextWordType DEF Steps
  <2> QED
    BY <2>1, <2>2
<1>3. \A T \in SUBSET (1 .. N) : T # {} => Max(T) \in 1 .. N
  BY <1>2, MaxFound
<1>4. \A i \in 1 .. N, r \in ArgsType : step[i][r] = NextWord(r, argv, i)
  OBVIOUS
<1> HIDE DEF step, N, places
<1>5. Eq(iter)
  <2>1. PICK F : SetFold(F, N, ArgsType, Defaults, step)
    BY <1>2, FoldExists
  <2>2. ASSUME NEW T \in SUBSET (1 .. N)
        PROVE  F[T] = IF T = {} THEN Defaults
                      ELSE NextWord(F[T \ {Max(T)}], argv, places[Max(T)])
    <3>1. F \in [SUBSET (1 .. N) -> ArgsType]
          /\ F[T] = IF T = {} THEN Defaults ELSE step[Max(T)][F[T \ {Max(T)}]]
      BY <2>1 DEF SetFold
    <3>2. F[T \ {Max(T)}] \in ArgsType
      BY <3>1
    <3> QED
      BY <1>2, <1>3, <1>4, <3>1, <3>2
  <2>3. F = [T \in SUBSET (1 .. N) |-> F[T]]
    BY <2>1 DEF SetFold
  <2>4. Eq(F)
    BY <1>2, <2>2, <2>3
  <2> HIDE DEF Eq
  <2> QED
    BY <2>4
<1> HIDE DEF iter
<1>6. \A T \in SUBSET (1 .. N) :
         iter[T] = IF T = {} THEN Defaults ELSE NextWord(iter[T \ {Max(T)}], argv, places[Max(T)])
  BY <1>2, <1>5
<1>7. iter[1 .. 0] = Defaults
  <2>1. 1 .. 0 = {} /\ 1 .. 0 \in SUBSET (1 .. N)
    OBVIOUS
  <2> QED
    BY <1>6, <2>1
<1>8. ASSUME NEW i \in 1 .. N, iter[1 .. i - 1] \in ArgsType
      PROVE  iter[1 .. i] = step[i][iter[1 .. i - 1]]
  <2>1. /\ 1 .. i \in SUBSET (1 .. N) /\ 1 .. i # {} /\ Max(1 .. i) = i
        /\ (1 .. i) \ {Max(1 .. i)} = 1 .. i - 1
    BY <1>2, FirstPositions
  <2>2. iter[1 .. i] = NextWord(iter[1 .. i - 1], argv, i)
    BY <1>2, <1>6, <2>1
  <2> QED
    BY <1>4, <1>8, <2>2
<1>9. PICK g : Results(g, N, ArgsType, Defaults, step) /\ iter[1 .. N] = g[N]
  BY <1>2, <1>7, <1>8, FoldValue
<1>10. g \in [0 .. N -> ArgsType] /\ g[0] = Defaults
       /\ \A i \in 1 .. N : g[i] = NextWord(g[i - 1], argv, i)
  <2>1. g \in [0 .. N -> ArgsType] /\ g[0] = Defaults /\ \A i \in 1 .. N : g[i] = step[i][g[i - 1]]
    BY <1>9 DEF Results
  <2>2. ASSUME NEW i \in 1 .. N PROVE g[i - 1] \in ArgsType
    <3>1. i - 1 \in 0 .. N
      BY <1>2
    <3> QED
      BY <2>1, <3>1
  <2> QED
    BY <1>4, <2>1, <2>2
<1>11. ReadLine(argv) = g[N]
  BY <1>1, <1>2, <1>9
<1> QED
  BY <1>10, <1>11 DEF N

FirstPlaces(argv, n, i) == Places(argv, n) \cap (1 .. i)

\* What an argument is after the first i words: the last place so far decides.
ReadSoFar(arg, n, argv, i) ==
    /\ FirstPlaces(argv, n, i) = {} =>
         arg = [value |-> Definition[n].default, set |-> FALSE, calls |-> 0]
    /\ FirstPlaces(argv, n, i) # {} =>
         /\ arg.set = TRUE /\ arg.calls > 0
         /\ arg.value = IF NeedsWord(n) THEN argv[Max(FirstPlaces(argv, n, i)) + 1] ELSE "true"
AllRead(args, argv, i) == Exception(args) \/ \A n \in Names : ReadSoFar(args[n], n, argv, i)

LEMMA NextPlace ==
    ASSUME NEW argv \in Seq(STRING), NEW n, NEW i \in 1 .. Len(argv)
    PROVE  /\ i \in Places(argv, n) => FirstPlaces(argv, n, i) # {} /\ Max(FirstPlaces(argv, n, i)) = i
           /\ i \notin Places(argv, n) => FirstPlaces(argv, n, i) = FirstPlaces(argv, n, i - 1)
<1> DEFINE P == FirstPlaces(argv, n, i)
<1>1. P \in SUBSET (1 .. i) /\ i \in Nat
  BY DEF FirstPlaces
<1>2. CASE i \in Places(argv, n)
  <2>1. i \in P
    BY <1>2 DEF FirstPlaces
  <2> HIDE DEF P
  <2>2. Max(P) \in P /\ \A y \in P : Max(P) >= y
    BY <1>1, <2>1, MaxFound
  <2>3. Max(P) >= i /\ Max(P) \in 1 .. i
    BY <1>1, <2>1, <2>2
  <2>4. Max(P) = i
    BY <1>1, <2>3
  <2> QED
    BY <1>2, <2>1, <2>4 DEF P
<1>3. CASE i \notin Places(argv, n)
  <2>1. \A k : k \in 1 .. i <=> k \in 1 .. i - 1 \/ k = i
    BY <1>1
  <2>2. FirstPlaces(argv, n, i) = FirstPlaces(argv, n, i - 1)
    BY <1>3, <2>1 DEF FirstPlaces
  <2> QED
    BY <1>3, <2>2
<1> QED
  BY <1>2, <1>3

LEMMA AllReadNext ==
    ASSUME NEW argv \in Seq(STRING), NEW i \in 1 .. Len(argv), NEW args \in ArgsType,
           AllRead(args, argv, i - 1)
    PROVE  AllRead(NextWord(args, argv, i), argv, i)
<1> DEFINE next == NextWord(args, argv, i)
           word == IF i < Len(argv) THEN argv[i + 1] ELSE ""
<1>1. CASE Exception(args)
  BY <1>1 DEF NextWord, AllRead
<1>2. CASE ~Exception(args)
  <2> SUFFICES ASSUME ~Exception(next), NEW n \in Names PROVE ReadSoFar(next[n], n, argv, i)
    BY DEF AllRead
  <2>1. ReadSoFar(args[n], n, argv, i - 1) /\ args[n] \in ArgType /\ args[n].calls \in Nat
    <3>1. args[n] \in ArgType
      BY DEF ArgsType
    <3> QED
      BY <1>2, <3>1 DEF AllRead, ArgType
  <2>2. next[n] = IF n \in Takes(argv[i]) /\ (Definition[n].type = "BOOLEAN" \/ i < Len(argv))
                  THEN [Set(args[n], n, word) EXCEPT !.set = TRUE] ELSE args[n]
    BY <1>2 DEF NextWord, ReadWord
  <2>3. word \in Values
    <3>1. i < Len(argv) => argv[i + 1] \in STRING
      OBVIOUS
    <3>2. word \in STRING \cup {""}
      BY <3>1
    <3> HIDE DEF word
    <3> QED
      BY <3>2 DEF Values
  <2>4. i \in Places(argv, n) <=>
          n \in Takes(argv[i]) /\ (Definition[n].type = "BOOLEAN" \/ i < Len(argv))
    BY DEF Places, NeedsWord
  <2>5. NeedsWord(n) /\ i \in Places(argv, n) => word = argv[i + 1]
    BY DEF Places
  <2>6. CASE i \in Places(argv, n)
    <3> DEFINE new == Set(args[n], n, word)
    <3>1. /\ new \in ArgType
          /\ \/ new.value = "exception"
             \/ /\ new.value = IF NeedsWord(n) THEN word ELSE "true"
                /\ new.calls = args[n].calls + 1
      <4> DEFINE arg == args[n]
      <4>1. arg \in ArgType /\ word \in Values
        BY <2>1, <2>3
      <4> HIDE DEF arg, word
      <4>2. /\ word \in Values => Set(arg, n, word) \in ArgType
            /\ \/ Set(arg, n, word).value = "exception"
               \/ /\ Set(arg, n, word).value = IF NeedsWord(n) THEN word ELSE "true"
                  /\ Set(arg, n, word).calls = arg.calls + 1
        BY <4>1, SetResult
      <4> QED
        BY <4>1, <4>2 DEF arg
    <3>2. next[n] = [new EXCEPT !.set = TRUE]
      BY <2>2, <2>4, <2>6
    <3> HIDE DEF new, next, word
    <3>3. next[n].value = new.value /\ next[n].calls = new.calls /\ next[n].set = TRUE
      BY <3>1, <3>2 DEF ArgType
    <3>4. next[n].value # "exception"
      BY DEF Exception
    <3>5. next[n].value = IF NeedsWord(n) THEN argv[i + 1] ELSE "true"
      BY <2>5, <2>6, <3>1, <3>3, <3>4
    <3>6. next[n].calls > 0
      <4>1. new.calls = args[n].calls + 1 /\ args[n].calls \in Nat
        BY <2>1, <3>1, <3>3, <3>4
      <4>2. new.calls > 0
        BY <4>1
      <4> QED
        BY <3>3, <4>2
    <3>7. FirstPlaces(argv, n, i) # {} /\ Max(FirstPlaces(argv, n, i)) = i
      BY <2>6, NextPlace
    <3> QED
      BY <3>3, <3>5, <3>6, <3>7 DEF ReadSoFar
  <2>7. CASE i \notin Places(argv, n)
    <3>1. next[n] = args[n]
      BY <2>2, <2>4, <2>7
    <3>2. FirstPlaces(argv, n, i) = FirstPlaces(argv, n, i - 1)
      BY <2>7, NextPlace
    <3> HIDE DEF next
    <3> QED
      BY <2>1, <3>1, <3>2 DEF ReadSoFar
  <2> QED
    BY <2>6, <2>7
<1> QED
  BY <1>1, <1>2

LEMMA LineRead ==
    ASSUME NEW argv \in Seq(STRING)
    PROVE  ReadLine(argv) \in ArgsType /\ AllRead(ReadLine(argv), argv, Len(argv))
<1> DEFINE N == Len(argv)
<1>1. PICK g : /\ g \in [0 .. N -> ArgsType]
               /\ g[0] = Defaults
               /\ \A i \in 1 .. N : g[i] = NextWord(g[i - 1], argv, i)
               /\ ReadLine(argv) = g[N]
  BY ReadLineRuns
<1> DEFINE Q == {i \in 0 .. N : ~AllRead(g[i], argv, i)}
<1>2. ASSUME NEW i \in Q PROVE i # 0 /\ i - 1 \in Q
  <2>1. AllRead(Defaults, argv, 0)
    <3>1. \A n \in Names : FirstPlaces(argv, n, 0) = {}
      BY DEF FirstPlaces
    <3> QED
      BY <3>1 DEF AllRead, ReadSoFar, Defaults
  <2>2. i # 0
    BY <1>1, <2>1
  <2>3. i \in 1 .. N /\ i - 1 \in 0 .. N
    BY <2>2
  <2>4. g[i - 1] \in ArgsType /\ g[i] = NextWord(g[i - 1], argv, i)
    BY <1>1, <2>3
  <2>5. AllRead(g[i - 1], argv, i - 1) => AllRead(g[i], argv, i)
    BY <2>3, <2>4, AllReadNext
  <2> QED
    BY <2>2, <2>3, <2>5
<1>3. Q = {}
  <2>1. Q \in SUBSET Nat
    OBVIOUS
  <2> HIDE DEF Q
  <2> QED
    BY <1>2, <2>1, Descent
<1>4. N \in 0 .. N
  OBVIOUS
<1> QED
  BY <1>1, <1>3, <1>4

\* The command line is read before the file it names, and what it sets stays.
LEMMA FileRead ==
    ASSUME NEW argv \in Seq(STRING), NEW outcome, outcome = ParseArguments(argv), outcome.end = "run",
           NEW n \in Names,
           NEW path, path = OnLine(argv, "configuration_file"),
           NEW fromFile, fromFile = (Places(argv, n) = {} /\ InFile(path, n))
    PROVE  /\ outcome.args[n].value = IF fromFile
                                      THEN IF NeedsWord(n) THEN ConfigFiles[path][n] ELSE "true"
                                      ELSE OnLine(argv, n)
           /\ outcome.args[n].calls > 0 <=> Places(argv, n) # {} \/ fromFile
<1> DEFINE line == ReadLine(argv)
           args == ReadConfig(line)
<1>1. /\ outcome.args = args /\ ~Exception(line) /\ ~Exception(args)
  <2>1. outcome = IF \E i \in DOMAIN argv : argv[i] \in {"--help", "-h"}
                  THEN [end |-> "help", args |-> Defaults]
                  ELSE IF Exception(line) THEN [end |-> "exception", args |-> line]
                  ELSE [end |-> IF Exception(args) THEN "exception" ELSE "run", args |-> args]
    BY DEF ParseArguments
  <2> HIDE DEF line, args
  <2> QED
    BY <2>1
<1>2. line \in ArgsType /\ \A m \in Names : ReadSoFar(line[m], m, argv, Len(argv))
  BY <1>1, LineRead DEF AllRead
<1> HIDE DEF line
<1>3. ASSUME NEW m \in Names
      PROVE  /\ line[m] \in ArgType
             /\ line[m].value = OnLine(argv, m)
             /\ line[m].set <=> Places(argv, m) # {}
             /\ Places(argv, m) = {} => line[m].calls = 0
             /\ Places(argv, m) # {} => line[m].calls > 0
  <2>1. FirstPlaces(argv, m, Len(argv)) = Places(argv, m)
    BY DEF FirstPlaces, Places
  <2>2. line[m] \in ArgType /\ ReadSoFar(line[m], m, argv, Len(argv))
    BY <1>2 DEF ArgsType
  <2> DEFINE arg == line[m]
  <2>3. arg \in ArgType /\ ReadSoFar(arg, m, argv, Len(argv))
    BY <2>2
  <2> HIDE DEF arg
  <2>4. CASE Places(argv, m) = {}
    <3>1. arg = [value |-> Definition[m].default, set |-> FALSE, calls |-> 0]
      BY <2>1, <2>3, <2>4 DEF ReadSoFar
    <3>2. OnLine(argv, m) = Definition[m].default
      BY <2>4 DEF OnLine
    <3> QED
      BY <2>3, <2>4, <3>1, <3>2 DEF arg
  <2>5. CASE Places(argv, m) # {}
    <3>1. arg.set = TRUE /\ arg.calls > 0
          /\ arg.value = IF NeedsWord(m) THEN argv[Max(Places(argv, m)) + 1] ELSE "true"
      BY <2>1, <2>3, <2>5 DEF ReadSoFar
    <3>2. OnLine(argv, m) = IF NeedsWord(m) THEN argv[Max(Places(argv, m)) + 1] ELSE "true"
      BY <2>5 DEF OnLine
    <3> QED
      BY <2>3, <2>5, <3>1, <3>2 DEF arg
  <2> QED
    BY <2>4, <2>5
<1>4. path = line["configuration_file"].value
  BY <1>3, CodecsAssumption
<1>5. args[n] = IF fromFile THEN Set(line[n], n, ConfigFiles[path][n]) ELSE line[n]
  BY <1>3, <1>4 DEF ReadConfig, InFile
<1> HIDE DEF args
<1>6. CASE ~fromFile
  BY <1>1, <1>3, <1>5, <1>6
<1>7. CASE fromFile
  <2>1. args[n].value # "exception"
    BY <1>1 DEF Exception
  <2>2. args[n] = Set(line[n], n, ConfigFiles[path][n])
    BY <1>5, <1>7
  <2>3. line[n] \in ArgType /\ line[n].calls = 0
    BY <1>3, <1>7
  <2> DEFINE new == Set(line[n], n, ConfigFiles[path][n])
  <2>4. \/ new.value = "exception"
        \/ /\ new.value = IF NeedsWord(n) THEN ConfigFiles[path][n] ELSE "true"
           /\ new.calls = line[n].calls + 1
    BY <2>3, SetResult
  <2> HIDE DEF new
  <2>5. new.calls = 1 /\ new.value = IF NeedsWord(n) THEN ConfigFiles[path][n] ELSE "true"
    BY <2>1, <2>2, <2>3, <2>4 DEF new
  <2> QED
    BY <1>1, <1>7, <2>2, <2>5 DEF new
<1> QED
  BY <1>6, <1>7

\* The command line decides over the configuration file, the last word over those before
\* it, and an argument's callback runs if the argument was given at all.
THEOREM ArgumentsCorrect == Spec => []ArgumentsResolved
<1>1. SampleInv => ArgumentsResolved
  <2> SUFFICES ASSUME SampleInv, sample.kind = "argv" PROVE ArgumentsResolved
    BY DEF ArgumentsResolved
  <2>1. sample.value \in Seq(STRING)
    BY CodecsAssumption DEF SampleInv, JsonSamples, OtherSamples
  <2> QED
    BY <2>1, FileRead DEF ArgumentsResolved
<1> QED
  BY <1>1, SampleKept, PTL DEF Spec

-----------------------------------------------------------------------------
(* parse_http_request *)

\* The characters of a request: the provers do not know that a literal is a STRING.
Letters == STRING \cup Methods \cup {" ", "/", "?", "&", "=", "+", ":", "%0A", CR, LF, Json, "HTTP/1.1"}
Text == Seq(Letters)

\* One character, of the start line and the headers or of a form.
NextState(head, p, c) == IF head THEN ReadHead(p, c) ELSE ReadForm(p, c)

\* g is what the parser has after each of the characters of s, which take it from p to q.
Runs(head, g, p, s) == g[0] = p /\ \A i \in 1 .. Len(s) : g[i] = NextState(head, g[i - 1], s[i])
Reads(head, p, s, q) == \E g : Runs(head, g, p, s) /\ g[Len(s)] = q

\* A text without characters leaves the parser where it is.
LEMMA ReadsNothing == ASSUME NEW head, NEW p PROVE Reads(head, p, <<>>, p)
<1> DEFINE g == [i \in 0 .. 0 |-> p]
<1>1. g[0] = p /\ Len(<<>>) = 0 /\ 1 .. 0 = {}
  OBVIOUS
<1> HIDE DEF g
<1> QED
  BY <1>1 DEF Reads, Runs

\* One character is one step.
LEMMA ReadsOne ==
    ASSUME NEW head, NEW p, NEW c, NEW q, q = NextState(head, p, c)
    PROVE  Reads(head, p, <<c>>, q)
<1> DEFINE g == [i \in 0 .. 1 |-> IF i = 0 THEN p ELSE q]
<1>1. g[0] = p /\ g[1] = q /\ Len(<<c>>) = 1 /\ <<c>>[1] = c /\ 1 - 1 = 0 /\ \A i \in 1 .. 1 : i = 1
  OBVIOUS
<1> HIDE DEF g
<1> QED
  BY <1>1 DEF Reads, Runs

\* A text is read by reading its first part and then the rest.
LEMMA ReadsJoin ==
    ASSUME NEW head, NEW p, NEW q, NEW r, NEW s \in Text, NEW t \in Text,
           Reads(head, p, s, q), Reads(head, q, t, r)
    PROVE  Reads(head, p, s \o t, r)
<1>1. PICK f : Runs(head, f, p, s) /\ f[Len(s)] = q
  BY DEF Reads
<1>2. PICK g : Runs(head, g, q, t) /\ g[Len(t)] = r
  BY DEF Reads
<1> DEFINE a == Len(s)
           b == Len(t)
           u == s \o t
           h == [i \in 0 .. a + b |-> IF i <= a THEN f[i] ELSE g[i - a]]
<1>3. /\ a \in Nat /\ b \in Nat /\ Len(u) = a + b
      /\ \A i \in 1 .. a : u[i] = s[i]
      /\ \A i \in 1 .. b : u[a + i] = t[i]
  BY DEF Text
<1>4. f[0] = p /\ f[a] = q /\ \A i \in 1 .. a : f[i] = NextState(head, f[i - 1], s[i])
  BY <1>1 DEF Runs
<1>5. g[0] = q /\ g[b] = r /\ \A i \in 1 .. b : g[i] = NextState(head, g[i - 1], t[i])
  BY <1>2 DEF Runs
<1> HIDE DEF a, b, u
<1>6. (\A i \in 0 .. a : h[i] = f[i]) /\ \A i \in 0 .. b : h[a + i] = g[i]
  <2>1. ASSUME NEW i \in 0 .. b PROVE h[a + i] = g[i]
    <3> DEFINE k == a + i
    <3>1. k \in 0 .. a + b /\ (k <= a <=> i = 0) /\ k - a = i /\ (i = 0 => k = a)
      BY <1>3
    <3>2. h[k] = IF k <= a THEN f[k] ELSE g[k - a]
      BY <3>1
    <3> HIDE DEF k, h
    <3>3. h[k] = g[i]
      BY <1>4, <1>5, <3>1, <3>2
    <3> QED
      BY <3>3 DEF k
  <2> QED
    BY <1>3, <2>1
<1> HIDE DEF h
<1>7. ASSUME NEW i \in 1 .. a + b PROVE h[i] = NextState(head, h[i - 1], u[i])
  <2>1. CASE i <= a
    <3>1. i \in 1 .. a /\ i \in 0 .. a /\ i - 1 \in 0 .. a
      BY <1>3, <2>1
    <3> QED
      BY <1>3, <1>4, <1>6, <3>1
  <2>2. CASE ~(i <= a)
    <3> DEFINE j == i - a
    <3>1. j \in 1 .. b /\ j \in 0 .. b /\ j - 1 \in 0 .. b /\ a + j = i /\ a + (j - 1) = i - 1
      BY <1>3, <2>2
    <3> HIDE DEF j
    <3>2. h[i] = g[j] /\ h[i - 1] = g[j - 1] /\ u[i] = t[j]
      BY <1>3, <1>6, <3>1
    <3> QED
      BY <1>5, <3>1, <3>2
  <2> QED
    BY <2>1, <2>2
<1>8. h[0] = p /\ h[a + b] = r
  <2>1. 0 \in 0 .. a /\ b \in 0 .. b
    BY <1>3
  <2> QED
    BY <1>4, <1>5, <1>6, <2>1
<1>9. Reads(head, p, u, r)
  BY <1>3, <1>7, <1>8 DEF Reads, Runs
<1> QED
  BY <1>9 DEF u

\* What the fold over s comes to at each set of positions.
Folded(head, f, base, s, n) ==
    \A T \in SUBSET (1 .. n) :
        f[T] = IF T = {} THEN base ELSE NextState(head, f[T \ {Max(T)}], s[Max(T)])

\* The recursion by which a fold is defined has a solution.
LEMMA FoldedExists ==
    ASSUME NEW head, NEW base, NEW s, NEW N \in Nat
    PROVE  \E f : Folded(head, f, base, s, N)
<1> DEFINE Q == {n \in 0 .. N : ~ \E f : Folded(head, f, base, s, n)}
<1>1. ASSUME NEW n \in Q PROVE n # 0 /\ n - 1 \in Q
  <2>1. CASE n = 0
    <3> DEFINE f == [T \in SUBSET (1 .. 0) |-> base]
    <3>1. \A T \in SUBSET (1 .. 0) : T = {} /\ f[T] = base
      OBVIOUS
    <3> HIDE DEF f
    <3>2. Folded(head, f, base, s, 0)
      BY <3>1 DEF Folded
    <3> QED
      BY <2>1, <3>2
  <2>2. CASE n # 0
    <3>1. n - 1 \in 0 .. N /\ n \in 1 .. N /\ n \in Nat /\ n - 1 \in Nat
      BY <2>2
    <3> SUFFICES ASSUME NEW f, Folded(head, f, base, s, n - 1) PROVE FALSE
      BY <2>2, <3>1
    <3> DEFINE A == SUBSET (1 .. n)
               B == SUBSET (1 .. n - 1)
               g == [T \in A |-> IF n \in T THEN NextState(head, f[T \ {n}], s[n]) ELSE f[T]]
    <3>2. \A T \in B : f[T] = IF T = {} THEN base ELSE NextState(head, f[T \ {Max(T)}], s[Max(T)])
      BY DEF Folded
    <3>3. \A T \in A : n \notin T => T \in B
      BY <3>1
    <3> HIDE DEF B
    <3>4. ASSUME NEW T \in A
          PROVE  g[T] = IF T = {} THEN base ELSE NextState(head, g[T \ {Max(T)}], s[Max(T)])
      <4>1. CASE T = {}
        BY <3>2, <3>3, <4>1
      <4>2. CASE T # {} /\ n \in T
        <5>1. Max(T) \in T /\ Max(T) >= n /\ T \subseteq 1 .. n
          BY <3>1, <4>2, MaxFound
        <5>2. Max(T) = n
          <6>1. Max(T) \in 1 .. n
            BY <5>1
          <6> QED
            BY <3>1, <5>1, <6>1
        <5>3. T \ {n} \in A /\ n \notin T \ {n}
          OBVIOUS
        <5>4. g[T] = NextState(head, f[T \ {n}], s[n]) /\ g[T \ {n}] = f[T \ {n}]
          BY <4>2, <5>3
        <5> HIDE DEF g, A
        <5> QED
          BY <4>2, <5>2, <5>4
      <4>3. CASE T # {} /\ n \notin T
        <5>1. T \in B
          BY <3>3, <4>3
        <5>2. Max(T) \in T
          BY <3>1, <4>3, MaxFound
        <5>3. T \ {Max(T)} \in A /\ n \notin T \ {Max(T)}
          BY <4>3
        <5>4. g[T] = f[T] /\ g[T \ {Max(T)}] = f[T \ {Max(T)}]
          BY <4>3, <5>3
        <5> HIDE DEF g, A
        <5> QED
          BY <3>2, <4>3, <5>1, <5>4
      <4> QED
        BY <4>1, <4>2, <4>3
    <3> HIDE DEF g
    <3>5. Folded(head, g, base, s, n)
      BY <3>4 DEF Folded
    <3> QED
      BY <3>5
  <2> QED
    BY <2>1, <2>2
<1>2. Q \in SUBSET Nat /\ N \in 0 .. N
  OBVIOUS
<1>3. Q = {}
  <2> HIDE DEF Q
  <2> QED
    BY <1>1, <1>2, Descent
<1> QED
  BY <1>2, <1>3

\* A fold's result is where reading the text one character after the other ends.
LEMMA FoldedLast ==
    ASSUME NEW head, NEW p, NEW q, NEW s \in Text, Reads(head, p, s, q),
           NEW iter, Folded(head, iter, p, s, Len(s))
    PROVE  iter[1 .. Len(s)] = q
<1> DEFINE N == Len(s)
<1>1. PICK g : Runs(head, g, p, s) /\ g[N] = q
  BY DEF Reads
<1>2. N \in Nat
  BY DEF Text
<1>3. g[0] = p /\ \A i \in 1 .. N : g[i] = NextState(head, g[i - 1], s[i])
  BY <1>1 DEF Runs
<1>4. \A T \in SUBSET (1 .. N) :
        iter[T] = IF T = {} THEN p ELSE NextState(head, iter[T \ {Max(T)}], s[Max(T)])
  BY DEF Folded
<1> HIDE DEF N
<1> DEFINE Q == {i \in 0 .. N : iter[1 .. i] # g[i]}
<1>5. ASSUME NEW i \in Q PROVE i # 0 /\ i - 1 \in Q
  <2>1. i # 0
    <3>1. 1 .. 0 = {} /\ 1 .. 0 \in SUBSET (1 .. N)
      OBVIOUS
    <3> QED
      BY <1>3, <1>4, <3>1
  <2>2. i \in 1 .. N /\ i - 1 \in 0 .. N
    BY <1>2, <2>1
  <2>3. /\ 1 .. i \in SUBSET (1 .. N) /\ 1 .. i # {} /\ Max(1 .. i) = i
        /\ (1 .. i) \ {Max(1 .. i)} = 1 .. i - 1
    BY <1>2, <2>2, FirstPositions
  <2>4. iter[1 .. i] = NextState(head, iter[1 .. i - 1], s[i])
    BY <1>4, <2>3
  <2>5. iter[1 .. i - 1] = g[i - 1] => iter[1 .. i] = g[i]
    BY <1>3, <2>2, <2>4
  <2> QED
    BY <2>1, <2>2, <2>5
<1>6. Q = {}
  <2>1. Q \in SUBSET Nat
    OBVIOUS
  <2> HIDE DEF Q
  <2> QED
    BY <1>5, <2>1, Descent
<1>7. N \in 0 .. N
  BY <1>2
<1> QED
  BY <1>1, <1>6, <1>7 DEF N

\* What FoldLeft makes of the start line and the headers.
LEMMA HeadFold ==
    ASSUME NEW p, NEW q, NEW s \in Text, Reads(TRUE, p, s, q)
    PROVE  FoldLeft(ReadHead, p, s) = q
<1> DEFINE N == Len(s)
           Eq(e) == e = [T \in SUBSET DOMAIN s |-> IF T = {} THEN p
                                                   ELSE LET x == Max(T) IN ReadHead(e[T \ {x}], s[x])]
           iter == CHOOSE e : Eq(e)
<1>1. FoldLeft(ReadHead, p, s) = iter[DOMAIN s]
  BY DEF FoldLeft, MapThenFoldSet
<1>2. N \in Nat /\ DOMAIN s = 1 .. N
  BY DEF Text
<1>3. Eq(iter)
  <2>1. PICK f : Folded(TRUE, f, p, s, N)
    BY <1>2, FoldedExists
  <2> DEFINE F == [T \in SUBSET (1 .. N) |-> f[T]]
  <2>2. ASSUME NEW T \in SUBSET (1 .. N)
        PROVE  F[T] = IF T = {} THEN p ELSE ReadHead(F[T \ {Max(T)}], s[Max(T)])
    <3>1. T \ {Max(T)} \in SUBSET (1 .. N)
      OBVIOUS
    <3>2. F[T] = f[T] /\ F[T \ {Max(T)}] = f[T \ {Max(T)}]
      BY <3>1
    <3>3. f[T] = IF T = {} THEN p ELSE NextState(TRUE, f[T \ {Max(T)}], s[Max(T)])
      BY <2>1 DEF Folded
    <3> HIDE DEF F
    <3> QED
      BY <3>2, <3>3 DEF NextState
  <2>3. F = [T \in SUBSET (1 .. N) |-> F[T]]
    OBVIOUS
  <2> HIDE DEF F
  <2>4. Eq(F)
    BY <1>2, <2>2, <2>3
  <2> HIDE DEF Eq
  <2> QED
    BY <2>4
<1> HIDE DEF iter
<1>4. Folded(TRUE, iter, p, s, N)
  BY <1>2, <1>3 DEF Folded, NextState
<1> QED
  BY <1>1, <1>2, <1>4, FoldedLast

\* What FoldLeft makes of a form.
LEMMA FormFold ==
    ASSUME NEW p, NEW q, NEW s \in Text, Reads(FALSE, p, s, q)
    PROVE  FoldLeft(ReadForm, p, s) = q
<1> DEFINE N == Len(s)
           Eq(e) == e = [T \in SUBSET DOMAIN s |-> IF T = {} THEN p
                                                   ELSE LET x == Max(T) IN ReadForm(e[T \ {x}], s[x])]
           iter == CHOOSE e : Eq(e)
<1>1. FoldLeft(ReadForm, p, s) = iter[DOMAIN s]
  BY DEF FoldLeft, MapThenFoldSet
<1>2. N \in Nat /\ DOMAIN s = 1 .. N
  BY DEF Text
<1>3. Eq(iter)
  <2>1. PICK f : Folded(FALSE, f, p, s, N)
    BY <1>2, FoldedExists
  <2> DEFINE F == [T \in SUBSET (1 .. N) |-> f[T]]
  <2>2. ASSUME NEW T \in SUBSET (1 .. N)
        PROVE  F[T] = IF T = {} THEN p ELSE ReadForm(F[T \ {Max(T)}], s[Max(T)])
    <3>1. T \ {Max(T)} \in SUBSET (1 .. N)
      OBVIOUS
    <3>2. F[T] = f[T] /\ F[T \ {Max(T)}] = f[T \ {Max(T)}]
      BY <3>1
    <3>3. f[T] = IF T = {} THEN p ELSE NextState(FALSE, f[T \ {Max(T)}], s[Max(T)])
      BY <2>1 DEF Folded
    <3> HIDE DEF F
    <3> QED
      BY <3>2, <3>3 DEF NextState
  <2>3. F = [T \in SUBSET (1 .. N) |-> F[T]]
    OBVIOUS
  <2> HIDE DEF F
  <2>4. Eq(F)
    BY <1>2, <2>2, <2>3
  <2> HIDE DEF Eq
  <2> QED
    BY <2>4
<1> HIDE DEF iter
<1>4. Folded(FALSE, iter, p, s, N)
  BY <1>2, <1>3 DEF Folded, NextState
<1> QED
  BY <1>1, <1>2, <1>4, FoldedLast

\* Characters that are added one by one to a part of what the parser holds.
LEMMA Collects ==
    ASSUME NEW head, NEW at, NEW v \in Text, NEW e \in Text, NEW w \in Text, Len(e) = Len(v),
           \A i \in 1 .. Len(v) : \A u \in Text : NextState(head, at[u], e[i]) = at[Append(u, v[i])]
    PROVE  Reads(head, at[w], e, at[w \o v])
<1> DEFINE n == Len(v)
           g == [i \in 0 .. n |-> at[w \o SubSeq(v, 1, i)]]
<1>1. n \in Nat /\ SubSeq(v, 1, 0) = <<>> /\ SubSeq(v, 1, n) = v /\ w \o <<>> = w
  BY DEF Text
<1>2. ASSUME NEW i \in 1 .. n
      PROVE  /\ w \o SubSeq(v, 1, i - 1) \in Text
             /\ w \o SubSeq(v, 1, i) = Append(w \o SubSeq(v, 1, i - 1), v[i])
  <2> DEFINE a == SubSeq(v, 1, i - 1)
  <2>1. a \in Seq(Letters) /\ SubSeq(v, 1, i) = Append(a, v[i]) /\ v[i] \in Letters
    BY OneMore DEF Text
  <2> HIDE DEF a
  <2>2. w \o a \in Seq(Letters) /\ w \o Append(a, v[i]) = Append(w \o a, v[i])
    BY <2>1 DEF Text
  <2> QED
    BY <2>1, <2>2 DEF a, Text
<1> HIDE DEF n
<1>3. ASSUME NEW i \in 1 .. n PROVE g[i] = NextState(head, g[i - 1], e[i])
  <2>1. i \in 0 .. n /\ i - 1 \in 0 .. n /\ i \in 1 .. Len(v)
    BY <1>1 DEF n
  <2>2. g[i] = at[w \o SubSeq(v, 1, i)] /\ g[i - 1] = at[w \o SubSeq(v, 1, i - 1)]
    BY <2>1
  <2> HIDE DEF g
  <2> QED
    BY <1>2, <2>1, <2>2
<1>4. g[0] = at[w] /\ g[n] = at[w \o v]
  <2>1. 0 \in 0 .. n /\ n \in 0 .. n
    BY <1>1
  <2> QED
    BY <1>1, <2>1
<1> HIDE DEF g
<1> QED
  BY <1>3, <1>4 DEF Reads, Runs, n

\* The parser in the middle of the start line or the headers.
At(state, key, value, obj) ==
    [state |-> state, key |-> key, value |-> value, skip |-> FALSE, body |-> <<>>, obj |-> obj]

\* The parts of a text, read one after the other.
LEMMA ReadsParts ==
    ASSUME NEW head, NEW seqs \in Seq(Text), NEW q,
           \A i \in 1 .. Len(seqs) : Reads(head, q[i - 1], seqs[i], q[i])
    PROVE  Reads(head, q[0], FlattenSeq(seqs), q[Len(seqs)]) /\ FlattenSeq(seqs) \in Text
<1> DEFINE N == Len(seqs)
<1>1. PICK f \in [0 .. N -> Text] : Parts(f, seqs) /\ FlattenSeq(seqs) = f[N]
  BY FlattenRuns DEF Text
<1>2. f[0] = <<>> /\ \A i \in 1 .. N : f[i] = f[i - 1] \o seqs[i]
  BY <1>1 DEF Parts
<1>3. N \in 0 .. N /\ \A i \in 1 .. N : seqs[i] \in Text
  OBVIOUS
<1> HIDE DEF N
<1> DEFINE Q == {i \in 0 .. N : ~Reads(head, q[0], f[i], q[i])}
<1>4. ASSUME NEW i \in Q PROVE i # 0 /\ i - 1 \in Q
  <2>1. i # 0
    BY <1>2, ReadsNothing
  <2>2. i \in 1 .. N /\ i - 1 \in 0 .. N
    BY <1>3, <2>1
  <2>3. Reads(head, q[i - 1], seqs[i], q[i]) /\ f[i] = f[i - 1] \o seqs[i]
        /\ f[i - 1] \in Text /\ seqs[i] \in Text
    BY <1>1, <1>2, <1>3, <2>2 DEF N
  <2>4. Reads(head, q[0], f[i - 1], q[i - 1]) => Reads(head, q[0], f[i], q[i])
    BY <2>3, ReadsJoin
  <2> QED
    BY <2>1, <2>2, <2>4
<1>5. Q = {}
  <2>1. Q \in SUBSET Nat
    OBVIOUS
  <2> HIDE DEF Q
  <2> QED
    BY <1>4, <2>1, Descent
<1> QED
  BY <1>1, <1>3, <1>5 DEF N

\* What an object holds after the first i of some members.
FirstGiving(ms, k, i) == {j \in 1 .. i : ms[j][1] = k}
FirstTexts(ms, k, i) == {j \in FirstGiving(ms, k, i) : ms[j][2].texts # <<>>}
FirstValue(obj, ms, k, i) ==
    IF FirstTexts(ms, k, i) = {} THEN Former(obj, k) ELSE ms[Max(FirstTexts(ms, k, i))][2].texts[1]
FirstOver(obj, ms, i) ==
    [k \in DOMAIN obj \cup {ms[j][1] : j \in 1 .. i} |->
        IF FirstGiving(ms, k, i) = {} THEN obj[k]
        ELSE [type |-> ms[Max(FirstGiving(ms, k, i))][2].type, value |-> FirstValue(obj, ms, k, i)]]

\* An object: a function from keys.
IsObject(obj) == obj = [k \in DOMAIN obj |-> obj[k]]

\* No member changes nothing.
LEMMA OverNone ==
    ASSUME NEW obj, IsObject(obj), NEW ms
    PROVE  FirstOver(obj, ms, 0) = obj
<1>1. \A k : FirstGiving(ms, k, 0) = {}
  BY DEF FirstGiving
<1>2. DOMAIN obj \cup {ms[j][1] : j \in 1 .. 0} = DOMAIN obj
  OBVIOUS
<1>3. FirstOver(obj, ms, 0) = [k \in DOMAIN obj |-> obj[k]]
  BY <1>1, <1>2 DEF FirstOver
<1> QED
  BY <1>3 DEF IsObject

\* All members are what Overlaid lays over an object.
LEMMA OverAll ==
    ASSUME NEW obj, NEW ms, NEW n \in Nat, DOMAIN ms = 1 .. n
    PROVE  FirstOver(obj, ms, n) = Overlaid(obj, ms)
<1>1. \A k : FirstGiving(ms, k, n) = Giving(ms, k)
  BY DEF FirstGiving, Giving
<1>2. \A k : FirstTexts(ms, k, n) = GivingText(ms, k)
  BY <1>1 DEF FirstTexts, GivingText
<1> QED
  BY <1>1, <1>2 DEF FirstOver, FirstValue, Overlaid

\* Among the first i members, the i-th is the last.
LEMMA LastOfFirst ==
    ASSUME NEW i \in Nat \ {0}, NEW G \in SUBSET (1 .. i), i \in G
    PROVE  Max(G) = i
<1>1. Max(G) \in G /\ \A y \in G : Max(G) >= y
  BY MaxFound
<1>2. Max(G) >= i /\ Max(G) \in 1 .. i
  BY <1>1
<1> QED
  BY <1>2

\* One more member is what Put does.
LEMMA OverNext ==
    ASSUME NEW obj, NEW ms, NEW i \in Nat \ {0}
    PROVE  FirstOver(obj, ms, i) = Put(FirstOver(obj, ms, i - 1), ms[i][1], ms[i][2])
<1> DEFINE new == ms[i][1]
           given == ms[i][2]
           old == FirstOver(obj, ms, i - 1)
           taken == [type |-> given.type,
                     value |-> IF given.texts = <<>> THEN Former(old, new) ELSE given.texts[1]]
           D == DOMAIN obj \cup {ms[j][1] : j \in 1 .. i}
           E == DOMAIN obj \cup {ms[j][1] : j \in 1 .. i - 1}
<1>1. \A j : j \in 1 .. i <=> j \in 1 .. i - 1 \/ j = i
  OBVIOUS
<1>2. D = E \cup {new} /\ DOMAIN old = E
  BY <1>1 DEF FirstOver
<1>3. \A k \in E : old[k] = IF FirstGiving(ms, k, i - 1) = {} THEN obj[k]
                             ELSE [type |-> ms[Max(FirstGiving(ms, k, i - 1))][2].type,
                                   value |-> FirstValue(obj, ms, k, i - 1)]
  BY DEF FirstOver
<1>4. Former(old, new) = FirstValue(obj, ms, new, i - 1)
  <2>1. CASE FirstGiving(ms, new, i - 1) = {}
    <3>1. new \in E <=> new \in DOMAIN obj
      BY <2>1 DEF FirstGiving
    <3>2. Former(old, new) = Former(obj, new)
      <4> HIDE DEF old, E, new
      <4> QED
        BY <1>2, <1>3, <2>1, <3>1 DEF Former
    <3>3. FirstTexts(ms, new, i - 1) = {}
      BY <2>1 DEF FirstTexts
    <3> QED
      BY <3>2, <3>3 DEF FirstValue
  <2>2. CASE FirstGiving(ms, new, i - 1) # {}
    <3>1. new \in E
      BY <2>2 DEF FirstGiving
    <3> HIDE DEF old, E, new
    <3> QED
      BY <1>2, <1>3, <2>2, <3>1 DEF Former
  <2> QED
    BY <2>1, <2>2
<1>5. ASSUME NEW k \in D
      PROVE  FirstOver(obj, ms, i)[k] = IF k = new THEN taken ELSE old[k]
  <2> DEFINE G == FirstGiving(ms, k, i)
  <2>1. FirstOver(obj, ms, i)[k] = IF G = {} THEN obj[k]
                                   ELSE [type |-> ms[Max(G)][2].type, value |-> FirstValue(obj, ms, k, i)]
    BY DEF FirstOver
  <2>2. CASE k = new
    <3>1. G \in SUBSET (1 .. i) /\ i \in G
      BY <1>1, <2>2 DEF FirstGiving
    <3>2. Max(G) = i
      <4> HIDE DEF G
      <4> QED
        BY <3>1, LastOfFirst
    <3>3. CASE given.texts = <<>>
      <4>1. FirstTexts(ms, k, i) = FirstTexts(ms, k, i - 1)
        BY <1>1, <3>3 DEF FirstTexts, FirstGiving
      <4>2. FirstValue(obj, ms, k, i) = FirstValue(obj, ms, k, i - 1)
        BY <4>1 DEF FirstValue
      <4> HIDE DEF G, old
      <4> QED
        BY <1>4, <2>1, <2>2, <3>1, <3>2, <3>3, <4>2
    <3>4. CASE given.texts # <<>>
      <4>1. FirstTexts(ms, k, i) \in SUBSET (1 .. i) /\ i \in FirstTexts(ms, k, i)
        BY <3>1, <3>4 DEF FirstTexts
      <4>2. Max(FirstTexts(ms, k, i)) = i
        BY <4>1, LastOfFirst
      <4>3. FirstValue(obj, ms, k, i) = given.texts[1]
        BY <4>1, <4>2 DEF FirstValue
      <4> HIDE DEF G, old
      <4> QED
        BY <2>1, <2>2, <3>1, <3>2, <3>4, <4>3
    <3> QED
      BY <3>3, <3>4
  <2>3. CASE k # new
    <3>1. G = FirstGiving(ms, k, i - 1)
      BY <1>1, <2>3 DEF FirstGiving
    <3>2. FirstValue(obj, ms, k, i) = FirstValue(obj, ms, k, i - 1)
      BY <3>1 DEF FirstValue, FirstTexts
    <3>3. k \in E
      BY <1>2, <2>3
    <3> HIDE DEF G, old, E
    <3> QED
      BY <1>3, <2>1, <2>3, <3>1, <3>2, <3>3
  <2> QED
    BY <2>2, <2>3
<1>6. Put(old, new, given) = [k \in D |-> IF k = new THEN taken ELSE old[k]]
  <2> HIDE DEF D, E, old, new, given
  <2> QED
    BY <1>2 DEF Put
<1>7. FirstOver(obj, ms, i) = [k \in D |-> FirstOver(obj, ms, i)[k]]
  BY DEF FirstOver
<1> HIDE DEF D, old, new, given, taken
<1> QED
  BY <1>5, <1>6, <1>7 DEF old, new, given

\* The elements of a sequence.
LEMMA TextElement ==
    ASSUME NEW S, NEW s \in Seq(S), NEW i \in 1 .. Len(s)
    PROVE  s[i] \in S /\ s[i] \in Range(s)
BY DEF Range

\* Append is joining a sequence of one element.
LEMMA TextAdded ==
    ASSUME NEW S, NEW s \in Seq(S), NEW c \in S
    PROVE  Append(s, c) \in Seq(S) /\ s \o <<c>> = Append(s, c)
OBVIOUS

\* Joining sequences.
LEMMA TextJoined ==
    ASSUME NEW S, NEW s \in Seq(S), NEW t \in Seq(S)
    PROVE  /\ s \o t \in Seq(S) /\ <<>> \in Seq(S) /\ <<>> \o t = t /\ s \o <<>> = s
           /\ Len(s \o t) = Len(s) + Len(t)
OBVIOUS

\* A key, of a parameter or of a header, is collected as it is.
LEMMA KeyRead ==
    ASSUME NEW key \in Text, NEW value, NEW obj, NEW state, NEW ends,
           \/ state = "paramKey" /\ ends = {" ", "="}
           \/ state = "header" /\ ends = {LF, ":"},
           Range(key) \cap ends = {}
    PROVE  Reads(TRUE, At(state, <<>>, value, obj), key, At(state, key, value, obj))
<1> DEFINE at == [u \in Text |-> At(state, u, value, obj)]
<1>1. ASSUME NEW i \in 1 .. Len(key), NEW u \in Text
      PROVE  NextState(TRUE, at[u], key[i]) = at[Append(u, key[i])]
  <2>1. key[i] \in Letters /\ key[i] \in Range(key) /\ Append(u, key[i]) \in Text
    BY TextElement, TextAdded DEF Text
  <2> DEFINE c == key[i]
  <2>2. c \notin ends /\ c \in Letters /\ Append(u, c) \in Text
    BY <2>1
  <2> HIDE DEF c
  <2>3. ReadHead(At(state, u, value, obj), c) = At(state, Append(u, c), value, obj)
    <3>1. CASE state = "paramKey" /\ ends = {" ", "="}
      BY <2>2, <3>1 DEF ReadHead, At
    <3>2. CASE state = "header" /\ ends = {LF, ":"}
      BY <2>2, <3>2 DEF ReadHead, At
    <3> QED
      BY <3>1, <3>2
  <2>4. at[u] = At(state, u, value, obj) /\ at[Append(u, c)] = At(state, Append(u, c), value, obj)
    BY <2>2
  <2> HIDE DEF at
  <2> QED
    BY <2>3, <2>4 DEF NextState, c
<1>2. <<>> \in Text /\ <<>> \o key = key
  BY TextJoined DEF Text
<1>3. at[<<>>] = At(state, <<>>, value, obj) /\ at[key] = At(state, key, value, obj)
  BY <1>2
<1> HIDE DEF at
<1>4. Reads(TRUE, at[<<>>], key, at[<<>> \o key])
  BY <1>1, <1>2, Collects
<1> QED
  BY <1>2, <1>3, <1>4

\* A value is collected as what its characters stand for.
LEMMA ValueRead ==
    ASSUME NEW key, NEW v \in Text, NEW e \in Text, NEW w \in Text, NEW obj,
           NEW state \in {"route", "paramValue", "headerValue", "protocol"},
           Len(e) = Len(v),
           \A i \in 1 .. Len(v) :
               /\ Decoded(state, e[i]) = <<v[i]>>
               /\ state = "route" => e[i] \notin {" ", "?"}
               /\ state = "paramValue" => e[i] \notin {" ", "&"}
               /\ state \in {"headerValue", "protocol"} => e[i] # LF
    PROVE  Reads(TRUE, At(state, key, w, obj), e, At(state, key, w \o v, obj))
<1> DEFINE at == [u \in Text |-> At(state, key, u, obj)]
<1>1. ASSUME NEW i \in 1 .. Len(v), NEW u \in Text
      PROVE  NextState(TRUE, at[u], e[i]) = at[Append(u, v[i])]
  <2>1. v[i] \in Letters
    BY TextElement DEF Text
  <2>2. Append(u, v[i]) \in Text /\ u \o <<v[i]>> = Append(u, v[i])
    BY <2>1, TextAdded DEF Text
  <2> DEFINE c == e[i]
             x == v[i]
  <2>3. /\ Decoded(state, c) = <<x>> /\ u \o <<x>> = Append(u, x)
        /\ state = "route" => c \notin {" ", "?"}
        /\ state = "paramValue" => c \notin {" ", "&"}
        /\ state \in {"headerValue", "protocol"} => c # LF
    BY <2>2
  <2> HIDE DEF c, x
  <2>4. ReadHead(At(state, key, u, obj), c) = [At(state, key, u, obj) EXCEPT !.value = @ \o Decoded(state, c)]
    <3> DEFINE p == At(state, key, u, obj)
    <3>1. p.state = state /\ p.skip = FALSE
      BY DEF At
    <3> HIDE DEF p
    <3>2. ReadHead(p, c) = [p EXCEPT !.value = @ \o Decoded(state, c)]
      <4>1. CASE state = "route"
        BY <2>3, <3>1, <4>1 DEF ReadHead
      <4>2. CASE state = "paramValue"
        BY <2>3, <3>1, <4>2 DEF ReadHead
      <4>3. CASE state = "headerValue"
        BY <2>3, <3>1, <4>3 DEF ReadHead
      <4>4. CASE state = "protocol"
        BY <2>3, <3>1, <4>4 DEF ReadHead
      <4> QED
        BY <4>1, <4>2, <4>3, <4>4
    <3> QED
      BY <3>2 DEF p
  <2>5. ReadHead(At(state, key, u, obj), c) = At(state, key, Append(u, x), obj)
    <3> DEFINE p == At(state, key, u, obj)
               q == ReadHead(p, c)
               z == p.value \o Decoded(state, c)
    <3>1. p.value = u
      BY DEF At
    <3>2. z = Append(u, x)
      BY <2>3, <3>1
    <3>3. q = [p EXCEPT !.value = z]
      BY <2>4
    <3> HIDE DEF p, q, z
    <3>4. p = At(state, key, u, obj)
      BY DEF p
    <3>5. q = At(state, key, z, obj)
      BY <3>3, <3>4 DEF At
    <3> QED
      BY <3>2, <3>5 DEF p, q
  <2>6. at[u] = At(state, key, u, obj) /\ at[Append(u, x)] = At(state, key, Append(u, x), obj)
    BY <2>2 DEF x
  <2> HIDE DEF at
  <2> QED
    BY <2>5, <2>6 DEF NextState, c, x
<1>2. w \o v \in Text
  BY TextJoined DEF Text
<1>3. at[w] = At(state, key, w, obj) /\ at[w \o v] = At(state, key, w \o v, obj)
  BY <1>2
<1> HIDE DEF at
<1>4. Reads(TRUE, at[w], e, at[w \o v])
  BY <1>1, Collects
<1> QED
  BY <1>3, <1>4

\* What follows the empty line is the body.

\* Sequences of one and of two elements.
LEMMA LettersGeneric ==
    ASSUME NEW S, NEW c \in S, NEW d \in S
    PROVE  <<c>> \in Seq(S) /\ <<c, d>> \in Seq(S) /\ <<c, d>> = <<c>> \o <<d>>
<1>1. <<c>> \in Seq(S) /\ <<c, d>> \in Seq(S)
  OBVIOUS
<1>2. ASSUME NEW q, q = <<c>> \o <<d>> PROVE q = <<c, d>>
  <2>1. q \in Seq(S) /\ Len(q) = 2 /\ q[1] = c /\ q[2] = d
    BY <1>2
  <2> QED
    BY <2>1
<1> QED
  BY <1>1, <1>2

\* Texts of one and of two characters.
LEMMA LettersText ==
    ASSUME NEW c \in Letters, NEW d \in Letters
    PROVE  <<c>> \in Text /\ <<c, d>> \in Text /\ <<c, d>> = <<c>> \o <<d>>
BY LettersGeneric DEF Text

\* A function from 1 .. n is a sequence.
LEMMA SequenceOf ==
    ASSUME NEW S, NEW n \in Nat, NEW f \in [1 .. n -> S]
    PROVE  f \in Seq(S) /\ Len(f) = n
OBVIOUS

\* A value as it travels in a query has as many characters as it had.
LEMMA EncodedText ==
    ASSUME NEW v \in Text
    PROVE  /\ Encoded(v) \in Text /\ Len(Encoded(v)) = Len(v)
           /\ \A i \in 1 .. Len(v) : Encoded(v)[i] = CASE v[i] = " " -> "+" [] v[i] = LF -> "%0A" [] OTHER -> v[i]
<1>1. Len(v) \in Nat /\ DOMAIN v = 1 .. Len(v) /\ \A i \in 1 .. Len(v) : v[i] \in Letters
  <2>1. ASSUME NEW i \in 1 .. Len(v) PROVE v[i] \in Letters
    BY TextElement DEF Text
  <2> QED
    BY <2>1 DEF Text
<1> DEFINE e == [i \in 1 .. Len(v) |-> CASE v[i] = " " -> "+" [] v[i] = LF -> "%0A" [] OTHER -> v[i]]
<1>2. Encoded(v) = e
  BY <1>1 DEF Encoded
<1>3. e \in [1 .. Len(v) -> Letters]
  BY <1>1 DEF Letters
<1>4. e \in Text /\ Len(e) = Len(v)
  <2> HIDE DEF e
  <2> QED
    BY <1>1, <1>3, SequenceOf DEF Text
<1> QED
  BY <1>2, <1>4

\* What no part of a request holds (some literals stop the provers, when they see them).
ParamKeyStops == {" ", "="}
ParamStops == {"&", "+", "%", "%26", "%0A", CR}
HeaderStops == {"%", "%26", "%0A", CR, LF}

\* The parser undoes what became of a character in a query.
LEMMA DecodedEncoded ==
    ASSUME NEW c, c \notin ParamStops, NEW e,
           e = CASE c = " " -> "+" [] c = LF -> "%0A" [] OTHER -> c
    PROVE  Decoded("paramValue", e) = <<c>> /\ e \notin {" ", "&"}
<1>1. LF # " " /\ LF # "+" /\ LF # CR
  BY DEF LF, CR
<1>2. CASE c = " "
  BY <1>1, <1>2 DEF Decoded, CR, ParamStops
<1>3. CASE c = LF
  BY <1>1, <1>3 DEF Decoded, CR, ParamStops
<1>4. CASE c # " " /\ c # LF
  BY <1>1, <1>4 DEF Decoded, ParamStops
<1> QED
  BY <1>2, <1>3, <1>4

\* A parameter is read as it was before it was encoded.
LEMMA ParamRead ==
    ASSUME NEW p, NEW sep \in Text, NEW x, NEW obj, Reads(TRUE, p, sep, At("paramKey", <<>>, x, obj)),
           NEW key \in Text, Range(key) \cap ParamKeyStops = {},
           NEW v \in Text, Range(v) \cap ParamStops = {}
    PROVE  Reads(TRUE, p, sep \o key \o <<"=">> \o Encoded(v), At("paramValue", key, v, obj))
<1> DEFINE e == Encoded(v)
<1>1. e \in Text /\ Len(e) = Len(v)
  BY EncodedText
<1>2. ASSUME NEW i \in 1 .. Len(v)
      PROVE  Decoded("paramValue", e[i]) = <<v[i]>> /\ e[i] \notin {" ", "&"}
  <2>1. v[i] \in Range(v)
    BY TextElement DEF Text
  <2>2. e[i] = CASE v[i] = " " -> "+" [] v[i] = LF -> "%0A" [] OTHER -> v[i]
    BY EncodedText
  <2> HIDE DEF e
  <2> QED
    BY <2>1, <2>2, DecodedEncoded
<1> HIDE DEF e
<1>3. <<>> \in Text /\ <<>> \o v = v /\ <<"=">> \in Text
  <2>1. "=" \in Letters
    BY DEF Letters
  <2> QED
    BY <2>1, TextJoined, LettersText DEF Text
<1>4. Reads(TRUE, At("paramKey", <<>>, x, obj), key, At("paramKey", key, x, obj))
  BY KeyRead DEF ParamKeyStops
<1>5. Reads(TRUE, At("paramKey", key, x, obj), <<"=">>, At("paramValue", key, <<>>, obj))
  <2>1. ReadHead(At("paramKey", key, x, obj), "=") = At("paramValue", key, <<>>, obj)
    BY DEF ReadHead, At
  <2> QED
    BY <2>1, ReadsOne DEF NextState
<1>6. Reads(TRUE, At("paramValue", key, <<>>, obj), e, At("paramValue", key, v, obj))
  <2>1. Reads(TRUE, At("paramValue", key, <<>>, obj), e, At("paramValue", key, <<>> \o v, obj))
    BY <1>1, <1>2, <1>3, ValueRead
  <2> QED
    BY <1>3, <2>1
<1>7. sep \o key \in Text /\ sep \o key \o <<"=">> \in Text
  BY <1>3, TextJoined DEF Text
<1>8. Reads(TRUE, p, sep \o key, At("paramKey", key, x, obj))
  BY <1>4, ReadsJoin
<1>9. Reads(TRUE, p, sep \o key \o <<"=">>, At("paramValue", key, <<>>, obj))
  BY <1>3, <1>5, <1>7, <1>8, ReadsJoin
<1> QED
  BY <1>1, <1>6, <1>7, <1>9, ReadsJoin DEF e

\* A carriage return that ends a value leaves no trace.
LEMMA CarriageReturnRead ==
    ASSUME NEW state \in {"protocol", "headerValue"}, NEW key, NEW v \in Text, NEW obj
    PROVE  Reads(TRUE, At(state, key, v, obj), <<CR>>, At(state, key, v, obj))
<1>1. CR # LF /\ CR # " " /\ CR # "+" /\ CR # "%26" /\ CR # "%0A" /\ CR # ":" /\ CR # "=" /\ CR # "&" /\ CR # "?"
  BY DEF CR, LF
<1>2. v \o <<>> = v /\ Decoded(state, CR) = <<>>
  <2>1. v \o <<>> = v
    BY TextJoined DEF Text
  <2>2. Decoded(state, CR) = <<>>
    BY <1>1 DEF Decoded
  <2> QED
    BY <2>1, <2>2
<1> DEFINE p == At(state, key, v, obj)
           q == ReadHead(p, CR)
           z == p.value \o Decoded(state, CR)
<1>3. p.state = state /\ p.skip = FALSE /\ p.value = v
  BY DEF At
<1>4. p = At(state, key, v, obj) /\ z = v
  BY <1>2, <1>3
<1> HIDE DEF p
<1>5. q = [p EXCEPT !.value = z]
  BY <1>1, <1>3 DEF ReadHead
<1> HIDE DEF q, z
<1>6. q = At(state, key, z, obj)
  BY <1>4, <1>5 DEF At
<1>7. q = p
  BY <1>4, <1>6
<1> QED
  BY <1>4, <1>7, ReadsOne DEF q, NextState

\* A header is read up to the line feed that ends it.
LEMMA HeaderRead ==
    ASSUME NEW x, NEW obj, NEW key \in Text, Range(key) \cap {":", LF} = {},
           NEW v \in Text, Range(v) \cap HeaderStops = {}
    PROVE  /\ key \o <<":", " ">> \o v \o <<CR, LF>> \in Text
           /\ Reads(TRUE, At("header", <<>>, x, obj), key \o <<":", " ">> \o v \o <<CR, LF>>,
                    At("header", <<>>, v, Put(obj, key, Given(v))))
<1> DEFINE mid == At("headerValue", key, <<>>, obj)
<1>1. Reads(TRUE, At("header", <<>>, x, obj), key, At("header", key, x, obj))
  BY KeyRead
<1>2. /\ <<":">> \in Text /\ <<" ">> \in Text /\ <<CR>> \in Text /\ <<LF>> \in Text
      /\ <<":", " ">> \in Text /\ <<CR, LF>> \in Text
      /\ <<":", " ">> = <<":">> \o <<" ">> /\ <<CR, LF>> = <<CR>> \o <<LF>>
  <2>1. ":" \in Letters /\ " " \in Letters /\ CR \in Letters /\ LF \in Letters
    BY DEF Letters
  <2> QED
    BY <2>1, LettersText
<1>13. <<>> \in Text /\ <<>> \o v = v
  BY TextJoined DEF Text
<1>3. Reads(TRUE, At("header", key, x, obj), <<":", " ">>, mid)
  <2> DEFINE s == ReadHead(At("header", key, x, obj), ":")
  <2>1. ReadHead(s, " ") = mid
    <3>1. s = [state |-> "headerValue", key |-> key, value |-> <<>>, skip |-> TRUE, body |-> <<>>, obj |-> obj]
      BY DEF ReadHead, At, LF
    <3> HIDE DEF s
    <3>2. s.state = "headerValue" /\ s.skip = TRUE
      BY <3>1
    <3>3. ReadHead(s, " ") = [s EXCEPT !.skip = FALSE]
      BY <3>2 DEF ReadHead, LF
    <3> QED
      BY <3>1, <3>3 DEF At
  <2>2. Reads(TRUE, At("header", key, x, obj), <<":">>, s)
    BY ReadsOne DEF NextState
  <2> HIDE DEF s
  <2>3. Reads(TRUE, s, <<" ">>, mid)
    BY <2>1, ReadsOne DEF NextState
  <2> QED
    BY <1>2, <2>2, <2>3, ReadsJoin
<1>4. Reads(TRUE, mid, v, At("headerValue", key, v, obj))
  <2>1. ASSUME NEW i \in 1 .. Len(v)
        PROVE  Decoded("headerValue", v[i]) = <<v[i]>> /\ v[i] # LF
    <3>1. v[i] \in Range(v)
      BY TextElement DEF Text
    <3> DEFINE c == v[i]
    <3>2. c \notin HeaderStops
      BY <3>1
    <3> HIDE DEF c
    <3>3. Decoded("headerValue", c) = <<c>>
      BY <3>2 DEF Decoded, HeaderStops
    <3> QED
      BY <3>2, <3>3 DEF c, HeaderStops
  <2>2. Reads(TRUE, mid, v, At("headerValue", key, <<>> \o v, obj))
    BY <1>13, <2>1, ValueRead
  <2> QED
    BY <1>13, <2>2
<1>5. Reads(TRUE, At("headerValue", key, v, obj), <<CR>>, At("headerValue", key, v, obj))
  BY CarriageReturnRead
<1>6. Reads(TRUE, At("headerValue", key, v, obj), <<LF>>, At("header", <<>>, v, Put(obj, key, Given(v))))
  <2>1. ReadHead(At("headerValue", key, v, obj), LF) = At("header", <<>>, v, Put(obj, key, Given(v)))
    BY DEF ReadHead, At
  <2> QED
    BY <2>1, ReadsOne DEF NextState
<1>7. Reads(TRUE, At("headerValue", key, v, obj), <<CR, LF>>,
            At("header", <<>>, v, Put(obj, key, Given(v))))
  BY <1>2, <1>5, <1>6, ReadsJoin
<1> HIDE DEF mid
<1>8. <<":", " ">> \in Text /\ <<CR, LF>> \in Text
  BY <1>2
<1> DEFINE colon == <<":", " ">>
           eol == <<CR, LF>>
<1> HIDE DEF colon, eol
<1>9. key \o colon \in Text /\ key \o colon \o v \in Text /\ key \o colon \o v \o eol \in Text
  <2>1. colon \in Text /\ eol \in Text
    BY <1>8 DEF colon, eol
  <2> QED
    BY <2>1, TextJoined DEF Text
<1>10. Reads(TRUE, At("header", <<>>, x, obj), key \o colon, mid)
  BY <1>1, <1>3, <1>8, ReadsJoin DEF colon
<1>11. Reads(TRUE, At("header", <<>>, x, obj), key \o colon \o v, At("headerValue", key, v, obj))
  BY <1>4, <1>9, <1>10, ReadsJoin
<1>12. Reads(TRUE, At("header", <<>>, x, obj), key \o colon \o v \o eol,
             At("header", <<>>, v, Put(obj, key, Given(v))))
  <2>1. eol \in Text /\ Reads(TRUE, At("headerValue", key, v, obj), eol,
                              At("header", <<>>, v, Put(obj, key, Given(v))))
    BY <1>7, <1>8 DEF eol
  <2> QED
    BY <2>1, <1>9, <1>11, ReadsJoin
<1> QED
  BY <1>9, <1>12 DEF colon, eol

\* k=v pairs are one text after the other, each but the first behind an ampersand.
PairText(ps, i) == (IF i = 1 THEN <<>> ELSE <<"&">>) \o ps[i][1] \o <<"=">> \o ps[i][2]

\* The pairs, as FlattenSeq puts them together.
LEMMA PairsText ==
    ASSUME NEW n \in Nat, NEW ps, DOMAIN ps = 1 .. n,
           \A i \in 1 .. n : ps[i][1] \in Text /\ ps[i][2] \in Text
    PROVE  \E seqs \in Seq(Text) : /\ Len(seqs) = n /\ Pairs(ps) = FlattenSeq(seqs)
                                   /\ \A i \in 1 .. n : seqs[i] = PairText(ps, i)
<1> DEFINE seqs == [i \in 1 .. n |-> PairText(ps, i)]
<1>1. ASSUME NEW i \in 1 .. n PROVE PairText(ps, i) \in Text
  <2> DEFINE sep == IF i = 1 THEN <<>> ELSE <<"&">>
             k == ps[i][1]
             v == ps[i][2]
  <2>1. sep \in Text /\ <<"=">> \in Text /\ k \in Text /\ v \in Text
    <3>1. "&" \in Letters /\ "=" \in Letters
      BY DEF Letters
    <3>2. <<"&">> \in Text /\ <<"=">> \in Text /\ <<>> \in Text
      BY <3>1, LettersText DEF Text
    <3> QED
      BY <3>2
  <2>2. PairText(ps, i) = sep \o k \o <<"=">> \o v
    BY DEF PairText
  <2> HIDE DEF sep, k, v
  <2>3. sep \o k \in Text
    BY <2>1, TextJoined DEF Text
  <2>4. sep \o k \o <<"=">> \in Text
    BY <2>1, <2>3, TextJoined DEF Text
  <2> QED
    BY <2>1, <2>2, <2>4, TextJoined DEF Text
<1>2. seqs \in [1 .. n -> Text]
  BY <1>1
<1>3. Pairs(ps) = FlattenSeq(seqs)
  BY DEF Pairs, PairText
<1>4. \A i \in 1 .. n : seqs[i] = PairText(ps, i)
  OBVIOUS
<1> HIDE DEF seqs
<1>5. seqs \in Seq(Text) /\ Len(seqs) = n
  BY <1>2, SequenceOf
<1> QED
  BY <1>3, <1>4, <1>5

\* The fields of a list of keys and values without these characters.
LEMMA PairParts ==
    ASSUME NEW keyEnds, NEW valueEnds, NEW ps, Without(ps, keyEnds, valueEnds)
    PROVE  /\ Len(ps) \in Nat /\ DOMAIN ps = 1 .. Len(ps) /\ (ps = <<>> <=> Len(ps) = 0)
           /\ \A i \in 1 .. Len(ps) :
                /\ ps[i][1] \in Text /\ Range(ps[i][1]) \cap keyEnds = {}
                /\ ps[i][2] \in Text /\ Range(ps[i][2]) \cap valueEnds = {}
<1> DEFINE S == Seq(STRING)
<1>1. ps \in Seq(S \X S)
  BY DEF Without
<1>2. S \subseteq Text
  <2>1. STRING \subseteq Letters
    BY DEF Letters
  <2> QED
    BY <2>1, SeqMonotonic DEF Text
<1> HIDE DEF S
<1>3. Len(ps) \in Nat /\ DOMAIN ps = 1 .. Len(ps) /\ (ps = <<>> <=> Len(ps) = 0)
  BY <1>1
<1>4. ASSUME NEW i \in 1 .. Len(ps)
      PROVE  /\ ps[i][1] \in Text /\ Range(ps[i][1]) \cap keyEnds = {}
             /\ ps[i][2] \in Text /\ Range(ps[i][2]) \cap valueEnds = {}
  <2>1. ps[i] \in S \X S
    BY <1>1
  <2>2. ps[i][1] \in S /\ ps[i][2] \in S
    BY <2>1
  <2> QED
    BY <1>2, <1>3, <2>2 DEF Without
<1> QED
  BY <1>3, <1>4

\* A query is read up to its last value, which whatever comes behind it saves.
LEMMA QueryRead ==
    ASSUME NEW ps, Without(ps, ParamKeyStops, ParamStops), ps # <<>>,
           NEW x, NEW obj, IsObject(obj)
    PROVE  /\ Pairs(EncodedPairs(ps)) \in Text
           /\ \E k, v : /\ Reads(TRUE, At("paramKey", <<>>, x, obj), Pairs(EncodedPairs(ps)),
                                 At("paramValue", k, v, FirstOver(obj, Members(ps), Len(ps) - 1)))
                        /\ Save(FirstOver(obj, Members(ps), Len(ps) - 1), k, v) = Overlaid(obj, Members(ps))
<1> DEFINE n == Len(ps)
           es == EncodedPairs(ps)
           ms == Members(ps)
           q == [i \in 0 .. n |-> IF i = 0 THEN At("paramKey", <<>>, x, obj)
                                  ELSE At("paramValue", ps[i][1], ps[i][2], FirstOver(obj, ms, i - 1))]
<1>1. n \in Nat /\ n # 0 /\ DOMAIN ps = 1 .. n
  BY PairParts
<1>10. \A i \in 1 .. n : /\ ps[i][1] \in Text /\ Range(ps[i][1]) \cap ParamKeyStops = {}
                         /\ ps[i][2] \in Text /\ Range(ps[i][2]) \cap ParamStops = {}
  BY PairParts
<1>2. /\ DOMAIN es = 1 .. n
      /\ \A i \in 1 .. n : es[i][1] = ps[i][1] /\ es[i][2] = Encoded(ps[i][2])
  BY <1>1 DEF EncodedPairs
<1>3. DOMAIN ms = 1 .. n /\ \A i \in 1 .. n : ms[i][1] = ps[i][1] /\ ms[i][2] = MemberOf(ps[i][2])
  BY <1>1 DEF Members
<1> HIDE DEF n, es, ms
<1>4. PICK seqs \in Seq(Text) : /\ Len(seqs) = n /\ Pairs(es) = FlattenSeq(seqs)
                                /\ \A i \in 1 .. n : seqs[i] = PairText(es, i)
  <2>1. \A i \in 1 .. n : es[i][1] \in Text /\ es[i][2] \in Text
    BY <1>10, <1>2, EncodedText
  <2> QED
    BY <1>1, <1>2, <2>1, PairsText
<1>5. ASSUME NEW i \in 1 .. n
      PROVE  Save(FirstOver(obj, ms, i - 1), ps[i][1], ps[i][2]) = FirstOver(obj, ms, i)
  <2>1. i \in Nat \ {0}
    BY <1>1
  <2>2. FirstOver(obj, ms, i) = Put(FirstOver(obj, ms, i - 1), ms[i][1], ms[i][2])
    BY <2>1, OverNext
  <2>3. ms[i][1] = ps[i][1] /\ ms[i][2] = MemberOf(ps[i][2])
    BY <1>3
  <2> QED
    BY <2>2, <2>3 DEF Save
<1>6. ASSUME NEW i \in 1 .. n PROVE Reads(TRUE, q[i - 1], seqs[i], q[i])
  <2> DEFINE o == FirstOver(obj, ms, i - 1)
             sep == IF i = 1 THEN <<>> ELSE <<"&">>
  <2>1. seqs[i] = sep \o ps[i][1] \o <<"=">> \o Encoded(ps[i][2])
    BY <1>2, <1>4 DEF PairText
  <2>2. sep \in Text
    <3>1. "&" \in Letters
      BY DEF Letters
    <3> QED
      BY <3>1, LettersText, TextJoined DEF Text
  <2>3. i - 1 \in 0 .. n /\ i \in 0 .. n /\ i # 0
    BY <1>1
  <2>4. q[i] = At("paramValue", ps[i][1], ps[i][2], o)
    BY <2>3
  <2>5. \E y : Reads(TRUE, q[i - 1], sep, At("paramKey", <<>>, y, o))
    <3>1. CASE i = 1
      <4>1. q[i - 1] = At("paramKey", <<>>, x, obj)
        BY <2>3, <3>1
      <4>2. o = obj
        BY <3>1, OverNone
      <4> QED
        BY <3>1, <4>1, <4>2, ReadsNothing
    <3>2. CASE i # 1
      <4> DEFINE j == i - 1
                 p == At("paramValue", ps[j][1], ps[j][2], FirstOver(obj, ms, j - 1))
      <4>1. j \in 1 .. n /\ j # 0 /\ j \in 0 .. n
        BY <1>1, <3>2
      <4>2. q[j] = p
        BY <4>1
      <4>3. Save(FirstOver(obj, ms, j - 1), ps[j][1], ps[j][2]) = o
        BY <1>5, <4>1
      <4> HIDE DEF q, j, o
      <4>4. ReadHead(p, "&") = At("paramKey", <<>>, ps[j][2], o)
        <5>1. ReadHead(p, "&") = At("paramKey", <<>>, ps[j][2],
                                    Save(FirstOver(obj, ms, j - 1), ps[j][1], ps[j][2]))
          BY DEF ReadHead, At
        <5> QED
          BY <4>3, <5>1
      <4> HIDE DEF p
      <4>5. Reads(TRUE, p, <<"&">>, At("paramKey", <<>>, ps[j][2], o))
        BY <4>4, ReadsOne DEF NextState
      <4> QED
        BY <3>2, <4>2, <4>5 DEF j
    <3> QED
      BY <3>1, <3>2
  <2> HIDE DEF q, sep, o
  <2>6. PICK y : Reads(TRUE, q[i - 1], sep, At("paramKey", <<>>, y, o))
    BY <2>5
  <2>7. /\ ps[i][1] \in Text /\ Range(ps[i][1]) \cap ParamKeyStops = {}
        /\ ps[i][2] \in Text /\ Range(ps[i][2]) \cap ParamStops = {}
    BY <1>10
  <2>8. Reads(TRUE, q[i - 1], sep \o ps[i][1] \o <<"=">> \o Encoded(ps[i][2]),
              At("paramValue", ps[i][1], ps[i][2], o))
    BY <2>2, <2>6, <2>7, ParamRead
  <2> QED
    BY <2>1, <2>4, <2>8
<1>7. /\ q[0] = At("paramKey", <<>>, x, obj)
      /\ q[n] = At("paramValue", ps[n][1], ps[n][2], FirstOver(obj, ms, n - 1))
  BY <1>1
<1> HIDE DEF q
<1>8. Reads(TRUE, q[0], FlattenSeq(seqs), q[n]) /\ FlattenSeq(seqs) \in Text
  BY <1>4, <1>6, ReadsParts
<1>9. Save(FirstOver(obj, ms, n - 1), ps[n][1], ps[n][2]) = Overlaid(obj, ms)
  BY <1>1, <1>3, <1>5, OverAll
<1> QED
  BY <1>4, <1>7, <1>8, <1>9 DEF es, ms, n

\* The parser of a form.
FormAt(state, key, value, obj) == [state |-> state, key |-> key, value |-> value, obj |-> obj]

\* A field of a form is read as it was written.
LEMMA FieldRead ==
    ASSUME NEW p, NEW sep \in Text, NEW obj, Reads(FALSE, p, sep, FormAt("key", <<>>, <<>>, obj)),
           NEW key \in Text, Range(key) \cap {"&", "="} = {},
           NEW v \in Text, Range(v) \cap {"&", "="} = {}
    PROVE  Reads(FALSE, p, sep \o key \o <<"=">> \o v, FormAt("value", key, v, obj))
<1>1. <<>> \in Text /\ <<>> \o v = v /\ <<>> \o key = key /\ <<"=">> \in Text
  <2>1. "=" \in Letters
    BY DEF Letters
  <2> QED
    BY <2>1, TextJoined, LettersText DEF Text
<1>2. Reads(FALSE, FormAt("key", <<>>, <<>>, obj), key, FormAt("key", key, <<>>, obj))
  <2> DEFINE at == [u \in Text |-> FormAt("key", u, <<>>, obj)]
  <2>1. ASSUME NEW i \in 1 .. Len(key), NEW u \in Text
        PROVE  NextState(FALSE, at[u], key[i]) = at[Append(u, key[i])]
    <3> DEFINE c == key[i]
    <3>1. c \notin {"&", "="} /\ Append(u, c) \in Text
      BY TextElement, TextAdded DEF Text
    <3> HIDE DEF c
    <3>2. ReadForm(FormAt("key", u, <<>>, obj), c) = FormAt("key", Append(u, c), <<>>, obj)
      BY <3>1 DEF ReadForm, FormAt
    <3> QED
      BY <3>1, <3>2 DEF NextState, c
  <2>2. at[<<>>] = FormAt("key", <<>>, <<>>, obj) /\ at[key] = FormAt("key", key, <<>>, obj)
    BY <1>1
  <2> HIDE DEF at
  <2>3. Reads(FALSE, at[<<>>], key, at[<<>> \o key])
    BY <1>1, <2>1, Collects
  <2> QED
    BY <1>1, <2>2, <2>3
<1>3. Reads(FALSE, FormAt("key", key, <<>>, obj), <<"=">>, FormAt("value", key, <<>>, obj))
  <2>1. ReadForm(FormAt("key", key, <<>>, obj), "=") = FormAt("value", key, <<>>, obj)
    BY DEF ReadForm, FormAt
  <2> QED
    BY <2>1, ReadsOne DEF NextState
<1>4. Reads(FALSE, FormAt("value", key, <<>>, obj), v, FormAt("value", key, v, obj))
  <2> DEFINE at == [u \in Text |-> FormAt("value", key, u, obj)]
  <2>1. ASSUME NEW i \in 1 .. Len(v), NEW u \in Text
        PROVE  NextState(FALSE, at[u], v[i]) = at[Append(u, v[i])]
    <3> DEFINE c == v[i]
    <3>1. c \notin {"&", "="} /\ Append(u, c) \in Text
      BY TextElement, TextAdded DEF Text
    <3> HIDE DEF c
    <3>2. ReadForm(FormAt("value", key, u, obj), c) = FormAt("value", key, Append(u, c), obj)
      BY <3>1 DEF ReadForm, FormAt
    <3> QED
      BY <3>1, <3>2 DEF NextState, c
  <2>2. at[<<>>] = FormAt("value", key, <<>>, obj) /\ at[v] = FormAt("value", key, v, obj)
    BY <1>1
  <2> HIDE DEF at
  <2>3. Reads(FALSE, at[<<>>], v, at[<<>> \o v])
    BY <1>1, <2>1, Collects
  <2> QED
    BY <1>1, <2>2, <2>3
<1>5. sep \o key \in Text /\ sep \o key \o <<"=">> \in Text
  BY <1>1, TextJoined DEF Text
<1>6. Reads(FALSE, p, sep \o key, FormAt("key", key, <<>>, obj))
  BY <1>2, ReadsJoin
<1>7. Reads(FALSE, p, sep \o key \o <<"=">>, FormAt("value", key, <<>>, obj))
  BY <1>1, <1>3, <1>5, <1>6, ReadsJoin
<1> QED
  BY <1>4, <1>5, <1>7, ReadsJoin

\* A form is read as it was written.
LEMMA FormRead ==
    ASSUME NEW ps, Without(ps, {"&", "="}, {"&", "="}), NEW obj, IsObject(obj)
    PROVE  Pairs(ps) \in Text /\ ParseForm(obj, Pairs(ps)) = Overlaid(obj, Members(ps))
<1> DEFINE n == Len(ps)
           ms == Members(ps)
           start == FormAt("key", <<>>, <<>>, obj)
           q == [i \in 0 .. n |-> IF i = 0 THEN start
                                  ELSE FormAt("value", ps[i][1], ps[i][2], FirstOver(obj, ms, i - 1))]
<1>1. n \in Nat /\ DOMAIN ps = 1 .. n
  BY PairParts
<1>2. \A i \in 1 .. n : /\ ps[i][1] \in Text /\ Range(ps[i][1]) \cap {"&", "="} = {}
                        /\ ps[i][2] \in Text /\ Range(ps[i][2]) \cap {"&", "="} = {}
  BY PairParts
<1>3. DOMAIN ms = 1 .. n /\ \A i \in 1 .. n : ms[i][1] = ps[i][1] /\ ms[i][2] = MemberOf(ps[i][2])
  BY <1>1 DEF Members
<1> HIDE DEF n, ms, start
<1>4. PICK seqs \in Seq(Text) : /\ Len(seqs) = n /\ Pairs(ps) = FlattenSeq(seqs)
                                /\ \A i \in 1 .. n : seqs[i] = PairText(ps, i)
  BY <1>1, <1>2, PairsText
<1>5. ASSUME NEW i \in 1 .. n
      PROVE  Save(FirstOver(obj, ms, i - 1), ps[i][1], ps[i][2]) = FirstOver(obj, ms, i)
  <2>1. i \in Nat \ {0}
    BY <1>1
  <2>2. FirstOver(obj, ms, i) = Put(FirstOver(obj, ms, i - 1), ms[i][1], ms[i][2])
    BY <2>1, OverNext
  <2>3. ms[i][1] = ps[i][1] /\ ms[i][2] = MemberOf(ps[i][2])
    BY <1>3
  <2> QED
    BY <2>2, <2>3 DEF Save
<1>6. ASSUME NEW i \in 1 .. n PROVE Reads(FALSE, q[i - 1], seqs[i], q[i])
  <2> DEFINE o == FirstOver(obj, ms, i - 1)
             sep == IF i = 1 THEN <<>> ELSE <<"&">>
  <2>1. seqs[i] = sep \o ps[i][1] \o <<"=">> \o ps[i][2]
    BY <1>4 DEF PairText
  <2>2. sep \in Text
    <3>1. "&" \in Letters
      BY DEF Letters
    <3> QED
      BY <3>1, LettersText, TextJoined DEF Text
  <2>3. i - 1 \in 0 .. n /\ i \in 0 .. n /\ i # 0
    BY <1>1
  <2>4. q[i] = FormAt("value", ps[i][1], ps[i][2], o)
    BY <2>3
  <2>5. Reads(FALSE, q[i - 1], sep, FormAt("key", <<>>, <<>>, o))
    <3>1. CASE i = 1
      <4>1. q[i - 1] = FormAt("key", <<>>, <<>>, obj)
        BY <2>3, <3>1 DEF start
      <4>2. o = obj
        BY <3>1, OverNone
      <4> QED
        BY <3>1, <4>1, <4>2, ReadsNothing
    <3>2. CASE i # 1
      <4> DEFINE j == i - 1
                 p == FormAt("value", ps[j][1], ps[j][2], FirstOver(obj, ms, j - 1))
      <4>1. j \in 1 .. n /\ j # 0 /\ j \in 0 .. n
        BY <1>1, <3>2
      <4>2. q[j] = p
        BY <4>1
      <4>3. Save(FirstOver(obj, ms, j - 1), ps[j][1], ps[j][2]) = o
        BY <1>5, <4>1
      <4> HIDE DEF q, j, o
      <4>4. ReadForm(p, "&") = FormAt("key", <<>>, <<>>, o)
        <5>1. ReadForm(p, "&") = FormAt("key", <<>>, <<>>, Save(FirstOver(obj, ms, j - 1), ps[j][1], ps[j][2]))
          BY DEF ReadForm, FormAt
        <5> QED
          BY <4>3, <5>1
      <4> HIDE DEF p
      <4>5. Reads(FALSE, p, <<"&">>, FormAt("key", <<>>, <<>>, o))
        BY <4>4, ReadsOne DEF NextState
      <4> QED
        BY <3>2, <4>2, <4>5 DEF j
    <3> QED
      BY <3>1, <3>2
  <2> HIDE DEF q, sep, o
  <2>6. /\ ps[i][1] \in Text /\ Range(ps[i][1]) \cap {"&", "="} = {}
        /\ ps[i][2] \in Text /\ Range(ps[i][2]) \cap {"&", "="} = {}
    BY <1>2
  <2>7. Reads(FALSE, q[i - 1], sep \o ps[i][1] \o <<"=">> \o ps[i][2], FormAt("value", ps[i][1], ps[i][2], o))
    BY <2>2, <2>5, <2>6, FieldRead
  <2> QED
    BY <2>1, <2>4, <2>7
<1>7. q[0] = start /\ (n # 0 => q[n] = FormAt("value", ps[n][1], ps[n][2], FirstOver(obj, ms, n - 1)))
  BY <1>1
<1> HIDE DEF q
<1>8. Reads(FALSE, q[0], FlattenSeq(seqs), q[n]) /\ FlattenSeq(seqs) \in Text
  BY <1>4, <1>6, ReadsParts
<1>9. FoldLeft(ReadForm, start, Pairs(ps)) = q[n]
  BY <1>4, <1>7, <1>8, FormFold
<1>10. ParseForm(obj, Pairs(ps)) = IF q[n].state = "value" THEN Save(q[n].obj, q[n].key, q[n].value)
                                   ELSE q[n].obj
  BY <1>9 DEF ParseForm, start, FormAt
<1>11. CASE n = 0
  <2>1. q[n].state = "key" /\ q[n].obj = obj
    BY <1>7, <1>11 DEF start, FormAt
  <2>2. FirstOver(obj, ms, n) = obj /\ FirstOver(obj, ms, n) = Overlaid(obj, ms)
    BY <1>1, <1>3, <1>11, OverNone, OverAll
  <2> QED
    BY <1>4, <1>8, <1>10, <2>1, <2>2 DEF ms
<1>12. CASE n # 0
  <2>1. /\ q[n].state = "value" /\ q[n].key = ps[n][1] /\ q[n].value = ps[n][2]
        /\ q[n].obj = FirstOver(obj, ms, n - 1)
    BY <1>7, <1>12 DEF FormAt
  <2>2. n \in 1 .. n
    BY <1>1, <1>12
  <2>3. FirstOver(obj, ms, n) = Overlaid(obj, ms)
    BY <1>1, <1>3, OverAll
  <2> QED
    BY <1>4, <1>5, <1>8, <1>10, <2>1, <2>2, <2>3 DEF ms
<1> QED
  BY <1>11, <1>12

\* A line of a header.
HeaderLine(h) == h[1] \o <<":", " ">> \o h[2] \o <<CR, LF>>

\* The headers are read one after the other.
LEMMA HeadersRead ==
    ASSUME NEW hs, Without(hs, {":", LF}, HeaderStops), NEW x, NEW obj, IsObject(obj),
           NEW lines, lines = FlattenSeq([i \in DOMAIN hs |-> HeaderLine(hs[i])])
    PROVE  /\ lines \in Text
           /\ \E v : Reads(TRUE, At("header", <<>>, x, obj), lines,
                           At("header", <<>>, v, Overlaid(obj, GivenTexts(hs))))
<1> DEFINE n == Len(hs)
           ms == GivenTexts(hs)
           start == At("header", <<>>, x, obj)
           seqs == [i \in 1 .. n |-> HeaderLine(hs[i])]
           q == [i \in 0 .. n |-> IF i = 0 THEN start ELSE At("header", <<>>, hs[i][2], FirstOver(obj, ms, i))]
<1>1. n \in Nat /\ DOMAIN hs = 1 .. n
  BY PairParts
<1>2. \A i \in 1 .. n : /\ hs[i][1] \in Text /\ Range(hs[i][1]) \cap {":", LF} = {}
                        /\ hs[i][2] \in Text /\ Range(hs[i][2]) \cap HeaderStops = {}
  BY PairParts
<1>3. DOMAIN ms = 1 .. n /\ \A i \in 1 .. n : ms[i][1] = hs[i][1] /\ ms[i][2] = Given(hs[i][2])
  BY <1>1 DEF GivenTexts
<1>4. lines = FlattenSeq(seqs) /\ \A i \in 1 .. n : seqs[i] = HeaderLine(hs[i])
  BY <1>1
<1> HIDE DEF n, ms, start, seqs
<1>5. ASSUME NEW i \in 1 .. n
      PROVE  seqs[i] \in Text /\ Reads(TRUE, q[i - 1], seqs[i], q[i])
  <2> DEFINE o == FirstOver(obj, ms, i - 1)
             k == hs[i][1]
             v == hs[i][2]
  <2>1. i - 1 \in 0 .. n /\ i \in 0 .. n /\ i # 0 /\ i \in Nat \ {0}
    BY <1>1
  <2>2. \E y : q[i - 1] = At("header", <<>>, y, o)
    <3>1. CASE i = 1
      <4>1. o = obj
        BY <3>1, OverNone
      <4> QED
        BY <2>1, <3>1, <4>1 DEF start
    <3>2. CASE i # 1
      <4> DEFINE j == i - 1
      <4>1. j \in 0 .. n /\ j # 0
        BY <2>1, <3>2
      <4>2. q[j] = At("header", <<>>, hs[j][2], FirstOver(obj, ms, j))
        BY <4>1
      <4> HIDE DEF q
      <4> QED
        BY <4>2
    <3> QED
      BY <3>1, <3>2
  <2>3. q[i] = At("header", <<>>, v, FirstOver(obj, ms, i))
    BY <2>1
  <2>4. FirstOver(obj, ms, i) = Put(o, k, Given(v))
    <3>1. FirstOver(obj, ms, i) = Put(FirstOver(obj, ms, i - 1), ms[i][1], ms[i][2])
      BY <2>1, OverNext
    <3>2. ms[i][1] = hs[i][1] /\ ms[i][2] = Given(hs[i][2])
      BY <1>3
    <3> QED
      BY <3>1, <3>2
  <2>5. k \in Text /\ Range(k) \cap {":", LF} = {} /\ v \in Text /\ Range(v) \cap HeaderStops = {}
    BY <1>2
  <2>6. seqs[i] = k \o <<":", " ">> \o v \o <<CR, LF>>
    BY <1>4 DEF HeaderLine
  <2> HIDE DEF q, o, k, v
  <2>7. PICK y : q[i - 1] = At("header", <<>>, y, o)
    BY <2>2
  <2>8. /\ k \o <<":", " ">> \o v \o <<CR, LF>> \in Text
        /\ Reads(TRUE, At("header", <<>>, y, o), k \o <<":", " ">> \o v \o <<CR, LF>>,
                 At("header", <<>>, v, Put(o, k, Given(v))))
    BY <2>5, HeaderRead
  <2> QED
    BY <2>3, <2>4, <2>6, <2>7, <2>8
<1>6. seqs \in Seq(Text) /\ Len(seqs) = n
  <2>1. seqs \in [1 .. n -> Text]
    BY <1>5 DEF seqs
  <2> QED
    BY <1>1, <2>1, SequenceOf
<1>7. q[0] = start /\ (n # 0 => q[n] = At("header", <<>>, hs[n][2], FirstOver(obj, ms, n)))
  BY <1>1
<1> HIDE DEF q
<1>8. Reads(TRUE, q[0], FlattenSeq(seqs), q[n]) /\ FlattenSeq(seqs) \in Text
  BY <1>5, <1>6, ReadsParts
<1>9. FirstOver(obj, ms, n) = Overlaid(obj, ms)
  BY <1>1, <1>3, OverAll
<1>10. \E v : q[n] = At("header", <<>>, v, Overlaid(obj, ms))
  <2>1. CASE n = 0
    <3>1. Overlaid(obj, ms) = obj
      BY <1>9, <2>1, OverNone
    <3> QED
      BY <1>7, <2>1, <3>1 DEF start
  <2>2. CASE n # 0
    BY <1>7, <1>9, <2>2
  <2> QED
    BY <2>1, <2>2
<1> QED
  BY <1>4, <1>7, <1>8, <1>10 DEF start, ms

\* An object with a changed value is an object.
LEMMA SetValueObject ==
    ASSUME NEW obj, NEW key, NEW value
    PROVE  IsObject(SetValue(obj, key, value))
BY DEF IsObject, SetValue

\* An object with members laid over it is an object.
LEMMA OverlaidObject ==
    ASSUME NEW obj, NEW ms
    PROVE  IsObject(Overlaid(obj, ms))
BY DEF IsObject, Overlaid

\* A literal that stops some provers when they see it.
Space == " "
\* What is between the route and the headers, and what ends the headers.
LineEnd == <<Space, "HTTP/1.1", CR, LF>>

\* A sequence of four elements.
LEMMA FourJoined ==
    ASSUME NEW S, NEW a \in S, NEW b \in S, NEW c \in S, NEW d \in S
    PROVE  <<a>> \o <<b>> \o <<c>> \o <<d>> = <<a, b, c, d>> /\ <<a, b, c, d>> \in Seq(S)
<1>1. <<a>> \o <<b>> = <<a, b>>
  BY LettersGeneric
<1>2. ASSUME NEW t, t = <<a, b>> \o <<c>> PROVE t = <<a, b, c>>
  <2>1. t \in Seq(S) /\ Len(t) = 3 /\ t[1] = a /\ t[2] = b /\ t[3] = c
    BY <1>2
  <2> QED
    BY <2>1
<1>3. ASSUME NEW t, t = <<a, b, c>> \o <<d>> PROVE t = <<a, b, c, d>> /\ t \in Seq(S)
  <2>1. t \in Seq(S) /\ Len(t) = 4 /\ t[1] = a /\ t[2] = b /\ t[3] = c /\ t[4] = d
    BY <1>3
  <2> QED
    BY <2>1
<1> QED
  BY <1>1, <1>2, <1>3

\* A text of four characters.
LEMMA FourText ==
    ASSUME NEW a \in Letters, NEW b \in Letters, NEW c \in Letters, NEW d \in Letters
    PROVE  <<a>> \o <<b>> \o <<c>> \o <<d>> = <<a, b, c, d>> /\ <<a, b, c, d>> \in Text
BY FourJoined DEF Text

\* What separates the parts of a request are texts.
LEMMA SyntaxText ==
    /\ LineEnd \in Text /\ <<CR, LF>> \in Text /\ <<Json>> \in Text /\ <<"?">> \in Text
    /\ <<Space>> \in Text /\ <<"HTTP/1.1">> \in Text /\ <<CR>> \in Text /\ <<LF>> \in Text
    /\ <<>> \in Text
    /\ LineEnd = <<Space>> \o <<"HTTP/1.1">> \o <<CR>> \o <<LF>>
    /\ <<CR, LF>> = <<CR>> \o <<LF>>
<1>1. /\ Space \in Letters /\ "HTTP/1.1" \in Letters /\ "?" \in Letters
      /\ CR \in Letters /\ LF \in Letters /\ Json \in Letters
  BY DEF Letters, Space
<1>2. /\ <<CR, LF>> \in Text /\ <<Json>> \in Text /\ <<"?">> \in Text
      /\ <<Space>> \in Text /\ <<"HTTP/1.1">> \in Text /\ <<CR>> \in Text /\ <<LF>> \in Text
      /\ <<CR, LF>> = <<CR>> \o <<LF>>
  <2>1. \A c \in Letters : <<c>> \in Text
    BY LettersText
  <2>2. <<CR, LF>> \in Text /\ <<CR, LF>> = <<CR>> \o <<LF>>
    BY <1>1, LettersText
  <2> QED
    BY <1>1, <2>1, <2>2
<1>3. <<>> \in Text
  BY TextJoined DEF Text
<1>4. LineEnd \in Text /\ LineEnd = <<Space>> \o <<"HTTP/1.1">> \o <<CR>> \o <<LF>>
  <2> DEFINE version == "HTTP/1.1"
  <2>1. version \in Letters
    BY <1>1
  <2> HIDE DEF version
  <2>2. /\ <<Space, version, CR, LF>> \in Text
        /\ <<Space>> \o <<version>> \o <<CR>> \o <<LF>> = <<Space, version, CR, LF>>
    BY <1>1, <2>1, FourText
  <2>3. LineEnd = <<Space, version, CR, LF>>
    BY DEF LineEnd, version
  <2>4. LineEnd \in Text /\ LineEnd = <<Space>> \o <<version>> \o <<CR>> \o <<LF>>
    BY <2>2, <2>3
  <2> QED
    BY <2>4 DEF version
<1> QED
  BY <1>2, <1>3, <1>4

\* The protocol is read up to the first header.
LEMMA ProtocolRead ==
    ASSUME NEW p, NEW k, NEW obj, ReadHead(p, Space) = At("protocol", k, <<>>, obj)
    PROVE  Reads(TRUE, p, LineEnd,
                 At("header", <<>>, <<"HTTP/1.1">>, SetValue(obj, <<"protocol">>, <<"HTTP/1.1">>)))
<1> DEFINE v == <<"HTTP/1.1">>
           p1 == At("protocol", k, <<>>, obj)
           p2 == At("protocol", k, v, obj)
           p3 == At("header", <<>>, v, SetValue(obj, <<"protocol">>, v))
<1>1. Reads(TRUE, p, <<Space>>, p1)
  BY ReadsOne DEF NextState
<1>2. Reads(TRUE, p1, v, p2)
  <2>1. v \in Text /\ Len(v) = 1 /\ v[1] = "HTTP/1.1" /\ \A i \in 1 .. Len(v) : i = 1
    BY SyntaxText
  <2>2. Decoded("protocol", "HTTP/1.1") = <<"HTTP/1.1">> /\ "HTTP/1.1" # LF
    BY DEF Decoded, LF, CR
  <2>3. <<>> \in Text /\ <<>> \o v = v
    BY <2>1, TextJoined DEF Text
  <2> HIDE DEF v
  <2>4. Reads(TRUE, At("protocol", k, <<>>, obj), v, At("protocol", k, <<>> \o v, obj))
    BY <2>1, <2>2, <2>3, ValueRead
  <2> QED
    BY <2>3, <2>4
<1>3. Reads(TRUE, p2, <<CR>>, p2)
  BY SyntaxText, CarriageReturnRead
<1>4. Reads(TRUE, p2, <<LF>>, p3)
  <2>1. ReadHead(p2, LF) = p3
    BY DEF ReadHead, At
  <2> QED
    BY <2>1, ReadsOne DEF NextState
<1> HIDE DEF p1, p2, p3, v
<1>5. /\ <<Space>> \in Text /\ v \in Text /\ <<CR>> \in Text /\ <<LF>> \in Text
      /\ LineEnd = <<Space>> \o v \o <<CR>> \o <<LF>>
  BY SyntaxText DEF v
<1>6. <<Space>> \o v \in Text /\ <<Space>> \o v \o <<CR>> \in Text
  <2>1. <<Space>> \o v \in Text
    BY <1>5, TextJoined DEF Text
  <2> QED
    BY <1>5, <2>1, TextJoined DEF Text
<1>7. Reads(TRUE, p, <<Space>> \o v, p2)
  BY <1>1, <1>2, <1>5, ReadsJoin
<1>8. Reads(TRUE, p, <<Space>> \o v \o <<CR>>, p2)
  BY <1>3, <1>5, <1>6, <1>7, ReadsJoin
<1>9. Reads(TRUE, p, LineEnd, p3)
  BY <1>4, <1>5, <1>6, <1>8, ReadsJoin
<1> QED
  BY <1>9 DEF p3, v

\* The parser behind the empty line.
InBody(key, value, body, obj) ==
    [state |-> "body", key |-> key, value |-> value, skip |-> FALSE, body |-> body, obj |-> obj]

\* The empty line ends the headers.
LEMMA EmptyLineRead ==
    ASSUME NEW x, NEW obj
    PROVE  \E k : Reads(TRUE, At("header", <<>>, x, obj), <<CR, LF>>, InBody(k, x, <<>>, obj))
<1> DEFINE p == At("header", <<CR>>, x, obj)
<1>1. Reads(TRUE, At("header", <<>>, x, obj), <<CR>>, p)
  <2>1. <<CR>> \in Text /\ Range(<<CR>>) \cap {LF, ":"} = {}
    <3>1. CR # LF /\ CR # ":"
      BY DEF CR, LF
    <3>2. \A c \in Range(<<CR>>) : c = CR
      BY DEF Range
    <3> QED
      BY <3>1, <3>2, SyntaxText
  <2> QED
    BY <2>1, KeyRead
<1>2. Reads(TRUE, p, <<LF>>, InBody(<<CR>>, x, <<>>, obj))
  <2>1. ReadHead(p, LF) = InBody(<<CR>>, x, <<>>, obj)
    <3> DEFINE q == ReadHead(p, LF)
    <3>1. p.state = "header" /\ p.skip = FALSE /\ p = At("header", <<CR>>, x, obj)
      BY DEF At
    <3> HIDE DEF p
    <3>2. q = [p EXCEPT !.state = "body"]
      BY <3>1 DEF ReadHead, LF
    <3> HIDE DEF q
    <3>3. q = InBody(<<CR>>, x, <<>>, obj)
      BY <3>1, <3>2 DEF At, InBody
    <3> QED
      BY <3>3 DEF q
  <2> QED
    BY <2>1, ReadsOne DEF NextState
<1> HIDE DEF p
<1> QED
  BY <1>1, <1>2, SyntaxText, ReadsJoin

\* Everything behind the empty line is the body.
LEMMA BodyRead ==
    ASSUME NEW k, NEW x, NEW obj, NEW b \in Text
    PROVE  Reads(TRUE, InBody(k, x, <<>>, obj), b, InBody(k, x, b, obj))
<1> DEFINE at == [u \in Text |-> InBody(k, x, u, obj)]
<1>1. ASSUME NEW i \in 1 .. Len(b), NEW u \in Text
      PROVE  NextState(TRUE, at[u], b[i]) = at[Append(u, b[i])]
  <2> DEFINE c == b[i]
  <2>1. Append(u, c) \in Text
    BY TextElement, TextAdded DEF Text
  <2> HIDE DEF c
  <2>2. ReadHead(InBody(k, x, u, obj), c) = InBody(k, x, Append(u, c), obj)
    BY DEF ReadHead, InBody
  <2> QED
    BY <2>1, <2>2 DEF NextState, c
<1>2. <<>> \in Text /\ <<>> \o b = b
  BY TextJoined DEF Text
<1>3. at[<<>>] = InBody(k, x, <<>>, obj) /\ at[b] = InBody(k, x, b, obj)
  BY <1>2
<1> HIDE DEF at
<1>4. Reads(TRUE, at[<<>>], b, at[<<>> \o b])
  BY <1>1, <1>2, Collects
<1> QED
  BY <1>2, <1>3, <1>4

\* What follows the first three characters.
Rest(t) == SubSeq(t, 4, Len(t))
Starts(t, a, b, c) == Len(t) >= 3 /\ t[1] = a /\ t[2] = b /\ t[3] = c

\* What follows three characters of a sequence.
LEMMA RestText ==
    ASSUME NEW S, NEW s \in Seq(S), NEW n \in Nat, n = Len(s), n >= 3
    PROVE  Rest(s) \in Seq(S) /\ Len(Rest(s)) = n - 3 /\ \A i \in 1 .. n - 3 : Rest(s)[i] = s[i + 3]
<1> DEFINE u == SubSeq(s, 4, n)
<1>1. u \in Seq(S) /\ Len(u) = n - 3 /\ \A i \in 1 .. n - 3 : u[i] = s[i + 3]
  OBVIOUS
<1>2. Rest(s) = u
  BY DEF Rest
<1> HIDE DEF u
<1> QED
  BY <1>1, <1>2

\* A sequence behind two elements starts with those and its own first one.
LEMMA StartText ==
    ASSUME NEW S, NEW a \in S, NEW b \in S, NEW r \in Seq(S), r # <<>>,
           NEW t, t = <<a, b>> \o r
    PROVE  /\ t \in Seq(S) /\ Starts(t, a, b, r[1])
           /\ Rest(t) = Tail(r) /\ Tail(r) \in Seq(S) /\ <<r[1]>> \o Tail(r) = r
<1>1. /\ t \in Seq(S) /\ Len(r) \in Nat /\ Len(r) >= 1 /\ Len(t) = Len(r) + 2
      /\ t[1] = a /\ t[2] = b /\ \A i \in 1 .. Len(r) : t[i + 2] = r[i]
  OBVIOUS
<1>2. t[3] = r[1]
  <2>1. 1 \in 1 .. Len(r) /\ 1 + 2 = 3
    BY <1>1
  <2> QED
    BY <1>1, <2>1
<1>3. Starts(t, a, b, r[1])
  BY <1>1, <1>2 DEF Starts
<1>4. ASSUME NEW u, u = Rest(t) PROVE u = Tail(r)
  <2>1. /\ u \in Seq(S) /\ Len(u) = Len(r) - 1
        /\ \A i \in 1 .. Len(r) - 1 : u[i] = t[i + 3]
    <3>1. Len(t) \in Nat /\ Len(t) >= 3 /\ Len(t) - 3 = Len(r) - 1
      BY <1>1
    <3>2. /\ Rest(t) \in Seq(S) /\ Len(Rest(t)) = Len(t) - 3
          /\ \A i \in 1 .. Len(t) - 3 : Rest(t)[i] = t[i + 3]
      BY <1>1, <3>1, RestText
    <3> QED
      BY <1>4, <3>1, <3>2
  <2>2. Tail(r) \in Seq(S) /\ Len(Tail(r)) = Len(r) - 1 /\ \A i \in 1 .. Len(r) - 1 : Tail(r)[i] = r[i + 1]
    OBVIOUS
  <2>3. ASSUME NEW i \in 1 .. Len(r) - 1 PROVE u[i] = Tail(r)[i]
    <3>1. i + 1 \in 1 .. Len(r) /\ (i + 1) + 2 = i + 3
      BY <1>1
    <3> QED
      BY <1>1, <2>1, <2>2, <3>1
  <2> QED
    BY <2>1, <2>2, <2>3
<1>5. Tail(r) \in Seq(S)
  OBVIOUS
<1>6. ASSUME NEW u, u = <<r[1]>> \o Tail(r) PROVE u = r
  <2>1. r[1] \in S /\ Tail(r) \in Seq(S) /\ Len(Tail(r)) = Len(r) - 1
        /\ \A i \in 1 .. Len(r) - 1 : Tail(r)[i] = r[i + 1]
    OBVIOUS
  <2>2. /\ u \in Seq(S) /\ Len(u) = Len(r) /\ u[1] = r[1]
        /\ \A i \in 1 .. Len(r) - 1 : u[i + 1] = Tail(r)[i]
    BY <1>1, <1>6, <2>1
  <2>3. ASSUME NEW i \in 1 .. Len(r) PROVE u[i] = r[i]
    <3>1. CASE i = 1
      BY <2>2, <3>1
    <3>2. CASE i # 1
      <4>1. i - 1 \in 1 .. Len(r) - 1 /\ (i - 1) + 1 = i
        BY <1>1, <3>2
      <4> QED
        BY <2>1, <2>2, <4>1
    <3> QED
      BY <3>1, <3>2
  <2> QED
    BY <2>2, <2>3
<1> QED
  BY <1>1, <1>3, <1>4, <1>5, <1>6

\* What starts a sequence starts a longer one.
LEMMA MoreText ==
    ASSUME NEW S, NEW s \in Seq(S), NEW a, NEW b, NEW c, Starts(s, a, b, c), NEW r \in Seq(S)
    PROVE  s \o r \in Seq(S) /\ Starts(s \o r, a, b, c) /\ Rest(s \o r) = Rest(s) \o r /\ Rest(s) \in Seq(S)
<1> DEFINE t == s \o r
<1>1. /\ t \in Seq(S) /\ Len(s) \in Nat /\ Len(s) >= 3 /\ Len(r) \in Nat /\ Len(t) = Len(s) + Len(r)
      /\ \A i \in 1 .. Len(s) : t[i] = s[i]
      /\ \A i \in 1 .. Len(r) : t[Len(s) + i] = r[i]
  BY DEF Starts
<1> HIDE DEF t
<1>2. Starts(t, a, b, c)
  <2>1. s[1] = a /\ s[2] = b /\ s[3] = c
    BY DEF Starts
  <2>2. 1 \in 1 .. Len(s) /\ 2 \in 1 .. Len(s) /\ 3 \in 1 .. Len(s) /\ Len(t) >= 3
    BY <1>1
  <2> QED
    BY <1>1, <2>1, <2>2 DEF Starts
<1>3. Rest(s) \in Seq(S) /\ Len(Rest(s)) = Len(s) - 3 /\ \A i \in 1 .. Len(s) - 3 : Rest(s)[i] = s[i + 3]
  BY <1>1, RestText
<1>4. Rest(t) \in Seq(S) /\ Len(Rest(t)) = Len(t) - 3 /\ \A i \in 1 .. Len(t) - 3 : Rest(t)[i] = t[i + 3]
  <2>1. Len(t) \in Nat /\ Len(t) >= 3
    BY <1>1
  <2> QED
    BY <1>1, <2>1, RestText
<1> DEFINE x == Rest(t)
           y == Rest(s)
<1> HIDE DEF x, y
<1>5. ASSUME NEW z, z = y \o r PROVE x = z
  <2>1. /\ z \in Seq(S) /\ Len(z) = Len(y) + Len(r)
        /\ \A i \in 1 .. Len(y) : z[i] = y[i]
        /\ \A i \in 1 .. Len(r) : z[Len(y) + i] = r[i]
    <3>1. y \in Seq(S)
      BY <1>3 DEF y
    <3> QED
      BY <1>5, <3>1, Joined
  <2>2. Len(x) = Len(z) /\ x \in Seq(S)
    BY <1>1, <1>3, <1>4, <2>1 DEF x, y
  <2>3. ASSUME NEW i \in 1 .. Len(z) PROVE x[i] = z[i]
    <3>1. x[i] = t[i + 3]
      BY <1>1, <1>3, <1>4, <2>1 DEF x, y
    <3>2. CASE i <= Len(s) - 3
      <4>1. i \in 1 .. Len(y) /\ i \in 1 .. Len(s) - 3 /\ i + 3 \in 1 .. Len(s)
        BY <1>1, <1>3, <3>2 DEF y
      <4> QED
        BY <1>1, <1>3, <2>1, <3>1, <4>1 DEF y
    <3>3. CASE i > Len(s) - 3
      <4> DEFINE j == i - (Len(s) - 3)
      <4>1. j \in 1 .. Len(r) /\ Len(y) + j = i /\ Len(s) + j = i + 3
        BY <1>1, <1>3, <2>1, <3>3 DEF y
      <4> HIDE DEF j
      <4>2. z[Len(y) + j] = r[j] /\ t[Len(s) + j] = r[j]
        BY <1>1, <2>1, <4>1
      <4> QED
        BY <3>1, <4>1, <4>2
    <3> QED
      BY <1>1, <3>2, <3>3
  <2> QED
    BY <2>1, <2>2, <2>3
<1> QED
  BY <1>1, <1>2, <1>3, <1>5 DEF t, x, y

\* What is put behind a text is behind its start.
LEMMA MoreStart ==
    ASSUME NEW u \in Text, NEW w \in Text, NEW a, NEW b, NEW c, Starts(u, a, b, c)
    PROVE  u \o w \in Text /\ Starts(u \o w, a, b, c) /\ Rest(u \o w) = Rest(u) \o w
<1>1. u \in Seq(Letters) /\ w \in Seq(Letters)
  BY DEF Text
<1>2. u \o w \in Seq(Letters) /\ Starts(u \o w, a, b, c) /\ Rest(u \o w) = Rest(u) \o w
  BY <1>1, MoreText
<1> QED
  BY <1>2 DEF Text

\* A request has only the method it starts with.
LEMMA MethodFound ==
    ASSUME NEW text_, NEW m \in Methods, Starts(text_, m, Space, "/"), NEW n \in Methods
    PROVE  ~StrictCompareInequal(text_, <<n, Space, "/">>, 3) <=> n = m
<1> DEFINE at(s, i) == IF i > Len(s) THEN "NUL" ELSE s[i]
           second == <<n, Space, "/">>
<1>1. at(text_, 1) = m /\ at(text_, 2) = Space /\ at(text_, 3) = "/"
  BY DEF Starts
<1>2. at(second, 1) = n /\ at(second, 2) = Space /\ at(second, 3) = "/"
  OBVIOUS
<1>3. \A i \in 1 .. 3 : i = 1 \/ i = 2 \/ i = 3
  OBVIOUS
<1>4. StrictCompareInequal(text_, second, 3) <=> \E i \in 1 .. 3 : at(text_, i) # at(second, i)
  BY DEF StrictCompareInequal
<1> HIDE DEF at, second
<1>5. StrictCompareInequal(text_, second, 3) <=> n # m
  BY <1>1, <1>2, <1>3, <1>4
<1> QED
  BY <1>5 DEF second

\* What a route does not hold.
RouteStops == {" ", "?", "%", "%26", "%0A", CR}

\* What WellFormed says of the parts.
LEMMA RequestParts ==
    ASSUME NEW r, WellFormed(r)
    PROVE  /\ r.method \in Methods
           /\ r.route \in Seq(STRING) /\ r.route # <<>> /\ r.route[1] = "/"
           /\ Range(r.route) \cap RouteStops = {}
           /\ Without(r.params, ParamKeyStops, ParamStops)
           /\ Without(r.headers, {":", LF}, HeaderStops)
           /\ Without(r.form, {"&", "="}, {"&", "="})
           /\ r.body \in {"none", "json", "form", "api"}
           /\ r.body = "json" <=> TellsType(r, <<"application/json">>)
           /\ r.body = "form" <=> TellsType(r, <<"application/x-www-form-urlencoded">>)
BY Zenon DEF WellFormed, RouteStops, ParamKeyStops, ParamStops, HeaderStops

\* The parts of the text of a request.
QueryText(r) == IF r.params = <<>> THEN <<>> ELSE <<"?">> \o Pairs(EncodedPairs(r.params))
HeaderText(r) == FlattenSeq([i \in DOMAIN r.headers |-> HeaderLine(r.headers[i])])
BodyText(r) == CASE r.body = "json" -> <<Json>> [] r.body = "form" -> Pairs(r.form) [] OTHER -> <<>>

\* The text of a request, part by part.
LEMMA RequestText ==
    ASSUME NEW r
    PROVE  WriteHttp(r) = IF r.body = "api" THEN <<Json>>
                          ELSE <<r.method, Space>> \o r.route \o QueryText(r) \o LineEnd
                               \o HeaderText(r) \o <<CR, LF>> \o BodyText(r)
BY Zenon DEF WriteHttp, QueryText, HeaderText, BodyText, HeaderLine, LineEnd, Space

\* The rest of the route is what follows the slash that has been read.
LEMMA RouteRead ==
    ASSUME NEW r, WellFormed(r), NEW obj
    PROVE  /\ r.route \in Text /\ Tail(r.route) \in Text
           /\ Reads(TRUE, At("route", <<>>, <<"/">>, obj), Tail(r.route), At("route", <<>>, r.route, obj))
<1> DEFINE s == r.route
           v == Tail(s)
<1>1. s \in Seq(STRING) /\ s # <<>> /\ s[1] = "/" /\ Range(s) \cap RouteStops = {}
  BY RequestParts
<1>2. STRING \subseteq Letters /\ "/" \in Letters
  BY DEF Letters
<1>3. s \in Text
  <2> HIDE DEF s
  <2> QED
    BY <1>1, <1>2, SeqMonotonic DEF Text
<1> HIDE DEF s
<1>4. v \in Text /\ <<"/">> \o v = s
  <2>1. ASSUME NEW t, t = <<"/", "/">> \o s PROVE Tail(s) \in Text /\ <<s[1]>> \o Tail(s) = s
    BY <1>1, <1>2, <1>3, <2>1, StartText DEF Text
  <2> QED
    BY <1>1, <2>1
<1>5. ASSUME NEW i \in 1 .. Len(v)
      PROVE  Decoded("route", v[i]) = <<v[i]>> /\ v[i] \notin {" ", "?"}
  <2> DEFINE c == v[i]
  <2>1. c \in Range(s)
    <3>1. Len(s) \in Nat /\ Len(v) = Len(s) - 1 /\ c = s[i + 1]
      BY <1>1, <1>3 DEF Text
    <3>2. i + 1 \in 1 .. Len(s)
      BY <3>1
    <3> HIDE DEF c
    <3> QED
      BY <1>3, <3>1, <3>2, TextElement DEF Text
  <2> HIDE DEF c, v
  <2>2. c \notin RouteStops
    BY <1>1, <2>1
  <2>3. Decoded("route", c) = <<c>> /\ c \notin {" ", "?"}
    BY <2>2 DEF Decoded, RouteStops
  <2> QED
    BY <2>3 DEF c
<1>6. <<"/">> \in Text
  BY <1>2, LettersText
<1> HIDE DEF v
<1>7. Reads(TRUE, At("route", <<>>, <<"/">>, obj), v, At("route", <<>>, <<"/">> \o v, obj))
  BY <1>4, <1>5, <1>6, ValueRead
<1> QED
  BY <1>3, <1>4, <1>7 DEF s, v

\* What is left of the query when the space behind it comes.
QueryEnds(r, obj, start) ==
    /\ QueryText(r) \in Text
    /\ \E p, k : /\ Reads(TRUE, At("route", <<>>, r.route, obj), QueryText(r), p)
                 /\ ReadHead(p, Space) = At("protocol", k, <<>>, Overlaid(start, Members(r.params)))

\* The query is read up to the space behind it.
LEMMA QueryTextRead ==
    ASSUME NEW r, WellFormed(r), NEW obj, NEW start, start = SetValue(obj, <<"route">>, r.route)
    PROVE  QueryEnds(r, obj, start)
<1>1. Without(r.params, ParamKeyStops, ParamStops)
  BY RequestParts
<1>2. IsObject(start)
  BY SetValueObject
<1> DEFINE ps == r.params
           p0 == At("route", <<>>, r.route, obj)
           o == Overlaid(start, Members(ps))
<1>3. CASE ps = <<>>
  <2>1. QueryText(r) = <<>> /\ <<>> \in Text
    BY <1>3, SyntaxText DEF QueryText
  <2>2. o = start
    <3>1. DOMAIN Members(ps) = 1 .. 0
      BY <1>3 DEF Members
    <3> DEFINE ms == Members(ps)
    <3> HIDE DEF ms
    <3>2. FirstOver(start, ms, 0) = start
      BY <1>2, OverNone
    <3>3. FirstOver(start, ms, 0) = Overlaid(start, ms)
      <4>1. DOMAIN ms = 1 .. 0 /\ 0 \in Nat
        BY <3>1 DEF ms
      <4> QED
        BY <4>1, OverAll
    <3> QED
      BY <3>2, <3>3 DEF ms
  <2>3. ReadHead(p0, Space) = At("protocol", <<>>, <<>>, SetValue(obj, <<"route">>, r.route))
    BY DEF ReadHead, At, Space
  <2> HIDE DEF p0, o
  <2> QED
    BY <2>1, <2>2, <2>3, ReadsNothing DEF p0, o, QueryEnds
<1>4. CASE ps # <<>>
  <2> DEFINE s == Pairs(EncodedPairs(ps))
             p1 == At("paramKey", <<>>, r.route, start)
             last == FirstOver(start, Members(ps), Len(ps) - 1)
  <2>1. QueryText(r) = <<"?">> \o s
    BY <1>4 DEF QueryText
  <2>2. /\ s \in Text
        /\ \E k, v : Reads(TRUE, p1, s, At("paramValue", k, v, last)) /\ Save(last, k, v) = o
    BY <1>1, <1>2, <1>4, QueryRead
  <2>3. Reads(TRUE, p0, <<"?">>, p1)
    <3>1. ReadHead(p0, "?") = At("paramKey", <<>>, r.route, SetValue(obj, <<"route">>, r.route))
      BY DEF ReadHead, At
    <3> HIDE DEF p0
    <3> QED
      BY <3>1, ReadsOne DEF NextState
  <2> HIDE DEF s, p0, p1, last, o
  <2>4. PICK k, v : Reads(TRUE, p1, s, At("paramValue", k, v, last)) /\ Save(last, k, v) = o
    BY <2>2
  <2>5. Reads(TRUE, p0, QueryText(r), At("paramValue", k, v, last)) /\ QueryText(r) \in Text
    <3>1. <<"?">> \in Text
      BY SyntaxText
    <3>2. <<"?">> \o s \in Text
      BY <2>2, <3>1, TextJoined DEF Text
    <3>3. Reads(TRUE, p0, <<"?">> \o s, At("paramValue", k, v, last))
      BY <2>2, <2>3, <2>4, <3>1, ReadsJoin
    <3> QED
      BY <2>1, <3>2, <3>3
  <2>6. ReadHead(At("paramValue", k, v, last), Space) = At("protocol", k, <<>>, o)
    <3>1. ReadHead(At("paramValue", k, v, last), Space) = At("protocol", k, <<>>, Save(last, k, v))
      BY DEF ReadHead, At, Space
    <3> QED
      BY <2>4, <3>1
  <2> QED
    BY <2>5, <2>6 DEF p0, o, QueryEnds
<1> QED
  BY <1>3, <1>4

\* The body of a request is a text.
LEMMA BodyTextIsText ==
    ASSUME NEW r, WellFormed(r)
    PROVE  BodyText(r) \in Text
<1>1. Without(r.form, {"&", "="}, {"&", "="})
  BY RequestParts
<1> DEFINE none == [k \in {} |-> {}]
<1>2. IsObject(none)
  BY DEF IsObject
<1> HIDE DEF none
<1>3. Pairs(r.form) \in Text
  BY <1>1, <1>2, FormRead
<1>4. <<Json>> \in Text /\ <<>> \in Text
  BY SyntaxText
<1> QED
  BY <1>3, <1>4 DEF BodyText

\* The request starts with its method, the space and the slash of its route.
LEMMA RouteStart ==
    ASSUME NEW m \in Letters, NEW s \in Text, s # <<>>, s[1] = "/", NEW t, t = <<m, Space>> \o s
    PROVE  t \in Text /\ Starts(t, m, Space, "/") /\ Rest(t) = Tail(s)
<1>1. Space \in Letters /\ s \in Seq(Letters)
  BY DEF Letters, Space, Text
<1>2. t \in Seq(Letters) /\ Starts(t, m, Space, s[1])
  BY <1>1, StartText
<1>3. Rest(t) = Tail(s)
  BY <1>1, StartText DEF Rest
<1> QED
  BY <1>2, <1>3 DEF Text

\* The start line, the headers and the empty line give the parser what they mean.
LEMMA HeadRead ==
    ASSUME NEW r, WellFormed(r), NEW t,
           t = <<r.method, Space>> \o r.route \o QueryText(r) \o LineEnd
               \o HeaderText(r) \o <<CR, LF>> \o BodyText(r)
    PROVE  /\ Starts(t, r.method, Space, "/")
           /\ Rest(t) \in Text
           /\ \E k, x : FoldLeft(ReadHead, Begin(r.method), Rest(t)) = InBody(k, x, BodyText(r), HeadMeaning(r))
<1> DEFINE obj == Begin(r.method).obj
           start == SetValue(obj, <<"route">>, r.route)
           query == Overlaid(start, Members(r.params))
           line == SetValue(query, <<"protocol">>, <<"HTTP/1.1">>)
           head == HeadMeaning(r)
           s0 == Tail(r.route)
           s1 == QueryText(r)
           s2 == HeaderText(r)
           eol == <<CR, LF>>
           s3 == BodyText(r)
           p0 == At("route", <<>>, <<"/">>, obj)
           p1 == At("route", <<>>, r.route, obj)
           p3 == At("header", <<>>, <<"HTTP/1.1">>, line)
<1>1. Begin(r.method) = p0
  BY DEF Begin, At
<1>2. head = Overlaid(line, GivenTexts(r.headers))
  BY DEF HeadMeaning
<1>3. r.route \in Text /\ s0 \in Text /\ Reads(TRUE, p0, s0, p1)
  <2> HIDE DEF obj
  <2> QED
    BY RouteRead
<1>4. PICK p2, k2 : /\ s1 \in Text /\ Reads(TRUE, p1, s1, p2)
                    /\ ReadHead(p2, Space) = At("protocol", k2, <<>>, query)
  <2>1. start = SetValue(obj, <<"route">>, r.route)
    OBVIOUS
  <2> HIDE DEF obj, start
  <2>2. QueryEnds(r, obj, start)
    BY <2>1, QueryTextRead
  <2> QED
    BY <2>2 DEF QueryEnds
<1>5. Reads(TRUE, p2, LineEnd, p3)
  <2> HIDE DEF query
  <2> QED
    BY <1>4, ProtocolRead
<1>6. s2 \in Text /\ \E v : Reads(TRUE, p3, s2, At("header", <<>>, v, head))
  <2>1. Without(r.headers, {":", LF}, HeaderStops)
    BY RequestParts
  <2>2. IsObject(line)
    BY SetValueObject
  <2> HIDE DEF line, head
  <2>3. s2 = FlattenSeq([i \in DOMAIN r.headers |-> HeaderLine(r.headers[i])])
    BY DEF HeaderText
  <2> HIDE DEF s2
  <2>4. /\ s2 \in Text
        /\ \E v : Reads(TRUE, p3, s2, At("header", <<>>, v, Overlaid(line, GivenTexts(r.headers))))
    BY <2>1, <2>2, <2>3, HeadersRead
  <2> QED
    BY <1>2, <2>4
<1>7. s3 \in Text
  BY BodyTextIsText
<1>8. LineEnd \in Text /\ eol \in Text
  BY SyntaxText
<1>9. /\ r.method \in Letters /\ Space \in Letters /\ r.route # <<>> /\ r.route[1] = "/"
  <2>1. r.method \in Methods /\ r.route # <<>> /\ r.route[1] = "/"
    BY RequestParts
  <2> QED
    BY <2>1 DEF Letters, Space
<1> HIDE DEF obj, start, query, line, head, s0, s1, s2, eol, s3, p0, p1, p3
<1> DEFINE S(u, v) == u \in Text /\ Starts(u, r.method, Space, "/") /\ Rest(u) = v /\ v \in Text
<1>10. ASSUME NEW u, u = <<r.method, Space>> \o r.route PROVE S(u, s0)
  <2>1. u \in Text /\ Starts(u, r.method, Space, "/") /\ Rest(u) = Tail(r.route)
    BY <1>3, <1>9, <1>10, RouteStart
  <2> QED
    BY <1>3, <2>1 DEF s0
<1>11. ASSUME NEW u, NEW v, NEW w \in Text, S(u, v) PROVE S(u \o w, v \o w)
  <2>1. u \in Text /\ Starts(u, r.method, Space, "/") /\ Rest(u) = v /\ v \in Text
    BY <1>11
  <2> HIDE DEF S
  <2>2. /\ u \o w \in Text /\ Starts(u \o w, r.method, Space, "/") /\ Rest(u \o w) = Rest(u) \o w
    BY <2>1, MoreStart
  <2>3. v \o w \in Text
    BY <2>1, TextJoined DEF Text
  <2> QED
    BY <2>1, <2>2, <2>3 DEF S
<1> HIDE DEF S
<1> DEFINE r1 == s0 \o s1
           r2 == r1 \o LineEnd
           r3 == r2 \o s2
           r4 == r3 \o eol
           r5 == r4 \o s3
<1>12. r1 \in Text /\ r2 \in Text /\ r3 \in Text /\ r4 \in Text /\ r5 \in Text
  <2>1. \A u \in Text : \A v \in Text : u \o v \in Text
    BY TextJoined DEF Text
  <2> QED
    BY <1>3, <1>4, <1>6, <1>7, <1>8, <2>1
<1>13. S(t, r5)
  <2>1. t = <<r.method, Space>> \o r.route \o s1 \o LineEnd \o s2 \o eol \o s3
    BY DEF s1, s2, eol, s3
  <2> DEFINE t0 == <<r.method, Space>> \o r.route
             t1 == t0 \o s1
             t2 == t1 \o LineEnd
             t3 == t2 \o s2
             t4 == t3 \o eol
  <2>2. t = t4 \o s3
    BY <2>1
  <2>3. S(t1, r1)
    <3>1. S(t0, s0)
      BY <1>10
    <3> HIDE DEF t0
    <3> QED
      BY <1>4, <1>11, <3>1
  <2> HIDE DEF t1, r1
  <2>4. S(t2, r2)
    BY <1>8, <1>11, <2>3
  <2> HIDE DEF t2, r2
  <2>5. S(t3, r3)
    BY <1>6, <1>11, <2>4
  <2> HIDE DEF t3, r3
  <2>6. S(t4, r4)
    BY <1>8, <1>11, <2>5
  <2> HIDE DEF t4, r4
  <2> QED
    BY <1>7, <1>11, <2>2, <2>6
<1>14. PICK x : Reads(TRUE, p3, s2, At("header", <<>>, x, head))
  BY <1>6
<1>15. PICK k : Reads(TRUE, At("header", <<>>, x, head), eol, InBody(k, x, <<>>, head))
  BY EmptyLineRead DEF eol
<1>16. Reads(TRUE, InBody(k, x, <<>>, head), s3, InBody(k, x, s3, head))
  BY <1>7, BodyRead
<1>17. Reads(TRUE, p0, r5, InBody(k, x, s3, head))
  <2>1. Reads(TRUE, p0, r1, p2)
    BY <1>3, <1>4, ReadsJoin
  <2> HIDE DEF r1
  <2>2. Reads(TRUE, p0, r2, p3)
    BY <1>5, <1>8, <1>12, <2>1, ReadsJoin
  <2> HIDE DEF r2
  <2>3. Reads(TRUE, p0, r3, At("header", <<>>, x, head))
    BY <1>6, <1>12, <1>14, <2>2, ReadsJoin
  <2> HIDE DEF r3
  <2>4. Reads(TRUE, p0, r4, InBody(k, x, <<>>, head))
    BY <1>8, <1>12, <1>15, <2>3, ReadsJoin
  <2> HIDE DEF r4
  <2> QED
    BY <1>7, <1>12, <1>16, <2>4, ReadsJoin
<1> HIDE DEF r5
<1>18. FoldLeft(ReadHead, p0, r5) = InBody(k, x, s3, head)
  BY <1>12, <1>17, HeadFold
<1> QED
  BY <1>1, <1>13, <1>18 DEF S, s3, head

\* Which headers say that the body is a JSON text or a form.
HasType(obj, t) == ContentType \in DOMAIN obj /\ obj[ContentType] = StringMember(t)

\* A request is taken apart by its method, its head and the type of its body.
LEMMA RequestParsed ==
    ASSUME NEW t, NEW m \in Methods, Starts(t, m, Space, "/"),
           NEW k, NEW x, NEW b, NEW head, FoldLeft(ReadHead, Begin(m), Rest(t)) = InBody(k, x, b, head),
           NEW json, json = HasType(head, <<"application/json">>),
           NEW form, form = HasType(head, <<"application/x-www-form-urlencoded">>)
    PROVE  ParseHttpRequest(t) = IF json THEN [result |-> "HTTP_API", obj |-> ParseMembers(head, b)]
                                 ELSE IF form THEN [result |-> "HTTP_FORM", obj |-> ParseForm(head, b)]
                                 ELSE [result |-> "HTTP", obj |-> head]
<1> DEFINE isMethod(n) == ~StrictCompareInequal(t, <<n, " ", "/">>, 3)
           n == CHOOSE n \in Methods : isMethod(n)
           p == FoldLeft(ReadHead, Begin(n), SubSeq(t, 4, Len(t)))
           isType(y) == ContentType \in DOMAIN p.obj /\ p.obj[ContentType] = StringMember(y)
           J == <<"application/json">>
           F == <<"application/x-www-form-urlencoded">>
<1>1. \A o \in Methods : isMethod(o) <=> o = m
  BY MethodFound DEF Space
<1>2. n = m /\ \E o \in Methods : isMethod(o)
  <2> HIDE DEF isMethod
  <2> QED
    BY <1>1
<1>3. p = InBody(k, x, b, head)
  BY <1>2 DEF Rest
<1>4. ParseHttpRequest(t) =
        CASE ~\E o \in Methods : isMethod(o) ->
               [result |-> "API", obj |-> ParseMembers(Begin("GET").obj, t)]
          [] isType(J) -> [result |-> "HTTP_API", obj |-> ParseMembers(p.obj, p.body)]
          [] isType(F) -> [result |-> "HTTP_FORM", obj |-> ParseForm(p.obj, p.body)]
          [] OTHER -> [result |-> "HTTP", obj |-> p.obj]
  BY Zenon DEF ParseHttpRequest
<1>5. p.obj = head /\ p.body = b
  <2> HIDE DEF p
  <2> QED
    BY <1>3 DEF InBody
<1>6. isType(J) = json /\ isType(F) = form
  <2> HIDE DEF p
  <2> QED
    BY <1>5 DEF HasType
<1>7. ~(json /\ form)
  <2>1. StringMember(J) # StringMember(F)
    BY DEF StringMember
  <2> QED
    BY <2>1 DEF HasType
<1> HIDE DEF isMethod, n, p, isType
<1>8. ParseHttpRequest(t) =
        CASE json -> [result |-> "HTTP_API", obj |-> ParseMembers(head, b)]
          [] form -> [result |-> "HTTP_FORM", obj |-> ParseForm(head, b)]
          [] ~json /\ ~form -> [result |-> "HTTP", obj |-> head]
  BY <1>2, <1>4, <1>5, <1>6, <1>7
<1> QED
  BY <1>7, <1>8

\* The parser starts with no type of a body.
LEMMA BeginMembers ==
    ASSUME NEW m
    PROVE  ContentType \notin DOMAIN Begin(m).obj
<1>1. DOMAIN Begin(m).obj = {<<"method">>, <<"route">>, <<"protocol">>}
  BY DEF Begin
<1>5. ContentType \notin {<<"method">>, <<"route">>, <<"protocol">>}
  <2>1. /\ ContentType[1] = "Content-Type" /\ <<"method">>[1] = "method"
        /\ <<"route">>[1] = "route" /\ <<"protocol">>[1] = "protocol"
    BY DEF ContentType
  <2> QED
    BY <2>1
<1> QED
  BY <1>1, <1>5

\* A text that begins with no method is JSON.
LEMMA ApiParsed ==
    ParseHttpRequest(<<Json>>) = [result |-> "API", obj |-> JsonMembers @@ Begin("GET").obj]
<1> DEFINE t == <<Json>>
           isMethod(n) == ~StrictCompareInequal(t, <<n, " ", "/">>, 3)
           n == CHOOSE n \in Methods : isMethod(n)
           p == FoldLeft(ReadHead, Begin(n), SubSeq(t, 4, Len(t)))
           isType(y) == ContentType \in DOMAIN p.obj /\ p.obj[ContentType] = StringMember(y)
<1>1. \A o \in Methods : ~isMethod(o)
  <2> SUFFICES ASSUME NEW o \in Methods PROVE StrictCompareInequal(t, <<o, Space, "/">>, 3)
    BY Zenon DEF Space
  <2>1. o # Json
    BY DEF Methods, Json
  <2>2. t[1] = Json /\ Len(t) = 1 /\ <<o, Space, "/">>[1] = o /\ Len(<<o, Space, "/">>) = 3 /\ 1 \in 1 .. 3
    OBVIOUS
  <2> QED
    BY <2>1, <2>2 DEF StrictCompareInequal
<1>2. ~ \E y : isType(y)
  <2>1. SubSeq(t, 4, Len(t)) = <<>>
    OBVIOUS
  <2>2. p = Begin(n)
    <3>1. <<>> \in Text
      BY SyntaxText
    <3> QED
      BY <2>1, <3>1, ReadsNothing, HeadFold
  <2>3. ContentType \notin DOMAIN Begin(n).obj
    BY BeginMembers
  <2> QED
    BY <2>2, <2>3
<1>3. ParseHttpRequest(t) =
        CASE ~\E o \in Methods : isMethod(o) ->
               [result |-> "API", obj |-> ParseMembers(Begin("GET").obj, t)]
          [] isType(<<"application/json">>) -> [result |-> "HTTP_API", obj |-> ParseMembers(p.obj, p.body)]
          [] isType(<<"application/x-www-form-urlencoded">>) -> [result |-> "HTTP_FORM", obj |-> ParseForm(p.obj, p.body)]
          [] OTHER -> [result |-> "HTTP", obj |-> p.obj]
  BY Zenon DEF ParseHttpRequest
<1> HIDE DEF isMethod, n, p, isType
<1>4. ParseHttpRequest(t) = [result |-> "API", obj |-> ParseMembers(Begin("GET").obj, t)]
  BY <1>1, <1>2, <1>3
<1> QED
  BY <1>4 DEF ParseMembers

\* The headers that tell the type of the body are those of what was written.
LEMMA TypeTold ==
    ASSUME NEW r, NEW t
    PROVE  HasType(HeadMeaning(r), t) <=> TellsType(r, t)
BY Zenon DEF HasType, TellsType

\* Whatever a well formed request holds is found, and nothing else.
LEMMA RequestTakenApart ==
    ASSUME NEW r, WellFormed(r)
    PROVE  ParseHttpRequest(WriteHttp(r)) = HttpMeaning(r)
<1> DEFINE head == HeadMeaning(r)
           text_ == WriteHttp(r)
           J == <<"application/json">>
           F == <<"application/x-www-form-urlencoded">>
<1>1. /\ r.method \in Methods /\ r.body \in {"none", "json", "form", "api"}
      /\ r.body = "json" <=> TellsType(r, J)
      /\ r.body = "form" <=> TellsType(r, F)
      /\ Without(r.form, {"&", "="}, {"&", "="})
  BY RequestParts
<1>2. HttpMeaning(r) =
        CASE r.body = "api" -> [result |-> "API", obj |-> JsonMembers @@ Begin("GET").obj]
          [] r.body = "json" -> [result |-> "HTTP_API", obj |-> JsonMembers @@ head]
          [] r.body = "form" -> [result |-> "HTTP_FORM", obj |-> Overlaid(head, Members(r.form))]
          [] OTHER -> [result |-> "HTTP", obj |-> head]
  BY Zenon DEF HttpMeaning
<1> DEFINE api == JsonMembers @@ Begin("GET").obj
           json == JsonMembers @@ head
<1> HIDE DEF api, json, J, F
<1>3. CASE r.body = "api"
  <2>1. text_ = <<Json>>
    BY <1>3, RequestText
  <2>2. ParseHttpRequest(<<Json>>) = [result |-> "API", obj |-> api]
    BY Zenon, ApiParsed DEF api
  <2>3. HttpMeaning(r) = [result |-> "API", obj |-> api]
    BY <1>2, <1>3 DEF api
  <2> HIDE DEF text_
  <2>4. ParseHttpRequest(text_) = HttpMeaning(r)
    BY <2>1, <2>2, <2>3
  <2> QED
    BY <2>4 DEF text_
<1>4. CASE r.body # "api"
  <2> DEFINE body == BodyText(r)
             isJson == HasType(head, J)
             isForm == HasType(head, F)
  <2>1. text_ = <<r.method, Space>> \o r.route \o QueryText(r) \o LineEnd
                \o HeaderText(r) \o <<CR, LF>> \o body
    BY <1>4, RequestText
  <2> HIDE DEF text_
  <2>2. PICK k, x : /\ Starts(text_, r.method, Space, "/")
                    /\ FoldLeft(ReadHead, Begin(r.method), Rest(text_)) = InBody(k, x, body, head)
    BY <1>1, <2>1, HeadRead
  <2>3. (isJson <=> r.body = "json") /\ (isForm <=> r.body = "form")
    BY <1>1, TypeTold
  <2> HIDE DEF head, body, isJson, isForm
  <2>4. ParseHttpRequest(text_) =
          IF isJson THEN [result |-> "HTTP_API", obj |-> ParseMembers(head, body)]
          ELSE IF isForm THEN [result |-> "HTTP_FORM", obj |-> ParseForm(head, body)]
          ELSE [result |-> "HTTP", obj |-> head]
    BY <1>1, <2>2, RequestParsed DEF isJson, isForm, J, F
  <2>5. CASE r.body = "json"
    <3>1. body = <<Json>>
      BY <2>5 DEF BodyText, body
    <3>2. ParseMembers(head, <<Json>>) = json
      BY Zenon DEF ParseMembers, json
    <3>3. HttpMeaning(r) = [result |-> "HTTP_API", obj |-> json]
      BY <1>2, <2>5 DEF json
    <3>4. ParseHttpRequest(text_) = [result |-> "HTTP_API", obj |-> ParseMembers(head, body)]
      BY <2>3, <2>4, <2>5
    <3>5. ParseHttpRequest(text_) = HttpMeaning(r)
      BY <3>1, <3>2, <3>3, <3>4
    <3> QED
      BY <3>5 DEF text_
  <2>6. CASE r.body = "form"
    <3>1. body = Pairs(r.form)
      BY <2>6 DEF BodyText, body
    <3>2. IsObject(head)
      BY OverlaidObject DEF HeadMeaning, head
    <3>3. ParseForm(head, Pairs(r.form)) = Overlaid(head, Members(r.form))
      BY <1>1, <3>2, FormRead
    <3>4. HttpMeaning(r) = [result |-> "HTTP_FORM", obj |-> Overlaid(head, Members(r.form))]
      BY <1>2, <2>6
    <3>5. ParseHttpRequest(text_) = [result |-> "HTTP_FORM", obj |-> ParseForm(head, body)]
      BY <2>3, <2>4, <2>6
    <3>6. ParseHttpRequest(text_) = HttpMeaning(r)
      BY <3>1, <3>3, <3>4, <3>5
    <3> QED
      BY <3>6 DEF text_
  <2>7. CASE r.body = "none"
    <3>1. HttpMeaning(r) = [result |-> "HTTP", obj |-> head]
      BY <1>2, <2>7
    <3>2. ParseHttpRequest(text_) = HttpMeaning(r)
      BY <2>3, <2>4, <2>7, <3>1
    <3> QED
      BY <3>2 DEF text_
  <2> QED
    BY <1>1, <1>4, <2>5, <2>6, <2>7
<1> QED
  BY <1>3, <1>4

\* What a well formed request says is what the parser finds, with the last of the values
\* of a key, whatever the query, the headers and the body hold.
THEOREM RequestsCorrect == Spec => []HttpPartsFound
<1>1. SampleInv => HttpPartsFound
  <2> SUFFICES ASSUME SampleInv, sample.kind = "http" PROVE HttpPartsFound
    BY DEF HttpPartsFound
  <2>1. WellFormed(sample.value)
    BY CodecsAssumption DEF SampleInv, JsonSamples, OtherSamples
  <2> QED
    BY <2>1, RequestTakenApart DEF HttpPartsFound
<1> QED
  BY <1>1, SampleKept, PTL DEF Spec
=============================================================================
