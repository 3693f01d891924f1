-------------------------- MODULE JsonParser_proofs --------------------------
(***************************************************************************)
(* Proofs about JsonParser for any names, values and depths: the types for *)
(* any text and its end, and what is printed of a plain one, whose phases  *)
(* are named below.                                                        *)
(***************************************************************************)
EXTENDS JsonParser, SequenceTheorems, FiniteSetTheorems, TLAPS

-----------------------------------------------------------------------------
(* Reading a sequence from its head.                                       *)

LEMMA HeadTail ==
  ASSUME NEW S, NEW t \in Seq(S), t # <<>>
  PROVE  Head(t) \in S /\ Tail(t) \in Seq(S) /\ Head(t) = t[1] /\ Len(Tail(t)) = Len(t) - 1
         /\ \A i \in 1 .. Len(t) - 1 : Tail(t)[i] = t[i + 1]
OBVIOUS

LEMMA Consed ==
  ASSUME NEW S, NEW c \in S, NEW r \in Seq(S)
  PROVE  /\ <<c>> \o r \in Seq(S) /\ <<c>> \o r # <<>>
         /\ Head(<<c>> \o r) = c /\ Tail(<<c>> \o r) = r
<1> DEFINE t == <<c>> \o r
<1>1. /\ t \in Seq(S) /\ Len(t) = 1 + Len(r)
      /\ \A i \in 1 .. 1 + Len(r) : t[i] = IF i <= 1 THEN c ELSE r[i - 1]
  OBVIOUS
<1> HIDE DEF t
<1>2. Len(r) \in Nat
  OBVIOUS
<1>3. t # <<>> /\ t[1] = c
  BY <1>1, <1>2
<1>4. Tail(t) \in Seq(S) /\ Len(Tail(t)) = Len(r) /\ Head(t) = c
  BY <1>1, <1>2, <1>3, HeadTail
<1>5. \A i \in 1 .. Len(r) : Tail(t)[i] = r[i]
  BY <1>1, <1>2, <1>3, HeadTail
<1>6. Tail(t) = r
  BY <1>4, <1>5, SeqEqual
<1> QED
  BY <1>1, <1>3, <1>4, <1>6 DEF t

LEMMA Single ==
  ASSUME NEW c
  PROVE  <<c>> # <<>> /\ Head(<<c>>) = c /\ Tail(<<c>>) = <<>>
OBVIOUS

(* b has been read, t is left: a part of w, the rest of it and then z.     *)
PartRead(b, t, w, z) == b \o t = w \o z /\ Len(b) <= Len(w)

(* What is read and what is left, while a character is read.               *)
LEMMA MovedOn ==
  ASSUME NEW S, NEW b \in Seq(S), NEW t \in Seq(S), t # <<>>
  PROVE  /\ Append(b, Head(t)) \in Seq(S) /\ Len(Append(b, Head(t))) = Len(b) + 1
         /\ Append(b, Head(t)) \o Tail(t) = b \o t
<1> DEFINE a == Append(b, Head(t))
           r == Tail(t)
<1>1. /\ a \in Seq(S) /\ r \in Seq(S) /\ Len(a) = Len(b) + 1 /\ Len(r) = Len(t) - 1
      /\ Len(b) \in Nat /\ Len(t) \in Nat \ {0}
  BY HeadTail
<1>2. \A i \in 1 .. Len(b) + 1 : a[i] = IF i <= Len(b) THEN b[i] ELSE t[1]
  BY HeadTail
<1>3. \A i \in 1 .. Len(t) - 1 : r[i] = t[i + 1]
  BY HeadTail
<1> HIDE DEF a, r
<1>4. /\ a \o r \in Seq(S) /\ Len(a \o r) = Len(a) + Len(r)
      /\ \A i \in 1 .. Len(a) + Len(r) : (a \o r)[i] = IF i <= Len(a) THEN a[i] ELSE r[i - Len(a)]
  BY <1>1, ConcatProperties
<1>5. /\ b \o t \in Seq(S) /\ Len(b \o t) = Len(b) + Len(t)
      /\ \A i \in 1 .. Len(b) + Len(t) : (b \o t)[i] = IF i <= Len(b) THEN b[i] ELSE t[i - Len(b)]
  BY ConcatProperties
<1>6. Len(a \o r) = Len(b \o t)
  BY <1>1, <1>4, <1>5
<1>7. ASSUME NEW i \in 1 .. Len(a \o r) PROVE (a \o r)[i] = (b \o t)[i]
  <2>1. CASE i <= Len(b)
    BY <1>1, <1>2, <1>4, <1>5, <2>1
  <2>2. CASE i = Len(b) + 1
    BY <1>1, <1>2, <1>4, <1>5, <2>2
  <2>3. CASE i > Len(b) + 1
    <3>1. i - Len(a) \in 1 .. Len(t) - 1 /\ i - Len(a) + 1 = i - Len(b)
      BY <1>1, <1>4, <2>3
    <3>2. (a \o r)[i] = r[i - Len(a)] /\ (b \o t)[i] = t[i - Len(b)]
      BY <1>1, <1>4, <1>5, <2>3
    <3> QED
      BY <1>3, <3>1, <3>2
  <2> QED
    BY <1>1, <1>4, <2>1, <2>2, <2>3
<1>8. a \o r = b \o t
  BY <1>4, <1>5, <1>6, <1>7, SeqEqual
<1> QED
  BY <1>1, <1>8 DEF a, r

(* b is what has been read of w: the next character is one of w, or the    *)
(* first after it.                                                         *)
LEMMA ReadUpTo ==
  ASSUME NEW S, NEW b \in Seq(S), NEW t \in Seq(S), NEW w \in Seq(S), NEW z \in Seq(S),
         PartRead(b, t, w, z), z # <<>>, \A i \in DOMAIN w : w[i] # Head(z)
  PROVE  /\ t # <<>>
         /\ Head(t) = Head(z) => b = w /\ t = z
         /\ Head(t) # Head(z) => PartRead(Append(b, Head(t)), Tail(t), w, z)
<1> DEFINE q == Head(z)
<1>0. b \o t = w \o z /\ Len(b) <= Len(w)
  BY DEF PartRead
<1>1. /\ Len(b) \in Nat /\ Len(t) \in Nat /\ Len(w) \in Nat /\ Len(z) \in Nat \ {0}
      /\ z[1] = q /\ DOMAIN w = 1 .. Len(w) /\ \A i \in DOMAIN w : w[i] # q
  OBVIOUS
<1>2. /\ Len(w \o z) = Len(w) + Len(z)
      /\ \A i \in 1 .. Len(w) + Len(z) : (w \o z)[i] = IF i <= Len(w) THEN w[i] ELSE z[i - Len(w)]
  BY ConcatProperties
<1>3. /\ Len(w \o z) = Len(b) + Len(t)
      /\ \A i \in 1 .. Len(b) + Len(t) : (w \o z)[i] = IF i <= Len(b) THEN b[i] ELSE t[i - Len(b)]
  <2>1. /\ Len(b \o t) = Len(b) + Len(t)
        /\ \A i \in 1 .. Len(b) + Len(t) : (b \o t)[i] = IF i <= Len(b) THEN b[i] ELSE t[i - Len(b)]
    BY ConcatProperties
  <2> QED
    BY <1>0, <2>1
<1>4. t # <<>> /\ Head(t) = t[1] /\ Len(t) # 0
  <2>1. Len(b) + Len(t) = Len(w) + Len(z) /\ Len(b) <= Len(w)
    BY <1>0, <1>2, <1>3
  <2>2. Len(t) # 0
    BY <1>1, <2>1
  <2> QED
    BY <2>2
<1>5. (w \o z)[Len(b) + 1] = Head(t)
  <2>1. Len(b) + 1 \in 1 .. Len(b) + Len(t) /\ ~ (Len(b) + 1 <= Len(b)) /\ Len(b) + 1 - Len(b) = 1
    BY <1>1, <1>4
  <2> QED
    BY <1>3, <1>4, <2>1
<1>8. Len(b) < Len(w) => PartRead(Append(b, Head(t)), Tail(t), w, z)
  <2>1. /\ Append(b, Head(t)) \o Tail(t) = b \o t
        /\ Len(Append(b, Head(t))) = Len(b) + 1
    BY <1>4, MovedOn
  <2>2. Append(b, Head(t)) \o Tail(t) = w \o z
    BY <1>0, <2>1, Zenon
  <2>3. Len(b) < Len(w) => Len(b) + 1 <= Len(w)
    BY <1>1
  <2> QED
    BY <2>1, <2>2, <2>3, Zenon DEF PartRead
<1>6. CASE Len(b) < Len(w)
  <2>1. Len(b) + 1 \in 1 .. Len(w) /\ Len(b) + 1 \in 1 .. Len(w) + Len(z) /\ Len(b) + 1 <= Len(w)
    BY <1>1, <1>6
  <2>2. Head(t) = w[Len(b) + 1]
    BY <1>2, <1>5, <2>1
  <2> QED
    BY <1>1, <1>4, <1>6, <1>8, <2>1, <2>2
<1>7. CASE Len(b) = Len(w)
  <2>1. \A i \in 1 .. Len(w) : b[i] = w[i]
    BY <1>1, <1>2, <1>3, <1>7
  <2>2. b = w
    BY <1>7, <2>1, SeqEqual
  <2>3. Len(t) = Len(z)
    BY <1>1, <1>2, <1>3, <1>7
  <2>4. ASSUME NEW i \in 1 .. Len(t) PROVE t[i] = z[i]
    <3>1. /\ i + Len(b) \in 1 .. Len(b) + Len(t) /\ ~ (i + Len(b) <= Len(b))
          /\ i + Len(b) - Len(b) = i
      BY <1>1
    <3> QED
      BY <1>2, <1>3, <1>7, <2>3, <3>1, SMTT(30)
  <2>5. t = z
    BY <2>3, <2>4, SeqEqual
  <2> QED
    BY <1>4, <2>2, <2>5
<1> QED
  BY <1>0, <1>1, <1>6, <1>7

(* The end of a sequence, read one element further.                        *)
LEMMA RestRead ==
  ASSUME NEW S, NEW w \in Seq(S), NEW i \in 0 .. Len(w) - 1
  PROVE  /\ SubSeq(w, i + 1, Len(w)) # <<>>
         /\ Head(SubSeq(w, i + 1, Len(w))) = w[i + 1]
         /\ Tail(SubSeq(w, i + 1, Len(w))) = SubSeq(w, i + 2, Len(w))
<1> DEFINE n == Len(w)
           r == SubSeq(w, i + 1, n)
           u == SubSeq(w, i + 2, n)
<1>1. n \in Nat /\ i \in Nat /\ i < n
  OBVIOUS
<1>2. /\ r \in Seq(S) /\ Len(r) = n - i
      /\ \A j \in 1 .. n - i : r[j] = w[i + j]
  OBVIOUS
<1>3. /\ u \in Seq(S) /\ Len(u) = n - i - 1
      /\ \A j \in 1 .. n - i - 1 : u[j] = w[i + 1 + j]
  OBVIOUS
<1> HIDE DEF n, r, u
<1>4. r # <<>> /\ Head(r) = w[i + 1]
  BY <1>1, <1>2
<1>5. Tail(r) \in Seq(S) /\ Len(Tail(r)) = n - i - 1
  BY <1>1, <1>2, <1>4, HeadTail
<1>6. ASSUME NEW j \in 1 .. n - i - 1 PROVE Tail(r)[j] = u[j]
  <2>1. j \in 1 .. Len(r) - 1 /\ j + 1 \in 1 .. n - i /\ i + (j + 1) = i + 1 + j
    BY <1>1, <1>2
  <2>2. Tail(r)[j] = r[j + 1]
    BY <1>2, <1>4, <2>1, HeadTail
  <2> QED
    BY <1>2, <1>3, <2>1, <2>2
<1>7. Tail(r) = u
  BY <1>3, <1>5, <1>6, SeqEqual
<1> QED
  BY <1>4, <1>7 DEF n, r, u

-----------------------------------------------------------------------------
(* Types, for any text.                                                    *)

(* STRING has every character; that it has these the provers do not know.  *)
Letters == {"t", "r", "u", "e", "f", "a", "l", "s", "n"}
Char == STRING \cup Letters \cup {Quote, ":", ",", "{", "[", "}", "]"}

LEMMA StringsAreChars == \A s \in Seq(STRING) : s \in Seq(Char)
<1>1. ASSUME NEW S, NEW T, S \subseteq T, NEW s \in Seq(S) PROVE s \in Seq(T)
  <2>1. s \in [1 .. Len(s) -> T] /\ Len(s) \in Nat
    BY <1>1
  <2> QED
    BY <2>1, SeqDef
<1> QED
  BY <1>1 DEF Char

LEMMA OneChar ==
  ASSUME NEW S, NEW c \in S
  PROVE  <<c>> \in Seq(S)
OBVIOUS

LiteralStates == {"VALUE_TRUE", "VALUE_FALSE", "VALUE_NULL"}

LEMMA LiteralLengths ==
  /\ DOMAIN Literal = LiteralStates
  /\ \A l \in LiteralStates : /\ Literal[l] \in Seq(Char) /\ Len(Literal[l]) \in 4 .. 5
                              /\ Literal[l][1] \in {"t", "f", "n"}
<1>1. DOMAIN Literal = LiteralStates
  BY DEF Literal, LiteralStates
<1>2. /\ Literal["VALUE_TRUE"] = <<"t", "r", "u", "e">>
      /\ Literal["VALUE_FALSE"] = <<"f", "a", "l", "s", "e">>
      /\ Literal["VALUE_NULL"] = <<"n", "u", "l", "l">>
  BY DEF Literal
<1>3. ASSUME NEW S, NEW a \in S, NEW b \in S, NEW c \in S, NEW d \in S, NEW e \in S
      PROVE  /\ <<a, b, c, d>> \in Seq(S) /\ Len(<<a, b, c, d>>) = 4
             /\ <<a, b, c, d, e>> \in Seq(S) /\ Len(<<a, b, c, d, e>>) = 5
             /\ <<a, b, c, d>>[1] = a /\ <<a, b, c, d, e>>[1] = a
  OBVIOUS
<1>4. \A c \in Letters : c \in Char
  BY DEF Char
<1>5. /\ "t" \in Letters /\ "r" \in Letters /\ "u" \in Letters /\ "e" \in Letters
      /\ "f" \in Letters /\ "a" \in Letters /\ "l" \in Letters /\ "s" \in Letters
      /\ "n" \in Letters
  BY DEF Letters
<1> HIDE DEF Char, Letters
<1>6. /\ Literal["VALUE_TRUE"] \in Seq(Char) /\ Len(Literal["VALUE_TRUE"]) = 4
      /\ Literal["VALUE_TRUE"][1] = "t"
  BY <1>2, <1>3, <1>4, <1>5
<1>7. /\ Literal["VALUE_FALSE"] \in Seq(Char) /\ Len(Literal["VALUE_FALSE"]) = 5
      /\ Literal["VALUE_FALSE"][1] = "f"
  BY <1>2, <1>3, <1>4, <1>5
<1>8. /\ Literal["VALUE_NULL"] \in Seq(Char) /\ Len(Literal["VALUE_NULL"]) = 4
      /\ Literal["VALUE_NULL"][1] = "n"
  BY <1>2, <1>3, <1>4, <1>5
<1>9. 4 \in 4 .. 5 /\ 5 \in 4 .. 5
  OBVIOUS
<1> QED
  BY <1>1, <1>6, <1>7, <1>8, <1>9 DEF LiteralStates

OtherStates ==
  {"START", "KEY_BEGIN", "KEY", "KEY_END", "VALUE_BEGIN", "VALUE_STRING", "VALUE_NUMBER",
   "VALUE_END", "DONE", "FAILED", "UNDEFINED"}

LEMMA AllStates ==
  /\ DOMAIN Expected = {"START", "KEY_BEGIN", "KEY_END", "VALUE_BEGIN", "VALUE_END", "DONE"}
  /\ States = OtherStates \cup LiteralStates
<1>1. DOMAIN Expected = {"START", "KEY_BEGIN", "KEY_END", "VALUE_BEGIN", "VALUE_END", "DONE"}
  BY DEF Expected
<1> QED
  BY <1>1, LiteralLengths DEF States, OtherStates, LiteralStates

Types ==
  /\ text \in Seq(Char) /\ key_buffer \in Seq(Char) /\ val_buffer \in Seq(Char)
  /\ key_stack \in Seq(Seq(Char)) /\ Len(key_stack) <= StackSize
  /\ state \in OtherStates \cup LiteralStates
  /\ state \in LiteralStates => literal_index \in 1 .. Len(Literal[state]) - 1
  /\ literal_index \in 0 .. 5
  /\ array_index \in Nat /\ in_array \in BOOLEAN

LEMMA Punctuated ==
  /\ <<>> \in Seq(Char) /\ <<",">> \in Seq(Char) /\ <<Quote>> \in Seq(Char)
  /\ <<":">> \in Seq(Char) /\ <<"{">> \in Seq(Char) /\ <<"[">> \in Seq(Char)
  /\ <<"}">> \in Seq(Char) /\ <<"]">> \in Seq(Char) /\ <<Quote, ":">> \in Seq(Char)
<1>1. /\ "," \in Char /\ Quote \in Char /\ ":" \in Char /\ "{" \in Char /\ "[" \in Char
      /\ "}" \in Char /\ "]" \in Char
  BY DEF Char
<1>2. \A S : <<>> \in Seq(S) /\ \A c, d \in S : <<c, d>> \in Seq(S)
  OBVIOUS
<1> QED
  BY <1>1, <1>2, OneChar

LEMMA WriteTypes == ASSUME Types, Write PROVE text' \in Seq(Char)
<1>1. ASSUME NEW S, NEW a \in Seq(S), NEW b \in Seq(S) PROVE a \o b \in Seq(S)
  OBVIOUS
<1>5. Comma \in Seq(Char) /\ (IF Inside("array") THEN Comma ELSE <<>>) \in Seq(Char)
  BY Punctuated DEF Comma
<1>6. ASSUME NEW n \in Names, WriteName(n) PROVE text' \in Seq(Char)
  <2>1. n \in Seq(Char)
    BY TextAssumption, StringsAreChars DEF Unquoted
  <2>2. Comma \o <<Quote>> \in Seq(Char)
    BY <1>1, <1>5, Punctuated
  <2>3. (Comma \o <<Quote>>) \o n \in Seq(Char)
    BY <1>1, <2>1, <2>2
  <2>4. ((Comma \o <<Quote>>) \o n) \o <<Quote, ":">> \in Seq(Char)
    BY <1>1, <2>3, Punctuated
  <2>5. text' = ((Comma \o <<Quote>>) \o n) \o <<Quote, ":">>
    BY <1>6 DEF WriteName
  <2> QED
    BY <2>4, <2>5
<1>7. ASSUME NEW s \in Scalars, WriteScalar(s) PROVE text' \in Seq(Char)
  <2>1. s.text \in Seq(Char)
    BY TextAssumption, StringsAreChars
  <2> QED
    BY <1>1, <1>5, <1>7, <2>1 DEF WriteScalar
<1>8. ASSUME NEW kind, NEW bracket \in {"{", "["}, Open(kind, bracket)
      PROVE  text' \in Seq(Char)
  BY <1>1, <1>5, <1>8, Punctuated DEF Open
<1>9. ASSUME NEW kind, NEW bracket \in {"}", "]"}, Close(kind, bracket)
      PROVE  text' \in Seq(Char)
  BY <1>9, Punctuated DEF Close
<1> QED
  BY <1>6, <1>7, <1>8, <1>9 DEF Write

LEMMA TypesStep == Types /\ [Next]_vars => Types'
<1> SUFFICES ASSUME Types, [Next]_vars PROVE Types'
  OBVIOUS
<1> USE DEF buffers, nesting, output
<1>1. text # <<>> => Head(text) \in Char /\ Tail(text) \in Seq(Char)
  BY HeadTail DEF Types
<1>2. text # <<>> => /\ Append(key_buffer, Head(text)) \in Seq(Char)
                     /\ Append(val_buffer, Head(text)) \in Seq(Char)
                     /\ <<Head(text)>> \in Seq(Char)
  BY <1>1 DEF Types
<1>3. <<>> \in Seq(Char)
  OBVIOUS
<1>4. OtherStates \cap LiteralStates = {} /\ DOMAIN Literal = LiteralStates
  BY LiteralLengths DEF OtherStates, LiteralStates
<1>5. /\ AfterValue \in {"VALUE_END", "UNDEFINED"}
      /\ \A b, t : Within(b, t) \in {t, "UNDEFINED"}
  BY DEF AfterValue, Within
<1>6. Len(key_stack) \in Nat /\ StackSize \in Nat
  BY SizesAssumption DEF Types
<1>7. ASSUME Push PROVE key_stack' \in Seq(Seq(Char)) /\ Len(key_stack') <= StackSize
  <2>1. CASE Full
    BY <1>7, <2>1 DEF Push, Types
  <2>2. CASE ~ Full
    <3>1. key_stack' = Append(key_stack, key_buffer) /\ Len(key_stack) < StackSize
      BY <1>6, <1>7, <2>2 DEF Push, Full, Types
    <3>2. Append(key_stack, key_buffer) \in Seq(Seq(Char))
          /\ Len(Append(key_stack, key_buffer)) = Len(key_stack) + 1
      BY DEF Types
    <3> QED
      BY <1>6, <3>1, <3>2
  <2> QED
    BY <2>1, <2>2
<1>8. ASSUME Pop PROVE key_stack' \in Seq(Seq(Char)) /\ Len(key_stack') <= StackSize
  <2>1. CASE key_stack = <<>>
    BY <1>8, <2>1 DEF Pop, Types
  <2>2. CASE key_stack # <<>>
    <3>1. Len(key_stack) - 1 \in 0 .. Len(key_stack) /\ Len(key_stack) - 1 <= StackSize
      BY <1>6, <2>2 DEF Types
    <3>2. key_stack' = SubSeq(key_stack, 1, Len(key_stack) - 1)
      BY <1>8, <2>2 DEF Pop, Front
    <3>3. ASSUME NEW S, NEW s \in Seq(S), NEW n \in 0 .. Len(s)
          PROVE  SubSeq(s, 1, n) \in Seq(S) /\ Len(SubSeq(s, 1, n)) = n
      OBVIOUS
    <3> QED
      BY <3>1, <3>2, <3>3 DEF Types
  <2> QED
    BY <2>1, <2>2
<1>9. ASSUME NEW v, Prints(v)
      PROVE  /\ UNCHANGED <<key_stack, in_array>> /\ array_index' \in Nat
  BY <1>9 DEF Prints, Types
<1>10. CASE Ignore
  BY <1>1, <1>4, <1>10, AllStates DEF Ignore, Reads, At, Types, OtherStates
<1>11. CASE Punctuation \/ NextValue
  BY <1>1, <1>4, <1>5, <1>11 DEF Punctuation, NextValue, Reads, At, Types, OtherStates
<1>12. CASE Name
  BY <1>1, <1>2, <1>3, <1>4, <1>5, <1>12 DEF Name, Reads, At, Types, OtherStates
<1>13. CASE OpenObject \/ OpenArray
  <2>1. key_stack' \in Seq(Seq(Char)) /\ Len(key_stack') <= StackSize
    BY <1>7, <1>13 DEF OpenObject, OpenArray
  <2>2. state' \in OtherStates /\ text' \in Seq(Char)
    BY <1>1, <1>13 DEF OpenObject, OpenArray, Reads, At, OtherStates
  <2>3. array_index' \in Nat /\ in_array' \in BOOLEAN
    <3>1. CASE OpenObject
      BY <3>1 DEF OpenObject, Types
    <3>2. CASE OpenArray
      <4>1. in_array' = TRUE /\ array_index' = 0
        BY <3>2 DEF OpenArray
      <4>2. 0 \in Nat /\ TRUE \in BOOLEAN
        OBVIOUS
      <4> QED
        BY <4>1, <4>2
    <3> QED
      BY <1>13, <3>1, <3>2
  <2> QED
    BY <1>4, <1>13, <2>1, <2>2, <2>3 DEF OpenObject, OpenArray, Types
<1>14. CASE BeginString \/ BeginNumber \/ MoreOfValue
  BY <1>1, <1>2, <1>3, <1>4, <1>5, <1>14
  DEF BeginString, BeginNumber, MoreOfValue, Reads, At, Types, OtherStates
<1>15. CASE BeginLiteral
  <2>1. PICK l \in LiteralStates : Reads("VALUE_BEGIN", {Literal[l][1]}, l)
    BY <1>4, <1>15 DEF BeginLiteral
  <2>2. 1 \in 1 .. Len(Literal[l]) - 1 /\ 1 \in 0 .. 5
    <3>1. PICK n \in 4 .. 5 : n = Len(Literal[l])
      BY LiteralLengths
    <3>2. 1 \in 1 .. n - 1 /\ 1 \in 0 .. 5
      OBVIOUS
    <3> QED
      BY <3>1, <3>2
  <2>3. state' = l /\ text' \in Seq(Char)
    BY <1>1, <2>1 DEF Reads, At
  <2> QED
    BY <1>15, <2>2, <2>3 DEF BeginLiteral, Types
<1>16. CASE EndString
  BY <1>1, <1>4, <1>5, <1>9, <1>16 DEF EndString, Reads, At, Types, OtherStates
<1>17. CASE EndNumber
  BY <1>1, <1>4, <1>5, <1>9, <1>17 DEF EndNumber, At, Types, OtherStates, textVars
<1>18. CASE MoreOfLiteral
  <2> DEFINE expected(l) == Literal[l][literal_index + 1]
             last(l) == literal_index + 1 = Len(Literal[l])
  <2>1. PICK l \in LiteralStates :
          \/ /\ Reads(l, {expected(l)}, IF last(l) THEN AfterValue ELSE l)
             /\ literal_index' = literal_index + 1
             /\ IF last(l) THEN Prints(Literal[l]) ELSE UNCHANGED <<nesting, output>>
          \/ /\ Reads(l, AllBut(expected(l)), "FAILED")
             /\ UNCHANGED <<literal_index, nesting, output>>
    BY <1>4, <1>18 DEF MoreOfLiteral
  <2>2. state = l /\ text' \in Seq(Char) /\ UNCHANGED <<key_buffer, val_buffer>>
    BY <1>1, <1>18, <2>1 DEF Reads, At, MoreOfLiteral
  <2>3. literal_index \in 1 .. Len(Literal[l]) - 1 /\ Len(Literal[l]) \in 4 .. 5
    BY <2>2, LiteralLengths DEF Types
  <2>4. literal_index + 1 \in 0 .. 5
        /\ (~ last(l) => literal_index + 1 \in 1 .. Len(Literal[l]) - 1)
    <3>1. PICK n \in 4 .. 5 : n = Len(Literal[l])
      BY <2>3
    <3>2. literal_index \in 1 .. n - 1
      BY <2>3, <3>1
    <3>3. /\ literal_index + 1 \in 0 .. 5
          /\ literal_index + 1 # n => literal_index + 1 \in 1 .. n - 1
      BY <3>2
    <3> QED
      BY <3>1, <3>3
  <2>5. CASE Reads(l, AllBut(expected(l)), "FAILED") /\ UNCHANGED <<literal_index, nesting, output>>
    BY <1>4, <2>2, <2>5 DEF Reads, Types, OtherStates
  <2>6. CASE /\ Reads(l, {expected(l)}, IF last(l) THEN AfterValue ELSE l)
             /\ literal_index' = literal_index + 1
             /\ IF last(l) THEN Prints(Literal[l]) ELSE UNCHANGED <<nesting, output>>
    <3>1. /\ UNCHANGED key_stack /\ UNCHANGED in_array /\ array_index' \in Nat
      BY <1>9, <2>6 DEF Types
    <3>2. state' = IF last(l) THEN AfterValue ELSE l
      BY <2>6 DEF Reads
    <3>3. CASE last(l)
      BY <1>4, <1>5, <2>2, <2>4, <2>6, <3>1, <3>2, <3>3 DEF Types, OtherStates
    <3>4. CASE ~ last(l)
      BY <1>4, <2>2, <2>4, <2>6, <3>1, <3>2, <3>4 DEF Types
    <3> QED
      BY <3>3, <3>4
  <2> QED
    BY <2>1, <2>5, <2>6
<1>19. CASE CloseObject \/ CloseArray
  BY <1>1, <1>4, <1>8, <1>19 DEF CloseObject, CloseArray, Reads, At, Types, OtherStates
<1>20. CASE Grow
  BY <1>20, WriteTypes DEF Grow, Types
<1>21. CASE UNCHANGED vars
  BY <1>21 DEF vars, textVars, Types
<1> QED
  BY <1>10, <1>11, <1>12, <1>13, <1>14, <1>15, <1>16, <1>17, <1>18, <1>19, <1>20, <1>21
  DEF Next, Parse

(* The types of the parser's variables, for any text: key_depth stays      *)
(* within the rows (or the state is UNDEFINED), literal_index within the   *)
(* literal of its state.                                                   *)
THEOREM TypesInvariant == Spec => []Types
<1>1. Init => Types
  <2> SUFFICES ASSUME Init PROVE Types
    OBVIOUS
  <2>1. text = <<"{">> /\ state = "START" /\ key_buffer = <<>> /\ val_buffer = <<>>
        /\ key_stack = <<>> /\ literal_index = 0 /\ array_index = 0 /\ in_array = FALSE
    BY DEF Init, TextInit
  <2>2. <<"{">> \in Seq(Char) /\ <<>> \in Seq(Char) /\ <<>> \in Seq(Seq(Char))
        /\ Len(key_stack) = 0
    <3>1. \A S : <<>> \in Seq(S) /\ Len(<<>>) = 0
      OBVIOUS
    <3> QED
      BY <2>1, <3>1, Punctuated
  <2>3. state \in OtherStates /\ state \notin LiteralStates
    BY <2>1 DEF OtherStates, LiteralStates
  <2>4. 0 \in Nat /\ 0 \in 0 .. 5 /\ FALSE \in BOOLEAN /\ Len(key_stack) <= StackSize
    <3>1. Len(key_stack) = 0
      BY <2>2
    <3>2. Len(key_stack) <= StackSize
      BY <3>1, SizesAssumption
    <3>3. 0 \in Nat /\ 0 \in 0 .. 5 /\ FALSE \in BOOLEAN
      OBVIOUS
    <3> QED
      BY <3>2, <3>3
  <2>5. /\ text \in Seq(Char) /\ key_buffer \in Seq(Char) /\ val_buffer \in Seq(Char)
        /\ key_stack \in Seq(Seq(Char))
    BY <2>1, <2>2
  <2>6. literal_index \in 0 .. 5 /\ array_index \in Nat /\ in_array \in BOOLEAN
    BY <2>1, <2>4
  <2> QED
    BY <2>3, <2>4, <2>5, <2>6 DEF Types
<1> QED
  BY <1>1, TypesStep, PTL DEF Spec

-----------------------------------------------------------------------------
(* Where the parser stands in a plain text.  A phase says what is left of  *)
(* the name, the value or the bracket that is being read, and what the     *)
(* parser's variables hold at that place.                                  *)

Kinds == {"object", "array"}
Containers == [kind : Kinds, key : Names \cup {NoName}, items : Nat]

(* Only the innermost container can be an array or empty.                  *)
Nested ==
  /\ nest \in Seq(Containers) /\ Len(nest) <= MaxDepth
  /\ \A i \in 1 .. Len(nest) - 1 : nest[i].kind = "object" /\ nest[i].items # 0
  /\ nest # <<>> => nest[1].kind = "object"
  /\ name \in Names \cup {NoName}

OwnKey == IF in_array THEN Index(array_index) ELSE key_buffer
InPlace == IF in_array THEN key_stack # <<>> ELSE key_buffer \in Names

(* All values are printed; the last one has not been printed.              *)
Settled ==
  /\ owed = 0
  /\ written.path # <<>> =>
       printed = [path |-> KeyShown(written.path), value |-> written.value]
Due(shown) ==
  /\ InPlace /\ owed = 1
  /\ written = [path |-> Append(key_stack, OwnKey), value |-> shown]

(* A value has ended, or is a number whose end is not seen yet.            *)
Ended ==
  \/ state = "VALUE_END" /\ Settled
  \/ state = "VALUE_NUMBER" /\ Due(Number(val_buffer))

InObject == Inside("object") /\ key_stack = Around /\ ~ in_array
InArray(items) ==
  /\ Inside("array") /\ key_stack = Around /\ key_stack # <<>>
  /\ in_array /\ Last(nest).items = array_index + items

(* A value is being read, the last one of its container so far.            *)
InValue ==
  /\ name = NoName
  /\ InArray(1) \/ (InObject /\ Last(nest).items # 0)

NameText == name \o <<Quote, ":">>

(* What is in the quotes of a string, and how a number is written.         *)
StringOf(chars) == \E s \in Scalars : ~ s.odd /\ SpeltString(s) /\ chars = s.shown
NumberOf(chars) == \E s \in Scalars : ~ s.odd /\ SpeltNumber(s) /\ chars = s.text

Spells(chars, shown) == \E s \in Scalars : ~ s.odd /\ chars = s.text /\ shown = s.shown

AtStart ==
  /\ state = "START" /\ text = <<"{">>
  /\ nest = <<Container("object", NoName)>> /\ name = NoName
  /\ key_stack = <<>> /\ ~ in_array /\ Settled

NextName ==
  /\ Ended /\ text = <<",">> \o (<<Quote>> \o NameText)
  /\ InObject /\ name # NoName

AtName ==
  /\ state = "KEY_BEGIN" /\ text = <<Quote>> \o NameText
  /\ InObject /\ name # NoName /\ Settled

InName ==
  /\ state = "KEY"
  /\ PartRead(key_buffer, text, name, <<Quote, ":">>)
  /\ InObject /\ name # NoName /\ Settled

AfterName ==
  /\ state = "KEY_END" /\ text = <<":">> /\ key_buffer = name
  /\ InObject /\ name # NoName /\ Settled

Named ==
  /\ state = "VALUE_BEGIN" /\ text = <<>> /\ key_buffer = name
  /\ InObject /\ name # NoName /\ Settled

AtOpen ==
  /\ state = "VALUE_BEGIN" /\ name = NoName
  /\ text = IF Inside("array") THEN <<"[">> ELSE <<"{">>
  /\ Len(nest) >= 2 /\ Last(nest).items = 0 /\ Last(nest).key = key_buffer
  /\ Around = Append(key_stack, key_buffer) /\ ~ in_array /\ Settled

ObjectOpened ==
  /\ state = "KEY_BEGIN" /\ text = <<>> /\ name = NoName
  /\ InObject /\ Last(nest).items = 0 /\ Settled

ArrayOpened ==
  /\ state = "VALUE_BEGIN" /\ text = <<>> /\ name = NoName
  /\ InArray(0) /\ Last(nest).items = 0 /\ Settled

NextElement ==
  /\ name = NoName /\ text # <<>> /\ Head(text) = ","
  /\ Spells(Tail(text), written.value)
  /\ \/ state = "VALUE_END" /\ InArray(1) /\ Due(written.value)
     \/ /\ state = "VALUE_NUMBER" /\ InArray(2) /\ owed = 2
        /\ written = [path |-> Append(key_stack, Index(array_index + 1)),
                         value |-> written.value]

AtValue ==
  /\ state = "VALUE_BEGIN" /\ InValue /\ Due(written.value)
  /\ Spells(text, written.value)

InString ==
  /\ state = "VALUE_STRING" /\ InValue /\ Due(written.value)
  /\ StringOf(written.value)
  /\ PartRead(val_buffer, text, written.value, <<Quote>>)

InNumber ==
  /\ state = "VALUE_NUMBER" /\ InValue /\ Due(Number(val_buffer \o text))
  /\ NumberOf(val_buffer \o text)
  /\ \A i \in DOMAIN text : text[i] \in Digits \cup {"."}

InLiteral ==
  /\ InValue
  /\ \E l \in DOMAIN Literal :
       /\ state = l /\ Due(Literal[l])
       /\ text = SubSeq(Literal[l], literal_index + 1, Len(Literal[l]))

ValueEnded ==
  /\ state = "VALUE_END" /\ text = <<>> /\ name = NoName /\ nest # <<>>
  /\ InArray(0) \/ InObject
  /\ Last(nest).items # 0 /\ Settled

AtClose ==
  /\ Ended /\ name = NoName /\ text = IF in_array THEN <<"]">> ELSE <<"}">>
  /\ IF nest = <<>> THEN key_stack = <<>> /\ ~ in_array
     ELSE /\ Last(nest).kind = "object" /\ Last(nest).items # 0
          /\ key_stack # <<>> /\ Front(key_stack) = Around

TextEnded ==
  /\ state = "DONE" /\ text = <<>> /\ name = NoName
  /\ nest = <<>> /\ key_stack = <<>> /\ Settled

Phase ==
  \/ AtStart \/ NextName \/ AtName \/ InName \/ AfterName \/ Named
  \/ AtOpen \/ ObjectOpened \/ ArrayOpened
  \/ NextElement \/ AtValue \/ InString \/ InNumber \/ InLiteral
  \/ ValueEnded \/ AtClose \/ TextEnded

Plain == odd = {} => Nested /\ Phase

(* Names, strings and numbers that have room in the buffers with their     *)
(* terminating 0, and names of which as many as there are levels have room *)
(* in full_key; main compares neither.                                     *)
TokensFit ==
  /\ \A n \in Names : Len(n) < BufferSize
  /\ \A s \in Scalars :
       ~ s.odd => /\ SpeltString(s) => Len(s.shown) < BufferSize
                  /\ SpeltNumber(s) => Len(s.text) < BufferSize

NamesFit ==
  \E longest \in Nat : /\ \A n \in Names : Len(n) <= longest
                       /\ MaxDepth * (longest + 1) <= FullKeySize

(* What is in the buffers and rows fits, and the rows are names.           *)
Fits ==
  /\ Len(key_buffer) < BufferSize /\ Len(val_buffer) < BufferSize
  /\ key_stack \in Seq(Names \cup {NoName}) /\ Len(key_stack) < MaxDepth
BuffersFit == odd = {} => Fits

LEMMA HasRoom ==
  ASSUME Fits, NEW t
  PROVE  Within(key_buffer, t) = t /\ Within(val_buffer, t) = t
BY DEF Fits, Within

LEMMA KeyHasRoom ==
  ASSUME NamesFit, Fits, key_buffer \in Names
  PROVE  Cardinality(KeyBytes) <= FullKeySize
<1>1. PICK longest \in Nat : /\ \A n \in Names : Len(n) <= longest
                             /\ MaxDepth * (longest + 1) <= FullKeySize
  BY DEF NamesFit
<1> DEFINE rows == Append(key_stack, key_buffer)
           box == (1 .. MaxDepth) \X (1 .. longest + 1)
<1>2. MaxDepth \in Nat \ {0} /\ FullKeySize \in Nat
  BY SizesAssumption
<1>3. /\ rows \in Seq(Names \cup {NoName}) /\ DOMAIN rows = 1 .. Len(key_stack) + 1
      /\ Len(key_stack) \in Nat
  BY DEF Fits
<1>4. ASSUME NEW r \in DOMAIN rows
      PROVE  r \in 1 .. MaxDepth /\ Len(rows[r]) \in Nat /\ Len(rows[r]) <= longest
  <2>1. rows[r] \in Names \cup {NoName}
    BY <1>3
  <2>2. \A n \in Names \cup {NoName} : Len(n) \in Nat /\ Len(n) <= longest
    <3>1. \A n \in Names : Len(n) \in Nat
      BY TextAssumption DEF Unquoted
    <3>2. NoName = <<>> /\ Len(<<>>) = 0
      BY DEF NoName
    <3> QED
      BY <1>1, <3>1, <3>2
  <2>3. r \in 1 .. MaxDepth
    BY <1>2, <1>3 DEF Fits
  <2> QED
    BY <2>1, <2>2, <2>3
<1> HIDE DEF rows
<1>5. KeyBytes \subseteq box
  <2>1. KeyBytes = UNION {{r} \X (1 .. Len(rows[r]) + 1) : r \in DOMAIN rows}
    BY DEF KeyBytes, rows
  <2>2. ASSUME NEW r \in DOMAIN rows PROVE {r} \X (1 .. Len(rows[r]) + 1) \subseteq box
    <3>1. 1 .. Len(rows[r]) + 1 \subseteq 1 .. longest + 1
      BY <1>4
    <3> QED
      BY <1>4, <3>1
  <2> QED
    BY <2>1, <2>2
<1>6. IsFiniteSet(box) /\ Cardinality(box) = MaxDepth * (longest + 1)
  <2>1. /\ IsFiniteSet(1 .. MaxDepth) /\ Cardinality(1 .. MaxDepth) = MaxDepth
        /\ IsFiniteSet(1 .. longest + 1) /\ Cardinality(1 .. longest + 1) = longest + 1
    <3>1. 1 \in Int /\ MaxDepth \in Int /\ longest + 1 \in Int
          /\ ~ (1 > MaxDepth) /\ ~ (1 > longest + 1)
          /\ MaxDepth - 1 + 1 = MaxDepth /\ longest + 1 - 1 + 1 = longest + 1
      BY <1>2
    <3> QED
      BY <3>1, FS_Interval
  <2> DEFINE A == 1 .. MaxDepth
             B == 1 .. longest + 1
  <2>2. /\ IsFiniteSet(A) /\ Cardinality(A) = MaxDepth
        /\ IsFiniteSet(B) /\ Cardinality(B) = longest + 1
    BY <2>1
  <2> HIDE DEF A, B
  <2>3. IsFiniteSet(A \X B) /\ Cardinality(A \X B) = Cardinality(A) * Cardinality(B)
    BY ONLY <2>2, FS_Product
  <2> QED
    BY <2>2, <2>3 DEF A, B
<1>7. Cardinality(KeyBytes) <= Cardinality(box) /\ IsFiniteSet(KeyBytes)
  BY <1>5, <1>6, FS_Subset
<1>8. Cardinality(KeyBytes) \in Nat
  BY <1>7, FS_CardinalityType
<1>9. PICK k \in Nat, m \in Nat : k = Cardinality(KeyBytes) /\ m = MaxDepth * (longest + 1)
  <2>1. MaxDepth * (longest + 1) \in Nat
    BY <1>2
  <2> QED
    BY <1>8, <2>1
<1>10. k <= m /\ m <= FullKeySize
  BY <1>1, <1>6, <1>7, <1>9
<1>11. k <= FullKeySize
  BY <1>2, <1>10
<1> QED
  BY <1>9, <1>11

-----------------------------------------------------------------------------
(* Which phase it is the parser's state tells, up to what is left.         *)

LEMMA Selected ==
  ASSUME Phase
  PROVE  /\ state = "START" => AtStart
         /\ state = "KEY_BEGIN" => AtName \/ ObjectOpened
         /\ state = "KEY" => InName
         /\ state = "KEY_END" => AfterName
         /\ state = "VALUE_BEGIN" => Named \/ AtOpen \/ ArrayOpened \/ AtValue
         /\ state = "VALUE_STRING" => InString
         /\ state = "VALUE_NUMBER" => NextName \/ NextElement \/ InNumber \/ AtClose
         /\ state \in LiteralStates => InLiteral
         /\ state = "VALUE_END" => NextName \/ NextElement \/ ValueEnded \/ AtClose
         /\ state = "DONE" => TextEnded
         /\ state \notin {"FAILED", "UNDEFINED"}
<1>1. /\ AtStart => state = "START"
      /\ AtName \/ ObjectOpened => state = "KEY_BEGIN"
      /\ InName => state = "KEY"
      /\ AfterName => state = "KEY_END"
      /\ Named \/ AtOpen \/ ArrayOpened \/ AtValue => state = "VALUE_BEGIN"
      /\ InString => state = "VALUE_STRING"
      /\ InNumber => state = "VALUE_NUMBER"
      /\ NextName \/ NextElement \/ AtClose => state \in {"VALUE_END", "VALUE_NUMBER"}
      /\ ValueEnded => state = "VALUE_END"
      /\ TextEnded => state = "DONE"
  BY DEF AtStart, AtName, ObjectOpened, InName, AfterName, Named, AtOpen, ArrayOpened,
         AtValue, InString, InNumber, NextName, NextElement, AtClose, ValueEnded,
         TextEnded, Ended
<1>2. InLiteral => state \in LiteralStates
  BY LiteralLengths DEF InLiteral
<1> QED
  BY <1>1, <1>2 DEF Phase, LiteralStates

(* What is left of a name or a value.                                      *)
LEMMA NameTyped ==
  ASSUME Nested, name # NoName
  PROVE  /\ name \in Names /\ name \in Seq(Char) /\ NameText \in Seq(Char)
         /\ \A i \in DOMAIN name : name[i] # Quote
         /\ <<Quote>> \o NameText \in Seq(Char) /\ <<Quote>> \o NameText # <<>>
         /\ Head(<<Quote>> \o NameText) = Quote /\ Tail(<<Quote>> \o NameText) = NameText
<1>1. name \in Names
  BY DEF Nested
<1>2. name \in Seq(Char) /\ \A i \in DOMAIN name : name[i] # Quote
  BY <1>1, TextAssumption, StringsAreChars DEF Unquoted
<1>3. NameText \in Seq(Char)
  <2>1. ASSUME NEW S, NEW a \in Seq(S), NEW b \in Seq(S) PROVE a \o b \in Seq(S)
    OBVIOUS
  <2> QED
    BY <1>2, <2>1, Punctuated DEF NameText
<1>4. Quote \in Char
  BY DEF Char
<1> QED
  BY <1>1, <1>2, <1>3, <1>4, Consed

LEMMA FirstLetters ==
  /\ Literal["VALUE_TRUE"][1] = "t" /\ Literal["VALUE_FALSE"][1] = "f"
  /\ Literal["VALUE_NULL"][1] = "n"
<1>1. /\ Literal["VALUE_TRUE"] = <<"t", "r", "u", "e">>
      /\ Literal["VALUE_FALSE"] = <<"f", "a", "l", "s", "e">>
      /\ Literal["VALUE_NULL"] = <<"n", "u", "l", "l">>
  BY DEF Literal
<1>2. \A a, b, c, d, e : <<a, b, c, d>>[1] = a /\ <<a, b, c, d, e>>[1] = a
  OBVIOUS
<1> QED
  BY <1>1, <1>2

Parts == Digits \cup {"."}

LEMMA PartsAre == Digits = {"0", "1", "2"}
BY DEF Digits, Digit

LEMMA StringTyped ==
  ASSUME NEW chars, StringOf(chars)
  PROVE  Unquoted(chars) /\ chars \in Seq(Char) /\ \A i \in DOMAIN chars : chars[i] # Quote
<1>1. Unquoted(chars)
  BY DEF StringOf, SpeltString
<1> QED
  BY <1>1, StringsAreChars DEF Unquoted

StringLeft(chars, shown) ==
  Head(chars) = Quote /\ Tail(chars) = shown \o <<Quote>> /\ StringOf(shown)
NumberLeft(chars, shown) ==
  /\ Head(chars) \in Digits \cup {"-", "."}
  /\ \A i \in DOMAIN Tail(chars) : Tail(chars)[i] \in Parts
  /\ shown = Number(<<Head(chars)>> \o Tail(chars))
  /\ NumberOf(<<Head(chars)>> \o Tail(chars))
LiteralLeft(chars, shown, l) ==
  /\ Head(chars) = Literal[l][1]
  /\ Tail(chars) = SubSeq(Literal[l], 2, Len(Literal[l])) /\ shown = Literal[l]

LEMMA SpelledOut ==
  ASSUME NEW chars, NEW shown, Spells(chars, shown)
  PROVE  /\ chars \in Seq(Char) /\ chars # <<>>
         /\ \/ StringLeft(chars, shown)
            \/ NumberLeft(chars, shown)
            \/ \E l \in LiteralStates : LiteralLeft(chars, shown, l)
<1>1. PICK s \in Scalars : ~ s.odd /\ chars = s.text /\ shown = s.shown
  BY DEF Spells
<1>2. /\ chars \in Seq(Char) /\ chars # <<>>
      /\ SpeltString(s) \/ SpeltNumber(s) \/ SpeltLiteral(s)
  BY <1>1, TextAssumption, StringsAreChars
<1>3. /\ Head(chars) = chars[1] /\ Tail(chars) \in Seq(Char) /\ Len(chars) \in Nat
      /\ Len(Tail(chars)) = Len(chars) - 1
      /\ \A i \in 1 .. Len(chars) - 1 : Tail(chars)[i] = chars[i + 1]
  BY <1>2, HeadTail
<1>4. CASE SpeltString(s)
  <2>1. /\ chars = (<<Quote>> \o shown) \o <<Quote>> /\ Unquoted(shown)
    BY <1>1, <1>4 DEF SpeltString
  <2>2. shown \in Seq(Char) /\ Quote \in Char
    BY <2>1, StringsAreChars DEF Unquoted, Char
  <2>3. ASSUME NEW S, NEW q \in S, NEW w \in Seq(S)
        PROVE  (<<q>> \o w) \o <<q>> = <<q>> \o (w \o <<q>>) /\ w \o <<q>> \in Seq(S)
    OBVIOUS
  <2>4. chars = <<Quote>> \o (shown \o <<Quote>>) /\ shown \o <<Quote>> \in Seq(Char)
    BY <2>1, <2>2, <2>3
  <2> QED
    BY <1>1, <1>2, <1>4, <2>1, <2>2, <2>4, Consed, ZenonT(60) DEF StringLeft, StringOf
<1>5. CASE SpeltNumber(s)
  <2>1. /\ chars[1] \in Digits \cup {"-", "."} /\ shown = Number(chars)
        /\ \A i \in 2 .. Len(chars) : chars[i] \in Parts
    BY <1>1, <1>5 DEF SpeltNumber, Parts
  <2>2. <<Head(chars)>> \o Tail(chars) = chars
    <3>1. ASSUME NEW S, NEW t \in Seq(S), t # <<>> PROVE <<Head(t)>> \o Tail(t) = t
      <4>1. <<>> \in Seq(S) /\ Append(<<>>, Head(t)) = <<Head(t)>> /\ <<>> \o t = t
        BY <3>1
      <4> QED
        BY <3>1, <4>1, MovedOn
    <3> QED
      BY <1>2, <3>1
  <2>3. \A i \in DOMAIN Tail(chars) : Tail(chars)[i] \in Parts
    <3>1. ASSUME NEW i \in DOMAIN Tail(chars) PROVE Tail(chars)[i] \in Parts
      <4>1. i \in 1 .. Len(chars) - 1
        BY <1>3
      <4>2. i + 1 \in 2 .. Len(chars)
        BY <1>3, <4>1
      <4> QED
        BY <1>3, <2>1, <4>1, <4>2
    <3> QED
      BY <3>1
  <2> QED
    BY <1>1, <1>2, <1>3, <1>5, <2>1, <2>2, <2>3 DEF NumberLeft, NumberOf
<1>6. CASE SpeltLiteral(s)
  <2>1. PICK l \in LiteralStates : chars = Literal[l] /\ shown = Literal[l]
    BY <1>1, <1>6, LiteralLengths DEF SpeltLiteral
  <2>2. Tail(chars) = SubSeq(chars, 2, Len(chars))
    <3>1. ASSUME NEW S, NEW t \in Seq(S), t # <<>> PROVE Tail(t) = SubSeq(t, 2, Len(t))
      OBVIOUS
    <3> QED
      BY <1>2, <3>1
  <2>3. LiteralLeft(chars, shown, l)
    BY <1>3, <2>1, <2>2 DEF LiteralLeft
  <2> QED
    BY <1>2, <2>3
<1> QED
  BY <1>2, <1>4, <1>5, <1>6

(* Its first character tells what a value is.                              *)
LEMMA FirstChars ==
  ASSUME NEW chars, NEW shown, Spells(chars, shown)
  PROVE  /\ Head(chars) = Quote => StringLeft(chars, shown)
         /\ Head(chars) \in Digits \cup {"-", "."} => NumberLeft(chars, shown)
         /\ \A l \in LiteralStates :
              Head(chars) = Literal[l][1] => LiteralLeft(chars, shown, l)
         /\ Head(chars) \in {Quote, "-", ".", "t", "f", "n"} \cup Digits
<1>1. \/ StringLeft(chars, shown)
      \/ NumberLeft(chars, shown)
      \/ \E l \in LiteralStates : LiteralLeft(chars, shown, l)
  BY SpelledOut
<1>2. Digits = {"0", "1", "2"} /\ Quote = "\""
  BY PartsAre DEF Quote
<1>3. \A l \in LiteralStates : Literal[l][1] \in {"t", "f", "n"}
  BY LiteralLengths
<1>4. \A l, m \in LiteralStates : Literal[l][1] = Literal[m][1] => l = m
  BY FirstLetters DEF LiteralStates
<1>5. CASE StringLeft(chars, shown)
  BY <1>2, <1>3, <1>5 DEF StringLeft
<1>6. CASE NumberLeft(chars, shown)
  BY <1>2, <1>3, <1>6 DEF NumberLeft
<1>7. CASE \E l \in LiteralStates : LiteralLeft(chars, shown, l)
  BY <1>2, <1>3, <1>4, <1>7 DEF LiteralLeft
<1> QED
  BY <1>1, <1>5, <1>6, <1>7

-----------------------------------------------------------------------------
(* Reading a plain text.                                                   *)

LEMMA SameText ==
  ASSUME UNCHANGED <<nest, name>>
  PROVE  /\ Nested <=> Nested'
         /\ \A k \in Kinds : Inside(k) <=> Inside(k)'
         /\ Around' = Around /\ NameText' = NameText /\ Last(nest)' = Last(nest)
BY DEF Nested, Inside, Around, NameText, Kinds

LEMMA SameOutput ==
  ASSUME UNCHANGED <<written, printed, owed>>
  PROVE  Settled <=> Settled'
BY DEF Settled

LEMMA NothingIgnored ==
  ASSUME Types, Nested, Phase
  PROVE  ~ Ignore
<1> SUFFICES ASSUME NEW s \in DOMAIN Expected, Reads(s, Range(text) \ Expected[s], s)
             PROVE  FALSE
  BY DEF Ignore
<1>1. text # <<>> /\ state = s /\ Head(text) \notin Expected[s]
  BY DEF Reads, At
<1>2. /\ Expected["START"] = {"{"} /\ Expected["KEY_BEGIN"] = {Quote}
      /\ Expected["KEY_END"] = {":"} /\ Expected["VALUE_END"] = {",", "}", "]"}
      /\ Expected["VALUE_BEGIN"] = {"{", "[", Quote, "-", ".", "t", "f", "n"} \cup Digits
  BY DEF Expected
<1>3. s \in {"START", "KEY_BEGIN", "KEY_END", "VALUE_BEGIN", "VALUE_END", "DONE"}
  BY AllStates
<1>4. \A c : Head(<<c>>) = c
  OBVIOUS
<1>5. CASE s = "START"
  BY <1>1, <1>2, <1>4, <1>5, Selected DEF AtStart
<1>6. CASE s = "KEY_BEGIN"
  BY <1>1, <1>2, <1>6, Selected, NameTyped DEF AtName, ObjectOpened
<1>7. CASE s = "KEY_END"
  BY <1>1, <1>2, <1>4, <1>7, Selected DEF AfterName
<1>8. CASE s = "VALUE_BEGIN"
  <2>1. AtOpen \/ AtValue
    BY <1>1, <1>8, Selected DEF Named, ArrayOpened
  <2>2. AtOpen => Head(text) \in {"{", "["}
    BY <1>4 DEF AtOpen
  <2>3. AtValue => Head(text) \in {Quote, "-", ".", "t", "f", "n"} \cup Digits
    BY FirstChars DEF AtValue
  <2> QED
    BY <1>1, <1>2, <1>8, <2>1, <2>2, <2>3
<1>9. CASE s = "VALUE_END"
  <2>1. NextName \/ NextElement \/ AtClose
    BY <1>1, <1>9, Selected DEF ValueEnded
  <2>2. NextName => Head(text) = ","
    <3>1. "," \in Char
      BY DEF Char
    <3> QED
      BY <3>1, NameTyped, Consed DEF NextName
  <2>3. AtClose => Head(text) \in {"]", "}"}
    BY <1>4 DEF AtClose
  <2> QED
    BY <1>1, <1>2, <1>9, <2>1, <2>2, <2>3 DEF NextElement
<1>10. CASE s = "DONE"
  BY <1>1, <1>10, Selected DEF TextEnded
<1> QED
  BY <1>3, <1>5, <1>6, <1>7, <1>8, <1>9, <1>10

LEMMA EndOfName ==
  /\ <<Quote, ":">> # <<>> /\ <<Quote, ":">> \in Seq(Char)
  /\ Head(<<Quote, ":">>) = Quote /\ Tail(<<Quote, ":">>) = <<":">>
<1>1. \A c, d : <<c, d>> # <<>> /\ Head(<<c, d>>) = c /\ Tail(<<c, d>>) = <<d>>
  OBVIOUS
<1> QED
  BY <1>1, Punctuated

LEMMA PunctuationStays ==
  ASSUME Types, Nested, Phase, Fits, Punctuation
  PROVE  Phase'
<1>1. /\ UNCHANGED <<nest, name, written, odd>> /\ text' = Tail(text) /\ text # <<>>
      /\ UNCHANGED <<key_buffer, key_stack, in_array, array_index, printed, owed>>
  BY DEF Punctuation, Reads, At, buffers, nesting, output
<1>2. Settled => Settled'
  BY <1>1, SameOutput
<1>3. \A c : Tail(<<c>>) = <<>> /\ Head(<<c>>) = c
  OBVIOUS
<1>4. CASE Reads("START", {"{"}, "KEY_BEGIN")
  <2>1. AtStart /\ state' = "KEY_BEGIN"
    BY <1>4, Selected DEF Reads, At
  <2>2. Last(nest).items = 0 /\ Last(nest).kind = "object" /\ Len(nest) = 1 /\ nest # <<>>
    <3>1. \A c : Last(<<c>>) = c /\ Len(<<c>>) = 1 /\ <<c>> # <<>>
      BY DEF Last
    <3>2. PICK c : c = Container("object", NoName)
      OBVIOUS
    <3>3. c.items = 0 /\ c.kind = "object"
      BY <3>2 DEF Container
    <3>4. nest = <<c>>
      BY <2>1, <3>2 DEF AtStart
    <3> QED
      BY <3>1, <3>3, <3>4
  <2>3. Around = <<>>
    <3>1. [i \in 1 .. 1 - 1 |-> nest[i + 1].key] = <<>>
      OBVIOUS
    <3> QED
      BY <2>2, <3>1 DEF Around
  <2>4. ObjectOpened'
    BY <1>1, <1>2, <1>3, <2>1, <2>2, <2>3 DEF AtStart, ObjectOpened, InObject, Inside, Around
  <2> QED
    BY <2>4 DEF Phase
<1>5. CASE Reads("KEY", {Quote}, Within(key_buffer, "KEY_END"))
  <2>1. InName /\ state' = "KEY_END" /\ Head(text) = Quote
    BY <1>5, HasRoom, Selected DEF Reads, At
  <2>2. key_buffer = name /\ text = <<Quote, ":">>
    <3>1. \A i \in DOMAIN name : name[i] # Quote
      BY <2>1, NameTyped DEF InName
    <3>2. PartRead(key_buffer, text, name, <<Quote, ":">>) /\ name \in Seq(Char)
      BY <2>1, NameTyped DEF InName
    <3>3. key_buffer \in Seq(Char) /\ text \in Seq(Char)
      BY DEF Types
    <3>4. PICK z : z = <<Quote, ":">>
      OBVIOUS
    <3>5. /\ z # <<>> /\ z \in Seq(Char) /\ Head(text) = Head(z)
          /\ \A i \in DOMAIN name : name[i] # Head(z)
          /\ PartRead(key_buffer, text, name, z)
      BY <2>1, <3>1, <3>2, <3>4, EndOfName
    <3>6. key_buffer = name /\ text = z
      BY <3>2, <3>3, <3>5, ReadUpTo
    <3> QED
      BY <3>4, <3>6
  <2>3. text' = <<":">>
    BY <1>1, <2>2, EndOfName
  <2>4. AfterName'
    BY <1>1, <1>2, <2>1, <2>2, <2>3, SameText DEF InName, AfterName, InObject, Kinds
  <2> QED
    BY <2>4 DEF Phase
<1>6. CASE Reads("KEY_END", {":"}, "VALUE_BEGIN")
  <2>1. AfterName /\ state' = "VALUE_BEGIN"
    BY <1>6, Selected DEF Reads, At
  <2>2. Named'
    BY <1>1, <1>2, <1>3, <2>1, SameText DEF Named, AfterName, InObject, Kinds
  <2> QED
    BY <2>2 DEF Phase
<1> QED
  BY <1>4, <1>5, <1>6 DEF Punctuation

LEMMA NameStays ==
  ASSUME Types, Nested, Phase, Fits, Name
  PROVE  InName'
<1>1. /\ UNCHANGED <<nest, name, written, odd>> /\ text' = Tail(text) /\ text # <<>>
      /\ UNCHANGED <<key_stack, in_array, array_index, printed, owed>>
  BY DEF Name, Reads, At, nesting, output
<1>2. Settled => Settled'
  BY <1>1, SameOutput
<1>3. CASE Reads("KEY_BEGIN", {Quote}, "KEY") /\ key_buffer' = <<>>
  <2>1. AtName /\ state' = "KEY"
    BY <1>1, <1>3, Selected DEF Reads, At, ObjectOpened
  <2>2. text' = NameText /\ NameText \in Seq(Char) /\ name \in Seq(Char)
    BY <1>1, <2>1, NameTyped DEF AtName
  <2>3. PartRead(key_buffer', text', name, <<Quote, ":">>)
    <3>1. ASSUME NEW S, NEW w \in Seq(S), NEW z \in Seq(S) PROVE PartRead(<<>>, w \o z, w, z)
      BY DEF PartRead
    <3> QED
      BY <1>3, <2>2, <3>1, EndOfName DEF NameText
  <2> QED
    BY <1>1, <1>2, <2>1, <2>3, SameText DEF AtName, InName, InObject, Kinds
<1>4. CASE /\ Reads("KEY", AllBut(Quote), Within(key_buffer, "KEY"))
           /\ key_buffer' = Append(key_buffer, Head(text))
  <2>1. InName /\ state' = "KEY" /\ Head(text) # Quote
    BY <1>4, HasRoom, Selected DEF Reads, At, AllBut
  <2>2. /\ name \in Seq(Char) /\ \A i \in DOMAIN name : name[i] # Quote
    BY <2>1, NameTyped DEF InName
  <2>3. PartRead(key_buffer', text', name, <<Quote, ":">>)
    <3>1. PartRead(key_buffer, text, name, <<Quote, ":">>)
      BY <2>1 DEF InName
    <3>2. key_buffer \in Seq(Char) /\ text \in Seq(Char)
      BY DEF Types
    <3>3. PartRead(Append(key_buffer, Head(text)), Tail(text), name, <<Quote, ":">>)
      BY <2>1, <2>2, <3>1, <3>2, ReadUpTo, EndOfName
    <3> QED
      BY <1>1, <1>4, <3>3
  <2> QED
    BY <1>1, <1>2, <2>1, <2>3, SameText DEF InName, InObject, Kinds
<1> QED
  BY <1>3, <1>4 DEF Name

LEMMA SameDue ==
  ASSUME UNCHANGED <<key_stack, in_array, array_index, key_buffer, owed, written>>
  PROVE  \A v : Due(v) => Due(v)'
BY DEF Due, InPlace, OwnKey

LEMMA SamePlace ==
  ASSUME UNCHANGED <<nest, name, key_stack, in_array, array_index>>
  PROVE  /\ InValue <=> InValue'
         /\ InObject <=> InObject'
         /\ \A n : InArray(n) <=> InArray(n)'
BY DEF InValue, InObject, InArray, Inside, Around

(* The keys of the containers around the innermost one: those of nest are  *)
(* Around.                                                                 *)
KeysOf(ns) == [i \in 1 .. Len(ns) - 1 |-> ns[i + 1].key]

LEMMA KeysTyped ==
  ASSUME NEW ns \in Seq(Containers), ns # <<>>
  PROVE  /\ Len(ns) \in Nat \ {0} /\ Last(ns) = ns[Len(ns)] /\ Last(ns) \in Containers
         /\ KeysOf(ns) \in Seq(Names \cup {NoName}) /\ Len(KeysOf(ns)) = Len(ns) - 1
         /\ \A i \in 1 .. Len(ns) - 1 : KeysOf(ns)[i] = ns[i + 1].key
<1>1. Len(ns) \in Nat \ {0}
  OBVIOUS
<1>2. ASSUME NEW i \in 1 .. Len(ns) - 1 PROVE ns[i + 1].key \in Names \cup {NoName}
  <2>1. i + 1 \in 1 .. Len(ns)
    BY <1>1
  <2>2. ns[i + 1] \in Containers
    BY <2>1
  <2> QED
    BY <2>2 DEF Containers
<1>3. KeysOf(ns) \in [1 .. Len(ns) - 1 -> Names \cup {NoName}] /\ Len(ns) - 1 \in Nat
  BY <1>1, <1>2 DEF KeysOf
<1>4. ASSUME NEW S, NEW n \in Nat, NEW f \in [1 .. n -> S] PROVE f \in Seq(S) /\ Len(f) = n
  <2>1. f \in Seq(S)
    BY SeqDef
  <2>2. DOMAIN f = 1 .. n /\ DOMAIN f = 1 .. Len(f) /\ Len(f) \in Nat
    BY <2>1
  <2> QED
    BY <2>1, <2>2
<1>5. ns[Len(ns)] \in Containers
  BY <1>1
<1>6. KeysOf(ns) \in Seq(Names \cup {NoName}) /\ Len(KeysOf(ns)) = Len(ns) - 1
  BY <1>3, <1>4
<1> QED
  BY <1>1, <1>5, <1>6 DEF Last, KeysOf

LEMMA AroundLength ==
  ASSUME Nested, nest # <<>>
  PROVE  /\ Around \in Seq(Names \cup {NoName}) /\ Len(Around) = Len(nest) - 1
         /\ Len(nest) \in Nat \ {0} /\ Last(nest) = nest[Len(nest)]
         /\ Last(nest) \in Containers
<1>1. nest \in Seq(Containers)
  BY DEF Nested
<1> QED
  BY <1>1, KeysTyped DEF Around, KeysOf

LEMMA BracketComes ==
  ASSUME Types, Nested, Phase, OpenObject \/ OpenArray
  PROVE  AtOpen
<1>1. text # <<>> /\ state = "VALUE_BEGIN" /\ Head(text) \in {"{", "["}
  BY DEF OpenObject, OpenArray, Reads, At
<1>2. AtOpen \/ AtValue
  BY <1>1, Selected DEF Named, ArrayOpened
<1>3. AtValue => Head(text) \in {Quote, "-", ".", "t", "f", "n"} \cup Digits
  BY FirstChars DEF AtValue
<1> QED
  BY <1>1, <1>2, <1>3, PartsAre DEF Quote

LEMMA OpenStays ==
  ASSUME MaxDepth <= StackSize + 1, Types, Nested, Phase, OpenObject \/ OpenArray
  PROVE  Phase'
<1>1. /\ UNCHANGED <<nest, name, written, odd>> /\ text' = Tail(text) /\ text # <<>>
      /\ UNCHANGED <<key_buffer, printed, owed>> /\ Push
      /\ state = "VALUE_BEGIN" /\ Head(text) \in {"{", "["}
  BY DEF OpenObject, OpenArray, Reads, At, buffers, output
<1>2. Settled => Settled'
  BY <1>1, SameOutput
<1>3. AtOpen
  BY BracketComes
<1>4. nest # <<>> /\ Last(nest).kind \in Kinds /\ Len(nest) <= MaxDepth
  <2>1. nest # <<>> /\ Len(nest) <= MaxDepth
    <3>1. Len(nest) >= 2
      BY <1>3 DEF AtOpen
    <3>2. Len(<<>>) = 0 /\ ~ (0 >= 2)
      OBVIOUS
    <3>3. nest # <<>>
      BY <3>1, <3>2
    <3> QED
      BY <3>3 DEF Nested
  <2> QED
    BY <2>1, AroundLength DEF Containers
<1>5. Around = Append(key_stack, key_buffer) /\ ~ in_array /\ Settled /\ Last(nest).items = 0
      /\ name = NoName
  BY <1>3 DEF AtOpen
<1>6. text' = <<>> /\ Head(text) = IF Inside("array") THEN "[" ELSE "{"
  <2>1. \A c : Tail(<<c>>) = <<>> /\ Head(<<c>>) = c
    OBVIOUS
  <2> QED
    BY <1>1, <1>3, <2>1 DEF AtOpen
<1>7. ~ Full /\ key_stack' = Around
  <2>1. Len(Around) = Len(key_stack) + 1
    BY <1>5 DEF Types
  <2>2. Len(key_stack) \in Nat
    BY DEF Types
  <2>3. Len(key_stack) < StackSize
    <3>1. PICK k \in Nat : k = Len(key_stack)
      BY <2>2
    <3>2. PICK n \in Nat : n = Len(nest)
      BY <1>4, AroundLength
    <3>3. k + 1 = n - 1 /\ n <= MaxDepth
      BY <1>4, <2>1, <3>1, <3>2, AroundLength
    <3>4. k < StackSize
      BY <3>3, SizesAssumption
    <3> QED
      BY <3>1, <3>4
  <2>4. ~ Full
    BY <2>2, <2>3, SizesAssumption DEF Full
  <2> QED
    BY <1>1, <1>5, <2>4 DEF Push
<1>8. key_stack' # <<>>
  BY <1>5, <1>7 DEF Types
<1>9. CASE OpenObject
  <2>1. /\ state' = "KEY_BEGIN" /\ UNCHANGED in_array /\ Head(text) = "{"
    BY <1>7, <1>9 DEF OpenObject, Reads, At
  <2>2. Inside("object")
    BY <1>4, <1>6, <2>1 DEF Inside, Kinds
  <2>3. ObjectOpened'
    BY <1>1, <1>2, <1>5, <1>6, <1>7, <2>1, <2>2, SameText DEF ObjectOpened, InObject, Kinds
  <2> QED
    BY <2>3 DEF Phase
<1>10. CASE OpenArray
  <2>1. /\ state' = "VALUE_BEGIN" /\ in_array' = TRUE /\ array_index' = 0 /\ Head(text) = "["
    BY <1>7, <1>10 DEF OpenArray, Reads, At
  <2>2. Inside("array")
    BY <1>6, <2>1
  <2>3. Last(nest)'.items = array_index' + 0
    <3>1. Last(nest)' = Last(nest)
      BY <1>1, SameText
    <3>2. 0 = 0 + 0
      OBVIOUS
    <3> QED
      BY <1>5, <2>1, <3>1, <3>2
  <2>4. InArray(0)'
    BY <1>1, <1>7, <1>8, <2>1, <2>2, <2>3, SameText DEF InArray, Kinds
  <2>5. ArrayOpened'
    BY <1>1, <1>2, <1>5, <1>6, <2>1, <2>4, SameText DEF ArrayOpened
  <2> QED
    BY <2>5 DEF Phase
<1> QED
  BY <1>9, <1>10

LEMMA BeginStays ==
  ASSUME Types, Nested, Phase, BeginString \/ BeginNumber \/ BeginLiteral
  PROVE  InString' \/ InNumber' \/ InLiteral'
<1>1. /\ UNCHANGED <<nest, name, written, odd>> /\ text' = Tail(text) /\ text # <<>>
      /\ UNCHANGED <<key_buffer, key_stack, in_array, array_index, printed, owed>>
      /\ state = "VALUE_BEGIN"
  BY DEF BeginString, BeginNumber, BeginLiteral, Reads, At, nesting, output
<1>2. Digits = {"0", "1", "2"} /\ Quote = "\""
  BY PartsAre DEF Quote
<1>3. Head(text) \in {Quote, "-", ".", "t", "f", "n"} \cup Digits
  <2>1. CASE BeginString \/ BeginNumber
    BY <2>1 DEF BeginString, BeginNumber, Reads, At
  <2>2. CASE BeginLiteral
    BY <2>2, LiteralLengths DEF BeginLiteral, Reads, At
  <2> QED
    BY <2>1, <2>2
<1>4. AtValue
  <2>1. AtOpen => Head(text) \in {"{", "["}
    <3>1. \A c : Head(<<c>>) = c
      OBVIOUS
    <3> QED
      BY <3>1 DEF AtOpen
  <2> QED
    BY <1>1, <1>2, <1>3, <2>1, Selected DEF Named, ArrayOpened
<1>5. InValue' /\ Due(written.value) /\ Spells(text, written.value)
  BY <1>1, <1>4, SamePlace DEF AtValue
<1>6. \A v : Due(v) => Due(v)'
  BY <1>1, SameDue
<1>7. CASE BeginString
  <2>1. Head(text) = Quote /\ state' = "VALUE_STRING" /\ val_buffer' = <<>>
    BY <1>7 DEF BeginString, Reads, At
  <2>2. text' = written.value \o <<Quote>> /\ StringOf(written.value)
    BY <1>1, <1>5, <2>1, FirstChars DEF StringLeft
  <2>3. PartRead(val_buffer', text', written.value, <<Quote>>)
    <3>1. ASSUME NEW S, NEW w \in Seq(S), NEW z \in Seq(S) PROVE PartRead(<<>>, w \o z, w, z)
      BY DEF PartRead
    <3>2. written.value \in Seq(Char)
      BY <2>2, StringTyped
    <3> QED
      BY <2>1, <2>2, <3>1, <3>2, Punctuated
  <2>4. Due(written.value)'
    BY <1>1, <1>5, <1>6
  <2> QED
    BY <1>1, <1>5, <2>1, <2>2, <2>3, <2>4 DEF InString, StringOf
<1>8. CASE BeginNumber
  <2>1. /\ Head(text) \in Digits \cup {"-", "."} /\ state' = "VALUE_NUMBER"
        /\ val_buffer' = <<Head(text)>>
    BY <1>8 DEF BeginNumber, Reads, At
  <2>2. NumberLeft(text, written.value)
    BY <1>5, <2>1, FirstChars
  <2>3. written.value = Number(val_buffer' \o text') /\ NumberOf(val_buffer' \o text')
    BY <1>1, <2>1, <2>2 DEF NumberLeft
  <2>4. \A i \in DOMAIN text' : text'[i] \in Digits \cup {"."}
    BY <1>1, <2>2 DEF NumberLeft, Parts
  <2>5. Due(Number(val_buffer \o text))'
    BY <1>5, <1>6, <2>3
  <2> QED
    BY <1>5, <2>1, <2>3, <2>4, <2>5 DEF InNumber, NumberOf
<1>9. CASE BeginLiteral
  <2>1. PICK l \in LiteralStates : Head(text) = Literal[l][1] /\ state' = l
    BY <1>9, LiteralLengths DEF BeginLiteral, Reads, At
  <2>2. literal_index' = 1
    BY <1>9 DEF BeginLiteral
  <2>3. text' = SubSeq(Literal[l], 2, Len(Literal[l])) /\ written.value = Literal[l]
    BY <1>1, <1>5, <2>1, FirstChars DEF LiteralLeft
  <2>4. Due(Literal[l])'
    BY <1>5, <1>6, <2>3
  <2>5. text' = SubSeq(Literal[l], literal_index' + 1, Len(Literal[l]))
    BY <2>2, <2>3
  <2> QED
    BY <1>5, <2>1, <2>4, <2>5, LiteralLengths DEF InLiteral
<1> QED
  BY <1>7, <1>8, <1>9

(* The key that is printed is the end of the path to the value.            *)
LEMMA TwoElements ==
  ASSUME NEW S, NEW q \in Seq(S), NEW a \in 1 .. Len(q), NEW b \in 1 .. Len(q), b = a + 1
  PROVE  SubSeq(q, a, b) = <<q[a], q[b]>>
<1> DEFINE u == SubSeq(q, a, b)
           v == <<q[a], q[b]>>
<1>1. u \in Seq(S) /\ Len(u) = 2 /\ u[1] = q[a] /\ u[2] = q[b]
  OBVIOUS
<1>2. v \in Seq(S) /\ Len(v) = 2 /\ v[1] = q[a] /\ v[2] = q[b]
  <2>1. q[a] \in S /\ q[b] \in S
    OBVIOUS
  <2>2. ASSUME NEW c \in S, NEW d \in S
        PROVE  <<c, d>> \in Seq(S) /\ Len(<<c, d>>) = 2 /\ <<c, d>>[1] = c /\ <<c, d>>[2] = d
    OBVIOUS
  <2> QED
    BY <2>1, <2>2
<1> HIDE DEF u, v
<1>3. \A i \in 1 .. 2 : i = 1 \/ i = 2
  OBVIOUS
<1>4. \A i \in 1 .. Len(u) : u[i] = v[i]
  BY <1>1, <1>2, <1>3
<1>5. u = v
  BY <1>1, <1>2, <1>4, SeqEqual
<1> QED
  BY <1>5 DEF u, v

LEMMA LastTwo ==
  ASSUME NEW S, NEW s \in Seq(S), NEW e \in S
  PROVE  /\ Append(s, e) # <<>> /\ Last(Append(s, e)) = e
         /\ s # <<>> => SubSeq(Append(s, e), Len(Append(s, e)) - 1, Len(Append(s, e))) = <<Last(s), e>>
         /\ s # <<>> => Len(Append(s, e)) >= 2
         /\ Len(Append(s, e)) = 2 =>
              SubSeq(Append(s, e), Len(Append(s, e)) - 1, Len(Append(s, e))) = Append(s, e)
         /\ Len(Append(s, e)) \in Nat
<1> DEFINE p == Append(s, e)
<1>1. PICK n \in Nat : n = Len(s)
  OBVIOUS
<1>2. /\ p \in Seq(S) /\ Len(p) = n + 1 /\ p[n + 1] = e
      /\ \A i \in 1 .. n : p[i] = s[i]
  BY <1>1
<1> HIDE DEF p
<1>3. p # <<>> /\ Last(p) = e
  <2>1. n + 1 # 0 /\ Len(<<>>) = 0
    BY <1>1
  <2>2. p # <<>>
    BY <1>2, <2>1
  <2> QED
    BY <1>2, <2>2 DEF Last
<1>4. ASSUME s # <<>> PROVE SubSeq(p, Len(p) - 1, Len(p)) = <<Last(s), e>>
  <2>1. n # 0
    BY <1>1, <1>4
  <2>2. n \in 1 .. n + 1 /\ n + 1 \in 1 .. n + 1 /\ n \in 1 .. n /\ n + 1 - 1 = n
    BY <1>1, <2>1
  <2>3. n \in 1 .. Len(p) /\ n + 1 \in 1 .. Len(p)
    BY <1>2, <2>2
  <2>4. SubSeq(p, n, n + 1) = <<p[n], p[n + 1]>>
    BY <1>2, <2>3, TwoElements
  <2>5. p[n] = Last(s)
    BY <1>1, <1>2, <2>2 DEF Last
  <2> QED
    BY <1>2, <2>2, <2>4, <2>5
<1>5. (s # <<>> => Len(p) >= 2) /\ Len(p) \in Nat
  <2>1. s # <<>> => n # 0
    BY <1>1
  <2> QED
    BY <1>2, <2>1
<1>6. ASSUME Len(p) = 2 PROVE SubSeq(p, Len(p) - 1, Len(p)) = p
  <2>1. Len(p) - 1 = 1
    BY <1>6
  <2> QED
    BY <1>2, <2>1, SubSeqFull
<1> QED
  BY <1>3, <1>4, <1>5, <1>6 DEF p

LEMMA PrintsDue ==
  ASSUME NamesFit, Types, Fits, NEW v, Due(v), odd = {}, Prints(v), UNCHANGED written
  PROVE  /\ AfterValue = "VALUE_END" /\ Settled' /\ UNCHANGED <<key_stack, in_array>>
         /\ in_array => array_index' = array_index + 1
<1>1. /\ printed' = [path |-> Key, value |-> v] /\ owed' = owed - 1
      /\ array_index' = (IF in_array THEN array_index + 1 ELSE array_index)
      /\ UNCHANGED <<key_stack, in_array>>
  BY DEF Prints
<1>2. /\ owed = 1 /\ written = [path |-> Append(key_stack, OwnKey), value |-> v]
      /\ InPlace
  BY DEF Due
<1>3. owed' = 0
  BY <1>1, <1>2
<1>4. AfterValue = "VALUE_END"
  BY <1>2, KeyHasRoom DEF AfterValue, InPlace
<1>5. Key = KeyShown(Append(key_stack, OwnKey))
  <2> DEFINE S == Seq(Char) \cup {OwnKey}
  <2>1. key_stack \in Seq(S) /\ OwnKey \in S
    <3>1. ASSUME NEW A, NEW B, NEW s \in Seq(A) PROVE s \in Seq(A \cup B)
      <4>1. s \in [1 .. Len(s) -> A \cup B] /\ Len(s) \in Nat
        OBVIOUS
      <4> QED
        BY <4>1, SeqDef
    <3>2. key_stack \in Seq(Seq(Char))
      BY DEF Types
    <3> QED
      BY <3>1, <3>2
  <2>2. /\ Last(Append(key_stack, OwnKey)) = OwnKey
        /\ key_stack # <<>> =>
             SubSeq(Append(key_stack, OwnKey), Len(Append(key_stack, OwnKey)) - 1,
                    Len(Append(key_stack, OwnKey))) = <<Last(key_stack), OwnKey>>
        /\ key_stack # <<>> => Len(Append(key_stack, OwnKey)) >= 2
        /\ Len(Append(key_stack, OwnKey)) = 2 =>
             SubSeq(Append(key_stack, OwnKey), Len(Append(key_stack, OwnKey)) - 1,
                    Len(Append(key_stack, OwnKey))) = Append(key_stack, OwnKey)
        /\ Len(Append(key_stack, OwnKey)) \in Nat
    BY <2>1, LastTwo
  <2>3. CASE in_array
    <3>1. OwnKey = Index(array_index) /\ key_stack # <<>>
      BY <1>2, <2>3 DEF OwnKey, InPlace
    <3>2. OwnKey[1] = "[]"
      <4>1. \A a, b : <<a, b>>[1] = a
        OBVIOUS
      <4> QED
        BY <3>1, <4>1 DEF Index
    <3>3. KeyShown(Append(key_stack, OwnKey)) = <<Last(key_stack), OwnKey>>
      <4>1. PICK n \in Nat : n = Len(Append(key_stack, OwnKey))
        BY <2>2
      <4>2. n > 2 \/ n = 2
        BY <2>2, <3>1, <4>1
      <4> QED
        BY <2>2, <3>1, <3>2, <4>1, <4>2 DEF KeyShown, Unqualified
    <3> QED
      BY <2>3, <3>1, <3>3 DEF Key
  <2>4. CASE ~ in_array
    <3>1. OwnKey = key_buffer /\ key_buffer \in Names
      BY <1>2, <2>4 DEF OwnKey, InPlace
    <3>2. OwnKey[1] # "[]"
      BY <3>1, TextAssumption
    <3> QED
      BY <2>2, <2>4, <3>1, <3>2 DEF Key, KeyShown, Unqualified
  <2> QED
    BY <2>3, <2>4
<1>6. printed' = [path |-> KeyShown(written.path), value |-> written.value]
  BY <1>1, <1>2, <1>5
<1>7. Settled'
  BY <1>3, <1>6 DEF Settled
<1> QED
  BY <1>1, <1>4, <1>7

LEMMA PrintedValue ==
  ASSUME NamesFit, Types, Nested, Fits, InValue, NEW v, Due(v), odd = {}, Prints(v),
         UNCHANGED <<nest, name, written>>, state' = AfterValue, text' = <<>>
  PROVE  ValueEnded'
<1>1. /\ AfterValue = "VALUE_END" /\ Settled' /\ UNCHANGED <<key_stack, in_array>>
      /\ in_array => array_index' = array_index + 1
  BY PrintsDue
<1>2. Inside("object") <=> Inside("object")'
  BY DEF Inside
<1>3. Inside("array") <=> Inside("array")'
  BY DEF Inside
<1>4. Last(nest)' = Last(nest) /\ Around' = Around
  BY DEF Around
<1>5. name = NoName
  BY DEF InValue
<1>6. CASE InArray(1)
  <2>1. /\ Inside("array") /\ key_stack = Around /\ key_stack # <<>>
        /\ in_array /\ Last(nest).items = array_index + 1
    BY <1>6 DEF InArray
  <2>2. array_index + 1 # 0 /\ array_index + 1 = (array_index + 1) + 0 /\ nest # <<>>
    BY <2>1 DEF Types, Inside
  <2>3. InArray(0)'
    BY <1>1, <1>3, <1>4, <2>1, <2>2 DEF InArray
  <2> QED
    BY <1>1, <1>4, <1>5, <2>1, <2>2, <2>3 DEF ValueEnded
<1>7. CASE InObject /\ Last(nest).items # 0
  <2>1. InObject' /\ nest # <<>>
    BY <1>1, <1>2, <1>4, <1>7 DEF InObject, Inside
  <2> QED
    BY <1>1, <1>4, <1>5, <1>7, <2>1 DEF ValueEnded
<1> QED
  BY <1>6, <1>7 DEF InValue

LEMMA StringEndStays ==
  ASSUME NamesFit, Types, Nested, Phase, Fits, odd = {}, EndString
  PROVE  Phase'
<1>1. /\ UNCHANGED <<nest, name, written>> /\ text' = Tail(text) /\ text # <<>>
      /\ state = "VALUE_STRING" /\ Head(text) = Quote /\ state' = AfterValue
      /\ Prints(val_buffer)
  BY HasRoom DEF EndString, Reads, At
<1>2. InString
  BY <1>1, Selected
<1>3. PICK w \in Seq(Char) : /\ w = written.value /\ PartRead(val_buffer, text, w, <<Quote>>)
                             /\ \A i \in DOMAIN w : w[i] # Quote
  BY <1>2, StringTyped DEF InString
<1>4. val_buffer = w /\ text = <<Quote>>
  <2>1. PICK z : z = <<Quote>>
    OBVIOUS
  <2>2. z \in Seq(Char) /\ z # <<>> /\ Head(z) = Quote
    BY <2>1, Punctuated, Single
  <2>3. PartRead(val_buffer, text, w, z) /\ \A i \in DOMAIN w : w[i] # Head(z)
    BY <1>3, <2>1, <2>2
  <2>4. val_buffer \in Seq(Char) /\ text \in Seq(Char) /\ Head(text) = Head(z)
    BY <1>1, <2>2 DEF Types
  <2>5. val_buffer = w /\ text = z
    BY <2>2, <2>3, <2>4, ReadUpTo
  <2> QED
    BY <2>1, <2>5
<1>5. text' = <<>>
  BY <1>1, <1>4, Single
<1>6. Due(val_buffer) /\ InValue
  BY <1>2, <1>3, <1>4 DEF InString
<1>7. ValueEnded'
  BY <1>1, <1>5, <1>6, PrintedValue
<1> QED
  BY <1>7 DEF Phase

LEMMA MoreOfValueStays ==
  ASSUME Types, Nested, Phase, Fits, MoreOfValue
  PROVE  InString' \/ InNumber'
<1>1. /\ UNCHANGED <<nest, name, written>> /\ text' = Tail(text) /\ text # <<>>
      /\ UNCHANGED <<key_buffer, key_stack, in_array, array_index, printed, owed>>
      /\ val_buffer' = Append(val_buffer, Head(text))
      /\ val_buffer \in Seq(Char) /\ text \in Seq(Char)
  BY DEF MoreOfValue, Reads, At, nesting, output, Types
<1>2. (InValue <=> InValue') /\ \A v : Due(v) => Due(v)'
  BY <1>1, SamePlace, SameDue
<1>3. CASE Reads("VALUE_STRING", AllBut(Quote), Within(val_buffer, "VALUE_STRING"))
  <2>1. InString /\ state' = "VALUE_STRING" /\ Head(text) # Quote
    BY <1>3, HasRoom, Selected DEF Reads, At, AllBut
  <2>2. PICK w \in Seq(Char) : /\ w = written.value /\ PartRead(val_buffer, text, w, <<Quote>>)
                               /\ \A i \in DOMAIN w : w[i] # Quote
    BY <2>1, StringTyped DEF InString
  <2>3. PartRead(Append(val_buffer, Head(text)), Tail(text), w, <<Quote>>)
    <3>1. PICK z : z = <<Quote>>
      OBVIOUS
    <3>2. z \in Seq(Char) /\ z # <<>> /\ Head(z) = Quote
      BY <3>1, Punctuated, Single
    <3>3. PartRead(val_buffer, text, w, z) /\ \A i \in DOMAIN w : w[i] # Head(z)
      BY <2>2, <3>1, <3>2
    <3>4. PartRead(Append(val_buffer, Head(text)), Tail(text), w, z)
      BY <1>1, <2>1, <3>2, <3>3, ReadUpTo
    <3> QED
      BY <3>1, <3>4
  <2>4. PartRead(val_buffer', text', written.value', <<Quote>>)
    BY <1>1, <2>2, <2>3
  <2> QED
    BY <1>1, <1>2, <2>1, <2>4 DEF InString, StringOf
<1>4. CASE Reads("VALUE_NUMBER", Digits \cup {"."}, Within(val_buffer, "VALUE_NUMBER"))
  <2>1. state = "VALUE_NUMBER" /\ state' = "VALUE_NUMBER" /\ Head(text) \in Digits \cup {"."}
    BY <1>4, HasRoom DEF Reads, At
  <2>2. InNumber
    <3>1. NextName => Head(text) = ","
      <4>1. "," \in Char
        BY DEF Char
      <4> QED
        BY <4>1, NameTyped, Consed DEF NextName
    <3>2. AtClose => Head(text) \in {"]", "}"}
      <4>1. \A c : Head(<<c>>) = c
        OBVIOUS
      <4> QED
        BY <4>1 DEF AtClose
    <3> QED
      BY <2>1, <3>1, <3>2, Selected, PartsAre DEF NextElement
  <2>3. val_buffer' \o text' = val_buffer \o text
    BY <1>1, MovedOn
  <2>4. Due(Number(val_buffer \o text))'
    BY <1>2, <2>2, <2>3 DEF InNumber
  <2>5. \A i \in DOMAIN text' : text'[i] \in Digits \cup {"."}
    <3>1. /\ \A i \in 1 .. Len(text) - 1 : text'[i] = text[i + 1]
          /\ Len(text') = Len(text) - 1 /\ text' \in Seq(Char)
      BY <1>1, HeadTail
    <3>2. \A i \in DOMAIN text : text[i] \in Digits \cup {"."}
      BY <2>2 DEF InNumber
    <3>3. ASSUME NEW i \in DOMAIN text' PROVE text'[i] \in Digits \cup {"."}
      <4>1. DOMAIN text' = 1 .. Len(text') /\ DOMAIN text = 1 .. Len(text) /\ Len(text) \in Nat
        BY <1>1, <3>1
      <4>2. i \in 1 .. Len(text) - 1
        BY <3>1, <4>1
      <4>3. i + 1 \in DOMAIN text
        BY <4>1, <4>2
      <4> QED
        BY <3>1, <3>2, <4>2, <4>3
    <3> QED
      BY <3>3
  <2> QED
    BY <1>2, <2>1, <2>2, <2>3, <2>4, <2>5 DEF InNumber, NumberOf
<1> QED
  BY <1>3, <1>4 DEF MoreOfValue

LEMMA NumberEndStays ==
  ASSUME NamesFit, Types, Nested, Phase, Fits, odd = {}, EndNumber
  PROVE  Phase'
<1>1. /\ UNCHANGED <<nest, name, written, text>> /\ text # <<>>
      /\ state = "VALUE_NUMBER" /\ Head(text) \notin Digits \cup {"."} /\ state' = AfterValue
      /\ UNCHANGED <<key_buffer, val_buffer>> /\ Prints(Number(val_buffer))
  <2>1. Head(text) \notin Digits \cup {"."}
    BY DEF EndNumber, At, NoPart
  <2> QED
    BY <2>1, HasRoom DEF EndNumber, At, textVars, buffers
<1>2. ~ InNumber
  <2> SUFFICES ASSUME InNumber PROVE FALSE
    OBVIOUS
  <2>1. \A i \in DOMAIN text : text[i] \in Digits \cup {"."}
    BY DEF InNumber
  <2>2. 1 \in DOMAIN text /\ Head(text) = text[1]
    BY <1>1 DEF Types
  <2> QED
    BY <1>1, <2>1, <2>2
<1>3. NextName \/ NextElement \/ AtClose
  BY <1>1, <1>2, Selected
<1>4. Around' = Around /\ Last(nest)' = Last(nest) /\ NameText' = NameText
      /\ (Inside("object") <=> Inside("object")') /\ (Inside("array") <=> Inside("array")')
  BY <1>1 DEF Around, Inside, NameText
<1>5. Ended => /\ Ended' /\ UNCHANGED <<key_stack, in_array>>
  <2> SUFFICES ASSUME Ended PROVE Ended' /\ UNCHANGED <<key_stack, in_array>>
    OBVIOUS
  <2>1. Due(Number(val_buffer))
    BY <1>1 DEF Ended
  <2> QED
    BY <1>1, <2>1, PrintsDue DEF Ended
<1>6. CASE NextName
  <2>1. Ended' /\ UNCHANGED <<key_stack, in_array>>
    BY <1>5, <1>6 DEF NextName
  <2>2. NextName'
    BY <1>1, <1>4, <1>6, <2>1 DEF NextName, InObject
  <2> QED
    BY <2>2 DEF Phase
<1>7. CASE NextElement
  <2>1. /\ InArray(2) /\ owed = 2
        /\ written = [path |-> Append(key_stack, Index(array_index + 1)), value |-> written.value]
    BY <1>1, <1>7 DEF NextElement
  <2>2. /\ Inside("array") /\ key_stack = Around /\ key_stack # <<>> /\ in_array
        /\ Last(nest).items = array_index + 2 /\ array_index \in Nat
    BY <2>1 DEF InArray, Types
  <2>3. /\ array_index' = array_index + 1 /\ owed' = owed - 1
        /\ UNCHANGED <<key_stack, in_array>> /\ state' = "VALUE_END"
    BY <1>1, <2>2 DEF Prints, AfterValue
  <2>4. owed' = 1 /\ Last(nest)'.items = array_index' + 1
    BY <1>4, <2>1, <2>2, <2>3
  <2>5. InArray(1)'
    BY <1>1, <1>4, <2>2, <2>3, <2>4 DEF InArray
  <2>6. Due(written.value)'
    BY <1>1, <2>1, <2>2, <2>3, <2>4 DEF Due, InPlace, OwnKey
  <2>7. NextElement'
    BY <1>1, <1>7, <2>3, <2>5, <2>6 DEF NextElement
  <2> QED
    BY <2>7 DEF Phase
<1>8. CASE AtClose
  <2>1. Ended' /\ UNCHANGED <<key_stack, in_array>>
    BY <1>5, <1>8 DEF AtClose
  <2>2. AtClose'
    BY <1>1, <1>4, <1>8, <2>1 DEF AtClose
  <2> QED
    BY <2>2 DEF Phase
<1> QED
  BY <1>3, <1>6, <1>7, <1>8

LEMMA MoreOfLiteralStays ==
  ASSUME NamesFit, Types, Nested, Phase, Fits, odd = {}, MoreOfLiteral
  PROVE  Phase'
<1> DEFINE L(l) == Literal[l]
           last(l) == literal_index + 1 = Len(Literal[l])
<1>1. PICK l \in LiteralStates :
        \/ /\ Reads(l, {Literal[l][literal_index + 1]}, IF last(l) THEN AfterValue ELSE l)
           /\ literal_index' = literal_index + 1
           /\ IF last(l) THEN Prints(Literal[l]) ELSE UNCHANGED <<nesting, output>>
        \/ Reads(l, AllBut(Literal[l][literal_index + 1]), "FAILED")
  BY LiteralLengths DEF MoreOfLiteral
<1>2. /\ UNCHANGED <<nest, name, written, key_buffer>> /\ text' = Tail(text) /\ text # <<>>
      /\ state = l
  BY <1>1 DEF MoreOfLiteral, Reads, At
<1>3. /\ InValue /\ Due(Literal[l])
      /\ text = SubSeq(Literal[l], literal_index + 1, Len(Literal[l]))
  BY <1>2, Selected DEF InLiteral
<1>4. /\ literal_index \in 0 .. Len(Literal[l]) - 1 /\ Literal[l] \in Seq(Char)
      /\ Len(Literal[l]) \in Nat /\ literal_index \in Nat
  <2>1. literal_index \in 1 .. Len(Literal[l]) - 1
    BY <1>2 DEF Types
  <2>2. Literal[l] \in Seq(Char)
    BY LiteralLengths
  <2>3. PICK n \in Nat : n = Len(Literal[l])
    BY <2>2
  <2>4. literal_index \in 1 .. n - 1
    BY <2>1, <2>3
  <2>5. literal_index \in 0 .. n - 1 /\ literal_index \in Nat
    BY <2>4
  <2> QED
    BY <2>2, <2>3, <2>5
<1>5. /\ Head(text) = Literal[l][literal_index + 1]
      /\ text' = SubSeq(Literal[l], literal_index + 2, Len(Literal[l]))
  BY <1>2, <1>3, <1>4, RestRead
<1>6. /\ Reads(l, {Literal[l][literal_index + 1]}, IF last(l) THEN AfterValue ELSE l)
      /\ literal_index' = literal_index + 1
      /\ IF last(l) THEN Prints(Literal[l]) ELSE UNCHANGED <<nesting, output>>
  BY <1>1, <1>5 DEF Reads, At, AllBut
<1>7. CASE last(l)
  <2>1. state' = AfterValue /\ Prints(Literal[l])
    BY <1>6, <1>7 DEF Reads
  <2>2. text' = <<>>
    <3>1. ASSUME NEW S, NEW w \in Seq(S), NEW i \in Nat, i + 1 = Len(w)
          PROVE  SubSeq(w, i + 2, Len(w)) = <<>>
      BY <3>1
    <3> QED
      BY <1>4, <1>5, <1>7, <3>1
  <2>3. ValueEnded'
    BY <1>2, <1>3, <2>1, <2>2, PrintedValue
  <2> QED
    BY <2>3 DEF Phase
<1>8. CASE ~ last(l)
  <2>1. /\ state' = l /\ UNCHANGED <<key_stack, in_array, array_index, printed, owed>>
    BY <1>6, <1>8 DEF Reads, nesting, output
  <2>2. InValue'
    BY <1>2, <1>3, <2>1, SamePlace
  <2>3. Due(Literal[l])'
    BY <1>2, <1>3, <2>1, SameDue
  <2>4. text' = SubSeq(Literal[l], literal_index' + 1, Len(Literal[l]))
    <3>1. literal_index' + 1 = literal_index + 2
      BY <1>4, <1>6
    <3> QED
      BY <1>5, <3>1
  <2>5. InLiteral'
    BY <2>1, <2>2, <2>3, <2>4, LiteralLengths DEF InLiteral
  <2> QED
    BY <2>5 DEF Phase
<1> QED
  BY <1>7, <1>8

(* A value has ended: what comes next.                                     *)
LEMMA FirstLeft ==
  ASSUME Nested, text # <<>>
  PROVE  /\ NextName => Head(text) = "," /\ Tail(text) = <<Quote>> \o NameText
         /\ AtClose => Head(text) = (IF in_array THEN "]" ELSE "}") /\ Tail(text) = <<>>
<1>1. "," \in Char
  BY DEF Char
<1>2. NextName => Head(text) = "," /\ Tail(text) = <<Quote>> \o NameText
  <2> SUFFICES ASSUME NextName PROVE Head(text) = "," /\ Tail(text) = <<Quote>> \o NameText
    OBVIOUS
  <2>1. PICK r \in Seq(Char) : r = <<Quote>> \o NameText
    BY NameTyped DEF NextName
  <2>2. text = <<",">> \o r
    BY <2>1 DEF NextName
  <2>3. Head(<<",">> \o r) = "," /\ Tail(<<",">> \o r) = r
    BY <1>1, Consed
  <2> QED
    BY <2>1, <2>2, <2>3
<1>3. \A c : Head(<<c>>) = c /\ Tail(<<c>>) = <<>>
  OBVIOUS
<1>4. AtClose => Head(text) = (IF in_array THEN "]" ELSE "}") /\ Tail(text) = <<>>
  BY <1>3 DEF AtClose
<1> QED
  BY <1>2, <1>4

LEMMA NextValueStays ==
  ASSUME Types, Nested, Phase, NextValue
  PROVE  Phase'
<1>1. /\ UNCHANGED <<nest, name, written>> /\ text' = Tail(text) /\ text # <<>>
      /\ UNCHANGED <<key_buffer, key_stack, in_array, array_index, printed, owed>>
      /\ state = "VALUE_END" /\ Head(text) = ","
      /\ state' = IF in_array THEN "VALUE_BEGIN" ELSE "KEY_BEGIN"
  BY DEF NextValue, Reads, At, buffers, nesting, output
<1>2. NextName \/ NextElement
  <2>1. AtClose => Head(text) \in {"]", "}"}
    BY <1>1, FirstLeft
  <2> QED
    BY <1>1, <2>1, Selected DEF ValueEnded
<1>3. CASE NextName
  <2>1. InObject /\ name # NoName /\ Settled
    BY <1>1, <1>3 DEF NextName, Ended
  <2>2. InObject' /\ Settled' /\ NameText' = NameText
    BY <1>1, <2>1, SamePlace, SameOutput DEF NameText
  <2>3. state' = "KEY_BEGIN" /\ text' = <<Quote>> \o NameText
    BY <1>1, <1>3, <2>1, FirstLeft DEF InObject
  <2>4. AtName'
    BY <1>1, <2>1, <2>2, <2>3 DEF AtName
  <2> QED
    BY <2>4 DEF Phase
<1>4. CASE NextElement
  <2>1. /\ InArray(1) /\ Due(written.value) /\ name = NoName
        /\ Spells(Tail(text), written.value)
    BY <1>1, <1>4 DEF NextElement
  <2>2. InValue' /\ Due(written.value)'
    <3>1. InArray(1)'
      BY <1>1, <2>1, SamePlace
    <3>2. Due(written.value)'
      BY <1>1, <2>1, SameDue
    <3> QED
      BY <1>1, <2>1, <3>1, <3>2 DEF InValue
  <2>3. state' = "VALUE_BEGIN"
    BY <1>1, <2>1 DEF InArray
  <2>4. Spells(text', written.value')
    BY <1>1, <2>1
  <2>5. AtValue'
    BY <2>2, <2>3, <2>4 DEF AtValue, Spells
  <2> QED
    BY <2>5 DEF Phase
<1> QED
  BY <1>2, <1>3, <1>4

LEMMA CloseStays ==
  ASSUME Types, Nested, Phase, CloseObject \/ CloseArray
  PROVE  Phase'
<1>1. /\ UNCHANGED <<nest, name, written, printed, owed>> /\ text' = Tail(text) /\ text # <<>>
      /\ state = "VALUE_END" /\ Head(text) \in {"}", "]"} /\ Pop
  BY DEF CloseObject, CloseArray, Reads, At, output
<1>2. AtClose
  <2>1. NextName \/ NextElement => Head(text) = ","
    BY <1>1, FirstLeft DEF NextElement
  <2> QED
    BY <1>1, <2>1, Selected DEF ValueEnded
<1>3. /\ Head(text) = (IF in_array THEN "]" ELSE "}") /\ text' = <<>>
      /\ name = NoName /\ Settled'
  <2>1. Settled
    BY <1>1, <1>2 DEF AtClose, Ended
  <2> QED
    BY <1>1, <1>2, <2>1, FirstLeft, SameOutput DEF AtClose
<1>4. /\ CloseObject => ~ in_array /\ ~ in_array'
      /\ CloseArray => in_array /\ in_array' = FALSE
  <2>1. CloseObject => Head(text) = "}" /\ UNCHANGED in_array
    BY DEF CloseObject, Reads, At
  <2>2. CloseArray => Head(text) = "]" /\ in_array' = FALSE
    BY DEF CloseArray, Reads, At
  <2>3. "]" # "}"
    OBVIOUS
  <2>4. CloseObject => ~ in_array
    BY <1>3, <2>1, <2>3
  <2>5. CloseObject => ~ in_array'
    BY <2>1, <2>4, Zenon
  <2>6. CloseArray => in_array
    BY <1>3, <2>2, <2>3
  <2> QED
    BY <2>2, <2>4, <2>5, <2>6, Zenon
<1>5. CASE nest = <<>>
  <2>1. key_stack = <<>> /\ ~ in_array
    BY <1>2, <1>5 DEF AtClose
  <2>2. CloseObject /\ state' = "DONE" /\ key_stack' = <<>>
    BY <1>1, <1>4, <2>1 DEF CloseObject, CloseArray, Reads, Pop
  <2>3. TextEnded'
    BY <1>1, <1>3, <1>5, <2>2 DEF TextEnded
  <2> QED
    BY <2>3 DEF Phase
<1>6. CASE nest # <<>>
  <2>1. /\ Last(nest).kind = "object" /\ Last(nest).items # 0
        /\ key_stack # <<>> /\ Front(key_stack) = Around
    BY <1>2, <1>6 DEF AtClose
  <2>2. key_stack' = Around /\ state' = "VALUE_END" /\ ~ in_array'
    BY <1>1, <1>4, <2>1 DEF CloseObject, CloseArray, Reads, Pop
  <2>3. Around' = Around /\ Last(nest)' = Last(nest)
    BY <1>1 DEF Around
  <2>4. InObject'
    BY <1>1, <1>6, <2>1, <2>2, <2>3 DEF InObject, Inside
  <2>5. ValueEnded'
    BY <1>1, <1>3, <1>6, <2>1, <2>2, <2>3, <2>4 DEF ValueEnded
  <2> QED
    BY <2>5 DEF Phase
<1> QED
  BY <1>5, <1>6

LEMMA ParseStays ==
  ASSUME MaxDepth <= StackSize + 1, NamesFit, Types, Nested, Phase, Fits, odd = {}, Parse
  PROVE  Nested' /\ Phase' /\ odd' = {}
<1>1. UNCHANGED <<nest, name, odd>>
  BY DEF Parse, Ignore, Punctuation, Name, OpenObject, OpenArray, BeginString, BeginNumber,
         BeginLiteral, MoreOfValue, EndString, EndNumber, MoreOfLiteral, NextValue,
         CloseObject, CloseArray, Reads, textVars
<1>2. Nested' /\ odd' = {}
  BY <1>1, SameText
<1>3. Phase'
  <2>1. ~ Ignore
    BY NothingIgnored
  <2>2. (Punctuation => Phase') /\ (Name => Phase')
    BY PunctuationStays, NameStays DEF Phase
  <2>3. OpenObject \/ OpenArray => Phase'
    BY OpenStays
  <2>4. BeginString \/ BeginNumber \/ BeginLiteral => Phase'
    BY BeginStays DEF Phase
  <2>5. (MoreOfValue => Phase') /\ (EndString => Phase')
    BY MoreOfValueStays, StringEndStays DEF Phase
  <2>6. (EndNumber => Phase') /\ (MoreOfLiteral => Phase')
    BY NumberEndStays, MoreOfLiteralStays
  <2>7. (NextValue => Phase') /\ (CloseObject \/ CloseArray => Phase')
    BY NextValueStays, CloseStays
  <2> QED
    BY <2>1, <2>2, <2>3, <2>4, <2>5, <2>6, <2>7 DEF Parse
<1> QED
  BY <1>2, <1>3

-----------------------------------------------------------------------------
(* The containers, while the text grows.                                   *)

LEMMA KeysAppend ==
  ASSUME NEW ns \in Seq(Containers), ns # <<>>, NEW c \in Containers
  PROVE  /\ Append(ns, c) \in Seq(Containers) /\ Append(ns, c) # <<>>
         /\ Len(Append(ns, c)) = Len(ns) + 1 /\ Last(Append(ns, c)) = c
         /\ \A i \in 1 .. Len(ns) : Append(ns, c)[i] = ns[i]
         /\ KeysOf(Append(ns, c)) = Append(KeysOf(ns), c.key)
<1> DEFINE ms == Append(ns, c)
<1>1. /\ ms \in Seq(Containers) /\ Len(ms) = Len(ns) + 1 /\ ms[Len(ns) + 1] = c
      /\ \A i \in 1 .. Len(ns) : ms[i] = ns[i]
  OBVIOUS
<1>2. c.key \in Names \cup {NoName}
  BY DEF Containers
<1> HIDE DEF ms
<1>3. Len(ns) \in Nat \ {0} /\ ms # <<>>
  BY <1>1, KeysTyped
<1>4. /\ KeysOf(ms) \in Seq(Names \cup {NoName}) /\ Len(KeysOf(ms)) = Len(ns)
      /\ \A i \in 1 .. Len(ns) : KeysOf(ms)[i] = ms[i + 1].key
      /\ Last(ms) = c
  <2>1. /\ KeysOf(ms) \in Seq(Names \cup {NoName}) /\ Len(KeysOf(ms)) = Len(ms) - 1
        /\ \A i \in 1 .. Len(ms) - 1 : KeysOf(ms)[i] = ms[i + 1].key
        /\ Last(ms) = ms[Len(ms)]
    BY <1>1, <1>3, KeysTyped
  <2>2. Len(ms) - 1 = Len(ns)
    BY <1>1, <1>3
  <2> QED
    BY <1>1, <2>1, <2>2
<1>5. /\ KeysOf(ns) \in Seq(Names \cup {NoName}) /\ Len(KeysOf(ns)) = Len(ns) - 1
      /\ \A i \in 1 .. Len(ns) - 1 : KeysOf(ns)[i] = ns[i + 1].key
  BY KeysTyped
<1>6. PICK k \in Seq(Names \cup {NoName}) : k = KeysOf(ns)
  BY <1>5
<1>7. /\ Append(k, c.key) \in Seq(Names \cup {NoName})
      /\ Len(Append(k, c.key)) = Len(ns)
      /\ \A i \in 1 .. Len(ns) - 1 : Append(k, c.key)[i] = k[i]
      /\ Append(k, c.key)[Len(ns)] = c.key
  <2>1. Len(k) = Len(ns) - 1
    BY <1>5, <1>6
  <2>2. ASSUME NEW S, NEW s \in Seq(S), NEW e \in S, NEW n \in Nat, Len(s) = n - 1
        PROVE  /\ Append(s, e) \in Seq(S) /\ Len(Append(s, e)) = n
               /\ \A i \in 1 .. n - 1 : Append(s, e)[i] = s[i]
               /\ Append(s, e)[n] = e
    BY <2>2
  <2> QED
    BY <1>2, <1>3, <2>1, <2>2
<1>8. ASSUME NEW i \in 1 .. Len(ns) PROVE KeysOf(ms)[i] = Append(k, c.key)[i]
  <2>1. CASE i = Len(ns)
    BY <1>1, <1>4, <1>7, <2>1
  <2>2. CASE i # Len(ns)
    <3>1. i \in 1 .. Len(ns) - 1 /\ i + 1 \in 1 .. Len(ns)
      BY <1>3, <2>2
    <3> QED
      BY <1>1, <1>4, <1>5, <1>6, <1>7, <3>1
  <2> QED
    BY <2>1, <2>2
<1>9. KeysOf(ms) = Append(k, c.key)
  BY <1>4, <1>7, <1>8, SeqEqual
<1> QED
  BY <1>1, <1>3, <1>4, <1>6, <1>9 DEF ms

LEMMA KeysFront ==
  ASSUME NEW ns \in Seq(Containers), ns # <<>>
  PROVE  /\ Front(ns) \in Seq(Containers) /\ Len(Front(ns)) = Len(ns) - 1
         /\ \A i \in 1 .. Len(ns) - 1 : Front(ns)[i] = ns[i]
         /\ Len(ns) = 1 => Front(ns) = <<>> /\ KeysOf(ns) = <<>>
         /\ Len(ns) # 1 => /\ Front(ns) # <<>> /\ Last(Front(ns)) = ns[Len(ns) - 1]
                           /\ KeysOf(ns) # <<>> /\ Front(KeysOf(ns)) = KeysOf(Front(ns))
<1> DEFINE fs == Front(ns)
<1>1. Len(ns) \in Nat \ {0}
  BY KeysTyped
<1>2. ASSUME NEW S, NEW s \in Seq(S), s # <<>>
      PROVE  /\ Front(s) \in Seq(S) /\ Len(Front(s)) = Len(s) - 1
             /\ \A i \in 1 .. Len(s) - 1 : Front(s)[i] = s[i]
  <2>1. Len(s) - 1 \in 0 .. Len(s) /\ Front(s) = SubSeq(s, 1, Len(s) - 1)
    BY <1>2 DEF Front
  <2>2. ASSUME NEW n \in 0 .. Len(s)
        PROVE  /\ SubSeq(s, 1, n) \in Seq(S) /\ Len(SubSeq(s, 1, n)) = n
               /\ \A i \in 1 .. n : SubSeq(s, 1, n)[i] = s[i]
    OBVIOUS
  <2> QED
    BY <2>1, <2>2
<1>3. /\ fs \in Seq(Containers) /\ Len(fs) = Len(ns) - 1
      /\ \A i \in 1 .. Len(ns) - 1 : fs[i] = ns[i]
  BY <1>2
<1> HIDE DEF fs
<1>4. PICK k \in Seq(Names \cup {NoName}) : k = KeysOf(ns)
  BY KeysTyped
<1>5. Len(k) = Len(ns) - 1 /\ \A i \in 1 .. Len(ns) - 1 : k[i] = ns[i + 1].key
  BY <1>4, KeysTyped
<1>6. ASSUME NEW S, NEW s \in Seq(S) PROVE (Len(s) = 0) <=> (s = <<>>)
  OBVIOUS
<1>7. Len(ns) = 1 => fs = <<>> /\ k = <<>>
  <2>1. Len(ns) = 1 => Len(fs) = 0 /\ Len(k) = 0
    BY <1>3, <1>5
  <2> QED
    BY <1>3, <1>6, <2>1
<1>8. ASSUME Len(ns) # 1
      PROVE  fs # <<>> /\ Last(fs) = ns[Len(ns) - 1] /\ k # <<>> /\ Front(k) = KeysOf(fs)
  <2>1. Len(fs) # 0 /\ Len(k) # 0 /\ Len(ns) - 1 \in 1 .. Len(ns) - 1 /\ Len(fs) \in Nat \ {0}
    BY <1>1, <1>3, <1>5, <1>8
  <2>2. fs # <<>> /\ k # <<>>
    BY <1>3, <1>6, <2>1
  <2>3. Last(fs) = ns[Len(ns) - 1]
    BY <1>3, <2>1 DEF Last
  <2>4. /\ KeysOf(fs) \in Seq(Names \cup {NoName}) /\ Len(KeysOf(fs)) = Len(fs) - 1
        /\ \A i \in 1 .. Len(fs) - 1 : KeysOf(fs)[i] = fs[i + 1].key
    BY <1>3, <2>2, KeysTyped
  <2>5. /\ Front(k) \in Seq(Names \cup {NoName}) /\ Len(Front(k)) = Len(k) - 1
        /\ \A i \in 1 .. Len(k) - 1 : Front(k)[i] = k[i]
    BY <1>2, <2>2
  <2>6. ASSUME NEW i \in 1 .. Len(fs) - 1 PROVE Front(k)[i] = KeysOf(fs)[i]
    <3>1. /\ i \in 1 .. Len(k) - 1 /\ i \in 1 .. Len(ns) - 1 /\ i + 1 \in 1 .. Len(ns) - 1
      BY <1>1, <1>3, <1>5
    <3> QED
      BY <1>3, <1>5, <2>4, <2>5, <3>1
  <2>7. Len(Front(k)) = Len(KeysOf(fs))
    BY <1>3, <1>5, <2>4, <2>5
  <2>8. Front(k) = KeysOf(fs)
    BY <2>4, <2>5, <2>6, <2>7, SeqEqual
  <2> QED
    BY <2>2, <2>3, <2>8
<1> QED
  BY <1>3, <1>4, <1>7, <1>8 DEF fs

LEMMA CountedOneMore ==
  ASSUME Nested, nest # <<>>
  PROVE  /\ OneMore \in Seq(Containers) /\ OneMore # <<>> /\ OneMore # nest
         /\ Len(OneMore) = Len(nest)
         /\ Last(OneMore).kind = Last(nest).kind /\ Last(OneMore).items = Last(nest).items + 1
         /\ Last(OneMore).items # 0 /\ Last(nest).items \in Nat
         /\ KeysOf(OneMore) = Around
         /\ \A i \in 1 .. Len(nest) - 1 : OneMore[i] = nest[i]
<1> DEFINE n == Len(nest)
           d == [nest[n] EXCEPT !.items = nest[n].items + 1]
<1>1. nest \in Seq(Containers) /\ n \in Nat \ {0} /\ Last(nest) = nest[n] /\ nest[n] \in Containers
  BY KeysTyped DEF Nested
<1>2. d \in Containers /\ d.kind = nest[n].kind /\ d.key = nest[n].key
      /\ d.items = nest[n].items + 1 /\ d.items # 0 /\ nest[n].items \in Nat
      /\ d.items # nest[n].items
  BY <1>1 DEF Containers
<1>3. OneMore = [nest EXCEPT ![n] = d]
  BY DEF OneMore
<1>4. PICK c \in Containers : c = d
  BY <1>2
<1>5. /\ OneMore \in Seq(Containers) /\ Len(OneMore) = n /\ OneMore[n] = c
      /\ \A i \in 1 .. n - 1 : OneMore[i] = nest[i]
  <2>1. ASSUME NEW S, NEW s \in Seq(S), NEW i \in 1 .. Len(s), NEW e \in S
        PROVE  /\ [s EXCEPT ![i] = e] \in Seq(S) /\ Len([s EXCEPT ![i] = e]) = Len(s)
               /\ [s EXCEPT ![i] = e][i] = e
               /\ \A j \in 1 .. Len(s) : j # i => [s EXCEPT ![i] = e][j] = s[j]
    OBVIOUS
  <2>2. n \in 1 .. Len(nest) /\ \A j \in 1 .. n - 1 : j \in 1 .. Len(nest) /\ j # n
    BY <1>1
  <2> QED
    BY <1>1, <1>3, <1>4, <2>1, <2>2
<1> HIDE DEF n, d
<1>6. OneMore # <<>> /\ Last(OneMore) = c /\ OneMore # nest
  <2>1. Len(OneMore) # 0 /\ Len(<<>>) = 0
    BY <1>1, <1>5
  <2>2. OneMore # <<>>
    BY <2>1
  <2>3. Last(OneMore) = c
    BY <1>5 DEF Last
  <2> QED
    BY <1>2, <1>4, <1>5, <2>2, <2>3
<1>7. KeysOf(OneMore) = Around
  <2>1. ASSUME NEW i \in 1 .. n - 1 PROVE OneMore[i + 1].key = nest[i + 1].key
    <3>1. CASE i + 1 = n
      BY <1>2, <1>4, <1>5, <3>1
    <3>2. CASE i + 1 # n
      <4>1. i + 1 \in 1 .. n - 1
        BY <1>1, <3>2
      <4> QED
        BY <1>5, <4>1
    <3> QED
      BY <3>1, <3>2
  <2> QED
    BY <1>5, <2>1 DEF KeysOf, Around, n
<1> QED
  BY <1>1, <1>2, <1>4, <1>5, <1>6, <1>7 DEF n

-----------------------------------------------------------------------------
(* The text grows when it is read to its end.                              *)

LEMMA AllRead ==
  ASSUME Types, Nested, Phase, text = <<>>
  PROVE  Named \/ ObjectOpened \/ ArrayOpened \/ ValueEnded \/ InNumber \/ TextEnded
<1>1. \A c : <<c>> # <<>>
  OBVIOUS
<1>2. ~ AtStart /\ ~ AfterName /\ ~ AtOpen /\ ~ NextElement /\ ~ AtClose
  BY <1>1 DEF AtStart, AfterName, AtOpen, NextElement, AtClose
<1>3. ~ AtName /\ ~ NextName
  <2>1. ~ AtName
    BY NameTyped DEF AtName
  <2>2. ~ NextName
    <3>1. "," \in Char
      BY DEF Char
    <3> QED
      BY <3>1, NameTyped, Consed DEF NextName
  <2> QED
    BY <2>1, <2>2
<1>4. ~ AtValue
  BY SpelledOut DEF AtValue
<1>5. ~ InName
  <2> SUFFICES ASSUME InName PROVE FALSE
    OBVIOUS
  <2>1. PICK z : z = <<Quote, ":">>
    OBVIOUS
  <2>2. /\ PartRead(key_buffer, text, name, z) /\ name \in Seq(Char)
        /\ \A i \in DOMAIN name : name[i] # Head(z)
        /\ z \in Seq(Char) /\ z # <<>>
    BY <2>1, EndOfName, NameTyped DEF InName
  <2>3. key_buffer \in Seq(Char) /\ text \in Seq(Char)
    BY DEF Types
  <2> QED
    BY <2>2, <2>3, ReadUpTo
<1>6. ~ InString
  <2> SUFFICES ASSUME InString PROVE FALSE
    OBVIOUS
  <2>1. PICK z : z = <<Quote>>
    OBVIOUS
  <2>2. PICK w \in Seq(Char) : /\ PartRead(val_buffer, text, w, z)
                               /\ \A i \in DOMAIN w : w[i] # Quote
    BY <2>1, StringTyped DEF InString
  <2>3. z \in Seq(Char) /\ z # <<>> /\ \A i \in DOMAIN w : w[i] # Head(z)
    BY <2>1, <2>2, Punctuated, Single
  <2>4. val_buffer \in Seq(Char) /\ text \in Seq(Char)
    BY DEF Types
  <2> QED
    BY <2>2, <2>3, <2>4, ReadUpTo, ZenonT(60)
<1>7. ~ InLiteral
  <2> SUFFICES ASSUME InLiteral PROVE FALSE
    OBVIOUS
  <2>1. PICK l \in LiteralStates :
          state = l /\ text = SubSeq(Literal[l], literal_index + 1, Len(Literal[l]))
    BY LiteralLengths DEF InLiteral
  <2>2. literal_index \in 1 .. Len(Literal[l]) - 1 /\ Literal[l] \in Seq(Char)
    BY <2>1, LiteralLengths DEF Types
  <2>3. literal_index \in 0 .. Len(Literal[l]) - 1
    <3>1. PICK n \in Nat : n = Len(Literal[l])
      BY <2>2
    <3>2. literal_index \in 0 .. n - 1
      BY <2>2, <3>1
    <3> QED
      BY <3>1, <3>2
  <2> QED
    BY <2>1, <2>2, <2>3, RestRead
<1> QED
  BY <1>2, <1>3, <1>4, <1>5, <1>6, <1>7 DEF Phase

(* What comes after a value.                                               *)
Over ==
  /\ text = <<>> /\ name = NoName /\ nest # <<>> /\ Ended /\ Last(nest).items # 0
  /\ \/ InObject
     \/ state = "VALUE_END" /\ InArray(0)
     \/ state = "VALUE_NUMBER" /\ InArray(1) /\ Due(Number(val_buffer))

LEMMA IsOver ==
  ASSUME Types, text = <<>>, ValueEnded \/ InNumber
  PROVE  Over
<1>1. CASE ValueEnded
  BY <1>1 DEF ValueEnded, Over, Ended
<1>2. CASE InNumber
  <2>1. val_buffer \o text = val_buffer
    BY DEF Types
  <2>2. Due(Number(val_buffer)) /\ state = "VALUE_NUMBER" /\ InValue
    BY <1>2, <2>1 DEF InNumber
  <2>3. InArray(1) => Last(nest).items # 0
    BY DEF InArray, Types
  <2>4. nest # <<>> /\ Last(nest).items # 0 /\ name = NoName
    BY <2>2, <2>3 DEF InValue, InArray, InObject, Inside
  <2> QED
    BY <2>2, <2>4 DEF Over, Ended, InValue
<1> QED
  BY <1>1, <1>2

(* What the parser's variables say does not depend on how the text grows.  *)
Untouched ==
  UNCHANGED <<state, key_buffer, val_buffer, literal_index, key_stack, in_array,
              array_index, printed>>

LEMMA GrowOwes ==
  ASSUME Grow
  PROVE  /\ Untouched
         /\ odd' = {} /\ nest' # nest /\ Len(nest') = Len(nest) => owed' = owed + 1
         /\ odd' = {} /\ (nest' = nest \/ Len(nest') # Len(nest)) => owed' = owed
<1>1. Untouched
  BY DEF Grow, Untouched, buffers, nesting
<1>2. odd' = {} => owed' = IF nest' # nest /\ Len(nest') = Len(nest) THEN owed + 1 ELSE owed
  BY DEF Grow
<1> QED
  BY <1>1, <1>2

LEMMA EndedStays ==
  ASSUME Untouched, UNCHANGED <<written, owed>>, Ended
  PROVE  Ended'
<1>1. Settled => Settled'
  BY SameOutput DEF Untouched
<1>2. \A v : Due(v) => Due(v)'
  BY SameDue DEF Untouched
<1> QED
  BY <1>1, <1>2 DEF Ended, Untouched

LEMMA NameWritten ==
  ASSUME Types, Nested, Phase, odd = {}, Grow, NEW n \in Names, WriteName(n)
  PROVE  Nested' /\ Phase'
<1>1. /\ text = <<>> /\ Inside("object") /\ name = NoName /\ name' = n
      /\ UNCHANGED <<nest, written, odd>>
      /\ text' = Comma \o <<Quote>> \o n \o <<Quote, ":">>
  BY DEF WriteName
<1>2. Untouched /\ owed' = owed
  BY <1>1, GrowOwes
<1>3. n # NoName /\ n \in Seq(Char)
  BY TextAssumption, StringsAreChars DEF Unquoted
<1>4. Nested'
  BY <1>1 DEF Nested
<1>5. InObject => InObject'
  BY <1>1, <1>2 DEF InObject, Inside, Around, Untouched
<1>6. ~ Inside("array")
  BY <1>1 DEF Inside
<1>7. NameText' = n \o <<Quote, ":">>
  BY <1>1 DEF NameText
<1>8. ASSUME NEW c \in Seq(Char)
      PROVE  c \o <<Quote>> \o n \o <<Quote, ":">> = c \o (<<Quote>> \o (n \o <<Quote, ":">>))
  <2>1. PICK q \in Seq(Char), e \in Seq(Char) : q = <<Quote>> /\ e = <<Quote, ":">>
    BY Punctuated
  <2>2. c \o q \in Seq(Char) /\ n \o e \in Seq(Char)
    BY <1>3, ConcatProperties
  <2>3. ((c \o q) \o n) \o e = (c \o q) \o (n \o e)
    BY <1>3, <2>2, ConcatAssociative, SMTT(30)
  <2>4. (c \o q) \o (n \o e) = c \o (q \o (n \o e))
    BY <2>2, ConcatAssociative, SMTT(30)
  <2> QED
    BY <2>1, <2>3, <2>4, Zenon
<1>9. <<Quote>> \o (n \o <<Quote, ":">>) \in Seq(Char)
  <2>1. ASSUME NEW S, NEW a \in Seq(S), NEW b \in Seq(S) PROVE a \o b \in Seq(S)
    OBVIOUS
  <2> QED
    BY <1>3, <2>1, Punctuated
<1>10. /\ <<>> \o (<<Quote>> \o (n \o <<Quote, ":">>)) = <<Quote>> \o (n \o <<Quote, ":">>)
  BY <1>9
<1>11. ~ Named /\ ~ ArrayOpened /\ ~ TextEnded
  BY <1>1, <1>6 DEF Named, ArrayOpened, InArray, TextEnded, Inside
<1>12. CASE ObjectOpened
  <2>1. InObject /\ Last(nest).items = 0 /\ Settled /\ state = "KEY_BEGIN"
    BY <1>12 DEF ObjectOpened
  <2>2. text' = <<Quote>> \o NameText'
    BY <1>1, <1>7, <1>8, <1>10, <2>1, Punctuated DEF Comma
  <2>3. Settled'
    BY <1>1, <1>2, <2>1, SameOutput DEF Untouched
  <2>4. AtName'
    BY <1>1, <1>2, <1>3, <1>5, <2>1, <2>2, <2>3 DEF AtName, Untouched
  <2> QED
    BY <1>4, <2>4 DEF Phase
<1>13. CASE ValueEnded \/ InNumber
  <2>1. Over
    BY <1>1, <1>13, IsOver
  <2>2. InObject /\ Ended /\ Last(nest).items # 0
    BY <1>6, <2>1 DEF Over, InArray
  <2>3. text' = <<",">> \o (<<Quote>> \o NameText')
    BY <1>1, <1>7, <1>8, <2>2, Punctuated DEF Comma
  <2>4. Ended'
    BY <1>1, <1>2, <2>2, EndedStays
  <2>5. NextName'
    BY <1>1, <1>3, <1>5, <2>2, <2>3, <2>4 DEF NextName
  <2> QED
    BY <1>4, <2>5 DEF Phase
<1> QED
  BY <1>1, <1>11, <1>12, <1>13, AllRead

LEMMA ScalarWritten ==
  ASSUME Types, Nested, Phase, odd = {}, Grow, odd' = {},
         NEW s \in Scalars, WriteScalar(s)
  PROVE  Nested' /\ Phase'
<1>1. /\ text = <<>> /\ name' = NoName
      /\ name # NoName \/ Inside("array")
      /\ text' = (IF Inside("array") THEN Comma ELSE <<>>) \o s.text
      /\ nest' = OneMore
      /\ written' = [path |-> Append(Around, Own), value |-> s.shown]
  BY DEF WriteScalar, ValueComes
<1>0. text = <<>>
  BY <1>1
<1>2. ~ s.odd
  BY DEF WriteScalar
<1>3. Spells(s.text, s.shown)' /\ Spells(s.text, s.shown) /\ s.text \in Seq(Char)
      /\ s.text # <<>>
  BY <1>2, TextAssumption, StringsAreChars DEF Spells
<1>4. nest # <<>>
  BY <1>1, AllRead DEF Inside, Named, InObject, ObjectOpened, ArrayOpened, InArray,
     ValueEnded, InNumber, InValue, TextEnded
<1>5. /\ OneMore \in Seq(Containers) /\ OneMore # <<>> /\ OneMore # nest
      /\ Len(OneMore) = Len(nest)
      /\ Last(OneMore).kind = Last(nest).kind /\ Last(OneMore).items = Last(nest).items + 1
      /\ Last(OneMore).items # 0 /\ Last(nest).items \in Nat
      /\ KeysOf(OneMore) = Around
      /\ \A i \in 1 .. Len(nest) - 1 : OneMore[i] = nest[i]
  BY <1>4, CountedOneMore
<1>6. Untouched /\ owed' = owed + 1
  BY <1>1, <1>5, GrowOwes
<1>7. Nested'
  <2>1. nest'[1].kind = "object"
    <3>1. CASE Len(nest) = 1
      <4>1. Last(OneMore) = OneMore[1] /\ Last(nest) = nest[1]
        BY <1>5, <3>1 DEF Last
      <4> QED
        BY <1>1, <1>4, <1>5, <4>1 DEF Nested
    <3>2. CASE Len(nest) # 1
      <4>1. 1 \in 1 .. Len(nest) - 1
        BY <1>4, <3>2, AroundLength
      <4> QED
        BY <1>1, <1>5, <4>1 DEF Nested
    <3> QED
      BY <3>1, <3>2
  <2>2. \A i \in 1 .. Len(nest') - 1 : nest'[i].kind = "object" /\ nest'[i].items # 0
    BY <1>1, <1>5 DEF Nested
  <2>3. nest' \in Seq(Containers) /\ Len(nest') <= MaxDepth
    BY <1>1, <1>5 DEF Nested
  <2> QED
    BY <1>1, <2>1, <2>2, <2>3 DEF Nested
<1>8. /\ Around' = Around /\ Last(nest)' = Last(OneMore)
      /\ (Inside("array")' <=> Inside("array")) /\ (Inside("object")' <=> Inside("object"))
  BY <1>1, <1>4, <1>5 DEF Around, KeysOf, Inside
<1>9. \A c \in Seq(Char) : <<>> \o c = c
  OBVIOUS
<1>10. CASE Inside("object")
  <2>1. ~ Inside("array") /\ name # NoName
    BY <1>1, <1>10 DEF Inside
  <2>2. Named
    BY <1>1, <2>1, AllRead
    DEF ObjectOpened, ArrayOpened, ValueEnded, InNumber, InValue, TextEnded
  <2>3. /\ InObject /\ Settled /\ key_buffer = name /\ state = "VALUE_BEGIN"
        /\ name \in Names
    BY <2>1, <2>2, NameTyped DEF Named
  <2>4. text' = s.text
    BY <1>1, <1>3, <1>9, <2>1
  <2>5. InValue'
    BY <1>1, <1>5, <1>6, <1>8, <2>3 DEF InValue, InObject, Untouched
  <2>6. Due(written.value)'
    <3>1. owed' = 1
      BY <1>6, <2>3 DEF Settled
    <3>2. Own = name /\ Around = key_stack /\ ~ in_array
      BY <2>1, <2>3 DEF Own, InObject
    <3>3. written'.value = s.shown
      BY <1>1
    <3>4. Append(key_stack, OwnKey)' = Append(Around, Own)
      BY <1>6, <2>3, <3>2 DEF OwnKey, Untouched
    <3>5. InPlace'
      BY <1>6, <2>3, <3>2 DEF InPlace, Untouched
    <3> QED
      BY <1>1, <3>1, <3>3, <3>4, <3>5 DEF Due
  <2>7. state' = "VALUE_BEGIN" /\ Spells(text', written'.value)
    BY <1>1, <1>3, <1>6, <2>3, <2>4 DEF Untouched
  <2>8. AtValue'
    BY <2>5, <2>6, <2>7 DEF AtValue, Spells
  <2> QED
    BY <1>7, <2>8 DEF Phase
<1>11. CASE Inside("array")
  <2>1. ~ Inside("object") /\ Own = Index(Last(nest).items)
    BY <1>11 DEF Inside, Own
  <2>2. name = NoName /\ (ArrayOpened \/ ValueEnded \/ InNumber)
    <3>1. ~ Named /\ ~ ObjectOpened /\ ~ TextEnded
      BY <1>4, <2>1 DEF Named, ObjectOpened, InObject, TextEnded
    <3>2. ArrayOpened \/ ValueEnded \/ InNumber
      BY <1>0, <3>1, AllRead
    <3> QED
      BY <3>2 DEF ArrayOpened, ValueEnded, InNumber, InValue
  <2>3. ASSUME NEW k \in Nat, InArray(k) PROVE InArray(k + 1)'
    <3>1. /\ key_stack = Around /\ key_stack # <<>> /\ in_array
          /\ Last(nest).items = array_index + k /\ array_index \in Nat
      BY <2>3 DEF InArray, Types
    <3>2. Last(nest)'.items = array_index + (k + 1)
      BY <1>5, <1>8, <2>3, <3>1
    <3> QED
      BY <1>6, <1>8, <1>11, <3>1, <3>2 DEF InArray, Untouched
  <2>4. /\ InArray(0) => InArray(1)'
        /\ InArray(1) => InArray(2)'
    <3>1. InArray(0) => InArray(0 + 1)'
      BY <2>3
    <3>2. InArray(1) => InArray(1 + 1)'
      BY <2>3
    <3>3. 0 + 1 = 1 /\ 1 + 1 = 2
      OBVIOUS
    <3> QED
      BY <3>1, <3>2, <3>3
  <2>5. InArray(0) /\ Settled => Due(written.value)'
    <3> SUFFICES ASSUME InArray(0), Settled PROVE Due(written.value)'
      OBVIOUS
    <3>1. owed' = 1
      BY <1>6 DEF Settled
    <3>2. /\ Own = Index(array_index) /\ Around = key_stack /\ in_array /\ key_stack # <<>>
      BY <2>1 DEF InArray, Types
    <3>3. written'.value = s.shown
      BY <1>1
    <3>4. Append(key_stack, OwnKey)' = Append(Around, Own)
      BY <1>6, <3>2 DEF OwnKey, Untouched
    <3>5. InPlace'
      BY <1>6, <3>2 DEF InPlace, Untouched
    <3> QED
      BY <1>1, <3>1, <3>3, <3>4, <3>5 DEF Due
  <2>6. CASE ArrayOpened
    <3>1. /\ InArray(0) /\ Settled /\ state = "VALUE_BEGIN" /\ Last(nest).items = 0
      BY <2>6 DEF ArrayOpened
    <3>2. text' = s.text
      BY <1>1, <1>3, <1>9, <1>11, <3>1 DEF Comma
    <3>3. state' = "VALUE_BEGIN" /\ Spells(text', written'.value)
      BY <1>1, <1>3, <1>6, <3>1, <3>2 DEF Untouched
    <3>4. InValue'
      BY <1>1, <2>4, <3>1 DEF InValue
    <3>5. AtValue'
      BY <2>5, <3>1, <3>3, <3>4 DEF AtValue, Spells
    <3> QED
      BY <1>7, <3>5 DEF Phase
  <2>7. CASE ValueEnded \/ InNumber
    <3>1. Over
      BY <1>0, <2>7, IsOver
    <3>2. Last(nest).items # 0 /\ ~ InObject
      BY <2>1, <3>1 DEF Over, InObject
    <3>3. text' = <<",">> \o s.text
      BY <1>1, <1>11, <3>2 DEF Comma
    <3>4. text' # <<>> /\ Head(text') = "," /\ Tail(text') = s.text
      <4>1. "," \in Char
        BY DEF Char
      <4> QED
        BY <1>3, <3>3, <4>1, Consed
    <3>5. Spells(Tail(text'), written'.value)
      BY <1>1, <1>3, <3>4
    <3>6. CASE state = "VALUE_END" /\ InArray(0)
      <4>1. Settled
        BY <3>1, <3>6 DEF Over, Ended
      <4>2. NextElement'
        BY <1>1, <1>6, <2>4, <2>5, <3>4, <3>5, <3>6, <4>1 DEF NextElement, Spells, Untouched
      <4> QED
        BY <1>7, <4>2 DEF Phase
    <3>7. CASE state = "VALUE_NUMBER" /\ InArray(1) /\ Due(Number(val_buffer))
      <4>1. owed' = 2
        BY <1>6, <3>7 DEF Due
      <4>2. /\ Own = Index(array_index + 1) /\ Around = key_stack
        BY <2>1, <3>7 DEF InArray
      <4>3. written' = [path |-> Append(key_stack, Index(array_index + 1))',
                        value |-> written'.value]
        BY <1>1, <1>6, <4>2 DEF Untouched
      <4>4. InArray(2)'
        BY <2>4, <3>7
      <4>5. NextElement'
        BY <1>1, <1>6, <3>4, <3>5, <3>7, <4>1, <4>3, <4>4 DEF NextElement, Spells, Untouched
      <4> QED
        BY <1>7, <4>5 DEF Phase
    <3> QED
      BY <3>1, <3>2, <3>6, <3>7 DEF Over
  <2> QED
    BY <2>2, <2>6, <2>7
<1>12. Inside("object") \/ Inside("array")
  BY <1>4, AroundLength DEF Inside, Containers, Kinds
<1> QED
  BY <1>10, <1>11, <1>12

Opens(kind, bracket) == (kind = "object" /\ bracket = "{") \/ (kind = "array" /\ bracket = "[")
Closes(kind, bracket) == (kind = "object" /\ bracket = "}") \/ (kind = "array" /\ bracket = "]")

LEMMA ContainerOpened ==
  ASSUME Types, Nested, Phase, odd = {}, Grow, odd' = {},
         NEW kind, NEW bracket, Open(kind, bracket), Opens(kind, bracket)
  PROVE  Nested' /\ Phase'
<1>1. /\ text = <<>> /\ name' = NoName /\ Len(nest) < MaxDepth
      /\ name # NoName \/ Inside("array")
  BY DEF Open, ValueComes
<1>2. ~ Inside("array") /\ written' = written
  BY DEF Open
<1>3. Named
  <2>1. name # NoName
    BY <1>1, <1>2
  <2> QED
    BY <1>1, <2>1, AllRead
    DEF ObjectOpened, ArrayOpened, ValueEnded, InNumber, InValue, TextEnded
<1>4. /\ InObject /\ Settled /\ key_buffer = name /\ state = "VALUE_BEGIN"
      /\ name \in Names /\ nest # <<>> /\ Last(nest).kind = "object"
  BY <1>3, NameTyped DEF Named, InObject, Inside
<1>5. key_stack = Around /\ ~ in_array /\ Around = KeysOf(nest)
  BY <1>4 DEF InObject, Around, KeysOf
<1>6. Own = name
  BY <1>2 DEF Own
<1>7. PICK c \in Containers :
        /\ c = Container(kind, name)
        /\ c.kind = kind /\ c.key = name /\ c.items = 0
  <2>1. Container(kind, name) = [kind |-> kind, key |-> name, items |-> 0]
    BY DEF Container
  <2>2. Container(kind, name) \in Containers
    <3>1. kind \in Kinds /\ name \in Names \cup {NoName}
      BY <1>4 DEF Kinds, Opens
    <3>2. 0 \in Nat
      OBVIOUS
    <3> QED
      BY <2>1, <3>1, <3>2 DEF Containers
  <2> QED
    BY <2>1, <2>2
<1>8. nest' = Append(OneMore, c)
  BY <1>6, <1>7 DEF Open
<1>9. text' = <<bracket>>
  <2>1. text' = <<>> \o <<bracket>>
    BY <1>2 DEF Open
  <2>2. \A b : <<>> \o <<b>> = <<b>>
    OBVIOUS
  <2> QED
    BY <2>1, <2>2
<1>10. /\ OneMore \in Seq(Containers) /\ OneMore # <<>>
       /\ Len(OneMore) = Len(nest)
       /\ Last(OneMore).kind = Last(nest).kind /\ Last(OneMore).items # 0
       /\ KeysOf(OneMore) = Around
       /\ \A i \in 1 .. Len(nest) - 1 : OneMore[i] = nest[i]
  BY <1>4, CountedOneMore
<1>11. /\ nest' \in Seq(Containers) /\ nest' # <<>> /\ Len(nest') = Len(nest) + 1
       /\ Last(nest') = c /\ \A i \in 1 .. Len(nest) : nest'[i] = OneMore[i]
       /\ KeysOf(nest') = Append(KeysOf(OneMore), c.key)
  BY <1>8, <1>10, KeysAppend
<1>12. Len(nest) \in Nat \ {0} /\ Last(OneMore) = OneMore[Len(nest)]
  BY <1>4, <1>10, AroundLength DEF Last
<1>13. Untouched /\ owed' = owed
  <2>1. Len(nest') # Len(nest)
    BY <1>11, <1>12
  <2> QED
    BY <2>1, GrowOwes
<1>14. Nested'
  <2>1. ASSUME NEW i \in 1 .. Len(nest)
        PROVE  nest'[i].kind = "object" /\ nest'[i].items # 0
    <3>1. nest'[i] = OneMore[i]
      BY <1>11
    <3>2. CASE i = Len(nest)
      BY <1>4, <1>10, <1>12, <3>1, <3>2
    <3>3. CASE i # Len(nest)
      <4>1. i \in 1 .. Len(nest) - 1
        BY <1>12, <3>3
      <4>2. OneMore[i] = nest[i]
        BY <1>10, <4>1
      <4> QED
        BY <3>1, <4>1, <4>2 DEF Nested
    <3> QED
      BY <3>2, <3>3
  <2>2. Len(nest') - 1 = Len(nest) /\ 1 \in 1 .. Len(nest)
    BY <1>11, <1>12
  <2>3. Len(nest') <= MaxDepth
    <3>1. PICK m \in Nat : m = Len(nest)
      BY <1>12
    <3>2. m < MaxDepth => m + 1 <= MaxDepth
      BY <3>1, SizesAssumption
    <3> QED
      BY <1>1, <1>11, <3>1, <3>2
  <2>4. \A i \in 1 .. Len(nest') - 1 : nest'[i].kind = "object" /\ nest'[i].items # 0
    BY <2>1, <2>2
  <2>5. nest'[1].kind = "object"
    BY <2>1, <2>2
  <2> QED
    BY <1>1, <1>11, <2>3, <2>4, <2>5 DEF Nested
<1>15. AtOpen'
  <2>1. text' = IF Inside("array")' THEN <<"[">> ELSE <<"{">>
    <3>1. Inside("array")' <=> kind = "array"
      BY <1>7, <1>11 DEF Inside
    <3> QED
      BY <1>9, <3>1 DEF Opens
  <2>2. Len(nest') >= 2
    BY <1>11, <1>12
  <2>3. Around' = Append(key_stack, key_buffer)
    <3>1. Around' = KeysOf(nest')
      BY DEF Around, KeysOf
    <3> QED
      BY <1>4, <1>5, <1>7, <1>10, <1>11, <3>1
  <2>4. Settled'
    BY <1>2, <1>4, <1>13, SameOutput DEF Untouched
  <2>5. Last(nest)'.items = 0 /\ Last(nest)'.key = key_buffer
    BY <1>4, <1>7, <1>11
  <2> QED
    BY <1>1, <1>4, <1>5, <1>13, <2>1, <2>2, <2>3, <2>4, <2>5 DEF AtOpen, Untouched
<1> QED
  BY <1>14, <1>15 DEF Phase

LEMMA ContainerClosed ==
  ASSUME Types, Nested, Phase, odd = {}, Grow, odd' = {},
         NEW kind, NEW bracket, Close(kind, bracket), Closes(kind, bracket)
  PROVE  Nested' /\ Phase'
<1>1. /\ text = <<>> /\ nest # <<>> /\ Last(nest).kind = kind /\ name = NoName
      /\ text' = <<bracket>> /\ nest' = Front(nest) /\ name' = name
  BY DEF Close, Inside
<1>2. Last(nest).items # 0 /\ written' = written
  BY DEF Close
<1>3. Over
  <2>1. ValueEnded \/ InNumber
    BY <1>1, <1>2, AllRead DEF Named, ObjectOpened, ArrayOpened, TextEnded
  <2> QED
    BY <1>1, <2>1, IsOver
<1>4. /\ Ended /\ key_stack = Around
      /\ in_array => kind = "array" /\ key_stack # <<>>
      /\ ~ in_array => kind = "object"
  BY <1>1, <1>3 DEF Over, InObject, InArray, Inside
<1>5. nest \in Seq(Containers) /\ Around = KeysOf(nest) /\ Len(nest) \in Nat \ {0}
  BY <1>1, AroundLength DEF Nested, Around, KeysOf
<1>6. /\ nest' \in Seq(Containers) /\ Len(nest') = Len(nest) - 1
      /\ \A i \in 1 .. Len(nest) - 1 : nest'[i] = nest[i]
      /\ Len(nest) = 1 => nest' = <<>> /\ Around = <<>>
      /\ Len(nest) # 1 => /\ nest' # <<>> /\ Last(nest') = nest[Len(nest) - 1]
                          /\ Around # <<>> /\ Front(Around) = KeysOf(nest')
  BY <1>1, <1>5, KeysFront
<1>7. Untouched /\ owed' = owed
  <2>1. Len(nest') # Len(nest)
    BY <1>5, <1>6
  <2> QED
    BY <2>1, GrowOwes
<1>8. Nested'
  <2>1. \A i \in 1 .. Len(nest') - 1 : nest'[i].kind = "object" /\ nest'[i].items # 0
    <3>1. \A i \in 1 .. Len(nest') - 1 : i \in 1 .. Len(nest) - 1
      BY <1>5, <1>6
    <3> QED
      BY <1>6, <3>1 DEF Nested
  <2>2. nest' # <<>> => nest'[1].kind = "object"
    <3>1. nest' # <<>> => Len(nest) # 1
      BY <1>6
    <3>2. Len(nest) # 1 => 1 \in 1 .. Len(nest) - 1
      <4>1. PICK m \in Nat \ {0} : m = Len(nest)
        BY <1>5
      <4>2. m # 1 => 1 \in 1 .. m - 1
        BY <4>1
      <4> QED
        BY <4>1, <4>2
    <3> QED
      BY <1>1, <1>6, <3>1, <3>2 DEF Nested
  <2>3. Len(nest') <= MaxDepth
    <3>1. PICK m \in Nat : m = Len(nest)
      BY <1>5
    <3>2. m <= MaxDepth => m - 1 <= MaxDepth
      BY <3>1, SizesAssumption
    <3> QED
      BY <1>6, <3>1, <3>2 DEF Nested
  <2> QED
    BY <1>1, <1>6, <2>1, <2>2, <2>3 DEF Nested
<1>9. AtClose'
  <2>1. Ended'
    BY <1>2, <1>4, <1>7, EndedStays
  <2>2. text' = IF in_array' THEN <<"]">> ELSE <<"}">>
    BY <1>1, <1>4, <1>7 DEF Untouched, Closes
  <2>3. CASE Len(nest) = 1
    <3>1. nest' = <<>> /\ key_stack' = <<>>
      BY <1>4, <1>6, <1>7, <2>3 DEF Untouched
    <3>2. ~ in_array'
      BY <1>4, <1>6, <1>7, <2>3 DEF Untouched
    <3> QED
      BY <1>1, <2>1, <2>2, <3>1, <3>2 DEF AtClose
  <2>4. CASE Len(nest) # 1
    <3>1. /\ Last(nest)'.kind = "object" /\ Last(nest)'.items # 0
      <4>1. Len(nest) - 1 \in 1 .. Len(nest) - 1
        <5>1. Len(nest) \in Nat \ {0}
          BY <1>5
        <5> QED
          BY <2>4, <5>1
      <4> QED
        BY <1>6, <2>4, <4>1 DEF Nested
    <3>2. key_stack' # <<>> /\ Front(key_stack') = Around'
      BY <1>4, <1>6, <1>7, <2>4 DEF Untouched, Around, KeysOf
    <3> QED
      BY <1>1, <1>6, <2>1, <2>2, <2>4, <3>1, <3>2 DEF AtClose
  <2> QED
    BY <2>3, <2>4
<1> QED
  BY <1>8, <1>9 DEF Phase

LEMMA GrowStays ==
  ASSUME Types, Nested, Phase, odd = {}, Grow, odd' = {}
  PROVE  Nested' /\ Phase'
<1>1. CASE \E n \in Names : WriteName(n)
  BY <1>1, NameWritten
<1>2. CASE \E s \in Scalars : WriteScalar(s)
  BY <1>2, ScalarWritten
<1>3. CASE Open("object", "{") \/ Open("array", "[")
  BY <1>3, ContainerOpened DEF Opens
<1>4. CASE Close("object", "}") \/ Close("array", "]")
  BY <1>4, ContainerClosed DEF Closes
<1> QED
  BY <1>1, <1>2, <1>3, <1>4 DEF Grow, Write

-----------------------------------------------------------------------------
(* What is odd stays: a plain text has been plain so far.                  *)
LEMMA OddStays ==
  ASSUME [Next]_vars, odd' = {}
  PROVE  odd = {}
<1>1. CASE UNCHANGED vars
  BY <1>1 DEF vars, textVars
<1>2. CASE Parse
  <2>1. UNCHANGED odd
    BY <1>2 DEF Parse, Ignore, Punctuation, Name, OpenObject, OpenArray, BeginString,
         BeginNumber, BeginLiteral, MoreOfValue, EndString, EndNumber, MoreOfLiteral,
         NextValue, CloseObject, CloseArray, Reads, textVars
  <2> QED
    BY <2>1
<1>3. CASE Grow
  <2>1. Write
    BY <1>3 DEF Grow
  <2>2. odd \subseteq odd'
    BY <2>1 DEF Write, WriteName, WriteScalar, Open, Close
  <2> QED
    BY <2>2
<1> QED
  BY <1>1, <1>2, <1>3 DEF Next

LEMMA PlainStep ==
  ASSUME MaxDepth <= StackSize + 1, NamesFit, Types, Plain, BuffersFit, [Next]_vars
  PROVE  Plain'
<1> SUFFICES ASSUME odd' = {} PROVE Nested' /\ Phase'
  BY DEF Plain
<1>1. odd = {} /\ Nested /\ Phase /\ Fits
  BY OddStays DEF Plain, BuffersFit
<1>2. CASE UNCHANGED vars
  BY <1>1, <1>2
  DEF vars, textVars, buffers, nesting, output, Nested, Phase, Settled, Due, InPlace, OwnKey,
      Ended, Inside, Around, InObject, InArray, InValue, NameText, AtStart, NextName, AtName,
      InName, AfterName, Named, AtOpen, ObjectOpened, ArrayOpened, NextElement, AtValue,
      InString, InNumber, InLiteral, ValueEnded, AtClose, TextEnded, StringOf, NumberOf, Spells
<1>3. CASE Parse
  BY <1>1, <1>3, ParseStays
<1>4. CASE Grow
  BY <1>1, <1>4, GrowStays
<1> QED
  BY <1>2, <1>3, <1>4 DEF Next

LEMMA PlainAtFirst == Init => Plain
<1> SUFFICES ASSUME Init PROVE Nested /\ Phase
  BY DEF Plain
<1>1. /\ text = <<"{">> /\ nest = <<Container("object", NoName)>> /\ name = NoName
      /\ state = "START" /\ key_stack = <<>> /\ in_array = FALSE /\ owed = 0
      /\ written = NoPair
  BY DEF Init, TextInit
<1>2. Settled
  <2>1. written.path = <<>>
    BY <1>1 DEF NoPair
  <2> QED
    BY <1>1, <2>1 DEF Settled
<1>3. AtStart
  BY <1>1, <1>2 DEF AtStart
<1>4. Nested
  <2>1. PICK c : c = Container("object", NoName)
    OBVIOUS
  <2>2. c \in Containers /\ c.kind = "object"
    <3>1. c = [kind |-> "object", key |-> NoName, items |-> 0]
      BY <2>1 DEF Container
    <3>2. "object" \in Kinds /\ NoName \in Names \cup {NoName} /\ 0 \in Nat
      BY DEF Kinds
    <3> QED
      BY <3>1, <3>2 DEF Containers
  <2>3. nest = <<c>>
    BY <1>1, <2>1
  <2>4. /\ <<c>> \in Seq(Containers) /\ Len(<<c>>) = 1 /\ <<c>>[1] = c
        /\ \A i \in 1 .. 1 - 1 : FALSE
    <3>1. ASSUME NEW S, NEW d \in S PROVE <<d>> \in Seq(S) /\ Len(<<d>>) = 1 /\ <<d>>[1] = d
      OBVIOUS
    <3>2. \A i \in 1 .. 1 - 1 : FALSE
      OBVIOUS
    <3> QED
      BY <2>2, <3>1, <3>2
  <2>5. 1 <= MaxDepth
    BY SizesAssumption
  <2>6. nest \in Seq(Containers) /\ Len(nest) <= MaxDepth
    BY <2>3, <2>4, <2>5
  <2>7. \A i \in 1 .. Len(nest) - 1 : nest[i].kind = "object" /\ nest[i].items # 0
    BY <2>3, <2>4
  <2>8. nest[1].kind = "object"
    BY <2>2, <2>3, <2>4
  <2> QED
    BY <1>1, <2>6, <2>7, <2>8 DEF Nested
<1> QED
  BY <1>3, <1>4 DEF Phase

-----------------------------------------------------------------------------
(* The buffers and rows: a token of a plain text that fits does not overrun*)
(* its buffer, since it is read from the start of it.                      *)

LEMMA ValueFits ==
  ASSUME TokensFit, Types', InString' \/ InNumber'
  PROVE  Len(val_buffer') < BufferSize
<1>1. val_buffer' \in Seq(Char) /\ text' \in Seq(Char)
  BY DEF Types
<1>2. CASE InString'
  <2>1. PICK w : w = written'.value /\ StringOf(w) /\ Len(val_buffer') <= Len(w)
    BY <1>2 DEF InString, PartRead, StringOf
  <2>2. w \in Seq(Char) /\ Len(w) < BufferSize
    BY <2>1, StringTyped DEF StringOf, TokensFit
  <2>3. PICK k \in Nat, m \in Nat : k = Len(val_buffer') /\ m = Len(w)
    BY <1>1, <2>2
  <2> QED
    BY <2>1, <2>2, <2>3, SizesAssumption
<1>3. CASE InNumber'
  <2>1. PICK s \in Scalars : ~ s.odd /\ SpeltNumber(s) /\ val_buffer' \o text' = s.text
    BY <1>3 DEF InNumber, NumberOf
  <2>2. Len(val_buffer' \o text') < BufferSize
    BY <2>1 DEF TokensFit
  <2>3. Len(val_buffer' \o text') = Len(val_buffer') + Len(text')
    BY <1>1, ConcatProperties
  <2>4. PICK k \in Nat, m \in Nat : k = Len(val_buffer') /\ m = Len(text')
    BY <1>1
  <2>5. k + m < BufferSize
    BY <2>2, <2>3, <2>4
  <2>6. k < BufferSize
    BY <2>4, <2>5, SizesAssumption
  <2> QED
    BY <2>4, <2>6
<1> QED
  BY <1>2, <1>3

LEMMA BuffersFitStep ==
  ASSUME TokensFit, Types, Types', Plain, BuffersFit, [Next]_vars
  PROVE  BuffersFit'
<1> SUFFICES ASSUME odd' = {}
             PROVE  /\ (Len(key_buffer) < BufferSize /\ Len(val_buffer) < BufferSize)'
                    /\ (key_stack \in Seq(Names \cup {NoName}) /\ Len(key_stack) < MaxDepth)'
  BY DEF BuffersFit, Fits
<1>1. /\ Nested /\ Phase /\ Fits
      /\ Len(key_buffer) < BufferSize /\ Len(val_buffer) < BufferSize
  BY OddStays DEF Plain, BuffersFit, Fits
<1>0. key_stack' \in Seq(Names \cup {NoName}) /\ Len(key_stack') < MaxDepth
  <2>1. CASE UNCHANGED key_stack
    BY <1>1, <2>1 DEF Fits
  <2>2. CASE OpenObject \/ OpenArray
    <3>1. Around = Append(key_stack, key_buffer) /\ Len(nest) >= 2
      BY <1>1, <2>2, BracketComes DEF AtOpen
    <3>2. key_stack' \in {key_stack, Around}
      BY <2>2, <3>1 DEF OpenObject, OpenArray, Push
    <3>3. nest # <<>> /\ Len(nest) <= MaxDepth
      BY <1>1, <3>1 DEF Nested
    <3>4. PICK k \in Nat, n \in Nat : k = Len(Around) /\ n = Len(nest)
      BY <1>1, <3>3, AroundLength
    <3>5. k = n - 1 /\ n <= MaxDepth
      BY <1>1, <3>3, <3>4, AroundLength
    <3>6. k < MaxDepth
      BY <3>5, SizesAssumption
    <3> QED
      BY <1>1, <3>2, <3>3, <3>4, <3>6, AroundLength DEF Fits
  <2>3. CASE CloseObject \/ CloseArray
    <3>1. Pop
      BY <2>3 DEF CloseObject, CloseArray
    <3>2. ASSUME NEW S, NEW s \in Seq(S), s # <<>>
          PROVE  Front(s) \in Seq(S) /\ Len(Front(s)) = Len(s) - 1 /\ Len(s) \in Nat
      <4>1. Front(s) = SubSeq(s, 1, Len(s) - 1)
        BY DEF Front
      <4>2. Len(s) \in Nat \ {0}
        BY <3>2
      <4>3. ASSUME NEW n \in 0 .. Len(s)
            PROVE  SubSeq(s, 1, n) \in Seq(S) /\ Len(SubSeq(s, 1, n)) = n
        OBVIOUS
      <4>4. Len(s) - 1 \in 0 .. Len(s)
        BY <4>2
      <4> QED
        BY <4>1, <4>2, <4>3, <4>4
    <3>3. CASE key_stack = <<>>
      BY <1>1, <3>1, <3>3 DEF Pop, Fits
    <3>4. CASE key_stack # <<>>
      <4>1. key_stack' = Front(key_stack)
        BY <3>1, <3>4 DEF Pop
      <4>2. /\ Front(key_stack) \in Seq(Names \cup {NoName})
            /\ Len(Front(key_stack)) = Len(key_stack) - 1 /\ Len(key_stack) \in Nat
        BY <1>1, <3>2, <3>4 DEF Fits
      <4>3. PICK k \in Nat : k = Len(key_stack)
        BY <4>2
      <4>4. k < MaxDepth
        BY <1>1, <4>3 DEF Fits
      <4>5. k - 1 < MaxDepth
        BY <4>4, SizesAssumption
      <4> QED
        BY <4>1, <4>2, <4>3, <4>5
    <3> QED
      BY <3>3, <3>4
  <2>4. \/ OpenObject \/ OpenArray \/ CloseObject \/ CloseArray \/ UNCHANGED key_stack
    BY DEF Next, Parse, Grow, vars, nesting, Ignore, Punctuation, Name, BeginString,
       BeginNumber, BeginLiteral, MoreOfValue, EndString, EndNumber, MoreOfLiteral,
       NextValue, Prints
  <2> QED
    BY <2>1, <2>2, <2>3, <2>4
<1>2. CASE Name
  <2>1. InName' /\ UNCHANGED <<name, val_buffer>>
    BY <1>1, <1>2, NameStays DEF Name, Reads
  <2>2. Len(key_buffer') <= Len(name) /\ name \in Names
    BY <1>1, <2>1 DEF InName, PartRead, Nested
  <2>3. PICK k \in Nat, m \in Nat : k = Len(key_buffer') /\ m = Len(name)
    <3>1. key_buffer' \in Seq(Char) /\ name \in Seq(STRING)
      BY <2>2, TextAssumption DEF Types, Unquoted
    <3> QED
      BY <3>1
  <2>4. m < BufferSize
    BY <2>2, <2>3 DEF TokensFit
  <2>5. Len(key_buffer') < BufferSize
    BY <2>2, <2>3, <2>4, SizesAssumption
  <2> QED
    BY <1>0, <1>1, <2>1, <2>5
<1>3. CASE BeginString \/ BeginNumber
  <2>1. InString' \/ InNumber'
    <3>1. state' \notin LiteralStates
      BY <1>3 DEF BeginString, BeginNumber, Reads, LiteralStates
    <3>2. InString' \/ InNumber' \/ InLiteral'
      BY <1>1, <1>3, BeginStays
    <3>3. InLiteral' => state' \in LiteralStates
      BY LiteralLengths DEF InLiteral
    <3> QED
      BY <3>1, <3>2, <3>3
  <2>2. UNCHANGED key_buffer
    BY <1>3 DEF BeginString, BeginNumber
  <2> QED
    BY <1>0, <1>1, <2>1, <2>2, ValueFits
<1>4. CASE MoreOfValue
  <2>1. InString' \/ InNumber'
    BY <1>1, <1>4, MoreOfValueStays
  <2>2. UNCHANGED key_buffer
    BY <1>4 DEF MoreOfValue
  <2> QED
    BY <1>0, <1>1, <2>1, <2>2, ValueFits
<1>5. CASE UNCHANGED <<key_buffer, val_buffer>>
  BY <1>0, <1>1, <1>5
<1>6. \/ Name \/ BeginString \/ BeginNumber \/ MoreOfValue
      \/ UNCHANGED <<key_buffer, val_buffer>>
  BY DEF Next, Parse, Grow, vars, buffers, Ignore, Punctuation, OpenObject, OpenArray,
         BeginLiteral, EndString, EndNumber, MoreOfLiteral, NextValue, CloseObject, CloseArray
<1> QED
  BY <1>0, <1>2, <1>3, <1>4, <1>5, <1>6

(* The parser is in the phase of a plain text that the text is in, and     *)
(* within its arrays, if all tokens fit the buffers and there is at most   *)
(* one level more than key_stack has rows (the root has no row).           *)
THEOREM PlainInvariant ==
  ASSUME MaxDepth <= StackSize + 1, TokensFit, NamesFit
  PROVE  Spec => [](Plain /\ BuffersFit)
<1>1. Init => Plain /\ BuffersFit
  <2> SUFFICES ASSUME Init PROVE Fits
    BY PlainAtFirst DEF BuffersFit
  <2>1. Len(key_buffer) = 0 /\ Len(val_buffer) = 0 /\ key_stack = <<>>
    BY DEF Init
  <2>2. 0 < BufferSize /\ 0 < MaxDepth
    BY SizesAssumption
  <2>3. <<>> \in Seq(Names \cup {NoName}) /\ Len(<<>>) = 0
    OBVIOUS
  <2> QED
    BY <2>1, <2>2, <2>3 DEF Fits
<1>2. Types /\ Types' /\ Plain /\ BuffersFit /\ [Next]_vars => Plain' /\ BuffersFit'
  BY PlainStep, BuffersFitStep
<1> QED
  BY <1>1, <1>2, TypesInvariant, PTL DEF Spec

LEMMA PlainSaysSo ==
  ASSUME Types, Plain
  PROVE  KeysNameValues
<1> SUFFICES ASSUME odd = {}
             PROVE  /\ state \notin {"FAILED", "UNDEFINED"}
                    /\ text = <<>> /\ state # "VALUE_NUMBER" =>
                         /\ owed = 0
                         /\ written.path # <<>> =>
                              printed = [path |-> KeyShown(written.path), value |-> written.value]
                         /\ nest # <<>> =>
                              key_stack = [i \in 1 .. Len(nest) - 1 |-> nest[i + 1].key]
  BY DEF KeysNameValues
<1>1. Nested /\ Phase
  BY DEF Plain
<1>2. state \notin {"FAILED", "UNDEFINED"}
  BY <1>1, Selected
<1>3. ASSUME text = <<>>, state # "VALUE_NUMBER"
      PROVE  Settled /\ (nest # <<>> => key_stack = Around)
  <2>1. Named \/ ObjectOpened \/ ArrayOpened \/ ValueEnded \/ TextEnded
    BY <1>1, <1>3, AllRead DEF InNumber
  <2> QED
    BY <2>1 DEF Named, ObjectOpened, ArrayOpened, ValueEnded, TextEnded, InObject, InArray
<1> QED
  BY <1>2, <1>3 DEF Settled, Around

(* KeysNameValues: of a plain text every value is printed once, by the END *)
(* cases of main and get_key, under its fully qualified key but for the    *)
(* elements of arrays below the root's members, whose keys are cut.  For   *)
(* any names and values that fit the arrays of the parser, and any depth   *)
(* key_stack has rows for.                                                 *)
THEOREM PlainTextsAreShown ==
  ASSUME MaxDepth <= StackSize + 1, TokensFit, NamesFit
  PROVE  Spec => []KeysNameValues
<1>1. Types /\ Plain => KeysNameValues
  BY PlainSaysSo
<1> QED
  BY <1>1, TypesInvariant, PlainInvariant, PTL

(* TypeOK: the rows of key_stack are never exceeded, by any text (UNDEFINED *)
(* is where main would), and no token of a plain text that fits overruns   *)
(* its buffer.                                                             *)
THEOREM TypesAndBuffers ==
  ASSUME MaxDepth <= StackSize + 1, TokensFit, NamesFit
  PROVE  Spec => []TypeOK
<1>1. Types /\ BuffersFit => TypeOK
  BY AllStates DEF Types, BuffersFit, Fits, TypeOK
<1> QED
  BY <1>1, TypesInvariant, PlainInvariant, PTL

-----------------------------------------------------------------------------
(* The end of the text, any text.  That it is reached under fairness rests *)
(* on two facts: the machine knows a step for every character, and each    *)
(* step leaves less to do.                                                 *)

(* The state and the character are those of one of the actions of Parse.   *)
KnowsCharacter ==
  \/ \E s \in DOMAIN Expected : At(s, Range(text) \ Expected[s])
  \/ At("START", {"{"}) \/ At("KEY_BEGIN", {Quote}) \/ At("KEY_END", {":"})
  \/ At("KEY", {Quote}) \/ At("KEY", AllBut(Quote))
  \/ At("VALUE_BEGIN", {"{"}) \/ At("VALUE_BEGIN", {"["}) \/ At("VALUE_BEGIN", {Quote})
  \/ At("VALUE_BEGIN", Digits \cup {"-", "."})
  \/ \E l \in DOMAIN Literal : At("VALUE_BEGIN", {Literal[l][1]})
  \/ At("VALUE_STRING", {Quote}) \/ At("VALUE_STRING", AllBut(Quote))
  \/ At("VALUE_NUMBER", Digits \cup {"."}) \/ At("VALUE_NUMBER", NoPart)
  \/ \E l \in DOMAIN Literal :
       /\ literal_index + 1 \in DOMAIN Literal[l]
       /\ LET expected == Literal[l][literal_index + 1]
          IN  At(l, {expected}) \/ At(l, AllBut(expected))
  \/ At("VALUE_END", {","}) \/ At("VALUE_END", {"}"}) \/ At("VALUE_END", {"]"})

(* Nothing stops the machine within a text but a literal that is misspelled*)
(* and a row that key_stack does not have.                                 *)
THEOREM EveryCharacterKnown ==
  Spec => [](text # <<>> /\ state \notin {"FAILED", "UNDEFINED"} => KnowsCharacter)
<1>1. ASSUME Types, text # <<>>, state \notin {"FAILED", "UNDEFINED"}
      PROVE  KnowsCharacter
  <2>1. Head(text) \in Range(text)
    BY <1>1, HeadTail DEF Types, Range
  <2>2. CASE state \in LiteralStates
    <3>1. /\ state \in DOMAIN Literal /\ literal_index \in 1 .. Len(Literal[state]) - 1
          /\ Literal[state] \in Seq(Char)
      BY <1>1, <2>2, LiteralLengths DEF Types
    <3>2. literal_index + 1 \in DOMAIN Literal[state]
      BY <3>1
    <3> QED
      BY <1>1, <2>1, <3>1, <3>2 DEF KnowsCharacter, At, AllBut
  <2>3. CASE state \in {"START", "KEY_BEGIN", "KEY_END", "VALUE_END", "DONE"}
    <3>1. state \in DOMAIN Expected
      BY <2>3 DEF Expected
    <3>2. /\ Expected["START"] = {"{"}
          /\ Expected["KEY_BEGIN"] = {Quote}
          /\ Expected["KEY_END"] = {":"}
          /\ Expected["VALUE_END"] = {",", "}", "]"}
          /\ Expected["DONE"] = {}
      BY DEF Expected
    <3> QED
      BY <1>1, <2>1, <2>3, <3>1, <3>2 DEF KnowsCharacter, At
  <2>4. CASE state = "VALUE_BEGIN"
    <3>1. /\ "VALUE_BEGIN" \in DOMAIN Expected
          /\ Expected["VALUE_BEGIN"] =
               {"{", "[", Quote, "-", ".", "t", "f", "n"} \cup Digits
      BY DEF Expected
    <3>2. \A c \in {"t", "f", "n"} : \E l \in DOMAIN Literal : Literal[l][1] = c
      BY FirstLetters DEF Literal
    <3> QED
      BY <1>1, <2>1, <2>4, <3>1, <3>2 DEF KnowsCharacter, At
  <2>5. CASE state \in {"KEY", "VALUE_STRING", "VALUE_NUMBER"}
    BY <1>1, <2>1, <2>5 DEF KnowsCharacter, At, AllBut, NoPart
  <2> QED
    BY <1>1, <2>2, <2>3, <2>4, <2>5 DEF Types, OtherStates
<1> QED
  BY <1>1, TypesInvariant, PTL

(* Characters to be read, and those to be read again.                      *)
Unread == 2 * Len(text) + (IF state = "VALUE_NUMBER" THEN 1 ELSE 0)

TextShortensStep == Unread \in Nat /\ (Parse => Unread' < Unread)
TextShortens == [][TextShortensStep]_vars

(* The character after a number is read twice and no other, whatever the   *)
(* text: main's loop, which steps back there, comes to the end of it.      *)
THEOREM TextAlwaysShortens == Spec => TextShortens
<1>1. Types => Len(text) \in Nat /\ Unread \in Nat
  BY DEF Types, Unread
<1>2. ASSUME Types, NEW s, NEW chars, NEW t, Reads(s, chars, t)
      PROVE  Unread' < Unread
  <2>1. text # <<>> /\ text' = Tail(text)
    BY <1>2 DEF Reads, At
  <2>2. Len(text') = Len(text) - 1
    BY <1>2, <2>1, HeadTail DEF Types
  <2> QED
    BY <1>1, <1>2, <2>2 DEF Unread
<1>3. ASSUME Types, EndNumber PROVE Unread' < Unread
  BY <1>1, <1>3 DEF EndNumber, At, Within, AfterValue, textVars, Unread
<1>4. ASSUME Types, Parse, ~ EndNumber PROVE \E s, chars, t : Reads(s, chars, t)
  BY <1>4 DEF Parse, Ignore, Punctuation, Name, OpenObject, OpenArray, BeginString,
     BeginNumber, BeginLiteral, MoreOfValue, EndString, MoreOfLiteral, NextValue,
     CloseObject, CloseArray
<1>5. Types /\ [Next]_vars => [TextShortensStep]_vars
  BY <1>1, <1>2, <1>3, <1>4 DEF TextShortensStep
<1>6. TextShortens <=> [][TextShortensStep]_vars
  BY DEF TextShortens
<1> QED
  BY <1>5, <1>6, TypesInvariant, PTL DEF Spec
=============================================================================
