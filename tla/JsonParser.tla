----------------------------- MODULE JsonParser -----------------------------
(***************************************************************************)
(* json-parser/jparse.c: a machine that takes one character at a time and  *)
(* prints each value with a key made from the names on its stack.          *)
(* key_depth is the length of key_stack.                                   *)
(***************************************************************************)
EXTENDS JsonText

CONSTANTS
  StackSize,    (* the rows of key_stack                                   *)
  BufferSize,   (* of key_buffer, val_buffer and a row: 256 in the code    *)
  FullKeySize,  (* of full_key: 512 in the code                            *)
  IndexSize,    (* bound: the characters of an index in its brackets       *)
  IntMax,       (* the largest int                                         *)
  FloatExact    (* hundredths up to which %.2f shows a float as written:   *)
                (* 2^23, where neighbouring floats are 1/128 apart         *)

VARIABLES
  state,
  key_buffer, val_buffer, literal_index,
  key_stack, in_array, array_index,
  printed,     (* the last pair that was printed, while odd = {}           *)
  owed         (* history: values written and not printed, while odd = {}  *)

buffers == <<key_buffer, val_buffer, literal_index>>
nesting == <<key_stack, in_array, array_index>>
output == <<printed, owed>>
vars == <<textVars, state, buffers, nesting, output>>

Literal ==
  [VALUE_TRUE |-> <<"t", "r", "u", "e">>,
   VALUE_FALSE |-> <<"f", "a", "l", "s", "e">>,
   VALUE_NULL |-> <<"n", "u", "l", "l">>]

Digit == [i \in {"0", "1", "2"} |-> CASE i = "0" -> 0 [] i = "1" -> 1 [] i = "2" -> 2]
Digits == DOMAIN Digit

(* What is printed of a number, in hundredths.  atoi and %d show an int as *)
(* it is written; strtof, which rounds to a float, and %.2f, which rounds  *)
(* to two places, a number with at most two places that is not too large.  *)
(* Of all others something else is shown.                                  *)
Inexact == <<"#">>
Number(chars) ==
  LET points == {i \in DOMAIN chars : chars[i] = "."}
      places == IF points = {} THEN 0 ELSE Len(chars) - Min(points)
      digits == SelectSeq(chars, LAMBDA c : c \in Digits)
      size == FoldLeft(LAMBDA n, c : 10 * n + Digit[c], 0, digits)
      hundredths == size * 10^(2 - places)
      exact == \/ points = {} /\ size <= IntMax
               \/ Cardinality(points) = 1 /\ places <= 2 /\ hundredths <= FloatExact
  IN  IF exact THEN <<"#", IF chars[1] = "-" THEN -hundredths ELSE hundredths>> ELSE Inexact

(* How names are spelled, and the strings, numbers and literals that are   *)
(* not odd.  No name is empty.                                             *)
Unquoted(w) == w \in Seq(STRING) /\ \A i \in DOMAIN w : w[i] # Quote

SpeltString(s) ==
  /\ s.text[1] = Quote
  /\ s.text = <<Quote>> \o s.shown \o <<Quote>>
  /\ Unquoted(s.shown)

SpeltNumber(s) ==
  /\ s.text[1] \in Digits \cup {"-", "."}
  /\ \A i \in 2 .. Len(s.text) : s.text[i] \in Digits \cup {"."}
  /\ s.shown = Number(s.text) /\ s.shown # Inexact

SpeltLiteral(s) ==
  \E l \in DOMAIN Literal : s.text = Literal[l] /\ s.shown = Literal[l]

ASSUME TextAssumption ==
  /\ \A n \in Names : Unquoted(n) /\ n # NoName /\ n[1] # "[]"
  /\ \A s \in Scalars :
       /\ s.text \in Seq(STRING) /\ s.text # <<>>
       /\ s.odd \/ SpeltString(s) \/ SpeltNumber(s) \/ SpeltLiteral(s)

(* A row and an index have room in full_key.                               *)
ASSUME SizesAssumption ==
  /\ MaxDepth \in Nat \ {0} /\ StackSize \in Nat /\ BufferSize \in Nat \ {0}
  /\ IndexSize \in Nat /\ FullKeySize \in Nat /\ BufferSize + IndexSize <= FullKeySize

(* The characters each state does not ignore.  STATE_KEY and the states    *)
(* inside a value take them all.                                           *)
Expected ==
  [START |-> {"{"}, KEY_BEGIN |-> {Quote}, KEY_END |-> {":"},
   VALUE_BEGIN |-> {"{", "[", Quote, "-", ".", "t", "f", "n"} \cup Digits,
   VALUE_END |-> {",", "}", "]"}, DONE |-> {}]

(* "FAILED": main has returned 1.  "UNDEFINED": an array was used outside  *)
(* its bounds.                                                             *)
States ==
  DOMAIN Expected \cup DOMAIN Literal
    \cup {"KEY", "VALUE_STRING", "VALUE_NUMBER", "FAILED", "UNDEFINED"}

Init ==
  /\ TextInit
  /\ state = "START"
  /\ key_buffer = <<>> /\ val_buffer = <<>> /\ literal_index = 0
  /\ key_stack = <<>> /\ in_array = FALSE /\ array_index = 0
  /\ printed = NoPair
  /\ owed = 0

-----------------------------------------------------------------------------
(* One character: in state s one of chars is taken, and state t is next.   *)
At(s, chars) == text # <<>> /\ state = s /\ Head(text) \in chars

Reads(s, chars, t) ==
  /\ At(s, chars)
  /\ state' = t
  /\ text' = Tail(text)
  /\ UNCHANGED <<nest, name, written, odd>>

AllBut(c) == Range(text) \ {c}

(* The state after a write to a buffer, which main does without a look at  *)
(* its size: of a next character, or of the 0 at the end.                  *)
Within(buffer, t) == IF Len(buffer) < BufferSize THEN t ELSE "UNDEFINED"

Ignore ==
  /\ \E s \in DOMAIN Expected : Reads(s, Range(text) \ Expected[s], s)
  /\ UNCHANGED <<buffers, nesting, output>>

(* The outermost brace, and the punctuation around a name.                 *)
Punctuation ==
  /\ \/ Reads("START", {"{"}, "KEY_BEGIN")
     \/ Reads("KEY", {Quote}, Within(key_buffer, "KEY_END"))
     \/ Reads("KEY_END", {":"}, "VALUE_BEGIN")
  /\ UNCHANGED <<buffers, nesting, output>>

Name ==
  /\ \/ Reads("KEY_BEGIN", {Quote}, "KEY") /\ key_buffer' = <<>>
     \/ /\ Reads("KEY", AllBut(Quote), Within(key_buffer, "KEY"))
        /\ key_buffer' = Append(key_buffer, Head(text))
  /\ UNCHANGED <<val_buffer, literal_index, nesting, output>>

(* strcpy(key_stack[key_depth++], key_buffer), whatever key_depth is.      *)
Full == Len(key_stack) = StackSize
Push == key_stack' = IF Full THEN key_stack ELSE Append(key_stack, key_buffer)

OpenObject ==
  /\ Reads("VALUE_BEGIN", {"{"}, IF Full THEN "UNDEFINED" ELSE "KEY_BEGIN")
  /\ Push
  /\ UNCHANGED <<buffers, in_array, array_index, output>>

(* Faulty variant: the index of an earlier array is carried on.            *)
OpenArrayCountingOn ==
  /\ Reads("VALUE_BEGIN", {"["}, IF Full THEN "UNDEFINED" ELSE "VALUE_BEGIN")
  /\ Push
  /\ in_array' = TRUE
  /\ UNCHANGED <<buffers, array_index, output>>
OpenArray ==
  /\ Reads("VALUE_BEGIN", {"["}, IF Full THEN "UNDEFINED" ELSE "VALUE_BEGIN")
  /\ Push
  /\ in_array' = TRUE
  /\ array_index' = 0
  /\ UNCHANGED <<buffers, output>>

(* Faulty variant: val_index is not set to 0 for a string.                 *)
BeginStringAppending ==
  /\ Reads("VALUE_BEGIN", {Quote}, "VALUE_STRING")
  /\ UNCHANGED <<buffers, nesting, output>>
BeginString ==
  /\ Reads("VALUE_BEGIN", {Quote}, "VALUE_STRING")
  /\ val_buffer' = <<>>
  /\ UNCHANGED <<key_buffer, literal_index, nesting, output>>

BeginNumber ==
  /\ Reads("VALUE_BEGIN", Digits \cup {"-", "."}, "VALUE_NUMBER")
  /\ val_buffer' = <<Head(text)>>
  /\ UNCHANGED <<key_buffer, literal_index, nesting, output>>

BeginLiteral ==
  /\ \E l \in DOMAIN Literal : Reads("VALUE_BEGIN", {Literal[l][1]}, l)
  /\ literal_index' = 1
  /\ UNCHANGED <<key_buffer, val_buffer, nesting, output>>

MoreOfValue ==
  /\ \/ Reads("VALUE_STRING", AllBut(Quote), Within(val_buffer, "VALUE_STRING"))
     \/ Reads("VALUE_NUMBER", Digits \cup {"."}, Within(val_buffer, "VALUE_NUMBER"))
  /\ val_buffer' = Append(val_buffer, Head(text))
  /\ UNCHANGED <<key_buffer, literal_index, nesting, output>>

(* The key: the row on top of the stack and the index in an array, else    *)
(* all rows and the name of the member.                                    *)
Key ==
  IF in_array THEN <<Last(key_stack), Index(array_index)>>
  ELSE Append(key_stack, key_buffer)

(* What get_key writes to full_key: of each row its characters and a dot,  *)
(* of the name its characters and a 0.                                     *)
KeyBytes ==
  LET rows == Append(key_stack, key_buffer)
  IN  UNION {{r} \X (1 .. Len(rows[r]) + 1) : r \in DOMAIN rows}

(* printf at the end of a value.  In an array without a row, key_stack is  *)
(* read at index -1; else get_key uses strcat whatever the room.           *)
AfterValue ==
  IF IF in_array THEN key_stack # <<>> ELSE Cardinality(KeyBytes) <= FullKeySize
    THEN "VALUE_END" ELSE "UNDEFINED"

Prints(value) ==
  /\ printed' = IF odd = {} THEN [path |-> Key, value |-> value] ELSE NoPair
  /\ owed' = IF odd = {} THEN owed - 1 ELSE 0
  /\ array_index' = IF in_array THEN array_index + 1 ELSE array_index
  /\ UNCHANGED <<key_stack, in_array>>

EndString ==
  /\ Reads("VALUE_STRING", {Quote}, Within(val_buffer, AfterValue))
  /\ Prints(val_buffer)
  /\ UNCHANGED buffers

(* The character after a number is read once more, in the next state.      *)
(* Faulty variants: it is lost; the state stays what it was.               *)
NoPart == Range(text) \ (Digits \cup {"."})
EndNumberConsumes ==
  /\ Reads("VALUE_NUMBER", NoPart, Within(val_buffer, AfterValue))
  /\ Prints(Number(val_buffer))
  /\ UNCHANGED buffers
EndNumberStays ==
  /\ At("VALUE_NUMBER", NoPart)
  /\ UNCHANGED vars
EndNumber ==
  /\ At("VALUE_NUMBER", NoPart)
  /\ state' = Within(val_buffer, AfterValue)
  /\ Prints(Number(val_buffer))
  /\ UNCHANGED <<textVars, buffers>>

MoreOfLiteral ==
  /\ \E l \in DOMAIN Literal :
       LET expected == Literal[l][literal_index + 1]
           last == literal_index + 1 = Len(Literal[l])
       IN  \/ /\ Reads(l, {expected}, IF last THEN AfterValue ELSE l)
              /\ literal_index' = literal_index + 1
              /\ IF last THEN Prints(Literal[l]) ELSE UNCHANGED <<nesting, output>>
           \/ /\ Reads(l, AllBut(expected), "FAILED")
              /\ UNCHANGED <<literal_index, nesting, output>>
  /\ UNCHANGED <<key_buffer, val_buffer>>

NextValue ==
  /\ Reads("VALUE_END", {","}, IF in_array THEN "VALUE_BEGIN" ELSE "KEY_BEGIN")
  /\ UNCHANGED <<buffers, nesting, output>>

Pop == key_stack' = IF key_stack = <<>> THEN <<>> ELSE Front(key_stack)

CloseObject ==
  /\ Reads("VALUE_END", {"}"}, IF key_stack = <<>> THEN "DONE" ELSE "VALUE_END")
  /\ Pop
  /\ UNCHANGED <<buffers, in_array, array_index, output>>

CloseArray ==
  /\ Reads("VALUE_END", {"]"}, "VALUE_END")
  /\ Pop
  /\ in_array' = FALSE
  /\ UNCHANGED <<buffers, array_index, output>>

-----------------------------------------------------------------------------
Parse ==
  \/ Ignore \/ Punctuation \/ Name \/ OpenObject \/ OpenArray
  \/ BeginString \/ BeginNumber \/ BeginLiteral \/ MoreOfValue
  \/ EndString \/ EndNumber \/ MoreOfLiteral
  \/ NextValue \/ CloseObject \/ CloseArray

(* The file is written before the program runs; here it grows as it is     *)
(* read.                                                                   *)
Grow ==
  /\ state \notin {"FAILED", "UNDEFINED"}
  /\ Write
  /\ owed' = CASE odd' # {} -> 0
               [] odd' = {} /\ nest' # nest /\ Len(nest') = Len(nest) -> owed + 1
               [] OTHER -> owed
  /\ UNCHANGED <<state, buffers, nesting, printed>>

Next == Parse \/ Grow

Spec == Init /\ [][Next]_vars

FairSpec == Spec /\ WF_vars(Parse)

-----------------------------------------------------------------------------
(* Types, and room in the two buffers for every token of a plain text.     *)
TypeOK ==
  /\ state \in States
  /\ Len(key_stack) <= StackSize
  /\ literal_index \in 0 .. 5
  /\ array_index \in Nat /\ in_array \in BOOLEAN
  /\ odd = {} => Len(key_buffer) < BufferSize /\ Len(val_buffer) < BufferSize

(* README.md:13 promises fully qualified keys: all names and indices that  *)
(* lead to a value.  The promise is not kept for the elements of an array  *)
(* below the members of the root: of {"user": {"tags": ["x"]}} the key is  *)
(* tags[0], the array's name and the index alone.                          *)
Unqualified(path) == Len(path) > 2 /\ Last(path)[1] = "[]"
KeyShown(path) ==
  IF Unqualified(path) THEN SubSeq(path, Len(path) - 1, Len(path)) ELSE path

(* A plain text, one without the oddities, comes out value by value: when  *)
(* all that is written is read, every value has been printed once, the     *)
(* last one under its fully qualified key or, where the promise is not     *)
(* kept, what is left of it; and key_stack names the open containers.      *)
KeysNameValues ==
  odd = {} =>
    /\ state \notin {"FAILED", "UNDEFINED"}
    /\ text = <<>> /\ state # "VALUE_NUMBER" =>
         /\ owed = 0
         /\ written.path # <<>> =>
              printed = [path |-> KeyShown(written.path), value |-> written.value]
         /\ nest # <<>> => key_stack = [i \in 1 .. Len(nest) - 1 |-> nest[i + 1].key]

(* Every character that is written is read in the end, whatever the text,  *)
(* unless the parser has given up: a character that is read again is not   *)
(* read for ever.                                                          *)
ReadsToEnd ==
  text # <<>> ~> \/ text = <<>>
                 \/ state \in {"FAILED", "UNDEFINED"}
=============================================================================
