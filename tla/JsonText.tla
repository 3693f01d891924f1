------------------------------ MODULE JsonText ------------------------------
(***************************************************************************)
(* The file json-parser reads: a JSON text that is written as it is read,  *)
(* one name or value at a time, so that all texts within the bounds occur. *)
(* A character is a string of length one, a name or a value a sequence of  *)
(* characters.  The root is an object.                                     *)
(***************************************************************************)
EXTENDS Integers, FiniteSets, SequencesExt

CONSTANTS
  Names,      (* names of members                                          *)
  Scalars,    (* the strings, numbers and literals that occur: records     *)
              (* [text, shown, odd]: what is in the file, what it stands   *)
              (* for, and whether its spelling is one of Oddities          *)
  MaxDepth,   (* bound: containers inside each other, with the root        *)
  MaxItems,   (* bound: members or elements of a container                 *)
  MaxOdd      (* bound: oddities in one text                               *)

Quote == "\""

VARIABLES
  text,       (* what is written and not read yet                          *)
  nest,       (* the containers that are open, innermost last              *)
  name,       (* of the member whose value comes next, or NoName           *)
  written,    (* the last value: its path from the root and its contents;  *)
              (* forgotten when odd is no longer empty                     *)
  odd         (* what has occurred so far: subset of Oddities              *)

textVars == <<text, nest, name, written, odd>>

NoName == <<>>
NoPair == [path |-> <<>>, value |-> <<>>]

(* An empty container, a container that is an element of an array, a string*)
(* whose end the parser does not see, and a number that is not printed as  *)
(* it is written.                                                          *)
Oddities == {"empty", "inner", "spelling"}

Container(kind, key) == [kind |-> kind, key |-> key, items |-> 0]

TextInit ==
  /\ text = <<"{">>
  /\ nest = <<Container("object", NoName)>>
  /\ name = NoName
  /\ written = NoPair
  /\ odd = {}

-----------------------------------------------------------------------------
Inside(kind) == nest # <<>> /\ Last(nest).kind = kind

Comma == IF Last(nest).items = 0 THEN <<>> ELSE <<",">>

Room == Last(nest).items < MaxItems

(* The name or index of the next value in its container, and the names of  *)
(* the containers around it.  "[]" is no character, so no name is an index.*)
Index(i) == <<"[]", i>>
Own == IF Inside("array") THEN Index(Last(nest).items) ELSE name
Around == [i \in 1 .. Len(nest) - 1 |-> nest[i + 1].key]

OneMore == [nest EXCEPT ![Len(nest)].items = @ + 1]

WriteName(n) ==
  /\ text = <<>>
  /\ Inside("object") /\ name = NoName /\ Room
  /\ text' = Comma \o <<Quote>> \o n \o <<Quote, ":">>
  /\ name' = n
  /\ UNCHANGED <<nest, written, odd>>

(* A value has a name before it in an object, and a comma in an array.     *)
ValueComes ==
  /\ text = <<>>
  /\ name # NoName \/ (Inside("array") /\ Room)
  /\ name' = NoName

WriteScalar(s) ==
  /\ ValueComes
  /\ text' = (IF Inside("array") THEN Comma ELSE <<>>) \o s.text
  /\ nest' = OneMore
  /\ odd' = IF s.odd THEN odd \cup {"spelling"} ELSE odd
  /\ written' = IF odd' = {} THEN [path |-> Append(Around, Own), value |-> s.shown] ELSE NoPair

Open(kind, bracket) ==
  /\ ValueComes
  /\ Len(nest) < MaxDepth
  /\ text' = (IF Inside("array") THEN Comma ELSE <<>>) \o <<bracket>>
  /\ nest' = Append(OneMore, Container(kind, Own))
  /\ odd' = IF Inside("array") THEN odd \cup {"inner"} ELSE odd
  /\ written' = IF odd' = {} THEN written ELSE NoPair

Close(kind, bracket) ==
  /\ text = <<>>
  /\ Inside(kind) /\ name = NoName
  /\ text' = <<bracket>>
  /\ nest' = Front(nest)
  /\ odd' = IF Last(nest).items = 0 THEN odd \cup {"empty"} ELSE odd
  /\ written' = IF odd' = {} THEN written ELSE NoPair
  /\ UNCHANGED name

Write ==
  /\ \/ \E n \in Names : WriteName(n)
     \/ \E s \in Scalars : WriteScalar(s)
     \/ Open("object", "{") \/ Open("array", "[")
     \/ Close("object", "}") \/ Close("array", "]")
  /\ Cardinality(odd') <= MaxOdd
=============================================================================
