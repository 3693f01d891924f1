----------------------------- MODULE MCPrograms -----------------------------
(***************************************************************************)
(* ELF files with a header of two words, a table of up to three words      *)
(* after it, and data; formats of up to four characters; dumped files of  *)
(* up to four bytes, on both sides of 128 and of the printable ones.       *)
(***************************************************************************)
EXTENDS Programs, Sequences, SequencesExt

Phdr(kind, at, vaddr, filesz, memsz) ==
  [type |-> kind, offset |-> at, vaddr |-> vaddr, filesz |-> filesz, memsz |-> memsz]

Loads == {Phdr("LOAD", 5, v, f, m) : v \in {1, 3, 14}, f \in 0 .. 2, m \in 0 .. 2}
           \cup {Phdr("LOAD", 6, 2, 1, 3), Phdr("LOAD", 9, 1, 1, 2)}

Others ==
  {Phdr("INTERP", 5, 0, 2, 2), Phdr("INTERP", 5, 0, 15, 15), Phdr("NOTE", 5, 3, 1, 1)}

Tables ==
  {<<>>} \cup {<<p>> : p \in Loads \cup Others} \cup {<<p, q>> : p, q \in Loads}
    \cup {<<p, q, r>> : p \in Loads, q \in Others, r \in {Phdr("LOAD", 6, 2, 1, 3), Phdr("LOAD", 5, 14, 1, 2)}}

File(length, good, phdrs) ==
  [length |-> length, good |-> good, phoff |-> 2, phdrs |-> phdrs, entry |-> 3]

Good == {"magic", "machine", "version", "phentsize"}

Small == <<Phdr("LOAD", 5, 1, 2, 2)>>

MCFiles ==
  {File(n, Good, t) : n \in {6, 8}, t \in Tables}
    \cup {File(n, Good, Small) : n \in 0 .. 5}
    \cup {File(8, Good \ {c}, Small) : c \in Good}
    \cup {[File(8, Good, Small) EXCEPT !.phoff = 9]}

Fewer(set, n) == UNION {[1 .. k -> set] : k \in 0 .. n}

\* a letter, %, and the letters of the conversions
MCFormats == Fewer({97, 37, 99, 100, 115}, 4)
MCStrings == {<<>>, <<97, 37>>}
MCChars == {97}

MCDumped == Fewer({31, 32, 126, 127, 128, 255}, 4)
=============================================================================
