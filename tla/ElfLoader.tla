------------------------------ MODULE ElfLoader ------------------------------
(***************************************************************************)
(* ELF-loader/elfload.c: main, one step for each call that can fail.  No   *)
(* two bytes of a file are alike: a byte is its position.                  *)
(***************************************************************************)
EXTENDS Integers, Sequences, SequencesExt

CONSTANTS
  Files,        (* the files that occur: records [length, good, phoff,     *)
                (* phdrs, entry], with good a subset of Checks and phdrs a *)
                (* sequence of [type, offset, vaddr, filesz, memsz]        *)
  IdentSize, HeaderSize, PhdrSize,
  Words         (* of the address space, and values of a field of 64 bits; *)
                (* additions wrap                                          *)

VARIABLES
  file,        (* the one that is named on the command line                *)
  pc, exit,
  fd, pos,     (* whether the descriptor is open, and where it stands      *)
  i,           (* the loop counter                                         *)
  heap,        (* the blocks that are allocated                            *)
  segments,    (* load_segments, with the bytes of each                    *)
  answers      (* the translations that are printed                        *)

vars == <<file, pc, exit, fd, pos, i, heap, segments, answers>>

Checks == {"magic", "machine", "version", "phentsize"}

(* The blocks: the table, the name of the interpreter, and one for each    *)
(* header that is loaded.                                                  *)
Table == <<"phdrs", 0>>
Interp == <<"interp", 0>>
Segment(k) == <<"segment", k>>

Running == 2
NoHost == <<>>
Zero == -1
Junk == -2     (* what malloc leaves in a block                            *)

phnum == Len(file.phdrs)
phdr == file.phdrs[i]

Init ==
  /\ file \in Files
  /\ pc = "open" /\ exit = Running
  /\ fd = "closed" /\ pos = 0 /\ i = 1
  /\ heap = {} /\ segments = <<>> /\ answers = <<>>

-----------------------------------------------------------------------------
(* return 1 after close and the frees of the error path.                   *)
Fail(blocks) ==
  /\ pc' = "done" /\ exit' = 1
  /\ fd' = "closed"
  /\ heap' = heap \ blocks
  /\ UNCHANGED <<file, pos, i, segments, answers>>

Goes(s, t) == pc = s /\ pc' = t /\ UNCHANGED <<file, exit>>

Open ==
  /\ pc = "open"
  /\ \/ /\ Goes("open", "ident")
        /\ fd' = "open"
        /\ UNCHANGED <<pos, i, heap, segments, answers>>
     \/ Fail({})

(* off_t and ssize_t are signed: the upper half of the words is negative   *)
(* to lseek and read, which fail.  Nobody looks at what lseek returns, and *)
(* pos stays where it was.                                                 *)
Negative(word) == 2 * word >= Words
Seek(offset) == IF Negative(offset) THEN pos ELSE offset

(* read gives all it is asked for, or less at the end of the file, or -1.  *)
Available(size) == pos + size <= file.length

ReadIdent ==
  /\ pc = "ident"
  /\ \/ /\ Goes("ident", "magic")
        /\ Available(IdentSize)
        /\ pos' = 0
        /\ UNCHANGED <<fd, i, heap, segments, answers>>
     \/ Fail({})

Magic ==
  \/ /\ Goes("magic", "header")
     /\ "magic" \in file.good
     /\ UNCHANGED <<fd, pos, i, heap, segments, answers>>
  \/ pc = "magic" /\ "magic" \notin file.good /\ Fail({})

ReadHeader ==
  /\ pc = "header"
  /\ \/ /\ Goes("header", "checks")
        /\ Available(HeaderSize)
        /\ pos' = HeaderSize
        /\ UNCHANGED <<fd, i, heap, segments, answers>>
     \/ Fail({})

Supported == {"machine", "version", "phentsize"} \subseteq file.good /\ phnum # 0

CheckHeader ==
  \/ /\ Goes("checks", "print")
     /\ Supported
     /\ pos' = Seek(file.phoff)
     /\ UNCHANGED <<fd, i, heap, segments, answers>>
  \/ pc = "checks" /\ ~Supported /\ Fail({})

PrintPhdr ==
  /\ pc = "print" /\ i <= phnum
  /\ \/ /\ Goes("print", "print")
        /\ Available(PhdrSize)
        /\ pos' = pos + PhdrSize
        /\ i' = i + 1
        /\ UNCHANGED <<fd, heap, segments, answers>>
     \/ Fail({})

AllocateTable ==
  /\ pc = "print" /\ i > phnum
  /\ \/ /\ Goes("print", "table")
        /\ heap' = heap \cup {Table}
        /\ pos' = Seek(file.phoff)
        /\ UNCHANGED <<fd, i, segments, answers>>
     \/ Fail({})

(* The read, and the count of the headers to load.                         *)
HasLoad == \E k \in 1 .. phnum : file.phdrs[k].type = "LOAD"

ReadTable ==
  /\ pc = "table"
  /\ \/ /\ Goes("table", "load")
        /\ Available(PhdrSize * phnum) /\ HasLoad
        /\ pos' = pos + PhdrSize * phnum
        /\ i' = 1
        /\ UNCHANGED <<fd, heap, segments, answers>>
     \/ Fail({Table})

-----------------------------------------------------------------------------
AllocateSegment ==
  /\ pc = "load" /\ i <= phnum /\ phdr.type = "LOAD"
  /\ \/ /\ Goes("load", "segment")
        /\ heap' = heap \cup {Segment(i)}
        /\ pos' = Seek(phdr.offset)
        /\ UNCHANGED <<fd, i, segments, answers>>
     \/ Fail({Table})

(* The bytes a read of size bytes gives from a place of the file.          *)
Got(at, size) ==
  IF at >= file.length THEN 0
  ELSE IF at + size <= file.length THEN size ELSE file.length - at

(* A short read counts as a full one.  filesz bytes go into a block of     *)
(* memsz; "undefined": some of them did not fit.                           *)
ReadSegmentThen(rest) ==
  /\ pc = "segment"
  /\ LET got == Got(pos, phdr.filesz)
     IN  \/ /\ ~Negative(phdr.filesz)
           /\ Goes("segment", IF got > phdr.memsz THEN "undefined" ELSE "load")
           /\ segments' = Append(segments,
                [vaddr |-> phdr.vaddr, size |-> phdr.memsz, phdr |-> i,
                 memory |-> [o \in 0 .. phdr.memsz - 1 |->
                   CASE o < got -> pos + o
                     [] got <= o /\ o < phdr.filesz -> Junk
                     [] OTHER -> rest]])
           /\ pos' = pos + got
           /\ i' = i + 1
           /\ UNCHANGED <<fd, heap, answers>>
        \/ Fail({Segment(i), Table})

(* Faulty variant: what follows the bytes of the file is not set to zero.  *)
ReadSegmentOnly == ReadSegmentThen(Junk)
ReadSegment == ReadSegmentThen(Zero)

AllocateInterp ==
  /\ pc = "load" /\ i <= phnum /\ phdr.type = "INTERP"
  /\ \/ /\ Goes("load", "interp")
        /\ heap' = heap \cup {Interp}
        /\ UNCHANGED <<fd, pos, i, segments, answers>>
     \/ Fail({Table})

(* What the read of a name can return, and what it is compared with, the   *)
(* size as an ssize_t.  Of the sizes read refuses, malloc has room for the *)
(* name and its zero only with the greatest, which as an ssize_t is the -1 *)
(* of the failed read: the zero is then written in front of the block.     *)
Returned ==
  {-1} \cup IF Negative(phdr.filesz) THEN {}
            ELSE {Got(Seek(phdr.offset), phdr.filesz)}
Expected == IF Negative(phdr.filesz) THEN phdr.filesz - Words ELSE phdr.filesz

(* The position is saved before the read and restored after it.            *)
ReadInterpOrFree(blocks) ==
  /\ pc = "interp"
  /\ \E n \in Returned :
       \/ /\ n = Expected
          /\ Goes("interp", IF n < 0 THEN "undefined" ELSE "load")
          /\ heap' = heap \ {Interp}
          /\ i' = i + 1
          /\ UNCHANGED <<fd, pos, segments, answers>>
       \/ n # Expected /\ Fail(blocks)

(* Faulty variant: the name is not freed when it cannot be read.           *)
ReadInterpKeeping == ReadInterpOrFree({Table})
ReadInterp == ReadInterpOrFree({Interp, Table})

SkipPhdr ==
  /\ Goes("load", "load")
  /\ i <= phnum /\ phdr.type \notin {"LOAD", "INTERP"}
  /\ i' = i + 1
  /\ UNCHANGED <<fd, pos, heap, segments, answers>>

-----------------------------------------------------------------------------
(* The first segment an address is in, and the offset.                     *)
vaddr_to_host(vaddr) ==
  LET In(s) == vaddr >= s.vaddr /\ vaddr < (s.vaddr + s.size) % Words
      k == SelectInSeq(segments, In)
  IN  IF k = 0 THEN NoHost ELSE <<k, vaddr - segments[k].vaddr>>

Translate ==
  /\ Goes("load", "free")
  /\ i > phnum
  /\ LET s == segments[1]
         tests == <<file.entry, s.vaddr, s.vaddr + 16, s.vaddr + s.size - 1, s.vaddr + s.size>>
     IN  answers' = [t \in 1 .. 5 |-> vaddr_to_host(tests[t] % Words)]
  /\ UNCHANGED <<fd, pos, i, heap, segments>>

FreeAll ==
  /\ pc = "free"
  /\ pc' = "done" /\ exit' = 0
  /\ heap' = heap \ ({Table} \cup {Segment(segments[k].phdr) : k \in DOMAIN segments})
  /\ fd' = "closed"
  /\ UNCHANGED <<file, pos, i, segments, answers>>

Next ==
  \/ Open \/ ReadIdent \/ Magic \/ ReadHeader \/ CheckHeader
  \/ PrintPhdr \/ AllocateTable \/ ReadTable
  \/ AllocateSegment \/ ReadSegment \/ AllocateInterp \/ ReadInterp \/ SkipPhdr
  \/ Translate \/ FreeAll

Spec == Init /\ [][Next]_vars

-----------------------------------------------------------------------------
(* The address space the program headers ask for: an address belongs to    *)
(* the first LOAD header whose memsz bytes include it, and holds the byte  *)
(* of the file that header puts there, or zero from filesz on.             *)
Holds(k, a) ==
  LET p == file.phdrs[k]
  IN  p.type = "LOAD" /\ p.vaddr <= a /\ a < p.vaddr + p.memsz

(* When the headers have been loaded, every address translates to a block  *)
(* and offset of the segment it belongs to, with the prescribed byte, and  *)
(* to nothing if it belongs to none.  A byte the file ends before is not   *)
(* claimed, nor are the bytes of a header whose offset lseek refuses, and  *)
(* headers whose range reaches the end of the address space, where end is  *)
(* 0.                                                                      *)
ImageLoaded ==
  pc = "free" \/ exit = 0 =>
    \A a \in 0 .. Words - 1 :
      LET host == vaddr_to_host(a)
          ks == {k \in 1 .. phnum : Holds(k, a)}
      IN  IF ks = {} THEN host = NoHost
          ELSE LET k == CHOOSE k \in ks : \A l \in ks : k <= l
                   p == file.phdrs[k]
                   o == a - p.vaddr
               IN  p.vaddr + p.memsz < Words =>
                     /\ host # NoHost
                     /\ segments[host[1]].phdr = k /\ host[2] = o
                     /\ ~Negative(p.offset) =>
                          segments[host[1]].memory[o] =
                            IF o >= p.filesz THEN Zero
                            ELSE IF p.offset + o < file.length THEN p.offset + o ELSE Junk

(* Whichever way main returns, the descriptor is closed and the headers    *)
(* and the interpreter's name are freed; the segments are freed at the     *)
(* end, and those that were loaded before a failure are the only blocks    *)
(* that stay.                                                              *)
Released ==
  exit # Running =>
    /\ fd = "closed"
    /\ heap = IF exit = 0 THEN {} ELSE {Segment(segments[k].phdr) : k \in DOMAIN segments}
=============================================================================
