------------------------------ MODULE CopyFiles ------------------------------
(***************************************************************************)
(* The copying both programs of steal/ share: the files of the system, the *)
(* descriptors and buffer of every copier, and the system calls of the     *)
(* copy loop.                                                              *)
(*                                                                         *)
(* A path is a pair of a directory and a name, and stands for the file it  *)
(* names: neither program removes or renames anything.  A file is a        *)
(* sequence of blocks of BUF_SIZE bytes.  Read and write offset of a copy  *)
(* advance together, so stolen counts for both.                            *)
(***************************************************************************)
EXTENDS Integers, Sequences

CONSTANTS
  Copiers,        (* the threads that copy                                 *)
  Argv,           (* paths of the sources on the command line              *)
  Destination,    (* the directory named last on the command line          *)
  InitialFiles,   (* the files before the program starts, by path          *)
  Unwritable,     (* paths that open() cannot open for writing             *)
  Faults,         (* calls that may fail: of "open" (of a source), "read", *)
                  (* "write" and "thread" (pthread_create)                 *)
  Damaged         (* a block no source holds: a hole, or a short write     *)

NoFile == <<"none", "none">>   (* a descriptor of -1 *)

JobIds == 1 .. Len(Argv)

VARIABLES
  files,     (* path -> blocks, for the paths that exist                   *)
  src_fd,    (* path each copier has open for reading, or NoFile           *)
  dest_fd,   (* path each copier has open for writing, or NoFile           *)
  stolen,    (* blocks each copier has read and written                    *)
  buffer     (* block each copier has read last                            *)

copyVars == <<files, src_fd, dest_fd, stolen, buffer>>

(* The job main builds from an argument: the destination directory and the *)
(* basename of the source.                                                 *)
Source(j) == Argv[j]
Target(j) == <<Destination, Argv[j][2]>>

Blocks ==
  {Damaged} \cup
    UNION {{InitialFiles[p][i] : i \in DOMAIN InitialFiles[p]} :
             p \in DOMAIN InitialFiles}

Paths ==
  DOMAIN InitialFiles \cup {Source(j) : j \in JobIds} \cup {Target(j) : j \in JobIds}

ASSUME CopyAssumption ==
  /\ Argv \in Seq({Argv[j] : j \in DOMAIN Argv})
  /\ NoFile \notin Paths
  /\ \A p \in DOMAIN InitialFiles : InitialFiles[p] \in Seq(Blocks)

CopyInit ==
  /\ files = InitialFiles
  /\ src_fd = [c \in Copiers |-> NoFile]
  /\ dest_fd = [c \in Copiers |-> NoFile]
  /\ stolen = [c \in Copiers |-> 0]
  /\ buffer = [c \in Copiers |-> Damaged]

(* open(p, O_RDONLY), which fails for a path that does not exist and may   *)
(* fail for another.                                                       *)
OpenSource(c, p) ==
  /\ \/ /\ p \in DOMAIN files
        /\ src_fd' = [src_fd EXCEPT ![c] = p]
     \/ /\ p \notin DOMAIN files \/ "open" \in Faults
        /\ src_fd' = [src_fd EXCEPT ![c] = NoFile]
  /\ UNCHANGED <<files, dest_fd, stolen, buffer>>

(* open(p, O_WRONLY | O_CREAT | O_TRUNC) and the start of a copy.          *)
(* Faulty variant: an existing file keeps its contents.                    *)
OpenDestNoTruncate(c, p) ==
  /\ p \notin Unwritable
  /\ dest_fd' = [dest_fd EXCEPT ![c] = p]
  /\ files' = [q \in DOMAIN files \cup {p} |->
                 IF q \in DOMAIN files THEN files[q] ELSE <<>>]
  /\ stolen' = [stolen EXCEPT ![c] = 0]
  /\ UNCHANGED <<src_fd, buffer>>
OpenDest(c, p) ==
  /\ p \notin Unwritable
  /\ dest_fd' = [dest_fd EXCEPT ![c] = p]
  /\ files' = [q \in DOMAIN files \cup {p} |-> IF q = p THEN <<>> ELSE files[q]]
  /\ stolen' = [stolen EXCEPT ![c] = 0]
  /\ UNCHANGED <<src_fd, buffer>>

OpenDestFails(c, p) ==
  /\ p \in Unwritable
  /\ dest_fd' = [dest_fd EXCEPT ![c] = NoFile]
  /\ stolen' = [stolen EXCEPT ![c] = 0]
  /\ UNCHANGED <<files, src_fd, buffer>>

(* read() at the copier's offset: a block, the end of the file, or -1.     *)
ReadBlock(c) ==
  /\ stolen[c] < Len(files[src_fd[c]])
  /\ buffer' = [buffer EXCEPT ![c] = files[src_fd[c]][stolen[c] + 1]]
  /\ UNCHANGED <<files, src_fd, dest_fd, stolen>>

AtEnd(c) == stolen[c] >= Len(files[src_fd[c]])

(* Contents of f after block b is written at offset k; the blocks between  *)
(* the end of f and k become a hole.                                       *)
WrittenAt(f, k, b) ==
  [i \in 1 .. (IF Len(f) > k THEN Len(f) ELSE k + 1) |->
     IF i = k + 1 THEN b ELSE IF i <= Len(f) THEN f[i] ELSE Damaged]

WriteBlock(c) ==
  /\ dest_fd[c] # NoFile
  /\ files' = [files EXCEPT ![dest_fd[c]] = WrittenAt(@, stolen[c], buffer[c])]
  /\ stolen' = [stolen EXCEPT ![c] = @ + 1]
  /\ UNCHANGED <<src_fd, dest_fd, buffer>>

(* close() of both files.                                                  *)
Closed(c) ==
  /\ src_fd' = [src_fd EXCEPT ![c] = NoFile]
  /\ dest_fd' = [dest_fd EXCEPT ![c] = NoFile]

(* write() returns less than it was given, having written a part of the    *)
(* block or nothing, and the copy is given up.                             *)
WriteFails(c) ==
  /\ \/ /\ dest_fd[c] # NoFile /\ "write" \in Faults
        /\ \/ files' = [files EXCEPT ![dest_fd[c]] =
                          WrittenAt(@, stolen[c], Damaged)]
           \/ files' = files
     \/ dest_fd[c] = NoFile /\ files' = files
  /\ Closed(c)
  /\ UNCHANGED <<stolen, buffer>>

(* Every destination is a file of its own that is nobody's source.         *)
TargetsApart ==
  /\ \A i, j \in JobIds : Target(i) = Target(j) => i = j
  /\ \A i, j \in JobIds : Target(i) # Source(j)
=============================================================================
