------------------------------ MODULE Programs ------------------------------
(***************************************************************************)
(* The small programs of the repository, each in a module of its own.      *)
(* They share nothing: a behaviour is one run of one of them, and the      *)
(* state of the others stays as it was.                                    *)
(***************************************************************************)
EXTENDS Integers, Sequences

CONSTANTS
  Files, IdentSize, HeaderSize, PhdrSize, Words,     (* ElfLoader          *)
  Vals, MaxPushes,                                   (* DynamicArray       *)
  Levels, MaxProcesses,                              (* ProcessQueues      *)
  Formats, Strings, Chars, MaxInt,                   (* Sysout             *)
  Dumped, Width,                                     (* Hexditch           *)
  NSIG, Left, Ignored, Queued, MaxSent,              (* SignalLogger       *)
  Seconds, Ticks, MaxInterrupts                      (* Slumber            *)

VARIABLES
  program,
  file, pc, exit, fd, pos, i, heap, segments, answers,
  vec, pushed, vec_status,
  total_processes, mlfq, waiting,
  format, out, meant, out_status,
  unread, rest, buffer, offset, rows, dump_status,
  x, pending, handlers, stdout, logged, sent, log_status,
  slumber_pc, req, remaining, elapsed, interrupts, returned

elfVars == <<file, pc, exit, fd, pos, i, heap, segments, answers>>
vecVars == <<vec, pushed, vec_status>>
queueVars == <<total_processes, mlfq, waiting>>
outVars == <<format, out, meant, out_status>>
dumpVars == <<unread, rest, buffer, offset, rows, dump_status>>
logVars == <<x, pending, handlers, stdout, logged, sent, log_status>>
slumberVars == <<slumber_pc, req, remaining, elapsed, interrupts, returned>>
vars == <<program, elfVars, vecVars, queueVars, outVars,
          dumpVars, logVars, slumberVars>>

(* The widths of the fields of a header: unsigned words.                   *)
ASSUME ElfAssumption ==
  /\ Words \in Nat \ {0} /\ HeaderSize \in Nat /\ PhdrSize \in Nat
  /\ \A f \in Files :
       /\ f.length \in Nat /\ f.phoff \in 0 .. Words - 1
       /\ f.phdrs \in Seq([type : STRING, offset : 0 .. Words - 1, vaddr : 0 .. Words - 1,
                           filesz : 0 .. Words - 1, memsz : 0 .. Words - 1])

ASSUME QueuesAssumption == MaxProcesses \in Nat \ {0}

(* sysout.c:18: "32 bit integers".                                         *)
ASSUME IntAssumption == MaxInt \in Nat /\ MaxInt <= 2147483647

ASSUME DumpAssumption ==
  /\ Width \in Nat \ {0}
  /\ \A f \in Dumped : f \in Seq(0 .. 255)

ASSUME SleepAssumption == Seconds \in Nat /\ Ticks \in Nat \ {0}

Elf == INSTANCE ElfLoader
Vector == INSTANCE DynamicArray
Queues == INSTANCE ProcessQueues
Printf == INSTANCE Sysout
Dump == INSTANCE Hexditch
Logger == INSTANCE SignalLogger
Sleep == INSTANCE Slumber

Names == {"elfload", "vector", "mlfq", "sysout", "hexditch", "logger", "slumber"}

(* A program that does not run has some input all the same, always the     *)
(* same one.                                                               *)
Init ==
  /\ program \in Names
  /\ program # "elfload" => file = CHOOSE f \in Files : TRUE
  /\ program # "sysout" => format = CHOOSE f \in Formats : TRUE
  /\ program # "hexditch" => rest = CHOOSE f \in Dumped : TRUE
  /\ Elf!Init /\ Vector!Init /\ Queues!Init /\ Printf!Init
  /\ Dump!Init /\ Logger!Init /\ Sleep!Init

RunElf ==
  /\ program = "elfload" /\ Elf!Next
  /\ UNCHANGED <<program, vecVars, queueVars, outVars, dumpVars,
                 logVars, slumberVars>>

RunVector ==
  /\ program = "vector" /\ Vector!Next
  /\ UNCHANGED <<program, elfVars, queueVars, outVars, dumpVars,
                 logVars, slumberVars>>

RunQueues ==
  /\ program = "mlfq" /\ Queues!Next
  /\ UNCHANGED <<program, elfVars, vecVars, outVars, dumpVars,
                 logVars, slumberVars>>

RunPrintf ==
  /\ program = "sysout" /\ Printf!Next
  /\ UNCHANGED <<program, elfVars, vecVars, queueVars, dumpVars,
                 logVars, slumberVars>>

RunDump ==
  /\ program = "hexditch" /\ Dump!Next
  /\ UNCHANGED <<program, elfVars, vecVars, queueVars, outVars,
                 logVars, slumberVars>>

RunLogger ==
  /\ program = "logger" /\ Logger!Next
  /\ UNCHANGED <<program, elfVars, vecVars, queueVars, outVars,
                 dumpVars, slumberVars>>

RunSleep ==
  /\ program = "slumber" /\ Sleep!Next
  /\ UNCHANGED <<program, elfVars, vecVars, queueVars, outVars,
                 dumpVars, logVars>>

Next ==
  \/ RunElf \/ RunVector \/ RunQueues \/ RunPrintf
  \/ RunDump \/ RunLogger \/ RunSleep

Spec == Init /\ [][Next]_vars

-----------------------------------------------------------------------------
(* What each program promises, as its module says.                         *)
ImageLoaded == Elf!ImageLoaded
Released == Elf!Released
VectorHolds == Vector!VectorHolds
QueuesAreFifo == Queues!QueuesAreFifo
SysoutPrints == Printf!SysoutPrints
DumpShowsFile == Dump!DumpShowsFile
SignalsLogged == Logger!SignalsLogged
SleepsItOut == Sleep!SleepsItOut
=============================================================================
