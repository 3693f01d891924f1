------------------------------ MODULE ChatClient ------------------------------
(***************************************************************************)
(* TCP-chat-server/client.c: sends the lines that are typed and shows what *)
(* comes back, one send and one recv at a time.                            *)
(***************************************************************************)
EXTENDS Sockets

CONSTANTS
  MaxSaid   (* bound: bytes each client sends                              *)

VARIABLES
  at,       (* where each client stands                                    *)
  line,     (* what the buffer of each client holds                        *)
  said,     (* history: the bytes each client has sent                     *)
  heard     (* history: the bytes each client has shown                    *)

clientVars == <<at, line, said, heard>>

(* The buffer is not initialized: a string of other bytes, or the empty    *)
(* one, if its first byte happens to be 0.                                 *)
ClientInit(junk) ==
  /\ at = [c \in Clients |-> "connect"]
  /\ line \in [Clients -> {<<>>, <<junk>>}]
  /\ said = [c \in Clients |-> <<>>]
  /\ heard = [c \in Clients |-> <<>>]

Goes(c, l) == at' = [at EXCEPT ![c] = l]

Connect(c) ==
  /\ at[c] = "connect"
  /\ Connects(c)
  /\ Goes(c, "type")
  /\ UNCHANGED <<line, said, heard>>

(* fgets: a line that fits the buffer with its NUL, as far as strlen will  *)
(* count it: not at all if a 0 was typed first.  At the end of the input   *)
(* the buffer keeps what it holds, and that is sent again.                 *)
Fresh(c, n) == [i \in 1 .. n |-> <<c, Len(said[c]) + i>>]

TypeLine(c) ==
  /\ at[c] = "type"
  /\ \/ \E n \in 0 .. BufferSize - 1 : line' = [line EXCEPT ![c] = Fresh(c, n)]
     \/ UNCHANGED line
  /\ Len(said[c]) + Len(line'[c]) <= MaxSaid[c]
  /\ Goes(c, "send")
  /\ UNCHANGED <<sockets, said, heard>>

(* Of an empty string nothing is sent, and the client listens all the same.*)
SendLine(c) ==
  /\ at[c] = "send"
  /\ SendsUp(c, line[c])
  /\ said' = [said EXCEPT ![c] = @ \o line[c]]
  /\ Goes(c, "recv")
  /\ UNCHANGED <<line, heard>>

(* A full buffer has no room for the NUL, which is written behind it: the  *)
(* client goes on, or it does not.                                         *)
Show(c) ==
  /\ at[c] = "recv"
  /\ \E n \in Readable(down[c]) :
       /\ ReceivesDown(c, n)
       /\ line' = [line EXCEPT ![c] = First(down[c], n)]
       /\ heard' = [heard EXCEPT ![c] = @ \o First(down[c], n)]
  /\ Goes(c, "type")
  /\ UNCHANGED said

(* The end of the process, by a signal or a fault.                         *)
Dies(c) ==
  /\ at[c] # "gone"
  /\ ClosesUp(c)
  /\ Goes(c, "gone")
  /\ UNCHANGED <<line, said, heard>>

Overflow(c) ==
  /\ at[c] = "recv"
  /\ Len(down[c]) >= BufferSize
  /\ Dies(c)

(* The server is gone, and with it the connection: recv returns 0 or -1,   *)
(* send fails, connect is refused.                                         *)
HangUp(c, serverAlive) ==
  /\ ~ serverAlive
  /\ \/ at[c] = "recv" /\ down[c] = <<>>
     \/ at[c] \in {"send", "connect"}
  /\ Dies(c)

Converse(c, serverAlive) ==
  \/ Connect(c) /\ serverAlive
  \/ SendLine(c) /\ serverAlive
  \/ Show(c) \/ Overflow(c) \/ HangUp(c, serverAlive)
=============================================================================
