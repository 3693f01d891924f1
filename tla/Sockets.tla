------------------------------- MODULE Sockets -------------------------------
(***************************************************************************)
(* The TCP connections between the clients of TCP-chat-server and the      *)
(* server, as the calls of both programs use them: a client connects once, *)
(* so that a connection goes by the name of its client.                    *)
(*                                                                         *)
(* A stream keeps the order of its bytes and not the bounds of messages: a *)
(* recv returns what there is, up to the size of its buffer, or less.      *)
(***************************************************************************)
EXTENDS Integers, Sequences

CONSTANTS
  Clients,
  Backlog,      (* connections listen() lets wait for an accept            *)
  BufferSize    (* of both programs' buffers                               *)

ASSUME SocketsAssumption == Backlog \in Nat /\ BufferSize \in Nat \ {0}

VARIABLES
  queue,   (* connections that wait for an accept, oldest first            *)
  open,    (* connections the server has open                              *)
  peer,    (* the client's end of every connection                         *)
  up,      (* bytes on their way from every client                         *)
  down     (* bytes on their way to every client                           *)

sockets == <<queue, open, peer, up, down>>

(* "fin": the client has closed it.  "reset": the client has thrown bytes  *)
(* away that were sent to it.  "broken": a further send raises SIGPIPE.    *)
PeerStates == {"none", "open", "fin", "reset", "broken"}

SocketsInit ==
  /\ queue = <<>>
  /\ open = {}
  /\ peer = [c \in Clients |-> "none"]
  /\ up = [c \in Clients |-> <<>>]
  /\ down = [c \in Clients |-> <<>>]

(* The lengths of what recv may return.                                    *)
Readable(stream) ==
  1 .. (IF Len(stream) < BufferSize THEN Len(stream) ELSE BufferSize)

First(stream, n) == SubSeq(stream, 1, n)
AfterFirst(stream, n) == SubSeq(stream, n + 1, Len(stream))

-----------------------------------------------------------------------------
(* Calls of the client.                                                    *)

Connects(c) ==
  /\ Len(queue) < Backlog
  /\ queue' = Append(queue, c)
  /\ peer' = [peer EXCEPT ![c] = "open"]
  /\ UNCHANGED <<open, up, down>>

SendsUp(c, bytes) ==
  /\ up' = [up EXCEPT ![c] = @ \o bytes]
  /\ UNCHANGED <<queue, open, peer, down>>

ReceivesDown(c, n) ==
  /\ n \in Readable(down[c])
  /\ down' = [down EXCEPT ![c] = AfterFirst(@, n)]
  /\ UNCHANGED <<queue, open, peer, up>>

(* close, or the end of the process.                                       *)
ClosesUp(c) ==
  /\ peer' = [peer EXCEPT ![c] =
       IF @ # "open" THEN @ ELSE IF down[c] = <<>> THEN "fin" ELSE "reset"]
  /\ down' = [down EXCEPT ![c] = <<>>]
  /\ UNCHANGED <<queue, open, up>>

-----------------------------------------------------------------------------
(* Calls of the server.                                                    *)

Accepts(c) ==
  /\ queue # <<>>
  /\ c = Head(queue)
  /\ queue' = Tail(queue)
  /\ open' = open \cup {c}
  /\ UNCHANGED <<peer, up, down>>

ReceivesUp(c, n) ==
  /\ n \in Readable(up[c])
  /\ up' = [up EXCEPT ![c] = AfterFirst(@, n)]
  /\ UNCHANGED <<queue, open, peer, down>>

(* recv returns 0 or -1: all bytes are read and the client is gone.        *)
AtEnd(c) == up[c] = <<>> /\ peer[c] # "open"

(* To a client that is gone the first send seems to succeed, and bytes     *)
(* that arrive at a closed socket reset the connection, sooner or later.   *)
SendsDown(c, bytes) ==
  /\ peer[c] # "broken"
  /\ \/ /\ peer[c] = "open"
        /\ down' = [down EXCEPT ![c] = @ \o bytes]
        /\ UNCHANGED peer
     \/ /\ peer[c] # "open"
        /\ \/ peer' = [peer EXCEPT ![c] = "broken"]
           \/ peer[c] = "fin" /\ UNCHANGED peer
        /\ UNCHANGED down
  /\ UNCHANGED <<queue, open, up>>

ClosesDown(c) ==
  /\ open' = open \ {c}
  /\ UNCHANGED <<queue, peer, up, down>>
=============================================================================
