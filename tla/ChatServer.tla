------------------------------ MODULE ChatServer ------------------------------
(***************************************************************************)
(* TCP-chat-server/server.c: main accepts connections and creates a thread *)
(* for each, which sends back what it receives until the client is gone.   *)
(* A thread goes by the name of the connection it was created for.         *)
(***************************************************************************)
EXTENDS Sockets

CONSTANTS
  ServerFaults,   (* subset of {"thread"}: pthread_create may fail         *)
  Junk            (* what lies behind the end of a buffer                  *)

Nobody == "nobody"

ASSUME NobodyAssumption == Nobody \notin Clients

VARIABLES
  alive,        (* whether the server runs                                 *)
  accepted,     (* the connection main creates a thread for, or Nobody     *)
  data,         (* the client_data that was allocated for each connection  *)
  thread,       (* where each thread stands                                *)
  sock,         (* the socket each thread uses                             *)
  buffer,       (* what each thread has received last                      *)
  unhandled,    (* history: connections whose thread was not created       *)
  overread      (* history: a thread has read beyond its buffer            *)

serverVars == <<alive, accepted, data, thread, sock, buffer, unhandled, overread>>

ServerInit ==
  /\ alive = TRUE
  /\ accepted = Nobody
  /\ data = [c \in Clients |-> Nobody]
  /\ thread = [c \in Clients |-> "none"]
  /\ sock = [c \in Clients |-> Nobody]
  /\ buffer = [c \in Clients |-> <<>>]
  /\ unhandled = {}
  /\ overread = FALSE

-----------------------------------------------------------------------------
(* main.                                                                   *)

(* An accept that fails is tried again at once.                            *)
(* Faulty variant: the connections share one client_data.                  *)
AcceptShared ==
  /\ alive
  /\ accepted = Nobody
  /\ \E c \in Clients :
       /\ Accepts(c)
       /\ accepted' = c
       /\ data' = [d \in Clients |-> c]
  /\ UNCHANGED <<alive, thread, sock, buffer, unhandled, overread>>
Accept ==
  /\ alive
  /\ accepted = Nobody
  /\ \E c \in Clients :
       /\ Accepts(c)
       /\ accepted' = c
       /\ data' = [data EXCEPT ![c] = c]
  /\ UNCHANGED <<alive, thread, sock, buffer, unhandled, overread>>

(* If the thread cannot be created the socket stays open.                  *)
Create ==
  /\ alive
  /\ accepted # Nobody
  /\ \/ /\ thread' = [thread EXCEPT ![accepted] = "start"]
        /\ UNCHANGED unhandled
     \/ /\ "thread" \in ServerFaults
        /\ unhandled' = unhandled \cup {accepted}
        /\ UNCHANGED thread
  /\ accepted' = Nobody
  /\ UNCHANGED <<sockets, alive, data, sock, buffer, overread>>

-----------------------------------------------------------------------------
(* handle_client.                                                          *)

At(t, l) == alive /\ thread[t] = l
GoTo(t, l) == thread' = [thread EXCEPT ![t] = l]

Start(t) ==
  /\ At(t, "start")
  /\ sock' = [sock EXCEPT ![t] = data[t]]
  /\ GoTo(t, "recv")
  /\ UNCHANGED <<sockets, alive, accepted, data, buffer, unhandled, overread>>

(* Faulty variant: the threads share one buffer.                           *)
ReceiveShared(t) ==
  /\ At(t, "recv")
  /\ \E n \in Readable(up[sock[t]]) :
       /\ ReceivesUp(sock[t], n)
       /\ buffer' = [u \in Clients |-> First(up[sock[t]], n)]
  /\ GoTo(t, "send")
  /\ UNCHANGED <<alive, accepted, data, sock, unhandled, overread>>
Receive(t) ==
  /\ At(t, "recv")
  /\ \E n \in Readable(up[sock[t]]) :
       /\ ReceivesUp(sock[t], n)
       /\ buffer' = [buffer EXCEPT ![t] = First(up[sock[t]], n)]
  /\ GoTo(t, "send")
  /\ UNCHANGED <<alive, accepted, data, sock, unhandled, overread>>

(* strlen(buffer): the zeros of memset end what was received, but for a    *)
(* buffer that is full.                                                    *)
Sendable(bytes) ==
  IF Len(bytes) < BufferSize THEN {bytes} ELSE {bytes, Append(bytes, Junk)}

(* Faulty variant: a connection is good for one message.                   *)
SendOnce(t) ==
  /\ At(t, "send")
  /\ \E bytes \in Sendable(buffer[t]) : SendsDown(sock[t], bytes)
  /\ overread' = (overread \/ Len(buffer[t]) = BufferSize)
  /\ buffer' = [buffer EXCEPT ![t] = <<>>]
  /\ GoTo(t, "done")
  /\ UNCHANGED <<alive, accepted, data, sock, unhandled>>
Send(t) ==
  /\ At(t, "send")
  /\ \E bytes \in Sendable(buffer[t]) : SendsDown(sock[t], bytes)
  /\ overread' = (overread \/ Len(buffer[t]) = BufferSize)
  /\ buffer' = [buffer EXCEPT ![t] = <<>>]
  /\ GoTo(t, "recv")
  /\ UNCHANGED <<alive, accepted, data, sock, unhandled>>

(* SIGPIPE ends the server: the flags of send are 0 and nobody handles it. *)
SendKills(t) ==
  /\ At(t, "send")
  /\ peer[sock[t]] = "broken"
  /\ alive' = FALSE
  /\ queue' = <<>>
  /\ open' = {}
  /\ UNCHANGED <<peer, up, down, accepted, data, thread, sock, buffer,
                 unhandled, overread>>

(* The end of the loop: the socket is closed and client_data freed.        *)
(* Faulty variant: a recv that returns 0 is taken for an empty message.    *)
LeaveSends(t) ==
  /\ At(t, "recv")
  /\ AtEnd(sock[t])
  /\ buffer' = [buffer EXCEPT ![t] = <<>>]
  /\ GoTo(t, "send")
  /\ UNCHANGED <<sockets, alive, accepted, data, sock, unhandled, overread>>
Leave(t) ==
  /\ At(t, "recv")
  /\ AtEnd(sock[t])
  /\ ClosesDown(sock[t])
  /\ data' = [data EXCEPT ![t] = Nobody]
  /\ GoTo(t, "done")
  /\ UNCHANGED <<alive, accepted, sock, buffer, unhandled, overread>>

-----------------------------------------------------------------------------
Main == Accept \/ Create

HandleClient(t) ==
  Start(t) \/ Receive(t) \/ Send(t) \/ SendKills(t) \/ Leave(t)
=============================================================================
