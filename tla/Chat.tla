--------------------------------- MODULE Chat ---------------------------------
(***************************************************************************)
(* The server and the clients of TCP-chat-server together.                 *)
(***************************************************************************)
EXTENDS ChatServer, ChatClient

CONSTANT ClientFaults   (* subset of {"kill"}: a client may be ended       *)

vars == <<sockets, serverVars, clientVars>>

Init == SocketsInit /\ ServerInit /\ ClientInit(Junk)

ServerStep(step) == step /\ UNCHANGED clientVars
ClientStep(step) == step /\ UNCHANGED serverVars

Next ==
  \/ ServerStep(Main)
  \/ \E t \in Clients : ServerStep(HandleClient(t))
  \/ \E c \in Clients :
       \/ ClientStep(TypeLine(c))
       \/ ClientStep(Converse(c, alive))
       \/ "kill" \in ClientFaults /\ ClientStep(Dies(c))

Spec == Init /\ [][Next]_vars

(* Threads and clients run; nobody has to type.                            *)
FairSpec ==
  /\ Spec
  /\ WF_vars(ServerStep(Main))
  /\ \A t \in Clients : WF_vars(ServerStep(HandleClient(t)))
  /\ \A c \in Clients : WF_vars(ClientStep(Converse(c, alive)))

-----------------------------------------------------------------------------
(* Properties.                                                             *)

(* Every variable has a value the programs' types allow.                   *)
TypeOK ==
  /\ peer \in [Clients -> PeerStates]
  /\ open \subseteq Clients
  /\ Len(queue) <= Backlog
  /\ accepted \in Clients \cup {Nobody}
  /\ data \in [Clients -> Clients \cup {Nobody}]
  /\ thread \in [Clients -> {"none", "start", "recv", "send", "done"}]
  /\ sock \in [Clients -> Clients \cup {Nobody}]
  /\ \A c \in Clients : Len(buffer[c]) <= BufferSize
  /\ \A c \in Clients : At(c, "send") => buffer[c] # <<>>
  /\ at \in [Clients -> {"connect", "type", "send", "recv", "gone"}]

(* A client_data belongs to one thread: every thread handles the socket it *)
(* was created for, and every open socket has a thread that will close it, *)
(* or is about to get one, or lost it to a failing pthread_create.         *)
SocketsOwned ==
  alive =>
    /\ \A t \in Clients :
         /\ thread[t] = "start" => data[t] = t
         /\ thread[t] \in {"recv", "send"} => sock[t] = t
    /\ open = {c \in Clients : thread[c] \in {"start", "recv", "send"}}
                \cup unhandled \cup ({accepted} \ {Nobody})

(* README.md: "server sends back whatever the client sends".  What a       *)
(* client hears is what it said, as long as no thread has read beyond its  *)
(* buffer; the other clients and the bounds of messages do not matter.     *)
Echo == INSTANCE EchoService WITH spoiled <- overread
ImplementsEcho == Echo!EchoSpec

(* What a client is owed: the bytes on the way to its thread, with it and  *)
(* on the way back, which are all that it said and has not heard, as long  *)
(* as no thread has read beyond its buffer.                                *)
Owed(c) ==
  \/ up[c] # <<>> \/ buffer[c] # <<>> \/ down[c] # <<>>
  \/ ~ overread /\ heard[c] # said[c]

(* A client that waits for an echo it is owed gets it, or learns that the  *)
(* server is gone, once its connection has a thread.  (A client that has   *)
(* heard all it said and sends the empty string, at client.c:41, is owed   *)
(* nothing: it waits as long as the server lives.)                         *)
EchoArrives ==
  \A c \in Clients :
    (at[c] = "recv" /\ thread[c] # "none" /\ Owed(c)) ~> at[c] # "recv"

(* README.md: "proper handling of client disconnection".  The thread of a  *)
(* client that is gone ends and its socket is closed.                      *)
DisconnectHandled ==
  \A c \in Clients :
    (at[c] = "gone" /\ thread[c] # "none") ~> (thread[c] = "done" \/ ~ alive)

(* README.md: "proper handling of client disconnection".  No client that   *)
(* leaves takes the server with it.                                        *)
ServerSurvives == alive
=============================================================================
