----------------------------- MODULE Chat_proofs ------------------------------
(***************************************************************************)
(* Proofs about Chat for any number of clients and any sizes of buffers,   *)
(* messages and backlog, with and without faults.                          *)
(***************************************************************************)
EXTENDS Chat, TLAPS

LOCAL INSTANCE SequenceTheorems

Bytes == {Junk} \cup (Clients \X Nat)
Stream == Seq(Bytes)

SocketTypes ==
  /\ queue \in Seq(Clients) /\ Len(queue) <= Backlog
  /\ open \subseteq Clients
  /\ peer \in [Clients -> PeerStates]
  /\ up \in [Clients -> Stream] /\ down \in [Clients -> Stream]

ServerTypes ==
  /\ alive \in BOOLEAN
  /\ accepted \in Clients \cup {Nobody}
  /\ data \in [Clients -> Clients \cup {Nobody}]
  /\ thread \in [Clients -> {"none", "start", "recv", "send", "done"}]
  /\ sock \in [Clients -> Clients \cup {Nobody}]
  /\ buffer \in [Clients -> Stream]
  /\ unhandled \subseteq Clients
  /\ overread \in BOOLEAN

ClientTypes ==
  /\ at \in [Clients -> {"connect", "type", "send", "recv", "gone"}]
  /\ line \in [Clients -> Stream]
  /\ said \in [Clients -> Stream] /\ heard \in [Clients -> Stream]

Types == SocketTypes /\ ServerTypes /\ ClientTypes

(* A thread holds bytes from a recv to the send after it.                  *)
Buffers ==
  \A c \in Clients :
    /\ Len(buffer[c]) <= BufferSize
    /\ buffer[c] = <<>> <=> thread[c] # "send"

(* A connection is made once: it waits for its accept, then for its        *)
(* thread, and has one thread, or none for ever.                           *)
Waiting(c) == \E k \in 1 .. Len(queue) : queue[k] = c
Threadless(c) == thread[c] = "none" /\ c \notin unhandled

ConnectedOnce ==
  /\ \A j, k \in 1 .. Len(queue) : queue[j] = queue[k] => j = k
  /\ \A c \in Clients :
       /\ at[c] = "connect" => ~ Waiting(c) /\ accepted # c /\ Threadless(c)
       /\ Waiting(c) => accepted # c /\ Threadless(c)
       /\ accepted = c => Threadless(c) /\ data[c] = c
       /\ c \in unhandled => thread[c] = "none"

IInv == Types /\ Buffers /\ ConnectedOnce /\ SocketsOwned

-----------------------------------------------------------------------------
LEMMA Sizes == Backlog \in Nat /\ BufferSize \in Nat \ {0} /\ Nobody \notin Clients
BY SocketsAssumption, NobodyAssumption

(* What recv takes of a stream, and what it leaves.                        *)
LEMMA Received ==
  ASSUME NEW s \in Stream, NEW n \in Readable(s)
  PROVE  /\ First(s, n) \in Stream /\ AfterFirst(s, n) \in Stream
         /\ Len(First(s, n)) = n /\ n >= 1 /\ n <= BufferSize
         /\ First(s, n) # <<>>
         /\ First(s, n) \o AfterFirst(s, n) = s
<1>1. n \in 1 .. Len(s) /\ n >= 1 /\ n <= BufferSize
  BY Sizes DEF Readable, Stream
<1>2. SubSeq(s, 1, n) \o SubSeq(s, n + 1, Len(s)) = SubSeq(s, 1, Len(s))
  BY <1>1, ConcatAdjacentSubSeq DEF Stream
<1>3. SubSeq(s, 1, Len(s)) = s
  BY SubSeqFull DEF Stream
<1>4. /\ SubSeq(s, 1, n) \in Stream /\ SubSeq(s, n + 1, Len(s)) \in Stream
      /\ Len(SubSeq(s, 1, n)) = n
  BY <1>1 DEF Stream
<1>5. SubSeq(s, 1, n) # <<>>
  BY <1>1, <1>4, EmptySeq DEF Stream
<1> QED
  BY <1>1, <1>2, <1>3, <1>4, <1>5 DEF First, AfterFirst

LEMMA BytesMakeStream ==
  ASSUME NEW n \in Nat, NEW f \in [1 .. n -> Bytes]
  PROVE  f \in Stream
BY SeqDef DEF Stream

LEMMA Joined ==
  ASSUME NEW s \in Stream, NEW r \in Stream
  PROVE  s \o r \in Stream
BY DEF Stream

-----------------------------------------------------------------------------
(* The server's steps.                                                     *)

LEMMA AcceptIInv == ASSUME IInv, ServerStep(Accept) PROVE IInv'
<1> USE Sizes DEF IInv, ServerStep, clientVars
<1>1. PICK c \in Clients : Accepts(c) /\ accepted' = c /\ data' = [data EXCEPT ![c] = c]
  BY DEF Accept
<1>2. /\ alive /\ accepted = Nobody
      /\ UNCHANGED <<peer, up, down, alive, thread, sock, buffer, unhandled, overread>>
      /\ UNCHANGED <<at, line, said, heard>>
  BY <1>1 DEF Accept, Accepts
<1>3. /\ queue # <<>> /\ c = queue[1] /\ queue' \in Seq(Clients)
      /\ Len(queue') = Len(queue) - 1
      /\ \A k \in 1 .. Len(queue') : queue'[k] = queue[k + 1]
  BY <1>1 DEF Accepts, Types, SocketTypes
<1>4. Types'
  BY <1>1, <1>2, <1>3 DEF Accepts, Types, SocketTypes, ServerTypes, ClientTypes
<1>5. Buffers'
  BY <1>2 DEF Buffers
<1>6. Waiting(c)
  BY <1>3 DEF Waiting, Types, SocketTypes
<1>7. ~ Waiting(c)' /\ \A d \in Clients : Waiting(d)' => Waiting(d)
  BY <1>3 DEF Waiting, ConnectedOnce, Types, SocketTypes
<1>8. ConnectedOnce'
  BY <1>1, <1>2, <1>3, <1>6, <1>7
     DEF ConnectedOnce, Threadless, Types, SocketTypes, ServerTypes
<1>9. SocketsOwned'
  BY <1>1, <1>2, <1>6 DEF SocketsOwned, Accepts, ConnectedOnce, Threadless, Types, ServerTypes
<1> QED
  BY <1>4, <1>5, <1>8, <1>9

LEMMA CreateIInv == ASSUME IInv, ServerStep(Create) PROVE IInv'
<1> USE Sizes DEF IInv, ServerStep, clientVars
<1>1. /\ alive /\ accepted \in Clients /\ accepted' = Nobody
      /\ UNCHANGED <<queue, open, peer, up, down, alive, data, sock, buffer, overread>>
      /\ UNCHANGED <<at, line, said, heard>>
  BY DEF Create, sockets, Types, ServerTypes
<1>2. Threadless(accepted) /\ ~ Waiting(accepted) /\ at[accepted] # "connect"
  BY <1>1 DEF ConnectedOnce
<1>3. \/ thread' = [thread EXCEPT ![accepted] = "start"] /\ unhandled' = unhandled
      \/ thread' = thread /\ unhandled' = unhandled \cup {accepted}
  BY DEF Create
<1>4. Types'
  BY <1>1, <1>3 DEF Types, SocketTypes, ServerTypes, ClientTypes
<1>5. Buffers'
  BY <1>1, <1>2, <1>3 DEF Buffers, Threadless, Types, ServerTypes
<1>6. ConnectedOnce'
  BY <1>1, <1>2, <1>3 DEF ConnectedOnce, Threadless, Waiting, Types, ServerTypes
<1>7. SocketsOwned'
  BY <1>1, <1>2, <1>3 DEF SocketsOwned, ConnectedOnce, Threadless, Types, ServerTypes
<1> QED
  BY <1>4, <1>5, <1>6, <1>7

(* A thread works on its own connection, its data, its buffer and its place *)
(* in the code.                                                            *)
LEMMA StartIInv ==
  ASSUME IInv, NEW t \in Clients, ServerStep(Start(t)) PROVE IInv'
<1> USE Sizes DEF IInv, ServerStep, clientVars
<1>1. /\ alive /\ thread[t] = "start" /\ data[t] = t
      /\ sock' = [sock EXCEPT ![t] = t] /\ thread' = [thread EXCEPT ![t] = "recv"]
      /\ UNCHANGED <<queue, open, peer, up, down, alive, accepted, data, buffer, unhandled,
                     overread, at, line, said, heard>>
  BY DEF Start, At, GoTo, sockets, SocketsOwned
<1>2. Types'
  BY <1>1 DEF Types, SocketTypes, ServerTypes, ClientTypes
<1>3. Buffers'
  BY <1>1 DEF Buffers, Types, ServerTypes
<1>4. ConnectedOnce'
  BY <1>1 DEF ConnectedOnce, Threadless, Waiting, Types, ServerTypes
<1>5. SocketsOwned'
  BY <1>1 DEF SocketsOwned, Types, ServerTypes
<1> QED
  BY <1>2, <1>3, <1>4, <1>5

LEMMA ReceiveIInv ==
  ASSUME IInv, NEW t \in Clients, ServerStep(Receive(t)) PROVE IInv'
<1> USE Sizes DEF IInv, ServerStep, clientVars
<1>1. /\ alive /\ thread[t] = "recv" /\ sock[t] = t
      /\ thread' = [thread EXCEPT ![t] = "send"]
      /\ UNCHANGED <<queue, open, peer, down, alive, accepted, data, sock, unhandled,
                     overread, at, line, said, heard>>
  BY DEF Receive, ReceivesUp, At, GoTo, SocketsOwned
<1>2. PICK n \in Readable(up[t]) :
        /\ up' = [up EXCEPT ![t] = AfterFirst(@, n)]
        /\ buffer' = [buffer EXCEPT ![t] = First(up[t], n)]
  BY <1>1 DEF Receive, ReceivesUp
<1>3. up[t] \in Stream
  BY DEF Types, SocketTypes
<1>4. /\ First(up[t], n) \in Stream /\ AfterFirst(up[t], n) \in Stream
      /\ Len(First(up[t], n)) <= BufferSize /\ First(up[t], n) # <<>>
  BY <1>3, Received
<1>5. Types'
  BY <1>1, <1>2, <1>4 DEF Types, SocketTypes, ServerTypes, ClientTypes
<1>6. Buffers'
  BY <1>1, <1>2, <1>4 DEF Buffers, Types, ServerTypes
<1>7. ConnectedOnce'
  BY <1>1 DEF ConnectedOnce, Threadless, Waiting, Types, ServerTypes
<1>8. SocketsOwned'
  BY <1>1 DEF SocketsOwned, Types, ServerTypes
<1> QED
  BY <1>5, <1>6, <1>7, <1>8

(* What strlen counts of a buffer.                                         *)
LEMMA Sent ==
  ASSUME Types, NEW t \in Clients, NEW bytes \in Sendable(buffer[t])
  PROVE  bytes \in Stream /\ (Len(buffer[t]) < BufferSize => bytes = buffer[t])
<1>1. buffer[t] \in Stream /\ Junk \in Bytes
  BY DEF Types, ServerTypes, Bytes
<1>2. Append(buffer[t], Junk) \in Stream
  BY <1>1 DEF Stream
<1> QED
  BY <1>1, <1>2 DEF Sendable

LEMMA SendIInv ==
  ASSUME IInv, NEW t \in Clients, ServerStep(Send(t)) PROVE IInv'
<1> USE Sizes DEF IInv, ServerStep, clientVars
<1>1. /\ alive /\ thread[t] = "send" /\ sock[t] = t
      /\ thread' = [thread EXCEPT ![t] = "recv"]
      /\ buffer' = [buffer EXCEPT ![t] = <<>>]
      /\ overread' = (overread \/ Len(buffer[t]) = BufferSize)
      /\ UNCHANGED <<queue, open, up, alive, accepted, data, sock, unhandled,
                     at, line, said, heard>>
  BY DEF Send, SendsDown, At, GoTo, SocketsOwned
<1>2. PICK bytes \in Sendable(buffer[t]) : SendsDown(t, bytes)
  BY <1>1 DEF Send
<1>3. bytes \in Stream /\ <<>> \in Stream /\ Len(<<>>) = 0
  BY Sent DEF Stream
<1>4. /\ down' \in [Clients -> Stream]
      /\ peer' \in [Clients -> PeerStates]
  <2>1. down[t] \in Stream /\ down[t] \o bytes \in Stream
    BY <1>3, Joined DEF Types, SocketTypes
  <2> QED
    BY <1>2, <2>1 DEF SendsDown, Types, SocketTypes, PeerStates
<1>5. Types'
  BY <1>1, <1>3, <1>4 DEF Types, SocketTypes, ServerTypes, ClientTypes
<1>6. Buffers'
  BY <1>1, <1>3 DEF Buffers, Types, ServerTypes
<1>7. ConnectedOnce'
  BY <1>1 DEF ConnectedOnce, Threadless, Waiting, Types, ServerTypes
<1>8. SocketsOwned'
  BY <1>1 DEF SocketsOwned, Types, ServerTypes
<1> QED
  BY <1>5, <1>6, <1>7, <1>8

(* The end of the server: what is promised of a server that lives is void. *)
LEMMA SendKillsIInv ==
  ASSUME IInv, NEW t \in Clients, ServerStep(SendKills(t)) PROVE IInv'
<1> USE Sizes DEF IInv, ServerStep, clientVars
<1>1. /\ alive' = FALSE /\ queue' = <<>> /\ open' = {}
      /\ UNCHANGED <<peer, up, down, accepted, data, thread, sock, buffer, unhandled,
                     overread, at, line, said, heard>>
  BY DEF SendKills
<1>2. Types'
  <2>1. <<>> \in Seq(Clients) /\ Len(<<>>) = 0
    OBVIOUS
  <2>2. SocketTypes'
    BY <1>1, <2>1 DEF Types, SocketTypes
  <2>3. ServerTypes' /\ ClientTypes'
    BY <1>1 DEF Types, ServerTypes, ClientTypes
  <2> QED
    BY <2>2, <2>3 DEF Types
<1>3. Buffers' /\ SocketsOwned'
  BY <1>1 DEF Buffers, SocketsOwned
<1>4. ConnectedOnce'
  BY <1>1 DEF ConnectedOnce, Threadless, Waiting
<1> QED
  BY <1>2, <1>3, <1>4

LEMMA LeaveIInv ==
  ASSUME IInv, NEW t \in Clients, ServerStep(Leave(t)) PROVE IInv'
<1> USE Sizes DEF IInv, ServerStep, clientVars
<1>1. /\ alive /\ thread[t] = "recv" /\ sock[t] = t
      /\ open' = open \ {t}
      /\ data' = [data EXCEPT ![t] = Nobody]
      /\ thread' = [thread EXCEPT ![t] = "done"]
      /\ UNCHANGED <<queue, peer, up, down, alive, accepted, sock, buffer, unhandled,
                     overread, at, line, said, heard>>
  BY DEF Leave, ClosesDown, At, GoTo, SocketsOwned
<1>2. Types'
  BY <1>1 DEF Types, SocketTypes, ServerTypes, ClientTypes
<1>3. Buffers'
  BY <1>1 DEF Buffers, Types, ServerTypes
<1>4. ConnectedOnce'
  BY <1>1 DEF ConnectedOnce, Threadless, Waiting, Types, ServerTypes
<1>5. t \notin unhandled /\ t # accepted
  BY <1>1 DEF ConnectedOnce, Threadless
<1>6. SocketsOwned'
  BY <1>1, <1>5 DEF SocketsOwned, Types, ServerTypes
<1> QED
  BY <1>2, <1>3, <1>4, <1>6

-----------------------------------------------------------------------------
(* The clients' steps.  They touch no variable of the server; what the     *)
(* server's invariants say of them is that a connection is made once.      *)

LEMMA ClientFrame ==
  ASSUME IInv, UNCHANGED <<queue, open>>, UNCHANGED serverVars,
         \A c \in Clients : at'[c] = "connect" => at[c] = "connect"
  PROVE  Buffers' /\ ConnectedOnce' /\ SocketsOwned'
BY DEF IInv, serverVars, Buffers, ConnectedOnce, Threadless, Waiting, SocketsOwned

LEMMA TypeLineIInv ==
  ASSUME IInv, NEW c \in Clients, ClientStep(TypeLine(c)) PROVE IInv'
<1> USE Sizes DEF IInv, ClientStep
<1>1. /\ at' = [at EXCEPT ![c] = "send"]
      /\ UNCHANGED <<queue, open, peer, up, down, said, heard>>
      /\ UNCHANGED serverVars
  BY DEF TypeLine, Goes, sockets
<1>2. ASSUME NEW n \in 0 .. BufferSize - 1
      PROVE  Fresh(c, n) \in Stream
  <2>1. n \in Nat /\ Len(said[c]) \in Nat
    BY DEF Types, ClientTypes, Stream
  <2>2. \A k \in 1 .. n : <<c, Len(said[c]) + k>> \in Bytes
    BY <2>1 DEF Bytes
  <2>3. [k \in 1 .. n |-> <<c, Len(said[c]) + k>>] \in Stream
    <3> DEFINE f == [k \in 1 .. n |-> <<c, Len(said[c]) + k>>]
    <3>1. f \in [1 .. n -> Bytes]
      BY <2>2
    <3> QED
      BY <2>1, <3>1, BytesMakeStream
  <2> QED
    BY <2>3 DEF Fresh
<1>3. line' \in [Clients -> Stream]
  BY <1>2 DEF TypeLine, Types, ClientTypes
<1>4. Types'
  BY <1>1, <1>3 DEF Types, SocketTypes, ServerTypes, ClientTypes, serverVars
<1> QED
  BY <1>1, <1>4, ClientFrame DEF Types, ClientTypes

LEMMA ConnectIInv ==
  ASSUME IInv, NEW c \in Clients, ClientStep(Connect(c)) PROVE IInv'
<1> USE Sizes DEF IInv, ClientStep
<1>1. /\ at[c] = "connect" /\ at' = [at EXCEPT ![c] = "type"]
      /\ Len(queue) < Backlog /\ queue' = Append(queue, c)
      /\ peer' = [peer EXCEPT ![c] = "open"]
      /\ UNCHANGED <<open, up, down, line, said, heard>>
      /\ UNCHANGED serverVars
  BY DEF Connect, Connects, Goes
<1>2. /\ queue' \in Seq(Clients) /\ Len(queue') = Len(queue) + 1
      /\ \A k \in 1 .. Len(queue) : queue'[k] = queue[k]
      /\ queue'[Len(queue) + 1] = c
  BY <1>1 DEF Types, SocketTypes
<1>3. Types'
  BY <1>1, <1>2 DEF Types, SocketTypes, ServerTypes, ClientTypes, serverVars, PeerStates
<1>4. Buffers'
  BY <1>1 DEF Buffers, serverVars
<1>5. ~ Waiting(c) /\ accepted # c /\ Threadless(c)
  BY <1>1 DEF ConnectedOnce
<1>6. \A d \in Clients : Waiting(d)' <=> d = c \/ Waiting(d)
  BY <1>2 DEF Waiting, Types, SocketTypes
<1>7. ConnectedOnce'
  <2>1. \A j, k \in 1 .. Len(queue') : queue'[j] = queue'[k] => j = k
    BY <1>2, <1>5 DEF ConnectedOnce, Waiting, Types, SocketTypes
  <2> QED
    BY <1>1, <1>5, <1>6, <2>1
       DEF ConnectedOnce, Threadless, serverVars, Types, ClientTypes
<1>8. SocketsOwned'
  BY <1>1 DEF SocketsOwned, serverVars
<1> QED
  BY <1>3, <1>4, <1>7, <1>8

LEMMA SendLineIInv ==
  ASSUME IInv, NEW c \in Clients, ClientStep(SendLine(c)) PROVE IInv'
<1> USE Sizes DEF IInv, ClientStep
<1>1. /\ at' = [at EXCEPT ![c] = "recv"]
      /\ up' = [up EXCEPT ![c] = @ \o line[c]]
      /\ said' = [said EXCEPT ![c] = @ \o line[c]]
      /\ UNCHANGED <<queue, open, peer, down, line, heard>>
      /\ UNCHANGED serverVars
  BY DEF SendLine, SendsUp, Goes
<1>2. up[c] \o line[c] \in Stream /\ said[c] \o line[c] \in Stream
  BY Joined DEF Types, SocketTypes, ClientTypes
<1>3. Types'
  BY <1>1, <1>2 DEF Types, SocketTypes, ServerTypes, ClientTypes, serverVars
<1> QED
  BY <1>1, <1>3, ClientFrame DEF Types, ClientTypes

LEMMA ShowIInv ==
  ASSUME IInv, NEW c \in Clients, ClientStep(Show(c)) PROVE IInv'
<1> USE Sizes DEF IInv, ClientStep
<1>1. PICK n \in Readable(down[c]) :
        /\ down' = [down EXCEPT ![c] = AfterFirst(@, n)]
        /\ line' = [line EXCEPT ![c] = First(down[c], n)]
        /\ heard' = [heard EXCEPT ![c] = @ \o First(down[c], n)]
        /\ at' = [at EXCEPT ![c] = "type"]
        /\ UNCHANGED <<queue, open, peer, up, said>>
        /\ UNCHANGED serverVars
  BY DEF Show, ReceivesDown, Goes
<1>2. First(down[c], n) \in Stream /\ AfterFirst(down[c], n) \in Stream
  BY Received DEF Types, SocketTypes
<1>3. heard[c] \o First(down[c], n) \in Stream
  BY <1>2, Joined DEF Types, ClientTypes
<1>4. Types'
  BY <1>1, <1>2, <1>3 DEF Types, SocketTypes, ServerTypes, ClientTypes, serverVars
<1> QED
  BY <1>1, <1>4, ClientFrame DEF Types, ClientTypes

LEMMA DiesIInv ==
  ASSUME IInv, NEW c \in Clients, ClientStep(Dies(c)) PROVE IInv'
<1> USE Sizes DEF IInv, ClientStep
<1>1. /\ at' = [at EXCEPT ![c] = "gone"]
      /\ down' = [down EXCEPT ![c] = <<>>]
      /\ UNCHANGED <<queue, open, up, line, said, heard>>
      /\ UNCHANGED serverVars
  BY DEF Dies, ClosesUp, Goes
<1>2. peer' \in [Clients -> PeerStates] /\ <<>> \in Stream
  BY DEF Dies, ClosesUp, Types, SocketTypes, PeerStates, Stream
<1>3. Types'
  BY <1>1, <1>2 DEF Types, SocketTypes, ServerTypes, ClientTypes, serverVars
<1> QED
  BY <1>1, <1>3, ClientFrame DEF Types, ClientTypes

LEMMA IInvStep == IInv /\ [Next]_vars => IInv'
<1> SUFFICES ASSUME IInv, [Next]_vars PROVE IInv'
  OBVIOUS
<1>1. ASSUME NEW t \in Clients, ServerStep(HandleClient(t)) PROVE IInv'
  BY <1>1, StartIInv, ReceiveIInv, SendIInv, SendKillsIInv, LeaveIInv
     DEF ServerStep, HandleClient
<1>2. ASSUME NEW c \in Clients, ClientStep(Converse(c, alive)) PROVE IInv'
  BY <1>2, ConnectIInv, SendLineIInv, ShowIInv, DiesIInv
     DEF ClientStep, Converse, Overflow, HangUp
<1>3. CASE UNCHANGED vars
  BY <1>3 DEF IInv, vars, sockets, serverVars, clientVars, Types, SocketTypes, ServerTypes,
     ClientTypes, Buffers, ConnectedOnce, Threadless, Waiting, SocketsOwned
<1>4. CASE ServerStep(Main)
  BY <1>4, AcceptIInv, CreateIInv DEF ServerStep, Main
<1> QED
  BY <1>1, <1>2, <1>3, <1>4, TypeLineIInv, DiesIInv DEF Next

LEMMA IInvInit == Init => IInv
<1> SUFFICES ASSUME Init PROVE IInv
  OBVIOUS
<1> USE Sizes DEF Init, SocketsInit, ServerInit, ClientInit
<1>1. /\ <<>> \in Stream /\ <<Junk>> \in Stream
      /\ <<>> \in Seq(Clients) /\ Len(<<>>) = 0
  BY DEF Stream, Bytes
<1>2. SocketTypes
  BY <1>1 DEF SocketTypes, PeerStates
<1>3. ServerTypes /\ ClientTypes
  BY <1>1 DEF ServerTypes, ClientTypes
<1>4. Buffers /\ ConnectedOnce /\ SocketsOwned
  BY <1>1 DEF Buffers, ConnectedOnce, Threadless, Waiting, SocketsOwned
<1> QED
  BY <1>2, <1>3, <1>4 DEF IInv, Types

(* The loops of server and client, and what their sockets and buffers hold *)
(* between any two of their calls, agree as IInv says.                     *)
THEOREM Invariant == Spec => []IInv
BY IInvInit, IInvStep, PTL DEF Spec

(* Every variable has a value the programs' types allow.                   *)
THEOREM TypeCorrect == Spec => []TypeOK
<1>1. IInv => TypeOK
  BY DEF IInv, Types, SocketTypes, ServerTypes, ClientTypes, Buffers, TypeOK, At
<1> QED
  BY <1>1, Invariant, PTL

(* Every thread handles the socket it was created for, and every open      *)
(* socket is accounted for, as long as the server runs.                    *)
THEOREM SocketsAlwaysOwned == Spec => []SocketsOwned
<1>1. IInv => SocketsOwned
  BY DEF IInv
<1> QED
  BY <1>1, Invariant, PTL

-----------------------------------------------------------------------------
(* The refinement of EchoService.  What a client has said is, in order,    *)
(* what it has heard, what is on the way back to it, what its thread       *)
(* holds, and what is on the way to the server; of a client that is gone   *)
(* nothing is claimed, nor after a thread has read beyond its buffer.      *)

Echoed(c) == heard[c] \o (down[c] \o (buffer[c] \o up[c]))

Conversing ==
  \A c \in Clients :
    /\ at[c] \in {"type", "send", "recv"} => peer[c] = "open"
    /\ ~ overread /\ at[c] # "gone" => said[c] = Echoed(c)

LEMMA Assoc ==
  ASSUME NEW q \in Stream, NEW r \in Stream, NEW s \in Stream
  PROVE  (q \o r) \o s = q \o (r \o s)
BY ConcatAssociative DEF Stream

LEMMA Empty ==
  ASSUME NEW s \in Stream
  PROVE  <<>> \in Stream /\ s \o <<>> = s /\ <<>> \o s = s
BY ConcatEmptySeq DEF Stream

(* What is appended makes a longer sequence of the one it is appended to.  *)
LEMMA AppendedExtends ==
  ASSUME NEW s \in Stream, NEW r \in Stream
  PROVE  /\ Echo!IsPrefix(s, s \o r)
         /\ r # <<>> => Echo!IsStrictPrefix(s, s \o r)
<1>1. /\ s \o r \in Seq(Bytes) /\ Len(s \o r) = Len(s) + Len(r)
      /\ Len(s) \in Nat /\ Len(r) \in Nat
      /\ \A k \in 1 .. Len(s) : (s \o r)[k] = s[k]
  BY ConcatProperties DEF Stream
<1>2. SubSeq(s, 1, Len(s)) = SubSeq(s \o r, 1, Len(s))
  BY <1>1 DEF Stream
<1>3. r # <<>> => s # s \o r
  BY ConcatEqualIffEmpty DEF Stream
<1> QED
  BY <1>1, <1>2, <1>3 DEF Echo!IsPrefix, Echo!IsStrictPrefix

(* The streams of one connection.                                          *)
LEMMA StreamsOf ==
  ASSUME Types, NEW c \in Clients
  PROVE  /\ heard[c] \in Stream /\ down[c] \in Stream /\ buffer[c] \in Stream
         /\ up[c] \in Stream /\ said[c] \in Stream /\ line[c] \in Stream
BY DEF Types, SocketTypes, ServerTypes, ClientTypes

(* A step that concerns one connection at most leaves the others.          *)
LEMMA OthersConverse ==
  ASSUME Conversing, NEW c,
         overread => overread',
         \A d \in Clients : d # c =>
           /\ at'[d] = at[d] /\ peer'[d] = peer[d]
           /\ said'[d] = said[d] /\ heard'[d] = heard[d]
           /\ down'[d] = down[d] /\ buffer'[d] = buffer[d] /\ up'[d] = up[d],
         c \in Clients =>
           /\ at'[c] \in {"type", "send", "recv"} => peer'[c] = "open"
           /\ ~ overread' /\ at'[c] # "gone" => said'[c] = Echoed(c)'
  PROVE  Conversing'
BY DEF Conversing, Echoed

LEMMA ReceiveConverses ==
  ASSUME IInv, Conversing, NEW t \in Clients, ServerStep(Receive(t)) PROVE Conversing'
<1> USE DEF IInv, ServerStep, clientVars
<1>1. /\ thread[t] = "recv" /\ sock[t] = t
      /\ UNCHANGED <<peer, down, overread, at, said, heard>>
  BY DEF Receive, ReceivesUp, At, SocketsOwned
<1>2. PICK n \in Readable(up[t]) :
        /\ up' = [up EXCEPT ![t] = AfterFirst(@, n)]
        /\ buffer' = [buffer EXCEPT ![t] = First(up[t], n)]
  BY <1>1 DEF Receive, ReceivesUp
<1>3. buffer[t] = <<>> /\ buffer'[t] \o up'[t] = up[t]
  BY <1>1, <1>2, Received DEF Buffers, Types, SocketTypes, ServerTypes
<1>4. Echoed(t)' = Echoed(t)
  BY <1>1, <1>3, StreamsOf, Empty DEF Echoed
<1> QED
  BY <1>1, <1>2, <1>4, OthersConverse DEF Conversing, Types, SocketTypes, ServerTypes

LEMMA SendConverses ==
  ASSUME IInv, Conversing, NEW t \in Clients, ServerStep(Send(t)) PROVE Conversing'
<1> USE DEF IInv, ServerStep, clientVars
<1>1. /\ alive /\ thread[t] = "send" /\ sock[t] = t
      /\ buffer' = [buffer EXCEPT ![t] = <<>>]
      /\ overread' = (overread \/ Len(buffer[t]) = BufferSize)
      /\ UNCHANGED <<up, at, said, heard>>
  BY DEF Send, SendsDown, At, SocketsOwned
<1>2. PICK bytes \in Sendable(buffer[t]) : SendsDown(t, bytes)
  BY <1>1 DEF Send
<1>3. at[t] # "connect"
  BY <1>1 DEF ConnectedOnce, Threadless
<1>4. /\ at[t] # "gone" => peer[t] = "open"
      /\ peer[t] = "open" => peer' = peer /\ down' = [down EXCEPT ![t] = @ \o bytes]
      /\ \A d \in Clients : d # t => peer'[d] = peer[d] /\ down'[d] = down[d]
  BY <1>2, <1>3 DEF SendsDown, Conversing, Types, SocketTypes, ClientTypes
<1>5. ASSUME ~ overread', at[t] # "gone" PROVE said[t] = Echoed(t)'
  <2>1. Len(buffer[t]) < BufferSize
    <3>1. Len(buffer[t]) \in Nat /\ Len(buffer[t]) <= BufferSize
      BY StreamsOf DEF Buffers, Stream
    <3>2. Len(buffer[t]) # BufferSize
      BY <1>1, <1>5
    <3> QED
      BY <3>1, <3>2, Sizes
  <2>2. bytes = buffer[t]
    BY <2>1, Sent
  <2>3. heard'[t] = heard[t] /\ up'[t] = up[t] /\ buffer'[t] = <<>>
        /\ down'[t] = down[t] \o buffer[t]
    BY <1>1, <1>4, <1>5, <2>2 DEF Types, ServerTypes, SocketTypes
  <2>4. Echoed(t)' = heard[t] \o ((down[t] \o buffer[t]) \o up[t])
    BY <2>3, StreamsOf, Empty DEF Echoed
  <2>5. (down[t] \o buffer[t]) \o up[t] = down[t] \o (buffer[t] \o up[t])
    BY StreamsOf, Assoc, ZenonT(60)
  <2>6. Echoed(t) = heard[t] \o (down[t] \o (buffer[t] \o up[t]))
    BY DEF Echoed
  <2>7. said[t] = Echoed(t)
    BY <1>1, <1>5 DEF Conversing
  <2> QED
    BY <2>4, <2>5, <2>6, <2>7
<1> QED
  BY <1>1, <1>4, <1>5, OthersConverse DEF Conversing, Types, ServerTypes

LEMMA SendLineConverses ==
  ASSUME IInv, Conversing, NEW c \in Clients, ClientStep(SendLine(c))
  PROVE  Conversing' /\ (Echo!Say(c) \/ UNCHANGED <<said, heard, overread>>)
<1> USE DEF IInv, ClientStep
<1>1. /\ at[c] = "send" /\ at' = [at EXCEPT ![c] = "recv"]
      /\ up' = [up EXCEPT ![c] = @ \o line[c]]
      /\ said' = [said EXCEPT ![c] = @ \o line[c]]
      /\ UNCHANGED <<peer, down, heard, buffer, overread>>
  BY DEF SendLine, SendsUp, Goes, serverVars
<1>2. /\ said'[c] = said[c] \o line[c] /\ up'[c] = up[c] \o line[c]
      /\ \A d \in Clients : d # c => said'[d] = said[d] /\ up'[d] = up[d] /\ at'[d] = at[d]
  BY <1>1 DEF Types, SocketTypes, ClientTypes
<1>3. Echoed(c)' = Echoed(c) \o line[c]
  <2>1. Echoed(c)' = heard[c] \o (down[c] \o (buffer[c] \o (up[c] \o line[c])))
    BY <1>1, <1>2 DEF Echoed
  <2>2. /\ heard[c] \in Stream /\ down[c] \in Stream /\ buffer[c] \in Stream
        /\ up[c] \in Stream /\ line[c] \in Stream
    BY StreamsOf
  <2> DEFINE bu == buffer[c] \o up[c]
             dbu == down[c] \o bu
  <2>3. bu \in Stream /\ dbu \in Stream
    BY ONLY <2>2, Joined
  <2>4. bu \o line[c] = buffer[c] \o (up[c] \o line[c])
    BY ONLY <2>2, Assoc, ZenonT(60)
  <2> HIDE DEF bu
  <2>5. dbu \o line[c] = down[c] \o (bu \o line[c])
    BY ONLY <2>2, <2>3, Assoc, ZenonT(60)
  <2> HIDE DEF dbu
  <2>6. (heard[c] \o dbu) \o line[c] = heard[c] \o (dbu \o line[c])
    <3>1. heard[c] \in Stream /\ dbu \in Stream /\ line[c] \in Stream
      BY ONLY <2>2, <2>3
    <3> QED
      BY ONLY <3>1, Assoc
  <2>7. Echoed(c) = heard[c] \o dbu
    BY DEF Echoed, dbu, bu
  <2> QED
    BY <2>1, <2>4, <2>5, <2>6, <2>7
<1>4. Conversing'
  BY <1>1, <1>2, <1>3, OthersConverse, ZenonT(60) DEF Conversing, Types, ClientTypes
<1>5. CASE line[c] = <<>>
  <2>1. said'[c] = said[c]
    BY <1>2, <1>5, StreamsOf, Empty
  <2>2. said' = said
    BY <1>1, <2>1 DEF Types, ClientTypes
  <2> QED
    BY <1>1, <1>4, <2>2
<1>6. CASE line[c] # <<>>
  <2>1. Echo!IsStrictPrefix(said[c], said'[c])
    BY <1>2, <1>6, StreamsOf, AppendedExtends
  <2>2. Echo!Say(c)
    BY <1>1, <1>2, <2>1 DEF Echo!Say, Echo!Extends
  <2> QED
    BY <1>4, <2>2
<1> QED
  BY <1>5, <1>6

LEMMA ShowConverses ==
  ASSUME IInv, Conversing, NEW c \in Clients, ClientStep(Show(c))
  PROVE  Conversing' /\ (overread' \/ Echo!Hear(c))
<1> USE DEF IInv, ClientStep
<1>1. PICK n \in Readable(down[c]) :
        /\ down' = [down EXCEPT ![c] = AfterFirst(@, n)]
        /\ heard' = [heard EXCEPT ![c] = @ \o First(down[c], n)]
        /\ at[c] = "recv" /\ at' = [at EXCEPT ![c] = "type"]
        /\ UNCHANGED <<peer, up, said, buffer, overread>>
  BY DEF Show, ReceivesDown, Goes, serverVars
<1> DEFINE f == First(down[c], n)
           a == AfterFirst(down[c], n)
<1>2. /\ heard[c] \in Stream /\ down[c] \in Stream /\ buffer[c] \o up[c] \in Stream
      /\ f \in Stream /\ a \in Stream /\ f # <<>> /\ f \o a = down[c]
  BY StreamsOf, Received, Joined
<1>3. /\ heard'[c] = heard[c] \o f /\ down'[c] = a
      /\ \A e \in Clients : e # c => heard'[e] = heard[e] /\ down'[e] = down[e] /\ at'[e] = at[e]
  BY <1>1 DEF Types, SocketTypes, ClientTypes
<1>4. Echoed(c)' = (heard[c] \o f) \o (a \o (buffer[c] \o up[c]))
  BY <1>1, <1>3 DEF Echoed
<1>5. (heard[c] \o f) \o (a \o (buffer[c] \o up[c]))
        = heard[c] \o ((f \o a) \o (buffer[c] \o up[c]))
  <2> DEFINE rest == buffer[c] \o up[c]
  <2>1. rest \in Stream
    BY <1>2
  <2> HIDE DEF f, a, rest
  <2>2. (f \o a) \o rest = f \o (a \o rest)
    BY <1>2, <2>1, Assoc
  <2>3. a \o rest \in Stream
    BY <1>2, <2>1, Joined
  <2>4. (heard[c] \o f) \o (a \o rest) = heard[c] \o (f \o (a \o rest))
    BY <1>2, <2>3, Assoc, ZenonT(60)
  <2> QED
    BY <2>2, <2>4 DEF rest
<1>6. Echoed(c)' = Echoed(c)
  BY <1>2, <1>4, <1>5 DEF Echoed
<1>7. Conversing'
  BY <1>1, <1>3, <1>6, OthersConverse DEF Conversing, Types, ClientTypes
<1>8. ASSUME ~ overread' PROVE Echo!Hear(c)
  <2>1. said[c] = (heard[c] \o f) \o (a \o (buffer[c] \o up[c]))
    BY <1>1, <1>4, <1>6, <1>8 DEF Conversing
  <2>2. heard[c] \o f \in Stream /\ a \o (buffer[c] \o up[c]) \in Stream
    BY <1>2, Joined
  <2>3. Echo!IsPrefix(heard'[c], said[c])
    BY <1>3, <2>1, <2>2, AppendedExtends
  <2>4. Echo!IsStrictPrefix(heard[c], heard'[c])
    BY <1>2, <1>3, AppendedExtends
  <2> QED
    BY <1>1, <1>3, <2>3, <2>4 DEF Echo!Hear, Echo!Extends
<1> QED
  BY <1>7, <1>8

LEMMA ConnectConverses ==
  ASSUME IInv, Conversing, NEW c \in Clients, ClientStep(Connect(c))
  PROVE  Conversing'
<1> USE DEF IInv, ClientStep
<1>1. /\ at[c] = "connect" /\ at' = [at EXCEPT ![c] = "type"]
      /\ peer' = [peer EXCEPT ![c] = "open"]
      /\ UNCHANGED <<up, down, said, heard, buffer, overread>>
  BY DEF Connect, Connects, Goes, serverVars
<1>2. Echoed(c)' = Echoed(c)
  BY <1>1 DEF Echoed
<1> QED
  BY <1>1, <1>2, OthersConverse DEF Conversing, Types, ClientTypes, SocketTypes

LEMMA DiesConverses ==
  ASSUME IInv, Conversing, NEW c \in Clients, ClientStep(Dies(c))
  PROVE  Conversing'
<1> USE DEF IInv, ClientStep
<1>1. /\ at' = [at EXCEPT ![c] = "gone"]
      /\ \A d \in Clients : d # c => peer'[d] = peer[d] /\ down'[d] = down[d]
      /\ UNCHANGED <<up, said, heard, buffer, overread>>
  BY DEF Dies, ClosesUp, Goes, serverVars, Types, SocketTypes
<1> QED
  BY <1>1, OthersConverse DEF Types, ClientTypes

(* The other steps move no bytes.                                          *)
LEMMA StillConverses ==
  ASSUME Conversing, UNCHANGED <<at, peer, said, heard, down, buffer, up, overread>>
  PROVE  Conversing'
BY DEF Conversing, Echoed

LEMMA TypeLineConverses ==
  ASSUME IInv, Conversing, NEW c \in Clients, ClientStep(TypeLine(c))
  PROVE  Conversing' /\ UNCHANGED <<said, heard, overread>>
<1> USE DEF IInv, ClientStep
<1>1. /\ at[c] = "type" /\ at' = [at EXCEPT ![c] = "send"]
      /\ UNCHANGED <<peer, up, down, said, heard, buffer, overread>>
  BY DEF TypeLine, Goes, serverVars, sockets
<1>2. Echoed(c)' = Echoed(c)
  BY <1>1 DEF Echoed
<1> QED
  BY <1>1, <1>2, OthersConverse DEF Conversing, Types, ClientTypes

LEMMA EchoStep ==
  ASSUME IInv, Conversing, [Next]_vars
  PROVE  Conversing' /\ [Echo!EchoNext]_<<said, heard, overread>>
<1> USE DEF ServerStep, ClientStep, serverVars, clientVars, sockets
<1> DEFINE Silent == UNCHANGED <<said, heard>> /\ (overread' \/ overread' = overread)
<1>1. ASSUME Silent PROVE [Echo!EchoNext]_<<said, heard, overread>>
  BY <1>1 DEF Echo!EchoNext
<1>2. ASSUME ServerStep(Main) PROVE Conversing' /\ Silent
  BY <1>2, StillConverses DEF Main, Accept, Create, Accepts
<1>3. ASSUME NEW t \in Clients, ServerStep(HandleClient(t)) PROVE Conversing' /\ Silent
  <2>1. CASE Start(t)
    BY <1>3, <2>1, StillConverses DEF Start
  <2>2. CASE Receive(t)
    BY <1>3, <2>2, ReceiveConverses DEF Receive, ReceivesUp
  <2>3. CASE Send(t)
    BY <1>3, <2>3, SendConverses DEF Send, IInv, Types, ServerTypes
  <2>4. CASE SendKills(t)
    BY <1>3, <2>4, StillConverses DEF SendKills
  <2>5. CASE Leave(t)
    BY <1>3, <2>5, StillConverses DEF Leave, ClosesDown
  <2> QED
    BY <1>3, <2>1, <2>2, <2>3, <2>4, <2>5 DEF HandleClient
<1>4. ASSUME NEW c \in Clients, ClientStep(TypeLine(c)) PROVE Conversing' /\ Silent
  BY <1>4, TypeLineConverses
<1>5. ASSUME NEW c \in Clients, ClientStep(Connect(c)) PROVE Conversing' /\ Silent
  BY <1>5, ConnectConverses DEF Connect
<1>6. ASSUME NEW c \in Clients, ClientStep(SendLine(c))
      PROVE  Conversing' /\ [Echo!EchoNext]_<<said, heard, overread>>
  BY <1>6, SendLineConverses DEF Echo!EchoNext
<1>7. ASSUME NEW c \in Clients, ClientStep(Show(c))
      PROVE  Conversing' /\ [Echo!EchoNext]_<<said, heard, overread>>
  BY <1>7, ShowConverses DEF Echo!EchoNext
<1>8. ASSUME NEW c \in Clients, ClientStep(Dies(c)) PROVE Conversing' /\ Silent
  BY <1>8, DiesConverses DEF Dies
<1>9. ASSUME NEW c \in Clients, ClientStep(Converse(c, alive))
      PROVE  Conversing' /\ [Echo!EchoNext]_<<said, heard, overread>>
  <2> HIDE DEF Silent
  <2>1. \/ ClientStep(Connect(c)) \/ ClientStep(SendLine(c)) \/ ClientStep(Show(c))
        \/ ClientStep(Dies(c))
    BY <1>9 DEF Converse, Overflow, HangUp
  <2> QED
    BY <2>1, <1>1, <1>5, <1>6, <1>7, <1>8
<1>10. ASSUME UNCHANGED vars PROVE Conversing' /\ Silent
  BY <1>10, StillConverses DEF vars
<1> HIDE DEF Silent
<1> QED
  BY <1>1, <1>2, <1>3, <1>4, <1>8, <1>9, <1>10 DEF Next

LEMMA EchoInitial == Init => Conversing /\ Echo!EchoInit
<1> SUFFICES ASSUME Init PROVE Conversing /\ Echo!EchoInit
  OBVIOUS
<1>1. \A c \in Clients : /\ at[c] = "connect" /\ said[c] = <<>> /\ heard[c] = <<>>
                         /\ down[c] = <<>> /\ buffer[c] = <<>> /\ up[c] = <<>>
  BY DEF Init, SocketsInit, ServerInit, ClientInit
<1>2. <<>> \o <<>> = <<>>
  BY Empty DEF Stream
<1>3. Conversing
  BY <1>1, <1>2 DEF Conversing, Echoed
<1> QED
  BY <1>3 DEF Init, ServerInit, ClientInit, Echo!EchoInit

(* README.md: "server sends back whatever the client sends".  Every step   *)
(* of the server and its clients is one of EchoService or changes nothing  *)
(* that it tells, for any number of clients, with and without faults.      *)
THEOREM EchoImplemented == Spec => ImplementsEcho
<1>1. IInv /\ Conversing /\ [Next]_vars
        => Conversing' /\ [Echo!EchoNext]_<<said, heard, overread>>
  BY EchoStep
<1> QED
  BY <1>1, EchoInitial, Invariant, PTL DEF Spec, ImplementsEcho, Echo!EchoSpec

LEMMA AlwaysConversing == Spec => []Conversing
<1>1. IInv /\ Conversing /\ [Next]_vars => Conversing'
  BY EchoStep
<1> QED
  BY <1>1, EchoInitial, Invariant, PTL DEF Spec

-----------------------------------------------------------------------------
(* Nobody waits for the other.  That an echo arrives and a disconnection is*)
(* handled under a fair scheduler rests on two facts that hold under every *)
(* scheduler: a client and its thread never both wait for bytes, and a     *)
(* thread's steps bring it nearer to the end of what it was sent.          *)

PeersKnown ==
  \A c \in Clients :
    /\ at[c] \in {"type", "send", "recv"} => peer[c] = "open"
    /\ at[c] \in {"connect", "gone"} => peer[c] # "open"

Working(t) == thread[t] \in {"start", "recv", "send"}

NotForgotten ==
  alive => \A c \in Clients :
    at[c] \in {"type", "send", "recv"} =>
      Waiting(c) \/ accepted = c \/ c \in unhandled \/ Working(c)

WaitInv == PeersKnown /\ NotForgotten

(* A thread can go on: its recv has bytes, or the end of the stream.       *)
ThreadGoesOn(t) ==
  Working(t) /\ (thread[t] = "recv" => up[t] # <<>> \/ AtEnd(t))

(* A client that waits for an echo it is owed has a connection that waits  *)
(* for a thread, or was left without one, or a thread that can go on, or   *)
(* bytes to read; and the thread of a client that is gone can go on.       *)
NobodyWaitsForTheOther ==
  alive => \A c \in Clients :
    /\ at[c] = "recv" /\ Owed(c) =>
         \/ Waiting(c) \/ accepted = c \/ c \in unhandled
         \/ ThreadGoesOn(c) \/ down[c] # <<>>
    /\ at[c] = "gone" /\ thread[c] \notin {"none", "done"} => ThreadGoesOn(c)

LEMMA WaitServerStep ==
  ASSUME IInv, WaitInv,
         ServerStep(Main) \/ \E t \in Clients : ServerStep(HandleClient(t))
  PROVE  WaitInv'
<1> USE DEF IInv, WaitInv, ServerStep, clientVars
<1>1. CASE Accept
  <2>1. PICK c \in Clients : Accepts(c) /\ accepted' = c
    BY <1>1 DEF Accept
  <2>2. UNCHANGED <<peer, up, down, alive, thread, buffer, unhandled, at>>
    BY <1>1, <2>1 DEF Accept, Accepts
  <2>3. accepted = Nobody
    BY <1>1 DEF Accept
  <2>4. /\ queue # <<>> /\ c = queue[1] /\ Len(queue') = Len(queue) - 1
        /\ \A k \in 1 .. Len(queue') : queue'[k] = queue[k + 1]
    BY <2>1 DEF Accepts, Types, SocketTypes
  <2>5. \A d \in Clients : Waiting(d) => d = c \/ Waiting(d)'
    <3>1. Len(queue) \in Nat
      BY DEF Types, SocketTypes
    <3>2. ASSUME NEW k \in 1 .. Len(queue), k # 1
          PROVE  k - 1 \in 1 .. Len(queue') /\ queue'[k - 1] = queue[k]
      BY <2>4, <3>1, <3>2
    <3> QED
      BY <2>4, <3>2 DEF Waiting
  <2>6. PeersKnown'
    BY <2>2 DEF PeersKnown
  <2>7. NotForgotten'
    BY <2>1, <2>2, <2>3, <2>5, NobodyAssumption DEF NotForgotten, Working
  <2> QED
    BY <2>6, <2>7
<1>2. CASE Create
  <2>1. /\ UNCHANGED <<queue, peer, up, down, alive, buffer, at>>
        /\ accepted \in Clients
        /\ \/ thread' = [thread EXCEPT ![accepted] = "start"] /\ unhandled' = unhandled
           \/ thread' = thread /\ unhandled' = unhandled \cup {accepted}
    BY <1>2 DEF Create, sockets, Types, ServerTypes
  <2>2. PeersKnown'
    BY <2>1 DEF PeersKnown
  <2>3. NotForgotten'
    BY <2>1 DEF NotForgotten, Working, Waiting, Types, ServerTypes
  <2> QED
    BY <2>2, <2>3
<1>3. ASSUME NEW t \in Clients, HandleClient(t) PROVE WaitInv'
  <2>1. UNCHANGED <<accepted, unhandled, at>>
    BY <1>3 DEF HandleClient, Start, Receive, Send, SendKills, Leave
  <2>2. CASE Start(t)
    <3>1. /\ UNCHANGED <<queue, peer, up, down, alive, buffer>>
          /\ thread' = [thread EXCEPT ![t] = "recv"]
      BY <2>2 DEF Start, GoTo, sockets
    <3> QED
      BY <2>1, <3>1 DEF PeersKnown, NotForgotten, Working, Waiting, Types, ServerTypes
  <2>3. CASE Receive(t)
    <3>1. /\ sock[t] = t /\ UNCHANGED <<queue, peer, down, alive>>
          /\ thread' = [thread EXCEPT ![t] = "send"]
      BY <2>3 DEF Receive, ReceivesUp, At, GoTo, SocketsOwned
    <3> QED
      BY <2>1, <3>1 DEF PeersKnown, NotForgotten, Working, Waiting, Types, ServerTypes
  <2>4. CASE Send(t)
    <3>1. /\ sock[t] = t /\ thread[t] = "send" /\ UNCHANGED <<queue, alive>>
          /\ thread' = [thread EXCEPT ![t] = "recv"]
      BY <2>4 DEF Send, SendsDown, At, GoTo, SocketsOwned
    <3>2. PICK bytes \in Sendable(buffer[t]) : SendsDown(t, bytes)
      BY <2>4, <3>1 DEF Send
    <3>3. /\ \A c \in Clients \ {t} : peer'[c] = peer[c]
          /\ peer'[t] = "open" <=> peer[t] = "open"
      BY <3>2 DEF SendsDown, Types, SocketTypes, PeerStates
    <3>4. PeersKnown'
      BY <2>1, <3>3 DEF PeersKnown
    <3>5. NotForgotten'
      BY <2>1, <3>1 DEF NotForgotten, Working, Waiting, Types, ServerTypes
    <3> QED
      BY <3>4, <3>5
  <2>5. CASE SendKills(t)
    BY <2>1, <2>5 DEF SendKills, PeersKnown, NotForgotten
  <2>6. CASE Leave(t)
    <3>1. /\ sock[t] = t /\ AtEnd(t) /\ UNCHANGED <<queue, peer, up, down, buffer, alive>>
          /\ thread' = [thread EXCEPT ![t] = "done"]
      BY <2>6 DEF Leave, ClosesDown, At, GoTo, SocketsOwned
    <3>2. at[t] \notin {"type", "send", "recv"}
      BY <3>1 DEF AtEnd, PeersKnown
    <3> QED
      BY <2>1, <3>1, <3>2 DEF PeersKnown, NotForgotten, Working, Waiting, Types,
                              ServerTypes
  <2> QED
    BY <1>3, <2>2, <2>3, <2>4, <2>5, <2>6 DEF HandleClient
<1> QED
  BY <1>1, <1>2, <1>3 DEF Main

LEMMA WaitClientStep ==
  ASSUME IInv, WaitInv, NEW c \in Clients,
         \/ ClientStep(TypeLine(c)) \/ ClientStep(Converse(c, alive))
         \/ ClientStep(Dies(c))
  PROVE  WaitInv'
<1> USE DEF IInv, WaitInv, ClientStep, serverVars
<1>1. UNCHANGED <<alive, accepted, thread, buffer, unhandled>>
  OBVIOUS
<1>2. CASE TypeLine(c)
  <2>1. UNCHANGED <<queue, peer, up, down>> /\ at[c] = "type" /\ at' = [at EXCEPT ![c] = "send"]
    BY <1>2 DEF TypeLine, Goes, sockets
  <2> QED
    BY <1>1, <2>1 DEF PeersKnown, NotForgotten, Working, Waiting, Types, ClientTypes
<1>3. CASE Connect(c) /\ alive
  <2>1. /\ UNCHANGED <<up, down>> /\ at' = [at EXCEPT ![c] = "type"]
        /\ peer' = [peer EXCEPT ![c] = "open"] /\ queue' = Append(queue, c)
    BY <1>3 DEF Connect, Connects, Goes
  <2>2. \A d \in Clients : Waiting(d) \/ d = c => Waiting(d)'
    <3>1. /\ Len(queue') = Len(queue) + 1 /\ Len(queue) \in Nat
          /\ \A k \in 1 .. Len(queue) : queue'[k] = queue[k]
          /\ queue'[Len(queue) + 1] = c
      BY <2>1 DEF Types, SocketTypes
    <3> QED
      BY <3>1 DEF Waiting
  <2>3. PeersKnown'
    BY <1>1, <2>1 DEF PeersKnown, Types, ClientTypes, SocketTypes
  <2>4. NotForgotten'
    BY <1>1, <2>1, <2>2 DEF NotForgotten, Working, Types, ClientTypes
  <2> QED
    BY <2>3, <2>4
<1>4. CASE SendLine(c) /\ alive
  <2>1. /\ UNCHANGED <<queue, peer, down>> /\ at[c] = "send" /\ at' = [at EXCEPT ![c] = "recv"]
    BY <1>4 DEF SendLine, SendsUp, Goes
  <2> QED
    BY <1>1, <2>1 DEF PeersKnown, NotForgotten, Working, Waiting, Types, ClientTypes
<1>5. CASE Show(c)
  <2>1. /\ UNCHANGED <<queue, peer, up>> /\ at[c] = "recv" /\ at' = [at EXCEPT ![c] = "type"]
        /\ \A d \in Clients \ {c} : down'[d] = down[d]
    BY <1>5 DEF Show, ReceivesDown, Goes, Types, SocketTypes
  <2> QED
    BY <1>1, <2>1 DEF PeersKnown, NotForgotten, Working, Waiting, Types, ClientTypes
<1>6. CASE Dies(c)
  <2>1. /\ UNCHANGED <<queue, up>> /\ at' = [at EXCEPT ![c] = "gone"]
        /\ \A d \in Clients \ {c} : down'[d] = down[d] /\ peer'[d] = peer[d]
        /\ peer'[c] # "open"
    BY <1>6 DEF Dies, ClosesUp, Goes, Types, SocketTypes
  <2> QED
    BY <1>1, <2>1 DEF PeersKnown, NotForgotten, Working, Waiting, Types, ClientTypes
<1> QED
  BY <1>2, <1>3, <1>4, <1>5, <1>6 DEF Converse, Overflow, HangUp

LEMMA WaitInvariant == Spec => [](IInv /\ WaitInv)
<1>1. Init => WaitInv
  BY DEF Init, SocketsInit, ServerInit, ClientInit, WaitInv, PeersKnown, NotForgotten
<1>2. IInv /\ WaitInv /\ [Next]_vars => WaitInv'
  <2> SUFFICES ASSUME IInv, WaitInv, [Next]_vars PROVE WaitInv'
    OBVIOUS
  <2>1. CASE UNCHANGED vars
    BY <2>1 DEF vars, sockets, serverVars, clientVars, WaitInv, PeersKnown, NotForgotten,
                Working, Waiting
  <2> QED
    BY <2>1, WaitServerStep, WaitClientStep DEF Next
<1> QED
  BY <1>1, <1>2, Invariant, PTL DEF Spec

(* README.md: "server sends back whatever the client sends" and "proper    *)
(* handling of client disconnection", for any number of clients: as long as*)
(* the server lives, a client that listens for an echo it is owed and its  *)
(* thread do not wait for each other, and no connection is forgotten but   *)
(* for those whose thread could not be created.                            *)
THEOREM NobodyEverWaitsForTheOther == Spec => []NobodyWaitsForTheOther
<1>1. ASSUME IInv, Conversing, NEW c \in Clients, at[c] = "recv", Owed(c)
      PROVE  up[c] # <<>> \/ buffer[c] # <<>> \/ down[c] # <<>>
  <2> SUFFICES ASSUME up[c] = <<>>, buffer[c] = <<>>, down[c] = <<>> PROVE FALSE
    OBVIOUS
  <2>1. ~ overread /\ heard[c] # said[c]
    BY <1>1 DEF Owed
  <2>2. said[c] = heard[c] \o (<<>> \o (<<>> \o <<>>))
    BY <1>1, <2>1 DEF Conversing, Echoed
  <2>3. heard[c] \in Stream
    BY <1>1, StreamsOf DEF IInv
  <2>4. <<>> \o <<>> = <<>> /\ heard[c] \o <<>> = heard[c]
    BY <2>3, Empty
  <2> QED
    BY <2>1, <2>2, <2>4
<1>2. IInv /\ WaitInv /\ Conversing => NobodyWaitsForTheOther
  <2> SUFFICES ASSUME IInv, WaitInv, Conversing, alive, NEW c \in Clients
               PROVE  /\ at[c] = "recv" /\ Owed(c) =>
                           \/ Waiting(c) \/ accepted = c \/ c \in unhandled
                           \/ ThreadGoesOn(c) \/ down[c] # <<>>
                      /\ at[c] = "gone" /\ thread[c] \notin {"none", "done"}
                           => ThreadGoesOn(c)
    BY DEF NobodyWaitsForTheOther
  <2>1. buffer[c] = <<>> <=> thread[c] # "send"
    BY DEF IInv, Buffers
  <2> QED
    BY <1>1, <2>1 DEF IInv, WaitInv, PeersKnown, NotForgotten, Working, ThreadGoesOn,
                      AtEnd, Types, ServerTypes
<1> QED
  BY <1>2, WaitInvariant, AlwaysConversing, PTL

(* Steps a thread may take before it has sent back what it was sent and    *)
(* found the end.                                                          *)
ToDo(t) ==
  2 * Len(up[t]) + (CASE thread[t] \in {"start", "send"} -> 2
                      [] thread[t] = "recv" -> 1
                      [] OTHER -> 0)

(* A thread has less to do with each of its steps, and more only when its  *)
(* client sends or it is created.                                          *)
ThreadsNearStep ==
  \A t \in Clients :
    /\ ToDo(t) \in Nat
    /\ ServerStep(HandleClient(t)) => ToDo(t)' < ToDo(t) \/ ~ alive'
    /\ ToDo(t)' > ToDo(t) => at[t] = "send" \/ accepted = t
ThreadsNear == [][ThreadsNearStep]_vars

(* The thread of a client that is gone comes to its end, for its client    *)
(* sends no more and each of its steps brings the end nearer.              *)
THEOREM ThreadsAlwaysNear == Spec => ThreadsNear
<1>1. IInv => \A t \in Clients : Len(up[t]) \in Nat /\ ToDo(t) \in Nat
  BY DEF IInv, Types, SocketTypes, Stream, ToDo
<1>2. ASSUME IInv, IInv', NEW t \in Clients, ServerStep(HandleClient(t))
      PROVE  /\ \/ ToDo(t)' < ToDo(t)
                \/ ~ alive' /\ ToDo(t)' = ToDo(t)
             /\ \A u \in Clients \ {t} : ToDo(u)' = ToDo(u)
  <2> USE <1>1, <1>2 DEF IInv, Types, ServerTypes, SocketTypes
  <2>1. CASE Start(t)
    BY <2>1 DEF Start, At, GoTo, sockets, ToDo
  <2>2. CASE Receive(t)
    <3>1. /\ sock[t] = t /\ thread[t] = "recv" /\ thread' = [thread EXCEPT ![t] = "send"]
      BY <2>2 DEF Receive, At, GoTo, SocketsOwned
    <3>2. PICK n \in Readable(up[t]) : up' = [up EXCEPT ![t] = AfterFirst(@, n)]
      BY <2>2, <3>1 DEF Receive, ReceivesUp
    <3>3. n \in 1 .. Len(up[t])
      BY Sizes DEF Readable
    <3>4. Len(AfterFirst(up[t], n)) = Len(up[t]) - n
      BY <3>3 DEF AfterFirst, Stream
    <3> QED
      BY <3>1, <3>2, <3>3, <3>4 DEF ToDo
  <2>3. CASE Send(t)
    BY <2>3 DEF Send, SendsDown, At, GoTo, ToDo
  <2>4. CASE SendKills(t)
    BY <2>4 DEF SendKills, ToDo
  <2>5. CASE Leave(t)
    BY <2>5 DEF Leave, ClosesDown, At, GoTo, ToDo
  <2> QED
    BY <1>2, <2>1, <2>2, <2>3, <2>4, <2>5 DEF ServerStep, HandleClient
<1>3. ASSUME IInv, NEW t \in Clients, [Next]_vars,
             ~ \E u \in Clients : ServerStep(HandleClient(u))
      PROVE  ToDo(t)' > ToDo(t) => at[t] = "send" \/ accepted = t
  <2> SUFFICES ASSUME at[t] # "send", accepted # t PROVE ToDo(t)' = ToDo(t)
    BY <1>1, <1>3
  <2> USE DEF IInv, Types, ServerTypes, SocketTypes
  <2>1. CASE ServerStep(Main)
    <3>1. up' = up /\ thread'[t] = thread[t]
      <4>1. CASE Accept
        BY <4>1 DEF Accept, Accepts
      <4>2. CASE Create
        BY <1>3, <4>2 DEF Create, sockets
      <4> QED
        BY <2>1, <4>1, <4>2 DEF ServerStep, Main
    <3> QED
      BY <3>1 DEF ToDo
  <2>2. ASSUME NEW c \in Clients,
               \/ ClientStep(TypeLine(c)) \/ ClientStep(Converse(c, alive))
               \/ ClientStep(Dies(c))
        PROVE  ToDo(t)' = ToDo(t)
    <3>1. thread' = thread
      BY <2>2 DEF ClientStep, serverVars
    <3>2. up' = up \/ SendLine(c)
      BY <2>2 DEF ClientStep, TypeLine, Converse, Dies, Connect, Show, Overflow, HangUp,
                  Connects, ReceivesDown, ClosesUp, sockets
    <3>3. SendLine(c) => up'[t] = up[t]
      BY DEF SendLine, SendsUp
    <3> QED
      BY <3>1, <3>2, <3>3 DEF ToDo
  <2>3. CASE UNCHANGED vars
    BY <2>3 DEF vars, sockets, serverVars, ToDo
  <2> QED
    BY <1>3, <2>1, <2>2, <2>3 DEF Next
<1>4. IInv /\ IInv' /\ [Next]_vars => [ThreadsNearStep]_vars
  <2> SUFFICES ASSUME IInv, IInv', [Next]_vars, NEW t \in Clients
               PROVE  /\ ToDo(t) \in Nat
                      /\ ServerStep(HandleClient(t)) => ToDo(t)' < ToDo(t) \/ ~ alive'
                      /\ ToDo(t)' > ToDo(t) => at[t] = "send" \/ accepted = t
    BY DEF ThreadsNearStep
  <2>1. ToDo(t) \in Nat /\ ToDo(t)' \in Nat
    BY DEF IInv, Types, SocketTypes, Stream, ToDo
  <2>2. CASE \E u \in Clients : ServerStep(HandleClient(u))
    <3>1. PICK u \in Clients : ServerStep(HandleClient(u))
      BY <2>2
    <3>2. ToDo(t)' <= ToDo(t)
      BY <1>2, <2>1, <3>1
    <3> QED
      BY <1>2, <2>1, <3>2
  <2>3. CASE ~ \E u \in Clients : ServerStep(HandleClient(u))
    BY <1>3, <2>1, <2>3
  <2> QED
    BY <2>2, <2>3
<1>5. ThreadsNear <=> [][ThreadsNearStep]_vars
  BY DEF ThreadsNear
<1> QED
  BY <1>4, <1>5, Invariant, PTL DEF Spec
=============================================================================
