----------------------------- MODULE EchoService -----------------------------
(***************************************************************************)
(* What a client of TCP-chat-server may expect, whoever else is connected: *)
(* it hears the bytes it has said, in their order, each at most once.      *)
(* Nothing is promised any more once something has spoiled the service.    *)
(***************************************************************************)
EXTENDS Sequences, SequencesExt

CONSTANT Clients

VARIABLES
  said,    (* the bytes each client has sent                               *)
  heard,   (* the bytes each client has got back                           *)
  spoiled

EchoInit ==
  /\ said = [c \in Clients |-> <<>>]
  /\ heard = [c \in Clients |-> <<>>]
  /\ spoiled = FALSE

Extends(c, new, old) ==
  /\ IsStrictPrefix(old[c], new[c])
  /\ \A d \in Clients \ {c} : new[d] = old[d]

Say(c) ==
  /\ Extends(c, said', said)
  /\ UNCHANGED <<heard, spoiled>>

Hear(c) ==
  /\ Extends(c, heard', heard)
  /\ IsPrefix(heard'[c], said[c])
  /\ UNCHANGED <<said, spoiled>>

EchoNext == spoiled' \/ \E c \in Clients : Say(c) \/ Hear(c)

EchoSpec == EchoInit /\ [][EchoNext]_<<said, heard, spoiled>>
=============================================================================
