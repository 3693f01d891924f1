---------------------------- MODULE SignalLogger ----------------------------
(***************************************************************************)
(* signal-logger/logger.c: the loop that installs handle_signal, and the   *)
(* handler, which other signals interrupt.  The senders are other          *)
(* programs.  A signal that comes in the middle of printf or fflush calls  *)
(* a handler that calls printf again, which is not reentrant: what stdout  *)
(* holds from then on is undefined.                                        *)
(***************************************************************************)
EXTENDS Integers, Sequences, FiniteSetsExt

CONSTANTS
  NSIG,          (* the loop ends before it                                *)
  Left,          (* SIGKILL and SIGSTOP, and the signals sigaction refuses *)
  Ignored,       (* the signals that do nothing to a program without a     *)
                 (* handler; the others end it                             *)
  Queued,        (* the real-time signals, of which each one sent counts   *)
  MaxSent        (* bound: signals sent                                    *)

VARIABLES
  x,             (* the next signal of the loop                            *)
  pending,       (* for each signal, how many wait to be delivered         *)
  handlers,      (* the calls of handle_signal, innermost last: [sig, pc]  *)
  stdout,        (* printed and not flushed                                *)
  logged,        (* flushed                                                *)
  sent,          (* history: how many of each were sent after it was       *)
                 (* installed                                              *)
  log_status     (* "alive", "killed" by a signal without a handler, or    *)
                 (* "undefined"                                            *)

logVars == <<x, pending, handlers, stdout, logged, sent, log_status>>

Signals == 1 .. NSIG - 1

Init ==
  /\ x = 1
  /\ pending = [s \in Signals |-> 0]
  /\ handlers = <<>>
  /\ stdout = <<>> /\ logged = <<>>
  /\ sent = [s \in Signals |-> 0]
  /\ log_status = "alive"

Installed(s) == s < x /\ s \notin Left

Install ==
  /\ log_status = "alive" /\ handlers = <<>> /\ x < NSIG
  /\ x' = x + 1
  /\ UNCHANGED <<pending, handlers, stdout, logged, sent, log_status>>

allSent == MapThenSumSet(LAMBDA s : sent[s], Signals)

(* A signal that is pending already is not counted again, unless queued.   *)
Send(s) ==
  /\ log_status = "alive" /\ allSent < MaxSent
  /\ IF Installed(s)
     THEN /\ pending' = [pending EXCEPT ![s] = IF s \in Queued THEN @ + 1 ELSE 1]
          /\ sent' = [sent EXCEPT ![s] = @ + 1]
          /\ UNCHANGED log_status
     ELSE /\ log_status' = IF s \in Ignored THEN log_status ELSE "killed"
          /\ UNCHANGED <<pending, sent>>
  /\ UNCHANGED <<x, handlers, stdout, logged>>

(* sa_mask is empty: a handler is interrupted by any other signal.         *)
Deliver(s) ==
  /\ log_status = "alive"
  /\ pending[s] > 0
  /\ \A h \in DOMAIN handlers : handlers[h].sig # s
  /\ pending' = [pending EXCEPT ![s] = @ - 1]
  /\ handlers' = Append(handlers, [sig |-> s, pc |-> "printf"])
  /\ UNCHANGED <<x, stdout, logged, sent, log_status>>

top == Len(handlers)

Running(step) ==
  /\ log_status = "alive"
  /\ handlers # <<>> /\ handlers[top].pc = step
  /\ UNCHANGED <<x, pending, sent>>

At(step) == [handlers EXCEPT ![top] = [sig |-> @.sig, pc |-> step]]

(* The handler calls printf or fflush: undefined when it has interrupted   *)
(* one of them.                                                            *)
Call(step, inside) ==
  /\ Running(step)
  /\ IF \E h \in 1 .. top - 1 : handlers[h].pc \in {"printing", "flushing"}
     THEN log_status' = "undefined" /\ UNCHANGED handlers
     ELSE handlers' = At(inside) /\ UNCHANGED log_status
  /\ UNCHANGED <<stdout, logged>>

CallPrintf == Call("printf", "printing")
CallFflush == Call("fflush", "flushing")

(* They return.                                                            *)
Printf ==
  /\ Running("printing")
  /\ stdout' = Append(stdout, handlers[top].sig)
  /\ handlers' = At("fflush")
  /\ UNCHANGED <<logged, log_status>>

(* Faulty variant: the handler returns without fflush.                     *)
Return ==
  /\ Running("flushing")
  /\ handlers' = SubSeq(handlers, 1, top - 1)
  /\ UNCHANGED <<stdout, logged, log_status>>
Fflush ==
  /\ Running("flushing")
  /\ logged' = logged \o stdout
  /\ stdout' = <<>>
  /\ handlers' = SubSeq(handlers, 1, top - 1)
  /\ UNCHANGED log_status

Next ==
  \/ Install
  \/ CallPrintf \/ Printf \/ CallFflush \/ Fflush
  \/ \E s \in Signals : Send(s) \/ Deliver(s)

-----------------------------------------------------------------------------
(* No signal goes missing while the logger lives and none has come in the  *)
(* middle of a handler's printf or fflush; they may come at any other      *)
(* place of the loop and of the handlers.  When no handler runs, each      *)
(* signal that was sent to its handler is in the log or pending, a queued  *)
(* one as often as it was sent, another at least once and not more often.  *)
SignalsLogged ==
  log_status = "alive" /\ handlers = <<>> =>
    \A s \in Signals :
      LET lines == Cardinality({l \in DOMAIN logged : logged[l] = s})
      IN  /\ lines + pending[s] <= sent[s]
          /\ sent[s] > 0 => lines + pending[s] > 0
          /\ s \in Queued => lines + pending[s] = sent[s]
=============================================================================
