------------------------------ MODULE Slumber -------------------------------
(***************************************************************************)
(* slumber/slumber.c: main and slumber, with an interrupt at any time.     *)
(* Time is counted in ticks.                                               *)
(***************************************************************************)
EXTENDS Integers

CONSTANTS
  Seconds,       (* what main asks for                                     *)
  Ticks,         (* in a second                                            *)
  MaxInterrupts  (* bound: interrupts                                      *)

VARIABLES
  slumber_pc,    (* "start", "handling", "asleep", "woken", "over"; "left" *)
                 (* when the sleep was given up, "killed" by SIGINT before *)
                 (* there is a handler                                     *)
  req,           (* ticks nanosleep is asked for                           *)
  remaining,     (* ticks it still has to sleep                            *)
  elapsed,       (* history: ticks slept                                   *)
  interrupts,
  returned       (* what slumber returns                                   *)

slumberVars == <<slumber_pc, req, remaining, elapsed, interrupts, returned>>

Init ==
  /\ slumber_pc = "start"
  /\ req = 0 /\ remaining = 0 /\ elapsed = 0 /\ interrupts = 0 /\ returned = 0

Handle ==
  /\ slumber_pc = "start"
  /\ slumber_pc' = "handling"
  /\ UNCHANGED <<req, remaining, elapsed, interrupts, returned>>

Sleep(ticks) ==
  /\ slumber_pc' = "asleep"
  /\ req' = ticks /\ remaining' = ticks
  /\ UNCHANGED <<elapsed, interrupts, returned>>

Begin == slumber_pc = "handling" /\ Sleep(Seconds * Ticks)

(* Faulty variant: req is not set to rem.                                  *)
AgainWhole == slumber_pc = "woken" /\ Sleep(req)
Again == slumber_pc = "woken" /\ Sleep(remaining)

Tick ==
  /\ slumber_pc = "asleep" /\ remaining > 0
  /\ remaining' = remaining - 1
  /\ elapsed' = elapsed + 1
  /\ UNCHANGED <<slumber_pc, req, interrupts, returned>>

(* nanosleep fails with EINTR after the handler; elsewhere SIGINT changes  *)
(* nothing.                                                                *)
Interrupt ==
  /\ interrupts < MaxInterrupts
  /\ interrupts' = interrupts + 1
  /\ slumber_pc' = CASE slumber_pc = "start" -> "killed"
                     [] slumber_pc = "asleep" -> "woken"
                     [] OTHER -> slumber_pc
  /\ UNCHANGED <<req, remaining, elapsed, returned>>

(* The seconds of req, as the last call was given it.                      *)
Ends(pc) ==
  /\ slumber_pc' = pc
  /\ returned' = req \div Ticks
  /\ UNCHANGED <<req, remaining, elapsed, interrupts>>

WakeUp == slumber_pc = "asleep" /\ remaining = 0 /\ Ends("over")

OtherError == slumber_pc = "asleep" /\ Ends("left")

Next == Handle \/ Begin \/ Again \/ Tick \/ Interrupt \/ WakeUp \/ OtherError

-----------------------------------------------------------------------------
(* However often it is interrupted, slumber sleeps for the seconds it was  *)
(* asked for, no more and no less, unless nanosleep fails for another      *)
(* reason.  The clock is that of nanosleep: the time a handler takes is    *)
(* not counted.                                                            *)
SleepsItOut == slumber_pc = "over" => elapsed = Seconds * Ticks
=============================================================================
