--------------------------- MODULE StreamContract ---------------------------
(***************************************************************************)
(* What Client.Stream promises the code that ranges over it, and all that  *)
(* Chat.drive relies on: the subscription hook runs once and before any    *)
(* event, an error or a close is the last thing that happens, and a stream *)
(* whose every frame was lost does not close as if nothing had been said.  *)
(***************************************************************************)
EXTENDS Naturals

VARIABLES
  phase,    (* opening, live once the hook has run, over.                    *)
  yielded,  (* Events handed to the caller.                                  *)
  lost,     (* A frame was dropped.                                          *)
  outcome   (* How it went over: closed, error, or left by the caller.       *)

contract == <<phase, yielded, lost, outcome>>

Init ==
  /\ phase = "opening"
  /\ yielded = 0
  /\ lost = FALSE
  /\ outcome = "none"

Over(how) == phase' = "over" /\ outcome' = how

Fail ==
  /\ phase # "over"
  /\ Over("error")
  /\ UNCHANGED <<yielded, lost>>

Subscribe ==
  /\ phase = "opening"
  /\ phase' = "live"
  /\ UNCHANGED <<yielded, lost, outcome>>

Deliver ==
  /\ phase = "live"
  /\ yielded' = yielded + 1
  /\ UNCHANGED <<phase, outcome>> \/ Over("left")
  /\ UNCHANGED lost

\* The hook of a dropped frame may refuse to go on.
Drop ==
  /\ phase = "live"
  /\ lost' = TRUE
  /\ UNCHANGED <<phase, outcome>> \/ Over("error")
  /\ UNCHANGED yielded

Close ==
  /\ phase = "live"
  /\ lost => yielded > 0
  /\ Over("closed")
  /\ UNCHANGED <<yielded, lost>>

Next == Fail \/ Subscribe \/ Deliver \/ Drop \/ Close

Spec == Init /\ [][Next]_contract
=============================================================================
