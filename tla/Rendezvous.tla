----------------------------- MODULE Rendezvous -----------------------------
(***************************************************************************)
(* The arithmetic by which scheduler_run_round (runner/src/scheduler.cpp)  *)
(* chooses the next rendezvous of the two CPUs.  All times are system      *)
(* cycles (ARM7 cycles, half the ARM9's).                                  *)
(***************************************************************************)
EXTENDS Integers

CONSTANTS kIterCap,   \* system cycles per outer iteration (64 in the code)
          kMargin,    \* an event this close past the cap is snapped to (8)
          Never,      \* UINT64_MAX: no deadline armed
          Gaps,       \* how far ahead a deadline may be armed
          Horizon     \* bound on simulated time

ASSUME RendezvousAssumption ==
  /\ kIterCap \in Nat \ {0}
  /\ kMargin \in 1..kIterCap
  /\ Never \in Nat

ASSUME GapsAssumption == Gaps \subseteq Nat \ {0} /\ Horizon \in Nat

(* "if (ev < planned + 8u) planned = ev": the last adjustment of a round's *)
(* target.                                                                  *)
Snap(planned, ev) == IF ev < planned + kMargin THEN ev ELSE planned

(* The target of an ordinary round that starts at time sys.                *)
PlannedTarget(sys, ev) == Snap(sys + kIterCap, ev)

(* Mutant: the grid point is rounded down instead of up.                   *)
TimerGridRoundedDown(sys, tov) ==
  sys + ((tov - sys) \div kIterCap) * kIterCap

(* The first point of the kIterCap grid rooted at sys that is not before   *)
(* the timer overflow.                                                     *)
TimerGrid(sys, tov) ==
  sys + ((tov - sys + kIterCap - 1) \div kIterCap) * kIterCap

(* Where the idle fast-forward wants to go.  A timer overflow is not a     *)
(* scheduled event, so it is carried to the grid, or to an event that      *)
(* snaps into the same step.                                               *)
FastForwardWake(sys, ev, tov) ==
  IF ev <= tov THEN ev
  ELSE LET grid == TimerGrid(sys, tov)
       IN  IF ev < grid + kMargin THEN ev ELSE grid

(* The target of a round in which both CPUs are idle.                      *)
FastForwardTarget(sys, ev, tov) ==
  LET planned == sys + kIterCap
      wake    == FastForwardWake(sys, ev, tov)
  IN  Snap(IF wake > planned THEN wake ELSE planned, ev)

==============================================================================
