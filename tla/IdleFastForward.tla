--------------------------- MODULE IdleFastForward ---------------------------
(***************************************************************************)
(* The idle fast-forward of scheduler_run_round against the incremental    *)
(* scheduler it replaces.                                                  *)
(*                                                                         *)
(* While both CPUs are guest-halted, no wake is pending and no DMA owns a  *)
(* bus, the scheduler may replace a run of kIterCap rounds by one jump.    *)
(* This module runs the INCREMENTAL scheduler from the instant `start' at  *)
(* which the jump would be taken: every Round advances `s' to the target   *)
(* an ordinary round would choose, until some deadline has been reached    *)
(* and becomes visible.  The claim is that the jump lands exactly there.   *)
(*                                                                         *)
(*   ev   next_scheduled_event_time(): LCD, SPU, RTC, wifi, card, SPI,     *)
(*        AUXSPI, divider, square root                                     *)
(*   tov  nds_next_timer_overflow_time(): catch-up timers of both CPUs     *)
(*   gx   the instant the geometry engine, which nds_gpu3d_run catches up  *)
(*        every round, raises the ARM9 GXFIFO interrupt or requests its    *)
(*        DMA (vendored GPU3D::Run -> CheckFIFOIRQ/CheckFIFODMA)           *)
(***************************************************************************)
EXTENDS Rendezvous

(* The deadlines that may be armed at time t. *)
Deadlines(t) == {t + g : g \in Gaps}

(* The same for a source that need not be armed at all. *)
Later(t) == Deadlines(t) \cup {d \in {Never} : d > t}

VARIABLES start,  \* g_sys_timestamp when both CPUs became idle
          s,      \* g_sys_timestamp of the incremental scheduler
          ev, tov, gx

vars == <<start, s, ev, tov, gx>>

TypeOK == start \in Nat /\ s \in Nat /\ ev \in Nat /\ tov \in Nat /\ gx \in Nat

(* Something has become visible at a rendezvous t: the device catch-up at  *)
(* t delivers it.                                                          *)
Visible(t) == t >= ev \/ t >= tov \/ t >= gx

Jump == FastForwardTarget(start, ev, tov)

Init == /\ start = 0 /\ s = 0
        /\ ev \in Deadlines(0)
        /\ tov \in Later(0)
        /\ gx \in Later(0)

(* One ordinary round with both CPUs halted: each consumes its whole       *)
(* quantum, so the rendezvous is the planned target.                       *)
Round == /\ ~Visible(s)
         /\ s' = PlannedTarget(s, ev)
         /\ UNCHANGED <<start, ev, tov, gx>>

(* The visible deadlines are delivered; if no CPU wakes, the wait goes on  *)
(* from here with whatever is armed next.                                  *)
Rearm == /\ Visible(s) /\ s < Horizon
         /\ start' = s /\ s' = s
         /\ ev'  \in (IF s >= ev  THEN Deadlines(s) ELSE {ev})
         /\ tov' \in (IF s >= tov THEN Later(s) ELSE {tov})
         /\ gx'  \in (IF s >= gx  THEN Later(s) ELSE {gx})

Next == Round \/ Rearm
Spec == Init /\ [][Next]_vars

------------------------------------------------------------------------------
(* The jump lands on the very rendezvous at which the incremental          *)
(* scheduler first sees a deadline, never before and never after it, as    *)
(* long as the geometry engine raises nothing before that instant.  This   *)
(* is what "one large step and many small steps produce identical state    *)
(* at the deadline" (scheduler.cpp) needs.                                 *)
FastForwardExact ==
  gx >= Jump => IF Visible(s) THEN s = Jump ELSE s < Jump
==============================================================================
