----------------------------- MODULE MCSchedule -----------------------------
(***************************************************************************)
(* Registrations of one job Id: i1 has an interval and fires immediately,  *)
(* c1 has the cron expression "1-59/2,58 * * * 1-5".  Each replaces the    *)
(* one listed before.  The clock goes from 23:59 on Friday 2 January 2026, *)
(* which the expression matches, to midnight, which it does not.           *)
(***************************************************************************)
EXTENDS Schedule, TLC

CONSTANTS i1, c1

MCId == [r \in Regs |-> "job"]

All == <<[range |-> "all", from |-> 0, to |-> 0, step |-> 1]>>
Span(from, to, step) == [range |-> "span", from |-> from, to |-> to, step |-> step]
One(n) == [range |-> "one", from |-> n, to |-> n, step |-> 1]

MCExpr == [r \in CronRegs |-> <<<<Span(1, 59, 2), One(58)>>, All, All, All, <<Span(1, 5, 1)>>>>]

MCClock == [m \in 0..MaxMinute |-> IF m = 0 THEN <<59, 23, 2, 1, 5>> ELSE <<0, 0, 3, 1, 6>>]

\* A part with a step starts at its first value; what lies out of the bounds of
\* a field, an empty range and a step of 0 are refused (cron.go:41-88).
ASSUME CronExamples ==
    /\ ParseField(<<Span(1, 59, 20), One(2)>>, 1) = {1, 2, 21, 41}
    /\ ParseField(<<[All[1] EXCEPT !.step = 10]>>, 3) = {1, 11, 21, 31}
    /\ \A part \in {Span(0, 7, 1), Span(5, 4, 1), Span(0, 6, 0), One(7)} : ~InBounds(part, 5)
=============================================================================
