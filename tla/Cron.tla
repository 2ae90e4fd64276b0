-------------------------------- MODULE Cron --------------------------------
(***************************************************************************)
(* The cron expressions of lib/schedule/cron.go: five fields, each a comma *)
(* separated list of parts n, n-m, *, with or without a step.              *)
(*                                                                         *)
(* A part is given split at "/" and "-", as a record: its range ("all" for *)
(* *, "one", "span", or "bad" for what is no number), from, to and step,   *)
(* which is 1 if there is none and 0 if it is no number.  Steps near 2^63, *)
(* with which v += step wraps, are left out.                               *)
(***************************************************************************)
EXTENDS Integers, Sequences

\* Minute, hour, day of the month, month, day of the week from Sunday on.
Lowest  == <<0, 0, 1, 1, 0>>
Highest == <<59, 23, 31, 12, 6>>

First(part, f) == IF part.range = "all" THEN Lowest[f] ELSE part.from
Last(part, f)  == CASE part.range = "all" -> Highest[f]
                    [] part.range = "one" -> part.from
                    [] OTHER -> part.to

\* parseField refuses a part out of bounds.
InBounds(part, f) ==
    /\ part.range # "bad" /\ part.step > 0
    /\ Lowest[f] <= First(part, f) /\ Last(part, f) <= Highest[f]
    /\ First(part, f) <= Last(part, f)

\* The step counts from the start of the range.
Values(part, f) ==
    {v \in First(part, f)..Last(part, f) : (v - First(part, f)) % part.step = 0}

ParseField(field, f) == UNION {Values(field[i], f) : i \in DOMAIN field}

\* parseCron accepts the expression.
Parses(expr) ==
    /\ Len(expr) = 5
    /\ \A f \in 1..5 : \A i \in DOMAIN expr[f] : InBounds(expr[f][i], f)

\* match: every field admits the time, the two fields of the day as well.
Match(expr, time) == \A f \in 1..5 : time[f] \in ParseField(expr[f], f)
=============================================================================
