------------------------------- MODULE LogHub -------------------------------
(***************************************************************************)
(* The log kernel of lib/logx: the ring that keeps the latest entries, and *)
(* the hub that hands each entry to the subscribers.                       *)
(*                                                                         *)
(* A ring is a record of the fields of the struct.  A hub is a function    *)
(* from its subscribers to the number of entries in their channels.        *)
(***************************************************************************)
EXTENDS Integers, SequencesExt

DefaultRing == 2048

NewRing(cap) ==
    [cap |-> IF cap > 0 THEN cap ELSE DefaultRing, buf |-> <<>>, pos |-> 0, full |-> FALSE]

\* push: a ring that has grown to its capacity overwrites its oldest entry.
RingPush(r, e) ==
    IF ~r.full /\ Len(r.buf) < r.cap
      THEN [r EXCEPT !.buf = Append(@, e)]
      ELSE [r EXCEPT !.buf[r.pos + 1] = e, !.pos = (@ + 1) % r.cap, !.full = TRUE]

\* The entry k places after index i of the buffer, k places before if negative.
Around(r, i, k) == r.buf[((i + k) % Len(r.buf)) + 1]

\* resized: what is kept is copied from start on, which is 0 in a ring that was
\* never overwritten.
RingResized(r, cap) ==
    LET n     == IF cap <= 0 THEN 0 ELSE IF Len(r.buf) > cap THEN cap ELSE Len(r.buf)
        start == IF r.full THEN r.pos - n ELSE 0
    IN  FoldLeft(RingPush, NewRing(cap), [i \in 1..n |-> Around(r, start, i - 1)])

\* matches: an empty field of the filter admits everything, and so does a level
\* that cannot be parsed.
Levels == <<"debug", "info", "warn", "error">>

Ranked(level) == {i \in DOMAIN Levels : Levels[i] = level}

Matches(f, e) ==
    /\ \A min \in Ranked(f.minLevel), lv \in Ranked(e.level) : lv >= min
    /\ f.scope \in {"", e.scope}
    /\ f.text = "" \/ f.text \in e.texts

\* snapshot: the filter is applied to the latest entries, the newest first.
RingSnapshot(r, limit, f) ==
    LET n    == Len(r.buf)
        many == IF limit <= 0 \/ limit > n THEN n ELSE limit
        last == IF r.full THEN r.pos - 1 ELSE n - 1
    IN  SelectSeq([k \in 1..many |-> Around(r, last, 1 - k)], LAMBDA e : Matches(f, e))

-----------------------------------------------------------------------------
HubSubscribed(hub, s) == [x \in DOMAIN hub \cup {s} |-> IF x = s THEN 0 ELSE hub[x]]

HubLeft(hub, s) == [x \in DOMAIN hub \ {s} |-> hub[x]]

\* broadcast: a subscriber whose channel is full misses the entry.
Broadcast(hub, cap) == [s \in DOMAIN hub |-> IF hub[s] < cap THEN hub[s] + 1 ELSE hub[s]]
=============================================================================
