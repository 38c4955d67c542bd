----------------------------- MODULE MCSessions -----------------------------
(* Instances of Sessions for TLC: seven workloads.                           *)
EXTENDS Sessions

CONSTANTS s1, s2

Budget(some) == [e \in Events |-> IF e \in DOMAIN some THEN some[e] ELSE 0]

\* Reading and writing a file, in one session.
Files == [who |-> {s1}, cap |-> 2, budget |->
  Budget([read |-> 2, write |-> 1, edit |-> 1, ask |-> 2, new |-> 1, compact |-> 1, kill |-> 1])]
\* The same file, in two sessions.
Shared == [who |-> {s1, s2}, cap |-> 2, budget |-> Budget([read |-> 2, write |-> 1, ask |-> 1])]
\* Reminders.
Reminders == [who |-> {s1}, cap |-> 2, budget |->
  Budget([fail |-> 1, ok |-> 1, stop |-> 2, prompt |-> 2, breach |-> 2, new |-> 1])]
\* Candidates, up to the limit, and with a crash.
Fixes == [who |-> {s1, s2}, cap |-> 2, budget |->
  Budget([fail |-> 2, ok |-> 1, stop |-> 2, settle |-> 1])]
Candidates == [who |-> {s1, s2}, cap |-> 2, budget |->
  Budget([fail |-> 2, stop |-> 2, settle |-> 1, kill |-> 1])]
\* Usage.
Usage(c) == [who |-> {s1, s2}, cap |-> c, budget |->
  Budget([stop |-> 3, resume |-> 2, rewind |-> 1, kill |-> 1])]

MCWorkloads == {Files, Shared, Reminders, Fixes, Candidates, Usage(1), Usage(2)}
=============================================================================
