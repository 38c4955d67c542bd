------------------------------- MODULE Streams -------------------------------
(***************************************************************************)
(* The append-only streams of jsonl.rs: of one host, a live file and two   *)
(* older generations.  A line is one write; a process that is killed in it *)
(* leaves a line cut short, and one that is killed while it rotates leaves *)
(* the rotation half done.  Bytes are counted in lines.                    *)
(***************************************************************************)
EXTENDS Integers, Sequences

CONSTANT Torn   \* a line that does not parse

\* files: the live one, .1 and .2; cut: the live file ends in mid-line.
NewStream == [files |-> << <<>>, <<>>, <<>> >>, cut |-> FALSE]

\* The first k moves of a rotation: .2 is removed, .1 becomes .2, the live
\* file becomes .1.
Shifted(stream, k) ==
  LET f == stream.files
  IN  CASE k = 0 -> stream
        [] k = 1 -> [stream EXCEPT !.files = << f[1], f[2], <<>> >>]
        [] k = 2 -> [stream EXCEPT !.files = << f[1], <<>>, f[2] >>]
        [] k = 3 -> [files |-> << <<>>, f[1], f[2] >>, cut |-> FALSE]

\* rotate_if_needed, for one more line.
Rotated(stream, cap) ==
  Shifted(stream, IF stream.files[1] # <<>> /\ Len(stream.files[1]) + 1 > cap THEN 3 ELSE 0)

\* A plausible bug: the line is glued to what a crash has left.
WrittenGlued(stream, cap, line) ==
  LET r == Rotated(stream, cap)
  IN  IF r.cut THEN [r EXCEPT !.cut = FALSE]
      ELSE [files |-> [r.files EXCEPT ![1] = Append(@, line)], cut |-> FALSE]

\* append: a line of its own, whatever the last writer has left.
Written(stream, cap, line) ==
  LET r == Rotated(stream, cap)
  IN  [files |-> [r.files EXCEPT ![1] = Append(@, line)], cut |-> FALSE]

\* What an append may leave that its process does not survive.
Interrupted(stream, cap) ==
  LET r == Rotated(stream, cap)
  IN  {stream, r, [r EXCEPT !.cut = FALSE], [Written(stream, cap, Torn) EXCEPT !.cut = TRUE]}
      \cup (IF r = stream THEN {} ELSE {Shifted(stream, k) : k \in 1..3})

\* tail_text of a generation: as many lines as the budget allows.
LastLines(lines, budget) ==
  IF Len(lines) <= budget THEN lines ELSE SubSeq(lines, Len(lines) - budget + 1, Len(lines))

\* read_all: the lines that parse, by generation and place, oldest first.
Readable(stream) ==
  UNION {{<<k, i>> : i \in {j \in DOMAIN stream.files[k] : stream.files[k][j] # Torn}} : k \in 1..3}
At(stream, p) == stream.files[p[1]][p[2]]
Older(p, q) == p[1] > q[1] \/ (p[1] = q[1] /\ p[2] < q[2])
=============================================================================
