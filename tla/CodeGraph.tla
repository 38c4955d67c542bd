------------------------------ MODULE CodeGraph ------------------------------
(***************************************************************************)
(* The three questions the import graph answers (graph.rs): how one file   *)
(* comes to import another, what a change to a file reaches, and what is   *)
(* around it.  All of them search breadth first from a file and answer     *)
(* with one explanation for each file they reach; what they promise is     *)
(* defined below them without a search.                                    *)
(*                                                                         *)
(* Files are numbers, ordered as the code orders their display paths; a    *)
(* graph is the set of indexed files and the set of import edges.          *)
(***************************************************************************)
EXTENDS Integers, Sequences, FiniteSets

Far == -1     \* depth of a file that has not been reached
NoHop == -1   \* the hop of a file that needs none

\* dependency_index: an edge counts if both its ends are indexed.
Joined(files, edges) == edges \cap (files \X files)

\* A finite set in the order of a set of pairs (SetToSortSeq of SequencesExt
\* rests on a definition that only TLC has).
Sorted(S, before) ==
  CHOOSE seq \in [1..Cardinality(S) -> S] :
    \A i, j \in DOMAIN seq : i < j => <<seq[i], seq[j]>> \in before

\* Neighbours are visited in the order of their paths, each once.
Ascending(S) == Sorted(S, {pair \in S \X S : pair[1] < pair[2]})

Outgoing(graph) == [node \in graph.files |-> {n \in graph.files : <<node, n>> \in graph.edges}]
Incoming(graph) == [node \in graph.files |-> {n \in graph.files : <<n, node>> \in graph.edges}]
Around(graph)   == [node \in graph.files |-> Outgoing(graph)[node] \cup Incoming(graph)[node]]

AtStart(graph, start) ==
  [queue |-> <<start>>,
   depth |-> [n \in graph.files |-> IF n = start THEN 0 ELSE Far],
   hop   |-> [n \in graph.files |-> NoHop]]

\* A plausible bug: neighbours are visited as the index happens to list them.
TurnUnsorted(search, i, neighbours) ==
  LET node  == search.queue[i]
      fresh == {n \in neighbours : search.depth[n] = Far}
  IN  [queue |-> search.queue \o Sorted(fresh, {pair \in fresh \X fresh : pair[1] > pair[2]}),
       depth |-> [n \in DOMAIN search.depth |->
                    IF n \in fresh THEN search.depth[node] + 1 ELSE search.depth[n]],
       hop   |-> [n \in DOMAIN search.hop |-> IF n \in fresh THEN node ELSE search.hop[n]]]

\* One turn of the loop: the node it takes reaches those of its neighbours that
\* nobody has reached.
Turn(search, i, neighbours) ==
  LET node  == search.queue[i]
      fresh == {n \in neighbours : search.depth[n] = Far}
  IN  [queue |-> search.queue \o Ascending(fresh),
       depth |-> [n \in DOMAIN search.depth |->
                    IF n \in fresh THEN search.depth[node] + 1 ELSE search.depth[n]],
       hop   |-> [n \in DOMAIN search.hop |-> IF n \in fresh THEN node ELSE search.hop[n]]]

\* The search goes on from the nodes at less than depth, but not from stop.
Turned(search, i, next, stop, depth) ==
  IF /\ i \in DOMAIN search.queue /\ search.queue[i] # stop
     /\ search.depth[search.queue[i]] < depth
  THEN Turn(search, i, next[search.queue[i]]) ELSE search

\* The search turn by turn.  What was queued is kept: turn i takes its i-th
\* node, and no file is queued twice.
Turns(graph, next, start, stop, depth) ==
  LET turns[i \in 0..Cardinality(graph.files)] ==
        IF i = 0 THEN AtStart(graph, start) ELSE Turned(turns[i - 1], i, next, stop, depth)
  IN  turns

Search(graph, next, start, stop, depth) ==
  Turns(graph, next, start, stop, depth)[Cardinality(graph.files)]

\* The hops back from the target.
Back(found, to) ==
  LET back[i \in 0..found.depth[to]] == IF i = 0 THEN to ELSE found.hop[back[i - 1]]
  IN  back

\* dependency_path: the hops back from the target, reversed, or none.
PathAnswer(graph, from, to, depth) ==
  LET found == Search(graph, Outgoing(graph), from, to, depth)
      last  == found.depth[to]
  IN  IF last = Far THEN <<>> ELSE [i \in 1..(last + 1) |-> Back(found, to)[last + 1 - i]]

\* What was reached, nearest first and then by path, cut to the limit; omitted
\* says how many are not shown.
Report(graph, found, target, limit) ==
  LET reached == {n \in graph.files : n # target /\ found.depth[n] # Far}
      nearer == {pair \in reached \X reached :
                   \/ found.depth[pair[1]] < found.depth[pair[2]]
                   \/ found.depth[pair[1]] = found.depth[pair[2]] /\ pair[1] < pair[2]}
      order  == Sorted(reached, nearer)
      shown  == SubSeq(order, 1, IF Len(order) < limit THEN Len(order) ELSE limit)
  IN  [nodes |-> [i \in DOMAIN shown |->
                    [file |-> shown[i], depth |-> found.depth[shown[i]],
                     via |-> found.hop[shown[i]]]],
       omitted |-> Cardinality(reached) - Len(shown)]

\* dependency_impact: against the imports, with the next hop to the target.
ImpactAnswer(graph, target, depth, limit) ==
  Report(graph, Search(graph, Incoming(graph), target, NoHop, depth), target, limit)

\* dependency_context: with and against them.
ContextAnswer(graph, target, depth, limit) ==
  Report(graph, Search(graph, Around(graph), target, NoHop, depth), target, limit)

-----------------------------------------------------------------------------
(* What the answers promise.                                               *)

\* The files within i steps of a file.
Within(graph, next, start) ==
  LET reach[i \in 0..Cardinality(graph.files)] ==
        IF i = 0 THEN {start}
        ELSE reach[i - 1] \cup UNION {next[n] : n \in reach[i - 1]}
  IN  reach

Distance(near, n) ==
  CHOOSE i \in DOMAIN near : n \in near[i] /\ \A j \in 0..(i - 1) : n \notin near[j]

IsWalk(graph, walk) == \A i \in 1..(Len(walk) - 1) : <<walk[i], walk[i + 1]>> \in graph.edges

Before(left, right) ==
  \E i \in DOMAIN left : left[i] < right[i] /\ \A j \in 1..(i - 1) : left[j] = right[j]

\* There is a path iff the target is within the depth, it is a shortest one,
\* and the first of them in the order of the display paths.
PathIsLeast(graph, from, to, depth) ==
  LET near   == Within(graph, Outgoing(graph), from)
      walk   == PathAnswer(graph, from, to, depth)
      steps  == {i \in DOMAIN near : i <= depth /\ to \in near[i]}
  IN  IF steps = {} THEN walk = <<>>
      ELSE LET least == CHOOSE i \in steps : \A j \in steps : i <= j
           IN  /\ Len(walk) = least + 1 /\ walk[1] = from /\ walk[least + 1] = to
               /\ IsWalk(graph, walk)
               /\ \A other \in [1..(least + 1) -> graph.files] :
                    other[1] = from /\ other[least + 1] = to /\ IsWalk(graph, other)
                      => ~Before(other, walk)

\* A report shows the nearest files, each at its distance and with a hop that
\* is one step nearer, and accounts for all the others within the depth.
ReportIsTrue(graph, next, target, depth, limit, report) ==
  LET near  == Within(graph, next, target)
      level == IF depth < Cardinality(graph.files) THEN depth ELSE Cardinality(graph.files)
      found == near[level] \ {target}
      shown == {report.nodes[i].file : i \in DOMAIN report.nodes}
      at(n) == Distance(near, n)
  IN  /\ shown \subseteq found /\ Cardinality(shown) = Len(report.nodes)
      /\ report.omitted = Cardinality(found \ shown)
      /\ found = shown \/ Len(report.nodes) = limit
      /\ \A m \in shown, n \in found \ shown : at(m) < at(n) \/ (at(m) = at(n) /\ m < n)
      /\ \A i \in DOMAIN report.nodes :
           LET node == report.nodes[i]
           IN  /\ node.depth = at(node.file)
               /\ node.file \in next[node.via]
               /\ at(node.via) = node.depth - 1
=============================================================================
