---------------------------- MODULE MCBackground ----------------------------
(* Instances of Background: the three workloads of Upkeep, one of them with *)
(* code scans beside it, and four days of the code index alone.            *)
EXTENDS Background

NoWork       == [candidates |-> {}, edits |-> 0, faults |-> 0, sources |-> {FALSE}]
BesideLoad   == [candidates |-> {}, edits |-> 1, faults |-> 1, sources |-> {TRUE}]
OneFault     == [NoWork EXCEPT !.faults = 1]
EvidenceLoad == [candidates |-> {1, 2}, edits |-> 0, faults |-> 2, sources |-> {FALSE}]
VectorLoad   == [candidates |-> {}, edits |-> 2, faults |-> 2, sources |-> BOOLEAN]
ChainLoad    == [candidates |-> {1}, edits |-> 0, faults |-> 1, sources |-> {TRUE}]

Sum(n) == n[1] + n[2] + n[3] + n[4]

Text(imports, hard) == [imports |-> imports, hard |-> hard]

NoCode == [scanners |-> {}, built |-> FALSE, edits |-> 0, runs |-> 0, failures |-> 0,
           paths |-> {}, texts |-> {}, trees |-> {<<>>}]
\* One file and the daemon's scans, beside other work.
SomeCode == [NoCode EXCEPT !.scanners = {"daemon"}, !.edits = 1, !.paths = {1},
                           !.texts = {NoText}, !.trees = {<<>>}]
\* The daemon and a shell scan two files: one is edited or cannot be read, or
\* the second is created and the first written again.
Race   == [NoCode EXCEPT !.scanners = Scanners, !.built = TRUE, !.runs = 1, !.paths = {1, 2},
             !.edits = 1, !.failures = 1, !.texts = {NoText},
             !.trees = {<<Text({2}, FALSE), NoText>>}]
Create == [Race EXCEPT !.edits = 2, !.failures = 0, !.texts = {NoText, Text({2}, FALSE)},
             !.trees = {<<Text({2}, FALSE)>>}]
\* A file the grammars choke on, until the program is upgraded.
Gaps == [NoCode EXCEPT !.scanners = {"daemon"}, !.built = TRUE, !.edits = 1, !.failures = 2,
                       !.paths = {1, 2}, !.texts = {Text({1}, TRUE)}, !.trees = {<<Text({2}, TRUE), NoText>>}]
\* Every graph on four files with at most five edges.
Graph == [NoCode EXCEPT !.built = TRUE, !.paths = 1..4,
            !.trees = {t \in [1..4 -> [imports : SUBSET (1..4), hard : {FALSE}]] :
              /\ \A f \in 1..4 : f \notin t[f].imports
              /\ Sum([f \in 1..4 |-> Cardinality(t[f].imports)]) <= 5}]

MCWorkloads == {NoWork, OneFault, EvidenceLoad, VectorLoad, ChainLoad, BesideLoad}
MCCodeLoads == {NoCode, SomeCode, Race, Create, Gaps, Graph}
MCDays == {<<EvidenceLoad, NoCode>>, <<VectorLoad, NoCode>>, <<ChainLoad, NoCode>>, <<BesideLoad, SomeCode>>,
           <<NoWork, Race>>, <<NoWork, Create>>, <<OneFault, Gaps>>, <<NoWork, Graph>>}
=============================================================================
