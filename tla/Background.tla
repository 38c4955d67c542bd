------------------------------ MODULE Background ------------------------------
(***************************************************************************)
(* The background work of the daemon as a whole: the workers of Upkeep     *)
(* beside the code scans of CodeIndex.  They share the process, which      *)
(* restarts all of them, and index.db, which has ONE writer (daemon.rs): a *)
(* scan holds the write lock for as long as it walks, and commits to the   *)
(* catalog wait for it, or are given up.                                   *)
(***************************************************************************)
EXTENDS Upkeep, CodeIndex

CONSTANT Days   \* pairs of what happens to memory and to code in a run

ASSUME DaysAssumption == Days \subseteq Workloads \X CodeLoads

backVars == <<vars, codeVars>>

BackInit == Init /\ CodeInit /\ <<load, codeLoad>> \in Days

\* Who commits to the catalog needs the write lock.
Unlocked == generation' = generation \/ writer = "none"

\* A refresh that does not get it in time fails, and the run is retried.
RefreshBusy ==
  /\ vpc = "refresh" /\ stale /\ writer # "none"
  /\ vdue' = [vdue EXCEPT !.ripe = FALSE]
  /\ vpc' = "poll"
  /\ UNCHANGED <<memory, worker, catalog, sources, completed, wanted, covered, done, bounds>>

\* Where maintenance is not configured its worker is not started.
Maintains == load.candidates # {} /\ Maintain

Upkeeps ==
  \/ \E c \in Candidates : Stage(c) \/ Settle(c)
  \/ Pause \/ Resume \/ Edit \/ SourcesChange
  \/ Elapse \/ Maintains \/ VElapse \/ RefreshBusy
  \/ (Rebuild \/ Embed) /\ Unlocked

\* The daemon goes down with its scan, and may come back as another version.
DaemonRestarts ==
  /\ Restart
  /\ Over("daemon")
  /\ UNCHANGED <<codeWorld, db, codeBounds>>

DaemonUpgraded == Restart /\ Upgrade

BackNext ==
  \/ Upkeeps /\ UNCHANGED codeVars
  \/ DaemonRestarts \/ DaemonUpgraded
  \/ (Users \/ Scans) /\ UNCHANGED vars

\* As in Upkeep; and the daemon scans once a minute, and who scans goes on.
BackFairness ==
  /\ WF_backVars(Maintains /\ UNCHANGED codeVars) /\ WF_backVars(Elapse /\ UNCHANGED codeVars)
  /\ WF_backVars((RefreshBusy \/ (Embed /\ Unlocked)) /\ UNCHANGED codeVars)
  /\ WF_backVars(VElapse /\ UNCHANGED codeVars)
  /\ WF_backVars(Rebuild /\ Unlocked /\ UNCHANGED codeVars)
  /\ WF_backVars(ScanBegins("daemon") /\ UNCHANGED vars)
  /\ \A s \in Scanners : WF_backVars(ScanWork(s) /\ UNCHANGED vars)

BackSpec == BackInit /\ [][BackNext]_backVars /\ BackFairness
=============================================================================
