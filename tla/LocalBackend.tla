---------------------------- MODULE LocalBackend ----------------------------
(***************************************************************************)
(* Embedding by the packaged adapter, from the caller to the child process *)
(* of the vendor: threads of cfetch (queries, the vector worker) take the  *)
(* one client in turn; it tries the admitted scopes in order, each by a    *)
(* request to the adapter that its supervisor launches, and stops all of   *)
(* it for good when an outcome is uncertain.                               *)
(*                                                                         *)
(* embed.rs (embed_local, embed_request) is the client, local_adapter.rs   *)
(* (AdapterSupervisor) the supervisor; the adapter is NativeServing.  A    *)
(* connection may break at any time, the adapter may crash, and so may     *)
(* cfetch, whose death the adapter sees as the end of its input.           *)
(***************************************************************************)
EXTENDS NativeServing

CONSTANTS
  NoScope,
  Rank        \* of a scope in the order of admission: NPU, GPU, CPU

ASSUME BackendAssumption ==
  /\ NoScope \notin Scopes /\ Rank \in [Scopes -> Nat]
  /\ \A s, t \in Scopes : Rank[s] = Rank[t] => s = t

VARIABLES
  parent,     \* cfetch is alive
  at,         \* where the thread that holds the client's lock is in embed_local
  batch, left, \* its texts, and the scopes it has yet to try
  selected, disabled, \* of the client: the scope that worked, those that do not
  failed, running  \* of the supervisor: the latch, and the process it owns

client == <<parent, at, batch, left, selected, disabled, failed, running>>
vars == <<adapter, client>>

ClientTypeOK ==
  /\ parent \in BOOLEAN /\ failed \in BOOLEAN
  /\ at \in {"free", "next", "starting", "post", "await"}
  /\ batch \in Batches \cup {<<>>} /\ left \subseteq Scopes
  /\ selected \in Scopes \cup {NoScope} /\ disabled \subseteq Scopes
  /\ running \in {"none", "owned", "unconfirmed"}

TypeOK == AdapterTypeOK /\ ClientTypeOK

Init ==
  /\ AdapterInit
  /\ parent = TRUE /\ at = "free" /\ batch = <<>> /\ left = {}
  /\ selected = NoScope /\ disabled = {} /\ failed = FALSE /\ running = "none"
-----------------------------------------------------------------------------
\* The caller is told, and lets go of the lock.
Return == at' = "free" /\ batch' = <<>> /\ left' = {}

\* The scope that worked, then the others as admitted.
Foremost(s) == s = selected \/ (selected \notin left /\ \A t \in left : Rank[s] <= Rank[t])

Call ==
  /\ at = "free" /\ at' = "next" /\ batch' \in Batches /\ left' = Scopes \ disabled
  /\ UNCHANGED <<adapter, selected, disabled, failed, running>>

Exhausted ==
  /\ at = "next" /\ left = {} /\ Return
  /\ UNCHANGED <<adapter, selected, disabled, failed, running>>

\* endpoint: the latch, a failed start that may live on, a process that has
\* ended by itself; each is an error, and the last one sets the latch.
Refused ==
  /\ at = "next" /\ left # {} /\ Return
  /\ \/ (failed \/ running = "unconfirmed") /\ UNCHANGED <<failed, running>>
     \/ ~failed /\ running = "owned" /\ life = "gone" /\ failed' = TRUE /\ running' = "none"
  /\ UNCHANGED <<adapter, selected, disabled>>

Reuse ==
  /\ at = "next" /\ left # {} /\ ~failed /\ running = "owned" /\ life # "gone" /\ at' = "post"
  /\ UNCHANGED <<adapter, batch, left, selected, disabled, failed, running>>

Start ==
  /\ at = "next" /\ left # {} /\ ~failed /\ running = "none"
  /\ \/ Launch /\ at' = "starting" /\ UNCHANGED <<batch, left>>
     \/ Return /\ UNCHANGED adapter
  /\ UNCHANGED <<selected, disabled, failed, running>>

Started ==
  /\ at = "starting" /\ life \in {"up", "closing"} /\ running' = "owned" /\ at' = "post"
  /\ UNCHANGED <<adapter, batch, left, selected, disabled, failed>>

\* terminate: killed and waited for, or the wait is over and it may go on.
\* Its standard input is closed either way.
Terminate(confirmed) ==
  IF confirmed \/ life = "gone" THEN Vanish
  ELSE eof' = TRUE /\ UNCHANGED <<life, shared, front, owner>>

\* It does not get ready in time, or has ended: no latch, but an owner if it
\* was not seen to die.
StartupFails ==
  /\ at = "starting" /\ Return
  /\ \E confirmed \in BOOLEAN :
       Terminate(confirmed) /\ running' = IF confirmed \/ life = "gone" THEN "none" ELSE "unconfirmed"
  /\ UNCHANGED <<doubt, selected, disabled, failed>>

Post ==
  /\ at = "post" /\ at' = "await"
  /\ \E s \in left :
       Foremost(s) /\ asked' = [scope |-> s, rows |-> batch] /\ left' = left \ {s}
  /\ IF life = "up" THEN http' = "body" /\ answer' = "none" ELSE http' = "none" /\ answer' = "lost"
  /\ UNCHANGED <<life, eof, shared, owner, doubt>>
  /\ UNCHANGED <<batch, selected, disabled, failed, running>>

\* The connection breaks, or the client's own time is up.
Lose ==
  /\ at = "await" /\ answer = "none" /\ answer' = "lost"
  /\ UNCHANGED <<life, eof, shared, http, asked, owner, doubt, at, batch, left, selected, disabled, failed, running>>

TakeVectors ==
  /\ at = "await" /\ answer = "ok" /\ selected' = asked.scope /\ Return
  /\ UNCHANGED <<adapter, disabled, failed, running>>

TakeRefusal ==
  /\ at = "await" /\ answer = "refused" /\ Return
  /\ UNCHANGED <<adapter, selected, disabled, failed, running>>

\* ScopeUnavailableError: the status, the code, this scope and the message.
FallBack ==
  /\ at = "await" /\ answer = "unavailable" /\ at' = "next"
  /\ selected' = NoScope /\ disabled' = disabled \cup {asked.scope}
  /\ UNCHANGED <<adapter, batch, left, failed, running>>

\* A plausible bug: the adapter is stopped, and the next call launches another.
AbortUnlatched ==
  /\ at = "await" /\ answer \notin {"none", "unavailable", "refused"}
  /\ selected' = NoScope /\ doubt' = TRUE /\ Return
  /\ \E confirmed \in BOOLEAN :
       Terminate(confirmed) /\ running' = IF confirmed \/ life = "gone" THEN "none" ELSE "owned"
  /\ UNCHANGED <<disabled, failed>>

\* abort_after_failure: every other answer, and vectors that do not verify.
Abort ==
  /\ at = "await" /\ answer \notin {"none", "unavailable", "refused"}
  /\ selected' = NoScope /\ failed' = TRUE /\ doubt' = TRUE /\ Return
  /\ \E confirmed \in BOOLEAN :
       Terminate(confirmed) /\ running' = IF confirmed \/ life = "gone" THEN "none" ELSE "owned"
  /\ UNCHANGED disabled

HolderMoves ==
  \/ Exhausted \/ Refused \/ Reuse \/ Start \/ Started \/ StartupFails \/ Post
  \/ TakeVectors \/ TakeRefusal \/ FallBack \/ Abort
Client == parent /\ UNCHANGED parent /\ (Call \/ HolderMoves \/ Lose)

ParentDies ==
  /\ parent /\ parent' = FALSE /\ eof' = TRUE /\ Unanswered
  /\ UNCHANGED <<life, shared, http, asked, owner, doubt>>
  /\ UNCHANGED <<at, batch, left, selected, disabled, failed, running>>

Next == Client \/ ParentDies \/ (Adapter /\ UNCHANGED client)

\* The holder goes on, and so does the main thread, its timers included.
\* Nothing is assumed of the owner, whose vendor call may never return, of
\* the client's own time-out, or of the lifeline.
Fairness ==
  /\ WF_vars(HolderMoves /\ parent /\ UNCHANGED parent)
  /\ WF_vars(Serve /\ UNCHANGED client)
  /\ WF_vars((Ready \/ StartFails) /\ UNCHANGED client)
  /\ WF_vars(Shutdown /\ UNCHANGED client) /\ WF_vars(Exit /\ UNCHANGED client)

Spec == Init /\ [][Next]_vars /\ Fairness
-----------------------------------------------------------------------------
\* However the adapter is relaunched, and whatever fails to be confirmed, at
\* most one native process can be alive.
OneChild == \A c, d \in children : c = d

\* When the client falls back, the native process of the scope it gives up
\* is dead, and none of that scope is started again.
FallbackConfirmed == \A c \in children : c.scope \notin disabled

\* A caller that is given vectors is given those of its own texts, in their
\* order, computed in the scope it asked for and at the length of each.
RightVectors ==
  at = "await" /\ answer = "ok" =>
    \A i \in 1..Len(batch) : rows[i] = [scope |-> asked.scope, bucket |-> batch[i]]

\* After an uncertain outcome no request reaches an adapter and no adapter is
\* launched: nothing falls back and nothing restarts by itself.
NeverAgain ==
  [][doubt => /\ life' = "starting" => life = "starting"
              /\ http' = "body" => http = "body"]_vars

\* A vendor call that never returns costs its caller an error, not the lock.
HolderReturns == at # "free" ~> (at = "free" \/ ~parent)

\* An adapter that was told to stop, or whose cfetch died, ends.
Ends == (eof \/ fatal) ~> life \in {"none", "gone"}
=============================================================================
