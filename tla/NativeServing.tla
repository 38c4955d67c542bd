---------------------------- MODULE NativeServing ----------------------------
(***************************************************************************)
(* The packaged adapter: one process whose main thread speaks HTTP and     *)
(* whose owner thread runs the native workers, each a child process.       *)
(*                                                                         *)
(* native_http.rs (handle, serve, run_stdio_with) is the main thread, the  *)
(* owner's loop and the lifeline; native_serving.rs (ServingCore,          *)
(* NativeEngine) is what the owner does with a request; native_adapter.rs  *)
(* (spawn, execute, stop) is what a worker answers.  The two threads share *)
(* the stop flag, a channel of one job, the slot that a job holds, and the *)
(* job's reply.                                                            *)
(*                                                                         *)
(* What the governor allows and records is InferenceGovernor; here a       *)
(* native call ends well, ends controlled (with its child seen dead),      *)
(* ends hard, or never ends.  The requests come from LocalBackend.         *)
(***************************************************************************)
EXTENDS Integers, Sequences, FiniteSets

CONSTANTS
  Scopes,    \* admitted executions: a device and its recipe
  Buckets,   \* lengths a worker can be compiled for
  Overlong,  \* of a row: no bucket is long enough
  Batches,   \* the lengths of the rows of a request
  MaxRows,   \* of a batch
  Workers,   \* names of child processes
  NoWorker, NoRequest, NoRow

Requests == [scope : Scopes, rows : Batches]

ASSUME NativeAssumption ==
  /\ MaxRows \in Nat /\ Buckets \subseteq Nat \ {0} /\ Overlong = 0
  /\ \A b \in Batches : b \in Seq(Buckets \cup {Overlong}) /\ Len(b) \in 1..MaxRows
  /\ NoRequest \notin Requests
  /\ NoWorker \notin [id : Workers, scope : Scopes, bucket : Buckets, usable : BOOLEAN]
  /\ NoRow \notin [scope : Scopes, bucket : Buckets]

VARIABLES
  life,       \* of the process
  eof,        \* its standard input is closed
  \* ---- shared by its threads
  requested, fatal, \* Stop: the flag, and the news of it
  slot,       \* whose permit a job holds: free or held
  queue,      \* the job in the channel
  reply,      \* what the owner has sent to the request's future
  \* ---- main thread
  http,       \* the future that serves the one connection
  asked,      \* its request
  answer,     \* what the client gets
  \* ---- owner
  pc, job, result,
  rows,       \* by index: where the vector of a row was computed
  preferred,  \* bucket to begin with
  stopped, unavailable, cached, hand, \* ServingCore; the worker just spawned
  children,   \* native processes that nobody has seen dead
  \* ---- history
  doubt       \* an outcome was uncertain

shared == <<requested, fatal, slot, queue, reply>>
front == <<http, asked, answer>>
core == <<result, rows, preferred, stopped, unavailable>>
engine == <<cached, hand, children>>
owner == <<pc, job, core, engine>>
adapter == <<life, eof, shared, front, owner, doubt>>

Outcomes == {"ok", "unavailable", "refused", "hard"}
Answers == {"none", "ok", "unavailable", "refused", "busy", "stopping", "failed", "lost"}
WorkerRecord == [id : Workers, scope : Scopes, bucket : Buckets, usable : BOOLEAN]

FrontTypeOK ==
  /\ life \in {"none", "starting", "up", "closing", "gone"}
  /\ {eof, requested, fatal, doubt} \subseteq BOOLEAN
  /\ slot \in {"free", "held"}
  /\ {queue, asked} \subseteq Requests \cup {NoRequest}
  /\ reply \in {"none", "dropped"} \cup Outcomes
  /\ http \in {"none", "body", "slot", "armed"} /\ answer \in Answers
  /\ (http # "none" => asked # NoRequest)

OwnerTypeOK ==
  /\ pc \in {"poll", "got", "core", "row", "compiling", "inferring", "halt", "reply", "sent", "leave", "gone"}
  /\ job \in Requests \cup {NoRequest}
  /\ result \in {"none"} \cup Outcomes
  /\ rows \in [1..MaxRows -> {NoRow} \cup [scope : Scopes, bucket : Buckets]]
  /\ preferred \in Buckets \cup {Overlong}
  /\ stopped \in BOOLEAN /\ unavailable \subseteq Scopes
  /\ (pc \in {"got", "core", "row", "compiling", "inferring", "halt", "reply", "sent"} => job # NoRequest)

EngineTypeOK ==
  /\ {cached, hand} \subseteq WorkerRecord \cup {NoWorker}
  /\ children \subseteq [id : Workers, scope : Scopes]
  /\ (pc = "compiling" <=> hand # NoWorker) /\ (pc = "inferring" => cached # NoWorker)

AdapterTypeOK == FrontTypeOK /\ OwnerTypeOK /\ EngineTypeOK

Alive == life \in {"up", "closing"}
Empty == [i \in 1..MaxRows |-> NoRow]

AdapterInit ==
  /\ life = "none" /\ eof = FALSE /\ requested = FALSE /\ fatal = FALSE
  /\ slot = "free" /\ queue = NoRequest /\ reply = "none"
  /\ http = "none" /\ asked = NoRequest /\ answer = "none"
  /\ pc = "gone" /\ job = NoRequest /\ result = "none" /\ rows = Empty /\ preferred = Overlong
  /\ stopped = FALSE /\ unavailable = {} /\ cached = NoWorker /\ hand = NoWorker
  /\ children = {} /\ doubt = FALSE

\* A child to the supervisor: a process that has not begun to serve.
Launch ==
  /\ life' = "starting" /\ eof' = FALSE /\ requested' = FALSE /\ fatal' = FALSE
  /\ slot' = "free" /\ queue' = NoRequest /\ reply' = "none"
  /\ http' = "none" /\ asked' = NoRequest /\ answer' = "none"
  /\ pc' = "gone" /\ job' = NoRequest /\ result' = "none" /\ rows' = Empty /\ preferred' = Overlong
  /\ stopped' = FALSE /\ unavailable' = {} /\ cached' = NoWorker /\ hand' = NoWorker
  /\ UNCHANGED <<children, doubt>>

\* Stop::trip.
Trip == requested' = TRUE /\ fatal' = TRUE

\* Nobody is left to serve what the client waits for.
Unanswered == answer' = IF answer = "none" /\ http # "none" THEN "lost" ELSE answer

\* The process is gone, and its threads with it.  Its children are sent
\* SIGKILL (their death signal), but nobody waits for them.
Vanish ==
  /\ life' = "gone" /\ http' = "none" /\ Unanswered
  /\ pc' = "gone" /\ hand' = NoWorker
  /\ UNCHANGED <<eof, shared, asked, job, core, cached, children>>
-----------------------------------------------------------------------------
(* The workers and the engine.                                             *)

Child(w) == [id |-> w.id, scope |-> w.scope]

\* Adapter::stop: whether the child is seen dead in time.  One that has been
\* seen dead stays so.
Dead(w, confirmed) == children' = IF confirmed THEN children \ {Child(w)} ELSE children

Todo == {i \in 1..Len(job.rows) : rows[i] = NoRow}

\* The order of a batch: the compiled bucket, then by bucket, then as given.
Before(i, j) ==
  LET b == job.rows[i]
      c == job.rows[j]
  IN  IF (b = preferred) # (c = preferred) THEN b = preferred
      ELSE b < c \/ (b = c /\ i < j)

Turn(i) == i \in Todo /\ \A j \in Todo \ {i} : Before(i, j)

\* A plausible bug: any worker compiled for the bucket will do.
FitsBucket(i) == cached # NoWorker /\ cached.bucket = job.rows[i]

\* NativeEngine::worker: the cached one is the one wanted.
Fits(i) == cached # NoWorker /\ cached.scope = job.scope /\ cached.bucket = job.rows[i]

Fail == pc' = "halt" /\ doubt' = TRUE

\* A plausible bug: the old worker is replaced, and dropped afterwards.
EvictLater ==
  /\ pc = "row" /\ cached # NoWorker /\ \E i \in Todo : Turn(i) /\ ~Fits(i)
  /\ cached' = NoWorker
  /\ UNCHANGED <<children, pc, doubt, hand, job, core, shared, front>>

\* The worker of another bucket or scope is stopped before the next is
\* spawned; a stop that is not confirmed keeps its owner.
Evict ==
  /\ pc = "row" /\ cached # NoWorker /\ \E i \in Todo : Turn(i) /\ ~Fits(i)
  /\ \/ Dead(cached, TRUE) /\ cached' = NoWorker /\ UNCHANGED <<pc, doubt>>
     \/ Child(cached) \in children /\ Fail /\ UNCHANGED <<children, cached>>
  /\ UNCHANGED <<hand, job, core, shared, front>>

\* Adapter::spawn, and the command to compile.
Spawn ==
  /\ pc = "row" /\ cached = NoWorker
  /\ \E i \in Todo, id \in Workers :
       LET w == [id |-> id, scope |-> job.scope, bucket |-> job.rows[i], usable |-> TRUE]
       IN  /\ Turn(i) /\ \A c \in children : c.id # id
           /\ \/ hand' = w /\ children' = children \cup {Child(w)} /\ pc' = "compiling" /\ UNCHANGED doubt
              \/ Fail /\ children' \in {children, children \cup {Child(w)}} /\ UNCHANGED hand
  /\ UNCHANGED <<cached, job, core, shared, front>>

\* A plausible bug: the failure is taken at its word.
ControlledUnconfirmed(w) ==
  /\ Dead(w, FALSE) /\ unavailable' = unavailable \cup {job.scope}
  /\ result' = "unavailable" /\ pc' = "reply" /\ UNCHANGED doubt

\* A controlled failure: the child was killed and seen dead, the lease ended.
Controlled(w) ==
  /\ Dead(w, TRUE) /\ unavailable' = unavailable \cup {job.scope}
  /\ result' = "unavailable" /\ pc' = "reply" /\ UNCHANGED doubt

\* The compile call ends.  After an error the worker is dropped, and stopped
\* once more; it is not kept, dead or alive.
CompileEnds ==
  /\ pc = "compiling" /\ hand' = NoWorker
  /\ \/ cached' = hand /\ pc' = "inferring" /\ UNCHANGED <<children, result, unavailable, doubt>>
     \/ Controlled(hand) /\ UNCHANGED cached
     \/ Fail /\ (\E confirmed \in BOOLEAN : Dead(hand, confirmed)) /\ UNCHANGED <<cached, result, unavailable>>
  /\ UNCHANGED <<job, rows, preferred, stopped, shared, front>>

StartInfer ==
  /\ pc = "row" /\ (\E i \in Todo : Turn(i) /\ Fits(i)) /\ pc' = "inferring"
  /\ UNCHANGED <<job, core, engine, shared, front, doubt>>

\* The inference ends: a vector, checked where it was computed; or a vector
\* that does not do; or a controlled failure; or a hard one.  The adapter
\* stops a worker whose call failed, and the engine keeps it in its cache.
InferEnds ==
  /\ pc = "inferring"
  /\ \/ /\ \E i \in Todo : Turn(i) /\ rows' = [rows EXCEPT ![i] = [scope |-> cached.scope, bucket |-> cached.bucket]]
        /\ pc' = "row" /\ UNCHANGED <<cached, children, result, unavailable, doubt>>
     \/ Fail /\ UNCHANGED <<rows, cached, children, result, unavailable>>
     \/ Controlled(cached) /\ cached' = [cached EXCEPT !.usable = FALSE] /\ UNCHANGED rows
     \/ /\ Fail /\ cached' = [cached EXCEPT !.usable = FALSE]
        /\ \E confirmed \in BOOLEAN : Dead(cached, confirmed)
        /\ UNCHANGED <<rows, result, unavailable>>
  /\ UNCHANGED <<hand, job, preferred, stopped, shared, front>>
-----------------------------------------------------------------------------
(* The core.                                                               *)

\* The owner's loop: the flag, then the channel, then the flag again.
Receive ==
  /\ pc = "poll" /\ ~requested /\ queue # NoRequest
  /\ job' = queue /\ queue' = NoRequest /\ pc' = "got"
  /\ UNCHANGED <<core, engine, requested, fatal, slot, reply, front, doubt>>

LeaveLoop ==
  /\ pc = "poll" /\ requested /\ pc' = "leave"
  /\ UNCHANGED <<job, core, engine, shared, front, doubt>>

Recheck ==
  /\ pc = "got"
  /\ \/ /\ requested /\ slot' = "free" /\ reply' = "dropped" /\ job' = NoRequest /\ pc' = "leave"
     \/ ~requested /\ pc' = "core" /\ UNCHANGED <<slot, reply, job>>
  /\ UNCHANGED <<core, engine, requested, fatal, queue, front, doubt>>

Answered(outcome) ==
  /\ result' = outcome /\ pc' = "reply"
  /\ UNCHANGED <<job, rows, preferred, stopped, unavailable, engine, shared, front, doubt>>

\* One row that is too long, and no row is looked at.  (A core that has
\* stopped would refuse everything; its owner has left by then.)
Refuse ==
  /\ pc = "core"
  /\ stopped \/ (job.scope \notin unavailable /\ \E i \in 1..Len(job.rows) : job.rows[i] = Overlong)
  /\ Answered(IF stopped THEN "hard" ELSE "refused")

Unavailable == pc = "core" /\ ~stopped /\ job.scope \in unavailable /\ Answered("unavailable")

TokenizerFails ==
  /\ pc = "core" /\ ~stopped /\ job.scope \notin unavailable /\ Fail
  /\ UNCHANGED <<job, core, engine, shared, front>>

\* The whole batch is prepared before any row is.
Prepare ==
  /\ pc = "core" /\ ~stopped /\ job.scope \notin unavailable
  /\ \A i \in 1..Len(job.rows) : job.rows[i] # Overlong
  /\ rows' = Empty /\ pc' = "row"
  /\ preferred' = IF cached # NoWorker /\ cached.scope = job.scope THEN cached.bucket ELSE Overlong
  /\ UNCHANGED <<job, result, stopped, unavailable, engine, shared, front, doubt>>

Sign ==
  /\ pc = "row" /\ Todo = {} /\ result' = "ok" /\ pc' = "reply"
  /\ UNCHANGED <<job, rows, preferred, stopped, unavailable, engine, shared, front, doubt>>

\* Engine::stop, when the core gives up and when the owner leaves.
StopEngine ==
  /\ stopped' = TRUE
  /\ \/ cached # NoWorker /\ Dead(cached, TRUE) /\ cached' = NoWorker
     \/ (cached # NoWorker => Child(cached) \in children) /\ UNCHANGED <<children, cached>>

\* ServingCore::handle: after an uncertain outcome nothing is served any more.
Halt ==
  /\ pc = "halt" /\ StopEngine /\ result' = "hard" /\ pc' = "reply"
  /\ UNCHANGED <<job, rows, preferred, unavailable, hand, shared, front, doubt>>

SendReply ==
  /\ pc = "reply" /\ pc' = "sent"
  /\ reply' = IF http = "armed" THEN result ELSE reply
  /\ UNCHANGED <<job, core, engine, requested, fatal, slot, queue, front, doubt>>

\* Only then is the job dropped, and with it the slot.  (The vectors are the
\* reply's now.)
DropJob ==
  /\ pc = "sent" /\ slot' = "free" /\ job' = NoRequest /\ result' = "none"
  /\ preferred' = Overlong /\ rows' = IF result = "ok" THEN rows ELSE Empty
  /\ \/ result # "hard" /\ pc' = "poll" /\ UNCHANGED <<requested, fatal>>
     \/ result = "hard" /\ Trip /\ pc' = "leave"
  /\ UNCHANGED <<stopped, unavailable, engine, queue, reply, front, doubt>>

\* NativeService::stop, then the thread and its end of the channel.
Leave ==
  /\ pc = "leave" /\ StopEngine /\ pc' = "gone"
  /\ queue' = NoRequest
  /\ \/ queue = NoRequest /\ UNCHANGED <<slot, reply>>
     \/ queue # NoRequest /\ slot' = "free" /\ reply' = "dropped"
  /\ UNCHANGED <<job, result, rows, preferred, unavailable, hand, requested, fatal, front, doubt>>

NativeCallEnds == CompileEnds \/ InferEnds
OwnerMoves ==
  \/ Receive \/ LeaveLoop \/ Recheck \/ Refuse \/ Unavailable \/ TokenizerFails \/ Prepare
  \/ Evict \/ Spawn \/ StartInfer \/ Sign \/ Halt \/ SendReply \/ DropJob \/ Leave
Owner == Alive /\ (OwnerMoves \/ NativeCallEnds) /\ UNCHANGED <<life, eof>>
-----------------------------------------------------------------------------
(* The main thread.  A future that is polled is not interrupted by the     *)
(* rest of it, only by the owner.                                          *)

Polled == http = "slot"

Respond(status) == http' = "none" /\ answer' = IF answer = "none" THEN status ELSE answer

\* The client has gone (it has given up) and its connection is dropped; an
\* armed future trips the stop.
Hangup ==
  /\ http \in {"body", "armed"} /\ answer = "lost" /\ http' = "none"
  /\ IF http = "armed" THEN Trip ELSE UNCHANGED <<requested, fatal>>
  /\ UNCHANGED <<slot, queue, reply, asked, answer>>

BodyLate ==
  /\ http = "body" /\ Respond("failed")
  /\ UNCHANGED <<shared, asked>>

Admit ==
  /\ http = "body" /\ answer = "none"
  /\ \/ (requested \/ slot = "held") /\ Respond(IF requested THEN "stopping" ELSE "busy") /\ UNCHANGED slot
     \/ ~requested /\ slot = "free" /\ slot' = "held" /\ http' = "slot" /\ UNCHANGED answer
  /\ UNCHANGED <<requested, fatal, queue, reply, asked>>

Send ==
  /\ Polled
  /\ \/ /\ queue = NoRequest /\ pc # "gone"
        /\ queue' = asked /\ reply' = "none" /\ http' = "armed" /\ UNCHANGED <<requested, fatal, slot, answer>>
     \/ /\ queue # NoRequest \/ pc = "gone"
        /\ Trip /\ slot' = "free" /\ Respond("failed") /\ UNCHANGED <<queue, reply>>
  /\ UNCHANGED asked

\* The owner has answered, or has dropped the job.
Finish ==
  /\ http = "armed" /\ reply # "none"
  /\ \/ reply \in {"ok", "unavailable", "refused"} /\ Respond(reply) /\ UNCHANGED <<requested, fatal>>
     \/ reply \in {"hard", "dropped"} /\ Respond("failed") /\ Trip
  /\ UNCHANGED <<slot, queue, reply, asked>>

\* A plausible bug: the budget covers the wait for the owner only.
DeadlineQueued ==
  /\ http = "armed" /\ queue # NoRequest /\ Respond("failed") /\ Trip
  /\ UNCHANGED <<slot, queue, reply, asked>>

\* The budget of the request is spent, whatever the owner is doing.
Deadline ==
  /\ http = "armed" /\ reply = "none" /\ Respond("failed") /\ Trip
  /\ UNCHANGED <<slot, queue, reply, asked>>

Serve ==
  /\ life = "up" /\ UNCHANGED <<life, eof, owner>>
  /\ \/ (Hangup \/ BodyLate \/ Admit \/ Send \/ Finish) /\ UNCHANGED doubt
     \/ Deadline /\ doubt' = TRUE

Ready ==
  /\ life = "starting" /\ life' = "up" /\ pc' = "poll"
  /\ UNCHANGED <<eof, shared, front, job, core, engine, doubt>>

StartFails == life = "starting" /\ Vanish /\ UNCHANGED doubt

\* serve leaves its loop: the connection is aborted, the listener dropped.
Close ==
  /\ life = "up" /\ ~Polled /\ life' = "closing" /\ requested' = TRUE
  /\ http' = "none" /\ Unanswered
  /\ UNCHANGED <<eof, fatal, slot, queue, reply, asked, owner, doubt>>
Shutdown == (eof \/ fatal \/ pc = "gone") /\ Close

\* A plausible bug: the owner is joined.
ExitJoined == life = "closing" /\ pc = "gone" /\ Vanish /\ UNCHANGED doubt

\* The owner is given a moment; then the process ends, with it or without.
Exit == life = "closing" /\ Vanish /\ UNCHANGED doubt

\* The thread that waits for the parent ends the process by itself.
Lifeline == eof /\ life \in {"starting", "up", "closing"} /\ Vanish /\ UNCHANGED doubt

\* A death that is uncertain, once it has been asked for anything.
Crash == Alive /\ Vanish /\ doubt' = (doubt \/ asked # NoRequest)

Adapter == Owner \/ Serve \/ Ready \/ StartFails \/ Shutdown \/ Exit \/ Lifeline \/ Crash
=============================================================================
