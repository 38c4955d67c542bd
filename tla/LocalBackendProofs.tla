-------------------------- MODULE LocalBackendProofs --------------------------
(***************************************************************************)
(* What holds of LocalBackend for any scopes, lengths and batches: its     *)
(* types, one native process, fallback only after a confirmed death,       *)
(* vectors of the right rows, and nothing after doubt.                     *)
(***************************************************************************)
EXTENDS LocalBackend, TLAPS

\* The owner is on a request, and has not given up.
Working == pc \in {"core", "row", "compiling", "inferring"}
Hard == pc = "halt" \/ (pc \in {"reply", "sent"} /\ result = "hard")
Steady == ~Hard /\ pc \notin {"leave", "gone"}
Busy == queue # NoRequest \/ Working \/ pc \in {"got", "reply"} \/ Hard

\* What a client can go on from.
Fine == {"ok", "unavailable", "refused"}

\* A process that has not been asked for anything, and one that is not there.
Untouched ==
  /\ life \in {"none", "starting"} => pc = "gone" /\ running # "owned"
  /\ life \in {"none", "starting"} \/ (~failed /\ running # "owned") =>
       /\ asked = NoRequest /\ queue = NoRequest /\ job = NoRequest /\ http = "none"
       /\ cached = NoWorker /\ hand = NoWorker /\ children = {} /\ disabled = {}
       /\ slot = "free" /\ answer = "none" /\ reply = "none" /\ result = "none" /\ pc \in {"gone", "poll", "leave"}
       /\ ~doubt

Latched == failed => at \in {"free", "next"}

\* One request: on the wire, then in the channel, then with the owner.
OneRequest ==
  /\ (queue # NoRequest \/ job # NoRequest) => slot = "held"
  /\ queue # NoRequest => job = NoRequest
  /\ http = "slot" => slot = "held" /\ queue = NoRequest /\ job = NoRequest
  /\ http # "none" => life = "up"
  /\ http = "armed" /\ queue # NoRequest => queue = asked /\ reply = "none"
  /\ http = "armed" /\ job # NoRequest => job = asked
  /\ http = "armed" /\ (Working \/ pc \in {"got", "halt", "reply"}) => reply = "none"
  /\ life \notin {"none", "gone"} /\ job = NoRequest => pc \in {"poll", "leave", "gone"}
  /\ life \notin {"none", "gone"} /\ job # NoRequest => pc \notin {"poll", "leave", "gone"}

\* The client waits for that request, unless it has given up.
Awaited ==
  /\ http # "none" /\ ~failed /\ parent => at = "await"
  /\ at = "await" =>
       /\ asked # NoRequest /\ asked.rows = batch /\ batch \in Batches
       /\ http # "none" => answer \in {"none", "lost"}
  /\ at = "post" => http = "none" /\ batch \in Batches
  /\ at \in {"next", "starting"} => batch \in Batches
  /\ at \in {"post", "await"} => running = "owned"
  /\ at = "starting" => running = "none"
  /\ Busy /\ ~failed /\ parent /\ life # "gone" => at = "await" /\ http \in {"none", "armed"}

\* The native processes, as long as all went well.
Resident ==
  /\ Steady => children = IF hand # NoWorker THEN {Child(hand)}
                          ELSE IF cached # NoWorker /\ cached.usable THEN {Child(cached)} ELSE {}
  /\ hand # NoWorker => cached = NoWorker /\ hand.usable /\ hand.scope = job.scope
  /\ OneChild
  /\ \A c \in children : c.scope \notin unavailable
  /\ Steady /\ cached # NoWorker /\ ~cached.usable => cached.scope \in unavailable
  /\ pc \in {"row", "compiling", "inferring"} => job.scope \notin unavailable
  /\ pc = "inferring" => cached.usable /\ cached.scope = job.scope
  /\ disabled \subseteq unavailable

\* Where the vectors of a row come from, and what of it is on its way.
Right(request) == \A i \in 1..Len(request.rows) : rows[i] = [scope |-> request.scope, bucket |-> request.rows[i]]
Vectors ==
  /\ pc \in {"row", "compiling", "inferring"} =>
       \A i \in 1..Len(job.rows) :
         /\ job.rows[i] # Overlong
         /\ rows[i] # NoRow => rows[i] = [scope |-> job.scope, bucket |-> job.rows[i]]
  /\ pc = "compiling" => \A i \in Todo : Turn(i) => hand.bucket = job.rows[i]
  /\ pc = "inferring" => \A i \in Todo : Turn(i) => cached.bucket = job.rows[i]
  /\ pc \in {"reply", "sent"} /\ result = "ok" => Right(job)
  /\ http = "armed" /\ reply = "ok" => Right(asked)
  /\ at = "await" /\ answer = "ok" => Right(asked)

\* What is said to be unavailable is.
Told ==
  /\ pc \in {"reply", "sent"} => result # "none"
  /\ pc \in {"reply", "sent"} /\ result = "unavailable" => job.scope \in unavailable
  /\ http = "armed" /\ reply = "unavailable" => asked.scope \in unavailable
  /\ at = "await" /\ answer = "unavailable" => asked.scope \in unavailable
  /\ at = "await" /\ answer # "none" /\ answer # "lost" => http = "none"
  /\ http = "armed" /\ reply \in Fine /\ pc = "sent" => result = reply
  /\ at = "await" /\ answer \in Fine => ~Busy /\ (pc = "sent" => result = answer)

\* After doubt only the client that waits is left, and it will not be told
\* anything that it could go on from.
Doubted ==
  doubt /\ ~failed /\ life # "gone" /\ parent =>
    /\ at = "await" /\ answer \notin Fine /\ http \in {"none", "armed"}
    /\ http = "armed" /\ answer = "none" => reply \notin Fine /\ (Hard \/ pc \in {"leave", "gone"})

IndInv ==
  TypeOK /\ Untouched /\ Latched /\ OneRequest /\ Awaited /\ Resident /\ Vectors /\ Told /\ Doubted

USE DEF shared, front, core, engine, owner, adapter, client
-----------------------------------------------------------------------------
(* The rows of a job, and whose turn it is.                               *)

LEMMA JobRows ==
  ASSUME IndInv, pc \in {"row", "compiling", "inferring"}
  PROVE  /\ job \in Requests /\ Len(job.rows) \in 1..MaxRows
         /\ \A i \in 1..Len(job.rows) : job.rows[i] \in Buckets /\ job.rows[i] \in Nat /\ job.rows[i] # 0
<1>1. job # NoRequest /\ job \in Requests \cup {NoRequest}
  BY DEF IndInv, TypeOK, AdapterTypeOK, OwnerTypeOK
<1>2. job \in Requests /\ job.rows \in Batches
  BY <1>1 DEF Requests
<1>3. job.rows \in Seq(Buckets \cup {Overlong}) /\ Len(job.rows) \in 1..MaxRows
  BY <1>2, NativeAssumption
<1>4. \A i \in 1..Len(job.rows) : job.rows[i] \in Buckets \cup {Overlong}
  BY <1>3
<1>5. \A i \in 1..Len(job.rows) : job.rows[i] # Overlong
  BY DEF IndInv, Vectors
<1>6. QED
  BY <1>2, <1>3, <1>4, <1>5, NativeAssumption

LEMMA TurnUnique ==
  ASSUME IndInv, pc \in {"row", "compiling", "inferring"}, NEW i \in Todo, NEW j \in Todo, Turn(i), Turn(j)
  PROVE  i = j
<1>1. i \in 1..Len(job.rows) /\ j \in 1..Len(job.rows) /\ Len(job.rows) \in Nat
  BY JobRows, NativeAssumption DEF Todo
<1>2. job.rows[i] \in Nat /\ job.rows[j] \in Nat
  BY <1>1, JobRows
<1>3. SUFFICES ASSUME i # j PROVE FALSE
  OBVIOUS
<1>4. Before(i, j) /\ Before(j, i)
  BY <1>3 DEF Turn
<1>5. (job.rows[i] = preferred) <=> (job.rows[j] = preferred)
  BY <1>4, <1>2 DEF Before
<1>6. job.rows[i] < job.rows[j] \/ (job.rows[i] = job.rows[j] /\ i < j)
  BY <1>4, <1>5 DEF Before
<1>7. job.rows[j] < job.rows[i] \/ (job.rows[j] = job.rows[i] /\ j < i)
  BY <1>4, <1>5 DEF Before
<1>8. QED
  BY <1>1, <1>2, <1>6, <1>7

-----------------------------------------------------------------------------
(* The owner.                                                              *)

LEMMA ReceiveKeeps == ASSUME IndInv, Receive, Alive, UNCHANGED <<life, eof>>, UNCHANGED client PROVE IndInv'
<1>1. FrontTypeOK' /\ OwnerTypeOK' /\ EngineTypeOK' /\ ClientTypeOK'
  BY DEF IndInv, TypeOK, AdapterTypeOK, FrontTypeOK, Receive, OwnerTypeOK, EngineTypeOK,
      ClientTypeOK
<1>2. Untouched' /\ Latched' /\ OneRequest' /\ Awaited' /\ Vectors' /\ Told' /\ Doubted'
  BY DEF IndInv, Untouched, Receive, Latched, OneRequest, Awaited, Busy, Vectors, Right, Told,
      Doubted, Hard
<1>3. Resident'
  BY DEF IndInv, TypeOK, AdapterTypeOK, EngineTypeOK, Resident, Hard, Steady, OneChild, Receive
<1>4. QED
  BY <1>1, <1>2, <1>3 DEF IndInv, TypeOK, AdapterTypeOK

LEMMA LeaveLoopKeeps == ASSUME IndInv, LeaveLoop, Alive, UNCHANGED <<life, eof>>, UNCHANGED client PROVE IndInv'
<1>1. FrontTypeOK' /\ OwnerTypeOK' /\ EngineTypeOK' /\ ClientTypeOK'
  BY DEF IndInv, TypeOK, AdapterTypeOK, FrontTypeOK, LeaveLoop, OwnerTypeOK, EngineTypeOK,
      ClientTypeOK
<1>2. Untouched' /\ Latched' /\ OneRequest' /\ Awaited' /\ Resident' /\ Vectors' /\ Told' /\ Doubted'
  BY DEF IndInv, Untouched, LeaveLoop, Latched, OneRequest, Working, Awaited, Busy, Hard,
      Resident, OneChild, Steady, Vectors, Right, Told, Doubted
<1>3. QED
  BY <1>1, <1>2 DEF IndInv, TypeOK, AdapterTypeOK

LEMMA RecheckKeeps == ASSUME IndInv, Recheck, Alive, UNCHANGED <<life, eof>>, UNCHANGED client PROVE IndInv'
<1>1. FrontTypeOK' /\ OwnerTypeOK' /\ EngineTypeOK' /\ ClientTypeOK'
  BY DEF IndInv, TypeOK, AdapterTypeOK, FrontTypeOK, Recheck, OwnerTypeOK, EngineTypeOK,
      ClientTypeOK
<1>2. Untouched' /\ Latched' /\ Awaited' /\ Vectors' /\ Told' /\ Doubted'
  BY DEF IndInv, Untouched, Recheck, Latched, Awaited, Busy, Vectors, Right, Told, Doubted, Hard
<1>3. OneRequest'
  BY DEF IndInv, OneRequest, Working, Alive, Recheck
<1>4. Resident'
  BY DEF IndInv, TypeOK, AdapterTypeOK, EngineTypeOK, Resident, Hard, Steady, OneChild, Recheck
<1>5. QED
  BY <1>1, <1>2, <1>3, <1>4 DEF IndInv, TypeOK, AdapterTypeOK

LEMMA RefuseKeeps == ASSUME IndInv, Refuse, Alive, UNCHANGED <<life, eof>>, UNCHANGED client PROVE IndInv'
<1>1. FrontTypeOK' /\ OwnerTypeOK' /\ EngineTypeOK' /\ ClientTypeOK'
  BY DEF IndInv, TypeOK, AdapterTypeOK, FrontTypeOK, Refuse, Answered, OwnerTypeOK, Outcomes,
      EngineTypeOK, ClientTypeOK
<1>2. Untouched' /\ Latched' /\ OneRequest' /\ Awaited' /\ Resident' /\ Vectors' /\ Told' /\ Doubted'
  BY DEF IndInv, Untouched, Refuse, Latched, OneRequest, Working, Answered, Awaited, Busy,
      Resident, OneChild, Steady, Hard, Vectors, Right, Told, Doubted
<1>3. QED
  BY <1>1, <1>2 DEF IndInv, TypeOK, AdapterTypeOK

LEMMA UnavailableKeeps == ASSUME IndInv, Unavailable, Alive, UNCHANGED <<life, eof>>, UNCHANGED client PROVE IndInv'
<1>1. FrontTypeOK' /\ OwnerTypeOK' /\ EngineTypeOK' /\ ClientTypeOK'
  BY DEF IndInv, TypeOK, AdapterTypeOK, FrontTypeOK, Unavailable, Answered, OwnerTypeOK,
      Outcomes, EngineTypeOK, ClientTypeOK
<1>2. Untouched' /\ Latched' /\ OneRequest' /\ Awaited' /\ Resident' /\ Vectors' /\ Told' /\ Doubted'
  BY DEF IndInv, Untouched, Unavailable, Latched, OneRequest, Working, Answered, Awaited, Busy,
      Resident, OneChild, Steady, Hard, Vectors, Right, Told, Doubted
<1>3. QED
  BY <1>1, <1>2 DEF IndInv, TypeOK, AdapterTypeOK

LEMMA TokenizerFailsKeeps == ASSUME IndInv, TokenizerFails, Alive, UNCHANGED <<life, eof>>, UNCHANGED client PROVE IndInv'
<1>1. FrontTypeOK' /\ OwnerTypeOK' /\ EngineTypeOK' /\ ClientTypeOK'
  BY DEF IndInv, TypeOK, AdapterTypeOK, FrontTypeOK, TokenizerFails, Fail, OwnerTypeOK,
      EngineTypeOK, ClientTypeOK
<1>2. Untouched' /\ Latched' /\ OneRequest' /\ Awaited' /\ Resident' /\ Vectors' /\ Told'
  BY DEF IndInv, Untouched, TokenizerFails, Latched, OneRequest, Working, Fail, Awaited, Busy,
      Resident, OneChild, Steady, Hard, Vectors, Right, Told
<1>3. Doubted'
  BY DEF IndInv, OneRequest, Awaited, Told, Doubted, Working, Busy, Hard, TokenizerFails, Fail
<1>4. QED
  BY <1>1, <1>2, <1>3 DEF IndInv, TypeOK, AdapterTypeOK

LEMMA PrepareKeeps == ASSUME IndInv, Prepare, Alive, UNCHANGED <<life, eof>>, UNCHANGED client PROVE IndInv'
<1>1. FrontTypeOK' /\ OwnerTypeOK' /\ EngineTypeOK' /\ ClientTypeOK'
  BY DEF IndInv, TypeOK, AdapterTypeOK, FrontTypeOK, Prepare, OwnerTypeOK, EngineTypeOK, Empty,
      WorkerRecord, ClientTypeOK
<1>2. Untouched' /\ Latched' /\ OneRequest' /\ Awaited' /\ Resident' /\ Told' /\ Doubted'
  BY DEF IndInv, Untouched, Prepare, Latched, OneRequest, Working, Awaited, Busy, Resident,
      OneChild, Steady, Hard, Told, Doubted
<1>3. Vectors'
  BY NativeAssumption DEF IndInv, TypeOK, AdapterTypeOK, OwnerTypeOK, OneRequest, Vectors, Told,
      Working, Busy, Fine, Requests, Empty, Prepare
<1>4. QED
  BY <1>1, <1>2, <1>3 DEF IndInv, TypeOK, AdapterTypeOK

LEMMA EvictKeeps == ASSUME IndInv, Evict, Alive, UNCHANGED <<life, eof>>, UNCHANGED client PROVE IndInv'
<1>1. FrontTypeOK'
  BY DEF IndInv, TypeOK, AdapterTypeOK, FrontTypeOK, Requests, Answers, Outcomes, Evict, Fail,
      Dead, Fits
<1>2. OwnerTypeOK'
  BY DEF IndInv, TypeOK, AdapterTypeOK, OwnerTypeOK, Evict, Fail, Dead
<1>3. EngineTypeOK' /\ ClientTypeOK'
  BY DEF IndInv, TypeOK, AdapterTypeOK, EngineTypeOK, Evict, Fail, Dead, ClientTypeOK
<1>4. Untouched' /\ Latched' /\ OneRequest' /\ Awaited' /\ Resident' /\ Vectors' /\ Told'
  BY DEF IndInv, Untouched, Evict, Latched, OneRequest, Working, Fail, Dead, Awaited, Busy,
      Resident, OneChild, Steady, Hard, Vectors, Right, Told
<1>5. Doubted'
  BY DEF IndInv, OneRequest, Awaited, Told, Doubted, Working, Busy, Hard, Evict, Fail
<1>6. QED
  BY <1>1, <1>2, <1>3, <1>4, <1>5 DEF IndInv, TypeOK, AdapterTypeOK

LEMMA SpawnParts ==
  ASSUME IndInv, Spawn, Alive, UNCHANGED <<life, eof>>, UNCHANGED client
  PROVE  EngineTypeOK' /\ Resident' /\ Vectors'
<1>. DEFINE w(i, id) == [id |-> id, scope |-> job.scope, bucket |-> job.rows[i], usable |-> TRUE]
<1>1. PICK i \in Todo, id \in Workers :
        /\ Turn(i) /\ \A c \in children : c.id # id
        /\ \/ hand' = w(i, id) /\ children' = children \cup {Child(w(i, id))} /\ pc' = "compiling" /\ UNCHANGED doubt
           \/ Fail /\ children' \in {children, children \cup {Child(w(i, id))}} /\ UNCHANGED hand
  BY DEF Spawn
<1>2. pc = "row" /\ cached = NoWorker /\ UNCHANGED <<cached, job, core, shared, front>>
  BY DEF Spawn
<1>3. job \in Requests /\ i \in 1..Len(job.rows) /\ job.rows[i] \in Buckets /\ job.scope \in Scopes
  BY <1>2, JobRows DEF Todo, Requests
<1>4. w(i, id) \in WorkerRecord /\ w(i, id) # NoWorker /\ w(i, id).usable /\ w(i, id).scope = job.scope
  <2>1. w(i, id) \in WorkerRecord
    BY <1>3 DEF WorkerRecord
  <2>2. QED
    BY <2>1, NativeAssumption DEF WorkerRecord
<1>5. Child(w(i, id)) \in [id : Workers, scope : Scopes]
  BY <1>3 DEF Child
<1>6. hand = NoWorker /\ children = {}
  BY <1>2 DEF IndInv, TypeOK, AdapterTypeOK, EngineTypeOK, Resident, Steady, Hard
<1>7. EngineTypeOK'
  BY <1>1, <1>2, <1>4, <1>5 DEF IndInv, TypeOK, AdapterTypeOK, EngineTypeOK, Fail
<1>8. job.scope \notin unavailable
  BY <1>2 DEF IndInv, Resident
<1>9. OneChild'
  BY <1>1, <1>6 DEF OneChild, Child
<1>10. Resident'
  <2>1. CASE pc' = "compiling"
    BY <1>1, <1>2, <1>4, <1>6, <1>8, <1>9, <2>1 DEF IndInv, Resident, Steady, Hard, Child, Fail
  <2>2. CASE pc' = "halt"
    BY <1>1, <1>2, <1>4, <1>6, <1>8, <1>9, <2>2 DEF IndInv, Resident, Steady, Hard, Child, Fail
  <2>3. QED
    BY <1>1, <2>1, <2>2 DEF Fail
<1>11. Vectors'
  <2>1. CASE pc' = "compiling"
    <3>1. hand' = w(i, id)
      BY <1>1, <2>1 DEF Fail
    <3>2. \A j \in Todo : Turn(j) => hand'.bucket = job.rows[j]
      BY <1>1, <1>2, <3>1, TurnUnique
    <3>3. \A j \in Todo' : Turn(j)' => hand'.bucket = job'.rows[j]
      BY <1>2, <3>2 DEF Todo, Turn, Before
    <3>4. QED
      BY <1>2, <2>1, <3>3 DEF IndInv, Vectors, Right
  <2>2. CASE pc' = "halt"
    BY <1>2, <2>2 DEF IndInv, Vectors, Right
  <2>3. QED
    BY <1>1, <2>1, <2>2 DEF Fail
<1>12. QED
  BY <1>7, <1>10, <1>11

LEMMA SpawnKeeps == ASSUME IndInv, Spawn, Alive, UNCHANGED <<life, eof>>, UNCHANGED client PROVE IndInv'
<1>1. FrontTypeOK'
  BY DEF IndInv, TypeOK, AdapterTypeOK, FrontTypeOK, Requests, Answers, Outcomes, Spawn, Fail,
      Fits
<1>2. OwnerTypeOK' /\ ClientTypeOK'
  BY DEF IndInv, TypeOK, AdapterTypeOK, OwnerTypeOK, Spawn, Fail, ClientTypeOK
<1>3. Untouched' /\ Latched' /\ OneRequest' /\ Awaited' /\ Told'
  BY DEF IndInv, Untouched, Spawn, Latched, OneRequest, Working, Fail, Awaited, Busy, Told
<1>4. Doubted'
  BY DEF IndInv, OneRequest, Awaited, Told, Doubted, Working, Busy, Hard, Spawn, Fail
<1>5. EngineTypeOK' /\ Resident' /\ Vectors'
  BY SpawnParts
<1>6. QED
  BY <1>1, <1>2, <1>3, <1>4, <1>5 DEF IndInv, TypeOK, AdapterTypeOK

LEMMA StartInferVectors ==
  ASSUME IndInv, StartInfer, Alive, UNCHANGED <<life, eof>>, UNCHANGED client
  PROVE  Vectors'
<1>1. PICK i \in Todo : Turn(i) /\ Fits(i)
  BY DEF StartInfer
<1>2. pc = "row" /\ pc' = "inferring"
  BY DEF StartInfer
<1>3. \A j \in Todo : Turn(j) => cached.bucket = job.rows[j]
  <2>1. SUFFICES ASSUME NEW j \in Todo, Turn(j) PROVE cached.bucket = job.rows[j]
    OBVIOUS
  <2>2. i = j
    BY <1>1, <1>2, <2>1, TurnUnique
  <2>3. QED
    BY <1>1, <2>2 DEF Fits
<1>4. UNCHANGED <<job, rows, cached, preferred, reply, asked, http, at, answer>>
  BY DEF StartInfer
<1>5. \A j \in Todo' : Turn(j)' => cached'.bucket = job'.rows[j]
  BY <1>3, <1>4 DEF Todo, Turn, Before
<1>6. QED
  BY <1>2, <1>4, <1>5 DEF IndInv, Vectors, Right

LEMMA StartInferKeeps == ASSUME IndInv, StartInfer, Alive, UNCHANGED <<life, eof>>, UNCHANGED client PROVE IndInv'
<1>1. FrontTypeOK' /\ OwnerTypeOK' /\ EngineTypeOK' /\ ClientTypeOK'
  BY DEF IndInv, TypeOK, AdapterTypeOK, FrontTypeOK, StartInfer, OwnerTypeOK, EngineTypeOK,
      Fits, ClientTypeOK
<1>2. Untouched' /\ Latched' /\ OneRequest' /\ Awaited' /\ Resident' /\ Told' /\ Doubted'
  BY DEF IndInv, Untouched, StartInfer, Latched, OneRequest, Working, Awaited, Busy, Resident,
      OneChild, Steady, Hard, Fits, Told, Doubted
<1>3. Vectors'
  BY StartInferVectors
<1>4. QED
  BY <1>1, <1>2, <1>3 DEF IndInv, TypeOK, AdapterTypeOK

LEMMA SignKeeps == ASSUME IndInv, Sign, Alive, UNCHANGED <<life, eof>>, UNCHANGED client PROVE IndInv'
<1>1. FrontTypeOK' /\ OwnerTypeOK' /\ EngineTypeOK' /\ ClientTypeOK'
  BY DEF IndInv, TypeOK, AdapterTypeOK, FrontTypeOK, Sign, OwnerTypeOK, Outcomes, EngineTypeOK,
      ClientTypeOK
<1>2. Untouched' /\ Latched' /\ OneRequest' /\ Awaited' /\ Resident' /\ Vectors' /\ Told' /\ Doubted'
  BY DEF IndInv, Untouched, Sign, Latched, OneRequest, Working, Awaited, Busy, Resident,
      OneChild, Steady, Hard, Vectors, Right, Todo, Told, Doubted
<1>3. QED
  BY <1>1, <1>2 DEF IndInv, TypeOK, AdapterTypeOK

LEMMA HaltKeeps == ASSUME IndInv, Halt, Alive, UNCHANGED <<life, eof>>, UNCHANGED client PROVE IndInv'
<1>1. FrontTypeOK' /\ OwnerTypeOK' /\ EngineTypeOK' /\ ClientTypeOK'
  BY DEF IndInv, TypeOK, AdapterTypeOK, FrontTypeOK, Halt, OwnerTypeOK, Outcomes, StopEngine,
      EngineTypeOK, Dead, ClientTypeOK
<1>2. Untouched' /\ Latched' /\ OneRequest' /\ Awaited' /\ Resident' /\ Vectors' /\ Told' /\ Doubted'
  BY DEF IndInv, Untouched, Halt, Latched, OneRequest, Awaited, Busy, Hard, Resident, OneChild,
      Steady, StopEngine, Dead, Vectors, Right, Told, Doubted
<1>3. QED
  BY <1>1, <1>2 DEF IndInv, TypeOK, AdapterTypeOK

LEMMA SendReplyKeeps == ASSUME IndInv, SendReply, Alive, UNCHANGED <<life, eof>>, UNCHANGED client PROVE IndInv'
<1>1. FrontTypeOK' /\ OwnerTypeOK' /\ EngineTypeOK' /\ ClientTypeOK'
  BY DEF IndInv, TypeOK, AdapterTypeOK, FrontTypeOK, OwnerTypeOK, SendReply, EngineTypeOK,
      ClientTypeOK
<1>2. Untouched' /\ Latched' /\ OneRequest' /\ Awaited' /\ Resident' /\ Doubted'
  BY DEF IndInv, Untouched, SendReply, Latched, OneRequest, Working, Awaited, Busy, Resident,
      OneChild, Steady, Hard, Doubted, Fine
<1>3. Vectors'
  BY DEF IndInv, OneRequest, Vectors, Right, SendReply
<1>4. Told'
  BY DEF IndInv, OneRequest, Told, Busy, SendReply
<1>5. QED
  BY <1>1, <1>2, <1>3, <1>4 DEF IndInv, TypeOK, AdapterTypeOK

LEMMA DropJobKeeps == ASSUME IndInv, DropJob, Alive, UNCHANGED <<life, eof>>, UNCHANGED client PROVE IndInv'
<1>1. FrontTypeOK'
  BY DEF IndInv, TypeOK, AdapterTypeOK, FrontTypeOK, Requests, Answers, Outcomes, DropJob, Trip
<1>2. OwnerTypeOK'
  BY DEF IndInv, TypeOK, AdapterTypeOK, OwnerTypeOK, Empty, DropJob
<1>3. EngineTypeOK' /\ ClientTypeOK'
  BY DEF IndInv, TypeOK, AdapterTypeOK, EngineTypeOK, DropJob, ClientTypeOK
<1>4. Untouched' /\ Latched' /\ Awaited' /\ Told' /\ Doubted'
  BY DEF IndInv, Untouched, DropJob, Latched, Awaited, Busy, Working, Hard, Told, Doubted
<1>5. OneRequest'
  BY DEF IndInv, OneRequest, Working, Alive, DropJob
<1>6. Resident'
  BY DEF IndInv, TypeOK, AdapterTypeOK, EngineTypeOK, Resident, Hard, Steady, OneChild, DropJob
<1>7. Vectors'
  BY DEF IndInv, Vectors, Told, Fine, Right, DropJob
<1>8. QED
  BY <1>1, <1>2, <1>3, <1>4, <1>5, <1>6, <1>7 DEF IndInv, TypeOK, AdapterTypeOK

LEMMA LeaveKeeps == ASSUME IndInv, Leave, Alive, UNCHANGED <<life, eof>>, UNCHANGED client PROVE IndInv'
<1>1. FrontTypeOK' /\ OwnerTypeOK' /\ EngineTypeOK' /\ ClientTypeOK'
  BY DEF IndInv, TypeOK, AdapterTypeOK, FrontTypeOK, Leave, OwnerTypeOK, StopEngine,
      EngineTypeOK, Dead, ClientTypeOK
<1>2. Untouched' /\ Latched' /\ OneRequest' /\ Awaited' /\ Resident' /\ Vectors' /\ Told' /\ Doubted'
  BY DEF IndInv, Untouched, Leave, StopEngine, Dead, Latched, OneRequest, Working, Awaited,
      Busy, Hard, Resident, OneChild, Steady, Vectors, Right, Told, Doubted, Fine
<1>3. QED
  BY <1>1, <1>2 DEF IndInv, TypeOK, AdapterTypeOK

LEMMA CompileEndsKeeps == ASSUME IndInv, CompileEnds, Alive, UNCHANGED <<life, eof>>, UNCHANGED client PROVE IndInv'
<1>1. FrontTypeOK'
  BY DEF IndInv, TypeOK, AdapterTypeOK, FrontTypeOK, CompileEnds, Fail, Controlled
<1>2. OwnerTypeOK'
  BY DEF IndInv, TypeOK, AdapterTypeOK, OwnerTypeOK, Requests, Outcomes, CompileEnds, Fail,
      Controlled, Dead
<1>3. EngineTypeOK' /\ ClientTypeOK'
  BY DEF IndInv, TypeOK, AdapterTypeOK, EngineTypeOK, CompileEnds, Fail, Controlled, Dead,
      ClientTypeOK
<1>4. Untouched' /\ Latched' /\ OneRequest' /\ Awaited' /\ Vectors' /\ Told'
  BY DEF IndInv, Untouched, CompileEnds, Latched, OneRequest, Working, Fail, Controlled, Dead,
      Awaited, Busy, Vectors, Right, Todo, Turn, Before, Told
<1>5. Resident'
  BY DEF IndInv, TypeOK, AdapterTypeOK, EngineTypeOK, Resident, Hard, Steady, OneChild,
      CompileEnds, Fail, Controlled, Dead
<1>6. Doubted'
  BY DEF IndInv, OneRequest, Awaited, Told, Doubted, Working, Busy, Hard, CompileEnds, Fail,
      Controlled
<1>7. QED
  BY <1>1, <1>2, <1>3, <1>4, <1>5, <1>6 DEF IndInv, TypeOK, AdapterTypeOK

LEMMA InferEndsVectors ==
  ASSUME IndInv, InferEnds, Alive, UNCHANGED <<life, eof>>, UNCHANGED client
  PROVE  Vectors'
<1>0. ~(http = "armed" /\ reply = "ok") /\ ~(at = "await" /\ answer = "ok")
  BY DEF InferEnds, IndInv, OneRequest, Told, Busy, Working, Fine
<1>1. pc = "inferring" /\ UNCHANGED <<hand, job, preferred, stopped, shared, front>>
  BY DEF InferEnds
<1>2. CASE pc' = "row"
  <2>1. PICK i \in Todo : Turn(i) /\ rows' = [rows EXCEPT ![i] = [scope |-> cached.scope, bucket |-> cached.bucket]]
    BY <1>2 DEF InferEnds, Fail, Controlled
  <2>2. cached.bucket = job.rows[i] /\ cached.scope = job.scope
    BY <1>1, <2>1 DEF IndInv, Vectors, Resident
  <2>3. rows' = [rows EXCEPT ![i] = [scope |-> job.scope, bucket |-> job.rows[i]]]
    BY <2>1, <2>2
  <2>4. \A j \in 1..Len(job.rows) : rows'[j] # NoRow => rows'[j] = [scope |-> job.scope, bucket |-> job.rows[j]]
    <3>1. \A j \in 1..Len(job.rows) : rows[j] # NoRow => rows[j] = [scope |-> job.scope, bucket |-> job.rows[j]]
      BY <1>1 DEF IndInv, Vectors
    <3>2. DOMAIN rows = 1..MaxRows /\ Len(job.rows) \in 1..MaxRows /\ i \in 1..Len(job.rows) /\ MaxRows \in Nat
      BY <1>1, JobRows, NativeAssumption DEF IndInv, TypeOK, AdapterTypeOK, OwnerTypeOK, Todo
    <3>3. QED
      BY <2>3, <3>1, <3>2
  <2>5. QED
    BY <1>1, <1>2, <2>4, <1>0 DEF IndInv, Vectors
<1>3. CASE pc' = "halt"
  BY <1>1, <1>3, <1>0 DEF IndInv, Vectors
<1>4. CASE pc' = "reply" /\ result' = "unavailable"
  BY <1>1, <1>4, <1>0 DEF IndInv, Vectors
<1>5. QED
  BY <1>2, <1>3, <1>4 DEF InferEnds, Fail, Controlled

LEMMA InferEndsKeeps == ASSUME IndInv, InferEnds, Alive, UNCHANGED <<life, eof>>, UNCHANGED client PROVE IndInv'
<1>1. FrontTypeOK'
  BY DEF IndInv, TypeOK, AdapterTypeOK, FrontTypeOK, InferEnds, Fail, Controlled
<1>2. OwnerTypeOK'
  BY DEF IndInv, TypeOK, AdapterTypeOK, OwnerTypeOK, EngineTypeOK, Requests, Outcomes,
      WorkerRecord, InferEnds, Fail, Controlled, Dead
<1>3. EngineTypeOK' /\ ClientTypeOK'
  BY DEF IndInv, TypeOK, AdapterTypeOK, EngineTypeOK, WorkerRecord, Child, InferEnds, Fail,
      Controlled, Dead, ClientTypeOK
<1>4. Untouched' /\ Latched' /\ OneRequest' /\ Awaited' /\ Told'
  BY DEF IndInv, Untouched, InferEnds, Latched, OneRequest, Working, Fail, Controlled, Dead,
      Awaited, Busy, Told
<1>5. Resident'
  BY DEF IndInv, TypeOK, AdapterTypeOK, EngineTypeOK, Resident, Hard, Steady, OneChild,
      WorkerRecord, InferEnds, Fail, Controlled, Dead
<1>6. Doubted'
  BY DEF IndInv, OneRequest, Awaited, Told, Doubted, Working, Busy, Hard, InferEnds, Fail,
      Controlled
<1>7. Vectors'
  BY InferEndsVectors
<1>8. QED
  BY <1>1, <1>2, <1>3, <1>4, <1>5, <1>6, <1>7 DEF IndInv, TypeOK, AdapterTypeOK

-----------------------------------------------------------------------------
(* The main thread.                                                        *)

LEMMA HangupKeeps == ASSUME IndInv, Hangup, life = "up", UNCHANGED <<life, eof, owner>>, UNCHANGED client, UNCHANGED doubt PROVE IndInv'
<1>1. FrontTypeOK'
  BY DEF IndInv, TypeOK, AdapterTypeOK, FrontTypeOK, Requests, Answers, Outcomes, Hangup, Trip
<1>2. OwnerTypeOK'
  BY DEF IndInv, TypeOK, AdapterTypeOK, OwnerTypeOK
<1>3. EngineTypeOK' /\ ClientTypeOK'
  BY DEF IndInv, TypeOK, AdapterTypeOK, EngineTypeOK, ClientTypeOK
<1>4. Untouched' /\ Latched' /\ OneRequest' /\ Awaited' /\ Resident' /\ Vectors' /\ Told' /\ Doubted'
  BY DEF IndInv, Untouched, Hangup, Latched, OneRequest, Awaited, Resident, OneChild, Steady,
      Hard, Vectors, Right, Todo, Turn, Before, Told, Busy, Working, Doubted
<1>5. QED
  BY <1>1, <1>2, <1>3, <1>4 DEF IndInv, TypeOK, AdapterTypeOK

LEMMA BodyLateKeeps == ASSUME IndInv, BodyLate, life = "up", UNCHANGED <<life, eof, owner>>, UNCHANGED client, UNCHANGED doubt PROVE IndInv'
<1>1. FrontTypeOK' /\ OwnerTypeOK' /\ EngineTypeOK' /\ ClientTypeOK'
  BY DEF IndInv, TypeOK, AdapterTypeOK, FrontTypeOK, Answers, BodyLate, Respond, OwnerTypeOK,
      EngineTypeOK, ClientTypeOK
<1>2. Untouched' /\ Latched' /\ OneRequest' /\ Awaited' /\ Resident' /\ Vectors' /\ Told' /\ Doubted'
  BY DEF IndInv, Untouched, BodyLate, Latched, OneRequest, Respond, Awaited, Resident, OneChild,
      Steady, Hard, Vectors, Right, Todo, Turn, Before, Told, Fine, Doubted
<1>3. QED
  BY <1>1, <1>2 DEF IndInv, TypeOK, AdapterTypeOK

LEMMA AdmitKeeps == ASSUME IndInv, Admit, life = "up", UNCHANGED <<life, eof, owner>>, UNCHANGED client, UNCHANGED doubt PROVE IndInv'
<1>1. FrontTypeOK' /\ OwnerTypeOK' /\ EngineTypeOK' /\ ClientTypeOK'
  BY DEF IndInv, TypeOK, AdapterTypeOK, FrontTypeOK, Answers, Admit, Respond, OwnerTypeOK,
      EngineTypeOK, ClientTypeOK
<1>2. Untouched' /\ Latched' /\ OneRequest' /\ Awaited' /\ Resident' /\ Vectors' /\ Told' /\ Doubted'
  BY DEF IndInv, Untouched, Admit, Latched, OneRequest, Respond, Awaited, Busy, Working, Hard,
      Resident, OneChild, Steady, Vectors, Right, Todo, Turn, Before, Told, Fine, Doubted
<1>3. QED
  BY <1>1, <1>2 DEF IndInv, TypeOK, AdapterTypeOK

LEMMA SendKeeps == ASSUME IndInv, Send, life = "up", UNCHANGED <<life, eof, owner>>, UNCHANGED client, UNCHANGED doubt PROVE IndInv'
<1>1. FrontTypeOK'
  BY DEF IndInv, TypeOK, AdapterTypeOK, FrontTypeOK, Requests, Answers, Outcomes, Send, Respond,
      Trip, Polled
<1>2. OwnerTypeOK'
  BY DEF IndInv, TypeOK, AdapterTypeOK, OwnerTypeOK
<1>3. EngineTypeOK' /\ ClientTypeOK'
  BY DEF IndInv, TypeOK, AdapterTypeOK, EngineTypeOK, ClientTypeOK
<1>4. Untouched' /\ Latched' /\ OneRequest' /\ Awaited' /\ Resident' /\ Vectors' /\ Told' /\ Doubted'
  BY DEF IndInv, Untouched, Send, Polled, Latched, OneRequest, Respond, Awaited, Resident,
      OneChild, Steady, Hard, Vectors, Right, Todo, Turn, Before, Told, Fine, Doubted
<1>5. QED
  BY <1>1, <1>2, <1>3, <1>4 DEF IndInv, TypeOK, AdapterTypeOK

LEMMA FinishKeeps == ASSUME IndInv, Finish, life = "up", UNCHANGED <<life, eof, owner>>, UNCHANGED client, UNCHANGED doubt PROVE IndInv'
<1>1. FrontTypeOK'
  BY DEF IndInv, TypeOK, AdapterTypeOK, FrontTypeOK, Requests, Answers, Outcomes, Finish,
      Respond, Trip
<1>2. OwnerTypeOK'
  BY DEF IndInv, TypeOK, AdapterTypeOK, OwnerTypeOK
<1>3. EngineTypeOK' /\ ClientTypeOK'
  BY DEF IndInv, TypeOK, AdapterTypeOK, EngineTypeOK, ClientTypeOK
<1>4. Untouched' /\ Latched' /\ OneRequest' /\ Awaited' /\ Resident' /\ Vectors' /\ Doubted'
  BY DEF IndInv, Untouched, Finish, Latched, OneRequest, Respond, Awaited, Resident, OneChild,
      Steady, Hard, Vectors, Right, Todo, Turn, Before, Doubted, Fine
<1>5. Told'
  BY DEF IndInv, OneRequest, Told, Working, Busy, Fine, Hard, Finish, Respond
<1>6. QED
  BY <1>1, <1>2, <1>3, <1>4, <1>5 DEF IndInv, TypeOK, AdapterTypeOK

LEMMA DeadlineKeeps == ASSUME IndInv, Deadline, life = "up", UNCHANGED <<life, eof, owner>>, UNCHANGED client, doubt' = TRUE PROVE IndInv'
<1>1. FrontTypeOK' /\ OwnerTypeOK' /\ EngineTypeOK' /\ ClientTypeOK'
  BY DEF IndInv, TypeOK, AdapterTypeOK, FrontTypeOK, Answers, Deadline, Respond, Trip,
      OwnerTypeOK, EngineTypeOK, ClientTypeOK
<1>2. Untouched' /\ Latched' /\ OneRequest' /\ Awaited' /\ Resident' /\ Vectors' /\ Told'
  BY DEF IndInv, Untouched, Deadline, Latched, OneRequest, Respond, Awaited, Resident, OneChild,
      Steady, Hard, Vectors, Right, Todo, Turn, Before, Told, Fine
<1>3. Doubted'
  BY DEF IndInv, Awaited, Doubted, Fine, Deadline, Respond
<1>4. QED
  BY <1>1, <1>2, <1>3 DEF IndInv, TypeOK, AdapterTypeOK

LEMMA ReadyKeeps == ASSUME IndInv, Ready, UNCHANGED client PROVE IndInv'
<1>1. FrontTypeOK' /\ OwnerTypeOK' /\ EngineTypeOK' /\ ClientTypeOK'
  BY DEF IndInv, TypeOK, AdapterTypeOK, FrontTypeOK, Ready, OwnerTypeOK, EngineTypeOK,
      Untouched, ClientTypeOK
<1>2. Untouched' /\ Latched' /\ Awaited' /\ Vectors' /\ Told'
  BY DEF IndInv, Untouched, Ready, Latched, Awaited, Busy, Working, Hard, Vectors, Right, Told
<1>3. OneRequest'
  BY DEF IndInv, Untouched, OneRequest, Ready
<1>4. Resident'
  BY DEF IndInv, Untouched, Resident, OneChild, Ready
<1>5. Doubted'
  BY DEF IndInv, OneRequest, Doubted, Ready
<1>6. QED
  BY <1>1, <1>2, <1>3, <1>4, <1>5 DEF IndInv, TypeOK, AdapterTypeOK

LEMMA StartFailsKeeps == ASSUME IndInv, StartFails, UNCHANGED client PROVE IndInv'
<1>1. FrontTypeOK' /\ OwnerTypeOK' /\ EngineTypeOK' /\ ClientTypeOK'
  BY DEF IndInv, TypeOK, AdapterTypeOK, FrontTypeOK, Answers, StartFails, Vanish, Unanswered,
      OwnerTypeOK, EngineTypeOK, ClientTypeOK
<1>2. Untouched' /\ Latched' /\ OneRequest' /\ Awaited' /\ Resident' /\ Vectors' /\ Told' /\ Doubted'
  BY DEF IndInv, Untouched, StartFails, Vanish, Unanswered, Latched, OneRequest, Awaited,
      Resident, OneChild, Steady, Vectors, Right, Told, Fine, Busy, Working, Hard, Doubted
<1>3. QED
  BY <1>1, <1>2 DEF IndInv, TypeOK, AdapterTypeOK

LEMMA CloseKeeps == ASSUME IndInv, Close, UNCHANGED client PROVE IndInv'
<1>1. FrontTypeOK' /\ OwnerTypeOK' /\ EngineTypeOK' /\ ClientTypeOK'
  BY DEF IndInv, TypeOK, AdapterTypeOK, FrontTypeOK, Answers, Close, Unanswered, OwnerTypeOK,
      EngineTypeOK, ClientTypeOK
<1>2. Untouched' /\ Latched' /\ OneRequest' /\ Awaited' /\ Resident' /\ Vectors' /\ Told' /\ Doubted'
  BY DEF IndInv, Untouched, Close, Unanswered, Latched, OneRequest, Awaited, Busy, Working,
      Hard, Resident, OneChild, Steady, Vectors, Right, Todo, Turn, Before, Told, Fine, Doubted
<1>3. QED
  BY <1>1, <1>2 DEF IndInv, TypeOK, AdapterTypeOK

LEMMA ExitKeeps == ASSUME IndInv, Exit, UNCHANGED client PROVE IndInv'
<1>1. FrontTypeOK' /\ OwnerTypeOK' /\ EngineTypeOK' /\ ClientTypeOK'
  BY DEF IndInv, TypeOK, AdapterTypeOK, FrontTypeOK, Answers, Exit, Vanish, Unanswered,
      OwnerTypeOK, EngineTypeOK, ClientTypeOK
<1>2. Untouched' /\ Latched' /\ OneRequest' /\ Awaited' /\ Resident' /\ Vectors' /\ Told' /\ Doubted'
  BY DEF IndInv, Untouched, Exit, Vanish, Unanswered, Latched, OneRequest, Awaited, Resident,
      OneChild, Steady, Vectors, Right, Told, Fine, Busy, Working, Hard, Doubted
<1>3. QED
  BY <1>1, <1>2 DEF IndInv, TypeOK, AdapterTypeOK

LEMMA LifelineKeeps == ASSUME IndInv, Lifeline, UNCHANGED client PROVE IndInv'
<1>1. FrontTypeOK' /\ OwnerTypeOK' /\ EngineTypeOK' /\ ClientTypeOK'
  BY DEF IndInv, TypeOK, AdapterTypeOK, FrontTypeOK, Answers, Lifeline, Vanish, Unanswered,
      OwnerTypeOK, EngineTypeOK, ClientTypeOK
<1>2. Untouched' /\ Latched' /\ OneRequest' /\ Awaited' /\ Resident' /\ Vectors' /\ Told' /\ Doubted'
  BY DEF IndInv, Untouched, Lifeline, Vanish, Unanswered, Latched, OneRequest, Awaited,
      Resident, OneChild, Steady, Vectors, Right, Told, Fine, Busy, Working, Hard, Doubted
<1>3. QED
  BY <1>1, <1>2 DEF IndInv, TypeOK, AdapterTypeOK

LEMMA CrashKeeps == ASSUME IndInv, Crash, UNCHANGED client PROVE IndInv'
<1>1. FrontTypeOK' /\ OwnerTypeOK' /\ EngineTypeOK' /\ ClientTypeOK'
  BY DEF IndInv, TypeOK, AdapterTypeOK, FrontTypeOK, Answers, Crash, Vanish, Unanswered,
      OwnerTypeOK, EngineTypeOK, ClientTypeOK
<1>2. Latched' /\ OneRequest' /\ Awaited' /\ Resident' /\ Vectors' /\ Told' /\ Doubted'
  BY DEF IndInv, Latched, OneRequest, Crash, Vanish, Awaited, Resident, OneChild, Steady,
      Vectors, Right, Unanswered, Told, Fine, Busy, Working, Hard, Doubted
<1>3. Untouched'
  BY DEF IndInv, TypeOK, ClientTypeOK, Untouched, Crash, Vanish, Unanswered
<1>4. QED
  BY <1>1, <1>2, <1>3 DEF IndInv, TypeOK, AdapterTypeOK

-----------------------------------------------------------------------------
(* The client.                                                             *)

LEMMA CallKeeps == ASSUME IndInv, Call, parent, UNCHANGED parent PROVE IndInv'
<1>1. FrontTypeOK' /\ OwnerTypeOK' /\ EngineTypeOK' /\ ClientTypeOK'
  BY DEF IndInv, TypeOK, AdapterTypeOK, FrontTypeOK, Call, OwnerTypeOK, EngineTypeOK,
      ClientTypeOK
<1>2. Untouched' /\ Latched' /\ OneRequest' /\ Awaited' /\ Resident' /\ Vectors' /\ Told' /\ Doubted'
  BY DEF IndInv, Untouched, Call, Latched, OneRequest, Working, Awaited, Busy, Hard, Resident,
      OneChild, Steady, Vectors, Right, Todo, Turn, Before, Told, Doubted
<1>3. QED
  BY <1>1, <1>2 DEF IndInv, TypeOK, AdapterTypeOK

LEMMA ExhaustedKeeps == ASSUME IndInv, Exhausted, parent, UNCHANGED parent PROVE IndInv'
<1>1. FrontTypeOK' /\ OwnerTypeOK' /\ EngineTypeOK' /\ ClientTypeOK'
  BY DEF IndInv, TypeOK, AdapterTypeOK, FrontTypeOK, Exhausted, OwnerTypeOK, EngineTypeOK,
      ClientTypeOK, Return
<1>2. Untouched' /\ Latched' /\ OneRequest' /\ Awaited' /\ Resident' /\ Vectors' /\ Told' /\ Doubted'
  BY DEF IndInv, Untouched, Exhausted, Latched, Return, OneRequest, Working, Awaited, Busy,
      Hard, Resident, OneChild, Steady, Vectors, Right, Todo, Turn, Before, Told, Doubted
<1>3. QED
  BY <1>1, <1>2 DEF IndInv, TypeOK, AdapterTypeOK

LEMMA RefusedKeeps == ASSUME IndInv, Refused, parent, UNCHANGED parent PROVE IndInv'
<1>1. FrontTypeOK' /\ OwnerTypeOK'
  BY DEF IndInv, TypeOK, AdapterTypeOK, FrontTypeOK, Refused, OwnerTypeOK
<1>2. EngineTypeOK' /\ ClientTypeOK'
  BY DEF IndInv, TypeOK, AdapterTypeOK, EngineTypeOK, Refused, ClientTypeOK, Return
<1>3. Untouched' /\ Latched' /\ OneRequest' /\ Awaited' /\ Resident' /\ Vectors' /\ Told' /\ Doubted'
  BY DEF IndInv, Untouched, Refused, Latched, Return, OneRequest, Working, Awaited, Busy, Hard,
      Resident, OneChild, Steady, Vectors, Right, Todo, Turn, Before, Told, Doubted
<1>4. QED
  BY <1>1, <1>2, <1>3 DEF IndInv, TypeOK, AdapterTypeOK

LEMMA ReuseKeeps == ASSUME IndInv, Reuse, parent, UNCHANGED parent PROVE IndInv'
<1>1. FrontTypeOK' /\ OwnerTypeOK' /\ EngineTypeOK' /\ ClientTypeOK'
  BY DEF IndInv, TypeOK, AdapterTypeOK, FrontTypeOK, Reuse, OwnerTypeOK, EngineTypeOK,
      ClientTypeOK
<1>2. Untouched' /\ Latched' /\ OneRequest' /\ Awaited' /\ Resident' /\ Vectors' /\ Told' /\ Doubted'
  BY DEF IndInv, Untouched, Reuse, Latched, OneRequest, Working, Awaited, Busy, Hard, Resident,
      OneChild, Steady, Vectors, Right, Todo, Turn, Before, Told, Doubted
<1>3. QED
  BY <1>1, <1>2 DEF IndInv, TypeOK, AdapterTypeOK

LEMMA StartKeeps == ASSUME IndInv, Start, parent, UNCHANGED parent PROVE IndInv'
<1>1. FrontTypeOK'
  BY DEF IndInv, TypeOK, AdapterTypeOK, FrontTypeOK, Requests, Answers, Outcomes, Start, Launch,
      Return
<1>2. OwnerTypeOK'
  BY DEF IndInv, TypeOK, AdapterTypeOK, OwnerTypeOK, Requests, Outcomes, Empty, Start, Launch,
      Return
<1>3. EngineTypeOK' /\ ClientTypeOK'
  BY DEF IndInv, TypeOK, AdapterTypeOK, EngineTypeOK, Start, Launch, ClientTypeOK, Return
<1>4. Untouched' /\ Latched' /\ OneRequest' /\ Awaited' /\ Vectors' /\ Told'
  BY DEF IndInv, Untouched, Start, Launch, Latched, OneRequest, Working, Awaited, Busy, Hard,
      Return, Vectors, Right, Todo, Turn, Before, Told
<1>5. Resident'
  BY DEF IndInv, Untouched, Resident, OneChild, Start, Launch
<1>6. Doubted'
  BY DEF IndInv, Untouched, Doubted, Start, Launch
<1>7. QED
  BY <1>1, <1>2, <1>3, <1>4, <1>5, <1>6 DEF IndInv, TypeOK, AdapterTypeOK

LEMMA StartedKeeps == ASSUME IndInv, Started, parent, UNCHANGED parent PROVE IndInv'
<1>1. FrontTypeOK' /\ OwnerTypeOK' /\ EngineTypeOK' /\ ClientTypeOK'
  BY DEF IndInv, TypeOK, AdapterTypeOK, FrontTypeOK, Started, OwnerTypeOK, EngineTypeOK,
      ClientTypeOK
<1>2. Untouched' /\ Latched' /\ OneRequest' /\ Resident' /\ Vectors' /\ Told' /\ Doubted'
  BY DEF IndInv, Untouched, Started, Latched, OneRequest, Working, Resident, OneChild, Steady,
      Hard, Vectors, Right, Todo, Turn, Before, Told, Doubted
<1>3. Awaited'
  BY DEF IndInv, Latched, Awaited, Working, Busy, Hard, Started
<1>4. QED
  BY <1>1, <1>2, <1>3 DEF IndInv, TypeOK, AdapterTypeOK

LEMMA StartupFailsKeeps == ASSUME IndInv, StartupFails, parent, UNCHANGED parent PROVE IndInv'
<1>1. FrontTypeOK'
  BY DEF IndInv, TypeOK, AdapterTypeOK, FrontTypeOK, Requests, Answers, Outcomes, StartupFails,
      Return, Terminate, Vanish, Unanswered
<1>2. OwnerTypeOK'
  BY DEF IndInv, TypeOK, AdapterTypeOK, OwnerTypeOK, StartupFails, Terminate, Vanish
<1>3. EngineTypeOK' /\ ClientTypeOK'
  BY DEF IndInv, TypeOK, AdapterTypeOK, EngineTypeOK, StartupFails, Terminate, Vanish,
      ClientTypeOK, Return
<1>4. Latched' /\ OneRequest' /\ Awaited' /\ Resident' /\ Vectors' /\ Told' /\ Doubted'
  BY DEF IndInv, Latched, StartupFails, OneRequest, Working, Terminate, Vanish, Awaited, Busy,
      Hard, Return, Resident, OneChild, Steady, Vectors, Right, Todo, Turn, Before, Told,
      Doubted
<1>5. Untouched'
  BY DEF IndInv, Untouched, Awaited, StartupFails, Terminate, Vanish, Unanswered
<1>6. QED
  BY <1>1, <1>2, <1>3, <1>4, <1>5 DEF IndInv, TypeOK, AdapterTypeOK

LEMMA PostKeeps == ASSUME IndInv, Post, parent, UNCHANGED parent PROVE IndInv'
<1>1. FrontTypeOK' /\ OwnerTypeOK' /\ EngineTypeOK' /\ ClientTypeOK'
  BY NativeAssumption DEF IndInv, TypeOK, AdapterTypeOK, FrontTypeOK, ClientTypeOK, Awaited,
      Requests, Answers, Post, OwnerTypeOK, EngineTypeOK
<1>2. Latched' /\ OneRequest' /\ Resident' /\ Vectors' /\ Told' /\ Doubted'
  BY DEF IndInv, Latched, Post, OneRequest, Resident, OneChild, Steady, Hard, Vectors, Right,
      Todo, Turn, Before, Told, Fine, Doubted
<1>3. Untouched'
  BY DEF IndInv, Untouched, Awaited, Post
<1>4. Awaited'
  BY NativeAssumption DEF IndInv, TypeOK, ClientTypeOK, Awaited, Working, Busy, Hard, Requests,
      Post
<1>5. QED
  BY <1>1, <1>2, <1>3, <1>4 DEF IndInv, TypeOK, AdapterTypeOK

LEMMA LoseKeeps == ASSUME IndInv, Lose, parent, UNCHANGED parent PROVE IndInv'
<1>1. FrontTypeOK' /\ OwnerTypeOK' /\ EngineTypeOK' /\ ClientTypeOK'
  BY DEF IndInv, TypeOK, AdapterTypeOK, FrontTypeOK, Answers, Lose, OwnerTypeOK, EngineTypeOK,
      ClientTypeOK
<1>2. Latched' /\ OneRequest' /\ Awaited' /\ Resident' /\ Vectors' /\ Told' /\ Doubted'
  BY DEF IndInv, Latched, Lose, OneRequest, Working, Awaited, Busy, Hard, Resident, OneChild,
      Steady, Vectors, Right, Todo, Turn, Before, Told, Fine, Doubted
<1>3. Untouched'
  BY DEF IndInv, Untouched, Awaited, Lose
<1>4. QED
  BY <1>1, <1>2, <1>3 DEF IndInv, TypeOK, AdapterTypeOK

LEMMA TakeVectorsKeeps == ASSUME IndInv, TakeVectors, parent, UNCHANGED parent PROVE IndInv'
<1>1. FrontTypeOK' /\ OwnerTypeOK' /\ EngineTypeOK' /\ ClientTypeOK'
  BY DEF IndInv, TypeOK, AdapterTypeOK, FrontTypeOK, TakeVectors, OwnerTypeOK, EngineTypeOK,
      ClientTypeOK, Awaited, Requests, Return
<1>2. Untouched' /\ Latched' /\ OneRequest' /\ Resident' /\ Vectors' /\ Told' /\ Doubted'
  BY DEF IndInv, Untouched, TakeVectors, Latched, OneRequest, Working, Resident, OneChild,
      Steady, Hard, Vectors, Right, Todo, Turn, Before, Told, Return, Doubted, Fine
<1>3. Awaited'
  BY DEF IndInv, Awaited, Told, Working, Busy, Fine, Hard, TakeVectors, Return
<1>4. QED
  BY <1>1, <1>2, <1>3 DEF IndInv, TypeOK, AdapterTypeOK

LEMMA TakeRefusalKeeps == ASSUME IndInv, TakeRefusal, parent, UNCHANGED parent PROVE IndInv'
<1>1. FrontTypeOK' /\ OwnerTypeOK' /\ EngineTypeOK' /\ ClientTypeOK'
  BY DEF IndInv, TypeOK, AdapterTypeOK, FrontTypeOK, TakeRefusal, OwnerTypeOK, EngineTypeOK,
      ClientTypeOK, Return
<1>2. Untouched' /\ Latched' /\ OneRequest' /\ Resident' /\ Vectors' /\ Told' /\ Doubted'
  BY DEF IndInv, Untouched, TakeRefusal, Latched, OneRequest, Working, Resident, OneChild,
      Steady, Hard, Vectors, Right, Todo, Turn, Before, Told, Return, Doubted, Fine
<1>3. Awaited'
  BY DEF IndInv, Awaited, Told, Working, Busy, Fine, Hard, TakeRefusal, Return
<1>4. QED
  BY <1>1, <1>2, <1>3 DEF IndInv, TypeOK, AdapterTypeOK

LEMMA FallBackKeeps == ASSUME IndInv, FallBack, parent, UNCHANGED parent PROVE IndInv'
<1>1. FrontTypeOK' /\ OwnerTypeOK' /\ EngineTypeOK' /\ ClientTypeOK'
  BY DEF IndInv, TypeOK, AdapterTypeOK, FrontTypeOK, FallBack, OwnerTypeOK, EngineTypeOK,
      ClientTypeOK, Told
<1>2. Untouched' /\ Latched' /\ OneRequest' /\ Vectors' /\ Told' /\ Doubted'
  BY DEF IndInv, Untouched, FallBack, Latched, OneRequest, Working, Vectors, Right, Todo, Turn,
      Before, Told, Doubted, Fine
<1>3. Awaited'
  BY DEF IndInv, Awaited, Told, Working, Busy, Fine, Hard, FallBack
<1>4. Resident'
  BY DEF IndInv, Resident, Told, Hard, Steady, OneChild, FallBack
<1>5. QED
  BY <1>1, <1>2, <1>3, <1>4 DEF IndInv, TypeOK, AdapterTypeOK

LEMMA AbortKeeps == ASSUME IndInv, Abort, parent, UNCHANGED parent PROVE IndInv'
<1>1. FrontTypeOK'
  BY DEF IndInv, TypeOK, AdapterTypeOK, FrontTypeOK, Abort, Terminate, Vanish, Unanswered
<1>2. OwnerTypeOK'
  BY DEF IndInv, TypeOK, AdapterTypeOK, OwnerTypeOK, Abort, Terminate, Vanish
<1>3. EngineTypeOK' /\ ClientTypeOK'
  BY DEF IndInv, TypeOK, AdapterTypeOK, EngineTypeOK, Abort, Terminate, Vanish, ClientTypeOK,
      Return
<1>4. Untouched' /\ Latched' /\ OneRequest' /\ Awaited' /\ Resident' /\ Vectors' /\ Told' /\ Doubted'
  BY DEF IndInv, Untouched, Abort, Terminate, Vanish, Latched, Return, OneRequest, Working,
      Awaited, Resident, OneChild, Steady, Hard, Vectors, Right, Todo, Turn, Before, Unanswered,
      Told, Doubted
<1>5. QED
  BY <1>1, <1>2, <1>3, <1>4 DEF IndInv, TypeOK, AdapterTypeOK

\* The conjuncts of FrontTypeOK, put together.
LEMMA FrontParts ==
  ASSUME life' \in {"none", "starting", "up", "closing", "gone"},
         {eof', requested', fatal', doubt'} \subseteq BOOLEAN,
         slot' \in {"free", "held"},
         {queue', asked'} \subseteq Requests \cup {NoRequest},
         reply' \in {"none", "dropped"} \cup Outcomes,
         http' \in {"none", "body", "slot", "armed"},
         answer' \in Answers,
         http' # "none" => asked' # NoRequest
  PROVE  FrontTypeOK'
  BY DEF FrontTypeOK

LEMMA ParentDiesKeeps == ASSUME IndInv, ParentDies PROVE IndInv'
<1>1. FrontTypeOK'
  <2>1. life' \in {"none", "starting", "up", "closing", "gone"}
    BY DEF IndInv, TypeOK, AdapterTypeOK, FrontTypeOK, ParentDies, Unanswered, Answers
  <2>2. {eof', requested', fatal', doubt'} \subseteq BOOLEAN
    BY DEF IndInv, TypeOK, AdapterTypeOK, FrontTypeOK, ParentDies, Unanswered, Answers
  <2>3. slot' \in {"free", "held"}
    BY DEF IndInv, TypeOK, AdapterTypeOK, FrontTypeOK, ParentDies, Unanswered, Answers
  <2>4. {queue', asked'} \subseteq Requests \cup {NoRequest}
    BY DEF IndInv, TypeOK, AdapterTypeOK, FrontTypeOK, ParentDies, Unanswered, Answers
  <2>5. reply' \in {"none", "dropped"} \cup Outcomes
    BY DEF IndInv, TypeOK, AdapterTypeOK, FrontTypeOK, ParentDies, Unanswered, Answers
  <2>6. http' \in {"none", "body", "slot", "armed"}
    BY DEF IndInv, TypeOK, AdapterTypeOK, FrontTypeOK, ParentDies, Unanswered, Answers
  <2>7. answer' \in Answers
    BY DEF IndInv, TypeOK, AdapterTypeOK, FrontTypeOK, ParentDies, Unanswered, Answers
  <2>8. http' # "none" => asked' # NoRequest
    BY DEF IndInv, TypeOK, AdapterTypeOK, FrontTypeOK, ParentDies, Unanswered, Answers
  <2>9. QED
    BY <2>1, <2>2, <2>3, <2>4, <2>5, <2>6, <2>7, <2>8, FrontParts
<1>7. OwnerTypeOK'
  BY DEF IndInv, TypeOK, AdapterTypeOK, OwnerTypeOK, ParentDies
<1>8. EngineTypeOK'
  BY DEF IndInv, TypeOK, AdapterTypeOK, EngineTypeOK, ParentDies
<1>9. ClientTypeOK'
  BY DEF IndInv, TypeOK, ClientTypeOK, ParentDies
<1>2. Untouched' /\ Latched' /\ OneRequest' /\ Awaited'
  BY DEF IndInv, Untouched, Latched, OneRequest, Awaited, Working, Busy, Hard, ParentDies, Unanswered
<1>3. Resident'
  BY DEF IndInv, Resident, OneChild, Steady, Hard, ParentDies
<1>4. Vectors'
  BY DEF IndInv, Vectors, Right, Todo, Turn, Before, ParentDies, Unanswered
<1>5. Told' /\ Doubted'
  BY DEF IndInv, Told, Doubted, Fine, Busy, Working, Hard, ParentDies, Unanswered
<1>6. QED
  BY <1>1, <1>7, <1>8, <1>9, <1>2, <1>3, <1>4, <1>5 DEF IndInv, TypeOK, AdapterTypeOK
-----------------------------------------------------------------------------
LEMMA IndInit == Init => IndInv
<1>. SUFFICES ASSUME Init PROVE IndInv
  OBVIOUS
<1>2. TypeOK
  BY NativeAssumption, BackendAssumption
     DEF Init, AdapterInit, TypeOK, AdapterTypeOK, FrontTypeOK, OwnerTypeOK, EngineTypeOK, ClientTypeOK,
         Answers, Outcomes, Empty
<1>3. Untouched /\ Latched /\ OneRequest /\ Awaited
  BY DEF Init, AdapterInit, Untouched, Latched, OneRequest, Awaited, Working, Busy, Hard
<1>4. Resident
  BY DEF Init, AdapterInit, Resident, OneChild, Steady, Hard
<1>5. Vectors /\ Told /\ Doubted
  BY DEF Init, AdapterInit, Vectors, Told, Doubted, Fine, Busy, Working, Hard
<1>6. QED
  BY <1>2, <1>3, <1>4, <1>5 DEF IndInv

LEMMA IndNext == IndInv /\ [Next]_vars => IndInv'
<1>. SUFFICES ASSUME IndInv, [Next]_vars PROVE IndInv'
  OBVIOUS
<1>1. CASE Client
  BY <1>1, CallKeeps, ExhaustedKeeps, RefusedKeeps, ReuseKeeps, StartKeeps, StartedKeeps, StartupFailsKeeps,
     PostKeeps, LoseKeeps, TakeVectorsKeeps, TakeRefusalKeeps, FallBackKeeps, AbortKeeps DEF Client, HolderMoves
<1>2. CASE ParentDies
  BY <1>2, ParentDiesKeeps
<1>3. CASE Owner /\ UNCHANGED client
  BY <1>3, ReceiveKeeps, LeaveLoopKeeps, RecheckKeeps, RefuseKeeps, UnavailableKeeps, TokenizerFailsKeeps,
     PrepareKeeps, EvictKeeps, SpawnKeeps, StartInferKeeps, SignKeeps, HaltKeeps, SendReplyKeeps, DropJobKeeps,
     LeaveKeeps, CompileEndsKeeps, InferEndsKeeps DEF Owner, OwnerMoves, NativeCallEnds
<1>4. CASE Serve /\ UNCHANGED client
  BY <1>4, HangupKeeps, BodyLateKeeps, AdmitKeeps, SendKeeps, FinishKeeps, DeadlineKeeps DEF Serve
<1>5. CASE (Ready \/ StartFails \/ Shutdown \/ Exit \/ Lifeline \/ Crash) /\ UNCHANGED client
  BY <1>5, ReadyKeeps, StartFailsKeeps, CloseKeeps, ExitKeeps, LifelineKeeps, CrashKeeps DEF Shutdown
<1>6. CASE UNCHANGED vars
  BY <1>6 DEF vars, IndInv, TypeOK, AdapterTypeOK, FrontTypeOK, OwnerTypeOK, EngineTypeOK, ClientTypeOK,
     Untouched, Latched, OneRequest, Awaited, Resident, Vectors, Told, Doubted, Working, Busy, Fine, Hard,
     Steady, OneChild, Right, Todo, Turn, Before
<1>7. QED
  BY <1>1, <1>2, <1>3, <1>4, <1>5, <1>6 DEF Next, Adapter

LEMMA Ind == Spec => []IndInv
  BY IndInit, IndNext, PTL DEF Spec
-----------------------------------------------------------------------------
\* Every field of the client and of the adapter has its type, in any
\* interleaving of the threads of both and whatever dies.
THEOREM TypeCorrect == Spec => []TypeOK
<1>1. IndInv => TypeOK
  BY DEF IndInv
<1>2. QED
  BY <1>1, Ind, PTL

\* Relaunches, uncertain deaths and adapters that outlive their supervisor
\* included, at most one native process is alive.
THEOREM OneNative == Spec => []OneChild
<1>1. IndInv => OneChild
  BY DEF IndInv, Resident
<1>2. QED
  BY <1>1, Ind, PTL

\* The client gives up a scope only when no native process of it is alive.
THEOREM FallbackIsConfirmed == Spec => []FallbackConfirmed
<1>1. IndInv => FallbackConfirmed
  BY DEF IndInv, Resident, FallbackConfirmed
<1>2. QED
  BY <1>1, Ind, PTL

\* A caller's vectors are those of its own texts, in order, of one scope.
THEOREM VectorsAreRight == Spec => []RightVectors
<1>1. IndInv => RightVectors
  BY DEF IndInv, Vectors, Right, Awaited, RightVectors
<1>2. QED
  BY <1>1, Ind, PTL

\* Once an outcome is in doubt nothing is launched and nothing is asked.
THEOREM DoubtIsFinal == Spec => NeverAgain
<1>1. IndInv /\ [Next]_vars =>
        [doubt => /\ life' = "starting" => life = "starting"
                  /\ http' = "body" => http = "body"]_vars
  <2>. SUFFICES ASSUME IndInv, Next, doubt
       PROVE  /\ life' = "starting" => life = "starting"
              /\ http' = "body" => http = "body"
    OBVIOUS
  <2>1. CASE Client
    <3>1. CASE Start
      BY <2>1, <3>1 DEF IndInv, Untouched, Start, Launch, Return
    <3>2. CASE Post
      BY <2>1, <3>2 DEF IndInv, Untouched, Latched, Doubted, Post, Client
    <3>3. CASE StartupFails \/ Abort
      BY <3>3 DEF StartupFails, Abort, Terminate, Vanish
    <3>4. CASE Call \/ Exhausted \/ Refused \/ Reuse \/ Started \/ Lose \/ TakeVectors \/ TakeRefusal \/ FallBack
      BY <3>4 DEF Call, Exhausted, Refused, Reuse, Started, Lose, TakeVectors, TakeRefusal, FallBack
    <3>5. QED
      BY <2>1, <3>1, <3>2, <3>3, <3>4 DEF Client, HolderMoves
  <2>2. CASE ParentDies
    BY <2>2 DEF ParentDies
  <2>3. CASE Owner
    BY <2>3 DEF Owner, OwnerMoves, NativeCallEnds, Receive, LeaveLoop, Recheck, Refuse, Unavailable, Answered,
       TokenizerFails, Prepare, Evict, Spawn, StartInfer, Sign, Halt, SendReply, DropJob, Leave, CompileEnds,
       InferEnds
  <2>4. CASE Serve
    BY <2>4 DEF Serve, Hangup, BodyLate, Admit, Send, Finish, Deadline, Respond
  <2>5. CASE Ready \/ StartFails \/ Shutdown \/ Exit \/ Lifeline \/ Crash
    BY <2>5 DEF Ready, StartFails, Shutdown, Close, Exit, Lifeline, Crash, Vanish
  <2>6. QED
    BY <2>1, <2>2, <2>3, <2>4, <2>5 DEF Next, Adapter
<1>2. QED
  BY <1>1, Ind, PTL DEF Spec, NeverAgain
=============================================================================
