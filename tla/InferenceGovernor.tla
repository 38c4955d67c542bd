-------------------------- MODULE InferenceGovernor --------------------------
(***************************************************************************)
(* Host-wide admission for native inference: any number of processes, each *)
(* owning one native worker child, share a governor directory with a lock  *)
(* file, a durable state record and a durable intent record.               *)
(*                                                                         *)
(* inference_governor.rs (begin, supervise, complete), native_adapter.rs   *)
(* (execute, settle_response, stop) and native_worker.rs (run_stdio).      *)
(*                                                                         *)
(* An adapter is one incarnation of a process with its child: a process    *)
(* that crashes, or whose adapter has latched itself unavailable, is not   *)
(* used again.  Provisioning and recovery are external to the program.     *)
(***************************************************************************)
EXTENDS Integers

CONSTANTS
  Adapters,       \* process incarnations, each with a native worker of its own
  Bucket,         \* [Adapters -> Nat]: the sequence bucket a worker is compiled for
  MinBucket, MaxBucket,                     \* 32 and 32768
  MaxOperations, MaxCharged, MaxDuration,   \* Limits, per kind of operation
  MinCooldown, Numerator, Denominator,
  LockWait,       \* lock_wait_ns
  MaxTime,        \* bound: the clock stops here
  MaxBoots        \* bound: reboots

Kinds == {"compile", "inference"}
NoAdapter == "nobody"
NoOperation == [kind |-> "none"]

\* Limits.cooldown: minimum plus elapsed * numerator / denominator, rounded up.
CeilDiv(x, d) == (x + d - 1) \div d
Cooldown(k, elapsed) ==
  MinCooldown[k] + CeilDiv(elapsed * Numerator[k], Denominator[k])

\* Policy.validate: without it no operation is admitted at all.
ASSUME GovernorAssumption ==
  /\ NoAdapter \notin Adapters
  /\ MinBucket \in Nat /\ MaxBucket \in Nat
  /\ Bucket \in [Adapters -> MinBucket..MaxBucket]
  /\ LockWait \in Nat \ {0} /\ MaxTime \in Nat /\ MaxBoots \in Nat
  /\ MaxOperations \in [Kinds -> Nat \ {0}] /\ MaxCharged \in [Kinds -> Nat \ {0}]
  /\ MaxDuration \in [Kinds -> Nat \ {0}] /\ MinCooldown \in [Kinds -> Nat \ {0}]
  /\ Numerator \in [Kinds -> Nat] /\ Denominator \in [Kinds -> Nat \ {0}]

ASSUME PolicyValidated ==
  \A k \in Kinds : Cooldown(k, MaxDuration[k]) >= MaxDuration[k]

VARIABLES
  now, boot,   \* CLOCK_MONOTONIC and the boot identity
  \* ---- the governor directory
  lock,        \* who holds the flock on operation.lock
  intent,      \* intent.json is not empty
  intact,      \* state.json parses: no write of it was torn
  operations, charged,   \* state.usage, per kind
  observed, notBefore,   \* last_observed_ns, not_before_ns
  last,        \* last_completed
  stateBoot,   \* state.boot_id
  \* ---- each adapter, and the lease it may hold
  pc, compiled,
  waitUntil, started,   \* begin's wait_deadline, and started_ns of the lease
  \* ---- its child process
  child,       \* "idle", "running" (a native call) or "gone"
  reply,       \* the frame it has sent for the current command
  \* ---- history
  entered,     \* native calls begun, per kind
  settled,     \* leases completed to the end
  busy         \* ticks of the clock during which a native call ran

clockVars == <<now, boot>>
stateVars == <<intact, operations, charged, observed, notBefore, last, stateBoot>>
leaseVars == <<compiled, waitUntil, started>>
childVars == <<child, reply>>
history   == <<entered, settled, busy>>
vars == <<clockVars, lock, intent, stateVars, pc, leaseVars, childVars, history>>

\* Before the intent is written, and from then until it is cleared.
Waiting == {"locking", "admit", "cool", "intend"}
Leased  == {"charge", "enter", "supervise", "terminating", "settle", "complete", "clear"}
Ended   == {"failed", "controlled", "crashed"}
Replies == {"none", "ok", "scope", "hard"}

Operation ==
  {NoOperation} \cup
  [kind : Kinds, total : Nat, begun : Nat, finished : Nat, until : Nat]

\* Every variable ranges over the values the code can store in it.
TypeOK ==
  /\ now \in Nat /\ boot \in Nat
  /\ lock \in Adapters \cup {NoAdapter}
  /\ intent \in BOOLEAN /\ intact \in BOOLEAN
  /\ operations \in [Kinds -> Nat] /\ charged \in [Kinds -> Nat]
  /\ observed \in Nat /\ notBefore \in Nat
  /\ last \in Operation /\ stateBoot \in Nat
  /\ pc \in [Adapters -> {"unborn", "idle"} \cup Waiting \cup Leased \cup Ended]
  /\ waitUntil \in [Adapters -> Nat] /\ started \in [Adapters -> Nat]
  /\ compiled \in [Adapters -> BOOLEAN]
  /\ child \in [Adapters -> {"idle", "running", "gone"}]
  /\ reply \in [Adapters -> Replies]
  /\ entered \in [Kinds -> Nat] /\ settled \in Nat /\ busy \in Nat

\* A provisioned directory (State::initial) at the start of the first boot.
Init ==
  /\ now = 0 /\ boot = 0
  /\ lock = NoAdapter /\ intent = FALSE /\ intact = TRUE
  /\ operations = [k \in Kinds |-> 0] /\ charged = [k \in Kinds |-> 0]
  /\ observed = 0 /\ notBefore = 0 /\ last = NoOperation /\ stateBoot = 0
  /\ pc = [a \in Adapters |-> "unborn"]
  /\ waitUntil = [a \in Adapters |-> 0] /\ started = [a \in Adapters |-> 0]
  /\ compiled = [a \in Adapters |-> FALSE]
  /\ child = [a \in Adapters |-> "gone"] /\ reply = [a \in Adapters |-> "none"]
  /\ entered = [k \in Kinds |-> 0] /\ settled = 0 /\ busy = 0

\* A worker compiles once, then infers (Adapter::execute).
KindOf(a) == IF compiled[a] THEN "inference" ELSE "compile"
Deadline(a) == started[a] + MaxDuration[KindOf(a)]
Total(usage) == usage["compile"] + usage["inference"]

\* State::validate, at a given time, apart from the identities it compares.
Valid(t) ==
  /\ stateBoot = boot
  /\ observed <= t /\ observed <= notBefore
  /\ \A k \in Kinds :
       /\ operations[k] * MinBucket <= charged[k] /\ charged[k] <= operations[k] * MaxBucket
       /\ operations[k] <= MaxOperations[k] /\ charged[k] <= MaxCharged[k]
  /\ IF last = NoOperation
       THEN Total(operations) = 0
       ELSE /\ last.total = Total(operations) /\ operations[last.kind] > 0
            /\ last.begun <= last.finished
            /\ last.finished = observed /\ last.until = notBefore
            /\ last.finished - last.begun <= MaxDuration[last.kind]
            /\ last.until = last.finished + Cooldown(last.kind, last.finished - last.begun)

-----------------------------------------------------------------------------
(* The host.                                                               *)

\* Time passes, and a running native call keeps the device busy.
Tick ==
  /\ now < MaxTime
  /\ now' = now + 1
  /\ busy' = busy + (IF \E a \in Adapters : child[a] = "running" THEN 1 ELSE 0)
  /\ UNCHANGED <<boot, lock, intent, stateVars, pc, leaseVars, childVars, entered, settled>>

\* A write of state.json that is cut short leaves a record nobody can parse.
MayTear(a) ==
  intact' \in IF pc[a] \in {"charge", "complete"} THEN {intact, FALSE} ELSE {intact}

\* The kernel ends every process and drops every lock; the clock starts over.
Reboot ==
  /\ boot < MaxBoots
  /\ boot' = boot + 1
  /\ now' = 0
  /\ lock' = NoAdapter
  /\ IF lock = NoAdapter THEN UNCHANGED intact ELSE MayTear(lock)
  /\ pc' = [a \in Adapters |-> IF pc[a] = "unborn" THEN "unborn" ELSE "crashed"]
  /\ child' = [a \in Adapters |-> "gone"] /\ reply' = [a \in Adapters |-> "none"]
  /\ waitUntil' = [a \in Adapters |-> 0] /\ started' = [a \in Adapters |-> 0]
  /\ UNCHANGED <<intent, operations, charged, observed, notBefore, last, stateBoot,
                 compiled, history>>

Goto(a, label) == pc' = [pc EXCEPT ![a] = label]
Forget(a) ==
  /\ waitUntil' = [waitUntil EXCEPT ![a] = 0]
  /\ started' = [started EXCEPT ![a] = 0]
  /\ reply' = [reply EXCEPT ![a] = "none"]
Released(a) == IF lock = a THEN NoAdapter ELSE lock

\* The process dies at any moment; its lock is dropped, and its child is sent
\* SIGKILL (PR_SET_PDEATHSIG), which it may yet outlive for a while.
Crash(a) ==
  /\ pc[a] \notin {"unborn"} \cup Ended
  /\ Goto(a, "crashed")
  /\ lock' = Released(a)
  /\ MayTear(a)
  /\ Forget(a)
  /\ UNCHANGED <<clockVars, intent, operations, charged, observed, notBefore, last,
                 stateBoot, compiled, child, history>>

-----------------------------------------------------------------------------
(* The native worker child (run_stdio).                                    *)

\* Adapter::spawn.
Spawn(a) ==
  /\ pc[a] = "unborn"
  /\ Goto(a, "idle")
  /\ child' = [child EXCEPT ![a] = "idle"]
  /\ UNCHANGED <<clockVars, lock, intent, stateVars, leaseVars, reply, history>>

\* The child has read the command, checked its parent and enters the runtime.
ChildStarts(a) ==
  /\ pc[a] \in {"supervise", "terminating"}
  /\ child[a] = "idle" /\ reply[a] = "none"
  /\ child' = [child EXCEPT ![a] = "running"]
  /\ entered' = [entered EXCEPT ![KindOf(a)] = @ + 1]
  /\ UNCHANGED <<clockVars, lock, intent, stateVars, pc, leaseVars, reply, settled, busy>>

\* Its parent is there to read the frame.
ChildReplies(a) ==
  /\ child[a] = "running" /\ pc[a] \in {"supervise", "terminating"}
  /\ child' = [child EXCEPT ![a] = "idle"]
  /\ \E r \in Replies \ {"none"} : reply' = [reply EXCEPT ![a] = r]
  /\ UNCHANGED <<clockVars, lock, intent, stateVars, pc, leaseVars, history>>

\* It exits by itself, or a kill reaches it.
ChildDies(a) ==
  /\ child[a] # "gone"
  /\ child' = [child EXCEPT ![a] = "gone"]
  /\ UNCHANGED <<clockVars, lock, intent, stateVars, pc, leaseVars, reply, history>>

-----------------------------------------------------------------------------
(* Governor::begin.                                                        *)

adapterOnly == <<clockVars, intent, stateVars, compiled, history>>
leaseOnly == <<lock, waitUntil, started, childVars>>

\* Any error of execute: the lock file is closed, the adapter latches itself
\* unavailable, and stop() kills the child - or fails to confirm that it died.
Fail(a) ==
  /\ Goto(a, "failed")
  /\ lock' = Released(a)
  /\ Forget(a)
  /\ child' \in {child, [child EXCEPT ![a] = "gone"]}

Begin(a) ==
  /\ pc[a] = "idle"
  /\ Goto(a, "locking")
  /\ waitUntil' = [waitUntil EXCEPT ![a] = now + LockWait]
  /\ UNCHANGED <<adapterOnly, lock, started, childVars>>

LockBlindly(a) ==
  /\ pc[a] = "locking"
  /\ lock' = a /\ Goto(a, "admit")
  /\ UNCHANGED <<adapterOnly, waitUntil, started, childVars>>

\* flock, polled without blocking.
Lock(a) ==
  /\ pc[a] = "locking"
  /\ \/ /\ lock = NoAdapter
        /\ lock' = a /\ Goto(a, "admit")
        /\ UNCHANGED <<waitUntil, started, childVars>>
     \/ /\ lock # NoAdapter /\ now >= waitUntil[a]
        /\ Fail(a)
  /\ UNCHANGED adapterOnly

\* An intent somebody has left behind, a torn or inconsistent state, another
\* boot or too long a cooldown refuses the operation.
Admissible(a) == ~intent /\ intact /\ Valid(now) /\ notBefore <= waitUntil[a]

Admit(a) ==
  /\ pc[a] = "admit"
  /\ \/ Admissible(a) /\ Goto(a, "cool") /\ UNCHANGED leaseOnly
     \/ ~Admissible(a) /\ Fail(a)
  /\ UNCHANGED adapterOnly

AffordableOnceMore(a) ==
  /\ operations[KindOf(a)] <= MaxOperations[KindOf(a)]
  /\ charged[KindOf(a)] <= MaxCharged[KindOf(a)]

Affordable(a) ==
  /\ operations[KindOf(a)] < MaxOperations[KindOf(a)]
  /\ charged[KindOf(a)] + Bucket[a] <= MaxCharged[KindOf(a)]

NotCooled(a) == pc[a] = "cool"
Cooled(a) == pc[a] = "cool" /\ now >= notBefore

\* The cooldown of the operation before is over.
Cool(a) ==
  /\ Cooled(a)
  /\ \/ /\ Affordable(a) /\ now <= waitUntil[a]
        /\ started' = [started EXCEPT ![a] = now]
        /\ Goto(a, "intend") /\ UNCHANGED <<lock, waitUntil, childVars>>
     \/ /\ ~Affordable(a) \/ now > waitUntil[a]
        /\ Fail(a)
  /\ UNCHANGED adapterOnly

WriteNoIntent(a) ==
  /\ pc[a] = "intend"
  /\ Goto(a, "charge")
  /\ UNCHANGED <<clockVars, lock, intent, stateVars, leaseVars, childVars, history>>

\* write_json(intent): from here on nobody else is admitted.
WriteIntent(a) ==
  /\ pc[a] = "intend"
  /\ intent' = TRUE
  /\ Goto(a, "charge")
  /\ UNCHANGED <<clockVars, lock, stateVars, leaseVars, childVars, history>>

\* write_json(state): the operation is paid for before it runs.
WriteCharge(a) ==
  /\ pc[a] = "charge"
  /\ operations' = [operations EXCEPT ![KindOf(a)] = @ + 1]
  /\ charged' = [charged EXCEPT ![KindOf(a)] = @ + Bucket[a]]
  /\ observed' = started[a]
  /\ Goto(a, "enter")
  /\ UNCHANGED <<clockVars, lock, intent, intact, notBefore, last, stateBoot, leaseVars,
                 childVars, history>>

\* The lease, and the command that goes to the child.
Enter(a) ==
  /\ pc[a] = "enter"
  /\ \/ now < Deadline(a) /\ Goto(a, "supervise") /\ UNCHANGED leaseOnly
     \/ now >= Deadline(a) /\ Fail(a)
  /\ UNCHANGED adapterOnly

-----------------------------------------------------------------------------
(* Lease::supervise, settle_response and Lease::complete.                  *)

\* A reply within the deadline, or else the child has to go.
Supervise(a) ==
  /\ pc[a] = "supervise"
  /\ \/ now < Deadline(a) /\ reply[a] # "none" /\ Goto(a, "settle")
     \/ /\ now >= Deadline(a) \/ (child[a] = "gone" /\ reply[a] = "none")
        /\ Goto(a, "terminating")
  /\ UNCHANGED <<adapterOnly, leaseOnly>>

TerminateAndClear(a) ==
  /\ pc[a] = "terminating"
  /\ Fail(a)
  /\ intent' = FALSE
  /\ UNCHANGED <<clockVars, stateVars, compiled, history>>

\* terminate: reaped, or given up on after two seconds.
Terminate(a) == pc[a] = "terminating" /\ Fail(a) /\ UNCHANGED adapterOnly

\* settle_response: the reply is validated and made durable; the child of an
\* unavailable scope must still be there and be reaped before the lease ends.
Settle(a) ==
  /\ pc[a] = "settle"
  /\ \/ reply[a] = "ok" /\ Goto(a, "complete") /\ UNCHANGED leaseOnly
     \/ /\ reply[a] = "scope" /\ child[a] # "gone"
        /\ child' = [child EXCEPT ![a] = "gone"]
        /\ Goto(a, "complete") /\ UNCHANGED <<lock, waitUntil, started, reply>>
     \/ Fail(a)
  /\ UNCHANGED adapterOnly

\* complete, up to the write of the state.
Complete(a) ==
  /\ pc[a] = "complete"
  /\ now <= Deadline(a) /\ boot = stateBoot
  /\ observed' = now
  /\ notBefore' = now + Cooldown(KindOf(a), now - started[a])
  /\ last' = [kind |-> KindOf(a), total |-> Total(operations), begun |-> started[a],
              finished |-> now, until |-> notBefore']
  /\ Goto(a, "clear")
  /\ UNCHANGED <<clockVars, lock, intent, intact, operations, charged, stateBoot,
                 leaseVars, childVars, history>>

\* write(intent, ""): the lease is over, and the lock is dropped with it.
Clear(a) ==
  /\ pc[a] = "clear"
  /\ intent' = FALSE
  /\ lock' = NoAdapter
  /\ Goto(a, IF reply[a] = "scope" THEN "controlled" ELSE "idle")
  /\ compiled' = [compiled EXCEPT ![a] = TRUE]
  /\ Forget(a)
  /\ settled' = settled + 1
  /\ UNCHANGED <<clockVars, stateVars, child, entered, busy>>

\* A write fails, or complete refuses: the intent stays as it is.
LeaseFails(a) ==
  /\ pc[a] \in {"intend", "charge", "complete", "clear"}
  /\ Fail(a)
  /\ MayTear(a)
  /\ UNCHANGED <<clockVars, intent, operations, charged, observed, notBefore, last,
                 stateBoot, compiled, history>>

-----------------------------------------------------------------------------
Adapter(a) ==
  \/ Spawn(a) \/ ChildStarts(a) \/ ChildReplies(a) \/ ChildDies(a) \/ Crash(a)
  \/ Begin(a) \/ Lock(a) \/ Admit(a) \/ Cool(a) \/ WriteIntent(a) \/ WriteCharge(a)
  \/ Enter(a) \/ Supervise(a) \/ Terminate(a) \/ Settle(a) \/ Complete(a) \/ Clear(a)
  \/ LeaseFails(a)

Next == Tick \/ Reboot \/ \E a \in Adapters : Adapter(a)

Spec == Init /\ [][Next]_vars

-----------------------------------------------------------------------------
(* Properties.  LockBlindly, TerminateAndClear, AffordableOnceMore,        *)
(* NotCooled and WriteNoIntent above are not part of the system: each is a *)
(* bug one of them would expose.                                           *)

\* No two native calls ever run at once on the host, whatever processes crash,
\* time out or lose track of a child that outlives its lease.
OneNative ==
  \A a, b \in Adapters : child[a] = "running" /\ child[b] = "running" => a = b

\* A native call that was begun and never settled keeps the governor shut.
UnsettledBlocks == Total(entered) > settled => intent

\* The native calls ever begun stay within the provisioned epoch budget, those
\* that crashed or timed out included.
Budget == \A k \in Kinds : entered[k] <= MaxOperations[k]

\* Whenever the next operation may start, native calls have kept the device
\* busy at most half of the time since the epoch began.
HalfDuty == ~intent => 2 * busy <= notBefore

\* With no intent pending, the record is one the governor accepts on this boot:
\* it never locks itself out.
SelfConsistent == ~intent => intact /\ (stateBoot = boot => Valid(now))

\* A caller is told to fall back to another scope only once its worker is dead.
FallbackAfterDeath == \A a \in Adapters : pc[a] = "controlled" => child[a] = "gone"
=============================================================================
