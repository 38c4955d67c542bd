----------------------- MODULE InferenceGovernorProofs -----------------------
(* What holds of InferenceGovernor for every number of processes, every     *)
(* validated policy and every clock: one native call at a time, the epoch   *)
(* budget, the half duty cycle, and a record that never locks itself out.   *)
EXTENDS InferenceGovernor, TLAPS

USE GovernorAssumption
USE DEF Kinds, clockVars, stateVars, leaseVars, childVars, history, adapterOnly, leaseOnly,
        Waiting, Leased, Ended, Replies

-----------------------------------------------------------------------------
(* The arithmetic of cooldowns.                                            *)

\* CeilDiv rounds up: it is the least q with d * q >= x.
LEMMA CeilBounds ==
  ASSUME NEW x \in Nat, NEW d \in Nat \ {0}
  PROVE  /\ CeilDiv(x, d) \in Nat
         /\ d * CeilDiv(x, d) >= x
         /\ d * CeilDiv(x, d) <= x + d - 1
  BY DEF CeilDiv

\* Limits.validate looks at the longest operation only, and that is enough: if
\* its cooldown is no shorter than it is, that is so of every shorter one.
LEMMA HalfDutyOfLongest ==
  ASSUME NEW n \in Nat, NEW d \in Nat \ {0}, NEW m \in Nat, NEW longest \in Nat,
         NEW e \in 0..longest, m + CeilDiv(longest * n, d) >= longest
  PROVE  m + CeilDiv(e * n, d) >= e
<1> DEFINE p == CeilDiv(longest * n, d)
           q == CeilDiv(e * n, d)
<1>1. longest * n \in Nat /\ e * n \in Nat /\ e \in Nat
  OBVIOUS
<1>2. p \in Nat /\ d * p <= longest * n + d - 1
  BY <1>1, CeilBounds
<1>3. q \in Nat /\ d * q >= e * n
  BY <1>1, CeilBounds
<1> HIDE DEF p, q
<1>4. CASE n >= d
  <2>1. e * n >= e * d
    BY <1>4, <1>1
  <2>2. d * q >= d * e
    BY <2>1, <1>3, <1>1
  <2>3. q >= e
    BY <2>2, <1>3, <1>1
  <2>4. QED
    BY <2>3, <1>3, <1>1 DEF q
\* Otherwise the cooldown grows slower than the operation: were the shorter one
\* too short for its own, the longest would be, too.
<1>5. CASE n < d
  <2>1. SUFFICES ASSUME m + q <= e - 1 PROVE FALSE
    BY <1>3, <1>1 DEF q
  <2>2. m + p >= longest
    BY DEF p
  <2>3. p - q >= longest - e + 1
    BY <2>1, <2>2, <1>1, <1>2, <1>3
  <2>4. d * (p - q) >= d * (longest - e + 1)
    BY <2>3, <1>1, <1>2, <1>3
  <2>5. (longest - e) * n <= (longest - e) * d
    BY <1>5, <1>1
  <2>6. d * p - d * q <= longest * n + d - 1 - e * n
    BY <1>1, <1>2, <1>3
  <2>7. longest * n - e * n = (longest - e) * n
    BY <1>1
  <2>8. d * (p - q) = d * p - d * q
    BY <1>2, <1>3
  <2>9. d * (longest - e + 1) = (longest - e) * d + d
    BY <1>1
  <2>10. QED
    BY <2>4, <2>5, <2>6, <2>7, <2>8, <2>9, <1>1, <1>2, <1>3
<1>6. QED
  BY <1>4, <1>5, <1>1

\* A validated policy lets the device rest at least as long as it has worked.
LEMMA CooldownCovers ==
  ASSUME NEW k \in Kinds, NEW e \in 0..MaxDuration[k]
  PROVE  Cooldown(k, e) \in Nat /\ Cooldown(k, e) >= e
<1>1. /\ Numerator[k] \in Nat /\ Denominator[k] \in Nat \ {0}
      /\ MinCooldown[k] \in Nat /\ MaxDuration[k] \in Nat
  OBVIOUS
<1>2. MinCooldown[k] + CeilDiv(MaxDuration[k] * Numerator[k], Denominator[k]) >= MaxDuration[k]
  BY PolicyValidated DEF Cooldown
<1>3. MinCooldown[k] + CeilDiv(e * Numerator[k], Denominator[k]) >= e
  BY <1>1, <1>2, HalfDutyOfLongest
<1>4. CeilDiv(e * Numerator[k], Denominator[k]) \in Nat
  <2>1. e * Numerator[k] \in Nat
    BY <1>1
  <2>2. QED
    BY <1>1, <2>1, CeilBounds
<1>5. QED
  BY <1>1, <1>3, <1>4 DEF Cooldown

-----------------------------------------------------------------------------
(* The inductive invariant.  What protects a running native call is not the *)
(* lock, which a dead process drops, but the intent, which nobody clears    *)
(* except the process that has settled its own operation.                  *)

Holding == {"admit", "cool", "intend"} \cup Leased

\* The flock is held exactly from Lock to the end of the operation.
LockInv == \A a \in Adapters : pc[a] \in Holding <=> lock = a

\* The intent stands for the whole lease, and only a pending intent can have
\* left a torn state behind.
IntentInv ==
  /\ ~intent => intact
  /\ \A a \in Adapters : /\ pc[a] \in {"cool", "intend"} => ~intent
                         /\ pc[a] \in Leased => intent /\ intact

\* A native call runs under its own lease or under the intent of a lease lost.
ChildInv ==
  \A a \in Adapters : child[a] = "running" =>
     /\ intent
     /\ pc[a] \in {"supervise", "terminating", "failed", "crashed"}
     /\ pc[a] \in {"supervise", "terminating"} => reply[a] = "none"
     /\ \A b \in Adapters : pc[b] \in Leased \/ child[b] = "running" => b = a

\* The worker of an unavailable scope is reaped before its lease is settled.
ReapInv ==
  \A a \in Adapters :
     \/ pc[a] = "controlled"
     \/ pc[a] \in {"complete", "clear"} /\ reply[a] = "scope"
     => child[a] = "gone"

\* The command of a lease has not reached the native runtime yet.
Unstarted(a) ==
  /\ pc[a] \in {"charge", "enter", "supervise", "terminating"}
  /\ child[a] = "idle" /\ reply[a] = "none"

\* Entries are charged before they happen, and all but a pending one settled.
EntryInv ==
  /\ \A k \in Kinds : entered[k] <= operations[k]
  /\ Total(entered) <= settled + 1
  /\ ~intent => Total(entered) <= settled
  /\ \A a \in Adapters : Unstarted(a) =>
       /\ Total(entered) <= settled
       /\ pc[a] # "charge" => entered[KindOf(a)] < operations[KindOf(a)]

\* The usage on record is consistent and within the budget.
UsageInv ==
  /\ \A k \in Kinds :
       /\ operations[k] * MinBucket <= charged[k] /\ charged[k] <= operations[k] * MaxBucket
       /\ operations[k] <= MaxOperations[k] /\ charged[k] <= MaxCharged[k]
  /\ \A a \in Adapters :
       /\ pc[a] \in {"intend", "charge"} => Affordable(a)
       /\ pc[a] \in Leased \ {"charge"} => operations[KindOf(a)] > 0

\* How long the device can have been busy, by the clock of the lease.
ClockInv ==
  /\ ~intent => 2 * busy <= notBefore
  /\ \A a \in Adapters :
       /\ pc[a] \in {"intend"} \cup Leased =>
            started[a] <= now /\ 2 * busy <= 2 * now - started[a]
       /\ pc[a] \in {"intend", "charge"} => notBefore <= started[a]
       /\ pc[a] = "clear" => 2 * busy <= notBefore

\* The record is one the governor accepts whenever nothing is pending.
RecordInv ==
  /\ stateBoot <= boot
  /\ ~intent /\ stateBoot = boot => Valid(now)
  /\ \A a \in Adapters : pc[a] = "clear" => Valid(now)

IInv == /\ TypeOK /\ LockInv /\ IntentInv /\ ChildInv /\ ReapInv
        /\ EntryInv /\ UsageInv /\ ClockInv /\ RecordInv

-----------------------------------------------------------------------------
(* Every step keeps each part of the invariant.                            *)

\* Only the adapter that acts moves, whatever it does.
LEMMA Frame ==
  ASSUME TypeOK, NEW a \in Adapters, Adapter(a)
  PROVE  \A b \in Adapters \ {a} :
           pc'[b] = pc[b] /\ waitUntil'[b] = waitUntil[b] /\ started'[b] = started[b]
           /\ compiled'[b] = compiled[b] /\ child'[b] = child[b] /\ reply'[b] = reply[b]
  BY DEF TypeOK, Adapter, Spawn, ChildStarts, ChildReplies, ChildDies, Crash, Begin, Lock,
     Admit, Cool, WriteIntent, WriteCharge, Enter, Supervise, Terminate, Settle, Complete,
     Clear, LeaseFails, Goto, Forget, Fail

\* What any error leaves behind.
LEMMA FailEffect ==
  ASSUME TypeOK, NEW a \in Adapters, Fail(a)
  PROVE  /\ pc'[a] = "failed" /\ child'[a] \in {child[a], "gone"} /\ reply'[a] = "none"
         /\ lock' = (IF lock = a THEN NoAdapter ELSE lock)
  BY DEF TypeOK, Fail, Goto, Forget, Released

\* An error changes nothing of the record, except that it may tear it.
LEMMA FailKeeps ==
  ASSUME TypeOK, NEW a \in Adapters, Adapter(a), Fail(a)
  PROVE  /\ UNCHANGED <<now, boot, intent, operations, charged, observed, notBefore, last,
                        stateBoot, compiled, entered, settled, busy>>
         /\ MayTear(a)
<1>1. pc'[a] = "failed"
  BY FailEffect
<1>2. ~Spawn(a) /\ ~Crash(a) /\ ~Begin(a) /\ ~WriteIntent(a)
  BY <1>1 DEF TypeOK, Spawn, Crash, Begin, WriteIntent, Goto
<1>3. ~WriteCharge(a) /\ ~Supervise(a) /\ ~Complete(a) /\ ~Clear(a)
  BY <1>1 DEF TypeOK, WriteCharge, Supervise, Complete, Clear, Goto
<1>4. ~ChildStarts(a) /\ ~ChildReplies(a) /\ (ChildDies(a) => pc[a] = "failed")
  BY <1>1 DEF TypeOK, ChildStarts, ChildReplies, ChildDies
<1>5. CASE Lock(a) \/ Admit(a) \/ Cool(a) \/ Enter(a) \/ Terminate(a) \/ Settle(a)
  BY <1>5 DEF Lock, Admit, Cool, Cooled, Enter, Terminate, Settle, MayTear
<1>6. CASE LeaseFails(a)
  BY <1>6 DEF LeaseFails
<1>7. CASE ChildDies(a)
  BY <1>4, <1>7 DEF ChildDies, MayTear
<1>8. QED
  BY <1>2, <1>3, <1>4, <1>5, <1>6, <1>7 DEF Adapter

\* The lock is held from admission to the end, and by nobody else.
LEMMA LockStep ==
  ASSUME TypeOK, LockInv, NEW a \in Adapters, Adapter(a)
  PROVE  LockInv'
<1>1. \A b \in Adapters \ {a} : pc'[b] = pc[b]
  BY Frame
<1>2. pc'[a] \in Holding <=> lock' = a
  <2> USE DEF Holding, Goto
  <2>1. CASE \/ Spawn(a) \/ ChildStarts(a) \/ ChildReplies(a) \/ ChildDies(a) \/ Begin(a)
             \/ WriteIntent(a) \/ WriteCharge(a) \/ Supervise(a) \/ Complete(a)
    BY <2>1 DEF TypeOK, LockInv, Spawn, ChildStarts, ChildReplies, ChildDies, Begin,
       WriteIntent, WriteCharge, Supervise, Complete
  <2>2. CASE Crash(a) \/ Clear(a)
    <3>1. pc'[a] \in {"crashed", "idle", "controlled"}
      BY <2>2 DEF TypeOK, Crash, Clear
    <3>2. lock' # a
      BY <2>2 DEF Crash, Clear, Released
    <3>3. QED
      BY <3>1, <3>2
  <2>3. CASE Fail(a)
    BY <2>3, FailEffect
  <2>4. CASE ~Fail(a) /\ Lock(a)
    BY <2>4 DEF TypeOK, Lock
  <2>5. CASE ~Fail(a) /\ (Admit(a) \/ Cool(a) \/ Enter(a) \/ Settle(a))
    <3>1. lock' = lock /\ pc[a] \in Holding /\ pc'[a] \in Holding
      BY <2>5 DEF TypeOK, Admit, Cool, Cooled, Enter, Settle
    <3>2. QED
      BY <3>1 DEF LockInv
  <2>6. QED
    BY <2>1, <2>2, <2>3, <2>4, <2>5 DEF Adapter, Terminate, LeaseFails
<1>3. lock' # lock => (lock = NoAdapter \/ lock = a) /\ (lock' = NoAdapter \/ lock' = a)
  BY FailEffect DEF TypeOK, LockInv, Holding, Adapter, Spawn, ChildStarts, ChildReplies, ChildDies,
     Crash, Begin, Lock, Admit, Cool, WriteIntent, WriteCharge, Enter, Supervise, Terminate,
     Settle, Complete, Clear, LeaseFails, Goto, Released
<1>4. QED
  BY <1>1, <1>2, <1>3 DEF LockInv

\* Two adapters never hold the lock together.
LEMMA OneHolder ==
  ASSUME LockInv, NEW a \in Adapters, NEW b \in Adapters, pc[a] \in Holding, pc[b] \in Holding
  PROVE  a = b
  BY DEF LockInv

\* The intent and the state record change only under the lock.
LEMMA UnderLock ==
  ASSUME NEW a \in Adapters, Adapter(a), pc[a] \notin Holding
  PROVE  UNCHANGED <<intent, intact, operations, charged, observed, notBefore, last, stateBoot>>
<1> USE DEF Holding
<1>1. CASE \/ Spawn(a) \/ ChildStarts(a) \/ ChildReplies(a) \/ ChildDies(a) \/ Begin(a) \/ Lock(a)
  BY <1>1 DEF Spawn, ChildStarts, ChildReplies, ChildDies, Begin, Lock
<1>2. CASE Crash(a)
  BY <1>2 DEF Crash, MayTear
<1>3. CASE \/ Admit(a) \/ Cool(a) \/ WriteIntent(a) \/ WriteCharge(a) \/ Enter(a) \/ Supervise(a)
           \/ Terminate(a) \/ Settle(a) \/ Complete(a) \/ Clear(a) \/ LeaseFails(a)
  BY <1>3 DEF Admit, Cool, Cooled, WriteIntent, WriteCharge, Enter, Supervise, Terminate,
     Settle, Complete, Clear, LeaseFails
<1>4. QED
  BY <1>1, <1>2, <1>3 DEF Adapter

\* The intent is set before anything is charged and cleared by its owner only.
LEMMA IntentStep ==
  ASSUME TypeOK, LockInv, IntentInv, NEW a \in Adapters, Adapter(a)
  PROVE  IntentInv'
<1>1. \A b \in Adapters \ {a} : pc'[b] = pc[b]
  BY Frame
<1>2. pc[a] \in Holding => \A b \in Adapters \ {a} : pc'[b] \notin Holding
  BY <1>1, OneHolder
<1>3. ASSUME UNCHANGED <<intent, intact>>, pc'[a] \in {"cool", "intend"} => ~intent,
             pc'[a] \in Leased => intent /\ intact
      PROVE  IntentInv'
  BY <1>1, <1>3 DEF IntentInv
<1>4. CASE pc[a] \notin Holding
  <2>1. UNCHANGED <<intent, intact>>
    BY <1>4, UnderLock
  <2>2. pc'[a] \notin Leased \cup {"cool", "intend"}
    <3>1. CASE Fail(a)
      BY <3>1, FailEffect
    <3>2. CASE \/ Spawn(a) \/ ChildStarts(a) \/ ChildReplies(a) \/ ChildDies(a) \/ Begin(a)
               \/ Crash(a) \/ (Lock(a) /\ ~Fail(a))
      BY <1>4, <3>2 DEF TypeOK, Holding, Spawn, ChildStarts, ChildReplies, ChildDies, Begin,
         Lock, Crash, Goto
    <3>3. QED
      BY <1>4, <3>1, <3>2
      DEF Adapter, Holding, Admit, Cool, Cooled, WriteIntent, WriteCharge, Enter, Supervise,
          Terminate, Settle, Complete, Clear, LeaseFails
  <2>3. QED
    BY <1>3, <2>1, <2>2
<1>5. CASE pc[a] \in Holding /\ Fail(a)
  <2>1. pc'[a] = "failed" /\ intent' = intent
    BY <1>5, FailEffect, FailKeeps
  <2>2. ~intent' => intact'
    BY <1>5, <2>1, FailKeeps DEF MayTear, IntentInv
  <2>3. QED
    BY <1>1, <1>2, <1>5, <2>1, <2>2 DEF IntentInv, Holding
<1>6. CASE pc[a] \in Holding /\ Crash(a)
  <2>1. pc'[a] = "crashed" /\ intent' = intent
    BY <1>6 DEF Crash, Goto, TypeOK
  <2>2. MayTear(a)
    BY <1>6 DEF Crash
  <2>3. ~intent' => intact'
    BY <2>1, <2>2 DEF MayTear, IntentInv
  <2>4. QED
    BY <1>1, <1>2, <1>6, <2>1, <2>3 DEF IntentInv, Holding
<1>7. CASE pc[a] \in Holding /\ WriteIntent(a)
  <2>1. intent' /\ intact' /\ pc'[a] = "charge"
    BY <1>7 DEF WriteIntent, IntentInv, Goto, TypeOK
  <2>2. QED
    BY <1>2, <1>7, <2>1 DEF IntentInv, Holding
<1>8. CASE pc[a] \in Holding /\ Clear(a)
  <2>1. intact' /\ pc'[a] \in {"idle", "controlled"}
    BY <1>8 DEF Clear, IntentInv, Goto, TypeOK
  <2>2. QED
    BY <1>2, <1>8, <2>1 DEF IntentInv, Holding
<1>9. CASE pc[a] \in Holding /\ ~Fail(a) /\ (Admit(a) \/ Cool(a) \/ Enter(a) \/ Settle(a))
  BY <1>3, <1>9 DEF Admit, Admissible, Cool, Cooled, Enter, Settle, IntentInv, Goto, TypeOK
<1>10. CASE \/ WriteCharge(a) \/ Supervise(a) \/ Complete(a)
            \/ (pc[a] \in Holding /\ (ChildStarts(a) \/ ChildReplies(a) \/ ChildDies(a)))
  BY <1>3, <1>10 DEF WriteCharge, Supervise, Complete, ChildStarts, ChildReplies, ChildDies,
     IntentInv, Goto, TypeOK
<1>11. QED
  BY <1>4, <1>5, <1>6, <1>7, <1>8, <1>9, <1>10
  DEF Adapter, Holding, Spawn, Begin, Lock, Terminate, LeaseFails

\* Unless it writes the intent or the record, an adapter leaves both alone, and
\* it does not get any further in its lease either.
LEMMA Quiet ==
  ASSUME TypeOK, NEW a \in Adapters, Adapter(a),
         ~WriteIntent(a), ~WriteCharge(a), ~Complete(a), ~Clear(a)
  PROVE  /\ UNCHANGED <<now, boot, intent, operations, charged, observed, notBefore, last,
                        stateBoot, compiled, settled, busy>>
         /\ ~ChildStarts(a) => entered' = entered
         /\ pc'[a] \in Leased => pc[a] \in Leased
         /\ pc'[a] = "charge" => pc[a] = "charge"
         /\ pc'[a] = "clear" => pc[a] = "clear"
         /\ pc[a] = "charge" => pc'[a] \in {"charge", "failed", "crashed"}
         /\ \/ pc'[a] \in Leased \cup {"intend"} =>
                 started'[a] = started[a] /\ (pc'[a] = "intend" => pc[a] = "intend")
            \/ /\ Cooled(a) /\ Affordable(a) /\ pc'[a] = "intend"
               /\ started'[a] = now
<1>1. CASE Fail(a)
  BY <1>1, FailEffect, FailKeeps
<1>2. CASE \/ Spawn(a) \/ ChildStarts(a) \/ ChildReplies(a) \/ ChildDies(a) \/ Begin(a)
           \/ Supervise(a)
  BY <1>2 DEF TypeOK, Spawn, ChildStarts, ChildReplies, ChildDies, Begin, Supervise, Goto
<1>3. CASE Crash(a)
  BY <1>3 DEF TypeOK, Crash, Goto
<1>4. CASE ~Fail(a) /\ (Lock(a) \/ Admit(a) \/ Enter(a) \/ Settle(a))
  BY <1>4 DEF TypeOK, Lock, Admit, Enter, Settle, Goto
<1>5. CASE ~Fail(a) /\ Cool(a)
  BY <1>5 DEF TypeOK, Cool, Cooled, Goto
<1>6. QED
  BY <1>1, <1>2, <1>3, <1>4, <1>5 DEF Adapter, Terminate, LeaseFails

\* A child runs under the lease of its own adapter, or nothing is left to lease.
LEMMA ChildStep ==
  ASSUME TypeOK, LockInv, IntentInv, ChildInv, NEW a \in Adapters, Adapter(a)
  PROVE  ChildInv'
<1>1. \A b \in Adapters \ {a} : pc'[b] = pc[b] /\ child'[b] = child[b] /\ reply'[b] = reply[b]
  BY Frame
<1>2. ASSUME \A b \in Adapters : child[b] # "running", child'[a] # "running"
      PROVE  ChildInv'
  BY <1>1, <1>2 DEF ChildInv
<1>3. ASSUME intent' = intent, pc'[a] \in Leased => pc[a] \in Leased,
             child'[a] = "running" =>
               /\ child[a] = "running"
               /\ pc'[a] \in {"supervise", "terminating", "failed", "crashed"}
               /\ pc'[a] \in {"supervise", "terminating"} => reply'[a] = "none"
      PROVE  ChildInv'
  BY <1>1, <1>3 DEF ChildInv
<1>4. CASE ChildStarts(a)
  <2>1. pc[a] \in Holding /\ intent
    BY <1>4 DEF ChildStarts, Holding, IntentInv
  <2>2. \A b \in Adapters : pc[b] \in Leased \/ child[b] = "running" => b = a
    BY <1>4, <2>1, OneHolder DEF ChildStarts, Holding, ChildInv
  <2>3. child'[a] = "running" /\ pc'[a] = pc[a] /\ reply'[a] = "none" /\ intent' = intent
    BY <1>4 DEF ChildStarts, TypeOK
  <2>4. pc[a] \in {"supervise", "terminating"}
    BY <1>4 DEF ChildStarts
  <2>5. QED
    BY <1>1, <2>1, <2>2, <2>3, <2>4 DEF ChildInv
<1>5. CASE WriteIntent(a)
  <2>1. ~intent /\ child' = child
    BY <1>5 DEF WriteIntent, IntentInv
  <2>2. QED
    BY <1>2, <2>1 DEF ChildInv
<1>6. CASE Clear(a)
  <2>1. pc[a] = "clear" /\ child' = child
    BY <1>6 DEF Clear
  <2>2. QED
    BY <1>2, <2>1 DEF ChildInv
<1>7. CASE WriteCharge(a) \/ Complete(a)
  BY <1>3, <1>7 DEF WriteCharge, Complete, ChildInv, Goto, TypeOK
<1>8. CASE ~(ChildStarts(a) \/ WriteIntent(a) \/ Clear(a) \/ WriteCharge(a) \/ Complete(a))
  <2>1. intent' = intent /\ (pc'[a] \in Leased => pc[a] \in Leased)
    BY <1>8, Quiet
  <2>2. child'[a] = "running" => child[a] = "running"
    BY <1>8, FailEffect DEF TypeOK, Adapter, Spawn, ChildReplies, ChildDies, Crash, Begin, Lock,
       Admit, Cool, Enter, Supervise, Terminate, Settle, LeaseFails
  <2>3. ASSUME child'[a] = "running"
        PROVE  /\ pc'[a] \in {"supervise", "terminating", "failed", "crashed"}
               /\ pc'[a] \in {"supervise", "terminating"} => reply'[a] = "none"
    <3>1. /\ pc[a] \in {"supervise", "terminating", "failed", "crashed"}
          /\ pc[a] \in {"supervise", "terminating"} => reply[a] = "none"
      BY <2>2, <2>3 DEF ChildInv
    <3>2. CASE Fail(a)
      BY <3>2, FailEffect
    <3>3. CASE ~Fail(a)
      BY <1>8, <2>3, <3>1, <3>3
      DEF TypeOK, Adapter, Spawn, ChildReplies, ChildDies, Crash, Begin, Lock, Admit, Cool, Cooled,
          Enter, Supervise, Terminate, Settle, LeaseFails, Goto
    <3>4. QED
      BY <3>2, <3>3
  <2>4. QED
    BY <1>3, <2>1, <2>2, <2>3
<1>9. QED
  BY <1>4, <1>5, <1>6, <1>7, <1>8

\* The dead stay dead, and only the dead are reported as an unavailable scope.
LEMMA ReapStep ==
  ASSUME TypeOK, ReapInv, NEW a \in Adapters, Adapter(a)
  PROVE  ReapInv'
<1>1. \A b \in Adapters \ {a} : pc'[b] = pc[b] /\ child'[b] = child[b] /\ reply'[b] = reply[b]
  BY Frame
<1>2. (pc'[a] = "controlled" \/ (pc'[a] \in {"complete", "clear"} /\ reply'[a] = "scope"))
      => child'[a] = "gone"
  <2>1. CASE Fail(a)
    BY <2>1, FailEffect
  <2>2. CASE \/ Spawn(a) \/ ChildStarts(a) \/ ChildReplies(a) \/ ChildDies(a) \/ Begin(a)
             \/ WriteIntent(a) \/ WriteCharge(a) \/ Supervise(a) \/ Complete(a) \/ Clear(a)
    BY <2>2 DEF TypeOK, ReapInv, Spawn, ChildStarts, ChildReplies, ChildDies, Begin,
       WriteIntent, WriteCharge, Supervise, Complete, Clear, Goto, Forget
  <2>3. CASE Crash(a)
    BY <2>3 DEF TypeOK, Crash, Goto
  <2>4. CASE ~Fail(a) /\ (Lock(a) \/ Admit(a) \/ Cool(a) \/ Enter(a) \/ Settle(a))
    BY <2>4 DEF TypeOK, Lock, Admit, Cool, Cooled, Enter, Settle, Goto
  <2>5. QED
    BY <2>1, <2>2, <2>3, <2>4 DEF Adapter, Terminate, LeaseFails
<1>3. QED
  BY <1>1, <1>2 DEF ReapInv

\* One more entry counts as one more of its kind.
LEMMA TotalStep ==
  ASSUME NEW f \in [Kinds -> Nat], NEW k \in Kinds
  PROVE  /\ [f EXCEPT ![k] = @ + 1] \in [Kinds -> Nat]
         /\ Total([f EXCEPT ![k] = @ + 1]) = Total(f) + 1
         /\ Total(f) \in Nat
  BY DEF Total

\* A worker is asked for one of the two kinds of operation.
LEMMA KindIsKind == ASSUME TypeOK, NEW a \in Adapters PROVE KindOf(a) \in Kinds
  BY DEF KindOf, TypeOK

\* A native call is entered once per charge, and only with everything settled.
LEMMA EntryStep ==
  ASSUME TypeOK, LockInv, IntentInv, EntryInv, NEW a \in Adapters, Adapter(a)
  PROVE  EntryInv'
<1>1. \A b \in Adapters \ {a} : /\ pc'[b] = pc[b] /\ child'[b] = child[b]
                                /\ reply'[b] = reply[b] /\ compiled'[b] = compiled[b]
  BY Frame
<1>2. pc[a] \in Holding => \A b \in Adapters \ {a} : ~Unstarted(b) /\ ~Unstarted(b)'
  BY <1>1, OneHolder DEF Unstarted, Holding
<1>3. \A b \in Adapters \ {a} : Unstarted(b)' => Unstarted(b) /\ KindOf(b)' = KindOf(b)
  BY <1>1 DEF Unstarted, KindOf
<1>4. /\ entered \in [Kinds -> Nat] /\ operations \in [Kinds -> Nat] /\ settled \in Nat
      /\ Total(entered) \in Nat /\ KindOf(a) \in Kinds
  BY KindIsKind DEF TypeOK, Total
<1>5. CASE ChildStarts(a)
  <2>1. Unstarted(a) /\ pc[a] # "charge" /\ pc[a] \in Holding /\ intent
    BY <1>5 DEF ChildStarts, Unstarted, Holding, IntentInv
  <2>2. /\ entered' = [entered EXCEPT ![KindOf(a)] = @ + 1]
        /\ UNCHANGED <<operations, settled, intent>>
    BY <1>5 DEF ChildStarts
  <2>3. Total(entered) <= settled /\ entered[KindOf(a)] < operations[KindOf(a)]
    BY <2>1 DEF EntryInv
  <2>4. Total(entered)' = Total(entered) + 1
    BY <1>4, <2>2, TotalStep DEF Total
  <2>5. \A k \in Kinds : entered'[k] <= operations'[k]
    BY <1>4, <2>2, <2>3 DEF EntryInv
  <2>6. ~Unstarted(a)'
    BY <1>5 DEF ChildStarts, Unstarted, TypeOK
  <2>7. QED
    BY <1>2, <1>4, <2>1, <2>2, <2>3, <2>4, <2>5, <2>6 DEF EntryInv
<1>6. CASE WriteCharge(a)
  <2>1. /\ operations' = [operations EXCEPT ![KindOf(a)] = @ + 1]
        /\ UNCHANGED <<entered, settled, intent, compiled, child, reply>> /\ pc[a] = "charge"
    BY <1>6 DEF WriteCharge
  <2>2. \A k \in Kinds : entered'[k] <= operations'[k]
    BY <1>4, <2>1 DEF EntryInv
  <2>3. entered'[KindOf(a)] < operations'[KindOf(a)]
    BY <1>4, <2>1 DEF EntryInv
  <2>4. Unstarted(a)' => Unstarted(a) /\ KindOf(a)' = KindOf(a)
    BY <2>1 DEF Unstarted, KindOf
  <2>5. Total(entered)' = Total(entered) /\ pc[a] \in Holding
    BY <2>1 DEF Total, Holding
  <2>6. QED
    BY <1>2, <2>1, <2>2, <2>3, <2>4, <2>5 DEF EntryInv
<1>7. CASE WriteIntent(a)
  <2>1. /\ UNCHANGED <<entered, settled, operations>> /\ intent' /\ pc[a] = "intend"
        /\ pc'[a] = "charge"
    BY <1>7 DEF WriteIntent, Goto, TypeOK
  <2>2. Total(entered) <= settled /\ Total(entered)' = Total(entered)
    BY <2>1 DEF IntentInv, EntryInv, Total
  <2>3. QED
    BY <1>2, <2>1, <2>2, <1>4 DEF EntryInv, Holding
<1>8. CASE Clear(a)
  <2>1. /\ UNCHANGED <<entered, operations>> /\ settled' = settled + 1 /\ pc[a] = "clear"
        /\ pc'[a] \in {"idle", "controlled"}
    BY <1>8 DEF Clear, Goto, TypeOK
  <2>2. Total(entered)' = Total(entered) /\ ~Unstarted(a)'
    BY <2>1 DEF Total, Unstarted
  <2>3. QED
    BY <1>2, <1>4, <2>1, <2>2 DEF EntryInv, Holding
<1>9. CASE ~(ChildStarts(a) \/ WriteCharge(a) \/ WriteIntent(a) \/ Clear(a))
  <2>1. UNCHANGED <<entered, settled, operations, intent, compiled>>
    <3>1. CASE Complete(a)
      BY <3>1 DEF Complete
    <3>2. CASE ~Complete(a)
      BY <1>9, <3>2, Quiet
    <3>3. QED
      BY <3>1, <3>2
  <2>2. Unstarted(a)' => Unstarted(a) /\ (pc'[a] # "charge" => pc[a] # "charge")
    <3>1. CASE Fail(a)
      BY <3>1, FailEffect DEF Unstarted
    <3>2. CASE Complete(a) \/ Crash(a)
      BY <3>2 DEF Complete, Crash, Unstarted, Goto, TypeOK
    <3>3. CASE \/ Spawn(a) \/ ChildReplies(a) \/ ChildDies(a) \/ Begin(a) \/ Supervise(a)
               \/ (~Fail(a) /\ (Lock(a) \/ Admit(a) \/ Cool(a) \/ Enter(a) \/ Settle(a)))
      BY <3>3 DEF Spawn, ChildReplies, ChildDies, Begin, Supervise, Lock, Admit, Cool, Cooled,
         Enter, Settle, Unstarted, Goto, TypeOK
    <3>4. QED
      BY <1>9, <3>1, <3>2, <3>3 DEF Adapter, Terminate, LeaseFails
  <2>3. Total(entered)' = Total(entered) /\ \A b \in Adapters : KindOf(b)' = KindOf(b)
    BY <2>1 DEF Total, KindOf
  <2>4. QED
    BY <1>1, <1>3, <2>1, <2>2, <2>3 DEF EntryInv
<1>10. QED
  BY <1>5, <1>6, <1>7, <1>8, <1>9

\* The bucket bounds every single charge, hence their sum.
LEMMA ChargeBounds ==
  ASSUME NEW o \in Nat, NEW c \in Nat, NEW b \in MinBucket..MaxBucket,
         o * MinBucket <= c, c <= o * MaxBucket
  PROVE  (o + 1) * MinBucket <= c + b /\ c + b <= (o + 1) * MaxBucket
<1>1. (o + 1) * MinBucket = o * MinBucket + MinBucket
  OBVIOUS
<1>2. (o + 1) * MaxBucket = o * MaxBucket + MaxBucket
  OBVIOUS
<1>3. o * MinBucket \in Int /\ o * MaxBucket \in Int
  OBVIOUS
<1> DEFINE p == o * MinBucket
           q == o * MaxBucket
<1> HIDE DEF p, q
<1>4. p <= c /\ c <= q => p + MinBucket <= c + b /\ c + b <= q + MaxBucket
  BY <1>3 DEF p, q
<1>5. QED
  BY <1>1, <1>2, <1>4 DEF p, q

\* Whatever is charged has been found affordable under the same lock.
LEMMA UsageStep ==
  ASSUME TypeOK, LockInv, IntentInv, UsageInv, NEW a \in Adapters, Adapter(a)
  PROVE  UsageInv'
<1>1. \A b \in Adapters \ {a} : pc'[b] = pc[b] /\ compiled'[b] = compiled[b]
  BY Frame
<1>2. pc[a] \in Holding => \A b \in Adapters \ {a} : pc'[b] \notin {"intend"} \cup Leased
  BY <1>1, OneHolder DEF Holding
<1>3. KindOf(a) \in Kinds
  BY KindIsKind
<1>4. ASSUME UNCHANGED <<operations, charged, compiled>>,
             pc'[a] \in {"intend", "charge"} => Affordable(a),
             pc'[a] \in Leased \ {"charge"} => operations[KindOf(a)] > 0
      PROVE  UsageInv'
  <2>1. \A b \in Adapters : KindOf(b)' = KindOf(b) /\ (Affordable(b)' <=> Affordable(b))
    BY <1>4 DEF Affordable, KindOf
  <2>2. QED
    BY <1>1, <1>4, <2>1 DEF UsageInv
<1>5. CASE WriteCharge(a)
  <2>1. /\ operations' = [operations EXCEPT ![KindOf(a)] = @ + 1]
        /\ charged' = [charged EXCEPT ![KindOf(a)] = @ + Bucket[a]]
        /\ pc[a] = "charge" /\ pc'[a] = "enter" /\ compiled' = compiled
    BY <1>5 DEF WriteCharge, Goto, TypeOK
  <2>2. /\ operations[KindOf(a)] < MaxOperations[KindOf(a)]
        /\ charged[KindOf(a)] + Bucket[a] <= MaxCharged[KindOf(a)]
    BY <2>1 DEF UsageInv, Affordable
  <2>3. /\ operations \in [Kinds -> Nat] /\ charged \in [Kinds -> Nat]
        /\ Bucket[a] \in MinBucket..MaxBucket /\ Bucket[a] \in Nat
    BY DEF TypeOK
  <2>4. /\ operations'[KindOf(a)] = operations[KindOf(a)] + 1
        /\ charged'[KindOf(a)] = charged[KindOf(a)] + Bucket[a]
    BY <1>3, <2>1, <2>3
  <2>5. ASSUME NEW k \in Kinds
        PROVE  /\ operations'[k] * MinBucket <= charged'[k]
               /\ charged'[k] <= operations'[k] * MaxBucket
               /\ operations'[k] <= MaxOperations[k] /\ charged'[k] <= MaxCharged[k]
    <3>1. CASE k = KindOf(a)
      <4>1. /\ operations[k] * MinBucket <= charged[k]
            /\ charged[k] <= operations[k] * MaxBucket
        BY DEF UsageInv
      <4>2. operations[k] \in Nat /\ charged[k] \in Nat
        BY <2>3
      <4>3. /\ (operations[k] + 1) * MinBucket <= charged[k] + Bucket[a]
            /\ charged[k] + Bucket[a] <= (operations[k] + 1) * MaxBucket
        BY <2>3, <4>1, <4>2, ChargeBounds
      <4>4. /\ operations[k] + 1 <= MaxOperations[k]
            /\ charged[k] + Bucket[a] <= MaxCharged[k]
        BY <2>2, <3>1, <4>2
      <4>5. QED
        BY <2>4, <3>1, <4>3, <4>4
    <3>2. CASE k # KindOf(a)
      <4>1. operations'[k] = operations[k] /\ charged'[k] = charged[k]
        BY <2>1, <2>3, <3>2
      <4>2. QED
        BY <4>1 DEF UsageInv
    <3>3. QED
      BY <3>1, <3>2
  <2>6. KindOf(a)' = KindOf(a) /\ operations'[KindOf(a)] > 0
    <3>1. operations[KindOf(a)] \in Nat
      BY <1>3, <2>3
    <3>2. QED
      BY <2>1, <2>4, <3>1 DEF KindOf
  <2>7. QED
    BY <1>2, <2>1, <2>5, <2>6 DEF UsageInv, Holding
<1>6. CASE WriteIntent(a) \/ Complete(a)
  BY <1>4, <1>6 DEF WriteIntent, Complete, UsageInv, Goto, TypeOK
<1>7. CASE Clear(a)
  <2>1. /\ UNCHANGED <<operations, charged>> /\ pc[a] = "clear"
        /\ pc'[a] \in {"idle", "controlled"}
    BY <1>7 DEF Clear, Goto, TypeOK
  <2>2. QED
    BY <1>2, <2>1 DEF UsageInv, Holding
<1>8. CASE ~(WriteIntent(a) \/ WriteCharge(a) \/ Complete(a) \/ Clear(a))
  <2>1. UNCHANGED <<operations, charged, compiled>>
    BY <1>8, Quiet
  <2>2. pc'[a] \in {"intend", "charge"} => Affordable(a)
    BY <1>8, Quiet DEF UsageInv
  <2>3. pc'[a] \in Leased \ {"charge"} => pc[a] \in Leased \ {"charge"}
    BY <1>8, Quiet
  <2>4. QED
    BY <1>4, <2>1, <2>2, <2>3 DEF UsageInv
<1>9. QED
  BY <1>5, <1>6, <1>7, <1>8

\* What Complete puts on record.
LEMMA CompleteEffect ==
  ASSUME TypeOK, ClockInv, NEW a \in Adapters, Complete(a)
  PROVE  /\ now - started[a] \in 0..MaxDuration[KindOf(a)] /\ KindOf(a) \in Kinds
         /\ Cooldown(KindOf(a), now - started[a]) \in Nat
         /\ notBefore' \in Nat /\ now <= notBefore' /\ notBefore' >= 2 * now - started[a]
<1>1. pc[a] \in Leased /\ now <= started[a] + MaxDuration[KindOf(a)]
      /\ notBefore' = now + Cooldown(KindOf(a), now - started[a])
  BY DEF Complete, Deadline
<1>2. KindOf(a) \in Kinds /\ MaxDuration[KindOf(a)] \in Nat
  BY KindIsKind
<1>3. started[a] \in Nat /\ now \in Nat /\ started[a] <= now
  BY <1>1 DEF TypeOK, ClockInv
<1>4. now - started[a] \in 0..MaxDuration[KindOf(a)]
  BY <1>1, <1>2, <1>3
<1>5. /\ Cooldown(KindOf(a), now - started[a]) \in Nat
      /\ Cooldown(KindOf(a), now - started[a]) >= now - started[a]
  BY <1>2, <1>4, CooldownCovers
<1>6. QED
  BY <1>1, <1>2, <1>3, <1>4, <1>5

\* A lease is charged from the end of the cooldown before it, so that the device
\* was idle at least as long as it had been busy; the next cooldown repays it.
LEMMA ClockStep ==
  ASSUME TypeOK, LockInv, IntentInv, ClockInv, NEW a \in Adapters, Adapter(a)
  PROVE  ClockInv'
<1>1. \A b \in Adapters \ {a} : pc'[b] = pc[b] /\ started'[b] = started[b]
  BY Frame
<1>2. pc[a] \in Holding => \A b \in Adapters \ {a} : pc'[b] \notin {"intend"} \cup Leased
  BY <1>1, OneHolder DEF Holding
<1>3. now \in Nat /\ busy \in Nat /\ notBefore \in Nat /\ started[a] \in Nat
  BY DEF TypeOK
<1>4. CASE WriteIntent(a) \/ WriteCharge(a)
  <2>1. UNCHANGED <<now, busy, started, notBefore>> /\ pc[a] \in {"intend", "charge"}
        /\ intent' /\ pc'[a] \in {"charge", "enter"}
        /\ (pc'[a] = "charge" => pc[a] = "intend")
    BY <1>4 DEF WriteIntent, WriteCharge, IntentInv, Goto, TypeOK
  <2>2. QED
    BY <1>2, <2>1 DEF ClockInv, Holding
<1>5. CASE Complete(a)
  <2>1. UNCHANGED <<now, busy, started, intent>> /\ pc[a] = "complete" /\ pc'[a] = "clear"
        /\ intent
    BY <1>5 DEF Complete, Goto, TypeOK, IntentInv
  <2>2. notBefore' \in Nat /\ notBefore' >= 2 * now - started[a]
    BY <1>5, CompleteEffect
  <2>3. 2 * busy <= 2 * now - started[a] /\ started[a] <= now
    BY <2>1 DEF ClockInv
  <2>4. 2 * busy <= notBefore'
    BY <1>3, <2>2, <2>3
  <2>5. QED
    BY <1>2, <2>1, <2>3, <2>4 DEF ClockInv, Holding
<1>6. CASE Clear(a)
  <2>1. UNCHANGED <<busy, notBefore>> /\ pc[a] = "clear" /\ pc'[a] \in {"idle", "controlled"}
    BY <1>6 DEF Clear, Goto, TypeOK
  <2>2. QED
    BY <1>2, <2>1 DEF ClockInv, Holding
<1>7. CASE ~(WriteIntent(a) \/ WriteCharge(a) \/ Complete(a) \/ Clear(a))
  <2>1. UNCHANGED <<now, busy, notBefore, intent>>
    BY <1>7, Quiet
  <2>2. CASE Cooled(a) /\ pc'[a] = "intend" /\ started'[a] = now
    <3>1. 2 * busy <= notBefore /\ notBefore <= now /\ pc[a] \in Holding
      BY <2>2 DEF Cooled, IntentInv, ClockInv, Holding
    <3>2. 2 * busy <= 2 * now - now
      BY <1>3, <3>1
    <3>3. QED
      BY <1>2, <1>3, <2>1, <2>2, <3>1, <3>2 DEF ClockInv
  <2>3. CASE pc'[a] \in Leased \cup {"intend"} =>
               started'[a] = started[a] /\ (pc'[a] = "intend" => pc[a] = "intend")
    <3>1. /\ pc'[a] \in Leased => pc[a] \in Leased
          /\ pc'[a] = "charge" => pc[a] = "charge"
          /\ pc'[a] = "clear" => pc[a] = "clear"
      BY <1>7, Quiet
    <3>2. QED
      BY <1>1, <2>1, <2>3, <3>1 DEF ClockInv
  <2>4. QED
    BY <1>7, <2>2, <2>3, Quiet
<1>8. QED
  BY <1>4, <1>5, <1>6, <1>7

\* A completed operation is recorded the way the next one validates it.
LEMMA RecordStep ==
  ASSUME TypeOK, LockInv, IntentInv, UsageInv, ClockInv, RecordInv, NEW a \in Adapters, Adapter(a)
  PROVE  RecordInv'
<1>1. \A b \in Adapters \ {a} : pc'[b] = pc[b]
  BY Frame
<1>2. pc[a] \in Holding => \A b \in Adapters \ {a} : pc'[b] \notin {"intend"} \cup Leased
  BY <1>1, OneHolder DEF Holding
<1>3. CASE WriteIntent(a) \/ WriteCharge(a)
  <2>1. /\ UNCHANGED <<boot, stateBoot>> /\ pc[a] \in {"intend", "charge"} /\ intent'
        /\ pc'[a] \in {"charge", "enter"}
    BY <1>3 DEF WriteIntent, WriteCharge, IntentInv, Goto, TypeOK
  <2>2. QED
    BY <1>2, <2>1 DEF RecordInv, Holding
<1>4. CASE Complete(a)
  <2>1. /\ UNCHANGED <<now, boot, stateBoot, intent, operations, charged>> /\ boot = stateBoot
        /\ pc[a] = "complete" /\ pc'[a] = "clear" /\ intent /\ observed' = now
        /\ notBefore' = now + Cooldown(KindOf(a), now - started[a])
        /\ last' = [kind |-> KindOf(a), total |-> Total(operations), begun |-> started[a],
                    finished |-> now, until |-> notBefore']
    BY <1>4 DEF Complete, Goto, TypeOK, IntentInv
  <2>2. /\ now - started[a] \in 0..MaxDuration[KindOf(a)] /\ KindOf(a) \in Kinds
        /\ notBefore' \in Nat /\ now <= notBefore'
    BY <1>4, CompleteEffect
  <2>3. now \in Nat /\ started[a] \in Nat /\ MaxDuration[KindOf(a)] \in Nat
    BY <2>2 DEF TypeOK
  <2>4. last' # NoOperation
    <3>1. last'.kind \in Kinds
      BY <2>1, <2>2
    <3>2. QED
      BY <3>1 DEF NoOperation
  <2>5. /\ last'.kind = KindOf(a) /\ last'.total = Total(operations) /\ last'.begun = started[a]
        /\ last'.finished = now /\ last'.until = notBefore'
    BY <2>1
  <2>6. operations[KindOf(a)] > 0 /\ Total(operations)' = Total(operations)
    BY <2>1 DEF UsageInv, Total
  <2>7. last'.begun <= last'.finished /\ last'.finished - last'.begun <= MaxDuration[KindOf(a)]
    BY <2>2, <2>3, <2>5
  <2>8. Valid(now)'
    BY <2>1, <2>2, <2>3, <2>4, <2>5, <2>6, <2>7 DEF Valid, UsageInv
  <2>9. QED
    BY <1>2, <2>1, <2>8 DEF RecordInv, Holding
<1>5. CASE Clear(a)
  <2>1. /\ UNCHANGED <<now, boot, stateBoot, operations, charged, observed, notBefore, last>>
        /\ pc[a] = "clear" /\ pc'[a] \in {"idle", "controlled"}
    BY <1>5 DEF Clear, Goto, TypeOK
  <2>2. Valid(now)' <=> Valid(now)
    BY <2>1 DEF Valid, Total
  <2>3. QED
    BY <1>2, <2>1, <2>2 DEF RecordInv, Holding
<1>6. CASE ~(WriteIntent(a) \/ WriteCharge(a) \/ Complete(a) \/ Clear(a))
  <2>1. UNCHANGED <<now, boot, stateBoot, operations, charged, observed, notBefore, last, intent>>
    BY <1>6, Quiet
  <2>2. Valid(now)' <=> Valid(now)
    BY <2>1 DEF Valid, Total
  <2>3. pc'[a] = "clear" => pc[a] = "clear"
    BY <1>6, Quiet
  <2>4. QED
    BY <1>1, <2>1, <2>2, <2>3 DEF RecordInv
<1>7. QED
  BY <1>3, <1>4, <1>5, <1>6

\* The code stores what the variables are declared to hold.
LEMMA TypeStep ==
  ASSUME TypeOK, ClockInv, NEW a \in Adapters, Adapter(a)
  PROVE  TypeOK'
<1>1. CASE \/ Spawn(a) \/ ChildReplies(a) \/ ChildDies(a) \/ Supervise(a)
  BY <1>1 DEF TypeOK, Spawn, ChildReplies, ChildDies, Supervise, Goto
<1>10. CASE Begin(a)
  BY <1>10 DEF TypeOK, Begin, Goto
<1>11. CASE WriteIntent(a)
  BY <1>11 DEF TypeOK, WriteIntent, Goto
<1>2. CASE ChildStarts(a)
  <2>1. entered' \in [Kinds -> Nat]
    BY <1>2, KindIsKind, TotalStep DEF ChildStarts, TypeOK
  <2>2. child' \in [Adapters -> {"idle", "running", "gone"}]
    BY <1>2 DEF ChildStarts, TypeOK
  <2>3. QED
    BY <1>2, <2>1, <2>2 DEF ChildStarts, TypeOK
<1>3. CASE Fail(a)
  <2>1. MayTear(a) /\ UNCHANGED <<now, boot, intent, operations, charged, observed, notBefore, last,
                                  stateBoot, compiled, entered, settled, busy>>
    BY <1>3, FailKeeps
  <2>2. intact' \in BOOLEAN
    BY <2>1 DEF MayTear, TypeOK
  <2>3. /\ pc' \in [Adapters -> {"unborn", "idle"} \cup Waiting \cup Leased \cup Ended]
        /\ child' \in [Adapters -> {"idle", "running", "gone"}]
        /\ waitUntil' \in [Adapters -> Nat] /\ started' \in [Adapters -> Nat]
        /\ reply' \in [Adapters -> Replies] /\ lock' \in Adapters \cup {NoAdapter}
    BY <1>3 DEF Fail, Goto, Forget, Released, TypeOK
  <2>4. QED
    BY <2>1, <2>2, <2>3 DEF TypeOK
<1>4. CASE ~Fail(a) /\ (Lock(a) \/ Admit(a) \/ Cool(a) \/ Enter(a) \/ Settle(a))
  BY <1>4 DEF TypeOK, Lock, Admit, Cool, Cooled, Enter, Settle, Goto
<1>5. CASE Crash(a)
  <2>1. intact' \in BOOLEAN
    BY <1>5 DEF Crash, MayTear, TypeOK
  <2>2. QED
    BY <1>5, <2>1 DEF TypeOK, Crash, Goto, Forget, Released
<1>6. CASE WriteCharge(a)
  <2>1. operations' \in [Kinds -> Nat]
    BY <1>6, KindIsKind, TotalStep DEF WriteCharge, TypeOK
  <2>2. charged' \in [Kinds -> Nat]
    <3>1. Bucket[a] \in Nat
      OBVIOUS
    <3>2. QED
      BY <1>6, <3>1, KindIsKind DEF WriteCharge, TypeOK
  <2>3. observed' \in Nat
    BY <1>6 DEF WriteCharge, TypeOK
  <2>4. QED
    BY <1>6, <2>1, <2>2, <2>3 DEF WriteCharge, TypeOK, Goto
<1>7. CASE Complete(a)
  <2>1. notBefore' \in Nat /\ KindOf(a) \in Kinds
    BY <1>7, CompleteEffect
  <2>2. Total(operations) \in Nat /\ started[a] \in Nat /\ now \in Nat
    BY DEF Total, TypeOK
  <2>3. last' \in Operation
    BY <1>7, <2>1, <2>2 DEF Complete, Operation
  <2>4. QED
    BY <1>7, <2>1, <2>3 DEF Complete, TypeOK, Goto
<1>8. CASE Clear(a)
  <2>1. compiled' \in [Adapters -> BOOLEAN]
    BY <1>8, Zenon DEF TypeOK, Clear
  <2>2. /\ pc' \in [Adapters -> {"unborn", "idle"} \cup Waiting \cup Leased \cup Ended]
        /\ waitUntil' \in [Adapters -> Nat] /\ started' \in [Adapters -> Nat]
        /\ reply' \in [Adapters -> Replies]
    BY <1>8 DEF TypeOK, Clear, Goto, Forget
  <2>3. lock' \in Adapters \cup {NoAdapter} /\ settled' \in Nat
    BY <1>8 DEF TypeOK, Clear
  <2>4. intent' \in BOOLEAN
    BY <1>8, Zenon DEF Clear
  <2>5. QED
    BY <1>8, <2>1, <2>2, <2>3, <2>4 DEF TypeOK, Clear
<1>9. QED
  BY <1>1, <1>2, <1>3, <1>4, <1>5, <1>6, <1>7, <1>8, <1>10, <1>11
  DEF Adapter, Terminate, LeaseFails

-----------------------------------------------------------------------------
(* The host, and the theorems.                                             *)

\* While time passes, a running call is charged to the lease it runs under.
LEMMA TickStep == ASSUME IInv, Tick PROVE IInv'
<1> USE DEF IInv
<1>1. /\ now' = now + 1 /\ now \in Nat /\ busy \in Nat
      /\ UNCHANGED <<boot, lock, intent, intact, operations, charged, observed, notBefore, last,
                     stateBoot, pc, compiled, waitUntil, started, child, reply, entered, settled>>
  BY DEF Tick, TypeOK
<1>2. /\ busy' \in {busy, busy + 1}
      /\ (\A a \in Adapters : child[a] # "running") => busy' = busy
  BY <1>1 DEF Tick
<1>3. TypeOK'
  BY <1>1, <1>2 DEF TypeOK
<1>4. LockInv' /\ IntentInv' /\ ChildInv' /\ ReapInv'
  BY <1>1 DEF LockInv, IntentInv, ChildInv, ReapInv
<1>5. EntryInv'
  BY <1>1 DEF EntryInv, Unstarted, KindOf, Total
<1>6. UsageInv'
  BY <1>1 DEF UsageInv, Affordable, KindOf
<1>7. ClockInv'
  <2>1. ~intent => busy' = busy
    BY <1>2 DEF ChildInv
  <2>2. ASSUME NEW a \in Adapters, pc[a] = "clear" PROVE busy' = busy
    BY <1>2, <2>2 DEF ChildInv
  <2>3. ASSUME NEW a \in Adapters, pc[a] \in {"intend"} \cup Leased
        PROVE  started[a] <= now' /\ 2 * busy' <= 2 * now' - started[a]
    <3>1. started[a] <= now /\ 2 * busy <= 2 * now - started[a] /\ started[a] \in Nat
      BY <2>3 DEF ClockInv, TypeOK
    <3>2. QED
      BY <1>1, <1>2, <3>1
  <2>4. QED
    BY <1>1, <2>1, <2>2, <2>3 DEF ClockInv
<1>8. RecordInv'
  <2>1. observed \in Nat /\ (Valid(now) => Valid(now)')
    BY <1>1 DEF Valid, Total, TypeOK
  <2>2. QED
    BY <1>1, <2>1 DEF RecordInv
<1>9. QED
  BY <1>3, <1>4, <1>5, <1>6, <1>7, <1>8

\* A reboot ends every lease, and the record left behind is another boot's.
LEMMA RebootStep == ASSUME IInv, Reboot PROVE IInv'
<1> USE DEF IInv
<1>1. /\ now' = 0 /\ boot' = boot + 1 /\ boot \in Nat /\ stateBoot \in Nat
      /\ UNCHANGED <<intent, operations, charged, observed, notBefore, last, stateBoot, compiled,
                     entered, settled, busy>>
  BY DEF Reboot, TypeOK
<1>2. \A a \in Adapters : /\ pc'[a] \in {"unborn", "crashed"} /\ child'[a] = "gone"
                          /\ lock' # a
  BY DEF Reboot
<1>3. ~intent => intact'
  <2>1. lock # NoAdapter => lock \in Adapters
    BY DEF TypeOK
  <2>2. QED
    BY <2>1 DEF Reboot, MayTear, IntentInv
<1>4. TypeOK'
  <2>1. intact' \in BOOLEAN
    BY DEF Reboot, MayTear, TypeOK
  <2>2. QED
    BY <1>1, <2>1 DEF Reboot, TypeOK
<1>5. LockInv' /\ IntentInv' /\ ChildInv' /\ ReapInv'
  BY <1>1, <1>2, <1>3 DEF LockInv, IntentInv, ChildInv, ReapInv, Holding
<1>6. EntryInv'
  BY <1>1, <1>2 DEF EntryInv, Unstarted, Total
<1>7. UsageInv' /\ ClockInv' /\ RecordInv'
  BY <1>1, <1>2 DEF UsageInv, ClockInv, RecordInv
<1>8. QED
  BY <1>4, <1>5, <1>6, <1>7

\* A provisioned directory satisfies the invariant.
LEMMA InitIInv == ASSUME Init PROVE IInv
<1>1. TypeOK
  BY DEF Init, TypeOK, Operation
<1>2. LockInv /\ IntentInv /\ ChildInv /\ ReapInv
  BY DEF Init, LockInv, IntentInv, ChildInv, ReapInv, Holding
<1>3. EntryInv
  BY DEF Init, EntryInv, Unstarted, Total
<1>4. UsageInv
  <2>1. \A k \in Kinds : MaxOperations[k] \in Nat /\ MaxCharged[k] \in Nat
    OBVIOUS
  <2>2. 0 * MinBucket = 0 /\ 0 * MaxBucket = 0
    OBVIOUS
  <2>3. QED
    BY <2>1, <2>2 DEF Init, UsageInv
<1>5. ClockInv /\ RecordInv
  <2>1. Valid(now)
    BY <1>4 DEF Init, Valid, Total, UsageInv
  <2>2. QED
    BY <2>1 DEF Init, ClockInv, RecordInv
<1>6. QED
  BY <1>1, <1>2, <1>3, <1>4, <1>5 DEF IInv

\* Every step of the host or of an adapter keeps the invariant.
LEMMA NextIInv == ASSUME IInv, [Next]_vars PROVE IInv'
<1>1. ASSUME NEW a \in Adapters, Adapter(a) PROVE IInv'
  BY <1>1, TypeStep, LockStep, IntentStep, ChildStep, ReapStep, EntryStep, UsageStep, ClockStep,
     RecordStep DEF IInv
<1>2. CASE UNCHANGED vars
  BY <1>2 DEF vars, IInv, TypeOK, LockInv, IntentInv, ChildInv, ReapInv, EntryInv, UsageInv, ClockInv,
     RecordInv, Unstarted, Affordable, KindOf, Total, Valid
<1>3. QED
  BY <1>1, <1>2, TickStep, RebootStep DEF Next

\* The invariant the results below rest on.
LEMMA Invariant == Spec => []IInv
  BY InitIInv, NextIInv, PTL DEF Spec

\* Every variable keeps to the values the code can store in it, whatever a crash
\* or a failing write leaves behind.
THEOREM TypeCorrect == Spec => []TypeOK
<1>1. IInv => TypeOK
  BY DEF IInv
<1>2. QED
  BY <1>1, Invariant, PTL

\* No two native calls run at once, whatever processes crash, time out or lose
\* track of a child, however many processes share the governor directory.
THEOREM OneNativeCall == Spec => []OneNative
<1>1. IInv => OneNative
  BY DEF IInv, ChildInv, OneNative
<1>2. QED
  BY <1>1, Invariant, PTL

\* A call that was begun and never settled refuses every later operation.
THEOREM UnsettledShuts == Spec => []UnsettledBlocks
<1>1. IInv => UnsettledBlocks
  <2>1. ASSUME TypeOK PROVE Total(entered) \in Nat /\ settled \in Nat
    BY <2>1 DEF TypeOK, Total
  <2>2. QED
    BY <2>1 DEF IInv, EntryInv, UnsettledBlocks
<1>2. QED
  BY <1>1, Invariant, PTL

\* The native calls ever begun stay within the provisioned budget of the epoch.
THEOREM WithinBudget == Spec => []Budget
<1>1. IInv => Budget
  <2>1. ASSUME TypeOK, NEW k \in Kinds
        PROVE  entered[k] \in Nat /\ operations[k] \in Nat /\ MaxOperations[k] \in Nat
    BY <2>1 DEF TypeOK
  <2>2. QED
    BY <2>1 DEF IInv, EntryInv, UsageInv, Budget
<1>2. QED
  BY <1>1, Invariant, PTL

\* Under every validated policy the device has rested at least as long as it has
\* worked whenever the next operation may start.
THEOREM HalfDutyCycle == Spec => []HalfDuty
<1>1. IInv => HalfDuty
  BY DEF IInv, ClockInv, HalfDuty
<1>2. QED
  BY <1>1, Invariant, PTL

\* With no intent pending, the record is one the governor accepts on this boot.
THEOREM NeverLocksItselfOut == Spec => []SelfConsistent
<1>1. IInv => SelfConsistent
  BY DEF IInv, IntentInv, RecordInv, SelfConsistent
<1>2. QED
  BY <1>1, Invariant, PTL

\* A caller falls back to another scope only once its worker is dead.
THEOREM FallbackAfterReap == Spec => []FallbackAfterDeath
<1>1. IInv => FallbackAfterDeath
  BY DEF IInv, ReapInv, FallbackAfterDeath
<1>2. QED
  BY <1>1, Invariant, PTL

=============================================================================
