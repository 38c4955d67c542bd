---------------------------- MODULE MemoryChange ----------------------------
(***************************************************************************)
(* What maintenance promises about the memory: a proposal takes effect,    *)
(* and is taken back, in one step that changes the bytes of its target and *)
(* its fate together, under a claim that found the bytes as they should    *)
(* be.  Users write whenever they like; a claim does not keep them out,    *)
(* but it knows that it is no longer fresh.                                *)
(***************************************************************************)
EXTENDS Naturals

CONSTANTS Targets, Bytes, Absent, NoTarget, Proposals, NoOne

VARIABLES
  mem,     \* content of each target
  fate,    \* of each proposal
  held,    \* the proposal claimed, or NoOne
  fresh,   \* nobody has written to its target since
  severed  \* proposals whose claim was cut short

vars == <<mem, fate, held, fresh, severed>>

Fates == {"new", "open", "rejected", "accepted", "reverted"}

Matches(p, side) == p.target # NoTarget => mem[p.target] = IF side = "after" THEN p.after ELSE p.before

Init ==
  /\ mem = [t \in Targets |-> Absent]
  /\ fate = [p \in Proposals |-> "new"]
  /\ held = NoOne /\ fresh = TRUE /\ severed = {}

Edit(t, bytes) ==
  /\ mem' = [mem EXCEPT ![t] = bytes]
  /\ fresh' = (fresh /\ (held # NoOne => held.target # t))
  /\ UNCHANGED <<fate, held, severed>>

Open(p) ==
  /\ fate[p] = "new" /\ held = NoOne /\ fate' = [fate EXCEPT ![p] = "open"]
  /\ UNCHANGED <<mem, held, fresh, severed>>

Reject(p) ==
  /\ fate[p] = "open" /\ held = NoOne /\ fate' = [fate EXCEPT ![p] = "rejected"]
  /\ UNCHANGED <<mem, held, fresh, severed>>

Claim(p) ==
  /\ held = NoOne /\ held' = p /\ fresh' = TRUE
  /\ \/ fate[p] = "open" /\ Matches(p, "before")
     \/ fate[p] = "accepted" /\ Matches(p, "after")
  /\ UNCHANGED <<mem, fate, severed>>

KeepOrRelease ==
  \/ held' = held /\ fresh' = fresh
  \/ held' = NoOne /\ fresh' = TRUE

\* The bytes and the fate of the claimed proposal change together.
Become(to, side) ==
  /\ fate' = [fate EXCEPT ![held] = to]
  /\ mem' = IF held.target = NoTarget THEN mem
            ELSE [mem EXCEPT ![held.target] = IF side = "after" THEN held.after ELSE held.before]
  /\ KeepOrRelease /\ UNCHANGED severed

Swap ==
  /\ held # NoOne
  /\ \/ fate[held] \in {"open", "reverted"} /\ Become("accepted", "after")
     \/ fate[held] = "accepted" /\ \E to \in {"open", "reverted"} : Become(to, "before")

Release == held # NoOne /\ held' = NoOne /\ fresh' = TRUE /\ UNCHANGED <<mem, fate, severed>>

\* What no sequence of file operations can exclude: the operation is cut
\* short, and the fate on file need not be that of the bytes.
Sever ==
  /\ held # NoOne /\ severed' = severed \cup {held}
  /\ \E to \in {"open", "accepted", "reverted"} : fate' = [fate EXCEPT ![held] = to]
  /\ KeepOrRelease /\ UNCHANGED mem

Next ==
  \/ \E t \in Targets, bytes \in Bytes \cup {Absent} : Edit(t, bytes)
  \/ \E p \in Proposals : Open(p) \/ Reject(p) \/ Claim(p)
  \/ Swap \/ Release \/ Sever

Spec == Init /\ [][Next]_vars
=============================================================================
