------------------------------ MODULE Sessions ------------------------------
(***************************************************************************)
(* What the hooks of an agent's sessions keep on one host: the state file  *)
(* of each session (session_state.rs), the exhaust and the ledger          *)
(* (exhaust.rs, ledger.rs over jsonl.rs) and the staged candidates         *)
(* (staging.rs), which maintenance settles.                                *)
(*                                                                         *)
(* A hook is a process that the harness starts at an event (hooks.rs) and  *)
(* waits for; those of different sessions run side by side.  It may be     *)
(* killed between any two of its steps and inside of an append.  An append *)
(* holds the stream's lock, an update the session's, so each is one step.  *)
(*                                                                         *)
(* One file stands for what an agent reads and writes, one command for     *)
(* what it runs, one rule for what it may not do.                          *)
(***************************************************************************)
EXTENDS Streams, FiniteSets

CONSTANTS
  Sessions,
  Window,      \* lines a Stop looks back
  MaxStaged,   \* pending candidates
  Every,       \* reinject_every
  Workloads,   \* who works, at what cap of the streams, and how often each event happens
  Recurring, StagingFull, NoOne

Tools == {"fail", "ok", "read", "write"}
Events == Tools \cup {"ask", "breach", "prompt", "stop", "new", "resume", "compact",
                      "edit", "rewind", "settle", "kill"}
Names == {"exhaust", "ledger"}
\* A fix-discovered candidate is named by its session.
Ids == Sessions \cup {Recurring, StagingFull}
Key(name, n) == [name |-> name, n |-> n]
Staging == Key("staging", 0)
Forbids == Key("forbids", 0)
Keys == [name : {"staging", "forbids", "rules"}, n : Nat]

\* A line of a stream: the how manieth it is, what it says of whom, and,
\* of a measured turn, what is billed and up to which count.
Kinds == {"fail", "ok", "other", "consume", "measured"}
Lines == [n : Nat, kind : Kinds, of : Ids \cup {NoOne}, delta : Nat, sum : Nat]

ASSUME SessionsAssumption ==
  /\ Window \in Nat \ {0} /\ MaxStaged \in Nat \ {0} /\ Every \in Nat
  /\ {Recurring, StagingFull, NoOne} \cap Sessions = {} /\ Recurring # StagingFull
  /\ Workloads \subseteq [who : SUBSET Sessions, cap : Nat \ {0}, budget : [Events -> Nat]]
  /\ Torn \notin Lines

VARIABLES
  streams, pending, dismissed,  \* on disk
  state,      \* the session files
  version, mtime, \* of the file an agent reads and writes: its text, its mtime
  at,         \* the step a session's hook is at
  tool, stat, \* of that hook: the tool it is about, the mtime it has seen,
  got, k, whole, \* the lines it has read, of which file next, and if they are all,
  todo, have, text, \* the candidates to stage, the pending ones counted, what to say
  settling,   \* the candidate maintenance is settling, and what is left to do
  counter,    \* of tokens, in the transcript
  setup,      \* who works, and what may still happen
  \* ---- history
  appended,   \* lines, by stream
  spent,      \* tokens
  seen,       \* the version of the file that a conversation remembers
  asked,      \* the version there was when the mtime was taken
  misread,    \* sessions whose file was changed between a read and its record
  resaved,    \* sessions whose file was changed since, to the mtime of that record
  told, twice, \* reminders a conversation was given, and given again
  settled, known \* candidates ever; those when a session's Stop began

disk == <<streams, appended>>
file == <<version, mtime>>
staging == <<pending, dismissed, settled>>
reading == <<got, k, whole>>
locals == <<tool, stat, asked, reading, todo, have, text>>
talk == <<seen, misread, resaved, told, twice>>
usage == <<counter, spent>>
vars == <<disk, staging, state, file, at, locals, settling, usage, talk, setup, known>>

FreshState == [compacted |-> FALSE, read |-> 0, warned |-> FALSE, queued |-> {}, shown |-> {}, events |-> 0]

Line(kind, of, delta, sum) == [n |-> 0, kind |-> kind, of |-> of, delta |-> delta, sum |-> sum]
Other == Line("other", NoOne, 0, 0)

Nobody == [id |-> NoOne, left |-> {}]

Init ==
  /\ streams = [name \in Names |-> NewStream] /\ appended = [name \in Names |-> 0]
  /\ pending = {} /\ dismissed = {} /\ settled = {} /\ settling = Nobody
  /\ state = [s \in Sessions |-> FreshState] /\ version = 1 /\ mtime = 1
  /\ at = [s \in Sessions |-> "idle"]
  /\ tool = [s \in Sessions |-> "none"] /\ stat = [s \in Sessions |-> 0] /\ asked = [s \in Sessions |-> 0]
  /\ got = [s \in Sessions |-> <<>>] /\ k = [s \in Sessions |-> 1] /\ whole = [s \in Sessions |-> TRUE]
  /\ todo = [s \in Sessions |-> <<>>] /\ have = [s \in Sessions |-> -1] /\ text = [s \in Sessions |-> {}]
  /\ counter = [s \in Sessions |-> 0] /\ spent = [s \in Sessions |-> 0]
  /\ seen = [s \in Sessions |-> 0] /\ misread = {} /\ resaved = {}
  /\ told = [s \in Sessions |-> {}] /\ twice = [s \in Sessions |-> {}]
  /\ known = [s \in Sessions |-> {}] /\ setup \in Workloads

Happens(event) ==
  setup.budget[event] > 0 /\ setup' = [setup EXCEPT !.budget[event] = @ - 1]

\* The harness starts a hook.
Begin(s, event, step) ==
  at[s] = "idle" /\ s \in setup.who /\ Happens(event) /\ at' = [at EXCEPT ![s] = step]

Goes(s, from, to) == at[s] = from /\ at' = [at EXCEPT ![s] = to]

\* jsonl::append.
Put(name, line) ==
  /\ streams' = [streams EXCEPT ![name] = Written(@, setup.cap, [line EXCEPT !.n = appended[name] + 1])]
  /\ appended' = [appended EXCEPT ![name] = @ + 1]

\* session_state::update.
Update(s, new) == state' = [state EXCEPT ![s] = new]

\* queue_reminder.
Queue(st, key) == IF key \in st.queued \cup st.shown THEN st ELSE [st EXCEPT !.queued = @ \cup {key}]
-----------------------------------------------------------------------------
(* A tool, and what its hook captures (post_tool).                         *)

\* The file is saved, by some.  The mtime is in whole seconds, and may be set:
\* it is new, or one that the file had before.
Saved(by) ==
  /\ version' = version + 1 /\ mtime' \in 1..version'
  /\ resaved' = (resaved \cup {r \in Sessions : state[r].read = mtime'}) \ by

\* The tool has run when its hook begins.
Tool(s, t) ==
  /\ Begin(s, t, "capture") /\ tool' = [tool EXCEPT ![s] = t]
  /\ \/ t = "write" /\ Saved({s})
     \/ t = "read" /\ UNCHANGED file /\ resaved' = resaved \ {s}
     \/ t \in {"fail", "ok"} /\ UNCHANGED <<file, resaved>>
  /\ seen' = IF t \in {"read", "write"} THEN [seen EXCEPT ![s] = version'] ELSE seen
  /\ UNCHANGED <<disk, staging, state, stat, asked, reading, todo, have, text, settling, usage, misread, told, twice, known>>

\* capture_post_tool.
Capture(s) ==
  /\ Goes(s, "capture", "cadence")
  /\ Put("exhaust", IF tool[s] \in {"fail", "ok"} THEN Line(tool[s], s, 0, 0) ELSE Other)
  /\ UNCHANGED <<staging, state, file, locals, settling, usage, talk, setup, known>>

\* post_tool_cadence.
Cadence(s) ==
  LET n == state[s].events + 1
      st == [state[s] EXCEPT !.events = n]
  IN  /\ Goes(s, "cadence", IF tool[s] = "read" THEN "selfread" ELSE "track")
      /\ Update(s, IF Every > 0 /\ n % Every = 0 THEN Queue(st, Key("rules", n)) ELSE st)
      /\ UNCHANGED <<disk, staging, file, locals, settling, usage, talk, setup, known>>

\* post_tool_self_read.
SelfRead(s) ==
  /\ Goes(s, "selfread", "track") /\ Put("ledger", Other)
  /\ UNCHANGED <<staging, state, file, locals, settling, usage, talk, setup, known>>

\* post_tool_track: record_read, record_write.
Track(s) ==
  /\ Goes(s, "track", "idle") /\ tool' = [tool EXCEPT ![s] = "none"]
  /\ Update(s, CASE tool[s] = "read" -> [state[s] EXCEPT !.read = mtime]
                 [] tool[s] = "write" -> [state[s] EXCEPT !.read = 0]
                 [] OTHER -> state[s])
  /\ misread' = IF tool[s] # "read" THEN misread
                ELSE IF seen[s] # version THEN misread \cup {s} ELSE misread \ {s}
  /\ UNCHANGED <<disk, staging, file, stat, asked, reading, todo, have, text, settling, usage, seen, resaved, told, twice, setup, known>>
-----------------------------------------------------------------------------
(* Advice before a tool (pre_tool), and reminders with a prompt.           *)

\* file_mtime is taken before the session's lock.
Ask(s) ==
  /\ Begin(s, "ask", "advise")
  /\ stat' = [stat EXCEPT ![s] = mtime] /\ asked' = [asked EXCEPT ![s] = version]
  /\ UNCHANGED <<disk, staging, state, file, tool, reading, todo, have, text, settling, usage, talk, known>>

\* A plausible bug: a file that was read is a file that was read.
RepeatedIgnoringTime(s) == ~state[s].compacted /\ ~state[s].warned /\ state[s].read # 0

\* should_warn_repeat_read.
Repeated(s) == ~state[s].compacted /\ ~state[s].warned /\ state[s].read # 0 /\ state[s].read = stat[s]

Unasked(s) == stat' = [stat EXCEPT ![s] = 0] /\ asked' = [asked EXCEPT ![s] = 0]

Advise(s) ==
  /\ at[s] = "advise"
  /\ \/ /\ Repeated(s) /\ at' = [at EXCEPT ![s] = "warn"]
        /\ Update(s, [state[s] EXCEPT !.warned = TRUE]) /\ UNCHANGED <<stat, asked>>
     \/ /\ ~Repeated(s) /\ at' = [at EXCEPT ![s] = "idle"]
        /\ UNCHANGED state /\ Unasked(s)
  /\ UNCHANGED <<disk, staging, file, tool, reading, todo, have, text, settling, usage, talk, setup, known>>

Warn(s) ==
  /\ Goes(s, "warn", "book") /\ Unasked(s)
  /\ UNCHANGED <<disk, staging, state, file, tool, reading, todo, have, text, settling, usage, talk, setup, known>>

Breach(s) ==
  /\ Begin(s, "breach", "forbid")
  /\ UNCHANGED <<disk, staging, state, file, locals, settling, usage, talk, known>>

\* prohibition_warning: said at once, if it could be queued; and it is queued.
Forbid(s) ==
  LET st == Queue(state[s], Forbids)
  IN  /\ at[s] = "forbid" /\ Update(s, st)
      /\ at' = [at EXCEPT ![s] = IF st # state[s] THEN "say" ELSE "idle"]
      /\ text' = [text EXCEPT ![s] = IF st # state[s] THEN {Forbids} ELSE {}]
      /\ UNCHANGED <<disk, staging, file, tool, stat, asked, reading, todo, have, settling, usage, talk, setup, known>>

Prompt(s) ==
  /\ Begin(s, "prompt", "drain")
  /\ UNCHANGED <<disk, staging, state, file, locals, settling, usage, talk, known>>

\* A plausible bug: what was drained may be queued again.
DrainedUnmarked(st) == [st EXCEPT !.queued = {}]

\* drain_reminders.
Drained(st) == [st EXCEPT !.queued = {}, !.shown = @ \cup st.queued]

Drain(s) ==
  /\ at[s] = "drain" /\ text' = [text EXCEPT ![s] = state[s].queued]
  /\ at' = [at EXCEPT ![s] = IF state[s].queued = {} THEN "idle" ELSE "say"]
  /\ Update(s, Drained(state[s]))
  /\ UNCHANGED <<disk, staging, file, tool, stat, asked, reading, todo, have, settling, usage, talk, setup, known>>

Say(s) ==
  /\ Goes(s, "say", "book") /\ text' = [text EXCEPT ![s] = {}]
  /\ told' = [told EXCEPT ![s] = @ \cup text[s]]
  /\ twice' = [twice EXCEPT ![s] = @ \cup (text[s] \cap told[s])]
  /\ UNCHANGED <<disk, staging, state, file, tool, stat, asked, reading, todo, have, settling, usage, seen, misread, resaved, setup, known>>

\* What was said is booked.
Book(s) ==
  /\ Goes(s, "book", "idle") /\ Put("ledger", Other)
  /\ UNCHANGED <<staging, state, file, locals, settling, usage, talk, setup, known>>
-----------------------------------------------------------------------------
(* The conversation begins, goes on, or is compacted.                      *)

New(s) ==
  /\ Begin(s, "new", "reset")
  /\ seen' = [seen EXCEPT ![s] = 0] /\ told' = [told EXCEPT ![s] = {}] /\ twice' = [twice EXCEPT ![s] = {}]
  /\ UNCHANGED <<disk, staging, state, file, locals, settling, usage, misread, resaved, known>>

\* session_start: the digest is said and booked at every start.
Reset(s) ==
  /\ Goes(s, "reset", "book") /\ Update(s, FreshState)
  /\ UNCHANGED <<disk, staging, file, locals, settling, usage, talk, setup, known>>

Resume(s) ==
  /\ Begin(s, "resume", "book")
  /\ UNCHANGED <<disk, staging, state, file, locals, settling, usage, talk, known>>

Compact(s) ==
  /\ Begin(s, "compact", "disarm")
  /\ UNCHANGED <<disk, staging, state, file, locals, settling, usage, talk, known>>

\* precompact; then what was read is forgotten, and the session goes on.
Disarm(s) ==
  /\ Goes(s, "disarm", "book") /\ Update(s, [state[s] EXCEPT !.compacted = TRUE])
  /\ seen' = [seen EXCEPT ![s] = 0]
  /\ UNCHANGED <<disk, staging, file, locals, settling, usage, misread, resaved, told, twice, setup, known>>
-----------------------------------------------------------------------------
(* The end of a turn (stop): exhaust, reminders, usage.                    *)

Stop(s) ==
  /\ Begin(s, "stop", "window")
  /\ counter' = [counter EXCEPT ![s] = @ + 1] /\ spent' = [spent EXCEPT ![s] = @ + 1]
  /\ known' = [known EXCEPT ![s] = settled]
  /\ UNCHANGED <<disk, staging, state, file, locals, settling, talk>>

\* read_tail and watermark_of: the files one after the other, newest first,
\* while others append and rotate.
Reads(s, name) ==
  LET lines == streams[name].files[k[s]]
      budget == Window - Len(got[s])
  IN  /\ k[s] <= 3
      /\ got' = [got EXCEPT ![s] = LastLines(lines, budget) \o @]
      /\ whole' = [whole EXCEPT ![s] = @ /\ budget > 0 /\ Len(lines) <= budget]
      /\ k' = [k EXCEPT ![s] = @ + 1]

Forget(s) == got' = [got EXCEPT ![s] = <<>>] /\ k' = [k EXCEPT ![s] = 1] /\ whole' = [whole EXCEPT ![s] = TRUE]

ReadWindow(s) ==
  /\ at[s] = "window" /\ Reads(s, "exhaust") /\ UNCHANGED at
  /\ UNCHANGED <<disk, staging, state, file, tool, stat, asked, todo, have, text, settling, usage, talk, setup, known>>

\* traps: a command that failed and then worked, one that failed in two
\* sessions.  (A file that is hot is found as the latter, by its writes.)
FixDiscovered(s, rows) ==
  \E i, j \in DOMAIN rows : i < j /\ rows[i] = <<"fail", s>> /\ rows[j] = <<"ok", s>>
RecurringFailure(rows) ==
  Cardinality({s \in Sessions : \E i \in DOMAIN rows : rows[i] = <<"fail", s>>}) >= 2

Decided(rows) == {id \in Ids : \E i \in DOMAIN rows : rows[i] = <<"consume", id>>}

Traps(s, rows) ==
  (IF FixDiscovered(s, rows) /\ s \notin Decided(rows) THEN <<s>> ELSE <<>>)
  \o (IF RecurringFailure(rows) /\ Recurring \notin Decided(rows) THEN <<Recurring>> ELSE <<>>)

\* record_stop: the summary, and what the traps make of the window.
Turn(s) ==
  LET lines == SelectSeq(got[s], LAMBDA line : line # Torn)
      rows == [i \in DOMAIN lines |-> <<lines[i].kind, lines[i].of>>]
  IN  /\ at[s] = "window" /\ k[s] > 3 /\ at' = [at EXCEPT ![s] = "stage"]
      /\ Put("exhaust", Other)
      /\ todo' = [todo EXCEPT ![s] = Traps(s, rows)]
      /\ Forget(s)
      /\ UNCHANGED <<staging, state, file, tool, stat, asked, have, text, settling, usage, talk, setup, known>>

Staged(id) == id \in pending \cup dismissed

\* The pending ones are counted once.
Pending(s) == IF have[s] = -1 THEN Cardinality(pending) ELSE have[s]

Skip(s) ==
  /\ at[s] = "stage" /\ todo[s] # <<>> /\ Staged(todo[s][1])
  /\ todo' = [todo EXCEPT ![s] = Tail(@)]
  /\ UNCHANGED <<disk, staging, state, file, at, tool, stat, asked, reading, have, text, settling, usage, talk, setup, known>>

\* staging::write finds that it does not exist ...
Check(s) ==
  /\ at[s] = "stage" /\ todo[s] # <<>> /\ ~Staged(todo[s][1])
  /\ have' = [have EXCEPT ![s] = Pending(s)]
  /\ \/ Pending(s) < MaxStaged /\ at' = [at EXCEPT ![s] = "rename"] /\ UNCHANGED todo
     \/ /\ Pending(s) >= MaxStaged /\ ~Staged(StagingFull)
        /\ todo' = [todo EXCEPT ![s] = <<StagingFull>>] /\ at' = [at EXCEPT ![s] = "rename"]
     \/ /\ Pending(s) >= MaxStaged /\ Staged(StagingFull)
        /\ todo' = [todo EXCEPT ![s] = <<>>] /\ UNCHANGED at
  /\ UNCHANGED <<disk, staging, state, file, tool, stat, asked, reading, text, settling, usage, talk, setup, known>>

\* ... and renames it into place.
Rename(s) ==
  /\ Goes(s, "rename", "note") /\ pending' = pending \cup {todo[s][1]}
  /\ have' = [have EXCEPT ![s] = @ + 1]
  /\ UNCHANGED <<disk, dismissed, settled, state, file, tool, stat, asked, reading, todo, text, settling, usage, talk, setup, known>>

Note(s) ==
  /\ Goes(s, "note", "stage") /\ Put("exhaust", Other)
  /\ todo' = [todo EXCEPT ![s] = IF @[1] = StagingFull THEN <<>> ELSE Tail(@)]
  /\ UNCHANGED <<staging, state, file, tool, stat, asked, reading, have, text, settling, usage, talk, setup, known>>

\* stop_govern: that something is staged is a reminder.
Govern(s) ==
  /\ at[s] = "stage" /\ todo[s] = <<>> /\ at' = [at EXCEPT ![s] = "measure"]
  /\ have' = [have EXCEPT ![s] = -1]
  /\ Update(s, IF pending # {} THEN Queue(state[s], Staging) ELSE state[s])
  /\ UNCHANGED <<disk, staging, file, tool, stat, asked, reading, todo, text, settling, usage, talk, setup, known>>

FindWatermark(s) ==
  /\ at[s] = "measure" /\ Reads(s, "ledger") /\ UNCHANGED at
  /\ UNCHANGED <<disk, staging, state, file, tool, stat, asked, todo, have, text, settling, usage, talk, setup, known>>

Marks(s) == {i \in DOMAIN got[s] : got[s][i] # Torn /\ got[s][i].kind = "measured" /\ got[s][i].of = s}

\* A plausible bug: what cannot be found was never booked.
WatermarkGuessed(s) ==
  IF Marks(s) # {} THEN got[s][CHOOSE i \in Marks(s) : \A j \in Marks(s) : j <= i].sum ELSE 0

\* Found, Fresh, or Unknown: then as if all had been booked.
Watermark(s) ==
  IF Marks(s) # {} THEN got[s][CHOOSE i \in Marks(s) : \A j \in Marks(s) : j <= i].sum
  ELSE IF whole[s] THEN 0 ELSE counter[s]

\* book_measured: what is above the watermark, and the next one.
BookMeasured(s) ==
  LET above == counter[s] - Watermark(s)
  IN  /\ at[s] = "measure" /\ k[s] > 3 /\ at' = [at EXCEPT ![s] = "idle"] /\ Forget(s)
      /\ Put("ledger", Line("measured", s, IF above > 0 THEN above ELSE 0, counter[s]))
      /\ UNCHANGED <<staging, state, file, tool, stat, asked, todo, have, text, settling, usage, talk, setup, known>>
-----------------------------------------------------------------------------
(* What else happens.                                                      *)

\* A plausible bug: a settled candidate is deleted.
MovedDeleting(id) == pending' = pending \ {id} /\ UNCHANGED dismissed

\* staging::consume and dismiss.
Moved(id) == pending' = pending \ {id} /\ dismissed' = dismissed \cup {id}

Settle ==
  /\ settling.left = {} /\ Happens("settle")
  /\ \E id \in pending : settling' = [id |-> id, left |-> {"record", "move"}]
  /\ UNCHANGED <<disk, staging, state, file, at, locals, usage, talk, known>>

\* settle_candidates records the decision and then moves the file; the
\* command line moves it first.
Record ==
  /\ "record" \in settling.left /\ settling' = [settling EXCEPT !.left = @ \ {"record"}]
  /\ Put("exhaust", Line("consume", settling.id, 0, 0))
  /\ UNCHANGED <<staging, state, file, at, locals, usage, talk, setup, known>>

Move ==
  /\ "move" \in settling.left /\ settling' = [settling EXCEPT !.left = @ \ {"move"}]
  /\ Moved(settling.id) /\ settled' = settled \cup {settling.id}
  /\ UNCHANGED <<disk, state, file, at, locals, usage, talk, setup, known>>

\* Somebody else writes the file.
Edit ==
  /\ Happens("edit") /\ Saved({})
  /\ UNCHANGED <<disk, staging, state, at, locals, settling, usage, seen, misread, told, twice, known>>

\* A transcript is cut: its counter shrinks.
Rewind(s) ==
  /\ at[s] = "idle" /\ counter[s] > 0 /\ Happens("rewind")
  /\ \E n \in 0..(counter[s] - 1) : counter' = [counter EXCEPT ![s] = n]
  /\ UNCHANGED <<disk, staging, state, file, at, locals, settling, spent, talk, known>>

Idle(s) ==
  /\ at' = [at EXCEPT ![s] = "idle"] /\ tool' = [tool EXCEPT ![s] = "none"] /\ Unasked(s)
  /\ todo' = [todo EXCEPT ![s] = <<>>] /\ have' = [have EXCEPT ![s] = -1] /\ text' = [text EXCEPT ![s] = {}]
  /\ Forget(s)

\* The stream a hook is about to append to.
Appends(s) ==
  IF at[s] \in {"capture", "note"} \/ (at[s] = "window" /\ k[s] > 3) THEN {"exhaust"}
  ELSE IF at[s] \in {"selfread", "book"} \/ (at[s] = "measure" /\ k[s] > 3) THEN {"ledger"} ELSE {}

\* The harness kills a hook; but not those that begin or compact a session.
Kill(s) ==
  /\ at[s] \notin {"idle", "reset", "disarm"} /\ Happens("kill") /\ Idle(s)
  /\ \/ UNCHANGED streams
     \/ \E name \in Appends(s) : \E left \in Interrupted(streams[name], setup.cap) :
          streams' = [streams EXCEPT ![name] = left]
  /\ UNCHANGED <<appended, staging, state, file, settling, usage, talk, known>>

Hook(s) ==
  \/ \E t \in Tools : Tool(s, t)
  \/ Capture(s) \/ Cadence(s) \/ SelfRead(s) \/ Track(s)
  \/ Ask(s) \/ Advise(s) \/ Warn(s) \/ Breach(s) \/ Forbid(s)
  \/ Prompt(s) \/ Drain(s) \/ Say(s) \/ Book(s)
  \/ New(s) \/ Reset(s) \/ Resume(s) \/ Compact(s) \/ Disarm(s)
  \/ Stop(s) \/ ReadWindow(s) \/ Turn(s) \/ Skip(s) \/ Check(s) \/ Rename(s) \/ Note(s)
  \/ Govern(s) \/ FindWatermark(s) \/ BookMeasured(s) \/ Rewind(s) \/ Kill(s)

Next == Settle \/ Record \/ Move \/ Edit \/ \E s \in Sessions : Hook(s)

Spec == Init /\ [][Next]_vars
-----------------------------------------------------------------------------
Steps == {"idle", "capture", "cadence", "selfread", "track", "advise", "warn", "forbid", "drain", "say", "book",
          "reset", "disarm", "window", "stage", "rename", "note", "measure"}

DiskOK ==
  /\ streams \in [Names -> [files : [1..3 -> Seq(Lines \cup {Torn})], cut : BOOLEAN]]
  /\ appended \in [Names -> Nat]
StagingOK ==
  /\ pending \in SUBSET Ids /\ dismissed \in SUBSET Ids /\ settled \in SUBSET Ids
  /\ settling \in [id : Ids \cup {NoOne}, left : SUBSET {"record", "move"}]
  /\ todo \in [Sessions -> Seq(Ids)] /\ have \in [Sessions -> Nat \cup {-1}] /\ known \in [Sessions -> SUBSET Ids]
StateOK ==
  state \in [Sessions -> [compacted : BOOLEAN, read : Nat, warned : BOOLEAN, queued : SUBSET Keys,
                          shown : SUBSET Keys, events : Nat]]
FileOK ==
  /\ version \in Nat /\ mtime \in Nat /\ stat \in [Sessions -> Nat] /\ asked \in [Sessions -> Nat]
  /\ seen \in [Sessions -> Nat] /\ misread \in SUBSET Sessions /\ resaved \in SUBSET Sessions
TalkOK ==
  text \in [Sessions -> SUBSET Keys] /\ told \in [Sessions -> SUBSET Keys] /\ twice \in [Sessions -> SUBSET Keys]
ReadingOK ==
  got \in [Sessions -> Seq(Lines \cup {Torn})] /\ k \in [Sessions -> 1..4] /\ whole \in [Sessions -> BOOLEAN]
UsageOK == counter \in [Sessions -> Nat] /\ spent \in [Sessions -> Nat]
ControlOK ==
  /\ at \in [Sessions -> Steps] /\ tool \in [Sessions -> Tools \cup {"none"}]
  /\ setup \in [who : SUBSET Sessions, cap : Nat \ {0}, budget : [Events -> Nat]]
TypeOK == DiskOK /\ StagingOK /\ StateOK /\ FileOK /\ TalkOK /\ ReadingOK /\ UsageOK /\ ControlOK

\* An append that returned stays readable, in its place, until the retention
\* drops it and all that is older; a crash costs no line but its own.
RecordsKept ==
  \A name \in Names :
    LET stream == streams[name]
    IN  \A p \in Readable(stream) :
          /\ \A q \in Readable(stream) : Older(p, q) => At(stream, p).n < At(stream, q).n
          /\ \/ At(stream, p).n = appended[name]
             \/ \E q \in Readable(stream) : At(stream, q).n = At(stream, p).n + 1

\* What the lines of a file bill a session.
Delta(s, line) == IF line # Torn /\ line.of = s THEN line.delta ELSE 0
Bill(s, lines) ==
  LET upTo[i \in 0..Len(lines)] == IF i = 0 THEN 0 ELSE upTo[i - 1] + Delta(s, lines[i])
  IN  upTo[Len(lines)]

\* No session is ever billed for more than it spent, whatever is killed,
\* rotated away or out of sight.
NeverOverbooked ==
  \A s \in Sessions :
    LET f == streams["ledger"].files
    IN  Bill(s, f[1]) + Bill(s, f[2]) + Bill(s, f[3]) <= spent[s]

\* A warning that a file was read before, unchanged, is true: the
\* conversation remembers a full read of what was there when it asked; unless
\* the file was changed before that read was recorded, or since then to the
\* mtime that was recorded (an edit within the second).
HonestWarning ==
  \A s \in Sessions : at[s] = "warn" => seen[s] = asked[s] \/ s \in misread \cup resaved

\* A conversation is given a reminder once.  (The warning of a breach is
\* given at once and again with the next prompt.)
ToldOnce == \A s \in Sessions : twice[s] \subseteq {Forbids}

\* A Stop that begins when a candidate is settled does not bring it back.
SettledStays ==
  [][\A id \in pending' \ pending : \E s \in Sessions : at[s] = "rename" /\ todo[s][1] = id /\ id \notin known[s]]_vars
=============================================================================
