--------------------------- MODULE SessionsProofs ---------------------------
(* Proofs about Sessions, for any sessions, workloads and limits: the      *)
(* types, that a reminder is given once, that a warning is true, that what *)
(* was settled stays settled, that no line is lost, and that no session is *)
(* billed for more than it spent.                                          *)
EXTENDS Sessions, FiniteSetTheorems, SequenceTheorems, WellFoundedInduction, TLAPS

\* What a conversation was told its session remembers, until it is reset; and
\* what it is about to be told it was not told before.
Reminded(s) ==
  /\ state[s].queued \cap state[s].shown = {}
  /\ told[s] \subseteq state[s].shown \cup {Forbids}
  /\ at[s] = "reset" => told[s] = {}
  /\ text[s] # {} => at[s] = "say"
  /\ text[s] \subseteq state[s].shown \cup {Forbids} /\ text[s] \cap told[s] \subseteq {Forbids}
  /\ twice[s] \subseteq {Forbids}

\* A session that has recorded the mtime that the file has (or had, when it
\* asked) has a conversation that remembers the version it is (or was) of.
Sure(s) == s \notin misread \cup resaved
Recorded(s, time, v) ==
  ~state[s].compacted /\ state[s].read # 0 /\ state[s].read = time /\ Sure(s) => seen[s] = v
Remembered(s) ==
  /\ at[s] # "reset" => Recorded(s, mtime, version)
  /\ at[s] = "advise" => Recorded(s, stat[s], asked[s])
  /\ at[s] = "warn" /\ Sure(s) => seen[s] = asked[s]

\* What is about to be staged had not been settled when the Stop began.
Kept(s) ==
  /\ known[s] \subseteq settled /\ settled \subseteq dismissed
  /\ at[s] \in {"rename", "note"} => todo[s] # <<>>
  /\ at[s] = "rename" => todo[s][1] \notin known[s]
Settling == IsFiniteSet(pending) /\ (settling.left # {} => settling.id \in Ids)

\* The lines that parse, of a stream to which n were appended: their numbers
\* ascend, without a gap, up to the last.
Numbered(stream, n) ==
  \A p \in Readable(stream) :
    /\ \A q \in Readable(stream) : Older(p, q) => At(stream, p).n < At(stream, q).n
    /\ At(stream, p).n <= n
    /\ At(stream, p).n = n \/ \E q \in Readable(stream) : At(stream, q).n = At(stream, p).n + 1

\* The turns of a session that were booked and can be read, and the newest.
MarksIn(s, stream) == {p \in Readable(stream) : At(stream, p).kind = "measured" /\ At(stream, p).of = s}
Newest(s, stream, p) == p \in MarksIn(s, stream) /\ \A q \in MarksIn(s, stream) : ~Older(p, q)

\* Who is billed has a turn booked.
Billing(stream) == \A p \in Readable(stream) : At(stream, p).of \in Sessions => At(stream, p).kind = "measured"
Billed(s, stream) ==
  Bill(s, stream.files[1]) + Bill(s, stream.files[2]) + Bill(s, stream.files[3])

\* What is billed, and what the counter has above the newest mark, was spent.
Covers(s, ledger, now, total) ==
  /\ now <= total /\ Billed(s, ledger) <= total
  /\ \A p \in Readable(ledger) :
       Newest(s, ledger, p) => Billed(s, ledger) + now - At(ledger, p).sum <= total
Covered(s) == Covers(s, streams["ledger"], counter[s], spent[s])

\* A Stop that has not found a mark, though nothing has been out of sight so
\* far, can still find it in the files it has not read; the one it has found
\* is the newest.
Beyond(s, ledger, j) == \A p \in MarksIn(s, ledger) : p[1] >= j
LastIs(s, ledger, line) == \A p \in Readable(ledger) : Newest(s, ledger, p) => At(ledger, p) = line
Latest(N) == CHOOSE i \in N : \A j \in N : j <= i
LastMark(s) == Latest(Marks(s))
Looked(s) ==
  /\ Marks(s) = {} /\ (whole[s] \/ Len(got[s]) < Window) => Beyond(s, streams["ledger"], k[s])
  /\ Marks(s) # {} => LastIs(s, streams["ledger"], got[s][LastMark(s)])
Looks(s) ==
  /\ Len(got[s]) <= Window
  /\ at[s] \notin {"window", "measure"} => got[s] = <<>> /\ k[s] = 1 /\ whole[s]
  /\ at[s] = "measure" => Looked(s)

Session(s) == Reminded(s) /\ Remembered(s) /\ Kept(s)
Streaming == (\A name \in Names : Numbered(streams[name], appended[name])) /\ Billing(streams["ledger"])
Books(s) == Covered(s) /\ Looks(s)

IndInv == TypeOK /\ Settling /\ (\A s \in Sessions : Session(s)) /\ Streaming /\ (\A s \in Sessions : Books(s))
-----------------------------------------------------------------------------
(* Streams: what a rotation, a crash and an append make of the lines.      *)

Streams == [files : [1..3 -> Seq(Lines \cup {Torn})], cut : BOOLEAN]

\* Every line that parses is one of before, in the same order, no closer to
\* the live file; what is lost is older than all that is left.
Carries(S, T, m) ==
  /\ m \in [Readable(T) -> Readable(S)]
  /\ \A p \in Readable(T) : At(T, p) = At(S, m[p]) /\ m[p][1] <= p[1]
  /\ \A p, q \in Readable(T) : Older(p, q) <=> Older(m[p], m[q])
  /\ \A p \in Readable(T), q \in Readable(S) : Older(m[p], q) => \E r \in Readable(T) : m[r] = q
Carried(S, T) ==
  /\ \E m : Carries(S, T, m)
  /\ \A s \in Sessions : Billed(s, T) <= Billed(s, S)

LEMMA ReadableIs ==
  ASSUME NEW S \in Streams, NEW p
  PROVE  p \in Readable(S) <=>
           /\ p \in (1..3) \X Nat /\ p[2] \in 1..Len(S.files[p[1]])
           /\ S.files[p[1]][p[2]] # Torn
<1>1. \A j \in 1..3 : S.files[j] \in Seq(Lines \cup {Torn}) /\ DOMAIN S.files[j] = 1..Len(S.files[j]) /\ Len(S.files[j]) \in Nat
  BY DEF Streams
<1>2. ASSUME p \in Readable(S)
      PROVE  /\ p \in (1..3) \X Nat /\ p[2] \in 1..Len(S.files[p[1]])
             /\ S.files[p[1]][p[2]] # Torn
  <2>1. PICK j \in 1..3 : p \in {<<j, i>> : i \in {l \in DOMAIN S.files[j] : S.files[j][l] # Torn}}
    BY <1>2 DEF Readable
  <2>2. PICK i \in DOMAIN S.files[j] : p = <<j, i>> /\ S.files[j][i] # Torn
    BY <2>1
  <2> QED BY <1>1, <2>2
<1>3. ASSUME p \in (1..3) \X Nat, p[2] \in 1..Len(S.files[p[1]]), S.files[p[1]][p[2]] # Torn
      PROVE  p \in Readable(S)
  <2>1. PICK j \in 1..3, i \in Nat : p = <<j, i>>
    BY <1>3
  <2>2. i \in DOMAIN S.files[j] /\ S.files[j][i] # Torn
    BY <1>1, <1>3, <2>1
  <2>3. p \in {<<j, l>> : l \in {l \in DOMAIN S.files[j] : S.files[j][l] # Torn}}
    BY <2>1, <2>2
  <2> QED BY <2>3 DEF Readable
<1> QED BY <1>2, <1>3

LEMMA ReadableLine ==
  ASSUME NEW S \in Streams, NEW p \in Readable(S)
  PROVE  At(S, p) \in Lines
<1>1. p \in (1..3) \X Nat /\ p[2] \in 1..Len(S.files[p[1]]) /\ S.files[p[1]][p[2]] # Torn
  BY ReadableIs
<1>2. S.files[p[1]] \in Seq(Lines \cup {Torn})
  BY <1>1 DEF Streams
<1> QED BY <1>1, <1>2 DEF At

LEMMA OlderTotal ==
  ASSUME NEW S \in Streams, NEW p \in Readable(S), NEW q \in Readable(S)
  PROVE  /\ p # q => Older(p, q) \/ Older(q, p)
         /\ ~(Older(p, q) /\ Older(q, p)) /\ ~Older(p, p)
<1>1. p \in (1..3) \X Nat /\ q \in (1..3) \X Nat
  BY ReadableIs
<1> QED BY <1>1 DEF Older
-----------------------------------------------------------------------------
(* What the lines of a file bill.  Induction is by the least number at     *)
(* which something fails.                                                  *)

LEMMA Least ==
  ASSUME NEW N, N \subseteq Nat, N # {}
  PROVE  \E n \in N : \A i \in N : n <= i
<1>1. PICK n \in N : \A i \in N : <<i, n>> \notin OpToRel(<, Nat)
  BY NatLessThanWellFounded, WFMin
<1>2. \A i \in N : ~(i < n)
  BY <1>1 DEF OpToRel
<1> QED BY <1>2

AddsUp(s, lines, n, f) == f[0] = 0 /\ \A i \in 1..n : f[i] = f[i - 1] + Delta(s, lines[i])
Sums(s, lines, n, f) == f \in [0..n -> Nat] /\ AddsUp(s, lines, n, f)

LEMMA DeltaType ==
  ASSUME NEW s \in Sessions, NEW line \in Lines \cup {Torn}
  PROVE  Delta(s, line) \in Nat
BY DEF Delta, Lines

LEMMA SumsExist ==
  ASSUME NEW s \in Sessions, NEW lines \in Seq(Lines \cup {Torn}), NEW n \in 0..Len(lines)
  PROVE  \E f : Sums(s, lines, n, f)
<1> DEFINE N == {i \in 0..Len(lines) : ~\E f : Sums(s, lines, i, f)}
<1> SUFFICES ASSUME N # {} PROVE FALSE
  OBVIOUS
<1>1. PICK i \in N : \A j \in N : i <= j
  <2> HIDE DEF N
  <2> SUFFICES N \subseteq Nat
    BY Least
  <2> QED BY DEF N
<1>2. CASE i = 0
  <2>1. Sums(s, lines, 0, [j \in 0..0 |-> 0])
    BY DEF Sums, AddsUp
  <2> QED BY <1>2, <2>1
<1>3. CASE i # 0
  <2>1. i \in Nat /\ i - 1 \in 0..Len(lines) /\ i - 1 \notin N
    BY <1>1, <1>3
  <2>2. PICK f : Sums(s, lines, i - 1, f)
    BY <2>1
  <2> DEFINE g == [j \in 0..i |-> IF j = i THEN f[i - 1] + Delta(s, lines[i]) ELSE f[j]]
  <2>3. Delta(s, lines[i]) \in Nat
    BY <1>1, <1>3, DeltaType
  <2>4. g \in [0..i -> Nat]
    BY <2>1, <2>2, <2>3 DEF Sums, AddsUp
  <2>5. Sums(s, lines, i, g)
    BY <1>3, <2>1, <2>2, <2>4 DEF Sums, AddsUp
  <2> QED BY <2>5
<1> QED BY <1>2, <1>3

LEMMA SumsUnique ==
  ASSUME NEW s \in Sessions, NEW l1, NEW l2, NEW n \in Nat, NEW f, NEW g,
         \A i \in 1..n : l1[i] = l2[i], AddsUp(s, l1, n, f), AddsUp(s, l2, n, g)
  PROVE  \A i \in 0..n : f[i] = g[i]
<1> DEFINE N == {i \in 0..n : f[i] # g[i]}
<1> SUFFICES ASSUME N # {} PROVE FALSE
  OBVIOUS
<1>1. PICK i \in N : \A x \in N : i <= x
  <2> HIDE DEF N
  <2> SUFFICES N \subseteq Nat
    BY Least
  <2> QED BY DEF N
<1>2. i \in 1..n /\ f[i - 1] = g[i - 1]
  BY <1>1 DEF Sums, AddsUp
<1> QED BY <1>1, <1>2 DEF Sums, AddsUp

LEMMA BillIs ==
  ASSUME NEW s \in Sessions, NEW lines \in Seq(Lines \cup {Torn}), NEW f, Sums(s, lines, Len(lines), f)
  PROVE  Bill(s, lines) = f[Len(lines)]
<1> DEFINE F(h) == [i \in 0..Len(lines) |-> IF i = 0 THEN 0 ELSE h[i - 1] + Delta(s, lines[i])]
           upTo == CHOOSE h : h = F(h)
<1>1. Len(lines) \in Nat
  OBVIOUS
<1>2. f = F(f)
  <2>1. f \in [0..Len(lines) -> Nat]
    BY DEF Sums, AddsUp
  <2>2. \A i \in 0..Len(lines) : f[i] = F(f)[i]
    BY <1>1 DEF Sums, AddsUp
  <2> QED BY <2>1, <2>2
<1>3. upTo = F(upTo)
  BY <1>2
<1>4. AddsUp(s, lines, Len(lines), upTo)
  <2> HIDE DEF upTo
  <2>1. \A i \in 0..Len(lines) : upTo[i] = IF i = 0 THEN 0 ELSE upTo[i - 1] + Delta(s, lines[i])
    BY <1>3
  <2> QED BY <1>1, <2>1 DEF AddsUp
<1>5. f[Len(lines)] = upTo[Len(lines)]
  <2> HIDE DEF upTo
  <2>1. AddsUp(s, lines, Len(lines), f)
    BY DEF Sums
  <2> QED BY <1>1, <1>4, <2>1, SumsUnique
<1> QED BY <1>5 DEF Bill

LEMMA BillEmpty ==
  ASSUME NEW s \in Sessions
  PROVE  Bill(s, <<>>) = 0
<1>1. <<>> \in Seq(Lines \cup {Torn}) /\ Len(<<>>) = 0 /\ 0 \in 0..Len(<<>>)
  BY EmptySeq
<1>2. PICK f : Sums(s, <<>>, Len(<<>>), f)
  BY <1>1, SumsExist
<1> QED BY <1>1, <1>2, BillIs DEF Sums, AddsUp

LEMMA BillType ==
  ASSUME NEW s \in Sessions, NEW lines \in Seq(Lines \cup {Torn})
  PROVE  Bill(s, lines) \in Nat
<1>1. Len(lines) \in Nat
  OBVIOUS
<1>2. PICK f : Sums(s, lines, Len(lines), f)
  BY <1>1, SumsExist
<1> QED BY <1>1, <1>2, BillIs DEF Sums, AddsUp

LEMMA BillAppend ==
  ASSUME NEW s \in Sessions, NEW lines \in Seq(Lines \cup {Torn}), NEW line \in Lines \cup {Torn}
  PROVE  Bill(s, Append(lines, line)) = Bill(s, lines) + Delta(s, line)
<1> DEFINE l2 == Append(lines, line)
           n == Len(lines)
<1>1. /\ n \in Nat /\ l2 \in Seq(Lines \cup {Torn}) /\ Len(l2) = n + 1
      /\ l2[n + 1] = line /\ \A i \in 1..n : l2[i] = lines[i]
  BY AppendProperties
<1>2. PICK f : Sums(s, lines, n, f)
  BY <1>1, SumsExist
<1>3. PICK g : Sums(s, l2, n + 1, g)
  <2> HIDE DEF l2
  <2>1. n + 1 \in 0..Len(l2)
    BY <1>1
  <2> QED BY <1>1, <2>1, SumsExist
<1> HIDE DEF l2
<1>4. f[n] = g[n]
  <2>1. AddsUp(s, lines, n, f) /\ AddsUp(s, l2, n, g)
    BY <1>1, <1>2, <1>3 DEF Sums, AddsUp
  <2>2. n \in 0..n /\ \A i \in 1..n : lines[i] = l2[i]
    BY <1>1
  <2> HIDE DEF n
  <2> QED BY <1>1, <2>1, <2>2, SumsUnique
<1>5. g[n + 1] = g[n] + Delta(s, line)
  BY <1>1, <1>3 DEF Sums, AddsUp
<1>6. Bill(s, lines) = f[n] /\ Bill(s, l2) = g[n + 1]
  BY <1>1, <1>2, <1>3, BillIs
<1> QED BY <1>4, <1>5, <1>6 DEF l2

LEMMA BillNothing ==
  ASSUME NEW s \in Sessions, NEW lines \in Seq(Lines \cup {Torn}), \A i \in 1..Len(lines) : Delta(s, lines[i]) = 0
  PROVE  Bill(s, lines) = 0
<1> DEFINE n == Len(lines)
           g == [i \in 0..n |-> 0]
<1>1. n \in Nat
  OBVIOUS
<1>2. Sums(s, lines, n, g)
  <2>1. g \in [0..n -> Nat] /\ g[0] = 0
    BY <1>1
  <2>2. \A i \in 1..n : g[i] = g[i - 1] + Delta(s, lines[i])
    BY <1>1
  <2> QED BY <2>1, <2>2 DEF Sums, AddsUp
<1>3. Bill(s, lines) = g[n]
  BY <1>2, BillIs
<1> QED BY <1>1, <1>3
-----------------------------------------------------------------------------
(* What an append and its rotation carry over.                             *)

LEMMA BilledType ==
  ASSUME NEW s \in Sessions, NEW S \in Streams
  PROVE  Billed(s, S) \in Nat
<1>1. \A i \in 1..3 : S.files[i] \in Seq(Lines \cup {Torn})
  BY DEF Streams
<1>2. \A i \in 1..3 : Bill(s, S.files[i]) \in Nat
  BY <1>1, BillType
<1> QED BY <1>2 DEF Billed

LEMMA CarriedSame ==
  ASSUME NEW S \in Streams, NEW T \in Streams, T.files = S.files
  PROVE  Carried(S, T)
<1>1. Readable(T) = Readable(S) /\ \A p : At(T, p) = At(S, p)
  BY DEF Readable, At
<1>2. \A p \in Readable(S) : p[1] \in 1..3
  BY ReadableIs
<1>3. Carries(S, T, [p \in Readable(T) |-> p])
  BY <1>1, <1>2 DEF Carries
<1>4. \A s \in Sessions : Billed(s, T) = Billed(s, S) /\ Billed(s, T) \in Nat
  BY BilledType DEF Billed
<1> QED BY <1>3, <1>4 DEF Carried

LEMMA ShiftedType ==
  ASSUME NEW S \in Streams, NEW j \in 0..3
  PROVE  /\ Shifted(S, j) \in Streams
         /\ j = 0 => Shifted(S, j) = S
         /\ j = 1 => Shifted(S, j).files = << S.files[1], S.files[2], <<>> >>
         /\ j = 2 => Shifted(S, j).files = << S.files[1], <<>>, S.files[2] >>
         /\ j = 3 => Shifted(S, j).files = << <<>>, S.files[1], S.files[2] >>
<1> DEFINE Text == Seq(Lines \cup {Torn})
<1>1. <<>> \in Text /\ S.files[1] \in Text /\ S.files[2] \in Text /\ S.files \in [1..3 -> Text] /\ S.cut \in BOOLEAN
  BY EmptySeq DEF Streams
<1> HIDE DEF Text
<1>2. \A a, b, c \in Text : << a, b, c >> \in [1..3 -> Text]
  OBVIOUS
<1>3. Streams = [files : [1..3 -> Text], cut : BOOLEAN]
  BY DEF Streams, Text
<1>4. CASE j = 0
  BY <1>4 DEF Shifted
<1>5. CASE j = 1
  BY <1>1, <1>2, <1>3, <1>5 DEF Shifted
<1>6. CASE j = 2
  BY <1>1, <1>2, <1>3, <1>6 DEF Shifted
<1>7. CASE j = 3
  BY <1>1, <1>2, <1>3, <1>7 DEF Shifted
<1> QED BY <1>4, <1>5, <1>6, <1>7

LEMMA ShiftedCarried ==
  ASSUME NEW S \in Streams, NEW j \in 0..3
  PROVE  Shifted(S, j) \in Streams /\ Carried(S, Shifted(S, j))
<1> DEFINE T == Shifted(S, j)
           from == [p \in Readable(T) |-> IF j = 3 \/ (j = 2 /\ p[1] = 3) THEN <<p[1] - 1, p[2]>> ELSE p]
<1>1. T \in Streams
  BY ShiftedType
<1>2. CASE j = 0
  BY <1>1, <1>2, CarriedSame, ShiftedType
<1>3. CASE j # 0
  <2> USE <1>3
  <2>1. /\ j = 1 => T.files[1] = S.files[1] /\ T.files[2] = S.files[2] /\ T.files[3] = <<>>
        /\ j = 2 => T.files[1] = S.files[1] /\ T.files[2] = <<>> /\ T.files[3] = S.files[2]
        /\ j = 3 => T.files[1] = <<>> /\ T.files[2] = S.files[1] /\ T.files[3] = S.files[2]
    BY ShiftedType
  <2>2. j \in 1..3
    OBVIOUS
  <2> HIDE DEF T
  <2>3. \A p \in Readable(T) :
          /\ p \in (1..3) \X Nat /\ p[2] \in 1..Len(T.files[p[1]]) /\ T.files[p[1]][p[2]] # Torn
          /\ T.files[p[1]] # <<>>
    <3>1. Len(<<>>) = 0
      BY EmptySeq
    <3> QED BY <1>1, <3>1, ReadableIs
  <2>4. \A p \in Readable(T) :
          /\ from[p] \in (1..3) \X Nat /\ from[p][2] = p[2] /\ from[p][1] <= p[1]
          /\ S.files[from[p][1]] = T.files[p[1]]
          /\ from[p][1] = IF j = 3 \/ (j = 2 /\ p[1] = 3) THEN p[1] - 1 ELSE p[1]
          /\ from[p][1] \in 1..3 /\ from[p][2] \in Nat /\ p[1] \in 1..3 /\ p[2] \in Nat
    BY <2>1, <2>2, <2>3
  <2>5. \A p \in Readable(T) : from[p] \in Readable(S) /\ At(S, from[p]) = At(T, p)
    BY <2>3, <2>4, ReadableIs DEF At
  <2>6. \A p, q \in Readable(T) : Older(p, q) <=> Older(from[p], from[q])
    <3> SUFFICES ASSUME NEW p \in Readable(T), NEW q \in Readable(T)
                 PROVE  Older(p, q) <=> Older(from[p], from[q])
      OBVIOUS
    <3>1. j = 2 => p[1] # 2 /\ q[1] # 2
      BY <2>1, <2>3
    <3>2. p[1] \in 1..3 /\ p[2] \in Nat /\ q[1] \in 1..3 /\ q[2] \in Nat
      BY <2>3
    <3> HIDE DEF from
    <3> QED BY <2>2, <2>4, <3>1, <3>2 DEF Older
  <2>7. ASSUME NEW p \in Readable(T), NEW q \in Readable(S), Older(from[p], q)
        PROVE  \E r \in Readable(T) : from[r] = q
    <3> DEFINE r == IF j = 3 \/ (j = 2 /\ q[1] = 2) THEN <<q[1] + 1, q[2]>> ELSE q
    <3>1. q \in (1..3) \X Nat /\ q[2] \in 1..Len(S.files[q[1]]) /\ S.files[q[1]][q[2]] # Torn
      BY ReadableIs
    <3>2. from[p][1] >= q[1]
      <4> HIDE DEF from
      <4> QED BY <2>4, <2>7, <3>1 DEF Older
    <3>3. j = 2 => p[1] # 2
      BY <2>1, <2>3
    <3>4. from[p][1] \in 1..2
      <4>1. p[1] \in 1..3 /\ (j = 1 => p[1] # 3) /\ (j = 3 => p[1] # 1)
        BY <2>1, <2>3
      <4> HIDE DEF from
      <4> QED BY <2>2, <2>4, <4>1
    <3>5. q[1] \in 1..2 /\ q[2] \in Nat /\ q = <<q[1], q[2]>>
      BY <3>1, <3>2, <3>4
    <3>6. r \in (1..3) \X Nat /\ r[2] = q[2] /\ T.files[r[1]] = S.files[q[1]] /\ r = <<r[1], r[2]>>
      BY <2>1, <2>2, <3>5
    <3>7. r \in Readable(T)
      BY <1>1, <3>1, <3>6, ReadableIs
    <3>8. from[r] = q
      BY <2>2, <3>5, <3>7
    <3> QED BY <3>7, <3>8
  <2>8. Carries(S, T, from)
    <3> HIDE DEF from
    <3>1. from \in [Readable(T) -> Readable(S)]
      BY <2>5 DEF from
    <3> QED BY <2>4, <2>5, <2>6, <2>7, <3>1 DEF Carries
  <2>9. \A s \in Sessions : Billed(s, T) <= Billed(s, S)
    <3> SUFFICES ASSUME NEW s \in Sessions PROVE Billed(s, T) <= Billed(s, S)
      OBVIOUS
    <3>1. \A i \in 1..3 : Bill(s, S.files[i]) \in Nat
      BY BillType DEF Streams
    <3>2. Bill(s, <<>>) = 0
      BY BillEmpty
    <3> QED BY <2>1, <2>2, <3>1, <3>2 DEF Billed
  <2>10. Carried(S, T)
    <3> HIDE DEF from
    <3> QED BY <2>8, <2>9 DEF Carried
  <2> QED BY <1>1, <2>10 DEF T
<1> QED BY <1>1, <1>2, <1>3

LEMMA CarriedTwice ==
  ASSUME NEW S \in Streams, NEW R \in Streams, NEW T \in Streams, Carried(S, R), Carried(R, T)
  PROVE  Carried(S, T)
<1>1. PICK a : Carries(S, R, a)
  BY DEF Carried
<1>2. PICK b : Carries(R, T, b)
  BY DEF Carried
<1> DEFINE m == [p \in Readable(T) |-> a[b[p]]]
<1>3. \A p \in Readable(T) : b[p] \in Readable(R) /\ a[b[p]] \in Readable(S)
  BY <1>1, <1>2 DEF Carries
<1>4. \A p \in Readable(T) : p[1] \in 1..3 /\ b[p][1] \in 1..3 /\ a[b[p]][1] \in 1..3
  BY <1>3, ReadableIs
<1>5. m \in [Readable(T) -> Readable(S)]
  BY <1>3
<1>6. \A p \in Readable(T) : At(T, p) = At(S, m[p]) /\ m[p][1] <= p[1]
  BY <1>1, <1>2, <1>3, <1>4 DEF Carries
<1>7. \A p, q \in Readable(T) : Older(p, q) <=> Older(m[p], m[q])
  BY <1>1, <1>2, <1>3 DEF Carries
<1>8. ASSUME NEW p \in Readable(T), NEW q \in Readable(S), Older(m[p], q)
      PROVE  \E r \in Readable(T) : m[r] = q
  <2>1. PICK x \in Readable(R) : a[x] = q
    BY <1>1, <1>3, <1>8 DEF Carries
  <2>2. Older(b[p], x)
    BY <1>1, <1>3, <1>8, <2>1 DEF Carries
  <2>3. PICK r \in Readable(T) : b[r] = x
    BY <1>2, <2>2 DEF Carries
  <2> QED BY <2>1, <2>3
<1>9. Carries(S, T, m)
  <2> HIDE DEF m
  <2> QED BY <1>5, <1>6, <1>7, <1>8 DEF Carries
<1>10. \A s \in Sessions : Billed(s, T) <= Billed(s, S)
  <2> SUFFICES ASSUME NEW s \in Sessions PROVE Billed(s, T) <= Billed(s, S)
    OBVIOUS
  <2>1. Billed(s, S) \in Nat /\ Billed(s, R) \in Nat /\ Billed(s, T) \in Nat
    BY BilledType
  <2> QED BY <2>1 DEF Carried
<1> QED BY <1>9, <1>10 DEF Carried

\* A line at the end of the live file, and its place.
Extended(S, line) == [files |-> [S.files EXCEPT ![1] = Append(@, line)], cut |-> FALSE]
End(S) == <<1, Len(S.files[1]) + 1>>

LEMMA ExtendsIs ==
  ASSUME NEW S \in Streams, NEW line \in Lines \cup {Torn}
  PROVE  /\ Extended(S, line) \in Streams
         /\ Readable(Extended(S, line)) = Readable(S) \cup (IF line = Torn THEN {} ELSE {End(S)})
         /\ \A p \in Readable(S) : At(Extended(S, line), p) = At(S, p) /\ Older(p, End(S))
         /\ At(Extended(S, line), End(S)) = line
         /\ \A s \in Sessions : Billed(s, Extended(S, line)) = Billed(s, S) + Delta(s, line)
<1> DEFINE T == Extended(S, line)
           n == Len(S.files[1])
           live == Append(S.files[1], line)
<1>1. /\ \A j \in 1..3 : S.files[j] \in Seq(Lines \cup {Torn})
      /\ S.files \in [1..3 -> Seq(Lines \cup {Torn})] /\ n \in Nat
  BY DEF Streams
<1>2. /\ live \in Seq(Lines \cup {Torn}) /\ Len(live) = n + 1 /\ live[n + 1] = line
      /\ \A i \in 1..n : live[i] = S.files[1][i]
  BY <1>1, AppendProperties
<1> HIDE DEF live
<1>3. T.files[1] = live /\ T.files[2] = S.files[2] /\ T.files[3] = S.files[3]
  BY <1>1 DEF Extended, live
<1>4. T \in Streams
  BY <1>1, <1>2 DEF Streams, Extended, live
<1> HIDE DEF T
<1>5. \A p : p \in Readable(T) <=> p \in Readable(S) \cup (IF line = Torn THEN {} ELSE {End(S)})
  <2> SUFFICES ASSUME NEW p
               PROVE  p \in Readable(T) <=> p \in Readable(S) \/ (line # Torn /\ p = End(S))
    OBVIOUS
  <2>1. p \in Readable(S) <=> p \in (1..3) \X Nat /\ p[2] \in 1..Len(S.files[p[1]]) /\ S.files[p[1]][p[2]] # Torn
    BY ReadableIs
  <2>2. p \in Readable(T) <=> p \in (1..3) \X Nat /\ p[2] \in 1..Len(T.files[p[1]]) /\ T.files[p[1]][p[2]] # Torn
    BY <1>4, ReadableIs
  <2>3. CASE p \in (1..3) \X Nat /\ p[1] = 1 /\ p[2] # n + 1
    <3>1. p # End(S) /\ (p[2] \in 1..n + 1 <=> p[2] \in 1..n)
      BY <1>1, <2>3 DEF End
    <3> QED BY <1>2, <1>3, <2>1, <2>2, <2>3, <3>1
  <2>4. CASE p = End(S)
    <3>1. p \in (1..3) \X Nat /\ p[1] = 1 /\ p[2] = n + 1 /\ p[2] \in 1..n + 1 /\ p[2] \notin 1..n
      BY <1>1, <2>4 DEF End
    <3> QED BY <1>2, <1>3, <2>1, <2>2, <2>4, <3>1
  <2>5. CASE p \in (1..3) \X Nat /\ p[1] # 1
    <3>1. p # End(S) /\ p[1] \in 2..3
      BY <2>5 DEF End
    <3> QED BY <1>3, <2>1, <2>2, <2>5, <3>1
  <2>6. CASE p \notin (1..3) \X Nat
    BY <1>1, <2>1, <2>2, <2>6 DEF End
  <2>7. p \in (1..3) \X Nat /\ p[1] = 1 /\ p[2] = n + 1 => p = End(S)
    BY DEF End
  <2> QED BY <2>3, <2>4, <2>5, <2>6, <2>7
<1>6. ASSUME NEW p \in Readable(S) PROVE At(T, p) = At(S, p) /\ Older(p, End(S))
  <2>1. p \in (1..3) \X Nat /\ p[2] \in 1..Len(S.files[p[1]])
    BY ReadableIs
  <2>2. CASE p[1] = 1
    BY <1>1, <1>2, <1>3, <2>1, <2>2 DEF At, Older, End
  <2>3. CASE p[1] # 1
    BY <1>1, <1>3, <2>1, <2>3 DEF At, Older, End
  <2> QED BY <2>2, <2>3
<1>7. At(T, End(S)) = line
  BY <1>1, <1>2, <1>3 DEF At, End
<1>8. ASSUME NEW s \in Sessions PROVE Billed(s, T) = Billed(s, S) + Delta(s, line)
  <2>1. Bill(s, live) = Bill(s, S.files[1]) + Delta(s, line)
    BY <1>1, BillAppend DEF live
  <2>2. \A i \in 1..3 : Bill(s, S.files[i]) \in Nat
    BY <1>1, BillType
  <2>3. Delta(s, line) \in Nat
    BY DeltaType
  <2> QED BY <1>3, <2>1, <2>2, <2>3 DEF Billed
<1>9. Readable(T) = Readable(S) \cup (IF line = Torn THEN {} ELSE {End(S)})
  BY <1>5
<1> QED BY <1>4, <1>6, <1>7, <1>8, <1>9 DEF T

LEMMA ExtendedLine ==
  ASSUME NEW S \in Streams, NEW line \in Lines
  PROVE  /\ Extended(S, line) \in Streams
         /\ Readable(Extended(S, line)) = Readable(S) \cup {End(S)}
         /\ \A p \in Readable(S) : At(Extended(S, line), p) = At(S, p) /\ Older(p, End(S))
         /\ At(Extended(S, line), End(S)) = line
         /\ \A s \in Sessions :
              /\ Billed(s, Extended(S, line)) = Billed(s, S) + Delta(s, line)
              /\ Delta(s, line) = IF line.of = s THEN line.delta ELSE 0
<1>1. line # Torn /\ line \in Lines \cup {Torn}
  BY SessionsAssumption
<1>2. \A s \in Sessions : Delta(s, line) = IF line.of = s THEN line.delta ELSE 0
  BY <1>1 DEF Delta
<1>3. \A s \in Sessions : Billed(s, Extended(S, line)) = Billed(s, S) + Delta(s, line)
  BY <1>1, ExtendsIs
<1> QED BY <1>1, <1>2, <1>3, ExtendsIs

LEMMA RotatedCarried ==
  ASSUME NEW S \in Streams, NEW cap \in Nat
  PROVE  Rotated(S, cap) \in Streams /\ Carried(S, Rotated(S, cap))
<1>1. Rotated(S, cap) = Shifted(S, 0) \/ Rotated(S, cap) = Shifted(S, 3)
  BY DEF Rotated
<1> QED BY <1>1, ShiftedCarried

LEMMA InterruptedCarried ==
  ASSUME NEW S \in Streams, NEW cap \in Nat, NEW T \in Interrupted(S, cap)
  PROVE  T \in Streams /\ Carried(S, T)
<1> DEFINE R == Rotated(S, cap)
<1>1. R \in Streams /\ Carried(S, R)
  BY RotatedCarried
<1>2. CASE T = S
  BY <1>2, CarriedSame
<1>3. CASE T = R
  BY <1>1, <1>3
<1>4. CASE T = [R EXCEPT !.cut = FALSE]
  <2> HIDE DEF R
  <2>1. T \in Streams /\ T.files = R.files
    BY <1>1, <1>4 DEF Streams
  <2>2. Carried(R, T)
    BY <1>1, <2>1, CarriedSame
  <2> QED BY <1>1, <2>1, <2>2, CarriedTwice
<1>5. CASE T = [Written(S, cap, Torn) EXCEPT !.cut = TRUE]
  <2> DEFINE X == Extended(R, Torn)
  <2>1. T = [X EXCEPT !.cut = TRUE]
    BY <1>5 DEF Written, Extended
  <2> HIDE DEF R
  <2>2. /\ X \in Streams /\ Readable(X) = Readable(R) \cup {}
        /\ \A p \in Readable(R) : At(X, p) = At(R, p)
        /\ \A s \in Sessions : Billed(s, X) = Billed(s, R) + Delta(s, Torn)
    BY <1>1, ExtendsIs
  <2> HIDE DEF X
  <2>3. \A p \in Readable(R) : p[1] \in 1..3
    BY <1>1, ReadableIs
  <2>4. Carries(R, X, [p \in Readable(X) |-> p])
    BY <2>2, <2>3 DEF Carries
  <2>5. \A s \in Sessions : Billed(s, X) <= Billed(s, R)
    BY <1>1, <2>2, BilledType DEF Delta
  <2>6. Carried(R, X)
    BY <2>4, <2>5 DEF Carried
  <2>7. T \in Streams /\ T.files = X.files
    BY <2>1, <2>2 DEF Streams
  <2>8. Carried(X, T)
    BY <2>2, <2>7, CarriedSame
  <2>9. Carried(R, T)
    BY <1>1, <2>2, <2>6, <2>7, <2>8, CarriedTwice
  <2> QED BY <1>1, <2>7, <2>9, CarriedTwice
<1>6. CASE T \in {Shifted(S, j) : j \in 1..3}
  BY <1>6, ShiftedCarried
<1> QED BY <1>2, <1>3, <1>4, <1>5, <1>6 DEF Interrupted

LEMMA NumberedCarried ==
  ASSUME NEW S \in Streams, NEW T \in Streams, NEW n \in Nat, Carried(S, T), Numbered(S, n)
  PROVE  Numbered(T, n)
<1>1. PICK m : Carries(S, T, m)
  BY DEF Carried
<1>2. \A p \in Readable(T) : m[p] \in Readable(S) /\ At(T, p) = At(S, m[p])
  BY <1>1 DEF Carries
<1>3. \A p \in Readable(S) : At(S, p).n \in Nat
  BY ReadableLine DEF Lines
<1> SUFFICES ASSUME NEW p \in Readable(T)
             PROVE  /\ \A q \in Readable(T) : Older(p, q) => At(T, p).n < At(T, q).n
                    /\ At(T, p).n <= n
                    /\ At(T, p).n = n \/ \E q \in Readable(T) : At(T, q).n = At(T, p).n + 1
  BY DEF Numbered
<1>4. ASSUME NEW q \in Readable(T), Older(p, q) PROVE At(T, p).n < At(T, q).n
  BY <1>1, <1>2, <1>4 DEF Numbered, Carries
<1>5. At(T, p).n <= n
  BY <1>2 DEF Numbered
<1>6. ASSUME At(T, p).n # n PROVE \E q \in Readable(T) : At(T, q).n = At(T, p).n + 1
  <2>1. PICK x \in Readable(S) : At(S, x).n = At(S, m[p]).n + 1
    BY <1>2, <1>6 DEF Numbered
  <2>2. At(S, x).n \in Nat /\ At(S, m[p]).n \in Nat
    BY <1>2, <1>3
  <2>3. x # m[p] /\ ~Older(x, m[p])
    BY <1>2, <2>1, <2>2 DEF Numbered
  <2>4. Older(m[p], x)
    BY <1>2, <2>3, OlderTotal
  <2>5. PICK q \in Readable(T) : m[q] = x
    BY <1>1, <2>4 DEF Carries
  <2> QED BY <1>2, <2>1, <2>5
<1> QED BY <1>4, <1>5, <1>6

LEMMA NumberedExtended ==
  ASSUME NEW S \in Streams, NEW n \in Nat, NEW line \in Lines, line.n = n + 1, Numbered(S, n)
  PROVE  Numbered(Extended(S, line), n + 1)
<1> DEFINE T == Extended(S, line)
<1>2. /\ T \in Streams /\ Readable(T) = Readable(S) \cup {End(S)} /\ At(T, End(S)) = line
      /\ \A p \in Readable(S) : At(T, p) = At(S, p) /\ Older(p, End(S))
  BY ExtendedLine
<1> HIDE DEF T
<1>3. \A p \in Readable(S) : At(S, p).n \in Nat
  BY ReadableLine DEF Lines
<1>4. ASSUME NEW p \in Readable(S)
      PROVE  /\ \A q \in Readable(T) : Older(p, q) => At(T, p).n < At(T, q).n
             /\ At(T, p).n <= n + 1
             /\ At(T, p).n = n + 1 \/ \E q \in Readable(T) : At(T, q).n = At(T, p).n + 1
  <2>1. At(S, p).n <= n /\ At(S, p).n \in Nat /\ At(T, p).n = At(S, p).n
    BY <1>2, <1>3 DEF Numbered
  <2>2. \A q \in Readable(S) : Older(p, q) => At(T, p).n < At(T, q).n
    BY <1>2 DEF Numbered
  <2>3. At(T, p).n < At(T, End(S)).n
    BY <1>2, <2>1
  <2>4. At(T, p).n = n \/ \E q \in Readable(S) : At(T, q).n = At(T, p).n + 1
    BY <1>2 DEF Numbered
  <2> QED BY <1>2, <2>1, <2>2, <2>3, <2>4
<1>5. \A q \in Readable(T) : ~Older(End(S), q)
  <2>1. End(S) \in Readable(T)
    BY <1>2
  <2>2. ~Older(End(S), End(S))
    BY <1>2, <2>1, OlderTotal
  <2>3. \A q \in Readable(S) : ~Older(End(S), q)
    BY <1>2, <2>1, OlderTotal
  <2> QED BY <1>2, <2>2, <2>3
<1>6. At(T, End(S)).n = n + 1
  BY <1>2
<1>7. Numbered(T, n + 1)
  BY <1>2, <1>4, <1>5, <1>6 DEF Numbered
<1> QED BY <1>7 DEF T

LEMMA BillingCarried ==
  ASSUME NEW S \in Streams, NEW T \in Streams, Carried(S, T), Billing(S)
  PROVE  Billing(T)
BY DEF Carried, Carries, Billing

LEMMA BillingExtended ==
  ASSUME NEW S \in Streams, NEW line \in Lines, line.of \in Sessions => line.kind = "measured", Billing(S)
  PROVE  Billing(Extended(S, line))
<1>2. /\ Readable(Extended(S, line)) = Readable(S) \cup {End(S)} /\ At(Extended(S, line), End(S)) = line
      /\ \A p \in Readable(S) : At(Extended(S, line), p) = At(S, p)
  BY ExtendedLine
<1> QED BY <1>2 DEF Billing

LEMMA NewestCarried ==
  ASSUME NEW s, NEW S \in Streams, NEW T \in Streams, NEW m, Carries(S, T, m),
         NEW p \in Readable(T), Newest(s, T, p)
  PROVE  m[p] \in Readable(S) /\ Newest(s, S, m[p]) /\ At(T, p) = At(S, m[p])
<1>1. \A q \in Readable(T) : m[q] \in Readable(S) /\ At(T, q) = At(S, m[q])
  BY DEF Carries
<1>2. m[p] \in MarksIn(s, S)
  BY <1>1 DEF Newest, MarksIn
<1>3. ASSUME NEW q \in MarksIn(s, S), Older(m[p], q) PROVE FALSE
  <2>1. PICK r \in Readable(T) : m[r] = q
    BY <1>3 DEF Carries, MarksIn
  <2>2. r \in MarksIn(s, T)
    BY <1>1, <2>1 DEF MarksIn
  <2>3. Older(p, r)
    BY <1>3, <2>1 DEF Carries
  <2> QED BY <2>2, <2>3 DEF Newest
<1> QED BY <1>1, <1>2, <1>3 DEF Newest

\* A line that books nothing of a session leaves its newest mark.
LEMMA NewestExtended ==
  ASSUME NEW s, NEW S \in Streams, NEW line \in Lines, line.of # s
  PROVE  \A p : Newest(s, Extended(S, line), p) =>
           p \in Readable(S) /\ Newest(s, S, p) /\ At(Extended(S, line), p) = At(S, p)
<1> DEFINE T == Extended(S, line)
<1>2. /\ T \in Streams /\ Readable(T) = Readable(S) \cup {End(S)} /\ At(T, End(S)) = line
      /\ \A q \in Readable(S) : At(T, q) = At(S, q)
  BY ExtendedLine
<1> HIDE DEF T
<1>3. MarksIn(s, T) = MarksIn(s, S)
  BY <1>2 DEF MarksIn
<1>5. \A p : Newest(s, T, p) => p \in Readable(S) /\ Newest(s, S, p) /\ At(T, p) = At(S, p)
  BY <1>2, <1>3 DEF Newest, MarksIn
<1> QED BY <1>5 DEF T

LEMMA CoversCarried ==
  ASSUME NEW s \in Sessions, NEW S \in Streams, NEW T \in Streams, Carried(S, T),
         NEW now \in Nat, NEW total \in Nat, Covers(s, S, now, total)
  PROVE  Covers(s, T, now, total)
<1>1. PICK m : Carries(S, T, m)
  BY DEF Carried
<1>2. Billed(s, T) <= Billed(s, S) /\ Billed(s, T) \in Nat /\ Billed(s, S) \in Nat
  BY BilledType DEF Carried
<1>3. ASSUME NEW p \in Readable(T), Newest(s, T, p)
      PROVE  Billed(s, T) + now - At(T, p).sum <= total
  <2>1. m[p] \in Readable(S) /\ Newest(s, S, m[p]) /\ At(T, p) = At(S, m[p])
    BY <1>1, <1>3, NewestCarried
  <2>2. At(T, p).sum \in Nat
    BY ReadableLine DEF Lines
  <2>3. Billed(s, S) + now - At(S, m[p]).sum <= total
    BY <2>1 DEF Covers
  <2> QED BY <1>2, <2>1, <2>2, <2>3
<1> QED BY <1>2, <1>3 DEF Covers

LEMMA CoversExtended ==
  ASSUME NEW s \in Sessions, NEW S \in Streams, NEW line \in Lines, line.of # s,
         NEW now \in Nat, NEW total \in Nat, Covers(s, S, now, total)
  PROVE  Covers(s, Extended(S, line), now, total)
<1> DEFINE T == Extended(S, line)
<1>2. Billed(s, T) = Billed(s, S) + Delta(s, line) /\ Delta(s, line) = 0
  BY ExtendedLine
<1>3. Billed(s, T) = Billed(s, S)
  BY <1>2, BilledType
<1>4. \A p \in Readable(T) : Newest(s, T, p) => p \in Readable(S) /\ Newest(s, S, p) /\ At(T, p) = At(S, p)
  BY NewestExtended
<1> HIDE DEF T
<1>5. Covers(s, T, now, total)
  BY <1>3, <1>4 DEF Covers
<1> QED BY <1>5 DEF T

LEMMA CoversMoved ==
  ASSUME NEW s \in Sessions, NEW S \in Streams, NEW now \in Nat, NEW total \in Nat, NEW next \in Nat, NEW sum \in Nat,
         Covers(s, S, now, total), total <= sum, next - now <= sum - total, next <= sum
  PROVE  Covers(s, S, next, sum)
<1>1. Billed(s, S) \in Nat /\ \A p \in Readable(S) : At(S, p).sum \in Nat
  BY BilledType, ReadableLine DEF Lines
<1>2. ASSUME NEW p \in Readable(S), Newest(s, S, p) PROVE Billed(s, S) + next - At(S, p).sum <= sum
  <2>1. Billed(s, S) + now - At(S, p).sum <= total
    BY <1>2 DEF Covers
  <2> QED BY <1>1, <2>1
<1>3. Billed(s, S) <= sum
  BY <1>1 DEF Covers
<1> QED BY <1>2, <1>3 DEF Covers

LEMMA BeyondCarried ==
  ASSUME NEW s, NEW S \in Streams, NEW T \in Streams, Carried(S, T), NEW j \in Nat, Beyond(s, S, j)
  PROVE  Beyond(s, T, j)
<1>1. PICK m : Carries(S, T, m)
  BY DEF Carried
<1>2. \A p \in Readable(T) : p[1] \in 1..3 /\ m[p] \in Readable(S) /\ m[p][1] \in 1..3 /\ m[p][1] <= p[1]
  BY <1>1, ReadableIs DEF Carries
<1>3. \A p \in MarksIn(s, T) : p \in Readable(T) /\ m[p] \in MarksIn(s, S)
  BY <1>1 DEF Carries, MarksIn
<1> QED BY <1>2, <1>3 DEF Beyond

LEMMA BeyondExtended ==
  ASSUME NEW s, NEW S \in Streams, NEW line \in Lines, line.of # s, NEW j, Beyond(s, S, j)
  PROVE  Beyond(s, Extended(S, line), j)
<1>2. /\ Readable(Extended(S, line)) = Readable(S) \cup {End(S)}
      /\ At(Extended(S, line), End(S)) = line
      /\ \A q \in Readable(S) : At(Extended(S, line), q) = At(S, q)
  BY ExtendedLine
<1> QED BY <1>2 DEF Beyond, MarksIn

LEMMA LastIsCarried ==
  ASSUME NEW s, NEW S \in Streams, NEW T \in Streams, Carried(S, T), NEW line, LastIs(s, S, line)
  PROVE  LastIs(s, T, line)
<1>1. PICK m : Carries(S, T, m)
  BY DEF Carried
<1>2. ASSUME NEW p \in Readable(T), Newest(s, T, p) PROVE At(T, p) = line
  BY <1>1, <1>2, NewestCarried DEF LastIs
<1> QED BY <1>2 DEF LastIs

LEMMA LastIsExtended ==
  ASSUME NEW s, NEW S \in Streams, NEW line \in Lines, line.of # s, NEW last, LastIs(s, S, last)
  PROVE  LastIs(s, Extended(S, line), last)
BY NewestExtended DEF LastIs

LEMMA NothingBilled ==
  ASSUME NEW s \in Sessions, NEW S \in Streams, Billing(S), MarksIn(s, S) = {}
  PROVE  Billed(s, S) = 0
<1>1. \A j \in 1..3 : S.files[j] \in Seq(Lines \cup {Torn})
  BY DEF Streams
<1>2. ASSUME NEW j \in 1..3 PROVE Bill(s, S.files[j]) = 0
  <2>1. ASSUME NEW i \in 1..Len(S.files[j]), Delta(s, S.files[j][i]) # 0 PROVE FALSE
    <3>1. S.files[j][i] # Torn /\ S.files[j][i].of = s
      BY <2>1 DEF Delta
    <3>2. <<j, i>> \in Readable(S)
      BY <1>1, <2>1, <3>1, ReadableIs
    <3>3. At(S, <<j, i>>) = S.files[j][i]
      BY DEF At
    <3> QED BY <3>1, <3>2, <3>3 DEF Billing, MarksIn
  <2> QED BY <1>1, <2>1, BillNothing
<1> QED BY <1>2 DEF Billed
-----------------------------------------------------------------------------
(* Types.                                                                  *)

LEMMA PutIs ==
  ASSUME TypeOK, NEW name \in Names, NEW line \in Lines, Put(name, line)
  PROVE  LET R == Rotated(streams[name], setup.cap)
             new == [line EXCEPT !.n = appended[name] + 1]
         IN  /\ R \in Streams /\ Carried(streams[name], R)
             /\ new \in Lines /\ new.n = appended[name] + 1
             /\ new.kind = line.kind /\ new.of = line.of /\ new.delta = line.delta /\ new.sum = line.sum
             /\ Extended(R, new) \in Streams
             /\ streams' = [streams EXCEPT ![name] = Extended(R, new)]
             /\ streams'[name] = Extended(R, new)
             /\ appended' = [appended EXCEPT ![name] = @ + 1]
             /\ appended'[name] = appended[name] + 1
             /\ streams' \in [Names -> Streams] /\ appended' \in [Names -> Nat]
<1> DEFINE R == Rotated(streams[name], setup.cap)
           new == [line EXCEPT !.n = appended[name] + 1]
<1>1. streams \in [Names -> Streams] /\ appended \in [Names -> Nat] /\ setup.cap \in Nat
  BY DEF TypeOK, DiskOK, ControlOK, Streams
<1>2. R \in Streams /\ Carried(streams[name], R)
  BY <1>1, RotatedCarried
<1>3. /\ new \in Lines /\ new.n = appended[name] + 1
      /\ new.kind = line.kind /\ new.of = line.of /\ new.delta = line.delta /\ new.sum = line.sum
  BY <1>1 DEF Lines
<1>4. streams' = [streams EXCEPT ![name] = Extended(R, new)] /\ appended' = [appended EXCEPT ![name] = @ + 1]
  BY DEF Put, Written, Extended
<1> HIDE DEF R, new
<1>5. Extended(R, new) \in Streams
  BY <1>2, <1>3, ExtendedLine
<1>6. /\ streams'[name] = Extended(R, new) /\ appended'[name] = appended[name] + 1
      /\ streams' \in [Names -> Streams] /\ appended' \in [Names -> Nat]
  BY <1>1, <1>4, <1>5
<1> QED BY <1>2, <1>3, <1>4, <1>5, <1>6 DEF R, new

LEMMA LastLinesType ==
  ASSUME NEW S, NEW lines \in Seq(S), NEW budget \in Nat
  PROVE  /\ LastLines(lines, budget) \in Seq(S)
         /\ Len(LastLines(lines, budget)) = IF Len(lines) <= budget THEN Len(lines) ELSE budget
         /\ \A i \in 1..Len(LastLines(lines, budget)) :
              LastLines(lines, budget)[i] = lines[i + (Len(lines) - Len(LastLines(lines, budget)))]
<1>1. Len(lines) \in Nat
  OBVIOUS
<1>2. CASE Len(lines) <= budget
  BY <1>1, <1>2 DEF LastLines
<1>3. CASE ~(Len(lines) <= budget)
  <2> DEFINE last == SubSeq(lines, Len(lines) - budget + 1, Len(lines))
  <2>1. /\ last \in Seq(S) /\ Len(last) = budget
        /\ \A i \in 1..budget : last[i] = lines[Len(lines) - budget + 1 + i - 1]
    BY <1>1, <1>3, SubSeqProperties
  <2> HIDE DEF last
  <2>2. LastLines(lines, budget) = last
    BY <1>3 DEF LastLines, last
  <2>3. \A i \in 1..budget : last[i] = lines[i + (Len(lines) - budget)]
    <3> SUFFICES ASSUME NEW i \in 1..budget PROVE last[i] = lines[i + (Len(lines) - budget)]
      OBVIOUS
    <3>1. Len(lines) - budget + 1 + i - 1 = i + (Len(lines) - budget)
      BY <1>1
    <3> QED BY <2>1, <3>1
  <2> QED BY <1>3, <2>1, <2>2, <2>3
<1> QED BY <1>2, <1>3

\* What is read of a file, in front of what has been read.
LEMMA ReadsIs ==
  ASSUME TypeOK, NEW s \in Sessions, NEW name \in Names, Len(got[s]) <= Window, Reads(s, name)
  PROVE  LET lines == streams[name].files[k[s]]
             more == LastLines(lines, Window - Len(got[s]))
         IN  /\ k[s] \in 1..3 /\ lines \in Seq(Lines \cup {Torn}) /\ more \in Seq(Lines \cup {Torn})
             /\ Len(more) = IF Len(lines) <= Window - Len(got[s]) THEN Len(lines) ELSE Window - Len(got[s])
             /\ \A i \in 1..Len(more) : more[i] = lines[i + (Len(lines) - Len(more))]
             /\ got' = [got EXCEPT ![s] = more \o got[s]] /\ k' = [k EXCEPT ![s] = @ + 1]
             /\ whole' = [whole EXCEPT ![s] = @ /\ Window - Len(got[s]) > 0 /\ Len(lines) <= Window - Len(got[s])]
             /\ more \o got[s] \in Seq(Lines \cup {Torn}) /\ Len(more \o got[s]) <= Window
             /\ Len(more \o got[s]) = Len(more) + Len(got[s])
             /\ got' \in [Sessions -> Seq(Lines \cup {Torn})] /\ k' \in [Sessions -> 1..4]
             /\ whole' \in [Sessions -> BOOLEAN]
<1> DEFINE lines == streams[name].files[k[s]]
           budget == Window - Len(got[s])
           more == LastLines(lines, budget)
<1>1. /\ k \in [Sessions -> 1..4] /\ k[s] \in 1..3 /\ got \in [Sessions -> Seq(Lines \cup {Torn})]
      /\ whole \in [Sessions -> BOOLEAN] /\ Window \in Nat
  <2>1. /\ k \in [Sessions -> 1..4] /\ got \in [Sessions -> Seq(Lines \cup {Torn})] /\ whole \in [Sessions -> BOOLEAN]
    BY DEF TypeOK, ReadingOK
  <2>2. k[s] <= 3
    BY DEF Reads
  <2> QED BY <2>1, <2>2, SessionsAssumption
<1>2. lines \in Seq(Lines \cup {Torn}) /\ budget \in Nat /\ Len(got[s]) \in Nat
  <2>1. streams[name].files \in [1..3 -> Seq(Lines \cup {Torn})]
    BY DEF TypeOK, DiskOK
  <2>2. got[s] \in Seq(Lines \cup {Torn}) /\ Len(got[s]) \in Nat
    BY <1>1
  <2> QED BY <1>1, <2>1, <2>2
<1>3. got' = [got EXCEPT ![s] = more \o got[s]] /\ k' = [k EXCEPT ![s] = @ + 1]
      /\ whole' = [whole EXCEPT ![s] = @ /\ budget > 0 /\ Len(lines) <= budget]
  BY DEF Reads
<1> HIDE DEF lines, budget, more
<1>4. /\ more \in Seq(Lines \cup {Torn})
      /\ Len(more) = IF Len(lines) <= budget THEN Len(lines) ELSE budget
      /\ \A i \in 1..Len(more) : more[i] = lines[i + (Len(lines) - Len(more))]
  BY <1>2, LastLinesType DEF more
<1>5. /\ more \o got[s] \in Seq(Lines \cup {Torn})
      /\ Len(more \o got[s]) = Len(more) + Len(got[s])
  <2>1. got[s] \in Seq(Lines \cup {Torn}) /\ more \in Seq(Lines \cup {Torn})
    BY <1>1, <1>4
  <2> QED BY <2>1, ConcatProperties
<1>6. Len(more \o got[s]) <= Window
  BY <1>1, <1>2, <1>4, <1>5 DEF budget
<1>7. /\ got' \in [Sessions -> Seq(Lines \cup {Torn})] /\ k' \in [Sessions -> 1..4]
      /\ whole' \in [Sessions -> BOOLEAN]
  BY <1>1, <1>3, <1>5
<1> QED BY <1>1, <1>2, <1>3, <1>4, <1>5, <1>6, <1>7 DEF lines, budget, more

LEMMA LatestIs ==
  ASSUME NEW n \in Nat, NEW N, N \subseteq 1..n, N # {}
  PROVE  Latest(N) \in N /\ \A j \in N : j <= Latest(N)
<1> DEFINE M == {n - i : i \in N}
<1>1. PICK x \in M : \A i \in M : x <= i
  <2>1. M \subseteq Nat
    <3> SUFFICES ASSUME NEW i \in N PROVE n - i \in Nat
      OBVIOUS
    <3> QED OBVIOUS
  <2>2. M # {}
    OBVIOUS
  <2> HIDE DEF M
  <2> QED BY <2>1, <2>2, Least
<1>2. PICK i \in N : x = n - i
  BY <1>1
<1>3. \A j \in N : j <= i
  <2> SUFFICES ASSUME NEW j \in N PROVE j <= i
    OBVIOUS
  <2>1. n - i <= n - j
    BY <1>1, <1>2
  <2>2. i \in Int /\ j \in Int
    OBVIOUS
  <2> QED BY <2>1, <2>2
<1> QED BY <1>2, <1>3 DEF Latest

LEMMA LastMarkIs ==
  ASSUME TypeOK, NEW s \in Sessions, Marks(s) # {}
  PROVE  /\ LastMark(s) \in Marks(s) /\ \A j \in Marks(s) : j <= LastMark(s)
         /\ LastMark(s) \in 1..Len(got[s]) /\ got[s][LastMark(s)] \in Lines
         /\ got[s][LastMark(s)].kind = "measured" /\ got[s][LastMark(s)].of = s
<1>1. got[s] \in Seq(Lines \cup {Torn}) /\ Len(got[s]) \in Nat /\ DOMAIN got[s] = 1..Len(got[s])
  BY DEF TypeOK, ReadingOK
<1>2. Marks(s) \subseteq 1..Len(got[s])
  BY <1>1 DEF Marks
<1>3. LastMark(s) \in Marks(s) /\ \A j \in Marks(s) : j <= LastMark(s)
  BY <1>1, <1>2, LatestIs DEF LastMark
<1> QED BY <1>1, <1>2, <1>3 DEF Marks

LEMMA WatermarkType ==
  ASSUME TypeOK, NEW s \in Sessions
  PROVE  /\ Watermark(s) \in Nat
         /\ Marks(s) # {} => Watermark(s) = got[s][LastMark(s)].sum
<1>1. Marks(s) # {} => Watermark(s) = got[s][LastMark(s)].sum
  BY DEF Watermark, LastMark, Latest
<1>2. counter[s] \in Nat
  BY DEF TypeOK, ReadingOK, UsageOK
<1>3. CASE Marks(s) # {}
  BY <1>1, <1>3, LastMarkIs DEF Lines
<1>4. CASE Marks(s) = {}
  BY <1>2, <1>4 DEF Watermark
<1> QED BY <1>1, <1>3, <1>4

\* What each step of a hook leaves alone.
ATool(s) == \E t \in Tools : Tool(s, t)
Listed(s) ==
  /\ UNCHANGED <<dismissed, settled, settling>>
  /\ UNCHANGED disk \/ Capture(s) \/ SelfRead(s) \/ Book(s) \/ Turn(s) \/ Note(s) \/ BookMeasured(s) \/ Kill(s)
  /\ UNCHANGED pending \/ Rename(s)
  /\ UNCHANGED state \/ Cadence(s) \/ Track(s) \/ Advise(s) \/ Forbid(s) \/ Drain(s) \/ Reset(s) \/ Disarm(s) \/ Govern(s)
  /\ UNCHANGED <<seen, misread>> \/ ATool(s) \/ Track(s) \/ New(s) \/ Disarm(s)
  /\ UNCHANGED <<file, resaved>> \/ ATool(s)
  /\ UNCHANGED <<stat, asked>> \/ Ask(s) \/ Advise(s) \/ Warn(s) \/ Kill(s)
  /\ UNCHANGED text \/ Forbid(s) \/ Drain(s) \/ Say(s) \/ Kill(s)
  /\ UNCHANGED <<told, twice>> \/ Say(s) \/ New(s)
  /\ UNCHANGED reading \/ ReadWindow(s) \/ Turn(s) \/ FindWatermark(s) \/ BookMeasured(s) \/ Kill(s)
  /\ UNCHANGED <<todo, have>> \/ Turn(s) \/ Skip(s) \/ Check(s) \/ Rename(s) \/ Note(s) \/ Govern(s) \/ Kill(s)
  /\ UNCHANGED usage \/ Stop(s) \/ Rewind(s)
  /\ UNCHANGED known \/ Stop(s)
  /\ UNCHANGED tool \/ ATool(s) \/ Track(s) \/ Kill(s)

LEMMA Touches ==
  ASSUME NEW s \in Sessions, Hook(s)
  PROVE  Listed(s)
<1>1. CASE ATool(s)
  BY <1>1 DEF Listed, ATool, Tool, disk, staging, reading, usage
<1>2. CASE Capture(s)
  BY <1>2 DEF Listed, Capture, disk, staging, reading, locals, talk, usage
<1>3. CASE Cadence(s)
  BY <1>3 DEF Listed, Cadence, disk, staging, reading, locals, talk, usage
<1>4. CASE SelfRead(s)
  BY <1>4 DEF Listed, SelfRead, disk, staging, reading, locals, talk, usage
<1>5. CASE Track(s)
  BY <1>5 DEF Listed, Track, disk, staging, reading, locals, talk, usage
<1>6. CASE Ask(s)
  BY <1>6 DEF Listed, Ask, disk, staging, reading, locals, talk, usage
<1>7. CASE Advise(s)
  BY <1>7 DEF Listed, Advise, Unasked, disk, staging, reading, locals, talk, usage
<1>8. CASE Warn(s)
  BY <1>8 DEF Listed, Warn, Unasked, disk, staging, reading, locals, talk, usage
<1>9. CASE Breach(s)
  BY <1>9 DEF Listed, Breach, disk, staging, reading, locals, talk, usage
<1>10. CASE Forbid(s)
  BY <1>10 DEF Listed, Forbid, disk, staging, reading, locals, talk, usage
<1>11. CASE Prompt(s)
  BY <1>11 DEF Listed, Prompt, disk, staging, reading, locals, talk, usage
<1>12. CASE Drain(s)
  BY <1>12 DEF Listed, Drain, disk, staging, reading, locals, talk, usage
<1>13. CASE Say(s)
  BY <1>13 DEF Listed, Say, disk, staging, reading, locals, talk, usage
<1>14. CASE Book(s)
  BY <1>14 DEF Listed, Book, disk, staging, reading, locals, talk, usage
<1>15. CASE New(s)
  BY <1>15 DEF Listed, New, disk, staging, reading, locals, talk, usage
<1>16. CASE Reset(s)
  BY <1>16 DEF Listed, Reset, disk, staging, reading, locals, talk, usage
<1>17. CASE Resume(s)
  BY <1>17 DEF Listed, Resume, disk, staging, reading, locals, talk, usage
<1>18. CASE Compact(s)
  BY <1>18 DEF Listed, Compact, disk, staging, reading, locals, talk, usage
<1>19. CASE Disarm(s)
  BY <1>19 DEF Listed, Disarm, disk, staging, reading, locals, talk, usage
<1>20. CASE Stop(s)
  BY <1>20 DEF Listed, Stop, disk, staging, reading, locals, talk, usage
<1>21. CASE ReadWindow(s)
  BY <1>21 DEF Listed, ReadWindow, disk, staging, reading, locals, talk, usage
<1>22. CASE Turn(s)
  BY <1>22 DEF Listed, Turn, disk, staging, reading, locals, talk, usage
<1>23. CASE Skip(s)
  BY <1>23 DEF Listed, Skip, disk, staging, reading, locals, talk, usage
<1>24. CASE Check(s)
  BY <1>24 DEF Listed, Check, disk, staging, reading, locals, talk, usage
<1>25. CASE Rename(s)
  BY <1>25 DEF Listed, Rename, disk, staging, reading, locals, talk, usage
<1>26. CASE Note(s)
  BY <1>26 DEF Listed, Note, disk, staging, reading, locals, talk, usage
<1>27. CASE Govern(s)
  BY <1>27 DEF Listed, Govern, disk, staging, reading, locals, talk, usage
<1>28. CASE FindWatermark(s)
  BY <1>28 DEF Listed, FindWatermark, disk, staging, reading, locals, talk, usage
<1>29. CASE BookMeasured(s)
  BY <1>29 DEF Listed, BookMeasured, disk, staging, reading, locals, talk, usage
<1>30. CASE Rewind(s)
  BY <1>30 DEF Listed, Rewind, disk, staging, reading, locals, talk, usage
<1>31. CASE Kill(s)
  BY <1>31 DEF Listed, Kill, Idle, Unasked, Forget, staging, usage, talk
<1> QED BY <1>1, <1>2, <1>3, <1>4, <1>5, <1>6, <1>7, <1>8, <1>9, <1>10, <1>11, <1>12, <1>13, <1>14, <1>15, <1>16, <1>17, <1>18, <1>19, <1>20, <1>21, <1>22, <1>23, <1>24, <1>25, <1>26, <1>27, <1>28, <1>29, <1>30, <1>31 DEF Hook, ATool

\* The hooks of other sessions stay where they are.
Stands(r) ==
  /\ UNCHANGED <<state[r], at[r], tool[r], stat[r], asked[r], got[r], k[r], whole[r], todo[r]>>
  /\ UNCHANGED <<have[r], text[r], counter[r], spent[r], seen[r], told[r], twice[r], known[r]>>
  /\ r \in misread' <=> r \in misread

LEMMA OthersStand ==
  ASSUME TypeOK, NEW s \in Sessions, Hook(s), NEW r \in Sessions, r # s
  PROVE  Stands(r)
<1>0. \A x \in {state, at, tool, stat, asked, got, k, whole, todo, have, text, counter, spent, seen, told, twice, known} : DOMAIN x = Sessions /\ x = [i \in Sessions |-> x[i]]
  BY SMTT(30) DEF TypeOK, StagingOK, StateOK, FileOK, TalkOK, ReadingOK, UsageOK, ControlOK
<1>1. CASE ATool(s)
  BY <1>0, <1>1 DEF Stands, ATool, Tool, Begin, Goes, Update, disk, staging, reading, locals, talk, usage
<1>2. CASE Capture(s)
  BY <1>0, <1>2 DEF Stands, Capture, Begin, Goes, Update, disk, staging, reading, locals, talk, usage
<1>3. CASE Cadence(s)
  BY <1>0, <1>3 DEF Stands, Cadence, Begin, Goes, Update, disk, staging, reading, locals, talk, usage
<1>4. CASE SelfRead(s)
  BY <1>0, <1>4 DEF Stands, SelfRead, Begin, Goes, Update, disk, staging, reading, locals, talk, usage
<1>5. CASE Track(s)
  BY <1>0, <1>5 DEF Stands, Track, Begin, Goes, Update, disk, staging, reading, locals, talk, usage
<1>6. CASE Ask(s)
  BY <1>0, <1>6 DEF Stands, Ask, Begin, Goes, Update, disk, staging, reading, locals, talk, usage
<1>7. CASE Advise(s)
  BY <1>0, <1>7 DEF Stands, Advise, Unasked, Begin, Goes, Update, disk, staging, reading, locals, talk, usage
<1>8. CASE Warn(s)
  BY <1>0, <1>8 DEF Stands, Warn, Unasked, Begin, Goes, Update, disk, staging, reading, locals, talk, usage
<1>9. CASE Breach(s)
  BY <1>0, <1>9 DEF Stands, Breach, Begin, Goes, Update, disk, staging, reading, locals, talk, usage
<1>10. CASE Forbid(s)
  BY <1>0, <1>10 DEF Stands, Forbid, Begin, Goes, Update, disk, staging, reading, locals, talk, usage
<1>11. CASE Prompt(s)
  BY <1>0, <1>11 DEF Stands, Prompt, Begin, Goes, Update, disk, staging, reading, locals, talk, usage
<1>12. CASE Drain(s)
  BY <1>0, <1>12 DEF Stands, Drain, Begin, Goes, Update, disk, staging, reading, locals, talk, usage
<1>13. CASE Say(s)
  BY <1>0, <1>13 DEF Stands, Say, Begin, Goes, Update, disk, staging, reading, locals, talk, usage
<1>14. CASE Book(s)
  BY <1>0, <1>14 DEF Stands, Book, Begin, Goes, Update, disk, staging, reading, locals, talk, usage
<1>15. CASE New(s)
  BY <1>0, <1>15 DEF Stands, New, Begin, Goes, Update, disk, staging, reading, locals, talk, usage
<1>16. CASE Reset(s)
  BY <1>0, <1>16 DEF Stands, Reset, Begin, Goes, Update, disk, staging, reading, locals, talk, usage
<1>17. CASE Resume(s)
  BY <1>0, <1>17 DEF Stands, Resume, Begin, Goes, Update, disk, staging, reading, locals, talk, usage
<1>18. CASE Compact(s)
  BY <1>0, <1>18 DEF Stands, Compact, Begin, Goes, Update, disk, staging, reading, locals, talk, usage
<1>19. CASE Disarm(s)
  BY <1>0, <1>19 DEF Stands, Disarm, Begin, Goes, Update, disk, staging, reading, locals, talk, usage
<1>20. CASE Stop(s)
  BY <1>0, <1>20 DEF Stands, Stop, Begin, Goes, Update, disk, staging, reading, locals, talk, usage
<1>21. CASE ReadWindow(s)
  BY <1>0, <1>21 DEF Stands, ReadWindow, Reads, Begin, Goes, Update, disk, staging, reading, locals, talk, usage
<1>22. CASE Turn(s)
  BY <1>0, <1>22 DEF Stands, Turn, Forget, Begin, Goes, Update, disk, staging, reading, locals, talk, usage
<1>23. CASE Skip(s)
  BY <1>0, <1>23 DEF Stands, Skip, Begin, Goes, Update, disk, staging, reading, locals, talk, usage
<1>24. CASE Check(s)
  BY <1>0, <1>24 DEF Stands, Check, Begin, Goes, Update, disk, staging, reading, locals, talk, usage
<1>25. CASE Rename(s)
  BY <1>0, <1>25 DEF Stands, Rename, Begin, Goes, Update, disk, staging, reading, locals, talk, usage
<1>26. CASE Note(s)
  BY <1>0, <1>26 DEF Stands, Note, Begin, Goes, Update, disk, staging, reading, locals, talk, usage
<1>27. CASE Govern(s)
  BY <1>0, <1>27 DEF Stands, Govern, Begin, Goes, Update, disk, staging, reading, locals, talk, usage
<1>28. CASE FindWatermark(s)
  BY <1>0, <1>28 DEF Stands, FindWatermark, Reads, Begin, Goes, Update, disk, staging, reading, locals, talk, usage
<1>29. CASE BookMeasured(s)
  BY <1>0, <1>29 DEF Stands, BookMeasured, Forget, Begin, Goes, Update, disk, staging, reading, locals, talk, usage
<1>30. CASE Rewind(s)
  BY <1>0, <1>30 DEF Stands, Rewind, Begin, Goes, Update, disk, staging, reading, locals, talk, usage
<1>31. CASE Kill(s)
  BY <1>0, <1>31 DEF Stands, Kill, Idle, Unasked, Forget, Begin, Goes, Update, disk, staging, reading, locals, talk, usage
<1> QED BY <1>1, <1>2, <1>3, <1>4, <1>5, <1>6, <1>7, <1>8, <1>9, <1>10, <1>11, <1>12, <1>13, <1>14, <1>15, <1>16, <1>17, <1>18, <1>19, <1>20, <1>21, <1>22, <1>23, <1>24, <1>25, <1>26, <1>27, <1>28, <1>29, <1>30, <1>31 DEF Hook, ATool

LEMMA HookControl ==
  ASSUME TypeOK, NEW s \in Sessions, Hook(s)
  PROVE  ControlOK'
<1> USE DEF ControlOK
<1>0. ControlOK
  BY DEF TypeOK
<1>99. ASSUME NEW event \in Events, Happens(event)
      PROVE  setup' \in [who : SUBSET Sessions, cap : Nat \ {0}, budget : [Events -> Nat]]
  BY <1>0, <1>99 DEF Happens
<1>1. CASE ATool(s)
  BY <1>0, <1>99, <1>1 DEF ATool, Tool, Begin, Goes, Steps, Events, Tools, disk, staging, reading, locals, talk, usage
<1>2. CASE Capture(s)
  BY <1>0, <1>2 DEF Capture, Begin, Goes, Steps, disk, staging, reading, locals, talk, usage
<1>3. CASE Cadence(s)
  BY <1>0, <1>3 DEF Cadence, Begin, Goes, Steps, disk, staging, reading, locals, talk, usage
<1>4. CASE SelfRead(s)
  BY <1>0, <1>4 DEF SelfRead, Begin, Goes, Steps, disk, staging, reading, locals, talk, usage
<1>5. CASE Track(s)
  BY <1>0, <1>5 DEF Track, Begin, Goes, Steps, disk, staging, reading, locals, talk, usage
<1>6. CASE Ask(s)
  BY <1>0, <1>99, <1>6 DEF Ask, Begin, Goes, Steps, Events, Tools, disk, staging, reading, locals, talk, usage
<1>7. CASE Advise(s)
  BY <1>0, <1>7 DEF Advise, Begin, Goes, Steps, disk, staging, reading, locals, talk, usage
<1>8. CASE Warn(s)
  BY <1>0, <1>8 DEF Warn, Begin, Goes, Steps, disk, staging, reading, locals, talk, usage
<1>9. CASE Breach(s)
  BY <1>0, <1>99, <1>9 DEF Breach, Begin, Goes, Steps, Events, Tools, disk, staging, reading, locals, talk, usage
<1>10. CASE Forbid(s)
  BY <1>0, <1>10 DEF Forbid, Begin, Goes, Steps, disk, staging, reading, locals, talk, usage
<1>11. CASE Prompt(s)
  BY <1>0, <1>99, <1>11 DEF Prompt, Begin, Goes, Steps, Events, Tools, disk, staging, reading, locals, talk, usage
<1>12. CASE Drain(s)
  BY <1>0, <1>12 DEF Drain, Begin, Goes, Steps, disk, staging, reading, locals, talk, usage
<1>13. CASE Say(s)
  BY <1>0, <1>13 DEF Say, Begin, Goes, Steps, disk, staging, reading, locals, talk, usage
<1>14. CASE Book(s)
  BY <1>0, <1>14 DEF Book, Begin, Goes, Steps, disk, staging, reading, locals, talk, usage
<1>15. CASE New(s)
  BY <1>0, <1>99, <1>15 DEF New, Begin, Goes, Steps, Events, Tools, disk, staging, reading, locals, talk, usage
<1>16. CASE Reset(s)
  BY <1>0, <1>16 DEF Reset, Begin, Goes, Steps, disk, staging, reading, locals, talk, usage
<1>17. CASE Resume(s)
  BY <1>0, <1>99, <1>17 DEF Resume, Begin, Goes, Steps, Events, Tools, disk, staging, reading, locals, talk, usage
<1>18. CASE Compact(s)
  BY <1>0, <1>99, <1>18 DEF Compact, Begin, Goes, Steps, Events, Tools, disk, staging, reading, locals, talk, usage
<1>19. CASE Disarm(s)
  BY <1>0, <1>19 DEF Disarm, Begin, Goes, Steps, disk, staging, reading, locals, talk, usage
<1>20. CASE Stop(s)
  BY <1>0, <1>99, <1>20 DEF Stop, Begin, Goes, Steps, Events, Tools, disk, staging, reading, locals, talk, usage
<1>21. CASE ReadWindow(s)
  BY <1>0, <1>21 DEF ReadWindow, Begin, Goes, Steps, disk, staging, reading, locals, talk, usage
<1>22. CASE Turn(s)
  BY <1>0, <1>22 DEF Turn, Begin, Goes, Steps, disk, staging, reading, locals, talk, usage
<1>23. CASE Skip(s)
  BY <1>0, <1>23 DEF Skip, Begin, Goes, Steps, disk, staging, reading, locals, talk, usage
<1>24. CASE Check(s)
  BY <1>0, <1>24 DEF Check, Begin, Goes, Steps, disk, staging, reading, locals, talk, usage
<1>25. CASE Rename(s)
  BY <1>0, <1>25 DEF Rename, Begin, Goes, Steps, disk, staging, reading, locals, talk, usage
<1>26. CASE Note(s)
  BY <1>0, <1>26 DEF Note, Begin, Goes, Steps, disk, staging, reading, locals, talk, usage
<1>27. CASE Govern(s)
  BY <1>0, <1>27 DEF Govern, Begin, Goes, Steps, disk, staging, reading, locals, talk, usage
<1>28. CASE FindWatermark(s)
  BY <1>0, <1>28 DEF FindWatermark, Begin, Goes, Steps, disk, staging, reading, locals, talk, usage
<1>29. CASE BookMeasured(s)
  BY <1>0, <1>29 DEF BookMeasured, Begin, Goes, Steps, disk, staging, reading, locals, talk, usage
<1>30. CASE Rewind(s)
  BY <1>0, <1>99, <1>30 DEF Rewind, Begin, Goes, Steps, Events, Tools, disk, staging, reading, locals, talk, usage
<1>31. CASE Kill(s)
  BY <1>0, <1>99, <1>31 DEF Kill, Idle, Forget, Begin, Goes, Steps, Events, Tools, disk, staging, reading, locals, talk, usage
<1> QED BY <1>1, <1>2, <1>3, <1>4, <1>5, <1>6, <1>7, <1>8, <1>9, <1>10, <1>11, <1>12, <1>13, <1>14, <1>15, <1>16, <1>17, <1>18, <1>19, <1>20, <1>21, <1>22, <1>23, <1>24, <1>25, <1>26, <1>27, <1>28, <1>29, <1>30, <1>31 DEF Hook, ATool

\* What a hook that is killed leaves of the streams.
LEMMA KillIs ==
  ASSUME TypeOK, NEW s \in Sessions, Kill(s)
  PROVE  /\ streams' \in [Names -> Streams] /\ appended' = appended
         /\ \A name \in Names : Carried(streams[name], streams'[name])
<1>1. streams \in [Names -> Streams] /\ setup.cap \in Nat
  BY DEF TypeOK, DiskOK, ControlOK, Streams
<1>2. appended' = appended
  BY DEF Kill
<1>3. \A name \in Names : Carried(streams[name], streams[name])
  BY <1>1, CarriedSame
<1>4. CASE UNCHANGED streams
  BY <1>1, <1>2, <1>3, <1>4
<1>5. CASE \E name \in Appends(s) : \E left \in Interrupted(streams[name], setup.cap) :
             streams' = [streams EXCEPT ![name] = left]
  <2>1. PICK name \in Appends(s) : \E left \in Interrupted(streams[name], setup.cap) :
               streams' = [streams EXCEPT ![name] = left]
    BY <1>5
  <2>2. PICK left \in Interrupted(streams[name], setup.cap) : streams' = [streams EXCEPT ![name] = left]
    BY <2>1
  <2>3. name \in Names
    BY DEF Appends, Names
  <2>4. left \in Streams /\ Carried(streams[name], left)
    BY <1>1, <2>3, InterruptedCarried
  <2> QED BY <1>1, <1>2, <1>3, <2>2, <2>3, <2>4
<1> QED BY <1>4, <1>5 DEF Kill

\* What a hook appends.
LEMMA Appended ==
  ASSUME TypeOK, NEW s \in Sessions, Hook(s)
  PROVE  \/ UNCHANGED disk \/ Kill(s)
         \/ \E name \in Names, line \in Lines :
              /\ Put(name, line)
              /\ name = "ledger" =>
                   line.of = NoOne \/ (BookMeasured(s) /\ line.of = s /\ line.kind = "measured")
<1>1. /\ Other \in Lines /\ Other.of = NoOne
      /\ \A t \in {"fail", "ok"} : Line(t, s, 0, 0) \in Lines
  BY DEF Other, Line, Lines, Kinds, Ids
<1>2. {"exhaust", "ledger"} = Names
  BY DEF Names
<1>3. CASE Capture(s)
  <2>1. tool[s] \in {"fail", "ok"} \/ tool[s] \notin {"fail", "ok"}
    OBVIOUS
  <2> QED BY <1>1, <1>2, <1>3, <2>1 DEF Capture
<1>4. CASE SelfRead(s)
  BY <1>1, <1>2, <1>4 DEF SelfRead
<1>5. CASE Book(s)
  BY <1>1, <1>2, <1>5 DEF Book
<1>6. CASE Turn(s)
  BY <1>1, <1>2, <1>6 DEF Turn
<1>7. CASE Note(s)
  BY <1>1, <1>2, <1>7 DEF Note
<1>8. CASE BookMeasured(s)
  <2> DEFINE above == counter[s] - Watermark(s)
             line == Line("measured", s, IF above > 0 THEN above ELSE 0, counter[s])
  <2>1. counter[s] \in Nat /\ Watermark(s) \in Nat
    BY WatermarkType DEF TypeOK, UsageOK
  <2>2. line \in Lines /\ line.of = s /\ line.kind = "measured"
    BY <2>1 DEF Line, Lines, Kinds, Ids
  <2>3. Put("ledger", line)
    BY <1>8 DEF BookMeasured
  <2> QED BY <1>2, <1>8, <2>2, <2>3
<1> QED BY <1>3, <1>4, <1>5, <1>6, <1>7, <1>8, Touches DEF Listed

LEMMA HookDisk ==
  ASSUME TypeOK, NEW s \in Sessions, Hook(s)
  PROVE  DiskOK'
<1>1. DiskOK <=> streams \in [Names -> Streams] /\ appended \in [Names -> Nat]
  BY DEF DiskOK, Streams
<1>2. DiskOK' <=> streams' \in [Names -> Streams] /\ appended' \in [Names -> Nat]
  BY DEF DiskOK, Streams
<1>3. DiskOK
  BY DEF TypeOK
<1>4. CASE UNCHANGED disk
  BY <1>1, <1>2, <1>3, <1>4 DEF disk
<1>5. CASE Kill(s)
  BY <1>1, <1>2, <1>3, <1>5, KillIs
<1>6. CASE \E name \in Names, line \in Lines : Put(name, line)
  BY <1>2, <1>6, PutIs
<1> QED BY <1>4, <1>5, <1>6, Appended

LEMMA HookState ==
  ASSUME TypeOK, NEW s \in Sessions, Hook(s)
  PROVE  StateOK'
<1> DEFINE State == [compacted : BOOLEAN, read : Nat, warned : BOOLEAN, queued : SUBSET Keys,
                     shown : SUBSET Keys, events : Nat]
<1>1. state \in [Sessions -> State] /\ state[s] \in State /\ mtime \in Nat
  BY DEF TypeOK, StateOK, FileOK
<1> SUFFICES ASSUME state' # state PROVE \E new \in State : Update(s, new)
  BY <1>1 DEF StateOK, Update
<1>2. /\ Forbids \in Keys /\ Staging \in Keys /\ \A n \in Nat : Key("rules", n) \in Keys
  BY DEF Forbids, Staging, Key, Keys
<1>3. \A st \in State, key \in Keys : Queue(st, key) \in State
  BY DEF Queue
<1>4. CASE Cadence(s)
  <2> DEFINE n == state[s].events + 1
             st == [state[s] EXCEPT !.events = n]
  <2>1. n \in Nat /\ st \in State
    BY <1>1
  <2>2. Queue(st, Key("rules", n)) \in State
    BY <1>2, <1>3, <2>1
  <2> HIDE DEF State
  <2> QED BY <1>4, <2>1, <2>2 DEF Cadence
<1>5. CASE Track(s)
  <2>1. [state[s] EXCEPT !.read = mtime] \in State /\ [state[s] EXCEPT !.read = 0] \in State
    BY <1>1
  <2> HIDE DEF State
  <2> QED BY <1>1, <1>5, <2>1 DEF Track
<1>6. CASE Advise(s)
  <2>1. [state[s] EXCEPT !.warned = TRUE] \in State
    BY <1>1
  <2> HIDE DEF State
  <2> QED BY <1>6, <2>1 DEF Advise
<1>7. CASE Forbid(s)
  <2> HIDE DEF State
  <2> QED BY <1>1, <1>2, <1>3, <1>7 DEF Forbid
<1>8. CASE Drain(s)
  <2>1. Drained(state[s]) \in State
    BY <1>1 DEF Drained
  <2> HIDE DEF State
  <2> QED BY <1>8, <2>1 DEF Drain
<1>9. CASE Reset(s)
  <2>1. FreshState \in State
    BY DEF FreshState
  <2> HIDE DEF State
  <2> QED BY <1>9, <2>1 DEF Reset
<1>10. CASE Disarm(s)
  <2>1. [state[s] EXCEPT !.compacted = TRUE] \in State
    BY <1>1
  <2> HIDE DEF State
  <2> QED BY <1>10, <2>1 DEF Disarm
<1>11. CASE Govern(s)
  <2> HIDE DEF State
  <2>1. Queue(state[s], Staging) \in State
    BY <1>1, <1>2, <1>3
  <2> QED BY <1>1, <1>11, <2>1 DEF Govern
<1> QED BY <1>4, <1>5, <1>6, <1>7, <1>8, <1>9, <1>10, <1>11, Touches DEF Listed

LEMMA HookFile ==
  ASSUME TypeOK, NEW s \in Sessions, Hook(s)
  PROVE  FileOK'
<1> USE DEF FileOK
<1>1. FileOK
  BY DEF TypeOK
<1>2. version' \in Nat /\ mtime' \in Nat /\ resaved' \in SUBSET Sessions
  <2>1. CASE ATool(s)
    BY <1>1, <2>1 DEF ATool, Tool, Saved, file
  <2> QED BY <1>1, <2>1, Touches DEF Listed, file
<1>3. stat' \in [Sessions -> Nat] /\ asked' \in [Sessions -> Nat]
  <2>1. Ask(s) => stat' \in [Sessions -> Nat] /\ asked' \in [Sessions -> Nat]
    BY <1>1 DEF Ask
  <2>2. Advise(s) => stat' \in [Sessions -> Nat] /\ asked' \in [Sessions -> Nat]
    BY <1>1 DEF Advise, Unasked
  <2>3. Warn(s) \/ Kill(s) => Unasked(s)
    BY DEF Warn, Kill, Idle
  <2>4. Unasked(s) => stat' \in [Sessions -> Nat] /\ asked' \in [Sessions -> Nat]
    BY <1>1 DEF Unasked
  <2> QED BY <1>1, <2>1, <2>2, <2>3, <2>4, Touches DEF Listed
<1>4. seen' \in [Sessions -> Nat] /\ misread' \in SUBSET Sessions
  <2>1. CASE ATool(s)
    BY <1>1, <1>2, <2>1 DEF ATool, Tool
  <2>2. CASE Track(s)
    BY <1>1, <2>2 DEF Track
  <2>3. New(s) \/ Disarm(s) => seen' \in [Sessions -> Nat] /\ misread' \in SUBSET Sessions
    BY <1>1 DEF New, Disarm
  <2> QED BY <1>1, <2>1, <2>2, <2>3, Touches DEF Listed
<1> QED BY <1>2, <1>3, <1>4

LEMMA HookTalk ==
  ASSUME TypeOK, NEW s \in Sessions, Hook(s)
  PROVE  TalkOK'
<1> USE DEF TalkOK
<1>1. TalkOK /\ state[s].queued \in SUBSET Keys /\ Forbids \in Keys
  BY DEF TypeOK, StateOK, Forbids, Key, Keys
<1>2. text' \in [Sessions -> SUBSET Keys]
  <2>1. Forbid(s) \/ Drain(s) \/ Say(s) \/ Kill(s) => text' \in [Sessions -> SUBSET Keys]
    BY <1>1 DEF Forbid, Drain, Say, Kill, Idle
  <2> QED BY <1>1, <2>1, Touches DEF Listed
<1>3. told' \in [Sessions -> SUBSET Keys] /\ twice' \in [Sessions -> SUBSET Keys]
  <2>1. CASE Say(s)
    BY <1>1, <2>1 DEF Say
  <2>2. CASE New(s)
    BY <1>1, <2>2 DEF New
  <2> QED BY <1>1, <2>1, <2>2, Touches DEF Listed
<1> QED BY <1>2, <1>3

LEMMA HookReading ==
  ASSUME TypeOK, NEW s \in Sessions, Len(got[s]) <= Window, Hook(s)
  PROVE  ReadingOK'
<1>1. ReadingOK
  BY DEF TypeOK
<1>2. CASE Reads(s, "exhaust") \/ Reads(s, "ledger")
  BY <1>2, ReadsIs DEF ReadingOK, Names
<1>3. CASE Forget(s)
  BY <1>1, <1>3, EmptySeq DEF ReadingOK, Forget
<1>4. CASE UNCHANGED reading
  BY <1>1, <1>4 DEF ReadingOK, reading
<1>5. ReadWindow(s) \/ FindWatermark(s) => Reads(s, "exhaust") \/ Reads(s, "ledger")
  BY DEF ReadWindow, FindWatermark
<1>6. Turn(s) \/ BookMeasured(s) \/ Kill(s) => Forget(s)
  BY DEF Turn, BookMeasured, Kill, Idle
<1> QED BY <1>2, <1>3, <1>4, <1>5, <1>6, Touches DEF Listed

LEMMA HookUsage ==
  ASSUME TypeOK, NEW s \in Sessions, Hook(s)
  PROVE  UsageOK'
<1>1. UsageOK
  BY DEF TypeOK
<1>2. CASE Stop(s)
  BY <1>1, <1>2 DEF UsageOK, Stop
<1>3. CASE Rewind(s)
  <2>1. PICK n \in 0..(counter[s] - 1) : counter' = [counter EXCEPT ![s] = n]
    BY <1>3 DEF Rewind
  <2>2. n \in Nat /\ spent' = spent
    BY <1>1, <1>3 DEF UsageOK, Rewind
  <2> QED BY <1>1, <2>1, <2>2 DEF UsageOK
<1> QED BY <1>1, <1>2, <1>3, Touches DEF Listed, UsageOK, usage

LEMMA HookStaging ==
  ASSUME TypeOK, IsFiniteSet(pending), NEW s \in Sessions, Kept(s), Hook(s)
  PROVE  StagingOK' /\ IsFiniteSet(pending')
<1> USE DEF StagingOK
<1>1. StagingOK
  BY DEF TypeOK
<1>2. Recurring \in Ids /\ StagingFull \in Ids /\ s \in Ids
  BY DEF Ids
<1>3. todo[s] \in Seq(Ids) /\ (todo[s] # <<>> => todo[s][1] \in Ids /\ Tail(todo[s]) \in Seq(Ids))
  BY <1>1
<1>4. CASE Turn(s)
  <2> DEFINE lines == SelectSeq(got[s], LAMBDA line : line # Torn)
             rows == [i \in DOMAIN lines |-> <<lines[i].kind, lines[i].of>>]
  <2>1. todo' = [todo EXCEPT ![s] = Traps(s, rows)] /\ UNCHANGED <<staging, settling, have, known>>
    BY <1>4 DEF Turn
  <2> HIDE DEF rows
  <2>2. /\ <<s>> \in Seq(Ids) /\ <<Recurring>> \in Seq(Ids) /\ <<>> \in Seq(Ids)
        /\ <<s>> \o <<Recurring>> \in Seq(Ids) /\ <<s>> \o <<>> \in Seq(Ids)
        /\ <<>> \o <<Recurring>> \in Seq(Ids) /\ <<>> \o <<>> \in Seq(Ids)
    BY <1>2
  <2>3. Traps(s, rows) \in Seq(Ids)
    BY <2>2 DEF Traps
  <2> QED BY <1>1, <2>1, <2>3 DEF staging
<1>5. CASE Skip(s)
  BY <1>1, <1>3, <1>5 DEF Skip, staging
<1>6. CASE Check(s)
  <2>1. Pending(s) \in Nat
    BY <1>1, FS_CardinalityType DEF Pending
  <2>2. <<StagingFull>> \in Seq(Ids) /\ <<>> \in Seq(Ids)
    BY <1>2
  <2> QED BY <1>1, <1>6, <2>1, <2>2, ZenonT(30) DEF Check, staging
<1>7. CASE Rename(s)
  <2>1. todo[s][1] \in Ids /\ have[s] + 1 \in Nat
    <3>1. todo[s] # <<>>
      BY <1>7 DEF Rename, Goes, Kept
    <3>2. have[s] \in Nat \/ have[s] = -1
      BY <1>1
    <3> QED BY <1>3, <3>1, <3>2
  <2>2. pending' = pending \cup {todo[s][1]} /\ IsFiniteSet(pending \cup {todo[s][1]})
    BY <1>7, FS_AddElement DEF Rename
  <2> QED BY <1>1, <1>7, <2>1, <2>2 DEF Rename
<1>8. CASE Note(s)
  <2>1. todo[s] # <<>>
    BY <1>8 DEF Note, Goes, Kept
  <2>2. (IF todo[s][1] = StagingFull THEN <<>> ELSE Tail(todo[s])) \in Seq(Ids)
    BY <1>3, <2>1, EmptySeq
  <2> QED BY <1>1, <1>8, <2>2 DEF Note, staging
<1>9. CASE Govern(s)
  BY <1>1, <1>9 DEF Govern, staging
<1>10. CASE Kill(s)
  BY <1>1, <1>10, EmptySeq DEF Kill, Idle, staging
<1>11. CASE Stop(s)
  BY <1>1, <1>11 DEF Stop, staging, locals
<1> QED BY <1>1, <1>4, <1>5, <1>6, <1>7, <1>8, <1>9, <1>10, <1>11, Touches DEF Listed
-----------------------------------------------------------------------------
(* What a session was told, what it remembers, what it stages.             *)


LEMMA HookReminded ==
  ASSUME TypeOK, NEW s \in Sessions, Reminded(s), Hook(s)
  PROVE  Reminded(s)'
<1>0. /\ \A x \in {state, at, text, told, twice} : DOMAIN x = Sessions
      /\ state[s] = [compacted |-> state[s].compacted, read |-> state[s].read, warned |-> state[s].warned,
                     queued |-> state[s].queued, shown |-> state[s].shown, events |-> state[s].events]
  BY DEF TypeOK, StateOK, TalkOK, ControlOK
<1>1. CASE ATool(s)
  BY <1>0, <1>1 DEF Reminded, ATool, Tool, Begin, Goes, Update, disk, staging, reading, locals, talk, usage
<1>2. CASE Capture(s)
  BY <1>0, <1>2 DEF Reminded, Capture, Begin, Goes, Update, disk, staging, reading, locals, talk, usage
<1>3. CASE Cadence(s)
  BY <1>0, <1>3 DEF Reminded, Cadence, Queue, Begin, Goes, Update, disk, staging, reading, locals, talk, usage
<1>4. CASE SelfRead(s)
  BY <1>0, <1>4 DEF Reminded, SelfRead, Begin, Goes, Update, disk, staging, reading, locals, talk, usage
<1>5. CASE Track(s)
  BY <1>0, <1>5 DEF Reminded, Track, Begin, Goes, Update, disk, staging, reading, locals, talk, usage
<1>6. CASE Ask(s)
  BY <1>0, <1>6 DEF Reminded, Ask, Begin, Goes, Update, disk, staging, reading, locals, talk, usage
<1>7. CASE Advise(s)
  BY <1>0, <1>7 DEF Reminded, Advise, Begin, Goes, Update, disk, staging, reading, locals, talk, usage
<1>8. CASE Warn(s)
  BY <1>0, <1>8 DEF Reminded, Warn, Begin, Goes, Update, disk, staging, reading, locals, talk, usage
<1>9. CASE Breach(s)
  BY <1>0, <1>9 DEF Reminded, Breach, Begin, Goes, Update, disk, staging, reading, locals, talk, usage
<1>10. CASE Forbid(s)
  BY <1>0, <1>10 DEF Reminded, Forbid, Queue, Forbids, Begin, Goes, Update, disk, staging, reading, locals, talk, usage
<1>11. CASE Prompt(s)
  BY <1>0, <1>11 DEF Reminded, Prompt, Begin, Goes, Update, disk, staging, reading, locals, talk, usage
<1>12. CASE Drain(s)
  BY <1>0, <1>12 DEF Reminded, Drain, Drained, Begin, Goes, Update, disk, staging, reading, locals, talk, usage
<1>13. CASE Say(s)
  BY <1>0, <1>13 DEF Reminded, Say, Begin, Goes, Update, disk, staging, reading, locals, talk, usage
<1>14. CASE Book(s)
  BY <1>0, <1>14 DEF Reminded, Book, Begin, Goes, Update, disk, staging, reading, locals, talk, usage
<1>15. CASE New(s)
  BY <1>0, <1>15 DEF Reminded, New, Begin, Goes, Update, disk, staging, reading, locals, talk, usage
<1>16. CASE Reset(s)
  BY <1>0, <1>16 DEF Reminded, Reset, FreshState, Begin, Goes, Update, disk, staging, reading, locals, talk, usage
<1>17. CASE Resume(s)
  BY <1>0, <1>17 DEF Reminded, Resume, Begin, Goes, Update, disk, staging, reading, locals, talk, usage
<1>18. CASE Compact(s)
  BY <1>0, <1>18 DEF Reminded, Compact, Begin, Goes, Update, disk, staging, reading, locals, talk, usage
<1>19. CASE Disarm(s)
  BY <1>0, <1>19 DEF Reminded, Disarm, Begin, Goes, Update, disk, staging, reading, locals, talk, usage
<1>20. CASE Stop(s)
  BY <1>0, <1>20 DEF Reminded, Stop, Begin, Goes, Update, disk, staging, reading, locals, talk, usage
<1>21. CASE ReadWindow(s)
  BY <1>0, <1>21 DEF Reminded, ReadWindow, Begin, Goes, Update, disk, staging, reading, locals, talk, usage
<1>22. CASE Turn(s)
  BY <1>0, <1>22 DEF Reminded, Turn, Begin, Goes, Update, disk, staging, reading, locals, talk, usage
<1>23. CASE Skip(s)
  BY <1>0, <1>23 DEF Reminded, Skip, Begin, Goes, Update, disk, staging, reading, locals, talk, usage
<1>24. CASE Check(s)
  BY <1>0, <1>24 DEF Reminded, Check, Begin, Goes, Update, disk, staging, reading, locals, talk, usage
<1>25. CASE Rename(s)
  BY <1>0, <1>25 DEF Reminded, Rename, Begin, Goes, Update, disk, staging, reading, locals, talk, usage
<1>26. CASE Note(s)
  BY <1>0, <1>26 DEF Reminded, Note, Begin, Goes, Update, disk, staging, reading, locals, talk, usage
<1>27. CASE Govern(s)
  BY <1>0, <1>27 DEF Reminded, Govern, Queue, Begin, Goes, Update, disk, staging, reading, locals, talk, usage
<1>28. CASE FindWatermark(s)
  BY <1>0, <1>28 DEF Reminded, FindWatermark, Begin, Goes, Update, disk, staging, reading, locals, talk, usage
<1>29. CASE BookMeasured(s)
  BY <1>0, <1>29 DEF Reminded, BookMeasured, Begin, Goes, Update, disk, staging, reading, locals, talk, usage
<1>30. CASE Rewind(s)
  BY <1>0, <1>30 DEF Reminded, Rewind, Begin, Goes, Update, disk, staging, reading, locals, talk, usage
<1>31. CASE Kill(s)
  BY <1>0, <1>31 DEF Reminded, Kill, Idle, Forget, Begin, Goes, Update, disk, staging, reading, locals, talk, usage
<1> QED BY <1>1, <1>2, <1>3, <1>4, <1>5, <1>6, <1>7, <1>8, <1>9, <1>10, <1>11, <1>12, <1>13, <1>14, <1>15, <1>16, <1>17, <1>18, <1>19, <1>20, <1>21, <1>22, <1>23, <1>24, <1>25, <1>26, <1>27, <1>28, <1>29, <1>30, <1>31 DEF Hook, ATool

LEMMA HookRemembered ==
  ASSUME TypeOK, NEW s \in Sessions, Remembered(s), Hook(s)
  PROVE  Remembered(s)'
<1>0. /\ \A x \in {state, at, tool, stat, asked, seen} : DOMAIN x = Sessions
      /\ state[s] = [compacted |-> state[s].compacted, read |-> state[s].read, warned |-> state[s].warned,
                     queued |-> state[s].queued, shown |-> state[s].shown, events |-> state[s].events]
      /\ state[s].read \in Nat /\ version \in Nat /\ tool \in [Sessions -> Tools \cup {"none"}]
  BY DEF TypeOK, StateOK, FileOK, ControlOK
<1>1. CASE ATool(s)
  BY <1>0, <1>1 DEF Remembered, ATool, Tool, Saved, Begin, Goes, Update, disk, staging, reading, locals, talk, usage, file, Sure, Recorded
<1>2. CASE Capture(s)
  BY <1>0, <1>2 DEF Remembered, Capture, Begin, Goes, Update, disk, staging, reading, locals, talk, usage, file, Sure, Recorded
<1>3. CASE Cadence(s)
  BY <1>0, <1>3 DEF Remembered, Cadence, Queue, Begin, Goes, Update, disk, staging, reading, locals, talk, usage, file, Sure, Recorded
<1>4. CASE SelfRead(s)
  BY <1>0, <1>4 DEF Remembered, SelfRead, Begin, Goes, Update, disk, staging, reading, locals, talk, usage, file, Sure, Recorded
<1>5. CASE Track(s)
  BY <1>0, <1>5 DEF Remembered, Track, Begin, Goes, Update, disk, staging, reading, locals, talk, usage, file, Sure, Recorded
<1>6. CASE Ask(s)
  BY <1>0, <1>6 DEF Remembered, Ask, Begin, Goes, Update, disk, staging, reading, locals, talk, usage, file, Sure, Recorded
<1>7. CASE Advise(s)
  BY <1>0, <1>7 DEF Remembered, Advise, Unasked, Repeated, Begin, Goes, Update, disk, staging, reading, locals, talk, usage, file, Sure, Recorded
<1>8. CASE Warn(s)
  BY <1>0, <1>8 DEF Remembered, Warn, Unasked, Begin, Goes, Update, disk, staging, reading, locals, talk, usage, file, Sure, Recorded
<1>9. CASE Breach(s)
  BY <1>0, <1>9 DEF Remembered, Breach, Begin, Goes, Update, disk, staging, reading, locals, talk, usage, file, Sure, Recorded
<1>10. CASE Forbid(s)
  BY <1>0, <1>10 DEF Remembered, Forbid, Queue, Forbids, Begin, Goes, Update, disk, staging, reading, locals, talk, usage, file, Sure, Recorded
<1>11. CASE Prompt(s)
  BY <1>0, <1>11 DEF Remembered, Prompt, Begin, Goes, Update, disk, staging, reading, locals, talk, usage, file, Sure, Recorded
<1>12. CASE Drain(s)
  BY <1>0, <1>12 DEF Remembered, Drain, Drained, Begin, Goes, Update, disk, staging, reading, locals, talk, usage, file, Sure, Recorded
<1>13. CASE Say(s)
  BY <1>0, <1>13 DEF Remembered, Say, Begin, Goes, Update, disk, staging, reading, locals, talk, usage, file, Sure, Recorded
<1>14. CASE Book(s)
  BY <1>0, <1>14 DEF Remembered, Book, Begin, Goes, Update, disk, staging, reading, locals, talk, usage, file, Sure, Recorded
<1>15. CASE New(s)
  BY <1>0, <1>15 DEF Remembered, New, Begin, Goes, Update, disk, staging, reading, locals, talk, usage, file, Sure, Recorded
<1>16. CASE Reset(s)
  BY <1>0, <1>16 DEF Remembered, Reset, FreshState, Begin, Goes, Update, disk, staging, reading, locals, talk, usage, file, Sure, Recorded
<1>17. CASE Resume(s)
  BY <1>0, <1>17 DEF Remembered, Resume, Begin, Goes, Update, disk, staging, reading, locals, talk, usage, file, Sure, Recorded
<1>18. CASE Compact(s)
  BY <1>0, <1>18 DEF Remembered, Compact, Begin, Goes, Update, disk, staging, reading, locals, talk, usage, file, Sure, Recorded
<1>19. CASE Disarm(s)
  BY <1>0, <1>19 DEF Remembered, Disarm, Begin, Goes, Update, disk, staging, reading, locals, talk, usage, file, Sure, Recorded
<1>20. CASE Stop(s)
  BY <1>0, <1>20 DEF Remembered, Stop, Begin, Goes, Update, disk, staging, reading, locals, talk, usage, file, Sure, Recorded
<1>21. CASE ReadWindow(s)
  BY <1>0, <1>21 DEF Remembered, ReadWindow, Begin, Goes, Update, disk, staging, reading, locals, talk, usage, file, Sure, Recorded
<1>22. CASE Turn(s)
  BY <1>0, <1>22 DEF Remembered, Turn, Begin, Goes, Update, disk, staging, reading, locals, talk, usage, file, Sure, Recorded
<1>23. CASE Skip(s)
  BY <1>0, <1>23 DEF Remembered, Skip, Begin, Goes, Update, disk, staging, reading, locals, talk, usage, file, Sure, Recorded
<1>24. CASE Check(s)
  BY <1>0, <1>24 DEF Remembered, Check, Begin, Goes, Update, disk, staging, reading, locals, talk, usage, file, Sure, Recorded
<1>25. CASE Rename(s)
  BY <1>0, <1>25 DEF Remembered, Rename, Begin, Goes, Update, disk, staging, reading, locals, talk, usage, file, Sure, Recorded
<1>26. CASE Note(s)
  BY <1>0, <1>26 DEF Remembered, Note, Begin, Goes, Update, disk, staging, reading, locals, talk, usage, file, Sure, Recorded
<1>27. CASE Govern(s)
  BY <1>0, <1>27 DEF Remembered, Govern, Queue, Begin, Goes, Update, disk, staging, reading, locals, talk, usage, file, Sure, Recorded
<1>28. CASE FindWatermark(s)
  BY <1>0, <1>28 DEF Remembered, FindWatermark, Begin, Goes, Update, disk, staging, reading, locals, talk, usage, file, Sure, Recorded
<1>29. CASE BookMeasured(s)
  BY <1>0, <1>29 DEF Remembered, BookMeasured, Begin, Goes, Update, disk, staging, reading, locals, talk, usage, file, Sure, Recorded
<1>30. CASE Rewind(s)
  BY <1>0, <1>30 DEF Remembered, Rewind, Begin, Goes, Update, disk, staging, reading, locals, talk, usage, file, Sure, Recorded
<1>31. CASE Kill(s)
  BY <1>0, <1>31 DEF Remembered, Kill, Idle, Unasked, Forget, Begin, Goes, Update, disk, staging, reading, locals, talk, usage, file, Sure, Recorded
<1> QED BY <1>1, <1>2, <1>3, <1>4, <1>5, <1>6, <1>7, <1>8, <1>9, <1>10, <1>11, <1>12, <1>13, <1>14, <1>15, <1>16, <1>17, <1>18, <1>19, <1>20, <1>21, <1>22, <1>23, <1>24, <1>25, <1>26, <1>27, <1>28, <1>29, <1>30, <1>31 DEF Hook, ATool

LEMMA HookKept ==
  ASSUME TypeOK, NEW s \in Sessions, Kept(s), Hook(s)
  PROVE  Kept(s)'
<1>0. /\ \A x \in {at, todo, known} : DOMAIN x = Sessions
  BY DEF TypeOK, StagingOK, ControlOK
<1>1. CASE ATool(s)
  BY <1>0, <1>1 DEF Kept, ATool, Tool, Begin, Goes, Update, disk, staging, reading, locals, talk, usage
<1>2. CASE Capture(s)
  BY <1>0, <1>2 DEF Kept, Capture, Begin, Goes, Update, disk, staging, reading, locals, talk, usage
<1>3. CASE Cadence(s)
  BY <1>0, <1>3 DEF Kept, Cadence, Begin, Goes, Update, disk, staging, reading, locals, talk, usage
<1>4. CASE SelfRead(s)
  BY <1>0, <1>4 DEF Kept, SelfRead, Begin, Goes, Update, disk, staging, reading, locals, talk, usage
<1>5. CASE Track(s)
  BY <1>0, <1>5 DEF Kept, Track, Begin, Goes, Update, disk, staging, reading, locals, talk, usage
<1>6. CASE Ask(s)
  BY <1>0, <1>6 DEF Kept, Ask, Begin, Goes, Update, disk, staging, reading, locals, talk, usage
<1>7. CASE Advise(s)
  BY <1>0, <1>7 DEF Kept, Advise, Begin, Goes, Update, disk, staging, reading, locals, talk, usage
<1>8. CASE Warn(s)
  BY <1>0, <1>8 DEF Kept, Warn, Begin, Goes, Update, disk, staging, reading, locals, talk, usage
<1>9. CASE Breach(s)
  BY <1>0, <1>9 DEF Kept, Breach, Begin, Goes, Update, disk, staging, reading, locals, talk, usage
<1>10. CASE Forbid(s)
  BY <1>0, <1>10 DEF Kept, Forbid, Begin, Goes, Update, disk, staging, reading, locals, talk, usage
<1>11. CASE Prompt(s)
  BY <1>0, <1>11 DEF Kept, Prompt, Begin, Goes, Update, disk, staging, reading, locals, talk, usage
<1>12. CASE Drain(s)
  BY <1>0, <1>12 DEF Kept, Drain, Begin, Goes, Update, disk, staging, reading, locals, talk, usage
<1>13. CASE Say(s)
  BY <1>0, <1>13 DEF Kept, Say, Begin, Goes, Update, disk, staging, reading, locals, talk, usage
<1>14. CASE Book(s)
  BY <1>0, <1>14 DEF Kept, Book, Begin, Goes, Update, disk, staging, reading, locals, talk, usage
<1>15. CASE New(s)
  BY <1>0, <1>15 DEF Kept, New, Begin, Goes, Update, disk, staging, reading, locals, talk, usage
<1>16. CASE Reset(s)
  BY <1>0, <1>16 DEF Kept, Reset, Begin, Goes, Update, disk, staging, reading, locals, talk, usage
<1>17. CASE Resume(s)
  BY <1>0, <1>17 DEF Kept, Resume, Begin, Goes, Update, disk, staging, reading, locals, talk, usage
<1>18. CASE Compact(s)
  BY <1>0, <1>18 DEF Kept, Compact, Begin, Goes, Update, disk, staging, reading, locals, talk, usage
<1>19. CASE Disarm(s)
  BY <1>0, <1>19 DEF Kept, Disarm, Begin, Goes, Update, disk, staging, reading, locals, talk, usage
<1>20. CASE Stop(s)
  BY <1>0, <1>20 DEF Kept, Stop, Begin, Goes, Update, disk, staging, reading, locals, talk, usage
<1>21. CASE ReadWindow(s)
  BY <1>0, <1>21 DEF Kept, ReadWindow, Begin, Goes, Update, disk, staging, reading, locals, talk, usage
<1>22. CASE Turn(s)
  BY <1>0, <1>22 DEF Kept, Turn, Begin, Goes, Update, disk, staging, reading, locals, talk, usage
<1>23. CASE Skip(s)
  BY <1>0, <1>23 DEF Kept, Skip, Begin, Goes, Update, disk, staging, reading, locals, talk, usage
<1>24. CASE Check(s)
  BY <1>0, <1>24 DEF Kept, Check, Staged, Begin, Goes, Update, disk, staging, reading, locals, talk, usage
<1>25. CASE Rename(s)
  BY <1>0, <1>25 DEF Kept, Rename, Begin, Goes, Update, disk, staging, reading, locals, talk, usage
<1>26. CASE Note(s)
  BY <1>0, <1>26 DEF Kept, Note, Begin, Goes, Update, disk, staging, reading, locals, talk, usage
<1>27. CASE Govern(s)
  BY <1>0, <1>27 DEF Kept, Govern, Begin, Goes, Update, disk, staging, reading, locals, talk, usage
<1>28. CASE FindWatermark(s)
  BY <1>0, <1>28 DEF Kept, FindWatermark, Begin, Goes, Update, disk, staging, reading, locals, talk, usage
<1>29. CASE BookMeasured(s)
  BY <1>0, <1>29 DEF Kept, BookMeasured, Begin, Goes, Update, disk, staging, reading, locals, talk, usage
<1>30. CASE Rewind(s)
  BY <1>0, <1>30 DEF Kept, Rewind, Begin, Goes, Update, disk, staging, reading, locals, talk, usage
<1>31. CASE Kill(s)
  BY <1>0, <1>31 DEF Kept, Kill, Idle, Begin, Goes, Update, disk, staging, reading, locals, talk, usage
<1> QED BY <1>1, <1>2, <1>3, <1>4, <1>5, <1>6, <1>7, <1>8, <1>9, <1>10, <1>11, <1>12, <1>13, <1>14, <1>15, <1>16, <1>17, <1>18, <1>19, <1>20, <1>21, <1>22, <1>23, <1>24, <1>25, <1>26, <1>27, <1>28, <1>29, <1>30, <1>31 DEF Hook, ATool
-----------------------------------------------------------------------------
(* The streams and the bills.                                              *)

LEMMA PutStreaming ==
  ASSUME TypeOK, Streaming, NEW name \in Names, NEW line \in Lines, Put(name, line),
         name = "ledger" /\ line.of \in Sessions => line.kind = "measured"
  PROVE  Streaming'
<1> DEFINE R == Rotated(streams[name], setup.cap)
           new == [line EXCEPT !.n = appended[name] + 1]
<1>1. /\ streams \in [Names -> Streams] /\ appended \in [Names -> Nat] /\ "ledger" \in Names
      /\ streams[name] \in Streams /\ appended[name] \in Nat
  BY DEF TypeOK, DiskOK, Streams, Names
<1>2. /\ R \in Streams /\ Carried(streams[name], R)
      /\ new \in Lines /\ new.n = appended[name] + 1 /\ new.kind = line.kind /\ new.of = line.of
      /\ streams' = [streams EXCEPT ![name] = Extended(R, new)]
      /\ appended' = [appended EXCEPT ![name] = @ + 1]
  BY PutIs
<1> HIDE DEF R, new
<1>3. Numbered(Extended(R, new), appended[name] + 1)
  <2>1. Numbered(R, appended[name])
    BY <1>1, <1>2, NumberedCarried DEF Streaming
  <2> QED BY <1>1, <1>2, <2>1, NumberedExtended
<1>4. \A x \in Names : Numbered(streams'[x], appended'[x])
  BY <1>1, <1>2, <1>3 DEF Streaming
<1>5. Billing(streams'["ledger"])
  <2>1. CASE name = "ledger"
    <3>1. Billing(R)
      BY <1>1, <1>2, <2>1, BillingCarried DEF Streaming
    <3>2. Billing(Extended(R, new))
      BY <1>2, <2>1, <3>1, BillingExtended
    <3> QED BY <1>1, <1>2, <2>1, <3>2
  <2>2. CASE name # "ledger"
    BY <1>1, <1>2, <2>2 DEF Streaming
  <2> QED BY <2>1, <2>2
<1> QED BY <1>4, <1>5 DEF Streaming

LEMMA HookStreaming ==
  ASSUME TypeOK, Streaming, NEW s \in Sessions, Hook(s)
  PROVE  Streaming'
<1>1. /\ streams \in [Names -> Streams] /\ appended \in [Names -> Nat] /\ "ledger" \in Names
      /\ NoOne \notin Sessions
  BY SessionsAssumption DEF TypeOK, DiskOK, Streams, Names
<1>2. CASE UNCHANGED disk
  BY <1>2 DEF Streaming, disk
<1>3. CASE Kill(s)
  <2>1. \A name \in Names : /\ streams'[name] \in Streams /\ Carried(streams[name], streams'[name])
                            /\ appended'[name] = appended[name]
    BY <1>3, KillIs
  <2>2. \A name \in Names : Numbered(streams'[name], appended'[name])
    BY <1>1, <2>1, NumberedCarried DEF Streaming
  <2>3. Billing(streams'["ledger"])
    BY <1>1, <2>1, BillingCarried DEF Streaming
  <2> QED BY <2>2, <2>3 DEF Streaming
<1>4. CASE \E name \in Names, line \in Lines :
             /\ Put(name, line)
             /\ name = "ledger" => line.of = NoOne \/ (BookMeasured(s) /\ line.of = s /\ line.kind = "measured")
  BY <1>1, <1>4, PutStreaming
<1> QED BY <1>2, <1>3, <1>4, Appended

\* The ledger, as a session that books nothing itself sees it change.
Ledger == streams["ledger"]
LedgerMoves(r) ==
  \/ Ledger' = Ledger
  \/ Ledger' \in Streams /\ Carried(Ledger, Ledger')
  \/ \E R \in Streams, line \in Lines : Carried(Ledger, R) /\ line.of # r /\ Ledger' = Extended(R, line)

LEMMA PutLedger ==
  ASSUME TypeOK, NEW r \in Sessions, NEW name \in Names, NEW line \in Lines, Put(name, line),
         name = "ledger" => line.of # r
  PROVE  LedgerMoves(r)
<1> DEFINE R == Rotated(streams[name], setup.cap)
           new == [line EXCEPT !.n = appended[name] + 1]
<1>1. streams \in [Names -> Streams] /\ "ledger" \in Names
  BY DEF TypeOK, DiskOK, Streams, Names
<1>2. /\ R \in Streams /\ Carried(streams[name], R) /\ new \in Lines /\ new.of = line.of
      /\ streams' = [streams EXCEPT ![name] = Extended(R, new)]
  BY PutIs
<1> HIDE DEF R, new
<1>3. CASE name = "ledger"
  <2>1. Ledger' = Extended(R, new) /\ Carried(Ledger, R) /\ new.of # r
    BY <1>1, <1>2, <1>3 DEF Ledger
  <2> QED BY <1>2, <2>1 DEF LedgerMoves
<1>4. CASE name # "ledger"
  BY <1>1, <1>2, <1>4 DEF LedgerMoves, Ledger
<1> QED BY <1>3, <1>4

LEMMA HookLedger ==
  ASSUME TypeOK, NEW s \in Sessions, Hook(s), NEW r \in Sessions, r # s \/ ~BookMeasured(s)
  PROVE  LedgerMoves(r)
<1>1. "ledger" \in Names /\ NoOne \notin Sessions
  BY SessionsAssumption DEF Names
<1>2. CASE UNCHANGED disk
  BY <1>2 DEF LedgerMoves, Ledger, disk
<1>3. CASE Kill(s)
  BY <1>1, <1>3, KillIs DEF LedgerMoves, Ledger
<1>4. CASE \E name \in Names, line \in Lines :
             /\ Put(name, line)
             /\ name = "ledger" => line.of = NoOne \/ (BookMeasured(s) /\ line.of = s /\ line.kind = "measured")
  BY <1>1, <1>4, PutLedger
<1> QED BY <1>2, <1>3, <1>4, Appended

LEMMA MovesCovers ==
  ASSUME TypeOK, NEW r \in Sessions, LedgerMoves(r), NEW now \in Nat, NEW total \in Nat,
         Covers(r, Ledger, now, total)
  PROVE  Covers(r, Ledger', now, total)
<1>1. Ledger \in Streams
  BY DEF TypeOK, DiskOK, Streams, Names, Ledger
<1>2. CASE Ledger' = Ledger
  BY <1>2
<1>3. CASE Ledger' \in Streams /\ Carried(Ledger, Ledger')
  BY <1>1, <1>3, CoversCarried
<1>4. ASSUME NEW R \in Streams, NEW line \in Lines, Carried(Ledger, R), line.of # r, Ledger' = Extended(R, line)
      PROVE  Covers(r, Ledger', now, total)
  <2>1. Covers(r, R, now, total)
    BY <1>1, <1>4, CoversCarried
  <2>2. Covers(r, Extended(R, line), now, total)
    BY <1>4, <2>1, CoversExtended
  <2> QED BY <1>4, <2>2
<1> QED BY <1>2, <1>3, <1>4 DEF LedgerMoves

LEMMA MovesLooked ==
  ASSUME TypeOK, NEW r \in Sessions, LedgerMoves(r), Looked(r), UNCHANGED <<got[r], k[r], whole[r]>>
  PROVE  Looked(r)'
<1>1. Ledger \in Streams /\ k[r] \in Nat
  <2>1. Ledger \in Streams
    BY DEF TypeOK, DiskOK, Streams, Names, Ledger
  <2>2. k[r] \in 1..4
    BY DEF TypeOK, ReadingOK
  <2> QED BY <2>1, <2>2
<1>2. Marks(r)' = Marks(r) /\ LastMark(r)' = LastMark(r)
  BY DEF Marks, LastMark, Latest
<1>3. \A j \in Nat : Beyond(r, Ledger, j) => Beyond(r, Ledger', j)
  <2>1. CASE Ledger' \in Streams /\ Carried(Ledger, Ledger')
    BY <1>1, <2>1, BeyondCarried
  <2>2. ASSUME NEW R \in Streams, NEW line \in Lines, Carried(Ledger, R), line.of # r, Ledger' = Extended(R, line),
               NEW j \in Nat, Beyond(r, Ledger, j)
        PROVE  Beyond(r, Ledger', j)
    <3>1. Beyond(r, R, j)
      BY <1>1, <2>2, BeyondCarried
    <3>2. Beyond(r, Extended(R, line), j)
      BY <2>2, <3>1, BeyondExtended
    <3> QED BY <2>2, <3>2
  <2> QED BY <2>1, <2>2 DEF LedgerMoves
<1>4. \A last : LastIs(r, Ledger, last) => LastIs(r, Ledger', last)
  <2>1. CASE Ledger' \in Streams /\ Carried(Ledger, Ledger')
    BY <1>1, <2>1, LastIsCarried
  <2>2. ASSUME NEW R \in Streams, NEW line \in Lines, Carried(Ledger, R), line.of # r, Ledger' = Extended(R, line),
               NEW last, LastIs(r, Ledger, last)
        PROVE  LastIs(r, Ledger', last)
    <3>1. LastIs(r, R, last)
      BY <1>1, <2>2, LastIsCarried
    <3>2. LastIs(r, Extended(R, line), last)
      BY <2>2, <3>1, LastIsExtended
    <3> QED BY <2>2, <3>2
  <2> QED BY <2>1, <2>2 DEF LedgerMoves
<1> QED BY <1>1, <1>2, <1>3, <1>4 DEF Looked, Ledger

\* A Stop reads one more file of the ledger.
LEMMA FindLooked ==
  ASSUME TypeOK, NEW s \in Sessions, Len(got[s]) <= Window, Looked(s), FindWatermark(s)
  PROVE  Looked(s)'
<1> DEFINE lines == Ledger.files[k[s]]
           budget == Window - Len(got[s])
           more == LastLines(lines, budget)
           d == Len(more)
           Mark(line) == line # Torn /\ line.kind = "measured" /\ line.of = s
<1>1. Ledger' = Ledger /\ Ledger \in Streams
  BY DEF FindWatermark, TypeOK, DiskOK, Streams, Names, Ledger, disk
<1>2. /\ k[s] \in 1..3 /\ lines \in Seq(Lines \cup {Torn}) /\ more \in Seq(Lines \cup {Torn})
      /\ d = IF Len(lines) <= budget THEN Len(lines) ELSE budget
      /\ \A i \in 1..d : more[i] = lines[i + (Len(lines) - d)]
      /\ got'[s] = more \o got[s] /\ k'[s] = k[s] + 1
      /\ whole'[s] = (whole[s] /\ budget > 0 /\ Len(lines) <= budget)
      /\ Len(more \o got[s]) = d + Len(got[s])
      /\ DOMAIN got'[s] = 1..(d + Len(got[s]))
  <2>1. "ledger" \in Names /\ Reads(s, "ledger")
    BY DEF FindWatermark, Names
  <2>2. /\ k[s] \in 1..3 /\ lines \in Seq(Lines \cup {Torn}) /\ more \in Seq(Lines \cup {Torn})
        /\ d = IF Len(lines) <= budget THEN Len(lines) ELSE budget
        /\ \A i \in 1..d : more[i] = lines[i + (Len(lines) - d)]
        /\ got' = [got EXCEPT ![s] = more \o got[s]] /\ k' = [k EXCEPT ![s] = @ + 1]
        /\ whole' = [whole EXCEPT ![s] = @ /\ budget > 0 /\ Len(lines) <= budget]
        /\ Len(more \o got[s]) = d + Len(got[s])
        /\ more \o got[s] \in Seq(Lines \cup {Torn})
    BY <2>1, ReadsIs DEF Ledger
  <2>3. DOMAIN got = Sessions /\ DOMAIN k = Sessions /\ DOMAIN whole = Sessions
    BY DEF TypeOK, ReadingOK
  <2> HIDE DEF lines, budget, more, d
  <2>4. got'[s] = more \o got[s] /\ k'[s] = k[s] + 1
    BY <2>2, <2>3
  <2>5. whole'[s] = (whole[s] /\ budget > 0 /\ Len(lines) <= budget)
    BY <2>2, <2>3
  <2>6. DOMAIN got'[s] = 1..(d + Len(got[s]))
    BY <2>2, <2>4
  <2> QED BY <2>2, <2>4, <2>5, <2>6
<1>3. /\ Len(got[s]) \in Nat /\ d \in Nat /\ Len(lines) \in Nat /\ budget \in Nat /\ Window \in Nat
      /\ got[s] \in Seq(Lines \cup {Torn})
  <2>1. got[s] \in Seq(Lines \cup {Torn}) /\ Window \in Nat
    BY SessionsAssumption DEF TypeOK, ReadingOK
  <2>2. lines \in Seq(Lines \cup {Torn}) /\ more \in Seq(Lines \cup {Torn}) /\ Len(got[s]) <= Window
    BY <1>2
  <2> HIDE DEF more, lines
  <2>3. Len(got[s]) \in Nat /\ Len(lines) \in Nat /\ Len(more) \in Nat
    BY <2>1, <2>2
  <2> QED BY <2>1, <2>2, <2>3
<1>4. /\ \A i \in 1..d : got'[s][i] = lines[i + (Len(lines) - d)]
      /\ \A i \in 1..Len(got[s]) : got'[s][i + d] = got[s][i]
  <2> HIDE DEF lines, budget, more
  <2>1. /\ \A i \in 1..Len(more) : (more \o got[s])[i] = more[i]
        /\ \A i \in (Len(more) + 1)..(Len(more) + Len(got[s])) : (more \o got[s])[i] = got[s][i - Len(more)]
    <3>1. more \in Seq(Lines \cup {Torn}) /\ got[s] \in Seq(Lines \cup {Torn})
      BY <1>2, <1>3
    <3> HIDE DEF d, Mark
    <3> QED BY <3>1, ConcatProperties
  <2>2. \A i \in 1..d : got'[s][i] = lines[i + (Len(lines) - d)]
    BY <1>2, <2>1
  <2>3. ASSUME NEW i \in 1..Len(got[s]) PROVE got'[s][i + d] = got[s][i]
    <3>1. i + d \in (d + 1)..(d + Len(got[s])) /\ (i + d) - d = i
      BY <1>3
    <3>2. (more \o got[s])[i + d] = got[s][(i + d) - d]
      BY <2>1, <3>1
    <3> QED BY <1>2, <3>1, <3>2
  <2> QED BY <2>2, <2>3
<1> HIDE DEF budget, more, d, Mark
<1>5. /\ \A i : i \in Marks(s)' <=> i \in 1..(d + Len(got[s])) /\ Mark(got'[s][i])
      /\ \A i : i \in Marks(s) <=> i \in 1..Len(got[s]) /\ Mark(got[s][i])
      /\ Marks(s)' \subseteq 1..(d + Len(got[s])) /\ Marks(s) \subseteq 1..Len(got[s])
  <2>1. DOMAIN got[s] = 1..Len(got[s])
    BY <1>3
  <2> QED BY <1>2, <2>1 DEF Marks, Mark
<1>6. \A i : i \in MarksIn(s, Ledger) <=> i \in Readable(Ledger) /\ Mark(At(Ledger, i))
  <2>1. \A i \in Readable(Ledger) : At(Ledger, i) # Torn
    BY <1>1, ReadableIs DEF At
  <2> QED BY <2>1 DEF MarksIn, Mark
<1>7. \A i \in 1..Len(lines) : Mark(lines[i]) => <<k[s], i>> \in MarksIn(s, Ledger) /\ At(Ledger, <<k[s], i>>) = lines[i]
  <2> SUFFICES ASSUME NEW i \in 1..Len(lines), Mark(lines[i])
               PROVE  <<k[s], i>> \in MarksIn(s, Ledger) /\ At(Ledger, <<k[s], i>>) = lines[i]
    OBVIOUS
  <2>1. <<k[s], i>> \in (1..3) \X Nat
    BY <1>2, <1>3
  <2>2. <<k[s], i>> \in Readable(Ledger)
    BY <1>1, <2>1, ReadableIs DEF Mark
  <2> QED BY <1>6, <2>2 DEF At
<1>8. \A p \in MarksIn(s, Ledger) : /\ p \in (1..3) \X Nat
                                    /\ p[1] = k[s] => p[2] \in 1..Len(lines) /\ Mark(lines[p[2]])
                                                      /\ At(Ledger, p) = lines[p[2]]
  BY <1>1, <1>6, ReadableIs DEF At
<1>9. ASSUME Marks(s) = {}, Len(got[s]) < Window
      PROVE  Beyond(s, Ledger, k[s])
  BY <1>9 DEF Looked, Ledger
<1>10. \A j \in Marks(s) : j + d \in Marks(s)' /\ got'[s][j + d] = got[s][j]
  <2> SUFFICES ASSUME NEW j \in Marks(s) PROVE j + d \in Marks(s)' /\ got'[s][j + d] = got[s][j]
    OBVIOUS
  <2>1. j \in 1..Len(got[s]) /\ Mark(got[s][j])
    BY <1>5
  <2>2. got'[s][j + d] = got[s][j] /\ j + d \in 1..(d + Len(got[s]))
    BY <1>3, <1>4, <2>1
  <2> QED BY <1>5, <2>1, <2>2
<1>11. LastMark(s)' = Latest(Marks(s)')
  BY DEF LastMark, Latest
<1>12. ASSUME Marks(s)' = {}, whole'[s] \/ Len(got'[s]) < Window
       PROVE  Beyond(s, Ledger, k'[s])
  <2>1. Len(lines) <= budget /\ budget > 0 /\ d = Len(lines)
    <3>1. Len(got'[s]) = d + Len(got[s])
      BY <1>2
    <3>2. budget = Window - Len(got[s])
      BY DEF budget
    <3> HIDE DEF lines
    <3>3. CASE whole'[s]
      BY <1>2, <1>3, <3>3
    <3>4. CASE Len(got'[s]) < Window
      <4>1. d < budget
        BY <1>3, <3>1, <3>2, <3>4
      <4> QED BY <1>2, <1>3, <4>1
    <3> QED BY <1>12, <3>3, <3>4
  <2>2. Marks(s) = {}
    BY <1>10, <1>12
  <2>3. Beyond(s, Ledger, k[s])
    BY <1>3, <1>9, <2>1, <2>2 DEF budget
  <2>4. ASSUME NEW p \in MarksIn(s, Ledger), p[1] = k[s] PROVE FALSE
    <3>1. p[2] \in 1..Len(lines) /\ Mark(lines[p[2]])
      BY <1>8, <2>4
    <3>2. p[2] \in 1..d /\ p[2] + (Len(lines) - d) = p[2] /\ p[2] \in 1..(d + Len(got[s]))
      <4> HIDE DEF lines
      <4> QED BY <1>3, <2>1, <3>1
    <3>3. got'[s][p[2]] = lines[p[2]]
      BY <1>4, <3>2
    <3> QED BY <1>5, <1>12, <3>1, <3>2, <3>3
  <2>5. \A p \in MarksIn(s, Ledger) : p[1] >= k[s] /\ p[1] # k[s] /\ p[1] \in Nat
    BY <1>8, <2>3, <2>4 DEF Beyond
  <2> QED BY <1>2, <2>5 DEF Beyond
<1>13. ASSUME Marks(s)' # {}
       PROVE  LastIs(s, Ledger, got'[s][LastMark(s)'])
  <2> DEFINE last == Latest(Marks(s)')
  <2>1. last \in Marks(s)' /\ \A j \in Marks(s)' : j <= last
    <3>1. d + Len(got[s]) \in Nat
      BY <1>3
    <3> QED BY <1>5, <1>13, <3>1, LatestIs
  <2>2. last \in 1..(d + Len(got[s])) /\ Mark(got'[s][last])
    BY <1>5, <2>1
  <2> HIDE DEF last
  <2>3. CASE Marks(s) # {}
    <3>1. /\ LastMark(s) \in Marks(s) /\ \A j \in Marks(s) : j <= LastMark(s)
          /\ LastMark(s) \in 1..Len(got[s])
      BY <2>3, LastMarkIs
    <3>2. LastMark(s) + d <= last
      BY <1>10, <2>1, <3>1
    <3>3. last - d \in 1..Len(got[s]) /\ (last - d) + d = last
      BY <1>3, <2>2, <3>1, <3>2
    <3>4. last - d \in Marks(s)
      BY <1>4, <1>5, <2>2, <3>3
    <3>5. last = LastMark(s) + d
      BY <1>3, <3>1, <3>2, <3>3, <3>4
    <3>6. got'[s][last] = got[s][LastMark(s)]
      BY <1>10, <3>1, <3>5
    <3>7. LastIs(s, Ledger, got[s][LastMark(s)])
      BY <2>3 DEF Looked, Ledger
    <3> QED BY <1>11, <3>6, <3>7 DEF last
  <2>4. CASE Marks(s) = {}
    <3>1. last \in 1..d
      <4>1. CASE last > d
        <5>1. last - d \in 1..Len(got[s]) /\ (last - d) + d = last
          BY <1>3, <2>2, <4>1
        <5>2. last - d \in Marks(s)
          BY <1>4, <1>5, <2>2, <5>1
        <5> QED BY <2>4, <5>2
      <4> QED BY <1>3, <2>2, <4>1
    <3> DEFINE e == Len(lines) - d
    <3>2. e \in Nat
      BY <1>2, <1>3
    <3>3. last + e \in 1..Len(lines) /\ got'[s][last] = lines[last + e]
      <4> HIDE DEF lines
      <4>1. last + e \in 1..Len(lines)
        BY <1>3, <3>1, <3>2
      <4>2. got'[s][last] = lines[last + e]
        BY <1>4, <3>1
      <4> QED BY <4>1, <4>2
    <3>4. <<k[s], last + e>> \in MarksIn(s, Ledger)
      BY <1>7, <2>2, <3>3
    <3>5. Beyond(s, Ledger, k[s])
      <4>1. d > 0 /\ budget > 0
        BY <1>2, <1>3, <3>1
      <4> QED BY <1>3, <1>9, <2>4, <4>1 DEF budget
    <3> SUFFICES ASSUME NEW p \in Readable(Ledger), Newest(s, Ledger, p)
                 PROVE  At(Ledger, p) = lines[last + e]
      BY <1>11, <3>3 DEF LastIs, last
    <3>6. /\ p \in MarksIn(s, Ledger) /\ ~Older(p, <<k[s], last + e>>)
          /\ p[1] >= k[s] /\ p \in (1..3) \X Nat
      BY <1>8, <3>4, <3>5 DEF Newest, Beyond
    <3>7. p[1] = k[s] /\ ~(p[2] < last + e)
      BY <1>2, <3>2, <3>6 DEF Older
    <3>8. p[2] \in 1..Len(lines) /\ Mark(lines[p[2]]) /\ At(Ledger, p) = lines[p[2]]
      BY <1>8, <3>6, <3>7
    <3>9. p[2] - e \in 1..d /\ (p[2] - e) + e = p[2]
      <4> HIDE DEF lines
      <4>1. /\ p[2] \in Nat /\ p[2] <= Len(lines) /\ p[2] >= last + e
            /\ last \in Nat /\ last >= 1 /\ last <= d
        BY <1>3, <3>1, <3>2, <3>7, <3>8
      <4> QED BY <1>3, <3>2, <4>1
    <3>10. got'[s][p[2] - e] = lines[p[2]]
      BY <1>4, <3>9
    <3>11. p[2] - e \in Marks(s)'
      BY <1>3, <1>5, <3>8, <3>9, <3>10
    <3>12. p[2] = last + e
      <4> HIDE DEF lines
      <4>1. p[2] - e <= last /\ p[2] \in Nat /\ last \in Nat /\ p[2] >= last + e
        BY <1>3, <2>1, <2>2, <3>2, <3>7, <3>8, <3>11
      <4> HIDE DEF e
      <4> QED BY <3>2, <4>1
    <3> QED BY <3>8, <3>12
  <2> QED BY <2>3, <2>4
<1> QED BY <1>1, <1>12, <1>13 DEF Looked, Ledger

LEMMA NewestExists ==
  ASSUME NEW s, NEW S \in Streams, MarksIn(s, S) # {}
  PROVE  \E p \in Readable(S) : Newest(s, S, p)
<1> DEFINE N == {p[1] : p \in MarksIn(s, S)}
<1>1. \A p \in MarksIn(s, S) : p \in Readable(S) /\ p \in (1..3) \X Nat /\ p[2] \in 1..Len(S.files[p[1]])
  BY ReadableIs DEF MarksIn
<1>2. PICK j \in N : \A i \in N : j <= i
  <2>1. N \subseteq Nat /\ N # {}
    BY <1>1
  <2> HIDE DEF N
  <2> QED BY <2>1, Least
<1> DEFINE M == {p[2] : p \in {q \in MarksIn(s, S) : q[1] = j}}
<1>3. j \in 1..3
  BY <1>1, <1>2
<1>4. Len(S.files[j]) \in Nat
  <2>1. S.files[j] \in Seq(Lines \cup {Torn})
    BY <1>3 DEF Streams
  <2> QED BY <2>1
<1>5. M \subseteq 1..Len(S.files[j]) /\ M # {}
  BY <1>1, <1>2
<1>6. Latest(M) \in M /\ \A i \in M : i <= Latest(M)
  <2> HIDE DEF M
  <2> QED BY <1>4, <1>5, LatestIs
<1>7. PICK p \in MarksIn(s, S) : p[1] = j /\ p[2] = Latest(M)
  BY <1>6
<1>8. ASSUME NEW q \in MarksIn(s, S), Older(p, q) PROVE FALSE
  <2>1. p[1] > q[1] \/ (p[1] = q[1] /\ p[2] < q[2])
    BY <1>8 DEF Older
  <2>2. q[1] \in N /\ q[1] \in 1..3 /\ q[2] \in Nat
    BY <1>1
  <2>3. CASE p[1] > q[1]
    BY <1>2, <1>3, <1>7, <2>2, <2>3
  <2>4. CASE p[1] = q[1] /\ p[2] < q[2]
    <3>1. q[2] \in M
      BY <1>7, <2>4
    <3>2. q[2] <= Latest(M) /\ p[2] \in Nat /\ p[2] = Latest(M)
      BY <1>1, <1>6, <1>7, <3>1
    <3> HIDE DEF M
    <3> QED BY <2>2, <2>4, <3>2
  <2> QED BY <2>1, <2>3, <2>4
<1> QED BY <1>1, <1>7, <1>8 DEF Newest

\* What the end of a turn bills was spent, and not billed before.
LEMMA BookedCovers ==
  ASSUME TypeOK, Billing(Ledger), NEW s \in Sessions, Covered(s), Looked(s), BookMeasured(s)
  PROVE  Covered(s)'
<1> DEFINE above == counter[s] - Watermark(s)
           line == Line("measured", s, IF above > 0 THEN above ELSE 0, counter[s])
           R == Rotated(streams["ledger"], setup.cap)
           new == [line EXCEPT !.n = appended["ledger"] + 1]
<1>1. /\ Ledger \in Streams /\ "ledger" \in Names /\ counter[s] \in Nat /\ spent[s] \in Nat
      /\ counter' = counter /\ spent' = spent
      /\ whole[s] \in BOOLEAN /\ k[s] \in 1..4 /\ k[s] > 3
  <2>1. Ledger \in Streams /\ "ledger" \in Names /\ counter[s] \in Nat /\ spent[s] \in Nat
    BY DEF TypeOK, DiskOK, UsageOK, Streams, Names, Ledger
  <2>2. whole[s] \in BOOLEAN /\ k[s] \in 1..4
    BY DEF TypeOK, ReadingOK
  <2>3. k[s] > 3 /\ counter' = counter /\ spent' = spent
    BY DEF BookMeasured, usage
  <2> QED BY <2>1, <2>2, <2>3
<1>2. Watermark(s) \in Nat /\ (Marks(s) # {} => Watermark(s) = got[s][LastMark(s)].sum)
  BY WatermarkType
<1>3. /\ line \in Lines /\ line.of = s /\ line.kind = "measured" /\ line.sum = counter[s]
      /\ line.delta = IF above > 0 THEN above ELSE 0
  BY <1>1, <1>2 DEF Line, Lines, Kinds, Ids
<1>4. Put("ledger", line)
  BY DEF BookMeasured
<1> HIDE DEF line, above
<1>5. /\ R \in Streams /\ Carried(Ledger, R)
      /\ new \in Lines /\ new.of = s /\ new.kind = "measured" /\ new.sum = counter[s]
      /\ new.delta = IF above > 0 THEN above ELSE 0
      /\ Ledger' = Extended(R, new)
  BY <1>1, <1>3, <1>4, PutIs DEF Ledger
<1> HIDE DEF R, new
<1>6. Covers(s, R, counter[s], spent[s]) /\ counter[s] <= spent[s] /\ Billed(s, R) <= spent[s] /\ Billed(s, R) \in Nat
  <2>1. Covers(s, R, counter[s], spent[s])
    BY <1>1, <1>5, CoversCarried DEF Covered, Ledger
  <2> QED BY <1>5, <2>1, BilledType DEF Covers
<1>7. Billed(s, R) + new.delta <= spent[s]
  <2>1. CASE above <= 0
    BY <1>1, <1>2, <1>5, <1>6, <2>1 DEF above
  <2>2. CASE above > 0 /\ MarksIn(s, R) = {}
    <3>1. Billed(s, R) = 0
      BY <1>1, <1>5, <2>2, BillingCarried, NothingBilled
    <3>2. new.delta <= counter[s] /\ new.delta \in Nat
      BY <1>1, <1>2, <1>5, <2>2 DEF above
    <3> QED BY <1>1, <1>6, <3>1, <3>2
  <2>3. CASE above > 0 /\ MarksIn(s, R) # {}
    <3>1. PICK p \in Readable(R) : Newest(s, R, p)
      BY <1>5, <2>3, NewestExists
    <3>2. Marks(s) # {}
      <4> SUFFICES ASSUME Marks(s) = {} PROVE FALSE
        OBVIOUS
      <4>1. whole[s]
        BY <1>1, <1>2, <2>3 DEF Watermark, above
      <4>2. Beyond(s, Ledger, k[s])
        BY <4>1 DEF Looked, Ledger
      <4>3. Beyond(s, R, k[s])
        BY <1>1, <1>5, <4>2, BeyondCarried
      <4>4. p \in MarksIn(s, R) /\ p[1] \in 1..3
        BY <1>5, <3>1, ReadableIs DEF Newest
      <4> QED BY <1>1, <4>3, <4>4 DEF Beyond
    <3>3. LastIs(s, R, got[s][LastMark(s)])
      BY <1>1, <1>5, <3>2, LastIsCarried DEF Looked, Ledger
    <3>4. At(R, p).sum = Watermark(s)
      BY <1>2, <3>1, <3>2, <3>3 DEF LastIs
    <3>5. Billed(s, R) + counter[s] - Watermark(s) <= spent[s]
      BY <1>6, <3>1, <3>4 DEF Covers
    <3> QED BY <1>1, <1>2, <1>5, <1>6, <2>3, <3>5 DEF above
  <2> QED BY <1>1, <1>2, <2>1, <2>2, <2>3 DEF above
<1>8. /\ Readable(Ledger') = Readable(R) \cup {End(R)} /\ At(Ledger', End(R)) = new
      /\ \A p \in Readable(R) : Older(p, End(R))
      /\ Billed(s, Ledger') = Billed(s, R) + new.delta
  BY <1>5, ExtendedLine
<1>9. ASSUME NEW p \in Readable(Ledger'), Newest(s, Ledger', p)
      PROVE  At(Ledger', p).sum = counter[s]
  <2>1. End(R) \in MarksIn(s, Ledger')
    BY <1>5, <1>8 DEF MarksIn
  <2>2. p = End(R)
    BY <1>8, <1>9, <2>1 DEF Newest
  <2> QED BY <1>5, <1>8, <2>2
<1>10. Billed(s, Ledger') <= spent[s] /\ Billed(s, Ledger') \in Nat
  BY <1>1, <1>5, <1>6, <1>7, <1>8, BilledType, ExtendedLine
<1>11. Covers(s, Ledger', counter[s], spent[s])
  BY <1>1, <1>6, <1>9, <1>10 DEF Covers
<1> QED BY <1>1, <1>11 DEF Covered, Ledger

LEMMA HookCovered ==
  ASSUME TypeOK, Billing(Ledger), NEW s \in Sessions, Books(s), Hook(s)
  PROVE  Covered(s)'
<1>1. /\ Ledger \in Streams /\ counter \in [Sessions -> Nat] /\ spent \in [Sessions -> Nat]
      /\ counter[s] \in Nat /\ spent[s] \in Nat
      /\ Covers(s, Ledger, counter[s], spent[s]) /\ counter[s] <= spent[s]
  BY DEF TypeOK, DiskOK, UsageOK, Streams, Names, Ledger, Books, Covered, Covers
<1>2. CASE BookMeasured(s)
  <2>1. Looked(s)
    BY <1>2 DEF BookMeasured, Books, Looks
  <2> QED BY <1>2, <2>1, BookedCovers DEF Books
<1>3. CASE Stop(s)
  <2>1. Ledger' = Ledger /\ counter'[s] = counter[s] + 1 /\ spent'[s] = spent[s] + 1
    BY <1>1, <1>3 DEF Stop, disk, Ledger
  <2>2. Covers(s, Ledger, counter[s] + 1, spent[s] + 1)
    BY <1>1, CoversMoved
  <2> QED BY <2>1, <2>2 DEF Covered, Ledger
<1>4. CASE Rewind(s)
  <2>1. PICK n \in 0..(counter[s] - 1) : counter' = [counter EXCEPT ![s] = n]
    BY <1>4 DEF Rewind
  <2>2. Ledger' = Ledger /\ counter'[s] = n /\ spent'[s] = spent[s] /\ n \in Nat /\ n <= counter[s]
    BY <1>1, <1>4, <2>1 DEF Rewind, disk, Ledger
  <2>3. Covers(s, Ledger, n, spent[s])
    BY <1>1, <2>2, CoversMoved
  <2> QED BY <2>2, <2>3 DEF Covered, Ledger
<1>5. CASE ~BookMeasured(s) /\ UNCHANGED usage
  <2>1. LedgerMoves(s)
    BY <1>5, HookLedger
  <2>2. Covers(s, Ledger', counter[s], spent[s])
    BY <1>1, <2>1, MovesCovers
  <2> QED BY <1>5, <2>2 DEF Covered, Ledger, usage
<1> QED BY <1>2, <1>3, <1>4, <1>5, Touches DEF Listed

\* A hook that is not at the end of a turn has read nothing.
Quiet(s) == UNCHANGED reading /\ at[s] \notin {"window", "measure"} /\ at'[s] # "measure"

LEMMA HookQuiet ==
  ASSUME TypeOK, NEW s \in Sessions, Hook(s),
         ~ReadWindow(s), ~Turn(s), ~FindWatermark(s), ~BookMeasured(s), ~Govern(s), ~Kill(s)
  PROVE  Quiet(s)
<1>0. DOMAIN at = Sessions
  BY DEF TypeOK, ControlOK
<1>1. CASE ATool(s)
  BY <1>0, <1>1 DEF Quiet, ATool, Tool, Begin, Goes, reading, locals
<1>2. CASE Capture(s)
  BY <1>0, <1>2 DEF Quiet, Capture, Begin, Goes, reading, locals
<1>3. CASE Cadence(s)
  BY <1>0, <1>3 DEF Quiet, Cadence, Begin, Goes, reading, locals
<1>4. CASE SelfRead(s)
  BY <1>0, <1>4 DEF Quiet, SelfRead, Begin, Goes, reading, locals
<1>5. CASE Track(s)
  BY <1>0, <1>5 DEF Quiet, Track, Begin, Goes, reading, locals
<1>6. CASE Ask(s)
  BY <1>0, <1>6 DEF Quiet, Ask, Begin, Goes, reading, locals
<1>7. CASE Advise(s)
  BY <1>0, <1>7 DEF Quiet, Advise, Begin, Goes, reading, locals
<1>8. CASE Warn(s)
  BY <1>0, <1>8 DEF Quiet, Warn, Begin, Goes, reading, locals
<1>9. CASE Breach(s)
  BY <1>0, <1>9 DEF Quiet, Breach, Begin, Goes, reading, locals
<1>10. CASE Forbid(s)
  BY <1>0, <1>10 DEF Quiet, Forbid, Begin, Goes, reading, locals
<1>11. CASE Prompt(s)
  BY <1>0, <1>11 DEF Quiet, Prompt, Begin, Goes, reading, locals
<1>12. CASE Drain(s)
  BY <1>0, <1>12 DEF Quiet, Drain, Begin, Goes, reading, locals
<1>13. CASE Say(s)
  BY <1>0, <1>13 DEF Quiet, Say, Begin, Goes, reading, locals
<1>14. CASE Book(s)
  BY <1>0, <1>14 DEF Quiet, Book, Begin, Goes, reading, locals
<1>15. CASE New(s)
  BY <1>0, <1>15 DEF Quiet, New, Begin, Goes, reading, locals
<1>16. CASE Reset(s)
  BY <1>0, <1>16 DEF Quiet, Reset, Begin, Goes, reading, locals
<1>17. CASE Resume(s)
  BY <1>0, <1>17 DEF Quiet, Resume, Begin, Goes, reading, locals
<1>18. CASE Compact(s)
  BY <1>0, <1>18 DEF Quiet, Compact, Begin, Goes, reading, locals
<1>19. CASE Disarm(s)
  BY <1>0, <1>19 DEF Quiet, Disarm, Begin, Goes, reading, locals
<1>20. CASE Stop(s)
  BY <1>0, <1>20 DEF Quiet, Stop, Begin, Goes, reading, locals
<1>23. CASE Skip(s)
  BY <1>0, <1>23 DEF Quiet, Skip, Begin, Goes, reading, locals
<1>24. CASE Check(s)
  BY <1>0, <1>24 DEF Quiet, Check, Begin, Goes, reading, locals
<1>25. CASE Rename(s)
  BY <1>0, <1>25 DEF Quiet, Rename, Begin, Goes, reading, locals
<1>26. CASE Note(s)
  BY <1>0, <1>26 DEF Quiet, Note, Begin, Goes, reading, locals
<1>30. CASE Rewind(s)
  BY <1>0, <1>30 DEF Quiet, Rewind, Begin, Goes, reading, locals
<1> QED BY <1>1, <1>2, <1>3, <1>4, <1>5, <1>6, <1>7, <1>8, <1>9, <1>10, <1>11, <1>12, <1>13, <1>14, <1>15, <1>16, <1>17, <1>18, <1>19, <1>20, <1>23, <1>24, <1>25, <1>26, <1>30 DEF Hook, ATool

LEMMA HookLooks ==
  ASSUME TypeOK, NEW s \in Sessions, Looks(s), Hook(s)
  PROVE  Looks(s)'
<1>1. /\ DOMAIN at = Sessions /\ DOMAIN got = Sessions /\ DOMAIN k = Sessions /\ DOMAIN whole = Sessions
      /\ Window \in Nat /\ Len(<<>>) = 0 /\ Len(got[s]) <= Window
  <2>1. DOMAIN at = Sessions /\ DOMAIN got = Sessions /\ DOMAIN k = Sessions /\ DOMAIN whole = Sessions
    BY DEF TypeOK, ReadingOK, ControlOK
  <2> QED BY <2>1, SessionsAssumption DEF Looks
<1>2. CASE ReadWindow(s)
  <2>1. "exhaust" \in Names /\ Reads(s, "exhaust")
    BY <1>2 DEF ReadWindow, Names
  <2>2. Len(got'[s]) <= Window
    BY <1>1, <2>1, ReadsIs
  <2>3. at'[s] = "window"
    BY <1>2 DEF ReadWindow
  <2> QED BY <2>2, <2>3 DEF Looks
<1>3. CASE FindWatermark(s)
  <2>1. "ledger" \in Names /\ Reads(s, "ledger")
    BY <1>3 DEF FindWatermark, Names
  <2>2. Len(got'[s]) <= Window
    BY <1>1, <2>1, ReadsIs
  <2>3. at[s] = "measure" /\ at'[s] = "measure"
    BY <1>3 DEF FindWatermark
  <2>4. Looked(s)'
    BY <1>1, <1>3, <2>3, FindLooked DEF Looks
  <2> QED BY <2>2, <2>3, <2>4 DEF Looks
<1>4. CASE Turn(s) \/ BookMeasured(s) \/ Kill(s)
  <2>1. Forget(s) /\ at'[s] \in {"stage", "idle"}
    BY <1>1, <1>4 DEF Turn, BookMeasured, Kill, Idle
  <2>2. got'[s] = <<>> /\ k'[s] = 1 /\ whole'[s]
    BY <1>1, <2>1 DEF Forget
  <2> QED BY <1>1, <2>1, <2>2 DEF Looks
<1>5. CASE Govern(s)
  <2>1. at[s] = "stage" /\ at'[s] = "measure" /\ UNCHANGED reading /\ Ledger' = Ledger
    BY <1>1, <1>5 DEF Govern, disk, Ledger
  <2>2. got'[s] = <<>> /\ k'[s] = 1
    BY <2>1 DEF Looks, reading
  <2>3. Marks(s)' = {}
    BY <2>2 DEF Marks
  <2>4. Beyond(s, Ledger, 1)
    <3>1. Ledger \in Streams
      BY DEF TypeOK, DiskOK, Streams, Names, Ledger
    <3>2. \A x \in Readable(Ledger) : x[1] \in 1..3
      BY <3>1, ReadableIs
    <3> QED BY <3>2 DEF Beyond, MarksIn
  <2>5. Looked(s)'
    BY <2>1, <2>2, <2>3, <2>4 DEF Looked, Ledger
  <2> QED BY <1>1, <2>1, <2>2, <2>5 DEF Looks
<1>6. CASE Quiet(s)
  BY <1>6 DEF Quiet, Looks, reading
<1> QED BY <1>2, <1>3, <1>4, <1>5, <1>6, HookQuiet

\* A session whose hook takes no step, though the file may be saved.
Ages(r) ==
  \/ UNCHANGED file /\ (r \in resaved' <=> r \in resaved)
  \/ r \in resaved' <=> r \in resaved \/ state[r].read = mtime'
Idles(r) == Stands(r) /\ LedgerMoves(r) /\ Ages(r) /\ settled \subseteq settled' /\ settled' \subseteq dismissed'

LEMMA IdlesSession ==
  ASSUME TypeOK, NEW r \in Sessions, Session(r), Idles(r), TypeOK'
  PROVE  Session(r)'
<1>1. Reminded(r)'
  BY DEF Session, Reminded, Idles, Stands
<1>2. Remembered(r)'
  <2>1. Sure(r)' => Sure(r)
    BY DEF Idles, Ages, Stands, Sure
  <2>2. (at[r] # "reset" => Recorded(r, mtime, version))'
    <3>1. CASE UNCHANGED file
      BY <2>1, <3>1 DEF Session, Remembered, Recorded, Idles, Stands, file
    <3>2. CASE state[r].read = mtime' => r \in resaved'
      BY <3>2 DEF Recorded, Sure, Idles, Stands
    <3> QED BY <3>1, <3>2 DEF Idles, Ages
  <2>3. (at[r] = "advise" => Recorded(r, stat[r], asked[r]))'
    BY <2>1 DEF Session, Remembered, Recorded, Idles, Stands
  <2>4. at'[r] = "warn" /\ Sure(r)' => seen'[r] = asked'[r]
    BY <2>1 DEF Session, Remembered, Idles, Stands
  <2> QED BY <2>2, <2>3, <2>4 DEF Remembered, Recorded
<1>3. Kept(r)'
  BY DEF Session, Kept, Idles, Stands
<1> QED BY <1>1, <1>2, <1>3 DEF Session

LEMMA IdlesBooks ==
  ASSUME TypeOK, NEW r \in Sessions, Books(r), Idles(r)
  PROVE  Books(r)'
<1>1. counter[r] \in Nat /\ spent[r] \in Nat
  BY DEF TypeOK, UsageOK
<1>2. Covers(r, Ledger', counter[r], spent[r])
  BY <1>1, MovesCovers DEF Idles, Books, Covered, Ledger
<1>3. Covered(r)'
  BY <1>2 DEF Covered, Ledger, Idles, Stands
<1>4. at[r] = "measure" => Looked(r)'
  BY MovesLooked DEF Books, Looks, Idles, Stands
<1>5. Looks(r)'
  BY <1>4 DEF Books, Looks, Idles, Stands
<1> QED BY <1>3, <1>5 DEF Books
-----------------------------------------------------------------------------
(* The invariant.                                                          *)

LEMMA InitIndInv == Init => IndInv
<1> SUFFICES ASSUME Init PROVE IndInv
  OBVIOUS
<1> USE DEF Init
<1>1. TypeOK
  <2>1. DiskOK
    <3>1. <<>> \in Seq(Lines \cup {Torn}) /\ << <<>>, <<>>, <<>> >> \in [1..3 -> Seq(Lines \cup {Torn})]
      <4> DEFINE Text == Seq(Lines \cup {Torn})
      <4>1. <<>> \in Text
        BY EmptySeq
      <4> HIDE DEF Text
      <4>2. << <<>>, <<>>, <<>> >> \in [1..3 -> Text]
        BY <4>1
      <4> QED BY <4>1, <4>2 DEF Text
    <3>2. NewStream \in [files : [1..3 -> Seq(Lines \cup {Torn})], cut : BOOLEAN]
      BY <3>1 DEF NewStream
    <3> QED BY <3>2 DEF DiskOK
  <2>2. StagingOK
    <3>1. <<>> \in Seq(Ids)
      BY EmptySeq
    <3> QED BY <3>1 DEF StagingOK, Nobody
  <2>3. StateOK /\ FileOK /\ TalkOK
    BY DEF StateOK, FileOK, TalkOK, FreshState
  <2>4. ReadingOK /\ UsageOK
    BY EmptySeq DEF ReadingOK, UsageOK
  <2>5. ControlOK
    BY SessionsAssumption DEF ControlOK, Steps
  <2> QED BY <2>1, <2>2, <2>3, <2>4, <2>5 DEF TypeOK
<1>2. Settling
  BY FS_EmptySet DEF Settling, Nobody
<1>3. \A s \in Sessions : Session(s)
  BY DEF Session, Reminded, Remembered, Recorded, Sure, Kept, FreshState
<1>4. \A name \in Names : streams[name].files = << <<>>, <<>>, <<>> >> /\ streams[name] \in Streams
  BY <1>1 DEF NewStream, TypeOK, DiskOK, Streams
<1>5. \A name \in Names : Readable(streams[name]) = {}
  <2> SUFFICES ASSUME NEW name \in Names, NEW p \in Readable(streams[name]) PROVE FALSE
    OBVIOUS
  <2>1. p \in (1..3) \X Nat /\ p[2] \in 1..Len(streams[name].files[p[1]])
    BY <1>4, ReadableIs
  <2>2. streams[name].files[p[1]] = <<>>
    BY <1>4, <2>1
  <2> QED BY <2>1, <2>2
<1>6. Streaming
  BY <1>5 DEF Streaming, Numbered, Billing, Names
<1>7. ASSUME NEW s \in Sessions PROVE Books(s)
  <2>1. "ledger" \in Names
    BY DEF Names
  <2>2. Billed(s, streams["ledger"]) = 0
    BY <1>4, <2>1, BillEmpty DEF Billed
  <2>3. Covered(s)
    BY <1>5, <2>1, <2>2 DEF Covered, Covers
  <2>4. Looks(s)
    BY SessionsAssumption DEF Looks
  <2> QED BY <2>3, <2>4 DEF Books
<1> QED BY <1>1, <1>2, <1>3, <1>6, <1>7 DEF IndInv

LEMMA HookIndInv ==
  ASSUME IndInv, NEW s \in Sessions, Hook(s)
  PROVE  IndInv'
<1>1. TypeOK /\ Settling /\ Session(s) /\ Streaming /\ Books(s)
  BY DEF IndInv
<1>2. IsFiniteSet(pending) /\ Kept(s) /\ Len(got[s]) <= Window /\ Billing(Ledger)
  BY <1>1 DEF Settling, Session, Books, Looks, Streaming, Ledger
<1>3. StagingOK' /\ IsFiniteSet(pending')
  BY <1>1, <1>2, HookStaging
<1>4. TypeOK'
  BY <1>1, <1>2, <1>3, HookControl, HookDisk, HookState, HookFile, HookTalk, HookReading, HookUsage DEF TypeOK
<1>5. UNCHANGED <<dismissed, settled, settling>>
  BY Touches DEF Listed
<1>6. Settling'
  BY <1>1, <1>3, <1>5 DEF Settling
<1>7. Session(s)'
  BY <1>1, HookReminded, HookRemembered, HookKept DEF Session
<1>8. Streaming'
  BY <1>1, HookStreaming
<1>9. Books(s)'
  <2>1. Covered(s)'
    BY <1>1, <1>2, HookCovered
  <2>2. Looks(s)'
    BY <1>1, HookLooks DEF Books
  <2> QED BY <2>1, <2>2 DEF Books
<1>10. ASSUME NEW r \in Sessions, r # s
       PROVE  Session(r)' /\ Books(r)'
  <2>1. Ages(r)
    <3>1. ATool(s) => Ages(r)
      BY <1>10 DEF ATool, Tool, Saved, Ages, file
    <3> QED BY <3>1, Touches DEF Listed, Ages
  <2>2. settled \subseteq dismissed
    BY <1>10 DEF IndInv, Session, Kept
  <2>3. Idles(r)
    BY <1>1, <1>5, <1>10, <2>1, <2>2, OthersStand, HookLedger DEF Idles
  <2> QED BY <1>1, <1>4, <2>3, IdlesSession, IdlesBooks DEF IndInv
<1> QED BY <1>4, <1>6, <1>7, <1>8, <1>9, <1>10 DEF IndInv

\* A step that is no hook's.
Outside == Settle \/ Record \/ Move \/ Edit \/ UNCHANGED vars

LEMMA OutsideType ==
  ASSUME TypeOK, Settling, Outside
  PROVE  TypeOK' /\ Settling'
<1>1. /\ DiskOK /\ StagingOK /\ StateOK /\ FileOK /\ TalkOK /\ ReadingOK /\ UsageOK /\ ControlOK
  BY DEF TypeOK
<1>2. /\ UNCHANGED <<state, at, locals, usage, seen, misread, told, twice, known>>
      /\ UNCHANGED <<file, resaved>> \/ Saved({})
  BY DEF Outside, Settle, Record, Move, Edit, vars, talk
<1>3. StateOK' /\ TalkOK' /\ ReadingOK' /\ UsageOK' /\ FileOK'
  <2>1. version' \in Nat /\ mtime' \in Nat /\ resaved' \in SUBSET Sessions
    BY <1>1, <1>2 DEF FileOK, Saved, file
  <2> QED BY <1>1, <1>2, <2>1 DEF locals, usage, reading, StateOK, TalkOK, ReadingOK, UsageOK, FileOK
<1>4. ControlOK'
  <2>1. Settle => Happens("settle")
    BY DEF Settle
  <2>2. Edit => Happens("edit")
    BY DEF Edit
  <2>3. \A event \in {"settle", "edit"} : Happens(event) => setup' \in [who : SUBSET Sessions, cap : Nat \ {0}, budget : [Events -> Nat]]
    BY <1>1 DEF ControlOK, Happens, Events
  <2>4. Record \/ Move \/ UNCHANGED vars => setup' = setup
    BY DEF Record, Move, vars
  <2> QED BY <1>1, <1>2, <2>1, <2>2, <2>3, <2>4 DEF ControlOK, locals, Outside
<1>5. DiskOK'
  <2>1. CASE UNCHANGED disk
    BY <1>1, <2>1 DEF DiskOK, disk
  <2>2. CASE Record
    <3>1. settling.id \in Ids /\ "exhaust" \in Names
      BY <2>2 DEF Settling, Record, Names
    <3>2. Line("consume", settling.id, 0, 0) \in Lines
      BY <3>1 DEF Line, Lines, Kinds
    <3>3. streams' \in [Names -> Streams] /\ appended' \in [Names -> Nat]
      BY <2>2, <3>1, <3>2, PutIs DEF Record
    <3> QED BY <3>3 DEF DiskOK, Streams
  <2> QED BY <2>1, <2>2 DEF Outside, Settle, Move, Edit, vars
<1>6. StagingOK' /\ Settling'
  <2>1. CASE Settle
    BY <1>1, <2>1 DEF Settle, StagingOK, Settling, staging, locals
  <2>2. CASE Record
    BY <1>1, <2>2 DEF Record, StagingOK, Settling, staging, locals
  <2>3. CASE Move
    <3>1. IsFiniteSet(pending \ {settling.id}) /\ settling.id \in Ids
      BY <2>3, FS_RemoveElement DEF Move, Settling
    <3> QED BY <1>1, <2>3, <3>1 DEF Move, Moved, StagingOK, Settling, staging, locals
  <2>4. CASE Edit \/ UNCHANGED vars
    BY <1>1, <2>4 DEF Edit, vars, StagingOK, Settling, staging, locals
  <2> QED BY <2>1, <2>2, <2>3, <2>4 DEF Outside
<1> QED BY <1>1, <1>3, <1>4, <1>5, <1>6 DEF TypeOK

LEMMA OutsideIndInv ==
  ASSUME IndInv, Outside
  PROVE  IndInv'
<1>1. TypeOK /\ Settling /\ Streaming /\ TypeOK' /\ Settling'
  BY OutsideType DEF IndInv
<1>2. ASSUME Record
      PROVE  /\ Streaming' /\ \A r \in Sessions : LedgerMoves(r)
  <2>1. settling.id \in Ids /\ "exhaust" \in Names /\ "exhaust" # "ledger"
    BY <1>1, <1>2 DEF Settling, Record, Names
  <2>2. Line("consume", settling.id, 0, 0) \in Lines
    BY <2>1 DEF Line, Lines, Kinds
  <2>3. Put("exhaust", Line("consume", settling.id, 0, 0))
    BY <1>2 DEF Record
  <2>4. Streaming'
    BY <1>1, <2>1, <2>2, <2>3, PutStreaming
  <2>5. \A r \in Sessions : LedgerMoves(r)
    BY <1>1, <2>1, <2>2, <2>3, PutLedger
  <2> QED BY <2>4, <2>5
<1>3. ASSUME ~Record
      PROVE  /\ Streaming' /\ \A r \in Sessions : LedgerMoves(r)
  <2>1. UNCHANGED disk
    BY <1>3 DEF Outside, Settle, Move, Edit, vars
  <2> QED BY <1>1, <2>1 DEF Streaming, LedgerMoves, Ledger, disk
<1>4. ASSUME NEW r \in Sessions PROVE Ages(r)
  BY DEF Outside, Settle, Record, Move, Edit, Saved, vars, talk, Ages
<1>5. ASSUME NEW r \in Sessions PROVE Session(r)' /\ Books(r)'
  <2>1. Stands(r)
    BY DEF Outside, Settle, Record, Move, Edit, vars, Stands, locals, reading, usage, talk
  <2>2. settled \subseteq settled' /\ settled' \subseteq dismissed'
    <3>1. settled \subseteq dismissed
      BY <1>5 DEF IndInv, Session, Kept
    <3> QED BY <3>1 DEF Outside, Settle, Record, Move, Moved, Edit, vars, staging
  <2>3. Idles(r)
    BY <1>2, <1>3, <1>4, <2>1, <2>2 DEF Idles
  <2> QED BY <1>1, <1>5, <2>3, IdlesSession, IdlesBooks DEF IndInv
<1> QED BY <1>1, <1>2, <1>3, <1>5 DEF IndInv

LEMMA NextIndInv == IndInv /\ [Next]_vars => IndInv'
BY HookIndInv, OutsideIndInv DEF Next, Outside

\* In every state that hooks, kills, edits and settling reach, what is on
\* disk and what each hook holds is well formed, and the parts above hold.
THEOREM Invariant == Spec => []IndInv
BY InitIndInv, NextIndInv, PTL DEF Spec

\* The state file, the streams, the staging directory and what each hook has
\* in hand (session_state.rs, jsonl.rs, staging.rs) keep their types.
THEOREM TypeCorrect == Spec => []TypeOK
<1>1. IndInv => TypeOK
  BY DEF IndInv
<1> QED BY <1>1, Invariant, PTL

\* drain_reminders and queue_reminder: however hooks are killed, a
\* conversation is not given a reminder again, but that of a breach.
THEOREM RemindersOnce == Spec => []ToldOnce
<1>1. IndInv => ToldOnce
  BY DEF IndInv, Session, Reminded, ToldOnce
<1> QED BY <1>1, Invariant, PTL

\* should_warn_repeat_read: the warning that a file was read before is true
\* of what the conversation remembers, unless the file was changed before
\* that read was recorded, or since then to the very mtime of the record.
THEOREM WarningsTrue == Spec => []HonestWarning
<1>1. IndInv => HonestWarning
  BY DEF IndInv, Session, Remembered, Sure, HonestWarning
<1> QED BY <1>1, Invariant, PTL

\* jsonl::append and rotate_if_needed: an append that returned is readable, in
\* order, until it and all that is older are dropped.
THEOREM NothingLost == Spec => []RecordsKept
<1>1. IndInv => RecordsKept
  BY DEF IndInv, Streaming, Numbered, RecordsKept
<1> QED BY <1>1, Invariant, PTL

\* book_measured: the measured turns of a session that can be read add up to
\* no more than it spent.
THEOREM BilledOnce == Spec => []NeverOverbooked
<1>1. IndInv => NeverOverbooked
  BY DEF IndInv, Books, Covered, Covers, Billed, NeverOverbooked
<1> QED BY <1>1, Invariant, PTL

\* staging::write and the traps: what was settled when a Stop began is not
\* staged again by it.
THEOREM SettledStay == Spec => SettledStays
<1> DEFINE Fresh == \A id \in pending' \ pending :
                      \E s \in Sessions : at[s] = "rename" /\ todo[s][1] = id /\ id \notin known[s]
<1>1. ASSUME IndInv, NEW s \in Sessions, Hook(s) PROVE Fresh
  <2>1. CASE Rename(s)
    <3>1. at[s] = "rename" /\ pending' = pending \cup {todo[s][1]} /\ todo[s][1] \notin known[s]
      BY <1>1, <2>1 DEF Rename, Goes, IndInv, Session, Kept
    <3> QED BY <3>1
  <2>2. CASE UNCHANGED pending
    BY <2>2
  <2> QED BY <1>1, <2>1, <2>2, Touches DEF Listed
<1>2. ASSUME Outside PROVE Fresh
  BY <1>2 DEF Outside, Settle, Record, Move, Moved, Edit, vars, staging
<1>3. IndInv /\ [Next]_vars => [Fresh]_vars
  BY <1>1, <1>2 DEF Next, Outside
<1> HIDE DEF Fresh
<1>4. Spec => [][Fresh]_vars
  BY <1>3, Invariant, PTL DEF Spec
<1> QED BY <1>4 DEF SettledStays, Fresh
=============================================================================
