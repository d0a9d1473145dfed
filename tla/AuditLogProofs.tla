--------------------------- MODULE AuditLogProofs ---------------------------
(***************************************************************************)
(* What an audit shows, and what stands in audit.log, however many         *)
(* processes append to it at the same time and wherever they stop.         *)
(*                                                                         *)
(* A log that parses has no two texts next to each other, so it was        *)
(* written by records that did not overlap, up to its last chunk: it holds *)
(* the recorded events and perhaps one text that waits for its newline.    *)
(***************************************************************************)
EXTENDS AuditLog, NaturalSets

-----------------------------------------------------------------------------
(* The events of a log are a recursive function of its chunks.             *)

\* g holds the events of every beginning of f up to n chunks.
Reads(f, n, g) ==
  g = [i \in 0 .. n |->
         IF i = 0 THEN << >>
         ELSE IF IsText(f[i]) THEN Append(g[i - 1], f[i].event) ELSE g[i - 1]]

LEMMA ReadsNext ==
  ASSUME NEW f, NEW n \in Nat, NEW g, Reads(f, n, g)
  PROVE  \E h : Reads(f, n + 1, h)
<1> DEFINE last == IF IsText(f[n + 1]) THEN Append(g[n], f[n + 1].event) ELSE g[n]
           h == [i \in 0 .. n + 1 |-> IF i <= n THEN g[i] ELSE last]
<1>1. \A i \in 0 .. n : h[i] = g[i]
  OBVIOUS
<1>2. \A i \in 0 .. n : g[i] = IF i = 0 THEN << >>
                               ELSE IF IsText(f[i]) THEN Append(g[i - 1], f[i].event) ELSE g[i - 1]
  BY DEF Reads
<1>3. h[n + 1] = last
  OBVIOUS
<1>4. ASSUME NEW i \in 0 .. n + 1
      PROVE  h[i] = IF i = 0 THEN << >>
                    ELSE IF IsText(f[i]) THEN Append(h[i - 1], f[i].event) ELSE h[i - 1]
  <2>1. CASE i \in 0 .. n
    <3>1. i # 0 => i - 1 \in 0 .. n
      BY <2>1
    <3> HIDE DEF h, last
    <3> QED
      BY <1>1, <1>2, <2>1, <3>1
  <2>2. CASE i = n + 1
    <3>1. h[i - 1] = g[n] /\ i # 0
      BY <1>1, <2>2
    <3> QED
      BY <1>3, <2>2, <3>1
  <2> QED
    BY <2>1, <2>2
<1>5. Reads(f, n + 1, h)
  <2>1. DOMAIN h = 0 .. n + 1 /\ h = [i \in 0 .. n + 1 |-> h[i]]
    OBVIOUS
  <2> HIDE DEF h
  <2> QED
    BY <1>4, <2>1 DEF Reads
<1> QED
  BY <1>5

LEMMA ReadsExist ==
  ASSUME NEW f, NEW n \in Nat
  PROVE  \E g : Reads(f, n, g)
<1> DEFINE S == {m \in Nat : \E g : Reads(f, m, g)}
<1>1. 0 \in S
  <2>1. Reads(f, 0, [i \in 0 .. 0 |-> << >>])
    BY DEF Reads
  <2> QED
    BY <2>1
<1>2. \A m \in S : m + 1 \in S
  BY ReadsNext
<1>3. S = Nat
  <2> HIDE DEF S
  <2>1. S \in SUBSET Nat
    BY DEF S
  <2> QED
    BY <1>1, <1>2, <2>1, InductionInSet
<1> QED
  BY <1>3

\* Logs with a common beginning have the same events there.
LEMMA ReadsAgree ==
  ASSUME NEW f, NEW m \in Nat, NEW g, Reads(f, m, g),
         NEW f2, NEW m2 \in Nat, NEW g2, Reads(f2, m2, g2),
         NEW n \in Nat, n <= m, n <= m2, \A i \in 1 .. n : f[i] = f2[i]
  PROVE  g[n] = g2[n]
<1> DEFINE S == {i \in Nat : i <= n => g[i] = g2[i]}
<1>1. 0 \in S
  <2>1. 0 \in 0 .. m /\ 0 \in 0 .. m2
    OBVIOUS
  <2> QED
    BY <2>1 DEF Reads
<1>2. ASSUME NEW i \in S, i + 1 <= n
      PROVE  g[i + 1] = g2[i + 1]
  <2>1. i \in Nat /\ g[i] = g2[i] /\ f[i + 1] = f2[i + 1]
    BY <1>2
  <2>2. /\ i + 1 \in 0 .. m /\ i + 1 \in 0 .. m2
        /\ i + 1 # 0 /\ (i + 1) - 1 = i
    BY <1>2, <2>1
  <2>3. g[i + 1] = IF IsText(f[i + 1]) THEN Append(g[i], f[i + 1].event) ELSE g[i]
    BY <2>2 DEF Reads
  <2>4. g2[i + 1] = IF IsText(f2[i + 1]) THEN Append(g2[i], f2[i + 1].event) ELSE g2[i]
    BY <2>2 DEF Reads
  <2> QED
    BY <2>1, <2>3, <2>4
<1>3. \A i \in S : i + 1 \in S
  BY <1>2
<1>4. S = Nat
  <2> HIDE DEF S
  <2>1. S \in SUBSET Nat
    BY DEF S
  <2> QED
    BY <1>1, <1>3, <2>1, InductionInSet
<1> QED
  BY <1>4

LEMMA EventsRead ==
  ASSUME NEW f, Len(f) \in Nat
  PROVE  \E g : Reads(f, Len(f), g) /\ Events(f) = g[Len(f)]
<1> DEFINE g == CHOOSE g : Reads(f, Len(f), g)
<1>1. Reads(f, Len(f), g)
  BY ReadsExist
<1>2. Events(f) = g[Len(f)]
  BY DEF Events, Reads
<1> QED
  BY <1>1, <1>2

\* What read_all reads of an empty file, and of a file with one chunk more.
LEMMA EventsEmpty == Events(<< >>) = << >>
<1>1. PICK g : Reads(<< >>, 0, g) /\ Events(<< >>) = g[0]
  BY EventsRead
<1> QED
  BY <1>1 DEF Reads

LEMMA EventsAppend ==
  ASSUME NEW S, NEW f \in Seq(S), NEW c \in S
  PROVE  Events(Append(f, c)) = IF IsText(c) THEN Append(Events(f), c.event) ELSE Events(f)
<1> DEFINE n == Len(f)
           f2 == Append(f, c)
<1>1. n \in Nat /\ Len(f2) = n + 1 /\ f2[n + 1] = c /\ \A i \in 1 .. n : f[i] = f2[i]
  OBVIOUS
<1> HIDE DEF f2, n
<1>2. PICK g : Reads(f, n, g) /\ Events(f) = g[n]
  BY <1>1, EventsRead DEF n
<1>3. PICK g2 : Reads(f2, n + 1, g2) /\ Events(f2) = g2[n + 1]
  BY <1>1, EventsRead
<1>4. g[n] = g2[n]
  BY <1>1, <1>2, <1>3, ReadsAgree
<1>5. g2[n + 1] = IF IsText(f2[n + 1]) THEN Append(g2[n], f2[n + 1].event) ELSE g2[n]
  <2>1. n + 1 \in 0 .. n + 1 /\ n + 1 # 0 /\ (n + 1) - 1 = n
    BY <1>1
  <2> QED
    BY <1>3, <2>1 DEF Reads
<1> QED
  BY <1>1, <1>2, <1>3, <1>4, <1>5 DEF f2

-----------------------------------------------------------------------------
(* The inductive invariant.                                                *)

EndsInText(f) == f # << >> /\ IsText(f[Len(f)])

\* Every text has its newline, and its `record` call has returned.
Settled ==
  /\ ~ EndsInText(log)
  /\ Events(log) = recorded
  /\ \A p \in Process : pc[p] # "newline"
\* The last text waits for its newline; its process may be gone.
Waiting ==
  /\ EndsInText(log)
  /\ Events(log) = Append(recorded, log[Len(log)].event)
  /\ \A p \in Process : pc[p] = "newline" => writing[p] = log[Len(log)].event
  /\ \A p, q \in Process : pc[p] = "newline" /\ pc[q] = "newline" => p = q
LogIsSound == Parses(log) => Settled \/ Waiting

\* What an audit has shown stands at the beginning of the log.
TrailInLog ==
  /\ Len(trail) <= Len(Events(log))
  /\ \A i \in 1 .. Len(trail) : trail[i] = Events(log)[i]

\* Records that took turns: only the one on its way has a text without a
\* newline.
TookTurns ==
  clean =>
    /\ Parses(log)
    /\ \A p, q \in Process : pc[p] # "idle" /\ pc[q] # "idle" => p = q
    /\ EndsInText(log) => \E p \in Process : pc[p] = "newline"

LogInv ==
  /\ Events(log) \in Seq(Event)
  /\ LogIsSound
  /\ TrailInLog
  /\ TrailIsComplete
  /\ TookTurns

-----------------------------------------------------------------------------
(* Type correctness.                                                       *)

LEMMA ChunkType ==
  /\ Torn \in Chunk /\ Newline \in Chunk /\ \A e \in Event : Text(e) \in Chunk
  /\ ~ IsText(Torn) /\ ~ IsText(Newline) /\ Torn # Newline
  /\ \A e : IsText(Text(e)) /\ Text(e).event = e /\ Text(e) # Torn /\ Text(e) # Newline
  /\ \A c \in Chunk : IsText(c) => c.event \in Event
BY DEF Chunk, Torn, Newline, Text, IsText

LEMMA AuditTypeInit == Init => AuditTypeOK
BY AuditBoundAssumption DEF Init, AuditTypeOK

LEMMA AuditTypeNext ==
  ASSUME AuditTypeOK, Events(log) \in Seq(Event), [Next]_vars
  PROVE  AuditTypeOK'
<1>0. /\ log \in Seq(Chunk) /\ recorded \in Seq(Event) /\ trail \in Seq(Event)
      /\ pc \in [Process -> {"idle", "text", "newline"}]
      /\ writing \in [Process -> 0 .. MaxRecords]
      /\ \A p \in Process : pc[p] = "idle" <=> writing[p] = 0
      /\ begun \in 0 .. MaxRecords /\ known \in 0 .. Len(recorded)
      /\ crashes \in 0 .. MaxCrashes /\ clean \in BOOLEAN
  BY DEF AuditTypeOK
<1> USE AuditBoundAssumption
<1>1. CASE ReadAll
  BY <1>0, <1>1 DEF ReadAll, AuditTypeOK
<1>2. ASSUME NEW p \in Process, Begin(p)
      PROVE  AuditTypeOK'
  <2>1. begun' \in 1 .. MaxRecords /\ clean' \in BOOLEAN
    BY <1>0, <1>2 DEF Begin
  <2>2. /\ pc' \in [Process -> {"idle", "text", "newline"}]
        /\ writing' \in [Process -> 0 .. MaxRecords]
    BY <1>0, <1>2, <2>1 DEF Begin
  <2>3. \A q \in Process : pc'[q] = "idle" <=> writing'[q] = 0
    BY <1>0, <1>2, <2>1 DEF Begin
  <2> QED
    BY <1>0, <1>2, <2>1, <2>2, <2>3 DEF Begin, AuditTypeOK
<1>3. ASSUME NEW p \in Process, WriteText(p)
      PROVE  AuditTypeOK'
  <2>1. writing[p] \in Event
    BY <1>0, <1>3 DEF WriteText, Event
  <2>2. log' \in Seq(Chunk)
    BY <1>0, <1>3, <2>1, ChunkType DEF WriteText
  <2>3. /\ pc' \in [Process -> {"idle", "text", "newline"}]
        /\ \A q \in Process : pc'[q] = "idle" <=> writing[q] = 0
    BY <1>0, <1>3 DEF WriteText
  <2> QED
    BY <1>0, <1>3, <2>2, <2>3 DEF WriteText, AuditTypeOK
<1>4. ASSUME NEW p \in Process, WriteNewline(p)
      PROVE  AuditTypeOK'
  <2>1. writing[p] \in Event
    BY <1>0, <1>4 DEF WriteNewline, Event
  <2>2. log' \in Seq(Chunk)
    BY <1>0, <1>4, ChunkType DEF WriteNewline
  <2>3. recorded' \in Seq(Event) /\ Len(recorded') = Len(recorded) + 1
    BY <1>0, <1>4, <2>1 DEF WriteNewline
  <2>4. /\ pc' \in [Process -> {"idle", "text", "newline"}]
        /\ writing' \in [Process -> 0 .. MaxRecords]
        /\ \A q \in Process : pc'[q] = "idle" <=> writing'[q] = 0
    BY <1>0, <1>4 DEF WriteNewline
  <2>5. known \in 0 .. Len(recorded')
    BY <1>0, <2>3
  <2> QED
    BY <1>0, <1>4, <2>2, <2>3, <2>4, <2>5 DEF WriteNewline, AuditTypeOK
<1>5. ASSUME NEW p \in Process, Crash(p)
      PROVE  AuditTypeOK'
  <2>0. log' = log \/ log' = Append(log, Torn)
    BY <1>5 DEF Crash
  <2>1. log' \in Seq(Chunk)
    <3>1. log \in Seq(Chunk) /\ Torn \in Chunk
      BY <1>0, ChunkType
    <3>2. Append(log, Torn) \in Seq(Chunk)
      BY <3>1
    <3> QED
      BY <2>0, <3>1, <3>2
  <2>2. /\ pc' \in [Process -> {"idle", "text", "newline"}]
        /\ writing' \in [Process -> 0 .. MaxRecords]
        /\ \A q \in Process : pc'[q] = "idle" <=> writing'[q] = 0
    BY <1>0, <1>5 DEF Crash
  <2>3. crashes' \in 0 .. MaxCrashes
    BY <1>0, <1>5 DEF Crash
  <2> QED
    BY <1>0, <1>5, <2>1, <2>2, <2>3 DEF Crash, AuditTypeOK
<1>6. CASE UNCHANGED vars
  BY <1>0, <1>6 DEF vars, AuditTypeOK
<1> QED
  BY <1>1, <1>2, <1>3, <1>4, <1>5, <1>6 DEF Next

-----------------------------------------------------------------------------
(* What one more chunk makes of a log.                                     *)

LEMMA LastChunk ==
  ASSUME NEW f \in Seq(Chunk), NEW c \in Chunk
  PROVE  /\ Append(f, c) # << >> /\ Append(f, c)[Len(Append(f, c))] = c
         /\ EndsInText(Append(f, c)) <=> IsText(c)
<1>1. Len(Append(f, c)) = Len(f) + 1 /\ Append(f, c)[Len(f) + 1] = c /\ Append(f, c) # << >>
  OBVIOUS
<1> QED
  BY <1>1 DEF EndsInText

LEMMA ParsesAppend ==
  ASSUME NEW f \in Seq(Chunk), NEW c \in Chunk
  PROVE  Parses(Append(f, c)) <=> Parses(f) /\ c # Torn /\ (EndsInText(f) => c = Newline)
<1> DEFINE n == Len(f)
           f2 == Append(f, c)
<1>1. /\ n \in Nat /\ Len(f2) = n + 1 /\ f2[n + 1] = c /\ \A i \in 1 .. n : f2[i] = f[i]
      /\ DOMAIN f = 1 .. n /\ DOMAIN f2 = 1 .. n + 1 /\ (f = << >> <=> n = 0)
  OBVIOUS
<1> HIDE DEF f2, n
<1>2. Parses(f2) <=> /\ \A i \in 1 .. n + 1 : f2[i] # Torn
                     /\ \A i \in 1 .. n : IsText(f2[i]) => f2[i + 1] = Newline
  BY <1>1 DEF Parses
<1>3. Parses(f) <=> /\ \A i \in 1 .. n : f[i] # Torn
                    /\ \A i \in 1 .. n - 1 : IsText(f[i]) => f[i + 1] = Newline
  BY <1>1 DEF Parses, n
<1>4. (\A i \in 1 .. n + 1 : f2[i] # Torn) <=> (\A i \in 1 .. n : f[i] # Torn) /\ c # Torn
  BY <1>1
<1>5. EndsInText(f) <=> n # 0 /\ IsText(f[n])
  BY <1>1 DEF EndsInText, n
<1>6. (\A i \in 1 .. n : IsText(f2[i]) => f2[i + 1] = Newline)
        <=> /\ \A i \in 1 .. n - 1 : IsText(f[i]) => f[i + 1] = Newline
            /\ EndsInText(f) => c = Newline
  <2>1. ASSUME \A i \in 1 .. n : IsText(f2[i]) => f2[i + 1] = Newline
        PROVE  /\ \A i \in 1 .. n - 1 : IsText(f[i]) => f[i + 1] = Newline
               /\ EndsInText(f) => c = Newline
    <3>1. ASSUME NEW i \in 1 .. n - 1, IsText(f[i])
          PROVE  f[i + 1] = Newline
      <4>1. i \in 1 .. n /\ i + 1 \in 1 .. n
        BY <1>1
      <4> QED
        BY <1>1, <2>1, <3>1, <4>1
    <3>2. EndsInText(f) => c = Newline
      BY <1>1, <1>5, <2>1
    <3> QED
      BY <3>1, <3>2
  <2>2. ASSUME \A i \in 1 .. n - 1 : IsText(f[i]) => f[i + 1] = Newline,
               EndsInText(f) => c = Newline,
               NEW i \in 1 .. n, IsText(f2[i])
        PROVE  f2[i + 1] = Newline
    <3>1. CASE i = n
      BY <1>1, <1>5, <2>2, <3>1
    <3>2. CASE i \in 1 .. n - 1
      <4>1. i + 1 \in 1 .. n
        BY <1>1, <3>2
      <4> QED
        BY <1>1, <2>2, <3>2, <4>1
    <3> QED
      BY <1>1, <3>1, <3>2
  <2> QED
    BY <2>1, <2>2
<1> QED
  BY <1>2, <1>3, <1>4, <1>6 DEF f2

LEMMA EventsType ==
  ASSUME NEW f \in Seq(Chunk), NEW c \in Chunk, Events(f) \in Seq(Event)
  PROVE  /\ Events(Append(f, c)) \in Seq(Event)
         /\ Len(Events(f)) <= Len(Events(Append(f, c)))
         /\ \A i \in 1 .. Len(Events(f)) : Events(Append(f, c))[i] = Events(f)[i]
<1>1. Events(Append(f, c)) = IF IsText(c) THEN Append(Events(f), c.event) ELSE Events(f)
  BY EventsAppend
<1>2. IsText(c) => c.event \in Event
  BY ChunkType
<1> QED
  BY <1>1, <1>2

\* The log only grows, by one chunk at a time.
LEMMA LogGrows ==
  ASSUME AuditTypeOK, [Next]_vars
  PROVE  log' = log \/ \E c \in Chunk : log' = Append(log, c)
<1>1. ASSUME NEW p \in Process, WriteText(p)
      PROVE  log' = Append(log, Text(writing[p])) /\ writing[p] \in Event
  BY <1>1, AuditBoundAssumption DEF WriteText, AuditTypeOK, Event
<1> QED
  BY <1>1, ChunkType DEF Next, vars, ReadAll, Begin, WriteNewline, Crash

-----------------------------------------------------------------------------
(* Each part of the invariant is preserved.                                *)

LEMMA EventsNext ==
  ASSUME AuditTypeOK, Events(log) \in Seq(Event), [Next]_vars
  PROVE  /\ Events(log') \in Seq(Event)
         /\ Len(Events(log)) <= Len(Events(log'))
         /\ \A i \in 1 .. Len(Events(log)) : Events(log')[i] = Events(log)[i]
<1>1. CASE log' = log
  BY <1>1
<1>2. ASSUME NEW c \in Chunk, log' = Append(log, c)
      PROVE  /\ Events(log') \in Seq(Event)
             /\ Len(Events(log)) <= Len(Events(log'))
             /\ \A i \in 1 .. Len(Events(log)) : Events(log')[i] = Events(log)[i]
  BY <1>2, EventsType DEF AuditTypeOK
<1> QED
  BY <1>1, <1>2, LogGrows

\* A text is appended to a log that has none waiting, or spoils it.
LEMMA SoundText ==
  ASSUME AuditTypeOK, LogIsSound, NEW p \in Process, WriteText(p)
  PROVE  LogIsSound'
<1> SUFFICES ASSUME Parses(log')
             PROVE  Waiting'
  BY DEF LogIsSound
<1>1. /\ log' = Append(log, Text(writing[p])) /\ pc[p] = "text"
      /\ pc' = [pc EXCEPT ![p] = "newline"] /\ writing' = writing /\ recorded' = recorded
  BY DEF WriteText
<1>2. /\ log \in Seq(Chunk) /\ pc \in [Process -> {"idle", "text", "newline"}]
      /\ writing[p] \in Event
  BY <1>1, AuditBoundAssumption DEF AuditTypeOK, Event
<1>3. Text(writing[p]) \in Chunk /\ IsText(Text(writing[p])) /\ Text(writing[p]).event = writing[p]
  BY <1>2, ChunkType
<1>4. Parses(log) /\ ~ EndsInText(log)
  BY <1>1, <1>2, <1>3, ParsesAppend, ChunkType
<1>5. Settled
  BY <1>4 DEF LogIsSound, Waiting
<1>6. EndsInText(log') /\ log'[Len(log')] = Text(writing[p])
  BY <1>1, <1>2, <1>3, LastChunk
<1>7. Events(log') = Append(recorded, writing[p])
  BY <1>1, <1>2, <1>3, <1>5, EventsAppend DEF Settled
<1>8. \A q \in Process : pc'[q] = "newline" => q = p
  BY <1>1, <1>2, <1>5 DEF Settled
<1> QED
  BY <1>1, <1>3, <1>6, <1>7, <1>8 DEF Waiting

\* A newline is appended to the text it belongs to, or the log is spoilt.
LEMMA SoundNewline ==
  ASSUME AuditTypeOK, LogIsSound, NEW p \in Process, WriteNewline(p)
  PROVE  LogIsSound'
<1> SUFFICES ASSUME Parses(log')
             PROVE  Settled'
  BY DEF LogIsSound
<1>1. /\ log' = Append(log, Newline) /\ pc[p] = "newline"
      /\ pc' = [pc EXCEPT ![p] = "idle"] /\ recorded' = Append(recorded, writing[p])
  BY DEF WriteNewline
<1>2. log \in Seq(Chunk) /\ pc \in [Process -> {"idle", "text", "newline"}]
  BY DEF AuditTypeOK
<1>3. Parses(log)
  BY <1>1, <1>2, ParsesAppend, ChunkType
<1>4. Waiting
  BY <1>1, <1>3 DEF LogIsSound, Settled
<1>5. Events(log') = Append(recorded, writing[p])
  <2>1. Events(log') = Events(log)
    BY <1>1, <1>2, EventsAppend, ChunkType
  <2> QED
    BY <1>1, <1>4, <2>1 DEF Waiting
<1>6. ~ EndsInText(log')
  BY <1>1, <1>2, LastChunk, ChunkType
<1>7. \A q \in Process : pc'[q] # "newline"
  BY <1>1, <1>2, <1>4 DEF Waiting
<1> QED
  BY <1>1, <1>5, <1>6, <1>7 DEF Settled

\* Any other step leaves the log as it is, or spoils it.
LEMMA SoundElse ==
  ASSUME AuditTypeOK, LogIsSound,
         ReadAll \/ (\E p \in Process : Begin(p) \/ Crash(p)) \/ UNCHANGED vars
  PROVE  LogIsSound'
<1> SUFFICES ASSUME Parses(log')
             PROVE  Settled' \/ Waiting'
  BY DEF LogIsSound
<1>0. log \in Seq(Chunk) /\ pc \in [Process -> {"idle", "text", "newline"}]
        /\ writing \in [Process -> 0 .. MaxRecords]
  BY DEF AuditTypeOK
<1>1. log' = log /\ recorded' = recorded
  <2>1. recorded' = recorded /\ (log' = log \/ log' = Append(log, Torn))
    BY DEF ReadAll, Begin, Crash, vars
  <2> QED
    BY <1>0, <2>1, ParsesAppend, ChunkType
<1>2. \A q \in Process : pc'[q] = "newline" => pc[q] = "newline" /\ writing'[q] = writing[q]
  BY <1>0 DEF ReadAll, Begin, Crash, vars
<1>3. CASE Settled
  BY <1>1, <1>2, <1>3 DEF Settled
<1>4. CASE Waiting
  BY <1>1, <1>2, <1>4 DEF Waiting
<1> QED
  BY <1>1, <1>3, <1>4 DEF LogIsSound

LEMMA SoundNext ==
  ASSUME AuditTypeOK, LogIsSound, [Next]_vars
  PROVE  LogIsSound'
BY SoundText, SoundNewline, SoundElse DEF Next

LEMMA TrailInLogNext ==
  ASSUME AuditTypeOK, Events(log) \in Seq(Event), TrailInLog, [Next]_vars
  PROVE  TrailInLog'
<1>1. CASE trail' = trail
  <2>1. Len(trail) \in Nat /\ Len(Events(log)) \in Nat /\ Len(Events(log')) \in Nat
    BY EventsNext DEF AuditTypeOK
  <2> QED
    BY <1>1, <2>1, EventsNext DEF TrailInLog
<1>2. CASE ReadAll
  <2>1. log' = log /\ trail' = Events(log)
    BY <1>2 DEF ReadAll
  <2> QED
    BY <2>1 DEF TrailInLog
<1> QED
  BY <1>1, <1>2 DEF Next, Begin, WriteText, WriteNewline, Crash, vars

LEMMA TrailIsCompleteNext ==
  ASSUME AuditTypeOK, LogIsSound, TrailIsComplete, [Next]_vars
  PROVE  TrailIsComplete'
<1>0. recorded \in Seq(Event) /\ known \in 0 .. Len(recorded)
  BY DEF AuditTypeOK
<1>1. CASE ReadAll
  <2>1. trail' = Events(log) /\ known' = Len(recorded) /\ recorded' = recorded
    BY <1>1 DEF ReadAll
  <2>2. CASE Settled
    BY <1>0, <2>1, <2>2 DEF Settled, TrailIsComplete
  <2>3. CASE Waiting
    <3>1. /\ Len(Append(recorded, log[Len(log)].event)) = Len(recorded) + 1
          /\ \A i \in 1 .. Len(recorded) : Append(recorded, log[Len(log)].event)[i] = recorded[i]
      BY <1>0
    <3> QED
      BY <2>1, <2>3, <3>1 DEF Waiting, TrailIsComplete
  <2> QED
    BY <1>1, <2>2, <2>3 DEF LogIsSound, ReadAll
<1>2. ASSUME NEW p \in Process, WriteNewline(p)
      PROVE  TrailIsComplete'
  <2>1. trail' = trail /\ known' = known /\ recorded' = Append(recorded, writing[p])
    BY <1>2 DEF WriteNewline
  <2>2. \A i \in 1 .. known : recorded'[i] = recorded[i]
    BY <1>0, <2>1
  <2> QED
    BY <2>1, <2>2 DEF TrailIsComplete
<1>3. CASE UNCHANGED <<trail, known, recorded>>
  BY <1>3 DEF TrailIsComplete
<1> QED
  BY <1>1, <1>2, <1>3 DEF Next, Begin, WriteText, Crash, vars

LEMMA TookTurnsNext ==
  ASSUME AuditTypeOK, TookTurns, [Next]_vars
  PROVE  TookTurns'
<1> SUFFICES ASSUME clean'
             PROVE  /\ Parses(log')
                    /\ \A p, q \in Process : pc'[p] # "idle" /\ pc'[q] # "idle" => p = q
                    /\ EndsInText(log') => \E p \in Process : pc'[p] = "newline"
  BY DEF TookTurns
<1>0. log \in Seq(Chunk) /\ pc \in [Process -> {"idle", "text", "newline"}]
  BY DEF AuditTypeOK
<1>1. clean
  BY DEF Next, ReadAll, Begin, WriteText, WriteNewline, Crash, vars
<1>2. /\ Parses(log)
      /\ \A p, q \in Process : pc[p] # "idle" /\ pc[q] # "idle" => p = q
      /\ EndsInText(log) => \E p \in Process : pc[p] = "newline"
  BY <1>1 DEF TookTurns
<1>3. CASE ReadAll \/ UNCHANGED vars
  BY <1>2, <1>3 DEF ReadAll, vars
<1>4. ASSUME NEW p \in Process, Begin(p)
      PROVE  /\ Parses(log')
             /\ \A r, q \in Process : pc'[r] # "idle" /\ pc'[q] # "idle" => r = q
             /\ ~ EndsInText(log')
  <2>1. log' = log /\ pc' = [pc EXCEPT ![p] = "text"] /\ \A q \in Process : pc[q] = "idle"
    BY <1>4 DEF Begin
  <2> QED
    BY <1>0, <1>2, <2>1
<1>5. ASSUME NEW p \in Process, WriteText(p)
      PROVE  /\ Parses(log')
             /\ \A r, q \in Process : pc'[r] # "idle" /\ pc'[q] # "idle" => r = q
             /\ pc'[p] = "newline"
  <2>1. /\ pc[p] = "text" /\ log' = Append(log, Text(writing[p]))
        /\ pc' = [pc EXCEPT ![p] = "newline"]
    BY <1>5 DEF WriteText
  <2>2. ~ EndsInText(log)
    BY <1>2, <2>1
  <2>3. Text(writing[p]) \in Chunk
    <3>1. writing[p] \in Event
      BY <2>1, AuditBoundAssumption DEF AuditTypeOK, Event
    <3> QED
      BY <3>1, ChunkType
  <2>4. Parses(log')
    BY <1>0, <1>2, <2>1, <2>2, <2>3, ParsesAppend, ChunkType
  <2> QED
    BY <1>0, <1>2, <2>1, <2>4
<1>6. ASSUME NEW p \in Process, WriteNewline(p)
      PROVE  /\ Parses(log')
             /\ \A r, q \in Process : pc'[r] # "idle" /\ pc'[q] # "idle" => r = q
             /\ ~ EndsInText(log')
  <2>1. /\ pc[p] = "newline" /\ log' = Append(log, Newline)
        /\ pc' = [pc EXCEPT ![p] = "idle"]
    BY <1>6 DEF WriteNewline
  <2>2. Parses(log') /\ ~ EndsInText(log')
    BY <1>0, <1>2, <2>1, ParsesAppend, LastChunk, ChunkType
  <2> QED
    BY <1>0, <1>2, <2>1, <2>2
<1>7. ~ \E p \in Process : Crash(p)
  BY DEF Crash
<1> QED
  BY <1>3, <1>4, <1>5, <1>6, <1>7 DEF Next

LEMMA LogInit == Init => LogInv
<1> SUFFICES ASSUME Init
             PROVE  LogInv
  OBVIOUS
<1>1. log = << >> /\ trail = << >> /\ recorded = << >> /\ known = 0
        /\ \A p \in Process : pc[p] = "idle"
  BY DEF Init
<1>2. Events(log) = << >> /\ ~ EndsInText(log)
  BY <1>1, EventsEmpty DEF EndsInText
<1>3. Parses(log)
  BY <1>1 DEF Parses
<1>4. LogIsSound
  BY <1>1, <1>2 DEF LogIsSound, Settled
<1>5. TrailInLog /\ TrailIsComplete
  BY <1>1, <1>2 DEF TrailInLog, TrailIsComplete
<1>6. TookTurns
  BY <1>1, <1>2, <1>3 DEF TookTurns
<1> QED
  BY <1>2, <1>4, <1>5, <1>6 DEF LogInv

LEMMA LogNext ==
  ASSUME AuditTypeOK, LogInv, [Next]_vars
  PROVE  AuditTypeOK' /\ LogInv'
BY AuditTypeNext, EventsNext, SoundNext, TrailInLogNext, TrailIsCompleteNext, TookTurnsNext
   DEF LogInv

LEMMA LogAlways == Spec => [](AuditTypeOK /\ LogInv)
<1>1. Init => AuditTypeOK /\ LogInv
  BY AuditTypeInit, LogInit
<1>2. AuditTypeOK /\ LogInv /\ [Next]_vars => (AuditTypeOK /\ LogInv)'
  BY LogNext
<1> QED
  BY <1>1, <1>2, PTL DEF Spec

-----------------------------------------------------------------------------
(* The theorems.                                                           *)

\* Under every interleaving of appends the log, the processes and what the
\* last audit printed keep their types.
THEOREM AuditTypeCorrect == Spec => []AuditTypeOK
BY LogAlways, PTL

\* However many processes append to audit.log, and wherever they stop,
\* read_all fails or returns every event recorded so far, in that order.
THEOREM NoRecordLeftOut == Spec => []TrailIsComplete
<1>1. LogInv => TrailIsComplete
  BY DEF LogInv
<1> QED
  BY <1>1, LogAlways, PTL

\* What one audit command printed is the beginning of what a later one prints.
THEOREM AppendOnly == Spec => TrailOnlyGrows
<1> DEFINE Grows == Len(trail) <= Len(trail') /\ \A i \in DOMAIN trail : trail'[i] = trail[i]
<1>1. ASSUME AuditTypeOK, LogInv, [Next]_vars
      PROVE  [Grows]_vars
  <2>1. CASE trail' = trail
    BY <1>1, <2>1 DEF AuditTypeOK
  <2>2. CASE ReadAll
    <3>1. trail' = Events(log) /\ TrailInLog /\ trail \in Seq(Event)
      BY <1>1, <2>2 DEF ReadAll, LogInv, AuditTypeOK
    <3> QED
      BY <3>1 DEF TrailInLog
  <2> QED
    BY <1>1, <2>1, <2>2 DEF Next, Begin, WriteText, WriteNewline, Crash, vars
<1> HIDE DEF Grows
<1>2. Spec => [][Grows]_vars
  BY <1>1, LogAlways, PTL DEF Spec
<1> QED
  BY <1>2 DEF Grows, TrailOnlyGrows

\* As long as no record overlapped another or was interrupted, read_all
\* returns exactly the events recorded.
THEOREM LogReadsBack == Spec => []LogIsRecord
<1>1. LogInv => LogIsRecord
  BY DEF LogInv, LogIsSound, Settled, Waiting, TookTurns, LogIsRecord
<1> QED
  BY <1>1, LogAlways, PTL
=============================================================================
