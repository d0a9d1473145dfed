------------------------------ MODULE AuditLog ------------------------------
(***************************************************************************)
(* audit.log as the commands of several processes append to it.            *)
(*                                                                         *)
(* AuditLog::record opens the file in append mode and runs writeln!, which *)
(* reaches the file as two writes: the JSON text of the record, then the   *)
(* newline.  Every write lands at the end of the file as it is then, so    *)
(* the file is a sequence of chunks, and another process's write, or a     *)
(* crash, may come between the two of a record.                            *)
(*                                                                         *)
(* The text of a record is abstracted to the record's number.              *)
(***************************************************************************)
EXTENDS Integers, Sequences, FiniteSets

CONSTANTS
  Process,     \* processes whose commands record events
  MaxRecords,  \* bound: records begun in one behaviour
  MaxCrashes   \* bound: records interrupted

ASSUME AuditBoundAssumption == MaxRecords \in Nat /\ MaxCrashes \in Nat

VARIABLES
  log,       \* audit.log, one chunk per write
  writing,   \* the record each process is writing, 0 if none
  pc,        \* "idle", or the write the process does next
  begun,     \* records begun so far; numbers them
  recorded,  \* the records whose `record` call returned Ok, in that order
  trail,     \* what the last `audit` command that succeeded printed
  known,     \* history: how many of `recorded` there were when it did
  crashes,   \* records interrupted so far
  clean      \* history: no record has overlapped another or been interrupted

vars == <<log, writing, pc, begun, recorded, trail, known, crashes, clean>>

Event == 1 .. MaxRecords
\* A chunk is the whole JSON text of an event, a part of it, or a newline.
Text(e) == [kind |-> "text", event |-> e]
Torn    == [kind |-> "torn"]
Newline == [kind |-> "newline"]
IsText(c) == c.kind = "text"

Init ==
  /\ log = << >>
  /\ writing = [p \in Process |-> 0]
  /\ pc = [p \in Process |-> "idle"]
  /\ begun = 0
  /\ recorded = << >>
  /\ trail = << >>
  /\ known = 0
  /\ crashes = 0
  /\ clean = TRUE

\* record: serialize the event and open the file for appending.
Begin(p) ==
  /\ pc[p] = "idle"
  /\ begun < MaxRecords
  /\ begun' = begun + 1
  /\ writing' = [writing EXCEPT ![p] = begun']
  /\ pc' = [pc EXCEPT ![p] = "text"]
  /\ clean' = (clean /\ \A q \in Process : pc[q] = "idle")
  /\ UNCHANGED <<log, recorded, trail, known, crashes>>

\* Mutant of WriteText: the file is opened without `append`.
WriteOver(p) ==
  /\ pc[p] = "text"
  /\ log' = <<Text(writing[p])>>
  /\ pc' = [pc EXCEPT ![p] = "newline"]
  /\ UNCHANGED <<writing, begun, recorded, trail, known, crashes, clean>>
WriteText(p) ==
  /\ pc[p] = "text"
  /\ log' = Append(log, Text(writing[p]))
  /\ pc' = [pc EXCEPT ![p] = "newline"]
  /\ UNCHANGED <<writing, begun, recorded, trail, known, crashes, clean>>

\* Mutants of WriteNewline: no newline is written; the record is kept.
KeepWriting(p) ==
  /\ pc[p] = "newline"
  /\ log' = Append(log, Newline)
  /\ recorded' = Append(recorded, writing[p])
  /\ pc' = [pc EXCEPT ![p] = "idle"]
  /\ UNCHANGED <<writing, begun, trail, known, crashes, clean>>
ForgetNewline(p) ==
  /\ pc[p] = "newline"
  /\ recorded' = Append(recorded, writing[p])
  /\ writing' = [writing EXCEPT ![p] = 0]
  /\ pc' = [pc EXCEPT ![p] = "idle"]
  /\ UNCHANGED <<log, begun, trail, known, crashes, clean>>
\* ... and record returns Ok.
WriteNewline(p) ==
  /\ pc[p] = "newline"
  /\ log' = Append(log, Newline)
  /\ recorded' = Append(recorded, writing[p])
  /\ writing' = [writing EXCEPT ![p] = 0]
  /\ pc' = [pc EXCEPT ![p] = "idle"]
  /\ UNCHANGED <<begun, trail, known, crashes, clean>>

\* The process is killed, or a write fails, perhaps after part of the text.
Crash(p) ==
  /\ pc[p] # "idle"
  /\ crashes < MaxCrashes
  /\ crashes' = crashes + 1
  /\ clean' = FALSE
  /\ \/ UNCHANGED log
     \/ pc[p] = "text" /\ log' = Append(log, Torn)
  /\ writing' = [writing EXCEPT ![p] = 0]
  /\ pc' = [pc EXCEPT ![p] = "idle"]
  /\ UNCHANGED <<begun, recorded, trail, known>>

-----------------------------------------------------------------------------
(* read_all: split the file at newlines, skip empty lines, parse the rest. *)

\* A line parses if it is the text of one event and nothing else.
Parses(f) ==
  /\ \A i \in DOMAIN f : f[i] # Torn
  /\ \A i \in 1 .. Len(f) - 1 : IsText(f[i]) => f[i + 1] = Newline
Events(f) ==
  LET upTo[i \in 0 .. Len(f)] ==
        IF i = 0 THEN << >>
        ELSE IF IsText(f[i]) THEN Append(upTo[i - 1], f[i].event) ELSE upTo[i - 1]
  IN upTo[Len(f)]

\* Mutant of ReadAll: a line that does not parse is skipped.
ReadWhatParses ==
  /\ trail' = SelectSeq(Events(log), LAMBDA e : \E i \in DOMAIN log :
                /\ log[i] = Text(e)
                /\ i = 1 \/ log[i - 1] = Newline
                /\ i = Len(log) \/ log[i + 1] = Newline)
  /\ known' = Len(recorded)
  /\ UNCHANGED <<log, writing, pc, begun, recorded, crashes, clean>>
\* cmd_audit, when no line makes read_all fail.
ReadAll ==
  /\ Parses(log)
  /\ trail' = Events(log)
  /\ known' = Len(recorded)
  /\ UNCHANGED <<log, writing, pc, begun, recorded, crashes, clean>>

Next == ReadAll \/ \E p \in Process : Begin(p) \/ WriteText(p) \/ WriteNewline(p) \/ Crash(p)

Spec == Init /\ [][Next]_vars

-----------------------------------------------------------------------------
(* Properties.                                                             *)

Chunk == [kind : {"text"}, event : Event] \cup {Torn, Newline}

\* Every variable has its type, and an idle process writes nothing.
AuditTypeOK ==
  /\ log \in Seq(Chunk)
  /\ pc \in [Process -> {"idle", "text", "newline"}]
  /\ writing \in [Process -> 0 .. MaxRecords]
  /\ \A p \in Process : pc[p] = "idle" <=> writing[p] = 0
  /\ begun \in 0 .. MaxRecords
  /\ recorded \in Seq(Event)
  /\ trail \in Seq(Event)
  /\ known \in 0 .. Len(recorded)
  /\ crashes \in 0 .. MaxCrashes
  /\ clean \in BOOLEAN

\* An audit that succeeds shows every event recorded before it, in that
\* order, and at most one event more, whose newline was not written yet:
\* read_all fails rather than leave out a line that it cannot parse.
TrailIsComplete ==
  /\ Len(trail) \in {known, known + 1}
  /\ \A i \in 1 .. known : trail[i] = recorded[i]

\* "Append-only": a later audit shows what an earlier one showed, in the same
\* order, and perhaps more.
TrailOnlyGrows ==
  [][Len(trail) <= Len(trail') /\ \A i \in DOMAIN trail : trail'[i] = trail[i]]_vars

\* "Newline-delimited JSON": between two records every line parses, so `audit`
\* can print the log.
LogReadable == (\A p \in Process : pc[p] = "idle") => Parses(log)

\* As long as records take turns and none is interrupted, the log reads back
\* as exactly the events recorded, in the order they were recorded.
LogIsRecord ==
  clean /\ (\A p \in Process : pc[p] = "idle") => Parses(log) /\ Events(log) = recorded
=============================================================================
