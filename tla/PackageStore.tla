---------------------------- MODULE PackageStore ----------------------------
(***************************************************************************)
(* The packages/ directory, file by file.                                  *)
(*                                                                         *)
(* put makes a directory under a fresh id and writes three files into it,  *)
(* each in two steps (fs::write truncates, then fills).  list walks the    *)
(* directory while puts go on in other processes and reads the manifests.  *)
(* get reads the two other files of one package.                           *)
(*                                                                         *)
(* A file is abstracted to whether it is there and whole, an id to the     *)
(* number of its put.  The order in which list sorts is left out.          *)
(***************************************************************************)
EXTENDS Integers, Sequences

CONSTANTS
  Process,      \* processes that run `encrypt`
  MaxPackages,  \* bound: puts begun in one behaviour
  MaxLists,     \* bound: lists begun in one behaviour
  MaxCrashes    \* bound: puts interrupted

ASSUME StoreBoundAssumption ==
  MaxPackages \in Nat /\ MaxLists \in Nat /\ MaxCrashes \in Nat

VARIABLES
  dirs,     \* the package directories, each with the state of its files
  putting,  \* per process, the id it is putting; 0 if none
  step,     \* per process, how many of put's six file steps are done
  stored,   \* history: the ids that put has returned
  crashes,  \* puts interrupted so far
  listing,  \* the `list` under way
  listed,   \* what the last `list` that succeeded printed
  due,      \* history: the ids that had been returned when that list began
  lists     \* lists begun so far

putVars  == <<dirs, putting, step, stored, crashes>>
listVars == <<listing, listed, due, lists>>
vars     == <<putVars, listVars>>

Id     == 1 .. MaxPackages
Name   == {"sealed.json", "key_ciphertext.json", "manifest.json"}
NotListing == [on |-> FALSE, left |-> {}, seen |-> {}, out |-> {}, due |-> {}]

Init ==
  /\ dirs = << >>
  /\ putting = [p \in Process |-> 0]
  /\ step = [p \in Process |-> 0]
  /\ stored = {}
  /\ crashes = 0
  /\ listing = NotListing
  /\ listed = {}
  /\ due = {}
  /\ lists = 0

-----------------------------------------------------------------------------
(* put                                                                     *)

\* Mutant of Begin: the new id may be that of an earlier put.
BeginSameId(p) ==
  /\ putting[p] = 0
  /\ Len(dirs) < MaxPackages
  /\ dirs' = IF dirs = << >> THEN <<[f \in Name |-> "absent"]>> ELSE dirs
  /\ putting' = [putting EXCEPT ![p] = Len(dirs')]
  /\ step' = [step EXCEPT ![p] = 0]
  /\ UNCHANGED <<stored, crashes, listVars>>
\* new_id and create_dir_all.
Begin(p) ==
  /\ putting[p] = 0
  /\ Len(dirs) < MaxPackages
  /\ dirs' = Append(dirs, [f \in Name |-> "absent"])
  /\ putting' = [putting EXCEPT ![p] = Len(dirs')]
  /\ step' = [step EXCEPT ![p] = 0]
  /\ UNCHANGED <<stored, crashes, listVars>>

\* Mutant of Order: the manifest is written first.
ManifestFirst == <<"manifest.json", "sealed.json", "key_ciphertext.json">>
Order == <<"sealed.json", "key_ciphertext.json", "manifest.json">>

\* fs::write on the next file: the first step leaves it empty, the second whole.
Write(p) ==
  /\ putting[p] # 0
  /\ step[p] < 6
  /\ dirs' = [dirs EXCEPT ![putting[p]][Order[step[p] \div 2 + 1]] =
                IF step[p] % 2 = 0 THEN "empty" ELSE "whole"]
  /\ step' = [step EXCEPT ![p] = @ + 1]
  /\ UNCHANGED <<putting, stored, crashes, listVars>>

Return(p) ==
  /\ putting[p] # 0
  /\ step[p] = 6
  /\ stored' = stored \cup {putting[p]}
  /\ putting' = [putting EXCEPT ![p] = 0]
  /\ UNCHANGED <<dirs, step, crashes, listVars>>

\* The process is killed, or a write fails: the directory stays as it is.
Crash(p) ==
  /\ putting[p] # 0
  /\ crashes < MaxCrashes
  /\ crashes' = crashes + 1
  /\ putting' = [putting EXCEPT ![p] = 0]
  /\ UNCHANGED <<dirs, step, stored, listVars>>

-----------------------------------------------------------------------------
(* get and list                                                            *)

\* get of an id succeeds if both of its files are there and parse.
Gettable(i) ==
  /\ i \in DOMAIN dirs
  /\ dirs[i]["sealed.json"] = "whole"
  /\ dirs[i]["key_ciphertext.json"] = "whole"

\* read_dir: it will return every entry that is there now, and may return
\* entries that are made while it is read.
BeginList ==
  /\ ~ listing.on
  /\ lists < MaxLists
  /\ lists' = lists + 1
  /\ listing' = [on |-> TRUE, left |-> DOMAIN dirs, seen |-> {}, out |-> {}, due |-> stored]
  /\ UNCHANGED <<putVars, listed, due>>

\* Mutant of Visit: an entry without a manifest ends the walk.
VisitOrStop(i) ==
  /\ listing.on
  /\ i \in DOMAIN dirs \ listing.seen
  /\ dirs[i]["manifest.json"] # "empty"
  /\ listing' = [listing EXCEPT
       !.left = IF dirs[i]["manifest.json"] = "whole" THEN @ \ {i} ELSE {},
       !.seen = @ \cup {i},
       !.out  = IF dirs[i]["manifest.json"] = "whole" THEN @ \cup {i} ELSE @]
  /\ UNCHANGED <<putVars, listed, due, lists>>
\* The next entry: passed over without a manifest, printed with a whole one.
Visit(i) ==
  /\ listing.on
  /\ i \in DOMAIN dirs \ listing.seen
  /\ dirs[i]["manifest.json"] # "empty"
  /\ listing' = [listing EXCEPT
       !.left = @ \ {i},
       !.seen = @ \cup {i},
       !.out  = IF dirs[i]["manifest.json"] = "whole" THEN @ \cup {i} ELSE @]
  /\ UNCHANGED <<putVars, listed, due, lists>>

\* A manifest that does not parse makes the whole list fail.
ListFails ==
  /\ listing.on
  /\ \E i \in DOMAIN dirs \ listing.seen : dirs[i]["manifest.json"] = "empty"
  /\ listing' = NotListing
  /\ UNCHANGED <<putVars, listed, due, lists>>

EndList ==
  /\ listing.on
  /\ listing.left = {}
  /\ listed' = listing.out
  /\ due' = listing.due
  /\ listing' = NotListing
  /\ UNCHANGED <<putVars, lists>>

Next ==
  \/ \E p \in Process : Begin(p) \/ Write(p) \/ Return(p) \/ Crash(p)
  \/ BeginList \/ (\E i \in Id : Visit(i)) \/ ListFails \/ EndList

Spec == Init /\ [][Next]_vars

-----------------------------------------------------------------------------
(* Properties.                                                             *)

Listing == [on : BOOLEAN, left : SUBSET Id, seen : SUBSET Id, out : SUBSET Id, due : SUBSET Id]

\* Every variable has its type; a process puts into a directory that exists,
\* of its own.
StoreTypeOK ==
  /\ dirs \in Seq([Name -> {"absent", "empty", "whole"}]) /\ Len(dirs) <= MaxPackages
  /\ putting \in [Process -> 0 .. Len(dirs)]
  /\ step \in [Process -> 0 .. 6]
  /\ \A p, q \in Process : putting[p] = putting[q] /\ putting[p] # 0 => p = q
  /\ stored \subseteq Id /\ listed \subseteq Id /\ due \subseteq Id
  /\ crashes \in 0 .. MaxCrashes /\ lists \in 0 .. MaxLists
  /\ listing \in Listing

\* An id that encrypt or list has printed can be given to decrypt: put writes
\* the manifest, which is what list goes by, only when the rest is whole.
PrintedIdsCanBeGot == \A i \in stored \cup listed : Gettable(i)

\* A list that succeeds has every package stored before it began, whatever is
\* being put at the same time or was left behind by an interrupted put.
ListIsComplete == due \subseteq listed
=============================================================================
