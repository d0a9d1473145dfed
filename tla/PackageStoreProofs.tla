------------------------- MODULE PackageStoreProofs -------------------------
(***************************************************************************)
(* What holds of every package store, whatever number of processes put     *)
(* packages and list them, and wherever puts are interrupted.              *)
(***************************************************************************)
EXTENDS PackageStore, TLAPS

State == {"absent", "empty", "whole"}

\* What of the type invariant is about puts, and what is about lists.
PutsOK ==
  /\ dirs \in Seq([Name -> State]) /\ Len(dirs) <= MaxPackages
  /\ putting \in [Process -> 0 .. Len(dirs)]
  /\ step \in [Process -> 0 .. 6]
  /\ \A p, q \in Process : putting[p] = putting[q] /\ putting[p] # 0 => p = q
  /\ stored \subseteq 1 .. Len(dirs)
  /\ crashes \in 0 .. MaxCrashes
ListsOK ==
  /\ listed \subseteq Id /\ due \subseteq Id
  /\ lists \in 0 .. MaxLists
  /\ listing \in Listing

\* How far the files of a directory are when a put has done n of its steps:
\* the manifest is touched only when the other two are whole.
Progress(d, n) ==
  /\ n >= 2 => d["sealed.json"] = "whole"
  /\ n >= 4 => d["key_ciphertext.json"] = "whole"
  /\ n <= 4 => d["manifest.json"] = "absent"
  /\ n = 6 => d["manifest.json"] = "whole"
\* A directory with a manifest, whole or not, has everything `get` needs.
Ready(d) ==
  d["manifest.json"] # "absent" =>
    d["sealed.json"] = "whole" /\ d["key_ciphertext.json"] = "whole"
\* The directories that list prints.
Printable(i) == i \in DOMAIN dirs /\ dirs[i]["manifest.json"] = "whole"

PutInv ==
  /\ PutsOK
  /\ \A i \in DOMAIN dirs : Ready(dirs[i])
  /\ \A p \in Process : putting[p] # 0 => /\ Progress(dirs[putting[p]], step[p])
                                          /\ putting[p] \notin stored
  /\ \A i \in stored : Printable(i)
ListInv ==
  /\ ListsOK
  /\ \A i \in listing.out \cup listed : Printable(i)
  /\ listing.due \subseteq stored
  /\ listing.due \subseteq listing.left \cup listing.out
  /\ due \subseteq listed

-----------------------------------------------------------------------------
LEMMA StoreInit == Init => PutInv /\ ListInv
<1> SUFFICES ASSUME Init PROVE PutInv /\ ListInv
  OBVIOUS
<1> USE StoreBoundAssumption
<1>1. PutsOK
  BY DEF Init, PutsOK
<1>2. ListsOK
  BY DEF Init, ListsOK, Listing, NotListing
<1> QED
  BY <1>1, <1>2 DEF Init, PutInv, ListInv, NotListing

\* No step of a put takes a manifest back once it is whole.
LEMMA PrintableKept ==
  ASSUME PutInv, ListInv, PutInv', UNCHANGED listVars,
         \A i : Printable(i) => Printable(i)', stored \subseteq stored'
  PROVE  ListInv'
BY DEF ListInv, ListsOK, listVars

\* create_dir_all: a new directory, empty and of its own.
LEMMA BeginStep ==
  ASSUME PutInv, ListInv, NEW p \in Process, Begin(p)
  PROVE  PutInv' /\ ListInv'
<1> DEFINE new == [f \in Name |-> "absent"]
<1>1. new \in [Name -> State]
  BY DEF State
<1>2. /\ dirs \in Seq([Name -> State]) /\ Len(dirs) < MaxPackages
      /\ dirs' = Append(dirs, new)
  BY DEF Begin, PutInv, PutsOK
<1> HIDE DEF new
<1>3. /\ dirs' \in Seq([Name -> State]) /\ Len(dirs') = Len(dirs) + 1
      /\ Len(dirs) \in Nat /\ Len(dirs') <= MaxPackages
      /\ \A i \in DOMAIN dirs : i \in DOMAIN dirs' /\ dirs'[i] = dirs[i]
      /\ DOMAIN dirs' = DOMAIN dirs \cup {Len(dirs')} /\ dirs'[Len(dirs')] = new
      /\ DOMAIN dirs = 1 .. Len(dirs)
  BY <1>1, <1>2, StoreBoundAssumption
<1>4. /\ putting \in [Process -> 0 .. Len(dirs)] /\ step \in [Process -> 0 .. 6]
      /\ putting' = [putting EXCEPT ![p] = Len(dirs')]
      /\ step' = [step EXCEPT ![p] = 0]
      /\ UNCHANGED <<stored, crashes, listVars>>
  BY DEF Begin, PutInv, PutsOK
<1>5. PutsOK'
  BY <1>3, <1>4 DEF PutInv, PutsOK
<1>6. Ready(new) /\ Progress(new, 0)
  BY DEF new, Ready, Progress, Name
<1>7. \A i : Printable(i) => Printable(i)'
  BY <1>3 DEF Printable
<1>8. PutInv'
  <2>1. \A i \in DOMAIN dirs' : Ready(dirs'[i])
    BY <1>3, <1>6 DEF PutInv
  <2>2. \A q \in Process : putting'[q] # 0 => /\ Progress(dirs'[putting'[q]], step'[q])
                                              /\ putting'[q] \notin stored'
    <3> TAKE q \in Process
    <3>1. CASE q = p
      BY <3>1, <1>3, <1>4, <1>6 DEF PutInv, PutsOK
    <3>2. CASE q # p
      BY <3>2, <1>3, <1>4 DEF PutInv, PutsOK
    <3> QED
      BY <3>1, <3>2
  <2>3. \A i \in stored' : Printable(i)'
    BY <1>4, <1>7 DEF PutInv
  <2> QED
    BY <1>5, <2>1, <2>2, <2>3 DEF PutInv
<1> QED
  BY <1>4, <1>7, <1>8, PrintableKept

\* The file that each step of a put writes.
LEMMA WriteOrder ==
  ASSUME NEW n \in 0 .. 5
  PROVE  /\ n < 2 => Order[n \div 2 + 1] = "sealed.json"
         /\ n \in {2, 3} => Order[n \div 2 + 1] = "key_ciphertext.json"
         /\ n \in {4, 5} => Order[n \div 2 + 1] = "manifest.json"
<1>1. /\ n < 2 => n \div 2 + 1 = 1
      /\ n \in {2, 3} => n \div 2 + 1 = 2
      /\ n \in {4, 5} => n \div 2 + 1 = 3
  OBVIOUS
<1> QED
  BY <1>1 DEF Order

\* What step n + 1 of a put makes of its directory.
Written(d, n) == [d EXCEPT ![Order[n \div 2 + 1]] = IF n % 2 = 0 THEN "empty" ELSE "whole"]
LEMMA WriteFile ==
  ASSUME NEW d \in [Name -> State], NEW n \in 0 .. 5, Progress(d, n), Ready(d)
  PROVE  /\ Written(d, n) \in [Name -> State]
         /\ Progress(Written(d, n), n + 1) /\ Ready(Written(d, n))
         /\ d["manifest.json"] = "whole" => Written(d, n)["manifest.json"] = "whole"
<1> DEFINE e == Written(d, n)
           f == Order[n \div 2 + 1]
           v == IF n % 2 = 0 THEN "empty" ELSE "whole"
<1>1. /\ n < 2 => f = "sealed.json"
      /\ n \in {2, 3} => f = "key_ciphertext.json"
      /\ n \in {4, 5} => f = "manifest.json"
  BY WriteOrder
<1>2. n \in {1, 3, 5} => v = "whole"
  OBVIOUS
<1>3. v \in State /\ f \in Name
  BY <1>1 DEF State, Name
<1>4. e = [d EXCEPT ![f] = v]
  BY DEF Written
<1> HIDE DEF e, f, v
<1>5. /\ e \in [Name -> State] /\ e[f] = v
      /\ \A g \in Name : g # f => e[g] = d[g]
  BY <1>3, <1>4
<1>6. "sealed.json" \in Name /\ "key_ciphertext.json" \in Name /\ "manifest.json" \in Name
  BY DEF Name
<1>7. CASE n < 2
  BY <1>1, <1>2, <1>5, <1>6, <1>7 DEF e, Progress, Ready
<1>8. CASE n \in {2, 3}
  BY <1>1, <1>2, <1>5, <1>6, <1>8 DEF e, Progress, Ready
<1>9. CASE n \in {4, 5}
  BY <1>1, <1>2, <1>5, <1>6, <1>9 DEF e, Progress, Ready
<1> QED
  BY <1>5, <1>7, <1>8, <1>9 DEF e

LEMMA WriteStep ==
  ASSUME PutInv, ListInv, NEW p \in Process, Write(p)
  PROVE  PutInv' /\ ListInv'
<1> DEFINE i == putting[p]
           n == step[p]
           e == Written(dirs[i], n)
<1>1. /\ dirs \in Seq([Name -> State]) /\ Len(dirs) <= MaxPackages
      /\ putting \in [Process -> 0 .. Len(dirs)]
      /\ step \in [Process -> 0 .. 6]
      /\ \A q \in Process : putting[q] = i => q = p
      /\ i \in DOMAIN dirs /\ n \in 0 .. 5 /\ dirs[i] \in [Name -> State]
      /\ i \notin stored
  BY DEF Write, PutInv, PutsOK
<1>2. dirs' = [dirs EXCEPT ![i] = e] /\ step' = [step EXCEPT ![p] = n + 1]
      /\ UNCHANGED <<putting, stored, crashes, listVars>>
  BY DEF Write, Written
<1>3. /\ e \in [Name -> State] /\ Progress(e, n + 1) /\ Ready(e)
      /\ dirs[i]["manifest.json"] = "whole" => e["manifest.json"] = "whole"
  <2>1. Progress(dirs[i], n) /\ Ready(dirs[i])
    BY <1>1 DEF Write, PutInv
  <2> QED
    BY <1>1, <2>1, WriteFile
<1> HIDE DEF e
<1>4. /\ dirs' \in Seq([Name -> State]) /\ Len(dirs') = Len(dirs) /\ DOMAIN dirs' = DOMAIN dirs
      /\ dirs'[i] = e /\ \A j \in DOMAIN dirs : j # i => dirs'[j] = dirs[j]
  BY <1>1, <1>2, <1>3
<1>5. PutsOK'
  BY <1>1, <1>2, <1>4 DEF PutInv, PutsOK
<1>6. \A j : Printable(j) => Printable(j)'
  BY <1>3, <1>4 DEF Printable
<1>7. PutInv'
  <2>1. \A j \in DOMAIN dirs' : Ready(dirs'[j])
    BY <1>3, <1>4 DEF PutInv
  <2>2. \A q \in Process : putting'[q] # 0 => /\ Progress(dirs'[putting'[q]], step'[q])
                                              /\ putting'[q] \notin stored'
    <3> TAKE q \in Process
    <3>1. CASE q = p
      BY <3>1, <1>1, <1>2, <1>3, <1>4
    <3>2. CASE q # p
      <4>1. putting[q] # i /\ step'[q] = step[q]
        BY <3>2, <1>1, <1>2
      <4>2. putting[q] # 0 => putting[q] \in DOMAIN dirs
        BY <1>1
      <4> QED
        BY <4>1, <4>2, <1>2, <1>4 DEF PutInv
    <3> QED
      BY <3>1, <3>2
  <2>3. \A j \in stored' : Printable(j)'
    BY <1>2, <1>6 DEF PutInv
  <2> QED
    BY <1>5, <2>1, <2>2, <2>3 DEF PutInv
<1> QED
  BY <1>2, <1>6, <1>7, PrintableKept

\* put returns only when its manifest is whole.
LEMMA ReturnStep ==
  ASSUME PutInv, ListInv, NEW p \in Process, Return(p)
  PROVE  PutInv' /\ ListInv'
<1>1. /\ putting[p] \in DOMAIN dirs /\ DOMAIN dirs = 1 .. Len(dirs)
      /\ dirs[putting[p]]["manifest.json"] = "whole"
      /\ \A q \in Process : putting[q] = putting[p] => q = p
  BY DEF Return, PutInv, PutsOK, Progress
<1>2. /\ stored' = stored \cup {putting[p]} /\ putting' = [putting EXCEPT ![p] = 0]
      /\ putting \in [Process -> 0 .. Len(dirs)]
      /\ UNCHANGED <<dirs, step, crashes, listVars>>
  BY DEF Return, PutInv, PutsOK
<1>3. PutsOK'
  <2>1. putting' \in [Process -> 0 .. Len(dirs)] /\ stored' \subseteq 1 .. Len(dirs)
    <3>1. 0 \in 0 .. Len(dirs) /\ stored \subseteq 1 .. Len(dirs)
      BY DEF PutInv, PutsOK
    <3> QED
      BY <3>1, <1>1, <1>2
  <2>2. \A q, r \in Process : putting'[q] = putting'[r] /\ putting'[q] # 0 => q = r
    BY <1>2 DEF PutInv, PutsOK
  <2> QED
    BY <1>2, <2>1, <2>2 DEF PutInv, PutsOK
<1>4. \A q \in Process : putting'[q] # 0 => /\ Progress(dirs'[putting'[q]], step'[q])
                                            /\ putting'[q] \notin stored'
  BY <1>1, <1>2 DEF PutInv
<1>5. \A i : Printable(i) => Printable(i)'
  BY <1>2 DEF Printable
<1>6. PutInv'
  BY <1>1, <1>2, <1>3, <1>4, <1>5 DEF PutInv, Printable
<1> QED
  BY <1>2, <1>5, <1>6, PrintableKept

LEMMA CrashStep ==
  ASSUME PutInv, ListInv, NEW p \in Process, Crash(p)
  PROVE  PutInv' /\ ListInv'
<1>1. /\ putting' = [putting EXCEPT ![p] = 0] /\ putting \in [Process -> 0 .. Len(dirs)]
      /\ UNCHANGED <<dirs, step, stored, listVars>>
  BY DEF Crash, PutInv, PutsOK
<1>2. PutsOK'
  <2>1. crashes' \in 0 .. MaxCrashes
    BY StoreBoundAssumption DEF Crash, PutInv, PutsOK
  <2>2. 0 \in 0 .. Len(dirs)
    BY DEF PutInv, PutsOK
  <2> QED
    BY <1>1, <2>1, <2>2 DEF PutInv, PutsOK
<1>3. \A i : Printable(i) => Printable(i)'
  BY <1>1 DEF Printable
<1>4. PutInv'
  BY <1>1, <1>2, <1>3 DEF PutInv
<1> QED
  BY <1>1, <1>3, <1>4, PrintableKept

\* A list changes nothing that puts use.
LEMMA PutsKept ==
  ASSUME PutInv, UNCHANGED putVars
  PROVE  PutInv' /\ stored' = stored /\ \A i : Printable(i)' <=> Printable(i)
BY DEF PutInv, PutsOK, putVars, Printable

LEMMA BeginListStep ==
  ASSUME PutInv, ListInv, BeginList
  PROVE  ListInv'
<1>1. /\ DOMAIN dirs \subseteq Id /\ stored \subseteq DOMAIN dirs
  BY StoreBoundAssumption DEF PutInv, PutsOK, Id
<1>2. /\ listing' = [on |-> TRUE, left |-> DOMAIN dirs, seen |-> {}, out |-> {}, due |-> stored]
      /\ lists' = lists + 1 /\ lists < MaxLists /\ UNCHANGED <<putVars, listed, due>>
  BY DEF BeginList
<1>3. listing' \in Listing
  BY <1>1, <1>2 DEF Listing
<1>4. ListsOK'
  BY <1>2, <1>3, StoreBoundAssumption DEF ListInv, ListsOK
<1> QED
  BY <1>1, <1>2, <1>4, PutsKept DEF ListInv

\* A stored package is printed when it is visited.
LEMMA VisitStep ==
  ASSUME PutInv, ListInv, NEW i \in Id, Visit(i)
  PROVE  ListInv'
<1> DEFINE out == IF dirs[i]["manifest.json"] = "whole" THEN listing.out \cup {i} ELSE listing.out
           new == [on |-> listing.on, left |-> listing.left \ {i}, seen |-> listing.seen \cup {i},
                   out |-> out, due |-> listing.due]
<1>1. listing \in Listing
  BY DEF ListInv, ListsOK
<1>2. listing' = new /\ UNCHANGED <<putVars, listed, due, lists>>
  BY <1>1 DEF Visit, Listing
<1>3. new \in Listing
  BY <1>1 DEF Listing
<1>4. \A j \in out : Printable(j)
  BY DEF Visit, ListInv, Printable
<1>5. listing.due \subseteq (listing.left \ {i}) \cup out
  BY DEF ListInv, PutInv, Printable
<1>6. ListsOK'
  BY <1>2, <1>3 DEF ListInv, ListsOK
<1> QED
  BY <1>2, <1>4, <1>5, <1>6, PutsKept DEF ListInv

LEMMA ListFailsStep ==
  ASSUME PutInv, ListInv, ListFails
  PROVE  ListInv'
BY PutsKept DEF ListFails, ListInv, ListsOK, NotListing, Listing

LEMMA EndListStep ==
  ASSUME PutInv, ListInv, EndList
  PROVE  ListInv'
<1>1. listing \in Listing
  BY DEF ListInv, ListsOK
<1> QED
  BY <1>1, PutsKept DEF EndList, ListInv, ListsOK, NotListing, Listing

LEMMA StoreNext == PutInv /\ ListInv /\ [Next]_vars => PutInv' /\ ListInv'
<1> SUFFICES ASSUME PutInv, ListInv, [Next]_vars PROVE PutInv' /\ ListInv'
  OBVIOUS
<1>1. CASE \E p \in Process : Begin(p) \/ Write(p) \/ Return(p) \/ Crash(p)
  BY <1>1, BeginStep, WriteStep, ReturnStep, CrashStep
<1>2. CASE BeginList
  BY <1>2, BeginListStep, PutsKept DEF BeginList
<1>3. CASE \E i \in Id : Visit(i)
  BY <1>3, VisitStep, PutsKept DEF Visit
<1>4. CASE ListFails
  BY <1>4, ListFailsStep, PutsKept DEF ListFails
<1>5. CASE EndList
  BY <1>5, EndListStep, PutsKept DEF EndList
<1>6. CASE UNCHANGED vars
  <2>1. UNCHANGED putVars /\ UNCHANGED listVars
    BY <1>6 DEF vars
  <2> QED
    BY <2>1, PutsKept, PrintableKept
<1> QED
  BY <1>1, <1>2, <1>3, <1>4, <1>5, <1>6 DEF Next

LEMMA StoreAlways == Spec => [](PutInv /\ ListInv)
BY StoreInit, StoreNext, PTL DEF Spec

\* An id that put or list has returned can be decrypted, whatever else is put
\* at the same time or was left behind by an interruption.
THEOREM StoreCorrect == Spec => []PrintedIdsCanBeGot
<1>1. PutInv /\ ListInv => PrintedIdsCanBeGot
  BY DEF PutInv, ListInv, PrintedIdsCanBeGot, Gettable, Printable, Ready
<1> QED
  BY <1>1, StoreAlways, PTL

\* What PackageStore::list returns leaves out no package that was stored
\* before it began, in whatever order the directory is read.
THEOREM ListsComplete == Spec => []ListIsComplete
<1>1. PutInv /\ ListInv => ListIsComplete
  BY DEF ListInv, ListIsComplete
<1> QED
  BY <1>1, StoreAlways, PTL

\* The type invariant of the package store.
THEOREM StoreTypeCorrect == Spec => []StoreTypeOK
<1>1. PutInv /\ ListInv => StoreTypeOK
  BY StoreBoundAssumption DEF PutInv, PutsOK, ListInv, ListsOK, StoreTypeOK, State, Id
<1> QED
  BY <1>1, StoreAlways, PTL
=============================================================================
