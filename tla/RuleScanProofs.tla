--------------------------- MODULE RuleScanProofs ---------------------------
(***************************************************************************)
(* Proofs about RuleScan, for any number of workers, directories, files    *)
(* and versions: what ScanComplete and RowsAgree state is an invariant.    *)
(*                                                                         *)
(* Neither is inductive.  The reason a completed scan is complete lies in  *)
(* where a worker is: a worker that nobody disturbed has, at every step,   *)
(* scanned a prefix of the directories (ScanPhase), hashed a part of the   *)
(* files of the next one (HashPhase), and later recorded a prefix of what  *)
(* it scanned (RecordPhase).                                               *)
(***************************************************************************)
EXTENDS RuleScan, TLAPS

-----------------------------------------------------------------------------
(***************************************************************************)
(* The inductive invariant.                                                *)
(***************************************************************************)

\* What a worker holds at each place.
Places ==
  \A w \in Workers :
    /\ pc[w] \in {"stopped", "connect", "idle"} => sets[w] = <<>>
    /\ pc[w] \in {"list", "hash"} => todo[w] # <<>> /\ current[w] \in Metadata
    /\ pc[w] = "tx" => sets[w] # <<>>

\* RowsAgree without the types.
Rows ==
  /\ \A n \in Names : ruleSets[n] # None =>
       last[n] # None /\ versions[<<n, last[n]>>].path = ruleSets[n].path
  /\ \A a \in accepted : \E v \in Versions :
       versions[<<a[1], v>>] # None /\ versions[<<a[1], v>>].id = a[2]

\* What scanRuleSet returns for d, if nobody edits.
Want(d) == [path |-> d, meta |-> meta[d], sum |-> OnDisk(d)]

\* The directories scanned and those to be scanned make up the list.
ScanPhase(w) ==
  pc[w] \in {"scan", "list", "hash"} =>
    /\ Len(sets[w]) + Len(todo[w]) = Len(DirList)
    /\ \A i \in 1 .. Len(todo[w]) : todo[w][i] = DirList[Len(sets[w]) + i]
    /\ \A i \in 1 .. Len(sets[w]) :
         Readable(DirList[i]) /\ sets[w][i] = Want(DirList[i])

\* The directory being scanned, and the files hashed and to be hashed.
HashPhase(w) ==
  /\ pc[w] \in {"list", "hash"} =>
       Readable(Head(todo[w])) /\ current[w] = meta[Head(todo[w])]
  /\ pc[w] = "hash" =>
       /\ DOMAIN hashed[w] \cup listing[w] = FilesBelow(Head(todo[w]))
       /\ \A p \in DOMAIN hashed[w] : hashed[w][p] = file[p]

\* What ScanComplete says of the i-th directory, of the first k.
VersionRecorded(i, k) ==
  LET m == meta[DirList[i]]
  IN (\A j \in i + 1 .. k :
        ~(m.name = meta[DirList[j]].name /\ m.version = meta[DirList[j]].version)) =>
       /\ versions[<<m.name, m.version>>] # None
       /\ versions[<<m.name, m.version>>].path = DirList[i]
       /\ versions[<<m.name, m.version>>].sum = OnDisk(DirList[i])

\* The row of a set is that of the last directory that names it.
SetRecorded(i, k) ==
  LET m == meta[DirList[i]]
  IN (\A j \in i + 1 .. k : m.name # meta[DirList[j]].name) =>
       ruleSets[m.name] = [path |-> DirList[i], enabled |-> m.enabled]

\* The sets recorded and those to be recorded make up what was scanned.
Recorded(w) ==
  \E k \in Nat :
    /\ k + Len(sets[w]) = Len(DirList)
    /\ \A i \in 1 .. Len(DirList) : Readable(DirList[i])
    /\ \A i \in 1 .. Len(sets[w]) : sets[w][i] = Want(DirList[k + i])
    /\ \A i \in 1 .. k : VersionRecorded(i, k) /\ SetRecorded(i, k)

\* Recorded holds from the end of the scan on.
RecordPhase(w) ==
  pc[w] \in {"record", "tx"} \/ (pc[w] = "idle" /\ w \in Recorders) => Recorded(w)

\* A worker in whose time nobody else edited or recorded.
Undisturbed ==
  \A w \in Workers : quiet[w] = "yes" => ScanPhase(w) /\ HashPhase(w) /\ RecordPhase(w)

\* The inductive invariant.
IInv == TypeOK /\ Places /\ Rows /\ Undisturbed

-----------------------------------------------------------------------------
(***************************************************************************)
(* Lemmas.                                                                 *)
(***************************************************************************)

\* The list of directories is a sequence of directories.
LEMMA DirListType == DirList \in Seq(Dirs) /\ Root \in Dirs
<1>1. Root \in Dirs
  BY DEF Dirs
<1> QED
  BY <1>1, RuleScanAssumption DEF DirList

\* The empty checksum.
LEMMA EmptySumType == EmptySum \in Checksum
BY DEF EmptySum, Checksum

\* What is read from a disk that nobody edits.
LEMMA SameDisk ==
  ASSUME UNCHANGED <<meta, file>>
  PROVE  /\ DirList' = DirList
         /\ \A d : Readable(d)' <=> Readable(d)
         /\ \A d : FilesBelow(d)' = FilesBelow(d)
         /\ \A d : OnDisk(d)' = OnDisk(d)
         /\ \A d : Want(d)' = Want(d)
BY DEF DirList, Readable, FilesBelow, OnDisk, Want

\* What was recorded stays, if nobody writes the disk or the tables.
LEMMA SameRecord ==
  ASSUME NEW w, UNCHANGED <<meta, file, ruleSets, versions>>, sets'[w] = sets[w]
  PROVE  Recorded(w)' <=> Recorded(w)
<1>1. \A i, k : (VersionRecorded(i, k)' <=> VersionRecorded(i, k))
                /\ (SetRecorded(i, k)' <=> SetRecorded(i, k))
  BY SameDisk DEF VersionRecorded, SetRecorded
<1> QED
  BY <1>1, SameDisk DEF Recorded

\* A worker that a step leaves alone, on a disk and with tables it does not
\* change.
LEMMA Frame ==
  ASSUME IInv, NEW w \in Workers,
         UNCHANGED <<meta, file, ruleSets, versions>>,
         pc'[w] = pc[w], todo'[w] = todo[w], current'[w] = current[w],
         listing'[w] = listing[w], hashed'[w] = hashed[w], sets'[w] = sets[w],
         quiet'[w] = quiet[w]
  PROVE  quiet'[w] = "yes" => ScanPhase(w)' /\ HashPhase(w)' /\ RecordPhase(w)'
<1> SUFFICES ASSUME quiet[w] = "yes"
             PROVE  ScanPhase(w)' /\ HashPhase(w)' /\ RecordPhase(w)'
  OBVIOUS
<1>1. ScanPhase(w) /\ HashPhase(w) /\ RecordPhase(w)
  BY DEF IInv, Undisturbed
<1>2. ScanPhase(w)'
  BY <1>1, SameDisk DEF ScanPhase
<1>3. HashPhase(w)'
  BY <1>1, SameDisk DEF HashPhase
<1>4. RecordPhase(w)'
  BY <1>1, SameRecord DEF RecordPhase
<1> QED
  BY <1>2, <1>3, <1>4

\* The tables agree as long as nobody writes them.
LEMMA RowsFrame ==
  ASSUME IInv, UNCHANGED <<ruleSets, versions, last, accepted>>
  PROVE  Rows'
BY DEF IInv, Rows

\* Initially nobody has done anything.
LEMMA InitHolds == Init => IInv
<1> SUFFICES ASSUME Init PROVE IInv
  OBVIOUS
<1>2. TypeOK
  BY EmptySumType, RuleScanAssumption DEF Init, TypeOK, Running
<1>3. Places /\ Rows /\ Undisturbed
  BY DEF Init, Places, Rows, Undisturbed
<1> QED
  BY <1>2, <1>3 DEF IInv

-----------------------------------------------------------------------------
(***************************************************************************)
(* The steps.                                                              *)
(***************************************************************************)

\* An administrator edits a file or a ruleset.json.
LEMMA EditedKeeps ==
  ASSUME IInv, Edited,
         meta' \in [Dirs -> Metadata \cup {None}],
         file' \in [Paths -> Contents \cup {None}]
  PROVE  IInv'
<1>1. /\ UNCHANGED <<ruleSets, versions, lock, pc, todo, current, listing, hashed, sets,
                     starts, ids, last, accepted>>
      /\ edits < MaxEdits /\ edits' = edits + 1
      /\ quiet' = [w \in Workers |-> "no"]
  BY DEF Edited, tables, scan
<1>2. TypeOK'
  BY <1>1, RuleScanAssumption DEF IInv, TypeOK
<1>3. Places'
  BY <1>1 DEF IInv, Places
<1>4. Undisturbed'
  BY <1>1 DEF Undisturbed
<1> QED
  BY <1>1, <1>2, <1>3, <1>4, RowsFrame DEF IInv

\* A worker starts.
LEMMA StartKeeps == ASSUME IInv, NEW w \in Workers, Start(w) PROVE IInv'
<1>1. /\ pc[w] = "stopped" /\ starts < MaxStarts /\ starts' = starts + 1
      /\ pc' = [pc EXCEPT ![w] = "connect"]
      /\ quiet' = [quiet EXCEPT ![w] = "yes"]
      /\ UNCHANGED <<meta, file, ruleSets, versions, lock, todo, current, listing, hashed,
                     sets, edits, ids, last, accepted>>
  BY DEF Start, disk, tables
<1>2. TypeOK'
  BY <1>1, RuleScanAssumption DEF IInv, TypeOK, Running
<1>3. Places'
  BY <1>1 DEF IInv, TypeOK, Places
<1>4. Undisturbed'
  <2> SUFFICES ASSUME NEW x \in Workers, quiet'[x] = "yes"
               PROVE  ScanPhase(x)' /\ HashPhase(x)' /\ RecordPhase(x)'
    BY DEF Undisturbed
  <2>1. CASE x # w
    BY <1>1, <2>1, Frame DEF IInv, TypeOK
  <2>2. CASE x = w
    <3>1. pc'[x] = "connect"
      BY <1>1, <2>2 DEF IInv, TypeOK
    <3> QED
      BY <3>1 DEF ScanPhase, HashPhase, RecordPhase
  <2> QED
    BY <2>1, <2>2
<1> QED
  BY <1>1, <1>2, <1>3, <1>4, RowsFrame DEF IInv

\* scanManagedRules begins to scan and lists the directories.
LEMMA ConnectedKeeps == ASSUME IInv, NEW w \in Workers, Connected(w) PROVE IInv'
<1>1. /\ pc[w] = "connect"
      /\ pc' = [pc EXCEPT ![w] = "scan"]
      /\ todo' = [todo EXCEPT ![w] = DirList]
      /\ UNCHANGED <<meta, file, ruleSets, versions, lock, current, listing, hashed, sets,
                     edits, starts, ids, quiet, last, accepted>>
  BY DEF Connected, disk, tables
<1>2. TypeOK'
  BY <1>1, DirListType DEF IInv, TypeOK, Running
<1>3. Places'
  BY <1>1 DEF IInv, TypeOK, Places
<1>4. Undisturbed'
  <2> SUFFICES ASSUME NEW x \in Workers, quiet'[x] = "yes"
               PROVE  ScanPhase(x)' /\ HashPhase(x)' /\ RecordPhase(x)'
    BY DEF Undisturbed
  <2>1. CASE x # w
    BY <1>1, <2>1, Frame DEF IInv, TypeOK
  <2>2. CASE x = w
    <3>1. pc'[x] = "scan" /\ sets'[x] = <<>> /\ todo'[x] = DirList
      BY <1>1, <2>2 DEF IInv, TypeOK, Places
    <3>2. ScanPhase(x)'
      BY <1>1, <3>1, SameDisk, DirListType DEF ScanPhase
    <3> QED
      BY <3>1, <3>2 DEF HashPhase, RecordPhase
  <2> QED
    BY <2>1, <2>2
<1> QED
  BY <1>1, <1>2, <1>3, <1>4, RowsFrame DEF IInv

\* A worker fails or is killed; its transaction is rolled back.
LEMMA ExitKeeps == ASSUME IInv, NEW w \in Workers, Exit(w) PROVE IInv'
<1>1. /\ pc' = [pc EXCEPT ![w] = "stopped"]
      /\ todo' = [todo EXCEPT ![w] = <<>>]
      /\ current' = [current EXCEPT ![w] = None]
      /\ listing' = [listing EXCEPT ![w] = {}]
      /\ hashed' = [hashed EXCEPT ![w] = EmptySum]
      /\ sets' = [sets EXCEPT ![w] = <<>>]
      /\ lock' = Unlocked(w)
      /\ UNCHANGED <<meta, file, ruleSets, versions, edits, starts, ids, quiet, last,
                     accepted>>
  BY DEF Exit, disk
<1>2. Unlocked(w) \in [Names -> Workers \cup {None}]
  BY DEF Unlocked, IInv, TypeOK
<1>3. TypeOK'
  BY <1>1, <1>2, EmptySumType DEF IInv, TypeOK
<1>4. Places'
  BY <1>1 DEF IInv, TypeOK, Places
<1>5. Undisturbed'
  <2> SUFFICES ASSUME NEW x \in Workers, quiet'[x] = "yes"
               PROVE  ScanPhase(x)' /\ HashPhase(x)' /\ RecordPhase(x)'
    BY DEF Undisturbed
  <2>1. CASE x # w
    BY <1>1, <2>1, Frame DEF IInv, TypeOK
  <2>2. CASE x = w
    <3>1. pc'[x] = "stopped"
      BY <1>1, <2>2 DEF IInv, TypeOK
    <3> QED
      BY <3>1 DEF ScanPhase, HashPhase, RecordPhase
  <2> QED
    BY <2>1, <2>2
<1> QED
  BY <1>1, <1>3, <1>4, <1>5, RowsFrame DEF IInv

\* readMetadata.
LEMMA ReadMetadataKeeps == ASSUME IInv, NEW w \in Workers, ReadMetadata(w) PROVE IInv'
<1> DEFINE d == Head(todo[w])
<1>1. /\ pc[w] = "scan" /\ todo[w] # <<>> /\ Readable(d)
      /\ current' = [current EXCEPT ![w] = meta[d]]
      /\ pc' = [pc EXCEPT ![w] = "list"]
      /\ UNCHANGED <<meta, file, ruleSets, versions, lock, todo, listing, hashed, sets,
                     edits, starts, ids, quiet, last, accepted>>
  BY DEF ReadMetadata, disk, tables
<1>2. d \in Dirs /\ meta[d] \in Metadata
  BY <1>1 DEF IInv, TypeOK, Readable
<1>3. TypeOK'
  BY <1>1, <1>2 DEF IInv, TypeOK, Running
<1>4. Places'
  BY <1>1, <1>2 DEF IInv, TypeOK, Places
<1>5. Undisturbed'
  <2> SUFFICES ASSUME NEW x \in Workers, quiet'[x] = "yes"
               PROVE  ScanPhase(x)' /\ HashPhase(x)' /\ RecordPhase(x)'
    BY DEF Undisturbed
  <2>1. CASE x # w
    BY <1>1, <2>1, Frame DEF IInv, TypeOK
  <2>2. CASE x = w
    <3>1. pc'[w] = "list" /\ current'[w] = meta[d]
      BY <1>1 DEF IInv, TypeOK
    <3>2. ScanPhase(w)
      BY <1>1, <2>2 DEF IInv, Undisturbed
    <3>3. ScanPhase(w)'
      BY <1>1, <3>1, <3>2, SameDisk DEF ScanPhase
    <3>4. HashPhase(w)'
      BY <1>1, <3>1, SameDisk DEF HashPhase
    <3> QED
      BY <2>2, <3>1, <3>3, <3>4 DEF RecordPhase
  <2> QED
    BY <2>1, <2>2
<1> QED
  BY <1>1, <1>3, <1>4, <1>5, RowsFrame DEF IInv

\* WalkDir lists the files of a set.
LEMMA ListFilesKeeps == ASSUME IInv, NEW w \in Workers, ListFiles(w) PROVE IInv'
<1> DEFINE d == Head(todo[w])
<1>1. /\ pc[w] = "list"
      /\ listing' = [listing EXCEPT ![w] = FilesBelow(d)]
      /\ hashed' = [hashed EXCEPT ![w] = EmptySum]
      /\ pc' = [pc EXCEPT ![w] = "hash"]
      /\ UNCHANGED <<meta, file, ruleSets, versions, lock, todo, current, sets,
                     edits, starts, ids, quiet, last, accepted>>
  BY DEF ListFiles, NewHash, disk, tables
<1>2. FilesBelow(d) \subseteq Paths
  BY DEF FilesBelow
<1>3. TypeOK'
  BY <1>1, <1>2, EmptySumType DEF IInv, TypeOK, Running
<1>4. Places'
  BY <1>1 DEF IInv, TypeOK, Places
<1>5. Undisturbed'
  <2> SUFFICES ASSUME NEW x \in Workers, quiet'[x] = "yes"
               PROVE  ScanPhase(x)' /\ HashPhase(x)' /\ RecordPhase(x)'
    BY DEF Undisturbed
  <2>1. CASE x # w
    BY <1>1, <2>1, Frame DEF IInv, TypeOK
  <2>2. CASE x = w
    <3>1. pc'[w] = "hash" /\ listing'[w] = FilesBelow(d) /\ hashed'[w] = EmptySum
      BY <1>1 DEF IInv, TypeOK
    <3>2. ScanPhase(w) /\ HashPhase(w)
      BY <1>1, <2>2 DEF IInv, Undisturbed
    <3>3. ScanPhase(w)'
      BY <1>1, <3>1, <3>2, SameDisk DEF ScanPhase
    <3>4. DOMAIN EmptySum = {}
      BY DEF EmptySum
    <3>5. HashPhase(w)'
      BY <1>1, <3>1, <3>2, <3>4, SameDisk DEF HashPhase
    <3> QED
      BY <2>2, <3>1, <3>3, <3>5 DEF RecordPhase
  <2> QED
    BY <2>1, <2>2
<1> QED
  BY <1>1, <1>3, <1>4, <1>5, RowsFrame DEF IInv

\* A file is read into the hash.
LEMMA HashFileKeeps ==
  ASSUME IInv, NEW w \in Workers, NEW p \in Paths, HashFile(w, p)
  PROVE  IInv'
<1> DEFINE h == [q \in DOMAIN hashed[w] \cup {p} |-> IF q = p THEN file[p] ELSE hashed[w][q]]
<1>1. /\ pc[w] = "hash" /\ p \in listing[w] /\ file[p] # None
      /\ hashed' = [hashed EXCEPT ![w] = h]
      /\ listing' = [listing EXCEPT ![w] = listing[w] \ {p}]
      /\ UNCHANGED <<meta, file, ruleSets, versions, lock, pc, todo, current, sets,
                     edits, starts, ids, quiet, last, accepted>>
  BY DEF HashFile, IsNext, disk, tables
<1>2. h \in Checksum
  <2>1. hashed[w] \in Checksum /\ file[p] \in Contents
    BY <1>1 DEF IInv, TypeOK
  <2>2. PICK ps \in SUBSET Paths : hashed[w] \in [ps -> Contents]
    BY <2>1 DEF Checksum
  <2>3. ps \cup {p} \in SUBSET Paths /\ h \in [ps \cup {p} -> Contents]
    BY <2>1, <2>2
  <2> QED
    BY <2>3 DEF Checksum
<1>3. DOMAIN h = DOMAIN hashed[w] \cup {p} /\ h[p] = file[p]
      /\ \A q \in DOMAIN hashed[w] : q # p => h[q] = hashed[w][q]
  OBVIOUS
<1> HIDE DEF h
<1>4. TypeOK'
  BY <1>1, <1>2 DEF IInv, TypeOK
<1>5. Places'
  BY <1>1 DEF IInv, TypeOK, Places
<1>6. Undisturbed'
  <2> SUFFICES ASSUME NEW x \in Workers, quiet'[x] = "yes"
               PROVE  ScanPhase(x)' /\ HashPhase(x)' /\ RecordPhase(x)'
    BY DEF Undisturbed
  <2>1. CASE x # w
    BY <1>1, <2>1, Frame DEF IInv, TypeOK
  <2>2. CASE x = w
    <3>1. listing'[w] = listing[w] \ {p} /\ hashed'[w] = h
      BY <1>1 DEF IInv, TypeOK
    <3>2. ScanPhase(w) /\ HashPhase(w)
      BY <1>1, <2>2 DEF IInv, Undisturbed
    <3>3. ScanPhase(w)'
      BY <1>1, <3>1, <3>2, SameDisk DEF ScanPhase
    <3>4. DOMAIN h \cup (listing[w] \ {p}) = DOMAIN hashed[w] \cup listing[w]
      BY <1>1, <1>3
    <3>5. \A q \in DOMAIN h : h[q] = file[q]
      BY <1>1, <1>3, <3>2 DEF HashPhase
    <3>6. HashPhase(w)'
      BY <1>1, <3>1, <3>2, <3>4, <3>5, SameDisk DEF HashPhase
    <3> QED
      BY <1>1, <2>2, <3>3, <3>6 DEF RecordPhase
  <2> QED
    BY <2>1, <2>2
<1> QED
  BY <1>1, <1>4, <1>5, <1>6, RowsFrame DEF IInv

\* A set is complete: it joins those to be recorded.
LEMMA SetScannedKeeps == ASSUME IInv, NEW w \in Workers, SetScanned(w) PROVE IInv'
<1> DEFINE d == Head(todo[w])
           s == [path |-> d, meta |-> current[w], sum |-> hashed[w]]
<1>1. /\ pc[w] = "hash" /\ listing[w] = {}
      /\ sets' = [sets EXCEPT ![w] = Append(sets[w], s)]
      /\ todo' = [todo EXCEPT ![w] = Tail(todo[w])]
      /\ current' = [current EXCEPT ![w] = None]
      /\ pc' = [pc EXCEPT ![w] = "scan"]
      /\ UNCHANGED <<meta, file, ruleSets, versions, lock, listing, hashed,
                     edits, starts, ids, quiet, last, accepted>>
  BY DEF SetScanned, disk, tables
<1>2. todo[w] # <<>> /\ todo[w] \in Seq(Dirs) /\ sets[w] \in Seq(ScannedSet)
  BY <1>1 DEF IInv, TypeOK, Places
<1>3. d \in Dirs /\ s \in ScannedSet
  BY <1>1, <1>2 DEF IInv, TypeOK, Places, ScannedSet
<1>4. TypeOK'
  BY <1>1, <1>2, <1>3 DEF IInv, TypeOK, Running
<1>5. Places'
  BY <1>1 DEF IInv, TypeOK, Places
<1>6. Undisturbed'
  <2> SUFFICES ASSUME NEW x \in Workers, quiet'[x] = "yes"
               PROVE  ScanPhase(x)' /\ HashPhase(x)' /\ RecordPhase(x)'
    BY DEF Undisturbed
  <2>1. CASE x # w
    BY <1>1, <2>1, Frame DEF IInv, TypeOK
  <2>2. CASE x = w
    <3>1. pc'[w] = "scan" /\ sets'[w] = Append(sets[w], s) /\ todo'[w] = Tail(todo[w])
      BY <1>1 DEF IInv, TypeOK
    <3>2. ScanPhase(w) /\ HashPhase(w)
      BY <1>1, <2>2 DEF IInv, Undisturbed
    <3>3. Readable(d) /\ s = Want(d)
      <4>1. Readable(d) /\ current[w] = meta[d] /\ DOMAIN hashed[w] = FilesBelow(d)
            /\ \A p \in DOMAIN hashed[w] : hashed[w][p] = file[p]
        BY <1>1, <3>2 DEF HashPhase
      <4>2. PICK ps \in SUBSET Paths : hashed[w] \in [ps -> Contents]
        BY DEF IInv, TypeOK, Checksum
      <4>3. hashed[w] = OnDisk(d)
        BY <4>1, <4>2 DEF OnDisk
      <4> QED
        BY <4>1, <4>3 DEF Want
    <3> DEFINE a == Len(sets[w])
               b == Len(todo[w])
    <3>4. /\ a + b = Len(DirList)
          /\ \A i \in 1 .. b : todo[w][i] = DirList[a + i]
          /\ \A i \in 1 .. a : Readable(DirList[i]) /\ sets[w][i] = Want(DirList[i])
      BY <1>1, <3>2 DEF ScanPhase
    <3>5. /\ a \in Nat /\ b \in Nat \ {0}
          /\ Len(sets'[w]) = a + 1 /\ Len(todo'[w]) = b - 1
          /\ d = todo[w][1]
          /\ \A i \in 1 .. b - 1 : todo'[w][i] = todo[w][i + 1]
          /\ \A i \in 1 .. a : sets'[w][i] = sets[w][i]
          /\ sets'[w][a + 1] = s
      BY <1>2, <3>1
    <3> HIDE DEF s, d, a, b
    <3>6. Len(sets'[w]) + Len(todo'[w]) = Len(DirList)
      <4>1. a \in Nat /\ b \in Nat \ {0} => (a + 1) + (b - 1) = a + b
        OBVIOUS
      <4>2. Len(sets'[w]) + Len(todo'[w]) = (a + 1) + (b - 1)
        BY <3>5, Zenon
      <4> QED
        BY <3>4, <3>5, <4>1, <4>2, Zenon
    <3>7. \A i \in 1 .. Len(todo'[w]) : todo'[w][i] = DirList[Len(sets'[w]) + i]
      <4> SUFFICES ASSUME NEW i \in 1 .. b - 1
                   PROVE  todo'[w][i] = DirList[(a + 1) + i]
        BY <3>5
      <4>1. i + 1 \in 1 .. b /\ (a + 1) + i = a + (i + 1)
        BY <3>5
      <4> QED
        BY <3>4, <3>5, <4>1
    <3>8. \A i \in 1 .. Len(sets'[w]) : Readable(DirList[i]) /\ sets'[w][i] = Want(DirList[i])
      <4> SUFFICES ASSUME NEW i \in 1 .. a + 1
                   PROVE  Readable(DirList[i]) /\ sets'[w][i] = Want(DirList[i])
        BY <3>5
      <4>1. CASE i = a + 1
        BY <3>3, <3>4, <3>5, <4>1
      <4>2. CASE i # a + 1
        <5>1. i \in 1 .. a
          BY <3>5, <4>2
        <5> QED
          BY <3>4, <3>5, <5>1
      <4> QED
        BY <4>1, <4>2
    <3>9. ScanPhase(w)'
      BY <1>1, <3>6, <3>7, <3>8, SameDisk DEF ScanPhase
    <3> QED
      BY <2>2, <3>1, <3>9 DEF HashPhase, RecordPhase
  <2> QED
    BY <2>1, <2>2
<1> QED
  BY <1>1, <1>4, <1>5, <1>6, RowsFrame DEF IInv

\* ScanLocalDirectory returns.
LEMMA ScanReturnsKeeps == ASSUME IInv, NEW w \in Workers, ScanReturns(w) PROVE IInv'
<1>1. /\ pc[w] = "scan" /\ todo[w] = <<>>
      /\ pc' = [pc EXCEPT ![w] = IF w \in Recorders THEN "record" ELSE "idle"]
      /\ sets' = [sets EXCEPT ![w] = IF w \in Recorders THEN sets[w] ELSE <<>>]
      /\ UNCHANGED <<meta, file, ruleSets, versions, lock, todo, current, listing, hashed,
                     edits, starts, ids, quiet, last, accepted>>
  BY DEF ScanReturns, disk, tables
<1>2. TypeOK'
  BY <1>1 DEF IInv, TypeOK, Running
<1>3. Places'
  BY <1>1 DEF IInv, TypeOK, Places
<1>4. Undisturbed'
  <2> SUFFICES ASSUME NEW x \in Workers, quiet'[x] = "yes"
               PROVE  ScanPhase(x)' /\ HashPhase(x)' /\ RecordPhase(x)'
    BY DEF Undisturbed
  <2>1. CASE x # w
    BY <1>1, <2>1, Frame DEF IInv, TypeOK
  <2>2. CASE x = w
    <3>1. /\ pc'[w] = IF w \in Recorders THEN "record" ELSE "idle"
          /\ w \in Recorders => sets'[w] = sets[w]
      BY <1>1 DEF IInv, TypeOK
    <3>2. ScanPhase(w)
      BY <1>1, <2>2 DEF IInv, Undisturbed
    <3>3. CASE w \in Recorders
      <4> DEFINE c == Len(DirList)
      <4>1. sets[w] \in Seq(ScannedSet) /\ Len(sets[w]) \in Nat
        BY DEF IInv, TypeOK
      <4>2. /\ Len(sets[w]) = c /\ c \in Nat
            /\ \A i \in 1 .. c : Readable(DirList[i]) /\ sets[w][i] = Want(DirList[i])
        BY <1>1, <3>2, <4>1 DEF ScanPhase
      <4>3. Len(sets'[w]) = c /\ 0 + c = c /\ \A i \in 1 .. c : 0 + i = i
        BY <3>1, <3>3, <4>2
      <4>4. \A i \in 1 .. c : sets'[w][i] = Want(DirList[0 + i])
        BY <3>1, <3>3, <4>2, <4>3
      <4>5. Recorded(w)'
        <5> SUFFICES \E k \in Nat :
                       /\ k + Len(sets'[w]) = Len(DirList)
                       /\ \A i \in 1 .. Len(DirList) : Readable(DirList[i])
                       /\ \A i \in 1 .. Len(sets'[w]) : sets'[w][i] = Want(DirList[k + i])
                       /\ \A i \in 1 .. k : VersionRecorded(i, k)' /\ SetRecorded(i, k)'
          BY <1>1, SameDisk DEF Recorded
        <5> WITNESS 0 \in Nat
        <5> QED
          BY <4>2, <4>3, <4>4
      <4> QED
        BY <2>2, <3>1, <3>3, <4>5 DEF ScanPhase, HashPhase, RecordPhase
    <3>4. CASE w \notin Recorders
      BY <2>2, <3>1, <3>4 DEF ScanPhase, HashPhase, RecordPhase
    <3> QED
      BY <3>3, <3>4
  <2> QED
    BY <2>1, <2>2
<1> QED
  BY <1>1, <1>2, <1>3, <1>4, RowsFrame DEF IInv

\* The set's row is written, or found.
LEMMA UpsertSetKeeps == ASSUME IInv, NEW w \in Workers, UpsertSet(w) PROVE IInv'
<1> DEFINE s == Head(sets[w])
<1>1. /\ pc[w] = "record" /\ sets[w] # <<>>
      /\ lock' = [lock EXCEPT ![s.meta.name] = w]
      /\ pc' = [pc EXCEPT ![w] = "tx"]
      /\ UNCHANGED <<meta, file, ruleSets, versions, todo, current, listing, hashed, sets,
                     edits, starts, ids, quiet, last, accepted>>
  BY DEF UpsertSet, VisibleSets, disk, scan
<1>2. TypeOK'
  BY <1>1 DEF IInv, TypeOK, Running
<1>3. Places'
  BY <1>1 DEF IInv, TypeOK, Places
<1>4. Undisturbed'
  <2> SUFFICES ASSUME NEW x \in Workers, quiet'[x] = "yes"
               PROVE  ScanPhase(x)' /\ HashPhase(x)' /\ RecordPhase(x)'
    BY DEF Undisturbed
  <2>1. CASE x # w
    BY <1>1, <2>1, Frame DEF IInv, TypeOK
  <2>2. CASE x = w
    <3>1. pc'[w] = "tx"
      BY <1>1 DEF IInv, TypeOK
    <3>2. RecordPhase(w)
      BY <1>1, <2>2 DEF IInv, Undisturbed
    <3>3. RecordPhase(w)'
      BY <1>1, <3>1, <3>2, SameRecord DEF RecordPhase
    <3> QED
      BY <2>2, <3>1, <3>3 DEF ScanPhase, HashPhase
  <2> QED
    BY <2>1, <2>2
<1> QED
  BY <1>1, <1>2, <1>3, <1>4, RowsFrame DEF IInv

\* ScanAndRecord returns.
LEMMA RecordReturnsKeeps == ASSUME IInv, NEW w \in Workers, RecordReturns(w) PROVE IInv'
<1>1. /\ pc[w] = "record" /\ sets[w] = <<>>
      /\ pc' = [pc EXCEPT ![w] = "idle"]
      /\ UNCHANGED <<meta, file, ruleSets, versions, lock, todo, current, listing, hashed,
                     sets, edits, starts, ids, quiet, last, accepted>>
  BY DEF RecordReturns, disk, scan, tables
<1>2. TypeOK'
  BY <1>1 DEF IInv, TypeOK
<1>3. Places'
  BY <1>1 DEF IInv, TypeOK, Places
<1>4. Undisturbed'
  <2> SUFFICES ASSUME NEW x \in Workers, quiet'[x] = "yes"
               PROVE  ScanPhase(x)' /\ HashPhase(x)' /\ RecordPhase(x)'
    BY DEF Undisturbed
  <2>1. CASE x # w
    BY <1>1, <2>1, Frame DEF IInv, TypeOK
  <2>2. CASE x = w
    <3>1. pc'[w] = "idle"
      BY <1>1 DEF IInv, TypeOK
    <3>2. RecordPhase(w)
      BY <1>1, <2>2 DEF IInv, Undisturbed
    <3>3. RecordPhase(w)'
      BY <1>1, <3>1, <3>2, SameRecord DEF RecordPhase
    <3> QED
      BY <2>2, <3>1, <3>3 DEF ScanPhase, HashPhase
  <2> QED
    BY <2>1, <2>2
<1> QED
  BY <1>1, <1>2, <1>3, <1>4, RowsFrame DEF IInv

\* The control API activates a version.
LEMMA ActivateKeeps ==
  ASSUME IInv, NEW n \in Names, NEW id \in Nat, Activate(n, id) PROVE IInv'
<1>1. /\ \E v \in Versions : versions[<<n, v>>] # None /\ versions[<<n, v>>].id = id
      /\ accepted' = accepted \cup {<<n, id>>}
      /\ UNCHANGED <<meta, file, ruleSets, versions, lock, pc, todo, current, listing,
                     hashed, sets, edits, starts, ids, quiet, last>>
  BY DEF Activate, disk, scan, tables
<1>2. TypeOK'
  BY <1>1 DEF IInv, TypeOK
<1>3. Places'
  BY <1>1 DEF IInv, Places
<1>4. Rows'
  BY <1>1 DEF IInv, Rows
<1>5. Undisturbed'
  BY <1>1, Frame DEF Undisturbed
<1> QED
  BY <1>2, <1>3, <1>4, <1>5 DEF IInv

\* The step that both rows are written in.
LEMMA CommitKeeps == ASSUME IInv, NEW w \in Workers, Commit(w) PROVE IInv'
<1> DEFINE s == Head(sets[w])
           n == s.meta.name
           v == s.meta.version
           k == <<n, v>>
           row == [id |-> RowId(k), path |-> s.path, sum |-> s.sum]
           set == [path |-> s.path, enabled |-> s.meta.enabled]
<1>1. /\ pc[w] = "tx"
      /\ ruleSets' = [ruleSets EXCEPT ![n] = set]
      /\ versions' = [versions EXCEPT ![k] = row]
      /\ ids' = IF RowId(k) > ids THEN RowId(k) ELSE ids
      /\ lock' = [lock EXCEPT ![n] = None]
      /\ last' = [last EXCEPT ![n] = v]
      /\ sets' = [sets EXCEPT ![w] = Tail(sets[w])]
      /\ pc' = [pc EXCEPT ![w] = "record"]
      /\ quiet' = [x \in Workers |-> IF x = w THEN quiet[x] ELSE "no"]
      /\ UNCHANGED <<meta, file, todo, current, listing, hashed, edits, starts, accepted>>
  BY DEF Commit, Key, disk
<1>2. sets[w] # <<>> /\ sets[w] \in Seq(ScannedSet)
  BY <1>1 DEF IInv, TypeOK, Places
<1>3. /\ s \in ScannedSet /\ Tail(sets[w]) \in Seq(ScannedSet)
  BY <1>2
<1>4. n \in Names /\ v \in Versions /\ k \in Names \X Versions /\ set \in SetRow
  BY <1>3 DEF ScannedSet, Metadata, SetRow
<1>5. RowId(k) \in Nat \ {0} /\ (versions[k] # None => RowId(k) = versions[k].id)
  BY <1>4 DEF RowId, IInv, TypeOK, VersionRow
<1>6. row \in VersionRow /\ row # None /\ set # None
  <2>1. row \in VersionRow
    BY <1>3, <1>5 DEF ScannedSet, VersionRow
  <2> QED
    BY <1>4, <2>1, RuleScanAssumption
<1>7. row.path = s.path /\ row.sum = s.sum /\ row.id = RowId(k) /\ set.path = s.path
  OBVIOUS
<1>8. versions[k] # None => row.id = versions[k].id
  BY <1>5, <1>7
<1>9. RowId(k) \in Nat
  BY <1>5
<1> DEFINE rid == RowId(k)
<1>10. ids' = (IF rid > ids THEN rid ELSE ids) /\ rid \in Nat
  BY <1>1, <1>9
<1> HIDE DEF s, n, v, row, set, rid
<1>11. TypeOK'
  <2>1. /\ ruleSets' \in [Names -> SetRow \cup {None}]
        /\ versions' \in [Names \X Versions -> VersionRow \cup {None}]
        /\ lock' \in [Names -> Workers \cup {None}]
        /\ last' \in [Names -> Versions \cup {None}]
    BY <1>1, <1>4, <1>6 DEF IInv, TypeOK
  <2>2. /\ sets' \in [Workers -> Seq(ScannedSet)]
        /\ pc' \in [Workers -> Running \cup {"stopped", "idle"}]
        /\ quiet' \in [Workers -> {"yes", "no"}]
    BY <1>1, <1>3 DEF IInv, TypeOK, Running
  <2>3. ids' \in Nat
    BY <1>10 DEF IInv, TypeOK
  <2> QED
    BY <1>1, <2>1, <2>2, <2>3 DEF IInv, TypeOK
<1>12. Places'
  BY <1>1 DEF IInv, TypeOK, Places
<1>13. Rows'
  <2>1. /\ versions'[k] = row
        /\ \A j \in Names \X Versions : j # k => versions'[j] = versions[j]
        /\ ruleSets'[n] = set /\ last'[n] = v
        /\ \A m \in Names : m # n => ruleSets'[m] = ruleSets[m] /\ last'[m] = last[m]
    BY <1>1, <1>4 DEF IInv, TypeOK
  <2>2. ASSUME NEW m \in Names, ruleSets'[m] # None
        PROVE  last'[m] # None /\ versions'[<<m, last'[m]>>].path = ruleSets'[m].path
    <3>1. CASE m = n
      <4>1. v # None
        BY <1>4, RuleScanAssumption
      <4> QED
        BY <2>1, <3>1, <1>7, <4>1
    <3>2. CASE m # n
      <4>1. last[m] # None /\ versions[<<m, last[m]>>].path = ruleSets[m].path
        BY <2>1, <2>2, <3>2 DEF IInv, Rows
      <4>2. <<m, last[m]>> \in Names \X Versions /\ <<m, last[m]>> # k
        BY <3>2, <4>1 DEF IInv, TypeOK
      <4> QED
        BY <2>1, <3>2, <4>1, <4>2
    <3> QED
      BY <3>1, <3>2
  <2>3. ASSUME NEW a \in accepted
        PROVE  \E u \in Versions :
                 versions'[<<a[1], u>>] # None /\ versions'[<<a[1], u>>].id = a[2]
    <3>1. PICK u \in Versions : versions[<<a[1], u>>] # None /\ versions[<<a[1], u>>].id = a[2]
      BY DEF IInv, Rows
    <3>2. CASE <<a[1], u>> = k
      BY <1>6, <1>8, <2>1, <3>1, <3>2
    <3>3. CASE <<a[1], u>> # k
      <4>1. versions'[<<a[1], u>>] = versions[<<a[1], u>>]
        BY <1>1, <3>3 DEF IInv, TypeOK
      <4> QED
        BY <3>1, <4>1
    <3> QED
      BY <3>2, <3>3
  <2> QED
    BY <1>1, <2>2, <2>3 DEF Rows
<1>14. Undisturbed'
  <2> SUFFICES ASSUME quiet[w] = "yes"
               PROVE  ScanPhase(w)' /\ HashPhase(w)' /\ RecordPhase(w)'
    BY <1>1 DEF Undisturbed
  <2>1. pc'[w] = "record" /\ sets'[w] = Tail(sets[w])
    BY <1>1 DEF IInv, TypeOK
  <2>2. Recorded(w)
    BY <1>1 DEF IInv, Undisturbed, RecordPhase
  <2> DEFINE c == Len(DirList)
             b == Len(sets[w])
  <2>3. c \in Nat /\ b \in Nat \ {0} /\ Len(sets'[w]) = b - 1 /\ s = sets[w][1]
        /\ \A i \in 1 .. b - 1 : sets'[w][i] = sets[w][i + 1]
    BY <1>2, <2>1, DirListType DEF s
  <2>4. PICK a \in Nat :
          /\ a + b = c
          /\ \A i \in 1 .. c : Readable(DirList[i])
          /\ \A i \in 1 .. b : sets[w][i] = Want(DirList[a + i])
          /\ \A i \in 1 .. a : VersionRecorded(i, a) /\ SetRecorded(i, a)
    BY <2>2 DEF Recorded
  <2>5. a + 1 \in 1 .. c /\ (a + 1) + (b - 1) = c
    <3> HIDE DEF b, c
    <3>1. c \in Nat /\ b \in Nat \ {0} /\ a + b = c
      BY <2>3, <2>4
    <3> QED
      BY <3>1
  <2> HIDE DEF b, c
  <2>6. s = Want(DirList[a + 1])
    BY <2>3, <2>4
  <2> DEFINE d == DirList[a + 1]
  <2>7. /\ n = meta[d].name /\ v = meta[d].version /\ d \in Dirs
        /\ row.path = d /\ row.sum = OnDisk(d)
        /\ set = [path |-> d, enabled |-> meta[d].enabled]
    BY <1>7, <2>5, <2>6, DirListType DEF Want, n, v, set, c
  <2> HIDE DEF d
  <2>8. \A i \in 1 .. b - 1 : sets'[w][i] = Want(DirList[(a + 1) + i])
    <3> SUFFICES ASSUME NEW i \in 1 .. b - 1
                 PROVE  sets'[w][i] = Want(DirList[(a + 1) + i])
      OBVIOUS
    <3>1. i + 1 \in 1 .. b /\ (a + 1) + i = a + (i + 1)
      BY <2>3, <2>5
    <3> QED
      BY <2>3, <2>4, <3>1
  <2>9. \A i \in 1 .. a + 1 : VersionRecorded(i, a + 1)' /\ SetRecorded(i, a + 1)'
    <3> SUFFICES ASSUME NEW i \in 1 .. a + 1
                 PROVE  VersionRecorded(i, a + 1)' /\ SetRecorded(i, a + 1)'
      OBVIOUS
    <3> DEFINE m == meta[DirList[i]]
    <3>0. DirList' = DirList /\ meta' = meta /\ OnDisk(DirList[i])' = OnDisk(DirList[i])
      BY <1>1, SameDisk
    <3>1. CASE i = a + 1
      <4>1. /\ versions'[<<m.name, m.version>>] = row
            /\ ruleSets'[m.name] = set /\ DirList[i] = d
        BY <1>1, <1>4, <2>7, <3>1 DEF IInv, TypeOK, d
      <4> QED
        BY <1>6, <2>7, <3>0, <4>1 DEF VersionRecorded, SetRecorded
    <3>2. CASE i # a + 1
      <4>0. i \in 1 .. a /\ a + 1 \in i + 1 .. a + 1
            /\ \A j \in i + 1 .. a : j \in i + 1 .. a + 1
        BY <2>5, <3>2
      <4>1. VersionRecorded(i, a) /\ SetRecorded(i, a)
        BY <2>4, <4>0
      <4>2. VersionRecorded(i, a + 1)'
        <5> SUFFICES ASSUME \A j \in i + 1 .. a + 1 :
                              ~(m.name = meta[DirList[j]].name
                                /\ m.version = meta[DirList[j]].version)
                     PROVE  /\ versions'[<<m.name, m.version>>] # None
                            /\ versions'[<<m.name, m.version>>].path = DirList[i]
                            /\ versions'[<<m.name, m.version>>].sum = OnDisk(DirList[i])
          BY <3>0 DEF VersionRecorded
        <5>1. <<m.name, m.version>> # k
          BY <4>0, <2>7 DEF d
        <5>2. versions'[<<m.name, m.version>>] = versions[<<m.name, m.version>>]
          BY <1>1, <5>1 DEF IInv, TypeOK
        <5> QED
          BY <4>0, <4>1, <5>2 DEF VersionRecorded
      <4>3. SetRecorded(i, a + 1)'
        <5> SUFFICES ASSUME \A j \in i + 1 .. a + 1 : m.name # meta[DirList[j]].name
                     PROVE  ruleSets'[m.name] = [path |-> DirList[i], enabled |-> m.enabled]
          BY <3>0 DEF SetRecorded
        <5>1. m.name # n
          BY <4>0, <2>7 DEF d
        <5>2. ruleSets'[m.name] = ruleSets[m.name]
          BY <1>1, <5>1 DEF IInv, TypeOK
        <5> QED
          BY <4>0, <4>1, <5>2 DEF SetRecorded
      <4> QED
        BY <4>2, <4>3
    <3> QED
      BY <3>1, <3>2
  <2>10. Recorded(w)'
    <3>1. /\ (a + 1) + Len(sets'[w]) = c /\ a + 1 \in Nat
          /\ \A i \in 1 .. Len(sets'[w]) : sets'[w][i] = Want(DirList[(a + 1) + i])
      BY <2>3, <2>5, <2>8
    <3> QED
      BY <1>1, <2>4, <2>9, <3>1, SameDisk DEF Recorded, c
  <2> QED
    BY <2>1, <2>10 DEF ScanPhase, HashPhase, RecordPhase
<1> QED
  BY <1>11, <1>12, <1>13, <1>14 DEF IInv

-----------------------------------------------------------------------------
(***************************************************************************)
(* The theorems.                                                           *)
(***************************************************************************)

\* Every step keeps the inductive invariant.
LEMMA NextKeeps == ASSUME IInv, Next PROVE IInv'
<1>1. CASE \E p \in Paths, c \in Contents \cup {None} : EditFile(p, c)
  <2>1. PICK p \in Paths, c \in Contents \cup {None} : EditFile(p, c)
    BY <1>1
  <2>2. /\ Edited /\ meta' = meta
        /\ file' = [file EXCEPT ![p] = c]
    BY <2>1 DEF EditFile
  <2> QED
    BY <2>2, EditedKeeps DEF IInv, TypeOK
<1>2. CASE \E d \in Dirs, m \in Edits : EditMetadata(d, m)
  <2>1. PICK d \in Dirs, m \in Edits : EditMetadata(d, m)
    BY <1>2
  <2>2. /\ Edited /\ file' = file /\ m \in Metadata \cup {None}
        /\ meta' = [meta EXCEPT ![d] = m]
    BY <2>1, RuleScanAssumption DEF EditMetadata
  <2> QED
    BY <2>2, EditedKeeps DEF IInv, TypeOK
<1>3. ASSUME NEW w \in Workers,
             Start(w) \/ ScanStep(w) \/ RecordStep(w) \/ Timeout(w) \/ Exit(w)
      PROVE  IInv'
  <2>1. CASE Start(w)
    BY <2>1, StartKeeps
  <2>2. CASE ReadMetadata(w)
    BY <2>2, ReadMetadataKeeps
  <2>3. CASE ListFiles(w)
    BY <2>3, ListFilesKeeps
  <2>4. CASE \E p \in Paths : HashFile(w, p)
    BY <2>4, HashFileKeeps
  <2>5. CASE SetScanned(w)
    BY <2>5, SetScannedKeeps
  <2>6. CASE ScanReturns(w)
    BY <2>6, ScanReturnsKeeps
  <2>7. CASE RecordReturns(w)
    BY <2>7, RecordReturnsKeeps
  <2>8. CASE UpsertSet(w)
    BY <2>8, UpsertSetKeeps
  <2>9. CASE Commit(w)
    BY <2>9, CommitKeeps
  <2>10. CASE \/ MetadataError(w) \/ (\E p \in Paths : FileGone(w, p))
              \/ SourceRefused(w) \/ Timeout(w) \/ Exit(w)
    <3>1. Exit(w)
      BY <2>10 DEF MetadataError, FileGone, SourceRefused, Timeout
    <3> QED
      BY <3>1, ExitKeeps
  <2>11. CASE Connected(w)
    BY <2>11, ConnectedKeeps
  <2> QED
    BY <1>3, <2>1, <2>2, <2>3, <2>4, <2>5, <2>6, <2>7, <2>8, <2>9, <2>10, <2>11
       DEF ScanStep, RecordStep
<1>4. CASE \E n \in Names, id \in 1 .. ids : Activate(n, id)
  <2>1. PICK n \in Names, id \in 1 .. ids : Activate(n, id)
    BY <1>4
  <2>2. id \in Nat
    BY DEF IInv, TypeOK
  <2> QED
    BY <2>1, <2>2, ActivateKeeps
<1> QED
  BY <1>1, <1>2, <1>3, <1>4 DEF Next

\* A step in which nothing changes.
LEMMA StutterKeeps == ASSUME IInv, UNCHANGED vars PROVE IInv'
<1>1. UNCHANGED <<meta, file, ruleSets, versions, lock, pc, todo, current, listing, hashed,
                  sets, edits, starts, ids, quiet, last, accepted>>
  BY DEF vars, disk, tables, scan
<1>2. TypeOK' /\ Places'
  BY <1>1 DEF IInv, TypeOK, Places
<1>3. Undisturbed'
  BY <1>1, Frame DEF Undisturbed
<1> QED
  BY <1>1, <1>2, <1>3, RowsFrame DEF IInv

\* The inductive invariant holds in every state of every run of the workers.
THEOREM Invariance == Spec => []IInv
<1>1. IInv /\ [Next]_vars => IInv'
  BY NextKeeps, StutterKeeps
<1> QED
  BY InitHolds, <1>1, PTL DEF Spec, Safety

\* The rows of a set and of its versions agree, and accepted activations keep
\* naming a version of their set, at whatever step RecordManagedRuleSet is
\* killed, for any number of workers.
THEOREM RowsAgreeHolds == Spec => []RowsAgree
<1>1. IInv => RowsAgree
  BY DEF IInv, Rows, RowsAgree
<1> QED
  BY <1>1, Invariance, PTL

\* A scan that ScanAndRecord reports as completed has recorded every
\* directory, for any disk, unless files were edited or another worker
\* recorded meanwhile.
THEOREM ScanCompleteHolds == Spec => []ScanComplete
<1>1. ASSUME IInv PROVE ScanComplete
  <2> SUFFICES ASSUME NEW w \in Recorders, pc[w] = "idle", quiet[w] = "yes"
               PROVE  /\ \A d \in ToSet(DirList) : Readable(d)
                      /\ \A i \in 1 .. Len(DirList) :
                           /\ VersionRecorded(i, Len(DirList))
                           /\ SetRecorded(i, Len(DirList))
    BY SMTT(30) DEF ScanComplete, VersionRecorded, SetRecorded, Later
  <2>1. w \in Workers
    BY RuleScanAssumption
  <2>7. RecordPhase(w)
    BY <1>1, <2>1 DEF IInv, Undisturbed
  <2>2. Recorded(w) /\ sets[w] = <<>>
    BY <1>1, <2>1, <2>7 DEF IInv, RecordPhase, Places
  <2>3. Len(sets[w]) = 0 /\ Len(DirList) \in Nat
    BY <2>2, DirListType
  <2>4. PICK k \in Nat :
          /\ k + Len(sets[w]) = Len(DirList)
          /\ \A i \in 1 .. Len(DirList) : Readable(DirList[i])
          /\ \A i \in 1 .. k : VersionRecorded(i, k) /\ SetRecorded(i, k)
    BY <2>2 DEF Recorded
  <2>5. k = Len(DirList)
    BY <2>3, <2>4
  <2>6. \A d \in ToSet(DirList) : Readable(d)
    <3>1. DirList \in Seq(Dirs) /\ DOMAIN DirList = 1 .. Len(DirList)
      BY DirListType
    <3>2. \A d \in ToSet(DirList) : \E i \in 1 .. Len(DirList) : d = DirList[i]
      BY <3>1, Zenon DEF ToSet
    <3> QED
      BY <2>4, <3>2, Zenon
  <2> QED
    BY <2>4, <2>5, <2>6
<1> QED
  BY <1>1, Invariance, PTL
=============================================================================
