------------------------------- MODULE RuleScan -------------------------------
(***************************************************************************)
(* The worker, services/worker: at its start it scans a directory of rule  *)
(* sets (ScanLocalDirectory), then records what it found, set by set, each *)
(* in a transaction of its own (RecordManagedRuleSet), and exits with      *)
(* os.Exit(1) at the first error.  Several workers may run, a worker may   *)
(* be killed at any step and started again, and rule files may be edited   *)
(* while they are read.  The control API's activation of a version reads   *)
(* the same tables.                                                        *)
(*                                                                         *)
(* A SHA-256 checksum is what was hashed: the files and their contents.    *)
(***************************************************************************)
EXTENDS Integers, Sequences, SequencesExt, FiniteSets

CONSTANTS Workers,
          Recorders,   \* the workers that have BEDEMWAF_DATABASE_URL
          Root,        \* BEDEMWAF_RULES_DIR
          Subdirs,     \* its subdirectories, in the order of sort.Strings
          Tree,        \* where rule files may be, <<directory, name>>, in the
                       \* order of sort.Strings of their paths
          Contents,    \* contents of a rule file
          Names, Versions,
          Layouts,     \* disks considered at first: ruleset.json and rule files
          Edits,       \* what an edit may make of a ruleset.json
          MaxEdits,    \* bound: edits
          MaxStarts,   \* bound: starts of workers, all together
          None

Dirs == {Root} \cup ToSet(Subdirs)

Paths == ToSet(Tree)

\* ruleset.json after trimming and defaulting; text is "blank" when name or
\* version is missing or the file is not JSON.  source is one the CHECK of
\* managed_rule_sets allows, or another.
Metadata ==
  [name : Names, version : Versions, text : {"valid", "blank"},
   source : {"local", "other"}, enabled : {"yes", "no"}]

\* A checksum, the result of scanRuleSet, and rows of managed_rule_sets and
\* managed_rule_versions.
Checksum   == UNION {[ps -> Contents] : ps \in SUBSET Paths}
ScannedSet == [path : Dirs, meta : Metadata, sum : Checksum]
SetRow     == [path : Dirs, enabled : {"yes", "no"}]
VersionRow == [id : Nat \ {0}, path : Dirs, sum : Checksum]

ASSUME RuleScanAssumption ==
  /\ Recorders \subseteq Workers
  /\ Subdirs \in Seq(Dirs) /\ Root \notin ToSet(Subdirs)
  /\ Tree \in Seq(Paths) /\ \A p \in Paths : p[1] \in Dirs
  /\ Layouts \subseteq [meta : [Dirs -> Metadata \cup {None}],
                          file : [Paths -> Contents \cup {None}]]
  /\ Edits \subseteq Metadata \cup {None}
  /\ MaxEdits \in Nat /\ MaxStarts \in Nat
  /\ None \notin Workers /\ None \notin Contents /\ None \notin Versions
  /\ None \notin Metadata /\ None \notin SetRow /\ None \notin VersionRow

VARIABLES
  meta,      \* disk: ruleset.json of each directory, None if it has none
  file,      \* disk: content of each rule file, None if absent
  ruleSets,  \* managed_rule_sets: the row of each name, None if none
  versions,  \* managed_rule_versions: row of each name and version
  lock,      \* the transaction that has written the row of a name
  pc,        \* where each worker is
  todo,      \* ScanLocalDirectory: directories still to be scanned
  current,   \* scanRuleSet: the metadata read
  listing,   \* checksumDirectory: files still to be hashed
  hashed,    \* checksumDirectory: files hashed, with what was read
  sets,      \* what was scanned and not yet recorded
  edits, starts, ids,  \* counters
  quiet,     \* history: since w started, nobody edited or recorded
  last,      \* history: the version of each name recorded last
  accepted   \* history: activations answered with 202

disk == <<meta, file>>
tables == <<ruleSets, versions, lock>>
scan == <<todo, current, listing, hashed, sets>>
vars == <<disk, tables, pc, scan, edits, starts, ids, quiet, last, accepted>>

Running == {"connect", "scan", "list", "hash", "record", "tx"}

TypeOK ==
  /\ meta \in [Dirs -> Metadata \cup {None}]
  /\ file \in [Paths -> Contents \cup {None}]
  /\ ruleSets \in [Names -> SetRow \cup {None}]
  /\ versions \in [Names \X Versions -> VersionRow \cup {None}]
  /\ lock \in [Names -> Workers \cup {None}]
  /\ pc \in [Workers -> Running \cup {"stopped", "idle"}]
  /\ todo \in [Workers -> Seq(Dirs)]
  /\ current \in [Workers -> Metadata \cup {None}]
  /\ listing \in [Workers -> SUBSET Paths]
  /\ hashed \in [Workers -> Checksum]
  /\ sets \in [Workers -> Seq(ScannedSet)]
  /\ edits \in 0 .. MaxEdits /\ starts \in 0 .. MaxStarts /\ ids \in Nat
  /\ quiet \in [Workers -> {"yes", "no"}]
  /\ last \in [Names -> Versions \cup {None}]

EmptySum == [p \in {} |-> None]

Init ==
  /\ \E l \in Layouts : meta = l.meta /\ file = l.file
  /\ ruleSets = [n \in Names |-> None]
  /\ versions = [k \in Names \X Versions |-> None]
  /\ lock = [n \in Names |-> None]
  /\ pc = [w \in Workers |-> "stopped"]
  /\ todo = [w \in Workers |-> <<>>]
  /\ current = [w \in Workers |-> None]
  /\ listing = [w \in Workers |-> {}]
  /\ hashed = [w \in Workers |-> EmptySum]
  /\ sets = [w \in Workers |-> <<>>]
  /\ edits = 0 /\ starts = 0 /\ ids = 0
  /\ quiet = [w \in Workers |-> "no"]
  /\ last = [n \in Names |-> None]
  /\ accepted = {}

-----------------------------------------------------------------------------
\* The disk.

\* A root that is itself a rule set hides its subdirectories.
DirList == IF meta[Root] # None THEN <<Root>> ELSE Subdirs

\* WalkDir: the rule files below d that exist; Root has them all.
FilesBelow(d) == {p \in Paths : file[p] # None /\ (d = Root \/ p[1] = d)}

Edited ==
  /\ edits < MaxEdits
  /\ edits' = edits + 1
  /\ quiet' = [w \in Workers |-> "no"]
  /\ UNCHANGED <<tables, pc, scan, starts, ids, last, accepted>>

EditFile(p, c) ==
  /\ file[p] # c
  /\ file' = [file EXCEPT ![p] = c]
  /\ Edited
  /\ UNCHANGED meta

EditMetadata(d, m) ==
  /\ meta[d] # m
  /\ meta' = [meta EXCEPT ![d] = m]
  /\ Edited
  /\ UNCHANGED file

-----------------------------------------------------------------------------
\* The scan.

\* main() and scanManagedRules.
Start(w) ==
  /\ pc[w] = "stopped"
  /\ starts < MaxStarts
  /\ starts' = starts + 1
  /\ pc' = [pc EXCEPT ![w] = "connect"]
  /\ quiet' = [quiet EXCEPT ![w] = "yes"]
  /\ UNCHANGED <<disk, tables, todo, current, listing, hashed, sets, edits, ids, last,
                 accepted>>

\* scanManagedRules up to the list of directories: a recorder is there once
\* the database has answered a ping; without a database URL there is none.
Connected(w) ==
  /\ pc[w] = "connect"
  /\ pc' = [pc EXCEPT ![w] = "scan"]
  /\ todo' = [todo EXCEPT ![w] = DirList]
  /\ UNCHANGED <<disk, tables, current, listing, hashed, sets, edits, starts, ids, quiet,
                 last, accepted>>

\* The deferred Rollback.
Unlocked(w) == [n \in Names |-> IF lock[n] = w THEN None ELSE lock[n]]

\* Any error, in ScanAndRecord or before it, and a kill: os.Exit(1).  What
\* was committed stays.
Exit(w) ==
  /\ pc[w] # "stopped"
  /\ pc' = [pc EXCEPT ![w] = "stopped"]
  /\ todo' = [todo EXCEPT ![w] = <<>>]
  /\ current' = [current EXCEPT ![w] = None]
  /\ listing' = [listing EXCEPT ![w] = {}]
  /\ hashed' = [hashed EXCEPT ![w] = EmptySum]
  /\ sets' = [sets EXCEPT ![w] = <<>>]
  /\ lock' = Unlocked(w)
  /\ UNCHANGED <<disk, ruleSets, versions, edits, starts, ids, quiet, last, accepted>>

\* readMetadata: name and version are required.
Readable(d) == meta[d] # None /\ meta[d].text = "valid"

ReadMetadata(w) ==
  /\ pc[w] = "scan" /\ todo[w] # <<>>
  /\ Readable(Head(todo[w]))
  /\ current' = [current EXCEPT ![w] = meta[Head(todo[w])]]
  /\ pc' = [pc EXCEPT ![w] = "list"]
  /\ UNCHANGED <<disk, tables, todo, listing, hashed, sets, edits, starts, ids,
                 quiet, last, accepted>>

\* A directory whose metadata is missing or wrong ends the whole scan.
\* Fault: it is skipped.
BugSkipDirectory(w) ==
  /\ pc[w] = "scan" /\ todo[w] # <<>>
  /\ ~Readable(Head(todo[w]))
  /\ todo' = [todo EXCEPT ![w] = Tail(@)]
  /\ UNCHANGED <<disk, tables, pc, current, listing, hashed, sets, edits, starts, ids,
                 quiet, last, accepted>>
MetadataError(w) ==
  /\ pc[w] = "scan" /\ todo[w] # <<>>
  /\ ~Readable(Head(todo[w]))
  /\ Exit(w)

\* hash := sha256.New().
NewHash(w) == EmptySum

\* checksumDirectory: WalkDir.
ListFiles(w) ==
  /\ pc[w] = "list"
  /\ listing' = [listing EXCEPT ![w] = FilesBelow(Head(todo[w]))]
  /\ hashed' = [hashed EXCEPT ![w] = NewHash(w)]
  /\ pc' = [pc EXCEPT ![w] = "hash"]
  /\ UNCHANGED <<disk, tables, todo, current, sets, edits, starts, ids, quiet,
                 last, accepted>>

\* sort.Strings: of the files still to be hashed, p is the next.
IsNext(w, p) ==
  \E i \in 1 .. Len(Tree) :
    /\ p = Tree[i] /\ p \in listing[w]
    /\ \A j \in 1 .. i - 1 : Tree[j] \notin listing[w]

\* checksumDirectory: one file is opened and read.
HashFile(w, p) ==
  /\ pc[w] = "hash" /\ IsNext(w, p)
  /\ file[p] # None
  /\ hashed' = [hashed EXCEPT ![w] =
       [q \in DOMAIN @ \cup {p} |-> IF q = p THEN file[p] ELSE @[q]]]
  /\ listing' = [listing EXCEPT ![w] = @ \ {p}]
  /\ UNCHANGED <<disk, tables, pc, todo, current, sets, edits, starts, ids, quiet,
                 last, accepted>>

\* os.Open fails: the file was removed since the walk.
FileGone(w, p) ==
  /\ pc[w] = "hash" /\ IsNext(w, p)
  /\ file[p] = None
  /\ Exit(w)

\* scanRuleSet returns; ScanLocalDirectory appends.
SetScanned(w) ==
  /\ pc[w] = "hash" /\ listing[w] = {}
  /\ sets' = [sets EXCEPT ![w] = Append(@,
       [path |-> Head(todo[w]), meta |-> current[w], sum |-> hashed[w]])]
  /\ todo' = [todo EXCEPT ![w] = Tail(@)]
  /\ current' = [current EXCEPT ![w] = None]
  /\ pc' = [pc EXCEPT ![w] = "scan"]
  /\ UNCHANGED <<disk, tables, listing, hashed, edits, starts, ids, quiet, last, accepted>>

\* ScanAndRecord: without a recorder the sets are dropped.
ScanReturns(w) ==
  /\ pc[w] = "scan" /\ todo[w] = <<>>
  /\ pc' = [pc EXCEPT ![w] = IF w \in Recorders THEN "record" ELSE "idle"]
  /\ sets' = [sets EXCEPT ![w] = IF w \in Recorders THEN @ ELSE <<>>]
  /\ UNCHANGED <<disk, tables, todo, current, listing, hashed, edits, starts, ids,
                 quiet, last, accepted>>

-----------------------------------------------------------------------------
\* RecordManagedRuleSet.

\* The set row of a transaction in progress is not visible to others.
\* Fault: no transaction, so the first statement commits by itself.
BugAutocommit(s) ==
  [ruleSets EXCEPT ![s.meta.name] = [path |-> s.path, enabled |-> s.meta.enabled]]
VisibleSets(s) == ruleSets

\* BEGIN and the upsert of managed_rule_sets, which waits for another
\* transaction that has written this name, committed or not.
UpsertSet(w) ==
  LET s == Head(sets[w])
  IN /\ pc[w] = "record" /\ sets[w] # <<>>
     /\ s.meta.source = "local"                     \* the CHECK
     /\ lock[s.meta.name] = None
     /\ lock' = [lock EXCEPT ![s.meta.name] = w]
     /\ ruleSets' = VisibleSets(s)
     /\ pc' = [pc EXCEPT ![w] = "tx"]
     /\ UNCHANGED <<disk, versions, scan, edits, starts, ids, quiet, last, accepted>>

\* The CHECK on source fails: the worker exits, at every start again.
SourceRefused(w) ==
  /\ pc[w] = "record" /\ sets[w] # <<>>
  /\ Head(sets[w]).meta.source # "local"
  /\ Exit(w)

Key(s) == <<s.meta.name, s.meta.version>>

\* ON CONFLICT (managed_rule_set_id, version) DO UPDATE keeps the row's id.
RowId(k) == IF versions[k] = None THEN ids + 1 ELSE versions[k].id

\* The upsert of managed_rule_versions and COMMIT.
Commit(w) ==
  LET s == Head(sets[w])
      k == Key(s)
  IN /\ pc[w] = "tx"
     /\ ruleSets' = [ruleSets EXCEPT ![s.meta.name] =
          [path |-> s.path, enabled |-> s.meta.enabled]]
     /\ versions' = [versions EXCEPT ![k] =
          [id |-> RowId(k), path |-> s.path, sum |-> s.sum]]
     /\ ids' = IF RowId(k) > ids THEN RowId(k) ELSE ids
     /\ lock' = [lock EXCEPT ![s.meta.name] = None]
     /\ last' = [last EXCEPT ![s.meta.name] = s.meta.version]
     /\ sets' = [sets EXCEPT ![w] = Tail(@)]
     /\ pc' = [pc EXCEPT ![w] = "record"]
     /\ quiet' = [x \in Workers |-> IF x = w THEN quiet[x] ELSE "no"]
     /\ UNCHANGED <<disk, todo, current, listing, hashed, edits, starts, accepted>>

\* All sets are recorded: managed_rules_scan_completed.
RecordReturns(w) ==
  /\ pc[w] = "record" /\ sets[w] = <<>>
  /\ pc' = [pc EXCEPT ![w] = "idle"]
  /\ UNCHANGED <<disk, tables, scan, edits, starts, ids, quiet, last, accepted>>

\* context.WithTimeout: 15 s for everything that uses the database.  Fault:
\* the calls get the background context.
BugNoDeadline(w) == FALSE
HasDeadline(w) == w \in Recorders /\ pc[w] \in {"connect", "record", "tx"}

Timeout(w) == HasDeadline(w) /\ Exit(w)

\* activateManagedRuleVersion with ActivateManagedRuleVersion: does the
\* version with this id belong to this set?
Activate(n, id) ==
  /\ \E v \in Versions : versions[<<n, v>>] # None /\ versions[<<n, v>>].id = id
  /\ <<n, id>> \notin accepted
  /\ accepted' = accepted \cup {<<n, id>>}
  /\ UNCHANGED <<disk, tables, pc, scan, edits, starts, ids, quiet, last>>

-----------------------------------------------------------------------------
\* Steps that read the disk, and steps that need the database.
ScanStep(w) ==
  \/ w \notin Recorders /\ Connected(w)
  \/ ReadMetadata(w) \/ MetadataError(w) \/ ListFiles(w)
  \/ \E p \in Paths : HashFile(w, p) \/ FileGone(w, p)
  \/ SetScanned(w) \/ ScanReturns(w) \/ RecordReturns(w)

RecordStep(w) ==
  \/ w \in Recorders /\ Connected(w)
  \/ UpsertSet(w) \/ SourceRefused(w) \/ Commit(w)

Next ==
  \/ \E p \in Paths, c \in Contents \cup {None} : EditFile(p, c)
  \/ \E d \in Dirs, m \in Edits : EditMetadata(d, m)
  \/ \E w \in Workers : Start(w) \/ ScanStep(w) \/ RecordStep(w) \/ Timeout(w) \/ Exit(w)
  \/ \E n \in Names, id \in 1 .. ids : Activate(n, id)

Safety == Init /\ [][Next]_vars

\* A worker that runs is scheduled, the disk answers and the deadline
\* passes; nothing is assumed of the database.
Fairness == \A w \in Workers : WF_vars(ScanStep(w)) /\ WF_vars(Timeout(w))

Spec == Safety /\ Fairness

-----------------------------------------------------------------------------
(***************************************************************************)
(* Properties                                                              *)
(***************************************************************************)

\* What the disk says of directory d.
OnDisk(d) == [p \in FilesBelow(d) |-> file[p]]

\* Directories scanned after the i-th that record the same rows.
Later(i, Same(_, _)) ==
  {j \in i + 1 .. Len(DirList) : Same(meta[DirList[i]], meta[DirList[j]])}

\* A worker that reports a completed scan has recorded every directory, at
\* whatever step earlier runs were killed, timed out or refused and whatever
\* they left behind: unless files were edited or another worker recorded
\* meanwhile, no directory was passed over, each version row holds its
\* directory's files and checksum, and each set row describes the last
\* directory of that name.
ScanComplete ==
  \A w \in Recorders : pc[w] = "idle" /\ quiet[w] = "yes" =>
    /\ \A d \in ToSet(DirList) : Readable(d)
    /\ \A i \in 1 .. Len(DirList) :
      LET d == DirList[i]
          m == meta[d]
      IN /\ Later(i, LAMBDA a, b : a.name = b.name /\ a.version = b.version) = {}
            => /\ versions[<<m.name, m.version>>] # None
               /\ versions[<<m.name, m.version>>].path = d
               /\ versions[<<m.name, m.version>>].sum = OnDisk(d)
         /\ Later(i, LAMBDA a, b : a.name = b.name) = {}
            => ruleSets[m.name] = [path |-> d, enabled |-> m.enabled]

\* The row of a set and the row of the version recorded with it are changed
\* together, though a worker can be killed between the two statements and
\* workers overlap: the set's path is the path of the version recorded last.
\* A version id for which an activation was accepted names a version of that
\* rule set ever after, though rescans write the version's row again.
RowsAgree ==
  /\ TypeOK
  /\ \A n \in Names : ruleSets[n] # None =>
       last[n] # None /\ versions[<<n, last[n]>>].path = ruleSets[n].path
  /\ \A a \in accepted : \E v \in Versions :
       versions[<<a[1], v>>] # None /\ versions[<<a[1], v>>].id = a[2]

\* A scan ends, with a record of everything or with the exit of the worker,
\* though the database may never answer or another worker holds a row.
ScanEnds == \A w \in Workers : pc[w] \in Running ~> pc[w] \in {"idle", "stopped"}
=============================================================================
