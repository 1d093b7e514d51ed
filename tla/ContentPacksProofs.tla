------------------------- MODULE ContentPacksProofs -------------------------
(***************************************************************************)
(* Content packs are installed, updated and removed safely for every set   *)
(* of packs, releases and dependencies, any number of threads, and any     *)
(* number of failures, kills and changes from outside.                     *)
(*                                                                         *)
(* The guard lets one operation at a time change the disk, so a step of    *)
(* another thread leaves what an operation relies on as it is; what is     *)
(* left is sequential: each step hands its assertion (OperationFits) to    *)
(* the next.  Between operations, and across a kill at any step, the disk  *)
(* is judged as a recovery would leave it (Restored): an open transaction  *)
(* changes nothing of that until it is closed.  What FilesAreRecorded,     *)
(* DependenciesPresent and RequirementsMet except is excepted here too: an *)
(* operation that undoes an open transaction after it has made its plan    *)
(* (rewound), and a removal that the catalog hid a dependent from (blind). *)
(*                                                                         *)
(* From the same invariant the packs are shown to implement PackStore: of  *)
(* all steps only the one that closes a transaction changes what a         *)
(* recovery would leave installed.                                         *)
(***************************************************************************)
EXTENDS ContentPacks, TLAPS, WellFoundedInduction

(* Releases that exist, or none: what a listing or the records of a disk can name.
   It is smaller than Listing, whose bound is the longest list of releases. *)
Known(l) == l \in [Packs -> Nat] /\ \A p \in Packs : l[p] <= Len(Releases[p])
DiskKnown(x) == x \in Disk /\ Known(x.record) /\ Known(x.pending)

(* The steps of each operation, in the order of install_content_pack (through
   install_fresh or update_installed) and of remove_content_pack. *)
StepsOf ==
    [install |-> {"start"},
     fresh |-> {"fresh", "clear", "promote", "prepare", "begin", "files", "record", "finish",
                "tidy"},
     update |-> {"prepare", "begin", "files", "record", "finish", "tidy", "verify"},
     remove |-> {"start", "prepare", "begin", "files", "record", "finish"}]

(* A job names what there is. An install has no plan (after a fresh install there
   are only records to store), and a removal has the files of the release it was
   planned from. *)
JobFits(j) ==
    /\ Known(j.answer)
    /\ j.release <= Len(Releases[j.pack])
    /\ j.task \in {"install", "fresh", "update"} => j.release # 0
    /\ j.task = "remove" => j.release = 0
    /\ j.task = "remove" /\ j.at # "start" =>
           j.installed \in Numbers(j.pack) /\ j.plan = Listed(j.pack, j.installed)
    /\ j.task \in {"install", "fresh"} => j.plan = {}
    /\ j.task \in DOMAIN StepsOf => j.at \in StepsOf[j.task]

(* The types of what is on the disk; a transaction is about one directory of one pack. *)
StoreFits ==
    /\ DiskKnown(disk)
    /\ own \in [Directories -> {"none", "kept", "claimed"}]
    /\ transaction \in Transaction /\ DiskKnown(transaction.before)
    /\ \E n \in Numbers(transaction.pack) :
           transaction.directory = DirectoryOf(transaction.pack, n)
(* The types of what the launcher remembers. *)
MemoryFits ==
    /\ Known(catalog) /\ guard \in BOOLEAN
    /\ job \in [Threads -> Job] /\ \A t \in Threads : JobFits(job[t])
    /\ screen \in SUBSET Choices
    /\ phase \in {"closed", "open", "launched"}
(* The types of what is left. *)
RestFits ==
    /\ Known(published)
    /\ game \in 1 .. LastGame
    /\ rewound \in BOOLEAN /\ blind \in BOOLEAN
    /\ faults \in 0 .. MaxFaults /\ changes \in 0 .. MaxChanges

(* A scan recovers while nothing else runs: it is started with the launcher, or from
   the one screen that is shown when the last one failed. So its recovery never undoes
   the transaction of an operation under way. *)
ScanIsAlone ==
    /\ phase # "open" => NoMemory
    /\ \A t \in Threads : At(t, {"scan"}, "start") =>
           /\ phase = "open" /\ screen = Busy
           /\ \A u \in Threads \ {t} : job[u] = Idle
    /\ Choice("retry") \in screen =>
           screen = RecoveryFailed /\ \A t \in Threads : job[t] = Idle

(* An install that was begun and has not been recorded. *)
Unfinished(x, p) == x.record[p] = 0 /\ x.pending[p] # 0
(* The user's own files are never where an unfinished install may clear, also when a
   recovery brings an unfinished install back. *)
OwnIsApart ==
    \A p \in Packs : \A x \in {disk, Restored} :
        Unfinished(x, p) => own[DirectoryOf(p, x.pending[p])] # "kept"

(* Something on the disk lets the next attempt go on from here. *)
HasRecord(x, p) == x.record[p] # 0 \/ x.pending[p] # 0
(* FilesAreRecorded, its second part, and the same of the disk an open transaction goes
   back to. *)
FilesHaveRecords ==
    /\ \A p \in Packs : InPlace(p) => HasRecord(disk, p)
    /\ transaction.open => HasRecord(transaction.before, transaction.pack)

(* The files that release n lists are its own, but for what others changed. *)
Agree(x, p, n, files) ==
    \A f \in files \cap Listed(p, n) :
        x.files[DirectoryOf(p, n)][f] \in {Damaged, Target(p, n)[f]}
(* FilesAreRecorded, its first part. *)
RecordsAgree ==
    ~rewound => \A p \in Packs :
        Restored.record[p] # 0 => Agree(Restored, p, Restored.record[p], Files)

(* A removal that has dropped the record has all of the pack in its transaction, unless
   it was planned before a recovery. *)
RemovalFits ==
    ~rewound /\ transaction.open /\ disk.record[transaction.pack] = 0
      /\ transaction.before.record[transaction.pack] # 0 =>
        /\ transaction.plan =
               Listed(transaction.pack, transaction.before.record[transaction.pack])
        /\ transaction.directory = DirectoryOf(transaction.pack,
                                       transaction.before.record[transaction.pack])

(* The operation still has the disk it was planned for: nothing was undone under it,
   and an open transaction is its own. *)
Settled(at) == ~rewound /\ (transaction.open => at \in {"files", "record", "finish"})

(* What each step of a fresh install relies on. Only what a pending record claims is
   cleared, and what is recorded in the end is what was staged and verified. *)
FreshFits(j) == j.task = "fresh" =>
    /\ j.at \in {"fresh", "clear", "promote", "prepare"} => disk.record[j.pack] = 0
    /\ j.at \in {"begin", "files", "record"} /\ Settled(j.at) => disk.record[j.pack] = 0
    /\ j.at \in {"clear", "promote", "prepare"} => disk.pending[j.pack] # 0
    /\ j.at = "clear" /\ j.had =>
           DirectoryOf(j.pack, disk.pending[j.pack]) = DirectoryOf(j.pack, j.release)
    /\ j.at \in {"prepare", "begin", "files", "record", "finish"} /\ Settled(j.at) =>
           Agree(disk, j.pack, j.release, Files)
(* What each step of an update relies on: the files it does not replace are those of the
   release already, and what the release no longer has is in its plan. *)
UpdateFits(j) == j.task = "update" =>
    /\ j.at = "prepare" => disk.record[j.pack] # 0
    /\ j.at \in {"prepare", "begin", "files"} /\ Settled(j.at) =>
           /\ Agree(disk, j.pack, j.release, Files \ j.plan)
           /\ Dropped(j.pack, disk.record[j.pack], j.release) \subseteq j.plan
    /\ j.at \in {"record", "finish"} /\ Settled(j.at) =>
           Agree(disk, j.pack, j.release, Files)
(* What each step of a removal relies on: the record does not change after it was read,
   and no installed pack depends on this one. *)
RemoveFits(j) == j.task = "remove" =>
    /\ j.at = "prepare" => disk.record[j.pack] = j.installed
    /\ j.at \in {"begin", "files", "record"} /\ Settled(j.at) => disk.record[j.pack] = j.installed
    /\ j.at \in {"files", "record", "finish"} =>
           transaction.directory = DirectoryOf(j.pack, j.installed)
    /\ j.at = "record" =>
           \A f \in j.plan : disk.files[DirectoryOf(j.pack, j.installed)][f] = NoFile
    /\ j.at # "start" /\ Settled(j.at) /\ ~blind =>
           \A q \in Packs : disk.record[q] # 0 =>
               j.pack \notin DOMAIN Releases[q][disk.record[q]].depends
(* What each step of an apply relies on: its own transaction is the open one, and the
   requirements that were checked before the download are still met. *)
ApplyFits(j) ==
    /\ j.at \in {"begin", "tidy", "verify"} => ~transaction.open
    /\ j.at \in {"files", "record", "finish"} =>
           transaction.open /\ transaction.pack = j.pack /\ transaction.plan = j.plan
    /\ j.at \in {"begin", "files", "record"} => HasRecord(disk, j.pack)
    /\ j.at \in {"files", "record"} => transaction.before.record[j.pack] = disk.record[j.pack]
    /\ j.at \in {"finish", "tidy", "verify"} => disk.record[j.pack] = j.release
    /\ j.at \in {"record", "finish"} /\ Settled(j.at) /\ transaction.before.record[j.pack] # 0 =>
           \A f \in Dropped(j.pack, transaction.before.record[j.pack], j.release) :
               disk.files[transaction.directory][f] = NoFile
    /\ j.task \in {"fresh", "update"} =>
           /\ j.at \in {"files", "record", "finish"} =>
                  transaction.directory = DirectoryOf(j.pack, j.release)
           /\ Settled(j.at) => Satisfied(j.pack, j.release)
(* The assertion of the one operation under way. *)
OperationFits(j) == FreshFits(j) /\ UpdateFits(j) /\ RemoveFits(j) /\ ApplyFits(j)
OperationsFit == \A t \in Threads : Operating(t) => OperationFits(job[t])

(* The variables and jobs are of their types, and of releases that exist. *)
Types == StoreFits /\ MemoryFits /\ RestFits
(* What holds of the disk at every step, also between operations and after a kill. *)
DiskIsRight ==
    OwnIsApart /\ FilesHaveRecords /\ RecordsAgree /\ RemovalFits /\ DependenciesPresent
(* The inductive invariant. RequirementsMet and OwnFilesKept are steps from it. *)
IInv == Types /\ ScanIsAlone /\ NeverStuck /\ DiskIsRight /\ OperationsFit

(* Last is the number of releases of some pack, and no pack has more. *)
LEMMA LastIs == Last \in Nat \ {0} /\ \A p \in Packs : Len(Releases[p]) \in 1 .. Last
<1> DEFINE most == CHOOSE p \in Packs : \A q \in Packs : Len(Releases[q]) <= Len(Releases[p])
<1>1. most \in Packs /\ \A q \in Packs : Len(Releases[q]) <= Len(Releases[most])
  BY PacksHaveReleases
<1>2. Last = Len(Releases[most])
  BY DEF Last
<1> HIDE DEF most
<1> QED
  BY <1>1, <1>2, PacksHaveReleases

(* What the assumptions on the constants say of one release. *)
LEMMA ReleaseIs ==
  ASSUME NEW p \in Packs, NEW n \in Numbers(p)
  PROVE  /\ n \in 1 .. Last /\ n # 0 /\ n <= Len(Releases[p])
         /\ DirectoryOf(p, n) \in Directories
         /\ Target(p, n) \in [Files -> Contents]
         /\ Definition \in Listed(p, n) /\ Target(p, n)[Definition] = n
         /\ DOMAIN Releases[p][n].depends \subseteq {Game, BuiltIn} \cup (Packs \ {p})
         /\ \A id \in DOMAIN Releases[p][n].depends : 0 \notin Releases[p][n].depends[id]
<1>1. n \in 1 .. Last /\ n <= Len(Releases[p]) /\ n \in 1 .. Len(Releases[p])
  BY LastIs, PacksHaveReleases DEF Numbers
<1>2. DirectoryOf(p, n) \in Directories
  BY DEF Directories, DirectoryOf
<1>3. ValidRelease(p, n) /\ ValidPackManifest(p, n)
  BY ReleasesAreValid
<1>4. /\ Target(p, n) \in [Files -> 0 .. n]
      /\ Definition \in Files /\ Target(p, n)[Definition] = n
  BY <1>3 DEF ValidPackManifest, Target
<1>5. \A x \in 0 .. n : x \in Contents
  BY <1>1, LastIs DEF Contents, Damaged
<1>6. Target(p, n) \in [Files -> Contents]
  BY <1>4, <1>5
<1>7. Definition \in Listed(p, n)
  BY <1>1, <1>4 DEF Listed, NoFile
<1> QED
  BY <1>1, <1>2, <1>3, <1>4, <1>6, <1>7 DEF ValidRelease, NoVersion

(* Every pack has a release. *)
LEMMA FirstIs == \A p \in Packs : 1 \in Numbers(p)
<1> TAKE p \in Packs
<1>1. PICK k \in Nat \ {0} : k = Len(Releases[p])
  BY PacksHaveReleases
<1>2. 1 \in 1 .. k
  OBVIOUS
<1> QED
  BY <1>1, <1>2 DEF Numbers

(* There is a pack. *)
LEMMA AnyPackIs == AnyPack \in Packs
BY PacksHaveReleases DEF AnyPack

(* Two packs never share a directory. *)
LEMMA Apart ==
  ASSUME NEW p \in Packs, NEW q \in Packs, p # q, NEW n \in Numbers(p), NEW m \in Numbers(q)
  PROVE  DirectoryOf(p, n) # DirectoryOf(q, m)
BY DirectoriesAreApart DEF DirectoryOf

(* What is known is a listing. *)
LEMMA KnownIs ==
  ASSUME NEW l, Known(l)
  PROVE  l \in Listing /\ \A p \in Packs : l[p] # 0 => l[p] \in Numbers(p)
<1>1. ASSUME NEW p \in Packs
      PROVE  l[p] \in 0 .. Last /\ (l[p] # 0 => l[p] \in Numbers(p))
  BY <1>1, LastIs, PacksHaveReleases DEF Known, Numbers
<1> QED
  BY <1>1 DEF Known, Listing

(* Setting one pack's entry to a release of it, or to none, keeps a listing known. *)
LEMMA KnownWith ==
  ASSUME NEW l, Known(l), NEW p \in Packs, NEW n, n = 0 \/ n \in Numbers(p)
  PROVE  Known([l EXCEPT ![p] = n])
<1>1. n \in Nat /\ n <= Len(Releases[p])
  BY PacksHaveReleases DEF Numbers
<1> QED
  BY <1>1 DEF Known

(* The empty listing. *)
LEMMA NoCatalogIs == Known(NoCatalog) /\ \A p \in Packs : NoCatalog[p] = 0
BY PacksHaveReleases DEF Known, NoCatalog

(* The empty directory. *)
LEMMA NoFilesIs == NoFiles \in [Files -> Contents] /\ \A f \in Files : NoFiles[f] = 0
BY LastIs DEF NoFiles, NoFile, Contents, Damaged

(* A known disk, by its fields. *)
LEMMA DiskIs ==
  ASSUME NEW x
  PROVE  DiskKnown(x) <=>
            /\ x = [files |-> x.files, record |-> x.record, pending |-> x.pending]
            /\ x.files \in [Directories -> [Files -> Contents]]
            /\ Known(x.record) /\ Known(x.pending)
BY KnownIs DEF DiskKnown, Disk

(* The empty disk. *)
LEMMA NoDiskIs == DiskKnown(NoDisk)
BY NoFilesIs, NoCatalogIs, DiskIs DEF NoDisk

(* The closed transaction. *)
LEMMA ClosedIs ==
  /\ Closed \in Transaction /\ ~Closed.open /\ DiskKnown(Closed.before)
  /\ \E n \in Numbers(Closed.pack) : Closed.directory = DirectoryOf(Closed.pack, n)
<1>1. DirectoryOf(AnyPack, 1) \in Directories /\ 1 \in Numbers(AnyPack)
  BY AnyPackIs, FirstIs, ReleaseIs
<1>2. NoDisk \in Disk /\ DiskKnown(NoDisk)
  BY NoDiskIs DEF DiskKnown
<1> QED
  BY <1>1, <1>2, AnyPackIs DEF Closed, Transaction

(* What a recovery would leave, entry by entry: the plan's files and the two records of
   the transaction's pack are as before, everything else as it is. *)
RestoredFits ==
    /\ DiskKnown(Restored)
    /\ ~transaction.open => Restored = disk
    /\ transaction.open =>
         /\ \A p \in Packs :
               /\ Restored.record[p] = IF p = transaction.pack
                     THEN transaction.before.record[p] ELSE disk.record[p]
               /\ Restored.pending[p] = IF p = transaction.pack
                     THEN transaction.before.pending[p] ELSE disk.pending[p]
         /\ \A d \in Directories, f \in Files :
               Restored.files[d][f] =
                  IF d = transaction.directory /\ f \in transaction.plan
                  THEN transaction.before.files[d][f] ELSE disk.files[d][f]

(* Restored has the entries RestoredFits says. *)
LEMMA RestoredIs == StoreFits => RestoredFits
<1> SUFFICES ASSUME StoreFits PROVE RestoredFits
  OBVIOUS
<1>1. CASE ~transaction.open
  BY <1>1 DEF Restored, StoreFits, RestoredFits
<1>2. CASE transaction.open
  <2> DEFINE p == transaction.pack
             d == transaction.directory
             before == transaction.before
             files == [disk.files EXCEPT ![d] = [f \in Files |->
                            IF f \in transaction.plan THEN before.files[d][f] ELSE @[f]]]
             record == [disk.record EXCEPT ![p] = before.record[p]]
             pending == [disk.pending EXCEPT ![p] = before.pending[p]]
  <2>1. Restored = [files |-> files, record |-> record, pending |-> pending]
    BY <1>2 DEF Restored
  <2>2. p \in Packs /\ d \in Directories
    BY DEF StoreFits, Transaction
  <2>3. /\ disk.files \in [Directories -> [Files -> Contents]]
        /\ before.files \in [Directories -> [Files -> Contents]]
        /\ Known(disk.record) /\ Known(before.record)
        /\ Known(disk.pending) /\ Known(before.pending)
    BY DiskIs DEF StoreFits
  <2>4. Known(record) /\ Known(pending)
    BY <2>2, <2>3, KnownIs, KnownWith
  <2>5. files \in [Directories -> [Files -> Contents]]
    BY <2>2, <2>3
  <2>6. \A e \in Directories, f \in Files :
            files[e][f] = IF e = d /\ f \in transaction.plan
                          THEN before.files[e][f] ELSE disk.files[e][f]
    BY <2>2, <2>3
  <2>7. \A q \in Packs :
            /\ record[q] = IF q = p THEN before.record[q] ELSE disk.record[q]
            /\ pending[q] = IF q = p THEN before.pending[q] ELSE disk.pending[q]
    BY <2>2, <2>3 DEF Known
  <2> HIDE DEF files, record, pending
  <2>8. Restored.files = files /\ Restored.record = record /\ Restored.pending = pending
        /\ Restored = [files |-> Restored.files, record |-> Restored.record,
                       pending |-> Restored.pending]
    BY <2>1
  <2>9. DiskKnown(Restored)
    BY <2>4, <2>5, <2>8, DiskIs
  <2> QED
    BY <1>2, <2>6, <2>7, <2>8, <2>9 DEF RestoredFits
<1> QED
  BY <1>1, <1>2

(* The jobs that the launcher starts. *)
LEMMA JobsAre ==
  /\ Idle \in Job /\ JobFits(Idle) /\ Idle.task = "none" /\ Idle.at = "start"
  /\ \A b \in BOOLEAN : Report(b) \in Job /\ JobFits(Report(b)) /\ Report(b).task = "report"
                        /\ Report(b).at = "start"
  /\ \A task \in Tasks, p \in Packs, n \in 0 .. Last :
        /\ Operation(task, p, n) \in Job
        /\ Operation(task, p, n).task = task /\ Operation(task, p, n).at = "start"
        /\ Operation(task, p, n).pack = p /\ Operation(task, p, n).release = n
        /\ Operation(task, p, n).plan = {} /\ Operation(task, p, n).answer = NoCatalog
<1>1. NoCatalog \in Listing /\ Known(NoCatalog) /\ 0 \in 0 .. Last
  BY NoCatalogIs, KnownIs, LastIs
<1>2. Idle \in Job
  BY <1>1, AnyPackIs DEF Idle, Job, Tasks, Steps
<1>3. /\ Idle.task = "none" /\ Idle.at = "start" /\ Idle.release = 0 /\ Idle.answer = NoCatalog
      /\ Idle.plan = {} /\ Idle.pack = AnyPack
  BY DEF Idle
<1>4. Len(Releases[AnyPack]) \in Nat
  BY AnyPackIs, PacksHaveReleases
<1>5. JobFits(Idle)
  BY <1>1, <1>3, <1>4 DEF JobFits, StepsOf
<1>6. ASSUME NEW b \in BOOLEAN
      PROVE  Report(b) \in Job /\ JobFits(Report(b)) /\ Report(b).task = "report"
             /\ Report(b).at = "start"
  <2>1. /\ Report(b).task = "report" /\ Report(b).at = "start" /\ Report(b).release = 0
        /\ Report(b).answer = NoCatalog /\ Report(b).pack = AnyPack
    BY DEF Report, Idle
  <2>2. Report(b) \in Job
    BY <1>1, AnyPackIs DEF Report, Idle, Job, Tasks, Steps
  <2> QED
    BY <1>1, <1>4, <2>1, <2>2 DEF JobFits, StepsOf
<1>7. ASSUME NEW task \in Tasks, NEW p \in Packs, NEW n \in 0 .. Last
      PROVE  /\ Operation(task, p, n) \in Job
             /\ Operation(task, p, n).task = task /\ Operation(task, p, n).at = "start"
             /\ Operation(task, p, n).pack = p /\ Operation(task, p, n).release = n
             /\ Operation(task, p, n).plan = {} /\ Operation(task, p, n).answer = NoCatalog
  BY <1>1 DEF Operation, Idle, Job, Steps
<1> QED
  BY <1>2, <1>3, <1>5, <1>6, <1>7

(* The next step of a job changes its step and nothing else. *)
LEMMA AdvanceIs ==
  ASSUME MemoryFits, NEW t \in Threads, NEW step \in Steps, Advance(t, step)
  PROVE  /\ job' \in [Threads -> Job]
         /\ \A u \in Threads \ {t} : job'[u] = job[u]
         /\ job'[t].task = job[t].task /\ job'[t].at = step
         /\ job'[t].pack = job[t].pack /\ job'[t].release = job[t].release
         /\ job'[t].installed = job[t].installed
         /\ job'[t].plan = job[t].plan /\ job'[t].had = job[t].had
         /\ job'[t].answer = job[t].answer
BY DEF MemoryFits, Advance, Job

(* Operating, by the steps an operation has. *)
LEMMA OperationsAre ==
  /\ \A t \in Threads : Operating(t) <=> job[t].task \in DOMAIN StepsOf
  /\ \A t \in Threads : Operating(t) => job[t] # Idle
BY JobsAre DEF Operating, StepsOf

(* The one operation goes on or reports, and the screen stays as it is: the guard is
   still held by exactly one operation. *)
LEMMA OperationMoves ==
  ASSUME Types, ScanIsAlone, NeverStuck, NEW t \in Threads, Operating(t),
         job' \in [Threads -> Job], \A u \in Threads \ {t} : job'[u] = job[u],
         JobFits(job[t])', UNCHANGED <<catalog, screen, phase>>,
         \/ Operating(t)' /\ guard' = guard
         \/ job'[t] \in {Report(TRUE), Report(FALSE)} /\ guard' = FALSE
  PROVE  MemoryFits' /\ ScanIsAlone' /\ NeverStuck'
<1>1. /\ guard = TRUE /\ guard \in BOOLEAN
      /\ \A u \in Threads \ {t} : ~Operating(u)
  BY DEF NeverStuck, Types, MemoryFits
<1>2. \A u \in Threads \ {t} : ~Operating(u)'
  BY <1>1 DEF Operating
<1>3. job[t] # Idle /\ job'[t] # Idle /\ ~At(t, {"scan"}, "start")'
  BY JobsAre DEF Operating, At
<1>4. Operating(t)' \/ (~Operating(t)' /\ guard' = FALSE)
  BY JobsAre DEF Operating
<1>5. MemoryFits'
  <2>1. \A u \in Threads \ {t} : JobFits(job[u])'
    BY DEF Types, MemoryFits, JobFits, Known
  <2>2. guard' \in BOOLEAN
    BY <1>1
  <2> QED
    BY <2>1, <2>2 DEF Types, MemoryFits, Known
<1>6. phase = "open" /\ Choice("retry") \notin screen
  BY <1>3 DEF ScanIsAlone, NoMemory
<1>7. \A u \in Threads : ~At(u, {"scan"}, "start")'
  BY <1>3 DEF ScanIsAlone, At
<1>8. ScanIsAlone'
  BY <1>6, <1>7 DEF ScanIsAlone, Choice
<1>9. NeverStuck'
  <2>1. guard' <=> \E u \in Threads : Operating(u)'
    <3>1. CASE Operating(t)' /\ guard' = guard
      BY <1>1, <3>1, Zenon
    <3>2. CASE job'[t] \in {Report(TRUE), Report(FALSE)} /\ guard' = FALSE
      <4>1. ~Operating(t)'
        BY <3>2, JobsAre DEF Operating
      <4> QED
        BY <1>2, <3>2, <4>1, Zenon
    <3> QED
      BY <3>1, <3>2
  <2>2. \A u, v \in Threads : Operating(u)' /\ Operating(v)' => u = v
    BY <1>2
  <2>3. \E u \in Threads : job'[u] # Idle
    BY <1>3
  <2> QED
    BY <2>1, <2>2, <2>3, Zenon DEF NeverStuck
<1> QED
  BY <1>5, <1>8, <1>9

(* The same for the whole invariant, when the step establishes its assertion for the new
   disk. *)
LEMMA OperationKeeps ==
  ASSUME IInv, NEW t \in Threads, Operating(t),
         job' \in [Threads -> Job], \A u \in Threads \ {t} : job'[u] = job[u],
         JobFits(job[t])', UNCHANGED <<catalog, screen, phase>>,
         \/ Operating(t)' /\ guard' = guard /\ OperationFits(job[t])'
         \/ job'[t] \in {Report(TRUE), Report(FALSE)} /\ guard' = FALSE,
         StoreFits', RestFits', DiskIsRight'
  PROVE  IInv'
<1>1. MemoryFits' /\ ScanIsAlone' /\ NeverStuck'
  BY OperationMoves DEF IInv
<1>2. \A u \in Threads \ {t} : ~Operating(u)'
  BY DEF IInv, NeverStuck, Operating
<1>3. Operating(t)' => OperationFits(job[t])'
  BY JobsAre DEF Operating
<1>4. OperationsFit'
  BY <1>2, <1>3 DEF OperationsFit
<1> QED
  BY <1>1, <1>4 DEF IInv, Types

(* An assertion is about the disk, the game and the history alone: while these stay, so
   does it. *)
LEMMA OperationsKept ==
  ASSUME UNCHANGED <<disk, transaction, game, rewound, blind>>
  PROVE  \A j \in Job : OperationFits(j) => OperationFits(j)'
<1> SUFFICES ASSUME NEW j \in Job, OperationFits(j) PROVE OperationFits(j)'
  OBVIOUS
<1>1. FreshFits(j)'
  BY DEF OperationFits, FreshFits, Settled, Agree
<1>2. UpdateFits(j)'
  BY DEF OperationFits, UpdateFits, Settled, Agree
<1>3. RemoveFits(j)'
  BY DEF OperationFits, RemoveFits, Settled
<1>4. ApplyFits(j)'
  BY DEF OperationFits, ApplyFits, Settled, HasRecord, Satisfied
<1> QED
  BY <1>1, <1>2, <1>3, <1>4 DEF OperationFits

(* The same for the disk. *)
LEMMA DiskStaysRight ==
  ASSUME StoreFits, DiskIsRight, UNCHANGED <<store, past>>
  PROVE  StoreFits' /\ DiskIsRight'
<1>1. Restored' = Restored
  BY DEF Restored, store
<1>2. OwnIsApart' /\ FilesHaveRecords' /\ RecordsAgree' /\ RemovalFits' /\ DependenciesPresent'
  BY <1>1 DEF DiskIsRight, OwnIsApart, Unfinished, FilesHaveRecords, InPlace, HasRecord,
              RecordsAgree, Agree, RemovalFits, DependenciesPresent, store, past
<1> QED
  BY <1>2 DEF DiskIsRight, store, StoreFits, DiskKnown, Known

(* RestoredIs of the next state. *)
LEMMA RestoredNext == StoreFits' => RestoredFits'
BY RestoredIs, PTL

(* A step that replaces the files of one directory. *)
LEMMA FilesChanged ==
  ASSUME DiskKnown(disk), NEW d \in Directories, NEW g \in [Files -> Contents],
         disk' = [disk EXCEPT !.files[d] = g]
  PROVE  /\ DiskKnown(disk)'
         /\ disk'.record = disk.record /\ disk'.pending = disk.pending
         /\ disk'.files[d] = g /\ \A e \in Directories \ {d} : disk'.files[e] = disk.files[e]
<1>1. /\ disk = [files |-> disk.files, record |-> disk.record, pending |-> disk.pending]
      /\ disk.files \in [Directories -> [Files -> Contents]]
      /\ Known(disk.record) /\ Known(disk.pending)
  BY DiskIs
<1>2. PICK files : files = [disk.files EXCEPT ![d] = g]
  OBVIOUS
<1>3. /\ files \in [Directories -> [Files -> Contents]] /\ files[d] = g
      /\ \A e \in Directories \ {d} : files[e] = disk.files[e]
  BY <1>1, <1>2
<1>4. disk' = [files |-> files, record |-> disk.record, pending |-> disk.pending]
  BY <1>1, <1>2
<1>5. disk'.files = files /\ disk'.record = disk.record /\ disk'.pending = disk.pending
  BY <1>4
<1>6. DiskKnown(disk')
  BY <1>1, <1>3, <1>4, <1>5, DiskIs
<1> QED
  BY <1>3, <1>5, <1>6 DEF DiskKnown, Known

(* Both records of a pack are stored. *)
WithRecords(x, p, n, m) == [x EXCEPT !.record[p] = n, !.pending[p] = m]
(* What the two records are afterwards. *)
LEMMA RecordsWith ==
  ASSUME NEW x, DiskKnown(x), NEW p \in Packs, NEW n, NEW m,
         n = 0 \/ n \in Numbers(p), m = 0 \/ m \in Numbers(p),
         NEW y, y = WithRecords(x, p, n, m)
  PROVE  /\ DiskKnown(y) /\ y.files = x.files
         /\ y.record[p] = n /\ \A q \in Packs \ {p} : y.record[q] = x.record[q]
         /\ y.pending[p] = m /\ \A q \in Packs \ {p} : y.pending[q] = x.pending[q]
<1>1. /\ x = [files |-> x.files, record |-> x.record, pending |-> x.pending]
      /\ x.files \in [Directories -> [Files -> Contents]]
      /\ Known(x.record) /\ Known(x.pending)
  BY DiskIs
<1>2. PICK rs, ps : rs = [x.record EXCEPT ![p] = n] /\ ps = [x.pending EXCEPT ![p] = m]
  OBVIOUS
<1>3. /\ Known(rs) /\ rs[p] = n
      /\ \A q \in Packs \ {p} : rs[q] = x.record[q]
      /\ Known(ps) /\ ps[p] = m
      /\ \A q \in Packs \ {p} : ps[q] = x.pending[q]
  BY <1>1, <1>2, KnownWith DEF Known
<1>4. y = [files |-> x.files, record |-> rs, pending |-> ps]
  BY <1>1, <1>2 DEF WithRecords
<1>5. y.files = x.files /\ y.record = rs /\ y.pending = ps
  BY <1>4
<1> QED
  BY <1>1, <1>3, <1>4, <1>5, DiskIs

(* A step that stores both records of a pack. *)
LEMMA RecordsChanged ==
  ASSUME DiskKnown(disk), NEW p \in Packs, NEW n, NEW m,
         n = 0 \/ n \in Numbers(p), m = 0 \/ m \in Numbers(p),
         disk' = [disk EXCEPT !.record[p] = n, !.pending[p] = m]
  PROVE  /\ DiskKnown(disk)' /\ disk'.files = disk.files
         /\ disk'.record[p] = n /\ \A q \in Packs \ {p} : disk'.record[q] = disk.record[q]
         /\ disk'.pending[p] = m /\ \A q \in Packs \ {p} : disk'.pending[q] = disk.pending[q]
<1>1. disk' = WithRecords(disk, p, n, m)
  BY DEF WithRecords
<1> QED
  BY <1>1, RecordsWith DEF DiskKnown, Known

(* A step that stores the pending record of a pack. *)
LEMMA PendingChanged ==
  ASSUME DiskKnown(disk), NEW p \in Packs, NEW m, m = 0 \/ m \in Numbers(p),
         disk' = [disk EXCEPT !.pending[p] = m]
  PROVE  /\ DiskKnown(disk)' /\ disk'.files = disk.files /\ disk'.record = disk.record
         /\ disk'.pending[p] = m /\ \A q \in Packs \ {p} : disk'.pending[q] = disk.pending[q]
<1>1. /\ disk = [files |-> disk.files, record |-> disk.record, pending |-> disk.pending]
      /\ disk.files \in [Directories -> [Files -> Contents]]
      /\ Known(disk.record) /\ Known(disk.pending)
  BY DiskIs
<1>2. PICK pending : pending = [disk.pending EXCEPT ![p] = m]
  OBVIOUS
<1>3. /\ Known(pending) /\ pending[p] = m
      /\ \A q \in Packs \ {p} : pending[q] = disk.pending[q]
  BY <1>1, <1>2, KnownWith DEF Known
<1>4. disk' = [files |-> disk.files, record |-> disk.record, pending |-> pending]
  BY <1>1, <1>2
<1>5. disk'.files = disk.files /\ disk'.record = disk.record /\ disk'.pending = pending
  BY <1>4
<1>6. DiskKnown(disk')
  BY <1>1, <1>3, <1>4, <1>5, DiskIs
<1> QED
  BY <1>3, <1>5, <1>6 DEF DiskKnown, Known

(* rollback_transaction: what a recovery would leave is there now, and right. *)
LEMMA RecoveringKeeps ==
  ASSUME StoreFits, DiskIsRight, disk' = Restored, transaction' = Closed, own' = own,
         blind' = blind, rewound => rewound'
  PROVE  /\ StoreFits' /\ DiskIsRight' /\ Restored' = Restored
<1>1. DiskKnown(Restored) /\ RestoredFits
  BY RestoredIs DEF RestoredFits
<1>2. StoreFits'
  <2>1. DiskKnown(disk)'
    BY <1>1 DEF DiskKnown, Known
  <2>2. /\ transaction' \in Transaction /\ DiskKnown(transaction.before)'
        /\ \E n \in Numbers(transaction'.pack) :
              transaction'.directory = DirectoryOf(transaction'.pack, n)
    BY ClosedIs DEF DiskKnown, Known
  <2> QED
    BY <2>1, <2>2 DEF StoreFits, DirectoryOf, Numbers
<1>3. ~transaction'.open
  BY ClosedIs
<1>4. Restored' = Restored
  BY <1>2, <1>3, RestoredNext DEF RestoredFits
<1>5. OwnIsApart' /\ RecordsAgree' /\ RemovalFits' /\ DependenciesPresent'
  BY <1>3, <1>4 DEF DiskIsRight, OwnIsApart, Unfinished, RecordsAgree, Agree, RemovalFits,
                    DependenciesPresent
<1>6. FilesHaveRecords'
  <2> SUFFICES ASSUME NEW p \in Packs, InPlace(p)'
               PROVE  HasRecord(Restored, p)
    BY <1>3 DEF FilesHaveRecords, HasRecord
  <2>1. CASE transaction.open /\ p = transaction.pack
    BY <1>1, <2>1 DEF DiskIsRight, FilesHaveRecords, HasRecord, RestoredFits
  <2>2. CASE transaction.open /\ p # transaction.pack
    <3>1. PICK n \in Numbers(transaction.pack) :
              transaction.directory = DirectoryOf(transaction.pack, n)
      BY DEF StoreFits
    <3>2. transaction.pack \in Packs /\ 1 \in Numbers(p)
      BY FirstIs DEF StoreFits, Transaction
    <3>3. DirectoryOf(p, 1) \in Directories /\ DirectoryOf(p, 1) # transaction.directory
      BY <2>2, <3>1, <3>2, Apart, ReleaseIs
    <3>4. \A f \in Files : Restored.files[DirectoryOf(p, 1)][f]
                              = disk.files[DirectoryOf(p, 1)][f]
      BY <1>1, <2>2, <3>3 DEF RestoredFits
    <3>5. InPlace(p)
      BY <3>4 DEF InPlace, InEvery
    <3> QED
      BY <1>1, <2>2, <3>5 DEF DiskIsRight, FilesHaveRecords, HasRecord, RestoredFits
  <2>3. CASE ~transaction.open
    BY <1>1, <2>3 DEF DiskIsRight, FilesHaveRecords, InPlace, HasRecord, RestoredFits
  <2> QED
    BY <2>1, <2>2, <2>3
<1> QED
  BY <1>2, <1>4, <1>5, <1>6 DEF DiskIsRight

(* The screens offer choices, and only the failed recovery offers to retry. *)
LEMMA ScreensAre ==
  /\ \A s \in {Ready, Checking, PackError, LaunchFailed} :
        s \in SUBSET Choices /\ s # Busy /\ Choice("retry") \notin s
  /\ RecoveryFailed \in SUBSET Choices /\ RecoveryFailed # Busy
  /\ \A p \in Packs :
        Required(p) \in SUBSET Choices /\ Required(p) # Busy /\ Choice("retry") \notin Required(p)
  /\ \A known :
        Manager(known) \in SUBSET Choices /\ Manager(known) # Busy
          /\ Choice("retry") \notin Manager(known)
  /\ \A known, next : ShowReady(known, next) =>
        next \in SUBSET Choices /\ next # Busy /\ Choice("retry") \notin next
<1>1. \A do \in {"play", "content-packs", "back-to-ready", "retry"} : Choice(do) \in Choices
  BY AnyPackIs DEF Choice, Choices
<1>2. \A do \in {"install", "remove"}, p \in Packs :
        [do |-> do, pack |-> p] \in Choices /\ [do |-> do, pack |-> p] # Choice("retry")
  BY DEF Choice, Choices
<1>3. \A do \in {"play", "content-packs", "back-to-ready"} : Choice(do) # Choice("retry")
  BY DEF Choice
<1>4. \A s \in {Ready, Checking, PackError, LaunchFailed} :
        s \in SUBSET Choices /\ s # Busy /\ Choice("retry") \notin s
  BY <1>1, <1>3 DEF Ready, Checking, PackError, LaunchFailed, Busy
<1>5. RecoveryFailed \in SUBSET Choices /\ RecoveryFailed # Busy
  BY <1>1 DEF RecoveryFailed, Busy
<1>6. \A p \in Packs :
        Required(p) \in SUBSET Choices /\ Required(p) # Busy /\ Choice("retry") \notin Required(p)
  BY <1>1, <1>2, <1>3 DEF Required, Busy
<1>7. ASSUME NEW known
      PROVE  Manager(known) \in SUBSET Choices /\ Manager(known) # Busy
               /\ Choice("retry") \notin Manager(known)
  BY <1>1, <1>2, <1>3 DEF Manager, Busy
<1>8. ASSUME NEW known, NEW next, ShowReady(known, next)
      PROVE  next \in SUBSET Choices /\ next # Busy /\ Choice("retry") \notin next
  <2>1. next = Ready \/ \E p \in Packs : next = Required(p)
    BY <1>8 DEF ShowReady, MustUpdate
  <2> QED
    BY <1>4, <1>6, <2>1
<1> QED
  BY <1>4, <1>5, <1>6, <1>7, <1>8

(* A thread that does something has a launcher to do it in. *)
LEMMA ActiveIs ==
  ASSUME ScanIsAlone, NEW t \in Threads, job[t] # Idle
  PROVE  phase = "open" /\ Choice("retry") \notin screen
BY DEF ScanIsAlone, NoMemory

(* Threads that hold no guard go on, and the window shows a screen: none of what the
   guard and the scan rely on changes. *)
LEMMA AsideMoves ==
  ASSUME Types, ScanIsAlone, NeverStuck, phase = "open", phase' = phase,
         job' \in [Threads -> Job],
         \A t \in Threads : \/ job'[t] = job[t]
                            \/ ~Operating(t) /\ ~Operating(t)' /\ JobFits(job[t])',
         guard' = guard, Known(catalog)',
         screen' \in SUBSET Choices, Choice("retry") \notin screen',
         screen' = Busy => \E t \in Threads : job'[t] # Idle,
         \A t \in Threads : ~At(t, {"scan"}, "start")'
  PROVE  MemoryFits' /\ ScanIsAlone' /\ NeverStuck'
<1>1. \A t \in Threads : JobFits(job[t])'
  BY DEF Types, MemoryFits, JobFits, Known
<1>2. \A t \in Threads : Operating(t)' <=> Operating(t)
  BY DEF Operating
<1>3. MemoryFits'
  BY <1>1 DEF Types, MemoryFits
<1>4. ScanIsAlone'
  BY DEF ScanIsAlone
<1>5. NeverStuck'
  BY <1>2, Zenon DEF NeverStuck
<1> QED
  BY <1>3, <1>4, <1>5

(* An operation takes the guard, from a screen that no scan shares. *)
LEMMA OperationStarts ==
  ASSUME Types, ScanIsAlone, NeverStuck, phase = "open", phase' = phase, ~guard,
         NEW t \in Threads, job[t] = Idle, NEW choice \in screen,
         choice.do \in {"install", "remove"},
         job' \in [Threads -> Job], \A u \in Threads \ {t} : job'[u] = job[u],
         JobFits(job[t])', Operating(t)', guard' = TRUE, screen' = Busy, catalog' = catalog
  PROVE  MemoryFits' /\ ScanIsAlone' /\ NeverStuck'
<1>1. Choice("retry") \notin screen /\ screen # Busy
  BY DEF ScanIsAlone, RecoveryFailed, Choice, Busy
<1>2. \A u \in Threads : ~Operating(u)
  BY DEF NeverStuck
<1>3. \A u \in Threads \ {t} : ~Operating(u)'
  BY <1>2 DEF Operating
<1>4. \A u \in Threads : JobFits(job[u])'
  <2>1. ASSUME NEW u \in Threads \ {t}
        PROVE  JobFits(job[u])'
    <3>1. JobFits(job[u]) /\ job'[u] = job[u]
      BY <2>1 DEF Types, MemoryFits
    <3> QED
      BY <3>1 DEF JobFits
  <2> QED
    BY <2>1
<1>5. MemoryFits'
  BY <1>4 DEF Types, MemoryFits, Known, Busy
<1>6. ScanIsAlone'
  <2>1. \A u \in Threads : ~At(u, {"scan"}, "start")'
    BY <1>1 DEF ScanIsAlone, At, Operating
  <2> QED
    BY <2>1 DEF ScanIsAlone, Busy
<1>7. NeverStuck'
  <2>1. job'[t] # Idle
    BY JobsAre DEF Operating
  <2> QED
    BY <1>3, <2>1, Zenon DEF NeverStuck
<1> QED
  BY <1>5, <1>6, <1>7

(* A step that leaves the disk alone, or only starts an operation. *)
LEMMA AsideKeeps ==
  ASSUME IInv, UNCHANGED <<store, game, past>>, MemoryFits', ScanIsAlone', NeverStuck', RestFits',
         \A t \in Threads : Operating(t)' =>
            job'[t] = job[t] \/ (job'[t].task \in {"install", "remove"} /\ job'[t].at = "start")
  PROVE  IInv'
<1>1. StoreFits' /\ DiskIsRight'
  BY DiskStaysRight DEF IInv, Types
<1>2. \A j \in Job : OperationFits(j) => OperationFits(j)'
  BY OperationsKept DEF store, past
<1>3. OperationsFit'
  <2> SUFFICES ASSUME NEW t \in Threads, Operating(t)' PROVE OperationFits(job[t])'
    BY DEF OperationsFit
  <2>1. CASE job'[t] = job[t]
    <3>1. OperationFits(job[t]) /\ job[t] \in Job
      BY <2>1 DEF IInv, Types, MemoryFits, OperationsFit, Operating
    <3>2. PICK j : j = job[t]
      OBVIOUS
    <3>3. OperationFits(j)'
      BY <1>2, <3>1, <3>2
    <3> QED
      BY <2>1, <3>2, <3>3
  <2>2. CASE job'[t].task \in {"install", "remove"} /\ job'[t].at = "start"
    <3>1. FreshFits(job[t])' /\ UpdateFits(job[t])' /\ RemoveFits(job[t])'
      BY <2>2 DEF FreshFits, UpdateFits, RemoveFits
    <3>2. ApplyFits(job[t])'
      BY <2>2 DEF ApplyFits
    <3> QED
      BY <3>1, <3>2 DEF OperationFits
  <2> QED
    BY <2>1, <2>2
<1> QED
  BY <1>1, <1>2, <1>3 DEF IInv, Types

(* The counters of failures and changes stay in their bounds. *)
LEMMA BoundsKept ==
  ASSUME IInv
  PROVE  /\ Fault => faults' \in 0 .. MaxFaults
         /\ Change => changes' \in 0 .. MaxChanges
BY BoundsAreNatural DEF IInv, Types, RestFits, Fault, Change

(* A step of a thread without the guard that leaves the disk alone. *)
LEMMA ThreadKeeps ==
  ASSUME IInv, NEW t \in Threads, phase = "open",
         job' \in [Threads -> Job], \A u \in Threads \ {t} : job'[u] = job[u],
         ~Operating(t), job'[t].task \notin DOMAIN StepsOf, JobFits(job[t])',
         UNCHANGED <<store, game, past, guard, phase>>,
         Known(catalog)', screen' \in SUBSET Choices, Choice("retry") \notin screen',
         screen' # Busy \/ job'[t] # Idle,
         \A u \in Threads : ~At(u, {"scan"}, "start")',
         RestFits'
  PROVE  IInv'
<1>1. ASSUME NEW u \in Threads
      PROVE  \/ job'[u] = job[u]
             \/ ~Operating(u) /\ ~Operating(u)' /\ JobFits(job[u])'
  <2>1. CASE u = t
    <3>1. ~Operating(t)'
      BY DEF Operating, StepsOf
    <3> QED
      BY <2>1, <3>1
  <2> QED
    BY <2>1
<1>2. MemoryFits' /\ ScanIsAlone' /\ NeverStuck'
  BY <1>1, AsideMoves DEF IInv
<1>3. \A u \in Threads : Operating(u)' => job'[u] = job[u]
  BY <1>1
<1> QED
  BY <1>2, <1>3, AsideKeeps

(* No scan is at its recovery while another thread does something. *)
LEMMA NobodyScans ==
  ASSUME ScanIsAlone, NEW t \in Threads, job[t] # Idle, \A u \in Threads \ {t} : job'[u] = job[u],
         ~At(t, {"scan"}, "start")'
  PROVE  \A u \in Threads : ~At(u, {"scan"}, "start")'
BY DEF ScanIsAlone, At

(* The request of the catalog. *)
LEMMA FetchKeeps ==
  ASSUME IInv, NEW t \in Threads, Fetch(t)
  PROVE  IInv'
<1>1. At(t, {"scan"}, "fetch") \/ At(t, {"list"}, "start")
  BY DEF Fetch
<1>2. job \in [Threads -> Job] /\ Known(published) /\ published \in Listing
  BY KnownIs DEF IInv, Types, MemoryFits, RestFits
<1>3. /\ job' \in [Threads -> Job]
      /\ \A u \in Threads \ {t} : job'[u] = job[u]
      /\ job'[t].task = job[t].task /\ job'[t].at = "show"
      /\ job'[t].pack = job[t].pack /\ job'[t].release = job[t].release
      /\ job'[t].answer = published
  BY <1>2 DEF Fetch, Job, Steps
<1>4. ~Operating(t) /\ job[t] # Idle /\ job'[t] # Idle /\ job'[t].task \notin DOMAIN StepsOf
  BY <1>1, <1>3, JobsAre DEF Operating, At, StepsOf
<1>5. JobFits(job[t])'
  <2>1. job'[t].task \in {"scan", "list"} /\ job[t].release <= Len(Releases[job[t].pack])
    BY <1>1, <1>3 DEF At, IInv, Types, MemoryFits, JobFits
  <2> QED
    BY <1>2, <1>3, <2>1 DEF JobFits, StepsOf, Known
<1>6. phase = "open" /\ Choice("retry") \notin screen
  BY <1>4, ActiveIs DEF IInv
<1>7. \A u \in Threads : ~At(u, {"scan"}, "start")'
  BY <1>3, <1>4, NobodyScans DEF IInv, At
<1>8. UNCHANGED <<published, game, store, catalog, guard, screen, phase, past, bounds>>
  BY DEF Fetch
<1>9. Known(catalog)' /\ screen' \in SUBSET Choices
  BY <1>8 DEF IInv, Types, MemoryFits, Known
<1>10. RestFits'
  BY <1>8 DEF IInv, Types, RestFits, Known, past, bounds
<1> QED
  BY <1>3, <1>4, <1>5, <1>6, <1>7, <1>8, <1>9, <1>10, ThreadKeeps

(* A thread without the guard ends and shows a screen. *)
LEMMA IdleAgain ==
  ASSUME IInv, NEW t \in Threads, ~Operating(t), job[t] # Idle, Ends(t),
         UNCHANGED <<store, game, past, guard, phase>>, RestFits', Known(catalog)',
         screen' \in SUBSET Choices, screen' # Busy, Choice("retry") \notin screen'
  PROVE  IInv'
<1>1. /\ job' \in [Threads -> Job] /\ job'[t] = Idle
      /\ \A u \in Threads \ {t} : job'[u] = job[u]
  BY JobsAre DEF Ends, IInv, Types, MemoryFits
<1>2. JobFits(job[t])' /\ ~At(t, {"scan"}, "start")' /\ job'[t].task \notin DOMAIN StepsOf
  BY <1>1, JobsAre DEF JobFits, Known, At, StepsOf
<1>3. phase = "open" /\ \A u \in Threads : ~At(u, {"scan"}, "start")'
  BY <1>1, <1>2, ActiveIs, NobodyScans DEF IInv
<1> QED
  BY <1>1, <1>2, <1>3, ThreadKeeps

(* The request fails. *)
LEMMA FetchFailsKeeps ==
  ASSUME IInv, NEW t \in Threads, FetchFails(t)
  PROVE  IInv'
<1>1. ~Operating(t) /\ job[t] # Idle /\ Ends(t)
  BY JobsAre DEF FetchFails, Operating, At
<1>2. screen' \in SUBSET Choices /\ screen' # Busy /\ Choice("retry") \notin screen'
  BY ScreensAre DEF FetchFails
<1>3. Known(catalog)' /\ UNCHANGED <<store, game, past, guard, phase>>
  BY DEF FetchFails, IInv, Types, MemoryFits, Known
<1>4. RestFits'
  BY BoundsKept DEF FetchFails, IInv, Types, RestFits, Known, past
<1> QED
  BY <1>1, <1>2, <1>3, <1>4, IdleAgain

(* The answer is shown. *)
LEMMA ShowKeeps ==
  ASSUME IInv, NEW t \in Threads, Show(t)
  PROVE  IInv'
<1>1. ~Operating(t) /\ job[t] # Idle /\ Ends(t)
  BY JobsAre DEF Show, Operating
<1>2. screen' \in SUBSET Choices /\ screen' # Busy /\ Choice("retry") \notin screen'
  BY ScreensAre DEF Show
<1>3. Known(catalog)' /\ UNCHANGED <<store, game, past, guard, phase>>
  BY DEF Show, IInv, Types, MemoryFits, JobFits, Known
<1>4. RestFits'
  BY DEF Show, IInv, Types, RestFits, Known, past, bounds
<1> QED
  BY <1>1, <1>2, <1>3, <1>4, IdleAgain

(* The outcome of an operation is shown: the manager again, or an error. *)
LEMMA ShowOutcomeKeeps ==
  ASSUME IInv, NEW t \in Threads, ShowOutcome(t)
  PROVE  IInv'
<1>1. ~Operating(t) /\ job[t] # Idle
  BY JobsAre DEF ShowOutcome, Operating
<1>2. /\ Known(catalog)' /\ UNCHANGED <<store, game, past, guard, phase>>
      /\ RestFits'
  BY DEF ShowOutcome, IInv, Types, MemoryFits, RestFits, Known, past, bounds
<1>3. CASE ~job[t].succeeded
  <2>1. Ends(t) /\ screen' = PackError
    BY <1>3 DEF ShowOutcome
  <2> QED
    BY <1>1, <1>2, <2>1, ScreensAre, IdleAgain
<1>4. CASE job[t].succeeded
  <2>1. screen' = Checking /\ job' = [job EXCEPT ![t] = [Idle EXCEPT !.task = "list"]]
    BY <1>4 DEF ShowOutcome
  <2>2. PICK list : list = [Idle EXCEPT !.task = "list"]
    OBVIOUS
  <2>3. /\ list \in Job /\ list.task = "list" /\ list.at = "start"
        /\ list.release = Idle.release /\ list.pack = Idle.pack /\ list.answer = Idle.answer
    BY <2>2, JobsAre DEF Job, Tasks
  <2>4. JobFits(list)
    BY <2>3, JobsAre DEF JobFits, StepsOf
  <2>5. /\ job' \in [Threads -> Job] /\ job'[t] = list
        /\ \A u \in Threads \ {t} : job'[u] = job[u]
    BY <2>1, <2>2, <2>3 DEF IInv, Types, MemoryFits
  <2>6. JobFits(job[t])' /\ ~At(t, {"scan"}, "start")' /\ job'[t].task \notin DOMAIN StepsOf
    BY <2>3, <2>4, <2>5 DEF JobFits, Known, At, StepsOf
  <2>7. phase = "open" /\ \A u \in Threads : ~At(u, {"scan"}, "start")'
    BY <1>1, <2>5, <2>6, ActiveIs, NobodyScans DEF IInv
  <2> QED
    BY <1>1, <1>2, <2>1, <2>5, <2>6, <2>7, ScreensAre, ThreadKeeps
<1> QED
  BY <1>3, <1>4

(* A thread is started on a scan or a list. *)
LEMMA StartIs ==
  ASSUME Types, NEW t \in Threads, NEW task \in {"scan", "list"}, Start(t, task)
  PROVE  /\ job' \in [Threads -> Job] /\ job[t] = Idle
         /\ \A u \in Threads \ {t} : job'[u] = job[u]
         /\ job'[t].task = task /\ job'[t].at = "start" /\ JobFits(job[t])'
<1>1. PICK next : next = [Idle EXCEPT !.task = task]
  OBVIOUS
<1>2. /\ next \in Job /\ next.task = task /\ next.at = "start"
      /\ next.release = Idle.release /\ next.pack = Idle.pack /\ next.answer = Idle.answer
  BY <1>1, JobsAre DEF Job, Tasks
<1>3. JobFits(next)
  BY <1>2, JobsAre DEF JobFits, StepsOf
<1>4. job' \in [Threads -> Job] /\ job'[t] = next /\ \A u \in Threads \ {t} : job'[u] = job[u]
  BY <1>1, <1>2 DEF Start, Types, MemoryFits
<1> QED
  BY <1>2, <1>3, <1>4 DEF Start, JobFits, Known

(* The manager screen is asked for. *)
LEMMA ManageKeeps ==
  ASSUME IInv, NEW t \in Threads, Manage(t)
  PROVE  IInv'
<1>1. /\ job' \in [Threads -> Job] /\ job[t] = Idle
      /\ \A u \in Threads \ {t} : job'[u] = job[u]
      /\ job'[t].task = "list" /\ job'[t].at = "start" /\ JobFits(job[t])'
  BY StartIs DEF Manage, IInv
<1>2. ~Operating(t) /\ job'[t].task \notin DOMAIN StepsOf
  BY <1>1, JobsAre DEF Operating, StepsOf
<1>3. phase = "open" /\ screen # Busy
  BY DEF Manage, Chosen, Busy
<1>4. \A u \in Threads : ~At(u, {"scan"}, "start")'
  BY <1>1, <1>3 DEF IInv, ScanIsAlone, At
<1>5. /\ UNCHANGED <<store, game, past, guard, phase>> /\ Known(catalog)' /\ RestFits'
      /\ screen' = Checking
  BY DEF Manage, IInv, Types, MemoryFits, RestFits, Known, past, bounds
<1> QED
  BY <1>1, <1>2, <1>3, <1>4, <1>5, ScreensAre, ThreadKeeps

(* Back to the ready screen. *)
LEMMA BackToReadyKeeps ==
  ASSUME IInv, BackToReady
  PROVE  IInv'
<1>1. /\ phase = "open" /\ phase' = phase /\ screen # Busy /\ job' = job /\ guard' = guard
      /\ ShowReady(catalog, screen') /\ UNCHANGED <<store, game, past>>
  BY DEF BackToReady, Chosen, Busy
<1>2. Known(catalog)' /\ RestFits'
  BY DEF BackToReady, IInv, Types, MemoryFits, RestFits, Known, past, bounds
<1>3. screen' \in SUBSET Choices /\ screen' # Busy /\ Choice("retry") \notin screen'
  BY <1>1, ScreensAre
<1>4. \A u \in Threads : ~At(u, {"scan"}, "start")'
  BY <1>1 DEF IInv, ScanIsAlone, At
<1>5. job' \in [Threads -> Job] /\ \A u \in Threads : job'[u] = job[u]
  BY <1>1 DEF IInv, Types, MemoryFits
<1>6. MemoryFits' /\ ScanIsAlone' /\ NeverStuck'
  BY <1>1, <1>2, <1>3, <1>4, <1>5, AsideMoves DEF IInv
<1> QED
  BY <1>1, <1>2, <1>5, <1>6, AsideKeeps

(* The scan again, after a recovery that failed: nothing else runs. *)
LEMMA RetryScanKeeps ==
  ASSUME IInv, NEW t \in Threads, RetryScan(t)
  PROVE  IInv'
<1>1. /\ job' \in [Threads -> Job] /\ job[t] = Idle
      /\ \A u \in Threads \ {t} : job'[u] = job[u]
      /\ job'[t].task = "scan" /\ job'[t].at = "start" /\ JobFits(job[t])'
  BY StartIs DEF RetryScan, IInv
<1>2. phase = "open" /\ phase' = phase /\ guard' = guard /\ \A u \in Threads : job[u] = Idle
  BY DEF RetryScan, Chosen, IInv, ScanIsAlone
<1>3. /\ UNCHANGED <<store, game, past>> /\ Known(catalog)' /\ RestFits' /\ screen' = Busy
  BY DEF RetryScan, IInv, Types, MemoryFits, RestFits, Known, past, bounds
<1>4. \A u \in Threads : ~Operating(u) /\ ~Operating(u)'
  BY <1>1, <1>2, JobsAre DEF Operating
<1>5. \A u \in Threads : JobFits(job[u])'
  BY <1>1, <1>2, JobsAre DEF JobFits, Known
<1>6. MemoryFits'
  BY <1>1, <1>2, <1>3, <1>5 DEF MemoryFits, IInv, Types, Busy
<1>7. ScanIsAlone'
  <2>1. \A u \in Threads \ {t} : job'[u] = Idle
    BY <1>1, <1>2
  <2>2. \A u \in Threads \ {t} : ~At(u, {"scan"}, "start")'
    BY <2>1, JobsAre DEF At
  <2> QED
    BY <1>2, <1>3, <2>1, <2>2 DEF ScanIsAlone, Busy
<1>8. NeverStuck'
  <2>1. job'[t] # Idle
    BY <1>1, JobsAre
  <2> QED
    BY <1>2, <1>4, <2>1 DEF NeverStuck, IInv
<1> QED
  BY <1>3, <1>4, <1>6, <1>7, <1>8, AsideKeeps

(* An install is chosen: it takes the guard, unless the catalog in memory no longer has
   the pack. *)
LEMMA StartInstallKeeps ==
  ASSUME IInv, NEW t \in Threads, NEW p \in Packs, StartInstall(t, p)
  PROVE  IInv'
<1> DEFINE choice == [do |-> "install", pack |-> p]
<1>1. /\ phase = "open" /\ phase' = phase /\ ~guard /\ choice \in screen /\ catalog' = catalog
      /\ UNCHANGED <<store, game, past>> /\ Known(catalog)' /\ RestFits'
  BY DEF StartInstall, Chosen, IInv, Types, MemoryFits, RestFits, Known, past, bounds
<1>2. CASE catalog[p] = 0
  <2>1. screen' = PackError /\ job' = job /\ guard' = guard /\ screen # Busy
    BY <1>1, <1>2 DEF StartInstall, Busy
  <2>2. \A u \in Threads : ~At(u, {"scan"}, "start")'
    BY <2>1 DEF IInv, ScanIsAlone, At
  <2>3. job' \in [Threads -> Job] /\ \A u \in Threads : job'[u] = job[u]
    BY <2>1 DEF IInv, Types, MemoryFits
  <2>4. MemoryFits' /\ ScanIsAlone' /\ NeverStuck'
    BY <1>1, <2>1, <2>2, <2>3, ScreensAre, AsideMoves DEF IInv
  <2> QED
    BY <1>1, <2>3, <2>4, AsideKeeps
<1>3. CASE catalog[p] # 0
  <2>1. /\ job[t] = Idle /\ guard' = TRUE /\ screen' = Busy
        /\ job' = [job EXCEPT ![t] = Operation("install", p, catalog[p])]
    BY <1>3 DEF StartInstall
  <2>2. PICK next : next = Operation("install", p, catalog[p])
    OBVIOUS
  <2>3. catalog[p] \in 0 .. Last /\ Known(catalog)
    BY KnownIs DEF IInv, Types, MemoryFits, Listing
  <2>4. /\ next \in Job /\ next.task = "install" /\ next.at = "start" /\ next.pack = p
        /\ next.release = catalog[p] /\ next.plan = {} /\ next.answer = NoCatalog
    BY <2>2, <2>3, JobsAre DEF Tasks
  <2>5. JobFits(next)
    BY <1>3, <2>3, <2>4, NoCatalogIs DEF JobFits, StepsOf, Known
  <2>6. /\ job' \in [Threads -> Job] /\ job'[t] = next
        /\ \A u \in Threads \ {t} : job'[u] = job[u]
    BY <2>1, <2>2, <2>4 DEF IInv, Types, MemoryFits
  <2>7. JobFits(job[t])' /\ Operating(t)'
    BY <2>4, <2>5, <2>6 DEF JobFits, Known, Operating
  <2>8. MemoryFits' /\ ScanIsAlone' /\ NeverStuck'
    <3>1. choice.do \in {"install", "remove"}
      OBVIOUS
    <3> QED
      BY <1>1, <2>1, <2>6, <2>7, <3>1, OperationStarts DEF IInv
  <2>9. \A u \in Threads : job'[u] = job[u] \/ (job'[u].task = "install" /\ job'[u].at = "start")
    BY <2>4, <2>6
  <2> QED
    BY <1>1, <2>8, <2>9, AsideKeeps
<1> QED
  BY <1>2, <1>3

(* A removal is chosen and takes the guard. *)
LEMMA StartRemoveKeeps ==
  ASSUME IInv, NEW t \in Threads, NEW p \in Packs, StartRemove(t, p)
  PROVE  IInv'
<1> DEFINE choice == [do |-> "remove", pack |-> p]
<1>1. /\ phase = "open" /\ phase' = phase /\ ~guard /\ choice \in screen /\ catalog' = catalog
      /\ UNCHANGED <<store, game, past>> /\ Known(catalog)' /\ RestFits'
  BY DEF StartRemove, Chosen, IInv, Types, MemoryFits, RestFits, Known, past, bounds
<1>2. /\ job[t] = Idle /\ guard' = TRUE /\ screen' = Busy
      /\ job' = [job EXCEPT ![t] = Operation("remove", p, 0)]
  BY DEF StartRemove
<1>3. PICK next : next = Operation("remove", p, 0)
  OBVIOUS
<1>4. /\ next \in Job /\ next.task = "remove" /\ next.at = "start" /\ next.pack = p
      /\ next.release = 0 /\ next.plan = {} /\ next.answer = NoCatalog
  <2>1. 0 \in 0 .. Last
    BY LastIs
  <2> QED
    BY <1>3, <2>1, JobsAre DEF Tasks
<1>5. JobFits(next)
  BY <1>4, NoCatalogIs, PacksHaveReleases DEF JobFits, StepsOf
<1>6. /\ job' \in [Threads -> Job] /\ job'[t] = next
      /\ \A u \in Threads \ {t} : job'[u] = job[u]
  BY <1>2, <1>3, <1>4 DEF IInv, Types, MemoryFits
<1>7. JobFits(job[t])' /\ Operating(t)'
  BY <1>4, <1>5, <1>6 DEF JobFits, Known, Operating
<1>8. MemoryFits' /\ ScanIsAlone' /\ NeverStuck'
  <2>1. choice.do \in {"install", "remove"}
    OBVIOUS
  <2> QED
    BY <1>1, <1>2, <1>6, <1>7, <2>1, OperationStarts DEF IInv
<1>9. \A u \in Threads : job'[u] = job[u] \/ (job'[u].task = "remove" /\ job'[u].at = "start")
  BY <1>4, <1>6
<1> QED
  BY <1>1, <1>8, <1>9, AsideKeeps

(* The launcher is gone: nothing runs and nobody holds the guard. *)
LEMMA ForgottenIs ==
  ASSUME Types, NeverStuck, Forget, phase' \in {"closed", "launched"}
  PROVE  /\ MemoryFits' /\ ScanIsAlone' /\ NeverStuck'
         /\ \A u \in Threads : ~Operating(u)'
<1>1. \A u \in Threads : job'[u] = Idle
  BY DEF Forget
<1>2. \A u \in Threads : ~Operating(u)' /\ ~At(u, {"scan"}, "start")'
  BY <1>1, JobsAre DEF Operating, At
<1>3. MemoryFits'
  <2>1. job' \in [Threads -> Job] /\ \A u \in Threads : JobFits(job[u])'
    BY <1>1, JobsAre DEF Forget, JobFits, Known
  <2>2. Known(catalog)'
    BY NoCatalogIs DEF Forget, Known
  <2> QED
    BY <2>1, <2>2 DEF Forget, MemoryFits, Busy
<1>4. ScanIsAlone'
  BY <1>2 DEF ScanIsAlone, Forget, NoMemory, Busy
<1>5. NeverStuck'
  BY <1>2 DEF NeverStuck, Forget
<1> QED
  BY <1>2, <1>3, <1>4, <1>5

(* The launcher is closed or killed, at any step of an operation. *)
LEMMA ExitKeeps ==
  ASSUME IInv, Exit
  PROVE  IInv'
<1>1. Forget /\ phase' = "closed" /\ UNCHANGED <<store, game, past>>
  BY DEF Exit
<1>2. RestFits'
  BY BoundsKept DEF Exit, IInv, Types, RestFits, Known, past, NoFault
<1>3. MemoryFits' /\ ScanIsAlone' /\ NeverStuck' /\ \A u \in Threads : ~Operating(u)'
  BY <1>1, ForgottenIs DEF IInv
<1> QED
  BY <1>1, <1>2, <1>3, AsideKeeps

(* The channel changes. *)
LEMMA PublishKeeps ==
  ASSUME IInv, NEW p \in Packs, Publish(p)
  PROVE  IInv'
<1>1. UNCHANGED <<store, game, past, memory>>
  BY DEF Publish
<1>2. Known(published)'
  <2>1. Known(published)
    BY DEF IInv, Types, RestFits
  <2>2. CASE published[p] < Len(Releases[p]) /\ published' = [published EXCEPT ![p] = @ + 1]
    <3>1. published[p] + 1 \in Nat /\ published[p] + 1 <= Len(Releases[p])
      BY <2>1, <2>2, PacksHaveReleases DEF Known
    <3>2. PICK n \in Nat : n = published[p] + 1
      BY <3>1
    <3>3. published' = [published EXCEPT ![p] = n]
      BY <2>2, <3>2
    <3> QED
      BY <2>1, <3>1, <3>2, <3>3 DEF Known
  <2>3. CASE published' = [published EXCEPT ![p] = 0]
    BY <2>1, <2>3, PacksHaveReleases DEF Known
  <2> QED
    BY <2>2, <2>3 DEF Publish
<1>3. RestFits'
  BY <1>1, <1>2, BoundsKept DEF Publish, IInv, Types, RestFits, past
<1>4. MemoryFits' /\ ScanIsAlone' /\ NeverStuck'
  BY <1>1 DEF IInv, Types, memory, MemoryFits, JobFits, Known, ScanIsAlone, NoMemory, At,
              NeverStuck, Operating
<1>5. \A u \in Threads : job'[u] = job[u]
  BY <1>1 DEF memory
<1> QED
  BY <1>1, <1>3, <1>4, <1>5, AsideKeeps

(* Without an operation there is no assertion to keep. *)
LEMMA RestKeeps ==
  ASSUME StoreFits', MemoryFits', RestFits', ScanIsAlone', NeverStuck', DiskIsRight',
         \A u \in Threads : ~Operating(u)'
  PROVE  IInv'
BY DEF IInv, Types, OperationsFit

(* The game is updated, which is when no operation holds the guard. *)
LEMMA UpdateGameKeeps ==
  ASSUME IInv, UpdateGame
  PROVE  IInv'
<1>1. UNCHANGED <<store, memory, past>> /\ ~guard /\ guard' = guard
  BY DEF UpdateGame, memory
<1>2. StoreFits' /\ DiskIsRight'
  BY <1>1, DiskStaysRight DEF IInv, Types
<1>3. \A u \in Threads : ~Operating(u)'
  BY <1>1 DEF IInv, NeverStuck, Operating, memory
<1>4. MemoryFits' /\ ScanIsAlone' /\ NeverStuck'
  BY <1>1 DEF IInv, Types, memory, MemoryFits, JobFits, Known, ScanIsAlone, NoMemory, At,
              NeverStuck, Operating
<1>5. game' \in 1 .. LastGame
  BY BoundsAreNatural DEF UpdateGame, IInv, Types, RestFits
<1>6. RestFits'
  BY <1>5, BoundsKept DEF UpdateGame, IInv, Types, RestFits, past, Known
<1> QED
  BY <1>2, <1>3, <1>4, <1>6, RestKeeps

(* recover_interrupted_apply, done or failed, while nobody operates. *)
LEMMA RecoveryKeeps ==
  ASSUME IInv, Recover \/ RecoveryFails, own' = own, past' = past
  PROVE  StoreFits' /\ DiskIsRight' /\ faults' \in 0 .. MaxFaults
<1>1. CASE Recover
  <2>1. rewound => rewound'
    BY DEF past
  <2>2. StoreFits' /\ DiskIsRight'
    BY <1>1, <2>1, RecoveringKeeps DEF IInv, Types, Recover, past
  <2> QED
    BY <1>1, <2>2 DEF IInv, Types, RestFits, Recover, NoFault
<1>2. CASE RecoveryFails
  BY <1>2, DiskStaysRight, BoundsKept DEF RecoveryFails, IInv, Types, store
<1> QED
  BY <1>1, <1>2

(* The launcher starts, with its first recovery and the scan. *)
LEMMA OpenKeeps ==
  ASSUME IInv, Open
  PROVE  IInv'
<1>1. StoreFits' /\ DiskIsRight' /\ faults' \in 0 .. MaxFaults
  BY RecoveryKeeps DEF Open
<1>2. PICK t \in Threads : Start(t, "scan")
  BY DEF Open
<1>3. /\ phase' = "open" /\ screen' = Busy /\ guard' = guard /\ catalog' = catalog
      /\ ~guard /\ catalog = NoCatalog /\ \A u \in Threads : job[u] = Idle
  BY DEF Open, IInv, ScanIsAlone, NoMemory
<1>4. /\ job' \in [Threads -> Job] /\ job[t] = Idle
      /\ \A u \in Threads \ {t} : job'[u] = job[u]
      /\ job'[t].task = "scan" /\ job'[t].at = "start" /\ JobFits(job[t])'
  BY <1>2, StartIs DEF IInv
<1>5. \A u \in Threads : ~Operating(u)'
  BY <1>3, <1>4, JobsAre DEF Operating
<1>6. \A u \in Threads \ {t} : job'[u] = Idle /\ ~At(u, {"scan"}, "start")'
  BY <1>3, <1>4, JobsAre DEF At
<1>7. job'[t] # Idle
  BY <1>4, JobsAre
<1>8. MemoryFits'
  <2>1. \A u \in Threads : JobFits(job[u])'
    BY <1>3, <1>4, JobsAre DEF JobFits, Known
  <2> QED
    BY <1>3, <1>4, <2>1 DEF IInv, Types, MemoryFits, Busy, Known
<1>9. ScanIsAlone'
  BY <1>3, <1>6 DEF ScanIsAlone, Busy
<1>10. NeverStuck'
  BY <1>3, <1>5, <1>7, Zenon DEF NeverStuck
<1>11. RestFits'
  BY <1>1 DEF Open, IInv, Types, RestFits, Known, past
<1> QED
  BY <1>1, <1>5, <1>8, <1>9, <1>10, <1>11, RestKeeps

(* The game is started: the check, the recovery, and the launch. *)
LEMMA PlayKeeps ==
  ASSUME IInv, Play
  PROVE  IInv'
<1>1. phase = "open" /\ screen # Busy /\ ~guard /\ own' = own /\ past' = past
  BY DEF Play, Chosen, Busy
<1>2. \A u \in Threads : ~Operating(u)
  BY <1>1 DEF IInv, NeverStuck
<1>3. faults' \in 0 .. MaxFaults => RestFits'
  BY DEF Play, IInv, Types, RestFits, Known, past
<1>4. CASE /\ screen' \in SUBSET Choices /\ screen' # Busy /\ Choice("retry") \notin screen'
           /\ UNCHANGED <<catalog, guard, job, phase>>
           /\ StoreFits' /\ DiskIsRight' /\ RestFits'
  <2>1. job' \in [Threads -> Job] /\ \A u \in Threads : job'[u] = job[u]
    BY <1>4 DEF IInv, Types, MemoryFits
  <2>2. \A u \in Threads : ~At(u, {"scan"}, "start")'
    BY <1>1, <1>4 DEF IInv, ScanIsAlone, At
  <2>3. Known(catalog)'
    BY <1>4 DEF IInv, Types, MemoryFits, Known
  <2>4. MemoryFits' /\ ScanIsAlone' /\ NeverStuck'
    BY <1>1, <1>4, <2>1, <2>2, <2>3, AsideMoves DEF IInv
  <2>5. \A u \in Threads : ~Operating(u)'
    BY <1>2, <2>1 DEF Operating
  <2> QED
    BY <1>4, <2>4, <2>5, RestKeeps
<1>5. CASE /\ \E p \in MustUpdate(catalog) : screen' = Required(p)
           /\ UNCHANGED <<disk, transaction, catalog, guard, job, phase, faults>>
  <2>1. StoreFits' /\ DiskIsRight'
    BY <1>1, <1>5, DiskStaysRight DEF IInv, Types, store
  <2>2. RestFits'
    BY <1>3, <1>5 DEF IInv, Types, RestFits
  <2>3. screen' \in SUBSET Choices /\ screen' # Busy /\ Choice("retry") \notin screen'
    BY <1>5, ScreensAre DEF MustUpdate
  <2> QED
    BY <1>4, <1>5, <2>1, <2>2, <2>3
<1>6. CASE Recover /\ phase' = "launched" /\ Forget
  <2>1. StoreFits' /\ DiskIsRight' /\ RestFits'
    BY <1>1, <1>3, <1>6, RecoveryKeeps
  <2>2. MemoryFits' /\ ScanIsAlone' /\ NeverStuck' /\ \A u \in Threads : ~Operating(u)'
    BY <1>6, ForgottenIs DEF IInv
  <2> QED
    BY <2>1, <2>2, RestKeeps
<1>7. CASE RecoveryFails /\ screen' = LaunchFailed /\ UNCHANGED <<catalog, guard, job, phase>>
  <2>1. StoreFits' /\ DiskIsRight' /\ RestFits'
    BY <1>1, <1>3, <1>7, RecoveryKeeps
  <2> QED
    BY <1>4, <1>7, <2>1, ScreensAre
<1> QED
  BY <1>5, <1>6, <1>7 DEF Play

(* The recovery of the scan. *)
LEMMA ScanRecoversKeeps ==
  ASSUME IInv, NEW t \in Threads, ScanRecovers(t)
  PROVE  IInv'
<1>1. /\ At(t, {"scan"}, "start") /\ phase = "open" /\ screen = Busy
      /\ \A u \in Threads \ {t} : job[u] = Idle
      /\ own' = own /\ past' = past /\ phase' = phase /\ catalog' = catalog /\ guard' = guard
  BY DEF ScanRecovers, IInv, ScanIsAlone
<1>2. \A u \in Threads : ~Operating(u)
  BY <1>1, JobsAre DEF Operating, At
<1>3. job[t] # Idle /\ ~guard
  BY <1>1, <1>2, JobsAre DEF At, IInv, NeverStuck
<1>4. StoreFits' /\ DiskIsRight' /\ faults' \in 0 .. MaxFaults
  BY <1>1, RecoveryKeeps DEF ScanRecovers
<1>5. RestFits'
  BY <1>4 DEF ScanRecovers, IInv, Types, RestFits, Known, past
<1>6. Known(catalog)'
  BY <1>1 DEF IInv, Types, MemoryFits, Known
<1>7. CASE Advance(t, "fetch") /\ UNCHANGED screen
  <2>1. /\ job' \in [Threads -> Job] /\ \A u \in Threads \ {t} : job'[u] = job[u]
        /\ job'[t].task = "scan" /\ job'[t].at = "fetch" /\ job'[t].release = job[t].release
        /\ job'[t].pack = job[t].pack /\ job'[t].answer = job[t].answer
    BY <1>1, <1>7, AdvanceIs DEF IInv, Types, Steps, At
  <2>2. JobFits(job[t])'
    BY <2>1 DEF IInv, Types, MemoryFits, JobFits, Known, StepsOf
  <2>3. \A u \in Threads : ~Operating(u)'
    BY <1>2, <2>1 DEF Operating
  <2>4. \A u \in Threads : ~At(u, {"scan"}, "start")'
    BY <1>1, <2>1, JobsAre DEF At
  <2>5. job'[t] # Idle
    BY <2>1, JobsAre
  <2>6. \A u \in Threads : \/ job'[u] = job[u]
                           \/ ~Operating(u) /\ ~Operating(u)' /\ JobFits(job[u])'
    BY <1>2, <2>1, <2>2, <2>3
  <2>7. MemoryFits' /\ ScanIsAlone' /\ NeverStuck'
    <3>1. screen' = screen /\ screen' \in SUBSET Choices /\ Choice("retry") \notin screen'
      BY <1>1, <1>7 DEF Busy
    <3> QED
      BY <1>1, <1>6, <2>1, <2>4, <2>5, <2>6, <3>1, AsideMoves DEF IInv
  <2> QED
    BY <1>4, <1>5, <2>3, <2>7, RestKeeps
<1>8. CASE Ends(t) /\ screen' = RecoveryFailed
  <2>1. \A u \in Threads : job'[u] = Idle
    BY <1>1, <1>8 DEF Ends, IInv, Types, MemoryFits
  <2>2. /\ job' \in [Threads -> Job]
        /\ \A u \in Threads : JobFits(job[u])' /\ ~Operating(u)' /\ ~At(u, {"scan"}, "start")'
    <3>1. job' \in [Threads -> Job]
      BY <1>8, JobsAre DEF Ends, IInv, Types, MemoryFits
    <3> QED
      BY <2>1, <3>1, JobsAre DEF JobFits, Known, Operating, At
  <2>3. MemoryFits'
    BY <1>1, <1>6, <1>8, <2>2, ScreensAre DEF IInv, Types, MemoryFits
  <2>4. ScanIsAlone'
    BY <1>1, <1>8, <2>1, <2>2 DEF ScanIsAlone
  <2>5. NeverStuck'
    BY <1>1, <1>3, <1>8, <2>2, ScreensAre DEF NeverStuck
  <2> QED
    BY <1>4, <1>5, <2>2, <2>3, <2>4, <2>5, RestKeeps
<1> QED
  BY <1>7, <1>8 DEF ScanRecovers

(* A step from outside leaves all jobs alone; each assertion has to survive it. *)
LEMMA OthersKeep ==
  ASSUME IInv, UNCHANGED memory, StoreFits', RestFits', DiskIsRight',
         \A j \in Job : JobFits(j) /\ OperationFits(j) => OperationFits(j)'
  PROVE  IInv'
<1>1. MemoryFits' /\ ScanIsAlone' /\ NeverStuck'
  BY DEF IInv, Types, memory, MemoryFits, JobFits, Known, ScanIsAlone, NoMemory, At,
         NeverStuck, Operating
<1>2. OperationsFit'
  <2> SUFFICES ASSUME NEW t \in Threads, Operating(t)' PROVE OperationFits(job[t])'
    BY DEF OperationsFit
  <2>1. PICK j \in Job : j = job[t] /\ JobFits(j)
    BY DEF IInv, Types, MemoryFits
  <2>2. OperationFits(j)'
    BY <2>1 DEF memory, Operating, IInv, OperationsFit
  <2>3. job'[t] = j
    BY <2>1 DEF memory
  <2> QED
    BY <2>2, <2>3
<1> QED
  BY <1>1, <1>2 DEF IInv, Types

(* The user's own file becomes one to keep only where no install is unfinished. *)
LEMMA CustomizeKeeps ==
  ASSUME IInv, NEW d \in Directories, Customize(d)
  PROVE  IInv'
<1>1. UNCHANGED <<game, disk, transaction, memory, past>> /\ Restored' = Restored
  BY DEF Customize, Restored
<1>2. /\ own' \in [Directories -> {"none", "kept", "claimed"}]
      /\ \A e \in Directories \ {d} : own'[e] = own[e]
      /\ \A p \in Packs, x \in {disk, Restored} :
            Unfinished(x, p) /\ DirectoryOf(p, x.pending[p]) = d => own'[d] = "claimed"
  BY DEF Customize, IInv, Types, StoreFits, Unfinished
<1>3. StoreFits'
  BY <1>1, <1>2 DEF IInv, Types, StoreFits, DiskKnown, Known
<1>4. RestFits'
  BY BoundsKept DEF Customize, IInv, Types, RestFits, past, Known
<1>5. OwnIsApart'
  <2> SUFFICES ASSUME NEW p \in Packs, NEW x \in {disk, Restored}, Unfinished(x, p)
               PROVE  own'[DirectoryOf(p, x.pending[p])] # "kept"
    BY <1>1 DEF OwnIsApart, Unfinished
  <2>1. DiskKnown(x)
    BY RestoredIs DEF IInv, Types, StoreFits, RestoredFits
  <2>2. DirectoryOf(p, x.pending[p]) \in Directories
    BY <2>1, KnownIs, ReleaseIs DEF DiskKnown, Unfinished
  <2> QED
    BY <1>2, <2>2 DEF IInv, DiskIsRight, OwnIsApart
<1>6. FilesHaveRecords' /\ RecordsAgree' /\ RemovalFits' /\ DependenciesPresent'
  BY <1>1 DEF IInv, DiskIsRight, FilesHaveRecords, InPlace, HasRecord, RecordsAgree,
              Agree, RemovalFits, DependenciesPresent, past
<1>7. \A j \in Job : OperationFits(j) => OperationFits(j)'
  BY <1>1, OperationsKept DEF past
<1> QED
  BY <1>1, <1>3, <1>4, <1>5, <1>6, <1>7, OthersKeep DEF DiskIsRight

(* A file is changed by others: it counts as any release's file, and a removal that has
   removed the files has none left to change. *)
LEMMA DamageKeeps ==
  ASSUME IInv, NEW d \in Directories, NEW f \in Files, Damage(d, f)
  PROVE  IInv'
<1>1. /\ UNCHANGED <<game, own, transaction, memory, past>>
      /\ disk.files[d][f] # 0 /\ disk' = [disk EXCEPT !.files[d][f] = Damaged]
  BY DEF Damage, NoFile
<1>2. disk.files \in [Directories -> [Files -> Contents]] /\ DiskKnown(disk)
  BY DiskIs DEF IInv, Types, StoreFits
<1>3. PICK g : g = [disk.files[d] EXCEPT ![f] = Damaged]
  OBVIOUS
<1>4. /\ g \in [Files -> Contents]
      /\ g[f] = Damaged /\ \A h \in Files \ {f} : g[h] = disk.files[d][h]
  <2>1. Damaged \in Contents
    BY LastIs DEF Damaged, Contents
  <2> QED
    BY <1>2, <1>3, <2>1
<1>5. disk' = [disk EXCEPT !.files[d] = g]
  BY <1>1, <1>3
<1>6. /\ DiskKnown(disk)'
      /\ disk'.record = disk.record /\ disk'.pending = disk.pending
      /\ disk'.files[d] = g /\ \A e \in Directories \ {d} : disk'.files[e] = disk.files[e]
  BY <1>2, <1>4, <1>5, FilesChanged
<1>7. \A e \in Directories, h \in Files :
          /\ disk'.files[e][h] \in {Damaged, disk.files[e][h]}
          /\ disk.files[e][h] = NoFile => disk'.files[e][h] = NoFile
  BY <1>1, <1>4, <1>6 DEF NoFile
<1>8. StoreFits'
  BY <1>1, <1>6 DEF IInv, Types, StoreFits, DiskKnown, Known
<1>9. RestFits'
  BY BoundsKept DEF Damage, IInv, Types, RestFits, past, Known
<1>10. RestoredFits /\ RestoredFits'
  BY <1>8, RestoredIs, RestoredNext DEF IInv, Types
<1>11. /\ \A p \in Packs : /\ Restored'.record[p] = Restored.record[p]
                           /\ Restored'.pending[p] = Restored.pending[p]
       /\ \A e \in Directories, h \in Files :
             Restored'.files[e][h] \in {Damaged, Restored.files[e][h]}
  <2>1. CASE ~transaction.open
    <3>1. Restored' = disk' /\ Restored = disk
      BY <1>1, <1>10, <2>1 DEF RestoredFits
    <3> QED
      BY <1>6, <1>7, <3>1
  <2>2. CASE transaction.open
    <3>1. transaction' = transaction
      BY <1>1
    <3>2. \A p \in Packs : /\ Restored'.record[p] = Restored.record[p]
                           /\ Restored'.pending[p] = Restored.pending[p]
      BY <1>6, <1>10, <2>2, <3>1 DEF RestoredFits
    <3>3. \A e \in Directories, h \in Files :
             Restored'.files[e][h] \in {Damaged, Restored.files[e][h]}
      BY <1>7, <1>10, <2>2, <3>1 DEF RestoredFits
    <3> QED
      BY <3>2, <3>3
  <2> QED
    BY <2>1, <2>2
<1>12. OwnIsApart'
  <2> SUFFICES ASSUME NEW p \in Packs
               PROVE  /\ Unfinished(disk, p)' => own[DirectoryOf(p, disk'.pending[p])] # "kept"
                      /\ Unfinished(Restored, p)'
                           => own[DirectoryOf(p, Restored'.pending[p])] # "kept"
    BY <1>1 DEF OwnIsApart, Unfinished
  <2> QED
    BY <1>6, <1>11 DEF IInv, DiskIsRight, OwnIsApart, Unfinished
<1>13. FilesHaveRecords'
  <2>1. ASSUME NEW p \in Packs, InPlace(p)'
        PROVE  InPlace(p)
    <3>1. DirectoryOf(p, 1) \in Directories
      BY FirstIs, ReleaseIs
    <3> QED
      BY <1>7, <2>1, <3>1 DEF InPlace, InEvery
  <2> QED
    BY <1>1, <1>6, <2>1 DEF IInv, DiskIsRight, FilesHaveRecords, HasRecord
<1>14. RecordsAgree'
  <2> SUFFICES ASSUME ~rewound, NEW p \in Packs, Restored.record[p] # 0,
                      NEW h \in Files \cap Listed(p, Restored.record[p])
               PROVE  Restored'.files[DirectoryOf(p, Restored.record[p])][h]
                          \in {Damaged, Target(p, Restored.record[p])[h]}
    BY <1>1, <1>11 DEF RecordsAgree, Agree, past
  <2>1. DirectoryOf(p, Restored.record[p]) \in Directories
    BY <1>10, KnownIs, ReleaseIs DEF RestoredFits, DiskKnown
  <2>2. Restored.files[DirectoryOf(p, Restored.record[p])][h]
            \in {Damaged, Target(p, Restored.record[p])[h]}
    BY DEF IInv, DiskIsRight, RecordsAgree, Agree
  <2> QED
    BY <1>11, <2>1, <2>2
<1>15. RemovalFits'
  BY <1>1, <1>6 DEF IInv, DiskIsRight, RemovalFits, past
<1>16. DependenciesPresent'
  <2> SUFFICES ASSUME ~rewound, ~blind, NEW p \in Packs, Restored.record[p] # 0,
                      NEW q \in Packs \cap DOMAIN Releases[p][Restored.record[p]].depends
               PROVE  Restored.record[q] # 0
    BY <1>1, <1>11 DEF DependenciesPresent, past
  <2> QED
    BY DEF IInv, DiskIsRight, DependenciesPresent
<1>17. ASSUME NEW j \in Job, JobFits(j), OperationFits(j)
       PROVE  OperationFits(j)'
  <2>1. /\ j.pack \in Packs /\ j.release \in 0 .. Last /\ j.release <= Len(Releases[j.pack])
        /\ j.task \in {"fresh", "update"} => j.release # 0
    BY <1>17 DEF Job, JobFits
  <2>2. ASSUME NEW S \in SUBSET Files, j.task \in {"fresh", "update"},
               Agree(disk, j.pack, j.release, S)
        PROVE  Agree(disk, j.pack, j.release, S)'
    <3>1. j.release \in Numbers(j.pack)
      BY <1>17, <2>1, <2>2, PacksHaveReleases, LastIs DEF Numbers
    <3>2. DirectoryOf(j.pack, j.release) \in Directories
      BY <2>1, <3>1, ReleaseIs
    <3> QED
      BY <1>7, <2>2, <3>2 DEF Agree
  <2>3. Settled(j.at)' = Settled(j.at)
    BY <1>1 DEF Settled, past
  <2>4. FreshFits(j)'
    BY <1>1, <1>6, <1>17, <2>2, <2>3 DEF OperationFits, FreshFits
  <2>5. UpdateFits(j)'
    BY <1>1, <1>6, <1>17, <2>2, <2>3 DEF OperationFits, UpdateFits
  <2>6. RemoveFits(j)'
    <3>1. ASSUME j.at = "record", j.task = "remove", NEW h \in j.plan
          PROVE  disk'.files[DirectoryOf(j.pack, j.installed)][h] = NoFile
      <4>1. disk.files[DirectoryOf(j.pack, j.installed)][h] = NoFile /\ h \in Files
        BY <1>17, <3>1 DEF OperationFits, RemoveFits, JobFits, Listed
      <4>2. DirectoryOf(j.pack, j.installed) \in Directories
        BY <1>17, <2>1, <3>1, ReleaseIs DEF JobFits
      <4> QED
        BY <1>7, <4>1, <4>2
    <3> QED
      BY <1>1, <1>6, <1>17, <2>3, <3>1 DEF OperationFits, RemoveFits, past
  <2>7. ApplyFits(j)'
    <3>1. ASSUME NEW h \in Files, disk.files[transaction.directory][h] = NoFile
          PROVE  disk'.files[transaction.directory][h] = NoFile
      BY <1>7, <3>1 DEF IInv, Types, StoreFits, Transaction
    <3>2. ASSUME NEW h \in Dropped(j.pack, transaction.before.record[j.pack], j.release)
          PROVE  h \in Files
      BY <3>2 DEF Dropped, Listed
    <3> QED
      BY <1>1, <1>6, <1>17, <2>3, <3>1, <3>2 DEF OperationFits, ApplyFits, HasRecord, Satisfied
  <2> QED
    BY <2>4, <2>5, <2>6, <2>7 DEF OperationFits
<1> QED
  BY <1>1, <1>8, <1>9, <1>12, <1>13, <1>14, <1>15, <1>16, <1>17, OthersKeep DEF DiskIsRight

(* The versions that were read from pack.xml are those of the records, where these agree
   with the files: so what the manager offers is what RequirementsMet asks for. *)
LEMMA CompatibleIs ==
  ASSUME StoreFits, RecordsAgree, ~rewound, ~transaction.open,
         NEW p \in Packs, NEW n \in Numbers(p), Compatible(p, n)
  PROVE  Satisfied(p, n)
<1> SUFFICES ASSUME NEW id \in DOMAIN Releases[p][n].depends
             PROVE  (IF id \in Packs THEN disk.record[id] ELSE game) \in Releases[p][n].depends[id]
  BY DEF Satisfied
<1>1. InstalledVersion(id) \in Releases[p][n].depends[id] /\ InstalledVersion(id) # 0
  BY ReleaseIs DEF Compatible, Supports
<1>2. CASE id \in Packs
  <2>1. id \notin {Game, BuiltIn}
    BY <1>2, IdsAreApart
  <2>2. disk.record[id] # 0
    BY <1>1, <2>1 DEF InstalledVersion, IsInstalled, NoVersion
  <2> DEFINE version == disk.files[DirectoryOf(id, disk.record[id])][Definition]
  <2>3. InstalledVersion(id) = version /\ version # Damaged
    BY <1>1, <2>1, <2>2 DEF InstalledVersion, IsInstalled, NoVersion
  <2>4. Restored = disk /\ disk.record[id] \in Numbers(id)
    BY <1>2, <2>2, RestoredIs, KnownIs DEF RestoredFits, StoreFits, DiskKnown
  <2>5. /\ Definition \in Files \cap Listed(id, disk.record[id])
        /\ Target(id, disk.record[id])[Definition] = disk.record[id]
    BY <1>2, <2>4, ReleaseIs DEF Listed
  <2>6. version = disk.record[id]
    BY <1>2, <2>2, <2>3, <2>4, <2>5 DEF RecordsAgree, Agree
  <2> QED
    BY <1>1, <1>2, <2>3, <2>6
<1>3. CASE id \notin Packs
  <2>1. id \in {Game, BuiltIn}
    BY <1>3, ReleaseIs
  <2>2. InstalledVersion(id) = game
    BY <2>1 DEF InstalledVersion
  <2> QED
    BY <1>1, <1>3, <2>2
<1> QED
  BY <1>2, <1>3

(* The operation of a thread goes on with job j. *)
LEMMA StepKeeps ==
  ASSUME IInv, NEW t \in Threads, Operating(t), NEW j \in Job, job' = [job EXCEPT ![t] = j],
         JobFits(j), j.task \in DOMAIN StepsOf, OperationFits(j)',
         UNCHANGED <<catalog, screen, phase, guard>>, StoreFits', RestFits', DiskIsRight'
  PROVE  IInv'
<1>1. /\ job' \in [Threads -> Job] /\ job'[t] = j
      /\ \A u \in Threads \ {t} : job'[u] = job[u]
  BY DEF IInv, Types, MemoryFits
<1>2. JobFits(job[t])' /\ Operating(t)'
  BY <1>1 DEF JobFits, Known, Operating, StepsOf
<1>3. OperationFits(job[t])'
  BY <1>1
<1> QED
  BY <1>1, <1>2, <1>3, OperationKeeps

(* The operation of a thread ends and reports. *)
LEMMA ReportKeeps ==
  ASSUME IInv, NEW t \in Threads, Operating(t), NEW b \in BOOLEAN, End(t, b),
         UNCHANGED <<catalog, screen, phase>>, StoreFits', RestFits', DiskIsRight'
  PROVE  IInv'
<1>1. /\ job' \in [Threads -> Job] /\ job'[t] = Report(b) /\ guard' = FALSE
      /\ \A u \in Threads \ {t} : job'[u] = job[u]
  BY JobsAre DEF IInv, Types, MemoryFits, End
<1>2. PICK j : j = Report(b)
  OBVIOUS
<1>3. JobFits(j)
  BY <1>2, JobsAre
<1>4. JobFits(job[t])'
  BY <1>1, <1>2, <1>3 DEF JobFits, Known
<1>5. job'[t] \in {Report(TRUE), Report(FALSE)}
  BY <1>1
<1> QED
  BY <1>1, <1>4, <1>5, OperationKeeps

(* An operation changes nothing of the rest but the count of failures. *)
LEMMA RestIs ==
  ASSUME IInv, Elsewhere, UNCHANGED past, faults' \in 0 .. MaxFaults
  PROVE  RestFits'
BY DEF Elsewhere, past, IInv, Types, RestFits, Known

(* An operation is refused, or ends, without touching the disk. *)
LEMMA EndOnlyKeeps ==
  ASSUME IInv, NEW t \in Threads, Operating(t), NEW b \in BOOLEAN, End(t, b), EndOnly
  PROVE  IInv'
<1>1. StoreFits' /\ DiskIsRight'
  BY DiskStaysRight DEF EndOnly, IInv, Types
<1>2. RestFits'
  BY RestIs DEF EndOnly, IInv, Types, RestFits
<1>3. UNCHANGED <<catalog, screen, phase>>
  BY DEF EndOnly, Elsewhere
<1> QED
  BY <1>1, <1>2, <1>3, ReportKeeps

(* An operation goes on without touching the disk. *)
LEMMA JobOnlyKeeps ==
  ASSUME IInv, NEW t \in Threads, Operating(t), NEW j \in Job, job' = [job EXCEPT ![t] = j],
         JobFits(j), j.task \in DOMAIN StepsOf, OperationFits(j), JobOnly
  PROVE  IInv'
<1>1. StoreFits' /\ DiskIsRight' /\ OperationFits(j)'
  BY DiskStaysRight, OperationsKept DEF JobOnly, Elsewhere, store, past, IInv, Types
<1>2. RestFits'
  BY RestIs DEF JobOnly, IInv, Types, RestFits
<1>3. UNCHANGED <<catalog, screen, phase, guard>>
  BY DEF JobOnly, Elsewhere
<1> QED
  BY <1>1, <1>2, <1>3, StepKeeps

(* install_content_pack, until the release is resolved to a plan. *)
LEMMA ResolveKeeps ==
  ASSUME IInv, NEW t \in Threads, Resolve(t)
  PROVE  IInv'
<1> DEFINE p == job[t].pack
           n == job[t].release
<1>1. /\ job[t] \in Job /\ JobFits(job[t]) /\ job[t].task = "install" /\ job[t].at = "start"
      /\ Operating(t) /\ p \in Packs /\ n \in Numbers(p)
  <2>1. job[t] \in Job /\ JobFits(job[t]) /\ job[t].task = "install" /\ job[t].at = "start"
    BY DEF Resolve, At, IInv, Types, MemoryFits
  <2>2. n \in Nat /\ n # 0 /\ n <= Len(Releases[p]) /\ p \in Packs
    BY <2>1, LastIs DEF Job, JobFits
  <2> QED
    BY <2>1, <2>2, PacksHaveReleases DEF Operating, Numbers
<1>2. CASE End(t, FALSE) /\ EndOnly
  BY <1>1, <1>2, EndOnlyKeeps
<1>3. CASE /\ Resolves(p, n)
           /\ job' = [job EXCEPT ![t] =
                 IF IsInstalled(p)
                 THEN [@ EXCEPT !.task = "update", !.at = "prepare", !.plan = Outdated(p, n)]
                 ELSE [@ EXCEPT !.task = "fresh", !.at = "fresh"]]
           /\ JobOnly
  <2>1. ~rewound /\ ~transaction.open => Satisfied(p, n)
    BY <1>1, <1>3, CompatibleIs DEF Resolves, IInv, Types, DiskIsRight
  <2>2. CASE IsInstalled(p)
    <3>1. PICK j : j = [job[t] EXCEPT !.task = "update", !.at = "prepare", !.plan = Outdated(p, n)]
      OBVIOUS
    <3>2. /\ j \in Job /\ j.task = "update" /\ j.at = "prepare" /\ j.plan = Outdated(p, n)
          /\ j.pack = p /\ j.release = n /\ j.answer = job[t].answer
      <4>1. Outdated(p, n) \in SUBSET Files
        BY DEF Outdated
      <4> QED
        BY <1>1, <3>1, <4>1 DEF Job, Tasks, Steps
    <3>3. JobFits(j)
      BY <1>1, <3>2 DEF JobFits, StepsOf
    <3>4. FreshFits(j) /\ RemoveFits(j)
      BY <3>2 DEF FreshFits, RemoveFits
    <3>5. UpdateFits(j)
      <4>1. Agree(disk, p, n, Files \ Outdated(p, n))
        BY DEF Agree, Outdated
      <4>2. Dropped(p, disk.record[p], n) \subseteq Outdated(p, n)
        <5> SUFFICES ASSUME NEW f \in Dropped(p, disk.record[p], n)
                     PROVE  f \in Outdated(p, n)
          OBVIOUS
        <5>1. n # 0
          BY <1>1 DEF JobFits
        <5>2. f \in Listed(p, disk.record[p]) /\ f \notin Listed(p, n)
          BY <5>1 DEF Dropped
        <5>3. f \in Files /\ Target(p, disk.record[p])[f] # Target(p, n)[f]
          BY <5>2 DEF Listed
        <5> QED
          BY <5>3 DEF Outdated
      <4> QED
        BY <2>2, <3>2, <4>1, <4>2 DEF UpdateFits, IsInstalled
    <3>6. ApplyFits(j)
      BY <2>1, <3>2 DEF ApplyFits, Settled
    <3>7. job' = [job EXCEPT ![t] = j] /\ j.task \in DOMAIN StepsOf /\ OperationFits(j)
      BY <1>3, <2>2, <3>1, <3>2, <3>4, <3>5, <3>6 DEF StepsOf, OperationFits
    <3> QED
      BY <1>1, <1>3, <3>2, <3>3, <3>7, JobOnlyKeeps
  <2>3. CASE ~IsInstalled(p)
    <3>1. PICK j : j = [job[t] EXCEPT !.task = "fresh", !.at = "fresh"]
      OBVIOUS
    <3>2. /\ j \in Job /\ j.task = "fresh" /\ j.at = "fresh" /\ j.plan = job[t].plan
          /\ j.pack = p /\ j.release = n /\ j.answer = job[t].answer
      BY <1>1, <3>1 DEF Job, Tasks, Steps
    <3>3. JobFits(j)
      BY <1>1, <3>2 DEF JobFits, StepsOf
    <3>4. FreshFits(j) /\ RemoveFits(j) /\ UpdateFits(j)
      BY <2>3, <3>2 DEF FreshFits, RemoveFits, UpdateFits, IsInstalled
    <3>5. ApplyFits(j)
      BY <2>1, <3>2 DEF ApplyFits, Settled
    <3>6. job' = [job EXCEPT ![t] = j] /\ j.task \in DOMAIN StepsOf /\ OperationFits(j)
      BY <1>3, <2>3, <3>1, <3>2, <3>4, <3>5 DEF StepsOf, OperationFits
    <3> QED
      BY <1>1, <1>3, <3>2, <3>3, <3>6, JobOnlyKeeps
  <2> QED
    BY <2>2, <2>3
<1> QED
  BY <1>2, <1>3 DEF Resolve, PackOf, ReleaseOf

(* remove_content_pack, until the removal is planned. An installed dependent that the
   catalog does not name is what blind records. *)
LEMMA CheckRemoveKeeps ==
  ASSUME IInv, NEW t \in Threads, CheckRemove(t)
  PROVE  IInv'
<1> DEFINE p == job[t].pack
<1>1. /\ job[t] \in Job /\ JobFits(job[t]) /\ job[t].task = "remove" /\ job[t].at = "start"
      /\ Operating(t) /\ p \in Packs
  BY DEF CheckRemove, At, IInv, Types, MemoryFits, Operating, Job
<1>2. CASE Dependents(p) # {} \/ ~IsInstalled(p)
  BY <1>1, <1>2, EndOnlyKeeps DEF CheckRemove, PackOf
<1>3. CASE Dependents(p) = {} /\ IsInstalled(p)
  <2>1. /\ job' = [job EXCEPT ![t].at = "prepare", ![t].installed = disk.record[p],
                            ![t].plan = Listed(p, disk.record[p])]
        /\ blind' = (blind \/ Hidden(p) # {})
        /\ Elsewhere /\ UNCHANGED <<store, guard, rewound, faults>>
    BY <1>3 DEF CheckRemove, PackOf
  <2>2. PICK j : j = [job[t] EXCEPT !.at = "prepare", !.installed = disk.record[p],
                                    !.plan = Listed(p, disk.record[p])]
    OBVIOUS
  <2>3. disk.record[p] \in Numbers(p) /\ disk.record[p] \in 0 .. Last
    BY <1>1, <1>3, KnownIs DEF IInv, Types, StoreFits, DiskKnown, IsInstalled, Listing
  <2>4. Listed(p, disk.record[p]) \in SUBSET Files
    BY DEF Listed
  <2>5. /\ j \in Job /\ j.task = "remove" /\ j.at = "prepare"
        /\ j.installed = disk.record[p] /\ j.plan = Listed(p, disk.record[p])
        /\ j.pack = p /\ j.release = job[t].release /\ j.answer = job[t].answer
    BY <1>1, <2>2, <2>3, <2>4 DEF Job, Steps
  <2>6. JobFits(j) /\ j.task \in DOMAIN StepsOf
    BY <1>1, <2>5, <2>3 DEF JobFits, StepsOf
  <2>7. job' = [job EXCEPT ![t] = j]
    BY <2>1, <2>2 DEF IInv, Types, MemoryFits
  <2>8. UNCHANGED <<disk, transaction, own, game>> /\ Restored' = Restored
    BY <2>1 DEF store, Elsewhere, Restored
  <2>9. FreshFits(j)' /\ UpdateFits(j)' /\ ApplyFits(j)'
    BY <2>5 DEF FreshFits, UpdateFits, ApplyFits
  <2>10. RemoveFits(j)'
    <3>1. ASSUME ~blind', NEW q \in Packs, disk.record[q] # 0
          PROVE  p \notin DOMAIN Releases[q][disk.record[q]].depends
      BY <1>3, <2>1, <3>1 DEF Hidden, Dependents, IsInstalled
    <3> QED
      BY <2>5, <2>8, <3>1 DEF RemoveFits
  <2>11. DiskIsRight'
    <3>1. OwnIsApart' /\ FilesHaveRecords' /\ RemovalFits'
      BY <2>1, <2>8 DEF IInv, DiskIsRight, OwnIsApart, Unfinished, FilesHaveRecords, InPlace,
                  HasRecord, RemovalFits
    <3>2. RecordsAgree'
      BY <2>1, <2>8 DEF IInv, DiskIsRight, RecordsAgree, Agree
    <3>3. DependenciesPresent'
      BY <2>1, <2>8 DEF IInv, DiskIsRight, DependenciesPresent
    <3> QED
      BY <3>1, <3>2, <3>3 DEF DiskIsRight
  <2>12. StoreFits'
    BY <2>8 DEF IInv, Types, StoreFits, DiskKnown, Known
  <2>13. RestFits'
    BY <2>1 DEF Elsewhere, IInv, Types, RestFits, Known
  <2>14. UNCHANGED <<catalog, screen, phase, guard>>
    BY <2>1 DEF Elsewhere
  <2>15. OperationFits(j)'
    BY <2>9, <2>10 DEF OperationFits
  <2> QED
    BY <1>1, <2>5, <2>6, <2>7, <2>11, <2>12, <2>13, <2>14, <2>15, StepKeeps
<1> QED
  BY <1>2, <1>3

(* The check after an update. *)
LEMMA VerifyKeeps ==
  ASSUME IInv, NEW t \in Threads, Verify(t)
  PROVE  IInv'
<1>1. Operating(t) /\ EndOnly
  BY DEF Verify, At, Operating
<1>2. PICK b \in BOOLEAN : End(t, b)
  BY DEF Verify, Verifies
<1> QED
  BY <1>1, <1>2, EndOnlyKeeps

(* The job of an operation that goes on to another of its steps. *)
LEMMA OperationAdvances ==
  ASSUME Types, NEW t \in Threads, NEW step \in Steps, Advance(t, step), Operating(t),
         step \in StepsOf[job[t].task], job[t].task = "remove" => job[t].at # "start"
  PROVE  \E j \in Job :
            /\ job' = [job EXCEPT ![t] = j] /\ JobFits(j) /\ j.task \in DOMAIN StepsOf
            /\ j.task = job[t].task /\ j.at = step /\ j.pack = job[t].pack
            /\ j.release = job[t].release /\ j.installed = job[t].installed
            /\ j.plan = job[t].plan /\ j.had = job[t].had
<1>1. job[t] \in Job /\ JobFits(job[t]) /\ job \in [Threads -> Job]
  BY DEF Types, MemoryFits
<1>2. PICK j : j = [job[t] EXCEPT !.at = step]
  OBVIOUS
<1>3. /\ j \in Job /\ j.task = job[t].task /\ j.at = step /\ j.pack = job[t].pack
      /\ j.release = job[t].release /\ j.installed = job[t].installed
      /\ j.plan = job[t].plan /\ j.had = job[t].had /\ j.answer = job[t].answer
  BY <1>1, <1>2 DEF Job
<1>4. job' = [job EXCEPT ![t] = j]
  BY <1>1, <1>2 DEF Advance
<1>5. j.task \in DOMAIN StepsOf
  BY <1>3, OperationsAre
<1>6. JobFits(j)
  BY <1>1, <1>3, <1>5 DEF JobFits
<1> QED
  BY <1>3, <1>4, <1>5, <1>6

(* What is known of the job of an operation. *)
LEMMA OperationIs ==
  ASSUME IInv, NEW t \in Threads, Operating(t)
  PROVE  /\ job[t] \in Job /\ JobFits(job[t]) /\ OperationFits(job[t])
         /\ job[t].pack \in Packs
         /\ job[t].task \in {"install", "fresh", "update"} =>
               job[t].release \in Numbers(job[t].pack)
<1>1. job[t] \in Job /\ JobFits(job[t]) /\ OperationFits(job[t]) /\ job[t].pack \in Packs
  BY DEF IInv, Types, MemoryFits, OperationsFit, Job
<1>2. job[t].release \in Nat /\ job[t].release <= Len(Releases[job[t].pack])
  BY <1>1, LastIs DEF Job, JobFits
<1> QED
  BY <1>1, <1>2, PacksHaveReleases DEF JobFits, Numbers

(* Where a recovery would leave the same disk, it is right as before. *)
LEMMA RestoredSame ==
  ASSUME StoreFits, UNCHANGED <<rewound, blind>>,
         \A p \in Packs : Restored'.record[p] = Restored.record[p],
         \A d \in Directories, f \in Files : Restored'.files[d][f] = Restored.files[d][f]
  PROVE  (RecordsAgree => RecordsAgree') /\ (DependenciesPresent => DependenciesPresent')
<1>1. \A p \in Packs : Restored.record[p] # 0 => Restored.record[p] \in Numbers(p)
  BY RestoredIs, KnownIs DEF RestoredFits, DiskKnown
<1>2. ASSUME RecordsAgree, ~rewound, NEW p \in Packs, Restored.record[p] # 0,
             NEW f \in Files \cap Listed(p, Restored.record[p])
      PROVE  Restored'.files[DirectoryOf(p, Restored.record[p])][f]
                \in {Damaged, Target(p, Restored.record[p])[f]}
  <2>1. DirectoryOf(p, Restored.record[p]) \in Directories
    BY <1>1, <1>2, ReleaseIs
  <2> QED
    BY <1>2, <2>1 DEF RecordsAgree, Agree
<1>3. RecordsAgree => RecordsAgree'
  BY <1>2 DEF RecordsAgree, Agree
<1>4. ASSUME DependenciesPresent, ~rewound, ~blind, NEW p \in Packs, Restored'.record[p] # 0,
             NEW q \in Packs \cap DOMAIN Releases[p][Restored'.record[p]].depends
      PROVE  Restored'.record[q] # 0
  BY <1>4 DEF DependenciesPresent
<1>5. DependenciesPresent => DependenciesPresent'
  BY <1>4 DEF DependenciesPresent
<1> QED
  BY <1>3, <1>5

(* An apply begins with a recovery. If that undoes an open transaction, the plan is no
   longer for this disk; the pack has a record to go on from all the same. *)
LEMMA PrepareKeeps ==
  ASSUME IInv, NEW t \in Threads, Prepare(t)
  PROVE  IInv'
<1>1. /\ job[t].task \in Changing /\ job[t].at = "prepare" /\ Operating(t)
      /\ Recover /\ rewound' = (rewound \/ transaction.open) /\ Advance(t, "begin")
      /\ Elsewhere /\ UNCHANGED <<own, guard, blind>>
  BY DEF Prepare, At, Operating, Changing
<1>2. /\ job[t] \in Job /\ JobFits(job[t]) /\ OperationFits(job[t]) /\ job[t].pack \in Packs
      /\ job[t].task \in {"install", "fresh", "update"} => job[t].release \in Numbers(job[t].pack)
  BY <1>1, OperationIs
<1>3. PICK j \in Job :
            /\ job' = [job EXCEPT ![t] = j] /\ JobFits(j) /\ j.task \in DOMAIN StepsOf
            /\ j.task = job[t].task /\ j.at = "begin" /\ j.pack = job[t].pack
            /\ j.release = job[t].release /\ j.installed = job[t].installed
            /\ j.plan = job[t].plan /\ j.had = job[t].had
  <2>1. "begin" \in StepsOf[job[t].task] /\ "begin" \in Steps
    BY <1>1 DEF Changing, StepsOf, Steps
  <2> QED
    BY <1>1, <2>1, OperationAdvances DEF IInv
<1>4. StoreFits' /\ DiskIsRight'
  BY <1>1, RecoveringKeeps DEF Recover, IInv, Types
<1>5. disk' = Restored /\ ~transaction'.open /\ RestoredFits
  BY <1>1, ClosedIs, RestoredIs DEF Recover, IInv, Types
<1>6. RestFits'
  BY <1>1 DEF Elsewhere, Recover, NoFault, IInv, Types, RestFits, Known
<1>7. ~rewound' => ~rewound /\ ~transaction.open /\ disk' = disk
  BY <1>1, <1>5 DEF RestoredFits
<1>8. HasRecord(disk, j.pack)'
  <2> SUFFICES HasRecord(Restored, j.pack)
    BY <1>5 DEF HasRecord
  <2>1. HasRecord(disk, j.pack)
    <3>1. CASE job[t].task = "remove"
      <4>1. disk.record[j.pack] = job[t].installed /\ job[t].installed # 0
        BY <1>1, <1>2, <1>3, <3>1, ReleaseIs DEF OperationFits, RemoveFits, JobFits
      <4> QED
        BY <4>1 DEF HasRecord
    <3>2. CASE job[t].task # "remove"
      BY <1>1, <1>2, <1>3, <3>2 DEF OperationFits, FreshFits, UpdateFits, HasRecord, Changing
    <3> QED
      BY <3>1, <3>2
  <2>2. CASE ~transaction.open
    BY <1>5, <2>1, <2>2 DEF RestoredFits
  <2>3. CASE transaction.open
    <3>1. HasRecord(transaction.before, transaction.pack)
      BY <2>3 DEF IInv, DiskIsRight, FilesHaveRecords
    <3> QED
      BY <1>2, <1>3, <1>5, <2>1, <2>3, <3>1 DEF RestoredFits, HasRecord
  <2> QED
    BY <2>2, <2>3
<1>9. OperationFits(j)'
  <2>1. Settled(j.at)' => Settled(job[t].at) /\ disk' = disk /\ game' = game /\ ~rewound'
    BY <1>1, <1>7 DEF Settled, Elsewhere
  <2>2. FreshFits(j)'
    BY <1>1, <1>2, <1>3, <2>1 DEF OperationFits, FreshFits, Agree
  <2>3. UpdateFits(j)'
    BY <1>1, <1>2, <1>3, <2>1 DEF OperationFits, UpdateFits, Agree
  <2>4. RemoveFits(j)'
    BY <1>1, <1>2, <1>3, <2>1 DEF OperationFits, RemoveFits
  <2>5. ApplyFits(j)'
    BY <1>1, <1>2, <1>3, <1>5, <1>8, <2>1 DEF OperationFits, ApplyFits, Satisfied
  <2> QED
    BY <2>2, <2>3, <2>4, <2>5 DEF OperationFits
<1>10. UNCHANGED <<catalog, screen, phase, guard>>
  BY <1>1 DEF Elsewhere
<1> QED
  BY <1>1, <1>3, <1>4, <1>6, <1>9, <1>10, StepKeeps

(* The transaction is opened: it goes back to the disk of now. *)
LEMMA BeginKeeps ==
  ASSUME IInv, NEW t \in Threads, Begin(t)
  PROVE  IInv'
<1> DEFINE p == job[t].pack
           d == DirectoryFor(t)
<1>1. job[t].task \in Changing /\ job[t].at = "begin" /\ Operating(t)
  BY DEF Begin, At, Operating, Changing
<1>2. /\ job[t] \in Job /\ JobFits(job[t]) /\ OperationFits(job[t]) /\ p \in Packs
      /\ job[t].task \in {"install", "fresh", "update"} => job[t].release \in Numbers(p)
  BY <1>1, OperationIs
<1>3. /\ transaction' = [open |-> TRUE, pack |-> p, directory |-> d,
                         plan |-> job[t].plan, before |-> disk]
      /\ Advance(t, "files")
      /\ Elsewhere /\ UNCHANGED <<disk, own, guard, past, faults>>
  BY DEF Begin, PackOf
<1>4. PICK j \in Job :
          /\ job' = [job EXCEPT ![t] = j] /\ JobFits(j) /\ j.task \in DOMAIN StepsOf
          /\ j.task = job[t].task /\ j.at = "files" /\ j.pack = job[t].pack
          /\ j.release = job[t].release /\ j.installed = job[t].installed
          /\ j.plan = job[t].plan /\ j.had = job[t].had
  <2>1. "files" \in StepsOf[job[t].task] /\ "files" \in Steps
    BY <1>1 DEF Changing, StepsOf, Steps
  <2> QED
    BY <1>1, <1>3, <2>1, OperationAdvances DEF IInv
<1>5. ~transaction.open
  BY <1>1, <1>2 DEF OperationFits, ApplyFits
<1>6. DiskKnown(disk) /\ disk \in Disk
  BY DEF IInv, Types, StoreFits, DiskKnown
<1>7. /\ \E n \in Numbers(p) : d = DirectoryOf(p, n)
      /\ d \in Directories
      /\ job[t].task = "remove" => d = DirectoryOf(p, job[t].installed)
      /\ job[t].task # "remove" => d = DirectoryOf(p, job[t].release)
  <2>1. CASE job[t].task = "remove"
    <3>1. d = DirectoryOf(p, job[t].installed)
      BY <2>1 DEF DirectoryFor, PackOf
    <3>2. job[t].installed \in Numbers(p)
      BY <1>1, <1>2, <2>1 DEF JobFits
    <3> HIDE DEF d, p
    <3> QED
      BY <1>2, <2>1, <3>1, <3>2, ReleaseIs
  <2>2. CASE job[t].task # "remove"
    <3>1. d = DirectoryOf(p, job[t].release)
      BY <2>2 DEF DirectoryFor, PackOf, ReleaseOf
    <3>2. job[t].release \in Numbers(p)
      BY <1>1, <1>2, <2>2 DEF Changing
    <3> HIDE DEF d, p
    <3> QED
      BY <1>2, <2>2, <3>1, <3>2, ReleaseIs
  <2> QED
    BY <2>1, <2>2
<1>8. /\ transaction' \in Transaction /\ transaction'.open /\ transaction'.pack = p
      /\ transaction'.directory = d /\ transaction'.plan = job[t].plan
      /\ transaction'.before = disk
  <2>1. job[t].plan \in SUBSET Files
    BY <1>2 DEF Job
  <2> QED
    BY <1>2, <1>3, <1>6, <1>7, <2>1 DEF Transaction
<1>9. StoreFits'
  BY <1>3, <1>6, <1>7, <1>8 DEF StoreFits, DiskKnown, Known, IInv, Types
<1>10. RestoredFits /\ RestoredFits' /\ disk' = disk /\ own' = own
  BY <1>3, <1>9, RestoredIs, RestoredNext DEF IInv, Types
<1>11. /\ \A q \in Packs : /\ Restored'.record[q] = disk.record[q]
                           /\ Restored'.pending[q] = disk.pending[q]
       /\ \A e \in Directories, f \in Files : Restored'.files[e][f] = disk.files[e][f]
       /\ Restored = disk
  BY <1>5, <1>8, <1>10 DEF RestoredFits
<1>12. HasRecord(disk, p)
  BY <1>1, <1>2 DEF OperationFits, ApplyFits
<1>13. DiskIsRight'
  <2>1. OwnIsApart'
    <3> SUFFICES ASSUME NEW q \in Packs
                 PROVE  /\ Unfinished(disk, q)' => own[DirectoryOf(q, disk'.pending[q])] # "kept"
                        /\ Unfinished(Restored, q)'
                             => own[DirectoryOf(q, Restored'.pending[q])] # "kept"
      BY <1>10 DEF OwnIsApart, Unfinished
    <3> QED
      BY <1>10, <1>11 DEF IInv, DiskIsRight, OwnIsApart, Unfinished
  <2>2. FilesHaveRecords'
    BY <1>8, <1>10, <1>12 DEF IInv, DiskIsRight, FilesHaveRecords, InPlace, HasRecord
  <2>3. RemovalFits'
    BY <1>8, <1>10 DEF RemovalFits
  <2>4. RecordsAgree' /\ DependenciesPresent'
    <3>1. UNCHANGED <<rewound, blind>>
      BY <1>3 DEF past
    <3> QED
      BY <1>11, <3>1, RestoredSame DEF IInv, Types, DiskIsRight
  <2> QED
    BY <2>1, <2>2, <2>3, <2>4 DEF DiskIsRight
<1>14. RestFits'
  BY <1>3, RestIs DEF IInv, Types, RestFits
<1>15. OperationFits(j)'
  <2>1. Settled(j.at)' => Settled(job[t].at) /\ ~rewound
    BY <1>3, <1>5 DEF Settled, past
  <2>2. game' = game /\ blind' = blind
    BY <1>3 DEF Elsewhere, past
  <2>3. FreshFits(j)'
    BY <1>1, <1>2, <1>4, <1>10, <2>1 DEF OperationFits, FreshFits, Agree
  <2>4. UpdateFits(j)'
    BY <1>1, <1>2, <1>4, <1>10, <2>1 DEF OperationFits, UpdateFits, Agree
  <2>5. RemoveFits(j)'
    BY <1>1, <1>2, <1>4, <1>7, <1>8, <1>10, <2>1, <2>2 DEF OperationFits, RemoveFits
  <2>6. ApplyFits(j)'
    <3>1. (j.task \in {"fresh", "update"} /\ Settled(j.at) => Satisfied(j.pack, j.release))'
      BY <1>1, <1>2, <1>4, <1>10, <2>1, <2>2 DEF OperationFits, ApplyFits, Satisfied
    <3> QED
      BY <1>4, <1>7, <1>8, <1>10, <1>12, <3>1 DEF ApplyFits, HasRecord
  <2> QED
    BY <2>3, <2>4, <2>5, <2>6 DEF OperationFits
<1>16. UNCHANGED <<catalog, screen, phase, guard>>
  BY <1>3 DEF Elsewhere
<1> QED
  BY <1>1, <1>4, <1>9, <1>13, <1>14, <1>15, <1>16, StepKeeps

(* The files of a pack without a record are replaced. Where a recovery would bring a
   record back (a removal that was interrupted), it brings back all of its files too. *)
LEMMA FreshFilesKeep ==
  ASSUME IInv, NEW p \in Packs, NEW n \in Numbers(p), NEW g \in [Files -> Contents],
         disk' = [disk EXCEPT !.files[DirectoryOf(p, n)] = g],
         disk.record[p] = 0, HasRecord(disk, p), UNCHANGED <<transaction, past>>,
         own' = own \/ own' = [own EXCEPT ![DirectoryOf(p, n)] = "none"]
  PROVE  /\ StoreFits' /\ DiskIsRight'
         /\ disk'.record = disk.record /\ disk'.pending = disk.pending
         /\ disk'.files[DirectoryOf(p, n)] = g
<1>1. PICK d \in Directories : d = DirectoryOf(p, n)
  BY ReleaseIs
<1>2. DiskKnown(disk) /\ own \in [Directories -> {"none", "kept", "claimed"}]
  BY DEF IInv, Types, StoreFits
<1>3. /\ DiskKnown(disk)'
      /\ disk'.record = disk.record /\ disk'.pending = disk.pending
      /\ disk'.files[d] = g /\ \A e \in Directories \ {d} : disk'.files[e] = disk.files[e]
  BY <1>1, <1>2, FilesChanged
<1>4. /\ own' \in [Directories -> {"none", "kept", "claimed"}]
      /\ \A e \in Directories : own'[e] = "kept" => own[e] = "kept"
  BY <1>1, <1>2
<1>5. StoreFits'
  BY <1>3, <1>4 DEF IInv, Types, StoreFits, DiskKnown, Known
<1>6. RestoredFits /\ RestoredFits' /\ transaction' = transaction
  BY <1>5, RestoredIs, RestoredNext DEF IInv, Types
<1>7. \A q \in Packs : /\ Restored'.record[q] = Restored.record[q]
                       /\ Restored'.pending[q] = Restored.pending[q]
  <2>1. CASE transaction.open
    BY <1>3, <1>6, <2>1 DEF RestoredFits
  <2>2. CASE ~transaction.open
    BY <1>3, <1>6, <2>2 DEF RestoredFits
  <2> QED
    BY <2>1, <2>2
<1>8. \A e \in Directories \ {d}, f \in Files : Restored'.files[e][f] = Restored.files[e][f]
  <2>1. CASE transaction.open
    BY <1>3, <1>6, <2>1 DEF RestoredFits
  <2>2. CASE ~transaction.open
    BY <1>3, <1>6, <2>2 DEF RestoredFits
  <2> QED
    BY <2>1, <2>2
<1>9. OwnIsApart'
  <2> SUFFICES ASSUME NEW q \in Packs
               PROVE  /\ Unfinished(disk, q)' => own'[DirectoryOf(q, disk'.pending[q])] # "kept"
                      /\ Unfinished(Restored, q)'
                           => own'[DirectoryOf(q, Restored'.pending[q])] # "kept"
    BY DEF OwnIsApart, Unfinished
  <2>1. Unfinished(disk, q) => DirectoryOf(q, disk.pending[q]) \in Directories
    BY <1>2, KnownIs, ReleaseIs DEF DiskKnown, Unfinished
  <2>2. Unfinished(Restored, q) => DirectoryOf(q, Restored.pending[q]) \in Directories
    BY <1>6, KnownIs, ReleaseIs DEF RestoredFits, DiskKnown, Unfinished
  <2> QED
    BY <1>3, <1>4, <1>7, <2>1, <2>2 DEF IInv, DiskIsRight, OwnIsApart, Unfinished
<1>10. FilesHaveRecords'
  <2>1. ASSUME NEW q \in Packs, InPlace(q)'
        PROVE  HasRecord(disk, q)
    <3>1. DirectoryOf(q, 1) \in Directories /\ 1 \in Numbers(q)
      BY FirstIs, ReleaseIs
    <3>2. CASE q = p
      BY <3>2
    <3>3. CASE q # p
      <4>1. DirectoryOf(q, 1) # d
        BY <1>1, <3>1, <3>3, Apart
      <4>2. InPlace(q)
        BY <1>3, <2>1, <3>1, <4>1 DEF InPlace
      <4> QED
        BY <4>2 DEF IInv, DiskIsRight, FilesHaveRecords
    <3> QED
      BY <3>2, <3>3
  <2> QED
    BY <1>3, <1>6, <2>1 DEF IInv, DiskIsRight, FilesHaveRecords, HasRecord
<1>11. RemovalFits'
  BY <1>3, <1>6 DEF IInv, DiskIsRight, RemovalFits, past
<1>12. ASSUME ~rewound, NEW q \in Packs, Restored.record[q] # 0,
              NEW f \in Files \cap Listed(q, Restored.record[q])
       PROVE  Restored'.files[DirectoryOf(q, Restored.record[q])][f]
                 \in {Damaged, Target(q, Restored.record[q])[f]}
  <2>1. Restored.record[q] \in Numbers(q)
    BY <1>6, <1>12, KnownIs DEF RestoredFits, DiskKnown
  <2>2. DirectoryOf(q, Restored.record[q]) \in Directories
    BY <2>1, ReleaseIs
  <2>3. Restored.files[DirectoryOf(q, Restored.record[q])][f]
           \in {Damaged, Target(q, Restored.record[q])[f]}
    BY <1>12 DEF IInv, DiskIsRight, RecordsAgree, Agree
  <2>4. CASE DirectoryOf(q, Restored.record[q]) # d
    BY <1>8, <2>2, <2>3, <2>4
  <2>5. CASE DirectoryOf(q, Restored.record[q]) = d
    <3>1. q = p
      BY <1>1, <2>1, <2>5, Apart
    <3>2. /\ transaction.open /\ transaction.pack = p
          /\ transaction.before.record[p] = Restored.record[p]
      BY <1>6, <1>12, <3>1 DEF RestoredFits
    <3>3. f \in transaction.plan /\ transaction.directory = d
      BY <1>12, <2>5, <3>1, <3>2 DEF IInv, DiskIsRight, RemovalFits
    <3>4. Restored'.files[d][f] = Restored.files[d][f]
      BY <1>6, <3>2, <3>3 DEF RestoredFits
    <3> QED
      BY <2>3, <2>5, <3>4
  <2> QED
    BY <2>4, <2>5
<1>13. RecordsAgree'
  BY <1>7, <1>12 DEF RecordsAgree, Agree, past
<1>14. DependenciesPresent'
  BY <1>7 DEF IInv, DiskIsRight, DependenciesPresent, past
<1> QED
  BY <1>1, <1>3, <1>5, <1>9, <1>10, <1>11, <1>13, <1>14 DEF DiskIsRight

(* install_fresh removes what was in the directory. *)
LEMMA ClearKeeps ==
  ASSUME IInv, NEW t \in Threads, Clear(t)
  PROVE  IInv'
<1>1. job[t].task = "fresh" /\ job[t].at = "clear" /\ Operating(t)
  BY DEF Clear, At, Operating
<1>2. /\ job[t] \in Job /\ JobFits(job[t]) /\ OperationFits(job[t]) /\ job[t].pack \in Packs
      /\ job[t].release \in Numbers(job[t].pack)
  BY <1>1, OperationIs
<1>3. PICK d : d = DirectoryOf(job[t].pack, job[t].release)
  OBVIOUS
<1>4. DirectoryFor(t) = d
  BY <1>1, <1>3 DEF DirectoryFor, PackOf, ReleaseOf
<1>5. CASE End(t, FALSE) /\ EndOnly
  BY <1>1, <1>5, EndOnlyKeeps
<1>6. CASE /\ disk' = [disk EXCEPT !.files[d] = NoFiles] /\ own' = [own EXCEPT ![d] = "none"]
           /\ Advance(t, "promote") /\ Elsewhere /\ UNCHANGED <<transaction, guard, past, faults>>
  <2>1. PICK j \in Job :
            /\ job' = [job EXCEPT ![t] = j] /\ JobFits(j) /\ j.task \in DOMAIN StepsOf
            /\ j.task = job[t].task /\ j.at = "promote" /\ j.pack = job[t].pack
            /\ j.release = job[t].release /\ j.plan = job[t].plan /\ j.had = job[t].had
    <3>1. "promote" \in StepsOf[job[t].task] /\ "promote" \in Steps
      BY <1>1 DEF StepsOf, Steps
    <3> QED
      BY <1>1, <1>6, <3>1, OperationAdvances DEF IInv
  <2>2. disk.record[j.pack] = 0 /\ disk.pending[j.pack] # 0
    BY <1>1, <1>2, <2>1 DEF OperationFits, FreshFits
  <2>3. /\ StoreFits' /\ DiskIsRight'
        /\ disk'.record = disk.record /\ disk'.pending = disk.pending
    BY <1>2, <1>3, <1>6, <2>1, <2>2, NoFilesIs, FreshFilesKeep DEF HasRecord
  <2>4. FreshFits(j)' /\ UpdateFits(j)' /\ RemoveFits(j)'
    BY <1>1, <2>1, <2>2, <2>3 DEF FreshFits, UpdateFits, RemoveFits
  <2>5. ApplyFits(j)'
    <3>1. Settled(j.at)' => Settled(job[t].at)
      BY <1>6, <2>1 DEF Settled, past
    <3>2. game' = game
      BY <1>6 DEF Elsewhere
    <3> QED
      BY <1>1, <1>2, <2>1, <2>3, <3>1, <3>2 DEF OperationFits, ApplyFits, Satisfied
  <2>6. RestFits' /\ UNCHANGED <<catalog, screen, phase, guard>>
    BY <1>6, RestIs DEF Elsewhere, IInv, Types, RestFits
  <2>7. OperationFits(j)'
    BY <2>4, <2>5 DEF OperationFits
  <2> QED
    BY <1>1, <2>1, <2>3, <2>6, <2>7, StepKeeps
<1> QED
  BY <1>4, <1>5, <1>6 DEF Clear

(* install_fresh renames the staged directory. *)
LEMMA PromoteKeeps ==
  ASSUME IInv, NEW t \in Threads, Promote(t)
  PROVE  IInv'
<1>1. job[t].task = "fresh" /\ job[t].at = "promote" /\ Operating(t)
  BY DEF Promote, At, Operating
<1>2. /\ job[t] \in Job /\ JobFits(job[t]) /\ OperationFits(job[t]) /\ job[t].pack \in Packs
      /\ job[t].release \in Numbers(job[t].pack)
  BY <1>1, OperationIs
<1>3. PICK d, g : /\ d = DirectoryOf(job[t].pack, job[t].release)
                  /\ g = Target(job[t].pack, job[t].release)
  OBVIOUS
<1>4. DirectoryFor(t) = d /\ Target(PackOf(t), ReleaseOf(t)) = g /\ g \in [Files -> Contents]
  BY <1>1, <1>2, <1>3, ReleaseIs DEF DirectoryFor, PackOf, ReleaseOf
<1>5. CASE End(t, FALSE) /\ EndOnly
  BY <1>1, <1>5, EndOnlyKeeps
<1>6. CASE disk' = [disk EXCEPT !.files[d] = g] /\ Advance(t, "prepare") /\ DiskOnly
  <2>1. PICK j \in Job :
            /\ job' = [job EXCEPT ![t] = j] /\ JobFits(j) /\ j.task \in DOMAIN StepsOf
            /\ j.task = job[t].task /\ j.at = "prepare" /\ j.pack = job[t].pack
            /\ j.release = job[t].release /\ j.plan = job[t].plan /\ j.had = job[t].had
    <3>1. "prepare" \in StepsOf[job[t].task] /\ "prepare" \in Steps
      BY <1>1 DEF StepsOf, Steps
    <3> QED
      BY <1>1, <1>6, <3>1, OperationAdvances DEF IInv
  <2>2. disk.record[j.pack] = 0 /\ disk.pending[j.pack] # 0
    BY <1>1, <1>2, <2>1 DEF OperationFits, FreshFits
  <2>3. /\ StoreFits' /\ DiskIsRight'
        /\ disk'.record = disk.record /\ disk'.pending = disk.pending /\ disk'.files[d] = g
    BY <1>2, <1>3, <1>4, <1>6, <2>1, <2>2, FreshFilesKeep DEF HasRecord, DiskOnly
  <2>4. FreshFits(j)'
    <3>1. Agree(disk, j.pack, j.release, Files)'
      BY <1>3, <2>1, <2>3 DEF Agree
    <3> QED
      BY <1>1, <2>1, <2>2, <2>3, <3>1 DEF FreshFits
  <2>5. UpdateFits(j)' /\ RemoveFits(j)'
    BY <1>1, <2>1 DEF UpdateFits, RemoveFits
  <2>6. ApplyFits(j)'
    <3>1. Settled(j.at)' => Settled(job[t].at)
      BY <1>6, <2>1 DEF DiskOnly, Settled, past
    <3>2. game' = game
      BY <1>6 DEF DiskOnly, Elsewhere
    <3> QED
      BY <1>1, <1>2, <2>1, <2>3, <3>1, <3>2 DEF OperationFits, ApplyFits, Satisfied
  <2>7. RestFits' /\ UNCHANGED <<catalog, screen, phase, guard>>
    BY <1>6, RestIs DEF DiskOnly, Elsewhere, IInv, Types, RestFits
  <2>8. OperationFits(j)'
    BY <2>4, <2>5, <2>6 DEF OperationFits
  <2> QED
    BY <1>1, <2>1, <2>3, <2>7, <2>8, StepKeeps
<1> QED
  BY <1>4, <1>5, <1>6 DEF Promote

(* install_fresh records what it is about to do. A pending record is moved to another
   release only where the directory has no files; otherwise it still claims them. *)
LEMMA FreshKeeps ==
  ASSUME IInv, NEW t \in Threads, Fresh(t)
  PROVE  IInv'
<1> DEFINE p == job[t].pack
           n == job[t].release
           d == DirectoryOf(p, n)
           m == IF disk.pending[p] = 0 \/ (~HasFiles(d) /\ disk.pending[p] # n)
                THEN n ELSE disk.pending[p]
<1>1. job[t].task = "fresh" /\ job[t].at = "fresh" /\ Operating(t)
  BY DEF Fresh, At, Operating
<1>2. /\ job[t] \in Job /\ JobFits(job[t]) /\ OperationFits(job[t]) /\ p \in Packs
      /\ n \in Numbers(p) /\ d \in Directories /\ n # 0
  BY <1>1, OperationIs, ReleaseIs
<1>3. DiskKnown(disk) /\ disk.record[p] = 0
  BY <1>1, <1>2 DEF IInv, Types, StoreFits, OperationFits, FreshFits
<1>4. CASE End(t, FALSE) /\ EndOnly
  BY <1>1, <1>4, EndOnlyKeeps
<1>5. CASE HasFiles(d) /\ disk.pending[p] = n /\ Verifies(p, n) /\ Advance(t, "prepare") /\ JobOnly
  <2>1. PICK j \in Job :
            /\ job' = [job EXCEPT ![t] = j] /\ JobFits(j) /\ j.task \in DOMAIN StepsOf
            /\ j.task = job[t].task /\ j.at = "prepare" /\ j.pack = p
            /\ j.release = n /\ j.plan = job[t].plan /\ j.had = job[t].had
    <3>1. "prepare" \in StepsOf[job[t].task] /\ "prepare" \in Steps
      BY <1>1 DEF StepsOf, Steps
    <3> QED
      BY <1>1, <1>5, <3>1, OperationAdvances DEF IInv
  <2>2. FreshFits(j)
    <3>1. Agree(disk, p, n, Files)
      BY <1>5 DEF Agree, Verifies
    <3> QED
      BY <1>1, <1>2, <1>3, <1>5, <2>1, <3>1 DEF FreshFits
  <2>3. UpdateFits(j) /\ RemoveFits(j)
    BY <1>1, <2>1 DEF UpdateFits, RemoveFits
  <2>4. ApplyFits(j)
    BY <1>1, <1>2, <2>1 DEF OperationFits, ApplyFits, Settled
  <2>5. OperationFits(j)
    BY <2>2, <2>3, <2>4 DEF OperationFits
  <2> QED
    BY <1>1, <1>5, <2>1, <2>5, JobOnlyKeeps
<1>6. CASE /\ HasFiles(d) => Claims(p, d)
           /\ disk' = [disk EXCEPT !.pending[p] =
                          IF @ = 0 \/ (~HasFiles(d) /\ @ # n) THEN n ELSE @]
           /\ job' = [job EXCEPT ![t].at = "clear", ![t].had = HasFiles(d)]
           /\ DiskOnly
  <2>1. PICK had \in BOOLEAN : had = HasFiles(d)
    BY DEF HasFiles
  <2>2. PICK k : k = m
    OBVIOUS
  <2>3. /\ k \in Numbers(p) /\ k # 0
        /\ (k = disk.pending[p] /\ disk.pending[p] # 0) \/ (k = n /\ ~had)
        /\ had => k = disk.pending[p] /\ DirectoryOf(p, k) = d
    <3>1. disk.pending[p] # 0 => disk.pending[p] \in Numbers(p)
      BY <1>2, <1>3, KnownIs DEF DiskKnown
    <3>2. had => disk.pending[p] # 0 /\ DirectoryOf(p, disk.pending[p]) = d
      BY <1>6, <2>1 DEF Claims
    <3>3. CASE k = n /\ ~had
      BY <1>2, <3>3
    <3>4. CASE k = disk.pending[p] /\ disk.pending[p] # 0
      <4>1. k \in Numbers(p) /\ k # 0
        BY <3>1, <3>4
      <4>2. had => DirectoryOf(p, k) = d
        BY <3>2, <3>4
      <4> QED
        BY <3>4, <4>1, <4>2
    <3>5. (k = n /\ ~had) \/ (k = disk.pending[p] /\ disk.pending[p] # 0)
      <4>1. CASE disk.pending[p] = 0
        <5>1. k = n
          BY <2>2, <4>1
        <5> QED
          BY <3>2, <4>1, <5>1
      <4>2. CASE disk.pending[p] # 0 /\ k # disk.pending[p]
        <5>1. ~HasFiles(d) /\ k = n
          BY <2>2, <4>2
        <5> QED
          BY <2>1, <5>1
      <4> QED
        BY <4>1, <4>2
    <3> QED
      BY <3>3, <3>4, <3>5
  <2>4. disk' = [disk EXCEPT !.pending[p] = k]
    BY <1>6, <2>2
  <2>5. /\ DiskKnown(disk)' /\ disk'.files = disk.files /\ disk'.record = disk.record
        /\ disk'.pending[p] = k /\ \A q \in Packs \ {p} : disk'.pending[q] = disk.pending[q]
    <3> HIDE DEF p, n, d, m
    <3> QED
      BY <1>2, <1>3, <2>3, <2>4, PendingChanged
  <2>6. UNCHANGED <<transaction, own, game, rewound, blind>>
    BY <1>6 DEF DiskOnly, Elsewhere, past
  <2>7. StoreFits'
    BY <2>5, <2>6 DEF IInv, Types, StoreFits, DiskKnown, Known
  <2>8. RestoredFits /\ RestoredFits'
    BY <2>7, RestoredIs, RestoredNext DEF IInv, Types
  <2>9. /\ \A q \in Packs : Restored'.record[q] = Restored.record[q]
        /\ \A q \in Packs \ {p} : Restored'.pending[q] = Restored.pending[q]
        /\ Restored'.pending[p] \in {Restored.pending[p], disk'.pending[p]}
        /\ \A e \in Directories, f \in Files : Restored'.files[e][f] = Restored.files[e][f]
    <3> HIDE DEF p, n, d, m
    <3>1. CASE transaction.open
      BY <1>2, <2>5, <2>6, <2>8, <3>1 DEF RestoredFits
    <3>2. CASE ~transaction.open
      BY <1>2, <2>5, <2>6, <2>8, <3>2 DEF RestoredFits
    <3> QED
      BY <3>1, <3>2
  <2>10. own[DirectoryOf(p, k)] # "kept"
    <3>1. CASE k = disk.pending[p] /\ disk.pending[p] # 0
      BY <1>2, <1>3, <3>1 DEF IInv, DiskIsRight, OwnIsApart, Unfinished
    <3>2. CASE k = n /\ ~had
      BY <2>1, <3>2 DEF HasFiles
    <3> QED
      BY <2>3, <3>1, <3>2
  <2>11. OwnIsApart'
    <3> SUFFICES ASSUME NEW q \in Packs
                 PROVE  /\ Unfinished(disk, q)' => own[DirectoryOf(q, disk'.pending[q])] # "kept"
                        /\ Unfinished(Restored, q)'
                             => own[DirectoryOf(q, Restored'.pending[q])] # "kept"
      BY <2>6 DEF OwnIsApart, Unfinished
    <3> HIDE DEF p, n, d, m
    <3>1. CASE q # p
      BY <2>5, <2>9, <3>1 DEF IInv, DiskIsRight, OwnIsApart, Unfinished
    <3>2. CASE q = p
      BY <1>2, <2>5, <2>9, <2>10, <3>2 DEF IInv, DiskIsRight, OwnIsApart, Unfinished
    <3> QED
      BY <3>1, <3>2
  <2>12. FilesHaveRecords'
    <3>1. \A q \in Packs : HasRecord(disk, q) => HasRecord(disk, q)'
      <4> HIDE DEF p, n, d, m
      <4> QED
        BY <1>2, <2>3, <2>5 DEF HasRecord
    <3> QED
      BY <2>5, <2>6, <3>1 DEF IInv, DiskIsRight, FilesHaveRecords, InPlace, HasRecord
  <2>13. RemovalFits'
    BY <2>5, <2>6 DEF IInv, DiskIsRight, RemovalFits
  <2>14. DiskIsRight'
    BY <2>6, <2>9, <2>11, <2>12, <2>13, RestoredSame DEF IInv, Types, DiskIsRight
  <2>15. PICK j : j = [job[t] EXCEPT !.at = "clear", !.had = had]
    OBVIOUS
  <2>16. /\ j \in Job /\ j.task = "fresh" /\ j.at = "clear" /\ j.pack = p /\ j.release = n
         /\ j.plan = job[t].plan /\ j.answer = job[t].answer /\ j.had = had
    BY <1>1, <1>2, <2>15 DEF Job, Steps
  <2>17. job' = [job EXCEPT ![t] = j]
    BY <1>6, <2>1, <2>15 DEF IInv, Types, MemoryFits
  <2>18. JobFits(j) /\ j.task \in DOMAIN StepsOf
    BY <1>1, <1>2, <2>16 DEF JobFits, StepsOf
  <2>19. FreshFits(j)'
    BY <1>3, <2>3, <2>5, <2>16 DEF FreshFits
  <2>20. UpdateFits(j)' /\ RemoveFits(j)'
    BY <2>16 DEF UpdateFits, RemoveFits
  <2>21. ApplyFits(j)'
    <3>1. Settled(j.at)' => Settled(job[t].at)
      BY <1>1, <2>6, <2>16 DEF Settled
    <3> QED
      BY <1>1, <1>2, <2>5, <2>6, <2>16, <3>1 DEF OperationFits, ApplyFits, Satisfied
  <2>22. RestFits' /\ UNCHANGED <<catalog, screen, phase, guard>>
    BY <1>6, RestIs DEF DiskOnly, Elsewhere, IInv, Types, RestFits
  <2>23. OperationFits(j)'
    BY <2>19, <2>20, <2>21 DEF OperationFits
  <2> QED
    BY <1>1, <2>7, <2>14, <2>16, <2>17, <2>18, <2>22, <2>23, StepKeeps
<1> QED
  BY <1>4, <1>5, <1>6 DEF Fresh, PackOf, ReleaseOf

(* The pending record is cleared, or left behind. *)
LEMMA TidyKeeps ==
  ASSUME IInv, NEW t \in Threads, Tidy(t)
  PROVE  IInv'
<1> DEFINE p == job[t].pack
<1>1. job[t].task \in Changing /\ job[t].at = "tidy" /\ Operating(t)
  BY DEF Tidy, At, Operating, Changing
<1>2. /\ job[t] \in Job /\ JobFits(job[t]) /\ OperationFits(job[t]) /\ p \in Packs
      /\ job[t].task \in {"fresh", "update"} /\ job[t].release # 0
  BY <1>1, OperationIs DEF JobFits, StepsOf, Changing
<1>3. ~transaction.open /\ disk.record[p] = job[t].release /\ disk.record[p] # 0
  BY <1>1, <1>2 DEF OperationFits, ApplyFits
<1>4. UNCHANGED <<transaction, own, past>> /\ DiskKnown(disk) /\ Elsewhere
  BY DEF Tidy, IInv, Types, StoreFits
<1>5. /\ DiskKnown(disk)' /\ disk'.files = disk.files /\ disk'.record = disk.record
      /\ disk'.pending[p] \in {0, disk.pending[p]}
      /\ \A q \in Packs \ {p} : disk'.pending[q] = disk.pending[q]
      /\ faults' \in 0 .. MaxFaults
  <2>1. CASE disk' = [disk EXCEPT !.pending[p] = 0] /\ NoFault
    <3> HIDE DEF p
    <3>1. faults' \in 0 .. MaxFaults
      BY <2>1 DEF NoFault, IInv, Types, RestFits
    <3> QED
      BY <1>2, <1>4, <2>1, <3>1, PendingChanged
  <2>2. CASE Fault /\ UNCHANGED disk
    BY <1>4, <2>2, BoundsKept DEF DiskKnown, Known
  <2> QED
    BY <2>1, <2>2 DEF Tidy, PackOf
<1> HIDE DEF p
<1>6. StoreFits'
  BY <1>4, <1>5 DEF IInv, Types, StoreFits, DiskKnown, Known
<1>7. Restored = disk /\ Restored' = disk' /\ ~transaction'.open
  BY <1>3, <1>4, <1>6, RestoredIs, RestoredNext DEF RestoredFits, IInv, Types
<1>8. OwnIsApart'
  <2> SUFFICES ASSUME NEW q \in Packs, disk'.record[q] = 0, disk'.pending[q] # 0
               PROVE  own[DirectoryOf(q, disk'.pending[q])] # "kept"
    BY <1>4, <1>7 DEF OwnIsApart, Unfinished
  <2>1. q # p
    BY <1>3, <1>5
  <2> QED
    BY <1>5, <2>1 DEF IInv, DiskIsRight, OwnIsApart, Unfinished
<1>9. FilesHaveRecords'
  <2>1. \A q \in Packs : HasRecord(disk, q) => HasRecord(disk, q)'
    BY <1>3, <1>5 DEF HasRecord
  <2> QED
    BY <1>5, <1>7, <2>1 DEF IInv, DiskIsRight, FilesHaveRecords, InPlace
<1>10. RecordsAgree' /\ DependenciesPresent' /\ RemovalFits'
  <2>1. UNCHANGED <<rewound, blind>>
    BY <1>4 DEF past
  <2> QED
    BY <1>5, <1>7, <2>1, RestoredSame DEF IInv, Types, DiskIsRight, RemovalFits
<1>11. DiskIsRight'
  BY <1>8, <1>9, <1>10 DEF DiskIsRight
<1>12. RestFits' /\ UNCHANGED <<catalog, screen, phase>>
  BY <1>4, <1>5, RestIs DEF Elsewhere
<1>13. CASE Advance(t, "verify") /\ UNCHANGED guard /\ job[t].task = "update"
  <2>1. PICK j \in Job :
            /\ job' = [job EXCEPT ![t] = j] /\ JobFits(j) /\ j.task \in DOMAIN StepsOf
            /\ j.task = job[t].task /\ j.at = "verify" /\ j.pack = job[t].pack
            /\ j.release = job[t].release /\ j.plan = job[t].plan /\ j.had = job[t].had
    <3>1. "verify" \in StepsOf[job[t].task] /\ "verify" \in Steps
      BY <1>13 DEF StepsOf, Steps
    <3> QED
      BY <1>1, <1>2, <1>13, <3>1, OperationAdvances DEF IInv
  <2>2. FreshFits(j)' /\ UpdateFits(j)' /\ RemoveFits(j)'
    BY <1>13, <2>1 DEF FreshFits, UpdateFits, RemoveFits
  <2>3. ApplyFits(j)'
    <3>1. Settled(j.at)' => Settled(job[t].at)
      BY <1>3, <1>4 DEF Settled, past
    <3>2. game' = game
      BY <1>4 DEF Elsewhere
    <3> QED
      BY <1>1, <1>2, <1>5, <1>7, <1>13, <2>1, <3>1, <3>2
         DEF OperationFits, ApplyFits, Satisfied
  <2>4. OperationFits(j)'
    BY <2>2, <2>3 DEF OperationFits
  <2> QED
    BY <1>1, <1>6, <1>11, <1>12, <1>13, <2>1, <2>4, StepKeeps
<1>14. CASE End(t, TRUE)
  BY <1>1, <1>6, <1>11, <1>12, <1>14, ReportKeeps
<1> QED
  BY <1>13, <1>14 DEF Tidy

(* A step of an operation fails, with or without a rollback. *)
LEMMA FailKeeps ==
  ASSUME IInv, NEW t \in Threads, Fail(t)
  PROVE  IInv'
<1>1. Operating(t) /\ End(t, FALSE) /\ own' = own /\ past' = past /\ Elsewhere
  BY DEF Fail
<1>2. StoreFits' /\ DiskIsRight'
  <2>1. CASE UNCHANGED <<disk, transaction>>
    BY <1>1, <2>1, DiskStaysRight DEF store, IInv, Types
  <2>2. CASE disk' = Restored /\ transaction' = Closed
    <3>1. blind' = blind /\ rewound' = rewound
      BY <1>1 DEF past
    <3> QED
      BY <1>1, <2>2, <3>1, RecoveringKeeps DEF IInv, Types
  <2> QED
    BY <2>1, <2>2 DEF Fail
<1>3. RestFits' /\ UNCHANGED <<catalog, screen, phase>>
  BY <1>1, RestIs, BoundsKept DEF Fail, Elsewhere
<1> QED
  BY <1>1, <1>2, <1>3, ReportKeeps

(* What is known of an operation between the opening and the closing of its transaction. *)
LEMMA ApplyIs ==
  ASSUME IInv, NEW t \in Threads, job[t].task \in Changing,
         job[t].at \in {"files", "record", "finish"}
  PROVE  /\ Operating(t) /\ job[t] \in Job /\ JobFits(job[t]) /\ OperationFits(job[t])
         /\ job[t].pack \in Packs /\ job[t].plan \in SUBSET Files
         /\ transaction.open /\ transaction.pack = job[t].pack /\ transaction.plan = job[t].plan
         /\ transaction.directory \in Directories
         /\ job[t].task \in {"fresh", "update"} =>
               /\ job[t].release \in Numbers(job[t].pack) /\ job[t].release # 0
               /\ transaction.directory = DirectoryOf(job[t].pack, job[t].release)
         /\ job[t].task = "remove" =>
               /\ job[t].release = 0
               /\ job[t].installed \in Numbers(job[t].pack)
               /\ job[t].plan = Listed(job[t].pack, job[t].installed)
               /\ transaction.directory = DirectoryOf(job[t].pack, job[t].installed)
         /\ Settled(job[t].at) <=> ~rewound
         /\ \A e \in Directories, f \in Files :
               ~(e = transaction.directory /\ f \in transaction.plan) =>
                   Restored.files[e][f] = disk.files[e][f]
<1>1. Operating(t)
  BY DEF Operating, Changing
<1>2. /\ job[t] \in Job /\ JobFits(job[t]) /\ OperationFits(job[t]) /\ job[t].pack \in Packs
      /\ job[t].task \in {"fresh", "update"} => job[t].release \in Numbers(job[t].pack)
  BY <1>1, OperationIs
<1>3. job[t].plan \in SUBSET Files
  BY <1>2 DEF Job
<1>4. /\ transaction.open /\ transaction.pack = job[t].pack /\ transaction.plan = job[t].plan
      /\ job[t].task \in {"fresh", "update"} =>
            transaction.directory = DirectoryOf(job[t].pack, job[t].release)
  BY <1>2 DEF OperationFits, ApplyFits
<1>5. /\ job[t].task \in {"fresh", "update"} => job[t].release # 0
      /\ job[t].task = "remove" =>
            /\ job[t].release = 0
            /\ job[t].installed \in Numbers(job[t].pack)
            /\ job[t].plan = Listed(job[t].pack, job[t].installed)
            /\ transaction.directory = DirectoryOf(job[t].pack, job[t].installed)
  BY <1>2 DEF JobFits, OperationFits, RemoveFits
<1>6. transaction.directory \in Directories
  BY DEF IInv, Types, StoreFits, Transaction
<1>7. Settled(job[t].at) <=> ~rewound
  BY DEF Settled
<1>8. \A e \in Directories, f \in Files :
         ~(e = transaction.directory /\ f \in transaction.plan) =>
             Restored.files[e][f] = disk.files[e][f]
  BY <1>4, RestoredIs DEF IInv, Types, RestoredFits
<1> QED
  BY <1>1, <1>2, <1>3, <1>4, <1>5, <1>6, <1>7, <1>8

(* The files of the plan are replaced or removed: they are in the transaction, so a
   recovery would leave the same disk as before. *)
LEMMA CommitFilesKeeps ==
  ASSUME IInv, NEW t \in Threads, CommitFiles(t)
  PROVE  IInv'
<1>0. PICK p, n : p = job[t].pack /\ n = job[t].release
  OBVIOUS
<1>1. job[t].task \in Changing /\ job[t].at = "files"
  BY DEF CommitFiles, At
<1>2. /\ Operating(t) /\ job[t] \in Job /\ JobFits(job[t]) /\ OperationFits(job[t]) /\ p \in Packs
      /\ job[t].plan \in SUBSET Files
      /\ transaction.open /\ transaction.pack = p /\ transaction.plan = job[t].plan
      /\ transaction.directory \in Directories
      /\ job[t].task \in {"fresh", "update"} =>
            n \in Numbers(p) /\ n # 0 /\ transaction.directory = DirectoryOf(p, n)
      /\ job[t].task = "remove" =>
            n = 0 /\ transaction.directory = DirectoryOf(p, job[t].installed)
      /\ Settled(job[t].at) <=> ~rewound
  BY <1>0, <1>1, ApplyIs
<1>3. DiskKnown(disk) /\ disk.files \in [Directories -> [Files -> Contents]]
  BY DiskIs DEF IInv, Types, StoreFits
<1>4. /\ transaction.before.record[p] = disk.record[p]
      /\ ~rewound /\ disk.record[p] # 0 => Dropped(p, disk.record[p], n) \subseteq job[t].plan
  <2>1. transaction.before.record[p] = disk.record[p]
    BY <1>0, <1>1, <1>2 DEF OperationFits, ApplyFits
  <2> SUFFICES ASSUME ~rewound, disk.record[p] # 0
               PROVE  Dropped(p, disk.record[p], n) \subseteq job[t].plan
    BY <2>1
  <2>2. CASE job[t].task = "update"
    BY <1>0, <1>1, <1>2, <2>2 DEF OperationFits, UpdateFits
  <2>3. CASE job[t].task = "remove"
    <3>1. disk.record[p] = job[t].installed /\ job[t].plan = Listed(p, job[t].installed)
      BY <1>0, <1>1, <1>2, <2>3 DEF OperationFits, RemoveFits, JobFits
    <3> QED
      BY <3>1 DEF Dropped
  <2>4. CASE job[t].task = "fresh"
    BY <1>0, <1>1, <1>2, <2>4 DEF OperationFits, FreshFits
  <2> QED
    BY <1>1, <2>2, <2>3, <2>4 DEF Changing
<1>5. PICK d \in Directories : d = transaction.directory
  BY <1>0, <1>2
<1>6. DirectoryFor(t) = d
  BY <1>0, <1>1, <1>2, <1>5 DEF DirectoryFor, PackOf, ReleaseOf, Changing
<1>7. PICK target : target = IF job[t].task = "remove" THEN NoFiles ELSE Target(p, n)
  OBVIOUS
<1>8. target \in [Files -> Contents]
  BY <1>0, <1>1, <1>2, <1>7, NoFilesIs, ReleaseIs DEF Changing
<1>9. PICK g : g = [f \in Files |-> IF f \in job[t].plan THEN target[f] ELSE disk.files[d][f]]
  OBVIOUS
<1>10. /\ g \in [Files -> Contents]
       /\ \A f \in job[t].plan : g[f] = target[f]
       /\ \A f \in Files \ job[t].plan : g[f] = disk.files[d][f]
  BY <1>0, <1>2, <1>3, <1>8, <1>9
<1>11. disk' = [disk EXCEPT !.files[d] = g] /\ Advance(t, "record") /\ DiskOnly
  <2>1. disk' = [disk EXCEPT !.files[d] =
                    [f \in Files |-> IF f \in job[t].plan THEN target[f] ELSE @[f]]]
    BY <1>0, <1>6, <1>7 DEF CommitFiles, PackOf, ReleaseOf
  <2> QED
    BY <1>0, <1>3, <1>9, <2>1 DEF CommitFiles
<1>12. PICK j \in Job :
            /\ job' = [job EXCEPT ![t] = j] /\ JobFits(j) /\ j.task \in DOMAIN StepsOf
            /\ j.task = job[t].task /\ j.at = "record" /\ j.pack = p
            /\ j.release = n /\ j.installed = job[t].installed
            /\ j.plan = job[t].plan /\ j.had = job[t].had
  <2>1. "record" \in StepsOf[job[t].task] /\ "record" \in Steps
    BY <1>0, <1>1 DEF Changing, StepsOf, Steps
  <2> QED
    BY <1>0, <1>1, <1>2, <1>11, <2>1, OperationAdvances DEF IInv
<1>13. /\ DiskKnown(disk)'
       /\ disk'.record = disk.record /\ disk'.pending = disk.pending
       /\ disk'.files[d] = g /\ \A e \in Directories \ {d} : disk'.files[e] = disk.files[e]
  BY <1>0, <1>3, <1>10, <1>11, FilesChanged
<1>14. UNCHANGED <<transaction, own, game, rewound, blind>>
  BY <1>0, <1>11 DEF DiskOnly, Elsewhere, past
<1>15. StoreFits'
  BY <1>0, <1>13, <1>14 DEF IInv, Types, StoreFits, DiskKnown, Known
<1>16. RestoredFits /\ RestoredFits'
  BY <1>0, <1>15, RestoredIs, RestoredNext DEF IInv, Types
<1>17. /\ \A q \in Packs : /\ Restored'.record[q] = Restored.record[q]
                           /\ Restored'.pending[q] = Restored.pending[q]
       /\ \A e \in Directories, f \in Files : Restored'.files[e][f] = Restored.files[e][f]
  <2>1. \A q \in Packs : /\ Restored'.record[q] = Restored.record[q]
                         /\ Restored'.pending[q] = Restored.pending[q]
    BY <1>0, <1>2, <1>13, <1>14, <1>16 DEF RestoredFits
  <2>2. ASSUME NEW e \in Directories, NEW f \in Files
        PROVE  Restored'.files[e][f] = Restored.files[e][f]
    <3>1. CASE e = d /\ f \in job[t].plan
      BY <1>0, <1>2, <1>5, <1>14, <1>16, <3>1 DEF RestoredFits
    <3>2. CASE ~(e = d /\ f \in job[t].plan)
      <4>1. disk'.files[e][f] = disk.files[e][f]
        BY <1>0, <1>10, <1>13, <3>2
      <4> QED
        BY <1>0, <1>2, <1>5, <1>14, <1>16, <3>2, <4>1 DEF RestoredFits
    <3> QED
      BY <3>1, <3>2
  <2> QED
    BY <2>1, <2>2
<1>18. HasRecord(disk, p)
  BY <1>0, <1>1, <1>2 DEF OperationFits, ApplyFits
<1>19. OwnIsApart'
  <2> SUFFICES ASSUME NEW q \in Packs
               PROVE  /\ Unfinished(disk, q)' => own[DirectoryOf(q, disk'.pending[q])] # "kept"
                      /\ Unfinished(Restored, q)'
                           => own[DirectoryOf(q, Restored'.pending[q])] # "kept"
    BY <1>0, <1>14 DEF OwnIsApart, Unfinished
  <2> QED
    BY <1>0, <1>13, <1>17 DEF IInv, DiskIsRight, OwnIsApart, Unfinished
<1>20. FilesHaveRecords'
  <2>1. ASSUME NEW q \in Packs, InPlace(q)'
        PROVE  HasRecord(disk, q)
    <3>1. DirectoryOf(q, 1) \in Directories /\ 1 \in Numbers(q)
      BY FirstIs, ReleaseIs
    <3>2. CASE q = p
      BY <1>0, <1>18, <3>2
    <3>3. CASE q # p
      <4>1. PICK k \in Numbers(p) : d = DirectoryOf(p, k)
        BY <1>0, <1>2, <1>5 DEF IInv, Types, StoreFits
      <4>2. DirectoryOf(q, 1) # d
        BY <1>0, <1>2, <3>1, <3>3, <4>1, Apart
      <4>3. InPlace(q)
        BY <1>0, <1>13, <2>1, <3>1, <4>2 DEF InPlace
      <4> QED
        BY <4>3 DEF IInv, DiskIsRight, FilesHaveRecords
    <3> QED
      BY <3>2, <3>3
  <2> QED
    BY <1>0, <1>13, <1>14, <2>1 DEF IInv, DiskIsRight, FilesHaveRecords, HasRecord
<1>21. RemovalFits'
  BY <1>0, <1>13, <1>14 DEF IInv, DiskIsRight, RemovalFits
<1>22. DiskIsRight'
  BY <1>0, <1>14, <1>17, <1>19, <1>20, <1>21, RestoredSame DEF IInv, Types, DiskIsRight
<1>23. ~rewound /\ job[t].task \in {"fresh", "update"} => Agree(disk, p, n, Files)'
  <2> SUFFICES ASSUME ~rewound, job[t].task \in {"fresh", "update"},
                      NEW f \in Files \cap Listed(p, n)
               PROVE  disk'.files[d][f] \in {Damaged, Target(p, n)[f]}
    BY <1>0, <1>2, <1>5 DEF Agree
  <2>1. Agree(disk, p, n, Files \ job[t].plan)
    BY <1>0, <1>1, <1>2 DEF OperationFits, FreshFits, UpdateFits, Agree
  <2>2. CASE f \in job[t].plan
    BY <1>0, <1>7, <1>10, <1>13, <2>2
  <2>3. CASE f \notin job[t].plan
    BY <1>0, <1>2, <1>5, <1>10, <1>13, <2>1, <2>3 DEF Agree
  <2> QED
    BY <2>2, <2>3
<1>24. /\ job[t].task = "remove" => \A f \in job[t].plan : disk'.files[d][f] = NoFile
       /\ ~rewound /\ disk.record[p] # 0 =>
             \A f \in Dropped(p, disk.record[p], n) : disk'.files[d][f] = NoFile
  <2>1. ASSUME job[t].task = "remove", NEW f \in job[t].plan
        PROVE  disk'.files[d][f] = NoFile
    BY <1>0, <1>2, <1>7, <1>10, <1>13, <2>1, NoFilesIs DEF NoFile
  <2>2. ASSUME ~rewound, disk.record[p] # 0, NEW f \in Dropped(p, disk.record[p], n)
        PROVE  disk'.files[d][f] = NoFile
    <3>1. f \in job[t].plan
      BY <1>4, <2>2
    <3>2. CASE job[t].task = "remove"
      BY <2>1, <3>1, <3>2
    <3>3. CASE job[t].task # "remove"
      <4>1. n # 0 /\ f \in Files /\ f \notin Listed(p, n)
        BY <1>0, <1>1, <1>2, <2>2, <3>3 DEF Dropped, Listed, Changing
      <4>2. target[f] = NoFile
        BY <1>7, <3>3, <4>1 DEF Listed
      <4> QED
        BY <1>10, <1>13, <3>1, <4>2
    <3> QED
      BY <3>2, <3>3
  <2> QED
    BY <2>1, <2>2
<1>25. OperationFits(j)'
  <2>1. Settled(j.at)' => ~rewound
    BY <1>0, <1>14 DEF Settled
  <2>2. FreshFits(j)'
    <3>1. j.task = "fresh" /\ Settled(j.at)' => disk.record[p] = 0
      BY <1>0, <1>1, <1>2, <1>12, <1>14, <2>1 DEF OperationFits, FreshFits, Settled
    <3> QED
      BY <1>0, <1>12, <1>13, <1>23, <2>1, <3>1 DEF FreshFits
  <2>3. UpdateFits(j)'
    BY <1>0, <1>12, <1>23, <2>1 DEF UpdateFits
  <2>4. RemoveFits(j)'
    BY <1>0, <1>1, <1>2, <1>4, <1>5, <1>12, <1>13, <1>14, <1>24, <2>1 DEF OperationFits, RemoveFits
  <2>5. ApplyFits(j)'
    <3>1. (j.task \in {"fresh", "update"} /\ Settled(j.at) => Satisfied(j.pack, j.release))'
      BY <1>0, <1>1, <1>2, <1>12, <1>13, <1>14, <2>1 DEF OperationFits, ApplyFits, Satisfied
    <3> QED
      BY <1>0, <1>2, <1>4, <1>5, <1>12, <1>13, <1>14, <1>18, <1>24, <2>1, <3>1
         DEF ApplyFits, HasRecord
  <2> QED
    BY <2>2, <2>3, <2>4, <2>5 DEF OperationFits
<1>26. RestFits' /\ UNCHANGED <<catalog, screen, phase, guard>>
  BY <1>0, <1>11, RestIs DEF DiskOnly, Elsewhere, IInv, Types, RestFits
<1> QED
  BY <1>0, <1>2, <1>12, <1>15, <1>22, <1>25, <1>26, StepKeeps

(* The records follow the files. *)
LEMMA CommitRecordKeeps ==
  ASSUME IInv, NEW t \in Threads, CommitRecord(t)
  PROVE  IInv'
<1>0. PICK p, n : p = job[t].pack /\ n = job[t].release
  OBVIOUS
<1>1. job[t].task \in Changing /\ job[t].at = "record"
  BY DEF CommitRecord, At
<1>2. /\ Operating(t) /\ job[t] \in Job /\ JobFits(job[t]) /\ OperationFits(job[t]) /\ p \in Packs
      /\ transaction.open /\ transaction.pack = p /\ transaction.plan = job[t].plan
      /\ job[t].task \in {"fresh", "update"} =>
            n \in Numbers(p) /\ n # 0 /\ transaction.directory = DirectoryOf(p, n)
      /\ job[t].task = "remove" =>
            /\ n = 0 /\ job[t].installed \in Numbers(p)
            /\ job[t].plan = Listed(p, job[t].installed)
            /\ transaction.directory = DirectoryOf(p, job[t].installed)
      /\ Settled(job[t].at) <=> ~rewound
  BY <1>0, <1>1, ApplyIs
<1>3. DiskKnown(disk)
  BY DEF IInv, Types, StoreFits
<1>4. job[t].task = "remove" =>
         /\ ~rewound => disk.record[p] = job[t].installed
         /\ \A f \in Listed(p, job[t].installed) :
               disk.files[DirectoryOf(p, job[t].installed)][f] = NoFile
  BY <1>0, <1>1, <1>2 DEF OperationFits, RemoveFits
<1>5. PICK m : m = IF job[t].task = "remove" THEN 0 ELSE disk.pending[p]
  OBVIOUS
<1>6. (n = 0 \/ n \in Numbers(p)) /\ (m = 0 \/ m \in Numbers(p))
  <2>1. disk.pending[p] = 0 \/ disk.pending[p] \in Numbers(p)
    BY <1>0, <1>2, <1>3, KnownIs DEF DiskKnown
  <2> QED
    BY <1>0, <1>1, <1>2, <1>5, <2>1 DEF Changing
<1>7. /\ disk' = [disk EXCEPT !.record[p] = n, !.pending[p] = m]
      /\ Advance(t, "finish") /\ DiskOnly
  BY <1>0, <1>5 DEF CommitRecord, PackOf, ReleaseOf
<1>8. PICK j \in Job :
            /\ job' = [job EXCEPT ![t] = j] /\ JobFits(j) /\ j.task \in DOMAIN StepsOf
            /\ j.task = job[t].task /\ j.at = "finish" /\ j.pack = p
            /\ j.release = n /\ j.installed = job[t].installed
            /\ j.plan = job[t].plan /\ j.had = job[t].had
  <2>1. "finish" \in StepsOf[job[t].task] /\ "finish" \in Steps
    BY <1>0, <1>1 DEF Changing, StepsOf, Steps
  <2> QED
    BY <1>0, <1>1, <1>2, <1>7, <2>1, OperationAdvances DEF IInv
<1>9. /\ DiskKnown(disk)' /\ disk'.files = disk.files
      /\ disk'.record[p] = n /\ \A q \in Packs \ {p} : disk'.record[q] = disk.record[q]
      /\ disk'.pending[p] = m /\ \A q \in Packs \ {p} : disk'.pending[q] = disk.pending[q]
  <2>1. p \in Packs
    BY <1>0, <1>2
  <2>2. disk' = [disk EXCEPT !.record[p] = n, !.pending[p] = m]
    BY <1>7
  <2> QED
    BY <1>3, <1>6, <2>1, <2>2, RecordsChanged, Zenon
<1>10. UNCHANGED <<transaction, own, game, rewound, blind>>
  BY <1>0, <1>7 DEF DiskOnly, Elsewhere, past
<1>11. StoreFits'
  BY <1>0, <1>9, <1>10 DEF IInv, Types, StoreFits, DiskKnown, Known
<1>12. RestoredFits /\ RestoredFits'
  BY <1>0, <1>11, RestoredIs, RestoredNext DEF IInv, Types
<1>13. /\ \A q \in Packs : /\ Restored'.record[q] = Restored.record[q]
                           /\ Restored'.pending[q] = Restored.pending[q]
       /\ \A e \in Directories, f \in Files : Restored'.files[e][f] = Restored.files[e][f]
  BY <1>0, <1>2, <1>9, <1>10, <1>12 DEF RestoredFits
<1>14. (n = 0 <=> job[t].task = "remove") /\ (n = 0 => m = 0)
  BY <1>0, <1>1, <1>2, <1>5 DEF Changing
<1>15. OwnIsApart'
  <2> SUFFICES ASSUME NEW q \in Packs
               PROVE  /\ Unfinished(disk, q)' => own[DirectoryOf(q, disk'.pending[q])] # "kept"
                      /\ Unfinished(Restored, q)'
                           => own[DirectoryOf(q, Restored'.pending[q])] # "kept"
    BY <1>0, <1>10 DEF OwnIsApart, Unfinished
  <2>1. CASE q = p
    BY <1>0, <1>9, <1>13, <1>14, <2>1 DEF IInv, DiskIsRight, OwnIsApart, Unfinished
  <2>2. CASE q # p
    BY <1>0, <1>9, <1>13, <2>2 DEF IInv, DiskIsRight, OwnIsApart, Unfinished
  <2> QED
    BY <2>1, <2>2
<1>16. FilesHaveRecords'
  <2>1. ASSUME NEW q \in Packs, InPlace(q)
        PROVE  HasRecord(disk, q)'
    <3>1. CASE q # p
      BY <1>0, <1>9, <2>1, <3>1 DEF IInv, DiskIsRight, FilesHaveRecords, HasRecord
    <3>2. CASE q = p
      <4>1. job[t].task # "remove"
        <5> SUFFICES ASSUME job[t].task = "remove" PROVE FALSE
          OBVIOUS
        <5>1. DirectoryOf(p, job[t].installed) = DirectoryOf(p, 1)
          BY <1>2, <2>1, <3>2 DEF InPlace, Stays
        <5>2. InEvery(p) \subseteq Listed(p, job[t].installed)
          BY <1>2 DEF InEvery
        <5> QED
          BY <1>4, <2>1, <3>2, <5>1, <5>2 DEF InPlace
      <4> QED
        BY <1>0, <1>9, <1>14, <3>2, <4>1 DEF HasRecord
    <3> QED
      BY <3>1, <3>2
  <2> QED
    BY <1>0, <1>9, <1>10, <2>1 DEF IInv, DiskIsRight, FilesHaveRecords, InPlace, HasRecord
<1>17. RemovalFits'
  <2>1. transaction.before.record[p] = disk.record[p]
    BY <1>0, <1>1, <1>2 DEF OperationFits, ApplyFits
  <2> QED
    BY <1>0, <1>2, <1>4, <1>9, <1>10, <1>14, <2>1 DEF RemovalFits
<1>18. DiskIsRight'
  BY <1>0, <1>10, <1>13, <1>15, <1>16, <1>17, RestoredSame DEF IInv, Types, DiskIsRight
<1>19. OperationFits(j)'
  <2>1. Settled(j.at)' => ~rewound
    BY <1>0, <1>10 DEF Settled
  <2>2. FreshFits(j)'
    BY <1>0, <1>1, <1>2, <1>8, <1>9, <2>1 DEF OperationFits, FreshFits, Agree
  <2>3. UpdateFits(j)'
    BY <1>0, <1>1, <1>2, <1>8, <1>9, <2>1 DEF OperationFits, UpdateFits, Agree
  <2>4. RemoveFits(j)'
    <3>1. ASSUME j.task = "remove", ~rewound, ~blind, NEW q \in Packs, disk'.record[q] # 0
          PROVE  p \notin DOMAIN Releases[q][disk'.record[q]].depends
      <4>1. q # p
        BY <1>0, <1>2, <1>8, <1>9, <3>1
      <4>2. disk.record[q] # 0 => p \notin DOMAIN Releases[q][disk.record[q]].depends
        BY <1>0, <1>1, <1>2, <1>8, <3>1 DEF OperationFits, RemoveFits
      <4> QED
        BY <1>0, <1>9, <3>1, <4>1, <4>2
    <3> QED
      BY <1>0, <1>2, <1>8, <1>10, <2>1, <3>1 DEF RemoveFits
  <2>5. ApplyFits(j)'
    <3>1. ASSUME j.task \in {"fresh", "update"}, ~rewound
          PROVE  Satisfied(p, n)'
      <4>1. Satisfied(p, n)
        BY <1>0, <1>1, <1>2, <1>8, <3>1 DEF OperationFits, ApplyFits
      <4>2. DOMAIN Releases[p][n].depends \subseteq {Game, BuiltIn} \cup (Packs \ {p})
        BY <1>0, <1>2, <1>8, <3>1, ReleaseIs
      <4>3. p \notin DOMAIN Releases[p][n].depends
        BY <1>0, <1>2, <4>2, IdsAreApart
      <4> QED
        BY <1>0, <1>9, <1>10, <4>1, <4>3 DEF Satisfied
    <3> QED
      BY <1>0, <1>1, <1>2, <1>8, <1>9, <1>10, <2>1, <3>1 DEF OperationFits, ApplyFits
  <2> QED
    BY <2>2, <2>3, <2>4, <2>5 DEF OperationFits
<1>20. RestFits' /\ UNCHANGED <<catalog, screen, phase, guard>>
  BY <1>0, <1>7, RestIs DEF DiskOnly, Elsewhere, IInv, Types, RestFits
<1> QED
  BY <1>0, <1>2, <1>8, <1>11, <1>18, <1>19, <1>20, StepKeeps

(* The transaction is closed. Only now does the disk a recovery would leave become that
   of the operation: its pack has the files and the requirements of its record, and no
   other pack misses it. *)
LEMMA FinishKeeps ==
  ASSUME IInv, NEW t \in Threads, Finish(t)
  PROVE  IInv'
<1>0. PICK p, n : p = job[t].pack /\ n = job[t].release
  OBVIOUS
<1>1. /\ job[t].task \in Changing /\ job[t].at = "finish" /\ transaction' = Closed
      /\ Elsewhere /\ UNCHANGED <<disk, own, past, faults>>
  BY DEF Finish, At
<1>2. /\ Operating(t) /\ job[t] \in Job /\ JobFits(job[t]) /\ OperationFits(job[t]) /\ p \in Packs
      /\ transaction.open /\ transaction.pack = p
      /\ job[t].task \in {"fresh", "update"} =>
            n \in Numbers(p) /\ n # 0 /\ transaction.directory = DirectoryOf(p, n)
      /\ job[t].task = "remove" => n = 0
      /\ Settled(job[t].at) <=> ~rewound
  BY <1>0, <1>1, ApplyIs
<1>3. disk.record[p] = n
  BY <1>0, <1>1, <1>2 DEF OperationFits, ApplyFits
<1>4. /\ job[t].task \in {"fresh", "update"} /\ ~rewound =>
            Agree(disk, p, n, Files) /\ Satisfied(p, n)
      /\ job[t].task = "remove" /\ ~rewound /\ ~blind =>
            \A q \in Packs : disk.record[q] # 0 =>
                p \notin DOMAIN Releases[q][disk.record[q]].depends
  BY <1>0, <1>1, <1>2 DEF OperationFits, FreshFits, UpdateFits, RemoveFits, ApplyFits
<1>5. DiskKnown(disk) /\ DiskKnown(disk)'
  BY <1>1 DEF IInv, Types, StoreFits, DiskKnown, Known
<1>6. StoreFits'
  <2>1. /\ transaction' \in Transaction /\ DiskKnown(transaction.before)'
        /\ \E k \in Numbers(transaction'.pack) :
              transaction'.directory = DirectoryOf(transaction'.pack, k)
    BY <1>1, ClosedIs DEF DiskKnown, Known
  <2> QED
    BY <1>1, <1>5, <2>1 DEF IInv, Types, StoreFits
<1>7. ~transaction'.open /\ disk' = disk /\ own' = own /\ rewound' = rewound /\ blind' = blind
  BY <1>1, ClosedIs DEF past
<1>8. RestoredFits /\ Restored' = disk
  BY <1>6, <1>7, RestoredIs, RestoredNext DEF IInv, Types, RestoredFits
<1>9. \A q \in Packs \ {p} : Restored.record[q] = disk.record[q]
  BY <1>2, <1>8 DEF RestoredFits
<1>10. OwnIsApart' /\ FilesHaveRecords' /\ RemovalFits'
  BY <1>7, <1>8 DEF IInv, DiskIsRight, OwnIsApart, Unfinished, FilesHaveRecords, InPlace,
                    HasRecord, RemovalFits
<1>11. RecordsAgree'
  <2> SUFFICES ASSUME ~rewound, NEW q \in Packs, disk.record[q] # 0
               PROVE  Agree(disk, q, disk.record[q], Files)
    BY <1>7, <1>8 DEF RecordsAgree, Agree
  <2>1. CASE q = p
    BY <1>1, <1>2, <1>3, <1>4, <2>1 DEF Changing
  <2>2. CASE q # p
    <3>1. Agree(Restored, q, disk.record[q], Files)
      BY <1>9, <2>2 DEF IInv, DiskIsRight, RecordsAgree
    <3>2. disk.record[q] \in Numbers(q) /\ DirectoryOf(q, disk.record[q]) \in Directories
      BY <1>5, KnownIs, ReleaseIs DEF DiskKnown
    <3>3. PICK k \in Numbers(p) : transaction.directory = DirectoryOf(p, k)
      BY <1>2 DEF IInv, Types, StoreFits
    <3>4. DirectoryOf(q, disk.record[q]) # transaction.directory
      BY <1>2, <2>2, <3>2, <3>3, Apart
    <3>5. \A f \in Files : Restored.files[DirectoryOf(q, disk.record[q])][f]
                              = disk.files[DirectoryOf(q, disk.record[q])][f]
      BY <1>2, <1>8, <3>2, <3>4 DEF RestoredFits
    <3> QED
      BY <3>1, <3>5 DEF Agree
  <2> QED
    BY <2>1, <2>2
<1>12. DependenciesPresent'
  <2> SUFFICES ASSUME ~rewound, ~blind, NEW q \in Packs, disk.record[q] # 0,
                      NEW r \in Packs \cap DOMAIN Releases[q][disk.record[q]].depends
               PROVE  disk.record[r] # 0
    BY <1>7, <1>8 DEF DependenciesPresent
  <2>1. disk.record[q] \in Numbers(q)
    BY <1>5, KnownIs DEF DiskKnown
  <2>2. r # q
    BY <2>1, ReleaseIs, IdsAreApart
  <2>3. CASE q = p
    <3>1. Satisfied(p, n) /\ n = disk.record[q]
      BY <1>1, <1>2, <1>3, <1>4, <2>3 DEF Changing
    <3>2. disk.record[r] \in Releases[q][disk.record[q]].depends[r]
      BY <2>3, <3>1 DEF Satisfied
    <3> QED
      BY <2>1, <3>2, ReleaseIs
  <2>4. CASE q # p /\ r = p
    BY <1>1, <1>2, <1>3, <1>4, <2>4 DEF Changing
  <2>5. CASE q # p /\ r # p
    BY <1>9, <2>5 DEF IInv, DiskIsRight, DependenciesPresent
  <2> QED
    BY <2>3, <2>4, <2>5
<1>13. DiskIsRight'
  BY <1>10, <1>11, <1>12 DEF DiskIsRight
<1>14. RestFits' /\ UNCHANGED <<catalog, screen, phase>>
  BY <1>1, RestIs DEF Elsewhere, IInv, Types, RestFits
<1>15. CASE End(t, TRUE)
  BY <1>2, <1>6, <1>13, <1>14, <1>15, ReportKeeps
<1>16. CASE job[t].task # "remove" /\ Advance(t, "tidy") /\ UNCHANGED guard
  <2>1. PICK j \in Job :
            /\ job' = [job EXCEPT ![t] = j] /\ JobFits(j) /\ j.task \in DOMAIN StepsOf
            /\ j.task = job[t].task /\ j.at = "tidy" /\ j.pack = p
            /\ j.release = n /\ j.plan = job[t].plan /\ j.had = job[t].had
    <3>1. /\ "tidy" \in Steps /\ job[t].task \in {"fresh", "update"}
          /\ "finish" \in StepsOf[job[t].task]
      BY <1>1, <1>16 DEF Changing, StepsOf, Steps
    <3>2. "tidy" \in StepsOf[job[t].task]
      BY <3>1 DEF StepsOf
    <3> QED
      BY <1>0, <1>2, <1>16, <3>1, <3>2, OperationAdvances DEF IInv
  <2>2. job[t].task \in {"fresh", "update"}
    BY <1>1, <1>16 DEF Changing
  <2>3. FreshFits(j)' /\ UpdateFits(j)' /\ RemoveFits(j)'
    BY <2>1, <2>2 DEF FreshFits, UpdateFits, RemoveFits
  <2>4. ApplyFits(j)'
    <3>1. ~rewound => Satisfied(p, n)'
      BY <1>1, <1>4, <2>2 DEF Satisfied, Elsewhere
    <3> QED
      BY <1>3, <1>7, <2>1, <3>1 DEF ApplyFits, Settled
  <2>5. OperationFits(j)'
    BY <2>3, <2>4 DEF OperationFits
  <2>6. UNCHANGED <<catalog, screen, phase, guard>>
    BY <1>14, <1>16
  <2> QED
    BY <1>2, <1>6, <1>13, <1>14, <2>1, <2>5, <2>6, StepKeeps
<1> QED
  BY <1>15, <1>16 DEF Finish

(* Nothing happens. *)
LEMMA StutterKeeps ==
  ASSUME IInv, UNCHANGED vars
  PROVE  IInv'
<1>1. UNCHANGED <<store, memory, past, game, published, bounds>>
  BY DEF vars
<1>2. StoreFits' /\ DiskIsRight'
  BY <1>1, DiskStaysRight DEF IInv, Types
<1>3. RestFits'
  BY <1>1 DEF IInv, Types, RestFits, Known, past, bounds
<1>4. \A j \in Job : OperationFits(j) => OperationFits(j)'
  BY <1>1, OperationsKept DEF store, past
<1> QED
  BY <1>1, <1>2, <1>3, <1>4, OthersKeep

(* Every step keeps the invariant. *)
LEMMA Step ==
  ASSUME IInv, [Next]_vars
  PROVE  IInv'
<1>1. CASE Open \/ Exit \/ Play \/ BackToReady \/ UpdateGame
  BY <1>1, OpenKeeps, ExitKeeps, PlayKeeps, BackToReadyKeeps, UpdateGameKeeps
<1>2. ASSUME NEW t \in Threads, Scan(t)
      PROVE  IInv'
  BY <1>2, ScanRecoversKeeps, FetchKeeps, FetchFailsKeeps, ShowKeeps DEF Scan
<1>3. ASSUME NEW t \in Threads, Operate(t)
      PROVE  IInv'
  <2>1. CASE Resolve(t) \/ Fresh(t) \/ Clear(t) \/ Promote(t) \/ CheckRemove(t)
    BY <2>1, ResolveKeeps, FreshKeeps, ClearKeeps, PromoteKeeps, CheckRemoveKeeps
  <2>2. CASE Prepare(t) \/ Begin(t) \/ CommitFiles(t) \/ CommitRecord(t)
    BY <2>2, PrepareKeeps, BeginKeeps, CommitFilesKeeps, CommitRecordKeeps
  <2>3. CASE Finish(t) \/ Tidy(t) \/ Verify(t) \/ Fail(t) \/ ShowOutcome(t)
    BY <2>3, FinishKeeps, TidyKeeps, VerifyKeeps, FailKeeps, ShowOutcomeKeeps
  <2> QED
    BY <1>3, <2>1, <2>2, <2>3 DEF Operate
<1>4. ASSUME NEW t \in Threads, Manage(t) \/ RetryScan(t)
      PROVE  IInv'
  BY <1>4, ManageKeeps, RetryScanKeeps
<1>5. ASSUME NEW t \in Threads, NEW p \in Packs, StartInstall(t, p) \/ StartRemove(t, p)
      PROVE  IInv'
  BY <1>5, StartInstallKeeps, StartRemoveKeeps
<1>6. ASSUME NEW p \in Packs, Publish(p)
      PROVE  IInv'
  BY <1>6, PublishKeeps
<1>7. ASSUME NEW d \in Directories, Customize(d)
      PROVE  IInv'
  BY <1>7, CustomizeKeeps
<1>8. ASSUME NEW d \in Directories, NEW f \in Files, Damage(d, f)
      PROVE  IInv'
  BY <1>8, DamageKeeps
<1>9. CASE UNCHANGED vars
  BY <1>9, StutterKeeps
<1> QED
  BY <1>1, <1>2, <1>3, <1>4, <1>5, <1>6, <1>7, <1>8, <1>9 DEF Next

(* The invariant holds initially. *)
LEMMA InitFits == Init => IInv
<1> SUFFICES ASSUME Init PROVE IInv
  OBVIOUS
<1>1. /\ disk = NoDisk /\ transaction = Closed /\ ~transaction.open
      /\ job = [t \in Threads |-> Idle] /\ phase = "closed" /\ catalog = NoCatalog
      /\ guard = FALSE /\ screen = Busy /\ own = [d \in Directories |-> "none"]
  BY ClosedIs DEF Init, NoMemory
<1>2. StoreFits
  BY <1>1, NoDiskIs, ClosedIs DEF StoreFits
<1>3. \A t \in Threads : job[t] = Idle /\ ~Operating(t)
  BY <1>1, JobsAre DEF Operating
<1>4. MemoryFits
  BY <1>1, <1>3, JobsAre, NoCatalogIs DEF MemoryFits, Busy
<1>5. RestFits
  <2>1. Known(published)
    BY LastIs, PacksHaveReleases DEF Init, Listing, Known
  <2>2. game = 1 /\ faults = 0 /\ changes = 0 /\ rewound = FALSE /\ blind = FALSE
    BY DEF Init
  <2>3. 1 \in 1 .. LastGame /\ 0 \in 0 .. MaxFaults /\ 0 \in 0 .. MaxChanges
    BY BoundsAreNatural
  <2> QED
    BY <2>1, <2>2, <2>3 DEF RestFits
<1>6. ScanIsAlone
  BY <1>1, <1>3, JobsAre DEF ScanIsAlone, NoMemory, At, Busy
<1>7. NeverStuck
  BY <1>1, <1>3 DEF NeverStuck
<1>8. Restored = disk /\ \A p \in Packs : disk.record[p] = 0 /\ disk.pending[p] = 0
  BY <1>1, NoCatalogIs DEF Restored, NoDisk
<1>9. \A d \in Directories, f \in Files : disk.files[d][f] = NoFile
  BY <1>1 DEF NoDisk, NoFiles
<1>10. DiskIsRight
  <2>1. FilesHaveRecords
    BY <1>1, <1>9, FirstIs, ReleaseIs DEF FilesHaveRecords, InPlace, InEvery
  <2> QED
    BY <1>1, <1>8, <2>1 DEF DiskIsRight, OwnIsApart, Unfinished, RecordsAgree, RemovalFits,
                            DependenciesPresent
<1> QED
  BY <1>2, <1>3, <1>4, <1>5, <1>6, <1>7, <1>10 DEF IInv, Types, OperationsFit

(* The invariant holds always. *)
LEMMA Invariance == Spec => []IInv
BY InitFits, Step, PTL DEF Spec

(* The variables keep their types, for every set of packs and releases and any number of
   threads, failures, kills and changes. *)
THEOREM TypeCorrect == Spec => []TypeOK
<1>1. IInv => TypeOK
  <2> SUFFICES ASSUME IInv PROVE TypeOK
    OBVIOUS
  <2>1. published \in Listing /\ catalog \in Listing
    BY KnownIs DEF IInv, Types, MemoryFits, RestFits
  <2> QED
    BY <2>1 DEF IInv, Types, StoreFits, DiskKnown, MemoryFits, RestFits, TypeOK
<1> QED
  BY <1>1, Invariance, PTL

(* What a pack's record says is on the disk, once an interrupted change has been undone,
   and an update or a removal closes its transaction when the files that the new release
   no longer has are gone: both unless an operation undid a transaction after making its
   plan.  And where a file of every release is in a pack's only directory there always is
   a record to go on from: wherever an install, an update or a removal is killed or
   fails, and whatever follows. *)
THEOREM FilesHaveTheirRecords == Spec => []FilesAreRecorded
<1>1. ASSUME IInv PROVE FilesAreRecorded
  <2>1. ASSUME NEW p \in Packs, ~rewound, Restored.record[p] # 0,
               NEW f \in Listed(p, Restored.record[p])
        PROVE  Restored.files[DirectoryOf(p, Restored.record[p])][f]
                  \in {Damaged, Target(p, Restored.record[p])[f]}
    <3>1. f \in Files
      BY <2>1 DEF Listed
    <3> QED
      BY <1>1, <2>1, <3>1 DEF IInv, DiskIsRight, RecordsAgree, Agree
  <2>2. ASSUME NEW p \in Packs, InPlace(p)
        PROVE  IsInstalled(p) \/ disk.pending[p] # 0
    BY <1>1, <2>2 DEF IInv, DiskIsRight, FilesHaveRecords, HasRecord, IsInstalled
  <2>3. ASSUME NEW t \in Threads, ~rewound, At(t, Changing, "finish"),
               transaction.before.record[PackOf(t)] # 0,
               NEW f \in Dropped(PackOf(t), transaction.before.record[PackOf(t)], ReleaseOf(t))
        PROVE  disk.files[transaction.directory][f] = NoFile
    <3>1. job[t].task \in Changing /\ job[t].at = "finish"
      BY <2>3 DEF At
    <3>2. OperationFits(job[t]) /\ Settled(job[t].at)
      BY <1>1, <2>3, <3>1, ApplyIs
    <3> QED
      BY <2>3, <3>1, <3>2 DEF OperationFits, ApplyFits, PackOf, ReleaseOf
  <2> QED
    BY <2>1, <2>2, <2>3 DEF FilesAreRecorded
<1> QED
  BY <1>1, Invariance, PTL

(* No installed pack misses a pack it depends on, after any interruptions of installs and
   removals, as long as each removal had a catalog that named its dependents and no
   operation undid a transaction after making its plan. *)
THEOREM DependenciesStay == Spec => []DependenciesPresent
<1>1. IInv => DependenciesPresent
  BY DEF IInv, DiskIsRight
<1> QED
  BY <1>1, Invariance, PTL

(* The operation guard is held by exactly one operation, on every path to its end, and a
   screen without choices is one that a thread is about to replace. *)
THEOREM GuardIsDropped == Spec => []NeverStuck
<1>1. IInv => NeverStuck
  BY DEF IInv
<1> QED
  BY <1>1, Invariance, PTL

(* install_fresh clears a directory that a pending record claims, or one without files;
   the user's own files are in neither. *)
LEMMA ClearKeepsOwn ==
  ASSUME IInv, NEW t \in Threads, Clear(t), NEW d \in Directories, own[d] = "kept"
  PROVE  own'[d] = "kept"
<1>1. job[t].task = "fresh" /\ job[t].at = "clear" /\ Operating(t)
  BY DEF Clear, At, Operating
<1>2. /\ OperationFits(job[t]) /\ job[t].pack \in Packs
      /\ job[t].release \in Numbers(job[t].pack)
  BY <1>1, OperationIs
<1>3. DirectoryFor(t) = DirectoryOf(job[t].pack, job[t].release)
  BY <1>1 DEF DirectoryFor, PackOf, ReleaseOf
<1>4. CASE own' = own
  BY <1>4
<1>5. CASE /\ own' = [own EXCEPT ![DirectoryFor(t)] = "none"]
           /\ job[t].had \/ ~HasFiles(DirectoryFor(t))
  <2>1. CASE d # DirectoryFor(t)
    BY <1>5, <2>1 DEF IInv, Types, StoreFits
  <2>2. CASE d = DirectoryFor(t)
    <3>1. job[t].had
      BY <1>5, <2>2 DEF HasFiles
    <3>2. /\ disk.record[job[t].pack] = 0 /\ disk.pending[job[t].pack] # 0
          /\ DirectoryOf(job[t].pack, disk.pending[job[t].pack]) = d
      BY <1>1, <1>2, <1>3, <2>2, <3>1 DEF OperationFits, FreshFits
    <3> QED
      BY <1>2, <3>2 DEF IInv, DiskIsRight, OwnIsApart, Unfinished
  <2> QED
    BY <2>1, <2>2
<1> QED
  BY <1>4, <1>5 DEF Clear, EndOnly, store

(* Only clearing a directory and the user change which own files there are. *)
LEMMA OwnMoves ==
  ASSUME [Next]_vars
  PROVE  \/ own' = own
         \/ \E t \in Threads : Clear(t)
         \/ \E d \in Directories : Customize(d)
<1>1. CASE Open \/ Exit \/ Play \/ BackToReady \/ UpdateGame
  BY <1>1 DEF Open, Exit, Play, BackToReady, UpdateGame, store
<1>2. ASSUME NEW t \in Threads, Scan(t) \/ Manage(t) \/ RetryScan(t)
      PROVE  own' = own
  BY <1>2 DEF Scan, ScanRecovers, Fetch, FetchFails, Show, Manage, RetryScan, store
<1>3. ASSUME NEW t \in Threads, Operate(t)
      PROVE  own' = own \/ Clear(t)
  <2>1. CASE Resolve(t) \/ Fresh(t) \/ Promote(t) \/ CheckRemove(t)
    BY <2>1 DEF Resolve, Fresh, Promote, CheckRemove, EndOnly, JobOnly, DiskOnly, store
  <2>2. CASE Prepare(t) \/ Begin(t) \/ CommitFiles(t) \/ CommitRecord(t)
    BY <2>2 DEF Prepare, Begin, CommitFiles, CommitRecord, EndOnly, DiskOnly, store
  <2>3. CASE Finish(t) \/ Tidy(t) \/ Verify(t) \/ Fail(t) \/ ShowOutcome(t)
    BY <2>3 DEF Finish, Tidy, Verify, Fail, ShowOutcome, EndOnly, store
  <2> QED
    BY <1>3, <2>1, <2>2, <2>3 DEF Operate
<1>4. ASSUME NEW t \in Threads, NEW p \in Packs, StartInstall(t, p) \/ StartRemove(t, p)
      PROVE  own' = own
  BY <1>4 DEF StartInstall, StartRemove, store
<1>5. ASSUME NEW p \in Packs, Publish(p)
      PROVE  own' = own
  BY <1>5 DEF Publish, store
<1>6. ASSUME NEW e \in Directories, NEW f \in Files, Damage(e, f)
      PROVE  own' = own
  BY <1>6 DEF Damage
<1>7. CASE UNCHANGED vars
  BY <1>7 DEF vars, store
<1> QED
  BY <1>1, <1>2, <1>3, <1>4, <1>5, <1>6, <1>7 DEF Next

(* No step deletes the user's own file. *)
LEMMA OwnStep ==
  ASSUME IInv, [Next]_vars, NEW d \in Directories, own[d] = "kept"
  PROVE  own'[d] = "kept"
<1>1. ASSUME NEW e \in Directories, Customize(e)
      PROVE  own'[d] = "kept"
  BY <1>1 DEF Customize, IInv, Types, StoreFits
<1> QED
  BY <1>1, OwnMoves, ClearKeepsOwn

(* No operation, recovery or retry deletes a file that the user put beside a pack's. *)
THEOREM OwnFilesStay == Spec => OwnFilesKept
<1>1. IInv /\ [Next]_vars => [\A d \in Directories : own[d] = "kept" => own'[d] = "kept"]_vars
  BY OwnStep
<1> QED
  BY <1>1, Invariance, PTL DEF Spec, OwnFilesKept

(* No record is stored within a transaction. *)
RecordsStay == ~transaction.open \/ ~transaction'.open \/ disk'.record = disk.record

(* Within a transaction, records are stored by CommitRecord alone. *)
LEMMA RecordStep ==
  ASSUME IInv, [Next]_vars, ~\E t \in Threads : CommitRecord(t)
  PROVE  RecordsStay
<1>1. CASE Open \/ Exit \/ Play \/ BackToReady \/ UpdateGame
  BY <1>1, ClosedIs DEF Open, Exit, Play, BackToReady, UpdateGame, Recover, RecoveryFails, store,
                        RecordsStay
<1>2. ASSUME NEW t \in Threads, Scan(t) \/ Manage(t) \/ RetryScan(t)
      PROVE  RecordsStay
  BY <1>2, ClosedIs DEF Scan, ScanRecovers, Fetch, FetchFails, Show, Manage, RetryScan, store,
                        Recover, RecoveryFails, RecordsStay
<1>3. ASSUME NEW t \in Threads, Operate(t)
      PROVE  RecordsStay
  <2>1. disk = [files |-> disk.files, record |-> disk.record, pending |-> disk.pending]
    BY DiskIs DEF IInv, Types, StoreFits
  <2>2. CASE Resolve(t) \/ CheckRemove(t) \/ Verify(t) \/ ShowOutcome(t)
    BY <2>2 DEF Resolve, CheckRemove, Verify, ShowOutcome, EndOnly, JobOnly, store, RecordsStay
  <2>3. CASE Fresh(t) \/ Clear(t) \/ Promote(t) \/ CommitFiles(t)
    BY <2>1, <2>3 DEF Fresh, Clear, Promote, CommitFiles, EndOnly, JobOnly, store, RecordsStay
  <2>4. CASE Prepare(t) \/ Finish(t) \/ Fail(t)
    BY <2>4, ClosedIs DEF Prepare, Recover, Finish, Fail, RecordsStay
  <2>5. CASE Begin(t)
    BY <2>5 DEF Begin, EndOnly, store, RecordsStay
  <2>6. CASE Tidy(t)
    BY <2>1, <2>6 DEF Tidy, RecordsStay
  <2> QED
    BY <1>3, <2>2, <2>3, <2>4, <2>5, <2>6 DEF Operate
<1>4. ASSUME NEW t \in Threads, NEW p \in Packs, StartInstall(t, p) \/ StartRemove(t, p)
      PROVE  RecordsStay
  BY <1>4 DEF StartInstall, StartRemove, store, RecordsStay
<1>5. ASSUME NEW p \in Packs, Publish(p)
      PROVE  RecordsStay
  BY <1>5 DEF Publish, store, RecordsStay
<1>6. ASSUME NEW e \in Directories, Customize(e)
      PROVE  RecordsStay
  BY <1>6 DEF Customize, RecordsStay
<1>7. ASSUME NEW e \in Directories, NEW f \in Files, Damage(e, f)
      PROVE  RecordsStay
  <2>1. disk = [files |-> disk.files, record |-> disk.record, pending |-> disk.pending]
    BY DiskIs DEF IInv, Types, StoreFits
  <2> QED
    BY <1>7, <2>1 DEF Damage, RecordsStay
<1>8. CASE UNCHANGED vars
  BY <1>8 DEF vars, store, RecordsStay
<1> QED
  BY <1>1, <1>2, <1>3, <1>4, <1>5, <1>6, <1>7, <1>8 DEF Next

(* What CommitRecord stores is a release whose requirements are met. *)
LEMMA RequirementsStep ==
  ASSUME IInv, [Next]_vars, NEW p \in Packs, transaction.open, transaction'.open,
         disk'.record[p] \notin {0, disk.record[p]}, ~rewound
  PROVE  Satisfied(p, disk'.record[p])
<1>1. PICK t \in Threads : CommitRecord(t)
  BY RecordStep DEF RecordsStay
<1>2. PICK q, n : q = job[t].pack /\ n = job[t].release
  OBVIOUS
<1>3. /\ job[t].task \in Changing /\ job[t].at = "record"
      /\ disk' = [disk EXCEPT !.record[q] = n,
                              !.pending[q] = IF job[t].task = "remove" THEN 0 ELSE @]
  BY <1>1, <1>2 DEF CommitRecord, At, PackOf, ReleaseOf
<1>4. /\ OperationFits(job[t]) /\ q \in Packs /\ Settled(job[t].at)
      /\ job[t].task = "remove" => n = 0
  BY <1>2, <1>3, ApplyIs
<1>5. /\ disk = [files |-> disk.files, record |-> disk.record, pending |-> disk.pending]
      /\ disk.record \in [Packs -> Nat]
  BY DiskIs DEF IInv, Types, StoreFits, Known
<1>6. disk'.record = [disk.record EXCEPT ![q] = n]
  BY <1>3, <1>5
<1>7. q = p /\ disk'.record[p] = n /\ n # 0
  BY <1>4, <1>5, <1>6
<1>8. job[t].task \in {"fresh", "update"}
  BY <1>3, <1>4, <1>7 DEF Changing
<1> QED
  BY <1>2, <1>4, <1>7, <1>8 DEF OperationFits, ApplyFits

(* A pack is recorded as installed only where the versions installed at that moment
   satisfy it, although they were checked several steps before: unless an operation
   undid a transaction after that check. *)
THEOREM RecordedWhereItRuns == Spec => RequirementsMet
<1>1. IInv /\ [Next]_vars =>
        [\A p \in Packs :
            /\ transaction.open /\ transaction'.open
            /\ disk'.record[p] \notin {0, disk.record[p]}
            /\ ~rewound
            => Satisfied(p, disk'.record[p])]_vars
  BY RequirementsStep
<1> QED
  BY <1>1, Invariance, PTL DEF Spec, RequirementsMet

-----------------------------------------------------------------------------
(* What PackStore sees of the packs, pack by pack. *)
InstalledFits ==
    /\ Installed \in [Packs -> Nat]
    /\ \A p \in Packs : Installed[p] =
          IF transaction.open /\ p = transaction.pack
          THEN transaction.before.record[p] ELSE disk.record[p]

(* A recovery takes back the record of the transaction's pack and no other. *)
LEMMA InstalledIs == StoreFits => InstalledFits
<1> SUFFICES ASSUME StoreFits PROVE InstalledFits
  OBVIOUS
<1>1. RestoredFits /\ DiskKnown(Restored)
  BY RestoredIs DEF RestoredFits
<1>2. Installed \in [Packs -> Nat]
  BY <1>1 DEF DiskKnown, Known, Installed
<1>3. CASE ~transaction.open
  BY <1>1, <1>2, <1>3 DEF RestoredFits, InstalledFits, Installed
<1>4. CASE transaction.open
  BY <1>1, <1>2, <1>4 DEF RestoredFits, InstalledFits, Installed
<1> QED
  BY <1>3, <1>4

(* InstalledIs of the next state. *)
LEMMA InstalledNext == StoreFits' => InstalledFits'
BY InstalledIs, PTL

(* While the records and the transaction stay, so does what is installed. *)
LEMMA InstalledWhileRecords ==
  ASSUME StoreFits, StoreFits', transaction' = transaction,
         \A p \in Packs : ~(transaction.open /\ p = transaction.pack) =>
                             disk'.record[p] = disk.record[p]
  PROVE  Installed' = Installed
<1>1. InstalledFits /\ InstalledFits'
  BY InstalledIs, InstalledNext
<1>2. \A p \in Packs : Installed'[p] = Installed[p]
  BY <1>1 DEF InstalledFits
<1> QED
  BY <1>1, <1>2 DEF InstalledFits

(* A recovery, and a rollback, change nothing. *)
LEMMA InstalledWhileRecovering ==
  ASSUME StoreFits', disk' = Restored, transaction' = Closed
  PROVE  Installed' = Installed
<1>1. RestoredFits' /\ ~transaction'.open
  BY RestoredNext, ClosedIs
<1>2. Restored' = disk'
  BY <1>1 DEF RestoredFits
<1> QED
  BY <1>2 DEF Installed

(* An apply that opens its transaction changes nothing. *)
LEMMA InstalledAtBegin ==
  ASSUME IInv, StoreFits', NEW t \in Threads, Begin(t)
  PROVE  Installed' = Installed
<1>1. transaction'.open /\ transaction'.before = disk /\ disk' = disk
  BY DEF Begin
<1>2. job[t].task \in Changing /\ job[t].at = "begin" /\ Operating(t)
  BY DEF Begin, At, Operating, Changing
<1>3. ~transaction.open
  BY <1>2, OperationIs DEF OperationFits, ApplyFits
<1>4. InstalledFits /\ InstalledFits'
  BY InstalledIs, InstalledNext DEF IInv, Types
<1>5. \A p \in Packs : Installed'[p] = Installed[p]
  BY <1>1, <1>3, <1>4 DEF InstalledFits
<1> QED
  BY <1>4, <1>5 DEF InstalledFits

(* The record that an apply stores is in its transaction. *)
LEMMA InstalledAtRecord ==
  ASSUME IInv, StoreFits', NEW t \in Threads, CommitRecord(t)
  PROVE  Installed' = Installed
<1>1. PICK q, n : q = job[t].pack /\ n = job[t].release
  OBVIOUS
<1>2. /\ job[t].task \in Changing /\ job[t].at = "record" /\ transaction' = transaction
      /\ disk' = [disk EXCEPT !.record[q] = n,
                              !.pending[q] = IF job[t].task = "remove" THEN 0 ELSE @]
  BY <1>1 DEF CommitRecord, At, PackOf, ReleaseOf, DiskOnly
<1>3. transaction.open /\ transaction.pack = q /\ q \in Packs
  BY <1>1, <1>2, ApplyIs
<1>4. /\ disk = [files |-> disk.files, record |-> disk.record, pending |-> disk.pending]
      /\ disk.record \in [Packs -> Nat]
  BY DiskIs DEF IInv, Types, StoreFits, Known
<1>5. disk'.record = [disk.record EXCEPT ![q] = n]
  BY <1>2, <1>4
<1>6. \A p \in Packs \ {q} : disk'.record[p] = disk.record[p]
  BY <1>4, <1>5
<1> QED
  <2>1. ASSUME NEW p \in Packs, ~(transaction.open /\ p = transaction.pack)
        PROVE  disk'.record[p] = disk.record[p]
    <3>1. p # q
      BY <1>3, <2>1, Zenon
    <3> QED
      BY <1>6, <3>1
  <2> QED
    BY <1>2, <2>1, InstalledWhileRecords DEF IInv, Types

(* Closing the transaction is what installs, updates or removes the pack. *)
LEMMA InstalledAtFinish ==
  ASSUME IInv, StoreFits', NEW t \in Threads, Finish(t)
  PROVE  Installed' = [Installed EXCEPT ![job[t].pack] = job[t].release]
<1>1. /\ job[t].task \in Changing /\ job[t].at = "finish"
      /\ transaction' = Closed /\ disk' = disk
  BY DEF Finish, At
<1>2. /\ transaction.open /\ transaction.pack = job[t].pack /\ job[t].pack \in Packs
      /\ OperationFits(job[t])
  BY <1>1, ApplyIs
<1>3. disk.record[job[t].pack] = job[t].release
  BY <1>1, <1>2 DEF OperationFits, ApplyFits
<1>4. InstalledFits /\ InstalledFits' /\ ~transaction'.open
  BY <1>1, InstalledIs, InstalledNext, ClosedIs DEF IInv, Types
<1>5. /\ \A p \in Packs : Installed'[p] = disk.record[p]
      /\ \A p \in Packs \ {job[t].pack} : Installed[p] = disk.record[p]
  <2>1. \A p \in Packs : Installed'[p] = disk.record[p]
    BY <1>1, <1>4 DEF InstalledFits
  <2>2. ASSUME NEW p \in Packs \ {job[t].pack}
        PROVE  Installed[p] = disk.record[p]
    <3>1. ~(transaction.open /\ p = transaction.pack)
      BY <1>2, <2>2, Zenon
    <3> QED
      BY <1>4, <3>1 DEF InstalledFits
  <2> QED
    BY <2>1, <2>2
<1>6. Installed \in [Packs -> Nat] /\ Installed' \in [Packs -> Nat]
  BY <1>4 DEF InstalledFits
<1> HIDE DEF Installed
<1> QED
  BY <1>2, <1>3, <1>5, <1>6

(* Every other step leaves what is installed as it is: also a failure, a rollback, the
   end of the launcher and the recovery after it. *)
LEMMA InstalledStep ==
  ASSUME IInv, StoreFits', [Next]_vars, ~\E t \in Threads : Finish(t)
  PROVE  Installed' = Installed
<1>1. ASSUME disk' = disk, transaction' = transaction
      PROVE  Installed' = Installed
  BY <1>1, InstalledWhileRecords DEF IInv, Types
<1>2. ASSUME disk'.record = disk.record, transaction' = transaction
      PROVE  Installed' = Installed
  BY <1>2, InstalledWhileRecords DEF IInv, Types
<1>3. disk = [files |-> disk.files, record |-> disk.record, pending |-> disk.pending]
  BY DiskIs DEF IInv, Types, StoreFits
<1>4. CASE Open \/ Exit \/ Play \/ BackToReady \/ UpdateGame
  <2>1. \/ disk' = disk /\ transaction' = transaction
        \/ disk' = Restored /\ transaction' = Closed
    BY <1>4 DEF Open, Exit, Play, BackToReady, UpdateGame, Recover, RecoveryFails, store
  <2> QED
    BY <1>1, <2>1, InstalledWhileRecovering
<1>5. ASSUME NEW t \in Threads, Scan(t) \/ Manage(t) \/ RetryScan(t)
      PROVE  Installed' = Installed
  <2>1. \/ disk' = disk /\ transaction' = transaction
        \/ disk' = Restored /\ transaction' = Closed
    BY <1>5 DEF Scan, ScanRecovers, Fetch, FetchFails, Show, Manage, RetryScan, store,
                Recover, RecoveryFails
  <2> QED
    BY <1>1, <2>1, InstalledWhileRecovering
<1>6. ASSUME NEW t \in Threads, Operate(t)
      PROVE  Installed' = Installed
  <2>1. CASE Resolve(t) \/ CheckRemove(t) \/ Verify(t) \/ ShowOutcome(t)
    BY <1>1, <2>1 DEF Resolve, CheckRemove, Verify, ShowOutcome, EndOnly, JobOnly, store
  <2>2. CASE Fresh(t) \/ Clear(t) \/ Promote(t) \/ CommitFiles(t) \/ Tidy(t)
    <3>1. transaction' = transaction
      BY <2>2 DEF Fresh, Clear, Promote, CommitFiles, Tidy, EndOnly, JobOnly, DiskOnly, store
    <3>2. disk'.record = disk.record
      BY <1>3, <2>2 DEF Fresh, Clear, Promote, CommitFiles, Tidy, EndOnly, JobOnly, store
    <3> QED
      BY <1>2, <3>1, <3>2
  <2>3. CASE Prepare(t) \/ Fail(t)
    <3>1. \/ disk' = disk /\ transaction' = transaction
          \/ disk' = Restored /\ transaction' = Closed
      BY <2>3 DEF Prepare, Recover, Fail
    <3> QED
      BY <1>1, <3>1, InstalledWhileRecovering
  <2> QED
    BY <1>6, <2>1, <2>2, <2>3, InstalledAtBegin, InstalledAtRecord DEF Operate
<1>7. ASSUME NEW t \in Threads, NEW p \in Packs, StartInstall(t, p) \/ StartRemove(t, p)
      PROVE  Installed' = Installed
  BY <1>1, <1>7 DEF StartInstall, StartRemove, store
<1>8. ASSUME NEW p \in Packs, Publish(p)
      PROVE  Installed' = Installed
  BY <1>1, <1>8 DEF Publish, store
<1>9. ASSUME NEW d \in Directories, Customize(d)
      PROVE  Installed' = Installed
  BY <1>1, <1>9 DEF Customize
<1>10. ASSUME NEW d \in Directories, NEW f \in Files, Damage(d, f)
      PROVE  Installed' = Installed
  BY <1>2, <1>3, <1>10 DEF Damage
<1>11. CASE UNCHANGED vars
  BY <1>1, <1>11 DEF vars, store
<1> QED
  BY <1>4, <1>5, <1>6, <1>7, <1>8, <1>9, <1>10, <1>11 DEF Next

-----------------------------------------------------------------------------
(* A step that leaves everything but the requests as it is. *)
Quiet == Installed' = Installed /\ Kept' = Kept /\ UNCHANGED <<game, rewound, blind>>
StoreStep == [Store!Next]_(Store!pvars)

(* Which of them are kept changes only when the user puts another there. *)
LEMMA KeptStep ==
  ASSUME IInv, [Next]_vars, ~\E d \in Directories : Customize(d)
  PROVE  Kept' = Kept
<1>1. own \in [Directories -> {"none", "kept", "claimed"}]
  BY DEF IInv, Types, StoreFits
<1>2. \A d \in Directories : own[d] = "kept" => own'[d] = "kept"
  BY OwnStep
<1>3. ASSUME NEW t \in Threads, Clear(t), NEW d \in Directories, own'[d] = "kept"
      PROVE  own[d] = "kept"
  <2>1. own' = own \/ own' = [own EXCEPT ![DirectoryFor(t)] = "none"]
    BY <1>3 DEF Clear, EndOnly, store
  <2> QED
    BY <1>1, <1>3, <2>1
<1>4. \A d \in Directories : own'[d] = "kept" => own[d] = "kept"
  BY <1>3, OwnMoves
<1> QED
  BY <1>2, <1>4 DEF Kept

(* A file of the user's own is kept, or it is in what an unfinished install claims. *)
LEMMA KeptAtCustomize ==
  ASSUME IInv, NEW d \in Directories, Customize(d)
  PROVE  Kept' \in {Kept, Kept \cup {d}}
<1>1. own \in [Directories -> {"none", "kept", "claimed"}]
  BY DEF IInv, Types, StoreFits
<1>2. PICK k \in {"kept", "claimed"} : own' = [own EXCEPT ![d] = k]
  BY DEF Customize
<1>3. own[d] = "none" /\ own'[d] = k /\ \A e \in Directories \ {d} : own'[e] = own[e]
  BY <1>1, <1>2 DEF Customize
<1>4. CASE k = "kept"
  <2>1. Kept' = Kept \cup {d}
    BY <1>3, <1>4 DEF Kept
  <2> QED
    BY <2>1
<1>5. CASE k = "claimed"
  <2>1. Kept' = Kept
    BY <1>3, <1>5 DEF Kept
  <2> QED
    BY <2>1
<1> QED
  BY <1>4, <1>5

-----------------------------------------------------------------------------
(* The requests that PackStore sees. *)

(* What each kind of job is to PackStore. *)
LEMMA RequestIs ==
  /\ RequestOf(Idle) = Store!None
  /\ RequestOf(Report(TRUE)) = Store!Answer("success")
  /\ RequestOf(Report(FALSE)) = Store!Answer("failure")
  /\ \A j \in Job : j.task \in {"none", "scan", "list"} => RequestOf(j) = Store!None
  /\ \A j \in Job : j.task \in DOMAIN StepsOf =>
        RequestOf(j) = Store!Request(IF j.at \in {"tidy", "verify"} THEN "made" ELSE "asked",
                                     j.pack, j.release)
<1>1. /\ Idle.task = "none" /\ Report(TRUE).task = "report" /\ Report(FALSE).task = "report"
      /\ Report(TRUE).succeeded = TRUE /\ Report(FALSE).succeeded = FALSE
  BY DEF Idle, Report
<1>2. DOMAIN StepsOf = {"install", "fresh", "update", "remove"}
  BY DEF StepsOf
<1> QED
  BY <1>1, <1>2 DEF RequestOf, Store!None, Store!Answer, Store!Request

(* The job of one thread changes, and so does its request. *)
LEMMA RequestsChange ==
  ASSUME NEW t \in Threads, \A u \in Threads \ {t} : job'[u] = job[u]
  PROVE  Requests' = [Requests EXCEPT ![t] = RequestOf(job'[t])]
<1>1. \A u \in Threads : RequestOf(job'[u]) = [Requests EXCEPT ![t] = RequestOf(job'[t])][u]
  BY DEF Requests
<1> QED
  BY <1>1 DEF Requests

(* The same where it looks the same to PackStore. *)
LEMMA RequestsStay ==
  ASSUME NEW t \in Threads, \A u \in Threads \ {t} : job'[u] = job[u],
         job[t] \in Job, job'[t] \in Job,
         \/ /\ job[t].task \in {"none", "scan", "list"}
            /\ job'[t].task \in {"none", "scan", "list"}
         \/ /\ job[t].task \in DOMAIN StepsOf /\ job'[t].task \in DOMAIN StepsOf
            /\ job'[t].pack = job[t].pack /\ job'[t].release = job[t].release
            /\ job'[t].at \in {"tidy", "verify"} <=> job[t].at \in {"tidy", "verify"}
  PROVE  Requests' = Requests
<1>1. RequestOf(job'[t]) = RequestOf(job[t])
  BY RequestIs
<1> QED
  BY <1>1 DEF Requests

(* An operation is a change under way, and nothing else is. *)
LEMMA UnderwayIs ==
  ASSUME IInv, NEW t \in Threads
  PROVE  /\ Operating(t) =>
               /\ Requests[t] = Store!Request(IF job[t].at \in {"tidy", "verify"} THEN "made"
                                              ELSE "asked", job[t].pack, job[t].release)
               /\ Requests[t].pack = job[t].pack /\ Requests[t].release = job[t].release
               /\ Requests[t].state = IF job[t].at \in {"tidy", "verify"} THEN "made" ELSE "asked"
         /\ Store!Underway(Requests[t]) <=> Operating(t)
<1>1. job[t] \in Job /\ Requests[t] = RequestOf(job[t])
  BY DEF IInv, Types, MemoryFits, Requests
<1>2. CASE Operating(t)
  <2>1. Requests[t] = Store!Request(IF job[t].at \in {"tidy", "verify"} THEN "made"
                                    ELSE "asked", job[t].pack, job[t].release)
    BY <1>1, <1>2, RequestIs, OperationsAre
  <2>2. /\ Requests[t].pack = job[t].pack /\ Requests[t].release = job[t].release
        /\ Requests[t].state = IF job[t].at \in {"tidy", "verify"} THEN "made" ELSE "asked"
    BY <2>1 DEF Store!Request
  <2> QED
    BY <1>2, <2>1, <2>2 DEF Store!Underway
<1>3. CASE ~Operating(t)
  <2>1. Requests[t].state \notin {"asked", "made"}
    BY <1>1, <1>3 DEF RequestOf, Operating
  <2> QED
    BY <1>3, <2>1 DEF Store!Underway
<1> QED
  BY <1>2, <1>3

(* A step that PackStore does not see. *)
LEMMA Unseen ==
  ASSUME Quiet, Requests' = Requests
  PROVE  StoreStep
BY DEF Quiet, StoreStep, Store!pvars

(* The one operation goes on. *)
LEMMA GoesOn ==
  ASSUME IInv, Quiet, NEW t \in Threads, Operating(t), \A u \in Threads \ {t} : job'[u] = job[u],
         job'[t] \in Job, job'[t].task \in DOMAIN StepsOf,
         job'[t].pack = job[t].pack, job'[t].release = job[t].release,
         job'[t].at \in {"tidy", "verify"} <=> job[t].at \in {"tidy", "verify"}
  PROVE  StoreStep
<1>1. job[t] \in Job /\ job[t].task \in DOMAIN StepsOf
  BY OperationsAre DEF IInv, Types, MemoryFits
<1>2. Requests' = Requests
  BY <1>1, RequestsStay
<1> QED
  BY <1>2, Unseen

(* A thread without an operation goes on. *)
LEMMA GoesOnAside ==
  ASSUME IInv, Quiet, NEW t \in Threads, \A u \in Threads \ {t} : job'[u] = job[u],
         job[t].task \in {"none", "scan", "list"}, job'[t] \in Job,
         job'[t].task \in {"none", "scan", "list"}
  PROVE  StoreStep
<1>1. job[t] \in Job
  BY DEF IInv, Types, MemoryFits
<1>2. Requests' = Requests
  BY <1>1, RequestsStay
<1> QED
  BY <1>2, Unseen

(* The end of an operation is the answer to its request. *)
LEMMA EndIs ==
  ASSUME IInv, NEW t \in Threads, NEW b \in BOOLEAN, End(t, b)
  PROVE  /\ job'[t] = Report(b) /\ \A u \in Threads \ {t} : job'[u] = job[u]
         /\ Requests' = [Requests EXCEPT ![t] =
                            Store!Answer(IF b THEN "success" ELSE "failure")]
<1>1. job \in [Threads -> Job]
  BY DEF IInv, Types, MemoryFits
<1>2. job'[t] = Report(b) /\ \A u \in Threads \ {t} : job'[u] = job[u]
  BY <1>1 DEF End
<1>3. Requests' = [Requests EXCEPT ![t] = RequestOf(job'[t])]
  BY <1>2, RequestsChange
<1>4. RequestOf(job'[t]) = Store!Answer(IF b THEN "success" ELSE "failure")
  BY <1>2, RequestIs
<1> QED
  BY <1>2, <1>3, <1>4

(* A failure, at any step. *)
LEMMA FailsInStore ==
  ASSUME IInv, Quiet, NEW t \in Threads, Operating(t), End(t, FALSE)
  PROVE  StoreStep
<1>1. Requests' = [Requests EXCEPT ![t] = Store!Answer("failure")]
  BY EndIs
<1>2. Store!Underway(Requests[t])
  BY UnderwayIs
<1>3. Store!Fail(t)
  BY <1>1, <1>2 DEF Store!Fail, Quiet
<1> QED
  BY <1>3 DEF StoreStep, Store!Next

(* A success, where the pack is at the release that was asked for. *)
LEMMA SucceedsInStore ==
  ASSUME IInv, Quiet, NEW t \in Threads, Operating(t), End(t, TRUE),
         Installed[job[t].pack] = job[t].release
  PROVE  StoreStep
<1>1. Requests' = [Requests EXCEPT ![t] = Store!Answer("success")]
  BY EndIs
<1>2. /\ Store!Underway(Requests[t])
      /\ Requests[t].pack = job[t].pack /\ Requests[t].release = job[t].release
  BY UnderwayIs
<1>3. Store!Succeed(t)
  BY <1>1, <1>2 DEF Store!Succeed, Quiet
<1> QED
  BY <1>3 DEF StoreStep, Store!Next

-----------------------------------------------------------------------------
(* What each action is to PackStore. InstalledStep and KeptStep give Still for all but
   the end of a transaction and a file of the user's own. *)
Still == Installed' = Installed /\ Kept' = Kept

(* The launcher starts, and shows its screens. *)
LEMMA ScreensInStore ==
  ASSUME IInv, IInv', Still,
         \/ Open \/ BackToReady
         \/ \E t \in Threads : Scan(t) \/ Manage(t) \/ RetryScan(t)
  PROVE  StoreStep
<1>1. job \in [Threads -> Job] /\ job' \in [Threads -> Job]
  BY DEF IInv, Types, MemoryFits
<1>2. ASSUME NEW t \in Threads, NEW task, Start(t, task), task \in {"scan", "list"}, Quiet
      PROVE  StoreStep
  <2>1. job[t] = Idle /\ job[t].task = "none"
    BY <1>2, JobsAre DEF Start
  <2>2. job'[t].task = task /\ \A u \in Threads \ {t} : job'[u] = job[u]
    BY <1>1, <1>2 DEF Start, Idle
  <2> QED
    BY <1>1, <1>2, <2>1, <2>2, GoesOnAside
<1>3. CASE Open
  BY <1>2, <1>3 DEF Open, Quiet, Still, past
<1>4. CASE BackToReady
  <2>1. Quiet /\ job' = job
    BY <1>4 DEF BackToReady, Quiet, Still, past
  <2> QED
    BY <2>1, Unseen DEF Requests
<1>5. ASSUME NEW t \in Threads, Manage(t) \/ RetryScan(t)
      PROVE  StoreStep
  BY <1>2, <1>5 DEF Manage, RetryScan, Quiet, Still, past
<1>6. ASSUME NEW t \in Threads, Scan(t)
      PROVE  StoreStep
  <2>1. Quiet
    BY <1>6 DEF Scan, ScanRecovers, Fetch, FetchFails, Show, Quiet, Still, past
  <2>2. job[t].task \in {"scan", "list"}
    BY <1>6 DEF Scan, ScanRecovers, Fetch, FetchFails, Show, At
  <2>3. /\ job'[t].task \in {job[t].task, "none"}
        /\ \A u \in Threads \ {t} : job'[u] = job[u]
    <3>1. CASE Ends(t)
      BY <1>1, <3>1, JobsAre DEF Ends
    <3>2. CASE Advance(t, "fetch")
      BY <1>1, <3>2 DEF Advance, Job
    <3>3. CASE job' = [job EXCEPT ![t].at = "show", ![t].answer = published]
      BY <1>1, <3>3 DEF Job
    <3> QED
      BY <1>6, <3>1, <3>2, <3>3 DEF Scan, ScanRecovers, Fetch, FetchFails, Show
  <2> QED
    BY <1>1, <2>1, <2>2, <2>3, GoesOnAside
<1> QED
  BY <1>3, <1>4, <1>5, <1>6

(* The launcher ends, is killed, or starts the game. *)
LEMMA StopsInStore ==
  ASSUME IInv, Still, Exit \/ Play
  PROVE  StoreStep
<1>1. Quiet
  BY DEF Exit, Play, Quiet, Still, past
<1>2. ASSUME job' = [t \in Threads |-> Idle]
      PROVE  StoreStep
  <2>1. Requests' = [t \in Threads |-> Store!None]
    BY <1>2, RequestIs DEF Requests
  <2>2. Store!Stop
    BY <1>1, <2>1 DEF Store!Stop, Quiet
  <2> QED
    BY <2>2 DEF StoreStep, Store!Next
<1>3. ASSUME job' = job
      PROVE  StoreStep
  BY <1>1, <1>3, Unseen DEF Requests
<1> QED
  BY <1>2, <1>3 DEF Exit, Play, Forget

(* The user chooses to install or to remove a pack. *)
LEMMA AsksInStore ==
  ASSUME IInv, IInv', Still, NEW t \in Threads, NEW p \in Packs,
         StartInstall(t, p) \/ StartRemove(t, p)
  PROVE  StoreStep
<1>1. Quiet
  BY DEF StartInstall, StartRemove, Quiet, Still, past
<1>2. ASSUME NEW task \in {"install", "remove"}, NEW n \in 0 .. Len(Releases[p]), ~guard,
             job[t] = Idle, job' = [job EXCEPT ![t] = Operation(task, p, n)]
      PROVE  StoreStep
  <2>1. job \in [Threads -> Job] /\ job' \in [Threads -> Job]
    BY DEF IInv, Types, MemoryFits
  <2>2. /\ job'[t] = Operation(task, p, n) /\ job'[t] \in Job
        /\ \A u \in Threads \ {t} : job'[u] = job[u]
    BY <1>2, <2>1
  <2>3. n \in 0 .. Last /\ task \in Tasks
    BY LastIs, PacksHaveReleases DEF Tasks
  <2>4. /\ job'[t].task = task /\ job'[t].at = "start" /\ job'[t].pack = p
        /\ job'[t].release = n
    BY <2>2, <2>3, JobsAre
  <2>5. RequestOf(job'[t]) = Store!Request("asked", p, n)
    BY <2>2, <2>4, RequestIs DEF StepsOf
  <2>6. Requests' = [Requests EXCEPT ![t] = Store!Request("asked", p, n)]
    BY <2>2, <2>5, RequestsChange
  <2>7. Requests[t] = Store!None
    BY <1>2, RequestIs DEF Requests
  <2>8. \A u \in Threads : ~Store!Underway(Requests[u])
    <3>1. \A u \in Threads : ~Operating(u)
      BY <1>2 DEF IInv, NeverStuck
    <3> QED
      BY <3>1, UnderwayIs
  <2>9. Store!Ask(t)
    BY <1>1, <2>6, <2>7, <2>8 DEF Store!Ask, Quiet
  <2> QED
    BY <2>9 DEF StoreStep, Store!Next
<1>3. CASE job' = job
  BY <1>1, <1>3, Unseen DEF Requests
<1>4. CASE StartInstall(t, p) /\ catalog[p] # 0
  <2>1. catalog[p] \in 0 .. Len(Releases[p])
    BY PacksHaveReleases DEF IInv, Types, MemoryFits, Known
  <2> QED
    BY <1>2, <1>4, <2>1 DEF StartInstall, Chosen
<1>5. CASE StartRemove(t, p)
  <2>1. 0 \in 0 .. Len(Releases[p])
    BY PacksHaveReleases
  <2> QED
    BY <1>2, <1>5, <2>1 DEF StartRemove, Chosen
<1> QED
  BY <1>3, <1>4, <1>5 DEF StartInstall

(* A step of an operation, by what it does to its job. *)
LEMMA OperatesInStore ==
  ASSUME IInv, IInv', Quiet, NEW t \in Threads, Operating(t),
         \/ End(t, FALSE)
         \/ End(t, TRUE) /\ Installed[job[t].pack] = job[t].release
         \/ \E step \in Steps : /\ Advance(t, step)
                                /\ step \in {"tidy", "verify"} <=> job[t].at \in {"tidy", "verify"}
  PROVE  StoreStep
<1>1. ASSUME NEW step \in Steps, Advance(t, step),
             step \in {"tidy", "verify"} <=> job[t].at \in {"tidy", "verify"}
      PROVE  StoreStep
  <2>1. /\ job' \in [Threads -> Job] /\ \A u \in Threads \ {t} : job'[u] = job[u]
        /\ job'[t].task = job[t].task /\ job'[t].at = step
        /\ job'[t].pack = job[t].pack /\ job'[t].release = job[t].release
    BY <1>1, AdvanceIs DEF IInv, Types
  <2>2. job'[t] \in Job /\ job'[t].task \in DOMAIN StepsOf
    BY <2>1, OperationsAre
  <2> QED
    BY <1>1, <2>1, <2>2, GoesOn
<1> QED
  BY <1>1, FailsInStore, SucceedsInStore

(* Until the transaction: the release is resolved, staged and promoted. *)
LEMMA InstallsInStore ==
  ASSUME IInv, IInv', Still, NEW t \in Threads,
         Resolve(t) \/ Fresh(t) \/ Clear(t) \/ Promote(t)
  PROVE  StoreStep
<1>1. Quiet
  BY DEF Resolve, Fresh, Clear, Promote, EndOnly, JobOnly, DiskOnly, Elsewhere, Quiet, Still, past
<1>2. Operating(t) /\ job[t].at \notin {"tidy", "verify"}
  BY DEF Resolve, Fresh, Clear, Promote, At, Operating
<1>3. job \in [Threads -> Job] /\ job' \in [Threads -> Job]
  BY DEF IInv, Types, MemoryFits
<1>4. CASE Resolve(t)
  <2>1. CASE End(t, FALSE)
    BY <1>1, <1>2, <2>1, OperatesInStore
  <2>2. CASE job' = [job EXCEPT ![t] =
                 IF IsInstalled(PackOf(t))
                 THEN [@ EXCEPT !.task = "update", !.at = "prepare",
                                !.plan = Outdated(PackOf(t), ReleaseOf(t))]
                 ELSE [@ EXCEPT !.task = "fresh", !.at = "fresh"]]
    <3>1. /\ \A u \in Threads \ {t} : job'[u] = job[u]
          /\ job'[t].task \in {"update", "fresh"} /\ job'[t].at \in {"prepare", "fresh"}
          /\ job'[t].pack = job[t].pack /\ job'[t].release = job[t].release
      BY <1>3, <2>2 DEF Job
    <3>2. job'[t] \in Job /\ job'[t].task \in DOMAIN StepsOf
      BY <1>3, <3>1 DEF StepsOf
    <3> QED
      BY <1>1, <1>2, <3>1, <3>2, GoesOn
  <2> QED
    BY <1>4, <2>1, <2>2 DEF Resolve
<1>5. CASE Fresh(t)
  <2>1. CASE job' = [job EXCEPT ![t].at = "clear", ![t].had = HasFiles(DirectoryFor(t))]
    <3>1. /\ \A u \in Threads \ {t} : job'[u] = job[u]
          /\ job'[t].task = job[t].task /\ job'[t].at = "clear"
          /\ job'[t].pack = job[t].pack /\ job'[t].release = job[t].release
      BY <1>3, <2>1 DEF Job
    <3>2. job'[t] \in Job /\ job'[t].task \in DOMAIN StepsOf
      BY <1>2, <1>3, <3>1, OperationsAre
    <3> QED
      BY <1>1, <1>2, <3>1, <3>2, GoesOn
  <2>2. CASE End(t, FALSE) \/ Advance(t, "prepare")
    <3>1. "prepare" \in Steps
      BY DEF Steps
    <3> QED
      BY <1>1, <1>2, <2>2, <3>1, OperatesInStore
  <2>3. DirectoryFor(t) = DirectoryOf(PackOf(t), ReleaseOf(t))
    BY <1>5 DEF Fresh, At, DirectoryFor
  <2> QED
    BY <1>5, <2>1, <2>2, <2>3 DEF Fresh
<1>6. CASE Clear(t) \/ Promote(t)
  <2>1. End(t, FALSE) \/ Advance(t, "promote") \/ Advance(t, "prepare")
    BY <1>6 DEF Clear, Promote
  <2>2. "prepare" \in Steps /\ "promote" \in Steps
    BY DEF Steps
  <2> QED
    BY <1>1, <1>2, <2>1, <2>2, OperatesInStore
<1> QED
  BY <1>4, <1>5, <1>6

(* A check or a recovery that was misled. *)
LEMMA MisleadsInStore ==
  ASSUME IInv, IInv', Still, NEW t \in Threads, CheckRemove(t) \/ Prepare(t)
  PROVE  StoreStep
<1>1. Operating(t) /\ job[t].at \in {"start", "prepare"}
  BY DEF CheckRemove, Prepare, At, Operating, Changing
<1>2. job \in [Threads -> Job] /\ job' \in [Threads -> Job] /\ rewound \in BOOLEAN
      /\ blind \in BOOLEAN
  BY DEF IInv, Types, MemoryFits, RestFits
<1>3. CASE End(t, FALSE) /\ EndOnly
  BY <1>1, <1>3, FailsInStore DEF EndOnly, Elsewhere, Quiet, Still, past
<1>4. ASSUME /\ \A u \in Threads \ {t} : job'[u] = job[u]
             /\ job'[t].task = job[t].task /\ job'[t].at \in {"prepare", "begin"}
             /\ job'[t].pack = job[t].pack /\ job'[t].release = job[t].release,
             game' = game, rewound' \in {rewound, TRUE}, blind' \in {blind, TRUE}
      PROVE  StoreStep
  <2>1. job[t] \in Job /\ job'[t] \in Job /\ job[t].task \in DOMAIN StepsOf
    BY <1>1, <1>2, OperationsAre
  <2>2. Requests' = Requests
    BY <1>1, <1>4, <2>1, RequestsStay
  <2>3. Requests[t].state = "asked"
    BY <1>1, UnderwayIs
  <2>4. Store!Mislead(t)
    BY <1>4, <2>2, <2>3 DEF Store!Mislead, Still
  <2> QED
    BY <2>4 DEF StoreStep, Store!Next
<1>5. CASE CheckRemove(t) /\ ~(Dependents(PackOf(t)) # {} \/ ~IsInstalled(PackOf(t)))
  <2>1. /\ job' = [job EXCEPT ![t].at = "prepare",
                              ![t].installed = disk.record[PackOf(t)],
                              ![t].plan = Listed(PackOf(t), disk.record[PackOf(t)])]
        /\ blind' \in {blind, TRUE} /\ rewound' = rewound /\ game' = game
    BY <1>2, <1>5 DEF CheckRemove, Elsewhere
  <2>2. /\ \A u \in Threads \ {t} : job'[u] = job[u]
        /\ job'[t].task = job[t].task /\ job'[t].at = "prepare"
        /\ job'[t].pack = job[t].pack /\ job'[t].release = job[t].release
    BY <1>2, <2>1 DEF Job
  <2> QED
    BY <1>4, <2>1, <2>2
<1>6. CASE Prepare(t)
  <2>1. /\ Advance(t, "begin") /\ "begin" \in Steps
        /\ rewound' \in {rewound, TRUE} /\ blind' = blind /\ game' = game
    <3>1. transaction.open \in BOOLEAN
      BY DEF IInv, Types, StoreFits, Transaction
    <3> QED
      BY <1>2, <1>6, <3>1 DEF Prepare, Elsewhere, Steps
  <2>2. /\ \A u \in Threads \ {t} : job'[u] = job[u]
        /\ job'[t].task = job[t].task /\ job'[t].at = "begin"
        /\ job'[t].pack = job[t].pack /\ job'[t].release = job[t].release
    BY <2>1, AdvanceIs DEF IInv, Types
  <2> QED
    BY <1>4, <2>1, <2>2
<1>7. CASE CheckRemove(t) /\ (Dependents(PackOf(t)) # {} \/ ~IsInstalled(PackOf(t)))
  <2>1. End(t, FALSE) /\ EndOnly
    BY <1>7 DEF CheckRemove
  <2> QED
    BY <1>3, <2>1
<1> QED
  BY <1>5, <1>6, <1>7

(* The apply up to the storing of its record. *)
LEMMA AppliesInStore ==
  ASSUME IInv, IInv', Still, NEW t \in Threads, Begin(t) \/ CommitFiles(t) \/ CommitRecord(t)
  PROVE  StoreStep
<1>1. Quiet
  BY DEF Begin, CommitFiles, CommitRecord, DiskOnly, Elsewhere, Quiet, Still, past
<1>2. Operating(t) /\ job[t].at \in {"begin", "files", "record"}
  BY DEF Begin, CommitFiles, CommitRecord, At, Operating, Changing
<1>3. PICK step \in {"files", "record", "finish"} : Advance(t, step)
  BY DEF Begin, CommitFiles, CommitRecord
<1>4. step \in Steps
  BY DEF Steps
<1> QED
  BY <1>1, <1>2, <1>3, <1>4, OperatesInStore

(* What is left to do once the change is made. *)
LEMMA TidiesInStore ==
  ASSUME IInv, IInv', Still, NEW t \in Threads, Tidy(t) \/ Verify(t)
  PROVE  StoreStep
<1>1. Quiet
  BY DEF Tidy, Verify, EndOnly, Elsewhere, Quiet, Still, past
<1>2. Operating(t) /\ job[t].at \in {"tidy", "verify"}
  BY DEF Tidy, Verify, At, Operating, Changing
<1>3. /\ job[t].pack \in Packs /\ disk.record[job[t].pack] = job[t].release
      /\ ~transaction.open
  BY <1>2, OperationIs DEF OperationFits, ApplyFits
<1>4. Installed[job[t].pack] = job[t].release
  BY <1>3, InstalledIs DEF InstalledFits, IInv, Types
<1>5. \/ Advance(t, "verify") \/ End(t, TRUE)
      \/ End(t, Verifies(PackOf(t), ReleaseOf(t)))
  BY DEF Tidy, Verify
<1>6. Verifies(PackOf(t), ReleaseOf(t)) \in BOOLEAN /\ "verify" \in Steps
  BY DEF Verifies, Steps
<1>7. Advance(t, "verify") \/ End(t, TRUE) \/ End(t, FALSE)
  BY <1>5, <1>6
<1> QED
  BY <1>1, <1>2, <1>4, <1>6, <1>7, OperatesInStore

(* A failure, and the answer. *)
LEMMA AnswersInStore ==
  ASSUME IInv, IInv', Still, NEW t \in Threads, Fail(t) \/ ShowOutcome(t)
  PROVE  StoreStep
<1>1. Quiet
  BY DEF Fail, ShowOutcome, Elsewhere, Quiet, Still, past
<1>2. CASE Fail(t)
  BY <1>1, <1>2, FailsInStore DEF Fail
<1>3. CASE ShowOutcome(t)
  <2>1. job \in [Threads -> Job] /\ job' \in [Threads -> Job]
    BY DEF IInv, Types, MemoryFits
  <2>2. /\ job'[t].task \in {"none", "list"} /\ job'[t] \in Job
        /\ \A u \in Threads \ {t} : job'[u] = job[u]
    BY <1>3, <2>1 DEF ShowOutcome, Ends, Idle
  <2>3. Requests' = [Requests EXCEPT ![t] = Store!None]
    <3>1. RequestOf(job'[t]) = Store!None
      BY <2>2, RequestIs
    <3> QED
      BY <2>2, <3>1, RequestsChange
  <2>4. Requests[t] \in {Store!Answer("success"), Store!Answer("failure")}
    <3>1. Requests[t] = RequestOf(job[t]) /\ job[t].task = "report"
      BY <1>3 DEF Requests, ShowOutcome
    <3> QED
      BY <3>1 DEF RequestOf, Store!Answer
  <2>5. Store!Show(t)
    BY <1>1, <2>3, <2>4 DEF Store!Show, Quiet
  <2> QED
    BY <2>5 DEF StoreStep, Store!Next
<1> QED
  BY <1>2, <1>3

(* What others do. *)
LEMMA OthersInStore ==
  ASSUME IInv, Still,
         \/ UpdateGame \/ UNCHANGED vars
         \/ \E p \in Packs : Publish(p)
         \/ \E d \in Directories, f \in Files : Damage(d, f)
  PROVE  StoreStep
<1>1. Requests' = Requests /\ UNCHANGED <<rewound, blind>>
  BY DEF UpdateGame, Publish, Damage, vars, memory, past, Requests
<1>2. CASE game' = game
  BY <1>1, <1>2, Unseen DEF Still, Quiet
<1>3. CASE UpdateGame
  <2>1. \A t \in Threads : ~Operating(t)
    BY <1>3 DEF UpdateGame, IInv, NeverStuck
  <2>2. \A t \in Threads : ~Store!Underway(Requests[t])
    BY <2>1, UnderwayIs
  <2>3. Store!UpdateGame
    BY <1>1, <1>3, <2>2 DEF Store!UpdateGame, UpdateGame, Still
  <2> QED
    BY <2>3 DEF StoreStep, Store!Next
<1> QED
  BY <1>2, <1>3 DEF Publish, Damage, vars
LEMMA CustomizesInStore ==
  ASSUME IInv, Installed' = Installed, NEW d \in Directories, Customize(d)
  PROVE  StoreStep
<1>1. Requests' = Requests /\ UNCHANGED <<game, rewound, blind>>
  BY DEF Customize, memory, past, Requests
<1>2. CASE Kept' = Kept
  BY <1>1, <1>2, Unseen DEF Quiet
<1>3. CASE Kept' = Kept \cup {d}
  <2>1. Store!Keep(d)
    BY <1>1, <1>3 DEF Store!Keep
  <2> QED
    BY <2>1 DEF StoreStep, Store!Next
<1> QED
  BY <1>2, <1>3, KeptAtCustomize

(* Closing the transaction is the step in which the change is made: what the release
   needs is installed at that moment, and nothing that is installed needs a pack that is
   removed. *)
LEMMA MakesInStore ==
  ASSUME IInv, IInv', Kept' = Kept, NEW t \in Threads, Finish(t)
  PROVE  StoreStep
<1> DEFINE p == job[t].pack
           n == job[t].release
<1>1. /\ job[t].task \in Changing /\ job[t].at = "finish" /\ UNCHANGED <<game, rewound, blind>>
  BY DEF Finish, At, Elsewhere, past
<1>2. /\ Operating(t) /\ p \in Packs /\ OperationFits(job[t])
      /\ transaction.open /\ transaction.pack = p
      /\ Settled(job[t].at) <=> ~rewound
      /\ job[t].task \in {"fresh", "update"} => n \in Numbers(p) /\ n # 0
      /\ job[t].task = "remove" => n = 0
  BY <1>1, ApplyIs
<1>3. Installed' = [Installed EXCEPT ![p] = n]
  BY InstalledAtFinish DEF IInv, Types
<1>4. \A q \in Packs \ {p} : Installed[q] = disk.record[q]
  <2>1. ASSUME NEW q \in Packs \ {p}
        PROVE  Installed[q] = disk.record[q]
    <3>1. ~(transaction.open /\ q = transaction.pack)
      BY <1>2, <2>1, Zenon
    <3> QED
      BY <3>1, InstalledIs DEF IInv, Types, InstalledFits
  <2> QED
    BY <2>1
<1>5. Requests[t].state = "asked" /\ Requests[t].pack = p /\ Requests[t].release = n
  BY <1>1, <1>2, UnderwayIs
<1>6. Requests' = [Requests EXCEPT ![t] =
                      IF n = 0 THEN Store!Answer("success") ELSE Store!Request("made", p, n)]
  <2>1. CASE job[t].task = "remove"
    <3>1. End(t, TRUE) /\ n = 0
      BY <1>2, <2>1 DEF Finish
    <3> QED
      BY <3>1, EndIs
  <2>2. CASE job[t].task \in {"fresh", "update"}
    <3>1. Advance(t, "tidy") /\ "tidy" \in Steps
      BY <2>2 DEF Finish, Steps
    <3>2. /\ job' \in [Threads -> Job] /\ \A u \in Threads \ {t} : job'[u] = job[u]
          /\ job'[t].task = job[t].task /\ job'[t].at = "tidy"
          /\ job'[t].pack = p /\ job'[t].release = n
      BY <3>1, AdvanceIs DEF IInv, Types
    <3>3. job'[t] \in Job /\ job'[t].task \in DOMAIN StepsOf
      BY <1>2, <3>2, OperationsAre
    <3>4. RequestOf(job'[t]) = Store!Request("made", p, n)
      BY <3>2, <3>3, RequestIs
    <3>5. Requests' = [Requests EXCEPT ![t] = Store!Request("made", p, n)]
      BY <3>2, <3>4, RequestsChange
    <3> QED
      BY <1>2, <2>2, <3>5
  <2> QED
    BY <1>1, <2>1, <2>2 DEF Changing
<1>7. ASSUME ~rewound, n # 0
      PROVE  Store!Met(p, n)
  <2>1. job[t].task \in {"fresh", "update"}
    BY <1>1, <1>2, <1>7 DEF Changing
  <2>2. Satisfied(p, n)
    BY <1>2, <1>7, <2>1 DEF OperationFits, ApplyFits
  <2>3. n \in Numbers(p)
    BY <1>2, <2>1
  <2>4. \A id \in DOMAIN Releases[p][n].depends : id \in Packs => id \in Packs \ {p}
    BY <1>2, <2>3, ReleasesAreValid, IdsAreApart DEF ValidRelease
  <2>5. \A id \in DOMAIN Releases[p][n].depends :
           Store!VersionOf(id) = IF id \in Packs THEN disk.record[id] ELSE game
    BY <1>4, <2>4 DEF Store!VersionOf
  <2> QED
    BY <2>2, <2>5 DEF Store!Met, Satisfied
<1>8. ASSUME ~rewound, ~blind, n = 0
      PROVE  Store!Unneeded(p)
  <2>1. job[t].task = "remove"
    BY <1>1, <1>2, <1>8 DEF Changing
  <2>2. \A q \in Packs : disk.record[q] # 0 => p \notin DOMAIN Releases[q][disk.record[q]].depends
    BY <1>1, <1>2, <1>8, <2>1 DEF OperationFits, RemoveFits
  <2>3. ASSUME NEW q \in Packs, Installed[q] # 0
        PROVE  p \notin DOMAIN Releases[q][Installed[q]].depends
    <3>1. CASE q # p
      BY <1>4, <2>2, <2>3, <3>1
    <3>2. CASE q = p
      <4>1. Installed[q] \in Numbers(q)
        BY <2>3, RestoredIs, KnownIs DEF IInv, Types, RestoredFits, DiskKnown, Installed
      <4> QED
        BY <3>2, <4>1, ReleasesAreValid, IdsAreApart DEF ValidRelease
    <3> QED
      BY <3>1, <3>2
  <2> QED
    BY <2>3 DEF Store!Unneeded
<1> HIDE DEF p, n
<1>9. Store!Make(t)
  BY <1>1, <1>3, <1>5, <1>6, <1>7, <1>8 DEF Store!Make
<1> QED
  BY <1>9 DEF StoreStep, Store!Next

(* Every step is a step of PackStore, or one it does not see. *)
LEMMA StoreSteps ==
  ASSUME IInv, [Next]_vars
  PROVE  StoreStep
<1>1. IInv' /\ StoreFits'
  BY Step DEF IInv, Types
<1>2. CASE \E t \in Threads : Finish(t)
  <2>1. PICK t \in Threads : Finish(t)
    BY <1>2
  <2>2. Kept' = Kept
    BY <2>1 DEF Finish, Kept
  <2> QED
    BY <1>1, <2>1, <2>2, MakesInStore
<1>3. CASE ~\E t \in Threads : Finish(t)
  <2>1. Installed' = Installed
    BY <1>1, <1>3, InstalledStep
  <2>2. CASE \E d \in Directories : Customize(d)
    BY <2>1, <2>2, CustomizesInStore
  <2>3. CASE ~\E d \in Directories : Customize(d)
    <3>1. Still
      BY <2>1, <2>3, KeptStep DEF Still
    <3>2. CASE \/ Open \/ BackToReady
               \/ \E t \in Threads : Scan(t) \/ Manage(t) \/ RetryScan(t)
      BY <1>1, <3>1, <3>2, ScreensInStore
    <3>3. CASE Exit \/ Play
      BY <3>1, <3>3, StopsInStore
    <3>4. CASE \E t \in Threads, p \in Packs : StartInstall(t, p) \/ StartRemove(t, p)
      BY <1>1, <3>1, <3>4, AsksInStore
    <3>5. ASSUME NEW t \in Threads, Operate(t)
          PROVE  StoreStep
      <4>1. ~Finish(t)
        BY <1>3
      <4> QED
        BY <1>1, <3>1, <3>5, <4>1, InstallsInStore, MisleadsInStore, AppliesInStore,
           TidiesInStore, AnswersInStore DEF Operate
    <3>6. CASE \/ UpdateGame \/ UNCHANGED vars
               \/ \E p \in Packs : Publish(p)
               \/ \E d \in Directories, f \in Files : Damage(d, f)
      BY <3>1, <3>6, OthersInStore
    <3> QED
      BY <2>3, <3>2, <3>3, <3>4, <3>5, <3>6 DEF Next
  <2> QED
    BY <2>2, <2>3
<1> QED
  BY <1>2, <1>3

(* It starts as PackStore does, with nothing installed. *)
LEMMA StoreInit == Init => Store!Init
<1> SUFFICES ASSUME Init PROVE Store!Init
  OBVIOUS
<1>1. /\ disk = NoDisk /\ transaction = Closed /\ ~transaction.open
      /\ job = [t \in Threads |-> Idle] /\ own = [d \in Directories |-> "none"]
      /\ game = 1 /\ rewound = FALSE /\ blind = FALSE
  BY ClosedIs DEF Init, NoMemory
<1>2. Installed = [p \in Packs |-> 0]
  BY <1>1 DEF Installed, Restored, NoDisk, NoCatalog
<1>3. Kept = {}
  BY <1>1 DEF Kept
<1>4. Requests = [t \in Threads |-> Store!None]
  BY <1>1, RequestIs DEF Requests
<1> QED
  BY <1>1, <1>2, <1>3, <1>4 DEF Store!Init

(* Through failures, kills and recoveries, changes of packs are made whole, once, one at
   a time and between their choice and their answer, where what they need is installed. *)
THEOREM ChangesAreAtomic == Spec => ImplementsPackStore
BY StoreInit, StoreSteps, Invariance, PTL DEF Spec, ImplementsPackStore, Store!Spec, StoreStep

(* What a change asked for names, and what is installed, exists. *)
StoreTypes ==
    /\ Known(Installed) /\ rewound \in BOOLEAN /\ blind \in BOOLEAN
    /\ \A t \in Threads : Requests[t].state = "asked" =>
           /\ Requests[t].pack \in Packs
           /\ Requests[t].release \in 0 .. Len(Releases[Requests[t].pack])
StoreInv == StoreTypes /\ Store!DependenciesHold

(* The requests after the request of one thread has changed. *)
LEMMA RequestsAre ==
  ASSUME NEW t \in Threads, NEW r, Requests' = [Requests EXCEPT ![t] = r]
  PROVE  Requests'[t] = r /\ \A u \in Threads \ {t} : Requests'[u] = Requests[u]
BY DEF Requests

(* A change that PackStore makes leaves no dependency unmet. *)
LEMMA MakeKeepsDependencies ==
  ASSUME StoreInv, NEW t \in Threads, Store!Make(t)
  PROVE  StoreInv'
<1>1. PICK p, n : p = Requests[t].pack /\ n = Requests[t].release
  OBVIOUS
<1>2. /\ Requests[t].state = "asked" /\ p \in Packs /\ n \in 0 .. Len(Releases[p])
      /\ Installed' = [Installed EXCEPT ![p] = n]
      /\ Requests' = [Requests EXCEPT ![t] =
                         IF n = 0 THEN Store!Answer("success") ELSE Store!Request("made", p, n)]
      /\ ~rewound /\ n # 0 => Store!Met(p, n)
      /\ ~rewound /\ ~blind /\ n = 0 => Store!Unneeded(p)
      /\ UNCHANGED <<rewound, blind>>
  BY <1>1 DEF Store!Make, StoreInv, StoreTypes
<1>3. Known(Installed)'
  <2>1. Known([Installed EXCEPT ![p] = n])
    <3>1. n = 0 \/ n \in Numbers(p)
      BY <1>2, PacksHaveReleases DEF Numbers
    <3> QED
      BY <1>2, <3>1, KnownWith DEF StoreInv, StoreTypes
  <2> QED
    BY <1>2, <2>1 DEF Known
<1>4. StoreTypes'
  <2>1. Requests'[t].state # "asked"
    <3>1. /\ Store!Answer("success").state # "asked"
          /\ Store!Request("made", p, n).state # "asked"
      BY DEF Store!Answer, Store!Request
    <3>2. CASE n = 0
      BY <1>2, <3>1, <3>2, RequestsAre
    <3>3. CASE n # 0
      BY <1>2, <3>1, <3>3, RequestsAre
    <3> QED
      BY <3>2, <3>3
  <2>2. \A u \in Threads \ {t} : Requests'[u] = Requests[u]
    BY <1>2, RequestsAre
  <2> QED
    BY <1>2, <1>3, <2>1, <2>2 DEF StoreInv, StoreTypes
<1>5. Installed'[p] = n /\ \A q \in Packs \ {p} : Installed'[q] = Installed[q]
  BY <1>2 DEF StoreInv, StoreTypes, Known
<1>6. ASSUME ~rewound, ~blind, NEW q \in Packs, Installed'[q] # 0,
             NEW r \in Packs \cap DOMAIN Releases[q][Installed'[q]].depends
      PROVE  Installed'[r] # 0
  <2>1. CASE q = p
    <3>1. n # 0 /\ n \in Numbers(p) /\ r \in DOMAIN Releases[p][n].depends
      BY <1>2, <1>5, <1>6, <2>1, PacksHaveReleases DEF Numbers
    <3>2. r # p /\ 0 \notin Releases[p][n].depends[r]
      BY <1>2, <3>1, ReleasesAreValid, IdsAreApart DEF ValidRelease, NoVersion
    <3>3. Installed[r] \in Releases[p][n].depends[r]
      BY <1>2, <1>6, <3>1 DEF Store!Met, Store!VersionOf
    <3> QED
      BY <1>5, <3>2, <3>3
  <2>2. CASE q # p
    <3>1. Installed[q] # 0 /\ r \in DOMAIN Releases[q][Installed[q]].depends
      BY <1>5, <1>6, <2>2
    <3>2. Installed[r] # 0
      BY <1>6, <3>1 DEF StoreInv, Store!DependenciesHold
    <3>3. CASE r = p
      BY <1>2, <1>5, <1>6, <3>1, <3>3 DEF Store!Unneeded
    <3> QED
      BY <1>5, <3>2, <3>3
  <2> QED
    BY <2>1, <2>2
<1>7. Store!DependenciesHold'
  BY <1>2, <1>6 DEF Store!DependenciesHold
<1> QED
  BY <1>4, <1>7 DEF StoreInv

(* So does every other step of PackStore. *)
LEMMA StoreKeepsDependencies ==
  ASSUME StoreInv, StoreStep
  PROVE  StoreInv'
<1>1. ASSUME Installed' = Installed, rewound => rewound', blind => blind',
             rewound' \in BOOLEAN, blind' \in BOOLEAN
      PROVE  Store!DependenciesHold' /\ Known(Installed)'
  BY <1>1 DEF StoreInv, StoreTypes, Known, Store!DependenciesHold
<1>2. ASSUME Installed' = Installed, Requests' = Requests, rewound => rewound', blind => blind',
             rewound' \in BOOLEAN, blind' \in BOOLEAN
      PROVE  StoreInv'
  BY <1>1, <1>2 DEF StoreInv, StoreTypes
<1>3. ASSUME NEW t \in Threads, NEW r, Requests' = [Requests EXCEPT ![t] = r],
             r.state = "asked" => r.pack \in Packs /\ r.release \in 0 .. Len(Releases[r.pack]),
             Installed' = Installed, UNCHANGED <<rewound, blind>>
      PROVE  StoreInv'
  <2>1. Store!DependenciesHold' /\ Known(Installed)'
    BY <1>1, <1>3 DEF StoreInv, StoreTypes
  <2> QED
    BY <1>3, <2>1, RequestsAre DEF StoreInv, StoreTypes
<1>4. ASSUME NEW t \in Threads, Store!Fail(t) \/ Store!Succeed(t) \/ Store!Show(t)
      PROVE  StoreInv'
  <2>1. /\ Store!Answer("failure").state # "asked" /\ Store!Answer("success").state # "asked"
        /\ Store!None.state # "asked"
    BY DEF Store!Answer, Store!None
  <2> QED
    BY <1>3, <1>4, <2>1 DEF Store!Fail, Store!Succeed, Store!Show
<1>5. ASSUME NEW t \in Threads, Store!Ask(t)
      PROVE  StoreInv'
  <2>1. PICK p \in Packs : \E n \in 0 .. Len(Releases[p]) :
            Requests' = [Requests EXCEPT ![t] = Store!Request("asked", p, n)]
    BY <1>5 DEF Store!Ask
  <2>2. PICK n \in 0 .. Len(Releases[p]) :
            Requests' = [Requests EXCEPT ![t] = Store!Request("asked", p, n)]
    BY <2>1
  <2>3. /\ Store!Request("asked", p, n).pack = p
        /\ Store!Request("asked", p, n).release = n
    BY DEF Store!Request
  <2> QED
    BY <1>3, <1>5, <2>2, <2>3 DEF Store!Ask
<1>6. CASE Store!Stop
  <2>1. Requests' = [t \in Threads |-> Store!None]
    BY <1>6 DEF Store!Stop
  <2>2. \A t \in Threads : Requests'[t].state # "asked"
    BY <2>1 DEF Store!None
  <2> QED
    BY <1>1, <1>6, <2>2 DEF Store!Stop, StoreInv, StoreTypes
<1>7. ASSUME NEW t \in Threads, Store!Mislead(t)
      PROVE  StoreInv'
  <2>1. /\ rewound' \in {rewound, TRUE} /\ blind' \in {blind, TRUE}
        /\ Installed' = Installed /\ Requests' = Requests
    BY <1>7 DEF Store!Mislead
  <2>2. rewound \in BOOLEAN /\ blind \in BOOLEAN
    BY DEF StoreInv, StoreTypes
  <2>3. /\ rewound => rewound'
        /\ blind => blind'
        /\ rewound' \in BOOLEAN /\ blind' \in BOOLEAN
    BY <2>1, <2>2
  <2> QED
    BY <1>2, <2>1, <2>3
<1>8. CASE Store!UpdateGame \/ (\E d \in Directories : Store!Keep(d)) \/ UNCHANGED Store!pvars
  BY <1>2, <1>8 DEF Store!UpdateGame, Store!Keep, Store!pvars, StoreInv, StoreTypes
<1> QED
  BY <1>4, <1>5, <1>6, <1>7, <1>8, MakeKeepsDependencies DEF StoreStep, Store!Next

(* PackStore is enough for its users: whatever implements it never lacks a pack that an
   installed one needs, unless a change was misled. *)
THEOREM AtomicChangesKeepDependencies == Store!Spec => []Store!DependenciesHold
<1>1. Store!Init => StoreInv
  <2> SUFFICES ASSUME Store!Init PROVE StoreInv
    OBVIOUS
  <2>1. /\ Installed = [p \in Packs |-> 0] /\ Requests = [t \in Threads |-> Store!None]
        /\ rewound = FALSE /\ blind = FALSE
    BY DEF Store!Init
  <2>2. Known(Installed)
    BY <2>1, PacksHaveReleases DEF Known
  <2>3. \A t \in Threads : Requests[t].state # "asked"
    BY <2>1 DEF Store!None
  <2> QED
    BY <2>1, <2>2, <2>3 DEF StoreInv, StoreTypes, Store!DependenciesHold
<1>2. StoreInv => Store!DependenciesHold
  BY DEF StoreInv
<1> QED
  BY <1>1, <1>2, StoreKeepsDependencies, PTL DEF Store!Spec, StoreStep

-----------------------------------------------------------------------------
(* The order of versions (Versions.tla). Each comparison of versions.rs is     *)
(* shown to be one of the three orderings, Equal exactly for equal arguments,  *)
(* and Less and Greater exactly where semantic versioning puts one before the  *)
(* other: first for the comparison of a list from that of its elements, then   *)
(* for bytes, numerals, identifiers, prereleases and versions.                 *)

Signs == {Less, Equal, Greater}

(* A set of natural numbers that has an element has a least one. *)
LEMMA LeastIs ==
    ASSUME NEW S, S \subseteq Nat, S # {}
    PROVE  \E m \in S : \A n \in S : m <= n
<1> DEFINE less == OpToRel(<, Nat)
<1>1. IsWellFoundedOn(less, Nat)
  BY NatLessThanWellFounded, Zenon
<1>2. \E m \in S : \A n \in S : ~ (<<n, m>> \in less)
  <2> HIDE DEF less
  <2> QED BY <1>1, WFMin, Zenon
<1>3. \A m, n \in Nat : <<n, m>> \in less <=> n < m
  BY DEF OpToRel
<1> HIDE DEF less
<1>4. PICK m \in S : \A n \in S : ~ (<<n, m>> \in less)
  BY <1>2
<1>5. \A n \in S : ~ (n < m)
  BY <1>3, <1>4, Zenon
<1> QED BY <1>5

(* A comparison that is not Equal, after those that are, decides. *)
LEMMA FirstUnequalAt ==
    ASSUME NEW c \in Seq(Signs), NEW i \in Positions(c), c[i] # Equal,
           \A j \in 1 .. (i - 1) : c[j] = Equal
    PROVE  FirstUnequal(c) = c[i]
<1> DEFINE deciding == {k \in Positions(c) : c[k] # Equal}
<1>1. i \in deciding /\ \A k \in deciding : i <= k
  BY DEF Positions
<1>2. \A k \in deciding : (\A j \in deciding : k <= j) => k = i
  BY <1>1 DEF Positions
<1>3. (CHOOSE k \in deciding : \A j \in deciding : k <= j) = i
  <2> HIDE DEF deciding
  <2> QED BY <1>1, <1>2, Zenon
<1>4. deciding # {}
  BY <1>1
<1> QED BY <1>3, <1>4 DEF FirstUnequal

(* FirstUnequal is Equal, or it is the first comparison that is not. *)
LEMMA FirstUnequalIs ==
    ASSUME NEW c \in Seq(Signs)
    PROVE  \/ FirstUnequal(c) = Equal /\ \A i \in Positions(c) : c[i] = Equal
           \/ \E i \in Positions(c) :
                  c[i] # Equal /\ FirstUnequal(c) = c[i] /\ \A j \in 1 .. (i - 1) : c[j] = Equal
<1> DEFINE deciding == {k \in Positions(c) : c[k] # Equal}
<1>1. CASE deciding = {}
  <2>1. FirstUnequal(c) = Equal
    BY <1>1 DEF FirstUnequal
  <2>2. \A i \in Positions(c) : c[i] = Equal
    BY <1>1
  <2> QED BY <2>1, <2>2
<1>2. CASE deciding # {}
  <2>1. deciding \subseteq Nat
    BY DEF Positions
  <2>2. PICK i \in deciding : \A j \in deciding : i <= j
    BY <2>1, <1>2, LeastIs, Zenon
  <2>3. \A j \in 1 .. (i - 1) : c[j] = Equal
    BY <2>2 DEF Positions
  <2>4. FirstUnequal(c) = c[i]
    BY <2>2, <2>3, FirstUnequalAt
  <2> QED BY <2>2, <2>3, <2>4
<1> QED BY <1>1, <1>2

LEMMA FirstUnequalSigns ==
    ASSUME NEW c \in Seq(Signs) PROVE FirstUnequal(c) \in Signs
<1>1. \A i \in Positions(c) : c[i] \in Signs
  BY DEF Positions
<1> QED BY <1>1, FirstUnequalIs DEF Signs

(* c compares the lists s and t place by place. *)
ComparesLists(c, s, t) ==
    /\ c \in Seq(Signs)
    /\ Len(c) = Longer(s, t)
    /\ \A i \in 1 .. Longer(s, t) :
           /\ i > Len(s) => c[i] = Less
           /\ i <= Len(s) /\ i > Len(t) => c[i] = Greater
           /\ i <= Len(s) /\ i <= Len(t) => (c[i] = Equal <=> s[i] = t[i])

(* Two lists begin alike when they agree at each of the first places. *)
LEMMA SameBeginning ==
    ASSUME NEW S, NEW s \in Seq(S), NEW t \in Seq(S), NEW n \in Nat, n <= Len(s), n <= Len(t)
    PROVE  SubSeq(s, 1, n) = SubSeq(t, 1, n) <=> \A i \in 1 .. n : s[i] = t[i]
<1>1. /\ SubSeq(s, 1, n) \in Seq(S) /\ Len(SubSeq(s, 1, n)) = n
      /\ \A i \in 1 .. n : SubSeq(s, 1, n)[i] = s[i]
  OBVIOUS
<1>2. /\ SubSeq(t, 1, n) \in Seq(S) /\ Len(SubSeq(t, 1, n)) = n
      /\ \A i \in 1 .. n : SubSeq(t, 1, n)[i] = t[i]
  OBVIOUS
<1> QED BY <1>1, <1>2

(* Lists compare as equal when they are, and as Less or Greater when the first
   difference, or the end of one of them, says so. *)
LEMMA ListsEqual ==
    ASSUME NEW S, NEW s \in Seq(S), NEW t \in Seq(S), NEW c, ComparesLists(c, s, t)
    PROVE  FirstUnequal(c) = Equal <=> s = t
<1>1. c \in Seq(Signs) /\ Len(c) = Longer(s, t)
  BY DEF ComparesLists
<1>2. (\A i \in Positions(c) : c[i] = Equal) <=> s = t
  <2>1. ASSUME s = t PROVE \A i \in Positions(c) : c[i] = Equal
    BY <2>1 DEF ComparesLists, Positions, Longer
  <2>2. ASSUME \A i \in Positions(c) : c[i] = Equal PROVE s = t
    <3>1. Len(s) = Len(t)
      BY <2>2 DEF ComparesLists, Positions, Longer, Less, Equal, Greater
    <3>2. \A i \in 1 .. Len(s) : s[i] = t[i]
      BY <2>2, <3>1 DEF ComparesLists, Positions, Longer
    <3> QED BY <3>1, <3>2
  <2> QED BY <2>1, <2>2
<1> QED BY <1>1, <1>2, FirstUnequalIs

LEMMA ListsLess ==
    ASSUME NEW S, NEW s \in Seq(S), NEW t \in Seq(S), NEW c, ComparesLists(c, s, t)
    PROVE  FirstUnequal(c) = Less <=>
               \E n \in 0 .. Len(s) :
                   /\ n <= Len(t)
                   /\ SubSeq(s, 1, n) = SubSeq(t, 1, n)
                   /\ n < Len(t)
                   /\ n < Len(s) => c[n + 1] = Less
<1>1. c \in Seq(Signs) /\ Len(c) = Longer(s, t)
  BY DEF ComparesLists
<1>2. ASSUME FirstUnequal(c) = Less
      PROVE  \E n \in 0 .. Len(s) :
                 n <= Len(t) /\ SubSeq(s, 1, n) = SubSeq(t, 1, n) /\ n < Len(t)
                     /\ (n < Len(s) => c[n + 1] = Less)
  <2>1. PICK i \in Positions(c) : c[i] = Less /\ \A j \in 1 .. (i - 1) : c[j] = Equal
    BY <1>1, <1>2, FirstUnequalIs DEF Less, Equal
  <2>2. i \in 1 .. Longer(s, t)
    BY <1>1 DEF Positions
  <2>3. i <= Len(t)
    BY <2>1, <2>2 DEF ComparesLists, Longer, Less, Equal, Greater
  <2>4. i - 1 <= Len(s)
    BY <2>1, <2>2, <2>3 DEF ComparesLists, Longer, Less, Equal, Greater
  <2>5. \A j \in 1 .. (i - 1) : s[j] = t[j]
    BY <2>1, <2>2, <2>3, <2>4 DEF ComparesLists, Longer
  <2>6. SubSeq(s, 1, i - 1) = SubSeq(t, 1, i - 1)
    BY <2>2, <2>3, <2>4, <2>5, SameBeginning
  <2>7. i - 1 \in 0 .. Len(s) /\ i - 1 <= Len(t) /\ i - 1 < Len(t) /\ c[(i - 1) + 1] = Less
    BY <2>1, <2>2, <2>3, <2>4
  <2> QED BY <2>6, <2>7
<1>3. ASSUME NEW n \in 0 .. Len(s), n <= Len(t), SubSeq(s, 1, n) = SubSeq(t, 1, n), n < Len(t),
             n < Len(s) => c[n + 1] = Less
      PROVE  FirstUnequal(c) = Less
  <2>1. \A i \in 1 .. n : s[i] = t[i]
    BY <1>3, SameBeginning
  <2>2. n + 1 \in Positions(c)
    BY <1>1, <1>3 DEF Positions, Longer
  <2>3. c[n + 1] = Less
    BY <1>3 DEF ComparesLists, Longer
  <2>4. \A j \in 1 .. ((n + 1) - 1) : c[j] = Equal
    BY <1>3, <2>1 DEF ComparesLists, Longer
  <2>5. Less # Equal
    BY DEF Less, Equal
  <2> QED BY <1>1, <2>2, <2>3, <2>4, <2>5, FirstUnequalAt
<1> QED BY <1>2, <1>3

LEMMA ListsGreater ==
    ASSUME NEW S, NEW s \in Seq(S), NEW t \in Seq(S), NEW c, ComparesLists(c, s, t)
    PROVE  FirstUnequal(c) = Greater <=>
               \E n \in 0 .. Len(t) :
                   /\ n <= Len(s)
                   /\ SubSeq(t, 1, n) = SubSeq(s, 1, n)
                   /\ n < Len(s)
                   /\ n < Len(t) => c[n + 1] = Greater
<1>1. c \in Seq(Signs) /\ Len(c) = Longer(s, t)
  BY DEF ComparesLists
<1>2. ASSUME FirstUnequal(c) = Greater
      PROVE  \E n \in 0 .. Len(t) :
                 n <= Len(s) /\ SubSeq(t, 1, n) = SubSeq(s, 1, n) /\ n < Len(s)
                     /\ (n < Len(t) => c[n + 1] = Greater)
  <2>1. PICK i \in Positions(c) : c[i] = Greater /\ \A j \in 1 .. (i - 1) : c[j] = Equal
    BY <1>1, <1>2, FirstUnequalIs DEF Greater, Equal
  <2>2. i \in 1 .. Longer(s, t)
    BY <1>1 DEF Positions
  <2>3. i <= Len(s)
    BY <2>1, <2>2 DEF ComparesLists, Longer, Less, Equal, Greater
  <2>4. i - 1 <= Len(t)
    BY <2>1, <2>2, <2>3 DEF ComparesLists, Longer, Less, Equal, Greater
  <2>5. \A j \in 1 .. (i - 1) : s[j] = t[j]
    BY <2>1, <2>2, <2>3, <2>4 DEF ComparesLists, Longer
  <2>6. SubSeq(t, 1, i - 1) = SubSeq(s, 1, i - 1)
    BY <2>2, <2>3, <2>4, <2>5, SameBeginning
  <2>7. i - 1 \in 0 .. Len(t) /\ i - 1 <= Len(s) /\ i - 1 < Len(s) /\ c[(i - 1) + 1] = Greater
    BY <2>1, <2>2, <2>3, <2>4
  <2> QED BY <2>6, <2>7
<1>3. ASSUME NEW n \in 0 .. Len(t), n <= Len(s), SubSeq(t, 1, n) = SubSeq(s, 1, n), n < Len(s),
             n < Len(t) => c[n + 1] = Greater
      PROVE  FirstUnequal(c) = Greater
  <2>1. \A i \in 1 .. n : s[i] = t[i]
    BY <1>3, SameBeginning
  <2>2. n + 1 \in Positions(c)
    BY <1>1, <1>3 DEF Positions, Longer
  <2>3. c[n + 1] = Greater
    BY <1>3 DEF ComparesLists, Longer
  <2>4. \A j \in 1 .. ((n + 1) - 1) : c[j] = Equal
    BY <1>3, <2>1 DEF ComparesLists, Longer
  <2>5. Greater # Equal
    BY DEF Greater, Equal
  <2> QED BY <1>1, <2>2, <2>3, <2>4, <2>5, FirstUnequalAt
<1> QED BY <1>2, <1>3

LEMMA OrderingIs ==
    ASSUME NEW m \in Int, NEW n \in Int
    PROVE  /\ Ordering(m, n) \in Signs
           /\ Ordering(m, n) = Equal <=> m = n
           /\ Ordering(m, n) = Less <=> m < n
           /\ Ordering(m, n) = Greater <=> n < m
BY DEF Ordering, Signs, Less, Equal, Greater

LEMMA BytesAreInt == \A b \in Bytes : b \in Int
BY DEF Bytes

(* str::cmp is the lexicographic order of the bytes. *)
LEMMA CompareTextIs ==
    ASSUME NEW s \in Seq(Bytes), NEW t \in Seq(Bytes)
    PROVE  /\ CompareText(s, t) \in Signs
           /\ CompareText(s, t) = Equal <=> s = t
           /\ CompareText(s, t) = Less <=> ListPrecedes(s, t, Smaller)
           /\ CompareText(s, t) = Greater <=> ListPrecedes(t, s, Smaller)
<1> DEFINE c == [i \in 1 .. Longer(s, t) |->
                    IF i > Len(s) THEN Less
                    ELSE IF i > Len(t) THEN Greater ELSE Ordering(s[i], t[i])]
<1>1. Longer(s, t) \in Nat /\ Len(s) <= Longer(s, t) /\ Len(t) <= Longer(s, t)
  BY DEF Longer
<1>2. \A i \in 1 .. Len(s) : s[i] \in Int
  <2>1. \A i \in 1 .. Len(s) : s[i] \in Bytes
    OBVIOUS
  <2> QED BY <2>1, BytesAreInt
<1>3. \A i \in 1 .. Len(t) : t[i] \in Int
  <2>1. \A i \in 1 .. Len(t) : t[i] \in Bytes
    OBVIOUS
  <2> QED BY <2>1, BytesAreInt
<1>4. \A i \in 1 .. Longer(s, t) : c[i] \in Signs
  BY <1>1, <1>2, <1>3, OrderingIs DEF Signs
<1>5. c \in Seq(Signs) /\ Len(c) = Longer(s, t)
  BY <1>1, <1>4
<1>6. ComparesLists(c, s, t)
  BY <1>1, <1>2, <1>3, <1>5, OrderingIs DEF ComparesLists
<1>7. CompareText(s, t) = FirstUnequal(c)
  BY DEF CompareText
<1>8. \A n \in Nat : n < Len(s) /\ n < Len(t) =>
          /\ c[n + 1] = Less <=> Smaller(s[n + 1], t[n + 1])
          /\ c[n + 1] = Greater <=> Smaller(t[n + 1], s[n + 1])
  BY <1>1, <1>2, <1>3, OrderingIs DEF Smaller
<1> HIDE DEF c
<1>9. CompareText(s, t) = Less <=> ListPrecedes(s, t, Smaller)
  <2>1. FirstUnequal(c) = Less <=>
            \E n \in 0 .. Len(s) :
                /\ n <= Len(t)
                /\ SubSeq(s, 1, n) = SubSeq(t, 1, n)
                /\ n < Len(t)
                /\ n < Len(s) => c[n + 1] = Less
    BY <1>6, ListsLess, Zenon
  <2>2. \A n \in 0 .. Len(s) : n < Len(t) /\ n < Len(s) =>
            (c[n + 1] = Less <=> Smaller(s[n + 1], t[n + 1]))
    <3>1. \A n \in 0 .. Len(s) : n \in Nat
      OBVIOUS
    <3> QED BY <1>8, <3>1, Zenon
  <2> QED BY <1>7, <2>1, <2>2, Zenon DEF ListPrecedes
<1>10. CompareText(s, t) = Greater <=> ListPrecedes(t, s, Smaller)
  <2>1. FirstUnequal(c) = Greater <=>
            \E n \in 0 .. Len(t) :
                /\ n <= Len(s)
                /\ SubSeq(t, 1, n) = SubSeq(s, 1, n)
                /\ n < Len(s)
                /\ n < Len(t) => c[n + 1] = Greater
    BY <1>6, ListsGreater, Zenon
  <2>2. \A n \in 0 .. Len(t) : n < Len(s) /\ n < Len(t) =>
            (c[n + 1] = Greater <=> Smaller(t[n + 1], s[n + 1]))
    <3>1. \A n \in 0 .. Len(t) : n \in Nat
      OBVIOUS
    <3> QED BY <1>8, <3>1, Zenon
  <2> QED BY <1>7, <2>1, <2>2, Zenon DEF ListPrecedes
<1>11. CompareText(s, t) = Equal <=> s = t
  BY <1>6, <1>7, ListsEqual
<1>12. CompareText(s, t) \in Signs
  BY <1>5, <1>7, FirstUnequalSigns
<1> QED BY <1>9, <1>10, <1>11, <1>12

(* f[n] is the value of the first n digits of the numeral. *)
Values(f, numeral) ==
    /\ f \in [0 .. Len(numeral) -> Nat]
    /\ f[0] = 0
    /\ \A n \in 1 .. Len(numeral) : f[n] = 10 * f[n - 1] + numeral[n] - 48

Numerals == {s \in Seq(Bytes) : IsNumeric(s)}

LEMMA NumeralDigits ==
    ASSUME NEW s \in Numerals
    PROVE  \A i \in 1 .. Len(s) : s[i] \in 48 .. 57
BY DEF Numerals, IsNumeric, Digits, Positions

(* A set that has 0 and with n - 1 also n has all the numbers up to N: there is no least
   one that it lacks. *)
LEMMA LeastOutside ==
    ASSUME NEW N \in Nat, NEW S, 0 \in S, \A n \in 1 .. N : n - 1 \in S => n \in S
    PROVE  \A n \in 0 .. N : n \in S
<1> SUFFICES ASSUME ~ \A n \in 0 .. N : n \in S PROVE FALSE
  OBVIOUS
<1> DEFINE T == {n \in 0 .. N : n \notin S}
<1>1. T \subseteq Nat /\ T # {}
  OBVIOUS
<1>2. PICK m \in T : \A n \in T : m <= n
  BY <1>1, LeastIs, Zenon
<1>3. m # 0 /\ m \in 1 .. N
  BY <1>2
<1>4. m - 1 \in S
  BY <1>2, <1>3
<1> QED BY <1>2, <1>3, <1>4

(* The value of a numeral is what its digits, from the first to the last, give. *)
LEMMA ValuesExist ==
    ASSUME NEW s \in Numerals
    PROVE  \E f : Values(f, s)
<1> DEFINE Upto(k, f) == /\ f \in [0 .. k -> Nat] /\ f[0] = 0
                         /\ \A n \in 1 .. k : f[n] = 10 * f[n - 1] + s[n] - 48
           S == {k \in Nat : \E f : Upto(k, f)}
<1>0. Len(s) \in Nat
  BY DEF Numerals
<1>1. 0 \in S
  <2>1. Upto(0, [n \in 0 .. 0 |-> 0])
    OBVIOUS
  <2> QED BY <2>1
<1>2. ASSUME NEW n \in 1 .. Len(s), n - 1 \in S PROVE n \in S
  <2>1. PICK f : Upto(n - 1, f)
    BY <1>2
  <2>2. n - 1 \in Nat /\ f[n - 1] \in Nat
    BY <1>0, <2>1
  <2>3. s[n] \in 48 .. 57
    BY NumeralDigits
  <2> DEFINE g == [k \in 0 .. n |-> IF k = n THEN 10 * f[n - 1] + s[n] - 48 ELSE f[k]]
  <2>4. g \in [0 .. n -> Nat]
    <3>1. 10 * f[n - 1] + s[n] - 48 \in Nat
      <4>1. \A x \in Nat, d \in 48 .. 57 : 10 * x + d - 48 \in Nat
        OBVIOUS
      <4> HIDE DEF S, Upto
      <4> QED BY <2>2, <2>3, <4>1
    <3>2. \A k \in 0 .. n : k # n => f[k] \in Nat
      BY <2>1
    <3> QED BY <3>1, <3>2
  <2>5. g[0] = 0
    BY <2>1, <1>0
  <2>6. ASSUME NEW k \in 1 .. n PROVE g[k] = 10 * g[k - 1] + s[k] - 48
    <3>1. k - 1 \in 0 .. n /\ k - 1 # n
      BY <1>0
    <3>2. g[k - 1] = f[k - 1]
      BY <3>1
    <3>3. CASE k = n
      BY <3>2, <3>3
    <3>4. CASE k # n
      <4>1. k \in 1 .. (n - 1) /\ g[k] = f[k]
        BY <3>4, <1>0
      <4> QED BY <4>1, <3>2, <2>1
    <3> QED BY <3>3, <3>4
  <2>7. Upto(n, g)
    <3> HIDE DEF g
    <3> QED BY <2>4, <2>5, <2>6
  <2> HIDE DEF g, Upto
  <2>8. n \in Nat
    BY <1>0
  <2> QED BY <2>7, <2>8
<1>3. Len(s) \in S
  <2> HIDE DEF S
  <2>1. \A n \in 0 .. Len(s) : n \in S
    BY <1>0, <1>1, <1>2, LeastOutside
  <2> QED BY <1>0, <2>1
<1> QED BY <1>3 DEF Values

LEMMA ValueIs ==
    ASSUME NEW s \in Numerals
    PROVE  \E f : Values(f, s) /\ ValueOf(s) = f[Len(s)]
<1>1. PICK f : Values(f, s)
  BY ValuesExist
<1>2. Len(s) \in Nat
  BY DEF Numerals
<1> DEFINE Prefixes(p) == [n \in 0 .. Len(s) |->
                               IF n = 0 THEN 0 ELSE 10 * p[n - 1] + s[n] - Zero[1]]
           g == CHOOSE p : p = Prefixes(p)
<1>3. f = Prefixes(f)
  <2>1. \A n \in 0 .. Len(s) : f[n] = Prefixes(f)[n]
    BY <1>1, <1>2 DEF Values, Zero
  <2> QED BY <1>1, <2>1 DEF Values
<1>4. g = Prefixes(g)
  <2> HIDE DEF Prefixes
  <2> QED BY <1>3, Zenon
<1>5. ValueOf(s) = g[Len(s)]
  BY DEF ValueOf
<1> HIDE DEF g
<1>6. /\ g[0] = 0
      /\ \A n \in 1 .. Len(s) : g[n] = 10 * g[n - 1] + s[n] - 48
  BY <1>2, <1>4 DEF Zero
<1>7. \A n \in 0 .. Len(s) : g[n] = f[n]
  <2> DEFINE S == {n \in 0 .. Len(s) : g[n] = f[n]}
  <2>1. 0 \in S
    BY <1>1, <1>2, <1>6 DEF Values
  <2>2. \A n \in 1 .. Len(s) : n - 1 \in S => n \in S
    BY <1>1, <1>2, <1>6 DEF Values
  <2>3. \A n \in 0 .. Len(s) : n \in S
    <3> HIDE DEF S
    <3> QED BY <1>2, <2>1, <2>2, LeastOutside
  <2> QED BY <2>3
<1> QED BY <1>1, <1>2, <1>5, <1>7

(* The numerals without a leading zero. *)
Plain == {s \in Seq(Bytes) : ValidNumeric(s)}

LEMMA PlainAreNumerals ==
    ASSUME NEW s \in Plain
    PROVE  s \in Numerals /\ Len(s) \in Nat /\ Len(s) >= 1 /\ (Len(s) >= 2 => s[1] > 48)
<1>1. s \in Numerals /\ Len(s) \in Nat /\ Len(s) >= 1
  BY DEF Plain, Numerals, ValidNumeric
<1>2. ASSUME Len(s) >= 2 PROVE s[1] > 48
  <2>1. s # Zero
    <3>1. Len(Zero) = 1
      BY DEF Zero
    <3>2. ASSUME s = Zero PROVE FALSE
      <4>1. Len(s) = 1
        BY <3>1, <3>2, Zenon
      <4> QED BY <1>2, <4>1
    <3> QED BY <3>2
  <2>2. s[1] # 48
    BY <2>1 DEF Plain, ValidNumeric, Zero
  <2> QED BY <1>1, <2>2, NumeralDigits
<1> QED BY <1>1, <1>2

(* One more digit leaves the larger value the larger, whatever the digits. *)
LEMMA DigitKeepsOrder ==
    /\ \A x, y \in Nat, d, e \in 48 .. 57 : x < y => 10 * x + d - 48 < 10 * y + e - 48
    /\ \A x \in Nat, d, e \in 48 .. 57 : d < e => 10 * x + d - 48 < 10 * x + e - 48
    /\ \A x \in Nat, d \in 48 .. 57 : x > 0 \/ d > 48 => 10 * x + d - 48 > 0
OBVIOUS

(* Without leading zeros the longer numeral has the larger value: the shorter one
   stays below the digits of the longer one that end where it does. *)
LEMMA LongerIsLarger ==
    ASSUME NEW s \in Plain, NEW t \in Plain, Len(s) < Len(t)
    PROVE  ValueOf(s) < ValueOf(t)
<1>1. s \in Numerals /\ t \in Numerals /\ Len(s) \in Nat /\ Len(t) \in Nat /\ Len(s) >= 1
      /\ t[1] > 48
  BY PlainAreNumerals
<1>2. PICK f : Values(f, s) /\ ValueOf(s) = f[Len(s)]
  BY <1>1, ValueIs
<1>3. PICK g : Values(g, t) /\ ValueOf(t) = g[Len(t)]
  BY <1>1, ValueIs
<1>4. \A n \in 1 .. Len(t) : t[n] \in 48 .. 57
  BY <1>1, NumeralDigits
<1>5. \A n \in 1 .. Len(s) : s[n] \in 48 .. 57
  BY <1>1, NumeralDigits
<1>6. \A n \in 1 .. Len(t) : g[n] > 0
  <2> DEFINE S == {n \in 0 .. Len(t) : n = 0 \/ g[n] > 0}
  <2>1. 0 \in S
    BY <1>1
  <2>2. ASSUME NEW n \in 1 .. Len(t), n - 1 \in S PROVE n \in S
    <3>1. g[n - 1] \in Nat /\ g[n] = 10 * g[n - 1] + t[n] - 48
      BY <1>1, <1>3 DEF Values
    <3>2. g[n - 1] > 0 \/ t[n] > 48
      BY <1>1, <2>2
    <3>3. g[n] > 0
      <4>1. t[n] \in 48 .. 57
        BY <1>4
      <4> HIDE DEF S
      <4> QED BY <3>1, <3>2, <4>1, DigitKeepsOrder
    <3> QED BY <3>3
  <2>3. \A n \in 0 .. Len(t) : n \in S
    <3> HIDE DEF S
    <3> QED BY <1>1, <2>1, <2>2, LeastOutside
  <2> QED BY <2>3
<1> DEFINE d == Len(t) - Len(s)
           S == {n \in 0 .. Len(s) : f[n] < g[d + n]}
<1>7. 0 \in S
  <2>1. d \in 1 .. Len(t) /\ d + 0 = d
    BY <1>1
  <2>2. f[0] = 0
    BY <1>2 DEF Values
  <2> QED BY <1>1, <1>6, <2>1, <2>2
<1>8. ASSUME NEW n \in 1 .. Len(s), n - 1 \in S PROVE n \in S
  <2>1. d + n \in 1 .. Len(t) /\ (d + n) - 1 = d + (n - 1) /\ n - 1 \in 0 .. Len(s)
        /\ d + (n - 1) \in 0 .. Len(t)
    BY <1>1
  <2>2. f[n - 1] \in Nat /\ f[n] = 10 * f[n - 1] + s[n] - 48
    BY <1>2, <2>1 DEF Values
  <2>3. g[d + (n - 1)] \in Nat /\ g[d + n] = 10 * g[d + (n - 1)] + t[d + n] - 48
    BY <1>3, <2>1 DEF Values
  <2>4. f[n - 1] < g[d + (n - 1)]
    BY <1>8
  <2>5. s[n] \in 48 .. 57 /\ t[d + n] \in 48 .. 57
    BY <1>4, <1>5, <2>1
  <2>6. f[n] < g[d + n]
    <3> HIDE DEF S, d
    <3> QED BY <2>2, <2>3, <2>4, <2>5, DigitKeepsOrder
  <2> QED BY <2>6
<1>9. \A n \in 0 .. Len(s) : n \in S
  <2> HIDE DEF S
  <2> QED BY <1>1, <1>7, <1>8, LeastOutside
<1>10. f[Len(s)] < g[d + Len(s)] /\ d + Len(s) = Len(t)
  BY <1>1, <1>9
<1> QED BY <1>2, <1>3, <1>10

(* Of numerals as long as each other the first different digit decides. *)
LEMMA FirstDigitDecides ==
    ASSUME NEW s \in Plain, NEW t \in Plain, Len(s) = Len(t), ListPrecedes(s, t, Smaller)
    PROVE  ValueOf(s) < ValueOf(t)
<1>1. s \in Numerals /\ t \in Numerals /\ Len(s) \in Nat /\ s \in Seq(Bytes) /\ t \in Seq(Bytes)
  BY PlainAreNumerals DEF Numerals
<1>2. PICK f : Values(f, s) /\ ValueOf(s) = f[Len(s)]
  BY <1>1, ValueIs
<1>3. PICK g : Values(g, t) /\ ValueOf(t) = g[Len(t)]
  BY <1>1, ValueIs
<1>4. \A n \in 1 .. Len(s) : s[n] \in 48 .. 57 /\ t[n] \in 48 .. 57
  BY <1>1, NumeralDigits
<1>5. \A n \in 1 .. Len(s) :
          /\ f[n - 1] \in Nat /\ f[n] = 10 * f[n - 1] + s[n] - 48
          /\ g[n - 1] \in Nat /\ g[n] = 10 * g[n - 1] + t[n] - 48
  BY <1>1, <1>2, <1>3 DEF Values
<1>6. PICK k \in 0 .. Len(s) : SubSeq(s, 1, k) = SubSeq(t, 1, k) /\ k < Len(s)
                               /\ s[k + 1] < t[k + 1]
  BY <1>1 DEF ListPrecedes, Smaller
<1>7. \A n \in 1 .. k : s[n] = t[n]
  BY <1>1, <1>6, SameBeginning
<1>8. f[k] = g[k]
  <2> DEFINE S == {n \in 0 .. k : f[n] = g[n]}
  <2>1. 0 \in S
    BY <1>1, <1>2, <1>3, <1>6 DEF Values
  <2>2. ASSUME NEW n \in 1 .. k, n - 1 \in S PROVE n \in S
    <3>1. n \in 1 .. Len(s) /\ s[n] = t[n]
      BY <1>1, <1>6, <1>7
    <3>2. f[n] = g[n]
      BY <1>5, <2>2, <3>1
    <3> QED BY <3>2
  <2>3. \A n \in 0 .. k : n \in S
    <3> HIDE DEF S
    <3>1. k \in Nat
      BY <1>1, <1>6
    <3> QED BY <2>1, <2>2, <3>1, LeastOutside
  <2>4. k \in 0 .. k
    BY <1>1, <1>6
  <2> QED BY <2>3, <2>4
<1>9. \A n \in 0 .. Len(s) : n > k => f[n] < g[n]
  <2> DEFINE S == {n \in 0 .. Len(s) : n > k => f[n] < g[n]}
  <2>1. 0 \in S
    BY <1>1, <1>6
  <2>2. ASSUME NEW n \in 1 .. Len(s), n - 1 \in S PROVE n \in S
    <3>1. CASE n - 1 > k
      <4>1. f[n - 1] < g[n - 1]
        BY <2>2, <3>1
      <4>2. f[n] < g[n]
        <5> HIDE DEF S
        <5> QED BY <1>4, <1>5, <4>1, DigitKeepsOrder
      <4> QED BY <4>2
    <3>2. CASE n - 1 = k
      <4>1. f[n - 1] = g[n - 1] /\ s[n] < t[n]
        BY <1>6, <1>8, <3>2
      <4>2. f[n] < g[n]
        <5> HIDE DEF S
        <5> QED BY <1>4, <1>5, <4>1, DigitKeepsOrder
      <4> QED BY <4>2
    <3>3. CASE n - 1 < k
      BY <1>1, <1>6, <3>3
    <3> QED BY <1>1, <1>6, <3>1, <3>2, <3>3
  <2>3. \A n \in 0 .. Len(s) : n \in S
    <3> HIDE DEF S
    <3> QED BY <1>1, <2>1, <2>2, LeastOutside
  <2> QED BY <2>3
<1>10. f[Len(s)] < g[Len(s)]
  BY <1>1, <1>6, <1>9
<1> QED BY <1>2, <1>3, <1>10

LEMMA ValueIsNat ==
    ASSUME NEW s \in Plain PROVE ValueOf(s) \in Nat
<1>1. s \in Numerals /\ Len(s) \in Nat
  BY PlainAreNumerals
<1>2. PICK f : Values(f, s) /\ ValueOf(s) = f[Len(s)]
  BY <1>1, ValueIs
<1> QED BY <1>1, <1>2 DEF Values

LEMMA FirstOfTwo ==
    ASSUME NEW x \in Signs, NEW y \in Signs
    PROVE  FirstUnequal(<<x, y>>) = IF x = Equal THEN y ELSE x
<1> DEFINE c == <<x, y>>
<1>1. c \in Seq(Signs) /\ Positions(c) = 1 .. 2 /\ c[1] = x /\ c[2] = y
  BY DEF Positions
<1> HIDE DEF c
<1>2. CASE x # Equal
  <2>1. 1 \in Positions(c) /\ \A j \in 1 .. (1 - 1) : c[j] = Equal
    BY <1>1
  <2>2. FirstUnequal(c) = c[1]
    BY <1>1, <1>2, <2>1, FirstUnequalAt
  <2> QED BY <1>1, <1>2, <2>2 DEF c
<1>3. CASE x = Equal
  <2>1. CASE y = Equal
    <3>1. \A i \in Positions(c) : c[i] = Equal
      BY <1>1, <1>3, <2>1
    <3>2. FirstUnequal(c) = Equal
      BY <1>1, <3>1, FirstUnequalIs
    <3> QED BY <1>3, <2>1, <3>2 DEF c
  <2>2. CASE y # Equal
    <3>1. 2 \in Positions(c) /\ \A j \in 1 .. (2 - 1) : c[j] = Equal
      BY <1>1, <1>3
    <3>2. FirstUnequal(c) = c[2]
      BY <1>1, <2>2, <3>1, FirstUnequalAt
    <3> QED BY <1>1, <1>3, <3>2 DEF c
  <2> QED BY <2>1, <2>2
<1> QED BY <1>2, <1>3

(* compare_numeric_identifier: the order of the values, of whatever length. *)
LEMMA CompareNumericIs ==
    ASSUME NEW s \in Plain, NEW t \in Plain
    PROVE  /\ CompareNumeric(s, t) \in Signs
           /\ CompareNumeric(s, t) = Equal <=> s = t
           /\ CompareNumeric(s, t) = Less <=> NumberPrecedes(s, t)
           /\ CompareNumeric(s, t) = Greater <=> NumberPrecedes(t, s)
<1>1. s \in Seq(Bytes) /\ t \in Seq(Bytes) /\ Len(s) \in Int /\ Len(t) \in Int
  BY DEF Plain
<1>2. Ordering(Len(s), Len(t)) \in Signs /\ CompareText(s, t) \in Signs
  BY <1>1, OrderingIs, CompareTextIs
<1>3. CompareNumeric(s, t) = IF Ordering(Len(s), Len(t)) = Equal THEN CompareText(s, t)
                             ELSE Ordering(Len(s), Len(t))
  BY <1>2, FirstOfTwo DEF CompareNumeric
<1>4. ValueOf(s) \in Nat /\ ValueOf(t) \in Nat
  BY ValueIsNat
<1>5. CASE Len(s) < Len(t)
  <2>1. CompareNumeric(s, t) = Less
    BY <1>1, <1>3, <1>5, OrderingIs DEF Equal
  <2>2. ValueOf(s) < ValueOf(t)
    BY <1>5, LongerIsLarger
  <2> QED BY <1>4, <1>5, <2>1, <2>2 DEF NumberPrecedes, Signs, Less, Equal, Greater
<1>6. CASE Len(t) < Len(s)
  <2>1. CompareNumeric(s, t) = Greater
    BY <1>1, <1>3, <1>6, OrderingIs DEF Equal
  <2>2. ValueOf(t) < ValueOf(s)
    BY <1>6, LongerIsLarger
  <2> QED BY <1>4, <1>6, <2>1, <2>2 DEF NumberPrecedes, Signs, Less, Equal, Greater
<1>7. CASE Len(s) = Len(t)
  <2>1. CompareNumeric(s, t) = CompareText(s, t)
    BY <1>1, <1>3, <1>7, OrderingIs
  <2>2. CASE CompareText(s, t) = Less
    <3>1. ValueOf(s) < ValueOf(t)
      BY <1>1, <1>7, <2>2, CompareTextIs, FirstDigitDecides
    <3> QED BY <1>1, <1>4, <2>1, <2>2, <3>1, CompareTextIs
               DEF NumberPrecedes, Signs, Less, Equal, Greater
  <2>3. CASE CompareText(s, t) = Greater
    <3>1. ValueOf(t) < ValueOf(s)
      BY <1>1, <1>7, <2>3, CompareTextIs, FirstDigitDecides
    <3> QED BY <1>1, <1>4, <2>1, <2>3, <3>1, CompareTextIs
               DEF NumberPrecedes, Signs, Less, Equal, Greater
  <2>4. CASE CompareText(s, t) = Equal
    <3>1. s = t
      BY <1>1, <2>4, CompareTextIs
    <3> QED BY <1>4, <2>1, <2>4, <3>1 DEF NumberPrecedes, Signs, Less, Equal, Greater
  <2> QED BY <1>2, <2>2, <2>3, <2>4 DEF Signs
<1> QED BY <1>1, <1>5, <1>6, <1>7

(* What a prerelease is made of. *)
Identifiers == {s \in Seq(Bytes) : s # <<>> /\ (IsNumeric(s) => ValidNumeric(s))}

(* compare_prerelease_identifier: numbers by value and before any text. *)
LEMMA CompareIdentifiersIs ==
    ASSUME NEW s \in Identifiers, NEW t \in Identifiers
    PROVE  /\ ComparePrereleaseIdentifier(s, t) \in Signs
           /\ ComparePrereleaseIdentifier(s, t) = Equal <=> s = t
           /\ ComparePrereleaseIdentifier(s, t) = Less <=> IdentifierPrecedes(s, t)
           /\ ComparePrereleaseIdentifier(s, t) = Greater <=> IdentifierPrecedes(t, s)
<1>1. s \in Seq(Bytes) /\ t \in Seq(Bytes)
  BY DEF Identifiers
<1>2. /\ CompareText(s, t) \in Signs
      /\ CompareText(s, t) = Equal <=> s = t
      /\ CompareText(s, t) = Less <=> ListPrecedes(s, t, Smaller)
      /\ CompareText(s, t) = Greater <=> ListPrecedes(t, s, Smaller)
  BY <1>1, CompareTextIs
<1>3. CASE IsNumeric(s) /\ IsNumeric(t)
  <2>1. s \in Plain /\ t \in Plain
    BY <1>3 DEF Identifiers, Plain
  <2>2. ComparePrereleaseIdentifier(s, t) = CompareNumeric(s, t)
    BY <1>3 DEF ComparePrereleaseIdentifier
  <2>3. /\ IdentifierPrecedes(s, t) <=> NumberPrecedes(s, t)
        /\ IdentifierPrecedes(t, s) <=> NumberPrecedes(t, s)
    BY <1>3 DEF IdentifierPrecedes
  <2> QED BY <2>1, <2>2, <2>3, CompareNumericIs
<1>4. CASE IsNumeric(s) /\ ~IsNumeric(t)
  <2>1. ComparePrereleaseIdentifier(s, t) = Less /\ s # t
    BY <1>4 DEF ComparePrereleaseIdentifier
  <2>2. IdentifierPrecedes(s, t) /\ ~IdentifierPrecedes(t, s)
    BY <1>4 DEF IdentifierPrecedes
  <2> QED BY <2>1, <2>2 DEF Signs, Less, Equal, Greater
<1>5. CASE ~IsNumeric(s) /\ IsNumeric(t)
  <2>1. ComparePrereleaseIdentifier(s, t) = Greater /\ s # t
    BY <1>5 DEF ComparePrereleaseIdentifier
  <2>2. IdentifierPrecedes(t, s) /\ ~IdentifierPrecedes(s, t)
    BY <1>5 DEF IdentifierPrecedes
  <2> QED BY <2>1, <2>2 DEF Signs, Less, Equal, Greater
<1>6. CASE ~IsNumeric(s) /\ ~IsNumeric(t)
  <2>1. ComparePrereleaseIdentifier(s, t) = CompareText(s, t)
    BY <1>6 DEF ComparePrereleaseIdentifier
  <2>2. /\ IdentifierPrecedes(s, t) <=> ListPrecedes(s, t, Smaller)
        /\ IdentifierPrecedes(t, s) <=> ListPrecedes(t, s, Smaller)
    BY <1>6 DEF IdentifierPrecedes
  <2> QED BY <1>2, <2>1, <2>2
<1> QED BY <1>3, <1>4, <1>5, <1>6

(* A version with a prerelease precedes the one without. *)
LEMMA ComparePrereleaseIs ==
    ASSUME NEW s \in Seq(Identifiers), NEW t \in Seq(Identifiers)
    PROVE  /\ ComparePrerelease(s, t) \in Signs
           /\ ComparePrerelease(s, t) = Equal <=> s = t
           /\ ComparePrerelease(s, t) = Less <=>
                  s # <<>> /\ (t = <<>> \/ ListPrecedes(s, t, IdentifierPrecedes))
           /\ ComparePrerelease(s, t) = Greater <=>
                  t # <<>> /\ (s = <<>> \/ ListPrecedes(t, s, IdentifierPrecedes))
<1>1. CASE s = <<>> /\ t = <<>>
  BY <1>1 DEF ComparePrerelease, Signs, Less, Equal, Greater
<1>2. CASE s = <<>> /\ t # <<>>
  BY <1>2 DEF ComparePrerelease, Signs, Less, Equal, Greater
<1>3. CASE s # <<>> /\ t = <<>>
  BY <1>3 DEF ComparePrerelease, Signs, Less, Equal, Greater
<1>4. CASE s # <<>> /\ t # <<>>
  <2> DEFINE c == [i \in 1 .. Longer(s, t) |->
                      IF i > Len(s) THEN Less
                      ELSE IF i > Len(t) THEN Greater
                      ELSE ComparePrereleaseIdentifier(s[i], t[i])]
  <2>1. Longer(s, t) \in Nat /\ Len(s) <= Longer(s, t) /\ Len(t) <= Longer(s, t)
        /\ Len(s) \in Nat /\ Len(t) \in Nat
    BY DEF Longer
  <2>2. \A i \in 1 .. Len(s) : s[i] \in Identifiers
    OBVIOUS
  <2>3. \A i \in 1 .. Len(t) : t[i] \in Identifiers
    OBVIOUS
  <2>4. \A i \in 1 .. Longer(s, t) : c[i] \in Signs
    BY <2>1, <2>2, <2>3, CompareIdentifiersIs DEF Signs
  <2>5. c \in Seq(Signs) /\ Len(c) = Longer(s, t)
    BY <2>1, <2>4
  <2>6. ComparesLists(c, s, t)
    BY <2>1, <2>2, <2>3, <2>5, CompareIdentifiersIs DEF ComparesLists
  <2>7. ComparePrerelease(s, t) = FirstUnequal(c)
    BY <1>4 DEF ComparePrerelease
  <2>8. \A n \in Nat : n < Len(s) /\ n < Len(t) =>
            /\ c[n + 1] = Less <=> IdentifierPrecedes(s[n + 1], t[n + 1])
            /\ c[n + 1] = Greater <=> IdentifierPrecedes(t[n + 1], s[n + 1])
    BY <2>1, <2>2, <2>3, CompareIdentifiersIs
  <2> HIDE DEF c
  <2>9. ComparePrerelease(s, t) = Less <=> ListPrecedes(s, t, IdentifierPrecedes)
    <3>1. FirstUnequal(c) = Less <=>
              \E n \in 0 .. Len(s) :
                  /\ n <= Len(t)
                  /\ SubSeq(s, 1, n) = SubSeq(t, 1, n)
                  /\ n < Len(t)
                  /\ n < Len(s) => c[n + 1] = Less
      BY <2>6, ListsLess, Zenon
    <3>2. \A n \in 0 .. Len(s) : n < Len(t) /\ n < Len(s) =>
              (c[n + 1] = Less <=> IdentifierPrecedes(s[n + 1], t[n + 1]))
      <4>1. \A n \in 0 .. Len(s) : n \in Nat
        OBVIOUS
      <4> QED BY <2>8, <4>1, Zenon
    <3> QED BY <2>7, <3>1, <3>2, Zenon DEF ListPrecedes
  <2>10. ComparePrerelease(s, t) = Greater <=> ListPrecedes(t, s, IdentifierPrecedes)
    <3>1. FirstUnequal(c) = Greater <=>
              \E n \in 0 .. Len(t) :
                  /\ n <= Len(s)
                  /\ SubSeq(t, 1, n) = SubSeq(s, 1, n)
                  /\ n < Len(s)
                  /\ n < Len(t) => c[n + 1] = Greater
      BY <2>6, ListsGreater, Zenon
    <3>2. \A n \in 0 .. Len(t) : n < Len(s) /\ n < Len(t) =>
              (c[n + 1] = Greater <=> IdentifierPrecedes(t[n + 1], s[n + 1]))
      <4>1. \A n \in 0 .. Len(t) : n \in Nat
        OBVIOUS
      <4> QED BY <2>8, <4>1, Zenon
    <3> QED BY <2>7, <3>1, <3>2, Zenon DEF ListPrecedes
  <2>11. ComparePrerelease(s, t) = Equal <=> s = t
    BY <2>6, <2>7, ListsEqual
  <2>12. ComparePrerelease(s, t) \in Signs
    BY <2>5, <2>7, FirstUnequalSigns
  <2> QED BY <1>4, <2>9, <2>10, <2>11, <2>12
<1> QED BY <1>1, <1>2, <1>3, <1>4

(* One more comparison decides only after comparisons that are all Equal. *)
LEMMA FirstUnequalAppend ==
    ASSUME NEW c \in Seq(Signs), NEW x \in Signs
    PROVE  FirstUnequal(c \o <<x>>) = IF FirstUnequal(c) = Equal THEN x ELSE FirstUnequal(c)
<1> DEFINE b == c \o <<x>>
<1>1. /\ b \in Seq(Signs) /\ Len(c) \in Nat /\ Positions(b) = 1 .. (Len(c) + 1)
      /\ b[Len(c) + 1] = x
      /\ \A i \in 1 .. Len(c) : b[i] = c[i]
  BY DEF Positions
<1> HIDE DEF b
<1>2. CASE FirstUnequal(c) = Equal
  <2>1. \A i \in 1 .. Len(c) : b[i] = Equal
    BY <1>1, <1>2, FirstUnequalIs DEF Positions
  <2>2. CASE x = Equal
    <3>1. \A i \in Positions(b) : b[i] = Equal
      BY <1>1, <2>1, <2>2
    <3>2. FirstUnequal(b) = Equal
      BY <1>1, <3>1, FirstUnequalIs
    <3> QED BY <1>2, <2>2, <3>2 DEF b
  <2>3. CASE x # Equal
    <3>1. Len(c) + 1 \in Positions(b) /\ \A j \in 1 .. ((Len(c) + 1) - 1) : b[j] = Equal
      BY <1>1, <2>1
    <3>2. FirstUnequal(b) = b[Len(c) + 1]
      BY <1>1, <2>3, <3>1, FirstUnequalAt
    <3> QED BY <1>1, <1>2, <3>2 DEF b
  <2> QED BY <2>2, <2>3
<1>3. CASE FirstUnequal(c) # Equal
  <2>1. PICK i \in Positions(c) : /\ c[i] # Equal /\ FirstUnequal(c) = c[i]
                                  /\ \A j \in 1 .. (i - 1) : c[j] = Equal
    BY <1>3, FirstUnequalIs
  <2>2. i \in 1 .. Len(c)
    BY DEF Positions
  <2>3. i \in Positions(b) /\ b[i] = c[i] /\ \A j \in 1 .. (i - 1) : b[j] = Equal
    BY <1>1, <2>1, <2>2
  <2>4. FirstUnequal(b) = b[i]
    BY <1>1, <2>1, <2>3, FirstUnequalAt
  <2> QED BY <1>3, <2>1, <2>3, <2>4 DEF b
<1> QED BY <1>2, <1>3

Parsed == {v \in Text : Parses(v)}

LEMMA SequenceOf ==
    ASSUME NEW S, NEW T, NEW s \in Seq(S), \A i \in 1 .. Len(s) : s[i] \in T
    PROVE  s \in Seq(T)
OBVIOUS

LEMMA ParsedIs ==
    ASSUME NEW v \in Parsed
    PROVE  /\ v.core \in Seq(Plain) /\ Len(v.core) = 3
           /\ v.prerelease \in Seq(Identifiers)
<1>1. /\ v.core \in Seq(Seq(Bytes)) /\ v.prerelease \in Seq(Seq(Bytes))
      /\ Len(v.core) = 3 /\ \A i \in 1 .. 3 : ValidNumeric(v.core[i])
      /\ \A i \in Positions(v.prerelease) :
             /\ ValidIdentifier(v.prerelease[i])
             /\ IsNumeric(v.prerelease[i]) => ValidNumeric(v.prerelease[i])
  BY DEF Parsed, Text, Parses
<1>2. v.core \in Seq(Plain)
  <2>1. \A i \in 1 .. 3 : v.core[i] \in Plain
    BY <1>1 DEF Plain
  <2> QED BY <1>1, <2>1, SequenceOf
<1>3. v.prerelease \in Seq(Identifiers)
  <2>1. \A i \in 1 .. Len(v.prerelease) : v.prerelease[i] \in Identifiers
    <3> TAKE i \in 1 .. Len(v.prerelease)
    <3>1. v.prerelease[i] \in Seq(Bytes)
      BY <1>1
    <3>2. ValidIdentifier(v.prerelease[i])
          /\ (IsNumeric(v.prerelease[i]) => ValidNumeric(v.prerelease[i]))
      BY <1>1 DEF Positions
    <3> QED BY <3>1, <3>2 DEF Identifiers, ValidIdentifier
  <2> QED BY <1>1, <2>1, SequenceOf
<1> QED BY <1>1, <1>2, <1>3

LEMMA CompareCoreIs ==
    ASSUME NEW s \in Seq(Plain), NEW t \in Seq(Plain), Len(s) = 3, Len(t) = 3
    PROVE  LET c == [i \in 1 .. 3 |-> CompareNumeric(s[i], t[i])]
           IN  /\ c \in Seq(Signs)
               /\ FirstUnequal(c) = Equal <=> s = t
               /\ FirstUnequal(c) = Less <=> ListPrecedes(s, t, NumberPrecedes)
               /\ FirstUnequal(c) = Greater <=> ListPrecedes(t, s, NumberPrecedes)
<1> DEFINE c == [i \in 1 .. 3 |-> CompareNumeric(s[i], t[i])]
<1>1. Longer(s, t) = 3
  BY DEF Longer
<1>2. \A i \in 1 .. 3 : s[i] \in Plain /\ t[i] \in Plain
  OBVIOUS
<1>3. \A i \in 1 .. 3 : c[i] \in Signs
  BY <1>2, CompareNumericIs
<1>4. c \in Seq(Signs) /\ Len(c) = 3
  BY <1>3
<1>5. ComparesLists(c, s, t)
  BY <1>1, <1>2, <1>4, CompareNumericIs DEF ComparesLists
<1>6. \A n \in Nat : n < Len(s) /\ n < Len(t) =>
          /\ c[n + 1] = Less <=> NumberPrecedes(s[n + 1], t[n + 1])
          /\ c[n + 1] = Greater <=> NumberPrecedes(t[n + 1], s[n + 1])
  BY <1>2, CompareNumericIs
<1> HIDE DEF c
<1>7. FirstUnequal(c) = Less <=> ListPrecedes(s, t, NumberPrecedes)
  <2>1. FirstUnequal(c) = Less <=>
            \E n \in 0 .. Len(s) :
                /\ n <= Len(t) /\ SubSeq(s, 1, n) = SubSeq(t, 1, n) /\ n < Len(t)
                /\ n < Len(s) => c[n + 1] = Less
    BY <1>5, ListsLess
  <2>2. \A n \in 0 .. Len(s) : n < Len(t) /\ n < Len(s) =>
            (c[n + 1] = Less <=> NumberPrecedes(s[n + 1], t[n + 1]))
    <3>1. \A n \in 0 .. Len(s) : n \in Nat
      OBVIOUS
    <3> QED BY <1>6, <3>1, Zenon
  <2> QED BY <2>1, <2>2, Zenon DEF ListPrecedes
<1>8. FirstUnequal(c) = Greater <=> ListPrecedes(t, s, NumberPrecedes)
  <2>1. FirstUnequal(c) = Greater <=>
            \E n \in 0 .. Len(t) :
                /\ n <= Len(s)
                /\ SubSeq(t, 1, n) = SubSeq(s, 1, n)
                /\ n < Len(s)
                /\ n < Len(t) => c[n + 1] = Greater
    BY <1>5, ListsGreater, Zenon
  <2>2. \A n \in 0 .. Len(t) : n < Len(t) /\ n < Len(s) =>
            (c[n + 1] = Greater <=> NumberPrecedes(t[n + 1], s[n + 1]))
    <3>1. \A n \in 0 .. Len(t) : n \in Nat
      OBVIOUS
    <3> QED BY <1>6, <3>1, Zenon
  <2> QED BY <2>1, <2>2, Zenon DEF ListPrecedes
<1>9. FirstUnequal(c) = Equal <=> s = t
  BY <1>5, ListsEqual
<1>10. c = [i \in 1 .. 3 |-> CompareNumeric(s[i], t[i])]
  BY DEF c
<1> QED BY <1>4, <1>7, <1>8, <1>9, <1>10, Zenon

(* compare_versions: the order of semantic versions, and equal only for versions that
   differ in nothing but the build. *)
LEMMA CompareVersionsIs ==
    ASSUME NEW a \in Parsed, NEW b \in Parsed
    PROVE  /\ CompareVersions(a, b) \in Signs
           /\ CompareVersions(a, b) = Equal <=> a.core = b.core /\ a.prerelease = b.prerelease
           /\ CompareVersions(a, b) = Less <=> VersionPrecedes(a, b)
           /\ CompareVersions(a, b) = Greater <=> VersionPrecedes(b, a)
<1> DEFINE c == [i \in 1 .. 3 |-> CompareNumeric(a.core[i], b.core[i])]
           x == ComparePrerelease(a.prerelease, b.prerelease)
<1>1. /\ a.core \in Seq(Plain) /\ b.core \in Seq(Plain) /\ Len(a.core) = 3 /\ Len(b.core) = 3
      /\ a.prerelease \in Seq(Identifiers) /\ b.prerelease \in Seq(Identifiers)
  BY ParsedIs
<1>2. /\ c \in Seq(Signs)
      /\ FirstUnequal(c) = Equal <=> a.core = b.core
      /\ FirstUnequal(c) = Less <=> ListPrecedes(a.core, b.core, NumberPrecedes)
      /\ FirstUnequal(c) = Greater <=> ListPrecedes(b.core, a.core, NumberPrecedes)
  BY <1>1, CompareCoreIs, Zenon
<1>3. /\ x \in Signs
      /\ x = Equal <=> a.prerelease = b.prerelease
      /\ x = Less <=> a.prerelease # <<>> /\ (b.prerelease = <<>> \/
             ListPrecedes(a.prerelease, b.prerelease, IdentifierPrecedes))
      /\ x = Greater <=> b.prerelease # <<>> /\ (a.prerelease = <<>> \/
             ListPrecedes(b.prerelease, a.prerelease, IdentifierPrecedes))
  BY <1>1, ComparePrereleaseIs, Zenon
<1>4. CompareVersions(a, b) = FirstUnequal(c \o <<x>>)
  BY DEF CompareVersions, Parsed
<1>5. /\ VersionPrecedes(a, b) <=>
             \/ FirstUnequal(c) = Less
             \/ FirstUnequal(c) = Equal /\ x = Less
      /\ VersionPrecedes(b, a) <=>
             \/ FirstUnequal(c) = Greater
             \/ FirstUnequal(c) = Equal /\ x = Greater
  <2> HIDE DEF c, x
  <2> QED BY <1>2, <1>3, Zenon DEF VersionPrecedes
<1> HIDE DEF c, x
<1>6. FirstUnequal(c) \in Signs
  BY <1>2, FirstUnequalSigns
<1>7. CompareVersions(a, b) = IF FirstUnequal(c) = Equal THEN x ELSE FirstUnequal(c)
  BY <1>2, <1>3, <1>4, FirstUnequalAppend
<1> QED BY <1>2, <1>3, <1>5, <1>6, <1>7 DEF Signs, Less, Equal, Greater

LEMMA OrderHolds == OrderIsSemantic
<1> SUFFICES ASSUME NEW a \in Texts, NEW b \in Texts
             PROVE  IF Parses(a) /\ Parses(b)
                    THEN CompareVersions(a, b) =
                             IF VersionPrecedes(a, b) THEN Less
                             ELSE IF VersionPrecedes(b, a) THEN Greater ELSE Equal
                    ELSE ~VersionGt(a, b) /\ ~VersionGt(b, a)
  BY DEF OrderIsSemantic
<1>1. a \in Text /\ b \in Text
  BY TextsAreText
<1>2. CASE Parses(a) /\ Parses(b)
  <2>1. a \in Parsed /\ b \in Parsed
    BY <1>1, <1>2 DEF Parsed
  <2> QED BY <1>2, <2>1, CompareVersionsIs DEF Signs
<1>3. CASE ~(Parses(a) /\ Parses(b))
  <2>1. CompareVersions(a, b) = Equal /\ CompareVersions(b, a) = Equal
    BY <1>3 DEF CompareVersions
  <2> QED BY <1>3, <2>1 DEF VersionGt, Equal, Greater
<1> QED BY <1>2, <1>3

LEMMA PassingIs ==
    /\ Passing[">="] = {Equal, Greater} /\ Passing["<"] = {Less} /\ Passing["="] = {Equal}
BY DEF Passing

LEMMA RangeHolds == RangeIsExact
<1> SUFFICES ASSUME NEW low \in {v \in Texts : Parses(v)},
                    NEW high \in {v \in Texts : Parses(v)},
                    NEW other \in {v \in Texts : Parses(v)},
                    NEW v \in Texts
             PROVE  IsSatisfiedBy({{Constraint(">=", low), Constraint("<", high)},
                                   {Constraint("=", other)}}, v) <=>
                        /\ Parses(v)
                        /\ \/ ~VersionPrecedes(v, low) /\ VersionPrecedes(v, high)
                           \/ ~VersionPrecedes(v, other) /\ ~VersionPrecedes(other, v)
  BY DEF RangeIsExact
<1> DEFINE range == {Constraint(">=", low), Constraint("<", high)}
           exact == {Constraint("=", other)}
<1>1. /\ low \in Parsed /\ high \in Parsed /\ other \in Parsed
      /\ Parses(low) /\ Parses(high) /\ Parses(other)
  BY TextsAreText DEF Parsed
<1>2. /\ Constraint(">=", low).op = ">=" /\ Constraint(">=", low).version = low
      /\ Constraint("<", high).op = "<" /\ Constraint("<", high).version = high
      /\ Constraint("=", other).op = "=" /\ Constraint("=", other).version = other
  BY DEF Constraint
<1>3. ValidRequirement({range, exact})
  BY <1>1, <1>2 DEF ValidRequirement
<1>4. IsSatisfiedBy({range, exact}, v) <=>
          /\ Parses(v)
          /\ \/ /\ CompareVersions(v, low) \in {Equal, Greater}
                /\ CompareVersions(v, high) \in {Less}
             \/ CompareVersions(v, other) \in {Equal}
  BY <1>2, <1>3, PassingIs DEF IsSatisfiedBy
<1>5. ASSUME Parses(v)
      PROVE  /\ CompareVersions(v, low) \in {Equal, Greater} <=> ~VersionPrecedes(v, low)
             /\ CompareVersions(v, high) \in {Less} <=> VersionPrecedes(v, high)
             /\ CompareVersions(v, other) \in {Equal} <=>
                    ~VersionPrecedes(v, other) /\ ~VersionPrecedes(other, v)
  <2>1. v \in Parsed
    BY <1>5, TextsAreText DEF Parsed
  <2> QED BY <1>1, <2>1, CompareVersionsIs DEF Signs, Less, Equal, Greater
<1> QED BY <1>4, <1>5

(* A relation that orders strictly. *)
Strict(R, S) ==
    /\ \A x \in S : <<x, x>> \notin R
    /\ \A x, y, z \in S : <<x, y>> \in R /\ <<y, z>> \in R => <<x, z>> \in R

(* The lists whose first difference is a pair of R, and the beginnings. *)
ListBefore(s, t, R) ==
    \E n \in 0 .. Len(s) :
        /\ n < Len(t)
        /\ \A i \in 1 .. n : s[i] = t[i]
        /\ n < Len(s) => <<s[n + 1], t[n + 1]>> \in R

(* Lists of strictly ordered elements are strictly ordered. *)
LEMMA ListsAreStrict ==
    ASSUME NEW S, NEW R, Strict(R, S), NEW s \in Seq(S), NEW t \in Seq(S), NEW u \in Seq(S),
           ListBefore(s, t, R), ListBefore(t, u, R)
    PROVE  ListBefore(s, u, R)
<1>1. PICK m \in 0 .. Len(s) : /\ m < Len(t) /\ \A i \in 1 .. m : s[i] = t[i]
                               /\ m < Len(s) => <<s[m + 1], t[m + 1]>> \in R
  BY DEF ListBefore
<1>2. PICK n \in 0 .. Len(t) : /\ n < Len(u) /\ \A i \in 1 .. n : t[i] = u[i]
                               /\ n < Len(t) => <<t[n + 1], u[n + 1]>> \in R
  BY DEF ListBefore
<1>3. Len(s) \in Nat /\ Len(t) \in Nat /\ Len(u) \in Nat
  OBVIOUS
<1>4. CASE m < n
  <2>1. m < Len(u) /\ \A i \in 1 .. m : s[i] = u[i]
    BY <1>1, <1>2, <1>3, <1>4
  <2>2. t[m + 1] = u[m + 1]
    BY <1>1, <1>2, <1>3, <1>4
  <2>3. m < Len(s) => <<s[m + 1], u[m + 1]>> \in R
    BY <1>1, <2>2, Zenon
  <2> QED BY <1>1, <2>1, <2>3, Zenon DEF ListBefore
<1>5. CASE n < m
  <2>1. n \in 0 .. Len(s) /\ \A i \in 1 .. n : s[i] = u[i]
    BY <1>1, <1>2, <1>3, <1>5
  <2>2. s[n + 1] = t[n + 1] /\ n < Len(t)
    BY <1>1, <1>2, <1>3, <1>5
  <2>3. <<s[n + 1], u[n + 1]>> \in R
    BY <1>2, <2>2, Zenon
  <2> QED BY <1>2, <2>1, <2>3, Zenon DEF ListBefore
<1>6. CASE m = n
  <2>1. \A i \in 1 .. m : s[i] = u[i]
    BY <1>1, <1>2, <1>3, <1>6
  <2>2. ASSUME m < Len(s) PROVE <<s[m + 1], u[m + 1]>> \in R
    <3>1. s[m + 1] \in S /\ t[m + 1] \in S /\ u[m + 1] \in S
      BY <1>1, <1>2, <1>3, <1>6, <2>2
    <3>2. <<s[m + 1], t[m + 1]>> \in R /\ <<t[m + 1], u[m + 1]>> \in R
      BY <1>1, <1>2, <1>6, <2>2, Zenon
    <3>3. \A x, y, z \in S : <<x, y>> \in R /\ <<y, z>> \in R => <<x, z>> \in R
      BY DEF Strict
    <3> QED BY <3>1, <3>2, <3>3
  <2> QED BY <1>1, <1>2, <1>6, <2>1, <2>2, Zenon DEF ListBefore
<1> QED BY <1>1, <1>2, <1>3, <1>4, <1>5, <1>6

(* The three orders that lists are compared with, as relations. *)
ByteOrder == {pair \in Bytes \X Bytes : Smaller(pair[1], pair[2])}
NumberOrder == {pair \in Plain \X Plain : NumberPrecedes(pair[1], pair[2])}
IdentifierOrder ==
    {pair \in Identifiers \X Identifiers : IdentifierPrecedes(pair[1], pair[2])}

LEMMA TextBefore ==
    ASSUME NEW s \in Seq(Bytes), NEW t \in Seq(Bytes)
    PROVE  ListPrecedes(s, t, Smaller) <=> ListBefore(s, t, ByteOrder)
<1>1. \A i \in 1 .. Len(s) : s[i] \in Bytes
  OBVIOUS
<1>2. \A i \in 1 .. Len(t) : t[i] \in Bytes
  OBVIOUS
<1>3. \A x, y \in Bytes : <<x, y>> \in ByteOrder <=> Smaller(x, y)
  BY DEF ByteOrder
<1>4. \A n \in 0 .. Len(s) : n < Len(t) /\ n < Len(s) =>
          (<<s[n + 1], t[n + 1]>> \in ByteOrder <=> Smaller(s[n + 1], t[n + 1]))
  <2> TAKE n \in 0 .. Len(s)
  <2> HAVE n < Len(t) /\ n < Len(s)
  <2>1. n + 1 \in 1 .. Len(s) /\ n + 1 \in 1 .. Len(t)
    OBVIOUS
  <2> QED BY <1>1, <1>2, <1>3, <2>1, Zenon
<1>5. \A n \in 0 .. Len(s) : n < Len(t) =>
          (SubSeq(s, 1, n) = SubSeq(t, 1, n) <=> \A i \in 1 .. n : s[i] = t[i])
          /\ n <= Len(t)
  BY SameBeginning
<1> QED BY <1>4, <1>5, Zenon DEF ListPrecedes, ListBefore

LEMMA CoreBefore ==
    ASSUME NEW s \in Seq(Plain), NEW t \in Seq(Plain)
    PROVE  ListPrecedes(s, t, NumberPrecedes) <=> ListBefore(s, t, NumberOrder)
<1>1. \A i \in 1 .. Len(s) : s[i] \in Plain
  OBVIOUS
<1>2. \A i \in 1 .. Len(t) : t[i] \in Plain
  OBVIOUS
<1>3. \A x, y \in Plain : <<x, y>> \in NumberOrder <=> NumberPrecedes(x, y)
  BY DEF NumberOrder
<1>4. \A n \in 0 .. Len(s) : n < Len(t) /\ n < Len(s) =>
          (<<s[n + 1], t[n + 1]>> \in NumberOrder <=> NumberPrecedes(s[n + 1], t[n + 1]))
  <2> TAKE n \in 0 .. Len(s)
  <2> HAVE n < Len(t) /\ n < Len(s)
  <2>1. n + 1 \in 1 .. Len(s) /\ n + 1 \in 1 .. Len(t)
    OBVIOUS
  <2> QED BY <1>1, <1>2, <1>3, <2>1, Zenon
<1>5. \A n \in 0 .. Len(s) : n < Len(t) =>
          (SubSeq(s, 1, n) = SubSeq(t, 1, n) <=> \A i \in 1 .. n : s[i] = t[i])
          /\ n <= Len(t)
  BY SameBeginning
<1> QED BY <1>4, <1>5, Zenon DEF ListPrecedes, ListBefore

LEMMA PrereleaseBefore ==
    ASSUME NEW s \in Seq(Identifiers), NEW t \in Seq(Identifiers)
    PROVE  ListPrecedes(s, t, IdentifierPrecedes) <=> ListBefore(s, t, IdentifierOrder)
<1>1. \A i \in 1 .. Len(s) : s[i] \in Identifiers
  OBVIOUS
<1>2. \A i \in 1 .. Len(t) : t[i] \in Identifiers
  OBVIOUS
<1>3. \A x, y \in Identifiers : <<x, y>> \in IdentifierOrder <=> IdentifierPrecedes(x, y)
  BY DEF IdentifierOrder
<1>4. \A n \in 0 .. Len(s) : n < Len(t) /\ n < Len(s) =>
          (<<s[n + 1], t[n + 1]>> \in IdentifierOrder <=>
               IdentifierPrecedes(s[n + 1], t[n + 1]))
  <2> TAKE n \in 0 .. Len(s)
  <2> HAVE n < Len(t) /\ n < Len(s)
  <2>1. n + 1 \in 1 .. Len(s) /\ n + 1 \in 1 .. Len(t)
    OBVIOUS
  <2> QED BY <1>1, <1>2, <1>3, <2>1, Zenon
<1>5. \A n \in 0 .. Len(s) : n < Len(t) =>
          (SubSeq(s, 1, n) = SubSeq(t, 1, n) <=> \A i \in 1 .. n : s[i] = t[i])
          /\ n <= Len(t)
  BY SameBeginning
<1> QED BY <1>4, <1>5, Zenon DEF ListPrecedes, ListBefore

LEMMA BytesAreStrict == Strict(ByteOrder, Bytes)
<1>1. \A x, y \in Bytes : <<x, y>> \in ByteOrder <=> x < y
  BY DEF ByteOrder, Smaller
<1>2. \A x \in Bytes : <<x, x>> \notin ByteOrder
  BY <1>1, BytesAreInt
<1>3. ASSUME NEW x \in Bytes, NEW y \in Bytes, NEW z \in Bytes,
             <<x, y>> \in ByteOrder, <<y, z>> \in ByteOrder
      PROVE  <<x, z>> \in ByteOrder
  <2>1. x < y /\ y < z
    BY <1>1, <1>3
  <2>2. x < z
    BY <2>1, BytesAreInt
  <2> QED BY <1>1, <2>2
<1> QED BY <1>2, <1>3 DEF Strict

LEMMA NumbersAreStrict == Strict(NumberOrder, Plain)
<1>1. \A x, y \in Plain : <<x, y>> \in NumberOrder <=> ValueOf(x) < ValueOf(y)
  BY DEF NumberOrder, NumberPrecedes
<1>2. \A x \in Plain : <<x, x>> \notin NumberOrder
  BY <1>1, ValueIsNat
<1>3. ASSUME NEW x \in Plain, NEW y \in Plain, NEW z \in Plain,
             <<x, y>> \in NumberOrder, <<y, z>> \in NumberOrder
      PROVE  <<x, z>> \in NumberOrder
  <2>1. ValueOf(x) < ValueOf(y) /\ ValueOf(y) < ValueOf(z)
    BY <1>1, <1>3
  <2>2. ValueOf(x) < ValueOf(z)
    BY <2>1, ValueIsNat
  <2> QED BY <1>1, <2>2
<1> QED BY <1>2, <1>3 DEF Strict

LEMMA IdentifiersAreStrict == Strict(IdentifierOrder, Identifiers)
<1>1. \A x, y \in Identifiers : <<x, y>> \in IdentifierOrder <=> IdentifierPrecedes(x, y)
  BY DEF IdentifierOrder
<1>2. ASSUME NEW x \in Identifiers PROVE ~ IdentifierPrecedes(x, x)
  BY CompareIdentifiersIs DEF Less, Equal
<1>3. ASSUME NEW x \in Identifiers, NEW y \in Identifiers, NEW z \in Identifiers,
             IdentifierPrecedes(x, y), IdentifierPrecedes(y, z)
      PROVE  IdentifierPrecedes(x, z)
  <2>1. CASE IsNumeric(z)
    <3>1. IsNumeric(y) /\ NumberPrecedes(y, z)
      BY <1>3, <2>1 DEF IdentifierPrecedes
    <3>2. IsNumeric(x) /\ NumberPrecedes(x, y)
      BY <1>3, <3>1 DEF IdentifierPrecedes
    <3>3. x \in Plain /\ y \in Plain /\ z \in Plain
      BY <2>1, <3>1, <3>2 DEF Plain, Identifiers
    <3>4. NumberPrecedes(x, z)
      BY <3>1, <3>2, <3>3, ValueIsNat DEF NumberPrecedes
    <3> QED BY <2>1, <3>2, <3>4 DEF IdentifierPrecedes
  <2>2. CASE ~IsNumeric(z) /\ IsNumeric(x)
    BY <2>2 DEF IdentifierPrecedes
  <2>3. CASE ~IsNumeric(z) /\ ~IsNumeric(x)
    <3>1. ~IsNumeric(y) /\ ListPrecedes(x, y, Smaller)
      BY <1>3, <2>3 DEF IdentifierPrecedes
    <3>2. ListPrecedes(y, z, Smaller)
      BY <1>3, <2>3, <3>1 DEF IdentifierPrecedes
    <3>3. x \in Seq(Bytes) /\ y \in Seq(Bytes) /\ z \in Seq(Bytes)
      BY DEF Identifiers
    <3>4. ListBefore(x, y, ByteOrder) /\ ListBefore(y, z, ByteOrder)
      BY <3>1, <3>2, <3>3, TextBefore, Zenon
    <3>5. ListBefore(x, z, ByteOrder)
      BY <3>3, <3>4, BytesAreStrict, ListsAreStrict, Zenon
    <3>6. ListPrecedes(x, z, Smaller)
      BY <3>3, <3>5, TextBefore, Zenon
    <3> QED BY <2>3, <3>6 DEF IdentifierPrecedes
  <2> QED BY <2>1, <2>2, <2>3
<1>4. ASSUME NEW x \in Identifiers, NEW y \in Identifiers, NEW z \in Identifiers,
             <<x, y>> \in IdentifierOrder, <<y, z>> \in IdentifierOrder
      PROVE  <<x, z>> \in IdentifierOrder
  <2>1. IdentifierPrecedes(x, y) /\ IdentifierPrecedes(y, z)
    BY <1>1, <1>4, Zenon
  <2>2. IdentifierPrecedes(x, z)
    BY <1>3, <2>1, Zenon
  <2> QED BY <1>1, <2>2, Zenon
<1> QED BY <1>1, <1>2, <1>4, Zenon DEF Strict

LEMMA PrecedesIsTransitive ==
    ASSUME NEW a \in Parsed, NEW b \in Parsed, NEW c \in Parsed,
           VersionPrecedes(a, b), VersionPrecedes(b, c)
    PROVE  VersionPrecedes(a, c)
<1> DEFINE Before(x, y) == ListBefore(x.core, y.core, NumberOrder)
           Earlier(x, y) == /\ x.prerelease # <<>>
                            /\ \/ y.prerelease = <<>>
                               \/ ListBefore(x.prerelease, y.prerelease, IdentifierOrder)
<1>1. \A x, y \in Parsed : VersionPrecedes(x, y) <=>
          Before(x, y) \/ (x.core = y.core /\ Earlier(x, y))
  BY ParsedIs, CoreBefore, PrereleaseBefore, Zenon DEF VersionPrecedes
<1>2. ASSUME Before(a, b), Before(b, c) PROVE Before(a, c)
  BY <1>2, ParsedIs, NumbersAreStrict, ListsAreStrict, Zenon
<1>3. ASSUME Before(a, b), b.core = c.core PROVE Before(a, c)
  BY <1>3, Zenon
<1>4. ASSUME a.core = b.core, Before(b, c) PROVE Before(a, c)
  BY <1>4, Zenon
<1>5. ASSUME Earlier(a, b), Earlier(b, c) PROVE Earlier(a, c)
  <2>1. a.prerelease # <<>> /\ b.prerelease # <<>>
    BY <1>5
  <2>2. ListBefore(a.prerelease, b.prerelease, IdentifierOrder)
    BY <1>5, <2>1, Zenon
  <2>3. CASE c.prerelease = <<>>
    BY <2>1, <2>3
  <2>4. CASE ListBefore(b.prerelease, c.prerelease, IdentifierOrder)
    <3>1. ListBefore(a.prerelease, c.prerelease, IdentifierOrder)
      BY <2>2, <2>4, ParsedIs, IdentifiersAreStrict, ListsAreStrict, Zenon
    <3> QED BY <2>1, <3>1
  <2> QED BY <1>5, <2>3, <2>4, Zenon
<1> HIDE DEF Before, Earlier
<1>6. Before(a, b) \/ (a.core = b.core /\ Earlier(a, b))
  BY <1>1, Zenon
<1>7. Before(b, c) \/ (b.core = c.core /\ Earlier(b, c))
  BY <1>1, Zenon
<1>8. Before(a, c) \/ (a.core = c.core /\ Earlier(a, c))
  BY <1>2, <1>3, <1>4, <1>5, <1>6, <1>7, Zenon
<1> QED BY <1>1, <1>8, Zenon

(* compare_versions is an order on versions, of whatever length their numbers are: one of
   two that differ in more than the build precedes the other, never both, and what
   precedes a version precedes those after it. ContentPacks and InstallFlow name versions
   by numbers, which this order allows. *)
THEOREM VersionsAreOrdered ==
    \A a, b, c \in {v \in Texts : Parses(v)} :
        /\ CompareVersions(a, b) \in Signs
        /\ CompareVersions(a, b) = Equal <=> a.core = b.core /\ a.prerelease = b.prerelease
        /\ CompareVersions(a, b) = Less <=> CompareVersions(b, a) = Greater
        /\ CompareVersions(a, b) = Less /\ CompareVersions(b, c) = Less =>
               CompareVersions(a, c) = Less
<1> TAKE a, b, c \in {v \in Texts : Parses(v)}
<1>1. a \in Parsed /\ b \in Parsed /\ c \in Parsed
  BY TextsAreText DEF Parsed
<1>2. /\ CompareVersions(a, b) \in Signs
      /\ CompareVersions(a, b) = Equal <=> a.core = b.core /\ a.prerelease = b.prerelease
      /\ CompareVersions(a, b) = Less <=> VersionPrecedes(a, b)
      /\ CompareVersions(b, a) = Greater <=> VersionPrecedes(a, b)
      /\ CompareVersions(b, c) = Less <=> VersionPrecedes(b, c)
      /\ CompareVersions(a, c) = Less <=> VersionPrecedes(a, c)
  BY <1>1, CompareVersionsIs, Zenon
<1> QED BY <1>1, <1>2, PrecedesIsTransitive, Zenon

(* The property VersionsAgree: whatever texts are compared, compare_versions gives the
   order that semantic versioning defines by the values of the numbers, and a version
   requirement is satisfied by exactly the versions of its ranges. *)
THEOREM VersionsAreSemantic == Spec => []VersionsAgree
<1>1. VersionsAgree
  BY OrderHolds, RangeHolds DEF VersionsAgree
<1> QED
  BY <1>1, PTL
=============================================================================
