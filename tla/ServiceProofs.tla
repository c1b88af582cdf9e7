--------------------------- MODULE ServiceProofs ---------------------------
(***************************************************************************)
(* The parts of the service that keep something: the database file, the    *)
(* settings with the access check that follows them, and the cached count  *)
(* of the status.  Each is proved for its own specification, for any       *)
(* number of requests, versions, rows, channels, transactions and scans.   *)
(***************************************************************************)
EXTENDS DataFile, LiveSettings, StatusView, TLAPS

-----------------------------------------------------------------------------
(* The database file: its inductive invariant.                             *)

Step == {"closed", "unlink", "copy", "script", "fill", "commit", "restore",
         "close", "open", "unit"}
Job == {"none", "check", "check_compact", "check_prior", "publish",
        "publish_compact", "publish_prior", "vacuum", "replace", "restored"}

FileType ==
    /\ file \in Content
    /\ wal \in Content \cup {NoFile}
    /\ bak \in Content \cup {NoFile}
    /\ copy \in Content \cup {NoFile}
    /\ prior \in Content \cup {NoFile}
    /\ txn \in Content \cup {NoFile}
    /\ before \in Content \cup {NoFile}
    /\ step \in Step
    /\ code \in 1..MaxVersion
    /\ fromVersion \in 0..MaxVersion
    /\ upkeep \in Job

Upgraded(content) ==
    content # NoFile => content.ver <= content.tables /\ content.ver <= content.filled

\* The upgrade under way would be taken back if it failed here.
Revocable ==
    \/ step \in {"script", "fill", "commit"} /\ 0 < fromVersion /\ fromVersion < code
    \/ step = "restore"

\* What is open, what is being committed, and the backup it may go back to,
\* which is of this attempt.
UpgradeInv ==
    /\ Upgraded(Read) /\ Upgraded(bak) /\ Upgraded(copy) /\ Upgraded(prior) /\ Upgraded(txn)
    /\ step = "fill" => Read.tables >= code
    /\ step \in {"commit", "unit"} => txn # NoFile
    /\ step = "commit" => txn.rows = Read.rows
    /\ step = "unit" => txn.rows = Read.rows + 1
    /\ Revocable => bak # NoFile /\ bak.rows = Read.rows

\* How far a restore command has come, and what it has in hand.
UpkeepInv ==
    /\ step # "closed" => upkeep = "none" /\ before = NoFile
    /\ upkeep \in {"check_prior", "publish_prior", "replace"} => before = Read /\ copy # NoFile
    /\ upkeep \in {"publish_prior", "replace"} => wal = NoFile
    /\ upkeep = "replace" => prior = before
    /\ upkeep = "restored" => Read = copy /\ prior = before
    /\ before # NoFile => Read = before \/ (Read = copy /\ prior = before)

FileInv == FileType /\ UpgradeInv /\ UpkeepInv

-----------------------------------------------------------------------------
(* The settings and the access check: their inductive invariants.          *)

Ops == PageOps \cup CallOps
Own(k) == <<"service", k>>           \* the field of a setting that is no channel's

Locals == {"pc", "op", "patch", "notify", "since", "opened"}
Early == {"read", "merge", "commit"}
Late == {"count", "look", "retime"}

\* A form has every switch; a token only if the user typed one.
PageForm(form) == "notify" \in DOMAIN form /\ Switch \subseteq DOMAIN form.notify

\* What the settings, the open pages and the requests under way look like.
PageShape(w) ==
    /\ writer[w].pc = "page"
    /\ writer[w].opened \in 0..commits
    /\ DOMAIN writer[w].page = {"interval", "lan", "notify"}
    /\ DOMAIN writer[w].page.notify = Switch

EarlyShape(w) ==
    /\ bound # "off"
    /\ DOMAIN writer[w] = Locals
    /\ writer[w].pc \in Early
    /\ writer[w].op \in Ops
    /\ writer[w].since \in 0..commits /\ writer[w].opened \in 0..writer[w].since
    /\ writer[w].pc = "read" =>
          /\ "token" \in DOMAIN writer[w].patch => "token" \in DOMAIN writer[w].op.set
          /\ writer[w].op.via = "page" => PageForm(writer[w].patch)

LateShape(w) ==
    /\ bound # "off"
    /\ writer[w].pc \in Late
    /\ writer[w].pc = "count" => writer[w].wish \in 0..commits

WriterShape(w) == writer[w] = Idle \/ PageShape(w) \/ EarlyShape(w) \/ LateShape(w)

StoreShape(s) ==
    /\ {"host", "token", "lan", "interval", "notify"} \subseteq DOMAIN s
    /\ DOMAIN s.notify = Part

ShapeInv ==
    /\ commits \in Nat /\ answered \in 0..commits
    /\ StoreShape(store)
    /\ DOMAIN writer = Writer
    /\ \A w \in Writer : WriterShape(w)

\* The copy in use is new enough, or its version says that it is not.
NewEnough(at, v) == v < version \/ (v = version /\ at >= answered)

VisitorFresh(v) ==
    \/ visitor[v] = Out
    \/ /\ bound # "off"
       /\ visitor[v].since \in 0..answered
       /\ \/ visitor[v].pc = "judged" /\ visitor[v].by.at >= visitor[v].since
          \/ visitor[v].pc = "queued"
          \/ visitor[v].pc = "fetch" /\ visitor[v].version \in 0..version
          \/ /\ visitor[v].pc = "keep"
             /\ visitor[v].version \in 0..version
             /\ visitor[v].copy.at \in Nat
             /\ visitor[v].copy.at >= visitor[v].since
             /\ NewEnough(visitor[v].copy.at, visitor[v].version)

FreshInv ==
    /\ version \in Nat
    /\ cache.version \in Int /\ cache.copy.at \in Nat
    /\ bound # "off" => NewEnough(cache.copy.at, cache.version)
    /\ DOMAIN visitor = Visitor
    /\ \A v \in Visitor : VisitorFresh(v)

\* A request that clears the token is under way on the loopback address only.
TokenKept(w) ==
    writer[w].pc \in Early =>
        /\ writer[w].op.clear => bound = "loopback"
        /\ writer[w].pc # "read" /\ "token" \in DOMAIN writer[w].patch
           => writer[w].patch.token # "none" \/ writer[w].op.clear

TokenInv == BoundHasToken /\ \A w \in Writer : TokenKept(w)

\* Where a page shows, or a request would write, a field that it does not mean
\* to set, this is what is there, or somebody has set the field since it was
\* learned.  A token may also be made where there is none.
PageKept(w) ==
    \A f \in Shown :
        ValueOf(writer[w].page, f) = ValueOf(store, f) \/ touched[f] > writer[w].opened

Harmless(w) ==
    LET patch == writer[w].patch
    IN /\ "notify" \in DOMAIN patch => DOMAIN patch.notify \subseteq Part
       /\ \A f \in Field \ Meant(writer[w].op) :
             Writes(patch, f) =>
                 \/ ValueOf(patch, f) = ValueOf(store, f)
                 \/ f = Own("token") /\ store.token = "none"
                 \/ touched[f] > Learned(w, f)

\* The same of the channels that update() has read.
Merged(w) ==
    /\ DOMAIN writer[w].notify = Part
    /\ \A f \in Part \ Meant(writer[w].op) :
          writer[w].notify[f] = store.notify[f] \/ touched[f] > Learned(w, f)

ChangeOf(w) ==
    /\ writer[w].pc = "page" => PageKept(w)
    /\ writer[w].pc \in Early => Harmless(w)
    /\ writer[w].pc = "commit" => Merged(w)

ChangeInv == \A w \in Writer : ChangeOf(w)

-----------------------------------------------------------------------------
(* The count of the status: its inductive invariant.                       *)

StageOf(r) ==
    \/ req[r] = NoRequest
    \/ /\ req[r].at = "scan"
       /\ DOMAIN req[r] = {"at", "chosen"}
       /\ req[r].chosen \in Choosable
    \/ /\ req[r].at \in {"lookup", "count"}
       /\ DOMAIN req[r] = {"at", "chosen", "scan", "count"}
       /\ req[r].chosen \in Choosable /\ req[r].scan \in 0..lastScan
    \/ /\ req[r].at = "keep"
       /\ DOMAIN req[r] = {"at", "chosen", "scan", "count", "stock"}
       /\ req[r].chosen \in Choosable /\ req[r].scan \in 0..lastScan
    \/ /\ req[r].at = "told"
       /\ DOMAIN req[r] = {"at", "stock"}

\* A count that was taken for the last scan is the count of the table.
CountIs(key, count) ==
    key[2] = lastScan =>
        \A chosen \in Choosable : ListenKeys(chosen) = key[1] => count = StockCount(item, chosen)

\* The counts a request may be told, by the cache or by a thread that is
\* about to write it.
ToldOf(r) ==
    /\ "chosen" \in DOMAIN req[r] => StockCount(item, req[r].chosen) \in seen[r]
    /\ req[r].at \in {"keep", "told"} => req[r].stock \in seen[r]
    /\ req[r].at = "keep" => CountIs(StockKey(r), req[r].stock)
    /\ req[r].at = "lookup" =>
          /\ cached # <<>> /\ cached[1] = StockKey(r) => cached[2] \in seen[r]
          /\ \A q \in Reader : req[q].at = "keep" /\ StockKey(q) = StockKey(r) =>
                req[q].stock \in seen[r]

CacheInv ==
    cached # <<>> => cached[1][2] \in 0..lastScan /\ CountIs(cached[1], cached[2])

StatusInv ==
    /\ lastScan \in Nat
    /\ listings \in Choosable
    /\ DOMAIN req = Reader /\ DOMAIN seen = Reader
    /\ CacheInv
    /\ \A r \in Reader : StageOf(r) /\ ToldOf(r)

-----------------------------------------------------------------------------
(* The database file.                                                      *)

\* NoFile is not the content of a database: it has no tables.
LEMMA NoFileIsNone == NoFile \notin Content
<1>1. "rows" \notin DOMAIN NoFile
  BY DEF NoFile
<1>2. \A c \in Content : "rows" \in DOMAIN c
  BY DEF Content
<1> QED
  BY <1>1, <1>2

\* The fields of a content.
LEMMA ContentIs ==
    ASSUME NEW c \in Content
    PROVE  /\ c.ver \in 0..MaxVersion /\ c.tables \in 0..MaxVersion
           /\ c.filled \in 0..MaxVersion /\ c.rows \in 0..MaxRows
  BY DEF Content

\* What an open transaction and a commit make of a content.
LEMMA Edits ==
    ASSUME NEW c \in Content
    PROVE  /\ \A n \in 0..MaxVersion :
                 LET d == [c EXCEPT !.tables = n]
                 IN d \in Content /\ d.ver = c.ver /\ d.tables = n /\ d.filled = c.filled
                    /\ d.rows = c.rows
           /\ \A n \in 0..MaxRows :
                 LET d == [c EXCEPT !.rows = n]
                 IN d \in Content /\ d.ver = c.ver /\ d.tables = c.tables
                    /\ d.filled = c.filled /\ d.rows = n
  BY DEF Content

\* What whoever opens the file reads after a commit and after the last
\* connection has closed.
LEMMA ReadAfter ==
    ASSUME FileType
    PROVE  /\ Read \in Content
           /\ \A c \in Content : ToWal(c) => Read' = c /\ wal' \in Content /\ file' \in Content
           /\ Fold => Read' = Read /\ file' \in Content /\ wal' = NoFile
           /\ UNCHANGED <<file, wal>> => Read' = Read
  BY NoFileIsNone DEF FileType, Read, ToWal, Fold

\* The schema version of an upgrade and the larger of two.
LEMMA Larges ==
    ASSUME DataFileAssumption, NEW a \in 0..MaxVersion, NEW b \in 1..MaxVersion
    PROVE  AtLeast(a, b) \in 0..MaxVersion /\ AtLeast(a, b) >= a /\ AtLeast(a, b) >= b
  BY DEF AtLeast, DataFileAssumption

LEMMA FileBegins == DataInit => FileInv
<1> SUFFICES ASSUME DataInit PROVE FileInv
  OBVIOUS
<1>1. NewFile \in Content /\ OldDatabase \in Content
  BY DataFileAssumption DEF NewFile, OldDatabase, Content
<1>2. NewFile # NoFile /\ OldDatabase # NoFile
  BY <1>1, NoFileIsNone
<1>3. FileType
  BY <1>1, DataFileAssumption DEF DataInit, FileType, Step, Job
<1>4. Read \in {NewFile, OldDatabase}
  BY DEF DataInit, Read
<1>5. UpgradeInv
  BY <1>4 DEF DataInit, UpgradeInv, Upgraded, Revocable, NewFile, OldDatabase
<1>6. UpkeepInv
  BY DEF DataInit, UpkeepInv
<1> QED
  BY <1>3, <1>5, <1>6 DEF FileInv

\* An upgrade, a unit of work and the end of a process.
LEMMA OpeningKeeps ==
    ASSUME FileInv,
           \/ OpenDatabase \/ UnlinkBackup \/ CopyBackup \/ BackupFails
           \/ ApplyTables \/ FillTables \/ CommitUpgrade \/ UpgradeFails \/ RestoreBackup
           \/ BeginUnit \/ CommitUnit \/ UnitFails \/ CloseDatabase \/ DieWithDatabase
    PROVE  FileInv'
<1> USE DataFileAssumption
<1>t. FileType /\ Read \in Content
  BY ReadAfter DEF FileInv
<1>r. Read.ver \in 0..MaxVersion /\ Read.tables \in 0..MaxVersion
      /\ Read.filled \in 0..MaxVersion /\ Read.rows \in 0..MaxRows
  BY <1>t, ContentIs
<1>c. code \in 1..MaxVersion /\ code \in 0..MaxVersion /\ fromVersion \in 0..MaxVersion
  BY <1>t DEF FileType
<1>n. NoFile \notin Content
  BY NoFileIsNone
<1>k. step # "closed" => upkeep = "none" /\ before = NoFile
  BY DEF FileInv, UpkeepInv
<1>1. CASE OpenDatabase
  <2>1. Read' = Read
    BY <1>1, <1>t, ReadAfter DEF OpenDatabase
  <2>2. FileType'
    BY <1>1, <1>t, <1>r DEF OpenDatabase, FileType, Step, UpgradeFirst
  <2>3. UpgradeInv'
    BY <1>1, <2>1 DEF OpenDatabase, FileInv, UpgradeInv, UpgradeFirst, Upgraded, Revocable
  <2>4. UpkeepInv'
    BY <1>1, <2>1 DEF OpenDatabase, UpkeepInv
  <2> QED
    BY <2>2, <2>3, <2>4 DEF FileInv
<1>2. CASE UnlinkBackup \/ CopyBackup
  <2>1. Read' = Read
    BY <1>2, <1>t, ReadAfter DEF UnlinkBackup, CopyBackup
  <2>2. FileType'
    BY <1>2, <1>t DEF UnlinkBackup, CopyBackup, FileType, Step, jobVars
  <2>3. UpgradeInv'
    BY <1>2, <2>1, <1>t, <1>n DEF UnlinkBackup, CopyBackup, FileInv, UpgradeInv, Upgraded,
       Revocable, jobVars
  <2>4. UpkeepInv'
    BY <1>2, <2>1, <1>k DEF UnlinkBackup, CopyBackup, FileInv, UpkeepInv, jobVars
  <2> QED
    BY <2>2, <2>3, <2>4 DEF FileInv
<1>3. CASE BackupFails \/ CloseDatabase
  <2>1. Read' = Read /\ file' \in Content /\ wal' = NoFile
    BY <1>3, <1>t, ReadAfter DEF BackupFails, CloseDatabase
  <2>2. FileType'
    BY <1>3, <1>t, <2>1 DEF BackupFails, CloseDatabase, FileType, Step, jobVars
  <2>3. UpgradeInv'
    BY <1>3, <2>1, <1>t, <1>n DEF BackupFails, CloseDatabase, FileInv, UpgradeInv, Upgraded,
       Revocable, jobVars
  <2>4. UpkeepInv'
    BY <1>3, <2>1, <1>k DEF BackupFails, CloseDatabase, FileInv, UpkeepInv, jobVars
  <2> QED
    BY <2>2, <2>3, <2>4 DEF FileInv
<1>4. CASE ApplyTables
  <2>0. /\ WithTables \in Content
        /\ WithTables.ver = Read.ver /\ WithTables.filled = Read.filled
        /\ WithTables.rows = Read.rows
        /\ WithTables.tables >= Read.tables /\ WithTables.tables >= code
    <3>1. AtLeast(Read.tables, code) \in 0..MaxVersion
          /\ AtLeast(Read.tables, code) >= Read.tables /\ AtLeast(Read.tables, code) >= code
      BY <1>r, <1>c, Larges
    <3>2. WithTables = [Read EXCEPT !.tables = AtLeast(Read.tables, code)]
      BY DEF WithTables
    <3> QED
      BY <3>1, <3>2, <1>t, Edits
  <2>1. Read' = WithTables /\ wal' \in Content /\ file' \in Content
    BY <1>4, <1>t, <2>0, ReadAfter DEF ApplyTables
  <2>2. FileType'
    BY <1>4, <1>t, <2>1 DEF ApplyTables, FileType, Step, jobVars
  <2>u. Upgraded(Read)'
    <3>1. Upgraded(Read)
      BY DEF FileInv, UpgradeInv
    <3> QED
      BY <3>1, <2>0, <2>1, <1>t, <1>n, <1>r, ContentIs DEF Upgraded
  <2>3. UpgradeInv'
    BY <1>4, <2>1, <2>0, <2>u DEF ApplyTables, FileInv, UpgradeInv, Upgraded, Revocable, jobVars
  <2>4. UpkeepInv'
    BY <1>4, <1>k DEF ApplyTables, FileInv, UpkeepInv, jobVars
  <2> QED
    BY <2>2, <2>3, <2>4 DEF FileInv
<1>5. CASE FillTables
  <2> DEFINE full == [Read EXCEPT !.filled = AtLeast(@, code), !.ver = code]
  <2>0. /\ full \in Content /\ full.ver = code /\ full.tables = Read.tables
        /\ full.filled >= code /\ full.rows = Read.rows
    <3>1. AtLeast(Read.filled, code) \in 0..MaxVersion /\ AtLeast(Read.filled, code) >= code
      BY <1>r, <1>c, Larges
    <3>2. full = [Read EXCEPT !.filled = AtLeast(Read.filled, code), !.ver = code]
      OBVIOUS
    <3> HIDE DEF full
    <3> QED
      BY <3>1, <3>2, <1>t, <1>c DEF Content
  <2>1. Read' = Read /\ txn' = full
    BY <1>5, <1>t, ReadAfter DEF FillTables
  <2> HIDE DEF full
  <2>2. FileType'
    BY <1>5, <1>t, <2>0, <2>1 DEF FillTables, FileType, Step, jobVars
  <2>u. Upgraded(txn)'
    BY <1>5, <2>0, <2>1, <1>r, <1>c DEF Upgraded, FillTables, FileInv, UpgradeInv
  <2>3. UpgradeInv'
    BY <1>5, <2>1, <2>0, <2>u, <1>n DEF FillTables, FileInv, UpgradeInv, Upgraded, Revocable, jobVars
  <2>4. UpkeepInv'
    BY <1>5, <2>1, <1>k DEF FillTables, FileInv, UpkeepInv, jobVars
  <2> QED
    BY <2>2, <2>3, <2>4 DEF FileInv
<1>6. CASE CommitUpgrade \/ CommitUnit
  <2>0. txn \in Content
    BY <1>6, <1>t DEF CommitUpgrade, CommitUnit, FileInv, UpgradeInv, FileType
  <2>1. Read' = txn /\ wal' \in Content /\ file' \in Content
    BY <1>6, <1>t, <2>0, ReadAfter DEF CommitUpgrade, CommitUnit
  <2>2. FileType'
    BY <1>6, <1>t, <2>1 DEF CommitUpgrade, CommitUnit, FileType, Step, jobVars
  <2>3. UpgradeInv'
    BY <1>6, <2>1 DEF CommitUpgrade, CommitUnit, FileInv, UpgradeInv, Upgraded, Revocable, jobVars
  <2>4. UpkeepInv'
    BY <1>6, <1>k DEF CommitUpgrade, CommitUnit, FileInv, UpkeepInv, jobVars
  <2> QED
    BY <2>2, <2>3, <2>4 DEF FileInv
<1>7. CASE UpgradeFails \/ DieWithDatabase \/ UnitFails
  <2>1. Read' = Read
    BY <1>7, <1>t, ReadAfter DEF UpgradeFails, DieWithDatabase, UnitFails
  <2>2. FileType'
    BY <1>7, <1>t DEF UpgradeFails, DieWithDatabase, UnitFails, FileType, Step, jobVars
  <2>3. UpgradeInv'
    BY <1>7, <2>1 DEF UpgradeFails, DieWithDatabase, UnitFails, FileInv, UpgradeInv, Upgraded,
       Revocable, jobVars
  <2>4. UpkeepInv'
    BY <1>7, <2>1, <1>k DEF UpgradeFails, DieWithDatabase, UnitFails, FileInv, UpkeepInv, jobVars
  <2> QED
    BY <2>2, <2>3, <2>4 DEF FileInv
<1>8. CASE RestoreBackup
  <2>0. bak \in Content
    BY <1>8, <1>t DEF RestoreBackup, FileInv, UpgradeInv, Revocable, FileType
  <2>1. Read' \in {bak, Read} /\ wal' \in Content \cup {NoFile} /\ file' \in Content
    BY <1>8, <1>t, <2>0, ReadAfter DEF RestoreBackup, FileType
  <2>2. FileType'
    BY <1>8, <1>t, <2>1 DEF RestoreBackup, FileType, Step, jobVars
  <2>3. UpgradeInv'
    BY <1>8, <2>1 DEF RestoreBackup, FileInv, UpgradeInv, Upgraded, Revocable, jobVars
  <2>4. UpkeepInv'
    BY <1>8, <1>k DEF RestoreBackup, FileInv, UpkeepInv, jobVars
  <2> QED
    BY <2>2, <2>3, <2>4 DEF FileInv
<1>9. CASE BeginUnit
  <2> DEFINE more == [Read EXCEPT !.rows = @ + 1]
  <2>a. Read.rows + 1 \in 0..MaxRows
    BY <1>9, <1>r DEF BeginUnit
  <2>0. /\ more \in Content /\ more.ver = Read.ver /\ more.tables = Read.tables
        /\ more.filled = Read.filled /\ more.rows = Read.rows + 1
    BY <1>t, <2>a, Edits
  <2>1. Read' = Read /\ txn' = more
    BY <1>9, <1>t, ReadAfter DEF BeginUnit
  <2> HIDE DEF more
  <2>2. FileType'
    BY <1>9, <1>t, <2>0, <2>1 DEF BeginUnit, FileType, Step, jobVars
  <2>3. UpgradeInv'
    BY <1>9, <2>1, <2>0, <1>n, <1>t DEF BeginUnit, FileInv, UpgradeInv, Upgraded, Revocable, jobVars
  <2>4. UpkeepInv'
    BY <1>9, <2>1, <1>k DEF BeginUnit, FileInv, UpkeepInv, jobVars
  <2> QED
    BY <2>2, <2>3, <2>4 DEF FileInv
<1> QED
  BY <1>1, <1>2, <1>3, <1>4, <1>5, <1>6, <1>7, <1>8, <1>9

\* Backup, compaction and the restore command.
LEMMA JobKeeps ==
    ASSUME FileInv,
           \/ StartJob \/ CheckSource \/ PublishBackup \/ Vacuum \/ PublishPrior
           \/ ReplaceTarget \/ JobReturns \/ JobFails
    PROVE  FileInv'
<1>t. FileType /\ Read \in Content
  BY ReadAfter DEF FileInv
<1>n. NoFile \notin Content
  BY NoFileIsNone
<1>c. step = "closed"
  <2>1. StartJob => step = "closed"
    BY DEF StartJob
  <2>2. ~StartJob => upkeep # "none"
    BY DEF CheckSource, PublishBackup, Vacuum, PublishPrior, ReplaceTarget, JobReturns, JobFails
  <2> QED
    BY <2>1, <2>2 DEF FileInv, UpkeepInv
<1>u. /\ UNCHANGED upgradeVars
      /\ step' = "closed"
      /\ UpgradeInv
  BY <1>c DEF StartJob, CheckSource, PublishBackup, Vacuum, PublishPrior, ReplaceTarget,
     JobReturns, JobFails, upgradeVars, FileInv
<1>1. CASE StartJob
  <2>1. Read' = Read
    BY <1>1, <1>t, ReadAfter DEF StartJob
  <2>2. FileType'
    BY <1>1, <1>t DEF StartJob, FileType, Job, upgradeVars, RestoreFirst
  <2>3. UpgradeInv'
    BY <1>1, <1>u, <1>c, <2>1 DEF StartJob, UpgradeInv, Upgraded, Revocable, upgradeVars
  <2>4. UpkeepInv'
    BY <1>1, <1>u, <2>1 DEF StartJob, FileInv, UpkeepInv, RestoreFirst
  <2> QED
    BY <2>2, <2>3, <2>4 DEF FileInv
<1>2. CASE CheckSource \/ Vacuum
  <2>1. Read' = Read /\ file' \in Content /\ wal' = NoFile
    BY <1>2, <1>t, ReadAfter DEF CheckSource, Vacuum
  <2>2. FileType'
    BY <1>2, <1>t, <2>1 DEF CheckSource, Vacuum, FileType, Job, upgradeVars
  <2>3. UpgradeInv'
    BY <1>2, <1>u, <1>c, <2>1 DEF CheckSource, Vacuum, UpgradeInv, Upgraded, Revocable, upgradeVars
  <2>4. UpkeepInv'
    BY <1>2, <1>u, <2>1 DEF CheckSource, Vacuum, FileInv, UpkeepInv
  <2> QED
    BY <2>2, <2>3, <2>4 DEF FileInv
<1>3. CASE PublishBackup
  <2>1. Read' = Read
    BY <1>3, <1>t, ReadAfter DEF PublishBackup
  <2>2. FileType'
    BY <1>3, <1>t DEF PublishBackup, FileType, Job, upgradeVars
  <2>3. UpgradeInv'
    BY <1>3, <1>u, <1>c, <2>1 DEF PublishBackup, UpgradeInv, Upgraded, Revocable, upgradeVars
  <2>4. UpkeepInv'
    BY <1>3, <1>u, <2>1, <1>t, <1>n DEF PublishBackup, FileInv, UpkeepInv
  <2> QED
    BY <2>2, <2>3, <2>4 DEF FileInv
<1>4. CASE PublishPrior
  <2>1. Read' = Read
    BY <1>4, <1>t, ReadAfter DEF PublishPrior
  <2>2. FileType'
    BY <1>4, <1>t DEF PublishPrior, FileType, Job, upgradeVars
  <2>3. UpgradeInv'
    BY <1>4, <1>u, <1>c, <2>1 DEF PublishPrior, UpgradeInv, Upgraded, Revocable, upgradeVars
  <2>4. UpkeepInv'
    BY <1>4, <1>u, <2>1 DEF PublishPrior, FileInv, UpkeepInv
  <2> QED
    BY <2>2, <2>3, <2>4 DEF FileInv
<1>5. CASE ReplaceTarget
  <2>0. copy \in Content /\ wal = NoFile
    BY <1>5, <1>t DEF ReplaceTarget, FileInv, UpkeepInv, FileType
  <2>1. Read' = copy
    BY <1>5, <2>0 DEF ReplaceTarget, Read
  <2>2. FileType'
    BY <1>5, <1>t, <2>0 DEF ReplaceTarget, FileType, Job, upgradeVars
  <2>3. UpgradeInv'
    BY <1>5, <1>u, <1>c, <2>1 DEF ReplaceTarget, UpgradeInv, Upgraded, Revocable, upgradeVars
  <2>4. UpkeepInv'
    BY <1>5, <1>u, <2>1 DEF ReplaceTarget, FileInv, UpkeepInv
  <2> QED
    BY <2>2, <2>3, <2>4 DEF FileInv
<1>6. CASE JobReturns \/ JobFails
  <2>1. Read' = Read
    BY <1>6, <1>t, ReadAfter DEF JobReturns, JobFails
  <2>2. FileType'
    BY <1>6, <1>t DEF JobReturns, JobFails, FileType, Job, upgradeVars
  <2>3. UpgradeInv'
    BY <1>6, <1>u, <1>c, <2>1 DEF JobReturns, JobFails, UpgradeInv, Upgraded, Revocable, upgradeVars
  <2>4. UpkeepInv'
    BY <1>6, <1>u, <2>1 DEF JobReturns, JobFails, FileInv, UpkeepInv
  <2> QED
    BY <2>2, <2>3, <2>4 DEF FileInv
<1> QED
  BY <1>1, <1>2, <1>3, <1>4, <1>5, <1>6

\* A step that changes nothing of the file.
LEMMA FileRests == ASSUME FileInv, UNCHANGED dataVars PROVE FileInv'
<1>1. Read' = Read
  BY DEF Read, dataVars
<1>2. FileType' /\ UpkeepInv'
  BY <1>1 DEF dataVars, FileInv, FileType, UpkeepInv
<1>3. UpgradeInv'
  BY <1>1 DEF dataVars, FileInv, UpgradeInv, Upgraded, Revocable
<1> QED
  BY <1>2, <1>3 DEF FileInv

\* FileInv is an invariant of the database file: what an upgrade under way,
\* a unit of work and a restore command have in hand.
THEOREM FileInvariance == DataSpec => []FileInv
<1>1. DataInit => FileInv
  BY FileBegins
<1>2. FileInv /\ [DataNext]_dataVars => FileInv'
  BY OpeningKeeps, JobKeeps, FileRests DEF DataNext
<1> QED
  BY <1>1, <1>2, PTL DEF DataSpec

\* A database that says it has a schema version has all of it, wherever an
\* upgrade fails or dies and whichever program opens it, for any number of
\* versions (migrate, _apply_schema, _restore_db).
THEOREM VersionsAreUpgraded == DataSpec => []VersionMeansUpgraded
<1>1. FileInv => VersionMeansUpgraded
  BY DEF FileInv, UpgradeInv, Upgraded, VersionMeansUpgraded
<1> QED
  BY <1>1, FileInvariance, PTL

\* The restore command leaves what it found or what the backup holds, and
\* keeps a copy of what it found in the second case (restore_database).
THEOREM RestoresAreAtomic == DataSpec => []RestoreAtomic
<1>1. FileInv => RestoreAtomic
  BY DEF FileInv, UpkeepInv, RestoreAtomic
<1> QED
  BY <1>1, FileInvariance, PTL

\* No step but the exchange of the file takes a row back.
LEMMA RowsStay ==
    ASSUME FileInv, [DataNext]_dataVars, Read'.rows < Read.rows
    PROVE  upkeep = "replace" /\ upkeep' = "restored"
<1>t. FileType /\ Read \in Content
  BY ReadAfter DEF FileInv
<1>r. Read.rows \in 0..MaxRows
  BY <1>t, ContentIs
<1>1. CASE ReplaceTarget
  BY <1>1 DEF ReplaceTarget
<1>2. CASE ApplyTables
  <2>1. WithTables \in Content /\ WithTables.rows = Read.rows
    <3>1. AtLeast(Read.tables, code) \in 0..MaxVersion
      BY <1>t, ContentIs, Larges, DataFileAssumption DEF FileType
    <3>2. WithTables = [Read EXCEPT !.tables = AtLeast(Read.tables, code)]
      BY DEF WithTables
    <3> QED
      BY <3>1, <3>2, <1>t, Edits
  <2> QED
    BY <1>2, <2>1, <1>t, <1>r, ReadAfter DEF ApplyTables
<1>3. CASE CommitUpgrade \/ CommitUnit
  <2>1. txn \in Content /\ txn.rows >= Read.rows
    BY <1>3, <1>t, <1>r DEF CommitUpgrade, CommitUnit, FileInv, UpgradeInv, FileType
  <2>2. Read' = txn
    BY <1>3, <2>1, <1>t, ReadAfter DEF CommitUpgrade, CommitUnit
  <2>3. txn.rows \in 0..MaxRows
    BY <2>1, ContentIs
  <2> QED
    BY <2>1, <2>2, <2>3, <1>r
<1>4. CASE RestoreBackup
  <2>1. bak \in Content /\ bak.rows = Read.rows
    BY <1>4, <1>t DEF RestoreBackup, FileInv, UpgradeInv, Revocable, FileType
  <2> QED
    BY <1>4, <2>1, <1>t, <1>r, ReadAfter DEF RestoreBackup
<1>5. CASE ~(ReplaceTarget \/ ApplyTables \/ CommitUpgrade \/ CommitUnit \/ RestoreBackup)
  <2>1. UNCHANGED <<file, wal>> \/ Fold
    BY <1>5 DEF DataNext, dataVars, OpenDatabase, UnlinkBackup, CopyBackup, BackupFails,
       FillTables, UpgradeFails, BeginUnit, UnitFails, CloseDatabase, DieWithDatabase,
       StartJob, CheckSource, PublishBackup, Vacuum, PublishPrior, JobReturns, JobFails
  <2> QED
    BY <2>1, <1>t, <1>r, ReadAfter
<1> QED
  BY <1>1, <1>2, <1>3, <1>4, <1>5

\* A failed or interrupted upgrade takes no row back: the backup it goes
\* back to is of its own attempt, not of an earlier one (_backup_db, migrate).
THEOREM UpgradesKeepRows == DataSpec => UpgradeKeepsRows
<1>1. FileInv /\ [DataNext]_dataVars
        => [Read'.rows < Read.rows => upkeep = "replace" /\ upkeep' = "restored"]_dataVars
  BY RowsStay
<1> QED
  BY <1>1, FileInvariance, PTL DEF DataSpec, UpgradeKeepsRows

-----------------------------------------------------------------------------
(* The settings: what the operators on patches do.                         *)

LEMMA Fields ==
    /\ Field = Part \cup {Own("token"), Own("lan"), Own("interval")}
    /\ Shown = Switch \cup {Own("lan"), Own("interval")}
    /\ Switch \subseteq Part
    /\ Own("token") \notin Shown
    /\ \A p \in Part : p[1] # "service"
    /\ \A k \in {"token", "lan", "interval"} : Own(k)[1] = "service" /\ Own(k)[2] = k
<1>1. \A p \in Part : p[1] # "service"
  BY LiveSettingsAssumption DEF Part, Switch
<1>2. \A k \in {"token", "lan", "interval"} : Own(k)[1] = "service" /\ Own(k)[2] = k
  BY DEF Own
<1>3. Own("token") \notin Shown
  BY <1>1, <1>2 DEF Shown, Part, Own
<1> QED
  BY <1>1, <1>2, <1>3 DEF Field, Shown, Part, Own

\* What a field is in a patch, a page or the settings.
LEMMA Values ==
    ASSUME NEW s
    PROVE  /\ \A k \in {"token", "lan", "interval"} :
                 ValueOf(s, Own(k)) = s[k] /\ (Writes(s, Own(k)) <=> k \in DOMAIN s)
           /\ \A p \in Part :
                 /\ ValueOf(s, p) = s["notify"][p]
                 /\ Writes(s, p) <=> "notify" \in DOMAIN s /\ p \in DOMAIN s["notify"]
  BY Fields DEF ValueOf, Writes

LEMMA MeantIs ==
    ASSUME NEW op
    PROVE  /\ \A k \in {"token", "lan", "interval"} : Own(k) \notin Meant(op) =>
                 k \notin DOMAIN op.set /\ (k # "interval" => ~op.clear)
           /\ \A p \in Part : p \notin Meant(op) =>
                 ~("notify" \in DOMAIN op.set /\ p \in DOMAIN op.set["notify"])
<1>1. \A f \in Field : f \notin Meant(op) => ~Writes(op.set, f)
  BY DEF Meant
<1>2. op.clear => Own("token") \in Meant(op) /\ Own("lan") \in Meant(op)
  BY DEF Meant, Own
<1> QED
  BY <1>1, <1>2, Fields, Values

\* normalize_settings_patch never empties a token, adds one only where there
\* is none, and leaves the other settings of the patch alone.
LEMMA NormalizeIs ==
    ASSUME NEW p, NEW s, NEW n, n = Normalize(p, s)
    PROVE  /\ DOMAIN n \subseteq (DOMAIN p) \cup {"host", "token"}
           /\ "token" \in DOMAIN n => n["token"] # "none"
           /\ "token" \in DOMAIN n /\ "token" \notin DOMAIN p => s["token"] = "none"
           /\ \A k \in {"lan", "interval", "notify"} :
                 k \in DOMAIN p => k \in DOMAIN n /\ n[k] = p[k]
<1> DEFINE kept == [k \in {k \in DOMAIN p : k # "token" \/ p[k] # "none"} |-> p[k]]
           full == IF "lan" \in DOMAIN kept
                   THEN Over(kept, [host |-> HostFor(kept.lan)]) ELSE kept
           made == [token |-> "made"]
<1>1. /\ DOMAIN kept = {k \in DOMAIN p : k # "token" \/ p[k] # "none"}
      /\ \A k \in DOMAIN kept : kept[k] = p[k]
  OBVIOUS
<1>2. n = IF NeedsToken(full, s) THEN Over(full, made) ELSE full
  BY DEF Normalize
<1>3. /\ DOMAIN full \subseteq (DOMAIN kept) \cup {"host"}
      /\ DOMAIN kept \subseteq DOMAIN full
      /\ \A k \in DOMAIN kept : full[k] = kept[k]
  <2> DEFINE addr == [host |-> HostFor(kept.lan)]
  <2>1. DOMAIN addr = {"host"}
    OBVIOUS
  <2>2. full = IF "lan" \in DOMAIN kept THEN Over(kept, addr) ELSE kept
    OBVIOUS
  <2> HIDE DEF kept, addr, full
  <2> QED
    BY <2>1, <2>2 DEF Over
<1>4. NeedsToken(full, s) => "token" \notin DOMAIN full /\ s["token"] = "none"
  BY DEF NeedsToken
<1>5. DOMAIN made = {"token"} /\ made["token"] = "made"
  OBVIOUS
<1> HIDE DEF kept, full, made
<1>6. /\ DOMAIN n \subseteq (DOMAIN full) \cup {"token"}
      /\ DOMAIN full \subseteq DOMAIN n
      /\ \A k \in DOMAIN full : n[k] = full[k]
      /\ "token" \in DOMAIN n /\ "token" \notin DOMAIN full =>
            n["token"] = "made" /\ s["token"] = "none"
  BY <1>2, <1>4, <1>5 DEF Over
<1> QED
  BY <1>1, <1>3, <1>6

\* What a request may ask for.
LEMMA OpsAre ==
    ASSUME NEW op \in Ops
    PROVE  /\ op.clear \in BOOLEAN
           /\ "notify" \in DOMAIN op.set => DOMAIN op.set["notify"] \subseteq Part
           /\ op.via = "switch" => DOMAIN op.set = {"listen"} /\ ~op.clear
<1>1. \A s \in UserEdits : "notify" \in DOMAIN s => DOMAIN s["notify"] \subseteq Part
  <2> TAKE s \in UserEdits
  <2>1. CASE s \in {[notify |-> [d \in {p} |-> v]] : p \in Part, v \in Conf}
    <3>1. PICK p \in Part, v \in Conf : s = [notify |-> [d \in {p} |-> v]]
      BY <2>1
    <3>2. s["notify"] = [d \in {p} |-> v]
      BY <3>1
    <3> QED
      BY <3>2
  <2>2. CASE s \notin {[notify |-> [d \in {p} |-> v]] : p \in Part, v \in Conf}
    <3>1. "notify" \notin DOMAIN s
      BY <2>2 DEF UserEdits
    <3> QED
      BY <3>1
  <2> QED
    BY <2>1, <2>2
<1>2. \A s \in Listens : DOMAIN s = {"listen"}
  BY DEF Listens
<1>3. CASE op \in {[via |-> "page", set |-> s, clear |-> FALSE] : s \in UserEdits}
  <2>1. op.set \in UserEdits /\ op.clear = FALSE /\ op.via = "page"
    BY <1>3
  <2> QED
    BY <2>1, <1>1
<1>4. CASE op \in {[via |-> "api", set |-> s, clear |-> FALSE] : s \in UserEdits \cup Listens}
  <2>1. op.set \in UserEdits \cup Listens /\ op.clear = FALSE /\ op.via = "api"
    BY <1>4
  <2>2. ASSUME op.set \in Listens PROVE "notify" \notin DOMAIN op.set
    BY <2>2, <1>2
  <2>3. "notify" \in DOMAIN op.set => DOMAIN (op.set)["notify"] \subseteq Part
    BY <2>1, <2>2, <1>1
  <2> QED
    BY <2>1, <2>3
<1>5. CASE op \in {[via |-> "switch", set |-> s, clear |-> FALSE] : s \in Listens}
  <2>1. op.set \in Listens /\ op.clear = FALSE
    BY <1>5
  <2>2. DOMAIN op.set = {"listen"}
    BY <2>1, <1>2
  <2> QED
    BY <2>1, <2>2
<1>6. CASE op = [via |-> "page", set |-> NoEdit, clear |-> TRUE]
  <2>1. op.set = NoEdit /\ op.clear = TRUE /\ op.via = "page" /\ DOMAIN NoEdit = {}
    BY <1>6 DEF NoEdit
  <2> QED
    BY <2>1
<1> QED
  BY <1>3, <1>4, <1>5, <1>6 DEF Ops, PageOps, CallOps

\* What a page shows is what is there.
LEMMA PageIs ==
    ASSUME NEW s
    PROVE  /\ DOMAIN Page(s) = {"interval", "lan", "notify"}
           /\ DOMAIN Page(s)["notify"] = Switch
           /\ \A f \in Shown : ValueOf(Page(s), f) = ValueOf(s, f)
<1> DEFINE page == Page(s)
<1>1. /\ DOMAIN page = {"interval", "lan", "notify"}
      /\ page["interval"] = s["interval"] /\ page["lan"] = s["lan"]
      /\ page["notify"] = [p \in Switch |-> s["notify"][p]]
  BY DEF Page
<1>2. DOMAIN page["notify"] = Switch /\ \A p \in Switch : page["notify"][p] = s["notify"][p]
  BY <1>1
<1> HIDE DEF page
<1>3. \A f \in Shown : ValueOf(page, f) = ValueOf(s, f)
  BY <1>1, <1>2, Fields, Values
<1> QED
  BY <1>1, <1>2, <1>3 DEF page

\* The form has what the page shows, except where the user has edited it.
LEMMA FilledIs ==
    ASSUME NEW op \in Ops, NEW page, NEW form, form = Filled(op.set, page),
           DOMAIN page = {"interval", "lan", "notify"}, DOMAIN page["notify"] = Switch
    PROVE  /\ PageForm(form)
           /\ "token" \in DOMAIN form => "token" \in DOMAIN op.set
           /\ DOMAIN form["notify"] \subseteq Part
           /\ \A f \in Field \ Meant(op) :
                 Writes(form, f) => f \in Shown /\ ValueOf(form, f) = ValueOf(page, f)
<1> DEFINE edit == op.set
           both == Over(edit["notify"], page["notify"])
           chan == [notify |-> both]
<1>1. form = IF "notify" \in DOMAIN edit THEN Over(chan, page) ELSE Over(edit, page)
  BY DEF Filled
<1>2. "notify" \in DOMAIN edit => DOMAIN edit["notify"] \subseteq Part
  BY OpsAre
<1>3. /\ DOMAIN both = (DOMAIN edit["notify"]) \cup Switch
      /\ \A p \in Switch \ (DOMAIN edit["notify"]) : both[p] = page["notify"][p]
  BY DEF Over
<1>4. DOMAIN chan = {"notify"} /\ chan["notify"] = both
  OBVIOUS
<1>5. op.set = edit
  OBVIOUS
<1> HIDE DEF edit, both, chan
<1>6. CASE "notify" \in DOMAIN edit
  <2>1. /\ DOMAIN form = {"interval", "lan", "notify"} /\ form["notify"] = both
        /\ form["lan"] = page["lan"] /\ form["interval"] = page["interval"]
    BY <1>1, <1>4, <1>6 DEF Over
  <2>2. PageForm(form) /\ DOMAIN form["notify"] \subseteq Part
    BY <1>2, <1>3, <1>6, <2>1, Fields DEF PageForm
  <2>3. ASSUME NEW f \in Field \ Meant(op), Writes(form, f)
        PROVE  f \in Shown /\ ValueOf(form, f) = ValueOf(page, f)
    <3>1. CASE f \in Part
      <4>1. f \in DOMAIN both /\ f \notin DOMAIN edit["notify"]
        BY <1>5, <1>6, <2>1, <2>3, <3>1, MeantIs, Values
      <4> QED
        BY <1>3, <2>1, <3>1, <4>1, Fields, Values
    <3>2. CASE f \in {Own("token"), Own("lan"), Own("interval")}
      BY <2>1, <2>3, <3>2, Fields, Values
    <3> QED
      BY <3>1, <3>2, Fields
  <2> QED
    BY <2>1, <2>2, <2>3
<1>7. CASE "notify" \notin DOMAIN edit
  <2>1. /\ DOMAIN form = (DOMAIN edit) \cup {"interval", "lan", "notify"}
        /\ form["notify"] = page["notify"]
        /\ \A k \in {"interval", "lan"} \ DOMAIN edit : form[k] = page[k]
    BY <1>1, <1>7 DEF Over
  <2>2. PageForm(form) /\ DOMAIN form["notify"] \subseteq Part
    BY <2>1, Fields DEF PageForm
  <2>3. ASSUME NEW f \in Field \ Meant(op), Writes(form, f)
        PROVE  f \in Shown /\ ValueOf(form, f) = ValueOf(page, f)
    <3>1. CASE f \in Part
      BY <2>1, <2>3, <3>1, Fields, Values
    <3>2. CASE f \in {Own("token"), Own("lan"), Own("interval")}
      <4>1. PICK k \in {"token", "lan", "interval"} : f = Own(k)
        BY <3>2
      <4>2. k \in DOMAIN form /\ k \notin DOMAIN edit
        BY <1>5, <2>3, <4>1, MeantIs, Values
      <4> QED
        BY <2>1, <4>1, <4>2, Fields, Values
    <3> QED
      BY <3>1, <3>2, Fields
  <2> QED
    BY <1>5, <2>1, <2>2, <2>3
<1> QED
  BY <1>6, <1>7

\* What a request makes of what it was given and of the settings it has read:
\* no empty token unless it clears the token, no new one unless there is none,
\* and of the fields it does not mean to set what it was given or has read.
LEMMA PatchIs ==
    ASSUME ShapeInv, NEW op \in Ops, NEW given, NEW n,
           "token" \in DOMAIN given => "token" \in DOMAIN op.set,
           "notify" \in DOMAIN given => DOMAIN given["notify"] \subseteq Part,
           \/ n = Normalize(given, store)
           \/ PageForm(given) /\ n = FormPatch(given, op.clear, store)
    PROVE  /\ "token" \in DOMAIN n => n["token"] # "none" \/ op.clear
           /\ "notify" \in DOMAIN n => DOMAIN n["notify"] \subseteq Part
           /\ \A f \in Field \ Meant(op) : Writes(n, f) =>
                 \/ Writes(given, f) /\ ValueOf(n, f) = ValueOf(given, f)
                 \/ ValueOf(n, f) = ValueOf(store, f)
                 \/ f = Own("token") /\ store["token"] = "none"
<1>b. op.clear \in BOOLEAN
  BY OpsAre
<1>k. ASSUME \A k \in {"lan", "interval"} : k \in DOMAIN n /\ Own(k) \notin Meant(op) =>
                k \in DOMAIN given /\ n[k] = given[k],
             "token" \in DOMAIN n /\ Own("token") \notin Meant(op) => store["token"] = "none",
             "notify" \in DOMAIN n =>
                \A p \in (DOMAIN n["notify"]) \cap Part :
                   \/ /\ "notify" \in DOMAIN given /\ p \in DOMAIN given["notify"]
                      /\ n["notify"][p] = given["notify"][p]
                   \/ n["notify"][p] = store["notify"][p]
      PROVE  \A f \in Field \ Meant(op) : Writes(n, f) =>
                 \/ Writes(given, f) /\ ValueOf(n, f) = ValueOf(given, f)
                 \/ ValueOf(n, f) = ValueOf(store, f)
                 \/ f = Own("token") /\ store["token"] = "none"
  <2> TAKE f \in Field \ Meant(op)
  <2>1. CASE f \in Part
    BY <1>k, <2>1, Values
  <2>2. CASE f \in {Own("token"), Own("lan"), Own("interval")}
    BY <1>k, <2>2, Values
  <2> QED
    BY <2>1, <2>2, Fields
<1>1. CASE n = Normalize(given, store)
  <2>1. /\ DOMAIN n \subseteq (DOMAIN given) \cup {"host", "token"}
        /\ "token" \in DOMAIN n => n["token"] # "none"
        /\ "token" \in DOMAIN n /\ "token" \notin DOMAIN given => store["token"] = "none"
        /\ \A k \in {"lan", "interval", "notify"} :
              k \in DOMAIN given => k \in DOMAIN n /\ n[k] = given[k]
    BY <1>1, NormalizeIs
  <2>2. "token" \in DOMAIN n /\ Own("token") \notin Meant(op) => store["token"] = "none"
    BY <2>1, MeantIs
  <2> QED
    BY <2>1, <2>2, <1>k
<1>2. CASE PageForm(given) /\ n = FormPatch(given, op.clear, store)
  <2> DEFINE plain == [k \in (DOMAIN given) \ {"notify"} |->
                          IF op.clear /\ k = "lan" THEN FALSE ELSE given[k]]
             norm == Normalize(plain, store)
             none == [token |-> "none"]
             access == IF op.clear THEN Over(none, norm) ELSE norm
             form == FormNotify(given["notify"], store["notify"])
             chan == [notify |-> form]
  <2>1. /\ DOMAIN plain = (DOMAIN given) \ {"notify"} /\ DOMAIN none = {"token"}
        /\ DOMAIN chan = {"notify"} /\ chan["notify"] = form
        /\ \A k \in DOMAIN plain : ~op.clear \/ k # "lan" => plain[k] = given[k]
    OBVIOUS
  <2>2. n = Over(chan, access)
    BY <1>2 DEF FormPatch
  <2>3. /\ DOMAIN norm \subseteq (DOMAIN plain) \cup {"host", "token"}
        /\ "token" \in DOMAIN norm => norm["token"] # "none"
        /\ "token" \in DOMAIN norm /\ "token" \notin DOMAIN plain => store["token"] = "none"
        /\ \A k \in {"lan", "interval", "notify"} :
              k \in DOMAIN plain => k \in DOMAIN norm /\ norm[k] = plain[k]
    <3> HIDE DEF plain
    <3> QED
      BY NormalizeIs
  <2>4. access = IF op.clear THEN Over(none, norm) ELSE norm
    OBVIOUS
  <2>5. /\ DOMAIN form = Part
        /\ \A p \in Part : \/ p \in DOMAIN given["notify"] /\ form[p] = given["notify"][p]
                           \/ form[p] = store["notify"][p]
    BY <1>2 DEF FormNotify, PageForm
  <2>g. "notify" \in DOMAIN given
    BY <1>2 DEF PageForm
  <2> HIDE DEF plain, norm, none, access, form, chan
  <2>6. /\ DOMAIN access \subseteq (DOMAIN norm) \cup {"token"}
        /\ "token" \in DOMAIN access => op.clear \/ access["token"] # "none"
        /\ "token" \in DOMAIN access /\ ~op.clear => "token" \in DOMAIN norm
        /\ \A k \in {"lan", "interval"} : k \in DOMAIN access =>
              k \in DOMAIN norm /\ access[k] = norm[k]
    BY <1>b, <2>1, <2>3, <2>4 DEF Over
  <2>7. /\ DOMAIN n = (DOMAIN access) \cup {"notify"} /\ n["notify"] = form
        /\ \A k \in {"token", "lan", "interval"} : k \in DOMAIN access => n[k] = access[k]
    BY <2>1, <2>2 DEF Over
  <2>8. \A k \in {"lan", "interval"} : k \in DOMAIN n /\ Own(k) \notin Meant(op) =>
            k \in DOMAIN given /\ n[k] = given[k]
    BY <2>1, <2>3, <2>6, <2>7, MeantIs
  <2>9. "token" \in DOMAIN n /\ Own("token") \notin Meant(op) => store["token"] = "none"
    BY <2>1, <2>3, <2>6, <2>7, MeantIs
  <2>10. "token" \in DOMAIN n => n["token"] # "none" \/ op.clear
    BY <2>6, <2>7
  <2> QED
    BY <2>5, <2>7, <2>8, <2>9, <2>10, <2>g, <1>k
<1> QED
  BY <1>1, <1>2

\* What a commit writes.
LEMMA CommittedIs ==
    ASSUME StoreShape(store), NEW patch, NEW notify, NEW c, c = Committed(patch, notify)
    PROVE  /\ DOMAIN store \subseteq DOMAIN c
           /\ \A k \in {"token", "lan", "interval"} :
                 c[k] = IF k \in DOMAIN patch THEN patch[k] ELSE store[k]
           /\ c["notify"] = IF "notify" \in DOMAIN patch THEN Over(patch["notify"], notify)
                            ELSE store["notify"]
<1>s. {"token", "lan", "interval", "notify"} \subseteq DOMAIN store
  BY DEF StoreShape
<1>1. CASE "notify" \notin DOMAIN patch
  <2>1. c = Over(patch, store)
    BY <1>1 DEF Committed
  <2> QED
    BY <2>1, <1>1, <1>s DEF Over
<1>2. CASE "notify" \in DOMAIN patch
  <2> DEFINE both == Over(patch["notify"], notify)
             chan == [notify |-> both]
             all == Over(chan, patch)
  <2>1. c = Over(all, store)
    BY <1>2 DEF Committed
  <2>2. DOMAIN chan = {"notify"} /\ chan["notify"] = both
    OBVIOUS
  <2>3. /\ DOMAIN all = {"notify"} \cup DOMAIN patch /\ all["notify"] = both
        /\ \A k \in {"token", "lan", "interval"} : k \in DOMAIN patch => all[k] = patch[k]
    <3> HIDE DEF both, chan
    <3> QED
      BY <2>2 DEF Over
  <2> HIDE DEF all
  <2>4. /\ DOMAIN c = DOMAIN all \cup DOMAIN store /\ c["notify"] = both
        /\ \A k \in {"token", "lan", "interval"} :
              c[k] = IF k \in DOMAIN patch THEN patch[k] ELSE store[k]
    BY <2>1, <2>3, <1>s DEF Over
  <2> QED
    BY <2>4, <1>2, <1>s
<1> QED
  BY <1>1, <1>2

-----------------------------------------------------------------------------
(* The settings: what the steps of a request do to its local variables.    *)

\* One request moves, the others stay, and so does the service.
Moves(w) ==
    /\ bound # "off"
    /\ bound' = bound /\ UNCHANGED <<cache, visitor>>
    /\ DOMAIN writer' = Writer
    /\ \A u \in Writer : u # w => writer'[u] = writer[u]

\* The request goes on towards its commit, and keeps what it is.
Stays(w) ==
    /\ writer[w].pc \in Early
    /\ DOMAIN writer'[w] = Locals
    /\ writer'[w].op = writer[w].op
    /\ writer'[w].since = writer[w].since /\ writer'[w].opened = writer[w].opened
    /\ writer[w].op \in Ops /\ writer[w].since \in 0..commits
    /\ writer[w].opened \in 0..writer[w].since

\* A request starts.
Starts(w, op, opened) ==
    /\ DOMAIN writer'[w] = Locals
    /\ writer'[w].op = op /\ writer'[w].since = commits /\ writer'[w].opened = opened

Unwritten == UNCHANGED <<store, commits, touched>>
Uncounted == UNCHANGED <<version, answered>>

\* The stages of a request are not taken for each other.
LEMMA StagesAre ==
    ASSUME ShapeInv, NEW w \in Writer
    PROVE  /\ Idle.pc = "idle"
           /\ writer[w].pc \in Early => EarlyShape(w)
           /\ writer[w].pc \in Late => LateShape(w)
           /\ writer[w].pc = "page" => PageShape(w)
           /\ writer[w].pc \in {"idle", "page"} \cup Early \cup Late
           /\ writer[w].pc = "idle" => writer[w] = Idle
  BY DEF ShapeInv, WriterShape, PageShape, EarlyShape, LateShape, Idle, Early, Late

LEMMA OpenPageDoes ==
    ASSUME ShapeInv, NEW w \in Writer, OpenPage(w)
    PROVE  /\ Moves(w) /\ Unwritten /\ Uncounted
           /\ writer'[w].pc = "page"
           /\ writer'[w].page = Page(store) /\ writer'[w].opened = commits
  BY DEF OpenPage, ShapeInv, Moves, Unwritten, Uncounted

LEMMA SubmitDoes ==
    ASSUME ShapeInv, NEW w \in Writer, NEW op \in PageOps, Submit(w, op)
    PROVE  /\ Moves(w) /\ Unwritten /\ Uncounted
           /\ writer[w].pc = "page" /\ writer'[w].pc = "read"
           /\ Starts(w, op, writer[w].opened)
           /\ writer'[w].patch = Filled(op.set, writer[w].page)
           /\ op.clear => bound = "loopback"
  BY DEF Submit, Room, At, Request, ShapeInv, Moves, Unwritten, Uncounted, Locals, Starts,
         ClearBlocked

LEMMA CallDoes ==
    ASSUME ShapeInv, NEW w \in Writer, NEW op \in CallOps, Call(w, op)
    PROVE  /\ Moves(w) /\ Unwritten /\ Uncounted
           /\ writer'[w].pc = IF op.via = "switch" THEN "merge" ELSE "read"
           /\ Starts(w, op, commits)
           /\ writer'[w].patch = op.set
           /\ op.via # "page" /\ ~op.clear
<1>1. op.via # "page" /\ ~op.clear
  BY DEF CallOps
<1> QED
  BY <1>1 DEF Call, Room, Request, ShapeInv, Moves, Unwritten, Uncounted, Locals, Starts

LEMMA ReadBeforeDoes ==
    ASSUME ShapeInv, NEW w \in Writer, ReadBefore(w)
    PROVE  /\ Moves(w) /\ Unwritten /\ Uncounted /\ Stays(w)
           /\ writer[w].pc = "read" /\ writer'[w].pc = "merge"
           /\ writer'[w].patch = IF writer[w].op.via = "page"
                                 THEN FormPatch(writer[w].patch, writer[w].op.clear, store)
                                 ELSE Normalize(writer[w].patch, store)
<1>1. writer[w].pc = "read" /\ writer[w].pc \in Early
  BY DEF ReadBefore, At, Early
<1> QED
  BY <1>1, StagesAre DEF EarlyShape, ReadBefore, ShapeInv, Moves, Stays, Unwritten, Uncounted, Locals

LEMMA ReadMergeDoes ==
    ASSUME ShapeInv, NEW w \in Writer, ReadMerge(w)
    PROVE  /\ Moves(w) /\ Unwritten /\ Uncounted /\ Stays(w)
           /\ writer[w].pc = "merge" /\ writer'[w].pc = "commit"
           /\ writer'[w].patch = writer[w].patch /\ writer'[w].notify = store.notify
<1>1. writer[w].pc = "merge" /\ writer[w].pc \in Early
  BY DEF ReadMerge, At, Early
<1> QED
  BY <1>1, StagesAre DEF EarlyShape, ReadMerge, ShapeInv, Moves, Stays, Unwritten, Uncounted, Locals

LEMMA CommitDoes ==
    ASSUME ShapeInv, NEW w \in Writer, Commit(w)
    PROVE  /\ Moves(w) /\ Uncounted
           /\ writer[w].pc = "commit" /\ writer'[w].pc = "count"
           /\ writer'[w].wish = commits + 1 /\ commits' = commits + 1
           /\ store' = Committed(writer[w].patch, writer[w].notify)
           /\ \A f \in Field :
                 touched'[f] = IF \/ f \in Meant(writer[w].op)
                                  \/ ValueOf(store', f) # ValueOf(store, f)
                               THEN commits + 1 ELSE touched[f]
<1>1. writer[w].pc = "commit" /\ writer[w].pc \in Early
  BY DEF Commit, At, Early
<1>2. \A f \in Field :
         touched'[f] = IF \/ f \in Meant(writer[w].op)
                          \/ ValueOf(store', f) # ValueOf(store, f)
                       THEN commits + 1 ELSE touched[f]
  BY DEF Commit, Touch
<1> QED
  BY <1>1, <1>2, StagesAre DEF EarlyShape, Commit, ShapeInv, Moves, Uncounted

LEMMA CountDoes ==
    ASSUME ShapeInv, NEW w \in Writer, Count(w)
    PROVE  /\ Moves(w) /\ Unwritten
           /\ version' = version + 1
           /\ answered' \in answered..commits
           /\ writer'[w] = Idle \/ writer'[w].pc = "look"
<1>1. writer[w].pc = "count" /\ writer[w].pc \in Late
  BY DEF Count, At, Late
<1>2. writer[w].wish \in 0..commits /\ answered \in 0..commits /\ commits \in Nat
  BY <1>1, StagesAre DEF ShapeInv, LateShape
<1>3. answered' \in answered..commits
  BY <1>2 DEF Count, Larger
<1> QED
  BY <1>1, <1>3, StagesAre DEF LateShape, Count, ShapeInv, Moves, Unwritten

LEMMA LookDoes ==
    ASSUME ShapeInv, NEW w \in Writer, Look(w)
    PROVE  Moves(w) /\ Unwritten /\ Uncounted /\ writer'[w].pc = "retime"
<1>1. writer[w].pc \in Late
  BY DEF Look, At, Late
<1> QED
  BY <1>1, StagesAre DEF LateShape, Look, ShapeInv, Moves, Unwritten, Uncounted

LEMMA EndDoes ==
    ASSUME ShapeInv, NEW w \in Writer, Refuse(w) \/ Retime(w)
    PROVE  Moves(w) /\ Unwritten /\ Uncounted /\ writer'[w] = Idle
<1>1. writer[w].pc \in Early \cup Late
  BY DEF Refuse, Retime, At, Early, Late
<1> QED
  BY <1>1, StagesAre DEF EarlyShape, LateShape, Refuse, Retime, ShapeInv, Moves, Unwritten, Uncounted

Quiet ==
    \/ \E h \in Host \cup {"unset"}, p \in BOOLEAN : Serve(h, p)
    \/ Stop
    \/ \E f \in Files, s \in BOOLEAN : Import(f, s)

\* Start, stop and import find no request under way, and leave the pages open.
LEMMA QuietIs ==
    ASSUME ShapeInv, Quiet
    PROVE  writer' = writer /\ \A w \in Writer : writer[w] = Idle \/ PageShape(w)
<1>1. writer' = writer
  BY DEF Quiet, Serve, Stop, Import
<1>2. CASE bound = "off"
  BY <1>1, <1>2 DEF ShapeInv, WriterShape, EarlyShape, LateShape
<1>3. CASE bound # "off"
  <2>1. InFlight = {}
    BY <1>3 DEF Quiet, Serve, Stop, Import
  <2>2. \A w \in Writer : writer[w].pc \in {"idle", "page"}
    BY <2>1 DEF InFlight
  <2> QED
    BY <1>1, <2>2, StagesAre
<1> QED
  BY <1>2, <1>3

\* What start, stop and import do to the rest.
LEMMA QuietDoes ==
    ASSUME ShapeInv, Quiet
    PROVE  /\ UNCHANGED <<writer, visitor>>
           /\ commits' \in Nat /\ commits' >= commits /\ answered' \in 0..commits'
           /\ StoreShape(store')
           /\ \A f \in Field :
                 \/ touched'[f] = commits + 1
                 \/ touched'[f] = touched[f] /\ ValueOf(store', f) = ValueOf(store, f)
           /\ bound' = "any" => store'["token"] # "none"
           /\ \/ version' = 0 /\ cache' = [version |-> -1, copy |-> Blank] /\ bound = "off"
              \/ UNCHANGED <<version, cache>> /\ bound' = "off" /\ bound = "off"
              \/ /\ UNCHANGED <<version, cache, answered>> /\ bound' = "off"
                 /\ \A v \in Visitor : visitor[v] = Out
<1>s. StoreShape(store) /\ commits \in Nat /\ answered \in 0..commits
  BY DEF ShapeInv
<1>t. ASSUME Touch({})
      PROVE  \A f \in Field :
                 \/ touched'[f] = commits + 1
                 \/ touched'[f] = touched[f] /\ ValueOf(store', f) = ValueOf(store, f)
  BY <1>t DEF Touch
<1>1. ASSUME NEW h \in Host \cup {"unset"}, NEW p \in BOOLEAN, Serve(h, p)
      PROVE  /\ UNCHANGED <<writer, visitor>> /\ Touch({})
             /\ commits' \in {commits, commits + 1} /\ answered' = commits'
             /\ StoreShape(store')
             /\ bound' = "any" => store'["token"] # "none"
             /\ version' = 0 /\ cache' = [version |-> -1, copy |-> Blank] /\ bound = "off"
  <2> DEFINE given == IF EnvToken /\ store.token = "none"
                      THEN [store EXCEPT !.token = "env"] ELSE store
             g == IF h = "unset" THEN given.host ELSE h
             saved == IF p THEN [given EXCEPT !.host = g] ELSE given
             runs == g = "any" => saved.token # "none"
  <2>1. DOMAIN given = DOMAIN store /\ given["notify"] = store["notify"]
    BY <1>s DEF StoreShape
  <2>2. DOMAIN saved = DOMAIN given /\ saved["notify"] = given["notify"]
    BY <1>s, <2>1 DEF StoreShape
  <2>3. /\ store' = saved /\ bound' = IF runs THEN g ELSE "off"
        /\ commits' = IF saved # store THEN commits + 1 ELSE commits
        /\ answered' = commits'
    BY <1>1 DEF Serve
  <2>4. runs <=> (g = "any" => saved["token"] # "none")
    OBVIOUS
  <2> HIDE DEF given, saved, runs, g
  <2>5. bound' = "any" => saved["token"] # "none"
    BY <2>3, <2>4
  <2>6. StoreShape(store')
    BY <1>s, <2>1, <2>2, <2>3 DEF StoreShape
  <2> QED
    BY <1>1, <2>3, <2>5, <2>6 DEF Serve
<1>2. ASSUME NEW f \in Files, NEW s \in BOOLEAN, Import(f, s)
      PROVE  /\ UNCHANGED <<writer, visitor, version, cache, bound>> /\ bound = "off"
             /\ Touch({}) /\ commits' = commits + 1 /\ answered' = commits + 1
             /\ StoreShape(store')
  <2> DEFINE patch == [k \in (DOMAIN f) \ (IF s THEN {} ELSE {"token", "notify"}) |-> f[k]]
             norm == Normalize(patch, store)
  <2>1. "notify" \notin DOMAIN patch
    BY DEF Files
  <2>2. store' = Committed(norm, store.notify)
    BY <1>2 DEF Import
  <2> HIDE DEF patch
  <2>3. "notify" \notin DOMAIN norm
    BY <2>1, NormalizeIs
  <2> HIDE DEF norm
  <2>4. StoreShape(store')
    BY <1>s, <2>2, <2>3, CommittedIs DEF StoreShape
  <2> QED
    BY <1>2, <2>4 DEF Import
<1>3. CASE Stop
  BY <1>3, <1>s DEF Stop
<1>4. CASE \E h \in Host \cup {"unset"}, p \in BOOLEAN : Serve(h, p)
  <2>1. PICK h \in Host \cup {"unset"}, p \in BOOLEAN : Serve(h, p)
    BY <1>4
  <2> QED
    BY <2>1, <1>1, <1>s, <1>t
<1>5. CASE \E f \in Files, s \in BOOLEAN : Import(f, s)
  <2>1. PICK f \in Files, s \in BOOLEAN : Import(f, s)
    BY <1>5
  <2> QED
    BY <2>1, <1>2, <1>s, <1>t
<1> QED
  BY <1>3, <1>4, <1>5 DEF Quiet

\* An access check changes nothing but the copy and its own variables.
LEMMA VisitorDoes ==
    ASSUME NEW v \in Visitor, VisitorStep(v)
    PROVE  Unwritten /\ Uncounted /\ UNCHANGED <<bound, job, writer>>
  BY DEF VisitorStep, Arrive, Enter, Fetch, Keep, Leave, Unwritten, Uncounted

-----------------------------------------------------------------------------
(* The settings: the invariants.                                           *)

LEMMA ShapeBegins == SettingsInit => ShapeInv
<1> SUFFICES ASSUME SettingsInit PROVE ShapeInv
  OBVIOUS
<1>1. store \in Settings
  BY DEF SettingsInit
<1>2. StoreShape(store)
  BY <1>1 DEF Settings, StoreShape
<1> QED
  BY <1>2 DEF SettingsInit, ShapeInv, WriterShape

\* A request that does not move keeps its shape: transactions are only added.
LEMMA ShapeOfOthers ==
    ASSUME ShapeInv, NEW u \in Writer, writer'[u] = writer[u], bound' = bound,
           commits' \in Nat, commits' >= commits
    PROVE  WriterShape(u)'
  BY DEF ShapeInv, WriterShape, PageShape, EarlyShape, LateShape

LEMMA ShapeStep == ASSUME ShapeInv, ChangeInv, [SettingsNext]_settingsVars PROVE ShapeInv'
<1>s. commits \in Nat /\ answered \in 0..commits /\ StoreShape(store)
  BY DEF ShapeInv
<1>1. ASSUME NEW w \in Writer, WriterStep(w) PROVE ShapeInv'
  <2>k. ASSUME Moves(w), commits' \in commits..(commits + 1), WriterShape(w)'
        PROVE  /\ DOMAIN writer' = Writer
               /\ \A u \in Writer : WriterShape(u)'
    BY <1>s, <2>k, ShapeOfOthers DEF Moves
  <2>u. ASSUME Moves(w), Unwritten, Uncounted, WriterShape(w)' PROVE ShapeInv'
    BY <2>u, <2>k, <1>s DEF ShapeInv, Unwritten, Uncounted
  <2>1. CASE OpenPage(w)
    <3>1. /\ Moves(w) /\ Unwritten /\ Uncounted /\ writer'[w].pc = "page"
          /\ writer'[w].page = Page(store) /\ writer'[w].opened = commits
      BY <2>1, OpenPageDoes
    <3>2. DOMAIN Page(store) = {"interval", "lan", "notify"} /\ DOMAIN Page(store)["notify"] = Switch
      BY PageIs
    <3>3. WriterShape(w)'
      BY <1>s, <3>1, <3>2 DEF WriterShape, PageShape, Unwritten
    <3> QED
      BY <3>1, <3>3, <2>u
  <2>2. ASSUME NEW op \in PageOps, Submit(w, op) PROVE ShapeInv'
    <3>1. /\ Moves(w) /\ Unwritten /\ Uncounted
          /\ writer[w].pc = "page" /\ writer'[w].pc = "read"
          /\ Starts(w, op, writer[w].opened)
          /\ writer'[w].patch = Filled(op.set, writer[w].page)
      BY <2>2, SubmitDoes
    <3>2. PageShape(w) /\ op \in Ops
      BY <3>1, StagesAre DEF Ops
    <3>3. /\ PageForm(writer'[w].patch)
          /\ "token" \in DOMAIN writer'[w].patch => "token" \in DOMAIN op.set
      <4> DEFINE form == writer'[w].patch
                 page == writer[w].page
      <4>1. form = Filled(op.set, page) /\ DOMAIN page = {"interval", "lan", "notify"}
            /\ DOMAIN page["notify"] = Switch
        BY <3>1, <3>2 DEF PageShape
      <4> HIDE DEF form, page
      <4>2. PageForm(form) /\ ("token" \in DOMAIN form => "token" \in DOMAIN op.set)
        BY <3>2, <4>1, FilledIs
      <4> QED
        BY <4>2 DEF form
    <3>4. EarlyShape(w)'
      BY <1>s, <3>1, <3>2, <3>3 DEF EarlyShape, PageShape, Starts, Moves, Unwritten, Early
    <3> QED
      BY <3>1, <3>4, <2>u DEF WriterShape
  <2>3. ASSUME NEW op \in CallOps, Call(w, op) PROVE ShapeInv'
    <3>1. /\ Moves(w) /\ Unwritten /\ Uncounted
          /\ writer'[w].pc \in {"read", "merge"}
          /\ Starts(w, op, commits) /\ writer'[w].patch = op.set /\ op.via # "page"
      BY <2>3, CallDoes
    <3>2. EarlyShape(w)'
      BY <1>s, <3>1 DEF EarlyShape, Starts, Moves, Unwritten, Early, Ops
    <3> QED
      BY <3>1, <3>2, <2>u DEF WriterShape
  <2>4. CASE ReadBefore(w) \/ ReadMerge(w)
    <3>1. /\ Moves(w) /\ Unwritten /\ Uncounted /\ Stays(w)
          /\ writer'[w].pc \in {"merge", "commit"}
      BY <2>4, ReadBeforeDoes, ReadMergeDoes
    <3>2. EarlyShape(w)'
      BY <3>1, <1>s DEF EarlyShape, Moves, Unwritten, Early, Stays
    <3> QED
      BY <3>1, <3>2, <2>u DEF WriterShape
  <2>5. CASE Look(w) \/ Refuse(w) \/ Retime(w)
    <3>1. Moves(w) /\ Unwritten /\ Uncounted /\ (writer'[w] = Idle \/ writer'[w].pc = "retime")
      BY <2>5, LookDoes, EndDoes
    <3>2. WriterShape(w)'
      BY <3>1 DEF WriterShape, LateShape, Moves, Late
    <3> QED
      BY <3>1, <3>2, <2>u
  <2>6. CASE Count(w)
    <3>1. /\ Moves(w) /\ Unwritten /\ answered' \in answered..commits
          /\ writer'[w] = Idle \/ writer'[w].pc = "look"
      BY <2>6, CountDoes
    <3>2. WriterShape(w)'
      BY <3>1 DEF WriterShape, LateShape, Moves, Late
    <3> QED
      BY <3>1, <3>2, <2>k, <1>s DEF ShapeInv, Unwritten
  <2>7. CASE Commit(w)
    <3> DEFINE patch == writer[w].patch
               notify == writer[w].notify
    <3>1. /\ Moves(w) /\ Uncounted /\ commits' = commits + 1 /\ writer[w].pc = "commit"
          /\ store' = Committed(patch, notify)
          /\ writer'[w].pc = "count" /\ writer'[w].wish = commits + 1
      BY <2>7, CommitDoes
    <3>2. WriterShape(w)'
      BY <3>1, <1>s DEF WriterShape, LateShape, Moves, Late
    <3>3. /\ "notify" \in DOMAIN patch => DOMAIN patch["notify"] \subseteq Part
          /\ DOMAIN notify = Part
      BY <3>1 DEF ChangeInv, ChangeOf, Harmless, Merged, Early
    <3> HIDE DEF patch, notify
    <3>4. /\ DOMAIN store \subseteq DOMAIN store'
          /\ store'["notify"] = IF "notify" \in DOMAIN patch THEN Over(patch["notify"], notify)
                                ELSE store["notify"]
      BY <1>s, <3>1, CommittedIs
    <3>5. StoreShape(store')
      BY <3>3, <3>4, <1>s DEF Over, StoreShape
    <3> QED
      BY <3>1, <3>2, <3>5, <2>k, <1>s DEF ShapeInv, Uncounted
  <2> QED
    BY <1>1, <2>1, <2>2, <2>3, <2>4, <2>5, <2>6, <2>7 DEF WriterStep
<1>2. ASSUME NEW v \in Visitor, VisitorStep(v) PROVE ShapeInv'
  BY <1>2, VisitorDoes
     DEF ShapeInv, WriterShape, PageShape, EarlyShape, LateShape, Unwritten, Uncounted
<1>3. CASE Quiet
  <2>1. \A w \in Writer : WriterShape(w)'
    BY <1>3, <1>s, QuietIs, QuietDoes DEF WriterShape, PageShape
  <2> QED
    BY <1>3, <2>1, QuietDoes DEF ShapeInv
<1>4. CASE UNCHANGED settingsVars
  BY <1>4 DEF settingsVars, ShapeInv, WriterShape, PageShape, EarlyShape, LateShape
<1> QED
  BY <1>1, <1>2, <1>3, <1>4 DEF SettingsNext, Quiet

\* What a page shows, or a request that does not move would write, stays
\* harmless: whoever changes a field meanwhile has touched it.
LEMMA ChangeOfOthers ==
    ASSUME ShapeInv, ChangeInv, NEW u \in Writer, writer'[u] = writer[u],
           \A f \in Field :
              \/ touched'[f] = commits + 1
              \/ touched'[f] = touched[f] /\ ValueOf(store', f) = ValueOf(store, f)
    PROVE  ChangeOf(u)'
<1>1. commits \in Nat /\ ChangeOf(u)
  BY DEF ShapeInv, ChangeInv
<1>2. \A f \in Field :
         ValueOf(store', f) = ValueOf(store, f) =>
            /\ f \in Part => store'["notify"][f] = store["notify"][f]
            /\ f = Own("token") => store'["token"] = store["token"]
  BY Values
<1>3. writer[u].pc = "page" => PageKept(u)'
  <2>1. writer[u].pc = "page" => writer[u].opened \in 0..commits
    BY StagesAre DEF PageShape
  <2>2. Shown \subseteq Field
    BY Fields
  <2> QED
    BY <1>1, <2>1, <2>2 DEF PageKept, ChangeOf
<1>4. writer[u].pc \in Early =>
         /\ writer[u].since \in 0..commits
         /\ \A f \in Field : Learned(u, f) \in 0..commits /\ Learned(u, f)' = Learned(u, f)
  BY <1>1, StagesAre DEF EarlyShape, Learned
<1>5. writer[u].pc \in Early => Harmless(u)'
  <2> SUFFICES ASSUME writer[u].pc \in Early PROVE Harmless(u)'
    OBVIOUS
  <2> DEFINE patch == writer[u].patch
  <2>1. /\ "notify" \in DOMAIN patch => DOMAIN patch.notify \subseteq Part
        /\ \A f \in Field \ Meant(writer[u].op) :
              Writes(patch, f) =>
                 \/ ValueOf(patch, f) = ValueOf(store, f)
                 \/ f = Own("token") /\ store.token = "none"
                 \/ touched[f] > Learned(u, f)
    BY <1>1 DEF ChangeOf, Harmless
  <2>2. \A f \in Field \ Meant(writer[u].op) :
              Writes(patch, f) =>
                 \/ ValueOf(patch, f) = ValueOf(store', f)
                 \/ f = Own("token") /\ store'.token = "none"
                 \/ touched'[f] > Learned(u, f)
    BY <1>1, <1>2, <1>4, <2>1
  <2> QED
    BY <1>4, <2>1, <2>2 DEF Harmless
<1>6. writer[u].pc = "commit" => Merged(u)'
  <2> SUFFICES ASSUME writer[u].pc = "commit" PROVE Merged(u)'
    OBVIOUS
  <2>1. writer[u].pc \in Early /\ Part \subseteq Field
    BY Fields DEF Early
  <2> QED
    BY <1>1, <1>2, <1>4, <2>1 DEF Merged, ChangeOf
<1> QED
  BY <1>3, <1>5, <1>6 DEF ChangeOf

LEMMA ChangeStep == ASSUME ShapeInv, ChangeInv, [SettingsNext]_settingsVars PROVE ChangeInv'
<1>1. ASSUME NEW w \in Writer, WriterStep(w) PROVE ChangeInv'
  <2>k. ASSUME Unwritten, Moves(w), ChangeOf(w)' PROVE ChangeInv'
    BY <2>k, ChangeOfOthers DEF Unwritten, Moves, ChangeInv
  <2>1. CASE OpenPage(w)
    <3>1. /\ Moves(w) /\ Unwritten /\ writer'[w].pc = "page" /\ writer'[w].page = Page(store)
      BY <2>1, OpenPageDoes
    <3>2. \A f \in Shown : ValueOf(Page(store), f) = ValueOf(store, f)
      BY PageIs
    <3>3. ChangeOf(w)'
      BY <3>1, <3>2 DEF ChangeOf, PageKept, Unwritten, Early
    <3> QED
      BY <3>1, <3>3, <2>k
  <2>2. ASSUME NEW op \in PageOps, Submit(w, op) PROVE ChangeInv'
    <3> DEFINE form == writer'[w].patch
               page == writer[w].page
    <3>1. /\ Moves(w) /\ Unwritten
          /\ writer[w].pc = "page" /\ writer'[w].pc = "read"
          /\ writer'[w].op = op /\ writer'[w].opened = writer[w].opened
          /\ form = Filled(op.set, page)
      BY <2>2, SubmitDoes DEF Starts
    <3>2. /\ PageKept(w) /\ op \in Ops
          /\ DOMAIN page = {"interval", "lan", "notify"} /\ DOMAIN page["notify"] = Switch
      BY <3>1, StagesAre DEF PageShape, ChangeInv, ChangeOf, Ops
    <3>3. /\ DOMAIN form["notify"] \subseteq Part
          /\ \A f \in Field \ Meant(op) :
                Writes(form, f) => f \in Shown /\ ValueOf(form, f) = ValueOf(page, f)
      <4> HIDE DEF form, page
      <4> QED
        BY <3>1, <3>2, FilledIs
    <3>4. Harmless(w)'
      BY <3>1, <3>2, <3>3 DEF Harmless, PageKept, Learned, Unwritten
    <3>5. ChangeOf(w)'
      BY <3>1, <3>4 DEF ChangeOf
    <3> QED
      BY <3>1, <3>5, <2>k
  <2>3. ASSUME NEW op \in CallOps, Call(w, op) PROVE ChangeInv'
    <3>1. /\ Moves(w) /\ Unwritten /\ writer'[w].pc \in {"read", "merge"}
          /\ writer'[w].op = op /\ writer'[w].patch = op.set /\ op \in Ops
      BY <2>3, CallDoes DEF Starts, Ops
    <3>2. /\ "notify" \in DOMAIN op.set => DOMAIN op.set["notify"] \subseteq Part
          /\ \A f \in Field : Writes(op.set, f) => f \in Meant(op)
      BY <3>1, OpsAre DEF Meant
    <3>3. ChangeOf(w)'
      BY <3>1, <3>2 DEF ChangeOf, Harmless
    <3> QED
      BY <3>1, <3>3, <2>k
  <2>4. CASE ReadBefore(w)
    <3> DEFINE n == writer'[w].patch
               given == writer[w].patch
               op == writer[w].op
    <3>1. /\ Moves(w) /\ Unwritten /\ writer[w].pc = "read" /\ writer'[w].pc = "merge"
          /\ writer'[w].op = op /\ op \in Ops
          /\ writer'[w].since = writer[w].since /\ writer'[w].opened = writer[w].opened
          /\ n = IF op.via = "page" THEN FormPatch(given, op.clear, store)
                 ELSE Normalize(given, store)
      BY <2>4, ReadBeforeDoes DEF Stays
    <3>2. /\ Harmless(w)
          /\ "token" \in DOMAIN given => "token" \in DOMAIN op.set
          /\ op.via = "page" => PageForm(given)
      BY <3>1, StagesAre DEF ChangeInv, ChangeOf, EarlyShape, Early
    <3>3. /\ "notify" \in DOMAIN given => DOMAIN given["notify"] \subseteq Part
          /\ \A f \in Field \ Meant(op) : Writes(given, f) =>
                \/ ValueOf(given, f) = ValueOf(store, f)
                \/ f = Own("token") /\ store["token"] = "none"
                \/ touched[f] > Learned(w, f)
      BY <3>2 DEF Harmless
    <3>4. /\ "notify" \in DOMAIN n => DOMAIN n["notify"] \subseteq Part
          /\ \A f \in Field \ Meant(op) : Writes(n, f) =>
                \/ Writes(given, f) /\ ValueOf(n, f) = ValueOf(given, f)
                \/ ValueOf(n, f) = ValueOf(store, f)
                \/ f = Own("token") /\ store["token"] = "none"
      <4>1. op \in Ops /\ n = IF op.via = "page" THEN FormPatch(given, op.clear, store)
                              ELSE Normalize(given, store)
        BY <3>1
      <4> HIDE DEF n, given, op
      <4> QED
        BY <3>2, <3>3, <4>1, PatchIs
    <3>5. \A f \in Field : Learned(w, f)' = Learned(w, f)
      BY <3>1 DEF Learned
    <3>6. \A f \in Field \ Meant(op) : Writes(n, f) =>
                \/ ValueOf(n, f) = ValueOf(store, f)
                \/ f = Own("token") /\ store["token"] = "none"
                \/ touched[f] > Learned(w, f)
      <4> HIDE DEF n, given, op
      <4> QED
        BY <3>3, <3>4
    <3>7. Harmless(w)'
      BY <3>1, <3>4, <3>5, <3>6 DEF Harmless, Unwritten
    <3>8. ChangeOf(w)'
      BY <3>1, <3>7 DEF ChangeOf
    <3> QED
      BY <3>1, <3>8, <2>k
  <2>5. CASE ReadMerge(w)
    <3>1. /\ Moves(w) /\ Unwritten
          /\ writer[w].pc = "merge" /\ writer'[w].pc = "commit"
          /\ writer'[w].op = writer[w].op
          /\ writer'[w].since = writer[w].since /\ writer'[w].opened = writer[w].opened
          /\ writer'[w].patch = writer[w].patch /\ writer'[w].notify = store.notify
      BY <2>5, ReadMergeDoes DEF Stays
    <3>2. Harmless(w)
      BY <3>1 DEF ChangeInv, ChangeOf, Early
    <3>3. Harmless(w)'
      BY <3>1, <3>2 DEF Harmless, Learned, Unwritten
    <3>4. Merged(w)'
      BY <3>1 DEF Merged, Unwritten, ShapeInv, StoreShape
    <3>5. ChangeOf(w)'
      BY <3>1, <3>3, <3>4 DEF ChangeOf
    <3> QED
      BY <3>1, <3>5, <2>k
  <2>6. CASE Commit(w)
    <3>1. /\ Moves(w) /\ writer'[w].pc = "count"
          /\ \A f \in Field :
                \/ touched'[f] = commits + 1
                \/ touched'[f] = touched[f] /\ ValueOf(store', f) = ValueOf(store, f)
      BY <2>6, CommitDoes
    <3>2. ChangeOf(w)'
      BY <3>1 DEF ChangeOf, Early
    <3> QED
      BY <3>1, <3>2, ChangeOfOthers DEF Moves, ChangeInv
  <2>7. CASE Count(w) \/ Look(w) \/ Refuse(w) \/ Retime(w)
    <3>1. Moves(w) /\ Unwritten /\ writer'[w].pc \in {"idle", "look", "retime"}
      BY <2>7, CountDoes, LookDoes, EndDoes, StagesAre
    <3>2. ChangeOf(w)'
      BY <3>1 DEF ChangeOf, Early
    <3> QED
      BY <3>1, <3>2, <2>k
  <2> QED
    BY <1>1, <2>1, <2>2, <2>3, <2>4, <2>5, <2>6, <2>7 DEF WriterStep
<1>2. ASSUME NEW v \in Visitor, VisitorStep(v) PROVE ChangeInv'
  BY <1>2, VisitorDoes, ChangeOfOthers DEF ChangeInv, Unwritten
<1>3. CASE Quiet
  BY <1>3, QuietDoes, ChangeOfOthers DEF ChangeInv
<1>4. CASE UNCHANGED settingsVars
  BY <1>4, ChangeOfOthers DEF settingsVars, ChangeInv
<1> QED
  BY <1>1, <1>2, <1>3, <1>4 DEF SettingsNext, Quiet

\* ShapeInv and ChangeInv are invariants of the settings: what the open pages
\* show, and what the requests under way would write of what they do not mean
\* to set, is what is there or has been set since they learned it (form_settings
\* posts every switch, the interval and the access, as old as the page is).
THEOREM ChangeInvariance == SettingsSpec => [](ShapeInv /\ ChangeInv)
<1>1. SettingsInit => ShapeInv /\ ChangeInv
  <2> SUFFICES ASSUME SettingsInit PROVE ShapeInv /\ ChangeInv
    OBVIOUS
  <2>1. ShapeInv /\ \A w \in Writer : writer[w] = Idle
    BY ShapeBegins DEF SettingsInit
  <2> QED
    BY <2>1, StagesAre DEF ChangeInv, ChangeOf, Early
<1>2. ShapeInv /\ ChangeInv /\ [SettingsNext]_settingsVars => ShapeInv' /\ ChangeInv'
  BY ShapeStep, ChangeStep
<1> QED
  BY <1>1, <1>2, PTL DEF SettingsSpec

\* A commit of another value than the one there, of a field that the request
\* does not mean to set: somebody has set it since the request learned it.
LEMMA CommitSurvives ==
    ASSUME ShapeInv, ChangeInv, [SettingsNext]_settingsVars,
           NEW w \in Writer, NEW f \in Field,
           At(w, "commit"), writer'[w].pc = "count",
           f \notin Meant(writer[w].op),
           ValueOf(store', f) # ValueOf(store, f),
           f = <<"service", "token">> => store.token # "none"
    PROVE  touched[f] > Learned(w, f)
<1>1. Commit(w)
  <2>1. writer'[w] # writer[w]
    BY DEF At
  <2>2. \A v \in Visitor : ~VisitorStep(v)
    BY <2>1, VisitorDoes
  <2>3. ~Quiet
    BY <2>1, QuietDoes
  <2>4. PICK u \in Writer : WriterStep(u)
    BY <2>1, <2>2, <2>3 DEF SettingsNext, settingsVars, Quiet
  <2>5. CASE Commit(u)
    BY <2>1, <2>5, CommitDoes DEF Moves
  <2>6. CASE ~Commit(u)
    <3>1. Unwritten
      BY <2>4, <2>6, OpenPageDoes, SubmitDoes, CallDoes, ReadBeforeDoes, ReadMergeDoes,
         CountDoes, LookDoes, EndDoes DEF WriterStep
    <3> QED
      BY <3>1 DEF Unwritten, ValueOf
  <2> QED
    BY <2>5, <2>6
<1> DEFINE patch == writer[w].patch
           notify == writer[w].notify
<1>2. /\ EarlyShape(w)
      /\ \A g \in Field \ Meant(writer[w].op) : Writes(patch, g) =>
            \/ ValueOf(patch, g) = ValueOf(store, g)
            \/ g = Own("token") /\ store["token"] = "none"
            \/ touched[g] > Learned(w, g)
      /\ Merged(w)
  BY StagesAre DEF At, ChangeInv, ChangeOf, Harmless, Early
<1>3. store' = Committed(patch, notify) /\ StoreShape(store)
  BY <1>1, CommitDoes DEF ShapeInv
<1>4. /\ \A k \in {"token", "lan", "interval"} :
            store'[k] = IF k \in DOMAIN patch THEN patch[k] ELSE store[k]
      /\ store'["notify"] = IF "notify" \in DOMAIN patch THEN Over(patch["notify"], notify)
                            ELSE store["notify"]
  <2> HIDE DEF patch, notify
  <2> QED
    BY <1>3, CommittedIs
<1>5. CASE f \in {Own("token"), Own("lan"), Own("interval")}
  <2>1. PICK k \in {"token", "lan", "interval"} : f = Own(k)
    BY <1>5
  <2>2. store'[k] # store[k]
    BY <2>1, Values
  <2>3. Writes(patch, f) /\ ValueOf(patch, f) # ValueOf(store, f)
    <3> HIDE DEF patch
    <3> QED
      BY <1>4, <2>1, <2>2, Values
  <2>4. ~(f = Own("token") /\ store["token"] = "none")
    BY DEF Own
  <2> QED
    BY <1>2, <2>3, <2>4
<1>6. CASE f \in Part
  <2>1. store'["notify"][f] # store["notify"][f]
    BY <1>6, Values
  <2>2. "notify" \in DOMAIN patch
    BY <1>4, <2>1
  <2>3. f \in DOMAIN notify
    BY <1>2, <1>6 DEF Merged
  <2>4. store'["notify"][f] = IF f \in DOMAIN patch["notify"] THEN patch["notify"][f]
                              ELSE notify[f]
    <3> HIDE DEF patch, notify
    <3> QED
      BY <1>4, <2>2, <2>3 DEF Over
  <2>5. CASE f \in DOMAIN patch["notify"]
    <3>1. Writes(patch, f) /\ ValueOf(patch, f) # ValueOf(store, f)
      <4> HIDE DEF patch
      <4> QED
        BY <1>6, <2>1, <2>2, <2>4, <2>5, Values
    <3>2. f # Own("token")
      BY <1>6, Fields
    <3> QED
      BY <1>2, <3>1, <3>2
  <2>6. CASE f \notin DOMAIN patch["notify"]
    BY <1>2, <1>6, <2>1, <2>4, <2>6 DEF Merged
  <2> QED
    BY <2>5, <2>6
<1> QED
  BY <1>5, <1>6, Fields

\* A field that a request does not mean to set is overwritten only if somebody
\* has set it since the request learned it, for any pages and requests at once:
\* what is not shown since the request began, what the page shows since it was
\* opened (form_settings, SettingsRepository.update).
THEOREM OldChangesSurvive == SettingsSpec => ChangesSurvive
<1> DEFINE A == \A w \in Writer, f \in Field :
                    (/\ At(w, "commit") /\ writer'[w].pc = "count"
                     /\ f \notin Meant(writer[w].op)
                     /\ ValueOf(store', f) # ValueOf(store, f)
                     /\ f = <<"service", "token">> => store.token # "none")
                    => touched[f] > Learned(w, f)
<1>1. ShapeInv /\ ChangeInv /\ [SettingsNext]_settingsVars => [A]_settingsVars
  BY CommitSurvives
<1>2. (SettingsSpec => [][A]_settingsVars) => (SettingsSpec => ChangesSurvive)
  BY DEF ChangesSurvive
<1> HIDE DEF A
<1> QED
  BY <1>1, <1>2, ChangeInvariance, PTL DEF SettingsSpec

-----------------------------------------------------------------------------
(* The settings: the access check and the token.                           *)

LEMMA FreshBegins == SettingsInit => FreshInv
  BY DEF SettingsInit, FreshInv, Blank, VisitorFresh

\* A counted change makes every copy there is too old, or leaves it so.
LEMMA FreshAfterCount ==
    ASSUME ShapeInv, FreshInv, UNCHANGED <<cache, visitor>>, bound' = bound,
           \/ UNCHANGED <<version, answered>>
           \/ version' = version + 1 /\ answered' \in answered..commits
    PROVE  FreshInv'
<1>1. /\ version \in Nat /\ answered \in Nat /\ commits \in Nat
      /\ version' \in Nat /\ answered' \in Nat /\ version' >= version /\ answered' >= answered
  BY DEF ShapeInv, FreshInv
<1>2. \A v \in Visitor : VisitorFresh(v)'
  <2> TAKE v \in Visitor
  <2>1. VisitorFresh(v)
    BY DEF FreshInv
  <2> QED
    BY <2>1, <1>1 DEF VisitorFresh, NewEnough
<1>3. bound' # "off" => NewEnough(cache.copy.at, cache.version)'
  BY <1>1 DEF FreshInv, NewEnough
<1> QED
  BY <1>1, <1>2, <1>3 DEF FreshInv

\* The steps of an access check.
LEMMA FreshAfterVisit ==
    ASSUME ShapeInv, FreshInv, NEW v \in Visitor, VisitorStep(v)
    PROVE  FreshInv'
<1>t. /\ version \in Nat /\ answered \in Nat /\ commits \in Nat /\ answered <= commits
      /\ DOMAIN visitor = Visitor /\ VisitorFresh(v)
      /\ cache.version \in Int /\ cache.copy.at \in Nat
  BY DEF ShapeInv, FreshInv
<1>b. bound # "off"
  BY <1>t DEF VisitorStep, Arrive, Enter, Fetch, Keep, Leave, VisitorFresh, Out
<1>c. NewEnough(cache.copy.at, cache.version)
  BY <1>b DEF FreshInv
<1>u. UNCHANGED <<version, answered, bound>>
  BY VisitorDoes DEF Uncounted
<1>o. /\ DOMAIN visitor' = Visitor
      /\ \A u \in Visitor : u # v => visitor'[u] = visitor[u]
  BY <1>t DEF VisitorStep, Arrive, Enter, Fetch, Keep, Leave
<1>k. ASSUME VisitorFresh(v)', cache'.version \in Int, cache'.copy.at \in Nat,
             NewEnough(cache'.copy.at, cache'.version)
      PROVE  FreshInv'
  <2>1. \A u \in Visitor : VisitorFresh(u)'
    BY <1>k, <1>o, <1>u DEF FreshInv, VisitorFresh, NewEnough
  <2> QED
    BY <1>k, <1>o, <1>u, <1>t, <2>1 DEF FreshInv, NewEnough
<1>1. CASE Arrive(v) \/ Enter(v)
  <2>1. VisitorFresh(v)'
    BY <1>1, <1>t, <1>b, <1>c, <1>u DEF Arrive, Enter, VisitorFresh, NewEnough, Current, Out
  <2> QED
    BY <1>1, <2>1, <1>k, <1>t, <1>c DEF Arrive, Enter
<1>2. CASE Fetch(v)
  <2>1. VisitorFresh(v)'
    BY <1>2, <1>t, <1>b, <1>u DEF Fetch, VisitorFresh, NewEnough, Copy, Out
  <2> QED
    BY <1>2, <2>1, <1>k, <1>t, <1>c DEF Fetch
<1>3. CASE Keep(v)
  <2>1. /\ visitor[v].version \in 0..version /\ visitor[v].copy.at \in Nat
        /\ visitor[v].copy.at >= visitor[v].since
        /\ NewEnough(visitor[v].copy.at, visitor[v].version)
        /\ visitor[v].since \in 0..answered
    BY <1>3, <1>t DEF Keep, VisitorFresh, Out
  <2>2. /\ cache'.version = visitor[v].version /\ cache'.copy = visitor[v].copy
        /\ visitor'[v] = [pc |-> "judged", since |-> visitor[v].since, by |-> visitor[v].copy]
    BY <1>3, <1>t DEF Keep, Kept
  <2>3. VisitorFresh(v)'
    BY <2>1, <2>2, <1>b, <1>u DEF VisitorFresh
  <2> QED
    BY <2>1, <2>2, <2>3, <1>k, <1>t
<1>4. CASE Leave(v)
  <2>1. VisitorFresh(v)'
    BY <1>4, <1>t DEF Leave, VisitorFresh
  <2> QED
    BY <1>4, <2>1, <1>k, <1>t, <1>c DEF Leave
<1> QED
  BY <1>1, <1>2, <1>3, <1>4 DEF VisitorStep

LEMMA FreshStep == ASSUME ShapeInv, FreshInv, [SettingsNext]_settingsVars PROVE FreshInv'
<1>1. ASSUME NEW w \in Writer, WriterStep(w) PROVE FreshInv'
  <2>1. UNCHANGED <<cache, visitor>> /\ bound' = bound
    BY <1>1, OpenPageDoes, SubmitDoes, CallDoes, ReadBeforeDoes, ReadMergeDoes, CommitDoes,
       CountDoes, LookDoes, EndDoes
       DEF WriterStep, Moves
  <2>2. \/ UNCHANGED <<version, answered>>
        \/ version' = version + 1 /\ answered' \in answered..commits
    BY <1>1, OpenPageDoes, SubmitDoes, CallDoes, ReadBeforeDoes, ReadMergeDoes, CommitDoes,
       CountDoes, LookDoes, EndDoes
       DEF WriterStep, Uncounted
  <2> QED
    BY <2>1, <2>2, FreshAfterCount
<1>2. ASSUME NEW v \in Visitor, VisitorStep(v) PROVE FreshInv'
  BY <1>2, FreshAfterVisit
<1>3. CASE Quiet
  <2>1. visitor' = visitor /\ DOMAIN visitor = Visitor /\ \A v \in Visitor : visitor[v] = Out
    BY <1>3, QuietDoes DEF FreshInv, VisitorFresh
  <2>2. \A v \in Visitor : VisitorFresh(v)'
    BY <2>1 DEF VisitorFresh, Out
  <2>3. /\ version' \in Nat /\ cache'.version \in Int /\ cache'.copy.at \in Nat
        /\ bound' # "off" => version' = 0 /\ cache'.version = -1
    BY <1>3, QuietDoes DEF FreshInv, Blank
  <2> QED
    BY <2>1, <2>2, <2>3 DEF FreshInv, NewEnough
<1>4. CASE UNCHANGED settingsVars
  BY <1>4 DEF settingsVars, FreshInv, VisitorFresh, NewEnough
<1> QED
  BY <1>1, <1>2, <1>3, <1>4 DEF SettingsNext, Quiet

\* FreshInv is an invariant of the settings: a copy whose version is current
\* holds every change that is counted.
THEOREM FreshInvariance == SettingsSpec => []FreshInv
<1>1. SettingsInit => FreshInv
  BY FreshBegins
<1>2. ShapeInv /\ FreshInv /\ [SettingsNext]_settingsVars => FreshInv'
  BY FreshStep
<1> QED
  BY <1>1, <1>2, ChangeInvariance, PTL DEF SettingsSpec

\* A request is judged by settings at least as new as the last change that
\* was counted before it arrived (_auth_state, SettingsRepository.version).
THEOREM VerdictsAreFresh == SettingsSpec => []FreshVerdict
<1>1. FreshInv => FreshVerdict
  BY DEF FreshInv, FreshVerdict, VisitorFresh, Out
<1> QED
  BY <1>1, FreshInvariance, PTL

LEMMA TokenStep == ASSUME ShapeInv, ChangeInv, TokenInv, [SettingsNext]_settingsVars PROVE TokenInv'
<1>1. ASSUME NEW w \in Writer, WriterStep(w) PROVE TokenInv'
  <2>k. ASSUME Moves(w), TokenKept(w)', store' = store \/ BoundHasToken' PROVE TokenInv'
    <3>1. \A u \in Writer : TokenKept(u)'
      BY <2>k DEF Moves, TokenInv, TokenKept
    <3>2. BoundHasToken'
      BY <2>k DEF Moves, TokenInv, BoundHasToken
    <3> QED
      BY <3>1, <3>2 DEF TokenInv
  <2>t. TokenKept(w) /\ BoundHasToken
    BY DEF TokenInv
  <2>1. CASE OpenPage(w) \/ Count(w) \/ Look(w) \/ Refuse(w) \/ Retime(w)
    <3>1. Moves(w) /\ store' = store /\ writer'[w].pc \in {"idle", "page", "look", "retime"}
      BY <2>1, OpenPageDoes, CountDoes, LookDoes, EndDoes, StagesAre DEF Unwritten
    <3>2. TokenKept(w)'
      BY <3>1 DEF TokenKept, Early
    <3> QED
      BY <3>1, <3>2, <2>k
  <2>2. ASSUME NEW op \in PageOps, Submit(w, op) PROVE TokenInv'
    <3>1. /\ Moves(w) /\ store' = store /\ writer'[w].pc = "read" /\ writer'[w].op = op
          /\ op.clear => bound = "loopback"
      BY <2>2, SubmitDoes DEF Starts, Unwritten
    <3>2. TokenKept(w)'
      BY <3>1 DEF TokenKept, Moves
    <3> QED
      BY <3>1, <3>2, <2>k
  <2>3. ASSUME NEW op \in CallOps, Call(w, op) PROVE TokenInv'
    <3>1. /\ Moves(w) /\ store' = store
          /\ writer'[w].pc = IF op.via = "switch" THEN "merge" ELSE "read"
          /\ writer'[w].op = op /\ writer'[w].patch = op.set /\ ~op.clear /\ op \in Ops
      BY <2>3, CallDoes DEF Starts, Unwritten, Ops
    <3>2. writer'[w].pc = "merge" => DOMAIN writer'[w].patch = {"listen"}
      BY <3>1, OpsAre
    <3>3. TokenKept(w)'
      BY <3>1, <3>2 DEF TokenKept
    <3> QED
      BY <3>1, <3>3, <2>k
  <2>4. CASE ReadBefore(w)
    <3> DEFINE n == writer'[w].patch
               given == writer[w].patch
               op == writer[w].op
    <3>1. /\ Moves(w) /\ store' = store
          /\ writer[w].pc = "read" /\ writer[w].pc \in Early /\ writer'[w].pc = "merge"
          /\ writer'[w].op = op /\ op \in Ops
          /\ n = IF op.via = "page" THEN FormPatch(given, op.clear, store)
                 ELSE Normalize(given, store)
      BY <2>4, ReadBeforeDoes DEF Stays, Unwritten
    <3>2. /\ "token" \in DOMAIN given => "token" \in DOMAIN op.set
          /\ op.via = "page" => PageForm(given)
          /\ "notify" \in DOMAIN given => DOMAIN given["notify"] \subseteq Part
      BY <3>1, StagesAre DEF ChangeInv, ChangeOf, Harmless, EarlyShape
    <3>3. "token" \in DOMAIN n => n["token"] # "none" \/ op.clear
      <4>1. op \in Ops /\ n = IF op.via = "page" THEN FormPatch(given, op.clear, store)
                              ELSE Normalize(given, store)
        BY <3>1
      <4> HIDE DEF n, given, op
      <4> QED
        BY <3>2, <4>1, PatchIs
    <3>4. TokenKept(w)'
      BY <2>t, <3>1, <3>3 DEF TokenKept, Moves
    <3> QED
      BY <3>1, <3>4, <2>k
  <2>5. CASE ReadMerge(w)
    <3>1. /\ Moves(w) /\ store' = store
          /\ writer[w].pc = "merge" /\ writer[w].pc \in Early
          /\ writer'[w].op = writer[w].op /\ writer'[w].patch = writer[w].patch
      BY <2>5, ReadMergeDoes DEF Stays, Unwritten
    <3>2. TokenKept(w)'
      BY <2>t, <3>1 DEF TokenKept, Moves
    <3> QED
      BY <3>1, <3>2, <2>k
  <2>6. CASE Commit(w)
    <3> DEFINE patch == writer[w].patch
               notify == writer[w].notify
    <3>1. /\ Moves(w) /\ writer[w].pc = "commit" /\ writer'[w].pc = "count"
          /\ store' = Committed(patch, notify) /\ StoreShape(store)
      BY <2>6, CommitDoes DEF ShapeInv
    <3>2. TokenKept(w)'
      BY <3>1 DEF TokenKept, Early
    <3>3. /\ writer[w].op.clear => bound = "loopback"
          /\ "token" \in DOMAIN patch => patch["token"] # "none" \/ writer[w].op.clear
      BY <2>t, <3>1 DEF TokenKept, Early
    <3> HIDE DEF patch, notify
    <3>4. store'["token"] = IF "token" \in DOMAIN patch THEN patch["token"] ELSE store["token"]
      BY <3>1, CommittedIs
    <3>5. BoundHasToken'
      BY <2>t, <3>1, <3>3, <3>4 DEF BoundHasToken, Moves
    <3> QED
      BY <3>1, <3>2, <3>5, <2>k
  <2> QED
    BY <1>1, <2>1, <2>2, <2>3, <2>4, <2>5, <2>6 DEF WriterStep
<1>2. ASSUME NEW v \in Visitor, VisitorStep(v) PROVE TokenInv'
  BY <1>2, VisitorDoes DEF TokenInv, TokenKept, BoundHasToken, Unwritten
<1>3. CASE Quiet
  <2>1. \A w \in Writer : writer'[w].pc \in {"idle", "page"}
    BY <1>3, QuietIs, StagesAre DEF PageShape
  <2>2. \A w \in Writer : TokenKept(w)'
    BY <2>1 DEF TokenKept, Early
  <2>3. BoundHasToken'
    BY <1>3, QuietDoes DEF BoundHasToken
  <2> QED
    BY <2>2, <2>3 DEF TokenInv
<1>4. CASE UNCHANGED settingsVars
  BY <1>4 DEF settingsVars, TokenInv, TokenKept, BoundHasToken
<1> QED
  BY <1>1, <1>2, <1>3, <1>4 DEF SettingsNext, Quiet

\* A service on a reachable address keeps a token as long as it runs, with
\* any number of forms, patches and switches under way: one that clears it is
\* let in on the loopback address only (settings_save, normalize_settings_patch).
THEOREM TokensAreKept == SettingsSpec => []BoundHasToken
<1>1. SettingsInit => TokenInv
  BY DEF SettingsInit, TokenInv, TokenKept, BoundHasToken, Idle, Early
<1>2. ShapeInv /\ ChangeInv /\ TokenInv /\ [SettingsNext]_settingsVars => TokenInv'
  BY TokenStep
<1>3. TokenInv => BoundHasToken
  BY DEF TokenInv
<1> QED
  BY <1>1, <1>2, <1>3, ChangeInvariance, PTL DEF SettingsSpec

-----------------------------------------------------------------------------
(* The count of the status.                                                *)

\* What is counted depends on the listings that are listened to only.
LEMMA CountByKeys ==
    ASSUME NEW table, NEW a, NEW b, ListenKeys(a) = ListenKeys(b)
    PROVE  StockCount(table, a) = StockCount(table, b)
  BY DEF StockCount

\* A request moves and the others stay: what is left to be shown.
LEMMA ToldAgain ==
    ASSUME StatusInv, NEW r \in Reader,
           UNCHANGED <<item, lastScan, listings>>,
           DOMAIN req' = Reader, DOMAIN seen' = Reader,
           \A q \in Reader : q # r => req'[q] = req[q] /\ seen'[q] = seen[q],
           CacheInv', StageOf(r)', ToldOf(r)',
           \A q \in Reader : q # r /\ req[q].at = "lookup" =>
              /\ cached' = cached
                 \/ (cached'[1] = StockKey(q) => cached'[2] \in seen[q])
              /\ req'[r].at = "keep" /\ StockKey(r)' = StockKey(q) => req'[r].stock \in seen[q]
    PROVE  StatusInv'
<1>1. ASSUME NEW q \in Reader PROVE StageOf(q)' /\ ToldOf(q)'
  <2>1. CASE q = r
    BY <2>1
  <2>2. CASE q # r
    <3>1. /\ req'[q] = req[q] /\ seen'[q] = seen[q] /\ StockKey(q)' = StockKey(q)
          /\ StageOf(q) /\ ToldOf(q)
      BY <2>2 DEF StockKey, StatusInv
    <3>2. StageOf(q)'
      BY <3>1 DEF StageOf
    <3>3. ASSUME req'[q].at = "lookup", NEW p \in Reader,
                 req'[p].at = "keep", StockKey(p)' = StockKey(q)'
          PROVE  req'[p].stock \in seen'[q]
      <4>1. CASE p = r
        BY <2>2, <3>1, <3>3, <4>1
      <4>2. CASE p # r
        <5>1. req'[p] = req[p] /\ StockKey(p)' = StockKey(p)
          BY <4>2 DEF StockKey
        <5> QED
          BY <3>1, <3>3, <5>1 DEF ToldOf
      <4> QED
        BY <4>1, <4>2
    <3>4. req'[q].at = "lookup" /\ cached' # <<>> /\ cached'[1] = StockKey(q)' =>
             cached'[2] \in seen'[q]
      BY <2>2, <3>1 DEF ToldOf
    <3>5. /\ "chosen" \in DOMAIN req'[q] => StockCount(item', req'[q].chosen) \in seen'[q]
          /\ req'[q].at \in {"keep", "told"} => req'[q].stock \in seen'[q]
          /\ req'[q].at = "keep" => CountIs(StockKey(q), req[q].stock)'
      BY <3>1 DEF ToldOf, CountIs, StockKey
    <3> QED
      BY <3>2, <3>3, <3>4, <3>5 DEF ToldOf
  <2> QED
    BY <2>1, <2>2
<1> QED
  BY <1>1 DEF StatusInv

\* What a request is about at each step.
LEMMA RequestIs ==
    ASSUME StatusInv, NEW r \in Reader
    PROVE  /\ req[r].at = "idle" => req[r] = NoRequest
           /\ req[r].at \in {"scan", "lookup", "count", "keep"} =>
                 /\ req[r].chosen \in Choosable
                 /\ StockCount(item, req[r].chosen) \in seen[r]
           /\ req[r].at \in {"lookup", "count", "keep"} => req[r].scan \in 0..lastScan
           /\ req[r].at \in {"lookup", "count"} => DOMAIN req[r] = {"at", "chosen", "scan", "count"}
  BY DEF StatusInv, StageOf, ToldOf, NoRequest

\* The first read of a request, and its end.
LEMMA EndsKeep ==
    ASSUME StatusInv, NEW r \in Reader, ReadChosen(r) \/ AnswerSent(r)
    PROVE  StatusInv'
<1>t. DOMAIN req = Reader /\ DOMAIN seen = Reader /\ CacheInv /\ listings \in Choosable
  BY DEF StatusInv
<1>1. /\ UNCHANGED <<item, lastScan, listings, cached>>
      /\ DOMAIN req' = Reader /\ DOMAIN seen' = Reader
      /\ \A q \in Reader : q # r => req'[q] = req[q] /\ seen'[q] = seen[q]
  BY <1>t DEF ReadChosen, AnswerSent
<1>2. CacheInv'
  BY <1>1, <1>t DEF CacheInv, CountIs
<1>3. CASE ReadChosen(r)
  <2>1. /\ req'[r] = [at |-> "scan", chosen |-> listings]
        /\ seen'[r] = {StockCount(item, listings)}
    BY <1>3, <1>t DEF ReadChosen
  <2>2. StageOf(r)'
    BY <2>1, <1>t DEF StageOf
  <2>3. ToldOf(r)'
    BY <2>1, <1>1 DEF ToldOf
  <2> QED
    BY <1>1, <1>2, <2>1, <2>2, <2>3, ToldAgain
<1>4. CASE AnswerSent(r)
  <2>1. req'[r] = NoRequest
    BY <1>4, <1>t DEF AnswerSent
  <2>2. NoRequest.at = "idle" /\ "chosen" \notin DOMAIN NoRequest
    BY DEF NoRequest
  <2>3. StageOf(r)' /\ ToldOf(r)'
    BY <2>1, <2>2 DEF StageOf, ToldOf
  <2> QED
    BY <1>1, <1>2, <2>1, <2>2, <2>3, ToldAgain
<1> QED
  BY <1>3, <1>4

\* A request that reads the time of the last scan finds in the cache, and
\* in the hands of other threads, under its key the count of the table only.
LEMMA ReadLastScanKeeps ==
    ASSUME StatusInv, NEW r \in Reader, ReadLastScan(r)
    PROVE  StatusInv'
<1>t. /\ DOMAIN req = Reader /\ DOMAIN seen = Reader /\ CacheInv /\ lastScan \in Nat
      /\ req[r].at = "scan"
  BY DEF StatusInv, ReadLastScan
<1> DEFINE chosen == req[r].chosen
<1>c. chosen \in Choosable /\ StockCount(item, chosen) \in seen[r]
  BY <1>t, RequestIs
<1>1. /\ UNCHANGED <<item, lastScan, listings, cached, seen>>
      /\ DOMAIN req' = Reader
      /\ \A q \in Reader : q # r => req'[q] = req[q] /\ seen'[q] = seen[q]
  BY <1>t DEF ReadLastScan
<1>2. CacheInv'
  BY <1>1, <1>t DEF CacheInv, CountIs
<1>3. req'[r] = [at |-> "lookup", chosen |-> chosen, scan |-> lastScan, count |-> lastCount]
  BY <1>t DEF ReadLastScan
<1> HIDE DEF chosen
<1>4. /\ req'[r].at = "lookup" /\ req'[r].chosen = chosen /\ req'[r].scan = lastScan
      /\ DOMAIN req'[r] = {"at", "chosen", "scan", "count"}
      /\ StockKey(r)'[1] = ListenKeys(chosen) /\ StockKey(r)'[2] = lastScan
  BY <1>3 DEF StockKey
<1>5. StageOf(r)'
  BY <1>1, <1>4, <1>c, <1>t DEF StageOf
<1>6. cached' # <<>> /\ cached'[1] = StockKey(r)' => cached'[2] \in seen'[r]
  BY <1>1, <1>4, <1>c, <1>t DEF CacheInv, CountIs
<1>7. ASSUME NEW q \in Reader, req'[q].at = "keep", StockKey(q)' = StockKey(r)'
      PROVE  req'[q].stock \in seen'[r]
  <2>1. q # r /\ req'[q] = req[q] /\ StockKey(q)' = StockKey(q)
    BY <1>1, <1>4, <1>7 DEF StockKey
  <2>2. CountIs(StockKey(q), req[q].stock)
    BY <1>7, <2>1 DEF StatusInv, ToldOf
  <2> QED
    BY <1>1, <1>4, <1>7, <1>c, <2>1, <2>2 DEF CountIs
<1>8. ToldOf(r)'
  BY <1>1, <1>4, <1>6, <1>7, <1>c DEF ToldOf
<1> QED
  BY <1>1, <1>2, <1>4, <1>5, <1>8, <1>t, ToldAgain

LEMMA LookUpKeeps ==
    ASSUME StatusInv, NEW r \in Reader, LookUp(r)
    PROVE  StatusInv'
<1>t. /\ DOMAIN req = Reader /\ DOMAIN seen = Reader /\ CacheInv /\ req[r].at = "lookup"
      /\ ToldOf(r)
  BY DEF StatusInv, LookUp
<1>c. /\ req[r].chosen \in Choosable /\ StockCount(item, req[r].chosen) \in seen[r]
      /\ req[r].scan \in 0..lastScan /\ DOMAIN req[r] = {"at", "chosen", "scan", "count"}
  BY <1>t, RequestIs
<1>1. /\ UNCHANGED <<item, lastScan, listings, cached, seen>>
      /\ DOMAIN req' = Reader
      /\ \A q \in Reader : q # r => req'[q] = req[q] /\ seen'[q] = seen[q]
  BY <1>t DEF LookUp
<1>2. CacheInv'
  BY <1>1, <1>t DEF CacheInv, CountIs
<1>3. CASE cached # <<>> /\ cached[1] = StockKey(r)
  <2>1. req'[r] = [at |-> "told", stock |-> cached[2]]
    BY <1>3, <1>t DEF LookUp
  <2>2. StageOf(r)' /\ req'[r].at = "told"
    BY <2>1 DEF StageOf
  <2>3. ToldOf(r)'
    BY <1>1, <1>3, <1>t, <2>1 DEF ToldOf
  <2> QED
    BY <1>1, <1>2, <1>t, <2>2, <2>3, ToldAgain
<1>4. CASE ~(cached # <<>> /\ cached[1] = StockKey(r))
  <2>1. /\ req'[r].at = "count" /\ req'[r].chosen = req[r].chosen
        /\ req'[r].scan = req[r].scan /\ DOMAIN req'[r] = DOMAIN req[r]
    BY <1>4, <1>t, <1>c DEF LookUp
  <2>2. StageOf(r)'
    BY <1>1, <1>c, <2>1 DEF StageOf
  <2>3. ToldOf(r)'
    BY <1>1, <1>c, <2>1 DEF ToldOf
  <2> QED
    BY <1>1, <1>2, <1>t, <2>1, <2>2, <2>3, ToldAgain
<1> QED
  BY <1>3, <1>4

\* A count taken now is true for every request under way that has the key.
LEMMA CountStockKeeps ==
    ASSUME StatusInv, NEW r \in Reader, CountStock(r)
    PROVE  StatusInv'
<1>t. /\ DOMAIN req = Reader /\ DOMAIN seen = Reader /\ CacheInv /\ req[r].at = "count"
  BY DEF StatusInv, CountStock
<1> DEFINE chosen == req[r].chosen
           stock == StockCount(item, chosen)
<1>c. chosen \in Choosable /\ stock \in seen[r] /\ req[r].scan \in 0..lastScan
  BY <1>t, RequestIs
<1>1. /\ UNCHANGED <<item, lastScan, listings, cached, seen>>
      /\ DOMAIN req' = Reader
      /\ \A q \in Reader : q # r => req'[q] = req[q] /\ seen'[q] = seen[q]
  BY <1>t DEF CountStock
<1>2. CacheInv'
  BY <1>1, <1>t DEF CacheInv, CountIs
<1>3. req'[r] = [at |-> "keep", chosen |-> chosen, scan |-> req[r].scan,
                 count |-> req[r].count, stock |-> stock]
  BY <1>t DEF CountStock
<1>s. stock = StockCount(item, chosen)
  OBVIOUS
<1> HIDE DEF chosen, stock
<1>4. /\ req'[r].at = "keep" /\ req'[r].chosen = chosen /\ req'[r].scan = req[r].scan
      /\ req'[r].stock = stock
      /\ DOMAIN req'[r] = {"at", "chosen", "scan", "count", "stock"}
      /\ StockKey(r)'[1] = ListenKeys(chosen)
  BY <1>3 DEF StockKey
<1>5. StageOf(r)'
  BY <1>1, <1>4, <1>c DEF StageOf
<1>6. CountIs(StockKey(r), req[r].stock)'
  BY <1>1, <1>4, <1>s, CountByKeys DEF CountIs
<1>7. ToldOf(r)'
  BY <1>1, <1>4, <1>6, <1>c, <1>s DEF ToldOf
<1>8. ASSUME NEW q \in Reader, req[q].at = "lookup", StockKey(r)' = StockKey(q)
      PROVE  req'[r].stock \in seen[q]
  <2>1. StockCount(item, req[q].chosen) \in seen[q]
    BY <1>8, RequestIs
  <2>2. ListenKeys(req[q].chosen) = ListenKeys(chosen)
    BY <1>4, <1>8 DEF StockKey
  <2> QED
    BY <1>4, <1>s, <2>1, <2>2, CountByKeys
<1> QED
  BY <1>1, <1>2, <1>5, <1>7, <1>8, <1>t, ToldAgain

LEMMA KeepCountKeeps ==
    ASSUME StatusInv, NEW r \in Reader, KeepCount(r)
    PROVE  StatusInv'
<1>t. /\ DOMAIN req = Reader /\ DOMAIN seen = Reader /\ req[r].at = "keep" /\ ToldOf(r)
  BY DEF StatusInv, KeepCount
<1>1. /\ UNCHANGED <<item, lastScan, listings, seen>>
      /\ DOMAIN req' = Reader
      /\ \A q \in Reader : q # r => req'[q] = req[q] /\ seen'[q] = seen[q]
      /\ cached' = <<StockKey(r), req[r].stock>>
      /\ req'[r] = [at |-> "told", stock |-> req[r].stock]
  BY <1>t DEF KeepCount
<1>2. /\ StockKey(r)[2] = req[r].scan /\ req[r].scan \in 0..lastScan
      /\ CountIs(StockKey(r), req[r].stock)
  BY <1>t, RequestIs DEF StockKey, ToldOf
<1>k. cached'[1] = StockKey(r) /\ cached'[2] = req[r].stock
  BY <1>1
<1>3. CacheInv'
  BY <1>1, <1>2, <1>k DEF CacheInv, CountIs
<1>4. StageOf(r)' /\ req'[r].at = "told"
  BY <1>1 DEF StageOf
<1>5. ToldOf(r)'
  BY <1>1, <1>t DEF ToldOf
<1>6. ASSUME NEW q \in Reader, req[q].at = "lookup", cached'[1] = StockKey(q)
      PROVE  cached'[2] \in seen[q]
  BY <1>6, <1>k, <1>t DEF StatusInv, ToldOf
<1> QED
  BY <1>1, <1>3, <1>4, <1>5, <1>6, <1>t, ToldAgain

\* A scan commits: no count in the cache or in the hands of a thread is of
\* this scan yet.
LEMMA ScanKeeps ==
    ASSUME StatusInv, NEW fetched, NEW found, ScanCommits(fetched, found)
    PROVE  StatusInv'
<1>t. /\ DOMAIN req = Reader /\ DOMAIN seen = Reader /\ CacheInv /\ lastScan \in Nat
      /\ listings \in Choosable
  BY DEF StatusInv
<1>1. /\ lastScan' = lastScan + 1 /\ UNCHANGED <<listings, cached, req>>
      /\ DOMAIN seen' = Reader
      /\ \A r \in Reader :
            seen'[r] = IF "chosen" \in DOMAIN req[r]
                       THEN seen[r] \union {StockCount(item', req[r].chosen)} ELSE seen[r]
  BY DEF ScanCommits
<1>2. CacheInv'
  BY <1>1, <1>t DEF CacheInv, CountIs
<1>3. ASSUME NEW r \in Reader PROVE StageOf(r)' /\ ToldOf(r)'
  <2>1. StageOf(r) /\ ToldOf(r)
    BY DEF StatusInv
  <2>2. StageOf(r)'
    BY <1>1, <1>t, <2>1 DEF StageOf
  <2>3. seen[r] \subseteq seen'[r] /\ \A q \in Reader : StockKey(q)' = StockKey(q)
    BY <1>1 DEF StockKey
  <2>4. req[r].at = "keep" => CountIs(StockKey(r), req[r].stock)'
    <3>1. req[r].at = "keep" => StockKey(r)[2] \in 0..lastScan
      BY RequestIs DEF StockKey
    <3> QED
      BY <3>1, <1>1, <1>t, <2>3 DEF CountIs
  <2>5. ToldOf(r)'
    BY <1>1, <2>1, <2>3, <2>4 DEF ToldOf
  <2> QED
    BY <2>2, <2>5
<1> QED
  BY <1>1, <1>2, <1>3, <1>t DEF StatusInv

LEMMA StatusRests ==
    ASSUME StatusInv, UNCHANGED <<item, lastScan, cached, req, seen>>, listings' \in Choosable
    PROVE  StatusInv'
<1>1. \A r \in Reader : StageOf(r)' /\ ToldOf(r)'
  BY DEF StatusInv, StageOf, ToldOf, CountIs, StockKey
<1>2. CacheInv'
  BY DEF StatusInv, CacheInv, CountIs
<1> QED
  BY <1>1, <1>2 DEF StatusInv

\* StatusInv is an invariant of the status: whatever stands in the cache or
\* is about to, under the key of a request that looks it up, was true during
\* that request.
THEOREM StatusInvariance == StatusSpec => []StatusInv
<1>1. StatusInit => StatusInv
  <2> SUFFICES ASSUME StatusInit PROVE StatusInv
    OBVIOUS
  <2>1. NoRequest.at = "idle" /\ "chosen" \notin DOMAIN NoRequest
    BY DEF NoRequest
  <2>2. \A r \in Reader : req[r] = NoRequest
    BY DEF StatusInit
  <2>3. \A r \in Reader : StageOf(r) /\ ToldOf(r)
    BY <2>1, <2>2 DEF StageOf, ToldOf
  <2> QED
    BY <2>3 DEF StatusInit, StatusInv, CacheInv
<1>2. StatusInv /\ [StatusNext]_statusVars => StatusInv'
  <2> SUFFICES ASSUME StatusInv, [StatusNext]_statusVars PROVE StatusInv'
    OBVIOUS
  <2>1. ASSUME NEW chosen \in Choosable, ChooseListings(chosen) PROVE StatusInv'
    BY <2>1, StatusRests DEF ChooseListings
  <2>2. CASE ScanBegins \/ UNCHANGED statusVars
    <3>1. UNCHANGED <<item, lastScan, cached, req, seen>> /\ listings' \in Choosable
      BY <2>2 DEF ScanBegins, statusVars, StatusInv
    <3> QED
      BY <3>1, StatusRests
  <2> QED
    BY <2>1, <2>2, EndsKeep, ReadLastScanKeeps, LookUpKeeps, CountStockKeeps, KeepCountKeeps,
       ScanKeeps DEF StatusNext
<1> QED
  BY <1>1, <1>2, PTL DEF StatusSpec

\* The count a request answers with was true while it was being answered,
\* for any threads, listings and scans (_listen_stock_count, load_status).
THEOREM CountsWereTrue == StatusSpec => []CountWasTrue
<1>1. StatusInv => CountWasTrue
  BY DEF StatusInv, ToldOf, CountWasTrue
<1> QED
  BY <1>1, StatusInvariance, PTL
=============================================================================
