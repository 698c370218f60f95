--------------------------- MODULE StagingImport ---------------------------
(***************************************************************************)
(* The staging table of scraped parts beside the catalogue                 *)
(* (routes/admin.js): its rate-limited import, and the migration of its    *)
(* pictures, a loop in the process that is not tied to a request.  Nobody  *)
(* scrapes while they run: the routes that did are commented out.          *)
(***************************************************************************)
EXTENDS Catalogue, Functions

CONSTANTS
    Staged,       \* the parts of autodukan_parts_staging
    MaxPerDay,    \* AUTODUKAN_MAX_PER_DAY
    PictureBatch  \* rows that the migration fetches at once: 10 in the code

ASSUME StagingAssumption ==
    /\ Staged \subseteq Parts \ Unnumbered
    /\ MaxPerDay \in Nat
    /\ PictureBatch \in Nat \ {0}

VARIABLES
    importLog,  \* autodukan_import_log: parts inserted, and how long ago
    pictures,   \* image_url of the staged rows: at S3, moved, or null
    migration   \* imgMigState.running, and the rows fetched to be moved

stagingVars == <<importLog, pictures, migration>>

(* just: in the last two hours, the pause between imports.                 *)
LogRow == [inserted : Nat, today : BOOLEAN, just : BOOLEAN]
Today == {i \in DOMAIN importLog : importLog[i].today}

(* POST /autodukan/import: the log is asked whether there were too many    *)
(* imports today or one just now, then some staged rows that the catalogue *)
(* does not know are read, created PENDING, and the import is logged.      *)
BeginStaged(c) ==
    \E rows \in SUBSET (Staged \cap Missing) :
        /\ Cardinality(Today) < MaxPerDay
        /\ \A i \in DOMAIN importLog : ~importLog[i].just
        /\ rows # {}
        /\ BeginRequest(c, [op |-> "staged", rows |-> rows])
        /\ UNCHANGED <<catalogueVars, stagingVars>>

Inserted_Attempted(rows) == Cardinality(rows)
Inserted(rows) == Cardinality(rows \cap Missing)

CreateStaged(c) ==
    LET rows == req[c].rows IN
    /\ req[c].op = "staged"
    /\ Created(rows, "PENDING")
    /\ Continue(c, [op |-> "log", inserted |-> Inserted(rows)])
    /\ UNCHANGED <<vehicles, fitments, asked, answered, stagingVars>>

LogImport(c) ==
    /\ req[c].op = "log"
    /\ importLog' = Append(importLog, [inserted |-> req[c].inserted,
                                       today |-> TRUE, just |-> TRUE])
    /\ End(c)
    /\ UNCHANGED <<catalogueVars, pictures, migration>>

TimePasses ==
    /\ \/ importLog' = [i \in DOMAIN importLog |-> [importLog[i] EXCEPT !.just = FALSE]]
       \/ importLog' = [i \in DOMAIN importLog |-> [importLog[i] EXCEPT !.today = FALSE]]
    /\ importLog' # importLog
    /\ UNCHANGED <<catalogueVars, req, served, pictures, migration>>

-----------------------------------------------------------------------------
(* POST /autodukan/migrate-images starts the loop unless it runs.          *)
AtS3 == {p \in Staged : pictures[p] = "s3"}
Stopped == [running |-> FALSE, batch |-> {}]

StartMigration ==
    /\ ~migration.running
    /\ migration' = [running |-> TRUE, batch |-> {}]
    /\ UNCHANGED <<catalogueVars, req, served, importLog, pictures>>

FetchBatch ==
    /\ migration.running /\ migration.batch = {}
    /\ \E rows \in SUBSET AtS3 :
           /\ rows # {} /\ Cardinality(rows) <= PictureBatch
           /\ migration' = [migration EXCEPT !.batch = rows]
    /\ UNCHANGED <<catalogueVars, req, served, importLog, pictures>>

(* The picture is moved; where the download or the upload fails the row    *)
(* loses its picture.                                                      *)
AfterFailure_KeepsUrl == "s3"
AfterFailure == "gone"

MovePicture ==
    /\ migration.running
    /\ \E p \in migration.batch :
           /\ \E url \in {"moved", AfterFailure} : pictures' = [pictures EXCEPT ![p] = url]
           /\ migration' = [migration EXCEPT !.batch = @ \ {p}]
    /\ UNCHANGED <<catalogueVars, req, served, importLog>>

FinishMigration ==
    /\ migration.running /\ migration.batch = {} /\ AtS3 = {}
    /\ migration' = Stopped
    /\ UNCHANGED <<catalogueVars, req, served, importLog, pictures>>

(* A statement of the loop fails, or the process restarts: the state of    *)
(* the loop is in memory.                                                  *)
BreakMigration ==
    /\ migration.running
    /\ migration' = Stopped
    /\ UNCHANGED <<catalogueVars, req, served, importLog, pictures>>

-----------------------------------------------------------------------------
StagingReq ==
    [op : {"staged"}, rows : SUBSET Staged] \cup [op : {"log"}, inserted : Nat]

importVars == <<catalogueVars, stagingVars, req, served>>

StagingInit ==
    /\ CatalogueInit
    /\ importLog = <<>>
    /\ pictures = [p \in Staged |-> "s3"]
    /\ migration = Stopped

Migrating == FetchBatch \/ MovePicture \/ FinishMigration

StagingNext ==
    \/ CatalogueStep /\ UNCHANGED stagingVars
    \/ \E c \in Users : BeginStaged(c) \/ CreateStaged(c) \/ LogImport(c)
    \/ TimePasses
    \/ StartMigration \/ Migrating \/ BreakMigration

(* The loop goes on by itself: every download, upload and statement ends,  *)
(* in success or in failure.                                               *)
StagingSpec == StagingInit /\ [][StagingNext]_importVars /\ WF_importVars(Migrating)

StagingTypeOK ==
    /\ parts \in [Parts -> Part]
    /\ vehicles \in Seq(Models)
    /\ fitments \subseteq Parts \X Nat
    /\ asked \subseteq Parts \X Models
    /\ answered \subseteq Parts \X Models
    /\ req \in [Users -> CatalogueReq \cup StagingReq]
    /\ served \in Nat
    /\ importLog \in Seq(LogRow)
    /\ pictures \in [Staged -> {"s3", "moved", "gone"}]
    /\ migration \in [running : BOOLEAN, batch : SUBSET Staged]

(* The log never claims more than the catalogue got: two imports that pass *)
(* the limits together read the same rows, and only one of them creates    *)
(* each.                                                                   *)
Imported == {p \in Parts : parts[p].source = "SUPPLIER_IMPORT"}
LogNeverOverstates ==
    SumFunction([i \in DOMAIN importLog |-> importLog[i].inserted]) <= Cardinality(Imported)

(* "Rate limit: 3 imports per UTC day": what two imports at once break.    *)
WithinDailyLimit == Cardinality(Today) <= MaxPerDay

(* A migration that was started comes to its end, whatever pictures cannot *)
(* be downloaded.                                                          *)
MigrationEnds == migration.running ~> ~migration.running
=============================================================================
