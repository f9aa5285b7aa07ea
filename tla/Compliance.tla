----------------------------- MODULE Compliance -----------------------------
(***************************************************************************)
(* The Arq 7 compliance report (arq_validator/compatibility.py with the    *)
(* strict round trips of strict.py) and the shape fingerprint              *)
(* (fingerprint.py), over a destination this program's writer filled.      *)
(*                                                                         *)
(* The writer puts its files down one at a time and may die between or     *)
(* inside two of them; then something may harm what is there; then the     *)
(* checks run in their order, over calls that may fail.  A JSON object is  *)
(* a function from its keys to the types of their values; a key that tells *)
(* shapes apart has its value for a type.                                  *)
(***************************************************************************)
EXTENDS Naturals, Sequences, FiniteSets, FiniteSetsExt, SequencesExt, TLC

CONSTANTS
  Options,   \* what the writer may be asked for: [encrypted, packed, tree, custom]
  FolderSeq, \* the folders backed up, in order
  Blobs,     \* folder -> the blobs its run stores, in order, its tree last
  KindOf,    \* blob -> "tree", "xattrs", "data"
  Files,     \* folder -> the files its tree lists
  SampleCap, \* objects and packs whose content is looked at, 32 in the code
  StrictCap, \* objects that are round-tripped, 64 by default
  Touched,   \* bound: the keys harm comes to
  MaxHarm,   \* bound: things harmed
  MaxFaults  \* bound: calls that fail

Folders == ToSet(FolderSeq)
AllBlobs == UNION {ToSet(Blobs[f]) : f \in Folders}

ASSUME ComplianceAssumption ==
  /\ Options \subseteq [encrypted : BOOLEAN, packed : BOOLEAN, tree : {3, 4}, custom : BOOLEAN]
  /\ FolderSeq \in Seq(Folders) /\ FolderSeq # <<>>
  /\ \A f \in Folders : /\ Blobs[f] \in Seq(AllBlobs) /\ Blobs[f] # <<>>
                         /\ KindOf[Last(Blobs[f])] = "tree"
                         /\ "root" \notin Files[f]
  /\ {"itself", "unheardOf"} \cap Touched = {}
  /\ {SampleCap, StrictCap, MaxHarm, MaxFaults} \subseteq Nat

VARIABLES
  setting,  \* the one of the options it was asked for
  written,  \* what it has written
  harm,     \* what has happened to them since: [to, key, as]
  at,       \* "writing", "resting", the check that is next, "done", "refused", "raised"
  strict, keyset, found,  \* strict mode, a keyset was read, folders found
  report,   \* "empty", "passing", "failing"
  looked,   \* history: harmed artefacts whose name or content a check has judged
  retold,   \* history: harmed artefacts strict mode serialized again
  match,    \* the fingerprint against the one of what was written
  faults

args == <<strict, keyset, found>>
dest == <<setting, written, harm>>
vars == <<dest, at, args, report, looked, retold, match, faults>>
----------------------------------------------------------------------------
(* What the writer writes. *)

Typed(keys, type) == [k \in keys |-> type]
o ++ more == [k \in DOMAIN o \cup DOMAIN more |-> IF k \in DOMAIN o THEN o[k] ELSE more[k]]

BackupConfig ==
  Typed({"isWORM", "containsGlacierArchives", "isEncrypted"}, "bool")
  ++ Typed({"backupName", "computerName", "computerSerial", "blobStorageClass"}, "str")
  ++ Typed({"blobIdentifierType", "maxPackedItemLength", "chunkerVersion"}, "int")
  ++ Typed({"additionalUnpackedBlobDirs"}, "list")

BackupFolders ==
  Typed({"standardObjectDirs", "standardIAObjectDirs", "onezoneIAObjectDirs",
         "s3GlacierObjectDirs", "s3GlacierIRObjectDirs", "s3DeepArchiveObjectDirs"}, "list")

BackupFolder ==
  Typed({"localPath", "storageClass", "diskIdentifier", "uuid", "localMountPoint", "name"}, "str")
  ++ Typed({"migratedFromArq60", "migratedFromArq5"}, "bool")

FolderPlan ==
  Typed({"allDrives", "skipDuringBackup", "skipIfNotMounted", "skipTMExcludes",
         "useDiskIdentifier"}, "bool")
  ++ Typed({"backupFolderUUID", "blobStorageClass", "diskIdentifier", "localMountPoint",
            "localPath", "name", "relativePath"}, "str")
  ++ Typed({"excludedDrives", "ignoredRelativePaths", "regexExcludes", "wildcardExcludes"}, "list")

\* The objects that come in several shapes, as a plan made afresh has them and
\* as the options of their builders give them.
ScheduleJson(custom) ==
  Typed({"daysOfWeek"}, "list") ++ Typed({"pauseDuringWindow", "startWhenVolumeIsConnected"}, "bool")
  ++ IF custom
     THEN Typed({"everyHours", "minutesAfterHour"}, "int") ++ Typed({"pauseFrom", "pauseTo"}, "str")
          ++ [type |-> "Hourly"]
     ELSE [backUpAndValidate |-> "bool", timeOfDay |-> "str", type |-> "Daily"]

EmailReportJson(custom) ==
  Typed({"authenticationType", "connectionSecurity", "type", "when"}, "str")
  ++ [port |-> "int", reportHELOUseIP |-> "bool"]
  ++ IF custom
     THEN Typed({"fromAddress", "toAddress", "hostname", "username", "subject"}, "str")
          ++ [startTLS |-> "bool"]
     ELSE <<>>

TransferRateJson(custom) ==
  Typed({"daysOfWeek"}, "list") ++ Typed({"enabled"}, "bool")
  ++ Typed({"startTimeOfDay", "endTimeOfDay"}, "str")
  ++ IF custom THEN [maxKBPS |-> "int", scheduleType |-> "Scheduled"] ELSE [scheduleType |-> "Always"]

BackupPlan ==
  Typed({"active", "arq5UseS3IA", "backupFolderPlanMountPointsAreInitialized",
         "backupSetIsInitialized", "createdAtProConsole", "includeFileListInActivityLog",
         "includeNetworkInterfaces", "includeNewVolumes", "includeWiFiNetworks", "isEncrypted",
         "keepDeletedFiles", "managed", "needsArq5Buckets", "notifyOnError", "notifyOnSuccess",
         "objectLockAvailable", "pauseOnBattery", "preventBackupOnConstrainedNetworks",
         "preventBackupOnExpensiveNetworks", "preventSleep", "retainAll", "useAPFSSnapshots",
         "useBuzhash", "wakeForBackup"}, "bool")
  ++ Typed({"budgetGB", "cpuUsage", "creationTime", "datalessFilesOption", "id",
            "noBackupsAlertDays", "objectLockUpdateIntervalDays", "retainDays", "retainHours",
            "retainMonths", "retainWeeks", "storageLocationId", "threadCount", "updateTime",
            "version"}, "int")
  ++ Typed({"name", "planUUID"}, "str")
  ++ Typed({"backupFolderPlansByUUID", "emailReportJSON", "scheduleJSON", "transferRateJSON"}, "dict")
  ++ Typed({"excludedNetworkInterfaces", "excludedWiFiNetworkNames"}, "list")

NodeDict ==
  Typed({"isTree", "deleted", "hasDocumentID", "isSparse", "reparsePointIsDirectory"}, "bool")
  ++ Typed({"addedTime_sec", "addedTime_nsec", "modificationTime_sec", "modificationTime_nsec",
            "changeTime_sec", "changeTime_nsec", "creationTime_sec", "creationTime_nsec",
            "mac_st_dev", "mac_st_ino", "mac_st_mode", "mac_st_nlink", "mac_st_uid", "mac_st_gid",
            "mac_st_rdev", "mac_st_flags", "computerOSType", "containedFilesCount", "itemSize",
            "documentID", "sparseLogicalSize", "reparseTag", "winAttrs"}, "int")
  ++ Typed({"userName", "groupName"}, "str")
  ++ Typed({"holes", "dataBlobLocs", "xattrsBlobLocs"}, "list")
  ++ Typed({"treeBlobLoc"}, "dict")

BackupRecord(tree) ==
  Typed({"archived", "copiedFromCommit", "copiedFromSnapshot", "isComplete"}, "bool")
  ++ Typed({"arqVersion", "backupFolderUUID", "backupPlanUUID", "diskIdentifier", "localMountPoint",
            "localPath", "relativePath", "storageClass", "volumeName"}, "str")
  ++ Typed({"computerOSType", "creationDate"}, "int")
  ++ Typed({"backupPlanJSON", "node"}, "dict") ++ Typed({"backupRecordErrors"}, "list")
  ++ IF tree >= 4 THEN [version |-> "101", nodeTreeVersion |-> "int"] ELSE [version |-> "100"]

\* The JSON objects of the destination, nested ones apart.
Emitted(p) ==
  CASE p = <<"config">> -> BackupConfig
    [] p = <<"index">> -> BackupFolders
    [] p = <<"plan">> -> BackupPlan
    [] p = <<"plan", "folders">> -> FolderPlan
    [] p = <<"plan", "schedule">> -> ScheduleJson(setting.custom)
    [] p = <<"plan", "rate">> -> TransferRateJson(setting.custom)
    [] p = <<"plan", "mail">> -> EmailReportJson(setting.custom)
    [] p[1] = "folder" -> BackupFolder
    [] p[1] = "record" /\ Len(p) = 2 -> BackupRecord(setting.tree)
    [] OTHER -> NodeDict

Nested == {<<"plan", x>> : x \in {"folders", "schedule", "rate", "mail"}}
          \cup {<<"record", f, "node">> : f \in Folders}

\* The writes of a run, in order: init_plan's, then add_folder's for each folder.
InitPlanWrites == (IF setting.encrypted THEN <<<<"keyset">>>> ELSE <<>>)
                  \o <<<<"config">>, <<"index">>, <<"plan">>>>
Stored(b) == <<IF setting.packed THEN "pack" ELSE "object", b>>
AddFolderWrites(f) ==
  <<<<"dir", f>>, <<"folder", f>>, <<"planned", f>>>>
  \o [i \in DOMAIN Blobs[f] |-> Stored(Blobs[f][i])] \o <<<<"record", f>>>>
Turns == 0..Len(FolderSeq)
Turn(i) == IF i = 0 THEN InitPlanWrites ELSE AddFolderWrites(FolderSeq[i])
Writes == UNION {ToSet(Turn(i)) : i \in Turns}

\* What is written before the j-th of the i-th turn.
Earlier(i, j) == UNION {ToSet(Turn(n)) : n \in 0..(i - 1)} \cup {Turn(i)[n] : n \in 1..(j - 1)}
Due(a) == \E i \in Turns : \E j \in DOMAIN Turn(i) : a = Turn(i)[j] /\ Earlier(i, j) \subseteq written
NextWrites == {a \in Writes \ written : Due(a)}
Finished == Writes \subseteq written

Init ==
  /\ setting \in Options
  /\ written = {} /\ harm = {} /\ at = "writing"
  /\ strict = FALSE /\ keyset = FALSE /\ found = {}
  /\ report = "empty" /\ looked = {} /\ retold = {} /\ match = "unasked"
  /\ faults = MaxFaults

Write ==
  /\ at = "writing"
  /\ \E a \in NextWrites : written' = written \cup {a}
  /\ UNCHANGED <<setting, harm, at, args, report, looked, retold, match, faults>>

\* The process dies, and may leave of an object or a pack the file it was writing
\* it to.
Stop ==
  /\ at = "writing"
  /\ at' = "resting"
  /\ \/ UNCHANGED <<written, harm>>
     \/ \E a \in NextWrites :
          /\ a[1] \in {"object", "pack"}
          /\ written' = written \cup {a}
          /\ harm' = {[to |-> a, key |-> "itself", as |-> "misnamed"]}
  /\ UNCHANGED <<setting, args, report, looked, retold, match, faults>>
----------------------------------------------------------------------------
(* What may happen to what was written. *)

Unreadable == {"gone", "rotten"}
Foreign == {"drift", "plist"} \* put down by another writer, or another version
Ailments(a) ==
  CASE a[1] = "keyset" -> {"gone", "alien", "short", "rotten"}
    [] a[1] \in {"config", "index", "plan", "folder"} -> Unreadable \cup {"list"}
    [] a[1] = "record" -> Unreadable \cup {"misnamed", "alien"} \cup Foreign
    [] a[1] = "object" ->
         Unreadable \cup {"misplaced", "misnamed", "alien", "misfiled"}
         \cup IF KindOf[a[2]] = "data" THEN {} ELSE {"drift"}
    [] a[1] = "pack" -> {"gone", "misnamed", "alien"}
    [] OTHER -> {}

\* A nested object is harmed with the artefact that holds it.
Holder(p) == IF p[1] = "plan" THEN <<"plan">> ELSE IF p[1] = "record" THEN <<"record", p[2]>> ELSE p
Objects(a) == {p \in Nested : Holder(p) = a} \cup
              (IF a[1] \in {"config", "index", "plan", "folder", "record"} THEN {a} ELSE {})

KeyHarms(p) ==
  {h \in [to : {p}, key : Touched \cap DOMAIN Emitted(p), as : {"dropped", "str", "list", "odd"}] :
     Emitted(p)[h.key] # h.as}
  \cup [to : {p}, key : {"unheardOf"}, as : {"str"}]
Harms ==
  UNION {[to : {a}, key : {"itself"}, as : Ailments(a)] \cup UNION {KeyHarms(p) : p \in Objects(a)} :
         a \in written}

\* What a dead run left is checked as it is.
Harm ==
  /\ at = "resting" /\ Finished /\ Cardinality(harm) < MaxHarm
  /\ \E h \in Harms : (\A g \in harm : g.to # h.to \/ g.key # h.key) /\ harm' = harm \cup {h}
  /\ UNCHANGED <<setting, written, at, args, report, looked, retold, match, faults>>

Begin ==
  /\ at = "resting" /\ at' = "root" /\ strict' \in BOOLEAN
  /\ UNCHANGED <<dest, keyset, found, report, looked, retold, match, faults>>
----------------------------------------------------------------------------
(* Reading it. *)

Condition(a) ==
  IF a \notin written THEN "gone"
  ELSE LET hs == {h \in harm : h.to = a /\ h.key = "itself"}
       IN IF hs = {} THEN "whole" ELSE (CHOOSE h \in hs : TRUE).as

\* The calls that fail, of those an operation makes.
Failing(calls) == UNION {kSubset(k, calls) : k \in 0..Min({faults, Cardinality(calls)})}
Lists(x) == <<"list", x>>
Reads(x) == <<"read", x>>
Got(a, lost) == IF Reads(a) \in lost THEN "gone" ELSE Condition(a)

Keys(p) == {h.key : h \in {g \in harm : g.to = p /\ g.key # "itself" /\ g.as # "dropped"}}
Dropped(p) == {h.key : h \in {g \in harm : g.to = p /\ g.as = "dropped"}}
Json(p) ==
  [k \in (DOMAIN Emitted(p) \ Dropped(p)) \cup Keys(p) |->
     IF k \in Keys(p) THEN (CHOOSE h \in harm : h.to = p /\ h.key = k).as ELSE Emitted(p)[k]]

\* read_sidecar: what is sealed cannot be read without the keyset.
Sidecar(a, lost) ==
  IF setting.encrypted /\ a[1] \in {"plan", "folder"} /\ ~keyset THEN "gone" ELSE Got(a, lost)

\* isinstance, and an int of a value nobody knows.
Fits(type, wanted) ==
  \/ wanted \in {type, "any"}
  \/ wanted = "int" /\ type = "odd"
  \/ wanted = "str" /\ type \notin {"bool", "int", "odd", "list", "dict"}
Has(p, k, wanted) == k \in DOMAIN Json(p) /\ Fits(Json(p)[k], wanted)
----------------------------------------------------------------------------
(* The checks, in the order check_arq7_compatibility makes them. *)

Result(id, passed) == [id |-> id, passed |-> passed]
Passed == report = "passing"
Harmed(as) == as \cap {Holder(h.to) : h \in harm}

\* What a check adds to the report, what it looked at for it, and what is next.
Tell(results, seen, next) ==
  /\ report' = IF report = "failing" \/ \E r \in results : ~r.passed THEN "failing"
               ELSE IF results = {} THEN report ELSE "passing"
  /\ looked' = looked \cup Harmed(seen)
  /\ at' = next
  /\ UNCHANGED <<dest, strict, match>>
Lost(lost) == faults' = faults - Cardinality(lost)

CheckLayoutRoot ==
  /\ at = "root"
  /\ \E lost \in Failing({Lists(<<"root">>)}), asked \in {"none", "ours", "other"} :
       LET ok == lost = {} /\ written # {} /\ asked # "other" IN
       /\ Tell({Result("L1", ok)}, {}, IF ok THEN "keyset" ELSE "refused")
       /\ Lost(lost)
  /\ UNCHANGED <<keyset, found, retold>>

\* The file, its magic, its layout, its decryption and the lengths of its keys:
\* the first that is wrong is the last that is told.
KeysetChecks == <<"L2", "C1", "C2", "C3", "C4">>
KeysetFault == [gone |-> 1, alien |-> 2, short |-> 3, rotten |-> 4, whole |-> 6]

CheckKeyset ==
  /\ at = "keyset"
  /\ \E lost \in Failing({Reads(<<"keyset">>)}) :
       LET wrong == KeysetFault[Got(<<"keyset">>, lost)] IN
       /\ Tell({Result(KeysetChecks[i], i # wrong) : i \in 1..Min({wrong, 5})},
               {<<"keyset">>}, "config")
       /\ keyset' = (wrong = 6)
       /\ Lost(lost)
  /\ UNCHANGED <<found, retold>>

\* Each key that must be there, of its type.
Asked(id, p, wanted) == {Result(id, Has(p, k, wanted[k])) : k \in DOMAIN wanted}

BackupConfigRequired ==
  Typed({"isWORM", "containsGlacierArchives", "isEncrypted"}, "bool")
  ++ Typed({"backupName", "computerName", "computerSerial", "blobStorageClass"}, "str")
  ++ Typed({"blobIdentifierType", "maxPackedItemLength", "chunkerVersion"}, "int")
  ++ Typed({"additionalUnpackedBlobDirs"}, "list")
Known(p, k) == k \in DOMAIN Json(p) /\ Json(p)[k] = "int"

\* A list where an object should be has none of the keys, and no get either.
CheckBackupconfig ==
  /\ at = "config"
  /\ \E lost \in Failing({Reads(<<"config">>)}) :
       LET a == <<"config">>  c == Got(a, lost) IN
       /\ Lost(lost)
       /\ \/ c \in Unreadable /\ Tell({Result("L3", FALSE)}, {a}, "plan")
          \/ c = "list" /\ Tell({Result("L3", FALSE)}, {a}, "raised")
          \/ /\ c = "whole"
             /\ Tell({Result("L3", TRUE), Result("SV1", Known(a, "chunkerVersion")),
                      Result("SV2", Known(a, "blobIdentifierType"))}
                     \cup Asked("L3", a, BackupConfigRequired), {a}, "plan")
  /\ UNCHANGED <<keyset, found, retold>>

BackupPlanRequired ==
  Typed({"active", "isEncrypted", "useBuzhash"}, "bool") ++ Typed({"name", "planUUID"}, "str")
  ++ Typed({"backupFolderPlansByUUID", "scheduleJSON", "transferRateJSON", "emailReportJSON"}, "dict")
  ++ [version |-> "int"]
FolderPlanRequired ==
  Typed({"backupFolderUUID", "localPath", "name", "localMountPoint", "skipDuringBackup"}, "any")

ScheduleShapes ==
  LET both == {"daysOfWeek", "pauseDuringWindow", "startWhenVolumeIsConnected", "type"} IN
  [Daily |-> both \cup {"backUpAndValidate", "timeOfDay"},
   Hourly |-> both \cup {"everyHours", "minutesAfterHour", "pauseFrom", "pauseTo"}]
TransferRateShapes ==
  LET both == {"daysOfWeek", "enabled", "endTimeOfDay", "scheduleType", "startTimeOfDay"} IN
  [Always |-> both, Scheduled |-> both \cup {"maxKBPS"}]
EmailReportShapes ==
  LET base == {"authenticationType", "connectionSecurity", "port", "reportHELOUseIP", "type", "when"} IN
  {base, base \cup {"fromAddress", "hostname", "startTLS", "subject", "toAddress", "username"}}

\* The shape that goes with what tells the shapes apart.
ShapeFits(p, tag, shapes) ==
  /\ tag \in DOMAIN Json(p) /\ Json(p)[tag] \in DOMAIN shapes
  /\ DOMAIN Json(p) = shapes[Json(p)[tag]]
Unhashable(p, tag) == tag \in DOMAIN Json(p) /\ Json(p)[tag] = "list"

Schedule == <<"plan", "schedule">>
Rate == <<"plan", "rate">>
Mail == <<"plan", "mail">>
Planned == \E f \in Folders : <<"planned", f>> \in written
IsDict(k) == Has(<<"plan">>, k, "dict")
PlanRaises ==
  \/ IsDict("scheduleJSON") /\ Unhashable(Schedule, "type")
  \/ IsDict("transferRateJSON") /\ Unhashable(Rate, "scheduleType")
When(asked, results) == IF asked THEN results ELSE {}
PlanResults ==
  {Result("L4", TRUE)} \cup Asked("L4", <<"plan">>, BackupPlanRequired)
  \cup When(IsDict("backupFolderPlansByUUID") /\ Planned,
            Asked("L4", <<"plan", "folders">>, FolderPlanRequired))
  \cup When(IsDict("scheduleJSON"), {Result("L4", ShapeFits(Schedule, "type", ScheduleShapes))})
  \cup When(IsDict("transferRateJSON"),
            {Result("L4", ShapeFits(Rate, "scheduleType", TransferRateShapes))})
  \cup When(IsDict("emailReportJSON"), {Result("L4", DOMAIN Json(Mail) \in EmailReportShapes)})

CheckBackupplan ==
  /\ at = "plan"
  /\ \E lost \in Failing({Reads(<<"plan">>)}) :
       LET a == <<"plan">>  c == Sidecar(a, lost) IN
       /\ Lost(lost)
       /\ \/ c \in Unreadable /\ Tell({Result("L4", FALSE)}, {a}, "index")
          \/ (c = "list" \/ (c = "whole" /\ PlanRaises)) /\ Tell({Result("L4", FALSE)}, {a}, "raised")
          \/ c = "whole" /\ ~PlanRaises /\ Tell(PlanResults, {a}, "index")
  /\ UNCHANGED <<keyset, found, retold>>

BackupfoldersRequired ==
  Typed({"standardObjectDirs", "standardIAObjectDirs", "onezoneIAObjectDirs",
         "s3GlacierObjectDirs", "s3GlacierIRObjectDirs", "s3DeepArchiveObjectDirs"}, "list")

CheckBackupfoldersIndex ==
  /\ at = "index"
  /\ \E lost \in Failing({Reads(<<"index">>)}) :
       LET a == <<"index">>  c == Got(a, lost) IN
       /\ Lost(lost)
       /\ \/ c # "whole" /\ Tell({Result("L5", FALSE)}, {a}, "folders")
          \/ /\ c = "whole"
             /\ Tell({Result("L5", TRUE)} \cup Asked("L5", a, BackupfoldersRequired), {a}, "folders")
  /\ UNCHANGED <<keyset, found, retold>>

BackupfolderRequired ==
  Typed({"localPath", "localMountPoint", "name", "uuid", "migratedFromArq60", "migratedFromArq5",
         "storageClass", "diskIdentifier"}, "any")
FolderResults(f, lost) ==
  LET a == <<"folder", f>> IN
  IF Sidecar(a, lost) # "whole" THEN {Result("L7", FALSE)}
  ELSE {Result("L7", TRUE)} \cup Asked("L7", a, BackupfolderRequired)

\* Without a keyset the report ends here.
CheckPerFolder ==
  /\ at = "folders"
  /\ \E lost \in Failing({Lists(<<"folders">>)} \cup {Reads(<<"folder", f>>) : f \in Folders}) :
       LET dirs == IF Lists(<<"folders">>) \in lost THEN {} ELSE {f \in Folders : <<"dir", f>> \in written} IN
       /\ lost \subseteq {Lists(<<"folders">>)} \cup {Reads(<<"folder", f>>) : f \in dirs}
       /\ found' = dirs
       /\ Tell({Result("L6", dirs # {})} \cup UNION {FolderResults(f, lost) : f \in dirs},
               {<<"folder", f>> : f \in dirs}, IF keyset THEN "records" ELSE "done")
       /\ Lost(lost)
  /\ UNCHANGED <<keyset, retold>>

\* What is there and can be listed; a listing that fails is passed over in silence.
Listed(as, lost) == {a \in as : Condition(a) # "gone" /\ Lists(a) \notin lost}
Records == {<<"record", f>> : f \in found}

BackuprecordRequired ==
  {"node", "creationDate", "arqVersion", "computerOSType", "backupFolderUUID", "backupPlanUUID",
   "backupPlanJSON", "version", "isComplete"}
\* Mutant: the versions the check knew before Tree v4 was added to them.
OldVersions == {"100", "200"}

KnownVersions == {"100", "101", "200"}

RecordResults(a, lost) ==
  LET c == Got(a, lost)
      node == <<"record", a[2], "node">>
      unlocated == /\ Has(a, "node", "dict") /\ "isTree" \in DOMAIN Json(node)
                   /\ ~Has(node, "treeBlobLoc", "dict")
  IN CASE c = "misnamed" -> {Result("L8", FALSE)}
       [] c \in {"gone", "alien"} -> {Result("B1", FALSE)}
       [] c = "rotten" -> {Result("B2", FALSE)}
       [] OTHER ->
            {Result("B1", TRUE), Result("SV3", "version" \in DOMAIN Json(a) /\ Json(a)["version"] \in KnownVersions)}
            \cup {Result("B2", FALSE) : k \in BackuprecordRequired \ DOMAIN Json(a)}
            \cup When(unlocated, {Result("B3", FALSE)})

CheckBackuprecords ==
  /\ at = "records"
  /\ \E lost \in Failing({Lists(a) : a \in Records} \cup {Reads(a) : a \in Records}) :
       LET seen == Listed(Records, lost) IN
       /\ Tell({Result("L8", TRUE)} \cup UNION {RecordResults(a, lost) : a \in seen}, seen, "objects")
       /\ Lost(lost)
  /\ UNCHANGED <<keyset, found, retold>>

\* Names are all judged, contents up to the cap, in the order of the listings.
\* A directory that cannot be asked for is one that is not there: is_dir.
Probe == <<"probe", "objects">>
Stores(kind) == {<<kind, b>> : b \in AllBlobs}
Misplaced(as) == {a \in as : Condition(a) = "misplaced"}
Misnamed(as) == {a \in as : Condition(a) = "misnamed"}
Sample(as, cap) == kSubset(Min({cap, Cardinality(as)}), as)

\* Mutant: what does not decrypt is left out of the sample, as strict mode does.
BadObjectsAlien(sample, lost) == {a \in sample : Got(a, lost) \in {"gone", "alien"}}

BadObjects(sample, lost) == {a \in sample : Got(a, lost) \in {"gone", "alien", "rotten"}}

CheckStandardobjects ==
  /\ at = "objects"
  /\ \E lost \in Failing({Probe, Lists(<<"objects">>)} \cup {Lists(a) : a \in Stores("object")}
                          \cup {Reads(a) : a \in Stores("object")}) :
       LET listed == IF {Probe, Lists(<<"objects">>)} \cap lost # {} THEN {} ELSE Listed(Stores("object"), lost)
           named == listed \ (Misplaced(listed) \cup Misnamed(listed))
       IN \E sample \in Sample(named, SampleCap) :
            /\ Tell(IF Probe \in lost THEN {Result("A1", TRUE)}
                    ELSE IF Lists(<<"objects">>) \in lost THEN {Result("A1", FALSE)}
                    ELSE {Result("S1", Misplaced(listed) = {}), Result("ID1", Misnamed(listed) = {}),
                          Result("A1", BadObjects(sample, lost) = {}),
                          Result("ID2", \A a \in sample : Got(a, lost) # "misfiled")},
                    sample \cup Misplaced(listed) \cup Misnamed(listed), "packs")
            /\ Lost(lost)
  /\ UNCHANGED <<keyset, found, retold>>

\* A family that cannot be listed is one that is not there; so are packs of which
\* none has the name of one.
CheckPackFiles ==
  /\ at = "packs"
  /\ \E lost \in Failing({Lists(a) : a \in Stores("pack")} \cup {Reads(a) : a \in Stores("pack")}) :
       LET listed == Listed(Stores("pack"), lost)
           named == listed \ Misnamed(listed)
       IN \E sample \in Sample(named, SampleCap) :
            /\ Tell(IF named = {} THEN {Result("P1", TRUE)}
                    ELSE {Result("P1", Misnamed(listed) = {}),
                          Result("P2", \A a \in sample : Got(a, lost) = "whole")},
                    sample \cup (IF named = {} THEN {} ELSE Misnamed(listed)),
                    IF strict THEN "rt1" ELSE "done")
            /\ Lost(lost)
  /\ UNCHANGED <<keyset, found, retold>>
----------------------------------------------------------------------------
(* Strict mode: parse, write again, compare the bytes. *)

\* A binary property list is told apart by a name its serializer does not know.
RoundTrips(c) == c \notin Foreign

RtBackuprecords ==
  /\ at = "rt1"
  /\ \E lost \in Failing({Lists(a) : a \in Records} \cup {Reads(a) : a \in Records}) :
       LET seen == Listed(Records, lost)
           read == {a \in seen : Got(a, lost) \notin {"gone", "alien", "rotten"}}
       IN /\ Tell(When(seen # read \/ \E a \in read : ~RoundTrips(Got(a, lost)), {Result("RT1", FALSE)})
                  \cup When(\E a \in read : Got(a, lost) # "plist", {Result("RT1", TRUE)}), {}, "rt2")
          /\ retold' = retold \cup Harmed(read)
          /\ Lost(lost)
  /\ UNCHANGED <<keyset, found>>

\* Objects that cannot be read are passed over: they may be another keyset's.
RtStandardobjects ==
  /\ at = "rt2"
  /\ \E lost \in Failing({Probe, Lists(<<"objects">>)} \cup {Lists(a) : a \in Stores("object")}
                          \cup {Reads(a) : a \in Stores("object")}) :
       LET listed == IF {Probe, Lists(<<"objects">>)} \cap lost # {} THEN {} ELSE Listed(Stores("object"), lost)
           named == listed \ (Misplaced(listed) \cup Misnamed(listed))
       IN \E sample \in Sample(named, StrictCap) :
            LET parsed == {a \in sample : KindOf[a[2]] # "data"
                                          /\ Got(a, lost) \notin {"gone", "alien", "rotten"}}
                differ == {a \in parsed : ~RoundTrips(Got(a, lost))}
                id(a) == IF KindOf[a[2]] = "tree" THEN "RT2" ELSE "RT3"
            IN /\ Tell(IF Lists(<<"objects">>) \in lost THEN {Result("RT2", FALSE)}
                       ELSE IF Probe \in lost \/ parsed = {} THEN {Result("RT2", TRUE)}
                       ELSE {Result(id(a), TRUE) : a \in parsed} \cup {Result(id(a), FALSE) : a \in differ},
                       {}, "done")
               /\ retold' = retold \cup Harmed(parsed)
               /\ Lost(lost)
  /\ UNCHANGED <<keyset, found>>
----------------------------------------------------------------------------
(* The fingerprint, against the one of the destination as it was written. *)

TypeName(t) ==
  IF t \in {"odd"} \cup KnownVersions THEN "int" ELSE IF Fits(t, "str") THEN "str" ELSE t
Schema(object) == [k \in DOMAIN object |-> TypeName(object[k])]

SchemaParts(a) == IF a = <<"plan">> THEN {a} \cup {p \in Nested : Holder(p) = a} ELSE {a}
\* A nested object counts where its key still holds one.
KeyOf(p) ==
  CASE p = <<"plan", "folders">> -> "backupFolderPlansByUUID" [] p = Schedule -> "scheduleJSON"
    [] p = Rate -> "transferRateJSON" [] OTHER -> "emailReportJSON"
SameSchema(a, lost) ==
  /\ Got(a, lost) = "whole"
  /\ \A p \in SchemaParts(a) : (p = a \/ IsDict(KeyOf(p))) => Schema(Json(p)) = Schema(Emitted(p))

\* The trees a record's fingerprint walks, and the files it comes to.
TreeOf(f) == Stored(Last(Blobs[f]))
TreeRead(f, lost) == Got(TreeOf(f), lost) \in {"whole", "drift"}
RecordFiles(f, lost) ==
  LET a == <<"record", f>>  node == <<"record", f, "node">> IN
  IF Got(a, lost) \in {"gone", "alien", "rotten"} \/ ~Has(a, "node", "dict") THEN {}
  ELSE IF "isTree" \notin DOMAIN Json(node) THEN {"root"}
  ELSE IF Has(node, "treeBlobLoc", "dict") /\ TreeRead(f, lost) THEN Files[f] ELSE {}

RecordsOf(f, lost) ==
  {a \in Listed({<<"record", f>>}, lost) : Condition(a) # "misnamed"}

\* blobIdentifier is asked of what stands for a location, whatever that is.
LocationRaises(f, lost) ==
  LET a == <<"record", f>>  node == <<"record", f, "node">> IN
  /\ RecordsOf(f, lost) # {} /\ Got(a, lost) \in {"whole"} \cup Foreign /\ Has(a, "node", "dict")
  /\ {"isTree", "treeBlobLoc"} \subseteq DOMAIN Json(node) /\ ~Has(node, "treeBlobLoc", "dict")

\* Mutant: pairs are compared as far as both go, and no more.
SameFolderSoFar(f, lost) == RecordsOf(f, lost) # {} => RecordFiles(f, lost) = Files[f]

\* Folders, and the records of a folder, are counted and compared pair by pair.
SameFolder(f, lost) ==
  /\ RecordsOf(f, lost) # {}
  /\ RecordFiles(f, lost) = Files[f]

FingerprintCalls ==
  {Lists(<<"folders">>), Reads(<<"keyset">>)} \cup {Reads(<<x>>) : x \in {"config", "plan", "index"}}
  \cup {Lists(<<"record", f>>) : f \in Folders} \cup {Reads(<<"record", f>>) : f \in Folders}
  \cup {Reads(TreeOf(f)) : f \in Folders}

DiffFingerprints(lost) ==
  /\ \A x \in {"config", "plan", "index"} : SameSchema(<<x>>, lost)
  /\ Lists(<<"folders">>) \notin lost /\ \A f \in Folders : <<"dir", f>> \in written
  /\ \A f \in Folders : SameFolder(f, lost)

Fingerprint ==
  /\ at = "done" /\ match = "unasked"
  /\ \E lost \in Failing(FingerprintCalls) :
       LET raises == Got(<<"keyset">>, lost) # "whole" \/ \E f \in Folders : LocationRaises(f, lost) IN
       /\ \/ raises /\ match' = "raised"
          \/ ~raises /\ DiffFingerprints(lost) /\ match' = "yes"
          \/ ~raises /\ ~DiffFingerprints(lost) /\ match' = "no"
       /\ Lost(lost)
  /\ UNCHANGED <<dest, at, args, report, looked, retold>>

Next ==
  \/ Write \/ Stop \/ Harm \/ Begin
  \/ CheckLayoutRoot \/ CheckKeyset \/ CheckBackupconfig \/ CheckBackupplan
  \/ CheckBackupfoldersIndex \/ CheckPerFolder \/ CheckBackuprecords \/ CheckStandardobjects
  \/ CheckPackFiles \/ RtBackuprecords \/ RtStandardobjects \/ Fingerprint

Spec == Init /\ [][Next]_vars
----------------------------------------------------------------------------
(* Properties. *)

\* A destination this writer finished and nothing happened to passes every
\* check, strict ones included, whatever its options, if it is encrypted and
\* every call is answered: what json_configs.py and backuprecord.py emit is
\* what compatibility.py asks for.  So does one whose run died after it began
\* its first folder, unless between a folder's directory and its JSON.
NoFalseAlarm ==
  (at \in {"done", "raised"} /\ setting.encrypted /\ harm = {} /\ faults = MaxFaults)
    => \/ Passed
       \/ \A f \in Folders : <<"dir", f>> \notin written
       \/ \E f \in Folders : <<"dir", f>> \in written /\ <<"folder", f>> \notin written

\* What has this row of keys asked for.
Wanted(p) ==
  CASE p = <<"config">> -> BackupConfigRequired [] p = <<"plan">> -> BackupPlanRequired
    [] p = <<"index">> -> BackupfoldersRequired [] p = <<"plan", "folders">> -> FolderPlanRequired
    [] p[1] = "folder" -> BackupfolderRequired
    [] p[1] = "record" /\ Len(p) = 2 -> Typed(BackuprecordRequired, "any")
    [] OTHER -> <<>>

\* What a reader of the destination may be told of it untruly: a key that is
\* gone, has another type or a value it does not know.  Mail settings that
\* lost all a server needs are those of a plan made afresh.
Lies(h) ==
  LET p == h.to IN
  \/ h.key \in DOMAIN Wanted(p) /\ ~Has(p, h.key, Wanted(p)[h.key])
  \/ p = <<"config">> /\ h.as = "odd" /\ h.key \in {"chunkerVersion", "blobIdentifierType"}
  \/ p[1] = "record" /\ h.key = "version"
  \/ p \in {Schedule, Rate, Mail} /\ h.key = "unheardOf"
  \/ p \in {Schedule, Rate} /\ h.key \in Dropped(p)
  \/ p = Mail /\ h.key \in Dropped(p) /\ DOMAIN Json(p) # DOMAIN EmailReportJson(FALSE)

\* A report that passes vouches for what it looked at: whatever calls failed,
\* no artefact it opened or judged by its name is missing, foreign, broken or
\* without a key that is asked for, and none it wrote again reads differently.
\* What it never listed, or left out of its sample, it says nothing of.
PassedMeansSound ==
  (at = "done" /\ Passed) =>
    \A h \in harm :
      /\ Holder(h.to) \in looked => IF h.key = "itself" THEN h.as \in Foreign ELSE ~Lies(h)
      /\ h.to \in retold /\ h.key = "itself" => h.as \notin Foreign

\* A fingerprint that matches is of a destination whose three configs have the
\* same keys of the same types and whose every record leads to its tree where
\* the folder has a file, so that what reads it finds every file (the record of
\* an empty folder has the same fingerprint when it cannot be read); one that
\* nothing happened to matches.
MatchTells ==
  /\ match = "yes" =>
       /\ \A x \in {"config", "plan", "index"} : Condition(<<x>>) = "whole"
       /\ \A h \in harm : h.to[1] \in {"config", "plan", "index"} =>
            h.key \in DOMAIN Emitted(h.to) /\ TypeName(h.as) = TypeName(Emitted(h.to)[h.key])
       /\ \A f \in Folders : Files[f] # {} =>
                            /\ Condition(<<"record", f>>) \in {"whole"} \cup Foreign
                            /\ Condition(TreeOf(f)) \in {"whole", "drift"}
  /\ (match # "unasked" /\ harm = {} /\ faults = MaxFaults /\ Finished /\ setting.encrypted)
       => match = "yes"
=============================================================================
