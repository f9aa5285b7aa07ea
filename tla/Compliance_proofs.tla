-------------------------- MODULE Compliance_proofs --------------------------
(***************************************************************************)
(* Proofs about Compliance, for all options, folders, blobs and samples,   *)
(* any number of harmed things and of calls that fail: a report that       *)
(* passes vouches for what it looked at, what this writer finished passes, *)
(* and a fingerprint that matches leads to every tree.                     *)
(***************************************************************************)
EXTENDS Compliance, TLAPS, FiniteSetTheorems, SequenceTheorems

(* What is written, as sets. *)

\* The elements of a concatenation are those of both sequences.
LEMMA ElementsOfConcat ==
  ASSUME NEW S, NEW s \in Seq(S), NEW t \in Seq(S)
  PROVE  ToSet(s \o t) = ToSet(s) \cup ToSet(t)
PROOF
  <1>1. ASSUME NEW x \in ToSet(s \o t) PROVE x \in ToSet(s) \cup ToSet(t)
    <2>1. PICK i \in DOMAIN (s \o t) : x = (s \o t)[i]
      BY <1>1 DEF ToSet
    <2>2. CASE i <= Len(s)
      <3>1. i \in DOMAIN s /\ x = s[i]
        BY <2>1, <2>2
      <3>2. QED BY <3>1 DEF ToSet
    <2>3. CASE ~(i <= Len(s))
      <3>1. i - Len(s) \in DOMAIN t /\ x = t[i - Len(s)]
        BY <2>1, <2>3
      <3>2. QED BY <3>1 DEF ToSet
    <2>4. QED BY <2>2, <2>3
  <1>2. ASSUME NEW x \in ToSet(s) PROVE x \in ToSet(s \o t)
    <2>1. PICK i \in DOMAIN s : x = s[i]
      BY <1>2 DEF ToSet
    <2>2. i \in DOMAIN (s \o t) /\ x = (s \o t)[i]
      BY <2>1
    <2>3. QED BY <2>2 DEF ToSet
  <1>3. ASSUME NEW x \in ToSet(t) PROVE x \in ToSet(s \o t)
    <2>1. PICK i \in DOMAIN t : x = t[i]
      BY <1>3 DEF ToSet
    <2>2. Len(s) + i \in DOMAIN (s \o t) /\ x = (s \o t)[Len(s) + i]
      BY <2>1
    <2>3. QED BY <2>2 DEF ToSet
  <1>4. QED BY <1>1, <1>2, <1>3

Configs == {<<"config">>, <<"index">>, <<"plan">>}
Keyset == IF setting.encrypted THEN {<<"keyset">>} ELSE {}
FolderFiles(f) ==
  {<<"dir", f>>, <<"folder", f>>, <<"planned", f>>, <<"record", f>>}
  \cup {Stored(b) : b \in ToSet(Blobs[f])}

\* Who comes first and what the turn of a folder holds.
LEMMA TurnsHold ==
  /\ ToSet(Turn(0)) = Keyset \cup Configs
  /\ \A i \in 1..Len(FolderSeq) : FolderSeq[i] \in Folders /\ ToSet(Turn(i)) = FolderFiles(FolderSeq[i])
PROOF
  <1> DEFINE plan == <<<<"config">>, <<"index">>, <<"plan">>>>
             key == IF setting.encrypted THEN <<<<"keyset">>>> ELSE <<>>
  <1>1. ToSet(Turn(0)) = Keyset \cup Configs
    <2> DEFINE S == Keyset \cup Configs
    <2>1. plan \in Seq(S) /\ key \in Seq(S)
      <3>1. <<"config">> \in S /\ <<"index">> \in S /\ <<"plan">> \in S
        BY DEF Configs
      <3>2. setting.encrypted => <<"keyset">> \in S
        BY DEF Keyset
      <3> HIDE DEF S
      <3> QED BY <3>1, <3>2
    <2>2. ToSet(plan) = Configs
      BY DEF ToSet, Configs
    <2>3. ToSet(key) = Keyset
      BY DEF ToSet, Keyset
    <2>4. Turn(0) = key \o plan
      BY DEF Turn, InitPlanWrites
    <2>5. ToSet(key \o plan) = ToSet(key) \cup ToSet(plan)
      <3> HIDE DEF plan, key, S
      <3> QED BY <2>1, ElementsOfConcat
    <2> HIDE DEF plan, key, S
    <2>6. QED BY <2>2, <2>3, <2>4, <2>5
  <1>2. ASSUME NEW i \in 1..Len(FolderSeq)
        PROVE  FolderSeq[i] \in Folders /\ ToSet(Turn(i)) = FolderFiles(FolderSeq[i])
    <2> DEFINE f == FolderSeq[i]
               S == FolderFiles(f)
               first == <<<<"dir", f>>, <<"folder", f>>, <<"planned", f>>>>
               mid == [n \in DOMAIN Blobs[f] |-> Stored(Blobs[f][n])]
               last == <<<<"record", f>>>>
    <2>1. f \in Folders /\ Blobs[f] \in Seq(AllBlobs)
      BY ComplianceAssumption DEF Folders, ToSet
    <2>2. mid \in Seq(S) /\ ToSet(mid) = {Stored(b) : b \in ToSet(Blobs[f])}
      <3>1. \A n \in DOMAIN Blobs[f] : Stored(Blobs[f][n]) \in S
        BY DEF FolderFiles, ToSet
      <3>2. DOMAIN Blobs[f] = 1..Len(Blobs[f]) /\ Len(Blobs[f]) \in Nat
        BY <2>1
      <3>3. mid \in Seq(S)
        <4> HIDE DEF S
        <4> QED BY <3>1, <3>2
      <3>4. ToSet(mid) = {Stored(b) : b \in ToSet(Blobs[f])}
        BY DEF ToSet
      <3> QED BY <3>3, <3>4
    <2>3. /\ first \in Seq(S) /\ ToSet(first) = {<<"dir", f>>, <<"folder", f>>, <<"planned", f>>}
          /\ last \in Seq(S) /\ ToSet(last) = {<<"record", f>>}
      <3>1. <<"dir", f>> \in S /\ <<"folder", f>> \in S /\ <<"planned", f>> \in S /\ <<"record", f>> \in S
        BY DEF FolderFiles
      <3>2. first \in Seq(S) /\ last \in Seq(S)
        <4> HIDE DEF S
        <4> QED BY <3>1
      <3>3. ToSet(first) = {<<"dir", f>>, <<"folder", f>>, <<"planned", f>>}
        BY DEF ToSet
      <3>4. ToSet(last) = {<<"record", f>>}
        BY DEF ToSet
      <3> QED BY <3>2, <3>3, <3>4
    <2>4. Turn(i) = first \o mid \o last
      BY DEF Turn, AddFolderWrites
    <2>5. first \o mid \in Seq(S)
      <3> HIDE DEF first, mid, S
      <3> QED BY <2>2, <2>3
    <2>6. ToSet(Turn(i)) = ToSet(first) \cup ToSet(mid) \cup ToSet(last)
      <3> HIDE DEF first, mid, last, S
      <3>1. ToSet(first \o mid) = ToSet(first) \cup ToSet(mid)
        BY <2>2, <2>3, ElementsOfConcat
      <3>2. ToSet((first \o mid) \o last) = ToSet(first \o mid) \cup ToSet(last)
        <4> DEFINE both == first \o mid
        <4>1. both \in Seq(S)
          BY <2>5
        <4> HIDE DEF both
        <4>2. ToSet(both \o last) = ToSet(both) \cup ToSet(last)
          BY <2>3, <4>1, ElementsOfConcat
        <4> QED BY <4>2 DEF both
      <3> QED BY <2>4, <3>1, <3>2
    <2>7. QED BY <2>1, <2>2, <2>3, <2>6 DEF FolderFiles
  <1>3. QED BY <1>1, <1>2

LEMMA WritesAre ==
  Writes = Keyset \cup Configs \cup UNION {FolderFiles(f) : f \in Folders}
PROOF
  <1>1. Turns = {0} \cup 1..Len(FolderSeq)
    BY DEF Turns
  <1>2. \A f \in Folders : \E i \in 1..Len(FolderSeq) : f = FolderSeq[i]
    BY DEF Folders, ToSet
  <1>3. Writes = ToSet(Turn(0)) \cup UNION {ToSet(Turn(i)) : i \in 1..Len(FolderSeq)}
    BY <1>1 DEF Writes
  <1>4. UNION {ToSet(Turn(i)) : i \in 1..Len(FolderSeq)} = UNION {FolderFiles(f) : f \in Folders}
    <2> HIDE DEF Folders
    <2> QED BY <1>2, TurnsHold
  <1>5. QED BY <1>3, <1>4, TurnsHold

-----------------------------------------------------------------------------
(* JSON objects and who holds them. *)

JsonObjects ==
  Configs \cup {<<"folder", f>> : f \in Folders} \cup {<<"record", f>> : f \in Folders} \cup Nested

Artefacts ==
  {<<x>> : x \in {"keyset", "config", "index", "plan"}}
  \cup {<<x, f>> : x \in {"dir", "folder", "planned", "record"}, f \in Folders}
  \cup {<<x, b>> : x \in {"object", "pack"}, b \in AllBlobs}

LEMMA WritesAreArtefacts == Writes \subseteq Artefacts
PROOF
  <1>1. Keyset \cup Configs \subseteq Artefacts
    BY DEF Keyset, Configs, Artefacts
  <1>2. ASSUME NEW f \in Folders PROVE FolderFiles(f) \subseteq Artefacts
    <2>1. ASSUME NEW b \in ToSet(Blobs[f]) PROVE Stored(b) \in Artefacts
      <3>1. b \in AllBlobs
        BY DEF AllBlobs
      <3> QED BY <3>1 DEF Stored, Artefacts
    <2>2. {<<"dir", f>>, <<"folder", f>>, <<"planned", f>>, <<"record", f>>} \subseteq Artefacts
      BY DEF Artefacts
    <2> QED BY <2>1, <2>2 DEF FolderFiles
  <1> QED BY <1>1, <1>2, WritesAre

\* An artefact holds itself, and the nested objects are held by the plan and
\* by their records.
LEMMA HolderOfArtefact ==
  ASSUME NEW a \in Artefacts
  PROVE  Holder(a) = a
BY DEF Artefacts, Holder

LEMMA HolderOfNested ==
  /\ \A x : Holder(<<"plan", x>>) = <<"plan">>
  /\ \A f : Holder(<<"record", f, "node">>) = <<"record", f>>
BY DEF Holder

LEMMA ObjectsOfArtefact ==
  ASSUME NEW a \in Artefacts, NEW p \in Objects(a)
  PROVE  p \in JsonObjects /\ Holder(p) = a
PROOF
  <1>1. CASE p \in Nested /\ Holder(p) = a
    BY <1>1 DEF JsonObjects
  <1>2. CASE a[1] \in {"config", "index", "plan", "folder", "record"} /\ p = a
    <2>1. Holder(a) = a
      BY HolderOfArtefact
    <2>2. a \in JsonObjects
      BY <1>2 DEF Artefacts, JsonObjects, Configs
    <2> QED BY <1>2, <2>1, <2>2
  <1> QED BY <1>1, <1>2 DEF Objects

\* Who holds an object says which it is.
LEMMA ObjectsByHolder ==
  ASSUME NEW p \in JsonObjects
  PROVE  /\ Holder(p) = <<"config">> => p = <<"config">>
         /\ Holder(p) = <<"index">> => p = <<"index">>
         /\ Holder(p) = <<"plan">> => p \in {<<"plan">>, <<"plan", "folders">>, Schedule, Rate, Mail}
         /\ \A f : Holder(p) = <<"folder", f>> => p = <<"folder", f>>
         /\ \A f : Holder(p) = <<"record", f>> => p \in {<<"record", f>>, <<"record", f, "node">>}
         /\ Holder(p)[1] \in {"config", "index", "plan", "folder", "record"}
PROOF
  <1>1. CASE p \in Configs
    BY <1>1 DEF Configs, Holder
  <1>2. CASE \E f \in Folders : p = <<"folder", f>>
    BY <1>2 DEF Holder
  <1>3. CASE \E f \in Folders : p = <<"record", f>>
    BY <1>3 DEF Holder
  <1>4. CASE \E x \in {"folders", "schedule", "rate", "mail"} : p = <<"plan", x>>
    BY <1>4 DEF Holder, Schedule, Rate, Mail
  <1>5. CASE \E f \in Folders : p = <<"record", f, "node">>
    BY <1>5 DEF Holder
  <1> QED BY <1>1, <1>2, <1>3, <1>4, <1>5 DEF JsonObjects, Nested

\* What each object was written as.
LEMMA EmittedIs ==
  /\ Emitted(<<"config">>) = BackupConfig
  /\ Emitted(<<"index">>) = BackupFolders
  /\ Emitted(<<"plan">>) = BackupPlan
  /\ Emitted(<<"plan", "folders">>) = FolderPlan
  /\ Emitted(Schedule) = ScheduleJson(setting.custom)
  /\ Emitted(Rate) = TransferRateJson(setting.custom)
  /\ Emitted(Mail) = EmailReportJson(setting.custom)
  /\ \A f : Emitted(<<"folder", f>>) = BackupFolder
  /\ \A f : Emitted(<<"record", f>>) = BackupRecord(setting.tree)
  /\ \A f : Emitted(<<"record", f, "node">>) = NodeDict
PROOF
  <1>1. /\ Emitted(<<"config">>) = BackupConfig
        /\ Emitted(<<"index">>) = BackupFolders
        /\ Emitted(<<"plan">>) = BackupPlan
    BY DEF Emitted
  <1>2. /\ Emitted(<<"plan", "folders">>) = FolderPlan
        /\ Emitted(Schedule) = ScheduleJson(setting.custom)
        /\ Emitted(Rate) = TransferRateJson(setting.custom)
        /\ Emitted(Mail) = EmailReportJson(setting.custom)
    BY DEF Emitted, Schedule, Rate, Mail
  <1>3. ASSUME NEW f PROVE Emitted(<<"folder", f>>) = BackupFolder
    BY DEF Emitted
  <1>4. ASSUME NEW f PROVE Emitted(<<"record", f>>) = BackupRecord(setting.tree)
    <2>1. Len(<<"record", f>>) = 2 /\ <<"record", f>>[1] = "record"
      OBVIOUS
    <2> QED BY <2>1 DEF Emitted
  <1>5. ASSUME NEW f PROVE Emitted(<<"record", f, "node">>) = NodeDict
    <2>1. Len(<<"record", f, "node">>) = 3 /\ <<"record", f, "node">>[1] = "record"
      OBVIOUS
    <2> QED BY <2>1 DEF Emitted
  <1> QED BY <1>1, <1>2, <1>3, <1>4, <1>5

-----------------------------------------------------------------------------
(* What the builders emit is what the checks ask for. *)

LEMMA OverDomain ==
  \A o, more : DOMAIN (o ++ more) = DOMAIN o \cup DOMAIN more
BY DEF ++

LEMMA OverValue ==
  \A o, more : \A k \in DOMAIN o \cup DOMAIN more :
    (o ++ more)[k] = IF k \in DOMAIN o THEN o[k] ELSE more[k]
BY DEF ++

LEMMA ConfigTable ==
  /\ BackupConfig = BackupConfigRequired
  /\ BackupConfig["chunkerVersion"] = "int" /\ BackupConfig["blobIdentifierType"] = "int"
  /\ {"chunkerVersion", "blobIdentifierType"} \subseteq DOMAIN BackupConfig
BY DEF BackupConfig, BackupConfigRequired, Typed, ++

LEMMA IndexTable == BackupFolders = BackupfoldersRequired
BY DEF BackupFolders, BackupfoldersRequired

LEMMA FolderTable ==
  /\ DOMAIN BackupfolderRequired \subseteq DOMAIN BackupFolder
  /\ \A k \in DOMAIN BackupfolderRequired : BackupfolderRequired[k] = "any"
BY DEF BackupFolder, BackupfolderRequired, Typed, ++

LEMMA FolderPlanTable ==
  /\ DOMAIN FolderPlanRequired \subseteq DOMAIN FolderPlan
  /\ \A k \in DOMAIN FolderPlanRequired : FolderPlanRequired[k] = "any"
BY DEF FolderPlan, FolderPlanRequired, Typed, ++

LEMMA PlanTable ==
  /\ DOMAIN BackupPlanRequired \subseteq DOMAIN BackupPlan
  /\ \A k \in DOMAIN BackupPlanRequired : BackupPlan[k] = BackupPlanRequired[k]
  /\ \A k \in {"backupFolderPlansByUUID", "scheduleJSON", "transferRateJSON", "emailReportJSON"} :
       k \in DOMAIN BackupPlanRequired /\ BackupPlanRequired[k] = "dict"
PROOF
  <1>1. DOMAIN BackupPlanRequired =
          {"active", "isEncrypted", "useBuzhash", "name", "planUUID", "backupFolderPlansByUUID",
           "scheduleJSON", "transferRateJSON", "emailReportJSON", "version"}
    BY DEF BackupPlanRequired, Typed, ++
  <1>2. \A k \in {"active", "isEncrypted", "useBuzhash"} : k \in DOMAIN BackupPlan /\ BackupPlan[k] = "bool"
    <2>1. "active" \in DOMAIN BackupPlan /\ BackupPlan["active"] = "bool"
      BY DEF BackupPlan, Typed, ++
    <2>2. "isEncrypted" \in DOMAIN BackupPlan /\ BackupPlan["isEncrypted"] = "bool"
      BY DEF BackupPlan, Typed, ++
    <2>3. "useBuzhash" \in DOMAIN BackupPlan /\ BackupPlan["useBuzhash"] = "bool"
      BY DEF BackupPlan, Typed, ++
    <2> HIDE DEF BackupPlan
    <2> QED BY <2>1, <2>2, <2>3
  <1>3. \A k \in {"name", "planUUID"} : k \in DOMAIN BackupPlan /\ BackupPlan[k] = "str"
    <2>1. "name" \in DOMAIN BackupPlan /\ BackupPlan["name"] = "str"
      BY DEF BackupPlan, Typed, ++
    <2>2. "planUUID" \in DOMAIN BackupPlan /\ BackupPlan["planUUID"] = "str"
      BY DEF BackupPlan, Typed, ++
    <2> HIDE DEF BackupPlan
    <2> QED BY <2>1, <2>2
  <1>4. \A k \in {"backupFolderPlansByUUID", "scheduleJSON", "transferRateJSON", "emailReportJSON"} :
          k \in DOMAIN BackupPlan /\ BackupPlan[k] = "dict"
    <2>1. /\ "backupFolderPlansByUUID" \in DOMAIN BackupPlan
          /\ BackupPlan["backupFolderPlansByUUID"] = "dict"
      BY DEF BackupPlan, Typed, ++
    <2>2. "emailReportJSON" \in DOMAIN BackupPlan /\ BackupPlan["emailReportJSON"] = "dict"
      BY DEF BackupPlan, Typed, ++
    <2>3. "scheduleJSON" \in DOMAIN BackupPlan /\ BackupPlan["scheduleJSON"] = "dict"
      BY DEF BackupPlan, Typed, ++
    <2>4. "transferRateJSON" \in DOMAIN BackupPlan /\ BackupPlan["transferRateJSON"] = "dict"
      BY DEF BackupPlan, Typed, ++
    <2> HIDE DEF BackupPlan
    <2> QED BY <2>1, <2>2, <2>3, <2>4
  <1>5. "version" \in DOMAIN BackupPlan /\ BackupPlan["version"] = "int"
    BY DEF BackupPlan, Typed, ++
  <1>6. /\ \A k \in {"active", "isEncrypted", "useBuzhash"} : BackupPlanRequired[k] = "bool"
        /\ \A k \in {"name", "planUUID"} : BackupPlanRequired[k] = "str"
        /\ \A k \in {"backupFolderPlansByUUID", "scheduleJSON", "transferRateJSON", "emailReportJSON"} :
             BackupPlanRequired[k] = "dict"
        /\ BackupPlanRequired["version"] = "int"
    BY DEF BackupPlanRequired, Typed, ++
  <1> HIDE DEF BackupPlan, BackupPlanRequired
  <1> QED BY <1>1, <1>2, <1>3, <1>4, <1>5, <1>6

LEMMA RecordTable ==
  ASSUME NEW tree
  PROVE  /\ BackuprecordRequired \subseteq DOMAIN BackupRecord(tree)
         /\ BackupRecord(tree)["version"] \in KnownVersions
         /\ BackupRecord(tree)["node"] = "dict"
BY DEF BackupRecord, BackuprecordRequired, KnownVersions, Typed, ++

LEMMA NodeTable ==
  /\ {"isTree", "treeBlobLoc"} \subseteq DOMAIN NodeDict
  /\ NodeDict["treeBlobLoc"] = "dict"
  /\ "version" \notin DOMAIN NodeDict
BY DEF NodeDict, Typed, ++

LEMMA ScheduleTable ==
  ASSUME NEW custom \in BOOLEAN
  PROVE  /\ "type" \in DOMAIN ScheduleJson(custom)
         /\ ScheduleJson(custom)["type"] = IF custom THEN "Hourly" ELSE "Daily"
         /\ DOMAIN ScheduleShapes = {"Daily", "Hourly"}
         /\ DOMAIN ScheduleJson(custom) = ScheduleShapes[ScheduleJson(custom)["type"]]
         /\ \A x \in DOMAIN ScheduleShapes : "unheardOf" \notin ScheduleShapes[x]
PROOF
  <1>1. CASE custom
    BY <1>1 DEF ScheduleJson, ScheduleShapes, Typed, ++
  <1>2. CASE ~custom
    BY <1>2 DEF ScheduleJson, ScheduleShapes, Typed, ++
  <1> QED BY <1>1, <1>2

LEMMA RateTable ==
  ASSUME NEW custom \in BOOLEAN
  PROVE  /\ "scheduleType" \in DOMAIN TransferRateJson(custom)
         /\ TransferRateJson(custom)["scheduleType"] = IF custom THEN "Scheduled" ELSE "Always"
         /\ DOMAIN TransferRateShapes = {"Always", "Scheduled"}
         /\ DOMAIN TransferRateJson(custom) = TransferRateShapes[TransferRateJson(custom)["scheduleType"]]
         /\ \A x \in DOMAIN TransferRateShapes : "unheardOf" \notin TransferRateShapes[x]
PROOF
  <1>1. CASE custom
    BY <1>1 DEF TransferRateJson, TransferRateShapes, Typed, ++
  <1>2. CASE ~custom
    BY <1>2 DEF TransferRateJson, TransferRateShapes, Typed, ++
  <1> QED BY <1>1, <1>2

LEMMA MailTable ==
  /\ EmailReportShapes = {DOMAIN EmailReportJson(FALSE), DOMAIN EmailReportJson(TRUE)}
  /\ DOMAIN EmailReportJson(FALSE) \subseteq DOMAIN EmailReportJson(TRUE)
  /\ "unheardOf" \notin DOMAIN EmailReportJson(TRUE)
BY DEF EmailReportJson, EmailReportShapes, Typed, ++

\* Each is a function of its keys.
LEMMA TablesAreFunctions ==
  ASSUME NEW p
  PROVE  Emitted(p) = [k \in DOMAIN Emitted(p) |-> Emitted(p)[k]]
PROOF
  <1> DEFINE IsOver(o) == \E a, b : o = a ++ b
  <1>1. \A a, b : a ++ b = [k \in DOMAIN (a ++ b) |-> (a ++ b)[k]]
    BY DEF ++
  <1>2. /\ IsOver(BackupConfig) /\ IsOver(BackupPlan) /\ IsOver(FolderPlan) /\ IsOver(BackupFolder)
        /\ IsOver(NodeDict) /\ \A t : IsOver(BackupRecord(t))
        /\ \A c : IsOver(ScheduleJson(c)) /\ IsOver(TransferRateJson(c)) /\ IsOver(EmailReportJson(c))
    BY Zenon DEF BackupConfig, BackupPlan, FolderPlan, BackupFolder, NodeDict, BackupRecord,
       ScheduleJson, TransferRateJson, EmailReportJson
  <1>3. BackupFolders = [k \in DOMAIN BackupFolders |-> BackupFolders[k]]
    BY DEF BackupFolders, Typed
  <1>4. Emitted(p) = BackupFolders \/ IsOver(Emitted(p))
    <2> HIDE DEF IsOver
    <2> QED BY <1>2 DEF Emitted
  <1> QED BY <1>1, <1>3, <1>4, Zenon

-----------------------------------------------------------------------------
(* The invariant. *)

Stations ==
  {"writing", "resting", "root", "keyset", "config", "plan", "index", "folders", "records",
   "objects", "packs", "rt1", "rt2", "done", "refused", "raised"}

TypeOK ==
  /\ setting \in Options /\ written \subseteq Writes
  /\ at \in Stations /\ strict \in BOOLEAN /\ keyset \in BOOLEAN /\ found \subseteq Folders
  /\ report \in {"empty", "passing", "failing"}
  /\ match \in {"unasked", "raised", "yes", "no"}
  /\ faults \in 0..MaxFaults

\* What a harm is: something that befell an artefact that was written, or one
\* key of an object of a destination that was finished.
Harmful(h) ==
  \/ h.key = "itself" /\ h.to \in written /\ h.as \in Ailments(h.to)
  \/ /\ h.key # "itself" /\ Finished /\ h.to \in JsonObjects
     /\ \/ /\ h.key \in DOMAIN Emitted(h.to) /\ h.key # "unheardOf"
           /\ h.as \in {"dropped", "str", "list", "odd"} /\ Emitted(h.to)[h.key] # h.as
        \/ h.key = "unheardOf" /\ h.as = "str"

HarmOK ==
  /\ \A h \in harm : Harmful(h)
  /\ \A g, h \in harm : g.to = h.to /\ g.key = h.key => g = h

\* Before the checks nothing was looked at; a run that is writing is unharmed.
Fresh ==
  /\ at = "writing" => harm = {}
  /\ at \in {"writing", "resting"} => report = "empty" /\ looked = {} /\ retold = {} /\ match = "unasked"
  /\ match # "unasked" => at = "done"

-----------------------------------------------------------------------------
(* What is read of what was harmed. *)

\* Every ailment is a word of its own.
LEMMA AilmentWords ==
  ASSUME NEW a
  PROVE  /\ Ailments(a) \subseteq
              {"gone", "rotten", "list", "alien", "short", "misnamed", "misplaced", "misfiled"} \cup Foreign
         /\ a[1] = "keyset" => Ailments(a) = {"gone", "alien", "short", "rotten"}
         /\ a[1] \in {"config", "index", "plan", "folder"} => Ailments(a) = Unreadable \cup {"list"}
         /\ a[1] = "record" => Ailments(a) = Unreadable \cup {"misnamed", "alien"} \cup Foreign
         /\ a[1] = "object" =>
              Ailments(a) \subseteq Unreadable \cup {"misplaced", "misnamed", "alien", "misfiled", "drift"}
         /\ a[1] = "pack" => Ailments(a) = {"gone", "misnamed", "alien"}
BY DEF Ailments, Foreign, Unreadable

\* An artefact is in the one condition it was brought to.
LEMMA ConditionOfHarmed ==
  ASSUME HarmOK, NEW h \in harm, h.key = "itself"
  PROVE  Condition(h.to) = h.as /\ h.to \in written /\ h.as \in Ailments(h.to)
PROOF
  <1> DEFINE hs == {g \in harm : g.to = h.to /\ g.key = "itself"}
  <1>1. h.to \in written /\ h.as \in Ailments(h.to)
    BY DEF HarmOK, Harmful
  <1>2. h \in hs /\ \A g \in hs : g = h
    BY DEF HarmOK
  <1>3. (CHOOSE g \in hs : TRUE) = h
    BY <1>2
  <1>4. Condition(h.to) = IF hs = {} THEN "whole" ELSE (CHOOSE g \in hs : TRUE).as
    BY <1>1 DEF Condition
  <1> HIDE DEF hs
  <1> QED BY <1>1, <1>2, <1>3, <1>4

LEMMA ConditionWithout ==
  ASSUME NEW a, \A h \in harm : ~(h.to = a /\ h.key = "itself")
  PROVE  Condition(a) = IF a \in written THEN "whole" ELSE "gone"
BY DEF Condition

\* What is whole has not been harmed.
LEMMA WholeIsUnharmed ==
  ASSUME HarmOK, NEW h \in harm, h.key = "itself"
  PROVE  Condition(h.to) # "whole"
BY ConditionOfHarmed, AilmentWords DEF Foreign

LEMMA JsonDomain ==
  ASSUME NEW p
  PROVE  /\ DOMAIN Json(p) = (DOMAIN Emitted(p) \ Dropped(p)) \cup Keys(p)
         /\ \A k \in DOMAIN Json(p) : k \notin Keys(p) => Json(p)[k] = Emitted(p)[k]
         /\ \A k \in Keys(p) : Json(p)[k] = (CHOOSE h \in harm : h.to = p /\ h.key = k).as
BY DEF Json

\* A harmed key is gone, or has the type it was given.
LEMMA HarmedKey ==
  ASSUME HarmOK, NEW h \in harm, h.key # "itself"
  PROVE  /\ h.as = "dropped" => h.key \in Dropped(h.to) /\ h.key \notin DOMAIN Json(h.to)
         /\ h.as # "dropped" => h.key \in DOMAIN Json(h.to) /\ Json(h.to)[h.key] = h.as
         /\ h.key \in Dropped(h.to) => h.as = "dropped"
PROOF
  <1>1. \A g \in harm : g.to = h.to /\ g.key = h.key => g = h
    BY DEF HarmOK
  <1>2. CASE h.as = "dropped"
    <2>1. h.key \in Dropped(h.to)
      BY <1>2 DEF Dropped
    <2>2. h.key \notin Keys(h.to)
      BY <1>1, <1>2 DEF Keys
    <2> QED BY <1>2, <2>1, <2>2, JsonDomain
  <1>3. CASE h.as # "dropped"
    <2>1. h.key \in Keys(h.to)
      BY <1>3 DEF Keys
    <2>2. (CHOOSE g \in harm : g.to = h.to /\ g.key = h.key) = h
      BY <1>1
    <2>3. h.key \notin Dropped(h.to)
      BY <1>1, <1>3 DEF Dropped
    <2>4. h.key \in DOMAIN Json(h.to)
      BY <2>1, JsonDomain
    <2>5. Json(h.to)[h.key] = (CHOOSE g \in harm : g.to = h.to /\ g.key = h.key).as
      BY <2>1, JsonDomain, Zenon
    <2>6. Json(h.to)[h.key] = h.as
      BY <2>2, <2>5, Zenon
    <2> QED BY <1>3, <2>3, <2>4, <2>6
  <1> QED BY <1>2, <1>3

\* What nothing happened to reads as it was written.
LEMMA UnharmedJson ==
  ASSUME harm = {}, NEW p
  PROVE  Json(p) = Emitted(p)
PROOF
  <1>1. Keys(p) = {} /\ Dropped(p) = {}
    BY DEF Keys, Dropped
  <1>2. Json(p) = [k \in DOMAIN Emitted(p) |-> Emitted(p)[k]]
    BY <1>1 DEF Json
  <1> QED BY <1>2, TablesAreFunctions

LEMMA UnharmedCondition ==
  ASSUME harm = {}, NEW a
  PROVE  Condition(a) = IF a \in written THEN "whole" ELSE "gone"
BY ConditionWithout

-----------------------------------------------------------------------------
(* What each check has to say of what it looked at. *)

AllPass(results) == \A r \in results : r.passed
Judged(h) == IF h.key = "itself" THEN h.as \in Foreign ELSE ~Lies(h)

\* What is harmed is an artefact or an object of one.
LEMMA HarmedIsHeld ==
  ASSUME HarmOK, written \subseteq Writes, NEW h \in harm
  PROVE  /\ h.key = "itself" => h.to \in Artefacts /\ Holder(h.to) = h.to
         /\ h.key # "itself" => h.to \in JsonObjects
PROOF
  <1>1. Harmful(h)
    BY DEF HarmOK
  <1>2. CASE h.key = "itself"
    <2>1. h.to \in Artefacts
      BY <1>1, <1>2, WritesAreArtefacts DEF Harmful
    <2> QED BY <1>2, <2>1, HolderOfArtefact
  <1>3. CASE h.key # "itself"
    BY <1>1, <1>3 DEF Harmful
  <1> QED BY <1>2, <1>3

\* A key that was asked for and answered is no lie.
LEMMA AskedPass ==
  ASSUME NEW id, NEW p, NEW wanted, AllPass(Asked(id, p, wanted))
  PROVE  \A k \in DOMAIN wanted : Has(p, k, wanted[k])
PROOF
  <1> SUFFICES ASSUME NEW k \in DOMAIN wanted PROVE Has(p, k, wanted[k])
    OBVIOUS
  <1>1. Result(id, Has(p, k, wanted[k])) \in Asked(id, p, wanted)
    BY DEF Asked
  <1>2. Result(id, Has(p, k, wanted[k])).passed
    BY <1>1 DEF AllPass
  <1> QED BY <1>2 DEF Result

LEMMA WantedIs ==
  /\ Wanted(<<"config">>) = BackupConfigRequired
  /\ Wanted(<<"index">>) = BackupfoldersRequired
  /\ Wanted(<<"plan">>) = BackupPlanRequired
  /\ Wanted(<<"plan", "folders">>) = FolderPlanRequired
  /\ DOMAIN Wanted(Schedule) = {} /\ DOMAIN Wanted(Rate) = {} /\ DOMAIN Wanted(Mail) = {}
  /\ \A f : Wanted(<<"folder", f>>) = BackupfolderRequired
  /\ \A f : Wanted(<<"record", f>>) = Typed(BackuprecordRequired, "any")
  /\ \A f : DOMAIN Wanted(<<"record", f, "node">>) = {}
PROOF
  <1>1. /\ Wanted(<<"config">>) = BackupConfigRequired
        /\ Wanted(<<"index">>) = BackupfoldersRequired
        /\ Wanted(<<"plan">>) = BackupPlanRequired
        /\ Wanted(<<"plan", "folders">>) = FolderPlanRequired
    BY DEF Wanted
  <1>2. Wanted(Schedule) = <<>> /\ Wanted(Rate) = <<>> /\ Wanted(Mail) = <<>>
    BY DEF Wanted, Schedule, Rate, Mail
  <1>3. ASSUME NEW f PROVE Wanted(<<"folder", f>>) = BackupfolderRequired
    BY DEF Wanted
  <1>4. ASSUME NEW f PROVE Wanted(<<"record", f>>) = Typed(BackuprecordRequired, "any")
    <2>1. Len(<<"record", f>>) = 2 /\ <<"record", f>>[1] = "record"
      OBVIOUS
    <2> QED BY <2>1 DEF Wanted
  <1>5. ASSUME NEW f PROVE Wanted(<<"record", f, "node">>) = <<>>
    <2>1. Len(<<"record", f, "node">>) = 3 /\ <<"record", f, "node">>[1] = "record"
      OBVIOUS
    <2> QED BY <2>1 DEF Wanted
  <1>6. DOMAIN <<>> = {}
    OBVIOUS
  <1> QED BY <1>1, <1>2, <1>3, <1>4, <1>5, <1>6

LEMMA NoLieOfConfig ==
  ASSUME HarmOK, NEW h \in harm, h.key # "itself", h.to = <<"config">>,
         AllPass(Asked("L3", <<"config">>, BackupConfigRequired)),
         Known(<<"config">>, "chunkerVersion"), Known(<<"config">>, "blobIdentifierType")
  PROVE  ~Lies(h)
PROOF
  <1>1. \A k \in DOMAIN BackupConfigRequired : Has(h.to, k, BackupConfigRequired[k])
    BY AskedPass
  <1>2. ~(h.as = "odd" /\ h.key \in {"chunkerVersion", "blobIdentifierType"})
    BY HarmedKey DEF Known
  <1>3. h.to[1] # "record" /\ h.to \notin {Schedule, Rate, Mail}
    BY DEF Schedule, Rate, Mail
  <1> HIDE DEF Has
  <1> QED BY <1>1, <1>2, <1>3, WantedIs DEF Lies

LEMMA NoLieOfIndex ==
  ASSUME NEW h, h.to = <<"index">>, AllPass(Asked("L5", <<"index">>, BackupfoldersRequired))
  PROVE  ~Lies(h)
PROOF
  <1>1. \A k \in DOMAIN BackupfoldersRequired : Has(h.to, k, BackupfoldersRequired[k])
    BY AskedPass
  <1>2. h.to # <<"config">> /\ h.to[1] # "record" /\ h.to \notin {Schedule, Rate, Mail}
    BY DEF Schedule, Rate, Mail
  <1> QED BY <1>1, <1>2, WantedIs DEF Lies

LEMMA NoLieOfFolder ==
  ASSUME NEW h, NEW f, h.to = <<"folder", f>>,
         AllPass(Asked("L7", <<"folder", f>>, BackupfolderRequired))
  PROVE  ~Lies(h)
PROOF
  <1>1. \A k \in DOMAIN BackupfolderRequired : Has(h.to, k, BackupfolderRequired[k])
    BY AskedPass
  <1>2. h.to # <<"config">> /\ h.to[1] # "record" /\ h.to \notin {Schedule, Rate, Mail}
    BY DEF Schedule, Rate, Mail
  <1>3. Wanted(h.to) = BackupfolderRequired
    BY WantedIs
  <1> QED BY <1>1, <1>2, <1>3 DEF Lies

\* The plan: every part of it is a dict, so every part has its shape.
LEMMA PlanPartsAreAsked ==
  ASSUME AllPass(PlanResults)
  PROVE  /\ \A k \in DOMAIN BackupPlanRequired : Has(<<"plan">>, k, BackupPlanRequired[k])
         /\ Planned => \A k \in DOMAIN FolderPlanRequired :
                         Has(<<"plan", "folders">>, k, FolderPlanRequired[k])
         /\ ShapeFits(Schedule, "type", ScheduleShapes)
         /\ ShapeFits(Rate, "scheduleType", TransferRateShapes)
         /\ DOMAIN Json(Mail) \in EmailReportShapes
PROOF
  <1> HIDE DEF Asked, ShapeFits, IsDict
  <1>1. \A k \in DOMAIN BackupPlanRequired : Has(<<"plan">>, k, BackupPlanRequired[k])
    <2>1. AllPass(Asked("L4", <<"plan">>, BackupPlanRequired))
      BY DEF PlanResults, AllPass
    <2> QED BY <2>1, AskedPass
  <1>2. \A k \in {"backupFolderPlansByUUID", "scheduleJSON", "transferRateJSON", "emailReportJSON"} : IsDict(k)
    BY <1>1, PlanTable DEF IsDict
  <1>3. ASSUME Planned
        PROVE  \A k \in DOMAIN FolderPlanRequired : Has(<<"plan", "folders">>, k, FolderPlanRequired[k])
    <2>1. AllPass(Asked("L4", <<"plan", "folders">>, FolderPlanRequired))
      BY <1>2, <1>3 DEF PlanResults, AllPass, When
    <2> QED BY <2>1, AskedPass
  <1>4. Result("L4", ShapeFits(Schedule, "type", ScheduleShapes)) \in PlanResults
    BY <1>2 DEF PlanResults, When
  <1>5. Result("L4", ShapeFits(Rate, "scheduleType", TransferRateShapes)) \in PlanResults
    BY <1>2 DEF PlanResults, When
  <1>6. Result("L4", DOMAIN Json(Mail) \in EmailReportShapes) \in PlanResults
    BY <1>2 DEF PlanResults, When
  <1>7. /\ ShapeFits(Schedule, "type", ScheduleShapes)
        /\ ShapeFits(Rate, "scheduleType", TransferRateShapes)
        /\ DOMAIN Json(Mail) \in EmailReportShapes
    BY <1>4, <1>5, <1>6 DEF AllPass, Result
  <1> QED BY <1>1, <1>3, <1>7

\* A shape that is told by a tag and fits has lost nothing and gained nothing.
LEMMA ShapeIsWhole ==
  ASSUME HarmOK, NEW h \in harm, h.key # "itself", NEW tag, NEW shapes, "itself" # tag,
         ShapeFits(h.to, tag, shapes),
         tag \in DOMAIN Emitted(h.to), {"str", "list", "odd"} \cap DOMAIN shapes = {},
         DOMAIN Emitted(h.to) = shapes[Emitted(h.to)[tag]],
         \A x \in DOMAIN shapes : "unheardOf" \notin shapes[x]
  PROVE  h.key # "unheardOf" /\ h.key \notin Dropped(h.to)
PROOF
  <1> DEFINE p == h.to
  <1>1. Harmful(h) /\ \A g \in harm : Harmful(g)
    BY DEF HarmOK
  <1>2. /\ tag \in DOMAIN Json(p) /\ Json(p)[tag] \in DOMAIN shapes
        /\ DOMAIN Json(p) = shapes[Json(p)[tag]]
    BY DEF ShapeFits
  <1>3. h.key # "unheardOf"
    <2> SUFFICES ASSUME h.key = "unheardOf" PROVE FALSE
      OBVIOUS
    <2>1. h.as = "str"
      BY <1>1 DEF Harmful
    <2>2. h.key \in DOMAIN Json(p)
      BY <2>1, HarmedKey
    <2> QED BY <1>2, <2>2
  <1>4. tag \notin Keys(p)
    <2> SUFFICES ASSUME NEW g \in harm, g.to = p, g.key # "itself", g.as # "dropped", g.key = tag
                 PROVE  FALSE
      BY DEF Keys
    <2>1. Json(p)[tag] = g.as
      BY HarmedKey
    <2>2. g.as \in {"str", "list", "odd"}
      BY <1>1 DEF Harmful
    <2> QED BY <1>2, <2>1, <2>2
  <1>5. DOMAIN Json(p) = DOMAIN Emitted(p)
    BY <1>2, <1>4, JsonDomain
  <1>6. h.key \notin Dropped(p)
    <2> SUFFICES ASSUME h.key \in Dropped(p) PROVE FALSE
      OBVIOUS
    <2>1. h.as = "dropped"
      BY HarmedKey
    <2>2. h.key \notin DOMAIN Json(p)
      BY <2>1, HarmedKey
    <2>3. h.key \in DOMAIN Emitted(p)
      BY <1>1, <2>1 DEF Harmful
    <2> QED BY <1>5, <2>2, <2>3
  <1> QED BY <1>3, <1>6

LEMMA NoLieOfPlan ==
  ASSUME HarmOK, setting.custom \in BOOLEAN, NEW h \in harm, h.key # "itself",
         h.to \in {<<"plan">>, <<"plan", "folders">>, Schedule, Rate, Mail}, Planned, AllPass(PlanResults)
  PROVE  ~Lies(h)
PROOF
  <1>1. h.to[1] # "record" /\ h.to # <<"config">>
    BY DEF Schedule, Rate, Mail
  <1>2. CASE h.to = <<"plan">>
    <2>1. \A k \in DOMAIN BackupPlanRequired : Has(h.to, k, BackupPlanRequired[k])
      BY <1>2, PlanPartsAreAsked
    <2>2. h.to \notin {Schedule, Rate, Mail}
      BY <1>2 DEF Schedule, Rate, Mail
    <2>3. Wanted(h.to) = BackupPlanRequired
      BY <1>2, WantedIs
    <2> QED BY <1>1, <2>1, <2>2, <2>3 DEF Lies
  <1>3. CASE h.to = <<"plan", "folders">>
    <2>1. \A k \in DOMAIN FolderPlanRequired : Has(h.to, k, FolderPlanRequired[k])
      BY <1>3, PlanPartsAreAsked
    <2>2. h.to \notin {Schedule, Rate, Mail}
      BY <1>3 DEF Schedule, Rate, Mail
    <2>3. Wanted(h.to) = FolderPlanRequired
      BY <1>3, WantedIs
    <2> QED BY <1>1, <2>1, <2>2, <2>3 DEF Lies
  <1>4. CASE h.to = Schedule
    <2>1. h.key # "unheardOf" /\ h.key \notin Dropped(h.to)
      <3>1. ShapeFits(h.to, "type", ScheduleShapes)
        BY <1>4, PlanPartsAreAsked
      <3>2. /\ "type" \in DOMAIN Emitted(h.to) /\ {"str", "list", "odd"} \cap DOMAIN ScheduleShapes = {}
            /\ DOMAIN Emitted(h.to) = ScheduleShapes[Emitted(h.to)["type"]]
            /\ \A x \in DOMAIN ScheduleShapes : "unheardOf" \notin ScheduleShapes[x]
        BY <1>4, EmittedIs, ScheduleTable
      <3> QED BY <3>1, <3>2, ShapeIsWhole
    <2>2. DOMAIN Wanted(h.to) = {} /\ h.to # Mail
      BY <1>4, WantedIs DEF Schedule, Mail
    <2> QED BY <1>1, <2>1, <2>2 DEF Lies
  <1>5. CASE h.to = Rate
    <2>1. h.key # "unheardOf" /\ h.key \notin Dropped(h.to)
      <3>1. ShapeFits(h.to, "scheduleType", TransferRateShapes)
        BY <1>5, PlanPartsAreAsked
      <3>2. /\ "scheduleType" \in DOMAIN Emitted(h.to) /\ {"str", "list", "odd"} \cap DOMAIN TransferRateShapes = {}
            /\ DOMAIN Emitted(h.to) = TransferRateShapes[Emitted(h.to)["scheduleType"]]
            /\ \A x \in DOMAIN TransferRateShapes : "unheardOf" \notin TransferRateShapes[x]
        BY <1>5, EmittedIs, RateTable
      <3> QED BY <3>1, <3>2, ShapeIsWhole
    <2>2. DOMAIN Wanted(h.to) = {} /\ h.to # Mail
      BY <1>5, WantedIs DEF Rate, Mail
    <2> QED BY <1>1, <2>1, <2>2 DEF Lies
  <1>6. CASE h.to = Mail
    <2> DEFINE short == DOMAIN EmailReportJson(FALSE)
               long == DOMAIN EmailReportJson(TRUE)
    <2>1. DOMAIN Json(Mail) \in {short, long} /\ short \subseteq long /\ "unheardOf" \notin long
      BY PlanPartsAreAsked, MailTable
    <2>2. Harmful(h)
      BY DEF HarmOK
    <2>3. h.key # "unheardOf"
      <3> SUFFICES ASSUME h.key = "unheardOf" PROVE FALSE
        OBVIOUS
      <3>1. h.as = "str"
        BY <2>2 DEF Harmful
      <3>2. h.key \in DOMAIN Json(Mail)
        BY <1>6, <3>1, HarmedKey
      <3> HIDE DEF short, long
      <3> QED BY <2>1, <3>2
    <2>4. h.key \in Dropped(Mail) => DOMAIN Json(Mail) = short
      <3> SUFFICES ASSUME h.key \in Dropped(Mail) PROVE DOMAIN Json(Mail) = short
        OBVIOUS
      <3>1. h.as = "dropped"
        BY <1>6, HarmedKey
      <3>2. h.key \notin DOMAIN Json(Mail)
        BY <1>6, <3>1, HarmedKey
      <3>3. h.key \in DOMAIN Emitted(Mail)
        BY <1>6, <2>2, <3>1 DEF Harmful
      <3>4. Emitted(Mail) = EmailReportJson(setting.custom)
        BY EmittedIs
      <3>5. h.key \in long
        BY <2>1, <3>3, <3>4
      <3> HIDE DEF short, long
      <3> QED BY <2>1, <3>2, <3>5
    <2>5. DOMAIN Wanted(h.to) = {} /\ h.to # Schedule /\ h.to # Rate
      BY <1>6, WantedIs DEF Schedule, Rate, Mail
    <2> QED BY <1>1, <1>6, <2>3, <2>4, <2>5 DEF Lies
  <1> QED BY <1>2, <1>3, <1>4, <1>5, <1>6

LEMMA NoLieOfRecord ==
  ASSUME HarmOK, NEW h \in harm, h.key # "itself", NEW f, h.to = <<"record", f>>,
         BackuprecordRequired \subseteq DOMAIN Json(h.to),
         "version" \in DOMAIN Json(h.to), Json(h.to)["version"] \in KnownVersions
  PROVE  ~Lies(h)
PROOF
  <1>1. h.to # <<"config">> /\ h.to \notin {Schedule, Rate, Mail}
    BY DEF Schedule, Rate, Mail
  <1>2. Wanted(h.to) = Typed(BackuprecordRequired, "any")
    BY WantedIs
  <1>3. \A k \in DOMAIN Wanted(h.to) : Has(h.to, k, Wanted(h.to)[k])
    BY <1>2 DEF Typed, Has, Fits
  <1>4. h.key # "version"
    <2> SUFFICES ASSUME h.key = "version" PROVE FALSE
      OBVIOUS
    <2>1. Harmful(h)
      BY DEF HarmOK
    <2>2. h.as \in {"dropped", "str", "list", "odd"}
      BY <2>1 DEF Harmful
    <2>3. h.as # "dropped" /\ Json(h.to)["version"] = h.as
      BY HarmedKey
    <2> QED BY <2>2, <2>3 DEF KnownVersions
  <1> QED BY <1>1, <1>3, <1>4 DEF Lies

LEMMA NoLieOfNode ==
  ASSUME HarmOK, NEW h \in harm, h.key # "itself", NEW f, h.to = <<"record", f, "node">>
  PROVE  ~Lies(h)
PROOF
  <1>1. h.to # <<"config">> /\ h.to \notin {Schedule, Rate, Mail}
    BY DEF Schedule, Rate, Mail
  <1>2. DOMAIN Wanted(h.to) = {}
    BY WantedIs
  <1>3. h.key # "version"
    <2>1. Harmful(h)
      BY DEF HarmOK
    <2> QED BY <2>1, EmittedIs, NodeTable DEF Harmful
  <1> QED BY <1>1, <1>2, <1>3 DEF Lies

-----------------------------------------------------------------------------
(* A report that passes vouches for what it looked at. *)

Vouched(seen) == \A h \in harm : Holder(h.to) \in seen => Judged(h)
Unaltered(read) == \A h \in harm : h.to \in read /\ h.key = "itself" => h.as \notin Foreign

Sound == report # "failing" => Vouched(looked) /\ Unaltered(retold)

\* What is there, and not broken, is vouched for when its keys are no lies.
LEMMA Vouch ==
  ASSUME HarmOK, written \subseteq Writes, NEW a \in Artefacts,
         Condition(a) \in {"whole"} \cup Foreign,
         \A h \in harm : h.key # "itself" /\ h.to \in JsonObjects /\ Holder(h.to) = a => ~Lies(h)
  PROVE  Vouched({a})
PROOF
  <1> SUFFICES ASSUME NEW h \in harm, Holder(h.to) = a PROVE Judged(h)
    BY DEF Vouched
  <1>1. CASE h.key = "itself"
    <2>1. h.to = a
      BY <1>1, HarmedIsHeld
    <2>2. Condition(a) = h.as /\ Condition(a) # "whole"
      BY <1>1, <2>1, ConditionOfHarmed, WholeIsUnharmed
    <2> QED BY <1>1, <2>2 DEF Judged
  <1>2. CASE h.key # "itself"
    BY <1>2, HarmedIsHeld DEF Judged
  <1> QED BY <1>1, <1>2

\* What holds no object has no keys to lie about.
LEMMA VouchPlain ==
  ASSUME HarmOK, written \subseteq Writes, NEW a \in Artefacts,
         Condition(a) \in {"whole"} \cup Foreign,
         a[1] \notin {"config", "index", "plan", "folder", "record"}
  PROVE  Vouched({a})
PROOF
  <1>1. \A h \in harm : ~(h.to \in JsonObjects /\ Holder(h.to) = a)
    BY ObjectsByHolder
  <1> QED BY <1>1, Vouch

LEMMA VouchAll ==
  ASSUME NEW as, \A a \in as : Vouched({a})
  PROVE  Vouched(as)
BY DEF Vouched

LEMMA ConditionWords ==
  ASSUME HarmOK, NEW a
  PROVE  /\ Condition(a) \in {"whole", "gone"} \cup Ailments(a)
         /\ Condition(a) = "whole" => a \in written
PROOF
  <1>1. CASE \E h \in harm : h.to = a /\ h.key = "itself"
    BY <1>1, ConditionOfHarmed
  <1>2. CASE \A h \in harm : ~(h.to = a /\ h.key = "itself")
    BY <1>2, ConditionWithout
  <1> QED BY <1>1, <1>2 DEF Condition

LEMMA GotIs ==
  ASSUME NEW a, NEW lost
  PROVE  /\ Got(a, lost) \in {"gone", Condition(a)}
         /\ Reads(a) \notin lost => Got(a, lost) = Condition(a)
BY DEF Got

LEMMA LeastOfTwo ==
  ASSUME NEW m \in Nat, NEW n \in Nat
  PROVE  Min({m, n}) = IF m <= n THEN m ELSE n
PROOF
  <1> DEFINE least == IF m <= n THEN m ELSE n
  <1>1. least \in {m, n} /\ \A y \in {m, n} : least =< y
    OBVIOUS
  <1>2. \A x \in {m, n} : (\A y \in {m, n} : x =< y) => x = least
    OBVIOUS
  <1> HIDE DEF least
  <1>3. (CHOOSE x \in {m, n} : \A y \in {m, n} : x =< y) = least
    BY <1>1, <1>2
  <1> QED BY <1>3 DEF Min, least

KeysetResults(wrong) == {Result(KeysetChecks[i], i # wrong) : i \in 1..Min({wrong, 5})}

\* A keyset that passes is whole.
LEMMA KeysetVerdict ==
  ASSUME HarmOK, written \subseteq Writes, NEW lost, NEW wrong,
         wrong = KeysetFault[Got(<<"keyset">>, lost)], AllPass(KeysetResults(wrong))
  PROVE  Vouched({<<"keyset">>})
PROOF
  <1> DEFINE c == Got(<<"keyset">>, lost)
  <1>1. c \in {"whole", "gone", "alien", "short", "rotten"}
    BY GotIs, ConditionWords, AilmentWords
  <1>2. c = "whole"
    <2> SUFFICES ASSUME c # "whole" PROVE FALSE
      OBVIOUS
    <2>1. wrong \in 1..4
      BY <1>1 DEF KeysetFault
    <2>2. Min({wrong, 5}) = wrong
      BY <2>1, LeastOfTwo
    <2>3. Result(KeysetChecks[wrong], wrong # wrong) \in KeysetResults(wrong)
      BY <2>1, <2>2 DEF KeysetResults
    <2>4. ~Result(KeysetChecks[wrong], wrong # wrong).passed
      BY DEF Result
    <2> HIDE DEF c
    <2> QED BY <2>3, <2>4 DEF AllPass
  <1>3. Condition(<<"keyset">>) = "whole"
    BY <1>2, GotIs
  <1>4. <<"keyset">> \in Artefacts
    BY DEF Artefacts
  <1> QED BY <1>3, <1>4, VouchPlain

LEMMA ConfigVerdict ==
  ASSUME HarmOK, written \subseteq Writes, NEW lost, Got(<<"config">>, lost) = "whole",
         AllPass({Result("L3", TRUE), Result("SV1", Known(<<"config">>, "chunkerVersion")),
                  Result("SV2", Known(<<"config">>, "blobIdentifierType"))}
                 \cup Asked("L3", <<"config">>, BackupConfigRequired))
  PROVE  Vouched({<<"config">>})
PROOF
  <1>1. Condition(<<"config">>) = "whole" /\ <<"config">> \in Artefacts
    BY GotIs DEF Artefacts
  <1>2. /\ AllPass(Asked("L3", <<"config">>, BackupConfigRequired))
        /\ Known(<<"config">>, "chunkerVersion") /\ Known(<<"config">>, "blobIdentifierType")
    <2>1. AllPass(Asked("L3", <<"config">>, BackupConfigRequired))
      BY DEF AllPass
    <2>2. /\ Result("SV1", Known(<<"config">>, "chunkerVersion")).passed
          /\ Result("SV2", Known(<<"config">>, "blobIdentifierType")).passed
      <3> HIDE DEF Known, Result
      <3> QED BY DEF AllPass
    <2> HIDE DEF Known
    <2> QED BY <2>1, <2>2 DEF Result
  <1>3. ASSUME NEW h \in harm, h.key # "itself", h.to \in JsonObjects, Holder(h.to) = <<"config">>
        PROVE  ~Lies(h)
    <2>1. h.to = <<"config">>
      BY <1>3, ObjectsByHolder
    <2> QED BY <1>2, <1>3, <2>1, NoLieOfConfig
  <1> QED BY <1>1, <1>3, Vouch

LEMMA PlanVerdict ==
  ASSUME HarmOK, written \subseteq Writes, setting.custom \in BOOLEAN, NEW lost,
         Sidecar(<<"plan">>, lost) = "whole", Finished => Planned, AllPass(PlanResults)
  PROVE  Vouched({<<"plan">>})
PROOF
  <1>1. Condition(<<"plan">>) = "whole" /\ <<"plan">> \in Artefacts
    BY GotIs DEF Artefacts, Sidecar
  <1>2. ASSUME NEW h \in harm, h.key # "itself", h.to \in JsonObjects, Holder(h.to) = <<"plan">>
        PROVE  ~Lies(h)
    <2>1. h.to \in {<<"plan">>, <<"plan", "folders">>, Schedule, Rate, Mail}
      BY <1>2, ObjectsByHolder
    <2>2. Planned
      <3>1. Harmful(h)
        BY DEF HarmOK
      <3> QED BY <1>2, <3>1 DEF Harmful
    <2> QED BY <1>2, <2>1, <2>2, NoLieOfPlan
  <1> QED BY <1>1, <1>2, Vouch

LEMMA IndexVerdict ==
  ASSUME HarmOK, written \subseteq Writes, NEW lost, Got(<<"index">>, lost) = "whole",
         AllPass({Result("L5", TRUE)} \cup Asked("L5", <<"index">>, BackupfoldersRequired))
  PROVE  Vouched({<<"index">>})
PROOF
  <1>1. Condition(<<"index">>) = "whole" /\ <<"index">> \in Artefacts
    BY GotIs DEF Artefacts
  <1>2. AllPass(Asked("L5", <<"index">>, BackupfoldersRequired))
    BY DEF AllPass
  <1>3. ASSUME NEW h \in harm, h.key # "itself", h.to \in JsonObjects, Holder(h.to) = <<"index">>
        PROVE  ~Lies(h)
    <2>1. h.to = <<"index">>
      BY <1>3, ObjectsByHolder
    <2> QED BY <1>2, <2>1, NoLieOfIndex
  <1> QED BY <1>1, <1>3, Vouch

LEMMA FolderVerdict ==
  ASSUME HarmOK, written \subseteq Writes, NEW lost, NEW f \in Folders, AllPass(FolderResults(f, lost))
  PROVE  Vouched({<<"folder", f>>})
PROOF
  <1>1. Sidecar(<<"folder", f>>, lost) = "whole"
    BY DEF FolderResults, AllPass, Result
  <1>2. Condition(<<"folder", f>>) = "whole" /\ <<"folder", f>> \in Artefacts
    BY <1>1, GotIs DEF Artefacts, Sidecar
  <1>3. AllPass(Asked("L7", <<"folder", f>>, BackupfolderRequired))
    BY <1>1 DEF AllPass, FolderResults
  <1>4. ASSUME NEW h \in harm, h.key # "itself", h.to \in JsonObjects, Holder(h.to) = <<"folder", f>>
        PROVE  ~Lies(h)
    <2>1. h.to = <<"folder", f>>
      BY <1>4, ObjectsByHolder
    <2> QED BY <1>3, <2>1, NoLieOfFolder
  <1> QED BY <1>2, <1>4, Vouch

LEMMA RecordVerdict ==
  ASSUME HarmOK, written \subseteq Writes, NEW lost, NEW f \in Folders,
         AllPass(RecordResults(<<"record", f>>, lost))
  PROVE  Vouched({<<"record", f>>})
PROOF
  <1> DEFINE a == <<"record", f>>
  <1>1. Got(a, lost) \notin {"misnamed", "gone", "alien", "rotten"}
    BY DEF RecordResults, AllPass, Result
  <1>2. Got(a, lost) \in {"whole", "gone", "rotten", "misnamed", "alien"} \cup Foreign
    <2>1. a[1] = "record"
      OBVIOUS
    <2> QED BY <2>1, GotIs, ConditionWords, AilmentWords DEF Unreadable
  <1>3. Condition(a) \in {"whole"} \cup Foreign /\ a \in Artefacts
    BY <1>1, <1>2, GotIs DEF Artefacts
  <1>4. /\ \A k \in BackuprecordRequired : k \in DOMAIN Json(a)
        /\ "version" \in DOMAIN Json(a) /\ Json(a)["version"] \in KnownVersions
    <2>1. Result("SV3", "version" \in DOMAIN Json(a) /\ Json(a)["version"] \in KnownVersions)
            \in RecordResults(a, lost)
      BY <1>1 DEF RecordResults
    <2>2. {Result("B2", FALSE) : k \in BackuprecordRequired \ DOMAIN Json(a)} \subseteq RecordResults(a, lost)
      BY <1>1 DEF RecordResults
    <2>3. "version" \in DOMAIN Json(a) /\ Json(a)["version"] \in KnownVersions
      BY <2>1 DEF AllPass, Result
    <2>4. ~Result("B2", FALSE).passed
      BY DEF Result
    <2> HIDE DEF a
    <2>5. ASSUME NEW k \in BackuprecordRequired \ DOMAIN Json(a) PROVE FALSE
      <3>1. Result("B2", FALSE) \in RecordResults(a, lost)
        BY <2>2, <2>5
      <3>2. Result("B2", FALSE).passed
        BY <3>1 DEF AllPass, a
      <3> QED BY <2>4, <3>2
    <2> QED BY <2>3, <2>5
  <1>5. ASSUME NEW h \in harm, h.key # "itself", h.to \in JsonObjects, Holder(h.to) = a
        PROVE  ~Lies(h)
    <2>1. h.to \in {a, <<"record", f, "node">>}
      BY <1>5, ObjectsByHolder
    <2> QED BY <1>4, <1>5, <2>1, NoLieOfRecord, NoLieOfNode
  <1> QED BY <1>3, <1>5, Vouch

LEMMA StoresAreArtefacts ==
  ASSUME NEW kind \in {"object", "pack"}, NEW a \in Stores(kind)
  PROVE  a \in Artefacts /\ a[1] = kind
BY DEF Stores, Artefacts

\* Objects: names all judged, contents of the sample.
LEMMA ObjectsVerdict ==
  ASSUME HarmOK, written \subseteq Writes, NEW lost, NEW listed \in SUBSET Stores("object"),
         NEW sample \in SUBSET (listed \ (Misplaced(listed) \cup Misnamed(listed))),
         listed = {} \/ AllPass({Result("S1", Misplaced(listed) = {}), Result("ID1", Misnamed(listed) = {}),
                                 Result("A1", BadObjects(sample, lost) = {}),
                                 Result("ID2", \A a \in sample : Got(a, lost) # "misfiled")})
  PROVE  Vouched(sample \cup Misplaced(listed) \cup Misnamed(listed))
PROOF
  <1>1. CASE listed = {}
    <2>1. sample \cup Misplaced(listed) \cup Misnamed(listed) = {}
      BY <1>1 DEF Misplaced, Misnamed
    <2> QED BY <2>1 DEF Vouched
  <1>2. CASE listed # {}
    <2>1. /\ Misplaced(listed) = {} /\ Misnamed(listed) = {} /\ BadObjects(sample, lost) = {}
          /\ \A a \in sample : Got(a, lost) # "misfiled"
      <3> DEFINE s1 == Misplaced(listed) = {}
                 s2 == Misnamed(listed) = {}
                 s3 == BadObjects(sample, lost) = {}
                 s4 == \A a \in sample : Got(a, lost) # "misfiled"
      <3>1. AllPass({Result("S1", s1), Result("ID1", s2), Result("A1", s3), Result("ID2", s4)})
        BY <1>2
      <3> HIDE DEF s1, s2, s3, s4
      <3>2. s1 /\ s2 /\ s3 /\ s4
        BY <3>1 DEF AllPass, Result
      <3> QED BY <3>2 DEF s1, s2, s3, s4
    <2>2. ASSUME NEW a \in sample PROVE Vouched({a})
      <3>1. a \in Stores("object") /\ a \in listed
        OBVIOUS
      <3>2. a \in Artefacts /\ a[1] = "object"
        BY <3>1, StoresAreArtefacts
      <3>3. Got(a, lost) \notin {"gone", "alien", "rotten", "misfiled"}
        BY <2>1 DEF BadObjects
      <3>4. Condition(a) \notin {"misplaced", "misnamed"}
        BY <3>1, <2>1 DEF Misplaced, Misnamed
      <3>5. Condition(a) \in {"whole"} \cup Foreign
        BY <3>2, <3>3, <3>4, GotIs, ConditionWords, AilmentWords DEF Foreign, Unreadable
      <3> QED BY <3>2, <3>5, VouchPlain
    <2> QED BY <2>1, <2>2, VouchAll
  <1> QED BY <1>1, <1>2

LEMMA PacksVerdict ==
  ASSUME HarmOK, written \subseteq Writes, NEW lost, NEW listed \in SUBSET Stores("pack"),
         NEW sample \in SUBSET (listed \ Misnamed(listed)),
         listed \ Misnamed(listed) = {} \/
           AllPass({Result("P1", Misnamed(listed) = {}),
                    Result("P2", \A a \in sample : Got(a, lost) = "whole")})
  PROVE  Vouched(sample \cup (IF listed \ Misnamed(listed) = {} THEN {} ELSE Misnamed(listed)))
PROOF
  <1> DEFINE seen == sample \cup (IF listed \ Misnamed(listed) = {} THEN {} ELSE Misnamed(listed))
  <1>1. CASE listed \ Misnamed(listed) = {}
    <2>1. seen = {}
      BY <1>1
    <2> QED BY <2>1 DEF Vouched
  <1>2. CASE listed \ Misnamed(listed) # {}
    <2>1. Misnamed(listed) = {} /\ \A a \in sample : Got(a, lost) = "whole"
      <3> DEFINE s1 == Misnamed(listed) = {}
                 s2 == \A a \in sample : Got(a, lost) = "whole"
      <3>1. AllPass({Result("P1", s1), Result("P2", s2)})
        BY <1>2
      <3> HIDE DEF s1, s2
      <3>2. s1 /\ s2
        BY <3>1 DEF AllPass, Result
      <3> QED BY <3>2 DEF s1, s2
    <2>2. ASSUME NEW a \in sample PROVE Vouched({a})
      <3>1. a \in Stores("pack")
        OBVIOUS
      <3>2. a \in Artefacts /\ a[1] = "pack"
        BY <3>1, StoresAreArtefacts
      <3>3. Condition(a) = "whole"
        BY <2>1, GotIs
      <3> QED BY <3>2, <3>3, VouchPlain
    <2>3. seen = sample
      BY <2>1
    <2> HIDE DEF seen
    <2>4. Vouched(seen)
      BY <2>2, <2>3, VouchAll
    <2> QED BY <2>4 DEF seen
  <1> QED BY <1>1, <1>2

\* What was serialized again and came out the same is of this writer.
LEMMA RoundTripVerdict ==
  ASSUME HarmOK, NEW lost, NEW read,
         \A a \in read : Got(a, lost) # "gone" /\ RoundTrips(Got(a, lost))
  PROVE  Unaltered(read)
PROOF
  <1> SUFFICES ASSUME NEW h \in harm, h.to \in read, h.key = "itself" PROVE h.as \notin Foreign
    BY DEF Unaltered
  <1>1. Got(h.to, lost) = Condition(h.to)
    BY GotIs
  <1>2. Condition(h.to) = h.as
    BY ConditionOfHarmed
  <1> QED BY <1>1, <1>2 DEF RoundTrips

-----------------------------------------------------------------------------
(* The steps. *)

\* While nothing is written and nothing harmed, what is true of a harm stays so.
LEMMA DestStays ==
  ASSUME UNCHANGED dest
  PROVE  /\ \A seen : Vouched(seen)' = Vouched(seen)
         /\ \A read : Unaltered(read)' = Unaltered(read)
         /\ HarmOK' = HarmOK
PROOF
  <1>1. setting' = setting /\ written' = written /\ harm' = harm
    BY DEF dest
  <1>2. ASSUME NEW p PROVE Emitted(p)' = Emitted(p)
    BY <1>1 DEF Emitted
  <1>3. ASSUME NEW p PROVE Json(p)' = Json(p) /\ Dropped(p)' = Dropped(p)
    BY <1>1, <1>2 DEF Json, Keys, Dropped
  <1>4. ASSUME NEW h PROVE Lies(h)' = Lies(h)
    BY <1>3 DEF Lies, Has, Wanted
  <1>5. ASSUME NEW h PROVE Judged(h)' = Judged(h)
    BY <1>4 DEF Judged
  <1>6. Finished' = Finished
    BY <1>1 DEF Finished, Writes, Turn, InitPlanWrites, AddFolderWrites, Stored
  <1>7. ASSUME NEW h PROVE Harmful(h)' = Harmful(h)
    BY <1>1, <1>2, <1>6 DEF Harmful
  <1>8. HarmOK' = HarmOK
    BY <1>1, <1>7 DEF HarmOK
  <1>9. ASSUME NEW seen PROVE Vouched(seen)' = Vouched(seen)
    BY <1>1, <1>5 DEF Vouched
  <1>10. ASSUME NEW read PROVE Unaltered(read)' = Unaltered(read)
    BY <1>1 DEF Unaltered
  <1> QED BY <1>8, <1>9, <1>10

LEMMA TellSound ==
  ASSUME Sound, NEW results, NEW seen, NEW next, NEW read, Tell(results, seen, next),
         retold' = retold \cup Harmed(read),
         AllPass(results) => Vouched(seen) /\ Unaltered(read)
  PROVE  Sound'
PROOF
  <1> SUFFICES ASSUME report' # "failing"
               PROVE  Vouched(looked') /\ Unaltered(retold')
    <2>1. UNCHANGED dest
      BY DEF Tell
    <2>2. \A s : Vouched(s)' = Vouched(s)
      BY <2>1, DestStays
    <2>3. \A s : Unaltered(s)' = Unaltered(s)
      BY <2>1, DestStays
    <2>4. harm' = harm
      BY <2>1 DEF dest
    <2> QED BY <2>1, <2>2, <2>3 DEF Sound
  <1>1. report # "failing" /\ AllPass(results)
    BY DEF Tell, AllPass
  <1>2. Vouched(looked) /\ Unaltered(retold) /\ Vouched(seen) /\ Unaltered(read)
    BY <1>1 DEF Sound
  <1>3. Vouched(looked')
    <2>1. looked' = looked \cup Harmed(seen)
      BY DEF Tell
    <2> QED BY <1>2, <2>1 DEF Vouched, Harmed
  <1>4. Unaltered(retold')
    BY <1>2 DEF Unaltered, Harmed
  <1> QED BY <1>3, <1>4

-----------------------------------------------------------------------------
(* Calls that fail. *)

\* What a function makes of a finite set is finite.
LEMMA FiniteImage ==
  ASSUME NEW S, IsFiniteSet(S), NEW g
  PROVE  IsFiniteSet({g[x] : x \in S})
PROOF
  <1> DEFINE T == {g[x] : x \in S}
             m == [x \in S |-> g[x]]
  <1>1. m \in Surjection(S, T)
    BY DEF Surjection
  <1> HIDE DEF T, m
  <1>2. IsFiniteSet(T)
    BY <1>1, FS_Surjection
  <1> QED BY <1>2 DEF T

LEMMA FiniteElements ==
  ASSUME NEW S, NEW s \in Seq(S)
  PROVE  IsFiniteSet(ToSet(s))
PROOF
  <1>1. DOMAIN s = 1..Len(s) /\ Len(s) \in Nat
    OBVIOUS
  <1>2. IsFiniteSet(DOMAIN s)
    BY <1>1, FS_Interval
  <1> QED BY <1>2, FiniteImage DEF ToSet

LEMMA FiniteFolders == IsFiniteSet(Folders)
BY ComplianceAssumption, FiniteElements DEF Folders

LEMMA FiniteBlobs == IsFiniteSet(AllBlobs)
PROOF
  <1> DEFINE g == [f \in Folders |-> ToSet(Blobs[f])]
             S == {g[f] : f \in Folders}
  <1>1. \A f \in Folders : IsFiniteSet(g[f])
    BY ComplianceAssumption, FiniteElements
  <1>2. IsFiniteSet(S)
    BY FiniteFolders, FiniteImage
  <1>3. \A x \in S : IsFiniteSet(x)
    BY <1>1
  <1>4. AllBlobs = UNION S
    BY DEF AllBlobs
  <1> HIDE DEF S
  <1> QED BY <1>2, <1>3, <1>4, FS_UNION

\* Whatever is named by a kind and a folder or a blob.
LEMMA FiniteNames ==
  ASSUME NEW kind, NEW S, IsFiniteSet(S)
  PROVE  IsFiniteSet({<<kind, x>> : x \in S})
PROOF
  <1> DEFINE g == [x \in S |-> <<kind, x>>]
  <1>1. IsFiniteSet({g[x] : x \in S})
    BY FiniteImage
  <1>2. {g[x] : x \in S} = {<<kind, x>> : x \in S}
    OBVIOUS
  <1> QED BY <1>1, <1>2

Things ==
  {<<"root">>, <<"folders">>, <<"objects">>, <<"keyset">>, <<"config">>, <<"plan">>, <<"index">>}
  \cup {<<"folder", f>> : f \in Folders} \cup {<<"record", f>> : f \in Folders}
  \cup {<<"object", b>> : b \in AllBlobs} \cup {<<"pack", b>> : b \in AllBlobs}
Calls == {<<"list", x>> : x \in Things} \cup {<<"read", x>> : x \in Things} \cup {Probe}

LEMMA FiniteCalls == IsFiniteSet(Calls)
PROOF
  <1> DEFINE few == {<<"root">>, <<"folders">>, <<"objects">>, <<"keyset">>, <<"config">>, <<"plan">>, <<"index">>}
             s1 == {<<"folder", f>> : f \in Folders}
             s2 == {<<"record", f>> : f \in Folders}
             s3 == {<<"object", b>> : b \in AllBlobs}
             s4 == {<<"pack", b>> : b \in AllBlobs}
  <1>1. IsFiniteSet(few)
    <2> DEFINE g == <<<<"root">>, <<"folders">>, <<"objects">>, <<"keyset">>, <<"config">>, <<"plan">>, <<"index">>>>
               S == {<<"root">>, <<"folders">>, <<"objects">>, <<"keyset">>, <<"config">>, <<"plan">>, <<"index">>}
    <2>1. ToSet(g) = S
      BY DEF ToSet
    <2>2. g \in Seq(S)
      OBVIOUS
    <2> HIDE DEF g, S
    <2>3. IsFiniteSet(S)
      BY <2>1, <2>2, FiniteElements
    <2> QED BY <2>3 DEF S
  <1>2. IsFiniteSet(s1) /\ IsFiniteSet(s2) /\ IsFiniteSet(s3) /\ IsFiniteSet(s4)
    BY FiniteFolders, FiniteBlobs, FiniteNames
  <1>3. Things = ((few \cup s1) \cup s2) \cup (s3 \cup s4)
    BY DEF Things
  <1> HIDE DEF few, s1, s2, s3, s4
  <1>4. IsFiniteSet(Things)
    BY <1>1, <1>2, <1>3, FS_Union
  <1> DEFINE c1 == {<<"list", x>> : x \in Things}
             c2 == {<<"read", x>> : x \in Things}
  <1>5. IsFiniteSet(c1) /\ IsFiniteSet(c2) /\ IsFiniteSet({Probe})
    <2>1. IsFiniteSet(c1)
      BY <1>4, FiniteNames
    <2>2. IsFiniteSet(c2)
      BY <1>4, FiniteNames
    <2>3. IsFiniteSet({Probe})
      BY FS_Singleton, Zenon
    <2> QED BY <2>1, <2>2, <2>3
  <1>6. Calls = (c1 \cup c2) \cup {Probe}
    BY DEF Calls
  <1> HIDE DEF c1, c2
  <1> QED BY <1>5, <1>6, FS_Union

\* No more calls fail than there are faults left; where none was spent, none failed.
LEMMA FailingIs ==
  ASSUME NEW calls, calls \subseteq Calls, faults \in Nat, NEW lost \in Failing(calls)
  PROVE  /\ lost \subseteq calls
         /\ faults - Cardinality(lost) \in 0..faults
         /\ faults - Cardinality(lost) = faults => lost = {}
PROOF
  <1>1. PICK k \in 0..Min({faults, Cardinality(calls)}) : lost \in kSubset(k, calls)
    BY DEF Failing
  <1>2. lost \subseteq calls /\ Cardinality(lost) = k
    BY <1>1 DEF kSubset
  <1>3. IsFiniteSet(calls)
    BY FiniteCalls, FS_Subset
  <1>4. IsFiniteSet(lost)
    BY <1>2, <1>3, FS_Subset
  <1>5. Cardinality(calls) \in Nat /\ Cardinality(lost) \in Nat
    BY <1>3, <1>4, FS_CardinalityType
  <1>6. k <= faults
    BY <1>1, <1>5, LeastOfTwo
  <1>7. Cardinality(lost) = 0 => lost = {}
    BY <1>4, FS_EmptySet
  <1> QED BY <1>2, <1>5, <1>6, <1>7

-----------------------------------------------------------------------------
(* What a check does, whichever it is. *)

\* The plan of a destination that holds a folder was written before it.
InitPlanned == (\E f : <<"dir", f>> \in written) => Keyset \cup Configs \subseteq written

\* What this writer wrote, not half a folder, that nothing happened to, over
\* calls that were answered.
Sane ==
  /\ setting.encrypted /\ harm = {} /\ faults = MaxFaults
  /\ \E f \in Folders : <<"dir", f>> \in written
  /\ \A f \in Folders : <<"dir", f>> \in written => <<"folder", f>> \in written

Untroubled ==
  (Sane /\ at \notin {"writing", "resting", "refused"}) =>
    /\ at # "raised"
    /\ report = IF at = "root" THEN "empty" ELSE "passing"
    /\ at \notin {"root", "keyset"} => keyset

CheckKeeps ==
  /\ TypeOK' /\ Sound' /\ Untroubled' /\ UNCHANGED <<dest, match>>
  /\ at \notin {"writing", "resting", "done"} /\ at' \notin {"writing", "resting"}

LEMMA WritesStay ==
  ASSUME setting' = setting
  PROVE  Writes' = Writes /\ Keyset' = Keyset /\ \A f : FolderFiles(f)' = FolderFiles(f)
BY DEF Writes, Turn, InitPlanWrites, AddFolderWrites, Stored, Keyset, FolderFiles

LEMMA CheckStep ==
  ASSUME TypeOK, Sound, Untroubled, at \notin {"writing", "resting", "done", "refused", "raised"},
         NEW calls, calls \subseteq Calls, NEW lost \in Failing(calls), Lost(lost),
         NEW results, NEW seen, NEW read, NEW next \in Stations \ {"writing", "resting", "root"},
         Tell(results, seen, next), retold' = retold \cup Harmed(read),
         keyset' \in BOOLEAN, found' \subseteq Folders,
         AllPass(results) => Vouched(seen) /\ Unaltered(read),
         Sane /\ lost = {} /\ next # "refused" =>
           /\ AllPass(results) /\ (at = "root" => results # {})
           /\ next # "raised" /\ (next # "keyset" => keyset')
  PROVE  CheckKeeps
PROOF
  <1>1. UNCHANGED dest /\ match' = match /\ strict' = strict /\ at' = next
    BY DEF Tell
  <1>2. setting' = setting /\ written' = written /\ harm' = harm
    BY <1>1 DEF dest
  <1>3. faults \in 0..MaxFaults /\ MaxFaults \in Nat
    BY ComplianceAssumption DEF TypeOK
  <1>4. faults' \in 0..faults /\ (faults' = faults => lost = {})
    <2>1. faults \in Nat
      BY <1>3
    <2>2. /\ faults - Cardinality(lost) \in 0..faults
          /\ faults - Cardinality(lost) = faults => lost = {}
      BY <2>1, FailingIs
    <2> QED BY <2>2 DEF Lost
  <1>5. report' \in {"empty", "passing", "failing"}
    BY DEF Tell, TypeOK
  <1>6. TypeOK'
    BY <1>1, <1>2, <1>3, <1>4, <1>5, WritesStay DEF TypeOK
  <1>7. Sound'
    BY TellSound
  <1>8. Untroubled'
    <2> SUFFICES ASSUME Sane', at' # "refused"
                 PROVE  /\ at' # "raised" /\ report' = "passing"
                        /\ at' # "keyset" => keyset'
      BY <1>1 DEF Untroubled
    <2>1. Sane /\ lost = {}
      BY <1>2, <1>3, <1>4 DEF Sane
    <2>2. /\ report = IF at = "root" THEN "empty" ELSE "passing"
          /\ AllPass(results) /\ (at = "root" => results # {})
      BY <1>1, <2>1 DEF Untroubled
    <2>3. report' = "passing"
      BY <2>2 DEF Tell, AllPass
    <2> QED BY <1>1, <2>1, <2>3
  <1> QED BY <1>1, <1>6, <1>7, <1>8 DEF CheckKeeps

\* As above, for a check that serializes nothing.
LEMMA PlainCheckStep ==
  ASSUME TypeOK, Sound, Untroubled, at \notin {"writing", "resting", "done", "refused", "raised"},
         NEW calls, calls \subseteq Calls, NEW lost \in Failing(calls), Lost(lost),
         NEW results, NEW seen, NEW next \in Stations \ {"writing", "resting", "root"},
         Tell(results, seen, next), retold' = retold,
         keyset' \in BOOLEAN, found' \subseteq Folders,
         AllPass(results) => Vouched(seen),
         Sane /\ lost = {} /\ next # "refused" =>
           /\ AllPass(results) /\ (at = "root" => results # {})
           /\ next # "raised" /\ (next # "keyset" => keyset')
  PROVE  CheckKeeps
PROOF
  <1>1. retold' = retold \cup Harmed({}) /\ Unaltered({})
    BY DEF Harmed, Unaltered
  <1> QED BY <1>1, CheckStep

-----------------------------------------------------------------------------
(* Check by check. *)

LEMMA CallsMade ==
  /\ {Lists(<<"root">>), Lists(<<"folders">>), Lists(<<"objects">>), Probe} \subseteq Calls
  /\ \A x \in {"keyset", "config", "plan", "index"} : Reads(<<x>>) \in Calls
  /\ \A f \in Folders : Reads(<<"folder", f>>) \in Calls
  /\ \A f \in Folders : Lists(<<"record", f>>) \in Calls /\ Reads(<<"record", f>>) \in Calls
  /\ \A kind \in {"object", "pack"} : \A a \in Stores(kind) : Lists(a) \in Calls /\ Reads(a) \in Calls
PROOF
  <1>1. /\ {<<"root">>, <<"folders">>, <<"objects">>} \subseteq Things
        /\ \A x \in {"keyset", "config", "plan", "index"} : <<x>> \in Things
        /\ \A f \in Folders : <<"folder", f>> \in Things /\ <<"record", f>> \in Things
        /\ \A kind \in {"object", "pack"} : \A a \in Stores(kind) : a \in Things
    BY DEF Things, Stores
  <1>2. \A x \in Things : Lists(x) \in Calls /\ Reads(x) \in Calls
    BY DEF Calls, Lists, Reads
  <1>3. Probe \in Calls
    BY DEF Calls
  <1> QED BY <1>1, <1>2, <1>3

LEMMA LayoutRootKeeps ==
  ASSUME TypeOK, Sound, Untroubled, CheckLayoutRoot
  PROVE  CheckKeeps
PROOF
  <1>1. PICK lost \in Failing({Lists(<<"root">>)}), asked \in {"none", "ours", "other"} :
          LET ok == lost = {} /\ written # {} /\ asked # "other" IN
          /\ Tell({Result("L1", ok)}, {}, IF ok THEN "keyset" ELSE "refused")
          /\ Lost(lost)
    BY DEF CheckLayoutRoot
  <1> DEFINE ok == lost = {} /\ written # {} /\ asked # "other"
             next == IF ok THEN "keyset" ELSE "refused"
  <1>2. Tell({Result("L1", ok)}, {}, next) /\ Lost(lost)
    BY <1>1
  <1>3. {Lists(<<"root">>)} \subseteq Calls
    BY CallsMade
  <1>4. next \in Stations \ {"writing", "resting", "root"} /\ (next = "keyset" \/ next = "refused")
    BY DEF Stations
  <1>5. retold' = retold /\ keyset' = keyset /\ found' = found
    BY DEF CheckLayoutRoot
  <1>6. AllPass({Result("L1", ok)}) => Vouched({})
    BY DEF Vouched
  <1>7. next # "refused" => AllPass({Result("L1", ok)})
    <2>1. next # "refused" => ok = TRUE
      BY DEF next
    <2>2. AllPass({Result("L1", TRUE)})
      BY DEF AllPass, Result
    <2> HIDE DEF next, ok
    <2> QED BY <2>1, <2>2
  <1>8. /\ keyset' \in BOOLEAN /\ found' \subseteq Folders /\ {Result("L1", ok)} # {}
        /\ at \notin {"writing", "resting", "done", "refused", "raised"}
    BY <1>5 DEF TypeOK, CheckLayoutRoot
  <1> HIDE DEF next, ok
  <1> QED BY <1>1, <1>2, <1>3, <1>4, <1>5, <1>6, <1>7, <1>8, PlainCheckStep

LEMMA PassFacts ==
  /\ \A id : AllPass({Result(id, TRUE)}) /\ ~AllPass({Result(id, FALSE)}) /\ Result(id, FALSE).passed = FALSE
  /\ \A rs, ss : AllPass(rs \cup ss) <=> AllPass(rs) /\ AllPass(ss)
  /\ AllPass({})
BY DEF AllPass, Result

LEMMA AskedPasses ==
  ASSUME NEW id, NEW p, NEW wanted, \A k \in DOMAIN wanted : Has(p, k, wanted[k])
  PROVE  AllPass(Asked(id, p, wanted))
PROOF
  <1> SUFFICES ASSUME NEW r \in Asked(id, p, wanted) PROVE r.passed
    BY DEF AllPass
  <1>1. PICK k \in DOMAIN wanted : r = Result(id, Has(p, k, wanted[k]))
    BY DEF Asked
  <1>2. Has(p, k, wanted[k]) = TRUE
    BY DEF Has
  <1> QED BY <1>1, <1>2 DEF Result

\* What a sane destination reads as.
LEMMA SaneReads ==
  ASSUME Sane, InitPlanned, written \subseteq Writes
  PROVE  /\ \A x \in {"keyset", "config", "index", "plan"} : Got(<<x>>, {}) = "whole"
         /\ \A f \in Folders : <<"dir", f>> \in written => Got(<<"folder", f>>, {}) = "whole"
         /\ \A p : Json(p) = Emitted(p)
         /\ \A a \in written : Got(a, {}) = "whole"
PROOF
  <1>1. harm = {} /\ Keyset \cup Configs \subseteq written /\ <<"keyset">> \in Keyset
    BY DEF Sane, InitPlanned, Keyset
  <1>2. \A x \in {"keyset", "config", "index", "plan"} : <<x>> \in written
    BY <1>1 DEF Configs
  <1>3. \A a \in written : Got(a, {}) = "whole"
    BY <1>1, UnharmedCondition DEF Got
  <1>4. \A p : Json(p) = Emitted(p)
    BY <1>1, UnharmedJson
  <1> QED BY <1>2, <1>3, <1>4 DEF Sane

LEMMA KeysetKeeps ==
  ASSUME TypeOK, HarmOK, InitPlanned, Sound, Untroubled, CheckKeyset
  PROVE  CheckKeeps
PROOF
  <1> DEFINE wrongOf(lost) == KeysetFault[Got(<<"keyset">>, lost)]
  <1>1. PICK lost \in Failing({Reads(<<"keyset">>)}) :
          /\ Tell(KeysetResults(wrongOf(lost)), {<<"keyset">>}, "config")
          /\ keyset' = (wrongOf(lost) = 6)
          /\ Lost(lost)
    BY DEF CheckKeyset, KeysetResults
  <1> DEFINE wrong == wrongOf(lost)
  <1>2. {Reads(<<"keyset">>)} \subseteq Calls
    BY CallsMade
  <1>3. AllPass(KeysetResults(wrong)) => Vouched({<<"keyset">>})
    <2> SUFFICES ASSUME AllPass(KeysetResults(wrong)) PROVE Vouched({<<"keyset">>})
      OBVIOUS
    <2>1. wrong = KeysetFault[Got(<<"keyset">>, lost)]
      OBVIOUS
    <2>2. AllPass(KeysetResults(wrong))
      OBVIOUS
    <2>3. written \subseteq Writes
      BY DEF TypeOK
    <2> HIDE DEF wrong
    <2> QED BY <2>1, <2>2, <2>3, KeysetVerdict
  <1>4. Sane /\ lost = {} => AllPass(KeysetResults(wrong)) /\ keyset'
    <2> SUFFICES ASSUME Sane, lost = {} PROVE AllPass(KeysetResults(wrong)) /\ keyset'
      OBVIOUS
    <2>1. Got(<<"keyset">>, lost) = "whole"
      BY SaneReads DEF TypeOK
    <2>2. wrong = 6
      BY <2>1 DEF KeysetFault
    <2>3. Min({6, 5}) = 5
      BY LeastOfTwo
    <2>4. \A i \in 1..5 : Result(KeysetChecks[i], i # 6).passed
      <3>1. \A i \in 1..5 : (i # 6) = TRUE
        OBVIOUS
      <3>2. \A x : Result(x, TRUE).passed
        BY DEF Result
      <3> QED BY <3>1, <3>2, Zenon
    <2>5. AllPass(KeysetResults(6))
      BY <2>3, <2>4 DEF AllPass, KeysetResults
    <2> HIDE DEF wrong
    <2> QED BY <1>1, <2>2, <2>5 DEF wrong
  <1>5. /\ "config" \in Stations \ {"writing", "resting", "root"}
        /\ at = "keyset" /\ retold' = retold /\ found' = found
        /\ keyset' \in BOOLEAN /\ found' \subseteq Folders
    BY <1>1 DEF CheckKeyset, Stations, TypeOK
  <1> HIDE DEF wrongOf
  <1> QED BY <1>1, <1>2, <1>3, <1>4, <1>5, PlainCheckStep

LEMMA ConfigKeeps ==
  ASSUME TypeOK, HarmOK, InitPlanned, Sound, Untroubled, CheckBackupconfig
  PROVE  CheckKeeps
PROOF
  <1> DEFINE a == <<"config">>
             results == {Result("L3", TRUE), Result("SV1", Known(a, "chunkerVersion")),
                         Result("SV2", Known(a, "blobIdentifierType"))}
                        \cup Asked("L3", a, BackupConfigRequired)
             bad == {Result("L3", FALSE)}
  <1>1. PICK lost \in Failing({Reads(a)}) :
          /\ Lost(lost)
          /\ \/ Got(a, lost) \in Unreadable /\ Tell(bad, {a}, "plan")
             \/ Got(a, lost) = "list" /\ Tell(bad, {a}, "raised")
             \/ Got(a, lost) = "whole" /\ Tell(results, {a}, "plan")
    BY DEF CheckBackupconfig
  <1>2. {Reads(a)} \subseteq Calls
    BY CallsMade
  <1>3. /\ {"plan", "raised"} \subseteq Stations \ {"writing", "resting", "root"}
        /\ at = "config" /\ retold' = retold /\ keyset' = keyset
        /\ keyset' \in BOOLEAN /\ found' \subseteq Folders
    BY <1>1 DEF CheckBackupconfig, Stations, TypeOK
  <1>4. Sane /\ lost = {} => Got(a, lost) = "whole" /\ AllPass(results) /\ keyset'
    <2> SUFFICES ASSUME Sane, lost = {} PROVE Got(a, lost) = "whole" /\ AllPass(results) /\ keyset'
      OBVIOUS
    <2>1. Got(a, lost) = "whole" /\ Json(a) = BackupConfig
      BY SaneReads, EmittedIs DEF TypeOK
    <2>2. \A k \in DOMAIN BackupConfigRequired : Has(a, k, BackupConfigRequired[k])
      BY <2>1, ConfigTable DEF Has, Fits
    <2>3. Known(a, "chunkerVersion") = TRUE /\ Known(a, "blobIdentifierType") = TRUE
      BY <2>1, ConfigTable DEF Known
    <2>4. AllPass({Result("L3", TRUE), Result("SV1", TRUE), Result("SV2", TRUE)})
      BY DEF AllPass, Result
    <2>5. keyset'
      BY <1>3 DEF Untroubled
    <2> HIDE DEF a
    <2> QED BY <2>1, <2>2, <2>3, <2>4, <2>5, AskedPasses, PassFacts
  <1>5. Got(a, lost) = "whole" /\ AllPass(results) => Vouched({a})
    BY ConfigVerdict DEF TypeOK
  <1>6. ~AllPass(bad) /\ Got(a, lost) = "whole" => Got(a, lost) \notin Unreadable \cup {"list"}
    BY DEF Unreadable
  <1>7. ~AllPass(bad)
    BY PassFacts
  <1> HIDE DEF a, results, bad
  <1>8. CASE Got(a, lost) \in Unreadable /\ Tell(bad, {a}, "plan")
    BY <1>1, <1>2, <1>3, <1>4, <1>6, <1>7, <1>8, PlainCheckStep
  <1>9. CASE Got(a, lost) = "list" /\ Tell(bad, {a}, "raised")
    BY <1>1, <1>2, <1>3, <1>4, <1>6, <1>7, <1>9, PlainCheckStep
  <1>10. CASE Got(a, lost) = "whole" /\ Tell(results, {a}, "plan")
    BY <1>1, <1>2, <1>3, <1>4, <1>5, <1>10, PlainCheckStep
  <1> QED BY <1>1, <1>8, <1>9, <1>10

\* A verdict that holds passes.
LEMMA Passes ==
  ASSUME NEW id, NEW passed, passed = TRUE
  PROVE  AllPass({Result(id, passed)})
BY PassFacts, Zenon

LEMMA ShapeOfUnharmed ==
  ASSUME harm = {}, NEW p, NEW tag, NEW shapes, tag \in DOMAIN Emitted(p),
         Emitted(p)[tag] \in DOMAIN shapes, DOMAIN Emitted(p) = shapes[Emitted(p)[tag]],
         "list" \notin DOMAIN shapes
  PROVE  ShapeFits(p, tag, shapes) = TRUE /\ ~Unhashable(p, tag)
BY UnharmedJson, Zenon DEF ShapeFits, Unhashable

\* The plan as the builders make it has what is asked of it and of its parts.
LEMMA UnharmedPlan ==
  ASSUME harm = {}, setting.custom \in BOOLEAN
  PROVE  ~PlanRaises /\ AllPass(PlanResults)
PROOF
  <1>1. ShapeFits(Schedule, "type", ScheduleShapes) = TRUE /\ ~Unhashable(Schedule, "type")
    <2>1. /\ "type" \in DOMAIN Emitted(Schedule) /\ Emitted(Schedule)["type"] \in DOMAIN ScheduleShapes
          /\ DOMAIN Emitted(Schedule) = ScheduleShapes[Emitted(Schedule)["type"]]
          /\ "list" \notin DOMAIN ScheduleShapes
      BY EmittedIs, ScheduleTable
    <2> QED BY <2>1, ShapeOfUnharmed
  <1>2. /\ ShapeFits(Rate, "scheduleType", TransferRateShapes) = TRUE
        /\ ~Unhashable(Rate, "scheduleType")
    <2>1. /\ "scheduleType" \in DOMAIN Emitted(Rate)
          /\ Emitted(Rate)["scheduleType"] \in DOMAIN TransferRateShapes
          /\ DOMAIN Emitted(Rate) = TransferRateShapes[Emitted(Rate)["scheduleType"]]
          /\ "list" \notin DOMAIN TransferRateShapes
      BY EmittedIs, RateTable
    <2> QED BY <2>1, ShapeOfUnharmed
  <1>3. (DOMAIN Json(Mail) \in EmailReportShapes) = TRUE
    <2>1. Json(Mail) = EmailReportJson(setting.custom)
      BY EmittedIs, UnharmedJson
    <2>2. setting.custom = TRUE \/ setting.custom = FALSE
      OBVIOUS
    <2> QED BY <2>1, <2>2, MailTable, Zenon
  <1>4. AllPass(Asked("L4", <<"plan">>, BackupPlanRequired))
    <2>1. Json(<<"plan">>) = BackupPlan
      BY EmittedIs, UnharmedJson
    <2>2. \A k \in DOMAIN BackupPlanRequired : Has(<<"plan">>, k, BackupPlanRequired[k])
      BY <2>1, PlanTable, Zenon DEF Has, Fits
    <2> QED BY <2>2, AskedPasses
  <1>5. AllPass(Asked("L4", <<"plan", "folders">>, FolderPlanRequired))
    <2>1. Json(<<"plan", "folders">>) = FolderPlan
      BY EmittedIs, UnharmedJson
    <2>2. \A k \in DOMAIN FolderPlanRequired : Has(<<"plan", "folders">>, k, FolderPlanRequired[k])
      BY <2>1, FolderPlanTable, Zenon DEF Has, Fits
    <2> QED BY <2>2, AskedPasses
  <1>6. ~PlanRaises
    BY <1>1, <1>2 DEF PlanRaises
  <1>7. /\ AllPass({Result("L4", TRUE)})
        /\ AllPass({Result("L4", ShapeFits(Schedule, "type", ScheduleShapes))})
        /\ AllPass({Result("L4", ShapeFits(Rate, "scheduleType", TransferRateShapes))})
        /\ AllPass({Result("L4", DOMAIN Json(Mail) \in EmailReportShapes)})
    BY <1>1, <1>2, <1>3, Passes, Zenon
  <1>8. AllPass(PlanResults)
    <2> DEFINE r0 == {Result("L4", TRUE)}
               r1 == Asked("L4", <<"plan">>, BackupPlanRequired)
               r2 == When(IsDict("backupFolderPlansByUUID") /\ Planned,
                          Asked("L4", <<"plan", "folders">>, FolderPlanRequired))
               r3 == When(IsDict("scheduleJSON"),
                          {Result("L4", ShapeFits(Schedule, "type", ScheduleShapes))})
               r4 == When(IsDict("transferRateJSON"),
                          {Result("L4", ShapeFits(Rate, "scheduleType", TransferRateShapes))})
               r5 == When(IsDict("emailReportJSON"), {Result("L4", DOMAIN Json(Mail) \in EmailReportShapes)})
    <2>1. AllPass(r0) /\ AllPass(r1) /\ AllPass(r2) /\ AllPass(r3) /\ AllPass(r4) /\ AllPass(r5)
      BY <1>4, <1>5, <1>7 DEF When, AllPass
    <2>2. PlanResults = ((((r0 \cup r1) \cup r2) \cup r3) \cup r4) \cup r5
      BY DEF PlanResults
    <2> HIDE DEF r0, r1, r2, r3, r4, r5
    <2> QED BY <2>1, <2>2, PassFacts
  <1> QED BY <1>6, <1>8

\* A run that is finished has written a folder's part of the plan.
LEMMA FinishedIsPlanned ==
  ASSUME Finished
  PROVE  Planned
PROOF
  <1>1. PICK f : f \in Folders
    <2>1. 1 \in DOMAIN FolderSeq
      BY ComplianceAssumption
    <2> QED BY <2>1 DEF Folders, ToSet
  <1>2. <<"planned", f>> \in FolderFiles(f)
    BY DEF FolderFiles
  <1>3. <<"planned", f>> \in Writes
    BY <1>1, <1>2, WritesAre
  <1> QED BY <1>1, <1>3 DEF Finished, Planned

LEMMA SettingType ==
  ASSUME setting \in Options
  PROVE  setting.custom \in BOOLEAN /\ setting.encrypted \in BOOLEAN /\ setting.packed \in BOOLEAN
BY ComplianceAssumption

LEMMA PlanKeeps ==
  ASSUME TypeOK, HarmOK, InitPlanned, Sound, Untroubled, CheckBackupplan
  PROVE  CheckKeeps
PROOF
  <1> DEFINE a == <<"plan">>
             bad == {Result("L4", FALSE)}
  <1>1. PICK lost \in Failing({Reads(a)}) :
          /\ Lost(lost)
          /\ \/ Sidecar(a, lost) \in Unreadable /\ Tell(bad, {a}, "index")
             \/ (Sidecar(a, lost) = "list" \/ (Sidecar(a, lost) = "whole" /\ PlanRaises)) /\ Tell(bad, {a}, "raised")
             \/ Sidecar(a, lost) = "whole" /\ ~PlanRaises /\ Tell(PlanResults, {a}, "index")
    BY DEF CheckBackupplan
  <1>2. {Reads(a)} \subseteq Calls
    BY CallsMade
  <1>3. /\ {"index", "raised"} \subseteq Stations \ {"writing", "resting", "root"}
        /\ at = "plan" /\ retold' = retold /\ keyset' = keyset
        /\ keyset' \in BOOLEAN /\ found' \subseteq Folders
    BY <1>1 DEF CheckBackupplan, Stations, TypeOK
  <1>4. Sane /\ lost = {} =>
          Sidecar(a, lost) = "whole" /\ ~PlanRaises /\ AllPass(PlanResults) /\ keyset'
    <2> SUFFICES ASSUME Sane, lost = {}
                 PROVE  Sidecar(a, lost) = "whole" /\ ~PlanRaises /\ AllPass(PlanResults) /\ keyset'
      OBVIOUS
    <2>1. keyset /\ keyset'
      BY <1>3 DEF Untroubled
    <2>2. Sidecar(a, lost) = "whole"
      BY <2>1, SaneReads DEF TypeOK, Sidecar
    <2>3. ~PlanRaises /\ AllPass(PlanResults)
      BY UnharmedPlan, SettingType DEF Sane, TypeOK
    <2> QED BY <2>1, <2>2, <2>3
  <1>5. Sidecar(a, lost) = "whole" /\ AllPass(PlanResults) => Vouched({a})
    BY PlanVerdict, FinishedIsPlanned, SettingType DEF TypeOK
  <1>6. ~AllPass(bad)
    BY PassFacts
  <1>7. "whole" \notin Unreadable /\ "list" # "whole"
    BY DEF Unreadable
  <1> HIDE DEF a, bad
  <1>8. CASE Sidecar(a, lost) \in Unreadable /\ Tell(bad, {a}, "index")
    BY <1>1, <1>2, <1>3, <1>4, <1>6, <1>7, <1>8, PlainCheckStep
  <1>9. CASE (Sidecar(a, lost) = "list" \/ (Sidecar(a, lost) = "whole" /\ PlanRaises)) /\ Tell(bad, {a}, "raised")
    BY <1>1, <1>2, <1>3, <1>4, <1>6, <1>7, <1>9, PlainCheckStep
  <1>10. CASE Sidecar(a, lost) = "whole" /\ ~PlanRaises /\ Tell(PlanResults, {a}, "index")
    BY <1>1, <1>2, <1>3, <1>4, <1>5, <1>10, PlainCheckStep
  <1> QED BY <1>1, <1>8, <1>9, <1>10

LEMMA IndexKeeps ==
  ASSUME TypeOK, HarmOK, InitPlanned, Sound, Untroubled, CheckBackupfoldersIndex
  PROVE  CheckKeeps
PROOF
  <1> DEFINE a == <<"index">>
             results == {Result("L5", TRUE)} \cup Asked("L5", a, BackupfoldersRequired)
             bad == {Result("L5", FALSE)}
  <1>1. PICK lost \in Failing({Reads(a)}) :
          /\ Lost(lost)
          /\ \/ Got(a, lost) # "whole" /\ Tell(bad, {a}, "folders")
             \/ Got(a, lost) = "whole" /\ Tell(results, {a}, "folders")
    BY DEF CheckBackupfoldersIndex
  <1>2. {Reads(a)} \subseteq Calls
    BY CallsMade
  <1>3. /\ "folders" \in Stations \ {"writing", "resting", "root"}
        /\ at = "index" /\ retold' = retold /\ keyset' = keyset
        /\ keyset' \in BOOLEAN /\ found' \subseteq Folders
    BY <1>1 DEF CheckBackupfoldersIndex, Stations, TypeOK
  <1>4. Sane /\ lost = {} => Got(a, lost) = "whole" /\ AllPass(results) /\ keyset'
    <2> SUFFICES ASSUME Sane, lost = {} PROVE Got(a, lost) = "whole" /\ AllPass(results) /\ keyset'
      OBVIOUS
    <2>1. Got(a, lost) = "whole" /\ Json(a) = BackupFolders
      BY SaneReads, EmittedIs DEF TypeOK
    <2>2. \A k \in DOMAIN BackupfoldersRequired : Has(a, k, BackupfoldersRequired[k])
      BY <2>1, IndexTable, Zenon DEF Has, Fits
    <2>3. keyset'
      BY <1>3 DEF Untroubled
    <2> HIDE DEF a
    <2> QED BY <2>1, <2>2, <2>3, AskedPasses, PassFacts
  <1>5. Got(a, lost) = "whole" /\ AllPass(results) => Vouched({a})
    BY IndexVerdict DEF TypeOK
  <1>6. ~AllPass(bad)
    BY PassFacts
  <1> HIDE DEF a, results, bad
  <1>7. CASE Got(a, lost) # "whole" /\ Tell(bad, {a}, "folders")
    BY <1>1, <1>2, <1>3, <1>4, <1>6, <1>7, PlainCheckStep
  <1>8. CASE Got(a, lost) = "whole" /\ Tell(results, {a}, "folders")
    BY <1>1, <1>2, <1>3, <1>4, <1>5, <1>8, PlainCheckStep
  <1> QED BY <1>1, <1>7, <1>8

LEMMA PerFolderKeeps ==
  ASSUME TypeOK, HarmOK, InitPlanned, Sound, Untroubled, CheckPerFolder
  PROVE  CheckKeeps
PROOF
  <1> DEFINE calls == {Lists(<<"folders">>)} \cup {Reads(<<"folder", f>>) : f \in Folders}
             dirsOf(l) == IF Lists(<<"folders">>) \in l THEN {} ELSE {f \in Folders : <<"dir", f>> \in written}
             resultsOf(l) == {Result("L6", dirsOf(l) # {})} \cup UNION {FolderResults(f, l) : f \in dirsOf(l)}
             seenOf(l) == {<<"folder", f>> : f \in dirsOf(l)}
             next == IF keyset THEN "records" ELSE "done"
  <1>1. PICK lost \in Failing(calls) :
          found' = dirsOf(lost) /\ Tell(resultsOf(lost), seenOf(lost), next) /\ Lost(lost)
    BY DEF CheckPerFolder
  <1> DEFINE dirs == dirsOf(lost)
             results == resultsOf(lost)
             seen == seenOf(lost)
  <1>2. calls \subseteq Calls
    BY CallsMade
  <1>3. /\ next \in Stations \ {"writing", "resting", "root"} /\ next # "raised" /\ next # "keyset"
        /\ at = "folders" /\ retold' = retold /\ keyset' = keyset
        /\ keyset' \in BOOLEAN /\ dirs \subseteq Folders
    BY <1>1 DEF CheckPerFolder, Stations, TypeOK
  <1>4. AllPass(results) => Vouched(seen)
    <2> SUFFICES ASSUME AllPass(results) PROVE Vouched(seen)
      OBVIOUS
    <2>1. ASSUME NEW f \in dirs PROVE Vouched({<<"folder", f>>})
      <3>1. FolderResults(f, lost) \subseteq results
        OBVIOUS
      <3> HIDE DEF results, dirs
      <3>2. AllPass(FolderResults(f, lost))
        BY <3>1 DEF AllPass
      <3>3. f \in Folders
        BY <1>3, <2>1
      <3> QED BY <3>2, <3>3, FolderVerdict DEF TypeOK
    <2>2. \A a \in seen : Vouched({a})
      BY <2>1
    <2> HIDE DEF seen
    <2> QED BY <2>2, VouchAll
  <1>5. Sane /\ lost = {} => AllPass(results) /\ keyset'
    <2> SUFFICES ASSUME Sane, lost = {} PROVE AllPass(results) /\ keyset'
      OBVIOUS
    <2>1. keyset /\ keyset'
      BY <1>3 DEF Untroubled
    <2>2. dirs = {f \in Folders : <<"dir", f>> \in written} /\ (dirs # {}) = TRUE
      BY DEF Sane
    <2>3. ASSUME NEW f \in dirs PROVE AllPass(FolderResults(f, lost))
      <3> DEFINE a == <<"folder", f>>
      <3>1. Got(a, lost) = "whole" /\ Json(a) = BackupFolder
        <4>1. f \in Folders /\ <<"dir", f>> \in written
          BY <2>2
        <4>2. Got(a, {}) = "whole" /\ Json(a) = Emitted(a)
          BY <4>1, SaneReads DEF TypeOK
        <4>3. Emitted(a) = BackupFolder
          BY EmittedIs
        <4> QED BY <4>2, <4>3
      <3>2. Sidecar(a, lost) = "whole"
        BY <2>1, <3>1 DEF Sidecar
      <3>3. \A k \in DOMAIN BackupfolderRequired : Has(a, k, BackupfolderRequired[k])
        <4> HIDE DEF a
        <4> QED BY <3>1, FolderTable, Zenon DEF Has, Fits
      <3>4. AllPass(Asked("L7", a, BackupfolderRequired)) /\ AllPass({Result("L7", TRUE)})
        BY <3>3, AskedPasses, PassFacts
      <3>5. FolderResults(f, lost) = {Result("L7", TRUE)} \cup Asked("L7", a, BackupfolderRequired)
        BY <3>2 DEF FolderResults
      <3> HIDE DEF a
      <3> QED BY <3>4, <3>5, PassFacts
    <2>4. AllPass({Result("L6", dirs # {})})
      BY <2>2, Passes
    <2>5. AllPass(UNION {FolderResults(f, lost) : f \in dirs})
      <3> HIDE DEF dirs
      <3> QED BY <2>3 DEF AllPass
    <2>6. results = {Result("L6", dirs # {})} \cup UNION {FolderResults(f, lost) : f \in dirs}
      OBVIOUS
    <2> HIDE DEF results, dirs
    <2> QED BY <2>1, <2>4, <2>5, <2>6, PassFacts
  <1>6. found' \subseteq Folders
    BY <1>1, <1>3
  <1> HIDE DEF calls, dirsOf, resultsOf, seenOf, next
  <1> QED BY <1>1, <1>2, <1>3, <1>4, <1>5, <1>6, PlainCheckStep

\* What can be listed of an unharmed destination is whole.
LEMMA ListedIsWhole ==
  ASSUME harm = {}, NEW as, NEW lost, NEW a \in Listed(as, lost)
  PROVE  a \in written /\ Got(a, {}) = "whole" /\ Condition(a) = "whole"
BY UnharmedCondition DEF Listed, Got

LEMMA UnharmedRecord ==
  ASSUME harm = {}, NEW f, Got(<<"record", f>>, {}) = "whole"
  PROVE  AllPass(RecordResults(<<"record", f>>, {}))
PROOF
  <1> DEFINE a == <<"record", f>>
             node == <<"record", f, "node">>
             known == "version" \in DOMAIN Json(a) /\ Json(a)["version"] \in KnownVersions
             unlocated == /\ Has(a, "node", "dict") /\ "isTree" \in DOMAIN Json(node)
                          /\ ~Has(node, "treeBlobLoc", "dict")
  <1>1. Json(a) = BackupRecord(setting.tree) /\ Json(node) = NodeDict
    BY UnharmedJson, EmittedIs
  <1>2. known = TRUE /\ BackuprecordRequired \ DOMAIN Json(a) = {}
    <2>1. BackuprecordRequired \subseteq DOMAIN Json(a) /\ Json(a)["version"] \in KnownVersions
      BY <1>1, RecordTable
    <2>2. "version" \in BackuprecordRequired
      BY DEF BackuprecordRequired
    <2> QED BY <2>1, <2>2
  <1>3. ~unlocated
    BY <1>1, NodeTable DEF Has, Fits
  <1>4. RecordResults(a, {}) =
          {Result("B1", TRUE), Result("SV3", known)}
          \cup {Result("B2", FALSE) : k \in BackuprecordRequired \ DOMAIN Json(a)}
          \cup When(unlocated, {Result("B3", FALSE)})
    BY DEF RecordResults
  <1>5. RecordResults(a, {}) = {Result("B1", TRUE)} \cup {Result("SV3", known)}
    <2> HIDE DEF unlocated, known
    <2> QED BY <1>2, <1>3, <1>4 DEF When
  <1>6. AllPass({Result("B1", TRUE)}) /\ AllPass({Result("SV3", known)})
    BY <1>2, Passes, PassFacts
  <1> HIDE DEF a, known
  <1> QED BY <1>5, <1>6, PassFacts DEF a

LEMMA RecordsKeeps ==
  ASSUME TypeOK, HarmOK, InitPlanned, Sound, Untroubled, CheckBackuprecords
  PROVE  CheckKeeps
PROOF
  <1> DEFINE calls == {Lists(a) : a \in Records} \cup {Reads(a) : a \in Records}
             seenOf(l) == Listed(Records, l)
             resultsOf(l) == {Result("L8", TRUE)} \cup UNION {RecordResults(a, l) : a \in seenOf(l)}
  <1>1. PICK lost \in Failing(calls) : Tell(resultsOf(lost), seenOf(lost), "objects") /\ Lost(lost)
    BY DEF CheckBackuprecords
  <1> DEFINE seen == seenOf(lost)
             results == resultsOf(lost)
  <1>2. calls \subseteq Calls
    BY CallsMade DEF Records, TypeOK
  <1>3. /\ "objects" \in Stations \ {"writing", "resting", "root"}
        /\ at = "records" /\ retold' = retold /\ keyset' = keyset /\ found' = found
        /\ keyset' \in BOOLEAN /\ found' \subseteq Folders
    BY <1>1 DEF CheckBackuprecords, Stations, TypeOK
  <1>4. ASSUME NEW a \in seen PROVE \E f \in Folders : a = <<"record", f>>
    BY DEF Listed, Records, TypeOK
  <1>5. AllPass(results) => Vouched(seen)
    <2> SUFFICES ASSUME AllPass(results) PROVE Vouched(seen)
      OBVIOUS
    <2>1. ASSUME NEW a \in seen PROVE Vouched({a})
      <3>1. RecordResults(a, lost) \subseteq results
        OBVIOUS
      <3> HIDE DEF results, seen
      <3>2. AllPass(RecordResults(a, lost))
        BY <3>1 DEF AllPass
      <3>3. PICK f \in Folders : a = <<"record", f>>
        BY <1>4
      <3> QED BY <3>2, <3>3, RecordVerdict DEF TypeOK
    <2> HIDE DEF seen
    <2> QED BY <2>1, VouchAll
  <1>6. Sane /\ lost = {} => AllPass(results) /\ keyset'
    <2> SUFFICES ASSUME Sane, lost = {} PROVE AllPass(results) /\ keyset'
      OBVIOUS
    <2>1. keyset'
      BY <1>3 DEF Untroubled
    <2>2. ASSUME NEW a \in seen PROVE AllPass(RecordResults(a, lost))
      <3>1. PICK f \in Folders : a = <<"record", f>>
        BY <1>4
      <3>2. harm = {} /\ Got(a, {}) = "whole"
        BY ListedIsWhole DEF Sane
      <3> QED BY <3>1, <3>2, UnharmedRecord
    <2>3. AllPass(UNION {RecordResults(a, lost) : a \in seen})
      <3> HIDE DEF seen
      <3> QED BY <2>2 DEF AllPass
    <2>4. results = {Result("L8", TRUE)} \cup UNION {RecordResults(a, lost) : a \in seen}
      OBVIOUS
    <2> HIDE DEF results, seen
    <2> QED BY <2>1, <2>3, <2>4, PassFacts
  <1> HIDE DEF calls, seenOf, resultsOf
  <1> QED BY <1>1, <1>2, <1>3, <1>5, <1>6, PlainCheckStep

\* A sample is of what it was taken from.
LEMMA SampleIsPart ==
  ASSUME NEW as, NEW cap, NEW sample \in Sample(as, cap)
  PROVE  sample \subseteq as
BY DEF Sample, kSubset

ObjectCalls ==
  {Probe, Lists(<<"objects">>)} \cup {Lists(a) : a \in Stores("object")} \cup {Reads(a) : a \in Stores("object")}
ListedObjects(lost) ==
  IF {Probe, Lists(<<"objects">>)} \cap lost # {} THEN {} ELSE Listed(Stores("object"), lost)
Named(listed) == listed \ (Misplaced(listed) \cup Misnamed(listed))
ObjectResults(listed, sample, lost) ==
  {Result("S1", Misplaced(listed) = {}), Result("ID1", Misnamed(listed) = {}),
   Result("A1", BadObjects(sample, lost) = {}),
   Result("ID2", \A a \in sample : Got(a, lost) # "misfiled")}

LEMMA UnharmedStores ==
  ASSUME harm = {}, NEW kind, NEW listed \in SUBSET Listed(Stores(kind), {})
  PROVE  /\ Misplaced(listed) = {} /\ Misnamed(listed) = {}
         /\ \A a \in listed : Got(a, {}) = "whole"
BY ListedIsWhole DEF Misplaced, Misnamed

LEMMA ObjectsKeeps ==
  ASSUME TypeOK, HarmOK, InitPlanned, Sound, Untroubled, CheckStandardobjects
  PROVE  CheckKeeps
PROOF
  <1> DEFINE resultsOf(sample, l) ==
               IF Probe \in l THEN {Result("A1", TRUE)}
               ELSE IF Lists(<<"objects">>) \in l THEN {Result("A1", FALSE)}
               ELSE ObjectResults(ListedObjects(l), sample, l)
             seenOf(sample, l) == sample \cup Misplaced(ListedObjects(l)) \cup Misnamed(ListedObjects(l))
  <1>1. PICK lost \in Failing(ObjectCalls) :
          \E sample \in Sample(Named(ListedObjects(lost)), SampleCap) :
            Tell(resultsOf(sample, lost), seenOf(sample, lost), "packs") /\ Lost(lost)
    BY DEF CheckStandardobjects, ObjectCalls, ListedObjects, Named, ObjectResults
  <1> DEFINE listed == ListedObjects(lost)
  <1>2. PICK sample \in Sample(Named(listed), SampleCap) :
            Tell(resultsOf(sample, lost), seenOf(sample, lost), "packs") /\ Lost(lost)
    BY <1>1
  <1> DEFINE results == resultsOf(sample, lost)
             seen == seenOf(sample, lost)
  <1>3. ObjectCalls \subseteq Calls
    BY CallsMade DEF ObjectCalls
  <1>4. /\ "packs" \in Stations \ {"writing", "resting", "root"}
        /\ at = "objects" /\ retold' = retold /\ keyset' = keyset /\ found' = found
        /\ keyset' \in BOOLEAN /\ found' \subseteq Folders
    BY <1>1 DEF CheckStandardobjects, Stations, TypeOK
  <1>5. sample \subseteq Named(listed) /\ listed \subseteq Stores("object")
    BY SampleIsPart DEF ListedObjects, Listed
  <1>6. AllPass(results) => Vouched(seen)
    <2> SUFFICES ASSUME AllPass(results) PROVE Vouched(seen)
      OBVIOUS
    <2>1. listed = {} \/ AllPass(ObjectResults(listed, sample, lost))
      <3>1. CASE {Probe, Lists(<<"objects">>)} \cap lost # {}
        BY <3>1 DEF ListedObjects
      <3>2. CASE {Probe, Lists(<<"objects">>)} \cap lost = {}
        BY <3>2
      <3> QED BY <3>1, <3>2
    <2> HIDE DEF listed, results
    <2>2. Vouched(sample \cup Misplaced(listed) \cup Misnamed(listed))
      BY <1>5, <2>1, ObjectsVerdict DEF TypeOK, Named, ObjectResults
    <2> QED BY <2>2 DEF listed
  <1>7. Sane /\ lost = {} => AllPass(results) /\ keyset'
    <2> SUFFICES ASSUME Sane, lost = {} PROVE AllPass(results) /\ keyset'
      OBVIOUS
    <2>1. keyset'
      BY <1>4 DEF Untroubled
    <2>2. listed = Listed(Stores("object"), {})
      BY DEF ListedObjects
    <2>3. Misplaced(listed) = {} /\ Misnamed(listed) = {} /\ \A a \in listed : Got(a, {}) = "whole"
      BY <2>2, UnharmedStores DEF Sane
    <2>4. sample \subseteq listed
      BY <1>5 DEF Named
    <2> DEFINE s1 == Misplaced(listed) = {}
               s2 == Misnamed(listed) = {}
               s3 == BadObjects(sample, lost) = {}
               s4 == \A a \in sample : Got(a, lost) # "misfiled"
    <2>5. s1 = TRUE /\ s2 = TRUE
      BY <2>3
    <2>6. s3 = TRUE /\ s4 = TRUE
      BY <2>3, <2>4 DEF BadObjects
    <2>7. results = {Result("S1", s1), Result("ID1", s2), Result("A1", s3), Result("ID2", s4)}
      BY DEF ObjectResults
    <2> HIDE DEF s1, s2, s3, s4, results
    <2>8. results = {Result("S1", TRUE), Result("ID1", TRUE), Result("A1", TRUE), Result("ID2", TRUE)}
      BY <2>5, <2>6, <2>7
    <2>9. AllPass(results)
      BY <2>8 DEF AllPass, Result
    <2> QED BY <2>1, <2>9
  <1> HIDE DEF resultsOf, seenOf
  <1> QED BY <1>1, <1>2, <1>3, <1>4, <1>6, <1>7, PlainCheckStep

LEMMA PacksKeeps ==
  ASSUME TypeOK, HarmOK, InitPlanned, Sound, Untroubled, CheckPackFiles
  PROVE  CheckKeeps
PROOF
  <1> DEFINE calls == {Lists(a) : a \in Stores("pack")} \cup {Reads(a) : a \in Stores("pack")}
             listedOf(l) == Listed(Stores("pack"), l)
             namedOf(l) == listedOf(l) \ Misnamed(listedOf(l))
             resultsOf(sample, l) ==
               IF namedOf(l) = {} THEN {Result("P1", TRUE)}
               ELSE {Result("P1", Misnamed(listedOf(l)) = {}),
                     Result("P2", \A a \in sample : Got(a, l) = "whole")}
             seenOf(sample, l) == sample \cup (IF namedOf(l) = {} THEN {} ELSE Misnamed(listedOf(l)))
             next == IF strict THEN "rt1" ELSE "done"
  <1>1. PICK lost \in Failing(calls) :
          \E sample \in Sample(namedOf(lost), SampleCap) :
            Tell(resultsOf(sample, lost), seenOf(sample, lost), next) /\ Lost(lost)
    BY DEF CheckPackFiles
  <1> DEFINE listed == listedOf(lost)
             named == namedOf(lost)
  <1>2. PICK sample \in Sample(named, SampleCap) :
            Tell(resultsOf(sample, lost), seenOf(sample, lost), next) /\ Lost(lost)
    BY <1>1
  <1> DEFINE results == resultsOf(sample, lost)
             seen == seenOf(sample, lost)
  <1>3. calls \subseteq Calls
    BY CallsMade
  <1>4. /\ next \in Stations \ {"writing", "resting", "root"} /\ next # "raised" /\ next # "keyset"
        /\ at = "packs" /\ retold' = retold /\ keyset' = keyset /\ found' = found
        /\ keyset' \in BOOLEAN /\ found' \subseteq Folders
    BY <1>1 DEF CheckPackFiles, Stations, TypeOK
  <1>5. sample \subseteq named /\ listed \subseteq Stores("pack")
    BY SampleIsPart DEF Listed
  <1>6. AllPass(results) => Vouched(seen)
    <2> SUFFICES ASSUME AllPass(results) PROVE Vouched(seen)
      OBVIOUS
    <2>1. \/ listed \ Misnamed(listed) = {}
          \/ AllPass({Result("P1", Misnamed(listed) = {}), Result("P2", \A a \in sample : Got(a, lost) = "whole")})
      OBVIOUS
    <2>2. seen = sample \cup (IF listed \ Misnamed(listed) = {} THEN {} ELSE Misnamed(listed))
          /\ sample \subseteq listed \ Misnamed(listed)
      BY <1>5
    <2> HIDE DEF listed, results, seen
    <2> QED BY <1>5, <2>1, <2>2, PacksVerdict DEF TypeOK
  <1>7. Sane /\ lost = {} => AllPass(results) /\ keyset'
    <2> SUFFICES ASSUME Sane, lost = {} PROVE AllPass(results) /\ keyset'
      OBVIOUS
    <2>1. keyset'
      BY <1>4 DEF Untroubled
    <2>2. Misnamed(listed) = {} /\ \A a \in listed : Got(a, {}) = "whole"
      BY UnharmedStores DEF Sane
    <2>3. sample \subseteq listed
      BY <1>5
    <2> DEFINE s1 == Misnamed(listed) = {}
               s2 == \A a \in sample : Got(a, lost) = "whole"
    <2>4. s1 = TRUE /\ s2 = TRUE
      BY <2>2, <2>3
    <2>5. results = {Result("P1", TRUE)} \/ results = {Result("P1", s1), Result("P2", s2)}
      OBVIOUS
    <2> HIDE DEF s1, s2, results
    <2>6. results \subseteq {Result("P1", TRUE), Result("P2", TRUE)}
      BY <2>4, <2>5
    <2>7. AllPass(results)
      BY <2>6 DEF AllPass, Result
    <2> QED BY <2>1, <2>7
  <1> HIDE DEF calls, listedOf, namedOf, resultsOf, seenOf, next
  <1> QED BY <1>1, <1>2, <1>3, <1>4, <1>6, <1>7, PlainCheckStep

-----------------------------------------------------------------------------
(* Strict mode. *)

LEMMA Rt1Keeps ==
  ASSUME TypeOK, HarmOK, InitPlanned, Sound, Untroubled, RtBackuprecords
  PROVE  CheckKeeps
PROOF
  <1> DEFINE calls == {Lists(a) : a \in Records} \cup {Reads(a) : a \in Records}
             seenOf(l) == Listed(Records, l)
             readOf(l) == {a \in seenOf(l) : Got(a, l) \notin {"gone", "alien", "rotten"}}
             wrong(l) == seenOf(l) # readOf(l) \/ \E a \in readOf(l) : ~RoundTrips(Got(a, l))
             some(l) == \E a \in readOf(l) : Got(a, l) # "plist"
             resultsOf(l) == When(wrong(l), {Result("RT1", FALSE)}) \cup When(some(l), {Result("RT1", TRUE)})
  <1>1. PICK lost \in Failing(calls) :
          Tell(resultsOf(lost), {}, "rt2") /\ retold' = retold \cup Harmed(readOf(lost)) /\ Lost(lost)
    BY DEF RtBackuprecords
  <1> DEFINE read == readOf(lost)
             results == resultsOf(lost)
  <1>2. calls \subseteq Calls
    BY CallsMade DEF Records, TypeOK
  <1>3. /\ "rt2" \in Stations \ {"writing", "resting", "root"}
        /\ at = "rt1" /\ keyset' = keyset /\ found' = found
        /\ keyset' \in BOOLEAN /\ found' \subseteq Folders
    BY <1>1 DEF RtBackuprecords, Stations, TypeOK
  <1>4. AllPass(results) => Vouched({}) /\ Unaltered(read)
    <2> SUFFICES ASSUME AllPass(results) PROVE Vouched({}) /\ Unaltered(read)
      OBVIOUS
    <2>1. ~wrong(lost)
      <3> SUFFICES ASSUME wrong(lost) PROVE FALSE
        OBVIOUS
      <3>1. Result("RT1", FALSE) \in results
        <4> HIDE DEF wrong, some
        <4> QED BY DEF When
      <3> HIDE DEF results
      <3> QED BY <3>1, PassFacts DEF AllPass
    <2>2. \A a \in read : Got(a, lost) # "gone" /\ RoundTrips(Got(a, lost))
      BY <2>1
    <2> HIDE DEF read
    <2> QED BY <2>2, RoundTripVerdict DEF Vouched
  <1>5. Sane /\ lost = {} => AllPass(results) /\ keyset'
    <2> SUFFICES ASSUME Sane, lost = {} PROVE AllPass(results) /\ keyset'
      OBVIOUS
    <2>1. keyset'
      BY <1>3 DEF Untroubled
    <2>2. \A a \in Listed(Records, lost) : Got(a, lost) = "whole"
      BY ListedIsWhole DEF Sane
    <2>3. ~wrong(lost)
      BY <2>2 DEF RoundTrips, Foreign
    <2>4. results = When(some(lost), {Result("RT1", TRUE)})
      <3> HIDE DEF wrong, some
      <3> QED BY <2>3 DEF When
    <2>5. AllPass(results)
      <3> HIDE DEF results, some
      <3> QED BY <2>4, PassFacts DEF When
    <2> QED BY <2>1, <2>5
  <1> HIDE DEF calls, seenOf, readOf, wrong, some, resultsOf
  <1> QED BY <1>1, <1>2, <1>3, <1>4, <1>5, CheckStep

LEMMA Rt2Keeps ==
  ASSUME TypeOK, HarmOK, InitPlanned, Sound, Untroubled, RtStandardobjects
  PROVE  CheckKeeps
PROOF
  <1> DEFINE parsedOf(sample, l) == {a \in sample : KindOf[a[2]] # "data"
                                                 /\ Got(a, l) \notin {"gone", "alien", "rotten"}}
             differOf(sample, l) == {a \in parsedOf(sample, l) : ~RoundTrips(Got(a, l))}
             id(a) == IF KindOf[a[2]] = "tree" THEN "RT2" ELSE "RT3"
             judged(sample, l) == {Result(id(a), TRUE) : a \in parsedOf(sample, l)}
                                  \cup {Result(id(a), FALSE) : a \in differOf(sample, l)}
             resultsOf(sample, l) ==
               IF Lists(<<"objects">>) \in l THEN {Result("RT2", FALSE)}
               ELSE IF Probe \in l \/ parsedOf(sample, l) = {} THEN {Result("RT2", TRUE)}
               ELSE judged(sample, l)
  <1>1. PICK lost \in Failing(ObjectCalls) :
          \E sample \in Sample(Named(ListedObjects(lost)), StrictCap) :
            /\ Tell(resultsOf(sample, lost), {}, "done")
            /\ retold' = retold \cup Harmed(parsedOf(sample, lost)) /\ Lost(lost)
    BY DEF RtStandardobjects, ObjectCalls, ListedObjects, Named
  <1>2. PICK sample \in Sample(Named(ListedObjects(lost)), StrictCap) :
            /\ Tell(resultsOf(sample, lost), {}, "done")
            /\ retold' = retold \cup Harmed(parsedOf(sample, lost)) /\ Lost(lost)
    BY <1>1
  <1> DEFINE parsed == parsedOf(sample, lost)
             results == resultsOf(sample, lost)
  <1>3. ObjectCalls \subseteq Calls
    BY CallsMade DEF ObjectCalls
  <1>4. /\ "done" \in Stations \ {"writing", "resting", "root"}
        /\ at = "rt2" /\ keyset' = keyset /\ found' = found
        /\ keyset' \in BOOLEAN /\ found' \subseteq Folders
    BY <1>1 DEF RtStandardobjects, Stations, TypeOK
  <1>5. sample \subseteq ListedObjects(lost)
    BY SampleIsPart DEF Named
  <1>6. ASSUME AllPass(judged(sample, lost)) PROVE differOf(sample, lost) = {}
    <2> SUFFICES ASSUME NEW a \in differOf(sample, lost) PROVE FALSE
      OBVIOUS
    <2>1. Result(id(a), FALSE) \in judged(sample, lost)
      OBVIOUS
    <2> HIDE DEF judged, id
    <2> QED BY <1>6, <2>1, PassFacts DEF AllPass
  <1>7. AllPass(results) => Vouched({}) /\ Unaltered(parsed)
    <2> SUFFICES ASSUME AllPass(results) PROVE Vouched({}) /\ Unaltered(parsed)
      OBVIOUS
    <2>1. Lists(<<"objects">>) \notin lost
      BY PassFacts
    <2>2. Probe \in lost => parsed = {}
      BY <1>5 DEF ListedObjects
    <2>3. parsed = {} \/ AllPass(judged(sample, lost))
      <3> HIDE DEF judged, parsedOf
      <3> QED BY <2>1, <2>2
    <2>4. \A a \in parsed : Got(a, lost) # "gone" /\ RoundTrips(Got(a, lost))
      BY <1>6, <2>3
    <2> HIDE DEF parsed
    <2> QED BY <2>4, RoundTripVerdict DEF Vouched
  <1>8. Sane /\ lost = {} => AllPass(results) /\ keyset'
    <2> SUFFICES ASSUME Sane, lost = {} PROVE AllPass(results) /\ keyset'
      OBVIOUS
    <2>1. keyset'
      BY <1>4 DEF Untroubled
    <2>2. \A a \in sample : Got(a, lost) = "whole"
      BY <1>5, ListedIsWhole DEF Sane, ListedObjects
    <2>3. differOf(sample, lost) = {}
      BY <2>2 DEF RoundTrips, Foreign
    <2>4. AllPass(judged(sample, lost))
      <3> HIDE DEF parsedOf, differOf, id
      <3> QED BY <2>3, PassFacts DEF AllPass, Result
    <2>5. AllPass(results)
      <3> HIDE DEF judged, parsedOf
      <3> QED BY <2>4, PassFacts
    <2> QED BY <2>1, <2>5
  <1> HIDE DEF parsedOf, resultsOf, differOf, judged, id
  <1> QED BY <1>1, <1>2, <1>3, <1>4, <1>7, <1>8, CheckStep

-----------------------------------------------------------------------------
(* Before the checks. *)

IInv == TypeOK /\ HarmOK /\ Fresh /\ InitPlanned /\ Sound /\ Untroubled

\* What is about to be written belongs to the run, and a folder waits for the plan.
LEMMA NextWritesFit ==
  ASSUME InitPlanned, NEW a \in NextWrites, written \subseteq Writes
  PROVE  /\ written \cup {a} \subseteq Writes
         /\ (\E f : <<"dir", f>> \in written \cup {a}) => Keyset \cup Configs \subseteq written
PROOF
  <1>1. a \in Writes /\ Due(a)
    BY DEF NextWrites
  <1>2. ASSUME NEW f, a = <<"dir", f>> PROVE Keyset \cup Configs \subseteq written
    <2>1. PICK i \in Turns : \E j \in DOMAIN Turn(i) : a = Turn(i)[j] /\ Earlier(i, j) \subseteq written
      BY <1>1 DEF Due
    <2>2. PICK j \in DOMAIN Turn(i) : a = Turn(i)[j] /\ Earlier(i, j) \subseteq written
      BY <2>1
    <2>3. i # 0
      <3> SUFFICES ASSUME i = 0 PROVE FALSE
        OBVIOUS
      <3>1. a \in ToSet(Turn(0))
        BY <2>2 DEF ToSet
      <3>2. a \in Keyset \cup Configs
        BY <3>1, TurnsHold
      <3> QED BY <1>2, <3>2 DEF Keyset, Configs
    <2>4. 0 \in 0..(i - 1)
      BY <2>3, ComplianceAssumption DEF Turns
    <2>5. ToSet(Turn(0)) \subseteq Earlier(i, j)
      BY <2>4 DEF Earlier
    <2> QED BY <2>2, <2>5, TurnsHold
  <1> QED BY <1>1, <1>2 DEF InitPlanned

LEMMA InitKeeps == Init => IInv
PROOF
  <1> SUFFICES ASSUME Init PROVE IInv
    OBVIOUS
  <1>1. MaxFaults \in 0..MaxFaults
    BY ComplianceAssumption
  <1>2. TypeOK
    BY <1>1 DEF Init, TypeOK, Stations
  <1>3. HarmOK /\ Fresh
    BY DEF Init, HarmOK, Fresh
  <1>4. InitPlanned
    BY DEF Init, InitPlanned
  <1>5. Sound
    BY DEF Init, Sound, Vouched, Unaltered
  <1>6. Untroubled
    BY DEF Init, Untroubled
  <1> QED BY <1>2, <1>3, <1>4, <1>5, <1>6 DEF IInv

\* Before the checks begin, only what was written and harmed is at stake.
LEMMA QuietStep ==
  ASSUME IInv, at \in {"writing", "resting"}, at' \in {"writing", "resting"}, UNCHANGED setting,
         UNCHANGED <<args, report, looked, retold, match, faults>>,
         at' = "writing" => harm' = {},
         written' \subseteq Writes, HarmOK', InitPlanned'
  PROVE  IInv'
PROOF
  <1>1. TypeOK'
    BY WritesStay DEF IInv, TypeOK, args, Stations
  <1>2. Fresh'
    BY DEF IInv, Fresh
  <1>3. Sound'
    BY DEF IInv, Fresh, Sound, Vouched, Unaltered
  <1>4. Untroubled'
    BY DEF Untroubled
  <1> QED BY <1>1, <1>2, <1>3, <1>4 DEF IInv

LEMMA WriteKeeps ==
  ASSUME IInv, Write
  PROVE  IInv'
PROOF
  <1>1. PICK a \in NextWrites : written' = written \cup {a}
    BY DEF Write
  <1>2. /\ at = "writing" /\ at' = "writing" /\ setting' = setting /\ harm' = {}
        /\ UNCHANGED <<args, report, looked, retold, match, faults>>
    BY DEF Write, IInv, Fresh
  <1>3. written' \subseteq Writes /\ InitPlanned'
    BY <1>1, <1>2, NextWritesFit, WritesStay DEF IInv, TypeOK, InitPlanned
  <1>4. HarmOK'
    BY <1>2 DEF HarmOK
  <1> QED BY <1>2, <1>3, <1>4, QuietStep

LEMMA StopKeeps ==
  ASSUME IInv, Stop
  PROVE  IInv'
PROOF
  <1>1. /\ at = "writing" /\ at' = "resting" /\ setting' = setting /\ harm = {}
        /\ UNCHANGED <<args, report, looked, retold, match, faults>>
    BY DEF Stop, IInv, Fresh
  <1>2. CASE UNCHANGED <<written, harm>>
    <2>1. HarmOK' /\ InitPlanned' /\ written' \subseteq Writes
      BY <1>1, <1>2, WritesStay DEF IInv, TypeOK, HarmOK, InitPlanned
    <2> QED BY <1>1, <2>1, QuietStep
  <1>3. CASE \E a \in NextWrites :
               /\ a[1] \in {"object", "pack"} /\ written' = written \cup {a}
               /\ harm' = {[to |-> a, key |-> "itself", as |-> "misnamed"]}
    <2>1. PICK a \in NextWrites :
               /\ a[1] \in {"object", "pack"} /\ written' = written \cup {a}
               /\ harm' = {[to |-> a, key |-> "itself", as |-> "misnamed"]}
      BY <1>3
    <2>2. written' \subseteq Writes /\ InitPlanned'
      BY <1>1, <2>1, NextWritesFit, WritesStay DEF IInv, TypeOK, InitPlanned
    <2>3. "misnamed" \in Ailments(a)
      BY <2>1 DEF Ailments
    <2>4. HarmOK'
      BY <2>1, <2>3 DEF HarmOK, Harmful, Ailments
    <2> QED BY <1>1, <2>2, <2>4, QuietStep
  <1> QED BY <1>2, <1>3 DEF Stop

\* Whatever harm comes is one a destination can meet.
LEMMA HarmsAreHarmful ==
  ASSUME Finished, written \subseteq Writes, NEW h \in Harms
  PROVE  Harmful(h)
PROOF
  <1>1. PICK a \in written :
          h \in [to : {a}, key : {"itself"}, as : Ailments(a)] \cup UNION {KeyHarms(p) : p \in Objects(a)}
    BY DEF Harms
  <1>2. CASE h \in [to : {a}, key : {"itself"}, as : Ailments(a)]
    BY <1>2 DEF Harmful
  <1>3. CASE \E p \in Objects(a) : h \in KeyHarms(p)
    <2>1. PICK p \in Objects(a) : h \in KeyHarms(p)
      BY <1>3
    <2>2. p \in JsonObjects
      BY WritesAreArtefacts, ObjectsOfArtefact
    <2>3. CASE /\ h \in [to : {p}, key : Touched \cap DOMAIN Emitted(p), as : {"dropped", "str", "list", "odd"}]
               /\ Emitted(p)[h.key] # h.as
      <3>1. h.to = p /\ h.key \in Touched \cap DOMAIN Emitted(p) /\ h.as \in {"dropped", "str", "list", "odd"}
        BY <2>3
      <3>2. h.key # "itself" /\ h.key # "unheardOf"
        BY <3>1, ComplianceAssumption
      <3> QED BY <2>2, <2>3, <3>1, <3>2 DEF Harmful
    <2>4. CASE h \in [to : {p}, key : {"unheardOf"}, as : {"str"}]
      BY <2>2, <2>4 DEF Harmful
    <2> QED BY <2>1, <2>3, <2>4 DEF KeyHarms
  <1> QED BY <1>1, <1>2, <1>3

LEMMA HarmKeeps ==
  ASSUME IInv, Harm
  PROVE  IInv'
PROOF
  <1>1. /\ at = "resting" /\ at' = at /\ setting' = setting /\ written' = written /\ Finished
        /\ UNCHANGED <<args, report, looked, retold, match, faults>>
    BY DEF Harm
  <1>2. PICK h \in Harms : (\A g \in harm : g.to # h.to \/ g.key # h.key) /\ harm' = harm \cup {h}
    BY DEF Harm
  <1>3. ASSUME NEW g PROVE Harmful(g)' = Harmful(g)
    <2>1. Finished' = Finished
      BY <1>1, WritesStay DEF Finished
    <2>2. \A p : Emitted(p)' = Emitted(p)
      BY <1>1 DEF Emitted
    <2> QED BY <1>1, <2>1, <2>2 DEF Harmful, Ailments, JsonObjects, Configs, Nested
  <1>4. HarmOK'
    <2>1. Harmful(h) /\ \A g \in harm : Harmful(g)
      BY <1>1, HarmsAreHarmful DEF IInv, TypeOK, HarmOK
    <2>2. \A g \in harm' : Harmful(g)'
      BY <1>2, <1>3, <2>1
    <2>3. \A f, g \in harm' : f.to = g.to /\ f.key = g.key => f = g
      BY <1>2 DEF IInv, HarmOK
    <2> QED BY <2>2, <2>3 DEF HarmOK
  <1>5. InitPlanned' /\ written' \subseteq Writes
    BY <1>1, WritesStay DEF IInv, TypeOK, InitPlanned, Configs
  <1> QED BY <1>1, <1>4, <1>5, QuietStep

LEMMA BeginKeeps ==
  ASSUME IInv, Begin
  PROVE  IInv'
PROOF
  <1>1. /\ at = "resting" /\ at' = "root" /\ strict' \in BOOLEAN
        /\ UNCHANGED <<dest, keyset, found, report, looked, retold, match, faults>>
    BY DEF Begin
  <1>2. setting' = setting /\ written' = written /\ harm' = harm
    BY <1>1 DEF dest
  <1>3. report = "empty" /\ looked = {} /\ retold = {} /\ match = "unasked"
    BY <1>1 DEF IInv, Fresh
  <1>4. TypeOK'
    BY <1>1, <1>2, WritesStay DEF IInv, TypeOK, Stations
  <1>5. HarmOK'
    BY <1>1, DestStays DEF IInv
  <1>6. Fresh'
    BY <1>1, <1>3 DEF Fresh
  <1>7. InitPlanned'
    BY <1>2, WritesStay DEF IInv, InitPlanned, Configs
  <1>8. Sound'
    BY <1>1, <1>3 DEF Sound, Vouched, Unaltered
  <1>9. Untroubled'
    BY <1>1, <1>3 DEF Untroubled
  <1> QED BY <1>4, <1>5, <1>6, <1>7, <1>8, <1>9 DEF IInv

-----------------------------------------------------------------------------
(* The fingerprint. *)

\* What a fingerprint that matches says.
SameAsWritten ==
  /\ \A x \in {"config", "plan", "index"} : Condition(<<x>>) = "whole"
  /\ \A h \in harm : h.to[1] \in {"config", "plan", "index"} =>
       h.key \in DOMAIN Emitted(h.to) /\ TypeName(h.as) = TypeName(Emitted(h.to)[h.key])
  /\ \A f \in Folders : Files[f] # {} =>
       /\ Condition(<<"record", f>>) \in {"whole"} \cup Foreign
       /\ Condition(TreeOf(f)) \in {"whole", "drift"}

LEMMA SaidStays ==
  ASSUME UNCHANGED dest
  PROVE  SameAsWritten' = SameAsWritten
PROOF
  <1>1. setting' = setting /\ written' = written /\ harm' = harm
    BY DEF dest
  <1>2. \A a : Condition(a)' = Condition(a)
    BY <1>1 DEF Condition
  <1>3. \A p : Emitted(p)' = Emitted(p)
    BY <1>1 DEF Emitted
  <1>4. \A f : TreeOf(f)' = TreeOf(f)
    BY <1>1 DEF TreeOf, Stored
  <1> QED BY <1>1, <1>2, <1>3, <1>4 DEF SameAsWritten

LEMMA LastBlob ==
  ASSUME NEW f \in Folders
  PROVE  Last(Blobs[f]) \in ToSet(Blobs[f]) /\ TreeOf(f) \in FolderFiles(f)
PROOF
  <1>1. Blobs[f] \in Seq(AllBlobs) /\ Blobs[f] # <<>>
    BY ComplianceAssumption
  <1>2. Len(Blobs[f]) \in DOMAIN Blobs[f]
    BY <1>1
  <1>3. Last(Blobs[f]) \in ToSet(Blobs[f])
    BY <1>2 DEF Last, ToSet
  <1> QED BY <1>3 DEF TreeOf, FolderFiles

LEMMA FingerprintCallsMade == FingerprintCalls \subseteq Calls
PROOF
  <1>1. ASSUME NEW f \in Folders PROVE Reads(TreeOf(f)) \in Calls
    <2>1. Last(Blobs[f]) \in AllBlobs
      BY LastBlob DEF AllBlobs
    <2>2. \E kind \in {"object", "pack"} : TreeOf(f) \in Stores(kind)
      BY <2>1 DEF TreeOf, Stored, Stores
    <2> QED BY <2>2, CallsMade
  <1> QED BY <1>1, CallsMade DEF FingerprintCalls

\* The words for the types a key is harmed to or written with.
LEMMA TypeNames ==
  /\ TypeName("dict") = "dict"
  /\ \A t : TypeName(t) = "dict" => t = "dict"
BY DEF TypeName, Fits, KnownVersions

LEMMA SchemaIs ==
  ASSUME NEW o, NEW q, Schema(o) = Schema(q)
  PROVE  DOMAIN o = DOMAIN q /\ \A k \in DOMAIN q : TypeName(o[k]) = TypeName(q[k])
PROOF
  <1>1. DOMAIN Schema(o) = DOMAIN o /\ DOMAIN Schema(q) = DOMAIN q
    BY DEF Schema
  <1>2. DOMAIN o = DOMAIN q
    BY <1>1, Zenon
  <1>3. ASSUME NEW k \in DOMAIN q PROVE TypeName(o[k]) = TypeName(q[k])
    <2>1. Schema(o)[k] = TypeName(o[k]) /\ Schema(q)[k] = TypeName(q[k])
      BY <1>2, <1>3 DEF Schema
    <2> QED BY <2>1, Zenon
  <1> QED BY <1>2, <1>3

\* An object with the schema it was written with is harmed where the schema
\* does not show it, if anywhere.
LEMMA SameSchemaHides ==
  ASSUME HarmOK, NEW h \in harm, h.key # "itself", Schema(Json(h.to)) = Schema(Emitted(h.to))
  PROVE  h.key \in DOMAIN Emitted(h.to) /\ TypeName(h.as) = TypeName(Emitted(h.to)[h.key])
PROOF
  <1> DEFINE p == h.to
  <1>1. DOMAIN Json(p) = DOMAIN Emitted(p)
        /\ \A k \in DOMAIN Emitted(p) : TypeName(Json(p)[k]) = TypeName(Emitted(p)[k])
    BY SchemaIs
  <1>2. Harmful(h)
    BY DEF HarmOK
  <1>3. h.as # "dropped"
    <2> SUFFICES ASSUME h.as = "dropped" PROVE FALSE
      OBVIOUS
    <2>1. h.key \notin DOMAIN Json(p)
      BY HarmedKey
    <2>2. h.key \in DOMAIN Emitted(p)
      BY <1>2 DEF Harmful
    <2> QED BY <1>1, <2>1, <2>2
  <1>4. h.key \in DOMAIN Json(p) /\ Json(p)[h.key] = h.as
    BY <1>3, HarmedKey
  <1> QED BY <1>1, <1>4

\* The three configs of a fingerprint that matches.
LEMMA ConfigsMatch ==
  ASSUME HarmOK, written \subseteq Writes, NEW lost,
         \A x \in {"config", "plan", "index"} : SameSchema(<<x>>, lost)
  PROVE  /\ \A x \in {"config", "plan", "index"} : Condition(<<x>>) = "whole"
         /\ \A h \in harm : h.to[1] \in {"config", "plan", "index"} =>
              h.key \in DOMAIN Emitted(h.to) /\ TypeName(h.as) = TypeName(Emitted(h.to)[h.key])
PROOF
  <1>1. \A x \in {"config", "plan", "index"} : Condition(<<x>>) = "whole"
    <2> TAKE x \in {"config", "plan", "index"}
    <2>1. Got(<<x>>, lost) = "whole"
      BY DEF SameSchema
    <2> QED BY <2>1, GotIs
  <1>2. ASSUME NEW x \in {"config", "plan", "index"}
        PROVE  Schema(Json(<<x>>)) = Schema(Emitted(<<x>>))
    <2>1. <<x>> \in SchemaParts(<<x>>)
      BY DEF SchemaParts
    <2> HIDE DEF Schema
    <2> QED BY <2>1 DEF SameSchema
  <1>3. ASSUME NEW k \in {"backupFolderPlansByUUID", "scheduleJSON", "transferRateJSON", "emailReportJSON"}
        PROVE  IsDict(k)
    <2>1. Schema(Json(<<"plan">>)) = Schema(Emitted(<<"plan">>))
      BY <1>2
    <2>2. /\ DOMAIN Json(<<"plan">>) = DOMAIN Emitted(<<"plan">>)
          /\ \A i \in DOMAIN Emitted(<<"plan">>) :
               TypeName(Json(<<"plan">>)[i]) = TypeName(Emitted(<<"plan">>)[i])
      BY <2>1, SchemaIs
    <2>3. k \in DOMAIN BackupPlan /\ BackupPlan[k] = "dict"
      BY <1>3, PlanTable
    <2>4. Emitted(<<"plan">>) = BackupPlan
      BY EmittedIs
    <2>5. k \in DOMAIN Json(<<"plan">>) /\ Json(<<"plan">>)[k] = "dict"
      BY <2>2, <2>3, <2>4, TypeNames, Zenon
    <2> QED BY <2>5 DEF IsDict, Has, Fits
  <1>4. ASSUME NEW x \in {"folders", "schedule", "rate", "mail"}
        PROVE  Schema(Json(<<"plan", x>>)) = Schema(Emitted(<<"plan", x>>))
    <2>1. SameSchema(<<"plan">>, lost)
      OBVIOUS
    <2>2. <<"plan", x>> \in SchemaParts(<<"plan">>)
      BY HolderOfNested DEF SchemaParts, Nested
    <2>3. KeyOf(<<"plan", x>>) \in
            {"backupFolderPlansByUUID", "scheduleJSON", "transferRateJSON", "emailReportJSON"}
      BY DEF KeyOf
    <2>4. IsDict(KeyOf(<<"plan", x>>))
      BY <1>3, <2>3
    <2> HIDE DEF Schema
    <2> QED BY <2>1, <2>2, <2>4, Zenon DEF SameSchema
  <1>5. ASSUME NEW h \in harm, h.to[1] \in {"config", "plan", "index"}
        PROVE  h.key \in DOMAIN Emitted(h.to) /\ TypeName(h.as) = TypeName(Emitted(h.to)[h.key])
    <2>1. h.key # "itself"
      <3> SUFFICES ASSUME h.key = "itself" PROVE FALSE
        OBVIOUS
      <3>1. h.to \in Artefacts
        BY HarmedIsHeld
      <3>2. \E x \in {"config", "plan", "index"} : h.to = <<x>>
        BY <1>5, <3>1 DEF Artefacts
      <3> QED BY <1>1, <3>2, WholeIsUnharmed
    <2>2. h.to \in JsonObjects
      BY <2>1, HarmedIsHeld
    <2>3. \/ \E x \in {"config", "plan", "index"} : h.to = <<x>>
          \/ \E x \in {"folders", "schedule", "rate", "mail"} : h.to = <<"plan", x>>
      BY <1>5, <2>2 DEF JsonObjects, Configs, Nested
    <2>4. Schema(Json(h.to)) = Schema(Emitted(h.to))
      BY <1>2, <1>4, <2>3
    <2> QED BY <2>1, <2>4, SameSchemaHides
  <1> QED BY <1>1, <1>5

\* The records of a fingerprint that matches.
LEMMA RecordsMatch ==
  ASSUME HarmOK, NEW lost, NEW f \in Folders, SameFolder(f, lost), Files[f] # {}
  PROVE  /\ Condition(<<"record", f>>) \in {"whole"} \cup Foreign
         /\ Condition(TreeOf(f)) \in {"whole", "drift"}
PROOF
  <1> DEFINE a == <<"record", f>>
             node == <<"record", f, "node">>
  <1>1. RecordFiles(f, lost) # {} /\ RecordFiles(f, lost) # {"root"}
    BY ComplianceAssumption DEF SameFolder
  <1>2. Got(a, lost) \notin {"gone", "alien", "rotten"} /\ TreeRead(f, lost)
    <2> DEFINE gone == Got(a, lost) \in {"gone", "alien", "rotten"} \/ ~Has(a, "node", "dict")
               bare == "isTree" \notin DOMAIN Json(node)
               leads == Has(node, "treeBlobLoc", "dict") /\ TreeRead(f, lost)
    <2>1. RecordFiles(f, lost) = IF gone THEN {} ELSE IF bare THEN {"root"} ELSE IF leads THEN Files[f] ELSE {}
      BY DEF RecordFiles
    <2>2. ~gone /\ leads
      <3> HIDE DEF gone, bare, leads
      <3> QED BY <1>1, <2>1
    <2> HIDE DEF a, node
    <2> QED BY <2>2
  <1>3. Condition(a) # "misnamed"
    <2>1. PICK r : r \in RecordsOf(f, lost)
      BY DEF SameFolder
    <2>2. r = a /\ Condition(r) # "misnamed"
      BY <2>1 DEF RecordsOf, Listed
    <2> QED BY <2>2
  <1>4. Got(a, lost) = Condition(a) /\ Condition(a) \in {"whole", "gone"} \cup Ailments(a)
    BY <1>2, GotIs, ConditionWords
  <1>5. Ailments(a) = Unreadable \cup {"misnamed", "alien"} \cup Foreign
    <2>1. a[1] = "record"
      OBVIOUS
    <2> HIDE DEF a
    <2> QED BY <2>1, AilmentWords
  <1>6. Condition(a) \in {"whole"} \cup Foreign
    BY <1>2, <1>3, <1>4, <1>5 DEF Unreadable
  <1>7. Condition(TreeOf(f)) \in {"whole", "drift"}
    BY <1>2, GotIs DEF TreeRead
  <1> QED BY <1>6, <1>7

LEMMA MatchIsSound ==
  ASSUME HarmOK, written \subseteq Writes, NEW lost, DiffFingerprints(lost)
  PROVE  SameAsWritten
BY ConfigsMatch, RecordsMatch DEF DiffFingerprints, SameAsWritten

\* What was finished and is unharmed is the same as it was written.
LEMMA FinishedMatches ==
  ASSUME harm = {}, Finished, setting.encrypted
  PROVE  /\ Got(<<"keyset">>, {}) = "whole" /\ \A f \in Folders : ~LocationRaises(f, {})
         /\ DiffFingerprints({})
PROOF
  <1>1. ASSUME NEW a \in Writes PROVE Got(a, {}) = "whole" /\ Condition(a) = "whole"
    BY UnharmedCondition DEF Finished, Got
  <1>2. \A p : Json(p) = Emitted(p)
    BY UnharmedJson
  <1>3. /\ <<"keyset">> \in Writes /\ \A x \in {"config", "plan", "index"} : <<x>> \in Writes
        /\ \A f \in Folders : FolderFiles(f) \subseteq Writes
    BY WritesAre DEF Keyset, Configs
  <1>4. ASSUME NEW x \in {"config", "plan", "index"} PROVE SameSchema(<<x>>, {})
    BY <1>1, <1>2, <1>3 DEF SameSchema
  <1>5. ASSUME NEW f \in Folders
        PROVE  /\ Has(<<"record", f, "node">>, "treeBlobLoc", "dict")
               /\ "isTree" \in DOMAIN Json(<<"record", f, "node">>)
               /\ Has(<<"record", f>>, "node", "dict")
    <2>1. Json(<<"record", f, "node">>) = NodeDict /\ Json(<<"record", f>>) = BackupRecord(setting.tree)
      BY <1>2, EmittedIs
    <2>2. /\ "isTree" \in DOMAIN NodeDict /\ "treeBlobLoc" \in DOMAIN NodeDict
          /\ NodeDict["treeBlobLoc"] = "dict"
      BY NodeTable
    <2>3. "node" \in DOMAIN BackupRecord(setting.tree) /\ BackupRecord(setting.tree)["node"] = "dict"
      BY RecordTable DEF BackuprecordRequired
    <2> QED BY <2>1, <2>2, <2>3, Zenon DEF Has, Fits
  <1>6. ASSUME NEW f \in Folders PROVE ~LocationRaises(f, {})
    BY <1>5 DEF LocationRaises
  <1>7. ASSUME NEW f \in Folders PROVE SameFolder(f, {}) /\ <<"dir", f>> \in written
    <2> DEFINE a == <<"record", f>>
    <2>1. <<"dir", f>> \in FolderFiles(f) /\ a \in FolderFiles(f) /\ TreeOf(f) \in FolderFiles(f)
      BY LastBlob DEF FolderFiles
    <2>2. <<"dir", f>> \in written /\ Condition(a) = "whole" /\ Got(a, {}) = "whole" /\ TreeRead(f, {})
      BY <1>1, <1>3, <2>1 DEF Finished, TreeRead
    <2>3. RecordsOf(f, {}) # {}
      <3>1. a \in Listed({a}, {})
        BY <2>2 DEF Listed
      <3> QED BY <2>2, <3>1 DEF RecordsOf
    <2>4. RecordFiles(f, {}) = Files[f]
      BY <1>5, <2>2 DEF RecordFiles
    <2> QED BY <2>2, <2>3, <2>4 DEF SameFolder
  <1>8. Lists(<<"folders">>) \notin {}
    OBVIOUS
  <1> QED BY <1>1, <1>3, <1>4, <1>6, <1>7, <1>8 DEF DiffFingerprints

LEMMA FingerprintKeeps ==
  ASSUME IInv, Fingerprint
  PROVE  IInv' /\ MatchTells'
PROOF
  <1> DEFINE raisesOf(l) == Got(<<"keyset">>, l) # "whole" \/ \E f \in Folders : LocationRaises(f, l)
  <1>1. PICK lost \in Failing(FingerprintCalls) :
          /\ \/ raisesOf(lost) /\ match' = "raised"
             \/ ~raisesOf(lost) /\ DiffFingerprints(lost) /\ match' = "yes"
             \/ ~raisesOf(lost) /\ ~DiffFingerprints(lost) /\ match' = "no"
          /\ Lost(lost)
    BY DEF Fingerprint
  <1>2. at = "done" /\ UNCHANGED <<dest, at, args, report, looked, retold>>
    BY DEF Fingerprint
  <1>3. setting' = setting /\ written' = written /\ harm' = harm
    BY <1>2 DEF dest
  <1>4. faults \in 0..MaxFaults /\ MaxFaults \in Nat
    BY ComplianceAssumption DEF IInv, TypeOK
  <1>5. faults' \in 0..faults /\ (faults' = faults => lost = {})
    <2>1. faults \in Nat
      BY <1>4
    <2>2. /\ faults - Cardinality(lost) \in 0..faults
          /\ faults - Cardinality(lost) = faults => lost = {}
      BY <2>1, FailingIs, FingerprintCallsMade
    <2> QED BY <1>1, <2>2 DEF Lost
  <1>6. IInv'
    <2>1. TypeOK'
      <3>1. match' \in {"unasked", "raised", "yes", "no"}
        BY <1>1
      <3> QED BY <1>2, <1>3, <1>4, <1>5, <3>1, WritesStay DEF IInv, TypeOK, args
    <2>2. HarmOK' /\ Sound'
      BY <1>2, DestStays DEF IInv, Sound
    <2>3. Fresh'
      BY <1>2 DEF Fresh
    <2>4. InitPlanned'
      BY <1>3, WritesStay DEF IInv, InitPlanned, Configs
    <2>5. Untroubled'
      <3>1. Sane' => Sane
        BY <1>3, <1>4, <1>5 DEF Sane
      <3> QED BY <1>2, <3>1 DEF IInv, Untroubled, args
    <2> QED BY <2>1, <2>2, <2>3, <2>4, <2>5 DEF IInv
  <1>7. match' = "yes" => SameAsWritten'
    <2> SUFFICES ASSUME match' = "yes" PROVE SameAsWritten'
      OBVIOUS
    <2>1. DiffFingerprints(lost)
      BY <1>1
    <2>2. SameAsWritten
      BY <2>1, MatchIsSound DEF IInv, TypeOK
    <2> QED BY <1>2, <2>2, SaidStays
  <1>8. (match' # "unasked" /\ harm' = {} /\ faults' = MaxFaults /\ Finished' /\ setting'.encrypted)
          => match' = "yes"
    <2> SUFFICES ASSUME harm' = {}, faults' = MaxFaults, Finished', setting'.encrypted
                 PROVE  match' = "yes"
      OBVIOUS
    <2>1. lost = {}
      BY <1>4, <1>5
    <2>2. harm = {} /\ Finished /\ setting.encrypted
      BY <1>3, WritesStay DEF Finished
    <2>3. ~raisesOf(lost) /\ DiffFingerprints(lost)
      BY <2>1, <2>2, FinishedMatches
    <2> HIDE DEF raisesOf
    <2> QED BY <1>1, <2>3
  <1> QED BY <1>6, <1>7, <1>8 DEF MatchTells, SameAsWritten

-----------------------------------------------------------------------------
(* The theorems. *)

\* A check leaves everything in order and asks for no fingerprint.
LEMMA CheckKeepsAll ==
  ASSUME IInv, CheckKeeps
  PROVE  IInv' /\ match' = "unasked"
PROOF
  <1>1. UNCHANGED dest /\ match' = match /\ at # "done" /\ at' \notin {"writing", "resting"}
    BY DEF CheckKeeps
  <1>2. setting' = setting /\ written' = written
    BY <1>1 DEF dest
  <1>3. match' = "unasked"
    BY <1>1 DEF IInv, Fresh
  <1>4. HarmOK' /\ Fresh'
    BY <1>1, <1>3, DestStays DEF IInv, Fresh
  <1>5. InitPlanned'
    BY <1>2, WritesStay DEF IInv, InitPlanned, Configs
  <1> QED BY <1>3, <1>4, <1>5 DEF IInv, CheckKeeps

LEMMA ChecksKeep ==
  ASSUME IInv,
         \/ CheckLayoutRoot \/ CheckKeyset \/ CheckBackupconfig \/ CheckBackupplan
         \/ CheckBackupfoldersIndex \/ CheckPerFolder \/ CheckBackuprecords \/ CheckStandardobjects
         \/ CheckPackFiles \/ RtBackuprecords \/ RtStandardobjects
  PROVE  CheckKeeps
PROOF
  <1> USE DEF IInv
  <1>1. CASE CheckLayoutRoot
    BY <1>1, LayoutRootKeeps
  <1>2. CASE CheckKeyset
    BY <1>2, KeysetKeeps
  <1>3. CASE CheckBackupconfig
    BY <1>3, ConfigKeeps
  <1>4. CASE CheckBackupplan
    BY <1>4, PlanKeeps
  <1>5. CASE CheckBackupfoldersIndex
    BY <1>5, IndexKeeps
  <1>6. CASE CheckPerFolder
    BY <1>6, PerFolderKeeps
  <1>7. CASE CheckBackuprecords
    BY <1>7, RecordsKeeps
  <1>8. CASE CheckStandardobjects
    BY <1>8, ObjectsKeeps
  <1>9. CASE CheckPackFiles
    BY <1>9, PacksKeeps
  <1>10. CASE RtBackuprecords
    BY <1>10, Rt1Keeps
  <1>11. CASE RtStandardobjects
    BY <1>11, Rt2Keeps
  <1> QED BY <1>1, <1>2, <1>3, <1>4, <1>5, <1>6, <1>7, <1>8, <1>9, <1>10, <1>11

LEMMA StutterKeeps ==
  ASSUME IInv, MatchTells, UNCHANGED vars
  PROVE  IInv' /\ MatchTells'
PROOF
  <1>1. UNCHANGED <<dest, at, args, report, looked, retold, match, faults>>
    BY DEF vars
  <1>2. setting' = setting /\ written' = written /\ harm' = harm /\ strict' = strict /\ keyset' = keyset /\ found' = found
    BY <1>1 DEF dest, args
  <1>3. TypeOK' /\ HarmOK' /\ Fresh'
    BY <1>1, <1>2, DestStays, WritesStay DEF IInv, TypeOK, Fresh
  <1>4. InitPlanned'
    BY <1>2, WritesStay DEF IInv, InitPlanned, Configs
  <1>5. Sound'
    BY <1>1, DestStays DEF IInv, Sound
  <1>6. Untroubled'
    BY <1>1, <1>2 DEF IInv, Untroubled, Sane
  <1>7. MatchTells'
    <2>1. SameAsWritten' = SameAsWritten /\ Finished' = Finished
      BY <1>1, <1>2, SaidStays, WritesStay DEF Finished
    <2>2. (match = "yes" => SameAsWritten) /\ ((match # "unasked" /\ harm = {} /\ faults = MaxFaults /\ Finished /\ setting.encrypted) => match = "yes")
      BY DEF MatchTells, SameAsWritten
    <2>3. (match' = "yes" => SameAsWritten') /\ ((match' # "unasked" /\ harm' = {} /\ faults' = MaxFaults /\ Finished' /\ setting'.encrypted) => match' = "yes")
      BY <1>1, <1>2, <2>1, <2>2
    <2> QED BY <2>3 DEF MatchTells, SameAsWritten
  <1> QED BY <1>3, <1>4, <1>5, <1>6, <1>7 DEF IInv

LEMMA NextKeeps ==
  ASSUME IInv, MatchTells, [Next]_vars
  PROVE  IInv' /\ MatchTells'
PROOF
  <1>1. CASE Write \/ Stop \/ Harm \/ Begin
    <2>1. IInv'
      BY <1>1, WriteKeeps, StopKeeps, HarmKeeps, BeginKeeps
    <2>2. match' = "unasked"
      BY <1>1 DEF IInv, Fresh, Write, Stop, Harm, Begin
    <2> QED BY <2>1, <2>2 DEF MatchTells
  <1>2. CASE \/ CheckLayoutRoot \/ CheckKeyset \/ CheckBackupconfig \/ CheckBackupplan
             \/ CheckBackupfoldersIndex \/ CheckPerFolder \/ CheckBackuprecords \/ CheckStandardobjects
             \/ CheckPackFiles \/ RtBackuprecords \/ RtStandardobjects
    <2>1. IInv' /\ match' = "unasked"
      BY <1>2, ChecksKeep, CheckKeepsAll
    <2> QED BY <2>1 DEF MatchTells
  <1>3. CASE Fingerprint
    BY <1>3, FingerprintKeeps
  <1>4. CASE UNCHANGED vars
    BY <1>4, StutterKeeps
  <1> QED BY <1>1, <1>2, <1>3, <1>4 DEF Next

LEMMA InvariantHolds == Spec => [](IInv /\ MatchTells)
PROOF
  <1>1. Init => IInv /\ MatchTells
    BY InitKeeps DEF Init, MatchTells
  <1>2. IInv /\ MatchTells /\ [Next]_vars => (IInv /\ MatchTells)'
    BY NextKeeps
  <1> QED BY <1>1, <1>2, PTL DEF Spec

\* Every part of the state keeps its type: a destination holds only what a run
\* writes (backup.py), the checks come in the order check_arq7_compatibility
\* makes them, and no call fails that was not allowed to.
THEOREM TypeCorrect == Spec => []TypeOK
PROOF
  <1>1. IInv => TypeOK
    BY DEF IInv
  <1> QED BY <1>1, InvariantHolds, PTL

\* A compliance report that passes (compatibility.py, strict.py) vouches for
\* what it looked at, however much was harmed and whatever calls failed: none
\* of it is missing, foreign, broken or without a key that is asked for, and
\* nothing that was serialized again reads differently.
THEOREM ReportsAreSound == Spec => []PassedMeansSound
PROOF
  <1>1. IInv => PassedMeansSound
    <2> SUFFICES ASSUME IInv, at = "done", Passed, NEW h \in harm
                 PROVE  /\ Holder(h.to) \in looked => IF h.key = "itself" THEN h.as \in Foreign ELSE ~Lies(h)
                        /\ h.to \in retold /\ h.key = "itself" => h.as \notin Foreign
      BY DEF PassedMeansSound
    <2>1. Vouched(looked) /\ Unaltered(retold)
      BY DEF IInv, Sound, Passed
    <2> HIDE DEF Lies
    <2> QED BY <2>1 DEF Vouched, Unaltered, Judged
  <1> QED BY <1>1, InvariantHolds, PTL

\* What json_configs.py and backuprecord.py emit is what compatibility.py and
\* strict.py ask for: an encrypted destination that nothing happened to passes,
\* whether the run finished or died after it began its first folder, unless
\* it died between a folder's directory and its JSON.
THEOREM FinishedPasses == Spec => []NoFalseAlarm
PROOF
  <1>1. IInv => NoFalseAlarm
    <2> SUFFICES ASSUME IInv, at \in {"done", "raised"}, setting.encrypted, harm = {}, faults = MaxFaults,
                        ~(\A f \in Folders : <<"dir", f>> \notin written),
                        ~(\E f \in Folders : <<"dir", f>> \in written /\ <<"folder", f>> \notin written)
                 PROVE  Passed
      BY DEF NoFalseAlarm
    <2>1. Sane
      BY DEF Sane
    <2>2. at # "raised" /\ report = "passing"
      BY <2>1 DEF IInv, Untroubled
    <2> QED BY <2>2 DEF Passed
  <1> QED BY <1>1, InvariantHolds, PTL

\* A fingerprint (fingerprint.py) that matches is of a destination whose three
\* configs have their keys and types and whose every record with files leads
\* to its tree; one of a destination nothing happened to matches.
THEOREM FingerprintsTell == Spec => []MatchTells
BY InvariantHolds, PTL
=============================================================================
