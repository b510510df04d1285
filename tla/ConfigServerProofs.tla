-------------------------- MODULE ConfigServerProofs --------------------------
(***************************************************************************)
(* The safety of the server's files for every number of requests, groups,   *)
(* devices, codes and commands: what an update keeps, what a register code  *)
(* is good for, what revisions and the history stand for.  A file in Fresh  *)
(* may be given its default by a request that looked for it before another  *)
(* one wrote it, so a theorem that needs a file to keep what was written    *)
(* says that the file exists from the start.                                *)
(***************************************************************************)
EXTENDS ConfigServer, LeastNumber

USE NoneAssumption, NumbersAssumption, FreshAssumption
USE DEF storage, request, witness

(* What each file may hold; FilesOK, file by file. *)
FileSet(f) ==
    CASE f = "global"  -> [{"all"} -> Nodes]
      [] f = "group"   -> [Groups -> Nodes]
      [] f = "device"  -> [Devices -> Nodes]
      [] f = "history" -> {h \in Seq(Entries) : Len(h) <= HistoryCap}
      [] f = "devices" -> [Devices -> Records]
      [] f = "codes"   -> [Codes -> {"absent", "unused", "used"}]
      [] OTHER         -> [Commands -> {"absent", "queued", "consumed"}]

Kinds == {"global", "group", "device"}

(* The files by name. *)
LEMMA FilesAre ==
  /\ Files = {"devices", "codes", "global", "group", "device", "history", "queue"}
  /\ DOMAIN Order = 1 .. 7 /\ Len(Order) = 7
  BY DEF Files, Order

(* A scope is its kind and its id. *)
LEMMA ScopesAre ==
  /\ \A s \in Scopes : s.kind \in Kinds /\ s.id \in Ids(s.kind) /\ s = [kind |-> s.kind, id |-> s.id]
  /\ \A k \in Kinds : \A i \in Ids(k) : [kind |-> k, id |-> i] \in Scopes
  <1>1. ASSUME NEW s \in Scopes
        PROVE  s.kind \in Kinds /\ s.id \in Ids(s.kind) /\ s = [kind |-> s.kind, id |-> s.id]
    <2>1. PICK k \in Kinds : s \in {[kind |-> k, id |-> i] : i \in Ids(k)}  BY DEF Scopes, Kinds
    <2>2. PICK i \in Ids(k) : s = [kind |-> k, id |-> i]  BY <2>1
    <2> QED  BY <2>2
  <1>2. ASSUME NEW k \in Kinds, NEW i \in Ids(k)  PROVE [kind |-> k, id |-> i] \in Scopes
    <2> DEFINE Of(n) == {[kind |-> n, id |-> j] : j \in Ids(n)}
    <2>1. [kind |-> k, id |-> i] \in Of(k)  OBVIOUS
    <2>2. Of(k) \in {Of(n) : n \in Kinds}  OBVIOUS
    <2> QED  BY <2>1, <2>2 DEF Scopes, Kinds
  <1> QED  BY <1>1, <1>2

(* The typing of the directory, file by file. *)
LEMMA FileSets == DOMAIN file = Files => (FilesOK <=> \A f \in Files : file[f] \in FileSet(f))
  BY FilesAre DEF FilesOK, FileSet, Ids

(* The empty config and the default nodes have their types. *)
LEMMA EmptyTyped == Empty \in Configs
  BY DEF Empty, Configs

(* What bootstrapDefaults writes is a value of its file (Storage.php:112-133). *)
LEMMA DefaultTyped == \A f \in Files : Default(f) \in FileSet(f)
  <1>1. \A k \in {0, 1} : [revision |-> k, config |-> Empty] \in Nodes
    BY EmptyTyped DEF Nodes
  <1>2. Unregistered \in Records  BY DEF Records
  <1>3. Default("devices") \in FileSet("devices")  BY <1>2 DEF Default, FileSet
  <1>4. Default("codes") \in FileSet("codes")  BY DEF Default, FileSet
  <1>5. Default("history") \in FileSet("history")  BY DEF Default, FileSet
  <1>6. Default("queue") \in FileSet("queue")  BY DEF Default, FileSet
  <1>7. Default("global") \in FileSet("global")  BY <1>1 DEF Default, FileSet, Ids
  <1>8. Default("group") \in FileSet("group")  BY <1>1 DEF Default, FileSet, Ids
  <1>9. Default("device") \in FileSet("device")  BY <1>1 DEF Default, FileSet, Ids
  <1> QED  BY <1>3, <1>4, <1>5, <1>6, <1>7, <1>8, <1>9, FilesAre

-----------------------------------------------------------------------------
PCs == Stages \cup {"idle", "ready", "check", "default", "rollback"}

(* What the variables j of a request at p are, where it uses them. *)
JobOK(p, j) ==
    /\ p \in {"store", "append", "rollback"} => j.scope \in Scopes
    /\ p \in {"store", "append"} => j.revision \in 0 .. MaxRevision
    /\ p \in {"consume", "issue", "regroup", "mark", "touch"} => j.device \in Devices
    /\ p \in {"create", "consume", "issue"} => j.what \in Codes
    /\ p = "regroup" => j.what \in Groups
    /\ p \in {"mark", "enqueue"} => j.what \in Commands
    /\ p = "default" => j.revision \in DOMAIN Order /\ Order[j.revision] \in Fresh

(* A request that has read a file holds its lock, and what it read is still what the
   file holds, unless the file got its default late, without the lock. *)
Holds(r) ==
    current[r] # None =>
        /\ pc[r] \in Stages /\ lock[FileOf(r)] = r
        /\ current[r] \in FileSet(FileOf(r))
        /\ FileOf(r) \notin late => current[r] = file[FileOf(r)]

StorageOK == DOMAIN file = Files /\ \A f \in Files : file[f] \in FileSet(f)

HistoryOK ==
    /\ past \in [Scopes -> SUBSET Nodes] /\ issued \in [Codes -> Nat]
    /\ cut \in BOOLEAN /\ crossed \in BOOLEAN /\ late \subseteq Files

RequestsOK ==
    /\ pc \in [Requests -> PCs] /\ DOMAIN current = Requests /\ job \in [Requests -> Jobs]
    /\ \A r \in Requests : JobOK(pc[r], job[r])

LockInv ==
    /\ missing \subseteq Fresh /\ lock \in [Files -> Requests \cup {None}]
    /\ late \subseteq Fresh /\ \A f \in missing : file[f] = Default(f)
    /\ \A r \in Requests : Holds(r)

TypeInv == StorageOK /\ HistoryOK /\ RequestsOK /\ LockInv /\ expired \subseteq Codes

(* TypeOK is what a reader wants of TypeInv; the rest says which job a request in
   each stage can have. *)
LEMMA TypeInvTypes == TypeInv => TypeOK
  BY FileSets DEF TypeInv, StorageOK, HistoryOK, RequestsOK, LockInv, TypeOK, PCs

(* The file of an update is one of the files. *)
LEMMA FileOfIs ==
  ASSUME RequestsOK, NEW r \in Requests, pc[r] \in Stages
  PROVE  FileOf(r) \in Files
  BY FilesAre, ScopesAre DEF FileOf, RequestsOK, JobOK, Stages, Kinds

(* A request that is not under way has no job, and needs none. *)
LEMMA NoJobTyped == NoJob \in Jobs /\ \A p \in {"idle", "ready", "check"} : JobOK(p, NoJob)
  BY EmptyTyped, FilesAre DEF NoJob, Jobs, JobOK

(* The server before its first request. *)
LEMMA InitTypeInv == Init => TypeInv
  <1> SUFFICES ASSUME Init PROVE TypeInv  OBVIOUS
  <1> USE DEF Init
  <1>1. StorageOK  BY DefaultTyped DEF StorageOK
  <1>2. HistoryOK
    <2>1. ASSUME NEW s \in Scopes  PROVE Default(s.kind)[s.id] \in Nodes
      <3>1. s.kind \in Kinds /\ s.id \in Ids(s.kind)  BY ScopesAre
      <3>2. Default(s.kind) \in FileSet(s.kind)  BY <3>1, DefaultTyped, FilesAre DEF Kinds
      <3> QED  BY <3>1, <3>2 DEF FileSet, Kinds, Ids
    <2> QED  BY <2>1 DEF HistoryOK
  <1>3. RequestsOK  BY NoJobTyped DEF RequestsOK, PCs
  <1>4. LockInv  BY DEF LockInv, Holds
  <1> QED  BY <1>1, <1>2, <1>3, <1>4 DEF TypeInv

(* One request moves; the others stay where they are. *)
LEMMA Moved ==
  ASSUME RequestsOK, NEW r \in Requests, NEW there \in PCs, NEW j \in Jobs, JobOK(there, j),
         Goto(r, there), job' = [job EXCEPT ![r] = j], DOMAIN current' = Requests
  PROVE  /\ RequestsOK' /\ pc'[r] = there /\ job'[r] = j
         /\ \A q \in Requests \ {r} : pc'[q] = pc[q] /\ job'[q] = job[q]
  BY DEF RequestsOK, Goto

(* A request that holds no file goes on; the files are left alone. *)
LEMMA BeginStep ==
  ASSUME TypeInv, NEW r \in Requests, NEW there \in PCs, NEW j \in Jobs, JobOK(there, j),
         pc[r] \notin Stages, Goto(r, there), job' = [job EXCEPT ![r] = j],
         UNCHANGED <<storage, current, expired, witness>>
  PROVE  TypeInv'
  <1>1. /\ RequestsOK' /\ \A q \in Requests \ {r} : pc'[q] = pc[q] /\ job'[q] = job[q]
    BY Moved DEF TypeInv, RequestsOK
  <1>2. Holds(r)'  BY DEF Holds, TypeInv, LockInv
  <1>3. ASSUME NEW q \in Requests \ {r}  PROVE Holds(q)'
    <2>1. FileOf(q)' = FileOf(q)  BY <1>1 DEF FileOf
    <2> QED  BY <1>1, <2>1 DEF Holds, TypeInv, LockInv
  <1>4. LockInv'  BY <1>2, <1>3 DEF TypeInv, LockInv
  <1> QED  BY <1>1, <1>4 DEF TypeInv, StorageOK, HistoryOK

(* The second half of an update: the file is replaced, its lock given back, and the
   request goes on. *)
LEMMA ReplaceStep ==
  ASSUME TypeInv, NEW r \in Requests, NEW there \in PCs, NEW j \in Jobs, JobOK(there, j),
         pc[r] \in Stages, NEW next \in FileSet(FileOf(r)), Replace(r, next),
         Goto(r, there), job' = [job EXCEPT ![r] = j], UNCHANGED late
  PROVE  StorageOK' /\ RequestsOK' /\ LockInv'
  <1>1. FileOf(r) \in Files  BY FileOfIs DEF TypeInv
  <1>2. StorageOK'  BY <1>1 DEF TypeInv, StorageOK, Replace
  <1>3. /\ RequestsOK' /\ \A q \in Requests \ {r} : pc'[q] = pc[q] /\ job'[q] = job[q]
    BY Moved DEF TypeInv, RequestsOK, Replace
  <1>4. Holds(r)'  BY DEF Holds, TypeInv, RequestsOK, Replace
  <1>5. ASSUME NEW q \in Requests \ {r}  PROVE Holds(q)'
    <2>1. FileOf(q)' = FileOf(q)  BY <1>3 DEF FileOf
    <2>2. CASE current[q] = None  BY <2>2 DEF Holds, Replace, TypeInv, RequestsOK
    <2>3. CASE current[q] # None
      <3>1. pc[q] \in Stages /\ lock[FileOf(q)] = q /\ lock[FileOf(r)] = r
        BY <2>3 DEF Holds, TypeInv, LockInv, Replace
      <3>2. FileOf(q) # FileOf(r) /\ FileOf(q) \in Files
        BY <3>1, FileOfIs DEF TypeInv
      <3>3. current'[q] = current[q] /\ lock'[FileOf(q)] = q /\ file'[FileOf(q)] = file[FileOf(q)]
        BY <3>1, <3>2 DEF Replace, TypeInv, RequestsOK, LockInv, StorageOK
      <3> QED  BY <1>3, <2>1, <3>1, <3>3 DEF Holds, TypeInv, LockInv
    <2> QED  BY <2>2, <2>3
  <1>6. missing' \subseteq Fresh /\ lock' \in [Files -> Requests \cup {None}]
    BY DEF Replace, TypeInv, LockInv
  <1>7. late' \subseteq Fresh /\ \A f \in missing' : file'[f] = Default(f)
    BY <1>1 DEF Replace, TypeInv, LockInv, StorageOK
  <1> QED  BY <1>2, <1>3, <1>4, <1>5, <1>6, <1>7 DEF LockInv

-----------------------------------------------------------------------------
(* What an update puts into its file is what the file may hold. *)
LEMMA NodeFiles == \A k \in Kinds : k \in Files /\ FileSet(k) = [Ids(k) -> Nodes]
  BY FilesAre DEF Kinds, FileSet, Ids

(* What a scope holds, or the empty node when its file has none. *)
LEMMA NodeTyped ==
  ASSUME StorageOK, NEW s \in Scopes
  PROVE  Node(s) \in Nodes /\ Node(s).revision \in 0 .. MaxRevision /\ Node(s).config \in Configs
  BY ScopesAre, NodeFiles DEF StorageOK, Node, Nodes

NewNode(r) == [revision |-> job[r].revision, config |-> job[r].after]
NewEntry(r) == [scope |-> job[r].scope, revision |-> job[r].revision,
                before |-> job[r].before, after |-> job[r].after]

(* A publish or a rollback stores a node into the file of its own kind
   (ManagementService.php:103-131). *)
LEMMA StoreTyped ==
  ASSUME TypeInv, NEW r \in Requests, pc[r] = "store", current[r] # None
  PROVE  /\ NewNode(r) \in Nodes /\ job[r].scope \in Scopes /\ FileOf(r) = job[r].scope.kind
         /\ current[r] \in [Ids(job[r].scope.kind) -> Nodes]
         /\ [current[r] EXCEPT ![job[r].scope.id] = NewNode(r)] \in FileSet(FileOf(r))
  <1>1. job[r].scope \in Scopes /\ job[r].revision \in 0 .. MaxRevision /\ job[r].after \in Configs
    BY DEF TypeInv, RequestsOK, JobOK, Jobs
  <1>2. NewNode(r) \in Nodes  BY <1>1 DEF NewNode, Nodes
  <1>3. FileOf(r) = job[r].scope.kind  BY DEF FileOf
  <1>4. FileSet(job[r].scope.kind) = [Ids(job[r].scope.kind) -> Nodes]
    BY <1>1, ScopesAre, NodeFiles
  <1>5. current[r] \in FileSet(FileOf(r))  BY DEF TypeInv, LockInv, Holds
  <1> QED  BY <1>1, <1>2, <1>3, <1>4, <1>5

(* What AppendHistory writes. *)
NewHistory(r) ==
    LET all == Append(current[r], NewEntry(r))
    IN IF Len(all) > HistoryCap THEN Tail(all) ELSE all

(* appendHistory appends an entry and cuts the list to its cap. *)
LEMMA AppendTyped ==
  ASSUME TypeInv, NEW r \in Requests, pc[r] = "append", current[r] # None
  PROVE  /\ NewEntry(r) \in Entries /\ FileOf(r) = "history"
         /\ current[r] \in Seq(Entries) /\ Len(current[r]) <= HistoryCap
         /\ NewHistory(r) \in FileSet("history")
  <1>1. NewEntry(r) \in Entries
    BY DEF TypeInv, RequestsOK, JobOK, Jobs, NewEntry, Entries
  <1>2. FileOf(r) = "history"  BY DEF FileOf
  <1>3. current[r] \in Seq(Entries) /\ Len(current[r]) <= HistoryCap
    BY <1>2 DEF TypeInv, LockInv, Holds, FileSet
  <1>4. NewHistory(r) \in Seq(Entries) /\ Len(NewHistory(r)) <= HistoryCap
    <2> DEFINE all == Append(current[r], NewEntry(r))
    <2>1. all \in Seq(Entries) /\ Len(all) = Len(current[r]) + 1  BY <1>1, <1>3
    <2>2. CASE Len(all) > HistoryCap
      <3>1. Tail(all) \in Seq(Entries) /\ Len(Tail(all)) = Len(all) - 1  BY <2>1, <2>2
      <3> QED  BY <1>3, <2>1, <2>2, <3>1 DEF NewHistory
    <2>3. CASE ~(Len(all) > HistoryCap)  BY <2>1, <2>3 DEF NewHistory
    <2> QED  BY <2>2, <2>3
  <1> QED  BY <1>1, <1>2, <1>3, <1>4 DEF FileSet

(* The updates of devices.json keep one record per device. *)
LEMMA DeviceTyped ==
  ASSUME TypeInv, NEW r \in Requests, pc[r] \in {"issue", "regroup", "touch"}, current[r] # None
  PROVE  /\ FileOf(r) = "devices" /\ current[r] \in [Devices -> Records]
         /\ job[r].device \in Devices /\ FileSet(FileOf(r)) = [Devices -> Records]
  <1>1. FileOf(r) = "devices"  BY DEF FileOf
  <1>2. job[r].device \in Devices  BY DEF TypeInv, RequestsOK, JobOK
  <1>3. FileSet("devices") = [Devices -> Records]  BY DEF FileSet
  <1> QED  BY <1>1, <1>2, <1>3 DEF TypeInv, LockInv, Holds

(* The updates of register_codes.json keep one state per code. *)
LEMMA CodeTyped ==
  ASSUME TypeInv, NEW r \in Requests, pc[r] \in {"create", "consume"}, current[r] # None
  PROVE  /\ FileOf(r) = "codes" /\ current[r] \in [Codes -> {"absent", "unused", "used"}]
         /\ job[r].what \in Codes /\ FileSet(FileOf(r)) = [Codes -> {"absent", "unused", "used"}]
  <1>1. FileOf(r) = "codes"  BY DEF FileOf
  <1>2. job[r].what \in Codes  BY DEF TypeInv, RequestsOK, JobOK
  <1>3. FileSet("codes") = [Codes -> {"absent", "unused", "used"}]  BY DEF FileSet
  <1> QED  BY <1>1, <1>2, <1>3 DEF TypeInv, LockInv, Holds

(* The updates of password_updates.json keep one state per command. *)
LEMMA QueueTyped ==
  ASSUME TypeInv, NEW r \in Requests, pc[r] \in {"mark", "enqueue"}, current[r] # None
  PROVE  /\ FileOf(r) = "queue" /\ current[r] \in [Commands -> {"absent", "queued", "consumed"}]
         /\ job[r].what \in Commands
         /\ FileSet(FileOf(r)) = [Commands -> {"absent", "queued", "consumed"}]
  <1>1. FileOf(r) = "queue"  BY DEF FileOf
  <1>2. job[r].what \in Commands  BY DEF TypeInv, RequestsOK, JobOK
  <1>3. FileSet("queue") = [Commands -> {"absent", "queued", "consumed"}]  BY DEF FileSet
  <1> QED  BY <1>1, <1>2, <1>3 DEF TypeInv, LockInv, Holds

(* An update that ends its request. *)
LEMMA LastUpdate ==
  ASSUME TypeInv, NEW r \in Requests, pc[r] \in Stages, NEW next \in FileSet(FileOf(r)),
         Replace(r, next), Finish(r), UNCHANGED <<expired, late>>, HistoryOK'
  PROVE  TypeInv'
  <1>1. "idle" \in PCs  BY DEF PCs
  <1> QED  BY <1>1, NoJobTyped, ReplaceStep DEF Finish, TypeInv

(* An update that leads to another one of the same request. *)
LEMMA FirstUpdate ==
  ASSUME TypeInv, NEW r \in Requests, pc[r] \in Stages, NEW next \in FileSet(FileOf(r)),
         NEW there \in Stages, JobOK(there, job[r]),
         Replace(r, next), Goto(r, there), UNCHANGED <<job, expired, late>>, HistoryOK'
  PROVE  TypeInv'
  <1>1. there \in PCs  BY DEF PCs
  <1>2. job' = [job EXCEPT ![r] = job[r]] /\ job[r] \in Jobs  BY DEF TypeInv, RequestsOK
  <1> QED  BY <1>1, <1>2, ReplaceStep DEF TypeInv

(* A device's record stays one when a field of it is set. *)
LEMMA RecordSet ==
  ASSUME NEW x \in Records
  PROVE  /\ \A t \in Codes : [x EXCEPT !.token = t] \in Records
         /\ x.token # None => \A g \in Groups : [x EXCEPT !.group = g] \in Records
         /\ x.token # None => [x EXCEPT !.seen = TRUE] \in Records
  <1> DEFINE Full == [token : Codes, group : Groups \cup {None}, seen : BOOLEAN]
  <1>1. CASE x = Unregistered
    <2>1. x.token = None  BY <1>1 DEF Unregistered
    <2>2. ASSUME NEW t \in Codes  PROVE [x EXCEPT !.token = t] \in Records
      <3> DEFINE y == [x EXCEPT !.token = t]
                 Wide == [token : Codes \cup {None}, group : Groups \cup {None}, seen : BOOLEAN]
      <3>1. x \in Wide  BY <1>1 DEF Unregistered
      <3>2. y \in Wide /\ y.token = t  BY <3>1
      <3>3. y \in Full  BY <3>2
      <3> QED  BY <3>3 DEF Records
    <2> QED  BY <2>1, <2>2
  <1>2. CASE x \in Full
    <2>1. /\ \A t \in Codes : [x EXCEPT !.token = t] \in Full
          /\ \A g \in Groups : [x EXCEPT !.group = g] \in Full
          /\ [x EXCEPT !.seen = TRUE] \in Full
      BY <1>2
    <2> QED  BY <2>1 DEF Records
  <1> QED  BY <1>1, <1>2 DEF Records

(* What is kept for the properties is typed as long as nothing is added to it. *)
LEMMA HistorySame == HistoryOK /\ UNCHANGED witness => HistoryOK'
  BY DEF HistoryOK

(* A callback of updateJson leaves every file typed and gives its request its next
   stage, or its end. *)
LEMMA UpdateStep ==
  ASSUME TypeInv, NEW r \in Requests, Update(r)
  PROVE  TypeInv'
  <1>0. HistoryOK /\ current[r] # None /\ pc[r] \in Stages
    BY DEF TypeInv, Update, Store, AppendHistory, CreateRegisterCode, ConsumeRegisterCode,
      IssueDeviceToken, SetDeviceGroup, MarkConsumed, TouchDeviceSeen, EnqueuePasswordUpdate,
      Replace, Stages
  <1>1. CASE Store(r)
    <2> DEFINE s == job[r].scope
               next == [current[r] EXCEPT ![s.id] = NewNode(r)]
    <2>1. pc[r] = "store" /\ Replace(r, next)  BY <1>1 DEF Store, NewNode
    <2>2. next \in FileSet(FileOf(r)) /\ NewNode(r) \in Nodes  BY <1>0, <2>1, StoreTyped
    <2>3. JobOK("append", job[r])  BY <2>1 DEF TypeInv, RequestsOK, JobOK
    <2>4. HistoryOK'
      <3>1. past' = [past EXCEPT ![s] = @ \cup {NewNode(r)}] /\ UNCHANGED <<issued, cut, late>>
        BY <1>1 DEF Store, NewNode
      <3>2. crossed' \in BOOLEAN  BY <1>1 DEF Store
      <3> QED  BY <1>0, <2>2, <3>1, <3>2 DEF HistoryOK
    <2>5. Goto(r, "append") /\ UNCHANGED <<job, expired, late>> /\ "append" \in Stages
      BY <1>1 DEF Store, Stages
    <2> QED  BY <1>0, <2>1, <2>2, <2>3, <2>4, <2>5, FirstUpdate
  <1>2. CASE AppendHistory(r)
    <2>1. NewHistory(r) \in FileSet(FileOf(r)) /\ Replace(r, NewHistory(r))
      BY <1>0, <1>2, AppendTyped DEF AppendHistory, NewHistory, NewEntry
    <2>2. Finish(r) /\ UNCHANGED <<expired, late>> /\ HistoryOK'
      BY <1>0, <1>2, HistorySame DEF AppendHistory
    <2> QED  BY <1>0, <2>1, <2>2, LastUpdate
  <1>3. CASE CreateRegisterCode(r)
    <2> DEFINE c == job[r].what
               next == [current[r] EXCEPT ![c] = IF @ = "absent" THEN "unused" ELSE @]
    <2>1. next \in FileSet(FileOf(r)) /\ Replace(r, next)
      BY <1>0, <1>3, CodeTyped DEF CreateRegisterCode
    <2>2. Finish(r) /\ UNCHANGED <<expired, late>> /\ HistoryOK'
      BY <1>0, <1>3, HistorySame DEF CreateRegisterCode
    <2> QED  BY <1>0, <2>1, <2>2, LastUpdate
  <1>4. CASE ConsumeRegisterCode(r)
    <2> DEFINE c == job[r].what
               good == current[r][c] = "unused" /\ c \notin expired
               next == IF good THEN [current[r] EXCEPT ![c] = "used"] ELSE current[r]
    <2>1. pc[r] = "consume" /\ Replace(r, next) /\ UNCHANGED <<expired, late>> /\ UNCHANGED witness
          /\ IF good THEN Goto(r, "issue") /\ UNCHANGED job ELSE Finish(r)
      BY <1>4 DEF ConsumeRegisterCode
    <2>2. next \in FileSet(FileOf(r))  BY <1>0, <2>1, CodeTyped
    <2>3. HistoryOK'  BY <1>0, <2>1, HistorySame
    <2>4. JobOK("issue", job[r]) /\ "issue" \in Stages
      BY <2>1 DEF TypeInv, RequestsOK, JobOK, Stages
    <2> HIDE DEF next
    <2> QED  BY <1>0, <2>1, <2>2, <2>3, <2>4, FirstUpdate, LastUpdate
  <1>5. CASE IssueDeviceToken(r)
    <2> DEFINE next == [current[r] EXCEPT ![job[r].device].token = job[r].what]
    <2>1. Replace(r, next) /\ Finish(r) /\ UNCHANGED <<expired, late>>  BY <1>5 DEF IssueDeviceToken
    <2>2. job[r].what \in Codes  BY <1>5 DEF IssueDeviceToken, TypeInv, RequestsOK, JobOK
    <2>3. next \in FileSet(FileOf(r))
      <3> DEFINE d == job[r].device
      <3>1. pc[r] = "issue"  BY <1>5 DEF IssueDeviceToken
      <3>2. current[r] \in [Devices -> Records] /\ d \in Devices
            /\ FileSet(FileOf(r)) = [Devices -> Records]
        BY <1>0, <3>1, DeviceTyped
      <3>3. [current[r][d] EXCEPT !.token = job[r].what] \in Records
        BY <2>2, <3>2, RecordSet
      <3> QED  BY <3>2, <3>3
    <2>4. HistoryOK'
      BY <1>0, <1>5, <2>2 DEF IssueDeviceToken, HistoryOK
    <2> QED  BY <1>0, <2>1, <2>3, <2>4, LastUpdate
  <1>6. CASE SetDeviceGroup(r)
    <2> DEFINE next == IF Known(r) THEN [current[r] EXCEPT ![job[r].device].group = job[r].what]
                       ELSE current[r]
    <2>1. pc[r] = "regroup" /\ Replace(r, next) /\ Finish(r) /\ UNCHANGED <<expired, late>>
      BY <1>6 DEF SetDeviceGroup
    <2>2. job[r].what \in Groups  BY <2>1 DEF TypeInv, RequestsOK, JobOK
    <2>3. next \in FileSet(FileOf(r))
      <3> DEFINE d == job[r].device
      <3>1. current[r] \in [Devices -> Records] /\ d \in Devices
            /\ FileSet(FileOf(r)) = [Devices -> Records]
        BY <1>0, <2>1, DeviceTyped
      <3>2. current[r][d].token # None => [current[r][d] EXCEPT !.group = job[r].what] \in Records
        BY <2>2, <3>1, RecordSet
      <3> QED  BY <3>1, <3>2 DEF Known
    <2>4. HistoryOK'  BY <1>0, <1>6, HistorySame DEF SetDeviceGroup
    <2> QED  BY <1>0, <2>1, <2>3, <2>4, LastUpdate
  <1>7. CASE MarkConsumed(r)
    <2> DEFINE next == [current[r] EXCEPT ![job[r].what] = IF @ = "absent" THEN @ ELSE "consumed"]
    <2>1. pc[r] = "mark" /\ Replace(r, next) /\ Goto(r, "touch") /\ UNCHANGED <<job, expired, late>>
      BY <1>7 DEF MarkConsumed
    <2>2. next \in FileSet(FileOf(r))  BY <1>0, <2>1, QueueTyped
    <2>3. JobOK("touch", job[r]) /\ "touch" \in Stages
      BY <2>1 DEF TypeInv, RequestsOK, JobOK, Stages
    <2>4. HistoryOK'  BY <1>0, <1>7, HistorySame DEF MarkConsumed
    <2> QED  BY <1>0, <2>1, <2>2, <2>3, <2>4, FirstUpdate
  <1>8. CASE TouchDeviceSeen(r)
    <2> DEFINE next == IF Known(r) THEN [current[r] EXCEPT ![job[r].device].seen = TRUE]
                       ELSE current[r]
    <2>1. pc[r] = "touch" /\ Replace(r, next) /\ Finish(r) /\ UNCHANGED <<expired, late>>
      BY <1>8 DEF TouchDeviceSeen
    <2>2. next \in FileSet(FileOf(r))
      <3> DEFINE d == job[r].device
      <3>1. current[r] \in [Devices -> Records] /\ d \in Devices
            /\ FileSet(FileOf(r)) = [Devices -> Records]
        BY <1>0, <2>1, DeviceTyped
      <3>2. current[r][d].token # None => [current[r][d] EXCEPT !.seen = TRUE] \in Records
        BY <3>1, RecordSet
      <3> QED  BY <3>1, <3>2 DEF Known
    <2>3. HistoryOK'  BY <1>0, <1>8, HistorySame DEF TouchDeviceSeen
    <2> QED  BY <1>0, <2>1, <2>2, <2>3, LastUpdate
  <1>9. CASE EnqueuePasswordUpdate(r)
    <2> DEFINE next == [current[r] EXCEPT ![job[r].what] = "queued"]
    <2>1. pc[r] = "enqueue" /\ Replace(r, next) /\ Finish(r) /\ UNCHANGED <<expired, late>>
      BY <1>9 DEF EnqueuePasswordUpdate
    <2>2. next \in FileSet(FileOf(r))  BY <1>0, <2>1, QueueTyped
    <2>3. HistoryOK'  BY <1>0, <1>9, HistorySame DEF EnqueuePasswordUpdate
    <2> QED  BY <1>0, <2>1, <2>2, <2>3, LastUpdate
  <1> QED  BY <1>1, <1>2, <1>3, <1>4, <1>5, <1>6, <1>7, <1>8, <1>9 DEF Update

(* A request that begins: it is constructed and at no update. *)
LEMMA FreeStages ==
  /\ \A p \in {"idle", "ready", "check", "default", "rollback"} : p \in PCs /\ p \notin Stages
  /\ Stages \subseteq PCs
  /\ \A r \in Requests : Constructed(r) => pc[r] \notin Stages
  BY DEF PCs, Stages, Constructed

(* The variables of a publish, a rollback and a request that begins with an update. *)
PublishJob(s, patch, n, b, a) ==
    [NoJob EXCEPT !.op = "publish", !.scope = s, !.patch = patch,
                  !.revision = n, !.before = b, !.after = a]
RollbackJob(s, a) == [NoJob EXCEPT !.op = "rollback", !.scope = s, !.after = a]
AskJob(op, d, w) == [NoJob EXCEPT !.op = op, !.device = d, !.what = w]

(* The fields of the job that publish makes. *)
LEMMA PublishJobIs ==
  ASSUME NEW s \in Scopes, NEW patch \in Configs, NEW n \in 0 .. MaxRevision, NEW b \in Configs,
         NEW a \in Configs, "publish" \in Operations
  PROVE  LET j == PublishJob(s, patch, n, b, a)
         IN  /\ j \in Jobs /\ j.op = "publish" /\ j.scope = s /\ j.revision = n
             /\ j.before = b /\ j.after = a
  <1>1. n \in 0 .. MaxRevision + Len(Order)  BY FilesAre
  <1>2. NoJob \in Jobs  BY NoJobTyped
  <1> DEFINE j == PublishJob(s, patch, n, b, a)
  <1>3. j \in Jobs
    <2> DEFINE R == 0 .. MaxRevision + Len(Order)
    <2>1. n \in R  BY <1>1
    <2> HIDE DEF R
    <2> QED  BY <1>2, <2>1 DEF Jobs, R, PublishJob
  <1>4. j.op = "publish" /\ j.scope = s /\ j.revision = n /\ j.before = b /\ j.after = a
    BY DEF NoJob, PublishJob
  <1> QED  BY <1>3, <1>4

(* The fields of the job that rollback makes. *)
LEMMA RollbackJobIs ==
  ASSUME NEW s \in Scopes, NEW a \in Configs, "rollback" \in Operations
  PROVE  LET j == RollbackJob(s, a)
         IN  j \in Jobs /\ j.op = "rollback" /\ j.scope = s /\ j.after = a
  <1>1. NoJob \in Jobs  BY NoJobTyped
  <1> QED  BY <1>1 DEF Jobs, RollbackJob

(* The fields of the job of any other request. *)
LEMMA AskJobIs ==
  ASSUME NEW op \in Operations, NEW d \in Devices \cup {None},
         NEW w \in Codes \cup Commands \cup Groups \cup {None}
  PROVE  LET j == AskJob(op, d, w)
         IN  j \in Jobs /\ j.op = op /\ j.device = d /\ j.what = w
  <1>1. NoJob \in Jobs  BY NoJobTyped
  <1> QED  BY <1>1 DEF Jobs, AskJob

(* A merge of two configs is a config (ManagementService.php:90-101). *)
LEMMA MergeTyped == \A b, p \in Configs : Merge(b, p) \in Configs
  BY DEF Merge, Configs

(* The entry a rollback goes back to is an entry of its scope. *)
LEMMA TargetIs ==
  ASSUME StorageOK, NEW s \in Scopes, NEW n \in 1 .. MaxRevision, Matches(s, n) # {}
  PROVE  \E i \in DOMAIN file["history"] :
           /\ Target(s, n) = file["history"][i] /\ Target(s, n).scope = s
           /\ Target(s, n) \in Entries
  <1> DEFINE M == Matches(s, n)
  <1>1. file["history"] \in Seq(Entries)  BY FilesAre DEF StorageOK, FileSet
  <1>2. M \subseteq Nat  BY <1>1 DEF Matches
  <1>3. \E i \in M : \A k \in M : i <= k  BY <1>2, HasMinimum
  <1> DEFINE first == CHOOSE i \in M : \A k \in M : i <= k
  <1>4. first \in M  BY <1>3
  <1>5. Target(s, n) = file["history"][first]  BY DEF Target
  <1> HIDE DEF first
  <1> QED  BY <1>1, <1>4, <1>5 DEF Matches

(* A request begins: it looks for the files, publishes, rolls back or asks for an
   update; it has read no file under its lock. *)
Begin(r) == Arrive(r) \/ IsFile(r) \/ Publish(r) \/ Find(r) \/ ReadScope(r) \/ AskAny(r)

(* A request whose job is a device, a code, a command or a group starts typed. *)
LEMMA AskStep ==
  ASSUME TypeInv, NEW r \in Requests, NEW op, NEW stage \in Stages, NEW d \in Devices \cup {None},
         NEW w \in Codes \cup Commands \cup Groups \cup {None}, Ask(r, op, stage, d, w),
         stage \notin {"store", "append"},
         stage \in {"consume", "issue", "regroup", "mark", "touch"} => d \in Devices,
         stage \in {"create", "consume", "issue"} => w \in Codes,
         stage = "regroup" => w \in Groups,
         stage \in {"mark", "enqueue"} => w \in Commands
  PROVE  TypeInv'
  <1> DEFINE j == AskJob(op, d, w)
  <1>1. op \in Operations /\ Constructed(r) /\ job' = [job EXCEPT ![r] = j] /\ Goto(r, stage)
        /\ UNCHANGED <<storage, current, expired, witness>>
    BY DEF Ask, AskJob
  <1>2. j \in Jobs /\ j.device = d /\ j.what = w
    BY <1>1, AskJobIs
  <1>3. JobOK(stage, j)  BY <1>2, FreeStages DEF JobOK, Stages
  <1>4. stage \in PCs /\ pc[r] \notin Stages  BY <1>1, FreeStages
  <1> HIDE DEF j
  <1> QED  BY <1>1, <1>2, <1>3, <1>4, BeginStep

(* Every request starts with the job of its operation. *)
LEMMA BeginTypes ==
  ASSUME TypeInv, NEW r \in Requests, Begin(r)
  PROVE  TypeInv'
  <1>0. job[r] \in Jobs /\ StorageOK  BY DEF TypeInv, RequestsOK
  <1>1. CASE Arrive(r)
    <2>1. "check" \in PCs /\ pc[r] \notin Stages  BY <1>1, FreeStages DEF Arrive
    <2>2. JobOK("check", job[r])  BY DEF JobOK
    <2>3. job' = [job EXCEPT ![r] = job[r]]  BY <1>1 DEF Arrive, TypeInv, RequestsOK
    <2> QED  BY <1>0, <1>1, <2>1, <2>2, <2>3, BeginStep DEF Arrive
  <1>2. CASE IsFile(r)
    <2>1. pc[r] \notin Stages /\ "ready" \in PCs /\ "default" \in PCs
      BY <1>2, FreeStages DEF IsFile
    <2>2. CASE missing = {}
      <3>1. JobOK("ready", job[r])  BY DEF JobOK
      <3>2. job' = [job EXCEPT ![r] = job[r]]  BY <1>2, <2>2 DEF IsFile, TypeInv, RequestsOK
      <3> QED  BY <1>0, <1>2, <2>1, <2>2, <3>1, <3>2, BeginStep DEF IsFile
    <2>3. CASE missing # {}
      <3>1. PICK i \in DOMAIN Order :
              Order[i] \in missing /\ job' = [job EXCEPT ![r].revision = i]
        BY <1>2, <2>3 DEF IsFile
      <3> DEFINE j == [job[r] EXCEPT !.revision = i]
      <3>2. i \in 0 .. MaxRevision + Len(Order)  BY FilesAre
      <3>3. j \in Jobs /\ j.revision = i  BY <1>0, <3>2 DEF Jobs
      <3>4. Order[i] \in Fresh  BY <3>1 DEF TypeInv, LockInv
      <3>5. JobOK("default", j)  BY <3>3, <3>4 DEF JobOK
      <3>6. job' = [job EXCEPT ![r] = j]  BY <3>1 DEF TypeInv, RequestsOK
      <3> HIDE DEF j
      <3> QED  BY <1>2, <2>1, <2>3, <3>3, <3>5, <3>6, BeginStep DEF IsFile
    <2> QED  BY <2>2, <2>3
  <1>3. CASE Publish(r)
    <2>1. PICK s \in Scopes, patch \in Configs \ {Empty} :
            /\ Node(s).revision < MaxRevision
            /\ job' = [job EXCEPT ![r] = PublishJob(s, patch, Node(s).revision + 1, Node(s).config,
                                                   Merge(Node(s).config, patch))]
      BY <1>3 DEF Publish, PublishJob
    <2> DEFINE j == PublishJob(s, patch, Node(s).revision + 1, Node(s).config,
                               Merge(Node(s).config, patch))
    <2>2. Node(s).config \in Configs /\ Node(s).revision + 1 \in 0 .. MaxRevision
      BY <1>0, <2>1, NodeTyped
    <2>3. Merge(Node(s).config, patch) \in Configs  BY <2>2, MergeTyped
    <2>4. "publish" \in Operations /\ Constructed(r)  BY <1>3 DEF Publish
    <2>5. j \in Jobs /\ j.scope = s /\ j.revision = Node(s).revision + 1
      BY <2>2, <2>3, <2>4, PublishJobIs
    <2>6. JobOK("store", j)  BY <2>2, <2>5 DEF JobOK
    <2>7. "store" \in PCs /\ pc[r] \notin Stages  BY <2>4, FreeStages DEF Stages
    <2>8. job' = [job EXCEPT ![r] = j]  BY <2>1
    <2> HIDE DEF j
    <2> QED  BY <1>3, <2>5, <2>6, <2>7, <2>8, BeginStep DEF Publish
  <1>4. CASE Find(r)
    <2>1. PICK s \in Scopes, n \in 1 .. MaxRevision :
            /\ Matches(s, n) # {}
            /\ job' = [job EXCEPT ![r] = RollbackJob(s, Target(s, n).before)]
      BY <1>4 DEF Find, RollbackJob
    <2> DEFINE j == RollbackJob(s, Target(s, n).before)
    <2>2. Target(s, n).before \in Configs  BY <1>0, <2>1, TargetIs DEF Entries
    <2>3. "rollback" \in Operations /\ Constructed(r)  BY <1>4 DEF Find
    <2>4. j \in Jobs /\ j.scope = s  BY <2>2, <2>3, RollbackJobIs
    <2>5. JobOK("rollback", j)  BY <2>4 DEF JobOK
    <2>6. "rollback" \in PCs /\ pc[r] \notin Stages  BY <2>3, FreeStages
    <2>7. job' = [job EXCEPT ![r] = j]  BY <2>1
    <2> HIDE DEF j
    <2> QED  BY <1>4, <2>4, <2>5, <2>6, <2>7, BeginStep DEF Find
  <1>5. CASE ReadScope(r)
    <2> DEFINE n == Node(job[r].scope)
               j == [job[r] EXCEPT !.revision = n.revision + 1, !.before = n.config]
    <2>1. job[r].scope \in Scopes  BY <1>5 DEF ReadScope, TypeInv, RequestsOK, JobOK
    <2>2. n.config \in Configs /\ n.revision + 1 \in 0 .. MaxRevision
          /\ n.revision + 1 \in 0 .. MaxRevision + Len(Order)
      BY <1>0, <1>5, <2>1, NodeTyped, FilesAre DEF ReadScope
    <2>3. j \in Jobs /\ j.scope = job[r].scope /\ j.revision = n.revision + 1
      <3> HIDE DEF n
      <3> QED  BY <1>0, <2>2 DEF Jobs
    <2>4. JobOK("store", j)  BY <2>1, <2>2, <2>3 DEF JobOK
    <2>5. "store" \in PCs /\ pc[r] \notin Stages  BY <1>5, FreeStages DEF ReadScope, Stages
    <2>6. job' = [job EXCEPT ![r] = j]  BY <1>5 DEF ReadScope, TypeInv, RequestsOK
    <2> HIDE DEF j
    <2> QED  BY <1>5, <2>3, <2>4, <2>5, <2>6, BeginStep DEF ReadScope
  <1>6. CASE AskAny(r)
    <2>1. ASSUME NEW c \in Codes, Ask(r, "code", "create", None, c)  PROVE TypeInv'
      BY <2>1, AskStep DEF Stages
    <2>2. ASSUME NEW c \in Codes, NEW d \in Devices, Ask(r, "register", "consume", d, c)
          PROVE  TypeInv'
      BY <2>2, AskStep DEF Stages
    <2>3. ASSUME NEW g \in Groups, NEW d \in Devices, Ask(r, "group", "regroup", d, g)
          PROVE  TypeInv'
      BY <2>3, AskStep DEF Stages
    <2>4. ASSUME NEW d \in Devices, Ask(r, "ack", "touch", d, None)  PROVE TypeInv'
      BY <2>4, AskStep DEF Stages
    <2>5. ASSUME NEW d \in Devices, NEW c \in Commands, Ask(r, "ack", "mark", d, c)
          PROVE  TypeInv'
      BY <2>5, AskStep DEF Stages
    <2>6. ASSUME NEW c \in Commands, Ask(r, "enqueue", "enqueue", None, c)  PROVE TypeInv'
      BY <2>6, AskStep DEF Stages
    <2> QED  BY <1>6, <2>1, <2>2, <2>3, <2>4, <2>5, <2>6 DEF AskAny
  <1> QED  BY <1>1, <1>2, <1>3, <1>4, <1>5, <1>6 DEF Begin

(* The default of a file of Fresh is written without its lock. *)
LEMMA DefaultTypes ==
  ASSUME TypeInv, NEW r \in Requests, WriteDefault(r)
  PROVE  TypeInv'
  <1> DEFINE f == Order[job[r].revision]
  <1>1. pc[r] = "default" /\ f \in Fresh /\ f \in Files
    BY DEF WriteDefault, TypeInv, RequestsOK, JobOK
  <1>2. /\ file' = [file EXCEPT ![f] = Default(f)] /\ missing' = missing \ {f}
        /\ Goto(r, "check") /\ job' = [job EXCEPT ![r] = NoJob]
        /\ UNCHANGED <<lock, current, expired, past, issued, cut, crossed>>
        /\ late' = late \cup ({f} \ missing)
    BY DEF WriteDefault
  <1> HIDE DEF f
  <1>3. StorageOK'  BY <1>1, <1>2, DefaultTyped DEF TypeInv, StorageOK
  <1>4. /\ RequestsOK' /\ pc'[r] = "check"
        /\ \A q \in Requests \ {r} : pc'[q] = pc[q] /\ job'[q] = job[q]
    BY <1>2, NoJobTyped, FreeStages, Moved DEF TypeInv, RequestsOK
  <1>5. Holds(r)'  BY <1>1, <1>2, FreeStages DEF Holds, TypeInv, LockInv
  <1>6. ASSUME NEW q \in Requests \ {r}  PROVE Holds(q)'
    <2>1. FileOf(q)' = FileOf(q)  BY <1>4 DEF FileOf
    <2>2. FileOf(q) \notin late' => file'[FileOf(q)] = file[FileOf(q)]
      BY <1>1, <1>2 DEF TypeInv, StorageOK, LockInv
    <2>3. FileOf(q) \notin late' => FileOf(q) \notin late  BY <1>2
    <2> QED  BY <1>2, <1>3, <1>4, <2>1, <2>2, <2>3 DEF Holds, TypeInv, LockInv, StorageOK
  <1>7. LockInv'
    <2>1. \A g \in missing' : file'[g] = Default(g)  BY <1>1, <1>2 DEF TypeInv, StorageOK, LockInv
    <2> QED  BY <1>1, <1>2, <1>5, <1>6, <2>1 DEF TypeInv, LockInv
  <1>8. HistoryOK'  BY <1>1, <1>2 DEF TypeInv, HistoryOK
  <1> QED  BY <1>2, <1>3, <1>4, <1>7, <1>8 DEF TypeInv

(* The first half of an update: the lock is taken and the file read. *)
LEMMA EnterTypes ==
  ASSUME TypeInv, NEW r \in Requests, Enter(r)
  PROVE  TypeInv'
  <1>1. pc[r] \in Stages /\ FileOf(r) \in Files /\ lock[FileOf(r)] = None
    BY FileOfIs DEF Enter, TypeInv
  <1>2. /\ lock' = [lock EXCEPT ![FileOf(r)] = r]
        /\ current' = [current EXCEPT ![r] = file[FileOf(r)]]
        /\ UNCHANGED <<file, missing, pc, job, expired, witness>>
    BY DEF Enter
  <1>3. \A q \in Requests : FileOf(q)' = FileOf(q)  BY <1>2 DEF FileOf
  <1>4. Holds(r)'  BY <1>1, <1>2, <1>3 DEF Holds, TypeInv, LockInv, StorageOK, RequestsOK
  <1>5. ASSUME NEW q \in Requests \ {r}  PROVE Holds(q)'
    <2>1. current'[q] = current[q]  BY <1>2 DEF TypeInv, RequestsOK
    <2>2. current[q] # None => FileOf(q) # FileOf(r) /\ FileOf(q) \in Files
      BY <1>1, FileOfIs DEF TypeInv, LockInv, Holds
    <2>3. current[q] # None => lock'[FileOf(q)] = lock[FileOf(q)]
      BY <1>2, <2>2 DEF TypeInv, LockInv
    <2> QED  BY <1>2, <1>3, <2>1, <2>3 DEF Holds, TypeInv, LockInv
  <1>6. LockInv'  BY <1>2, <1>4, <1>5 DEF TypeInv, LockInv
  <1>7. RequestsOK'  BY <1>2 DEF TypeInv, RequestsOK
  <1> QED  BY <1>2, <1>6, <1>7, HistorySame DEF TypeInv, StorageOK

(* A request that dies gives back its locks, and only these. *)
LEMMA DieTypes ==
  ASSUME TypeInv, NEW r \in Requests, Die(r)
  PROVE  TypeInv'
  <1>1. /\ lock' = [f \in Files |-> IF lock[f] = r THEN None ELSE lock[f]]
        /\ current' = [current EXCEPT ![r] = None]
        /\ cut' = (cut \/ pc[r] = "append") /\ Finish(r)
        /\ UNCHANGED <<file, missing, expired, past, issued, crossed, late>>
    BY DEF Die
  <1>2. /\ RequestsOK' /\ \A q \in Requests \ {r} : pc'[q] = pc[q] /\ job'[q] = job[q]
    BY <1>1, NoJobTyped, FreeStages, Moved DEF Finish, TypeInv, RequestsOK
  <1>3. Holds(r)'  BY <1>1 DEF Holds, TypeInv, RequestsOK
  <1>4. ASSUME NEW q \in Requests \ {r}  PROVE Holds(q)'
    <2>1. FileOf(q)' = FileOf(q)  BY <1>2 DEF FileOf
    <2>2. current'[q] = current[q]  BY <1>1 DEF TypeInv, RequestsOK
    <2>3. current[q] # None => FileOf(q) \in Files /\ lock[FileOf(q)] = q
      BY FileOfIs DEF TypeInv, LockInv, Holds
    <2>4. current[q] # None => lock'[FileOf(q)] = q  BY <1>1, <2>3
    <2> QED  BY <1>1, <1>2, <2>1, <2>2, <2>4 DEF Holds, TypeInv, LockInv
  <1>5. LockInv'  BY <1>1, <1>3, <1>4 DEF TypeInv, LockInv
  <1>6. HistoryOK'
    <2>1. cut' \in BOOLEAN  BY <1>1
    <2> QED  BY <1>1, <2>1 DEF TypeInv, HistoryOK
  <1> QED  BY <1>1, <1>2, <1>5, <1>6 DEF TypeInv, StorageOK

(* Where nothing changes the types stay. *)
LEMMA UnchangedTypes == TypeInv /\ UNCHANGED vars => TypeInv'
  <1> SUFFICES ASSUME TypeInv, UNCHANGED vars PROVE TypeInv'  OBVIOUS
  <1> USE DEF vars
  <1>1. \A r \in Requests : FileOf(r)' = FileOf(r)  BY DEF FileOf
  <1>2. LockInv'  BY <1>1 DEF TypeInv, LockInv, Holds
  <1> QED  BY <1>2 DEF TypeInv, StorageOK, HistoryOK, RequestsOK

(* The expiry of a code touches nothing else. *)
LEMMA ExpiryTypes == TypeInv /\ CodeExpires => TypeInv'
  <1> SUFFICES ASSUME TypeInv, CodeExpires PROVE TypeInv'  OBVIOUS
  <1> USE DEF CodeExpires
  <1>1. \A r \in Requests : FileOf(r)' = FileOf(r)  BY DEF FileOf
  <1>2. LockInv'  BY <1>1 DEF TypeInv, LockInv, Holds
  <1>3. expired' \subseteq Codes  BY DEF TypeInv
  <1> QED  BY <1>2, <1>3 DEF TypeInv, StorageOK, HistoryOK, RequestsOK

(* A step is one of a request, or time passes. *)
LEMMA Steps ==
  ASSUME [Next]_vars
  PROVE  \/ \E r \in Requests : Begin(r) \/ WriteDefault(r) \/ Enter(r) \/ Update(r) \/ Die(r)
         \/ CodeExpires \/ UNCHANGED vars
  BY Zenon DEF Next, Begin

(* Every step keeps the types. *)
LEMMA TypeStep == TypeInv /\ [Next]_vars => TypeInv'
  BY Steps, BeginTypes, DefaultTypes, EnterTypes, UpdateStep, DieTypes, ExpiryTypes, UnchangedTypes

(* The types of the files and of the jobs in flight are an invariant of the server,
   for every number of requests, groups, devices, codes and commands. *)
THEOREM TypeInvariance == Spec => []TypeInv
  BY InitTypeInv, TypeStep, PTL DEF Spec

(* The types of the server's state, for every instance. *)
THEOREM TypeCorrect == Spec => []TypeOK
  BY TypeInvariance, TypeInvTypes, PTL

-----------------------------------------------------------------------------
(* What the steps have in common.                                           *)

OneMoves(r) ==
    \A q \in Requests \ {r} : pc'[q] = pc[q] /\ job'[q] = job[q] /\ current'[q] = current[q]

(* A callback of updateJson moves its own request on and writes its own file only. *)
LEMMA UpdateMoves ==
  ASSUME TypeInv, NEW r \in Requests, Update(r)
  PROVE  /\ OneMoves(r) /\ current[r] # None /\ current'[r] = None /\ pc[r] \in Stages
         /\ FileOf(r) \in Files
         /\ \A f \in Files \ {FileOf(r)} : file'[f] = file[f]
  <1>1. /\ \E next : Replace(r, next)
        /\ \E there : Goto(r, there)
        /\ UNCHANGED job \/ \E j : job' = [job EXCEPT ![r] = j]
        /\ pc[r] \in Stages
    <2>1. CASE Store(r)  BY <2>1 DEF Store, Stages
    <2>2. CASE AppendHistory(r)  BY <2>2 DEF AppendHistory, Finish, Stages
    <2>3. CASE CreateRegisterCode(r)  BY <2>3 DEF CreateRegisterCode, Finish, Stages
    <2>4. CASE ConsumeRegisterCode(r)  BY <2>4 DEF ConsumeRegisterCode, Finish, Stages
    <2>5. CASE IssueDeviceToken(r)  BY <2>5 DEF IssueDeviceToken, Finish, Stages
    <2>6. CASE SetDeviceGroup(r)  BY <2>6 DEF SetDeviceGroup, Finish, Stages
    <2>7. CASE MarkConsumed(r)  BY <2>7 DEF MarkConsumed, Stages
    <2>8. CASE TouchDeviceSeen(r)  BY <2>8 DEF TouchDeviceSeen, Finish, Stages
    <2>9. CASE EnqueuePasswordUpdate(r)  BY <2>9 DEF EnqueuePasswordUpdate, Finish, Stages
    <2> QED  BY <2>1, <2>2, <2>3, <2>4, <2>5, <2>6, <2>7, <2>8, <2>9 DEF Update
  <1>2. \A q \in Requests \ {r} : pc'[q] = pc[q] /\ job'[q] = job[q]
    BY <1>1 DEF Goto, TypeInv, RequestsOK
  <1>3. current[r] # None /\ current' = [current EXCEPT ![r] = None]
        /\ \E next : file' = [file EXCEPT ![FileOf(r)] = next]
    BY <1>1 DEF Replace
  <1>4. FileOf(r) \in Files  BY <1>1, FileOfIs DEF TypeInv
  <1> QED  BY <1>1, <1>2, <1>3, <1>4 DEF OneMoves, TypeInv, RequestsOK, StorageOK

(* The rest of a request moves that request only. *)
LEMMA OtherMoves ==
  ASSUME TypeInv, NEW r \in Requests, WriteDefault(r) \/ Enter(r) \/ Die(r)
  PROVE  OneMoves(r)
  BY DEF WriteDefault, Enter, Die, Finish, Goto, OneMoves, TypeInv, RequestsOK

(* A request that begins holds nothing and changes no file. *)
LEMMA BeginSame ==
  ASSUME TypeInv, NEW r \in Requests, Begin(r)
  PROVE  /\ OneMoves(r) /\ pc[r] \notin Stages /\ current'[r] = None
         /\ UNCHANGED <<storage, current, expired, witness>>
  <1>1. /\ pc[r] \notin Stages /\ UNCHANGED <<storage, current, expired, witness>>
        /\ \E there : Goto(r, there)
        /\ UNCHANGED job \/ \E j : job' = [job EXCEPT ![r] = j]
    <2>1. CASE Arrive(r)  BY <2>1, FreeStages DEF Arrive
    <2>2. CASE IsFile(r)
      <3>1. pc[r] \notin Stages  BY <2>2, FreeStages DEF IsFile
      <3>2. \E there : Goto(r, there)  BY <2>2 DEF IsFile
      <3>3. UNCHANGED job \/ \E j : job' = [job EXCEPT ![r] = j]
        BY <2>2 DEF IsFile, TypeInv, RequestsOK
      <3> QED  BY <2>2, <3>1, <3>2, <3>3 DEF IsFile
    <2>3. CASE Publish(r)  BY <2>3, FreeStages DEF Publish
    <2>4. CASE Find(r)  BY <2>4, FreeStages DEF Find
    <2>5. CASE ReadScope(r)
      <3>1. pc[r] \notin Stages  BY <2>5, FreeStages DEF ReadScope
      <3>2. \E j : job' = [job EXCEPT ![r] = j]  BY <2>5 DEF ReadScope, TypeInv, RequestsOK
      <3> QED  BY <2>5, <3>1, <3>2 DEF ReadScope
    <2>6. CASE AskAny(r)  BY <2>6, FreeStages DEF AskAny, Ask
    <2> QED  BY <2>1, <2>2, <2>3, <2>4, <2>5, <2>6 DEF Begin
  <1>2. current[r] = None  BY <1>1 DEF TypeInv, LockInv, Holds
  <1> QED  BY <1>1, <1>2 DEF OneMoves, Goto, TypeInv, RequestsOK

(* Where a request that begins gets to, and what it takes with it. *)
LEMMA BeginMoves ==
  ASSUME TypeInv, NEW r \in Requests, Begin(r)
  PROVE  /\ pc'[r] \notin {"append", "issue"}
         /\ pc'[r] = "rollback" =>
               \E i \in DOMAIN file["history"] :
                 LET e == file["history"][i] IN job'[r].scope = e.scope /\ job'[r].after = e.before
         /\ pc'[r] = "store" =>
               /\ job'[r].revision = Node(job'[r].scope).revision + 1
               /\ job'[r].before = Node(job'[r].scope).config
               /\ job'[r].op = "rollback" =>
                     pc[r] = "rollback" /\ job'[r].scope = job[r].scope /\ job'[r].after = job[r].after
         /\ pc'[r] = "enqueue" => NewCommand(job'[r].what)
  <1>0. StorageOK /\ pc \in [Requests -> PCs] /\ job \in [Requests -> Jobs]
    BY DEF TypeInv, RequestsOK
  <1>1. CASE Arrive(r) \/ IsFile(r)
    <2>1. pc'[r] \in {"check", "ready", "default"}  BY <1>0, <1>1 DEF Arrive, IsFile, Goto
    <2> QED  BY <2>1
  <1>2. CASE Publish(r)
    <2>1. pc'[r] = "store"  BY <1>0, <1>2 DEF Publish, Goto
    <2>2. PICK s \in Scopes, patch \in Configs \ {Empty} :
            /\ Node(s).revision < MaxRevision
            /\ job' = [job EXCEPT ![r] = PublishJob(s, patch, Node(s).revision + 1, Node(s).config,
                                                   Merge(Node(s).config, patch))]
      BY <1>2 DEF Publish, PublishJob
    <2> DEFINE j == PublishJob(s, patch, Node(s).revision + 1, Node(s).config,
                               Merge(Node(s).config, patch))
    <2>3. Node(s).config \in Configs /\ Node(s).revision + 1 \in 0 .. MaxRevision
          /\ Merge(Node(s).config, patch) \in Configs
      BY <1>0, <2>2, NodeTyped, MergeTyped
    <2>4. /\ j.op = "publish" /\ j.scope = s /\ j.revision = Node(s).revision + 1
          /\ j.before = Node(s).config
      BY <1>2, <2>3, PublishJobIs DEF Publish
    <2>5. job'[r] = j  BY <1>0, <2>2
    <2> HIDE DEF j
    <2> QED  BY <2>1, <2>4, <2>5
  <1>3. CASE Find(r)
    <2>1. pc'[r] = "rollback"  BY <1>0, <1>3 DEF Find, Goto
    <2>2. PICK s \in Scopes, n \in 1 .. MaxRevision :
            /\ Matches(s, n) # {}
            /\ job' = [job EXCEPT ![r] = RollbackJob(s, Target(s, n).before)]
      BY <1>3 DEF Find, RollbackJob
    <2> DEFINE j == RollbackJob(s, Target(s, n).before)
    <2>3. PICK i \in DOMAIN file["history"] :
            /\ Target(s, n) = file["history"][i] /\ Target(s, n).scope = s
            /\ Target(s, n).before \in Configs
      BY <1>0, <2>2, TargetIs DEF Entries
    <2>4. j.scope = s /\ j.after = Target(s, n).before
      BY <1>3, <2>3, RollbackJobIs DEF Find
    <2>5. job'[r] = j  BY <1>0, <2>2
    <2> HIDE DEF j
    <2> QED  BY <2>1, <2>3, <2>4, <2>5
  <1>4. CASE ReadScope(r)
    <2> DEFINE n == Node(job[r].scope)
               j == [job[r] EXCEPT !.revision = n.revision + 1, !.before = n.config]
    <2>1. pc'[r] = "store" /\ pc[r] = "rollback"  BY <1>0, <1>4 DEF ReadScope, Goto
    <2>2. job'[r] = j  BY <1>0, <1>4 DEF ReadScope
    <2>3. /\ j.revision = n.revision + 1 /\ j.before = n.config
          /\ j.scope = job[r].scope /\ j.after = job[r].after
      BY <1>0 DEF Jobs
    <2> HIDE DEF j
    <2> QED  BY <2>1, <2>2, <2>3
  <1>5. CASE AskAny(r)
    <2>1. ASSUME NEW op, NEW stage, NEW d, NEW w, Ask(r, op, stage, d, w)
          PROVE  pc'[r] = stage /\ job'[r].what = w
      BY <1>0, <2>1 DEF Ask, Goto, NoJob
    <2>2. pc'[r] \in {"create", "consume", "regroup", "touch", "mark", "enqueue"}
      BY <1>5, <2>1, Zenon DEF AskAny
    <2>3. pc'[r] = "enqueue" => NewCommand(job'[r].what)
      BY <1>5, <2>1 DEF AskAny
    <2> QED  BY <2>2, <2>3
  <1> QED  BY <1>1, <1>2, <1>3, <1>4, <1>5 DEF Begin

-----------------------------------------------------------------------------
(* Register codes.                                                          *)

(* A code for which a token was issued, or is about to be, is used up; only one
   request at a time is about to, and none when the token is out. *)
CodeInv ==
    "codes" \notin Fresh =>
        /\ \A c \in Codes : issued[c] <= 1 /\ (issued[c] # 0 => file["codes"][c] = "used")
        /\ \A r \in Requests : pc[r] = "issue" =>
             file["codes"][job[r].what] = "used" /\ issued[job[r].what] = 0
        /\ \A r, q \in Requests :
             pc[r] = "issue" /\ pc[q] = "issue" /\ job[r].what = job[q].what => r = q

(* Steps that touch neither the codes nor the requests that issue. *)
LEMMA CodeSame ==
  ASSUME CodeInv, "codes" \notin Fresh => UNCHANGED <<file["codes"]>>, UNCHANGED issued,
         \A r \in Requests : pc'[r] = "issue" => pc[r] = "issue" /\ job'[r] = job[r]
  PROVE  CodeInv'
  BY DEF CodeInv

(* A callback of updateJson gives a token for a code only by using it up. *)
LEMMA CodeUpdate ==
  ASSUME TypeInv, CodeInv, NEW r \in Requests, Update(r)
  PROVE  CodeInv'
  <1> SUFFICES ASSUME "codes" \notin Fresh PROVE CodeInv'  BY DEF CodeInv
  <1>0. /\ OneMoves(r) /\ current[r] # None /\ "codes" \in Files
        /\ \A f \in Files \ {FileOf(r)} : file'[f] = file[f]
        /\ pc \in [Requests -> PCs] /\ job \in [Requests -> Jobs]
        /\ file["codes"] \in [Codes -> {"absent", "unused", "used"}]
    BY UpdateMoves, FilesAre DEF TypeInv, RequestsOK, StorageOK, FileSet
  <1>1. CASE CreateRegisterCode(r) \/ ConsumeRegisterCode(r)
    <2> DEFINE c == job[r].what
    <2>1. pc[r] \in {"create", "consume"} /\ UNCHANGED issued
      BY <1>1 DEF CreateRegisterCode, ConsumeRegisterCode
    <2>2. c \in Codes /\ FileOf(r) = "codes" /\ current[r] = file["codes"]
      BY <1>0, <2>1, CodeTyped DEF TypeInv, LockInv, Holds
    <2>3. \E new \in {"absent", "unused", "used"} :
            /\ file' = [file EXCEPT !["codes"] = [file["codes"] EXCEPT ![c] = new]]
            /\ file["codes"][c] = "used" => new = "used"
            /\ pc'[r] = "issue" => new = "used" /\ file["codes"][c] = "unused" /\ job'[r] = job[r]
      <3>1. CASE CreateRegisterCode(r)
        <4>1. pc'[r] = "idle"  BY <1>0, <3>1 DEF CreateRegisterCode, Finish, Goto
        <4> DEFINE new == IF file["codes"][c] = "absent" THEN "unused" ELSE file["codes"][c]
        <4>2. file' = [file EXCEPT !["codes"] = [file["codes"] EXCEPT ![c] = new]]
          BY <2>2, <3>1 DEF CreateRegisterCode, Replace
        <4>3. new \in {"absent", "unused", "used"} /\ (file["codes"][c] = "used" => new = "used")
          BY <1>0, <2>2
        <4> QED  BY <4>1, <4>2, <4>3
      <3>2. CASE ConsumeRegisterCode(r)
        <4> DEFINE good == file["codes"][c] = "unused" /\ c \notin expired
                   new == IF good THEN "used" ELSE file["codes"][c]
        <4>1. CASE good
          <5>1. file' = [file EXCEPT !["codes"] = [file["codes"] EXCEPT ![c] = "used"]]
                /\ UNCHANGED job
            BY <2>2, <3>2, <4>1 DEF ConsumeRegisterCode, Replace
          <5> QED  BY <4>1, <5>1
        <4>2. CASE ~good
          <5>1. file' = [file EXCEPT !["codes"] = file["codes"]] /\ Goto(r, "idle")
            BY <2>2, <3>2, <4>2 DEF ConsumeRegisterCode, Replace, Finish
          <5>2. file["codes"] = [file["codes"] EXCEPT ![c] = file["codes"][c]]  BY <1>0
          <5>3. pc'[r] = "idle" /\ file["codes"][c] \in {"absent", "unused", "used"}
            BY <1>0, <2>2, <5>1 DEF Goto
          <5> QED  BY <5>1, <5>2, <5>3
        <4> QED  BY <4>1, <4>2
      <3> QED  BY <1>1, <3>1, <3>2
    <2>4. PICK new \in {"absent", "unused", "used"} :
            /\ file'["codes"] = [file["codes"] EXCEPT ![c] = new]
            /\ file["codes"][c] = "used" => new = "used"
            /\ pc'[r] = "issue" => new = "used" /\ file["codes"][c] = "unused" /\ job'[r] = job[r]
      BY <1>0, <2>3 DEF TypeInv, StorageOK
    <2>5. \A k \in Codes : file["codes"][k] = "used" => file'["codes"][k] = "used"
      BY <1>0, <2>2, <2>4
    <2>6. \A q \in Requests \ {r} : pc[q] = "issue" => job[q].what \in Codes
      BY DEF TypeInv, RequestsOK, JobOK
    <2>7. issued \in [Codes -> Nat]  BY DEF TypeInv, HistoryOK
    <2>8. pc'[r] = "issue" => issued[c] = 0 /\ file'["codes"][c] = "used" /\ job'[r].what = c
      BY <1>0, <2>2, <2>4, <2>7 DEF CodeInv
    <2>9. \A q \in Requests \ {r} : pc[q] = "issue" =>
            file["codes"][job[q].what] = "used" /\ issued[job[q].what] = 0
      BY DEF CodeInv
    <2>10. pc'[r] = "issue" => \A q \in Requests \ {r} : pc[q] = "issue" => job[q].what # c
      BY <2>4, <2>9
    <2> QED  BY <1>0, <2>1, <2>5, <2>6, <2>7, <2>8, <2>9, <2>10 DEF CodeInv, OneMoves
  <1>2. CASE IssueDeviceToken(r)
    <2> DEFINE c == job[r].what
    <2>1. /\ pc[r] = "issue" /\ issued' = [issued EXCEPT ![c] = @ + 1] /\ Finish(r)
          /\ FileOf(r) = "devices"
      BY <1>2 DEF IssueDeviceToken, FileOf
    <2>2. file'["codes"] = file["codes"] /\ pc'[r] = "idle"  BY <1>0, <2>1 DEF Finish, Goto
    <2>3. c \in Codes /\ issued \in [Codes -> Nat] /\ issued[c] = 0 /\ file["codes"][c] = "used"
      BY <2>1 DEF TypeInv, RequestsOK, JobOK, HistoryOK, CodeInv
    <2>4. \A q \in Requests \ {r} : pc[q] = "issue" => job[q].what # c /\ job[q].what \in Codes
      BY <2>1 DEF CodeInv, TypeInv, RequestsOK, JobOK
    <2> QED  BY <1>0, <2>1, <2>2, <2>3, <2>4 DEF CodeInv, OneMoves
  <1>3. CASE Store(r)
    <2>1. FileOf(r) # "codes" /\ pc'[r] = "append" /\ UNCHANGED issued
      BY <1>0, <1>3, StoreTyped, ScopesAre DEF Store, Goto, Kinds
    <2> QED  BY <1>0, <2>1, CodeSame DEF OneMoves
  <1>4. CASE MarkConsumed(r)
    <2>1. FileOf(r) # "codes" /\ pc'[r] = "touch" /\ UNCHANGED issued
      BY <1>0, <1>4 DEF MarkConsumed, Goto, FileOf
    <2> QED  BY <1>0, <2>1, CodeSame DEF OneMoves
  <1>5. CASE AppendHistory(r) \/ SetDeviceGroup(r) \/ TouchDeviceSeen(r) \/ EnqueuePasswordUpdate(r)
    <2>1. pc[r] \in {"append", "regroup", "touch", "enqueue"} /\ UNCHANGED issued /\ Finish(r)
      BY <1>5 DEF AppendHistory, SetDeviceGroup, TouchDeviceSeen, EnqueuePasswordUpdate
    <2>2. FileOf(r) # "codes" /\ pc'[r] = "idle"  BY <1>0, <2>1 DEF FileOf, Finish, Goto
    <2> QED  BY <1>0, <2>1, <2>2, CodeSame DEF OneMoves
  <1> QED  BY <1>1, <1>2, <1>3, <1>4, <1>5 DEF Update

(* The default of a file of Fresh does not touch another file, and changes nothing but
   where it is late. *)
LEMMA DefaultKeeps ==
  ASSUME TypeInv, NEW r \in Requests, WriteDefault(r)
  PROVE  /\ \A f \in Files \ Fresh : file'[f] = file[f]
         /\ late \subseteq late' /\ \A f \in Files \ late' : file'[f] = file[f]
         /\ pc'[r] = "check" /\ UNCHANGED <<current, expired, past, issued, cut, crossed>>
  BY DEF WriteDefault, Goto, TypeInv, StorageOK, RequestsOK, JobOK, LockInv

(* Taking the lock and reading the file changes no file and no job. *)
LEMMA EnterKeeps ==
  ASSUME NEW r \in Requests, Enter(r)
  PROVE  UNCHANGED <<file, pc, job, expired, witness>>
  BY DEF Enter

(* A request that dies frees its lock and leaves the files as they are. *)
LEMMA DieKeeps ==
  ASSUME TypeInv, NEW r \in Requests, Die(r)
  PROVE  /\ pc'[r] = "idle" /\ current'[r] = None /\ (pc[r] = "append" => cut')
         /\ UNCHANGED <<file, past, issued, crossed>>
  BY DEF Die, Finish, Goto, TypeInv, RequestsOK

(* Every step keeps the bookkeeping of the codes. *)
LEMMA CodeStep == TypeInv /\ CodeInv /\ [Next]_vars => CodeInv'
  <1> SUFFICES ASSUME TypeInv, CodeInv, [Next]_vars PROVE CodeInv'  OBVIOUS
  <1>0. "codes" \in Files  BY FilesAre
  <1>1. ASSUME NEW r \in Requests, Begin(r)  PROVE CodeInv'
    BY <1>1, BeginSame, BeginMoves, CodeSame DEF OneMoves
  <1>2. ASSUME NEW r \in Requests, WriteDefault(r)  PROVE CodeInv'
    BY <1>0, <1>2, DefaultKeeps, OtherMoves, CodeSame DEF OneMoves
  <1>3. ASSUME NEW r \in Requests, Enter(r)  PROVE CodeInv'
    BY <1>3, EnterKeeps, CodeSame
  <1>4. ASSUME NEW r \in Requests, Update(r)  PROVE CodeInv'  BY <1>4, CodeUpdate
  <1>5. ASSUME NEW r \in Requests, Die(r)  PROVE CodeInv'
    BY <1>5, DieKeeps, OtherMoves, CodeSame DEF OneMoves
  <1>6. CASE CodeExpires \/ UNCHANGED vars  BY <1>6, CodeSame DEF CodeExpires, vars
  <1> QED  BY <1>1, <1>2, <1>3, <1>4, <1>5, <1>6, Steps

(* A register code is good for one token, however many requests present it at the
   same time and wherever they die, once its file exists (Auth.php:16-70). *)
THEOREM OneTokenPerCode ==
  ASSUME "codes" \notin Fresh
  PROVE  Spec => []CodeRegistersOnce
  <1>1. Init => CodeInv
    BY FilesAre DEF Init, CodeInv
  <1>2. TypeInv /\ CodeInv /\ [Next]_vars => CodeInv'  BY CodeStep
  <1>3. CodeInv => CodeRegistersOnce  BY DEF CodeInv, CodeRegistersOnce
  <1> QED  BY TypeInvariance, <1>1, <1>2, <1>3, PTL DEF Spec

-----------------------------------------------------------------------------
(* Rollbacks.                                                               *)

WasIn(s, config) == \E n \in past[s] : config = n.config

(* What is in force in a scope, what the history says was replaced there, and what a
   request carries to put there again, it has had. *)
PastFiles ==
    /\ \A s \in Scopes : Node(s) \in past[s] /\ Default(s.kind)[s.id] \in past[s]
    /\ \A i \in DOMAIN file["history"] :
         WasIn(file["history"][i].scope, file["history"][i].before)

PastRequest(r) ==
    /\ current[r] # None /\ pc[r] = "store" =>
         \A s \in Scopes : s.kind = job[r].scope.kind => current[r][s.id] \in past[s]
    /\ current[r] # None /\ pc[r] = "append" =>
         \A i \in DOMAIN current[r] : WasIn(current[r][i].scope, current[r][i].before)
    /\ pc[r] \in {"store", "append"} => WasIn(job[r].scope, job[r].before)
    /\ pc[r] = "rollback" \/ (pc[r] = "store" /\ job[r].op = "rollback") =>
         WasIn(job[r].scope, job[r].after)

PastInv == PastFiles /\ \A r \in Requests : PastRequest(r)

Grows == \A s \in Scopes : past[s] \subseteq past'[s]

(* The scopes of histories and of requests are scopes. *)
LEMMA HistoryScopes ==
  ASSUME TypeInv
  PROVE  /\ file["history"] \in Seq(Entries)
         /\ \A i \in DOMAIN file["history"] : file["history"][i].scope \in Scopes
         /\ \A r \in Requests : current[r] # None /\ pc[r] = "append" =>
              /\ current[r] \in Seq(Entries)
              /\ \A i \in DOMAIN current[r] : current[r][i].scope \in Scopes
  <1>1. file["history"] \in Seq(Entries)  BY FilesAre DEF TypeInv, StorageOK, FileSet
  <1>2. \A h \in Seq(Entries) : \A i \in DOMAIN h : h[i].scope \in Scopes
    <2>1. \A h \in Seq(Entries) : \A i \in DOMAIN h : h[i] \in Entries  OBVIOUS
    <2>2. \A e \in Entries : e.scope \in Scopes  BY DEF Entries
    <2> QED  BY <2>1, <2>2
  <1>3. \A r \in Requests : current[r] # None /\ pc[r] = "append" => current[r] \in Seq(Entries)
    BY AppendTyped
  <1> QED  BY <1>1, <1>2, <1>3

(* Another request's step leaves what a request carries in the past. *)
LEMMA PastOther ==
  ASSUME TypeInv, NEW r \in Requests, NEW q \in Requests \ {r}, OneMoves(r), Grows, PastRequest(q)
  PROVE  PastRequest(q)'
  <1>1. pc'[q] = pc[q] /\ job'[q] = job[q] /\ current'[q] = current[q]  BY DEF OneMoves
  <1>2. pc[q] \in {"store", "append", "rollback"} => job[q].scope \in Scopes
    BY DEF TypeInv, RequestsOK, JobOK
  <1> QED  BY <1>1, <1>2, HistoryScopes DEF PastRequest, WasIn, Grows

(* A publish or a rollback starts from a config that was in force in its scope. *)
LEMMA PastBegin ==
  ASSUME TypeInv, PastInv, NEW r \in Requests, Begin(r)
  PROVE  PastInv'
  <1>1. /\ OneMoves(r) /\ current'[r] = None /\ UNCHANGED <<file, past>>
    BY BeginSame
  <1>2. Grows  BY <1>1 DEF Grows
  <1>3. \A q \in Requests \ {r} : PastRequest(q)'  BY <1>1, <1>2, PastOther DEF PastInv
  <1>4. RequestsOK'  BY BeginTypes DEF TypeInv
  <1>5. pc'[r] = "store" => WasIn(job'[r].scope, job'[r].before)
    <2> SUFFICES ASSUME pc'[r] = "store" PROVE WasIn(job'[r].scope, job'[r].before)  OBVIOUS
    <2>1. job'[r].scope \in Scopes  BY <1>4 DEF RequestsOK, JobOK
    <2>2. job'[r].before = Node(job'[r].scope).config  BY BeginMoves
    <2> QED  BY <2>1, <2>2 DEF PastInv, PastFiles, WasIn
  <1>6. pc'[r] = "rollback" \/ (pc'[r] = "store" /\ job'[r].op = "rollback")
        => WasIn(job'[r].scope, job'[r].after)
    BY BeginMoves DEF PastInv, PastFiles, PastRequest
  <1>7. PastRequest(r)'  BY <1>1, <1>5, <1>6, BeginMoves DEF PastRequest, WasIn
  <1>8. PastFiles'  BY <1>1 DEF PastInv, PastFiles, Node, WasIn
  <1> QED  BY <1>3, <1>7, <1>8 DEF PastInv

(* A default brings nothing into force that was not. *)
LEMMA PastDefault ==
  ASSUME TypeInv, PastInv, NEW r \in Requests, WriteDefault(r)
  PROVE  PastInv'
  <1>1. OneMoves(r) /\ pc'[r] = "check" /\ UNCHANGED past  BY OtherMoves, DefaultKeeps
  <1>2. Grows  BY <1>1 DEF Grows
  <1>3. \A q \in Requests \ {r} : PastRequest(q)'  BY <1>1, <1>2, PastOther DEF PastInv
  <1>4. PastRequest(r)'  BY <1>1 DEF PastRequest
  <1>5. PICK f \in Files : file' = [file EXCEPT ![f] = Default(f)]
    BY DEF WriteDefault, TypeInv, RequestsOK, JobOK
  <1>6. DOMAIN file = Files /\ "history" \in Files  BY FilesAre DEF TypeInv, StorageOK
  <1>7. ASSUME NEW s \in Scopes  PROVE Node(s)' \in past'[s] /\ Default(s.kind)[s.id] \in past'[s]
    <2>1. s.kind \in Files  BY ScopesAre, NodeFiles
    <2>2. Node(s)' \in {Node(s), Default(s.kind)[s.id]}  BY <1>5, <1>6, <2>1 DEF Node
    <2> QED  BY <1>1, <2>2 DEF PastInv, PastFiles
  <1>8. ASSUME NEW i \in DOMAIN file["history"]'
        PROVE  WasIn(file["history"][i].scope, file["history"][i].before)'
    <2>1. CASE f = "history"
      <3>1. file'["history"] = << >>  BY <1>5, <1>6, <2>1 DEF Default
      <3> QED  BY <3>1
    <2>2. CASE f # "history"  BY <1>1, <1>5, <1>6, <2>2 DEF PastInv, PastFiles, WasIn
    <2> QED  BY <2>1, <2>2
  <1>9. PastFiles'  BY <1>7, <1>8 DEF PastFiles
  <1> QED  BY <1>3, <1>4, <1>9 DEF PastInv

(* What is read under the lock is what the file holds. *)
LEMMA PastEnter ==
  ASSUME TypeInv, PastInv, NEW r \in Requests, Enter(r)
  PROVE  PastInv'
  <1>1. OneMoves(r) /\ UNCHANGED <<file, pc, job, past>>  BY OtherMoves, EnterKeeps
  <1>2. Grows  BY <1>1 DEF Grows
  <1>3. \A q \in Requests \ {r} : PastRequest(q)'  BY <1>1, <1>2, PastOther DEF PastInv
  <1>4. current'[r] = file[FileOf(r)]  BY DEF Enter, TypeInv, RequestsOK
  <1>5. pc[r] = "store" => FileOf(r) = job[r].scope.kind  BY DEF FileOf
  <1>6. pc[r] = "append" => FileOf(r) = "history"  BY DEF FileOf
  <1>7. PastRequest(r)'
    BY <1>1, <1>4, <1>5, <1>6 DEF PastInv, PastFiles, PastRequest, WasIn, Node
  <1>8. PastFiles'  BY <1>1 DEF PastInv, PastFiles, Node, WasIn
  <1> QED  BY <1>3, <1>7, <1>8 DEF PastInv

(* What the two updates of a publish or a rollback do. *)
LEMMA StoreIs ==
  ASSUME TypeInv, NEW r \in Requests, Store(r)
  PROVE  LET s == job[r].scope IN
         /\ pc[r] = "store" /\ pc'[r] = "append" /\ UNCHANGED <<job, issued, cut>>
         /\ s \in Scopes /\ s.kind \in Kinds /\ FileOf(r) = s.kind /\ NewNode(r) \in Nodes
         /\ Node(s)' = NewNode(r)
         /\ \A t \in Scopes : t # s /\ t.kind = s.kind => Node(t)' = current[r][t.id]
         /\ \A t \in Scopes : t.kind # s.kind => Node(t)' = Node(t)
         /\ file'["history"] = file["history"]
         /\ past' = [past EXCEPT ![s] = @ \cup {NewNode(r)}]
         /\ crossed' = (crossed \/ \E q \in Requests \ {r} : pc[q] = "store" /\ job[q].scope = s)
  <1> DEFINE s == job[r].scope
  <1>1. /\ pc[r] = "store" /\ Replace(r, [current[r] EXCEPT ![s.id] = NewNode(r)])
        /\ past' = [past EXCEPT ![s] = @ \cup {NewNode(r)}]
        /\ crossed' = (crossed \/ \E q \in Requests \ {r} : pc[q] = "store" /\ job[q].scope = s)
        /\ Goto(r, "append") /\ UNCHANGED <<job, issued, cut>>
    BY DEF Store, NewNode
  <1>2. pc'[r] = "append"  BY <1>1 DEF Goto, TypeInv, RequestsOK
  <1>3. /\ s \in Scopes /\ FileOf(r) = s.kind /\ NewNode(r) \in Nodes
        /\ current[r] \in [Ids(s.kind) -> Nodes]
    BY <1>1, StoreTyped DEF Replace
  <1>4. s.kind \in Kinds /\ s.id \in Ids(s.kind)  BY <1>3, ScopesAre
  <1>5. file' = [file EXCEPT ![s.kind] = [current[r] EXCEPT ![s.id] = NewNode(r)]]
    BY <1>1, <1>3 DEF Replace
  <1>6. DOMAIN file = Files /\ s.kind \in Files /\ "history" \in Files /\ s.kind # "history"
    BY <1>4, FilesAre, NodeFiles DEF TypeInv, StorageOK, Kinds
  <1>7. file'[s.kind] = [current[r] EXCEPT ![s.id] = NewNode(r)]  BY <1>5, <1>6
  <1>8. Node(s)' = NewNode(r)  BY <1>1, <1>3, <1>4, <1>7 DEF Node
  <1>9. ASSUME NEW t \in Scopes, t # s, t.kind = s.kind  PROVE Node(t)' = current[r][t.id]
    <2>1. t.id # s.id /\ t.id \in Ids(s.kind)  BY <1>3, <1>9, ScopesAre
    <2> QED  BY <1>3, <1>7, <1>9, <2>1 DEF Node
  <1>10. ASSUME NEW t \in Scopes, t.kind # s.kind  PROVE Node(t)' = Node(t)
    <2>1. t.kind \in Files  BY ScopesAre, NodeFiles
    <2> QED  BY <1>5, <1>6, <1>10, <2>1 DEF Node
  <1>11. file'["history"] = file["history"]  BY <1>5, <1>6
  <1> QED  BY <1>1, <1>2, <1>3, <1>4, <1>8, <1>9, <1>10, <1>11

(* The history gets the entry of the request at its end, and may lose its first. *)
LEMMA AppendIs ==
  ASSUME TypeInv, NEW r \in Requests, AppendHistory(r)
  PROVE  /\ pc[r] = "append" /\ pc'[r] = "idle" /\ FileOf(r) = "history"
         /\ UNCHANGED <<past, issued, cut, crossed>>
         /\ \A s \in Scopes : Node(s)' = Node(s)
         /\ file'["history"] = NewHistory(r) /\ NewHistory(r) \in Seq(Entries)
         /\ current[r] \in Seq(Entries)
         /\ \A i \in DOMAIN NewHistory(r) :
              \/ \E k \in DOMAIN current[r] : NewHistory(r)[i] = current[r][k]
              \/ NewHistory(r)[i] = NewEntry(r)
         /\ Len(current[r]) < HistoryCap => NewHistory(r) = Append(current[r], NewEntry(r))
         /\ Len(current[r]) >= HistoryCap => Len(NewHistory(r)) = HistoryCap
  <1>1. /\ pc[r] = "append" /\ current[r] # None /\ Replace(r, NewHistory(r)) /\ Finish(r)
        /\ UNCHANGED <<past, issued, cut, crossed>>
    BY DEF AppendHistory, NewHistory, NewEntry, Replace
  <1>2. pc'[r] = "idle"  BY <1>1 DEF Finish, Goto, TypeInv, RequestsOK
  <1>3. /\ FileOf(r) = "history" /\ NewEntry(r) \in Entries
        /\ current[r] \in Seq(Entries) /\ Len(current[r]) <= HistoryCap
        /\ NewHistory(r) \in FileSet("history")
    BY <1>1, AppendTyped
  <1>4. file' = [file EXCEPT !["history"] = NewHistory(r)] /\ DOMAIN file = Files
        /\ "history" \in Files
    BY <1>1, <1>3, FilesAre DEF Replace, TypeInv, StorageOK
  <1>5. ASSUME NEW s \in Scopes  PROVE Node(s)' = Node(s)
    <2>1. s.kind # "history" /\ s.kind \in Files  BY ScopesAre, NodeFiles DEF Kinds
    <2> QED  BY <1>4, <2>1 DEF Node
  <1> DEFINE all == Append(current[r], NewEntry(r))
  <1>6. /\ all \in Seq(Entries) /\ Len(all) = Len(current[r]) + 1
        /\ \A i \in 1 .. Len(current[r]) : all[i] = current[r][i]
        /\ all[Len(all)] = NewEntry(r)
    BY <1>3
  <1>7. ASSUME NEW i \in DOMAIN all
        PROVE  (\E k \in DOMAIN current[r] : all[i] = current[r][k]) \/ all[i] = NewEntry(r)
    <2>1. CASE i = Len(all)  BY <1>6, <2>1
    <2>2. CASE i # Len(all)
      <3>1. i \in DOMAIN current[r]  BY <1>3, <1>6, <2>2
      <3> QED  BY <1>3, <1>6, <3>1
    <2> QED  BY <2>1, <2>2
  <1>8. CASE Len(all) > HistoryCap
    <2>1. NewHistory(r) = Tail(all)  BY <1>8 DEF NewHistory
    <2>2. Len(NewHistory(r)) = Len(all) - 1
          /\ \A i \in 1 .. Len(NewHistory(r)) : NewHistory(r)[i] = all[i + 1] /\ i + 1 \in DOMAIN all
      BY <1>6, <1>8, <2>1
    <2>3. NewHistory(r) \in Seq(Entries)  BY <1>3 DEF FileSet
    <2>4. Len(current[r]) = HistoryCap  BY <1>3, <1>6, <1>8
    <2> HIDE DEF all
    <2>5. \A i \in DOMAIN NewHistory(r) :
              \/ \E k \in DOMAIN current[r] : NewHistory(r)[i] = current[r][k]
              \/ NewHistory(r)[i] = NewEntry(r)
      BY <1>7, <2>2, <2>3
    <2> QED  BY <1>1, <1>2, <1>3, <1>4, <1>5, <1>6, <2>2, <2>3, <2>4, <2>5
  <1>9. CASE ~(Len(all) > HistoryCap)
    <2>1. NewHistory(r) = all  BY <1>9 DEF NewHistory
    <2>2. Len(current[r]) < HistoryCap  BY <1>3, <1>6, <1>9
    <2> QED  BY <1>1, <1>2, <1>3, <1>4, <1>5, <1>6, <1>7, <2>1, <2>2
  <1> QED  BY <1>8, <1>9

(* The other updates: no scope and no history is written. *)
LEMMA OthersAre ==
  ASSUME TypeInv, NEW r \in Requests, Update(r), ~Store(r), ~AppendHistory(r)
  PROVE  /\ pc[r] \notin {"store", "append"} /\ pc'[r] \in {"idle", "issue", "touch"}
         /\ \A s \in Scopes : Node(s)' = Node(s)
         /\ file'["history"] = file["history"] /\ UNCHANGED <<past, cut, crossed>>
         /\ FileOf(r) \in {"codes", "devices", "queue"}
  <1>1. /\ pc[r] \in {"create", "consume", "issue", "regroup", "mark", "touch", "enqueue"}
        /\ Finish(r) \/ Goto(r, "issue") \/ Goto(r, "touch")
        /\ UNCHANGED <<past, cut, crossed>>
    BY DEF Update, CreateRegisterCode, ConsumeRegisterCode, IssueDeviceToken, SetDeviceGroup,
      MarkConsumed, TouchDeviceSeen, EnqueuePasswordUpdate
  <1>2. pc'[r] \in {"idle", "issue", "touch"}  BY <1>1 DEF Finish, Goto, TypeInv, RequestsOK
  <1>3. FileOf(r) \in {"codes", "devices", "queue"}  BY <1>1 DEF FileOf
  <1>4. \A k \in Kinds \cup {"history"} : k \in Files \ {FileOf(r)}
    BY <1>3, FilesAre DEF Kinds
  <1>5. \A k \in Kinds \cup {"history"} : file'[k] = file[k]  BY <1>4, UpdateMoves
  <1>6. \A s \in Scopes : Node(s)' = Node(s)  BY <1>5, ScopesAre DEF Node
  <1> QED  BY <1>1, <1>2, <1>3, <1>5, <1>6

(* What an update puts in force is noted with it. *)
LEMMA PastUpdate ==
  ASSUME TypeInv, PastInv, NEW r \in Requests, Update(r)
  PROVE  PastInv'
  <1>0. OneMoves(r) /\ current'[r] = None /\ current[r] # None  BY UpdateMoves
  <1>1. CASE Store(r)
    <2> DEFINE s == job[r].scope
    <2>1. /\ pc[r] = "store" /\ pc'[r] = "append" /\ UNCHANGED job /\ s \in Scopes
          /\ Node(s)' = NewNode(r)
          /\ \A t \in Scopes : t # s /\ t.kind = s.kind => Node(t)' = current[r][t.id]
          /\ \A t \in Scopes : t.kind # s.kind => Node(t)' = Node(t)
          /\ file'["history"] = file["history"]
          /\ past' = [past EXCEPT ![s] = @ \cup {NewNode(r)}]
      BY <1>1, StoreIs
    <2>2. past \in [Scopes -> SUBSET Nodes]  BY DEF TypeInv, HistoryOK
    <2>3. Grows /\ NewNode(r) \in past'[s]  BY <2>1, <2>2 DEF Grows
    <2>4. \A q \in Requests \ {r} : PastRequest(q)'  BY <1>0, <2>3, PastOther DEF PastInv
    <2>5. PastRequest(r)'
      <3>1. WasIn(s, job[r].before)  BY <2>1 DEF PastInv, PastRequest
      <3>2. WasIn(job[r].scope, job[r].before)'  BY <2>1, <2>3, <3>1 DEF WasIn, Grows
      <3> QED  BY <1>0, <2>1, <3>2 DEF PastRequest
    <2>6. ASSUME NEW t \in Scopes  PROVE Node(t)' \in past'[t] /\ Default(t.kind)[t.id] \in past'[t]
      <3>1. CASE t = s
        <4>1. Node(t)' = NewNode(r)  BY <2>1, <3>1
        <4> QED  BY <2>3, <3>1, <4>1 DEF PastInv, PastFiles, Grows
      <3>2. CASE t # s /\ t.kind = s.kind
        BY <1>0, <2>1, <2>3, <3>2 DEF PastInv, PastFiles, PastRequest, Grows
      <3>3. CASE t.kind # s.kind  BY <2>1, <2>3, <3>3 DEF PastInv, PastFiles, Grows
      <3> QED  BY <3>1, <3>2, <3>3
    <2>7. \A i \in DOMAIN file["history"] :
            WasIn(file["history"][i].scope, file["history"][i].before)'
      BY <2>1, <2>3, HistoryScopes DEF PastInv, PastFiles, WasIn, Grows
    <2>8. PastFiles'  BY <2>1, <2>6, <2>7 DEF PastFiles
    <2> QED  BY <2>4, <2>5, <2>8 DEF PastInv
  <1>2. CASE AppendHistory(r)
    <2>1. /\ pc[r] = "append" /\ pc'[r] = "idle" /\ UNCHANGED past
          /\ \A s \in Scopes : Node(s)' = Node(s)
          /\ file'["history"] = NewHistory(r)
          /\ \A i \in DOMAIN NewHistory(r) :
              \/ \E k \in DOMAIN current[r] : NewHistory(r)[i] = current[r][k]
              \/ NewHistory(r)[i] = NewEntry(r)
      BY <1>2, AppendIs
    <2>2. Grows  BY <2>1 DEF Grows
    <2>3. \A q \in Requests \ {r} : PastRequest(q)'  BY <1>0, <2>2, PastOther DEF PastInv
    <2>4. PastRequest(r)'  BY <2>1 DEF PastRequest
    <2>5. \A i \in DOMAIN NewHistory(r) : WasIn(NewHistory(r)[i].scope, NewHistory(r)[i].before)
      <3>1. WasIn(NewEntry(r).scope, NewEntry(r).before)
        BY <2>1 DEF PastInv, PastRequest, NewEntry
      <3>2. \A k \in DOMAIN current[r] : WasIn(current[r][k].scope, current[r][k].before)
        BY <1>0, <2>1 DEF PastInv, PastRequest
      <3> QED  BY <2>1, <3>1, <3>2
    <2>6. \A i \in DOMAIN file["history"]' :
            WasIn(file["history"][i].scope, file["history"][i].before)'
      BY <2>1, <2>5 DEF WasIn
    <2>7. PastFiles'  BY <2>1, <2>6 DEF PastInv, PastFiles
    <2> QED  BY <2>3, <2>4, <2>7 DEF PastInv
  <1>3. CASE ~Store(r) /\ ~AppendHistory(r)
    <2>1. /\ pc'[r] \in {"idle", "issue", "touch"} /\ UNCHANGED past
          /\ \A s \in Scopes : Node(s)' = Node(s)
          /\ file'["history"] = file["history"]
      BY <1>3, OthersAre
    <2>2. Grows  BY <2>1 DEF Grows
    <2>3. \A q \in Requests \ {r} : PastRequest(q)'  BY <1>0, <2>2, PastOther DEF PastInv
    <2>4. PastRequest(r)'  BY <2>1 DEF PastRequest
    <2>5. PastFiles'  BY <2>1 DEF PastInv, PastFiles, WasIn
    <2> QED  BY <2>3, <2>4, <2>5 DEF PastInv
  <1> QED  BY <1>1, <1>2, <1>3

(* Every step keeps what is in force, and what the history tells, in the past. *)
LEMMA PastStep == TypeInv /\ PastInv /\ [Next]_vars => PastInv'
  <1> SUFFICES ASSUME TypeInv, PastInv, [Next]_vars PROVE PastInv'  OBVIOUS
  <1>1. ASSUME NEW r \in Requests, Die(r)  PROVE PastInv'
    <2>1. OneMoves(r) /\ pc'[r] = "idle" /\ UNCHANGED <<file, past>>
      BY <1>1, OtherMoves, DieKeeps
    <2>2. Grows  BY <2>1 DEF Grows
    <2>3. \A q \in Requests \ {r} : PastRequest(q)'  BY <2>1, <2>2, PastOther DEF PastInv
    <2>4. PastRequest(r)'  BY <2>1 DEF PastRequest
    <2>5. PastFiles'  BY <2>1 DEF PastInv, PastFiles, Node, WasIn
    <2> QED  BY <2>3, <2>4, <2>5 DEF PastInv
  <1>2. CASE CodeExpires \/ UNCHANGED vars
    <2>1. UNCHANGED <<file, past, pc, job, current>>  BY <1>2 DEF CodeExpires, vars
    <2> QED  BY <2>1 DEF PastInv, PastFiles, PastRequest, Node, WasIn
  <1> QED  BY <1>1, <1>2, Steps, PastBegin, PastDefault, PastEnter, PastUpdate

(* Before the first request, a scope has had its default. *)
LEMMA PastInit == Init => PastInv
  <1> SUFFICES ASSUME Init PROVE PastInv  OBVIOUS
  <1> USE DEF Init
  <1>1. \A s \in Scopes : Node(s) = Default(s.kind)[s.id]  BY ScopesAre, NodeFiles DEF Node
  <1>2. file["history"] = << >>  BY FilesAre DEF Default
  <1>3. PastFiles  BY <1>1, <1>2 DEF PastFiles
  <1>4. \A r \in Requests : PastRequest(r)  BY DEF PastRequest
  <1> QED  BY <1>3, <1>4 DEF PastInv

(* A rollback brings back something the scope has had before, whatever is published
   meanwhile and whichever files are still to be made (ManagementService.php:296-314). *)
THEOREM RollbacksComeFromThePast == Spec => []RollbackReturnsToThePast
  <1>1. PastInv => RollbackReturnsToThePast
    BY DEF PastInv, PastRequest, WasIn, RollbackReturnsToThePast
  <1> QED  BY TypeInvariance, PastInit, PastStep, <1>1, PTL DEF Spec

-----------------------------------------------------------------------------
(* Revisions.                                                               *)

(* The files of the scopes exist. *)
ScopesExist == Kinds \cap Fresh = {}

(* Until two requests have read the same state of a scope to store it: the one in
   force has the highest revision, and a request that stores carries the next. *)
RevisionInv ==
    ~crossed =>
        /\ \A s \in Scopes :
             /\ \A m, n \in past[s] : m.revision = n.revision => m = n
             /\ \A n \in past[s] : n.revision <= Node(s).revision
        /\ \A r \in Requests :
             pc[r] = "store" => job[r].revision = Node(job[r].scope).revision + 1

(* Steps that store nothing and begin no store. *)
LEMMA RevisionSame ==
  ASSUME TypeInv, RevisionInv, UNCHANGED <<past, crossed>>, \A s \in Scopes : Node(s)' = Node(s),
         \A r \in Requests : pc'[r] = "store" =>
             \/ pc[r] = "store" /\ job'[r] = job[r]
             \/ /\ job'[r].scope \in Scopes
                /\ job'[r].revision = Node(job'[r].scope).revision + 1
  PROVE  RevisionInv'
  <1>1. ASSUME ~crossed', NEW r \in Requests, pc'[r] = "store"
        PROVE  job'[r].revision = Node(job[r].scope)'.revision + 1
    <2>1. CASE pc[r] = "store" /\ job'[r] = job[r]
      <3>1. job[r].scope \in Scopes  BY <2>1 DEF TypeInv, RequestsOK, JobOK
      <3>2. Node(job[r].scope)' = Node(job[r].scope)  BY <2>1, <3>1 DEF Node
      <3> QED  BY <1>1, <2>1, <3>2 DEF RevisionInv
    <2>2. CASE job'[r].scope \in Scopes /\ job'[r].revision = Node(job'[r].scope).revision + 1
      <3>1. Node(job[r].scope)' = Node(job'[r].scope)  BY <2>2 DEF Node
      <3> QED  BY <2>2, <3>1
    <2> QED  BY <1>1, <2>1, <2>2
  <1> QED  BY <1>1 DEF RevisionInv

(* A store that nothing crossed gives its revision to one config. *)
LEMMA RevisionUpdate ==
  ASSUME TypeInv, PastInv, ScopesExist, RevisionInv, NEW r \in Requests, Update(r)
  PROVE  RevisionInv'
  <1>0. OneMoves(r) /\ current[r] # None  BY UpdateMoves
  <1>1. CASE Store(r)
    <2> SUFFICES ASSUME ~crossed' PROVE RevisionInv'  BY DEF RevisionInv
    <2> DEFINE s == job[r].scope
               new == NewNode(r)
    <2>1. /\ pc[r] = "store" /\ pc'[r] = "append" /\ UNCHANGED job /\ s \in Scopes
          /\ s.kind \in Kinds /\ FileOf(r) = s.kind /\ Node(s)' = new /\ new \in Nodes
          /\ \A t \in Scopes : t # s /\ t.kind = s.kind => Node(t)' = current[r][t.id]
          /\ \A t \in Scopes : t.kind # s.kind => Node(t)' = Node(t)
          /\ past' = [past EXCEPT ![s] = @ \cup {new}]
          /\ crossed' = (crossed \/ \E q \in Requests \ {r} : pc[q] = "store" /\ job[q].scope = s)
      BY <1>1, StoreIs
    <2>2. ~crossed /\ \A q \in Requests \ {r} : pc[q] = "store" => job[q].scope # s  BY <2>1
    <2>3. current[r] = file[s.kind]  BY <1>0, <2>1 DEF TypeInv, LockInv, Holds, ScopesExist
    <2>4. \A t \in Scopes \ {s} : Node(t)' = Node(t)  BY <2>1, <2>3 DEF Node
    <2>5. past \in [Scopes -> SUBSET Nodes] /\ \A n \in Nodes : n.revision \in Nat
      BY DEF TypeInv, HistoryOK, Nodes
    <2>6. new.revision = Node(s).revision + 1  BY <2>1, <2>2 DEF RevisionInv, NewNode
    <2>7. Node(s) \in Nodes /\ \A n \in past[s] : n.revision <= Node(s).revision
      BY <2>1, <2>2, NodeTyped DEF RevisionInv, TypeInv
    <2>8. \A n \in past[s] : n.revision < new.revision
      BY <2>1, <2>5, <2>6, <2>7
    <2>9. ASSUME NEW t \in Scopes
          PROVE  /\ \A m, n \in past'[t] : m.revision = n.revision => m = n
                 /\ \A n \in past'[t] : n.revision <= Node(t)'.revision
      <3>1. CASE t = s
        <4>1. past'[t] = past[s] \cup {new}  BY <2>1, <2>5, <3>1
        <4>2. Node(t)'.revision = new.revision /\ new.revision \in Nat  BY <2>1, <2>5, <3>1
        <4>3. \A m, n \in past[s] : m.revision = n.revision => m = n
          BY <2>1, <2>2 DEF RevisionInv
        <4>4. \A n \in past[s] : n.revision \in Nat  BY <2>1, <2>5
        <4> HIDE DEF new
        <4> QED  BY <2>8, <4>1, <4>2, <4>3, <4>4
      <3>2. CASE t # s
        <4>1. past'[t] = past[t] /\ Node(t)' = Node(t)  BY <2>1, <2>4, <2>5, <3>2
        <4> QED  BY <2>2, <4>1 DEF RevisionInv
      <3> QED  BY <3>1, <3>2
    <2>10. ASSUME NEW q \in Requests, pc'[q] = "store"
           PROVE  job'[q].revision = Node(job[q].scope)'.revision + 1
      <3>1. q # r /\ pc[q] = "store" /\ job'[q] = job[q]  BY <1>0, <2>1, <2>10 DEF OneMoves
      <3>2. job[q].scope \in Scopes \ {s}
        BY <2>2, <3>1 DEF TypeInv, RequestsOK, JobOK
      <3>3. Node(job[q].scope)' = Node(job[q].scope)
        BY <2>1, <2>3, <3>1, <3>2 DEF Node
      <3> QED  BY <2>2, <3>1, <3>3 DEF RevisionInv
    <2> QED  BY <2>9, <2>10 DEF RevisionInv
  <1>2. CASE AppendHistory(r)
    <2>1. pc'[r] = "idle" /\ UNCHANGED <<past, crossed>> /\ \A t \in Scopes : Node(t)' = Node(t)
      BY <1>2, AppendIs
    <2> QED  BY <1>0, <2>1, RevisionSame DEF OneMoves
  <1>3. CASE ~Store(r) /\ ~AppendHistory(r)
    <2>1. pc'[r] \in {"idle", "issue", "touch"} /\ UNCHANGED <<past, crossed>>
          /\ \A t \in Scopes : Node(t)' = Node(t)
      BY <1>3, OthersAre
    <2> QED  BY <1>0, <2>1, RevisionSame DEF OneMoves
  <1> QED  BY <1>1, <1>2, <1>3

(* Every step keeps revisions apart. *)
LEMMA RevisionStep ==
  TypeInv /\ PastInv /\ ScopesExist /\ RevisionInv /\ [Next]_vars => RevisionInv'
  <1> SUFFICES ASSUME TypeInv, PastInv, ScopesExist, RevisionInv, [Next]_vars PROVE RevisionInv'
    OBVIOUS
  <1>1. ASSUME NEW r \in Requests, Begin(r)  PROVE RevisionInv'
    <2>1. RequestsOK'  BY <1>1, BeginTypes DEF TypeInv
    <2>2. pc'[r] = "store" => job'[r].scope \in Scopes  BY <2>1 DEF RequestsOK, JobOK
    <2>3. \A s \in Scopes : Node(s)' = Node(s)  BY <1>1, BeginSame DEF Node
    <2> QED  BY <1>1, <2>2, <2>3, BeginSame, BeginMoves, RevisionSame DEF OneMoves
  <1>2. ASSUME NEW r \in Requests, WriteDefault(r)  PROVE RevisionInv'
    <2>1. \A k \in Kinds : file'[k] = file[k]
      BY <1>2, DefaultKeeps, NodeFiles DEF ScopesExist
    <2>2. \A s \in Scopes : Node(s)' = Node(s)  BY <2>1, ScopesAre DEF Node
    <2> QED  BY <1>2, <2>2, DefaultKeeps, OtherMoves, RevisionSame DEF OneMoves
  <1>3. ASSUME NEW r \in Requests, Enter(r)  PROVE RevisionInv'
    BY <1>3, EnterKeeps, RevisionSame DEF Node
  <1>4. ASSUME NEW r \in Requests, Update(r)  PROVE RevisionInv'  BY <1>4, RevisionUpdate
  <1>5. ASSUME NEW r \in Requests, Die(r)  PROVE RevisionInv'
    BY <1>5, DieKeeps, OtherMoves, RevisionSame DEF OneMoves, Node
  <1>6. CASE CodeExpires \/ UNCHANGED vars
    BY <1>6, RevisionSame DEF CodeExpires, vars, Node
  <1> QED  BY <1>1, <1>2, <1>3, <1>4, <1>5, <1>6, Steps

(* No revision has been given at first. *)
LEMMA RevisionInit == Init => RevisionInv
  <1> SUFFICES ASSUME Init PROVE RevisionInv  OBVIOUS
  <1> USE DEF Init
  <1>1. ASSUME NEW s \in Scopes
        PROVE  past[s] = {Node(s)} /\ Node(s).revision <= Node(s).revision
    <2>1. Node(s) = Default(s.kind)[s.id]  BY ScopesAre, NodeFiles DEF Node
    <2>2. Node(s).revision \in Nat
      BY InitTypeInv, NodeTyped DEF TypeInv
    <2> QED  BY <2>1, <2>2
  <1> QED  BY <1>1 DEF RevisionInv

(* A revision of a scope stands for one config, and the one in force is the highest
   the scope has had, as long as no two requests read the same state of a scope to
   store it; the files of the scopes exist (ManagementService.php:90, 111, 312-314). *)
THEOREM RevisionsNameConfigs ==
  ASSUME ScopesExist
  PROVE  Spec => []RevisionNamesConfig
  <1>1. TypeInv /\ PastInv /\ RevisionInv /\ [Next]_vars => RevisionInv'  BY RevisionStep
  <1>2. RevisionInv => RevisionNamesConfig  BY DEF RevisionInv, RevisionNamesConfig
  <1> QED  BY TypeInvariance, PastInit, PastStep, RevisionInit, <1>1, <1>2, PTL DEF Spec

-----------------------------------------------------------------------------
(* The history.                                                             *)

(* n was put in force in s by a change the history has, or is about to get; or it is
   what the scope began with. *)
Explained(s, n) ==
    \/ n = Default(s.kind)[s.id]
    \/ \E i \in DOMAIN file["history"] :
         LET e == file["history"][i] IN
           e.scope = s /\ n = [revision |-> e.revision, config |-> e.after]
    \/ \E r \in Requests : pc[r] = "append" /\ job[r].scope = s /\ n = NewNode(r)

Complete == ~cut /\ Len(file["history"]) < HistoryCap

(* While the history is complete it explains the files, and what a request has read
   of them to store the rest again. *)
HistoryInv ==
    Complete =>
        /\ \A s \in Scopes : Explained(s, Node(s))
        /\ \A r \in Requests : current[r] # None /\ pc[r] = "store" =>
             \A s \in Scopes : s.kind = job[r].scope.kind => Explained(s, current[r][s.id])

(* A step that loses no entry: what was explained stays so. *)
LEMMA ExplainedStays ==
  ASSUME \A i \in DOMAIN file["history"] :
           i \in DOMAIN file'["history"] /\ file'["history"][i] = file["history"][i],
         \A r \in Requests : pc[r] = "append" =>
           \/ pc'[r] = "append" /\ job'[r] = job[r]
           \/ \E i \in DOMAIN file'["history"] : file'["history"][i] = NewEntry(r)
  PROVE  \A s, n : Explained(s, n) => Explained(s, n)'
  <1> SUFFICES ASSUME NEW s, NEW n, Explained(s, n) PROVE Explained(s, n)'  OBVIOUS
  <1>1. CASE n = Default(s.kind)[s.id]
    <2>1. n = Default(s.kind)[s.id]'  BY <1>1
    <2> QED  BY <2>1 DEF Explained
  <1>2. CASE \E i \in DOMAIN file["history"] :
               LET e == file["history"][i] IN
                 e.scope = s /\ n = [revision |-> e.revision, config |-> e.after]
    BY <1>2 DEF Explained
  <1>3. ASSUME NEW r \in Requests, pc[r] = "append", job[r].scope = s, n = NewNode(r)
        PROVE  Explained(s, n)'
    <2>1. CASE pc'[r] = "append" /\ job'[r] = job[r]
      BY <1>3, <2>1 DEF Explained, NewNode
    <2>2. ASSUME NEW i \in DOMAIN file'["history"], file'["history"][i] = NewEntry(r)
          PROVE  Explained(s, n)'
      BY <1>3, <2>2 DEF Explained, NewNode, NewEntry
    <2> QED  BY <1>3, <2>1, <2>2
  <1> QED  BY <1>1, <1>2, <1>3 DEF Explained

(* How a step keeps the history's invariant: it loses no entry, puts nothing but
   explained nodes in force, and hands nothing but these to the requests. *)
LEMMA HistoryKept ==
  ASSUME HistoryInv, Complete' => Complete,
         \A s, n : Explained(s, n) => Explained(s, n)',
         Complete' => \A s \in Scopes : \E n : n = Node(s)' /\ Explained(s, n)',
         Complete' => \A r \in Requests : current'[r] # None /\ pc'[r] = "store" =>
           \/ current'[r] = current[r] /\ pc[r] = "store" /\ job'[r] = job[r]
           \/ \A s \in Scopes : s.kind = job'[r].scope.kind =>
                \E n : n = current'[r][s.id] /\ Explained(s, n)'
  PROVE  HistoryInv'
  <1> SUFFICES ASSUME Complete' PROVE HistoryInv'  BY DEF HistoryInv
  <1>1. ASSUME NEW s \in Scopes  PROVE Explained(s, Node(s))'
    <2>1. PICK n : n = Node(s)' /\ Explained(s, n)'  OBVIOUS
    <2> QED  BY <2>1 DEF Explained
  <1>2. ASSUME NEW r \in Requests, current'[r] # None, pc'[r] = "store", NEW s \in Scopes,
               s.kind = job'[r].scope.kind
        PROVE  Explained(s, current[r][s.id])'
    <2>1. \E n : n = current'[r][s.id] /\ Explained(s, n)'
      <3>1. CASE current'[r] = current[r] /\ pc[r] = "store" /\ job'[r] = job[r]
        <4>1. Explained(s, current[r][s.id])  BY <1>2, <3>1 DEF HistoryInv
        <4>2. PICK n : n = current[r][s.id] /\ Explained(s, n)  BY <4>1
        <4>3. n = current'[r][s.id] /\ Explained(s, n)'  BY <3>1, <4>2
        <4> QED  BY <4>3
      <3>2. CASE ~(current'[r] = current[r] /\ pc[r] = "store" /\ job'[r] = job[r])
        BY <1>2, <3>2
      <3> QED  BY <3>1, <3>2
    <2>2. PICK n : n = current'[r][s.id] /\ Explained(s, n)'  BY <2>1
    <2> QED  BY <2>2 DEF Explained
  <1> QED  BY <1>1, <1>2 DEF HistoryInv

(* A store puts its request on the way to the history; the append fills the gap. *)
LEMMA HistoryUpdate ==
  ASSUME TypeInv, "history" \notin Fresh, HistoryInv, NEW r \in Requests, Update(r), Complete'
  PROVE  HistoryInv'
  <1>0. OneMoves(r) /\ current[r] # None /\ current'[r] = None  BY UpdateMoves
  <1>1. CASE Store(r)
    <2> DEFINE s == job[r].scope
    <2>1. /\ pc[r] = "store" /\ pc'[r] = "append" /\ UNCHANGED <<job, cut>> /\ s \in Scopes
          /\ Node(s)' = NewNode(r)
          /\ \A t \in Scopes : t # s /\ t.kind = s.kind => Node(t)' = current[r][t.id]
          /\ \A t \in Scopes : t.kind # s.kind => Node(t)' = Node(t)
          /\ file'["history"] = file["history"]
      BY <1>1, StoreIs
    <2>2. Complete  BY <2>1 DEF Complete
    <2>3. \A t, n : Explained(t, n) => Explained(t, n)'
      BY <1>0, <2>1, ExplainedStays DEF OneMoves
    <2>4. ASSUME NEW t \in Scopes  PROVE \E n : n = Node(t)' /\ Explained(t, n)'
      <3>1. CASE t = s
        <4>1. PICK n : n = NewNode(r)  OBVIOUS
        <4>2. n = NewNode(r)'  BY <2>1, <4>1 DEF NewNode
        <4>3. Explained(t, n)'  BY <2>1, <3>1, <4>2 DEF Explained
        <4>4. n = Node(t)'  BY <2>1, <3>1, <4>1
        <4> QED  BY <4>3, <4>4
      <3>2. CASE t # s /\ t.kind = s.kind
        <4>1. Explained(t, current[r][t.id])  BY <1>0, <2>1, <2>2, <3>2 DEF HistoryInv
        <4>2. PICK n : n = current[r][t.id] /\ Explained(t, n)  BY <4>1
        <4> QED  BY <2>1, <2>3, <3>2, <4>2
      <3>3. CASE t.kind # s.kind
        <4>1. Explained(t, Node(t))  BY <2>2 DEF HistoryInv
        <4>2. PICK n : n = Node(t) /\ Explained(t, n)  BY <4>1
        <4> QED  BY <2>1, <2>3, <3>3, <4>2
      <3> QED  BY <3>1, <3>2, <3>3
    <2>5. \A q \in Requests : current'[q] # None /\ pc'[q] = "store"
            => current'[q] = current[q] /\ pc[q] = "store" /\ job'[q] = job[q]
      BY <1>0 DEF OneMoves
    <2> QED  BY <2>2, <2>3, <2>4, <2>5, HistoryKept
  <1>2. ASSUME ~Store(r), Complete, \A t, n : Explained(t, n) => Explained(t, n)',
               \A t \in Scopes : Node(t)' = Node(t)
        PROVE  HistoryInv'
    <2>1. ASSUME NEW t \in Scopes  PROVE \E n : n = Node(t)' /\ Explained(t, n)'
      <3>1. Explained(t, Node(t))  BY <1>2 DEF HistoryInv
      <3>2. PICK n : n = Node(t) /\ Explained(t, n)  BY <3>1
      <3> QED  BY <1>2, <3>2
    <2>2. \A q \in Requests : current'[q] # None /\ pc'[q] = "store"
            => current'[q] = current[q] /\ pc[q] = "store" /\ job'[q] = job[q]
      BY <1>0 DEF OneMoves
    <2> QED  BY <1>2, <2>1, <2>2, HistoryKept
  <1>3. CASE AppendHistory(r)
    <2>1. /\ pc[r] = "append" /\ FileOf(r) = "history" /\ UNCHANGED cut
          /\ \A t \in Scopes : Node(t)' = Node(t)
          /\ file'["history"] = NewHistory(r) /\ current[r] \in Seq(Entries)
          /\ Len(current[r]) < HistoryCap => NewHistory(r) = Append(current[r], NewEntry(r))
          /\ Len(current[r]) >= HistoryCap => Len(NewHistory(r)) = HistoryCap
      BY <1>3, AppendIs
    <2>2. current[r] = file["history"]  BY <1>0, <2>1 DEF TypeInv, LockInv, Holds
    <2>3. Len(current[r]) \in Nat  BY <2>1
    <2>4. Len(current[r]) < HistoryCap
      <3>1. Len(NewHistory(r)) < HistoryCap  BY <2>1 DEF Complete
      <3> QED  BY <2>1, <2>3, <3>1
    <2>5. file'["history"] = Append(file["history"], NewEntry(r)) /\ file["history"] \in Seq(Entries)
      BY <2>1, <2>2, <2>4
    <2>6. Complete  BY <2>1, <2>2, <2>4 DEF Complete
    <2>7. /\ \A i \in DOMAIN file["history"] :
               i \in DOMAIN file'["history"] /\ file'["history"][i] = file["history"][i]
          /\ \E i \in DOMAIN file'["history"] : file'["history"][i] = NewEntry(r)
      <3> DEFINE h == file["history"]
                 e == NewEntry(r)
      <3>1. h \in Seq(Entries)  BY <2>5
      <3>2. e \in Entries  BY <1>0, <2>1, AppendTyped
      <3> HIDE DEF h, e
      <3>3. /\ Len(Append(h, e)) = Len(h) + 1 /\ DOMAIN Append(h, e) = 1 .. Len(h) + 1
            /\ DOMAIN h = 1 .. Len(h) /\ Len(h) \in Nat
            /\ \A i \in 1 .. Len(h) : Append(h, e)[i] = h[i]
            /\ Append(h, e)[Len(h) + 1] = e
        BY <3>1, <3>2
      <3>4. /\ \A i \in DOMAIN h : i \in DOMAIN Append(h, e) /\ Append(h, e)[i] = h[i]
            /\ Len(h) + 1 \in DOMAIN Append(h, e)
        BY <3>3
      <3> QED  BY <2>5, <3>3, <3>4 DEF h, e
    <2>8. \A t, n : Explained(t, n) => Explained(t, n)'
      BY <1>0, <2>7, ExplainedStays DEF OneMoves
    <2>9. ~Store(r)  BY <2>1 DEF Store
    <2> QED  BY <1>2, <2>1, <2>6, <2>8, <2>9
  <1>4. CASE ~Store(r) /\ ~AppendHistory(r)
    <2>1. /\ pc[r] # "append" /\ UNCHANGED cut /\ \A t \in Scopes : Node(t)' = Node(t)
          /\ file'["history"] = file["history"]
      BY <1>4, OthersAre
    <2>2. Complete  BY <2>1 DEF Complete
    <2>3. \A t, n : Explained(t, n) => Explained(t, n)'
      BY <1>0, <2>1, ExplainedStays DEF OneMoves
    <2> QED  BY <1>2, <1>4, <2>1, <2>2, <2>3
  <1> QED  BY <1>1, <1>3, <1>4

(* Every step keeps the history complete, the changes on their way to it aside. *)
LEMMA HistoryStep == TypeInv /\ "history" \notin Fresh /\ HistoryInv /\ [Next]_vars => HistoryInv'
  <1> SUFFICES ASSUME TypeInv, "history" \notin Fresh, HistoryInv, [Next]_vars, Complete'
               PROVE  HistoryInv'
    BY DEF HistoryInv
  <1>1. ASSUME NEW r \in Requests, OneMoves(r), pc[r] # "append", UNCHANGED cut,
               file'["history"] = file["history"],
               \A s \in Scopes : Node(s)' = Node(s) \/ Node(s)' = Default(s.kind)[s.id],
               current'[r] # None /\ pc'[r] = "store" =>
                 \A s \in Scopes : s.kind = job'[r].scope.kind => current'[r][s.id] = Node(s)
        PROVE  HistoryInv'
    <2>1. Complete  BY <1>1 DEF Complete
    <2>2. \A s, n : Explained(s, n) => Explained(s, n)'
      BY <1>1, ExplainedStays DEF OneMoves
    <2>3. ASSUME NEW s \in Scopes  PROVE \E n : n = Node(s) /\ Explained(s, n)'
      <3>1. PICK n : n = Node(s) /\ Explained(s, n)  BY <2>1 DEF HistoryInv
      <3> QED  BY <2>2, <3>1
    <2>4. ASSUME NEW s \in Scopes  PROVE \E n : n = Node(s)' /\ Explained(s, n)'
      <3>1. CASE Node(s)' = Node(s)  BY <2>3, <3>1
      <3>2. CASE Node(s)' = Default(s.kind)[s.id]
        <4>1. PICK n : n = Default(s.kind)[s.id]  OBVIOUS
        <4>2. Explained(s, n)'  BY <4>1 DEF Explained
        <4> QED  BY <3>2, <4>1, <4>2
      <3> QED  BY <1>1, <3>1, <3>2
    <2>5. ASSUME NEW q \in Requests, current'[q] # None, pc'[q] = "store"
          PROVE  \/ current'[q] = current[q] /\ pc[q] = "store" /\ job'[q] = job[q]
                 \/ \A s \in Scopes : s.kind = job'[q].scope.kind =>
                      \E n : n = current'[q][s.id] /\ Explained(s, n)'
      <3>1. CASE q = r  BY <1>1, <2>3, <2>5, <3>1
      <3>2. CASE q # r  BY <1>1, <2>5, <3>2 DEF OneMoves
      <3> QED  BY <3>1, <3>2
    <2> QED  BY <2>1, <2>2, <2>4, <2>5, HistoryKept
  <1>2. ASSUME NEW r \in Requests, Begin(r)  PROVE HistoryInv'
    <2>1. pc[r] # "append"  BY <1>2, BeginSame DEF Stages
    <2>2. \A s \in Scopes : Node(s)' = Node(s)  BY <1>2, BeginSame DEF Node
    <2> QED  BY <1>1, <1>2, <2>1, <2>2, BeginSame
  <1>3. ASSUME NEW r \in Requests, WriteDefault(r)  PROVE HistoryInv'
    <2>1. OneMoves(r) /\ pc'[r] = "check" /\ UNCHANGED cut  BY <1>3, OtherMoves, DefaultKeeps
    <2>2. file'["history"] = file["history"]  BY <1>3, DefaultKeeps, FilesAre
    <2>3. pc[r] # "append"  BY <1>3 DEF WriteDefault
    <2>4. ASSUME NEW s \in Scopes  PROVE Node(s)' = Node(s) \/ Node(s)' = Default(s.kind)[s.id]
      <3>1. PICK f \in Files : file' = [file EXCEPT ![f] = Default(f)]
        BY <1>3 DEF WriteDefault, TypeInv, RequestsOK, JobOK
      <3>2. DOMAIN file = Files /\ s.kind \in Files  BY ScopesAre, NodeFiles DEF TypeInv, StorageOK
      <3> QED  BY <3>1, <3>2 DEF Node
    <2> QED  BY <1>1, <2>1, <2>2, <2>3, <2>4
  <1>4. ASSUME NEW r \in Requests, Enter(r)  PROVE HistoryInv'
    <2>1. OneMoves(r) /\ UNCHANGED <<file, pc, job, cut>>
      BY <1>4, OtherMoves, EnterKeeps
    <2>2. CASE pc[r] # "append"
      <3>1. current'[r] = file[FileOf(r)]  BY <1>4 DEF Enter, TypeInv, RequestsOK
      <3>2. pc'[r] = "store" => FileOf(r) = job'[r].scope.kind  BY <2>1 DEF FileOf
      <3>3. pc'[r] = "store" =>
              \A s \in Scopes : s.kind = job'[r].scope.kind => current'[r][s.id] = Node(s)
        BY <3>1, <3>2 DEF Node
      <3>4. \A s \in Scopes : Node(s)' = Node(s)  BY <2>1 DEF Node
      <3> QED  BY <1>1, <2>1, <2>2, <3>3, <3>4
    <2>3. CASE pc[r] = "append"
      <3>1. Complete /\ \A s \in Scopes : Node(s)' = Node(s)  BY <2>1 DEF Complete, Node
      <3>2. \A s, n : Explained(s, n) => Explained(s, n)'  BY <2>1, ExplainedStays
      <3>3. ASSUME NEW s \in Scopes  PROVE \E n : n = Node(s)' /\ Explained(s, n)'
        <4>1. PICK n : n = Node(s) /\ Explained(s, n)  BY <3>1 DEF HistoryInv
        <4> QED  BY <3>1, <3>2, <4>1
      <3>4. \A q \in Requests : current'[q] # None /\ pc'[q] = "store"
              => current'[q] = current[q] /\ pc[q] = "store" /\ job'[q] = job[q]
        BY <2>1, <2>3 DEF OneMoves
      <3> QED  BY <3>1, <3>2, <3>3, <3>4, HistoryKept
    <2> QED  BY <2>2, <2>3
  <1>5. ASSUME NEW r \in Requests, Update(r)  PROVE HistoryInv'  BY <1>5, HistoryUpdate
  <1>6. ASSUME NEW r \in Requests, Die(r)  PROVE HistoryInv'
    <2>1. /\ OneMoves(r) /\ pc'[r] = "idle" /\ (pc[r] = "append" => cut') /\ UNCHANGED file
      BY <1>6, OtherMoves, DieKeeps
    <2>2. pc[r] # "append"  BY <2>1 DEF Complete
    <2>3. cut' = cut
      BY <1>6, <2>2 DEF Die, TypeInv, HistoryOK
    <2>4. \A s \in Scopes : Node(s)' = Node(s)  BY <2>1 DEF Node
    <2> QED  BY <1>1, <2>1, <2>2, <2>3, <2>4
  <1>7. CASE CodeExpires \/ UNCHANGED vars
    <2>1. UNCHANGED <<file, pc, job, current, cut>>  BY <1>7 DEF CodeExpires, vars
    <2> QED  BY <2>1 DEF HistoryInv, Complete, Explained, NewNode, Node
  <1> QED  BY <1>2, <1>3, <1>4, <1>5, <1>6, <1>7, Steps

(* At the beginning every scope has its default. *)
LEMMA HistoryInit == Init => HistoryInv
  <1> SUFFICES ASSUME Init PROVE HistoryInv  OBVIOUS
  <1>1. ASSUME NEW s \in Scopes  PROVE Explained(s, Node(s))
    <2>1. s.kind \in Files  BY ScopesAre, NodeFiles
    <2> QED  BY <2>1 DEF Init, Explained, Node
  <1> QED  BY <1>1 DEF Init, HistoryInv

(* What is in force in a scope can be found in the history, unless a request died
   before it got there or the history is full, once the history's file exists
   (ManagementService.php:136 and 325, 353, 381). *)
THEOREM ChangesAreRecorded ==
  ASSUME "history" \notin Fresh
  PROVE  Spec => []Recorded
  <1>1. TypeInv /\ HistoryInv /\ [Next]_vars => HistoryInv'  BY HistoryStep
  <1>2. HistoryInv => Recorded
    BY DEF HistoryInv, Complete, Explained, NewNode, Recorded
  <1> QED  BY TypeInvariance, HistoryInit, <1>1, <1>2, PTL DEF Spec

-----------------------------------------------------------------------------
(* What an update keeps.                                                    *)

(* No step but a late default makes a file one that got its default late. *)
LEMMA LateStays ==
  ASSUME NEW r \in Requests, Begin(r) \/ Enter(r) \/ Update(r) \/ Die(r)
  PROVE  UNCHANGED late
  <1>1. CASE Begin(r)
    <2>1. CASE AskAny(r)  BY <2>1 DEF AskAny, Ask
    <2> QED  BY <1>1, <2>1 DEF Begin, Arrive, IsFile, Publish, Find, ReadScope
  <1>2. CASE Update(r)
    BY <1>2 DEF Update, Store, AppendHistory, CreateRegisterCode, ConsumeRegisterCode,
      IssueDeviceToken, SetDeviceGroup, MarkConsumed, TouchDeviceSeen, EnqueuePasswordUpdate
  <1>3. CASE Enter(r) \/ Die(r)  BY <1>3 DEF Enter, Die
  <1> QED  BY <1>1, <1>2, <1>3

(* The commands about to be queued are not in the queue, and no two requests are
   about to queue the same one. *)
QueueInv ==
    "queue" \notin late =>
        /\ \A r \in Requests : pc[r] = "enqueue" => file["queue"][job[r].what] = "absent"
        /\ \A r, q \in Requests :
             pc[r] = "enqueue" /\ pc[q] = "enqueue" /\ job[r].what = job[q].what => r = q

(* Steps that neither add to the queue nor let a request get as far. *)
LEMMA QueueSame ==
  ASSUME QueueInv, late \subseteq late',
         "queue" \notin late' => \A c : file["queue"][c] = "absent" => file'["queue"][c] = "absent",
         \A r \in Requests : pc'[r] = "enqueue" => pc[r] = "enqueue" /\ job'[r] = job[r]
  PROVE  QueueInv'
  BY DEF QueueInv

(* A callback of updateJson marks consumed only a command that is queued. *)
LEMMA QueueUpdate ==
  ASSUME TypeInv, QueueInv, NEW r \in Requests, Update(r)
  PROVE  QueueInv'
  <1>u. UNCHANGED late  BY LateStays
  <1> SUFFICES ASSUME "queue" \notin late PROVE QueueInv'  BY <1>u DEF QueueInv
  <1>0. /\ OneMoves(r) /\ current[r] # None /\ "queue" \in Files
        /\ \A f \in Files \ {FileOf(r)} : file'[f] = file[f]
        /\ pc \in [Requests -> PCs] /\ job \in [Requests -> Jobs]
        /\ file["queue"] \in [Commands -> {"absent", "queued", "consumed"}] /\ DOMAIN file = Files
    BY UpdateMoves, FilesAre DEF TypeInv, RequestsOK, StorageOK, FileSet
  <1>1. pc'[r] # "enqueue"
    <2>1. CASE Store(r)  BY <2>1, StoreIs
    <2>2. CASE AppendHistory(r)  BY <2>2, AppendIs
    <2>3. CASE ~Store(r) /\ ~AppendHistory(r)  BY <2>3, OthersAre
    <2> QED  BY <2>1, <2>2, <2>3
  <1>2. CASE EnqueuePasswordUpdate(r)
    <2> DEFINE c == job[r].what
    <2>1. pc[r] = "enqueue" /\ FileOf(r) = "queue"  BY <1>2 DEF EnqueuePasswordUpdate, FileOf
    <2>2. c \in Commands /\ current[r] = file["queue"]
      BY <1>0, <2>1 DEF TypeInv, RequestsOK, JobOK, LockInv, Holds
    <2>3. file'["queue"] = [file["queue"] EXCEPT ![c] = "queued"]
      BY <1>0, <1>2, <2>1, <2>2 DEF EnqueuePasswordUpdate, Replace
    <2>4. \A q \in Requests \ {r} : pc[q] = "enqueue" => job[q].what # c /\ job[q].what \in Commands
      BY <2>1 DEF QueueInv, TypeInv, RequestsOK, JobOK
    <2>5. \A q \in Requests \ {r} : pc[q] = "enqueue" => file'["queue"][job[q].what] = "absent"
      BY <1>0, <2>3, <2>4 DEF QueueInv
    <2> QED  BY <1>0, <1>1, <1>u, <2>5 DEF QueueInv, OneMoves
  <1>3. CASE MarkConsumed(r)
    <2> DEFINE c == job[r].what
    <2>1. pc[r] = "mark" /\ FileOf(r) = "queue"  BY <1>3 DEF MarkConsumed, FileOf
    <2>2. c \in Commands /\ current[r] = file["queue"]
      BY <1>0, <2>1 DEF TypeInv, RequestsOK, JobOK, LockInv, Holds
    <2>3. file'["queue"] = [file["queue"] EXCEPT ![c] = IF @ = "absent" THEN @ ELSE "consumed"]
      BY <1>0, <1>3, <2>1, <2>2 DEF MarkConsumed, Replace
    <2>4. \A q \in Requests \ {r} : pc[q] = "enqueue" => job[q].what \in Commands
      BY DEF TypeInv, RequestsOK, JobOK
    <2>5. \A q \in Requests \ {r} : pc[q] = "enqueue" => file'["queue"][job[q].what] = "absent"
      BY <1>0, <2>2, <2>3, <2>4 DEF QueueInv
    <2> QED  BY <1>0, <1>1, <1>u, <2>5 DEF QueueInv, OneMoves
  <1>4. CASE ~EnqueuePasswordUpdate(r) /\ ~MarkConsumed(r)
    <2>1. FileOf(r) # "queue"
      <3>1. CASE Store(r)  BY <3>1, StoreIs DEF Kinds
      <3>2. CASE AppendHistory(r)  BY <3>2, AppendIs
      <3>3. CASE ~Store(r) /\ ~AppendHistory(r)
        <4>1. pc[r] \in {"create", "consume", "issue", "regroup", "touch"}
          BY <1>4, <3>3 DEF Update, CreateRegisterCode, ConsumeRegisterCode, IssueDeviceToken,
            SetDeviceGroup, TouchDeviceSeen
        <4> QED  BY <4>1 DEF FileOf
      <3> QED  BY <3>1, <3>2, <3>3
    <2>2. file'["queue"] = file["queue"]  BY <1>0, <2>1
    <2> QED  BY <1>0, <1>1, <1>u, <2>2, QueueSame DEF OneMoves
  <1> QED  BY <1>2, <1>3, <1>4

(* Every step keeps the queue and the requests that mark it in agreement. *)
LEMMA QueueStep == TypeInv /\ QueueInv /\ [Next]_vars => QueueInv'
  <1> SUFFICES ASSUME TypeInv, QueueInv, [Next]_vars PROVE QueueInv'  OBVIOUS
  <1>0. "queue" \in Files  BY FilesAre
  <1>1. ASSUME NEW r \in Requests, Begin(r)  PROVE QueueInv'
    <2>1. OneMoves(r) /\ UNCHANGED file  BY <1>1, BeginSame
    <2>2. pc'[r] = "enqueue" =>
            /\ file["queue"][job'[r].what] = "absent"
            /\ \A q \in Requests : pc[q] = "enqueue" => job[q].what # job'[r].what
      BY <1>1, BeginMoves DEF NewCommand
    <2>3. UNCHANGED late  BY <1>1, LateStays
    <2> QED  BY <2>1, <2>2, <2>3 DEF QueueInv, OneMoves
  <1>2. ASSUME NEW r \in Requests, WriteDefault(r)  PROVE QueueInv'
    BY <1>0, <1>2, DefaultKeeps, OtherMoves, QueueSame DEF OneMoves
  <1>3. ASSUME NEW r \in Requests, Enter(r)  PROVE QueueInv'
    BY <1>3, EnterKeeps, LateStays, QueueSame
  <1>4. ASSUME NEW r \in Requests, Update(r)  PROVE QueueInv'  BY <1>4, QueueUpdate
  <1>5. ASSUME NEW r \in Requests, Die(r)  PROVE QueueInv'
    BY <1>5, DieKeeps, LateStays, OtherMoves, QueueSame DEF OneMoves
  <1>6. CASE CodeExpires \/ UNCHANGED vars  BY <1>6, QueueSame DEF CodeExpires, vars
  <1> QED  BY <1>1, <1>2, <1>3, <1>4, <1>5, <1>6, Steps

(* The second half of an update does to the file as it stands what its request is
   about, or leaves it as it is: what was read under the lock is still there. *)
LEMMA UpdateChanges ==
  ASSUME TypeInv, QueueInv, NEW r \in Requests, Update(r), FileOf(r) \notin late,
         file'[FileOf(r)] # file[FileOf(r)]
  PROVE  ChangesItsOwn(r)
  <1> DEFINE old == file[FileOf(r)]
             new == file'[FileOf(r)]
  <1> USE DEF Update
  <1>1. /\ current[r] # None /\ pc[r] \in Stages /\ FileOf(r) \in Files /\ DOMAIN file = Files
        /\ old \in FileSet(FileOf(r))
    BY UpdateMoves, FileOfIs DEF TypeInv, StorageOK
  <1>2. current[r] = old  BY <1>1 DEF TypeInv, LockInv, Holds
  <1>3. ASSUME NEW next, Replace(r, next)  PROVE new = next  BY <1>1, <1>3 DEF Replace
  <1> HIDE DEF old, new
  <1>4. old # new  BY DEF old, new
  <1> USE DEF ChangesItsOwn
  <1>5. CASE Store(r)
    <2>1. pc[r] = "store" /\ new = [old EXCEPT ![job[r].scope.id] = NewNode(r)]
      BY <1>2, <1>3, <1>5 DEF Store, NewNode
    <2> QED  BY <2>1 DEF NewNode, old, new
  <1>6. CASE AppendHistory(r)
    <2>1. pc[r] = "append" /\ new = NewHistory(r)
      BY <1>3, <1>6 DEF AppendHistory, NewHistory, NewEntry
    <2>2. new = Append(old, NewEntry(r)) \/ new = Tail(Append(old, NewEntry(r)))
      BY <1>2, <2>1 DEF NewHistory
    <2> QED  BY <2>1, <2>2 DEF NewEntry, old, new
  <1>7. CASE CreateRegisterCode(r)
    <2>1. pc[r] = "create"
          /\ new = [old EXCEPT ![job[r].what] = IF @ = "absent" THEN "unused" ELSE @]
      BY <1>2, <1>3, <1>7 DEF CreateRegisterCode
    <2>2. old \in [Codes -> {"absent", "unused", "used"}]  BY <1>1, <1>2, <2>1, CodeTyped
    <2>3. old[job[r].what] = "absent"  BY <1>4, <2>1, <2>2
    <2> QED  BY <2>1, <2>3 DEF old, new
  <1>8. CASE ConsumeRegisterCode(r)
    <2>1. pc[r] = "consume" /\ old[job[r].what] = "unused"
          /\ new = [old EXCEPT ![job[r].what] = "used"]
      BY <1>2, <1>3, <1>4, <1>8 DEF ConsumeRegisterCode
    <2> QED  BY <2>1 DEF old, new
  <1>9. CASE IssueDeviceToken(r)
    <2>1. pc[r] = "issue" /\ new = [old EXCEPT ![job[r].device].token = job[r].what]
      BY <1>2, <1>3, <1>9 DEF IssueDeviceToken
    <2> QED  BY <2>1 DEF old, new
  <1>10. CASE SetDeviceGroup(r)
    <2>1. pc[r] = "regroup" /\ new = [old EXCEPT ![job[r].device].group = job[r].what]
      BY <1>2, <1>3, <1>4, <1>10 DEF SetDeviceGroup
    <2> QED  BY <2>1 DEF old, new
  <1>11. CASE MarkConsumed(r)
    <2>1. pc[r] = "mark"
          /\ new = [old EXCEPT ![job[r].what] = IF @ = "absent" THEN @ ELSE "consumed"]
      BY <1>2, <1>3, <1>11 DEF MarkConsumed
    <2>2. old \in [Commands -> {"absent", "queued", "consumed"}]  BY <1>1, <1>2, <2>1, QueueTyped
    <2>3. old[job[r].what] # "absent"  BY <1>4, <2>1, <2>2
    <2> QED  BY <2>1, <2>3 DEF old, new
  <1>12. CASE TouchDeviceSeen(r)
    <2>1. pc[r] = "touch" /\ new = [old EXCEPT ![job[r].device].seen = TRUE]
      BY <1>2, <1>3, <1>4, <1>12 DEF TouchDeviceSeen
    <2> QED  BY <2>1 DEF old, new
  <1>13. CASE EnqueuePasswordUpdate(r)
    <2>1. pc[r] = "enqueue" /\ new = [old EXCEPT ![job[r].what] = "queued"]
      BY <1>2, <1>3, <1>13 DEF EnqueuePasswordUpdate
    <2>2. FileOf(r) = "queue"  BY <2>1 DEF FileOf
    <2>3. old[job[r].what] = "absent"  BY <2>1, <2>2 DEF QueueInv, old
    <2> QED  BY <2>1, <2>3 DEF old, new
  <1> QED  BY <1>5, <1>6, <1>7, <1>8, <1>9, <1>10, <1>11, <1>12, <1>13

(* A file that a late default has not replaced changes by an update alone. *)
LEMMA StepChanges ==
  ASSUME TypeInv, QueueInv, [Next]_vars, NEW f \in Files \ late', file'[f] # file[f]
  PROVE  \E r \in Requests : FileOf(r) = f /\ ChangesItsOwn(r)
  <1>1. ASSUME UNCHANGED file  PROVE FALSE  BY <1>1
  <1>2. ASSUME NEW r \in Requests, Begin(r)  PROVE FALSE  BY <1>1, <1>2, BeginSame
  <1>3. ASSUME NEW r \in Requests, WriteDefault(r)  PROVE FALSE  BY <1>3, DefaultKeeps
  <1>4. ASSUME NEW r \in Requests, Enter(r) \/ Die(r)  PROVE FALSE
    BY <1>1, <1>4, EnterKeeps, DieKeeps
  <1>5. ASSUME NEW r \in Requests, Update(r)  PROVE FileOf(r) = f /\ ChangesItsOwn(r)
    <2>1. FileOf(r) = f  BY <1>5, UpdateMoves
    <2>2. FileOf(r) \notin late  BY <1>5, <2>1, LateStays
    <2> QED  BY <1>5, <2>1, <2>2, UpdateChanges
  <1>6. ~CodeExpires /\ ~(UNCHANGED vars)  BY <1>1 DEF CodeExpires, vars
  <1> QED  BY <1>2, <1>3, <1>4, <1>5, <1>6, Steps

(* Every file changes by one request's update at a time, which does what that request
   is about to its own entry of the file as it stands then, and keeps the others; but
   for a file that a late default has replaced (Storage.php:41-51, 121-125). *)
THEOREM UpdatesKeepOthers == Spec => OthersKept
  <1>1. Init => QueueInv  BY DEF Init, QueueInv
  <1>2. TypeInv /\ QueueInv /\ [Next]_vars => QueueInv'  BY QueueStep
  <1>3. TypeInv /\ QueueInv /\ [Next]_vars
        => [\A f \in Files \ late' :
              file'[f] # file[f] => \E r \in Requests : FileOf(r) = f /\ ChangesItsOwn(r)]_vars
    BY StepChanges
  <1> QED  BY TypeInvariance, <1>1, <1>2, <1>3, PTL DEF Spec, OthersKept
=============================================================================
