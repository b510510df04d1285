----------------------------- MODULE ConfigServer -----------------------------
(***************************************************************************)
(* The PHP server's writes: Storage.php (updateJson: lock, read, replace),  *)
(* the publish and rollback of ManagementService.php, the registration and  *)
(* device records of Auth.php, and the commands of PasswordCommandService   *)
(* and enqueuePasswordUpdate.  Every HTTP request is a process of its own;  *)
(* a read of a file, and each half of an update, is a step.                 *)
(***************************************************************************)
EXTENDS Naturals, Sequences, FiniteSets

CONSTANTS
    Requests,     \* bound: requests served at once
    Operations,   \* bound: what the requests of an instance ask for
    Groups, Devices, Fields, Values, Codes, Commands,
    None,         \* a missing value, a free lock
    MaxRevision,  \* bound on the revisions of a scope
    HistoryCap,   \* entries config_history.json keeps
    Fresh         \* files that do not exist yet

ASSUME NoneAssumption == None \notin Requests \cup Values \cup Codes
ASSUME NumbersAssumption == MaxRevision \in Nat \ {0} /\ HistoryCap \in Nat \ {0}

(* The order of bootstrapDefaults; admin_auth, audit_logs and server_secret left out. *)
Order == <<"devices", "codes", "global", "group", "device", "history", "queue">>
Files == {Order[i] : i \in DOMAIN Order}
ASSUME FreshAssumption == Fresh \subseteq Files

Ids(kind) == CASE kind = "global" -> {"all"} [] kind = "group" -> Groups [] OTHER -> Devices
Scopes == UNION {{[kind |-> k, id |-> i] : i \in Ids(k)} : k \in {"global", "group", "device"}}

Configs == [Fields -> Values \cup {None}]
Empty   == [f \in Fields |-> None]
Nodes   == [revision : 0 .. MaxRevision, config : Configs]
Entries == [scope : Scopes, revision : 0 .. MaxRevision, before : Configs, after : Configs]
Unregistered == [token |-> None, group |-> None, seen |-> FALSE]
Records == [token : Codes, group : Groups \cup {None}, seen : BOOLEAN] \cup {Unregistered}

(* array_merge(base, patch) *)
Merge(base, patch) == [f \in Fields |-> IF patch[f] # None THEN patch[f] ELSE base[f]]

(* What readJson and bootstrapDefaults take for a file that does not exist. *)
Default(f) ==
    CASE f = "devices" -> [d \in Devices |-> Unregistered]
      [] f = "codes"   -> [c \in Codes |-> "absent"]
      [] f = "history" -> <<>>
      [] f = "queue"   -> [c \in Commands |-> "absent"]
      [] f = "global"  -> [i \in Ids(f) |-> [revision |-> 1, config |-> Empty]]
      [] OTHER         -> [i \in Ids(f) |-> [revision |-> 0, config |-> Empty]]

VARIABLES
    file,     \* contents of the JSON files
    missing,  \* files that do not exist
    lock,     \* holder of each file's lock
    pc,       \* where a request is
    current,  \* what a request read under the lock, None outside of it
    job,      \* the request's own variables
    expired,  \* codes whose time is over
    (* History, read by properties only. *)
    past,     \* revisions with their configs that a scope has had
    issued,   \* tokens issued for each code
    cut,      \* a request died between the scope's file and the history
    crossed,  \* a request stored a scope that another had read to store it
    late      \* files that got their default after something was written to them

storage == <<file, missing, lock>>
request == <<pc, current, job>>
witness == <<past, issued, cut, crossed, late>>
vars    == <<storage, request, expired, witness>>

(* The updates, and the file each is made in. *)
Stages == {"store", "append", "create", "consume", "issue", "regroup", "mark", "touch", "enqueue"}
FileOf(r) ==
    CASE pc[r] = "store" -> job[r].scope.kind
      [] pc[r] = "append" -> "history"
      [] pc[r] \in {"create", "consume"} -> "codes"
      [] pc[r] \in {"issue", "regroup", "touch"} -> "devices"
      [] OTHER -> "queue"

NoJob == [op |-> None, scope |-> None, patch |-> Empty, revision |-> 0, before |-> Empty,
          after |-> Empty, device |-> None, what |-> None]
Jobs == [op : Operations \cup {None}, scope : Scopes \cup {None}, patch : Configs,
         revision : 0 .. MaxRevision + Len(Order), before : Configs, after : Configs,
         device : Devices \cup {None}, what : Codes \cup Commands \cup Groups \cup {None}]

FilesOK ==
    /\ file["global"] \in [Ids("global") -> Nodes]
    /\ file["group"] \in [Groups -> Nodes] /\ file["device"] \in [Devices -> Nodes]
    /\ file["history"] \in Seq(Entries) /\ Len(file["history"]) <= HistoryCap
    /\ file["devices"] \in [Devices -> Records]
    /\ file["codes"] \in [Codes -> {"absent", "unused", "used"}]
    /\ file["queue"] \in [Commands -> {"absent", "queued", "consumed"}]

TypeOK ==
    /\ DOMAIN file = Files /\ FilesOK
    /\ missing \subseteq Files /\ lock \in [Files -> Requests \cup {None}]
    /\ pc \in [Requests -> Stages \cup {"idle", "ready", "check", "default", "rollback"}]
    /\ DOMAIN current = Requests /\ job \in [Requests -> Jobs]
    /\ expired \subseteq Codes
    /\ past \in [Scopes -> SUBSET Nodes] /\ issued \in [Codes -> Nat]
    /\ cut \in BOOLEAN /\ crossed \in BOOLEAN /\ late \subseteq Files

Init ==
    /\ file = [f \in Files |-> Default(f)]
    /\ missing = Fresh
    /\ lock = [f \in Files |-> None]
    /\ pc = [r \in Requests |-> "idle"] /\ current = [r \in Requests |-> None]
    /\ job = [r \in Requests |-> NoJob]
    /\ expired = {}
    /\ past = [s \in Scopes |-> {Default(s.kind)[s.id]}] /\ issued = [c \in Codes |-> 0]
    /\ cut = FALSE /\ crossed = FALSE /\ late = {}

Goto(r, there) == pc' = [pc EXCEPT ![r] = there]
Finish(r) == Goto(r, "idle") /\ job' = [job EXCEPT ![r] = NoJob]

-----------------------------------------------------------------------------
(* Storage.                                                                 *)

(* Every request constructs a Storage, whose constructor calls
   bootstrapDefaults: each file is looked for, *)
Arrive(r) ==
    /\ pc[r] = "idle" /\ missing # {}
    /\ Goto(r, "check")
    /\ UNCHANGED <<storage, current, job, expired, witness>>

IsFile(r) ==
    /\ pc[r] = "check"
    /\ IF missing = {} THEN Goto(r, "ready") /\ UNCHANGED job
       ELSE /\ Goto(r, "default")
            /\ \E i \in DOMAIN Order :
                 /\ Order[i] \in missing /\ \A n \in 1 .. i - 1 : Order[n] \notin missing
                 /\ job' = [job EXCEPT ![r].revision = i]
    /\ UNCHANGED <<storage, current, expired, witness>>

(* and written, with no lock, when it was not there; it may be there by now. *)
WriteDefault(r) ==
    /\ pc[r] = "default"
    /\ LET f == Order[job[r].revision] IN
         /\ file' = [file EXCEPT ![f] = Default(f)] /\ missing' = missing \ {f}
         /\ late' = late \cup ({f} \ missing)
    /\ Goto(r, "check") /\ job' = [job EXCEPT ![r] = NoJob]
    /\ UNCHANGED <<lock, current, expired, past, issued, cut, crossed>>

Constructed(r) == pc[r] = "ready" \/ (pc[r] = "idle" /\ missing = {})

(* Slip: the file is read without waiting for its lock. *)
EnterUnlocked(r) ==
    /\ pc[r] \in Stages /\ current[r] = None
    /\ current' = [current EXCEPT ![r] = file[FileOf(r)]]
    /\ UNCHANGED <<storage, pc, job, expired, witness>>

(* updateJson: flock, and the read under it. *)
Enter(r) ==
    /\ pc[r] \in Stages /\ current[r] = None
    /\ lock[FileOf(r)] = None
    /\ lock' = [lock EXCEPT ![FileOf(r)] = r]
    /\ current' = [current EXCEPT ![r] = file[FileOf(r)]]
    /\ UNCHANGED <<file, missing, pc, job, expired, witness>>

(* updateJson: the updater's result replaces the file; the lock is given back. *)
Replace(r, next) ==
    /\ current[r] # None
    /\ file' = [file EXCEPT ![FileOf(r)] = next] /\ missing' = missing \ {FileOf(r)}
    /\ lock' = [lock EXCEPT ![FileOf(r)] = None]
    /\ current' = [current EXCEPT ![r] = None]

(* The request is killed, or the server goes down: the lock goes with it. *)
Die(r) ==
    /\ pc[r] # "idle"
    /\ lock' = [f \in Files |-> IF lock[f] = r THEN None ELSE lock[f]]
    /\ current' = [current EXCEPT ![r] = None]
    /\ cut' = (cut \/ pc[r] = "append")
    /\ Finish(r)
    /\ UNCHANGED <<file, missing, expired, past, issued, crossed, late>>

-----------------------------------------------------------------------------
(* ManagementService.                                                       *)

Node(s) == file[s.kind][s.id]

(* publish: the scope is read outside the lock. *)
Publish(r) ==
    /\ "publish" \in Operations /\ Constructed(r)
    /\ \E s \in Scopes, patch \in Configs \ {Empty} :
         /\ Node(s).revision < MaxRevision
         /\ job' = [job EXCEPT ![r] = [NoJob EXCEPT
                      !.op = "publish", !.scope = s, !.patch = patch,
                      !.revision = Node(s).revision + 1,
                      !.before = Node(s).config, !.after = Merge(Node(s).config, patch)]]
    /\ Goto(r, "store")
    /\ UNCHANGED <<storage, current, expired, witness>>

(* The first entry of the scope with that revision. *)
Matches(s, n) ==
    {i \in DOMAIN file["history"] : file["history"][i].scope = s /\ file["history"][i].revision = n}
Target(s, n) == file["history"][CHOOSE i \in Matches(s, n) : \A k \in Matches(s, n) : i <= k]

(* Slip: the entry's scope is not compared. *)
FindAnyScope(r) ==
    /\ "rollback" \in Operations /\ Constructed(r)
    /\ \E s \in Scopes, i \in DOMAIN file["history"] :
         job' = [job EXCEPT ![r] = [NoJob EXCEPT
                   !.op = "rollback", !.scope = s, !.after = file["history"][i].before]]
    /\ Goto(r, "rollback")
    /\ UNCHANGED <<storage, current, expired, witness>>

(* rollback: what the revision replaced is looked up, *)
Find(r) ==
    /\ "rollback" \in Operations /\ Constructed(r)
    /\ \E s \in Scopes, n \in 1 .. MaxRevision :
         /\ Matches(s, n) # {}
         /\ job' = [job EXCEPT ![r] = [NoJob EXCEPT
                      !.op = "rollback", !.scope = s, !.after = Target(s, n).before]]
    /\ Goto(r, "rollback")
    /\ UNCHANGED <<storage, current, expired, witness>>

(* Slip: the rollback is stored under the revision in force. *)
ReadScopeSlip(r) ==
    /\ pc[r] = "rollback"
    /\ job' = [job EXCEPT ![r].revision = Node(job[r].scope).revision,
                          ![r].before = Node(job[r].scope).config]
    /\ Goto(r, "store")
    /\ UNCHANGED <<storage, current, expired, witness>>

(* and the scope's present state is read, outside the lock again. *)
ReadScope(r) ==
    /\ pc[r] = "rollback"
    /\ Node(job[r].scope).revision < MaxRevision
    /\ job' = [job EXCEPT ![r].revision = Node(job[r].scope).revision + 1,
                          ![r].before = Node(job[r].scope).config]
    /\ Goto(r, "store")
    /\ UNCHANGED <<storage, current, expired, witness>>

Store(r) ==
    /\ pc[r] = "store"
    /\ LET s == job[r].scope IN
       LET new == [revision |-> job[r].revision, config |-> job[r].after] IN
         /\ Replace(r, [current[r] EXCEPT ![s.id] = new])
         /\ past' = [past EXCEPT ![s] = @ \cup {new}]
         /\ crossed' = (crossed \/ \E q \in Requests \ {r} : pc[q] = "store" /\ job[q].scope = s)
    /\ Goto(r, "append")
    /\ UNCHANGED <<job, expired, issued, cut, late>>

(* Slip: only publishing is recorded. *)
AppendPublishOnly(r) ==
    /\ pc[r] = "append"
    /\ LET entry == [scope |-> job[r].scope, revision |-> job[r].revision,
                     before |-> job[r].before, after |-> job[r].after]
           all == IF job[r].op = "publish" THEN Append(current[r], entry) ELSE current[r]
       IN Replace(r, IF Len(all) > HistoryCap THEN Tail(all) ELSE all)
    /\ Finish(r)
    /\ UNCHANGED <<expired, witness>>

(* Slip: one entry too many is kept. *)
AppendUncapped(r) ==
    /\ pc[r] = "append"
    /\ Replace(r, Append(current[r], [scope |-> job[r].scope, revision |-> job[r].revision,
                                     before |-> job[r].before, after |-> job[r].after]))
    /\ Finish(r)
    /\ UNCHANGED <<expired, witness>>

AppendHistory(r) ==
    /\ pc[r] = "append"
    /\ LET entry == [scope |-> job[r].scope, revision |-> job[r].revision,
                     before |-> job[r].before, after |-> job[r].after]
           all == Append(current[r], entry)
       IN Replace(r, IF Len(all) > HistoryCap THEN Tail(all) ELSE all)
    /\ Finish(r)
    /\ UNCHANGED <<expired, witness>>

-----------------------------------------------------------------------------
(* Auth: codes, devices.                                                    *)

(* A request whose work begins with an update. *)
Ask(r, op, stage, device, what) ==
    /\ op \in Operations /\ Constructed(r)
    /\ job' = [job EXCEPT ![r] = [NoJob EXCEPT !.op = op, !.device = device, !.what = what]]
    /\ Goto(r, stage)
    /\ UNCHANGED <<storage, current, expired, witness>>

CreateRegisterCode(r) ==
    /\ pc[r] = "create"
    /\ Replace(r, [current[r] EXCEPT ![job[r].what] = IF @ = "absent" THEN "unused" ELSE @])
    /\ Finish(r)
    /\ UNCHANGED <<expired, witness>>

(* Slip: a code that was used is accepted again. *)
ConsumeUsedCode(r) ==
    /\ pc[r] = "consume"
    /\ LET good == current[r][job[r].what] # "absent" /\ job[r].what \notin expired IN
         /\ Replace(r, IF good THEN [current[r] EXCEPT ![job[r].what] = "used"] ELSE current[r])
         /\ IF good THEN Goto(r, "issue") /\ UNCHANGED job ELSE Finish(r)
    /\ UNCHANGED <<expired, witness>>

(* registerDevice: the code is used up, *)
ConsumeRegisterCode(r) ==
    /\ pc[r] = "consume"
    /\ LET good == current[r][job[r].what] = "unused" /\ job[r].what \notin expired IN
         /\ Replace(r, IF good THEN [current[r] EXCEPT ![job[r].what] = "used"] ELSE current[r])
         /\ IF good THEN Goto(r, "issue") /\ UNCHANGED job ELSE Finish(r)
    /\ UNCHANGED <<expired, witness>>

(* then the token is made and its hash stored. *)
IssueDeviceToken(r) ==
    /\ pc[r] = "issue"
    /\ Replace(r, [current[r] EXCEPT ![job[r].device].token = job[r].what])
    /\ issued' = [issued EXCEPT ![job[r].what] = @ + 1]
    /\ Finish(r)
    /\ UNCHANGED <<expired, past, cut, crossed, late>>

Known(r) == current[r][job[r].device].token # None

SetDeviceGroup(r) ==
    /\ pc[r] = "regroup"
    /\ Replace(r, IF Known(r) THEN [current[r] EXCEPT ![job[r].device].group = job[r].what]
                  ELSE current[r])
    /\ Finish(r)
    /\ UNCHANGED <<expired, witness>>

(* ackConfig of an authorized device: markConsumed, *)
MarkConsumed(r) ==
    /\ pc[r] = "mark"
    /\ Replace(r, [current[r] EXCEPT ![job[r].what] = IF @ = "absent" THEN @ ELSE "consumed"])
    /\ Goto(r, "touch")
    /\ UNCHANGED <<job, expired, witness>>

(* touchDeviceSeen. *)
TouchDeviceSeen(r) ==
    /\ pc[r] = "touch"
    /\ Replace(r, IF Known(r) THEN [current[r] EXCEPT ![job[r].device].seen = TRUE]
                  ELSE current[r])
    /\ Finish(r)
    /\ UNCHANGED <<expired, witness>>

(* enqueuePasswordUpdate: the command's id is new. *)
EnqueuePasswordUpdate(r) ==
    /\ pc[r] = "enqueue"
    /\ Replace(r, [current[r] EXCEPT ![job[r].what] = "queued"])
    /\ Finish(r)
    /\ UNCHANGED <<expired, witness>>

NewCommand(c) ==
    file["queue"][c] = "absent" /\ \A r \in Requests : pc[r] = "enqueue" => job[r].what # c

AskAny(r) ==
    \/ \E c \in Codes : Ask(r, "code", "create", None, c)
    \/ \E c \in Codes, d \in Devices : Ask(r, "register", "consume", d, c)
    \/ \E g \in Groups, d \in Devices : Ask(r, "group", "regroup", d, g)
    \/ \E d \in Devices : /\ file["devices"][d].token # None
                          /\ \/ Ask(r, "ack", "touch", d, None)
                             \/ \E c \in Commands : /\ file["queue"][c] # "absent"
                                                    /\ Ask(r, "ack", "mark", d, c)
    \/ \E c \in Commands : NewCommand(c) /\ Ask(r, "enqueue", "enqueue", None, c)

Update(r) ==
    \/ Store(r) \/ AppendHistory(r) \/ CreateRegisterCode(r) \/ ConsumeRegisterCode(r)
    \/ IssueDeviceToken(r) \/ SetDeviceGroup(r) \/ MarkConsumed(r) \/ TouchDeviceSeen(r)
    \/ EnqueuePasswordUpdate(r)

(* Time passes. *)
CodeExpires ==
    /\ \E c \in Codes \ expired : expired' = expired \cup {c}
    /\ UNCHANGED <<storage, request, witness>>

Next ==
    \/ \E r \in Requests :
         \/ Arrive(r) \/ IsFile(r) \/ WriteDefault(r)
         \/ Publish(r) \/ Find(r) \/ ReadScope(r) \/ AskAny(r)
         \/ Enter(r) \/ Update(r) \/ Die(r)
    \/ CodeExpires

Spec == Init /\ [][Next]_vars

-----------------------------------------------------------------------------
(* What r is about, done to its file as it stands and to no other entry of it. *)
ChangesItsOwn(r) ==
    LET j == job[r]  old == file[FileOf(r)]  new == file'[FileOf(r)]
        entry == [scope |-> j.scope, revision |-> j.revision, before |-> j.before, after |-> j.after]
    IN  CASE pc[r] = "store"   -> new = [old EXCEPT ![j.scope.id] =
                                           [revision |-> j.revision, config |-> j.after]]
          [] pc[r] = "append"  -> new = Append(old, entry) \/ new = Tail(Append(old, entry))
          [] pc[r] = "create"  -> old[j.what] = "absent" /\ new = [old EXCEPT ![j.what] = "unused"]
          [] pc[r] = "consume" -> old[j.what] = "unused" /\ new = [old EXCEPT ![j.what] = "used"]
          [] pc[r] = "issue"   -> new = [old EXCEPT ![j.device].token = j.what]
          [] pc[r] = "regroup" -> new = [old EXCEPT ![j.device].group = j.what]
          [] pc[r] = "touch"   -> new = [old EXCEPT ![j.device].seen = TRUE]
          [] pc[r] = "mark"    -> old[j.what] # "absent" /\ new = [old EXCEPT ![j.what] = "consumed"]
          [] pc[r] = "enqueue" -> old[j.what] = "absent" /\ new = [old EXCEPT ![j.what] = "queued"]
          [] OTHER             -> FALSE

(* Storage.php:41-51: a file changes by one request's update at a time, which does
   what that request is about to the entry it is about, the group to its own device,
   the time last seen, the code, the command, and keeps every other entry as others
   have left it meanwhile, in whatever order the requests run and wherever they die.
   The exception is a file that a late default has replaced (121-125, without the
   lock): from then on nothing is said of it. *)
OthersKept ==
    [][ \A f \in Files \ late' :
          file'[f] # file[f] => \E r \in Requests : FileOf(r) = f /\ ChangesItsOwn(r) ]_vars

(* Auth.php:16-70: a register code is good for one token, however many devices
   present it at the same time and wherever requests die. *)
CodeRegistersOnce == \A c \in Codes : issued[c] <= 1

(* ManagementService.php:136 and 325, 353, 381: what is in force in a scope can be
   found in the history, unless a request died before it got there. *)
Recorded ==
    ~cut /\ Len(file["history"]) < HistoryCap =>
        \A s \in Scopes :
            \/ Node(s) = Default(s.kind)[s.id]
            \/ \E i \in DOMAIN file["history"] :
                 LET e == file["history"][i] IN
                   e.scope = s /\ Node(s) = [revision |-> e.revision, config |-> e.after]
            \/ \E r \in Requests :
                 /\ pc[r] = "append" /\ job[r].scope = s
                 /\ Node(s) = [revision |-> job[r].revision, config |-> job[r].after]

(* ManagementService.php:296-314: a rollback brings back something that scope has
   had before, not another scope's config, whatever was published meanwhile. *)
RollbackReturnsToThePast ==
    \A r \in Requests :
        pc[r] = "store" /\ job[r].op = "rollback" =>
            \E n \in past[job[r].scope] : job[r].after = n.config

(* ManagementService.php:90, 111, 312-314: the kiosks compare revisions only, so a
   revision of a scope must stand for one config.  It does, publishes and rollbacks
   of all scopes and requests that die mixed, as long as no two requests have read
   the same state of a scope to store it (the read is outside the lock); and the
   one in force is the highest the scope has had. *)
RevisionNamesConfig ==
    ~crossed => \A s \in Scopes :
        /\ \A m, n \in past[s] : m.revision = n.revision => m = n
        /\ \A n \in past[s] : n.revision <= Node(s).revision
=============================================================================
