------------------------------ MODULE RemoteSync ------------------------------
(***************************************************************************)
(* One kiosk and its configuration server: EnsureRemoteRegistration and     *)
(* PerformRemoteSync of main.cpp with remote_config_client.cpp, the files   *)
(* of config_manager.cpp they write, and the device endpoints of App.php.   *)
(*                                                                          *)
(* A call can be lost, its answer can be lost, and a request the client has *)
(* given up can still be served.  Every write of a file is a step that can  *)
(* fail, and the kiosk can lose power between any two.  The server serves a *)
(* request in one step (ConfigServer has its files); a publish is one here. *)
(***************************************************************************)
EXTENDS Naturals, FiniteSetsExt, PureLogic

CONSTANTS
    Scopes,       \* scopes something is published in, of "global" and "device"
    Values,       \* contents of the config
    LocalValues,  \* contents the user types into the settings dialog
    Codes,        \* register codes; a token is named by the code it was issued for
    Commands,     \* password commands, in the order they are queued
    Garbled,      \* commands whose password does not decrypt
    None,
    PollBase, PollJitter, PollCap,        \* pollBaseSec, pollJitterSec, pollMaxBackoffSec
    MaxRevision, MaxCrashes,              \* bounds
    MaxFaults,                            \* bound on saves that fail
    MaxFailures                           \* bound; failed polls beyond it count as it

ASSUME ScopesAssumption == Scopes \subseteq {"global", "device"} /\ "global" \in Scopes
ASSUME CommandsAssumption == Commands \subseteq Nat \ {0} /\ Garbled \subseteq Commands
ASSUME NoneAssumption == None \notin Values \cup LocalValues \cup Codes
ASSUME PollAssumption ==
    PollBase \in Nat \ {0} /\ PollJitter \in Nat /\ PollCap \in Nat \ {0}
ASSUME BoundsAssumption ==
    /\ MaxRevision \in Nat \ {0} /\ MaxCrashes \in Nat
    /\ MaxFaults \in Nat /\ MaxFailures \in Nat

VARIABLES
    (* The server. *)
    node,        \* revision and value published in each scope
    codes,       \* register codes not used yet
    registered,  \* the token of each device id
    queue,       \* state of each command
    (* Between them. *)
    wire,        \* the request the kiosk waits for
    reply,       \* its answer, kept while the kiosk works on it
    late,        \* a request given up that the server may still get
    (* The kiosk's files. *)
    disk,        \* config.dat; None when missing or torn
    tokenFile,   \* remote_token.dat
    doneFile,    \* consumed_commands.dat
    (* The kiosk's memory. *)
    pc,
    mem,         \* g_state.config and g_state.currentPassword
    token,       \* g_state.remoteToken
    done,        \* g_state.consumedCommandIds
    allowed,     \* g_state.remoteSyncAllowed
    failures,    \* g_state.remoteFailureCount
    success,     \* the command whose commandStatus is "success", 0: none
    saving,      \* what SaveConfig is writing
    after,       \* where it returns to
    (* History, read by properties and bounds only. *)
    crashes,
    faults,      \* saves that failed
    unlisted,    \* consumed commands that could not be written to their file
    unsaved,     \* the last save of the config failed
    applied,     \* how often each command's password was written
    chosen       \* the password set last, by the user or by a command

server  == <<node, codes, registered, queue>>
network == <<wire, reply, late>>
files   == <<disk, tokenFile, doneFile>>
memory  == <<mem, token, done, allowed, failures, success, saving, after>>
witness == <<crashes, faults, unlisted, unsaved, applied, chosen>>
vars    == <<server, network, files, pc, memory, witness>>

Ids == 1 .. MaxCrashes + 1       \* one per boot is enough
Passwords == Commands \cup {0}   \* named by the command that set it, 0: set by the user
Configs == [enabled : BOOLEAN, id : Ids \cup {0}, revision : 0 .. MaxRevision,
            value : Values \cup LocalValues \cup {None}, password : Passwords]
Blank == [enabled |-> FALSE, id |-> 0, revision |-> 0, value |-> None, password |-> 0]
ASSUME NoFileAssumption == None \notin Configs   \* no file is none with a config in it

Registers == [kind : {"register"}, id : Ids, code : Codes]
Fetches   == [kind : {"fetch"}, id : Ids, token : Codes, revision : 0 .. MaxRevision]
Acks      == [kind : {"ack"}, id : Ids, token : Codes, revision : 0 .. MaxRevision,
              command : Commands \cup {0}]
Replies   == [kind : {"error", "notModified", "ok"}]
               \cup [kind : {"token"}, token : Codes]
               \cup [kind : {"config"}, revision : 0 .. MaxRevision,
                     value : Values \cup {None}, command : Commands \cup {0}]

TypeOK ==
    /\ node \in [Scopes -> [revision : 0 .. MaxRevision, value : Values \cup {None}]]
    /\ codes \subseteq Codes /\ registered \in [Ids -> Codes \cup {None}]
    /\ queue \in [Commands -> {"absent", "queued", "consumed", "expired"}]
    /\ wire \in Registers \cup Fetches \cup Acks \cup {None}
    /\ late \in Registers \cup Acks \cup {None}
    /\ reply \in Replies \cup {None}
    /\ disk \in Configs \cup {None} /\ tokenFile \in Codes \cup {None}
    /\ doneFile \subseteq Commands
    /\ pc \in {"off", "setup", "load", "rung2", "notice", "code", "register", "savetoken",
               "sync", "fetch", "remember", "merge", "sendack", "ack", "idle",
               "truncate", "write"}
    /\ mem \in Configs /\ token \in Codes \cup {None} /\ done \subseteq Commands
    /\ allowed \in BOOLEAN /\ failures \in 0 .. MaxFailures /\ success \in Commands \cup {0}
    /\ saving \in Configs /\ after \in {"setup", "load", "idle", "sync", "remember", "sendack"}
    /\ crashes \in 0 .. MaxCrashes /\ faults \in 0 .. MaxFaults
    /\ unlisted \in 0 .. faults /\ unsaved \in BOOLEAN
    /\ applied \in [Commands -> 0 .. MaxCrashes + MaxFaults + 2] /\ chosen \in Passwords

(* A new kiosk and a server nobody has published on. *)
Init ==
    /\ node = [s \in Scopes |-> [revision |-> IF s = "global" THEN 1 ELSE 0, value |-> None]]
    /\ codes = Codes /\ registered = [i \in Ids |-> None]
    /\ queue = [c \in Commands |-> "absent"]
    /\ wire = None /\ reply = None /\ late = None
    /\ disk = None /\ tokenFile = None /\ doneFile = {}
    /\ pc = "off" /\ mem = Blank /\ token = None /\ done = {} /\ allowed = FALSE
    /\ failures = 0 /\ success = 0 /\ saving = Blank /\ after = "idle"
    /\ crashes = 0 /\ faults = 0 /\ unlisted = 0 /\ unsaved = FALSE
    /\ applied = [c \in Commands |-> 0] /\ chosen = 0

-----------------------------------------------------------------------------
(* SaveConfig: the file is opened with "wb", then written.                  *)

Save(config, there) ==
    /\ pc' = "truncate" /\ saving' = config /\ after' = there

Truncate ==
    /\ pc = "truncate" /\ pc' = "write" /\ disk' = None
    /\ UNCHANGED <<server, network, tokenFile, doneFile, memory, witness>>

(* Where a save has been called from. *)
ByUser    == after \in {"setup", "load"}
ByCommand == after = "remember"

(* SaveConfig returns true. *)
Write ==
    /\ pc = "write" /\ pc' = IF after = "setup" THEN "load" ELSE after
    /\ disk' = saving /\ saving' = Blank /\ after' = "idle"
    /\ applied' = IF ByCommand THEN [applied EXCEPT ![reply.command] = @ + 1] ELSE applied
    /\ chosen' = IF ByUser \/ ByCommand THEN saving.password ELSE chosen
    /\ unsaved' = FALSE
    /\ UNCHANGED <<server, network, tokenFile, doneFile, mem, token, done, allowed,
                   failures, success, crashes, faults, unlisted>>

(* A save fails. *)
Fault == faults < MaxFaults /\ faults' = faults + 1

(* Slip: the result is ignored for a password command too. *)
SaveFailsUnnoticed ==
    /\ pc \in {"truncate", "write"} /\ Fault
    /\ pc' = IF after = "load" THEN "idle" ELSE after
    /\ saving' = Blank /\ after' = "idle" /\ unsaved' = TRUE
    /\ chosen' = IF ByUser THEN saving.password ELSE chosen
    /\ UNCHANGED <<server, network, files, mem, token, done, allowed, failures, success,
                   crashes, unlisted, applied>>

(* SaveConfig returns false: the file cannot be opened and stays as it is, or cannot
   be written and is torn.  The dialog stays open with its fields in memory, a
   password command counts as failed, every other caller goes on all the same. *)
SaveFails ==
    /\ pc \in {"truncate", "write"} /\ Fault
    /\ pc' = CASE after = "load" -> "idle" [] ByCommand -> "merge" [] OTHER -> after
    /\ saving' = Blank /\ after' = "idle" /\ unsaved' = TRUE
    /\ chosen' = IF ByUser THEN saving.password ELSE chosen
    /\ UNCHANGED <<server, network, files, mem, token, done, allowed, failures, success,
                   crashes, unlisted, applied>>

-----------------------------------------------------------------------------
(* WinMain, and the settings dialog.                                        *)

(* A file written whole, in the present layout or an older one. *)
LoadConfig == disk # None /\ mem' = disk /\ chosen' = disk.password

(* Without such a file the first-time setup. *)
StartProgram ==
    /\ pc = "off"
    /\ \/ LoadConfig /\ pc' = "load"
       \/ disk = None /\ pc' = "setup" /\ UNCHANGED <<mem, chosen>>
    /\ unsaved' = FALSE
    /\ UNCHANGED <<server, network, files, token, done, allowed, failures, success,
                   saving, after, crashes, faults, unlisted, applied>>

(* What the user can leave in the dialog. *)
Edited ==
    [enabled : BOOLEAN, id : {mem.id}, revision : {mem.revision},
     value : LocalValues \cup {mem.value}, password : {0, mem.password}]

Setup ==
    /\ pc = "setup"
    /\ \E config \in Edited : mem' = config /\ Save(config, "setup")
    /\ UNCHANGED <<server, network, files, token, done, allowed, failures, success,
                   witness>>

Settings ==
    /\ pc = "idle"
    /\ \E config \in Edited : mem' = config /\ Save(config, "load")
    /\ UNCHANGED <<server, network, files, token, done, allowed, failures, success,
                   witness>>

(* Cancel, after OK was refused for a later field: what was typed before it has
   been copied into the running config already. *)
CancelSettings ==
    /\ pc = "idle"
    /\ \E config \in Edited : config.password = mem.password /\ mem' = config
    /\ UNCHANGED <<server, network, files, pc, token, done, allowed, failures, success,
                   saving, after, witness>>

(* No file, or one that does not decrypt: no token. *)
LoadRemoteToken == token' = tokenFile
LoadConsumedCommandIds == done' = doneFile

(* Both go on with the token and the consumed commands of the disk. *)
Load ==
    /\ pc = "load"
    /\ IF mem.enabled
         THEN pc' = "rung2" /\ LoadRemoteToken /\ LoadConsumedCommandIds
              /\ UNCHANGED <<allowed, failures>>
         ELSE pc' = "idle" /\ allowed' = FALSE /\ failures' = 0 /\ UNCHANGED <<token,
                                                                               done>>
    /\ UNCHANGED <<server, network, files, mem, success, saving, after, witness>>

-----------------------------------------------------------------------------
(* EnsureRemoteRegistration.                                                *)

(* Rung 2: the server answers /health. *)
Reachable ==
    /\ pc = "rung2"
    /\ allowed' = TRUE
    /\ mem' = [mem EXCEPT !.id = IF @ = 0 THEN crashes + 1 ELSE @]
    /\ pc' = IF token # None THEN "sync" ELSE "code"
    /\ UNCHANGED <<server, network, files, token, done, failures, success, saving,
                   after, witness>>

(* It does not: a message box, *)
Unreachable ==
    /\ pc = "rung2" /\ pc' = "notice"
    /\ UNCHANGED <<server, network, files, memory, witness>>

(* and when that is clicked away, remote configuration is switched off. *)
Disable ==
    /\ pc = "notice"
    /\ mem' = [mem EXCEPT !.enabled = FALSE] /\ allowed' = FALSE
    /\ Save(mem', "idle")
    /\ UNCHANGED <<server, network, files, token, done, failures, success, witness>>

(* Rung 4: the register dialog, until it succeeds. *)
EnterCode ==
    /\ pc = "code" /\ pc' = "register"
    /\ \E c \in Codes : wire' = [kind |-> "register", id |-> mem.id, code |-> c]
    /\ UNCHANGED <<server, reply, late, files, memory, witness>>

(* Slip: an answer without a token is taken for a registration. *)
RegisteredAnyAnswer ==
    /\ pc = "register" /\ reply # None
    /\ wire' = None /\ reply' = None /\ pc' = "savetoken"
    /\ token' = IF reply.kind = "token" THEN reply.token ELSE None
    /\ UNCHANGED <<server, late, files, mem, done, allowed, failures, success, saving,
                   after, witness>>

(* RegisterDevice returns. *)
Registered ==
    /\ pc = "register" /\ reply # None
    /\ wire' = None /\ reply' = None
    /\ IF reply.kind = "token" THEN token' = reply.token /\ pc' = "savetoken"
       ELSE pc' = "code" /\ UNCHANGED token
    /\ UNCHANGED <<server, late, files, mem, done, allowed, failures, success, saving,
                   after, witness>>

(* The file is there, or was missing or unreadable before and still is.  The result
   is ignored. *)
SaveRemoteToken ==
    /\ pc = "savetoken"
    /\ \/ tokenFile' = token /\ UNCHANGED faults
       \/ Fault /\ UNCHANGED tokenFile
    /\ Save(mem, "sync")
    /\ UNCHANGED <<server, network, disk, doneFile, mem, token, done, allowed,
                   failures, success, crashes, unlisted, unsaved, applied, chosen>>

-----------------------------------------------------------------------------
(* PerformRemoteSync.                                                       *)

(* TIMER_REMOTE_CONFIG. *)
Poll ==
    /\ pc = "idle" /\ allowed /\ mem.enabled
    /\ pc' = "sync"
    /\ UNCHANGED <<server, network, files, memory, witness>>

FetchMergedConfig ==
    /\ pc = "sync" /\ pc' = "fetch"
    /\ wire' = [kind |-> "fetch", id |-> mem.id, token |-> token, revision |-> mem.revision]
    /\ UNCHANGED <<server, reply, late, files, memory, witness>>

(* A config, with a revision and signed with the kiosk's token: anything else is
   an error, or nothing new. *)
HasConfig == reply.kind = "config"

(* remoteFailureCount: one more, or none any more. *)
CountFailure(failed) == failures' = IF failed THEN Min({failures + 1, MaxFailures}) ELSE 0

(* FetchMergedConfig returns; a password command not consumed yet is saved. *)
Fetched ==
    /\ pc = "fetch" /\ reply # None
    /\ wire' = None /\ CountFailure(reply.kind = "error")
    /\ IF HasConfig
         THEN LET c == reply.command IN
              /\ UNCHANGED reply
              /\ IF c # 0 /\ c \notin done \cup Garbled
                   THEN Save([mem EXCEPT !.password = c], "remember")
                   ELSE pc' = "merge" /\ UNCHANGED <<saving, after>>
         ELSE pc' = "idle" /\ reply' = None /\ UNCHANGED <<saving, after>>
    /\ UNCHANGED <<server, late, files, mem, token, done, allowed, success, witness>>

(* Slip: the password in memory stays the old one. *)
RememberIdOnly ==
    /\ pc = "remember" /\ pc' = "merge"
    /\ done' = done \cup {reply.command} /\ doneFile' = doneFile \cup {reply.command}
    /\ success' = reply.command
    /\ UNCHANGED <<server, network, disk, tokenFile, mem, token, allowed, failures,
                   saving, after, witness>>

(* Slip: the command is not remembered. *)
RememberNothing ==
    /\ pc = "remember" /\ pc' = "merge"
    /\ mem' = [mem EXCEPT !.password = reply.command]
    /\ success' = reply.command
    /\ UNCHANGED <<server, network, files, token, done, allowed, failures, saving,
                   after, witness>>

(* In memory, and as one more line of the file if that can be written; the result is
   ignored. *)
RememberConsumedCommandId(c) ==
    /\ done' = done \cup {c}
    /\ \/ doneFile' = doneFile \cup {c} /\ UNCHANGED <<faults, unlisted>>
       \/ Fault /\ unlisted' = unlisted + 1 /\ UNCHANGED doneFile

(* The command is consumed. *)
Remember ==
    /\ pc = "remember" /\ pc' = "merge"
    /\ mem' = [mem EXCEPT !.password = reply.command]
    /\ RememberConsumedCommandId(reply.command)
    /\ success' = reply.command
    /\ UNCHANGED <<server, network, disk, tokenFile, token, allowed, failures, saving,
                   after, crashes, unsaved, applied, chosen>>

(* Slip: the answer counts as applied whatever becomes of the file. *)
MergeAcksFirst ==
    /\ pc = "merge" /\ pc' = "ack"
    /\ mem' = [mem EXCEPT !.revision = reply.revision,
                          !.value = IF reply.value = None THEN @ ELSE reply.value]
    /\ wire' = [kind |-> "ack", id |-> mem.id, token |-> token, revision |-> reply.revision,
                command |-> success]
    /\ reply' = None /\ success' = 0
    /\ UNCHANGED <<server, late, files, token, done, allowed, failures, saving, after,
                   witness>>

(* Slip: the fields are merged the other way round. *)
MergeConfigLocalWins ==
    /\ pc = "merge"
    /\ mem' = [mem EXCEPT !.revision = reply.revision,
                          !.value = IF @ = None THEN reply.value ELSE @]
    /\ Save(mem', "sendack") /\ reply' = None
    /\ UNCHANGED <<server, wire, late, files, token, done, allowed, failures, success,
                   witness>>

(* The fields the server sends replace the local ones; the rest stays. *)
MergeConfig ==
    /\ pc = "merge"
    /\ mem' = [mem EXCEPT !.revision = reply.revision,
                          !.value = IF reply.value = None THEN @ ELSE reply.value]
    /\ Save(mem', "sendack") /\ reply' = None
    /\ UNCHANGED <<server, wire, late, files, token, done, allowed, failures, success,
                   witness>>

AckAppliedRevision ==
    /\ pc = "sendack" /\ pc' = "ack"
    /\ wire' = [kind |-> "ack", id |-> mem.id, token |-> token, revision |-> mem.revision,
                command |-> success]
    /\ success' = 0
    /\ UNCHANGED <<server, reply, late, files, mem, token, done, allowed, failures,
                   saving, after, witness>>

(* Its result is ignored. *)
Acked ==
    /\ pc = "ack" /\ reply # None
    /\ wire' = None /\ reply' = None /\ pc' = "idle"
    /\ UNCHANGED <<server, late, files, memory, witness>>

(* A timeout, or the network is down: HttpJsonRequest fails.  The request may
   still be on its way. *)
Timeout ==
    /\ wire # None /\ wire' = None /\ reply' = None
    /\ late' \in {late} \cup (IF reply = None /\ wire.kind # "fetch" THEN {wire} ELSE {})
    /\ pc' = IF wire.kind = "register" THEN "code" ELSE "idle"
    /\ IF wire.kind = "fetch" THEN CountFailure(TRUE) ELSE UNCHANGED failures
    /\ UNCHANGED <<server, files, mem, token, done, allowed, success, saving, after,
                   witness>>

-----------------------------------------------------------------------------
(* The server.                                                              *)

Revisions == {node[s].revision : s \in Scopes}
Newest == Max(Revisions)

(* array_merge(global, device) *)
Merged ==
    IF "device" \in Scopes /\ node["device"].value # None THEN node["device"].value
    ELSE node["global"].value

Active == {c \in Commands : queue[c] = "queued"}
(* Slip: the one queued last. *)
FirstCommandIsLast == IF Active = {} THEN 0 ELSE Max(Active)
FirstCommand == IF Active = {} THEN 0 ELSE Min(Active)

Authorized(request) == registered[request.id] = request.token

(* getMergedConfig *)
MergedReply(request) ==
    IF ~Authorized(request) THEN [kind |-> "error"]
    ELSE IF Newest <= request.revision /\ Active = {} THEN [kind |-> "notModified"]
    ELSE [kind |-> "config", revision |-> Newest, value |-> Merged, command |-> FirstCommand]

(* registerDevice *)
RegisterDevice(request) ==
    /\ IF request.code \in codes
         THEN /\ codes' = codes \ {request.code}
              /\ registered' = [registered EXCEPT ![request.id] = request.code]
         ELSE UNCHANGED <<codes, registered>>
    /\ UNCHANGED <<node, queue>>

(* ackConfig *)
AckConfig(request) ==
    /\ queue' = IF Authorized(request) /\ request.command # 0
                THEN [queue EXCEPT ![request.command] = "consumed"] ELSE queue
    /\ UNCHANGED <<node, codes, registered>>

Serve ==
    /\ wire # None /\ reply = None
    /\ \/ wire.kind = "fetch" /\ reply' = MergedReply(wire) /\ UNCHANGED server
       \/ /\ wire.kind = "register" /\ RegisterDevice(wire)
          /\ reply' = IF wire.code \in codes THEN [kind |-> "token", token |-> wire.code]
                      ELSE [kind |-> "error"]
       \/ wire.kind = "ack" /\ AckConfig(wire) /\ reply' = [kind |-> "ok"]
    /\ UNCHANGED <<wire, late, files, pc, memory, witness>>

ServeLate ==
    /\ late # None /\ late' = None
    /\ \/ late.kind = "register" /\ RegisterDevice(late)
       \/ late.kind = "ack" /\ AckConfig(late)
    /\ UNCHANGED <<wire, reply, files, pc, memory, witness>>

(* publish, or a rollback, which can bring back the empty config. *)
Publish ==
    /\ \E s \in Scopes, v \in Values \cup {None} :
         /\ node[s].revision < MaxRevision
         /\ node' = [node EXCEPT ![s] = [revision |-> @.revision + 1, value |-> v]]
    /\ UNCHANGED <<codes, registered, queue, network, files, pc, memory, witness>>

EnqueuePasswordUpdate ==
    /\ \E c \in Commands :
         /\ queue[c] = "absent" /\ \A b \in Commands : b < c => queue[b] # "absent"
         /\ queue' = [queue EXCEPT ![c] = "queued"]
    /\ UNCHANGED <<node, codes, registered, network, files, pc, memory, witness>>

(* expireAt passes. *)
CommandExpires ==
    /\ \E c \in Active : queue' = [queue EXCEPT ![c] = "expired"]
    /\ UNCHANGED <<node, codes, registered, network, files, pc, memory, witness>>

(* The power goes, or the program ends. *)
Crash ==
    /\ pc # "off" /\ crashes < MaxCrashes
    /\ pc' = "off" /\ crashes' = crashes + 1
    /\ mem' = Blank /\ token' = None /\ done' = {} /\ allowed' = FALSE
    /\ failures' = 0 /\ success' = 0 /\ saving' = Blank /\ after' = "idle"
    /\ wire' = None /\ reply' = None
    /\ late' \in {late} \cup
         (IF wire # None /\ reply = None /\ wire.kind # "fetch" THEN {wire} ELSE {})
    /\ UNCHANGED <<server, files, faults, unlisted, unsaved, applied, chosen>>

KioskStep ==
    \/ Truncate \/ Write \/ StartProgram \/ Load \/ Reachable \/ Registered \/ SaveRemoteToken
    \/ Poll \/ FetchMergedConfig \/ Remember \/ MergeConfig \/ AckAppliedRevision \/ Acked

UserStep == Setup \/ Settings \/ CancelSettings \/ Disable \/ EnterCode

Next ==
    \/ KioskStep \/ Fetched \/ UserStep \/ SaveFails \/ Unreachable \/ Timeout \/ Crash
    \/ Serve \/ ServeLate \/ Publish \/ EnqueuePasswordUpdate \/ CommandExpires

Spec == Init /\ [][Next]_vars

(* The kiosk and the server run on and a save fails MaxFaults times at most; calls
   that are made again and again are answered in time now and then.  Nobody has to
   publish, click or type. *)
FairSpec ==
    Spec /\ WF_vars(KioskStep) /\ SF_vars(Serve) /\ SF_vars(Fetched)

-----------------------------------------------------------------------------
(* App.php:195-203 with main.cpp:625-639: the server takes a command for consumed
   only if its password has been written on the kiosk, whichever calls and answers
   were lost. *)
ConsumedWasApplied == \A c \in Commands : queue[c] = "consumed" => applied[c] > 0

(* main.cpp:663-671: what is acknowledged as applied is on the disk, unless SaveConfig
   has just returned false, which 663 ignores. *)
AckIsDurable ==
    wire # None /\ wire.kind = "ack" /\ ~unsaved
      => disk # None /\ disk.revision = wire.revision

(* main.cpp:628-632, 663: a config written for another reason never brings an older
   password back, whichever saves have failed before; as long as the last one failed
   the file may be behind. *)
PasswordIsKept == disk # None /\ ~unsaved => disk.password = chosen

(* main.cpp:613-615, 688-696: only a crash, or a line of consumed_commands.dat that
   could not be written, can make the kiosk apply a command a second time, however
   often the server sends it. *)
ReplayedOnlyAfterCrash == \A c \in Commands : applied[c] <= 1 + crashes + unlisted

(* PasswordCommandService.php:16-54 with main.cpp:613-639: whatever is lost, fails or
   expires on the way, a command is never applied, nor applied again, after one that
   was queued behind it: its password is not put over a newer one.  For commands
   without effectiveAt, which the server passes over until its time has come. *)
AppliedInOrder ==
    [][\A older, newer \in Commands :
         older < newer /\ applied[newer] > 0 => applied'[older] = applied[older]]_vars

(* main.cpp:555-572: however long an outage lasts, polls are not closer than the
   base nor further apart than the cap (or the base with its jitter, if that is
   more), and one more failure never makes the next poll come earlier. *)
PollDelayBounded ==
    \A random \in 0 .. PollJitter :
        LET delay(count) == PollDelay(PollBase, random, PollCap, count) IN
        /\ delay(failures) \in PollBase .. Max({PollBase + PollJitter, PollCap})
        /\ \A fewer \in 0 .. failures : delay(fewer) <= delay(failures)

(* The kiosk waits for polls again and again, with a token the server knows. *)
InService ==
    /\ []<>(pc = "idle")
    /\ <>[](mem.enabled /\ allowed /\ token # None /\ registered[mem.id] = token)
    /\ <>[][~Settings /\ ~CancelSettings /\ ~Crash /\ ~Publish]_vars

(* README.md:224-225: what is published reaches every kiosk in service. *)
Delivered == InService => <>[](Merged # None => mem.value = Merged)

=============================================================================
