--------------------------- MODULE RemoteSyncProofs ---------------------------
(***************************************************************************)
(* The safety of a kiosk and its server for every set of scopes, contents,  *)
(* codes and commands and every number of crashes and failing saves: what   *)
(* was consumed was applied, and in order; what is acknowledged is on the   *)
(* disk and a password is kept unless the last save failed; only a crash or *)
(* a lost line makes a command apply again; the polls keep their distance.  *)
(***************************************************************************)
EXTENDS RemoteSync, LeastNumber

USE ScopesAssumption, CommandsAssumption, NoneAssumption, PollAssumption, BoundsAssumption
USE DEF server, network, files, memory, witness, ByUser, ByCommand, Fault

(* The type invariant, part by part. *)
PCs == {"off", "setup", "load", "rung2", "notice", "code", "register", "savetoken", "sync",
        "fetch", "remember", "merge", "sendack", "ack", "idle", "truncate", "write"}
Returns == {"setup", "load", "idle", "sync", "remember", "sendack"}

ServerOK ==
    /\ node \in [Scopes -> [revision : 0 .. MaxRevision, value : Values \cup {None}]]
    /\ codes \subseteq Codes /\ registered \in [Ids -> Codes \cup {None}]
    /\ queue \in [Commands -> {"absent", "queued", "consumed", "expired"}]

NetworkOK ==
    /\ wire \in Registers \cup Fetches \cup Acks \cup {None}
    /\ late \in Registers \cup Acks \cup {None}
    /\ reply \in Replies \cup {None}

FilesOK ==
    /\ disk \in Configs \cup {None} /\ tokenFile \in Codes \cup {None}
    /\ doneFile \subseteq Commands

FlowOK == pc \in PCs /\ saving \in Configs /\ after \in Returns
MemoryOK ==
    /\ mem \in Configs /\ token \in Codes \cup {None} /\ done \subseteq Commands
    /\ allowed \in BOOLEAN /\ success \in Commands \cup {0}
CountsOK ==
    /\ failures \in 0 .. MaxFailures /\ crashes \in 0 .. MaxCrashes
    /\ faults \in 0 .. MaxFaults /\ unlisted \in 0 .. faults /\ unsaved \in BOOLEAN
PastOK == applied \in [Commands -> Nat] /\ chosen \in Passwords

TypeInv == ServerOK /\ NetworkOK /\ FilesOK /\ FlowOK /\ MemoryOK /\ CountsOK /\ PastOK

(* The kiosk is at one of the places P, or gets there when it has saved. *)
Going(P) == pc \in P \/ (pc \in {"truncate", "write"} /\ after \in P)

(* It talks to the server, or may at its next poll. *)
Serving ==
    \/ Going({"savetoken", "sync", "fetch", "remember", "merge", "sendack", "ack"})
    \/ Going({"idle"}) /\ allowed
    \/ pc \in {"truncate", "write"} /\ after = "load" /\ allowed

(* What registration has established by then: the consumed commands of the file, or
   more, an id, a token. *)
KnownInv ==
    /\ pc \in {"rung2", "code", "register"} \/ Serving => doneFile \subseteq done
    /\ pc \in {"code", "register"} \/ Serving => mem.id # 0
    /\ Serving => token # None

(* The call that is out is the one the kiosk waits for; what the kiosk works on is a
   config, and what it is about to apply a command not consumed before. *)
WireInv ==
    /\ wire # None => pc = wire.kind
    /\ pc = "merge" \/ Going({"remember"}) => reply # None /\ HasConfig
    /\ Going({"remember"}) => reply.command \in Commands \ doneFile

(* What is written is the config in memory, with the new password if that is why. *)
SaveInv ==
    pc \in {"truncate", "write"} =>
        saving = IF after = "remember" THEN [mem EXCEPT !.password = reply.command] ELSE mem

(* The password in memory is the one set last, but for the time between its writing
   and its taking over; so is the one on the disk, unless the last save failed. *)
PasswordInv ==
    /\ disk # None /\ ~unsaved => disk.password = chosen
    /\ pc = "remember" => chosen = reply.command
    /\ pc \notin {"off", "setup", "remember"} /\ ~(pc \in {"truncate", "write"} /\ ByUser)
         => mem.password = chosen

(* A command not listed in the file has been applied once for every crash and every
   line that could not be written at most. *)
ReplayInv ==
    \A c \in Commands :
        applied[c] <= crashes + unlisted
                        + IF c \in doneFile \/ (pc = "remember" /\ reply.command = c)
                          THEN 1 ELSE 0

(* What is acknowledged was written, unless the last save failed. *)
AckInv ==
    /\ wire # None /\ wire.kind = "ack" /\ ~unsaved
         => disk # None /\ disk.revision = wire.revision
    /\ pc = "sendack" /\ ~unsaved => disk = mem

(* A command is reported, under way or not, when it has been applied. *)
ConsumedInv ==
    /\ \A c \in Commands : queue[c] = "consumed" => applied[c] > 0
    /\ success # 0 => applied[success] > 0
    /\ \A request \in {wire, late} \ {None} :
         request.kind = "ack" /\ request.command # 0 => applied[request.command] > 0
    /\ pc = "remember" => applied[reply.command] > 0

(* Commands are queued in order, and one is applied, or on its way to the kiosk, when
   those before it have left the queue and none behind it has been applied. *)
Gone(c) == queue[c] \in {"consumed", "expired"}
TurnOf(c) == queue[c] # "absent" /\ \A b \in Commands : b < c => Gone(b)
OrderInv ==
    /\ \A b, c \in Commands : b < c /\ queue[c] # "absent" => queue[b] # "absent"
    /\ \A c \in Commands : applied[c] > 0 => TurnOf(c)
    /\ reply # None /\ HasConfig /\ reply.command # 0 =>
         /\ TurnOf(reply.command)
         /\ \A d \in Commands : reply.command < d => applied[d] = 0

IInv ==
    /\ TypeInv /\ KnownInv /\ WireInv /\ SaveInv /\ PasswordInv /\ ReplayInv /\ AckInv
    /\ ConsumedInv /\ OrderInv

-----------------------------------------------------------------------------
(* What the operators return.                                               *)

(* The fields of a config, and a config with one of them set. *)
LEMMA ConfigSet ==
  ASSUME NEW m \in Configs
  PROVE  /\ m.enabled \in BOOLEAN /\ m.id \in Ids \cup {0} /\ m.revision \in 0 .. MaxRevision
         /\ m.value \in Values \cup LocalValues \cup {None} /\ m.password \in Passwords
         /\ \A i \in Ids : [m EXCEPT !.id = i] \in Configs
         /\ [m EXCEPT !.enabled = FALSE] \in Configs
         /\ \A c \in Passwords : [m EXCEPT !.password = c] \in Configs
         /\ \A n \in 0 .. MaxRevision, v \in Values \cup LocalValues \cup {None} :
              [m EXCEPT !.revision = n, !.value = v] \in Configs
  <1> DEFINE R == 0 .. MaxRevision
             V == Values \cup LocalValues \cup {None}
             I == Ids \cup {0}
  <1>1. Configs = [enabled : BOOLEAN, id : I, revision : R, value : V, password : Passwords]
    BY DEF Configs
  <1>2. Ids \subseteq I  OBVIOUS
  <1> HIDE DEF R, V, I
  <1>3. /\ m.enabled \in BOOLEAN /\ m.id \in I /\ m.revision \in R /\ m.value \in V
        /\ m.password \in Passwords
    BY <1>1
  <1>4. \A i \in Ids : [m EXCEPT !.id = i] \in Configs  BY <1>1, <1>2
  <1>5. [m EXCEPT !.enabled = FALSE] \in Configs  BY <1>1
  <1>6. \A c \in Passwords : [m EXCEPT !.password = c] \in Configs  BY <1>1
  <1>7. \A n \in R, v \in V : [m EXCEPT !.revision = n, !.value = v] \in Configs  BY <1>1
  <1> QED  BY <1>3, <1>4, <1>5, <1>6, <1>7 DEF R, V, I

(* The kiosk's config before any file. *)
LEMMA BlankTyped == Blank \in Configs
  BY DEF Blank, Configs, Passwords

(* What the dialog leaves keeps the id and the revision. *)
LEMMA EditedTyped ==
  ASSUME MemoryOK, NEW m \in Edited
  PROVE  m \in Configs /\ m.id = mem.id /\ m.revision = mem.revision
  <1>1. /\ mem.id \in Ids \cup {0} /\ mem.revision \in 0 .. MaxRevision
        /\ mem.value \in Values \cup LocalValues \cup {None} /\ mem.password \in Passwords
    BY ConfigSet DEF MemoryOK
  <1>2. m.id = mem.id /\ m.revision = mem.revision  BY DEF Edited
  <1>3. m \in Configs
    <2> DEFINE R == 0 .. MaxRevision
               V == Values \cup LocalValues \cup {None}
               I == Ids \cup {0}
    <2>1. mem.id \in I /\ mem.revision \in R /\ mem.value \in V  BY <1>1
    <2>2. LocalValues \subseteq V /\ 0 \in Passwords  BY DEF Passwords
    <2> HIDE DEF R, V, I
    <2>3. m \in [enabled : BOOLEAN, id : I, revision : R, value : V, password : Passwords]
      BY <1>1, <2>1, <2>2 DEF Edited
    <2> QED  BY <2>3 DEF Configs, R, V, I
  <1> QED  BY <1>2, <1>3

(* The greatest and the least of two numbers. *)
LEMMA MaxOfTwo == \A a, b \in Int : Max({a, b}) = IF a >= b THEN a ELSE b
  <1> SUFFICES ASSUME NEW a \in Int, NEW b \in Int
               PROVE  Max({a, b}) = IF a >= b THEN a ELSE b
    OBVIOUS
  <1> DEFINE m == IF a >= b THEN a ELSE b
  <1>1. m \in {a, b} /\ \A y \in {a, b} : m >= y  OBVIOUS
  <1>2. \A x \in {a, b} : (\A y \in {a, b} : x >= y) => x = m  OBVIOUS
  <1> HIDE DEF m
  <1>3. Max({a, b}) = m  BY <1>1, <1>2 DEF Max
  <1> QED  BY <1>3 DEF m

(* The smaller of two numbers. *)
LEMMA MinOfTwo == \A a, b \in Int : Min({a, b}) = IF a <= b THEN a ELSE b
  <1> SUFFICES ASSUME NEW a \in Int, NEW b \in Int
               PROVE  Min({a, b}) = IF a <= b THEN a ELSE b
    OBVIOUS
  <1> DEFINE m == IF a <= b THEN a ELSE b
  <1>1. m \in {a, b} /\ \A y \in {a, b} : m <= y  OBVIOUS
  <1>2. \A x \in {a, b} : (\A y \in {a, b} : x <= y) => x = m  OBVIOUS
  <1> HIDE DEF m
  <1>3. Min({a, b}) = m  BY <1>1, <1>2 DEF Min
  <1> QED  BY <1>3 DEF m

(* One failure more, or none, is a count of failures. *)
LEMMA CountTyped ==
  ASSUME CountsOK, NEW failed \in BOOLEAN, CountFailure(failed)
  PROVE  failures' \in 0 .. MaxFailures
  <1>1. Min({failures + 1, MaxFailures}) \in 0 .. MaxFailures
    <2>1. failures + 1 \in Int /\ MaxFailures \in Int  BY DEF CountsOK
    <2>2. Min({failures + 1, MaxFailures})
            = IF failures + 1 <= MaxFailures THEN failures + 1 ELSE MaxFailures
      BY <2>1, MinOfTwo
    <2> QED  BY <2>2 DEF CountsOK
  <1> QED  BY <1>1 DEF CountFailure

(* What the server answers to a fetch. *)
LEMMA AnswerTyped ==
  ASSUME ServerOK
  PROVE  \A request : MergedReply(request) \in Replies
  <1>1. Newest \in 0 .. MaxRevision
    <2>1. \A s \in Scopes : node[s].revision \in 0 .. MaxRevision  BY DEF ServerOK
    <2>2. CASE "device" \in Scopes
      <3> DEFINE a == node["global"].revision
                 b == node["device"].revision
      <3>1. Scopes = {"global", "device"}  BY <2>2
      <3>2. Revisions = {a, b}  BY <3>1 DEF Revisions
      <3>3. a \in 0 .. MaxRevision /\ b \in 0 .. MaxRevision  BY <2>1, <3>1
      <3> HIDE DEF a, b
      <3>4. Max({a, b}) = IF a >= b THEN a ELSE b  BY <3>3, MaxOfTwo
      <3> QED  BY <3>2, <3>3, <3>4 DEF Newest
    <2>3. CASE "device" \notin Scopes
      <3> DEFINE a == node["global"].revision
      <3>1. Scopes = {"global"}  BY <2>3
      <3>2. Revisions = {a, a}  BY <3>1 DEF Revisions
      <3>3. a \in 0 .. MaxRevision  BY <2>1, <3>1
      <3> HIDE DEF a
      <3>4. Max({a, a}) = a  BY <3>3, MaxOfTwo
      <3> QED  BY <3>2, <3>3, <3>4 DEF Newest
    <2> QED  BY <2>2, <2>3
  <1>2. Merged \in Values \cup {None}  BY DEF Merged, ServerOK
  <1>3. FirstCommand \in Commands \cup {0}
    <2>1. CASE Active = {}  BY <2>1 DEF FirstCommand
    <2>2. CASE Active # {}
      <3>1. Active \subseteq Commands /\ Active \subseteq Nat  BY DEF Active
      <3>2. \E m \in Active : \A k \in Active : m <= k  BY <2>2, <3>1, HasMinimum
      <3>3. Min(Active) \in Active  BY <3>2 DEF Min
      <3> QED  BY <2>2, <3>1, <3>3 DEF FirstCommand
    <2> QED  BY <2>1, <2>2
  <1> SUFFICES ASSUME NEW request PROVE MergedReply(request) \in Replies  OBVIOUS
  <1>4. [kind |-> "config", revision |-> Newest, value |-> Merged, command |-> FirstCommand]
          \in Replies
    BY <1>1, <1>2, <1>3 DEF Replies
  <1>5. [kind |-> "error"] \in Replies /\ [kind |-> "notModified"] \in Replies  BY DEF Replies
  <1> QED  BY <1>4, <1>5 DEF MergedReply

(* A command has been applied once more. *)
LEMMA OneMore ==
  ASSUME NEW S, NEW f \in [S -> Nat], NEW k \in S
  PROVE  LET g == [f EXCEPT ![k] = f[k] + 1]
         IN  g \in [S -> Nat] /\ g[k] = f[k] + 1 /\ \A c \in S : c # k => g[c] = f[c]
  <1> DEFINE n == f[k] + 1
  <1>1. n \in Nat  OBVIOUS
  <1> HIDE DEF n
  <1>2. LET g == [f EXCEPT ![k] = n]
        IN  g \in [S -> Nat] /\ g[k] = n /\ \A c \in S : c # k => g[c] = f[c]
    BY <1>1
  <1> QED  BY <1>2 DEF n

(* A request is what its kind says; so is an answer. *)
LEMMA RequestKinds ==
  /\ \A w \in Registers : w.kind = "register" /\ w.id \in Ids /\ w.code \in Codes
  /\ \A w \in Fetches : w.kind = "fetch"
  /\ \A w \in Acks : w.kind = "ack" /\ w.id \in Ids /\ w.command \in Commands \cup {0}
  BY DEF Registers, Fetches, Acks

(* What an answer of each kind carries. *)
LEMMA ReplyKinds ==
  \A a \in Replies :
    /\ a.kind = "token" => a.token \in Codes
    /\ a.kind = "config" => /\ a.revision \in 0 .. MaxRevision /\ a.value \in Values \cup {None}
                            /\ a.command \in Commands \cup {0}
  BY DEF Replies

-----------------------------------------------------------------------------
(* Types.                                                                   *)

(* The kiosk's own steps, those of its calls, and the server's. *)
Local ==
    \/ Truncate \/ Write \/ StartProgram \/ Load \/ Reachable \/ Unreachable \/ SaveRemoteToken
    \/ Poll \/ Remember \/ Setup \/ Settings \/ CancelSettings \/ Disable \/ SaveFails
Call ==
    \/ EnterCode \/ Registered \/ FetchMergedConfig \/ Fetched \/ MergeConfig
    \/ AckAppliedRevision \/ Acked \/ Timeout \/ Crash
Server == Serve \/ ServeLate \/ Publish \/ EnqueuePasswordUpdate \/ CommandExpires

(* A step is the kiosk's own, an exchange of the kiosk with the network, or the
   server's; each of the three leaves much alone. *)
LEMMA Steps == [Next]_vars => Local \/ Call \/ Server \/ UNCHANGED vars
  BY DEF Next, KioskStep, UserStep, Local, Call, Server

(* What each kind of step leaves alone. *)
LEMMA LocalKeeps == Local => UNCHANGED <<server, network>>
  BY DEF Local, Truncate, Write, StartProgram, Load, Reachable, Unreachable, SaveRemoteToken,
    Poll, Remember, Setup, Settings, CancelSettings, Disable, SaveFails

(* An exchange with the network touches neither the server nor a file. *)
LEMMA CallKeeps ==
  Call => UNCHANGED <<server, files, applied, chosen, faults, unlisted, unsaved>>
  BY DEF Call, EnterCode, Registered, FetchMergedConfig, Fetched, MergeConfig,
    AckAppliedRevision, Acked, Timeout, Crash

(* The server touches nothing of the kiosk. *)
LEMMA ServerKeeps == Server => UNCHANGED <<wire, files, pc, memory, witness>>
  BY DEF Server, Serve, ServeLate, Publish, EnqueuePasswordUpdate, CommandExpires

(* The types of the server. *)
LEMMA ServerTypes == TypeInv /\ Server => ServerOK'
  <1> SUFFICES ASSUME TypeInv, Server PROVE ServerOK'  OBVIOUS
  <1> USE DEF ServerOK
  <1>0. ServerOK /\ NetworkOK  BY DEF TypeInv
  <1>1. ASSUME NEW request \in Registers, RegisterDevice(request)  PROVE ServerOK'
    BY <1>0, <1>1, RequestKinds DEF RegisterDevice
  <1>2. ASSUME NEW request \in Acks, AckConfig(request)  PROVE ServerOK'
    BY <1>0, <1>2, RequestKinds DEF AckConfig
  <1>3. CASE Serve
    <2>1. CASE UNCHANGED server  BY <1>0, <2>1
    <2>2. CASE wire.kind = "register" /\ RegisterDevice(wire)
      BY <1>0, <1>1, <1>3, <2>2, RequestKinds DEF Serve, NetworkOK
    <2>3. CASE wire.kind = "ack" /\ AckConfig(wire)
      BY <1>0, <1>2, <1>3, <2>3, RequestKinds DEF Serve, NetworkOK
    <2> QED  BY <1>3, <2>1, <2>2, <2>3 DEF Serve
  <1>4. CASE ServeLate
    <2>1. CASE late.kind = "register" /\ RegisterDevice(late)
      BY <1>0, <1>1, <1>4, <2>1, RequestKinds DEF ServeLate, NetworkOK
    <2>2. CASE late.kind = "ack" /\ AckConfig(late)
      BY <1>0, <1>2, <1>4, <2>2, RequestKinds DEF ServeLate, NetworkOK
    <2> QED  BY <1>4, <2>1, <2>2 DEF ServeLate
  <1>5. CASE Publish
    <2>1. PICK s \in Scopes, v \in Values \cup {None} :
            /\ node[s].revision < MaxRevision
            /\ node' = [node EXCEPT ![s] = [revision |-> @.revision + 1, value |-> v]]
      BY <1>5 DEF Publish
    <2>2. node[s].revision + 1 \in 0 .. MaxRevision  BY <1>0, <2>1
    <2>3. UNCHANGED <<codes, registered, queue>>  BY <1>5 DEF Publish
    <2> DEFINE R == 0 .. MaxRevision
    <2>4. node \in [Scopes -> [revision : R, value : Values \cup {None}]]
          /\ node[s].revision + 1 \in R
      BY <1>0, <2>2
    <2> HIDE DEF R
    <2>5. node' \in [Scopes -> [revision : R, value : Values \cup {None}]]
      BY <2>1, <2>4
    <2> QED  BY <1>0, <2>3, <2>5 DEF R
  <1>6. CASE EnqueuePasswordUpdate  BY <1>0, <1>6 DEF EnqueuePasswordUpdate
  <1>7. CASE CommandExpires  BY <1>0, <1>7 DEF CommandExpires, Active
  <1> QED  BY <1>3, <1>4, <1>5, <1>6, <1>7 DEF Server

(* The types of what is on the wire. *)
LEMMA NetworkTypes == TypeInv /\ KnownInv /\ (Call \/ Server) => NetworkOK'
  <1> SUFFICES ASSUME TypeInv, KnownInv, Call \/ Server PROVE NetworkOK'  OBVIOUS
  <1> USE DEF NetworkOK
  <1>0. NetworkOK /\ mem \in Configs /\ mem.id \in Ids \cup {0} /\ mem.revision \in 0 .. MaxRevision
    BY ConfigSet DEF TypeInv, MemoryOK
  <1>1. ASSUME pc \in {"sync", "sendack"}  PROVE token \in Codes /\ mem.id \in Ids
    BY <1>0, <1>1 DEF KnownInv, Serving, Going, TypeInv, MemoryOK
  <1>2. CASE EnterCode
    <2>1. mem.id \in Ids  BY <1>0, <1>2 DEF EnterCode, KnownInv
    <2> QED  BY <1>0, <1>2, <2>1 DEF EnterCode, Registers
  <1>3. CASE FetchMergedConfig
    BY <1>0, <1>1, <1>3 DEF FetchMergedConfig, Fetches
  <1>4. CASE AckAppliedRevision
    <2>1. success \in Commands \cup {0}  BY DEF TypeInv, MemoryOK
    <2> QED  BY <1>0, <1>1, <1>4, <2>1 DEF AckAppliedRevision, Acks
  <1>5. CASE Registered \/ Fetched \/ MergeConfig \/ Acked
    BY <1>0, <1>5 DEF Registered, Fetched, MergeConfig, Acked
  <1>6. CASE Timeout \/ Crash
    <2>1. wire' = None /\ reply' = None
      BY <1>6 DEF Timeout, Crash
    <2>2. late' = late \/ (late' = wire /\ wire # None /\ wire.kind # "fetch")
      BY <1>6 DEF Timeout, Crash
    <2> QED  BY <1>0, <2>1, <2>2, RequestKinds
  <1>7. CASE Serve
    <2>1. reply' \in Replies
      <3>1. CASE wire.kind = "fetch" /\ reply' = MergedReply(wire)
        BY <3>1, AnswerTyped DEF TypeInv
      <3>2. CASE wire.kind = "register" /\ reply' = IF wire.code \in codes
                    THEN [kind |-> "token", token |-> wire.code] ELSE [kind |-> "error"]
        <4>1. wire.code \in Codes  BY <1>0, <1>7, <3>2, RequestKinds DEF Serve
        <4> QED  BY <3>2, <4>1 DEF Replies
      <3>3. CASE reply' = [kind |-> "ok"]  BY <3>3 DEF Replies
      <3> QED  BY <1>7, <3>1, <3>2, <3>3 DEF Serve
    <2> QED  BY <1>0, <1>7, <2>1 DEF Serve
  <1>8. CASE ServeLate \/ Publish \/ EnqueuePasswordUpdate \/ CommandExpires
    BY <1>0, <1>8 DEF ServeLate, Publish, EnqueuePasswordUpdate, CommandExpires
  <1> QED  BY <1>2, <1>3, <1>4, <1>5, <1>6, <1>7, <1>8 DEF Call, Server

(* The types of the kiosk's files. *)
LEMMA FileTypes == TypeInv /\ WireInv /\ Local => FilesOK'
  <1> SUFFICES ASSUME TypeInv, WireInv, Local PROVE FilesOK'  OBVIOUS
  <1> USE DEF FilesOK
  <1>0. FilesOK /\ saving \in Configs /\ token \in Codes \cup {None}
    BY DEF TypeInv, FlowOK, MemoryOK
  <1>1. CASE Truncate \/ Write \/ SaveRemoteToken
    BY <1>0, <1>1 DEF Truncate, Write, SaveRemoteToken
  <1>2. CASE Remember
    <2>1. reply.command \in Commands  BY <1>2 DEF Remember, WireInv, Going
    <2> QED  BY <1>0, <1>2, <2>1 DEF Remember, RememberConsumedCommandId
  <1>3. CASE \/ StartProgram \/ Load \/ Reachable \/ Unreachable \/ Poll \/ Setup
             \/ Settings \/ CancelSettings \/ Disable \/ SaveFails
    BY <1>0, <1>3 DEF StartProgram, Load, Reachable, Unreachable, Poll, Setup, Settings,
      CancelSettings, Disable, SaveFails
  <1> QED  BY <1>1, <1>2, <1>3 DEF Local

(* The types of the kiosk's memory. *)
LEMMA MemoryTypes == TypeInv /\ WireInv /\ (Local \/ Call) => MemoryOK'
  <1> SUFFICES ASSUME TypeInv, WireInv, Local \/ Call PROVE MemoryOK'  OBVIOUS
  <1> USE DEF MemoryOK
  <1>0. MemoryOK /\ FilesOK  BY DEF TypeInv
  <1>1. CASE StartProgram \/ Load
    BY <1>0, <1>1 DEF StartProgram, LoadConfig, Load, LoadRemoteToken, LoadConsumedCommandIds,
      FilesOK
  <1>2. CASE Reachable
    <2>1. crashes + 1 \in Ids  BY DEF TypeInv, CountsOK, Ids
    <2>2. mem' = [mem EXCEPT !.id = IF mem.id = 0 THEN crashes + 1 ELSE mem.id]
      BY <1>2 DEF Reachable
    <2>3. mem' \in Configs  BY <1>0, <2>1, <2>2, ConfigSet
    <2> QED  BY <1>0, <1>2, <2>3 DEF Reachable
  <1>3. CASE Remember
    <2>1. reply.command \in Commands  BY <1>3 DEF Remember, WireInv, Going
    <2>2. mem' \in Configs  BY <1>0, <1>3, <2>1, ConfigSet DEF Remember, Passwords
    <2> QED  BY <1>0, <1>3, <2>1, <2>2 DEF Remember, RememberConsumedCommandId
  <1>4. CASE Setup \/ Settings \/ CancelSettings
    <2>1. mem' \in Configs
      BY <1>0, <1>4, EditedTyped DEF Setup, Settings, CancelSettings
    <2> QED  BY <1>0, <1>4, <2>1 DEF Setup, Settings, CancelSettings
  <1>5. CASE Disable
    <2>1. mem' \in Configs  BY <1>0, <1>5, ConfigSet DEF Disable
    <2> QED  BY <1>0, <1>5, <2>1 DEF Disable
  <1>6. CASE Registered
    <2>1. reply \in Replies  BY <1>6 DEF Registered, TypeInv, NetworkOK
    <2> QED  BY <1>0, <1>6, <2>1, ReplyKinds DEF Registered
  <1>7. CASE MergeConfig
    <2>1. reply \in Replies /\ reply.kind = "config"
      BY <1>7 DEF MergeConfig, WireInv, HasConfig, TypeInv, NetworkOK
    <2>2. /\ reply.revision \in 0 .. MaxRevision
          /\ reply.value \in Values \cup LocalValues \cup {None}
          /\ mem.value \in Values \cup LocalValues \cup {None}
      BY <1>0, <2>1, ReplyKinds, ConfigSet
    <2> DEFINE v == IF reply.value = None THEN mem.value ELSE reply.value
    <2>3. mem' = [mem EXCEPT !.revision = reply.revision, !.value = v]
      BY <1>7 DEF MergeConfig
    <2>4. v \in Values \cup LocalValues \cup {None}  BY <2>2
    <2>5. mem' \in Configs  BY <1>0, <2>2, <2>3, <2>4, ConfigSet
    <2> QED  BY <1>0, <1>7, <2>5 DEF MergeConfig
  <1>8. CASE Crash
    BY <1>0, <1>8, BlankTyped DEF Crash
  <1>9. CASE Truncate \/ Write \/ Unreachable \/ SaveRemoteToken \/ Poll \/ SaveFails
    BY <1>0, <1>9 DEF Truncate, Write, Unreachable, SaveRemoteToken, Poll, SaveFails
  <1>10. CASE EnterCode \/ FetchMergedConfig \/ Fetched \/ AckAppliedRevision \/ Acked \/ Timeout
    BY <1>0, <1>10 DEF EnterCode, FetchMergedConfig, Fetched, AckAppliedRevision, Acked, Timeout
  <1> QED
    BY <1>1, <1>2, <1>3, <1>4, <1>5, <1>6, <1>7, <1>8, <1>9, <1>10 DEF Local, Call

(* The types of the kiosk's program counter and timers. *)
LEMMA FlowTypes == TypeInv /\ WireInv /\ (Local \/ Call) => FlowOK'
  <1> SUFFICES ASSUME TypeInv, WireInv, Local \/ Call PROVE FlowOK'  OBVIOUS
  <1>0. FlowOK /\ mem \in Configs /\ mem' \in Configs
    BY MemoryTypes DEF TypeInv, MemoryOK
  <1> USE DEF FlowOK, PCs, Returns
  <1>1. CASE Setup \/ Settings \/ Disable \/ SaveRemoteToken \/ MergeConfig
    BY <1>0, <1>1 DEF Setup, Settings, Disable, SaveRemoteToken, MergeConfig, Save
  <1>2. CASE Fetched
    <2>1. reply \in Replies  BY <1>2 DEF Fetched, TypeInv, NetworkOK
    <2>2. HasConfig => [mem EXCEPT !.password = reply.command] \in Configs
      BY <1>0, <2>1, ReplyKinds, ConfigSet DEF HasConfig, Passwords
    <2> QED  BY <1>0, <1>2, <2>2 DEF Fetched, Save
  <1>3. CASE Write \/ Crash \/ SaveFails  BY <1>0, <1>3, BlankTyped DEF Write, Crash, SaveFails
  <1>4. CASE \/ Truncate \/ StartProgram \/ Load \/ Reachable \/ Unreachable \/ Poll \/ Remember
             \/ CancelSettings
    BY <1>0, <1>4 DEF Truncate, StartProgram, Load, Reachable, Unreachable, Poll, Remember,
      CancelSettings
  <1>5. CASE \/ EnterCode \/ Registered \/ FetchMergedConfig \/ AckAppliedRevision \/ Acked
             \/ Timeout
    BY <1>0, <1>5 DEF EnterCode, Registered, FetchMergedConfig, AckAppliedRevision, Acked, Timeout
  <1> QED  BY <1>1, <1>2, <1>3, <1>4, <1>5 DEF Local, Call

(* The counters stay within their bounds. *)
LEMMA CountTypes == TypeInv /\ (Local \/ Call) => CountsOK'
  <1> SUFFICES ASSUME TypeInv, Local \/ Call PROVE CountsOK'  OBVIOUS
  <1>0. CountsOK  BY DEF TypeInv
  <1>1. CASE Call
    <2>1. UNCHANGED <<faults, unlisted, unsaved>>  BY <1>1, CallKeeps
    <2>2. CASE Fetched \/ Timeout
      <3>1. crashes' = crashes
        BY <2>2 DEF Fetched, Timeout
      <3>2. failures' \in 0 .. MaxFailures
        <4>1. CASE UNCHANGED failures  BY <1>0, <4>1 DEF CountsOK
        <4>2. CASE CountFailure(TRUE) \/ CountFailure(reply.kind = "error")
          BY <1>0, <4>2, CountTyped
        <4> QED  BY <2>2, <4>1, <4>2 DEF Fetched, Timeout
      <3> QED  BY <1>0, <2>1, <3>1, <3>2 DEF CountsOK
    <2>3. CASE Crash  BY <1>0, <2>1, <2>3 DEF Crash, CountsOK
    <2>4. CASE \/ EnterCode \/ Registered \/ FetchMergedConfig \/ MergeConfig
               \/ AckAppliedRevision \/ Acked
      BY <1>0, <2>1, <2>4 DEF EnterCode, Registered, FetchMergedConfig, MergeConfig,
        AckAppliedRevision, Acked, CountsOK
    <2> QED  BY <1>1, <2>2, <2>3, <2>4 DEF Call
  <1>2. CASE Local
    <2>1. failures' \in {failures, 0} /\ crashes' = crashes
      BY <1>2 DEF Local, Truncate, Write, StartProgram, Load, Reachable, Unreachable,
        SaveRemoteToken, Poll, Remember, Setup, Settings, CancelSettings, Disable, SaveFails
    <2>2. \/ UNCHANGED <<faults, unlisted>>
          \/ faults < MaxFaults /\ faults' = faults + 1 /\ unlisted' \in {unlisted, unlisted + 1}
      BY <1>2 DEF Local, Truncate, Write, StartProgram, Load, Reachable, Unreachable,
        SaveRemoteToken, Poll, Remember, RememberConsumedCommandId, Setup, Settings,
        CancelSettings, Disable, SaveFails
    <2>3. unsaved' \in {unsaved, TRUE, FALSE}
      BY <1>2 DEF Local, Truncate, Write, StartProgram, Load, Reachable, Unreachable,
        SaveRemoteToken, Poll, Remember, Setup, Settings, CancelSettings, Disable, SaveFails
    <2>4. faults' \in 0 .. MaxFaults /\ unlisted' \in 0 .. faults'
      BY <1>0, <2>2 DEF CountsOK
    <2>5. unsaved' \in BOOLEAN  BY <1>0, <2>3 DEF CountsOK
    <2> QED  BY <1>0, <2>1, <2>4, <2>5 DEF CountsOK
  <1> QED  BY <1>1, <1>2

(* The types of what is kept for the properties. *)
LEMMA PastTypes == TypeInv /\ WireInv /\ Local => PastOK'
  <1> SUFFICES ASSUME TypeInv, WireInv, Local PROVE PastOK'  OBVIOUS
  <1>0. PastOK /\ saving \in Configs  BY DEF TypeInv, FlowOK
  <1>1. CASE Write
    <2>1. applied' \in [Commands -> Nat]
      <3>1. CASE after = "remember"
        <4>1. reply.command \in Commands  BY <1>1, <3>1 DEF Write, WireInv, Going
        <4>2. applied' = [applied EXCEPT ![reply.command] = applied[reply.command] + 1]
          BY <1>1, <3>1 DEF Write
        <4> QED  BY <1>0, <4>1, <4>2, OneMore DEF PastOK
      <3>2. CASE after # "remember"  BY <1>0, <1>1, <3>2 DEF Write, PastOK
      <3> QED  BY <3>1, <3>2
    <2>2. chosen' \in Passwords  BY <1>0, <1>1, ConfigSet DEF Write, PastOK
    <2> QED  BY <2>1, <2>2 DEF PastOK
  <1>2. CASE SaveFails  BY <1>0, <1>2, ConfigSet DEF SaveFails, PastOK
  <1>3. CASE StartProgram
    <2>1. disk # None => disk.password \in Passwords  BY ConfigSet DEF TypeInv, FilesOK
    <2> QED  BY <1>0, <1>3, <2>1 DEF StartProgram, LoadConfig, PastOK
  <1>4. CASE ~Write /\ ~SaveFails /\ ~StartProgram
    <2>1. UNCHANGED <<applied, chosen>>
      BY <1>4 DEF Local, Truncate, Load, Reachable, Unreachable,
        SaveRemoteToken, Poll, Remember, Setup, Settings, CancelSettings, Disable
    <2> QED  BY <1>0, <2>1 DEF PastOK
  <1> QED  BY <1>1, <1>2, <1>3, <1>4

(* Every step keeps the types. *)
LEMMA TypeStep == TypeInv /\ KnownInv /\ WireInv /\ [Next]_vars => TypeInv'
  <1> SUFFICES ASSUME TypeInv, KnownInv, WireInv, [Next]_vars PROVE TypeInv'  OBVIOUS
  <1>1. CASE Local
    <2>1. ServerOK' /\ NetworkOK'
      BY <1>1, LocalKeeps DEF TypeInv, ServerOK, NetworkOK
    <2> QED  BY <1>1, <2>1, FileTypes, FlowTypes, MemoryTypes, CountTypes, PastTypes DEF TypeInv
  <1>2. CASE Call
    <2>1. ServerOK' /\ FilesOK' /\ PastOK'
      BY <1>2, CallKeeps DEF TypeInv, ServerOK, FilesOK, PastOK
    <2> QED  BY <1>2, <2>1, NetworkTypes, FlowTypes, MemoryTypes, CountTypes DEF TypeInv
  <1>3. CASE Server
    <2>1. FilesOK' /\ FlowOK' /\ MemoryOK' /\ CountsOK' /\ PastOK'
      BY <1>3, ServerKeeps DEF TypeInv, FilesOK, FlowOK, MemoryOK, CountsOK, PastOK
    <2> QED  BY <1>3, <2>1, ServerTypes, NetworkTypes DEF TypeInv
  <1>4. CASE UNCHANGED vars
    BY <1>4 DEF vars, TypeInv, ServerOK, NetworkOK, FilesOK, FlowOK, MemoryOK, CountsOK, PastOK
  <1> QED  BY <1>1, <1>2, <1>3, <1>4, Steps

-----------------------------------------------------------------------------
(* What the kiosk's steps keep.                                             *)

(* The invariants that are the kiosk's alone are kept by every step of the server. *)
LEMMA ServerStep ==
  ASSUME TypeInv, KnownInv, SaveInv, PasswordInv, ReplayInv, AckInv, Server, WireInv
  PROVE  KnownInv' /\ SaveInv' /\ PasswordInv' /\ ReplayInv' /\ AckInv' /\ WireInv'
  <1>1. UNCHANGED <<wire, files, pc, memory, witness>>  BY ServerKeeps
  <1>2. reply' = reply \/ wire # None
    BY DEF Server, Serve, ServeLate, Publish, EnqueuePasswordUpdate, CommandExpires
  <1>3. wire # None => pc \in {"register", "fetch", "ack"}
    BY RequestKinds DEF WireInv, TypeInv, NetworkOK
  <1>4. KnownInv' /\ AckInv'  BY <1>1 DEF KnownInv, Serving, Going, AckInv
  <1>5. reply' = reply \/ ~(pc = "merge" \/ Going({"remember"}))  BY <1>2, <1>3 DEF Going
  <1>6. WireInv'  BY <1>1, <1>5 DEF WireInv, Going, HasConfig
  <1>7. SaveInv' /\ PasswordInv' /\ ReplayInv'
    BY <1>1, <1>5 DEF SaveInv, PasswordInv, ReplayInv, Going
  <1> QED  BY <1>4, <1>6, <1>7

(* The kiosk's steps keep what registration has established. *)
LEMMA KnownStep == TypeInv /\ KnownInv /\ WireInv /\ (Local \/ Call) => KnownInv'
  <1> SUFFICES ASSUME TypeInv, KnownInv, WireInv, Local \/ Call PROVE KnownInv'  OBVIOUS
  <1> USE DEF KnownInv, Serving, Going
  <1>1. CASE Truncate  BY <1>1 DEF Truncate
  <1>2. CASE Write  BY <1>2 DEF Write, TypeInv, FlowOK, Returns
  <1>3. CASE StartProgram  BY <1>3 DEF StartProgram
  <1>4. CASE Load
    BY <1>4 DEF Load, LoadRemoteToken, LoadConsumedCommandIds
  <1>5. CASE Reachable
    <2>1. mem'.id # 0
      <3>1. mem' = [mem EXCEPT !.id = IF mem.id = 0 THEN crashes + 1 ELSE mem.id]
        BY <1>5 DEF Reachable
      <3>2. mem'.id = IF mem.id = 0 THEN crashes + 1 ELSE mem.id
        BY <3>1 DEF TypeInv, MemoryOK, Configs
      <3> QED  BY <3>2 DEF TypeInv, CountsOK
    <2> QED  BY <1>5, <2>1 DEF Reachable
  <1>6. CASE Unreachable \/ Poll  BY <1>6 DEF Unreachable, Poll
  <1>7. CASE SaveRemoteToken  BY <1>7 DEF SaveRemoteToken, Save
  <1>8. CASE Remember
    <2>1. mem'.id = mem.id  BY <1>8 DEF Remember, TypeInv, MemoryOK, Configs
    <2> QED  BY <1>8, <2>1 DEF Remember, RememberConsumedCommandId
  <1>9. CASE Setup \/ Settings \/ CancelSettings
    <2>1. mem'.id = mem.id
      BY <1>9, EditedTyped DEF Setup, Settings, CancelSettings, TypeInv
    <2> QED  BY <1>9, <2>1 DEF Setup, Settings, CancelSettings, Save
  <1>10. CASE Disable  BY <1>10 DEF Disable, Save
  <1>11. CASE EnterCode  BY <1>11 DEF EnterCode
  <1>12. CASE Registered
    <2>1. reply \in Replies  BY <1>12 DEF Registered, TypeInv, NetworkOK
    <2> QED  BY <1>12, <2>1, ReplyKinds DEF Registered
  <1>13. CASE FetchMergedConfig  BY <1>13 DEF FetchMergedConfig
  <1>14. CASE Fetched  BY <1>14 DEF Fetched, Save
  <1>15. CASE MergeConfig
    <2>1. mem'.id = mem.id  BY <1>15 DEF MergeConfig, TypeInv, MemoryOK, Configs
    <2> QED  BY <1>15, <2>1 DEF MergeConfig, Save
  <1>16. CASE AckAppliedRevision \/ Acked  BY <1>16 DEF AckAppliedRevision, Acked
  <1>17. CASE Timeout
    <2>1. pc \in {"register", "fetch", "ack"} /\ (wire.kind = "register" <=> pc = "register")
      BY <1>17, RequestKinds DEF Timeout, WireInv, TypeInv, NetworkOK
    <2> QED  BY <1>17, <2>1 DEF Timeout
  <1>18. CASE Crash  BY <1>18 DEF Crash
  <1>19. CASE SaveFails  BY <1>19 DEF SaveFails, TypeInv, FlowOK, Returns
  <1> QED
    BY <1>1, <1>2, <1>3, <1>4, <1>5, <1>6, <1>7, <1>8, <1>9, <1>10, <1>11, <1>12, <1>13,
      <1>14, <1>15, <1>16, <1>17, <1>18, <1>19 DEF Local, Call

(* The kiosk's steps keep the answer on the wire in line with the call it answers. *)
LEMMA WireStep == TypeInv /\ KnownInv /\ WireInv /\ (Local \/ Call) => WireInv'
  <1> SUFFICES ASSUME TypeInv, KnownInv, WireInv, Local \/ Call PROVE WireInv'  OBVIOUS
  <1> USE DEF WireInv, Going, HasConfig
  <1>0. wire # None => pc \in {"register", "fetch", "ack"}
    BY RequestKinds DEF TypeInv, NetworkOK
  <1>1. CASE Truncate \/ Write \/ SaveFails
    BY <1>0, <1>1 DEF Truncate, Write, SaveFails, TypeInv, FlowOK, Returns
  <1>2. CASE StartProgram \/ Load \/ Reachable \/ Unreachable \/ Poll \/ CancelSettings
    BY <1>0, <1>2 DEF StartProgram, Load, Reachable, Unreachable, Poll, CancelSettings
  <1>3. CASE SaveRemoteToken \/ Setup \/ Settings \/ Disable
    BY <1>0, <1>3 DEF SaveRemoteToken, Setup, Settings, Disable, Save
  <1>4. CASE Remember  BY <1>0, <1>4 DEF Remember
  <1>5. CASE EnterCode \/ FetchMergedConfig \/ AckAppliedRevision
    BY <1>5 DEF EnterCode, FetchMergedConfig, AckAppliedRevision
  <1>6. CASE Registered \/ Acked  BY <1>6 DEF Registered, Acked
  <1>7. CASE Fetched
    <2>1. doneFile \subseteq done  BY <1>7 DEF Fetched, KnownInv, Serving
    <2>2. reply \in Replies  BY <1>7 DEF Fetched, TypeInv, NetworkOK
    <2> QED  BY <1>7, <2>1, <2>2, ReplyKinds DEF Fetched, Save
  <1>8. CASE MergeConfig  BY <1>0, <1>8 DEF MergeConfig, Save
  <1>9. CASE Timeout \/ Crash  BY <1>9 DEF Timeout, Crash
  <1> QED
    BY <1>1, <1>2, <1>3, <1>4, <1>5, <1>6, <1>7, <1>8, <1>9 DEF Local, Call

(* The kiosk's steps keep the config being saved in line with the one in memory. *)
LEMMA SaveStep == TypeInv /\ WireInv /\ SaveInv /\ (Local \/ Call) => SaveInv'
  <1> SUFFICES ASSUME TypeInv, WireInv, SaveInv, Local \/ Call PROVE SaveInv'  OBVIOUS
  <1> USE DEF SaveInv
  <1>1. CASE Truncate  BY <1>1 DEF Truncate
  <1>2. CASE Write \/ SaveFails  BY <1>2 DEF Write, SaveFails, TypeInv, FlowOK, Returns
  <1>3. CASE \/ StartProgram \/ Load \/ Reachable \/ Unreachable \/ Poll \/ CancelSettings
             \/ Remember
    BY <1>3 DEF StartProgram, Load, Reachable, Unreachable, Poll, CancelSettings, Remember
  <1>4. CASE SaveRemoteToken \/ Setup \/ Settings \/ Disable
    BY <1>4 DEF SaveRemoteToken, Setup, Settings, Disable, Save
  <1>5. CASE \/ EnterCode \/ FetchMergedConfig \/ AckAppliedRevision \/ Registered \/ Acked
             \/ Timeout \/ Crash
    BY <1>5 DEF EnterCode, FetchMergedConfig, AckAppliedRevision, Registered, Acked, Timeout, Crash
  <1>6. CASE Fetched  BY <1>6 DEF Fetched, Save
  <1>7. CASE MergeConfig  BY <1>7 DEF MergeConfig, Save
  <1> QED  BY <1>1, <1>2, <1>3, <1>4, <1>5, <1>6, <1>7 DEF Local, Call

(* The kiosk's steps keep the applied password in memory and on its way to the disk. *)
LEMMA PasswordStep ==
  TypeInv /\ WireInv /\ SaveInv /\ PasswordInv /\ (Local \/ Call) => PasswordInv'
  <1> SUFFICES ASSUME TypeInv, WireInv, SaveInv, PasswordInv, Local \/ Call PROVE PasswordInv'
    OBVIOUS
  <1> USE DEF PasswordInv
  <1>1. CASE Truncate  BY <1>1 DEF Truncate
  <1>2. CASE Write
    <2>1. after = "remember" => saving.password = reply.command
      BY <1>2 DEF Write, SaveInv, TypeInv, MemoryOK, Configs
    <2>2. after # "remember" => saving = mem  BY <1>2 DEF Write, SaveInv
    <2> QED  BY <1>2, <2>1, <2>2 DEF Write, TypeInv, FlowOK, Returns
  <1>13. CASE SaveFails
    BY <1>13 DEF SaveFails, SaveInv, TypeInv, FlowOK, Returns
  <1>3. CASE StartProgram  BY <1>3 DEF StartProgram, LoadConfig
  <1>4. CASE Load \/ Unreachable \/ Poll  BY <1>4 DEF Load, Unreachable, Poll
  <1>5. CASE Reachable
    <2>1. mem'.password = mem.password  BY <1>5 DEF Reachable, TypeInv, MemoryOK, Configs
    <2> QED  BY <1>5, <2>1 DEF Reachable
  <1>6. CASE SaveRemoteToken \/ Setup \/ Settings
    BY <1>6 DEF SaveRemoteToken, Setup, Settings, Save
  <1>7. CASE CancelSettings  BY <1>7 DEF CancelSettings
  <1>8. CASE Disable
    <2>1. mem'.password = mem.password  BY <1>8 DEF Disable, TypeInv, MemoryOK, Configs
    <2> QED  BY <1>8, <2>1 DEF Disable, Save
  <1>9. CASE Remember
    <2>1. mem'.password = reply.command  BY <1>9 DEF Remember, TypeInv, MemoryOK, Configs
    <2> QED  BY <1>9, <2>1 DEF Remember
  <1>10. CASE \/ EnterCode \/ FetchMergedConfig \/ AckAppliedRevision \/ Registered \/ Acked
              \/ Timeout \/ Crash
    <2>1. wire # None => pc \in {"register", "fetch", "ack"}
      BY RequestKinds DEF WireInv, TypeInv, NetworkOK
    <2> QED
      BY <1>10, <2>1 DEF EnterCode, FetchMergedConfig, AckAppliedRevision, Registered, Acked,
        Timeout, Crash
  <1>11. CASE Fetched  BY <1>11 DEF Fetched, Save
  <1>12. CASE MergeConfig
    <2>1. mem'.password = mem.password  BY <1>12 DEF MergeConfig, TypeInv, MemoryOK, Configs
    <2> QED  BY <1>12, <2>1 DEF MergeConfig, Save
  <1> QED
    BY <1>1, <1>2, <1>3, <1>4, <1>5, <1>6, <1>7, <1>8, <1>9, <1>10, <1>11, <1>12,
      <1>13 DEF Local, Call

(* The kiosk's steps apply a command again only when a crash or a failed write took its
   id. *)
LEMMA ReplayStep == TypeInv /\ WireInv /\ ReplayInv /\ (Local \/ Call) => ReplayInv'
  <1> SUFFICES ASSUME TypeInv, WireInv, ReplayInv, Local \/ Call PROVE ReplayInv'  OBVIOUS
  <1> DEFINE lost == crashes + unlisted
             held(c) == IF c \in doneFile \/ (pc = "remember" /\ reply.command = c)
                        THEN 1 ELSE 0
  <1>0. /\ applied \in [Commands -> Nat] /\ crashes \in Nat /\ unlisted \in Nat /\ lost \in Nat
        /\ doneFile \subseteq Commands
    BY DEF TypeInv, PastOK, CountsOK, FilesOK
  <1>1. \A c \in Commands : applied[c] \in Nat /\ applied[c] <= lost + held(c)
    BY <1>0 DEF ReplayInv
  <1>2. ASSUME \A c \in Commands : applied'[c] <= lost' + held(c)'  PROVE ReplayInv'
    BY <1>2 DEF ReplayInv
  <1>3. CASE Write
    <2>1. UNCHANGED <<reply, doneFile, crashes, unlisted>> /\ pc = "write"  BY <1>3 DEF Write
    <2>2. CASE ByCommand
      <3>1. PICK k \in Commands \ doneFile : k = reply.command
        BY <1>3, <2>2 DEF Write, WireInv, Going
      <3>2. applied' = [applied EXCEPT ![k] = applied[k] + 1] /\ pc' = "remember"
        BY <1>3, <2>2, <3>1 DEF Write
      <3>3. applied'[k] = applied[k] + 1 /\ \A c \in Commands : c # k => applied'[c] = applied[c]
        BY <1>0, <3>1, <3>2, OneMore
      <3>4. held(k) = 0 /\ held(k)' = 1  BY <2>1, <3>1, <3>2
      <3>5. \A c \in Commands : c # k => held(c)' = held(c)  BY <2>1, <3>1, <3>2
      <3>6. lost' = lost  BY <2>1
      <3> HIDE DEF lost, held
      <3>7. \A c \in Commands : applied'[c] <= lost' + held(c)'
        <4> SUFFICES ASSUME NEW c \in Commands PROVE applied'[c] <= lost' + held(c)'
          OBVIOUS
        <4>1. applied[c] \in Nat /\ applied[c] <= lost + held(c)  BY <1>1
        <4>2. CASE c = k
          <5>1. applied[k] \in Nat /\ applied[k] <= lost  BY <1>0, <3>4, <4>1, <4>2
          <5>2. applied'[k] <= lost' + held(k)'  BY <1>0, <3>3, <3>4, <3>6, <5>1
          <5> QED  BY <4>2, <5>2
        <4>3. CASE c # k
          <5>1. applied'[c] = applied[c] /\ held(c)' = held(c)  BY <3>3, <3>5, <4>3
          <5> QED  BY <3>6, <4>1, <5>1
        <4> QED  BY <4>2, <4>3
      <3> QED  BY <1>2, <3>7
    <2>3. CASE ~ByCommand
      <3>1. applied' = applied /\ pc' # "remember"
        BY <1>3, <2>3 DEF Write
      <3>2. \A c \in Commands : held(c)' = held(c)  BY <2>1, <3>1
      <3>3. lost' = lost  BY <2>1
      <3> HIDE DEF lost, held
      <3> QED  BY <1>1, <1>2, <3>1, <3>2, <3>3
    <2> QED  BY <2>2, <2>3
  <1>4. CASE Remember
    <2>1. pc' = "merge" /\ UNCHANGED <<applied, crashes>> /\ pc = "remember"
      BY <1>4 DEF Remember
    <2>2. reply.command \in Commands \ doneFile  BY <2>1 DEF WireInv, Going
    <2>3. CASE doneFile' = doneFile \cup {reply.command} /\ unlisted' = unlisted
      <3>1. lost' = lost /\ \A c \in Commands : held(c)' = held(c)  BY <2>1, <2>3
      <3> HIDE DEF lost, held
      <3> QED  BY <1>1, <1>2, <2>1, <3>1
    <2>4. CASE doneFile' = doneFile /\ unlisted' = unlisted + 1
      <3>1. lost' = lost + 1  BY <1>0, <2>1, <2>4
      <3>2. \A c \in Commands : held(c) \in {0, 1} /\ held(c)' \in {0, 1}  OBVIOUS
      <3> HIDE DEF lost, held
      <3> QED  BY <1>0, <1>1, <1>2, <2>1, <3>1, <3>2
    <2> QED  BY <1>4, <2>3, <2>4 DEF Remember, RememberConsumedCommandId
  <1>5. CASE Crash
    <2>1. crashes' = crashes + 1 /\ UNCHANGED <<applied, doneFile, unlisted>>
      BY <1>5 DEF Crash
    <2>2. lost' = lost + 1  BY <1>0, <2>1
    <2>3. \A c \in Commands : held(c) \in {0, 1} /\ held(c)' \in {0, 1}  OBVIOUS
    <2> HIDE DEF lost, held
    <2> QED  BY <1>0, <1>1, <1>2, <2>1, <2>2, <2>3
  <1>6. CASE ~Write /\ ~Remember /\ ~Crash
    <2>1. UNCHANGED <<applied, crashes, doneFile, unlisted>> /\ pc # "remember"
          /\ pc' # "remember"
      BY <1>6, RequestKinds DEF Local, Call, Truncate, StartProgram, Load, Reachable, Unreachable,
        SaveRemoteToken, Poll, Setup, Settings, CancelSettings, Disable, SaveFails, EnterCode,
        Registered, FetchMergedConfig, Fetched, MergeConfig, AckAppliedRevision, Acked, Timeout,
        WireInv, TypeInv, NetworkOK, FlowOK, Returns, Save
    <2>2. lost' = lost /\ \A c \in Commands : held(c)' = held(c)  BY <2>1
    <2> HIDE DEF lost, held
    <2> QED  BY <1>1, <1>2, <2>1, <2>2
  <1> QED  BY <1>3, <1>4, <1>5, <1>6

(* The kiosk's steps acknowledge only what is saved. *)
LEMMA AckStep == TypeInv /\ WireInv /\ SaveInv /\ AckInv /\ (Local \/ Call) => AckInv'
  <1> SUFFICES ASSUME TypeInv, WireInv, SaveInv, AckInv, Local \/ Call PROVE AckInv'  OBVIOUS
  <1> USE DEF AckInv
  <1>0. wire # None => pc \in {"register", "fetch", "ack"}
    BY RequestKinds DEF WireInv, TypeInv, NetworkOK
  <1>1. CASE Truncate  BY <1>0, <1>1 DEF Truncate
  <1>2. CASE Write \/ SaveFails  BY <1>0, <1>2 DEF Write, SaveFails, SaveInv
  <1>3. CASE \/ StartProgram \/ Load \/ Reachable \/ Unreachable \/ Poll \/ CancelSettings
             \/ Remember
    BY <1>0, <1>3 DEF StartProgram, Load, Reachable, Unreachable, Poll, CancelSettings, Remember
  <1>4. CASE SaveRemoteToken \/ Setup \/ Settings \/ Disable
    BY <1>0, <1>4 DEF SaveRemoteToken, Setup, Settings, Disable, Save
  <1>5. CASE EnterCode \/ FetchMergedConfig
    BY <1>5 DEF EnterCode, FetchMergedConfig
  <1>6. CASE AckAppliedRevision
    <2>1. ~unsaved => disk = mem /\ mem # None
      BY <1>6, NoFileAssumption DEF AckAppliedRevision, TypeInv, MemoryOK
    <2> QED  BY <1>6, <2>1 DEF AckAppliedRevision
  <1>7. CASE Registered \/ Acked \/ Timeout \/ Crash
    BY <1>7 DEF Registered, Acked, Timeout, Crash
  <1>8. CASE Fetched  BY <1>8 DEF Fetched, Save
  <1>9. CASE MergeConfig  BY <1>0, <1>9 DEF MergeConfig, Save
  <1> QED  BY <1>1, <1>2, <1>3, <1>4, <1>5, <1>6, <1>7, <1>8, <1>9 DEF Local, Call

(* No command is applied less often than before. *)
LEMMA AppliedGrows ==
  ASSUME TypeInv, WireInv, Local
  PROVE  \A c \in Commands : applied[c] > 0 => applied'[c] > 0
  <1>0. applied \in [Commands -> Nat]  BY DEF TypeInv, PastOK
  <1>1. CASE Write /\ after = "remember"
    <2>1. reply.command \in Commands  BY <1>1 DEF Write, WireInv, Going
    <2>2. applied' = [applied EXCEPT ![reply.command] = applied[reply.command] + 1]
      BY <1>1 DEF Write
    <2>3. /\ applied'[reply.command] = applied[reply.command] + 1
          /\ \A c \in Commands : c # reply.command => applied'[c] = applied[c]
      BY <1>0, <2>1, <2>2, OneMore
    <2>4. applied[reply.command] \in Nat  BY <1>0, <2>1
    <2> QED  BY <2>3, <2>4
  <1>2. CASE ~(Write /\ after = "remember")
    <2>1. UNCHANGED applied
      BY <1>2 DEF Local, Truncate, Write, StartProgram, Load, Reachable, Unreachable,
        SaveRemoteToken, Poll, Remember, Setup, Settings, CancelSettings, Disable, SaveFails
    <2> QED  BY <2>1
  <1> QED  BY <1>1, <1>2

(* The kiosk reports a command only once it has applied it. *)
LEMMA ConsumedLocal == TypeInv /\ WireInv /\ ConsumedInv /\ Local => ConsumedInv'
  <1> SUFFICES ASSUME TypeInv, WireInv, ConsumedInv, Local PROVE ConsumedInv'  OBVIOUS
  <1>0. /\ applied \in [Commands -> Nat] /\ success \in Commands \cup {0}
        /\ UNCHANGED <<queue, wire, late, reply>>
    BY LocalKeeps DEF TypeInv, PastOK, MemoryOK
  <1>1. \A c \in Commands : applied[c] > 0 => applied'[c] > 0  BY AppliedGrows
  <1>2. \A c \in Commands : queue'[c] = "consumed" => applied'[c] > 0
    BY <1>0, <1>1 DEF ConsumedInv
  <1>3. \A request \in {wire', late'} \ {None} :
          request.kind = "ack" /\ request.command # 0 => applied'[request.command] > 0
    <2>1. {wire, late} \ {None} \subseteq Registers \cup Fetches \cup Acks
      BY DEF TypeInv, NetworkOK
    <2> QED  BY <1>0, <1>1, <2>1, RequestKinds DEF ConsumedInv
  <1>4. CASE Write
    <2>1. success' = success /\ (pc' = "remember" => after = "remember")
      BY <1>4 DEF Write
    <2>2. ASSUME after = "remember"  PROVE applied'[reply.command] > 0
      <3>1. reply.command \in Commands  BY <1>4, <2>2 DEF Write, WireInv, Going
      <3>2. applied' = [applied EXCEPT ![reply.command] = applied[reply.command] + 1]
        BY <1>4, <2>2 DEF Write
      <3>3. applied'[reply.command] = applied[reply.command] + 1  BY <1>0, <3>1, <3>2, OneMore
      <3>4. applied[reply.command] \in Nat  BY <1>0, <3>1
      <3> QED  BY <3>3, <3>4
    <2>3. success' # 0 => applied'[success'] > 0  BY <1>0, <1>1, <2>1 DEF ConsumedInv
    <2> QED  BY <1>0, <1>2, <1>3, <2>1, <2>2, <2>3 DEF ConsumedInv
  <1>5. CASE Remember
    <2>1. success' = reply.command /\ pc = "remember" /\ pc' = "merge" /\ UNCHANGED applied
      BY <1>5 DEF Remember
    <2>2. applied[reply.command] > 0  BY <2>1 DEF ConsumedInv
    <2> QED  BY <1>2, <1>3, <2>1, <2>2 DEF ConsumedInv
  <1>6. CASE ~Write /\ ~Remember
    <2>1. success' = success /\ pc' # "remember"
      BY <1>6 DEF Local, Truncate, StartProgram, Load, Reachable, Unreachable,
        SaveRemoteToken, Poll, Setup, Settings, CancelSettings, Disable, Save, SaveFails
    <2>2. success' # 0 => applied'[success'] > 0  BY <1>0, <1>1, <2>1 DEF ConsumedInv
    <2> QED  BY <1>2, <1>3, <2>1, <2>2 DEF ConsumedInv
  <1> QED  BY <1>4, <1>5, <1>6

(* An exchange carries the report and adds nothing to it. *)
LEMMA ConsumedCall == TypeInv /\ ConsumedInv /\ Call => ConsumedInv'
  <1> SUFFICES ASSUME TypeInv, ConsumedInv, Call PROVE ConsumedInv'  OBVIOUS
  <1>0. UNCHANGED <<queue, applied>>  BY CallKeeps
  <1>1. success' \in {success, 0} /\ pc' # "remember"
    BY DEF Call, EnterCode, Registered, FetchMergedConfig, Fetched, MergeConfig,
      AckAppliedRevision, Acked, Timeout, Crash, Save
  <1>2. late' \in {late, wire}
    BY DEF Call, EnterCode, Registered, FetchMergedConfig, Fetched, MergeConfig,
      AckAppliedRevision, Acked, Timeout, Crash
  <1>3. \/ wire' \in {None, wire}
        \/ wire'.kind # "ack"
        \/ wire'.command = success
    <2>1. CASE EnterCode \/ FetchMergedConfig
      <3>1. wire'.kind # "ack"  BY <2>1 DEF EnterCode, FetchMergedConfig
      <3> QED  BY <3>1
    <2>2. CASE AckAppliedRevision  BY <2>2 DEF AckAppliedRevision
    <2>3. CASE Registered \/ Fetched \/ MergeConfig \/ Acked \/ Timeout \/ Crash
      BY <2>3 DEF Registered, Fetched, MergeConfig, Acked, Timeout, Crash
    <2> QED  BY <2>1, <2>2, <2>3 DEF Call
  <1>4. \A request \in {wire', late'} \ {None} :
          request.kind = "ack" /\ request.command # 0 => applied[request.command] > 0
    BY <1>2, <1>3 DEF ConsumedInv
  <1> QED  BY <1>0, <1>1, <1>4 DEF ConsumedInv

(* The server marks consumed only what it was told of. *)
LEMMA ConsumedServer == TypeInv /\ WireInv /\ ConsumedInv /\ Server => ConsumedInv'
  <1> SUFFICES ASSUME TypeInv, WireInv, ConsumedInv, Server PROVE ConsumedInv'  OBVIOUS
  <1>0. UNCHANGED <<wire, pc, success, applied>>  BY ServerKeeps
  <1>1. late' \in {late, None}
    BY DEF Server, Serve, ServeLate, Publish, EnqueuePasswordUpdate, CommandExpires
  <1>2. pc = "remember" => reply' = reply
    <2>1. wire # None => pc # "remember"  BY RequestKinds DEF WireInv, TypeInv, NetworkOK
    <2> QED
      BY <2>1 DEF Server, Serve, ServeLate, Publish, EnqueuePasswordUpdate, CommandExpires
  <1>3. queue \in [Commands -> {"absent", "queued", "consumed", "expired"}]
    BY DEF TypeInv, ServerOK
  <1>4. ASSUME NEW request \in {wire, late} \ {None}, request.kind = "ack", AckConfig(request)
        PROVE  \A c \in Commands : queue'[c] = "consumed" => applied[c] > 0
    <2>1. request \in Acks  BY <1>4, RequestKinds DEF TypeInv, NetworkOK
    <2>2. CASE UNCHANGED queue  BY <2>2 DEF ConsumedInv
    <2>3. CASE request.command # 0 /\ queue' = [queue EXCEPT ![request.command] = "consumed"]
      <3>1. request.command \in Commands  BY <2>1, <2>3, RequestKinds
      <3>2. applied[request.command] > 0  BY <1>4, <2>3 DEF ConsumedInv
      <3> QED  BY <1>3, <2>3, <3>1, <3>2 DEF ConsumedInv
    <2> QED  BY <1>4, <2>2, <2>3 DEF AckConfig
  <1>5. \A c \in Commands : queue'[c] = "consumed" => applied[c] > 0
    <2>1. CASE UNCHANGED queue  BY <2>1 DEF ConsumedInv
    <2>2. CASE Serve
      <3>1. CASE wire.kind = "ack" /\ AckConfig(wire)  BY <1>4, <2>2, <3>1 DEF Serve
      <3>2. CASE UNCHANGED server \/ RegisterDevice(wire)  BY <2>1, <3>2 DEF RegisterDevice
      <3> QED  BY <2>2, <3>1, <3>2 DEF Serve
    <2>3. CASE ServeLate
      <3>1. CASE late.kind = "ack" /\ AckConfig(late)  BY <1>4, <2>3, <3>1 DEF ServeLate
      <3>2. CASE RegisterDevice(late)  BY <2>1, <3>2 DEF RegisterDevice
      <3> QED  BY <2>3, <3>1, <3>2 DEF ServeLate
    <2>4. CASE EnqueuePasswordUpdate \/ CommandExpires
      <3>1. PICK c \in Commands, new \in {"queued", "expired"} :
              queue' = [queue EXCEPT ![c] = new]
        BY <2>4 DEF EnqueuePasswordUpdate, CommandExpires, Active
      <3>2. \A b \in Commands : queue'[b] = "consumed" => queue[b] = "consumed"
        BY <1>3, <3>1
      <3> QED  BY <3>2 DEF ConsumedInv
    <2>5. CASE Publish  BY <2>1, <2>5 DEF Publish
    <2> QED  BY <2>2, <2>3, <2>4, <2>5 DEF Server
  <1> QED  BY <1>0, <1>1, <1>2, <1>5 DEF ConsumedInv

-----------------------------------------------------------------------------
(* The order of the commands.                                               *)

(* The next command is the first that has neither been consumed nor expired. *)
LEMMA FirstIsFirst ==
  ASSUME ServerOK, FirstCommand # 0
  PROVE  /\ FirstCommand \in Commands /\ queue[FirstCommand] = "queued"
         /\ \A b \in Commands : b < FirstCommand => queue[b] # "queued"
  <1>1. Active # {} /\ FirstCommand = Min(Active)  BY DEF FirstCommand
  <1>2. Active \subseteq Nat  BY DEF Active
  <1>3. \E m \in Active : \A k \in Active : m <= k  BY <1>1, <1>2, HasMinimum
  <1>4. Min(Active) \in Active /\ \A k \in Active : Min(Active) <= k  BY <1>3 DEF Min
  <1>6. FirstCommand \in Active /\ \A k \in Active : FirstCommand <= k  BY <1>1, <1>4
  <1>5. ASSUME NEW b \in Commands, b < FirstCommand  PROVE queue[b] # "queued"
    <2>1. b \in Int /\ FirstCommand \in Int  BY <1>2, <1>6
    <2>2. ~(FirstCommand <= b)  BY <1>5, <2>1
    <2>3. b \notin Active  BY <1>6, <2>2
    <2> QED  BY <2>3 DEF Active
  <1> QED  BY <1>5, <1>6 DEF Active

(* What the server can make of a command. *)
Moves(c) ==
    \/ queue'[c] = queue[c]
    \/ /\ queue[c] = "absent" /\ queue'[c] = "queued"
       /\ \A b \in Commands : b < c => queue[b] # "absent"
    \/ queue[c] = "queued" /\ queue'[c] = "expired"
    \/ queue'[c] = "consumed" /\ applied[c] > 0

(* An acknowledgement consumes a command that was applied. *)
LEMMA AckMoves ==
  ASSUME TypeInv, ConsumedInv, NEW request \in {wire, late} \ {None}, request.kind = "ack",
         AckConfig(request)
  PROVE  \A c \in Commands : Moves(c)
  <1>0. queue \in [Commands -> {"absent", "queued", "consumed", "expired"}]
    BY DEF TypeInv, ServerOK
  <1>1. CASE UNCHANGED queue  BY <1>1 DEF Moves
  <1>2. CASE request.command # 0 /\ queue' = [queue EXCEPT ![request.command] = "consumed"]
    <2>1. applied[request.command] > 0  BY <1>2 DEF ConsumedInv
    <2> QED  BY <1>0, <1>2, <2>1 DEF Moves
  <1> QED  BY <1>1, <1>2 DEF AckConfig

(* Every step of the server moves a command on, if at all. *)
LEMMA ServerMoves == TypeInv /\ ConsumedInv /\ Server => \A c \in Commands : Moves(c)
  <1> SUFFICES ASSUME TypeInv, ConsumedInv, Server PROVE \A c \in Commands : Moves(c)
    OBVIOUS
  <1>0. queue \in [Commands -> {"absent", "queued", "consumed", "expired"}]
    BY DEF TypeInv, ServerOK
  <1>1. CASE UNCHANGED queue  BY <1>1 DEF Moves
  <1>2. CASE Serve /\ wire.kind = "ack" /\ AckConfig(wire)  BY <1>2, AckMoves DEF Serve
  <1>3. CASE ServeLate /\ late.kind = "ack" /\ AckConfig(late)  BY <1>3, AckMoves DEF ServeLate
  <1>4. CASE EnqueuePasswordUpdate  BY <1>0, <1>4 DEF EnqueuePasswordUpdate, Moves
  <1>5. CASE CommandExpires
    <2>1. PICK x \in Active : queue' = [queue EXCEPT ![x] = "expired"]
      BY <1>5 DEF CommandExpires
    <2> QED  BY <1>0, <2>1 DEF Active, Moves
  <1> QED
    BY <1>1, <1>2, <1>3, <1>4, <1>5 DEF Server, Serve, ServeLate, RegisterDevice, Publish

(* The server keeps the order, and hands out the first command that is left. *)
LEMMA OrderServer == TypeInv /\ ConsumedInv /\ WireInv /\ OrderInv /\ Server => OrderInv'
  <1> SUFFICES ASSUME TypeInv, ConsumedInv, WireInv, OrderInv, Server PROVE OrderInv'  OBVIOUS
  <1>0. /\ applied' = applied /\ wire' = wire /\ applied \in [Commands -> Nat]
        /\ queue \in [Commands -> {"absent", "queued", "consumed", "expired"}] /\ ServerOK
        /\ queue' \in [Commands -> {"absent", "queued", "consumed", "expired"}]
    BY ServerKeeps, ServerTypes DEF TypeInv, PastOK, ServerOK
  <1>1. \A c \in Commands : Moves(c)  BY ServerMoves
  <1>2. \A c \in Commands : applied[c] > 0 => queue[c] # "absent"  BY DEF OrderInv, TurnOf
  <1>3. \A b, c \in Commands : b < c /\ queue'[c] # "absent" => queue'[b] # "absent"
    <2> SUFFICES ASSUME NEW b \in Commands, NEW c \in Commands, b < c, queue'[c] # "absent"
                 PROVE  queue'[b] # "absent"
      OBVIOUS
    <2>1. queue[b] # "absent"
      <3>1. queue[c] # "absent" => queue[b] # "absent"  BY DEF OrderInv
      <3> QED  BY <1>1, <1>2, <3>1 DEF Moves
    <2> QED  BY <1>1, <2>1 DEF Moves
  <1>4. ASSUME NEW c \in Commands, TurnOf(c)  PROVE TurnOf(c)'
    BY <1>1, <1>4 DEF TurnOf, Gone, Moves
  <1>5. \A c \in Commands : applied'[c] > 0 => TurnOf(c)'  BY <1>0, <1>4 DEF OrderInv
  <1>6. ASSUME reply' # None, reply'.kind = "config", reply'.command # 0
        PROVE  \E k \in Commands : /\ k = reply'.command /\ TurnOf(k)'
                                   /\ \A d \in Commands : k < d => applied[d] = 0
    <2>1. CASE reply' = reply
      <3>1. reply.command \in Commands
        BY <1>6, <2>1, ReplyKinds DEF TypeInv, NetworkOK
      <3>2. /\ TurnOf(reply.command)
            /\ \A d \in Commands : reply.command < d => applied[d] = 0
        BY <1>6, <2>1 DEF OrderInv, HasConfig
      <3> QED  BY <1>4, <2>1, <3>1, <3>2
    <2>2. CASE Serve /\ reply' = MergedReply(wire) /\ UNCHANGED server
      <3>1. reply'.command = FirstCommand
        BY <1>6, <2>2 DEF MergedReply
      <3>2. /\ FirstCommand \in Commands /\ queue[FirstCommand] = "queued"
            /\ \A b \in Commands : b < FirstCommand => queue[b] # "queued"
        BY <1>0, <1>6, <3>1, FirstIsFirst
      <3> HIDE DEF FirstCommand
      <3>3. TurnOf(FirstCommand)
        BY <1>0, <3>2 DEF OrderInv, TurnOf, Gone
      <3>4. \A d \in Commands : FirstCommand < d => applied[d] = 0
        <4> SUFFICES ASSUME NEW d \in Commands, FirstCommand < d PROVE applied[d] = 0
          OBVIOUS
        <4>1. ~TurnOf(d)  BY <3>2 DEF TurnOf, Gone
        <4>2. ~(applied[d] > 0) /\ applied[d] \in Nat  BY <1>0, <4>1 DEF OrderInv
        <4> QED  BY <4>2
      <3> QED  BY <1>4, <3>1, <3>2, <3>3, <3>4
    <2>3. reply' = reply \/ (Serve /\ reply' = MergedReply(wire) /\ UNCHANGED server)
          \/ reply'.kind # "config"
      <3>1. CASE Serve  BY <3>1 DEF Serve
      <3>2. CASE ~Serve
        BY <3>2 DEF Server, ServeLate, Publish, EnqueuePasswordUpdate, CommandExpires
      <3> QED  BY <3>1, <3>2
    <2> QED  BY <1>6, <2>1, <2>2, <2>3
  <1> QED  BY <1>0, <1>3, <1>5, <1>6 DEF OrderInv, TurnOf, Gone, HasConfig

(* The kiosk applies the command it was handed and no other. *)
LEMMA AppliesTheAnswer ==
  ASSUME TypeInv, WireInv, Local \/ Call
  PROVE  \/ applied' = applied
         \/ /\ reply # None /\ HasConfig /\ reply.command \in Commands /\ reply.command # 0
            /\ applied'[reply.command] > 0
            /\ \A c \in Commands : c # reply.command => applied'[c] = applied[c]
  <1>0. applied \in [Commands -> Nat]  BY DEF TypeInv, PastOK
  <1>1. CASE Write /\ ByCommand
    <2>1. reply # None /\ HasConfig /\ reply.command \in Commands
      BY <1>1 DEF Write, WireInv, Going
    <2>2. applied' = [applied EXCEPT ![reply.command] = applied[reply.command] + 1]
      BY <1>1 DEF Write
    <2>3. /\ applied'[reply.command] = applied[reply.command] + 1
          /\ \A c \in Commands : c # reply.command => applied'[c] = applied[c]
      BY <1>0, <2>1, <2>2, OneMore
    <2>4. applied[reply.command] \in Nat /\ reply.command # 0  BY <1>0, <2>1
    <2> QED  BY <2>1, <2>3, <2>4
  <1>2. CASE Call  BY <1>2, CallKeeps
  <1>3. CASE Local /\ ~(Write /\ ByCommand)
    BY <1>3 DEF Local, Truncate, Write, StartProgram, Load, Reachable, Unreachable,
      SaveRemoteToken, Poll, Remember, Setup, Settings, CancelSettings, Disable, SaveFails
  <1> QED  BY <1>1, <1>2, <1>3

(* The kiosk's steps leave the queue and the answer, or drop that. *)
LEMMA OrderKiosk == TypeInv /\ WireInv /\ OrderInv /\ (Local \/ Call) => OrderInv'
  <1> SUFFICES ASSUME TypeInv, WireInv, OrderInv, Local \/ Call PROVE OrderInv'  OBVIOUS
  <1>0. queue' = queue  BY LocalKeeps, CallKeeps
  <1>1. reply' \in {reply, None}
    <2>1. CASE Local  BY <2>1, LocalKeeps
    <2>2. CASE Call
      BY <2>2 DEF Call, EnterCode, Registered, FetchMergedConfig, Fetched, MergeConfig,
        AckAppliedRevision, Acked, Timeout, Crash
    <2> QED  BY <2>1, <2>2
  <1>2. \A c \in Commands : TurnOf(c)' <=> TurnOf(c)  BY <1>0 DEF TurnOf, Gone
  <1>3. reply # None /\ HasConfig => reply.command \in Commands \cup {0}
    BY ReplyKinds DEF HasConfig, TypeInv, NetworkOK
  <1>4. CASE applied' = applied
    BY <1>0, <1>1, <1>2, <1>3, <1>4 DEF OrderInv, HasConfig
  <1>5. CASE /\ reply # None /\ HasConfig /\ reply.command \in Commands /\ reply.command # 0
             /\ applied'[reply.command] > 0
             /\ \A c \in Commands : c # reply.command => applied'[c] = applied[c]
    <2>1. TurnOf(reply.command) /\ \A d \in Commands : reply.command < d => applied[d] = 0
      BY <1>5 DEF OrderInv
    <2>2. \A c \in Commands : applied'[c] > 0 => TurnOf(c)
      BY <1>5, <2>1 DEF OrderInv
    <2>3. \A d \in Commands : reply.command < d => applied'[d] = 0
      BY <1>5, <2>1
    <2> QED  BY <1>0, <1>1, <1>2, <1>5, <2>1, <2>2, <2>3 DEF OrderInv, HasConfig
  <1> QED  BY <1>4, <1>5, AppliesTheAnswer

-----------------------------------------------------------------------------
(* The inductive invariant and what follows from it.                        *)

(* The kiosk and the server before their first exchange. *)
LEMMA InitIInv == Init => IInv
  <1> SUFFICES ASSUME Init PROVE IInv  OBVIOUS
  <1> USE DEF Init
  <1>1. TypeInv
    <2>1. ServerOK
      <3> DEFINE R == 0 .. MaxRevision
      <3>1. 0 \in R /\ 1 \in R  OBVIOUS
      <3> HIDE DEF R
      <3>2. node \in [Scopes -> [revision : R, value : Values \cup {None}]]  BY <3>1
      <3> QED  BY <3>2 DEF ServerOK, R
    <2>2. NetworkOK /\ FilesOK /\ FlowOK /\ MemoryOK
      BY BlankTyped DEF NetworkOK, FilesOK, FlowOK, MemoryOK, PCs, Returns
    <2>3. CountsOK
      <3>1. \A n \in Nat : 0 \in 0 .. n  OBVIOUS
      <3>2. 0 \in 0 .. MaxFailures /\ 0 \in 0 .. MaxCrashes /\ 0 \in 0 .. MaxFaults /\ 0 \in 0 .. 0
        BY <3>1
      <3> QED  BY <3>2 DEF CountsOK
    <2>4. PastOK  BY DEF PastOK, Passwords
    <2> QED  BY <2>1, <2>2, <2>3, <2>4 DEF TypeInv
  <1>2. KnownInv /\ WireInv /\ SaveInv /\ PasswordInv
    BY DEF KnownInv, WireInv, SaveInv, PasswordInv, Serving, Going
  <1>3. ReplayInv /\ AckInv /\ ConsumedInv  BY DEF ReplayInv, AckInv, ConsumedInv
  <1>4. OrderInv  BY DEF OrderInv
  <1> QED  BY <1>1, <1>2, <1>3, <1>4 DEF IInv

(* Where nothing changes the invariant stays. *)
LEMMA UnchangedStep == IInv /\ UNCHANGED vars => IInv'
  <1> SUFFICES ASSUME IInv, UNCHANGED vars PROVE IInv'  OBVIOUS
  <1> USE DEF vars
  <1>1. TypeInv'  BY TypeStep DEF IInv
  <1>2. KnownInv' /\ WireInv' /\ SaveInv' /\ PasswordInv'
    BY DEF IInv, KnownInv, WireInv, SaveInv, PasswordInv, Serving, Going, HasConfig
  <1>3. ReplayInv' /\ AckInv' /\ ConsumedInv'  BY DEF IInv, ReplayInv, AckInv, ConsumedInv
  <1>4. OrderInv'  BY DEF IInv, OrderInv, TurnOf, Gone, HasConfig
  <1> QED  BY <1>1, <1>2, <1>3, <1>4 DEF IInv

(* Every step keeps the inductive invariant. *)
LEMMA IInvStep == IInv /\ [Next]_vars => IInv'
  <1> SUFFICES ASSUME IInv, [Next]_vars PROVE IInv'  OBVIOUS
  <1>1. TypeInv'  BY TypeStep DEF IInv
  <1>2. CASE Local \/ Call
    <2>1. KnownInv' /\ WireInv' /\ SaveInv' /\ PasswordInv' /\ ReplayInv' /\ AckInv'
      BY <1>2, KnownStep, WireStep, SaveStep, PasswordStep, ReplayStep, AckStep DEF IInv
    <2>2. ConsumedInv' /\ OrderInv'  BY <1>2, ConsumedLocal, ConsumedCall, OrderKiosk DEF IInv
    <2> QED  BY <1>1, <2>1, <2>2 DEF IInv
  <1>3. CASE Server  BY <1>1, <1>3, ServerStep, ConsumedServer, OrderServer DEF IInv
  <1>4. CASE UNCHANGED vars  BY <1>4, UnchangedStep
  <1> QED  BY <1>2, <1>3, <1>4, Steps

(* The inductive invariant holds of every instance. *)
THEOREM Invariance == Spec => []IInv
  BY InitIInv, IInvStep, PTL DEF Spec

(* A command is applied at most once more than the kiosk has crashed and lines of its
   file could not be written. *)
LEMMA Replays == IInv => \A c \in Commands : applied[c] \in 0 .. 1 + crashes + unlisted
  <1> SUFFICES ASSUME IInv, NEW c \in Commands PROVE applied[c] \in 0 .. 1 + crashes + unlisted
    OBVIOUS
  <1>1. applied[c] \in Nat /\ crashes \in Nat /\ unlisted \in Nat
    BY DEF IInv, TypeInv, PastOK, CountsOK
  <1>2. applied[c] <= crashes + unlisted
                        + IF c \in doneFile \/ (pc = "remember" /\ reply.command = c)
                          THEN 1 ELSE 0
    BY DEF IInv, ReplayInv
  <1> QED  BY <1>1, <1>2

(* The types of the kiosk's and the server's state, and how often a command can be
   applied at most. *)
THEOREM TypeCorrect == Spec => []TypeOK
  <1>1. IInv => TypeOK
    <2> SUFFICES ASSUME IInv PROVE TypeOK  OBVIOUS
    <2>1. applied \in [Commands -> 0 .. MaxCrashes + MaxFaults + 2]
      <3>1. /\ crashes \in 0 .. MaxCrashes /\ faults \in 0 .. MaxFaults /\ unlisted \in 0 .. faults
            /\ applied \in [Commands -> Nat]
        BY DEF IInv, TypeInv, CountsOK, PastOK
      <3>2. \A c \in Commands : applied[c] \in 0 .. MaxCrashes + MaxFaults + 2
        BY <3>1, Replays
      <3> QED  BY <3>1, <3>2
    <2> QED
      BY <2>1 DEF IInv, TypeInv, ServerOK, NetworkOK, FilesOK, FlowOK, MemoryOK, CountsOK, PastOK,
        PCs, Returns, TypeOK
  <1> QED  BY Invariance, <1>1, PTL

(* A command the server takes for consumed was written on the kiosk (App.php:195-203
   with main.cpp:625-639). *)
THEOREM OnlyAppliedIsConsumed == Spec => []ConsumedWasApplied
  <1>1. IInv => ConsumedWasApplied  BY DEF IInv, ConsumedInv, ConsumedWasApplied
  <1> QED  BY Invariance, <1>1, PTL

(* What is acknowledged as applied is on the disk, unless SaveConfig has just returned
   false (main.cpp:663-671). *)
THEOREM AcksAreDurable == Spec => []AckIsDurable
  <1>1. IInv => AckIsDurable  BY DEF IInv, AckInv, AckIsDurable
  <1> QED  BY Invariance, <1>1, PTL

(* The password on the disk is the one set last, unless the last save failed
   (main.cpp:628-632, 663). *)
THEOREM PasswordsAreKept == Spec => []PasswordIsKept
  <1>1. IInv => PasswordIsKept  BY DEF IInv, PasswordInv, PasswordIsKept
  <1> QED  BY Invariance, <1>1, PTL

(* Each crash, and each line of consumed_commands.dat that cannot be written, can make
   the kiosk apply a command once more, and nothing else can (main.cpp:613-615,
   688-696). *)
THEOREM ReplaysAreCrashes == Spec => []ReplayedOnlyAfterCrash
  <1>1. IInv => ReplayedOnlyAfterCrash
    <2> SUFFICES ASSUME IInv, NEW c \in Commands PROVE applied[c] <= 1 + crashes + unlisted
      BY DEF ReplayedOnlyAfterCrash
    <2>1. crashes \in Nat /\ unlisted \in Nat  BY DEF IInv, TypeInv, CountsOK
    <2> QED  BY <2>1, Replays
  <1> QED  BY Invariance, <1>1, PTL

(* No command is applied after one queued behind it (PasswordCommandService.php:16-54
   with main.cpp:613-639). *)
THEOREM OrderIsKept == Spec => AppliedInOrder
  <1> DEFINE Kept == \A older, newer \in Commands :
                       older < newer /\ applied[newer] > 0 => applied'[older] = applied[older]
  <1>1. ASSUME IInv, [Next]_vars  PROVE Kept
    <2>1. CASE Local \/ Call
      <3>1. CASE applied' = applied  BY <3>1
      <3>2. CASE /\ reply # None /\ HasConfig /\ reply.command \in Commands /\ reply.command # 0
                 /\ \A c \in Commands : c # reply.command => applied'[c] = applied[c]
        <4>1. \A d \in Commands : reply.command < d => applied[d] = 0
          BY <1>1, <3>2 DEF IInv, OrderInv
        <4> QED  BY <3>2, <4>1
      <3> QED  BY <1>1, <2>1, <3>1, <3>2, AppliesTheAnswer DEF IInv
    <2>2. CASE Server  BY <2>2, ServerKeeps
    <2>3. CASE UNCHANGED vars  BY <2>3 DEF vars
    <2> QED  BY <1>1, <2>1, <2>2, <2>3, Steps
  <1>2. IInv /\ [Next]_vars => [Kept]_vars  BY <1>1
  <1> QED  BY Invariance, <1>2, PTL DEF Spec, AppliedInOrder

-----------------------------------------------------------------------------
(* The delay of the next poll.                                              *)

(* The powers of two the delay is made of, and that they grow. *)
LEMMA Powers ==
  /\ \A k \in 0 .. 20 : 2 ^ k \in Nat
  /\ \A j, k \in 0 .. 20 : j <= k => 2 ^ j <= 2 ^ k
  <1> DEFINE p(k) == 2 ^ k
  <1>1. /\ p(0) = 1 /\ p(1) = 2 /\ p(2) = 4 /\ p(3) = 8 /\ p(4) = 16 /\ p(5) = 32 /\ p(6) = 64
        /\ p(7) = 128 /\ p(8) = 256 /\ p(9) = 512 /\ p(10) = 1024 /\ p(11) = 2048
        /\ p(12) = 4096 /\ p(13) = 8192 /\ p(14) = 16384 /\ p(15) = 32768 /\ p(16) = 65536
        /\ p(17) = 131072 /\ p(18) = 262144 /\ p(19) = 524288 /\ p(20) = 1048576
    OBVIOUS
  <1> HIDE DEF p
  <1>2. \A k \in 0 .. 20 : p(k) \in Nat  BY <1>1
  <1>3. \A j, k \in 0 .. 20 : j <= k => p(j) <= p(k)  BY <1>1, <1>2
  <1> QED  BY <1>2, <1>3 DEF p

(* Products of natural numbers, which the SMT solver does not see by itself. *)
LEMMA Times == \A a, x, y \in Nat : x <= y => a * x \in Nat /\ a * x <= a * y
  OBVIOUS

(* What PollDelay adds to the base after failures; it grows with them up to the cap. *)
Backoff(base, cap, count) == Min({base * 2 ^ Min({count, 20}), cap})

(* The exponential part of the poll delay grows with the failures and stays below
   its cap (main.cpp:549-576). *)
LEMMA BackoffGrows ==
  ASSUME NEW base \in Nat, NEW cap \in Nat
  PROVE  /\ \A count \in Nat : Backoff(base, cap, count) \in 0 .. cap
         /\ \A fewer, count \in Nat :
              fewer <= count => Backoff(base, cap, fewer) <= Backoff(base, cap, count)
  <1> DEFINE e(count) == Min({count, 20})
             t(count) == base * 2 ^ e(count)
  <1>1. \A count \in Nat : e(count) \in 0 .. 20
    <2>1. \A count \in Nat : e(count) = IF count <= 20 THEN count ELSE 20  BY MinOfTwo
    <2> QED  BY <2>1
  <1>2. \A fewer, count \in Nat : fewer <= count => e(fewer) <= e(count)
    <2>1. \A count \in Nat : e(count) = IF count <= 20 THEN count ELSE 20  BY MinOfTwo
    <2> HIDE DEF e
    <2> QED  BY <2>1
  <1> HIDE DEF e
  <1>3. \A count \in Nat : 2 ^ e(count) \in Nat  BY <1>1, Powers
  <1>4. \A fewer, count \in Nat : fewer <= count => 2 ^ e(fewer) <= 2 ^ e(count)
    BY <1>1, <1>2, Powers
  <1>5. \A count \in Nat : t(count) \in Nat  BY <1>3, Times
  <1>6. \A fewer, count \in Nat : fewer <= count => t(fewer) <= t(count)
    <2> SUFFICES ASSUME NEW fewer \in Nat, NEW count \in Nat, fewer <= count
                 PROVE  t(fewer) <= t(count)
      OBVIOUS
    <2> DEFINE x == 2 ^ e(fewer)
               y == 2 ^ e(count)
    <2>1. x \in Nat /\ y \in Nat /\ x <= y  BY <1>3, <1>4
    <2> HIDE DEF x, y
    <2>2. base * x <= base * y  BY <2>1, Times
    <2> QED  BY <2>2 DEF x, y
  <1>7. \A count : Backoff(base, cap, count) = Min({t(count), cap})  BY DEF Backoff, e
  <1> HIDE DEF t
  <1>8. \A count \in Nat :
          Backoff(base, cap, count) = IF t(count) <= cap THEN t(count) ELSE cap
    <2> SUFFICES ASSUME NEW count \in Nat
                 PROVE  Backoff(base, cap, count) = IF t(count) <= cap THEN t(count) ELSE cap
      OBVIOUS
    <2>1. Min({t(count), cap}) = IF t(count) <= cap THEN t(count) ELSE cap  BY <1>5, MinOfTwo
    <2> QED  BY <1>7, <2>1
  <1> QED  BY <1>5, <1>6, <1>8

(* The delay lies between the base with what is added at random and the cap, if that
   is more, and grows with the failures. *)
LEMMA DelayBounded ==
  ASSUME NEW base \in Nat, NEW random \in Nat, NEW cap \in Nat
  PROVE  /\ \A count \in Nat :
              /\ PollDelay(base, random, cap, count) >= base + random
              /\ PollDelay(base, random, cap, count) \in Nat
              /\ \/ PollDelay(base, random, cap, count) = base + random
                 \/ PollDelay(base, random, cap, count) <= cap
         /\ \A fewer, count \in Nat : fewer <= count =>
              PollDelay(base, random, cap, fewer) <= PollDelay(base, random, cap, count)
  <1> DEFINE b(count) == Backoff(base, cap, count)
             d(count) == PollDelay(base, random, cap, count)
  <1>1. /\ \A count \in Nat : b(count) \in 0 .. cap
        /\ \A fewer, count \in Nat : fewer <= count => b(fewer) <= b(count)
    BY BackoffGrows
  <1>2. \A count : d(count) = IF count > 0 THEN Max({base + random, b(count)}) ELSE base + random
    BY DEF PollDelay, Backoff
  <1> HIDE DEF b, d
  <1>3. \A count \in Nat : d(count) =
          IF count > 0 /\ base + random < b(count) THEN b(count) ELSE base + random
    <2> SUFFICES ASSUME NEW count \in Nat
                 PROVE  d(count) = IF count > 0 /\ base + random < b(count) THEN b(count)
                                   ELSE base + random
      OBVIOUS
    <2>1. Max({base + random, b(count)})
            = IF base + random >= b(count) THEN base + random ELSE b(count)
      BY <1>1, MaxOfTwo
    <2> QED  BY <1>1, <1>2, <2>1
  <1>4. \A count \in Nat : /\ d(count) >= base + random /\ d(count) \in Nat
                           /\ d(count) = base + random \/ d(count) <= cap
    BY <1>1, <1>3
  <1>5. \A fewer, count \in Nat : fewer <= count => d(fewer) <= d(count)
    BY <1>1, <1>3
  <1> QED  BY <1>4, <1>5 DEF d

(* Polls are not closer than the base nor further apart than the cap, or the base with
   its jitter, and a failure more never makes the next come earlier
   (main.cpp:555-572). *)
THEOREM PollsKeepTheirDistance == Spec => []PollDelayBounded
  <1>1. IInv => PollDelayBounded
    <2> SUFFICES ASSUME IInv, NEW random \in 0 .. PollJitter
                 PROVE  LET delay(count) == PollDelay(PollBase, random, PollCap, count)
                        IN  /\ delay(failures)
                                 \in PollBase .. Max({PollBase + PollJitter, PollCap})
                            /\ \A fewer \in 0 .. failures : delay(fewer) <= delay(failures)
      BY DEF PollDelayBounded
    <2> DEFINE delay(count) == PollDelay(PollBase, random, PollCap, count)
    <2>1. failures \in Nat /\ random \in Nat /\ PollBase \in Nat /\ PollCap \in Nat
      BY DEF IInv, TypeInv, CountsOK
    <2>2. /\ delay(failures) >= PollBase + random /\ delay(failures) \in Nat
          /\ delay(failures) = PollBase + random \/ delay(failures) <= PollCap
          /\ \A fewer, count \in Nat : fewer <= count => delay(fewer) <= delay(count)
      BY <2>1, DelayBounded
    <2>3. Max({PollBase + PollJitter, PollCap})
            = IF PollBase + PollJitter >= PollCap THEN PollBase + PollJitter ELSE PollCap
      BY MaxOfTwo
    <2> HIDE DEF delay
    <2>4. delay(failures) \in PollBase .. Max({PollBase + PollJitter, PollCap})
      BY <2>1, <2>2, <2>3
    <2>5. \A fewer \in 0 .. failures : delay(fewer) <= delay(failures)  BY <2>1, <2>2
    <2> QED  BY <2>4, <2>5 DEF delay
  <1> QED  BY Invariance, <1>1, PTL
=============================================================================
