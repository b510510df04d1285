-------------------------- MODULE PageMonitorProofs --------------------------
(***************************************************************************)
(* The safety of the page's monitor for any pages, any number of monitor    *)
(* threads and any length of the event queue: one thread probes, and main   *)
(* knows at rest what the monitor knows.                                    *)
(***************************************************************************)
EXTENDS PageMonitor, FiniteSetTheorems, TLAPS

USE NamesAssumption, BoundAssumption

Completions == [what : Targets, ok : BOOLEAN]

(* The three parts of the type invariant: the flags and the settings, WebView2,
   the threads. *)
FlagsOK ==
    /\ url \in Urls /\ monitored \in Urls /\ calm \in BOOLEAN
    /\ isUnreachable \in BOOLEAN /\ unreachable \in BOOLEAN
    /\ showingMessage \in BOOLEAN /\ messageVisible \in BOOLEAN
    /\ callback \in BOOLEAN /\ running \in BOOLEAN
    /\ up \in [Urls -> BOOLEAN]

BrowserOK ==
    /\ ready \in BOOLEAN
    /\ pendingNav \in Urls \cup {Nothing} /\ nav \in Targets
    /\ shown \in Completions /\ events \in Seq(Completions)

(* A callback of the UI thread returns to the message loop or, from the monitor's
   report, to g_navCallback; a worker's to its sleep. *)
ThreadsOK ==
    /\ current \in [Workers -> BOOLEAN]
    /\ pc \in [Actors -> UiPCs \cup WorkerPCs]
    /\ pc[UI] \in UiPCs /\ \A w \in Workers : pc[w] \in WorkerPCs
    /\ ret \in [Actors -> {"idle", "told", "wait"}]
    /\ ret[UI] \in {"idle", "told"} /\ \A w \in Workers : ret[w] = "wait"
    /\ pc[UI] = "report" => ret[UI] = "told"
    /\ ok \in [Actors -> BOOLEAN] /\ probed \in [Workers -> Urls \cup {Nothing}]
    /\ \A w \in Workers : pc[w] = "probe" => probed[w] \in Urls

TypeInv == FlagsOK /\ BrowserOK /\ ThreadsOK

(* Between Stop and the new thread no generation is current, then one is; the
   callback and g_running are missing only meanwhile. *)
Applying == pc[UI] \in {"ap_navigate", "ap_stop", "ap_callback", "ap_thread"}

GenerationInv ==
    /\ \A v, w \in Workers : current[v] /\ current[w] => v = w
    /\ Applying => \A w \in Workers : ~current[w]
    /\ callback \/ pc[UI] \in {"ap_navigate", "ap_stop", "ap_callback"}
    /\ running \/ Applying

(* The threads about to show the message, and the completions still to come:
   events, the navigation in flight, the first navigation, the message pages. *)
Asserting == {a \in Actors : pc[a] = "tostring"}

One(p) == IF p THEN 1 ELSE 0
Pages  == Len(events) + One(nav # Nothing) + One(~ready)
Coming == Pages + Cardinality(Asserting)

(* Before the controller is there, its first navigation waits and no message is
   on its way. *)
Storing == {a \in Actors : pc[a] \in {"visible", "showing", "tostring"}}
StartInv == ~ready => pendingNav # Nothing /\ nav = Nothing /\ ~showingMessage /\ Storing = {}

(* A message that is to take a completion has one coming. *)
MessageInv ==
    /\ IsFiniteSet(Asserting)
    /\ showingMessage => Coming >= 1

(* While the monitor holds the page unreachable and main does not, somebody is
   about to tell main, or a completion is coming that no message takes. *)
Telling == \E a \in Actors :
    \/ pc[a] = "navigate"
    \/ pc[a] \in {"report", "told"} /\ ~ok[a]

KnowInv ==
    unreachable /\ ~isUnreachable =>
        Applying \/ pc[UI] \in {"gone", "exchange"} \/ Telling \/ Coming > One(showingMessage)

IInv == TypeInv /\ GenerationInv /\ StartInv /\ MessageInv /\ KnowInv

(* The parts make the type invariant. *)
LEMMA Types == TypeInv => TypeOK
  BY DEF TypeInv, FlagsOK, BrowserOK, ThreadsOK, TypeOK, Completions

(* A completion's record and what its event brings. *)
LEMMA CompletionOf ==
    /\ \A t \in Targets, b \in BOOLEAN : [what |-> t, ok |-> b] \in Completions
    /\ \A c \in Completions : c.what \in Targets /\ c.ok \in BOOLEAN
  BY DEF Completions

-----------------------------------------------------------------------------
(* Types.                                                                   *)

(* Starting a navigation keeps the browser's types. *)
LEMMA BeginTypes ==
  ASSUME BrowserOK, NEW t \in Targets, Begin(t)
  PROVE  BrowserOK'
  <1>1. [what |-> nav, ok |-> FALSE] \in Completions  BY CompletionOf DEF BrowserOK
  <1>2. \A c \in Completions : Append(events, c) \in Seq(Completions)  BY DEF BrowserOK
  <1>3. events' \in Seq(Completions)  BY <1>1, <1>2 DEF Begin, BrowserOK
  <1> QED  BY <1>3 DEF Begin, BrowserOK

(* So do NavigateTo and Reload. *)
LEMMA NavigateTypes ==
  ASSUME BrowserOK, url \in Urls, NavigateTo \/ Reload
  PROVE  BrowserOK'
  <1>1. CASE NavigateTo
    <2>1. CASE ready  BY <1>1, <2>1, BeginTypes DEF NavigateTo, Targets
    <2>2. CASE ~ready  BY <1>1, <2>2 DEF NavigateTo, BrowserOK
    <2> QED  BY <2>1, <2>2
  <1>2. CASE Reload
    <2>1. shown.what \in Targets  BY CompletionOf DEF BrowserOK
    <2>2. CASE ready /\ shown.what # Nothing  BY <1>2, <2>1, <2>2, BeginTypes DEF Reload
    <2>3. CASE ~(ready /\ shown.what # Nothing)  BY <1>2, <2>3 DEF Reload, BrowserOK, browser
    <2> QED  BY <2>2, <2>3
  <1> QED  BY <1>1, <1>2

(* The part of the flags nobody touches in this step. *)
LEMMA FlagsSame ==
  ASSUME FlagsOK, UNCHANGED <<outside, url, monitor, flags>>
  PROVE  FlagsOK'
  BY DEF FlagsOK, outside, monitor, flags

(* The browser is typed as long as nothing of it changes. *)
LEMMA BrowserSame ==
  ASSUME BrowserOK, UNCHANGED browser
  PROVE  BrowserOK'
  BY DEF BrowserOK, browser

(* The monitors are typed as long as none of them moves. *)
LEMMA ThreadsSame ==
  ASSUME ThreadsOK, UNCHANGED <<current, threads>>
  PROVE  ThreadsOK'
  BY DEF ThreadsOK, threads

(* A thread that moves on within its own program, its callback unchanged. *)
LEMMA MoveTypes ==
  ASSUME ThreadsOK, NEW a \in Actors, NEW there,
         there \in (IF a = UI THEN UiPCs ELSE WorkerPCs), there \notin {"probe", "report"},
         Go(a, there), UNCHANGED <<current, ret, ok, probed>>
  PROVE  ThreadsOK'
  BY DEF ThreadsOK, Go, Actors

(* A callback returns to the place its thread called it from. *)
LEMMA ReturnTypes ==
  ASSUME ThreadsOK, NEW a \in Actors, Return(a), UNCHANGED <<current, probed>>
  PROVE  ThreadsOK'
  <1>1. /\ ret[a] \in (IF a = UI THEN UiPCs ELSE WorkerPCs)
        /\ ret[a] \notin {"probe", "report"}
    BY DEF ThreadsOK, Actors, UiPCs, WorkerPCs, Notifying
  <1>2. ok' \in [Actors -> BOOLEAN]  BY DEF Return, ThreadsOK
  <1>3. /\ ret' \in [Actors -> {"idle", "told", "wait"}]
        /\ ret'[UI] \in {"idle", "told"} /\ \A w \in Workers : ret'[w] = "wait"
    BY DEF Return, ThreadsOK, Actors
  <1>4. /\ pc' \in [Actors -> UiPCs \cup WorkerPCs]
        /\ pc'[UI] \in UiPCs /\ \A w \in Workers : pc'[w] \in WorkerPCs
        /\ \A w \in Workers : pc'[w] = "probe" => pc[w] = "probe"
    BY <1>1 DEF Return, Go, ThreadsOK, Actors
  <1>5. pc'[UI] = "report" => ret'[UI] = "told"
    BY <1>1 DEF Return, Go, ThreadsOK, Actors
  <1> QED  BY <1>2, <1>3, <1>4, <1>5 DEF ThreadsOK

(* A step of a callback. *)
LEMMA NotifyTypes ==
  ASSUME TypeInv, NEW a \in Actors, Notify(a)
  PROVE  TypeInv'
  <1> USE DEF TypeInv, UiPCs, WorkerPCs, Notifying
  <1>1. CASE Report(a)
    <2>1. FlagsOK' /\ BrowserOK'  BY <1>1, FlagsSame, BrowserSame DEF Report
    <2>2. ThreadsOK'
      <3>1. /\ UNCHANGED <<current, probed>>
            /\ \/ Return(a)
               \/ Go(a, "told") /\ UNCHANGED <<ret, ok>>
        BY <1>1 DEF Report, monitor
      <3> QED  BY <3>1, MoveTypes, ReturnTypes
    <2> QED  BY <2>1, <2>2
  <1>2. CASE Told(a)
    <2>1. FlagsOK'  BY <1>2 DEF Told, FlagsOK, ThreadsOK, outside, monitor
    <2>2. BrowserOK'  BY <1>2, BrowserSame DEF Told
    <2>3. UNCHANGED <<current, probed>>  BY <1>2 DEF Told, monitor
    <2>4. CASE ok[a] /\ ~isUnreachable
      BY <1>2, <2>1, <2>2, <2>3, <2>4, ReturnTypes DEF Told
    <2>5. CASE ~(ok[a] /\ ~isUnreachable)
      <3>1. (Go(a, "clear") \/ Go(a, "show")) /\ UNCHANGED <<ret, ok>>
        BY <1>2, <2>5 DEF Told
      <3> QED  BY <2>1, <2>2, <2>3, <3>1, MoveTypes
    <2> QED  BY <2>4, <2>5
  <1>3. CASE Show(a)
    <2>1. FlagsOK' /\ BrowserOK'  BY <1>3, FlagsSame, BrowserSame DEF Show
    <2>2. ThreadsOK'
      <3>1. /\ UNCHANGED <<current, probed>>
            /\ \/ Return(a)
               \/ Go(a, "visible") /\ UNCHANGED <<ret, ok>>
        BY <1>3 DEF Show, monitor
      <3> QED  BY <3>1, MoveTypes, ReturnTypes
    <2> QED  BY <2>1, <2>2
  <1>6. CASE Clear(a) \/ StoreVisible(a) \/ StoreShowing(a)
    <2>1. FlagsOK'
      BY <1>6 DEF Clear, StoreVisible, StoreShowing, FlagsOK, outside, monitor
    <2>2. BrowserOK'  BY <1>6, BrowserSame DEF Clear, StoreVisible, StoreShowing
    <2>3. /\ UNCHANGED <<current, ret, ok, probed>>
          /\ Go(a, "navigate") \/ Go(a, "showing") \/ Go(a, "tostring")
      BY <1>6 DEF Clear, StoreVisible, StoreShowing, monitor
    <2> QED  BY <2>1, <2>2, <2>3, MoveTypes
  <1>4. CASE NavigateToString(a)
    <2>1. FlagsOK'  BY <1>4, FlagsSame DEF NavigateToString
    <2>2. BrowserOK'  BY <1>4, BeginTypes DEF NavigateToString, Targets
    <2>3. ThreadsOK'  BY <1>4, ReturnTypes DEF NavigateToString, monitor
    <2> QED  BY <2>1, <2>2, <2>3
  <1>5. CASE Navigate(a)
    <2>1. FlagsOK'  BY <1>5, FlagsSame DEF Navigate
    <2>2. BrowserOK'  BY <1>5, NavigateTypes DEF Navigate, FlagsOK
    <2>3. ThreadsOK'  BY <1>5, ReturnTypes DEF Navigate, monitor
    <2> QED  BY <2>1, <2>2, <2>3
  <1> QED  BY <1>1, <1>2, <1>3, <1>4, <1>5, <1>6 DEF Notify

(* A step of a monitor thread. *)
LEMMA WorkerTypes ==
  ASSUME TypeInv, NEW w \in Workers, WorkerStep(w)
  PROVE  TypeInv'
  <1> USE DEF TypeInv, UiPCs, WorkerPCs, Notifying
  <1>0. w \in Actors /\ w # UI  BY DEF Actors
  <1>1. CASE Probe(w)
    <2>1. FlagsOK' /\ BrowserOK'  BY <1>1, FlagsSame, BrowserSame DEF Probe
    <2>2. probed' \in [Workers -> Urls \cup {Nothing}]
      BY <1>1 DEF Probe, FlagsOK, ThreadsOK
    <2>3. /\ pc' \in [Actors -> UiPCs \cup WorkerPCs]
          /\ pc'[UI] = pc[UI] /\ \A v \in Workers : pc'[v] \in WorkerPCs
      BY <1>0, <1>1 DEF Probe, Go, ThreadsOK, Actors
    <2>4. \A v \in Workers : pc'[v] = "probe" => probed'[v] \in Urls
      BY <1>0, <1>1 DEF Probe, Go, FlagsOK, ThreadsOK, Actors
    <2> QED  BY <1>1, <2>1, <2>2, <2>3, <2>4 DEF Probe, ThreadsOK, monitor
  <1>2. CASE CheckUrlReachable(w)
    <2>1. FlagsOK' /\ BrowserOK'  BY <1>2, FlagsSame, BrowserSame DEF CheckUrlReachable
    <2>2. probed' \in [Workers -> Urls \cup {Nothing}]
      BY <1>2 DEF CheckUrlReachable, ThreadsOK
    <2>3. up[probed[w]] \in BOOLEAN  BY <1>2 DEF CheckUrlReachable, FlagsOK, ThreadsOK
    <2>4. ok' \in [Actors -> BOOLEAN]  BY <1>2, <2>3 DEF CheckUrlReachable, ThreadsOK
    <2>5. /\ pc' \in [Actors -> UiPCs \cup WorkerPCs]
          /\ pc'[UI] = pc[UI] /\ \A v \in Workers : pc'[v] \in WorkerPCs
      BY <1>0, <1>2 DEF CheckUrlReachable, Go, ThreadsOK, Actors
    <2>6. \A v \in Workers : pc'[v] = "probe" => probed'[v] \in Urls
      BY <1>0, <1>2 DEF CheckUrlReachable, Go, ThreadsOK, Actors
    <2> QED  BY <1>2, <2>1, <2>2, <2>4, <2>5, <2>6 DEF CheckUrlReachable, ThreadsOK, monitor
  <1>3. CASE Exchange(w)
    <2>1. BrowserOK'  BY <1>3, BrowserSame DEF Exchange
    <2>2. FlagsOK'  BY <1>0, <1>3 DEF Exchange, FlagsOK, ThreadsOK, outside, monitor
    <2>3. /\ pc' \in [Actors -> UiPCs \cup WorkerPCs]
          /\ pc'[UI] = pc[UI] /\ \A v \in Workers : pc'[v] \in WorkerPCs
          /\ \A v \in Workers : pc'[v] = "probe" => pc[v] = "probe"
      BY <1>0, <1>3 DEF Exchange, Go, ThreadsOK, Actors
    <2> QED  BY <1>3, <2>1, <2>2, <2>3 DEF Exchange, ThreadsOK, monitor
  <1>4. CASE Wait(w)
    <2>1. FlagsOK' /\ BrowserOK'  BY <1>4, FlagsSame, BrowserSame DEF Wait
    <2>2. UNCHANGED <<current, ret, ok, probed>> /\ (Go(w, "loop") \/ Go(w, "off"))
      BY <1>4 DEF Wait, monitor
    <2> QED  BY <1>0, <2>1, <2>2, MoveTypes
  <1>5. CASE Notify(w)  BY <1>0, <1>5, NotifyTypes
  <1> QED  BY <1>1, <1>2, <1>3, <1>4, <1>5 DEF WorkerStep

(* A step of the UI thread's message loop, of ApplyConfigRuntime among others. *)
LEMMA UiTypes ==
  ASSUME TypeInv, UiStep \/ Refresh \/ AutoRefresh \/ ApplyConfig
  PROVE  TypeInv'
  <1> USE DEF TypeInv, UiPCs, WorkerPCs, Notifying
  <1>0. UI \in Actors  BY DEF Actors
  <1>1. CASE ControllerCreated
    <2>1. FlagsOK' /\ ThreadsOK'
      BY <1>1, FlagsSame, ThreadsSame DEF ControllerCreated, monitor
    <2>2. BrowserOK'  BY <1>1 DEF ControllerCreated, BrowserOK, Targets
    <2> QED  BY <2>1, <2>2
  <1>2. CASE NavigationCompleted
    <2>1. FlagsOK'  BY <1>2 DEF NavigationCompleted, FlagsOK, outside, monitor
    <2>2. Head(events) \in Completions /\ Tail(events) \in Seq(Completions)
      BY <1>2 DEF NavigationCompleted, BrowserOK
    <2>3. BrowserOK'  BY <1>2, <2>2 DEF NavigationCompleted, BrowserOK
    <2>4. UNCHANGED <<current, ret, probed>>  BY <1>2 DEF NavigationCompleted, monitor
    <2>5. CASE showingMessage
      BY <1>2, <2>1, <2>3, <2>4, <2>5, ThreadsSame DEF NavigationCompleted, threads
    <2>6. CASE ~showingMessage
      <3>1. Head(events).ok \in BOOLEAN  BY <2>2, CompletionOf
      <3>2. ok' \in [Actors -> BOOLEAN]
        BY <1>2, <2>6, <3>1 DEF NavigationCompleted, ThreadsOK
      <3>3. /\ pc' \in [Actors -> UiPCs \cup WorkerPCs] /\ pc'[UI] = "gone"
            /\ \A w \in Workers : pc'[w] = pc[w]
        BY <1>0, <1>2, <2>6 DEF NavigationCompleted, Go, ThreadsOK, Actors
      <3>4. ThreadsOK'  BY <2>4, <3>2, <3>3 DEF ThreadsOK
      <3> QED  BY <2>1, <2>3, <3>4
    <2> QED  BY <2>1, <2>3, <2>5, <2>6
  <1>3. CASE OnNavigationCompleted
    <2>1. FlagsOK'
      BY <1>0, <1>3 DEF OnNavigationCompleted, FlagsOK, ThreadsOK, outside, monitor
    <2>2. BrowserOK'  BY <1>3, BrowserSame DEF OnNavigationCompleted
    <2>3. UNCHANGED <<current, ok, probed>>  BY <1>3 DEF OnNavigationCompleted, monitor
    <2>4. CASE Go(UI, "told") /\ UNCHANGED ret  BY <1>0, <2>1, <2>2, <2>3, <2>4, MoveTypes
    <2>5. CASE Go(UI, "report") /\ ret' = [ret EXCEPT ![UI] = "told"]
      <3>1. /\ pc' \in [Actors -> UiPCs \cup WorkerPCs] /\ pc'[UI] = "report"
            /\ \A w \in Workers : pc'[w] = pc[w]
        BY <1>0, <2>5 DEF Go, ThreadsOK, Actors
      <3>2. /\ ret' \in [Actors -> {"idle", "told", "wait"}] /\ ret'[UI] = "told"
            /\ \A w \in Workers : ret'[w] = "wait"
        BY <1>0, <2>5 DEF ThreadsOK, Actors
      <3>3. ThreadsOK'  BY <2>3, <3>1, <3>2 DEF ThreadsOK
      <3> QED  BY <2>1, <2>2, <3>3
    <2> QED  BY <1>3, <2>4, <2>5 DEF OnNavigationCompleted
  <1>4. CASE Notify(UI)  BY <1>0, <1>4, NotifyTypes
  <1>5. CASE Refresh \/ AutoRefresh
    <2>1. FlagsOK' /\ BrowserOK'  BY <1>5, FlagsSame, BrowserSame DEF Refresh, AutoRefresh
    <2>2. /\ UNCHANGED <<current, ret, ok, probed>>
          /\ Go(UI, "navigate") \/ Go(UI, "reload")
      BY <1>5 DEF Refresh, AutoRefresh, monitor
    <2> QED  BY <1>0, <2>1, <2>2, MoveTypes
  <1>11. CASE DoReload
    <2>1. FlagsOK'  BY <1>11, FlagsSame DEF DoReload
    <2>2. BrowserOK'  BY <1>11, NavigateTypes DEF DoReload, FlagsOK
    <2>3. ThreadsOK'  BY <1>0, <1>11, MoveTypes DEF DoReload, monitor
    <2> QED  BY <2>1, <2>2, <2>3
  <1>12. CASE MessageGone
    <2>1. FlagsOK'  BY <1>12 DEF MessageGone, FlagsOK, outside, monitor
    <2>2. BrowserOK'  BY <1>12, BrowserSame DEF MessageGone
    <2>3. ThreadsOK'  BY <1>0, <1>12, MoveTypes DEF MessageGone, monitor
    <2> QED  BY <2>1, <2>2, <2>3
  <1>6. CASE ApplyConfig
    <2>1. FlagsOK'  BY <1>6 DEF ApplyConfig, Stop, FlagsOK, outside, flags
    <2>2. BrowserOK'  BY <1>6, BrowserSame DEF ApplyConfig
    <2>3. ThreadsOK'
      <3>1. current' \in [Workers -> BOOLEAN]  BY <1>6 DEF ApplyConfig, Stop
      <3>2. /\ pc' \in [Actors -> UiPCs \cup WorkerPCs] /\ pc'[UI] = "ap_navigate"
            /\ \A w \in Workers : pc'[w] = pc[w]
        BY <1>0, <1>6 DEF ApplyConfig, Go, ThreadsOK, Actors
      <3> QED  BY <1>6, <3>1, <3>2 DEF ApplyConfig, ThreadsOK
    <2> QED  BY <2>1, <2>2, <2>3
  <1>7. CASE ApplyNavigate
    <2>1. FlagsOK'  BY <1>7, FlagsSame DEF ApplyNavigate
    <2>2. BrowserOK'  BY <1>7, NavigateTypes DEF ApplyNavigate, FlagsOK
    <2>3. ThreadsOK'  BY <1>0, <1>7, MoveTypes DEF ApplyNavigate, monitor
    <2> QED  BY <2>1, <2>2, <2>3
  <1>8. CASE ApplyStop
    <2>1. FlagsOK'  BY <1>8 DEF ApplyStop, Stop, FlagsOK, outside, flags
    <2>2. BrowserOK'  BY <1>8, BrowserSame DEF ApplyStop
    <2>3. ThreadsOK'
      <3>1. current' \in [Workers -> BOOLEAN]  BY <1>8 DEF ApplyStop, Stop
      <3>2. /\ pc' \in [Actors -> UiPCs \cup WorkerPCs] /\ pc'[UI] = "ap_callback"
            /\ \A w \in Workers : pc'[w] = pc[w]
        BY <1>0, <1>8 DEF ApplyStop, Go, ThreadsOK, Actors
      <3> QED  BY <1>8, <3>1, <3>2 DEF ApplyStop, ThreadsOK
    <2> QED  BY <2>1, <2>2, <2>3
  <1>9. CASE ApplyCallback
    <2>1. FlagsOK'  BY <1>9 DEF ApplyCallback, FlagsOK, outside, flags
    <2>2. BrowserOK'  BY <1>9, BrowserSame DEF ApplyCallback
    <2>3. ThreadsOK'  BY <1>0, <1>9, MoveTypes DEF ApplyCallback
    <2> QED  BY <2>1, <2>2, <2>3
  <1>10. CASE ApplyThread
    <2>1. FlagsOK'  BY <1>10 DEF ApplyThread, FlagsOK, outside
    <2>2. BrowserOK'  BY <1>10, BrowserSame DEF ApplyThread
    <2>3. PICK w \in Workers :
            /\ pc[w] = "off"
            /\ current' = [current EXCEPT ![w] = TRUE]
            /\ pc' = [pc EXCEPT ![UI] = "idle", ![w] = "loop"]
      BY <1>10 DEF ApplyThread
    <2>4. current' \in [Workers -> BOOLEAN]  BY <2>3 DEF ThreadsOK
    <2>5. /\ pc' \in [Actors -> UiPCs \cup WorkerPCs] /\ pc'[UI] = "idle"
          /\ \A v \in Workers : pc'[v] = pc[v] \/ pc'[v] = "loop"
      BY <1>0, <2>3 DEF ThreadsOK, Actors
    <2>6. ThreadsOK'  BY <1>10, <2>4, <2>5 DEF ApplyThread, ThreadsOK
    <2> QED  BY <2>1, <2>2, <2>6
  <1> QED
    BY <1>1, <1>2, <1>3, <1>4, <1>5, <1>6, <1>7, <1>8, <1>9, <1>10, <1>11,
      <1>12 DEF UiStep

(* A navigation that ends, the network and its rest. *)
LEMMA OutsideTypes ==
  ASSUME TypeInv, NavigationEnds \/ ServerTurns \/ ComeToRest
  PROVE  TypeInv'
  <1> USE DEF TypeInv
  <1>1. CASE NavigationEnds
    <2>1. FlagsOK' /\ ThreadsOK'  BY <1>1, FlagsSame, ThreadsSame DEF NavigationEnds, monitor
    <2> DEFINE success == nav = Message \/ up[nav]
    <2>2. success \in BOOLEAN  BY <1>1 DEF NavigationEnds, FlagsOK, BrowserOK, Targets
    <2>3. /\ shown' = [what |-> nav, ok |-> success]
          /\ events' = Append(events, [what |-> nav, ok |-> success])
          /\ nav' = Nothing /\ UNCHANGED <<ready, pendingNav>>
      BY <1>1 DEF NavigationEnds
    <2> HIDE DEF success
    <2>4. [what |-> nav, ok |-> success] \in Completions  BY <2>2, CompletionOf DEF BrowserOK
    <2>5. shown' \in Completions /\ events' \in Seq(Completions)  BY <2>3, <2>4 DEF BrowserOK
    <2>6. BrowserOK'  BY <2>3, <2>5 DEF BrowserOK, Targets
    <2> QED  BY <2>1, <2>6
  <1>2. CASE ServerTurns
    <2>1. FlagsOK'  BY <1>2 DEF ServerTurns, FlagsOK, monitor, flags
    <2> QED  BY <1>2, <2>1, BrowserSame, ThreadsSame DEF ServerTurns, monitor
  <1>3. CASE ComeToRest
    <2>1. FlagsOK'  BY <1>3 DEF ComeToRest, FlagsOK, monitor, flags
    <2> QED  BY <1>3, <2>1, BrowserSame, ThreadsSame DEF ComeToRest, monitor
  <1> QED  BY <1>1, <1>2, <1>3

(* The start: the monitor has one thread, the controller is being created. *)
LEMMA InitTypes == Init => TypeInv
  <1> SUFFICES ASSUME Init PROVE TypeInv  OBVIOUS
  <1>1. FlagsOK  BY DEF Init, FlagsOK
  <1>2. BrowserOK
    <2>1. shown \in Completions  BY CompletionOf DEF Init, Targets
    <2>2. events \in Seq(Completions)  BY DEF Init
    <2> QED  BY <2>1, <2>2 DEF Init, BrowserOK, Targets
  <1>3. ThreadsOK
    <2>1. PICK w \in Workers :
            /\ current = [v \in Workers |-> v = w]
            /\ pc = [a \in Actors |-> IF a = w THEN "loop" ELSE IF a = UI THEN "idle" ELSE "off"]
      BY DEF Init
    <2>2. current \in [Workers -> BOOLEAN]  BY <2>1
    <2>3. /\ pc \in [Actors -> UiPCs \cup WorkerPCs]
          /\ pc[UI] = "idle" /\ \A v \in Workers : pc[v] \in {"loop", "off"}
      BY <2>1 DEF Actors, UiPCs, WorkerPCs, Notifying
    <2>4. /\ ret \in [Actors -> {"idle", "told", "wait"}]
          /\ ret[UI] = "idle" /\ \A v \in Workers : ret[v] = "wait"
      BY DEF Init, Actors
    <2> QED  BY <2>2, <2>3, <2>4 DEF Init, ThreadsOK, UiPCs, WorkerPCs, Notifying
  <1> QED  BY <1>1, <1>2, <1>3 DEF TypeInv

-----------------------------------------------------------------------------
(* One generation.                                                          *)

(* A callback takes its thread neither into nor out of ApplyConfigRuntime. *)
LEMMA NotifyKeeps ==
  ASSUME TypeInv, NEW a \in Actors, Notify(a)
  PROVE  /\ UNCHANGED <<outside, url, monitor, ready>>
         /\ \A b \in Actors : b # a => pc'[b] = pc[b]
         /\ pc'[a] \in Notifying \cup {"idle", "wait"}
         /\ pc[a] \in Notifying
  <1> USE DEF Notifying
  <1>1. UNCHANGED <<outside, url, monitor, ready>> /\ pc[a] \in Notifying
    BY DEF Notify, Report, Told, Clear, Show, StoreVisible, StoreShowing, NavigateToString,
      Navigate, NavigateTo, Begin, browser
  <1>2. \E there \in Notifying \cup {ret[a]} : Go(a, there)
    BY DEF Notify, Report, Told, Clear, Show, StoreVisible, StoreShowing, NavigateToString,
      Navigate, Return
  <1>3. ret[a] \in {"idle", "told", "wait"} /\ pc \in [Actors -> UiPCs \cup WorkerPCs]
    BY DEF TypeInv, ThreadsOK
  <1> QED  BY <1>1, <1>2, <1>3 DEF Go

(* A worker's step changes no generation, and nothing of the UI thread. *)
LEMMA WorkerKeeps ==
  ASSUME TypeInv, NEW w \in Workers, WorkerStep(w)
  PROVE  /\ UNCHANGED <<outside, url, monitor, ready>>
         /\ \A b \in Actors : b # w => pc'[b] = pc[b]
  <1>0. w \in Actors  BY DEF Actors
  <1>1. CASE Notify(w)  BY <1>0, <1>1, NotifyKeeps
  <1>2. CASE ~Notify(w)
    <2>1. UNCHANGED <<outside, url, monitor, ready>>
      BY <1>2 DEF WorkerStep, Probe, CheckUrlReachable, Exchange, Wait, browser
    <2>2. \E there : Go(w, there)
      BY <1>2 DEF WorkerStep, Probe, CheckUrlReachable, Exchange, Wait
    <2> QED  BY <2>1, <2>2 DEF Go, TypeInv, ThreadsOK
  <1> QED  BY <1>1, <1>2

(* Every step keeps one generation at most. *)
LEMMA GenerationStep ==
  ASSUME TypeInv, GenerationInv, Next
  PROVE  GenerationInv'
  <1>0. UI \in Actors /\ \A w \in Workers : w \in Actors /\ w # UI  BY DEF Actors
  <1> DEFINE Inside == {"ap_navigate", "ap_stop", "ap_callback", "ap_thread"}
  <1> USE DEF GenerationInv, Applying
  <1>a. ASSUME UNCHANGED <<callback, running, current>>, pc[UI] \notin Inside, pc'[UI] \notin Inside
        PROVE  GenerationInv'
    BY <1>a
  <1>b. ASSUME UNCHANGED <<callback, running, current>>, pc'[UI] = pc[UI]
        PROVE  GenerationInv'
    BY <1>b
  <1>1. CASE ControllerCreated \/ NavigationEnds \/ ServerTurns \/ ComeToRest
    BY <1>1, <1>b DEF ControllerCreated, NavigationEnds, ServerTurns, ComeToRest, monitor,
                      threads
  <1>11. CASE Refresh \/ AutoRefresh \/ DoReload \/ MessageGone
    <2>1. /\ UNCHANGED <<callback, running, current>> /\ pc[UI] \in {"idle", "reload", "gone"}
          /\ \E there \in {"navigate", "reload", "idle", "exchange"} : Go(UI, there)
      BY <1>11 DEF Refresh, AutoRefresh, DoReload, MessageGone, monitor
    <2>2. pc'[UI] \in {"navigate", "reload", "idle", "exchange"}
      BY <1>0, <2>1 DEF Go, TypeInv, ThreadsOK
    <2> QED  BY <2>1, <2>2, <1>a
  <1>2. CASE NavigationCompleted
    <2>1. UNCHANGED <<callback, running, current>> /\ pc[UI] = "idle"
      BY <1>2 DEF NavigationCompleted, monitor
    <2>2. pc'[UI] \in {"idle", "gone"}
      BY <1>0, <1>2, <2>1 DEF NavigationCompleted, Go, TypeInv, ThreadsOK
    <2> QED  BY <2>1, <2>2, <1>a
  <1>3. CASE OnNavigationCompleted
    <2>1. UNCHANGED <<callback, running, current>> /\ pc[UI] = "exchange"
      BY <1>3 DEF OnNavigationCompleted, monitor
    <2>2. pc'[UI] \in {"report", "told"}
      BY <1>0, <1>3 DEF OnNavigationCompleted, Go, TypeInv, ThreadsOK
    <2> QED  BY <2>1, <2>2, <1>a
  <1>4. CASE Notify(UI)
    <2>1. UNCHANGED <<callback, running, current>> /\ pc[UI] \notin Inside /\ pc'[UI] \notin Inside
      BY <1>0, <1>4, NotifyKeeps DEF monitor, Notifying
    <2> QED  BY <2>1, <1>a
  <1>5. ASSUME NEW w \in Workers, WorkerStep(w) PROVE GenerationInv'
    <2>1. UNCHANGED <<callback, running, current>> /\ pc'[UI] = pc[UI]
      BY <1>0, <1>5, WorkerKeeps DEF monitor
    <2> QED  BY <2>1, <1>b
  <1>6. CASE ApplyConfig
    <2>1. pc'[UI] = "ap_navigate"  BY <1>0, <1>6 DEF ApplyConfig, Go, TypeInv, ThreadsOK
    <2> QED  BY <1>6, <2>1 DEF ApplyConfig, Stop
  <1>7. CASE ApplyNavigate
    <2>1. pc'[UI] = "ap_stop"  BY <1>0, <1>7 DEF ApplyNavigate, Go, TypeInv, ThreadsOK
    <2> QED  BY <1>7, <2>1 DEF ApplyNavigate, monitor
  <1>8. CASE ApplyStop
    <2>1. pc'[UI] = "ap_callback"  BY <1>0, <1>8 DEF ApplyStop, Go, TypeInv, ThreadsOK
    <2> QED  BY <1>8, <2>1 DEF ApplyStop, Stop
  <1>9. CASE ApplyCallback
    <2>1. pc'[UI] = "ap_thread"  BY <1>0, <1>9 DEF ApplyCallback, Go, TypeInv, ThreadsOK
    <2> QED  BY <1>9, <2>1 DEF ApplyCallback
  <1>10. CASE ApplyThread
    <2>1. PICK w \in Workers :
            /\ current' = [current EXCEPT ![w] = TRUE]
            /\ pc' = [pc EXCEPT ![UI] = "idle", ![w] = "loop"]
      BY <1>10 DEF ApplyThread
    <2>2. pc[UI] = "ap_thread" /\ pc'[UI] = "idle" /\ running' = TRUE /\ callback' = callback
      BY <1>0, <1>10, <2>1 DEF ApplyThread, TypeInv, ThreadsOK
    <2>3. \A v \in Workers : current'[v] => v = w
      BY <2>1, <2>2 DEF TypeInv, ThreadsOK
    <2> QED  BY <2>2, <2>3
  <1> QED
    BY <1>1, <1>2, <1>3, <1>4, <1>5, <1>6, <1>7, <1>8, <1>9, <1>10,
      <1>11 DEF Next, UiStep

-----------------------------------------------------------------------------
(* The completions still to come.                                           *)

(* What is counted are numbers. *)
LEMMA PagesType ==
  ASSUME BrowserOK
  PROVE  Len(events) \in Nat /\ Pages \in Nat
  <1>1. Len(events) \in Nat  BY DEF BrowserOK
  <1>2. One(nav # Nothing) \in Nat /\ One(~ready) \in Nat  BY DEF One
  <1> QED  BY <1>1, <1>2 DEF Pages

(* What is still to come from the browser can be counted. *)
LEMMA ComingType ==
  ASSUME BrowserOK, IsFiniteSet(Asserting)
  PROVE  Pages \in Nat /\ Cardinality(Asserting) \in Nat /\ Coming \in Nat
  <1>1. Pages \in Nat /\ Cardinality(Asserting) \in Nat  BY PagesType, FS_CardinalityType
  <1> QED  BY <1>1 DEF Coming

(* A navigation begun brings one completion more: its own, or the failure of the
   one it cancels. *)
LEMMA BeginCounts ==
  ASSUME BrowserOK, NEW t \in Targets \ {Nothing}, Begin(t)
  PROVE  Pages' = Pages + 1
  <1>1. Len(events) \in Nat  BY PagesType
  <1>2. \A c \in Completions : Len(Append(events, c)) = Len(events) + 1  BY DEF BrowserOK
  <1>3. [what |-> nav, ok |-> FALSE] \in Completions  BY CompletionOf DEF BrowserOK
  <1>4. /\ nav' # Nothing /\ ready' = ready
        /\ Len(events') = (IF nav = Nothing THEN Len(events) ELSE Len(events) + 1)
    BY <1>2, <1>3 DEF Begin
  <1>5. One(nav' # Nothing) = 1 /\ One(nav # Nothing) = (IF nav = Nothing THEN 0 ELSE 1)
    BY <1>4 DEF One
  <1>6. One(~ready') = One(~ready) /\ One(~ready) \in Nat  BY <1>4 DEF One
  <1> QED  BY <1>1, <1>4, <1>5, <1>6 DEF Pages

(* NavigateTo and Reload lose no completion, and NavigateTo brings one as soon as
   the controller is there. *)
LEMMA NavigateCounts ==
  ASSUME BrowserOK, url \in Urls, NavigateTo \/ Reload
  PROVE  /\ Pages' \in Nat /\ Pages' >= Pages
         /\ NavigateTo /\ ready => Pages' = Pages + 1
         /\ ready' = ready
  <1>0. Pages \in Nat  BY PagesType
  <1>1. CASE NavigateTo
    <2>1. CASE ready
      <3>1. Begin(url) /\ url \in Targets \ {Nothing}  BY <1>1, <2>1 DEF NavigateTo, Targets
      <3>2. Pages' = Pages + 1  BY <3>1, BeginCounts
      <3> QED  BY <1>0, <3>1, <3>2 DEF Begin
    <2>2. CASE ~ready  BY <1>0, <1>1, <2>2 DEF NavigateTo, Pages
    <2> QED  BY <2>1, <2>2
  <1>2. CASE Reload /\ ~NavigateTo
    <2>1. CASE ready /\ shown.what # Nothing
      <3>1. Begin(shown.what) /\ shown.what \in Targets \ {Nothing}
        BY <1>2, <2>1, CompletionOf DEF Reload, BrowserOK
      <3>2. Pages' = Pages + 1  BY <3>1, BeginCounts
      <3> QED  BY <1>0, <1>2, <3>1, <3>2 DEF Begin
    <2>2. CASE ~(ready /\ shown.what # Nothing)
      BY <1>0, <1>2, <2>2 DEF Reload, Pages, browser
    <2> QED  BY <2>1, <2>2
  <1> QED  BY <1>1, <1>2

(* When one thread moves, the threads about to show the message are one more, one
   fewer or as many. *)
LEMMA AssertingMoves ==
  ASSUME IsFiniteSet(Asserting), NEW a \in Actors,
         \A b \in Actors : b # a => pc'[b] = pc[b]
  PROVE  /\ IsFiniteSet(Asserting')
         /\ Cardinality(Asserting') =
              Cardinality(Asserting) + One(pc'[a] = "tostring") - One(pc[a] = "tostring")
  <1>0. Cardinality(Asserting) \in Nat  BY FS_CardinalityType
  <1>1. CASE pc'[a] = "tostring"
    <2>1. Asserting' = Asserting \cup {a}  BY <1>1 DEF Asserting
    <2>2. a \in Asserting <=> pc[a] = "tostring"  BY DEF Asserting
    <2> QED  BY <1>0, <1>1, <2>1, <2>2, FS_AddElement DEF One
  <1>2. CASE pc'[a] # "tostring"
    <2>1. Asserting' = Asserting \ {a}  BY <1>2 DEF Asserting
    <2>2. a \in Asserting <=> pc[a] = "tostring"  BY DEF Asserting
    <2> QED  BY <1>0, <1>2, <2>1, <2>2, FS_RemoveElement DEF One
  <1> QED  BY <1>1, <1>2

(* A callback loses no completion; showing the message brings one, and so does
   going back to the page once the controller is there. *)
LEMMA NotifyCounts ==
  ASSUME TypeInv, StartInv, IsFiniteSet(Asserting), NEW a \in Actors, Notify(a)
  PROVE  /\ IsFiniteSet(Asserting') /\ Coming' >= Coming /\ Coming' \in Nat
         /\ \/ UNCHANGED showingMessage
            \/ ready /\ showingMessage' /\ Coming' = Coming + 1
         /\ pc[a] = "navigate" /\ ready => Coming' = Coming + 1
         /\ pc'[a] \in {"visible", "showing", "tostring"} => ready
  <1>1. Pages \in Nat /\ Cardinality(Asserting) \in Nat /\ Coming \in Nat
    BY ComingType DEF TypeInv
  <1>2. /\ IsFiniteSet(Asserting')
        /\ Cardinality(Asserting') =
             Cardinality(Asserting) + One(pc'[a] = "tostring") - One(pc[a] = "tostring")
    BY NotifyKeeps, AssertingMoves
  <1>3. ret[a] \in {"idle", "told", "wait"} /\ pc \in [Actors -> UiPCs \cup WorkerPCs]
    BY DEF TypeInv, ThreadsOK
  <1>0. pc[a] \in {"visible", "showing", "tostring"} => ready
    BY DEF StartInv, Storing
  <1> HIDE DEF Coming
  <1>4. Coming' = Pages' + Cardinality(Asserting') /\ Coming = Pages + Cardinality(Asserting)
    BY DEF Coming
  <1>5. \A p \in BOOLEAN : One(p) = (IF p THEN 1 ELSE 0)  BY DEF One
  <1>6. CASE Report(a) \/ Told(a) \/ Clear(a) \/ Show(a) \/ StoreVisible(a)
    <2>1. /\ pc[a] \notin {"tostring", "navigate"} /\ pc'[a] # "tostring"
          /\ pc'[a] \in {"visible", "showing"} => ready
      <3>1. CASE Report(a)  BY <1>3, <3>1 DEF Report, Return, Go
      <3>2. CASE Told(a)  BY <1>3, <3>2 DEF Told, Return, Go
      <3>3. CASE Clear(a) \/ StoreVisible(a)  BY <1>0, <1>3, <3>3 DEF Clear, StoreVisible, Go
      <3>4. CASE Show(a)  BY <1>3, <3>4 DEF Show, Return, Go
      <3> QED  BY <1>6, <3>1, <3>2, <3>3, <3>4
    <2>2. Pages' = Pages /\ UNCHANGED showingMessage
      BY <1>6 DEF Report, Told, Clear, Show, StoreVisible, browser, flags, Pages
    <2> QED  BY <1>1, <1>2, <1>4, <1>5, <2>1, <2>2 DEF One
  <1>7. CASE StoreShowing(a)
    <2>1. /\ Pages' = Pages /\ pc[a] = "showing" /\ pc'[a] = "tostring"
          /\ showingMessage' = TRUE
      BY <1>3, <1>7 DEF StoreShowing, browser, Pages, Go
    <2>2. One(pc'[a] = "tostring") = 1 /\ One(pc[a] = "tostring") = 0
      BY <2>1 DEF One
    <2>3. /\ IsFiniteSet(Asserting') /\ Coming' = Coming + 1
          /\ Coming' >= Coming /\ Coming' \in Nat
      BY <1>1, <1>2, <1>4, <2>1, <2>2
    <2> QED  BY <1>0, <2>1, <2>3
  <1>8. CASE NavigateToString(a)
    <2>1. Pages' = Pages + 1 /\ UNCHANGED showingMessage /\ pc[a] = "tostring"
      BY <1>8, BeginCounts DEF NavigateToString, TypeInv, Targets, flags
    <2>2. pc'[a] \notin {"visible", "showing", "tostring"}
      BY <1>3, <1>8 DEF NavigateToString, Return, Go
    <2> QED  BY <1>1, <1>2, <1>4, <1>5, <2>1, <2>2 DEF One
  <1>9. CASE Navigate(a)
    <2>1. /\ Pages' \in Nat /\ Pages' >= Pages /\ (ready => Pages' = Pages + 1)
          /\ UNCHANGED showingMessage /\ pc[a] = "navigate"
      BY <1>9, NavigateCounts DEF Navigate, TypeInv, FlagsOK, flags
    <2>2. pc'[a] \notin {"visible", "showing", "tostring"}
      BY <1>3, <1>9 DEF Navigate, Return, Go
    <2> QED  BY <1>1, <1>2, <1>4, <1>5, <2>1, <2>2 DEF One
  <1> QED  BY <1>6, <1>7, <1>8, <1>9 DEF Notify

(* A completion handled is one fewer to come. *)
LEMMA CompletedCounts ==
  ASSUME TypeInv, IsFiniteSet(Asserting), NavigationCompleted
  PROVE  Asserting' = Asserting /\ Coming' = Coming - 1
  <1>1. Pages \in Nat /\ Cardinality(Asserting) \in Nat  BY ComingType DEF TypeInv
  <1>2. Asserting' = Asserting
    <2>1. \A a \in Actors : pc'[a] = pc[a] \/ (pc'[a] = "gone" /\ pc[a] = "idle")
      BY DEF NavigationCompleted, Go, TypeInv, ThreadsOK
    <2> QED  BY <2>1 DEF Asserting
  <1>3. Pages' = Pages - 1
    <2>1. Len(events) \in Nat /\ Len(events') = Len(events) - 1
      BY DEF NavigationCompleted, TypeInv, BrowserOK
    <2>2. One(nav' # Nothing) = One(nav # Nothing) /\ One(~ready') = One(~ready)
      BY DEF NavigationCompleted
    <2>3. One(nav # Nothing) \in Nat /\ One(~ready) \in Nat  BY DEF One
    <2> QED  BY <2>1, <2>2, <2>3 DEF Pages
  <1> QED  BY <1>1, <1>2, <1>3 DEF Coming

(* Every step that neither handles a completion nor belongs to a callback keeps
   the completions to come and the message's flags. *)
LEMMA OtherCounts ==
  ASSUME TypeInv, StartInv, IsFiniteSet(Asserting), Next,
         ~NavigationCompleted, \A a \in Actors : ~Notify(a)
  PROVE  /\ Asserting' = Asserting /\ Coming' >= Coming /\ Coming' \in Nat
         /\ UNCHANGED showingMessage
         /\ ready' = ready \/ ControllerCreated
  <1>0. /\ UI \in Actors /\ \A w \in Workers : w \in Actors /\ w # UI
        /\ pc \in [Actors -> UiPCs \cup WorkerPCs]
    BY DEF Actors, TypeInv, ThreadsOK
  <1>1. Pages \in Nat /\ Cardinality(Asserting) \in Nat /\ Coming \in Nat
    BY ComingType DEF TypeInv
  <1>a. ASSUME Pages' >= Pages, Pages' \in Nat, Asserting' = Asserting
        PROVE  Coming' >= Coming /\ Coming' \in Nat
    BY <1>1, <1>a DEF Coming
  <1>b. ASSUME UNCHANGED browser, Asserting' = Asserting
        PROVE  Coming' >= Coming /\ Coming' \in Nat
    <2>1. Pages' = Pages  BY <1>b DEF Pages, browser
    <2> QED  BY <1>1, <1>a, <1>b, <2>1
  <1>c. ASSUME NEW a \in Actors, NEW there, Go(a, there), there # "tostring", pc[a] # "tostring"
        PROVE  Asserting' = Asserting
    <2>1. \A b \in Actors : pc'[b] = pc[b] \/ (pc'[b] # "tostring" /\ pc[b] # "tostring")
      BY <1>0, <1>c DEF Go
    <2> QED  BY <2>1 DEF Asserting
  <1>d. ASSUME UNCHANGED threads PROVE Asserting' = Asserting
    BY <1>d DEF Asserting, threads
  <1>2. CASE ControllerCreated
    <2>1. Asserting' = Asserting  BY <1>2, <1>d DEF ControllerCreated
    <2>2. Len(events') = Len(events) /\ Len(events) \in Nat
      BY <1>2, PagesType DEF ControllerCreated, TypeInv
    <2>3. /\ One(nav' # Nothing) = 1 /\ One(~ready') = 0
          /\ One(nav # Nothing) = 0 /\ One(~ready) = 1
      BY <1>2 DEF ControllerCreated, StartInv, One
    <2>4. Pages' = Pages  BY <2>2, <2>3 DEF Pages
    <2>5. Coming' >= Coming /\ Coming' \in Nat  BY <1>1, <1>a, <2>1, <2>4
    <2>6. UNCHANGED showingMessage  BY <1>2 DEF ControllerCreated, flags
    <2> QED  BY <1>2, <2>1, <2>5, <2>6
  <1>3. CASE NavigationEnds
    <2>1. Asserting' = Asserting  BY <1>3, <1>d DEF NavigationEnds
    <2> DEFINE success == nav = Message \/ up[nav]
    <2>2. events' = Append(events, [what |-> nav, ok |-> success])
      BY <1>3 DEF NavigationEnds
    <2>3. success \in BOOLEAN
      BY <1>3 DEF NavigationEnds, TypeInv, FlagsOK, BrowserOK, Targets
    <2> HIDE DEF success
    <2>4. [what |-> nav, ok |-> success] \in Completions
      BY <2>3, CompletionOf DEF TypeInv, BrowserOK
    <2>5. Len(events') = Len(events) + 1 /\ Len(events) \in Nat
      BY <2>2, <2>4 DEF TypeInv, BrowserOK
    <2>6. /\ One(nav' # Nothing) = 0 /\ One(nav # Nothing) = 1
          /\ One(~ready') = One(~ready) /\ One(~ready) \in Nat
      BY <1>3 DEF NavigationEnds, One
    <2>7. Pages' = Pages  BY <2>5, <2>6 DEF Pages
    <2> QED  BY <1>1, <1>3, <1>a, <2>1, <2>7 DEF NavigationEnds, flags
  <1>4. CASE Refresh \/ AutoRefresh
    <2>1. Asserting' = Asserting  BY <1>0, <1>4, <1>c DEF Refresh, AutoRefresh
    <2> QED  BY <1>4, <1>b, <2>1 DEF Refresh, AutoRefresh, browser, flags
  <1>5. CASE ApplyNavigate \/ DoReload
    <2>1. Asserting' = Asserting  BY <1>0, <1>5, <1>c DEF ApplyNavigate, DoReload
    <2>2. Pages' \in Nat /\ Pages' >= Pages /\ ready' = ready
      BY <1>5, NavigateCounts DEF ApplyNavigate, DoReload, TypeInv, FlagsOK
    <2> QED  BY <1>5, <1>a, <2>1, <2>2 DEF ApplyNavigate, DoReload, flags
  <1>6. CASE OnNavigationCompleted \/ MessageGone
    <2>1. Asserting' = Asserting  BY <1>0, <1>6, <1>c DEF OnNavigationCompleted, MessageGone
    <2> QED  BY <1>6, <1>b, <2>1 DEF OnNavigationCompleted, MessageGone, browser
  <1>7. CASE ApplyConfig \/ ApplyStop \/ ApplyCallback
    <2>1. Asserting' = Asserting  BY <1>0, <1>7, <1>c DEF ApplyConfig, ApplyStop, ApplyCallback
    <2>2. UNCHANGED browser /\ UNCHANGED flags
      BY <1>7 DEF ApplyConfig, ApplyStop, ApplyCallback
    <2> QED  BY <1>b, <2>1, <2>2 DEF browser, flags
  <1>8. CASE ApplyThread
    <2>1. Asserting' = Asserting
      <3>1. PICK w \in Workers : pc[w] = "off" /\ pc' = [pc EXCEPT ![UI] = "idle", ![w] = "loop"]
        BY <1>8 DEF ApplyThread
      <3>2. pc[UI] = "ap_thread"  BY <1>8 DEF ApplyThread
      <3>3. \A b \in Actors : pc'[b] = pc[b] \/ (pc'[b] # "tostring" /\ pc[b] # "tostring")
        BY <1>0, <3>1, <3>2
      <3> QED  BY <3>3 DEF Asserting
    <2> QED  BY <1>8, <1>b, <2>1 DEF ApplyThread, browser
  <1>9. ASSUME NEW w \in Workers, WorkerStep(w)
        PROVE  /\ Asserting' = Asserting /\ Coming' >= Coming /\ Coming' \in Nat
               /\ UNCHANGED <<showingMessage, ready>>
    <2>0. Probe(w) \/ CheckUrlReachable(w) \/ Exchange(w) \/ Wait(w)
      BY <1>0, <1>9 DEF WorkerStep
    <2>1. Asserting' = Asserting
      BY <1>0, <1>c, <2>0 DEF Probe, CheckUrlReachable, Exchange, Wait
    <2>2. UNCHANGED <<browser, showingMessage>>
      BY <2>0 DEF Probe, CheckUrlReachable, Exchange, Wait, flags
    <2> QED  BY <1>b, <2>1, <2>2 DEF browser
  <1>10. CASE ServerTurns \/ ComeToRest
    <2>1. UNCHANGED <<browser, flags, threads>>  BY <1>10 DEF ServerTurns, ComeToRest
    <2> QED  BY <1>b, <1>d, <2>1 DEF browser, flags
  <1> QED
    BY <1>0, <1>2, <1>3, <1>4, <1>5, <1>6, <1>7, <1>8, <1>9, <1>10 DEF Next, UiStep

-----------------------------------------------------------------------------
(* The message and what main knows.                                         *)

(* Until the controller is there nothing is in flight. *)
LEMMA StartStep ==
  ASSUME TypeInv, StartInv, MessageInv, Next
  PROVE  StartInv'
  <1> SUFFICES ASSUME ~ready' PROVE pendingNav' # Nothing /\ nav' = Nothing
                                    /\ ~showingMessage' /\ Storing' = {}
    BY DEF StartInv
  <1>1. ~ready  BY DEF Next, UiStep, ControllerCreated, NavigationCompleted, OnNavigationCompleted,
                    MessageGone, Refresh, AutoRefresh, DoReload, ApplyConfig, ApplyNavigate,
                    ApplyStop, ApplyCallback, ApplyThread, NavigationEnds, ServerTurns,
                    ComeToRest, WorkerStep, Probe, CheckUrlReachable, Exchange, Wait, Notify,
                    Report, Told, Clear, Show, StoreVisible, StoreShowing, NavigateToString,
                    Navigate, NavigateTo, Reload, Begin, browser
  <1>2. pendingNav # Nothing /\ nav = Nothing /\ ~showingMessage /\ Storing = {}
    BY <1>1 DEF StartInv
  <1>3. ASSUME NEW a \in Actors, Notify(a)
        PROVE  pendingNav' # Nothing /\ nav' = Nothing /\ ~showingMessage' /\ Storing' = {}
    <2>1. pc[a] \notin {"visible", "showing", "tostring"}  BY <1>2, <1>3 DEF Storing
    <2>2. pendingNav' # Nothing /\ nav' = Nothing
      BY <1>1, <1>2, <1>3, <2>1
         DEF Notify, Report, Told, Clear, Show, StoreVisible, StoreShowing, NavigateToString,
             Navigate, NavigateTo, browser, TypeInv, FlagsOK
    <2>3. ~showingMessage' /\ pc'[a] \notin {"visible", "showing", "tostring"}
      BY <1>1, <1>2, <1>3, NotifyCounts DEF MessageInv
    <2>4. Storing' = {}  BY <1>2, <1>3, <2>3, NotifyKeeps DEF Storing
    <2> QED  BY <2>2, <2>3, <2>4
  <1>6. UI \in Actors /\ pc \in [Actors -> UiPCs \cup WorkerPCs]  BY DEF Actors, TypeInv, ThreadsOK
  <1>7. ASSUME NEW a \in Actors, NEW there, Go(a, there),
               there \notin {"visible", "showing", "tostring"}
        PROVE  Storing' = {}
    <2>1. \A b \in Actors : pc'[b] = pc[b] \/ pc'[b] = there  BY <1>6, <1>7 DEF Go
    <2> QED  BY <1>2, <1>7, <2>1 DEF Storing
  <1>8. ASSUME UNCHANGED pc PROVE Storing' = {}
    BY <1>2, <1>8 DEF Storing
  <1>4. CASE NavigationCompleted
    <2>1. Storing' = {}  BY <1>4, <1>6, <1>7, <1>8 DEF NavigationCompleted
    <2> QED  BY <1>2, <1>4, <2>1 DEF NavigationCompleted
  <1>5. ASSUME ~NavigationCompleted, \A a \in Actors : ~Notify(a)
        PROVE  pendingNav' # Nothing /\ nav' = Nothing /\ ~showingMessage' /\ Storing' = {}
    <2>1. ~showingMessage'  BY <1>2, <1>5, OtherCounts DEF MessageInv
    <2>2. ~ControllerCreated /\ ~NavigationEnds
      BY <1>1, <1>2 DEF ControllerCreated, NavigationEnds
    <2>3. (UNCHANGED browser \/ NavigateTo \/ Reload) /\ Storing' = {}
      <3>1. ASSUME NEW w \in Workers, WorkerStep(w) PROVE UNCHANGED browser /\ Storing' = {}
        <4>1. ~Notify(w) /\ w \in Actors  BY <1>5 DEF Actors
        <4>2. UNCHANGED browser /\ \E there \in {"probe", "off", "exchange", "report", "wait", "loop"} :
                                    Go(w, there)
          BY <3>1, <4>1 DEF WorkerStep, Probe, CheckUrlReachable, Exchange, Wait
        <4> QED  BY <1>7, <4>1, <4>2
      <3>2. CASE OnNavigationCompleted \/ MessageGone \/ Refresh \/ AutoRefresh \/ ApplyConfig
                 \/ ApplyNavigate \/ ApplyStop \/ ApplyCallback \/ DoReload
        <4>1. \E there \in {"report", "told", "exchange", "navigate", "reload", "idle",
                            "ap_navigate", "ap_stop", "ap_callback", "ap_thread"} : Go(UI, there)
          BY <3>2 DEF OnNavigationCompleted, MessageGone, Refresh, AutoRefresh, ApplyConfig,
               ApplyNavigate, ApplyStop, ApplyCallback, DoReload
        <4>2. UNCHANGED browser \/ NavigateTo \/ Reload
          BY <3>2 DEF OnNavigationCompleted, MessageGone, Refresh, AutoRefresh, ApplyConfig,
               ApplyNavigate, ApplyStop, ApplyCallback, DoReload
        <4> QED  BY <1>6, <1>7, <4>1, <4>2
      <3>3. CASE ApplyThread
        <4>1. PICK w \in Workers : pc' = [pc EXCEPT ![UI] = "idle", ![w] = "loop"]
          BY <3>3 DEF ApplyThread
        <4>2. \A b \in Actors : pc'[b] = pc[b] \/ pc'[b] \in {"idle", "loop"}
          BY <1>6, <4>1
        <4>3. Storing' = {}  BY <1>2, <4>2 DEF Storing
        <4> QED  BY <3>3, <4>3 DEF ApplyThread
      <3>4. CASE ServerTurns \/ ComeToRest
        BY <1>8, <3>4 DEF ServerTurns, ComeToRest, threads
      <3>5. ~Notify(UI)  BY <1>5 DEF Actors
      <3> QED  BY <1>5, <2>2, <3>1, <3>2, <3>3, <3>4, <3>5 DEF Next, UiStep
    <2>4. pendingNav' # Nothing /\ nav' = Nothing
      BY <1>1, <1>2, <2>3 DEF NavigateTo, Reload, browser, TypeInv, FlagsOK
    <2> QED  BY <2>1, <2>3, <2>4
  <1> QED  BY <1>3, <1>4, <1>5

(* A message that is to take a completion keeps one coming. *)
LEMMA MessageStep ==
  ASSUME TypeInv, StartInv, MessageInv, Next
  PROVE  MessageInv'
  <1>1. Coming \in Nat  BY ComingType DEF TypeInv, MessageInv
  <1>2. IsFiniteSet(Asserting)  BY DEF MessageInv
  <1> HIDE DEF Coming, Asserting
  <1>3. ASSUME NEW a \in Actors, Notify(a) PROVE MessageInv'
    <2>1. IsFiniteSet(Asserting')  BY <1>2, <1>3, NotifyCounts
    <2>2. CASE UNCHANGED showingMessage
      <3>1. Coming' >= Coming /\ Coming' \in Nat  BY <1>2, <1>3, NotifyCounts DEF MessageInv
      <3> QED  BY <1>1, <2>1, <2>2, <3>1 DEF MessageInv
    <2>3. CASE Coming' = Coming + 1  BY <1>1, <2>1, <2>3 DEF MessageInv
    <2> QED  BY <1>2, <1>3, <2>2, <2>3, NotifyCounts
  <1>4. CASE NavigationCompleted
    <2>1. IsFiniteSet(Asserting')  BY <1>2, <1>4, CompletedCounts
    <2>2. ~showingMessage'  BY <1>4 DEF NavigationCompleted, TypeInv, FlagsOK
    <2> QED  BY <2>1, <2>2 DEF MessageInv
  <1>5. ASSUME ~NavigationCompleted, \A a \in Actors : ~Notify(a)
        PROVE  MessageInv'
    <2>1. /\ Asserting' = Asserting /\ Coming' >= Coming /\ Coming' \in Nat
          /\ UNCHANGED showingMessage
      BY <1>2, <1>5, OtherCounts
    <2> QED  BY <1>1, <1>2, <2>1 DEF MessageInv
  <1> QED  BY <1>3, <1>4, <1>5

(* What a callback leaves to come still exceeds what the message takes. *)
LEMMA NotifyLeaves ==
  ASSUME TypeInv, StartInv, MessageInv, NEW a \in Actors, Notify(a),
         Coming > One(showingMessage) \/ pc[a] = "navigate"
  PROVE  Coming' > One(showingMessage')
  <1>1. Coming \in Nat /\ IsFiniteSet(Asserting)  BY ComingType DEF TypeInv, MessageInv
  <1>2. /\ Coming' >= Coming /\ Coming' \in Nat
        /\ UNCHANGED showingMessage \/ Coming' = Coming + 1
        /\ pc[a] = "navigate" /\ ready => Coming' = Coming + 1
    BY <1>1, NotifyCounts
  <1>3. showingMessage => Coming >= 1  BY DEF MessageInv
  <1>4. /\ One(showingMessage) \in {0, 1} /\ One(showingMessage') \in {0, 1}
        /\ showingMessage' = showingMessage => One(showingMessage') = One(showingMessage)
        /\ ~showingMessage => One(showingMessage) = 0
    BY DEF One
  <1>5. CASE Coming > One(showingMessage)
    <2>1. CASE UNCHANGED showingMessage  BY <1>1, <1>2, <1>4, <1>5, <2>1
    <2>2. CASE Coming' = Coming + 1
      <3>1. Coming >= 1  BY <1>1, <1>4, <1>5
      <3> QED  BY <1>1, <1>4, <2>2, <3>1
    <2> QED  BY <1>2, <2>1, <2>2
  <1>6. CASE pc[a] = "navigate"
    <2>0. Navigate(a)
      BY <1>6 DEF Notify, Report, Told, Clear, Show, StoreVisible, StoreShowing, NavigateToString
    <2>1. showingMessage' = showingMessage  BY <2>0 DEF Navigate, flags
    <2>2. CASE ready
      <3>1. Coming >= One(showingMessage)  BY <1>1, <1>3, <1>4
      <3> QED  BY <1>1, <1>2, <1>4, <1>6, <2>1, <2>2, <3>1
    <2>3. CASE ~ready
      <3>1. One(showingMessage') = 0  BY <1>4, <2>1, <2>3 DEF StartInv
      <3>2. One(~ready) = 1 /\ One(nav # Nothing) \in Nat  BY <2>3 DEF One
      <3>3. Len(events) \in Nat /\ Pages \in Nat /\ Cardinality(Asserting) \in Nat
        BY <1>1, PagesType, ComingType DEF TypeInv
      <3>4. Coming >= 1  BY <3>2, <3>3 DEF Coming, Pages
      <3> QED  BY <1>1, <1>2, <3>1, <3>4
    <2> QED  BY <2>2, <2>3
  <1> QED  BY <1>5, <1>6

(* Whoever is about to tell main does so, hands on to another or leaves a
   completion that will. *)
LEMMA KnowStep ==
  ASSUME TypeInv, GenerationInv, StartInv, MessageInv, KnowInv, Next
  PROVE  KnowInv'
  <1> DEFINE Inside == {"ap_navigate", "ap_stop", "ap_callback", "ap_thread"}
             Tells(a) == \/ pc[a] = "navigate"
                         \/ pc[a] \in {"report", "told"} /\ ~ok[a]
  <1>0. /\ UI \in Actors /\ \A w \in Workers : w \in Actors /\ w # UI
        /\ pc \in [Actors -> UiPCs \cup WorkerPCs] /\ ok \in [Actors -> BOOLEAN]
        /\ isUnreachable \in BOOLEAN /\ unreachable \in BOOLEAN
    BY DEF Actors, TypeInv, ThreadsOK, FlagsOK
  <1>1. Coming \in Nat /\ IsFiniteSet(Asserting)  BY ComingType DEF TypeInv, MessageInv
  <1> HIDE DEF Coming, Asserting
  <1> SUFFICES ASSUME unreachable', ~isUnreachable'
               PROVE  \/ pc'[UI] \in Inside \/ pc'[UI] \in {"gone", "exchange"}
                      \/ \E a \in Actors : Tells(a)'
                      \/ Coming' > One(showingMessage')
    BY DEF KnowInv, Applying, Telling
  <1>2. unreachable /\ ~isUnreachable =>
          \/ pc[UI] \in Inside \/ pc[UI] \in {"gone", "exchange"}
          \/ \E a \in Actors : Tells(a)
          \/ Coming > One(showingMessage)
    BY DEF KnowInv, Applying, Telling
  <1>3. ASSUME NEW a \in Actors, Notify(a)
        PROVE  \/ pc'[UI] \in Inside \/ pc'[UI] \in {"gone", "exchange"}
               \/ \E b \in Actors : Tells(b)'
               \/ Coming' > One(showingMessage')
    <2>1. \A b \in Actors : b # a => pc'[b] = pc[b] /\ ok'[b] = ok[b]
      <3>1. \A b \in Actors : b # a => pc'[b] = pc[b]  BY <1>3, NotifyKeeps
      <3>2. UNCHANGED ok \/ ok' = [ok EXCEPT ![a] = ok[a] \/ ret[a] # "told"]
        BY <1>3 DEF Notify, Report, Told, Clear, Show, StoreVisible, StoreShowing,
          NavigateToString, Navigate, Return
      <3> QED  BY <1>0, <3>1, <3>2
    <2>2. unreachable' = unreachable
      BY <1>3 DEF Notify, Report, Told, Clear, Show, StoreVisible, StoreShowing,
        NavigateToString, Navigate, flags
    <2>3. a = UI => pc[UI] \notin Inside /\ pc[UI] \notin {"gone", "exchange"}
      BY <1>3, NotifyKeeps DEF Notifying
    <2>4. CASE isUnreachable
      <3>1. Clear(a)
        BY <1>0, <1>3, <2>4 DEF Notify, Report, Told, Show, StoreVisible, StoreShowing,
          NavigateToString, Navigate, flags
      <3>2. pc'[a] = "navigate"  BY <1>0, <3>1 DEF Clear, Go
      <3> QED  BY <3>2
    <2>5. CASE ~isUnreachable
      <3>1. CASE pc[UI] \in Inside \cup {"gone", "exchange"}  BY <1>0, <2>1, <2>3, <3>1
      <3>2. CASE \E b \in Actors : b # a /\ Tells(b)  BY <2>1, <3>2
      <3>3. CASE Coming > One(showingMessage) \/ pc[a] = "navigate"
        BY <1>3, <3>3, NotifyLeaves
      <3>4. CASE pc[a] = "report" /\ ~ok[a]
        <4>1. Report(a)
          BY <1>3, <3>4 DEF Notify, Told, Clear, Show, StoreVisible, StoreShowing,
            NavigateToString, Navigate
        <4>2. CASE callback
          <5>1. pc'[a] = "told" /\ ~ok'[a]  BY <1>0, <3>4, <4>1, <4>2 DEF Report, Go
          <5> QED  BY <5>1
        <4>3. CASE ~callback
          <5>1. pc[UI] \in Inside /\ a # UI  BY <2>3, <4>3 DEF GenerationInv
          <5> QED  BY <1>0, <2>1, <5>1
        <4> QED  BY <4>2, <4>3
      <3>5. CASE pc[a] = "told" /\ ~ok[a]
        <4>1. Told(a)
          BY <1>3, <3>5 DEF Notify, Report, Clear, Show, StoreVisible, StoreShowing,
            NavigateToString, Navigate
        <4>2. isUnreachable'  BY <3>5, <4>1 DEF Told
        <4> QED  BY <4>2
      <3> QED  BY <1>2, <2>2, <2>5, <3>1, <3>2, <3>3, <3>4, <3>5
    <2> QED  BY <1>0, <2>4, <2>5
  <1>4. CASE NavigationCompleted
    <2>1. CASE showingMessage
      <3>1. /\ UNCHANGED <<unreachable, isUnreachable, pc, ok>>
            /\ showingMessage' = FALSE /\ pc[UI] = "idle"
        BY <1>4, <2>1 DEF NavigationCompleted
      <3>2. CASE \E a \in Actors : Tells(a)  BY <3>1, <3>2
      <3>3. CASE Coming > One(showingMessage)
        <4>1. One(showingMessage) = 1 /\ One(showingMessage') = 0  BY <2>1, <3>1 DEF One
        <4>2. Coming' = Coming - 1  BY <1>1, <1>4, CompletedCounts
        <4> QED  BY <1>1, <3>3, <4>1, <4>2
      <3> QED  BY <1>2, <3>1, <3>2, <3>3
    <2>2. CASE ~showingMessage
      <3>1. pc'[UI] = "gone"  BY <1>0, <1>4, <2>2 DEF NavigationCompleted, Go
      <3> QED  BY <3>1
    <2> QED  BY <2>1, <2>2
  <1>5. ASSUME ~NavigationCompleted, \A a \in Actors : ~Notify(a)
        PROVE  \/ pc'[UI] \in Inside \/ pc'[UI] \in {"gone", "exchange"}
               \/ \E b \in Actors : Tells(b)'
               \/ Coming' > One(showingMessage')
    <2>1. Coming > One(showingMessage) => Coming' > One(showingMessage')
      <3>1. Coming' \in Nat /\ Coming' >= Coming /\ showingMessage' = showingMessage
        BY <1>1, <1>5, OtherCounts
      <3>2. One(showingMessage') = One(showingMessage) /\ One(showingMessage) \in Nat
        BY <3>1 DEF One
      <3> QED  BY <1>1, <3>1, <3>2
    <2>2. CASE OnNavigationCompleted
      <3>1. ~ok[UI] /\ pc'[UI] \in {"report", "told"} /\ ok' = ok
        BY <1>0, <2>2 DEF OnNavigationCompleted, Go
      <3> QED  BY <1>0, <3>1
    <2>3. CASE ApplyConfig \/ ApplyNavigate \/ ApplyStop \/ ApplyCallback
      <3>1. pc'[UI] \in Inside
        BY <1>0, <2>3 DEF ApplyConfig, ApplyNavigate, ApplyStop, ApplyCallback, Go
      <3> QED  BY <3>1
    <2>4. CASE ApplyThread  BY <2>4 DEF ApplyThread
    <2>5. CASE ControllerCreated \/ NavigationEnds \/ ServerTurns \/ ComeToRest
      <3>1. UNCHANGED <<unreachable, isUnreachable, pc, ok>>
        BY <2>5 DEF ControllerCreated, NavigationEnds, ServerTurns, ComeToRest, flags, threads
      <3> QED  BY <1>2, <2>1, <3>1
    <2>7. CASE MessageGone
      <3>1. pc'[UI] = "exchange"  BY <1>0, <2>7 DEF MessageGone, Go
      <3> QED  BY <3>1
    <2>8. CASE Refresh \/ AutoRefresh \/ DoReload
      <3>1. /\ UNCHANGED <<unreachable, isUnreachable, ok>> /\ pc[UI] \in {"idle", "reload"}
            /\ \E there : Go(UI, there)
        BY <2>8 DEF Refresh, AutoRefresh, DoReload, flags
      <3>2. \A b \in Actors : b # UI => pc'[b] = pc[b]  BY <1>0, <3>1 DEF Go
      <3>3. \A b \in Actors : Tells(b) => Tells(b)'  BY <3>1, <3>2
      <3> HIDE DEF Tells
      <3> QED  BY <1>2, <2>1, <3>1, <3>3
    <2>6. ASSUME NEW w \in Workers, WorkerStep(w)
          PROVE  \/ pc'[UI] \in Inside \/ pc'[UI] \in {"gone", "exchange"}
                 \/ \E b \in Actors : Tells(b)'
                 \/ Coming' > One(showingMessage')
      <3>0. w \in Actors /\ w # UI /\ ~Notify(w)  BY <1>0, <1>5
      <3>1. CASE Exchange(w)
        <4>1. ~ok[w] /\ pc'[w] = "report" /\ ok' = ok
          BY <1>0, <3>0, <3>1 DEF Exchange, Go
        <4> QED  BY <3>0, <4>1
      <3>2. CASE Probe(w) \/ CheckUrlReachable(w) \/ Wait(w)
        <4>1. /\ UNCHANGED <<unreachable, isUnreachable>>
              /\ pc[w] \in {"loop", "probe", "wait"}
          BY <3>2 DEF Probe, CheckUrlReachable, Wait, flags
        <4>2. \A b \in Actors : b # w => pc'[b] = pc[b] /\ ok'[b] = ok[b]
          BY <1>0, <3>2 DEF Probe, CheckUrlReachable, Wait, Go
        <4>3. \A b \in Actors : Tells(b) => Tells(b)'  BY <4>1, <4>2
        <4>4. pc'[UI] = pc[UI]  BY <1>0, <3>0, <4>2
        <4> HIDE DEF Tells
        <4> QED  BY <1>2, <2>1, <4>1, <4>3, <4>4
      <3> QED  BY <2>6, <3>0, <3>1, <3>2 DEF WorkerStep
    <2> QED
      BY <1>0, <1>5, <2>2, <2>3, <2>4, <2>5, <2>6, <2>7, <2>8 DEF Next, UiStep
  <1> QED  BY <1>3, <1>4, <1>5

-----------------------------------------------------------------------------
(* The theorems.                                                            *)

(* The invariant holds when the message loop begins. *)
LEMMA InitIInv == Init => IInv
  <1> SUFFICES ASSUME Init PROVE IInv  OBVIOUS
  <1>1. PICK w \in Workers :
          /\ current = [v \in Workers |-> v = w]
          /\ pc = [a \in Actors |-> IF a = w THEN "loop" ELSE IF a = UI THEN "idle" ELSE "off"]
    BY DEF Init
  <1>2. GenerationInv
    <2>1. \A v \in Workers : current[v] => v = w  BY <1>1
    <2>2. pc[UI] = "idle"  BY <1>1 DEF Actors
    <2> QED  BY <2>1, <2>2 DEF Init, GenerationInv, Applying
  <1>3. Asserting = {} /\ Storing = {}  BY <1>1 DEF Asserting, Storing
  <1>4. StartInv  BY <1>3 DEF StartInv, Init
  <1>5. MessageInv  BY <1>3, FS_EmptySet DEF MessageInv, Init
  <1>6. KnowInv  BY DEF KnowInv, Init
  <1> QED  BY <1>2, <1>4, <1>5, <1>6, InitTypes DEF IInv

(* The invariant is kept by every step: the inductive core of all that follows. *)
THEOREM Invariance == Spec => []IInv
  <1>1. IInv /\ [Next]_vars => IInv'
    <2> SUFFICES ASSUME IInv, [Next]_vars PROVE IInv'  OBVIOUS
    <2>1. CASE Next
      <3>1. TypeInv'
        <4>1. ASSUME NEW w \in Workers, WorkerStep(w) PROVE TypeInv'
          BY <4>1, WorkerTypes DEF IInv
        <4> QED  BY <2>1, <4>1, UiTypes, OutsideTypes DEF Next, IInv
      <3> QED
        BY <2>1, <3>1, GenerationStep, StartStep, MessageStep, KnowStep DEF IInv
    <2>2. CASE UNCHANGED vars
      <3> USE <2>2 DEF vars, outside, monitor, flags, browser, threads
      <3>1. FlagsOK'  BY DEF IInv, TypeInv, FlagsOK
      <3>2. BrowserOK'  BY DEF IInv, TypeInv, BrowserOK
      <3>3. ThreadsOK'  BY DEF IInv, TypeInv, ThreadsOK
      <3>4. GenerationInv'  BY DEF IInv, GenerationInv, Applying
      <3>5. Asserting' = Asserting /\ Storing' = Storing  BY DEF Asserting, Storing
      <3>6. Coming' = Coming  BY <3>5 DEF Coming, Pages
      <3>7. StartInv'  BY <3>5 DEF IInv, StartInv
      <3>8. MessageInv'  BY <3>5, <3>6 DEF IInv, MessageInv
      <3>9. Telling' = Telling  BY DEF Telling
      <3>10. One(showingMessage') = One(showingMessage)  OBVIOUS
      <3>11. KnowInv'  BY <3>6, <3>9, <3>10 DEF IInv, KnowInv, Applying
      <3> QED  BY <3>1, <3>2, <3>3, <3>4, <3>7, <3>8, <3>11 DEF IInv, TypeInv
    <2> QED  BY <2>1, <2>2
  <1> QED  BY <1>1, InitIInv, PTL DEF Spec

(* Every variable of the page's monitor and of its threads keeps its type. *)
THEOREM TypeCorrect == Spec => []TypeOK
  <1>1. IInv => TypeOK  BY Types DEF IInv
  <1> QED  BY <1>1, Invariance, PTL

(* url_monitor.cpp:21-22: however often the target changes, and however late the
   retired threads wake up, only one thread belongs to the current generation. *)
THEOREM OneGeneration == Spec => []OneMonitor
  <1>1. IInv => OneMonitor
    <2> SUFFICES ASSUME IInv PROVE OneMonitor  OBVIOUS
    <2> DEFINE Monitors == {w \in Workers : pc[w] # "off" /\ current[w]}
    <2>1. \A v, w \in Monitors : v = w  BY DEF IInv, GenerationInv
    <2>2. CASE Monitors = {}  BY <2>2, FS_EmptySet DEF OneMonitor
    <2>3. CASE Monitors # {}
      <3>1. PICK w \in Monitors : TRUE  BY <2>3
      <3>2. Monitors = {w}  BY <2>1, <3>1
      <3>3. Cardinality(Monitors) = 1  BY <3>2, FS_Singleton
      <3> QED  BY <3>3 DEF OneMonitor
    <2> QED  BY <2>2, <2>3
  <1> QED  BY <1>1, Invariance, PTL

(* url_monitor.cpp:144 with main.cpp:701-715: at rest main holds the page
   unreachable whenever the monitor does, in whatever order the reports of the
   UI thread and of the monitor threads, retired ones included, came in. *)
THEOREM MainIsTold == Spec => []MainKnows
  <1>1. IInv => MainKnows
    <2> SUFFICES ASSUME IInv, Quiet, unreachable, ~isUnreachable PROVE FALSE
      BY DEF MainKnows, IInv, TypeInv, FlagsOK
    <2>1. \A a \in Actors : pc[a] \notin {"report", "told", "tostring", "navigate"}
      BY DEF Quiet, Actors, Notifying
    <2>2. Asserting = {} /\ ~Telling  BY <2>1 DEF Asserting, Telling
    <2>3. Coming = 0
      <3>1. Cardinality(Asserting) = 0  BY <2>2, FS_EmptySet
      <3>2. Len(events) = 0 /\ One(nav # Nothing) = 0 /\ One(~ready) = 0
        BY DEF Quiet, One
      <3> QED  BY <3>1, <3>2 DEF Coming, Pages
    <2>4. ~(Coming > One(showingMessage))  BY <2>3 DEF One
    <2> QED  BY <2>2, <2>4 DEF IInv, KnowInv, Applying, Quiet
  <1> QED  BY <1>1, Invariance, PTL

=============================================================================
