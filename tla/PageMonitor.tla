------------------------------ MODULE PageMonitor ------------------------------
(***************************************************************************)
(* Watching the kiosk's page: UrlMonitor (url_monitor.cpp), the navigation  *)
(* and message handling of WebViewWindow (webview_window.cpp) and           *)
(* OnUrlReachabilityChanged (main.cpp), run by the UI thread and by one     *)
(* detached monitor thread per generation.                                  *)
(*                                                                          *)
(* The two threads share g_unreachable, isUnreachable, g_showingMessage and *)
(* g_messageVisible; every read or write of one of them is a step.          *)
(***************************************************************************)
EXTENDS Naturals, Sequences, FiniteSets

CONSTANTS
    Urls,       \* target pages
    Workers,    \* bound: monitor threads alive at once
    UI,         \* the UI thread
    Message,    \* the page of NavigateToString
    Nothing,    \* no page, no navigation
    MaxEvents,  \* bound: completions waiting when a new navigation is asked for
    Settles     \* the outside may come to rest, which only liveness asks about

ASSUME NamesAssumption ==
    UI \notin Workers /\ Message \notin Urls /\ Nothing \notin Urls /\ Message # Nothing
ASSUME BoundAssumption == MaxEvents \in Nat \ {0} /\ Settles \in BOOLEAN

Actors == Workers \cup {UI}

VARIABLES
    (* the world, and the history variable that says it has come to rest *)
    up,             \* up[u]: u answers
    calm,           \* from here on nothing outside the program changes
    (* main.cpp *)
    url,            \* g_state.config.url
    isUnreachable,  \* g_state.isUnreachable
    (* url_monitor.cpp *)
    monitored,      \* g_url
    callback,       \* g_callback is set
    running,        \* g_running
    unreachable,    \* g_unreachable
    current,        \* current[w]: w's generation is g_generation
    (* webview_window.cpp *)
    ready,          \* g_webViewReady
    pendingNav,     \* g_pendingNavigate
    showingMessage, \* g_showingMessage
    messageVisible, \* g_messageVisible
    (* WebView2 *)
    nav,            \* navigation in flight
    shown,          \* what is on the screen
    events,         \* NavigationCompleted events not yet handled
    (* the threads *)
    pc, ret,        \* where each is, and where its callback returns to
    ok,             \* the result each reports: probe answered, navigation succeeded
    probed          \* probed[w]: url w is asking for, Nothing when it is not asking

outside == <<up, calm>>
monitor == <<monitored, callback, running, current>>
flags   == <<unreachable, isUnreachable, showingMessage, messageVisible>>
browser == <<ready, pendingNav, nav, shown, events>>
threads == <<pc, ret, ok, probed>>
vars    == <<outside, url, monitor, flags, browser, threads>>

Targets == Urls \cup {Message, Nothing}
Notifying == {"report", "told", "clear", "show", "visible", "showing", "tostring", "navigate"}
UiPCs == Notifying \cup {"idle", "reload", "gone", "exchange",
                        "ap_navigate", "ap_stop", "ap_callback", "ap_thread"}
WorkerPCs == Notifying \cup {"off", "loop", "probe", "exchange", "wait"}

TypeOK ==
    /\ up \in [Urls -> BOOLEAN] /\ calm \in BOOLEAN /\ url \in Urls /\ monitored \in Urls
    /\ isUnreachable \in BOOLEAN /\ unreachable \in BOOLEAN
    /\ showingMessage \in BOOLEAN /\ messageVisible \in BOOLEAN
    /\ callback \in BOOLEAN /\ running \in BOOLEAN /\ ready \in BOOLEAN
    /\ current \in [Workers -> BOOLEAN]
    /\ pendingNav \in Urls \cup {Nothing} /\ nav \in Targets
    /\ shown \in [what : Targets, ok : BOOLEAN]
    /\ events \in Seq([what : Targets, ok : BOOLEAN])
    /\ pc \in [Actors -> UiPCs \cup WorkerPCs]
    /\ pc[UI] \in UiPCs /\ \A w \in Workers : pc[w] \in WorkerPCs
    /\ ret \in [Actors -> {"idle", "told", "wait"}]
    /\ ok \in [Actors -> BOOLEAN] /\ probed \in [Workers -> Urls \cup {Nothing}]

(* RunFullscreenMode has navigated, started the monitor and entered the message
   loop; the WebView2 controller is still being created. *)
Init ==
    /\ up \in [Urls -> BOOLEAN] /\ calm = FALSE
    /\ url \in Urls /\ monitored = url
    /\ isUnreachable = FALSE /\ unreachable = FALSE
    /\ showingMessage = FALSE /\ messageVisible = FALSE
    /\ callback = TRUE /\ running = TRUE
    /\ \E w \in Workers :
         /\ current = [v \in Workers |-> v = w]
         /\ pc = [a \in Actors |-> IF a = w THEN "loop" ELSE IF a = UI THEN "idle" ELSE "off"]
    /\ ret = [a \in Actors |-> IF a = UI THEN "idle" ELSE "wait"]
    /\ ok = [a \in Actors |-> TRUE] /\ probed = [w \in Workers |-> Nothing]
    /\ ready = FALSE /\ pendingNav = url
    /\ nav = Nothing /\ events = <<>>
    /\ shown = [what |-> Nothing, ok |-> TRUE]

Go(a, there) == pc' = [pc EXCEPT ![a] = there]

-----------------------------------------------------------------------------
(* WebView2: a new navigation cancels the one in flight, whose completion is
   then reported as a failure. *)
Begin(target) ==
    /\ nav' = target
    /\ events' = IF nav = Nothing THEN events
                 ELSE Append(events, [what |-> nav, ok |-> FALSE])
    /\ UNCHANGED <<ready, pendingNav, shown>>

(* The bound of the event queue: while it is full nobody begins anything new. *)
Room == Len(events) < MaxEvents

NavigationEnds ==
    /\ nav # Nothing /\ Room
    /\ LET success == nav = Message \/ up[nav] IN
         /\ shown' = [what |-> nav, ok |-> success]
         /\ events' = Append(events, [what |-> nav, ok |-> success])
    /\ nav' = Nothing
    /\ UNCHANGED <<outside, url, monitor, flags, ready, pendingNav, threads>>

(* NavigateTo of config.url. *)
NavigateTo ==
    IF ready THEN Begin(url)
    ELSE pendingNav' = url /\ UNCHANGED <<ready, nav, shown, events>>

(* Reload of the page on the screen, the message page included. *)
Reload ==
    IF ready /\ shown.what # Nothing THEN Begin(shown.what) ELSE UNCHANGED browser

(* OnControllerCreated, with ApplyPendingOperations. *)
ControllerCreated ==
    /\ pc[UI] = "idle" /\ ~ready
    /\ ready' = TRUE /\ pendingNav' = Nothing
    /\ nav' = pendingNav
    /\ UNCHANGED <<outside, url, monitor, flags, shown, events, threads>>

-----------------------------------------------------------------------------
(* OnUrlReachabilityChanged(ok[a]), called by the UI thread or by a worker.   *)

(* Slip: every callback returns to the message loop. *)
ReturnToLoop(a) ==
    /\ Go(a, IF ret[a] = "told" THEN "told" ELSE "idle")
    /\ ret' = [ret EXCEPT ![a] = IF a = UI THEN "idle" ELSE "wait"]
    /\ ok' = [ok EXCEPT ![a] = ok[a] \/ ret[a] # "told"]

Return(a) ==
    /\ Go(a, ret[a])
    /\ ret' = [ret EXCEPT ![a] = IF a = UI THEN "idle" ELSE "wait"]
    /\ ok' = [ok EXCEPT ![a] = ok[a] \/ ret[a] # "told"]

(* InvokeCallback copies g_callback under its mutex; Stop may have cleared it. *)
Report(a) ==
    /\ pc[a] = "report"
    /\ IF callback THEN Go(a, "told") /\ UNCHANGED <<ret, ok>> ELSE Return(a)
    /\ UNCHANGED <<outside, url, monitor, flags, browser, probed>>

(* Slip: a message already on the screen needs no further note of its cause. *)
ToldUnlessVisible(a) ==
    /\ pc[a] = "told"
    /\ IF ok[a] THEN /\ UNCHANGED isUnreachable
                    /\ IF isUnreachable THEN Go(a, "clear") /\ UNCHANGED <<ret, ok>> ELSE Return(a)
       ELSE isUnreachable' = ~messageVisible /\ Go(a, "show") /\ UNCHANGED <<ret, ok>>
    /\ UNCHANGED <<outside, url, monitor, unreachable, showingMessage, messageVisible, browser,
                   probed>>

(* Slip: a failure counts only when it is news. *)
ToldTransitionsOnly(a) ==
    /\ pc[a] = "told"
    /\ IF isUnreachable = ~ok[a] THEN Return(a)
       ELSE Go(a, IF ok[a] THEN "clear" ELSE "show") /\ UNCHANGED <<ret, ok>>
    /\ isUnreachable' = (isUnreachable \/ ~ok[a])
    /\ UNCHANGED <<outside, url, monitor, unreachable, showingMessage, messageVisible, browser,
                   probed>>

(* A failure is noted every time, a success matters after a failure only. *)
Told(a) ==
    /\ pc[a] = "told"
    /\ isUnreachable' = (isUnreachable \/ ~ok[a])
    /\ IF ok[a] /\ ~isUnreachable THEN Return(a)
       ELSE Go(a, IF ok[a] THEN "clear" ELSE "show") /\ UNCHANGED <<ret, ok>>
    /\ UNCHANGED <<outside, url, monitor, unreachable, showingMessage, messageVisible, browser,
                   probed>>

Clear(a) ==
    /\ pc[a] = "clear" /\ Go(a, "navigate")
    /\ isUnreachable' = FALSE
    /\ UNCHANGED <<outside, url, monitor, unreachable, showingMessage, messageVisible, browser,
                   ret, ok, probed>>

(* ShowMessage, under its mutex: nothing to do while the message is visible or
   without a WebView. *)
Show(a) ==
    /\ pc[a] = "show"
    /\ IF messageVisible \/ ~ready THEN Return(a) ELSE Go(a, "visible") /\ UNCHANGED <<ret, ok>>
    /\ UNCHANGED <<outside, url, monitor, flags, browser, probed>>

(* The rest of it runs without the mutex. *)
StoreVisible(a) ==
    /\ pc[a] = "visible" /\ Go(a, "showing")
    /\ messageVisible' = TRUE
    /\ UNCHANGED <<outside, url, monitor, unreachable, isUnreachable, showingMessage, browser,
                   ret, ok, probed>>

StoreShowing(a) ==
    /\ pc[a] = "showing" /\ Go(a, "tostring")
    /\ showingMessage' = TRUE
    /\ UNCHANGED <<outside, url, monitor, unreachable, isUnreachable, messageVisible, browser,
                   ret, ok, probed>>

NavigateToString(a) ==
    /\ pc[a] = "tostring"
    /\ Begin(Message) /\ Return(a)
    /\ UNCHANGED <<outside, url, monitor, flags, probed>>

(* Reachable again: NavigateTo(config.url). *)
Navigate(a) ==
    /\ pc[a] = "navigate"
    /\ NavigateTo /\ Return(a)
    /\ UNCHANGED <<outside, url, monitor, flags, probed>>

Notify(a) ==
    \/ Report(a) \/ Told(a) \/ Clear(a) \/ Navigate(a)
    \/ Show(a) \/ StoreVisible(a) \/ StoreShowing(a) \/ NavigateToString(a)

-----------------------------------------------------------------------------
(* MonitorThreadProc.                                                       *)

Wanted(w) == running /\ current[w]

(* The loop condition, then CheckUrlReachable reads g_url and sends its HEAD. *)
Probe(w) ==
    /\ pc[w] = "loop" /\ (Wanted(w) => Room)
    /\ Go(w, IF Wanted(w) THEN "probe" ELSE "off")
    /\ probed' = [probed EXCEPT ![w] = IF Wanted(w) THEN monitored ELSE Nothing]
    /\ UNCHANGED <<outside, url, monitor, flags, browser, ret, ok>>

CheckUrlReachable(w) ==
    /\ pc[w] = "probe"
    /\ ok' = [ok EXCEPT ![w] = up[probed[w]]]
    /\ probed' = [probed EXCEPT ![w] = Nothing]
    /\ Go(w, "exchange")
    /\ UNCHANGED <<outside, url, monitor, flags, browser, ret>>

(* Slip: only failures are reported. *)
ExchangeFailuresOnly(w) ==
    /\ pc[w] = "exchange"
    /\ unreachable' = ~ok[w]
    /\ Go(w, IF ~ok[w] THEN "report" ELSE "wait")
    /\ UNCHANGED <<outside, url, monitor, isUnreachable, showingMessage, messageVisible, browser,
                   ret, ok, probed>>

(* g_unreachable.exchange; a transition is reported, and every failure. *)
Exchange(w) ==
    /\ pc[w] = "exchange"
    /\ unreachable' = ~ok[w]
    /\ Go(w, IF unreachable = ok[w] \/ ~ok[w] THEN "report" ELSE "wait")
    /\ UNCHANGED <<outside, url, monitor, isUnreachable, showingMessage, messageVisible, browser,
                   ret, ok, probed>>

(* The ten seconds of sleep end, or are cut short. *)
Wait(w) ==
    /\ pc[w] = "wait"
    /\ Go(w, IF Wanted(w) THEN "loop" ELSE "off")
    /\ UNCHANGED <<outside, url, monitor, flags, browser, ret, ok, probed>>

WorkerStep(w) == Probe(w) \/ CheckUrlReachable(w) \/ Exchange(w) \/ Wait(w) \/ Notify(w)

-----------------------------------------------------------------------------
(* The UI thread.                                                           *)

(* NavigationCompleted: whatever completed, a pending ShowMessage takes it. *)
NavigationCompleted ==
    /\ pc[UI] = "idle" /\ events # <<>>
    /\ events' = Tail(events) /\ showingMessage' = FALSE
    /\ IF showingMessage THEN UNCHANGED <<pc, ok>>
       ELSE Go(UI, "gone") /\ ok' = [ok EXCEPT ![UI] = Head(events).ok]
    /\ UNCHANGED <<outside, url, monitor, unreachable, isUnreachable, messageVisible, ready,
                   pendingNav, nav, shown, ret, probed>>

(* Otherwise the message page is gone. *)
MessageGone ==
    /\ pc[UI] = "gone" /\ Go(UI, "exchange")
    /\ messageVisible' = FALSE
    /\ UNCHANGED <<outside, url, monitor, unreachable, isUnreachable, showingMessage, browser,
                   ret, ok, probed>>

(* UrlMonitor::OnNavigationCompleted reports a transition; g_navCallback is
   called with the same result in any case. *)
OnNavigationCompleted ==
    /\ pc[UI] = "exchange"
    /\ unreachable' = ~ok[UI]
    /\ IF unreachable = ok[UI]
         THEN Go(UI, "report") /\ ret' = [ret EXCEPT ![UI] = "told"]
         ELSE Go(UI, "told") /\ UNCHANGED ret
    /\ UNCHANGED <<outside, url, monitor, isUnreachable, showingMessage, messageVisible, browser,
                   ok, probed>>

(* F5 or Ctrl+F5. *)
Refresh ==
    /\ pc[UI] = "idle" /\ Room /\ ~calm
    /\ Go(UI, IF isUnreachable THEN "navigate" ELSE "reload")
    /\ UNCHANGED <<outside, url, monitor, flags, browser, ret, ok, probed>>

(* TIMER_AUTO_REFRESH, which is never stopped: DoAutoRefresh (g_currentUrl is
   g_refreshUrl between messages). *)
AutoRefresh ==
    /\ pc[UI] = "idle" /\ Room
    /\ ~messageVisible /\ ready /\ Go(UI, "reload")
    /\ UNCHANGED <<outside, url, monitor, flags, browser, ret, ok, probed>>

(* What either has decided on. *)
DoReload ==
    /\ pc[UI] = "reload" /\ Go(UI, "idle")
    /\ Reload
    /\ UNCHANGED <<outside, url, monitor, flags, ret, ok, probed>>

(* Slip: the generation is left as it is; g_running alone stops the thread. *)
StopKeepsGeneration ==
    running' = FALSE /\ callback' = FALSE /\ UNCHANGED current

Stop ==
    /\ running' = FALSE /\ callback' = FALSE
    /\ current' = [w \in Workers |-> FALSE]

(* ApplyConfigRuntime with a new target: UrlMonitor::Stop, *)
ApplyConfig ==
    /\ pc[UI] = "idle" /\ Room /\ ~calm /\ \E w \in Workers : pc[w] = "off"
    /\ url' \in Urls
    /\ Stop /\ UNCHANGED monitored
    /\ Go(UI, "ap_navigate")
    /\ UNCHANGED <<outside, flags, browser, ret, ok, probed>>

(* NavigateTo, *)
ApplyNavigate ==
    /\ pc[UI] = "ap_navigate"
    /\ NavigateTo /\ Go(UI, "ap_stop")
    /\ UNCHANGED <<outside, url, monitor, flags, ret, ok, probed>>

(* and UrlMonitor::Start: Stop once more, *)
ApplyStop ==
    /\ pc[UI] = "ap_stop"
    /\ Stop /\ UNCHANGED monitored
    /\ Go(UI, "ap_callback")
    /\ UNCHANGED <<outside, url, flags, browser, ret, ok, probed>>

(* g_url and g_callback, *)
ApplyCallback ==
    /\ pc[UI] = "ap_callback"
    /\ monitored' = url /\ callback' = TRUE
    /\ Go(UI, "ap_thread")
    /\ UNCHANGED <<outside, url, running, current, flags, browser, ret, ok, probed>>

(* g_unreachable and g_running, and the new thread. *)
ApplyThread ==
    /\ pc[UI] = "ap_thread"
    /\ unreachable' = FALSE /\ running' = TRUE
    /\ \E w \in Workers :
         /\ pc[w] = "off"
         /\ current' = [current EXCEPT ![w] = TRUE]
         /\ pc' = [pc EXCEPT ![UI] = "idle", ![w] = "loop"]
    /\ UNCHANGED <<outside, url, monitored, callback, isUnreachable, showingMessage,
                   messageVisible, browser, ret, ok, probed>>

UiStep ==
    \/ ControllerCreated \/ NavigationCompleted \/ MessageGone \/ OnNavigationCompleted
    \/ Notify(UI) \/ DoReload \/ ApplyNavigate \/ ApplyStop \/ ApplyCallback \/ ApplyThread

-----------------------------------------------------------------------------
(* The network. *)
ServerTurns ==
    /\ ~calm /\ \E u \in Urls : up' = [up EXCEPT ![u] = ~up[u]]
    /\ UNCHANGED <<calm, url, monitor, flags, browser, threads>>

(* The last change of the network and the last key press are over. *)
ComeToRest ==
    /\ Settles /\ ~calm /\ calm' = TRUE
    /\ UNCHANGED <<up, url, monitor, flags, browser, threads>>

Next ==
    \/ UiStep \/ Refresh \/ AutoRefresh \/ ApplyConfig
    \/ \E w \in Workers : WorkerStep(w)
    \/ NavigationEnds \/ ServerTurns \/ ComeToRest

Spec == Init /\ [][Next]_vars

(* Threads run on and navigations end; nobody has to press F5 or save settings. *)
FairSpec ==
    /\ Spec /\ WF_vars(UiStep) /\ WF_vars(NavigationEnds)
    /\ \A w \in Workers : WF_vars(WorkerStep(w))

-----------------------------------------------------------------------------
(* Nothing is under way but the worker's rounds of probes. *)
Quiet ==
    /\ pc[UI] = "idle" /\ nav = Nothing /\ events = <<>> /\ ready
    /\ \A w \in Workers : pc[w] \notin Notifying

PageShown == shown = [what |-> url, ok |-> TRUE]

(* From some point on the ten seconds between two probes are enough to load a page
   and handle it.  Without that two threads in lockstep, or a completion that is
   always late, can undo each other's message for ever. *)
Brisk == <>[][\A w \in Workers : Wait(w) => Quiet]_vars

(* url_monitor.cpp:21-22: Start right after Stop never leaves two threads that go
   on probing. *)
OneMonitor == Cardinality({w \in Workers : pc[w] # "off" /\ current[w]}) <= 1

(* main.cpp:705-710: while the page stays away every failed probe asserts the
   message anew, so that it comes back to the screen again and again, whatever the
   stores of two threads and the periodic refresh have done to the flags before,
   once probes no longer overtake the handling of the one before (Brisk). *)
MessageComesBack == Brisk /\ <>(calm /\ ~up[url]) => []<>(shown.what = Message)

(* url_monitor.cpp:144 with main.cpp:701-715: once everything has settled, a
   monitor that holds the page unreachable has told main so. *)
MainKnows == Quiet /\ unreachable => isUnreachable

(* url_monitor.cpp:140-151 with main.cpp:711-714: from a quiet state without
   retired threads in which both flags say "unreachable", the page comes back. *)
AgreementRecovers ==
    Brisk => ((calm /\ up[url] /\ Quiet /\ unreachable /\ isUnreachable
                 /\ \A w \in Workers : pc[w] = "off" \/ current[w]) ~> PageShown)
=============================================================================
