------------------------------- MODULE Capture -------------------------------
(***************************************************************************)
(* The capture side of the extension: one ChatGPT tab, the content script   *)
(* in it (route observer, live observer, backfill, activation) and the      *)
(* worker's gate on what the tab reports.                                   *)
(*                                                                         *)
(*   url, shown   the conversation of the address bar and the one whose     *)
(*                transcript is rendered; the page changes the first and    *)
(*                then the second                                           *)
(*   turn         the text (0: not said yet) and the streaming mark of each *)
(*                message                                                   *)
(*   visible, pos document.visibilityState and the transcript's scrollTop   *)
(*   tab          the content script's own variables: active, its copy of   *)
(*                the configuration, route (the conversation the route      *)
(*                observer knows of) and backfilledConversations            *)
(*   obs          the live observer: the conversation it was started for,   *)
(*                its tracked messages and whether its quiet timer is armed *)
(*   job          the backfills that wait between two scroll steps          *)
(*   policy       the server's capture policy                               *)
(*   cached       the configuration document the worker keeps, in memory    *)
(*                and in chrome.storage (they hold the same document)       *)
(*   taken        what the worker took in the last step: the message, the   *)
(*                conversation it was reported under and who reported it    *)
(*   misread      history: what the live observer read under the address    *)
(*                of the conversation just opened, while the transcript of  *)
(*                the one left was still in the document                    *)
(*                                                                         *)
(* A configuration is "open" when it makes verifyWorkspace and              *)
(* captureAllowed succeed and "closed" when it does not (gates, kill        *)
(* switch, the anonymous document without workspace rules, or null).  A     *)
(* report and the worker's answer are one step, and the runtime message may *)
(* be lost in either direction: a live report ignores its answer.           *)
(* A message has a source id; payload statuses and the capture             *)
(* completeness of a backfill are not recorded.  MaxMoves bounds what the   *)
(* employee does (navigations, hidings, archive requests) and MaxFlips the  *)
(* changes of the policy and the configuration messages that fail.          *)
(***************************************************************************)
EXTENDS Integers, FiniteSets

CONSTANTS Conv, NoConv, Msg, Home, MaxText, Job, Top, MaxScrolls,
          MaxMoves, MaxFlips

ASSUME CaptureAssumption ==
    /\ NoConv \notin Conv
    /\ Home \in [Msg -> Conv]
    /\ {MaxText, Top, MaxScrolls, MaxMoves, MaxFlips} \subseteq Nat

VARIABLES url, shown, turn, visible, pos, tab, obs, job, policy, cached,
          taken, misread, moves, flips

page    == <<url, shown, turn, visible>>
worker  == <<policy, cached, flips>>
tabVars == <<page, pos, tab, obs, job, worker, taken, misread, moves>>

Open     == Conv \cup {NoConv}
Config   == {"open", "closed"}
Untouched == [id |-> NoConv, tracked |-> <<>>, armed |-> FALSE]
IdleJob  == [busy |-> FALSE, conv |-> NoConv, from |-> 0, scrolls |-> 0]

TabInit ==
    /\ url \in Open /\ shown = url
    /\ turn = [m \in Msg |-> [text |-> 0, streaming |-> FALSE]]
    /\ visible = TRUE
    /\ pos = Top
    /\ tab = [active |-> FALSE, config |-> "closed",
              route |-> NoConv, backfilled |-> {}]
    /\ obs = Untouched
    /\ job = [j \in Job |-> IdleJob]
    /\ policy \in Config
    /\ cached = "closed"
    /\ taken = {} /\ misread = {}
    /\ moves = 0 /\ flips = 0

-----------------------------------------------------------------------------
(* Reports.  extractConversation reads the id from the address and the      *)
(* turns from the document.                                                 *)

Rendered == {m \in Msg : Home[m] = shown /\ turn[m].text > 0}

\* The worker's gate: captureAllowed on its configuration.
CaptureAllowed == cached = "open"

\* verifyWorkspace in the tab, on its copy.
Verified(t) == t.config = "open"

\* reportMessages: verified by the tab, sent, taken by the worker.  The
\* listener of an observer without a conversation does nothing.
Report(c, ms, ok) ==
    IF c # NoConv /\ Verified(tab) /\ ok /\ CaptureAllowed
    THEN [conv : {c}, msg : ms, via : {"live"}] ELSE {}

\* The messages a backfill extracts, under the id of the address.
Extracted(ok) ==
    IF url # NoConv /\ ok /\ CaptureAllowed
    THEN [conv : {url}, msg : Rendered, via : {"backfill"}] ELSE {}

-----------------------------------------------------------------------------
(* The live observer.                                                       *)

\* A change of the document restarts the quiet timer.
Mutation == obs' = [obs EXCEPT !.armed = tab.active]

\* flushPartial: everything tracked and not yet emitted is emitted, as it
\* was last read, and the timer is cancelled.
Unemitted == {m \in DOMAIN obs.tracked : ~obs.tracked[m].emitted}

Flushed ==
    [obs EXCEPT !.armed = FALSE,
                !.tracked = [m \in DOMAIN @ |-> [@[m] EXCEPT !.emitted = TRUE]]]

\* Mutant: emitStable without the guard.
OnRoute_Always == TRUE

\* The route guard of emitStable.
OnRoute == obs.id = NoConv \/ url = obs.id

Unchanged(m) == m \in DOMAIN obs.tracked /\ obs.tracked[m].text = turn[m].text

\* Read twice with the same text, not streaming, not emitted: emit it.
Stable == {m \in Rendered : /\ Unchanged(m) /\ ~turn[m].streaming
                            /\ ~obs.tracked[m].emitted}

Track ==
    [m \in DOMAIN obs.tracked \cup Rendered |->
        IF m \notin Rendered THEN obs.tracked[m]
        ELSE [text |-> turn[m].text, streaming |-> turn[m].streaming,
              emitted |-> Unchanged(m) /\ (obs.tracked[m].emitted \/ m \in Stable)]]

\* Mutant: only a change of the document starts the timer.
Rearm_Never(tracked) == FALSE

\* Anything not emitted and not streaming keeps the timer alive.
Rearm(tracked) ==
    \E m \in DOMAIN tracked : ~tracked[m].emitted /\ ~tracked[m].streaming

\* The address is the observer's and the document still shows another
\* conversation: extractConversation pairs the two.
Misread ==
    IF obs.id # NoConv /\ url = obs.id /\ shown # url
    THEN {obs.id} \X Rendered ELSE {}

\* The timer fires after quietMs (2 s) without a change, whether or not the
\* page has rendered the conversation it opened.
EmitStable(ok) ==
    /\ obs.armed
    /\ IF OnRoute
       THEN /\ obs' = [obs EXCEPT !.tracked = Track, !.armed = Rearm(Track)]
            /\ taken' = Report(obs.id, Stable, ok)
            /\ misread' = misread \cup Misread
       ELSE obs' = [obs EXCEPT !.armed = FALSE] /\ taken' = {} /\ UNCHANGED misread
    /\ UNCHANGED <<page, pos, tab, job, worker, moves>>

\* The tab is hidden (or its page left for the back/forward cache).
Hide(ok) ==
    /\ visible /\ moves < MaxMoves
    /\ visible' = FALSE /\ moves' = moves + 1
    /\ IF tab.active
       THEN /\ obs' = Flushed
            /\ taken' = Report(obs.id, Unemitted, ok)
       ELSE UNCHANGED obs /\ taken' = {}
    /\ UNCHANGED <<url, shown, turn, pos, tab, job, worker, misread>>

Show ==
    /\ ~visible /\ visible' = TRUE
    /\ taken' = {} /\ UNCHANGED <<url, shown, turn, pos, tab, obs, job, worker, moves, misread>>

-----------------------------------------------------------------------------
(* Backfill.  Between two awaits a backfill runs in one piece: the view is  *)
(* restored, the conversation extracted and sent in the step that ends it.  *)
(* q and t are what this step reported before and the script's variables.   *)

Done(j, c, from, q, t, ok) ==
    LET accepted == url # NoConv /\ ok /\ CaptureAllowed IN
    /\ pos' = from
    /\ taken' = q \cup Extracted(ok)
    /\ tab' = [t EXCEPT !.backfilled = IF accepted THEN @ \cup {c} ELSE @]
    /\ job' = [job EXCEPT ![j] = IdleJob]

\* Mutant: the step is not counted.
Scroll_Uncounted(j, c, from, n, q, t) ==
    /\ pos' = pos - 1
    /\ job' = [job EXCEPT ![j] = [busy |-> TRUE, conv |-> c, from |-> from, scrolls |-> n]]
    /\ taken' = q /\ tab' = t

Scroll(j, c, from, n, q, t) ==
    /\ pos' = pos - 1
    /\ job' = [job EXCEPT ![j] = [busy |-> TRUE, conv |-> c, from |-> from, scrolls |-> n + 1]]
    /\ taken' = q /\ tab' = t

LimitReached(n) == n >= MaxScrolls

\* The head of the loop, after n scroll steps.
Loop(j, c, from, n, q, t, ok) ==
    \/ (pos = 0 \/ LimitReached(n)) /\ Done(j, c, from, q, t, ok)
    \/ pos > 0 /\ ~LimitReached(n) /\ Scroll(j, c, from, n, q, t)

\* Job bounds how many backfills are under way at once.
IdleJobs == {j \in Job : ~job[j].busy}

ArchiveCurrentConversation(q, t, ok) ==
    LET j == CHOOSE j \in IdleJobs : TRUE IN
    /\ IdleJobs # {} /\ url # NoConv
    /\ \/ Done(j, url, pos, q, t, ok)      \* no scroll container
       \/ Loop(j, url, pos, 0, q, t, ok)

\* After the pause: the message or time limit or a stalled page ends it.
BackfillStep(j, ok) ==
    LET b == job[j] IN
    /\ b.busy
    /\ \/ Done(j, b.conv, b.from, {}, tab, ok)
       \/ Loop(j, b.conv, b.from, b.scrolls, {}, tab, ok)
    /\ UNCHANGED <<page, obs, worker, moves, misread>>

\* The employee presses "archive this conversation".
ArchiveNow(ok) ==
    /\ Verified(tab) /\ moves < MaxMoves /\ moves' = moves + 1
    /\ ArchiveCurrentConversation({}, tab, ok)
    /\ UNCHANGED <<page, obs, worker, misread>>

-----------------------------------------------------------------------------
(* Route and activation.                                                    *)

\* onConversationChanged: a fresh observer, and the opened conversation is
\* archived unless this tab already did.
OnConversationChanged(q, t, ok) ==
    /\ obs' = [id |-> url, tracked |-> <<>>, armed |-> TRUE]
    /\ IF url # NoConv /\ Verified(t) /\ url \notin t.backfilled
       THEN ArchiveCurrentConversation(q, t, ok)
       ELSE tab' = t /\ taken' = q /\ UNCHANGED <<job, pos>>

\* RouteObserver.check, from a patched history call, popstate or the poll.
RouteCheck(ok) ==
    /\ tab.active /\ tab.route # url
    /\ OnConversationChanged(Report(obs.id, Unemitted, ok),
                             [tab EXCEPT !.route = url], ok)
    /\ UNCHANGED <<page, worker, moves, misread>>

\* Mutant: a broadcast configuration is stored, and the tab stays parked.
TryActivate_Never(t, ok) == tab' = t /\ UNCHANGED <<obs, job, pos>> /\ taken' = {}

TryActivate(t, ok) ==
    IF t.active \/ ~Verified(t)
    THEN tab' = t /\ UNCHANGED <<obs, job, pos>> /\ taken' = {}
    ELSE OnConversationChanged({}, [t EXCEPT !.active = TRUE, !.route = url], ok)

\* The answer to CONTENT_READY at bootstrap, or to the GET_CONFIG that a
\* broadcast REFRESH_CONFIG makes the tab send.
ReceiveConfig(ok) ==
    /\ tab.config # cached
    /\ TryActivate([tab EXCEPT !.config = cached], ok)
    /\ UNCHANGED <<page, worker, moves, misread>>

\* That message fails (the worker is being stopped, or answers without a
\* document): config becomes null.  An active tab stays active.
LoseConfig ==
    /\ Verified(tab) /\ flips < MaxFlips /\ flips' = flips + 1
    /\ tab' = [tab EXCEPT !.config = "closed"]
    /\ taken' = {} /\ UNCHANGED <<page, pos, obs, job, policy, cached, misread, moves>>

-----------------------------------------------------------------------------
(* The worker's configuration.                                              *)

\* Mutant: a document with the gates closed is taken for an unusable one.
LoadConfig_OpenOnly ==
    /\ policy = "open" /\ cached # policy /\ cached' = policy
    /\ taken' = {} /\ UNCHANGED <<page, pos, tab, obs, job, policy, flips, moves, misread>>

\* loadConfig gets an answer.  When the request fails the cached document
\* stays, and stays in use.
LoadConfig ==
    /\ cached # policy /\ cached' = policy
    /\ taken' = {} /\ UNCHANGED <<page, pos, tab, obs, job, policy, flips, moves, misread>>

SetPolicy ==
    /\ flips < MaxFlips /\ flips' = flips + 1
    /\ policy' = IF policy = "open" THEN "closed" ELSE "open"
    /\ taken' = {} /\ UNCHANGED <<page, pos, tab, obs, job, cached, moves, misread>>

-----------------------------------------------------------------------------
(* The page.                                                                *)

\* A message appears, streams on, or is regenerated.
Change(m, streaming) ==
    /\ Home[m] = shown /\ turn[m].text < MaxText
    /\ turn' = [turn EXCEPT ![m] = [text |-> @.text + 1, streaming |-> streaming]]
    /\ Mutation
    /\ taken' = {} /\ UNCHANGED <<url, shown, visible, pos, tab, job, worker, moves, misread>>

StreamEnds(m) ==
    /\ Home[m] = shown /\ turn[m].streaming
    /\ turn' = [turn EXCEPT ![m].streaming = FALSE]
    /\ Mutation
    /\ taken' = {} /\ UNCHANGED <<url, shown, visible, pos, tab, job, worker, moves, misread>>

Navigate(c) ==
    /\ c # url /\ moves < MaxMoves
    /\ url' = c /\ moves' = moves + 1
    /\ taken' = {} /\ UNCHANGED <<shown, turn, visible, pos, tab, obs, job, worker, misread>>

\* A conversation opens at its end; one that fits the window has no scroll
\* container.
Render ==
    /\ shown # url /\ shown' = url /\ pos' = Top
    /\ Mutation
    /\ taken' = {} /\ UNCHANGED <<url, turn, visible, tab, job, worker, moves, misread>>

\* Older turns are mounted above the view while it is being scrolled up.
Mount ==
    /\ pos < Top /\ \E j \in Job : job[j].busy
    /\ pos' = pos + 1
    /\ Mutation
    /\ taken' = {} /\ UNCHANGED <<page, tab, job, worker, moves, misread>>

TabNext ==
    \/ \E m \in Msg : (\E s \in BOOLEAN : Change(m, s)) \/ StreamEnds(m)
    \/ \E c \in Open : Navigate(c)
    \/ Render \/ Mount \/ Show
    \/ \E ok \in BOOLEAN : EmitStable(ok) \/ Hide(ok) \/ RouteCheck(ok)
    \/ \E ok \in BOOLEAN : ReceiveConfig(ok) \/ ArchiveNow(ok)
    \/ LoseConfig
    \/ \E j \in Job, ok \in BOOLEAN : BackfillStep(j, ok)
    \/ LoadConfig \/ SetPolicy

TabSpec == TabInit /\ [][TabNext]_tabVars

\* The page renders what it opens and its streams end; the browser runs the
\* tab's timers, the worker's configuration alarm and the message that
\* follows it, and these get through when nothing is broken any more.
Fairness ==
    /\ WF_tabVars(Render)
    /\ \A m \in Msg : WF_tabVars(StreamEnds(m))
    /\ WF_tabVars(EmitStable(TRUE)) /\ WF_tabVars(RouteCheck(TRUE))
    /\ \A j \in Job : WF_tabVars(BackfillStep(j, TRUE))
    /\ WF_tabVars(LoadConfig)
    /\ WF_tabVars(ReceiveConfig(TRUE))

TabFairSpec == TabSpec /\ Fairness

-----------------------------------------------------------------------------
(* Properties.                                                              *)

Reports == [conv : Conv, msg : Msg, via : {"live", "backfill"}]

\* The variables keep their shapes.
TabTypeOK ==
    /\ {url, shown, tab.route, obs.id} \subseteq Open
    /\ turn \in [Msg -> [text : 0..MaxText, streaming : BOOLEAN]]
    /\ visible \in BOOLEAN /\ pos \in 0..Top
    /\ tab.active \in BOOLEAN
    /\ {tab.config, cached, policy} \subseteq Config
    /\ tab.backfilled \subseteq Conv
    /\ DOMAIN obs.tracked \subseteq Msg /\ obs.armed \in BOOLEAN
    /\ \A j \in Job : job[j] \in [busy : BOOLEAN, conv : Open, from : 0..Top,
                                  scrolls : 0..MaxScrolls]
    /\ taken \subseteq Reports /\ misread \subseteq Conv \X Msg
    /\ moves \in 0..MaxMoves /\ flips \in 0..MaxFlips

\* What the live observer reports, stable or flushed on a route change or a
\* hidden tab, goes under the conversation it was said in, however late the
\* route observer notices that another one was opened.  The one way around
\* the route guard is a page still not rendered quietMs after its address
\* changed: emitStable then reads the old transcript under the new address.
LiveOwnConversation ==
    \A r \in taken : r.via = "live" =>
        Home[r.msg] = r.conv \/ <<r.conv, r.msg>> \in misread

\* m stands on the screen with the text t: its conversation is open, rendered
\* and watched in a visible tab, and m does not stream.
Settled(m, t) ==
    /\ tab.active /\ visible
    /\ {obs.id, shown, url} = {Home[m]}
    /\ turn[m] = [text |-> t, streaming |-> FALSE]

Emitted(m, t) ==
    m \in DOMAIN obs.tracked /\ obs.tracked[m].text = t /\ obs.tracked[m].emitted

\* A settled text that the observer sees appear, while its timer runs, is
\* emitted unless it changes, or the employee leaves or hides the page.
SettledIsEmitted ==
    \A m \in Msg, t \in 1..MaxText :
        Settled(m, t) /\ obs.armed ~> Emitted(m, t) \/ ~Settled(m, t)

\* A tab parked without rules comes alive once the server opens capture for
\* good, without a reload.
ParkedTabRevives == <>[](policy = "open") => <>tab.active

\* Once the server has closed capture for good, the worker and the tab both
\* refuse in the end, whatever they had cached.
PauseReaches == <>[](policy = "closed") => <>[](~CaptureAllowed /\ ~Verified(tab))

\* Every backfill ends, though the page keeps mounting older turns and other
\* backfills move the same transcript.
BackfillEnds == \A j \in Job : job[j].busy ~> ~job[j].busy

=============================================================================
