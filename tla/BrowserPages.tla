----------------------------- MODULE BrowserPages -----------------------------
(***************************************************************************)
(* The tabs of the user's Chrome: ChromeCdpManager's connection and         *)
(* WuzzufAdapter's pages.  Calls of one process overlap at every await:     *)
(* authenticationStatus(), discover() and readJob(), startApplication(),    *)
(* openLogin(), disconnect() and close().  Chrome, a connection or a tab    *)
(* may go at any time, and a page may turn into a security check that only  *)
(* the user can pass.                                                       *)
(***************************************************************************)
EXTENDS Naturals, FiniteSets

CONSTANTS
  Tasks,               \* calls that may be in progress at once
  MaxConns, MaxPages, MaxLosses,   \* bounds
  None

ASSUME PagesAssumption ==
  /\ MaxConns \in Nat \ {0} /\ MaxPages \in Nat \ {0} /\ MaxLosses \in Nat
  /\ None \notin Tasks

VARIABLES
  conns,      \* connections asked for so far
  manager,    \* ChromeCdpManager: browser, context, connectionPromise, connectionState
  pages,      \* tabs opened so far: the connection each belongs to, open or closed, what it shows
  tasks,      \* the calls in progress
  apps,       \* WuzzufAdapter.applications, by their page
  loginPage,
  manualPage, \* manualVerificationPage
  opening,    \* openLoginPromise: the call that opens the login tab
  losses

adapterVars == <<apps, loginPage, manualPage, opening>>
pagesVars == <<conns, manager, pages, tasks, adapterVars, losses>>

Conns == 1..MaxConns
Pages == 1..MaxPages
Kinds == {"auth", "visit", "start", "login"}
Idle == [kind |-> "none", pc |-> "idle", conn |-> 0, page |-> 0]
Task == [kind : Kinds, pc : {"connecting", "opening", "loading", "loaded", "failed", "challenged",
                             "diagnosing", "awaiting"},
         conn : Conns \cup {0}, page : Pages \cup {0}]
Page == [conn : Conns, open : BOOLEAN, shows : {"blank", "site", "check"}]
Manager == [browser : Conns \cup {0}, context : Conns \cup {0}, promise : Conns \cup {0},
            state : {"connected", "disconnected", "not_connected"}]

ASSUME NoneAssumption == None \notin Page

PagesTypeOK ==
  /\ conns \in [Conns -> {"none", "pending", "alive", "dead"}]
  /\ manager \in Manager
  /\ pages \in [Pages -> Page \cup {None}]
  /\ tasks \in [Tasks -> Task \cup {Idle}]
  /\ apps \subseteq Pages
  /\ loginPage \in Pages \cup {0} /\ manualPage \in Pages \cup {0}
  /\ opening \in Tasks \cup {None}
  /\ losses \in 0..MaxLosses

PagesInit ==
  /\ conns = [c \in Conns |-> "none"]
  /\ manager = [browser |-> 0, context |-> 0, promise |-> 0, state |-> "not_connected"]
  /\ pages = [p \in Pages |-> None] /\ tasks = [t \in Tasks |-> Idle]
  /\ apps = {} /\ loginPage = 0 /\ manualPage = 0 /\ opening = None /\ losses = 0

-----------------------------------------------------------------------------
(* ChromeCdpManager *)

Live(c) == c # 0 /\ conns[c] = "alive"

\* isConnected()
Connected == Live(manager.browser) /\ manager.context # 0

Fresh(c) == conns[c] = "none" /\ \A d \in 1..(c - 1) : conns[d] # "none"

\* connect(): the context at hand, the attempt under way, or a new attempt, which forgets
\* what there was.
Connect(t, kind) ==
  \/ /\ Connected
     /\ tasks' = [tasks EXCEPT ![t] = [kind |-> kind, pc |-> "opening", conn |-> manager.context, page |-> 0]]
     /\ UNCHANGED <<conns, manager>>
  \/ /\ ~Connected /\ manager.promise # 0
     /\ tasks' = [tasks EXCEPT ![t] = [kind |-> kind, pc |-> "connecting", conn |-> manager.promise, page |-> 0]]
     /\ UNCHANGED <<conns, manager>>
  \/ \E c \in Conns :
       /\ ~Connected /\ manager.promise = 0 /\ Fresh(c)
       /\ conns' = [conns EXCEPT ![c] = "pending"]
       /\ manager' = [manager EXCEPT !.browser = 0, !.context = 0, !.promise = c]
       /\ tasks' = [tasks EXCEPT ![t] = [kind |-> kind, pc |-> "connecting", conn |-> c, page |-> 0]]

\* A call that throws before it has a page: openLogin() clears its promise, the others
\* leave nothing.
Rejected(ts) ==
  /\ tasks' = [t \in Tasks |-> IF t \in ts THEN Idle ELSE tasks[t]]
  /\ opening' = IF opening \in ts THEN None ELSE opening

Awaiting(c) == {t \in Tasks : tasks[t].pc = "connecting" /\ tasks[t].conn = c}

\* establishConnection() goes on after its await, to its end; connect()'s finally then
\* clears the promise, whichever attempt it is of by now.
Establishes(c) ==
  /\ conns[c] = "pending"
  /\ conns' = [conns EXCEPT ![c] = "alive"]
  /\ manager' = [browser |-> c, context |-> c, promise |-> 0, state |-> "connected"]
  /\ tasks' = [t \in Tasks |-> IF t \in Awaiting(c) THEN [tasks[t] EXCEPT !.pc = "opening"] ELSE tasks[t]]
  /\ UNCHANGED <<pages, adapterVars, losses>>

\* No debugging port answers.
Unavailable(c) ==
  /\ conns[c] = "pending"
  /\ conns' = [conns EXCEPT ![c] = "dead"]
  /\ manager' = [manager EXCEPT !.promise = 0, !.state = "disconnected"]
  /\ Rejected(Awaiting(c))
  /\ UNCHANGED <<pages, apps, loginPage, manualPage, losses>>

\* Chrome answers but shows no window: this.browser is set and unset in one stretch.
NoContext(c) ==
  /\ conns[c] = "pending"
  /\ conns' = [conns EXCEPT ![c] = "dead"]
  /\ manager' = [manager EXCEPT !.promise = 0, !.browser = 0, !.state = "disconnected"]
  /\ Rejected(Awaiting(c))
  /\ UNCHANGED <<pages, apps, loginPage, manualPage, losses>>

\* Mutant: the event of any connection clears the current one.
DisconnectedAny(c) ==
  [manager EXCEPT !.state = "disconnected", !.browser = 0, !.context = 0]

\* The disconnected event, ignored when another connection has taken the place.
Disconnected(c) ==
  IF manager.browser = c
  THEN [manager EXCEPT !.state = "disconnected", !.browser = 0, !.context = 0]
  ELSE manager

\* The transport of a connection ends, and for us its tabs with it.
ConnectionLost(c) ==
  /\ conns[c] = "alive" /\ losses < MaxLosses /\ losses' = losses + 1
  /\ conns' = [conns EXCEPT ![c] = "dead"]
  /\ manager' = Disconnected(c)
  /\ pages' = [p \in Pages |-> IF pages[p] # None /\ pages[p].conn = c
                               THEN [pages[p] EXCEPT !.open = FALSE] ELSE pages[p]]
  /\ UNCHANGED <<tasks, adapterVars>>

Dropped == [browser |-> 0, context |-> 0, promise |-> 0, state |-> "not_connected"]

-----------------------------------------------------------------------------
(* Pages *)

Open(p) == p # 0 /\ pages[p].open

Close(p) == IF Open(p) THEN [pages EXCEPT ![p].open = FALSE] ELSE pages

\* Mutant: the tab kept for the user is used and kept.
TakeManualKept == manualPage

\* newPage(): the tab kept for the user's check is used again first.
TakeManual == 0

\* newPage() for the calls that need one; openLogin() comes by Login.
Begin(t, kind) ==
  /\ tasks[t] = Idle /\ kind # "login"
  /\ \/ /\ Open(manualPage)
        /\ tasks' = [tasks EXCEPT ![t] = [kind |-> kind, pc |-> "loading", conn |-> 0, page |-> manualPage]]
        /\ manualPage' = TakeManual
        /\ UNCHANGED <<conns, manager>>
     \/ /\ ~Open(manualPage)
        /\ Connect(t, kind)
        /\ UNCHANGED manualPage
  /\ UNCHANGED <<pages, apps, loginPage, opening, losses>>

\* context.newPage()
OpensPage(t) ==
  /\ tasks[t].pc = "opening" /\ Live(tasks[t].conn)
  /\ \E p \in Pages :
       /\ pages[p] = None /\ \A q \in 1..(p - 1) : pages[q] # None
       /\ pages' = [pages EXCEPT ![p] = [conn |-> tasks[t].conn, open |-> TRUE, shows |-> "blank"]]
       /\ tasks' = [tasks EXCEPT ![t].pc = "loading", ![t].page = p]
  /\ UNCHANGED <<conns, manager, adapterVars, losses>>

CannotOpen(t) ==
  /\ tasks[t].pc = "opening" /\ ~Live(tasks[t].conn)
  /\ Rejected({t})
  /\ UNCHANGED <<conns, manager, pages, apps, loginPage, manualPage, losses>>

\* goto() navigates; a tab that still shows a check is left as it is.
Loads(t) ==
  /\ tasks[t].pc = "loading" /\ Open(tasks[t].page)
  /\ LET p == tasks[t].page IN
     \E shows \in {"site", "check"} :
       /\ pages[p].shows = "check" => shows = "check"
       /\ pages' = [pages EXCEPT ![p].shows = shows]
       /\ tasks' = [tasks EXCEPT ![t].pc = IF shows = "check" /\ tasks[t].kind # "login"
                                           THEN "challenged" ELSE "loaded"]
  /\ UNCHANGED <<conns, manager, adapterVars, losses>>

\* Navigation fails, is aborted, ends on another host or asks for a login.
LoadFails(t) ==
  /\ tasks[t].pc \in {"loading", "loaded"}
  /\ tasks' = [tasks EXCEPT ![t].pc = "failed"]
  /\ UNCHANGED <<conns, manager, pages, adapterVars, losses>>

\* The site replaces the page by a check while the call works on it, and the call sees it.
CheckAppears(t) ==
  /\ tasks[t].pc = "loaded" /\ tasks[t].kind \in {"visit", "start"} /\ Open(tasks[t].page)
  /\ pages' = [pages EXCEPT ![tasks[t].page].shows = "check"]
  /\ tasks' = [tasks EXCEPT ![t].pc = "challenged"]
  /\ UNCHANGED <<conns, manager, adapterVars, losses>>

\* authenticationStatus(), discover(), readJob(): the page is read and closed.
Reads(t) ==
  /\ tasks[t].pc = "loaded" /\ tasks[t].kind \in {"auth", "visit"}
  /\ pages' = Close(tasks[t].page)
  /\ tasks' = [tasks EXCEPT ![t] = Idle]
  /\ UNCHANGED <<conns, manager, adapterVars, losses>>

\* authenticationStatus() finds the check after goto() has returned: it answers
\* WUZZUF_CHALLENGE_REQUIRED and its finally closes the tab.
AuthSeesCheck(t) ==
  /\ tasks[t].pc = "loaded" /\ tasks[t].kind = "auth" /\ Open(tasks[t].page)
  /\ pages' = [pages EXCEPT ![tasks[t].page].open = FALSE, ![tasks[t].page].shows = "check"]
  /\ tasks' = [tasks EXCEPT ![t] = Idle]
  /\ UNCHANGED <<conns, manager, adapterVars, losses>>

\* startApplication(): Apply was clicked, the page becomes a session.
StartsApplication(t) ==
  /\ tasks[t].pc = "loaded" /\ tasks[t].kind = "start"
  /\ apps' = apps \cup {tasks[t].page}
  /\ tasks' = [tasks EXCEPT ![t] = Idle]
  /\ UNCHANGED <<conns, manager, pages, loginPage, manualPage, opening, losses>>

\* The catch of the three.  A tab with a check is kept for the user, in place of another that
\* may have been kept before.  startApplication() has taken its photograph of the tab by then;
\* authenticationStatus() takes none, and keeps a tab that is closed as well.
KeepsTab(t) ==
  /\ tasks[t].pc = "challenged"
  /\ tasks[t].kind = "auth" \/ (tasks[t].kind = "start" /\ Open(tasks[t].page))
  /\ manualPage' = tasks[t].page
  /\ tasks' = [tasks EXCEPT ![t] = Idle]
  /\ UNCHANGED <<conns, manager, pages, apps, loginPage, opening, losses>>

\* discover() and readJob() keep the tab first, for any call to take, and photograph it then:
\* a directory is made and a screenshot taken of a tab that others may use by now.
OffersTab(t) ==
  /\ tasks[t].pc = "challenged" /\ tasks[t].kind = "visit" /\ Open(tasks[t].page)
  /\ manualPage' = tasks[t].page
  /\ tasks' = [tasks EXCEPT ![t].pc = "diagnosing"]
  /\ UNCHANGED <<conns, manager, pages, apps, loginPage, opening, losses>>
Diagnosed(t) ==
  /\ tasks[t].pc = "diagnosing"
  /\ tasks' = [tasks EXCEPT ![t] = Idle]
  /\ UNCHANGED <<conns, manager, pages, adapterVars, losses>>

\* Any other failure: photographed by two of the three while it is theirs alone, and closed.
ClosesTab(t) ==
  /\ tasks[t].kind # "login"
  /\ \/ tasks[t].pc = "failed"
     \/ tasks[t].pc = "challenged" /\ tasks[t].kind # "auth" /\ ~Open(tasks[t].page)
  /\ pages' = Close(tasks[t].page)
  /\ tasks' = [tasks EXCEPT ![t] = Idle]
  /\ UNCHANGED <<conns, manager, adapterVars, losses>>

-----------------------------------------------------------------------------
(* openLogin() *)

\* A second call waits for the first.
LoginAwaits(t) ==
  /\ tasks[t] = Idle /\ opening # None
  /\ tasks' = [tasks EXCEPT ![t] = [kind |-> "login", pc |-> "awaiting", conn |-> 0, page |-> 0]]
  /\ UNCHANGED <<conns, manager, pages, adapterVars, losses>>
LoginAnswered(t) ==
  /\ tasks[t].pc = "awaiting" /\ opening = None
  /\ tasks' = [tasks EXCEPT ![t] = Idle]
  /\ UNCHANGED <<conns, manager, pages, adapterVars, losses>>

\* openOrReuseLogin(): the login tab, else the tab kept for the check, else a new one.
\* Reuse is one stretch but for bringToFront().
LoginReuses(t) ==
  /\ tasks[t] = Idle /\ opening = None
  /\ \/ Open(loginPage) /\ UNCHANGED <<loginPage, manualPage>>
     \/ /\ ~Open(loginPage) /\ Open(manualPage)
        /\ loginPage' = manualPage /\ manualPage' = 0
  /\ UNCHANGED <<conns, manager, pages, tasks, apps, opening, losses>>
LoginOpens(t) ==
  /\ tasks[t] = Idle /\ opening = None /\ ~Open(loginPage) /\ ~Open(manualPage)
  /\ Connect(t, "login")
  /\ opening' = t
  /\ UNCHANGED <<pages, apps, loginPage, manualPage, losses>>

\* openTab() has returned.  A login tab may show the check: it is for the user anyway.
LoginOpened(t) ==
  /\ tasks[t].pc = "loaded" /\ tasks[t].kind = "login"
  /\ loginPage' = tasks[t].page
  /\ tasks' = [tasks EXCEPT ![t] = Idle]
  /\ opening' = None
  /\ UNCHANGED <<conns, manager, pages, apps, manualPage, losses>>

\* openTab() throws: the tab stays open and nobody keeps it.
LoginFails(t) ==
  /\ tasks[t].pc = "failed" /\ tasks[t].kind = "login"
  /\ Rejected({t})
  /\ UNCHANGED <<conns, manager, pages, apps, loginPage, manualPage, losses>>

-----------------------------------------------------------------------------
(* Sessions, disconnecting, the user *)

\* cancel(), or page() finding the tab gone.
EndsApplication(p) ==
  /\ p \in apps
  /\ apps' = apps \ {p}
  /\ pages' = Close(p)
  /\ UNCHANGED <<conns, manager, tasks, loginPage, manualPage, opening, losses>>

\* disconnect() is refused while a session is open; a call in progress does not count.
Disconnects ==
  /\ apps = {}
  /\ manager' = Dropped
  /\ loginPage' = 0 /\ manualPage' = 0
  /\ UNCHANGED <<conns, pages, tasks, apps, opening, losses>>

\* close(), when the process stops.
ClosesAll ==
  /\ apps # {} /\ apps' = {}
  /\ pages' = [p \in Pages |-> IF p \in apps THEN Close(p)[p] ELSE pages[p]]
  /\ manager' = Dropped
  /\ loginPage' = 0 /\ manualPage' = 0
  /\ UNCHANGED <<conns, tasks, opening, losses>>

\* The user closes a tab.
TabCloses(p) ==
  /\ pages[p] # None /\ pages[p].open /\ losses < MaxLosses /\ losses' = losses + 1
  /\ pages' = [pages EXCEPT ![p].open = FALSE]
  /\ UNCHANGED <<conns, manager, tasks, adapterVars>>

\* The user passes the check.
CheckPassed(p) ==
  /\ pages[p] # None /\ pages[p].open /\ pages[p].shows = "check"
  /\ pages' = [pages EXCEPT ![p].shows = "site"]
  /\ UNCHANGED <<conns, manager, tasks, adapterVars, losses>>

PagesNext ==
  \/ \E c \in Conns : Establishes(c) \/ Unavailable(c) \/ NoContext(c) \/ ConnectionLost(c)
  \/ \E t \in Tasks :
       \/ \E kind \in Kinds : Begin(t, kind)
       \/ OpensPage(t) \/ CannotOpen(t) \/ Loads(t) \/ LoadFails(t) \/ CheckAppears(t)
       \/ Reads(t) \/ AuthSeesCheck(t) \/ StartsApplication(t)
       \/ KeepsTab(t) \/ OffersTab(t) \/ Diagnosed(t) \/ ClosesTab(t)
       \/ LoginAwaits(t) \/ LoginAnswered(t) \/ LoginReuses(t) \/ LoginOpens(t)
       \/ LoginOpened(t) \/ LoginFails(t)
  \/ \E p \in Pages : EndsApplication(p) \/ TabCloses(p) \/ CheckPassed(p)
  \/ Disconnects \/ ClosesAll

PagesSpec == PagesInit /\ [][PagesNext]_pagesVars

-----------------------------------------------------------------------------
(* Properties *)

\* The calls at work on a tab.  One that is "diagnosing" has failed: it takes a screenshot of
\* the tab it left, and neither navigates it nor closes it.
Working == {t \in Tasks : tasks[t].pc \in {"loading", "loaded", "failed", "challenged"}}

\* No tab serves two masters: the form of an application in progress, the tab the user
\* logs in, the tab kept for a check and the page of every call at work are different tabs,
\* so no call navigates or closes what another one works on (wuzzuf-adapter.ts newPage,
\* openOrReuseLogin, keepForManualVerification).  The screenshot of a call that left its tab
\* to the user is outside: it may show what the tab's next holder does.
OnePageOneHolder ==
  /\ \A t, u \in Working : tasks[t].page = tasks[u].page => t = u
  /\ \A t \in Working : tasks[t].page \notin apps /\ tasks[t].page \notin {loginPage, manualPage}
  /\ Open(loginPage) => loginPage # manualPage
  /\ loginPage \notin apps /\ manualPage \notin apps

\* The end of an older connection never takes the current one away: a live connection in
\* use is given up only by disconnect(), or when another attempt to connect ends
\* (chrome-cdp-manager.ts, the disconnected handler).
LiveConnectionIsKept ==
  [][\A c \in Conns :
       (Connected /\ manager.browser = c /\ manager'.browser # c) =>
         \/ conns'[c] = "dead"
         \/ manager' = Dropped
         \/ \E d \in Conns \ {c} : conns[d] = "pending" /\ conns'[d] # "pending"]_pagesVars
=============================================================================
