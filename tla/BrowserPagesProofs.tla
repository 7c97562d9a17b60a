-------------------------- MODULE BrowserPagesProofs --------------------------
(***************************************************************************)
(* Proofs about the tabs of the user's Chrome: types, who holds a tab, and  *)
(* who may give up a live connection.                                       *)
(***************************************************************************)
EXTENDS BrowserPages, TLAPS

\* A call has a tab from the moment the tab is open to the call's end.
StageInv ==
  \A t \in Tasks : tasks[t].page # 0 <=> (t \in Working \/ tasks[t].pc = "diagnosing")

\* Whoever holds a tab, the tab has been opened: a new tab has no holder yet.
HeldInv ==
  /\ \A t \in Tasks : tasks[t].page # 0 => pages[tasks[t].page] # None
  /\ \A p \in apps : pages[p] # None
  /\ loginPage # 0 => pages[loginPage] # None
  /\ manualPage # 0 => pages[manualPage] # None

\* One holder for every tab, closed or not.
HolderInv ==
  /\ OnePageOneHolder
  /\ loginPage # 0 => loginPage # manualPage

PagesInv == StageInv /\ HeldInv /\ HolderInv

-----------------------------------------------------------------------------
(* Types. *)

LEMMA Bounds == Conns \subseteq Nat \ {0} /\ Pages \subseteq Nat \ {0} /\ 0 \notin Conns /\ 0 \notin Pages
  BY PagesAssumption DEF Conns, Pages

LEMMA RowTypes ==
  ASSUME PagesTypeOK, NEW t \in Tasks
  PROVE  /\ tasks[t].page \in Pages \cup {0} /\ tasks[t].conn \in Conns \cup {0}
         /\ tasks[t].pc \in {"idle", "connecting", "opening", "loading", "loaded", "failed", "challenged",
                             "diagnosing", "awaiting"}
         /\ tasks[t] # Idle <=> tasks[t] \in Task
         /\ tasks[t] = Idle <=> tasks[t].pc = "idle"
         /\ tasks[t].kind \in Kinds \cup {"none"}
<1>1. tasks[t] \in Task \cup {Idle}
  BY DEF PagesTypeOK
<1> QED
  BY <1>1 DEF Task, Idle, Kinds

LEMMA ConnectTypes ==
  ASSUME PagesTypeOK, NEW t \in Tasks, NEW kind \in Kinds, Connect(t, kind)
  PROVE  /\ conns' \in [Conns -> {"none", "pending", "alive", "dead"}]
         /\ manager' \in Manager
         /\ tasks' \in [Tasks -> Task \cup {Idle}]
<1>1. manager \in Manager /\ manager.context \in Conns \cup {0} /\ manager.promise \in Conns \cup {0}
  BY DEF PagesTypeOK, Manager
<1>2. \A c \in Conns \cup {0}, pc \in {"opening", "connecting"} :
        [kind |-> kind, pc |-> pc, conn |-> c, page |-> 0] \in Task
  BY DEF Task
<1>3. \A c \in Conns : [manager EXCEPT !.browser = 0, !.context = 0, !.promise = c] \in Manager
  BY <1>1 DEF Manager
<1>4. CASE Connected
  <2>1. manager.context \in Conns \cup {0}
    BY <1>1
  <2>2. /\ UNCHANGED <<conns, manager>>
        /\ \E c \in Conns \cup {0}, pc \in {"opening", "connecting"} :
             tasks' = [tasks EXCEPT ![t] = [kind |-> kind, pc |-> pc, conn |-> c, page |-> 0]]
    BY <1>4, <2>1 DEF Connect
  <2> QED
    BY <1>2, <2>2 DEF PagesTypeOK
<1>5. CASE ~Connected /\ manager.promise # 0 /\ UNCHANGED <<conns, manager>>
  <2>1. \E c \in Conns \cup {0}, pc \in {"opening", "connecting"} :
          tasks' = [tasks EXCEPT ![t] = [kind |-> kind, pc |-> pc, conn |-> c, page |-> 0]]
    BY <1>1, <1>5 DEF Connect
  <2> QED
    BY <1>2, <1>5, <2>1 DEF PagesTypeOK
<1>6. CASE ~Connected /\ manager.promise = 0
  <2>1. PICK c \in Conns :
          /\ conns' = [conns EXCEPT ![c] = "pending"]
          /\ manager' = [manager EXCEPT !.browser = 0, !.context = 0, !.promise = c]
          /\ tasks' = [tasks EXCEPT ![t] = [kind |-> kind, pc |-> "connecting", conn |-> c, page |-> 0]]
    BY <1>6 DEF Connect
  <2>2. [kind |-> kind, pc |-> "connecting", conn |-> c, page |-> 0] \in Task
    BY <1>2
  <2> QED
    BY <1>3, <2>1, <2>2 DEF PagesTypeOK
<1> QED
  BY <1>4, <1>5, <1>6 DEF Connect

\* Connecting gives nobody a tab.
LEMMA ConnectHolds ==
  ASSUME PagesTypeOK, NEW t \in Tasks, NEW kind \in Kinds, Connect(t, kind)
  PROVE  /\ \A u \in Tasks \ {t} : tasks'[u] = tasks[u]
         /\ tasks'[t].page = 0 /\ tasks'[t].pc \in {"opening", "connecting"}
<1>1. \E c, pc : /\ pc \in {"opening", "connecting"}
                 /\ tasks' = [tasks EXCEPT ![t] = [kind |-> kind, pc |-> pc, conn |-> c, page |-> 0]]
  BY DEF Connect
<1> QED
  BY <1>1 DEF PagesTypeOK

LEMMA RejectedTypes ==
  ASSUME PagesTypeOK, NEW ts, Rejected(ts)
  PROVE  /\ tasks' \in [Tasks -> Task \cup {Idle}] /\ opening' \in Tasks \cup {None}
         /\ \A t \in Tasks : tasks'[t] = tasks[t] \/ tasks'[t] = Idle
  BY DEF Rejected, PagesTypeOK

LEMMA CloseTypes ==
  ASSUME PagesTypeOK, NEW p \in Pages \cup {0}, p # 0 => pages[p] # None
  PROVE  /\ Close(p) \in [Pages -> Page \cup {None}]
         /\ \A q \in Pages : pages[q] # None => Close(p)[q] # None
<1>1. CASE Open(p)
  <2>1. p \in Pages /\ pages[p] \in Page
    BY <1>1, Bounds DEF Open, PagesTypeOK
  <2>2. [pages[p] EXCEPT !.open = FALSE] \in Page
    BY <2>1 DEF Page
  <2>3. Close(p) = [pages EXCEPT ![p] = [pages[p] EXCEPT !.open = FALSE]]
    BY <1>1 DEF Close
  <2> QED
    BY <2>1, <2>2, <2>3, NoneAssumption DEF PagesTypeOK
<1>2. CASE ~Open(p)
  BY <1>2 DEF PagesTypeOK, Close
<1> QED
  BY <1>1, <1>2

\* What a tab becomes is a tab.
LEMMA PageTypes ==
  ASSUME PagesTypeOK, NEW p \in Pages, pages[p] # None, NEW row \in Page,
         pages' = [pages EXCEPT ![p] = row]
  PROVE  /\ pages' \in [Pages -> Page \cup {None}]
         /\ \A q \in Pages : pages[q] # None => pages'[q] # None
  BY NoneAssumption DEF PagesTypeOK

LEMMA RowOfPage ==
  ASSUME PagesTypeOK, NEW p \in Pages, pages[p] # None
  PROVE  /\ pages[p] \in Page
         /\ [pages[p] EXCEPT !.open = FALSE] \in Page
         /\ \A shows \in {"blank", "site", "check"} :
              /\ [pages[p] EXCEPT !.shows = shows] \in Page
              /\ [pages[p] EXCEPT !.open = FALSE, !.shows = shows] \in Page
<1>1. pages[p] \in Page
  BY DEF PagesTypeOK
<1> QED
  BY <1>1 DEF Page

\* Every call with a tab has an opened tab.
LEMMA WorkingTask ==
  ASSUME PagesTypeOK, StageInv, HeldInv, NEW t \in Tasks,
         tasks[t].pc \in {"loading", "loaded", "failed", "challenged"}
  PROVE  /\ tasks[t] \in Task /\ t \in Working
         /\ tasks[t].page \in Pages /\ pages[tasks[t].page] # None
<1>1. tasks[t].page # 0 /\ tasks[t] # Idle
  BY RowTypes DEF StageInv, Working
<1> QED
  BY <1>1, RowTypes DEF HeldInv, Working

LEMMA InitInv == PagesInit => PagesTypeOK /\ PagesInv
<1>1. PagesInit => PagesTypeOK
  BY PagesAssumption DEF PagesInit, PagesTypeOK, Manager, Idle
<1>2. PagesInit => PagesInv
  BY DEF PagesInit, PagesInv, StageInv, HeldInv, HolderInv, OnePageOneHolder, Idle, Working, Open
<1> QED
  BY <1>1, <1>2

-----------------------------------------------------------------------------
(* Steps, sorted by what they do to the calls and to the tabs. *)

\* ChromeCdpManager: no call gets or loses a tab, except that one that fails to connect ends.
ConnStep ==
  \E c \in Conns : Establishes(c) \/ Unavailable(c) \/ NoContext(c) \/ ConnectionLost(c)

\* A call that keeps the tab it has, or has none.
CallStep(t) ==
  \/ CannotOpen(t) \/ Loads(t) \/ LoadFails(t) \/ CheckAppears(t) \/ Reads(t) \/ AuthSeesCheck(t)
  \/ Diagnosed(t) \/ ClosesTab(t) \/ LoginAwaits(t) \/ LoginAnswered(t) \/ LoginOpens(t) \/ LoginFails(t)

\* A tab passes from one holder to another, or gets its first.
PassStep(t) ==
  \/ \E kind \in Kinds : Begin(t, kind)
  \/ OpensPage(t) \/ StartsApplication(t) \/ KeepsTab(t) \/ OffersTab(t) \/ LoginReuses(t) \/ LoginOpened(t)

TabStep ==
  \/ \E p \in Pages : EndsApplication(p) \/ TabCloses(p) \/ CheckPassed(p)
  \/ Disconnects \/ ClosesAll

LEMMA FourKinds ==
  ASSUME [PagesNext]_pagesVars
  PROVE  ConnStep \/ (\E t \in Tasks : CallStep(t) \/ PassStep(t)) \/ TabStep \/ UNCHANGED pagesVars
  BY DEF PagesNext, ConnStep, CallStep, PassStep, TabStep

LEMMA ConnTypes ==
  ASSUME PagesTypeOK, ConnStep
  PROVE  PagesTypeOK'
<1>1. PICK c \in Conns : Establishes(c) \/ Unavailable(c) \/ NoContext(c) \/ ConnectionLost(c)
  BY DEF ConnStep
<1>2. manager \in Manager /\ Dropped \in Manager
  BY DEF PagesTypeOK, Manager, Dropped
<1>3. CASE Establishes(c)
  <2>1. manager' \in Manager
    BY <1>3 DEF Establishes, Manager
  <2>2. \A t \in Tasks : tasks[t].pc = "connecting" => [tasks[t] EXCEPT !.pc = "opening"] \in Task
    <3>1. \A t \in Tasks : tasks[t].pc = "connecting" => tasks[t] \in Task
      BY RowTypes
    <3> QED
      BY <3>1 DEF Task
  <2>3. tasks' \in [Tasks -> Task \cup {Idle}]
    BY <1>3, <2>2 DEF Establishes, Awaiting, PagesTypeOK
  <2> QED
    BY <1>3, <2>1, <2>3 DEF Establishes, PagesTypeOK, adapterVars
<1>4. CASE Unavailable(c) \/ NoContext(c)
  <2>1. manager' \in Manager
    BY <1>2, <1>4 DEF Unavailable, NoContext, Manager
  <2>2. tasks' \in [Tasks -> Task \cup {Idle}] /\ opening' \in Tasks \cup {None}
    BY <1>4, RejectedTypes DEF Unavailable, NoContext
  <2> QED
    BY <1>4, <2>1, <2>2 DEF Unavailable, NoContext, PagesTypeOK
<1>5. CASE ConnectionLost(c)
  <2>1. manager' \in Manager
    BY <1>2, <1>5 DEF ConnectionLost, Disconnected, Manager
  <2>2. \A p \in Pages : pages[p] # None => [pages[p] EXCEPT !.open = FALSE] \in Page
    BY RowOfPage
  <2>3. pages' \in [Pages -> Page \cup {None}]
    BY <1>5, <2>2 DEF ConnectionLost, PagesTypeOK
  <2>4. losses' \in 0..MaxLosses
    BY <1>5, PagesAssumption DEF ConnectionLost, PagesTypeOK
  <2> QED
    BY <1>5, <2>1, <2>3, <2>4 DEF ConnectionLost, PagesTypeOK, adapterVars
<1> QED
  BY <1>1, <1>3, <1>4, <1>5

LEMMA CallTypes ==
  ASSUME PagesTypeOK, PagesInv, NEW t \in Tasks, CallStep(t)
  PROVE  PagesTypeOK'
<1>1. StageInv /\ HeldInv
  BY DEF PagesInv
<1>2. CASE CannotOpen(t) \/ LoginFails(t)
  <2>1. tasks' \in [Tasks -> Task \cup {Idle}] /\ opening' \in Tasks \cup {None}
    BY <1>2, RejectedTypes DEF CannotOpen, LoginFails
  <2> QED
    BY <1>2, <2>1 DEF CannotOpen, LoginFails, PagesTypeOK
<1>3. CASE Loads(t)
  <2>1. tasks[t] \in Task /\ tasks[t].page \in Pages /\ pages[tasks[t].page] # None
    BY <1>1, <1>3, WorkingTask DEF Loads
  <2>2. PICK shows \in {"site", "check"} :
          /\ pages' = [pages EXCEPT ![tasks[t].page] = [pages[tasks[t].page] EXCEPT !.shows = shows]]
          /\ tasks' = [tasks EXCEPT ![t] = [tasks[t] EXCEPT !.pc =
                         IF shows = "check" /\ tasks[t].kind # "login" THEN "challenged" ELSE "loaded"]]
    BY <1>3 DEF Loads
  <2>3. pages' \in [Pages -> Page \cup {None}]
    BY <2>1, <2>2, RowOfPage, PageTypes
  <2>4. \A pc \in {"challenged", "loaded"} : [tasks[t] EXCEPT !.pc = pc] \in Task
    BY <2>1 DEF Task
  <2>5. tasks' \in [Tasks -> Task \cup {Idle}]
    BY <2>2, <2>4 DEF PagesTypeOK
  <2> QED
    BY <1>3, <2>3, <2>5 DEF Loads, PagesTypeOK, adapterVars
<1>4. CASE LoadFails(t) \/ CheckAppears(t)
  <2>1. tasks[t] \in Task /\ tasks[t].page \in Pages /\ pages[tasks[t].page] # None
    BY <1>1, <1>4, WorkingTask DEF LoadFails, CheckAppears
  <2>2. \A pc \in {"failed", "challenged"} : [tasks[t] EXCEPT !.pc = pc] \in Task
    BY <2>1 DEF Task
  <2>3. tasks' \in [Tasks -> Task \cup {Idle}]
    BY <1>4, <2>2 DEF LoadFails, CheckAppears, PagesTypeOK
  <2>4. pages' = [pages EXCEPT ![tasks[t].page] = [pages[tasks[t].page] EXCEPT !.shows = "check"]]
          => pages' \in [Pages -> Page \cup {None}]
    BY <2>1, RowOfPage, PageTypes
  <2>5. pages' \in [Pages -> Page \cup {None}]
    BY <1>4, <2>4 DEF LoadFails, CheckAppears, PagesTypeOK
  <2> QED
    BY <1>4, <2>3, <2>5 DEF LoadFails, CheckAppears, PagesTypeOK, adapterVars
<1>5. CASE Reads(t) \/ AuthSeesCheck(t) \/ ClosesTab(t)
  <2>1. tasks[t].page \in Pages /\ pages[tasks[t].page] # None
    BY <1>1, <1>5, WorkingTask DEF Reads, AuthSeesCheck, ClosesTab
  <2>2. Close(tasks[t].page) \in [Pages -> Page \cup {None}]
    BY <2>1, CloseTypes
  <2>3. pages' = [pages EXCEPT ![tasks[t].page] =
                    [pages[tasks[t].page] EXCEPT !.open = FALSE, !.shows = "check"]]
          => pages' \in [Pages -> Page \cup {None}]
    BY <2>1, RowOfPage, PageTypes
  <2>4. CASE Reads(t) \/ ClosesTab(t)
    BY <2>2, <2>4 DEF Reads, ClosesTab, PagesTypeOK, adapterVars
  <2>5. CASE AuthSeesCheck(t)
    <3>1. pages' = [pages EXCEPT ![tasks[t].page] =
                    [pages[tasks[t].page] EXCEPT !.open = FALSE, !.shows = "check"]]
      BY <2>1, <2>5 DEF AuthSeesCheck, PagesTypeOK
    <3> QED
      BY <2>3, <2>5, <3>1 DEF AuthSeesCheck, PagesTypeOK, adapterVars
  <2> QED
    BY <1>5, <2>4, <2>5
<1>6. CASE LoginAwaits(t) \/ LoginAnswered(t) \/ Diagnosed(t)
  <2>1. [kind |-> "login", pc |-> "awaiting", conn |-> 0, page |-> 0] \in Task
    BY DEF Task, Kinds
  <2> QED
    BY <1>6, <2>1 DEF LoginAwaits, LoginAnswered, Diagnosed, PagesTypeOK, adapterVars
<1>7. CASE LoginOpens(t)
  <2>1. /\ conns' \in [Conns -> {"none", "pending", "alive", "dead"}]
        /\ manager' \in Manager /\ tasks' \in [Tasks -> Task \cup {Idle}]
    BY <1>7, ConnectTypes DEF LoginOpens, Kinds
  <2> QED
    BY <1>7, <2>1 DEF LoginOpens, PagesTypeOK
<1> QED
  BY <1>2, <1>3, <1>4, <1>5, <1>6, <1>7 DEF CallStep

LEMMA PassTypes ==
  ASSUME PagesTypeOK, PagesInv, NEW t \in Tasks, PassStep(t)
  PROVE  PagesTypeOK'
<1>1. StageInv /\ HeldInv
  BY DEF PagesInv
<1>2. ASSUME NEW kind \in Kinds, Begin(t, kind)
      PROVE  PagesTypeOK'
  <2>1. CASE Open(manualPage)
    <3>1. /\ tasks' = [tasks EXCEPT ![t] = [kind |-> kind, pc |-> "loading", conn |-> 0, page |-> manualPage]]
          /\ manualPage' = 0 /\ UNCHANGED <<conns, manager, pages, apps, loginPage, opening, losses>>
      BY <1>2, <2>1 DEF Begin, TakeManual
    <3>2. [kind |-> kind, pc |-> "loading", conn |-> 0, page |-> manualPage] \in Task
      BY DEF Task, PagesTypeOK
    <3> QED
      BY <3>1, <3>2 DEF PagesTypeOK
  <2>2. CASE ~Open(manualPage)
    <3>1. Connect(t, kind) /\ UNCHANGED <<pages, apps, loginPage, manualPage, opening, losses>>
      BY <1>2, <2>2 DEF Begin
    <3> QED
      BY <3>1, ConnectTypes DEF PagesTypeOK
  <2> QED
    BY <2>1, <2>2
<1>3. CASE OpensPage(t)
  <2>1. tasks[t] \in Task /\ tasks[t].conn \in Conns
    <3>1. tasks[t].conn \in Conns
      BY <1>3, RowTypes DEF OpensPage, Live
    <3> QED
      BY <1>3, <3>1, RowTypes DEF OpensPage
  <2>2. PICK p \in Pages :
          /\ pages' = [pages EXCEPT ![p] = [conn |-> tasks[t].conn, open |-> TRUE, shows |-> "blank"]]
          /\ tasks' = [tasks EXCEPT ![t].pc = "loading", ![t].page = p]
    BY <1>3 DEF OpensPage
  <2>3. [conn |-> tasks[t].conn, open |-> TRUE, shows |-> "blank"] \in Page
    BY <2>1 DEF Page
  <2>4. [tasks[t] EXCEPT !.pc = "loading", !.page = p] \in Task
    BY <2>1 DEF Task
  <2>5. tasks' = [tasks EXCEPT ![t] = [tasks[t] EXCEPT !.pc = "loading", !.page = p]]
    BY <2>2 DEF PagesTypeOK
  <2>6. tasks' \in [Tasks -> Task \cup {Idle}]
    BY <2>4, <2>5 DEF PagesTypeOK
  <2>7. pages' \in [Pages -> Page \cup {None}]
    BY <2>2, <2>3 DEF PagesTypeOK
  <2> QED
    BY <1>3, <2>6, <2>7 DEF OpensPage, PagesTypeOK, adapterVars
<1>4. CASE StartsApplication(t)
  BY <1>1, <1>4, WorkingTask DEF StartsApplication, PagesTypeOK
<1>5. CASE KeepsTab(t) \/ OffersTab(t)
  <2>1. tasks[t].page \in Pages /\ tasks[t] \in Task
    BY <1>1, <1>5, WorkingTask DEF KeepsTab, OffersTab
  <2>2. [tasks[t] EXCEPT !.pc = "diagnosing"] \in Task
    BY <2>1 DEF Task
  <2> QED
    BY <1>5, <2>1, <2>2 DEF KeepsTab, OffersTab, PagesTypeOK
<1>6. CASE LoginReuses(t)
  BY <1>6 DEF LoginReuses, PagesTypeOK
<1>7. CASE LoginOpened(t)
  BY <1>1, <1>7, WorkingTask DEF LoginOpened, PagesTypeOK
<1> QED
  BY <1>2, <1>3, <1>4, <1>5, <1>6, <1>7 DEF PassStep

LEMMA TabTypes ==
  ASSUME PagesTypeOK, PagesInv, TabStep
  PROVE  PagesTypeOK'
<1>1. HeldInv
  BY DEF PagesInv
<1>2. ASSUME NEW p \in Pages, EndsApplication(p)
      PROVE  PagesTypeOK'
  <2>1. pages' \in [Pages -> Page \cup {None}]
    BY <1>1, <1>2, CloseTypes DEF EndsApplication, HeldInv
  <2> QED
    BY <1>2, <2>1 DEF EndsApplication, PagesTypeOK
<1>3. ASSUME NEW p \in Pages, TabCloses(p) \/ CheckPassed(p)
      PROVE  PagesTypeOK'
  <2>1. \E row \in Page : pages' = [pages EXCEPT ![p] = row]
    BY <1>3, RowOfPage DEF TabCloses, CheckPassed
  <2>2. pages' \in [Pages -> Page \cup {None}]
    BY <2>1 DEF PagesTypeOK
  <2>3. losses' \in 0..MaxLosses
    BY <1>3, PagesAssumption DEF TabCloses, CheckPassed, PagesTypeOK
  <2> QED
    BY <1>3, <2>2, <2>3 DEF TabCloses, CheckPassed, PagesTypeOK, adapterVars
<1>4. CASE Disconnects
  BY <1>4 DEF Disconnects, Dropped, PagesTypeOK, Manager
<1>5. CASE ClosesAll
  <2>1. \A p \in apps : Close(p)[p] \in Page \cup {None}
    BY <1>1, CloseTypes DEF HeldInv, PagesTypeOK
  <2>2. pages' \in [Pages -> Page \cup {None}]
    BY <1>5, <2>1 DEF ClosesAll, PagesTypeOK
  <2> QED
    BY <1>5, <2>2 DEF ClosesAll, Dropped, PagesTypeOK, Manager
<1> QED
  BY <1>2, <1>3, <1>4, <1>5 DEF TabStep

-----------------------------------------------------------------------------
(* What a step does to the holders. *)

\* An opened tab stays in the list.
OpenedStay == \A p \in Pages : pages[p] # None => pages'[p] # None

\* Nobody gets a tab.
NoNewHolder ==
  /\ \A t \in Tasks : tasks'[t].page \in {tasks[t].page, 0}
  /\ \A t \in Working' : t \in Working /\ tasks'[t].page = tasks[t].page
  /\ apps' \subseteq apps
  /\ loginPage' \in {loginPage, 0} /\ manualPage' \in {manualPage, 0}

LEMMA HoldersKept ==
  ASSUME PagesTypeOK, StageInv, HeldInv, HolderInv, OpenedStay, NoNewHolder
  PROVE  HeldInv' /\ HolderInv'
<1>1. \A t \in Working' : /\ t \in Tasks /\ t \in Working
                         /\ tasks'[t].page = tasks[t].page /\ tasks[t].page # 0
  BY DEF NoNewHolder, StageInv, Working
<1>2. /\ loginPage' # 0 => loginPage' = loginPage
      /\ manualPage' # 0 => manualPage' = manualPage
  BY DEF NoNewHolder
<1>3. HeldInv'
  <2>1. \A t \in Tasks : tasks'[t].page # 0 => pages'[tasks'[t].page] # None
    BY RowTypes DEF NoNewHolder, HeldInv, OpenedStay
  <2>2. \A p \in apps' : pages'[p] # None
    BY DEF NoNewHolder, HeldInv, OpenedStay, PagesTypeOK
  <2>3. /\ loginPage' # 0 => pages'[loginPage'] # None
        /\ manualPage' # 0 => pages'[manualPage'] # None
    BY <1>2 DEF HeldInv, OpenedStay, PagesTypeOK
  <2> QED
    BY <2>1, <2>2, <2>3 DEF HeldInv
<1>4. loginPage' # 0 => loginPage' # manualPage'
  BY <1>2 DEF HolderInv
<1>5. OnePageOneHolder'
  <2>1. \A t, u \in Working' : tasks'[t].page = tasks'[u].page => t = u
    BY <1>1 DEF HolderInv, OnePageOneHolder
  <2>2. \A t \in Working' : tasks'[t].page \notin apps' /\ tasks'[t].page \notin {loginPage', manualPage'}
    <3>1. SUFFICES ASSUME NEW t \in Working'
                   PROVE  tasks'[t].page \notin apps' /\ tasks'[t].page \notin {loginPage', manualPage'}
      OBVIOUS
    <3>2. tasks[t].page \notin apps /\ tasks[t].page \notin {loginPage, manualPage}
      BY <1>1, <3>1 DEF HolderInv, OnePageOneHolder
    <3> QED
      BY <1>1, <1>2, <3>1, <3>2 DEF NoNewHolder
  <2>3. loginPage' \notin apps' /\ manualPage' \notin apps'
    BY <1>2, Bounds DEF HolderInv, OnePageOneHolder, NoNewHolder, PagesTypeOK
  <2>4. Open(loginPage)' => loginPage' # manualPage'
    BY <1>4 DEF Open
  <2> QED
    BY <2>1, <2>2, <2>3, <2>4 DEF OnePageOneHolder
<1> QED
  BY <1>3, <1>4, <1>5 DEF HolderInv

LEMMA ConnHolders ==
  ASSUME PagesTypeOK, StageInv, ConnStep
  PROVE  OpenedStay /\ NoNewHolder /\ StageInv'
<1>1. PICK c \in Conns : Establishes(c) \/ Unavailable(c) \/ NoContext(c) \/ ConnectionLost(c)
  BY DEF ConnStep
<1>2. CASE Establishes(c)
  <2>1. ASSUME NEW t \in Tasks
        PROVE  /\ tasks'[t].page = tasks[t].page
               /\ tasks'[t].pc # tasks[t].pc => tasks[t].pc = "connecting" /\ tasks'[t].pc = "opening"
    <3>1. CASE t \in Awaiting(c)
      <4>1. tasks'[t] = [tasks[t] EXCEPT !.pc = "opening"] /\ tasks[t].pc = "connecting"
        BY <1>2, <3>1 DEF Establishes, Awaiting
      <4>2. tasks[t] \in Task
        BY <4>1, RowTypes
      <4> QED
        BY <4>1, <4>2 DEF Task
    <3>2. CASE t \notin Awaiting(c)
      BY <1>2, <3>2 DEF Establishes
    <3> QED
      BY <3>1, <3>2
  <2> QED
    BY <1>2, <2>1 DEF Establishes, adapterVars, OpenedStay, NoNewHolder, StageInv, Working
<1>3. CASE Unavailable(c) \/ NoContext(c)
  <2>1. \A t \in Tasks : tasks'[t] = tasks[t] \/ tasks'[t] = Idle
    BY <1>3, RejectedTypes DEF Unavailable, NoContext
  <2> QED
    BY <1>3, <2>1 DEF Unavailable, NoContext, OpenedStay, NoNewHolder, StageInv, Idle, Working
<1>4. CASE ConnectionLost(c)
  <2>1. OpenedStay
    BY <1>4, RowOfPage, NoneAssumption DEF ConnectionLost, OpenedStay
  <2> QED
    BY <1>4, <2>1 DEF ConnectionLost, adapterVars, NoNewHolder, StageInv, Working
<1> QED
  BY <1>1, <1>2, <1>3, <1>4

LEMMA CallHolders ==
  ASSUME PagesTypeOK, PagesInv, NEW t \in Tasks, CallStep(t)
  PROVE  OpenedStay /\ NoNewHolder /\ StageInv'
<1>1. StageInv /\ HeldInv
  BY DEF PagesInv
<1>2. OpenedStay
  <2>1. \/ UNCHANGED pages
        \/ /\ tasks[t].pc \in {"loading", "loaded", "failed", "challenged"}
           /\ \/ pages' = Close(tasks[t].page)
              \/ \E row : pages' = [pages EXCEPT ![tasks[t].page] = row] /\
                   \/ \E shows \in {"site", "check"} : row = [pages[tasks[t].page] EXCEPT !.shows = shows]
                   \/ row = [pages[tasks[t].page] EXCEPT !.open = FALSE, !.shows = "check"]
    <3>1. CASE Loads(t)
      BY <3>1 DEF Loads
    <3>2. CASE AuthSeesCheck(t)
      <4>1. tasks[t].page \in Pages
        BY <1>1, <3>2, WorkingTask DEF AuthSeesCheck
      <4> QED
        BY <3>2, <4>1 DEF AuthSeesCheck, PagesTypeOK
    <3> QED
      BY <3>1, <3>2 DEF CallStep, CannotOpen, LoadFails, CheckAppears, Reads, Diagnosed, ClosesTab,
            LoginAwaits, LoginAnswered, LoginOpens, LoginFails
  <2>2. CASE UNCHANGED pages
    BY <2>2 DEF OpenedStay
  <2>3. CASE tasks[t].pc \in {"loading", "loaded", "failed", "challenged"} /\ ~UNCHANGED pages
    <3>1. tasks[t].page \in Pages /\ pages[tasks[t].page] # None
      BY <1>1, <2>3, WorkingTask
    <3>2. \/ pages' = Close(tasks[t].page)
          \/ \E row \in Page : pages' = [pages EXCEPT ![tasks[t].page] = row]
      BY <2>1, <2>3, <3>1, RowOfPage
    <3> QED
      BY <3>1, <3>2, CloseTypes, PageTypes DEF OpenedStay
  <2> QED
    BY <2>1, <2>2, <2>3
<1>3. /\ \A u \in Tasks \ {t} : tasks'[u] = tasks[u]
      /\ \/ /\ tasks'[t].page = 0
            /\ tasks'[t].pc \notin {"loading", "loaded", "failed", "challenged", "diagnosing"}
         \/ /\ tasks'[t].page = tasks[t].page
            /\ tasks[t].pc \in {"loading", "loaded"} /\ tasks'[t].pc \in {"loaded", "failed", "challenged"}
  <2>1. CASE CannotOpen(t) \/ LoginFails(t)
    BY <2>1 DEF CannotOpen, LoginFails, Rejected, Idle
  <2>2. CASE Loads(t) \/ LoadFails(t) \/ CheckAppears(t)
    <3>1. tasks[t] \in Task
      BY <1>1, <2>2, WorkingTask DEF Loads, LoadFails, CheckAppears
    <3>2. /\ tasks[t].pc \in {"loading", "loaded"}
          /\ \E pc \in {"loaded", "failed", "challenged"} : tasks' = [tasks EXCEPT ![t] = [tasks[t] EXCEPT !.pc = pc]]
      BY <2>2 DEF Loads, LoadFails, CheckAppears
    <3> QED
      BY <3>1, <3>2 DEF PagesTypeOK, Task
  <2>3. CASE \/ Reads(t) \/ AuthSeesCheck(t) \/ Diagnosed(t) \/ ClosesTab(t)
              \/ LoginAwaits(t) \/ LoginAnswered(t)
    BY <2>3 DEF Reads, AuthSeesCheck, Diagnosed, ClosesTab, LoginAwaits, LoginAnswered, PagesTypeOK, Idle
  <2>4. CASE LoginOpens(t)
    BY <2>4, ConnectHolds DEF LoginOpens, Kinds
  <2> QED
    BY <2>1, <2>2, <2>3, <2>4 DEF CallStep
<1>4. apps' = apps /\ loginPage' = loginPage /\ manualPage' = manualPage
  BY DEF CallStep, CannotOpen, Loads, LoadFails, CheckAppears, Reads, AuthSeesCheck, Diagnosed,
         ClosesTab, LoginAwaits, LoginAnswered, LoginOpens, LoginFails, adapterVars
<1> QED
  BY <1>1, <1>2, <1>3, <1>4 DEF NoNewHolder, StageInv, Working

LEMMA TabHolders ==
  ASSUME PagesTypeOK, PagesInv, TabStep
  PROVE  OpenedStay /\ NoNewHolder /\ StageInv'
<1>1. StageInv /\ HeldInv
  BY DEF PagesInv
<1>2. UNCHANGED tasks
  BY DEF TabStep, EndsApplication, TabCloses, CheckPassed, Disconnects, ClosesAll
<1>3. apps' \subseteq apps /\ loginPage' \in {loginPage, 0} /\ manualPage' \in {manualPage, 0}
  BY DEF TabStep, EndsApplication, TabCloses, CheckPassed, Disconnects, ClosesAll, adapterVars
<1>4. OpenedStay
  <2>1. ASSUME NEW p \in Pages, EndsApplication(p)
        PROVE  OpenedStay
    BY <1>1, <2>1, CloseTypes DEF EndsApplication, HeldInv, OpenedStay
  <2>2. ASSUME NEW p \in Pages, TabCloses(p) \/ CheckPassed(p)
        PROVE  OpenedStay
    <3>1. \E row \in Page : pages' = [pages EXCEPT ![p] = row]
      BY <2>2, RowOfPage DEF TabCloses, CheckPassed
    <3> QED
      BY <2>2, <3>1, PageTypes DEF TabCloses, CheckPassed, OpenedStay
  <2>3. CASE Disconnects
    BY <2>3 DEF Disconnects, OpenedStay
  <2>4. CASE ClosesAll
    <3>1. \A p \in apps : Close(p)[p] # None
      BY <1>1, CloseTypes DEF HeldInv, PagesTypeOK
    <3> QED
      BY <2>4, <3>1 DEF ClosesAll, OpenedStay
  <2> QED
    BY <2>1, <2>2, <2>3, <2>4 DEF TabStep
<1> QED
  BY <1>1, <1>2, <1>3, <1>4 DEF NoNewHolder, StageInv, Working

\* A tab that passes on leaves whoever held it.
LEMMA PassHolders ==
  ASSUME PagesTypeOK, PagesInv, NEW t \in Tasks, PassStep(t)
  PROVE  PagesInv'
<1>1. StageInv /\ HeldInv /\ HolderInv /\ OnePageOneHolder
  BY DEF PagesInv, HolderInv
<1>2. ASSUME NEW kind \in Kinds, Begin(t, kind)
      PROVE  PagesInv'
  <2>0. tasks[t].page = 0
    BY <1>2 DEF Begin, Idle
  <2>1. CASE Open(manualPage)
    <3>1. /\ tasks' = [tasks EXCEPT ![t] = [kind |-> kind, pc |-> "loading", conn |-> 0, page |-> manualPage]]
          /\ manualPage' = 0 /\ UNCHANGED <<pages, apps, loginPage>>
      BY <1>2, <2>1 DEF Begin, TakeManual
    <3>2. /\ tasks'[t].page = manualPage /\ tasks'[t].pc = "loading"
          /\ \A u \in Tasks \ {t} : tasks'[u] = tasks[u]
          /\ manualPage # 0
      BY <2>1, <3>1 DEF PagesTypeOK, Open
    <3>3. StageInv'
      BY <1>1, <3>2 DEF StageInv, Working
    <3>4. HeldInv'
      BY <1>1, <3>1, <3>2 DEF HeldInv
    <3>5. \A u, v \in Working' : tasks'[u].page = tasks'[v].page => u = v
      BY <1>1, <3>2 DEF OnePageOneHolder, Working
    <3>6. \A u \in Working' : tasks'[u].page \notin apps /\ tasks'[u].page \notin {loginPage, 0}
      BY <1>1, <3>2, <3>3 DEF OnePageOneHolder, Working, HolderInv, StageInv
    <3> QED
      BY <1>1, <3>1, <3>3, <3>4, <3>5, <3>6, Bounds
      DEF PagesInv, HolderInv, OnePageOneHolder, Open, PagesTypeOK
  <2>2. CASE ~Open(manualPage)
    <3>1. Connect(t, kind) /\ UNCHANGED <<pages, apps, loginPage, manualPage>>
      BY <1>2, <2>2 DEF Begin
    <3>2. OpenedStay /\ NoNewHolder /\ StageInv'
      BY <1>1, <2>0, <3>1, ConnectHolds DEF OpenedStay, NoNewHolder, StageInv, Working
    <3> QED
      BY <1>1, <3>2, HoldersKept DEF PagesInv
  <2> QED
    BY <2>1, <2>2
<1>3. CASE OpensPage(t)
  <2>1. PICK p \in Pages :
          /\ pages[p] = None
          /\ pages' = [pages EXCEPT ![p] = [conn |-> tasks[t].conn, open |-> TRUE, shows |-> "blank"]]
          /\ tasks' = [tasks EXCEPT ![t].pc = "loading", ![t].page = p]
    BY <1>3 DEF OpensPage
  <2>2. tasks[t] \in Task /\ tasks[t].page = 0 /\ tasks[t].conn \in Conns
    <3>1. tasks[t].conn \in Conns
      BY <1>3, RowTypes DEF OpensPage, Live
    <3>2. tasks[t].page = 0
      BY <1>1, <1>3 DEF OpensPage, StageInv, Working
    <3>3. tasks[t] \in Task
      BY <1>3, RowTypes DEF OpensPage
    <3> QED
      BY <3>1, <3>2, <3>3
  <2>3. [conn |-> tasks[t].conn, open |-> TRUE, shows |-> "blank"] # None
    <3>1. [conn |-> tasks[t].conn, open |-> TRUE, shows |-> "blank"] \in Page
      BY <2>2 DEF Page
    <3> QED
      BY <3>1, NoneAssumption
  <2>4. OpenedStay /\ pages'[p] # None
    BY <2>1, <2>3 DEF OpenedStay, PagesTypeOK
  <2>5. /\ tasks'[t].page = p /\ tasks'[t].pc = "loading" /\ p # 0
        /\ \A u \in Tasks \ {t} : tasks'[u] = tasks[u]
    BY <2>1, <2>2, Bounds DEF PagesTypeOK, Task
  <2>6. UNCHANGED <<apps, loginPage, manualPage>>
    BY <1>3 DEF OpensPage, adapterVars
  <2>7. \A u \in Tasks : tasks[u].page # p
    BY <1>1, <2>1, <2>5 DEF HeldInv
  <2>8. p \notin apps /\ p # loginPage /\ p # manualPage
    BY <1>1, <2>1, <2>5 DEF HeldInv
  <2>9. StageInv'
    BY <1>1, <2>5 DEF StageInv, Working
  <2>10. HeldInv'
    <3>1. \A u \in Tasks : tasks'[u].page # 0 => pages'[tasks'[u].page] # None
      <4>1. SUFFICES ASSUME NEW u \in Tasks, u # t, tasks[u].page # 0
                     PROVE  pages'[tasks[u].page] # None
        BY <2>4, <2>5
      <4> QED
        BY <1>1, <2>4, <4>1, RowTypes DEF HeldInv, OpenedStay
    <3> QED
      BY <1>1, <2>4, <2>6, <3>1 DEF HeldInv, OpenedStay, PagesTypeOK
  <2>11. \A u, v \in Working' : tasks'[u].page = tasks'[v].page => u = v
    BY <1>1, <2>5, <2>7 DEF OnePageOneHolder, Working
  <2>12. \A u \in Working' : tasks'[u].page \notin apps /\ tasks'[u].page \notin {loginPage, manualPage}
    BY <1>1, <2>5, <2>8 DEF OnePageOneHolder, Working
  <2> QED
    BY <1>1, <2>6, <2>9, <2>10, <2>11, <2>12 DEF PagesInv, HolderInv, OnePageOneHolder, Open
<1>4. CASE StartsApplication(t)
  <2>1. tasks[t].page \in Pages /\ pages[tasks[t].page] # None /\ t \in Working
    BY <1>1, <1>4, WorkingTask DEF StartsApplication
  <2>2. /\ tasks'[t].page = 0 /\ tasks'[t].pc = "idle"
        /\ \A u \in Tasks \ {t} : tasks'[u] = tasks[u]
        /\ apps' = apps \cup {tasks[t].page}
        /\ UNCHANGED <<pages, loginPage, manualPage>>
    BY <1>4 DEF StartsApplication, PagesTypeOK, Idle
  <2>3. StageInv' /\ HeldInv'
    BY <1>1, <2>1, <2>2 DEF StageInv, HeldInv, Working
  <2>4. \A u, v \in Working' : tasks'[u].page = tasks'[v].page => u = v
    BY <1>1, <2>2 DEF OnePageOneHolder, Working
  <2>5. \A u \in Working' : tasks'[u].page \notin apps' /\ tasks'[u].page \notin {loginPage, manualPage}
    <3>1. SUFFICES ASSUME NEW u \in Tasks, u # t, u \in Working
                   PROVE  tasks[u].page \notin apps' /\ tasks[u].page \notin {loginPage, manualPage}
      BY <2>2 DEF Working
    <3> QED
      BY <1>1, <2>1, <2>2, <3>1 DEF OnePageOneHolder
  <2>6. loginPage \notin apps' /\ manualPage \notin apps'
    BY <1>1, <2>1, <2>2 DEF OnePageOneHolder
  <2> QED
    BY <1>1, <2>2, <2>3, <2>4, <2>5, <2>6 DEF PagesInv, HolderInv, OnePageOneHolder, Open
<1>5. CASE KeepsTab(t) \/ OffersTab(t)
  <2>1. tasks[t].page \in Pages /\ pages[tasks[t].page] # None /\ t \in Working /\ tasks[t] \in Task
    BY <1>1, <1>5, WorkingTask DEF KeepsTab, OffersTab
  <2>2. /\ \/ tasks'[t].page = 0 /\ tasks'[t].pc = "idle"
           \/ tasks'[t].page = tasks[t].page /\ tasks'[t].pc = "diagnosing"
        /\ \A u \in Tasks \ {t} : tasks'[u] = tasks[u]
        /\ UNCHANGED <<apps, loginPage, pages>> /\ manualPage' = tasks[t].page
    <3>1. CASE KeepsTab(t)
      BY <3>1 DEF KeepsTab, PagesTypeOK, Idle
    <3>2. CASE OffersTab(t)
      BY <2>1, <3>2 DEF OffersTab, PagesTypeOK, Task
    <3> QED
      BY <1>5, <3>1, <3>2
  <2>3. StageInv' /\ HeldInv'
    BY <1>1, <2>1, <2>2 DEF StageInv, HeldInv, Working
  <2>4. \A u, v \in Working' : tasks'[u].page = tasks'[v].page => u = v
    BY <1>1, <2>2 DEF OnePageOneHolder, Working
  <2>5. \A u \in Working' : tasks'[u].page \notin apps' /\ tasks'[u].page \notin {loginPage', manualPage'}
    <3>1. SUFFICES ASSUME NEW u \in Tasks, u # t, u \in Working
                   PROVE  tasks[u].page \notin apps' /\ tasks[u].page \notin {loginPage', manualPage'}
      BY <2>2 DEF Working
    <3> QED
      BY <1>1, <2>1, <2>2, <3>1 DEF OnePageOneHolder
  <2>6. loginPage' \notin apps' /\ manualPage' \notin apps' /\ loginPage' # manualPage'
    BY <1>1, <2>1, <2>2 DEF OnePageOneHolder
  <2> QED
    BY <2>3, <2>4, <2>5, <2>6 DEF PagesInv, HolderInv, OnePageOneHolder
<1>6. CASE LoginReuses(t)
  <2>1. UNCHANGED <<pages, tasks, apps>>
    BY <1>6 DEF LoginReuses
  <2>2. CASE UNCHANGED <<loginPage, manualPage>>
    BY <2>1, <2>2 DEF PagesInv, StageInv, HeldInv, HolderInv, OnePageOneHolder, Working, Open
  <2>3. CASE manualPage # 0 /\ loginPage' = manualPage /\ manualPage' = 0
    <3>1. StageInv' /\ HeldInv'
      BY <1>1, <2>1, <2>3 DEF StageInv, HeldInv, Working
    <3>2. OnePageOneHolder' /\ loginPage' # manualPage'
      BY <1>1, <2>1, <2>3, Bounds DEF OnePageOneHolder, Working, PagesTypeOK, Open, StageInv
    <3> QED
      BY <3>1, <3>2 DEF PagesInv, HolderInv
  <2> QED
    BY <1>6, <2>2, <2>3 DEF LoginReuses, Open
<1>7. CASE LoginOpened(t)
  <2>1. tasks[t].page \in Pages /\ pages[tasks[t].page] # None /\ t \in Working
    BY <1>1, <1>7, WorkingTask DEF LoginOpened
  <2>2. /\ tasks'[t].page = 0 /\ tasks'[t].pc = "idle"
        /\ \A u \in Tasks \ {t} : tasks'[u] = tasks[u]
        /\ loginPage' = tasks[t].page
        /\ UNCHANGED <<pages, apps, manualPage>>
    BY <1>7 DEF LoginOpened, PagesTypeOK, Idle
  <2>3. StageInv' /\ HeldInv'
    BY <1>1, <2>1, <2>2 DEF StageInv, HeldInv, Working
  <2>4. \A u, v \in Working' : tasks'[u].page = tasks'[v].page => u = v
    BY <1>1, <2>2 DEF OnePageOneHolder, Working
  <2>5. \A u \in Working' : tasks'[u].page \notin apps /\ tasks'[u].page \notin {loginPage', manualPage}
    <3>1. SUFFICES ASSUME NEW u \in Tasks, u # t, u \in Working
                   PROVE  tasks[u].page \notin apps /\ tasks[u].page \notin {loginPage', manualPage}
      BY <2>2 DEF Working
    <3> QED
      BY <1>1, <2>1, <2>2, <3>1 DEF OnePageOneHolder
  <2>6. loginPage' \notin apps /\ manualPage \notin apps /\ loginPage' # manualPage
    BY <1>1, <2>1, <2>2 DEF OnePageOneHolder
  <2> QED
    BY <2>2, <2>3, <2>4, <2>5, <2>6 DEF PagesInv, HolderInv, OnePageOneHolder, Open
<1> QED
  BY <1>2, <1>3, <1>4, <1>5, <1>6, <1>7 DEF PassStep

LEMMA PagesStep ==
  ASSUME PagesTypeOK, PagesInv, [PagesNext]_pagesVars
  PROVE  PagesTypeOK' /\ PagesInv'
<1>1. CASE ConnStep \/ TabStep \/ \E t \in Tasks : CallStep(t)
  <2>1. OpenedStay /\ NoNewHolder /\ StageInv' /\ PagesTypeOK'
    BY <1>1, ConnHolders, ConnTypes, TabHolders, TabTypes, CallHolders, CallTypes DEF PagesInv
  <2> QED
    BY <2>1, HoldersKept DEF PagesInv
<1>2. CASE \E t \in Tasks : PassStep(t)
  BY <1>2, PassHolders, PassTypes
<1>3. CASE UNCHANGED pagesVars
  BY <1>3 DEF pagesVars, adapterVars, PagesTypeOK, PagesInv, StageInv, HeldInv, HolderInv,
              OnePageOneHolder, Working, Open
<1> QED
  BY <1>1, <1>2, <1>3, FourKinds

-----------------------------------------------------------------------------
(* The connection. *)

LEMMA ConnectionStep ==
  ASSUME PagesTypeOK, [PagesNext]_pagesVars, NEW c \in Conns,
         Connected, manager.browser = c, manager'.browser # c
  PROVE  \/ conns'[c] = "dead"
         \/ manager' = Dropped
         \/ \E d \in Conns \ {c} : conns[d] = "pending" /\ conns'[d] # "pending"
<1>1. conns[c] = "alive" /\ manager \in Manager
  BY DEF Connected, Live, PagesTypeOK
<1>2. CASE ConnStep
  <2>1. PICK d \in Conns : Establishes(d) \/ Unavailable(d) \/ NoContext(d) \/ ConnectionLost(d)
    BY <1>2 DEF ConnStep
  <2>2. CASE ConnectionLost(d)
    BY <1>1, <2>2 DEF ConnectionLost, Disconnected, PagesTypeOK
  <2>3. CASE Establishes(d) \/ Unavailable(d) \/ NoContext(d)
    <3>1. conns[d] = "pending" /\ d # c /\ conns'[d] # "pending"
      BY <1>1, <2>3 DEF Establishes, Unavailable, NoContext, PagesTypeOK
    <3> QED
      BY <3>1
  <2> QED
    BY <2>1, <2>2, <2>3
<1>3. \A t \in Tasks, kind \in Kinds : Connect(t, kind) => UNCHANGED manager
  BY DEF Connect
<1>4. ASSUME NEW t \in Tasks, CallStep(t) \/ PassStep(t)
      PROVE  UNCHANGED manager
  BY <1>3, <1>4 DEF CallStep, PassStep, CannotOpen, Loads, LoadFails, CheckAppears, Reads,
     AuthSeesCheck, Diagnosed, ClosesTab, LoginAwaits, LoginAnswered, LoginOpens, LoginFails, Begin, OpensPage,
     StartsApplication, KeepsTab, OffersTab, LoginReuses, LoginOpened, Kinds
<1>5. CASE TabStep
  BY <1>5 DEF TabStep, EndsApplication, TabCloses, CheckPassed, Disconnects, ClosesAll
<1>6. CASE UNCHANGED pagesVars
  BY <1>6 DEF pagesVars
<1> QED
  BY <1>2, <1>4, <1>5, <1>6, FourKinds

-----------------------------------------------------------------------------
(* The theorems. *)

LEMMA PagesInductive == PagesSpec => [](PagesTypeOK /\ PagesInv)
<1>1. PagesInit => PagesTypeOK /\ PagesInv
  BY InitInv
<1>2. PagesTypeOK /\ PagesInv /\ [PagesNext]_pagesVars => (PagesTypeOK /\ PagesInv)'
  BY PagesStep
<1> QED
  BY <1>1, <1>2, PTL DEF PagesSpec

\* No tab serves two masters, however many calls overlap and whatever tabs, connections and
\* checks come and go (wuzzuf-adapter.ts newPage, openOrReuseLogin,
\* keepForManualVerification).
THEOREM NoTabIsShared == PagesSpec => []OnePageOneHolder
<1>1. PagesInv => OnePageOneHolder
  BY DEF PagesInv, HolderInv
<1> QED
  BY <1>1, PagesInductive, PTL

\* The end of an older connection never takes a live one away (chrome-cdp-manager.ts, the
\* disconnected handler).
THEOREM LiveConnectionsAreKept == PagesSpec => LiveConnectionIsKept
<1>1. ASSUME PagesTypeOK, [PagesNext]_pagesVars
      PROVE  [\A c \in Conns :
               (Connected /\ manager.browser = c /\ manager'.browser # c) =>
                 \/ conns'[c] = "dead"
                 \/ manager' = Dropped
                 \/ \E d \in Conns \ {c} : conns[d] = "pending" /\ conns'[d] # "pending"]_pagesVars
  BY <1>1, ConnectionStep
<1> QED
  BY <1>1, PagesInductive, PTL DEF PagesSpec, LiveConnectionIsKept
==============================================================================
