--------------------------- MODULE ApprovalsProofs ---------------------------
(* For any number of tabs, browsers, tokens and requests, and for every     *)
(* window, limit and lifetime: the session's window never refuses what the  *)
(* limiter grants, a session signed out stays so, and who approved from   *)
(* the dashboard can submit from it.                                        *)
(* The first two only concern the dashboard's own variables, and DoorStep   *)
(* says what any step of Approvals may do to them.                          *)
EXTENDS Approvals, TLAPS

\* What a step is for the dashboard: one of its own, a mutation that is served and
\* changes nothing of the dashboard's, or nothing.
Served(t) ==
  /\ Mutates(t)
  /\ UNCHANGED <<now, daemonVars, cookies, tabs, historyVars>>
DoorStep ==
  \/ SessionNext \/ NoteNext \/ Restart \/ UNCHANGED dashboardVars
  \/ \E t \in Tabs : Served(t)

LEMMA DoorSteps ==
  ASSUME [ApprovalsNext]_<<dashboardVars, approvalVars>>
  PROVE  DoorStep
<1>1. CASE UNCHANGED <<dashboardVars, approvalVars>>
  BY <1>1 DEF DoorStep
<1>2. CASE SessionNext
  BY <1>2 DEF DoorStep
<1>3. CASE NoteNext
  BY <1>3 DEF DoorStep
<1>4. CASE DaemonRestarts
  BY <1>4 DEF DaemonRestarts, DoorStep
<1>5. CASE OtherClient
  BY <1>5 DEF SessionNext, DoorStep
<1>6. CASE Pair \/ AskFromPanel \/ SubmitFromPanel
           \/ \E r \in Ids, approved \in BOOLEAN : DecideFromPanel(r, approved)
  BY <1>5, <1>6 DEF Pair, AskFromPanel, SubmitFromPanel, DecideFromPanel, FromPanel
<1>7. CASE \/ Unpair \/ Clicks
           \/ \E c \in submitting : Reserves(c) \/ Succeeds(c) \/ Fails(c) \/ FormChanges(c)
  BY <1>7 DEF Unpair, Clicks, Reserves, Succeeds, Fails, FormChanges, DoorStep
<1>8. CASE \E t \in Tabs : FromTab(t)
  BY <1>8 DEF FromTab, Served, DoorStep
<1>9. CASE \/ \E t \in Tabs : AskFromDashboard(t)
           \/ \E r \in Ids, approved \in BOOLEAN, t \in Tabs : DecideFromDashboard(t, r, approved)
           \/ \E r \in Ids, t \in Tabs : SubmitFromDashboard(t, r)
  BY <1>8, <1>9 DEF AskFromDashboard, DecideFromDashboard, SubmitFromDashboard
<1> QED
  BY <1>1, <1>2, <1>3, <1>4, <1>6, <1>7, <1>9 DEF ApprovalsNext

-----------------------------------------------------------------------------
(* Types. *)

LEMMA DoorInitTypeOK == DashboardInit => DashboardTypeOK
<1> SUFFICES ASSUME DashboardInit PROVE DashboardTypeOK
  OBVIOUS
<1> USE DashboardAssumption
<1>1. ClosedTab \in TabState
  BY DEF ClosedTab, TabState
<1>2. now \in 0..MaxTime /\ minted \in 0..MaxTokens /\ note \in Versions /\ restarts \in 0..MaxRestarts
  BY DEF DashboardInit, Versions
<1> QED
  BY <1>1, <1>2 DEF DashboardInit, DashboardTypeOK

LEMMA NextBucketType ==
  ASSUME DashboardTypeOK
  PROVE  NextBucket \in [count : 1..(RequestLimit + 1), resetAt : Times]
  BY DashboardAssumption DEF DashboardTypeOK, NextBucket, Capped, Times

LEMMA NextWindowType ==
  ASSUME DashboardTypeOK, NEW k \in Tokens
  PROVE  NextWindow(k) \in [start : Times, count : 1..(ReadLimit + 1)]
<1>1. windows[k] \in [start : Times, count : 1..(ReadLimit + 1)] \cup {None}
  BY DEF DashboardTypeOK
<1>2. now \in Times
  BY DashboardAssumption DEF DashboardTypeOK, Times
<1> QED
  BY <1>1, <1>2, DashboardAssumption DEF NextWindow, Capped

LEMMA ValidToken ==
  ASSUME DashboardTypeOK, NEW k \in Tokens \cup {0}, Valid(k)
  PROVE  k \in Tokens /\ sessions[k] \in [csrf : Tokens, expiresAt : Times]
  BY DEF Valid, DashboardTypeOK

LEMMA CountedType ==
  ASSUME DashboardTypeOK, NEW k \in Tokens \cup {0}, NEW limit, NEW refused \in BOOLEAN,
         Counted(k, limit, refused)
  PROVE  /\ windows' \in [Tokens -> [start : Times, count : 1..(ReadLimit + 1)] \cup {None}]
         /\ limited' \in BOOLEAN
  BY ValidToken, NextWindowType DEF Counted, DashboardTypeOK

LEMMA CookieType ==
  ASSUME DashboardTypeOK, NEW t \in Tabs
  PROVE  CookieOf(t) \in Tokens \cup {0} /\ BrowserOf[t] \in Browsers
  BY DashboardAssumption DEF DashboardTypeOK, CookieOf

LEMMA WireType ==
  ASSUME DashboardTypeOK, NEW t \in Tabs, wire[t] # None
  PROVE  wire[t] \in Exchange /\ wire[t].cookie \in Tokens \cup {0}
  BY DEF DashboardTypeOK, Exchange

LEMMA PutsType ==
  ASSUME DashboardTypeOK, NEW t \in Tabs, NEW x \in Exchange \cup {None}, Puts(t, x)
  PROVE  wire' \in [Tabs -> Exchange \cup {None}]
  BY DEF DashboardTypeOK, Puts

LEMMA RefusedType ==
  ASSUME DashboardTypeOK, NEW k \in Tokens \cup {0}, UNCHANGED sessions \/ Unauthenticated(k)
  PROVE  sessions' \in [Tokens -> [csrf : Tokens, expiresAt : Times] \cup {None}]
<1> DEFINE S == [csrf : Tokens, expiresAt : Times] \cup {None}
<1>1. sessions \in [Tokens -> S] /\ None \in S
  BY DEF DashboardTypeOK
<1> HIDE DEF S
<1>2. sessions' \in [Tokens -> S]
  BY <1>1 DEF Unauthenticated
<1> QED
  BY <1>2 DEF S

LEMMA DoorTypes ==
  ASSUME DashboardTypeOK, DoorStep
  PROVE  DashboardTypeOK'
<1> USE DashboardAssumption
<1>1. NextBucket \in [count : 1..(RequestLimit + 1), resetAt : Times]
  BY NextBucketType
<1>2. ASSUME NEW b \in 0..minted, Refused(b)
      PROVE  DashboardTypeOK'
  <2>1. b \in Tokens \cup {0}
    BY DEF DashboardTypeOK, Tokens
  <2>2. /\ windows' \in [Tokens -> [start : Times, count : 1..(ReadLimit + 1)] \cup {None}]
        /\ limited' \in BOOLEAN
    <3>1. \/ UNCHANGED <<windows, limited>>
          \/ \E refused \in BOOLEAN, limit \in {ReadLimit, MutationLimit} :
               Counted(b, limit, refused)
      BY <1>2 DEF Refused
    <3>2. CASE UNCHANGED <<windows, limited>>
      BY <3>2 DEF DashboardTypeOK
    <3>3. ASSUME NEW refused \in BOOLEAN, NEW limit \in {ReadLimit, MutationLimit},
                 Counted(b, limit, refused)
          PROVE  /\ windows' \in [Tokens -> [start : Times, count : 1..(ReadLimit + 1)] \cup {None}]
                 /\ limited' \in BOOLEAN
      BY <2>1, <3>3, CountedType
    <3> QED
      BY <3>1, <3>2, <3>3
  <2>3. sessions' \in [Tokens -> [csrf : Tokens, expiresAt : Times] \cup {None}]
    <3>1. UNCHANGED sessions \/ Unauthenticated(b)
      BY <1>2 DEF Refused
    <3> QED
      BY <2>1, <3>1, RefusedType
  <2> QED
    BY <1>1, <1>2, <2>2, <2>3 DEF Refused, browserVars, DashboardTypeOK
<1>3. CASE OtherClient
  BY <1>1, <1>3 DEF OtherClient, browserVars, historyVars, DashboardTypeOK
<1>4. CASE Tick
  BY <1>4 DEF Tick, daemonVars, browserVars, historyVars, DashboardTypeOK
<1>5. ASSUME NEW t \in Tabs, Login(t)
      PROVE  DashboardTypeOK'
  <2>1. minted + 1 \in Tokens /\ minted + 2 \in Tokens
    BY <1>5 DEF Login, Draw, DashboardTypeOK, Tokens
  <2>5. now + Lifetime \in Times
    BY DEF DashboardTypeOK, Times
  <2>2. sessions' \in [Tokens -> [csrf : Tokens, expiresAt : Times] \cup {None}]
    BY <1>5, <2>1, <2>5 DEF Login, DashboardTypeOK
  <2>3. wire' \in [Tabs -> Exchange \cup {None}]
    <3>1. [kind |-> "login", csrf |-> minted + 2, cookie |-> minted + 1] \in Exchange
      BY <2>1 DEF Exchange
    <3> QED
      BY <1>5, <3>1, PutsType DEF Login
  <2>4. minted' \in 0..MaxTokens
    BY <1>5 DEF Login, Draw, DashboardTypeOK
  <2> QED
    BY <1>1, <1>5, <2>2, <2>3, <2>4 DEF Login, Arrives, historyVars, DashboardTypeOK
<1>6. ASSUME NEW t \in Tabs, RestoreSession(t)
      PROVE  DashboardTypeOK'
  <2> DEFINE key == wire[t].cookie
  <2>1. key \in Tokens \cup {0}
    BY <1>6, WireType DEF RestoreSession, On
  <2>2. Valid(key) /\ Counted(key, ReadLimit, FALSE)
    BY <1>6 DEF RestoreSession, Counted
  <2>3. minted + 1 \in Tokens /\ minted' \in 0..MaxTokens
    BY <1>6 DEF RestoreSession, Draw, DashboardTypeOK, Tokens
  <2>4. sessions' \in [Tokens -> [csrf : Tokens, expiresAt : Times] \cup {None}]
    <3>1. sessions[key] \in [csrf : Tokens, expiresAt : Times]
      BY <2>1, <2>2, ValidToken
    <3>2. sessions' = [sessions EXCEPT ![key] = [sessions[key] EXCEPT !.csrf = minted + 1]]
      BY <1>6 DEF RestoreSession
    <3>3. [sessions[key] EXCEPT !.csrf = minted + 1] \in [csrf : Tokens, expiresAt : Times]
      BY <2>3, <3>1
    <3> QED
      BY <3>2, <3>3 DEF DashboardTypeOK
  <2>5. wire' \in [Tabs -> Exchange \cup {None}]
    <3>1. [kind |-> "session", csrf |-> minted + 1, cookie |-> 0] \in Exchange
      BY <2>3 DEF Exchange
    <3> QED
      BY <1>6, <3>1, PutsType DEF RestoreSession
  <2>6. /\ windows' \in [Tokens -> [start : Times, count : 1..(ReadLimit + 1)] \cup {None}]
        /\ limited' \in BOOLEAN
    BY <2>1, <2>2, CountedType
  <2> QED
    BY <1>1, <1>6, <2>3, <2>4, <2>5, <2>6 DEF RestoreSession, Arrives, DashboardTypeOK
<1>7. ASSUME NEW t \in Tabs, RestoreFails(t)
      PROVE  DashboardTypeOK'
  <2>1. wire[t].cookie \in Tokens \cup {0}
    BY <1>7, WireType DEF RestoreFails, On
  <2>2. sessions' \in [Tokens -> [csrf : Tokens, expiresAt : Times] \cup {None}]
    <3>1. UNCHANGED sessions \/ Unauthenticated(wire[t].cookie)
      BY <1>7 DEF RestoreFails
    <3> QED
      BY <2>1, <3>1, RefusedType
  <2>4. wire' \in [Tabs -> Exchange \cup {None}]
    BY <1>7, PutsType DEF RestoreFails
  <2>3. tabs' \in [Tabs -> TabState]
    <3>1. tabs[t] \in TabState /\ tabs' = [tabs EXCEPT ![t] = [tabs[t] EXCEPT !.shows = "signed-out"]]
      BY <1>7 DEF RestoreFails, DashboardTypeOK
    <3>2. [tabs[t] EXCEPT !.shows = "signed-out"] \in TabState
      BY <3>1 DEF TabState
    <3> QED
      BY <3>1, <3>2 DEF DashboardTypeOK
  <2> QED
    BY <1>1, <1>7, <2>2, <2>3, <2>4 DEF RestoreFails, historyVars, DashboardTypeOK
<1>8. ASSUME NEW t \in Tabs, Logout(t)
      PROVE  DashboardTypeOK'
  <2>1. /\ sessions' \in [Tokens -> [csrf : Tokens, expiresAt : Times] \cup {None}]
        /\ windows' \in [Tokens -> [start : Times, count : 1..(ReadLimit + 1)] \cup {None}]
    BY <1>8 DEF Logout, Forget, DashboardTypeOK
  <2>2. wire' \in [Tabs -> Exchange \cup {None}]
    <3>1. [kind |-> "logout", csrf |-> 0, cookie |-> 0] \in Exchange
      BY DEF Exchange
    <3>2. \A u \in Tabs : On(u, "begun") => [wire[u] EXCEPT !.kind = "late"] \in Exchange
      BY WireType DEF On, Exchange
    <3>3. \A u \in Tabs : wire'[u] \in Exchange \cup {None}
      BY <1>8, <3>1, <3>2 DEF Logout, DashboardTypeOK
    <3> QED
      BY <1>8, <3>3 DEF Logout
  <2>3. gone' \subseteq Tokens
    <3>1. wire[t].cookie \in Tokens
      BY <1>8, WireType DEF Logout, On, Accepted, Valid
    <3> QED
      BY <1>8, <3>1 DEF Logout, DashboardTypeOK
  <2> QED
    BY <1>1, <1>8, <2>1, <2>2, <2>3 DEF Logout, Arrives, DashboardTypeOK
<1>9. ASSUME NEW t \in Tabs, AnswerArrives(t)
      PROVE  DashboardTypeOK'
  <2>1. wire[t] \in Exchange /\ wire' \in [Tabs -> Exchange \cup {None}]
    BY <1>9, WireType, PutsType DEF AnswerArrives, On
  <2>2. cookies' \in [Browsers -> Tokens \cup {0}]
    BY <1>9, <2>1, CookieType DEF AnswerArrives, Exchange, DashboardTypeOK
  <2>3. tabs' \in [Tabs -> TabState]
    <3>1. \A tab \in TabState, csrf \in Tokens \cup {0}, shows \in {"signed-in", "signed-out"} :
            [tab EXCEPT !.csrf = csrf, !.version = None, !.base = None, !.shows = shows] \in TabState
      BY DEF TabState
    <3>2. wire[t].csrf \in Tokens \cup {0}
      BY <2>1 DEF Exchange
    <3>3. tabs[t] \in TabState
      BY DEF DashboardTypeOK
    <3>4. PICK shows \in {"signed-in", "signed-out"} :
            tabs' = [tabs EXCEPT ![t] = [tabs[t] EXCEPT !.csrf = wire[t].csrf, !.version = None,
                                           !.base = None, !.shows = shows]]
      BY <1>9 DEF AnswerArrives
    <3> QED
      BY <3>1, <3>2, <3>3, <3>4 DEF DashboardTypeOK
  <2> QED
    BY <1>9, <2>1, <2>2, <2>3 DEF AnswerArrives, daemonVars, historyVars, DashboardTypeOK
<1>10. ASSUME NEW t \in Tabs, ExchangeLost(t) \/ Reload(t)
       PROVE  DashboardTypeOK'
  <2>1. tabs' \in [Tabs -> TabState] /\ wire' \in [Tabs -> Exchange \cup {None}]
    <3>1. \A tab \in TabState, shows \in {"checking", "signed-out", "signed-in"} :
            [tab EXCEPT !.shows = shows] \in TabState
      BY DEF TabState
    <3>2. tabs[t] \in TabState /\ tabs[t].shows \in {"checking", "signed-out", "signed-in"}
      BY DEF TabState, DashboardTypeOK
    <3>3. ClosedTab \in TabState
      BY DEF ClosedTab, TabState
    <3>4. CASE ExchangeLost(t)
      BY <3>1, <3>2, <3>4, PutsType DEF ExchangeLost, DashboardTypeOK
    <3>5. CASE Reload(t)
      BY <3>3, <3>5 DEF Reload, DashboardTypeOK
    <3> QED
      BY <1>10, <3>4, <3>5
  <2> QED
    BY <1>10, <2>1 DEF ExchangeLost, Reload, daemonVars, historyVars, DashboardTypeOK
<1>11. ASSUME NEW t \in Tabs, LoadNote(t)
       PROVE  DashboardTypeOK'
  <2>1. tabs' \in [Tabs -> TabState]
    <3> DEFINE shown == [tabs[t] EXCEPT !.version = note, !.base = IF @ = None THEN note ELSE @]
    <3>1. tabs[t] \in TabState /\ note \in Versions
      BY DEF DashboardTypeOK
    <3>2. shown \in TabState
      BY <3>1 DEF TabState
    <3>3. tabs' = [tabs EXCEPT ![t] = shown]
      BY <1>11, <3>1 DEF LoadNote, TabState, DashboardTypeOK
    <3> QED
      BY <3>2, <3>3 DEF DashboardTypeOK
  <2>2. /\ windows' \in [Tokens -> [start : Times, count : 1..(ReadLimit + 1)] \cup {None}]
        /\ limited' \in BOOLEAN
    BY <1>11, CookieType, CountedType DEF LoadNote
  <2> QED
    BY <1>1, <1>11, <2>1, <2>2 DEF LoadNote, Arrives, DashboardTypeOK
<1>12. ASSUME NEW t \in Tabs, Mutates(t)
       PROVE  wire' \in [Tabs -> Exchange \cup {None}]
  BY <1>12, PutsType DEF Mutates
<1>13. ASSUME NEW t \in Tabs, SaveNote(t)
       PROVE  DashboardTypeOK'
  <2>1. note' \in Versions
    BY <1>13 DEF SaveNote, Versions, DashboardTypeOK
  <2>2. tabs' \in [Tabs -> TabState]
    <3>1. tabs[t] \in TabState /\ note + 1 \in Versions
      BY <1>13, <2>1 DEF SaveNote, DashboardTypeOK
    <3>2. [tabs[t] EXCEPT !.base = note + 1] \in TabState
      BY <3>1 DEF TabState
    <3> QED
      BY <1>13, <3>2 DEF SaveNote, DashboardTypeOK
  <2>3. lost' \in BOOLEAN
    BY <1>13 DEF SaveNote, DashboardTypeOK
  <2> QED
    BY <1>12, <1>13, <2>1, <2>2, <2>3 DEF SaveNote, DashboardTypeOK
<1>14. CASE Restart
  <2>1. wire' \in [Tabs -> Exchange \cup {None}]
    BY <1>14 DEF Restart, DashboardTypeOK
  <2> QED
    BY <1>14, <2>1 DEF Restart, historyVars, DashboardTypeOK
<1>17. ASSUME NEW t \in Tabs, Sends(t)
       PROVE  DashboardTypeOK'
  <2>1. tabs[t].csrf \in Tokens \cup {0}
    BY DEF DashboardTypeOK, TabState
  <2>2. \A kind \in {"restore", "sign-out", "mutation"} :
          [kind |-> kind, csrf |-> tabs[t].csrf, cookie |-> CookieOf(t)] \in Exchange
    BY <2>1, CookieType DEF Exchange
  <2>3. wire' \in [Tabs -> Exchange \cup {None}]
    BY <1>17, <2>2, PutsType DEF Sends
  <2> QED
    BY <1>17, <2>3 DEF Sends, daemonVars, historyVars, DashboardTypeOK
<1>18. ASSUME NEW t \in Tabs, MutationBegins(t)
       PROVE  DashboardTypeOK'
  <2>1. wire[t] \in Exchange /\ wire[t].cookie \in Tokens \cup {0}
    BY <1>18, WireType DEF MutationBegins, On
  <2>2. wire' \in [Tabs -> Exchange \cup {None}]
    <3>1. [wire[t] EXCEPT !.kind = "begun"] \in Exchange
      BY <2>1 DEF Exchange
    <3> QED
      BY <1>18, <3>1, PutsType DEF MutationBegins
  <2>3. /\ windows' \in [Tokens -> [start : Times, count : 1..(ReadLimit + 1)] \cup {None}]
        /\ limited' \in BOOLEAN
    BY <1>18, <2>1, CountedType DEF MutationBegins
  <2> QED
    BY <1>1, <1>18, <2>2, <2>3 DEF MutationBegins, Arrives, DashboardTypeOK
<1>15. CASE UNCHANGED dashboardVars
  BY <1>15 DEF dashboardVars, daemonVars, browserVars, historyVars, DashboardTypeOK
<1>16. ASSUME NEW t \in Tabs, Served(t)
       PROVE  DashboardTypeOK'
  BY <1>12, <1>16 DEF Served, daemonVars, historyVars, DashboardTypeOK
<1> QED
  BY <1>2, <1>3, <1>4, <1>5, <1>6, <1>7, <1>8, <1>9, <1>10, <1>11, <1>13, <1>14, <1>15,
     <1>16, <1>17, <1>18
  DEF DoorStep, SessionNext, NoteNext

-----------------------------------------------------------------------------
(* The limits.  A session's window overlaps at most two windows of the      *)
(* limiter: the one it began in, and the one that followed.  The requests   *)
(* it counted are among those these two granted.                            *)

\* Began in the limiter's window, which resets after it began.
SameWindow(w) == bucket.resetAt <= w.start + Window
\* Began before the limiter's window, and overlaps it.
NextOne(w) ==
  w.start + Window < bucket.resetAt /\ bucket.resetAt < w.start + 2 * Window

WithinLimits(w) ==
  /\ bucket # None
  /\ w.start <= now /\ w.start < bucket.resetAt
  /\ w.count <= 2 * RequestLimit
  /\ SameWindow(w) => w.count <= bucket.count /\ w.count <= RequestLimit
  /\ NextOne(w) => w.count <= RequestLimit + bucket.count

LimitInv ==
  /\ bucket # None => bucket.resetAt <= now + Window
  /\ \A k \in Tokens : windows[k] # None => WithinLimits(windows[k])
  /\ ~limited

\* What a step may do to the limits: a request that is granted may be counted, any
\* request and a sign-out may take a window away, and so does a restart.
LimitStep ==
  \/ UNCHANGED <<bucket, windows, limited>> /\ now' \in {now, now + 1}
  \/ /\ bucket' = NextBucket /\ UNCHANGED <<now, limited>>
     /\ \A k \in Tokens : windows'[k] \in {windows[k], None}
  \/ /\ Arrives /\ UNCHANGED now
     /\ \E k \in Tokens, limit \in {ReadLimit, MutationLimit}, refused \in BOOLEAN :
          Counted(k, limit, refused)
  \/ bucket' = None /\ UNCHANGED <<now, limited>> /\ \A k \in Tokens : windows'[k] = None

LEMMA CountedToken ==
  ASSUME DashboardTypeOK, NEW k \in Tokens \cup {0}, NEW limit, NEW refused,
         Counted(k, limit, refused)
  PROVE  k \in Tokens
  BY DEF Counted, Valid

LEMMA LimitSteps ==
  ASSUME DashboardTypeOK, DoorStep
  PROVE  LimitStep
<1>1. ASSUME NEW b \in 0..minted, Refused(b)
      PROVE  LimitStep
  <2>1. b \in Tokens \cup {0}
    BY DashboardAssumption DEF DashboardTypeOK, Tokens
  <2>2. CASE UNCHANGED <<windows, limited>>
    BY <1>1, <2>2 DEF Refused, LimitStep
  <2>3. CASE Allowed /\ \E refused \in BOOLEAN, limit \in {ReadLimit, MutationLimit} :
               Counted(b, limit, refused)
    BY <1>1, <2>1, <2>3, CountedToken DEF Refused, Arrives, LimitStep
  <2> QED
    BY <1>1, <2>2, <2>3 DEF Refused
<1>2. CASE OtherClient
  BY <1>2 DEF OtherClient, historyVars, LimitStep
<1>3. ASSUME NEW t \in Tabs, Login(t) \/ RestoreFails(t)
      PROVE  LimitStep
  BY <1>3 DEF Login, RestoreFails, Arrives, historyVars, LimitStep
<1>4. ASSUME NEW t \in Tabs, Logout(t)
      PROVE  LimitStep
  BY <1>4 DEF Logout, Arrives, Forget, LimitStep, DashboardTypeOK
<1>5. CASE Tick
  BY <1>5 DEF Tick, daemonVars, historyVars, LimitStep
<1>6. CASE Restart
  BY <1>6 DEF Restart, historyVars, LimitStep
<1>7. ASSUME NEW t \in Tabs,
             \/ AnswerArrives(t) \/ ExchangeLost(t) \/ Reload(t) \/ Sends(t)
             \/ SaveNote(t) \/ Served(t)
      PROVE  LimitStep
  BY <1>7 DEF AnswerArrives, ExchangeLost, Reload, Sends, SaveNote, Served, daemonVars,
              historyVars, LimitStep
<1>8. CASE UNCHANGED dashboardVars
  BY <1>8 DEF dashboardVars, daemonVars, historyVars, LimitStep
<1>9. ASSUME NEW k \in Tokens \cup {0}, NEW limit \in {ReadLimit, MutationLimit},
             Arrives, UNCHANGED now, Counted(k, limit, FALSE)
      PROVE  LimitStep
  BY <1>9, CountedToken DEF LimitStep
<1>10. ASSUME NEW t \in Tabs, RestoreSession(t) \/ LoadNote(t) \/ MutationBegins(t)
       PROVE  LimitStep
  <2>1. CookieOf(t) \in Tokens \cup {0}
    BY CookieType
  <2>2. wire[t] # None => wire[t].cookie \in Tokens \cup {0}
    BY WireType
  <2> QED
    BY <1>9, <1>10, <2>1, <2>2 DEF RestoreSession, LoadNote, MutationBegins, On
<1> QED
  BY <1>1, <1>2, <1>3, <1>4, <1>5, <1>6, <1>7, <1>8, <1>10 DEF DoorStep, SessionNext, NoteNext

\* The limiter's next window is the one it has, further along, or one that begins now.
LEMMA BucketMoves ==
  ASSUME DashboardTypeOK
  PROVE  \/ /\ bucket # None /\ now < bucket.resetAt
            /\ NextBucket.resetAt = bucket.resetAt
            /\ bucket.count <= NextBucket.count
            /\ Allowed => NextBucket.count = bucket.count + 1
         \/ /\ bucket # None => bucket.resetAt <= now
            /\ NextBucket = [count |-> 1, resetAt |-> now + Window]
<1>1. CASE bucket = None \/ (bucket # None /\ bucket.resetAt <= now)
  BY <1>1 DEF NextBucket
<1>2. CASE ~(bucket = None \/ (bucket # None /\ bucket.resetAt <= now))
  <2>1. bucket \in [count : 1..(RequestLimit + 1), resetAt : Times]
    BY <1>2 DEF DashboardTypeOK
  <2>2. NextBucket.resetAt = bucket.resetAt /\ NextBucket.count = Capped(bucket.count + 1, RequestLimit)
    BY <1>2, <2>1 DEF NextBucket
  <2> QED
    BY <1>2, <2>1, <2>2, DashboardAssumption DEF Allowed, Capped, DashboardTypeOK, Times
<1> QED
  BY <1>1, <1>2

LEMMA NewBucket ==
  ASSUME DashboardTypeOK
  PROVE  /\ NextBucket # None
         /\ NextBucket.count \in 1..(RequestLimit + 1) /\ NextBucket.resetAt \in Nat
         /\ bucket # None => bucket.resetAt \in Nat /\ bucket.count \in 1..(RequestLimit + 1)
  BY NextBucketType, DashboardAssumption DEF Times, DashboardTypeOK

LEMMA WindowType ==
  ASSUME DashboardTypeOK, NEW k \in Tokens, windows[k] # None
  PROVE  windows[k].start \in Nat /\ windows[k].count \in Nat
  BY DashboardAssumption DEF Times, DashboardTypeOK

LEMMA WindowStays ==
  ASSUME DashboardTypeOK, NEW w, w.start \in Nat, w.count \in Nat, WithinLimits(w),
         bucket' = NextBucket, UNCHANGED now
  PROVE  WithinLimits(w)'
<1> USE DashboardAssumption, NewBucket
<1>1. now \in Nat
  BY DEF DashboardTypeOK
<1>2. CASE NextBucket.resetAt = bucket.resetAt /\ bucket.count <= NextBucket.count
  BY <1>1, <1>2 DEF WithinLimits, SameWindow, NextOne
<1>3. CASE bucket.resetAt <= now /\ NextBucket = [count |-> 1, resetAt |-> now + Window]
  BY <1>1, <1>3 DEF WithinLimits, SameWindow, NextOne
<1> QED
  BY <1>2, <1>3, BucketMoves DEF WithinLimits

\* A granted request in a window that has not ended.
LEMMA WindowGrows ==
  ASSUME DashboardTypeOK, NEW w, w.start \in Nat, w.count \in Nat, WithinLimits(w),
         now - w.start < Window, bucket.resetAt <= now + Window, Arrives, UNCHANGED now,
         NEW v, v.start = w.start, v.count = w.count + 1
  PROVE  WithinLimits(v)' /\ v.count <= 2 * RequestLimit
<1> USE DashboardAssumption, NewBucket
<1>1. now \in Nat /\ bucket' = NextBucket /\ NextBucket.count <= RequestLimit
  BY DEF DashboardTypeOK, Arrives, Allowed
<1>2. CASE NextBucket.resetAt = bucket.resetAt /\ NextBucket.count = bucket.count + 1
  BY <1>1, <1>2 DEF WithinLimits, SameWindow, NextOne
<1>3. CASE bucket.resetAt <= now /\ NextBucket = [count |-> 1, resetAt |-> now + Window]
  BY <1>1, <1>3 DEF WithinLimits, SameWindow, NextOne
<1> QED
  BY <1>2, <1>3, BucketMoves DEF WithinLimits, Arrives

LEMMA WindowBegins ==
  ASSUME DashboardTypeOK, bucket # None => bucket.resetAt <= now + Window,
         Arrives, UNCHANGED now, NEW v, v.start = now, v.count = 1
  PROVE  WithinLimits(v)'
<1> USE DashboardAssumption, NewBucket
<1>1. now \in Nat /\ bucket' = NextBucket
  BY DEF DashboardTypeOK, Arrives
<1> QED
  BY <1>1, BucketMoves DEF WithinLimits, SameWindow, NextOne

LEMMA LimitInitially == DashboardInit => LimitInv
  BY DEF DashboardInit, LimitInv

LEMMA LimitInvStep ==
  ASSUME DashboardTypeOK, LimitInv, LimitStep
  PROVE  LimitInv'
<1>1. \A k \in Tokens : windows[k] # None => WithinLimits(windows[k])
  BY DEF LimitInv
<1>2. CASE UNCHANGED <<bucket, windows, limited>> /\ now' \in {now, now + 1}
  BY <1>2, WindowType, DashboardAssumption, NewBucket
  DEF LimitInv, WithinLimits, SameWindow, NextOne, DashboardTypeOK
<1>3. CASE bucket' = None /\ UNCHANGED <<now, limited>> /\ \A k \in Tokens : windows'[k] = None
  BY <1>3 DEF LimitInv
<1>4. ASSUME bucket' = NextBucket, UNCHANGED now
      PROVE  bucket' # None => bucket'.resetAt <= now' + Window
  BY <1>4, BucketMoves, DashboardAssumption DEF LimitInv, DashboardTypeOK
<1>5. ASSUME bucket' = NextBucket, UNCHANGED now, NEW k \in Tokens, windows'[k] # None,
             windows'[k] = windows[k]
      PROVE  \A w : w = windows'[k] => WithinLimits(w)'
  BY <1>1, <1>5, WindowType, WindowStays
<1>6. CASE /\ bucket' = NextBucket /\ UNCHANGED <<now, limited>>
           /\ \A k \in Tokens : windows'[k] \in {windows[k], None}
  BY <1>4, <1>5, <1>6 DEF LimitInv
<1>7. ASSUME NEW k \in Tokens, NEW limit \in {ReadLimit, MutationLimit}, NEW refused \in BOOLEAN,
             Arrives, UNCHANGED now, Counted(k, limit, refused)
      PROVE  LimitInv'
  <2>0. /\ RequestLimit \in Nat \ {0} /\ MutationLimit \in Nat /\ ReadLimit \in Nat /\ now \in Nat
        /\ 2 * RequestLimit <= limit /\ 2 * RequestLimit <= ReadLimit /\ limit \in Nat
    BY DashboardAssumption DEF DashboardTypeOK
  <2>1. PICK v : v = NextWindow(k)
    OBVIOUS
  <2>2. windows' = [windows EXCEPT ![k] = v] /\ refused = (v.count > limit)
    BY <1>7, <2>1 DEF Counted
  <2>3. WithinLimits(v)' /\ v.count <= 2 * RequestLimit /\ v.count \in Nat
    <3>1. CASE windows[k] = None \/ (windows[k] # None /\ now - windows[k].start >= Window)
      <4>1. v = [start |-> now, count |-> 1]
        BY <2>1, <3>1 DEF NextWindow
      <4> QED
        BY <1>7, <2>0, <4>1, WindowBegins DEF LimitInv
    <3>2. CASE windows[k] # None /\ ~(now - windows[k].start >= Window)
      <4>1. PICK w : w = windows[k]
        OBVIOUS
      <4>2. w \in [start : Times, count : 1..(ReadLimit + 1)]
        BY <3>2, <4>1 DEF DashboardTypeOK
      <4>3. w.start \in Nat /\ w.count \in Nat /\ now - w.start < Window
        BY <2>0, <3>2, <4>1, WindowType, DashboardAssumption
      <4>4. WithinLimits(w) /\ bucket.resetAt <= now + Window
        BY <1>1, <3>2, <4>1 DEF LimitInv, WithinLimits
      <4>5. v.start = w.start /\ v.count = Capped(w.count + 1, ReadLimit)
        BY <2>1, <3>2, <4>1, <4>2 DEF NextWindow
      <4>6. PICK u : u = [start |-> w.start, count |-> w.count + 1]
        OBVIOUS
      <4>7. WithinLimits(u)' /\ u.count <= 2 * RequestLimit
        BY <1>7, <4>3, <4>4, <4>6, WindowGrows
      <4>8. v.count = u.count /\ v.start = u.start /\ u.count \in Nat
        BY <2>0, <4>3, <4>5, <4>6, <4>7 DEF Capped
      <4> QED
        BY <4>7, <4>8 DEF WithinLimits, SameWindow, NextOne
    <3> QED
      BY <3>1, <3>2
  <2>4. refused = FALSE
    <3>1. ~(v.count > limit)
      BY <2>0, <2>3
    <3> QED
      BY <2>2, <3>1
  <2>5. ~limited'
    BY <1>7, <2>4 DEF Counted, LimitInv
  <2>6. bucket' = NextBucket
    BY <1>7 DEF Arrives
  <2>7. ASSUME NEW j \in Tokens, windows'[j] # None
        PROVE  \A w : w = windows'[j] => WithinLimits(w)'
    <3>1. CASE j = k
      BY <2>2, <2>3, <3>1 DEF DashboardTypeOK
    <3>2. CASE j # k
      BY <1>5, <1>7, <2>2, <2>6, <2>7, <3>2 DEF DashboardTypeOK
    <3> QED
      BY <3>1, <3>2
  <2> QED
    BY <1>4, <1>7, <2>5, <2>6, <2>7 DEF LimitInv
<1> QED
  BY <1>2, <1>3, <1>6, <1>7 DEF LimitStep

-----------------------------------------------------------------------------
(* Signing out.  A session that was signed out is gone from the daemon and  *)
(* is not begun again, as tokens are drawn once; so nothing is let in by it.*)

GoneInv ==
  /\ \A k \in Tokens : sessions[k] # None => k <= minted
  /\ \A k \in gone : sessions[k] = None /\ k <= minted
  /\ SignedOutStaysOut

\* The step begins no session, signs none out and lets no mutation in.
Idles ==
  /\ gone' = gone /\ minted <= minted'
  /\ \A k \in Tokens : sessions[k] = None => sessions'[k] = None
  /\ \A t \in Tabs : wire'[t] = wire[t] \/ ~On(t, "begun")'

LEMMA IdlingStep ==
  ASSUME DashboardTypeOK, GoneInv, Idles, minted' \in Nat
  PROVE  GoneInv'
<1>1. gone \subseteq Tokens /\ Tokens \subseteq Nat /\ minted \in Nat
  BY DashboardAssumption DEF DashboardTypeOK, Tokens
<1> QED
  BY <1>1 DEF GoneInv, Idles, SignedOutStaysOut, On

LEMMA GoneInitially == DashboardInit => GoneInv
  BY DEF DashboardInit, GoneInv, SignedOutStaysOut, On

LEMMA GoneStep ==
  ASSUME DashboardTypeOK, GoneInv, DoorStep
  PROVE  GoneInv'
<1>0. minted \in Nat /\ minted' \in Nat
  BY DoorTypes, DashboardAssumption DEF DashboardTypeOK
<1>1. ASSUME NEW k, Unauthenticated(k), k \in Tokens \cup {0}
      PROVE  \A j \in Tokens : sessions[j] = None => sessions'[j] = None
  BY <1>1 DEF Unauthenticated, DashboardTypeOK
<1>2. ASSUME NEW k \in 0..minted, Refused(k)
      PROVE  Idles
  <2>1. k \in Tokens \cup {0}
    BY DashboardAssumption DEF DashboardTypeOK, Tokens
  <2> QED
    BY <1>0, <1>1, <1>2, <2>1 DEF Refused, browserVars, Idles
<1>13. CASE UNCHANGED <<sessions, minted, wire, gone>>
  <2>1. minted' = minted => minted <= minted'
    BY <1>0
  <2> QED
    BY <1>0, <1>13, <2>1, IdlingStep DEF Idles
<1>3. CASE OtherClient \/ Tick \/ UNCHANGED dashboardVars
  BY <1>3, <1>13 DEF OtherClient, Tick, dashboardVars, daemonVars, browserVars, historyVars
<1>4. CASE Restart
  <2>1. \A t \in Tabs : wire'[t] = wire[t] \/ ~On(t, "begun")'
    BY <1>4 DEF Restart, On
  <2>2. gone' = gone /\ minted' = minted /\ \A k \in Tokens : sessions'[k] = None
    BY <1>4 DEF Restart, historyVars
  <2>3. minted <= minted'
    BY <1>0, <2>2
  <2>4. \A k \in Tokens : sessions[k] = None => sessions'[k] = None
    BY <2>2
  <2> QED
    BY <1>0, <2>1, <2>2, <2>3, <2>4, IdlingStep DEF Idles
<1>5. ASSUME NEW t \in Tabs, NEW x, Puts(t, x), x = None \/ (x # None /\ x.kind # "begun")
      PROVE  \A u \in Tabs : wire'[u] = wire[u] \/ ~On(u, "begun")'
  BY <1>5 DEF Puts, On, DashboardTypeOK
<1>6. ASSUME NEW t \in Tabs,
             AnswerArrives(t) \/ ExchangeLost(t) \/ Reload(t) \/ Sends(t)
      PROVE  Idles
  <2>1. \A u \in Tabs : wire'[u] = wire[u] \/ ~On(u, "begun")'
    BY <1>5, <1>6 DEF AnswerArrives, ExchangeLost, Reload, Sends
  <2> QED
    BY <1>0, <1>6, <2>1 DEF AnswerArrives, ExchangeLost, Reload, Sends, daemonVars, historyVars, Idles
<1>7. ASSUME NEW t \in Tabs, LoadNote(t) \/ SaveNote(t) \/ Served(t)
      PROVE  Idles
  <2>1. \A u \in Tabs : wire'[u] = wire[u] \/ ~On(u, "begun")'
    BY <1>5, <1>7 DEF LoadNote, SaveNote, Served, Mutates
  <2>2. UNCHANGED <<sessions, minted, gone>>
    BY <1>7 DEF LoadNote, SaveNote, Served, daemonVars, historyVars
  <2> QED
    BY <1>0, <2>1, <2>2 DEF Idles
<1>8. ASSUME NEW t \in Tabs, RestoreFails(t)
      PROVE  Idles
  <2>1. wire[t].cookie \in Tokens \cup {0}
    BY <1>8, WireType DEF RestoreFails, On
  <2>2. \A u \in Tabs : wire'[u] = wire[u] \/ ~On(u, "begun")'
    BY <1>5, <1>8 DEF RestoreFails
  <2> QED
    BY <1>0, <1>1, <1>8, <2>1, <2>2 DEF RestoreFails, historyVars, Idles
<1>9. ASSUME NEW t \in Tabs, RestoreSession(t)
      PROVE  Idles
  <2>1. Valid(wire[t].cookie) /\ minted' = minted + 1 /\ gone' = gone
    BY <1>9 DEF RestoreSession, Counted, Draw
  <2>2. \A k \in Tokens : sessions[k] = None => sessions'[k] = None
    BY <1>9, <2>1 DEF RestoreSession, Valid, DashboardTypeOK
  <2>3. \A u \in Tabs : wire'[u] = wire[u] \/ ~On(u, "begun")'
    <3>1. PICK x : x = [kind |-> "session", csrf |-> minted + 1, cookie |-> 0]
      OBVIOUS
    <3>2. x = None \/ (x # None /\ x.kind # "begun")
      BY <3>1
    <3> QED
      BY <1>5, <1>9, <3>1, <3>2 DEF RestoreSession
  <2> QED
    BY <1>0, <2>1, <2>2, <2>3 DEF Idles
<1>10. ASSUME NEW t \in Tabs, Login(t)
       PROVE  GoneInv'
  <2>1. minted' = minted + 2 /\ gone' = gone
    BY <1>10 DEF Login, Draw, historyVars
  <2>2. \A u \in Tabs : wire'[u] = wire[u] \/ ~On(u, "begun")'
    <3>1. PICK x : x = [kind |-> "login", csrf |-> minted + 2, cookie |-> minted + 1]
      OBVIOUS
    <3>2. x = None \/ (x # None /\ x.kind # "begun")
      BY <3>1
    <3> QED
      BY <1>5, <1>10, <3>1, <3>2 DEF Login
  <2>3. \A k \in gone : k \in Nat /\ k <= minted
    BY DEF GoneInv, DashboardTypeOK, Tokens
  <2>4. \A k \in gone : k # minted + 1 /\ k <= minted'
    BY <1>0, <2>1, <2>3
  <2>5. /\ \A k \in gone : sessions'[k] = None
        /\ \A k \in Tokens : sessions'[k] # None => sessions[k] # None \/ k = minted + 1
    BY <1>10, <2>4 DEF Login, GoneInv, DashboardTypeOK
  <2>6. \A k \in Tokens : sessions'[k] # None => k <= minted'
    BY <1>0, <2>1, <2>5 DEF GoneInv, Tokens
  <2> QED
    BY <2>1, <2>2, <2>4, <2>5, <2>6 DEF GoneInv, SignedOutStaysOut, On
<1>11. ASSUME NEW t \in Tabs, MutationBegins(t)
       PROVE  GoneInv'
  <2>1. Valid(wire[t].cookie) /\ wire[t].cookie \notin gone
    BY <1>11 DEF MutationBegins, Counted, Valid, GoneInv
  <2>2. wire' = [wire EXCEPT ![t] = [wire[t] EXCEPT !.kind = "begun"]]
    BY <1>11 DEF MutationBegins, Puts
  <2>3. wire[t] \in Exchange /\ UNCHANGED <<sessions, minted, gone>>
    BY <1>11, WireType DEF MutationBegins, On
  <2>4. wire'[t].cookie = wire[t].cookie /\ \A u \in Tabs : u # t => wire'[u] = wire[u]
    BY <2>2, <2>3 DEF Exchange, DashboardTypeOK
  <2> QED
    BY <2>1, <2>3, <2>4 DEF GoneInv, SignedOutStaysOut, On
<1>12. ASSUME NEW t \in Tabs, Logout(t)
       PROVE  GoneInv'
  <2>1. PICK key : key = wire[t].cookie
    OBVIOUS
  <2>2. key \in Tokens /\ sessions[key] # None /\ UNCHANGED minted
    BY <1>12, <2>1, WireType DEF Logout, On, Accepted, Valid
  <2>3. gone' = gone \cup {key} /\ sessions' = [sessions EXCEPT ![key] = None]
    BY <1>12, <2>1 DEF Logout, Forget
  <2>4. ASSUME NEW u \in Tabs, On(u, "begun")'
        PROVE  wire'[u] = wire[u] /\ wire[u].cookie # key
    <3>1. u # t /\ ~(On(u, "begun") /\ wire[u].cookie = key)
      <4>1. wire'[u] = IF u = t THEN [kind |-> "logout", csrf |-> 0, cookie |-> 0]
                       ELSE IF On(u, "begun") /\ wire[u].cookie = key
                         THEN [wire[u] EXCEPT !.kind = "late"] ELSE wire[u]
        BY <1>12, <2>1 DEF Logout
      <4>2. wire'[u].kind = "begun"
        BY <2>4 DEF On
      <4>3. On(u, "begun") => wire[u] \in Exchange
        BY WireType DEF On
      <4> QED
        BY <4>1, <4>2, <4>3 DEF Exchange
    <3>2. wire'[u] = wire[u]
      BY <1>12, <2>1, <3>1 DEF Logout
    <3> QED
      BY <2>4, <3>1, <3>2 DEF On
  <2>5. \A k \in gone' : sessions'[k] = None
    BY <2>2, <2>3 DEF GoneInv, DashboardTypeOK
  <2>6. /\ \A k \in gone' : k <= minted'
        /\ \A k \in Tokens : sessions'[k] # None => k <= minted'
    BY <2>2, <2>3 DEF GoneInv, DashboardTypeOK
  <2> QED
    BY <2>3, <2>4, <2>5, <2>6 DEF GoneInv, SignedOutStaysOut, On
<1> QED
  BY <1>0, <1>2, <1>3, <1>4, <1>6, <1>7, <1>8, <1>9, <1>10, <1>11, <1>12, IdlingStep
  DEF DoorStep, SessionNext, NoteNext

-----------------------------------------------------------------------------
(* Approving.  What was approved from the dashboard is not pending any more *)
(* and so is not decided again; its token leaves the daemon's memory with a *)
(* restart, when it has expired, or when the approval is used up.           *)

RequestsTypeOK ==
  /\ requests \in Seq(Request)
  /\ now \in Nat

ApproverInv ==
  /\ approvedHere \subseteq Ids
  /\ \A r \in approvedHere : requests[r].status # "pending"
  /\ ApproverCanSubmit

LEMMA ApproverInitially == ApprovalsInit => RequestsTypeOK /\ ApproverInv
  BY DEF ApprovalsInit, DashboardInit, RequestsTypeOK, ApproverInv, ApproverCanSubmit

\* What becomes of a request: its time stays, and decided it never is pending again.
LEMMA BecomesType ==
  ASSUME RequestsTypeOK, NEW r,
         NEW status \in {"approved", "rejected", "expired", "used"}, Becomes(r, status)
  PROVE  /\ requests' \in Seq(Request) /\ Ids' = Ids
         /\ \A q \in Ids : q # r => requests'[q] = requests[q]
         /\ \A q \in Ids : requests'[q].until = requests[q].until
         /\ r \in Ids => requests'[r].status = status
<1> USE DEF Ids
<1>1. \A q \in Ids : requests[q] \in Request
  BY DEF RequestsTypeOK
<1>2. requests' = [requests EXCEPT ![r].status = status]
  BY DEF Becomes
<1>3. CASE r \in Ids
  <2>1. [requests[r] EXCEPT !.status = status] \in Request
    BY <1>1, <1>3 DEF Request
  <2> QED
    BY <1>1, <1>2, <1>3, <2>1 DEF RequestsTypeOK, Request
<1>4. CASE r \notin Ids
  <2>1. DOMAIN requests' = DOMAIN requests /\ \A q \in Ids : requests'[q] = requests[q]
    BY <1>2, <1>4
  <2>2. requests' = requests
    BY <1>2, <2>1 DEF RequestsTypeOK
  <2> QED
    BY <1>4, <2>2 DEF RequestsTypeOK
<1> QED
  BY <1>3, <1>4

LEMMA SavedType ==
  ASSUME RequestsTypeOK, requests' = Saved
  PROVE  /\ requests' \in Seq(Request) /\ Ids \subseteq Ids'
         /\ \A q \in Ids : requests'[q] = requests[q]
  BY ApprovalsAssumption DEF RequestsTypeOK, Saved, Request, Ids

LEMMA TimePasses ==
  ASSUME DashboardTypeOK, DoorStep
  PROVE  now \in Nat /\ now' \in Nat /\ now <= now'
<1>1. now \in Nat
  BY DashboardAssumption DEF DashboardTypeOK
<1> QED
  BY <1>1, LimitSteps DEF LimitStep

\* Nothing is approved here in the step, and what was keeps its token.
LEMMA KeepingStep ==
  ASSUME RequestsTypeOK, ApproverInv, now <= now', now' \in Nat, approvedHere' = approvedHere,
         requests' \in Seq(Request), Ids \subseteq Ids',
         application = "submitted" => application' = "submitted",
         \A q \in approvedHere : \/ requests'[q] = requests[q] /\ (q \in held => q \in held' \/ Expired(q))
                                 \/ requests'[q].status \notin {"pending", "approved"}
  PROVE  RequestsTypeOK' /\ ApproverInv'
<1> USE DEF Ids
<1>1. RequestsTypeOK' /\ approvedHere' \subseteq Ids'
  BY DEF RequestsTypeOK, ApproverInv
<1>2. ASSUME NEW q \in approvedHere
      PROVE  /\ requests'[q].status # "pending"
             /\ application' # "submitted" =>
                  (requests'[q].status = "approved" /\ ~(requests'[q].until <= now') => q \in held')
  <2>1. q \in Ids /\ requests[q].until \in Nat
    <3>1. q \in Ids /\ requests[q] \in Request
      BY <1>2 DEF ApproverInv, RequestsTypeOK
    <3> QED
      BY <3>1 DEF Request
  <2> QED
    BY <1>2, <2>1 DEF RequestsTypeOK, ApproverInv, ApproverCanSubmit, Expired
<1> QED
  BY <1>1, <1>2 DEF ApproverInv, ApproverCanSubmit, Expired

LEMMA DecidingStep ==
  ASSUME RequestsTypeOK, NEW r \in Ids, NEW approved \in BOOLEAN, Decided(r, approved)
  PROVE  /\ requests[r].status = "pending"
         /\ requests' \in Seq(Request) /\ Ids' = Ids
         /\ \A q \in Ids : q # r => requests'[q] = requests[q]
         /\ requests'[r].status # "pending"
<1> USE DEF Ids
<1>1. PICK status \in {"approved", "rejected", "expired", "used"} : Becomes(r, status)
  BY DEF Decided
<1> QED
  BY <1>1, BecomesType DEF Decided

LEMMA ApproverStep ==
  ASSUME DashboardTypeOK, RequestsTypeOK, ApproverInv,
         [ApprovalsNext]_<<dashboardVars, approvalVars>>
  PROVE  RequestsTypeOK' /\ ApproverInv'
<1> USE DEF Ids
<1>0. now \in Nat /\ now' \in Nat /\ now <= now'
  BY DoorSteps, TimePasses
<1>1. CASE UNCHANGED approvalVars
  BY <1>0, <1>1, KeepingStep DEF approvalVars, RequestsTypeOK, ApproverInv
<1>2. CASE DaemonRestarts
  BY <1>0, <1>2 DEF DaemonRestarts, RequestsTypeOK, ApproverInv, ApproverCanSubmit
<1>3. CASE Pair \/ Unpair
  BY <1>0, <1>3, KeepingStep DEF Pair, Unpair, RequestsTypeOK, ApproverInv
<1>4. CASE requests' = Saved /\ UNCHANGED <<application, held, approvedHere>>
  BY <1>0, <1>4, SavedType, KeepingStep DEF ApproverInv
<1>5. ASSUME NEW t \in Tabs, AskFromDashboard(t)
      PROVE  RequestsTypeOK' /\ ApproverInv'
  BY <1>4, <1>5 DEF AskFromDashboard
<1>6. CASE AskFromPanel
  <2>1. CASE UNCHANGED <<application, requests, held, approvedHere>>
    BY <1>0, <2>1, KeepingStep DEF RequestsTypeOK, ApproverInv
  <2> QED
    BY <1>4, <1>6, <2>1 DEF AskFromPanel
<1>7. ASSUME NEW r \in Ids, NEW approved \in BOOLEAN, DecideFromPanel(r, approved)
      PROVE  RequestsTypeOK' /\ ApproverInv'
  <2>1. Decided(r, approved) /\ UNCHANGED <<application, held, approvedHere>>
    BY <1>7 DEF DecideFromPanel
  <2> QED
    BY <1>0, <1>7, <2>1, DecidingStep, KeepingStep DEF ApproverInv
<1>8. ASSUME NEW r \in Ids, NEW approved \in BOOLEAN, NEW t \in Tabs,
             DecideFromDashboard(t, r, approved)
      PROVE  RequestsTypeOK' /\ ApproverInv'
  <2>1. /\ Decided(r, approved) /\ held' = Remembered(r) /\ UNCHANGED application
        /\ approvedHere' = IF requests'[r].status = "approved" THEN approvedHere \cup {r} ELSE approvedHere
    BY <1>8 DEF DecideFromDashboard
  <2>2. /\ requests[r].status = "pending"
        /\ requests' \in Seq(Request) /\ Ids' = Ids
        /\ \A q \in Ids : q # r => requests'[q] = requests[q]
        /\ requests'[r].status # "pending"
    BY <1>8, <2>1, DecidingStep
  <2>3. CASE requests'[r].status = "approved"
    <3>1. held' = held \cup {r} /\ approvedHere' = approvedHere \cup {r}
      BY <2>1, <2>3 DEF Remembered
    <3>2. \A q \in approvedHere :
            q # r /\ requests[q].until \in Nat /\ (q \in held => q \in held')
      <4>1. \A q \in approvedHere : q # r /\ requests[q] \in Request
        BY <2>2 DEF ApproverInv, RequestsTypeOK
      <4> QED
        BY <3>1, <4>1 DEF Request
    <3>3. now' = now
      BY <1>8 DEF DecideFromDashboard, FromTab
    <3> QED
      BY <1>0, <2>1, <2>2, <3>1, <3>2, <3>3
      DEF ApproverInv, ApproverCanSubmit, Expired, RequestsTypeOK
  <2>4. CASE requests'[r].status # "approved"
    BY <1>0, <2>1, <2>2, <2>4, KeepingStep DEF Remembered, ApproverInv
  <2> QED
    BY <2>3, <2>4
<1>9. ASSUME NEW r \in Ids, NEW t \in Tabs, SubmitFromDashboard(t, r)
      PROVE  RequestsTypeOK' /\ ApproverInv'
  <2>1. /\ UNCHANGED <<application, requests, approvedHere>>
        /\ held' = held \/ (held' = held \ {r} /\ Expired(r))
    BY <1>9 DEF SubmitFromDashboard, TokenAtHand
  <2> QED
    BY <1>0, <2>1, KeepingStep DEF RequestsTypeOK, ApproverInv
<1>10. ASSUME NEW r, NEW status \in {"used", "expired"}, Becomes(r, status),
              UNCHANGED <<held, approvedHere>>,
              application = "submitted" => application' = "submitted"
       PROVE  RequestsTypeOK' /\ ApproverInv'
  <2>1. \A q \in approvedHere :
          \/ requests'[q] = requests[q] /\ (q \in held => q \in held')
          \/ requests'[q].status = status
    BY <1>10, BecomesType DEF ApproverInv
  <2> QED
    BY <1>0, <1>10, <2>1, BecomesType, KeepingStep
<1>11. ASSUME UNCHANGED <<requests, held, approvedHere>>,
              application = "submitted" => application' = "submitted"
       PROVE  RequestsTypeOK' /\ ApproverInv'
  BY <1>0, <1>11, KeepingStep DEF RequestsTypeOK, ApproverInv
<1>12. CASE SubmitFromPanel \/ Clicks
  BY <1>11, <1>12 DEF SubmitFromPanel, Clicks
<1>13. ASSUME NEW c \in submitting, Reserves(c)
       PROVE  RequestsTypeOK' /\ ApproverInv'
  BY <1>10, <1>13 DEF Reserves
<1>14. ASSUME NEW c \in submitting, Succeeds(c)
       PROVE  RequestsTypeOK' /\ ApproverInv'
  BY <1>0, <1>14 DEF Succeeds, RequestsTypeOK, ApproverInv, ApproverCanSubmit
<1>15. ASSUME NEW c \in submitting, Fails(c)
       PROVE  RequestsTypeOK' /\ ApproverInv'
  <2>1. UNCHANGED <<application, held, approvedHere>>
    BY <1>15 DEF Fails, HeldAfterFailure
  <2> QED
    BY <1>10, <1>11, <1>15, <2>1 DEF Fails
<1>16. ASSUME NEW c \in submitting, FormChanges(c)
       PROVE  RequestsTypeOK' /\ ApproverInv'
  <2>1. \A q \in Ids : requests[q] \in Request
    BY DEF RequestsTypeOK
  <2>2. /\ UNCHANGED <<held, approvedHere>> /\ application # "submitted"
        /\ requests' = [r \in Ids |-> IF requests[r].status \in {"pending", "approved"}
                                        THEN [requests[r] EXCEPT !.status = "invalidated"]
                                        ELSE requests[r]]
    BY <1>16 DEF FormChanges
  <2>3. \A q \in Ids : requests'[q] \in Request
    BY <2>1, <2>2 DEF Request
  <2>4. requests' \in Seq(Request) /\ Ids' = Ids
    BY <2>2, <2>3 DEF RequestsTypeOK
  <2>5. \A q \in Ids : \/ requests'[q] = requests[q]
                       \/ requests'[q].status \notin {"pending", "approved"}
    BY <2>1, <2>2 DEF Request
  <2> QED
    BY <1>0, <2>2, <2>4, <2>5, KeepingStep DEF ApproverInv
<1> QED
  BY <1>1, <1>2, <1>3, <1>5, <1>6, <1>7, <1>8, <1>9, <1>12, <1>13, <1>14, <1>15, <1>16
  DEF ApprovalsNext

-----------------------------------------------------------------------------
(* The theorems. *)

LEMMA ApprovalsInductive ==
  ApprovalsSpec => [](DashboardTypeOK /\ LimitInv /\ GoneInv /\ RequestsTypeOK /\ ApproverInv)
<1> DEFINE IInv == DashboardTypeOK /\ LimitInv /\ GoneInv /\ RequestsTypeOK /\ ApproverInv
<1>1. ApprovalsInit => IInv
  BY DoorInitTypeOK, LimitInitially, GoneInitially, ApproverInitially DEF ApprovalsInit
<1>2. IInv /\ [ApprovalsNext]_<<dashboardVars, approvalVars>>
        => IInv'
  BY DoorSteps, DoorTypes, LimitSteps, LimitInvStep, GoneStep, ApproverStep
<1> QED
  BY <1>1, <1>2, PTL DEF ApprovalsSpec

\* What the bridge's limiter lets through, no session's own window refuses
\* (RateLimiter.allow(), limitSession()).
THEOREM LimiterSparesSessions == ApprovalsSpec => []SessionWindowNeverRefuses
<1>1. LimitInv => SessionWindowNeverRefuses
  BY DEF LimitInv, SessionWindowNeverRefuses
<1> QED
  BY <1>1, ApprovalsInductive, PTL

\* Once the sign-out of a session has been handled, no mutation is let in by it any
\* more; one whose body was awaited at that moment still takes effect (logout(),
\* authenticate()).
THEOREM SignOutHolds == ApprovalsSpec => []SignedOutStaysOut
<1>1. GoneInv => SignedOutStaysOut
  BY DEF GoneInv, SignedOutStaysOut
<1> QED
  BY <1>1, ApprovalsInductive, PTL

\* An approval given from the dashboard can be used from it as long as it lasts, the
\* daemon runs and the application was not submitted, also after a submission that
\* failed (rememberApprovalToken(), approvalToken(), forgetApprovalToken()).
THEOREM ApproversKeepTokens == ApprovalsSpec => []ApproverCanSubmit
<1>1. ApproverInv => ApproverCanSubmit
  BY DEF ApproverInv
<1> QED
  BY <1>1, ApprovalsInductive, PTL
=============================================================================
