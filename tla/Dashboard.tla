------------------------------ MODULE Dashboard ------------------------------
(***************************************************************************)
(* The dashboard's door: the request limiter of the bridge (server.ts), the *)
(* cookie sessions with their rotating CSRF token and request window        *)
(* (DashboardSessions), the tabs of a browser that share its cookie         *)
(* (api.ts, Auth.tsx), and the versioned note a tab edits (Jobs.tsx).       *)
(*                                                                         *)
(* A request leaves with the cookie of that moment and may reach the daemon *)
(* late; a session request is handled in one stretch of its event loop, a   *)
(* mutation is authenticated, its body awaited, and then takes effect; the  *)
(* answers may arrive in any order or be lost.  A tab has one such exchange *)
(* at a time (the bound of wire).  Every request of every local client has  *)
(* the same remote address and so spends the same bucket.                   *)
(***************************************************************************)
EXTENDS Naturals, FiniteSets

CONSTANTS
  Tabs, Browsers,
  BrowserOf,      \* the browser, one cookie jar, of each tab
  Window,         \* 60 seconds, in ticks
  RequestLimit,   \* RateLimiter: 120 requests per window
  MutationLimit,  \* limitSession: 240
  ReadLimit,      \* limitSession: 900
  Lifetime,       \* session ttl, in ticks
  MaxTime, MaxTokens, MaxSaves, MaxRestarts,  \* bounds
  None

ASSUME DashboardAssumption ==
  /\ BrowserOf \in [Tabs -> Browsers]
  /\ Window \in Nat \ {0} /\ RequestLimit \in Nat \ {0} /\ Lifetime \in Nat \ {0}
  /\ MutationLimit \in Nat /\ ReadLimit \in Nat
  /\ 2 * RequestLimit <= MutationLimit /\ MutationLimit <= ReadLimit
  /\ MaxTime \in Nat /\ MaxTokens \in Nat /\ MaxSaves \in Nat /\ MaxRestarts \in Nat
  /\ None \notin Nat /\ None \notin [count : Nat, resetAt : Nat]

VARIABLES
  now,
  bucket,    \* RateLimiter.buckets for the loopback address
  sessions,  \* DashboardSessions.sessions, named by the token their cookie carries
  windows,   \* DashboardSessions.requestWindows
  minted,    \* tokens drawn so far: cookies and CSRF tokens are numbered
  cookies,   \* each browser's cookie
  tabs,      \* per tab: what AuthBoundary shows, the module's csrfToken, the note
  wire,      \* per tab: the request or the answer that is on its way
  note,      \* job_notes.version of the job looked at
  restarts,
  limited,   \* history: limitSession() has refused a request
  gone,      \* history: the sessions, by token, whose sign-out was handled
  lost       \* history: a saved note replaced one its author had not seen

daemonVars == <<bucket, sessions, windows, minted, note, restarts>>
browserVars == <<cookies, tabs, wire>>
historyVars == <<limited, gone, lost>>
dashboardVars == <<now, daemonVars, browserVars, historyVars>>

Tokens == 1..MaxTokens
Times == 0..(MaxTime + Window + Lifetime)
Versions == 0..MaxSaves
ClosedTab == [shows |-> "checking", csrf |-> 0, version |-> None, base |-> None]
TabState == [shows : {"checking", "signed-out", "signed-in"}, csrf : Tokens \cup {0},
             version : Versions \cup {None}, base : Versions \cup {None}]
(* Requests, a mutation whose body is awaited ("late" once its session was  *)
(* signed out meanwhile), and answers.                                      *)
Exchange == [kind : {"restore", "sign-out", "mutation", "begun", "late",
                     "session", "login", "logout"},
             csrf : Tokens \cup {0}, cookie : Tokens \cup {0}]

DashboardTypeOK ==
  /\ now \in 0..MaxTime
  /\ bucket \in [count : 1..(RequestLimit + 1), resetAt : Times] \cup {None}
  /\ sessions \in [Tokens -> [csrf : Tokens, expiresAt : Times] \cup {None}]
  /\ windows \in [Tokens -> [start : Times, count : 1..(ReadLimit + 1)] \cup {None}]
  /\ minted \in 0..MaxTokens
  /\ cookies \in [Browsers -> Tokens \cup {0}]
  /\ tabs \in [Tabs -> TabState]
  /\ wire \in [Tabs -> Exchange \cup {None}]
  /\ note \in Versions
  /\ restarts \in 0..MaxRestarts
  /\ limited \in BOOLEAN /\ gone \subseteq Tokens /\ lost \in BOOLEAN

DashboardInit ==
  /\ now = 0 /\ bucket = None
  /\ sessions = [k \in Tokens |-> None] /\ windows = [k \in Tokens |-> None]
  /\ minted = 0 /\ cookies = [b \in Browsers |-> 0]
  /\ tabs = [t \in Tabs |-> ClosedTab] /\ wire = [t \in Tabs |-> None]
  /\ note = 0 /\ restarts = 0
  /\ limited = FALSE /\ gone = {} /\ lost = FALSE

-----------------------------------------------------------------------------
(* The two limits. Counts stop growing one past their limit: what was refused *)
(* stays refused until the window ends.                                       *)

Capped(n, limit) == IF n > limit THEN limit + 1 ELSE n

\* Mutant: a window that starts at zero and so grants one request more.
BucketFromZero ==
  IF bucket = None \/ (bucket # None /\ bucket.resetAt <= now)
  THEN [count |-> 0, resetAt |-> now + Window]
  ELSE [bucket EXCEPT !.count = Capped(@ + 1, RequestLimit)]

\* RateLimiter.allow(): a fixed window that starts with the first request after the
\* last one ended.
NextBucket ==
  IF bucket = None \/ (bucket # None /\ bucket.resetAt <= now)
  THEN [count |-> 1, resetAt |-> now + Window]
  ELSE [bucket EXCEPT !.count = Capped(@ + 1, RequestLimit)]
Allowed == NextBucket.count <= RequestLimit

\* limitSession(): one count for reads and mutations, whichever limit is applied.
NextWindow(k) ==
  IF windows[k] = None \/ (windows[k] # None /\ now - windows[k].start >= Window)
  THEN [start |-> now, count |-> 1]
  ELSE [windows[k] EXCEPT !.count = Capped(@ + 1, ReadLimit)]

-----------------------------------------------------------------------------
(* authenticate() *)

Valid(k) == k # 0 /\ sessions[k] # None /\ (sessions[k] # None => sessions[k].expiresAt > now)

\* The request got past the limiter.
Arrives == Allowed /\ bucket' = NextBucket

\* A request without a valid session: 401, and its entry is dropped.
Unauthenticated(k) ==
  /\ ~Valid(k)
  /\ sessions' = IF k = 0 THEN sessions ELSE [sessions EXCEPT ![k] = None]

\* limitSession() counts the request first and refuses it after.
Counted(k, limit, refused) ==
  /\ Valid(k)
  /\ windows' = [windows EXCEPT ![k] = NextWindow(k)]
  /\ refused = (NextWindow(k).count > limit)
  /\ limited' = (limited \/ refused)

CookieOf(t) == cookies[BrowserOf[t]]

\* The CSRF token of the request is its session's current one.
Accepted(t) ==
  Valid(wire[t].cookie) /\ (Valid(wire[t].cookie) => wire[t].csrf = sessions[wire[t].cookie].csrf)

\* A request that changes nothing but the counts, with a cookie drawn at any time:
\* refused, 401, 403, or another read.
Refused(k) ==
  /\ bucket' = NextBucket
  /\ \/ /\ ~Allowed
        /\ UNCHANGED <<sessions, windows, limited>>
     \/ /\ Allowed /\ Unauthenticated(k)
        /\ UNCHANGED <<windows, limited>>
     \/ /\ Allowed /\ UNCHANGED sessions
        /\ \E refused \in BOOLEAN, limit \in {ReadLimit, MutationLimit} :
             Counted(k, limit, refused)
  /\ UNCHANGED <<now, minted, browserVars, note, restarts, gone, lost>>

\* The extension, the tools and the assets spend the same bucket.
OtherClient ==
  /\ bucket' = NextBucket
  /\ UNCHANGED <<now, sessions, windows, minted, note, restarts, browserVars, historyVars>>

-----------------------------------------------------------------------------
(* Requests and their answers. *)

Draw(n) == minted + n <= MaxTokens /\ minted' = minted + n

On(t, kind) == wire[t] # None /\ wire[t].kind = kind
Puts(t, exchange) == wire' = [wire EXCEPT ![t] = exchange]

\* fetch() takes the browser's cookie and the tab's token along: a tab that opens asks
\* for the session, one that is signed in signs out or changes something.
Sends(t) ==
  /\ wire[t] = None
  /\ \E kind \in CASE tabs[t].shows = "checking" -> {"restore"}
                   [] tabs[t].shows = "signed-in" -> {"sign-out", "mutation"}
                   [] OTHER -> {} :
       Puts(t, [kind |-> kind, csrf |-> tabs[t].csrf, cookie |-> CookieOf(t)])
  /\ UNCHANGED <<now, daemonVars, cookies, tabs, historyVars>>

\* login(): a session of its own with its cookie; older ones stay until they expire.
\* MaxTokens allows fewer sign-ins than limitLogin()'s thirty a minute.
Login(t) ==
  /\ tabs[t].shows = "signed-out" /\ wire[t] = None
  /\ Arrives /\ Draw(2)
  /\ sessions' = [sessions EXCEPT ![minted + 1] =
                    [csrf |-> minted + 2, expiresAt |-> now + Lifetime]]
  /\ Puts(t, [kind |-> "login", csrf |-> minted + 2, cookie |-> minted + 1])
  /\ UNCHANGED <<now, windows, note, restarts, cookies, tabs, historyVars>>

\* session(): a tab that opens takes a new CSRF token, and the one before is void.
RestoreSession(t) ==
  /\ On(t, "restore")
  /\ Arrives /\ Draw(1)
  /\ Counted(wire[t].cookie, ReadLimit, FALSE)
  /\ sessions' = [sessions EXCEPT ![wire[t].cookie].csrf = minted + 1]
  /\ Puts(t, [kind |-> "session", csrf |-> minted + 1, cookie |-> 0])
  /\ UNCHANGED <<now, note, restarts, cookies, tabs, gone, lost>>

\* The tab that opens has no valid session: it shows the sign-in form.
RestoreFails(t) ==
  /\ On(t, "restore")
  /\ bucket' = NextBucket
  /\ \/ ~Allowed /\ UNCHANGED sessions
     \/ Allowed /\ Unauthenticated(wire[t].cookie)
  /\ Puts(t, None)
  /\ tabs' = [tabs EXCEPT ![t].shows = "signed-out"]
  /\ UNCHANGED <<now, windows, minted, note, restarts, cookies, historyVars>>

\* Mutant: logout() that only clears the cookie.
ForgetNothing(k) == UNCHANGED <<sessions, windows>>

\* logout() deletes the session of the cookie and its window.
Forget(k) ==
  /\ sessions' = [sessions EXCEPT ![k] = None]
  /\ windows' = [windows EXCEPT ![k] = None]

\* Mutations of the session whose body is awaited at that moment go on.
Logout(t) ==
  /\ On(t, "sign-out")
  /\ Arrives /\ Accepted(t)
  /\ NextWindow(wire[t].cookie).count <= MutationLimit
  /\ Forget(wire[t].cookie)
  /\ wire' = [u \in Tabs |->
       IF u = t THEN [kind |-> "logout", csrf |-> 0, cookie |-> 0]
       ELSE IF On(u, "begun") /\ wire[u].cookie = wire[t].cookie
         THEN [wire[u] EXCEPT !.kind = "late"] ELSE wire[u]]
  /\ gone' = gone \cup {wire[t].cookie}
  /\ UNCHANGED <<now, minted, note, restarts, cookies, tabs, limited, lost>>

\* authenticate() lets the mutation in, and its handler awaits the body.
MutationBegins(t) ==
  /\ On(t, "mutation")
  /\ Arrives /\ Counted(wire[t].cookie, MutationLimit, FALSE)
  /\ Accepted(t)
  /\ Puts(t, [wire[t] EXCEPT !.kind = "begun"])
  /\ UNCHANGED <<now, sessions, minted, note, restarts, cookies, tabs, gone, lost>>

\* The body is there and the mutation takes effect: nothing asks for the session again.
Mutates(t) == (On(t, "begun") \/ On(t, "late")) /\ Puts(t, None)

\* The answer arrives: the browser takes its cookie, the tab its token. Only the
\* answers of login and logout carry set-cookie.
AnswerArrives(t) ==
  /\ On(t, "session") \/ On(t, "login") \/ On(t, "logout")
  /\ Puts(t, None)
  /\ cookies' = IF On(t, "session") THEN cookies
                ELSE [cookies EXCEPT ![BrowserOf[t]] = wire[t].cookie]
  /\ tabs' = [tabs EXCEPT ![t] =
       [@ EXCEPT !.csrf = wire[t].csrf, !.version = None, !.base = None,
                 !.shows = IF On(t, "logout") THEN "signed-out" ELSE "signed-in"]]
  /\ UNCHANGED <<now, daemonVars, historyVars>>

\* A request is refused or lost, its body never ends, or its answer is lost: a tab that
\* was opening or signing in shows the form again.
ExchangeLost(t) ==
  /\ wire[t] # None
  /\ Puts(t, None)
  /\ tabs' = [tabs EXCEPT ![t].shows = IF @ = "checking" THEN "signed-out" ELSE @]
  /\ UNCHANGED <<now, daemonVars, cookies, historyVars>>

\* The user reloads the page or opens it in a tab.
Reload(t) ==
  /\ wire[t] = None
  /\ tabs' = [tabs EXCEPT ![t] = ClosedTab]
  /\ UNCHANGED <<now, daemonVars, cookies, wire, historyVars>>

-----------------------------------------------------------------------------
(* The note of a job. *)

\* GET /jobs/:id: the panel's draft starts from the note the first answer brings; a
\* later refetch (a decision invalidates ['job']) renews the version but not the draft.
LoadNote(t) ==
  /\ tabs[t].shows = "signed-in" /\ wire[t] = None
  /\ Arrives /\ Counted(CookieOf(t), ReadLimit, FALSE)
  /\ tabs' = [tabs EXCEPT ![t].version = note,
                          ![t].base = IF @ = None THEN note ELSE @]
  /\ UNCHANGED <<now, sessions, minted, note, restarts, cookies, wire, gone, lost>>

\* setJobNote(): VERSION_CONFLICT unless the version is the one expected.
ExpectedVersion(expected) == note = expected

\* PUT /jobs/:id/note
SaveNote(t) ==
  /\ Mutates(t) /\ tabs[t].version # None
  /\ ExpectedVersion(tabs[t].version)
  /\ note < MaxSaves /\ note' = note + 1
  /\ lost' = (lost \/ tabs[t].base # note)
  /\ tabs' = [tabs EXCEPT ![t].base = note + 1]
  /\ UNCHANGED <<now, bucket, sessions, windows, minted, restarts, cookies, limited, gone>>

-----------------------------------------------------------------------------

Tick ==
  /\ now < MaxTime /\ now' = now + 1
  /\ UNCHANGED <<daemonVars, browserVars, historyVars>>

\* The daemon restarts: limiter, sessions and windows were in memory, and a mutation
\* whose body was awaited has no effect.
Restart ==
  /\ restarts < MaxRestarts /\ restarts' = restarts + 1
  /\ bucket' = None
  /\ sessions' = [k \in Tokens |-> None] /\ windows' = [k \in Tokens |-> None]
  /\ wire' = [t \in Tabs |-> IF On(t, "begun") \/ On(t, "late") THEN None ELSE wire[t]]
  /\ UNCHANGED <<now, minted, note, cookies, tabs, historyVars>>

SessionNext ==
  \/ (\E k \in 0..minted : Refused(k)) \/ OtherClient \/ Tick
  \/ \E t \in Tabs :
       \/ Sends(t) \/ Login(t) \/ RestoreSession(t) \/ RestoreFails(t) \/ Logout(t)
       \/ MutationBegins(t) \/ AnswerArrives(t) \/ ExchangeLost(t) \/ Reload(t)

NoteNext == \E t \in Tabs : LoadNote(t) \/ SaveNote(t)

DashboardNext == SessionNext \/ NoteNext \/ Restart

DashboardSpec == DashboardInit /\ [][DashboardNext]_dashboardVars

-----------------------------------------------------------------------------
(* Properties. *)

\* A request the bridge's limiter lets through is never refused by its session's own
\* window, although the windows start at different moments and reads count against the
\* limit of mutations: two limiter windows are all a session window can overlap
\* (RateLimiter.allow(), limitSession()).
SessionWindowNeverRefuses == ~limited

\* Once the sign-out of a session has been handled, no mutation is let in by it any
\* more, whatever requests with its cookie and token, restored tabs, other sign-ins and
\* answers are still on their way: only one whose body was awaited at that moment still
\* takes effect (logout(), authenticate()).
SignedOutStaysOut == \A t \in Tabs : On(t, "begun") => wire[t].cookie \notin gone

\* docs/dashboard-security.md:33: "Versioned notes/views/preferences return a
\* precondition failure on stale writes."  No note is replaced by a draft that was
\* begun before it was saved.
StaleDraftsAreRefused == ~lost
=============================================================================
