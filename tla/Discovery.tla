----------------------------- MODULE Discovery -----------------------------
(***************************************************************************)
(* One job search over the configured sources (createDirectJobSource,      *)
(* job-source-factory.ts): the development fixture, Wuzzuf's result pages, *)
(* an Indeed tab and Composio's LinkedIn tool.  Several sources run at the *)
(* same time under MultiJobSource, which waits for all of them and answers *)
(* what the ones that did not fail have found.  In the standalone worker   *)
(* the search is the handler of a job that may be cancelled under way.     *)
(*                                                                         *)
(* The two browser sources work in tabs of the user's Chrome, which the    *)
(* user may close.  Searches follow one another; the calls of one adapter  *)
(* that overlap are the subject of BrowserPages.                           *)
(***************************************************************************)
EXTENDS Naturals, Sequences, SequencesExt

CONSTANTS
    Vacancies,    \* the postings Wuzzuf may list, numbered
    Unwanted,     \* those the filters of the search reject
    PerPage,      \* postings on a result page
    Combinations, \* pairs of a query and a location of the search
    Limit,        \* WuzzufSearchInput.limit
    PageLimit,    \* pages read of one pair: 10 in the code
    Tabs,         \* tabs, numbered
    MaxSearches   \* bound

ASSUME DiscoveryAssumption ==
    /\ Vacancies \subseteq Nat \ {0} /\ IsFiniteSet(Vacancies) /\ Unwanted \subseteq Vacancies
    /\ Tabs \subseteq Nat \ {0}
    /\ {PerPage, Combinations, Limit, PageLimit, MaxSearches} \subseteq Nat \ {0}

VARIABLES
    listed,    \* the postings Wuzzuf lists, newest first
    sources,   \* the sources configured, in the factory's order
    search,    \* "none", "running", "answered", "failed"
    cancelled, \* the signal of the worker's job is aborted
    answer,    \* what the last search answered
    state,     \* source -> "idle", "working", "found", "failed"
    found,     \* source -> the jobs it has found, in order
    wuzzuf,    \* discover(): the pair and page it is at, and its tab
    indeed,    \* IndeedJobSource: where it is, and its tab
    open,      \* the tabs that are open
    kept,      \* manualVerificationPage
    left,      \* tabs openTab() opened and failed to load
    searches

vars == <<listed, sources, search, cancelled, answer, state, found, wuzzuf,
          indeed, open, kept, left, searches>>

\* JOB_SOURCE_MODE names some of the sources; the factory lists them in this order.
Order == <<"fixture", "wuzzuf", "indeed", "composio">>
Listings == UNION {[1..n -> ToSet(Order)] : n \in 1..Len(Order)}
Modes == {s \in Listings : \A i, j \in DOMAIN s : i < j =>
             \E p, q \in DOMAIN Order : p < q /\ s[i] = Order[p] /\ s[j] = Order[q]}

Nowhere == [pc |-> "idle", tab |-> 0, pair |-> 1, page |-> 0]

DiscoveryInit ==
    /\ \E n \in 0..Cardinality(Vacancies) : listed \in [1..n -> Vacancies]
    /\ IsInjective(listed)
    /\ sources \in Modes
    /\ search = "none" /\ cancelled = FALSE /\ answer = <<>>
    /\ state = [m \in ToSet(Order) |-> "idle"]
    /\ found = [m \in ToSet(Order) |-> <<>>]
    /\ wuzzuf = Nowhere /\ indeed = Nowhere
    /\ open = {} /\ kept = 0 /\ left = {}
    /\ searches = 0

Working(m) == search = "running" /\ state[m] = "working"

Succeed(m, jobs) ==
    /\ state' = [state EXCEPT ![m] = "found"]
    /\ found' = [found EXCEPT ![m] = jobs]

Throw(m) ==
    /\ state' = [state EXCEPT ![m] = "failed"]
    /\ found' = [found EXCEPT ![m] = <<>>]

-----------------------------------------------------------------------------
(* The search.                                                             *)

\* discover() of every source is called at once.
StartSearch ==
    /\ search # "running" /\ searches < MaxSearches
    /\ search' = "running" /\ searches' = searches + 1
    /\ cancelled' = FALSE /\ answer' = <<>>
    /\ state' = [m \in ToSet(Order) |->
                   IF m \in ToSet(sources) THEN "working" ELSE "idle"]
    /\ found' = [m \in ToSet(Order) |-> <<>>]
    /\ wuzzuf' = Nowhere /\ indeed' = Nowhere
    /\ UNCHANGED <<listed, sources, open, kept, left>>

\* The worker's job is cancelled, loses its lease or reaches its deadline; the
\* sources are not told.
CancelSearch ==
    /\ search = "running" /\ ~cancelled /\ cancelled' = TRUE
    /\ UNCHANGED <<listed, sources, search, answer, state, found, wuzzuf,
                   indeed, open, kept, left, searches>>

\* A mutation of Through: without its catch, Promise.all rejects as soon as
\* one source does.
ThroughAtFirstFailure ==
    \/ \A m \in ToSet(sources) : state[m] \in {"found", "failed"}
    \/ \E m \in ToSet(sources) : state[m] = "failed"

\* Promise.all over sources none of which rejects: all are through.
Through == \A m \in ToSet(sources) : state[m] \in {"found", "failed"}

\* A source alone is not wrapped: the search fails with it.  The handler
\* throws for an aborted signal before it answers.
Fails == cancelled \/ (Len(sources) = 1 /\ state[sources[1]] = "failed")

\* The results one after the other (flat()).
Joined ==
    LET upTo[n \in 0..Len(sources)] ==
          IF n = 0 THEN <<>> ELSE upTo[n - 1] \o found[sources[n]]
    IN  upTo[Len(sources)]

EndSearch ==
    /\ search = "running" /\ Through
    /\ search' = IF Fails THEN "failed" ELSE "answered"
    /\ answer' = IF Fails THEN <<>> ELSE Joined
    /\ UNCHANGED <<listed, sources, cancelled, state, found, wuzzuf, indeed,
                   open, kept, left, searches>>

-----------------------------------------------------------------------------
(* The fixture answers one job; Composio's tool answers rows, of which those *)
(* with a url and a title are jobs, or fails, or is killed after 30 seconds. *)

FixtureFinds ==
    /\ Working("fixture")
    /\ Succeed("fixture", <<[from |-> "fixture", id |-> 1]>>)
    /\ UNCHANGED <<listed, sources, search, cancelled, answer, wuzzuf, indeed,
                   open, kept, left, searches>>

\* A row that is usable (TRUE) becomes a job under its place among the rows.
UsableRows(rows) ==
    LET upTo[n \in 0..Len(rows)] ==
          IF n = 0 THEN <<>>
          ELSE IF rows[n] THEN Append(upTo[n - 1], [from |-> "composio", id |-> n])
               ELSE upTo[n - 1]
    IN  upTo[Len(rows)]

ComposioSettles ==
    /\ Working("composio")
    /\ \/ \E rows \in {<<>>, <<TRUE>>, <<FALSE, TRUE>>} : Succeed("composio", UsableRows(rows))
       \/ Throw("composio")
    /\ UNCHANGED <<listed, sources, search, cancelled, answer, wuzzuf, indeed,
                   open, kept, left, searches>>

-----------------------------------------------------------------------------
(* Tabs.                                                                   *)

Free == Tabs \ (open \union left \union {wuzzuf.tab, indeed.tab, kept})

\* A new tab: which one does not matter.
Unused == {t \in Free : \A other \in Free : t <= other}

\* The user closes a tab, or Chrome goes.
TabCloses ==
    /\ \E ts \in {{t} : t \in open} \union {open} : ts # {} /\ open' = open \ ts
    /\ UNCHANGED <<listed, sources, search, cancelled, answer, state, found,
                   wuzzuf, indeed, kept, left, searches>>

-----------------------------------------------------------------------------
(* IndeedJobSource.                                                        *)

\* openTab(): no Chrome, no tab, or a new tab that loads, fails to load and
\* stays, or is closed while loading.
IndeedOpens ==
    /\ Working("indeed") /\ indeed.pc = "idle"
    /\ \/ Throw("indeed") /\ UNCHANGED <<indeed, open, left>>
       \/ \E t \in Unused :
            \/ /\ open' = open \union {t}
               /\ indeed' = [indeed EXCEPT !.pc = "loaded", !.tab = t]
               /\ UNCHANGED <<state, found, left>>
            \/ /\ open' = open \union {t} /\ left' = left \union {t}
               /\ Throw("indeed") /\ UNCHANGED indeed
    /\ UNCHANGED <<listed, sources, search, cancelled, answer, wuzzuf, kept,
                   searches>>

\* The cards are read and the finally closes the tab; evaluate() may throw, in a tab
\* that was closed it always does.
IndeedReads ==
    /\ Working("indeed") /\ indeed.pc = "loaded"
    /\ \/ indeed.tab \in open /\ \E n \in 0..1 :
             Succeed("indeed", [i \in 1..n |-> [from |-> "indeed", id |-> i]])
       \/ Throw("indeed")
    /\ open' = open \ {indeed.tab}
    /\ indeed' = Nowhere
    /\ UNCHANGED <<listed, sources, search, cancelled, answer, wuzzuf, kept,
                   left, searches>>

-----------------------------------------------------------------------------
(* WuzzufAdapter.discover(): page after page of each pair.                 *)

\* The result page read, when the list is as it is now.
ResultPage(p) ==
    SubSeq(listed, p * PerPage + 1, IF (p + 1) * PerPage < Len(listed)
                                    THEN (p + 1) * PerPage ELSE Len(listed))

IdsOf(jobs) == {jobs[i].id : i \in DOMAIN jobs}

\* A mutation of Seen: what earlier pages and pairs have found is not kept.
SeenOnThePage(jobs, before) == {jobs[i].id : i \in (before + 1)..Len(jobs)}

\* `seen': the sourceIds pushed so far.
Seen(jobs, before) == IdsOf(jobs)

\* One posting of a page, after js; the pages before had found the first of them.
Push(js, before, p) ==
    IF Len(js) >= Limit \/ p \in Seen(js, before) \/ p \in Unwanted
    THEN js ELSE Append(js, [from |-> "wuzzuf", id |-> p])

\* The loop over the postings of a page.
Collect(jobs, page) ==
    LET upTo[n \in 0..Len(page)] ==
          IF n = 0 THEN jobs ELSE Push(upTo[n - 1], Len(jobs), page[n])
    IN  upTo[Len(page)]

\* newPage(): the tab kept for the user's check, if it is still open, or a new
\* one; connecting or opening may fail.
WuzzufOpens ==
    /\ Working("wuzzuf") /\ wuzzuf.pc = "idle"
    /\ \/ \E t \in IF kept \in open THEN {kept} ELSE Unused :
            /\ open' = open \union {t}
            /\ wuzzuf' = [wuzzuf EXCEPT !.pc = "opened", !.tab = t]
            /\ kept' = IF t = kept THEN 0 ELSE kept
            /\ UNCHANGED <<state, found>>
       \/ /\ kept \notin open /\ Throw("wuzzuf")
          /\ UNCHANGED <<open, wuzzuf, kept>>
    /\ UNCHANGED <<listed, sources, search, cancelled, answer, indeed, left,
                   searches>>

\* The page shows its results or that there are none.  A page with nothing new
\* is a pair's last; so is the tenth, and the one that fills the limit.
WuzzufReads ==
    LET page == ResultPage(wuzzuf.page)
        jobs == Collect(found["wuzzuf"], page)
        last == \/ Len(jobs) = Len(found["wuzzuf"])
                \/ wuzzuf.page + 1 = PageLimit
        full == Len(jobs) >= Limit
    IN  /\ Working("wuzzuf") /\ wuzzuf.pc = "opened" /\ wuzzuf.tab \in open
        /\ open' = open \ {wuzzuf.tab}
        /\ IF full \/ (last /\ wuzzuf.pair = Combinations)
           THEN Succeed("wuzzuf", jobs) /\ wuzzuf' = Nowhere
           ELSE /\ found' = [found EXCEPT !["wuzzuf"] = jobs]
                /\ wuzzuf' = IF last
                             THEN [Nowhere EXCEPT !.pair = wuzzuf.pair + 1]
                             ELSE [Nowhere EXCEPT !.pair = wuzzuf.pair,
                                                  !.page = wuzzuf.page + 1]
                /\ UNCHANGED state
        /\ UNCHANGED <<listed, sources, search, cancelled, answer, indeed,
                       kept, left, searches>>

\* The page does not load or never finishes loading, asks for a login, or its
\* tab is gone: the tab is closed.  A page with a security check is kept open.
WuzzufFails ==
    /\ Working("wuzzuf") /\ wuzzuf.pc = "opened"
    /\ Throw("wuzzuf") /\ wuzzuf' = Nowhere
    /\ \/ open' = open \ {wuzzuf.tab} /\ UNCHANGED kept
       \/ wuzzuf.tab \in open /\ kept' = wuzzuf.tab /\ UNCHANGED open
    /\ UNCHANGED <<listed, sources, search, cancelled, answer, indeed, left,
                   searches>>

\* Employers go on posting: a new posting moves the others down the pages.
WuzzufLists ==
    /\ search = "running"
    /\ \E p \in Vacancies \ ToSet(listed) : listed' = <<p>> \o listed
    /\ UNCHANGED <<sources, search, cancelled, answer, state, found, wuzzuf,
                   indeed, open, kept, left, searches>>

-----------------------------------------------------------------------------
DiscoveryNext ==
    \/ StartSearch \/ CancelSearch \/ EndSearch
    \/ FixtureFinds \/ ComposioSettles
    \/ IndeedOpens \/ IndeedReads
    \/ WuzzufOpens \/ WuzzufReads \/ WuzzufFails
    \/ WuzzufLists \/ TabCloses

DiscoverySpec == DiscoveryInit /\ [][DiscoveryNext]_vars

-----------------------------------------------------------------------------
(* Correctness.                                                            *)

\* A search answers, in the order of the sources, all that each source which
\* did not fail has found (MultiJobSource), and no posting of Wuzzuf's twice
\* although its list moves between two pages and its pairs overlap (`seen').
FoundOnceInOrder ==
    search = "answered" =>
        /\ \A i, j \in 1..Len(answer) :
              (answer[i].from = "wuzzuf" /\ answer[i] = answer[j]) => i = j
        /\ \A m \in ToSet(sources) : \E base \in 0..Len(answer) :
              /\ base + Len(found[m]) <= Len(answer)
              /\ \A i \in 1..Len(found[m]) : answer[base + i] = found[m][i]
              /\ \A i \in 1..Len(answer) : answer[i].from = m =>
                    i > base /\ i <= base + Len(found[m])
        /\ \A i, j \in 1..Len(answer), m, n \in 1..Len(sources) :
              (i < j /\ answer[i].from = sources[m] /\ answer[j].from = sources[n])
                  => m <= n

\* Whatever failed or was cancelled, a search that is over has no tab open but
\* the one kept for the user's check and those openTab() could not load.
TabsAreClosed ==
    search # "running" => open \subseteq {kept} \union left

\* Not what the code does: openTab() leaves a tab it could not load.
NoTabIsLeft ==
    search # "running" => open \subseteq {kept}

\* Not what the code does: a page whose postings are all filtered out or known
\* is taken for a pair's last, and what is listed after it is never read.
WholeListIsRead ==
    (search = "answered" /\ state["wuzzuf"] = "found"
        /\ Len(found["wuzzuf"]) < Limit
        /\ Len(listed) <= PageLimit * PerPage) =>
    ToSet(listed) \ Unwanted \subseteq IdsOf(found["wuzzuf"])
=============================================================================
