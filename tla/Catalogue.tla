------------------------------ MODULE Catalogue ------------------------------
(***************************************************************************)
(* The job catalogue and the desk built on it: the three doors through     *)
(* which a posting enters the jobs table (search, import of the current    *)
(* page, a campaign run), scoring, the user's decisions, the applications  *)
(* prepared for a job, the manual-action inbox derived from them, and the  *)
(* cursor-paginated list the dashboard walks.                              *)
(*                                                                         *)
(* A job is named by its place among the inserted rows: upsertJob() keeps  *)
(* the id of the row it overwrites and rows leave only with all user data. *)
(***************************************************************************)
EXTENDS Naturals, Sequences, FiniteSets, SequencesExt, FiniteSetsExt

CONSTANTS
  Postings,    \* (source, sourceId) pairs as the source spells them
  Clean,       \* clean(source)|clean(sourceId), itself a spelling of a posting
  Maintained,  \* postings of the connector that may prepare applications
  Batches,     \* what one search of the source may return
  Scores,      \* scores above zero that scoreJob() may give
  Views,       \* the lists walked: "newest", "score", "shortlisted"
  Calls,       \* calls of prepare that may be under way at once
  PageSize,    \* limit of a page
  MaxClock, MaxApps, MaxGestures,  \* bounds: discoveries, applications, decisions
  NoWalk, NoCall

ASSUME CatalogueAssumption ==
  /\ Clean \in [Postings -> Postings]
  /\ \A p \in Postings : Clean[Clean[p]] = Clean[p]
  /\ Maintained \subseteq Postings
  /\ Batches \subseteq Seq(Postings)
  /\ Scores \subseteq Nat \ {0}
  /\ Views \subseteq {"newest", "score", "shortlisted"}
  /\ PageSize \in Nat \ {0}
  /\ NoCall \notin [job : Nat, checked : BOOLEAN]
  /\ MaxClock \in Nat /\ MaxApps \in Nat /\ MaxGestures \in Nat

VARIABLES
  rows,        \* the jobs table in rowid order
  decided,     \* job_dispositions
  tagged,      \* job_tags: the jobs that carry the tag
  apps,        \* the applications table in rowid order
  items,       \* manual_action_items: id (application, state) -> status
  cancelling,  \* applications whose cancelApplication() a handler awaits
  calls,       \* the calls of prepare: the job, and whether prepareOnce() has checked it
  locks,       \* the fingerprints whose lock application:prepare is in locks
  saved,       \* jobs a campaign run has saved and may yet apply to
  working,     \* applications a fill or submit has read and may yet save
  raced,       \* history: jobs an overlap of two calls has touched
  enabled,     \* SitePolicyRegistry.enabled has the maintained connector
  walk,        \* a client walking a list page by page
  clock, gestures

jobVars == <<rows, decided, tagged>>
deskVars == <<apps, items, cancelling>>
prepareVars == <<calls, locks, saved, working, raced>>
catalogueVars == <<jobVars, deskVars, prepareVars, enabled, walk, clock, gestures>>

MaxRows == 2 * Cardinality(Postings)
Jobs == 1..MaxRows
Applications == 1..MaxApps
ManualStates == {"FORM_CHANGED", "FAILED_RETRYABLE"}
Dispositions == {"none", "shortlisted", "rejected"}

Job == [posting : Postings, print : Postings, score : Scores \cup {0}, stamp : 1..MaxClock]
Application == [job : Jobs, campaign : BOOLEAN,
                state : ManualStates \cup {"WAITING_FOR_APPROVAL", "CANCELLED"}]
Call == [job : Jobs, checked : BOOLEAN]
Walk == [view : Views, start : SUBSET Jobs, seen : SUBSET Jobs, offset : Nat,
         done : BOOLEAN, moved : SUBSET Jobs, sunk : BOOLEAN]

CatalogueTypeOK ==
  /\ rows \in Seq(Job) /\ Len(rows) <= MaxRows
  /\ decided \in [Jobs -> Dispositions]
  /\ tagged \subseteq DOMAIN rows
  /\ apps \in Seq(Application) /\ Len(apps) <= MaxApps
  /\ \A a \in DOMAIN apps : apps[a].job \in DOMAIN rows
  /\ items \in [Applications \X ManualStates -> {"none", "open", "continued", "cancelled"}]
  /\ cancelling \subseteq DOMAIN apps
  /\ calls \in [Calls -> Call \cup {NoCall}]
  /\ locks \subseteq Postings
  /\ saved \subseteq DOMAIN rows /\ raced \subseteq DOMAIN rows
  /\ working \subseteq DOMAIN apps
  /\ enabled \in BOOLEAN
  /\ walk \in Walk \cup {NoWalk}
  /\ clock \in 0..MaxClock
  /\ gestures \in 0..MaxGestures

CatalogueInit ==
  /\ rows = <<>> /\ decided = [j \in Jobs |-> "none"] /\ tagged = {}
  /\ apps = <<>> /\ items = [k \in Applications \X ManualStates |-> "none"]
  /\ cancelling = {} /\ enabled = TRUE
  /\ calls = [c \in Calls |-> NoCall] /\ locks = {} /\ saved = {}
  /\ working = {} /\ raced = {}
  /\ walk = NoWalk /\ clock = 0 /\ gestures = 0

-----------------------------------------------------------------------------
(* Writing a posting: saveJob() and upsertJob(). *)

Taken(table, print) == \E j \in DOMAIN table : table[j].print = print

\* Mutant: saveJob() without the UNIQUE constraint on the fingerprint.
SaveRegardless(table, job) == Append(table, job)

\* saveJob(): a UNIQUE violation is answered FALSE and the job is dropped.
SaveJob(table, job) == IF Taken(table, job.print) THEN table ELSE Append(table, job)

\* getJobBySource(): the first row with that source and source id.
RowOf(table, posting) == {j \in DOMAIN table : table[j].posting = posting}

\* upsertJob(): the row found keeps its fingerprint and takes all other data.
UpsertJob(table, job) ==
  LET found == RowOf(table, job.posting) IN
  IF found = {} THEN SaveJob(table, job)
  ELSE [table EXCEPT ![Min(found)] = [job EXCEPT !.print = table[Min(found)].print]]

\* normalizeJob(): the fingerprint is taken from the cleaned source and id.
NormalizeJob(p, score, stamp) ==
  [posting |-> p, print |-> Clean[p], score |-> score, stamp |-> stamp]

-----------------------------------------------------------------------------
(* The list: filter, sort and page of GET /jobs, and what moves under a walk. *)

\* What the list is sorted by, descending: discoveredAt or matchScore.
Key(view, job) == IF view = "score" THEN job.score ELSE job.stamp

Listed(view, table, choice) ==
  {j \in DOMAIN table : view = "shortlisted" => choice[j] = "shortlisted"}

\* listJobs() answers in descending rowid order and the sort is stable.
Precedes(view, table, i, j) ==
  \/ Key(view, table[i]) > Key(view, table[j])
  \/ Key(view, table[i]) = Key(view, table[j]) /\ i > j

\* The place of a job in the sorted list, and the length of that list.
Place(view, j) ==
  1 + Cardinality({i \in Listed(view, rows, decided) : Precedes(view, rows, i, j)})
Length(view) == Cardinality(Listed(view, rows, decided))

\* page(): the values from an offset on.
PageFrom(view, offset) ==
  {j \in Listed(view, rows, decided) : Place(view, j) \in (offset + 1)..(offset + PageSize)}

\* Mutant: a cursor that points past the first value of the next page.
NextOffsetPlusOne(view, offset) == Min({offset + PageSize + 1, Length(view)})

\* page(): the offset the next cursor stands for; no cursor is sent at the end.
NextOffset(view, offset) == Min({offset + PageSize, Length(view)})

\* History of a walk: which of its jobs changed their place of their own or left the
\* list, and whether one of them fell behind a job that was left alone.
Rewritten(v, table, choice) ==
  {j \in Listed(v, rows, decided) :
     \/ j \notin Listed(v, table, choice)
     \/ Key(v, table[j]) # Key(v, rows[j])}
Sank(v, table, choice) ==
  \E i \in Rewritten(v, table, choice) :
    \/ i \notin Listed(v, table, choice)
    \/ \E j \in Listed(v, rows, decided) \ Rewritten(v, table, choice) :
         Precedes(v, rows, i, j) /\ Precedes(v, table, j, i)
Watched(table, choice) ==
  IF walk = NoWalk \/ (walk # NoWalk /\ walk.done) THEN walk
  ELSE [walk EXCEPT !.moved = @ \cup Rewritten(walk.view, table, choice),
                    !.sunk = @ \/ Sank(walk.view, table, choice)]

WriteRows(table) == rows' = table /\ walk' = Watched(table, decided)

-----------------------------------------------------------------------------
(* The doors. *)

\* discoveredAt is stamped when a page of the source is parsed, and the jobs are
\* stored when the whole search has come back: t may lie behind other discoveries.
Stamped(t) == t \in 1..(clock + 1) /\ clock < MaxClock /\ clock' = clock + 1

\* search(): every job found is normalised, scored 0 and upserted in one stretch.
Upserted(table, batch, t) ==
  LET after[n \in 0..Len(batch)] ==
        IF n = 0 THEN table ELSE UpsertJob(after[n - 1], NormalizeJob(batch[n], 0, t))
  IN  after[Len(batch)]

Search ==
  /\ \E batch \in Batches, t \in 1..MaxClock :
       /\ Stamped(t)
       /\ WriteRows(Upserted(rows, batch, t))
  /\ UNCHANGED <<prepareVars, decided, tagged, deskVars, enabled, gestures>>

\* importCurrentPage(): the fingerprint is taken from the id as the page spells it.
Imported(p, stamp) == [NormalizeJob(p, 0, stamp) EXCEPT !.print = p]

ImportCurrentPage ==
  /\ Stamped(clock + 1)
  /\ \E p \in Postings : WriteRows(UpsertJob(rows, Imported(p, clock + 1)))
  /\ UNCHANGED <<prepareVars, decided, tagged, deskVars, enabled, gestures>>

\* score(): the row asked for is scored and upserted by its source, which may be
\* another row of the same posting.
Score ==
  /\ \E j \in DOMAIN rows, s \in Scores :
       WriteRows(UpsertJob(rows, [rows[j] EXCEPT !.score = s]))
  /\ UNCHANGED <<prepareVars, decided, tagged, deskVars, enabled, clock, gestures>>

\* runCampaign(): saveJob() decides by fingerprint alone.
CampaignSaveJob ==
  /\ \E p \in Postings, s \in Scores, t \in 1..MaxClock :
       LET table == SaveJob(rows, NormalizeJob(p, s, t)) IN
       /\ Stamped(t)
       /\ table # rows /\ WriteRows(table)
  /\ saved' = saved \cup {Len(rows) + 1}
  /\ UNCHANGED <<decided, tagged, deskVars, calls, locks, working, raced, enabled, gestures>>

\* createApplication(): a later statement, which asks for no other application.  Its data
\* names neither its id nor its job, and nothing here tells DISCOVERED and the states the
\* run then leads it through from WAITING_FOR_APPROVAL.
CampaignCreatesApplication ==
  /\ Len(apps) < MaxApps
  /\ \E j \in saved :
       /\ saved' = saved \ {j}
       /\ apps' = Append(apps, [job |-> j, campaign |-> TRUE, state |-> "WAITING_FOR_APPROVAL"])
  /\ UNCHANGED <<jobVars, items, cancelling, calls, locks, working, raced, enabled, walk,
                 clock, gestures>>

\* A job below the threshold, at a limit or only researched; or the process is dead.
CampaignPassesOver ==
  /\ \E j \in saved : saved' = saved \ {j}
  /\ UNCHANGED <<jobVars, deskVars, calls, locks, working, raced, enabled, walk, clock, gestures>>

-----------------------------------------------------------------------------
(* The user's decisions. *)

Gesture == gestures < MaxGestures /\ gestures' = gestures + 1

Decided(ids, choice) == [j \in Jobs |-> IF j \in ids THEN choice ELSE decided[j]]

\* POST /jobs/:id/shortlist|reject, and POST /jobs/bulk, which checks every id first.
Decide ==
  /\ Gesture
  /\ \E ids \in SUBSET DOMAIN rows \ {{}}, choice \in {"shortlisted", "rejected"} :
       /\ decided' = Decided(ids, choice)
       /\ walk' = Watched(rows, decided')
  /\ UNCHANGED <<prepareVars, rows, tagged, deskVars, enabled, clock>>

\* POST /jobs/bulk, action tag.
Tag ==
  /\ Gesture
  /\ \E ids \in SUBSET DOMAIN rows \ {{}} : tagged' = tagged \cup ids
  /\ UNCHANGED <<prepareVars, rows, decided, deskVars, enabled, walk, clock>>

\* SitePolicyRegistry.enable() and disable().  Nothing but PrepareAsked looks at the answer:
\* a disabled connector is still searched, imported and scored.
SetEnabled(on) == enabled' = on

\* configureConnector(): the registry and connector_settings change together and a
\* restart reads them back.
ConfigureConnector ==
  /\ Gesture
  /\ \E on \in BOOLEAN : SetEnabled(on)
  /\ UNCHANGED <<prepareVars, jobVars, deskVars, walk, clock>>

-----------------------------------------------------------------------------
(* Applications and the manual-action inbox. *)

ApplicationsOf(j) == {a \in DOMAIN apps : apps[a].job = j}

\* getPreparedApplicationByJob(): the newest.
NewestOf(j) == {a \in ApplicationsOf(j) : a = Max(ApplicationsOf(j))}

\* assertMaintainedApplicationConnector()
Permits(j) == enabled /\ rows[j].posting \in Maintained

\* POST /jobs/:id/prepare: the connector is asked about, then the call is queued.
PrepareAsked(c) ==
  /\ calls[c] = NoCall
  /\ \E j \in DOMAIN rows :
       Permits(j) /\ calls' = [calls EXCEPT ![c] = [job |-> j, checked |-> FALSE]]
  /\ UNCHANGED <<jobVars, deskVars, locks, saved, working, raced, enabled, walk, clock, gestures>>

Asked(c) == calls[c] # NoCall /\ ~calls[c].checked
Checked(c) == calls[c] # NoCall /\ calls[c].checked
PrintOf(c) == rows[calls[c].job].print

\* Mutant: no lock, the newest application alone decides.
MayPrepareUnlocked(c) == \A a \in NewestOf(calls[c].job) : apps[a].state = "CANCELLED"

\* acquireLock() succeeds and the job has no application but a cancelled one.
MayPrepare(c) ==
  /\ PrintOf(c) \notin locks
  /\ \A a \in NewestOf(calls[c].job) : apps[a].state = "CANCELLED"

\* prepareOnce() up to its first await of the browser.
PrepareChecks(c) ==
  LET j == calls[c].job IN
  /\ Asked(c) /\ MayPrepare(c)
  /\ calls' = [calls EXCEPT ![c].checked = TRUE]
  /\ locks' = locks \cup {PrintOf(c)}
  /\ raced' = IF j \in saved THEN raced \cup {j} ELSE raced
  /\ UNCHANGED <<jobVars, deskVars, saved, working, enabled, walk, clock, gestures>>

\* 409: locked, or a duplicate application (which gives the lock back at once).
PrepareRefused(c) ==
  /\ Asked(c) /\ ~MayPrepare(c)
  /\ calls' = [calls EXCEPT ![c] = NoCall]
  /\ UNCHANGED <<jobVars, deskVars, locks, saved, working, raced, enabled, walk, clock, gestures>>

\* releaseLock(): whoever of this process holds the lock by now.
PrepareReturns(c) ==
  /\ Checked(c)
  /\ calls' = [calls EXCEPT ![c] = NoCall]
  /\ locks' = locks \ {PrintOf(c)}

\* The form is read and the record saved, without another look at the applications.
PrepareSaves(c) ==
  /\ Len(apps) < MaxApps
  /\ PrepareReturns(c)
  /\ apps' = Append(apps, [job |-> calls[c].job, campaign |-> FALSE,
                           state |-> "WAITING_FOR_APPROVAL"])
  /\ UNCHANGED <<jobVars, items, cancelling, saved, working, raced, enabled, walk, clock, gestures>>

\* The browser or the answers fail.
PrepareFails(c) ==
  /\ PrepareReturns(c)
  /\ UNCHANGED <<jobVars, deskVars, saved, working, raced, enabled, walk, clock, gestures>>

\* The process dies, and its lock stays until it lapses.
PrepareDies(c) ==
  /\ Checked(c)
  /\ calls' = [calls EXCEPT ![c] = NoCall]
  /\ UNCHANGED <<jobVars, deskVars, locks, saved, working, raced, enabled, walk, clock, gestures>>

\* expires_at passes, and the next acquireLock() deletes the row: the lock counts as gone.
LockLapses ==
  /\ \E print \in locks :
       /\ locks' = locks \ {print}
       /\ raced' = raced \cup {j \in DOMAIN rows :
                               \E c \in Calls : Checked(c) /\ j = calls[c].job /\ PrintOf(c) = print}
  /\ UNCHANGED <<jobVars, deskVars, calls, saved, working, enabled, walk, clock, gestures>>

\* application(): a record without its job is refused as not found.
InReach(a) == ~apps[a].campaign

\* The lifecycle of the Submission module, as far as the inbox sees it.  A fill or a
\* submit works on its copy of the record ...
WorkBegins ==
  /\ \E a \in DOMAIN apps :
       /\ InReach(a) /\ apps[a].state = "WAITING_FOR_APPROVAL"
       /\ working' = working \cup {a}
  /\ UNCHANGED <<jobVars, deskVars, calls, locks, saved, raced, enabled, walk, clock, gestures>>

\* ... and saves it whatever has become of the application, a cancellation included.
WorkSaves ==
  /\ \E a \in working, s \in ManualStates \cup {"WAITING_FOR_APPROVAL"} :
       /\ apps' = [apps EXCEPT ![a].state = s]
       /\ raced' = IF apps[a].state = "CANCELLED" THEN raced \cup {apps[a].job} ELSE raced
  /\ UNCHANGED <<jobVars, items, cancelling, calls, locks, saved, working, enabled, walk,
                 clock, gestures>>

WorkEnds ==
  /\ \E a \in working : working' = working \ {a}
  /\ UNCHANGED <<jobVars, deskVars, calls, locks, saved, raced, enabled, walk, clock, gestures>>

\* Mutant: syncManualActions() without the set of existing ids; saveManualAction()
\* then writes status='open' over an answer.
RaiseAll ==
  [k \in Applications \X ManualStates |->
     IF k[1] \in DOMAIN apps /\ InReach(k[1]) /\ apps[k[1]].state = k[2]
     THEN "open" ELSE items[k]]

\* syncManualActions(): one item per application and state, raised once.
Raised ==
  [k \in Applications \X ManualStates |->
     IF /\ k[1] \in DOMAIN apps /\ InReach(k[1])
        /\ apps[k[1]].state = k[2] /\ items[k] = "none"
     THEN "open" ELSE items[k]]

\* GET /summary and GET /manual-actions raise what is missing before they answer.
SyncManualActions ==
  /\ items' = Raised
  /\ UNCHANGED <<prepareVars, jobVars, apps, cancelling, enabled, walk, clock, gestures>>

\* updateManualAction(): only an open item is updated, but every item is answered.
Answered(k, status) == [items EXCEPT ![k] = IF @ = "open" THEN status ELSE @]

\* POST /manual-actions/:id/continue
ContinueItem ==
  /\ Gesture
  /\ \E k \in DOMAIN items : items[k] # "none" /\ items' = Answered(k, "continued")
  /\ UNCHANGED <<prepareVars, jobVars, apps, cancelling, enabled, walk, clock>>

\* POST /manual-actions/:id/cancel: the item is answered, then the application is
\* cancelled, whatever the item said before.
CancelItem ==
  /\ Gesture
  /\ \E k \in DOMAIN items :
       /\ items[k] # "none" /\ items' = Answered(k, "cancelled")
       /\ cancelling' = cancelling \cup {k[1]}
  /\ UNCHANGED <<prepareVars, jobVars, apps, enabled, walk, clock>>

\* cancelApplication() returns: the transition map leads to CANCELLED from
\* FAILED_RETRYABLE, refuses it from FORM_CHANGED, and the browser call may fail.
CancelArrives ==
  /\ \E a \in cancelling :
       /\ cancelling' = cancelling \ {a}
       /\ \/ UNCHANGED apps
          \/ /\ apps[a].state # "FORM_CHANGED"
             /\ apps' = [apps EXCEPT ![a].state = "CANCELLED"]
  /\ UNCHANGED <<prepareVars, jobVars, items, enabled, walk, clock, gestures>>

-----------------------------------------------------------------------------
(* A client that reads a list page by page ("Load next page"). *)

\* GET /jobs without a cursor.
WalkStart ==
  /\ walk = NoWalk
  /\ \E v \in Views :
       walk' = [view |-> v, start |-> Listed(v, rows, decided), seen |-> PageFrom(v, 0),
                offset |-> NextOffset(v, 0), done |-> NextOffset(v, 0) = Length(v),
                moved |-> {}, sunk |-> FALSE]
  /\ UNCHANGED <<prepareVars, jobVars, deskVars, enabled, clock, gestures>>

\* GET /jobs with the cursor of the page before.
WalkNext ==
  /\ walk # NoWalk /\ ~walk.done
  /\ walk' = [walk EXCEPT !.seen = @ \cup PageFrom(walk.view, walk.offset),
                          !.offset = NextOffset(walk.view, @),
                          !.done = NextOffset(walk.view, walk.offset) = Length(walk.view)]
  /\ UNCHANGED <<prepareVars, jobVars, deskVars, enabled, clock, gestures>>

CatalogueNext ==
  \/ Search \/ ImportCurrentPage \/ Score
  \/ CampaignSaveJob \/ CampaignCreatesApplication \/ CampaignPassesOver
  \/ Decide \/ Tag \/ ConfigureConnector
  \/ \E c \in Calls :
       \/ PrepareAsked(c) \/ PrepareChecks(c) \/ PrepareRefused(c)
       \/ PrepareSaves(c) \/ PrepareFails(c) \/ PrepareDies(c)
  \/ LockLapses
  \/ WorkBegins \/ WorkSaves \/ WorkEnds
  \/ SyncManualActions \/ ContinueItem \/ CancelItem \/ CancelArrives
  \/ WalkStart \/ WalkNext

CatalogueSpec == CatalogueInit /\ [][CatalogueNext]_catalogueVars

-----------------------------------------------------------------------------
(* Properties. *)

\* The offset cursor over a list that changes while it is read: a finished walk has
\* shown every job that was listed at its start and kept its place, however many jobs
\* were discovered, scored or decided between the pages, unless some listed job fell
\* behind another one meanwhile (page(), GET /jobs, "Load next page").
WalkSeesAll ==
  walk # NoWalk =>
    (walk.done /\ ~walk.sunk => walk.start \ walk.moved \subseteq walk.seen)

\* A posting whose id is spelt the clean way is one job, through whichever of search,
\* import, campaign and prepare it came, and has at most one application that is not
\* cancelled.  Three overlaps can make it two, and no other: a prepare whose lock lapses
\* under it, a prepare that checks between a campaign's saveJob() and createApplication(),
\* and a call that saves its copy over a cancellation (saveJob(), upsertJob(),
\* prepareOnce(), runCampaign()).
OneApplicationPerCleanPosting ==
  \A a, b \in DOMAIN apps :
    LET p == rows[apps[a].job].posting IN
    (/\ a # b /\ rows[apps[b].job].posting = p /\ Clean[p] = p
     /\ apps[a].state # "CANCELLED" /\ apps[b].state # "CANCELLED")
    => apps[a].job = apps[b].job /\ apps[a].job \in raced

\* A manual action that the user has continued or cancelled is never raised again and
\* never changes its answer, whatever the summary, the inbox and a second click do
\* (syncManualActions(), updateManualAction()).
AnsweredItemsStay ==
  [][\A k \in DOMAIN items :
       items[k] \in {"continued", "cancelled"} => items'[k] = items[k]]_catalogueVars

\* docs/campaigns.md: a run "prepares review items above the configured threshold".
\* Every application that is not cancelled can be reviewed.
EveryApplicationIsInReach ==
  \A a \in DOMAIN apps : apps[a].state # "CANCELLED" => InReach(a)
=============================================================================
