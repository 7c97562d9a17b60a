----------------------------- MODULE Submission -----------------------------
(***************************************************************************)
(* The life of the applications to one Wuzzuf job: prepare, fill, approve, *)
(* submit and cancel (apps/orchestrator/src/wuzzuf-tool-service.ts), the   *)
(* rows they are kept in (apps/orchestrator/src/store.ts) and the page     *)
(* they fill (packages/site-adapters/src/wuzzuf-adapter.ts).               *)
(*                                                                         *)
(* A call is one run of such a method.  It keeps its own copy of the       *)
(* application (frame[c].rec), read when it began, and writes the whole    *)
(* copy back.  What the code does between two awaits is one action; the    *)
(* other calls, the human, the site and the clock run in between.          *)
(*                                                                         *)
(* Inline: the methods run in the orchestrator, as many at once as there   *)
(* are Calls, and share its emergency stop.  ~Inline: they run in one      *)
(* browser worker, one after the other, and the approvals are decided in   *)
(* another process between any two statements of theirs.                   *)
(***************************************************************************)
EXTENDS Naturals

CONSTANTS
  MaxApplications,  \* bound: how many applications the job can get
  Requests,         \* approval requests; the set bounds their number
  Calls,            \* method calls that can run at the same time
  Forms,            \* versions of the site's form (formFingerprint)
  Values,           \* what the form's controls can hold (formValueHash)
  Inline,
  Nothing

ASSUME SubmissionAssumption ==
  /\ MaxApplications \in Nat
  /\ Inline \in BOOLEAN
  /\ Nothing \notin Requests \cup Forms \cup Values

Apps == 1 .. MaxApplications

VARIABLES
  created,      \* applications prepared so far; the ids follow the rowids
  record,       \* applications.data
  attempt,      \* the row in submission_attempts: "none" is submission_key NULL
  reservedBy,   \* its approval_id
  request,      \* approval_requests
  lapsed,       \* the requests whose expires_at has passed
  prepareLock,  \* whether the lock application:prepare is in locks
  submitLocks,  \* the applications whose submit lock is in locks
  page,         \* adapter.applications: the browser page of each application
  ctl,          \* controllers: the abort controller of each application
  emergency,    \* EmergencyStop.active in the orchestrator
  frame,        \* what each call is doing
  deciding,     \* the decision between the read and the write of the request
  clicks,       \* ghost: how often the site got the final click
  clicked,      \* ghost: what the page showed at the last click
  edited,       \* ghost: the applications whose page was edited during a submit
  granted,      \* ghost: the requests a human approved
  cancelled,    \* ghost: the applications whose cancel() reported success
  preparedDry,  \* ghost: the applications prepared with dryRun
  torn          \* ghost: those a crash took between their row and their attempt

rows == <<created, record, attempt, reservedBy, request, prepareLock, submitLocks>>
process == <<page, ctl, emergency, frame, deciding>>
ghosts == <<clicks, clicked, edited, granted, cancelled, preparedDry, torn>>
vars == <<rows, lapsed, process, ghosts>>

States ==
  {"none", "WAITING_FOR_APPROVAL", "FILLING", "VALIDATING", "READY_TO_SUBMIT",
   "FORM_CHANGED", "SUBMITTING", "SUBMITTED", "FAILED_PERMANENT", "CANCELLED"}
Content == [form : Forms, values : Values \cup {Nothing}]
Records ==
  [state : States, form : Forms \cup {Nothing}, values : Values \cup {Nothing},
   skipped : BOOLEAN, dryRun : BOOLEAN]
Bindings ==
  [form : Forms \cup {Nothing}, values : Values \cup {Nothing},
   skipped : BOOLEAN, dryRun : BOOLEAN]
Decided == {"approved", "rejected"}
Statuses == {"none", "pending", "expired", "invalidated", "used"} \cup Decided
RequestRows == [app : 0 .. MaxApplications, binding : Bindings, status : Statuses]
Points ==
  {"idle", "preparing", "fillCheck", "filling", "validating", "reviewing",
   "submitCheck", "submitValues", "reserving", "clicking", "confirming", "submitted",
   "uncertain", "cancelling"}
Frames ==
  [pc : Points, app : 0 .. MaxApplications, rec : Records,
   req : Requests \cup {Nothing}, answers : Values \cup {Nothing},
   dry : BOOLEAN, stopped : BOOLEAN]

NoRecord == [state |-> "none", form |-> Nothing, values |-> Nothing,
             skipped |-> FALSE, dryRun |-> FALSE]
\* bindingHash(): everything in the record but its state.
BindingHash(rec) == [form |-> rec.form, values |-> rec.values,
                     skipped |-> rec.skipped, dryRun |-> rec.dryRun]
Idle == [pc |-> "idle", app |-> 0, rec |-> NoRecord, req |-> Nothing,
         answers |-> Nothing, dry |-> FALSE, stopped |-> FALSE]

TypeOK ==
  /\ created \in 0 .. MaxApplications
  /\ record \in [Apps -> Records]
  /\ attempt \in [Apps -> {"none", "reserved", "completed", "uncertain"}]
  /\ reservedBy \in [Apps -> Requests \cup {Nothing}]
  /\ request \in [Requests -> RequestRows]
  /\ lapsed \subseteq Requests
  /\ prepareLock \in BOOLEAN
  /\ submitLocks \subseteq Apps
  /\ page \in [Apps -> Content \cup {Nothing}]
  /\ ctl \in [Apps -> {"none", "live", "aborted"}]
  /\ emergency \in BOOLEAN
  /\ frame \in [Calls -> Frames]
  /\ deciding \in [request : Requests, status : Decided] \cup {Nothing}
  /\ clicks \in [Apps -> Nat]
  /\ clicked \in [Apps -> Content \cup {Nothing}]
  /\ edited \subseteq Apps
  /\ granted \subseteq Requests
  /\ cancelled \subseteq Apps
  /\ preparedDry \subseteq Apps
  /\ torn \subseteq Apps

Init ==
  /\ created = 0
  /\ record = [a \in Apps |-> NoRecord]
  /\ attempt = [a \in Apps |-> "none"]
  /\ reservedBy = [a \in Apps |-> Nothing]
  /\ request = [r \in Requests |->
       [app |-> 0, binding |-> BindingHash(NoRecord), status |-> "none"]]
  /\ lapsed = {}
  /\ prepareLock = FALSE
  /\ submitLocks = {}
  /\ page = [a \in Apps |-> Nothing]
  /\ ctl = [a \in Apps |-> "none"]
  /\ emergency = FALSE
  /\ frame = [c \in Calls |-> Idle]
  /\ deciding = Nothing
  /\ clicks = [a \in Apps |-> 0]
  /\ clicked = [a \in Apps |-> Nothing]
  /\ edited = {}
  /\ granted = {}
  /\ cancelled = {}
  /\ preparedDry = {}
  /\ torn = {}

-----------------------------------------------------------------------------
(* What the methods share. *)

Terminal == {"SUBMITTED", "CANCELLED", "FAILED_PERMANENT"}

\* assertTransition(), for the states that reach the store.
Advances(from) ==
  CASE from = "WAITING_FOR_APPROVAL" -> {"FILLING", "FORM_CHANGED", "CANCELLED"}
    [] from = "FILLING" -> {"VALIDATING", "FORM_CHANGED", "CANCELLED"}
    [] from = "VALIDATING" ->
         {"READY_TO_SUBMIT", "FORM_CHANGED", "FAILED_PERMANENT", "CANCELLED"}
    [] from = "READY_TO_SUBMIT" -> {"SUBMITTING", "FORM_CHANGED", "CANCELLED"}
    [] from = "SUBMITTING" -> {"SUBMITTED", "FAILED_PERMANENT", "CANCELLED"}
    [] OTHER -> {}

\* The worker has an EmergencyStop of its own, which nobody engages.
EmergencySeen == Inline /\ emergency

In(rec, state) == [rec EXCEPT !.state = state]
At(c, point) == frame[c].pc = point
\* The call reads the application; its signal may be aborted already.
Enter(c, point, a, req, answers, dry) ==
  frame' = [frame EXCEPT ![c] =
    [pc |-> point, app |-> a, rec |-> record[a], req |-> req, answers |-> answers,
     dry |-> dry, stopped |-> ctl[a] = "aborted"]]
Continue(c, point, rec) ==
  frame' = [frame EXCEPT ![c].pc = point, ![c].rec = rec]
End(c) == frame' = [frame EXCEPT ![c] = Idle]
Unlock(a) == submitLocks' = submitLocks \ {a}

\* Mutant: the attempt is left as it is when its application ends.
AttemptUntouched(a, state) == attempt[a]

\* Mutant: an attempt whose outcome is unknown is given back.
AttemptReleased(a, state) ==
  CASE attempt[a] = "reserved" /\ state = "SUBMITTED" -> "completed"
    [] attempt[a] = "reserved" /\ state = "FAILED_PERMANENT" -> "none"
    [] OTHER -> attempt[a]

\* What savePreparedApplication() does to the attempt of an application that
\* is over.
AttemptAfter(a, state) ==
  CASE attempt[a] = "reserved" /\ state = "SUBMITTED" -> "completed"
    [] attempt[a] = "reserved" /\ state = "FAILED_PERMANENT" -> "uncertain"
    [] OTHER -> attempt[a]

\* savePreparedApplication(): the copy replaces the row whatever is in it.  The
\* statement about the attempt follows for two states only: SubmitSettles.
Save(a, rec) ==
  /\ record' = [record EXCEPT ![a] = rec]
  /\ UNCHANGED attempt

\* invalidateApprovalRequests(), with the bindings it spares.
Invalidate(a, spared) ==
  request' = [r \in Requests |->
    IF /\ request[r].app = a
       /\ request[r].status \in {"pending", "approved"}
       /\ request[r].binding \notin spared
    THEN [request[r] EXCEPT !.status = "invalidated"]
    ELSE request[r]]

\* invalidateChangedForm(), called with the copy of call c.
FormChanged(c) ==
  LET a == frame[c].app IN
  /\ "FORM_CHANGED" \in Advances(frame[c].rec.state)
  /\ Save(a, In(frame[c].rec, "FORM_CHANGED"))
  /\ Invalidate(a, {})
  /\ End(c)

-----------------------------------------------------------------------------
(* prepareOnce() *)

\* Mutant: nobody asks for an earlier application of the job.
PrepareBeginAgain(c, dry) ==
  /\ At(c, "idle")
  /\ ~EmergencySeen
  /\ ~prepareLock
  /\ created < MaxApplications
  /\ prepareLock' = TRUE
  /\ frame' = [frame EXCEPT ![c].pc = "preparing", ![c].dry = dry]
  /\ UNCHANGED <<created, record, attempt, reservedBy, request, submitLocks, lapsed,
                 page, ctl, emergency, deciding, ghosts>>

\* The lock, then the look at the job's latest application.
PrepareBegin(c, dry) ==
  /\ At(c, "idle")
  /\ ~EmergencySeen
  /\ ~prepareLock
  /\ created < MaxApplications
  /\ created > 0 => record[created].state = "CANCELLED"
  /\ prepareLock' = TRUE
  /\ frame' = [frame EXCEPT ![c].pc = "preparing", ![c].dry = dry]
  /\ UNCHANGED <<created, record, attempt, reservedBy, request, submitLocks, lapsed,
                 page, ctl, emergency, deciding, ghosts>>

\* The page is open and its fields are read; the application is stored.
PrepareEnd(c) ==
  LET a == created + 1 IN
  /\ At(c, "preparing")
  /\ created < MaxApplications
  /\ created' = a
  /\ \E form \in Forms :
       /\ Save(a, [state |-> "WAITING_FOR_APPROVAL", form |-> form, values |-> Nothing,
                   skipped |-> FALSE, dryRun |-> frame[c].dry])
       /\ page' = [page EXCEPT ![a] = [form |-> form, values |-> Nothing]]
  /\ ctl' = [ctl EXCEPT ![a] = "live"]
  /\ preparedDry' = IF frame[c].dry THEN preparedDry \cup {a} ELSE preparedDry
  /\ prepareLock' = FALSE
  /\ End(c)
  /\ UNCHANGED <<reservedBy, request, submitLocks, lapsed, emergency, deciding,
                 clicks, clicked, edited, granted, cancelled, torn>>

PrepareFails(c) ==
  /\ At(c, "preparing")
  /\ prepareLock' = FALSE
  /\ End(c)
  /\ UNCHANGED <<created, record, attempt, reservedBy, request, submitLocks, lapsed,
                 page, ctl, emergency, deciding, ghosts>>

-----------------------------------------------------------------------------
(* fillOnce() *)

FillBegin(c, a, dry, answers) ==
  /\ At(c, "idle")
  /\ ~EmergencySeen
  /\ a <= created
  /\ record[a].state \notin Terminal
  /\ ctl[a] # "none"
  /\ Enter(c, "fillCheck", a, Nothing, answers, dry)
  /\ UNCHANGED <<rows, lapsed, page, ctl, emergency, deciding, ghosts>>

\* assertFormUnchanged(), then the advance to FILLING.
FillCheck(c) ==
  LET a == frame[c].app IN
  /\ At(c, "fillCheck")
  /\ page[a] # Nothing
  /\ \/ /\ page[a].form # frame[c].rec.form
        /\ FormChanged(c)
     \/ /\ page[a].form = frame[c].rec.form
        /\ "FILLING" \in Advances(frame[c].rec.state)
        /\ Continue(c, "filling", In(frame[c].rec, "FILLING"))
        /\ UNCHANGED <<record, attempt, request>>
  /\ UNCHANGED <<created, reservedBy, prepareLock, submitLocks, lapsed, page, ctl,
                 emergency, deciding, ghosts>>

\* Mutant: a fill that is not dry ends the dry run.
FillPageUndried(c) ==
  LET a == frame[c].app IN
  /\ At(c, "filling")
  /\ ~frame[c].stopped
  /\ page[a] # Nothing
  /\ page' = IF frame[c].dry THEN page
             ELSE [page EXCEPT ![a].values = frame[c].answers]
  /\ \E skipped \in BOOLEAN :
       Continue(c, "validating",
         [In(frame[c].rec, "VALIDATING") EXCEPT
            !.skipped = skipped, !.dryRun = frame[c].dry])
  /\ UNCHANGED <<rows, lapsed, ctl, emergency, deciding, ghosts>>

\* fillFields() and the upload; a dry run types nothing.
FillPage(c) ==
  LET a == frame[c].app IN
  /\ At(c, "filling")
  /\ ~frame[c].stopped
  /\ page[a] # Nothing
  /\ page' = IF frame[c].dry THEN page
             ELSE [page EXCEPT ![a].values = frame[c].answers]
  /\ \E skipped \in BOOLEAN :
       Continue(c, "validating",
         [In(frame[c].rec, "VALIDATING") EXCEPT
            !.skipped = skipped, !.dryRun = @ \/ frame[c].dry])
  /\ UNCHANGED <<rows, lapsed, ctl, emergency, deciding, ghosts>>

\* validate(), and the values read back unless the fill is dry.
FillValidate(c) ==
  LET a == frame[c].app
      read == IF frame[c].dry THEN frame[c].rec
              ELSE [frame[c].rec EXCEPT !.values = page[a].values]
  IN
  /\ At(c, "validating")
  /\ page[a] # Nothing
  /\ \/ /\ ~frame[c].dry
        /\ page[a].values # frame[c].answers
        /\ FormChanged(c)
     \/ /\ frame[c].dry \/ page[a].values = frame[c].answers
        /\ \E state \in {"READY_TO_SUBMIT", "VALIDATING"} :
             Continue(c, "reviewing", In(read, state))
        /\ UNCHANGED <<record, attempt, request>>
  /\ UNCHANGED <<created, reservedBy, prepareLock, submitLocks, lapsed, page, ctl,
                 emergency, deciding, ghosts>>

\* The screenshot is taken, or not; the copy is stored.
FillEnd(c) ==
  LET a == frame[c].app IN
  /\ At(c, "reviewing")
  /\ Invalidate(a, {BindingHash(frame[c].rec)})
  /\ Save(a, frame[c].rec)
  /\ End(c)
  /\ UNCHANGED <<created, reservedBy, prepareLock, submitLocks, lapsed, page, ctl,
                 emergency, deciding, ghosts>>

\* Any await may throw: the page is gone, the signal is aborted, the browser
\* times out, the state does not allow the advance.  Nothing was stored yet.
FillFails(c) ==
  /\ frame[c].pc \in {"fillCheck", "filling", "validating"}
  /\ End(c)
  /\ UNCHANGED <<rows, lapsed, page, ctl, emergency, deciding, ghosts>>

-----------------------------------------------------------------------------
(* requestSubmissionApproval() and decideApproval() *)

RequestApproval(r, a) ==
  /\ ~emergency
  /\ a <= created
  /\ record[a].state = "READY_TO_SUBMIT"
  /\ ~record[a].dryRun
  /\ ~record[a].skipped
  /\ request[r].status = "none"
  /\ request' = [q \in Requests |->
       CASE q = r -> [app |-> a, binding |-> BindingHash(record[a]), status |-> "pending"]
         [] /\ q # r
            /\ request[q].app = a
            /\ request[q].status \in {"pending", "approved"}
            /\ request[q].binding # BindingHash(record[a]) ->
              [request[q] EXCEPT !.status = "invalidated"]
         [] OTHER -> request[q]]
  /\ UNCHANGED <<created, record, attempt, reservedBy, prepareLock, submitLocks, lapsed,
                 process, ghosts>>

\* The request and the application are read; a stale request is closed.
DecisionRefused(r) ==
  /\ deciding = Nothing
  /\ request[r].status = "pending"
  /\ request' = [request EXCEPT ![r].status =
       IF r \in lapsed THEN "expired" ELSE "invalidated"]
  /\ r \in lapsed \/ request[r].binding # BindingHash(record[request[r].app])
  /\ UNCHANGED <<created, record, attempt, reservedBy, prepareLock, submitLocks, lapsed,
                 process, ghosts>>

Decidable(r) ==
  /\ deciding = Nothing
  /\ request[r].status = "pending"
  /\ r \notin lapsed
  /\ request[r].binding = BindingHash(record[request[r].app])

Decide(r, status) ==
  /\ request' = [request EXCEPT ![r].status = status]
  /\ granted' = IF status = "approved" THEN granted \cup {r} ELSE granted
  /\ UNCHANGED <<created, record, attempt, reservedBy, prepareLock, submitLocks, lapsed,
                 page, ctl, emergency, frame, clicks, clicked, edited, cancelled,
                 preparedDry, torn>>

\* One process: nothing comes between the read and the write.
DecideApproval(r, status) ==
  /\ Inline
  /\ Decidable(r)
  /\ Decide(r, status)
  /\ UNCHANGED deciding

\* Two processes: the worker's statements come in between.
ReadApproval(r, status) ==
  /\ ~Inline
  /\ Decidable(r)
  /\ deciding' = [request |-> r, status |-> status]
  /\ UNCHANGED <<rows, lapsed, page, ctl, emergency, frame, ghosts>>

SaveApproval ==
  /\ deciding # Nothing
  /\ Decide(deciding.request, deciding.status)
  /\ deciding' = Nothing

-----------------------------------------------------------------------------
(* submitOnce() *)

\* assertApproval() up to the expiry: whoever submits has the token of an
\* approved request.
Presented(r, a) ==
  /\ request[r].app = a
  /\ request[r].status = "approved"

Submittable(c, a) ==
  /\ At(c, "idle")
  /\ ~EmergencySeen
  /\ a <= created
  /\ record[a].state = "READY_TO_SUBMIT"
  /\ ~record[a].dryRun
  /\ a \notin submitLocks

SubmitBegin(c, a, r) ==
  /\ Submittable(c, a)
  /\ Presented(r, a)
  /\ r \notin lapsed
  /\ request[r].binding = BindingHash(record[a])
  /\ submitLocks' = submitLocks \cup {a}
  /\ Enter(c, "submitCheck", a, r, Nothing, FALSE)
  /\ UNCHANGED <<created, record, attempt, reservedBy, request, prepareLock, lapsed,
                 page, ctl, emergency, deciding, ghosts>>

\* assertApproval() closes a stale request and throws.
SubmitRefused(c, a, r) ==
  /\ Submittable(c, a)
  /\ Presented(r, a)
  /\ \/ r \in lapsed
     \/ request[r].binding # BindingHash(record[a])
  /\ request' = [request EXCEPT ![r].status =
       IF r \in lapsed THEN "expired" ELSE "invalidated"]
  /\ UNCHANGED <<created, record, attempt, reservedBy, prepareLock, submitLocks, lapsed,
                 process, ghosts>>

\* assertFormUnchanged() and assertFormValuesUnchanged().
SubmitCheck(c, point, next, same) ==
  LET a == frame[c].app IN
  /\ At(c, point)
  /\ page[a] # Nothing
  /\ \/ /\ same
        /\ Continue(c, next, frame[c].rec)
        /\ UNCHANGED <<record, attempt, request, submitLocks>>
     \/ /\ ~same
        /\ FormChanged(c)
        /\ Unlock(a)
  /\ UNCHANGED <<created, reservedBy, prepareLock, lapsed, page, ctl, emergency,
                 deciding, ghosts>>

SubmitCheckForm(c) ==
  SubmitCheck(c, "submitCheck", "submitValues",
              page[frame[c].app].form = frame[c].rec.form)

\* Mutant: the values in the page are not compared.
SubmitCheckNoValues(c) == SubmitCheck(c, "submitValues", "reserving", TRUE)

SubmitCheckValues(c) ==
  SubmitCheck(c, "submitValues", "reserving",
              page[frame[c].app].values = frame[c].rec.values)

\* Mutant: the statement does not ask for submission_key IS NULL.
ReserveAgain(a, r) == reservedBy' = [reservedBy EXCEPT ![a] = r]

\* The transaction of reserveSubmissionAttempt().
Reserve(a, r) ==
  /\ attempt[a] = "none"
  /\ reservedBy' = [reservedBy EXCEPT ![a] = r]

\* Mutant: the approval is left approved.
ApprovalKept(r) == UNCHANGED request

\* markApprovalUsed() writes the copy read by SubmitBegin, approved or not.
MarkApprovalUsed(r) == request' = [request EXCEPT ![r].status = "used"]

\* validate() found no fault: the attempt is reserved, the approval used and
\* the application stored as SUBMITTING; then the signal is looked at once.
SubmitReserve(c) ==
  LET a == frame[c].app
      rec == In(frame[c].rec, "SUBMITTING")
  IN
  /\ At(c, "reserving")
  /\ page[a] # Nothing
  /\ Reserve(a, frame[c].req)
  /\ MarkApprovalUsed(frame[c].req)
  /\ record' = [record EXCEPT ![a] = rec]
  /\ attempt' = [attempt EXCEPT ![a] = "reserved"]
  /\ \/ /\ ctl[a] = "live" /\ ~EmergencySeen
        /\ Continue(c, "clicking", rec)
        /\ UNCHANGED submitLocks
     \/ /\ ctl[a] # "live" \/ EmergencySeen
        /\ End(c)
        /\ Unlock(a)
  /\ UNCHANGED <<created, prepareLock, lapsed, page, ctl, emergency, deciding, ghosts>>

\* onSubmitStarted() and the click.
SubmitClick(c) ==
  LET a == frame[c].app IN
  /\ At(c, "clicking")
  /\ page[a] # Nothing
  /\ clicks' = [clicks EXCEPT ![a] = @ + 1]
  /\ clicked' = [clicked EXCEPT ![a] = page[a]]
  /\ Continue(c, "confirming", frame[c].rec)
  /\ UNCHANGED <<rows, lapsed, page, ctl, emergency, deciding, edited, granted,
                 cancelled, preparedDry, torn>>

\* The page shows a confirmation that was not there before; the row is stored.
SubmitConfirmed(c) ==
  LET a == frame[c].app IN
  /\ At(c, "confirming")
  /\ page[a] # Nothing
  /\ Save(a, In(frame[c].rec, "SUBMITTED"))
  /\ Continue(c, "submitted", frame[c].rec)
  /\ UNCHANGED <<created, reservedBy, request, prepareLock, submitLocks, lapsed, page,
                 ctl, emergency, deciding, ghosts>>

\* The catch block after onSubmitStarted(): the click may have failed itself.
SubmitUncertain(c) ==
  LET a == frame[c].app IN
  /\ frame[c].pc \in {"clicking", "confirming"}
  /\ Save(a, In(frame[c].rec, "FAILED_PERMANENT"))
  /\ Continue(c, "uncertain", frame[c].rec)
  /\ UNCHANGED <<created, reservedBy, request, prepareLock, submitLocks, lapsed, page,
                 ctl, emergency, deciding, ghosts>>

Settling == {"submitted", "uncertain"}

\* The second statement of that save: the attempt gets its outcome.  A submitted
\* application's page is closed then.
SubmitSettles(c) ==
  LET a == frame[c].app IN
  /\ frame[c].pc \in Settling
  /\ \/ /\ At(c, "submitted")
        /\ attempt' = [attempt EXCEPT ![a] = AttemptAfter(a, "SUBMITTED")]
        /\ page' = [page EXCEPT ![a] = Nothing]
        /\ ctl' = [ctl EXCEPT ![a] = "none"]
     \/ /\ At(c, "uncertain")
        /\ attempt' = [attempt EXCEPT ![a] = AttemptAfter(a, "FAILED_PERMANENT")]
        /\ UNCHANGED <<page, ctl>>
  /\ Unlock(a)
  /\ End(c)
  /\ UNCHANGED <<created, record, reservedBy, request, prepareLock, lapsed, emergency,
                 deciding, ghosts>>

\* A save is between its two statements: nothing else of its process comes in
\* between, the other process and a crash do.
Saving == \E c \in Calls : frame[c].pc \in Settling

\* The catch block before it, which stores the copy of the application too.
SubmitFails(c) ==
  LET a == frame[c].app IN
  /\ frame[c].pc \in {"submitCheck", "submitValues", "reserving", "clicking"}
  /\ Save(a, frame[c].rec)
  /\ Unlock(a)
  /\ End(c)
  /\ UNCHANGED <<created, reservedBy, request, prepareLock, lapsed, page, ctl, emergency,
                 deciding, ghosts>>

-----------------------------------------------------------------------------
(* cancel() *)

\* Mutant: the page is left open.
CancelBeginOpen(c, a) ==
  /\ At(c, "idle")
  /\ a <= created
  /\ record[a].state \notin Terminal
  /\ ctl' = [ctl EXCEPT ![a] = IF @ = "live" THEN "aborted" ELSE @]
  /\ Enter(c, "cancelling", a, Nothing, Nothing, FALSE)
  /\ UNCHANGED <<rows, lapsed, page, emergency, deciding, ghosts>>

\* The emergency stop does not hold it up.
CancelBegin(c, a) ==
  /\ At(c, "idle")
  /\ a <= created
  /\ record[a].state \notin Terminal
  /\ ctl' = [ctl EXCEPT ![a] = IF @ = "live" THEN "aborted" ELSE @]
  /\ page' = [page EXCEPT ![a] = Nothing]
  /\ Enter(c, "cancelling", a, Nothing, Nothing, FALSE)
  /\ UNCHANGED <<rows, lapsed, emergency, deciding, ghosts>>

\* The page is closed; an application whose form changed cannot advance.
CancelEnd(c) ==
  LET a == frame[c].app IN
  /\ At(c, "cancelling")
  /\ \/ /\ "CANCELLED" \in Advances(frame[c].rec.state)
        /\ Invalidate(a, {})
        /\ Save(a, In(frame[c].rec, "CANCELLED"))
        /\ cancelled' = cancelled \cup {a}
     \/ /\ "CANCELLED" \notin Advances(frame[c].rec.state)
        /\ UNCHANGED <<record, attempt, request, cancelled>>
  /\ End(c)
  /\ UNCHANGED <<created, reservedBy, prepareLock, submitLocks, lapsed, page, ctl,
                 emergency, deciding, clicks, clicked, edited, granted, preparedDry,
                 torn>>

-----------------------------------------------------------------------------
(* The human, the site, the clock, the emergency stop and the crashes. *)

\* Call c has begun to submit a and has not clicked yet.
Submits(c, a) ==
  /\ frame[c].app = a
  /\ frame[c].pc \in {"submitCheck", "submitValues", "reserving", "clicking"}

\* A control is edited in the open page, or the site renders another form.
PageChanges(a) ==
  /\ page[a] # Nothing
  /\ \E content \in Content :
       /\ content.form = page[a].form \/ content.values = page[a].values
       /\ content # page[a]
       /\ page' = [page EXCEPT ![a] = content]
  /\ edited' = IF \E c \in Calls : Submits(c, a) THEN edited \cup {a} ELSE edited
  /\ UNCHANGED <<rows, lapsed, ctl, emergency, frame, deciding, clicks, clicked, granted,
                 cancelled, preparedDry, torn>>

RequestLapses(r) ==
  /\ request[r].status \in {"pending", "approved"}
  /\ lapsed' = lapsed \cup {r}
  /\ r \notin lapsed
  /\ UNCHANGED <<rows, process, ghosts>>

\* A lock's lease ends after lockLeaseMs and is never renewed: acquireLock()
\* deletes the row whether or not its owner is still at work.
LockLapses ==
  /\ \/ /\ prepareLock
        /\ prepareLock' = FALSE
        /\ UNCHANGED submitLocks
     \/ \E a \in submitLocks :
          /\ Unlock(a)
          /\ UNCHANGED prepareLock
  /\ UNCHANGED <<created, record, attempt, reservedBy, request, lapsed, process, ghosts>>

\* engage() aborts the signal that the running fills were given.
EmergencyEngage ==
  /\ ~emergency
  /\ emergency' = TRUE
  /\ frame' = [c \in Calls |->
       IF Inline /\ frame[c].pc # "idle"
       THEN [frame[c] EXCEPT !.stopped = TRUE] ELSE frame[c]]
  /\ UNCHANGED <<rows, lapsed, page, ctl, deciding, ghosts>>

EmergencyReset ==
  /\ emergency
  /\ emergency' = FALSE
  /\ UNCHANGED <<rows, lapsed, page, ctl, frame, deciding, ghosts>>

\* The process that runs the calls is gone, with its pages and controllers.
Gone ==
  /\ frame' = [c \in Calls |-> Idle]
  /\ page' = [a \in Apps |-> Nothing]
  /\ ctl' = [a \in Apps |-> "none"]
  /\ emergency' = (emergency /\ ~Inline)
  /\ torn' = torn \cup {frame[c].app : c \in {d \in Calls : frame[d].pc \in Settling}}
  /\ UNCHANGED <<created, prepareLock, submitLocks, lapsed, deciding,
                 clicks, clicked, edited, granted, cancelled, preparedDry>>

Crash ==
  /\ Gone
  /\ UNCHANGED <<record, attempt, reservedBy, request>>

\* It dies among the statements of SubmitReserve, which no transaction holds
\* together: the attempt is reserved, the approval perhaps not yet used.
CrashInReserve(c) ==
  LET a == frame[c].app IN
  /\ ~Saving
  /\ At(c, "reserving")
  /\ page[a] # Nothing
  /\ Reserve(a, frame[c].req)
  /\ attempt' = [attempt EXCEPT ![a] = "reserved"]
  /\ MarkApprovalUsed(frame[c].req) \/ UNCHANGED request
  /\ Gone
  /\ UNCHANGED record

CoordinatorCrash ==
  /\ ~Inline
  /\ emergency' = FALSE
  /\ deciding' = Nothing
  /\ UNCHANGED <<rows, lapsed, page, ctl, frame, ghosts>>

CallStep(c) ==
  \/ SubmitSettles(c)
  \/ /\ ~Saving
     /\ \/ PrepareEnd(c) \/ PrepareFails(c)
        \/ FillCheck(c) \/ FillPage(c) \/ FillValidate(c) \/ FillEnd(c) \/ FillFails(c)
        \/ SubmitCheckForm(c) \/ SubmitCheckValues(c) \/ SubmitReserve(c)
        \/ SubmitClick(c) \/ SubmitConfirmed(c) \/ SubmitUncertain(c) \/ SubmitFails(c)
        \/ CancelEnd(c)

Begin(c) ==
  /\ ~Saving
  /\ \/ \E dry \in BOOLEAN : PrepareBegin(c, dry)
     \/ \E a \in Apps :
          \/ \E dry \in BOOLEAN, answers \in Values : FillBegin(c, a, dry, answers)
          \/ \E r \in Requests : SubmitBegin(c, a, r) \/ SubmitRefused(c, a, r)
          \/ CancelBegin(c, a)

\* The orchestrator's side; with inline calls it is the process that saves.
Approval ==
  /\ Inline => ~Saving
  /\ \/ \E r \in Requests :
          \/ \E a \in Apps : RequestApproval(r, a)
          \/ DecisionRefused(r)
          \/ \E status \in Decided : DecideApproval(r, status) \/ ReadApproval(r, status)
     \/ SaveApproval

Surroundings ==
  \/ \E a \in Apps : PageChanges(a)
  \/ \E r \in Requests : RequestLapses(r)
  \/ LockLapses
  \/ (Inline => ~Saving) /\ (EmergencyEngage \/ EmergencyReset)

Failure == Crash \/ CoordinatorCrash \/ \E c \in Calls : CrashInReserve(c)

Next ==
  \/ \E c \in Calls : Begin(c) \/ CallStep(c)
  \/ Approval
  \/ Surroundings
  \/ Failure

Spec == Init /\ [][Next]_vars

\* A user who keeps following the advice of the errors: cancel what is left
\* and prepare again.  Every call ends, and locks lapse.
FollowAdvice(c) ==
  \/ \E dry \in BOOLEAN : PrepareBegin(c, dry)
  \/ \E a \in Apps : CancelBegin(c, a)

FairSpec ==
  /\ Spec
  /\ WF_vars(LockLapses)
  /\ \A c \in Calls : WF_vars(CallStep(c)) /\ WF_vars(FollowAdvice(c))

-----------------------------------------------------------------------------
(* Properties. *)

\* docs/application-lifecycle.md:20 "the single browser click": whatever calls,
\* lapsed locks, stale copies and crashes come together, an application's
\* final button is clicked at most once.
OneClickPerApplication == \A a \in Apps : clicks[a] <= 1

\* docs/approval-flow.md:3 "approvals are one-use": a click was reserved with
\* an approval that a human granted, for this very application, and that is
\* used up, even if somebody wrote an older copy of it meanwhile.
ClickedWithConsent ==
  \A a \in Apps :
    clicks[a] > 0 =>
      \E r \in granted :
        /\ reservedBy[a] = r
        /\ request[r].app = a
        /\ request[r].status = "used"

\* docs/approval-flow.md:3 "A human decision approves that exact revision": a
\* page edited at any time before the submit began is never clicked unless a
\* human approved what it shows.
ClickedAsReviewed ==
  \A a \in Apps \ edited :
    clicks[a] > 0 =>
      LET approved == request[reservedBy[a]].binding IN
      clicked[a] = [form |-> approved.form, values |-> approved.values]

\* The two tables agree: an application stored as SUBMITTED was clicked and its
\* attempt is completed, one that failed after the click is uncertain.  They are
\* written by two statements (store.ts:135): between these, and for good after a
\* crash there, the attempt is still reserved, never free or the other outcome.
Unsettled(a) ==
  /\ attempt[a] = "reserved"
  /\ a \in torn \/ \E c \in Calls : frame[c].app = a /\ frame[c].pc \in Settling
AttemptAgrees ==
  \A a \in Apps :
    /\ record[a].state = "SUBMITTED" =>
         clicks[a] = 1 /\ (attempt[a] = "completed" \/ Unsettled(a))
    /\ record[a].state = "FAILED_PERMANENT" =>
         attempt[a] = "uncertain" \/ Unsettled(a)

\* Once cancel() reported success no call, however far it had come, clicks
\* the application's button any more.
NoClickAfterCancel ==
  [][\A a \in cancelled : clicks'[a] = clicks[a]]_vars

\* An application prepared as a dry run is never submitted, whatever the fill
\* that follows says.
DryRunNeverClicks == \A a \in preparedDry : clicks[a] = 0

\* A job has one application at a time: with one worker an application is
\* prepared only when all the earlier ones are cancelled for good.
OneOpenApplication ==
  \A a, b \in Apps : a < b /\ b <= created => record[a].state = "CANCELLED"

\* The attempt of an application is handed in, started and settled as
\* docs/browser-worker.md:5 promises of a submission job.
AttemptPhase(state) ==
  CASE state = "none" -> "new" [] state = "reserved" -> "open" [] OTHER -> "settled"
Promise == INSTANCE AtMostOnce
  WITH Items <- Apps,
       phase <- [a \in Apps |-> AttemptPhase(attempt[a])],
       starts <- clicks
AttemptsAtMostOnce == Promise!Spec

\* docs/persistence.md:5, the application transitions: a stored state changes
\* along assertTransition() (packages/shared/src/validation.ts:74) only, so a
\* cancelled application stays cancelled.
CancelledStays ==
  [][\A a \in Apps : record[a].state = "CANCELLED" => record'[a].state = "CANCELLED"]_vars

\* docs/browser-worker.md:5 "A click with an uncertain outcome records a
\* verification-required terminal result": when nobody works on it any more,
\* a clicked application is SUBMITTED or FAILED_PERMANENT.
ClickIsRecorded ==
  \A a \in Apps :
    clicks[a] > 0 /\ (\A c \in Calls : frame[c].app # a) =>
      record[a].state \in {"SUBMITTED", "FAILED_PERMANENT"}

\* SKILL.md:300 "Reinspect the form, prepare a new review": the user of an
\* application whose form changed gets a new one by asking for it.
FormChangeRecovers ==
  \A a \in Apps :
    (a < MaxApplications /\ created = a /\ record[a].state = "FORM_CHANGED")
      ~> (created > a)
=============================================================================
