------------------------------ MODULE Approvals ------------------------------
(***************************************************************************)
(* The two doors to a submission, on top of the dashboard's sessions: the   *)
(* dashboard asks, decides and submits with a token the daemon keeps in     *)
(* memory; the extension's side panel (or an agent) asks through the tools  *)
(* route, the panel decides and keeps the token it is answered.  One        *)
(* application, filled and ready, is looked at; what its record goes        *)
(* through is Submission's.                                                 *)
(***************************************************************************)
EXTENDS Dashboard, Sequences

CONSTANTS
  ApprovalTtl,   \* ttlSeconds, in ticks
  MaxRequests    \* bound

ASSUME ApprovalsAssumption == ApprovalTtl \in Nat /\ MaxRequests \in Nat

VARIABLES
  application,   \* its state, as far as approvals go
  requests,      \* approval_requests, in the order they were saved
  answered,      \* idempotency_records: the request the tools route answers, 0 for none
  held,          \* DashboardSessions.approvalTokens: the requests whose token it keeps
  submitting,    \* the submissions someone waits for: the door and the request
  paired,        \* the extension has a session of the bridge
  panel,         \* the request whose token the side panel keeps, 0 for none
  approvedHere,  \* history: approved from the dashboard since the daemon started
  expiredAnswer  \* history: a ready application was answered with an expired request

approvalVars == <<application, requests, answered, held, submitting, paired, panel,
                  approvedHere, expiredAnswer>>

Request == [status : {"pending", "approved", "rejected", "expired", "used", "invalidated"},
            until : Nat]
Ids == DOMAIN requests
States == {"ready",       \* READY_TO_SUBMIT
           "submitting",  \* the attempt is reserved: SUBMITTING
           "submitted",   \* SUBMITTED, with its submissionResult
           "closed"}      \* the form changed, or the outcome is unknown
Doors == {"dashboard", "panel"}

ApprovalsTypeOK ==
  /\ application \in States /\ paired \in BOOLEAN
  /\ Len(requests) <= MaxRequests /\ \A r \in Ids : requests[r] \in Request
  /\ submitting \subseteq Doors \X Ids
  /\ {answered, panel} \subseteq 0..MaxRequests
  /\ held \subseteq Ids /\ approvedHere \subseteq Ids /\ expiredAnswer \in BOOLEAN

ApprovalsInit ==
  /\ DashboardInit
  /\ application = "ready" /\ requests = <<>> /\ answered = 0
  /\ held = {} /\ submitting = {} /\ paired = FALSE /\ panel = 0
  /\ approvedHere = {} /\ expiredAnswer = FALSE

Expired(r) == requests[r].until <= now
Becomes(r, status) == requests' = [requests EXCEPT ![r].status = status]

(* A mutation of a tab takes effect, or a request of the extension.         *)
FromTab(t) ==
  /\ Mutates(t)
  /\ UNCHANGED <<now, daemonVars, cookies, tabs, historyVars>>
FromPanel == paired /\ Allowed /\ OtherClient

(* Pairing, and its end: the session expires or the browser closes.         *)
Pair ==
  /\ ~paired /\ Allowed /\ OtherClient
  /\ paired' = TRUE
  /\ UNCHANGED <<application, requests, answered, held, submitting, panel, approvedHere, expiredAnswer>>
Unpair ==
  /\ paired /\ paired' = FALSE /\ panel' = 0
  /\ UNCHANGED <<dashboardVars, application, requests, answered, held, submitting,
                 approvedHere, expiredAnswer>>

(* requestSubmissionApproval(): requests of the same binding stay.          *)
Saved == Append(requests, [status |-> "pending", until |-> now + ApprovalTtl])

(* The dashboard draws a key for every request.                             *)
AskFromDashboard(t) ==
  /\ FromTab(t)
  /\ application = "ready" /\ Len(requests) < MaxRequests
  /\ requests' = Saved
  /\ UNCHANGED <<application, answered, held, submitting, paired, panel, approvedHere, expiredAnswer>>

(* The panel and the agents send none: the key is the hash of the input,    *)
(* and the row that succeeded answers every repetition.                     *)
AskFromPanel ==
  /\ FromPanel
  /\ \/ /\ answered = 0 /\ application = "ready" /\ Len(requests) < MaxRequests
        /\ requests' = Saved /\ answered' = Len(requests) + 1
        /\ UNCHANGED expiredAnswer
     \/ /\ answered # 0
        /\ expiredAnswer' = (expiredAnswer \/ (application = "ready" /\ Expired(answered)))
        /\ UNCHANGED <<requests, answered>>
  /\ UNCHANGED <<application, held, submitting, paired, panel, approvedHere>>

(* decideApproval(): pending, and not expired.                              *)
Decided(r, approved) ==
  /\ requests[r].status = "pending"
  /\ Becomes(r, IF Expired(r) THEN "expired" ELSE IF approved THEN "approved" ELSE "rejected")

(* rememberApprovalToken(): only a decision that approves has a token.      *)
Remembered(r) == IF requests'[r].status = "approved" THEN held \cup {r} ELSE held

DecideFromDashboard(t, r, approved) ==
  /\ FromTab(t)
  /\ Decided(r, approved)
  /\ held' = Remembered(r)
  /\ approvedHere' = IF requests'[r].status = "approved" THEN approvedHere \cup {r} ELSE approvedHere
  /\ UNCHANGED <<application, answered, submitting, paired, panel, expiredAnswer>>

(* The panel has the token when the answer arrives.                         *)
DecideFromPanel(r, approved) ==
  /\ FromPanel
  /\ Decided(r, approved)
  /\ panel' \in IF requests'[r].status = "approved" THEN {panel, r} ELSE {panel}
  /\ UNCHANGED <<application, answered, held, submitting, paired, approvedHere, expiredAnswer>>

(* approvalToken(): an expired one is deleted and the request refused.      *)
TokenAtHand(r) == r \in held /\ ~Expired(r)

(* POST /approvals/:id/submit waits for the submission.                     *)
SubmitFromDashboard(t, r) ==
  /\ FromTab(t)
  /\ r \in held
  /\ IF TokenAtHand(r)
       THEN submitting' = submitting \cup {<<"dashboard", r>>} /\ UNCHANGED held
       ELSE held' = held \ {r} /\ UNCHANGED submitting
  /\ UNCHANGED <<application, requests, answered, paired, panel, approvedHere, expiredAnswer>>

SubmitFromPanel ==
  /\ FromPanel
  /\ panel # 0 /\ submitting' = submitting \cup {<<"panel", panel>>}
  /\ UNCHANGED <<application, requests, answered, held, paired, panel, approvedHere, expiredAnswer>>

(* submitOnce() of a ready application: assertApproval() found the approval *)
(* and it had not expired; the attempt is reserved and the approval used.   *)
Reserves(c) ==
  /\ application = "ready" /\ requests[c[2]].status = "approved"
  /\ application' = "submitting" /\ Becomes(c[2], "used")
  /\ UNCHANGED <<dashboardVars, answered, held, submitting, paired, panel, approvedHere, expiredAnswer>>

(* The click, or its unknown outcome: also when nobody waits for it.        *)
Clicks ==
  /\ application = "submitting" /\ application' \in {"submitted", "closed"}
  /\ UNCHANGED <<dashboardVars, requests, answered, held, submitting, paired, panel,
                 approvedHere, expiredAnswer>>

(* The call succeeds: its own submission, or that of another request, whose *)
(* result submitOnce() returns before it looks at the approval.  The        *)
(* dashboard forgets the token of the request it was asked with, the panel  *)
(* the one it has.                                                          *)
Succeeds(c) ==
  /\ application = "submitted" /\ submitting' = submitting \ {c}
  /\ IF c[1] = "dashboard" THEN held' = held \ {c[2]} /\ UNCHANGED panel
                           ELSE panel' = 0 /\ UNCHANGED held
  /\ UNCHANGED <<dashboardVars, application, requests, answered, paired, approvedHere,
                 expiredAnswer>>

(* The call fails (the browser, the lock, the form's own validation, the    *)
(* click), or assertApproval() finds the approval expired: the token stays  *)
(* where it is.                                                             *)
ForgetOnFailure(c) == held \ {c[2]}
HeldAfterFailure(c) == held
Fails(c) ==
  /\ submitting' = submitting \ {c}
  /\ held' = HeldAfterFailure(c)
  /\ \/ UNCHANGED requests
     \/ /\ application = "ready" /\ requests[c[2]].status = "approved" /\ Expired(c[2])
        /\ Becomes(c[2], "expired")
  /\ UNCHANGED <<dashboardVars, application, answered, paired, panel, approvedHere, expiredAnswer>>

(* invalidateChangedForm(): a submission found another form.                *)
FormChanges(c) ==
  /\ application = "ready" /\ application' = "closed" /\ submitting' = submitting \ {c}
  /\ requests' = [r \in Ids |-> IF requests[r].status \in {"pending", "approved"}
                                  THEN [requests[r] EXCEPT !.status = "invalidated"] ELSE requests[r]]
  /\ UNCHANGED <<dashboardVars, answered, held, paired, panel, approvedHere, expiredAnswer>>

(* The rows outlive the daemon, the tokens and the sessions do not.         *)
DaemonRestarts ==
  /\ Restart
  /\ held' = {} /\ submitting' = {} /\ paired' = FALSE /\ approvedHere' = {}
  /\ UNCHANGED <<application, requests, answered, panel, expiredAnswer>>

ApprovalsNext ==
  \/ (SessionNext \/ NoteNext) /\ UNCHANGED approvalVars
  \/ DaemonRestarts \/ Pair \/ Unpair \/ AskFromPanel \/ SubmitFromPanel \/ Clicks
  \/ \E c \in submitting : Reserves(c) \/ Succeeds(c) \/ Fails(c) \/ FormChanges(c)
  \/ \E t \in Tabs : AskFromDashboard(t)
  \/ \E r \in Ids, approved \in BOOLEAN :
       DecideFromPanel(r, approved) \/ \E t \in Tabs : DecideFromDashboard(t, r, approved)
  \/ \E r \in Ids, t \in Tabs : SubmitFromDashboard(t, r)

ApprovalsSpec == ApprovalsInit /\ [][ApprovalsNext]_<<dashboardVars, approvalVars>>

-----------------------------------------------------------------------------
(* What was approved from the dashboard can be submitted from it as long as  *)
(* the approval lasts, the daemon runs and the application was not submitted *)
(* by either door: a submission that failed, or one asked of the other       *)
(* request, costs it nothing.                                                *)
ApproverCanSubmit ==
  application # "submitted" =>
    \A r \in approvedHere : requests[r].status = "approved" /\ ~Expired(r) => r \in held

(* docs/extension-installation.md:12 lets the user of the side panel choose  *)
(* "Request approval" and says that an approval expires within two minutes:  *)
(* choosing it again for an application that is still ready is answered with *)
(* a request that can still be decided.                                      *)
AskingAgainHelps == ~expiredAnswer
==============================================================================
