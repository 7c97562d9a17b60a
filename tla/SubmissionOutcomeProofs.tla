---------------------- MODULE SubmissionOutcomeProofs -----------------------
(* For any number of applications, calls, requests, forms and values: what  *)
(* a click was allowed by, what refuses one, and what is recorded of it.    *)
EXTENDS SubmissionProofs

-----------------------------------------------------------------------------
(* Consent: what is clicked was reserved with an approval that a human      *)
(* granted for this very application, and that is used up.  ConsentStep     *)
(* says what a step may do to the requests and to the calls that submit;    *)
(* the reservations and the clicks are SubmissionProofs' kinds of steps.    *)

Submitting == {"submitCheck", "submitValues", "reserving"} \cup InFlight

\* What a step may do to a request: nothing, open it, close it, decide it as
\* its reader found it pending, or use it up for a call that reserves.
Moves(r) ==
  \/ request'[r] = request[r]
  \/ request[r].status = "none" /\ request'[r].status = "pending"
  \/ /\ request'[r].app = request[r].app
     /\ \/ /\ request[r].status \in {"pending", "approved"}
           /\ request'[r].status \in {"expired", "invalidated"}
        \/ /\ request[r].status = "pending" \/ (deciding # Nothing /\ deciding.request = r)
           /\ request'[r].status \in Decided
           /\ request'[r].status = "approved" => r \in granted'
        \/ /\ request'[r].status = "used"
           /\ \E c \in Calls : At(c, "reserving") /\ frame[c].req = r

\* A call that submits goes on with its request, or has just presented one.
Carries(c) ==
  frame'[c].pc \in Submitting =>
    \/ /\ frame[c].pc \in Submitting
       /\ frame'[c].req = frame[c].req /\ frame'[c].app = frame[c].app
    \/ /\ frame'[c].req \in Requests
       /\ Presented(frame'[c].req, frame'[c].app)

Grants ==
  /\ granted \subseteq granted'
  /\ \A r \in granted' \ granted : request'[r].status = "approved"
  /\ deciding' # Nothing =>
       /\ granted' = granted
       /\ \/ deciding' = deciding
          \/ request[deciding'.request].status = "pending" /\ request' = request

ConsentStep ==
  /\ \A r \in Requests : Moves(r)
  /\ \A c \in Calls : Carries(c)
  /\ Grants

-----------------------------------------------------------------------------
(* Every step is such a step. *)

LEMMA NothingGranted ==
  ASSUME UNCHANGED <<granted, deciding>> PROVE Grants
  BY DEF Grants

LEMMA NothingMoves ==
  ASSUME UNCHANGED request PROVE \A r \in Requests : Moves(r)
  BY DEF Moves

LEMMA NothingCarried ==
  ASSUME UNCHANGED frame PROVE \A c \in Calls : Carries(c)
  BY DEF Carries

LEMMA InvalidateMoves ==
  ASSUME Base, NEW a, NEW spared, Invalidate(a, spared)
  PROVE  \A r \in Requests : Moves(r)
<1> SUFFICES ASSUME NEW r \in Requests PROVE Moves(r)
  OBVIOUS
<1>1. request[r] \in RequestRows
  BY DEF Base, TypeOK
<1>2. CASE request'[r] = request[r]
  BY <1>2 DEF Moves
<1>3. CASE request'[r] # request[r]
  <2>1. /\ request[r].status \in {"pending", "approved"}
        /\ request'[r] = [request[r] EXCEPT !.status = "invalidated"]
    BY <1>3 DEF Invalidate
  <2>2. request'[r].status = "invalidated" /\ request'[r].app = request[r].app
    BY <1>1, <2>1 DEF RequestRows
  <2> QED BY <2>1, <2>2 DEF Moves
<1> QED BY <1>2, <1>3

LEMMA StatusChange ==
  ASSUME Base, NEW r \in Requests, NEW status,
         request' = [request EXCEPT ![r].status = status]
  PROVE  /\ request'[r].status = status /\ request'[r].app = request[r].app
         /\ \A q \in Requests \ {r} : request'[q] = request[q]
<1>1. request[r] \in RequestRows /\ DOMAIN request = Requests
  BY DEF Base, TypeOK
<1>2. request'[r] = [request[r] EXCEPT !.status = status]
  BY <1>1
<1>3. request'[r].status = status /\ request'[r].app = request[r].app
  BY <1>1, <1>2 DEF RequestRows
<1>4. \A q \in Requests \ {r} : request'[q] = request[q]
  BY <1>1
<1> QED BY <1>3, <1>4

LEMMA EndCarries ==
  ASSUME Base, NEW c \in Calls, End(c)
  PROVE  \A d \in Calls : Carries(d)
  BY DEF End, Idle, Carries, Submitting, InFlight, Base, TypeOK

LEMMA ContinueCarries ==
  ASSUME Base, NEW c \in Calls, NEW point \in Points, NEW rec, Continue(c, point, rec),
         point \in Submitting => frame[c].pc \in Submitting
  PROVE  \A d \in Calls : Carries(d)
<1>1. frame[c] \in Frames
  BY CallFacts
<1>2. frame'[c] = [frame[c] EXCEPT !.pc = point, !.rec = rec]
  BY DEF Continue, Base, TypeOK
<1>3. /\ frame'[c].pc = point /\ frame'[c].app = frame[c].app
      /\ frame'[c].req = frame[c].req
  BY <1>1, <1>2 DEF Frames
<1>4. \A d \in Calls \ {c} : frame'[d] = frame[d]
  BY DEF Continue, Base, TypeOK
<1> QED BY <1>3, <1>4 DEF Carries

LEMMA EnterCarries ==
  ASSUME Base, NEW c \in Calls, NEW point \in Points, NEW a, NEW req,
         NEW answers, NEW dry, Enter(c, point, a, req, answers, dry),
         point \in Submitting => req \in Requests /\ Presented(req, a)
  PROVE  \A d \in Calls : Carries(d)
<1>1. frame'[c].pc = point /\ frame'[c].app = a /\ frame'[c].req = req
  BY DEF Enter, Base, TypeOK
<1>2. \A d \in Calls \ {c} : frame'[d] = frame[d]
  BY DEF Enter, Base, TypeOK
<1> QED BY <1>1, <1>2 DEF Carries

LEMMA FormChangedConsent ==
  ASSUME Base, NEW c \in Calls, FormChanged(c)
  PROVE  (\A r \in Requests : Moves(r)) /\ (\A d \in Calls : Carries(d))
  BY InvalidateMoves, EndCarries DEF FormChanged

LEMMA BeginConsent ==
  ASSUME Base, NEW c \in Calls, Begin(c)
  PROVE  ConsentStep
<1>1. ASSUME NEW dry \in BOOLEAN, PrepareBegin(c, dry) PROVE ConsentStep
  <2>1. frame'[c].pc = "preparing" /\ \A d \in Calls \ {c} : frame'[d] = frame[d]
    BY <1>1, CallFacts DEF PrepareBegin, Base, TypeOK, Frames
  <2>2. \A d \in Calls : Carries(d)
    BY <2>1 DEF Carries, Submitting, InFlight
  <2> QED BY <1>1, <2>2, NothingMoves, NothingGranted
          DEF PrepareBegin, ConsentStep, ghosts
<1>2. ASSUME NEW a \in Apps, NEW dry \in BOOLEAN, NEW answers \in Values,
             FillBegin(c, a, dry, answers)
      PROVE  ConsentStep
  <2>1. "fillCheck" \in Points \ Submitting
    BY DEF Points, Submitting, InFlight
  <2>2. \A d \in Calls : Carries(d)
    BY <1>2, <2>1, EnterCarries DEF FillBegin
  <2> QED BY <1>2, <2>2, NothingMoves, NothingGranted
          DEF FillBegin, ConsentStep, rows, ghosts
<1>3. ASSUME NEW a \in Apps, NEW r \in Requests, SubmitBegin(c, a, r) PROVE ConsentStep
  <2>1. "submitCheck" \in Points
    BY DEF Points
  <2>2. \A d \in Calls : Carries(d)
    BY <1>3, <2>1, EnterCarries DEF SubmitBegin
  <2> QED BY <1>3, <2>2, NothingMoves, NothingGranted
          DEF SubmitBegin, ConsentStep, ghosts
<1>4. ASSUME NEW a \in Apps, NEW r \in Requests, SubmitRefused(c, a, r) PROVE ConsentStep
  <2>1. PICK status \in {"expired", "invalidated"} :
          request' = [request EXCEPT ![r].status = status]
    BY <1>4 DEF SubmitRefused
  <2>2. request[r].status = "approved"
    BY <1>4 DEF SubmitRefused, Presented
  <2>3. \A q \in Requests : Moves(q)
    BY <2>1, <2>2, StatusChange DEF Moves
  <2> QED BY <1>4, <2>3, NothingCarried, NothingGranted
          DEF SubmitRefused, ConsentStep, process, ghosts
<1>5. ASSUME NEW a \in Apps, CancelBegin(c, a) PROVE ConsentStep
  <2>1. "cancelling" \in Points \ Submitting
    BY DEF Points, Submitting, InFlight
  <2>2. \A d \in Calls : Carries(d)
    BY <1>5, <2>1, EnterCarries DEF CancelBegin
  <2> QED BY <1>5, <2>2, NothingMoves, NothingGranted
          DEF CancelBegin, ConsentStep, rows, ghosts
<1> QED BY <1>1, <1>2, <1>3, <1>4, <1>5 DEF Begin

LEMMA FillConsent ==
  ASSUME Base, NEW c \in Calls,
         \/ PrepareEnd(c) \/ PrepareFails(c)
         \/ FillCheck(c) \/ FillPage(c) \/ FillValidate(c) \/ FillEnd(c) \/ FillFails(c)
  PROVE  ConsentStep
<1>0. {"filling", "validating", "reviewing"} \subseteq Points \ Submitting
  BY DEF Points, Submitting, InFlight
<1>1. CASE PrepareEnd(c) \/ PrepareFails(c)
  BY <1>1, EndCarries, NothingMoves, NothingGranted
     DEF PrepareEnd, PrepareFails, ConsentStep, ghosts
<1>2. CASE FillCheck(c)
  <2>1. \A d \in Calls : Carries(d)
    BY <1>0, <1>2, FormChangedConsent, ContinueCarries DEF FillCheck
  <2>2. \A r \in Requests : Moves(r)
    BY <1>2, FormChangedConsent, NothingMoves DEF FillCheck
  <2> QED BY <1>2, <2>1, <2>2, NothingGranted DEF FillCheck, ConsentStep, ghosts
<1>3. CASE FillPage(c)
  <2>1. \A d \in Calls : Carries(d)
    BY <1>0, <1>3, ContinueCarries DEF FillPage
  <2> QED BY <1>3, <2>1, NothingMoves, NothingGranted
          DEF FillPage, ConsentStep, rows, ghosts
<1>4. CASE FillValidate(c)
  <2>1. UNCHANGED <<granted, deciding>>
    BY <1>4 DEF FillValidate, ghosts
  <2>2. CASE FormChanged(c)
    BY <2>1, <2>2, FormChangedConsent, NothingGranted DEF ConsentStep
  <2>3. CASE ~FormChanged(c)
    <3>1. PICK rec : Continue(c, "reviewing", rec) /\ UNCHANGED request
      BY <1>4, <2>3 DEF FillValidate
    <3>2. \A d \in Calls : Carries(d)
      BY <1>0, <3>1, ContinueCarries
    <3> QED BY <2>1, <3>1, <3>2, NothingMoves, NothingGranted DEF ConsentStep
  <2> QED BY <2>2, <2>3
<1>5. CASE FillEnd(c)
  BY <1>5, InvalidateMoves, EndCarries, NothingGranted DEF FillEnd, ConsentStep, ghosts
<1>6. CASE FillFails(c)
  BY <1>6, EndCarries, NothingMoves, NothingGranted DEF FillFails, ConsentStep, rows, ghosts
<1> QED BY <1>1, <1>2, <1>3, <1>4, <1>5, <1>6

LEMMA SubmitConsent ==
  ASSUME Base, NEW c \in Calls,
         \/ SubmitCheckForm(c) \/ SubmitCheckValues(c) \/ SubmitReserve(c)
         \/ SubmitClick(c) \/ SubmitConfirmed(c) \/ SubmitUncertain(c) \/ SubmitFails(c)
         \/ SubmitSettles(c)
  PROVE  ConsentStep
<1>0. Submitting \subseteq Points
  BY DEF Submitting, InFlight, Points
<1>1. ASSUME NEW point \in Submitting, NEW next \in Submitting, NEW same,
             SubmitCheck(c, point, next, same)
      PROVE  ConsentStep
  <2>1. \A d \in Calls : Carries(d)
    BY <1>0, <1>1, FormChangedConsent, ContinueCarries DEF SubmitCheck, At
  <2>2. \A r \in Requests : Moves(r)
    BY <1>1, FormChangedConsent, NothingMoves DEF SubmitCheck
  <2> QED BY <1>1, <2>1, <2>2, NothingGranted DEF SubmitCheck, ConsentStep, ghosts
<1>2. CASE SubmitCheckForm(c) \/ SubmitCheckValues(c)
  BY <1>1, <1>2 DEF SubmitCheckForm, SubmitCheckValues, Submitting
<1>3. CASE SubmitReserve(c)
  <2>1. frame[c].pc \in Submitting /\ "clicking" \in Points
    BY <1>3 DEF SubmitReserve, At, Submitting, Points
  <2>2. \A d \in Calls : Carries(d)
    BY <1>3, <2>1, EndCarries, ContinueCarries DEF SubmitReserve
  <2>3. \A r \in Requests : Moves(r)
    <3>1. CASE frame[c].req \in Requests
      BY <1>3, <3>1, StatusChange DEF SubmitReserve, MarkApprovalUsed, Moves
    <3>2. CASE frame[c].req \notin Requests
      BY <1>3, <3>2 DEF SubmitReserve, MarkApprovalUsed, Moves, Base, TypeOK
    <3> QED BY <3>1, <3>2
  <2> QED BY <1>3, <2>2, <2>3, NothingGranted DEF SubmitReserve, ConsentStep, ghosts
<1>4. CASE SubmitClick(c)
  <2>1. frame[c].pc \in Submitting /\ "confirming" \in Points
    BY <1>4 DEF SubmitClick, At, Submitting, InFlight, Points
  <2>2. \A d \in Calls : Carries(d)
    BY <1>4, <2>1, ContinueCarries DEF SubmitClick
  <2> QED BY <1>4, <2>2, NothingMoves, NothingGranted DEF SubmitClick, ConsentStep, rows
<1>5. CASE SubmitConfirmed(c) \/ SubmitUncertain(c)
  <2>1. PICK point \in Settling :
          Continue(c, point, frame[c].rec) /\ frame[c].pc \in InFlight
    BY <1>5 DEF SubmitConfirmed, SubmitUncertain, At, Settling, InFlight
  <2>2. \A d \in Calls : Carries(d)
    BY <1>0, <2>1, ContinueCarries DEF Settling, InFlight, Submitting
  <2> QED BY <1>5, <2>2, NothingMoves, NothingGranted
          DEF SubmitConfirmed, SubmitUncertain, ConsentStep, ghosts
<1>6. CASE SubmitFails(c) \/ SubmitSettles(c)
  BY <1>6, EndCarries, NothingMoves, NothingGranted
     DEF SubmitFails, SubmitSettles, ConsentStep, ghosts
<1> QED BY <1>2, <1>3, <1>4, <1>5, <1>6

LEMMA CancelConsent ==
  ASSUME Base, NEW c \in Calls, CancelEnd(c)
  PROVE  ConsentStep
<1>1. \A r \in Requests : Moves(r)
  BY InvalidateMoves, NothingMoves DEF CancelEnd
<1> QED BY <1>1, EndCarries, NothingGranted DEF CancelEnd, ConsentStep

LEMMA ApprovalConsent ==
  ASSUME Base, Approval
  PROVE  ConsentStep
<1>1. ASSUME NEW r \in Requests, NEW a \in Apps, RequestApproval(r, a) PROVE ConsentStep
  <2>1. ASSUME NEW q \in Requests PROVE Moves(q)
    <3>1. request[q] \in RequestRows
      BY DEF Base, TypeOK
    <3>2. CASE q = r
      BY <1>1, <3>2 DEF RequestApproval, Moves
    <3>3. CASE q # r
      <4>1. \/ request'[q] = request[q]
            \/ /\ request[q].status \in {"pending", "approved"}
               /\ request'[q] = [request[q] EXCEPT !.status = "invalidated"]
        BY <1>1, <3>3 DEF RequestApproval
      <4>2. [request[q] EXCEPT !.status = "invalidated"].status = "invalidated"
              /\ [request[q] EXCEPT !.status = "invalidated"].app = request[q].app
        BY <3>1 DEF RequestRows
      <4> QED BY <4>1, <4>2 DEF Moves
    <3> QED BY <3>2, <3>3
  <2> QED BY <1>1, <2>1, NothingCarried, NothingGranted
          DEF RequestApproval, ConsentStep, process, ghosts
<1>2. ASSUME NEW r \in Requests, DecisionRefused(r) PROVE ConsentStep
  <2>1. PICK status \in {"expired", "invalidated"} :
          request' = [request EXCEPT ![r].status = status]
    BY <1>2 DEF DecisionRefused
  <2>2. \A q \in Requests : Moves(q)
    BY <1>2, <2>1, StatusChange DEF DecisionRefused, Moves
  <2> QED BY <1>2, <2>2, NothingCarried, NothingGranted
          DEF DecisionRefused, ConsentStep, process, ghosts
<1>3. ASSUME NEW r \in Requests, NEW status \in Decided, Decide(r, status),
             request[r].status = "pending" \/ (deciding # Nothing /\ deciding.request = r),
             deciding' = Nothing
      PROVE  ConsentStep
  <2>1. /\ request'[r].status = status /\ request'[r].app = request[r].app
        /\ \A q \in Requests \ {r} : request'[q] = request[q]
    BY <1>3, StatusChange DEF Decide
  <2>2. granted' = IF status = "approved" THEN granted \cup {r} ELSE granted
    BY <1>3 DEF Decide
  <2>3. \A q \in Requests : Moves(q)
    BY <1>3, <2>1, <2>2 DEF Moves
  <2>4. Grants
    BY <1>3, <2>1, <2>2 DEF Grants
  <2> QED BY <1>3, <2>3, <2>4, NothingCarried DEF Decide, ConsentStep
<1>4. ASSUME NEW r \in Requests, NEW status \in Decided,
             DecideApproval(r, status) \/ ReadApproval(r, status)
      PROVE  ConsentStep
  <2>1. CASE DecideApproval(r, status)
    BY <1>3, <2>1 DEF DecideApproval, Decidable
  <2>2. CASE ReadApproval(r, status)
    <3>1. deciding'.request = r /\ request[r].status = "pending"
            /\ UNCHANGED <<request, granted>>
      BY <2>2 DEF ReadApproval, Decidable, rows, ghosts
    <3> QED BY <2>2, <3>1, NothingMoves, NothingCarried
            DEF ReadApproval, Grants, ConsentStep
  <2> QED BY <1>4, <2>1, <2>2
<1>5. CASE SaveApproval
  <2>1. deciding.request \in Requests /\ deciding.status \in Decided
    BY <1>5 DEF SaveApproval, Base, TypeOK
  <2> QED BY <1>3, <1>5, <2>1 DEF SaveApproval
<1> QED BY <1>1, <1>2, <1>4, <1>5 DEF Approval

LEMMA OthersConsent ==
  ASSUME Base, Surroundings \/ Failure \/ UNCHANGED vars
  PROVE  ConsentStep
<1>1. CASE EmergencyEngage
  <2>1. ASSUME NEW c \in Calls PROVE Carries(c)
    <3>1. frame[c] \in Frames
      BY CallFacts
    <3>2. \/ frame'[c] = [frame[c] EXCEPT !.stopped = TRUE]
          \/ frame'[c] = frame[c]
      BY <1>1 DEF EmergencyEngage
    <3>3. /\ frame'[c].pc = frame[c].pc /\ frame'[c].app = frame[c].app
          /\ frame'[c].req = frame[c].req
      BY <3>1, <3>2 DEF Frames
    <3> QED BY <3>3 DEF Carries
  <2> QED BY <1>1, <2>1, NothingMoves, NothingGranted
          DEF EmergencyEngage, ConsentStep, rows, ghosts
<1>2. CASE Surroundings /\ ~EmergencyEngage
  <2>1. UNCHANGED <<request, frame, granted, deciding>>
    BY <1>2 DEF Surroundings, PageChanges, RequestLapses, LockLapses, EmergencyReset,
                rows, process, ghosts
  <2> QED BY <2>1, NothingMoves, NothingCarried, NothingGranted DEF ConsentStep
<1>3. ASSUME Gone PROVE (\A c \in Calls : Carries(c)) /\ Grants
  <2>1. \A c \in Calls : frame'[c].pc = "idle"
    BY <1>3 DEF Gone, Idle
  <2> QED BY <1>3, <2>1, NothingGranted DEF Gone, Carries, Submitting, InFlight, ghosts
<1>4. CASE Crash
  BY <1>3, <1>4, NothingMoves DEF Crash, ConsentStep
<1>5. CASE CoordinatorCrash
  BY <1>5, NothingMoves, NothingCarried
     DEF CoordinatorCrash, Grants, ConsentStep, rows, ghosts
<1>6. ASSUME NEW c \in Calls, CrashInReserve(c) PROVE ConsentStep
  <2>1. \A r \in Requests : Moves(r)
    <3>1. CASE UNCHANGED request
      BY <3>1, NothingMoves
    <3>2. CASE MarkApprovalUsed(frame[c].req) /\ frame[c].req \in Requests
      BY <1>6, <3>2, StatusChange DEF CrashInReserve, MarkApprovalUsed, Moves
    <3>3. CASE MarkApprovalUsed(frame[c].req) /\ frame[c].req \notin Requests
      BY <3>3 DEF MarkApprovalUsed, Moves, Base, TypeOK
    <3> QED BY <1>6, <3>1, <3>2, <3>3 DEF CrashInReserve
  <2> QED BY <1>3, <1>6, <2>1 DEF CrashInReserve, ConsentStep
<1>7. CASE UNCHANGED vars
  BY <1>7, NothingMoves, NothingCarried, NothingGranted
     DEF ConsentStep, vars, rows, process, ghosts
<1> QED BY <1>1, <1>2, <1>4, <1>5, <1>6, <1>7 DEF Failure

LEMMA ConsentSteps ==
  ASSUME Base, [Next]_vars
  PROVE  ConsentStep
<1>1. ASSUME NEW c \in Calls, CallStep(c) PROVE ConsentStep
  BY <1>1, FillConsent, SubmitConsent, CancelConsent DEF CallStep
<1> QED BY <1>1, BeginConsent, ApprovalConsent, OthersConsent DEF Next

-----------------------------------------------------------------------------
(* The approvals. *)

\* The requests that are approved or used were granted, and no decision that
\* is being written is about one of them; a call that submits has a granted
\* request of its own application.
GrantInv ==
  /\ \A r \in Requests :
       /\ r \in granted => request[r].status \notin {"none", "pending"}
       /\ request[r].status \in {"approved", "used"} => r \in granted
  /\ deciding # Nothing =>
       deciding.request \notin granted /\ request[deciding.request].status # "none"
  /\ \A c \in Calls : frame[c].pc \in Submitting =>
       frame[c].req \in granted /\ request[frame[c].req].app = frame[c].app

LEMMA GrantInitially == Init => GrantInv
  BY DEF Init, Idle, GrantInv, Submitting, InFlight

\* A granted request keeps its application, and once used it stays used.
LEMMA GrantedStays ==
  ASSUME Base, GrantInv, ConsentStep, NEW r \in granted
  PROVE  /\ r \in granted' /\ request'[r].app = request[r].app
         /\ request'[r].status \notin {"none", "pending"}
         /\ request[r].status = "used" => request'[r].status = "used"
<1>1. r \in Requests /\ r \in granted' /\ Moves(r)
  BY DEF Base, TypeOK, ConsentStep, Grants
<1>2. request[r].status \notin {"none", "pending"}
        /\ ~(deciding # Nothing /\ deciding.request = r)
  BY <1>1 DEF GrantInv
<1> QED BY <1>1, <1>2 DEF Moves

LEMMA GrantStep ==
  ASSUME Base, GrantInv, [Next]_vars
  PROVE  GrantInv'
<1>1. ConsentStep /\ Base'
  BY ConsentSteps, NextBase
<1>2. ASSUME NEW r \in Requests, r \in granted'
      PROVE  request'[r].status \notin {"none", "pending"}
  BY <1>1, <1>2, GrantedStays DEF ConsentStep, Grants
<1>3. ASSUME NEW r \in Requests, request'[r].status \in {"approved", "used"}
      PROVE  r \in granted'
  <2>1. Moves(r) /\ granted \subseteq granted'
    BY <1>1 DEF ConsentStep, Grants
  <2>2. request[r].status \in {"approved", "used"} => r \in granted
    BY DEF GrantInv
  <2>3. \A c \in Calls : At(c, "reserving") => frame[c].req \in granted
    BY DEF GrantInv, At, Submitting
  <2> QED BY <1>3, <2>1, <2>2, <2>3 DEF Moves, Decided
<1>4. ASSUME deciding' # Nothing
      PROVE  deciding'.request \notin granted' /\ request'[deciding'.request].status # "none"
  <2>1. deciding'.request \in Requests /\ granted' = granted
    BY <1>1, <1>4 DEF Base, TypeOK, ConsentStep, Grants
  <2>2. CASE deciding' = deciding
    <3>1. deciding.request \notin granted /\ request[deciding.request].status # "none"
      BY <1>4, <2>2 DEF GrantInv
    <3>2. Moves(deciding.request)
      BY <1>1, <2>1, <2>2 DEF ConsentStep
    <3> QED BY <2>1, <2>2, <3>1, <3>2 DEF Moves, Decided
  <2>3. CASE request[deciding'.request].status = "pending" /\ request' = request
    BY <2>1, <2>3 DEF GrantInv
  <2> QED BY <1>1, <1>4, <2>2, <2>3 DEF ConsentStep, Grants
<1>5. ASSUME NEW c \in Calls, frame'[c].pc \in Submitting
      PROVE  frame'[c].req \in granted' /\ request'[frame'[c].req].app = frame'[c].app
  <2>1. frame'[c].req \in granted /\ request[frame'[c].req].app = frame'[c].app
    <3>1. CASE frame[c].pc \in Submitting /\ frame'[c].req = frame[c].req
                 /\ frame'[c].app = frame[c].app
      BY <3>1 DEF GrantInv
    <3>2. CASE frame'[c].req \in Requests /\ Presented(frame'[c].req, frame'[c].app)
      BY <3>2 DEF Presented, GrantInv
    <3> QED BY <1>1, <1>5, <3>1, <3>2 DEF ConsentStep, Carries
  <2> QED BY <1>1, <2>1, GrantedStays
<1> QED BY <1>2, <1>3, <1>4, <1>5 DEF GrantInv

-----------------------------------------------------------------------------
(* The clicks. *)

ConsentInv ==
  /\ \A a \in Apps : attempt[a] # "none" =>
       reservedBy[a] \in granted /\ request[reservedBy[a]].app = a
  /\ \A a \in Apps : clicks[a] > 0 => request[reservedBy[a]].status = "used"
  /\ \A c \in Calls : frame[c].pc \in InFlight =>
       request[reservedBy[frame[c].app]].status = "used"

LEMMA ConsentInitially == Init => ConsentInv
  BY DEF Init, Idle, ConsentInv, InFlight

LEMMA ConsentInvStep ==
  ASSUME Base, ClickInv, GrantInv, ConsentInv, [Next]_vars
  PROVE  ConsentInv'
<1>1. ConsentStep
  BY ConsentSteps
<1>2. \A r \in granted :
        /\ r \in granted' /\ request'[r].app = request[r].app
        /\ request[r].status = "used" => request'[r].status = "used"
  BY <1>1, GrantedStays
<1>3. \A a \in Apps : attempt[a] # "none" =>
        /\ reservedBy[a] \in granted' /\ request'[reservedBy[a]].app = a
        /\ request[reservedBy[a]].status = "used" =>
             request'[reservedBy[a]].status = "used"
  BY <1>2 DEF ConsentInv
<1>4. \A a \in Apps : clicks[a] > 0 => attempt[a] # "none"
  BY DEF ClickInv
<1>5. \A c \in Calls : frame[c].pc \in InFlight =>
        frame[c].app \in Apps /\ attempt[frame[c].app] = "reserved"
  BY InFlightApp DEF ClickInv
<1>6. CASE Quiet
  <2>1. \A d \in Calls : frame'[d].pc \in InFlight =>
          frame[d].pc \in InFlight /\ frame'[d].app = frame[d].app
    BY <1>6 DEF Quiet, Kept, InFlight
  <2> QED BY <1>3, <1>4, <1>5, <1>6, <2>1 DEF Quiet, ConsentInv
<1>7. ASSUME NEW c \in Calls, NEW a \in Apps, Reserves(c, a) PROVE ConsentInv'
  <2>1. frame[c].req \in granted /\ request[frame[c].req].app = a
    BY <1>7 DEF Reserves, At, GrantInv, Submitting
  <2>2. /\ \A b \in Apps : attempt'[b] = IF b = a THEN "reserved" ELSE attempt[b]
        /\ \A b \in Apps : reservedBy'[b] = IF b = a THEN frame[c].req ELSE reservedBy[b]
        /\ clicks' = clicks /\ attempt[a] = "none" /\ ~(clicks[a] > 0)
    BY <1>4, <1>7 DEF Reserves, Base, TypeOK
  <2>3. ASSUME NEW d \in Calls, frame'[d].pc \in InFlight
        PROVE  request'[reservedBy'[frame'[d].app]].status = "used"
    <3>1. CASE d = c
      <4>1. frame'[c].app = a /\ MarkApprovalUsed(frame[c].req)
        BY <1>7, <2>3, <3>1 DEF Reserves
      <4>2. frame[c].req \in Requests
        BY <2>1 DEF Base, TypeOK
      <4>3. request'[frame[c].req].status = "used"
        BY <4>1, <4>2, StatusChange DEF MarkApprovalUsed
      <4> QED BY <2>2, <3>1, <4>1, <4>3
    <3>2. CASE d # c
      <4>1. frame'[d].app = frame[d].app /\ frame[d].pc \in InFlight
        BY <1>7, <2>3, <3>2 DEF Reserves, Kept, InFlight
      <4>2. frame[d].app \in Apps /\ frame[d].app # a
        BY <1>5, <2>2, <4>1
      <4> QED BY <1>3, <1>5, <2>2, <4>1, <4>2 DEF ConsentInv
    <3> QED BY <3>1, <3>2
  <2>4. ASSUME NEW b \in Apps
        PROVE  /\ attempt'[b] # "none" =>
                    reservedBy'[b] \in granted' /\ request'[reservedBy'[b]].app = b
               /\ clicks'[b] > 0 => request'[reservedBy'[b]].status = "used"
    <3>1. CASE b = a
      BY <1>2, <2>1, <2>2, <3>1
    <3>2. CASE b # a
      BY <1>3, <1>4, <2>2, <3>2 DEF ConsentInv
    <3> QED BY <3>1, <3>2
  <2> QED BY <2>3, <2>4 DEF ConsentInv
<1>8. ASSUME NEW c \in Calls, Clicks(c) PROVE ConsentInv'
  <2>1. frame[c].app \in Apps /\ frame[c].pc \in InFlight
    BY <1>5, <1>8 DEF Clicks, InFlight
  <2>2. \A b \in Apps : b # frame[c].app => clicks'[b] = clicks[b]
    BY <1>8, <2>1 DEF Clicks, Base, TypeOK
  <2>3. attempt' = attempt /\ reservedBy' = reservedBy
    BY <1>8 DEF Clicks
  <2>4. \A d \in Calls : frame'[d].pc \in InFlight =>
          frame[d].pc \in InFlight /\ frame'[d].app = frame[d].app
    BY <1>8, <2>1 DEF Clicks, Kept, InFlight
  <2>5. request[reservedBy[frame[c].app]].status = "used"
    BY <2>1 DEF ConsentInv
  <2>6. \A b \in Apps : clicks'[b] > 0 => request'[reservedBy'[b]].status = "used"
    BY <1>3, <1>4, <1>5, <2>1, <2>2, <2>3, <2>5 DEF ConsentInv
  <2>7. \A d \in Calls : frame'[d].pc \in InFlight =>
          request'[reservedBy'[frame'[d].app]].status = "used"
    BY <1>3, <1>5, <2>3, <2>4 DEF ConsentInv
  <2> QED BY <1>3, <2>3, <2>6, <2>7 DEF ConsentInv
<1>9. ASSUME NEW c \in Calls, Settles(c) PROVE ConsentInv'
  <2>1. frame[c].app \in Apps /\ attempt[frame[c].app] = "reserved"
    BY <1>5, <1>9 DEF Settles, Settling, InFlight
  <2>2. \A b \in Apps : attempt'[b] # "none" => attempt[b] # "none"
    BY <1>9, <2>1 DEF Settles, Base, TypeOK
  <2>3. reservedBy' = reservedBy /\ clicks' = clicks
    BY <1>9 DEF Settles
  <2>4. \A d \in Calls : frame'[d].pc \in InFlight =>
          frame[d].pc \in InFlight /\ frame'[d].app = frame[d].app
    BY <1>9 DEF Settles, Kept, InFlight
  <2> QED BY <1>3, <1>4, <1>5, <2>2, <2>3, <2>4 DEF ConsentInv
<1> QED BY <1>6, <1>7, <1>8, <1>9, StepKinds DEF Kind

LEMMA ConsentInductive == Spec => [](Base /\ ClickInv /\ GrantInv /\ ConsentInv)
<1>1. Init => Base /\ ClickInv /\ GrantInv /\ ConsentInv
  BY InitBase, ClickInitially, GrantInitially, ConsentInitially
<1>2. Base /\ ClickInv /\ GrantInv /\ ConsentInv /\ [Next]_vars
        => Base' /\ ClickInv' /\ GrantInv' /\ ConsentInv'
  BY NextBase, ClickStep, GrantStep, ConsentInvStep
<1> QED BY <1>1, <1>2, PTL DEF Spec

\* docs/approval-flow.md:3 "approvals are one-use": what was clicked was
\* reserved with a granted approval of the application, and that is used up,
\* whatever decision, invalidation or stale copy is written meanwhile.
THEOREM ConsentedClicks == Spec => []ClickedWithConsent
<1>1. Base /\ ClickInv /\ ConsentInv => ClickedWithConsent
  BY DEF ClickInv, ConsentInv, ClickedWithConsent
<1> QED BY <1>1, ConsentInductive, PTL

-----------------------------------------------------------------------------
(* Refusal: an application is not clicked after cancel() reported success,  *)
(* nor ever if it was prepared as a dry run.  RefusalStep says where a step *)
(* takes the copies the calls keep, the rows they are saved to and the open *)
(* pages.                                                                   *)

\* A call goes on with its application, no less dry than before, or has just
\* read it: to submit it if it is not dry, to cancel it with its page closed.
Follows(c) ==
  frame'[c].pc \in HasApp =>
    \/ /\ frame[c].pc \in HasApp
       /\ frame'[c].app = frame[c].app
       /\ frame[c].rec.dryRun => frame'[c].rec.dryRun
       /\ frame'[c].pc \in Submitting => frame[c].pc \in Submitting
       /\ frame'[c].pc = "cancelling" => frame[c].pc = "cancelling"
    \/ /\ frame'[c].app \in Apps
       /\ frame'[c].app <= created
       /\ frame'[c].rec = record[frame'[c].app]
       /\ frame'[c].pc \in Submitting => ~record[frame'[c].app].dryRun
       /\ frame'[c].pc = "cancelling" => page'[frame'[c].app] = Nothing

\* A row that exists gets the copy of a call that works on it.
Rows ==
  \A a \in Apps : a <= created =>
    \/ record'[a] = record[a]
    \/ \E c \in Calls :
         /\ frame[c].pc \in HasApp /\ frame[c].app = a
         /\ frame[c].rec.dryRun => record'[a].dryRun

Pages == \A a \in Apps : a <= created /\ page[a] = Nothing => page'[a] = Nothing

\* Where clicks, cancellations and dry runs come from.
Ghosts ==
  /\ \A a \in Apps : clicks'[a] # clicks[a] =>
       page[a] # Nothing /\ \E c \in Calls : At(c, "clicking") /\ frame[c].app = a
  /\ \A a \in cancelled' \ cancelled :
       \E c \in Calls : At(c, "cancelling") /\ frame[c].app = a
  /\ \A a \in preparedDry' \ preparedDry :
       ~(a <= created) /\ a <= created' /\ record'[a].dryRun

RefusalStep ==
  /\ created' \in 0 .. MaxApplications /\ created <= created'
  /\ \A c \in Calls : Follows(c)
  /\ Rows
  /\ Pages
  /\ Ghosts

-----------------------------------------------------------------------------
(* Every step is such a step. *)

\* Most steps leave most of it alone.
LEMMA Untouched ==
  ASSUME Base
  PROVE  /\ UNCHANGED record => Rows
         /\ UNCHANGED page => Pages
         /\ UNCHANGED <<clicks, cancelled, preparedDry>> => Ghosts
         /\ UNCHANGED created => created' \in 0 .. MaxApplications /\ created <= created'
  BY SubmissionAssumption DEF Rows, Pages, Ghosts, Base, TypeOK

LEMMA EndFollows ==
  ASSUME Base, NEW c \in Calls, End(c)
  PROVE  \A d \in Calls : Follows(d)
  BY DEF End, Idle, Follows, HasApp, Base, TypeOK

LEMMA ContinueFollows ==
  ASSUME Base, NEW c \in Calls, NEW point \in Points, NEW rec, Continue(c, point, rec),
         frame[c].pc \in HasApp, point # "cancelling",
         frame[c].rec.dryRun => rec.dryRun,
         point \in Submitting => frame[c].pc \in Submitting
  PROVE  \A d \in Calls : Follows(d)
<1>1. frame[c] \in Frames
  BY CallFacts
<1>2. frame'[c] = [frame[c] EXCEPT !.pc = point, !.rec = rec]
  BY DEF Continue, Base, TypeOK
<1>3. frame'[c].pc = point /\ frame'[c].app = frame[c].app /\ frame'[c].rec = rec
  BY <1>1, <1>2 DEF Frames
<1>4. \A d \in Calls \ {c} : frame'[d] = frame[d]
  BY DEF Continue, Base, TypeOK
<1> QED BY <1>3, <1>4 DEF Follows

LEMMA EnterFollows ==
  ASSUME Base, NEW c \in Calls, NEW point \in Points, NEW a \in Apps, a <= created,
         NEW req, NEW answers, NEW dry, Enter(c, point, a, req, answers, dry),
         point \in Submitting => ~record[a].dryRun,
         point = "cancelling" => page'[a] = Nothing
  PROVE  \A d \in Calls : Follows(d)
<1>1. frame'[c].pc = point /\ frame'[c].app = a /\ frame'[c].rec = record[a]
  BY DEF Enter, Base, TypeOK
<1>2. \A d \in Calls \ {c} : frame'[d] = frame[d]
  BY DEF Enter, Base, TypeOK
<1> QED BY <1>1, <1>2 DEF Follows

\* The copy of a call, in whatever state, is saved to its own row.
LEMMA SaveRows ==
  ASSUME Base, NEW c \in Calls, frame[c].pc \in HasApp, NEW state \in States, NEW rec,
         rec \in {frame[c].rec, In(frame[c].rec, state)}, Save(frame[c].app, rec)
  PROVE  Rows
<1>1. rec.dryRun = frame[c].rec.dryRun
  BY CallFacts DEF In, Records
<1>2. record'[frame[c].app] = rec
        /\ \A a \in Apps : a # frame[c].app => record'[a] = record[a]
  BY CallFacts DEF Save, Base, TypeOK
<1> QED BY <1>1, <1>2 DEF Rows

LEMMA FormChangedRefusal ==
  ASSUME Base, NEW c \in Calls, frame[c].pc \in HasApp, FormChanged(c)
  PROVE  Rows /\ \A d \in Calls : Follows(d)
<1>1. "FORM_CHANGED" \in States
  BY DEF States
<1> QED BY <1>1, SaveRows, EndFollows DEF FormChanged

LEMMA BeginRefusal ==
  ASSUME Base, NEW c \in Calls, Begin(c)
  PROVE  RefusalStep
<1> USE Untouched
<1>0. {"fillCheck", "cancelling"} \subseteq Points \ Submitting /\ "submitCheck" \in Points
  BY DEF Points, Submitting, InFlight
<1>1. ASSUME NEW dry \in BOOLEAN, PrepareBegin(c, dry) PROVE RefusalStep
  <2>1. frame'[c].pc = "preparing" /\ \A d \in Calls \ {c} : frame'[d] = frame[d]
    BY <1>1, CallFacts DEF PrepareBegin, Base, TypeOK, Frames
  <2>2. \A d \in Calls : Follows(d)
    BY <2>1 DEF Follows, HasApp
  <2> QED BY <1>1, <2>2 DEF PrepareBegin, RefusalStep, ghosts
<1>2. ASSUME NEW a \in Apps, NEW dry \in BOOLEAN, NEW answers \in Values,
             FillBegin(c, a, dry, answers)
      PROVE  RefusalStep
  <2>1. \A d \in Calls : Follows(d)
    BY <1>0, <1>2, EnterFollows DEF FillBegin
  <2> QED BY <1>2, <2>1 DEF FillBegin, RefusalStep, rows, ghosts
<1>3. ASSUME NEW a \in Apps, NEW r \in Requests, SubmitBegin(c, a, r) PROVE RefusalStep
  <2>1. \A d \in Calls : Follows(d)
    BY <1>0, <1>3, EnterFollows DEF SubmitBegin, Submittable
  <2> QED BY <1>3, <2>1 DEF SubmitBegin, RefusalStep, ghosts
<1>4. ASSUME NEW a \in Apps, NEW r \in Requests, SubmitRefused(c, a, r) PROVE RefusalStep
  BY <1>4 DEF SubmitRefused, RefusalStep, Follows, process, ghosts
<1>5. ASSUME NEW a \in Apps, CancelBegin(c, a) PROVE RefusalStep
  <2>1. \A b \in Apps : page'[b] = IF b = a THEN Nothing ELSE page[b]
    BY <1>5 DEF CancelBegin, Base, TypeOK
  <2>2. \A d \in Calls : Follows(d)
    BY <1>0, <1>5, <2>1, EnterFollows DEF CancelBegin
  <2> QED BY <1>5, <2>1, <2>2 DEF CancelBegin, RefusalStep, Pages, rows, ghosts
<1> QED BY <1>1, <1>2, <1>3, <1>4, <1>5 DEF Begin

LEMMA PrepareRefusal ==
  ASSUME Base, NEW c \in Calls, PrepareEnd(c) \/ PrepareFails(c)
  PROVE  RefusalStep
<1>1. CASE PrepareEnd(c)
  <2>1. created' = created + 1 /\ created < MaxApplications /\ created \in 0 .. MaxApplications
    BY <1>1, CallFacts DEF PrepareEnd
  <2>2. /\ created' \in 0 .. MaxApplications /\ created <= created'
        /\ created + 1 \in Apps /\ ~(created + 1 <= created) /\ created + 1 <= created'
    BY <2>1, SubmissionAssumption DEF Apps
  <2>3. PICK form \in Forms :
          /\ Save(created + 1,
                  [state |-> "WAITING_FOR_APPROVAL", form |-> form, values |-> Nothing,
                   skipped |-> FALSE, dryRun |-> frame[c].dry])
          /\ page' = [page EXCEPT ![created + 1] = [form |-> form, values |-> Nothing]]
    BY <1>1 DEF PrepareEnd
  <2>4. /\ record'[created + 1].dryRun = frame[c].dry
        /\ \A a \in Apps : a <= created => record'[a] = record[a] /\ page'[a] = page[a]
    BY <2>2, <2>3 DEF Save, Base, TypeOK
  <2>5. Rows /\ Pages
    BY <2>4 DEF Rows, Pages
  <2>6. Ghosts
    BY <1>1, <2>2, <2>4 DEF PrepareEnd, Ghosts
  <2> QED BY <1>1, <2>2, <2>5, <2>6, EndFollows DEF PrepareEnd, RefusalStep
<1>2. CASE PrepareFails(c)
  BY <1>2, EndFollows, Untouched DEF PrepareFails, RefusalStep, ghosts
<1> QED BY <1>1, <1>2

LEMMA FillRefusal ==
  ASSUME Base, NEW c \in Calls,
         FillCheck(c) \/ FillPage(c) \/ FillValidate(c) \/ FillEnd(c) \/ FillFails(c)
  PROVE  RefusalStep
<1> USE Untouched
<1>0. {"filling", "validating", "reviewing"} \subseteq Points \ Submitting
  BY DEF Points, Submitting, InFlight
<1>1. frame[c].pc \in HasApp /\ frame[c].app \in Apps /\ frame[c].rec \in Records
  BY CallFacts DEF FillCheck, FillPage, FillValidate, FillEnd, FillFails, At, HasApp, Points
<1>2. CASE FillCheck(c)
  <2>1. CASE FormChanged(c)
    BY <1>1, <1>2, <2>1, FormChangedRefusal DEF FillCheck, RefusalStep, ghosts
  <2>2. CASE ~FormChanged(c)
    <3>1. In(frame[c].rec, "FILLING").dryRun = frame[c].rec.dryRun
      BY <1>1 DEF In, Records
    <3>2. \A d \in Calls : Follows(d)
      BY <1>0, <1>1, <1>2, <2>2, <3>1, ContinueFollows DEF FillCheck
    <3> QED BY <1>2, <2>2, <3>2 DEF FillCheck, RefusalStep, ghosts
  <2> QED BY <2>1, <2>2
<1>3. CASE FillPage(c)
  <2>1. PICK skipped \in BOOLEAN :
          Continue(c, "validating",
            [In(frame[c].rec, "VALIDATING") EXCEPT
               !.skipped = skipped, !.dryRun = @ \/ frame[c].dry])
    BY <1>3 DEF FillPage
  <2> DEFINE in == In(frame[c].rec, "VALIDATING")
             dry == in.dryRun \/ frame[c].dry
             rec == [in EXCEPT !.skipped = skipped, !.dryRun = dry]
  <2>2. in.dryRun = frame[c].rec.dryRun /\ in \in Records
    BY <1>1 DEF In, Records, States
  <2>3. rec.dryRun = dry
    BY <2>2 DEF Records
  <2>4. Continue(c, "validating", rec)
    BY <2>1
  <2>5. frame[c].rec.dryRun => rec.dryRun
    BY <2>2, <2>3
  <2> HIDE DEF rec
  <2>6. \A d \in Calls : Follows(d)
    BY <1>0, <1>1, <2>4, <2>5, ContinueFollows
  <2>7. Pages
    BY <1>1, <1>3 DEF FillPage, Pages, Base, TypeOK
  <2> QED BY <1>3, <2>6, <2>7 DEF FillPage, RefusalStep, rows, ghosts
<1>4. CASE FillValidate(c)
  <2>1. CASE FormChanged(c)
    BY <1>1, <1>4, <2>1, FormChangedRefusal DEF FillValidate, RefusalStep, ghosts
  <2>2. CASE ~FormChanged(c)
    <3> DEFINE read == IF frame[c].dry THEN frame[c].rec
                       ELSE [frame[c].rec EXCEPT !.values = page[frame[c].app].values]
    <3>1. PICK state : Continue(c, "reviewing", In(read, state)) /\ UNCHANGED record
      BY <1>4, <2>2 DEF FillValidate
    <3>2. In(read, state).dryRun = frame[c].rec.dryRun
      BY <1>1 DEF In, Records
    <3> HIDE DEF read
    <3>3. \A d \in Calls : Follows(d)
      BY <1>0, <1>1, <3>1, <3>2, ContinueFollows
    <3> QED BY <1>4, <3>1, <3>3 DEF FillValidate, RefusalStep, ghosts
  <2> QED BY <2>1, <2>2
<1>5. CASE FillEnd(c)
  <2>1. Rows
    BY <1>1, <1>5, SaveRows DEF FillEnd, States
  <2> QED BY <1>5, <2>1, EndFollows DEF FillEnd, RefusalStep, ghosts
<1>6. CASE FillFails(c)
  BY <1>6, EndFollows DEF FillFails, RefusalStep, rows, ghosts
<1> QED BY <1>2, <1>3, <1>4, <1>5, <1>6

LEMMA SubmitRefusal ==
  ASSUME Base, NEW c \in Calls,
         \/ SubmitCheckForm(c) \/ SubmitCheckValues(c) \/ SubmitReserve(c)
         \/ SubmitClick(c) \/ SubmitConfirmed(c) \/ SubmitUncertain(c) \/ SubmitFails(c)
         \/ SubmitSettles(c)
  PROVE  RefusalStep
<1> USE Untouched
<1>0. Submitting \subseteq Points \ {"cancelling"} /\ Submitting \subseteq HasApp
  BY DEF Submitting, InFlight, Points, HasApp
<1>1. frame[c].pc \in Submitting
  BY DEF SubmitCheckForm, SubmitCheckValues, SubmitCheck, SubmitReserve, SubmitClick,
         SubmitConfirmed, SubmitUncertain, SubmitFails, SubmitSettles, Settling, At,
         Submitting, InFlight
<1>2. frame[c].pc \in HasApp /\ frame[c].app \in Apps /\ frame[c].rec \in Records
  BY <1>0, <1>1, CallFacts
<1>3. ASSUME NEW point \in Submitting, NEW next \in Submitting, NEW same,
             SubmitCheck(c, point, next, same)
      PROVE  RefusalStep
  <2>1. Rows /\ \A d \in Calls : Follows(d)
    BY <1>0, <1>1, <1>2, <1>3, FormChangedRefusal, ContinueFollows DEF SubmitCheck
  <2> QED BY <1>3, <2>1 DEF SubmitCheck, RefusalStep, ghosts
<1>4. CASE SubmitCheckForm(c) \/ SubmitCheckValues(c)
  BY <1>3, <1>4 DEF SubmitCheckForm, SubmitCheckValues, Submitting
<1>5. CASE SubmitReserve(c)
  <2>1. "clicking" \in Submitting
    BY DEF Submitting, InFlight
  <2>2. In(frame[c].rec, "SUBMITTING").dryRun = frame[c].rec.dryRun
    BY <1>2 DEF In, Records
  <2>3. \A d \in Calls : Follows(d)
    BY <1>0, <1>1, <1>2, <1>5, <2>1, <2>2, EndFollows, ContinueFollows DEF SubmitReserve
  <2>4. Rows
    BY <1>2, <1>5, <2>2 DEF SubmitReserve, Rows, Base, TypeOK
  <2> QED BY <1>5, <2>3, <2>4 DEF SubmitReserve, RefusalStep, ghosts
<1>6. CASE SubmitClick(c)
  <2>1. "confirming" \in Submitting
    BY DEF Submitting, InFlight
  <2>2. \A d \in Calls : Follows(d)
    BY <1>0, <1>1, <1>2, <1>6, <2>1, ContinueFollows DEF SubmitClick
  <2>3. \A a \in Apps : clicks'[a] # clicks[a] => a = frame[c].app
    BY <1>6 DEF SubmitClick, Base, TypeOK
  <2>4. Ghosts
    BY <1>6, <2>3 DEF SubmitClick, Ghosts
  <2> QED BY <1>6, <2>2, <2>4 DEF SubmitClick, RefusalStep, rows
<1>7. CASE SubmitConfirmed(c) \/ SubmitUncertain(c)
  <2>1. PICK point \in Settling, state \in States :
          Save(frame[c].app, In(frame[c].rec, state)) /\ Continue(c, point, frame[c].rec)
    BY <1>7 DEF SubmitConfirmed, SubmitUncertain, Settling, States
  <2>2. point \in Submitting
    BY DEF Settling, Submitting, InFlight
  <2>3. Rows /\ \A d \in Calls : Follows(d)
    BY <1>0, <1>1, <1>2, <2>1, <2>2, SaveRows, ContinueFollows
  <2> QED BY <1>7, <2>3 DEF SubmitConfirmed, SubmitUncertain, RefusalStep, ghosts
<1>8. CASE SubmitSettles(c)
  <2>1. Pages
    BY <1>2, <1>8 DEF SubmitSettles, Pages, Base, TypeOK
  <2> QED BY <1>8, <2>1, EndFollows DEF SubmitSettles, RefusalStep, ghosts
<1>9. CASE SubmitFails(c)
  <2>1. Rows
    BY <1>2, <1>9, SaveRows DEF SubmitFails, States
  <2> QED BY <1>9, <2>1, EndFollows DEF SubmitFails, RefusalStep, ghosts
<1> QED BY <1>4, <1>5, <1>6, <1>7, <1>8, <1>9

LEMMA CancelRefusal ==
  ASSUME Base, NEW c \in Calls, CancelEnd(c)
  PROVE  RefusalStep
<1>1. frame[c].pc \in HasApp
  BY DEF CancelEnd, At, HasApp, Points
<1>2. Rows
  BY <1>1, SaveRows, Untouched DEF CancelEnd, States
<1>3. Ghosts
  BY DEF CancelEnd, Ghosts
<1> QED BY <1>2, <1>3, EndFollows, Untouched DEF CancelEnd, RefusalStep

LEMMA OthersRefusal ==
  ASSUME Base, Approval \/ Surroundings \/ Failure \/ UNCHANGED vars
  PROVE  RefusalStep
<1> USE Untouched
<1>0. UNCHANGED frame => \A c \in Calls : Follows(c)
  BY DEF Follows
<1>1. CASE Approval
  <2>1. UNCHANGED <<created, record, page, frame, clicks, cancelled, preparedDry>>
    BY <1>1 DEF Approval, RequestApproval, DecisionRefused, DecideApproval, ReadApproval,
                SaveApproval, Decide, rows, process, ghosts
  <2> QED BY <1>0, <2>1 DEF RefusalStep
<1>2. ASSUME NEW a \in Apps, PageChanges(a) PROVE RefusalStep
  <2>1. Pages
    BY <1>2 DEF PageChanges, Pages, Base, TypeOK
  <2> QED BY <1>0, <1>2, <2>1 DEF PageChanges, RefusalStep, rows
<1>3. CASE EmergencyEngage
  <2>1. ASSUME NEW c \in Calls
        PROVE  /\ frame'[c].pc = frame[c].pc /\ frame'[c].app = frame[c].app
               /\ frame'[c].rec = frame[c].rec
    BY <1>3 DEF EmergencyEngage, Base, TypeOK, Frames
  <2>2. \A c \in Calls : Follows(c)
    BY <2>1 DEF Follows
  <2> QED BY <1>3, <2>2 DEF EmergencyEngage, RefusalStep, rows, ghosts
<1>4. CASE (\E r \in Requests : RequestLapses(r)) \/ LockLapses \/ EmergencyReset
  <2>1. UNCHANGED <<created, record, page, frame, clicks, cancelled, preparedDry>>
    BY <1>4 DEF RequestLapses, LockLapses, EmergencyReset, rows, process, ghosts
  <2> QED BY <1>0, <2>1 DEF RefusalStep
<1>5. ASSUME Gone, UNCHANGED record PROVE RefusalStep
  <2>1. \A c \in Calls : Follows(c)
    BY <1>5 DEF Gone, Idle, Follows, HasApp
  <2>2. Pages
    BY <1>5 DEF Gone, Pages
  <2> QED BY <1>5, <2>1, <2>2 DEF Gone, RefusalStep, ghosts
<1>6. CASE Crash \/ \E c \in Calls : CrashInReserve(c)
  BY <1>5, <1>6 DEF Crash, CrashInReserve
<1>7. CASE CoordinatorCrash \/ UNCHANGED vars
  <2>1. UNCHANGED <<created, record, page, frame, clicks, cancelled, preparedDry>>
    BY <1>7 DEF CoordinatorCrash, vars, rows, process, ghosts
  <2> QED BY <1>0, <2>1 DEF RefusalStep
<1> QED BY <1>1, <1>2, <1>3, <1>4, <1>6, <1>7 DEF Surroundings, Failure

LEMMA RefusalSteps ==
  ASSUME Base, [Next]_vars
  PROVE  RefusalStep
<1>1. ASSUME NEW c \in Calls, CallStep(c) PROVE RefusalStep
  BY <1>1, PrepareRefusal, FillRefusal, SubmitRefusal, CancelRefusal DEF CallStep
<1> QED BY <1>1, BeginRefusal, OthersRefusal DEF Next

-----------------------------------------------------------------------------
(* Dry runs. *)

\* Every copy of a dry run, stored or kept by a call, says that it is one,
\* and a call that submits does not keep one.
DryInv ==
  /\ \A a \in preparedDry : a <= created /\ record[a].dryRun /\ clicks[a] = 0
  /\ \A c \in Calls : frame[c].pc \in HasApp /\ frame[c].app \in preparedDry =>
       frame[c].rec.dryRun /\ frame[c].pc \notin Submitting
  /\ \A a \in Apps : clicks[a] # 0 => a <= created

LEMMA DryInitially == Init => DryInv
  BY DEF Init, Idle, HasApp, DryInv

LEMMA DryStep ==
  ASSUME Base, DryInv, RefusalStep, Base'
  PROVE  DryInv'
<1> USE DEF RefusalStep
<1>1. ASSUME NEW a \in Apps, a <= created PROVE a <= created'
  BY <1>1 DEF Base, TypeOK, Apps
<1>2. ASSUME NEW a \in Apps, clicks'[a] # clicks[a]
      PROVE  a <= created /\ a \notin preparedDry
  <2>1. PICK c \in Calls : At(c, "clicking") /\ frame[c].app = a
    BY <1>2 DEF Ghosts
  <2> QED BY <2>1, CallFacts DEF At, HasApp, Points, Submitting, InFlight, DryInv
<1>3. \A a \in Apps : clicks'[a] # 0 => a <= created'
  BY <1>1, <1>2 DEF DryInv
<1>4. preparedDry \subseteq Apps /\ preparedDry' \subseteq Apps
  BY DEF Base, TypeOK
<1>5. ASSUME NEW a \in preparedDry'
      PROVE  a <= created' /\ record'[a].dryRun /\ clicks'[a] = 0
  <2>1. CASE a \in preparedDry
    <3>1. a \in Apps /\ a <= created /\ record[a].dryRun /\ clicks[a] = 0
      BY <1>4, <2>1 DEF DryInv
    <3>2. record'[a].dryRun
      BY <2>1, <3>1 DEF Rows, DryInv
    <3> QED BY <1>1, <1>2, <2>1, <3>1, <3>2
  <2>2. CASE a \notin preparedDry
    <3>1. a \in Apps /\ ~(a <= created) /\ a <= created' /\ record'[a].dryRun
      BY <1>4, <1>5, <2>2 DEF Ghosts
    <3> QED BY <1>2, <3>1 DEF DryInv
  <2> QED BY <2>1, <2>2
<1>6. ASSUME NEW c \in Calls, frame'[c].pc \in HasApp, frame'[c].app \in preparedDry'
      PROVE  frame'[c].rec.dryRun /\ frame'[c].pc \notin Submitting
  <2> DEFINE a == frame'[c].app
  <2>1. a \in Apps
    BY <1>4, <1>6
  <2>2. CASE /\ frame[c].pc \in HasApp /\ a = frame[c].app
             /\ frame[c].rec.dryRun => frame'[c].rec.dryRun
             /\ frame'[c].pc \in Submitting => frame[c].pc \in Submitting
    <3>1. a <= created
      BY <2>2, CallFacts
    <3>2. a \in preparedDry
      BY <1>6, <3>1 DEF Ghosts
    <3> QED BY <2>2, <3>2 DEF DryInv
  <2>3. CASE /\ a <= created /\ frame'[c].rec = record[a]
             /\ frame'[c].pc \in Submitting => ~record[a].dryRun
    <3>1. a \in preparedDry
      BY <1>6, <2>3 DEF Ghosts
    <3> QED BY <2>3, <3>1 DEF DryInv
  <2> QED BY <1>6, <2>2, <2>3 DEF Follows
<1> QED BY <1>3, <1>5, <1>6 DEF DryInv

\* docs/extension-installation.md:20 "changing it only at submit time is
\* intentionally insufficient": a dry run stays one, whatever the fills that
\* follow say and whichever stale copies of it are written back.
THEOREM DryRunsNeverClicked == Spec => []DryRunNeverClicks
<1>1. Init => Base /\ DryInv
  BY InitBase, DryInitially
<1>2. Base /\ DryInv /\ [Next]_vars => Base' /\ DryInv'
  BY NextBase, RefusalSteps, DryStep
<1>3. DryInv => DryRunNeverClicks
  BY DEF DryInv, DryRunNeverClicks
<1> QED BY <1>1, <1>2, <1>3, PTL DEF Spec

-----------------------------------------------------------------------------
(* Cancelled applications. *)

\* The page is closed before cancel() reads the application, and nothing
\* opens it again.
ClosedInv ==
  /\ \A a \in cancelled : a <= created /\ page[a] = Nothing
  /\ \A c \in Calls : At(c, "cancelling") => page[frame[c].app] = Nothing

LEMMA ClosedInitially == Init => ClosedInv
  BY DEF Init, Idle, At, ClosedInv

LEMMA ClosedStep ==
  ASSUME Base, ClosedInv, RefusalStep
  PROVE  ClosedInv'
<1> USE DEF RefusalStep
<1>1. ASSUME NEW c \in Calls, At(c, "cancelling")
      PROVE  frame[c].app \in Apps /\ frame[c].app <= created
  BY <1>1, CallFacts DEF At, HasApp, Points
<1>2. ASSUME NEW a \in Apps, a <= created PROVE a <= created'
  BY <1>2 DEF Base, TypeOK, Apps
<1>3. ASSUME NEW a \in cancelled' PROVE a <= created' /\ page'[a] = Nothing
  <2>1. a \in Apps /\ a <= created /\ page[a] = Nothing
    BY <1>1, <1>3 DEF Ghosts, ClosedInv, Base, TypeOK
  <2> QED BY <1>2, <2>1 DEF Pages
<1>4. ASSUME NEW c \in Calls, At(c, "cancelling")'
      PROVE  page'[frame'[c].app] = Nothing
  <2>1. frame'[c].pc = "cancelling" /\ frame'[c].pc \in HasApp
    BY <1>4 DEF At, HasApp, Points
  <2>2. CASE frame[c].pc = "cancelling" /\ frame'[c].app = frame[c].app
    BY <1>1, <2>2 DEF At, ClosedInv, Pages
  <2> QED BY <2>1, <2>2 DEF Follows
<1> QED BY <1>3, <1>4 DEF ClosedInv

\* After cancel() has reported success no call clicks the application's
\* button any more, however far it had come: cancel() closed its page first.
THEOREM CancelledNeverClicked == Spec => NoClickAfterCancel
<1>1. Init => Base /\ ClosedInv
  BY InitBase, ClosedInitially
<1>2. Base /\ ClosedInv /\ [Next]_vars => Base' /\ ClosedInv'
  BY NextBase, RefusalSteps, ClosedStep
<1>3. Base /\ ClosedInv /\ [Next]_vars
        => [\A a \in cancelled : clicks'[a] = clicks[a]]_vars
  <2> SUFFICES ASSUME Base, ClosedInv, [Next]_vars, NEW a \in cancelled
               PROVE  clicks'[a] = clicks[a]
    OBVIOUS
  <2>1. a \in Apps /\ page[a] = Nothing
    BY DEF Base, TypeOK, ClosedInv
  <2> QED BY <2>1, RefusalSteps DEF RefusalStep, Ghosts
<1> QED BY <1>1, <1>2, <1>3, PTL DEF Spec, NoClickAfterCancel

-----------------------------------------------------------------------------
(* Records: the application's row and its row in submission_attempts agree  *)
(* on the outcome.  The application's row is written by the call that       *)
(* clicked and by no stale copy (Outcomes), the attempt by the next         *)
(* statement of that call, which finds the row as it left it, or by nobody  *)
(* because the process died in between (Settlings).                         *)

\* What the row says while a call has still to settle the attempt.
Stored(c) == IF At(c, "submitted") THEN "SUBMITTED" ELSE "FAILED_PERMANENT"

\* The row gets the outcome of a call that was about to click or had clicked.
Settled(a) ==
  /\ UNCHANGED <<clicks, attempt>>
  /\ \E c \in Calls :
       /\ frame[c].app = a /\ frame'[c].app = a
       /\ \/ /\ record'[a].state = "SUBMITTED"
             /\ frame[c].pc = "confirming" /\ frame'[c].pc = "submitted"
          \/ /\ record'[a].state = "FAILED_PERMANENT"
             /\ frame[c].pc \in InFlight /\ frame'[c].pc = "uncertain"

Outcomes ==
  \A a \in Apps : record'[a].state \in Ended =>
    record'[a].state = record[a].state \/ Settled(a)

\* A call that has stored the outcome waits, settles the attempt or dies; a
\* call that stores it leaves the row that says so.
Settlings ==
  /\ torn \subseteq torn'
  /\ \A c \in Calls : frame[c].pc \in Settling =>
       /\ UNCHANGED record
       /\ \/ frame'[c].pc = frame[c].pc /\ frame'[c].app = frame[c].app
          \/ frame[c].app \in torn'
          \/ attempt'[frame[c].app] # "reserved"
  /\ \A c \in Calls : frame'[c].pc \in Settling =>
       \/ frame'[c].pc = frame[c].pc /\ frame'[c].app = frame[c].app
       \/ record'[frame'[c].app].state = Stored(c)'

LEMMA NothingEnds ==
  ASSUME UNCHANGED record PROVE Outcomes
  BY DEF Outcomes

\* No other copy that is written says that the application ended.
LEMMA OpenCopy ==
  ASSUME Base, NEW a \in Apps, NEW rec, rec.state \notin Ended,
         record' = [record EXCEPT ![a] = rec]
  PROVE  Outcomes
  BY DEF Outcomes, Base, TypeOK

LEMMA FormChangedOutcomes ==
  ASSUME Base, NEW c \in Calls, frame[c].pc \in HasApp, FormChanged(c)
  PROVE  Outcomes
<1>1. In(frame[c].rec, "FORM_CHANGED").state \notin Ended
  BY InType, CallFacts DEF States, Ended
<1> QED BY <1>1, CallFacts, OpenCopy DEF FormChanged, Save

\* The call that stores how its application ended.
LEMMA SettlingStep ==
  ASSUME Base, NEW c \in Calls, SubmitConfirmed(c) \/ SubmitUncertain(c)
  PROVE  /\ frame[c].app \in Apps /\ frame'[c].app = frame[c].app
         /\ frame'[c].pc \in Settling /\ record'[frame[c].app].state = Stored(c)'
         /\ frame[c].pc \in InFlight
         /\ frame'[c].pc = "submitted" => frame[c].pc = "confirming"
         /\ \A b \in Apps \ {frame[c].app} : record'[b] = record[b]
         /\ \A d \in Calls \ {c} : frame'[d] = frame[d]
         /\ UNCHANGED <<clicks, attempt>>
<1>1. PICK point \in Settling, state \in States :
        /\ Save(frame[c].app, In(frame[c].rec, state)) /\ Continue(c, point, frame[c].rec)
        /\ point = "submitted" => At(c, "confirming")
        /\ state = IF point = "submitted" THEN "SUBMITTED" ELSE "FAILED_PERMANENT"
  BY DEF SubmitConfirmed, SubmitUncertain, Settling, States
<1>2. frame[c].pc \in InFlight /\ frame[c].app \in Apps /\ frame[c].rec \in Records
  BY CallFacts, InFlightApp DEF SubmitConfirmed, SubmitUncertain, At, InFlight
<1>3. /\ frame'[c].pc = point /\ frame'[c].app = frame[c].app
      /\ \A d \in Calls \ {c} : frame'[d] = frame[d]
  <2>1. /\ frame'[c] = [frame[c] EXCEPT !.pc = point, !.rec = frame[c].rec]
        /\ \A d \in Calls \ {c} : frame'[d] = frame[d]
    BY <1>1 DEF Continue, Base, TypeOK
  <2> QED BY <2>1, CallFacts DEF Frames
<1>4. /\ record'[frame[c].app].state = state
      /\ \A b \in Apps \ {frame[c].app} : record'[b] = record[b]
  BY <1>1, <1>2, InType DEF Save, Base, TypeOK
<1>5. UNCHANGED <<clicks, attempt>>
  BY DEF SubmitConfirmed, SubmitUncertain, Save, ghosts
<1> QED BY <1>1, <1>2, <1>3, <1>4, <1>5 DEF Stored, At

LEMMA SettlingOutcomes ==
  ASSUME Base, NEW c \in Calls, SubmitConfirmed(c) \/ SubmitUncertain(c)
  PROVE  Outcomes
<1>1. Settled(frame[c].app)
  BY SettlingStep DEF Settled, Stored, Settling, At
<1> QED BY <1>1, SettlingStep DEF Outcomes

LEMMA CallOutcomes ==
  ASSUME Base, NEW c \in Calls, CallStep(c)
  PROVE  Outcomes
<1> USE CallFacts
<1>1. CASE PrepareEnd(c)
  <2>1. created + 1 \in Apps
    BY <1>1, SubmissionAssumption DEF PrepareEnd, Apps
  <2>2. PICK form \in Forms :
          Save(created + 1,
               [state |-> "WAITING_FOR_APPROVAL", form |-> form, values |-> Nothing,
                skipped |-> FALSE, dryRun |-> frame[c].dry])
    BY <1>1 DEF PrepareEnd
  <2>3. [state |-> "WAITING_FOR_APPROVAL", form |-> form, values |-> Nothing,
         skipped |-> FALSE, dryRun |-> frame[c].dry].state \notin Ended
    BY DEF Ended
  <2> QED BY <2>1, <2>2, <2>3, OpenCopy DEF Save
<1>2. CASE PrepareFails(c) \/ FillPage(c) \/ FillFails(c) \/ SubmitClick(c) \/ SubmitSettles(c)
  BY <1>2, NothingEnds DEF PrepareFails, FillPage, FillFails, SubmitClick, SubmitSettles, rows
<1>3. CASE FillCheck(c) \/ FillValidate(c) \/ SubmitCheckForm(c) \/ SubmitCheckValues(c)
  <2>1. frame[c].pc \in HasApp
    BY <1>3 DEF FillCheck, FillValidate, SubmitCheckForm, SubmitCheckValues, SubmitCheck,
                At, HasApp, Points
  <2>2. FormChanged(c) \/ UNCHANGED record
    BY <1>3 DEF FillCheck, FillValidate, SubmitCheckForm, SubmitCheckValues, SubmitCheck
  <2> QED BY <2>1, <2>2, FormChangedOutcomes, NothingEnds
<1>4. CASE FillEnd(c) \/ SubmitFails(c)
  <2>1. frame[c].app \in Apps /\ record' = [record EXCEPT ![frame[c].app] = frame[c].rec]
    BY <1>4 DEF FillEnd, SubmitFails, Save, At, HasApp, Points
  <2> QED BY <2>1, OpenCopy
<1>5. CASE SubmitReserve(c)
  <2>1. frame[c].app \in Apps
    BY <1>5 DEF SubmitReserve, At, HasApp, Points
  <2>2. In(frame[c].rec, "SUBMITTING").state \notin Ended
    BY InType DEF States, Ended
  <2> QED BY <1>5, <2>1, <2>2, OpenCopy DEF SubmitReserve
<1>6. CASE CancelEnd(c)
  <2>1. frame[c].app \in Apps
    BY <1>6 DEF CancelEnd, At, HasApp, Points
  <2>2. In(frame[c].rec, "CANCELLED").state \notin Ended
    BY InType DEF States, Ended
  <2> QED BY <1>6, <2>1, <2>2, OpenCopy, NothingEnds DEF CancelEnd, Save
<1> QED BY <1>1, <1>2, <1>3, <1>4, <1>5, <1>6, SettlingOutcomes DEF CallStep

LEMMA OutcomeSteps ==
  ASSUME Base, [Next]_vars
  PROVE  Outcomes
<1>1. ASSUME NEW c \in Calls, Begin(c) PROVE UNCHANGED record
  BY <1>1 DEF Begin, PrepareBegin, FillBegin, SubmitBegin, SubmitRefused, CancelBegin, rows
<1>2. Approval => UNCHANGED record
  BY DEF Approval, RequestApproval, DecisionRefused, DecideApproval, ReadApproval,
         SaveApproval, Decide, rows
<1>3. Surroundings => UNCHANGED record
  BY DEF Surroundings, PageChanges, RequestLapses, LockLapses, EmergencyEngage,
         EmergencyReset, rows
<1>4. Failure \/ UNCHANGED vars => UNCHANGED record
  BY DEF Failure, Crash, CrashInReserve, CoordinatorCrash, vars, rows
<1> QED BY <1>1, <1>2, <1>3, <1>4, CallOutcomes, NothingEnds DEF Next

-----------------------------------------------------------------------------
(* The calls that still have to settle their attempt. *)

\* The steps that leave the rows of the applications and the calls alone.
LEMMA NobodySettles ==
  ASSUME UNCHANGED <<record, frame, torn>>
  PROVE  Settlings
  BY DEF Settlings

LEMMA BeginSettlings ==
  ASSUME Base, NEW c \in Calls, Begin(c)
  PROVE  Settlings
<1>1. ~Saving /\ UNCHANGED torn
  BY DEF Begin, PrepareBegin, FillBegin, SubmitBegin, SubmitRefused, CancelBegin, ghosts
<1>2. \A d \in Calls : frame'[d].pc \notin Settling
  <2>1. ASSUME NEW dry \in BOOLEAN, PrepareBegin(c, dry)
        PROVE  frame'[c].pc \notin Settling /\ \A d \in Calls \ {c} : frame'[d] = frame[d]
    BY <2>1, CallFacts DEF PrepareBegin, Base, TypeOK, Frames, Settling
  <2>2. ASSUME NEW point \in Points \ Settling, NEW a, NEW req, NEW answers, NEW dry,
               Enter(c, point, a, req, answers, dry)
        PROVE  frame'[c].pc \notin Settling /\ \A d \in Calls \ {c} : frame'[d] = frame[d]
    BY <2>2 DEF Enter, Base, TypeOK
  <2>3. {"fillCheck", "submitCheck", "cancelling"} \subseteq Points \ Settling
    BY DEF Points, Settling
  <2>4. \/ UNCHANGED frame
        \/ frame'[c].pc \notin Settling /\ \A d \in Calls \ {c} : frame'[d] = frame[d]
    BY <2>1, <2>2, <2>3 DEF Begin, FillBegin, SubmitBegin, SubmitRefused, CancelBegin, process
  <2> QED BY <1>1, <2>4 DEF Saving
<1> QED BY <1>1, <1>2 DEF Settlings, Saving

LEMMA CallSettlings ==
  ASSUME Base, NEW c \in Calls, CallStep(c)
  PROVE  Settlings
<1>1. CASE SubmitSettles(c)
  <2>1. frame[c].app \in Apps
    BY <1>1, CallFacts DEF SubmitSettles, Settling, HasApp, Points
  <2>2. attempt'[frame[c].app] # "reserved"
    BY <1>1, <2>1 DEF SubmitSettles, AttemptAfter, Base, TypeOK
  <2>3. frame'[c].pc = "idle" /\ \A d \in Calls \ {c} : frame'[d] = frame[d]
    BY <1>1 DEF SubmitSettles, End, Idle, Base, TypeOK
  <2>4. UNCHANGED <<record, torn>>
    BY <1>1 DEF SubmitSettles, ghosts
  <2> QED BY <2>2, <2>3, <2>4 DEF Settlings, Settling
<1>2. CASE ~SubmitSettles(c)
  <2>1. ~Saving
    BY <1>2 DEF CallStep
  <2>2. UNCHANGED torn
    BY <1>2 DEF CallStep, PrepareEnd, PrepareFails, FillCheck, FillPage, FillValidate, FillEnd,
       FillFails, SubmitCheckForm, SubmitCheckValues, SubmitCheck, SubmitReserve, SubmitClick,
       SubmitConfirmed, SubmitUncertain, SubmitFails, CancelEnd, ghosts
  <2>3. CASE SubmitConfirmed(c) \/ SubmitUncertain(c)
    BY <2>1, <2>2, <2>3, SettlingStep DEF Settlings, Saving
  <2>4. CASE ~(SubmitConfirmed(c) \/ SubmitUncertain(c))
    <3>1. End(c) \/ \E point \in Points \ Settling : \E rec : Continue(c, point, rec)
      BY <1>2, <2>4 DEF CallStep, PrepareEnd, PrepareFails, FillCheck, FillPage, FillValidate,
         FillEnd, FillFails, SubmitCheckForm, SubmitCheckValues, SubmitCheck, SubmitReserve,
         SubmitClick, SubmitFails, CancelEnd, FormChanged, Points, Settling
    <3>2. frame'[c].pc \notin Settling /\ \A d \in Calls \ {c} : frame'[d] = frame[d]
      <4>1. CASE End(c)
        BY <4>1 DEF End, Idle, Settling, Base, TypeOK
      <4>2. ASSUME NEW point \in Points \ Settling, NEW rec, Continue(c, point, rec)
            PROVE  frame'[c].pc = point /\ \A d \in Calls \ {c} : frame'[d] = frame[d]
        <5>1. /\ frame'[c] = [frame[c] EXCEPT !.pc = point, !.rec = rec]
              /\ \A d \in Calls \ {c} : frame'[d] = frame[d]
          BY <4>2 DEF Continue, Base, TypeOK
        <5> QED BY <5>1, CallFacts DEF Frames
      <4> QED BY <3>1, <4>1, <4>2
    <3> QED BY <2>1, <2>2, <3>2 DEF Settlings, Saving
  <2> QED BY <2>3, <2>4
<1> QED BY <1>1, <1>2

LEMMA SettlingsSteps ==
  ASSUME Base, [Next]_vars
  PROVE  Settlings
<1>1. CASE Approval
  BY <1>1, NobodySettles DEF Approval, RequestApproval, DecisionRefused, DecideApproval,
     ReadApproval, SaveApproval, Decide, rows, process, ghosts
<1>2. CASE EmergencyEngage
  <2>1. \A c \in Calls : frame'[c].pc = frame[c].pc /\ frame'[c].app = frame[c].app
    BY <1>2 DEF EmergencyEngage, Base, TypeOK, Frames
  <2> QED BY <1>2, <2>1 DEF EmergencyEngage, Settlings, rows, ghosts
<1>3. CASE Surroundings /\ ~EmergencyEngage
  BY <1>3, NobodySettles DEF Surroundings, PageChanges, RequestLapses, LockLapses,
     EmergencyReset, rows, process, ghosts
<1>4. ASSUME Gone, UNCHANGED record PROVE Settlings
  <2>1. \A c \in Calls : frame'[c].pc \notin Settling
    BY <1>4 DEF Gone, Idle, Settling
  <2>2. /\ torn \subseteq torn'
        /\ \A c \in Calls : frame[c].pc \in Settling => frame[c].app \in torn'
    BY <1>4 DEF Gone
  <2> QED BY <1>4, <2>1, <2>2 DEF Settlings
<1>5. CASE Failure
  BY <1>4, <1>5, NobodySettles DEF Failure, Crash, CrashInReserve, CoordinatorCrash, rows, ghosts
<1>6. CASE UNCHANGED vars
  BY <1>6, NobodySettles DEF vars, rows, process, ghosts
<1> QED BY <1>1, <1>2, <1>3, <1>5, <1>6, BeginSettlings, CallSettlings DEF Next

-----------------------------------------------------------------------------
(* The two tables. *)

\* The tables agree; whoever waits for the confirmation or has stored it has
\* clicked, and whoever has still to settle an attempt finds the row so.
AgreeInv ==
  /\ AttemptAgrees
  /\ \A c \in Calls :
       /\ frame[c].pc \in {"confirming", "submitted"} => clicks[frame[c].app] = 1
       /\ frame[c].pc \in Settling => record[frame[c].app].state = Stored(c)

LEMMA AgreeInitially == Init => AgreeInv
  BY DEF Init, Idle, NoRecord, AttemptAgrees, AgreeInv, Settling

\* What may become of an attempt that is reserved or was settled.
LEMMA AttemptMoves ==
  ASSUME Base, ClickInv, Kind, NEW a \in Apps
  PROVE  /\ clicks[a] = 1 => clicks'[a] = 1
         /\ attempt[a] \in {"completed", "uncertain"} => attempt'[a] = attempt[a]
         /\ attempt[a] = "reserved" =>
              \/ attempt'[a] = "reserved"
              \/ \E c \in Calls : /\ frame[c].pc \in Settling /\ frame[c].app = a
                                  /\ attempt'[a] = Outcome(c)
<1>1. CASE Quiet
  BY <1>1 DEF Quiet
<1>2. ASSUME NEW c \in Calls, NEW b \in Apps, Reserves(c, b)
      PROVE  (attempt[a] # "none" => attempt'[a] = attempt[a]) /\ clicks'[a] = clicks[a]
  BY <1>2 DEF Reserves, Base, TypeOK
<1>3. ASSUME NEW c \in Calls, Clicks(c)
      PROVE  attempt'[a] = attempt[a] /\ (clicks[a] = 1 => clicks'[a] = 1)
  <2>1. frame[c].app \in Apps /\ clicks[frame[c].app] = 0
    BY <1>3, InFlightApp DEF Clicks, ClickInv, InFlight
  <2> QED BY <1>3, <2>1 DEF Clicks, Base, TypeOK
<1>4. ASSUME NEW c \in Calls, Settles(c)
      PROVE  /\ clicks'[a] = clicks[a]
             /\ frame[c].pc \in Settling
             /\ frame[c].app # a => attempt'[a] = attempt[a]
             /\ frame[c].app = a => attempt[a] = "reserved" /\ attempt'[a] = Outcome(c)
  <2>1. frame[c].pc \in InFlight
    BY <1>4 DEF Settles, Settling, InFlight
  <2>2. frame[c].app \in Apps /\ attempt[frame[c].app] = "reserved"
    BY <2>1, InFlightApp DEF ClickInv
  <2> QED BY <1>4, <2>2 DEF Settles, Base, TypeOK
<1> QED BY <1>1, <1>2, <1>3, <1>4 DEF Kind

LEMMA ClickedStep ==
  ASSUME Base, ClickInv, AgreeInv, Kind, NEW d \in Calls,
         frame'[d].pc \in {"confirming", "submitted"}
  PROVE  clicks'[frame'[d].app] = 1
<1>1. ASSUME Kept(d) PROVE clicks'[frame'[d].app] = 1
  <2>1. frame'[d].app = frame[d].app /\ frame[d].pc \in {"confirming", "submitted"}
    BY <1>1 DEF Kept, InFlight
  <2>2. frame[d].app \in Apps /\ clicks[frame[d].app] = 1
    BY <2>1, InFlightApp DEF InFlight, AgreeInv
  <2> QED BY <2>1, <2>2, AttemptMoves
<1>2. ASSUME Clicks(d) PROVE clicks'[frame'[d].app] = 1
  <2>1. frame[d].app \in Apps /\ clicks[frame[d].app] = 0
    BY <1>2, InFlightApp DEF Clicks, ClickInv, InFlight
  <2> QED BY <1>2, <2>1 DEF Clicks, Base, TypeOK
<1>3. ASSUME NEW a \in Apps, Reserves(d, a) PROVE FALSE
  BY <1>3 DEF Reserves, InFlight
<1>4. ASSUME Settles(d) PROVE FALSE
  BY <1>4 DEF Settles, InFlight
<1> QED BY <1>1, <1>2, <1>3, <1>4 DEF Kind, Quiet, Reserves, Clicks, Settles

LEMMA AgreeStep ==
  ASSUME Base, ClickInv, AgreeInv, [Next]_vars
  PROVE  AgreeInv'
<1>1. Kind /\ Outcomes /\ Settlings
  BY StepKinds, OutcomeSteps, SettlingsSteps
<1>2. \A c \in Calls :
        frame'[c].pc \in {"confirming", "submitted"} => clicks'[frame'[c].app] = 1
  BY <1>1, ClickedStep
<1>3. ASSUME NEW c \in Calls, frame'[c].pc \in Settling
      PROVE  record'[frame'[c].app].state = Stored(c)'
  <2>1. CASE frame'[c].pc = frame[c].pc /\ frame'[c].app = frame[c].app
    <3>1. record' = record /\ Stored(c)' = Stored(c)
      BY <1>1, <1>3, <2>1 DEF Settlings, Stored, At
    <3> QED BY <1>3, <2>1, <3>1 DEF AgreeInv
  <2> QED BY <1>1, <1>3, <2>1 DEF Settlings
<1>4. ASSUME NEW a \in Apps, record'[a].state \in Ended
      PROVE  /\ record'[a].state = "SUBMITTED" =>
                  clicks'[a] = 1 /\ (attempt'[a] = "completed" \/ Unsettled(a)')
             /\ record'[a].state = "FAILED_PERMANENT" =>
                  attempt'[a] = "uncertain" \/ Unsettled(a)'
  <2>1. CASE record'[a].state = record[a].state
    <3>1. record[a].state = "SUBMITTED" => clicks'[a] = 1
      BY <1>1, AttemptMoves DEF AgreeInv, AttemptAgrees
    <3>2. CASE attempt[a] \in {"completed", "uncertain"}
      BY <1>1, <2>1, <3>1, <3>2, AttemptMoves DEF AgreeInv, AttemptAgrees, Unsettled
    <3>3. CASE Unsettled(a)
      <4>1. CASE attempt'[a] = "reserved"
        <5>1. a \in torn' \/ \E c \in Calls : frame'[c].app = a /\ frame'[c].pc \in Settling
          <6>1. CASE a \in torn
            BY <1>1, <6>1 DEF Settlings
          <6>2. ASSUME NEW c \in Calls, frame[c].app = a, frame[c].pc \in Settling
                PROVE  a \in torn' \/ (frame'[c].app = a /\ frame'[c].pc \in Settling)
            BY <1>1, <4>1, <6>2 DEF Settlings
          <6> QED BY <3>3, <6>1, <6>2 DEF Unsettled
        <5> QED BY <2>1, <3>1, <4>1, <5>1 DEF Unsettled
      <4>2. CASE attempt'[a] # "reserved"
        <5>1. PICK c \in Calls : /\ frame[c].pc \in Settling /\ frame[c].app = a
                                /\ attempt'[a] = Outcome(c)
          BY <1>1, <3>3, <4>2, AttemptMoves DEF Unsettled
        <5>2. record[a].state = Stored(c)
          BY <5>1 DEF AgreeInv
        <5> QED BY <2>1, <3>1, <5>1, <5>2 DEF Stored, Outcome
      <4> QED BY <4>1, <4>2
    <3> QED BY <1>4, <2>1, <3>2, <3>3 DEF AgreeInv, AttemptAgrees, Ended
  <2>2. CASE Settled(a)
    <3>1. PICK c \in Calls :
            /\ frame[c].app = a /\ frame'[c].app = a /\ frame[c].pc \in InFlight
            /\ frame'[c].pc \in Settling
            /\ record'[a].state = "SUBMITTED" => frame'[c].pc = "submitted"
      BY <2>2 DEF Settled, InFlight, Settling
    <3>2. attempt'[a] = "reserved"
      BY <2>2, <3>1 DEF Settled, ClickInv
    <3>3. Unsettled(a)'
      BY <3>1, <3>2 DEF Unsettled
    <3>4. record'[a].state = "SUBMITTED" => clicks'[a] = 1
      BY <1>2, <3>1
    <3> QED BY <3>3, <3>4
  <2> QED BY <1>1, <1>4, <2>1, <2>2 DEF Outcomes
<1> QED BY <1>2, <1>3, <1>4 DEF AgreeInv, AttemptAgrees, Ended

\* An application is stored as SUBMITTED only after its one click and with a
\* completed attempt, and as failed only with an uncertain one, whichever calls
\* overlap; or its attempt is still reserved because the second statement of
\* savePreparedApplication() (store.ts:135) is to come, or died with its process.
THEOREM TablesAgree == Spec => []AttemptAgrees
<1>1. Init => AgreeInv
  BY AgreeInitially
<1>2. Base /\ ClickInv /\ AgreeInv /\ [Next]_vars => AgreeInv'
  BY AgreeStep
<1>3. AgreeInv => AttemptAgrees
  BY DEF AgreeInv
<1> QED BY <1>1, <1>2, <1>3, ClickInductive, PTL DEF Spec

-----------------------------------------------------------------------------
(* One call at a time.  A browser worker runs the methods one after the     *)
(* other: then nobody writes an old copy back, and nobody else fills the    *)
(* page that is being submitted.  The theorems below assume just that.      *)

OneCall == \A c, d \in Calls : c = d

\* What the helpers leave in the frame of their call.
LEMMA FrameAfter ==
  ASSUME Base, NEW c \in Calls
  PROVE  /\ End(c) => frame'[c].pc = "idle" /\ \A d \in Calls \ {c} : frame'[d] = frame[d]
         /\ \A point, rec : Continue(c, point, rec) =>
              /\ frame'[c].pc = point /\ frame'[c].rec = rec
              /\ frame'[c].app = frame[c].app /\ frame'[c].req = frame[c].req
              /\ \A d \in Calls \ {c} : frame'[d] = frame[d]
         /\ \A point, a, req, answers, dry : Enter(c, point, a, req, answers, dry) =>
              /\ frame'[c].pc = point /\ frame'[c].rec = record[a]
              /\ frame'[c].app = a /\ frame'[c].req = req
              /\ \A d \in Calls \ {c} : frame'[d] = frame[d]
<1>1. End(c) => frame'[c].pc = "idle" /\ \A d \in Calls \ {c} : frame'[d] = frame[d]
  BY DEF End, Idle, Base, TypeOK
<1>2. ASSUME NEW point, NEW rec, Continue(c, point, rec)
      PROVE  /\ frame'[c].pc = point /\ frame'[c].rec = rec
             /\ frame'[c].app = frame[c].app /\ frame'[c].req = frame[c].req
             /\ \A d \in Calls \ {c} : frame'[d] = frame[d]
  <2>1. frame'[c] = [frame[c] EXCEPT !.pc = point, !.rec = rec]
          /\ \A d \in Calls \ {c} : frame'[d] = frame[d]
    BY <1>2 DEF Continue, Base, TypeOK
  <2> QED BY <2>1, CallFacts DEF Frames
<1>3. ASSUME NEW point, NEW a, NEW req, NEW answers, NEW dry, Enter(c, point, a, req, answers, dry)
      PROVE  /\ frame'[c].pc = point /\ frame'[c].rec = record[a]
             /\ frame'[c].app = a /\ frame'[c].req = req
             /\ \A d \in Calls \ {c} : frame'[d] = frame[d]
  BY <1>3 DEF Enter, Base, TypeOK
<1> QED BY <1>1, <1>2, <1>3

\* A call goes on with its application or takes up one that is not cancelled.
TakesUp(c) ==
  frame'[c].pc \in HasApp =>
    \/ frame[c].pc \in HasApp /\ frame'[c].app = frame[c].app
    \/ /\ frame[c].pc = "idle" /\ created' = created
       /\ frame'[c].app \in Apps /\ frame'[c].app <= created
       /\ record[frame'[c].app].state # "CANCELLED"

\* A call prepares only when the latest application is cancelled.
Prepares(c) ==
  frame'[c].pc = "preparing" =>
    \/ frame[c].pc = "preparing"
    \/ frame[c].pc = "idle" /\ (created > 0 => record[created].state = "CANCELLED")

\* An application is added by a call that was preparing it.
Adds ==
  created' # created =>
    created' = created + 1 /\ \E c \in Calls : At(c, "preparing") /\ frame'[c].pc = "idle"

OpenStep == (\A c \in Calls : TakesUp(c) /\ Prepares(c)) /\ Adds

LEMMA BeginOpens ==
  ASSUME Base, NEW c \in Calls, Begin(c)
  PROVE  OpenStep
<1>1. Adds
  BY DEF Begin, PrepareBegin, FillBegin, SubmitBegin, SubmitRefused, CancelBegin, rows, Adds
<1>2. ASSUME NEW d \in Calls, frame'[d] = frame[d]
      PROVE  TakesUp(d) /\ Prepares(d)
  BY <1>2 DEF TakesUp, Prepares
<1>3. ASSUME NEW dry \in BOOLEAN, PrepareBegin(c, dry)
      PROVE  OpenStep
  <2>1. frame'[c].pc = "preparing" /\ \A d \in Calls \ {c} : frame'[d] = frame[d]
    BY <1>3, CallFacts DEF PrepareBegin, Base, TypeOK, Frames
  <2>2. TakesUp(c) /\ Prepares(c)
    BY <1>3, <2>1 DEF PrepareBegin, TakesUp, Prepares, HasApp, At
  <2> QED BY <1>1, <1>2, <2>1, <2>2 DEF OpenStep
<1>4. ASSUME NEW a \in Apps, NEW point \in HasApp, NEW req, NEW answers, NEW dry,
             Enter(c, point, a, req, answers, dry), a <= created, created' = created,
             record[a].state # "CANCELLED", At(c, "idle")
      PROVE  OpenStep
  <2>1. frame'[c].pc = point /\ frame'[c].app = a /\ \A d \in Calls \ {c} : frame'[d] = frame[d]
    BY <1>4, FrameAfter
  <2>2. TakesUp(c) /\ Prepares(c)
    BY <1>4, <2>1 DEF TakesUp, Prepares, HasApp, At
  <2> QED BY <1>1, <1>2, <2>1, <2>2 DEF OpenStep
<1>5. {"fillCheck", "submitCheck", "cancelling"} \subseteq HasApp
  BY DEF HasApp, Points
<1>6. ASSUME NEW a \in Apps, NEW dry \in BOOLEAN, NEW answers \in Values, FillBegin(c, a, dry, answers)
      PROVE  OpenStep
  BY <1>4, <1>5, <1>6 DEF FillBegin, Terminal, rows
<1>7. ASSUME NEW a \in Apps, NEW r \in Requests, SubmitBegin(c, a, r)
      PROVE  OpenStep
  BY <1>4, <1>5, <1>7 DEF SubmitBegin, Submittable
<1>8. ASSUME NEW a \in Apps, NEW r \in Requests, SubmitRefused(c, a, r)
      PROVE  OpenStep
  BY <1>1, <1>2, <1>8 DEF SubmitRefused, process, OpenStep
<1>9. ASSUME NEW a \in Apps, CancelBegin(c, a)
      PROVE  OpenStep
  BY <1>4, <1>5, <1>9 DEF CancelBegin, Terminal, rows
<1> QED BY <1>3, <1>6, <1>7, <1>8, <1>9 DEF Begin

LEMMA CallOpens ==
  ASSUME Base, NEW c \in Calls, CallStep(c)
  PROVE  OpenStep
<1>1. ASSUME NEW d \in Calls, frame'[d] = frame[d] \/ frame'[d].pc = "idle"
      PROVE  TakesUp(d) /\ Prepares(d)
  BY <1>1 DEF TakesUp, Prepares, HasApp
<1>2. CASE PrepareEnd(c) \/ PrepareFails(c)
  <2>1. Adds
    BY <1>2, FrameAfter DEF PrepareEnd, PrepareFails, Adds, At
  <2> QED BY <1>1, <1>2, <2>1, FrameAfter DEF PrepareEnd, PrepareFails, OpenStep
<1>3. CASE ~(PrepareEnd(c) \/ PrepareFails(c))
  <2>1. created' = created
    BY <1>3 DEF CallStep, FillCheck, FillPage, FillValidate, FillEnd, FillFails, SubmitCheckForm,
       SubmitCheckValues, SubmitCheck, SubmitReserve, SubmitClick, SubmitConfirmed,
       SubmitUncertain, SubmitFails, SubmitSettles, Settling, CancelEnd, rows
  <2>2. frame[c].pc \in HasApp
    BY <1>3 DEF CallStep, FillCheck, FillPage, FillValidate, FillEnd, FillFails, SubmitCheckForm,
       SubmitCheckValues, SubmitCheck, SubmitReserve, SubmitClick, SubmitConfirmed,
       SubmitUncertain, SubmitFails, SubmitSettles, Settling, CancelEnd, At, HasApp, Points
  <2>3. End(c) \/ \E point \in HasApp : \E rec : Continue(c, point, rec)
    BY <1>3 DEF CallStep, FillCheck, FillPage, FillValidate, FillEnd, FillFails, SubmitCheckForm,
       SubmitCheckValues, SubmitCheck, SubmitReserve, SubmitClick, SubmitConfirmed,
       SubmitUncertain, SubmitFails, SubmitSettles, Settling, CancelEnd, FormChanged, HasApp, Points
  <2>4. \A d \in Calls : TakesUp(d) /\ Prepares(d)
    <3>1. CASE End(c)
      BY <1>1, <3>1, FrameAfter
    <3>2. ASSUME NEW point \in HasApp, NEW rec, Continue(c, point, rec)
          PROVE  \A d \in Calls : TakesUp(d) /\ Prepares(d)
      <4>1. TakesUp(c) /\ Prepares(c)
        BY <2>2, <3>2, FrameAfter DEF TakesUp, Prepares, HasApp
      <4> QED BY <1>1, <3>2, <4>1, FrameAfter
    <3> QED BY <2>3, <3>1, <3>2
  <2> QED BY <2>1, <2>4 DEF OpenStep, Adds
<1> QED BY <1>2, <1>3

LEMMA OthersOpen ==
  ASSUME Base, Approval \/ Surroundings \/ Failure \/ UNCHANGED vars
  PROVE  OpenStep
<1>1. created' = created
  BY DEF Approval, RequestApproval, DecisionRefused, DecideApproval, ReadApproval, SaveApproval,
     Decide, Surroundings, PageChanges, RequestLapses, LockLapses, EmergencyEngage,
     EmergencyReset, Failure, Crash, CrashInReserve, CoordinatorCrash, Gone, vars, rows
<1>2. \A c \in Calls : frame'[c].pc = "idle" \/
        (frame'[c].pc = frame[c].pc /\ frame'[c].app = frame[c].app)
  <2>1. CASE UNCHANGED frame
    BY <2>1
  <2>2. CASE EmergencyEngage
    BY <2>2 DEF EmergencyEngage, Base, TypeOK, Frames
  <2>3. CASE Gone
    BY <2>3 DEF Gone, Idle
  <2> QED
    BY <2>1, <2>2, <2>3 DEF Approval, RequestApproval, DecisionRefused, DecideApproval,
       ReadApproval, SaveApproval, Decide, Surroundings, PageChanges, RequestLapses, LockLapses,
       EmergencyReset, Failure, Crash, CrashInReserve, CoordinatorCrash, vars, process
<1> QED BY <1>1, <1>2 DEF OpenStep, TakesUp, Prepares, Adds, HasApp

LEMMA OpenSteps ==
  ASSUME Base, [Next]_vars
  PROVE  OpenStep
  BY BeginOpens, CallOpens, OthersOpen DEF Next

\* The call at work works on the latest application, and prepares another one
\* only when that is cancelled.
OpenInv ==
  /\ \A c \in Calls : frame[c].pc \in HasApp => frame[c].app = created
  /\ \A c \in Calls : frame[c].pc = "preparing" =>
       (created > 0 => record[created].state = "CANCELLED")
  /\ OneOpenApplication

LEMMA OpenInvStep ==
  ASSUME OneCall, Base, OpenInv, [Next]_vars
  PROVE  OpenInv'
<1>1. OpenStep /\ Rows
  BY OpenSteps, RefusalSteps DEF RefusalStep
<1>2. created \in Nat /\ \A a \in Apps : a \in Nat /\ a > 0
  BY SubmissionAssumption DEF Base, TypeOK, Apps
<1>3. ASSUME NEW c \in Calls, frame[c].pc \notin HasApp
      PROVE  \A a \in Apps : a <= created => record'[a] = record[a]
  BY <1>1, <1>3 DEF Rows, OneCall
<1>4. ASSUME NEW c \in Calls, frame[c].pc # "preparing"
      PROVE  created' = created
  BY <1>1, <1>4 DEF OpenStep, Adds, OneCall, At
<1>5. ASSUME NEW c \in Calls, frame'[c].pc # "idle"
      PROVE  created' = created
  BY <1>1, <1>5 DEF OpenStep, Adds, OneCall
<1>6. ASSUME NEW c \in Calls, frame'[c].pc \in HasApp
      PROVE  frame'[c].app = created'
  <2>1. created' = created
    BY <1>5, <1>6 DEF HasApp
  <2>2. CASE frame[c].pc \in HasApp /\ frame'[c].app = frame[c].app
    BY <2>1, <2>2 DEF OpenInv
  <2>3. CASE /\ frame'[c].app \in Apps /\ frame'[c].app <= created
             /\ record[frame'[c].app].state # "CANCELLED"
    <3>1. created \in Apps
      BY <1>2, <2>3, SubmissionAssumption DEF Apps, Base, TypeOK
    <3>2. ~(frame'[c].app < created)
      <4>1. SUFFICES ASSUME frame'[c].app < created PROVE FALSE
        OBVIOUS
      <4>2. created <= created
        BY <1>2
      <4>3. record[frame'[c].app].state = "CANCELLED"
        BY <2>3, <3>1, <4>1, <4>2 DEF OpenInv, OneOpenApplication
      <4> QED BY <2>3, <4>3
    <3> QED BY <1>2, <2>1, <2>3, <3>2
  <2> QED BY <1>1, <1>6, <2>2, <2>3 DEF OpenStep, TakesUp
<1>7. ASSUME NEW c \in Calls, frame'[c].pc = "preparing", created' > 0
      PROVE  record'[created'].state = "CANCELLED"
  <2>1. created' = created
    BY <1>5, <1>7
  <2>2. frame[c].pc \in {"idle", "preparing"} /\ record[created].state = "CANCELLED"
    BY <1>1, <1>7, <2>1 DEF OpenStep, Prepares, OpenInv
  <2>3. created \in Apps /\ created <= created
    BY <1>2, <1>7, <2>1, SubmissionAssumption DEF Apps, Base, TypeOK
  <2> QED BY <1>3, <2>1, <2>2, <2>3 DEF HasApp
<1>8. OneOpenApplication'
  <2>1. SUFFICES ASSUME NEW a \in Apps, NEW b \in Apps, a < b, b <= created'
                 PROVE  record'[a].state = "CANCELLED"
    BY DEF OneOpenApplication
  <2>2. CASE created' = created
    <3>1. record[a].state = "CANCELLED" /\ a < created /\ a <= created
      BY <1>2, <2>1, <2>2 DEF OpenInv, OneOpenApplication
    <3>2. record'[a] = record[a]
      BY <1>1, <1>2, <3>1 DEF Rows, OpenInv
    <3> QED BY <3>1, <3>2
  <2>3. CASE created' # created
    <3>1. PICK c \in Calls : At(c, "preparing") /\ created' = created + 1
      BY <1>1, <2>3 DEF OpenStep, Adds
    <3>2. a <= created /\ record'[a] = record[a]
      BY <1>2, <1>3, <2>1, <3>1 DEF At, HasApp
    <3>3. CASE a = created
      BY <1>2, <3>1, <3>2, <3>3 DEF OpenInv, At
    <3>4. CASE a # created
      <4>1. created \in Apps /\ a < created /\ created <= created
        BY <1>2, <3>2, <3>4, SubmissionAssumption DEF Apps, Base, TypeOK
      <4> QED BY <3>2, <4>1 DEF OpenInv, OneOpenApplication
    <3> QED BY <3>3, <3>4
  <2> QED BY <2>2, <2>3
<1> QED BY <1>6, <1>7, <1>8 DEF OpenInv

\* A job has one application at a time (prepareOnce), while one call runs at a
\* time: with two, a copy read before the cancellation is written back.
THEOREM OneApplicationPerJob ==
  ASSUME OneCall
  PROVE  Spec => []OneOpenApplication
<1>1. Init => Base /\ OpenInv
  <2>1. Init => OpenInv
    BY SubmissionAssumption DEF Init, OpenInv, OneOpenApplication, Idle, HasApp, Apps
  <2> QED BY <2>1, InitBase
<1>2. Base /\ OpenInv /\ [Next]_vars => Base' /\ OpenInv'
  BY NextBase, OpenInvStep
<1>3. OpenInv => OneOpenApplication
  BY DEF OpenInv
<1> QED BY <1>1, <1>2, <1>3, PTL DEF Spec

-----------------------------------------------------------------------------
(* What is clicked is what was approved, unless somebody edits the page      *)
(* while it is being submitted.                                              *)

\* A request keeps its binding once it is open.
Bound == \A r \in Requests :
  request[r].status # "none" => request'[r].binding = request[r].binding

\* The ghosts: only a click says what was clicked, and an edit is not forgotten.
Edits == /\ edited \subseteq edited'
         /\ UNCHANGED <<clicks, clicked>> \/ \E c \in Calls : SubmitClick(c)

\* Where a step takes a call that submits, and the page it submits.
Goes(c) ==
  LET a == frame[c].app rec == frame[c].rec IN
  \/ frame'[c].pc = frame[c].pc
  \/ At(c, "submitCheck") /\ frame'[c].pc = "submitValues" /\ page[a].form = rec.form
  \/ At(c, "submitValues") /\ frame'[c].pc = "reserving" /\ page[a].values = rec.values
  \/ At(c, "reserving") /\ frame'[c].pc = "clicking" /\ reservedBy'[a] = frame[c].req
  \/ At(c, "clicking") /\ frame'[c].pc = "confirming"
  \/ frame[c].pc \in InFlight /\ frame'[c].pc \in Settling

\* The click is behind the call.
Clicked == {"confirming"} \cup Settling

Reviews(c) ==
  frame'[c].pc \in Submitting =>
    \/ /\ frame'[c].pc = "submitCheck" /\ frame'[c].req \in Requests
       /\ request[frame'[c].req].binding = BindingHash(frame'[c].rec)
       /\ request[frame'[c].req].status # "none"
    \/ /\ frame[c].pc \in Submitting
       /\ frame'[c].app = frame[c].app /\ frame'[c].req = frame[c].req
       /\ BindingHash(frame'[c].rec) = BindingHash(frame[c].rec)
       /\ frame'[c].pc \notin Clicked =>
            frame[c].app \in edited' \/ page'[frame[c].app] = page[frame[c].app]
       /\ Goes(c)

LEMMA StateUnbound ==
  ASSUME NEW rec \in Records, NEW state
  PROVE  BindingHash(In(rec, state)) = BindingHash(rec)
  BY DEF In, Records, BindingHash

LEMMA InvalidateBound ==
  ASSUME Base, NEW a, NEW spared, Invalidate(a, spared)
  PROVE  Bound
<1>1. ASSUME NEW r \in Requests PROVE request'[r].binding = request[r].binding
  <2>1. request[r] \in RequestRows
    BY DEF Base, TypeOK
  <2>2. request'[r] \in {request[r], [request[r] EXCEPT !.status = "invalidated"]}
    BY DEF Invalidate
  <2> QED BY <2>1, <2>2 DEF RequestRows
<1> QED BY <1>1 DEF Bound

LEMMA StatusBound ==
  ASSUME Base, NEW r, NEW status, request' = [request EXCEPT ![r].status = status]
  PROVE  Bound
<1>1. ASSUME NEW q \in Requests PROVE request'[q].binding = request[q].binding
  <2>1. request[q] \in RequestRows
    BY DEF Base, TypeOK
  <2>2. request'[q] \in {request[q], [request[q] EXCEPT !.status = status]}
    BY DEF Base, TypeOK
  <2> QED BY <2>1, <2>2 DEF RequestRows
<1> QED BY <1>1 DEF Bound

LEMMA BoundSteps ==
  ASSUME Base, [Next]_vars
  PROVE  Bound
<1>0. UNCHANGED request => Bound
  BY DEF Bound
<1>1. ASSUME NEW r \in Requests, NEW a \in Apps, RequestApproval(r, a) PROVE Bound
  <2>1. ASSUME NEW q \in Requests, request[q].status # "none"
        PROVE  request'[q].binding = request[q].binding
    <3>1. request[q] \in RequestRows /\ q # r
      BY <1>1, <2>1 DEF Base, TypeOK, RequestApproval
    <3>2. request'[q] \in {request[q], [request[q] EXCEPT !.status = "invalidated"]}
      BY <1>1, <3>1 DEF RequestApproval
    <3> QED BY <3>1, <3>2 DEF RequestRows
  <2> QED BY <2>1 DEF Bound
<1>2. ASSUME NEW c \in Calls, Begin(c) PROVE Bound
  BY <1>0, <1>2, StatusBound DEF Begin, PrepareBegin, FillBegin, SubmitBegin, SubmitRefused,
     CancelBegin, rows
<1>3. ASSUME NEW c \in Calls, CallStep(c) PROVE Bound
  BY <1>0, <1>3, InvalidateBound, StatusBound DEF CallStep, PrepareEnd, PrepareFails, FillCheck, FillPage,
     FillValidate, FillEnd, FillFails, SubmitCheckForm, SubmitCheckValues, SubmitCheck,
     SubmitReserve, MarkApprovalUsed, SubmitClick, SubmitConfirmed, SubmitUncertain, SubmitFails,
     SubmitSettles, CancelEnd, FormChanged, rows
<1>4. CASE Approval
  BY <1>0, <1>1, <1>4, StatusBound DEF Approval, DecisionRefused, DecideApproval, ReadApproval,
     SaveApproval, Decide, rows
<1>5. CASE Surroundings
  BY <1>0, <1>5 DEF Surroundings, PageChanges, RequestLapses, LockLapses, EmergencyEngage,
     EmergencyReset, rows
<1>6. CASE Failure
  BY <1>0, <1>6, StatusBound DEF Failure, Crash, CrashInReserve, MarkApprovalUsed, CoordinatorCrash, rows
<1>7. CASE UNCHANGED vars
  BY <1>0, <1>7 DEF vars, rows
<1> QED BY <1>2, <1>3, <1>4, <1>5, <1>6, <1>7 DEF Next

LEMMA EditSteps ==
  ASSUME [Next]_vars
  PROVE  Edits
<1>1. ASSUME NEW c \in Calls, Begin(c) PROVE Edits
  BY <1>1 DEF Begin, PrepareBegin, FillBegin, SubmitBegin, SubmitRefused, CancelBegin, ghosts, Edits
<1>2. ASSUME NEW c \in Calls, CallStep(c), ~SubmitClick(c) PROVE UNCHANGED <<clicks, clicked, edited>>
  BY <1>2 DEF CallStep, PrepareEnd, PrepareFails, FillCheck, FillPage,
     FillValidate, FillEnd, FillFails, SubmitCheckForm, SubmitCheckValues, SubmitCheck,
     SubmitReserve, SubmitConfirmed, SubmitUncertain, SubmitFails, SubmitSettles, CancelEnd, ghosts
<1>3. ASSUME NEW c \in Calls, SubmitClick(c) PROVE Edits
  BY <1>3 DEF SubmitClick, Edits
<1>4. CASE Approval
  BY <1>4 DEF Approval, RequestApproval, DecisionRefused, DecideApproval, ReadApproval,
     SaveApproval, Decide, ghosts, Edits
<1>5. CASE Surroundings
  BY <1>5 DEF Surroundings, PageChanges, RequestLapses, LockLapses, EmergencyEngage,
     EmergencyReset, ghosts, Edits
<1>6. CASE Failure
  BY <1>6 DEF Failure, Crash, CrashInReserve, CoordinatorCrash, Gone, ghosts, Edits
<1>7. CASE UNCHANGED vars
  BY <1>7 DEF vars, ghosts, Edits
<1> QED BY <1>1, <1>2, <1>3, <1>4, <1>5, <1>6, <1>7 DEF Next, Edits


LEMMA ReviewSteps ==
  ASSUME OneCall, Base, [Next]_vars, NEW c \in Calls
  PROVE  Reviews(c)
<1>0. ASSUME frame'[c].pc \notin Submitting PROVE Reviews(c)
  BY <1>0 DEF Reviews
<1>1. ASSUME End(c) PROVE Reviews(c)
  BY <1>0, <1>1, FrameAfter DEF Submitting, InFlight
<1>2. ASSUME NEW point \in Submitting, NEW rec, Continue(c, point, rec),
             BindingHash(rec) = BindingHash(frame[c].rec),
             frame[c].pc \in Submitting, page' = page, Goes(c)
      PROVE  Reviews(c)
  BY <1>2, FrameAfter DEF Reviews
<1>3. CASE Begin(c)
  <2>1. ASSUME NEW point \in Points \ Submitting, NEW a, NEW req, NEW answers, NEW dry,
               Enter(c, point, a, req, answers, dry)
        PROVE  Reviews(c)
    BY <1>0, <2>1, FrameAfter
  <2>2. ASSUME NEW a \in Apps, NEW r \in Requests, SubmitBegin(c, a, r)
        PROVE  Reviews(c)
    <3>1. Enter(c, "submitCheck", a, r, Nothing, FALSE)
      BY <2>2 DEF SubmitBegin
    <3>2. frame'[c].pc = "submitCheck" /\ frame'[c].rec = record[a] /\ frame'[c].req = r
      BY <3>1 DEF Enter, Base, TypeOK
    <3>3. request[r].binding = BindingHash(record[a]) /\ request[r].status = "approved"
      BY <2>2 DEF SubmitBegin, Presented
    <3> QED BY <3>2, <3>3 DEF Reviews
  <2>3. ASSUME NEW a \in Apps, NEW r \in Requests, SubmitRefused(c, a, r)
        PROVE  Reviews(c)
    BY <1>0, <2>3 DEF SubmitRefused, Submittable, At, process, Submitting, InFlight
  <2>4. ASSUME NEW dry \in BOOLEAN, PrepareBegin(c, dry)
        PROVE  Reviews(c)
    BY <1>0, <2>4, CallFacts DEF PrepareBegin, Base, TypeOK, Frames, Submitting, InFlight
  <2>5. {"fillCheck", "cancelling"} \subseteq Points \ Submitting
    BY DEF Points, Submitting, InFlight
  <2> QED BY <1>3, <2>1, <2>2, <2>3, <2>4, <2>5 DEF Begin, FillBegin, CancelBegin
<1>4. CASE CallStep(c)
  <2>1. ASSUME NEW point \in {"filling", "validating", "reviewing"}, NEW rec,
               Continue(c, point, rec)
        PROVE  Reviews(c)
    BY <1>0, <2>1, FrameAfter DEF Submitting, InFlight
  <2>2. CASE \/ PrepareEnd(c) \/ PrepareFails(c) \/ FillCheck(c) \/ FillPage(c)
             \/ FillValidate(c) \/ FillEnd(c) \/ FillFails(c)
    BY <1>1, <2>1, <2>2 DEF PrepareEnd, PrepareFails, FillCheck, FillPage, FillValidate,
       FillEnd, FillFails, FormChanged
  <2>3. CASE SubmitFails(c) \/ SubmitSettles(c) \/ CancelEnd(c)
    BY <1>1, <2>3 DEF SubmitFails, SubmitSettles, CancelEnd
  <2>4. CASE SubmitConfirmed(c) \/ SubmitUncertain(c)
    <3>1. PICK point \in Settling :
            /\ Continue(c, point, frame[c].rec) /\ frame[c].pc \in InFlight /\ page' = page
      BY <2>4 DEF SubmitConfirmed, SubmitUncertain, At, Settling, InFlight
    <3>2. Goes(c) /\ point \in Submitting /\ frame[c].pc \in Submitting
      BY <3>1, FrameAfter DEF Goes, Settling, Submitting, InFlight
    <3> QED BY <1>2, <3>1, <3>2
  <2>5. CASE SubmitCheckForm(c)
    <3>1. CASE End(c)
      BY <1>1, <3>1
    <3>2. CASE ~End(c)
      <4>1. /\ Continue(c, "submitValues", frame[c].rec) /\ At(c, "submitCheck")
            /\ page[frame[c].app].form = frame[c].rec.form /\ page' = page
        BY <2>5, <3>2 DEF SubmitCheckForm, SubmitCheck, FormChanged
      <4>2. Goes(c) /\ "submitValues" \in Submitting /\ frame[c].pc \in Submitting
        BY <4>1, FrameAfter DEF Goes, At, Submitting
      <4> QED BY <1>2, <4>1, <4>2
    <3> QED BY <3>1, <3>2
  <2>6. CASE SubmitCheckValues(c)
    <3>1. CASE End(c)
      BY <1>1, <3>1
    <3>2. CASE ~End(c)
      <4>1. /\ Continue(c, "reserving", frame[c].rec) /\ At(c, "submitValues")
            /\ page[frame[c].app].values = frame[c].rec.values /\ page' = page
        BY <2>6, <3>2 DEF SubmitCheckValues, SubmitCheck, FormChanged
      <4>2. Goes(c) /\ "reserving" \in Submitting /\ frame[c].pc \in Submitting
        BY <4>1, FrameAfter DEF Goes, At, Submitting
      <4> QED BY <1>2, <4>1, <4>2
    <3> QED BY <3>1, <3>2
  <2>7. CASE SubmitReserve(c)
    <3>1. CASE End(c)
      BY <1>1, <3>1
    <3>2. CASE ~End(c)
      <4>1. /\ Continue(c, "clicking", In(frame[c].rec, "SUBMITTING")) /\ At(c, "reserving")
            /\ Reserve(frame[c].app, frame[c].req) /\ page' = page
        BY <2>7, <3>2 DEF SubmitReserve
      <4>2. frame[c].app \in Apps
        BY <4>1, CallFacts DEF At, HasApp, Points
      <4>3. reservedBy'[frame[c].app] = frame[c].req
        BY <4>1, <4>2 DEF Reserve, Base, TypeOK
      <4>4. Goes(c) /\ "clicking" \in Submitting /\ frame[c].pc \in Submitting
        BY <4>1, <4>3, FrameAfter DEF Goes, At, Submitting, InFlight
      <4> QED BY <1>2, <4>1, <4>4, CallFacts, StateUnbound
    <3> QED BY <3>1, <3>2
  <2>8. CASE SubmitClick(c)
    <3>1. /\ Continue(c, "confirming", frame[c].rec) /\ At(c, "clicking") /\ page' = page
      BY <2>8 DEF SubmitClick
    <3>2. Goes(c) /\ "confirming" \in Submitting /\ frame[c].pc \in Submitting
      BY <3>1, FrameAfter DEF Goes, At, Submitting, InFlight
    <3> QED BY <1>2, <3>1, <3>2
  <2> QED BY <1>4, <2>2, <2>3, <2>4, <2>5, <2>6, <2>7, <2>8 DEF CallStep
<1>5. ASSUME UNCHANGED frame[c],
             frame[c].pc \in Submitting \ Clicked =>
               frame[c].app \in edited' \/ page'[frame[c].app] = page[frame[c].app]
      PROVE  Reviews(c)
  BY <1>5 DEF Reviews, Goes
<1>6. CASE Approval
  <2>1. frame' = frame /\ page' = page
    BY <1>6 DEF Approval, RequestApproval, DecisionRefused, DecideApproval, ReadApproval,
       SaveApproval, Decide, process
  <2> QED BY <1>5, <2>1
<1>7. ASSUME NEW a \in Apps, PageChanges(a) PROVE Reviews(c)
  <2>1. frame' = frame
    BY <1>7 DEF PageChanges
  <2>2. CASE frame[c].app = a /\ frame[c].pc \in Submitting \ Clicked
    <3>1. Submits(c, a)
      BY <2>2 DEF Submits, Submitting, InFlight, Clicked, Settling
    <3>2. a \in edited'
      BY <1>7, <3>1 DEF PageChanges
    <3> QED BY <1>5, <2>1, <2>2, <3>2
  <2>3. CASE frame[c].app # a
    <3>1. page'[frame[c].app] = page[frame[c].app]
      BY <1>7, <2>3 DEF PageChanges, Base, TypeOK
    <3> QED BY <1>5, <2>1, <3>1
  <2> QED BY <1>5, <2>1, <2>2, <2>3
<1>8. CASE EmergencyEngage
  <2>1. frame'[c] \in {frame[c], [frame[c] EXCEPT !.stopped = TRUE]} /\ page' = page
    BY <1>8 DEF EmergencyEngage
  <2>2. /\ frame'[c].pc = frame[c].pc /\ frame'[c].app = frame[c].app
        /\ frame'[c].req = frame[c].req /\ frame'[c].rec = frame[c].rec
    BY <2>1, CallFacts DEF Frames
  <2> QED BY <2>1, <2>2 DEF Reviews, Goes
<1>9. CASE Surroundings
  <2>1. CASE \E r \in Requests : RequestLapses(r)
    BY <1>5, <2>1 DEF RequestLapses, process
  <2>2. CASE LockLapses \/ EmergencyReset
    BY <1>5, <2>2 DEF LockLapses, EmergencyReset, process
  <2> QED BY <1>7, <1>8, <1>9, <2>1, <2>2 DEF Surroundings
<1>10. CASE Failure
  <2>1. CASE CoordinatorCrash
    BY <1>5, <2>1 DEF CoordinatorCrash
  <2>2. CASE Gone
    <3>1. frame'[c].pc = "idle"
      BY <2>2 DEF Gone, Idle
    <3> QED BY <1>0, <3>1 DEF Submitting, InFlight
  <2> QED BY <1>10, <2>1, <2>2 DEF Failure, Crash, CrashInReserve
<1>11. CASE UNCHANGED vars
  BY <1>5, <1>11 DEF vars, process
<1>12. \A d \in Calls : d = c
  BY DEF OneCall
<1> QED BY <1>3, <1>4, <1>6, <1>9, <1>10, <1>11, <1>12 DEF Next

\* A call that submits has an approval of what its copy says; once it compared
\* the page, an unedited page shows just that, and that is what was clicked.
ReviewInv ==
  /\ \A c \in Calls : frame[c].pc \in Submitting =>
       LET a == frame[c].app rec == frame[c].rec IN
       /\ request[frame[c].req].binding = BindingHash(rec)
       /\ (a \notin edited /\ page[a] # Nothing) =>
            /\ frame[c].pc \in {"submitValues", "reserving", "clicking"} =>
                 page[a].form = rec.form
            /\ frame[c].pc \in {"reserving", "clicking"} => page[a].values = rec.values
       /\ frame[c].pc \in InFlight => reservedBy[a] = frame[c].req
  /\ ClickedAsReviewed


LEMMA ReviewInvStep ==
  ASSUME OneCall, Base, ClickInv, GrantInv, ConsentInv, ReviewInv, [Next]_vars
  PROVE  ReviewInv'
<1>0. Base' /\ GrantInv' /\ ConsentStep /\ Bound /\ Edits
  BY NextBase, GrantStep, ConsentSteps, BoundSteps, EditSteps
\* What is in flight stays reserved, and a reservation keeps its approval.
<1>1. ASSUME NEW a \in Apps, attempt[a] # "none"
      PROVE  /\ reservedBy'[a] = reservedBy[a]
             /\ request'[reservedBy[a]].binding = request[reservedBy[a]].binding
  <2>1. reservedBy'[a] = reservedBy[a]
    BY <1>1, StepKinds DEF Kind, Quiet, Reserves, Clicks, Settles, Base, TypeOK
  <2>2. reservedBy[a] \in Requests /\ request[reservedBy[a]].status # "none"
    BY <1>1 DEF ConsentInv, GrantInv, Base, TypeOK
  <2> QED BY <1>0, <2>1, <2>2 DEF Bound
<1>2. ASSUME NEW c \in Calls, frame[c].pc \in Submitting
      PROVE  /\ frame[c].app \in Apps /\ frame[c].req \in Requests
             /\ request[frame[c].req].status # "none"
  <2>1. frame[c].pc \in HasApp
    BY <1>2 DEF Submitting, InFlight, HasApp, Points
  <2> QED BY <1>2, <2>1, CallFacts DEF GrantInv, Base, TypeOK
<1>3. ASSUME NEW c \in Calls, frame'[c].pc \in Submitting
      PROVE  LET a == frame'[c].app rec == frame'[c].rec IN
             /\ request'[frame'[c].req].binding = BindingHash(rec)
             /\ (a \notin edited' /\ page'[a] # Nothing) =>
                  /\ frame'[c].pc \in {"submitValues", "reserving", "clicking"} =>
                       page'[a].form = rec.form
                  /\ frame'[c].pc \in {"reserving", "clicking"} => page'[a].values = rec.values
             /\ frame'[c].pc \in InFlight => reservedBy'[a] = frame'[c].req
  <2>1. CASE /\ frame'[c].pc = "submitCheck" /\ frame'[c].req \in Requests
             /\ request[frame'[c].req].binding = BindingHash(frame'[c].rec)
             /\ request[frame'[c].req].status # "none"
    BY <1>0, <2>1 DEF Bound, InFlight
  <2>2. CASE /\ frame[c].pc \in Submitting
             /\ frame'[c].app = frame[c].app /\ frame'[c].req = frame[c].req
             /\ BindingHash(frame'[c].rec) = BindingHash(frame[c].rec)
             /\ frame'[c].pc \notin Clicked =>
                  frame[c].app \in edited' \/ page'[frame[c].app] = page[frame[c].app]
             /\ Goes(c)
    <3>1. request'[frame[c].req].binding = BindingHash(frame[c].rec)
      BY <1>0, <1>2, <2>2 DEF Bound, ReviewInv
    <3>2. frame'[c].rec.form = frame[c].rec.form /\ frame'[c].rec.values = frame[c].rec.values
      BY <2>2 DEF BindingHash
    <3>3. ASSUME frame[c].app \notin edited', page'[frame[c].app] # Nothing,
                 frame'[c].pc \in {"submitValues", "reserving", "clicking"}
          PROVE  /\ page'[frame[c].app].form = frame[c].rec.form
                 /\ frame'[c].pc \in {"reserving", "clicking"} =>
                      page'[frame[c].app].values = frame[c].rec.values
      <4>1. /\ frame[c].app \notin edited
            /\ page'[frame[c].app] = page[frame[c].app]
        BY <1>0, <2>2, <3>3 DEF Edits, Clicked, Settling
      <4> QED BY <2>2, <3>3, <4>1 DEF ReviewInv, Goes, At, Settling
    <3>4. ASSUME frame'[c].pc \in InFlight
          PROVE  reservedBy'[frame[c].app] = frame[c].req
      <4>1. CASE frame[c].pc \in InFlight
        <5>1. attempt[frame[c].app] = "reserved" /\ reservedBy[frame[c].app] = frame[c].req
          BY <2>2, <4>1 DEF ClickInv, ReviewInv
        <5> QED BY <1>1, <1>2, <2>2, <5>1
      <4>2. CASE frame[c].pc \notin InFlight
        BY <2>2, <3>4, <4>2 DEF Goes, At, InFlight, Settling
      <4> QED BY <4>1, <4>2
    <3> QED BY <2>2, <3>1, <3>2, <3>3, <3>4
  <2> QED BY <1>3, <2>1, <2>2, ReviewSteps DEF Reviews
<1>4. ASSUME NEW a \in Apps \ edited', clicks'[a] > 0
      PROVE  clicked'[a] = [form |-> request'[reservedBy'[a]].binding.form,
                            values |-> request'[reservedBy'[a]].binding.values]
  <2>1. a \in Apps \ edited
    BY <1>0, <1>4 DEF Edits
  <2>2. ASSUME clicked'[a] = clicked[a], clicks'[a] = clicks[a]
        PROVE  clicked'[a] = [form |-> request'[reservedBy'[a]].binding.form,
                              values |-> request'[reservedBy'[a]].binding.values]
    <3>1. attempt[a] # "none"
      BY <1>4, <2>1, <2>2 DEF ClickInv
    <3> QED BY <1>1, <1>4, <2>1, <2>2, <3>1 DEF ReviewInv, ClickedAsReviewed
  <2>3. ASSUME NEW c \in Calls, SubmitClick(c)
        PROVE  clicked'[a] = [form |-> request'[reservedBy'[a]].binding.form,
                              values |-> request'[reservedBy'[a]].binding.values]
    <3>1. CASE a # frame[c].app
      BY <2>2, <2>3, <3>1 DEF SubmitClick, Base, TypeOK
    <3>2. CASE a = frame[c].app
      <4>1. frame[c].pc = "clicking" /\ page[a] # Nothing /\ clicked'[a] = page[a]
        BY <2>3, <3>2 DEF SubmitClick, At, Base, TypeOK
      <4>2. frame[c].pc \in Submitting /\ frame[c].pc \in InFlight
        BY <4>1 DEF Submitting, InFlight
      <4>3. /\ reservedBy[a] = frame[c].req /\ attempt[a] # "none"
            /\ page[a].form = frame[c].rec.form /\ page[a].values = frame[c].rec.values
            /\ request[frame[c].req].binding = BindingHash(frame[c].rec)
        BY <2>1, <3>2, <4>1, <4>2 DEF ReviewInv, ClickInv
      <4>4. page[a] = [form |-> page[a].form, values |-> page[a].values]
        BY <4>1 DEF Base, TypeOK, Content
      <4>5. /\ request'[reservedBy'[a]].binding.form = page[a].form
            /\ request'[reservedBy'[a]].binding.values = page[a].values
        BY <1>1, <4>3 DEF BindingHash
      <4> QED BY <4>1, <4>4, <4>5
    <3> QED BY <3>1, <3>2
  <2> QED BY <1>0, <2>2, <2>3 DEF Edits
<1> QED BY <1>3, <1>4 DEF ReviewInv, ClickedAsReviewed

\* docs/approval-flow.md:3 "A human decision approves that exact revision":
\* with one call at a time the click is on what was approved, unless the page
\* is edited in the course of the submit itself.
THEOREM ReviewedClicks ==
  ASSUME OneCall
  PROVE  Spec => []ClickedAsReviewed
<1>1. Init => ReviewInv
  BY DEF Init, Idle, ReviewInv, ClickedAsReviewed, Submitting, InFlight
<1>2. Base /\ ClickInv /\ GrantInv /\ ConsentInv /\ ReviewInv /\ [Next]_vars => ReviewInv'
  BY ReviewInvStep
<1>3. ReviewInv => ClickedAsReviewed
  BY DEF ReviewInv
<1> QED BY <1>1, <1>2, <1>3, ConsentInductive, PTL DEF Spec

=============================================================================
