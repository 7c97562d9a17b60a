-------------------------- MODULE SubmissionProofs --------------------------
(* For any number of applications, calls, requests, forms and values: the   *)
(* types of Submission, and that an application's final button is clicked   *)
(* at most once: its attempt keeps the promise of AtMostOnce.               *)
EXTENDS Submission, TLAPS

-----------------------------------------------------------------------------
(* Types. *)

LEMMA InitTypeOK == Init => TypeOK
<1> SUFFICES ASSUME Init PROVE TypeOK
  OBVIOUS
<1>1. NoRecord \in Records
  BY DEF NoRecord, Records, States
<1>2. BindingHash(NoRecord) \in Bindings
  BY DEF BindingHash, NoRecord, Bindings
<1>3. Idle \in Frames
  BY <1>1, SubmissionAssumption DEF Idle, Frames, Points
<1>4. 0 \in 0 .. MaxApplications
  BY SubmissionAssumption
<1>5. request \in [Requests -> RequestRows]
  BY <1>2, <1>4 DEF Init, RequestRows, Statuses
<1>6. record \in [Apps -> Records] /\ frame \in [Calls -> Frames]
  BY <1>1, <1>3 DEF Init
<1> QED
  BY <1>4, <1>5, <1>6 DEF Init, TypeOK

\* The copies a call keeps and the rows it writes have the right fields.
LEMMA BindingType ==
  ASSUME NEW rec \in Records PROVE BindingHash(rec) \in Bindings
  BY DEF BindingHash, Records, Bindings

LEMMA InType ==
  ASSUME NEW rec \in Records, NEW state \in States
  PROVE  In(rec, state) \in Records /\ In(rec, state).state = state
  BY DEF In, Records

LEMMA IdleType == Idle \in Frames
<1>1. NoRecord \in Records
  BY DEF NoRecord, Records, States
<1> QED
  BY <1>1, SubmissionAssumption DEF Idle, Frames, Points

LEMMA EndType ==
  ASSUME TypeOK, NEW c \in Calls, End(c)
  PROVE  frame' \in [Calls -> Frames]
  BY IdleType DEF TypeOK, End

LEMMA ContinueType ==
  ASSUME TypeOK, NEW c \in Calls, NEW point \in Points, NEW rec \in Records,
         Continue(c, point, rec)
  PROVE  frame' \in [Calls -> Frames]
<1>1. frame[c] \in Frames
  BY DEF TypeOK
<1>2. [frame[c] EXCEPT !.pc = point, !.rec = rec] \in Frames
  BY <1>1 DEF Frames
<1>3. frame' = [frame EXCEPT ![c] = [frame[c] EXCEPT !.pc = point, !.rec = rec]]
  BY DEF Continue, TypeOK
<1> QED BY <1>2, <1>3 DEF TypeOK

LEMMA SaveType ==
  ASSUME TypeOK, NEW a \in Apps, NEW rec \in Records, Save(a, rec)
  PROVE  /\ record' \in [Apps -> Records]
         /\ attempt' \in [Apps -> {"none", "reserved", "completed", "uncertain"}]
  BY DEF TypeOK, Save

LEMMA StatusType ==
  ASSUME TypeOK, NEW r \in Requests, NEW status \in Statuses
  PROVE  [request EXCEPT ![r].status = status] \in [Requests -> RequestRows]
<1>1. request[r] \in RequestRows
  BY DEF TypeOK
<1>2. [request[r] EXCEPT !.status = status] \in RequestRows
  BY <1>1 DEF RequestRows
<1> QED BY <1>2 DEF TypeOK

LEMMA InvalidateType ==
  ASSUME TypeOK, NEW a, NEW spared, Invalidate(a, spared)
  PROVE  request' \in [Requests -> RequestRows]
<1> SUFFICES ASSUME NEW r \in Requests
             PROVE  [request[r] EXCEPT !.status = "invalidated"] \in RequestRows
  BY DEF TypeOK, Invalidate
<1> QED BY DEF TypeOK, RequestRows, Statuses

\* A call that works on an application works on one that exists.
HasApp == Points \ {"idle", "preparing"}
CallsHaveApps ==
  \A c \in Calls : frame[c].pc \in HasApp =>
    frame[c].app \in Apps /\ frame[c].app <= created

\* No copy was read from an application that is over, nor becomes one.
Ended == {"SUBMITTED", "FAILED_PERMANENT"}
CopiesOpen == \A c \in Calls : frame[c].rec.state \notin Ended

LEMMA FormChangedType ==
  ASSUME TypeOK, NEW c \in Calls, frame[c].app \in Apps, FormChanged(c)
  PROVE  /\ record' \in [Apps -> Records]
         /\ attempt' \in [Apps -> {"none", "reserved", "completed", "uncertain"}]
         /\ request' \in [Requests -> RequestRows]
         /\ frame' \in [Calls -> Frames]
<1>1. frame[c].rec \in Records
  BY DEF TypeOK, Frames
<1>2. In(frame[c].rec, "FORM_CHANGED") \in Records
  BY <1>1, InType DEF States
<1> QED BY <1>2, SaveType, InvalidateType, EndType DEF FormChanged

-----------------------------------------------------------------------------
(* The calls and their copies. *)

Base == TypeOK /\ CallsHaveApps /\ CopiesOpen

\* A step that gives one call a new frame and adds applications at most.
LEMMA FrameStep ==
  ASSUME Base, NEW c \in Calls, NEW f \in Frames,
         frame' = [frame EXCEPT ![c] = f],
         created' \in 0 .. MaxApplications, created <= created',
         f.pc \in HasApp => f.app \in Apps /\ f.app <= created',
         f.rec.state \notin Ended
  PROVE  frame' \in [Calls -> Frames] /\ CallsHaveApps' /\ CopiesOpen'
<1>1. frame' \in [Calls -> Frames]
  BY DEF Base, TypeOK
<1>2. CopiesOpen'
  BY DEF Base, TypeOK, CopiesOpen
<1>3. CallsHaveApps'
  <2> SUFFICES ASSUME NEW d \in Calls, frame'[d].pc \in HasApp
               PROVE  frame'[d].app \in Apps /\ frame'[d].app <= created'
    BY DEF CallsHaveApps
  <2>1. CASE d = c
    BY <2>1 DEF Base, TypeOK
  <2>2. CASE d # c
    <3>1. frame'[d] = frame[d]
      BY <2>2 DEF Base, TypeOK
    <3>2. frame[d].app \in Apps /\ frame[d].app <= created
      BY <3>1 DEF Base, CallsHaveApps
    <3> QED BY <3>1, <3>2, SubmissionAssumption DEF Apps, Base, TypeOK
  <2> QED BY <2>1, <2>2
<1> QED BY <1>1, <1>2, <1>3

LEMMA EndStep ==
  ASSUME Base, NEW c \in Calls, End(c),
         created' \in 0 .. MaxApplications, created <= created'
  PROVE  frame' \in [Calls -> Frames] /\ CallsHaveApps' /\ CopiesOpen'
<1>1. Idle.pc \notin HasApp /\ Idle.rec.state \notin Ended
  BY DEF Idle, HasApp, Ended, NoRecord
<1> QED BY <1>1, IdleType, FrameStep DEF End

LEMMA ContinueStep ==
  ASSUME Base, NEW c \in Calls, NEW point \in HasApp, NEW rec \in Records,
         frame[c].pc \in HasApp, rec.state \notin Ended,
         Continue(c, point, rec), UNCHANGED created
  PROVE  frame' \in [Calls -> Frames] /\ CallsHaveApps' /\ CopiesOpen'
<1> DEFINE f == [frame[c] EXCEPT !.pc = point, !.rec = rec]
<1>1. frame[c] \in Frames
  BY DEF Base, TypeOK
<1>2. f \in Frames /\ f.app = frame[c].app /\ f.rec = rec
  BY <1>1 DEF Frames, HasApp
<1>3. frame' = [frame EXCEPT ![c] = f]
  BY DEF Continue, Base, TypeOK
<1>4. f.app \in Apps /\ f.app <= created'
  BY <1>2 DEF Base, CallsHaveApps
<1>5. created' \in 0 .. MaxApplications /\ created <= created'
  BY SubmissionAssumption DEF Base, TypeOK
<1> HIDE DEF f
<1> QED BY <1>2, <1>3, <1>4, <1>5, FrameStep

\* What is known of the call that takes a step.
LEMMA CallFacts ==
  ASSUME Base, NEW c \in Calls
  PROVE  /\ frame[c] \in Frames /\ frame[c].rec \in Records
         /\ frame[c].rec.state \notin Ended
         /\ created \in 0 .. MaxApplications /\ created <= created
         /\ frame[c].pc \in HasApp =>
              frame[c].app \in Apps /\ frame[c].app <= created
  BY SubmissionAssumption DEF Base, TypeOK, CallsHaveApps, CopiesOpen, Frames

\* What is left of the types when the shared rows and the frames are done.
LEMMA RowsStep ==
  ASSUME Base, record' \in [Apps -> Records],
         attempt' \in [Apps -> {"none", "reserved", "completed", "uncertain"}],
         request' \in [Requests -> RequestRows],
         frame' \in [Calls -> Frames] /\ CallsHaveApps' /\ CopiesOpen',
         submitLocks' \subseteq Apps,
         UNCHANGED <<created, reservedBy, prepareLock, lapsed, page, ctl, emergency,
                     deciding, clicks, clicked, edited, granted, preparedDry, torn>>,
         cancelled' \subseteq Apps
  PROVE  Base'
  BY DEF Base, TypeOK

LEMMA FormChangedStep ==
  ASSUME Base, NEW c \in Calls, frame[c].pc \in HasApp, FormChanged(c),
         UNCHANGED created
  PROVE  /\ record' \in [Apps -> Records]
         /\ attempt' \in [Apps -> {"none", "reserved", "completed", "uncertain"}]
         /\ request' \in [Requests -> RequestRows]
         /\ frame' \in [Calls -> Frames] /\ CallsHaveApps' /\ CopiesOpen'
<1>1. End(c)
  BY DEF FormChanged
<1> QED BY <1>1, CallFacts, EndStep, FormChangedType DEF Base

-----------------------------------------------------------------------------
(* Base is inductive: one lemma per method. *)

\* A call that has just read its application.
LEMMA EnterStep ==
  ASSUME Base, NEW c \in Calls, NEW point \in Points, NEW a \in Apps, a <= created,
         NEW req \in Requests \cup {Nothing}, NEW answers \in Values \cup {Nothing},
         NEW dry \in BOOLEAN, record[a].state \notin Ended,
         Enter(c, point, a, req, answers, dry), UNCHANGED created
  PROVE  frame' \in [Calls -> Frames] /\ CallsHaveApps' /\ CopiesOpen'
<1> DEFINE f == [pc |-> point, app |-> a, rec |-> record[a], req |-> req,
                 answers |-> answers, dry |-> dry, stopped |-> ctl[a] = "aborted"]
<1>1. /\ a \in 0 .. MaxApplications
      /\ (ctl[a] = "aborted") \in BOOLEAN
      /\ record[a] \in Records
  BY SubmissionAssumption DEF Apps, Base, TypeOK
<1>2. f \in Frames
  BY <1>1 DEF Frames
<1>3. frame' = [frame EXCEPT ![c] = f] /\ f.app = a /\ f.rec = record[a]
  BY DEF Enter
<1> HIDE DEF f
<1> QED BY <1>2, <1>3, CallFacts, FrameStep

\* The copy with what fillFields() skipped, and dry or not.
LEMMA ReviewedType ==
  ASSUME NEW rec \in Records, NEW skipped \in BOOLEAN, NEW dryRun \in BOOLEAN
  PROVE  /\ [rec EXCEPT !.skipped = skipped, !.dryRun = dryRun] \in Records
         /\ [rec EXCEPT !.skipped = skipped, !.dryRun = dryRun].state = rec.state
<1> DEFINE half == [rec EXCEPT !.skipped = skipped]
<1>1. half \in Records /\ half.state = rec.state
  BY DEF Records
<1> HIDE DEF half
<1>2. /\ [half EXCEPT !.dryRun = dryRun] \in Records
      /\ [half EXCEPT !.dryRun = dryRun].state = half.state
  BY <1>1 DEF Records
<1> QED BY <1>1, <1>2 DEF half

LEMMA PrepareBase ==
  ASSUME Base, NEW c \in Calls,
         \/ \E dry \in BOOLEAN : PrepareBegin(c, dry)
         \/ PrepareEnd(c)
         \/ PrepareFails(c)
  PROVE  Base'
<1> USE CallFacts
<1>1. ASSUME NEW dry \in BOOLEAN, PrepareBegin(c, dry) PROVE Base'
  <2> DEFINE f == [frame[c] EXCEPT !.pc = "preparing", !.dry = dry]
  <2>1. frame' = [frame EXCEPT ![c] = f]
    BY <1>1 DEF PrepareBegin, Base, TypeOK
  <2>2. f \in Frames /\ f.pc \notin HasApp /\ f.rec = frame[c].rec
    BY DEF Frames, Points, HasApp
  <2>3. UNCHANGED created
    BY <1>1 DEF PrepareBegin
  <2> HIDE DEF f
  <2>4. frame' \in [Calls -> Frames] /\ CallsHaveApps' /\ CopiesOpen'
    BY <2>1, <2>2, <2>3, FrameStep
  <2> QED BY <1>1, <2>4 DEF PrepareBegin, Base, TypeOK, ghosts
<1>2. CASE PrepareEnd(c)
  <2> DEFINE a == created + 1
  <2>1. a \in Apps /\ created' = a /\ created' \in 0 .. MaxApplications
          /\ created <= created'
    <3>1. created' = created + 1 /\ created < MaxApplications
      BY <1>2 DEF PrepareEnd
    <3>2. created \in 0 .. MaxApplications
      BY DEF Base, TypeOK
    <3> QED BY <3>1, <3>2, SubmissionAssumption DEF Apps
  <2>2. PICK form \in Forms :
          /\ Save(a, [state |-> "WAITING_FOR_APPROVAL", form |-> form, values |-> Nothing,
                      skipped |-> FALSE, dryRun |-> frame[c].dry])
          /\ page' = [page EXCEPT ![a] = [form |-> form, values |-> Nothing]]
    BY <1>2 DEF PrepareEnd
  <2>3. [state |-> "WAITING_FOR_APPROVAL", form |-> form, values |-> Nothing,
         skipped |-> FALSE, dryRun |-> frame[c].dry] \in Records
    BY DEF Records, States, Frames
  <2>4. /\ record' \in [Apps -> Records]
        /\ attempt' \in [Apps -> {"none", "reserved", "completed", "uncertain"}]
    BY <2>1, <2>2, <2>3, SaveType DEF Base
  <2>5. frame' \in [Calls -> Frames] /\ CallsHaveApps' /\ CopiesOpen'
    BY <1>2, <2>1, EndStep DEF PrepareEnd
  <2>6. page' \in [Apps -> Content \cup {Nothing}]
    BY <2>2 DEF Base, TypeOK, Content
  <2>7. preparedDry' \subseteq Apps
    BY <1>2, <2>1 DEF PrepareEnd, Base, TypeOK
  <2> QED BY <1>2, <2>1, <2>4, <2>5, <2>6, <2>7 DEF PrepareEnd, Base, TypeOK
<1>3. CASE PrepareFails(c)
  <2>1. End(c) /\ UNCHANGED created
    BY <1>3 DEF PrepareFails
  <2>2. frame' \in [Calls -> Frames] /\ CallsHaveApps' /\ CopiesOpen'
    BY <2>1, EndStep
  <2> QED BY <1>3, <2>2 DEF PrepareFails, Base, TypeOK, ghosts
<1> QED BY <1>1, <1>2, <1>3

LEMMA FillBase ==
  ASSUME Base, NEW c \in Calls,
         \/ \E a \in Apps, dry \in BOOLEAN, answers \in Values :
              FillBegin(c, a, dry, answers)
         \/ FillCheck(c) \/ FillPage(c) \/ FillValidate(c) \/ FillEnd(c) \/ FillFails(c)
  PROVE  Base'
<1> USE CallFacts
<1>1. ASSUME NEW a \in Apps, NEW dry \in BOOLEAN, NEW answers \in Values,
             FillBegin(c, a, dry, answers)
      PROVE  Base'
  <2>1. /\ Enter(c, "fillCheck", a, Nothing, answers, dry)
        /\ a <= created /\ UNCHANGED created
    BY <1>1 DEF FillBegin, rows
  <2>2. record[a].state \notin Ended
    BY <1>1 DEF FillBegin, Terminal, Ended
  <2>4. frame' \in [Calls -> Frames] /\ CallsHaveApps' /\ CopiesOpen'
    BY <2>1, <2>2, EnterStep DEF Points
  <2> QED BY <1>1, <2>4 DEF FillBegin, Base, TypeOK, ghosts, rows
<1>2. CASE FillCheck(c)
  <2>1. frame[c].pc = "fillCheck" /\ UNCHANGED created
    BY <1>2 DEF FillCheck, At
  <2>2. /\ record' \in [Apps -> Records]
        /\ attempt' \in [Apps -> {"none", "reserved", "completed", "uncertain"}]
        /\ request' \in [Requests -> RequestRows]
        /\ frame' \in [Calls -> Frames] /\ CallsHaveApps' /\ CopiesOpen'
    <3>1. CASE FormChanged(c)
      BY <2>1, <3>1, FormChangedStep DEF HasApp, Points
    <3>2. CASE /\ Continue(c, "filling", In(frame[c].rec, "FILLING"))
               /\ UNCHANGED <<record, attempt, request>>
      <4>1. In(frame[c].rec, "FILLING") \in Records
              /\ In(frame[c].rec, "FILLING").state = "FILLING"
        BY InType DEF States
      <4>2. frame' \in [Calls -> Frames] /\ CallsHaveApps' /\ CopiesOpen'
        BY <2>1, <3>2, <4>1, ContinueStep DEF HasApp, Points, Ended
      <4> QED BY <3>2, <4>2 DEF Base, TypeOK
    <3> QED BY <1>2, <3>1, <3>2 DEF FillCheck
  <2> QED BY <1>2, <2>2, RowsStep DEF FillCheck, ghosts, Base, TypeOK
<1>3. CASE FillPage(c)
  <2>1. frame[c].pc = "filling" /\ UNCHANGED created
    BY <1>3 DEF FillPage, At, rows
  <2>2. PICK skipped \in BOOLEAN :
          Continue(c, "validating",
            [In(frame[c].rec, "VALIDATING") EXCEPT
               !.skipped = skipped, !.dryRun = @ \/ frame[c].dry])
    BY <1>3 DEF FillPage
  <2> DEFINE rec == [In(frame[c].rec, "VALIDATING") EXCEPT
                       !.skipped = skipped, !.dryRun = @ \/ frame[c].dry]
  <2>3. rec \in Records /\ rec.state = "VALIDATING"
    <3>1. /\ In(frame[c].rec, "VALIDATING") \in Records
          /\ In(frame[c].rec, "VALIDATING").state = "VALIDATING"
      BY InType DEF States
    <3>2. (In(frame[c].rec, "VALIDATING").dryRun \/ frame[c].dry) \in BOOLEAN
      OBVIOUS
    <3> QED BY <3>1, <3>2, ReviewedType
  <2> HIDE DEF rec
  <2>4. frame' \in [Calls -> Frames] /\ CallsHaveApps' /\ CopiesOpen'
    BY <2>1, <2>2, <2>3, ContinueStep DEF HasApp, Points, Ended, rec
  <2>5. page' \in [Apps -> Content \cup {Nothing}]
    <3>1. frame[c].app \in Apps /\ frame[c].answers \in Values \cup {Nothing}
      BY <2>1 DEF HasApp, Points, Frames
    <3>2. page[frame[c].app] \in Content
      BY <1>3, <3>1 DEF FillPage, Base, TypeOK
    <3>3. [page[frame[c].app] EXCEPT !.values = frame[c].answers] \in Content
      BY <3>1, <3>2 DEF Content
    <3> QED BY <1>3, <3>1, <3>3 DEF FillPage, Base, TypeOK
  <2> QED BY <1>3, <2>4, <2>5 DEF FillPage, Base, TypeOK, ghosts, rows
<1>4. CASE FillValidate(c)
  <2>1. frame[c].pc = "validating" /\ UNCHANGED created
    BY <1>4 DEF FillValidate, At
  <2>2. /\ record' \in [Apps -> Records]
        /\ attempt' \in [Apps -> {"none", "reserved", "completed", "uncertain"}]
        /\ request' \in [Requests -> RequestRows]
        /\ frame' \in [Calls -> Frames] /\ CallsHaveApps' /\ CopiesOpen'
    <3>1. CASE FormChanged(c)
      BY <2>1, <3>1, FormChangedStep DEF HasApp, Points
    <3>2. CASE ~FormChanged(c)
      <4> DEFINE read == IF frame[c].dry THEN frame[c].rec
                         ELSE [frame[c].rec EXCEPT !.values = page[frame[c].app].values]
      <4>1. PICK state \in {"READY_TO_SUBMIT", "VALIDATING"} :
              /\ Continue(c, "reviewing", In(read, state))
              /\ UNCHANGED <<record, attempt, request>>
        BY <1>4, <3>2 DEF FillValidate
      <4>2. page[frame[c].app] \in Content
        BY <1>4, <2>1 DEF FillValidate, Base, TypeOK, HasApp, Points
      <4>3. read \in Records
        BY <4>2 DEF Records, Content
      <4> HIDE DEF read
      <4>4. In(read, state) \in Records /\ In(read, state).state = state
        BY <4>3, InType DEF States
      <4>5. In(read, state).state \notin Ended
        BY <4>4 DEF Ended
      <4>6. frame' \in [Calls -> Frames] /\ CallsHaveApps' /\ CopiesOpen'
        BY <2>1, <4>1, <4>4, <4>5, ContinueStep DEF HasApp, Points
      <4> QED BY <4>1, <4>6 DEF Base, TypeOK
    <3> QED BY <3>1, <3>2
  <2> QED BY <1>4, <2>2, RowsStep DEF FillValidate, ghosts, Base, TypeOK
<1>5. CASE FillEnd(c)
  <2>1. /\ frame[c].pc = "reviewing" /\ UNCHANGED created /\ End(c)
        /\ Save(frame[c].app, frame[c].rec)
        /\ Invalidate(frame[c].app, {BindingHash(frame[c].rec)})
    BY <1>5 DEF FillEnd, At
  <2>2. frame[c].app \in Apps
    BY <2>1 DEF HasApp, Points
  <2>3. /\ record' \in [Apps -> Records]
        /\ attempt' \in [Apps -> {"none", "reserved", "completed", "uncertain"}]
        /\ request' \in [Requests -> RequestRows]
    BY <2>1, <2>2, SaveType, InvalidateType DEF Base
  <2>4. frame' \in [Calls -> Frames] /\ CallsHaveApps' /\ CopiesOpen'
    BY <2>1, EndStep
  <2> QED BY <1>5, <2>3, <2>4, RowsStep DEF FillEnd, ghosts, Base, TypeOK
<1>6. CASE FillFails(c)
  <2>1. End(c) /\ UNCHANGED created
    BY <1>6 DEF FillFails, rows
  <2>2. frame' \in [Calls -> Frames] /\ CallsHaveApps' /\ CopiesOpen'
    BY <2>1, EndStep
  <2> QED BY <1>6, <2>2, RowsStep DEF FillFails, ghosts, rows, Base, TypeOK
<1> QED BY <1>1, <1>2, <1>3, <1>4, <1>5, <1>6

LEMMA ApprovalBase ==
  ASSUME Base, Approval
  PROVE  Base'
<1>1. ASSUME NEW r \in Requests, NEW a \in Apps, RequestApproval(r, a) PROVE Base'
  <2>1. BindingHash(record[a]) \in Bindings
    BY BindingType DEF Base, TypeOK
  <2>2. \A q \in Requests :
          [request[q] EXCEPT !.status = "invalidated"] \in RequestRows
    BY DEF Base, TypeOK, RequestRows, Statuses
  <2>3. [app |-> a, binding |-> BindingHash(record[a]), status |-> "pending"]
          \in RequestRows
    BY <2>1, SubmissionAssumption DEF RequestRows, Statuses, Apps
  <2>4. request' \in [Requests -> RequestRows]
    BY <1>1, <2>2, <2>3 DEF RequestApproval, Base, TypeOK
  <2> QED BY <1>1, <2>4
          DEF RequestApproval, Base, TypeOK, CallsHaveApps, CopiesOpen, process, ghosts
<1>2. ASSUME NEW r \in Requests, DecisionRefused(r) PROVE Base'
  <2>1. request' \in [Requests -> RequestRows]
    BY <1>2, StatusType DEF DecisionRefused, Base, Statuses
  <2> QED BY <1>2, <2>1
          DEF DecisionRefused, Base, TypeOK, CallsHaveApps, CopiesOpen, process, ghosts
<1>3. ASSUME NEW r \in Requests, NEW status \in Decided, Decide(r, status),
             \/ deciding' = deciding
             \/ deciding' = Nothing
      PROVE  Base'
  <2>1. request' \in [Requests -> RequestRows]
    BY <1>3, StatusType DEF Decide, Base, Statuses, Decided
  <2>2. granted' \subseteq Requests
    BY <1>3 DEF Decide, Base, TypeOK
  <2> QED BY <1>3, <2>1, <2>2 DEF Decide, Base, TypeOK, CallsHaveApps, CopiesOpen
<1>4. ASSUME NEW r \in Requests, NEW status \in Decided, ReadApproval(r, status)
      PROVE  Base'
  BY <1>4 DEF ReadApproval, Base, TypeOK, CallsHaveApps, CopiesOpen, rows, ghosts
<1>5. CASE SaveApproval
  <2>1. deciding.request \in Requests /\ deciding.status \in Decided
    BY <1>5 DEF SaveApproval, Base, TypeOK
  <2> QED BY <1>3, <1>5, <2>1 DEF SaveApproval
<1> QED BY <1>1, <1>2, <1>3, <1>4, <1>5 DEF Approval, DecideApproval

LEMMA SubmitCheckBase ==
  ASSUME Base, NEW c \in Calls, NEW point \in HasApp, NEW next \in HasApp, NEW same,
         SubmitCheck(c, point, next, same)
  PROVE  Base'
<1> USE CallFacts
<1>1. frame[c].pc = point /\ UNCHANGED created
  BY DEF SubmitCheck, At
<1>2. /\ record' \in [Apps -> Records]
      /\ attempt' \in [Apps -> {"none", "reserved", "completed", "uncertain"}]
      /\ request' \in [Requests -> RequestRows]
      /\ frame' \in [Calls -> Frames] /\ CallsHaveApps' /\ CopiesOpen'
      /\ submitLocks' \subseteq Apps
  <2>1. CASE FormChanged(c) /\ Unlock(frame[c].app)
    BY <1>1, <2>1, FormChangedStep DEF Unlock, Base, TypeOK
  <2>2. CASE /\ Continue(c, next, frame[c].rec)
             /\ UNCHANGED <<record, attempt, request, submitLocks>>
    <3>1. next \in Points
      BY DEF HasApp
    <3>2. frame' \in [Calls -> Frames] /\ CallsHaveApps' /\ CopiesOpen'
      BY <1>1, <2>2, ContinueStep
    <3> QED BY <2>2, <3>2 DEF Base, TypeOK
  <2> QED BY <2>1, <2>2 DEF SubmitCheck
<1> QED BY <1>2, RowsStep DEF SubmitCheck, ghosts, Base, TypeOK

LEMMA SubmitBase ==
  ASSUME Base, NEW c \in Calls,
         \/ \E a \in Apps, r \in Requests : SubmitBegin(c, a, r) \/ SubmitRefused(c, a, r)
         \/ SubmitCheckForm(c) \/ SubmitCheckValues(c) \/ SubmitReserve(c)
         \/ SubmitClick(c) \/ SubmitConfirmed(c) \/ SubmitUncertain(c) \/ SubmitFails(c)
         \/ SubmitSettles(c)
  PROVE  Base'
<1> USE CallFacts
<1>1. ASSUME NEW a \in Apps, NEW r \in Requests, SubmitBegin(c, a, r) PROVE Base'
  <2>1. /\ Enter(c, "submitCheck", a, r, Nothing, FALSE)
        /\ a <= created /\ UNCHANGED created
    BY <1>1 DEF SubmitBegin, Submittable
  <2>2. record[a].state \notin Ended
    BY <1>1 DEF SubmitBegin, Submittable, Ended
  <2>3. frame' \in [Calls -> Frames] /\ CallsHaveApps' /\ CopiesOpen'
    BY <2>1, <2>2, EnterStep DEF Points
  <2> QED BY <1>1, <2>3 DEF SubmitBegin, Base, TypeOK, ghosts
<1>2. ASSUME NEW a \in Apps, NEW r \in Requests, SubmitRefused(c, a, r) PROVE Base'
  <2>1. request' \in [Requests -> RequestRows]
    BY <1>2, StatusType DEF SubmitRefused, Base, Statuses
  <2> QED BY <1>2, <2>1
          DEF SubmitRefused, Base, TypeOK, CallsHaveApps, CopiesOpen, process, ghosts
<1>3. CASE SubmitCheckForm(c) \/ SubmitCheckValues(c)
  BY <1>3, SubmitCheckBase DEF SubmitCheckForm, SubmitCheckValues, HasApp, Points
<1>4. CASE SubmitReserve(c)
  <2> DEFINE rec == In(frame[c].rec, "SUBMITTING")
  <2>1. /\ frame[c].pc = "reserving" /\ UNCHANGED created
        /\ frame[c].app \in Apps /\ frame[c].req \in Requests \cup {Nothing}
    BY <1>4 DEF SubmitReserve, At, HasApp, Points, Frames
  <2>2. rec \in Records /\ rec.state = "SUBMITTING"
    BY InType DEF States
  <2> HIDE DEF rec
  <2>3. frame' \in [Calls -> Frames] /\ CallsHaveApps' /\ CopiesOpen'
    <3>1. CASE Continue(c, "clicking", rec)
      BY <2>1, <2>2, <3>1, ContinueStep DEF HasApp, Points, Ended
    <3>2. CASE End(c)
      BY <2>1, <3>2, EndStep
    <3> QED BY <1>4, <3>1, <3>2 DEF SubmitReserve, rec
  <2>4. record' \in [Apps -> Records]
    BY <1>4, <2>1, <2>2 DEF SubmitReserve, rec, Base, TypeOK
  <2>5. request' \in [Requests -> RequestRows]
    <3>1. CASE frame[c].req \in Requests
      BY <1>4, <3>1, StatusType DEF SubmitReserve, MarkApprovalUsed, Base, Statuses
    <3>2. CASE frame[c].req = Nothing
      <4>1. request' = request
        BY <1>4, <3>2, SubmissionAssumption DEF SubmitReserve, MarkApprovalUsed, Base, TypeOK
      <4> QED BY <4>1 DEF Base, TypeOK
    <3> QED BY <2>1, <3>1, <3>2
  <2>6. submitLocks' \subseteq Apps
    BY <1>4 DEF SubmitReserve, Unlock, Base, TypeOK
  <2>7. reservedBy' \in [Apps -> Requests \cup {Nothing}]
    BY <1>4, <2>1 DEF SubmitReserve, Reserve, Base, TypeOK
  <2> QED BY <1>4, <2>3, <2>4, <2>5, <2>6, <2>7 DEF SubmitReserve, Base, TypeOK, ghosts
<1>5. CASE SubmitClick(c)
  <2>1. frame[c].pc = "clicking" /\ UNCHANGED created /\ frame[c].app \in Apps
    BY <1>5 DEF SubmitClick, At, HasApp, Points, rows
  <2>2. frame' \in [Calls -> Frames] /\ CallsHaveApps' /\ CopiesOpen'
    BY <1>5, <2>1, ContinueStep DEF SubmitClick, HasApp, Points
  <2>3. clicks' \in [Apps -> Nat] /\ clicked' \in [Apps -> Content \cup {Nothing}]
    BY <1>5, <2>1 DEF SubmitClick, Base, TypeOK
  <2> QED BY <1>5, <2>2, <2>3 DEF SubmitClick, Base, TypeOK, rows
<1>6. ASSUME NEW point \in Settling, NEW state \in States, frame[c].pc \in HasApp,
             UNCHANGED created, Save(frame[c].app, In(frame[c].rec, state)),
             Continue(c, point, frame[c].rec)
      PROVE  /\ record' \in [Apps -> Records]
             /\ attempt' \in [Apps -> {"none", "reserved", "completed", "uncertain"}]
             /\ frame' \in [Calls -> Frames] /\ CallsHaveApps' /\ CopiesOpen'
  <2>1. In(frame[c].rec, state) \in Records
    BY InType
  <2>2. point \in HasApp
    BY DEF Settling, HasApp, Points
  <2> QED BY <1>6, <2>1, <2>2, SaveType, ContinueStep DEF Base
<1>7. CASE SubmitConfirmed(c) \/ SubmitUncertain(c)
  <2>1. /\ record' \in [Apps -> Records]
        /\ attempt' \in [Apps -> {"none", "reserved", "completed", "uncertain"}]
        /\ frame' \in [Calls -> Frames] /\ CallsHaveApps' /\ CopiesOpen'
    BY <1>6, <1>7
       DEF SubmitConfirmed, SubmitUncertain, At, HasApp, Points, Settling, States
  <2> QED BY <1>7, <2>1 DEF SubmitConfirmed, SubmitUncertain, Base, TypeOK, ghosts
<1>8. CASE SubmitFails(c)
  <2>1. /\ frame[c].app \in Apps /\ UNCHANGED created /\ End(c)
        /\ Save(frame[c].app, frame[c].rec)
    BY <1>8 DEF SubmitFails, HasApp, Points
  <2>2. /\ record' \in [Apps -> Records]
        /\ attempt' \in [Apps -> {"none", "reserved", "completed", "uncertain"}]
    BY <2>1, SaveType DEF Base
  <2>3. frame' \in [Calls -> Frames] /\ CallsHaveApps' /\ CopiesOpen'
    BY <2>1, EndStep
  <2> QED BY <1>8, <2>2, <2>3 DEF SubmitFails, Unlock, Base, TypeOK, ghosts
<1>9. CASE SubmitSettles(c)
  <2>1. End(c) /\ UNCHANGED created
    BY <1>9 DEF SubmitSettles
  <2>2. frame' \in [Calls -> Frames] /\ CallsHaveApps' /\ CopiesOpen'
    BY <2>1, EndStep
  <2>3. /\ attempt' \in [Apps -> {"none", "reserved", "completed", "uncertain"}]
        /\ page' \in [Apps -> Content \cup {Nothing}]
        /\ ctl' \in [Apps -> {"none", "live", "aborted"}]
    BY <1>9 DEF SubmitSettles, AttemptAfter, Base, TypeOK
  <2> QED BY <1>9, <2>2, <2>3 DEF SubmitSettles, Unlock, Base, TypeOK, ghosts
<1> QED BY <1>1, <1>2, <1>3, <1>4, <1>5, <1>7, <1>8, <1>9

LEMMA CancelBase ==
  ASSUME Base, NEW c \in Calls,
         CancelEnd(c) \/ \E a \in Apps : CancelBegin(c, a)
  PROVE  Base'
<1> USE CallFacts
<1>1. ASSUME NEW a \in Apps, CancelBegin(c, a) PROVE Base'
  <2>1. /\ Enter(c, "cancelling", a, Nothing, Nothing, FALSE)
        /\ a <= created /\ UNCHANGED created
    BY <1>1 DEF CancelBegin, rows
  <2>2. record[a].state \notin Ended
    BY <1>1 DEF CancelBegin, Terminal, Ended
  <2>3. frame' \in [Calls -> Frames] /\ CallsHaveApps' /\ CopiesOpen'
    BY <2>1, <2>2, EnterStep DEF Points
  <2>4. ctl' \in [Apps -> {"none", "live", "aborted"}]
          /\ page' \in [Apps -> Content \cup {Nothing}]
    BY <1>1 DEF CancelBegin, Base, TypeOK
  <2> QED BY <1>1, <2>3, <2>4 DEF CancelBegin, Base, TypeOK, rows, ghosts
<1>2. CASE CancelEnd(c)
  <2>1. frame[c].app \in Apps /\ UNCHANGED created /\ End(c)
    BY <1>2 DEF CancelEnd, At, HasApp, Points
  <2>2. /\ record' \in [Apps -> Records]
        /\ attempt' \in [Apps -> {"none", "reserved", "completed", "uncertain"}]
        /\ request' \in [Requests -> RequestRows]
        /\ cancelled' \subseteq Apps
    <3>1. CASE /\ Invalidate(frame[c].app, {})
               /\ Save(frame[c].app, In(frame[c].rec, "CANCELLED"))
               /\ cancelled' = cancelled \cup {frame[c].app}
      <4>1. In(frame[c].rec, "CANCELLED") \in Records
        BY InType DEF States
      <4> QED BY <2>1, <3>1, <4>1, SaveType, InvalidateType DEF Base, TypeOK
    <3>2. CASE UNCHANGED <<record, attempt, request, cancelled>>
      BY <3>2 DEF Base, TypeOK
    <3> QED BY <1>2, <3>1, <3>2 DEF CancelEnd
  <2>3. frame' \in [Calls -> Frames] /\ CallsHaveApps' /\ CopiesOpen'
    BY <2>1, EndStep
  <2> QED BY <1>2, <2>2, <2>3, RowsStep DEF CancelEnd, Base, TypeOK
<1> QED BY <1>1, <1>2

LEMMA SurroundingsBase ==
  ASSUME Base, Surroundings
  PROVE  Base'
<1>1. ASSUME NEW a \in Apps, PageChanges(a) PROVE Base'
  <2>1. page' \in [Apps -> Content \cup {Nothing}] /\ edited' \subseteq Apps
    BY <1>1 DEF PageChanges, Base, TypeOK
  <2> QED BY <1>1, <2>1
          DEF PageChanges, Base, TypeOK, CallsHaveApps, CopiesOpen, rows, ghosts
<1>2. ASSUME NEW r \in Requests, RequestLapses(r) PROVE Base'
  BY <1>2 DEF RequestLapses, Base, TypeOK, CallsHaveApps, CopiesOpen, rows, process, ghosts
<1>3. CASE LockLapses
  <2>1. submitLocks' \subseteq Apps /\ prepareLock' \in BOOLEAN
    BY <1>3 DEF LockLapses, Unlock, Base, TypeOK
  <2> QED BY <1>3, <2>1
          DEF LockLapses, Base, TypeOK, CallsHaveApps, CopiesOpen, process, ghosts
<1>4. CASE EmergencyEngage
  <2>1. ASSUME NEW c \in Calls
        PROVE  /\ frame'[c] \in Frames
               /\ frame'[c].pc = frame[c].pc /\ frame'[c].app = frame[c].app
               /\ frame'[c].rec = frame[c].rec
    <3>1. frame[c] \in Frames
      BY DEF Base, TypeOK
    <3>2. \/ frame'[c] = [frame[c] EXCEPT !.stopped = TRUE]
          \/ frame'[c] = frame[c]
      BY <1>4 DEF EmergencyEngage
    <3> QED BY <3>1, <3>2 DEF Frames
  <2>2. frame' \in [Calls -> Frames]
    BY <1>4, <2>1 DEF EmergencyEngage
  <2>3. CallsHaveApps' /\ CopiesOpen'
    BY <1>4, <2>1 DEF EmergencyEngage, Base, CallsHaveApps, CopiesOpen, rows
  <2> QED BY <1>4, <2>2, <2>3 DEF EmergencyEngage, Base, TypeOK, rows, ghosts
<1>5. CASE EmergencyReset
  BY <1>5 DEF EmergencyReset, Base, TypeOK, CallsHaveApps, CopiesOpen, rows, ghosts
<1> QED BY <1>1, <1>2, <1>3, <1>4, <1>5 DEF Surroundings

LEMMA FailureBase ==
  ASSUME Base, Failure
  PROVE  Base'
<1>1. ASSUME Gone,
             attempt' \in [Apps -> {"none", "reserved", "completed", "uncertain"}],
             reservedBy' \in [Apps -> Requests \cup {Nothing}],
             request' \in [Requests -> RequestRows], UNCHANGED record
      PROVE  Base'
  <2>1. Idle.pc \notin HasApp /\ Idle.rec.state \notin Ended
    BY DEF Idle, HasApp, Ended, NoRecord
  <2>2. frame' \in [Calls -> Frames] /\ CallsHaveApps' /\ CopiesOpen'
    BY <1>1, <2>1, IdleType DEF Gone, CallsHaveApps, CopiesOpen
  <2>3. /\ page' \in [Apps -> Content \cup {Nothing}]
        /\ ctl' \in [Apps -> {"none", "live", "aborted"}]
        /\ emergency' \in BOOLEAN
    BY <1>1 DEF Gone
  <2>4. torn' \subseteq Apps
    <3>1. \A c \in Calls : frame[c].pc \in Settling => frame[c].app \in Apps
      BY CallFacts DEF Settling, HasApp, Points
    <3> QED BY <1>1, <3>1 DEF Gone, Base, TypeOK
  <2> QED BY <1>1, <2>2, <2>3, <2>4 DEF Gone, Base, TypeOK, ghosts
<1>2. CASE Crash
  BY <1>1, <1>2 DEF Crash, Base, TypeOK
<1>3. CASE CoordinatorCrash
  BY <1>3 DEF CoordinatorCrash, Base, TypeOK, CallsHaveApps, CopiesOpen, rows, ghosts
<1>4. ASSUME NEW c \in Calls, CrashInReserve(c) PROVE Base'
  <2>1. frame[c].app \in Apps /\ frame[c].req \in Requests \cup {Nothing}
    BY <1>4, CallFacts DEF CrashInReserve, At, HasApp, Points, Frames
  <2>2. request' \in [Requests -> RequestRows]
    <3>1. MarkApprovalUsed(frame[c].req) \/ UNCHANGED request
      BY <1>4 DEF CrashInReserve
    <3>2. CASE frame[c].req \in Requests
      <4>1. TypeOK /\ request \in [Requests -> RequestRows]
        BY DEF Base, TypeOK
      <4>2. "used" \in Statuses
        BY DEF Statuses
      <4> QED BY <3>1, <3>2, <4>1, <4>2, StatusType DEF MarkApprovalUsed
    <3>3. CASE frame[c].req = Nothing
      <4>1. request' = request
        BY <3>1, <3>3, SubmissionAssumption DEF MarkApprovalUsed, Base, TypeOK
      <4> QED BY <4>1 DEF Base, TypeOK
    <3> QED BY <2>1, <3>2, <3>3
  <2>3. reservedBy' \in [Apps -> Requests \cup {Nothing}]
    BY <1>4, <2>1 DEF CrashInReserve, Reserve, Base, TypeOK
  <2>4. attempt' \in [Apps -> {"none", "reserved", "completed", "uncertain"}]
    BY <1>4, <2>1 DEF CrashInReserve, Base, TypeOK
  <2> QED BY <1>1, <1>4, <2>2, <2>3, <2>4 DEF CrashInReserve
<1> QED BY <1>2, <1>3, <1>4 DEF Failure

LEMMA StutterBase ==
  ASSUME Base, UNCHANGED vars
  PROVE  Base'
  BY DEF Base, TypeOK, CallsHaveApps, CopiesOpen, vars, rows, process, ghosts

LEMMA InitBase == Init => Base
<1> SUFFICES ASSUME Init PROVE CallsHaveApps /\ CopiesOpen
  BY InitTypeOK DEF Base
<1>1. \A c \in Calls : frame[c].pc = "idle" /\ frame[c].rec.state = "none"
  BY DEF Init, Idle, NoRecord
<1> QED BY <1>1 DEF CallsHaveApps, CopiesOpen, HasApp, Ended

LEMMA NextBase == Base /\ [Next]_vars => Base'
<1> SUFFICES ASSUME Base, [Next]_vars PROVE Base'
  OBVIOUS
<1>1. ASSUME NEW c \in Calls, Begin(c) PROVE Base'
  BY <1>1, PrepareBase, FillBase, SubmitBase, CancelBase DEF Begin
<1>2. ASSUME NEW c \in Calls, CallStep(c) PROVE Base'
  BY <1>2, PrepareBase, FillBase, SubmitBase, CancelBase DEF CallStep
<1> QED BY <1>1, <1>2, ApprovalBase, SurroundingsBase, FailureBase, StutterBase DEF Next

LEMMA Inductive == Spec => []Base
  BY InitBase, NextBase, PTL DEF Spec

\* The rows, the frames and the pages always hold what the code can put there.
THEOREM SubmissionTypeCorrect == Spec => []TypeOK
<1>1. Base => TypeOK
  BY DEF Base
<1> QED BY <1>1, Inductive, PTL

-----------------------------------------------------------------------------
(* The click.  Only three kinds of steps touch an attempt or a click; all   *)
(* the others are quiet, and StepKinds says so once for every theorem below *)
(* it and in SubmissionOutcomeProofs.                                       *)

\* A call that has reserved and whose attempt has not got its outcome.
InFlight == {"clicking", "confirming", "submitted", "uncertain"}

\* The call is no further than it was, as far as the click is concerned, or
\* it has stored the outcome in the application's row.
Kept(c) ==
  frame'[c].pc \in InFlight =>
    /\ frame'[c].app = frame[c].app
    /\ \/ frame'[c].pc = frame[c].pc
       \/ frame[c].pc = "confirming" /\ frame'[c].pc = "submitted"
       \/ frame[c].pc \in {"clicking", "confirming"} /\ frame'[c].pc = "uncertain"

Quiet == UNCHANGED <<attempt, reservedBy, clicks>> /\ \A c \in Calls : Kept(c)

Reserves(c, a) ==
  /\ At(c, "reserving") /\ frame[c].app = a
  /\ attempt[a] = "none"
  /\ attempt' = [attempt EXCEPT ![a] = "reserved"]
  /\ reservedBy' = [reservedBy EXCEPT ![a] = frame[c].req]
  /\ UNCHANGED clicks
  /\ frame'[c].pc \in InFlight =>
       frame'[c].pc = "clicking" /\ frame'[c].app = a /\ MarkApprovalUsed(frame[c].req)
  /\ \A d \in Calls \ {c} : Kept(d)

Clicks(c) ==
  /\ frame[c].pc = "clicking"
  /\ frame'[c].pc = "confirming" /\ frame'[c].app = frame[c].app
  /\ clicks' = [clicks EXCEPT ![frame[c].app] = @ + 1]
  /\ UNCHANGED <<attempt, reservedBy>>
  /\ \A d \in Calls \ {c} : Kept(d)

\* The outcome that the row has got already.
Outcome(c) == IF At(c, "submitted") THEN "completed" ELSE "uncertain"
Settles(c) ==
  /\ frame[c].pc \in Settling
  /\ frame'[c].pc \notin InFlight
  /\ attempt' = [attempt EXCEPT ![frame[c].app] =
                   IF @ = "reserved" THEN Outcome(c) ELSE @]
  /\ UNCHANGED <<reservedBy, clicks>>
  /\ \A d \in Calls \ {c} : Kept(d)

Kind ==
  \/ Quiet
  \/ \E c \in Calls :
       \/ \E a \in Apps : Reserves(c, a)
       \/ Clicks(c)
       \/ Settles(c)

-----------------------------------------------------------------------------
(* Every step is of one of these kinds. *)

LEMMA EndKept ==
  ASSUME Base, NEW c \in Calls, End(c)
  PROVE  frame'[c].pc \notin InFlight /\ \A d \in Calls : Kept(d)
  BY DEF End, Idle, Kept, InFlight, Settling, Base, TypeOK

LEMMA ContinueKept ==
  ASSUME Base, NEW c \in Calls, NEW point \in Points, NEW rec, Continue(c, point, rec)
  PROVE  /\ frame'[c].pc = point /\ frame'[c].app = frame[c].app
         /\ \A d \in Calls \ {c} : Kept(d)
         /\ point \notin InFlight => \A d \in Calls : Kept(d)
<1>1. frame[c] \in Frames
  BY CallFacts
<1>2. frame'[c] = [frame[c] EXCEPT !.pc = point, !.rec = rec]
  BY DEF Continue, Base, TypeOK
<1>3. frame'[c].pc = point /\ frame'[c].app = frame[c].app
  BY <1>1, <1>2 DEF Frames
<1>4. \A d \in Calls \ {c} : frame'[d] = frame[d]
  BY DEF Continue, Base, TypeOK
<1> QED BY <1>3, <1>4 DEF Kept

LEMMA EnterKept ==
  ASSUME Base, NEW c \in Calls, NEW point \in Points \ InFlight, NEW a, NEW req,
         NEW answers, NEW dry, Enter(c, point, a, req, answers, dry)
  PROVE  \A d \in Calls : Kept(d)
  BY DEF Enter, Kept, Base, TypeOK

LEMMA FormChangedKept ==
  ASSUME Base, NEW c \in Calls, frame[c].pc \in HasApp, FormChanged(c)
  PROVE  UNCHANGED attempt /\ \A d \in Calls : Kept(d)
  BY EndKept DEF FormChanged, Save

LEMMA CallsStarted ==
  ASSUME Base, NEW c \in Calls, Begin(c)
  PROVE  Quiet
<1>1. ASSUME NEW dry \in BOOLEAN, PrepareBegin(c, dry) PROVE Quiet
  <2>1. frame'[c].pc = "preparing" /\ \A d \in Calls \ {c} : frame'[d] = frame[d]
    BY <1>1, CallFacts DEF PrepareBegin, Base, TypeOK, Frames
  <2> QED BY <1>1, <2>1 DEF PrepareBegin, Quiet, Kept, InFlight, Settling, ghosts
<1>2. ASSUME NEW a \in Apps, NEW dry \in BOOLEAN, NEW answers \in Values,
             FillBegin(c, a, dry, answers)
      PROVE  Quiet
  <2>1. "fillCheck" \in Points \ InFlight
    BY DEF Points, InFlight, Settling
  <2> QED BY <1>2, <2>1, EnterKept DEF FillBegin, Quiet, rows, ghosts
<1>3. ASSUME NEW a \in Apps, NEW r \in Requests, SubmitBegin(c, a, r) PROVE Quiet
  <2>1. "submitCheck" \in Points \ InFlight
    BY DEF Points, InFlight, Settling
  <2> QED BY <1>3, <2>1, EnterKept DEF SubmitBegin, Quiet, ghosts
<1>4. ASSUME NEW a \in Apps, NEW r \in Requests, SubmitRefused(c, a, r) PROVE Quiet
  BY <1>4 DEF SubmitRefused, Quiet, Kept, process, ghosts
<1>5. ASSUME NEW a \in Apps, CancelBegin(c, a) PROVE Quiet
  <2>1. "cancelling" \in Points \ InFlight
    BY DEF Points, InFlight, Settling
  <2> QED BY <1>5, <2>1, EnterKept DEF CancelBegin, Quiet, rows, ghosts
<1> QED BY <1>1, <1>2, <1>3, <1>4, <1>5 DEF Begin

LEMMA PrepareQuiet ==
  ASSUME Base, NEW c \in Calls, PrepareEnd(c) \/ PrepareFails(c)
  PROVE  Quiet
<1>1. \A d \in Calls : Kept(d)
  BY EndKept DEF PrepareEnd, PrepareFails
<1>2. CASE PrepareEnd(c)
  BY <1>1, <1>2 DEF PrepareEnd, Save, Quiet
<1>3. CASE PrepareFails(c)
  BY <1>1, <1>3 DEF PrepareFails, Quiet, ghosts
<1> QED BY <1>2, <1>3

LEMMA FillQuiet ==
  ASSUME Base, NEW c \in Calls,
         FillCheck(c) \/ FillPage(c) \/ FillValidate(c) \/ FillEnd(c) \/ FillFails(c)
  PROVE  Quiet
<1> USE CallFacts
<1>0. {"filling", "validating", "reviewing"} \subseteq Points \ InFlight
  BY DEF Points, InFlight, Settling
<1>1. CASE FillCheck(c)
  <2>1. frame[c].pc \in HasApp
    BY <1>1 DEF FillCheck, At, HasApp, Points
  <2>2. UNCHANGED attempt /\ \A d \in Calls : Kept(d)
    BY <1>0, <1>1, <2>1, FormChangedKept, ContinueKept DEF FillCheck
  <2> QED BY <1>1, <2>2 DEF FillCheck, Quiet, ghosts
<1>2. CASE FillPage(c)
  <2>1. \A d \in Calls : Kept(d)
    BY <1>0, <1>2, ContinueKept DEF FillPage
  <2> QED BY <1>2, <2>1 DEF FillPage, Quiet, rows, ghosts
<1>3. CASE FillValidate(c)
  <2>1. frame[c].pc \in HasApp
    BY <1>3 DEF FillValidate, At, HasApp, Points
  <2>2. CASE FormChanged(c)
    BY <1>3, <2>1, <2>2, FormChangedKept DEF FillValidate, Quiet, ghosts
  <2>3. CASE ~FormChanged(c)
    <3>1. PICK rec : Continue(c, "reviewing", rec) /\ UNCHANGED attempt
      BY <1>3, <2>3 DEF FillValidate
    <3>2. \A d \in Calls : Kept(d)
      BY <1>0, <3>1, ContinueKept
    <3> QED BY <1>3, <3>1, <3>2 DEF FillValidate, Quiet, ghosts
  <2> QED BY <2>2, <2>3
<1>4. CASE FillEnd(c)
  BY <1>4, EndKept DEF FillEnd, Save, Quiet, ghosts
<1>5. CASE FillFails(c)
  BY <1>5, EndKept DEF FillFails, Quiet, rows, ghosts
<1> QED BY <1>1, <1>2, <1>3, <1>4, <1>5

LEMMA SubmitKinds ==
  ASSUME Base, NEW c \in Calls,
         \/ SubmitCheckForm(c) \/ SubmitCheckValues(c) \/ SubmitReserve(c)
         \/ SubmitClick(c) \/ SubmitConfirmed(c) \/ SubmitUncertain(c) \/ SubmitFails(c)
         \/ SubmitSettles(c)
  PROVE  Kind
<1> USE CallFacts
<1>1. ASSUME NEW point \in HasApp, NEW next \in Points \ InFlight, NEW same,
             SubmitCheck(c, point, next, same)
      PROVE  Quiet
  <2>1. UNCHANGED attempt /\ \A d \in Calls : Kept(d)
    BY <1>1, FormChangedKept, ContinueKept DEF SubmitCheck, At
  <2> QED BY <1>1, <2>1 DEF SubmitCheck, Quiet, ghosts
<1>2. CASE SubmitCheckForm(c) \/ SubmitCheckValues(c)
  BY <1>1, <1>2
     DEF SubmitCheckForm, SubmitCheckValues, Kind, HasApp, Points, InFlight, Settling
<1>3. CASE SubmitReserve(c)
  <2>1. frame[c].app \in Apps
    BY <1>3 DEF SubmitReserve, At, HasApp, Points
  <2>2. /\ frame'[c].pc \in InFlight =>
             frame'[c].pc = "clicking" /\ frame'[c].app = frame[c].app
        /\ \A d \in Calls \ {c} : Kept(d)
    BY <1>3, EndKept, ContinueKept DEF SubmitReserve, Points
  <2> QED BY <1>3, <2>1, <2>2 DEF SubmitReserve, Reserve, Reserves, Kind, ghosts
<1>4. CASE SubmitClick(c)
  <2>1. Continue(c, "confirming", frame[c].rec) /\ frame[c].pc = "clicking"
    BY <1>4 DEF SubmitClick, At
  <2>2. /\ frame'[c].pc = "confirming" /\ frame'[c].app = frame[c].app
        /\ \A d \in Calls \ {c} : Kept(d)
    BY <2>1, ContinueKept DEF Points
  <2>3. Clicks(c)
    BY <1>4, <2>1, <2>2 DEF SubmitClick, Clicks, rows
  <2> QED BY <2>3 DEF Kind
<1>5. CASE SubmitConfirmed(c) \/ SubmitUncertain(c)
  <2>1. PICK point \in Settling :
          /\ Continue(c, point, frame[c].rec)
          /\ frame[c].pc \in {"clicking", "confirming"}
          /\ point = "submitted" => frame[c].pc = "confirming"
    BY <1>5 DEF SubmitConfirmed, SubmitUncertain, At, Settling
  <2>2. /\ frame'[c].pc = point /\ frame'[c].app = frame[c].app
        /\ \A d \in Calls \ {c} : Kept(d)
    BY <2>1, ContinueKept DEF Settling, Points
  <2>3. Kept(c)
    BY <2>1, <2>2 DEF Kept, Settling
  <2> QED BY <1>5, <2>2, <2>3 DEF SubmitConfirmed, SubmitUncertain, Save, Quiet, Kind, ghosts
<1>6. CASE SubmitFails(c)
  BY <1>6, EndKept DEF SubmitFails, Save, Quiet, Kind, ghosts
<1>7. CASE SubmitSettles(c)
  <2>1. frame[c].app \in Apps /\ frame[c].pc \in Settling
    BY <1>7 DEF SubmitSettles, Settling, HasApp, Points
  <2>2. AttemptAfter(frame[c].app, IF At(c, "submitted") THEN "SUBMITTED" ELSE "FAILED_PERMANENT")
          = IF attempt[frame[c].app] = "reserved" THEN Outcome(c) ELSE attempt[frame[c].app]
    BY DEF AttemptAfter, Outcome
  <2>3. attempt' = [attempt EXCEPT ![frame[c].app] =
                      IF @ = "reserved" THEN Outcome(c) ELSE @]
    BY <1>7, <2>2 DEF SubmitSettles, At
  <2> QED BY <1>7, <2>1, <2>3, EndKept DEF SubmitSettles, Settles, Kind, ghosts
<1> QED BY <1>2, <1>3, <1>4, <1>5, <1>6, <1>7

LEMMA CancelQuiet ==
  ASSUME Base, NEW c \in Calls, CancelEnd(c)
  PROVE  Quiet
  BY EndKept DEF CancelEnd, Save, Quiet

LEMMA OthersKinds ==
  ASSUME Base, Approval \/ Surroundings \/ Failure \/ UNCHANGED vars
  PROVE  Kind
<1>1. CASE Approval
  BY <1>1 DEF Approval, RequestApproval, DecisionRefused, DecideApproval, ReadApproval,
              SaveApproval, Decide, Kind, Quiet, Kept, rows, process, ghosts
<1>2. CASE EmergencyEngage
  <2>1. ASSUME NEW c \in Calls PROVE Kept(c)
    BY <1>2 DEF EmergencyEngage, Kept, Base, TypeOK, Frames
  <2> QED BY <1>2, <2>1 DEF EmergencyEngage, Kind, Quiet, rows, ghosts
<1>3. CASE Surroundings /\ ~EmergencyEngage
  BY <1>3 DEF Surroundings, PageChanges, RequestLapses, LockLapses, EmergencyReset,
              Kind, Quiet, Kept, rows, process, ghosts
<1>4. CASE Crash
  <2>1. \A c \in Calls : frame'[c].pc = "idle"
    BY <1>4 DEF Crash, Gone, Idle
  <2> QED BY <1>4, <2>1 DEF Crash, Gone, Kind, Quiet, Kept, InFlight, Settling, ghosts
<1>5. CASE CoordinatorCrash
  BY <1>5 DEF CoordinatorCrash, Kind, Quiet, Kept, rows, ghosts
<1>6. ASSUME NEW c \in Calls, CrashInReserve(c) PROVE Kind
  <2>1. frame[c].app \in Apps
    BY <1>6, CallFacts DEF CrashInReserve, At, HasApp, Points
  <2>2. \A d \in Calls : frame'[d].pc = "idle"
    BY <1>6 DEF CrashInReserve, Gone, Idle
  <2> QED BY <1>6, <2>1, <2>2
          DEF CrashInReserve, Gone, Reserve, Reserves, Kind, Kept, InFlight, Settling,
              ghosts
<1>7. CASE UNCHANGED vars
  BY <1>7 DEF Kind, Quiet, Kept, vars, rows, process, ghosts
<1> QED BY <1>1, <1>2, <1>3, <1>4, <1>5, <1>6, <1>7 DEF Failure

LEMMA StepKinds ==
  ASSUME Base, [Next]_vars
  PROVE  Kind
<1>1. ASSUME NEW c \in Calls, CallStep(c) PROVE Kind
  BY <1>1, PrepareQuiet, FillQuiet, SubmitKinds, CancelQuiet DEF CallStep, Kind
<1>2. ASSUME NEW c \in Calls, Begin(c) PROVE Kind
  BY <1>2, CallsStarted DEF Kind
<1> QED BY <1>1, <1>2, OthersKinds DEF Next
-----------------------------------------------------------------------------
(* One click. *)

\* What makes it one: only a call that reserved clicks, no two calls reserve
\* for the same application, and a reservation is never taken back.
ClickInv ==
  /\ \A a \in Apps : clicks[a] <= 1 /\ (attempt[a] = "none" => clicks[a] = 0)
  /\ \A c \in Calls : frame[c].pc \in InFlight =>
       /\ attempt[frame[c].app] = "reserved"
       /\ frame[c].pc = "clicking" => clicks[frame[c].app] = 0
  /\ \A c, d \in Calls :
       (frame[c].pc \in InFlight /\ frame[d].pc \in InFlight
          /\ frame[c].app = frame[d].app) => c = d

LEMMA InFlightApp ==
  ASSUME Base, NEW c \in Calls, frame[c].pc \in InFlight
  PROVE  frame[c].app \in Apps
  BY CallFacts DEF HasApp, Points, InFlight, Settling

LEMMA ClickInitially == Init => ClickInv
  BY DEF Init, Idle, ClickInv, InFlight

LEMMA ClickStep ==
  ASSUME Base, ClickInv, [Next]_vars
  PROVE  ClickInv'
<1>0. Base'
  BY NextBase
<1> USE <1>0
<1>1. CASE Quiet
  <2>1. \A d \in Calls : frame'[d].pc \in InFlight =>
          /\ frame[d].pc \in InFlight /\ frame'[d].app = frame[d].app
          /\ frame'[d].pc = "clicking" => frame[d].pc = "clicking"
    BY <1>1 DEF Quiet, Kept, InFlight, Settling
  <2> QED BY <1>1, <2>1 DEF Quiet, ClickInv
<1>2. ASSUME NEW c \in Calls, NEW a \in Apps, Reserves(c, a) PROVE ClickInv'
  <2>1. clicks[a] = 0 /\ \A b \in Apps : clicks'[b] = clicks[b]
    BY <1>2 DEF Reserves, ClickInv
  <2>2. \A b \in Apps : attempt'[b] = IF b = a THEN "reserved" ELSE attempt[b]
    BY <1>2 DEF Reserves, Base, TypeOK
  <2>3. \A d \in Calls : frame[d].pc \in InFlight => frame[d].app # a
    BY <1>2 DEF Reserves, ClickInv
  <2>4. \A d \in Calls \ {c} : frame'[d].pc \in InFlight =>
          /\ frame[d].pc \in InFlight /\ frame'[d].app = frame[d].app
          /\ frame'[d].pc = "clicking" => frame[d].pc = "clicking"
    BY <1>2 DEF Reserves, Kept, InFlight, Settling
  <2>5. frame'[c].pc \in InFlight => frame'[c].app = a
    BY <1>2 DEF Reserves
  <2>6. ASSUME NEW d \in Calls, frame'[d].pc \in InFlight
        PROVE  /\ attempt'[frame'[d].app] = "reserved"
               /\ frame'[d].pc = "clicking" => clicks'[frame'[d].app] = 0
    <3>1. CASE d = c
      BY <2>1, <2>2, <2>5, <2>6, <3>1
    <3>2. CASE d # c
      BY <2>1, <2>2, <2>4, <2>6, <3>2, InFlightApp DEF ClickInv
    <3> QED BY <3>1, <3>2
  <2>7. \A d, e \in Calls :
          (frame'[d].pc \in InFlight /\ frame'[e].pc \in InFlight
             /\ frame'[d].app = frame'[e].app) => d = e
    BY <2>3, <2>4, <2>5 DEF ClickInv
  <2>8. \A b \in Apps : clicks'[b] <= 1 /\ (attempt'[b] = "none" => clicks'[b] = 0)
    BY <2>1, <2>2 DEF ClickInv
  <2> QED BY <2>6, <2>7, <2>8 DEF ClickInv
<1>3. ASSUME NEW c \in Calls, Clicks(c) PROVE ClickInv'
  <2>1. frame[c].app \in Apps /\ attempt[frame[c].app] = "reserved"
          /\ clicks[frame[c].app] = 0
    BY <1>3, InFlightApp DEF Clicks, ClickInv, InFlight
  <2>2. \A b \in Apps : clicks'[b] = IF b = frame[c].app THEN 1 ELSE clicks[b]
    BY <1>3, <2>1 DEF Clicks, Base, TypeOK
  <2>3. \A d \in Calls : frame'[d].pc \in InFlight =>
          /\ frame[d].pc \in InFlight /\ frame'[d].app = frame[d].app
          /\ frame'[d].pc = "clicking" => d # c /\ frame[d].pc = "clicking"
    BY <1>3 DEF Clicks, Kept, InFlight, Settling
  <2>4. ASSUME NEW d \in Calls, frame'[d].pc \in InFlight
        PROVE  /\ attempt'[frame'[d].app] = "reserved"
               /\ frame'[d].pc = "clicking" => clicks'[frame'[d].app] = 0
    <3>1. CASE d = c
      BY <1>3, <2>1, <3>1 DEF Clicks
    <3>2. CASE d # c
      <4>1. frame[d].app \in Apps /\ frame[d].app # frame[c].app
        BY <1>3, <2>3, <2>4, <3>2, InFlightApp DEF Clicks, ClickInv, InFlight
      <4> QED BY <1>3, <2>2, <2>3, <2>4, <3>2, <4>1 DEF Clicks, ClickInv
    <3> QED BY <3>1, <3>2
  <2>5. \A b \in Apps : clicks'[b] <= 1 /\ (attempt'[b] = "none" => clicks'[b] = 0)
    BY <1>3, <2>1, <2>2 DEF Clicks, ClickInv
  <2> QED BY <2>3, <2>4, <2>5 DEF ClickInv
<1>4. ASSUME NEW c \in Calls, Settles(c) PROVE ClickInv'
  <2>1. frame[c].app \in Apps /\ attempt[frame[c].app] = "reserved"
          /\ frame[c].pc \in InFlight
    BY <1>4, InFlightApp DEF Settles, ClickInv, InFlight, Settling
  <2>2. \A b \in Apps : attempt'[b] = IF b = frame[c].app THEN Outcome(c) ELSE attempt[b]
    BY <1>4, <2>1 DEF Settles, Base, TypeOK
  <2>3. \A d \in Calls : frame'[d].pc \in InFlight =>
          /\ d # c /\ frame[d].pc \in InFlight /\ frame'[d].app = frame[d].app
          /\ frame'[d].pc = "clicking" => frame[d].pc = "clicking"
          /\ frame[d].app \in Apps /\ frame[d].app # frame[c].app
    <3> SUFFICES ASSUME NEW d \in Calls, frame'[d].pc \in InFlight
                 PROVE  /\ d # c /\ frame[d].pc \in InFlight /\ frame'[d].app = frame[d].app
                        /\ frame'[d].pc = "clicking" => frame[d].pc = "clicking"
                        /\ frame[d].app \in Apps /\ frame[d].app # frame[c].app
      OBVIOUS
    <3>1. /\ d # c /\ frame[d].pc \in InFlight /\ frame'[d].app = frame[d].app
          /\ frame'[d].pc = "clicking" => frame[d].pc = "clicking"
      BY <1>4 DEF Settles, Kept, InFlight, Settling
    <3> QED BY <2>1, <3>1, InFlightApp DEF ClickInv
  <2>4. clicks' = clicks /\ Outcome(c) # "none"
    BY <1>4 DEF Settles, Outcome
  <2> QED BY <2>1, <2>2, <2>3, <2>4 DEF ClickInv
<1> QED BY <1>1, <1>2, <1>3, <1>4, StepKinds DEF Kind

LEMMA ClickInductive == Spec => [](Base /\ ClickInv)
<1>1. Init => Base /\ ClickInv
  BY InitBase, ClickInitially
<1>2. Base /\ ClickInv /\ [Next]_vars => Base' /\ ClickInv'
  BY NextBase, ClickStep
<1> QED BY <1>1, <1>2, PTL DEF Spec

\* docs/application-lifecycle.md:20 "the single browser click": whatever calls,
\* lapsed locks, stale copies, cancellations and crashes come together.
THEOREM OneClick == Spec => []OneClickPerApplication
<1>1. ClickInv => OneClickPerApplication
  BY DEF ClickInv, OneClickPerApplication
<1> QED BY <1>1, ClickInductive, PTL

-----------------------------------------------------------------------------
(* The attempts keep the promise of AtMostOnce. *)

LEMMA AttemptsInitially == Init => Promise!Init
<1> SUFFICES ASSUME Init PROVE Promise!Init
  OBVIOUS
<1>1. [a \in Apps |-> AttemptPhase(attempt[a])] = [a \in Apps |-> "new"]
  BY DEF Init, AttemptPhase
<1> QED BY <1>1 DEF Init, Promise!Init

\* Every step hands in, starts or settles one attempt, or touches none.
LEMMA AttemptsStep ==
  ASSUME Base, ClickInv, [Next]_vars
  PROVE  [Promise!Next]_<<[a \in Apps |-> AttemptPhase(attempt[a])], clicks>>
<1> DEFINE phase == [a \in Apps |-> AttemptPhase(attempt[a])]
<1>1. CASE Quiet
  BY <1>1 DEF Quiet
<1>2. ASSUME NEW c \in Calls, NEW a \in Apps, Reserves(c, a) PROVE Promise!HandIn(a)
  <2>1. phase[a] = "new"
    BY <1>2 DEF Reserves, AttemptPhase
  <2>2. phase' = [phase EXCEPT ![a] = "open"]
    BY <1>2 DEF Reserves, AttemptPhase, Base, TypeOK
  <2> QED BY <1>2, <2>1, <2>2 DEF Promise!HandIn, Reserves
<1>3. ASSUME NEW c \in Calls, Clicks(c) PROVE Promise!Start(frame[c].app)
  <2>1. frame[c].app \in Apps /\ attempt[frame[c].app] = "reserved"
          /\ clicks[frame[c].app] = 0
    BY <1>3, InFlightApp DEF Clicks, ClickInv, InFlight
  <2>2. phase[frame[c].app] = "open" /\ phase' = phase
    BY <1>3, <2>1 DEF Clicks, AttemptPhase
  <2>3. clicks' = [clicks EXCEPT ![frame[c].app] = 1]
    BY <1>3, <2>1 DEF Clicks, Base, TypeOK
  <2> QED BY <2>1, <2>2, <2>3 DEF Promise!Start
<1>4. ASSUME NEW c \in Calls, Settles(c) PROVE Promise!Settle(frame[c].app)
  <2>1. frame[c].app \in Apps /\ attempt[frame[c].app] = "reserved"
    BY <1>4, InFlightApp DEF Settles, ClickInv, InFlight, Settling
  <2>2. PICK outcome \in {"completed", "uncertain"} :
          attempt' = [attempt EXCEPT ![frame[c].app] = outcome]
    BY <1>4, <2>1 DEF Settles, Outcome
  <2>3. phase[frame[c].app] = "open" /\ phase' = [phase EXCEPT ![frame[c].app] = "settled"]
    BY <2>1, <2>2 DEF AttemptPhase, Base, TypeOK
  <2> QED BY <1>4, <2>3 DEF Promise!Settle, Settles
<1>5. ASSUME NEW c \in Calls, Clicks(c) \/ Settles(c) PROVE frame[c].app \in Apps
  BY <1>5, InFlightApp DEF Clicks, Settles, InFlight, Settling
<1> QED BY <1>1, <1>2, <1>3, <1>4, <1>5, StepKinds DEF Kind, Promise!Next

\* An attempt is reserved once, clicked at most once and only while it is
\* reserved, and keeps its outcome: docs/browser-worker.md:5.
THEOREM AttemptsKeepPromise == Spec => AttemptsAtMostOnce
<1>1. Init => Promise!Init
  BY AttemptsInitially
<1>2. Base /\ ClickInv /\ [Next]_vars
        => [Promise!Next]_<<[a \in Apps |-> AttemptPhase(attempt[a])], clicks>>
  BY AttemptsStep
<1> QED BY <1>1, <1>2, ClickInductive, PTL DEF Spec, AttemptsAtMostOnce, Promise!Spec

=============================================================================
