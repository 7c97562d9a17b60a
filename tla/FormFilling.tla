----------------------------- MODULE FormFilling -----------------------------
(***************************************************************************)
(* One application at the level of its form: prepareOnce()'s fields and     *)
(* answers, fillOnce() with WuzzufAdapter.fillFields(), and the checks of   *)
(* submitOnce() before the click.  Controls are addressed by their place in *)
(* the form, one await at a time, while the site may render another form,   *)
(* take it away for a while or bring it back, and the user may type.        *)
(* Approval and overlapping calls are Submission's: here one call is made   *)
(* at a time, by a user who approves what is ready.                         *)
(***************************************************************************)
EXTENDS Naturals, SequencesExt, FiniteSetsExt

CONSTANTS
  Questions,
  Sensitive,         \* the questions isSensitiveField() recognises
  Facts,             \* the profile: question -> its verified value, or Blank
  Forms,             \* the forms a site may first show
  MaxFills, MaxChanges,   \* bounds
  Blank, None

Texts == {"yes", "no", "other"}   \* what an answer may say
Kinds == {"text", "checkbox", "radio"}
Truth == [t \in Texts |-> CASE t = "yes" -> "true" [] t = "no" -> "false" [] OTHER -> Blank]
Control == [question : Questions, kind : Kinds, option : Texts \cup {Blank},
            value : Texts \cup {Blank, "true", "false"}]

ASSUME FormAssumption ==
  /\ Sensitive \subseteq Questions
  /\ Facts \in [Questions -> Texts \cup {Blank}]
  /\ Forms \subseteq Seq(Control) \ {<<>>}
  /\ MaxFills \in Nat /\ MaxChanges \in Nat
  /\ Blank \notin Texts \cup {"true", "false"}

(* What prepareQuestions() makes of a field, and the record of them all.     *)
Field == [question : Questions, option : Texts \cup {Blank}, kind : Kinds]
Answer == [field : Field, value : Texts \cup {Blank}, ok : BOOLEAN]
RecordStates == {"WAITING_FOR_APPROVAL", "VALIDATING", "READY_TO_SUBMIT", "FORM_CHANGED",
                 "SUBMITTING", "SUBMITTED"}
FormRecord ==
  [state : RecordStates, fields : Seq(Field), dryRun : BOOLEAN, answers : Seq(Answer),
   filled : SUBSET Field, skipped : SUBSET Field,
   valueHash : Seq(Kinds \X (Texts \cup {Blank, "true", "false"})) \cup {None}]
FillCall ==
  [pc : {"locating", "typing", "validating", "reading"}, dry : BOOLEAN, answers : Seq(Answer),
   next : Nat \ {0}, filled : SUBSET Field, skipped : SUBSET Field, valid : BOOLEAN]
SubmitCall == [pc : {"comparing", "clicking"}]
Idle == [pc |-> "idle"]

ASSUME NothingPrepared == None \notin FormRecord \cup Seq(Control)

VARIABLES
  form, shown,   \* the page: the controls of its form, and whether it is there
  record,        \* the stored PreparedApplicationRecord
  call,          \* the fill or the submission in progress
  sent,          \* the form that was submitted
  edited,        \* the page changed after the submission compared its fields (history)
  fills, changes

pageVars == <<form, shown, edited, changes>>
formVars == <<pageVars, record, call, sent, fills>>

(* A field as collectFields() reports it and the fingerprint hashes it: a   *)
(* label, which ends in the option for a radio button, and a type.          *)
Shape(f) == [i \in DOMAIN f |-> [question |-> f[i].question, option |-> f[i].option,
                                 kind |-> f[i].kind]]

(* formValueHash(): the values in the order of their places.                *)
ValueHash(f) == [i \in DOMAIN f |-> <<f[i].kind, f[i].value>>]

(* prepareQuestions(): a verified fact, or a draft of the model that needs   *)
(* confirmation (the draft's text is left out).                              *)
Prepared(field) ==
  [field |-> field, value |-> Facts[field.question],
   ok |-> Facts[field.question] # Blank /\ field.question \notin Sensitive]

(* An approved override gives the value of every answer of its label; a      *)
(* sensitive question is never overridden.                                   *)
Overridden(answers, label, value) ==
  [i \in DOMAIN answers |->
     IF answers[i].field = label /\ label.question \notin Sensitive
       THEN [answers[i] EXCEPT !.value = value, !.ok = TRUE] ELSE answers[i]]

FormInit ==
  /\ form \in Forms /\ shown = TRUE
  /\ record = None /\ call = Idle /\ sent = None
  /\ edited = FALSE /\ fills = 0 /\ changes = 0

PrepareForm(dry) ==
  /\ record = None /\ shown
  /\ record' = [state |-> "WAITING_FOR_APPROVAL", fields |-> Shape(form), dryRun |-> dry,
                answers |-> [i \in DOMAIN form |-> Prepared(Shape(form)[i])],
                filled |-> {}, skipped |-> {}, valueHash |-> None]
  /\ UNCHANGED <<pageVars, call, sent, fills>>

(* invalidateChangedForm(): the record is of no more use.                    *)
FormChanged(r) == [r EXCEPT !.state = "FORM_CHANGED"]

-----------------------------------------------------------------------------
(* fillOnce(): the form is compared first; advance() then refuses a record   *)
(* that is past its first fill.                                              *)
FillChecks(dry, answers) ==
  /\ record # None /\ call = Idle /\ fills < MaxFills /\ shown
  /\ record.state \in {"WAITING_FOR_APPROVAL", "VALIDATING", "READY_TO_SUBMIT"}
  /\ fills' = fills + 1
  /\ \/ /\ Shape(form) # record.fields
        /\ record' = FormChanged(record) /\ UNCHANGED call
     \/ /\ Shape(form) = record.fields /\ record.state = "WAITING_FOR_APPROVAL"
        /\ call' = [pc |-> "locating", dry |-> dry, answers |-> answers,
                    next |-> 1, filled |-> {}, skipped |-> {}, valid |-> FALSE]
        /\ UNCHANGED record
  /\ UNCHANGED <<pageVars, sent>>

FillBegins(dry) ==
  /\ record # None
  /\ \/ FillChecks(dry, record.answers)
     \/ \E i \in DOMAIN record.fields, v \in Texts :
          FillChecks(dry, Overridden(record.answers, record.fields[i], v))

(* fillFields() looks for the form; without one it returns with nothing      *)
(* filled and nothing skipped.                                               *)
Locates ==
  /\ call.pc = "locating"
  /\ call' = [call EXCEPT !.pc = IF shown THEN "typing" ELSE "validating"]
  /\ UNCHANGED <<pageVars, record, sent, fills>>

(* What one answer does to the control at its place.  A radio button is      *)
(* checked for the option of the label that was reviewed, for its own value  *)
(* or for a yes.                                                             *)
Usable(answer) == answer.value # Blank /\ answer.ok
Accepts(control, answer) ==
  CASE control.kind = "checkbox" -> Truth[answer.value] # Blank
    [] control.kind = "radio" -> \/ answer.value \in {answer.field.option, control.option}
                                 \/ Truth[answer.value] = "true"
    [] OTHER -> TRUE
Typed(f, i, answer) ==
  CASE f[i].kind = "text" -> [f EXCEPT ![i].value = answer.value]
    [] f[i].kind = "checkbox" -> [f EXCEPT ![i].value = Truth[answer.value]]
    [] OTHER -> [j \in DOMAIN f |->
         IF f[j].kind = "radio" /\ f[j].question = f[i].question
           THEN [f[j] EXCEPT !.value = IF j = i THEN "true" ELSE "false"] ELSE f[j]]

TypesNext ==
  /\ call.pc = "typing"
  /\ LET i == call.next
         answer == call.answers[i]
         there == Usable(answer) /\ shown /\ i \in DOMAIN form
         fills_ == there /\ (call.dry \/ Accepts(form[i], answer))
     IN /\ form' = IF fills_ /\ ~call.dry THEN Typed(form, i, answer) ELSE form
        /\ call' = [call EXCEPT
             !.pc = IF i = Len(call.answers) THEN "validating" ELSE "typing",
             !.next = i + 1,
             !.filled = IF fills_ THEN @ \cup {answer.field} ELSE @,
             !.skipped = IF fills_ THEN @ ELSE @ \cup {answer.field}]
  /\ UNCHANGED <<shown, edited, changes, record, sent, fills>>

(* An abort, a control that went away under the driver, a check page: the    *)
(* fill ends with an error, the record as stored, the typed values typed.    *)
FillThrows ==
  /\ call.pc \in {"typing", "validating", "reading"}
  /\ call' = Idle
  /\ UNCHANGED <<pageVars, record, sent, fills>>

(* skippedFields: what the fill skipped and every sensitive question.        *)
SensitiveFields(r) == {r.answers[i].field : i \in DOMAIN r.answers}
                        \cap {f \in ToSet(r.fields) : f.question \in Sensitive}
SkippedByTheFill(r) == call.skipped
SkippedFields(r) == call.skipped \cup SensitiveFields(r)

FilledRecord(r) ==
  [r EXCEPT !.answers = call.answers, !.filled = call.filled,
            !.skipped = SkippedFields(r), !.dryRun = r.dryRun \/ call.dry,
            !.state = IF call.valid THEN "READY_TO_SUBMIT" ELSE "VALIDATING"]

(* validate(): the page's own verdict; a dry run ends here.                  *)
Validates(valid) ==
  /\ call.pc = "validating"
  /\ IF call.dry
       THEN /\ record' = [FilledRecord(record) EXCEPT
                            !.state = IF valid THEN "READY_TO_SUBMIT" ELSE "VALIDATING"]
            /\ call' = Idle
       ELSE /\ call' = [call EXCEPT !.pc = "reading", !.valid = valid] /\ UNCHANGED record
  /\ UNCHANGED <<pageVars, sent, fills>>

(* filledValueMismatches(): the answers of filled labels whose control does  *)
(* not hold what the answer says.                                            *)
Expected(control, answer) ==
  CASE control.kind = "checkbox" -> Truth[answer.value]
    [] control.kind = "radio" -> "true"
    [] OTHER -> answer.value
Holds(control, answer) == control.value = Expected(control, answer)
MismatchesIgnored(answers, filled) == {}
Mismatches(answers, filled) ==
  {i \in DOMAIN answers : answers[i].field \in filled
                            /\ ~(i \in DOMAIN form /\ Holds(form[i], answers[i]))}

(* collectFieldValues(), the comparison and the save of the record.          *)
Reads ==
  /\ call.pc = "reading" /\ shown
  /\ record' = IF Mismatches(call.answers, call.filled) # {}
                 THEN FormChanged(FilledRecord(record))
                 ELSE [FilledRecord(record) EXCEPT !.valueHash = ValueHash(form)]
  /\ call' = Idle
  /\ UNCHANGED <<pageVars, sent, fills>>

-----------------------------------------------------------------------------
(* submitOnce(), once assertReadyForApproval() and the approval let it: the  *)
(* fields, then the values, then the click.                                  *)
SubmitChecksForm ==
  /\ record # None /\ call = Idle /\ shown
  /\ record.state = "READY_TO_SUBMIT" /\ ~record.dryRun /\ record.skipped = {}
  /\ IF Shape(form) = record.fields
       THEN call' = [pc |-> "comparing"] /\ edited' = FALSE /\ UNCHANGED record
       ELSE record' = FormChanged(record) /\ UNCHANGED <<call, edited>>
  /\ UNCHANGED <<form, shown, changes, sent, fills>>

SubmitChecksValues ==
  /\ call.pc = "comparing" /\ shown
  /\ IF ValueHash(form) = record.valueHash
       THEN call' = [pc |-> "clicking"] /\ UNCHANGED record
       ELSE record' = FormChanged(record) /\ call' = Idle
  /\ UNCHANGED <<pageVars, sent, fills>>

SubmitClicks ==
  /\ call.pc = "clicking" /\ shown
  /\ sent' = form /\ call' = Idle
  /\ record' = [record EXCEPT !.state = "SUBMITTED"]
  /\ UNCHANGED <<pageVars, fills>>

(* The form is gone or invalid: before the reservation the record stays      *)
(* ready, after it the record stays SUBMITTING.                              *)
SubmitThrows ==
  /\ call.pc \in {"comparing", "clicking"}
  /\ call' = Idle
  /\ \/ UNCHANGED record
     \/ call.pc = "clicking" /\ record' = [record EXCEPT !.state = "SUBMITTING"]
  /\ UNCHANGED <<pageVars, sent, fills>>

-----------------------------------------------------------------------------
(* The page, between any two steps of a call.                                *)
Swapped(f, i) == [f EXCEPT ![i] = f[i + 1], ![i + 1] = f[i]]
Blanked(c) == [c EXCEPT !.value = IF c.kind = "text" THEN Blank ELSE "false"]
Renderings(f) ==
  {Swapped(f, i) : i \in 1..(Len(f) - 1)}
    \cup {RemoveAt(f, i) : i \in IF Len(f) > 1 THEN DOMAIN f ELSE {}}
    \cup {InsertAt(f, i, Blanked(f[i])) : i \in DOMAIN f}
    \cup {[f EXCEPT ![i] = Blanked(f[i])] : i \in DOMAIN f}

PageChanges ==
  /\ changes < MaxChanges /\ sent = None
  /\ changes' = changes + 1 /\ edited' = TRUE
  /\ UNCHANGED <<record, call, sent, fills>>

Rerenders == shown /\ form' \in Renderings(form) /\ UNCHANGED shown /\ PageChanges
GoesOrComes == shown' = ~shown /\ UNCHANGED form /\ PageChanges
UserTypes ==
  /\ shown
  /\ \E i \in DOMAIN form : form[i].kind = "text" /\ \E v \in Texts :
       form' = [form EXCEPT ![i].value = v]
  /\ UNCHANGED shown /\ PageChanges

FormNext ==
  \/ \E dry \in BOOLEAN : PrepareForm(dry) \/ FillBegins(dry)
  \/ Locates \/ TypesNext \/ FillThrows \/ Reads
  \/ \E valid \in BOOLEAN : Validates(valid)
  \/ SubmitChecksForm \/ SubmitChecksValues \/ SubmitClicks \/ SubmitThrows
  \/ Rerenders \/ GoesOrComes \/ UserTypes

FormSpec == FormInit /\ [][FormNext]_formVars

-----------------------------------------------------------------------------
(* An answer the record calls filled is in the form that is submitted, at    *)
(* the control whose label the user reviewed, unless the page changes after  *)
(* the submission has compared its fields: index-addressed typing into a     *)
(* form that is rendered anew meanwhile is always caught.                    *)
FilledAnswersAreSent ==
  sent # None /\ ~edited =>
    /\ Shape(sent) = record.fields
    /\ \A i \in DOMAIN record.answers :
         record.answers[i].field \in record.filled => Holds(sent[i], record.answers[i])

(* A form that asked a sensitive question when it was prepared is never      *)
(* submitted by the program, whatever the fill found on the page.            *)
SensitiveFormsStayManual ==
  sent # None => \A i \in DOMAIN record.fields : record.fields[i].question \notin Sensitive

(* Every answer the user reviewed is in the form that is submitted. It does  *)
(* not hold: a fill that finds no form fills and skips nothing.              *)
EveryAnswerIsSent ==
  sent # None /\ ~edited => \A i \in DOMAIN record.answers : record.answers[i].field \in record.filled

(* The types of the variables.                                               *)
FormTypeOK ==
  /\ form \in Seq(Control)
  /\ shown \in BOOLEAN /\ edited \in BOOLEAN
  /\ record \in FormRecord \cup {None}
  /\ call \in FillCall \cup SubmitCall \cup {Idle}
  /\ sent \in Seq(Control) \cup {None}
  /\ fills \in 0..MaxFills /\ changes \in 0..MaxChanges
==============================================================================
