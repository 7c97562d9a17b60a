---------------------------- MODULE MCFormFilling ----------------------------
(* Three questions of which one is sensitive, four forms of two controls, two   *)
(* fills and three changes of the page.                                         *)
EXTENDS FormFilling

CONSTANTS skills, remote, salary

Text(q) == [question |-> q, kind |-> "text", option |-> Blank, value |-> Blank]
Checkbox(q) == [question |-> q, kind |-> "checkbox", option |-> Blank, value |-> "false"]
Radio(q, o) == [question |-> q, kind |-> "radio", option |-> o, value |-> "false"]

MCFacts == (skills :> "other") @@ (remote :> "yes") @@ (salary :> "no")
MCForms == {<<Text(skills), Text(remote)>>, <<Checkbox(remote), Text(skills)>>,
            <<Radio(remote, "no"), Radio(remote, "yes")>>, <<Text(remote), Text(salary)>>}
==============================================================================
