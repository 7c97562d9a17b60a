SPECIFICATION FormSpec
CONSTANTS
  skills = skills
  remote = remote
  salary = salary
  Questions = {skills, remote, salary}
  Sensitive = {salary}
  Facts <- MCFacts
  Forms <- MCForms
  MaxFills = 2
  MaxChanges = 3
  Blank = Blank
  None = None
INVARIANTS
  FilledAnswersAreSent
  SensitiveFormsStayManual
CHECK_DEADLOCK FALSE
