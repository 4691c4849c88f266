\* One exception, two people and one run at the same time.
SPECIFICATION Spec
CONSTANTS
  p1 = p1  p2 = p2  r1 = r1  r2 = r2
  Keys = {"k"}
  Facts = {"f1", "f2"}
  Members = {"u"}
  Persons = {p1, p2}
  Runs = {r1}
  NoIssue = NoIssue
  Nobody = Nobody
CONSTRAINT Bounded
SYMMETRY Symmetry
INVARIANT QueueMirrors
PROPERTY RunDiscipline
