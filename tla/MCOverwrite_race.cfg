SPECIFICATION Spec
CONSTANT A = "A"
CONSTANT Later = "Later"
CONSTANT Worker = {"A", "B", "C"}
CONSTANT Scenarios <- Everything
INVARIANT Inv
INVARIANT AnswerStands
INVARIANT ScriptedOutcome
