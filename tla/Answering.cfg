\* Every request to both services, one after the other.
SPECIFICATION Spec
CONSTANT
  None = None
INVARIANTS
  AlwaysAnswered
  AnswerTellsEffect
  GoodAnswersKeepConnection
