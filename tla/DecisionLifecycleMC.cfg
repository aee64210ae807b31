SPECIFICATION LifecycleSpec
CONSTANT DecisionId = {d1, d2, d3}
INVARIANTS
  LifecycleInv
  NoIllegalTransition
  SendsAcceptable
  AgreesWithService
PROPERTY DoneIsFinal
