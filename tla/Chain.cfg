SPECIFICATION Spec
CONSTANT N = 3
\* A chain has ended when it has called back.
CHECK_DEADLOCK FALSE
INVARIANTS
  TypeOK
  CalledBackOnce
  FirstOutcomeReported
  CaughtOncePerLayer
PROPERTIES
  AskedInOrder
  ImplementsCall
  ChainConcludes
