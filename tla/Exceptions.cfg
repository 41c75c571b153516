SPECIFICATION Spec
\* A request has ended when every function has returned or called back later.
CHECK_DEADLOCK FALSE
INVARIANTS
  TypeOK
  PassedOnOnce
  LostBehindLaterCallback
PROPERTY PassedOnOrLost
