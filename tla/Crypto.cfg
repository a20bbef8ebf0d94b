SPECIFICATION Spec
INVARIANT ComesBack
INVARIANT HonestPass
INVARIANT OneChallenge
INVARIANT Opens
CHECK_DEADLOCK FALSE
