SPECIFICATION Spec
INVARIANT
  ArgumentsAccepted
\* The script ends.
CHECK_DEADLOCK FALSE
