SPECIFICATION Spec
CONSTANT wrkMaxValidationAttemps = 4
CHECK_DEADLOCK FALSE
INVARIANT FalseIsNotAnError
