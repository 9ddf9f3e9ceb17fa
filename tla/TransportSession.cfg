SPECIFICATION Spec
CONSTANTS
    MaxCommands = 3
INVARIANTS TypeOK SuccessIsTheTPMs StackRestored EnonceInStep 
CHECK_DEADLOCK FALSE
