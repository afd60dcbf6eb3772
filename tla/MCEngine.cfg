\* three actions, the second a service action without a rollback operation
CONSTANTS
    N = 3
    NoopRollback = {2}
SPECIFICATION EngineSpec
INVARIANTS RolledBackIsProof ProofBeforeNextAction NothingLeftSilently
PROPERTIES EngineIsBounded EngineTerminates ImplementsAtomicTx
CHECK_DEADLOCK FALSE
